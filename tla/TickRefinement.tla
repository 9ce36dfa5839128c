--------------------------- MODULE TickRefinement ---------------------------
(***************************************************************************)
(* TickState with a history variable, the list of the session's ticks, so  *)
(* that it can be compared with WholeTicks: the answer of CompleteTick is  *)
(* at every moment the newest whole tick of that list.                     *)
(***************************************************************************)
EXTENDS TickState, Sequences

VARIABLE ticks  \* every tick of the session, oldest first (history variable)

hvars == <<tickVars, ticks>>

Promise == INSTANCE WholeTicks WITH answer <- complete

HInit == TickInit /\ ticks = <<>>

HPut(i, t, r) ==
    /\ Put(i, t, r)
    /\ ticks' = Promise!Reported(ticks, i, t, r)

HReset ==
    /\ Reset
    /\ ticks' = <<>>

HNext ==
    \/ \E i \in Island, t \in Stamp, r \in Rev : HPut(i, t, r)
    \/ HReset

HSpec == HInit /\ [][HNext]_hvars

(***************************************************************************)
(* CompleteTick answers with the newest tick known to be whole: never one  *)
(* that lacks an island reported in it, never a tick older than the one    *)
(* before the tick being received, and nothing before the first boundary   *)
(* of a session (state.go:89-127, state.go:164-178).                       *)
(***************************************************************************)
ImplementsWholeTicks == Promise!Spec
=============================================================================

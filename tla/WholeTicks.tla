----------------------------- MODULE WholeTicks -----------------------------
(***************************************************************************)
(* What internal/state promises of CompleteTick, stated without the        *)
(* bookkeeping that computes it: the session is the list of its ticks, in  *)
(* arrival order, and the answer is the newest tick known to be whole.     *)
(* TickState is shown to implement this specification.                     *)
(***************************************************************************)
EXTENDS Naturals, Sequences, FiniteSets

CONSTANTS
    Island,  \* the islands the game may report
    Stamp,   \* game timestamps, the only tick identity the protocol has
    Rev,     \* which of several reports of one island this is
    NoTick   \* the answer while no tick is known to be whole

VARIABLES
    ticks,   \* the ticks of this session, oldest first
    answer   \* what CompleteTick returns

Snapshot == [stamp : Stamp, rev : Rev]

(***************************************************************************)
(* The partial function f with i mapped to s.                              *)
(***************************************************************************)
With(f, i, s) == [j \in DOMAIN f \cup {i} |-> IF j = i THEN s ELSE f[j]]

NoIslands == [j \in {} |-> NoTick]

Seen(ts) == UNION {DOMAIN ts[k].islands : k \in 1 .. Len(ts)}

(***************************************************************************)
(* The first tick of a session proves nothing about which islands exist.   *)
(* Any later tick is whole as soon as every island the session has ever    *)
(* reported is in it; until then the tick before it is the newest whole    *)
(* one, because its successor's timestamp ended it.                        *)
(***************************************************************************)
NewestWhole(ts) ==
    IF Len(ts) < 2 THEN NoTick
    ELSE IF DOMAIN ts[Len(ts)].islands = Seen(ts) THEN ts[Len(ts)]
    ELSE ts[Len(ts) - 1]

Init ==
    /\ ticks = <<>>
    /\ answer = NoTick

(***************************************************************************)
(* A report with the timestamp of the latest tick joins it, replacing an   *)
(* earlier report of the same island; any other timestamp begins a tick.   *)
(***************************************************************************)
Joins(ts, t) == ts # <<>> /\ ts[Len(ts)].stamp = t

Reported(ts, i, t, r) ==
    LET snap == [stamp |-> t, rev |-> r]
    IN IF Joins(ts, t)
       THEN [ts EXCEPT ![Len(ts)] =
                [stamp |-> t, islands |-> With(ts[Len(ts)].islands, i, snap)]]
       ELSE Append(ts, [stamp |-> t, islands |-> With(NoIslands, i, snap)])

Report(i, t, r) ==
    /\ ticks' = Reported(ticks, i, t, r)
    /\ answer' = NewestWhole(ticks')

Forget ==
    /\ ticks' = <<>>
    /\ answer' = NoTick

Next ==
    \/ \E i \in Island, t \in Stamp, r \in Rev : Report(i, t, r)
    \/ Forget

vars == <<ticks, answer>>

Spec == Init /\ [][Next]_vars
=============================================================================

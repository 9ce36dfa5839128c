------------------------------ MODULE TickState ------------------------------
(***************************************************************************)
(* internal/state: the islands of the current session and the statistics   *)
(* tick they arrive in. Put and Reset run in the ingest goroutine under    *)
(* State.mu, so each is one step; CompleteTick and Islands copy under the  *)
(* read lock and therefore see one of the states below.                    *)
(*                                                                         *)
(* A tick is a Go struct holding a map. "complete = receiving" copies the  *)
(* struct, so both then hold the same map; `shared' says whether they do.  *)
(***************************************************************************)
EXTENDS Naturals, FiniteSets

CONSTANTS
    Island,  \* the islands the game may report (model.IslandKey)
    Stamp,   \* game timestamps (IslandSnapshot.GameTimestamp)
    Rev,     \* tells several reports of one island in one tick apart
    NoTick   \* a tick whose islands map is nil

VARIABLES
    islands,    \* the latest snapshot of every island, State.islands
    receiving,  \* the tick whose islands are arriving now
    complete,   \* the newest tick known to be whole
    shared      \* receiving and complete hold the same islands map

tickVars == <<islands, receiving, complete, shared>>

Snapshot == [stamp : Stamp, rev : Rev]

IslandMap == UNION {[D -> Snapshot] : D \in SUBSET Island}

Tick == [stamp : Stamp, islands : IslandMap]

(***************************************************************************)
(* Only finitely many islands exist, and the absent tick is no tick.       *)
(***************************************************************************)
ASSUME TickAssumption ==
    /\ IsFiniteSet(Island)
    /\ NoTick \notin Tick

(***************************************************************************)
(* The map f after f[i] = s.                                               *)
(***************************************************************************)
With(f, i, s) == [j \in DOMAIN f \cup {i} |-> IF j = i THEN s ELSE f[j]]

NoIslands == [j \in {} |-> NoTick]

-----------------------------------------------------------------------------

TickInit ==
    /\ islands = NoIslands
    /\ receiving = NoTick
    /\ complete = NoTick
    /\ shared = FALSE

(***************************************************************************)
(* A timestamp other than the receiving tick's ends that tick.             *)
(***************************************************************************)
Boundary(t) == receiving = NoTick \/ receiving.stamp # t

\* A snapshot keeps the islands of the tick before it.
MutOpenedKeepsIslands(i, snap) ==
    [stamp |-> snap.stamp,
     islands |-> With(IF receiving = NoTick THEN NoIslands ELSE receiving.islands, i, snap)]

(***************************************************************************)
(* The receiving tick once snap of island i is in it.                      *)
(***************************************************************************)
Opened(i, snap) ==
    [stamp |-> snap.stamp,
     islands |-> With(IF Boundary(snap.stamp) THEN NoIslands ELSE receiving.islands, i, snap)]

(***************************************************************************)
(* The complete tick after the boundary check and the write of snap: the   *)
(* tick just ended, or the old one - which snap is written to as well when *)
(* both ticks hold one map.                                                *)
(***************************************************************************)
Closed(i, snap) ==
    IF Boundary(snap.stamp) THEN (IF receiving # NoTick THEN receiving ELSE complete)
    ELSE IF shared THEN [complete EXCEPT !.islands = Opened(i, snap).islands]
    ELSE complete

\* Also in the first tick of a session.
MutEveryoneInFirstTick(opened, closed, known) ==
    Cardinality(DOMAIN opened.islands) = Cardinality(DOMAIN known)

\* Compared with the islands of the previous tick only.
MutEveryoneOfPreviousTick(opened, closed, known) ==
    /\ closed # NoTick
    /\ Cardinality(DOMAIN opened.islands) >= Cardinality(DOMAIN closed.islands)

(***************************************************************************)
(* Every island of the session has reported in the tick being received.    *)
(* The code compares two lengths.                                          *)
(***************************************************************************)
Everyone(opened, closed, known) ==
    /\ closed # NoTick
    /\ Cardinality(DOMAIN opened.islands) = Cardinality(DOMAIN known)

(***************************************************************************)
(* State.Put: store the snapshot of island i with timestamp t.             *)
(***************************************************************************)
Put(i, t, r) ==
    LET snap   == [stamp |-> t, rev |-> r]
        known  == With(islands, i, snap)
        opened == Opened(i, snap)
        closed == Closed(i, snap)
        whole  == Everyone(opened, closed, known)
    IN /\ islands' = known
       /\ receiving' = opened
       /\ complete' = IF whole THEN opened ELSE closed
       /\ shared' = (whole \/ (shared /\ ~Boundary(t)))

\* The ticks of the old session survive its end.
MutResetKeepsTicks ==
    /\ islands' = NoIslands
    /\ UNCHANGED <<receiving, complete, shared>>

(***************************************************************************)
(* State.Reset: a session boundary forgets every island and every tick.    *)
(***************************************************************************)
Reset ==
    /\ islands' = NoIslands
    /\ receiving' = NoTick
    /\ complete' = NoTick
    /\ shared' = FALSE

TickNext ==
    \/ \E i \in Island, t \in Stamp, r \in Rev : Put(i, t, r)
    \/ Reset

TickSpec == TickInit /\ [][TickNext]_tickVars

-----------------------------------------------------------------------------
(* Properties *)

(***************************************************************************)
(* Type invariant; no tick is complete before one was received.            *)
(***************************************************************************)
TickTypeOK ==
    /\ islands \in IslandMap
    /\ receiving \in Tick \cup {NoTick}
    /\ complete \in Tick \cup {NoTick}
    /\ shared \in BOOLEAN
    /\ receiving = NoTick => complete = NoTick

(***************************************************************************)
(* CompleteTick never mixes ticks (state.go:172): every snapshot of the    *)
(* complete tick carries that tick's timestamp, whatever order timestamps  *)
(* come and come back in.                                                  *)
(***************************************************************************)
CompleteNeverMixes ==
    complete # NoTick =>
        \A i \in DOMAIN complete.islands : complete.islands[i].stamp = complete.stamp

(***************************************************************************)
(* A tick that is complete while it is still arriving holds every island   *)
(* of the session, and goes on doing so: an island that is reported for    *)
(* the first time after that lands in the complete tick too (state.go:69). *)
(***************************************************************************)
EarlyHoldsEveryIsland ==
    (complete # NoTick /\ complete.stamp = receiving.stamp) =>
        /\ DOMAIN complete.islands = DOMAIN islands
        /\ complete = receiving

(***************************************************************************)
(* While a tick arrives, the complete tick is never newer than the tables: *)
(* an island's snapshot in the complete tick is its latest, or the latest  *)
(* one already belongs to the tick being received.                         *)
(***************************************************************************)
CompleteLagsAtMostOneTick ==
    complete # NoTick =>
        \A i \in DOMAIN complete.islands :
            /\ i \in DOMAIN islands
            /\ islands[i] # complete.islands[i] =>
                  i \in DOMAIN receiving.islands /\ receiving.stamp # complete.stamp

(***************************************************************************)
(* The inductive invariant behind the three.                               *)
(***************************************************************************)
OneStamp(tick) == \A i \in DOMAIN tick.islands : tick.islands[i].stamp = tick.stamp

TickInv ==
    /\ TickTypeOK
    /\ receiving # NoTick =>
          /\ OneStamp(receiving)
          /\ \A i \in DOMAIN receiving.islands :
                i \in DOMAIN islands /\ islands[i] = receiving.islands[i]
    /\ complete # NoTick =>
          /\ OneStamp(complete)
          /\ \A i \in DOMAIN complete.islands :
                /\ i \in DOMAIN islands
                /\ i \in DOMAIN receiving.islands \/ islands[i] = complete.islands[i]
          /\ ~shared => complete.stamp # receiving.stamp
    /\ shared =>
          /\ complete # NoTick
          /\ complete = receiving
          /\ DOMAIN receiving.islands = DOMAIN islands

=============================================================================

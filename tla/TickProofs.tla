----------------------------- MODULE TickProofs -----------------------------
(***************************************************************************)
(* Proofs about TickState and TickRefinement: CompleteTick keeps its       *)
(* promise for every set of islands and every order of timestamps.         *)
(***************************************************************************)
EXTENDS TickRefinement, FiniteSetTheorems, TLAPS

(***************************************************************************)
(* A map with one more entry is a map.                                     *)
(***************************************************************************)
LEMMA WithType ==
    ASSUME NEW f \in IslandMap, NEW i \in Island, NEW s \in Snapshot
    PROVE  /\ With(f, i, s) \in IslandMap
           /\ DOMAIN With(f, i, s) = DOMAIN f \cup {i}
           /\ With(f, i, s)[i] = s
           /\ \A j \in DOMAIN f : j # i => With(f, i, s)[j] = f[j]
<1>1. PICK D \in SUBSET Island : f \in [D -> Snapshot]
  BY DEF IslandMap
<1>2. With(f, i, s) \in [D \cup {i} -> Snapshot]
  BY <1>1 DEF With
<1>3. D \cup {i} \in SUBSET Island
  BY <1>1
<1>4. With(f, i, s) \in IslandMap
  BY <1>2, <1>3 DEF IslandMap
<1>5. QED
  BY <1>1, <1>4 DEF With

LEMMA NoIslandsType == NoIslands \in IslandMap /\ DOMAIN NoIslands = {}
<1>1. NoIslands \in [{} -> Snapshot]
  BY DEF NoIslands
<1>2. QED
  BY <1>1 DEF IslandMap, NoIslands

(***************************************************************************)
(* Comparing two lengths decides whether every island has reported: the    *)
(* islands of the receiving tick are islands of the session.               *)
(***************************************************************************)
LEMMA EveryoneByLength ==
    ASSUME NEW f \in IslandMap, NEW g \in IslandMap, DOMAIN f \subseteq DOMAIN g
    PROVE  Cardinality(DOMAIN f) = Cardinality(DOMAIN g) <=> DOMAIN f = DOMAIN g
<1>1. DOMAIN g \subseteq Island
  BY DEF IslandMap
<1>2. IsFiniteSet(DOMAIN g)
  BY <1>1, FS_Subset, TickAssumption
<1>3. Cardinality(DOMAIN g) = Cardinality(DOMAIN f) => DOMAIN g = DOMAIN f
  BY <1>2, FS_Subset
<1>4. QED
  BY <1>3

LEMMA TickParts ==
    ASSUME NEW tick \in Tick
    PROVE  /\ tick.stamp \in Stamp
           /\ tick.islands \in IslandMap
           /\ tick # NoTick
<1>1. QED
  BY TickAssumption DEF Tick

(***************************************************************************)
(* What Put writes, whichever tick it goes to: the receiving tick is a     *)
(* tick of one stamp that agrees with the tables.                          *)
(***************************************************************************)
LEMMA OpenedTick ==
    ASSUME TickInv, NEW i \in Island, NEW t \in Stamp, NEW r \in Rev,
           NEW snap, snap = [stamp |-> t, rev |-> r]
    PROVE  /\ snap \in Snapshot
           /\ Opened(i, snap) \in Tick
           /\ Opened(i, snap).stamp = t
           /\ i \in DOMAIN Opened(i, snap).islands
           /\ Opened(i, snap).islands[i] = snap
           /\ OneStamp(Opened(i, snap))
           /\ With(islands, i, snap) \in IslandMap
           /\ \A j \in DOMAIN Opened(i, snap).islands :
                 /\ j \in DOMAIN With(islands, i, snap)
                 /\ With(islands, i, snap)[j] = Opened(i, snap).islands[j]
           /\ ~Boundary(t) =>
                 /\ receiving \in Tick
                 /\ receiving.stamp = t
                 /\ DOMAIN Opened(i, snap).islands = DOMAIN receiving.islands \cup {i}
                 /\ \A j \in DOMAIN receiving.islands :
                       j # i => Opened(i, snap).islands[j] = receiving.islands[j]
<1>1. snap \in Snapshot /\ snap.stamp = t
  BY DEF Snapshot
<1> DEFINE base == IF Boundary(t) THEN NoIslands ELSE receiving.islands
<1>2. ~Boundary(t) => receiving \in Tick /\ receiving.stamp = t /\ receiving # NoTick
  BY DEF Boundary, TickInv, TickTypeOK
<1>3. base \in IslandMap
  BY <1>2, NoIslandsType, TickParts
<1>4. \A j \in DOMAIN base :
        j \in DOMAIN islands /\ base[j].stamp = t /\ islands[j] = base[j]
  BY <1>2, NoIslandsType DEF TickInv, OneStamp
<1>5. Opened(i, snap) = [stamp |-> t, islands |-> With(base, i, snap)]
  BY <1>1 DEF Opened
<1> HIDE DEF base
<1>6. /\ With(base, i, snap) \in IslandMap
      /\ DOMAIN With(base, i, snap) = DOMAIN base \cup {i}
      /\ With(base, i, snap)[i] = snap
      /\ \A j \in DOMAIN base : j # i => With(base, i, snap)[j] = base[j]
  BY <1>1, <1>3, WithType
<1>7. islands \in IslandMap
  BY DEF TickInv, TickTypeOK
<1>8. /\ With(islands, i, snap) \in IslandMap
      /\ DOMAIN With(islands, i, snap) = DOMAIN islands \cup {i}
      /\ With(islands, i, snap)[i] = snap
      /\ \A j \in DOMAIN islands : j # i => With(islands, i, snap)[j] = islands[j]
  BY <1>1, <1>7, WithType
<1>9. Opened(i, snap) \in Tick
  BY <1>5, <1>6 DEF Tick
<1>10. OneStamp(Opened(i, snap))
  BY <1>1, <1>4, <1>5, <1>6 DEF OneStamp
<1>11. ~Boundary(t) => base = receiving.islands
  BY DEF base
<1>12. QED
  BY <1>1, <1>2, <1>4, <1>5, <1>6, <1>8, <1>9, <1>10, <1>11

-----------------------------------------------------------------------------

LEMMA TickInvInit == TickInit => TickInv
<1>1. SUFFICES ASSUME TickInit PROVE TickInv
  OBVIOUS
<1>2. TickTypeOK
  BY <1>1, NoIslandsType DEF TickInit, TickTypeOK
<1>3. QED
  BY <1>1, <1>2 DEF TickInit, TickInv

(***************************************************************************)
(* Put: the invariant splits on whether the snapshot ends the receiving    *)
(* tick and on whether it makes the receiving tick whole.                  *)
(***************************************************************************)
LEMMA TickInvPut ==
    ASSUME TickInv, NEW i \in Island, NEW t \in Stamp, NEW r \in Rev, Put(i, t, r)
    PROVE  TickInv'
<1> DEFINE snap   == [stamp |-> t, rev |-> r]
           known  == With(islands, i, snap)
           opened == Opened(i, snap)
           closed == Closed(i, snap)
           whole  == Everyone(opened, closed, known)
<1>1. /\ islands' = known
      /\ receiving' = opened
      /\ complete' = IF whole THEN opened ELSE closed
      /\ shared' = (whole \/ (shared /\ ~Boundary(t)))
  BY DEF Put
<1>2. /\ snap \in Snapshot
      /\ opened \in Tick
      /\ opened.stamp = t
      /\ i \in DOMAIN opened.islands
      /\ OneStamp(opened)
      /\ known \in IslandMap
      /\ \A j \in DOMAIN opened.islands :
            j \in DOMAIN known /\ known[j] = opened.islands[j]
      /\ ~Boundary(t) =>
            /\ receiving \in Tick
            /\ receiving.stamp = t
            /\ DOMAIN opened.islands = DOMAIN receiving.islands \cup {i}
            /\ \A j \in DOMAIN receiving.islands :
                  j # i => opened.islands[j] = receiving.islands[j]
  BY OpenedTick
<1>3. /\ DOMAIN known = DOMAIN islands \cup {i}
      /\ \A j \in DOMAIN islands : j # i => known[j] = islands[j]
  BY <1>2, WithType DEF TickInv, TickTypeOK
<1>4. snap.stamp = t
  OBVIOUS
<1>5. opened # NoTick
  BY <1>2, TickParts
<1>6. /\ opened.islands \in IslandMap
      /\ DOMAIN opened.islands \subseteq DOMAIN known
  BY <1>2, TickParts
<1> HIDE DEF snap, known, opened, closed, whole
<1>7. whole => closed # NoTick /\ DOMAIN opened.islands = DOMAIN known
  BY <1>2, <1>6, EveryoneByLength DEF whole, Everyone
<1>8. CASE whole
  <2>1. /\ complete' = opened /\ receiving' = opened
        /\ islands' = known /\ shared' = TRUE
    BY <1>1, <1>8
  <2>2. TickTypeOK'
    BY <1>2, <1>5, <2>1 DEF TickTypeOK
  <2>3. OneStamp(receiving)' /\ OneStamp(complete)'
    BY <1>2, <2>1 DEF OneStamp
  <2>4. QED
    BY <1>2, <1>5, <1>7, <1>8, <2>1, <2>2, <2>3 DEF TickInv
<1>9. CASE ~whole /\ Boundary(t)
  <2>1. closed = IF receiving # NoTick THEN receiving ELSE complete
    BY <1>4, <1>9 DEF closed, Closed
  <2>2. closed = receiving
    BY <2>1 DEF TickInv, TickTypeOK
  <2>3. complete' = receiving /\ receiving' = opened /\ islands' = known /\ shared' = FALSE
    BY <1>1, <1>9, <2>2
  <2>4. TickTypeOK'
    BY <1>2, <1>5, <2>3 DEF TickTypeOK, TickInv
  <2>5. receiving' # NoTick /\ OneStamp(receiving)'
    BY <1>2, <1>5, <2>3 DEF OneStamp
  <2>6. ASSUME complete' # NoTick
        PROVE  /\ OneStamp(complete)'
               /\ \A j \in DOMAIN complete'.islands :
                     /\ j \in DOMAIN islands'
                     /\ j \in DOMAIN receiving'.islands \/ islands'[j] = complete'.islands[j]
               /\ complete'.stamp # receiving'.stamp
    <3>1. receiving # NoTick /\ receiving.stamp # t
      BY <1>9, <2>3, <2>6 DEF Boundary
    <3>2. OneStamp(complete)'
      BY <2>3, <3>1 DEF TickInv, OneStamp
    <3>3. \A j \in DOMAIN receiving.islands :
            /\ j \in DOMAIN known
            /\ j \in DOMAIN opened.islands \/ known[j] = receiving.islands[j]
      BY <1>2, <1>3, <3>1 DEF TickInv
    <3>4. QED
      BY <1>2, <2>3, <3>1, <3>2, <3>3
  <2>7. QED
    BY <1>2, <2>3, <2>4, <2>5, <2>6 DEF TickInv
<1>10. CASE ~whole /\ ~Boundary(t) /\ shared
  <2>1. complete = receiving /\ complete # NoTick /\ DOMAIN receiving.islands = DOMAIN islands
    BY <1>10 DEF TickInv
  <2>2. closed = [complete EXCEPT !.islands = opened.islands]
    BY <1>4, <1>10 DEF closed, Closed, opened
  <2>3. closed = opened
    BY <1>2, <1>10, <2>1, <2>2 DEF Tick
  <2>4. DOMAIN opened.islands = DOMAIN known
    BY <1>2, <1>3, <1>10, <2>1
  <2>5. Cardinality(DOMAIN opened.islands) = Cardinality(DOMAIN known)
    BY <2>4
  <2>6. whole
    BY <1>5, <2>3, <2>5 DEF whole, Everyone
  <2>7. QED
    BY <1>10, <2>6
<1>11. CASE ~whole /\ ~Boundary(t) /\ ~shared
  <2>1. closed = complete
    BY <1>4, <1>11 DEF closed, Closed
  <2>2. complete' = complete /\ receiving' = opened /\ islands' = known /\ shared' = FALSE
    BY <1>1, <1>11, <2>1
  <2>3. TickTypeOK'
    BY <1>2, <1>5, <2>2 DEF TickTypeOK, TickInv
  <2>4. receiving' # NoTick /\ OneStamp(receiving)'
    BY <1>2, <1>5, <2>2 DEF OneStamp
  <2>5. ASSUME complete # NoTick
        PROVE  /\ OneStamp(complete)'
               /\ complete.stamp # t
               /\ \A j \in DOMAIN complete.islands :
                     /\ j \in DOMAIN known
                     /\ j \in DOMAIN opened.islands \/ known[j] = complete.islands[j]
    <3>1. OneStamp(complete)'
      BY <2>2, <2>5 DEF TickInv, OneStamp
    <3>2. complete.stamp # t
      BY <1>2, <1>11, <2>5 DEF TickInv
    <3>3. \A j \in DOMAIN complete.islands :
            /\ j \in DOMAIN known
            /\ j \in DOMAIN opened.islands \/ known[j] = complete.islands[j]
      BY <1>2, <1>3, <1>11, <2>5 DEF TickInv
    <3>4. QED
      BY <3>1, <3>2, <3>3
  <2>6. QED
    BY <1>2, <2>2, <2>3, <2>4, <2>5 DEF TickInv
<1>12. QED
  BY <1>8, <1>9, <1>10, <1>11

LEMMA TickInvStep == TickInv /\ [TickNext]_tickVars => TickInv'
<1>1. SUFFICES ASSUME TickInv, [TickNext]_tickVars PROVE TickInv'
  OBVIOUS
<1>2. ASSUME NEW i \in Island, NEW t \in Stamp, NEW r \in Rev, Put(i, t, r)
      PROVE  TickInv'
  BY <1>1, <1>2, TickInvPut
<1>3. CASE Reset
  <2>1. TickTypeOK'
    BY <1>3, NoIslandsType DEF Reset, TickTypeOK
  <2>2. QED
    BY <1>3, <2>1 DEF Reset, TickInv
<1>4. CASE UNCHANGED tickVars
  BY <1>1, <1>4 DEF TickInv, TickTypeOK, OneStamp, tickVars
<1>5. QED
  BY <1>1, <1>2, <1>3, <1>4 DEF TickNext

LEMMA TickInvariance == TickSpec => []TickInv
<1>1. QED
  BY TickInvInit, TickInvStep, PTL DEF TickSpec

-----------------------------------------------------------------------------

(***************************************************************************)
(* Type correctness of internal/state.                                     *)
(***************************************************************************)
THEOREM TickTypeCorrect == TickSpec => []TickTypeOK
<1>1. TickInv => TickTypeOK
  BY DEF TickInv
<1>2. QED
  BY <1>1, TickInvariance, PTL

(***************************************************************************)
(* CompleteTick never mixes the snapshots of two ticks.                    *)
(***************************************************************************)
THEOREM CompleteTickNeverMixes == TickSpec => []CompleteNeverMixes
<1>1. TickInv => CompleteNeverMixes
  BY DEF TickInv, OneStamp, CompleteNeverMixes
<1>2. QED
  BY <1>1, TickInvariance, PTL

(***************************************************************************)
(* A tick that is declared complete while it arrives holds every island of *)
(* the session, also the ones reported for the first time afterwards.      *)
(***************************************************************************)
THEOREM EarlyTickHoldsEveryIsland == TickSpec => []EarlyHoldsEveryIsland
<1>1. TickInv => EarlyHoldsEveryIsland
  BY DEF TickInv, EarlyHoldsEveryIsland
<1>2. QED
  BY <1>1, TickInvariance, PTL

(***************************************************************************)
(* The complete tick lags the tables by no more than the tick that is      *)
(* being received.                                                         *)
(***************************************************************************)
THEOREM CompleteTickLag == TickSpec => []CompleteLagsAtMostOneTick
<1>1. TickInv => CompleteLagsAtMostOneTick
  BY DEF TickInv, CompleteLagsAtMostOneTick
<1>2. QED
  BY <1>1, TickInvariance, PTL

-----------------------------------------------------------------------------

(***************************************************************************)
(* Refinement. What relates the bookkeeping of TickState to the list of    *)
(* the session's ticks: the receiving tick is the last of the list, the    *)
(* islands known are those seen in it, and the two ticks share one map     *)
(* exactly while the last of several ticks is whole.                       *)
(***************************************************************************)
TickList ==
    /\ ticks \in Seq(Tick)
    /\ Len(ticks) = 0 => receiving = NoTick
    /\ Len(ticks) > 0 => receiving = ticks[Len(ticks)]
    /\ DOMAIN islands = Promise!Seen(ticks)
    /\ complete = Promise!NewestWhole(ticks)
    /\ Len(ticks) > 0 =>
          (shared <=> Len(ticks) > 1 /\ DOMAIN receiving.islands = DOMAIN islands)

LEMMA TickListInit == HInit => TickList /\ Promise!Init
<1>1. SUFFICES ASSUME HInit PROVE TickList /\ Promise!Init
  OBVIOUS
<1>2. ticks = <<>> /\ Len(ticks) = 0
  BY <1>1 DEF HInit
<1>3. Promise!Seen(ticks) = {}
  BY <1>2 DEF Promise!Seen
<1>4. Promise!NewestWhole(ticks) = NoTick
  BY <1>2 DEF Promise!NewestWhole
<1>5. DOMAIN islands = {}
  BY <1>1, NoIslandsType DEF HInit, TickInit
<1>6. QED
  BY <1>1, <1>2, <1>3, <1>4, <1>5 DEF HInit, TickInit, TickList, Promise!Init

(***************************************************************************)
(* A report adds exactly one island to those seen, in the last tick.       *)
(***************************************************************************)
LEMMA SeenReported ==
    ASSUME TickInv, TickList,
           NEW i \in Island, NEW t \in Stamp, NEW r \in Rev,
           NEW snap, snap = [stamp |-> t, rev |-> r],
           NEW after, after = Promise!Reported(ticks, i, t, r)
    PROVE  /\ after \in Seq(Tick)
           /\ Len(after) = IF Boundary(t) THEN Len(ticks) + 1 ELSE Len(ticks)
           /\ Len(after) > 0
           /\ after[Len(after)] = Opened(i, snap)
           /\ Boundary(t) /\ Len(ticks) > 0 => after[Len(after) - 1] = ticks[Len(ticks)]
           /\ ~Boundary(t) /\ Len(ticks) > 1 => after[Len(after) - 1] = ticks[Len(ticks) - 1]
           /\ Promise!Seen(after) = Promise!Seen(ticks) \cup {i}
<1>1. ticks \in Seq(Tick) /\ Len(ticks) \in Nat
  BY DEF TickList
<1>2. /\ Opened(i, snap) \in Tick
      /\ DOMAIN Opened(i, snap).islands =
            (IF Boundary(t) THEN {} ELSE DOMAIN receiving.islands) \cup {i}
  <2>1. /\ snap \in Snapshot
        /\ Opened(i, snap) \in Tick
        /\ ~Boundary(t) =>
              DOMAIN Opened(i, snap).islands = DOMAIN receiving.islands \cup {i}
    BY OpenedTick
  <2>2. ASSUME Boundary(t) PROVE DOMAIN Opened(i, snap).islands = {i}
    <3>1. Opened(i, snap).islands = With(NoIslands, i, snap)
      BY <2>2 DEF Opened
    <3>2. DOMAIN With(NoIslands, i, snap) = DOMAIN NoIslands \cup {i}
      BY DEF With
    <3>3. QED
      BY <3>1, <3>2, NoIslandsType
  <2>3. QED
    BY <2>1, <2>2
<1>3. Promise!Joins(ticks, t) <=> ~Boundary(t)
  <2>1. CASE Len(ticks) = 0
    BY <1>1, <2>1 DEF TickList, Boundary, Promise!Joins
  <2>2. CASE Len(ticks) > 0
    <3>1. receiving = ticks[Len(ticks)] /\ receiving \in Tick /\ ticks # <<>>
      BY <1>1, <2>2 DEF TickList
    <3>2. receiving # NoTick
      BY <3>1, TickParts
    <3>3. QED
      BY <3>1, <3>2 DEF Boundary, Promise!Joins
  <2>3. QED
    BY <1>1, <2>1, <2>2
<1>4. CASE Boundary(t)
  <2>1. Opened(i, snap) = [stamp |-> t, islands |-> With(NoIslands, i, snap)]
    BY <1>4 DEF Opened
  <2>2. after = Append(ticks, Opened(i, snap))
    BY <1>3, <1>4, <2>1 DEF Promise!Reported, Promise!With, With, Promise!NoIslands, NoIslands
  <2>3. /\ after \in Seq(Tick)
        /\ Len(after) = Len(ticks) + 1
        /\ after[Len(after)] = Opened(i, snap)
        /\ \A k \in 1 .. Len(ticks) : after[k] = ticks[k]
    BY <1>1, <1>2, <2>2
  <2>4. Promise!Seen(after) = Promise!Seen(ticks) \cup {i}
    BY <1>1, <1>2, <1>4, <2>3 DEF Promise!Seen
  <2>5. QED
    BY <1>1, <1>4, <2>3, <2>4
<1>5. CASE ~Boundary(t)
  <2>1. Len(ticks) > 0 /\ receiving = ticks[Len(ticks)] /\ receiving \in Tick
    BY <1>1, <1>5 DEF TickList, Boundary
  <2>2. Opened(i, snap) = [stamp |-> t, islands |-> With(receiving.islands, i, snap)]
    BY <1>5 DEF Opened
  <2>3. after = [ticks EXCEPT ![Len(ticks)] = Opened(i, snap)]
    BY <1>3, <1>5, <2>1, <2>2 DEF Promise!Reported, Promise!With, With
  <2>4. /\ after \in Seq(Tick)
        /\ Len(after) = Len(ticks)
        /\ after[Len(after)] = Opened(i, snap)
        /\ \A k \in 1 .. Len(ticks) : k # Len(ticks) => after[k] = ticks[k]
    BY <1>1, <1>2, <2>1, <2>3
  <2>5. Promise!Seen(after) = Promise!Seen(ticks) \cup {i}
    BY <1>1, <1>2, <1>5, <2>1, <2>4 DEF Promise!Seen
  <2>6. QED
    BY <1>1, <1>5, <2>1, <2>4, <2>5
<1>6. QED
  BY <1>4, <1>5

(***************************************************************************)
(* Put implements Report and keeps the relation to the list.               *)
(***************************************************************************)
LEMMA TickListPut ==
    ASSUME TickInv, TickList, NEW i \in Island, NEW t \in Stamp, NEW r \in Rev,
           HPut(i, t, r)
    PROVE  TickList' /\ Promise!Report(i, t, r)
<1> DEFINE snap   == [stamp |-> t, rev |-> r]
           known  == With(islands, i, snap)
           opened == Opened(i, snap)
           closed == Closed(i, snap)
           whole  == Everyone(opened, closed, known)
<1>1. /\ islands' = known
      /\ receiving' = opened
      /\ complete' = IF whole THEN opened ELSE closed
      /\ shared' = (whole \/ (shared /\ ~Boundary(t)))
      /\ ticks' = Promise!Reported(ticks, i, t, r)
  BY DEF HPut, Put
<1>2. /\ ticks' \in Seq(Tick)
      /\ Len(ticks') = IF Boundary(t) THEN Len(ticks) + 1 ELSE Len(ticks)
      /\ Len(ticks') > 0
      /\ ticks'[Len(ticks')] = opened
      /\ Boundary(t) /\ Len(ticks) > 0 => ticks'[Len(ticks') - 1] = ticks[Len(ticks)]
      /\ ~Boundary(t) /\ Len(ticks) > 1 => ticks'[Len(ticks') - 1] = ticks[Len(ticks) - 1]
      /\ Promise!Seen(ticks') = Promise!Seen(ticks) \cup {i}
  BY <1>1, SeenReported
<1>3. /\ snap \in Snapshot
      /\ opened \in Tick
      /\ known \in IslandMap
      /\ \A j \in DOMAIN opened.islands : j \in DOMAIN known
      /\ ~Boundary(t) =>
            /\ receiving \in Tick
            /\ receiving.stamp = t
            /\ DOMAIN opened.islands = DOMAIN receiving.islands \cup {i}
  BY OpenedTick
<1>4. DOMAIN known = DOMAIN islands \cup {i}
  BY DEF With
<1>5. DOMAIN known = Promise!Seen(ticks')
  BY <1>2, <1>4 DEF TickList
<1>6. snap.stamp = t /\ Len(ticks) \in Nat /\ Len(ticks') \in Nat
  BY <1>2 DEF TickList
<1>7. whole <=> closed # NoTick /\ DOMAIN opened.islands = DOMAIN known
  <2>1. opened.islands \in IslandMap /\ DOMAIN opened.islands \subseteq DOMAIN known
    BY <1>3, TickParts
  <2>2. QED
    BY <1>3, <2>1, EveryoneByLength DEF Everyone
<1> HIDE DEF snap, known, opened, closed, whole
<1>8. CASE Boundary(t)
  <2>1. closed = receiving
    BY <1>6, <1>8 DEF closed, Closed, TickInv, TickTypeOK
  <2>2. closed # NoTick <=> Len(ticks) > 0
    <3>1. Len(ticks) > 0 => receiving \in Tick
      BY <1>6 DEF TickList
    <3>2. QED
      BY <1>6, <2>1, <3>1, TickParts DEF TickList
  <2>3. whole <=> Len(ticks') > 1 /\ DOMAIN opened.islands = DOMAIN known
    BY <1>2, <1>6, <1>7, <1>8, <2>2
  <2>4. complete' = Promise!NewestWhole(ticks')
    BY <1>1, <1>2, <1>5, <1>6, <1>8, <2>1, <2>2, <2>3 DEF TickList, Promise!NewestWhole
  <2>5. shared' <=> Len(ticks') > 1 /\ DOMAIN opened.islands = DOMAIN known
    BY <1>1, <1>8, <2>3
  <2>6. TickList'
    BY <1>1, <1>2, <1>5, <1>6, <2>4, <2>5 DEF TickList
  <2>7. QED
    BY <1>1, <2>4, <2>6 DEF Promise!Report
<1>9. CASE ~Boundary(t)
  <2>1. Len(ticks) > 0
    BY <1>2, <1>9
  <2>2. shared <=> Len(ticks) > 1 /\ DOMAIN receiving.islands = DOMAIN islands
    BY <2>1 DEF TickList
  <2>3. CASE shared
    <3>1. complete = receiving /\ complete # NoTick
      BY <2>3 DEF TickInv
    <3>2. closed = [complete EXCEPT !.islands = opened.islands]
      BY <1>6, <1>9, <2>3 DEF closed, Closed, opened
    <3>3. opened.stamp = t
      BY OpenedTick DEF opened, snap
    <3>4. closed = opened
      BY <1>3, <1>9, <3>1, <3>2, <3>3 DEF Tick
    <3>5. DOMAIN opened.islands = DOMAIN known
      BY <1>3, <1>4, <1>9, <2>2, <2>3
    <3>6. complete' = opened /\ shared'
      BY <1>1, <1>9, <2>3, <3>4
    <3>7. complete' = Promise!NewestWhole(ticks')
      BY <1>2, <1>5, <1>6, <1>9, <2>2, <2>3, <3>5, <3>6 DEF Promise!NewestWhole
    <3>8. TickList'
      BY <1>1, <1>2, <1>5, <1>6, <1>9, <2>2, <2>3, <3>5, <3>6, <3>7 DEF TickList
    <3>9. QED
      BY <1>1, <3>7, <3>8 DEF Promise!Report
  <2>4. CASE ~shared
    <3>1. closed = complete
      BY <1>6, <1>9, <2>4 DEF closed, Closed
    <3>2. complete = Promise!NewestWhole(ticks)
      BY DEF TickList
    <3>3. complete # NoTick <=> Len(ticks) > 1
      <4>1. CASE Len(ticks) > 1
        <5>1. ticks[Len(ticks)] \in Tick /\ ticks[Len(ticks) - 1] \in Tick
          BY <4>1 DEF TickList
        <5>2. complete \in Tick
          BY <1>6, <3>2, <4>1, <5>1 DEF Promise!NewestWhole
        <5>3. QED
          BY <4>1, <5>2, TickParts
      <4>2. CASE ~(Len(ticks) > 1)
        BY <1>6, <3>2, <4>2 DEF Promise!NewestWhole
      <4>3. QED
        BY <4>1, <4>2
    <3>4. whole <=> Len(ticks') > 1 /\ DOMAIN opened.islands = DOMAIN known
      BY <1>2, <1>7, <1>9, <3>1, <3>3
    <3>5. Len(ticks) > 1 => complete = ticks[Len(ticks) - 1]
      <4>1. Len(ticks) > 1 =>
              ~(DOMAIN ticks[Len(ticks)].islands = Promise!Seen(ticks))
        BY <2>1, <2>2, <2>4 DEF TickList
      <4>2. QED
        BY <1>6, <3>2, <4>1 DEF Promise!NewestWhole
    <3>6. complete' = Promise!NewestWhole(ticks')
      BY <1>1, <1>2, <1>5, <1>6, <1>9, <3>1, <3>3, <3>4, <3>5 DEF Promise!NewestWhole
    <3>7. shared' <=> Len(ticks') > 1 /\ DOMAIN opened.islands = DOMAIN known
      BY <1>1, <2>4, <3>4
    <3>8. TickList'
      BY <1>1, <1>2, <1>5, <1>6, <3>6, <3>7 DEF TickList
    <3>9. QED
      BY <1>1, <3>6, <3>8 DEF Promise!Report
  <2>5. QED
    BY <2>3, <2>4
<1>10. QED
  BY <1>8, <1>9

LEMMA TickListStep == TickInv /\ TickList /\ [HNext]_hvars => TickList' /\ [Promise!Next]_(Promise!vars)
<1>1. SUFFICES ASSUME TickInv, TickList, [HNext]_hvars
               PROVE  TickList' /\ [Promise!Next]_(Promise!vars)
  OBVIOUS
<1>2. ASSUME NEW i \in Island, NEW t \in Stamp, NEW r \in Rev, HPut(i, t, r)
      PROVE  TickList' /\ [Promise!Next]_(Promise!vars)
  BY <1>1, <1>2, TickListPut DEF Promise!Next
<1>3. CASE HReset
  <2>1. ticks' = <<>> /\ Len(ticks') = 0 /\ complete' = NoTick /\ receiving' = NoTick
    BY <1>3 DEF HReset, Reset
  <2>2. Promise!Forget
    BY <2>1 DEF Promise!Forget
  <2>3. Promise!Seen(ticks') = {} /\ DOMAIN islands' = {}
    BY <1>3, <2>1, NoIslandsType DEF HReset, Reset, Promise!Seen
  <2>4. Promise!NewestWhole(ticks') = NoTick
    BY <2>1 DEF Promise!NewestWhole
  <2>5. TickList'
    BY <2>1, <2>3, <2>4 DEF TickList
  <2>6. QED
    BY <2>2, <2>5 DEF Promise!Next
<1>4. CASE UNCHANGED hvars
  <2>1. UNCHANGED <<islands, receiving, complete, shared, ticks>>
    BY <1>4 DEF hvars, tickVars
  <2>2. UNCHANGED Promise!vars
    BY <2>1 DEF Promise!vars
  <2>3. TickList'
    BY <1>1, <2>1 DEF TickList, Promise!Seen, Promise!NewestWhole
  <2>4. QED
    BY <2>2, <2>3
<1>5. QED
  BY <1>1, <1>2, <1>3, <1>4 DEF HNext

(***************************************************************************)
(* internal/state keeps its promise: CompleteTick answers with the newest  *)
(* tick of the session that is known to be whole.                          *)
(***************************************************************************)
THEOREM TickStateImplementsWholeTicks == HSpec => ImplementsWholeTicks
<1>1. HSpec => TickSpec
  <2>1. HInit => TickInit
    BY DEF HInit
  <2>2. [HNext]_hvars => [TickNext]_tickVars
    BY DEF HNext, HPut, HReset, TickNext, hvars
  <2>3. QED
    BY <2>1, <2>2, PTL DEF HSpec, TickSpec
<1>2. QED
  BY <1>1, TickInvariance, TickListInit, TickListStep, PTL
     DEF HSpec, ImplementsWholeTicks, Promise!Spec
=============================================================================

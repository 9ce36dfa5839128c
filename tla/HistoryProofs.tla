---------------------------- MODULE HistoryProofs ----------------------------
(***************************************************************************)
(* Proofs about the batch writer and its database, for any queue and batch *)
(* size, any islands, and events, failing writes, crashes and restarts in  *)
(* any order.                                                              *)
(***************************************************************************)
EXTENDS History, FiniteSetTheorems, FunctionTheorems, SequenceTheorems, WellFoundedInduction, TLAPS

\* The steps of `work'.
Write == [op : Kind \cup {"flush", "close"}, at : 1..MaxTime, island : Island, n : 0..MaxEvents]

\* A full batch is written before anything else is received.
FullIsFlushed == Len(pending) >= BatchSize => work # <<>> /\ work[1].op = "flush"

\* A session starts with an event, when the one before it has ended.
StartAfterEnd ==
    \A k \in DOMAIN work :
        work[k].op = "start" =>
            /\ work[k].n # 0
            /\ IF k = 1 THEN ~sessionUp ELSE work[k - 1].op = "end"

\* The one session that has no end is the batcher's, unless a write failed.
SessionOwned ==
    mode # "crashed" /\ ~lastErr => OpenSessions = IF sessionUp THEN {sessionID} ELSE {}

\* What is left to do while Run ends.
WayDown ==
    /\ mode \in {"stopping", "closing", "closed"} => outbox = <<>>
    /\ mode \in {"closing", "closed"} => queue = <<>>
    /\ mode = "closing" =>
          \/ Len(work) = 2 /\ work[1].op = "flush" /\ work[2].op = "close"
          \/ Len(work) = 1 /\ work[1].op = "close" /\ pending = <<>>
          \/ work = <<>> /\ pending = <<>> /\ ~sessionUp
    /\ mode = "closed" => work = <<>> /\ pending = <<>> /\ ~sessionUp

\* Whatever is on its way was caused in the time of this process.
Own(s) == \A k \in DOMAIN s : since < s[k].n /\ s[k].n <= said

OwnSerials ==
    /\ Own(outbox) /\ Own(queue) /\ Own(pending)
    /\ \A r \in samples : r.n <= said

\* The island row is there or comes with the batch; or with the queue.
Seen(i) == i \in islands \/ \E k \in DOMAIN pending : pending[k].island = i

SnapshotIn(s, last, i) == \E j \in 1..last : s[j].kind = "snapshot" /\ s[j].island = i

\* Each raised alert on its way finds its island's row, or its snapshot first.
WorkFound ==
    \A k \in DOMAIN work :
        work[k].op = "raised" =>
            IF k = 1 THEN work[k].island \in islands
            ELSE k = 2 /\ work[1].op = "flush" /\ Seen(work[k].island)

QueueFound ==
    \A k \in DOMAIN queue :
        queue[k].kind = "raised" =>
            Seen(queue[k].island) \/ SnapshotIn(queue, k - 1, queue[k].island)

OutboxFound ==
    \A k \in DOMAIN outbox :
        outbox[k].kind = "raised" =>
            \/ Seen(outbox[k].island) \/ SnapshotIn(queue, Len(queue), outbox[k].island)
            \/ SnapshotIn(outbox, k - 1, outbox[k].island)

SnapshotFirst == dropped = 0 => WorkFound /\ QueueFound /\ OutboxFound

\* Only the last write of an event carries its serial, or opens or closes an
\* alert; it comes after the batch has been written.
OneInHand ==
    /\ \A k \in DOMAIN work :
          /\ work[k].op = "flush" => work[k].n = 0
          /\ k # Len(work) => work[k].n = 0 /\ work[k].op \notin {"raised", "cleared"}
    /\ work # <<>> /\ work[1].op # "flush" => pending = <<>>

\* The serials ascend, from above lo up to hi.
Between(s, lo, hi) ==
    /\ \A k \in DOMAIN s : lo < s[k] /\ s[k] <= hi
    /\ \A j, k \in DOMAIN s : j < k => s[j] < s[k]

\* Each place an event passes holds the serials between two marks.
Marked(a, b, c, d) ==
    /\ a <= b /\ b <= c /\ c <= d /\ d <= said
    /\ Between(written, 0, a) /\ Between(Serials(pending), a, b) /\ Between(InHand, b, c)
    /\ Between(Serials(queue), c, d) /\ Between(Serials(outbox), d, said)

InOrder == \E a, b, c, d \in 0..MaxEvents : Marked(a, b, c, d)

\* An event takes the open alerts from before to after.
Does(kind, i, before, after) ==
    CASE kind = "raised"  -> i \notin before /\ after = before \cup {i}
      [] kind = "cleared" -> after = before \ {i}
      [] OTHER            -> after = before

\* So do the events of s one after the other, each finding what the one before left.
Leads(s, before, after) ==
    \E open \in [0..Len(s) -> SUBSET Island] :
        /\ open[0] = before /\ open[Len(s)] = after
        /\ \A k \in 1..Len(s) : Does(s[k].kind, s[k].island, open[k - 1], open[k])

\* The islands with an open row, and one row each.
Standing == {alerts[k].island : k \in OpenAlerts}

OneRowEach == \A j, k \in OpenAlerts : alerts[j].island = alerts[k].island => j = k

\* So does what Run still has to write for the event in hand.
HandLeads(after) ==
    IF work = <<>> THEN after = Standing
    ELSE Does(Last(work).op, Last(work).island, Standing, after)

\* The write in hand and then the events on their way lead to the engine's alerts.
AlertsLead ==
    dropped = 0 /\ mode # "crashed" =>
        /\ OneRowEach
        /\ \E x, y \in SUBSET Island :
              HandLeads(x) /\ Leads(queue, x, y) /\ Leads(outbox, y, watched)

RunInv == FullIsFlushed /\ StartAfterEnd /\ SessionOwned /\ WayDown

HistoryInv ==
    /\ HistoryTypeOK /\ RunInv /\ OwnSerials /\ AnchorIsCommitted /\ SnapshotFirst
    /\ OneInHand /\ InOrder /\ LossesAreCounted /\ AlertsLead

-----------------------------------------------------------------------------
(* Sequences and maxima *)

LEMMA TailFacts ==
    ASSUME NEW T, NEW s \in Seq(T), s # <<>>
    PROVE  /\ Len(s) \in Nat \ {0} /\ DOMAIN s = 1..Len(s)
           /\ Head(s) = s[1] /\ Head(s) \in T
           /\ Tail(s) \in Seq(T) /\ Len(Tail(s)) = Len(s) - 1 /\ DOMAIN Tail(s) = 1..Len(s) - 1
           /\ \A k \in 1..Len(s) - 1 : Tail(s)[k] = s[k + 1]
OBVIOUS

LEMMA AppendFacts ==
    ASSUME NEW T, NEW s \in Seq(T), NEW e \in T
    PROVE  /\ Len(s) \in Nat /\ DOMAIN s = 1..Len(s)
           /\ Append(s, e) \in Seq(T) /\ Len(Append(s, e)) = Len(s) + 1
           /\ DOMAIN Append(s, e) = 1..Len(s) + 1
           /\ \A k \in 1..Len(s) : Append(s, e)[k] = s[k]
           /\ Append(s, e)[Len(s) + 1] = e
OBVIOUS

LEMMA EmptyFacts ==
    ASSUME NEW T
    PROVE  <<>> \in Seq(T) /\ Len(<<>>) = 0 /\ DOMAIN <<>> = {}
OBVIOUS

\* A bounded set of naturals has a greatest member, and Max is it.
LEMMA MaxIsGreatest ==
    ASSUME NEW m \in Nat, NEW S, S \subseteq 0..m, S # {}
    PROVE  Max(S) \in S /\ \A x \in S : x <= Max(S)
<1> DEFINE T == {m - x : x \in S}
           R == OpToRel(<, Nat)
<1>2. \A x, y \in Nat : x < y => <<x, y>> \in R
  BY DEF OpToRel
<1>3. IsWellFoundedOn(R, Nat)
  BY NatLessThanWellFounded
<1> HIDE DEF R
<1>1. T \subseteq Nat /\ T # {}
  <2>1. \A x \in S : m - x \in Nat
    OBVIOUS
  <2>2. T # {}
    OBVIOUS
  <2> QED BY <2>1, <2>2
<1>4. PICK t \in T : \A y \in T : <<y, t>> \notin R
  <2> HIDE DEF T
  <2> QED BY <1>1, <1>3, WFMin
<1>5. PICK x \in S : t = m - x
  OBVIOUS
<1>6. ASSUME NEW y \in S PROVE y <= x
  <2>1. m - y \in T
    OBVIOUS
  <2>2. ~(m - y < m - x)
    BY <1>1, <1>2, <1>4, <1>5, <2>1
  <2> QED BY <2>2
<1>7. \A y \in S : x >= y
  BY <1>6
<1>8. Max(S) \in S /\ \A y \in S : Max(S) >= y
  BY <1>5, <1>7 DEF Max
<1> QED BY <1>8

\* The greatest member of a set is its Max.
LEMMA MaxIs ==
    ASSUME NEW S, S \subseteq Nat, NEW x \in S, \A y \in S : y <= x
    PROVE  Max(S) = x
<1>1. \A y \in S : x >= y
  OBVIOUS
<1>2. Max(S) \in S /\ \A y \in S : Max(S) >= y
  BY <1>1 DEF Max
<1>3. Max(S) \in Nat /\ x \in Nat /\ Max(S) >= x /\ Max(S) <= x
  BY <1>2
<1> QED BY <1>3

LEMMA SeqOfSet ==
    ASSUME NEW S, IsFiniteSet(S)
    PROVE  /\ Cardinality(S) \in Nat /\ SetToSeq(S) \in [1..Cardinality(S) -> S]
           /\ \A i \in S : \E k \in 1..Cardinality(S) : SetToSeq(S)[k] = i
<1>1. Cardinality(S) \in Nat /\ ExistsBijection(1..Cardinality(S), S)
  BY FS_CardinalityType
<1>2. \E f \in [1..Cardinality(S) -> S] : IsInjective(f)
  BY <1>1 DEF ExistsBijection, Bijection, Injection, IsInjective
<1>3. SetToSeq(S) \in [1..Cardinality(S) -> S] /\ IsInjective(SetToSeq(S))
  BY <1>2 DEF SetToSeq
<1>4. Cardinality(1..Cardinality(S)) = Cardinality(S)
  BY <1>1, FS_CountingElements, Fun_ExistsBijReflexive
<1>5. SetToSeq(S) \in Injection(1..Cardinality(S), S)
  BY <1>3 DEF Injection, IsInjective
<1>6. SetToSeq(S) \in Surjection(1..Cardinality(S), S)
  BY <1>4, <1>5, FS_Injection
<1> QED BY <1>1, <1>3, <1>6 DEF Surjection

LEMMA IslandFacts ==
    /\ NoIsland \in Island
    /\ 1 \in 1..MaxTime /\ MaxTime \in Nat \ {0} /\ MaxEvents \in Nat \ {0}
    /\ BatchSize \in Nat \ {0} /\ QueueSize \in Nat /\ MaxOpens \in Nat \ {0}
BY HistoryAssumption DEF NoIsland

-----------------------------------------------------------------------------
(* Types *)

\* What a callback hands over.
LEMMA Produced ==
    ASSUME HistoryTypeOK, NEW events, Len(events) \in Nat, Produce(events),
           \A k \in 1..Len(events) : events[k] \in Kind \X Island
    PROVE  /\ mode = "up" /\ outbox' \in Seq(Event) /\ DOMAIN outbox' = 1..Len(events)
           /\ said' = said + Len(events) /\ said \in Nat /\ said' \in 0..MaxEvents
           /\ \A k \in 1..Len(events) :
                 /\ outbox'[k].kind = events[k][1] /\ outbox'[k].island = events[k][2]
                 /\ outbox'[k].n = said + k
<1> DEFINE e(k) == [kind |-> events[k][1], island |-> events[k][2], at |-> now, n |-> said + k]
<1>1. /\ outbox' = [k \in 1..Len(events) |-> e(k)] /\ said' = said + Len(events) /\ mode = "up"
      /\ said + Len(events) <= MaxEvents
  BY DEF Produce
<1>2. said \in Nat /\ now \in 1..MaxTime
  BY IslandFacts DEF HistoryTypeOK
<1>3. ASSUME NEW k \in 1..Len(events) PROVE e(k) \in Event
  <2>1. events[k][1] \in Kind /\ events[k][2] \in Island
    OBVIOUS
  <2>2. said + k \in 1..MaxEvents
    BY <1>1, <1>2, IslandFacts
  <2> QED BY <1>2, <2>1, <2>2 DEF Event
<1>4. \A k \in 1..Len(events) :
         /\ e(k).kind = events[k][1] /\ e(k).island = events[k][2] /\ e(k).n = said + k
  OBVIOUS
<1>5. said + Len(events) \in 0..MaxEvents
  BY <1>1, <1>2, IslandFacts
<1> HIDE DEF e
<1>6. outbox' \in [1..Len(events) -> Event]
  BY <1>1, <1>3
<1>7. outbox' \in Seq(Event)
  BY <1>6, SeqDef
<1> QED BY <1>1, <1>2, <1>4, <1>5, <1>6, <1>7

LEMMA SnapshotProduces ==
    ASSUME HistoryTypeOK, NEW i \in Island, Snapshot(i)
    PROVE  \E events :
              /\ Produce(events) /\ Len(events) \in Nat
              /\ \A k \in 1..Len(events) : events[k] \in Kind \X Island
              /\ Len(events) >= 1 /\ events[1] = <<"snapshot", i>>
              /\ \A k \in 1..Len(events) : events[k][2] = i
<1>1. CASE Produce(<< <<"snapshot", i>> >>)
  BY <1>1 DEF Kind
<1>2. CASE Produce(<< <<"snapshot", i>>, <<"raised", i>> >>)
  BY <1>2 DEF Kind
<1>3. CASE Produce(<< <<"snapshot", i>>, <<"cleared", i>> >>)
  BY <1>3 DEF Kind
<1> QED BY <1>1, <1>2, <1>3 DEF Snapshot

LEMMA BoundaryProduces ==
    ASSUME HistoryTypeOK, NEW kind \in {"start", "end"}, SessionBoundary(kind)
    PROVE  \E events :
              /\ Produce(events) /\ Len(events) \in Nat
              /\ \A k \in 1..Len(events) : events[k] \in Kind \X Island
              /\ \A k \in 1..Len(events) : events[k][1] # "raised"
              /\ Len(events) >= 1 /\ events[1][1] = kind
              /\ \A k \in 2..Len(events) : events[k][1] = "cleared"
              /\ \A i \in watched : \E k \in 2..Len(events) : events[k][2] = i
<1> DEFINE c == Cardinality(watched)
           first == << <<kind, NoIsland>> >>
           rest == [k \in 1..c |-> <<"cleared", SetToSeq(watched)[k]>>]
<1>1. /\ c \in Nat /\ SetToSeq(watched) \in [1..c -> watched] /\ watched \subseteq Island
      /\ \A i \in watched : \E k \in 1..c : SetToSeq(watched)[k] = i
  <2>1. watched \subseteq Island
    BY DEF HistoryTypeOK
  <2>2. IsFiniteSet(watched)
    BY <2>1, HistoryAssumption, FS_Subset
  <2> QED BY <2>1, <2>2, SeqOfSet
<1>2. \A k \in 1..c : rest[k] \in Kind \X Island /\ rest[k][1] = "cleared"
  BY <1>1 DEF Kind
<1>11. \A i \in watched : \E k \in 1..c : rest[k][2] = i
  BY <1>1
<1>3. rest \in [1..c -> Kind \X Island]
  BY <1>2
<1>4. rest \in Seq(Kind \X Island) /\ Len(rest) = c
  BY <1>1, <1>3, SeqDef
<1>5. /\ first \in Seq(Kind \X Island) /\ Len(first) = 1 /\ first[1][1] = kind
      /\ first[1] = <<kind, NoIsland>>
  BY IslandFacts DEF Kind
<1>6. Produce(first \o rest)
  BY DEF SessionBoundary
<1> HIDE DEF first, rest, c
<1> DEFINE all == first \o rest
<1>7. /\ all \in Seq(Kind \X Island) /\ Len(all) = Len(first) + Len(rest)
      /\ \A k \in 1..Len(first) + Len(rest) :
            all[k] = IF k <= Len(first) THEN first[k] ELSE rest[k - Len(first)]
  BY <1>4, <1>5, ConcatProperties
<1> HIDE DEF all
<1>8. ASSUME NEW k \in 1..Len(all)
      PROVE  all[k] \in Kind \X Island /\ all[k][1] # "raised"
  <2>1. CASE k = 1
    <3>1. first[1] \in Kind \X Island
      BY <1>5
    <3>2. all[k] = first[1]
      BY <1>5, <1>7, <2>1
    <3> QED BY <1>5, <3>1, <3>2
  <2>2. CASE k # 1
    <3>1. k - 1 \in 1..c /\ k \in 1..Len(first) + Len(rest) /\ ~(k <= Len(first))
      BY <1>1, <1>4, <1>5, <1>7, <2>2
    <3>2. all[k] = rest[k - 1]
      BY <1>5, <1>7, <3>1
    <3> QED BY <1>2, <3>1, <3>2
  <2> QED BY <2>1, <2>2
<1>9. Len(all) \in Nat /\ Len(all) = c + 1
  BY <1>1, <1>4, <1>5, <1>7
<1>10. Produce(all)
  BY <1>6 DEF all
<1>12. all[1][1] = kind /\ \A k \in 1..c : all[k + 1] = rest[k] /\ k + 1 \in 2..Len(all)
  <2>1. all[1] = first[1]
    BY <1>1, <1>4, <1>5, <1>7
  <2>2. ASSUME NEW k \in 1..c PROVE all[k + 1] = rest[k] /\ k + 1 \in 2..Len(all)
    <3>1. k + 1 \in 1..Len(first) + Len(rest) /\ ~(k + 1 <= Len(first)) /\ (k + 1) - 1 = k
      BY <1>1, <1>4, <1>5
    <3>2. all[k + 1] = rest[(k + 1) - 1]
      BY <1>5, <1>7, <3>1
    <3> QED BY <1>1, <1>9, <3>1, <3>2
  <2> QED BY <1>5, <2>1, <2>2
<1>13. \A k \in 2..Len(all) : all[k][1] = "cleared"
  <2>1. \A k \in 2..Len(all) : k - 1 \in 1..c /\ (k - 1) + 1 = k
    BY <1>1, <1>9
  <2> QED BY <1>2, <1>12, <2>1
<1>14. \A i \in watched : \E k \in 2..Len(all) : all[k][2] = i
  BY <1>11, <1>12
<1>15. Len(all) >= 1
  BY <1>1, <1>9
<1> WITNESS all
<1> QED BY <1>8, <1>9, <1>10, <1>12, <1>13, <1>14, <1>15

\* The writes of an event, and their order.
LEMMA WritesOf ==
    ASSUME HistoryTypeOK, NEW ev \in Event
    PROVE  /\ Writes(ev) \in Seq(Write) /\ Writes(ev) # <<>>
           /\ Len(Writes(ev)) = IF ev.kind = "start" THEN 3 ELSE 2
           /\ Writes(ev)[1].op = "flush"
           /\ Writes(ev)[2].op = IF ev.kind = "start" THEN "end" ELSE ev.kind
           /\ Writes(ev)[2].island = ev.island
           /\ ev.kind = "start" => Writes(ev)[3].op = "start" /\ Writes(ev)[3].n # 0
           /\ Writes(ev)[1].n = 0
           /\ \A k \in 1..Len(Writes(ev)) - 1 :
                 Writes(ev)[k].n = 0 /\ Writes(ev)[k].op \notin {"raised", "cleared"}
           /\ LET z == Writes(ev)[Len(Writes(ev))]
              IN z.op = ev.kind /\ z.n = ev.n /\ z.island = ev.island
<1> DEFINE f == FlushStep
           e == [Step("end", ev) EXCEPT !.n = 0]
           s == Step(ev.kind, ev)
<1>1. f \in Write /\ f.op = "flush" /\ f.n = 0
  BY IslandFacts DEF FlushStep, Write, HistoryTypeOK
<1>2. /\ e \in Write /\ e.op = "end" /\ e.island = ev.island /\ e.n = 0
      /\ s \in Write /\ s.op = ev.kind /\ s.island = ev.island /\ s.n # 0 /\ s.n = ev.n
  BY IslandFacts DEF Step, Write, Event, Kind
<1>3. Writes(ev) = IF ev.kind = "start" THEN <<f, e, s>> ELSE <<f, s>>
  <2>1. CASE ev.kind = "start"
    BY <2>1 DEF Writes
  <2>2. CASE ev.kind = "end"
    BY <2>2 DEF Writes
  <2>3. CASE ev.kind \notin {"start", "end"}
    BY <2>3 DEF Writes
  <2> QED BY <2>1, <2>2, <2>3
<1> HIDE DEF f, e, s
<1>4. CASE ev.kind = "start"
  <2>1. Writes(ev) = <<f, e, s>>
    BY <1>3, <1>4
  <2>2. <<f, e, s>> \in Seq(Write) /\ <<f, e, s>> # <<>> /\ Len(<<f, e, s>>) = 3
    BY <1>1, <1>2
  <2>3. \A k \in 1..2 : <<f, e, s>>[k].n = 0 /\ <<f, e, s>>[k].op \notin {"raised", "cleared"}
    BY <1>1, <1>2
  <2> QED BY <1>1, <1>2, <1>4, <2>1, <2>2, <2>3
<1>5. CASE ev.kind # "start"
  <2>1. Writes(ev) = <<f, s>>
    BY <1>3, <1>5
  <2>2. <<f, s>> \in Seq(Write) /\ <<f, s>> # <<>> /\ Len(<<f, s>>) = 2
    BY <1>1, <1>2
  <2> QED BY <1>1, <1>2, <1>5, <2>1, <2>2
<1> QED BY <1>4, <1>5

\* A step of `work' is done.
LEMMA Done ==
    ASSUME HistoryTypeOK, work # <<>>
    PROVE  /\ Len(work) \in Nat \ {0} /\ DOMAIN work = 1..Len(work)
           /\ Head(work) = work[1] /\ Head(work) \in Write
           /\ Tail(work) \in Seq(Write) /\ Len(Tail(work)) = Len(work) - 1
           /\ DOMAIN Tail(work) = 1..Len(work) - 1
           /\ \A k \in 1..Len(work) - 1 : Tail(work)[k] = work[k + 1]
<1>1. work \in Seq(Write)
  BY DEF HistoryTypeOK, Write
<1> QED BY <1>1, TailFacts

\* The anchor after a batch.
LEMMA NotedType ==
    ASSUME HistoryTypeOK, NEW ok \in BOOLEAN
    PROVE  Noted(ok, {pending[k].at : k \in DOMAIN pending}) \in 0..MaxTime
<1> DEFINE S == {pending[k].at : k \in DOMAIN pending} \cup {lastSample}
<1>1. S \subseteq 0..MaxTime /\ S # {}
  <2>1. \A k \in DOMAIN pending : pending[k] \in Event
    BY DEF HistoryTypeOK
  <2> QED BY <2>1 DEF HistoryTypeOK, Event
<1>2. Max(S) \in 0..MaxTime
  <2> HIDE DEF S
  <2> QED BY <1>1, MaxIsGreatest, IslandFacts
<1> QED BY <1>2 DEF Noted, HistoryTypeOK

LEMMA FlushTypes ==
    ASSUME HistoryTypeOK, NEW ok \in BOOLEAN, Flush(ok)
    PROVE  HistoryTypeOK'
<1>1. work # <<>> /\ work' = Tail(work)
  BY DEF Flush
<1>2. work' \in Seq(Write)
  BY <1>1, Done
<1>3. CASE pending = <<>>
  BY <1>2, <1>3 DEF Flush, HistoryTypeOK, Write, producer, process
<1>4. CASE pending # <<>>
  <2>1. /\ Len(pending) \in Nat /\ DOMAIN pending = 1..Len(pending)
        /\ \A k \in DOMAIN pending : pending[k] \in Event
    BY DEF HistoryTypeOK
  <2>2. dropped' \in Nat /\ lastErr' \in BOOLEAN
    <3>1. dropped' = Counted(ok, Len(pending)) /\ lastErr' = (lastErr \/ ~ok)
      BY <1>4 DEF Flush
    <3>2. Counted(ok, Len(pending)) \in Nat
      BY <2>1 DEF Counted, HistoryTypeOK
    <3> QED BY <3>1, <3>2
  <2>3. lastSample' \in 0..MaxTime
    BY <1>4, NotedType DEF Flush
  <2>4. islands' \subseteq Island
    <3>1. \A k \in DOMAIN pending : pending[k].island \in Island
      BY <2>1 DEF Event
    <3>2. islands \subseteq Island
      BY DEF HistoryTypeOK
    <3>3. islands' = islands \/ islands' = islands \cup {pending[k].island : k \in DOMAIN pending}
      BY <1>4 DEF Flush
    <3> QED BY <3>1, <3>2, <3>3
  <2>5. samples' \subseteq [island : Island, at : 1..MaxTime, n : 1..MaxEvents]
    <3>1. \A e \in Event :
             [island |-> e.island, at |-> e.at, n |-> e.n]
                \in [island : Island, at : 1..MaxTime, n : 1..MaxEvents]
      BY DEF Event
    <3>2. Replaced(samples, pending) \subseteq [island : Island, at : 1..MaxTime, n : 1..MaxEvents]
      BY <2>1, <3>1 DEF Replaced, HistoryTypeOK
    <3> QED BY <1>4, <3>2 DEF Flush, HistoryTypeOK
  <2>6. written' \in Seq(1..MaxEvents)
    <3>1. \A k \in 1..Len(pending) : pending[k].n \in 1..MaxEvents
      BY <2>1 DEF Event
    <3>2. Serials(pending) \in [1..Len(pending) -> 1..MaxEvents]
      BY <3>1 DEF Serials
    <3>3. Serials(pending) \in Seq(1..MaxEvents)
      BY <2>1, <3>2, SeqDef
    <3>4. written \in Seq(1..MaxEvents)
      BY DEF HistoryTypeOK
    <3>5. written \o Serials(pending) \in Seq(1..MaxEvents)
      BY <3>3, <3>4, ConcatProperties
    <3> QED BY <1>4, <3>4, <3>5 DEF Flush
  <2>7. pending' \in Seq(Event) /\ Len(pending') <= BatchSize
    BY <1>4, IslandFacts DEF Flush
  <2> QED BY <1>2, <1>4, <2>2, <2>3, <2>4, <2>5, <2>6, <2>7
          DEF Flush, HistoryTypeOK, Write, producer, process
<1> QED BY <1>3, <1>4

\* A write of one record.
LEMMA OneRecord ==
    ASSUME HistoryTypeOK, work # <<>>, NEW ok \in BOOLEAN
    PROVE  /\ Counted(ok, 1) \in Nat /\ (Counted(ok, 1) = 0 => ok /\ dropped = 0)
           /\ Recorded(ok, Head(work).n) \in Seq(1..MaxEvents)
<1>1. Head(work) \in Write
  BY Done
<1>2. Head(work).n # 0 => Head(work).n \in 1..MaxEvents
  BY <1>1 DEF Write
<1>3. written \in Seq(1..MaxEvents) /\ dropped \in Nat
  BY DEF HistoryTypeOK
<1>4. Counted(ok, 1) \in Nat /\ (Counted(ok, 1) = 0 => ok /\ dropped = 0)
  BY <1>3 DEF Counted
<1>5. Recorded(ok, Head(work).n) \in Seq(1..MaxEvents)
  <2>1. CASE ok /\ Head(work).n # 0
    BY <1>2, <1>3, <2>1, AppendFacts DEF Recorded
  <2>2. CASE ~(ok /\ Head(work).n # 0)
    BY <1>3, <2>2 DEF Recorded
  <2> QED BY <2>1, <2>2
<1> QED BY <1>4, <1>5

\* The session that ends has a row, and it gets an end.
LEMMA EndTypes ==
    ASSUME HistoryTypeOK, work # <<>>, NEW t \in 1..MaxTime, NEW ok \in BOOLEAN, EndAt(t, ok)
    PROVE  /\ HistoryTypeOK' /\ sessionUp' = FALSE /\ work' = Tail(work)
           /\ (sessionUp /\ ok => OpenSessions' = OpenSessions \ {sessionID})
           /\ (~sessionUp => sessions' = sessions /\ lastErr' = lastErr)
           /\ (sessionUp => lastErr' = (lastErr \/ ~ok))
<1>1. work' \in Seq(Write) /\ work' = Tail(work)
  BY Done DEF EndAt
<1>2. dropped' \in Nat /\ lastErr' \in BOOLEAN /\ written' \in Seq(1..MaxEvents)
  BY OneRecord DEF EndAt, HistoryTypeOK
<1> DEFINE Row == [start : 1..MaxTime, end : 0..MaxTime, n : 1..MaxEvents]
           ended == [sessions EXCEPT ![sessionID].end = t]
<1>3. sessions \in Seq(Row) /\ Len(sessions) \in Nat /\ DOMAIN sessions = 1..Len(sessions)
  BY DEF HistoryTypeOK
<1>4. CASE sessionUp /\ ok /\ sessions[sessionID].end = Open
  <2>1. sessionID \in DOMAIN sessions /\ sessions' = ended
    BY <1>4 DEF EndAt, HistoryTypeOK
  <2>2. sessions[sessionID] \in Row
    <3> HIDE DEF Row
    <3> QED BY <1>3, <2>1, ElementOfSeq
  <2>3. [sessions[sessionID] EXCEPT !.end = t] \in Row
    BY <2>2
  <2>4. ended = [sessions EXCEPT ![sessionID] = [sessions[sessionID] EXCEPT !.end = t]]
    OBVIOUS
  <2>5. ended \in Seq(Row) /\ DOMAIN ended = DOMAIN sessions
    BY <1>3, <2>1, <2>3, <2>4, ExceptSeq
  <2>6. \A id \in DOMAIN sessions : id # sessionID => ended[id] = sessions[id]
    OBVIOUS
  <2>7. ended[sessionID].end = t
    BY <2>1, <2>2
  <2> HIDE DEF ended
  <2>8. OpenSessions' = OpenSessions \ {sessionID}
    BY <2>1, <2>5, <2>6, <2>7 DEF OpenSessions, Open
  <2> QED BY <1>1, <1>2, <1>4, <2>1, <2>5, <2>8 DEF EndAt, HistoryTypeOK, Write, producer, process
<1>5. CASE ~(sessionUp /\ ok /\ sessions[sessionID].end = Open)
  <2>1. sessions' = sessions
    BY <1>5 DEF EndAt
  <2>2. sessionUp /\ ok => sessionID \notin OpenSessions
    BY <1>5 DEF OpenSessions
  <2> QED BY <1>1, <1>2, <1>5, <2>1, <2>2
          DEF EndAt, HistoryTypeOK, Write, OpenSessions, producer, process
<1> QED BY <1>4, <1>5

\* Rows that are changed in place stay rows of their table.
LEMMA MappedRows ==
    ASSUME NEW T, NEW s \in Seq(T), NEW g \in [DOMAIN s -> T]
    PROVE  g \in Seq(T) /\ DOMAIN g = DOMAIN s
<1>1. Len(s) \in Nat /\ DOMAIN s = 1..Len(s)
  OBVIOUS
<1> QED BY <1>1, SeqDef

LEMMA ClearedTypes ==
    ASSUME HistoryTypeOK, NEW whose, NEW t \in 1..MaxTime
    PROVE  Cleared(whose, t) \in Seq([island : Island, raised : 1..MaxTime, cleared : 0..MaxTime])
<1> DEFINE Row == [island : Island, raised : 1..MaxTime, cleared : 0..MaxTime]
<1>1. alerts \in Seq(Row)
  BY DEF HistoryTypeOK
<1>2. ASSUME NEW k \in DOMAIN alerts
      PROVE  alerts[k] \in Row /\ [alerts[k] EXCEPT !.cleared = t] \in Row
  <2>1. alerts[k] \in Row
    <3> HIDE DEF Row
    <3> QED BY <1>1
  <2> QED BY <2>1
<1>3. Cleared(whose, t) \in [DOMAIN alerts -> Row]
  BY <1>2 DEF Cleared
<1> HIDE DEF Row
<1>4. Cleared(whose, t) \in Seq(Row)
  BY <1>1, <1>3, MappedRows
<1> QED BY <1>4 DEF Row

LEMMA StartTypes ==
    ASSUME HistoryTypeOK, StartAfterEnd, NEW ok \in BOOLEAN, StartSession(ok)
    PROVE  HistoryTypeOK'
<1>1. work # <<>> /\ work' = Tail(work) /\ Head(work) \in Write
  BY Done DEF StartSession
<1>2. work' \in Seq(Write)
  BY <1>1, Done
<1>3. dropped' \in Nat /\ lastErr' \in BOOLEAN /\ written' \in Seq(1..MaxEvents)
  BY <1>1, OneRecord DEF StartSession
<1> DEFINE Row == [start : 1..MaxTime, end : 0..MaxTime, n : 1..MaxEvents]
           new == [start |-> Head(work).at, end |-> Open, n |-> Head(work).n]
<1>4. CASE ~ok
  BY <1>2, <1>3, <1>4 DEF StartSession, HistoryTypeOK, Write, producer, process
<1>5. CASE ok
  <2>1. sessions' = Append(sessions, new) /\ sessionID' = Len(sessions) + 1 /\ sessionUp' = TRUE
    BY <1>5 DEF StartSession
  <2>2. new \in Row
    <3>1. Head(work) = work[1] /\ 1 \in DOMAIN work
      BY <1>1, Done
    <3>2. Head(work).n # 0
      BY <3>1 DEF StartSession, StartAfterEnd
    <3>3. Head(work).n \in 1..MaxEvents /\ Head(work).at \in 1..MaxTime
      BY <1>1, <3>2 DEF Write
    <3> QED BY <3>3, IslandFacts DEF Open
  <2>3. sessions \in Seq(Row)
    BY DEF HistoryTypeOK
  <2> HIDE DEF Row, new
  <2>4. sessions' \in Seq(Row) /\ sessionID' \in DOMAIN sessions'
    BY <2>1, <2>2, <2>3, AppendFacts
  <2> USE DEF Row
  <2> QED BY <1>2, <1>3, <2>4 DEF StartSession, HistoryTypeOK, Write, producer, process
<1> QED BY <1>4, <1>5

LEMMA AlertTypes ==
    ASSUME HistoryTypeOK, NEW ok \in BOOLEAN, WriteAlert(ok)
    PROVE  HistoryTypeOK'
<1>1. work # <<>> /\ work' = Tail(work) /\ Head(work) \in Write
  BY Done DEF WriteAlert
<1>2. work' \in Seq(Write)
  BY <1>1, Done
<1>3. dropped' \in Nat /\ lastErr' \in BOOLEAN /\ written' \in Seq(1..MaxEvents)
  BY <1>1, OneRecord DEF WriteAlert
<1>4. Head(work).island \in Island /\ Head(work).at \in 1..MaxTime
  BY <1>1 DEF Write
<1> DEFINE Row == [island : Island, raised : 1..MaxTime, cleared : 0..MaxTime]
           new == [island |-> Head(work).island, raised |-> Head(work).at, cleared |-> Open]
<1>5. islands' \subseteq Island
  <2>1. islands' = islands \/ islands' = islands \cup {Head(work).island}
    BY DEF WriteAlert
  <2> QED BY <1>4, <2>1 DEF HistoryTypeOK
<1>6. alerts' \in Seq(Row)
  <2>1. alerts \in Seq(Row) /\ new \in Row
    BY <1>4, IslandFacts DEF HistoryTypeOK, Open
  <2>2. Cleared({Head(work).island}, Head(work).at) \in Seq(Row)
    BY <1>4, ClearedTypes
  <2>3. \/ alerts' = alerts \/ alerts' = Append(alerts, new)
        \/ alerts' = Cleared({Head(work).island}, Head(work).at)
    BY DEF WriteAlert
  <2> HIDE DEF Row, new
  <2> QED BY <2>1, <2>2, <2>3, AppendFacts
<1> QED BY <1>2, <1>3, <1>5, <1>6 DEF WriteAlert, HistoryTypeOK, Write, producer, process

LEMMA OpenTypes ==
    ASSUME HistoryTypeOK, NEW commits \in 0..2, OpenStore(commits)
    PROVE  /\ HistoryTypeOK'
           /\ commits = 2 => OpenSessions' = {}
<1> DEFINE Row == [start : 1..MaxTime, end : 0..MaxTime, n : 1..MaxEvents]
           ended == [id \in DOMAIN sessions |->
                        IF sessions[id].end = Open THEN [sessions[id] EXCEPT !.end = now]
                        ELSE sessions[id]]
<1>1. sessions \in Seq(Row) /\ now \in 1..MaxTime
  BY DEF HistoryTypeOK
<1>2. ASSUME NEW id \in DOMAIN sessions
      PROVE  /\ sessions[id] \in Row /\ [sessions[id] EXCEPT !.end = now] \in Row
             /\ [sessions[id] EXCEPT !.end = now].end = now
  <2>1. sessions[id] \in Row
    <3> HIDE DEF Row
    <3> QED BY <1>1
  <2>2. now \in 0..MaxTime
    BY <1>1, IslandFacts
  <2>3. \A r \in Row : [r EXCEPT !.end = now] \in Row /\ [r EXCEPT !.end = now].end = now
    BY <2>2
  <2> HIDE DEF Row
  <2> QED BY <2>1, <2>3
<1>3. ended \in [DOMAIN sessions -> Row] /\ \A id \in DOMAIN sessions : ended[id].end # Open
  <2>1. now # Open
    BY <1>1, IslandFacts DEF Open
  <2> HIDE DEF Row
  <2>2. ASSUME NEW id \in DOMAIN sessions PROVE ended[id] \in Row /\ ended[id].end # Open
    <3>1. CASE sessions[id].end = Open
      BY <1>2, <2>1, <3>1
    <3>2. CASE sessions[id].end # Open
      BY <1>2, <3>2
    <3> QED BY <3>1, <3>2
  <2> QED BY <2>2
<1> HIDE DEF Row, ended
<1>4. ended \in Seq(Row) /\ DOMAIN ended = DOMAIN sessions
  BY <1>1, <1>3, MappedRows
<1>5. sessions' = IF commits = 0 THEN sessions ELSE ended
  BY DEF OpenStore, ended
<1>6. commits = 2 => OpenSessions' = {}
  BY <1>3, <1>4, <1>5 DEF OpenSessions, Open
<1>7. sessions' \in Seq(Row)
  BY <1>1, <1>4, <1>5
<1>8. alerts' \in Seq([island : Island, raised : 1..MaxTime, cleared : 0..MaxTime])
  BY <1>1, ClearedTypes DEF OpenStore, OrphansClosed, HistoryTypeOK
<1>9. /\ opens' \in 1..MaxOpens /\ since' \in 0..said' /\ said' \in 0..MaxEvents
      /\ mode' \in {"up", "crashed"} /\ lastSample' \in 0..MaxTime
  <2>1. opens \in 1..MaxOpens /\ opens < MaxOpens /\ opens' = opens + 1
    BY DEF OpenStore, HistoryTypeOK
  <2>2. said \in 0..MaxEvents /\ since' = said /\ said' = said
    BY DEF OpenStore, HistoryTypeOK
  <2>3. mode' \in {"up", "crashed"} /\ lastSample' = 0
    BY DEF OpenStore
  <2> QED BY <2>1, <2>2, <2>3, IslandFacts
<1>10. /\ outbox' \in Seq(Event) /\ queue' \in Seq(Event) /\ pending' \in Seq(Event)
       /\ Len(queue') <= QueueSize /\ Len(pending') <= BatchSize /\ work' \in Seq(Write)
       /\ written' \in Seq(1..MaxEvents)
  <2>1. /\ outbox' = <<>> /\ queue' = <<>> /\ pending' = <<>> /\ work' = <<>> /\ written' = <<>>
    BY DEF OpenStore
  <2> QED BY <2>1, EmptyFacts, IslandFacts
<1>11. HistoryTypeOK'
  <2>1. /\ watched' = {} /\ sessionUp' = FALSE /\ dropped' = 0 /\ lastErr' = FALSE
        /\ UNCHANGED <<islands, samples, now>>
    BY DEF OpenStore
  <2> QED BY <1>7, <1>8, <1>9, <1>10, <2>1 DEF HistoryTypeOK, Write, Row
<1> QED BY <1>6, <1>11

(***************************************************************************)
(* Receiving: the batch still has room, because a full one is flushed.     *)
(***************************************************************************)
LEMMA ReceiveTypes ==
    ASSUME HistoryTypeOK, FullIsFlushed, Receive
    PROVE  /\ HistoryTypeOK' /\ Head(queue) \in Event
           /\ Len(pending) < BatchSize
<1>1. queue # <<>> /\ work = <<>> /\ queue \in Seq(Event) /\ pending \in Seq(Event)
  BY DEF Receive, HistoryTypeOK
<1>2. Head(queue) \in Event /\ queue' \in Seq(Event) /\ Len(queue') <= QueueSize
  <2>1. queue' = Tail(queue) /\ Len(queue) <= QueueSize
    BY DEF Receive, HistoryTypeOK
  <2> QED BY <1>1, <2>1, TailFacts, IslandFacts
<1>3. Len(pending) < BatchSize /\ Len(pending) \in Nat
  BY <1>1, IslandFacts DEF FullIsFlushed
<1>4. CASE Head(queue).kind = "snapshot"
  <2>1. /\ pending' = Append(pending, Head(queue))
        /\ work' = <<FlushStep>> \/ work' = <<>>
    BY <1>4 DEF Receive
  <2>2. pending' \in Seq(Event) /\ Len(pending') <= BatchSize
    BY <1>1, <1>2, <1>3, <2>1, AppendFacts, IslandFacts
  <2>3. FlushStep \in Write
    BY IslandFacts DEF FlushStep, Write, HistoryTypeOK
  <2>4. work' \in Seq(Write)
    <3>1. CASE work' = <<FlushStep>>
      BY <2>3, <3>1
    <3>2. CASE work' = <<>>
      BY <3>2, EmptyFacts
    <3> QED BY <2>1, <3>1, <3>2
  <2> QED BY <1>2, <1>3, <2>2, <2>4 DEF Receive, HistoryTypeOK, Write, producer, db, process
<1>5. CASE Head(queue).kind # "snapshot"
  <2>1. work' = Writes(Head(queue)) /\ pending' = pending
    BY <1>5 DEF Receive
  <2>2. work' \in Seq(Write)
    BY <1>2, <2>1, WritesOf
  <2> QED BY <1>2, <1>3, <2>1, <2>2 DEF Receive, HistoryTypeOK, Write, producer, db, process
<1> QED BY <1>4, <1>5

-----------------------------------------------------------------------------
(* Run and its sessions *)

\* The steps that follow the one that is done.
LEMMA StartsLater ==
    ASSUME HistoryTypeOK, StartAfterEnd, work # <<>>, work' = Tail(work),
           work[1].op = "end" => ~sessionUp'
    PROVE  StartAfterEnd'
<1> SUFFICES ASSUME NEW k \in DOMAIN work', work'[k].op = "start"
             PROVE  work'[k].n # 0 /\ IF k = 1 THEN ~sessionUp' ELSE work'[k - 1].op = "end"
  BY DEF StartAfterEnd
<1>1. /\ Len(work) \in Nat /\ DOMAIN work = 1..Len(work) /\ k \in 1..Len(work) - 1
      /\ \A j \in 1..Len(work) - 1 : work'[j] = work[j + 1]
  BY Done
<1>2. k + 1 \in DOMAIN work /\ k + 1 # 1 /\ (k + 1) - 1 = k
  BY <1>1
<1>3. work[k + 1].n # 0 /\ work[k].op = "end" /\ work'[k] = work[k + 1]
  BY <1>1, <1>2 DEF StartAfterEnd
<1>4. k # 1 => k - 1 \in 1..Len(work) - 1 /\ (k - 1) + 1 = k
  BY <1>1
<1>5. k # 1 => work'[k - 1] = work[k]
  BY <1>1, <1>4
<1> QED BY <1>3, <1>5

\* What a step that leaves Run alone keeps.
LEMMA SameRun ==
    ASSUME RunInv, mode = "up" \/ outbox' = outbox, UNCHANGED <<mode, work, pending, sessionUp,
           sessionID, lastErr, sessions>>, mode = "up" \/ queue' = queue
    PROVE  RunInv'
<1>1. FullIsFlushed' /\ StartAfterEnd' /\ SessionOwned'
  BY DEF RunInv, FullIsFlushed, StartAfterEnd, SessionOwned, OpenSessions
<1>2. WayDown'
  BY DEF RunInv, WayDown
<1> QED BY <1>1, <1>2 DEF RunInv

LEMMA ReceiveRun ==
    ASSUME HistoryTypeOK, RunInv, Receive
    PROVE  RunInv'
<1>1. /\ Head(queue) \in Event /\ Len(pending) < BatchSize
      /\ mode \in {"up", "stopping"}
      /\ UNCHANGED <<mode, outbox, sessionUp, sessionID, lastErr, sessions>>
  BY ReceiveTypes DEF RunInv, Receive, producer, db
<1>2. /\ FullIsFlushed'
      /\ \A k \in DOMAIN work' : work'[k].op = "start" => work'[k].n # 0 /\ k = 3
      /\ (Len(work') = 3 => work'[2].op = "end") /\ (3 \in DOMAIN work' => Len(work') = 3)
  <2>1. CASE Head(queue).kind = "snapshot"
    <3>1. work' = IF Full(pending') THEN <<FlushStep>> ELSE <<>>
      BY <2>1 DEF Receive
    <3>2. FlushStep.op = "flush"
      BY DEF FlushStep
    <3>3. CASE work' = <<FlushStep>> /\ Full(pending')
      BY <3>2, <3>3 DEF FullIsFlushed
    <3>4. CASE work' = <<>> /\ ~Full(pending')
      <4>1. ~(Len(pending') >= BatchSize)
        BY <3>4 DEF Full
      <4> QED BY <3>4, <4>1 DEF FullIsFlushed
    <3> QED BY <3>1, <3>3, <3>4
  <2>2. CASE Head(queue).kind # "snapshot"
    <3> DEFINE w == Writes(Head(queue))
    <3>1. work' = w /\ pending' = pending
      BY <2>2 DEF Receive
    <3>2. /\ w \in Seq(Write) /\ w # <<>> /\ Len(w) = IF Head(queue).kind = "start" THEN 3 ELSE 2
          /\ w[1].op = "flush"
          /\ w[2].op = IF Head(queue).kind = "start" THEN "end" ELSE Head(queue).kind
          /\ Head(queue).kind = "start" => w[3].op = "start" /\ w[3].n # 0
      BY <1>1, WritesOf
    <3> HIDE DEF w
    <3>3. FullIsFlushed'
      BY <3>1, <3>2 DEF FullIsFlushed
    <3>4. DOMAIN w = 1..Len(w)
      BY <3>2, LenProperties
    <3>5. CASE Head(queue).kind = "start"
      BY <3>1, <3>2, <3>3, <3>4, <3>5
    <3>6. CASE Head(queue).kind # "start"
      BY <3>1, <3>2, <3>3, <3>4, <3>6
    <3> QED BY <3>5, <3>6
  <2> QED BY <2>1, <2>2
<1>3. StartAfterEnd'
  BY <1>2 DEF StartAfterEnd
<1>4. SessionOwned'
  BY <1>1 DEF RunInv, SessionOwned, OpenSessions
<1>5. WayDown'
  BY <1>1 DEF RunInv, WayDown
<1> QED BY <1>2, <1>3, <1>4, <1>5 DEF RunInv

LEMMA FlushRun ==
    ASSUME HistoryTypeOK, RunInv, NEW ok \in BOOLEAN, Flush(ok)
    PROVE  RunInv'
<1>1. /\ work # <<>> /\ work[1].op = "flush" /\ work' = Tail(work) /\ pending' = <<>>
      /\ UNCHANGED <<mode, outbox, queue, sessionUp, sessionID, sessions>>
      /\ (~lastErr' => ~lastErr)
  BY Done DEF Flush, producer
<1>2. FullIsFlushed'
  BY <1>1, IslandFacts, EmptyFacts DEF FullIsFlushed
<1>3. StartAfterEnd'
  BY <1>1, StartsLater DEF RunInv
<1>4. SessionOwned'
  BY <1>1 DEF RunInv, SessionOwned, OpenSessions
<1>5. WayDown'
  <2>1. CASE mode = "closing"
    <3>1. Len(work) = 2 /\ work[2].op = "close"
      BY <1>1, <2>1 DEF RunInv, WayDown
    <3>2. Len(work') = 1 /\ work'[1] = work[2]
      BY <1>1, <3>1, Done
    <3> QED BY <1>1, <2>1, <3>1, <3>2 DEF RunInv, WayDown
  <2>2. CASE mode # "closing"
    BY <1>1, <2>2 DEF RunInv, WayDown
  <2> QED BY <2>1, <2>2
<1> QED BY <1>2, <1>3, <1>4, <1>5 DEF RunInv

LEMMA EndRun ==
    ASSUME HistoryTypeOK, RunInv, work # <<>>, work[1].op \in {"end", "close"},
           NEW t \in 1..MaxTime, NEW ok \in BOOLEAN, EndAt(t, ok)
    PROVE  RunInv'
<1>1. /\ work' = Tail(work) /\ sessionUp' = FALSE
      /\ UNCHANGED <<mode, outbox, queue, pending, sessionID>>
  BY EndTypes DEF EndAt, producer
<1>2. FullIsFlushed'
  BY <1>1 DEF RunInv, FullIsFlushed
<1>3. StartAfterEnd'
  BY <1>1, StartsLater DEF RunInv
<1>4. SessionOwned'
  <2>1. CASE sessionUp
    <3>1. CASE ok
      BY <1>1, <2>1, <3>1, EndTypes DEF RunInv, SessionOwned
    <3>2. CASE ~ok
      BY <2>1, <3>2, EndTypes DEF SessionOwned
    <3> QED BY <3>1, <3>2
  <2>2. CASE ~sessionUp
    BY <1>1, <2>2, EndTypes DEF RunInv, SessionOwned, OpenSessions
  <2> QED BY <2>1, <2>2
<1>5. WayDown'
  <2>1. CASE mode = "closing"
    <3>1. Len(work) = 1 /\ pending = <<>>
      BY <2>1 DEF RunInv, WayDown
    <3>2. work' = <<>>
      BY <1>1, <3>1, Done, EmptySeq
    <3> QED BY <1>1, <2>1, <3>1, <3>2 DEF RunInv, WayDown
  <2>2. CASE mode # "closing"
    BY <1>1, <2>2 DEF RunInv, WayDown
  <2> QED BY <2>1, <2>2
<1> QED BY <1>2, <1>3, <1>4, <1>5 DEF RunInv

LEMMA StartRun ==
    ASSUME HistoryTypeOK, RunInv, NEW ok \in BOOLEAN, StartSession(ok)
    PROVE  RunInv'
<1>1. /\ work # <<>> /\ work[1].op = "start" /\ work' = Tail(work) /\ 1 \in DOMAIN work
      /\ UNCHANGED <<mode, outbox, queue, pending>>
      /\ (~lastErr' => ~lastErr /\ ok)
  <2>1. lastErr' = (lastErr \/ ~ok)
    BY DEF StartSession
  <2>2. work # <<>> /\ Head(work).op = "start" /\ work' = Tail(work)
    BY DEF StartSession
  <2>3. UNCHANGED <<mode, outbox, queue, pending>>
    BY DEF StartSession, producer
  <2>4. work[1] = Head(work) /\ 1 \in DOMAIN work
    BY <2>2, Done
  <2> QED BY <2>1, <2>2, <2>3, <2>4
<1>2. ~sessionUp
  BY <1>1 DEF RunInv, StartAfterEnd
<1>3. FullIsFlushed'
  BY <1>1 DEF RunInv, FullIsFlushed
<1>4. StartAfterEnd'
  BY <1>1, StartsLater DEF RunInv
<1>5. SessionOwned'
  <2> SUFFICES ASSUME mode # "crashed", ~lastErr'
               PROVE  OpenSessions' = IF sessionUp' THEN {sessionID'} ELSE {}
    BY <1>1 DEF SessionOwned
  <2> DEFINE new == [start |-> Head(work).at, end |-> Open, n |-> Head(work).n]
  <2>1. OpenSessions = {}
    BY <1>1, <1>2 DEF RunInv, SessionOwned
  <2>2. sessions' = Append(sessions, new) /\ sessionID' = Len(sessions) + 1 /\ sessionUp' = TRUE
    BY <1>1 DEF StartSession
  <2>3. new.end = Open
    OBVIOUS
  <2> HIDE DEF new
  <2>4. /\ DOMAIN sessions' = 1..Len(sessions) + 1 /\ DOMAIN sessions = 1..Len(sessions)
        /\ Len(sessions) \in Nat
        /\ \A id \in 1..Len(sessions) : sessions'[id] = sessions[id]
        /\ sessions'[Len(sessions) + 1] = new
    <3>1. sessions \in Seq(Range(sessions) \cup {new}) /\ new \in Range(sessions) \cup {new}
      BY DEF HistoryTypeOK, Range
    <3> QED BY <2>2, <3>1, AppendFacts
  <2> QED BY <2>1, <2>2, <2>3, <2>4 DEF OpenSessions
<1>6. WayDown'
  BY <1>1 DEF RunInv, WayDown
<1> QED BY <1>3, <1>4, <1>5, <1>6 DEF RunInv

LEMMA AlertRun ==
    ASSUME HistoryTypeOK, RunInv, NEW ok \in BOOLEAN, WriteAlert(ok)
    PROVE  RunInv'
<1>1. /\ work # <<>> /\ work[1].op \in {"raised", "cleared"} /\ work' = Tail(work)
      /\ UNCHANGED <<mode, outbox, queue, pending, sessionUp, sessionID, sessions>>
      /\ (~lastErr' => ~lastErr)
  BY Done DEF WriteAlert, producer
<1>2. StartAfterEnd'
  BY <1>1, StartsLater DEF RunInv
<1>3. FullIsFlushed' /\ SessionOwned'
  BY <1>1 DEF RunInv, FullIsFlushed, SessionOwned, OpenSessions
<1>4. WayDown'
  BY <1>1 DEF RunInv, WayDown
<1> QED BY <1>2, <1>3, <1>4 DEF RunInv

LEMMA RunStep ==
    ASSUME HistoryTypeOK, RunInv, [HistoryNext]_histVars
    PROVE  HistoryTypeOK' /\ RunInv'
<1>1. ASSUME NEW i \in Island, Snapshot(i) PROVE HistoryTypeOK' /\ RunInv'
  <2>1. PICK events :
           /\ Produce(events) /\ Len(events) \in Nat
           /\ \A k \in 1..Len(events) : events[k] \in Kind \X Island
    BY <1>1, SnapshotProduces
  <2>2. mode = "up" /\ outbox' \in Seq(Event) /\ said' \in 0..MaxEvents /\ said <= said'
    BY <2>1, Produced
  <2>3. watched' \subseteq Island
    BY <1>1 DEF Snapshot, HistoryTypeOK
  <2>4. /\ UNCHANGED <<mode, queue, work, dropped, lastSample, pending, sessionUp, sessionID>>
        /\ UNCHANGED <<lastErr, written, sessions, islands, samples, alerts, since, now, opens>>
    BY <1>1 DEF Snapshot, run, db, process
  <2>5. since' \in 0..said'
    BY <2>2, <2>4 DEF HistoryTypeOK
  <2>6. HistoryTypeOK'
    BY <2>2, <2>3, <2>4, <2>5 DEF HistoryTypeOK
  <2> QED BY <2>2, <2>4, <2>6, SameRun
<1>2. ASSUME NEW kind \in {"start", "end"}, SessionBoundary(kind)
      PROVE  HistoryTypeOK' /\ RunInv'
  <2>1. PICK events :
           /\ Produce(events) /\ Len(events) \in Nat
           /\ \A k \in 1..Len(events) : events[k] \in Kind \X Island
    BY <1>2, BoundaryProduces
  <2>2. mode = "up" /\ outbox' \in Seq(Event) /\ said' \in 0..MaxEvents /\ said <= said'
    BY <2>1, Produced
  <2>3. watched' \subseteq Island
    BY <1>2 DEF SessionBoundary
  <2>4. /\ UNCHANGED <<mode, queue, work, dropped, lastSample, pending, sessionUp, sessionID>>
        /\ UNCHANGED <<lastErr, written, sessions, islands, samples, alerts, since, now, opens>>
    BY <1>2 DEF SessionBoundary, run, db, process
  <2>5. since' \in 0..said'
    BY <2>2, <2>4 DEF HistoryTypeOK
  <2>6. HistoryTypeOK'
    BY <2>2, <2>3, <2>4, <2>5 DEF HistoryTypeOK
  <2> QED BY <2>2, <2>4, <2>6, SameRun
<1>3. CASE Offer
  <2>1. outbox # <<>> /\ outbox \in Seq(Event) /\ queue \in Seq(Event) /\ mode = "up"
    BY <1>3 DEF Offer, HistoryTypeOK
  <2>2. Head(outbox) \in Event /\ outbox' \in Seq(Event)
    BY <1>3, <2>1, TailFacts DEF Offer
  <2>3. queue' \in Seq(Event) /\ Len(queue') <= QueueSize /\ dropped' \in Nat
    <3>1. CASE Len(queue) < QueueSize /\ queue' = Append(queue, Head(outbox)) /\ dropped' = dropped
      BY <2>1, <2>2, <3>1, AppendFacts, IslandFacts DEF HistoryTypeOK
    <3>2. CASE dropped' = dropped + 1 /\ queue' = queue
      BY <3>2 DEF HistoryTypeOK
    <3> QED BY <1>3, <3>1, <3>2 DEF Offer
  <2>4. /\ UNCHANGED <<mode, watched, said, work, lastSample, pending, sessionUp, sessionID>>
        /\ UNCHANGED <<lastErr, written, sessions, islands, samples, alerts, since, now, opens>>
    BY <1>3 DEF Offer, run, db, process
  <2>5. HistoryTypeOK'
    BY <2>2, <2>3, <2>4 DEF HistoryTypeOK
  <2> QED BY <2>1, <2>4, <2>5, SameRun
<1>4. CASE Receive
  BY <1>4, ReceiveTypes, ReceiveRun DEF RunInv
<1>5. CASE TickerFires \/ Drained
  <2> DEFINE f == FlushStep
             c == [FlushStep EXCEPT !.op = "close"]
  <2>1. f \in Write /\ f.op = "flush" /\ c \in Write /\ c.op = "close"
    <3>1. f \in Write /\ f.op = "flush"
      BY IslandFacts DEF FlushStep, Write, HistoryTypeOK
    <3>2. \A w \in Write : [w EXCEPT !.op = "close"] \in Write /\ [w EXCEPT !.op = "close"].op = "close"
      BY DEF Write
    <3> HIDE DEF f
    <3> QED BY <3>1, <3>2 DEF f
  <2>2. /\ work' = <<f>> \/ work' = <<f, c>>
        /\ UNCHANGED <<outbox, watched, said, queue, dropped, lastSample, pending, sessionUp>>
        /\ UNCHANGED <<sessionID, lastErr, written, sessions, islands, samples, alerts>>
        /\ UNCHANGED <<since, now, opens>>
    BY <1>5 DEF TickerFires, Drained, producer, run, db, process
  <2>3. \/ TickerFires /\ work' = <<f>> /\ mode = "up" /\ mode' = mode
        \/ mode = "stopping" /\ mode' = "closing" /\ queue = <<>> /\ work' = <<f, c>>
    BY <1>5 DEF TickerFires, Drained
  <2> HIDE DEF f, c
  <2>4. /\ work' \in Seq(Write) /\ work' # <<>> /\ work'[1].op = "flush"
        /\ work' = <<f, c>> => Len(work') = 2 /\ work'[2].op = "close"
        /\ \A k \in DOMAIN work' : work'[k].op # "start"
    <3>1. CASE work' = <<f>>
      BY <2>1, <3>1
    <3>2. CASE work' = <<f, c>>
      BY <2>1, <3>2
    <3> QED BY <2>2, <3>1, <3>2
  <2>5. HistoryTypeOK'
    BY <2>2, <2>3, <2>4 DEF HistoryTypeOK, Write
  <2>6. FullIsFlushed' /\ StartAfterEnd'
    BY <2>4 DEF FullIsFlushed, StartAfterEnd
  <2>7. SessionOwned'
    BY <2>2, <2>3 DEF RunInv, SessionOwned, OpenSessions
  <2>8. WayDown'
    BY <2>2, <2>3, <2>4 DEF RunInv, WayDown
  <2> QED BY <2>5, <2>6, <2>7, <2>8 DEF RunInv
<1>6. ASSUME NEW ok \in BOOLEAN, Flush(ok) PROVE HistoryTypeOK' /\ RunInv'
  BY <1>6, FlushTypes, FlushRun
<1>7. ASSUME NEW ok \in BOOLEAN, EndSession(ok) PROVE HistoryTypeOK' /\ RunInv'
  <2>1. work # <<>> /\ EndAt(Head(work).at, ok) /\ work[1].op = "end"
    BY <1>7, Done DEF EndSession
  <2>2. Head(work).at \in 1..MaxTime
    BY <2>1, Done DEF Write
  <2> QED BY <2>1, <2>2, EndTypes, EndRun
<1>8. ASSUME NEW ok \in BOOLEAN, CloseSession(ok) PROVE HistoryTypeOK' /\ RunInv'
  <2> DEFINE t == IF lastSample = 0 THEN now ELSE lastSample
  <2>1. work # <<>> /\ EndAt(t, ok) /\ work[1].op = "close"
    BY <1>8, Done DEF CloseSession
  <2>2. t \in 1..MaxTime
    BY IslandFacts DEF HistoryTypeOK
  <2> HIDE DEF t
  <2> QED BY <2>1, <2>2, EndTypes, EndRun
<1>9. ASSUME NEW ok \in BOOLEAN, StartSession(ok) PROVE HistoryTypeOK' /\ RunInv'
  BY <1>9, StartTypes, StartRun DEF RunInv
<1>10. ASSUME NEW ok \in BOOLEAN, WriteAlert(ok) PROVE HistoryTypeOK' /\ RunInv'
  BY <1>10, AlertTypes, AlertRun
<1>11. CASE Closed \/ Stop
  <2>1. /\ UNCHANGED <<outbox, watched, said, queue, work, dropped, lastSample, pending, sessionUp>>
        /\ UNCHANGED <<sessionID, lastErr, written, sessions, islands, samples, alerts>>
        /\ UNCHANGED <<since, now, opens>>
    BY <1>11 DEF Closed, Stop, producer, run, db, process
  <2>2. \/ mode = "closing" /\ work = <<>> /\ mode' = "closed"
        \/ mode = "up" /\ outbox = <<>> /\ mode' = "stopping"
    BY <1>11 DEF Closed, Stop
  <2>3. HistoryTypeOK'
    BY <2>1, <2>2 DEF HistoryTypeOK
  <2>4. FullIsFlushed' /\ StartAfterEnd' /\ SessionOwned'
    BY <2>1, <2>2 DEF RunInv, FullIsFlushed, StartAfterEnd, SessionOwned, OpenSessions
  <2>5. WayDown'
    BY <2>1, <2>2, EmptyFacts DEF RunInv, WayDown
  <2> QED BY <2>3, <2>4, <2>5 DEF RunInv
<1>12. CASE Crash
  <2>1. /\ outbox' = <<>> /\ queue' = <<>> /\ pending' = <<>> /\ work' = <<>> /\ mode' = "crashed"
        /\ watched' = {} /\ sessionUp' = FALSE /\ sessionID' = 0
        /\ UNCHANGED <<said, dropped, lastErr, lastSample, written, sessions, islands, samples>>
        /\ UNCHANGED <<alerts, since, now, opens>>
    BY <1>12 DEF Crash, db, process
  <2>2. HistoryTypeOK'
    BY <2>1, EmptyFacts, IslandFacts DEF HistoryTypeOK
  <2>3. RunInv'
    BY <2>1, EmptyFacts, IslandFacts DEF RunInv, FullIsFlushed, StartAfterEnd, SessionOwned, WayDown
  <2> QED BY <2>2, <2>3
<1>13. ASSUME NEW commits \in 0..2, OpenStore(commits) PROVE HistoryTypeOK' /\ RunInv'
  <2>1. /\ outbox' = <<>> /\ queue' = <<>> /\ pending' = <<>> /\ work' = <<>>
        /\ mode' = (IF commits = 2 THEN "up" ELSE "crashed") /\ sessionUp' = FALSE
    BY <1>13 DEF OpenStore
  <2>2. RunInv'
    BY <1>13, <2>1, OpenTypes, EmptyFacts, IslandFacts
       DEF RunInv, FullIsFlushed, StartAfterEnd, SessionOwned, WayDown
  <2> QED BY <1>13, <2>2, OpenTypes
<1>14. CASE ClockTicks \/ UNCHANGED histVars
  <2>1. /\ UNCHANGED <<mode, outbox, watched, said, queue, work, dropped, lastSample, pending>>
        /\ UNCHANGED <<sessionUp, sessionID, lastErr, written, sessions, islands, samples, alerts>>
        /\ UNCHANGED <<since, opens>> /\ now' \in 1..MaxTime
    BY <1>14, IslandFacts
       DEF ClockTicks, histVars, producer, run, db, process, HistoryTypeOK
  <2>2. HistoryTypeOK'
    BY <2>1 DEF HistoryTypeOK
  <2> QED BY <2>1, <2>2, SameRun
<1> QED BY <1>1, <1>2, <1>3, <1>4, <1>5, <1>6, <1>7, <1>8, <1>9, <1>10, <1>11, <1>12, <1>13, <1>14
        DEF HistoryNext, Batcher

-----------------------------------------------------------------------------
(* Serials and the retention anchor *)

LEMMA OwnTail ==
    ASSUME NEW s \in Seq(Event), s # <<>>, Own(s)
    PROVE  Own(Tail(s)) /\ since < Head(s).n /\ Head(s).n <= said
<1>1. /\ 1 \in DOMAIN s /\ Head(s) = s[1] /\ DOMAIN Tail(s) = 1..Len(s) - 1
      /\ \A k \in 1..Len(s) - 1 : k + 1 \in DOMAIN s /\ Tail(s)[k] = s[k + 1]
  BY TailFacts
<1> QED BY <1>1 DEF Own

LEMMA OwnAppend ==
    ASSUME NEW s \in Seq(Event), Own(s), NEW e \in Event, since < e.n, e.n <= said
    PROVE  Own(Append(s, e))
<1>1. /\ DOMAIN s = 1..Len(s) /\ DOMAIN Append(s, e) = 1..Len(s) + 1 /\ Len(s) \in Nat
      /\ \A k \in 1..Len(s) : Append(s, e)[k] = s[k]
      /\ Append(s, e)[Len(s) + 1] = e
  BY AppendFacts
<1> SUFFICES ASSUME NEW k \in 1..Len(s) + 1
             PROVE  since < Append(s, e)[k].n /\ Append(s, e)[k].n <= said
  BY <1>1 DEF Own
<1>2. CASE k = Len(s) + 1
  BY <1>1, <1>2
<1>3. CASE k # Len(s) + 1
  <2>1. k \in 1..Len(s)
    BY <1>1, <1>3
  <2> QED BY <1>1, <2>1 DEF Own
<1> QED BY <1>2, <1>3

LEMMA EventFacts ==
    ASSUME NEW s \in Seq(Event), NEW k \in DOMAIN s
    PROVE  /\ s[k] \in Event /\ s[k].n \in 1..MaxEvents /\ s[k].n \in Nat /\ s[k].n \in 0..MaxEvents
           /\ s[k].at \in 1..MaxTime /\ s[k].at \in 0..MaxTime
<1>1. s[k] \in Event
  OBVIOUS
<1>2. \A e \in Event : /\ e.n \in 1..MaxEvents /\ e.n \in Nat /\ e.n \in 0..MaxEvents
                       /\ e.at \in 1..MaxTime /\ e.at \in 0..MaxTime
  BY IslandFacts DEF Event
<1> HIDE DEF Event
<1> QED BY <1>1, <1>2

\* What a callback adds is newer than all before it.
LEMMA ProducedSerials ==
    ASSUME HistoryTypeOK, OwnSerials, NEW events, Len(events) \in Nat, Produce(events),
           \A k \in 1..Len(events) : events[k] \in Kind \X Island,
           UNCHANGED <<queue, pending, samples, since>>
    PROVE  OwnSerials'
<1>1. /\ DOMAIN outbox' = 1..Len(events) /\ said' = said + Len(events) /\ said \in Nat
      /\ \A k \in 1..Len(events) : outbox'[k].n = said + k
  BY Produced
<1>2. since \in Nat /\ since <= said
  BY <1>1 DEF HistoryTypeOK
<1>3. Own(outbox)'
  BY <1>1, <1>2 DEF Own
<1>4. Own(queue)' /\ Own(pending)'
  <2>1. /\ \A k \in DOMAIN queue : queue[k].n \in Nat
        /\ \A k \in DOMAIN pending : pending[k].n \in Nat
    BY EventFacts DEF HistoryTypeOK
  <2> QED BY <1>1, <2>1 DEF OwnSerials, Own
<1>5. \A r \in samples' : r.n <= said'
  <2>1. \A r \in samples : r.n \in Nat /\ r.n <= said
    BY DEF HistoryTypeOK, OwnSerials
  <2> QED BY <1>1, <2>1
<1> QED BY <1>3, <1>4, <1>5 DEF OwnSerials

Row(e) == [island |-> e.island, at |-> e.at, n |-> e.n]

LEMMA ReplacedRows ==
    ASSUME HistoryTypeOK, OwnSerials
    PROVE  /\ \A r \in Replaced(samples, pending) :
                 r \in samples \/ \E k \in DOMAIN pending : r = Row(pending[k])
           /\ \A s \in samples \cup {Row(pending[k]) : k \in DOMAIN pending} :
                 \E r \in Replaced(samples, pending) : r.at = s.at /\ r.n >= s.n /\ r.n \in Nat
<1> DEFINE all == samples \cup {Row(pending[k]) : k \in DOMAIN pending}
           Newest(r) == \A q \in all : (q.island = r.island /\ q.at = r.at) => q.n <= r.n
<1>1. Replaced(samples, pending) = {r \in all : Newest(r)}
  <2>1. {Row(pending[k]) : k \in DOMAIN pending}
           = {[island |-> e.island, at |-> e.at, n |-> e.n] : e \in {pending[k] : k \in DOMAIN pending}}
    BY DEF Row
  <2> QED BY <2>1 DEF Replaced
<1>2. \A r \in all : r.n \in 0..MaxEvents
  <2>1. \A r \in samples : r.n \in 0..MaxEvents
    BY IslandFacts DEF HistoryTypeOK
  <2>2. \A k \in DOMAIN pending : Row(pending[k]).n \in 0..MaxEvents
    BY EventFacts DEF HistoryTypeOK, Row
  <2> QED BY <2>1, <2>2
<1>3. ASSUME NEW s \in all
      PROVE  \E r \in Replaced(samples, pending) : r.at = s.at /\ r.n >= s.n /\ r.n \in Nat
  <2> DEFINE same == {q \in all : q.island = s.island /\ q.at = s.at}
             ns == {q.n : q \in same}
  <2> HIDE DEF all
  <2>1. ns \subseteq 0..MaxEvents /\ s.n \in ns
    BY <1>2
  <2>2. Max(ns) \in ns /\ \A x \in ns : x <= Max(ns)
    <3> HIDE DEF ns
    <3> QED BY <2>1, MaxIsGreatest, IslandFacts
  <2>3. PICK r \in same : r.n = Max(ns)
    BY <2>2
  <2>4. r \in all /\ r.island = s.island /\ r.at = s.at /\ r.n \in 0..MaxEvents
    BY <1>2, <2>3
  <2>5. Newest(r)
    <3> SUFFICES ASSUME NEW q \in all, q.island = r.island, q.at = r.at PROVE q.n <= r.n
      OBVIOUS
    <3>1. q.n \in ns
      BY <2>4
    <3> QED BY <2>2, <2>3, <3>1
  <2>6. r.n >= s.n
    BY <1>2, <2>1, <2>2, <2>3, <2>4
  <2> QED BY <1>1, <2>4, <2>5, <2>6
<1> QED BY <1>1, <1>3

LEMMA FlushSerials ==
    ASSUME HistoryTypeOK, OwnSerials, NEW ok \in BOOLEAN, Flush(ok)
    PROVE  OwnSerials'
<1>1. UNCHANGED <<outbox, queue, said, since>> /\ pending' = <<>>
  BY DEF Flush, producer, process
<1>2. Own(outbox)' /\ Own(queue)' /\ Own(pending)'
  BY <1>1, EmptyFacts DEF OwnSerials, Own
<1>3. ASSUME NEW r \in samples' PROVE r.n <= said
  <2>1. samples' = samples \/ samples' = Replaced(samples, pending)
    BY DEF Flush
  <2>2. r \in samples \/ \E k \in DOMAIN pending : r = Row(pending[k])
    BY <2>1, ReplacedRows
  <2>3. \A k \in DOMAIN pending : Row(pending[k]).n <= said
    BY DEF OwnSerials, Own, Row
  <2> QED BY <2>2, <2>3 DEF OwnSerials
<1> QED BY <1>1, <1>2, <1>3 DEF OwnSerials

LEMMA SerialStep ==
    ASSUME HistoryTypeOK, OwnSerials, [HistoryNext]_histVars
    PROVE  OwnSerials'
<1>1. ASSUME NEW i \in Island, Snapshot(i) PROVE OwnSerials'
  BY <1>1, SnapshotProduces, ProducedSerials DEF Snapshot, run, db, process
<1>2. ASSUME NEW kind \in {"start", "end"}, SessionBoundary(kind) PROVE OwnSerials'
  BY <1>2, BoundaryProduces, ProducedSerials DEF SessionBoundary, run, db, process
<1>3. CASE Offer
  <2>1. /\ outbox # <<>> /\ outbox \in Seq(Event) /\ queue \in Seq(Event)
        /\ Own(outbox) /\ Own(queue) /\ Own(pending)
        /\ UNCHANGED <<said, since, pending, samples>> /\ outbox' = Tail(outbox)
        /\ queue' = queue \/ queue' = Append(queue, Head(outbox))
    BY <1>3 DEF Offer, HistoryTypeOK, OwnSerials, run, db, process
  <2>2. Own(Tail(outbox)) /\ Own(Append(queue, Head(outbox)))
    BY <2>1, OwnTail, OwnAppend, TailFacts
  <2> QED BY <2>1, <2>2 DEF OwnSerials, Own
<1>4. CASE Receive
  <2>1. /\ queue # <<>> /\ queue \in Seq(Event) /\ pending \in Seq(Event)
        /\ Own(outbox) /\ Own(queue) /\ Own(pending)
        /\ UNCHANGED <<said, since, outbox, samples>> /\ queue' = Tail(queue)
        /\ pending' = pending \/ pending' = Append(pending, Head(queue))
    BY <1>4 DEF Receive, HistoryTypeOK, OwnSerials, producer, db, process
  <2>2. Own(Tail(queue)) /\ Own(Append(pending, Head(queue)))
    BY <2>1, OwnTail, OwnAppend, TailFacts
  <2> QED BY <2>1, <2>2 DEF OwnSerials, Own
<1>5. ASSUME NEW ok \in BOOLEAN, Flush(ok) PROVE OwnSerials'
  BY <1>5, FlushSerials
<1>6. CASE Crash \/ \E commits \in 0..2 : OpenStore(commits)
  <2>1. /\ outbox' = <<>> /\ queue' = <<>> /\ pending' = <<>>
        /\ UNCHANGED <<said, samples>>
    BY <1>6 DEF Crash, OpenStore, db
  <2> QED BY <2>1, EmptyFacts DEF OwnSerials, Own
<1>7. CASE \/ TickerFires \/ Drained \/ Closed \/ Stop \/ ClockTicks \/ UNCHANGED histVars
           \/ \E ok \in BOOLEAN : EndSession(ok) \/ CloseSession(ok) \/ StartSession(ok)
                                     \/ WriteAlert(ok)
  <2>1. UNCHANGED <<outbox, queue, pending, said, since, samples>>
    BY <1>7 DEF TickerFires, Drained, Closed, Stop, ClockTicks, histVars, EndSession, CloseSession,
       EndAt, StartSession, WriteAlert, producer, run, db, process
  <2> QED BY <2>1 DEF OwnSerials, Own
<1> QED BY <1>1, <1>2, <1>3, <1>4, <1>5, <1>6, <1>7 DEF HistoryNext, Batcher

\* The times of the samples this process has committed.
OwnTimes == {s.at : s \in {r \in samples : r.n > since}}

LEMMA AnchorFacts == AnchorIsCommitted <=> lastSample = IF OwnTimes = {} THEN 0 ELSE Max(OwnTimes)
BY DEF AnchorIsCommitted, OwnTimes

\* A committed batch adds its times, whichever of its rows stay.
LEMMA CommittedTimes ==
    ASSUME HistoryTypeOK, OwnSerials, samples' = Replaced(samples, pending), since' = since
    PROVE  OwnTimes' = OwnTimes \cup {pending[k].at : k \in DOMAIN pending}
<1>1. ASSUME NEW r \in samples', r.n > since
      PROVE  r.at \in OwnTimes \cup {pending[k].at : k \in DOMAIN pending}
  <2>1. r \in samples \/ \E k \in DOMAIN pending : r = Row(pending[k])
    BY ReplacedRows
  <2> QED BY <1>1, <2>1 DEF OwnTimes, Row
<1>2. ASSUME NEW s \in samples \cup {Row(pending[k]) : k \in DOMAIN pending}, s.n > since, s.n \in Nat
      PROVE  s.at \in OwnTimes'
  <2>1. PICK r \in samples' : r.at = s.at /\ r.n >= s.n /\ r.n \in Nat
    BY ReplacedRows
  <2>2. r.n > since
    BY <1>2, <2>1 DEF HistoryTypeOK
  <2> QED BY <2>1, <2>2 DEF OwnTimes
<1>3. \A s \in samples : s.n \in Nat
  BY DEF HistoryTypeOK
<1>4. \A k \in DOMAIN pending :
         /\ Row(pending[k]).n > since /\ Row(pending[k]).n \in Nat
         /\ Row(pending[k]).at = pending[k].at
  <2>1. \A k \in DOMAIN pending : pending[k].n \in Nat /\ since < pending[k].n
    BY EventFacts DEF HistoryTypeOK, OwnSerials, Own
  <2>2. since \in Nat
    BY IslandFacts DEF HistoryTypeOK
  <2> QED BY <2>1, <2>2 DEF Row
<1>5. OwnTimes' \subseteq OwnTimes \cup {pending[k].at : k \in DOMAIN pending}
  BY <1>1 DEF OwnTimes
<1>6. OwnTimes \subseteq OwnTimes'
  BY <1>2, <1>3 DEF OwnTimes
<1>7. {pending[k].at : k \in DOMAIN pending} \subseteq OwnTimes'
  BY <1>2, <1>4
<1> QED BY <1>5, <1>6, <1>7

LEMMA AnchorStep ==
    ASSUME HistoryTypeOK, OwnSerials, AnchorIsCommitted, [HistoryNext]_histVars
    PROVE  AnchorIsCommitted'
<1>1. ASSUME NEW ok \in BOOLEAN, Flush(ok), ok, pending # <<>> PROVE AnchorIsCommitted'
  <2> DEFINE times == {pending[k].at : k \in DOMAIN pending}
             all == OwnTimes \cup times
  <2>1. OwnTimes' = all /\ lastSample' = Max(times \cup {lastSample})
    BY <1>1, CommittedTimes DEF Flush, Noted, process
  <2>2. times \subseteq 0..MaxTime /\ OwnTimes \subseteq 0..MaxTime /\ times # {}
    <3>1. 1 \in DOMAIN pending
      BY <1>1, TailFacts DEF HistoryTypeOK
    <3>2. \A k \in DOMAIN pending : pending[k].at \in 0..MaxTime
      BY EventFacts DEF HistoryTypeOK
    <3>3. \A r \in samples : r.at \in 0..MaxTime
      BY IslandFacts DEF HistoryTypeOK
    <3> QED BY <3>1, <3>2, <3>3 DEF OwnTimes
  <2>3. lastSample = IF OwnTimes = {} THEN 0 ELSE Max(OwnTimes)
    BY AnchorFacts
  <2> HIDE DEF times
  <2>4. all \subseteq 0..MaxTime /\ all # {}
    BY <2>2
  <2>5. Max(all) \in all /\ \A y \in all : y <= Max(all)
    <3> HIDE DEF all
    <3> QED BY <2>4, MaxIsGreatest, IslandFacts
  <2>6. OwnTimes # {} => lastSample \in OwnTimes /\ \A y \in OwnTimes : y <= lastSample
    BY <2>2, <2>3, MaxIsGreatest, IslandFacts
  <2>7. Max(all) \in Nat /\ \A y \in times \cup {lastSample} : y <= Max(all)
    <3>1. Max(all) \in Nat /\ \A y \in times : y <= Max(all)
      BY <2>4, <2>5
    <3>2. CASE OwnTimes = {}
      BY <2>3, <3>1, <3>2
    <3>3. CASE OwnTimes # {}
      <4>1. lastSample \in all
        BY <2>6, <3>3
      <4> QED BY <2>5, <3>1, <4>1
    <3> QED BY <3>2, <3>3
  <2>8. Max(all) \in times \cup {lastSample}
    <3>1. CASE Max(all) \in times
      BY <3>1
    <3>2. CASE Max(all) \in OwnTimes
      <4>1. lastSample \in OwnTimes /\ Max(all) <= lastSample /\ lastSample <= Max(all)
        BY <2>5, <2>6, <3>2
      <4>2. lastSample \in Nat
        BY <2>2, <4>1
      <4> QED BY <2>7, <4>1, <4>2
    <3> QED BY <2>5, <3>1, <3>2
  <2>9. times \cup {lastSample} \subseteq Nat
    <3>1. lastSample \in Nat
      BY IslandFacts DEF HistoryTypeOK
    <3>2. times \subseteq Nat
      BY <2>2
    <3> QED BY <3>1, <3>2
  <2>10. Max(times \cup {lastSample}) = Max(all)
    <3> HIDE DEF all
    <3> QED BY <2>7, <2>8, <2>9, MaxIs
  <2>11. lastSample' = IF OwnTimes' = {} THEN 0 ELSE Max(OwnTimes')
    BY <2>1, <2>4, <2>10
  <2> QED BY <2>11 DEF AnchorIsCommitted, OwnTimes
<1>2. ASSUME NEW commits \in 0..2, OpenStore(commits) PROVE AnchorIsCommitted'
  <2>1. lastSample' = 0 /\ samples' = samples /\ since' = said
    BY <1>2 DEF OpenStore
  <2>2. \A r \in samples : r.n \in Nat /\ r.n <= said
    BY DEF HistoryTypeOK, OwnSerials
  <2>3. said \in Nat
    BY IslandFacts DEF HistoryTypeOK
  <2>4. \A r \in samples' : ~(r.n > since')
    BY <2>1, <2>2, <2>3
  <2> QED BY <2>1, <2>4 DEF AnchorIsCommitted
<1>3. CASE UNCHANGED <<samples, since, lastSample>>
  BY <1>3 DEF AnchorIsCommitted
<1>4. ASSUME NEW ok \in BOOLEAN, Flush(ok), ~(ok /\ pending # <<>>)
      PROVE  UNCHANGED <<samples, since, lastSample>>
  BY <1>4 DEF Flush, Noted, process
<1>5. CASE ~(\E ok \in BOOLEAN : Flush(ok)) /\ ~(\E commits \in 0..2 : OpenStore(commits))
  <2>1. \/ \E i \in Island : Snapshot(i)
        \/ \E kind \in {"start", "end"} : SessionBoundary(kind)
        \/ Offer \/ Receive \/ TickerFires \/ Drained \/ Closed \/ Stop \/ Crash \/ ClockTicks
        \/ UNCHANGED histVars
        \/ \E ok \in BOOLEAN : EndSession(ok) \/ CloseSession(ok) \/ StartSession(ok)
                                  \/ WriteAlert(ok)
    BY <1>5 DEF HistoryNext, Batcher
  <2>2. UNCHANGED <<samples, since, lastSample>>
    BY <2>1 DEF Snapshot, SessionBoundary, Offer, Receive, TickerFires, Drained, Closed, Stop, Crash,
       ClockTicks, histVars, EndSession, CloseSession, EndAt, StartSession, WriteAlert, db, process
  <2> QED BY <1>3, <2>2
<1> QED BY <1>1, <1>2, <1>3, <1>4, <1>5

-----------------------------------------------------------------------------
(* An alert finds its island *)

\* The step that is done does not leave an alert behind that has not been flushed for.
LEMMA AlertsLater ==
    ASSUME HistoryTypeOK, WorkFound, work # <<>>, work[1].op # "flush", work' = Tail(work)
    PROVE  WorkFound'
<1>1. \A k \in DOMAIN work' : k + 1 \in DOMAIN work /\ work'[k] = work[k + 1] /\ k + 1 # 1
  BY Done
<1>2. \A k \in DOMAIN work' : work'[k].op # "raised"
  BY <1>1 DEF WorkFound
<1> QED BY <1>2 DEF WorkFound

\* More island rows, and the same events on their way.
LEMMA FoundKept ==
    ASSUME QueueFound, OutboxFound, islands \subseteq islands', UNCHANGED <<pending, queue, outbox>>
    PROVE  QueueFound' /\ OutboxFound'
<1>1. \A i : Seen(i) => Seen(i)'
  BY DEF Seen
<1> QED BY <1>1 DEF QueueFound, OutboxFound, SnapshotIn

LEMMA SnapshotFound ==
    ASSUME HistoryTypeOK, SnapshotFirst, NEW events, Len(events) \in Nat, Produce(events),
           \A k \in 1..Len(events) : events[k] \in Kind \X Island,
           \A k \in 1..Len(events) :
              events[k][1] = "raised" =>
                 k # 1 /\ events[1][1] = "snapshot" /\ events[1][2] = events[k][2],
           UNCHANGED <<work, islands, pending, queue, dropped>>
    PROVE  SnapshotFirst'
<1>1. /\ DOMAIN outbox' = 1..Len(events)
      /\ \A k \in 1..Len(events) :
            outbox'[k].kind = events[k][1] /\ outbox'[k].island = events[k][2]
  BY Produced
<1>2. ASSUME NEW k \in DOMAIN outbox', outbox'[k].kind = "raised"
      PROVE  SnapshotIn(outbox', k - 1, outbox'[k].island)
  <2>1. k # 1 /\ outbox'[1].kind = "snapshot" /\ outbox'[1].island = outbox'[k].island
    BY <1>1, <1>2
  <2>2. 1 \in 1..k - 1
    BY <1>1, <2>1
  <2> QED BY <2>1, <2>2 DEF SnapshotIn
<1>3. OutboxFound'
  BY <1>2 DEF OutboxFound, SnapshotIn
<1>4. dropped = 0 => WorkFound' /\ QueueFound'
  BY DEF SnapshotFirst, WorkFound, QueueFound, Seen, SnapshotIn
<1> QED BY <1>3, <1>4 DEF SnapshotFirst

LEMMA OfferFound ==
    ASSUME HistoryTypeOK, SnapshotFirst, Offer
    PROVE  SnapshotFirst'
<1> SUFFICES ASSUME dropped' = 0 PROVE WorkFound' /\ QueueFound' /\ OutboxFound'
  BY DEF SnapshotFirst
<1>1. /\ outbox # <<>> /\ outbox \in Seq(Event) /\ queue \in Seq(Event)
      /\ queue' = Append(queue, Head(outbox)) /\ outbox' = Tail(outbox)
      /\ UNCHANGED <<work, islands, pending, dropped>>
  BY DEF Offer, HistoryTypeOK, run, db
<1>2. WorkFound /\ QueueFound /\ OutboxFound
  BY <1>1 DEF SnapshotFirst
<1>3. /\ Len(queue) \in Nat /\ DOMAIN queue = 1..Len(queue) /\ Len(queue') = Len(queue) + 1
      /\ DOMAIN queue' = 1..Len(queue) + 1
      /\ \A k \in 1..Len(queue) : queue'[k] = queue[k]
      /\ queue'[Len(queue) + 1] = outbox[1]
  BY <1>1, AppendFacts, TailFacts
<1>4. /\ Len(outbox) \in Nat \ {0} /\ DOMAIN outbox = 1..Len(outbox)
      /\ DOMAIN outbox' = 1..Len(outbox) - 1
      /\ \A k \in 1..Len(outbox) - 1 : outbox'[k] = outbox[k + 1]
  BY <1>1, TailFacts
<1>5. \A i : Seen(i)' <=> Seen(i)
  BY <1>1 DEF Seen
<1>6. \A i : \A k \in 0..Len(queue) : SnapshotIn(queue, k, i) => SnapshotIn(queue', k, i)
  BY <1>3 DEF SnapshotIn
<1>7. \A i : SnapshotIn(queue, Len(queue), i) => SnapshotIn(queue', Len(queue'), i)
  BY <1>3 DEF SnapshotIn
<1>8. ASSUME NEW k \in DOMAIN queue', queue'[k].kind = "raised"
      PROVE  Seen(queue'[k].island) \/ SnapshotIn(queue', k - 1, queue'[k].island)
  <2>1. CASE k \in 1..Len(queue)
    <3>1. k - 1 \in 0..Len(queue)
      BY <1>3, <2>1
    <3> QED BY <1>2, <1>3, <1>6, <1>8, <2>1, <3>1 DEF QueueFound
  <2>2. CASE k = Len(queue) + 1
    <3>1. queue'[k] = outbox[1] /\ 1 \in DOMAIN outbox /\ k - 1 = Len(queue)
      BY <1>3, <1>4, <2>2
    <3>2. ~SnapshotIn(outbox, 1 - 1, outbox[1].island)
      BY DEF SnapshotIn
    <3>3. Len(queue) \in 0..Len(queue)
      BY <1>3
    <3> QED BY <1>2, <1>6, <1>8, <3>1, <3>2, <3>3 DEF OutboxFound
  <2> QED BY <1>3, <2>1, <2>2
<1>9. ASSUME NEW k \in DOMAIN outbox', outbox'[k].kind = "raised"
      PROVE  \/ Seen(outbox'[k].island) \/ SnapshotIn(queue', Len(queue'), outbox'[k].island)
             \/ SnapshotIn(outbox', k - 1, outbox'[k].island)
  <2> DEFINE i == outbox'[k].island
  <2>1. k + 1 \in DOMAIN outbox /\ outbox'[k] = outbox[k + 1] /\ (k + 1) - 1 = k /\ k \in Nat \ {0}
    BY <1>4
  <2>2. Seen(i) \/ SnapshotIn(queue, Len(queue), i) \/ SnapshotIn(outbox, k, i)
    BY <1>2, <1>9, <2>1 DEF OutboxFound
  <2>3. CASE SnapshotIn(outbox, k, i)
    <3>1. PICK j \in 1..k : outbox[j].kind = "snapshot" /\ outbox[j].island = i
      BY <2>3 DEF SnapshotIn
    <3>2. CASE j = 1
      <4>1. Len(queue') \in 1..Len(queue') /\ queue'[Len(queue')] = outbox[1]
        BY <1>3
      <4> QED BY <3>1, <3>2, <4>1 DEF SnapshotIn
    <3>3. CASE j # 1
      <4>1. j - 1 \in 1..k - 1 /\ outbox'[j - 1] = outbox[j]
        BY <1>4, <2>1, <3>1, <3>3
      <4> QED BY <3>1, <4>1 DEF SnapshotIn
    <3> QED BY <3>2, <3>3
  <2> QED BY <1>7, <2>2, <2>3
<1>10. WorkFound'
  BY <1>1, <1>2 DEF WorkFound, Seen
<1>11. QueueFound'
  BY <1>5, <1>8 DEF QueueFound, SnapshotIn
<1>12. OutboxFound'
  BY <1>5, <1>9 DEF OutboxFound, SnapshotIn
<1> QED BY <1>10, <1>11, <1>12

LEMMA ReceiveFound ==
    ASSUME HistoryTypeOK, FullIsFlushed, SnapshotFirst, Receive
    PROVE  SnapshotFirst'
<1> SUFFICES ASSUME dropped' = 0 PROVE WorkFound' /\ QueueFound' /\ OutboxFound'
  BY DEF SnapshotFirst
<1> DEFINE ev == Head(queue)
           SeenNext(i) == i \in islands' \/ \E k \in DOMAIN pending' : pending'[k].island = i
<1>1. /\ queue # <<>> /\ queue \in Seq(Event) /\ pending \in Seq(Event) /\ ev \in Event
      /\ queue' = Tail(queue) /\ UNCHANGED <<islands, outbox, dropped>>
  BY ReceiveTypes DEF Receive, HistoryTypeOK, producer, db
<1>2. WorkFound /\ QueueFound /\ OutboxFound
  BY <1>1 DEF SnapshotFirst
<1>3. /\ Len(queue) \in Nat \ {0} /\ DOMAIN queue = 1..Len(queue) /\ ev = queue[1]
      /\ DOMAIN queue' = 1..Len(queue) - 1 /\ Len(queue') = Len(queue) - 1
      /\ \A k \in 1..Len(queue) - 1 : queue'[k] = queue[k + 1]
  BY <1>1, TailFacts
<1>4. /\ \A i : Seen(i) => SeenNext(i)
      /\ ev.kind = "snapshot" => SeenNext(ev.island)
  <2>1. CASE ev.kind = "snapshot"
    <3>1. pending' = Append(pending, ev)
      BY <2>1 DEF Receive
    <3>2. /\ DOMAIN pending = 1..Len(pending) /\ DOMAIN pending' = 1..Len(pending) + 1
          /\ Len(pending) \in Nat /\ pending'[Len(pending) + 1] = ev
          /\ \A k \in 1..Len(pending) : pending'[k] = pending[k]
      BY <1>1, <3>1, AppendFacts
    <3>3. DOMAIN pending \subseteq DOMAIN pending' /\ Len(pending) + 1 \in DOMAIN pending'
      BY <3>2
    <3> HIDE DEF ev
    <3> QED BY <1>1, <3>2, <3>3 DEF Seen
  <2>2. CASE ev.kind # "snapshot"
    BY <1>1, <2>2 DEF Receive, Seen
  <2> QED BY <2>1, <2>2
<1>11. \A i : SeenNext(i) <=> Seen(i)'
  BY DEF Seen
<1> HIDE DEF ev, SeenNext
<1>5. ASSUME NEW i, NEW k \in 1..Len(queue), SnapshotIn(queue, k, i)
      PROVE  SeenNext(i) \/ SnapshotIn(queue', k - 1, i)
  <2>1. PICK j \in 1..k : queue[j].kind = "snapshot" /\ queue[j].island = i
    BY <1>5 DEF SnapshotIn
  <2>2. CASE j = 1
    BY <1>3, <1>4, <2>1, <2>2
  <2>3. CASE j # 1
    <3>1. j - 1 \in 1..k - 1 /\ queue'[j - 1] = queue[j]
      BY <1>3, <2>1, <2>3
    <3> QED BY <2>1, <3>1 DEF SnapshotIn
  <2> QED BY <2>2, <2>3
<1>6. ASSUME NEW k \in DOMAIN queue', queue'[k].kind = "raised"
      PROVE  SeenNext(queue'[k].island) \/ SnapshotIn(queue', k - 1, queue'[k].island)
  <2>1. /\ k + 1 \in DOMAIN queue /\ queue'[k] = queue[k + 1] /\ (k + 1) - 1 = k
        /\ k \in 1..Len(queue)
    BY <1>3
  <2>2. Seen(queue'[k].island) \/ SnapshotIn(queue, k, queue'[k].island)
    BY <1>2, <1>6, <2>1 DEF QueueFound
  <2> QED BY <1>4, <1>5, <2>1, <2>2
<1>7. ASSUME NEW k \in DOMAIN outbox', outbox'[k].kind = "raised"
      PROVE  \/ SeenNext(outbox'[k].island) \/ SnapshotIn(queue', Len(queue'), outbox'[k].island)
             \/ SnapshotIn(outbox', k - 1, outbox'[k].island)
  <2>1. Len(queue) \in 1..Len(queue) /\ Len(queue') = Len(queue) - 1
    BY <1>3
  <2>2. \/ Seen(outbox[k].island) \/ SnapshotIn(queue, Len(queue), outbox[k].island)
        \/ SnapshotIn(outbox, k - 1, outbox[k].island)
    BY <1>1, <1>2, <1>7 DEF OutboxFound
  <2> QED BY <1>1, <1>4, <1>5, <2>1, <2>2
<1>8. WorkFound'
  <2>1. CASE ev.kind = "snapshot"
    <3>1. work' = <<>> \/ work' = <<FlushStep>>
      BY <2>1 DEF Receive, ev
    <3> QED BY <3>1 DEF WorkFound, FlushStep
  <2>2. CASE ev.kind # "snapshot"
    <3>1. work' = Writes(ev)
      BY <2>2 DEF Receive, ev
    <3>2. /\ work' \in Seq(Write) /\ Len(work') = IF ev.kind = "start" THEN 3 ELSE 2
          /\ work'[1].op = "flush" /\ work'[2].island = ev.island
          /\ work'[2].op = IF ev.kind = "start" THEN "end" ELSE ev.kind
          /\ ev.kind = "start" => work'[3].op = "start"
      BY <1>1, <3>1, WritesOf
    <3>3. ASSUME NEW k \in DOMAIN work', work'[k].op = "raised"
          PROVE  k = 2 /\ ev.kind = "raised"
      <4>1. DOMAIN work' = 1..Len(work')
        BY <3>2, LenProperties
      <4>2. CASE ev.kind = "start"
        <5>1. k \in {1, 2, 3}
          BY <3>2, <4>1, <4>2
        <5> QED BY <3>2, <3>3, <4>2, <5>1
      <4>3. CASE ev.kind # "start"
        <5>1. k \in {1, 2}
          BY <3>2, <4>1, <4>3
        <5> QED BY <3>2, <3>3, <4>3, <5>1
      <4> QED BY <4>2, <4>3
    <3>4. ASSUME ev.kind = "raised" PROVE SeenNext(ev.island)
      <4>1. 1 \in DOMAIN queue /\ ~SnapshotIn(queue, 1 - 1, queue[1].island)
        BY <1>3 DEF SnapshotIn
      <4> QED BY <1>2, <1>3, <1>4, <3>4, <4>1 DEF QueueFound
    <3> QED BY <1>11, <3>2, <3>3, <3>4 DEF WorkFound
  <2> QED BY <2>1, <2>2
<1>9. QueueFound'
  BY <1>6, <1>11 DEF QueueFound, SnapshotIn
<1>10. OutboxFound'
  BY <1>7, <1>11 DEF OutboxFound, SnapshotIn
<1> QED BY <1>8, <1>9, <1>10

LEMMA FlushFound ==
    ASSUME HistoryTypeOK, SnapshotFirst, NEW ok \in BOOLEAN, Flush(ok)
    PROVE  SnapshotFirst'
<1> SUFFICES ASSUME dropped' = 0 PROVE WorkFound' /\ QueueFound' /\ OutboxFound'
  BY DEF SnapshotFirst
<1>1. work # <<>> /\ work' = Tail(work) /\ UNCHANGED <<queue, outbox>>
  BY DEF Flush, producer
<1>2. dropped = 0 /\ pending' = <<>>
      /\ islands' = islands \cup {pending[k].island : k \in DOMAIN pending}
  <2>1. CASE pending = <<>>
    BY <2>1, EmptyFacts DEF Flush
  <2>2. CASE pending # <<>>
    <3>1. Len(pending) \in Nat \ {0} /\ dropped \in Nat
      BY <2>2, TailFacts DEF HistoryTypeOK
    <3>2. dropped' = Counted(ok, Len(pending))
      BY <2>2 DEF Flush
    <3>3. ok /\ dropped = 0
      BY <3>1, <3>2 DEF Counted
    <3> QED BY <2>2, <3>3 DEF Flush
  <2> QED BY <2>1, <2>2
<1>3. WorkFound /\ QueueFound /\ OutboxFound
  BY <1>2 DEF SnapshotFirst
<1>4. \A i : Seen(i) => i \in islands' /\ Seen(i)'
  BY <1>2 DEF Seen
<1>5. QueueFound' /\ OutboxFound'
  BY <1>1, <1>3, <1>4 DEF QueueFound, OutboxFound, SnapshotIn
<1>6. ASSUME NEW k \in DOMAIN work', work'[k].op = "raised"
      PROVE  k = 1 /\ work'[k].island \in islands'
  <2>1. k + 1 \in DOMAIN work /\ work'[k] = work[k + 1] /\ k + 1 # 1 /\ k \in Nat
    BY <1>1, Done
  <2>2. k + 1 = 2 /\ Seen(work'[k].island)
    BY <1>3, <1>6, <2>1 DEF WorkFound
  <2> QED BY <1>4, <2>1, <2>2
<1> QED BY <1>5, <1>6 DEF WorkFound

LEMMA FoundStep ==
    ASSUME HistoryTypeOK, FullIsFlushed, SnapshotFirst, [HistoryNext]_histVars
    PROVE  SnapshotFirst'
<1>1. ASSUME NEW i \in Island, Snapshot(i) PROVE SnapshotFirst'
  <2>1. PICK events :
           /\ Produce(events) /\ Len(events) \in Nat
           /\ \A k \in 1..Len(events) : events[k] \in Kind \X Island
           /\ Len(events) >= 1 /\ events[1] = <<"snapshot", i>>
           /\ \A k \in 1..Len(events) : events[k][2] = i
    BY <1>1, SnapshotProduces
  <2>2. events[1][1] = "snapshot" /\ events[1][2] = i
    BY <2>1
  <2>3. UNCHANGED <<work, islands, pending, queue, dropped>>
    BY <1>1 DEF Snapshot, run, db
  <2> QED BY <2>1, <2>2, <2>3, SnapshotFound
<1>2. ASSUME NEW kind \in {"start", "end"}, SessionBoundary(kind) PROVE SnapshotFirst'
  <2>1. UNCHANGED <<work, islands, pending, queue, dropped>>
    BY <1>2 DEF SessionBoundary, run, db
  <2> QED BY <1>2, <2>1, BoundaryProduces, SnapshotFound
<1>3. CASE Offer
  BY <1>3, OfferFound
<1>4. CASE Receive
  BY <1>4, ReceiveFound
<1>5. ASSUME NEW ok \in BOOLEAN, Flush(ok) PROVE SnapshotFirst'
  BY <1>5, FlushFound
<1>6. CASE \E ok \in BOOLEAN : EndSession(ok) \/ CloseSession(ok) \/ StartSession(ok) \/ WriteAlert(ok)
  <2>1. PICK ok \in BOOLEAN : EndSession(ok) \/ CloseSession(ok) \/ StartSession(ok) \/ WriteAlert(ok)
    BY <1>6
  <2>2. /\ work # <<>> /\ work' = Tail(work) /\ islands \subseteq islands'
        /\ UNCHANGED <<pending, queue, outbox>> /\ work[1].op # "flush"
        /\ dropped' = Counted(ok, 1) \/ dropped' = dropped
    BY <2>1, Done DEF EndSession, CloseSession, EndAt, StartSession, WriteAlert, producer
  <2>3. dropped' = 0 => dropped = 0
    BY <2>2, OneRecord
  <2> QED BY <2>2, <2>3, AlertsLater, FoundKept DEF SnapshotFirst
<1>7. CASE TickerFires \/ Drained
  <2> DEFINE f == FlushStep
             c == [FlushStep EXCEPT !.op = "close"]
  <2>1. /\ work' = <<f>> \/ work' = <<f, c>>
        /\ UNCHANGED <<islands, pending, queue, outbox, dropped>>
    BY <1>7 DEF TickerFires, Drained, producer, run, db
  <2>2. f.op = "flush" /\ c.op = "close"
    BY DEF FlushStep
  <2> HIDE DEF f, c
  <2>3. \A k \in DOMAIN work' : work'[k].op # "raised"
    <3>1. CASE work' = <<f>>
      BY <2>2, <3>1
    <3>2. CASE work' = <<f, c>>
      BY <2>2, <3>2
    <3> QED BY <2>1, <3>1, <3>2
  <2>4. WorkFound'
    BY <2>3 DEF WorkFound
  <2> QED BY <2>1, <2>4, FoundKept DEF SnapshotFirst
<1>8. CASE Crash \/ \E commits \in 0..2 : OpenStore(commits)
  <2>1. outbox' = <<>> /\ queue' = <<>> /\ work' = <<>>
    BY <1>8 DEF Crash, OpenStore
  <2> QED BY <2>1, EmptyFacts DEF SnapshotFirst, WorkFound, QueueFound, OutboxFound
<1>9. CASE Closed \/ Stop \/ ClockTicks \/ UNCHANGED histVars
  <2>1. UNCHANGED <<outbox, queue, pending, work, islands, dropped>>
    BY <1>9 DEF Closed, Stop, ClockTicks, histVars, producer, run, db
  <2>2. WorkFound => WorkFound'
    BY <2>1 DEF WorkFound, Seen
  <2> QED BY <2>1, <2>2, FoundKept DEF SnapshotFirst
<1> QED BY <1>1, <1>2, <1>3, <1>4, <1>5, <1>6, <1>7, <1>8, <1>9 DEF HistoryNext, Batcher

-----------------------------------------------------------------------------
(* The write in hand *)

\* The step that is done leaves the others, and their order, alone.
LEMMA HandLater ==
    ASSUME HistoryTypeOK, OneInHand, work # <<>>, work' = Tail(work),
           \/ pending' = <<>>
           \/ pending' = pending /\ work[1].op # "flush"
    PROVE  /\ OneInHand' /\ 1 \in DOMAIN work
           /\ work' # <<>> => Last(work)' = Last(work)
           /\ work' = <<>> => Last(work) = work[1]
           /\ work' # <<>> => work[1].n = 0 /\ work[1].op \notin {"raised", "cleared"}
<1>1. /\ DOMAIN work = 1..Len(work) /\ Len(work) \in Nat \ {0} /\ work' \in Seq(Write)
      /\ Len(work') = Len(work) - 1 /\ DOMAIN work' = 1..Len(work) - 1
      /\ \A k \in 1..Len(work) - 1 : work'[k] = work[k + 1]
  BY Done
<1>2. \A k \in DOMAIN work' : k + 1 \in DOMAIN work /\ (k # Len(work') => k + 1 # Len(work))
  BY <1>1
<1>3. work' # <<>> <=> Len(work) # 1
  <2>1. \A w \in Seq(Write) : w # <<>> <=> Len(w) # 0
    BY EmptySeq
  <2>2. work' # <<>> <=> Len(work') # 0
    BY <1>1, <2>1
  <2> QED BY <1>1, <2>2
<1>4. \A k \in DOMAIN work' :
         /\ work'[k].op = "flush" => work'[k].n = 0
         /\ k # Len(work') => work'[k].n = 0 /\ work'[k].op \notin {"raised", "cleared"}
  BY <1>1, <1>2 DEF OneInHand
<1>5. pending' = <<>>
  BY DEF OneInHand
<1>6. OneInHand'
  BY <1>4, <1>5 DEF OneInHand
<1>7. work' # <<>> => Last(work)' = Last(work)
  BY <1>1, <1>3 DEF Last
<1>8. work' = <<>> => Last(work) = work[1]
  BY <1>1, <1>3 DEF Last
<1>9. 1 \in DOMAIN work
  BY <1>1
<1>10. work' # <<>> => work[1].n = 0 /\ work[1].op \notin {"raised", "cleared"}
  BY <1>3, <1>9 DEF OneInHand
<1> QED BY <1>6, <1>7, <1>8, <1>9, <1>10

\* Either a write no event asked for is done, or the event's own.
LEMMA HandAfter ==
    ASSUME HistoryTypeOK, OneInHand, work # <<>>, work' = Tail(work),
           \/ pending' = <<>>
           \/ pending' = pending /\ work[1].op # "flush"
    PROVE  IF work[1].n = 0 THEN InHand' = InHand
           ELSE InHand = <<work[1].n>> /\ InHand' = <<>>
<1>1. CASE work' = <<>>
  <2>1. Last(work) = work[1]
    BY <1>1, HandLater
  <2> QED BY <1>1, <2>1 DEF InHand
<1>2. CASE work' # <<>>
  <2>1. Last(work)' = Last(work) /\ work[1].n = 0
    BY <1>2, HandLater
  <2> QED BY <1>2, <2>1 DEF InHand
<1> QED BY <1>1, <1>2

\* What Run takes next.
LEMMA ReceiveHand ==
    ASSUME HistoryTypeOK, FullIsFlushed, OneInHand, Receive
    PROVE  /\ OneInHand' /\ InHand = <<>>
           /\ queue # <<>> /\ Head(queue) \in Event /\ queue' = Tail(queue)
           /\ IF Head(queue).kind = "snapshot"
              THEN /\ pending' = Append(pending, Head(queue)) /\ InHand' = <<>>
                   /\ work' # <<>> => Last(work)'.op = "flush"
              ELSE /\ pending' = pending /\ InHand' = <<Head(queue).n>> /\ work' # <<>>
                   /\ Last(work)'.op = Head(queue).kind
                   /\ Last(work)'.island = Head(queue).island
<1>1. work = <<>> /\ queue # <<>> /\ Head(queue) \in Event /\ queue' = Tail(queue)
  BY ReceiveTypes DEF Receive
<1>2. InHand = <<>>
  BY <1>1 DEF InHand
<1>3. CASE Head(queue).kind = "snapshot"
  <2>1. pending' = Append(pending, Head(queue)) /\ (work' = <<>> \/ work' = <<FlushStep>>)
    BY <1>3 DEF Receive
  <2>2. FlushStep.op = "flush" /\ FlushStep.n = 0
    BY DEF FlushStep
  <2>3. CASE work' = <<>>
    BY <1>1, <1>2, <1>3, <2>1, <2>3, EmptyFacts DEF OneInHand, InHand
  <2>4. CASE work' = <<FlushStep>>
    <3>1. /\ DOMAIN work' = 1..1 /\ Len(work') = 1 /\ work'[1].op = "flush" /\ work'[1].n = 0
          /\ Last(work)' = work'[1]
      BY <2>2, <2>4 DEF Last
    <3>2. OneInHand' /\ InHand' = <<>>
      BY <3>1 DEF OneInHand, InHand
    <3> QED BY <1>1, <1>2, <1>3, <2>1, <3>1, <3>2
  <2> QED BY <2>1, <2>3, <2>4
<1>4. CASE Head(queue).kind # "snapshot"
  <2> DEFINE w == Writes(Head(queue))
  <2>1. work' = w /\ pending' = pending
    BY <1>4 DEF Receive
  <2>2. /\ w \in Seq(Write) /\ w # <<>> /\ w[1].op = "flush" /\ w[1].n = 0
        /\ \A k \in 1..Len(w) - 1 : w[k].n = 0 /\ w[k].op \notin {"raised", "cleared"}
        /\ w[Len(w)].op = Head(queue).kind /\ w[Len(w)].n = Head(queue).n
        /\ w[Len(w)].island = Head(queue).island
    BY <1>1, WritesOf
  <2>3. Head(queue).n \in 1..MaxEvents /\ Head(queue).kind # "flush"
    BY <1>1 DEF Event, Kind
  <2> HIDE DEF w
  <2>4. DOMAIN w = 1..Len(w) /\ Len(w) \in Nat
    BY <2>2, LenProperties
  <2>5. Last(work)' = w[Len(w)]
    BY <2>1 DEF Last
  <2>6. InHand' = <<Head(queue).n>>
    BY <2>1, <2>2, <2>3, <2>5 DEF InHand
  <2>7. OneInHand'
    BY <2>1, <2>2, <2>3, <2>4 DEF OneInHand
  <2> QED BY <1>1, <1>2, <1>4, <2>1, <2>2, <2>5, <2>6, <2>7
<1> QED BY <1>3, <1>4

LEMMA TickHand ==
    ASSUME HistoryTypeOK, TickerFires \/ Drained
    PROVE  /\ OneInHand' /\ InHand = <<>> /\ InHand' = <<>> /\ work = <<>>
           /\ work' # <<>> /\ Last(work)'.op \in {"flush", "close"}
<1> DEFINE f == FlushStep
           c == [FlushStep EXCEPT !.op = "close"]
<1>1. work = <<>> /\ (work' = <<f>> \/ work' = <<f, c>>)
  BY DEF TickerFires, Drained
<1>2. f.op = "flush" /\ f.n = 0 /\ c.op = "close" /\ c.n = 0
  BY DEF FlushStep
<1> HIDE DEF f, c
<1>3. CASE work' = <<f>>
  <2>1. DOMAIN work' = 1..1 /\ Len(work') = 1 /\ Last(work)' = f /\ work'[1] = f /\ work' # <<>>
    BY <1>3 DEF Last
  <2> QED BY <1>1, <1>2, <2>1 DEF OneInHand, InHand
<1>4. CASE work' = <<f, c>>
  <2>1. /\ DOMAIN work' = 1..2 /\ Len(work') = 2 /\ Last(work)' = c
        /\ work'[1] = f /\ work'[2] = c /\ work' # <<>>
    BY <1>4 DEF Last
  <2> QED BY <1>1, <1>2, <2>1 DEF OneInHand, InHand
<1> QED BY <1>1, <1>3, <1>4

-----------------------------------------------------------------------------
(* The order of the serials, and how many there are *)

LEMMA BetweenEmpty ==
    ASSUME NEW lo, NEW hi
    PROVE  Between(<<>>, lo, hi)
BY EmptyFacts DEF Between

LEMMA BetweenOne ==
    ASSUME NEW lo \in Nat, NEW hi \in Nat, NEW m \in Nat, lo < m, m <= hi
    PROVE  Between(<<m>>, lo, hi)
BY DEF Between

LEMMA BetweenWider ==
    ASSUME NEW s \in Seq(Nat), NEW lo \in Nat, NEW hi \in Nat, NEW up \in Nat,
           Between(s, lo, hi), hi <= up
    PROVE  Between(s, lo, up)
<1>1. \A k \in DOMAIN s : s[k] \in Nat
  OBVIOUS
<1> QED BY <1>1 DEF Between

LEMMA BetweenTail ==
    ASSUME NEW s \in Seq(Nat), s # <<>>, NEW lo \in Nat, NEW hi \in Nat, Between(s, lo, hi)
    PROVE  lo < Head(s) /\ Head(s) <= hi /\ Between(Tail(s), Head(s), hi)
<1>1. /\ DOMAIN s = 1..Len(s) /\ Len(s) \in Nat \ {0} /\ Head(s) = s[1]
      /\ DOMAIN Tail(s) = 1..Len(s) - 1 /\ \A k \in 1..Len(s) - 1 : Tail(s)[k] = s[k + 1]
  BY TailFacts
<1>2. \A k \in DOMAIN Tail(s) : k + 1 \in DOMAIN s /\ 1 \in DOMAIN s /\ 1 < k + 1
  BY <1>1
<1>3. \A j, k \in DOMAIN Tail(s) : j < k => j + 1 < k + 1
  BY <1>1
<1>4. 1 \in DOMAIN s
  BY <1>1
<1> QED BY <1>1, <1>2, <1>3, <1>4 DEF Between

LEMMA BetweenConcat ==
    ASSUME NEW s \in Seq(Nat), NEW t \in Seq(Nat), NEW lo \in Nat, NEW m \in Nat, NEW hi \in Nat,
           Between(s, lo, m), Between(t, m, hi), lo <= m, m <= hi
    PROVE  s \o t \in Seq(Nat) /\ Len(s \o t) = Len(s) + Len(t) /\ Between(s \o t, lo, hi)
<1> DEFINE u == s \o t
<1>1. /\ u \in Seq(Nat) /\ Len(u) = Len(s) + Len(t) /\ DOMAIN u = 1..Len(s) + Len(t)
      /\ Len(s) \in Nat /\ Len(t) \in Nat
      /\ \A k \in 1..Len(s) : u[k] = s[k] /\ k \in DOMAIN s /\ s[k] \in Nat
      /\ \A k \in Len(s) + 1..Len(s) + Len(t) :
            u[k] = t[k - Len(s)] /\ k - Len(s) \in DOMAIN t /\ t[k - Len(s)] \in Nat
  OBVIOUS
<1> HIDE DEF u
<1>2. \A k \in DOMAIN u : k \in 1..Len(s) \/ k \in Len(s) + 1..Len(s) + Len(t)
  BY <1>1
<1>3. ASSUME NEW k \in DOMAIN u PROVE lo < u[k] /\ u[k] <= hi
  <2>1. CASE k \in 1..Len(s)
    <3>1. u[k] \in Nat /\ lo < u[k] /\ u[k] <= m
      BY <1>1, <2>1 DEF Between
    <3> QED BY <3>1
  <2>2. CASE k \in Len(s) + 1..Len(s) + Len(t)
    <3>1. u[k] \in Nat /\ m < u[k] /\ u[k] <= hi
      BY <1>1, <2>2 DEF Between
    <3> QED BY <3>1
  <2> QED BY <1>2, <2>1, <2>2
<1>4. ASSUME NEW j \in DOMAIN u, NEW k \in DOMAIN u, j < k PROVE u[j] < u[k]
  <2>1. CASE k \in 1..Len(s)
    <3>1. j \in 1..Len(s)
      BY <1>1, <1>4, <2>1
    <3> QED BY <1>1, <1>4, <2>1, <3>1 DEF Between
  <2>2. CASE j \in Len(s) + 1..Len(s) + Len(t)
    <3>1. k \in Len(s) + 1..Len(s) + Len(t) /\ j - Len(s) < k - Len(s)
      BY <1>1, <1>4, <2>2
    <3> QED BY <1>1, <1>4, <2>2, <3>1 DEF Between
  <2>3. CASE j \in 1..Len(s) /\ k \in Len(s) + 1..Len(s) + Len(t)
    <3>1. u[j] <= m /\ m < u[k] /\ u[j] \in Nat /\ u[k] \in Nat
      BY <1>1, <2>3 DEF Between
    <3> QED BY <3>1
  <2> QED BY <1>2, <2>1, <2>2, <2>3
<1>5. Between(u, lo, hi)
  BY <1>3, <1>4 DEF Between
<1> QED BY <1>1, <1>5 DEF u

LEMMA BetweenAppend ==
    ASSUME NEW s \in Seq(Nat), NEW lo \in Nat, NEW m \in Nat, NEW n \in Nat,
           Between(s, lo, m), lo <= m, m < n
    PROVE  Between(Append(s, n), lo, n)
<1>1. /\ Len(s) \in Nat /\ DOMAIN s = 1..Len(s) /\ DOMAIN Append(s, n) = 1..Len(s) + 1
      /\ \A k \in 1..Len(s) : Append(s, n)[k] = s[k] /\ s[k] \in Nat
      /\ Append(s, n)[Len(s) + 1] = n
  BY AppendFacts
<1> DEFINE z == Append(s, n)
<1>2. \A k \in 1..Len(s) : z[k] = s[k] /\ s[k] \in Nat /\ lo < s[k] /\ s[k] < n
  BY <1>1 DEF Between
<1>3. \A j, k \in 1..Len(s) : j < k => z[j] < z[k]
  BY <1>1 DEF Between
<1>4. \A k \in DOMAIN z : k \in 1..Len(s) \/ (k = Len(s) + 1 /\ z[k] = n)
  BY <1>1
<1>5. DOMAIN z = 1..Len(s) + 1 /\ Len(s) \in Nat
  BY <1>1
<1> HIDE DEF z
<1>6. \A k \in DOMAIN z : lo < z[k] /\ z[k] <= n
  BY <1>2, <1>4
<1>7. \A j, k \in DOMAIN z : j < k => z[j] < z[k]
  BY <1>2, <1>3, <1>4, <1>5
<1>8. Between(z, lo, n)
  BY <1>6, <1>7 DEF Between
<1> QED BY <1>8 DEF z

LEMMA SerialsOf ==
    ASSUME NEW s \in Seq(Event)
    PROVE  /\ Serials(s) \in Seq(Nat) /\ Len(Serials(s)) = Len(s) /\ Len(s) \in Nat
           /\ DOMAIN Serials(s) = 1..Len(s) /\ DOMAIN s = 1..Len(s)
           /\ \A k \in 1..Len(s) : Serials(s)[k] = s[k].n
<1>1. Len(s) \in Nat /\ DOMAIN s = 1..Len(s)
  OBVIOUS
<1>2. \A k \in 1..Len(s) : s[k].n \in Nat
  BY <1>1, EventFacts
<1>3. Serials(s) \in [1..Len(s) -> Nat] /\ \A k \in 1..Len(s) : Serials(s)[k] = s[k].n
  BY <1>2 DEF Serials
<1>4. Serials(s) \in Seq(Nat) /\ Len(Serials(s)) = Len(s)
  BY <1>1, <1>3, SeqDef
<1> QED BY <1>1, <1>3, <1>4

LEMMA SerialsTail ==
    ASSUME NEW s \in Seq(Event), s # <<>>
    PROVE  /\ Serials(s) # <<>> /\ Serials(s) \in Seq(Nat)
           /\ Serials(Tail(s)) = Tail(Serials(s)) /\ Head(Serials(s)) = Head(s).n
           /\ Head(s).n \in Nat /\ Len(Serials(Tail(s))) = Len(Serials(s)) - 1
<1> DEFINE z == Serials(s)
           t == Tail(s)
<1>1. /\ z \in Seq(Nat) /\ Len(z) = Len(s) /\ DOMAIN z = 1..Len(s)
      /\ \A k \in 1..Len(s) : z[k] = s[k].n
  BY SerialsOf
<1>2. /\ Len(s) \in Nat \ {0} /\ Head(s) = s[1] /\ Head(s) \in Event
      /\ t \in Seq(Event) /\ Len(t) = Len(s) - 1
      /\ \A k \in 1..Len(s) - 1 : t[k] = s[k + 1]
  BY TailFacts
<1>3. /\ Serials(t) \in Seq(Nat) /\ Len(Serials(t)) = Len(t)
      /\ \A k \in 1..Len(t) : Serials(t)[k] = t[k].n
  BY <1>2, SerialsOf
<1> HIDE DEF z, t
<1>4. z # <<>>
  BY <1>1, <1>2, EmptyFacts
<1>5. /\ Tail(z) \in Seq(Nat) /\ Len(Tail(z)) = Len(z) - 1 /\ Head(z) = z[1] /\ Head(z) \in Nat
      /\ \A k \in 1..Len(z) - 1 : Tail(z)[k] = z[k + 1]
  BY <1>1, <1>4, TailFacts
<1>6. ASSUME NEW k \in 1..Len(t) PROVE Serials(t)[k] = Tail(z)[k]
  <2>1. k \in 1..Len(s) - 1 /\ k + 1 \in 1..Len(s)
    BY <1>2
  <2>2. Serials(t)[k] = t[k].n /\ t[k] = s[k + 1] /\ Tail(z)[k] = z[k + 1] /\ z[k + 1] = s[k + 1].n
    BY <1>1, <1>2, <1>3, <1>5, <2>1
  <2> QED BY <2>2
<1>7. Serials(t) = Tail(z)
  BY <1>1, <1>2, <1>3, <1>5, <1>6, SeqEqual
<1>8. z[1] = s[1].n
  BY <1>1, <1>2
<1> QED BY <1>1, <1>2, <1>3, <1>4, <1>5, <1>7, <1>8 DEF z, t

LEMMA SerialsAppend ==
    ASSUME NEW s \in Seq(Event), NEW e \in Event
    PROVE  /\ Serials(Append(s, e)) = Append(Serials(s), e.n)
           /\ Len(Serials(Append(s, e))) = Len(Serials(s)) + 1 /\ e.n \in Nat
<1> DEFINE z == Serials(s)
           t == Append(s, e)
<1>1. /\ z \in Seq(Nat) /\ Len(z) = Len(s) /\ \A k \in 1..Len(s) : z[k] = s[k].n
  BY SerialsOf
<1>2. e.n \in Nat
  BY IslandFacts DEF Event
<1>3. /\ Len(s) \in Nat /\ t \in Seq(Event) /\ Len(t) = Len(s) + 1
      /\ \A k \in 1..Len(s) : t[k] = s[k]
      /\ t[Len(s) + 1] = e
  BY AppendFacts
<1>4. /\ Serials(t) \in Seq(Nat) /\ Len(Serials(t)) = Len(t)
      /\ \A k \in 1..Len(t) : Serials(t)[k] = t[k].n
  BY <1>3, SerialsOf
<1> HIDE DEF z, t
<1>5. /\ Append(z, e.n) \in Seq(Nat) /\ Len(Append(z, e.n)) = Len(z) + 1
      /\ \A k \in 1..Len(z) : Append(z, e.n)[k] = z[k]
      /\ Append(z, e.n)[Len(z) + 1] = e.n
  BY <1>1, <1>2, AppendFacts
<1>6. \A k \in 1..Len(t) : Serials(t)[k] = Append(z, e.n)[k]
  BY <1>1, <1>3, <1>4, <1>5
<1>7. Serials(t) = Append(z, e.n)
  BY <1>1, <1>3, <1>4, <1>5, <1>6, SeqEqual
<1> QED BY <1>1, <1>2, <1>3, <1>4, <1>7 DEF z, t

LEMMA CountKept ==
    ASSUME NEW w \in Seq(Nat), NEW p \in Seq(Nat), NEW h \in Seq(Nat), NEW q \in Seq(Nat),
           NEW o \in Seq(Nat)
    PROVE  /\ Len(w \o p \o h \o q \o o) = Len(w) + Len(p) + Len(h) + Len(q) + Len(o)
           /\ Len(w) \in Nat /\ Len(p) \in Nat /\ Len(h) \in Nat /\ Len(q) \in Nat /\ Len(o) \in Nat
<1>1. \A s, t \in Seq(Nat) : s \o t \in Seq(Nat) /\ Len(s \o t) = Len(s) + Len(t)
  BY ConcatProperties
<1>2. w \o p \in Seq(Nat) /\ w \o p \o h \in Seq(Nat) /\ w \o p \o h \o q \in Seq(Nat)
  BY <1>1
<1> QED BY <1>1, <1>2, LenProperties

\* Where the events of this process are.
LEMMA Places ==
    ASSUME HistoryTypeOK
    PROVE  /\ written \in Seq(Nat) /\ Serials(pending) \in Seq(Nat) /\ InHand \in Seq(Nat)
           /\ Serials(queue) \in Seq(Nat) /\ Serials(outbox) \in Seq(Nat)
           /\ said \in 0..MaxEvents /\ said \in Nat /\ since \in Nat /\ dropped \in Nat
           /\ MaxEvents \in Nat
           /\ Len(written) \in Nat /\ Len(Serials(pending)) \in Nat /\ Len(InHand) \in Nat
           /\ Len(Serials(queue)) \in Nat /\ Len(Serials(outbox)) \in Nat
<1>1. written \in Seq(Nat)
  <2>1. written \in Seq(1..MaxEvents)
    BY DEF HistoryTypeOK
  <2> QED BY <2>1, IslandFacts
<1>2. Serials(pending) \in Seq(Nat) /\ Serials(queue) \in Seq(Nat) /\ Serials(outbox) \in Seq(Nat)
  BY SerialsOf DEF HistoryTypeOK
<1>3. InHand \in Seq(Nat)
  <2>1. CASE work = <<>>
    BY <2>1, EmptyFacts DEF InHand
  <2>2. CASE work # <<>>
    <3>1. work \in Seq(Write) /\ Len(work) \in Nat \ {0}
      BY <2>2, Done DEF HistoryTypeOK, Write
    <3>2. Last(work) \in Write
      <4> HIDE DEF Write
      <4> QED BY <3>1 DEF Last
    <3>3. Last(work).n \in Nat
      BY <3>2, IslandFacts DEF Write
    <3> QED BY <3>3, EmptyFacts DEF InHand
  <2> QED BY <2>1, <2>2
<1> QED BY <1>1, <1>2, <1>3, IslandFacts, LenProperties DEF HistoryTypeOK

LEMMA Balance ==
    ASSUME NEW s \in Nat, NEW t \in Nat, NEW z \in Nat, NEW m \in Nat, NEW n \in Nat,
           NEW d \in Nat, NEW e \in Nat, t - n - e <= s - m - d, s - z - m <= d
    PROVE  t - z - n <= e
OBVIOUS

LEMMA Lengths ==
    ASSUME HistoryTypeOK
    PROVE  /\ Len(written) \in Nat /\ Len(Serials(pending)) \in Nat /\ Len(InHand) \in Nat
           /\ Len(Serials(queue)) \in Nat /\ Len(Serials(outbox)) \in Nat
           /\ said \in Nat /\ dropped \in Nat
BY Places

LEMMA LengthsAfter ==
    ASSUME HistoryTypeOK'
    PROVE  /\ Len(Serials(pending')) \in Nat /\ Len(Serials(queue')) \in Nat
           /\ Len(Serials(outbox')) \in Nat /\ said' \in Nat /\ dropped' \in Nat
<1>1. /\ pending' \in Seq(Event) /\ queue' \in Seq(Event) /\ outbox' \in Seq(Event)
      /\ said' \in Nat /\ dropped' \in Nat
  BY IslandFacts DEF HistoryTypeOK
<1> QED BY <1>1, SerialsOf

\* The marks after a step.
LEMMA MarksMoved ==
    ASSUME NEW a \in 0..MaxEvents, NEW b \in 0..MaxEvents, NEW c \in 0..MaxEvents,
           NEW d \in 0..MaxEvents, a <= b, b <= c, c <= d, d <= said',
           Between(written', 0, a), Between(Serials(pending'), a, b), Between(InHand', b, c),
           Between(Serials(queue'), c, d), Between(Serials(outbox'), d, said')
    PROVE  InOrder'
<1>1. Marked(a, b, c, d)'
  BY DEF Marked, Serials
<1> QED BY <1>1 DEF InOrder

\* Counting what is kept before and after a step.
LEMMA KeptCounts ==
    ASSUME HistoryTypeOK, HistoryTypeOK', LossesAreCounted, mode' # "crashed" => mode # "crashed",
           written' \in Seq(Nat), InHand' \in Seq(Nat), since' = since,
           said' - (Len(written') + Len(Serials(pending')) + Len(InHand') + Len(Serials(queue'))
                    + Len(Serials(outbox'))) - dropped'
             <= said - (Len(written) + Len(Serials(pending)) + Len(InHand) + Len(Serials(queue))
                        + Len(Serials(outbox))) - dropped
    PROVE  LossesAreCounted'
<1>1. Serials(pending') \in Seq(Nat) /\ Serials(queue') \in Seq(Nat) /\ Serials(outbox') \in Seq(Nat)
  BY SerialsOf DEF HistoryTypeOK
<1>2. said' \in Nat /\ dropped' \in Nat
  BY IslandFacts DEF HistoryTypeOK
<1>0. PICK w \in Seq(Nat), h \in Seq(Nat) : w = written' /\ h = InHand'
  OBVIOUS
<1> DEFINE k == w \o Serials(pending') \o h \o Serials(queue') \o Serials(outbox')
<1>3. Kept' = k
  BY <1>0 DEF Kept, Serials
<1>4. /\ Len(k) = Len(w) + Len(Serials(pending')) + Len(h) + Len(Serials(queue'))
                  + Len(Serials(outbox'))
      /\ Len(w) \in Nat /\ Len(Serials(pending')) \in Nat /\ Len(h) \in Nat
      /\ Len(Serials(queue')) \in Nat /\ Len(Serials(outbox')) \in Nat
  BY <1>1, CountKept
<1>5. /\ Len(Kept) = Len(written) + Len(Serials(pending)) + Len(InHand) + Len(Serials(queue))
                     + Len(Serials(outbox))
      /\ Len(written) \in Nat /\ Len(Serials(pending)) \in Nat /\ Len(InHand) \in Nat
      /\ Len(Serials(queue)) \in Nat /\ Len(Serials(outbox)) \in Nat
      /\ said \in Nat /\ since \in Nat /\ dropped \in Nat
  BY Places, CountKept DEF Kept
<1> HIDE DEF k
<1> DEFINE n == Len(w) + Len(Serials(pending')) + Len(h) + Len(Serials(queue'))
                 + Len(Serials(outbox'))
           m == Len(written) + Len(Serials(pending)) + Len(InHand) + Len(Serials(queue))
                + Len(Serials(outbox))
<1>6. n \in Nat /\ m \in Nat /\ Len(k) = n /\ Len(Kept) = m
  BY <1>4, <1>5
<1>7. said' - n - dropped' <= said - m - dropped
  BY <1>0
<1> HIDE DEF n, m
<1>8. mode # "crashed" => said - since - m <= dropped
  BY <1>6 DEF LossesAreCounted
<1>9. mode' # "crashed" => said' - since - Len(k) <= dropped'
  BY <1>2, <1>5, <1>6, <1>7, <1>8, Balance
<1> QED BY <1>3, <1>9 DEF LossesAreCounted

\* The step of a callback, the batch writer or the process moves no event past another.
LEMMA ProducedOrder ==
    ASSUME HistoryTypeOK, HistoryTypeOK', InOrder, LossesAreCounted,
           NEW events, Len(events) \in Nat, Produce(events),
           \A k \in 1..Len(events) : events[k] \in Kind \X Island,
           UNCHANGED <<mode, written, pending, work, queue, since, dropped>>
    PROVE  InOrder' /\ LossesAreCounted'
<1>1. /\ outbox = <<>> /\ DOMAIN outbox' = 1..Len(events) /\ said' = said + Len(events)
      /\ outbox' \in Seq(Event) /\ \A k \in 1..Len(events) : outbox'[k].n = said + k
  BY Produced DEF Produce
<1>2. Len(outbox') = Len(events) /\ Serials(outbox) = <<>> /\ InHand' = InHand
  BY <1>1, EmptyFacts DEF Serials, InHand
<1>3. /\ Serials(outbox') \in Seq(Nat) /\ Len(Serials(outbox')) = Len(events)
      /\ DOMAIN Serials(outbox') = 1..Len(events)
      /\ \A k \in 1..Len(events) : Serials(outbox')[k] = said + k
  BY <1>1, <1>2, SerialsOf
<1>4. LossesAreCounted'
  BY <1>1, <1>2, <1>3, Places, KeptCounts, CountKept, EmptyFacts
<1>5. PICK a \in 0..MaxEvents, b \in 0..MaxEvents, c \in 0..MaxEvents, d \in 0..MaxEvents :
         Marked(a, b, c, d)
  BY DEF InOrder
<1>6. PICK m \in 0..MaxEvents : m = said
  BY Places
<1>7. Between(Serials(outbox'), m, said')
  <2>1. \A k \in 1..Len(events) : m < m + k /\ m + k <= said'
    BY <1>1, <1>6, Places
  <2>2. \A j, k \in 1..Len(events) : j < k => m + j < m + k
    BY <1>6, Places
  <2> QED BY <1>3, <1>6, <2>1, <2>2 DEF Between
<1>8. Between(Serials(queue), c, m)
  BY <1>5, <1>6, Places, BetweenWider DEF Marked
<1>9. /\ Between(written', 0, a) /\ Between(Serials(pending'), a, b) /\ Between(InHand', b, c)
      /\ a <= b /\ b <= c /\ c <= m /\ m <= said' /\ Between(Serials(queue'), c, m)
  BY <1>1, <1>2, <1>5, <1>6, <1>8, Places DEF Marked
<1> QED BY <1>4, <1>7, <1>9, MarksMoved

LEMMA OfferOrder ==
    ASSUME HistoryTypeOK, HistoryTypeOK', InOrder, LossesAreCounted, Offer
    PROVE  InOrder' /\ LossesAreCounted'
<1>1. /\ outbox # <<>> /\ outbox \in Seq(Event) /\ queue \in Seq(Event) /\ outbox' = Tail(outbox)
      /\ UNCHANGED <<mode, written, pending, work, said, since>>
      /\ \/ queue' = Append(queue, Head(outbox)) /\ dropped' = dropped
         \/ queue' = queue /\ dropped' = dropped + 1
  BY DEF Offer, HistoryTypeOK, run, process
<1>2. InHand' = InHand
  BY <1>1 DEF InHand
<1>3. Head(outbox) \in Event
  BY <1>1
<1> DEFINE e == Head(outbox)
<1>4. /\ Serials(outbox) # <<>> /\ Serials(outbox) \in Seq(Nat)
      /\ Serials(outbox') = Tail(Serials(outbox)) /\ Head(Serials(outbox)) = e.n /\ e.n \in Nat
      /\ Len(Serials(outbox')) = Len(Serials(outbox)) - 1
  BY <1>1, SerialsTail
<1>5. /\ Serials(Append(queue, e)) = Append(Serials(queue), e.n)
      /\ Len(Serials(Append(queue, e))) = Len(Serials(queue)) + 1
  BY <1>1, <1>3, SerialsAppend
<1>6. LossesAreCounted'
  <2>1. \/ Len(Serials(queue')) = Len(Serials(queue)) + 1 /\ dropped' = dropped
        \/ Len(Serials(queue')) = Len(Serials(queue)) /\ dropped' = dropped + 1
    BY <1>1, <1>5
  <2>2. /\ Len(written') = Len(written) /\ Len(Serials(pending')) = Len(Serials(pending))
        /\ Len(InHand') = Len(InHand) /\ Len(Serials(outbox')) = Len(Serials(outbox)) - 1
    BY <1>1, <1>2, <1>4
  <2>3. said' - (Len(written') + Len(Serials(pending')) + Len(InHand') + Len(Serials(queue'))
                 + Len(Serials(outbox'))) - dropped'
          <= said - (Len(written) + Len(Serials(pending)) + Len(InHand) + Len(Serials(queue))
                     + Len(Serials(outbox))) - dropped
    <3>1. said' = said
      BY <1>1
    <3> QED BY <2>1, <2>2, <3>1, Lengths
  <2>4. written' \in Seq(Nat) /\ InHand' \in Seq(Nat) /\ since' = since /\ mode' = mode
    BY <1>1, <1>2, Places
  <2> QED BY <2>3, <2>4, KeptCounts
<1>7. PICK a \in 0..MaxEvents, b \in 0..MaxEvents, c \in 0..MaxEvents, d \in 0..MaxEvents :
         Marked(a, b, c, d)
  BY DEF InOrder
<1>8. d < e.n /\ e.n <= said /\ Between(Serials(outbox'), e.n, said)
  <2>1. Between(Serials(outbox), d, said) /\ d \in Nat /\ said \in Nat
    BY <1>7, Places DEF Marked
  <2> QED BY <1>4, <2>1, BetweenTail
<1>9. PICK m \in 0..MaxEvents : m = e.n
  BY <1>4, <1>8, Places
<1>10. Between(Serials(queue'), c, m)
  <2>1. Between(Serials(queue), c, m)
    BY <1>7, <1>8, <1>9, Places, BetweenWider DEF Marked
  <2>2. Between(Append(Serials(queue), m), c, m)
    BY <1>7, <1>8, <1>9, Places, BetweenAppend DEF Marked
  <2> QED BY <1>1, <1>5, <1>9, <2>1, <2>2
<1>11. /\ Between(written', 0, a) /\ Between(Serials(pending'), a, b) /\ Between(InHand', b, c)
       /\ a <= b /\ b <= c /\ c <= d /\ d <= m /\ m <= said' /\ said' = said
       /\ Between(Serials(outbox'), m, said')
  BY <1>1, <1>2, <1>7, <1>8, <1>9, Places DEF Marked
<1>12. c <= m
  BY <1>11, Places
<1> QED BY <1>6, <1>10, <1>11, <1>12, MarksMoved

LEMMA ReceiveOrder ==
    ASSUME HistoryTypeOK, HistoryTypeOK', FullIsFlushed, OneInHand, InOrder, LossesAreCounted,
           Receive
    PROVE  InOrder' /\ LossesAreCounted'
<1>1. /\ queue # <<>> /\ queue \in Seq(Event) /\ pending \in Seq(Event) /\ queue' = Tail(queue)
      /\ UNCHANGED <<mode, written, outbox, said, since, dropped>>
  BY DEF Receive, HistoryTypeOK, producer, process
<1>2. Head(queue) \in Event
  BY <1>1
<1> DEFINE e == Head(queue)
<1>3. /\ Serials(queue) # <<>> /\ Serials(queue) \in Seq(Nat)
      /\ Serials(queue') = Tail(Serials(queue)) /\ Head(Serials(queue)) = e.n /\ e.n \in Nat
      /\ Len(Serials(queue')) = Len(Serials(queue)) - 1
  BY <1>1, SerialsTail
<1>4. /\ Serials(Append(pending, e)) = Append(Serials(pending), e.n)
      /\ Len(Serials(Append(pending, e))) = Len(Serials(pending)) + 1
  BY <1>1, <1>2, SerialsAppend
<1>5. /\ InHand = <<>>
      /\ \/ pending' = Append(pending, e) /\ InHand' = <<>>
         \/ pending' = pending /\ InHand' = <<e.n>>
  BY ReceiveHand
<1>6. Len(<<e.n>>) = 1 /\ <<e.n>> \in Seq(Nat) /\ Len(<<>>) = 0 /\ <<>> \in Seq(Nat)
  BY <1>3, EmptyFacts
<1>7. LossesAreCounted'
  <2>1. \/ Len(Serials(pending')) = Len(Serials(pending)) + 1 /\ Len(InHand') = 0
        \/ Len(Serials(pending')) = Len(Serials(pending)) /\ Len(InHand') = 1
    BY <1>4, <1>5, <1>6
  <2>2. /\ Len(written') = Len(written) /\ Len(Serials(outbox')) = Len(Serials(outbox))
        /\ Len(InHand) = 0 /\ Len(Serials(queue')) = Len(Serials(queue)) - 1
        /\ said' = said /\ dropped' = dropped
    BY <1>1, <1>3, <1>5, <1>6
  <2>3. said' - (Len(written') + Len(Serials(pending')) + Len(InHand') + Len(Serials(queue'))
                 + Len(Serials(outbox'))) - dropped'
          <= said - (Len(written) + Len(Serials(pending)) + Len(InHand) + Len(Serials(queue))
                     + Len(Serials(outbox))) - dropped
    <3>1. /\ Len(written) \in Nat /\ Len(Serials(pending)) \in Nat /\ Len(InHand) \in Nat
          /\ Len(Serials(queue)) \in Nat /\ Len(Serials(outbox)) \in Nat
          /\ said \in Nat /\ dropped \in Nat /\ dropped' \in Nat
      BY Lengths, LengthsAfter
    <3> QED BY <2>1, <2>2, <3>1
  <2>4. written' \in Seq(Nat) /\ InHand' \in Seq(Nat) /\ since' = since /\ mode' = mode
    BY <1>1, <1>5, <1>6, Places
  <2> QED BY <2>3, <2>4, KeptCounts
<1>8. PICK a \in 0..MaxEvents, b \in 0..MaxEvents, c \in 0..MaxEvents, d \in 0..MaxEvents :
         Marked(a, b, c, d)
  BY DEF InOrder
<1>9. c < e.n /\ e.n <= d /\ Between(Serials(queue'), e.n, d)
  <2>1. Between(Serials(queue), c, d) /\ c \in Nat /\ d \in Nat
    BY <1>8, Places DEF Marked
  <2> QED BY <1>3, <2>1, BetweenTail
<1>10. PICK m \in 0..MaxEvents : m = e.n
  BY <1>3, <1>9, Places
<1>11. CASE pending' = Append(pending, e) /\ InHand' = <<>>
  <2>1. /\ Between(Serials(pending), a, b) /\ a <= b /\ b <= c /\ c < m /\ a \in Nat /\ b \in Nat
        /\ c \in Nat /\ m \in Nat
    BY <1>8, <1>9, <1>10, Places DEF Marked
  <2>2. a <= m /\ b < m
    BY <2>1
  <2>3. Between(Append(Serials(pending), m), a, m)
    BY <2>1, <2>2, Places, BetweenAppend
  <2>4. Between(Serials(pending'), a, m)
    BY <1>4, <1>10, <1>11, <2>3
  <2>5. Between(InHand', m, m) /\ m <= m
    BY <1>11, <2>1, BetweenEmpty
  <2>6. /\ Between(written', 0, a) /\ m <= d /\ d <= said' /\ Between(Serials(queue'), m, d)
        /\ Between(Serials(outbox'), d, said')
    BY <1>1, <1>8, <1>9, <1>10 DEF Marked
  <2> QED BY <1>7, <2>2, <2>4, <2>5, <2>6, MarksMoved
<1>12. CASE pending' = pending /\ InHand' = <<e.n>>
  <2>1. b <= c /\ c < m /\ b \in Nat /\ c \in Nat /\ m \in Nat
    BY <1>8, <1>9, <1>10, Places DEF Marked
  <2>2. b < m /\ b <= m /\ m <= m
    BY <2>1
  <2>3. Between(InHand', b, m)
    BY <1>10, <1>12, <2>1, <2>2, BetweenOne
  <2>4. /\ Between(written', 0, a) /\ a <= b /\ Between(Serials(pending'), a, b)
        /\ m <= d /\ d <= said' /\ Between(Serials(queue'), m, d)
        /\ Between(Serials(outbox'), d, said')
    BY <1>1, <1>8, <1>9, <1>10, <1>12 DEF Marked
  <2> QED BY <1>7, <2>2, <2>3, <2>4, MarksMoved
<1> QED BY <1>5, <1>11, <1>12

LEMMA FlushOrder ==
    ASSUME HistoryTypeOK, HistoryTypeOK', OneInHand, InOrder, LossesAreCounted,
           NEW ok \in BOOLEAN, Flush(ok)
    PROVE  InOrder' /\ LossesAreCounted'
<1>1. /\ work # <<>> /\ work' = Tail(work) /\ work[1].op = "flush" /\ work[1].n = 0
      /\ UNCHANGED <<mode, queue, outbox, said, since>>
  BY Done DEF Flush, producer, process, OneInHand
<1>2. /\ pending' = <<>> /\ Serials(pending') = <<>>
      /\ \/ written' = written \o Serials(pending) /\ dropped' = dropped
         \/ written' = written /\ dropped' = dropped + Len(Serials(pending))
  <2>1. CASE pending = <<>>
    <3>1. Serials(pending) = <<>> /\ pending' = <<>> /\ written' = written /\ dropped' = dropped
      BY <2>1, EmptyFacts DEF Flush, Serials
    <3>2. written \o <<>> = written
      BY Places, ConcatEmptySeq
    <3>3. Serials(<<>>) = <<>>
      BY EmptyFacts DEF Serials
    <3> QED BY <3>1, <3>2, <3>3
  <2>2. CASE pending # <<>>
    <3>1. Len(Serials(pending)) = Len(pending)
      BY SerialsOf DEF HistoryTypeOK
    <3>2. Serials(<<>>) = <<>>
      BY EmptyFacts DEF Serials
    <3> QED BY <2>2, <3>1, <3>2 DEF Flush, Counted
  <2> QED BY <2>1, <2>2
<1>3. InHand' = InHand
  BY <1>1, <1>2, HandAfter
<1>4. PICK a \in 0..MaxEvents, b \in 0..MaxEvents, c \in 0..MaxEvents, d \in 0..MaxEvents :
         Marked(a, b, c, d)
  BY DEF InOrder
<1>5. Len(<<>>) = 0 /\ \A lo, hi : Between(<<>>, lo, hi)
  BY EmptyFacts, BetweenEmpty
<1>6. CASE written' = written \o Serials(pending) /\ dropped' = dropped
  <2>1. /\ Between(written, 0, a) /\ Between(Serials(pending), a, b) /\ a <= b /\ 0 <= a
        /\ a \in Nat /\ b \in Nat /\ 0 \in Nat
    BY <1>4, Places DEF Marked
  <2>2. /\ written' \in Seq(Nat) /\ Len(written') = Len(written) + Len(Serials(pending))
        /\ Between(written', 0, b)
    BY <1>6, <2>1, Places, BetweenConcat
  <2>3. Len(Serials(pending')) = 0
    BY <1>2, <1>5
  <2>4. LossesAreCounted'
    BY <1>1, <1>3, <1>6, <2>2, <2>3, Places, KeptCounts
  <2>5. /\ b <= b /\ b <= c /\ c <= d /\ d <= said' /\ Between(Serials(pending'), b, b)
        /\ Between(InHand', b, c) /\ Between(Serials(queue'), c, d)
        /\ Between(Serials(outbox'), d, said')
    BY <1>1, <1>2, <1>3, <1>4, <1>5, <2>1 DEF Marked
  <2> QED BY <2>2, <2>4, <2>5, MarksMoved
<1>7. CASE written' = written /\ dropped' = dropped + Len(Serials(pending))
  <2>1. Len(Serials(pending')) = 0
    BY <1>2, <1>5
  <2>2. LossesAreCounted'
    <3>1. /\ Len(written') = Len(written) /\ Len(Serials(outbox')) = Len(Serials(outbox))
          /\ Len(InHand') = Len(InHand) /\ Len(Serials(queue')) = Len(Serials(queue))
          /\ said' = said
      BY <1>1, <1>3, <1>7
    <3>2. said' - (Len(written') + Len(Serials(pending')) + Len(InHand') + Len(Serials(queue'))
                   + Len(Serials(outbox'))) - dropped'
            <= said - (Len(written) + Len(Serials(pending)) + Len(InHand) + Len(Serials(queue))
                       + Len(Serials(outbox))) - dropped
      BY <1>7, <2>1, <3>1, Lengths
    <3>3. written' \in Seq(Nat) /\ InHand' \in Seq(Nat) /\ since' = since /\ mode' = mode
      BY <1>1, <1>3, <1>7, Places
    <3> QED BY <3>2, <3>3, KeptCounts
  <2>3. /\ Between(written', 0, a) /\ a <= b /\ b <= c /\ c <= d /\ d <= said'
        /\ Between(Serials(pending'), a, b) /\ Between(InHand', b, c)
        /\ Between(Serials(queue'), c, d) /\ Between(Serials(outbox'), d, said')
    BY <1>1, <1>2, <1>3, <1>4, <1>5, <1>7 DEF Marked
  <2> QED BY <2>2, <2>3, MarksMoved
<1> QED BY <1>2, <1>6, <1>7

\* A write of one record: its serial goes to the database, or its loss is counted.
LEMMA RecordOrder ==
    ASSUME HistoryTypeOK, HistoryTypeOK', OneInHand, InOrder, LossesAreCounted,
           NEW ok \in BOOLEAN, work # <<>>, work' = Tail(work), work[1].op # "flush",
           written' = Recorded(ok, Head(work).n), dropped' \in Nat, dropped' >= dropped,
           ~ok => dropped' >= dropped + 1,
           UNCHANGED <<mode, pending, queue, outbox, said, since>>
    PROVE  InOrder' /\ LossesAreCounted'
<1>1. pending = <<>> /\ Head(work) = work[1] /\ Serials(pending) = <<>>
  <2>1. pending = <<>> /\ Head(work) = work[1]
    BY Done DEF OneInHand
  <2> QED BY <2>1, EmptyFacts DEF Serials
<1>2. Len(<<>>) = 0 /\ <<>> \in Seq(Nat) /\ \A lo, hi : Between(<<>>, lo, hi)
  BY EmptyFacts, BetweenEmpty
<1>3. PICK a \in 0..MaxEvents, b \in 0..MaxEvents, c \in 0..MaxEvents, d \in 0..MaxEvents :
         Marked(a, b, c, d)
  BY DEF InOrder
<1>4. CASE work[1].n = 0
  <2>1. InHand' = InHand /\ written' = written
    BY <1>1, <1>4, HandAfter DEF Recorded
  <2>2. LossesAreCounted'
    BY <2>1, Places, KeptCounts
  <2>3. /\ Between(written', 0, a) /\ a <= b /\ b <= c /\ c <= d /\ d <= said'
        /\ Between(Serials(pending'), a, b) /\ Between(InHand', b, c)
        /\ Between(Serials(queue'), c, d) /\ Between(Serials(outbox'), d, said')
    BY <1>3, <2>1 DEF Marked
  <2> QED BY <2>2, <2>3, MarksMoved
<1>5. CASE work[1].n # 0
  <2> DEFINE n == work[1].n
  <2>1. InHand = <<n>> /\ InHand' = <<>>
    BY <1>1, <1>5, HandAfter
  <2>2. n \in Nat
    <3>1. work[1] \in Write
      BY <1>1, Done
    <3> QED BY <3>1, IslandFacts DEF Write
  <2>3. b < n /\ n <= c
    <3>1. 1 \in DOMAIN <<n>> /\ <<n>>[1] = n
      OBVIOUS
    <3>2. Between(<<n>>, b, c)
      BY <1>3, <2>1 DEF Marked
    <3> HIDE DEF n
    <3> QED BY <3>1, <3>2 DEF Between
  <2> HIDE DEF n
  <2>4. PICK m \in 0..MaxEvents : m = n
    <3>1. c \in 0..MaxEvents /\ MaxEvents \in Nat
      BY Places
    <3>2. n \in 0..MaxEvents
      BY <2>2, <2>3, <3>1
    <3> QED BY <3>2
  <2>5. CASE ok
    <3>1. written' = Append(written, m)
      BY <1>1, <1>5, <2>4, <2>5 DEF Recorded, n
    <3>2. /\ written' \in Seq(Nat) /\ Len(written') = Len(written) + 1
          /\ Between(written', 0, m)
      <4>1. Between(written, 0, b)
        <5>1. Between(written, 0, a) /\ a <= b /\ 0 \in Nat /\ a \in Nat /\ b \in Nat
          BY <1>3, Places DEF Marked
        <5> QED BY <5>1, Places, BetweenWider
      <4>2. b \in Nat /\ m \in Nat /\ 0 \in Nat /\ 0 <= b /\ b < m
        BY <2>3, <2>4, Places
      <4>3. Between(Append(written, m), 0, m)
        BY <4>1, <4>2, Places, BetweenAppend
      <4>4. Append(written, m) \in Seq(Nat) /\ Len(Append(written, m)) = Len(written) + 1
        BY <4>2, Places, AppendFacts
      <4> QED BY <3>1, <4>3, <4>4
    <3>3. LossesAreCounted'
      <4>1. Len(InHand) = 1 /\ Len(InHand') = 0 /\ InHand' \in Seq(Nat)
        BY <1>2, <2>1
      <4>2. dropped' \in Nat /\ dropped' >= dropped /\ said' = said
        OBVIOUS
      <4>3. /\ Len(Serials(pending')) = Len(Serials(pending))
            /\ Len(Serials(outbox')) = Len(Serials(outbox))
            /\ Len(Serials(queue')) = Len(Serials(queue))
        OBVIOUS
      <4>4. said' - (Len(written') + Len(Serials(pending')) + Len(InHand') + Len(Serials(queue'))
                     + Len(Serials(outbox'))) - dropped'
              <= said - (Len(written) + Len(Serials(pending)) + Len(InHand) + Len(Serials(queue))
                         + Len(Serials(outbox))) - dropped
        <5>1. /\ Len(written) \in Nat /\ Len(Serials(pending)) \in Nat /\ Len(InHand) \in Nat
              /\ Len(Serials(queue)) \in Nat /\ Len(Serials(outbox)) \in Nat
              /\ said \in Nat /\ dropped \in Nat /\ dropped' \in Nat
          BY Lengths, LengthsAfter
        <5> QED BY <3>2, <4>1, <4>2, <4>3, <5>1
      <4> QED BY <3>2, <4>1, <4>4, KeptCounts
    <3>4. /\ m <= m /\ m <= c /\ c <= d /\ d <= said' /\ Between(Serials(pending'), m, m)
          /\ Between(InHand', m, c) /\ Between(Serials(queue'), c, d)
          /\ Between(Serials(outbox'), d, said')
      BY <1>1, <1>2, <1>3, <2>1, <2>3, <2>4, Places DEF Marked
    <3> QED BY <3>2, <3>3, <3>4, MarksMoved
  <2>6. CASE ~ok
    <3>1. written' = written
      BY <2>6 DEF Recorded
    <3>2. Len(InHand) = 1 /\ Len(InHand') = 0 /\ InHand' \in Seq(Nat)
      BY <1>2, <2>1
    <3>3. LossesAreCounted'
      <4>1. dropped' \in Nat /\ dropped' >= dropped + 1 /\ said' = said
        BY <2>6
      <4>2. /\ Len(Serials(pending')) = Len(Serials(pending))
            /\ Len(Serials(outbox')) = Len(Serials(outbox))
            /\ Len(Serials(queue')) = Len(Serials(queue))
        OBVIOUS
      <4>3. said' - (Len(written') + Len(Serials(pending')) + Len(InHand') + Len(Serials(queue'))
                     + Len(Serials(outbox'))) - dropped'
              <= said - (Len(written) + Len(Serials(pending)) + Len(InHand) + Len(Serials(queue))
                         + Len(Serials(outbox))) - dropped
        <5>1. /\ Len(written) \in Nat /\ Len(Serials(pending)) \in Nat /\ Len(InHand) \in Nat
              /\ Len(Serials(queue)) \in Nat /\ Len(Serials(outbox)) \in Nat
              /\ said \in Nat /\ dropped \in Nat /\ dropped' \in Nat
          BY Lengths, LengthsAfter
        <5> QED BY <3>1, <3>2, <4>1, <4>2, <5>1
      <4> QED BY <3>1, <3>2, <4>3, Places, KeptCounts
    <3>4. /\ Between(written', 0, a) /\ a <= b /\ b <= c /\ c <= d /\ d <= said'
          /\ Between(Serials(pending'), a, b) /\ Between(InHand', b, c)
          /\ Between(Serials(queue'), c, d) /\ Between(Serials(outbox'), d, said')
      BY <1>1, <1>2, <1>3, <2>1, <3>1 DEF Marked
    <3> QED BY <3>3, <3>4, MarksMoved
  <2> QED BY <2>5, <2>6
<1> QED BY <1>4, <1>5

\* The records lost so far.
LEMMA RecordCount ==
    ASSUME HistoryTypeOK, NEW ok \in BOOLEAN, dropped' = Counted(ok, 1)
    PROVE  dropped' \in Nat /\ dropped' >= dropped /\ (~ok => dropped' >= dropped + 1)
           /\ (dropped' = 0 => ok /\ dropped = 0)
BY DEF Counted, HistoryTypeOK

LEMMA EndOrder ==
    ASSUME HistoryTypeOK, HistoryTypeOK', OneInHand, InOrder, LossesAreCounted,
           work # <<>>, work[1].op \in {"end", "close"}, NEW t, NEW ok \in BOOLEAN, EndAt(t, ok)
    PROVE  OneInHand' /\ InOrder' /\ LossesAreCounted'
<1>1. /\ work' = Tail(work) /\ written' = Recorded(ok, Head(work).n) /\ work[1].op # "flush"
      /\ UNCHANGED <<mode, pending, queue, outbox, said, since>>
  BY DEF EndAt, producer, process
<1>2. dropped' \in Nat /\ dropped' >= dropped /\ (~ok => dropped' >= dropped + 1)
  <2>1. CASE sessionUp
    BY <2>1, RecordCount DEF EndAt
  <2>2. CASE ~sessionUp
    BY <2>2 DEF EndAt, HistoryTypeOK
  <2> QED BY <2>1, <2>2
<1>3. OneInHand'
  BY <1>1, HandLater
<1> QED BY <1>1, <1>2, <1>3, RecordOrder

LEMMA OrderStep ==
    ASSUME HistoryTypeOK, HistoryTypeOK', RunInv, OneInHand, InOrder, LossesAreCounted,
           [HistoryNext]_histVars
    PROVE  OneInHand' /\ InOrder' /\ LossesAreCounted'
<1>1. ASSUME NEW i \in Island, Snapshot(i) PROVE OneInHand' /\ InOrder' /\ LossesAreCounted'
  <2>1. UNCHANGED <<mode, written, pending, work, queue, since, dropped>>
    BY <1>1 DEF Snapshot, run, process
  <2>2. OneInHand'
    BY <2>1 DEF OneInHand
  <2> QED BY <1>1, <2>1, <2>2, SnapshotProduces, ProducedOrder
<1>2. ASSUME NEW kind \in {"start", "end"}, SessionBoundary(kind)
      PROVE  OneInHand' /\ InOrder' /\ LossesAreCounted'
  <2>1. UNCHANGED <<mode, written, pending, work, queue, since, dropped>>
    BY <1>2 DEF SessionBoundary, run, process
  <2>2. OneInHand'
    BY <2>1 DEF OneInHand
  <2> QED BY <1>2, <2>1, <2>2, BoundaryProduces, ProducedOrder
<1>3. CASE Offer
  <2>1. UNCHANGED <<pending, work>>
    BY <1>3 DEF Offer, run
  <2>2. OneInHand'
    BY <2>1 DEF OneInHand
  <2> QED BY <1>3, <2>2, OfferOrder
<1>4. CASE Receive
  BY <1>4, ReceiveHand, ReceiveOrder DEF RunInv
<1>5. ASSUME InHand' = InHand, OneInHand', written' = written, said' = said, since' = since,
             dropped' = dropped, mode' # "crashed" => mode # "crashed",
             UNCHANGED <<pending, queue, outbox>>
      PROVE  OneInHand' /\ InOrder' /\ LossesAreCounted'
  <2>1. Kept' = Kept
    BY <1>5 DEF Kept
  <2>2. LossesAreCounted'
    BY <1>5, <2>1 DEF LossesAreCounted
  <2>3. InOrder'
    BY <1>5 DEF InOrder, Marked
  <2> QED BY <1>5, <2>2, <2>3
<1>6. CASE TickerFires \/ Drained
  <2>1. /\ UNCHANGED <<written, said, since, dropped, pending, queue, outbox>>
        /\ mode' # "crashed" => mode # "crashed"
    BY <1>6 DEF TickerFires, Drained, producer, run, process
  <2> QED BY <1>5, <1>6, <2>1, TickHand
<1>7. ASSUME NEW ok \in BOOLEAN, Flush(ok) PROVE OneInHand' /\ InOrder' /\ LossesAreCounted'
  <2>1. work # <<>> /\ work' = Tail(work) /\ pending' = <<>>
    BY <1>7 DEF Flush
  <2> QED BY <1>7, <2>1, HandLater, FlushOrder
<1>8. ASSUME NEW ok \in BOOLEAN, EndSession(ok) PROVE OneInHand' /\ InOrder' /\ LossesAreCounted'
  <2>1. work # <<>> /\ EndAt(Head(work).at, ok) /\ work[1].op = "end"
    BY <1>8, Done DEF EndSession
  <2> QED BY <2>1, EndOrder
<1>9. ASSUME NEW ok \in BOOLEAN, CloseSession(ok)
      PROVE  OneInHand' /\ InOrder' /\ LossesAreCounted'
  <2>1. work # <<>> /\ EndAt(IF lastSample = 0 THEN now ELSE lastSample, ok) /\ work[1].op = "close"
    BY <1>9, Done DEF CloseSession
  <2> QED BY <2>1, EndOrder
<1>10. ASSUME NEW ok \in BOOLEAN, StartSession(ok) \/ WriteAlert(ok)
       PROVE  OneInHand' /\ InOrder' /\ LossesAreCounted'
  <2>1. /\ work # <<>> /\ work' = Tail(work) /\ written' = Recorded(ok, Head(work).n)
        /\ Head(work).op # "flush" /\ dropped' = Counted(ok, 1)
        /\ UNCHANGED <<mode, pending, queue, outbox, said, since>>
    BY <1>10 DEF StartSession, WriteAlert, producer, process
  <2>2. work[1].op # "flush"
    BY <2>1, Done
  <2> QED BY <2>1, <2>2, HandLater, RecordCount, RecordOrder
<1>11. CASE Closed \/ Stop \/ ClockTicks \/ UNCHANGED histVars
  <2>1. /\ UNCHANGED <<written, said, since, dropped, pending, queue, outbox, work>>
        /\ mode' # "crashed" => mode # "crashed"
    BY <1>11 DEF Closed, Stop, ClockTicks, histVars, producer, run, process
  <2>2. OneInHand' /\ InHand' = InHand
    BY <2>1 DEF OneInHand, InHand
  <2> QED BY <1>5, <2>1, <2>2
<1>12. CASE Crash
  <2>1. /\ outbox' = <<>> /\ queue' = <<>> /\ pending' = <<>> /\ work' = <<>> /\ mode' = "crashed"
        /\ UNCHANGED <<said, written>>
    BY <1>12 DEF Crash
  <2>2. OneInHand' /\ LossesAreCounted' /\ InHand' = <<>>
    BY <2>1, EmptyFacts DEF OneInHand, LossesAreCounted, InHand
  <2>3. PICK a \in 0..MaxEvents, b \in 0..MaxEvents, c \in 0..MaxEvents, d \in 0..MaxEvents :
           Marked(a, b, c, d)
    BY DEF InOrder
  <2>4. Serials(<<>>) = <<>> /\ \A lo, hi : Between(<<>>, lo, hi)
    BY EmptyFacts, BetweenEmpty DEF Serials
  <2>5. /\ a <= b /\ b <= c /\ c <= d /\ d <= said' /\ Between(written', 0, a)
    BY <2>1, <2>3 DEF Marked
  <2> QED BY <2>1, <2>2, <2>4, <2>5, MarksMoved
<1>13. ASSUME NEW commits \in 0..2, OpenStore(commits)
       PROVE  OneInHand' /\ InOrder' /\ LossesAreCounted'
  <2>1. /\ outbox' = <<>> /\ queue' = <<>> /\ pending' = <<>> /\ work' = <<>> /\ written' = <<>>
        /\ since' = said /\ said' = said /\ dropped' = 0
    BY <1>13 DEF OpenStore
  <2>2. OneInHand' /\ InHand' = <<>>
    BY <2>1, EmptyFacts DEF OneInHand, InHand
  <2>3. Serials(<<>>) = <<>> /\ \A lo, hi : Between(<<>>, lo, hi)
    BY EmptyFacts, BetweenEmpty DEF Serials
  <2>4. InOrder'
    <3>1. 0 \in 0..MaxEvents /\ 0 <= said' /\ 0 <= 0
      BY <2>1, Places
    <3> QED BY <2>1, <2>2, <2>3, <3>1, MarksMoved
  <2>5. LossesAreCounted'
    <3>1. Kept' = <<>> \o <<>> \o <<>> \o <<>> \o <<>>
      BY <2>1, <2>2, <2>3 DEF Kept
    <3>2. Len(Kept') = 0
      BY <3>1
    <3>3. said' - since' - 0 <= dropped'
      BY <2>1, Places
    <3> QED BY <3>2, <3>3 DEF LossesAreCounted
  <2> QED BY <2>2, <2>4, <2>5
<1> QED BY <1>1, <1>2, <1>3, <1>4, <1>6, <1>7, <1>8, <1>9, <1>10, <1>11, <1>12, <1>13
        DEF HistoryNext, Batcher

-----------------------------------------------------------------------------
(* Whose alerts are open *)

LEMMA LeadsEmpty ==
    ASSUME NEW before \in SUBSET Island, NEW after \in SUBSET Island
    PROVE  Leads(<<>>, before, after) <=> before = after
<1>1. ASSUME Leads(<<>>, before, after) PROVE before = after
  BY <1>1 DEF Leads
<1>2. ASSUME before = after PROVE Leads(<<>>, before, after)
  <2>1. Len(<<>>) = 0 /\ 1..0 = {}
    OBVIOUS
  <2> DEFINE open == [k \in 0..0 |-> before]
  <2>2. open \in [0..0 -> SUBSET Island] /\ open[0] = before
    OBVIOUS
  <2> HIDE DEF open
  <2> QED BY <1>2, <2>1, <2>2 DEF Leads
<1> QED BY <1>1, <1>2

LEMMA LeadsHead ==
    ASSUME NEW s \in Seq(Event), s # <<>>, NEW before, NEW after, Leads(s, before, after)
    PROVE  \E x \in SUBSET Island :
              Does(Head(s).kind, Head(s).island, before, x) /\ Leads(Tail(s), x, after)
<1>1. /\ Len(s) \in Nat \ {0} /\ Head(s) = s[1] /\ Len(Tail(s)) = Len(s) - 1
      /\ \A k \in 1..Len(s) - 1 : Tail(s)[k] = s[k + 1]
  BY TailFacts
<1>2. PICK open \in [0..Len(s) -> SUBSET Island] :
         /\ open[0] = before /\ open[Len(s)] = after
         /\ \A k \in 1..Len(s) : Does(s[k].kind, s[k].island, open[k - 1], open[k])
  BY DEF Leads
<1> DEFINE rest == [k \in 0..Len(s) - 1 |-> open[k + 1]]
<1>3. rest \in [0..Len(Tail(s)) -> SUBSET Island]
  BY <1>1
<1>4. rest[0] = open[1] /\ rest[Len(Tail(s))] = after
  BY <1>1, <1>2
<1>5. ASSUME NEW k \in 1..Len(Tail(s))
      PROVE  Does(Tail(s)[k].kind, Tail(s)[k].island, rest[k - 1], rest[k])
  <2>1. k + 1 \in 1..Len(s) /\ Tail(s)[k] = s[k + 1] /\ (k + 1) - 1 = k
    BY <1>1
  <2>2. rest[k - 1] = open[k] /\ rest[k] = open[k + 1]
    BY <1>1
  <2> HIDE DEF rest
  <2> QED BY <1>2, <2>1, <2>2
<1> HIDE DEF rest
<1>6. Leads(Tail(s), open[1], after)
  BY <1>3, <1>4, <1>5 DEF Leads
<1>7. Does(Head(s).kind, Head(s).island, before, open[1]) /\ open[1] \in SUBSET Island
  <2>1. 1 \in 1..Len(s) /\ 1 \in 0..Len(s) /\ 1 - 1 = 0
    BY <1>1
  <2> QED BY <1>1, <1>2, <2>1
<1> QED BY <1>6, <1>7

LEMMA LeadsAppend ==
    ASSUME NEW s \in Seq(Event), NEW e \in Event, NEW before, NEW m,
           NEW after \in SUBSET Island, Leads(s, before, m), Does(e.kind, e.island, m, after)
    PROVE  Leads(Append(s, e), before, after)
<1> DEFINE t == Append(s, e)
<1>1. /\ Len(s) \in Nat /\ Len(t) = Len(s) + 1
      /\ \A k \in 1..Len(s) : t[k] = s[k]
      /\ t[Len(s) + 1] = e
  BY AppendFacts
<1>2. PICK open \in [0..Len(s) -> SUBSET Island] :
         /\ open[0] = before /\ open[Len(s)] = m
         /\ \A k \in 1..Len(s) : Does(s[k].kind, s[k].island, open[k - 1], open[k])
  BY DEF Leads
<1> HIDE DEF t
<1> DEFINE more == [k \in 0..Len(s) + 1 |-> IF k = Len(s) + 1 THEN after ELSE open[k]]
<1>3. more \in [0..Len(t) -> SUBSET Island]
  BY <1>1
<1>4. /\ more[0] = before /\ more[Len(t)] = after
      /\ \A k \in 0..Len(s) : more[k] = open[k]
  BY <1>1, <1>2
<1> HIDE DEF more
<1>5. ASSUME NEW k \in 1..Len(t)
      PROVE  Does(t[k].kind, t[k].island, more[k - 1], more[k])
  <2>1. CASE k = Len(s) + 1
    <3>1. k - 1 = Len(s) /\ Len(s) \in 0..Len(s)
      BY <1>1, <2>1
    <3>2. more[k - 1] = m /\ more[k] = after /\ t[k] = e
      BY <1>1, <1>2, <1>4, <2>1, <3>1
    <3> QED BY <3>2
  <2>2. CASE k # Len(s) + 1
    <3>1. k \in 1..Len(s) /\ k - 1 \in 0..Len(s) /\ k \in 0..Len(s)
      BY <1>1, <2>2
    <3>2. more[k - 1] = open[k - 1] /\ more[k] = open[k] /\ t[k] = s[k]
      BY <1>1, <1>4, <3>1
    <3> QED BY <1>2, <3>1, <3>2
  <2> QED BY <2>1, <2>2
<1>6. Leads(t, before, after)
  BY <1>3, <1>4, <1>5 DEF Leads
<1> QED BY <1>6 DEF t

\* The alerts the engine has raised and cleared itself.
LEMMA SnapshotLeads ==
    ASSUME HistoryTypeOK, NEW i \in Island, Snapshot(i)
    PROVE  outbox = <<>> /\ Leads(outbox', watched, watched')
<1>1. watched \in SUBSET Island /\ outbox = <<>>
  BY DEF HistoryTypeOK, Snapshot, Produce
<1>2. CASE Produce(<< <<"snapshot", i>> >>) /\ watched' = watched
  <2> DEFINE open == [k \in 0..1 |-> watched]
  <2>1. Len(outbox') = 1 /\ outbox'[1].kind = "snapshot"
    BY <1>2 DEF Produce
  <2>2. open \in [0..1 -> SUBSET Island] /\ open[0] = watched /\ open[1] = watched
    BY <1>1
  <2>3. \A k \in 1..1 : k = 1 /\ k - 1 = 0
    OBVIOUS
  <2>4. Does("snapshot", outbox'[1].island, watched, watched)
    BY DEF Does
  <2> HIDE DEF open
  <2> QED BY <1>1, <1>2, <2>1, <2>2, <2>3, <2>4 DEF Leads
<1>3. ASSUME NEW kind \in {"raised", "cleared"}, Produce(<< <<"snapshot", i>>, <<kind, i>> >>),
             Does(kind, i, watched, watched'), watched' \in SUBSET Island
      PROVE  Leads(outbox', watched, watched')
  <2> DEFINE open == [k \in 0..2 |-> IF k = 2 THEN watched' ELSE watched]
  <2>1. /\ Len(outbox') = 2 /\ outbox'[1].kind = "snapshot"
        /\ outbox'[2].kind = kind /\ outbox'[2].island = i
    BY <1>3 DEF Produce
  <2>2. open \in [0..2 -> SUBSET Island] /\ open[0] = watched /\ open[1] = watched /\ open[2] = watched'
    BY <1>1, <1>3
  <2>3. \A k \in 1..2 : (k = 1 /\ k - 1 = 0) \/ (k = 2 /\ k - 1 = 1)
    OBVIOUS
  <2>4. Does("snapshot", outbox'[1].island, watched, watched)
    BY DEF Does
  <2> HIDE DEF open
  <2> QED BY <1>3, <2>1, <2>2, <2>3, <2>4 DEF Leads
<1>4. CASE /\ i \notin watched /\ watched' = watched \cup {i}
           /\ Produce(<< <<"snapshot", i>>, <<"raised", i>> >>)
  BY <1>1, <1>3, <1>4 DEF Does
<1>5. CASE /\ i \in watched /\ watched' = watched \ {i}
           /\ Produce(<< <<"snapshot", i>>, <<"cleared", i>> >>)
  BY <1>1, <1>3, <1>5 DEF Does
<1> QED BY <1>1, <1>2, <1>4, <1>5 DEF Snapshot

LEMMA BoundaryLeads ==
    ASSUME HistoryTypeOK, NEW kind \in {"start", "end"}, SessionBoundary(kind)
    PROVE  outbox = <<>> /\ Leads(outbox', watched, watched')
<1>1. watched \in SUBSET Island /\ outbox = <<>> /\ watched' = {}
  BY DEF HistoryTypeOK, SessionBoundary, Produce
<1>2. PICK events :
         /\ Produce(events) /\ Len(events) \in Nat
         /\ \A k \in 1..Len(events) : events[k] \in Kind \X Island
         /\ Len(events) >= 1 /\ events[1][1] = kind
         /\ \A k \in 2..Len(events) : events[k][1] = "cleared"
         /\ \A i \in watched : \E k \in 2..Len(events) : events[k][2] = i
  BY BoundaryProduces
<1>3. /\ DOMAIN outbox' = 1..Len(events) /\ outbox' \in Seq(Event)
      /\ \A k \in 1..Len(events) :
            outbox'[k].kind = events[k][1] /\ outbox'[k].island = events[k][2]
  BY <1>2, Produced
<1> DEFINE n == Len(events)
           open == [k \in 0..n |-> watched \ {events[j][2] : j \in 2..k}]
<1>4. Len(outbox') = n
  BY <1>2, <1>3
<1>5. open \in [0..n -> SUBSET Island]
  BY <1>1
<1>6. open[0] = watched
  <2>1. 2..0 = {} /\ 0 \in 0..n
    BY <1>2
  <2>2. {events[j][2] : j \in 2..0} = {}
    BY <2>1
  <2> QED BY <2>1, <2>2
<1>7. open[n] = {}
  <2>1. n \in 0..n
    BY <1>2
  <2> QED BY <1>2, <2>1
<1>8. ASSUME NEW k \in 1..n
      PROVE  Does(outbox'[k].kind, outbox'[k].island, open[k - 1], open[k])
  <2>0. k \in 0..n /\ k - 1 \in 0..n
    BY <1>2
  <2>1. CASE k = 1
    <3>1. 2..k - 1 = {} /\ 2..k = {}
      BY <2>1
    <3>2. {events[j][2] : j \in 2..k - 1} = {events[j][2] : j \in 2..k}
      BY <3>1
    <3>3. open[k - 1] = open[k]
      BY <2>0, <3>2
    <3>4. outbox'[k].kind = kind
      BY <1>2, <1>3, <2>1
    <3> HIDE DEF open
    <3> QED BY <3>3, <3>4 DEF Does
  <2>2. CASE k # 1
    <3>1. 2..k = (2..k - 1) \cup {k} /\ k \in 2..n
      BY <1>2, <2>2
    <3>2. {events[j][2] : j \in 2..k} = {events[j][2] : j \in 2..k - 1} \cup {events[k][2]}
      BY <3>1
    <3>3. open[k] = open[k - 1] \ {events[k][2]}
      BY <2>0, <3>2
    <3>4. outbox'[k].kind = "cleared" /\ outbox'[k].island = events[k][2]
      BY <1>2, <1>3, <3>1
    <3> HIDE DEF open
    <3> QED BY <3>3, <3>4 DEF Does
  <2> QED BY <2>1, <2>2
<1> HIDE DEF open, n
<1>9. Leads(outbox', watched, watched')
  BY <1>1, <1>4, <1>5, <1>6, <1>7, <1>8 DEF Leads
<1> QED BY <1>1, <1>9

LEMMA AlertRows ==
    ASSUME HistoryTypeOK, NEW k \in DOMAIN alerts
    PROVE  alerts[k] \in [island : Island, raised : 1..MaxTime, cleared : 0..MaxTime]
<1> DEFINE Line == [island : Island, raised : 1..MaxTime, cleared : 0..MaxTime]
<1>1. alerts \in Seq(Line)
  BY DEF HistoryTypeOK
<1> HIDE DEF Line
<1>2. alerts[k] \in Line
  BY <1>1
<1> QED BY <1>2 DEF Line

LEMMA StandingType ==
    ASSUME HistoryTypeOK
    PROVE  Standing \in SUBSET Island /\ watched \in SUBSET Island
<1>1. \A k \in DOMAIN alerts : alerts[k].island \in Island
  BY AlertRows
<1> QED BY <1>1 DEF Standing, OpenAlerts, HistoryTypeOK

\* What a step that leaves the alert rows and the write in hand alone keeps.
LEMMA SameHand ==
    ASSUME UNCHANGED <<alerts, work>>
    PROVE  /\ Standing' = Standing /\ OneRowEach' = OneRowEach
           /\ \A x : HandLeads(x) <=> HandLeads(x)'
BY DEF Standing, OneRowEach, OpenAlerts, HandLeads, Does

LEMMA ProducedLeads ==
    ASSUME HistoryTypeOK, HistoryTypeOK', AlertsLead, outbox = <<>>,
           Leads(outbox', watched, watched'),
           UNCHANGED <<alerts, work, queue, dropped, mode>>
    PROVE  AlertsLead'
<1> SUFFICES ASSUME dropped = 0, mode # "crashed"
             PROVE  /\ OneRowEach'
                    /\ \E x, y \in SUBSET Island :
                          HandLeads(x)' /\ Leads(queue', x, y) /\ Leads(outbox', y, watched')
  BY DEF AlertsLead, Leads, Does
<1>1. PICK x \in SUBSET Island, y \in SUBSET Island :
         HandLeads(x) /\ Leads(queue, x, y) /\ Leads(outbox, y, watched)
  BY DEF AlertsLead
<1>2. y = watched
  BY <1>1, LeadsEmpty, StandingType
<1>3. HandLeads(x)' /\ OneRowEach'
  BY <1>1, SameHand DEF AlertsLead
<1> QED BY <1>1, <1>2, <1>3

LEMMA OfferLeads ==
    ASSUME HistoryTypeOK, AlertsLead, Offer
    PROVE  AlertsLead'
<1> SUFFICES ASSUME dropped' = 0
             PROVE  /\ OneRowEach'
                    /\ \E x, y \in SUBSET Island :
                          HandLeads(x)' /\ Leads(queue', x, y) /\ Leads(outbox', y, watched')
  BY DEF AlertsLead, Leads, Does
<1>1. /\ mode = "up" /\ outbox # <<>> /\ outbox \in Seq(Event) /\ queue \in Seq(Event)
      /\ outbox' = Tail(outbox) /\ UNCHANGED <<alerts, work, watched>>
      /\ dropped = 0 /\ queue' = Append(queue, Head(outbox))
  BY DEF Offer, HistoryTypeOK, run, db
<1>2. PICK x \in SUBSET Island, y \in SUBSET Island :
         HandLeads(x) /\ Leads(queue, x, y) /\ Leads(outbox, y, watched)
  BY <1>1 DEF AlertsLead
<1>3. PICK z \in SUBSET Island :
         Does(Head(outbox).kind, Head(outbox).island, y, z) /\ Leads(outbox', z, watched)
  BY <1>1, <1>2, LeadsHead
<1>4. Leads(queue', x, z)
  BY <1>1, <1>2, <1>3, LeadsAppend
<1>5. HandLeads(x)' /\ OneRowEach'
  BY <1>1, <1>2, SameHand DEF AlertsLead
<1> QED BY <1>1, <1>3, <1>4, <1>5

LEMMA ReceiveLeads ==
    ASSUME HistoryTypeOK, FullIsFlushed, OneInHand, AlertsLead, Receive
    PROVE  AlertsLead'
<1> SUFFICES ASSUME dropped' = 0, mode' # "crashed"
             PROVE  /\ OneRowEach'
                    /\ \E x, y \in SUBSET Island :
                          HandLeads(x)' /\ Leads(queue', x, y) /\ Leads(outbox', y, watched')
  BY DEF AlertsLead, Leads, Does
<1>1. /\ queue # <<>> /\ queue \in Seq(Event) /\ queue' = Tail(queue) /\ work = <<>>
      /\ UNCHANGED <<mode, outbox, watched, dropped, alerts>>
  BY DEF Receive, HistoryTypeOK, producer, db
<1>2. PICK x \in SUBSET Island, y \in SUBSET Island :
         HandLeads(x) /\ Leads(queue, x, y) /\ Leads(outbox, y, watched)
  BY <1>1 DEF AlertsLead
<1>3. x = Standing
  BY <1>1, <1>2 DEF HandLeads
<1>4. PICK z \in SUBSET Island :
         Does(Head(queue).kind, Head(queue).island, Standing, z) /\ Leads(queue', z, y)
  BY <1>1, <1>2, <1>3, LeadsHead
<1>5. Standing' = Standing /\ OneRowEach'
  BY <1>1 DEF Standing, OneRowEach, OpenAlerts, AlertsLead
<1>6. HandLeads(z)'
  <2>1. CASE Head(queue).kind = "snapshot"
    <3>1. z = Standing
      BY <1>4, <2>1 DEF Does
    <3>2. work' = <<>> \/ Last(work)'.op = "flush"
      BY <2>1, ReceiveHand
    <3> QED BY <1>5, <3>1, <3>2 DEF HandLeads, Does
  <2>2. CASE Head(queue).kind # "snapshot"
    <3>1. /\ work' # <<>> /\ Last(work)'.op = Head(queue).kind
          /\ Last(work)'.island = Head(queue).island
      BY <2>2, ReceiveHand
    <3> QED BY <1>4, <1>5, <3>1 DEF HandLeads, Does
  <2> QED BY <2>1, <2>2
<1> QED BY <1>1, <1>2, <1>4, <1>5, <1>6

\* A write that opens and closes no alert.
LEMMA OtherLeads ==
    ASSUME HistoryTypeOK, OneInHand, AlertsLead, work # <<>>, work' = Tail(work),
           work[1].op \notin {"raised", "cleared"},
           \/ pending' = <<>>
           \/ pending' = pending /\ work[1].op # "flush",
           dropped' = 0 => dropped = 0,
           UNCHANGED <<mode, outbox, queue, watched, alerts>>
    PROVE  AlertsLead'
<1>1. Standing' = Standing /\ OneRowEach' = OneRowEach
  BY DEF Standing, OneRowEach, OpenAlerts
<1>2. ASSUME NEW x \in SUBSET Island, HandLeads(x) PROVE HandLeads(x)'
  <2>1. CASE work' = <<>>
    <3>1. Last(work) = work[1]
      BY <2>1, HandLater
    <3>2. x = Standing
      BY <1>2, <3>1 DEF HandLeads, Does
    <3> QED BY <1>1, <2>1, <3>2 DEF HandLeads
  <2>2. CASE work' # <<>>
    <3>1. Last(work)' = Last(work)
      BY <2>2, HandLater
    <3> QED BY <1>1, <1>2, <2>2, <3>1 DEF HandLeads, Does
  <2> QED BY <2>1, <2>2
<1>3. ASSUME dropped' = 0, mode # "crashed"
      PROVE  /\ OneRowEach'
             /\ \E x, y \in SUBSET Island :
                   HandLeads(x)' /\ Leads(queue', x, y) /\ Leads(outbox', y, watched')
  <2>1. PICK x \in SUBSET Island, y \in SUBSET Island :
           HandLeads(x) /\ Leads(queue, x, y) /\ Leads(outbox, y, watched)
    BY <1>3 DEF AlertsLead
  <2>2. HandLeads(x)' /\ OneRowEach'
    BY <1>1, <1>2, <1>3, <2>1 DEF AlertsLead
  <2> QED BY <2>1, <2>2
<1> QED BY <1>3 DEF AlertsLead, Leads, Does

\* The rows of an island that are closed.
LEMMA ClearedRows ==
    ASSUME HistoryTypeOK, NEW whose, NEW t \in 1..MaxTime, alerts' = Cleared(whose, t)
    PROVE  /\ OpenAlerts' = {k \in OpenAlerts : alerts[k].island \notin whose}
           /\ \A k \in OpenAlerts' : alerts'[k].island = alerts[k].island
<1>1. /\ DOMAIN alerts' = DOMAIN alerts
      /\ \A k \in DOMAIN alerts :
            alerts'[k] = IF alerts[k].cleared = Open /\ alerts[k].island \in whose
                         THEN [alerts[k] EXCEPT !.cleared = t] ELSE alerts[k]
  BY DEF Cleared
<1>2. \A k \in DOMAIN alerts : [alerts[k] EXCEPT !.cleared = t].cleared = t
  <2> DEFINE Line == [island : Island, raised : 1..MaxTime, cleared : 0..MaxTime]
  <2>1. \A k \in DOMAIN alerts : alerts[k] \in Line
    BY AlertRows
  <2>2. \A r \in Line : [r EXCEPT !.cleared = t].cleared = t
    OBVIOUS
  <2> HIDE DEF Line
  <2> QED BY <2>1, <2>2
<1>3. t # Open
  BY DEF Open
<1>4. \A k \in DOMAIN alerts :
         alerts'[k].cleared = Open <=> (alerts[k].cleared = Open /\ alerts[k].island \notin whose)
  BY <1>1, <1>2, <1>3
<1>5. OpenAlerts' = {k \in OpenAlerts : alerts[k].island \notin whose}
  BY <1>1, <1>4 DEF OpenAlerts
<1>6. \A k \in OpenAlerts' : alerts'[k] = alerts[k]
  BY <1>1, <1>5 DEF OpenAlerts
<1> QED BY <1>5, <1>6

LEMMA AlertLeads ==
    ASSUME HistoryTypeOK, OneInHand, AlertsLead, NEW ok \in BOOLEAN, WriteAlert(ok)
    PROVE  AlertsLead'
<1> SUFFICES ASSUME dropped' = 0, mode # "crashed", mode' = mode
             PROVE  /\ OneRowEach'
                    /\ \E x, y \in SUBSET Island :
                          HandLeads(x)' /\ Leads(queue', x, y) /\ Leads(outbox', y, watched')
  <2>1. mode' = mode
    BY DEF WriteAlert
  <2> QED BY <2>1 DEF AlertsLead, Leads, Does
<1>1. /\ work # <<>> /\ work' = Tail(work) /\ Head(work) = work[1] /\ Head(work) \in Write
      /\ work[1].op \in {"raised", "cleared"} /\ dropped' = Counted(ok, 1)
      /\ UNCHANGED <<outbox, queue, watched, pending>>
  BY Done DEF WriteAlert, producer
<1>2. ok /\ dropped = 0
  BY <1>1, RecordCount
<1>3. work' = <<>> /\ Last(work) = work[1]
  BY <1>1, HandLater
<1>4. PICK x \in SUBSET Island, y \in SUBSET Island :
         HandLeads(x) /\ Leads(queue, x, y) /\ Leads(outbox, y, watched)
  BY <1>2 DEF AlertsLead
<1> DEFINE i == work[1].island
<1>5. Does(work[1].op, i, Standing, x) /\ OneRowEach
  BY <1>1, <1>2, <1>3, <1>4 DEF HandLeads, AlertsLead
<1>6. Standing' = x /\ OneRowEach'
  <2>1. CASE work[1].op = "raised"
    <3> DEFINE new == [island |-> i, raised |-> work[1].at, cleared |-> Open]
    <3>1. alerts' = Append(alerts, new) /\ new.island = i /\ new.cleared = Open
      BY <1>1, <1>2, <2>1 DEF WriteAlert
    <3> HIDE DEF new
    <3>2. /\ DOMAIN alerts' = 1..Len(alerts) + 1 /\ DOMAIN alerts = 1..Len(alerts)
          /\ Len(alerts) \in Nat
          /\ \A k \in 1..Len(alerts) : alerts'[k] = alerts[k]
          /\ alerts'[Len(alerts) + 1] = new
      <4>1. alerts \in Seq(Range(alerts) \cup {new}) /\ new \in Range(alerts) \cup {new}
        BY DEF HistoryTypeOK, Range
      <4> QED BY <3>1, <4>1, AppendFacts
    <3>3. /\ OpenAlerts' = OpenAlerts \cup {Len(alerts) + 1}
          /\ \A k \in OpenAlerts : alerts'[k].island = alerts[k].island /\ k # Len(alerts) + 1
          /\ alerts'[Len(alerts) + 1].island = i
      BY <3>1, <3>2 DEF OpenAlerts
    <3>4. i \notin Standing /\ x = Standing \cup {i}
      BY <1>5, <2>1 DEF Does
    <3>5. Standing' = Standing \cup {i}
      BY <3>3 DEF Standing
    <3>6. \A k \in OpenAlerts : alerts[k].island # i
      BY <3>4 DEF Standing
    <3> HIDE DEF i
    <3>7. OneRowEach'
      BY <1>5, <3>3, <3>6 DEF OneRowEach
    <3> QED BY <3>4, <3>5, <3>7
  <2>2. CASE work[1].op = "cleared"
    <3>1. alerts' = Cleared({i}, work[1].at) /\ work[1].at \in 1..MaxTime
      BY <1>1, <1>2, <2>2 DEF WriteAlert, Write
    <3>2. /\ OpenAlerts' = {k \in OpenAlerts : alerts[k].island \notin {i}}
          /\ \A k \in OpenAlerts' : alerts'[k].island = alerts[k].island
      BY <3>1, ClearedRows
    <3>3. x = Standing \ {i}
      BY <1>5, <2>2 DEF Does
    <3> HIDE DEF i
    <3>4. Standing' = Standing \ {i}
      BY <3>2 DEF Standing
    <3>5. OneRowEach'
      BY <1>5, <3>2 DEF OneRowEach
    <3> QED BY <3>3, <3>4, <3>5
  <2> QED BY <1>1, <2>1, <2>2
<1>7. HandLeads(x)'
  BY <1>3, <1>6 DEF HandLeads
<1> QED BY <1>1, <1>4, <1>6, <1>7

LEMMA LeadStep ==
    ASSUME HistoryTypeOK, HistoryTypeOK', RunInv, OneInHand, AlertsLead, [HistoryNext]_histVars
    PROVE  AlertsLead'
<1>1. ASSUME NEW i \in Island, Snapshot(i) PROVE AlertsLead'
  <2>1. UNCHANGED <<alerts, work, queue, dropped, mode>>
    BY <1>1 DEF Snapshot, db
  <2> QED BY <1>1, <2>1, SnapshotLeads, ProducedLeads
<1>2. ASSUME NEW kind \in {"start", "end"}, SessionBoundary(kind) PROVE AlertsLead'
  <2>1. UNCHANGED <<alerts, work, queue, dropped, mode>>
    BY <1>2 DEF SessionBoundary, db
  <2> QED BY <1>2, <2>1, BoundaryLeads, ProducedLeads
<1>3. CASE Offer
  BY <1>3, OfferLeads
<1>4. CASE Receive
  BY <1>4, ReceiveLeads DEF RunInv
<1>5. CASE TickerFires \/ Drained
  <2>1. /\ UNCHANGED <<outbox, queue, watched, alerts, dropped>> /\ mode # "crashed"
        /\ Standing' = Standing /\ OneRowEach' = OneRowEach
    BY <1>5 DEF TickerFires, Drained, producer, run, db, Standing, OneRowEach, OpenAlerts
  <2>2. \A x : HandLeads(x) => HandLeads(x)'
    BY <1>5, <2>1, TickHand DEF HandLeads, Does
  <2>3. ASSUME dropped = 0
        PROVE  /\ OneRowEach'
               /\ \E x, y \in SUBSET Island :
                     HandLeads(x)' /\ Leads(queue', x, y) /\ Leads(outbox', y, watched')
    <3>1. PICK x \in SUBSET Island, y \in SUBSET Island :
             HandLeads(x) /\ Leads(queue, x, y) /\ Leads(outbox, y, watched)
      BY <2>1, <2>3 DEF AlertsLead
    <3>2. HandLeads(x)' /\ OneRowEach'
      BY <2>1, <2>2, <2>3, <3>1 DEF AlertsLead
    <3> QED BY <2>1, <3>1, <3>2
  <2> QED BY <2>1, <2>3 DEF AlertsLead, Leads, Does
<1>6. ASSUME NEW ok \in BOOLEAN, Flush(ok) PROVE AlertsLead'
  <2>1. /\ work # <<>> /\ work' = Tail(work) /\ Head(work).op = "flush" /\ pending' = <<>>
        /\ UNCHANGED <<mode, outbox, queue, watched, alerts>>
    BY <1>6 DEF Flush, producer
  <2>2. dropped' = 0 => dropped = 0
    <3>1. Len(pending) \in Nat
      BY DEF HistoryTypeOK
    <3> QED BY <1>6, <3>1 DEF Flush, Counted, HistoryTypeOK
  <2>3. work[1].op \notin {"raised", "cleared"}
    BY <2>1, Done
  <2> QED BY <2>1, <2>2, <2>3, OtherLeads
<1>7. ASSUME NEW ok \in BOOLEAN, NEW t, EndAt(t, ok), work # <<>>, work[1].op \in {"end", "close"}
      PROVE  AlertsLead'
  <2>1. /\ work' = Tail(work) /\ UNCHANGED <<mode, pending, outbox, queue, watched, alerts>>
        /\ work[1].op \notin {"raised", "cleared"} /\ work[1].op # "flush"
    BY <1>7 DEF EndAt, producer
  <2>2. dropped' = 0 => dropped = 0
    BY <1>7, RecordCount DEF EndAt
  <2> QED BY <1>7, <2>1, <2>2, OtherLeads
<1>8. ASSUME NEW ok \in BOOLEAN, EndSession(ok) PROVE AlertsLead'
  <2>1. work # <<>> /\ EndAt(Head(work).at, ok) /\ work[1].op = "end"
    BY <1>8, Done DEF EndSession
  <2> QED BY <1>7, <2>1
<1>9. ASSUME NEW ok \in BOOLEAN, CloseSession(ok) PROVE AlertsLead'
  <2>1. work # <<>> /\ EndAt(IF lastSample = 0 THEN now ELSE lastSample, ok) /\ work[1].op = "close"
    BY <1>9, Done DEF CloseSession
  <2> QED BY <1>7, <2>1
<1>10. ASSUME NEW ok \in BOOLEAN, StartSession(ok) PROVE AlertsLead'
  <2>1. /\ work # <<>> /\ work' = Tail(work) /\ Head(work).op = "start" /\ dropped' = Counted(ok, 1)
        /\ UNCHANGED <<mode, pending, outbox, queue, watched, alerts>>
    BY <1>10 DEF StartSession, producer
  <2>2. work[1].op \notin {"raised", "cleared"} /\ work[1].op # "flush"
    BY <2>1, Done
  <2> QED BY <2>1, <2>2, RecordCount, OtherLeads
<1>11. ASSUME NEW ok \in BOOLEAN, WriteAlert(ok) PROVE AlertsLead'
  BY <1>11, AlertLeads
<1>12. CASE Closed \/ Stop \/ ClockTicks \/ UNCHANGED histVars
  <2>1. UNCHANGED <<dropped, queue, outbox, watched, work, alerts>>
    BY <1>12 DEF Closed, Stop, ClockTicks, histVars, producer, db
  <2>2. mode' # "crashed" => mode # "crashed"
    BY <1>12 DEF Closed, Stop, ClockTicks, histVars
  <2>3. ASSUME dropped = 0, mode # "crashed"
        PROVE  /\ OneRowEach'
               /\ \E x, y \in SUBSET Island :
                     HandLeads(x)' /\ Leads(queue', x, y) /\ Leads(outbox', y, watched')
    <3>1. PICK x \in SUBSET Island, y \in SUBSET Island :
             HandLeads(x) /\ Leads(queue, x, y) /\ Leads(outbox, y, watched)
      BY <2>3 DEF AlertsLead
    <3>2. HandLeads(x)' /\ OneRowEach'
      BY <2>1, <2>3, <3>1, SameHand DEF AlertsLead
    <3> QED BY <2>1, <3>1, <3>2
  <2> QED BY <2>1, <2>2, <2>3 DEF AlertsLead, Leads, Does
<1>13. CASE Crash
  BY <1>13 DEF Crash, AlertsLead
<1>14. ASSUME NEW commits \in 0..2, OpenStore(commits) PROVE AlertsLead'
  <2> SUFFICES ASSUME commits = 2 PROVE AlertsLead'
    BY <1>14 DEF OpenStore, AlertsLead
  <2>1. /\ outbox' = <<>> /\ queue' = <<>> /\ work' = <<>> /\ watched' = {}
        /\ alerts' = Cleared(Island, now) /\ now \in 1..MaxTime
    BY <1>14 DEF OpenStore, OrphansClosed, HistoryTypeOK
  <2>2. OpenAlerts' = {}
    <3>1. \A k \in OpenAlerts : alerts[k].island \in Island
      BY AlertRows DEF OpenAlerts
    <3> QED BY <2>1, <3>1, ClearedRows
  <2>3. Standing' = {} /\ OneRowEach'
    BY <2>2 DEF Standing, OneRowEach
  <2>4. HandLeads({})'
    BY <2>1, <2>3 DEF HandLeads
  <2>5. Leads(<<>>, {}, {}) /\ {} \in SUBSET Island
    BY LeadsEmpty
  <2>6. \E x, y \in SUBSET Island :
           HandLeads(x)' /\ Leads(queue', x, y) /\ Leads(outbox', y, watched')
    BY <2>1, <2>4, <2>5
  <2> QED BY <2>3, <2>6 DEF AlertsLead, Leads, Does
<1> QED BY <1>1, <1>2, <1>3, <1>4, <1>5, <1>6, <1>8, <1>9, <1>10, <1>11, <1>12, <1>13, <1>14
        DEF HistoryNext, Batcher

-----------------------------------------------------------------------------
(* Theorems *)

LEMMA InitHolds == HistoryInit => HistoryInv
<1> SUFFICES ASSUME HistoryInit PROVE HistoryInv
  OBVIOUS
<1>1. /\ mode = "up" /\ outbox = <<>> /\ queue = <<>> /\ pending = <<>> /\ work = <<>>
      /\ watched = {} /\ sessionUp = FALSE /\ sessionID = 0 /\ dropped = 0 /\ lastErr = FALSE
      /\ lastSample = 0 /\ sessions = <<>> /\ islands = {} /\ samples = {} /\ alerts = <<>>
      /\ said = 0 /\ written = <<>> /\ since = 0 /\ now = 1 /\ opens = 1
  BY DEF HistoryInit
<1>2. HistoryTypeOK
  <2>1. /\ outbox \in Seq(Event) /\ queue \in Seq(Event) /\ pending \in Seq(Event)
        /\ work \in Seq(Write) /\ written \in Seq(1..MaxEvents)
        /\ sessions \in Seq([start : 1..MaxTime, end : 0..MaxTime, n : 1..MaxEvents])
        /\ alerts \in Seq([island : Island, raised : 1..MaxTime, cleared : 0..MaxTime])
        /\ Len(queue) = 0 /\ Len(pending) = 0
    BY <1>1, EmptyFacts
  <2>2. /\ 0 <= QueueSize /\ 0 <= BatchSize /\ 0 \in 0..MaxTime /\ 0 \in 0..MaxEvents
        /\ 0 \in 0..said /\ now \in 1..MaxTime /\ opens \in 1..MaxOpens
    BY <1>1, IslandFacts
  <2> QED BY <1>1, <2>1, <2>2 DEF HistoryTypeOK, Write
<1>3. RunInv
  BY <1>1, EmptyFacts, IslandFacts
     DEF RunInv, FullIsFlushed, StartAfterEnd, SessionOwned, OpenSessions, WayDown
<1>4. OwnSerials /\ AnchorIsCommitted
  BY <1>1, EmptyFacts DEF OwnSerials, Own, AnchorIsCommitted
<1>5. SnapshotFirst
  BY <1>1, EmptyFacts DEF SnapshotFirst, WorkFound, QueueFound, OutboxFound
<1>6. OneInHand /\ InHand = <<>>
  BY <1>1, EmptyFacts DEF OneInHand, InHand
<1>7. Serials(<<>>) = <<>> /\ \A lo, hi : Between(<<>>, lo, hi)
  BY EmptyFacts, BetweenEmpty DEF Serials
<1>8. InOrder
  <2>1. Marked(0, 0, 0, 0)
    BY <1>1, <1>6, <1>7 DEF Marked
  <2> QED BY <2>1, IslandFacts DEF InOrder
<1>9. LossesAreCounted
  <2>1. Kept = <<>> \o <<>> \o <<>> \o <<>> \o <<>>
    BY <1>1, <1>6, <1>7 DEF Kept
  <2>2. Len(Kept) = 0
    BY <2>1
  <2> QED BY <1>1, <2>2 DEF LossesAreCounted
<1>10. AlertsLead
  <2>1. OpenAlerts = {}
    BY <1>1, EmptyFacts DEF OpenAlerts
  <2>2. Standing = {} /\ OneRowEach
    BY <2>1 DEF Standing, OneRowEach
  <2>3. HandLeads({}) /\ Leads(<<>>, {}, {}) /\ {} \in SUBSET Island
    BY <1>1, <2>2, LeadsEmpty DEF HandLeads
  <2> QED BY <1>1, <2>2, <2>3 DEF AlertsLead
<1> QED BY <1>2, <1>3, <1>4, <1>5, <1>6, <1>8, <1>9, <1>10 DEF HistoryInv

LEMMA StepHolds == HistoryInv /\ [HistoryNext]_histVars => HistoryInv'
BY RunStep, SerialStep, AnchorStep, FoundStep, OrderStep, LeadStep DEF HistoryInv, RunInv

LEMMA InvHolds == HistorySpec => []HistoryInv
BY InitHolds, StepHolds, PTL DEF HistorySpec

(***************************************************************************)
(* Type correctness: no batch outgrows batchSize (batch.go:164-166), no    *)
(* queue its channel (batch.go:53), and a session that is up has its row   *)
(* (batch.go:224-243).                                                     *)
(***************************************************************************)
THEOREM HistoryTypeCorrect == HistorySpec => []HistoryTypeOK
BY InvHolds, PTL DEF HistoryInv

(***************************************************************************)
(* After Run has returned, nothing handed over is still in the queue or    *)
(* the batch, and no session is open unless a write failed                 *)
(* (batch.go:133-146), however events, ticks and failures fell before.     *)
(***************************************************************************)
THEOREM ShutdownIsComplete == HistorySpec => []ShutdownLeavesNothing
<1>1. HistoryInv => ShutdownLeavesNothing
  BY DEF HistoryInv, RunInv, WayDown, SessionOwned, ShutdownLeavesNothing
<1> QED BY <1>1, InvHolds, PTL

(***************************************************************************)
(* The retention anchor is the newest sample this process has committed    *)
(* (store.go:36-42), whichever rows a later snapshot of the same time has  *)
(* replaced and whatever an earlier process left.                          *)
(***************************************************************************)
THEOREM AnchorAlwaysCommitted == HistorySpec => []AnchorIsCommitted
BY InvHolds, PTL DEF HistoryInv

(***************************************************************************)
(* A raised alert finds the row of its island (batch.go:109-111) as long   *)
(* as nothing was lost: the flush before it has written the snapshot that  *)
(* caused it, wherever the batches were cut.                               *)
(***************************************************************************)
THEOREM AlertsFindTheirIsland == HistorySpec => []AlertHasItsIsland
<1>1. ASSUME HistoryInv, work # <<>>, Head(work).op = "raised", dropped = 0
      PROVE  Head(work).island \in islands
  <2>1. 1 \in DOMAIN work /\ Head(work) = work[1]
    BY <1>1, Done DEF HistoryInv
  <2> QED BY <1>1, <2>1 DEF HistoryInv, SnapshotFirst, WorkFound
<1>2. HistoryInv => AlertHasItsIsland
  BY <1>1 DEF AlertHasItsIsland
<1> QED BY <1>2, InvHolds, PTL

(***************************************************************************)
(* No event overtakes another on its way to the database (batch.go:37-40), *)
(* whatever is batched, dropped or fails, for any queue and batch size.    *)
(***************************************************************************)
THEOREM EventsKeepTheirOrder == HistorySpec => []ArrivalOrder
<1>1. ASSUME HistoryInv PROVE ArrivalOrder
  <2>1. PICK a \in 0..MaxEvents, b \in 0..MaxEvents, c \in 0..MaxEvents, d \in 0..MaxEvents :
           Marked(a, b, c, d)
    BY <1>1 DEF HistoryInv, InOrder
  <2>2. /\ written \in Seq(Nat) /\ Serials(pending) \in Seq(Nat) /\ InHand \in Seq(Nat)
        /\ Serials(queue) \in Seq(Nat) /\ Serials(outbox) \in Seq(Nat)
        /\ {0, a, b, c, d, said} \subseteq Nat /\ 0 <= a /\ 0 <= b /\ 0 <= c /\ 0 <= d
        /\ a <= b /\ b <= c /\ c <= d /\ d <= said
    BY <1>1, <2>1, Places DEF HistoryInv, Marked
  <2> DEFINE w2 == written \o Serials(pending)
             w3 == w2 \o InHand
             w4 == w3 \o Serials(queue)
  <2>3. w2 \in Seq(Nat) /\ Between(w2, 0, b)
    BY <2>1, <2>2, BetweenConcat DEF Marked
  <2> HIDE DEF w2
  <2>4. w3 \in Seq(Nat) /\ Between(w3, 0, c)
    BY <2>1, <2>2, <2>3, BetweenConcat DEF Marked
  <2> HIDE DEF w3
  <2>5. w4 \in Seq(Nat) /\ Between(w4, 0, d)
    BY <2>1, <2>2, <2>4, BetweenConcat DEF Marked
  <2> HIDE DEF w4
  <2>6. /\ w4 \o Serials(outbox) \in Seq(Nat)
        /\ Between(w4 \o Serials(outbox), 0, said)
    BY <2>1, <2>2, <2>5, BetweenConcat DEF Marked
  <2>7. Kept = w4 \o Serials(outbox)
    BY DEF Kept, w4, w3, w2
  <2>8. ASSUME NEW k \in 1..Len(Kept) - 1 PROVE Kept[k] < Kept[k + 1]
    <3>1. DOMAIN Kept = 1..Len(Kept) /\ Len(Kept) \in Nat
      BY <2>6, <2>7
    <3>2. k \in DOMAIN Kept /\ k + 1 \in DOMAIN Kept /\ k < k + 1
      BY <3>1
    <3> QED BY <2>6, <2>7, <3>2 DEF Between
  <2> QED BY <2>8 DEF ArrivalOrder
<1> QED BY <1>1, InvHolds, PTL

(***************************************************************************)
(* Dropped (batch.go:129) never understates the loss: events that are not  *)
(* in the database or on their way there have been counted.                *)
(***************************************************************************)
THEOREM LossesAlwaysCounted == HistorySpec => []LossesAreCounted
BY InvHolds, PTL DEF HistoryInv

(***************************************************************************)
(* "A row with no end time always means 'this process owns it'"            *)
(* (store.go:48-49): without a failed write the one open session is the    *)
(* batcher's, and when nothing is on its way or lost, the open alert rows  *)
(* are the engine's alerts, one row each, whatever crashed before.         *)
(***************************************************************************)
THEOREM OpenRowsHaveAnOwner == HistorySpec => []OpenRowsAreOwned
<1>1. ASSUME HistoryInv PROVE OpenRowsAreOwned
  <2> SUFFICES ASSUME mode \in {"up", "stopping", "closing"}
               PROVE  /\ ~lastErr => OpenSessions = IF sessionUp THEN {sessionID} ELSE {}
                      /\ (dropped = 0 /\ outbox = <<>> /\ queue = <<>> /\ work = <<>>) =>
                            /\ {alerts[k].island : k \in OpenAlerts} = watched
                            /\ Cardinality(OpenAlerts) = Cardinality(watched)
    BY DEF OpenRowsAreOwned
  <2>1. ~lastErr => OpenSessions = IF sessionUp THEN {sessionID} ELSE {}
    BY <1>1 DEF HistoryInv, RunInv, SessionOwned
  <2>2. ASSUME dropped = 0, outbox = <<>>, queue = <<>>, work = <<>>
        PROVE  /\ {alerts[k].island : k \in OpenAlerts} = watched
               /\ Cardinality(OpenAlerts) = Cardinality(watched)
    <3>1. PICK x \in SUBSET Island, y \in SUBSET Island :
             HandLeads(x) /\ Leads(queue, x, y) /\ Leads(outbox, y, watched)
      BY <1>1, <2>2 DEF HistoryInv, AlertsLead
    <3>2. Standing = watched
      BY <1>1, <2>2, <3>1, LeadsEmpty, StandingType DEF HistoryInv, HandLeads
    <3>3. OneRowEach
      BY <1>1, <2>2 DEF HistoryInv, AlertsLead
    <3> DEFINE f == [k \in OpenAlerts |-> alerts[k].island]
    <3>4. f \in [OpenAlerts -> watched]
      BY <3>2 DEF Standing
    <3>5. \A j, k \in OpenAlerts : f[j] = f[k] => j = k
      BY <3>3 DEF OneRowEach
    <3>6. \A i \in watched : \E k \in OpenAlerts : f[k] = i
      BY <3>2 DEF Standing
    <3> HIDE DEF f
    <3>7. ExistsBijection(OpenAlerts, watched)
      BY <3>4, <3>5, <3>6, Fun_IsBij DEF ExistsBijection
    <3>8. IsFiniteSet(OpenAlerts)
      <4>1. Len(alerts) \in Nat /\ OpenAlerts \in SUBSET (1..Len(alerts))
        BY <1>1 DEF HistoryInv, HistoryTypeOK, OpenAlerts
      <4>2. IsFiniteSet(1..Len(alerts))
        BY <4>1, FS_Interval
      <4> QED BY <4>1, <4>2, FS_Subset
    <3> QED BY <3>2, <3>7, <3>8, FS_Bijection DEF Standing
  <2> QED BY <2>1, <2>2
<1> QED BY <1>1, InvHolds, PTL
=============================================================================

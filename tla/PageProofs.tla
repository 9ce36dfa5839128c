----------------------------- MODULE PageProofs ------------------------------
(***************************************************************************)
(* Proofs about the page's store, for any play: any islands, any number of *)
(* streams, lost events, failed fetches and changes.                       *)
(***************************************************************************)
EXTENDS PageStore, FiniteSetTheorems, TLAPS

\* What a call of resyncIslands leaves behind.
LEMMA ResyncAsked ==
    ASSUME ResyncIslands
    PROVE  /\ resync' # Idle
           /\ resync # Idle => again'
<1>1. Asked # Idle
  <2>1. Asked.at = "asked" /\ Idle.at = "idle"
    BY DEF Asked, Idle
  <2> QED BY <2>1
<1> QED BY <1>1 DEF ResyncIslands

\* An open that goes on to its resync keeps a repeat that is owed.
LEMMA AfterStatusKeeps ==
    ASSUME RepeatIsComing, NEW l, AfterStatus(l)
    PROVE  RepeatIsComing'
<1>1. CASE l = 0
  BY <1>1 DEF AfterStatus, RepeatIsComing, Idle
<1>2. CASE l # 0
  <2>1. ResyncIslands /\ owed' = (owed /\ resync # Idle)
    BY <1>2 DEF AfterStatus
  <2> QED BY <2>1, ResyncAsked DEF RepeatIsComing, Idle
<1> QED BY <1>1, <1>2

LEMMA EventKeeps ==
    ASSUME RepeatIsComing, OnEvent
    PROVE  RepeatIsComing'
<1>1. CASE UNCHANGED <<resync, again, owed>>
  BY <1>1 DEF RepeatIsComing, Idle
<1>2. CASE OnStatus(NextFrame)
  <2>1. CASE ResyncIslands /\ owed' = (resync # Idle)
    BY <2>1, ResyncAsked DEF RepeatIsComing, Idle
  <2> QED BY <1>1, <1>2, <2>1 DEF OnStatus
<1> QED BY <1>1, <1>2 DEF OnEvent, OnOpen, OnSnapshot, ApplyAlertEvent

LEMMA RepeatStep ==
    ASSUME RepeatIsComing, [PageNext]_vars
    PROVE  RepeatIsComing'
<1>1. CASE UNCHANGED <<resync, again, owed>>
  BY <1>1 DEF RepeatIsComing, Idle
<1>2. CASE ServeIslands
  <2>1. resync'.at = "answered" /\ Idle.at = "idle" /\ UNCHANGED <<again, owed>>
    BY <1>2 DEF ServeIslands, Idle
  <2>2. resync' # Idle
    BY <2>1
  <2> QED BY <2>1, <2>2 DEF RepeatIsComing, Idle
<1>3. CASE ApplyIslands
  BY <1>3 DEF ApplyIslands, RepeatIsComing
<1>4. CASE FailIslands
  BY <1>4 DEF FailIslands, RepeatIsComing
<1>5. ASSUME NEW l \in Load, ServeLoad(l) \/ ApplyLoad(l) \/ FailLoad(l)
      PROVE  RepeatIsComing'
  <2>1. CASE AfterStatus(l)
    BY <2>1, AfterStatusKeeps
  <2> QED BY <1>1, <1>5, <2>1 DEF ServeLoad, ApplyLoad, FailLoad
<1>6. CASE OnEvent
  BY <1>6, EventKeeps
<1> QED BY <1>1, <1>2, <1>3, <1>4, <1>5, <1>6 DEF PageNext, FetchStep, vars, pageVars, fetching

(***************************************************************************)
(* A resync asked for while one is in flight is served by one more round,  *)
(* for any number of statuses, opens, failures and orders of answers.      *)
(***************************************************************************)
THEOREM RepeatAlwaysComing == PageSpec => []RepeatIsComing
<1>1. PageInit => RepeatIsComing
  BY DEF PageInit, RepeatIsComing
<1> QED BY <1>1, RepeatStep, PTL DEF PageSpec

-----------------------------------------------------------------------------
(***************************************************************************)
(* What a stream holds: the invariant                                      *)
(***************************************************************************)
Item ==
    [op : {"put", "snapshot", "alert"}, island : play.isles, rev : Nat]
    \cup [op : {"apply"}, island : play.isles]
    \cup [op : {"status", "reset", "session", "clear"}]

Frame ==
    [ev : {"open"}]
    \cup [ev : {"status"}, session : Nat, linked : BOOLEAN, count : Nat]
    \cup [ev : {"snapshot", "alert"}, island : play.isles, rev : Nat]

GameTypeOK ==
    /\ play \in Plays
    /\ island \in [play.isles -> Nat] /\ alert \in [play.isles -> Nat]
    /\ session \in Nat /\ linked \in BOOLEAN /\ changes \in Nat
    /\ work \in Seq(Item)
    /\ notice \in [at : {"idle", "due", "rendering"}, session : Nat]

ClientTypeOK ==
    /\ client \in {"none", "session", "count", "islands", "alerts", "live"}
    /\ sending \in Seq(Frame) /\ queue \in Seq(Frame)
    /\ told \in [play.isles -> Nat] /\ toldAlert \in [play.isles -> Nat]

\* A snapshot is published right after it was put; the alerts of a batch are
\* published before anything else happens, each as it is.
WorkInv ==
    /\ \A k \in DOMAIN work : work[k].op = "snapshot" =>
           k = 1 /\ work[k].rev = island[work[k].island]
    /\ \A k \in DOMAIN work : work[k].op = "alert" =>
           /\ work[k].rev = alert[work[k].island]
           /\ \A l \in DOMAIN work : l < k => work[l].op = "alert"

\* The handler has sent nothing of what it has not read.
UnreadInv ==
    /\ client = "count" => sending # <<>> /\ sending[Len(sending)].ev = "status"
    /\ client \in {"session", "count", "islands"} =>
           \A i \in play.isles : Silent(sending, "snapshot", i)
    /\ client # "live" =>
           \A i \in play.isles : Silent(sending, "alert", i) /\ toldAlert[i] = 0

\* The pipeline still has a word on the island to publish.
Pending(ev, i) == \E k \in DOMAIN work : work[k].op = ev /\ work[k].island = i

\* What the catch-up has read ends with rev.
HasRead(ev, i, delivered, rev) ==
    \/ EndsWith(sending, ev, i, rev)
    \/ Silent(sending, ev, i) /\ delivered[i] = rev

\* The newest word is still to publish, or in the queue of the stream, or, where
\* the queue is silent, in what the catch-up has read or will read.
Word(ev, i, read, delivered, rev) ==
    \/ Pending(ev, i)
    \/ EndsWith(queue, ev, i, rev)
    \/ Silent(queue, ev, i) /\ (read => HasRead(ev, i, delivered, rev))

SnapshotWord(i) == Word("snapshot", i, client \in {"alerts", "live"}, told, island[i])

AlertWord(i) == Word("alert", i, client = "live", toldAlert, alert[i])

WordInv ==
    hub = "open" /\ client # "none" /\ ~lossy =>
        /\ \A i \in Present : SnapshotWord(i)
        /\ \A i \in play.isles : AlertWord(i)

StreamInv == GameTypeOK /\ ClientTypeOK /\ WorkInv /\ UnreadInv /\ WordInv

-----------------------------------------------------------------------------
(* Lists *)

\* A set listed by SetToSeq: its members once each, and nothing else.
LEMMA ListedSet ==
    ASSUME NEW S, IsFiniteSet(S)
    PROVE  /\ Cardinality(S) \in Nat
           /\ SetToSeq(S) \in [1..Cardinality(S) -> S] /\ IsInjective(SetToSeq(S))
           /\ \A t \in S : \E k \in 1..Cardinality(S) : SetToSeq(S)[k] = t
<1> DEFINE n == Cardinality(S)
<1>1. n \in Nat /\ ExistsBijection(1..n, S)
  BY FS_CardinalityType
<1>2. \E f \in [1..n -> S] : IsInjective(f)
  BY <1>1 DEF ExistsBijection, Bijection, Injection
<1>3. SetToSeq(S) \in [1..n -> S] /\ IsInjective(SetToSeq(S))
  BY <1>2 DEF SetToSeq
<1>4. SetToSeq(S) \in Injection(1..n, S)
  BY <1>3 DEF Injection
<1>5. ExistsBijection(1..n, 1..n)
  <2> DEFINE id == [k \in 1..n |-> k]
  <2>1. id \in Bijection(1..n, 1..n)
    BY DEF Bijection, Injection, Surjection, IsInjective
  <2> QED BY <2>1 DEF ExistsBijection
<1>6. Cardinality(1..n) = n
  BY <1>1, <1>5, FS_CountingElements
<1>7. SetToSeq(S) \in Surjection(1..n, S)
  <2> HIDE DEF n
  <2> QED BY <1>4, <1>6, FS_Injection DEF n
<1> QED BY <1>1, <1>3, <1>7 DEF Surjection

\* What a frame at the end of a list changes.
LEMMA AppendWord ==
    ASSUME NEW F, NEW s \in Seq(F), NEW f \in F, NEW ev, NEW i
    PROVE  /\ IsAbout(f, ev, i) => EndsWith(Append(s, f), ev, i, f.rev)
           /\ ~IsAbout(f, ev, i) =>
                  /\ Silent(s, ev, i) => Silent(Append(s, f), ev, i)
                  /\ \A rev : EndsWith(s, ev, i, rev) => EndsWith(Append(s, f), ev, i, rev)
<1> DEFINE t == Append(s, f)
<1>1. /\ DOMAIN s = 1..Len(s) /\ DOMAIN t = 1..Len(s) + 1 /\ Len(s) \in Nat
      /\ \A k \in DOMAIN s : t[k] = s[k]
      /\ t[Len(s) + 1] = f
  OBVIOUS
<1> HIDE DEF t
<1>2. ASSUME IsAbout(f, ev, i) PROVE EndsWith(t, ev, i, f.rev)
  <2>1. Len(s) + 1 \in DOMAIN t /\ \A l \in DOMAIN t : ~(Len(s) + 1 < l)
    BY <1>1
  <2> QED BY <1>1, <1>2, <2>1 DEF EndsWith
<1>3. ASSUME ~IsAbout(f, ev, i), Silent(s, ev, i) PROVE Silent(t, ev, i)
  <2> SUFFICES ASSUME NEW k \in DOMAIN t PROVE ~IsAbout(t[k], ev, i)
    BY DEF Silent
  <2>1. k \in DOMAIN s \/ k = Len(s) + 1
    BY <1>1
  <2> QED BY <1>1, <1>3, <2>1 DEF Silent
<1>4. ASSUME ~IsAbout(f, ev, i), NEW rev, EndsWith(s, ev, i, rev) PROVE EndsWith(t, ev, i, rev)
  <2>1. PICK k \in DOMAIN s : /\ IsAbout(s[k], ev, i) /\ s[k].rev = rev
                              /\ \A l \in DOMAIN s : k < l => ~IsAbout(s[l], ev, i)
    BY <1>4 DEF EndsWith
  <2>2. k \in DOMAIN t /\ t[k] = s[k]
    BY <1>1
  <2>3. ASSUME NEW l \in DOMAIN t, k < l PROVE ~IsAbout(t[l], ev, i)
    <3>1. l \in DOMAIN s \/ l = Len(s) + 1
      BY <1>1
    <3> QED BY <1>1, <1>4, <2>1, <2>3, <3>1
  <2> QED BY <2>1, <2>2, <2>3 DEF EndsWith
<1> QED BY <1>2, <1>3, <1>4 DEF t

\* What the frame taken from a list leaves.
LEMMA TailWord ==
    ASSUME NEW F, NEW s \in Seq(F), s # <<>>, NEW ev, NEW i
    PROVE  /\ Silent(s, ev, i) => Silent(Tail(s), ev, i) /\ ~IsAbout(Head(s), ev, i)
           /\ \A rev : EndsWith(s, ev, i, rev) =>
                  \/ EndsWith(Tail(s), ev, i, rev)
                  \/ /\ Silent(Tail(s), ev, i)
                     /\ IsAbout(Head(s), ev, i) /\ Head(s).rev = rev
<1> DEFINE t == Tail(s)
<1>1. /\ DOMAIN s = 1..Len(s) /\ Len(s) \in Nat \ {0} /\ DOMAIN t = 1..Len(s) - 1
      /\ \A k \in 1..Len(s) - 1 : t[k] = s[k + 1]
      /\ Head(s) = s[1]
  OBVIOUS
<1> HIDE DEF t
<1>2. \A k \in DOMAIN t : k + 1 \in DOMAIN s /\ t[k] = s[k + 1]
  BY <1>1
<1>3. ASSUME Silent(s, ev, i) PROVE Silent(t, ev, i) /\ ~IsAbout(Head(s), ev, i)
  <2>1. 1 \in DOMAIN s
    BY <1>1
  <2> QED BY <1>1, <1>2, <1>3, <2>1 DEF Silent
<1>4. ASSUME NEW rev, EndsWith(s, ev, i, rev)
      PROVE  \/ EndsWith(t, ev, i, rev)
             \/ Silent(t, ev, i) /\ IsAbout(Head(s), ev, i) /\ Head(s).rev = rev
  <2>1. PICK k \in DOMAIN s : /\ IsAbout(s[k], ev, i) /\ s[k].rev = rev
                              /\ \A l \in DOMAIN s : k < l => ~IsAbout(s[l], ev, i)
    BY <1>4 DEF EndsWith
  <2>2. CASE k = 1
    <3>1. \A l \in DOMAIN t : k < l + 1
      BY <1>1, <2>2
    <3>2. Silent(t, ev, i)
      BY <1>2, <2>1, <3>1 DEF Silent
    <3> QED BY <1>1, <2>1, <2>2, <3>2
  <2>3. CASE k # 1
    <3>1. k - 1 \in DOMAIN t /\ t[k - 1] = s[k]
      BY <1>1, <2>3
    <3>2. \A l \in DOMAIN t : k - 1 < l => k < l + 1
      BY <1>1
    <3>3. \A l \in DOMAIN t : k - 1 < l => ~IsAbout(t[l], ev, i)
      BY <1>2, <2>1, <3>2
    <3> QED BY <2>1, <3>1, <3>3 DEF EndsWith
  <2> QED BY <2>2, <2>3
<1> QED BY <1>3, <1>4 DEF t

LEMMA ConcatFacts ==
    ASSUME NEW F, NEW s \in Seq(F), NEW t \in Seq(F)
    PROVE  /\ s \o t \in Seq(F)
           /\ DOMAIN s = 1..Len(s) /\ Len(s) \in Nat
           /\ DOMAIN t = 1..Len(t) /\ Len(t) \in Nat
           /\ DOMAIN (s \o t) = 1..Len(s) + Len(t)
           /\ \A k \in 1..Len(s) : (s \o t)[k] = s[k]
           /\ \A k \in 1..Len(t) : (s \o t)[Len(s) + k] = t[k]
  OBVIOUS

\* What a list put behind another changes.
LEMMA ConcatWord ==
    ASSUME NEW F, NEW s \in Seq(F), NEW t \in Seq(F), NEW ev, NEW i
    PROVE  /\ Silent(s, ev, i) /\ Silent(t, ev, i) => Silent(s \o t, ev, i)
           /\ \A rev : EndsWith(t, ev, i, rev) => EndsWith(s \o t, ev, i, rev)
           /\ \A rev : EndsWith(s, ev, i, rev) /\ Silent(t, ev, i)
                          => EndsWith(s \o t, ev, i, rev)
<1> DEFINE u == s \o t
<1>1. /\ DOMAIN s = 1..Len(s) /\ Len(s) \in Nat
      /\ DOMAIN t = 1..Len(t) /\ Len(t) \in Nat
      /\ DOMAIN u = 1..Len(s) + Len(t)
      /\ \A k \in 1..Len(s) : u[k] = s[k]
      /\ \A k \in 1..Len(t) : u[Len(s) + k] = t[k]
  BY ConcatFacts
<1> HIDE DEF u
<1>2. ASSUME NEW k \in DOMAIN u
      PROVE  \/ k \in DOMAIN s /\ u[k] = s[k]
             \/ k - Len(s) \in DOMAIN t /\ u[k] = t[k - Len(s)] /\ k \in Nat /\ k > Len(s)
  <2>1. CASE k \in DOMAIN s
    BY <1>1, <2>1
  <2>2. CASE k \notin DOMAIN s
    <3>1. k - Len(s) \in 1..Len(t) /\ Len(s) + (k - Len(s)) = k /\ k > Len(s) /\ k \in Nat
      BY <1>1, <2>2
    <3> QED BY <1>1, <3>1
  <2> QED BY <2>1, <2>2
<1>3. ASSUME Silent(s, ev, i), Silent(t, ev, i) PROVE Silent(u, ev, i)
  BY <1>2, <1>3 DEF Silent
<1>4. ASSUME NEW rev, EndsWith(t, ev, i, rev) PROVE EndsWith(u, ev, i, rev)
  <2>1. PICK k \in DOMAIN t : /\ IsAbout(t[k], ev, i) /\ t[k].rev = rev
                              /\ \A l \in DOMAIN t : k < l => ~IsAbout(t[l], ev, i)
    BY <1>4 DEF EndsWith
  <2>2. Len(s) + k \in DOMAIN u /\ u[Len(s) + k] = t[k]
    BY <1>1
  <2>3. ASSUME NEW l \in DOMAIN u, Len(s) + k < l PROVE ~IsAbout(u[l], ev, i)
    <3>1. l \notin DOMAIN s /\ k < l - Len(s)
      BY <1>1, <2>3
    <3>2. l - Len(s) \in DOMAIN t /\ u[l] = t[l - Len(s)]
      BY <1>2, <3>1
    <3> QED BY <2>1, <3>1, <3>2
  <2> QED BY <2>1, <2>2, <2>3 DEF EndsWith
<1>5. ASSUME NEW rev, EndsWith(s, ev, i, rev), Silent(t, ev, i) PROVE EndsWith(u, ev, i, rev)
  <2>1. PICK k \in DOMAIN s : /\ IsAbout(s[k], ev, i) /\ s[k].rev = rev
                              /\ \A l \in DOMAIN s : k < l => ~IsAbout(s[l], ev, i)
    BY <1>5 DEF EndsWith
  <2>2. k \in DOMAIN u /\ u[k] = s[k]
    BY <1>1
  <2>3. ASSUME NEW l \in DOMAIN u, k < l PROVE ~IsAbout(u[l], ev, i)
    BY <1>2, <1>5, <2>1, <2>3 DEF Silent
  <2> QED BY <2>1, <2>2, <2>3 DEF EndsWith
<1> QED BY <1>3, <1>4, <1>5 DEF u

-----------------------------------------------------------------------------
(* The pipeline's steps *)

LEMMA PlayFacts ==
    ASSUME GameTypeOK
    PROVE  /\ IsFiniteSet(play.isles) /\ IsFiniteSet(Present)
           /\ Cardinality(Present) \in Nat
           /\ Zero \in [play.isles -> Nat]
<1>1. IsFiniteSet(play.isles)
  BY PlayAssumption DEF GameTypeOK
<1>2. Present \subseteq play.isles
  BY DEF Present
<1>3. IsFiniteSet(Present)
  BY <1>1, <1>2, FS_Subset
<1>4. Zero \in [play.isles -> Nat]
  BY DEF Zero
<1> QED BY <1>1, <1>3, <1>4, FS_CardinalityType

\* Nothing is pending while the pipeline does something else.
LEMMA NothingPending ==
    ASSUME GameTypeOK, WorkInv, work = <<>> \/ Head(work).op \notin {"snapshot", "alert"}
    PROVE  /\ \A k \in DOMAIN work : work[k].op \notin {"snapshot", "alert"}
           /\ \A i : ~Pending("snapshot", i) /\ ~Pending("alert", i)
<1>1. ASSUME NEW k \in DOMAIN work PROVE work[k].op \notin {"snapshot", "alert"}
  <2>1. /\ k \in Nat /\ k > 0 /\ work # <<>> /\ 1 \in DOMAIN work /\ Head(work) = work[1]
    BY DEF GameTypeOK
  <2>2. k = 1 \/ 1 < k
    BY <2>1
  <2> QED BY <2>1, <2>2 DEF WorkInv
<1> QED BY <1>1 DEF Pending

\* What is left after the pipeline's next piece of work.
LEMMA RestOfWork ==
    ASSUME GameTypeOK, WorkInv, work # <<>>
    PROVE  /\ Head(work) \in Item /\ Head(work) = work[1] /\ 1 \in DOMAIN work
           /\ Tail(work) \in Seq(Item)
           /\ \A k \in DOMAIN Tail(work) :
                  k + 1 \in DOMAIN work /\ Tail(work)[k] = work[k + 1] /\ k + 1 # 1
           /\ \A k \in DOMAIN work : k # 1 => k - 1 \in DOMAIN Tail(work)
                                              /\ Tail(work)[k - 1] = work[k]
           /\ \A k \in DOMAIN Tail(work) :
                  /\ Tail(work)[k].op # "snapshot"
                  /\ Tail(work)[k].op = "alert" =>
                       /\ Tail(work)[k].rev = alert[Tail(work)[k].island]
                       /\ \A l \in DOMAIN Tail(work) : l < k => Tail(work)[l].op = "alert"
<1>1. work \in Seq(Item)
  BY DEF GameTypeOK
<1>2. /\ DOMAIN work = 1..Len(work) /\ Len(work) \in Nat \ {0}
      /\ Tail(work) \in Seq(Item) /\ DOMAIN Tail(work) = 1..Len(work) - 1
      /\ \A k \in 1..Len(work) - 1 : Tail(work)[k] = work[k + 1]
      /\ Head(work) \in Item /\ Head(work) = work[1]
  <2> HIDE DEF Item
  <2> QED BY <1>1
<1>3. /\ \A k \in DOMAIN Tail(work) : k + 1 \in DOMAIN work /\ k + 1 # 1 /\ Tail(work)[k] = work[k + 1]
      /\ \A k \in DOMAIN work : k # 1 => k - 1 \in DOMAIN Tail(work) /\ (k - 1) + 1 = k
      /\ \A k, l \in DOMAIN Tail(work) : l < k => l + 1 < k + 1
  <2> HIDE DEF Item
  <2> QED BY <1>2
<1>4. \A k \in DOMAIN work : k # 1 => Tail(work)[k - 1] = work[k]
  BY <1>3
<1>5. ASSUME NEW k \in DOMAIN Tail(work)
      PROVE  /\ Tail(work)[k].op # "snapshot"
             /\ Tail(work)[k].op = "alert" =>
                  /\ Tail(work)[k].rev = alert[Tail(work)[k].island]
                  /\ \A l \in DOMAIN Tail(work) : l < k => Tail(work)[l].op = "alert"
  BY <1>3 DEF WorkInv
<1> QED BY <1>2, <1>3, <1>4, <1>5

\* A step that leaves the stream alone keeps what holds of it.
LEMMA GameStep ==
    ASSUME StreamInv, UNCHANGED <<play, stream>>, GameTypeOK', WorkInv',
           \A i \in play.isles :
               /\ island'[i] # 0 => island'[i] = island[i] \/ Pending("snapshot", i)'
               /\ Pending("snapshot", i) => Pending("snapshot", i)' \/ island'[i] = 0
               /\ alert'[i] = alert[i] \/ Pending("alert", i)'
               /\ Pending("alert", i) => Pending("alert", i)'
    PROVE  StreamInv'
<1>1. UNCHANGED <<play, hub, client, sending, queue, lossy, told, toldAlert>>
  BY DEF stream
<1>2. ClientTypeOK' /\ UnreadInv'
  BY <1>1 DEF StreamInv, ClientTypeOK, UnreadInv, Silent, Frame
<1>3. ASSUME hub' = "open" /\ client' # "none" /\ ~lossy', NEW i \in Present'
      PROVE  SnapshotWord(i)'
  <2>1. i \in play.isles /\ island'[i] # 0
    BY <1>1 DEF Present
  <2>2. CASE Pending("snapshot", i)'
    BY <2>2 DEF SnapshotWord, Word
  <2>3. CASE ~Pending("snapshot", i)'
    <3>1. island'[i] = island[i] /\ ~Pending("snapshot", i) /\ i \in Present
      BY <2>1, <2>3 DEF Present
    <3>2. SnapshotWord(i)
      BY <1>1, <1>3, <3>1 DEF StreamInv, WordInv
    <3> QED BY <1>1, <3>1, <3>2 DEF SnapshotWord, Word, HasRead, EndsWith, Silent
  <2> QED BY <2>2, <2>3
<1>4. ASSUME hub' = "open" /\ client' # "none" /\ ~lossy', NEW i \in play'.isles
      PROVE  AlertWord(i)'
  <2>1. i \in play.isles
    BY <1>1
  <2>2. CASE Pending("alert", i)'
    BY <2>2 DEF AlertWord, Word
  <2>3. CASE ~Pending("alert", i)'
    <3>1. alert'[i] = alert[i] /\ ~Pending("alert", i)
      BY <2>1, <2>3
    <3>2. AlertWord(i)
      BY <1>1, <1>4, <2>1 DEF StreamInv, WordInv
    <3> QED BY <1>1, <3>1, <3>2 DEF AlertWord, Word, HasRead, EndsWith, Silent
  <2> QED BY <2>2, <2>3
<1>5. WordInv'
  BY <1>3, <1>4 DEF WordInv
<1> QED BY <1>2, <1>5 DEF StreamInv

LEMMA TickKeeps ==
    ASSUME StreamInv, NEW fresh \in SUBSET play.isles, Tick(fresh)
    PROVE  StreamInv'
<1> DEFINE isles == Present \cup fresh
           rev == [i \in play.isles |-> IF i \in fresh THEN changes + 2 ELSE island[i]]
<1>1. GameTypeOK /\ WorkInv /\ work = <<>>
  BY DEF StreamInv, Tick
<1>2. isles \subseteq play.isles /\ IsFiniteSet(isles)
  <2>1. isles \subseteq play.isles
    BY DEF Present
  <2> QED BY <1>1, <2>1, PlayFacts, FS_Subset
<1>3. rev \in [play.isles -> Nat]
  BY <1>1 DEF GameTypeOK
<1>4. work' = TickWork(isles, rev) /\ changes' \in Nat
      /\ UNCHANGED <<play, island, session, linked, alert, notice, stream>>
  BY <1>1 DEF Tick, GameTypeOK
<1> HIDE DEF isles, rev
<1>5. Cardinality(isles) \in Nat /\ SetToSeq(isles) \in [1..Cardinality(isles) -> isles]
  BY <1>2, ListedSet
<1>6. /\ DOMAIN work' = 1..Cardinality(isles)
      /\ \A k \in DOMAIN work' :
             work'[k] \in [op : {"put", "snapshot", "alert"}, island : play.isles, rev : Nat]
             /\ work'[k].op = "put"
  BY <1>2, <1>3, <1>4, <1>5 DEF TickWork
<1>7. work' \in Seq(Item)
  <2>1. \A k \in DOMAIN work' : work'[k] \in Item
    BY <1>6 DEF Item
  <2>2. work' = [k \in 1..Cardinality(isles) |-> work'[k]]
    BY <1>4 DEF TickWork
  <2> HIDE DEF Item
  <2> QED BY <1>5, <1>6, <2>1, <2>2
<1>8. GameTypeOK'
  BY <1>1, <1>4, <1>7 DEF GameTypeOK, Item
<1>9. WorkInv'
  BY <1>6 DEF WorkInv
<1>10. \A i : ~Pending("snapshot", i) /\ ~Pending("alert", i)
  BY <1>1, NothingPending
<1> QED BY <1>4, <1>8, <1>9, <1>10, GameStep

\* The work of a session's start or end is known as it is written.
LEMMA SessionKeeps ==
    ASSUME StreamInv, SessionStart \/ SessionEnd
    PROVE  StreamInv'
<1>1. GameTypeOK /\ WorkInv /\ work = <<>>
  BY DEF StreamInv, SessionStart, SessionEnd
<1>2. /\ changes' \in Nat
      /\ UNCHANGED <<play, island, session, linked, alert, notice, stream>>
  BY <1>1 DEF SessionStart, SessionEnd, GameTypeOK
<1>3. PICK reset \in Item, begin \in Item, clear \in Item, say \in Item :
          /\ reset.op = "reset" /\ begin.op = "session" /\ clear.op = "clear" /\ say.op = "status"
          /\ work' = <<reset, begin, clear, say>> \/ work' = <<reset, clear, say>>
  <2>1. \A op \in {"reset", "session", "clear", "status"} : [op |-> op] \in Item
    BY DEF Item
  <2>2. [op |-> "reset"] \in Item /\ [op |-> "session"] \in Item
        /\ [op |-> "clear"] \in Item /\ [op |-> "status"] \in Item
    BY <2>1
  <2> QED BY <2>2 DEF SessionStart, SessionEnd
<1>4. /\ work' \in Seq(Item)
      /\ \A k \in DOMAIN work' : work'[k].op \notin {"snapshot", "alert"}
  <2> HIDE DEF Item
  <2>1. CASE work' = <<reset, begin, clear, say>>
    <3>1. DOMAIN work' = 1..4 /\ work' \in Seq(Item)
      BY <2>1
    <3>2. ASSUME NEW k \in 1..4 PROVE work'[k].op \notin {"snapshot", "alert"}
      <4>1. k = 1 \/ k = 2 \/ k = 3 \/ k = 4
        OBVIOUS
      <4> QED BY <1>3, <2>1, <4>1
    <3> QED BY <3>1, <3>2
  <2>2. CASE work' = <<reset, clear, say>>
    <3>1. DOMAIN work' = 1..3 /\ work' \in Seq(Item)
      BY <2>2
    <3>2. ASSUME NEW k \in 1..3 PROVE work'[k].op \notin {"snapshot", "alert"}
      <4>1. k = 1 \/ k = 2 \/ k = 3
        OBVIOUS
      <4> QED BY <1>3, <2>2, <4>1
    <3> QED BY <3>1, <3>2
  <2> QED BY <1>3, <2>1, <2>2
<1>5. GameTypeOK'
  BY <1>1, <1>2, <1>4 DEF GameTypeOK, Item
<1>6. WorkInv'
  BY <1>4 DEF WorkInv
<1>7. \A i : ~Pending("snapshot", i) /\ ~Pending("alert", i)
  BY <1>1, NothingPending
<1> QED BY <1>2, <1>5, <1>6, <1>7, GameStep

\* Work put before the rest of the pipeline's work.
LEMMA WorkBefore ==
    ASSUME GameTypeOK, WorkInv, work # <<>>,
           NEW first \in Seq(Item), work' = first \o Tail(work), play' = play
    PROVE  /\ work' \in Seq(Item)' /\ Len(first) \in Nat /\ DOMAIN first = 1..Len(first)
           /\ \A k \in DOMAIN first : k \in DOMAIN work' /\ work'[k] = first[k]
           /\ \A k \in DOMAIN work' :
                  \/ k \in DOMAIN first /\ work'[k] = first[k]
                  \/ /\ k \notin DOMAIN first /\ k \in Nat /\ k > Len(first)
                     /\ k - Len(first) \in DOMAIN Tail(work)
                     /\ work'[k] = Tail(work)[k - Len(first)]
<1>1. Tail(work) \in Seq(Item)
  BY RestOfWork
<1>2. Item' = Item
  BY DEF Item
<1> HIDE DEF Item
<1>3. PICK rest \in Seq(Item) : rest = Tail(work)
  BY <1>1
<1>4. work' = first \o rest
  BY <1>3
<1>5. /\ work' \in Seq(Item) /\ Len(first) \in Nat /\ DOMAIN first = 1..Len(first)
      /\ Len(rest) \in Nat /\ DOMAIN rest = 1..Len(rest)
      /\ DOMAIN work' = 1..Len(first) + Len(rest)
      /\ \A k \in 1..Len(first) : work'[k] = first[k]
      /\ \A k \in 1..Len(rest) : work'[Len(first) + k] = rest[k]
  <2>1. /\ first \o rest \in Seq(Item) /\ Len(first) \in Nat /\ DOMAIN first = 1..Len(first)
        /\ Len(rest) \in Nat /\ DOMAIN rest = 1..Len(rest)
        /\ DOMAIN (first \o rest) = 1..Len(first) + Len(rest)
        /\ \A k \in 1..Len(first) : (first \o rest)[k] = first[k]
        /\ \A k \in 1..Len(rest) : (first \o rest)[Len(first) + k] = rest[k]
    BY ConcatFacts
  <2> QED BY <1>4, <2>1, Zenon
<1>6. ASSUME NEW k \in DOMAIN work', k \notin DOMAIN first
      PROVE  /\ k \in Nat /\ k > Len(first) /\ k - Len(first) \in DOMAIN rest
             /\ work'[k] = rest[k - Len(first)]
  <2>1. k \in Nat /\ k > Len(first) /\ k - Len(first) \in 1..Len(rest)
        /\ Len(first) + (k - Len(first)) = k
    BY <1>5, <1>6
  <2> QED BY <1>5, <2>1
<1>7. \A k \in DOMAIN first : k \in DOMAIN work'
  BY <1>5
<1> QED BY <1>2, <1>3, <1>5, <1>6, <1>7

LEMMA PutKeeps ==
    ASSUME StreamInv, Put
    PROVE  StreamInv'
<1>1. GameTypeOK /\ WorkInv /\ work # <<>> /\ Head(work).op = "put"
  BY DEF StreamInv, Put, Doing
<1>2. Head(work) \in Item
  BY <1>1, RestOfWork
<1>3. Head(work).island \in play.isles /\ Head(work).rev \in Nat
  BY <1>1, <1>2 DEF Item
<1>4. PICK i \in play.isles, rev \in Nat : i = Head(work).island /\ rev = Head(work).rev
  BY <1>3
<1> DEFINE first == <<[op |-> "snapshot", island |-> i, rev |-> rev], [op |-> "status"],
                      [op |-> "apply", island |-> i]>>
<1>5. /\ work' = first \o Tail(work) /\ island' = [island EXCEPT ![i] = rev]
      /\ UNCHANGED <<play, session, linked, alert, notice, changes, stream>>
  BY <1>4 DEF Put
<1>6. first[1] \in Item /\ first[2] \in Item /\ first[3] \in Item
  BY DEF Item
<1>7. first \in Seq(Item) /\ Len(first) = 3
  <2> HIDE DEF Item
  <2> QED BY <1>6
<1>8. first[1].op = "snapshot" /\ first[1].island = i /\ first[1].rev = rev
      /\ first[2].op = "status" /\ first[3].op = "apply"
  OBVIOUS
<1> HIDE DEF first
<1>9. /\ work' \in Seq(Item)'
      /\ \A k \in DOMAIN first : k \in DOMAIN work' /\ work'[k] = first[k]
      /\ \A k \in DOMAIN work' :
             \/ k \in DOMAIN first /\ work'[k] = first[k]
             \/ k - Len(first) \in DOMAIN Tail(work) /\ work'[k] = Tail(work)[k - Len(first)]
  BY <1>1, <1>5, <1>7, WorkBefore
<1>10. DOMAIN first = 1..3
  <2> HIDE DEF Item
  <2> QED BY <1>7
<1>11. \A k \in DOMAIN Tail(work) : Tail(work)[k].op \notin {"snapshot", "alert"}
  BY <1>1, RestOfWork, NothingPending
<1>12. \A k \in DOMAIN work' : \/ k = 1 /\ work'[k] = first[1]
                               \/ work'[k].op \notin {"snapshot", "alert"}
  <2> SUFFICES ASSUME NEW k \in DOMAIN work'
               PROVE  \/ k = 1 /\ work'[k] = first[1]
                      \/ work'[k].op \notin {"snapshot", "alert"}
    OBVIOUS
  <2>1. CASE k \in DOMAIN first /\ work'[k] = first[k]
    <3>1. k = 1 \/ k = 2 \/ k = 3
      BY <1>10, <2>1
    <3> QED BY <1>8, <2>1, <3>1
  <2>2. CASE k - Len(first) \in DOMAIN Tail(work) /\ work'[k] = Tail(work)[k - Len(first)]
    BY <1>11, <2>2
  <2> QED BY <1>9, <2>1, <2>2
<1>13. GameTypeOK'
  BY <1>1, <1>5, <1>9 DEF GameTypeOK
<1>14. island'[i] = rev
  BY <1>1, <1>5 DEF GameTypeOK
<1>15. WorkInv'
  BY <1>8, <1>12, <1>14 DEF WorkInv
<1>16. Pending("snapshot", i)'
  <2>1. 1 \in DOMAIN work' /\ work'[1] = first[1]
    BY <1>9, <1>10
  <2> QED BY <1>8, <2>1 DEF Pending
<1>17. \A j \in play.isles : j # i => island'[j] = island[j]
  BY <1>1, <1>5 DEF GameTypeOK
<1>18. \A j : ~Pending("snapshot", j) /\ ~Pending("alert", j)
  BY <1>1, NothingPending
<1>19. alert' = alert /\ UNCHANGED <<play, stream>>
  BY <1>5
<1> QED BY <1>13, <1>15, <1>16, <1>17, <1>18, <1>19, GameStep

\* A piece of work that is neither a word to publish nor followed by one.
LEMMA PlainStep ==
    ASSUME StreamInv, work # <<>>, Head(work).op \notin {"snapshot", "alert"},
           work' = Tail(work), UNCHANGED <<play, alert, notice, changes, stream>>,
           island' = island \/ island' = Zero, session' \in Nat, linked' \in BOOLEAN
    PROVE  StreamInv'
<1>1. GameTypeOK /\ WorkInv
  BY DEF StreamInv
<1>2. GameTypeOK'
  <2>1. Tail(work) \in Seq(Item) /\ Zero \in [play.isles -> Nat]
    BY <1>1, RestOfWork, PlayFacts
  <2> QED BY <1>1, <2>1 DEF GameTypeOK, Item
<1>3. \A k \in DOMAIN work' : work'[k].op \notin {"snapshot", "alert"}
  BY <1>1, RestOfWork, NothingPending
<1>4. WorkInv'
  BY <1>3 DEF WorkInv
<1>5. \A i : ~Pending("snapshot", i) /\ ~Pending("alert", i)
  BY <1>1, NothingPending
<1>6. \A i \in play.isles : island'[i] # 0 => island'[i] = island[i]
  BY DEF Zero
<1> QED BY <1>2, <1>4, <1>5, <1>6, GameStep

LEMMA ResetKeeps ==
    ASSUME StreamInv, Reset \/ SetSession
    PROVE  StreamInv'
<1>1. GameTypeOK
  BY DEF StreamInv
<1>2. session' \in Nat /\ linked' \in BOOLEAN
  BY <1>1 DEF Reset, SetSession, GameTypeOK
<1> QED BY <1>2, PlainStep DEF Reset, SetSession, Doing

\* The alerts of one batch are published before the rest of the work, and each
\* says what the engine says.
LEMMA AlertsFirst ==
    ASSUME StreamInv, work # <<>>, Head(work).op \notin {"snapshot", "alert"},
           NEW first \in Seq(Item), work' = first \o Tail(work),
           alert' \in [play.isles -> Nat], changes' \in Nat,
           UNCHANGED <<play, island, session, linked, notice, stream>>,
           \A k \in DOMAIN first :
               first[k].op = "alert" /\ first[k].rev = alert'[first[k].island],
           \A i \in play.isles : alert'[i] # alert[i] =>
               \E k \in DOMAIN first : first[k].island = i
    PROVE  StreamInv'
<1>1. GameTypeOK /\ WorkInv
  BY DEF StreamInv
<1>2. /\ work' \in Seq(Item)' /\ Len(first) \in Nat /\ DOMAIN first = 1..Len(first)
      /\ \A k \in DOMAIN first : k \in DOMAIN work' /\ work'[k] = first[k]
      /\ \A k \in DOMAIN work' :
             \/ k \in DOMAIN first /\ work'[k] = first[k]
             \/ /\ k \notin DOMAIN first /\ k \in Nat /\ k > Len(first)
                /\ k - Len(first) \in DOMAIN Tail(work)
                /\ work'[k] = Tail(work)[k - Len(first)]
  BY <1>1, WorkBefore
<1>3. \A k \in DOMAIN Tail(work) : Tail(work)[k].op \notin {"snapshot", "alert"}
  BY <1>1, RestOfWork, NothingPending
<1>4. \A k \in DOMAIN work' : \/ k \in DOMAIN first /\ work'[k] = first[k]
                              \/ k > Len(first) /\ work'[k].op \notin {"snapshot", "alert"}
  BY <1>2, <1>3
<1>5. GameTypeOK'
  BY <1>1, <1>2 DEF GameTypeOK
<1>6. WorkInv'
  <2>1. ASSUME NEW k \in DOMAIN work', work'[k].op = "alert"
        PROVE  /\ work'[k].rev = alert'[work'[k].island]
               /\ \A l \in DOMAIN work' : l < k => work'[l].op = "alert"
    <3>1. k \in DOMAIN first /\ work'[k] = first[k]
      BY <1>4, <2>1
    <3>2. ASSUME NEW l \in DOMAIN work', l < k PROVE l \in DOMAIN first /\ work'[l] = first[l]
      <4>1. ~(l > Len(first))
        BY <1>2, <3>1, <3>2
      <4> QED BY <1>4, <4>1
    <3> QED BY <3>1, <3>2
  <2>2. \A k \in DOMAIN work' : work'[k].op # "snapshot"
    BY <1>4
  <2> QED BY <2>1, <2>2 DEF WorkInv
<1>7. \A i : ~Pending("snapshot", i) /\ ~Pending("alert", i)
  BY <1>1, NothingPending
<1>8. ASSUME NEW i \in play.isles, alert'[i] # alert[i] PROVE Pending("alert", i)'
  <2>1. PICK k \in DOMAIN first : first[k].island = i
    BY <1>8
  <2>2. k \in DOMAIN work' /\ work'[k].op = "alert" /\ work'[k].island = i
    BY <1>2, <2>1
  <2> QED BY <2>2 DEF Pending
<1> QED BY <1>5, <1>6, <1>7, <1>8, GameStep

LEMMA ApplyKeeps ==
    ASSUME StreamInv, Apply
    PROVE  StreamInv'
<1>1. GameTypeOK /\ WorkInv /\ work # <<>> /\ Head(work).op = "apply"
  BY DEF StreamInv, Apply, Doing
<1>2. Head(work) \in Item
  BY <1>1, RestOfWork
<1>3. Head(work).island \in play.isles
  BY <1>1, <1>2 DEF Item
<1>4. UNCHANGED <<play, island, session, linked, notice, stream>>
  BY DEF Apply
<1>5. CASE work' = Tail(work) /\ UNCHANGED <<alert, changes>>
  <2>1. session' \in Nat /\ linked' \in BOOLEAN
    BY <1>1, <1>4 DEF GameTypeOK
  <2> QED BY <1>1, <1>4, <1>5, <2>1, PlainStep
<1>6. CASE ~(work' = Tail(work) /\ UNCHANGED <<alert, changes>>)
  <2>1. PICK i \in play.isles : i = Head(work).island
    BY <1>3
  <2>2. PICK new : new = IF alert[i] = 0 THEN changes + 2 ELSE 0
    OBVIOUS
  <2>3. /\ alert' = [alert EXCEPT ![i] = new] /\ changes' = changes + 1
        /\ work' = <<[op |-> "alert", island |-> i, rev |-> new]>> \o Tail(work)
    BY <1>6, <2>1, <2>2 DEF Apply
  <2>4. new \in Nat /\ changes' \in Nat /\ alert' \in [play.isles -> Nat]
    BY <1>1, <2>2, <2>3 DEF GameTypeOK
  <2>5. alert'[i] = new /\ \A j \in play.isles : j # i => alert'[j] = alert[j]
    BY <1>1, <2>3 DEF GameTypeOK
  <2>6. PICK word \in Item : word = [op |-> "alert", island |-> i, rev |-> new]
    BY <2>4 DEF Item
  <2>7. PICK first \in Seq(Item) : first = <<word>>
    <3> HIDE DEF Item
    <3>1. <<word>> \in Seq(Item)
      OBVIOUS
    <3> QED BY <3>1
  <2>8. /\ DOMAIN first = {1} /\ first[1] = word
    <3> HIDE DEF Item
    <3> QED BY <2>7
  <2>9. word.op = "alert" /\ word.island = i /\ word.rev = new
    BY <2>6
  <2>10. work' = first \o Tail(work)
    BY <2>3, <2>6, <2>7
  <2>11. \A k \in DOMAIN first : first[k].op = "alert" /\ first[k].rev = alert'[first[k].island]
    BY <2>5, <2>8, <2>9
  <2>12. \A j \in play.isles : alert'[j] # alert[j] => \E k \in DOMAIN first : first[k].island = j
    BY <2>5, <2>8, <2>9
  <2> QED BY <1>1, <1>4, <2>4, <2>10, <2>11, <2>12, AlertsFirst
<1> QED BY <1>5, <1>6

LEMMA ClearKeeps ==
    ASSUME StreamInv, ClearAlerts
    PROVE  StreamInv'
<1>1. GameTypeOK /\ WorkInv /\ work # <<>> /\ Head(work).op = "clear"
  BY DEF StreamInv, ClearAlerts, Doing
<1>2. PICK raised : raised = {i \in play.isles : alert[i] # 0}
  OBVIOUS
<1>3. PICK isles : isles = SetToSeq(raised)
  OBVIOUS
<1>4. PICK first : first = [k \in DOMAIN isles |-> [op |-> "alert", island |-> isles[k], rev |-> 0]]
  OBVIOUS
<1>5. /\ work' = first \o Tail(work) /\ alert' = Zero
      /\ UNCHANGED <<play, island, session, linked, notice, changes, stream>>
  BY <1>2, <1>3, <1>4 DEF ClearAlerts
<1>6. IsFiniteSet(raised)
  <2>1. raised \subseteq play.isles
    BY <1>2
  <2> QED BY <1>1, <2>1, PlayFacts, FS_Subset
<1>7. /\ Cardinality(raised) \in Nat /\ isles \in [1..Cardinality(raised) -> raised]
      /\ \A i \in raised : \E k \in 1..Cardinality(raised) : isles[k] = i
  BY <1>3, <1>6, ListedSet
<1>8. /\ DOMAIN first = 1..Cardinality(raised)
      /\ \A k \in DOMAIN first : /\ first[k] \in Item /\ first[k].op = "alert"
                                 /\ first[k].island = isles[k] /\ first[k].rev = 0
                                 /\ isles[k] \in play.isles
  <2>1. ASSUME NEW k \in 1..Cardinality(raised)
        PROVE  isles[k] \in play.isles
               /\ [op |-> "alert", island |-> isles[k], rev |-> 0] \in Item
    <3>1. isles[k] \in play.isles
      BY <1>2, <1>7
    <3> QED BY <3>1 DEF Item
  <2> QED BY <1>4, <1>7, <2>1
<1>9. first \in Seq(Item)
  <2>1. first = [k \in 1..Cardinality(raised) |-> first[k]]
    BY <1>4, <1>7
  <2> HIDE DEF Item
  <2> QED BY <1>7, <1>8, <2>1
<1>10. alert' \in [play.isles -> Nat] /\ changes' \in Nat
       /\ \A i \in play.isles : alert'[i] = 0
  BY <1>1, <1>5 DEF GameTypeOK, Zero
<1>11. \A k \in DOMAIN first : first[k].op = "alert" /\ first[k].rev = alert'[first[k].island]
  BY <1>8, <1>10
<1>12. ASSUME NEW i \in play.isles, alert'[i] # alert[i]
       PROVE  \E k \in DOMAIN first : first[k].island = i
  <2>1. i \in raised
    BY <1>2, <1>10, <1>12
  <2> QED BY <1>7, <1>8, <2>1
<1> QED BY <1>1, <1>5, <1>9, <1>10, <1>11, <1>12, AlertsFirst

\* The connection changes, and its status is rendered.
LEMMA NoticeKeeps ==
    ASSUME StreamInv, LinkChanges \/ RenderNotice
    PROVE  StreamInv'
<1>1. GameTypeOK /\ WorkInv
  BY DEF StreamInv
<1>2. UNCHANGED <<play, island, session, alert, work, stream>>
  BY DEF LinkChanges, RenderNotice
<1>3. GameTypeOK'
  <2>1. linked' \in BOOLEAN
    BY <1>1, Zenon DEF LinkChanges, RenderNotice, GameTypeOK
  <2>2. changes' \in Nat
    BY <1>1 DEF LinkChanges, RenderNotice, GameTypeOK
  <2>3. notice' \in [at : {"idle", "due", "rendering"}, session : Nat]
    BY <1>1 DEF LinkChanges, RenderNotice, GameTypeOK
  <2> QED BY <1>1, <1>2, <2>1, <2>2, <2>3 DEF GameTypeOK, Item
<1>4. WorkInv'
  BY <1>1, <1>2 DEF WorkInv
<1>5. \A i : /\ Pending("snapshot", i)' = Pending("snapshot", i)
             /\ Pending("alert", i)' = Pending("alert", i)
  BY <1>2 DEF Pending
<1> QED BY <1>2, <1>3, <1>4, <1>5, GameStep

-----------------------------------------------------------------------------
(* The broadcasts *)

LEMMA FrameTypes ==
    ASSUME GameTypeOK
    PROVE  /\ OpenFrame \in Frame
           /\ \A s \in Nat, n \in Nat : StatusFrame(s, n) \in Frame
           /\ \A i \in play.isles, rev \in Nat :
                  SnapshotFrame(i, rev) \in Frame /\ AlertFrame(i, rev) \in Frame
<1>1. OpenFrame \in Frame
  BY DEF OpenFrame, Frame
<1>2. ASSUME NEW s \in Nat, NEW n \in Nat PROVE StatusFrame(s, n) \in Frame
  <2>1. linked \in BOOLEAN
    BY DEF GameTypeOK
  <2> QED BY <2>1 DEF StatusFrame, Frame
<1>3. \A i \in play.isles, rev \in Nat :
          SnapshotFrame(i, rev) \in Frame /\ AlertFrame(i, rev) \in Frame
  BY DEF SnapshotFrame, AlertFrame, Frame
<1> QED BY <1>1, <1>2, <1>3

\* What a frame is about.
LEMMA FrameSubjects ==
    ASSUME NEW i, NEW ev \in {"snapshot", "alert"}
    PROVE  /\ ~IsAbout(OpenFrame, ev, i)
           /\ \A s, n : ~IsAbout(StatusFrame(s, n), ev, i)
           /\ \A j, rev : /\ IsAbout(SnapshotFrame(j, rev), ev, i) <=> ev = "snapshot" /\ j = i
                          /\ IsAbout(AlertFrame(j, rev), ev, i) <=> ev = "alert" /\ j = i
                          /\ SnapshotFrame(j, rev).rev = rev /\ AlertFrame(j, rev).rev = rev
  BY DEF IsAbout, OpenFrame, StatusFrame, SnapshotFrame, AlertFrame

LEMMA BroadcastKeeps ==
    ASSUME StreamInv, NEW frame \in Frame, Broadcast(frame), play' = play
    PROVE  /\ ClientTypeOK' /\ UnreadInv'
           /\ UNCHANGED <<hub, client, sending, told, toldAlert>>
           /\ hub' = "open" /\ client' # "none" /\ ~lossy' =>
                  ~lossy /\ queue' = Append(queue, frame)
<1>1. /\ UNCHANGED <<hub, client, sending, told, toldAlert>>
      /\ queue' = queue \/ queue' = Append(queue, frame)
  BY DEF Broadcast
<1>2. ClientTypeOK'
  <2>1. queue \in Seq(Frame)
    BY DEF StreamInv, ClientTypeOK
  <2>2. queue' \in Seq(Frame)
    <3> HIDE DEF Frame
    <3> QED BY <1>1, <2>1
  <2>3. Frame' = Frame
    BY DEF Frame
  <2> HIDE DEF Frame
  <2> QED BY <1>1, <2>2, <2>3 DEF StreamInv, ClientTypeOK
<1>3. UnreadInv'
  BY <1>1 DEF StreamInv, UnreadInv, Silent
<1>4. ASSUME hub' = "open" /\ client' # "none" /\ ~lossy'
      PROVE  ~lossy /\ queue' = Append(queue, frame)
  BY <1>1, <1>4 DEF Broadcast, Registered
<1> QED BY <1>1, <1>2, <1>3, <1>4

\* A frame that joins the queue says the newest of what it is about.
LEMMA QueueGrows ==
    ASSUME ClientTypeOK, NEW frame \in Frame, queue' = Append(queue, frame), sending' = sending,
           NEW ev, NEW i, NEW read, NEW delivered, NEW rev,
           Word(ev, i, read, delivered, rev),
           Pending(ev, i) => Pending(ev, i)' \/ IsAbout(frame, ev, i),
           IsAbout(frame, ev, i) => frame.rev = rev
    PROVE  Word(ev, i, read, delivered, rev)'
<1>1. queue \in Seq(Frame)
  BY DEF ClientTypeOK
<1>2. /\ IsAbout(frame, ev, i) => EndsWith(Append(queue, frame), ev, i, frame.rev)
      /\ ~IsAbout(frame, ev, i) =>
             /\ Silent(queue, ev, i) => Silent(Append(queue, frame), ev, i)
             /\ EndsWith(queue, ev, i, rev) => EndsWith(Append(queue, frame), ev, i, rev)
  BY <1>1, AppendWord
<1>3. /\ EndsWith(queue, ev, i, rev)' <=> EndsWith(Append(queue, frame), ev, i, rev)
      /\ Silent(queue, ev, i)' <=> Silent(Append(queue, frame), ev, i)
      /\ EndsWith(sending, ev, i, rev)' <=> EndsWith(sending, ev, i, rev)
      /\ Silent(sending, ev, i)' <=> Silent(sending, ev, i)
  BY DEF EndsWith, Silent
<1> QED BY <1>2, <1>3 DEF Word, HasRead

\* Either broadcast: the one of the pipeline and the one of the pipe client.
LEMMA BroadcastWords ==
    ASSUME StreamInv, NEW frame \in Frame, Broadcast(frame), UNCHANGED <<play, island, alert>>,
           \A i \in play.isles :
               /\ Pending("snapshot", i) => Pending("snapshot", i)' \/ IsAbout(frame, "snapshot", i)
               /\ Pending("alert", i) => Pending("alert", i)' \/ IsAbout(frame, "alert", i)
               /\ IsAbout(frame, "snapshot", i) => frame.rev = island[i]
               /\ IsAbout(frame, "alert", i) => frame.rev = alert[i]
    PROVE  WordInv'
<1>1. ClientTypeOK
  BY DEF StreamInv
<1>2. /\ UNCHANGED <<hub, client, sending, told, toldAlert>>
      /\ hub' = "open" /\ client' # "none" /\ ~lossy' =>
             ~lossy /\ queue' = Append(queue, frame)
  BY BroadcastKeeps
<1> SUFFICES ASSUME hub' = "open" /\ client' # "none" /\ ~lossy', NEW i \in play.isles
             PROVE  /\ i \in Present' => SnapshotWord(i)'
                    /\ AlertWord(i)'
  BY DEF WordInv, Present
<1>3. ~lossy /\ queue' = Append(queue, frame)
  BY <1>2
<1>4. (i \in Present => SnapshotWord(i)) /\ AlertWord(i)
  BY <1>2, <1>3 DEF StreamInv, WordInv
<1>5. ASSUME i \in Present' PROVE SnapshotWord(i)'
  <2>1. i \in Present
    BY <1>5 DEF Present
  <2>2. PICK read, delivered, rev : read = (client \in {"alerts", "live"})
                                    /\ delivered = told /\ rev = island[i]
    OBVIOUS
  <2>3. Word("snapshot", i, read, delivered, rev)
    BY <1>4, <2>1, <2>2 DEF SnapshotWord
  <2>4. Word("snapshot", i, read, delivered, rev)'
    BY <1>1, <1>2, <1>3, <2>2, <2>3, QueueGrows
  <2> QED BY <1>2, <2>2, <2>4 DEF SnapshotWord, Word, HasRead
<1>6. AlertWord(i)'
  <2>1. PICK read, delivered, rev : read = (client = "live")
                                    /\ delivered = toldAlert /\ rev = alert[i]
    OBVIOUS
  <2>2. Word("alert", i, read, delivered, rev)
    BY <1>4, <2>1 DEF AlertWord
  <2>3. Word("alert", i, read, delivered, rev)'
    BY <1>1, <1>2, <1>3, <2>1, <2>2, QueueGrows
  <2> QED BY <1>2, <2>1, <2>3 DEF AlertWord, Word, HasRead
<1> QED BY <1>5, <1>6

LEMMA PublishKeeps ==
    ASSUME StreamInv, Publish
    PROVE  StreamInv'
<1>1. /\ GameTypeOK /\ WorkInv /\ work # <<>>
      /\ work' = Tail(work)
      /\ UNCHANGED <<play, island, session, linked, alert, notice, changes>>
  BY DEF StreamInv, Publish, Doing
<1>2. Head(work) \in Item /\ Head(work) = work[1] /\ 1 \in DOMAIN work
  BY <1>1, RestOfWork
<1>3. PICK frame \in Frame :
          /\ Broadcast(frame)
          /\ \/ Head(work).op = "snapshot" /\ frame = SnapshotFrame(Head(work).island, Head(work).rev)
             \/ Head(work).op = "alert" /\ frame = AlertFrame(Head(work).island, Head(work).rev)
             \/ Head(work).op = "status" /\ frame = StatusNow
  <2>1. CASE Doing("snapshot") /\ Broadcast(SnapshotFrame(Head(work).island, Head(work).rev))
    <3>1. Head(work).op = "snapshot"
      BY <2>1 DEF Doing
    <3>2. Head(work).island \in play.isles /\ Head(work).rev \in Nat
      BY <1>2, <3>1 DEF Item
    <3>3. SnapshotFrame(Head(work).island, Head(work).rev) \in Frame
      BY <1>1, <3>2, FrameTypes
    <3> QED BY <2>1, <3>1, <3>3
  <2>2. CASE Doing("alert") /\ Broadcast(AlertFrame(Head(work).island, Head(work).rev))
    <3>1. Head(work).op = "alert"
      BY <2>2 DEF Doing
    <3>2. Head(work).island \in play.isles /\ Head(work).rev \in Nat
      BY <1>2, <3>1 DEF Item
    <3>3. AlertFrame(Head(work).island, Head(work).rev) \in Frame
      BY <1>1, <3>2, FrameTypes
    <3> QED BY <2>2, <3>1, <3>3
  <2>3. CASE Doing("status") /\ Broadcast(StatusNow)
    <3>1. StatusNow \in Frame
      BY <1>1, FrameTypes, PlayFacts DEF StatusNow, GameTypeOK
    <3> QED BY <2>3, <3>1 DEF Doing
  <2> QED BY <2>1, <2>2, <2>3 DEF Publish
<1>4. GameTypeOK'
  <2>1. Tail(work) \in Seq(Item)
    BY <1>1, RestOfWork
  <2> QED BY <1>1, <2>1 DEF GameTypeOK, Item
<1>5. WorkInv'
  BY <1>1, RestOfWork DEF WorkInv
<1>6. ClientTypeOK' /\ UnreadInv'
  BY <1>1, <1>3, BroadcastKeeps
<1>7. ASSUME NEW i \in play.isles, NEW ev \in {"snapshot", "alert"}
      PROVE  /\ Pending(ev, i) => Pending(ev, i)' \/ IsAbout(frame, ev, i)
             /\ IsAbout(frame, ev, i) =>
                    /\ Head(work).op = ev /\ Head(work).island = i
                    /\ frame.rev = Head(work).rev
  <2>1. /\ IsAbout(frame, ev, i) <=> Head(work).op = ev /\ Head(work).island = i
        /\ IsAbout(frame, ev, i) => frame.rev = Head(work).rev
    <3>1. CASE Head(work).op = "snapshot" /\ frame = SnapshotFrame(Head(work).island, Head(work).rev)
      BY <3>1 DEF IsAbout, SnapshotFrame
    <3>2. CASE Head(work).op = "alert" /\ frame = AlertFrame(Head(work).island, Head(work).rev)
      BY <3>2 DEF IsAbout, AlertFrame
    <3>3. CASE Head(work).op = "status" /\ frame = StatusNow
      BY <3>3 DEF IsAbout, StatusNow, StatusFrame
    <3> QED BY <1>3, <3>1, <3>2, <3>3
  <2>2. ASSUME Pending(ev, i), ~IsAbout(frame, ev, i) PROVE Pending(ev, i)'
    <3>1. PICK k \in DOMAIN work : work[k].op = ev /\ work[k].island = i
      BY <2>2 DEF Pending
    <3>2. k # 1
      BY <1>2, <2>1, <2>2, <3>1
    <3>3. k - 1 \in DOMAIN work' /\ work'[k - 1] = work[k]
      BY <1>1, <3>2, RestOfWork
    <3> QED BY <3>1, <3>3 DEF Pending
  <2> QED BY <2>1, <2>2
<1>8. ASSUME NEW i \in play.isles
      PROVE  /\ IsAbout(frame, "snapshot", i) => frame.rev = island[i]
             /\ IsAbout(frame, "alert", i) => frame.rev = alert[i]
  BY <1>1, <1>2, <1>7 DEF WorkInv
<1>9. WordInv'
  BY <1>1, <1>3, <1>7, <1>8, BroadcastWords
<1> QED BY <1>4, <1>5, <1>6, <1>9 DEF StreamInv

LEMMA SendNoticeKeeps ==
    ASSUME StreamInv, SendNotice
    PROVE  StreamInv'
<1>1. /\ GameTypeOK /\ WorkInv
      /\ UNCHANGED <<play, island, session, linked, alert, work, changes>>
      /\ notice' = [at |-> "idle", session |-> 0]
  BY DEF StreamInv, SendNotice
<1>2. PICK frame \in Frame :
          Broadcast(frame) /\ frame = StatusFrame(notice.session, Cardinality(Present))
  <2>1. notice.session \in Nat
    BY <1>1 DEF GameTypeOK
  <2>2. StatusFrame(notice.session, Cardinality(Present)) \in Frame
    BY <1>1, <2>1, FrameTypes, PlayFacts
  <2> QED BY <2>2 DEF SendNotice
<1>3. GameTypeOK'
  BY <1>1 DEF GameTypeOK, Item
<1>4. WorkInv'
  BY <1>1 DEF WorkInv
<1>5. ClientTypeOK' /\ UnreadInv'
  BY <1>1, <1>2, BroadcastKeeps
<1>6. ASSUME NEW i \in play.isles
      PROVE  /\ ~IsAbout(frame, "snapshot", i) /\ ~IsAbout(frame, "alert", i)
             /\ Pending("snapshot", i)' = Pending("snapshot", i)
             /\ Pending("alert", i)' = Pending("alert", i)
  BY <1>1, <1>2, FrameSubjects DEF Pending
<1>7. WordInv'
  BY <1>1, <1>2, <1>6, BroadcastWords
<1> QED BY <1>3, <1>4, <1>5, <1>7 DEF StreamInv

-----------------------------------------------------------------------------
(* The handler and the browser *)

\* A step of the handler or the browser leaves the pipeline alone.
LEMMA GameUnchanged ==
    ASSUME StreamInv, UNCHANGED <<play, game>>
    PROVE  /\ GameTypeOK' /\ WorkInv' /\ Present' = Present
           /\ UNCHANGED <<island, alert, work>> /\ Frame' = Frame
           /\ \A ev, i : Pending(ev, i)' = Pending(ev, i)
<1>1. UNCHANGED <<play, island, session, linked, alert, work, notice, changes>>
  BY DEF game
<1>2. GameTypeOK'
  BY <1>1 DEF StreamInv, GameTypeOK, Item
<1>3. WorkInv'
  BY <1>1 DEF StreamInv, WorkInv
<1> QED BY <1>1, <1>2, <1>3 DEF Pending, Present, Frame

\* A stream that is new, or none.
LEMMA NewStream ==
    ASSUME StreamInv, UNCHANGED <<play, game>>,
           client' \in {"none", "session"}, sending' = <<>> \/ sending' = <<OpenFrame>>,
           queue' = <<>>, told' = Zero, toldAlert' = Zero
    PROVE  StreamInv'
<1>1. GameTypeOK' /\ WorkInv' /\ Frame' = Frame /\ play' = play
  BY GameUnchanged
<1>2. GameTypeOK /\ OpenFrame \in Frame /\ Zero \in [play.isles -> Nat]
  BY FrameTypes, PlayFacts DEF StreamInv
<1>3. ClientTypeOK'
  <2>1. sending' \in Seq(Frame) /\ queue' \in Seq(Frame)
    <3> HIDE DEF Frame
    <3>1. <<>> \in Seq(Frame) /\ <<OpenFrame>> \in Seq(Frame)
      BY <1>2
    <3> QED BY <3>1
  <2> HIDE DEF Frame
  <2> QED BY <1>1, <1>2, <2>1 DEF ClientTypeOK
<1>4. ASSUME NEW ev \in {"snapshot", "alert"}, NEW i
      PROVE  Silent(sending, ev, i)' /\ Silent(queue, ev, i)'
  <2>1. \A k \in DOMAIN sending' : sending'[k] = OpenFrame
    OBVIOUS
  <2> QED BY <2>1, FrameSubjects DEF Silent
<1>5. UnreadInv'
  BY <1>4 DEF UnreadInv, Zero
<1>6. WordInv'
  BY <1>4 DEF WordInv, SnapshotWord, AlertWord, Word
<1> QED BY <1>1, <1>3, <1>5, <1>6 DEF StreamInv

LEMMA ConnectKeeps ==
    ASSUME StreamInv, Connect \/ Reopen \/ StreamEnds
    PROVE  StreamInv'
  BY NewStream DEF Connect, Reopen, StreamEnds, Disconnected

LEMMA CloseKeeps ==
    ASSUME StreamInv, CloseAll
    PROVE  StreamInv'
<1>1. /\ UNCHANGED <<play, game, client, sending, queue, lossy, told, toldAlert>>
      /\ hub' = "closed"
  BY DEF CloseAll
<1>2. GameTypeOK' /\ WorkInv' /\ Frame' = Frame
  BY <1>1, GameUnchanged
<1>3. ClientTypeOK'
  <2> HIDE DEF Frame
  <2> QED BY <1>1, <1>2 DEF StreamInv, ClientTypeOK
<1>4. UnreadInv'
  BY <1>1 DEF StreamInv, UnreadInv, Silent
<1>5. WordInv'
  BY <1>1 DEF WordInv
<1> QED BY <1>2, <1>3, <1>4, <1>5 DEF StreamInv

\* The words of a stream whose queue stays: what has been read still says them.
LEMMA QueueStays ==
    ASSUME UNCHANGED queue, NEW ev, NEW i, Pending(ev, i)' = Pending(ev, i),
           NEW read, NEW delivered, NEW rev, Word(ev, i, read, delivered, rev),
           NEW readNow, NEW deliveredNow,
           readNow /\ (read => HasRead(ev, i, delivered, rev)) =>
               HasRead(ev, i, deliveredNow, rev)'
    PROVE  Word(ev, i, readNow, deliveredNow, rev)'
<1>1. /\ EndsWith(queue, ev, i, rev)' <=> EndsWith(queue, ev, i, rev)
      /\ Silent(queue, ev, i)' <=> Silent(queue, ev, i)
  BY DEF EndsWith, Silent
<1> QED BY <1>1 DEF Word

\* The frames of a list of islands say what the list says, once each.
FramesOf(S, ev, rev) ==
    [k \in 1..Cardinality(S) |->
        [ev |-> ev, island |-> SetToSeq(S)[k], rev |-> rev[SetToSeq(S)[k]]]]

LEMMA ListedFrames ==
    ASSUME GameTypeOK, NEW S \in SUBSET play.isles, NEW ev \in {"snapshot", "alert"},
           NEW rev \in [play.isles -> Nat]
    PROVE  /\ FramesOf(S, ev, rev) \in Seq(Frame)
           /\ \A i \in S : EndsWith(FramesOf(S, ev, rev), ev, i, rev[i])
           /\ \A i : i \notin S => Silent(FramesOf(S, ev, rev), ev, i)
           /\ \A other, i : other # ev => Silent(FramesOf(S, ev, rev), other, i)
<1> DEFINE L == FramesOf(S, ev, rev)
<1>1. IsFiniteSet(S)
  BY PlayFacts, FS_Subset
<1>2. /\ Cardinality(S) \in Nat
      /\ SetToSeq(S) \in [1..Cardinality(S) -> S] /\ IsInjective(SetToSeq(S))
      /\ \A t \in S : \E k \in 1..Cardinality(S) : SetToSeq(S)[k] = t
  BY <1>1, ListedSet
<1>3. PICK n, list : n = Cardinality(S) /\ list = SetToSeq(S)
  OBVIOUS
<1>4. /\ n \in Nat /\ list \in [1..n -> S]
      /\ \A k, l \in 1..n : list[k] = list[l] => k = l
      /\ \A t \in S : \E k \in 1..n : list[k] = t
  BY <1>2, <1>3 DEF IsInjective
<1>5. /\ L = [k \in 1..n |-> [ev |-> ev, island |-> list[k], rev |-> rev[list[k]]]]
      /\ DOMAIN L = 1..n
      /\ \A k \in 1..n : L[k].ev = ev /\ L[k].island = list[k] /\ L[k].rev = rev[list[k]]
  BY <1>3 DEF FramesOf
<1> HIDE DEF L
<1>6. L \in Seq(Frame)
  <2>1. ASSUME NEW k \in 1..n PROVE L[k] \in Frame
    <3>1. list[k] \in play.isles /\ rev[list[k]] \in Nat
      BY <1>4
    <3>2. L[k] = [ev |-> ev, island |-> list[k], rev |-> rev[list[k]]]
      BY <1>5
    <3> QED BY <3>1, <3>2 DEF Frame
  <2>2. L = [k \in 1..n |-> L[k]]
    BY <1>5
  <2> HIDE DEF Frame
  <2> QED BY <1>4, <2>1, <2>2
<1>7. ASSUME NEW i \in S PROVE EndsWith(L, ev, i, rev[i])
  <2>1. PICK k \in 1..n : list[k] = i
    BY <1>4
  <2>2. \A l \in 1..n : k < l => list[l] # i
    BY <1>4, <2>1
  <2> QED BY <1>5, <2>1, <2>2 DEF EndsWith, IsAbout
<1>8. \A i : i \notin S => Silent(L, ev, i)
  <2>1. ASSUME NEW i, i \notin S, NEW k \in DOMAIN L PROVE L[k].island # i
    BY <1>4, <1>5, <2>1
  <2> QED BY <2>1 DEF Silent, IsAbout
<1>9. \A other, i : other # ev => Silent(L, other, i)
  BY <1>5 DEF Silent, IsAbout
<1> QED BY <1>6, <1>7, <1>8, <1>9 DEF L

\* What a step of writeCatchUp leaves alone.
LEMMA CatchUpFacts ==
    ASSUME StreamInv, CatchUp
    PROVE  /\ UNCHANGED <<play, game, hub, queue, lossy, told, toldAlert>>
           /\ GameTypeOK /\ GameTypeOK' /\ WorkInv' /\ Present' = Present /\ Frame' = Frame
           /\ UNCHANGED <<island, alert, work>>
           /\ \A ev, i : Pending(ev, i)' = Pending(ev, i)
           /\ sending \in Seq(Frame) /\ queue \in Seq(Frame)
           /\ \A i \in play.isles :
                  hub = "open" /\ ~lossy => /\ i \in Present => SnapshotWord(i)
                                            /\ AlertWord(i)
<1>1. /\ UNCHANGED <<play, game, hub, queue, lossy, told, toldAlert>>
      /\ client # "none"
  BY DEF CatchUp
<1>2. /\ GameTypeOK' /\ WorkInv' /\ Present' = Present
      /\ UNCHANGED <<island, alert, work>> /\ Frame' = Frame
      /\ \A ev, i : Pending(ev, i)' = Pending(ev, i)
  BY <1>1, GameUnchanged
<1>3. sending \in Seq(Frame) /\ queue \in Seq(Frame) /\ GameTypeOK
  BY DEF StreamInv, ClientTypeOK
<1>4. \A i \in play.isles : hub = "open" /\ ~lossy =>
          /\ i \in Present => SnapshotWord(i)
          /\ AlertWord(i)
  BY <1>1 DEF StreamInv, WordInv
<1> QED BY <1>1, <1>2, <1>3, <1>4

\* The words are kept if the catch-up keeps what it has read and reads it anew
\* when its turn comes.
LEMMA CatchUpKeeps ==
    ASSUME StreamInv, CatchUp, sending' \in Seq(Frame), UnreadInv',
           client' \in {"none", "session", "count", "islands", "alerts", "live"},
           \A i \in Present :
               client' \in {"alerts", "live"} /\ (client \in {"alerts", "live"} =>
                       HasRead("snapshot", i, told, island[i]))
                   => HasRead("snapshot", i, told, island[i])',
           \A i \in play.isles : client' = "live" /\ client # "live" =>
               HasRead("alert", i, toldAlert, alert[i])',
           client # "live"
    PROVE  StreamInv'
<1>1. /\ UNCHANGED <<play, game, hub, queue, lossy, told, toldAlert>>
      /\ GameTypeOK /\ GameTypeOK' /\ WorkInv' /\ Present' = Present /\ Frame' = Frame
      /\ UNCHANGED <<island, alert, work>>
      /\ \A ev, i : Pending(ev, i)' = Pending(ev, i)
      /\ sending \in Seq(Frame) /\ queue \in Seq(Frame)
      /\ \A i \in play.isles :
             hub = "open" /\ ~lossy => /\ i \in Present => SnapshotWord(i)
                                       /\ AlertWord(i)
  BY CatchUpFacts
<1>2. ClientTypeOK'
  <2> HIDE DEF Frame
  <2> QED BY <1>1 DEF StreamInv, ClientTypeOK
<1>3. ASSUME hub' = "open" /\ client' # "none" /\ ~lossy', NEW i \in play.isles
      PROVE  /\ i \in Present' => SnapshotWord(i)'
             /\ AlertWord(i)'
  <2>1. ASSUME i \in Present' PROVE SnapshotWord(i)'
    <3>1. i \in Present
      BY <1>1, <2>1
    <3>2. PICK read, readNow, delivered, rev :
              /\ read = (client \in {"alerts", "live"})
              /\ readNow = (client' \in {"alerts", "live"})
              /\ delivered = told /\ rev = island[i]
      OBVIOUS
    <3>3. Word("snapshot", i, read, delivered, rev)
      BY <1>1, <1>3, <3>1, <3>2 DEF SnapshotWord
    <3>4. HasRead("snapshot", i, delivered, rev) <=> HasRead("snapshot", i, told, island[i])
      BY <3>2
    <3>5. HasRead("snapshot", i, delivered, rev)' <=> HasRead("snapshot", i, told, island[i])'
      BY <1>1, <3>2 DEF HasRead
    <3>6. Word("snapshot", i, readNow, delivered, rev)'
      BY <1>1, <3>1, <3>2, <3>3, <3>4, <3>5, QueueStays
    <3> QED BY <1>1, <3>2, <3>6 DEF SnapshotWord, Word, HasRead
  <2>2. AlertWord(i)'
    <3>1. PICK read, readNow, delivered, rev :
              /\ read = (client = "live") /\ readNow = (client' = "live")
              /\ delivered = toldAlert /\ rev = alert[i]
      OBVIOUS
    <3>2. Word("alert", i, read, delivered, rev)
      BY <1>1, <1>3, <3>1 DEF AlertWord
    <3>3. HasRead("alert", i, delivered, rev)' <=> HasRead("alert", i, toldAlert, alert[i])'
      BY <1>1, <3>1 DEF HasRead
    <3>4. Word("alert", i, readNow, delivered, rev)'
      BY <1>1, <3>1, <3>2, <3>3, QueueStays
    <3> QED BY <1>1, <3>1, <3>4 DEF AlertWord, Word, HasRead
  <2> QED BY <2>1, <2>2
<1>4. WordInv'
  BY <1>1, <1>3 DEF WordInv, Present
<1> QED BY <1>1, <1>2, <1>4 DEF StreamInv

LEMMA ReadSession ==
    ASSUME StreamInv, CatchUp, client = "session"
    PROVE  StreamInv'
<1>1. client' = "count" /\ sending' = Append(sending, StatusFrame(session, 0))
  BY DEF CatchUp
<1>2. GameTypeOK /\ sending \in Seq(Frame) /\ UNCHANGED <<play, toldAlert>>
  BY CatchUpFacts
<1>3. PICK frame \in Frame : frame = StatusFrame(session, 0)
  BY <1>2, FrameTypes DEF GameTypeOK
<1>4. /\ sending' \in Seq(Frame) /\ sending' # <<>>
      /\ sending'[Len(sending')] = frame
  <2> HIDE DEF Frame
  <2> QED BY <1>1, <1>2, <1>3
<1>5. frame.ev = "status"
  BY <1>3 DEF StatusFrame
<1>6. ASSUME NEW ev \in {"snapshot", "alert"}, NEW i, Silent(sending, ev, i)
      PROVE  Silent(sending, ev, i)'
  <2>1. ~IsAbout(frame, ev, i)
    BY <1>5 DEF IsAbout
  <2>2. Silent(Append(sending, frame), ev, i)
    BY <1>2, <1>6, <2>1, AppendWord
  <2> QED BY <1>1, <1>3, <2>2 DEF Silent
<1>7. UnreadInv'
  BY <1>1, <1>2, <1>4, <1>5, <1>6 DEF StreamInv, UnreadInv
<1> QED BY <1>1, <1>4, <1>7, CatchUpKeeps

LEMMA ReadCount ==
    ASSUME StreamInv, CatchUp, client = "count"
    PROVE  StreamInv'
<1>1. /\ client' = "islands"
      /\ sending' = [sending EXCEPT ![Len(sending)].count = Cardinality(Present)]
  BY DEF CatchUp
<1>2. /\ GameTypeOK /\ sending \in Seq(Frame) /\ UNCHANGED <<play, toldAlert>>
  BY CatchUpFacts
<1>3. sending # <<>> /\ sending[Len(sending)].ev = "status"
  BY DEF StreamInv, UnreadInv
<1>4. PICK last \in Nat, count \in Nat : last = Len(sending) /\ count = Cardinality(Present)
  <2>1. Len(sending) \in Nat
    <3> HIDE DEF Frame
    <3> QED BY <1>2
  <2> QED BY <1>2, <2>1, PlayFacts
<1>5. last \in DOMAIN sending /\ DOMAIN sending = 1..last
  <2> HIDE DEF Frame
  <2> QED BY <1>2, <1>3, <1>4
<1>6. PICK f \in Frame : f = sending[last]
  <2> HIDE DEF Frame
  <2> QED BY <1>2, <1>5
<1>7. PICK frame \in Frame : frame = [f EXCEPT !.count = count] /\ frame.ev = "status"
  <2>1. f \in [ev : {"status"}, session : Nat, linked : BOOLEAN, count : Nat]
    BY <1>3, <1>4, <1>6 DEF Frame
  <2>2. [f EXCEPT !.count = count] \in [ev : {"status"}, session : Nat, linked : BOOLEAN, count : Nat]
    BY <2>1
  <2> QED BY <2>2 DEF Frame
<1>8. sending' = [sending EXCEPT ![last] = frame]
  BY <1>1, <1>4, <1>6, <1>7
<1>9. /\ sending' \in Seq(Frame) /\ DOMAIN sending' = DOMAIN sending
      /\ \A k \in DOMAIN sending : sending'[k] = IF k = last THEN frame ELSE sending[k]
  <2> HIDE DEF Frame
  <2> QED BY <1>2, <1>5, <1>8
<1>10. ASSUME NEW ev \in {"snapshot", "alert"}, NEW i, Silent(sending, ev, i)
       PROVE  Silent(sending, ev, i)'
  <2>1. ~IsAbout(frame, ev, i)
    BY <1>7 DEF IsAbout
  <2> QED BY <1>9, <1>10, <2>1 DEF Silent
<1>11. UnreadInv'
  BY <1>1, <1>2, <1>10 DEF StreamInv, UnreadInv
<1> QED BY <1>1, <1>9, <1>11, CatchUpKeeps

LEMMA ReadIslands ==
    ASSUME StreamInv, CatchUp, client = "islands"
    PROVE  StreamInv'
<1>1. /\ GameTypeOK /\ sending \in Seq(Frame) /\ UNCHANGED <<play, island, told, toldAlert>>
      /\ Present \in SUBSET play.isles /\ island \in [play.isles -> Nat]
  BY CatchUpFacts DEF GameTypeOK, Present
<1>2. PICK list : list = FramesOf(Present, "snapshot", island)
  OBVIOUS
<1>3. client' = "alerts" /\ sending' = sending \o list
  BY <1>2 DEF CatchUp, FramesOf, SnapshotFrame
<1>4. /\ list \in Seq(Frame)
      /\ \A i \in Present : EndsWith(list, "snapshot", i, island[i])
      /\ \A i : Silent(list, "alert", i)
  BY <1>1, <1>2, ListedFrames
<1>5. sending' \in Seq(Frame)
  BY <1>1, <1>3, <1>4, ConcatFacts
<1>6. ASSUME NEW i \in Present PROVE HasRead("snapshot", i, told, island[i])'
  <2>1. PICK rev : rev = island[i]
    OBVIOUS
  <2>2. EndsWith(sending \o list, "snapshot", i, rev)
    BY <1>1, <1>4, <2>1, ConcatWord
  <2> QED BY <1>1, <1>3, <2>1, <2>2 DEF HasRead, EndsWith
<1>7. ASSUME NEW i \in play.isles PROVE Silent(sending, "alert", i)' /\ toldAlert'[i] = 0
  <2>1. Silent(sending, "alert", i) /\ toldAlert[i] = 0
    BY DEF StreamInv, UnreadInv
  <2>2. Silent(sending \o list, "alert", i)
    BY <1>1, <1>4, <2>1, ConcatWord
  <2> QED BY <1>1, <1>3, <2>1, <2>2 DEF Silent
<1>8. UnreadInv'
  BY <1>1, <1>3, <1>7 DEF UnreadInv
<1> QED BY <1>3, <1>5, <1>6, <1>8, CatchUpKeeps

LEMMA ReadAlerts ==
    ASSUME StreamInv, CatchUp, client = "alerts"
    PROVE  StreamInv'
<1>1. PICK raised : raised = {i \in play.isles : alert[i] # 0}
  OBVIOUS
<1>2. /\ GameTypeOK /\ sending \in Seq(Frame)
      /\ UNCHANGED <<play, island, alert, told, toldAlert>>
      /\ raised \in SUBSET play.isles /\ alert \in [play.isles -> Nat]
  BY <1>1, CatchUpFacts DEF GameTypeOK
<1>3. PICK list : list = FramesOf(raised, "alert", alert)
  OBVIOUS
<1>4. client' = "live" /\ sending' = sending \o list
  <2>1. IsFiniteSet(raised)
    BY <1>2, PlayFacts, FS_Subset
  <2>2. DOMAIN SetToSeq(raised) = 1..Cardinality(raised)
    BY <2>1, ListedSet
  <2> QED BY <1>1, <1>3, <2>2 DEF CatchUp, FramesOf, AlertFrame
<1>5. /\ list \in Seq(Frame)
      /\ \A i \in raised : EndsWith(list, "alert", i, alert[i])
      /\ \A i : i \notin raised => Silent(list, "alert", i)
      /\ \A i : Silent(list, "snapshot", i)
  BY <1>2, <1>3, ListedFrames
<1>6. sending' \in Seq(Frame)
  BY <1>2, <1>4, <1>5, ConcatFacts
<1>7. ASSUME NEW i \in Present, HasRead("snapshot", i, told, island[i])
      PROVE  HasRead("snapshot", i, told, island[i])'
  <2>1. PICK rev : rev = island[i]
    OBVIOUS
  <2>2. /\ Silent(sending, "snapshot", i) => Silent(sending \o list, "snapshot", i)
        /\ EndsWith(sending, "snapshot", i, rev) => EndsWith(sending \o list, "snapshot", i, rev)
    BY <1>2, <1>5, ConcatWord
  <2>3. /\ Silent(sending, "snapshot", i)' <=> Silent(sending \o list, "snapshot", i)
        /\ EndsWith(sending, "snapshot", i, rev)' <=> EndsWith(sending \o list, "snapshot", i, rev)
    BY <1>4 DEF Silent, EndsWith
  <2>4. \/ EndsWith(sending, "snapshot", i, rev)
        \/ Silent(sending, "snapshot", i) /\ told[i] = rev
    BY <1>7, <2>1 DEF HasRead
  <2>5. \/ EndsWith(sending', "snapshot", i, rev)
        \/ Silent(sending', "snapshot", i) /\ told'[i] = rev
    BY <1>2, <2>2, <2>3, <2>4
  <2> QED BY <1>2, <2>1, <2>5 DEF HasRead
<1>8. ASSUME NEW i \in play.isles PROVE HasRead("alert", i, toldAlert, alert[i])'
  <2>1. Silent(sending, "alert", i) /\ toldAlert[i] = 0
    BY DEF StreamInv, UnreadInv
  <2>2. PICK rev : rev = alert[i]
    OBVIOUS
  <2>3. CASE i \in raised
    <3>1. EndsWith(sending \o list, "alert", i, rev)
      BY <1>2, <1>5, <2>2, <2>3, ConcatWord
    <3>2. EndsWith(sending', "alert", i, rev)
      BY <1>4, <3>1
    <3> QED BY <1>2, <2>2, <3>2 DEF HasRead
  <2>4. CASE i \notin raised
    <3>1. Silent(sending \o list, "alert", i)
      BY <1>2, <1>5, <2>1, <2>4, ConcatWord
    <3>2. Silent(sending', "alert", i) /\ toldAlert'[i] = alert'[i]
      BY <1>1, <1>2, <1>4, <2>1, <2>4, <3>1
    <3> QED BY <3>2 DEF HasRead
  <2> QED BY <2>3, <2>4
<1>9. UnreadInv'
  BY <1>4 DEF UnreadInv
<1> QED BY <1>4, <1>6, <1>7, <1>8, <1>9, CatchUpKeeps

LEMMA CatchUpStep ==
    ASSUME StreamInv, CatchUp
    PROVE  StreamInv'
<1>1. client \in {"session", "count", "islands", "alerts"}
  BY DEF CatchUp
<1> QED BY <1>1, ReadSession, ReadCount, ReadIslands, ReadAlerts

\* What a frame taken by the browser changes in what the stream has delivered.
LEMMA Delivered ==
    ASSUME ClientTypeOK, Deliver, NextFrame \in Frame
    PROVE  /\ told' \in [play.isles -> Nat] /\ toldAlert' \in [play.isles -> Nat]
           /\ \A i \in play.isles :
                  /\ told'[i] = IF IsAbout(NextFrame, "snapshot", i) THEN NextFrame.rev ELSE told[i]
                  /\ toldAlert'[i] = IF IsAbout(NextFrame, "alert", i) THEN NextFrame.rev
                                     ELSE toldAlert[i]
<1>1. PICK f \in Frame : f = NextFrame
  OBVIOUS
<1>2. /\ told' = IF f.ev = "snapshot" THEN [told EXCEPT ![f.island] = f.rev] ELSE told
      /\ toldAlert' = IF f.ev = "alert" THEN [toldAlert EXCEPT ![f.island] = f.rev] ELSE toldAlert
  BY <1>1 DEF Deliver
<1>3. f.ev \in {"snapshot", "alert"} => f.island \in play.isles /\ f.rev \in Nat
  BY DEF Frame
<1>4. told \in [play.isles -> Nat] /\ toldAlert \in [play.isles -> Nat]
  BY DEF ClientTypeOK
<1>5. told' \in [play.isles -> Nat] /\ toldAlert' \in [play.isles -> Nat]
  BY <1>2, <1>3, <1>4
<1>6. \A i \in play.isles :
          /\ told'[i] = IF IsAbout(f, "snapshot", i) THEN f.rev ELSE told[i]
          /\ toldAlert'[i] = IF IsAbout(f, "alert", i) THEN f.rev ELSE toldAlert[i]
  BY <1>2, <1>3, <1>4 DEF IsAbout
<1> QED BY <1>1, <1>5, <1>6

\* Taken from the catch-up.
LEMMA DeliverSending ==
    ASSUME StreamInv, Deliver, sending # <<>>
    PROVE  StreamInv'
<1>1. /\ UNCHANGED <<play, game, hub, client, lossy, queue>>
      /\ sending' = Tail(sending) /\ NextFrame = Head(sending)
      /\ client = "count" => Len(sending) > 1
  BY DEF Deliver, Deliverable, NextFrame
<1>2. /\ GameTypeOK' /\ WorkInv' /\ Present' = Present
      /\ UNCHANGED <<island, alert, work>> /\ Frame' = Frame
      /\ \A ev, i : Pending(ev, i)' = Pending(ev, i)
  BY <1>1, GameUnchanged
<1>3. sending \in Seq(Frame) /\ queue \in Seq(Frame) /\ ClientTypeOK
  BY DEF StreamInv, ClientTypeOK
<1>4. /\ Head(sending) \in Frame /\ Tail(sending) \in Seq(Frame)
      /\ Len(sending) > 1 =>
             Tail(sending) # <<>> /\ Tail(sending)[Len(Tail(sending))] = sending[Len(sending)]
  <2> HIDE DEF Frame
  <2>1. /\ Head(sending) \in Frame /\ Tail(sending) \in Seq(Frame)
        /\ Len(sending) \in Nat /\ Len(Tail(sending)) = Len(sending) - 1
        /\ \A k \in 1..Len(sending) - 1 : Tail(sending)[k] = sending[k + 1]
    BY <1>3
  <2>2. ASSUME Len(sending) > 1
        PROVE  Tail(sending) # <<>> /\ Tail(sending)[Len(Tail(sending))] = sending[Len(sending)]
    <3>1. Len(sending) - 1 \in 1..Len(sending) - 1 /\ (Len(sending) - 1) + 1 = Len(sending)
      BY <2>1, <2>2
    <3>2. Len(Tail(sending)) # 0
      BY <2>1, <2>2
    <3> QED BY <2>1, <3>1, <3>2
  <2> QED BY <2>1, <2>2
<1>5. /\ told' \in [play.isles -> Nat] /\ toldAlert' \in [play.isles -> Nat]
      /\ \A i \in play.isles :
             /\ told'[i] = IF IsAbout(Head(sending), "snapshot", i) THEN Head(sending).rev
                           ELSE told[i]
             /\ toldAlert'[i] = IF IsAbout(Head(sending), "alert", i) THEN Head(sending).rev
                                ELSE toldAlert[i]
  BY <1>1, <1>3, <1>4, Delivered
<1>6. ClientTypeOK'
  <2> HIDE DEF Frame
  <2> QED BY <1>1, <1>2, <1>3, <1>4, <1>5 DEF ClientTypeOK
<1>7. ASSUME NEW ev, NEW i
      PROVE  /\ Silent(sending, ev, i) =>
                    Silent(sending', ev, i) /\ ~IsAbout(Head(sending), ev, i)
             /\ \A rev : EndsWith(sending, ev, i, rev) =>
                    \/ EndsWith(sending', ev, i, rev)
                    \/ /\ Silent(sending', ev, i)
                       /\ IsAbout(Head(sending), ev, i) /\ Head(sending).rev = rev
  <2>1. /\ Silent(sending, ev, i) =>
               Silent(Tail(sending), ev, i) /\ ~IsAbout(Head(sending), ev, i)
        /\ \A rev : EndsWith(sending, ev, i, rev) =>
               \/ EndsWith(Tail(sending), ev, i, rev)
               \/ /\ Silent(Tail(sending), ev, i)
                  /\ IsAbout(Head(sending), ev, i) /\ Head(sending).rev = rev
    BY <1>3, TailWord
  <2> QED BY <1>1, <2>1
<1>8. UnreadInv'
  <2>1. client' = "count" => sending' # <<>> /\ sending'[Len(sending')].ev = "status"
    BY <1>1, <1>4 DEF StreamInv, UnreadInv
  <2>2. client' \in {"session", "count", "islands"} =>
            \A i \in play.isles : Silent(sending', "snapshot", i)
    BY <1>1, <1>7 DEF StreamInv, UnreadInv
  <2>3. client' # "live" =>
            \A i \in play.isles : Silent(sending', "alert", i) /\ toldAlert'[i] = 0
    BY <1>1, <1>5, <1>7 DEF StreamInv, UnreadInv
  <2> QED BY <1>1, <2>1, <2>2, <2>3 DEF UnreadInv
<1>9. ASSUME hub' = "open" /\ client' # "none" /\ ~lossy', NEW i \in play.isles
      PROVE  /\ i \in Present' => SnapshotWord(i)'
             /\ AlertWord(i)'
  <2>1. (i \in Present => SnapshotWord(i)) /\ AlertWord(i)
    BY <1>1, <1>9 DEF StreamInv, WordInv
  <2>2. ASSUME i \in Present' PROVE SnapshotWord(i)'
    <3>1. SnapshotWord(i)
      BY <1>2, <2>1, <2>2
    <3>2. PICK read, before, after, rev :
              /\ read = (client \in {"alerts", "live"})
              /\ before = told /\ after = told' /\ rev = island[i]
      OBVIOUS
    <3>3. Word("snapshot", i, read, before, rev)
      BY <3>1, <3>2 DEF SnapshotWord
    <3>4. HasRead("snapshot", i, before, rev) => HasRead("snapshot", i, after, rev)'
      BY <1>5, <1>7, <3>2 DEF HasRead
    <3>5. Word("snapshot", i, read, after, rev)'
      BY <1>1, <1>2, <3>2, <3>3, <3>4, QueueStays
    <3> QED BY <1>1, <1>2, <3>2, <3>5 DEF SnapshotWord, Word, HasRead
  <2>3. AlertWord(i)'
    <3>1. PICK read, before, after, rev :
              /\ read = (client = "live")
              /\ before = toldAlert /\ after = toldAlert' /\ rev = alert[i]
      OBVIOUS
    <3>2. Word("alert", i, read, before, rev)
      BY <2>1, <3>1 DEF AlertWord
    <3>3. HasRead("alert", i, before, rev) => HasRead("alert", i, after, rev)'
      BY <1>5, <1>7, <3>1 DEF HasRead
    <3>4. Word("alert", i, read, after, rev)'
      BY <1>1, <1>2, <3>1, <3>2, <3>3, QueueStays
    <3> QED BY <1>1, <1>2, <3>1, <3>4 DEF AlertWord, Word, HasRead
  <2> QED BY <2>2, <2>3
<1>10. WordInv'
  BY <1>1, <1>9 DEF WordInv, Present
<1> QED BY <1>2, <1>6, <1>8, <1>10 DEF StreamInv

\* Taken from the queue, when all that was read has been taken.
LEMMA TakenFromQueue ==
    ASSUME NEW ev, NEW i, NEW read, NEW before, NEW after, NEW rev,
           Word(ev, i, read, before, rev), queue # <<>>, queue \in Seq(Frame),
           queue' = Tail(queue), sending = <<>>, sending' = <<>>, read,
           Pending(ev, i)' = Pending(ev, i),
           after[i] = IF IsAbout(Head(queue), ev, i) THEN Head(queue).rev ELSE before[i]
    PROVE  Word(ev, i, read, after, rev)'
<1>1. Silent(sending, ev, i)' /\ ~EndsWith(sending, ev, i, rev)
  BY DEF Silent, EndsWith
<1>2. /\ Silent(queue, ev, i) => Silent(Tail(queue), ev, i) /\ ~IsAbout(Head(queue), ev, i)
      /\ EndsWith(queue, ev, i, rev) =>
             \/ EndsWith(Tail(queue), ev, i, rev)
             \/ /\ Silent(Tail(queue), ev, i)
                /\ IsAbout(Head(queue), ev, i) /\ Head(queue).rev = rev
  BY TailWord
<1>3. /\ Silent(queue, ev, i)' <=> Silent(Tail(queue), ev, i)
      /\ EndsWith(queue, ev, i, rev)' <=> EndsWith(Tail(queue), ev, i, rev)
  BY DEF Silent, EndsWith
<1>4. CASE Silent(queue, ev, i) /\ before[i] = rev
  <2>1. Silent(queue, ev, i)' /\ after[i] = rev
    BY <1>2, <1>3, <1>4
  <2> QED BY <1>1, <2>1 DEF Word, HasRead
<1>5. CASE EndsWith(queue, ev, i, rev)
  <2>1. \/ EndsWith(queue, ev, i, rev)'
        \/ Silent(queue, ev, i)' /\ after[i] = rev
    BY <1>2, <1>3, <1>5
  <2> QED BY <1>1, <2>1 DEF Word, HasRead
<1>6. CASE Pending(ev, i)
  BY <1>6 DEF Word
<1> QED BY <1>1, <1>4, <1>5, <1>6 DEF Word, HasRead

LEMMA DeliverQueue ==
    ASSUME StreamInv, Deliver, sending = <<>>
    PROVE  StreamInv'
<1>1. /\ UNCHANGED <<play, game, hub, client, lossy, sending>>
      /\ queue # <<>> /\ client = "live"
      /\ queue' = Tail(queue) /\ NextFrame = Head(queue)
  BY DEF Deliver, Deliverable, NextFrame
<1>2. /\ GameTypeOK' /\ WorkInv' /\ Present' = Present
      /\ UNCHANGED <<island, alert, work>> /\ Frame' = Frame
      /\ \A ev, i : Pending(ev, i)' = Pending(ev, i)
  BY <1>1, GameUnchanged
<1>3. sending \in Seq(Frame) /\ queue \in Seq(Frame) /\ ClientTypeOK
  BY DEF StreamInv, ClientTypeOK
<1>4. Head(queue) \in Frame /\ Tail(queue) \in Seq(Frame)
  <2> HIDE DEF Frame
  <2> QED BY <1>1, <1>3
<1>5. /\ told' \in [play.isles -> Nat] /\ toldAlert' \in [play.isles -> Nat]
      /\ \A i \in play.isles :
             /\ told'[i] = IF IsAbout(Head(queue), "snapshot", i) THEN Head(queue).rev ELSE told[i]
             /\ toldAlert'[i] = IF IsAbout(Head(queue), "alert", i) THEN Head(queue).rev
                                ELSE toldAlert[i]
  BY <1>1, <1>3, <1>4, Delivered
<1>6. ClientTypeOK'
  <2> HIDE DEF Frame
  <2> QED BY <1>1, <1>2, <1>3, <1>4, <1>5 DEF ClientTypeOK
<1>7. UnreadInv'
  BY <1>1 DEF UnreadInv
<1>8. ASSUME hub' = "open" /\ client' # "none" /\ ~lossy', NEW i \in play.isles
      PROVE  /\ i \in Present' => SnapshotWord(i)'
             /\ AlertWord(i)'
  <2>1. (i \in Present => SnapshotWord(i)) /\ AlertWord(i)
    BY <1>1, <1>8 DEF StreamInv, WordInv
  <2>2. ASSUME i \in Present' PROVE SnapshotWord(i)'
    <3>1. SnapshotWord(i)
      BY <1>2, <2>1, <2>2
    <3>2. PICK read, before, after, rev :
              /\ read = (client \in {"alerts", "live"})
              /\ before = told /\ after = told' /\ rev = island[i]
      OBVIOUS
    <3>3. Word("snapshot", i, read, before, rev)
      BY <3>1, <3>2 DEF SnapshotWord
    <3>4. after[i] = IF IsAbout(Head(queue), "snapshot", i) THEN Head(queue).rev ELSE before[i]
      BY <1>5, <3>2
    <3>5. read
      BY <1>1, <3>2
    <3>6. Word("snapshot", i, read, after, rev)'
      BY <1>1, <1>2, <1>3, <3>3, <3>4, <3>5, TakenFromQueue
    <3> QED BY <1>1, <1>2, <3>2, <3>6 DEF SnapshotWord, Word, HasRead
  <2>3. AlertWord(i)'
    <3>1. PICK read, before, after, rev :
              /\ read = (client = "live")
              /\ before = toldAlert /\ after = toldAlert' /\ rev = alert[i]
      OBVIOUS
    <3>2. Word("alert", i, read, before, rev)
      BY <2>1, <3>1 DEF AlertWord
    <3>3. after[i] = IF IsAbout(Head(queue), "alert", i) THEN Head(queue).rev ELSE before[i]
      BY <1>5, <3>1
    <3>4. read
      BY <1>1, <3>1
    <3>5. Word("alert", i, read, after, rev)'
      BY <1>1, <1>2, <1>3, <3>2, <3>3, <3>4, TakenFromQueue
    <3> QED BY <1>1, <1>2, <3>1, <3>5 DEF AlertWord, Word, HasRead
  <2> QED BY <2>2, <2>3
<1>9. WordInv'
  BY <1>1, <1>8 DEF WordInv, Present
<1> QED BY <1>2, <1>6, <1>7, <1>9 DEF StreamInv

-----------------------------------------------------------------------------
(* The stream ends with the newest *)

LEMMA StreamStep ==
    ASSUME StreamInv, [PageNext]_vars
    PROVE  StreamInv'
<1>1. CASE UNCHANGED streamVars
  <2>1. UNCHANGED <<play, game, stream>>
    BY <1>1 DEF streamVars
  <2>2. GameTypeOK' /\ WorkInv' /\ UNCHANGED <<island, alert, work>>
        /\ \A ev, i : Pending(ev, i)' = Pending(ev, i)
    BY <2>1, GameUnchanged
  <2> QED BY <2>1, <2>2, GameStep
<1>2. CASE Outside
  BY <1>2, TickKeeps, SessionKeeps, NoticeKeeps, ConnectKeeps, CloseKeeps DEF Outside
<1>3. CASE PipelineStep
  BY <1>3, PutKeeps, ResetKeeps, ApplyKeeps, ClearKeeps, PublishKeeps DEF PipelineStep
<1>4. CASE NoticeStep
  BY <1>4, NoticeKeeps, SendNoticeKeeps DEF NoticeStep
<1>5. CASE HandlerStep
  BY <1>5, ConnectKeeps, CatchUpStep DEF HandlerStep
<1>6. CASE OnEvent
  BY <1>6, DeliverSending, DeliverQueue DEF OnEvent
<1>7. CASE FetchStep
  BY <1>1, <1>7 DEF FetchStep, ServeIslands, ApplyIslands, ServeLoad, ApplyLoad
<1>8. CASE FailIslands \/ \E l \in Load : FailLoad(l)
  BY <1>1, <1>8 DEF FailIslands, FailLoad
<1> QED BY <1>1, <1>2, <1>3, <1>4, <1>5, <1>6, <1>7, <1>8 DEF PageNext, vars

LEMMA StreamStart ==
    ASSUME PageInit
    PROVE  StreamInv
<1>1. /\ play \in Plays /\ island \in {Zero, [i \in play.isles |-> 1]}
      /\ session = 1 /\ linked = TRUE /\ alert = Zero /\ work = <<>> /\ changes = 0
      /\ notice = [at |-> "idle", session |-> 0]
      /\ client = "none" /\ sending = <<>> /\ queue = <<>> /\ told = Zero /\ toldAlert = Zero
  BY DEF PageInit, StreamInit
<1>2. GameTypeOK
  <2>1. island \in [play.isles -> Nat] /\ alert \in [play.isles -> Nat]
    BY <1>1 DEF Zero
  <2>2. work \in Seq(Item)
    <3> HIDE DEF Item
    <3> QED BY <1>1
  <2>3. notice \in [at : {"idle", "due", "rendering"}, session : Nat]
    BY <1>1
  <2> HIDE DEF Item
  <2> QED BY <1>1, <2>1, <2>2, <2>3 DEF GameTypeOK
<1>3. ClientTypeOK
  <2> HIDE DEF Frame
  <2> QED BY <1>1 DEF ClientTypeOK, Zero
<1>4. WorkInv /\ UnreadInv /\ WordInv
  BY <1>1 DEF WorkInv, UnreadInv, WordInv, Silent, Zero
<1> QED BY <1>2, <1>3, <1>4 DEF StreamInv

(***************************************************************************)
(* A caught-up stream that has lost no event ends with the newest of every *)
(* island and every alert, for any islands, any queue and any order of the *)
(* handler's reads and the pipeline's broadcasts.                          *)
(***************************************************************************)
THEOREM StreamEndsNewest == PageSpec => []StreamIsNewest
<1>1. StreamInv => StreamIsNewest
  <2> SUFFICES ASSUME StreamInv, work = <<>> /\ client = "live" /\ hub = "open" /\ ~lossy
               PROVE  /\ \A i \in Present : Newest("snapshot", i, told, island[i])
                      /\ \A i \in play.isles : Newest("alert", i, toldAlert, alert[i])
    BY DEF StreamIsNewest
  <2>1. \A ev, i : ~Pending(ev, i)
    BY DEF Pending
  <2> QED BY <2>1 DEF StreamInv, WordInv, SnapshotWord, AlertWord, Word, HasRead, Newest
<1> QED BY <1>1, StreamStart, StreamStep, PTL DEF PageSpec
=============================================================================

---------------------------- MODULE AlertProofs ----------------------------
(***************************************************************************)
(* Proofs about the rule engine, for any thresholds Config.withDefaults    *)
(* leaves, any islands, products and readings, receive times in any order, *)
(* vanished products and session boundaries.                               *)
(***************************************************************************)
EXTENDS AlertHistory, FiniteSetTheorems, WellFoundedInduction, SequenceTheorems, TLAPS

AnyReading == UNION {Reading[p] : p \in Product}

Sample == [at : Nat, value : Nat]

\* What is remembered of an open alert.
Held == [rule : RuleNames, raised : Time]

RuleState ==
    [negative : 0..StreakCap, nonNegative : 0..StreakCap,
     deficit : Held \cup {NoAlert}, samples : Seq(Sample), drop : Held \cup {NoAlert},
     clock : Nat, lastSeen : 0..MaxTime]

AlertTypeOK ==
    /\ rules \in [Key -> RuleState] /\ newest \in 0..MaxTime
    /\ past \in [Key -> Seq(AnyReading)]

\* Samples in the order of the clock, which has reached this time.
Ordered(samples, clock) ==
    /\ \A n \in 1..Len(samples) : samples[n].at <= clock
    /\ \A m, n \in 1..Len(samples) : m <= n => samples[m].at <= samples[n].at

\* None is older than this.
NotBefore(samples, cutoff) == \A n \in 1..Len(samples) : cutoff <= samples[n].at

\* A baseline in order and inside its window.
Trailing(s) ==
    /\ Len(s.samples) <= MaxDropSamples
    /\ Ordered(s.samples, s.clock)
    /\ NotBefore(s.samples, s.clock - DropWindow)

\* No alert of this product was raised later than at t.
RaisedBy(s, t) ==
    /\ s.deficit # NoAlert => s.deficit.raised <= t
    /\ s.drop # NoAlert => s.drop.raised <= t

\* The counters are the streaks with which the readings end.
Counts(s, readings) ==
    \A n \in 1..StreakCap :
        /\ s.negative >= n <=> Streak(readings, Len(readings), n, "negative")
        /\ s.nonNegative >= n <=> Streak(readings, Len(readings), n, "other")

RuleOf(r) == IF r.buildings THEN "deficit" ELSE "no_local_production"

DeficitBy(s, readings) ==
    /\ s.deficit # NoAlert <=> InDeficit(readings)
    /\ s.deficit # NoAlert => s.deficit.rule = RuleOf(Last(readings))

DropBy(s, readings) ==
    s.drop # NoAlert =>
        /\ s.drop.rule = "productivity_drop"
        /\ Last(readings).buildings
        /\ \/ ~Streak(readings, Len(readings), DeficitClearSamples, "other")
           \/ Last(readings).prod = Unreadable

ProductInv(s, readings) ==
    Trailing(s) /\ Counts(s, readings) /\ DeficitBy(s, readings) /\ DropBy(s, readings)

AlertInv ==
    /\ AlertTypeOK
    /\ \A k \in Key : RaisedBy(rules[k], newest) /\ ProductInv(rules[k], past[k])

-----------------------------------------------------------------------------
(* Constants, sequences and minima *)

LEMMA GivenFacts ==
    /\ \A field \in DOMAIN DefaultConfig : Usable(field) \in Nat \ {0}
    /\ DOMAIN DefaultConfig =
          {"DeficitSamples", "DeficitClearSamples", "DropNegativeSamples", "MinSamplesForDrop",
           "DropPercentagePoints", "DropClearPercentagePoints", "DropWindow"}
<1>1. DOMAIN DefaultConfig =
          {"DeficitSamples", "DeficitClearSamples", "DropNegativeSamples", "MinSamplesForDrop",
           "DropPercentagePoints", "DropClearPercentagePoints", "DropWindow"}
  BY DEF DefaultConfig
<1>2. \A field \in DOMAIN DefaultConfig : DefaultConfig[field] \in Nat \ {0}
  BY DEF DefaultConfig
<1>3. \A field \in DOMAIN DefaultConfig : Given[field] \in Int
  BY AlertAssumption
<1> QED BY <1>1, <1>2, <1>3 DEF Usable

(***************************************************************************)
(* Whatever Config holds, withDefaults leaves thresholds that work         *)
(* (config.go:75-106): every count and the window are positive, and a drop *)
(* clears at a smaller distance than it is raised at, which is the         *)
(* hysteresis.                                                             *)
(***************************************************************************)
THEOREM ThresholdsWork ==
    /\ {DeficitSamples, DeficitClearSamples, DropNegativeSamples, MinSamplesForDrop,
        DropWindow, DropPoints, DropClearPoints} \subseteq Nat \ {0}
    /\ DropClearPoints < DropPoints
<1>1. /\ DeficitSamples \in Nat \ {0} /\ DeficitClearSamples \in Nat \ {0}
      /\ DropNegativeSamples \in Nat \ {0} /\ MinSamplesForDrop \in Nat \ {0}
      /\ DropWindow \in Nat \ {0} /\ DropPoints \in Nat \ {0}
      /\ Usable("DropClearPercentagePoints") \in Nat \ {0}
  BY GivenFacts DEF DeficitSamples, DeficitClearSamples, DropNegativeSamples,
     MinSamplesForDrop, DropWindow, DropPoints
<1>2. DropPoints % 2 = 0
  <2>1. "DropPercentagePoints" \in DOMAIN DefaultConfig
    BY GivenFacts
  <2>2. Given.DropPercentagePoints \in Int /\ Given.DropPercentagePoints % 2 = 0
    BY <2>1, AlertAssumption
  <2>3. DropPoints = Given.DropPercentagePoints \/ DropPoints = 20
    BY DEF DropPoints, Usable, DefaultConfig
  <2> QED BY <2>2, <2>3
<1>3. DropPoints \div 2 \in Nat \ {0} /\ DropPoints \div 2 < DropPoints
  BY <1>1, <1>2
<1>4. DropClearPoints \in Nat \ {0} /\ DropClearPoints < DropPoints
  BY <1>1, <1>3 DEF DropClearPoints
<1> QED BY <1>1, <1>4

LEMMA Thresholds ==
    /\ DeficitSamples \in 1..StreakCap /\ DeficitClearSamples \in 1..StreakCap
    /\ DropNegativeSamples \in 1..StreakCap /\ StreakCap \in Nat \ {0}
    /\ DropWindow \in Nat \ {0} /\ MaxDropSamples \in Nat \ {0} /\ MaxTime \in Nat
    /\ NoAlert \notin Held
<1>1. /\ DeficitSamples <= StreakCap /\ DeficitClearSamples <= StreakCap
      /\ DropNegativeSamples <= StreakCap /\ StreakCap \in Nat
      /\ MaxDropSamples \in Nat \ {0} /\ MaxTime \in Nat /\ NoAlert \notin Held
  BY AlertAssumption DEF Held
<1> QED BY <1>1, ThresholdsWork

LEMMA ReadingFacts ==
    ASSUME NEW r \in AnyReading
    PROVE  /\ r.delta \in {"negative", "other"} /\ r.buildings \in BOOLEAN
           /\ r.prod \in Nat \cup {Unreadable}
BY AlertAssumption DEF AnyReading

LEMMA AppendFacts ==
    ASSUME NEW T, NEW s \in Seq(T), NEW e \in T
    PROVE  /\ Len(s) \in Nat /\ DOMAIN s = 1..Len(s)
           /\ Append(s, e) \in Seq(T) /\ Len(Append(s, e)) = Len(s) + 1
           /\ DOMAIN Append(s, e) = 1..Len(s) + 1
           /\ \A k \in 1..Len(s) : Append(s, e)[k] = s[k]
           /\ Append(s, e)[Len(s) + 1] = e
OBVIOUS

\* The end of a sequence from position m on.
LEMMA EndFacts ==
    ASSUME NEW T, NEW s \in Seq(T), NEW m \in Nat, 1 <= m, m <= Len(s) + 1
    PROVE  /\ SubSeq(s, m, Len(s)) \in Seq(T) /\ Len(s) \in Nat
           /\ Len(SubSeq(s, m, Len(s))) = Len(s) - m + 1
           /\ \A k \in 1..Len(s) - m + 1 :
                 SubSeq(s, m, Len(s))[k] = s[m + k - 1] /\ m + k - 1 \in 1..Len(s)
<1>1. Len(s) \in Nat
  OBVIOUS
<1> QED BY <1>1, SubSeqProperties

\* Min is the least member.
LEMMA MinIsLeast ==
    ASSUME NEW S, S \subseteq Nat, S # {}
    PROVE  Min(S) \in S /\ \A x \in S : Min(S) <= x
<1> DEFINE R == OpToRel(<, Nat)
<1>1. \A x, y \in Nat : x < y => <<x, y>> \in R
  BY DEF OpToRel
<1>2. IsWellFoundedOn(R, Nat)
  BY NatLessThanWellFounded
<1> HIDE DEF R
<1>3. PICK m \in S : \A y \in S : <<y, m>> \notin R
  BY <1>2, WFMin
<1>4. ASSUME NEW y \in S PROVE m <= y
  <2>1. m \in Nat /\ y \in Nat
    OBVIOUS
  <2>2. ~(y < m)
    BY <1>1, <1>3, <2>1
  <2> QED BY <2>1, <2>2
<1>5. \E x \in S : \A y \in S : x <= y
  BY <1>4
<1> QED BY <1>5 DEF Min

-----------------------------------------------------------------------------
(* The baseline *)

LEMMA SampleFacts ==
    ASSUME NEW samples \in Seq(Sample)
    PROVE  /\ Len(samples) \in Nat /\ DOMAIN samples = 1..Len(samples)
           /\ \A n \in 1..Len(samples) : samples[n] \in Sample /\ samples[n].at \in Nat
<1>1. \A x \in Sample : x.at \in Nat
  BY DEF Sample
<1> HIDE DEF Sample
<1>2. \A n \in 1..Len(samples) : samples[n] \in Sample
  OBVIOUS
<1> QED BY <1>1, <1>2

\* The end of an ordered sequence is ordered, and its first is the oldest.
LEMMA EndTrails ==
    ASSUME NEW samples \in Seq(Sample), NEW clock \in Nat, NEW m \in 1..Len(samples),
           NEW cutoff \in Int, Ordered(samples, clock), cutoff <= samples[m].at
    PROVE  /\ SubSeq(samples, m, Len(samples)) \in Seq(Sample)
           /\ Len(SubSeq(samples, m, Len(samples))) = Len(samples) - m + 1
           /\ Ordered(SubSeq(samples, m, Len(samples)), clock)
           /\ NotBefore(SubSeq(samples, m, Len(samples)), cutoff)
<1> DEFINE end == SubSeq(samples, m, Len(samples))
<1>1. Len(samples) \in Nat /\ m \in Nat /\ 1 <= m /\ m <= Len(samples) + 1
  BY SampleFacts
<1>2. /\ end \in Seq(Sample) /\ Len(end) = Len(samples) - m + 1
      /\ \A k \in 1..Len(samples) - m + 1 :
            end[k] = samples[m + k - 1] /\ m + k - 1 \in 1..Len(samples)
  BY <1>1, EndFacts
<1> HIDE DEF end
<1>3. ASSUME NEW k \in 1..Len(end)
      PROVE  end[k].at <= clock /\ cutoff <= end[k].at
  <2>1. end[k] = samples[m + k - 1] /\ m + k - 1 \in 1..Len(samples) /\ m <= m + k - 1
    BY <1>1, <1>2
  <2>2. samples[m].at <= samples[m + k - 1].at /\ samples[m + k - 1].at <= clock
    BY <2>1 DEF Ordered
  <2>3. samples[m].at \in Nat /\ samples[m + k - 1].at \in Nat
    BY <2>1, SampleFacts
  <2> QED BY <2>1, <2>2, <2>3
<1>4. ASSUME NEW j \in 1..Len(end), NEW k \in 1..Len(end), j <= k
      PROVE  end[j].at <= end[k].at
  <2>1. /\ end[j] = samples[m + j - 1] /\ m + j - 1 \in 1..Len(samples)
        /\ end[k] = samples[m + k - 1] /\ m + k - 1 \in 1..Len(samples)
        /\ m + j - 1 <= m + k - 1
    BY <1>1, <1>2, <1>4
  <2> QED BY <2>1 DEF Ordered
<1>5. Ordered(end, clock) /\ NotBefore(end, cutoff)
  BY <1>3, <1>4 DEF Ordered, NotBefore
<1> QED BY <1>2, <1>5 DEF end

LEMMA NoneTrails ==
    ASSUME NEW clock, NEW cutoff
    PROVE  /\ <<>> \in Seq(Sample) /\ Len(<<>>) = 0
           /\ Ordered(<<>>, clock) /\ NotBefore(<<>>, cutoff)
<1>1. <<>> \in Seq(Sample) /\ Len(<<>>) = 0 /\ 1..0 = {}
  OBVIOUS
<1> QED BY <1>1 DEF Ordered, NotBefore

LEMMA PruneInSeq ==
    ASSUME NEW samples \in Seq(Sample), NEW cutoff
    PROVE  Prune(samples, cutoff) \in Seq(Sample)
<1> DEFINE recent == {n \in DOMAIN samples : samples[n].at >= cutoff}
<1>0. Len(samples) \in Nat /\ DOMAIN samples = 1..Len(samples)
  BY SampleFacts
<1>1. CASE recent = {}
  <2>1. Prune(samples, cutoff) = <<>>
    BY <1>1 DEF Prune
  <2> QED BY <2>1, NoneTrails
<1>2. CASE recent # {}
  <2>1. recent \subseteq Nat
    BY <1>0
  <2>2. Min(recent) \in recent
    <3> HIDE DEF recent
    <3> QED BY <1>2, <2>1, MinIsLeast
  <2>3. PICK m \in 1..Len(samples) : m = Min(recent)
    BY <1>0, <2>2
  <2>4. m \in Nat /\ 1 <= m /\ m <= Len(samples) + 1
    BY <1>0
  <2>5. SubSeq(samples, m, Len(samples)) \in Seq(Sample)
    BY <2>4, EndFacts
  <2>6. Prune(samples, cutoff) = SubSeq(samples, m, Len(samples))
    BY <1>2, <2>3 DEF Prune
  <2> QED BY <2>5, <2>6
<1> QED BY <1>1, <1>2

LEMMA PruneTrails ==
    ASSUME NEW samples \in Seq(Sample), NEW clock \in Nat, NEW cutoff \in Int,
           Ordered(samples, clock)
    PROVE  /\ Prune(samples, cutoff) \in Seq(Sample)
           /\ Len(Prune(samples, cutoff)) <= Len(samples)
           /\ Ordered(Prune(samples, cutoff), clock)
           /\ NotBefore(Prune(samples, cutoff), cutoff)
<1> DEFINE recent == {n \in DOMAIN samples : samples[n].at >= cutoff}
<1>0. Len(samples) \in Nat /\ DOMAIN samples = 1..Len(samples)
  BY SampleFacts
<1>1. CASE recent = {}
  <2>1. Prune(samples, cutoff) = <<>>
    BY <1>1 DEF Prune
  <2> QED BY <1>0, <2>1, NoneTrails
<1>2. CASE recent # {}
  <2>1. recent \subseteq Nat
    BY <1>0
  <2>2. Min(recent) \in recent
    <3> HIDE DEF recent
    <3> QED BY <1>2, <2>1, MinIsLeast
  <2>3. Prune(samples, cutoff) = SubSeq(samples, Min(recent), Len(samples))
    BY <1>2 DEF Prune
  <2>4. PICK m \in 1..Len(samples) : m = Min(recent) /\ samples[m].at >= cutoff
    BY <1>0, <2>2
  <2>5. samples[m].at \in Nat /\ cutoff <= samples[m].at
    BY <2>4, SampleFacts
  <2>6. Prune(samples, cutoff) = SubSeq(samples, m, Len(samples))
    BY <2>3, <2>4
  <2>7. /\ SubSeq(samples, m, Len(samples)) \in Seq(Sample)
        /\ Len(SubSeq(samples, m, Len(samples))) = Len(samples) - m + 1
        /\ Ordered(SubSeq(samples, m, Len(samples)), clock)
        /\ NotBefore(SubSeq(samples, m, Len(samples)), cutoff)
    BY <2>5, EndTrails
  <2>8. Len(samples) - m + 1 <= Len(samples)
    BY <1>0
  <2> QED BY <2>6, <2>7, <2>8
<1> QED BY <1>1, <1>2

\* A sample of this moment at the end: what is cut is the beginning.
LEMMA AppendSampleOf ==
    ASSUME NEW samples \in Seq(Sample), NEW x \in Sample
    PROVE  \E m \in 1..Len(Append(samples, x)) :
              /\ AppendSample(samples, x)
                    = SubSeq(Append(samples, x), m, Len(Append(samples, x)))
              /\ Len(Append(samples, x)) - m + 1 <= MaxDropSamples
<1>1. PICK longer \in Seq(Sample) : longer = Append(samples, x)
  BY AppendFacts
<1>2. Len(longer) \in Nat /\ Len(longer) >= 1 /\ MaxDropSamples \in Nat /\ MaxDropSamples >= 1
  BY <1>1, AppendFacts, Thresholds
<1>3. CASE Len(longer) > MaxDropSamples
  <2>1. PICK m \in 1..Len(longer) :
           m = Len(longer) - MaxDropSamples + 1 /\ Len(longer) - m + 1 <= MaxDropSamples
    <3>1. Len(longer) - MaxDropSamples + 1 \in 1..Len(longer)
      BY <1>2, <1>3
    <3> WITNESS Len(longer) - MaxDropSamples + 1 \in 1..Len(longer)
    <3> QED BY <1>2, <1>3
  <2>2. AppendSample(samples, x) = SubSeq(longer, m, Len(longer))
    BY <1>1, <1>3, <2>1 DEF AppendSample
  <2> QED BY <1>1, <2>1, <2>2
<1>4. CASE ~(Len(longer) > MaxDropSamples)
  <2>1. PICK m \in 1..Len(longer) :
           m = Len(longer) - Len(longer) + 1 /\ Len(longer) - m + 1 <= MaxDropSamples
    <3>1. 1 \in 1..Len(longer)
      BY <1>2
    <3> WITNESS 1 \in 1..Len(longer)
    <3> QED BY <1>2, <1>4
  <2>2. AppendSample(samples, x) = SubSeq(longer, m, Len(longer))
    BY <1>1, <1>4, <2>1 DEF AppendSample
  <2> QED BY <1>1, <2>1, <2>2
<1> QED BY <1>3, <1>4

LEMMA AppendInSeq ==
    ASSUME NEW samples \in Seq(Sample), NEW at \in Nat, NEW value \in Nat
    PROVE  AppendSample(samples, [at |-> at, value |-> value]) \in Seq(Sample)
<1>1. [at |-> at, value |-> value] \in Sample
  BY DEF Sample
<1>2. PICK x \in Sample : x = [at |-> at, value |-> value]
  BY <1>1
<1>3. PICK longer \in Seq(Sample) : longer = Append(samples, x)
  BY AppendFacts
<1>4. PICK m \in 1..Len(longer) : AppendSample(samples, x) = SubSeq(longer, m, Len(longer))
  BY <1>3, AppendSampleOf
<1>5. m \in Nat /\ 1 <= m /\ m <= Len(longer) + 1
  BY <1>3, SampleFacts
<1> QED BY <1>2, <1>4, <1>5, EndFacts

LEMMA AppendTrails ==
    ASSUME NEW samples \in Seq(Sample), NEW clock \in Nat, NEW cutoff \in Int,
           NEW value \in Nat, cutoff <= clock,
           Len(samples) <= MaxDropSamples,
           Ordered(samples, clock), NotBefore(samples, cutoff)
    PROVE  /\ AppendSample(samples, [at |-> clock, value |-> value]) \in Seq(Sample)
           /\ Len(AppendSample(samples, [at |-> clock, value |-> value])) <= MaxDropSamples
           /\ Ordered(AppendSample(samples, [at |-> clock, value |-> value]), clock)
           /\ NotBefore(AppendSample(samples, [at |-> clock, value |-> value]), cutoff)
<1>0. [at |-> clock, value |-> value] \in Sample /\ [at |-> clock, value |-> value].at = clock
  BY DEF Sample
<1>1. PICK x \in Sample : x = [at |-> clock, value |-> value] /\ x.at = clock
  BY <1>0
<1>2. PICK longer \in Seq(Sample) : longer = Append(samples, x)
  BY AppendFacts
<1>3. /\ Len(samples) \in Nat /\ Len(longer) = Len(samples) + 1
      /\ \A n \in 1..Len(samples) : longer[n] = samples[n]
      /\ longer[Len(samples) + 1] = x
  BY <1>2, AppendFacts
<1>4. \A n \in 1..Len(samples) : samples[n].at \in Nat
  BY SampleFacts
<1>5. ASSUME NEW n \in 1..Len(longer)
      PROVE  longer[n].at <= clock /\ cutoff <= longer[n].at
  <2>1. CASE n = Len(samples) + 1
    BY <1>1, <1>3, <2>1
  <2>2. CASE n # Len(samples) + 1
    <3>1. n \in 1..Len(samples)
      BY <1>3, <2>2
    <3> QED BY <1>3, <3>1 DEF Ordered, NotBefore
  <2> QED BY <2>1, <2>2
<1>6. ASSUME NEW m \in 1..Len(longer), NEW n \in 1..Len(longer), m <= n
      PROVE  longer[m].at <= longer[n].at
  <2>1. CASE n = Len(samples) + 1
    BY <1>1, <1>3, <1>5, <2>1
  <2>2. CASE n # Len(samples) + 1
    <3>1. n \in 1..Len(samples) /\ m \in 1..Len(samples)
      BY <1>3, <1>6, <2>2
    <3> QED BY <1>3, <1>6, <3>1 DEF Ordered
  <2> QED BY <2>1, <2>2
<1>7. Ordered(longer, clock)
  BY <1>5, <1>6 DEF Ordered
<1>8. PICK m \in 1..Len(longer) :
         /\ AppendSample(samples, x) = SubSeq(longer, m, Len(longer))
         /\ Len(longer) - m + 1 <= MaxDropSamples
  BY <1>2, AppendSampleOf
<1>9. AppendSample(samples, [at |-> clock, value |-> value]) = SubSeq(longer, m, Len(longer))
  BY <1>1, <1>8
<1>10. cutoff <= longer[m].at
  BY <1>5
<1>11. /\ SubSeq(longer, m, Len(longer)) \in Seq(Sample)
       /\ Len(SubSeq(longer, m, Len(longer))) = Len(longer) - m + 1
       /\ Ordered(SubSeq(longer, m, Len(longer)), clock)
       /\ NotBefore(SubSeq(longer, m, Len(longer)), cutoff)
  BY <1>7, <1>10, EndTrails
<1> QED BY <1>8, <1>9, <1>11

-----------------------------------------------------------------------------
(* What a rule does to a product's state *)

Counters(s) == <<s.negative, s.nonNegative>>
Backlog(s) == <<s.samples, s.drop, s.clock, s.lastSeen>>

Counted(s, delta) ==
    IF delta = "negative" THEN <<Count(s.negative), 0>> ELSE <<0, Count(s.nonNegative)>>

\* d is what the deficit rule makes of s at a reading r received at t.
DeficitStep(s, d, r, t) ==
    /\ d \in RuleState /\ Backlog(d) = Backlog(s) /\ Counters(d) = Counted(s, r.delta)
    /\ d.deficit \in {s.deficit, NoAlert, [rule |-> RuleOf(r), raised |-> t]}
    /\ d.deficit # NoAlert <=>
          \/ d.negative >= DeficitSamples
          \/ /\ s.deficit # NoAlert /\ s.deficit.rule = RuleOf(r)
             /\ ~(d.nonNegative >= DeficitClearSamples)
    /\ d.deficit # NoAlert => d.deficit.rule = RuleOf(r)

\* d is what the drop rule makes of s.
DropStep(s, d, r, t) ==
    /\ d \in RuleState /\ Counters(d) = Counters(s) /\ d.deficit = s.deficit
    /\ Trailing(s) => Trailing(d)
    /\ d.drop \in {s.drop, NoAlert, [rule |-> "productivity_drop", raised |-> t]}
    /\ d.drop # NoAlert =>
          /\ r.buildings
          /\ \/ r.prod = Unreadable
             \/ ~BalanceRecovered(s)
             \/ s.negative >= DropNegativeSamples

\* d is s without a baseline and without a drop.
DropEnd(s, d) ==
    /\ d \in RuleState /\ Counters(d) = Counters(s) /\ d.deficit = s.deficit
    /\ Trailing(d) /\ d.drop = NoAlert

LEMMA CountFacts ==
    ASSUME NEW n \in 0..StreakCap
    PROVE  Count(n) \in 0..StreakCap
BY Thresholds DEF Count

LEMMA StreaksOf ==
    ASSUME NEW s \in RuleState, NEW r \in AnyReading
    PROVE  /\ Streaks(s, r.delta) \in RuleState
           /\ Backlog(Streaks(s, r.delta)) = Backlog(s)
           /\ Counters(Streaks(s, r.delta)) = Counted(s, r.delta)
           /\ Streaks(s, r.delta).deficit = s.deficit
<1>1. r.delta \in {"negative", "other"}
  BY ReadingFacts
<1>2. s.negative \in 0..StreakCap /\ s.nonNegative \in 0..StreakCap /\ 0 \in 0..StreakCap
  BY Thresholds DEF RuleState
<1>3. Count(s.negative) \in 0..StreakCap /\ Count(s.nonNegative) \in 0..StreakCap
  BY <1>2, CountFacts
<1> QED BY <1>1, <1>2, <1>3 DEF Streaks, RuleState, Backlog, Counters, Counted

LEMMA HandOverOf ==
    ASSUME NEW s \in RuleState, NEW k, NEW r \in AnyReading, NEW t \in Time
    PROVE  /\ HandOver(s, k, RuleOf(r), t).state \in RuleState
           /\ Backlog(HandOver(s, k, RuleOf(r), t).state) = Backlog(s)
           /\ Counters(HandOver(s, k, RuleOf(r), t).state) = Counters(s)
           /\ HandOver(s, k, RuleOf(r), t).state.deficit =
                 IF s.deficit # NoAlert /\ s.deficit.rule = RuleOf(r) THEN s.deficit ELSE NoAlert
BY DEF HandOver, RuleState, Backlog, Counters

LEMMA AlertFacts ==
    ASSUME NEW r, NEW t \in Time
    PROVE  /\ [rule |-> RuleOf(r), raised |-> t] \in Held
           /\ [rule |-> RuleOf(r), raised |-> t] # NoAlert
           /\ [rule |-> "productivity_drop", raised |-> t] \in Held
           /\ [rule |-> "productivity_drop", raised |-> t] # NoAlert
<1>1. /\ [rule |-> RuleOf(r), raised |-> t] \in Held
      /\ [rule |-> "productivity_drop", raised |-> t] \in Held
  BY DEF Held, RuleOf, RuleNames
<1> QED BY <1>1, Thresholds

LEMMA DeficitOf ==
    ASSUME NEW s \in RuleState, NEW k, NEW r \in AnyReading, NEW t \in Time
    PROVE  DeficitStep(s, Deficit(s, k, r, t).state, r, t)
<1> DEFINE counted == Streaks(s, r.delta)
           handed == HandOver(counted, k, RuleOf(r), t)
           now == handed.state
           fresh == [rule |-> RuleOf(r), raised |-> t]
<1>1. /\ counted \in RuleState /\ Backlog(counted) = Backlog(s)
      /\ Counters(counted) = Counted(s, r.delta) /\ counted.deficit = s.deficit
  BY StreaksOf
<1> HIDE DEF counted
<1>2. /\ now \in RuleState /\ Backlog(now) = Backlog(s) /\ Counters(now) = Counted(s, r.delta)
      /\ now.deficit = IF s.deficit # NoAlert /\ s.deficit.rule = RuleOf(r)
                       THEN s.deficit ELSE NoAlert
  BY <1>1, HandOverOf
<1>3. fresh \in Held /\ fresh # NoAlert /\ fresh.rule = RuleOf(r)
  BY AlertFacts
<1>4. Deficit(s, k, r, t).state =
         IF now.deficit = NoAlert /\ now.negative >= DeficitSamples
         THEN [now EXCEPT !.deficit = fresh]
         ELSE IF now.deficit # NoAlert /\ now.nonNegative >= DeficitClearSamples
         THEN [now EXCEPT !.deficit = NoAlert]
         ELSE now
  BY DEF Deficit, RuleOf, counted
<1> HIDE DEF handed, fresh
<1>5. r.delta \in {"negative", "other"} /\ now.negative \in Nat /\ now.nonNegative \in Nat
  BY <1>2, ReadingFacts, Thresholds DEF RuleState
<1>6. now.negative >= DeficitSamples => ~(now.nonNegative >= DeficitClearSamples)
  <2>1. now.negative = 0 \/ now.nonNegative = 0
    BY <1>2, <1>5 DEF Counters, Counted
  <2> QED BY <1>5, <2>1, Thresholds
<1>7. ASSUME NEW a \in {NoAlert, fresh}
      PROVE  /\ [now EXCEPT !.deficit = a] \in RuleState
             /\ Backlog([now EXCEPT !.deficit = a]) = Backlog(s)
             /\ Counters([now EXCEPT !.deficit = a]) = Counted(s, r.delta)
             /\ [now EXCEPT !.deficit = a].deficit = a
             /\ [now EXCEPT !.deficit = a].negative = now.negative
             /\ [now EXCEPT !.deficit = a].nonNegative = now.nonNegative
  BY <1>2, <1>3 DEF RuleState, Backlog, Counters
<1>8. CASE now.deficit = NoAlert /\ now.negative >= DeficitSamples
  <2>1. Deficit(s, k, r, t).state = [now EXCEPT !.deficit = fresh]
    BY <1>4, <1>8
  <2> QED BY <1>2, <1>3, <1>7, <1>8, <2>1 DEF DeficitStep, fresh
<1>9. CASE now.deficit # NoAlert /\ now.nonNegative >= DeficitClearSamples
  <2>1. Deficit(s, k, r, t).state = [now EXCEPT !.deficit = NoAlert]
    BY <1>4, <1>9
  <2> QED BY <1>2, <1>3, <1>6, <1>7, <1>9, <2>1 DEF DeficitStep, fresh
<1>10. CASE /\ ~(now.deficit = NoAlert /\ now.negative >= DeficitSamples)
            /\ ~(now.deficit # NoAlert /\ now.nonNegative >= DeficitClearSamples)
  <2>1. Deficit(s, k, r, t).state = now
    BY <1>4, <1>10
  <2> QED BY <1>2, <1>10, <2>1 DEF DeficitStep, fresh
<1> QED BY <1>8, <1>9, <1>10

-----------------------------------------------------------------------------
(* The drop rule *)

LEMMA EndDropOf ==
    ASSUME NEW s \in RuleState, NEW k, NEW t
    PROVE  DropEnd(s, EndDrop(s, k, t).state)
<1>1. PICK bare : bare = [s EXCEPT !.samples = <<>>, !.clock = 0, !.lastSeen = 0]
  OBVIOUS
<1>2. <<>> \in Seq(Sample) /\ 0 \in 0..MaxTime
  BY Thresholds, NoneTrails
<1>3. /\ bare \in RuleState /\ Counters(bare) = Counters(s) /\ bare.deficit = s.deficit
      /\ bare.samples = <<>>
  BY <1>1, <1>2 DEF RuleState, Counters
<1>4. PICK d : d = [bare EXCEPT !.drop = NoAlert]
  OBVIOUS
<1>5. /\ d \in RuleState /\ Counters(d) = Counters(s) /\ d.deficit = s.deficit
      /\ d.samples = <<>> /\ d.drop = NoAlert
  BY <1>3, <1>4 DEF RuleState, Counters
<1>6. Trailing(d)
  BY <1>5, NoneTrails, Thresholds DEF Trailing
<1>7. EndDrop(s, k, t).state = d
  BY <1>1, <1>4 DEF EndDrop, ClearDrop
<1> QED BY <1>5, <1>6, <1>7 DEF DropEnd

LEMMA ElapsedIsTime ==
    ASSUME NEW s \in RuleState, NEW t \in Time
    PROVE  Elapsed(s, t) \in Nat
<1>1. s.lastSeen \in Nat /\ t \in Nat
  BY Thresholds DEF RuleState, Time
<1> QED BY <1>1 DEF Elapsed

\* The clock moves on and the baseline with it.
LEMMA BaselineOf ==
    ASSUME NEW s \in RuleState, NEW r, NEW p, NEW t \in Time
    PROVE  /\ Baseline(s, r, p, t) \in RuleState
           /\ Counters(Baseline(s, r, p, t)) = Counters(s)
           /\ Baseline(s, r, p, t).deficit = s.deficit
           /\ Baseline(s, r, p, t).drop = s.drop
           /\ Trailing(s) => Trailing(Baseline(s, r, p, t))
<1>1. t \in 0..MaxTime
  BY Thresholds DEF Time
<1>2. CASE Idle(s, r, p)
  <2>1. PICK b : b = [s EXCEPT !.lastSeen = t]
    OBVIOUS
  <2>2. /\ b \in RuleState /\ Counters(b) = Counters(s)
        /\ b.deficit = s.deficit /\ b.drop = s.drop
        /\ b.samples = s.samples /\ b.clock = s.clock
    BY <1>1, <2>1 DEF RuleState, Counters
  <2>3. Baseline(s, r, p, t) = b
    BY <1>2, <2>1 DEF Baseline
  <2> QED BY <2>2, <2>3 DEF Trailing
<1>3. CASE ~Idle(s, r, p)
  <2>0. s.clock \in Nat /\ s.samples \in Seq(Sample)
    BY DEF RuleState
  <2>1. PICK c \in Nat : c = s.clock + Elapsed(s, t)
    BY <2>0, ElapsedIsTime
  <2>2. c >= s.clock /\ c - DropWindow \in Int
    <3>1. Elapsed(s, t) \in Nat
      BY ElapsedIsTime
    <3> QED BY <2>0, <2>1, <3>1, Thresholds
  <2>3. PICK b : b = [s EXCEPT !.lastSeen = t, !.clock = c,
                               !.samples = Prune(s.samples, c - DropWindow)]
    OBVIOUS
  <2>4. Baseline(s, r, p, t) = b
    BY <1>3, <2>1, <2>3 DEF Baseline
  <2>5. ASSUME Ordered(s.samples, s.clock) PROVE Ordered(s.samples, c)
    <3>1. \A n \in 1..Len(s.samples) : s.samples[n].at \in Nat
      BY <2>0, SampleFacts
    <3> QED BY <2>0, <2>2, <2>5, <3>1 DEF Ordered
  <2>6. Prune(s.samples, c - DropWindow) \in Seq(Sample)
    BY <2>0, <2>2, PruneInSeq
  <2>7. /\ b \in RuleState /\ Counters(b) = Counters(s)
        /\ b.deficit = s.deficit /\ b.drop = s.drop
        /\ b.samples = Prune(s.samples, c - DropWindow) /\ b.clock = c
    BY <1>1, <2>3, <2>6 DEF RuleState, Counters
  <2>8. ASSUME Trailing(s) PROVE Trailing(b)
    <3>1. Ordered(s.samples, c) /\ Len(s.samples) <= MaxDropSamples
      BY <2>5, <2>8 DEF Trailing
    <3>2. /\ Len(b.samples) <= Len(s.samples) /\ Ordered(b.samples, b.clock)
          /\ NotBefore(b.samples, b.clock - DropWindow)
      BY <2>0, <2>2, <2>7, <3>1, PruneTrails
    <3>3. Len(b.samples) \in Nat /\ Len(s.samples) \in Nat
      BY <2>0, <2>6, <2>7, SampleFacts
    <3>4. Len(b.samples) <= MaxDropSamples
      BY <3>1, <3>2, <3>3, Thresholds
    <3> QED BY <3>2, <3>4 DEF Trailing
  <2> QED BY <2>4, <2>7, <2>8
<1> QED BY <1>2, <1>3

\* The reading joins the baseline.
LEMMA WithReadingOf ==
    ASSUME NEW s \in RuleState, NEW p \in Nat
    PROVE  /\ WithReading(s, p) \in RuleState
           /\ Counters(WithReading(s, p)) = Counters(s)
           /\ WithReading(s, p).deficit = s.deficit /\ WithReading(s, p).drop = s.drop
           /\ Trailing(s) => Trailing(WithReading(s, p))
<1>0. s.clock \in Nat /\ s.samples \in Seq(Sample)
  BY DEF RuleState
<1>1. PICK kept : kept = AppendSample(s.samples, [at |-> s.clock, value |-> p])
  OBVIOUS
<1>2. kept \in Seq(Sample)
  BY <1>0, <1>1, AppendInSeq
<1>3. PICK w : w = [s EXCEPT !.samples = kept]
  OBVIOUS
<1>4. WithReading(s, p) = w
  BY <1>1, <1>3 DEF WithReading
<1>5. /\ w \in RuleState /\ Counters(w) = Counters(s)
      /\ w.deficit = s.deficit /\ w.drop = s.drop /\ w.samples = kept /\ w.clock = s.clock
  BY <1>2, <1>3 DEF RuleState, Counters
<1>6. ASSUME Trailing(s) PROVE Trailing(w)
  <2>1. s.clock - DropWindow \in Int /\ s.clock - DropWindow <= s.clock
    BY <1>0, Thresholds
  <2>2. /\ Len(kept) <= MaxDropSamples /\ Ordered(kept, s.clock)
        /\ NotBefore(kept, s.clock - DropWindow)
    BY <1>0, <1>1, <1>6, <2>1, AppendTrails DEF Trailing
  <2> QED BY <1>5, <2>2 DEF Trailing
<1> QED BY <1>4, <1>5, <1>6

\* Judged changes the drop alone, and leaves it open for a reason.
LEMMA JudgeOf ==
    ASSUME NEW s \in RuleState, NEW k, NEW p, NEW t \in Time
    PROVE  /\ Judge(s, k, p, t).state \in RuleState
           /\ Counters(Judge(s, k, p, t).state) = Counters(s)
           /\ Judge(s, k, p, t).state.deficit = s.deficit
           /\ Trailing(s) => Trailing(Judge(s, k, p, t).state)
           /\ Judge(s, k, p, t).state.drop
                 \in {s.drop, NoAlert, [rule |-> "productivity_drop", raised |-> t]}
           /\ Judge(s, k, p, t).state.drop # NoAlert =>
                 ~BalanceRecovered(s) \/ s.negative >= DropNegativeSamples
<1> DEFINE fresh == [rule |-> "productivity_drop", raised |-> t]
<1>1. fresh \in Held
  BY AlertFacts
<1>2. PICK a \in {s.drop, NoAlert, fresh} :
         /\ Judge(s, k, p, t).state = IF a = s.drop THEN s ELSE [s EXCEPT !.drop = a]
         /\ a # NoAlert => ~BalanceRecovered(s) \/ s.negative >= DropNegativeSamples
  <2>1. [s EXCEPT !.drop = s.drop] = s
    BY DEF RuleState
  <2>2. ASSUME NEW b \in {s.drop, NoAlert, fresh},
               \/ Judge(s, k, p, t).state = s /\ b = s.drop
               \/ Judge(s, k, p, t).state = [s EXCEPT !.drop = b],
               b # NoAlert => ~BalanceRecovered(s) \/ s.negative >= DropNegativeSamples
        PROVE  \E a \in {s.drop, NoAlert, fresh} :
                  /\ Judge(s, k, p, t).state = IF a = s.drop THEN s ELSE [s EXCEPT !.drop = a]
                  /\ a # NoAlert => ~BalanceRecovered(s) \/ s.negative >= DropNegativeSamples
    BY <2>1, <2>2
  <2>3. CASE s.drop # NoAlert /\ BalanceRecovered(s)
    <3>1. Judge(s, k, p, t).state = [s EXCEPT !.drop = NoAlert]
      BY <2>3 DEF Judge, ClearDrop
    <3> HIDE DEF fresh
    <3> QED BY <2>2, <3>1
  <2>4. CASE ~(s.drop # NoAlert /\ BalanceRecovered(s)) /\ Len(s.samples) < MinSamplesForDrop
    <3>1. Judge(s, k, p, t).state = s
      BY <2>4 DEF Judge
    <3> HIDE DEF fresh
    <3> QED BY <2>2, <2>4, <3>1
  <2>5. CASE ~(s.drop # NoAlert /\ BalanceRecovered(s)) /\ ~(Len(s.samples) < MinSamplesForDrop)
    <3>1. CASE s.drop = NoAlert /\ Fallen(p, s.samples, DropPoints) /\ s.negative >= DropNegativeSamples
      <4>1. Judge(s, k, p, t).state = [s EXCEPT !.drop = fresh]
        BY <2>5, <3>1 DEF Judge
      <4> HIDE DEF fresh
      <4> QED BY <2>2, <3>1, <4>1
    <3>2. CASE /\ ~(s.drop = NoAlert /\ Fallen(p, s.samples, DropPoints) /\ s.negative >= DropNegativeSamples)
               /\ s.drop # NoAlert /\ ~Fallen(p, s.samples, DropClearPoints)
      <4>1. Judge(s, k, p, t).state = [s EXCEPT !.drop = NoAlert]
        BY <2>5, <3>2 DEF Judge, ClearDrop
      <4> HIDE DEF fresh
      <4> QED BY <2>2, <4>1
    <3>3. CASE /\ ~(s.drop = NoAlert /\ Fallen(p, s.samples, DropPoints) /\ s.negative >= DropNegativeSamples)
               /\ ~(s.drop # NoAlert /\ ~Fallen(p, s.samples, DropClearPoints))
      <4>1. Judge(s, k, p, t).state = s
        BY <2>5, <3>3 DEF Judge
      <4> HIDE DEF fresh
      <4> QED BY <2>2, <2>5, <4>1
    <3> QED BY <3>1, <3>2, <3>3
  <2> QED BY <2>3, <2>4, <2>5
<1> HIDE DEF fresh
<1>3. a \in Held \cup {NoAlert}
  BY <1>1, <1>2 DEF RuleState
<1>4. PICK d : d = [s EXCEPT !.drop = a]
  OBVIOUS
<1>5. /\ d \in RuleState /\ Counters(d) = Counters(s) /\ d.deficit = s.deficit
      /\ d.samples = s.samples /\ d.clock = s.clock /\ d.drop = a
  BY <1>3, <1>4 DEF RuleState, Counters
<1>6. Trailing(s) => Trailing(d)
  BY <1>5 DEF Trailing
<1>7. Judge(s, k, p, t).state = IF a = s.drop THEN s ELSE d
  BY <1>2, <1>4
<1>8. CASE a = s.drop
  <2>1. Judge(s, k, p, t).state = s
    BY <1>7, <1>8
  <2> QED BY <1>2, <1>8, <2>1 DEF fresh
<1>9. CASE a # s.drop
  <2>1. Judge(s, k, p, t).state = d
    BY <1>7, <1>9
  <2> QED BY <1>2, <1>5, <1>6, <2>1 DEF fresh
<1> QED BY <1>8, <1>9

LEMMA DropOf ==
    ASSUME NEW s \in RuleState, NEW k, NEW r \in AnyReading, NEW t \in Time
    PROVE  DropStep(s, Drop(s, k, r, t).state, r, t)
<1> DEFINE p == IF r.prod > FullProductivity THEN FullProductivity ELSE r.prod
           base == Baseline(s, r, p, t)
           judged == Judge(base, k, p, t)
<1>1. CASE ~r.buildings
  <2>1. Drop(s, k, r, t).state = EndDrop(s, k, t).state
    BY <1>1 DEF Drop
  <2>2. DropEnd(s, Drop(s, k, r, t).state)
    BY <2>1, EndDropOf
  <2> QED BY <2>2 DEF DropEnd, DropStep
<1>2. CASE r.buildings /\ r.prod = Unreadable
  <2>1. Drop(s, k, r, t).state = s
    BY <1>2 DEF Drop
  <2> QED BY <1>2, <2>1 DEF DropStep
<1>3. CASE r.buildings /\ r.prod # Unreadable
  <2>1. p \in Nat
    <3>1. r.prod \in Nat
      BY <1>3, ReadingFacts
    <3> QED BY <3>1 DEF FullProductivity
  <2>2. Drop(s, k, r, t).state
           = IF Idle(s, r, p) THEN judged.state ELSE WithReading(judged.state, p)
    <3>1. CASE Idle(s, r, p)
      BY <1>3, <3>1 DEF Drop
    <3>2. CASE ~Idle(s, r, p)
      <4>1. Drop(s, k, r, t) = [judged EXCEPT !.state = WithReading(@, p)]
        BY <1>3, <3>2 DEF Drop
      <4>2. judged = [state |-> judged.state, events |-> judged.events]
        BY DEF Judge, ClearDrop
      <4> HIDE DEF judged
      <4> QED BY <3>2, <4>1, <4>2
    <3> QED BY <3>1, <3>2
  <2> HIDE DEF p
  <2>3. /\ base \in RuleState /\ Counters(base) = Counters(s) /\ base.deficit = s.deficit
        /\ base.drop = s.drop /\ (Trailing(s) => Trailing(base))
    BY BaselineOf
  <2>4. base.negative = s.negative /\ (BalanceRecovered(base) <=> BalanceRecovered(s))
    BY <2>3 DEF Counters, BalanceRecovered
  <2> HIDE DEF base
  <2>5. /\ judged.state \in RuleState /\ Counters(judged.state) = Counters(s)
        /\ judged.state.deficit = s.deficit /\ (Trailing(s) => Trailing(judged.state))
        /\ judged.state.drop \in {s.drop, NoAlert, [rule |-> "productivity_drop", raised |-> t]}
        /\ judged.state.drop # NoAlert =>
              ~BalanceRecovered(s) \/ s.negative >= DropNegativeSamples
    BY <2>3, <2>4, JudgeOf
  <2> HIDE DEF judged
  <2>6. CASE Idle(s, r, p)
    <3>1. Drop(s, k, r, t).state = judged.state
      BY <2>2, <2>6
    <3> QED BY <1>3, <2>5, <3>1 DEF DropStep
  <2>7. CASE ~Idle(s, r, p)
    <3>1. Drop(s, k, r, t).state = WithReading(judged.state, p)
      BY <2>2, <2>7
    <3>2. PICK d : d = WithReading(judged.state, p)
      OBVIOUS
    <3>3. /\ d \in RuleState /\ Counters(d) = Counters(judged.state)
          /\ d.deficit = judged.state.deficit /\ d.drop = judged.state.drop
          /\ Trailing(judged.state) => Trailing(d)
      BY <2>1, <2>5, <3>2, WithReadingOf
    <3>4. DropStep(s, d, r, t)
      BY <1>3, <2>5, <3>3 DEF DropStep
    <3> QED BY <3>1, <3>2, <3>4
  <2> QED BY <2>6, <2>7
<1>4. r.buildings \in BOOLEAN
  BY ReadingFacts
<1> QED BY <1>1, <1>2, <1>3, <1>4

-----------------------------------------------------------------------------
(* Streaks of readings *)

LEMMA ReadingsGrow ==
    ASSUME NEW readings \in Seq(AnyReading), NEW x \in AnyReading
    PROVE  /\ Append(readings, x) \in Seq(AnyReading)
           /\ Len(readings) \in Nat /\ Len(Append(readings, x)) = Len(readings) + 1
           /\ \A j \in 1..Len(readings) : Append(readings, x)[j] = readings[j]
           /\ Append(readings, x)[Len(readings) + 1] = x
           /\ Last(Append(readings, x)) = x
<1> HIDE DEF AnyReading
<1>1. /\ Append(readings, x) \in Seq(AnyReading)
      /\ Len(readings) \in Nat /\ Len(Append(readings, x)) = Len(readings) + 1
      /\ \A j \in 1..Len(readings) : Append(readings, x)[j] = readings[j]
      /\ Append(readings, x)[Len(readings) + 1] = x
  BY AppendFacts
<1> QED BY <1>1 DEF Last

\* What was a streak before stays one.
LEMMA StreakBefore ==
    ASSUME NEW readings \in Seq(AnyReading), NEW x \in AnyReading,
           NEW m \in 1..Len(readings), NEW n \in Nat \ {0}, NEW delta
    PROVE  Streak(Append(readings, x), m, n, delta) <=> Streak(readings, m, n, delta)
<1>1. Len(readings) \in Nat /\ \A j \in 1..Len(readings) : Append(readings, x)[j] = readings[j]
  BY ReadingsGrow
<1>2. m \in Nat /\ m <= Len(readings)
  BY <1>1
<1>3. m >= n => \A j \in m - n + 1 .. m : j \in 1..Len(readings)
  BY <1>1, <1>2
<1> QED BY <1>1, <1>3 DEF Streak

\* The next reading extends a streak of its kind.
LEMMA StreakAfter ==
    ASSUME NEW readings \in Seq(AnyReading), NEW x \in AnyReading,
           NEW n \in Nat \ {0}, NEW delta
    PROVE  Streak(Append(readings, x), Len(Append(readings, x)), n, delta)
              <=> /\ x.delta = delta
                  /\ n = 1 \/ Streak(readings, Len(readings), n - 1, delta)
<1> DEFINE longer == Append(readings, x)
<1>1. /\ Len(readings) \in Nat /\ Len(longer) = Len(readings) + 1
      /\ \A j \in 1..Len(readings) : longer[j] = readings[j]
      /\ longer[Len(readings) + 1] = x
  BY ReadingsGrow
<1> HIDE DEF longer
<1>2. ASSUME Streak(longer, Len(longer), n, delta)
      PROVE  x.delta = delta /\ (n = 1 \/ Streak(readings, Len(readings), n - 1, delta))
  <2>1. Len(readings) + 1 >= n /\ \A j \in Len(readings) + 1 - n + 1 .. Len(readings) + 1 :
                                     longer[j].delta = delta
    BY <1>1, <1>2 DEF Streak
  <2>2. Len(readings) + 1 \in Len(readings) + 1 - n + 1 .. Len(readings) + 1
    BY <1>1
  <2>3. x.delta = delta
    BY <1>1, <2>1, <2>2
  <2>4. \A j \in Len(readings) - (n - 1) + 1 .. Len(readings) :
           j \in Len(readings) + 1 - n + 1 .. Len(readings) + 1 /\ j \in 1..Len(readings)
    BY <1>1, <2>1
  <2>5. Len(readings) >= n - 1
    BY <1>1, <2>1
  <2>6. Streak(readings, Len(readings), n - 1, delta)
    BY <1>1, <2>1, <2>4, <2>5 DEF Streak
  <2> QED BY <2>3, <2>6
<1>3. ASSUME x.delta = delta, n = 1 \/ Streak(readings, Len(readings), n - 1, delta)
      PROVE  Streak(longer, Len(longer), n, delta)
  <2>1. Len(longer) >= n
    BY <1>1, <1>3 DEF Streak
  <2>2. ASSUME NEW j \in Len(longer) - n + 1 .. Len(longer)
        PROVE  longer[j].delta = delta
    <3>1. CASE j = Len(longer)
      BY <1>1, <1>3, <3>1
    <3>2. CASE j # Len(longer)
      <4>1. /\ n # 1 /\ j \in Len(readings) - (n - 1) + 1 .. Len(readings)
            /\ j \in 1..Len(readings)
        BY <1>1, <2>1, <3>2
      <4>2. readings[j].delta = delta
        BY <1>3, <4>1 DEF Streak
      <4> QED BY <1>1, <4>1, <4>2
    <3> QED BY <3>1, <3>2
  <2> QED BY <2>1, <2>2 DEF Streak
<1> QED BY <1>2, <1>3 DEF longer

\* A count that reached n, one reading later.
LEMMA CountReaches ==
    ASSUME NEW c \in 0..StreakCap, NEW n \in 1..StreakCap
    PROVE  Count(c) >= n <=> n = 1 \/ c >= n - 1
BY Thresholds DEF Count

LEMMA CountsStep ==
    ASSUME NEW s \in RuleState, NEW d \in RuleState, NEW x \in AnyReading,
           NEW readings \in Seq(AnyReading),
           Counters(d) = Counted(s, x.delta), Counts(s, readings)
    PROVE  Counts(d, Append(readings, x))
<1> SUFFICES ASSUME NEW n \in 1..StreakCap
             PROVE  /\ d.negative >= n
                       <=> Streak(Append(readings, x), Len(Append(readings, x)), n, "negative")
                    /\ d.nonNegative >= n
                       <=> Streak(Append(readings, x), Len(Append(readings, x)), n, "other")
  BY DEF Counts
<1>1. /\ s.negative \in 0..StreakCap /\ s.nonNegative \in 0..StreakCap
      /\ x.delta \in {"negative", "other"} /\ n \in Nat \ {0}
  BY ReadingFacts, Thresholds DEF RuleState
<1>2. n = 1 \/ n - 1 \in 1..StreakCap
  BY <1>1, Thresholds
<1>3. n # 1 => /\ s.negative >= n - 1 <=> Streak(readings, Len(readings), n - 1, "negative")
               /\ s.nonNegative >= n - 1 <=> Streak(readings, Len(readings), n - 1, "other")
  BY <1>2 DEF Counts
<1>4. ~(0 >= n)
  BY <1>1
<1>5. CASE x.delta = "negative"
  <2>1. d.negative = Count(s.negative) /\ d.nonNegative = 0
    BY <1>5 DEF Counters, Counted
  <2>2. d.negative >= n <=> n = 1 \/ s.negative >= n - 1
    BY <1>1, <2>1, CountReaches
  <2> QED BY <1>1, <1>3, <1>4, <1>5, <2>1, <2>2, StreakAfter
<1>6. CASE x.delta = "other"
  <2>1. d.nonNegative = Count(s.nonNegative) /\ d.negative = 0
    BY <1>6 DEF Counters, Counted
  <2>2. d.nonNegative >= n <=> n = 1 \/ s.nonNegative >= n - 1
    BY <1>1, <2>1, CountReaches
  <2> QED BY <1>1, <1>3, <1>4, <1>6, <2>1, <2>2, StreakAfter
<1> QED BY <1>1, <1>5, <1>6

\* What one reading more makes of the history's verdict.
LEMMA InDeficitAfter ==
    ASSUME NEW readings \in Seq(AnyReading), NEW x \in AnyReading
    PROVE  InDeficit(Append(readings, x)) <=>
              \/ Streak(Append(readings, x), Len(Append(readings, x)), DeficitSamples, "negative")
              \/ /\ InDeficit(readings) /\ Last(readings).buildings = x.buildings
                 /\ ~Streak(Append(readings, x), Len(Append(readings, x)),
                            DeficitClearSamples, "other")
<1> DEFINE longer == Append(readings, x)
           end == Len(longer)
<1>1. /\ Len(readings) \in Nat /\ end = Len(readings) + 1
      /\ \A j \in 1..Len(readings) : longer[j] = readings[j]
      /\ longer[end] = x
  BY ReadingsGrow
<1>2. DeficitSamples \in Nat \ {0} /\ DeficitClearSamples \in Nat \ {0}
  BY Thresholds
<1>3. ASSUME NEW m \in 1..Len(readings), NEW n \in Nat \ {0}, NEW delta
      PROVE  Streak(longer, m, n, delta) <=> Streak(readings, m, n, delta)
  BY StreakBefore
<1> HIDE DEF longer, end
<1>4. ASSUME NEW m \in 1..end,
             Streak(longer, m, DeficitSamples, "negative"),
             \A j \in m + 1 .. end :
                /\ ~Streak(longer, j, DeficitClearSamples, "other")
                /\ longer[j].buildings = longer[m].buildings
      PROVE  \/ Streak(longer, end, DeficitSamples, "negative")
             \/ /\ InDeficit(readings) /\ Last(readings).buildings = x.buildings
                /\ ~Streak(longer, end, DeficitClearSamples, "other")
  <2>1. CASE m = end
    BY <1>4, <2>1
  <2>2. CASE m # end
    <3>1. m \in 1..Len(readings) /\ end \in m + 1 .. end /\ Len(readings) \in 1..Len(readings)
      BY <1>1, <2>2
    <3>2. Streak(readings, m, DeficitSamples, "negative")
      BY <1>2, <1>3, <1>4, <3>1
    <3>3. ASSUME NEW j \in m + 1 .. Len(readings)
          PROVE  /\ ~Streak(readings, j, DeficitClearSamples, "other")
                 /\ readings[j].buildings = readings[m].buildings
      <4>1. j \in 1..Len(readings) /\ j \in m + 1 .. end
        BY <1>1, <3>1
      <4> QED BY <1>1, <1>2, <1>3, <1>4, <3>1, <4>1
    <3>4. InDeficit(readings)
      BY <3>1, <3>2, <3>3 DEF InDeficit
    <3>5. ~Streak(longer, end, DeficitClearSamples, "other") /\ x.buildings = readings[m].buildings
      BY <1>1, <1>4, <3>1
    <3>6. readings[Len(readings)].buildings = readings[m].buildings
      <4>1. m = Len(readings) \/ Len(readings) \in m + 1 .. Len(readings)
        BY <1>1, <3>1
      <4> QED BY <3>3, <4>1
    <3> QED BY <3>4, <3>5, <3>6 DEF Last
  <2> QED BY <2>1, <2>2
<1>5. ASSUME Streak(longer, end, DeficitSamples, "negative")
      PROVE  InDeficit(longer)
  <2>1. end \in 1..end /\ end + 1 .. end = {}
    BY <1>1
  <2> QED BY <1>5, <2>1 DEF InDeficit, end
<1>6. ASSUME InDeficit(readings), Last(readings).buildings = x.buildings,
             ~Streak(longer, end, DeficitClearSamples, "other")
      PROVE  InDeficit(longer)
  <2>1. PICK m \in 1..Len(readings) :
           /\ Streak(readings, m, DeficitSamples, "negative")
           /\ \A j \in m + 1 .. Len(readings) :
                 /\ ~Streak(readings, j, DeficitClearSamples, "other")
                 /\ readings[j].buildings = readings[m].buildings
    BY <1>6 DEF InDeficit
  <2>2. m \in 1..end /\ Streak(longer, m, DeficitSamples, "negative")
    BY <1>1, <1>2, <1>3, <2>1
  <2>3. readings[Len(readings)].buildings = readings[m].buildings
    <3>1. m = Len(readings) \/ Len(readings) \in m + 1 .. Len(readings)
      BY <1>1
    <3> QED BY <2>1, <3>1
  <2>4. ASSUME NEW j \in m + 1 .. end
        PROVE  /\ ~Streak(longer, j, DeficitClearSamples, "other")
               /\ longer[j].buildings = longer[m].buildings
    <3>1. CASE j = end
      BY <1>1, <1>6, <2>3, <3>1 DEF Last
    <3>2. CASE j # end
      <4>1. j \in 1..Len(readings) /\ j \in m + 1 .. Len(readings)
        BY <1>1, <3>2
      <4> QED BY <1>1, <1>2, <1>3, <2>1, <4>1
    <3> QED BY <3>1, <3>2
  <2> QED BY <2>2, <2>4 DEF InDeficit, end
<1>7. InDeficit(longer) => \E m \in 1..end :
         /\ Streak(longer, m, DeficitSamples, "negative")
         /\ \A j \in m + 1 .. end :
               /\ ~Streak(longer, j, DeficitClearSamples, "other")
               /\ longer[j].buildings = longer[m].buildings
  BY DEF InDeficit, end
<1>8. InDeficit(longer) <=>
         \/ Streak(longer, end, DeficitSamples, "negative")
         \/ /\ InDeficit(readings) /\ Last(readings).buildings = x.buildings
            /\ ~Streak(longer, end, DeficitClearSamples, "other")
  BY <1>4, <1>5, <1>6, <1>7
<1> QED BY <1>8 DEF longer, end

-----------------------------------------------------------------------------
(* The invariant of one product *)

\* What the history says of an open deficit, it has readings to say it of.
LEMMA DeficitHasReadings ==
    ASSUME NEW readings \in Seq(AnyReading), InDeficit(readings)
    PROVE  Last(readings) \in AnyReading /\ Last(readings).buildings \in BOOLEAN
<1>1. Len(readings) \in Nat
  BY ReadingsGrow
<1>2. Len(readings) \in 1..Len(readings)
  BY <1>1 DEF InDeficit
<1> HIDE DEF AnyReading
<1>3. readings[Len(readings)] \in AnyReading
  BY <1>2
<1> QED BY <1>3, ReadingFacts DEF Last

LEMMA EvaluatedKeeps ==
    ASSUME NEW s \in RuleState, NEW x \in AnyReading, NEW t \in Time,
           NEW readings \in Seq(AnyReading), NEW d, NEW e,
           DeficitStep(s, d, x, t), DropStep(d, e, x, t), ProductInv(s, readings)
    PROVE  e \in RuleState /\ ProductInv(e, Append(readings, x))
<1> DEFINE longer == Append(readings, x)
<1>0. d \in RuleState /\ e \in RuleState /\ Counters(e) = Counters(d) /\ e.deficit = d.deficit
  BY DEF DeficitStep, DropStep
<1>1. Trailing(e)
  <2>1. d.samples = s.samples /\ d.clock = s.clock
    BY DEF DeficitStep, Backlog
  <2>2. Trailing(d)
    BY <2>1 DEF ProductInv, Trailing
  <2> QED BY <2>2 DEF DropStep
<1>2. Counts(d, longer)
  BY <1>0, CountsStep DEF DeficitStep, ProductInv
<1>3. Counts(e, longer)
  BY <1>0, <1>2 DEF Counts, Counters
<1>4. /\ d.negative >= DeficitSamples <=> Streak(longer, Len(longer), DeficitSamples, "negative")
      /\ d.nonNegative >= DeficitClearSamples
            <=> Streak(longer, Len(longer), DeficitClearSamples, "other")
  BY <1>2, Thresholds DEF Counts
<1>5. Last(longer) = x /\ x.buildings \in BOOLEAN
  BY ReadingsGrow, ReadingFacts
<1>6. InDeficit(longer) <=>
         \/ Streak(longer, Len(longer), DeficitSamples, "negative")
         \/ /\ InDeficit(readings) /\ Last(readings).buildings = x.buildings
            /\ ~Streak(longer, Len(longer), DeficitClearSamples, "other")
  BY InDeficitAfter
<1> HIDE DEF longer
<1>7. DeficitBy(e, longer)
  <2>1. s.deficit # NoAlert <=> InDeficit(readings)
    BY DEF ProductInv, DeficitBy
  <2>2. s.deficit # NoAlert =>
           (s.deficit.rule = RuleOf(x) <=> Last(readings).buildings = x.buildings)
    <3> SUFFICES ASSUME s.deficit # NoAlert
                 PROVE  s.deficit.rule = RuleOf(x) <=> Last(readings).buildings = x.buildings
      OBVIOUS
    <3>1. s.deficit.rule = RuleOf(Last(readings)) /\ Last(readings).buildings \in BOOLEAN
      BY <2>1, DeficitHasReadings DEF ProductInv, DeficitBy
    <3> QED BY <1>5, <3>1 DEF RuleOf
  <2>3. d.deficit # NoAlert <=> InDeficit(longer)
    BY <1>4, <1>6, <2>1, <2>2 DEF DeficitStep
  <2>4. d.deficit # NoAlert => d.deficit.rule = RuleOf(x)
    BY DEF DeficitStep
  <2> QED BY <1>0, <1>5, <2>3, <2>4 DEF DeficitBy
<1>8. DropBy(e, longer)
  <2> SUFFICES ASSUME e.drop # NoAlert
               PROVE  /\ e.drop.rule = "productivity_drop"
                      /\ x.buildings
                      /\ \/ ~Streak(longer, Len(longer), DeficitClearSamples, "other")
                         \/ x.prod = Unreadable
    BY <1>5 DEF DropBy
  <2>1. x.buildings /\ (\/ x.prod = Unreadable
                        \/ ~BalanceRecovered(d)
                        \/ d.negative >= DropNegativeSamples)
    BY DEF DropStep
  <2>2. d.negative >= DropNegativeSamples => ~BalanceRecovered(d)
    <3>1. d.negative = 0 \/ d.nonNegative = 0
      BY ReadingFacts DEF DeficitStep, Counters, Counted
    <3>2. ~(0 >= DropNegativeSamples) /\ ~(0 >= DeficitClearSamples)
      BY Thresholds
    <3> QED BY <3>1, <3>2 DEF BalanceRecovered
  <2>3. e.drop.rule = "productivity_drop"
    <3>1. d.drop = s.drop /\ (s.drop # NoAlert => s.drop.rule = "productivity_drop")
      BY DEF DeficitStep, Backlog, ProductInv, DropBy
    <3> QED BY <3>1 DEF DropStep
  <2> QED BY <1>4, <2>1, <2>2, <2>3 DEF BalanceRecovered
<1> QED BY <1>0, <1>1, <1>3, <1>7, <1>8 DEF ProductInv, longer

LEMMA EndKeeps ==
    ASSUME NEW s \in RuleState, NEW readings, NEW e, DropEnd(s, e), ProductInv(s, readings)
    PROVE  e \in RuleState /\ ProductInv(e, readings)
<1>1. Counts(e, readings)
  BY DEF DropEnd, ProductInv, Counts, Counters
<1> QED BY <1>1 DEF DropEnd, ProductInv, DeficitBy, DropBy

LEMMA FreshHolds ==
    /\ Fresh \in RuleState /\ ProductInv(Fresh, <<>>) /\ <<>> \in Seq(AnyReading)
    /\ \A t : RaisedBy(Fresh, t)
<1>1. <<>> \in Seq(Sample) /\ Len(<<>>) = 0 /\ <<>> \in Seq(AnyReading)
  BY NoneTrails
<1>2. 0 \in 0..StreakCap /\ 0 \in 0..MaxTime
  BY Thresholds
<1>3. Fresh \in RuleState
  BY <1>1, <1>2 DEF Fresh, RuleState
<1>4. Fresh.samples = <<>> /\ Fresh.negative = 0 /\ Fresh.nonNegative = 0
  BY DEF Fresh
<1>5. Fresh.deficit = NoAlert /\ Fresh.drop = NoAlert
  BY DEF Fresh
<1>6. Trailing(Fresh)
  BY <1>4, NoneTrails, Thresholds DEF Trailing
<1>7. Counts(Fresh, <<>>)
  <2>1. \A n \in 1..StreakCap : ~(0 >= n)
    BY Thresholds
  <2> QED BY <1>1, <1>4, <2>1 DEF Counts, Streak
<1>8. ~InDeficit(<<>>)
  BY <1>1 DEF InDeficit
<1>9. DeficitBy(Fresh, <<>>) /\ DropBy(Fresh, <<>>)
  BY <1>5, <1>8 DEF DeficitBy, DropBy
<1> QED BY <1>1, <1>3, <1>5, <1>6, <1>7, <1>9 DEF ProductInv, RaisedBy

\* An alert was open before or is raised now.
LEMMA RaisedKeeps ==
    ASSUME NEW s \in RuleState, NEW e, NEW t \in Time, NEW old \in Nat, NEW new \in Nat,
           RaisedBy(s, old), old <= new, t <= new,
           e.deficit = NoAlert \/ e.deficit = s.deficit \/ e.deficit.raised = t,
           e.drop = NoAlert \/ e.drop = s.drop \/ e.drop.raised = t
    PROVE  RaisedBy(e, new)
<1>1. /\ s.deficit # NoAlert => s.deficit.raised \in Nat
      /\ s.drop # NoAlert => s.drop.raised \in Nat
  BY Thresholds DEF RuleState, Held, Time
<1>2. t \in Nat
  BY Thresholds DEF Time
<1>3. e.deficit # NoAlert => e.deficit.raised <= new
  BY <1>1, <1>2 DEF RaisedBy
<1>4. e.drop # NoAlert => e.drop.raised <= new
  BY <1>1, <1>2 DEF RaisedBy
<1> QED BY <1>3, <1>4 DEF RaisedBy

-----------------------------------------------------------------------------
(* The steps *)

LEMMA SnapshotFacts ==
    ASSUME NEW snapshot \in Snapshots
    PROVE  DOMAIN snapshot \subseteq Product /\ \A p \in DOMAIN snapshot : snapshot[p] \in AnyReading
BY DEF Snapshots, AnyReading

\* One product of a snapshot.
LEMMA ProductStep ==
    ASSUME AlertInv, NEW i \in Island, NEW snapshot \in Snapshots, NEW t \in Time,
           NEW k \in Key, k[1] = i
    PROVE  /\ Evaluated(k, snapshot, t).state \in RuleState
           /\ ProductInv(Evaluated(k, snapshot, t).state,
                         IF k[2] \in DOMAIN snapshot THEN Append(past[k], snapshot[k[2]])
                         ELSE past[k])
           /\ RaisedBy(Evaluated(k, snapshot, t).state, Newer(t))
<1> DEFINE s == rules[k]
           readings == past[k]
<1>1. /\ s \in RuleState /\ readings \in Seq(AnyReading)
      /\ RaisedBy(s, newest) /\ ProductInv(s, readings)
  BY DEF AlertInv, AlertTypeOK
<1>2. newest \in Nat /\ Newer(t) \in Nat /\ newest <= Newer(t) /\ t <= Newer(t)
  BY Thresholds DEF AlertInv, AlertTypeOK, Newer, Time
<1> HIDE DEF s, readings
<1>3. CASE k[2] \in DOMAIN snapshot
  <2>1. PICK x \in AnyReading : x = snapshot[k[2]]
    BY <1>3, SnapshotFacts
  <2>2. PICK d : d = Deficit(s, k, x, t).state
    OBVIOUS
  <2>3. PICK e : e = Drop(d, k, x, t).state
    OBVIOUS
  <2>4. Evaluated(k, snapshot, t).state = e
    BY <1>3, <2>1, <2>2, <2>3 DEF Evaluated, s
  <2>5. DeficitStep(s, d, x, t)
    BY <1>1, <2>2, DeficitOf
  <2>6. DropStep(d, e, x, t)
    BY <2>3, <2>5, DropOf DEF DeficitStep
  <2>7. e \in RuleState /\ ProductInv(e, Append(readings, x))
    BY <1>1, <2>5, <2>6, EvaluatedKeeps
  <2>8. e.deficit = NoAlert \/ e.deficit = s.deficit \/ e.deficit.raised = t
    BY <2>5, <2>6 DEF DeficitStep, DropStep
  <2>9. e.drop = NoAlert \/ e.drop = s.drop \/ e.drop.raised = t
    BY <2>5, <2>6 DEF DeficitStep, DropStep, Backlog
  <2>10. RaisedBy(e, Newer(t))
    BY <1>1, <1>2, <2>8, <2>9, RaisedKeeps
  <2> QED BY <1>3, <2>1, <2>4, <2>7, <2>10 DEF readings
<1>4. CASE k[2] \notin DOMAIN snapshot /\ DOMAIN snapshot # {}
  <2>1. PICK e : e = EndDrop(s, k, t).state
    OBVIOUS
  <2>2. Evaluated(k, snapshot, t).state = e
    BY <1>4, <2>1 DEF Evaluated, s
  <2>3. DropEnd(s, e)
    BY <1>1, <2>1, EndDropOf
  <2>4. e \in RuleState /\ ProductInv(e, readings)
    BY <1>1, <2>3, EndKeeps
  <2>5. RaisedBy(e, Newer(t))
    BY <1>1, <1>2, <2>3, RaisedKeeps DEF DropEnd
  <2> QED BY <1>4, <2>2, <2>4, <2>5 DEF readings
<1>5. CASE k[2] \notin DOMAIN snapshot /\ DOMAIN snapshot = {}
  <2>1. Evaluated(k, snapshot, t).state = s
    BY <1>5 DEF Evaluated, s
  <2>2. RaisedBy(s, Newer(t))
    BY <1>1, <1>2, RaisedKeeps
  <2> QED BY <1>1, <1>5, <2>1, <2>2 DEF readings
<1> QED BY <1>3, <1>4, <1>5

LEMMA ApplyKeeps ==
    ASSUME AlertInv, NEW i \in Island, NEW snapshot \in Snapshots, NEW t \in Time,
           PastApply(i, snapshot, t)
    PROVE  AlertInv'
<1>1. newest' = Newer(t) /\ newest' \in 0..MaxTime /\ newest <= newest'
  BY Thresholds DEF AlertInv, AlertTypeOK, PastApply, Apply, Newer, Time
<1>2. /\ rules' = [k \in Key |-> IF k \in {i} \X Product
                                 THEN Evaluated(k, snapshot, t).state ELSE rules[k]]
      /\ past' = [k \in Key |-> IF k[1] = i /\ k[2] \in DOMAIN snapshot
                                THEN Append(past[k], snapshot[k[2]]) ELSE past[k]]
  BY DEF PastApply, Apply
<1>3. ASSUME NEW k \in Key
      PROVE  /\ rules'[k] \in RuleState /\ past'[k] \in Seq(AnyReading)
             /\ RaisedBy(rules'[k], newest') /\ ProductInv(rules'[k], past'[k])
  <2>0. /\ rules[k] \in RuleState /\ past[k] \in Seq(AnyReading) /\ newest \in Nat
        /\ RaisedBy(rules[k], newest) /\ ProductInv(rules[k], past[k])
    BY Thresholds DEF AlertInv, AlertTypeOK
  <2>1. CASE k[1] = i
    <3>1. k \in {i} \X Product
      BY <2>1 DEF Key
    <3>2. rules'[k] = Evaluated(k, snapshot, t).state
      BY <1>2, <3>1
    <3>3. past'[k] = IF k[2] \in DOMAIN snapshot THEN Append(past[k], snapshot[k[2]])
                     ELSE past[k]
      BY <1>2, <2>1
    <3>4. past'[k] \in Seq(AnyReading)
      BY <2>0, <3>3, SnapshotFacts, ReadingsGrow
    <3>5. /\ Evaluated(k, snapshot, t).state \in RuleState
          /\ ProductInv(Evaluated(k, snapshot, t).state,
                        IF k[2] \in DOMAIN snapshot THEN Append(past[k], snapshot[k[2]])
                        ELSE past[k])
          /\ RaisedBy(Evaluated(k, snapshot, t).state, Newer(t))
      BY <2>1, ProductStep
    <3> QED BY <1>1, <3>2, <3>3, <3>4, <3>5
  <2>2. CASE k[1] # i
    <3>1. k \notin {i} \X Product
      BY <2>2
    <3>2. rules'[k] = rules[k] /\ past'[k] = past[k]
      BY <1>2, <2>2, <3>1
    <3>3. RaisedBy(rules[k], newest')
      <4>1. newest' \in Nat /\ t \in Nat /\ t <= newest'
        BY <1>1, Thresholds DEF Newer, Time
      <4> QED BY <1>1, <2>0, <4>1, RaisedKeeps
    <3> QED BY <2>0, <3>2, <3>3
  <2> QED BY <2>1, <2>2
<1>4. rules' \in [Key -> RuleState] /\ past' \in [Key -> Seq(AnyReading)]
  BY <1>2, <1>3
<1> QED BY <1>1, <1>3, <1>4 DEF AlertInv, AlertTypeOK

LEMMA ResetKeeps ==
    ASSUME AlertInv, PastReset
    PROVE  AlertInv'
<1>1. /\ rules' = [k \in Key |-> Fresh] /\ newest' = 0 /\ past' = [k \in Key |-> <<>>]
  BY DEF PastReset, ResetEngine
<1>2. 0 \in 0..MaxTime
  BY Thresholds
<1> QED BY <1>1, <1>2, FreshHolds DEF AlertInv, AlertTypeOK

LEMMA AlertInvHolds == PastSpec => []AlertInv
<1>1. PastInit => AlertInv
  <2>1. 0 \in 0..MaxTime
    BY Thresholds
  <2> QED BY <2>1, FreshHolds DEF PastInit, AlertInit, AlertInv, AlertTypeOK
<1>2. AlertInv /\ [PastNext]_pastVars => AlertInv'
  <2> SUFFICES ASSUME AlertInv, [PastNext]_pastVars PROVE AlertInv'
    OBVIOUS
  <2>1. CASE \E i \in Island, snapshot \in Snapshots, t \in Time : PastApply(i, snapshot, t)
    BY <2>1, ApplyKeeps
  <2>2. CASE PastReset
    BY <2>2, ResetKeeps
  <2>3. CASE UNCHANGED pastVars
    BY <2>3 DEF pastVars, alertVars, AlertInv, AlertTypeOK
  <2> QED BY <2>1, <2>2, <2>3 DEF PastNext
<1> QED BY <1>1, <1>2, PTL DEF PastSpec

-----------------------------------------------------------------------------
(* The order of a list of events *)

\* The order is one on these events: strict, total and transitive.
Ordering(E) ==
    /\ \A e \in E : ~Before(e, e)
    /\ \A e, f \in E : e # f => Before(e, f) \/ Before(f, e)
    /\ \A e, f, g \in E : Before(e, f) /\ Before(f, g) => Before(e, g)

\* No two of these events speak of one condition.
OneOfEach(E) ==
    \A e, f \in E : e.alert.key = f.alert.key /\ e.alert.rule = f.alert.rule => e = f

LEMMA RankFacts ==
    /\ \A x \in RuleNames : RuleRank[x] \in 1..3
    /\ \A x, y \in RuleNames : RuleRank[x] = RuleRank[y] => x = y
<1>1. /\ RuleRank["deficit"] = 1 /\ RuleRank["no_local_production"] = 2
      /\ RuleRank["productivity_drop"] = 3
  BY DEF RuleRank
<1> QED BY <1>1 DEF RuleNames

LEMMA EventsAreOrdered ==
    ASSUME NEW E, OneOfEach(E),
           \A e \in E : e.alert.key \in Key /\ e.alert.rule \in RuleNames
    PROVE  Ordering(E)
<1> DEFINE island(e) == e.alert.key[1]
           product(e) == e.alert.key[2]
           rank(e) == RuleRank[e.alert.rule]
<1>1. ASSUME NEW e \in E
      PROVE  island(e) \in Nat /\ product(e) \in Nat /\ rank(e) \in Nat
  <2>1. e.alert.key \in Island \X Product
    BY DEF Key
  <2>2. island(e) \in Nat /\ product(e) \in Nat
    BY <2>1, AlertAssumption
  <2>3. rank(e) \in 1..3
    BY RankFacts
  <2> QED BY <2>2, <2>3
<1>2. ASSUME NEW e \in E, NEW f \in E
      PROVE  e.alert.key = f.alert.key <=> island(e) = island(f) /\ product(e) = product(f)
  <2>1. e.alert.key \in Island \X Product /\ f.alert.key \in Island \X Product
    BY DEF Key
  <2> QED BY <2>1
<1>3. ASSUME NEW e \in E, NEW f \in E
      PROVE  Before(e, f) <=>
                \/ island(e) < island(f)
                \/ island(e) = island(f) /\ product(e) < product(f)
                \/ island(e) = island(f) /\ product(e) = product(f) /\ rank(e) < rank(f)
  BY <1>2 DEF Before
<1>4. ASSUME NEW e \in E, NEW f \in E, e # f
      PROVE  island(e) # island(f) \/ product(e) # product(f) \/ rank(e) # rank(f)
  <2>1. e.alert.rule = f.alert.rule <=> rank(e) = rank(f)
    BY RankFacts
  <2> QED BY <1>2, <1>4, <2>1 DEF OneOfEach
<1> HIDE DEF island, product, rank
<1>5. \A e \in E : ~Before(e, e)
  BY <1>1, <1>3
<1>6. \A e, f \in E : e # f => Before(e, f) \/ Before(f, e)
  BY <1>1, <1>3, <1>4
<1>7. ASSUME NEW e \in E, NEW f \in E, NEW g \in E, Before(e, f), Before(f, g)
      PROVE  Before(e, g)
  BY <1>1, <1>3, <1>7
<1> QED BY <1>5, <1>6, <1>7 DEF Ordering

LEMMA PartOrdered ==
    ASSUME NEW E, NEW S \in SUBSET E, Ordering(E)
    PROVE  Ordering(S)
BY DEF Ordering

\* The size of a set that loses one member.
LEMMA OneLess ==
    ASSUME NEW S, IsFiniteSet(S), NEW x \in S
    PROVE  /\ IsFiniteSet(S \ {x}) /\ Cardinality(S) \in Nat \ {0}
           /\ Cardinality(S \ {x}) \in Nat /\ Cardinality(S \ {x}) = Cardinality(S) - 1
<1>1. IsFiniteSet(S \ {x}) /\ Cardinality(S \ {x}) = Cardinality(S) - 1
  BY FS_RemoveElement
<1>2. Cardinality(S) \in Nat /\ Cardinality(S \ {x}) \in Nat
  BY <1>1, FS_CardinalityType
<1> QED BY <1>1, <1>2

\* Of finite sets, one than which none is smaller.
LEMMA SmallestSet ==
    ASSUME NEW W, W # {}, \A S \in W : IsFiniteSet(S)
    PROVE  \E S \in W : \A x \in S : S \ {x} \notin W
<1> DEFINE sizes == {Cardinality(S) : S \in W}
<1>1. \A S \in W : Cardinality(S) \in Nat
  BY FS_CardinalityType
<1>2. sizes \subseteq Nat /\ sizes # {}
  BY <1>1
<1>3. PICK S \in W : Min(sizes) = Cardinality(S)
  BY <1>2, MinIsLeast
<1>4. ASSUME NEW x \in S, S \ {x} \in W PROVE FALSE
  <2>1. Cardinality(S \ {x}) = Cardinality(S) - 1 /\ Cardinality(S) \in Nat
    BY OneLess
  <2>2. Cardinality(S) <= Cardinality(S \ {x})
    <3>1. Cardinality(S \ {x}) \in sizes
      BY <1>4
    <3> QED BY <1>2, <1>3, <3>1, MinIsLeast
  <2> QED BY <2>1, <2>2
<1> QED BY <1>4

IsLatest(x, S) == x \in S /\ \A y \in S : y # x => Before(y, x)

\* Were there events without a latest, there would be a smallest such set.
LEMMA LatestExists ==
    ASSUME NEW E, Ordering(E), IsFiniteSet(E), E # {}
    PROVE  \E x \in E : IsLatest(x, E)
<1> DEFINE Without == {S \in SUBSET E : S # {} /\ ~\E x \in S : IsLatest(x, S)}
<1>0. \A S \in SUBSET E : IsFiniteSet(S) /\ Cardinality(S) \in Nat
  BY FS_Subset, FS_CardinalityType
<1>1. SUFFICES ASSUME E \in Without PROVE FALSE
  OBVIOUS
<1>2. PICK S \in Without : \A x \in S : S \ {x} \notin Without
  <2>1. \A S \in Without : IsFiniteSet(S)
    BY <1>0
  <2> HIDE DEF Without
  <2> QED BY <1>1, <2>1, SmallestSet
<1>3. PICK x \in S : TRUE
  OBVIOUS
<1>4. S \ {x} \notin Without
  BY <1>2
<1>5. CASE S \ {x} = {}
  BY <1>3, <1>5 DEF IsLatest
<1>6. CASE S \ {x} # {}
  <2>1. PICK y \in S \ {x} : IsLatest(y, S \ {x})
    BY <1>4, <1>6
  <2>2. CASE Before(x, y)
    <3>1. IsLatest(y, S)
      BY <2>1, <2>2 DEF IsLatest
    <3> QED BY <2>1, <3>1
  <2>3. CASE ~Before(x, y)
    <3>1. Before(y, x)
      BY <1>3, <2>1, <2>3 DEF Ordering
    <3>2. ASSUME NEW z \in S, z # x PROVE Before(z, x)
      <4>1. z = y \/ Before(z, y)
        BY <2>1, <3>2 DEF IsLatest
      <4> QED BY <1>3, <2>1, <3>1, <3>2, <4>1 DEF Ordering
    <3>3. IsLatest(x, S)
      BY <1>3, <3>2 DEF IsLatest
    <3> QED BY <1>3, <3>3
  <2> QED BY <2>2, <2>3
<1> QED BY <1>5, <1>6

Ascends(list) == \A m, n \in DOMAIN list : m < n => Before(list[m], list[n])

\* The same for a set that cannot be listed in order: its latest would come last.
LEMMA OrderExists ==
    ASSUME NEW E, Ordering(E), IsFiniteSet(E)
    PROVE  \E list \in [1..Cardinality(E) -> E] : Ascends(list)
<1> DEFINE Listed(S) == \E list \in [1..Cardinality(S) -> S] : Ascends(list)
           Without == {S \in SUBSET E : ~Listed(S)}
<1>0. \A S \in SUBSET E : IsFiniteSet(S) /\ Cardinality(S) \in Nat
  BY FS_Subset, FS_CardinalityType
<1>1. SUFFICES ASSUME E \in Without PROVE FALSE
  OBVIOUS
<1>2. PICK S \in Without : \A x \in S : S \ {x} \notin Without
  <2>1. \A S \in Without : IsFiniteSet(S)
    BY <1>0
  <2> HIDE DEF Without
  <2> QED BY <1>1, <2>1, SmallestSet
<1>3. S # {}
  <2>1. SUFFICES ASSUME S = {} PROVE Listed(S)
    OBVIOUS
  <2>2. Cardinality(S) = 0 /\ 1..0 = {}
    BY <2>1, FS_EmptySet
  <2>3. PICK none : none = [n \in {} |-> n]
    OBVIOUS
  <2>4. none \in [1..Cardinality(S) -> S] /\ Ascends(none)
    BY <2>2, <2>3 DEF Ascends
  <2> QED BY <2>4
<1>4. PICK x \in S : IsLatest(x, S)
  <2>1. Ordering(S) /\ IsFiniteSet(S)
    BY <1>0, PartOrdered
  <2> QED BY <1>3, <2>1, LatestExists
<1>5. PICK n \in Nat : n = Cardinality(S \ {x})
  BY <1>0, <1>4, OneLess
<1>6. Cardinality(S) = n + 1
  <2>1. Cardinality(S) \in Nat /\ n = Cardinality(S) - 1
    BY <1>0, <1>5, OneLess
  <2> QED BY <2>1
<1>7. PICK front \in [1..n -> S \ {x}] : Ascends(front)
  <2>1. S \ {x} \notin Without
    BY <1>2
  <2> QED BY <1>5, <2>1
<1>8. PICK list : list = [k \in 1..n + 1 |-> IF k = n + 1 THEN x ELSE front[k]]
  OBVIOUS
<1>9. /\ DOMAIN list = 1..n + 1 /\ list[n + 1] = x
       /\ \A k \in 1..n : list[k] = front[k] /\ front[k] \in S \ {x}
  BY <1>8
<1>10. list \in [1..n + 1 -> S]
  BY <1>8
<1>11. ASSUME NEW k \in DOMAIN list, NEW m \in DOMAIN list, k < m
       PROVE  Before(list[k], list[m])
  <2>1. k \in 1..n
    BY <1>9, <1>11
  <2>2. CASE m = n + 1
    BY <1>4, <1>9, <2>1, <2>2 DEF IsLatest
  <2>3. CASE m # n + 1
    <3>1. m \in 1..n
      BY <1>9, <2>3
    <3> QED BY <1>7, <1>9, <1>11, <2>1, <3>1 DEF Ascends
  <2> QED BY <2>2, <2>3
<1>12. Listed(S)
  BY <1>6, <1>10, <1>11 DEF Ascends
<1> QED BY <1>12

\* Sorted lists each event once.
LEMMA SortedLists ==
    ASSUME NEW E, IsFiniteSet(E), OneOfEach(E),
           \A e \in E : e.alert.key \in Key /\ e.alert.rule \in RuleNames
    PROVE  /\ Cardinality(E) \in Nat /\ Sorted(E) \in [1..Cardinality(E) -> E]
           /\ \A m, n \in 1..Cardinality(E) : Sorted(E)[m] = Sorted(E)[n] => m = n
           /\ \A e \in E : \E n \in 1..Cardinality(E) : Sorted(E)[n] = e
<1>1. PICK size \in Nat : size = Cardinality(E)
  BY FS_CardinalityType
<1>2. Ordering(E)
  BY EventsAreOrdered
<1>3. PICK list : list = Sorted(E)
  OBVIOUS
<1>4. list \in [1..size -> E] /\ Ascends(list)
  BY <1>1, <1>2, <1>3, OrderExists DEF Sorted, Ascends
<1>5. ASSUME NEW m \in 1..size, NEW n \in 1..size, list[m] = list[n]
      PROVE  m = n
  <2>1. ~(m < n) /\ ~(n < m)
    BY <1>2, <1>4, <1>5 DEF Ordering, Ascends
  <2> QED BY <2>1
<1>6. list \in Injection(1..size, E)
  BY <1>4, <1>5 DEF Injection, IsInjective
<1>7. Cardinality(1..size) = size /\ IsFiniteSet(1..size)
  BY FS_Interval
<1>8. list \in Surjection(1..size, E)
  BY <1>1, <1>6, <1>7, FS_Injection
<1>9. \A e \in E : \E n \in 1..size : list[n] = e
  BY <1>8 DEF Surjection
<1> QED BY <1>1, <1>3, <1>4, <1>5, <1>9

-----------------------------------------------------------------------------
(* What the events of a call tell its consumers *)

\* The events speak of each condition once, of the alerts that were open, and
\* lead to those that are.
Tells(before, after, E) ==
    /\ OneOfEach(E)
    /\ \A e \in E : \/ e.kind = "cleared" /\ e.alert \in before
                    \/ e.kind = "raised" /\ \A a \in before : ~Log!SameCondition(a, e.alert)
    /\ after = {a \in before : \A e \in E : e.alert # a}
                  \cup {e.alert : e \in {e \in E : e.kind = "raised"}}

\* Then a consumer understands them in any order.
LEMMA AnyOrderTells ==
    ASSUME NEW before, NEW after, NEW E, Tells(before, after, E),
           NEW size \in Nat, NEW list \in [1..size -> E],
           \A m, n \in 1..size : list[m] = list[n] => m = n,
           \A e \in E : \E n \in 1..size : list[n] = e
    PROVE  /\ \A n \in 1..size : Log!Sensible(Log!OpenAfter(before, list, n - 1), list[n])
           /\ after = Log!OpenAfter(before, list, size)
<1>1. ASSUME NEW m \in 1..size, NEW n \in 1..size, Log!SameCondition(list[m].alert, list[n].alert)
      PROVE  m = n
  <2>1. list[m] \in E /\ list[n] \in E
    OBVIOUS
  <2> QED BY <1>1, <2>1 DEF Tells, OneOfEach, Log!SameCondition
<1>2. ASSUME NEW m \in 1..size, NEW n \in 1..size, list[m].alert = list[n].alert
      PROVE  m = n
  <2>1. Log!SameCondition(list[m].alert, list[n].alert)
    BY <1>2 DEF Log!SameCondition
  <2> QED BY <1>1, <2>1
<1>3. ASSUME NEW n \in 0..size, NEW a
      PROVE  a \in Log!OpenAfter(before, list, n) <=>
                \/ a \in before /\ \A k \in 1..n : list[k].alert # a
                \/ \E m \in 1..n : list[m].kind = "raised" /\ list[m].alert = a
  <2>1. a \in Log!OpenAfter(before, list, n) <=>
           \/ a \in before /\ \A k \in 0 + 1 .. n : list[k].alert # a
           \/ \E m \in 1..n : /\ list[m].kind = "raised" /\ list[m].alert = a
                              /\ \A k \in m + 1 .. n : list[k].alert # list[m].alert
    BY DEF Log!OpenAfter
  <2>2. ASSUME NEW m \in 1..n, NEW k \in m + 1 .. n PROVE list[k].alert # list[m].alert
    <3>1. m \in 1..size /\ k \in 1..size /\ k # m
      OBVIOUS
    <3> QED BY <1>2, <3>1
  <2> QED BY <2>1, <2>2
<1>4. ASSUME NEW n \in 1..size
      PROVE  Log!Sensible(Log!OpenAfter(before, list, n - 1), list[n])
  <2>1. list[n] \in E /\ n - 1 \in 0..size /\ \A k \in 1..n - 1 : k \in 1..size /\ k # n
    OBVIOUS
  <2>2. CASE list[n].kind = "cleared" /\ list[n].alert \in before
    <3>1. \A k \in 1..n - 1 : list[k].alert # list[n].alert
      BY <1>2, <2>1
    <3>2. list[n].alert \in Log!OpenAfter(before, list, n - 1)
      BY <1>3, <2>1, <2>2, <3>1
    <3> QED BY <2>2, <3>2 DEF Log!Sensible
  <2>3. CASE list[n].kind = "raised" /\ \A a \in before : ~Log!SameCondition(a, list[n].alert)
    <3>1. ASSUME NEW a \in Log!OpenAfter(before, list, n - 1)
          PROVE  ~Log!SameCondition(a, list[n].alert)
      <4>1. a \in before \/ \E m \in 1..n - 1 : list[m].alert = a
        BY <1>3, <2>1
      <4>2. ASSUME NEW m \in 1..n - 1 PROVE ~Log!SameCondition(list[m].alert, list[n].alert)
        BY <1>1, <2>1
      <4> QED BY <2>3, <4>1, <4>2
    <3> QED BY <2>3, <3>1 DEF Log!Sensible
  <2> QED BY <2>1, <2>2, <2>3 DEF Tells
<1>5. ASSUME NEW a
      PROVE  a \in after <=> a \in Log!OpenAfter(before, list, size)
  <2>1. a \in after <=> \/ a \in before /\ \A e \in E : e.alert # a
                        \/ \E e \in E : e.kind = "raised" /\ e.alert = a
    BY DEF Tells
  <2>2. (\A e \in E : e.alert # a) <=> \A k \in 1..size : list[k].alert # a
    OBVIOUS
  <2>3. (\E e \in E : e.kind = "raised" /\ e.alert = a)
           <=> \E m \in 1..size : list[m].kind = "raised" /\ list[m].alert = a
    OBVIOUS
  <2>4. size \in 0..size
    OBVIOUS
  <2> QED BY <1>3, <2>1, <2>2, <2>3, <2>4
<1> QED BY <1>4, <1>5

\* Each product has a place for an alert of either deficit rule and one for a drop.
Slot == {"deficit", "drop"}

At(s, x) == IF x = "drop" THEN s.drop ELSE s.deficit

Names(x) == IF x = "drop" THEN {"productivity_drop"} ELSE {"deficit", "no_local_production"}

Named(s) == \A x \in Slot : At(s, x) # NoAlert => At(s, x).rule \in Names(x)

Alert(k, a) == [key |-> k, rule |-> a.rule, raised |-> a.raised]

\* The events of a place that held a and holds b at t.
Spoken(k, a, b, t) ==
    (IF a # NoAlert /\ a # b THEN {Cleared(k, a.rule, a.raised, t)} ELSE {})
    \cup (IF b # NoAlert /\ a # b THEN {Raised(k, b.rule, b.raised)} ELSE {})

\* An alert is never replaced by one of its own condition.
Hands(s, d) ==
    \A x \in Slot :
        At(s, x) # NoAlert /\ At(d, x) # NoAlert /\ At(s, x) # At(d, x) =>
            At(s, x).rule # At(d, x).rule

ToldOf(k, s, d, t) == UNION {Spoken(k, At(s, x), At(d, x), t) : x \in Slot}

LEMMA NamesFacts ==
    /\ \A x \in Slot : Names(x) \subseteq RuleNames
    /\ \A x, y \in Slot : Names(x) \cap Names(y) # {} => x = y
BY DEF Slot, Names, RuleNames

\* The alerts of every product.
AlertsOf(f) ==
    UNION {{Alert(k, At(f[k], x)) : x \in {y \in Slot : At(f[k], y) # NoAlert}} : k \in Key}

LEMMA SpokenFacts ==
    ASSUME NEW k, NEW a, NEW b, NEW t
    PROVE  /\ \A e \in Spoken(k, a, b, t) :
                 /\ a # b
                 /\ \/ /\ e = Cleared(k, a.rule, a.raised, t) /\ a # NoAlert
                       /\ e.kind = "cleared" /\ e.alert = Alert(k, a)
                    \/ /\ e = Raised(k, b.rule, b.raised) /\ b # NoAlert
                       /\ e.kind = "raised" /\ e.alert = Alert(k, b)
           /\ a # b /\ a # NoAlert =>
                 \E e \in Spoken(k, a, b, t) : e.alert = Alert(k, a)
           /\ a # b /\ b # NoAlert =>
                 \E e \in Spoken(k, a, b, t) : e.kind = "raised" /\ e.alert = Alert(k, b)
<1> DEFINE c == Cleared(k, a.rule, a.raised, t)
           r == Raised(k, b.rule, b.raised)
<1>1. c.kind = "cleared" /\ c.alert = Alert(k, a) /\ r.kind = "raised" /\ r.alert = Alert(k, b)
  BY DEF Cleared, Raised, Alert
<1>2. \A e : e \in Spoken(k, a, b, t) <=>
                \/ a # b /\ a # NoAlert /\ e = c
                \/ a # b /\ b # NoAlert /\ e = r
  BY DEF Spoken
<1> HIDE DEF c, r
<1>3. \A e \in Spoken(k, a, b, t) :
         /\ a # b
         /\ \/ e = c /\ a # NoAlert /\ e.kind = "cleared" /\ e.alert = Alert(k, a)
            \/ e = r /\ b # NoAlert /\ e.kind = "raised" /\ e.alert = Alert(k, b)
  BY <1>1, <1>2
<1>4. a # b /\ a # NoAlert => \E e \in Spoken(k, a, b, t) : e.alert = Alert(k, a)
  BY <1>1, <1>2
<1>5. a # b /\ b # NoAlert =>
         \E e \in Spoken(k, a, b, t) : e.kind = "raised" /\ e.alert = Alert(k, b)
  BY <1>1, <1>2
<1> QED BY <1>3, <1>4, <1>5 DEF c, r

LEMMA AlertFields ==
    ASSUME NEW k, NEW a
    PROVE  Alert(k, a).key = k /\ Alert(k, a).rule = a.rule
BY DEF Alert

\* The events of all products together.
Batch(old, new, t) == UNION {ToldOf(k, old[k], new[k], t) : k \in Key}

LEMMA SpokenTells ==
    ASSUME NEW old, NEW new, NEW t,
           \A k \in Key : Named(old[k]) /\ Named(new[k]) /\ Hands(old[k], new[k])
    PROVE  /\ Tells(AlertsOf(old), AlertsOf(new), Batch(old, new, t))
           /\ \A e \in Batch(old, new, t) : e.alert.key \in Key /\ e.alert.rule \in RuleNames
<1>0. PICK E : E = Batch(old, new, t)
  OBVIOUS
<1> DEFINE was(k, x) == At(old[k], x)
           is(k, x) == At(new[k], x)
<1>1. ASSUME NEW e
      PROVE  e \in E <=> \E k \in Key, x \in Slot : e \in Spoken(k, was(k, x), is(k, x), t)
  BY <1>0 DEF ToldOf, Batch
<1>2. ASSUME NEW a
      PROVE  /\ a \in AlertsOf(old) <=>
                   \E k \in Key, x \in Slot : was(k, x) # NoAlert /\ a = Alert(k, was(k, x))
             /\ a \in AlertsOf(new) <=>
                   \E k \in Key, x \in Slot : is(k, x) # NoAlert /\ a = Alert(k, is(k, x))
  BY DEF AlertsOf
<1>3. ASSUME NEW k \in Key, NEW x \in Slot
      PROVE  /\ was(k, x) # NoAlert => was(k, x).rule \in Names(x)
             /\ is(k, x) # NoAlert => is(k, x).rule \in Names(x)
             /\ was(k, x) # NoAlert /\ is(k, x) # NoAlert /\ was(k, x) # is(k, x) =>
                   was(k, x).rule # is(k, x).rule
  BY DEF Named, Hands
<1> HIDE DEF was, is
<1>4. ASSUME NEW k \in Key, NEW x \in Slot, NEW e \in Spoken(k, was(k, x), is(k, x), t)
      PROVE  e.alert.key = k /\ e.alert.rule \in Names(x)
  <2>1. \/ was(k, x) # NoAlert /\ e.alert = Alert(k, was(k, x))
        \/ is(k, x) # NoAlert /\ e.alert = Alert(k, is(k, x))
    BY SpokenFacts
  <2> QED BY <1>3, <2>1, AlertFields
<1>5. OneOfEach(E)
  <2> SUFFICES ASSUME NEW e \in E, NEW f \in E,
                      e.alert.key = f.alert.key, e.alert.rule = f.alert.rule
               PROVE  e = f
    BY DEF OneOfEach
  <2>1. PICK k \in Key, x \in Slot : e \in Spoken(k, was(k, x), is(k, x), t)
    BY <1>1
  <2>2. PICK l \in Key, y \in Slot : f \in Spoken(l, was(l, y), is(l, y), t)
    BY <1>1
  <2>3. k = l /\ x = y
    BY <1>4, <2>1, <2>2, NamesFacts
  <2>4. /\ was(k, x) # is(k, x)
        /\ \/ /\ e = Cleared(k, was(k, x).rule, was(k, x).raised, t)
              /\ was(k, x) # NoAlert /\ e.alert.rule = was(k, x).rule
           \/ /\ e = Raised(k, is(k, x).rule, is(k, x).raised)
              /\ is(k, x) # NoAlert /\ e.alert.rule = is(k, x).rule
    BY <2>1, SpokenFacts, AlertFields
  <2>5. \/ /\ f = Cleared(k, was(k, x).rule, was(k, x).raised, t)
           /\ was(k, x) # NoAlert /\ f.alert.rule = was(k, x).rule
        \/ /\ f = Raised(k, is(k, x).rule, is(k, x).raised)
           /\ is(k, x) # NoAlert /\ f.alert.rule = is(k, x).rule
    BY <2>2, <2>3, SpokenFacts, AlertFields
  <2> QED BY <1>3, <2>4, <2>5
<1>6. ASSUME NEW e \in E
      PROVE  \/ e.kind = "cleared" /\ e.alert \in AlertsOf(old)
             \/ e.kind = "raised" /\ \A a \in AlertsOf(old) : ~Log!SameCondition(a, e.alert)
  <2>1. PICK k \in Key, x \in Slot : e \in Spoken(k, was(k, x), is(k, x), t)
    BY <1>1
  <2>2. CASE was(k, x) # NoAlert /\ e.kind = "cleared" /\ e.alert = Alert(k, was(k, x))
    BY <1>2, <2>2
  <2>3. CASE /\ was(k, x) # is(k, x) /\ is(k, x) # NoAlert
             /\ e.kind = "raised" /\ e.alert = Alert(k, is(k, x))
    <3>1. ASSUME NEW a \in AlertsOf(old), Log!SameCondition(a, e.alert) PROVE FALSE
      <4>1. PICK l \in Key, y \in Slot : was(l, y) # NoAlert /\ a = Alert(l, was(l, y))
        BY <1>2
      <4>2. l = k /\ was(l, y).rule = is(k, x).rule
        BY <2>3, <3>1, <4>1, AlertFields DEF Log!SameCondition
      <4>3. y = x
        BY <1>3, <2>3, <4>1, <4>2, NamesFacts
      <4> QED BY <1>3, <2>3, <4>1, <4>2, <4>3
    <3> QED BY <2>3, <3>1
  <2> QED BY <2>1, <2>2, <2>3, SpokenFacts
<1>7. ASSUME NEW a
      PROVE  a \in AlertsOf(new) <=>
                \/ a \in AlertsOf(old) /\ \A e \in E : e.alert # a
                \/ \E e \in E : e.kind = "raised" /\ e.alert = a
  <2>1. ASSUME NEW k \in Key, NEW x \in Slot, is(k, x) # NoAlert, a = Alert(k, is(k, x))
        PROVE  \/ a \in AlertsOf(old) /\ \A e \in E : e.alert # a
               \/ \E e \in E : e.kind = "raised" /\ e.alert = a
    <3>1. CASE was(k, x) = is(k, x)
      <4>1. a \in AlertsOf(old)
        BY <1>2, <2>1, <3>1
      <4>2. ASSUME NEW e \in E, e.alert = a PROVE FALSE
        <5>1. PICK l \in Key, y \in Slot : e \in Spoken(l, was(l, y), is(l, y), t)
          BY <1>1
        <5>2. l = k /\ y = x
          BY <1>3, <1>4, <2>1, <4>2, <5>1, AlertFields, NamesFacts
        <5> QED BY <3>1, <5>1, <5>2, SpokenFacts
      <4> QED BY <4>1, <4>2
    <3>2. CASE was(k, x) # is(k, x)
      <4>1. PICK e \in Spoken(k, was(k, x), is(k, x), t) : e.kind = "raised" /\ e.alert = a
        BY <2>1, <3>2, SpokenFacts
      <4> QED BY <1>1, <4>1
    <3> QED BY <3>1, <3>2
  <2>2. ASSUME NEW k \in Key, NEW x \in Slot, was(k, x) # NoAlert, a = Alert(k, was(k, x)),
               \A e \in E : e.alert # a
        PROVE  a \in AlertsOf(new)
    <3>1. was(k, x) = is(k, x)
      <4>1. SUFFICES ASSUME was(k, x) # is(k, x) PROVE FALSE
        OBVIOUS
      <4>2. PICK e \in Spoken(k, was(k, x), is(k, x), t) : e.alert = a
        BY <2>2, <4>1, SpokenFacts
      <4> QED BY <1>1, <2>2, <4>2
    <3> QED BY <1>2, <2>2, <3>1
  <2>3. ASSUME NEW e \in E, e.kind = "raised", e.alert = a
        PROVE  a \in AlertsOf(new)
    <3>1. PICK k \in Key, x \in Slot : e \in Spoken(k, was(k, x), is(k, x), t)
      BY <1>1
    <3>2. is(k, x) # NoAlert /\ e.alert = Alert(k, is(k, x))
      BY <2>3, <3>1, SpokenFacts
    <3> QED BY <1>2, <2>3, <3>2
  <2> QED BY <1>2, <2>1, <2>2, <2>3
<1>8. AlertsOf(new) = {a \in AlertsOf(old) : \A e \in E : e.alert # a}
                         \cup {e.alert : e \in {e \in E : e.kind = "raised"}}
  BY <1>7
<1>9. ASSUME NEW e \in E PROVE e.alert.key \in Key /\ e.alert.rule \in RuleNames
  BY <1>1, <1>4, NamesFacts
<1>10. Tells(AlertsOf(old), AlertsOf(new), E)
  BY <1>5, <1>6, <1>8 DEF Tells
<1> QED BY <1>0, <1>9, <1>10

LEMMA SpokenIsFinite ==
    ASSUME NEW k, NEW s, NEW d, NEW t
    PROVE  IsFiniteSet(ToldOf(k, s, d, t))
<1>1. ASSUME NEW a, NEW b PROVE IsFiniteSet(Spoken(k, a, b, t))
  <2> DEFINE c == Cleared(k, a.rule, a.raised, t)
             r == Raised(k, b.rule, b.raised)
  <2> HIDE DEF c, r
  <2>1. IsFiniteSet({c} \cup {r})
    BY FS_Singleton, FS_AddElement
  <2>2. Spoken(k, a, b, t) \subseteq {c} \cup {r}
    BY DEF Spoken, c, r
  <2> QED BY <2>1, <2>2, FS_Subset
<1>2. ToldOf(k, s, d, t) =
         Spoken(k, At(s, "deficit"), At(d, "deficit"), t)
            \cup Spoken(k, At(s, "drop"), At(d, "drop"), t)
  BY DEF ToldOf, Slot
<1> QED BY <1>1, <1>2, FS_Union

LEMMA BatchIsFinite ==
    ASSUME NEW old, NEW new, NEW t
    PROVE  IsFiniteSet(Batch(old, new, t))
<1> DEFINE f == [k \in Key |-> ToldOf(k, old[k], new[k], t)]
           parts == {ToldOf(k, old[k], new[k], t) : k \in Key}
<1>1. IsFiniteSet(Key)
  BY AlertAssumption, FS_Product DEF Key
<1>2. f \in Surjection(Key, parts)
  BY DEF Surjection
<1> HIDE DEF f
<1>3. IsFiniteSet(parts)
  BY <1>1, <1>2, FS_Surjection
<1>4. \A T \in parts : IsFiniteSet(T)
  BY SpokenIsFinite
<1> QED BY <1>3, <1>4, FS_UNION DEF Batch

\* So a call that returns them in order is a step of AlertLog.
LEMMA BatchIsLogged ==
    ASSUME NEW t,
           \A k \in Key : Named(rules[k]) /\ Named(rules[k])' /\ Hands(rules[k], rules'[k]),
           events' = Sorted(Batch(rules, rules', t)),
           Active = AlertsOf(rules), Active' = AlertsOf(rules')
    PROVE  Log!Next
<1>0. PICK old, new : old = rules /\ new = rules'
  OBVIOUS
<1>1. PICK E : E = Batch(old, new, t)
  OBVIOUS
<1>2. /\ Tells(AlertsOf(old), AlertsOf(new), E) /\ IsFiniteSet(E)
      /\ \A e \in E : e.alert.key \in Key /\ e.alert.rule \in RuleNames
  <2>1. \A k \in Key : Named(old[k]) /\ Named(new[k]) /\ Hands(old[k], new[k])
    BY <1>0 DEF Named, At
  <2> QED BY <1>1, <2>1, SpokenTells, BatchIsFinite
<1>3. PICK list : list = events' /\ list = Sorted(E)
  BY <1>0, <1>1
<1>4. PICK size \in Nat : size = Cardinality(E)
  BY <1>2, FS_CardinalityType
<1>5. OneOfEach(E)
  BY <1>2 DEF Tells
<1>6. /\ list \in [1..size -> E]
      /\ \A m, n \in 1..size : list[m] = list[n] => m = n
      /\ \A e \in E : \E n \in 1..size : list[n] = e
  BY <1>2, <1>3, <1>4, <1>5, SortedLists
<1>7. Len(list) = size /\ DOMAIN list = 1..size
  BY <1>6
<1>8. PICK before, after : /\ before = AlertsOf(old) /\ before = Active
                           /\ after = AlertsOf(new) /\ after = Active'
  BY <1>0
<1>9. /\ \A n \in 1..size : Log!Sensible(Log!OpenAfter(before, list, n - 1), list[n])
      /\ after = Log!OpenAfter(before, list, size)
  <2>1. Tells(before, after, E)
    BY <1>2, <1>8
  <2> QED BY <1>6, <2>1, AnyOrderTells
<1>10. Log!Consistent(after)
  <2> SUFFICES ASSUME NEW a \in after, NEW b \in after, a.key = b.key, a # b
               PROVE  "productivity_drop" \in {a.rule, b.rule}
    BY DEF Log!Consistent
  <2>1. PICK k \in Key, x \in Slot : At(new[k], x) # NoAlert /\ a = Alert(k, At(new[k], x))
    BY <1>8 DEF AlertsOf
  <2>2. PICK l \in Key, y \in Slot : At(new[l], y) # NoAlert /\ b = Alert(l, At(new[l], y))
    BY <1>8 DEF AlertsOf
  <2>3. k = l
    BY <2>1, <2>2, AlertFields
  <2>4. x # y
    BY <2>1, <2>2, <2>3
  <2>5. x = "drop" \/ y = "drop"
    BY <2>4 DEF Slot
  <2>6. Named(new[k])
    BY <1>0 DEF Named, At
  <2> QED BY <2>1, <2>2, <2>3, <2>5, <2>6, AlertFields DEF Named, Names
<1> QED BY <1>3, <1>7, <1>8, <1>9, <1>10 DEF Log!Next

LEMMA ActiveIsAlerts == Active = AlertsOf(rules)
<1>1. ASSUME NEW k \in Key
      PROVE  Open(k) = {Alert(k, At(rules[k], x)) : x \in {y \in Slot : At(rules[k], y) # NoAlert}}
  <2>1. \A a : a \in {rules[k].deficit, rules[k].drop} \ {NoAlert} <=>
                  \E x \in Slot : At(rules[k], x) # NoAlert /\ a = At(rules[k], x)
    BY DEF Slot, At
  <2> QED BY <2>1 DEF Open, Alert
<1> QED BY <1>1 DEF Active, AlertsOf


-----------------------------------------------------------------------------
(* What the rules return *)

LEMMA SpokenOf ==
    ASSUME NEW k, NEW t
    PROVE  /\ \A a : Spoken(k, a, a, t) = {}
           /\ \A a : a # NoAlert => Spoken(k, a, NoAlert, t) = {Cleared(k, a.rule, a.raised, t)}
           /\ \A b : b # NoAlert => Spoken(k, NoAlert, b, t) = {Raised(k, b.rule, b.raised)}
           /\ \A a, b : a # NoAlert /\ b # NoAlert /\ a # b =>
                 Spoken(k, a, b, t)
                    = {Cleared(k, a.rule, a.raised, t)} \cup {Raised(k, b.rule, b.raised)}
BY DEF Spoken

\* A rule's place held a and holds b: its events say so, and the alert is never
\* replaced by one of its own condition.
Replaces(k, evs, a, b, t) ==
    /\ evs = Spoken(k, a, b, t)
    /\ a # NoAlert /\ b # NoAlert /\ a # b => a.rule # b.rule

\* Only an alert of the other situation ends when a reading is handed over.
HandOverSpeaks(h, s, k, r, t) ==
    /\ s.deficit # NoAlert /\ s.deficit.rule # RuleOf(r) =>
          /\ h.events = {Cleared(k, s.deficit.rule, s.deficit.raised, t)}
          /\ h.state.deficit = NoAlert
    /\ ~(s.deficit # NoAlert /\ s.deficit.rule # RuleOf(r)) =>
          h.events = {} /\ h.state.deficit = s.deficit

LEMMA HandOverTells ==
    ASSUME NEW s \in RuleState, NEW k, NEW r \in AnyReading, NEW t \in Time
    PROVE  HandOverSpeaks(HandOver(s, k, RuleOf(r), t), s, k, r, t)
BY DEF HandOverSpeaks, HandOver, RuleState

LEMMA DeficitTells ==
    ASSUME NEW s \in RuleState, NEW k, NEW r \in AnyReading, NEW t \in Time
    PROVE  Replaces(k, Deficit(s, k, r, t).events,
                    s.deficit, Deficit(s, k, r, t).state.deficit, t)
<1> DEFINE counted == Streaks(s, r.delta)
           handed == HandOver(counted, k, RuleOf(r), t)
           now == handed.state
           fresh == [rule |-> RuleOf(r), raised |-> t]
           deficit == Deficit(s, k, r, t)
           ended == Cleared(k, s.deficit.rule, s.deficit.raised, t)
           begun == Raised(k, RuleOf(r), t)
<1>1. counted \in RuleState /\ counted.deficit = s.deficit
  BY StreaksOf
<1> HIDE DEF counted
<1>2. /\ s.deficit # NoAlert /\ s.deficit.rule # RuleOf(r) =>
            handed.events = {ended} /\ now.deficit = NoAlert
      /\ ~(s.deficit # NoAlert /\ s.deficit.rule # RuleOf(r)) =>
            handed.events = {} /\ now.deficit = s.deficit
  <2>1. PICK c \in RuleState : c = counted /\ c.deficit = s.deficit
    BY <1>1
  <2>2. PICK h : h = HandOver(c, k, RuleOf(r), t) /\ HandOverSpeaks(h, c, k, r, t)
    BY HandOverTells
  <2>3. /\ c.deficit # NoAlert /\ c.deficit.rule # RuleOf(r) =>
              /\ h.events = {Cleared(k, c.deficit.rule, c.deficit.raised, t)}
              /\ h.state.deficit = NoAlert
        /\ ~(c.deficit # NoAlert /\ c.deficit.rule # RuleOf(r)) =>
              h.events = {} /\ h.state.deficit = c.deficit
    BY <2>2 DEF HandOverSpeaks
  <2>4. handed = h
    BY <2>1, <2>2
  <2> HIDE DEF handed
  <2> QED BY <2>1, <2>3, <2>4
<1>3. now \in RuleState
  BY <1>1, HandOverOf
<1>4. fresh # NoAlert /\ fresh.rule = RuleOf(r) /\ fresh.raised = t
  BY AlertFacts
<1>5. deficit =
         IF now.deficit = NoAlert /\ now.negative >= DeficitSamples
         THEN [state  |-> [now EXCEPT !.deficit = fresh], events |-> handed.events \cup {begun}]
         ELSE IF now.deficit # NoAlert /\ now.nonNegative >= DeficitClearSamples
         THEN [state  |-> [now EXCEPT !.deficit = NoAlert],
               events |-> handed.events \cup {Cleared(k, RuleOf(r), now.deficit.raised, t)}]
         ELSE handed
  BY DEF Deficit, RuleOf, counted
<1> HIDE DEF handed, fresh, deficit, ended, begun
<1>6. \A a : [now EXCEPT !.deficit = a].deficit = a
  BY <1>3 DEF RuleState
<1>7. /\ Spoken(k, s.deficit, s.deficit, t) = {}
      /\ s.deficit # NoAlert => Spoken(k, s.deficit, NoAlert, t) = {ended}
      /\ Spoken(k, NoAlert, fresh, t) = {begun}
      /\ s.deficit # NoAlert /\ s.deficit # fresh =>
            Spoken(k, s.deficit, fresh, t) = {ended} \cup {begun}
  BY <1>4, SpokenOf DEF ended, begun
<1>8. CASE now.deficit = NoAlert /\ now.negative >= DeficitSamples
  <2>1. deficit.state.deficit = fresh /\ deficit.events = handed.events \cup {begun}
    BY <1>5, <1>6, <1>8
  <2>2. CASE s.deficit # NoAlert
    <3>1. handed.events = {ended} /\ s.deficit.rule # RuleOf(r)
      BY <1>2, <1>8, <2>2
    <3>2. s.deficit # fresh
      BY <1>4, <3>1
    <3> QED BY <1>4, <1>7, <2>1, <2>2, <3>1, <3>2 DEF Replaces, deficit
  <2>3. CASE s.deficit = NoAlert
    <3>1. handed.events = {}
      BY <1>2, <2>3
    <3> QED BY <1>7, <2>1, <2>3, <3>1 DEF Replaces, deficit
  <2> QED BY <2>2, <2>3
<1>9. CASE now.deficit # NoAlert /\ now.nonNegative >= DeficitClearSamples
  <2>1. handed.events = {} /\ now.deficit = s.deficit /\ s.deficit # NoAlert
        /\ s.deficit.rule = RuleOf(r)
    BY <1>2, <1>9
  <2>2. deficit.state.deficit = NoAlert /\ deficit.events = {ended}
    BY <1>5, <1>6, <1>9, <2>1 DEF ended
  <2> QED BY <1>7, <2>1, <2>2 DEF Replaces, deficit
<1>10. CASE /\ ~(now.deficit = NoAlert /\ now.negative >= DeficitSamples)
            /\ ~(now.deficit # NoAlert /\ now.nonNegative >= DeficitClearSamples)
  <2>1. deficit = handed
    BY <1>5, <1>10
  <2> QED BY <1>2, <1>7, <2>1 DEF Replaces, deficit
<1> QED BY <1>8, <1>9, <1>10

LEMMA ClearDropTells ==
    ASSUME NEW s \in RuleState, NEW k, NEW t,
           s.drop # NoAlert => s.drop.rule = "productivity_drop"
    PROVE  /\ Replaces(k, ClearDrop(s, k, t).events, s.drop, NoAlert, t)
           /\ ClearDrop(s, k, t).state.drop = NoAlert
<1>1. ClearDrop(s, k, t).state.drop = NoAlert
  BY DEF ClearDrop, RuleState
<1>2. ClearDrop(s, k, t).events = Spoken(k, s.drop, NoAlert, t)
  <2>1. CASE s.drop = NoAlert
    <3>1. ClearDrop(s, k, t).events = {}
      BY <2>1 DEF ClearDrop
    <3> QED BY <2>1, <3>1, SpokenOf
  <2>2. CASE s.drop # NoAlert
    <3>1. ClearDrop(s, k, t).events = {Cleared(k, s.drop.rule, s.drop.raised, t)}
      BY <2>2 DEF ClearDrop
    <3> QED BY <2>2, <3>1, SpokenOf
  <2> QED BY <2>1, <2>2
<1> QED BY <1>1, <1>2 DEF Replaces

LEMMA EndDropTells ==
    ASSUME NEW s \in RuleState, NEW k, NEW t,
           s.drop # NoAlert => s.drop.rule = "productivity_drop"
    PROVE  Replaces(k, EndDrop(s, k, t).events, s.drop, EndDrop(s, k, t).state.drop, t)
<1>1. PICK bare : bare = [s EXCEPT !.samples = <<>>, !.clock = 0, !.lastSeen = 0]
  OBVIOUS
<1>2. <<>> \in Seq(Sample) /\ 0 \in 0..MaxTime
  BY Thresholds, NoneTrails
<1>3. bare \in RuleState /\ bare.drop = s.drop
  BY <1>1, <1>2 DEF RuleState
<1>4. EndDrop(s, k, t) = ClearDrop(bare, k, t)
  BY <1>1 DEF EndDrop
<1> QED BY <1>3, <1>4, ClearDropTells

LEMMA JudgeTells ==
    ASSUME NEW s \in RuleState, NEW k, NEW p, NEW t \in Time,
           s.drop # NoAlert => s.drop.rule = "productivity_drop"
    PROVE  Replaces(k, Judge(s, k, p, t).events, s.drop, Judge(s, k, p, t).state.drop, t)
<1> DEFINE fresh == [rule |-> "productivity_drop", raised |-> t]
           rises == /\ s.drop = NoAlert /\ Fallen(p, s.samples, DropPoints)
                    /\ s.negative >= DropNegativeSamples
<1>1. CASE Judge(s, k, p, t) = ClearDrop(s, k, t)
  BY <1>1, ClearDropTells
<1>2. CASE Judge(s, k, p, t) = [state |-> s, events |-> {}]
  BY <1>2, SpokenOf DEF Replaces
<1>3. CASE /\ s.drop = NoAlert
           /\ Judge(s, k, p, t) = [state  |-> [s EXCEPT !.drop = fresh],
                                   events |-> {Raised(k, "productivity_drop", t)}]
  <2>1. fresh # NoAlert /\ fresh.rule = "productivity_drop" /\ fresh.raised = t
    BY AlertFacts
  <2>2. PICK d : d = [s EXCEPT !.drop = fresh]
    OBVIOUS
  <2>5. d.drop = fresh
    <3> HIDE DEF fresh
    <3> QED BY <2>2 DEF RuleState
  <2>3. Spoken(k, NoAlert, fresh, t) = {Raised(k, "productivity_drop", t)}
    BY <2>1, SpokenOf
  <2>4. /\ Judge(s, k, p, t).events = {Raised(k, "productivity_drop", t)}
        /\ Judge(s, k, p, t).state = d
    BY <1>3, <2>2
  <2> HIDE DEF fresh
  <2> QED BY <1>3, <2>3, <2>4, <2>5 DEF Replaces
<1>4. \/ Judge(s, k, p, t) = ClearDrop(s, k, t)
      \/ Judge(s, k, p, t) = [state |-> s, events |-> {}]
      \/ /\ s.drop = NoAlert
         /\ Judge(s, k, p, t) = [state  |-> [s EXCEPT !.drop = fresh],
                                 events |-> {Raised(k, "productivity_drop", t)}]
  BY DEF Judge
<1> QED BY <1>1, <1>2, <1>3, <1>4

LEMMA DropTells ==
    ASSUME NEW s \in RuleState, NEW k, NEW r \in AnyReading, NEW t \in Time,
           s.drop # NoAlert => s.drop.rule = "productivity_drop"
    PROVE  Replaces(k, Drop(s, k, r, t).events, s.drop, Drop(s, k, r, t).state.drop, t)
<1> DEFINE p == IF r.prod > FullProductivity THEN FullProductivity ELSE r.prod
           base == Baseline(s, r, p, t)
           judged == Judge(base, k, p, t)
<1>0. r.buildings \in BOOLEAN
  BY ReadingFacts
<1>1. CASE ~r.buildings
  <2>1. Drop(s, k, r, t) = EndDrop(s, k, t)
    BY <1>1 DEF Drop
  <2> QED BY <2>1, EndDropTells
<1>2. CASE r.buildings /\ r.prod = Unreadable
  <2>1. Drop(s, k, r, t) = [state |-> s, events |-> {}]
    BY <1>2 DEF Drop
  <2> QED BY <2>1, SpokenOf DEF Replaces
<1>3. CASE r.buildings /\ r.prod # Unreadable
  <2>1. p \in Nat
    <3>1. r.prod \in Nat
      BY <1>3, ReadingFacts
    <3> QED BY <3>1 DEF FullProductivity
  <2>2. base \in RuleState /\ base.drop = s.drop
    BY BaselineOf
  <2>3. /\ judged.state \in RuleState
        /\ Replaces(k, judged.events, s.drop, judged.state.drop, t)
    BY <2>2, JudgeOf, JudgeTells
  <2>4. CASE Idle(s, r, p)
    <3>1. Drop(s, k, r, t) = judged
      BY <1>3, <2>4 DEF Drop
    <3> QED BY <2>3, <3>1
  <2>5. CASE ~Idle(s, r, p)
    <3>1. Drop(s, k, r, t) = [judged EXCEPT !.state = WithReading(@, p)]
      BY <1>3, <2>5 DEF Drop
    <3>2. PICK q, evs : judged = [state |-> q, events |-> evs]
      BY DEF Judge, ClearDrop
    <3> HIDE DEF judged, p
    <3>3. /\ Drop(s, k, r, t).events = judged.events
          /\ Drop(s, k, r, t).state = WithReading(judged.state, p)
      BY <3>1, <3>2
    <3>4. WithReading(judged.state, p).drop = judged.state.drop
      BY <2>1, <2>3, WithReadingOf
    <3> QED BY <2>3, <3>3, <3>4
  <2> QED BY <2>4, <2>5
<1> QED BY <1>0, <1>1, <1>2, <1>3

LEMMA TwoPlaces ==
    ASSUME NEW k, NEW s, NEW d, NEW t, NEW one, NEW two,
           Replaces(k, one, s.deficit, d.deficit, t), Replaces(k, two, s.drop, d.drop, t)
    PROVE  one \cup two = ToldOf(k, s, d, t) /\ Hands(s, d)
<1>1. ToldOf(k, s, d, t) =
         Spoken(k, s.deficit, d.deficit, t) \cup Spoken(k, s.drop, d.drop, t)
  BY DEF ToldOf, Slot, At
<1>2. Hands(s, d)
  BY DEF Hands, Slot, At, Replaces
<1> QED BY <1>1, <1>2 DEF Replaces

\* A product in order names its alerts.
LEMMA InOrderIsNamed ==
    ASSUME NEW s, NEW readings, ProductInv(s, readings)
    PROVE  Named(s)
BY DEF ProductInv, DeficitBy, DropBy, RuleOf, Named, Slot, At, Names

\* One product of a call.
LEMMA ProductTells ==
    ASSUME AlertInv, NEW i \in Island, NEW snapshot \in Snapshots, NEW t \in Time,
           NEW k \in Key
    PROVE  /\ Evaluated(k, snapshot, t).events
                 = ToldOf(k, rules[k], Evaluated(k, snapshot, t).state, t)
           /\ Hands(rules[k], Evaluated(k, snapshot, t).state)
<1> DEFINE s == rules[k]
<1>1. /\ s \in RuleState
      /\ s.drop # NoAlert => s.drop.rule = "productivity_drop"
  BY DEF AlertInv, AlertTypeOK, ProductInv, DropBy
<1> HIDE DEF s
<1>2. CASE k[2] \in DOMAIN snapshot
  <2>1. PICK x \in AnyReading : x = snapshot[k[2]]
    BY <1>2, SnapshotFacts
  <2>2. PICK first : first = Deficit(s, k, x, t)
    OBVIOUS
  <2>3. PICK second : second = Drop(first.state, k, x, t)
    OBVIOUS
  <2>4. Evaluated(k, snapshot, t)
           = [state |-> second.state, events |-> first.events \cup second.events]
    BY <1>2, <2>1, <2>2, <2>3 DEF Evaluated, s
  <2>5. DeficitStep(s, first.state, x, t)
    BY <1>1, <2>2, DeficitOf
  <2>6. first.state \in RuleState /\ first.state.drop = s.drop
    BY <2>5 DEF DeficitStep, Backlog
  <2>7. Replaces(k, first.events, s.deficit, first.state.deficit, t)
    BY <1>1, <2>2, DeficitTells
  <2>8. Replaces(k, second.events, s.drop, second.state.drop, t)
    BY <1>1, <2>3, <2>6, DropTells
  <2>9. second.state.deficit = first.state.deficit
    BY <2>3, <2>6, DropOf DEF DropStep
  <2>10. /\ first.events \cup second.events = ToldOf(k, s, second.state, t)
         /\ Hands(s, second.state)
    BY <2>7, <2>8, <2>9, TwoPlaces
  <2> QED BY <2>4, <2>10 DEF s
<1>3. CASE k[2] \notin DOMAIN snapshot
  <2>1. PICK done : /\ done = Evaluated(k, snapshot, t)
                    /\ \/ done = EndDrop(s, k, t)
                       \/ done = [state |-> s, events |-> {}]
    BY <1>3 DEF Evaluated, s
  <2>2. Replaces(k, {}, s.deficit, s.deficit, t) /\ Replaces(k, {}, s.drop, s.drop, t)
    BY SpokenOf DEF Replaces
  <2>3. CASE done = EndDrop(s, k, t)
    <3>1. done.state.deficit = s.deficit
      BY <1>1, <2>3, EndDropOf DEF DropEnd
    <3>2. Replaces(k, done.events, s.drop, done.state.drop, t)
      BY <1>1, <2>3, EndDropTells
    <3>3. {} \cup done.events = ToldOf(k, s, done.state, t) /\ Hands(s, done.state)
      BY <2>2, <3>1, <3>2, TwoPlaces
    <3> QED BY <2>1, <3>3 DEF s
  <2>4. CASE done = [state |-> s, events |-> {}]
    <3>1. {} \cup {} = ToldOf(k, s, s, t) /\ Hands(s, s)
      BY <2>2, TwoPlaces
    <3> QED BY <2>1, <2>4, <3>1 DEF s
  <2> QED BY <2>1, <2>3, <2>4
<1> QED BY <1>2, <1>3

LEMMA UnchangedTells ==
    ASSUME NEW k, NEW s, NEW t
    PROVE  ToldOf(k, s, s, t) = {} /\ Hands(s, s)
<1>1. \A x \in Slot : Spoken(k, At(s, x), At(s, x), t) = {}
  BY SpokenOf
<1> QED BY <1>1 DEF ToldOf, Hands

\* A call evaluates the products of one island.
LEMMA ApplyTells ==
    ASSUME AlertInv, NEW i \in Island, NEW snapshot \in Snapshots, NEW t \in Time,
           Apply(i, snapshot, t)
    PROVE  /\ events' = Sorted(Batch(rules, rules', t))
           /\ \A k \in Key : Hands(rules[k], rules'[k])
<1> DEFINE done == [k \in {i} \X Product |-> Evaluated(k, snapshot, t)]
           evs == UNION {done[k].events : k \in DOMAIN done}
<1>1. DOMAIN done = {i} \X Product /\ {i} \X Product \subseteq Key
  BY DEF Key
<1>2. /\ rules' = [k \in Key |-> IF k \in {i} \X Product THEN done[k].state ELSE rules[k]]
      /\ events' = Sorted(evs)
  BY DEF Apply
<1>3. ASSUME NEW k \in Key
      PROVE  /\ k \in {i} \X Product => done[k].events = ToldOf(k, rules[k], rules'[k], t)
             /\ k \notin {i} \X Product => ToldOf(k, rules[k], rules'[k], t) = {}
             /\ Hands(rules[k], rules'[k])
  <2>1. CASE k \in {i} \X Product
    <3>1. done[k] = Evaluated(k, snapshot, t) /\ rules'[k] = Evaluated(k, snapshot, t).state
      BY <1>2, <2>1
    <3> QED BY <2>1, <3>1, ProductTells
  <2>2. CASE k \notin {i} \X Product
    <3>1. rules'[k] = rules[k]
      BY <1>2, <2>2
    <3> QED BY <2>2, <3>1, UnchangedTells
  <2> QED BY <2>1, <2>2
<1> HIDE DEF done
<1>4. evs = Batch(rules, rules', t)
  <2>1. ASSUME NEW e
        PROVE  e \in evs <=> e \in Batch(rules, rules', t)
    <3>1. e \in evs <=> \E k \in {i} \X Product : e \in done[k].events
      BY <1>1
    <3>2. e \in Batch(rules, rules', t) <=> \E k \in Key : e \in ToldOf(k, rules[k], rules'[k], t)
      BY DEF Batch
    <3> QED BY <1>1, <1>3, <3>1, <3>2
  <2> QED BY <2>1
<1> QED BY <1>2, <1>3, <1>4

\* A session boundary empties every place.
LEMMA ResetTells ==
    ASSUME ResetEngine
    PROVE  /\ events' = Sorted(Batch(rules, rules', newest))
           /\ \A k \in Key : Hands(rules[k], rules'[k])
<1> DEFINE evs == {Cleared(a.key, a.rule, a.raised, newest) : a \in Active}
           place(k, x) == At(rules[k], x)
<1>1. events' = Sorted(evs) /\ \A k \in Key : rules'[k] = Fresh
  BY DEF ResetEngine
<1>2. \A x \in Slot : At(Fresh, x) = NoAlert
  BY DEF Slot, At, Fresh
<1>3. \A k \in Key : Hands(rules[k], rules'[k])
  BY <1>1, <1>2 DEF Hands
<1> HIDE DEF place
<1>4. ASSUME NEW k \in Key, NEW x \in Slot
      PROVE  Spoken(k, place(k, x), NoAlert, newest)
                = IF place(k, x) = NoAlert THEN {}
                  ELSE {Cleared(k, place(k, x).rule, place(k, x).raised, newest)}
  BY SpokenOf
<1>5. ASSUME NEW e
      PROVE  e \in evs <=> e \in Batch(rules, rules', newest)
  <2>1. e \in evs <=> \E k \in Key, x \in Slot :
                         /\ place(k, x) # NoAlert
                         /\ e = Cleared(k, place(k, x).rule, place(k, x).raised, newest)
    <3>1. \A a : a \in Active <=>
                    \E k \in Key, x \in Slot : place(k, x) # NoAlert /\ a = Alert(k, place(k, x))
      BY ActiveIsAlerts DEF AlertsOf, place
    <3>2. \A k, b : LET a == Alert(k, b)
                    IN Cleared(a.key, a.rule, a.raised, newest)
                          = Cleared(k, b.rule, b.raised, newest)
      BY DEF Alert
    <3> QED BY <3>1, <3>2
  <2>2. e \in Batch(rules, rules', newest) <=>
           \E k \in Key, x \in Slot : e \in Spoken(k, place(k, x), NoAlert, newest)
    <3>1. \A k \in Key, x \in Slot : At(rules'[k], x) = NoAlert
      BY <1>1, <1>2
    <3> QED BY <3>1 DEF Batch, ToldOf, place
  <2> QED BY <1>4, <2>1, <2>2
<1>6. evs = Batch(rules, rules', newest)
  BY <1>5
<1> QED BY <1>1, <1>3, <1>6

LEMMA CallIsLogged ==
    ASSUME AlertInv, AlertInv', PastNext
    PROVE  Log!Next
<1>1. \A k \in Key : Named(rules[k])
  BY InOrderIsNamed DEF AlertInv
<1>2. \A k \in Key : Named(rules[k])'
  <2>1. PICK new, old : new = rules' /\ old = past'
    OBVIOUS
  <2>2. \A k \in Key : ProductInv(new[k], old[k])
    BY <2>1 DEF AlertInv, ProductInv, Trailing, Counts, DeficitBy, DropBy, InDeficit, Streak
  <2>3. \A k \in Key : Named(new[k])
    BY <2>2, InOrderIsNamed
  <2> QED BY <2>1, <2>3 DEF Named, At
<1>3. Active = AlertsOf(rules) /\ Active' = AlertsOf(rules')
  <2>1. (Active = AlertsOf(rules))'
    BY ActiveIsAlerts, PTL
  <2> QED BY <2>1, ActiveIsAlerts DEF AlertsOf, At
<1>4. ASSUME NEW i \in Island, NEW snapshot \in Snapshots, NEW t \in Time,
             PastApply(i, snapshot, t)
      PROVE  Log!Next
  <2>1. Apply(i, snapshot, t)
    BY <1>4 DEF PastApply
  <2> QED BY <1>1, <1>2, <1>3, <2>1, ApplyTells, BatchIsLogged
<1>5. CASE PastReset
  <2>1. ResetEngine
    BY <1>5 DEF PastReset
  <2> QED BY <1>1, <1>2, <1>3, <2>1, ResetTells, BatchIsLogged
<1> QED BY <1>4, <1>5 DEF PastNext
-----------------------------------------------------------------------------
(* Theorems *)

(***************************************************************************)
(* The drop rule's baseline is a trailing one (engine.go:318): ordered,    *)
(* inside the window on the product's own clock and within the backstop,   *)
(* in whatever order receive times come.                                   *)
(***************************************************************************)
THEOREM BaselineAlwaysTrails == PastSpec => []BaselineIsTrailing
<1>1. AlertInv => BaselineIsTrailing
  <2> SUFFICES ASSUME AlertInv, NEW k \in Key
               PROVE  /\ Len(rules[k].samples) <= MaxDropSamples
                      /\ \A n \in 1..Len(rules[k].samples) :
                            /\ rules[k].samples[n].at \in rules[k].clock - DropWindow .. rules[k].clock
                            /\ n > 1 => rules[k].samples[n - 1].at <= rules[k].samples[n].at
    BY DEF BaselineIsTrailing
  <2>1. PICK s \in RuleState : s = rules[k] /\ Trailing(s)
    BY DEF AlertInv, AlertTypeOK, ProductInv
  <2>2. s.clock \in Nat /\ s.samples \in Seq(Sample)
    BY DEF RuleState
  <2>3. Len(s.samples) \in Nat /\ \A n \in 1..Len(s.samples) : s.samples[n].at \in Nat
    BY <2>2, SampleFacts
  <2>4. ASSUME NEW n \in 1..Len(s.samples)
        PROVE  /\ s.samples[n].at \in s.clock - DropWindow .. s.clock
               /\ n > 1 => s.samples[n - 1].at <= s.samples[n].at
    <3>1. /\ s.samples[n].at <= s.clock /\ s.clock - DropWindow <= s.samples[n].at
          /\ s.samples[n].at \in Nat
      BY <2>1, <2>3 DEF Trailing, Ordered, NotBefore
    <3>2. ASSUME n > 1 PROVE s.samples[n - 1].at <= s.samples[n].at
      <4>1. n - 1 \in 1..Len(s.samples) /\ n - 1 <= n
        BY <2>3, <3>2
      <4> QED BY <2>1, <4>1 DEF Trailing, Ordered
    <3> QED BY <2>2, <3>1, <3>2, Thresholds
  <2> QED BY <2>1, <2>4 DEF Trailing
<1> QED BY <1>1, AlertInvHolds, PTL

(***************************************************************************)
(* No open alert was raised later than the newest receive time, so a       *)
(* session boundary never clears one before it was raised                  *)
(* (engine.go:34).                                                         *)
(***************************************************************************)
THEOREM NeverClearedBeforeRaised == PastSpec => []RaisedByNewest
<1>1. AlertInv => RaisedByNewest
  BY DEF AlertInv, RaisedBy, RaisedByNewest, Active, Open
<1> QED BY <1>1, AlertInvHolds, PTL

(***************************************************************************)
(* The streak counters decide what the documentation says of the readings  *)
(* themselves (doc.go on the deficit rules, engine.go:195-257): an alert   *)
(* of a deficit rule is open exactly if the history says so, and names the *)
(* situation of the last reading.                                          *)
(***************************************************************************)
THEOREM CountersTellHistory == PastSpec => []DeficitByHistory
<1>1. AlertInv => DeficitByHistory
  <2> SUFFICES ASSUME AlertInv, NEW k \in Key
               PROVE  /\ rules[k].deficit # NoAlert <=> InDeficit(past[k])
                      /\ rules[k].deficit # NoAlert =>
                            (rules[k].deficit.rule = "deficit" <=> Last(past[k]).buildings)
    BY DEF DeficitByHistory
  <2>1. DeficitBy(rules[k], past[k]) /\ past[k] \in Seq(AnyReading)
    BY DEF AlertInv, AlertTypeOK, ProductInv
  <2>2. rules[k].deficit # NoAlert => Last(past[k]).buildings \in BOOLEAN
    BY <2>1, DeficitHasReadings DEF DeficitBy
  <2> QED BY <2>1, <2>2 DEF DeficitBy, RuleOf
<1> QED BY <1>1, AlertInvHolds, PTL

(***************************************************************************)
(* A productivity drop is open only while it explains local production     *)
(* falling behind (doc.go on the drop rule, engine.go:258-372).            *)
(***************************************************************************)
THEOREM DropsExplainDeficits == PastSpec => []OpenDropMatters
<1>1. AlertInv => OpenDropMatters
  BY DEF AlertInv, ProductInv, DropBy, OpenDropMatters
<1> QED BY <1>1, AlertInvHolds, PTL

(***************************************************************************)
(* Whoever applies the events of Apply and Reset in the order they come    *)
(* (engine.go:87-206) never meets one that contradicts the alerts it has,  *)
(* and ends with those that Active returns: across hand-overs between the  *)
(* two deficit rules, vanished products, session boundaries and receive    *)
(* times in any order, however many products of an island are evaluated.   *)
(***************************************************************************)
THEOREM EngineImplementsLog == PastSpec => ImplementsAlertLog
<1>1. PastInit => Log!Init
  <2> SUFFICES ASSUME PastInit PROVE Log!Init
    OBVIOUS
  <2>1. events = <<>> /\ \A k \in Key : rules[k].deficit = NoAlert /\ rules[k].drop = NoAlert
    BY DEF PastInit, AlertInit, Fresh
  <2>2. Active = {}
    BY <2>1 DEF Active, Open
  <2> QED BY <2>1, <2>2 DEF Log!Init
<1>2. AlertInv /\ AlertInv' /\ [PastNext]_pastVars => [Log!Next]_(Log!vars)
  <2> SUFFICES ASSUME AlertInv, AlertInv', [PastNext]_pastVars PROVE [Log!Next]_(Log!vars)
    OBVIOUS
  <2>1. CASE PastNext
    BY <2>1, CallIsLogged
  <2>2. CASE UNCHANGED pastVars
    BY <2>2 DEF pastVars, alertVars, Active, Open, Log!vars
  <2> QED BY <2>1, <2>2
<1> QED BY <1>1, <1>2, AlertInvHolds, PTL DEF PastSpec, ImplementsAlertLog, Log!Spec
=============================================================================

---------------------------- MODULE AlertEngine ----------------------------
(***************************************************************************)
(* internal/alerts: the rules evaluated against every stored snapshot.     *)
(* Apply and Reset hold Engine.mu from beginning to end, so each is one    *)
(* step; Active copies under the same mutex.                               *)
(*                                                                         *)
(* A reading is what the rules look at of one product. Values, names and   *)
(* details of an alert are left out: no rule reads them back.              *)
(***************************************************************************)
EXTENDS Integers, Sequences, FiniteSets, SequencesExt

CONSTANTS
    Island, Product,         \* numbers: events are sorted by them
    Reading,                 \* the readings each product may have
    MaxTime,                 \* bound: receive times are 1 .. MaxTime
    StreakCap,               \* bound: streaks are counted up to here
    Given,                   \* the Config that New is given
    MaxDropSamples,          \* maxDropSamples
    Unreadable,              \* a productivity that is NaN or infinite
    NoAlert                  \* a nil *Alert

VARIABLES
    rules,   \* the rule state of every product, Engine.islands
    newest,  \* the newest receive time seen, 0 before the first
    events   \* the events the last call returned

alertVars == <<rules, newest, events>>

Key == Island \X Product
Time == 1 .. MaxTime
FullProductivity == 100
RuleNames == {"deficit", "no_local_production", "productivity_drop"}

-----------------------------------------------------------------------------
(* Config: counts of samples, percentage points, and units of time *)

DefaultConfig ==
    [DeficitSamples |-> 3, DeficitClearSamples |-> 3, DropNegativeSamples |-> 2,
     MinSamplesForDrop |-> 3, DropPercentagePoints |-> 20, DropClearPercentagePoints |-> 10,
     DropWindow |-> 15]

\* What is not positive is replaced by its default.
Usable(field) == IF Given[field] > 0 THEN Given[field] ELSE DefaultConfig[field]

DeficitSamples      == Usable("DeficitSamples")
DeficitClearSamples == Usable("DeficitClearSamples")
DropNegativeSamples == Usable("DropNegativeSamples")
MinSamplesForDrop   == Usable("MinSamplesForDrop")
DropWindow          == Usable("DropWindow")
DropPoints          == Usable("DropPercentagePoints")

(***************************************************************************)
(* A clear threshold that is not smaller than the raise threshold would    *)
(* remove the hysteresis: it is capped at half of it.                      *)
(***************************************************************************)
DropClearPoints ==
    IF Usable("DropClearPercentagePoints") < DropPoints THEN Usable("DropClearPercentagePoints")
    ELSE DropPoints \div 2

(***************************************************************************)
(* Config may hold anything; points are counted in a unit that halves.     *)
(* Streaks are compared with thresholds only, so counting them beyond the  *)
(* largest tells nothing.                                                  *)
(***************************************************************************)
ASSUME AlertAssumption ==
    /\ Island \subseteq Nat /\ Product \subseteq Nat
    /\ IsFiniteSet(Island) /\ IsFiniteSet(Product)
    /\ \A k \in Product : \A r \in Reading[k] :
          /\ r.delta \in {"negative", "other"}
          /\ r.buildings \in BOOLEAN
          /\ r.prod \in Nat \cup {Unreadable}
    /\ Unreadable \notin Nat /\ NoAlert \notin [rule : RuleNames, raised : Time]
    /\ MaxTime \in Nat /\ MaxDropSamples \in Nat \ {0}
    /\ \A field \in DOMAIN DefaultConfig : Given[field] \in Int
    /\ Given.DropPercentagePoints % 2 = 0
    /\ StreakCap \in Nat
    /\ \A n \in {DeficitSamples, DeficitClearSamples, DropNegativeSamples} : n <= StreakCap

-----------------------------------------------------------------------------
(* Alerts and events *)

Raised(k, rule, t) ==
    [kind |-> "raised", alert |-> [key |-> k, rule |-> rule, raised |-> t], cleared |-> 0]

Cleared(k, rule, t, at) ==
    [kind |-> "cleared", alert |-> [key |-> k, rule |-> rule, raised |-> t], cleared |-> at]

RuleRank == [deficit |-> 1, no_local_production |-> 2, productivity_drop |-> 3]

(***************************************************************************)
(* The order of every list: island, product, rule. Within one call no two  *)
(* events agree in all three.                                              *)
(***************************************************************************)
Before(e, f) ==
    LET a == e.alert
        b == f.alert
    IN \/ a.key[1] < b.key[1]
       \/ a.key[1] = b.key[1] /\ a.key[2] < b.key[2]
       \/ a.key = b.key /\ RuleRank[a.rule] < RuleRank[b.rule]

Sorted(evs) ==
    CHOOSE list \in [1 .. Cardinality(evs) -> evs] :
        \A m, n \in DOMAIN list : m < n => Before(list[m], list[n])

-----------------------------------------------------------------------------
(* The rules. Each takes a product's rule state to the state and the       *)
(* events it leaves.                                                       *)

Fresh ==
    [negative |-> 0, nonNegative |-> 0, deficit |-> NoAlert,
     samples |-> <<>>, drop |-> NoAlert, clock |-> 0, lastSeen |-> 0]

Count(n) == IF n < StreakCap THEN n + 1 ELSE n

\* The other streak is not broken.
MutStreaks(s, delta) ==
    IF delta = "negative" THEN [s EXCEPT !.negative = Count(@)]
    ELSE [s EXCEPT !.nonNegative = Count(@), !.negative = 0]

(***************************************************************************)
(* One reading extends one streak and breaks the other.                    *)
(***************************************************************************)
Streaks(s, delta) ==
    IF delta = "negative" THEN [s EXCEPT !.negative = Count(@), !.nonNegative = 0]
    ELSE [s EXCEPT !.nonNegative = Count(@), !.negative = 0]

\* An open alert of the other rule is forgotten, not cleared.
MutHandOver(s, k, rule, t) ==
    IF s.deficit # NoAlert /\ s.deficit.rule # rule
    THEN [state |-> [s EXCEPT !.deficit = NoAlert], events |-> {}]
    ELSE [state |-> s, events |-> {}]

(***************************************************************************)
(* The island began to produce the product itself, or stopped: the open    *)
(* alert describes the other situation and ends. The streak carries on.    *)
(***************************************************************************)
HandOver(s, k, rule, t) ==
    IF s.deficit # NoAlert /\ s.deficit.rule # rule
    THEN [state  |-> [s EXCEPT !.deficit = NoAlert],
          events |-> {Cleared(k, s.deficit.rule, s.deficit.raised, t)}]
    ELSE [state |-> s, events |-> {}]

(***************************************************************************)
(* applyDeficit.                                                           *)
(***************************************************************************)
Deficit(s, k, r, t) ==
    LET rule   == IF r.buildings THEN "deficit" ELSE "no_local_production"
        handed == HandOver(Streaks(s, r.delta), k, rule, t)
        now    == handed.state
    IN IF now.deficit = NoAlert /\ now.negative >= DeficitSamples
       THEN [state  |-> [now EXCEPT !.deficit = [rule |-> rule, raised |-> t]],
             events |-> handed.events \cup {Raised(k, rule, t)}]
       ELSE IF now.deficit # NoAlert /\ now.nonNegative >= DeficitClearSamples
       THEN [state  |-> [now EXCEPT !.deficit = NoAlert],
             events |-> handed.events \cup {Cleared(k, rule, now.deficit.raised, t)}]
       ELSE handed

ClearDrop(s, k, t) ==
    [state  |-> [s EXCEPT !.drop = NoAlert],
     events |-> IF s.drop = NoAlert THEN {}
                ELSE {Cleared(k, "productivity_drop", s.drop.raised, t)}]

(***************************************************************************)
(* endDrop: without buildings nothing can have stalled. The deficit's      *)
(* streak is not the drop rule's to forget.                                *)
(***************************************************************************)
EndDrop(s, k, t) ==
    ClearDrop([s EXCEPT !.samples = <<>>, !.clock = 0, !.lastSeen = 0], k, t)

Total(samples) == FoldLeft(LAMBDA sum, x : sum + x.value, 0, samples)

\* The window is not applied.
MutPrune(samples, cutoff) == samples

(***************************************************************************)
(* prune: the history is kept oldest first, so the readings before the     *)
(* first that is not older than cutoff are cut.                            *)
(***************************************************************************)
Prune(samples, cutoff) ==
    LET recent == {n \in DOMAIN samples : samples[n].at >= cutoff}
    IN IF recent = {} THEN <<>> ELSE SubSeq(samples, Min(recent), Len(samples))

AppendSample(samples, x) ==
    LET longer == Append(samples, x)
    IN SubSeq(longer, Len(longer) - (IF Len(longer) > MaxDropSamples THEN MaxDropSamples
                                     ELSE Len(longer)) + 1, Len(longer))

(***************************************************************************)
(* Less productive than the mean of the readings: p < mean.                *)
(***************************************************************************)
BelowMean(p, samples) == Len(samples) > 0 /\ Len(samples) * p < Total(samples)

(***************************************************************************)
(* The mean of the readings minus p exceeds so many percentage points.     *)
(***************************************************************************)
Fallen(p, samples, points) == Total(samples) - Len(samples) * p > Len(samples) * points

(***************************************************************************)
(* The history of the drop rule when a reading p arrives: a reading below  *)
(* the baseline at a balance that is not negative is left out, with the    *)
(* time it covers. The history runs on a clock of its own that does not    *)
(* run backwards.                                                          *)
(***************************************************************************)
Idle(s, r, p) == r.delta = "other" /\ BelowMean(p, s.samples)

Elapsed(s, t) == IF s.lastSeen = 0 \/ t < s.lastSeen THEN 0 ELSE t - s.lastSeen

Baseline(s, r, p, t) ==
    IF Idle(s, r, p)
    THEN [s EXCEPT !.lastSeen = t]
    ELSE LET clock == s.clock + Elapsed(s, t)
         IN [s EXCEPT !.lastSeen = t, !.clock = clock,
                      !.samples = Prune(@, clock - DropWindow)]

WithReading(s, p) ==
    [s EXCEPT !.samples = AppendSample(@, [at |-> s.clock, value |-> p])]

\* A recovered balance does not end a drop.
MutBalanceRecovered(s) == FALSE

BalanceRecovered(s) == s.nonNegative >= DeficitClearSamples

(***************************************************************************)
(* The drop rule against the baseline, before this reading joins it.       *)
(***************************************************************************)
Judge(s, k, p, t) ==
    IF s.drop # NoAlert /\ BalanceRecovered(s) THEN ClearDrop(s, k, t)
    ELSE IF Len(s.samples) < MinSamplesForDrop THEN [state |-> s, events |-> {}]
    ELSE IF /\ s.drop = NoAlert
            /\ Fallen(p, s.samples, DropPoints)
            /\ s.negative >= DropNegativeSamples
    THEN [state  |-> [s EXCEPT !.drop = [rule |-> "productivity_drop", raised |-> t]],
          events |-> {Raised(k, "productivity_drop", t)}]
    ELSE IF s.drop # NoAlert /\ ~Fallen(p, s.samples, DropClearPoints) THEN ClearDrop(s, k, t)
    ELSE [state |-> s, events |-> {}]

(***************************************************************************)
(* applyDrop. Boosts above 100 % are capped.                               *)
(***************************************************************************)
Drop(s, k, r, t) ==
    LET p      == IF r.prod > FullProductivity THEN FullProductivity ELSE r.prod
        judged == Judge(Baseline(s, r, p, t), k, p, t)
    IN IF ~r.buildings THEN EndDrop(s, k, t)
       ELSE IF r.prod = Unreadable THEN [state |-> s, events |-> {}]
       ELSE IF Idle(s, r, p) THEN judged
       ELSE [judged EXCEPT !.state = WithReading(@, p)]

-----------------------------------------------------------------------------
(* The engine *)

(***************************************************************************)
(* One product of the snapshot: the deficit rule first, because the drop   *)
(* rule reads its streak. One that is missing from a snapshot with goods   *)
(* in it has no buildings left; an empty snapshot changes nothing.         *)
(***************************************************************************)
Evaluated(k, snapshot, t) ==
    IF k[2] \in DOMAIN snapshot
    THEN LET first  == Deficit(rules[k], k, snapshot[k[2]], t)
             second == Drop(first.state, k, snapshot[k[2]], t)
         IN [state |-> second.state, events |-> first.events \cup second.events]
    ELSE IF DOMAIN snapshot # {} THEN EndDrop(rules[k], k, t)
    ELSE [state |-> rules[k], events |-> {}]

\* The clock of Reset is the last snapshot's, also when time went back.
MutNewer(t) == t

Newer(t) == IF t > newest THEN t ELSE newest

Apply(i, snapshot, t) ==
    LET done == [k \in {i} \X Product |-> Evaluated(k, snapshot, t)]
    IN /\ rules' = [k \in Key |-> IF k \in DOMAIN done THEN done[k].state ELSE rules[k]]
       /\ events' = Sorted(UNION {done[k].events : k \in DOMAIN done})
       /\ newest' = Newer(t)

Open(k) ==
    {[key |-> k, rule |-> a.rule, raised |-> a.raised] :
        a \in {rules[k].deficit, rules[k].drop} \ {NoAlert}}

(***************************************************************************)
(* Engine.Active.                                                          *)
(***************************************************************************)
Active == UNION {Open(k) : k \in Key}

(***************************************************************************)
(* A session boundary clears every alert, at the newest snapshot time.     *)
(* (Without one no alert is open.)                                         *)
(***************************************************************************)
ResetEngine ==
    /\ events' = Sorted({Cleared(a.key, a.rule, a.raised, newest) : a \in Active})
    /\ rules' = [k \in Key |-> Fresh]
    /\ newest' = 0

AlertInit ==
    /\ rules = [k \in Key |-> Fresh]
    /\ newest = 0
    /\ events = <<>>

Snapshots == UNION {{f \in [P -> UNION {Reading[p] : p \in P}] : \A p \in P : f[p] \in Reading[p]} :
                        P \in SUBSET Product}

AlertNext ==
    \/ \E i \in Island, snapshot \in Snapshots, t \in Time : Apply(i, snapshot, t)
    \/ ResetEngine

AlertSpec == AlertInit /\ [][AlertNext]_alertVars

-----------------------------------------------------------------------------
(* Properties *)

(***************************************************************************)
(* The baseline is a trailing one whatever receive times arrive, also ones *)
(* that jump back (engine.go:318): its readings are ordered, none of them  *)
(* is older than the window on the product's own clock, and there are no   *)
(* more than the backstop allows.                                          *)
(***************************************************************************)
BaselineIsTrailing ==
    \A k \in Key :
        LET s == rules[k]
        IN /\ Len(s.samples) <= MaxDropSamples
           /\ \A n \in 1 .. Len(s.samples) :
                 /\ s.samples[n].at \in s.clock - DropWindow .. s.clock
                 /\ n > 1 => s.samples[n - 1].at <= s.samples[n].at

(***************************************************************************)
(* Reset never clears an alert before it was raised, even if the receive   *)
(* times went back in between (engine.go:34).                              *)
(***************************************************************************)
RaisedByNewest == \A a \in Active : a.raised <= newest
=============================================================================

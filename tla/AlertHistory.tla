---------------------------- MODULE AlertHistory ----------------------------
(***************************************************************************)
(* AlertEngine with the readings of each product remembered, so that what  *)
(* the streak counters decide can be compared with what the documentation  *)
(* says of the readings themselves, and the events with AlertLog.          *)
(***************************************************************************)
EXTENDS AlertEngine

CONSTANT MaxPast  \* bound: readings of each product between two Resets

VARIABLE past  \* the readings of every product since the last Reset

pastVars == <<alertVars, past>>

Log == INSTANCE AlertLog WITH active <- Active, batch <- events

PastInit ==
    /\ AlertInit
    /\ past = [k \in Key |-> <<>>]

PastApply(i, snapshot, t) ==
    /\ \A p \in DOMAIN snapshot : Len(past[<<i, p>>]) < MaxPast[p]
    /\ Apply(i, snapshot, t)
    /\ past' = [k \in Key |-> IF k[1] = i /\ k[2] \in DOMAIN snapshot
                              THEN Append(past[k], snapshot[k[2]])
                              ELSE past[k]]

PastReset ==
    /\ ResetEngine
    /\ past' = [k \in Key |-> <<>>]

PastNext ==
    \/ \E i \in Island, snapshot \in Snapshots, t \in Time : PastApply(i, snapshot, t)
    \/ PastReset

PastSpec == PastInit /\ [][PastNext]_pastVars

-----------------------------------------------------------------------------
(* Properties *)

(***************************************************************************)
(* n consecutive readings up to the m-th have this kind of balance.        *)
(***************************************************************************)
Streak(readings, m, n, delta) ==
    m >= n /\ \A j \in m - n + 1 .. m : readings[j].delta = delta

(***************************************************************************)
(* alerts/doc.go on the deficit rules, said of the readings: an alert is   *)
(* open exactly if the balance was once negative DeficitSamples times in a *)
(* row and has not been otherwise DeficitClearSamples times in a row       *)
(* since. It names the situation of the last reading - except that one     *)
(* carried over from the other situation needs the streak to be unbroken.  *)
(***************************************************************************)
InDeficit(readings) ==
    \E m \in 1 .. Len(readings) :
        /\ Streak(readings, m, DeficitSamples, "negative")
        /\ \A j \in m + 1 .. Len(readings) :
              /\ ~Streak(readings, j, DeficitClearSamples, "other")
              /\ readings[j].buildings = readings[m].buildings

DeficitByHistory ==
    \A k \in Key :
        LET readings == past[k]
        IN /\ rules[k].deficit # NoAlert <=> InDeficit(readings)
           /\ rules[k].deficit # NoAlert =>
                 (rules[k].deficit.rule = "deficit" <=> Last(readings).buildings)

(***************************************************************************)
(* A productivity drop stays open only while it explains local production  *)
(* falling behind: it ends when the buildings are gone and when the        *)
(* balance has not been negative DeficitClearSamples times in a row - at   *)
(* the first of those readings whose productivity is a number.             *)
(***************************************************************************)
OpenDropMatters ==
    \A k \in Key :
        LET readings == past[k]
        IN rules[k].drop # NoAlert =>
              /\ Last(readings).buildings
              /\ \/ ~Streak(readings, Len(readings), DeficitClearSamples, "other")
                 \/ Last(readings).prod = Unreadable

(***************************************************************************)
(* Every event makes sense to a consumer that applies them in order, and   *)
(* what it then has open is what Active returns - across hand-overs        *)
(* between the two deficit rules, vanished products and session            *)
(* boundaries.                                                             *)
(***************************************************************************)
ImplementsAlertLog == Log!Spec

(***************************************************************************)
(* A reading below the baseline taken while the balance is not negative is *)
(* not added to it (engine.go:296-299): whenever such a reading joins the  *)
(* history, it is no lower than the mean of the readings it joins.         *)
(***************************************************************************)
IdleReadingLeftOut ==
    [][ \A k \in Key :
          LET joined == rules'[k].samples
          IN ( /\ Len(past'[k]) > Len(past[k]) /\ Last(past'[k]).delta = "other"
               /\ joined # rules[k].samples /\ joined # <<>> )
             => ~BelowMean(Last(joined).value, Front(joined)) ]_pastVars
=============================================================================

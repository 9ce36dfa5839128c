------------------------------ MODULE AlertLog ------------------------------
(***************************************************************************)
(* What the rule engine promises to whoever consumes its events - the      *)
(* history, which opens and closes one row per alert, and the browsers,    *)
(* which keep a list of open alerts: applied one after the other, the      *)
(* events of a call are never contradictory and lead to the alerts that    *)
(* are then active.                                                        *)
(***************************************************************************)
EXTENDS Naturals, Sequences

VARIABLES
    active,  \* the alerts Engine.Active returns
    batch    \* the events of the last call, in order

(***************************************************************************)
(* An alert is told apart by where it is, its rule and when it was raised; *)
(* of those only the last may differ between two alerts of one condition.  *)
(***************************************************************************)
SameCondition(a, b) == a.key = b.key /\ a.rule = b.rule

(***************************************************************************)
(* Whether an event makes sense to a consumer with these open alerts: a    *)
(* condition is not raised twice, and what is cleared was open.            *)
(***************************************************************************)
Sensible(open, event) ==
    IF event.kind = "raised" THEN \A a \in open : ~SameCondition(a, event.alert)
    ELSE event.alert \in open

(***************************************************************************)
(* What is open after the first n events: what was open or was raised, and *)
(* has not been spoken of since.                                           *)
(***************************************************************************)
OpenAfter(open, evs, n) ==
    LET silent(a, m) == \A k \in m + 1 .. n : evs[k].alert # a
    IN {a \in open : silent(a, 0)}
       \cup {evs[m].alert :
                m \in {m \in 1 .. n : evs[m].kind = "raised" /\ silent(evs[m].alert, m)}}

(***************************************************************************)
(* A product falls behind its consumption with buildings of its own or     *)
(* without: never both.                                                    *)
(***************************************************************************)
Consistent(alerts) ==
    \A a, b \in alerts :
        (a.key = b.key /\ a # b) => "productivity_drop" \in {a.rule, b.rule}

Init ==
    /\ active = {}
    /\ batch = <<>>

Next ==
    /\ \A n \in DOMAIN batch' : Sensible(OpenAfter(active, batch', n - 1), batch'[n])
    /\ active' = OpenAfter(active, batch', Len(batch'))
    /\ Consistent(active')

vars == <<active, batch>>

Spec == Init /\ [][Next]_vars
=============================================================================

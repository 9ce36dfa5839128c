------------------------------ MODULE PageStore ------------------------------
(***************************************************************************)
(* web/js/app.js and live.js: the page's store, filled from three sides    *)
(* that overtake one another - the event stream, the island list fetched   *)
(* by resyncIslands, and the status and warnings fetched at the start and  *)
(* whenever the stream opens.                                              *)
(*                                                                         *)
(* A fetch is asked for, answered by the server from its state of that     *)
(* moment, and its answer is applied later or the fetch fails. Callbacks   *)
(* of the page run one at a time, each to its next await.                  *)
(***************************************************************************)
EXTENDS EventStream

VARIABLES
    shown,    \* store.islands, by island: the revision shown, 0 for none
    warned,   \* store.alerts, by island
    status,   \* store.status
    resync,   \* resyncing: the list on its way
    again,    \* resyncAgain
    load,     \* the other fetches: those of the start, those of each open
    owed,     \* a status has found the list stale and no request followed
    fails     \* fetches that have failed

store    == <<shown, warned, status>>
fetching == <<resync, again, load, owed, fails>>
pageVars == <<store, fetching>>
vars     == <<streamVars, pageVars>>

NoStatus == [ev |-> "none"]

Idle  == [at |-> "idle"]
Asked == [at |-> "asked"]

\* The loads of the start are 0 (status) and 1 (warnings); load n + 1 is that
\* of the n-th open, which does one thing after the other.
Load == 0..play.opens + 1

(***************************************************************************)
(* refreshAlerts is asked for; where no island is watched its answer is    *)
(* empty whenever it comes, and it is not followed.                        *)
(***************************************************************************)
AlertsAsked == IF play.watched = {} THEN Idle ELSE [at |-> "alerts"]

PageInit ==
    /\ StreamInit
    /\ warned = Zero /\ again = FALSE /\ owed = FALSE /\ fails = 0
    /\ IF play.settled
       THEN /\ shown = island /\ status = StatusNow /\ resync = Idle
            /\ load = [l \in Load |-> Idle]
       ELSE /\ shown = Zero /\ status = NoStatus /\ resync = Asked
            /\ load = [l \in Load |-> CASE l = 0 -> [at |-> "status"]
                                        [] l = 1 -> AlertsAsked
                                        [] OTHER -> Idle]

-----------------------------------------------------------------------------
(* resyncIslands *)

\* A repeat asked for while a request runs is forgotten.
MutResyncIslands ==
    /\ resync' = IF resync = Idle THEN Asked ELSE resync
    /\ UNCHANGED again

(***************************************************************************)
(* A call of resyncIslands: a request, or a repeat of the running one.     *)
(***************************************************************************)
ResyncIslands ==
    IF resync = Idle
    THEN resync' = Asked /\ again' = FALSE
    ELSE again' = TRUE /\ UNCHANGED resync

ServeIslands ==
    /\ resync = Asked
    /\ resync' = [at |-> "answered", islands |-> island]
    /\ UNCHANGED <<streamVars, store, again, load, owed, fails>>

(***************************************************************************)
(* The opens that await the resync go on to refreshAlerts when it ends.    *)
(***************************************************************************)
Awaited ==
    [l \in Load |-> IF load[l].at = "resync" THEN AlertsAsked ELSE load[l]]

ApplyIslands ==
    /\ resync.at = "answered"
    /\ shown' = resync.islands
    /\ again' = FALSE
    /\ IF again
       THEN resync' = Asked /\ owed' = FALSE /\ UNCHANGED load
       ELSE resync' = Idle /\ load' = Awaited /\ UNCHANGED owed
    /\ UNCHANGED <<streamVars, warned, status, fails>>

(***************************************************************************)
(* The request fails, and a repeat asked for meanwhile is lost with it.    *)
(***************************************************************************)
FailIslands ==
    /\ resync # Idle /\ fails < play.fails
    /\ resync' = Idle /\ load' = Awaited /\ owed' = FALSE
    /\ fails' = fails + 1
    /\ UNCHANGED <<streamVars, store, again>>

-----------------------------------------------------------------------------
(* The fetches of the start and of onOpen *)

Goes(l, to) == load' = [load EXCEPT ![l] = to]

ServeLoad(l) ==
    /\ \/ /\ load[l].at = "status"
          /\ Goes(l, [at |-> "counting", session |-> session])
       \/ /\ load[l].at = "counting"
          /\ Goes(l, [at |-> "gotStatus",
                      status |-> StatusFrame(load[l].session, Cardinality(Present))])
       \/ /\ load[l].at = "alerts"
          /\ Goes(l, [at |-> "gotAlerts", alerts |-> alert])
    /\ UNCHANGED <<streamVars, store, resync, again, owed, fails>>

(***************************************************************************)
(* onOpen is through with its status: it awaits resyncIslands.             *)
(***************************************************************************)
AfterStatus(l) ==
    IF l = 0
    THEN Goes(l, Idle) /\ UNCHANGED <<resync, again, owed>>
    ELSE /\ Goes(l, [at |-> "resync"])
         /\ ResyncIslands
         /\ owed' = (owed /\ resync # Idle)

ApplyLoad(l) ==
    /\ \/ /\ load[l].at = "gotStatus"
          /\ status' = load[l].status
          /\ AfterStatus(l)
          /\ UNCHANGED warned
       \/ /\ load[l].at = "gotAlerts"
          /\ warned' = load[l].alerts
          /\ Goes(l, Idle)
          /\ UNCHANGED <<status, resync, again, owed>>
    /\ UNCHANGED <<streamVars, shown, fails>>

FailLoad(l) ==
    /\ fails < play.fails
    /\ \/ load[l].at \in {"status", "counting", "gotStatus"} /\ AfterStatus(l)
       \/ load[l].at \in {"alerts", "gotAlerts"} /\ Goes(l, Idle) /\ UNCHANGED <<resync, again, owed>>
    /\ fails' = fails + 1
    /\ UNCHANGED <<streamVars, store>>

-----------------------------------------------------------------------------
(* Events *)

\* The number of islands is not looked at.
MutStatusNeedsResync(now) ==
    IF status = NoStatus THEN TRUE
    ELSE now.session # status.session \/ now.linked # status.linked

(***************************************************************************)
(* statusNeedsResync                                                       *)
(***************************************************************************)
StatusNeedsResync(now) ==
    \/ now.count # Cardinality({i \in play.isles : shown[i] # 0})
    \/ IF status = NoStatus THEN TRUE
       ELSE now.session # status.session \/ now.linked # status.linked

OnStatus(now) ==
    /\ status' = now
    /\ IF StatusNeedsResync(now)
       THEN ResyncIslands /\ owed' = (resync # Idle)
       ELSE UNCHANGED <<resync, again, owed>>
    /\ UNCHANGED <<shown, warned, load>>

OnSnapshot(i, rev) ==
    /\ shown' = [shown EXCEPT ![i] = rev]
    /\ UNCHANGED <<warned, status, resync, again, load, owed>>

ApplyAlertEvent(i, rev) ==
    /\ warned' = [warned EXCEPT ![i] = rev]
    /\ UNCHANGED <<shown, status, resync, again, load, owed>>

OnOpen ==
    /\ Goes(opens + 1, [at |-> "status"])
    /\ UNCHANGED <<shown, warned, status, resync, again, owed>>

(***************************************************************************)
(* The browser delivers the next frame of the stream to the page.          *)
(***************************************************************************)
OnEvent ==
    /\ Deliver
    /\ LET f == NextFrame
       IN \/ f.ev = "open" /\ OnOpen
          \/ f.ev = "status" /\ OnStatus(f)
          \/ f.ev = "snapshot" /\ OnSnapshot(f.island, f.rev)
          \/ f.ev = "alert" /\ ApplyAlertEvent(f.island, f.rev)
    /\ UNCHANGED fails

-----------------------------------------------------------------------------

FetchStep ==
    \/ ServeIslands \/ ApplyIslands
    \/ \E l \in Load : ServeLoad(l) \/ ApplyLoad(l)

PageNext ==
    \/ (Outside \/ PipelineStep \/ NoticeStep \/ HandlerStep) /\ UNCHANGED pageVars
    \/ FetchStep \/ FailIslands \/ \E l \in Load : FailLoad(l)
    \/ OnEvent

(***************************************************************************)
(* The goroutines and the browser go on; the game goes on reporting its    *)
(* islands every two minutes. The user, the session and the connection     *)
(* owe nothing.                                                            *)
(***************************************************************************)
PageFairness ==
    /\ WF_vars((PipelineStep \/ Tick({})) /\ UNCHANGED pageVars)
    /\ WF_vars(NoticeStep /\ UNCHANGED pageVars)
    /\ WF_vars(HandlerStep /\ UNCHANGED pageVars)
    /\ WF_vars(FetchStep)
    /\ WF_vars(OnEvent)

PageSpec == PageInit /\ [][PageNext]_vars /\ PageFairness

-----------------------------------------------------------------------------

(***************************************************************************)
(* A resync asked for while one is in flight is served by one more round:  *)
(* a status that found the list stale is never left with an answer that    *)
(* was asked for before it, unless the request in flight fails.            *)
(***************************************************************************)
RepeatIsComing == owed => resync # Idle /\ again

(***************************************************************************)
(* The island list of the page recovers from lost events, lost streams,    *)
(* failed fetches and answers out of order: while the server knows an      *)
(* island, and so ticks go on, it ends up showing the server's islands.    *)
(***************************************************************************)
IslandsConverge == <>[](hub = "closed" \/ Present = {} \/ shown = island)

(***************************************************************************)
(* The warnings of the page, "kept fresh by SSE alert events", end up      *)
(* being the open ones.                                                    *)
(***************************************************************************)
AlertsConverge == <>[](hub = "closed" \/ Present = {} \/ warned = alert)

=============================================================================

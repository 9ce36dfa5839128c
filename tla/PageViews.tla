------------------------------ MODULE PageViews ------------------------------
(***************************************************************************)
(* web/js: the views of the page. route() of app.js builds a view that     *)
(* fetches before it is mounted, while other navigations overtake it; a    *)
(* mounted view (islands.js, efficiency.js, history.js) loads its figures  *)
(* again for every snapshot; the rows opened in the goods table            *)
(* (sources.js) load the possible sources of the newest complete tick.     *)
(*                                                                         *)
(* One island is looked at, on its goods table ("goods") or on a history   *)
(* of a good ("history"); "home" is a page that is mounted without a       *)
(* fetch. Its efficiency is a "goods" without rows; the phone page and     *)
(* all alerts (phone.js, alerts.js), which await a fetch too, go through   *)
(* route() as "goods" does, and the open alerts have the same rows.        *)
(* Figures are revisions. Navigations are numbered by routeSeq and their   *)
(* views with them. Of a view's requests only the newest counts, so a      *)
(* request is that or overtaken, and equal overtaken ones are one.         *)
(* JavaScript runs to its next await.                                      *)
(*                                                                         *)
(* No snapshot event is lost here, and no new session takes the complete   *)
(* tick away: EventStream and PageStore have lost events, TickState has    *)
(* the resets.                                                             *)
(***************************************************************************)
EXTENDS Naturals, Sequences, FiniteSets

Route == {"home", "goods", "history"}

(***************************************************************************)
(* A visit to the page: the routes it takes, and the bounds                *)
(*   navigations,                                                          *)
(*   changes   reports with other figures or a complete tick,              *)
(*   failures  requests that fail,                                         *)
(*   opened    times a row is opened.                                      *)
(***************************************************************************)
CONSTANT Visits

ASSUME ViewsAssumption ==
    \A v \in Visits :
        /\ v.routes \subseteq Route /\ v.navigations \in Nat \ {0}
        /\ {v.changes, v.failures, v.opened} \subseteq Nat

VARIABLES
    visit,    \* the visit of this behaviour
    figures,  \* the server: the island's newest snapshot
    tick,     \* the server: the newest complete tick
    events,   \* snapshot events for the page
    routeSeq,
    view,     \* each navigation: [route, at, shown]
    flight,   \* requests of load(): [view, newest, first, got]
    screen,   \* what els.view shows: [of, error]
    row,      \* each navigation: the row's entry in its view, [id, loading, again, dto, error]
    asked,    \* requests of rows: [view, id, got]
    failures, changes, opened   \* for the bounds

server    == <<figures, tick, changes>>
rows      == <<row, asked, opened>>
viewsVars == <<visit, server, events, routeSeq, view, flight, screen, rows, failures>>

MaxAtOnce == 2   \* bound: requests of a history in flight when a range is chosen

Navigation == 1..visit.navigations

NoEntry == [id |-> 0, loading |-> FALSE, again |-> FALSE, dto |-> 0, error |-> FALSE]

Request(n, first) == [view |-> n, newest |-> TRUE, first |-> first, got |-> 0]

\* The requests of n once it has sent a newer one.
Overtaken(n) == {IF f.view = n THEN [f EXCEPT !.newest = FALSE] ELSE f : f \in flight}

(***************************************************************************)
(* The page has been opened on some route.                                 *)
(***************************************************************************)
ViewsInit ==
    /\ visit \in Visits
    /\ figures = 1 /\ tick = 1 /\ changes = 0 /\ events = <<>>
    /\ routeSeq = 0 /\ flight = {} /\ failures = 0
    /\ screen = [of |-> 0, error |-> FALSE]
    /\ view = [n \in Navigation |-> [route |-> "home", at |-> "none", shown |-> 0]]
    /\ row = [n \in Navigation |-> NoEntry] /\ asked = {} /\ opened = 0

-----------------------------------------------------------------------------
(* The server *)

(***************************************************************************)
(* An island reports: the one looked at or another one, whose report may   *)
(* complete the tick; the snapshot event follows.                          *)
(***************************************************************************)
Report(own, completes) ==
    /\ changes < visit.changes
    /\ changes' = changes + 1
    /\ figures' = IF own THEN figures + 1 ELSE figures
    /\ tick' = IF completes THEN tick + 1 ELSE tick
    /\ events' = Append(events, own)
    /\ UNCHANGED <<visit, routeSeq, view, flight, screen, rows, failures>>

(***************************************************************************)
(* The island is reported again two minutes later, with the same figures.  *)
(***************************************************************************)
ReportAgain ==
    /\ events = <<>> /\ flight = {} /\ asked = {}
    /\ events' = <<TRUE>>
    /\ UNCHANGED <<visit, server, routeSeq, view, flight, screen, rows, failures>>

ServeView(f) ==
    /\ f.got = 0
    /\ flight' = (flight \ {f}) \cup {[f EXCEPT !.got = figures]}
    /\ UNCHANGED <<visit, server, events, routeSeq, view, screen, rows, failures>>

ServeRow(a) ==
    /\ a.got = 0
    /\ asked' = (asked \ {a}) \cup {[a EXCEPT !.got = tick]}
    /\ UNCHANGED <<visit, server, events, routeSeq, view, flight, screen, row, opened, failures>>

-----------------------------------------------------------------------------
(* route *)

(***************************************************************************)
(* The mounted view is unmounted and disposes its rows; one that is being  *)
(* built is only overtaken.                                                *)
(***************************************************************************)
Navigate(route) ==
    LET n == routeSeq + 1
    IN /\ n \in Navigation /\ route \in visit.routes
       /\ routeSeq' = n
       /\ view' = [v \in Navigation |->
             IF v = n
             THEN [route |-> route, at |-> IF route = "home" THEN "mounted" ELSE "building",
                   shown |-> 0]
             ELSE IF view[v].at = "mounted" THEN [view[v] EXCEPT !.at = "gone"]
             ELSE view[v]]
       /\ row' = [v \in Navigation |-> IF view[v].at = "mounted" THEN NoEntry ELSE row[v]]
       /\ flight' = IF route = "home" THEN flight ELSE flight \cup {Request(n, TRUE)}
       /\ screen' = [of |-> n, error |-> FALSE]
       /\ UNCHANGED <<visit, server, events, asked, opened, failures>>

\* The view built last takes currentUnmount.
MutBuilt(n) == "mounted"

(***************************************************************************)
(* The first answer is there: the view is mounted, or unmounts itself      *)
(* because a navigation has overtaken it.                                  *)
(***************************************************************************)
Built(n) == IF n = routeSeq THEN "mounted" ELSE "gone"

\* An answer is painted whether or not a newer request was sent.
MutPaints(f) == view[f.view].at # "gone"

(***************************************************************************)
(* disposed || current !== request                                         *)
(***************************************************************************)
Paints(f) == view[f.view].at # "gone" /\ f.newest

AnswerView(f) ==
    LET n == f.view
    IN /\ f.got # 0
       /\ flight' = flight \ {f}
       /\ view' = [view EXCEPT ![n].shown = IF Paints(f) THEN f.got ELSE @,
                               ![n].at = IF f.first THEN Built(n) ELSE @]
       /\ UNCHANGED <<visit, server, events, routeSeq, screen, rows, failures>>

\* The error of any view takes the page.
MutErrorShown(n) == TRUE

(***************************************************************************)
(* route's catch: the error of an overtaken view is not the page's.        *)
(***************************************************************************)
ErrorShown(n) == n = routeSeq

(***************************************************************************)
(* A request fails. The first one of a goods table is the failure of its   *)
(* route; the history says so in the view, and is mounted all the same.    *)
(***************************************************************************)
FailView(f) ==
    LET n == f.view
    IN /\ failures < visit.failures
       /\ failures' = failures + 1
       /\ flight' = flight \ {f}
       /\ view' = [view EXCEPT ![n].at =
                      IF ~f.first THEN @
                      ELSE IF view[n].route = "history" THEN Built(n)
                      ELSE "failed"]
       /\ screen' = IF f.first /\ view[n].route = "goods" /\ ErrorShown(n)
                    THEN [of |-> n, error |-> TRUE] ELSE screen
       /\ UNCHANGED <<visit, server, events, routeSeq, rows>>

(***************************************************************************)
(* A range button of the history, which works while the view is built.     *)
(***************************************************************************)
SwitchRange(n) ==
    /\ view[n].route = "history" /\ n = routeSeq /\ view[n].at \in {"building", "mounted"}
    /\ Cardinality({f \in flight : f.view = n}) < MaxAtOnce
    /\ flight' = Overtaken(n) \cup {Request(n, FALSE)}
    /\ UNCHANGED <<visit, server, events, routeSeq, view, screen, rows, failures>>

-----------------------------------------------------------------------------
(* Rows *)

\* A row whose request is on its way is not asked for again.
MutAsksAgain == FALSE

AsksAgain == TRUE

(***************************************************************************)
(* load(key): one request per entry, a second one is sent after it.        *)
(***************************************************************************)
LoadRow(entry) ==
    IF entry.loading THEN [entry EXCEPT !.again = AsksAgain] ELSE [entry EXCEPT !.loading = TRUE]

Sent(n, entry) == IF entry.loading THEN {} ELSE {[view |-> n, id |-> entry.id, got |-> 0]}

Mounted(n) == view[n].at = "mounted" /\ view[n].route = "goods"

OpenRow(n) ==
    /\ Mounted(n) /\ row[n].id = 0 /\ opened < visit.opened
    /\ opened' = opened + 1
    /\ row' = [row EXCEPT ![n] = [NoEntry EXCEPT !.id = opened + 1, !.loading = TRUE]]
    /\ asked' = asked \cup {[view |-> n, id |-> opened + 1, got |-> 0]}
    /\ UNCHANGED <<visit, server, events, routeSeq, view, flight, screen, failures>>

CloseRow(n) ==
    /\ Mounted(n) /\ row[n].id # 0
    /\ row' = [row EXCEPT ![n] = NoEntry]
    /\ UNCHANGED <<visit, server, events, routeSeq, view, flight, screen, asked, opened, failures>>

\* The answer goes to whatever entry the row has now.
MutBelongs(a) == row[a.view].id # 0

(***************************************************************************)
(* The entry that asked is still the row's.                                *)
(***************************************************************************)
Belongs(a) == row[a.view].id = a.id

(***************************************************************************)
(* The answer of a row, or its failure: then the repeat asked for.         *)
(***************************************************************************)
RowGot(a, error) ==
    LET n == a.view
        entry == [row[n] EXCEPT !.dto = IF error THEN @ ELSE a.got, !.error = error,
                                !.loading = row[n].again, !.again = FALSE]
        repeat == Belongs(a) /\ row[n].again
    IN /\ row' = IF Belongs(a) THEN [row EXCEPT ![n] = entry] ELSE row
       /\ asked' = (asked \ {a}) \cup
                   (IF repeat THEN {[view |-> n, id |-> row[n].id, got |-> 0]} ELSE {})
       /\ UNCHANGED <<visit, server, events, routeSeq, view, flight, screen, opened>>

AnswerRow(a) == a.got # 0 /\ RowGot(a, FALSE) /\ UNCHANGED failures

FailRow(a) ==
    /\ failures < visit.failures
    /\ failures' = failures + 1
    /\ RowGot(a, TRUE)

-----------------------------------------------------------------------------
(* Snapshot events *)

\* The event's island is not found to be the view's: "1-2" against 2.
MutConcerns(own) == FALSE

(***************************************************************************)
(* e.detail.id === islandId                                                *)
(***************************************************************************)
Concerns(own) == own

(***************************************************************************)
(* A mounted view loads its figures for its own island's snapshot - the    *)
(* history not within five seconds of the last time - and a goods table    *)
(* its open row for anybody's.                                             *)
(***************************************************************************)
OnSnapshot(skip) ==
    LET n == routeSeq
        own == Head(events)
        listens == n # 0 /\ view[n].at = "mounted"
        loads == /\ listens /\ Concerns(own) /\ view[n].route # "home"
                 /\ ~(view[n].route = "history" /\ skip)
        refreshes == listens /\ row[n].id # 0
    IN /\ events # <<>>
       /\ events' = Tail(events)
       /\ flight' = IF loads THEN Overtaken(n) \cup {Request(n, FALSE)} ELSE flight
       /\ row' = IF refreshes THEN [row EXCEPT ![n] = LoadRow(row[n])] ELSE row
       /\ asked' = IF refreshes THEN asked \cup Sent(n, row[n]) ELSE asked
       /\ UNCHANGED <<visit, server, routeSeq, view, screen, opened, failures>>

-----------------------------------------------------------------------------

ViewsWorking ==
    \/ \E f \in flight : ServeView(f) \/ AnswerView(f)
    \/ \E a \in asked : ServeRow(a) \/ AnswerRow(a)
    \/ \E skip \in BOOLEAN : OnSnapshot(skip)

ViewsNext ==
    \/ ViewsWorking \/ ReportAgain
    \/ \E own, completes \in BOOLEAN : Report(own, completes)
    \/ \E route \in Route : Navigate(route)
    \/ \E f \in flight : FailView(f)
    \/ \E a \in asked : FailRow(a)
    \/ \E n \in Navigation : SwitchRange(n) \/ OpenRow(n) \/ CloseRow(n)

(***************************************************************************)
(* Requests are answered and events delivered - the user's clicks on       *)
(* ranges do not starve them - and the game goes on reporting.             *)
(***************************************************************************)
ViewsFairness ==
    /\ WF_viewsVars(ViewsWorking)
    /\ WF_viewsVars(ReportAgain)

ViewsSpec == ViewsInit /\ [][ViewsNext]_viewsVars /\ ViewsFairness

-----------------------------------------------------------------------------

(***************************************************************************)
(* However navigations overtake each other, the only view that listens to  *)
(* the page's events is the newest navigation's, the page shows that one   *)
(* or its error, and a view that is gone has no row left open.             *)
(***************************************************************************)
OneView ==
    /\ \A n \in Navigation : view[n].at = "mounted" => n = routeSeq
    /\ screen.of = routeSeq /\ (screen.error => view[routeSeq].at = "failed")
    /\ \A n \in Navigation : row[n].id # 0 => view[n].at = "mounted"

(***************************************************************************)
(* An overtaken request never paints over a newer one, and the answer of a *)
(* row that was closed never over the one that was opened again: no view   *)
(* and no row goes back to older figures.                                  *)
(***************************************************************************)
NeverBackwards ==
    [][\A n \in Navigation :
          /\ view'[n].shown >= view[n].shown
          /\ row'[n].id = row[n].id => row'[n].dto >= row[n].dto]_viewsVars

(***************************************************************************)
(* One request per row is enough: an open row that has not shown an error  *)
(* shows the newest complete tick, or an event or a request that brings it *)
(* is on its way.                                                          *)
(***************************************************************************)
RowsCatchUp ==
    \A n \in Navigation :
        row[n].id # 0 /\ ~row[n].error /\ row[n].dto # tick =>
            \/ events # <<>> \/ row[n].again
            \/ \E a \in asked : a.view = n /\ a.id = row[n].id /\ a.got \in {0, tick}

(***************************************************************************)
(* The goods table that is open ends up with the island's newest figures,  *)
(* though it hears nothing while it is built, loses answers and requests,  *)
(* and its listeners come and go.                                          *)
(***************************************************************************)
GoodsConverge ==
    <>[](routeSeq # 0 /\ Mounted(routeSeq) => view[routeSeq].shown = figures)

=============================================================================

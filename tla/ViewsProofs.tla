----------------------------- MODULE ViewsProofs ------------------------------
(***************************************************************************)
(* Proofs about the views of the page, for any visit: any number of        *)
(* navigations, requests and rows, and answers in any order.               *)
(*                                                                         *)
(* What the properties need beside themselves: a view that is being built  *)
(* has one first request and any view at most one newest, whose answer is  *)
(* not older than what the view shows; an open row is loading exactly when *)
(* one request of its entry is on its way, and repeats an answer that is   *)
(* older than the newest tick.                                             *)
(***************************************************************************)
EXTENDS PageViews, TLAPS

View  == [route : Route, shown : Nat, at : {"none", "building", "mounted", "gone", "failed"}]
Req   == [view : Navigation, newest : BOOLEAN, first : BOOLEAN, got : Nat]
Entry == [id : Nat, loading : BOOLEAN, again : BOOLEAN, dto : Nat, error : BOOLEAN]
Ask   == [view : Navigation, id : Nat \ {0}, got : Nat]

\* A first request is its view's only one, and the view is being built; so
\* is a newest one, and its answer is not older than what the view shows.
GoodFlight(requests) ==
    /\ requests \subseteq Req
    /\ \A f \in requests : f.view <= routeSeq /\ f.got <= figures
    /\ \A f \in requests : f.first => view[f.view].at = "building"
    /\ \A f, g \in requests : f.first /\ g.first /\ f.view = g.view => f = g
    /\ \A f, g \in requests : f.newest /\ g.newest /\ f.view = g.view => f = g
    /\ \A f \in requests : f.newest /\ f.got # 0 => f.got >= view[f.view].shown

\* Nothing is known of a navigation before it happens.
ViewInv ==
    /\ visit \in Visits /\ figures \in Nat
    /\ routeSeq \in Nat /\ routeSeq <= visit.navigations
    /\ view \in [Navigation -> View]
    /\ \A n \in Navigation : view[n].shown <= figures
    /\ \A n \in Navigation : n > routeSeq => view[n].at = "none" /\ view[n].shown = 0
    /\ screen \in [of : Nat, error : BOOLEAN] /\ (screen.error => routeSeq \in Navigation)
    /\ GoodFlight(flight)

\* A request of the entry that the row of its view has now.
Of(a, n) == a.view = n /\ a.id = row[n].id

\* An open row loads exactly when one request of its entry is on its way.
GoodRow(n) ==
    /\ row[n].id = 0 => row[n] = NoEntry
    /\ row[n].id <= opened /\ row[n].dto <= tick
    /\ row[n].again => row[n].loading
    /\ row[n].loading <=> \E a \in asked : Of(a, n)
    /\ \A a \in asked : Of(a, n) /\ a.got # 0 => a.got >= row[n].dto

GoodAsked(requests) ==
    /\ requests \subseteq Ask
    /\ \A a \in requests : a.id <= opened /\ a.got <= tick
    /\ \A a, b \in requests : a.view = b.view /\ a.id = b.id => a = b

RowInv ==
    /\ tick \in Nat /\ opened \in Nat /\ events \in Seq(BOOLEAN)
    /\ row \in [Navigation -> Entry]
    /\ GoodAsked(asked)
    /\ \A n \in Navigation : GoodRow(n)

\* An answer that a newer tick has made old is repeated, or will be.
AnswersCatchUp ==
    \A n \in Navigation : \A a \in asked :
        Of(a, n) /\ a.got \notin {0, tick} => events # <<>> \/ row[n].again

ViewsInv == ViewInv /\ RowInv /\ OneView /\ RowsCatchUp /\ AnswersCatchUp

-----------------------------------------------------------------------------

LEMMA InitHolds == ViewsInit => ViewsInv
<1> SUFFICES ASSUME ViewsInit PROVE ViewsInv
  OBVIOUS
<1>1. ViewInv
  BY ViewsAssumption DEF ViewsInit, ViewInv, GoodFlight, View, Navigation, Route
<1>2. RowInv
  BY DEF ViewsInit, RowInv, GoodAsked, GoodRow, Of, Entry, NoEntry, Navigation
<1>3. OneView /\ RowsCatchUp /\ AnswersCatchUp
  BY DEF ViewsInit, OneView, RowsCatchUp, AnswersCatchUp, NoEntry
<1> QED BY <1>1, <1>2, <1>3 DEF ViewsInv

-----------------------------------------------------------------------------
(* The views *)

(***************************************************************************)
(* A view asks again: the requests it has are overtaken by the new one.    *)
(***************************************************************************)
LEMMA AsksAnew ==
    ASSUME ViewInv, NEW n \in Navigation, n <= routeSeq
    PROVE  GoodFlight(Overtaken(n) \cup {Request(n, FALSE)})
<1> DEFINE after == Overtaken(n) \cup {Request(n, FALSE)}
           old(f) == [view |-> f.view, newest |-> IF f.view = n THEN FALSE ELSE f.newest,
                      first |-> f.first, got |-> f.got]
           new == Request(n, FALSE)
<1>1. new \in Req /\ new.view = n /\ ~new.first /\ new.got = 0
  BY DEF Request, Req
<1>2. ASSUME NEW g \in after, g # new
      PROVE  \E f \in flight : f \in Req /\ g = old(f)
  <2>1. PICK f \in flight : g = IF f.view = n THEN [f EXCEPT !.newest = FALSE] ELSE f
    BY <1>2 DEF Overtaken
  <2>2. f \in Req
    BY DEF ViewInv, GoodFlight
  <2>3. (IF f.view = n THEN [f EXCEPT !.newest = FALSE] ELSE f) = old(f)
    BY <2>2 DEF Req
  <2> HIDE DEF old
  <2> QED BY <2>1, <2>2, <2>3
<1> HIDE DEF after, new
<1>3. ASSUME NEW g \in after, g # new
      PROVE  \E f \in flight : g = old(f) /\ g \in Req /\ (g.newest => f.newest /\ f.view # n)
  <2>1. PICK f \in flight : f \in Req /\ g = old(f)
    BY <1>2, <1>3
  <2>2. old(f) \in Req /\ (old(f).newest => f.newest /\ f.view # n)
    BY <2>1 DEF Req
  <2> HIDE DEF old
  <2> QED BY <2>1, <2>2
<1>4. after \subseteq Req /\ \A g \in after : g.view <= routeSeq /\ g.got <= figures
  <2> SUFFICES ASSUME NEW g \in after
               PROVE  g \in Req /\ g.view <= routeSeq /\ g.got <= figures
    OBVIOUS
  <2>1. CASE g = new
    BY <1>1, <2>1 DEF ViewInv, Req
  <2>2. CASE g # new
    <3>1. PICK f \in flight : g = old(f) /\ g \in Req
      BY <1>3, <2>2
    <3>2. g.view = f.view /\ g.got = f.got
      BY <3>1
    <3> HIDE DEF old
    <3> QED BY <3>1, <3>2 DEF ViewInv, GoodFlight
  <2> QED BY <2>1, <2>2
<1>5. ASSUME NEW g \in after, g.first
      PROVE  view[g.view].at = "building"
  <2>1. PICK f \in flight : g = old(f)
    BY <1>1, <1>3, <1>5
  <2>2. g.view = f.view /\ f.first
    BY <1>5, <2>1
  <2> QED BY <2>2 DEF ViewInv, GoodFlight
<1>6. ASSUME NEW g \in after, NEW h \in after, g.first, h.first, g.view = h.view
      PROVE  g = h
  <2>1. PICK e \in flight : g = old(e)
    BY <1>1, <1>3, <1>6
  <2>2. PICK f \in flight : h = old(f)
    BY <1>1, <1>3, <1>6
  <2> QED BY <1>6, <2>1, <2>2 DEF ViewInv, GoodFlight
<1>7. ASSUME NEW g \in after, NEW h \in after, g.newest, h.newest, g.view = h.view
      PROVE  g = h
  <2>1. ASSUME NEW e \in after, e # new, e.newest
        PROVE  e.view # n
    <3>1. PICK f \in flight : e = old(f) /\ f.view # n
      BY <1>3, <2>1
    <3> QED BY <3>1
  <2>3. CASE g = new \/ h = new
    BY <1>1, <1>7, <2>1, <2>3
  <2>2. CASE g # new /\ h # new
    <3>1. PICK e \in flight : g = old(e) /\ e.newest
      BY <1>3, <1>7, <2>2
    <3>2. PICK f \in flight : h = old(f) /\ f.newest
      BY <1>3, <1>7, <2>2
    <3> QED BY <1>7, <3>1, <3>2 DEF ViewInv, GoodFlight
  <2> QED BY <2>2, <2>3
<1>8. ASSUME NEW g \in after, g.newest, g.got # 0
      PROVE  g.got >= view[g.view].shown
  <2>1. PICK f \in flight : g = old(f) /\ f.newest
    BY <1>1, <1>3, <1>8
  <2>2. g.view = f.view /\ f.got = g.got
    BY <2>1
  <2> QED BY <1>8, <2>1, <2>2 DEF ViewInv, GoodFlight
<1>9. GoodFlight(after)
  BY <1>4, <1>5, <1>6, <1>7, <1>8 DEF GoodFlight
<1> QED BY <1>9 DEF after, new

\* What a step that leaves the views alone keeps.
LEMMA SameViews ==
    ASSUME ViewInv, UNCHANGED <<visit, figures, routeSeq, view, flight, screen>>
    PROVE  ViewInv'
BY DEF ViewInv, GoodFlight, View, Req, Navigation

LEMMA ReportKeepsViews ==
    ASSUME ViewInv, NEW own \in BOOLEAN, NEW completes \in BOOLEAN, Report(own, completes)
    PROVE  ViewInv'
<1>1. /\ UNCHANGED <<visit, routeSeq, view, flight, screen>>
      /\ figures \in Nat /\ figures' \in Nat /\ figures <= figures'
  BY DEF Report, ViewInv
<1>2. Navigation' = Navigation /\ Req' = Req
  BY <1>1 DEF Navigation, Req
<1>3. GoodFlight(flight)'
  <2>1. \A f \in flight : f.got \in Nat /\ f.got <= figures
    BY DEF ViewInv, GoodFlight, Req
  <2> QED BY <1>1, <1>2, <2>1 DEF ViewInv, GoodFlight
<1>4. \A n \in Navigation : view[n].shown \in Nat /\ view[n].shown <= figures
  BY DEF ViewInv, View
<1> QED BY <1>1, <1>2, <1>3, <1>4 DEF ViewInv

(***************************************************************************)
(* The server answers a view with its figures of now.                      *)
(***************************************************************************)
LEMMA ServeKeepsViews ==
    ASSUME ViewInv, NEW f \in flight, ServeView(f)
    PROVE  ViewInv'
<1> DEFINE g == [f EXCEPT !.got = figures]
<1>1. /\ flight' = (flight \ {f}) \cup {g}
      /\ UNCHANGED <<visit, figures, routeSeq, view, screen>>
  BY DEF ServeView, server
<1>2. /\ g \in Req /\ g.view = f.view /\ g.first = f.first /\ g.newest = f.newest
      /\ g.got = figures /\ figures \in Nat
  BY DEF ViewInv, GoodFlight, Req
<1>3. \A n \in Navigation : view[n].shown \in Nat /\ view[n].shown <= figures
  BY DEF ViewInv, View
<1>4. g.view \in Navigation
  BY <1>2 DEF Req
<1> HIDE DEF g
<1>5. GoodFlight((flight \ {f}) \cup {g})
  BY <1>2, <1>3, <1>4 DEF ViewInv, GoodFlight
<1>6. GoodFlight(flight)'
  BY <1>1, <1>5 DEF GoodFlight, Req, Navigation
<1> QED BY <1>1, <1>6 DEF ViewInv, View, Navigation

LEMMA NavigateKeepsViews ==
    ASSUME ViewInv, NEW route \in Route, Navigate(route)
    PROVE  ViewInv'
<1> DEFINE n == routeSeq + 1
<1>1. /\ n \in Navigation /\ routeSeq' = n /\ UNCHANGED <<visit, figures>>
      /\ screen' = [of |-> n, error |-> FALSE] /\ Navigation' = Navigation
      /\ routeSeq \in Nat /\ n \in Nat
  BY DEF Navigate, server, Navigation, ViewInv
<1>2. ASSUME NEW v \in Navigation
      PROVE  /\ view'[v] \in View
             /\ v # n => /\ view'[v].shown = view[v].shown
                         /\ view[v].at \in {"none", "building"} => view'[v].at = view[v].at
             /\ v = n => view'[v].shown = 0
  BY <1>1 DEF Navigate, ViewInv, View
<1>3. view' \in [Navigation -> View]
  <2>1. DOMAIN view' = Navigation /\ view' = [v \in Navigation |-> view'[v]]
    BY DEF Navigate
  <2> QED BY <1>2, <2>1
<1>4. /\ \A v \in Navigation : view'[v].shown <= figures
      /\ \A v \in Navigation : v > n => view'[v].at = "none" /\ view'[v].shown = 0
  <2>1. \A v \in Navigation : v \in Nat
    BY DEF Navigation
  <2> QED BY <1>1, <1>2, <2>1 DEF ViewInv, View
<1>5. \A f \in flight : f \in Req /\ f.view # n /\ f.view \in Navigation /\ f.view <= routeSeq
  BY <1>1 DEF ViewInv, GoodFlight, Req, Navigation
<1>6. GoodFlight(flight)'
      <=> /\ flight' \subseteq Req
          /\ \A f \in flight' : f.view <= n /\ f.got <= figures
          /\ \A f \in flight' : f.first => view'[f.view].at = "building"
          /\ \A f, g \in flight' : f.first /\ g.first /\ f.view = g.view => f = g
          /\ \A f, g \in flight' : f.newest /\ g.newest /\ f.view = g.view => f = g
          /\ \A f \in flight' : f.newest /\ f.got # 0 => f.got >= view'[f.view].shown
  BY <1>1 DEF GoodFlight, Req
<1>7. /\ \A f \in flight : f.view <= n
      /\ \A f \in flight : f.first => view'[f.view].at = "building"
      /\ \A f \in flight : f.newest /\ f.got # 0 => f.got >= view'[f.view].shown
  <2>1. \A f \in flight : f.view \in Nat
    BY <1>5 DEF Navigation
  <2> QED BY <1>1, <1>2, <1>5, <2>1 DEF ViewInv, GoodFlight
<1>8. CASE route = "home"
  <2>1. flight' = flight
    BY <1>8 DEF Navigate
  <2>2. GoodFlight(flight)'
    BY <1>6, <1>7, <2>1 DEF ViewInv, GoodFlight
  <2> QED BY <1>1, <1>3, <1>4, <2>2 DEF ViewInv, Navigation, View
<1>9. CASE route # "home"
  <2> DEFINE r == Request(n, TRUE)
  <2>1. flight' = flight \cup {r} /\ view'[n].at = "building"
    BY <1>1, <1>9 DEF Navigate
  <2>2. r \in Req /\ r.view = n /\ r.got = 0
    BY <1>1 DEF Request, Req
  <2> HIDE DEF r, n
  <2>3. r.got <= figures /\ r.view <= n
    BY <1>1, <2>2 DEF ViewInv
  <2>4. GoodFlight(flight)'
    BY <1>5, <1>6, <1>7, <2>1, <2>2, <2>3 DEF ViewInv, GoodFlight
  <2> QED BY <1>1, <1>3, <1>4, <2>4 DEF ViewInv, Navigation, View
<1> QED BY <1>8, <1>9

(***************************************************************************)
(* A request ends, with an answer or an error: its view may show more, and *)
(* a view leaves "building" only with its first request.                   *)
(***************************************************************************)
LEMMA EndsKeepsViews ==
    ASSUME ViewInv, NEW f \in flight, AnswerView(f) \/ FailView(f)
    PROVE  ViewInv'
<1> DEFINE n == f.view
<1>1. /\ UNCHANGED <<visit, figures, routeSeq>> /\ flight' = flight \ {f}
      /\ Navigation' = Navigation /\ n \in Navigation /\ f \in Req
  BY DEF AnswerView, FailView, server, Navigation, ViewInv, GoodFlight, Req
<1>2. view' \in [Navigation -> View]
  <2>1. CASE AnswerView(f)
    <3> DEFINE x == IF Paints(f) THEN f.got ELSE view[n].shown
               y == IF f.first THEN Built(n) ELSE view[n].at
    <3>1. view' = [view EXCEPT ![n].shown = x, ![n].at = y]
      BY <2>1 DEF AnswerView
    <3>2. x \in Nat
      BY <1>1 DEF ViewInv, View, Req
    <3>3. y \in {"none", "building", "mounted", "gone", "failed"}
      BY <1>1 DEF Built, ViewInv, View
    <3> HIDE DEF x, y, n
    <3> QED BY <1>1, <3>1, <3>2, <3>3 DEF ViewInv, View
  <2>2. CASE FailView(f)
    <3> DEFINE y == IF ~f.first THEN view[n].at
                    ELSE IF view[n].route = "history" THEN Built(n) ELSE "failed"
    <3>1. view' = [view EXCEPT ![n].at = y]
      BY <2>2 DEF FailView
    <3>2. y \in {"none", "building", "mounted", "gone", "failed"}
      BY <1>1 DEF Built, ViewInv, View
    <3> HIDE DEF y, n
    <3> QED BY <1>1, <3>1, <3>2 DEF ViewInv, View
  <2> QED BY <2>1, <2>2
<1>3. /\ \A v \in Navigation : v # n => view'[v] = view[v]
      /\ view'[n].shown = view[n].shown \/ (f.newest /\ f.got # 0 /\ view'[n].shown = f.got)
      /\ ~f.first => view'[n].at = view[n].at
  <2>1. CASE AnswerView(f)
    BY <1>1, <2>1 DEF AnswerView, Paints, ViewInv, View
  <2>2. CASE FailView(f)
    BY <1>1, <2>2 DEF FailView, ViewInv, View
  <2> QED BY <2>1, <2>2
<1>4. \A v \in Navigation : view'[v].shown <= figures
  BY <1>1, <1>3 DEF ViewInv, GoodFlight
<1>5. \A v \in Navigation : v > routeSeq => view'[v].at = "none" /\ view'[v].shown = 0
  <2>1. n <= routeSeq /\ n \in Nat /\ routeSeq \in Nat
    BY <1>1 DEF ViewInv, GoodFlight, Navigation
  <2>2. \A v \in Navigation : v \in Nat
    BY DEF Navigation
  <2> QED BY <1>3, <2>1, <2>2 DEF ViewInv
<1>6. screen' \in [of : Nat, error : BOOLEAN] /\ (screen'.error => routeSeq \in Navigation)
  <2>1. n \in Nat
    BY <1>1 DEF Navigation
  <2>2. CASE screen' = screen
    BY <2>2 DEF ViewInv
  <2>3. CASE screen' # screen
    <3>1. n = routeSeq /\ screen' = [of |-> n, error |-> TRUE]
      BY <2>3 DEF AnswerView, FailView, ErrorShown
    <3> HIDE DEF n
    <3> QED BY <1>1, <2>1, <3>1
  <2> QED BY <2>2, <2>3
<1>7. GoodFlight(flight)'
  <2>1. flight' \subseteq flight /\ f \notin flight' /\ Req' = Req
    BY <1>1 DEF Req
  <2>2. \A g \in flight' : g.view \in Navigation
    BY <2>1 DEF ViewInv, GoodFlight, Req
  <2>3. \A g \in flight' : g.first => view'[g.view].at = "building"
    BY <1>3, <2>1, <2>2 DEF ViewInv, GoodFlight
  <2>4. \A g \in flight' : g.newest /\ g.got # 0 => g.got >= view'[g.view].shown
    BY <1>3, <2>1, <2>2 DEF ViewInv, GoodFlight
  <2> QED BY <1>1, <2>1, <2>3, <2>4 DEF ViewInv, GoodFlight
<1> QED BY <1>1, <1>2, <1>4, <1>5, <1>6, <1>7 DEF ViewInv, View

LEMMA AsksKeepsViews ==
    ASSUME ViewInv, NEW n \in Navigation, n <= routeSeq,
           UNCHANGED <<visit, figures, routeSeq, view, screen>>,
           flight' = Overtaken(n) \cup {Request(n, FALSE)}
    PROVE  ViewInv'
<1>1. GoodFlight(Overtaken(n) \cup {Request(n, FALSE)})
  BY AsksAnew
<1> DEFINE after == Overtaken(n) \cup {Request(n, FALSE)}
<1> HIDE DEF after
<1>2. flight' = after /\ GoodFlight(after)
  BY <1>1 DEF after
<1>3. GoodFlight(flight)'
  BY <1>2 DEF GoodFlight, Req, Navigation
<1> QED BY <1>3 DEF ViewInv, View, Navigation

LEMMA ViewStep ==
    ASSUME ViewInv, [ViewsNext]_viewsVars
    PROVE  ViewInv'
<1>1. ASSUME NEW own \in BOOLEAN, NEW completes \in BOOLEAN, Report(own, completes)
      PROVE  ViewInv'
  BY <1>1, ReportKeepsViews
<1>2. ASSUME NEW f \in flight, ServeView(f) PROVE ViewInv'
  BY <1>2, ServeKeepsViews
<1>3. ASSUME NEW route \in Route, Navigate(route) PROVE ViewInv'
  BY <1>3, NavigateKeepsViews
<1>4. ASSUME NEW f \in flight, AnswerView(f) \/ FailView(f) PROVE ViewInv'
  BY <1>4, EndsKeepsViews
<1>5. ASSUME NEW n \in Navigation, SwitchRange(n) PROVE ViewInv'
  <2>1. /\ UNCHANGED <<visit, figures, routeSeq, view, screen>> /\ n = routeSeq
        /\ flight' = Overtaken(n) \cup {Request(n, FALSE)}
    BY <1>5 DEF SwitchRange, server
  <2>2. n <= routeSeq
    BY <2>1 DEF ViewInv
  <2> QED BY <2>1, <2>2, AsksKeepsViews
<1>6. ASSUME NEW skip \in BOOLEAN, OnSnapshot(skip) PROVE ViewInv'
  <2>1. UNCHANGED <<visit, figures, routeSeq, view, screen>>
    BY <1>6 DEF OnSnapshot, server
  <2>2. CASE flight' = flight
    BY <2>1, <2>2, SameViews
  <2>3. CASE flight' # flight
    <3>1. routeSeq # 0 /\ flight' = Overtaken(routeSeq) \cup {Request(routeSeq, FALSE)}
      BY <1>6, <2>3 DEF OnSnapshot
    <3>2. routeSeq \in Navigation /\ routeSeq <= routeSeq
      BY <3>1, ViewsAssumption DEF ViewInv, Navigation
    <3> QED BY <2>1, <3>1, <3>2, AsksKeepsViews
  <2> QED BY <2>2, <2>3
<1>7. CASE \/ ReportAgain \/ UNCHANGED viewsVars
           \/ \E a \in asked : ServeRow(a) \/ AnswerRow(a) \/ FailRow(a)
           \/ \E n \in Navigation : OpenRow(n) \/ CloseRow(n)
  <2>1. UNCHANGED <<visit, figures, routeSeq, view, flight, screen>>
    BY <1>7 DEF ReportAgain, ServeRow, AnswerRow, FailRow, RowGot, OpenRow, CloseRow, viewsVars,
                server
  <2> QED BY <2>1, SameViews
<1> QED BY <1>1, <1>2, <1>3, <1>4, <1>5, <1>6, <1>7 DEF ViewsNext, ViewsWorking

-----------------------------------------------------------------------------
(* The rows *)

\* The navigations are the same in every step, and so are the requests.
LEMMA SameVisit ==
    ASSUME [ViewsNext]_viewsVars
    PROVE  visit' = visit /\ Navigation' = Navigation /\ Ask' = Ask
<1>1. visit' = visit
  BY DEF ViewsNext, ViewsWorking, ReportAgain, Report, ServeView, ServeRow, Navigate, AnswerView,
         FailView, SwitchRange, OpenRow, CloseRow, AnswerRow, FailRow, RowGot, OnSnapshot, viewsVars
<1> QED BY <1>1 DEF Navigation, Ask

(***************************************************************************)
(* What one row and its requests do says nothing of the others: if the     *)
(* step changes the row of n alone and the requests of n's row alone, and  *)
(* that one is good again, all are.                                        *)
(***************************************************************************)
LEMMA OtherRows ==
    ASSUME RowInv, NEW n \in Navigation, Navigation' = Navigation, Ask' = Ask,
           tick' = tick, opened' \in Nat, opened <= opened',
           row' \in [Navigation -> Entry],
           \A m \in Navigation : m # n => row'[m] = row[m],
           \A a : a.view # n => (a \in asked' <=> a \in asked),
           GoodAsked(asked)', GoodRow(n)', events' \in Seq(BOOLEAN)
    PROVE  RowInv'
<1>2. ASSUME NEW m \in Navigation, m # n
      PROVE  GoodRow(m)'
  <2>1. row'[m] = row[m] /\ row[m] \in Entry /\ GoodRow(m)
    BY <1>2 DEF RowInv
  <2>2. \A a : a.view = m => (a \in asked' <=> a \in asked)
    BY <1>2
  <2>3. /\ row[m].id = 0 => row[m] = NoEntry
        /\ row[m].id <= opened /\ row[m].dto <= tick
        /\ row[m].again => row[m].loading
        /\ row[m].loading <=> \E a \in asked : a.view = m /\ a.id = row[m].id
        /\ \A a \in asked : a.view = m /\ a.id = row[m].id /\ a.got # 0 => a.got >= row[m].dto
    BY <2>1 DEF GoodRow, Of
  <2>4. row[m].id <= opened'
    BY <2>1, <2>3 DEF RowInv, Entry
  <2> QED BY <2>1, <2>2, <2>3, <2>4 DEF GoodRow, Of, NoEntry
<1>3. \A m \in Navigation : GoodRow(m)'
  BY <1>2
<1> QED BY <1>3 DEF RowInv, Entry

\* What a step that leaves the rows and their requests alone keeps.
LEMMA SameRows ==
    ASSUME RowInv, [ViewsNext]_viewsVars, UNCHANGED <<row, asked, opened>>,
           tick' \in Nat, tick <= tick', events' \in Seq(BOOLEAN)
    PROVE  RowInv'
<1>1. Navigation' = Navigation /\ Ask' = Ask
  BY SameVisit
<1>2. GoodAsked(asked)'
  BY <1>1 DEF RowInv, GoodAsked, Ask
<1>3. ASSUME NEW n \in Navigation PROVE GoodRow(n)'
  <2>1. GoodRow(n) /\ row[n] \in Entry
    BY DEF RowInv
  <2>2. row[n].dto <= tick'
    BY <2>1 DEF RowInv, GoodRow, Entry
  <2> QED BY <2>1, <2>2 DEF GoodRow, Of, NoEntry
<1> QED BY <1>1, <1>2, <1>3 DEF RowInv, Entry

(***************************************************************************)
(* The server answers a row with the complete tick of now.                 *)
(***************************************************************************)
LEMMA ServeKeepsRows ==
    ASSUME RowInv, [ViewsNext]_viewsVars, NEW a \in asked, ServeRow(a)
    PROVE  RowInv'
<1> DEFINE b == [a EXCEPT !.got = tick]
<1>1. /\ asked' = (asked \ {a}) \cup {b}
      /\ UNCHANGED <<row, tick, opened, events>>
  BY DEF ServeRow, server
<1>2. a \in Ask /\ b \in Ask /\ b.view = a.view /\ b.id = a.id /\ b.got = tick /\ tick \in Nat
  BY DEF RowInv, GoodAsked, Ask
<1> HIDE DEF b
<1>3. GoodAsked(asked)'
  <2>1. asked' \subseteq Ask /\ \A x \in asked' : x.id <= opened /\ x.got <= tick
    BY <1>1, <1>2 DEF RowInv, GoodAsked
  <2>2. \A x, y \in asked' : x.view = y.view /\ x.id = y.id => x = y
    BY <1>1, <1>2 DEF RowInv, GoodAsked
  <2> QED BY <1>1, <2>1, <2>2, SameVisit DEF GoodAsked
<1>4. ASSUME NEW n \in Navigation PROVE GoodRow(n)'
  <2>1. GoodRow(n) /\ row[n] \in Entry
    BY DEF RowInv
  <2>2. (\E x \in asked' : Of(x, n)) <=> \E x \in asked : Of(x, n)
    BY <1>1, <1>2 DEF Of
  <2>3. \A x \in asked' : Of(x, n) /\ x.got # 0 => x.got >= row[n].dto
    BY <1>1, <1>2, <2>1 DEF GoodRow, Entry
  <2> QED BY <1>1, <2>1, <2>2, <2>3 DEF GoodRow, Of, NoEntry
<1> QED BY <1>1, <1>3, <1>4, SameVisit DEF RowInv, Entry

LEMMA OpenKeepsRows ==
    ASSUME RowInv, [ViewsNext]_viewsVars, NEW n \in Navigation, OpenRow(n)
    PROVE  RowInv'
<1> DEFINE entry == [NoEntry EXCEPT !.id = opened + 1, !.loading = TRUE]
           a == [view |-> n, id |-> opened + 1, got |-> 0]
<1>1. /\ row' = [row EXCEPT ![n] = entry] /\ asked' = asked \cup {a}
      /\ opened' = opened + 1 /\ UNCHANGED <<tick, events>>
  BY DEF OpenRow, server
<1>2. /\ opened \in Nat /\ entry \in Entry /\ entry.id = opened + 1 /\ entry.loading /\ ~entry.again
      /\ entry.dto = 0 /\ row[n] \in Entry /\ row'[n] = entry
  <2>1. opened \in Nat /\ row[n] \in Entry /\ n \in DOMAIN row
    BY DEF RowInv
  <2>2. NoEntry \in Entry /\ ~NoEntry.again /\ NoEntry.dto = 0
    BY DEF NoEntry, Entry
  <2>3. /\ entry \in Entry /\ entry.id = opened + 1 /\ entry.loading /\ ~entry.again
        /\ entry.dto = 0
    <3>1. ASSUME NEW e \in Entry, NEW i \in Nat
          PROVE  LET o == [e EXCEPT !.id = i, !.loading = TRUE]
                 IN  /\ o \in Entry /\ o.id = i /\ o.loading
                     /\ o.again = e.again /\ o.dto = e.dto
      BY DEF Entry
    <3>2. opened + 1 \in Nat
      BY <2>1
    <3> QED BY <2>2, <3>1, <3>2
  <2>4. row'[n] = entry
    BY <1>1, <2>1
  <2> HIDE DEF entry
  <2> QED BY <2>1, <2>3, <2>4
<1>3. a \in Ask /\ a.view = n /\ a.id = opened + 1 /\ a.got = 0
  BY <1>2 DEF Ask
<1>4. \A x \in asked : x \in Ask /\ x.id <= opened /\ x.id \in Nat
  BY DEF RowInv, GoodAsked, Ask
<1> HIDE DEF entry, a
<1>5. GoodAsked(asked)'
  <2>1. asked' \subseteq Ask /\ \A x \in asked' : x.id <= opened' /\ x.got <= tick'
    BY <1>1, <1>2, <1>3, <1>4 DEF RowInv, GoodAsked
  <2>2. \A x, y \in asked' : x.view = y.view /\ x.id = y.id => x = y
    BY <1>1, <1>2, <1>3, <1>4 DEF RowInv, GoodAsked
  <2> QED BY <2>1, <2>2, SameVisit DEF GoodAsked
<1>6. GoodRow(n)'
  <2>1. \A x \in asked' : x.view = n /\ x.id = opened + 1 => x = a
    BY <1>1, <1>2, <1>4
  <2>2. a \in asked' /\ opened' = opened + 1 /\ tick' = tick /\ tick \in Nat
    BY <1>1 DEF RowInv
  <2>3. \E x \in asked' : x.view = n /\ x.id = row'[n].id
    BY <1>2, <1>3, <2>2
  <2>4. \A x \in asked' : x.view = n /\ x.id = row'[n].id /\ x.got # 0 => x.got >= row'[n].dto
    BY <1>2, <1>3, <2>1
  <2> QED BY <1>2, <2>2, <2>3, <2>4 DEF GoodRow, Of
<1>7. /\ row' \in [Navigation -> Entry] /\ \A m \in Navigation : m # n => row'[m] = row[m]
      /\ \A x : x.view # n => (x \in asked' <=> x \in asked)
      /\ opened' \in Nat /\ opened <= opened' /\ tick' = tick /\ events' \in Seq(BOOLEAN)
  BY <1>1, <1>2, <1>3 DEF RowInv
<1> QED BY <1>5, <1>6, <1>7, OtherRows, SameVisit

LEMMA CloseKeepsRows ==
    ASSUME RowInv, [ViewsNext]_viewsVars, NEW n \in Navigation, CloseRow(n)
    PROVE  RowInv'
<1>1. row' = [row EXCEPT ![n] = NoEntry] /\ UNCHANGED <<asked, opened, tick, events>>
  BY DEF CloseRow, server
<1>2. NoEntry \in Entry /\ row'[n] = NoEntry
  BY <1>1 DEF NoEntry, Entry, RowInv
<1>3. GoodAsked(asked)'
  BY <1>1, SameVisit DEF RowInv, GoodAsked
<1>4. GoodRow(n)'
  <2>1. ~ \E x \in asked' : Of(x, n)'
    BY <1>1, <1>2 DEF RowInv, GoodAsked, Of, NoEntry, Ask
  <2>2. NoEntry' = NoEntry /\ opened' \in Nat /\ tick' \in Nat
    BY <1>1 DEF NoEntry, RowInv
  <2>3. row'[n].id <= opened' /\ row'[n].dto <= tick'
    BY <1>2, <2>2 DEF NoEntry
  <2>4. ~row'[n].again /\ ~row'[n].loading
    BY <1>2 DEF NoEntry
  <2> QED BY <1>2, <2>1, <2>2, <2>3, <2>4 DEF GoodRow
<1>5. /\ row' \in [Navigation -> Entry] /\ \A m \in Navigation : m # n => row'[m] = row[m]
      /\ asked' = asked
      /\ opened' \in Nat /\ opened <= opened' /\ tick' = tick /\ events' \in Seq(BOOLEAN)
  BY <1>1, <1>2 DEF RowInv
<1> QED BY <1>3, <1>4, <1>5, OtherRows, SameVisit

(***************************************************************************)
(* An answer or an error: the entry that asked asks again if it has to.    *)
(***************************************************************************)
LEMMA GotKeepsRows ==
    ASSUME RowInv, [ViewsNext]_viewsVars, NEW a \in asked, NEW error \in BOOLEAN,
           RowGot(a, error), ~error => a.got # 0
    PROVE  RowInv'
<1> DEFINE n == a.view
           entry == [row[n] EXCEPT !.dto = IF error THEN @ ELSE a.got, !.error = error,
                                   !.loading = row[n].again, !.again = FALSE]
           b == [view |-> n, id |-> row[n].id, got |-> 0]
<1>1. a \in Ask /\ n \in Navigation /\ row[n] \in Entry /\ GoodRow(n)
  BY DEF RowInv, GoodAsked, Ask
<1>2. /\ row' = IF Of(a, n) THEN [row EXCEPT ![n] = entry] ELSE row
      /\ asked' = (asked \ {a}) \cup (IF Of(a, n) /\ row[n].again THEN {b} ELSE {})
      /\ UNCHANGED <<opened, tick, events>>
  BY DEF RowGot, Belongs, Of, server
<1>3. /\ entry \in Entry /\ entry.id = row[n].id /\ entry.loading = row[n].again /\ ~entry.again
      /\ entry.dto = IF error THEN row[n].dto ELSE a.got
  BY <1>1 DEF Entry, Ask
<1>4. b.view = n /\ b.id = row[n].id /\ b.got = 0 /\ (row[n].id # 0 => b \in Ask)
  BY <1>1 DEF Ask, Entry
<1>5. Of(a, n) => row[n].id # 0
  BY <1>1 DEF Of, Ask
<1> HIDE DEF entry, b, n
<1>6. GoodAsked(asked)'
  <2>1. asked' \subseteq Ask /\ \A x \in asked' : x.id <= opened /\ x.got <= tick
    BY <1>1, <1>2, <1>4, <1>5 DEF RowInv, GoodAsked, GoodRow
  <2>2. ASSUME NEW x \in asked', NEW y \in asked', x.view = y.view, x.id = y.id
        PROVE  x = y
    BY <1>1, <1>2, <1>4, <2>2 DEF RowInv, GoodAsked, Of, n
  <2> QED BY <1>2, <2>1, <2>2, SameVisit DEF GoodAsked
<1>7. \A x : x.view # n => (x \in asked' <=> x \in asked)
  BY <1>2, <1>4 DEF n
<1>8. CASE Of(a, n)
  <2>1. row' = [row EXCEPT ![n] = entry] /\ row'[n] = entry
    BY <1>1, <1>2, <1>8 DEF RowInv
  <2>2. \A x \in asked' : x.view = n /\ x.id = row[n].id => x = b /\ row[n].again
    BY <1>1, <1>2, <1>4, <1>8 DEF RowInv, GoodAsked, Of
  <2>3. row[n].again => b \in asked'
    BY <1>2, <1>8
  <2>4. entry.dto <= tick /\ entry.id <= opened
    BY <1>1, <1>3 DEF RowInv, GoodAsked, GoodRow
  <2>5. GoodRow(n)'
    <3>1. row'[n].id # 0 /\ row'[n].id <= opened' /\ row'[n].dto <= tick' /\ ~row'[n].again
      BY <1>2, <1>3, <1>5, <1>8, <2>1, <2>4
    <3>2. row'[n].loading <=> \E x \in asked' : x.view = n /\ x.id = row'[n].id
      BY <1>3, <1>4, <2>1, <2>2, <2>3
    <3>3. \A x \in asked' : x.view = n /\ x.id = row'[n].id /\ x.got # 0 => x.got >= row'[n].dto
      BY <1>3, <1>4, <2>1, <2>2
    <3>4. n' = n
      BY DEF n
    <3> QED BY <3>1, <3>2, <3>3, <3>4 DEF GoodRow, Of
  <2>6. /\ row' \in [Navigation -> Entry] /\ \A m \in Navigation : m # n => row'[m] = row[m]
        /\ opened' \in Nat /\ opened <= opened' /\ tick' = tick /\ events' \in Seq(BOOLEAN)
    BY <1>1, <1>2, <1>3, <2>1 DEF RowInv
  <2> QED BY <1>1, <1>6, <1>7, <2>5, <2>6, OtherRows, SameVisit
<1>9. CASE ~Of(a, n)
  <2>1. row' = row /\ asked' = asked \ {a}
    BY <1>2, <1>9
  <2>2. /\ row' \in [Navigation -> Entry] /\ \A m \in Navigation : m # n => row'[m] = row[m]
        /\ opened' \in Nat /\ opened <= opened' /\ tick' = tick /\ events' \in Seq(BOOLEAN)
    <3>1. row \in [Navigation -> Entry] /\ opened \in Nat /\ events \in Seq(BOOLEAN)
      BY DEF RowInv
    <3>2. opened <= opened
      BY <3>1
    <3> QED BY <1>2, <2>1, <3>1, <3>2
  <2>3. GoodRow(n)'
    <3>1. \A x \in asked : x.view = n /\ x.id = row[n].id => x # a
      BY <1>9 DEF Of
    <3>2. (\E x \in asked' : x.view = n /\ x.id = row[n].id)
          <=> \E x \in asked : x.view = n /\ x.id = row[n].id
      BY <2>1, <3>1
    <3>3. \A x \in asked' : x \in asked
      BY <2>1
    <3>4. NoEntry' = NoEntry
      BY DEF NoEntry
    <3> QED BY <1>1, <1>2, <2>1, <3>2, <3>3, <3>4 DEF GoodRow, Of
  <2> QED BY <1>1, <1>6, <1>7, <2>2, <2>3, OtherRows, SameVisit
<1> QED BY <1>8, <1>9

(***************************************************************************)
(* The rows of the view that is unmounted are closed; their requests stay. *)
(***************************************************************************)
LEMMA NavigateKeepsRows ==
    ASSUME RowInv, [ViewsNext]_viewsVars, NEW route \in Route, Navigate(route)
    PROVE  RowInv'
<1>1. /\ row' = [v \in Navigation |-> IF view[v].at = "mounted" THEN NoEntry ELSE row[v]]
      /\ UNCHANGED <<asked, opened, tick, events>>
  BY DEF Navigate, server
<1>2. NoEntry \in Entry /\ NoEntry' = NoEntry
  BY DEF NoEntry, Entry
<1>3. GoodAsked(asked)'
  BY <1>1, SameVisit DEF RowInv, GoodAsked
<1>4. ASSUME NEW m \in Navigation PROVE GoodRow(m)'
  <2>1. CASE row'[m] = row[m]
    BY <1>1, <1>2, <2>1 DEF RowInv, GoodRow, Of
  <2>2. CASE row'[m] = NoEntry
    <3>1. ~ \E x \in asked' : Of(x, m)'
      BY <1>1, <2>2 DEF RowInv, GoodAsked, Of, NoEntry, Ask
    <3>2. opened' \in Nat /\ tick' \in Nat
      BY <1>1 DEF RowInv
    <3>3. /\ row'[m].id <= opened' /\ row'[m].dto <= tick'
          /\ ~row'[m].again /\ ~row'[m].loading
      BY <2>2, <3>2 DEF NoEntry
    <3> QED BY <1>2, <2>2, <3>1, <3>2, <3>3 DEF GoodRow
  <2> QED BY <1>1, <2>1, <2>2
<1>5. row' \in [Navigation -> Entry]
  BY <1>1, <1>2 DEF RowInv
<1> QED BY <1>1, <1>3, <1>4, <1>5, SameVisit DEF RowInv, Entry

\* What a snapshot event does to a row that is open.
LEMMA LoadKeepsRows ==
    ASSUME RowInv, [ViewsNext]_viewsVars, NEW n \in Navigation, row[n].id # 0,
           row' = [row EXCEPT ![n] = LoadRow(row[n])], asked' = asked \cup Sent(n, row[n]),
           UNCHANGED <<opened, tick>>, events' \in Seq(BOOLEAN)
    PROVE  RowInv'
<1>1. row[n] \in Entry /\ row'[n] = LoadRow(row[n]) /\ GoodRow(n)
  BY DEF RowInv
<1>2. /\ opened \in Nat /\ tick \in Nat /\ opened' \in Nat /\ opened <= opened'
      /\ tick' = tick /\ opened' = opened
  BY DEF RowInv
<1>3. /\ row'[n] \in Entry /\ row'[n].id = row[n].id /\ row'[n].dto = row[n].dto /\ row'[n].loading
      /\ row[n].loading => row'[n].again
      /\ ~row[n].loading => row'[n].again = row[n].again
  <2>1. ASSUME NEW e \in Entry
        PROVE  /\ LoadRow(e) \in Entry /\ LoadRow(e).id = e.id /\ LoadRow(e).dto = e.dto
               /\ LoadRow(e).loading
               /\ e.loading => LoadRow(e).again
               /\ ~e.loading => LoadRow(e).again = e.again
    <3>1. CASE e.loading
      BY <3>1 DEF LoadRow, AsksAgain, Entry
    <3>2. CASE ~e.loading
      BY <3>2 DEF LoadRow, Entry
    <3> QED BY <3>1, <3>2
  <2> QED BY <1>1, <2>1
<1>4. row' \in [Navigation -> Entry] /\ \A m \in Navigation : m # n => row'[m] = row[m]
  BY <1>1, <1>3 DEF RowInv
<1>5. CASE row[n].loading
  <2>1. asked' = asked
    BY <1>5 DEF Sent
  <2>2. GoodAsked(asked)'
    BY <1>2, <2>1, SameVisit DEF RowInv, GoodAsked
  <2>3. GoodRow(n)'
    BY <1>1, <1>2, <1>3, <1>5, <2>1 DEF GoodRow, Of
  <2> QED BY <1>2, <1>4, <2>1, <2>2, <2>3, OtherRows, SameVisit
<1>6. CASE ~row[n].loading
  <2> DEFINE b == [view |-> n, id |-> row[n].id, got |-> 0]
  <2>1. asked' = asked \cup {b} /\ b.view = n /\ b.id = row[n].id /\ b.got = 0
    BY <1>6 DEF Sent
  <2>2. b \in Ask
    BY <1>1 DEF Ask, Entry
  <2>3. \A x \in asked : ~Of(x, n)
    BY <1>1, <1>6 DEF GoodRow
  <2> HIDE DEF b
  <2>4. GoodAsked(asked)'
    <3>1. asked' \subseteq Ask /\ \A x \in asked' : x.id <= opened /\ x.got <= tick
      BY <1>1, <1>2, <2>1, <2>2 DEF RowInv, GoodAsked, GoodRow
    <3>2. \A x, y \in asked' : x.view = y.view /\ x.id = y.id => x = y
      BY <2>1, <2>3 DEF RowInv, GoodAsked, Of
    <3> QED BY <1>2, <3>1, <3>2, SameVisit DEF GoodAsked
  <2>5. GoodRow(n)'
    <3>1. \A x \in asked' : x.view = n /\ x.id = row[n].id => x = b
      BY <2>1, <2>3 DEF Of
    <3>2. b \in asked'
      BY <2>1
    <3> QED BY <1>1, <1>2, <1>3, <1>6, <2>1, <3>1, <3>2 DEF GoodRow, Of
  <2>6. \A x : x.view # n => (x \in asked' <=> x \in asked)
    BY <2>1
  <2> QED BY <1>2, <1>4, <2>4, <2>5, <2>6, OtherRows, SameVisit
<1> QED BY <1>5, <1>6

LEMMA SnapshotKeepsRows ==
    ASSUME ViewInv, RowInv, [ViewsNext]_viewsVars, NEW skip \in BOOLEAN, OnSnapshot(skip)
    PROVE  RowInv'
<1>1. UNCHANGED <<opened, tick>> /\ events' = Tail(events) /\ events # <<>>
  BY DEF OnSnapshot, server
<1>2. events' \in Seq(BOOLEAN) /\ tick' \in Nat /\ tick <= tick'
  BY <1>1 DEF RowInv
<1>3. CASE row' = row /\ asked' = asked
  BY <1>1, <1>2, <1>3, SameRows
<1>4. CASE ~(row' = row /\ asked' = asked)
  <2>1. /\ routeSeq # 0 /\ row[routeSeq].id # 0
        /\ row' = [row EXCEPT ![routeSeq] = LoadRow(row[routeSeq])]
        /\ asked' = asked \cup Sent(routeSeq, row[routeSeq])
    BY <1>4 DEF OnSnapshot
  <2>2. routeSeq \in Navigation
    BY <2>1, ViewsAssumption DEF ViewInv, Navigation
  <2> QED BY <1>1, <1>2, <2>1, <2>2, LoadKeepsRows
<1> QED BY <1>3, <1>4

LEMMA RowStep ==
    ASSUME ViewInv, RowInv, [ViewsNext]_viewsVars
    PROVE  RowInv'
<1>1. tick \in Nat /\ tick <= tick /\ tick + 1 \in Nat /\ tick <= tick + 1 /\ events \in Seq(BOOLEAN)
  BY DEF RowInv
<1>2. ASSUME NEW own \in BOOLEAN, NEW completes \in BOOLEAN, Report(own, completes)
      PROVE  RowInv'
  <2>1. UNCHANGED <<row, asked, opened>> /\ events' = Append(events, own)
    BY <1>2 DEF Report, rows
  <2>2. tick' \in Nat /\ tick <= tick' /\ events' \in Seq(BOOLEAN)
    BY <1>1, <1>2, <2>1 DEF Report
  <2> QED BY <2>1, <2>2, SameRows
<1>3. CASE ReportAgain
  <2>1. UNCHANGED <<row, asked, opened, tick>> /\ events' = <<TRUE>>
    BY <1>3 DEF ReportAgain, rows, server
  <2> QED BY <1>1, <2>1, SameRows
<1>4. CASE \/ UNCHANGED viewsVars
           \/ \E f \in flight : ServeView(f) \/ AnswerView(f) \/ FailView(f)
           \/ \E n \in Navigation : SwitchRange(n)
  <2>1. UNCHANGED <<row, asked, opened, tick, events>>
    BY <1>4 DEF ServeView, AnswerView, FailView, SwitchRange, rows, server, viewsVars
  <2> QED BY <1>1, <2>1, SameRows
<1>5. ASSUME NEW a \in asked, ServeRow(a) PROVE RowInv'
  BY <1>5, ServeKeepsRows
<1>6. ASSUME NEW a \in asked, AnswerRow(a) PROVE RowInv'
  BY <1>6, GotKeepsRows DEF AnswerRow
<1>7. ASSUME NEW a \in asked, FailRow(a) PROVE RowInv'
  BY <1>7, GotKeepsRows DEF FailRow
<1>8. ASSUME NEW route \in Route, Navigate(route) PROVE RowInv'
  BY <1>8, NavigateKeepsRows
<1>9. ASSUME NEW skip \in BOOLEAN, OnSnapshot(skip) PROVE RowInv'
  BY <1>9, SnapshotKeepsRows
<1>10. ASSUME NEW n \in Navigation, OpenRow(n) PROVE RowInv'
  BY <1>10, OpenKeepsRows
<1>11. ASSUME NEW n \in Navigation, CloseRow(n) PROVE RowInv'
  BY <1>11, CloseKeepsRows
<1> QED BY <1>2, <1>3, <1>4, <1>5, <1>6, <1>7, <1>8, <1>9, <1>10, <1>11 DEF ViewsNext, ViewsWorking

-----------------------------------------------------------------------------
(* One view at a time *)

LEMMA OneViewStep ==
    ASSUME ViewInv, RowInv, OneView, [ViewsNext]_viewsVars
    PROVE  OneView'
<1>1. /\ Navigation' = Navigation /\ routeSeq \in Nat
      /\ view \in [Navigation -> View] /\ row \in [Navigation -> Entry]
      /\ \A n \in Navigation : n > routeSeq => view[n].at = "none"
      /\ \A f \in flight : f \in Req /\ (f.first => view[f.view].at = "building")
  BY SameVisit DEF ViewInv, RowInv, GoodFlight
<1>2. ASSUME NEW route \in Route, Navigate(route) PROVE OneView'
  <2>1. routeSeq' = routeSeq + 1 /\ screen' = [of |-> routeSeq + 1, error |-> FALSE]
    BY <1>2 DEF Navigate
  <2>2. ASSUME NEW n \in Navigation
        PROVE  /\ view'[n].at = "mounted" => n = routeSeq + 1
               /\ row'[n].id # 0 => view'[n].at = "mounted"
    <3>1. view'[n].at = "mounted" => n = routeSeq + 1
      BY <1>1, <1>2 DEF Navigate, View
    <3>2. row'[n].id # 0 => view[n].at # "mounted" /\ row[n].id # 0
      BY <1>2 DEF Navigate, NoEntry
    <3> QED BY <3>1, <3>2 DEF OneView
  <2> QED BY <1>1, <2>1, <2>2 DEF OneView
<1>3. ASSUME NEW f \in flight, AnswerView(f) \/ FailView(f) PROVE OneView'
  <2> DEFINE n == f.view
  <2>1. routeSeq' = routeSeq /\ row' = row /\ n \in Navigation
    BY <1>1, <1>3 DEF AnswerView, FailView, rows, Req
  <2>2. /\ \A m \in Navigation : m # n => view'[m] = view[m]
        /\ ~f.first => view'[n].at = view[n].at
        /\ f.first => /\ view[n].at = "building"
                      /\ view'[n].at = "mounted" => n = routeSeq
    <3>1. CASE AnswerView(f)
      BY <1>1, <2>1, <3>1 DEF AnswerView, Built, View
    <3>2. CASE FailView(f)
      BY <1>1, <2>1, <3>2 DEF FailView, Built, View
    <3> QED BY <1>3, <3>1, <3>2
  <2>3. \A m \in Navigation : view'[m].at = "mounted" => m = routeSeq
    BY <2>2 DEF OneView
  <2>4. \A m \in Navigation : row[m].id # 0 => view'[m].at = "mounted"
    BY <2>2 DEF OneView
  <2>5. screen'.of = routeSeq /\ (screen'.error => view'[routeSeq].at = "failed")
    <3>1. CASE screen' = screen
      <4>1. CASE screen.error
        <5>1. view[routeSeq].at = "failed" /\ routeSeq \in Navigation
          BY <4>1 DEF OneView, ViewInv
        <5> QED BY <2>2, <3>1, <5>1 DEF OneView
      <4> QED BY <3>1, <4>1 DEF OneView
    <3>2. CASE screen' # screen
      <4>1. FailView(f) /\ f.first /\ view[n].route = "goods" /\ n = routeSeq
        BY <1>3, <3>2 DEF AnswerView, FailView, ErrorShown
      <4>2. screen' = [of |-> n, error |-> TRUE] /\ view'[n].at = "failed"
        BY <1>1, <2>1, <3>2, <4>1 DEF FailView, View
      <4> QED BY <4>1, <4>2
    <3> QED BY <3>1, <3>2
  <2> QED BY <1>1, <2>1, <2>3, <2>4, <2>5 DEF OneView
<1>4. ASSUME NEW n \in Navigation, OpenRow(n) \/ CloseRow(n) PROVE OneView'
  <2>1. /\ UNCHANGED <<routeSeq, view, screen>> /\ view[n].at = "mounted"
        /\ \A m \in Navigation : m # n => row'[m] = row[m]
    BY <1>1, <1>4 DEF OpenRow, CloseRow, Mounted
  <2> QED BY <1>1, <2>1 DEF OneView
<1>5. ASSUME NEW a \in asked, AnswerRow(a) \/ FailRow(a) PROVE OneView'
  <2> DEFINE n == a.view
             entry(error) == [row[n] EXCEPT !.dto = IF error THEN @ ELSE a.got, !.error = error,
                                            !.loading = row[n].again, !.again = FALSE]
  <2>1. PICK error \in BOOLEAN : RowGot(a, error)
    BY <1>5 DEF AnswerRow, FailRow
  <2>2. UNCHANGED <<routeSeq, view, screen>>
    BY <2>1 DEF RowGot
  <2>3. row' = row \/ row' = [row EXCEPT ![n] = entry(error)]
    BY <2>1 DEF RowGot
  <2>4. entry(error).id = row[n].id
    BY <1>1 DEF RowInv, GoodAsked, Ask, Entry
  <2> HIDE DEF entry, n
  <2>5. \A m \in Navigation : row'[m] = row[m] \/ row'[m].id = row[m].id
    BY <1>1, <2>3, <2>4
  <2> QED BY <1>1, <2>2, <2>5 DEF OneView
<1>6. ASSUME NEW skip \in BOOLEAN, OnSnapshot(skip) PROVE OneView'
  <2>1. UNCHANGED <<routeSeq, view, screen>>
    BY <1>6 DEF OnSnapshot
  <2>2. CASE row' = row
    BY <1>1, <2>1, <2>2 DEF OneView
  <2>3. CASE row' # row
    <3>1. view[routeSeq].at = "mounted" /\ \A m \in Navigation : m # routeSeq => row'[m] = row[m]
      BY <1>1, <1>6, <2>3 DEF OnSnapshot
    <3> QED BY <1>1, <2>1, <3>1 DEF OneView
  <2> QED BY <2>2, <2>3
<1>7. CASE \/ ReportAgain \/ UNCHANGED viewsVars
           \/ \E own, completes \in BOOLEAN : Report(own, completes)
           \/ \E f \in flight : ServeView(f)
           \/ \E a \in asked : ServeRow(a)
           \/ \E n \in Navigation : SwitchRange(n)
  <2>1. UNCHANGED <<routeSeq, view, screen, row>>
    BY <1>7 DEF ReportAgain, Report, ServeView, ServeRow, SwitchRange, rows, viewsVars
  <2> QED BY <1>1, <2>1 DEF OneView
<1> QED BY <1>2, <1>3, <1>4, <1>5, <1>6, <1>7 DEF ViewsNext, ViewsWorking

-----------------------------------------------------------------------------
(* The rows catch up *)

CatchUp == RowsCatchUp /\ AnswersCatchUp

\* What a step that leaves the rows and the tick alone keeps.
LEMMA SameCatchUp ==
    ASSUME CatchUp, [ViewsNext]_viewsVars, UNCHANGED <<row, asked, tick, events>>
    PROVE  CatchUp'
BY SameVisit DEF CatchUp, RowsCatchUp, AnswersCatchUp, Of

LEMMA ServeCatchesUp ==
    ASSUME RowInv, CatchUp, [ViewsNext]_viewsVars, NEW a \in asked, ServeRow(a)
    PROVE  CatchUp'
<1> DEFINE b == [a EXCEPT !.got = tick]
<1>1. asked' = (asked \ {a}) \cup {b} /\ UNCHANGED <<row, tick, events>>
  BY DEF ServeRow, server
<1>2. b.view = a.view /\ b.id = a.id /\ b.got = tick
  BY DEF RowInv, GoodAsked, Ask
<1> HIDE DEF b
<1>3. RowsCatchUp'
  BY <1>1, <1>2, SameVisit DEF CatchUp, RowsCatchUp
<1>4. AnswersCatchUp'
  BY <1>1, <1>2, SameVisit DEF CatchUp, AnswersCatchUp, Of
<1> QED BY <1>3, <1>4 DEF CatchUp

\* A row opened has asked; one closed asks for nothing.
LEMMA OpenCloseCatchesUp ==
    ASSUME RowInv, CatchUp, [ViewsNext]_viewsVars, NEW n \in Navigation,
           OpenRow(n) \/ CloseRow(n)
    PROVE  CatchUp'
<1>1. /\ UNCHANGED <<tick, events>> /\ Navigation' = Navigation
      /\ \A m \in Navigation : m # n => row'[m] = row[m]
  BY SameVisit DEF OpenRow, CloseRow, RowInv, server
<1>2. CASE CloseRow(n)
  <2>1. row'[n].id = 0 /\ asked' = asked
    BY <1>2 DEF CloseRow, RowInv, NoEntry
  <2>2. \A a \in asked : a.id # 0
    BY DEF RowInv, GoodAsked, Ask
  <2>3. RowsCatchUp'
    BY <1>1, <2>1 DEF CatchUp, RowsCatchUp
  <2>4. AnswersCatchUp'
    BY <1>1, <2>1, <2>2 DEF CatchUp, AnswersCatchUp, Of
  <2> QED BY <2>3, <2>4 DEF CatchUp
<1>3. CASE OpenRow(n)
  <2> DEFINE a == [view |-> n, id |-> opened + 1, got |-> 0]
  <2>1. row'[n].id = opened + 1 /\ asked' = asked \cup {a}
    BY <1>3 DEF OpenRow, RowInv, NoEntry, Entry
  <2>2. a.view = n /\ a.id = opened + 1 /\ a.got = 0
    OBVIOUS
  <2>3. \A x \in asked : x.id # opened + 1
    BY DEF RowInv, GoodAsked, Ask
  <2> HIDE DEF a
  <2>4. RowsCatchUp'
    <3>1. ASSUME NEW m \in Navigation, m # n, row[m].id # 0, ~row[m].error, row[m].dto # tick
          PROVE  \/ events # <<>> \/ row[m].again
                 \/ \E x \in asked' : x.view = m /\ x.id = row[m].id /\ x.got \in {0, tick}
      BY <2>1, <3>1 DEF CatchUp, RowsCatchUp
    <3> QED BY <1>1, <2>1, <2>2, <3>1 DEF RowsCatchUp
  <2>5. AnswersCatchUp'
    BY <1>1, <2>1, <2>2, <2>3 DEF CatchUp, AnswersCatchUp, Of
  <2> QED BY <2>4, <2>5 DEF CatchUp
<1> QED BY <1>2, <1>3

(***************************************************************************)
(* The answer of an open row is the newest tick's or is asked for again: a *)
(* newer tick has come with an event, which is there or has been heard.    *)
(***************************************************************************)
LEMMA GotCatchesUp ==
    ASSUME RowInv, CatchUp, [ViewsNext]_viewsVars, NEW a \in asked, NEW error \in BOOLEAN,
           RowGot(a, error), ~error => a.got # 0
    PROVE  CatchUp'
<1> DEFINE n == a.view
           entry == [row[n] EXCEPT !.dto = IF error THEN @ ELSE a.got, !.error = error,
                                   !.loading = row[n].again, !.again = FALSE]
           b == [view |-> n, id |-> row[n].id, got |-> 0]
<1>1. a \in Ask /\ n \in Navigation /\ row[n] \in Entry
  BY DEF RowInv, GoodAsked, Ask
<1>2. /\ row' = IF Of(a, n) THEN [row EXCEPT ![n] = entry] ELSE row
      /\ asked' = (asked \ {a}) \cup (IF Of(a, n) /\ row[n].again THEN {b} ELSE {})
      /\ UNCHANGED <<tick, events>> /\ Navigation' = Navigation
  BY SameVisit DEF RowGot, Belongs, Of, server
<1>3. /\ entry.id = row[n].id /\ ~entry.again /\ entry.error = error
      /\ ~error => entry.dto = a.got
  BY <1>1 DEF Entry, Ask
<1>4. b.view = n /\ b.id = row[n].id /\ b.got = 0
  OBVIOUS
<1>5. \A x \in asked : Of(x, n) /\ Of(a, n) => x = a
  BY DEF RowInv, GoodAsked, Of
<1> HIDE DEF entry, b, n
<1>6. \A m \in Navigation : m # n => row'[m] = row[m]
  BY <1>1, <1>2 DEF RowInv
<1>7. CASE Of(a, n)
  <2>1. row'[n] = entry
    BY <1>1, <1>2, <1>7 DEF RowInv
  <2>2. \A x \in asked' : x.view = n /\ x.id = row[n].id => x = b
    BY <1>2, <1>5, <1>7 DEF Of
  <2>3. RowsCatchUp'
    <3>1. ASSUME ~error, entry.dto # tick
          PROVE  events # <<>> \/ b \in asked'
      <4>1. a.got \notin {0, tick}
        BY <1>3, <3>1
      <4>2. events # <<>> \/ row[n].again
        BY <1>1, <1>7, <4>1 DEF CatchUp, AnswersCatchUp
      <4> QED BY <1>2, <1>7, <4>2
    <3>2. ASSUME NEW m \in Navigation, m # n, row[m].id # 0, ~row[m].error, row[m].dto # tick
          PROVE  \/ events # <<>> \/ row[m].again
                 \/ \E x \in asked' : x.view = m /\ x.id = row[m].id /\ x.got \in {0, tick}
      BY <1>2, <3>2 DEF CatchUp, RowsCatchUp, n
    <3> QED BY <1>2, <1>3, <1>4, <1>6, <2>1, <3>1, <3>2 DEF RowsCatchUp
  <2>4. AnswersCatchUp'
    <3>1. ASSUME NEW m \in Navigation, m # n, NEW x \in asked', x.view = m
          PROVE  x \in asked
      BY <1>2, <1>4, <3>1
    <3>2. ASSUME NEW m \in Navigation, m # n, NEW x \in asked', x.view = m, x.id = row'[m].id,
                 x.got \notin {0, tick}
          PROVE  events # <<>> \/ row'[m].again
      BY <1>6, <3>1, <3>2 DEF CatchUp, AnswersCatchUp, Of
    <3>3. ASSUME NEW x \in asked', x.view = n, x.id = row'[n].id
          PROVE  x.got = 0
      BY <1>3, <1>4, <2>1, <2>2, <3>3
    <3> QED BY <1>2, <3>2, <3>3 DEF AnswersCatchUp, Of
  <2> QED BY <2>3, <2>4 DEF CatchUp
<1>8. CASE ~Of(a, n)
  <2>1. row' = row /\ asked' = asked \ {a}
    BY <1>2, <1>8
  <2>2. \A m \in Navigation : \A x \in asked : x.view = m /\ x.id = row[m].id => x \in asked'
    BY <1>8, <2>1 DEF Of, n
  <2>3. RowsCatchUp'
    BY <1>2, <2>1, <2>2 DEF CatchUp, RowsCatchUp
  <2>4. AnswersCatchUp'
    BY <1>2, <2>1 DEF CatchUp, AnswersCatchUp, Of
  <2> QED BY <2>3, <2>4 DEF CatchUp
<1> QED BY <1>7, <1>8

LEMMA NavigateCatchesUp ==
    ASSUME RowInv, CatchUp, [ViewsNext]_viewsVars, NEW route \in Route, Navigate(route)
    PROVE  CatchUp'
<1>1. /\ row' = [v \in Navigation |-> IF view[v].at = "mounted" THEN NoEntry ELSE row[v]]
      /\ UNCHANGED <<asked, tick, events>> /\ Navigation' = Navigation
  BY SameVisit DEF Navigate, server
<1>2. \A n \in Navigation : row'[n] = row[n] \/ row'[n].id = 0
  BY <1>1 DEF NoEntry
<1>3. \A a \in asked : a.id # 0
  BY DEF RowInv, GoodAsked, Ask
<1>4. RowsCatchUp'
  BY <1>1, <1>2 DEF CatchUp, RowsCatchUp
<1>5. AnswersCatchUp'
  BY <1>1, <1>2, <1>3 DEF CatchUp, AnswersCatchUp, Of
<1> QED BY <1>4, <1>5 DEF CatchUp

(***************************************************************************)
(* The only view that can have a row open hears the event.                 *)
(***************************************************************************)
LEMMA SnapshotCatchesUp ==
    ASSUME RowInv, OneView, [ViewsNext]_viewsVars, NEW skip \in BOOLEAN, OnSnapshot(skip)
    PROVE  CatchUp'
<1> DEFINE n == routeSeq
<1>1. UNCHANGED <<tick, view>> /\ Navigation' = Navigation
  BY SameVisit DEF OnSnapshot, server
<1>2. ASSUME NEW m \in Navigation, row'[m].id # 0
      PROVE  /\ m = n /\ row[n].id # 0 /\ row'[n] = LoadRow(row[n])
             /\ asked' = asked \cup Sent(n, row[n])
  <2>1. m # 0
    BY DEF Navigation
  <2>2. row[m].id # 0
    <3>1. CASE row' = row
      BY <1>2, <3>1
    <3>2. CASE row' # row
      <4>1. row[n].id # 0 /\ row' = [row EXCEPT ![n] = LoadRow(row[n])]
        BY <3>2 DEF OnSnapshot
      <4> QED BY <1>2, <4>1 DEF RowInv
    <3> QED BY <3>1, <3>2
  <2>3. m = n /\ view[n].at = "mounted"
    BY <2>2 DEF OneView
  <2>4. /\ row' = [row EXCEPT ![n] = LoadRow(row[n])] /\ asked' = asked \cup Sent(n, row[n])
    BY <2>1, <2>2, <2>3 DEF OnSnapshot
  <2> QED BY <2>2, <2>3, <2>4 DEF RowInv
<1> HIDE DEF n
<1>3. ASSUME NEW m \in Navigation, row'[m].id # 0
      PROVE  \/ row'[m].again
             \/ /\ \E x \in asked' : x.view = m /\ x.id = row'[m].id /\ x.got = 0
                /\ \A x \in asked' : x.view = m /\ x.id = row'[m].id => x.got = 0
  <2>1. /\ m = n /\ row'[n] = LoadRow(row[n]) /\ asked' = asked \cup Sent(n, row[n])
        /\ n \in Navigation /\ row[n] \in Entry /\ GoodRow(n)
    BY <1>2, <1>3 DEF RowInv
  <2>2. CASE row[n].loading
    BY <2>1, <2>2 DEF LoadRow, AsksAgain, Entry
  <2>3. CASE ~row[n].loading
    <3> DEFINE b == [view |-> n, id |-> row[n].id, got |-> 0]
    <3>1. /\ asked' = asked \cup {b} /\ b.view = n /\ b.id = row[n].id /\ b.got = 0
          /\ row'[n].id = row[n].id
      BY <2>1, <2>3 DEF LoadRow, Sent, Entry
    <3>2. \A x \in asked : ~(x.view = n /\ x.id = row[n].id)
      BY <2>1, <2>3 DEF GoodRow, Of
    <3> HIDE DEF b
    <3> QED BY <2>1, <3>1, <3>2
  <2> QED BY <2>2, <2>3
<1>4. \A x \in asked' : x.view \in Navigation /\ row'[x.view].id = x.id => row'[x.view].id # 0
  <2>1. \A x \in asked : x.id # 0
    BY DEF RowInv, GoodAsked, Ask
  <2>2. ASSUME NEW x \in asked', x \notin asked PROVE x.id # 0
    BY <2>2 DEF OnSnapshot, Sent
  <2> QED BY <2>1, <2>2
<1>5. RowsCatchUp'
  BY <1>1, <1>3 DEF RowsCatchUp
<1>6. AnswersCatchUp'
  BY <1>1, <1>3, <1>4 DEF AnswersCatchUp, Of
<1> QED BY <1>5, <1>6 DEF CatchUp

LEMMA CatchUpStep ==
    ASSUME RowInv, OneView, CatchUp, [ViewsNext]_viewsVars
    PROVE  CatchUp'
<1>1. CASE ReportAgain \/ \E own, completes \in BOOLEAN : Report(own, completes)
  <2>1. events' # <<>>
    <3>1. CASE ReportAgain
      BY <3>1 DEF ReportAgain
    <3>2. ASSUME NEW own \in BOOLEAN, NEW completes \in BOOLEAN, Report(own, completes)
          PROVE  events' # <<>>
      <4>1. events' = Append(events, own) /\ events \in Seq(BOOLEAN)
        BY <3>2 DEF Report, RowInv
      <4>2. Len(events') = Len(events) + 1 /\ Len(events) \in Nat
        BY <4>1
      <4>3. Len(<<>>) = 0
        OBVIOUS
      <4> QED BY <4>2, <4>3
    <3> QED BY <1>1, <3>1, <3>2
  <2> QED BY <2>1 DEF CatchUp, RowsCatchUp, AnswersCatchUp
<1>2. CASE \/ UNCHANGED viewsVars
           \/ \E f \in flight : ServeView(f) \/ AnswerView(f) \/ FailView(f)
           \/ \E n \in Navigation : SwitchRange(n)
  <2>1. UNCHANGED <<row, asked, tick, events>>
    BY <1>2 DEF ServeView, AnswerView, FailView, SwitchRange, rows, server, viewsVars
  <2> QED BY <2>1, SameCatchUp
<1>3. ASSUME NEW a \in asked, ServeRow(a) PROVE CatchUp'
  BY <1>3, ServeCatchesUp
<1>4. ASSUME NEW a \in asked, AnswerRow(a) \/ FailRow(a) PROVE CatchUp'
  BY <1>4, GotCatchesUp DEF AnswerRow, FailRow
<1>5. ASSUME NEW route \in Route, Navigate(route) PROVE CatchUp'
  BY <1>5, NavigateCatchesUp
<1>6. ASSUME NEW skip \in BOOLEAN, OnSnapshot(skip) PROVE CatchUp'
  BY <1>6, SnapshotCatchesUp
<1>7. ASSUME NEW n \in Navigation, OpenRow(n) \/ CloseRow(n) PROVE CatchUp'
  BY <1>7, OpenCloseCatchesUp
<1> QED BY <1>1, <1>2, <1>3, <1>4, <1>5, <1>6, <1>7 DEF ViewsNext, ViewsWorking

-----------------------------------------------------------------------------
(* The theorems *)

LEMMA ViewsInvStep ==
    ASSUME ViewsInv, [ViewsNext]_viewsVars
    PROVE  ViewsInv'
<1>1. ViewInv /\ RowInv /\ OneView /\ CatchUp
  BY DEF ViewsInv, CatchUp
<1>2. ViewInv' /\ RowInv' /\ OneView'
  BY <1>1, ViewStep, RowStep, OneViewStep
<1>3. CatchUp'
  BY <1>1, CatchUpStep
<1> QED BY <1>2, <1>3 DEF ViewsInv, CatchUp

(***************************************************************************)
(* The bookkeeping of the page's views and rows: a first request only for  *)
(* a view being built, one newest request a view, one request an open row. *)
(***************************************************************************)
THEOREM ViewsInvHolds == ViewsSpec => []ViewsInv
<1>1. ViewsInit => ViewsInv
  BY InitHolds
<1>2. ViewsInv /\ [ViewsNext]_viewsVars => ViewsInv'
  BY ViewsInvStep
<1> QED BY <1>1, <1>2, PTL DEF ViewsSpec

(***************************************************************************)
(* However many navigations overtake each other, the one view listening is *)
(* the newest navigation's and the page shows that one or its error.       *)
(***************************************************************************)
THEOREM OneViewAlways == ViewsSpec => []OneView
<1>1. ViewsInv => OneView
  BY DEF ViewsInv
<1> QED BY <1>1, ViewsInvHolds, PTL

(***************************************************************************)
(* One request per open row is always enough: the newest complete tick is  *)
(* shown, or something that brings it is on its way.                       *)
(***************************************************************************)
THEOREM RowsAlwaysCatchUp == ViewsSpec => []RowsCatchUp
<1>1. ViewsInv => RowsCatchUp
  BY DEF ViewsInv
<1> QED BY <1>1, ViewsInvHolds, PTL

LEMMA ForwardStep ==
    ASSUME ViewsInv, [ViewsNext]_viewsVars, NEW n \in Navigation
    PROVE  /\ view'[n].shown >= view[n].shown
           /\ row'[n].id = row[n].id => row'[n].dto >= row[n].dto
<1> DEFINE Forward == /\ view'[n].shown >= view[n].shown
                      /\ row'[n].id = row[n].id => row'[n].dto >= row[n].dto
<1> SUFFICES Forward
  OBVIOUS
<1>1. /\ view \in [Navigation -> View] /\ row \in [Navigation -> Entry]
      /\ view[n].shown \in Nat /\ row[n].dto \in Nat /\ opened \in Nat
      /\ GoodFlight(flight) /\ GoodAsked(asked) /\ GoodRow(n)
  BY DEF ViewsInv, ViewInv, RowInv, View, Entry
<1>2. ASSUME NEW route \in Route, Navigate(route)
      PROVE  Forward
  <2>1. view'[n].shown = view[n].shown \/ (n = routeSeq + 1 /\ view'[n].shown = 0)
    BY <1>1, <1>2 DEF Navigate, View
  <2>2. n = routeSeq + 1 => view[n].shown = 0
    BY DEF ViewsInv, ViewInv
  <2>3. row'[n] = row[n] \/ row'[n] = NoEntry
    BY <1>2 DEF Navigate
  <2>4. row[n].id = NoEntry.id => row[n] = NoEntry
    BY <1>1 DEF GoodRow, NoEntry
  <2> QED BY <1>1, <2>1, <2>2, <2>3, <2>4
<1>3. ASSUME NEW f \in flight, AnswerView(f)
      PROVE  view'[n].shown >= view[n].shown /\ row' = row
  <2>1. row' = row
    BY <1>3 DEF AnswerView, rows
  <2>2. \/ view'[n].shown = view[n].shown
        \/ f.view = n /\ f.newest /\ f.got # 0 /\ view'[n].shown = f.got
    BY <1>1, <1>3 DEF AnswerView, Paints, View
  <2> QED BY <1>1, <2>1, <2>2 DEF GoodFlight
<1>4. ASSUME NEW f \in flight, FailView(f)
      PROVE  view'[n].shown = view[n].shown /\ row' = row
  BY <1>1, <1>4 DEF FailView, rows, View
<1>5. ASSUME NEW a \in asked, NEW error \in BOOLEAN, RowGot(a, error), ~error => a.got # 0
      PROVE  view' = view /\ row'[n].dto >= row[n].dto
  <2> DEFINE entry == [row[n] EXCEPT !.dto = IF error THEN @ ELSE a.got, !.error = error,
                                     !.loading = row[n].again, !.again = FALSE]
  <2>1. view' = view
    BY <1>5 DEF RowGot
  <2>2. row'[n] = row[n] \/ (Of(a, n) /\ row'[n] = entry)
    BY <1>1, <1>5 DEF RowGot, Belongs, Of
  <2>3. entry.dto = IF error THEN row[n].dto ELSE a.got
    BY <1>1 DEF Entry
  <2> HIDE DEF entry
  <2> QED BY <1>1, <1>5, <2>1, <2>2, <2>3 DEF GoodRow
<1>6. ASSUME NEW m \in Navigation, OpenRow(m) \/ CloseRow(m)
      PROVE  Forward
  <2>1. view' = view
    BY <1>6 DEF OpenRow, CloseRow
  <2>2. CASE OpenRow(m)
    <3>1. m = n => row[n].id = 0 /\ row'[n].id = opened + 1
      BY <1>1, <2>2 DEF OpenRow, NoEntry
    <3>2. m # n => row'[n] = row[n]
      BY <1>1, <2>2 DEF OpenRow
    <3> QED BY <1>1, <2>1, <3>1, <3>2
  <2>3. CASE CloseRow(m)
    <3>1. m = n => row[n].id # 0 /\ row'[n].id = 0
      BY <1>1, <2>3 DEF CloseRow, NoEntry
    <3>2. m # n => row'[n] = row[n]
      BY <1>1, <2>3 DEF CloseRow
    <3> QED BY <1>1, <2>1, <3>1, <3>2
  <2> QED BY <1>6, <2>2, <2>3
<1>7. ASSUME NEW skip \in BOOLEAN, OnSnapshot(skip)
      PROVE  view' = view /\ row'[n].dto = row[n].dto
  <2>1. view' = view
    BY <1>7 DEF OnSnapshot
  <2>2. row'[n] = row[n] \/ row'[n] = LoadRow(row[n])
    BY <1>1, <1>7 DEF OnSnapshot
  <2>3. LoadRow(row[n]).dto = row[n].dto
    BY <1>1 DEF LoadRow, Entry
  <2> QED BY <2>1, <2>2, <2>3
<1>8. CASE \/ ReportAgain \/ UNCHANGED viewsVars
           \/ \E own, completes \in BOOLEAN : Report(own, completes)
           \/ \E f \in flight : ServeView(f)
           \/ \E a \in asked : ServeRow(a)
           \/ \E m \in Navigation : SwitchRange(m)
  <2>1. view' = view /\ row' = row
    BY <1>8 DEF ReportAgain, Report, ServeView, ServeRow, SwitchRange, rows, viewsVars
  <2> QED BY <1>1, <2>1
<1>9. ASSUME NEW f \in flight, AnswerView(f) \/ FailView(f) PROVE Forward
  BY <1>1, <1>3, <1>4, <1>9
<1>10. ASSUME NEW a \in asked, AnswerRow(a) \/ FailRow(a) PROVE Forward
  <2>1. PICK error \in BOOLEAN : RowGot(a, error) /\ (~error => a.got # 0)
    BY <1>10 DEF AnswerRow, FailRow
  <2> QED BY <1>1, <1>5, <2>1
<1>11. ASSUME NEW skip \in BOOLEAN, OnSnapshot(skip) PROVE Forward
  BY <1>1, <1>7, <1>11
<1> QED BY <1>2, <1>6, <1>8, <1>9, <1>10, <1>11 DEF ViewsNext, ViewsWorking

(***************************************************************************)
(* Answers may arrive in any order and after the row that asked has been   *)
(* closed and opened again: no view and no row goes back to older figures. *)
(***************************************************************************)
THEOREM NeverGoBackwards == ViewsSpec => NeverBackwards
<1>1. ViewsInv /\ [ViewsNext]_viewsVars
      => [\A n \in Navigation :
             /\ view'[n].shown >= view[n].shown
             /\ row'[n].id = row[n].id => row'[n].dto >= row[n].dto]_viewsVars
  BY ForwardStep
<1> QED BY <1>1, ViewsInvHolds, PTL DEF ViewsSpec, NeverBackwards

==============================================================================

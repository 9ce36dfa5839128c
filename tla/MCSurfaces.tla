----------------------------- MODULE MCSurfaces ------------------------------
(***************************************************************************)
(* What the user switches and looks at, one surface at a time: lanMode     *)
(* alone with toggles without end, the phone panel over it, and the views. *)
(* What belongs to the other surfaces stands still.                        *)
(***************************************************************************)
EXTENDS PhonePanel, PageViews

CONSTANTS click, again, tab

Requests == {click, again, tab}
Clicked  == {click, again}

\* Rows in a table that stays; rows left behind; routes in a hurry; charts.
Stay  == [routes |-> {"goods"}, navigations |-> 1, changes |-> 2, failures |-> 1, opened |-> 2]
Leave == [Stay EXCEPT !.routes = {"goods", "home"}, !.navigations = 2, !.changes = 1, !.opened = 1]
Hurry == [Leave EXCEPT !.navigations = 3, !.opened = 0]
Chart == [Hurry EXCEPT !.routes = Route, !.navigations = 2]

AllVisits == {Stay, Leave, Hurry, Chart}

VARIABLE surface

everything == <<surface, lanVars, panelVars, viewsVars>>

Home == CHOOSE a \in Addresses : TRUE

\* Its requests may fail, and clicks overtake each other; or the one address is
\* lost and found again.
Panels == {"panel", "roaming"}

SurfacesInit ==
    /\ ViewsInit
    /\ \/ surface = "lan" /\ LanInit /\ PanelOpens /\ visit = Stay
       \/ surface \in Panels /\ PanelInit /\ visit = Stay /\ nic = Home
       \/ surface = "views" /\ PanelInit /\ nic = None

\* Two requests toggle, the third stands still.
OnLan ==
    /\ surface = "lan" /\ LanNext /\ pc'[again] = "idle"
    /\ UNCHANGED <<surface, panelVars, viewsVars>>

OnPanel(step) == surface \in Panels /\ step /\ UNCHANGED <<surface, viewsVars>>

OnViews(step) == surface = "views" /\ step /\ UNCHANGED <<surface, lanVars, panelVars>>

(***************************************************************************)
(* Under the panel startServer is through first, which no request can tell *)
(* from its being through later; the second click is one during the first. *)
(***************************************************************************)
SurfacesNext ==
    \/ OnLan \/ OnViews(ViewsNext)
    \/ /\ OnPanel(PanelNext)
       /\ main = "starting" => Started
       /\ IF surface = "roaming" THEN nic' \in {Home, None} /\ panelFails' = 0 ELSE nic' = Home
       /\ reply[again] = "none" /\ reply'[again] # "none"
            => surface = "panel" /\ (reply[click] # "none" \/ pc[click] # "idle")

(***************************************************************************)
(* PanelFairness and ViewsFairness, each where its surface is looked at.   *)
(***************************************************************************)
SurfacesSpec ==
    /\ SurfacesInit /\ [][SurfacesNext]_everything
    /\ WF_everything(OnPanel(PanelWorking)) /\ WF_everything(OnPanel(TickStatus))
    /\ WF_everything(OnViews(ViewsWorking)) /\ WF_everything(OnViews(ReportAgain))

-----------------------------------------------------------------------------

(***************************************************************************)
(* PanelConverges where the panel is open: its switch ends up saying what  *)
(* the server did, whoever toggled and in whatever order answers came.     *)
(***************************************************************************)
PanelFollows == surface \in Panels => PanelConverges

=============================================================================

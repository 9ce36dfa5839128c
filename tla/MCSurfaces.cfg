SPECIFICATION SurfacesSpec
CONSTANTS
    click = click
    again = again
    tab = tab
    Callers <- Requests
    Clicks <- Clicked
    Main = main
    Addresses = {a1, a2}
    Sockets = {s1, s2}
    None = None
    Fetches = {f1, f2}
    MaxToggles = 2
    MaxFails = 1
    Visits <- AllVisits
INVARIANTS
    ListenersOwned
    GoneAfterShutdown
    OneView
    RowsCatchUp
PROPERTIES
    PanelFollows
    NeverBackwards
    GoodsConverge
CHECK_DEADLOCK FALSE

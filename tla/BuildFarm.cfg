SPECIFICATION FarmSpec
CONSTANTS
    Jobs = {j1, j2, j3}
    Clients = {c1}
    None = None
    MaxPlan = 2
    MaxCommands = 1
    HistoryCap = 1
    lib = lib
    app = app
    Recipes <- MCRecipes
    Below <- MCBelow
    RunsWith <- MCRunsWith
    Contained <- MCContained
    Published = {}
    Requests <- MCRequests
    Nothing = Nothing
    MaxEvents = 1
CONSTRAINT Small
SYMMETRY Symmetry
INVARIANTS BlameIsShown SuccessLasts PlanDelivers

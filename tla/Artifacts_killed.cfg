SPECIFICATION Spec
CONSTANTS
    lib = lib
    tool = tool
    app = app
    Recipes <- MCRecipes
    Below <- MCBelow
    RunsWith <- MCRunsWith
    Contained <- MCContained
    Published <- MCPublished
    Requests <- MCRequests
    Nothing = Nothing
    MaxEvents = 1
INVARIANTS CachedIsWhole

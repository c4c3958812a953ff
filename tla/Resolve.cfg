SPECIFICATION FairSpec
CONSTANTS
  N = 3
  Recipes <- MCRecipes
  Projects <- MCProjects
  Calls <- MCCalls
INVARIANTS
  DepsFirst
  PlanComplete
  CachedIsTransitive
PROPERTIES
  Returns
CHECK_DEADLOCK FALSE

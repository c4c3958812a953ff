SPECIFICATION FairSpec
CONSTANTS
  Recipes = {r1}
  Includes = {inc}
  LockFile = lock
  Requests = {q1, q2}
  None = None
  MaxEdits = 3
INVARIANTS
  HashIsCurrent
PROPERTIES
  StableDuringRequest
  EditIsSeen
  CalmsDown
CHECK_DEADLOCK FALSE

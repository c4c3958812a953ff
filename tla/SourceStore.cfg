SPECIFICATION Spec
CONSTANTS
  archive = archive
  patch = patch
  branch = branch
  clone = clone
  app = app
  lib = lib
  Remote <- MCRemote
  Local <- MCLocal
  Git <- MCGit
  WithRef <- MCWithRef
  Recipes <- MCRecipes
  SourcesOf <- MCSourcesOf
  None = None
  MaxVersion = 1
INVARIANTS
  BuiltFromLock
  DownloadsAreWhole
  PinsKept
  ForcedPinsMatchCache

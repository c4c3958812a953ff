SPECIFICATION FairSpec
CONSTANTS
    Piece <- MCPiece
    Texts <- MCTexts
    Layouts <- MCLayouts
    Home = "home"
    Project = "project"
    Virtual = "virtual"
    Globals <- MCGlobals
    Patches <- MCPatches
    MaxDepth = 4
    MaxPieces = 5
INVARIANTS LoadsInOrder SourcesSpelled AppliedOnce
PROPERTIES OnlyAdds LoadsEnd

SPECIFICATION FoldersSpec
CONSTANTS
    Files = {a, b}
    Threshold = 1
    MaxOutside = 2
    Documents = {a}
    Dirs = {x, y, z}
    x = x
    y = y
    z = z
    Below <- Inside
    Depth <- Deep
    Home <- Outermost
    MaxDepth = 2
    Gone = gone
    MaxChanges = 3
INVARIANTS
    MovedOnce
    CompleteBuildExact
PROPERTIES
    NothingForgotten
    BuildKeepsFiles
    BuildEnds
CHECK_DEADLOCK FALSE

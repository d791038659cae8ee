SPECIFICATION RunSpec
CONSTANTS
    Jobs <- MCJobs
    Levels <- MCLevels
    Unset = Unset
    Avx = 3
    Sse = 2
    Tile1x1 = 4
    Tile3x3 = 8
    LargePlane = 16
    MaxWorkers = 3
INVARIANTS
    LoadsInRow
    NoChannelIsLeftOut
PROPERTY ConvolutionSpec
CHECK_DEADLOCK FALSE

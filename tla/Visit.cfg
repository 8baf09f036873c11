SPECIFICATION Spec
CONSTANTS
    Worlds <- MCWorlds
    Machines <- MCMachines
    Request = {1, 2}
    Spare = 1
    Top = 2
    Unit = 4
    MinNest = 8
    HeaderW = 12
    HeaderH = 6
    MinHeader = 4
    MaxHeader = 4
    Point <- MCPoints
    ZoomFrames = 2
    MaxMoves = 2
INVARIANTS TakesOnlyItsOwn WholeVolume PrintsTheLargest ProbesOnce ListsWhatAnswers LayoutSound HoverIsCurrent DrawnIsCurrent ZoomsBetween
PROPERTIES ListEnds
CHECK_DEADLOCK FALSE

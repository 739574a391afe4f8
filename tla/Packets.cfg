SPECIFICATION Spec
CONSTANTS
    ServerLayouts <- MCServerLayouts
    ClientLayouts <- MCClientLayouts
    MaxSize = 10
    TextLengths = {0, 1}
    SizeRange = 16
    Cuts = {3, 10}
    Lacking = {1, 5}
    MaxBlocks = 2
    MaxSends = 3
    MaxSaid = 3
PROPERTIES
    SendsImplementChannel
    ReadsImplementChannel
CHECK_DEADLOCK FALSE

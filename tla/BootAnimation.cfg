SPECIFICATION FramesSpec
CONSTANTS
    b1 = b1
    b2 = b2
    b3 = b3
    b4 = b4
    b5 = b5
    b6 = b6
    Bos <- MCBos
    NoBo = NoBo
    MAX_OUTPUT_RSV_CNT = 4
    mImageCount = 3
SYMMETRY Symmetry
INVARIANTS
    BuffersHeldOnce
PROPERTIES
    KeptWhileReplaced
\* the process dies when a buffer cannot be made
CHECK_DEADLOCK FALSE

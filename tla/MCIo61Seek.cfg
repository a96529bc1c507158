\* A client that seeks while bytes are buffered, as ostridecat61 does; expected to
\* be violated.
CONSTANTS
    BUFFER_SIZE = 2
    NUM_CACHE = 2
    Size = 0
    Room = 4
    MaxBytes = 5
    MaxFills = 4
    MaxRequest = 3
    SIZE_T = 100
    SeekBound = 0
    SeekUnwritten = TRUE
SPECIFICATION FairSpec
PROPERTY SeekMoves

\* Slots of two bytes, two slots, five bytes of input: slots that overlap, are
\* evicted and are found again; output of four places, some written twice.
CONSTANTS
    BUFFER_SIZE = 2
    NUM_CACHE = 2
    Size = 5
    Room = 4
    MaxBytes = 5
    MaxFills = 4
    MaxRequest = 4
    SIZE_T = 100
    SeekBound = 5
    SeekUnwritten = FALSE
SPECIFICATION FairSpec
INVARIANT TypeOK
PROPERTIES ImplementsPlainFile CallsReturn

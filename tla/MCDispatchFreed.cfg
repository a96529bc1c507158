\* One request and two drivers are enough to pop the freed queue.
CONSTANTS
    QUEUE_BUF_SIZE = 3
    MAX_QUEUE_SIZE = 2
    UINT = 16
    Drivers = {d1, d2}
    Dispatcher = Dispatcher
    Nobody = Nobody
    NumRequests = 2
    FreedEmpty = {TRUE, FALSE}
    MaxSpurious = 0
SPECIFICATION Spec
SYMMETRY DriverSymmetry
INVARIANT PopsLiveQueueOnly

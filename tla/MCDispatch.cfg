\* Three drivers, a queue with room for two, enough requests to fill the queue
\* with every driver busy and to wrap its indices; one spurious wakeup; a freed
\* queue may look empty or not.
CONSTANTS
    QUEUE_BUF_SIZE = 2
    MAX_QUEUE_SIZE = 2
    UINT = 12
    Drivers = {d1, d2, d3}
    Dispatcher = Dispatcher
    Nobody = Nobody
    NumRequests = 4
    FreedEmpty = {TRUE, FALSE}
    MaxSpurious = 1
SPECIFICATION FairSpec
INVARIANTS
    TypeOK MutexHeld RidesAccounted NoMissedWakeup NoIdleBacklog
    AnsweredOnce ExitAfterLastRide
PROPERTIES ImplementsRideService EveryoneLeaves

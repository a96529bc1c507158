\* More passengers than Ubers, two rides each: Ubers are taken between a look
\* at free_ubers and the scan, and a second ride starts with a stale uber_id.
CONSTANTS
    Passengers = {p1, p2, p3}
    NUM_UBERS = 2
    RIDES_PER_PASSENGER = 2
    Wild = 99
    UninitIds = {0, 99}
    Nobody = Nobody
SPECIFICATION FairSpec
INVARIANTS TypeOK MutexedRides FreeUbersNotLow
PROPERTY EveryoneRides

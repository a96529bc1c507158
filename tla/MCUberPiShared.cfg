\* Two passengers and one Uber; an uninitialised uber_id never happens to be
\* the index of an Uber.
CONSTANTS
    Passengers = {p1, p2}
    NUM_UBERS = 1
    RIDES_PER_PASSENGER = 2
    Wild = 99
    UninitIds = {99}
    Nobody = Nobody
SPECIFICATION Spec
INVARIANT NobodySharesAnUber

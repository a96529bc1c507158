\* Three drivers for two requests, so that two race for a pair while a third
\* wraps round the positions; with and without mixed-up meals.
CONSTANTS
    Drivers = {d1, d2, d3}
    N = 2
    DeliverBoth = {TRUE, FALSE}
    MixUps = {TRUE, FALSE}
    Nobody = Nobody
SPECIFICATION FairSpec
INVARIANTS TypeOK OneDriverPerRequest NothingPickedUpTwice TestSucceeds NobodyLeavesWork
PROPERTY EveryoneGoesHome

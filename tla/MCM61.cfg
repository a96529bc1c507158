CONSTANTS
    here = here
    there = there
    below = below
    P = 3
    Word = 16
    Overhead = 5
    Requests <- SmallAndLarge
    Counts = {3, 15}
    Sites = {here, there, below}
    TableSize = 2
    Hash <- OneBucket
    MaxCalls = 4
    MaxFails = 0
    Null = Null
    Junk = Junk
SPECIFICATION Spec
INVARIANTS TypeOK StatsAgree LeakReportExact HeavyCounts FreeJudged

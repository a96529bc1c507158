\* One program that forks; expected to be violated when a parent exits first.
CONSTANTS
    NPROC = 4
    NBoot = 1
    PROC_START = 12
    NPAGES = 17
    NVPAGES = 15
    TrapEax = {0}
SPECIFICATION Spec
INVARIANT RefcountIsReferences

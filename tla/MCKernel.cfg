\* Two programs at boot and no third slot: fork() needs an exit first, and with
\* room for two page-table pairs and seven other pages it fails for lack of a
\* slot, of page tables, or of a page half-way.  Three heap pages each.
CONSTANTS
    NPROC = 3
    NBoot = 2
    PROC_START = 8
    NPAGES = 15
    NVPAGES = 16
    TrapEax = {0}
SPECIFICATION FairSpec
INVARIANTS
    TypeOK VirtualMemoryCheck AllocatorAgrees WritersOwn NoPageLeak RefcountNotHigh
PROPERTIES ForkCopies EveryoneRuns

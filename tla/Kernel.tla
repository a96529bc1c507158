------------------------------- MODULE Kernel -------------------------------
(***************************************************************************)
(* WeensyOS (pset6): the processes and the physical memory of kernel.c,    *)
(* with program_load (k-loader.c) and virtual_memory_map (k-hardware.c).   *)
(*                                                                         *)
(* The kernel runs with interrupts disabled, so a system call is not       *)
(* interleaved with user code; it is one step, except fork(), whose loop   *)
(* over the pages of the parent is one step per page and may fail at any   *)
(* of them.  While it runs (mode = "fork") no process does.                *)
(*                                                                         *)
(* Pages are numbered.  A page table is kept as the function from virtual  *)
(* page to mapping it stands for, beside the two physical pages, l1 and    *)
(* l2, that hold it.                                                       *)
(***************************************************************************)
EXTENDS Integers, FiniteSets, FiniteSetsExt

CONSTANTS
    NPROC,          \* process slots; slot 0 is never used
    NBoot,          \* processes that kernel() sets up
    PROC_START,     \* first application-accessible page
    NPAGES,         \* physical pages
    NVPAGES,        \* virtual pages; the last one is the stack
    TrapEax         \* what %eax may hold when a process traps

Pids == 0 .. NPROC - 1
Pages == 0 .. NPAGES - 1
VPages == PROC_START .. NVPAGES - 1

PO_FREE == 0
PO_RESERVED == -1
PO_KERNEL == -2

NoPage == -1        \* find_free_page(): there is none

ReservedPage == 0   \* physical_memory_isreserved()
KernelPage == 1     \* the kernel's own pages, its page table among them

\* Program number i is linked to a read-only and a writable page of its own.
CodePage(pid) == PROC_START + 2 * (pid - 1)
DataPage(pid) == CodePage(pid) + 1
StackPage == NVPAGES - 1
HeapPages == {va \in VPages : va > DataPage(NBoot) /\ va < StackPage}

(***************************************************************************)
(* The images fit between PROC_START and the end of physical memory, and   *)
(* there is room below for the page tables that kernel() needs at boot.    *)
(***************************************************************************)
ASSUME KernelAssumption ==
    /\ NPROC \in Nat /\ NBoot \in Nat
    /\ PROC_START \in Nat /\ NPAGES \in Nat /\ NVPAGES \in Nat
    /\ 1 <= NBoot /\ NBoot < NPROC
    /\ 3 * NBoot + 2 <= PROC_START
    /\ PROC_START + 2 * NBoot <= NPAGES
    /\ PROC_START + 2 * NBoot < NVPAGES
    /\ TrapEax \subseteq Int

VARIABLES
    mode,           \* "boot", "user", "fork", or "spin" (nothing to run)
    current,        \* the running process; during boot the next to set up
    p_state,        \* per slot
    l1, l2,         \* per slot: the pages of p_pagetable and its second level
    vm,             \* per slot: the mappings of p_pagetable
    eax,            \* per slot: p_registers.reg_eax
    owner,          \* pageinfo[].owner
    refcount,       \* pageinfo[].refcount
    forking         \* fork()'s child and loop index

procs == <<p_state, l1, l2, vm, eax>>
pageinfo == <<owner, refcount>>
vars == <<mode, current, procs, pageinfo, forking>>

Unmapped == [pn |-> NoPage, perm |-> "none"]
NoMappings == [va \in VPages |-> Unmapped]
Map(pn, perm) == [pn |-> pn, perm |-> perm]
NotForking == [child |-> 0, va |-> PROC_START]

\* pageinfo_init(), memset(processes, 0) and the loop after it.
Init ==
    /\ mode = "boot"
    /\ current = 1
    /\ p_state = [p \in Pids |-> "P_FREE"]
    /\ l1 = [p \in Pids |-> NoPage]
    /\ l2 = [p \in Pids |-> NoPage]
    /\ vm = [p \in Pids |-> NoMappings]
    /\ eax = [p \in Pids |-> 0]
    /\ owner = [pn \in Pages |-> CASE pn = ReservedPage -> PO_RESERVED
                                   [] pn = KernelPage -> PO_KERNEL
                                   [] OTHER -> PO_FREE]
    /\ refcount = [pn \in Pages |-> IF pn \in {ReservedPage, KernelPage} THEN 1 ELSE 0]
    /\ forking = NotForking

-----------------------------------------------------------------------------
(* Physical memory *)

FreeIn(S) == {pn \in S : owner[pn] = PO_FREE}
Lowest(S) == IF S = {} THEN NoPage ELSE Min(S)

\* find_free_page() and find_free_page_table().
find_free_page == Lowest(FreeIn(Pages))
find_free_page_table(taken) == Lowest(FreeIn(0 .. PROC_START - 1) \ taken)

\* physical_page_alloc() for a set of free pages at a time.
Alloc(pns, pid) ==
    /\ owner' = [pn \in Pages |-> IF pn \in pns THEN pid ELSE owner[pn]]
    /\ refcount' = [pn \in Pages |-> IF pn \in pns THEN 1 ELSE refcount[pn]]

Allocatable(pn) == pn # NoPage /\ refcount[pn] = 0

\* Slips in sys_exit(): the references of other processes' pages are kept;
\* the pages of pid keep their count.
ReleasePagesKeepingShares(pid) ==
    /\ owner' = [pn \in Pages |-> IF owner[pn] = pid THEN PO_FREE ELSE owner[pn]]
    /\ refcount' = [pn \in Pages |-> IF owner[pn] = pid THEN 0 ELSE refcount[pn]]

ReleasePagesKeepingCounts(pid) ==
    /\ owner' = [pn \in Pages |-> IF owner[pn] = pid THEN PO_FREE ELSE owner[pn]]
    /\ UNCHANGED refcount

\* The loop of sys_exit() over pageinfo: pages of pid become free, and every
\* other page of a process with more than one reference loses one.
ReleasePages(pid) ==
    /\ owner' = [pn \in Pages |-> IF owner[pn] = pid THEN PO_FREE ELSE owner[pn]]
    /\ refcount' = [pn \in Pages |->
          CASE owner[pn] = pid -> 0
            [] owner[pn] # pid /\ owner[pn] > 0 /\ refcount[pn] > 1 -> refcount[pn] - 1
            [] OTHER -> refcount[pn]]

\* sys_exit(): the slot is free; what its fields hold is never read again.
SysExit(pid) ==
    /\ ReleasePages(pid)
    /\ p_state' = [p_state EXCEPT ![pid] = "P_FREE"]
    /\ l1' = [l1 EXCEPT ![pid] = NoPage]
    /\ l2' = [l2 EXCEPT ![pid] = NoPage]
    /\ vm' = [vm EXCEPT ![pid] = NoMappings]

-----------------------------------------------------------------------------
(* Scheduling *)

\* schedule(): the first runnable process after pid, wrapping around to pid.
Runnable(states) == {p \in Pids : states[p] = "P_RUNNABLE"}
Distance(pid, p) == IF p > pid THEN p - pid ELSE p - pid + NPROC

\* A slip in schedule(): the search starts at slot 0 each time.
NextAfterZero(pid, states) == Min(Runnable(states))

NextAfter(pid, states) ==
    CHOOSE p \in Runnable(states) :
        \A r \in Runnable(states) : Distance(pid, p) <= Distance(pid, r)

Schedule(states) ==
    IF Runnable(states) = {}
    THEN mode' = "spin" /\ UNCHANGED current
    ELSE mode' = "user" /\ current' = NextAfter(current, states)

-----------------------------------------------------------------------------
(* kernel(): set up the first processes, then run process 1. *)

\* program_load(): the segments of program number pid, in pages of their own address.
program_load(pid) ==
    [NoMappings EXCEPT ![CodePage(pid)] = Map(CodePage(pid), "ro"),
                       ![DataPage(pid)] = Map(DataPage(pid), "rw")]

ProcessSetup ==
    /\ mode = "boot"
    /\ LET pid == current
           t1 == find_free_page_table({})
           t2 == find_free_page_table({t1})
           image == {CodePage(pid), DataPage(pid)}
           stack == Lowest(FreeIn(Pages) \ ({t1, t2} \cup image))
       IN  /\ Alloc({t1, t2, stack} \cup image, pid)
           /\ l1' = [l1 EXCEPT ![pid] = t1]
           /\ l2' = [l2 EXCEPT ![pid] = t2]
           /\ vm' = [vm EXCEPT ![pid] = [program_load(pid) EXCEPT ![StackPage] = Map(stack, "rw")]]
           /\ p_state' = [p_state EXCEPT ![pid] = "P_RUNNABLE"]
    /\ IF current = NBoot
       THEN mode' = "user" /\ current' = 1
       ELSE current' = current + 1 /\ UNCHANGED mode
    /\ UNCHANGED <<eax, forking>>

-----------------------------------------------------------------------------
(* exception(): what a trap of the current process or the timer does. *)

Active == {p \in Pids : p_state[p] # "P_FREE"}
TablesOf(p) == {l1[p], l2[p]}

\* What virtual_memory_check() asserts at every trap, before it is handled.
virtual_memory_check ==
    /\ p_state[0] = "P_FREE"
    /\ owner[KernelPage] = PO_KERNEL /\ refcount[KernelPage] = 1
    /\ \A p \in Active : \A pn \in TablesOf(p) :
          pn # NoPage /\ owner[pn] = p /\ refcount[pn] = 1
    /\ \A pn \in Pages : refcount[pn] > 0 /\ owner[pn] >= 0 => owner[pn] \in Active

\* The registers that a trap saves in the descriptor of the current process.
Trap == \E e \in TrapEax : eax' = [eax EXCEPT ![current] = e]

\* INT_TIMER and INT_SYS_YIELD.
Timer ==
    /\ mode = "user"
    /\ Trap
    /\ Schedule(p_state)
    /\ UNCHANGED <<p_state, l1, l2, vm, pageinfo, forking>>

\* INT_SYS_GETPID.
GetPid ==
    /\ mode = "user"
    /\ eax' = [eax EXCEPT ![current] = current]
    /\ UNCHANGED <<mode, current, p_state, l1, l2, vm, pageinfo, forking>>

\* INT_SYS_PAGE_ALLOC at the top of the heap, as the programs use it.
PageAlloc ==
    /\ mode = "user"
    /\ \E va \in HeapPages :
          /\ vm[current][va] = Unmapped
          /\ \A below \in HeapPages : below < va => vm[current][below] # Unmapped
          /\ LET pn == find_free_page
             IN  IF Allocatable(pn)
                 THEN /\ Alloc({pn}, current)
                      /\ vm' = [vm EXCEPT ![current][va] = Map(pn, "rw")]
                      /\ eax' = [eax EXCEPT ![current] = 0]
                 ELSE /\ eax' = [eax EXCEPT ![current] = -1]
                      /\ UNCHANGED <<vm, pageinfo>>
    /\ UNCHANGED <<mode, current, p_state, l1, l2, forking>>

\* INT_SYS_EXIT.
Exit ==
    /\ mode = "user"
    /\ Trap
    /\ SysExit(current)
    /\ Schedule(p_state')
    /\ UNCHANGED forking

\* INT_PAGEFAULT of a process.
PageFault ==
    /\ mode = "user"
    /\ Trap
    /\ p_state' = [p_state EXCEPT ![current] = "P_BROKEN"]
    /\ Schedule(p_state')
    /\ UNCHANGED <<l1, l2, vm, pageinfo, forking>>

FreeSlots == {p \in Pids \ {0} : p_state[p] = "P_FREE"}

\* fork() finds no slot: %eax keeps what it held at the trap.
ForkNoSlot ==
    /\ mode = "user"
    /\ FreeSlots = {}
    /\ Trap
    /\ UNCHANGED <<mode, current, p_state, l1, l2, vm, pageinfo, forking>>

\* fork() takes the first free slot and copy_pagetable() finds two pages.
ForkStart ==
    /\ mode = "user"
    /\ FreeSlots # {}
    /\ LET child == Min(FreeSlots)
           t1 == find_free_page_table({})
           t2 == find_free_page_table({t1})
       IN  /\ Allocatable(t1) /\ Allocatable(t2)
           /\ Alloc({t1, t2}, child)
           /\ p_state' = [p_state EXCEPT ![child] = "P_RUNNABLE"]
           /\ l1' = [l1 EXCEPT ![child] = t1]
           /\ l2' = [l2 EXCEPT ![child] = t2]
           /\ vm' = [vm EXCEPT ![child] = NoMappings]
           /\ forking' = [child |-> child, va |-> PROC_START]
    /\ mode' = "fork"
    /\ Trap
    /\ UNCHANGED current

\* A slip in fork(): the page table that was found is not given back.
ForkNoTablesForgetting ==
    /\ mode = "user"
    /\ FreeSlots # {}
    /\ LET t1 == find_free_page_table({})
           t2 == find_free_page_table({t1})
       IN  /\ ~(Allocatable(t1) /\ Allocatable(t2))
           /\ Alloc({t1} \ {NoPage}, Min(FreeSlots))
    /\ eax' = [eax EXCEPT ![current] = -1]
    /\ UNCHANGED <<mode, current, p_state, l1, l2, vm, forking>>

\* copy_pagetable() fails; sys_exit() takes back its first page, if it got one.
ForkNoTables ==
    /\ mode = "user"
    /\ FreeSlots # {}
    /\ LET t1 == find_free_page_table({})
           t2 == find_free_page_table({t1})
       IN  ~(Allocatable(t1) /\ Allocatable(t2))
    /\ SysExit(Min(FreeSlots))
    /\ eax' = [eax EXCEPT ![current] = -1]
    /\ UNCHANGED <<mode, current, forking>>

ParentPage == vm[current][forking.va]

NextPage == forking' = [forking EXCEPT !.va = @ + 1]

\* A slip in fork(): a writable page is shared as a read-only one is.
ForkCopyNothing ==
    /\ mode = "fork" /\ forking.va \in VPages
    /\ ParentPage.perm = "rw"
    /\ refcount' = [refcount EXCEPT ![ParentPage.pn] = @ + 1]
    /\ vm' = [vm EXCEPT ![forking.child][forking.va] = ParentPage]
    /\ NextPage
    /\ UNCHANGED <<mode, current, p_state, l1, l2, eax, owner>>

\* The loop of fork(): a writable page of the parent is copied.
ForkCopy ==
    /\ mode = "fork" /\ forking.va \in VPages
    /\ ParentPage.perm = "rw"
    /\ Allocatable(find_free_page)
    /\ Alloc({find_free_page}, forking.child)
    /\ vm' = [vm EXCEPT ![forking.child][forking.va] = Map(find_free_page, "rw")]
    /\ NextPage
    /\ UNCHANGED <<mode, current, p_state, l1, l2, eax>>

\* A slip in fork(): the child's slot is freed without its pages.
ForkAbortForgetting ==
    /\ mode = "fork" /\ forking.va \in VPages
    /\ ParentPage.perm = "rw"
    /\ ~Allocatable(find_free_page)
    /\ p_state' = [p_state EXCEPT ![forking.child] = "P_FREE"]
    /\ eax' = [eax EXCEPT ![current] = -1]
    /\ mode' = "user"
    /\ forking' = NotForking
    /\ UNCHANGED <<current, l1, l2, vm, pageinfo>>

\* No page for the copy: the child is taken apart again.
ForkAbort ==
    /\ mode = "fork" /\ forking.va \in VPages
    /\ ParentPage.perm = "rw"
    /\ ~Allocatable(find_free_page)
    /\ SysExit(forking.child)
    /\ eax' = [eax EXCEPT ![current] = -1]
    /\ mode' = "user"
    /\ forking' = NotForking
    /\ UNCHANGED current

\* A slip in fork(): the shared page is mapped writable.
ForkShareWritable ==
    /\ mode = "fork" /\ forking.va \in VPages
    /\ ParentPage.perm = "ro"
    /\ refcount' = [refcount EXCEPT ![ParentPage.pn] = @ + 1]
    /\ vm' = [vm EXCEPT ![forking.child][forking.va] = Map(ParentPage.pn, "rw")]
    /\ NextPage
    /\ UNCHANGED <<mode, current, p_state, l1, l2, eax, owner>>

\* A read-only page is shared, if a process still owns it.
ForkShare ==
    /\ mode = "fork" /\ forking.va \in VPages
    /\ ParentPage.perm = "ro"
    /\ IF refcount[ParentPage.pn] > 0 /\ owner[ParentPage.pn] > 0
       THEN /\ refcount' = [refcount EXCEPT ![ParentPage.pn] = @ + 1]
            /\ vm' = [vm EXCEPT ![forking.child][forking.va] = ParentPage]
       ELSE UNCHANGED <<refcount, vm>>
    /\ NextPage
    /\ UNCHANGED <<mode, current, p_state, l1, l2, eax, owner>>

ForkSkip ==
    /\ mode = "fork" /\ forking.va \in VPages
    /\ ParentPage.perm = "none"
    /\ NextPage
    /\ UNCHANGED <<mode, current, procs, pageinfo>>

\* The end of fork(): both processes get their results.
ForkDone ==
    /\ mode = "fork" /\ forking.va = NVPAGES
    /\ eax' = [eax EXCEPT ![forking.child] = 0, ![current] = forking.child]
    /\ mode' = "user"
    /\ forking' = NotForking
    /\ UNCHANGED <<current, p_state, l1, l2, vm, pageinfo>>

\* schedule() with nothing to run spins for ever.
Spin == mode = "spin" /\ UNCHANGED vars

Fork == ForkStart \/ ForkNoTables \/ ForkNoSlot
ForkLoop == ForkCopy \/ ForkAbort \/ ForkShare \/ ForkSkip \/ ForkDone
SystemCall == GetPid \/ PageAlloc \/ Exit \/ Fork

Next == \/ ProcessSetup
        \/ Timer \/ SystemCall \/ PageFault
        \/ ForkLoop
        \/ Spin

Spec == Init /\ [][Next]_vars

(***************************************************************************)
(* The kernel does not stop in the middle of its work.  A timer interrupt  *)
(* that arrives while the kernel runs is pending and is taken when the     *)
(* kernel returns to a process, so a process that makes one system call    *)
(* after the other does not keep the timer away: strong fairness.          *)
(***************************************************************************)
FairSpec == Spec /\ WF_vars(ProcessSetup) /\ WF_vars(ForkLoop) /\ SF_vars(Timer)
-----------------------------------------------------------------------------
(* Properties *)

MappedBy(p) == {vm[p][va].pn : va \in VPages} \ {NoPage}
Writable(p) == {va \in VPages : vm[p][va].perm = "rw"}

(* TypeOK: kernel.c keeps its state in range: in particular owner is a     *)
(* process, PO_FREE, PO_RESERVED or PO_KERNEL, and no refcount is          *)
(* negative or counts more processes than there are.                       *)
Mappings == {Unmapped} \cup [pn : Pages, perm : {"ro", "rw"}]

TypeOK ==
    /\ mode \in {"boot", "user", "fork", "spin"}
    /\ current \in Pids \ {0}
    /\ p_state \in [Pids -> {"P_FREE", "P_RUNNABLE", "P_BROKEN"}]
    /\ l1 \in [Pids -> Pages \cup {NoPage}]
    /\ l2 \in [Pids -> Pages \cup {NoPage}]
    /\ vm \in [Pids -> [VPages -> Mappings]]
    /\ eax \in [Pids -> Int]
    /\ owner \in [Pages -> Pids \cup {PO_RESERVED, PO_KERNEL}]
    /\ refcount \in [Pages -> 0 .. NPROC - 1]
    /\ forking \in [child : Pids, va : VPages \cup {NVPAGES}]

(* VirtualMemoryCheck: the assertions that exception() evaluates whenever a *)
(* process traps never panic: slot 0 is unused, page tables belong to their *)
(* process with one reference, and a page in use belongs to an active one. *)
VirtualMemoryCheck == mode = "user" => virtual_memory_check

(* AllocatorAgrees: find_free_page() looks for an owner PO_FREE while      *)
(* physical_page_alloc() tests the refcount; the two always agree, or a    *)
(* free page could never be allocated and memory would seem exhausted.     *)
AllocatorAgrees ==
    \A pn \in Pages : owner[pn] = PO_FREE <=> refcount[pn] = 0

(* WritersOwn: a page that a process can write belongs to it, is writable  *)
(* at one address only and is no page table: forks, exits and the reuse of *)
(* freed pages never make two writers.                                     *)
WritersOwn ==
    \A p \in Active : \A va \in Writable(p) :
        /\ owner[vm[p][va].pn] = p
        /\ vm[p][va].pn \notin TablesOf(p)
        /\ \A other \in Writable(p) \ {va} : vm[p][other].pn # vm[p][va].pn

(* NoPageLeak: every page charged to a process is one of its page tables   *)
(* or mapped by it, also after a fork() that ran out of memory half-way.   *)
NoPageLeak ==
    \A pn \in Pages : owner[pn] > 0 => pn \in TablesOf(owner[pn]) \cup MappedBy(owner[pn])

(* RefcountNotHigh: a page that some process uses never counts more        *)
(* references than there are processes that use it.                        *)
RefcountNotHigh ==
    \A pn \in Pages :
        owner[pn] > 0 =>
            refcount[pn] <= Cardinality({p \in Active : pn \in MappedBy(p) \cup TablesOf(p)})

(* ForkCopies: when fork() succeeds the child can write exactly what the   *)
(* parent can, in pages of its own, and reads no page that the parent does *)
(* not; the parent gets the child's pid and the child gets 0.              *)
ForkCopies ==
    [][ForkDone =>
        LET child == forking.child IN
        /\ Writable(child) = Writable(current)
        /\ \A va \in Writable(child) : owner[vm[child][va].pn] = child
        /\ \A va \in VPages : vm[child][va].perm = "ro" => vm[child][va] = vm[current][va]
        /\ eax'[current] = child /\ eax'[child] = 0 /\ child # current]_vars

(* EveryoneRuns: schedule() is round-robin and the timer keeps ticking, so *)
(* a runnable process gets the processor, whatever the others call.        *)
EveryoneRuns ==
    \A p \in Pids :
        (mode = "user" /\ p_state[p] = "P_RUNNABLE") ~>
            (mode = "user" /\ current = p) \/ p_state[p] # "P_RUNNABLE"

(* RefcountIsReferences: what the comment before pageinfo (kernel.c) says: *)
(* pageinfo[pn].refcount is the number of times page pn is referenced.     *)
RefcountIsReferences ==
    mode = "user" =>
        \A pn \in Pages \ {ReservedPage, KernelPage} :
            refcount[pn] = Cardinality({p \in Active : pn \in MappedBy(p) \cup TablesOf(p)})
=============================================================================

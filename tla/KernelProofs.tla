---------------------------- MODULE KernelProofs ----------------------------
(***************************************************************************)
(* The safety of the WeensyOS kernel for any number of processes, pages    *)
(* and programs: memory isolation, no leak, the assertions of              *)
(* virtual_memory_check(), and what a successful fork() returns.           *)
(***************************************************************************)
EXTENDS Kernel, FiniteSetTheorems, WellFoundedInduction, TLAPS

(***************************************************************************)
(* The inductive invariant.  Memory says how pageinfo[], page tables and   *)
(* process descriptors fit together, whatever the kernel is doing; Control *)
(* says how far boot and fork() have come.                                 *)
(***************************************************************************)
StateTyped ==
    /\ mode \in {"boot", "user", "fork", "spin"}
    /\ current \in Pids \ {0}
    /\ p_state \in [Pids -> {"P_FREE", "P_RUNNABLE", "P_BROKEN"}]
    /\ l1 \in [Pids -> Pages \cup {NoPage}]
    /\ l2 \in [Pids -> Pages \cup {NoPage}]
    /\ vm \in [Pids -> [VPages -> Mappings]]
    /\ eax \in [Pids -> Int]
    /\ owner \in [Pages -> Pids \cup {PO_RESERVED, PO_KERNEL}]
    /\ refcount \in [Pages -> Nat]
    /\ forking \in [child : Pids, va : VPages \cup {NVPAGES}]

KernelPages ==
    /\ p_state[0] = "P_FREE"
    /\ owner[KernelPage] = PO_KERNEL
    /\ \A pn \in Pages : owner[pn] < 0 => refcount[pn] = 1

OwnersActive == \A pn \in Pages : owner[pn] > 0 => owner[pn] \in Active

FreeSlotsClean ==
    \A p \in Pids \ Active : l1[p] = NoPage /\ l2[p] = NoPage /\ vm[p] = NoMappings

\* Page tables lie below PROC_START, out of the way of shared pages.
TablesOwned ==
    \A p \in Active :
        /\ l1[p] \in 0 .. PROC_START - 1 /\ l2[p] \in 0 .. PROC_START - 1
        /\ owner[l1[p]] = p /\ owner[l2[p]] = p
        /\ refcount[l1[p]] = 1 /\ refcount[l2[p]] = 1

\* A read-only page is where the loader put it, in every process.
ReadOnlyInPlace ==
    \A p \in Pids : \A va \in VPages : vm[p][va].perm = "ro" => vm[p][va].pn = va

(***************************************************************************)
(* refcount counts the owner and some of the processes that can read the   *)
(* page besides; sys_exit() may take away a reference too many, never too  *)
(* few.                                                                    *)
(***************************************************************************)
Readers(pn) == {p \in Pids : pn \in VPages /\ vm[p][pn].perm = "ro"}

ReferencesBounded ==
    \A pn \in Pages :
        owner[pn] > 0 => refcount[pn] <= Cardinality(Readers(pn) \ {owner[pn]}) + 1

Memory ==
    /\ AllocatorAgrees /\ KernelPages /\ OwnersActive
    /\ FreeSlotsClean /\ TablesOwned /\ ReadOnlyInPlace
    /\ WritersOwn /\ NoPageLeak /\ ReferencesBounded

\* Before process current is set up exactly the pages of its predecessors
\* (three below PROC_START each, after the kernel's, and an image) are taken.
Booting ==
    mode = "boot" =>
        /\ current <= NBoot
        /\ \A p \in Pids :
              p_state[p] = IF p \in 1 .. current - 1 THEN "P_RUNNABLE" ELSE "P_FREE"
        /\ \A pn \in Pages :
              owner[pn] = PO_FREE <=>
                  \/ pn \in 3 * current - 1 .. PROC_START - 1
                  \/ pn >= CodePage(current)

Running == mode \in {"user", "fork"} => p_state[current] = "P_RUNNABLE"

\* Inside fork(): what the loop has done up to virtual page forking.va.
Forking ==
    mode = "fork" =>
        /\ forking.child \in Active \ {current}
        /\ \A va \in VPages : va >= forking.va => vm[forking.child][va] = Unmapped
        /\ \A va \in VPages : va < forking.va =>
              /\ vm[forking.child][va].perm = "rw" <=> vm[current][va].perm = "rw"
              /\ vm[forking.child][va].perm = "ro" => vm[forking.child][va] = vm[current][va]
        /\ \A pn \in Pages :
              pn >= forking.va /\ owner[pn] = forking.child => refcount[pn] = 1

Control == Booting /\ Running /\ Forking

IInv == StateTyped /\ Memory /\ Control

-----------------------------------------------------------------------------
(* Numbers and pages *)

(* MinExists: a set of numbers that is not empty has a smallest element    *)
(* (the intervals 0 .. x are well-ordered by strict inclusion).            *)
LEMMA MinExists ==
    ASSUME NEW S \in SUBSET Nat, S # {}
    PROVE  Min(S) \in S /\ \A y \in S : Min(S) <= y
  <1> DEFINE T == {0 .. x : x \in S}
             R == StrictSubsetOrdering(Nat)
  <1>1. T \subseteq FiniteSubsetsOf(Nat) /\ T # {}
    <2>1. ASSUME NEW x \in S PROVE 0 .. x \in FiniteSubsetsOf(Nat)
      BY FS_Interval DEF FiniteSubsetsOf
    <2> QED BY <2>1
  <1>2. IsWellFoundedOn(R, FiniteSubsetsOf(Nat))
    BY FS_StrictSubsetOrderingWellFounded
  <1>3. PICK I \in T : \A J \in T : ~ (<<J, I>> \in R)
    <2> HIDE DEF T, R
    <2> QED BY <1>1, <1>2, WFMin, Zenon
  <1>4. PICK m \in S : I = 0 .. m
    OBVIOUS
  <1>5. ASSUME NEW y \in S PROVE m <= y
    <2>1. 0 .. y \in T /\ 0 .. y \in SUBSET Nat /\ 0 .. m \in SUBSET Nat
      OBVIOUS
    <2>2. ~ (0 .. y \subseteq 0 .. m /\ 0 .. y # 0 .. m)
      BY <1>3, <1>4, <2>1 DEF StrictSubsetOrdering
    <2>3. CASE y < m
      <3>1. 0 .. y \subseteq 0 .. m /\ m \in 0 .. m /\ m \notin 0 .. y
        BY <2>3
      <3> QED BY <2>2, <3>1
    <2> QED BY <2>3
  <1>6. \E x \in S : \A y \in S : x <= y
    BY <1>5
  <1> QED BY <1>6, Zenon DEF Min

(* MinValue: the smallest element, if it is known.                         *)
LEMMA MinValue ==
    ASSUME NEW S \in SUBSET Nat, NEW m \in S, \A y \in S : m <= y
    PROVE  Min(S) = m
  <1>1. Min(S) \in S /\ \A y \in S : Min(S) <= y
    BY MinExists
  <1>2. Min(S) \in Nat /\ m \in Nat
    BY <1>1
  <1>3. Min(S) <= m /\ m <= Min(S)
    BY <1>1
  <1> HIDE DEF Min
  <1> QED BY <1>2, <1>3

(* KernelFacts: what the constants say of pages and slots.                 *)
LEMMA KernelFacts ==
    /\ Pids \subseteq Nat /\ Pages \subseteq Nat /\ VPages \subseteq Nat
    /\ 0 \in Pids /\ 1 \in Pids /\ NPROC \in Nat /\ NPROC > 1
    /\ 0 .. PROC_START - 1 \subseteq Pages
    /\ PROC_START \in Nat /\ PROC_START > 1 /\ NVPAGES \in Nat
    /\ ReservedPage \in Pages /\ KernelPage \in Pages
    /\ \A va \in VPages : va >= PROC_START /\ va < NVPAGES
    /\ IsFiniteSet(Pids) /\ Cardinality(Pids) = NPROC
    /\ TrapEax \subseteq Int
  <1> USE KernelAssumption DEF Pids, Pages, VPages, ReservedPage, KernelPage
  <1>1. IsFiniteSet(Pids) /\ Cardinality(Pids) = NPROC
    BY FS_Interval
  <1> QED BY <1>1

(* FreeFound: a page that find_free_page() or find_free_page_table()       *)
(* returns, other than -1, is free and lies in the range that was searched.*)
LEMMA FreeFound ==
    ASSUME NEW S \in SUBSET Nat, Lowest(FreeIn(S)) # NoPage
    PROVE  Lowest(FreeIn(S)) \in S /\ owner[Lowest(FreeIn(S))] = PO_FREE
  <1>1. FreeIn(S) \in SUBSET Nat /\ FreeIn(S) # {}
    BY DEF FreeIn, Lowest
  <1>2. Lowest(FreeIn(S)) \in FreeIn(S)
    BY <1>1, MinExists DEF Lowest
  <1> QED BY <1>2 DEF FreeIn

(* TablesFound: the two pages of a page table are free, and differ.        *)
LEMMA TablesFound ==
    ASSUME NEW t1, NEW t2,
           t1 = find_free_page_table({}), t2 = find_free_page_table({t1}),
           t1 # NoPage, t2 # NoPage
    PROVE  /\ {t1, t2} \subseteq 0 .. PROC_START - 1
           /\ owner[t1] = PO_FREE /\ owner[t2] = PO_FREE /\ t1 # t2
  <1> DEFINE Low == 0 .. PROC_START - 1
  <1>1. /\ FreeIn(Low) \ {} \in SUBSET Nat /\ FreeIn(Low) \ {} # {}
        /\ FreeIn(Low) \ {t1} \in SUBSET Nat /\ FreeIn(Low) \ {t1} # {}
    BY DEF find_free_page_table, Lowest, FreeIn
  <1>2. t1 \in FreeIn(Low) \ {} /\ t2 \in FreeIn(Low) \ {t1}
    BY <1>1, MinExists DEF find_free_page_table, Lowest
  <1> QED BY <1>2 DEF FreeIn

(* ReadersCount: readers of a page can be counted.                         *)
LEMMA ReadersCount ==
    ASSUME NEW pn, NEW p
    PROVE  /\ IsFiniteSet(Readers(pn) \ {p})
           /\ Cardinality(Readers(pn) \ {p}) \in Nat
  BY KernelFacts, FS_Subset, FS_CardinalityType DEF Readers

(* OneLess, OneMore: how far one element moves a count.                    *)
LEMMA OneLess ==
    ASSUME NEW S, IsFiniteSet(S), NEW x
    PROVE  Cardinality(S \ {x}) \in Nat /\ Cardinality(S \ {x}) >= Cardinality(S) - 1
  <1>1. Cardinality(S) \in Nat /\ Cardinality(S \ {x}) \in Nat
    BY FS_RemoveElement, FS_CardinalityType
  <1>2. CASE x \in S
    BY <1>1, <1>2, FS_RemoveElement
  <1>3. CASE x \notin S
    <2>1. S \ {x} = S
      BY <1>3
    <2> QED BY <1>1, <2>1
  <1> QED BY <1>2, <1>3

LEMMA OneMore ==
    ASSUME NEW S, IsFiniteSet(S), NEW x, x \notin S
    PROVE  Cardinality(S \cup {x}) = Cardinality(S) + 1
  BY FS_AddElement

(* NextAfterRuns: schedule() runs a runnable process, if there is one.     *)
LEMMA NextAfterRuns ==
    ASSUME NEW pid \in Pids, NEW states, Runnable(states) # {}
    PROVE  NextAfter(pid, states) \in Runnable(states)
  <1> DEFINE D == {Distance(pid, p) : p \in Runnable(states)}
  <1>1. \A p \in Pids : Distance(pid, p) \in Nat
    BY KernelFacts, KernelAssumption DEF Distance, Pids
  <1>2. D \in SUBSET Nat /\ D # {}
    BY <1>1 DEF Runnable
  <1>3. Min(D) \in D /\ \A d \in D : Min(D) <= d
    <2> HIDE DEF D
    <2> QED BY <1>2, MinExists
  <1>4. \E p \in Runnable(states) :
            \A r \in Runnable(states) : Distance(pid, p) <= Distance(pid, r)
    BY <1>3
  <1> QED BY <1>4, Zenon DEF NextAfter

(* ScheduleEffect: after schedule() the current process is runnable.       *)
LEMMA ScheduleEffect ==
    ASSUME StateTyped, NEW states, states[0] = "P_FREE", Schedule(states)
    PROVE  /\ mode' \in {"user", "spin"}
           /\ current' \in Pids \ {0}
           /\ mode' = "user" => states[current'] = "P_RUNNABLE"
  <1>1. CASE Runnable(states) = {}
    BY <1>1 DEF Schedule, StateTyped
  <1>2. CASE Runnable(states) # {}
    BY <1>2, NextAfterRuns DEF Schedule, StateTyped, Runnable
  <1> QED BY <1>1, <1>2

-----------------------------------------------------------------------------
(* What the steps do to memory *)

(* MemoryKept: a step that touches no page, no table and frees or takes no *)
(* slot keeps the invariant of memory.                                     *)
LEMMA MemoryKept ==
    ASSUME StateTyped, Memory, Active' = Active, p_state'[0] = "P_FREE",
           UNCHANGED <<l1, l2, vm, owner, refcount>>
    PROVE  Memory'
  <1> USE DEF Memory
  <1>1. AllocatorAgrees' /\ KernelPages' /\ OwnersActive'
    BY DEF AllocatorAgrees, KernelPages, OwnersActive
  <1>2. FreeSlotsClean' /\ TablesOwned' /\ ReadOnlyInPlace'
    BY DEF FreeSlotsClean, TablesOwned, ReadOnlyInPlace
  <1>3. WritersOwn' /\ NoPageLeak'
    BY DEF WritersOwn, NoPageLeak, Writable, TablesOf, MappedBy
  <1>4. ReferencesBounded'
    BY DEF ReferencesBounded, Readers
  <1> QED BY <1>1, <1>2, <1>3, <1>4

(* ReleaseEffect: page by page, what sys_exit() does to pageinfo.          *)
LEMMA ReleaseEffect ==
    ASSUME StateTyped, NEW pid \in Pids \ {0}, ReleasePages(pid), NEW pn \in Pages
    PROVE  /\ owner[pn] = pid => owner'[pn] = PO_FREE /\ refcount'[pn] = 0
           /\ owner[pn] # pid => owner'[pn] = owner[pn]
           /\ owner[pn] # pid /\ owner[pn] > 0 /\ refcount[pn] > 1
                => refcount'[pn] = refcount[pn] - 1
           /\ owner[pn] # pid /\ ~ (owner[pn] > 0 /\ refcount[pn] > 1)
                => refcount'[pn] = refcount[pn]
           /\ owner'[pn] \in Pids \cup {PO_RESERVED, PO_KERNEL} /\ owner[pn] \in Int
           /\ refcount'[pn] \in Nat /\ refcount[pn] \in Nat
  BY KernelFacts DEF ReleasePages, StateTyped, PO_FREE, PO_RESERVED, PO_KERNEL

(* ExitTyped: sys_exit() keeps the types of what it touches.               *)
LEMMA ExitTyped ==
    ASSUME StateTyped, NEW pid \in Pids \ {0}, SysExit(pid)
    PROVE  /\ p_state' \in [Pids -> {"P_FREE", "P_RUNNABLE", "P_BROKEN"}]
           /\ l1' \in [Pids -> Pages \cup {NoPage}]
           /\ l2' \in [Pids -> Pages \cup {NoPage}]
           /\ vm' \in [Pids -> [VPages -> Mappings]]
           /\ owner' \in [Pages -> Pids \cup {PO_RESERVED, PO_KERNEL}]
           /\ refcount' \in [Pages -> Nat]
  <1> USE DEF SysExit, StateTyped
  <1>1. /\ p_state' \in [Pids -> {"P_FREE", "P_RUNNABLE", "P_BROKEN"}]
        /\ l1' \in [Pids -> Pages \cup {NoPage}]
        /\ l2' \in [Pids -> Pages \cup {NoPage}]
    OBVIOUS
  <1>2. vm' \in [Pids -> [VPages -> Mappings]]
    <2>1. NoMappings \in [VPages -> Mappings]
      BY DEF NoMappings, Mappings
    <2> QED BY <2>1
  <1>3. /\ owner' = [pn \in Pages |-> owner'[pn]]
        /\ refcount' = [pn \in Pages |-> refcount'[pn]]
    BY DEF ReleasePages
  <1>4. \A pn \in Pages : /\ owner'[pn] \in Pids \cup {PO_RESERVED, PO_KERNEL}
                         /\ refcount'[pn] \in Nat
    BY ReleaseEffect
  <1> QED BY <1>1, <1>2, <1>3, <1>4

(* ExitMemory: sys_exit() of a slot, whatever stage its process is at,     *)
(* keeps the invariant of memory.                                          *)
LEMMA ExitMemory ==
    ASSUME StateTyped, Memory, NEW pid \in Pids \ {0}, SysExit(pid)
    PROVE  Memory'
  <1> USE KernelFacts DEF Memory
  <1>0. ReleasePages(pid)
    BY DEF SysExit
  <1>a. /\ Active' = Active \ {pid}
        /\ \A p \in Pids \ {pid} : l1'[p] = l1[p] /\ l2'[p] = l2[p] /\ vm'[p] = vm[p]
        /\ l1'[pid] = NoPage /\ l2'[pid] = NoPage /\ vm'[pid] = NoMappings
    BY DEF SysExit, StateTyped, Active
  <1>1. AllocatorAgrees'
    BY <1>0, ReleaseEffect DEF AllocatorAgrees, PO_FREE
  <1>2. KernelPages'
    BY <1>0, ReleaseEffect DEF KernelPages, SysExit, StateTyped, PO_KERNEL, PO_FREE
  <1>3. OwnersActive'
    BY <1>0, <1>a, ReleaseEffect DEF OwnersActive, PO_FREE
  <1>4. FreeSlotsClean'
    BY <1>a DEF FreeSlotsClean
  <1>5. TablesOwned'
    <2> SUFFICES ASSUME NEW p \in Active'
                 PROVE  /\ l1'[p] \in 0 .. PROC_START - 1 /\ l2'[p] \in 0 .. PROC_START - 1
                        /\ owner'[l1'[p]] = p /\ owner'[l2'[p]] = p
                        /\ refcount'[l1'[p]] = 1 /\ refcount'[l2'[p]] = 1
      BY Zenon DEF TablesOwned
    <2>1. p \in Active \ {pid} /\ p \in Pids \ {pid} /\ l1'[p] = l1[p] /\ l2'[p] = l2[p]
      BY <1>a DEF Active
    <2>2. /\ l1[p] \in 0 .. PROC_START - 1 /\ l2[p] \in 0 .. PROC_START - 1
          /\ owner[l1[p]] = p /\ owner[l2[p]] = p
          /\ refcount[l1[p]] = 1 /\ refcount[l2[p]] = 1
      BY <2>1 DEF TablesOwned
    <2>3. l1[p] \in Pages /\ l2[p] \in Pages
      BY <2>2
    <2> QED BY <1>0, <2>1, <2>2, <2>3, ReleaseEffect
  <1>6. ReadOnlyInPlace'
    <2> SUFFICES ASSUME NEW p \in Pids, NEW va \in VPages, vm'[p][va].perm = "ro"
                 PROVE  vm'[p][va].pn = va
      BY Zenon DEF ReadOnlyInPlace
    <2>1. vm'[pid][va].perm = "none"
      BY <1>a DEF NoMappings, Unmapped
    <2>2. p \in Pids \ {pid}
      BY <2>1
    <2>3. vm'[p] = vm[p]
      BY <1>a, <2>2
    <2> QED BY <2>3 DEF ReadOnlyInPlace
  <1>7. WritersOwn'
    <2> SUFFICES ASSUME NEW p \in Active', NEW va \in Writable(p)'
                 PROVE  /\ owner'[vm'[p][va].pn] = p
                        /\ vm'[p][va].pn \notin {l1'[p], l2'[p]}
                        /\ \A other \in Writable(p)' \ {va} : vm'[p][other].pn # vm'[p][va].pn
      BY Zenon DEF WritersOwn, TablesOf
    <2>1. /\ p \in Active \ {pid} /\ p \in Pids \ {pid}
          /\ vm'[p] = vm[p] /\ l1'[p] = l1[p] /\ l2'[p] = l2[p]
      BY <1>a DEF Active
    <2>2. Writable(p)' = Writable(p)
      BY <2>1 DEF Writable
    <2>3. /\ owner[vm[p][va].pn] = p
          /\ vm[p][va].pn \notin {l1[p], l2[p]}
          /\ \A other \in Writable(p) \ {va} : vm[p][other].pn # vm[p][va].pn
      BY <2>1, <2>2 DEF WritersOwn, TablesOf
    <2>4. vm[p][va].pn \in Pages
      BY <2>1, <2>2 DEF Writable, StateTyped, Mappings, Unmapped
    <2>5. owner'[vm[p][va].pn] = owner[vm[p][va].pn]
      BY <1>0, <2>1, <2>3, <2>4, ReleaseEffect
    <2> QED BY <2>1, <2>2, <2>3, <2>5
  <1>8. NoPageLeak'
    <2> SUFFICES ASSUME NEW pn \in Pages, owner'[pn] > 0
                 PROVE  pn \in {l1'[owner'[pn]], l2'[owner'[pn]]} \cup
                                ({vm'[owner'[pn]][va].pn : va \in VPages} \ {NoPage})
      BY Zenon DEF NoPageLeak, TablesOf, MappedBy
    <2>1. owner[pn] # pid /\ owner'[pn] = owner[pn]
      BY <1>0, ReleaseEffect DEF PO_FREE
    <2>2. owner[pn] \in Pids \ {pid}
      BY <2>1 DEF OwnersActive, Active
    <2>3. pn \in {l1[owner[pn]], l2[owner[pn]]} \cup
                   ({vm[owner[pn]][va].pn : va \in VPages} \ {NoPage})
      BY <2>1 DEF NoPageLeak, TablesOf, MappedBy
    <2>4. /\ l1'[owner[pn]] = l1[owner[pn]] /\ l2'[owner[pn]] = l2[owner[pn]]
          /\ vm'[owner[pn]] = vm[owner[pn]]
      BY <1>a, <2>2
    <2> QED BY <2>1, <2>3, <2>4
  <1>9. ReferencesBounded'
    <2> SUFFICES ASSUME NEW pn \in Pages, owner'[pn] > 0
                 PROVE  refcount'[pn] <= Cardinality(Readers(pn)' \ {owner'[pn]}) + 1
      BY Zenon DEF ReferencesBounded
    <2> DEFINE Old == Readers(pn) \ {owner[pn]}
               New == Readers(pn)' \ {owner'[pn]}
    <2>1. owner[pn] # pid /\ owner'[pn] = owner[pn]
      BY <1>0, ReleaseEffect DEF PO_FREE
    <2>2. New = Old \ {pid}
      <3>1. \A p \in Pids \ {pid} : vm'[p] = vm[p]
        BY <1>a
      <3>2. pn \in VPages => vm'[pid][pn].perm = "none"
        BY <1>a DEF NoMappings, Unmapped
      <3>3. \A p \in Pids : p \in Readers(pn)' <=> p \in Readers(pn) /\ p # pid
        BY <3>1, <3>2 DEF Readers
      <3>4. Readers(pn)' = Readers(pn) \ {pid}
        BY <3>3, Zenon DEF Readers
      <3> QED BY <3>4, <2>1
    <2>3. IsFiniteSet(Old) /\ Cardinality(Old) \in Nat
      BY ReadersCount
    <2>5. refcount[pn] <= Cardinality(Old) + 1
      BY <2>1 DEF ReferencesBounded
    <2> HIDE DEF Old, New
    <2>4. Cardinality(New) \in Nat /\ Cardinality(New) >= Cardinality(Old) - 1
      BY <2>2, <2>3, OneLess
    <2>6. refcount'[pn] <= Cardinality(New) + 1
      <3>1. refcount'[pn] <= refcount[pn] /\ refcount[pn] \in Nat /\ refcount'[pn] \in Nat
        BY <1>0, ReleaseEffect, <2>1
      <3>2. refcount[pn] > 1 => refcount'[pn] = refcount[pn] - 1
        BY <1>0, ReleaseEffect, <2>1
      <3> QED BY <3>1, <3>2, <2>3, <2>4, <2>5
    <2> QED BY <2>6 DEF New
  <1> QED BY <1>1, <1>2, <1>3, <1>4, <1>5, <1>6, <1>7, <1>8, <1>9

(* AllocEffect: page by page, what allocating a set of pages does.         *)
LEMMA AllocEffect ==
    ASSUME StateTyped, NEW pid \in Pids \ {0}, NEW S \in SUBSET Pages, Alloc(S, pid)
    PROVE  /\ \A pn \in S : owner'[pn] = pid /\ refcount'[pn] = 1
           /\ \A pn \in Pages \ S : owner'[pn] = owner[pn] /\ refcount'[pn] = refcount[pn]
           /\ owner' \in [Pages -> Pids \cup {PO_RESERVED, PO_KERNEL}]
           /\ refcount' \in [Pages -> Nat]
  BY DEF Alloc, StateTyped

\* What boot and fork() do to fill a free slot: page tables t1 and t2 and the
\* mappings m, all in the pages S that were free.
Install(pid, t1, t2, m, S) ==
    /\ pid \in Pids \ {0} /\ pid \notin Active
    /\ t1 \in 0 .. PROC_START - 1 /\ t2 \in 0 .. PROC_START - 1
    /\ m \in [VPages -> Mappings]
    /\ S \in SUBSET Pages /\ t1 \in S /\ t2 \in S
    /\ \A pn \in S : owner[pn] = PO_FREE
    /\ \A pn \in S \ {t1, t2} : \E va \in VPages : m[va].pn = pn
    /\ \A va \in VPages : m[va].perm = "ro" => m[va].pn = va
    /\ \A va \in VPages : m[va].perm = "rw" =>
          /\ m[va].pn \in S \ {t1, t2}
          /\ \A other \in VPages \ {va} :
                m[other].perm = "rw" => m[other].pn # m[va].pn
    /\ Alloc(S, pid)
    /\ p_state' = [p_state EXCEPT ![pid] = "P_RUNNABLE"]
    /\ l1' = [l1 EXCEPT ![pid] = t1] /\ l2' = [l2 EXCEPT ![pid] = t2]
    /\ vm' = [vm EXCEPT ![pid] = m]

(* InstallMemory: a free slot that gets its page tables and mappings, all  *)
(* in pages that were free, keeps the invariant of memory.                 *)
LEMMA InstallMemory ==
    ASSUME StateTyped, Memory,
           NEW pid, NEW t1, NEW t2, NEW m, NEW S, Install(pid, t1, t2, m, S)
    PROVE  Memory'
  <1>i. /\ pid \in Pids \ {0} /\ pid \notin Active
        /\ t1 \in 0 .. PROC_START - 1 /\ t2 \in 0 .. PROC_START - 1
        /\ m \in [VPages -> Mappings]
        /\ S \in SUBSET Pages /\ t1 \in S /\ t2 \in S
        /\ \A pn \in S : owner[pn] = PO_FREE
        /\ \A pn \in S \ {t1, t2} : \E va \in VPages : m[va].pn = pn
        /\ \A va \in VPages : m[va].perm = "ro" => m[va].pn = va
        /\ \A va \in VPages : m[va].perm = "rw" =>
              /\ m[va].pn \in S \ {t1, t2}
              /\ \A other \in VPages \ {va} :
                    m[other].perm = "rw" => m[other].pn # m[va].pn
        /\ Alloc(S, pid)
        /\ p_state' = [p_state EXCEPT ![pid] = "P_RUNNABLE"]
        /\ l1' = [l1 EXCEPT ![pid] = t1] /\ l2' = [l2 EXCEPT ![pid] = t2]
        /\ vm' = [vm EXCEPT ![pid] = m]
    BY DEF Install
  <1> USE <1>i, KernelFacts DEF Memory
  <1>a. /\ Active' = Active \cup {pid}
        /\ \A p \in Pids \ {pid} : l1'[p] = l1[p] /\ l2'[p] = l2[p] /\ vm'[p] = vm[p]
        /\ l1'[pid] = t1 /\ l2'[pid] = t2 /\ vm'[pid] = m
    BY DEF StateTyped, Active
  <1>b. /\ \A pn \in S : owner'[pn] = pid /\ refcount'[pn] = 1
        /\ \A pn \in Pages \ S : owner'[pn] = owner[pn] /\ refcount'[pn] = refcount[pn]
    BY AllocEffect
  <1>c. pid > 0 /\ pid \in Nat
    OBVIOUS
  <1>1. AllocatorAgrees'
    BY <1>b, <1>c DEF AllocatorAgrees, PO_FREE
  <1>2. KernelPages'
    BY <1>b, <1>c DEF KernelPages, StateTyped, PO_KERNEL, PO_FREE
  <1>3. OwnersActive'
    BY <1>a, <1>b DEF OwnersActive
  <1>4. FreeSlotsClean'
    BY <1>a DEF FreeSlotsClean
  <1>5. TablesOwned'
    <2> SUFFICES ASSUME NEW p \in Active'
                 PROVE  /\ l1'[p] \in 0 .. PROC_START - 1 /\ l2'[p] \in 0 .. PROC_START - 1
                        /\ owner'[l1'[p]] = p /\ owner'[l2'[p]] = p
                        /\ refcount'[l1'[p]] = 1 /\ refcount'[l2'[p]] = 1
      BY Zenon DEF TablesOwned
    <2>1. CASE p = pid
      BY <1>a, <1>b, <2>1
    <2>2. CASE p # pid
      <3>1. p \in Active /\ p \in Pids \ {pid, 0} /\ l1'[p] = l1[p] /\ l2'[p] = l2[p]
        BY <1>a, <2>2 DEF Active, KernelPages
      <3>2. /\ l1[p] \in 0 .. PROC_START - 1 /\ l2[p] \in 0 .. PROC_START - 1
            /\ owner[l1[p]] = p /\ owner[l2[p]] = p
            /\ refcount[l1[p]] = 1 /\ refcount[l2[p]] = 1
        BY <3>1 DEF TablesOwned
      <3>3. l1[p] \in Pages \ S /\ l2[p] \in Pages \ S
        BY <3>1, <3>2 DEF PO_FREE
      <3> QED BY <1>b, <3>1, <3>2, <3>3
    <2> QED BY <2>1, <2>2
  <1>6. ReadOnlyInPlace'
    <2> SUFFICES ASSUME NEW p \in Pids, NEW va \in VPages, vm'[p][va].perm = "ro"
                 PROVE  vm'[p][va].pn = va
      BY Zenon DEF ReadOnlyInPlace
    <2>1. vm'[p] = IF p = pid THEN m ELSE vm[p]
      BY <1>a
    <2> QED BY <2>1 DEF ReadOnlyInPlace
  <1>7. WritersOwn'
    <2> SUFFICES ASSUME NEW p \in Active', NEW va \in Writable(p)'
                 PROVE  /\ owner'[vm'[p][va].pn] = p
                        /\ vm'[p][va].pn \notin {l1'[p], l2'[p]}
                        /\ \A other \in Writable(p)' \ {va} : vm'[p][other].pn # vm'[p][va].pn
      BY Zenon DEF WritersOwn, TablesOf
    <2>1. CASE p = pid
      <3>1. Writable(p)' = {x \in VPages : m[x].perm = "rw"}
        BY <1>a, <2>1 DEF Writable
      <3>2. va \in VPages /\ m[va].perm = "rw"
        BY <3>1
      <3>3. /\ m[va].pn \in S \ {t1, t2}
            /\ \A other \in VPages \ {va} : m[other].perm = "rw" => m[other].pn # m[va].pn
        BY <3>2
      <3>4. owner'[m[va].pn] = pid
        BY <1>b, <3>3
      <3>5. vm'[p] = m /\ l1'[p] = t1 /\ l2'[p] = t2
        BY <1>a, <2>1
      <3> QED BY <2>1, <3>1, <3>3, <3>4, <3>5
    <2>2. CASE p # pid
      <3>1. /\ p \in Active /\ p \in Pids \ {pid, 0}
            /\ l1'[p] = l1[p] /\ l2'[p] = l2[p] /\ vm'[p] = vm[p]
        BY <1>a, <2>2 DEF Active, KernelPages
      <3>2. Writable(p)' = Writable(p)
        BY <3>1 DEF Writable
      <3>3. /\ owner[vm[p][va].pn] = p
            /\ vm[p][va].pn \notin {l1[p], l2[p]}
            /\ \A other \in Writable(p) \ {va} : vm[p][other].pn # vm[p][va].pn
        BY <3>1, <3>2 DEF WritersOwn, TablesOf
      <3>4. vm[p][va].pn \in Pages
        BY <3>1, <3>2 DEF Writable, StateTyped, Mappings, Unmapped
      <3>5. vm[p][va].pn \in Pages \ S
        BY <3>1, <3>3, <3>4 DEF PO_FREE
      <3> QED BY <1>b, <3>1, <3>2, <3>3, <3>5
    <2> QED BY <2>1, <2>2
  <1>8. NoPageLeak'
    <2> SUFFICES ASSUME NEW pn \in Pages, owner'[pn] > 0
                 PROVE  pn \in {l1'[owner'[pn]], l2'[owner'[pn]]} \cup
                                ({vm'[owner'[pn]][va].pn : va \in VPages} \ {NoPage})
      BY Zenon DEF NoPageLeak, TablesOf, MappedBy
    <2>1. CASE pn \in S
      <3>1. owner'[pn] = pid /\ pn # NoPage
        BY <1>b, <2>1 DEF NoPage
      <3> QED BY <1>a, <2>1, <3>1
    <2>2. CASE pn \notin S
      <3>1. owner'[pn] = owner[pn]
        BY <1>b, <2>2
      <3>2. owner[pn] \in Active /\ owner[pn] \in Pids \ {pid}
        BY <3>1 DEF OwnersActive, Active
      <3>3. pn \in {l1[owner[pn]], l2[owner[pn]]} \cup
                     ({vm[owner[pn]][va].pn : va \in VPages} \ {NoPage})
        BY <3>1 DEF NoPageLeak, TablesOf, MappedBy
      <3>4. /\ l1'[owner[pn]] = l1[owner[pn]] /\ l2'[owner[pn]] = l2[owner[pn]]
            /\ vm'[owner[pn]] = vm[owner[pn]]
        BY <1>a, <3>2
      <3> QED BY <3>1, <3>3, <3>4
    <2> QED BY <2>1, <2>2
  <1>9. ReferencesBounded'
    <2> SUFFICES ASSUME NEW pn \in Pages, owner'[pn] > 0
                 PROVE  refcount'[pn] <= Cardinality(Readers(pn)' \ {owner'[pn]}) + 1
      BY Zenon DEF ReferencesBounded
    <2>0. Cardinality(Readers(pn)' \ {owner'[pn]}) \in Nat
      <3>1. Readers(pn)' \ {owner'[pn]} \subseteq Pids
        BY DEF Readers
      <3> QED BY <3>1, FS_Subset, FS_CardinalityType
    <2>1. CASE pn \in S
      BY <1>b, <2>0, <2>1
    <2>2. CASE pn \notin S
      <3>1. owner'[pn] = owner[pn] /\ refcount'[pn] = refcount[pn]
        BY <1>b, <2>2
      <3>2. refcount[pn] <= Cardinality(Readers(pn) \ {owner[pn]}) + 1 /\ refcount[pn] \in Nat
        BY <3>1 DEF ReferencesBounded, StateTyped
      <3>3. Readers(pn) \subseteq Readers(pn)'
        <4>1. pn \in VPages => vm[pid][pn].perm = "none"
          BY DEF FreeSlotsClean, NoMappings, Unmapped
        <4>2. \A p \in Readers(pn) : p \in Pids \ {pid}
          BY <4>1 DEF Readers
        <4>3. \A p \in Readers(pn) : vm'[p] = vm[p]
          BY <4>2, <1>a
        <4> QED BY <4>3 DEF Readers
      <3>4. IsFiniteSet(Readers(pn)' \ {owner[pn]})
        <4>1. Readers(pn)' \ {owner[pn]} \subseteq Pids
          BY DEF Readers
        <4> QED BY <4>1, FS_Subset
      <3>5. Cardinality(Readers(pn) \ {owner[pn]}) <= Cardinality(Readers(pn)' \ {owner[pn]})
        <4>1. Readers(pn) \ {owner[pn]} \subseteq Readers(pn)' \ {owner[pn]}
          BY <3>3
        <4> QED BY <4>1, <3>4, FS_Subset, Zenon
      <3>6. Cardinality(Readers(pn) \ {owner[pn]}) \in Nat
        BY ReadersCount
      <3> QED BY <2>0, <3>1, <3>2, <3>5, <3>6
    <2> QED BY <2>1, <2>2
  <1> QED BY <1>1, <1>2, <1>3, <1>4, <1>5, <1>6, <1>7, <1>8, <1>9

(* MapMemory: mapping a page that was free, writable, where nothing was    *)
(* mapped keeps the invariant of memory.                                   *)
LEMMA MapMemory ==
    ASSUME StateTyped, Memory, NEW pid \in Active \ {0}, NEW va \in VPages,
           vm[pid][va] = Unmapped,
           NEW pn \in Pages, owner[pn] = PO_FREE, Alloc({pn}, pid),
           vm' = [vm EXCEPT ![pid][va] = Map(pn, "rw")],
           UNCHANGED <<p_state, l1, l2>>
    PROVE  Memory'
  <1> USE KernelFacts DEF Memory
  <1>0. pid \in Pids \ {0} /\ pid > 0 /\ pid \in Nat /\ pn # NoPage
    BY DEF Active, NoPage
  <1>a. /\ Active' = Active
        /\ \A p \in Pids \ {pid} : vm'[p] = vm[p]
        /\ \A x \in VPages : vm'[pid][x] = IF x = va THEN Map(pn, "rw") ELSE vm[pid][x]
    BY <1>0 DEF StateTyped, Active
  <1>b. /\ owner'[pn] = pid /\ refcount'[pn] = 1
        /\ \A q \in Pages \ {pn} : owner'[q] = owner[q] /\ refcount'[q] = refcount[q]
    BY <1>0, AllocEffect
  <1>d. /\ \A p \in Pids, x \in VPages : <<p, x>> # <<pid, va>> => vm'[p][x] = vm[p][x]
        /\ vm'[pid][va] = [pn |-> pn, perm |-> "rw"]
    <2>1. ASSUME NEW p \in Pids, NEW x \in VPages, <<p, x>> # <<pid, va>>
          PROVE  vm'[p][x] = vm[p][x]
      <3>1. CASE p = pid
        BY <1>a, <2>1, <3>1
      <3>2. CASE p # pid
        BY <1>a, <3>2
      <3> QED BY <3>1, <3>2
    <2> QED BY <1>a, <2>1 DEF Map
  <1>1. AllocatorAgrees'
    BY <1>0, <1>b DEF AllocatorAgrees, PO_FREE
  <1>2. KernelPages'
    BY <1>0, <1>b DEF KernelPages, StateTyped, PO_KERNEL, PO_FREE
  <1>3. OwnersActive'
    BY <1>a, <1>b DEF OwnersActive
  <1>4. FreeSlotsClean'
    BY <1>a DEF FreeSlotsClean
  <1>5. TablesOwned'
    <2> SUFFICES ASSUME NEW p \in Active
                 PROVE  /\ l1[p] \in 0 .. PROC_START - 1 /\ l2[p] \in 0 .. PROC_START - 1
                        /\ owner'[l1[p]] = p /\ owner'[l2[p]] = p
                        /\ refcount'[l1[p]] = 1 /\ refcount'[l2[p]] = 1
      BY <1>a, Zenon DEF TablesOwned
    <2>1. p # 0
      BY DEF Active, KernelPages
    <2>2. /\ l1[p] \in 0 .. PROC_START - 1 /\ l2[p] \in 0 .. PROC_START - 1
          /\ owner[l1[p]] = p /\ owner[l2[p]] = p
          /\ refcount[l1[p]] = 1 /\ refcount[l2[p]] = 1
      BY DEF TablesOwned
    <2>3. l1[p] \in Pages \ {pn} /\ l2[p] \in Pages \ {pn}
      BY <2>1, <2>2 DEF PO_FREE
    <2> QED BY <1>b, <2>2, <2>3
  <1>6. ReadOnlyInPlace'
    <2> SUFFICES ASSUME NEW p \in Pids, NEW x \in VPages, vm'[p][x].perm = "ro"
                 PROVE  vm'[p][x].pn = x
      BY Zenon DEF ReadOnlyInPlace
    <2>1. <<p, x>> # <<pid, va>>
      BY <1>d
    <2> QED BY <1>d, <2>1 DEF ReadOnlyInPlace
  <1>7. WritersOwn'
    <2> SUFFICES ASSUME NEW p \in Active, NEW x \in Writable(p)'
                 PROVE  /\ owner'[vm'[p][x].pn] = p
                        /\ vm'[p][x].pn \notin {l1[p], l2[p]}
                        /\ \A other \in Writable(p)' \ {x} : vm'[p][other].pn # vm'[p][x].pn
      BY <1>a, Zenon DEF WritersOwn, TablesOf
    <2>1. p \in Pids /\ p # 0
      BY DEF Active, KernelPages
    <2>2. \A y \in Writable(p)' : y \in VPages /\ (<<p, y>> = <<pid, va>> \/ y \in Writable(p))
      BY <1>d, <2>1 DEF Writable
    <2>3. ASSUME NEW y \in Writable(p)
          PROVE  /\ owner[vm[p][y].pn] = p
                 /\ vm[p][y].pn \in Pages \ {pn}
                 /\ vm[p][y].pn \notin {l1[p], l2[p]}
                 /\ \A other \in Writable(p) \ {y} : vm[p][other].pn # vm[p][y].pn
                 /\ <<p, y>> # <<pid, va>>
      <3>1. /\ owner[vm[p][y].pn] = p
            /\ vm[p][y].pn \notin {l1[p], l2[p]}
            /\ \A other \in Writable(p) \ {y} : vm[p][other].pn # vm[p][y].pn
        BY DEF WritersOwn, TablesOf
      <3>2. vm[p][y].pn \in Pages
        BY <2>1 DEF Writable, StateTyped, Mappings, Unmapped
      <3>3. <<p, y>> # <<pid, va>>
        BY DEF Writable, Unmapped
      <3> QED BY <3>1, <3>2, <3>3, <2>1 DEF PO_FREE
    <2>4. \A y \in Writable(p) : y \in VPages /\ vm'[p][y] = vm[p][y]
      BY <1>d, <2>1, <2>3 DEF Writable
    <2>5. CASE <<p, x>> = <<pid, va>>
      <3>1. l1[p] # pn /\ l2[p] # pn
        BY <1>0, <2>5 DEF TablesOwned, PO_FREE
      <3>2. \A other \in Writable(p)' \ {x} : other \in Writable(p)
        BY <2>2, <2>5
      <3>3. vm'[p][x].pn = pn
        BY <1>d, <2>5
      <3>4. \A other \in Writable(p)' \ {x} : vm'[p][other].pn # pn
        BY <2>3, <2>4, <3>2
      <3> QED BY <1>b, <2>5, <3>1, <3>3, <3>4
    <2>6. CASE <<p, x>> # <<pid, va>>
      <3>1. x \in Writable(p) /\ vm'[p][x] = vm[p][x]
        BY <2>2, <2>4, <2>6
      <3>2. owner'[vm[p][x].pn] = p
        BY <1>b, <2>3, <3>1
      <3>3. ASSUME NEW other \in Writable(p)' \ {x}
            PROVE  vm'[p][other].pn # vm[p][x].pn
        <4>1. CASE other \in Writable(p)
          BY <2>3, <2>4, <3>1, <4>1
        <4>2. CASE other \notin Writable(p)
          <5>1. <<p, other>> = <<pid, va>>
            BY <2>2, <4>2
          <5>2. vm'[p][other].pn = pn
            BY <1>d, <5>1
          <5> QED BY <2>3, <3>1, <5>2
        <4> QED BY <4>1, <4>2
      <3> QED BY <2>3, <3>1, <3>2, <3>3
    <2> QED BY <2>5, <2>6
  <1>8. NoPageLeak'
    <2> SUFFICES ASSUME NEW q \in Pages, owner'[q] > 0
                 PROVE  q \in {l1[owner'[q]], l2[owner'[q]]} \cup
                                ({vm'[owner'[q]][x].pn : x \in VPages} \ {NoPage})
      BY Zenon DEF NoPageLeak, TablesOf, MappedBy
    <2>1. CASE q = pn
      BY <1>0, <1>b, <1>d, <2>1
    <2>2. CASE q # pn
      <3>1. owner'[q] = owner[q]
        BY <1>b, <2>2
      <3>2. owner[q] \in Pids /\ q # NoPage
        BY <3>1 DEF OwnersActive, Active, NoPage
      <3>3. CASE q \in {l1[owner[q]], l2[owner[q]]}
        BY <3>1, <3>3
      <3>4. CASE q \notin {l1[owner[q]], l2[owner[q]]}
        <4>1. PICK x \in VPages : vm[owner[q]][x].pn = q
          BY <3>1, <3>4 DEF NoPageLeak, TablesOf, MappedBy
        <4>2. <<owner[q], x>> # <<pid, va>>
          BY <3>2, <4>1 DEF Unmapped
        <4>3. vm'[owner[q]][x].pn = q
          BY <1>d, <3>2, <4>1, <4>2
        <4> QED BY <3>1, <3>2, <4>3
      <3> QED BY <3>3, <3>4
    <2> QED BY <2>1, <2>2
  <1>9. ReferencesBounded'
    <2> SUFFICES ASSUME NEW q \in Pages, owner'[q] > 0
                 PROVE  refcount'[q] <= Cardinality(Readers(q)' \ {owner'[q]}) + 1
      BY Zenon DEF ReferencesBounded
    <2>1. Readers(q)' = Readers(q)
      <3>1. ASSUME NEW p \in Pids, q \in VPages
            PROVE  vm'[p][q].perm = "ro" <=> vm[p][q].perm = "ro"
        <4>1. CASE <<p, q>> = <<pid, va>>
          BY <1>d, <4>1 DEF Unmapped
        <4>2. CASE <<p, q>> # <<pid, va>>
          BY <1>d, <3>1, <4>2
        <4> QED BY <4>1, <4>2
      <3> QED BY <3>1 DEF Readers
    <2>2. Cardinality(Readers(q) \ {owner'[q]}) \in Nat
      BY ReadersCount
    <2>3. CASE q = pn
      BY <1>b, <2>1, <2>2, <2>3
    <2>4. CASE q # pn
      <3>1. owner'[q] = owner[q] /\ refcount'[q] = refcount[q]
        BY <1>b, <2>4
      <3> QED BY <2>1, <3>1 DEF ReferencesBounded
    <2> QED BY <2>3, <2>4
  <1> QED BY <1>1, <1>2, <1>3, <1>4, <1>5, <1>6, <1>7, <1>8, <1>9

(* ShareMemory: mapping a page of another process read-only, and counting  *)
(* the reference, keeps the invariant of memory.                           *)
LEMMA ShareMemory ==
    ASSUME StateTyped, Memory, NEW child \in Active \ {0}, NEW parent \in Active \ {child},
           NEW va \in VPages, vm[child][va] = Unmapped, vm[parent][va].perm = "ro",
           owner[va] > 0, owner[va] = child => refcount[va] = 1,
           refcount' = [refcount EXCEPT ![vm[parent][va].pn] = @ + 1],
           vm' = [vm EXCEPT ![child][va] = vm[parent][va]],
           UNCHANGED <<p_state, l1, l2, owner>>
    PROVE  Memory'
  <1> USE KernelFacts DEF Memory
  <1>0. /\ child \in Pids \ {0} /\ parent \in Pids
        /\ vm[parent][va].pn = va /\ va \in Pages
        /\ vm[parent][va] = [pn |-> va, perm |-> "ro"]
    <2>1. child \in Pids \ {0} /\ parent \in Pids
      BY DEF Active
    <2>2. vm[parent][va].pn = va
      BY <2>1 DEF ReadOnlyInPlace
    <2>3. vm[parent][va] \in Mappings
      BY <2>1 DEF StateTyped
    <2>4. vm[parent][va] \in [pn : Pages, perm : {"ro", "rw"}]
      BY <2>3 DEF Mappings, Unmapped
    <2> QED BY <2>1, <2>2, <2>4
  <1>a. /\ Active' = Active
        /\ refcount' = [refcount EXCEPT ![va] = refcount[va] + 1]
        /\ vm'[child][va] = [pn |-> va, perm |-> "ro"]
        /\ \A p \in Pids, x \in VPages : <<p, x>> # <<child, va>> => vm'[p][x] = vm[p][x]
    <2>1. ASSUME NEW p \in Pids, NEW x \in VPages, <<p, x>> # <<child, va>>
          PROVE  vm'[p][x] = vm[p][x]
      <3>1. CASE p = child
        BY <2>1, <3>1 DEF StateTyped
      <3>2. CASE p # child
        BY <3>2 DEF StateTyped
      <3> QED BY <3>1, <3>2
    <2>2. vm'[child][va] = [pn |-> va, perm |-> "ro"]
      BY <1>0 DEF StateTyped
    <2>3. refcount' = [refcount EXCEPT ![va] = refcount[va] + 1]
      BY <1>0
    <2> QED BY <2>1, <2>2, <2>3 DEF Active
  <1>b. /\ refcount'[va] = refcount[va] + 1 /\ refcount[va] \in Nat
        /\ \A pn \in Pages \ {va} : refcount'[pn] = refcount[pn]
    BY <1>0, <1>a DEF StateTyped
  <1>1. AllocatorAgrees'
    BY <1>b DEF AllocatorAgrees, PO_FREE
  <1>2. KernelPages'
    <2>1. owner[va] \in Int /\ ~ (owner[va] < 0)
      <3>1. owner[va] \in Pids \cup {-1, -2}
        BY <1>0 DEF StateTyped, PO_RESERVED, PO_KERNEL
      <3>2. owner[va] \in Int
        BY <3>1
      <3> QED BY <3>2
    <2>2. \A pn \in Pages : owner[pn] < 0 => refcount'[pn] = 1
      BY <1>b, <2>1 DEF KernelPages
    <2> QED BY <2>2 DEF KernelPages
  <1>3. OwnersActive'
    BY <1>a DEF OwnersActive
  <1>4. FreeSlotsClean'
    <2> SUFFICES ASSUME NEW p \in Pids \ Active
                 PROVE  l1[p] = NoPage /\ l2[p] = NoPage /\ vm'[p] = NoMappings
      BY <1>a, Zenon DEF FreeSlotsClean
    <2>1. vm'[p] = vm[p]
      BY DEF StateTyped
    <2> QED BY <2>1 DEF FreeSlotsClean
  <1>5. TablesOwned'
    <2> SUFFICES ASSUME NEW p \in Active
                 PROVE  /\ l1[p] \in 0 .. PROC_START - 1 /\ l2[p] \in 0 .. PROC_START - 1
                        /\ owner[l1[p]] = p /\ owner[l2[p]] = p
                        /\ refcount'[l1[p]] = 1 /\ refcount'[l2[p]] = 1
      BY <1>a, Zenon DEF TablesOwned
    <2>1. /\ l1[p] \in 0 .. PROC_START - 1 /\ l2[p] \in 0 .. PROC_START - 1
          /\ owner[l1[p]] = p /\ owner[l2[p]] = p
          /\ refcount[l1[p]] = 1 /\ refcount[l2[p]] = 1
      BY DEF TablesOwned
    <2>2. va >= PROC_START
      OBVIOUS
    <2>3. l1[p] \in Pages \ {va} /\ l2[p] \in Pages \ {va}
      BY <2>1, <2>2
    <2> QED BY <1>b, <2>1, <2>3
  <1>6. ReadOnlyInPlace'
    <2> SUFFICES ASSUME NEW p \in Pids, NEW x \in VPages, vm'[p][x].perm = "ro"
                 PROVE  vm'[p][x].pn = x
      BY Zenon DEF ReadOnlyInPlace
    <2>1. CASE <<p, x>> = <<child, va>>
      BY <1>a, <2>1
    <2>2. CASE <<p, x>> # <<child, va>>
      BY <1>a, <2>2 DEF ReadOnlyInPlace
    <2> QED BY <2>1, <2>2
  <1>7. WritersOwn'
    <2>1. ASSUME NEW p \in Pids
          PROVE  Writable(p)' = Writable(p) /\ \A x \in Writable(p) : vm'[p][x] = vm[p][x]
      <3>1. ASSUME NEW x \in VPages
            PROVE  /\ vm'[p][x].perm = "rw" <=> vm[p][x].perm = "rw"
                   /\ vm[p][x].perm = "rw" => vm'[p][x] = vm[p][x]
        <4>1. CASE <<p, x>> = <<child, va>>
          BY <1>a, <4>1 DEF Unmapped
        <4>2. CASE <<p, x>> # <<child, va>>
          BY <1>a, <4>2
        <4> QED BY <4>1, <4>2
      <3> QED BY <3>1 DEF Writable
    <2> SUFFICES ASSUME NEW p \in Active, NEW x \in Writable(p)
                 PROVE  /\ owner[vm'[p][x].pn] = p
                        /\ vm'[p][x].pn \notin {l1[p], l2[p]}
                        /\ \A other \in Writable(p) \ {x} : vm'[p][other].pn # vm'[p][x].pn
      <3>1. \A p \in Active' : p \in Active /\ Writable(p)' = Writable(p)
        BY <1>a, <2>1 DEF Active
      <3> QED BY <3>1 DEF WritersOwn, TablesOf
    <2>2. vm'[p][x] = vm[p][x] /\ \A other \in Writable(p) : vm'[p][other] = vm[p][other]
      BY <2>1 DEF Active
    <2>3. /\ owner[vm[p][x].pn] = p
          /\ vm[p][x].pn \notin {l1[p], l2[p]}
          /\ \A other \in Writable(p) \ {x} : vm[p][other].pn # vm[p][x].pn
      BY DEF WritersOwn, TablesOf
    <2> QED BY <2>2, <2>3
  <1>8. NoPageLeak'
    <2>0. owner' = owner /\ l1' = l1 /\ l2' = l2
      OBVIOUS
    <2> SUFFICES ASSUME NEW pn \in Pages, owner[pn] > 0
                 PROVE  pn \in {l1[owner[pn]], l2[owner[pn]]} \cup
                                ({vm'[owner[pn]][x].pn : x \in VPages} \ {NoPage})
      BY <2>0 DEF NoPageLeak, TablesOf, MappedBy
    <2>1. owner[pn] \in Pids /\ pn # NoPage
      BY DEF OwnersActive, Active, NoPage
    <2>2. CASE pn \in {l1[owner[pn]], l2[owner[pn]]}
      BY <2>2
    <2>3. CASE pn \notin {l1[owner[pn]], l2[owner[pn]]}
      <3>1. PICK x \in VPages : vm[owner[pn]][x].pn = pn
        BY <2>3 DEF NoPageLeak, TablesOf, MappedBy
      <3>2. <<owner[pn], x>> # <<child, va>>
        BY <2>1, <3>1 DEF Unmapped
      <3>3. vm'[owner[pn]][x].pn = pn
        BY <1>a, <2>1, <3>1, <3>2
      <3> QED BY <2>1, <3>3
    <2> QED BY <2>2, <2>3
  <1>9. ReferencesBounded'
    <2> SUFFICES ASSUME NEW pn \in Pages, owner[pn] > 0
                 PROVE  refcount'[pn] <= Cardinality(Readers(pn)' \ {owner[pn]}) + 1
      BY Zenon DEF ReferencesBounded
    <2>1. refcount[pn] <= Cardinality(Readers(pn) \ {owner[pn]}) + 1 /\ refcount[pn] \in Nat
      BY DEF ReferencesBounded, StateTyped
    <2>2. /\ IsFiniteSet(Readers(pn) \ {owner[pn]})
          /\ Cardinality(Readers(pn) \ {owner[pn]}) \in Nat
      BY ReadersCount
    <2>3. CASE pn # va
      <3>1. \A p \in Pids : pn \in VPages => vm'[p][pn] = vm[p][pn]
        BY <1>a, <2>3
      <3>2. Readers(pn)' = Readers(pn)
        BY <3>1 DEF Readers
      <3> QED BY <1>b, <2>1, <2>3, <3>2
    <2>4. CASE pn = va
      <3>1. Readers(pn)' = Readers(pn) \cup {child} /\ child \notin Readers(pn)
        <4>1. vm[child][va].perm = "none"
          BY DEF Unmapped
        <4>2. \A p \in Pids \ {child} : vm'[p][va] = vm[p][va]
          BY <1>a
        <4>3. vm'[child][va].perm = "ro"
          BY <1>a
        <4> QED BY <1>0, <2>4, <4>1, <4>2, <4>3 DEF Readers
      <3>2. parent \in Readers(pn)
        BY <1>0, <2>4 DEF Readers
      <3>3. CASE owner[pn] = child
        <4>1. Readers(pn)' \ {owner[pn]} = Readers(pn) \ {owner[pn]}
          BY <3>1, <3>3
        <4>2. parent \in Readers(pn) \ {owner[pn]}
          BY <3>2, <3>3
        <4>3. Cardinality(Readers(pn) \ {owner[pn]}) # 0
          BY <2>2, <4>2, FS_EmptySet
        <4>4. refcount[va] = 1
          BY <2>4, <3>3
        <4>5. refcount'[pn] = 2
          BY <1>b, <2>4, <4>4
        <4>6. Cardinality(Readers(pn)' \ {owner[pn]}) = Cardinality(Readers(pn) \ {owner[pn]})
          BY <4>1, Zenon
        <4>7. Cardinality(Readers(pn) \ {owner[pn]}) >= 1
          BY <2>2, <4>3
        <4> QED BY <4>5, <4>6, <4>7, <2>2
      <3>4. CASE owner[pn] # child
        <4>1. Readers(pn)' \ {owner[pn]} = (Readers(pn) \ {owner[pn]}) \cup {child}
          BY <3>1, <3>4
        <4>2. child \notin Readers(pn) \ {owner[pn]}
          BY <3>1
        <4>3. Cardinality(Readers(pn)' \ {owner[pn]})
                  = Cardinality(Readers(pn) \ {owner[pn]}) + 1
          BY <2>2, <4>1, <4>2, OneMore
        <4> QED BY <1>b, <2>1, <2>2, <2>4, <4>3
      <3> QED BY <3>3, <3>4
    <2> QED BY <2>3, <2>4
  <1> QED BY <1>1, <1>2, <1>3, <1>4, <1>5, <1>6, <1>7, <1>8, <1>9

-----------------------------------------------------------------------------
(* The invariant is inductive *)

(* InitInv: at the start no process exists and only the two reserved pages *)
(* are taken.                                                              *)
LEMMA InitInv == Init => IInv
  <1> SUFFICES ASSUME Init PROVE IInv
    OBVIOUS
  <1> USE KernelFacts DEF Init
  <1>1. /\ Active = {}
        /\ \A pn \in Pages : owner[pn] = IF pn = 0 THEN -1 ELSE IF pn = 1 THEN -2 ELSE 0
        /\ \A pn \in Pages : refcount[pn] = IF pn \in {0, 1} THEN 1 ELSE 0
        /\ \A p \in Pids : vm[p] = NoMappings
        /\ \A p \in Pids, va \in VPages : vm[p][va].perm = "none"
    BY DEF Active, PO_FREE, PO_RESERVED, PO_KERNEL, ReservedPage, KernelPage,
           NoMappings, Unmapped
  <1>2. StateTyped
    <2>1. forking \in [child : Pids, va : VPages \cup {NVPAGES}]
      BY KernelAssumption DEF NotForking, VPages
    <2>2. vm \in [Pids -> [VPages -> Mappings]]
      BY DEF NoMappings, Mappings
    <2>3. owner \in [Pages -> Pids \cup {PO_RESERVED, PO_KERNEL}] /\ refcount \in [Pages -> Nat]
      BY DEF PO_FREE
    <2>4. current \in Pids \ {0} /\ eax \in [Pids -> Int]
      OBVIOUS
    <2> QED BY <2>1, <2>2, <2>3, <2>4 DEF StateTyped
  <1>3. AllocatorAgrees /\ KernelPages /\ OwnersActive
    BY <1>1 DEF AllocatorAgrees, KernelPages, OwnersActive, PO_FREE, KernelPage, PO_KERNEL
  <1>4. FreeSlotsClean /\ TablesOwned /\ ReadOnlyInPlace /\ WritersOwn
    BY <1>1 DEF FreeSlotsClean, TablesOwned, ReadOnlyInPlace, WritersOwn
  <1>5. NoPageLeak /\ ReferencesBounded
    BY <1>1 DEF NoPageLeak, ReferencesBounded
  <1>6. Control
    <2>1. Booting
      <3>1. CodePage(1) = PROC_START /\ current = 1 /\ 1 <= NBoot
        BY KernelAssumption DEF CodePage
      <3>2. \A pn \in Pages : owner[pn] = PO_FREE <=>
                pn \in 3 * 1 - 1 .. PROC_START - 1 \/ pn >= CodePage(1)
        BY <1>1, <3>1 DEF PO_FREE
      <3>3. \A p \in Pids : p_state[p] = IF p \in 1 .. 1 - 1 THEN "P_RUNNABLE" ELSE "P_FREE"
        OBVIOUS
      <3> QED BY <3>1, <3>2, <3>3, Zenon DEF Booting
    <2> QED BY <2>1 DEF Control, Running, Forking
  <1> QED BY <1>2, <1>3, <1>4, <1>5, <1>6 DEF IInv, Memory

(* ProcessSetupInv: process_setup() of the next program, in the pages that *)
(* follow those of the programs before it.                                 *)
LEMMA ProcessSetupInv == IInv /\ ProcessSetup => IInv'
  <1> SUFFICES ASSUME IInv, ProcessSetup PROVE IInv'
    OBVIOUS
  <1> USE KernelFacts DEF IInv
  <1> DEFINE t1 == find_free_page_table({})
             t2 == find_free_page_table({t1})
             image == {CodePage(current), DataPage(current)}
             stack == Lowest(FreeIn(Pages) \ ({t1, t2} \cup image))
             S == {t1, t2, stack} \cup image
             m == [program_load(current) EXCEPT ![StackPage] = Map(stack, "rw")]
  <1>1. /\ mode = "boot" /\ current \in Nat /\ 1 <= current /\ current <= NBoot
        /\ current \in Pids \ {0}
        /\ \A p \in Pids :
              p_state[p] = IF p \in 1 .. current - 1 THEN "P_RUNNABLE" ELSE "P_FREE"
        /\ \A pn \in Pages : owner[pn] = PO_FREE <=>
                  pn \in 3 * current - 1 .. PROC_START - 1 \/ pn >= CodePage(current)
    BY DEF ProcessSetup, Control, Booting, StateTyped
  <1>2. /\ CodePage(current) = PROC_START + 2 * (current - 1)
        /\ DataPage(current) = CodePage(current) + 1
        /\ CodePage(current) \in Pages /\ DataPage(current) \in Pages
        /\ CodePage(current) \in VPages /\ DataPage(current) \in VPages
        /\ StackPage \in VPages /\ DataPage(current) < StackPage
        /\ CodePage(current) \in Nat /\ CodePage(current) >= PROC_START
        /\ 3 * current + 1 < PROC_START
    BY <1>1, KernelAssumption DEF CodePage, DataPage, StackPage, Pages, VPages
  <1>3. \A k \in {3 * current - 1, 3 * current, 3 * current + 1} :
            k \in 0 .. PROC_START - 1 /\ k \in Pages /\ owner[k] = PO_FREE
    BY <1>1, <1>2, KernelAssumption DEF Pages
  <1>4. \A pn \in Pages : owner[pn] = PO_FREE => pn \in Nat /\ pn >= 3 * current - 1
    BY <1>1, <1>2
  <1>5. t1 = 3 * current - 1
    <2>1. FreeIn(0 .. PROC_START - 1) \ {} \in SUBSET Nat
      BY DEF FreeIn
    <2>2. 3 * current - 1 \in FreeIn(0 .. PROC_START - 1) \ {}
      BY <1>3 DEF FreeIn
    <2>3. \A y \in FreeIn(0 .. PROC_START - 1) \ {} : 3 * current - 1 <= y
      BY <1>4, <1>1 DEF FreeIn
    <2>4. Min(FreeIn(0 .. PROC_START - 1) \ {}) = 3 * current - 1
      BY <2>1, <2>2, <2>3, MinValue
    <2> QED BY <2>2, <2>4 DEF find_free_page_table, Lowest
  <1>6. t2 = 3 * current
    <2> DEFINE F == FreeIn(0 .. PROC_START - 1) \ {t1}
    <2>1. F \in SUBSET Nat
      BY DEF FreeIn
    <2>2. 3 * current \in F
      BY <1>1, <1>3, <1>5 DEF FreeIn
    <2>3. \A y \in F : 3 * current <= y
      BY <1>4, <1>5, <1>1 DEF FreeIn
    <2>4. Min(F) = 3 * current
      BY <2>1, <2>2, <2>3, MinValue
    <2>5. t2 = Lowest(F)
      BY DEF find_free_page_table
    <2> QED BY <2>2, <2>4, <2>5 DEF Lowest
  <1>7. stack = 3 * current + 1
    <2> HIDE DEF t1, t2
    <2> DEFINE F == FreeIn(Pages) \ ({t1, t2} \cup image)
    <2>1. F \in SUBSET Nat
      BY DEF FreeIn
    <2>2. 3 * current + 1 \in F
      BY <1>1, <1>2, <1>3, <1>5, <1>6 DEF FreeIn
    <2>3. \A y \in F : 3 * current + 1 <= y
      BY <1>1, <1>4, <1>5, <1>6 DEF FreeIn
    <2>4. Min(F) = 3 * current + 1
      BY <2>1, <2>2, <2>3, MinValue
    <2>5. stack = Lowest(F)
      OBVIOUS
    <2> QED BY <2>2, <2>4, <2>5 DEF Lowest
  <1>8. /\ Alloc(S, current)
        /\ l1' = [l1 EXCEPT ![current] = t1] /\ l2' = [l2 EXCEPT ![current] = t2]
        /\ vm' = [vm EXCEPT ![current] = m]
        /\ p_state' = [p_state EXCEPT ![current] = "P_RUNNABLE"]
        /\ UNCHANGED <<eax, forking>>
        /\ IF current = NBoot
           THEN mode' = "user" /\ current' = 1
           ELSE current' = current + 1 /\ UNCHANGED mode
    BY DEF ProcessSetup
  <1> HIDE DEF t1, t2, stack
  <1>9. /\ S \in SUBSET Pages
        /\ t1 \in 0 .. PROC_START - 1 /\ t2 \in 0 .. PROC_START - 1
        /\ t1 \in Nat /\ t2 \in Nat /\ stack \in Pages
        /\ \A pn \in S : owner[pn] = PO_FREE
    BY <1>1, <1>2, <1>3, <1>5, <1>6, <1>7
  <1>10. /\ m[CodePage(current)] = [pn |-> CodePage(current), perm |-> "ro"]
         /\ m[DataPage(current)] = [pn |-> DataPage(current), perm |-> "rw"]
         /\ m[StackPage] = [pn |-> stack, perm |-> "rw"]
         /\ \A va \in VPages \ {CodePage(current), DataPage(current), StackPage} :
               m[va] = Unmapped
         /\ m \in [VPages -> Mappings]
    <2>1. NoMappings \in [VPages -> Mappings]
      BY DEF NoMappings, Mappings
    <2>2. /\ Map(CodePage(current), "ro") \in Mappings
          /\ Map(DataPage(current), "rw") \in Mappings
          /\ Map(stack, "rw") \in Mappings
      BY <1>2, <1>9 DEF Map, Mappings
    <2>3. m \in [VPages -> Mappings]
      BY <2>1, <2>2 DEF program_load
    <2>4. /\ CodePage(current) # DataPage(current) /\ DataPage(current) # StackPage
          /\ CodePage(current) # StackPage
      BY <1>2
    <2>5. /\ m[CodePage(current)] = Map(CodePage(current), "ro")
          /\ m[DataPage(current)] = Map(DataPage(current), "rw")
          /\ m[StackPage] = Map(stack, "rw")
      BY <1>2, <2>1, <2>4 DEF program_load
    <2>6. \A va \in VPages \ {CodePage(current), DataPage(current), StackPage} :
               m[va] = Unmapped
      BY DEF NoMappings, program_load
    <2> QED BY <2>3, <2>5, <2>6 DEF Map
  <1> DEFINE M == m
  <1> HIDE DEF m
  <1>11. Memory'
    <2>1. \A pn \in S \ {t1, t2} : \E va \in VPages : m[va].pn = pn
      BY <1>2, <1>10
    <2>a. \A va \in VPages \ {CodePage(current), DataPage(current), StackPage} :
              m[va].perm = "none"
      <3> TAKE va \in VPages \ {CodePage(current), DataPage(current), StackPage}
      <3>1. m[va] = Unmapped
        BY ONLY <1>10
      <3> QED BY <3>1 DEF Unmapped
    <2>2. ASSUME NEW va \in VPages, m[va].perm = "ro" PROVE m[va].pn = va
      <3>1. va \in {CodePage(current), DataPage(current), StackPage}
        BY <2>a, <2>2
      <3>2. m[DataPage(current)].perm = "rw" /\ m[StackPage].perm = "rw"
        BY <1>10
      <3>3. va = CodePage(current)
        BY <2>2, <3>1, <3>2
      <3> QED BY <1>10, <3>3
    <2>3. \A va \in VPages : m[va].perm = "rw" => va \in {DataPage(current), StackPage}
      BY <1>2, <1>10 DEF Unmapped
    <2>4. /\ DataPage(current) # stack
          /\ {DataPage(current), stack} \subseteq S \ {t1, t2}
      BY <1>1, <1>2, <1>5, <1>6, <1>7
    <2>5. \A va \in VPages : m[va].perm = "rw" =>
               /\ m[va].pn \in S \ {t1, t2}
               /\ \A other \in VPages \ {va} :
                     m[other].perm = "rw" => m[other].pn # m[va].pn
      BY <1>10, <2>3, <2>4
    <2>6. current \notin Active
      BY <1>1 DEF Active
    <2>7. t1 \in S /\ t2 \in S
      OBVIOUS
    <2>8. Install(current, t1, t2, m, S)
      BY <1>1, <1>8, <1>9, <1>10, <2>1, <2>2, <2>5, <2>6, <2>7, Zenon DEF Install
    <2> HIDE DEF S
    <2> QED BY <2>8, InstallMemory
  <1>12. StateTyped'
    <2>1. /\ owner' \in [Pages -> Pids \cup {PO_RESERVED, PO_KERNEL}]
          /\ refcount' \in [Pages -> Nat]
      BY <1>1, <1>8, <1>9, AllocEffect
    <2>2. /\ l1' \in [Pids -> Pages \cup {NoPage}] /\ l2' \in [Pids -> Pages \cup {NoPage}]
          /\ vm' \in [Pids -> [VPages -> Mappings]]
          /\ p_state' \in [Pids -> {"P_FREE", "P_RUNNABLE", "P_BROKEN"}]
      BY <1>8, <1>9, <1>10 DEF StateTyped
    <2>3. mode' \in {"boot", "user"} /\ current' \in Pids \ {0}
      BY <1>1, <1>8, KernelAssumption DEF Pids
    <2> QED BY <1>8, <2>1, <2>2, <2>3 DEF StateTyped
  <1>13. Control'
    <2>1. \A p \in Pids :
              p_state'[p] = IF p \in 1 .. current THEN "P_RUNNABLE" ELSE "P_FREE"
      BY <1>1, <1>8 DEF StateTyped
    <2>2. CASE current = NBoot
      <3>1. mode' = "user" /\ p_state'[current'] = "P_RUNNABLE"
        BY <1>1, <1>8, <2>1, <2>2
      <3> QED BY <3>1 DEF Control, Booting, Running, Forking
    <2>3. CASE current # NBoot
      <3>1. mode' = "boot" /\ current' = current + 1 /\ current' <= NBoot
        BY <1>1, <1>8, <2>3, KernelAssumption
      <3>2. CodePage(current + 1) = CodePage(current) + 2
        BY <1>1, <1>2 DEF CodePage
      <3>3. ASSUME NEW pn \in Pages
            PROVE  owner'[pn] = PO_FREE <=>
                      \/ pn \in 3 * (current + 1) - 1 .. PROC_START - 1
                      \/ pn >= CodePage(current + 1)
        <4>1. pn \in S => owner'[pn] = current
          BY <1>1, <1>8, <1>9, AllocEffect
        <4>2. pn \notin S => owner'[pn] = owner[pn]
          BY <1>1, <1>8, <1>9, AllocEffect
        <4>3. owner'[pn] = PO_FREE <=> owner[pn] = PO_FREE /\ pn \notin S
          BY <1>1, <1>9, <4>1, <4>2 DEF PO_FREE
        <4>4. pn \in S <=> pn \in {3 * current - 1, 3 * current, 3 * current + 1,
                                   CodePage(current), CodePage(current) + 1}
          BY <1>2, <1>5, <1>6, <1>7
        <4> HIDE DEF S
        <4> QED BY <1>1, <1>2, <3>2, <4>3, <4>4
      <3>4. \A p \in Pids :
                p_state'[p] = IF p \in 1 .. current' - 1 THEN "P_RUNNABLE" ELSE "P_FREE"
        BY <1>1, <2>1, <3>1
      <3>5. Booting'
        BY <3>1, <3>3, <3>4, Zenon DEF Booting
      <3> QED BY <3>1, <3>5 DEF Control, Running, Forking
    <2> QED BY <2>2, <2>3
  <1> QED BY <1>11, <1>12, <1>13

(* TrapTyped: a trap saves integers.                                       *)
LEMMA TrapTyped ==
    ASSUME StateTyped, Trap
    PROVE  eax' \in [Pids -> Int]
  BY KernelFacts DEF StateTyped, Trap

(* CurrentRuns: the process that makes a system call is an active one.     *)
LEMMA CurrentRuns ==
    ASSUME IInv, mode \in {"user", "fork"}
    PROVE  /\ current \in Active \ {0} /\ current \in Pids
           /\ p_state[current] = "P_RUNNABLE"
           /\ p_state[0] = "P_FREE" /\ 0 \notin Active
  BY DEF IInv, StateTyped, Memory, Control, KernelPages, Running, Active

(* SchedulingInv: the steps that end in schedule(): the timer, exit() and  *)
(* a page fault.                                                           *)
LEMMA SchedulingInv == IInv /\ (Timer \/ Exit \/ PageFault) => IInv'
  <1> SUFFICES ASSUME IInv, Timer \/ Exit \/ PageFault PROVE IInv'
    OBVIOUS
  <1>1. /\ StateTyped /\ Memory /\ mode = "user" /\ Trap /\ Schedule(p_state')
        /\ forking' = forking
    BY DEF IInv, Timer, Exit, PageFault
  <1>2. /\ current \in Active \ {0} /\ current \in Pids \ {0}
        /\ p_state[current] = "P_RUNNABLE" /\ p_state[0] = "P_FREE"
    BY <1>1, CurrentRuns
  <1>3. /\ Memory' /\ p_state'[0] = "P_FREE"
        /\ p_state' \in [Pids -> {"P_FREE", "P_RUNNABLE", "P_BROKEN"}]
        /\ l1' \in [Pids -> Pages \cup {NoPage}]
        /\ l2' \in [Pids -> Pages \cup {NoPage}]
        /\ vm' \in [Pids -> [VPages -> Mappings]]
        /\ owner' \in [Pages -> Pids \cup {PO_RESERVED, PO_KERNEL}]
        /\ refcount' \in [Pages -> Nat]
    <2>1. CASE Exit
      <3>1. SysExit(current)
        BY <2>1 DEF Exit
      <3>2. p_state'[0] = "P_FREE"
        BY <1>1, <1>2, <3>1 DEF SysExit, StateTyped
      <3> QED BY <1>1, <1>2, <3>1, <3>2, ExitMemory, ExitTyped
    <2>2. CASE Timer \/ PageFault
      <3>1. UNCHANGED <<l1, l2, vm, owner, refcount>>
        BY <2>2 DEF Timer, PageFault, pageinfo
      <3>2. p_state' = p_state \/ p_state' = [p_state EXCEPT ![current] = "P_BROKEN"]
        BY <2>2 DEF Timer, PageFault
      <3>3. /\ p_state'[0] = "P_FREE"
            /\ p_state' \in [Pids -> {"P_FREE", "P_RUNNABLE", "P_BROKEN"}]
            /\ \A p \in Pids : p_state'[p] # "P_FREE" <=> p_state[p] # "P_FREE"
        <4>1. CASE p_state' = p_state
          BY <1>1, <1>2, <4>1 DEF StateTyped
        <4>2. CASE p_state' = [p_state EXCEPT ![current] = "P_BROKEN"]
          BY <1>1, <1>2, <4>2, KernelFacts DEF StateTyped
        <4> QED BY <3>2, <4>1, <4>2
      <3>a. Active' = Active
        BY <3>3 DEF Active
      <3>4. Memory'
        BY <1>1, <3>1, <3>3, <3>a, MemoryKept
      <3> QED BY <1>1, <3>1, <3>3, <3>4 DEF StateTyped
    <2> QED BY <2>1, <2>2
  <1>4. /\ mode' \in {"user", "spin"} /\ current' \in Pids \ {0}
        /\ mode' = "user" => p_state'[current'] = "P_RUNNABLE"
    BY <1>1, <1>3, ScheduleEffect
  <1>5. StateTyped'
    BY <1>1, <1>3, <1>4, TrapTyped DEF StateTyped
  <1>6. Control'
    BY <1>4 DEF Control, Booting, Running, Forking
  <1> QED BY <1>3, <1>5, <1>6 DEF IInv

(* PageAllocInv: sys_page_alloc() maps a free page or fails.               *)
LEMMA PageAllocInv == IInv /\ PageAlloc => IInv'
  <1> SUFFICES ASSUME IInv, PageAlloc PROVE IInv'
    OBVIOUS
  <1> USE KernelFacts
  <1>1. /\ StateTyped /\ Memory /\ Control /\ mode = "user"
        /\ UNCHANGED <<mode, current, p_state, l1, l2, forking>>
    BY DEF IInv, PageAlloc
  <1>2. current \in Active \ {0} /\ current \in Pids \ {0}
    BY <1>1, CurrentRuns
  <1>3. PICK va \in HeapPages :
          /\ vm[current][va] = Unmapped
          /\ LET pn == find_free_page
             IN  IF Allocatable(pn)
                 THEN /\ Alloc({pn}, current)
                      /\ vm' = [vm EXCEPT ![current][va] = Map(pn, "rw")]
                      /\ eax' = [eax EXCEPT ![current] = 0]
                 ELSE /\ eax' = [eax EXCEPT ![current] = -1]
                      /\ UNCHANGED <<vm, pageinfo>>
    BY DEF PageAlloc
  <1>4. Memory' /\ StateTyped'
    <2>1. CASE Allocatable(find_free_page)
      <3>1. find_free_page \in Pages /\ owner[find_free_page] = PO_FREE
        BY <2>1, FreeFound DEF find_free_page, Allocatable
      <3>2. /\ Alloc({find_free_page}, current)
            /\ vm' = [vm EXCEPT ![current][va] = Map(find_free_page, "rw")]
            /\ eax' = [eax EXCEPT ![current] = 0]
            /\ va \in VPages
        BY <1>3, <2>1 DEF HeapPages
      <3>3. Memory'
        BY <1>1, <1>2, <1>3, <3>1, <3>2, MapMemory
      <3>4. vm' \in [Pids -> [VPages -> Mappings]]
        <4>1. Map(find_free_page, "rw") \in Mappings
          BY <3>1 DEF Map, Mappings
        <4> QED BY <1>1, <3>2, <4>1 DEF StateTyped
      <3>5. /\ owner' \in [Pages -> Pids \cup {PO_RESERVED, PO_KERNEL}]
            /\ refcount' \in [Pages -> Nat]
        BY <1>1, <1>2, <3>1, <3>2, AllocEffect
      <3> QED BY <1>1, <3>2, <3>3, <3>4, <3>5 DEF StateTyped
    <2>2. CASE ~ Allocatable(find_free_page)
      <3>1. /\ UNCHANGED <<l1, l2, vm, owner, refcount, p_state>>
            /\ eax' = [eax EXCEPT ![current] = -1]
        BY <1>1, <1>3, <2>2 DEF pageinfo
      <3>2. Active' = Active /\ p_state'[0] = "P_FREE"
        BY <1>1, <3>1 DEF Active, Memory, KernelPages
      <3> QED BY <1>1, <3>1, <3>2, MemoryKept DEF StateTyped
    <2> QED BY <2>1, <2>2
  <1>5. Control'
    BY <1>1 DEF Control, Booting, Running, Forking
  <1> QED BY <1>4, <1>5 DEF IInv

(* GetPidInv: sys_getpid() changes nothing but a register.                 *)
LEMMA GetPidInv == IInv /\ GetPid => IInv'
  <1> SUFFICES ASSUME IInv, GetPid PROVE IInv'
    OBVIOUS
  <1> USE KernelFacts
  <1>1. /\ StateTyped /\ Memory /\ Control /\ mode = "user" /\ current \in Pids
        /\ UNCHANGED <<mode, current, p_state, l1, l2, vm, owner, refcount, forking>>
        /\ eax' = [eax EXCEPT ![current] = current]
    BY DEF IInv, GetPid, pageinfo, StateTyped
  <1>2. Active' = Active /\ p_state'[0] = "P_FREE"
    BY <1>1, CurrentRuns DEF Active, IInv
  <1>3. Memory'
    BY <1>1, <1>2, MemoryKept
  <1>4. StateTyped'
    BY <1>1, KernelAssumption DEF StateTyped, Pids
  <1>5. Control'
    BY <1>1 DEF Control, Booting, Running, Forking
  <1> QED BY <1>3, <1>4, <1>5 DEF IInv

(* ForkFailsInv: a fork() that finds no slot, or no page tables.           *)
LEMMA ForkFailsInv == IInv /\ (ForkNoSlot \/ ForkNoTables) => IInv'
  <1> SUFFICES ASSUME IInv, ForkNoSlot \/ ForkNoTables PROVE IInv'
    OBVIOUS
  <1> USE KernelFacts
  <1>1. /\ StateTyped /\ Memory /\ Control /\ mode = "user"
        /\ UNCHANGED <<mode, current, forking>>
    BY DEF IInv, ForkNoSlot, ForkNoTables
  <1>2. /\ current \in Pids \ {0} /\ p_state[current] = "P_RUNNABLE"
        /\ p_state[0] = "P_FREE"
    BY <1>1, CurrentRuns
  <1>3. CASE ForkNoSlot
    <2>1. UNCHANGED <<p_state, l1, l2, vm, owner, refcount>> /\ Trap
      BY <1>3 DEF ForkNoSlot, pageinfo
    <2>2. Active' = Active /\ p_state'[0] = "P_FREE"
      BY <1>2, <2>1 DEF Active
    <2>3. Memory'
      BY <1>1, <2>1, <2>2, MemoryKept
    <2>4. StateTyped'
      BY <1>1, <2>1, TrapTyped DEF StateTyped
    <2>5. Control'
      BY <1>1, <2>1 DEF Control, Booting, Running, Forking
    <2> QED BY <2>3, <2>4, <2>5 DEF IInv
  <1>4. CASE ForkNoTables
    <2>1. /\ SysExit(Min(FreeSlots)) /\ FreeSlots # {}
          /\ eax' = [eax EXCEPT ![current] = -1]
      BY <1>4 DEF ForkNoTables
    <2>2. Min(FreeSlots) \in Pids \ {0} /\ p_state[Min(FreeSlots)] = "P_FREE"
      <3>1. FreeSlots \in SUBSET Nat
        BY DEF FreeSlots
      <3>2. Min(FreeSlots) \in FreeSlots
        BY <2>1, <3>1, MinExists
      <3> HIDE DEF Min
      <3> QED BY <3>2 DEF FreeSlots
    <2>3. Memory'
      BY <1>1, <2>1, <2>2, ExitMemory
    <2>4. StateTyped'
      <3>1. /\ p_state' \in [Pids -> {"P_FREE", "P_RUNNABLE", "P_BROKEN"}]
            /\ l1' \in [Pids -> Pages \cup {NoPage}]
            /\ l2' \in [Pids -> Pages \cup {NoPage}]
            /\ vm' \in [Pids -> [VPages -> Mappings]]
            /\ owner' \in [Pages -> Pids \cup {PO_RESERVED, PO_KERNEL}]
            /\ refcount' \in [Pages -> Nat]
        BY <1>1, <2>1, <2>2, ExitTyped
      <3>2. eax' \in [Pids -> Int]
        BY <1>1, <2>1 DEF StateTyped
      <3> QED BY <1>1, <3>1, <3>2 DEF StateTyped
    <2>5. p_state'[current] = "P_RUNNABLE"
      BY <1>1, <1>2, <2>1, <2>2 DEF SysExit, StateTyped
    <2>6. Control'
      BY <1>1, <2>5 DEF Control, Booting, Running, Forking
    <2> QED BY <2>3, <2>4, <2>6 DEF IInv
  <1> QED BY <1>3, <1>4

(* ForkStartInv: fork() finds a slot and page tables for it.               *)
LEMMA ForkStartInv == IInv /\ ForkStart => IInv'
  <1> SUFFICES ASSUME IInv, ForkStart PROVE IInv'
    OBVIOUS
  <1> USE KernelFacts
  <1> DEFINE child == Min(FreeSlots)
             t1 == find_free_page_table({})
             t2 == find_free_page_table({t1})
  <1>1. /\ StateTyped /\ Memory /\ Control /\ mode = "user" /\ FreeSlots # {}
        /\ Allocatable(t1) /\ Allocatable(t2) /\ Alloc({t1, t2}, child)
        /\ p_state' = [p_state EXCEPT ![child] = "P_RUNNABLE"]
        /\ l1' = [l1 EXCEPT ![child] = t1] /\ l2' = [l2 EXCEPT ![child] = t2]
        /\ vm' = [vm EXCEPT ![child] = NoMappings]
        /\ forking' = [child |-> child, va |-> PROC_START]
        /\ mode' = "fork" /\ Trap /\ current' = current
    BY DEF IInv, ForkStart
  <1>2. current \in Pids \ {0} /\ p_state[current] = "P_RUNNABLE"
    BY <1>1, CurrentRuns
  <1>3. child \in Pids \ {0} /\ p_state[child] = "P_FREE"
    <2>1. FreeSlots \in SUBSET Nat
      BY DEF FreeSlots
    <2>2. child \in FreeSlots
      BY <1>1, <2>1, MinExists
    <2> HIDE DEF child
    <2> QED BY <2>2 DEF FreeSlots
  <1>4. /\ {t1, t2} \subseteq 0 .. PROC_START - 1
        /\ owner[t1] = PO_FREE /\ owner[t2] = PO_FREE
    <2>1. t1 # NoPage /\ t2 # NoPage
      BY <1>1 DEF Allocatable
    <2> DEFINE a == t1
               b == t2
    <2>2. a = find_free_page_table({}) /\ b = find_free_page_table({a})
      OBVIOUS
    <2> HIDE DEF a, b
    <2>3. a # NoPage /\ b # NoPage
      BY <2>1 DEF a, b
    <2>4. {a, b} \subseteq 0 .. PROC_START - 1 /\ owner[a] = PO_FREE /\ owner[b] = PO_FREE
      BY <2>2, <2>3, TablesFound
    <2> QED BY <2>4 DEF a, b
  <1> HIDE DEF child, t1, t2
  <1>5. {t1, t2} \in SUBSET Pages
    BY <1>4
  <1>6. /\ NoMappings \in [VPages -> Mappings]
        /\ \A va \in VPages : NoMappings[va] = Unmapped /\ NoMappings[va].perm = "none"
    BY DEF NoMappings, Mappings, Unmapped
  <1>7. Memory'
    <2>1. Install(child, t1, t2, NoMappings, {t1, t2})
      <3>1. child \notin Active
        BY <1>3 DEF Active
      <3> QED BY <1>1, <1>3, <1>4, <1>5, <1>6, <3>1 DEF Install
    <2> QED BY <1>1, <2>1, InstallMemory
  <1>8. /\ \A pn \in {t1, t2} : owner'[pn] = child /\ refcount'[pn] = 1
        /\ \A pn \in Pages \ {t1, t2} : owner'[pn] = owner[pn] /\ refcount'[pn] = refcount[pn]
        /\ owner' \in [Pages -> Pids \cup {PO_RESERVED, PO_KERNEL}]
        /\ refcount' \in [Pages -> Nat]
    BY <1>1, <1>3, <1>5, AllocEffect
  <1>9. StateTyped'
    <2>1. /\ p_state' \in [Pids -> {"P_FREE", "P_RUNNABLE", "P_BROKEN"}]
          /\ l1' \in [Pids -> Pages \cup {NoPage}]
          /\ l2' \in [Pids -> Pages \cup {NoPage}]
          /\ vm' \in [Pids -> [VPages -> Mappings]]
      BY <1>1, <1>5, <1>6 DEF StateTyped
    <2>2. forking' \in [child : Pids, va : VPages \cup {NVPAGES}]
      BY <1>1, <1>3, KernelAssumption DEF VPages
    <2>3. eax' \in [Pids -> Int] /\ mode' \in {"boot", "user", "fork", "spin"}
          /\ current' \in Pids \ {0}
      BY <1>1, <1>2, TrapTyped
    <2> QED BY <1>8, <2>1, <2>2, <2>3 DEF StateTyped
  <1>10. Control'
    <2>1. /\ p_state'[current] = "P_RUNNABLE" /\ child # current
          /\ p_state'[child] = "P_RUNNABLE" /\ vm'[child] = NoMappings
      BY <1>1, <1>2, <1>3 DEF StateTyped
    <2>2. forking'.child = child /\ forking'.va = PROC_START
      BY <1>1
    <2>3. child \in Active' \ {current'}
      BY <1>1, <1>3, <2>1 DEF Active
    <2>4. \A va \in VPages : vm'[child][va] = Unmapped /\ ~ (va < PROC_START)
      <3> TAKE va \in VPages
      <3>1. va \in Nat /\ PROC_START \in Nat /\ va >= PROC_START
        OBVIOUS
      <3>2. vm'[child][va] = Unmapped
        BY <1>6, <2>1
      <3> QED BY <3>1, <3>2
    <2>5. \A pn \in Pages : owner'[pn] = child => refcount'[pn] = 1
      <3>1. \A pn \in Pages : owner[pn] # child
        BY <1>1, <1>3 DEF Memory, OwnersActive, Active
      <3> QED BY <1>8, <3>1
    <2>6. Forking'
      BY <2>2, <2>3, <2>4, <2>5, Zenon DEF Forking
    <2> QED BY <1>1, <2>1, <2>6 DEF Control, Booting, Running
  <1> QED BY <1>7, <1>9, <1>10 DEF IInv

(* InTheLoop: what the loop of fork() starts an iteration with.            *)
LEMMA InTheLoop ==
    ASSUME IInv, mode = "fork", forking.va \in VPages
    PROVE  /\ StateTyped /\ Memory /\ Control
           /\ current \in Active \ {forking.child} /\ current \in Pids \ {0}
           /\ p_state[current] = "P_RUNNABLE"
           /\ forking.child \in Active \ {0} /\ forking.child \in Pids \ {0}
           /\ vm[forking.child][forking.va] = Unmapped
           /\ forking.va + 1 \in VPages \cup {NVPAGES}
           /\ forking.va \in Nat
           /\ NextPage => /\ forking' \in [child : Pids, va : VPages \cup {NVPAGES}]
                          /\ forking'.child = forking.child
                          /\ forking'.va = forking.va + 1
  <1> USE KernelFacts
  <1>1. /\ StateTyped /\ Memory /\ Control
        /\ current \in Active \ {0} /\ current \in Pids \ {0}
        /\ p_state[current] = "P_RUNNABLE" /\ 0 \notin Active
    BY CurrentRuns DEF IInv, StateTyped
  <1>2. forking.child \in Active \ {current}
    BY <1>1 DEF Control, Forking
  <1>3. vm[forking.child][forking.va] = Unmapped
    <2>1. forking.va \in Nat
      OBVIOUS
    <2>2. forking.va >= forking.va
      BY <2>1
    <2> QED BY <1>1, <2>2 DEF Control, Forking
  <1>4. forking.va + 1 \in VPages \cup {NVPAGES}
    BY KernelAssumption DEF VPages
  <1>5. NextPage => /\ forking' \in [child : Pids, va : VPages \cup {NVPAGES}]
                    /\ forking'.child = forking.child
                    /\ forking'.va = forking.va + 1
    BY <1>1, <1>4 DEF NextPage, StateTyped
  <1> QED BY <1>1, <1>2, <1>3, <1>4, <1>5 DEF Active

(* LoopControl: the loop goes on to the next page with the child's page    *)
(* as the parent's is, if pages above keep what they are.                  *)
LEMMA LoopControl ==
    ASSUME IInv, mode = "fork", forking.va \in VPages, NextPage,
           UNCHANGED <<mode, current, p_state>>,
           \A p \in Pids, x \in VPages :
               <<p, x>> # <<forking.child, forking.va>> => vm'[p][x] = vm[p][x],
           vm'[forking.child][forking.va].perm = "rw"
               <=> vm[current][forking.va].perm = "rw",
           vm'[forking.child][forking.va].perm = "ro"
               => vm'[forking.child][forking.va] = vm[current][forking.va],
           \A pn \in Pages :
               pn > forking.va /\ owner'[pn] = forking.child => refcount'[pn] = 1
    PROVE  Control'
  <1> USE KernelFacts
  <1>1. /\ Control /\ StateTyped
        /\ current \in Active \ {forking.child} /\ current \in Pids
        /\ p_state[current] = "P_RUNNABLE"
        /\ forking.child \in Active /\ forking.child \in Pids
        /\ forking'.child = forking.child /\ forking'.va = forking.va + 1
        /\ forking.va \in Nat
    BY InTheLoop
  <1>2. forking.child \in Active' \ {current'}
    BY <1>1 DEF Active
  <1>3. ASSUME NEW va \in VPages, va >= forking.va + 1
        PROVE  vm'[forking.child][va] = Unmapped
    <2>1. va >= forking.va /\ va # forking.va
      <3>1. va \in Nat /\ forking.va \in Nat
        BY <1>1
      <3> QED BY <1>3, <3>1
    <2>2. vm[forking.child][va] = Unmapped
      BY <1>1, <2>1 DEF Control, Forking
    <2> QED BY <1>1, <2>1, <2>2
  <1>4. ASSUME NEW va \in VPages, va < forking.va + 1
        PROVE  /\ vm'[forking.child][va].perm = "rw" <=> vm'[current][va].perm = "rw"
               /\ vm'[forking.child][va].perm = "ro"
                      => vm'[forking.child][va] = vm'[current][va]
    <2>1. vm'[current][va] = vm[current][va]
      BY <1>1
    <2>2. CASE va = forking.va
      BY <2>1, <2>2
    <2>3. CASE va # forking.va
      <3>1. va < forking.va
        <4>1. va \in Nat /\ forking.va \in Nat
          BY <1>1
        <4> QED BY <1>4, <2>3, <4>1
      <3>2. vm'[forking.child][va] = vm[forking.child][va]
        BY <1>1, <2>3
      <3>3. /\ vm[forking.child][va].perm = "rw" <=> vm[current][va].perm = "rw"
            /\ vm[forking.child][va].perm = "ro" => vm[forking.child][va] = vm[current][va]
        BY <1>1, <3>1 DEF Control, Forking
      <3> QED BY <2>1, <3>2, <3>3
    <2> QED BY <2>2, <2>3
  <1>5. \A pn \in Pages :
            pn >= forking.va + 1 /\ owner'[pn] = forking.child => refcount'[pn] = 1
    <2> TAKE pn \in Pages
    <2>1. pn \in Nat /\ forking.va \in Nat
      BY <1>1
    <2>2. pn >= forking.va + 1 => pn > forking.va
      BY <2>1
    <2> QED BY <2>2
  <1>6. Forking'
    BY <1>1, <1>2, <1>3, <1>4, <1>5 DEF Forking
  <1> QED BY <1>1, <1>6 DEF Control, Booting, Running

(* OneMapping: what changing one mapping of one process does.              *)
LEMMA OneMapping ==
    ASSUME StateTyped, NEW pid \in Pids, NEW va \in VPages, NEW entry \in Mappings,
           vm' = [vm EXCEPT ![pid][va] = entry]
    PROVE  /\ vm'[pid][va] = entry
           /\ \A p \in Pids, x \in VPages : <<p, x>> # <<pid, va>> => vm'[p][x] = vm[p][x]
           /\ vm' \in [Pids -> [VPages -> Mappings]]
  <1>1. vm \in [Pids -> [VPages -> Mappings]]
    BY DEF StateTyped
  <1>2. vm'[pid][va] = entry /\ vm' \in [Pids -> [VPages -> Mappings]]
    BY <1>1
  <1>3. ASSUME NEW p \in Pids, NEW x \in VPages, <<p, x>> # <<pid, va>>
        PROVE  vm'[p][x] = vm[p][x]
    <2>1. CASE p = pid
      BY <1>1, <1>3, <2>1
    <2>2. CASE p # pid
      BY <1>1, <2>2
    <2> QED BY <2>1, <2>2
  <1> QED BY <1>2, <1>3

(* ForkCopyInv: one writable page of the parent is copied.                 *)
LEMMA ForkCopyInv == IInv /\ ForkCopy => IInv'
  <1> SUFFICES ASSUME IInv, ForkCopy PROVE IInv'
    OBVIOUS
  <1> USE KernelFacts
  <1> DEFINE pn == find_free_page
  <1>1. /\ mode = "fork" /\ forking.va \in VPages /\ ParentPage.perm = "rw"
        /\ Allocatable(pn) /\ Alloc({pn}, forking.child)
        /\ vm' = [vm EXCEPT ![forking.child][forking.va] = Map(pn, "rw")]
        /\ NextPage /\ UNCHANGED <<mode, current, p_state, l1, l2, eax>>
    BY DEF ForkCopy
  <1>2. /\ StateTyped /\ Memory /\ Control
        /\ forking.child \in Active \ {0} /\ forking.child \in Pids \ {0}
        /\ vm[forking.child][forking.va] = Unmapped
        /\ forking.va \in Nat
        /\ forking' \in [child : Pids, va : VPages \cup {NVPAGES}]
    BY <1>1, InTheLoop
  <1>3. pn \in Pages /\ owner[pn] = PO_FREE
    BY <1>1, FreeFound DEF find_free_page, Allocatable
  <1> HIDE DEF pn
  <1>4. Memory'
    BY <1>1, <1>2, <1>3, MapMemory
  <1>5. /\ \A q \in {pn} : owner'[q] = forking.child /\ refcount'[q] = 1
        /\ \A q \in Pages \ {pn} : owner'[q] = owner[q] /\ refcount'[q] = refcount[q]
        /\ owner' \in [Pages -> Pids \cup {PO_RESERVED, PO_KERNEL}]
        /\ refcount' \in [Pages -> Nat]
    <2>1. {pn} \in SUBSET Pages
      BY <1>3
    <2> QED BY <1>1, <1>2, <2>1, AllocEffect
  <1>6. Map(pn, "rw") \in Mappings /\ Map(pn, "rw").perm = "rw"
    BY <1>3 DEF Map, Mappings
  <1>7. /\ vm'[forking.child][forking.va] = Map(pn, "rw")
        /\ \A p \in Pids, x \in VPages :
              <<p, x>> # <<forking.child, forking.va>> => vm'[p][x] = vm[p][x]
        /\ vm' \in [Pids -> [VPages -> Mappings]]
    BY <1>1, <1>2, <1>6, OneMapping
  <1>8. StateTyped'
    BY <1>1, <1>2, <1>5, <1>7 DEF StateTyped
  <1>9. Control'
    <2>1. \A q \in Pages :
              q > forking.va /\ owner'[q] = forking.child => refcount'[q] = 1
      <3> TAKE q \in Pages
      <3>1. q \in Nat /\ forking.va \in Nat
        BY <1>2
      <3>2. q > forking.va => q >= forking.va
        BY <3>1
      <3>3. q >= forking.va /\ owner[q] = forking.child => refcount[q] = 1
        BY <1>1, <1>2 DEF Control, Forking
      <3> QED BY <1>5, <3>2, <3>3
    <2>2. vm[current][forking.va].perm = "rw"
      BY <1>1 DEF ParentPage
    <2> QED BY <1>1, <1>6, <1>7, <2>1, <2>2, LoopControl
  <1> QED BY <1>4, <1>8, <1>9 DEF IInv

(* ForkShareInv: one read-only page of the parent is shared, or skipped    *)
(* because nobody owns it any more.                                        *)
LEMMA ForkShareInv == IInv /\ (ForkShare \/ ForkSkip) => IInv'
  <1> SUFFICES ASSUME IInv, ForkShare \/ ForkSkip PROVE IInv'
    OBVIOUS
  <1> USE KernelFacts
  <1>1. /\ mode = "fork" /\ forking.va \in VPages
        /\ NextPage /\ UNCHANGED <<mode, current, p_state, l1, l2, eax, owner>>
    BY DEF ForkShare, ForkSkip, procs, pageinfo
  <1>2. /\ StateTyped /\ Memory /\ Control
        /\ current \in Active \ {forking.child} /\ current \in Pids \ {0}
        /\ forking.child \in Active \ {0} /\ forking.child \in Pids \ {0}
        /\ vm[forking.child][forking.va] = Unmapped
        /\ forking.va \in Nat
        /\ forking' \in [child : Pids, va : VPages \cup {NVPAGES}]
    BY <1>1, InTheLoop
  <1>3. \A q \in Pages :
              q >= forking.va /\ owner[q] = forking.child => refcount[q] = 1
    BY <1>1, <1>2 DEF Control, Forking
  <1>4. CASE UNCHANGED <<refcount, vm>> /\ ParentPage.perm # "rw"
    <2>1. Active' = Active /\ p_state'[0] = "P_FREE"
      BY <1>1, <1>2 DEF Active, Memory, KernelPages
    <2>2. Memory'
      BY <1>1, <1>2, <1>4, <2>1, MemoryKept
    <2>3. StateTyped'
      BY <1>1, <1>2, <1>4 DEF StateTyped
    <2>4. \A q \in Pages :
              q > forking.va /\ owner'[q] = forking.child => refcount'[q] = 1
      <3> TAKE q \in Pages
      <3>1. q \in Nat /\ forking.va \in Nat
        BY <1>2
      <3>2. q > forking.va => q >= forking.va
        BY <3>1
      <3> QED BY <1>1, <1>3, <1>4, <3>2
    <2>5. /\ vm'[forking.child][forking.va].perm = "none"
          /\ vm[current][forking.va].perm # "rw"
          /\ \A p \in Pids, x \in VPages : vm'[p][x] = vm[p][x]
      BY <1>2, <1>4 DEF ParentPage, Unmapped
    <2>6. Control'
      BY <1>1, <2>4, <2>5, LoopControl
    <2> QED BY <2>2, <2>3, <2>6 DEF IInv
  <1>5. CASE /\ ParentPage.perm = "ro"
             /\ refcount[ParentPage.pn] > 0 /\ owner[ParentPage.pn] > 0
             /\ refcount' = [refcount EXCEPT ![ParentPage.pn] = @ + 1]
             /\ vm' = [vm EXCEPT ![forking.child][forking.va] = ParentPage]
    <2>1. /\ vm[current][forking.va].perm = "ro"
          /\ vm[current][forking.va].pn = forking.va
          /\ vm[current][forking.va] \in Mappings
          /\ forking.va \in Pages
      <3>1. vm[current][forking.va].perm = "ro"
        BY <1>5 DEF ParentPage
      <3>2. vm[current][forking.va].pn = forking.va
        BY <1>1, <1>2, <3>1 DEF Memory, ReadOnlyInPlace
      <3>3. vm[current][forking.va] \in Mappings
        BY <1>1, <1>2 DEF StateTyped
      <3>4. vm[current][forking.va] \in [pn : Pages, perm : {"ro", "rw"}]
        BY <3>1, <3>3 DEF Mappings, Unmapped
      <3> QED BY <3>1, <3>2, <3>3, <3>4
    <2>2. /\ owner[forking.va] > 0
          /\ refcount' = [refcount EXCEPT ![vm[current][forking.va].pn] = @ + 1]
          /\ vm' = [vm EXCEPT ![forking.child][forking.va] = vm[current][forking.va]]
      BY <1>5, <2>1 DEF ParentPage
    <2>3. owner[forking.va] = forking.child => refcount[forking.va] = 1
      <3>1. forking.va >= forking.va
        BY <1>2
      <3> QED BY <1>3, <2>1, <3>1
    <2>4. Memory'
      BY <1>1, <1>2, <2>1, <2>2, <2>3, ShareMemory
    <2>5. /\ vm'[forking.child][forking.va] = vm[current][forking.va]
          /\ \A p \in Pids, x \in VPages :
                <<p, x>> # <<forking.child, forking.va>> => vm'[p][x] = vm[p][x]
          /\ vm' \in [Pids -> [VPages -> Mappings]]
      BY <1>1, <1>2, <2>1, <2>2, OneMapping
    <2>6. /\ refcount' \in [Pages -> Nat]
          /\ \A q \in Pages \ {forking.va} : refcount'[q] = refcount[q]
      BY <1>2, <2>1, <2>2 DEF StateTyped
    <2>7. StateTyped'
      BY <1>1, <1>2, <2>5, <2>6 DEF StateTyped
    <2>8. \A q \in Pages :
              q > forking.va /\ owner'[q] = forking.child => refcount'[q] = 1
      <3> TAKE q \in Pages
      <3>1. q \in Nat /\ forking.va \in Nat
        BY <1>2
      <3>2. q > forking.va => q >= forking.va /\ q # forking.va
        BY <3>1
      <3> QED BY <1>1, <1>3, <2>6, <3>2
    <2>9. Control'
      BY <1>1, <2>5, <2>8, LoopControl
    <2> QED BY <2>4, <2>7, <2>9 DEF IInv
  <1>6. ParentPage.perm # "rw"
    BY DEF ForkShare, ForkSkip
  <1> QED BY <1>4, <1>5, <1>6 DEF ForkShare, ForkSkip, procs, pageinfo

(* ForkAbortInv: fork() runs out of pages and takes the child apart.       *)
LEMMA ForkAbortInv == IInv /\ ForkAbort => IInv'
  <1> SUFFICES ASSUME IInv, ForkAbort PROVE IInv'
    OBVIOUS
  <1> USE KernelFacts
  <1>1. /\ mode = "fork" /\ forking.va \in VPages /\ SysExit(forking.child)
        /\ eax' = [eax EXCEPT ![current] = -1] /\ mode' = "user"
        /\ forking' = NotForking /\ current' = current
    BY DEF ForkAbort
  <1>2. /\ StateTyped /\ Memory
        /\ current \in Active \ {forking.child} /\ current \in Pids \ {0}
        /\ p_state[current] = "P_RUNNABLE"
        /\ forking.child \in Pids \ {0}
    BY <1>1, InTheLoop
  <1>3. Memory'
    BY <1>1, <1>2, ExitMemory
  <1>4. StateTyped'
    <2>1. /\ p_state' \in [Pids -> {"P_FREE", "P_RUNNABLE", "P_BROKEN"}]
          /\ l1' \in [Pids -> Pages \cup {NoPage}]
          /\ l2' \in [Pids -> Pages \cup {NoPage}]
          /\ vm' \in [Pids -> [VPages -> Mappings]]
          /\ owner' \in [Pages -> Pids \cup {PO_RESERVED, PO_KERNEL}]
          /\ refcount' \in [Pages -> Nat]
      BY <1>1, <1>2, ExitTyped
    <2>2. eax' \in [Pids -> Int]
      BY <1>1, <1>2 DEF StateTyped
    <2>3. forking' \in [child : Pids, va : VPages \cup {NVPAGES}]
      BY <1>1, KernelAssumption DEF NotForking, VPages
    <2> QED BY <1>1, <1>2, <2>1, <2>2, <2>3 DEF StateTyped
  <1>5. p_state'[current'] = "P_RUNNABLE"
    BY <1>1, <1>2 DEF SysExit, StateTyped
  <1>6. Control'
    BY <1>1, <1>5 DEF Control, Booting, Running, Forking
  <1> QED BY <1>3, <1>4, <1>6 DEF IInv

(* ReturnValue: a result written to %eax is an integer like the rest.      *)
LEMMA ReturnValue ==
    ASSUME NEW f \in [Pids -> Int], NEW p, NEW v \in Int
    PROVE  [f EXCEPT ![p] = v] \in [Pids -> Int]
  OBVIOUS

(* ForkDoneInv: the end of fork().                                         *)
LEMMA ForkDoneInv == IInv /\ ForkDone => IInv'
  <1> SUFFICES ASSUME IInv, ForkDone PROVE IInv'
    OBVIOUS
  <1> USE KernelFacts
  <1>1. /\ mode = "fork" /\ mode' = "user" /\ forking' = NotForking
        /\ eax' = [eax EXCEPT ![forking.child] = 0, ![current] = forking.child]
        /\ UNCHANGED <<current, p_state, l1, l2, vm, owner, refcount>>
    BY DEF ForkDone, pageinfo
  <1>2. /\ StateTyped /\ Memory /\ current \in Pids \ {0}
        /\ p_state[current] = "P_RUNNABLE" /\ p_state[0] = "P_FREE"
        /\ forking.child \in Pids
    BY <1>1, CurrentRuns DEF IInv, StateTyped
  <1>3. Memory'
    <2>1. Active' = Active /\ p_state'[0] = "P_FREE"
      BY <1>1, <1>2 DEF Active
    <2> QED BY <1>1, <1>2, <2>1, MemoryKept
  <1>4. StateTyped'
    <2>1. eax' \in [Pids -> Int]
      <3>1. eax \in [Pids -> Int]
        BY <1>2 DEF StateTyped
      <3>2. forking.child \in Int
        BY <1>2, KernelAssumption DEF Pids
      <3> DEFINE half == [eax EXCEPT ![forking.child] = 0]
      <3>3. half \in [Pids -> Int]
        BY <3>1, ReturnValue
      <3>4. eax' = [half EXCEPT ![current] = forking.child]
        BY <1>1
      <3> HIDE DEF half
      <3> QED BY <3>2, <3>3, <3>4
    <2>2. forking' \in [child : Pids, va : VPages \cup {NVPAGES}]
      BY <1>1, KernelAssumption DEF NotForking, VPages
    <2> QED BY <1>1, <1>2, <2>1, <2>2 DEF StateTyped
  <1>5. Control'
    BY <1>1, <1>2 DEF Control, Booting, Running, Forking
  <1> QED BY <1>3, <1>4, <1>5 DEF IInv

(* StutterInv: steps that change nothing.                                  *)
LEMMA StutterInv == IInv /\ UNCHANGED vars => IInv'
  <1> SUFFICES ASSUME IInv, UNCHANGED vars PROVE IInv'
    OBVIOUS
  <1>1. UNCHANGED <<mode, current, p_state, l1, l2, vm, eax, owner, refcount, forking>>
    BY DEF vars, procs, pageinfo
  <1>2. Active' = Active /\ p_state'[0] = "P_FREE"
    BY <1>1 DEF IInv, Memory, KernelPages, Active
  <1>3. Memory'
    BY <1>1, <1>2, MemoryKept DEF IInv
  <1>4. StateTyped' /\ Control'
    BY <1>1, <1>2 DEF IInv, StateTyped, Control, Booting, Running, Forking
  <1> QED BY <1>3, <1>4 DEF IInv

(* KernelInductive: every step keeps the invariant.                        *)
LEMMA KernelInductive == IInv /\ [Next]_vars => IInv'
  <1> SUFFICES ASSUME IInv, [Next]_vars PROVE IInv'
    OBVIOUS
  <1>1. CASE ProcessSetup
    BY <1>1, ProcessSetupInv
  <1>2. CASE Timer \/ PageFault
    BY <1>2, SchedulingInv
  <1>3. CASE SystemCall
    <2>1. CASE PageAlloc
      BY <2>1, PageAllocInv
    <2>2. CASE Exit
      BY <2>2, SchedulingInv
    <2>3. CASE Fork
      BY <2>3, ForkStartInv, ForkFailsInv DEF Fork
    <2>4. CASE GetPid
      BY <2>4, GetPidInv
    <2> QED BY <1>3, <2>1, <2>2, <2>3, <2>4 DEF SystemCall
  <1>4. CASE ForkLoop
    BY <1>4, ForkCopyInv, ForkAbortInv, ForkShareInv, ForkDoneInv DEF ForkLoop
  <1>5. CASE UNCHANGED vars
    BY <1>5, StutterInv
  <1> QED BY <1>1, <1>2, <1>3, <1>4, <1>5 DEF Next, Spin

-----------------------------------------------------------------------------
(* What the invariant says *)

(* RefcountsCounted: the owner of a page and its readers all use it.       *)
LEMMA RefcountsCounted == IInv => RefcountNotHigh
  <1> SUFFICES ASSUME IInv, NEW pn \in Pages, owner[pn] > 0
               PROVE  refcount[pn] <=
                        Cardinality({p \in Active : pn \in MappedBy(p) \cup TablesOf(p)})
    BY Zenon DEF RefcountNotHigh
  <1> USE KernelFacts DEF IInv, Memory
  <1> DEFINE Users == {p \in Active : pn \in MappedBy(p) \cup TablesOf(p)}
             Others == Readers(pn) \ {owner[pn]}
  <1>1. owner[pn] \in Users
    BY DEF OwnersActive, NoPageLeak
  <1>2. ASSUME NEW p \in Others PROVE p \in Users
    <2>1. p \in Pids /\ pn \in VPages /\ vm[p][pn].perm = "ro"
      BY DEF Readers
    <2>2. p \in Active
      BY <2>1 DEF FreeSlotsClean, NoMappings, Unmapped
    <2>3. vm[p][pn].pn = pn /\ pn # NoPage
      BY <2>1 DEF ReadOnlyInPlace, NoPage
    <2>4. pn \in MappedBy(p)
      BY <2>1, <2>3 DEF MappedBy
    <2> QED BY <2>2, <2>4
  <1>3. IsFiniteSet(Users)
    <2>1. Users \subseteq Pids
      BY DEF Active
    <2> QED BY <2>1, FS_Subset
  <1>4. IsFiniteSet(Others) /\ Cardinality(Others) \in Nat
    BY ReadersCount
  <1> HIDE DEF Users, Others
  <1>5. owner[pn] \notin Others
    BY DEF Others
  <1>6. Cardinality(Others \cup {owner[pn]}) = Cardinality(Others) + 1
    BY <1>4, <1>5, OneMore
  <1>7. Cardinality(Others \cup {owner[pn]}) <= Cardinality(Users) /\ Cardinality(Users) \in Nat
    <2>1. Others \cup {owner[pn]} \subseteq Users
      BY <1>1, <1>2
    <2> QED BY <1>3, <2>1, FS_Subset, FS_CardinalityType
  <1>8. refcount[pn] <= Cardinality(Others) + 1 /\ refcount[pn] \in Nat
    BY DEF ReferencesBounded, StateTyped, Others
  <1> QED BY <1>4, <1>6, <1>7, <1>8 DEF Users

(* TypeImplied: no page counts more references than there can be processes.*)
LEMMA TypeImplied == IInv => TypeOK
  <1> SUFFICES ASSUME IInv PROVE TypeOK
    OBVIOUS
  <1> USE KernelFacts
  <1>1. ASSUME NEW pn \in Pages PROVE refcount[pn] \in 0 .. NPROC - 1
    <2>1. refcount[pn] \in Nat /\ owner[pn] \in Pids \cup {-1, -2}
      BY DEF IInv, StateTyped, PO_RESERVED, PO_KERNEL
    <2>2. CASE owner[pn] < 0
      BY <2>1, <2>2 DEF IInv, Memory, KernelPages
    <2>3. CASE owner[pn] = 0
      BY <2>1, <2>3 DEF IInv, Memory, AllocatorAgrees, PO_FREE
    <2>4. CASE owner[pn] > 0
      <3> DEFINE Users == {p \in Active : pn \in MappedBy(p) \cup TablesOf(p)}
      <3>1. refcount[pn] <= Cardinality(Users)
        BY <2>4, RefcountsCounted DEF RefcountNotHigh
      <3>2. Users \subseteq Pids \ {0}
        BY DEF IInv, Memory, KernelPages, Active
      <3>3. IsFiniteSet(Pids \ {0}) /\ Cardinality(Pids \ {0}) = NPROC - 1
        BY FS_RemoveElement
      <3> HIDE DEF Users
      <3>4. Cardinality(Users) <= NPROC - 1 /\ Cardinality(Users) \in Nat
        <4>1. Cardinality(Users) <= Cardinality(Pids \ {0}) /\ IsFiniteSet(Users)
          BY <3>2, <3>3, FS_Subset
        <4>2. Cardinality(Users) \in Nat
          BY <4>1, FS_CardinalityType
        <4> QED BY <3>3, <4>1, <4>2
      <3> QED BY <2>1, <3>1, <3>4
    <2>5. owner[pn] \in Int
      BY <2>1, KernelAssumption DEF Pids
    <2> QED BY <2>2, <2>3, <2>4, <2>5
  <1>2. refcount \in [Pages -> 0 .. NPROC - 1]
    BY <1>1 DEF IInv, StateTyped
  <1> QED BY <1>2 DEF IInv, StateTyped, TypeOK

(* ChecksImplied: the invariant of memory implies what                     *)
(* virtual_memory_check() asserts.                                         *)
LEMMA ChecksImplied == IInv => VirtualMemoryCheck
  <1> SUFFICES ASSUME IInv, mode = "user" PROVE virtual_memory_check
    BY DEF VirtualMemoryCheck
  <1> USE KernelFacts DEF IInv, Memory
  <1>1. p_state[0] = "P_FREE" /\ owner[KernelPage] = PO_KERNEL /\ refcount[KernelPage] = 1
    BY DEF KernelPages, PO_KERNEL
  <1>2. ASSUME NEW p \in Active, NEW pn \in TablesOf(p)
        PROVE  pn # NoPage /\ owner[pn] = p /\ refcount[pn] = 1
    <2>1. /\ l1[p] \in 0 .. PROC_START - 1 /\ l2[p] \in 0 .. PROC_START - 1
          /\ owner[l1[p]] = p /\ owner[l2[p]] = p
          /\ refcount[l1[p]] = 1 /\ refcount[l2[p]] = 1
      BY DEF TablesOwned
    <2>2. pn = l1[p] \/ pn = l2[p]
      BY DEF TablesOf
    <2> QED BY <2>1, <2>2 DEF NoPage
  <1>3. ASSUME NEW pn \in Pages, refcount[pn] > 0, owner[pn] >= 0
        PROVE  owner[pn] \in Active
    <2>1. owner[pn] # 0
      BY <1>3 DEF AllocatorAgrees, PO_FREE
    <2>2. owner[pn] \in Pids \cup {-1, -2}
      BY DEF StateTyped, PO_RESERVED, PO_KERNEL
    <2>3. owner[pn] > 0
      BY <1>3, <2>1, <2>2, KernelAssumption DEF Pids
    <2> QED BY <2>3 DEF OwnersActive
  <1> QED BY <1>1, <1>2, <1>3 DEF virtual_memory_check

(* CopiesImplied: when the loop of fork() is done it has compared every    *)
(* page of the parent.                                                     *)
LEMMA CopiesImplied ==
    ASSUME IInv, ForkDone
    PROVE  LET child == forking.child IN
           /\ Writable(child) = Writable(current)
           /\ \A va \in Writable(child) : owner[vm[child][va].pn] = child
           /\ \A va \in VPages : vm[child][va].perm = "ro" => vm[child][va] = vm[current][va]
           /\ eax'[current] = child /\ eax'[child] = 0 /\ child # current
  <1> USE KernelFacts
  <1>1. /\ mode = "fork" /\ forking.va = NVPAGES
        /\ eax' = [eax EXCEPT ![forking.child] = 0, ![current] = forking.child]
    BY DEF ForkDone
  <1>2. /\ forking.child \in Active \ {current} /\ forking.child \in Pids
        /\ current \in Pids /\ eax \in [Pids -> Int]
    BY <1>1 DEF IInv, Control, Forking, StateTyped
  <1>3. ASSUME NEW va \in VPages
        PROVE  /\ vm[forking.child][va].perm = "rw" <=> vm[current][va].perm = "rw"
               /\ vm[forking.child][va].perm = "ro"
                      => vm[forking.child][va] = vm[current][va]
    <2>1. va < forking.va
      BY <1>1
    <2> QED BY <1>1, <2>1 DEF IInv, Control, Forking
  <1>4. Writable(forking.child) = Writable(current)
    BY <1>3 DEF Writable
  <1>5. \A va \in Writable(forking.child) : owner[vm[forking.child][va].pn] = forking.child
    BY <1>2 DEF IInv, Memory, WritersOwn
  <1>6. /\ eax'[current] = forking.child /\ eax'[forking.child] = 0
        /\ forking.child # current
    BY <1>1, <1>2
  <1> QED BY <1>3, <1>4, <1>5, <1>6

-----------------------------------------------------------------------------
(* The theorems *)

(* KernelInv: the inductive invariant holds of every execution.            *)
LEMMA KernelInv == Spec => []IInv
  BY InitInv, KernelInductive, PTL DEF Spec

(* KernelType: the state of kernel.c stays in range; no refcount is        *)
(* negative or exceeds the number of process slots, so int8_t is enough    *)
(* for the sixteen of WeensyOS.                                            *)
THEOREM KernelType == Spec => []TypeOK
  BY KernelInv, TypeImplied, PTL

(* KernelChecks: the assertions of virtual_memory_check() never panic.     *)
THEOREM KernelChecks == Spec => []VirtualMemoryCheck
  BY KernelInv, ChecksImplied, PTL

(* KernelAllocator: find_free_page() and physical_page_alloc() agree on    *)
(* which pages are free.                                                   *)
THEOREM KernelAllocator == Spec => []AllocatorAgrees
  <1>1. IInv => AllocatorAgrees
    BY DEF IInv, Memory
  <1> QED BY KernelInv, <1>1, PTL

(* KernelIsolation: every writable page has one writer, at one address.    *)
THEOREM KernelIsolation == Spec => []WritersOwn
  <1>1. IInv => WritersOwn
    BY DEF IInv, Memory
  <1> QED BY KernelInv, <1>1, PTL

(* KernelNoLeak: every page charged to a process is used by it, whatever   *)
(* fork() did before it failed.                                            *)
THEOREM KernelNoLeak == Spec => []NoPageLeak
  <1>1. IInv => NoPageLeak
    BY DEF IInv, Memory
  <1> QED BY KernelInv, <1>1, PTL

(* KernelRefcounts: no page counts more references than it has users.      *)
THEOREM KernelRefcounts == Spec => []RefcountNotHigh
  BY KernelInv, RefcountsCounted, PTL

(* KernelFork: a fork() that succeeds makes a faithful copy.               *)
THEOREM KernelFork == Spec => ForkCopies
  <1>1. IInv /\ [Next]_vars =>
          [ForkDone =>
             LET child == forking.child IN
             /\ Writable(child) = Writable(current)
             /\ \A va \in Writable(child) : owner[vm[child][va].pn] = child
             /\ \A va \in VPages : vm[child][va].perm = "ro" => vm[child][va] = vm[current][va]
             /\ eax'[current] = child /\ eax'[child] = 0 /\ child # current]_vars
    BY CopiesImplied
  <1> QED BY KernelInv, <1>1, PTL DEF Spec, ForkCopies

=============================================================================

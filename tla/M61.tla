-------------------------------- MODULE M61 --------------------------------
(***************************************************************************)
(* pset1/m61.c: a debugging allocator over the malloc and free of libc.    *)
(* A block is metadata, payload and footer; the live blocks form a doubly  *)
(* linked list with root at its newest end; m61_free classifies what it is *)
(* given by what it reads just below the pointer, whatever is there.       *)
(*                                                                         *)
(* Blocks are the places libc hands out, numbered in the order of their    *)
(* addresses.  A pointer is a block and where in it: "start" of the        *)
(* payload or "inside" it.  Below a pointer to the inside lies payload:    *)
(* junk, or a copy of a block with its metadata and footer, if the client  *)
(* has put one at the end of the payload (test029.c).  The other error of  *)
(* a client is to write past the end of a block.  Calls are made by one    *)
(* thread, so each is one step.                                            *)
(***************************************************************************)
EXTENDS Integers, Sequences, FiniteSets, FiniteSetsExt

CONSTANTS
    P,         \* libc has room for the blocks 1 .. P
    Word,      \* the range of size_t, 2^32 in the program
    Overhead,  \* bytes of padding, metadata and footer
    Sites,     \* file and line of a call
    Requests,  \* the sizes the client asks for, with the site of the call
    Counts,    \* values of nmemb
    TableSize, \* table_size
    Hash,      \* hash(file + line) % table_size, below the table for half the keys
    MaxCalls, MaxFails, \* bounds on the allocations of a behaviour
    Null, Junk

Blocks == 1 .. P

ASSUME M61Assumption ==
    /\ P \in Nat
    /\ Word \in Nat \ {0}
    /\ Overhead \in Nat
    /\ Requests \subseteq Sites \X (0 .. Word - 1)
    /\ Counts \subseteq 0 .. Word - 1
    /\ TableSize \in Nat \ {0}
    /\ Hash \in [Sites -> 1 - TableSize .. TableSize - 1]
    /\ MaxCalls \in Nat /\ MaxFails \in Nat
    /\ Null \notin Blocks /\ Junk \notin Blocks \cup {Null}
    /\ {Null, Junk} \cap (Blocks \X {"start", "inside"}) = {}

VARIABLES
    total_stats,
    root,
    meta,     \* per live block: what its metadata and footer hold
    allocated, \* the blocks libc has handed out
    payload,  \* per block: junk, or the metadata of the copy of a block in it
    hash_table,
    unlisted, \* how many allocations fill_heavy counted below hash_table
    running   \* FALSE once the process is dead, or does what nobody can say

vars == <<total_stats, root, meta, allocated, payload, hash_table, unlisted, running>>

Metas == [ size : 0 .. Word - 1, is_active : BOOLEAN, prev : Blocks \cup {Null},
           next : Blocks \cup {Null}, guarded : BOOLEAN ]

NoMeta == [size |-> 0, is_active |-> FALSE, prev |-> Null, next |-> Null, guarded |-> FALSE]

\* The address that malloc() of libc returns; any room between blocks will do.
Address(b) == b * (Word + Overhead)

\* A call works on a heap, so that a call that makes others can pass it on;
\* report is what it prints.
Heap == [ stats |-> total_stats, root |-> root, meta |-> meta, allocated |-> allocated,
          payload |-> payload, heavy |-> hash_table, unlisted |-> unlisted, report |-> "none", running |-> TRUE ]

Fresh == [ stats |-> [ nactive |-> 0, active_size |-> 0, ntotal |-> 0, total_size |-> 0,
                       nfail |-> 0, fail_size |-> 0, heap_min |-> 0, heap_max |-> 0 ],
           root |-> Null,
           meta |-> [b \in Blocks |-> NoMeta],
           allocated |-> {},
           payload |-> [b \in Blocks |-> Junk],
           heavy |-> [i \in 0 .. TableSize - 1 |-> << >>],
           unlisted |-> 0,
           report |-> "none",
           running |-> TRUE ]

\* Undefined behaviour, and abort(), leave nothing but the last words.
Killed(said) == [Fresh EXCEPT !.report = said, !.running = FALSE]

Init ==
    /\ total_stats = Fresh.stats /\ root = Fresh.root /\ meta = Fresh.meta
    /\ allocated = Fresh.allocated /\ payload = Fresh.payload
    /\ hash_table = Fresh.heavy /\ unlisted = Fresh.unlisted /\ running = Fresh.running

Becomes(h) ==
    /\ total_stats' = h.stats /\ root' = h.root /\ meta' = h.meta
    /\ allocated' = h.allocated /\ payload' = h.payload /\ hash_table' = h.heavy
    /\ unlisted' = h.unlisted /\ running' = h.running

-----------------------------------------------------------------------------
(* m61_malloc *)

\* A slip: only the first entry of a chain is compared with the site.
FillHeavyFirst(heavy, site, sz) ==
    LET chain == heavy[Hash[site]]
    IN  [heavy EXCEPT ![Hash[site]] =
            IF chain # << >> /\ chain[1].site = site
            THEN [chain EXCEPT ![1].allocs = @ + 1]
            ELSE Append(chain, [site |-> site, size |-> sz, allocs |-> 1])]

Known(heavy, site) == \E i \in DOMAIN heavy[Hash[site]] : heavy[Hash[site]][i].site = site

\* One entry per call site, in the chain of its bucket; the size of an entry is
\* that of the first allocation of the site.
fill_heavy(heavy, site, sz) ==
    LET chain == heavy[Hash[site]]
    IN  [heavy EXCEPT ![Hash[site]] =
            IF Known(heavy, site)
            THEN [i \in DOMAIN chain |-> IF chain[i].site = site
                                         THEN [chain[i] EXCEPT !.allocs = @ + 1]
                                         ELSE chain[i]]
            ELSE Append(chain, [site |-> site, size |-> sz, allocs |-> 1])]

Failed(h, sz) ==
    [h EXCEPT !.stats = [h.stats EXCEPT !.nfail = @ + 1, !.fail_size = @ + sz]]

TooLarge(sz) == (sz + Overhead) % Word < sz \/ 2 * sz >= Word

\* The block is linked behind root and becomes the root.
Link(h, b, sz) ==
    LET new == [size |-> sz, is_active |-> TRUE, prev |-> h.root, next |-> Null, guarded |-> TRUE]
        linked == IF h.root = Null THEN h.meta ELSE [h.meta EXCEPT ![h.root].next = b]
    IN  [h EXCEPT !.meta = [linked EXCEPT ![b] = new], !.root = b]

\* A slip: the end of the block without its metadata and footer.
CountedPayload(s, b, sz) ==
    LET top == Address(b) + sz
    IN  [s EXCEPT !.nactive = @ + 1, !.ntotal = @ + 1,
                  !.active_size = @ + sz, !.total_size = @ + sz,
                  !.heap_min = IF @ = 0 \/ Address(b) < @ THEN Address(b) ELSE @,
                  !.heap_max = IF top > @ THEN top ELSE @]

Counted(s, b, sz) ==
    LET top == Address(b) + sz + Overhead
    IN  [s EXCEPT !.nactive = @ + 1, !.ntotal = @ + 1,
                  !.active_size = @ + sz, !.total_size = @ + sz,
                  !.heap_min = IF @ = 0 \/ Address(b) < @ THEN Address(b) ELSE @,
                  !.heap_max = IF top > @ THEN top ELSE @]

\* The index of a site can be negative, and hash_table[index] then is a word below
\* the table.
InTable(site) == Hash[site] >= 0

Allocate(h, b, sz, site) ==
    [Link(h, b, sz) EXCEPT
        !.stats = Counted(h.stats, b, sz),
        !.allocated = @ \cup {b},
        !.heavy = IF InTable(site) THEN fill_heavy(@, site, sz) ELSE @,
        !.unlisted = IF InTable(site) THEN @ ELSE @ + 1]

\* What fill_heavy may do instead: the word below the table is used for something
\* else, or libc has no room for a new entry.
Fatal(h, site) == InTable(site) => ~ Known(h.heavy, site)

\* The outcomes of a call: the heap it leaves and the block it returns.
Mallocs(h, sz, site) ==
    LET room == IF TooLarge(sz) THEN {} ELSE Blocks \ h.allocated
    IN  {<<Failed(h, sz), Null>>}
            \cup {<<Allocate(h, b, sz, site), b>> : b \in room}
            \cup {<<Killed("none"), Null>> : b \in {c \in room : Fatal(h, site)}}

-----------------------------------------------------------------------------
(* m61_free *)

Pointers == {Null, Junk} \cup (Blocks \X {"start", "inside"})

\* Metadata read where none was written: not active, or active by chance with
\* a wrong header or footer.
Garbage == {NoMeta, [NoMeta EXCEPT !.is_active = TRUE]}

\* meta = (m61_meta*) ptr - 1.  Of a block that libc has back, is_active is
\* false until something overwrites it, and then nobody reads the rest.
MetaBelow(h, ptr) ==
    CASE ptr \in h.allocated \X {"start"} -> {h.meta[ptr[1]]}
      [] ptr \in h.allocated \X {"inside"} /\ h.payload[ptr[1]] # Junk -> {h.payload[ptr[1]]}
      [] OTHER -> Garbage

\* The blocks find_meta passes on its way from root along prev.
Chain(h) ==
    LET node[n \in 0 .. P] ==
            IF n = 0 THEN h.root
            ELSE IF node[n - 1] = Null THEN Null ELSE h.meta[node[n - 1]].prev
    IN  {node[n] : n \in 0 .. P} \ {Null}

find_meta(h, ptr) == ptr \in Chain(h) \X {"start", "inside"}

\* The block that a pointer to the start of a payload names; a copy is none.
Block(ptr) == IF ptr \in Blocks \X {"start"} THEN ptr[1] ELSE Junk

\* A slip: the block before the root keeps its next.
UnlinkRootOnly(h, m, ptr) ==
    IF h.root = Block(ptr)
    THEN [h EXCEPT !.root = m.prev]
    ELSE LET ahead == IF m.next = Null THEN h.meta
                      ELSE [h.meta EXCEPT ![m.next].prev = m.prev]
         IN  [h EXCEPT !.meta = IF m.prev = Null THEN ahead
                                ELSE [ahead EXCEPT ![m.prev].next = m.next]]

Unlink(h, m, ptr) ==
    IF h.root = Block(ptr)
    THEN [h EXCEPT !.root = m.prev,
                   !.meta = IF m.prev = Null THEN @ ELSE [@ EXCEPT ![m.prev].next = Null]]
    ELSE LET ahead == IF m.next = Null THEN h.meta
                      ELSE [h.meta EXCEPT ![m.next].prev = m.prev]
         IN  [h EXCEPT !.meta = IF m.prev = Null THEN ahead
                                ELSE [ahead EXCEPT ![m.prev].next = m.next]]

\* free(new_ptr): libc takes back a block; anything else is undefined.
Release(h, m, ptr) ==
    LET s == [h.stats EXCEPT !.nactive = @ - 1, !.active_size = @ - m.size]
        unlinked == Unlink([h EXCEPT !.stats = s], m, ptr)
    IN  IF Block(ptr) \in h.allocated
        THEN [unlinked EXCEPT !.meta[Block(ptr)] = NoMeta, !.payload[Block(ptr)] = Junk,
                              !.allocated = @ \ {Block(ptr)}, !.report = "freed"]
        ELSE Killed("freed")

\* A slip: the list is not asked whether the block is on it.
ExamineTrusting(h, m, ptr) ==
    CASE ~ m.is_active ->
           [h EXCEPT !.report = IF find_meta(h, ptr) THEN "inside a block" ELSE "not allocated"]
      [] m.is_active /\ ~ m.guarded ->
           [h EXCEPT !.report = "wild write"]
      [] OTHER -> Release(h, m, ptr)

Examine(h, m, ptr) ==
    CASE ~ m.is_active ->
           [h EXCEPT !.report = IF find_meta(h, ptr) THEN "inside a block" ELSE "not allocated"]
      [] m.is_active /\ ~ m.guarded ->
           [h EXCEPT !.report = "wild write"]
      [] m.is_active /\ m.guarded /\ m.prev # Null /\ h.meta[m.prev].next # Block(ptr) ->
           [h EXCEPT !.report = "not allocated"]
      [] OTHER -> Release(h, m, ptr)

\* Memory that libc has back, or never had, may not be mapped.
Unmapped(h, ptr) == ptr \in {Null, Junk} \cup ((Blocks \ h.allocated) \X {"start", "inside"})

\* A slip: the free is counted before it is judged.
FreesCountedEarly(h, ptr) ==
    IF h.stats.ntotal = 0
    THEN {Killed("not in heap")}
    ELSE (IF Unmapped(h, ptr) THEN {Killed("none")} ELSE {})
            \cup (IF ptr = Null THEN {}
                  ELSE {Examine([h EXCEPT !.stats.nactive = @ - 1], m, ptr) : m \in MetaBelow(h, ptr)})

\* Without an allocation so far the process is aborted; a null pointer is
\* reported, and then read below like any other.
Frees(h, ptr) ==
    IF h.stats.ntotal = 0
    THEN {Killed("not in heap")}
    ELSE (IF Unmapped(h, ptr) THEN {Killed("none")} ELSE {})
            \cup (IF ptr = Null THEN {} ELSE {Examine(h, m, ptr) : m \in MetaBelow(h, ptr)})

-----------------------------------------------------------------------------
(* The calls *)

MoreCalls == running /\ total_stats.ntotal < MaxCalls /\ total_stats.nfail <= MaxFails

m61_malloc(sz, site) ==
    /\ MoreCalls
    /\ \E r \in Mallocs(Heap, sz, site) : Becomes(r[1])

m61_free(ptr) ==
    /\ running
    /\ \E h \in Frees(Heap, ptr) : Becomes(h)

\* memcpy of the smaller of the two sizes; a size read from junk can be any.
Copies(h, ptr, b) ==
    IF ptr \in h.allocated \X {"start"}
    THEN {IF h.meta[b].size < h.meta[ptr[1]].size THEN h
          ELSE [h EXCEPT !.payload[b] = h.payload[ptr[1]]]}
    ELSE {h, Killed("none")}

\* malloc, copy, free, the last also when malloc fails; a size of 0 is a free.
m61_realloc(ptr, sz, site) ==
    /\ MoreCalls
    /\ \E r \in IF sz = 0 THEN {<<Heap, Null>>} ELSE Mallocs(Heap, sz, site) :
          \E h \in IF ptr = Null \/ r[2] = Null THEN {r[1]} ELSE Copies(r[1], ptr, r[2]) :
             IF ptr = Null \/ ~ h.running THEN Becomes(h)
             ELSE \E f \in Frees(h, ptr) : Becomes(f)

\* The product wraps; a failure inside m61_malloc is counted once more here.
m61_calloc(nmemb, sz, site) ==
    LET product == (nmemb * sz) % Word
    IN  /\ MoreCalls
        /\ \E r \in IF product >= nmemb THEN Mallocs(Heap, product, site) ELSE {<<Heap, Null>>} :
              Becomes(IF r[2] # Null \/ ~ r[1].running THEN r[1] ELSE Failed(r[1], product))

\* Errors of the client: it writes past the end of a block, or copies a block
\* with its metadata into another that is large enough.
WritePastEnd(b) ==
    /\ running /\ b \in allocated /\ meta[b].guarded
    /\ meta' = [meta EXCEPT ![b].guarded = FALSE]
    /\ UNCHANGED <<total_stats, root, allocated, payload, hash_table, unlisted, running>>

CopyBlock(b, c) ==
    /\ running /\ b \in allocated /\ c \in allocated \ {b}
    /\ meta[b].size + Overhead <= meta[c].size
    /\ payload' = [payload EXCEPT ![c] = meta[b]]
    /\ UNCHANGED <<total_stats, root, meta, allocated, hash_table, unlisted, running>>

\* exit() or abort().
Ended == ~ running /\ UNCHANGED vars

Next ==
    \/ \E call \in Requests :
          \/ m61_malloc(call[2], call[1])
          \/ \E n \in Counts : m61_calloc(n, call[2], call[1])
          \/ \E ptr \in Pointers : m61_realloc(ptr, call[2], call[1])
    \/ \E ptr \in Pointers : m61_free(ptr)
    \/ \E b \in Blocks : WritePastEnd(b) \/ \E c \in Blocks : CopyBlock(b, c)
    \/ Ended

Spec == Init /\ [][Next]_vars

-----------------------------------------------------------------------------
(* Properties *)

Statistics == [ nactive : Nat, active_size : Int, ntotal : Nat, total_size : Nat,
                nfail : Nat, fail_size : Nat, heap_min : Nat, heap_max : Nat ]

Reports == {"none", "freed", "wild write", "inside a block", "not allocated", "not in heap"}

Entries == [site : Sites, size : Nat, allocs : Nat]

Heaps == [ stats : Statistics, root : Blocks \cup {Null}, meta : [Blocks -> Metas],
           allocated : SUBSET Blocks, payload : [Blocks -> Metas \cup {Junk}],
           heavy : [0 .. TableSize - 1 -> Seq(Entries)], unlisted : Nat,
           report : Reports, running : BOOLEAN ]

\* Every variable holds a value of its type.
TypeOK == Heap \in Heaps /\ running \in BOOLEAN

\* The statistics of m61.h after any calls, failed, wrong and diabolical ones
\* among them: nactive and active_size are those of the blocks that libc has
\* handed out and not got back, all of them within heap_min and heap_max.
StatsAgree ==
    /\ total_stats.nactive = Cardinality(allocated)
    /\ total_stats.active_size = SumFunctionOnSet([b \in allocated |-> meta[b].size], allocated)
    /\ \A b \in allocated :
          /\ total_stats.heap_min <= Address(b)
          /\ Address(b) + meta[b].size + Overhead <= total_stats.heap_max

\* s lists the live blocks from the oldest to r, each linked to its neighbours.
Lists(s, r, m, live) ==
    LET n == Cardinality(live)
    IN  /\ s \in [1 .. n -> live]
        /\ \A i, j \in 1 .. n : s[i] = s[j] => i = j
        /\ r = IF n = 0 THEN Null ELSE s[n]
        /\ \A i \in 1 .. n :
              /\ m[s[i]].is_active
              /\ m[s[i]].prev = IF i = 1 THEN Null ELSE s[i - 1]
              /\ m[s[i]].next = IF i = n THEN Null ELSE s[i + 1]

\* m61_printleakreport walks from root along prev: it meets every live block
\* once and nothing else, in whatever order blocks were freed.
LeakReportExact ==
    \E s \in [1 .. Cardinality(allocated) -> allocated] : Lists(s, root, meta, allocated)

\* The entries of the table: the place of an entry is its bucket and its index there.
Places(heavy) == UNION {{<<i, j>> : j \in DOMAIN heavy[i]} : i \in DOMAIN heavy}

SiteAt(heavy, e) == heavy[e[1]][e[2]].site

AllocsIn(heavy) == [e \in Places(heavy) |-> heavy[e[1]][e[2]].allocs]

\* The heavy-hitter counts: a call site with an index in the table has one entry
\* once it has allocated, and the entries count every successful allocation of
\* such a site once, in whatever order sites that share a bucket came.  Only the
\* allocations of the other sites are missing from the report.
HeavyCounts ==
    /\ \A e, f \in Places(hash_table) : SiteAt(hash_table, e) = SiteAt(hash_table, f) => e = f
    /\ total_stats.ntotal - unlisted = SumFunctionOnSet(AllocsIn(hash_table), Places(hash_table))

\* What m61_free says of a pointer is true after any history: a live block that
\* nobody wrote past is freed (test021.c reports no error), one that somebody
\* wrote past is a wild write (test022.c), and a block that was freed, the
\* inside of a block, or a copy of a block are never handed to libc -- but for
\* the copy of a block that was the oldest, whose prev is NULL.
FreeJudged ==
    \A ptr \in Pointers : \A h \in Frees(Heap, ptr) :
        IF ptr \in allocated \X {"start"}
        THEN IF meta[ptr[1]].guarded
             THEN h.report = "freed" /\ h.allocated = allocated \ {ptr[1]} /\ h.running
             ELSE h = [Heap EXCEPT !.report = "wild write"]
        ELSE h.report = "freed" =>
                /\ ptr \in allocated \X {"inside"}
                /\ payload[ptr[1]] # Junk /\ payload[ptr[1]].prev = Null
=============================================================================

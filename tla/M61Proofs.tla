----------------------------- MODULE M61Proofs -----------------------------
(***************************************************************************)
(* M61, for any memory, any sizes and any call sites: the list of live     *)
(* blocks is intact after every history, so that the leak report is exact  *)
(* and m61_free judges what it is given correctly; the statistics are      *)
(* those of the live blocks; and the heavy-hitter table counts every       *)
(* allocation of a site that has an index in it once, at its site.         *)
(***************************************************************************)
EXTENDS M61, SumTheorems

Live(h) == Cardinality(h.allocated)

CountedRight(h) ==
    /\ h.stats.nactive = Live(h)
    /\ h.stats.nactive <= h.stats.ntotal

Listed(h) ==
    \E s \in [1 .. Live(h) -> h.allocated] : Lists(s, h.root, h.meta, h.allocated)

Sizes(h) == [b \in h.allocated |-> h.meta[b].size]

\* heap_min is 0 only while nothing was ever allocated.
SizesRight(h) ==
    /\ h.stats.active_size = SumFunctionOnSet(Sizes(h), h.allocated)
    /\ \A b \in h.allocated :
          /\ 1 <= h.stats.heap_min
          /\ h.stats.heap_min <= Address(b)
          /\ Address(b) + h.meta[b].size + Overhead <= h.stats.heap_max

\* An entry is in the bucket of its site, so that a new entry, appended there
\* when the bucket does not have the site, is the only one of its site.
HeavyCounted(heavy, n) ==
    /\ IsFiniteSet(Places(heavy))
    /\ \A e \in Places(heavy) : Hash[SiteAt(heavy, e)] = e[1]
    /\ \A e, f \in Places(heavy) : SiteAt(heavy, e) = SiteAt(heavy, f) => e = f
    /\ n = SumFunctionOnSet(AllocsIn(heavy), Places(heavy))

HeavyRight(h) == HeavyCounted(h.heavy, h.stats.ntotal - h.unlisted)

\* The inductive invariant, of the heap that a call works on.
HeapOK(h) ==
    /\ h \in Heaps
    /\ CountedRight(h)
    /\ Listed(h)
    /\ SizesRight(h)
    /\ HeavyRight(h)

-----------------------------------------------------------------------------
(* The number of live blocks. *)

LEMMA LiveType ==
    ASSUME NEW h \in Heaps
    PROVE  IsFiniteSet(h.allocated) /\ Live(h) \in Nat
  <1>1. IsFiniteSet(Blocks)
    BY M61Assumption, FS_Interval DEF Blocks
  <1>2. h.allocated \in SUBSET Blocks
    BY DEF Heaps
  <1>3. IsFiniteSet(h.allocated)
    BY <1>1, <1>2, FS_Subset
  <1> QED BY <1>3, FS_CardinalityType DEF Live

LEMMA HeapType ==
    ASSUME NEW st \in Statistics, NEW ro \in Blocks \cup {Null}, NEW me \in [Blocks -> Metas],
           NEW li \in SUBSET Blocks, NEW pa \in [Blocks -> Metas \cup {Junk}],
           NEW he \in [0 .. TableSize - 1 -> Seq(Entries)], NEW ul \in Nat,
           NEW re \in Reports, NEW ru \in BOOLEAN
    PROVE  [ stats |-> st, root |-> ro, meta |-> me, allocated |-> li, payload |-> pa,
             heavy |-> he, unlisted |-> ul, report |-> re, running |-> ru ] \in Heaps
  BY DEF Heaps

LEMMA ListedSame ==
    ASSUME NEW h, NEW g, Listed(h),
           g.root = h.root, g.meta = h.meta, g.allocated = h.allocated
    PROVE  Listed(g)
  BY DEF Listed, Live

\* What the invariant does not ask about.
LEMMA HeapSame ==
    ASSUME NEW h, NEW g \in Heaps, HeapOK(h),
           g.root = h.root, g.meta = h.meta, g.allocated = h.allocated, g.heavy = h.heavy,
           g.unlisted = h.unlisted,
           g.stats.nactive = h.stats.nactive, g.stats.ntotal = h.stats.ntotal,
           g.stats.active_size = h.stats.active_size,
           g.stats.heap_min = h.stats.heap_min, g.stats.heap_max = h.stats.heap_max
    PROVE  HeapOK(g)
  <1>1. CountedRight(g)
    BY DEF HeapOK, CountedRight, Live
  <1>2. Listed(g)
    BY ListedSame DEF HeapOK
  <1>3. SizesRight(g)
    BY DEF HeapOK, SizesRight, Sizes
  <1>4. HeavyRight(g)
    BY DEF HeapOK, HeavyRight
  <1> QED BY <1>1, <1>2, <1>3, <1>4 DEF HeapOK

LEMMA FreshOK == HeapOK(Fresh)
  <1>1. Fresh \in Heaps
    <2>1. NoMeta \in Metas
      BY M61Assumption DEF NoMeta, Metas
    <2> DEFINE st == [ nactive |-> 0, active_size |-> 0, ntotal |-> 0, total_size |-> 0,
                       nfail |-> 0, fail_size |-> 0, heap_min |-> 0, heap_max |-> 0 ]
               me == [b \in Blocks |-> NoMeta]
               pa == [b \in Blocks |-> Junk]
               he == [i \in 0 .. TableSize - 1 |-> << >>]
    <2>2. he \in [0 .. TableSize - 1 -> Seq(Entries)]
      OBVIOUS
    <2>3. st \in Statistics
      BY DEF Statistics
    <2>4. me \in [Blocks -> Metas] /\ pa \in [Blocks -> Metas \cup {Junk}]
      BY <2>1
    <2>5. Fresh = [ stats |-> st, root |-> Null, meta |-> me, allocated |-> {},
                    payload |-> pa, heavy |-> he, unlisted |-> 0, report |-> "none",
                    running |-> TRUE ]
      BY Zenon DEF Fresh
    <2> HIDE DEF st, me, pa, he
    <2>6. Null \in Blocks \cup {Null} /\ {} \in SUBSET Blocks /\ TRUE \in BOOLEAN
              /\ "none" \in Reports
      BY DEF Reports
    <2> QED BY <2>2, <2>3, <2>4, <2>5, <2>6 DEF Heaps
  <1>2. Live(Fresh) = 0
    BY FS_EmptySet DEF Live, Fresh
  <1>3. CountedRight(Fresh)
    BY <1>2 DEF CountedRight, Fresh
  <1>4. Listed(Fresh)
    <2> DEFINE s == [i \in 1 .. 0 |-> Null]
    <2>1. s \in [1 .. Live(Fresh) -> Fresh.allocated]
      BY <1>2
    <2>2. Lists(s, Fresh.root, Fresh.meta, Fresh.allocated)
      BY <1>2, <2>1 DEF Lists, Live, Fresh
    <2> QED BY <2>1, <2>2 DEF Listed
  <1>5. SizesRight(Fresh)
    <2>1. Fresh.allocated = {} /\ Fresh.stats.active_size = 0
      BY DEF Fresh
    <2> QED BY <2>1, SumEmpty DEF SizesRight
  <1>6. HeavyRight(Fresh)
    <2>1. Places(Fresh.heavy) = {}
      BY DEF Places, Fresh
    <2>2. Fresh.stats.ntotal - Fresh.unlisted = 0
      BY DEF Fresh
    <2> QED BY <2>1, <2>2, SumEmpty, FS_EmptySet DEF HeavyRight, HeavyCounted
  <1> QED BY <1>1, <1>3, <1>4, <1>5, <1>6 DEF HeapOK

LEMMA KilledOK ==
    ASSUME NEW said \in Reports
    PROVE  HeapOK(Killed(said)) /\ ~ Killed(said).running /\ Killed(said).report = said
  <1> DEFINE k == Killed(said)
  <1>1. /\ k.stats = Fresh.stats /\ k.root = Fresh.root /\ k.meta = Fresh.meta
        /\ k.allocated = Fresh.allocated /\ k.payload = Fresh.payload
        /\ k.heavy = Fresh.heavy /\ k.unlisted = Fresh.unlisted /\ k.report = said /\ k.running = FALSE
    BY DEF Killed, Fresh
  <1>2. k \in Heaps
    <2>1. [Fresh EXCEPT !.report = said] \in Heaps
      BY FreshOK DEF HeapOK, Heaps
    <2> QED BY <2>1 DEF Heaps, Killed
  <1>3. HeapOK(k)
    <2> HIDE DEF k
    <2> QED BY <1>1, <1>2, FreshOK, HeapSame
  <1> QED BY <1>1, <1>3

-----------------------------------------------------------------------------
(* m61_malloc *)

LEMMA FillHeavyType ==
    ASSUME NEW heavy \in [0 .. TableSize - 1 -> Seq(Entries)],
           NEW sz \in Nat, NEW site \in Sites, InTable(site)
    PROVE  fill_heavy(heavy, site, sz) \in [0 .. TableSize - 1 -> Seq(Entries)]
  <1> DEFINE chain == heavy[Hash[site]]
             more == [i \in DOMAIN chain |-> IF chain[i].site = site
                                            THEN [chain[i] EXCEPT !.allocs = @ + 1]
                                            ELSE chain[i]]
             longer == Append(chain, [site |-> site, size |-> sz, allocs |-> 1])
  <1>1. chain \in Seq(Entries)
    BY M61Assumption DEF InTable
  <1>2. more \in Seq(Entries)
    <2> SUFFICES ASSUME NEW c \in Seq(Entries)
                 PROVE  [i \in DOMAIN c |-> IF c[i].site = site
                                            THEN [c[i] EXCEPT !.allocs = @ + 1]
                                            ELSE c[i]] \in Seq(Entries)
      BY <1>1
    <2>1. DOMAIN c = 1 .. Len(c) /\ Len(c) \in Nat
      OBVIOUS
    <2>2. \A i \in 1 .. Len(c) : c[i] \in Entries
      OBVIOUS
    <2>3. \A e \in Entries : [e EXCEPT !.allocs = @ + 1] \in Entries
      BY DEF Entries
    <2>4. [i \in 1 .. Len(c) |-> IF c[i].site = site
                                 THEN [c[i] EXCEPT !.allocs = @ + 1]
                                 ELSE c[i]] \in [1 .. Len(c) -> Entries]
      BY <2>2, <2>3
    <2> QED BY <2>1, <2>4
  <1>3. longer \in Seq(Entries)
    <2>1. [site |-> site, size |-> sz, allocs |-> 1] \in Entries
      BY DEF Entries
    <2> HIDE DEF chain
    <2> QED BY <1>1, <2>1
  <1>4. fill_heavy(heavy, site, sz) =
            [heavy EXCEPT ![Hash[site]] = IF Known(heavy, site) THEN more ELSE longer]
    BY DEF fill_heavy
  <1> HIDE DEF chain, more, longer
  <1> QED BY <1>2, <1>3, <1>4

Tables == [0 .. TableSize - 1 -> Seq(Entries)]

\* A place is a bucket and an index of its chain.
LEMMA PlaceParts ==
    ASSUME NEW heavy \in Tables
    PROVE  /\ \A i \in 0 .. TableSize - 1 : \A j \in 1 .. Len(heavy[i]) :
                 <<i, j>> \in Places(heavy)
           /\ \A e \in Places(heavy) :
                 /\ e = <<e[1], e[2]>>
                 /\ e[1] \in 0 .. TableSize - 1
                 /\ heavy[e[1]] \in Seq(Entries) /\ Len(heavy[e[1]]) \in Nat
                 /\ e[2] \in 1 .. Len(heavy[e[1]])
                 /\ heavy[e[1]][e[2]] \in Entries
  <1>1. \A i \in 0 .. TableSize - 1 :
            heavy[i] \in Seq(Entries) /\ DOMAIN heavy[i] = 1 .. Len(heavy[i])
                /\ Len(heavy[i]) \in Nat
    BY DEF Tables
  <1>2. DOMAIN heavy = 0 .. TableSize - 1
    BY DEF Tables
  <1>3. \A e \in Places(heavy) : \E i \in 0 .. TableSize - 1 :
            \E j \in 1 .. Len(heavy[i]) : e = <<i, j>>
    BY <1>1, <1>2, Zenon DEF Places
  <1>4. \A i \in 0 .. TableSize - 1 : \A j \in 1 .. Len(heavy[i]) :
            <<i, j>> \in Places(heavy)
    <2> TAKE i \in 0 .. TableSize - 1
    <2> TAKE j \in 1 .. Len(heavy[i])
    <2>1. <<i, j>> \in {<<i, k>> : k \in DOMAIN heavy[i]} /\ i \in DOMAIN heavy
      BY <1>1, <1>2
    <2> QED BY <2>1, Zenon DEF Places
  <1>5. \A i \in 0 .. TableSize - 1 : \A j \in 1 .. Len(heavy[i]) :
            heavy[i][j] \in Entries
    BY <1>1
  <1> QED BY <1>1, <1>3, <1>4, <1>5

\* A site that has an entry: the one entry of the site counts one more.
LEMMA FillHeavyKnown ==
    ASSUME NEW heavy \in Tables, NEW sz \in Nat, NEW site \in Sites,
           NEW n, InTable(site), HeavyCounted(heavy, n), Known(heavy, site)
    PROVE  HeavyCounted(fill_heavy(heavy, site, sz), n + 1)
  <1> DEFINE B == Hash[site]
             more == [i \in DOMAIN heavy[B] |-> IF heavy[B][i].site = site
                                                THEN [heavy[B][i] EXCEPT !.allocs = @ + 1]
                                                ELSE heavy[B][i]]
             new == fill_heavy(heavy, site, sz)
  <1>1. /\ B \in 0 .. TableSize - 1 /\ heavy[B] \in Seq(Entries)
        /\ DOMAIN heavy[B] = 1 .. Len(heavy[B])
    BY M61Assumption DEF Tables, InTable
  <1>2. new = [heavy EXCEPT ![B] = more]
    BY Zenon DEF fill_heavy
  <1>3. new \in Tables
    BY FillHeavyType DEF Tables
  <1>4. PICK k \in 1 .. Len(heavy[B]) : heavy[B][k].site = site
    BY <1>1, Zenon DEF Known
  <1> DEFINE x == <<B, k>>
  <1>5. x \in Places(heavy) /\ SiteAt(heavy, x) = site
    BY <1>1, <1>4, PlaceParts DEF SiteAt
  <1>6. more \in Seq(Entries) /\ Len(more) = Len(heavy[B])
    <2>1. new[B] = more
      BY <1>1, <1>2 DEF Tables
    <2>2. more \in Seq(Entries)
      BY <1>1, <1>3, <2>1 DEF Tables
    <2>3. DOMAIN more = 1 .. Len(heavy[B])
      BY <1>1
    <2> HIDE DEF more
    <2> QED BY <1>1, <2>2, <2>3
  <1>7. \A i \in 0 .. TableSize - 1 : new[i] = IF i = B THEN more ELSE heavy[i]
    BY <1>1, <1>2 DEF Tables
  <1>8. Places(new) = Places(heavy)
    <2>1. \A i \in 0 .. TableSize - 1 : Len(new[i]) = Len(heavy[i])
      <3> HIDE DEF more, new
      <3> QED BY <1>6, <1>7
    <2> HIDE DEF new
    <2>2. ASSUME NEW e \in Places(new) PROVE e \in Places(heavy)
      <3>1. /\ e = <<e[1], e[2]>> /\ e[1] \in 0 .. TableSize - 1
            /\ e[2] \in 1 .. Len(new[e[1]])
        BY <1>3, PlaceParts
      <3> QED BY <2>1, <3>1, PlaceParts
    <2>3. ASSUME NEW e \in Places(heavy) PROVE e \in Places(new)
      <3>1. /\ e = <<e[1], e[2]>> /\ e[1] \in 0 .. TableSize - 1
            /\ e[2] \in 1 .. Len(heavy[e[1]])
        BY PlaceParts
      <3> QED BY <1>3, <2>1, <3>1, PlaceParts
    <2> QED BY <2>2, <2>3
  <1>9. \A e, f \in Places(heavy) : SiteAt(heavy, e) = SiteAt(heavy, f) => e = f
    BY DEF HeavyCounted
  <1>10. ASSUME NEW e \in Places(heavy)
         PROVE  /\ SiteAt(new, e) = SiteAt(heavy, e)
                /\ new[e[1]][e[2]].allocs =
                       IF e = x THEN heavy[e[1]][e[2]].allocs + 1 ELSE heavy[e[1]][e[2]].allocs
                /\ heavy[e[1]][e[2]].allocs \in Nat
    <2>1. /\ e = <<e[1], e[2]>> /\ e[1] \in 0 .. TableSize - 1
          /\ e[2] \in 1 .. Len(heavy[e[1]]) /\ heavy[e[1]][e[2]] \in Entries
      BY PlaceParts
    <2>2. x[1] = B
      OBVIOUS
    <2>3. \A i \in 1 .. Len(heavy[B]) :
              more[i] = IF heavy[B][i].site = site
                        THEN [heavy[B][i] EXCEPT !.allocs = @ + 1]
                        ELSE heavy[B][i]
      BY <1>1
    <2> HIDE DEF new, more, B, x
    <2>4. heavy[e[1]][e[2]].allocs \in Nat
      BY <2>1 DEF Entries
    <2>5. CASE e[1] # B
      <3>1. new[e[1]] = heavy[e[1]] /\ e # x
        BY <1>7, <2>1, <2>5, <2>2
      <3> QED BY <2>4, <3>1 DEF SiteAt
    <2>6. CASE e[1] = B /\ heavy[e[1]][e[2]].site = site
      <3>1. e = x
        BY <1>5, <1>9, <2>6 DEF SiteAt
      <3>2. new[e[1]][e[2]] = [heavy[e[1]][e[2]] EXCEPT !.allocs = @ + 1]
        BY <1>1, <1>7, <2>1, <2>6, <2>3
      <3> QED BY <2>1, <2>4, <3>1, <3>2 DEF SiteAt, Entries
    <2>7. CASE e[1] = B /\ heavy[e[1]][e[2]].site # site
      <3>1. e # x
        BY <1>5, <2>7 DEF SiteAt
      <3>2. new[e[1]][e[2]] = heavy[e[1]][e[2]]
        BY <1>1, <1>7, <2>1, <2>7, <2>3
      <3> QED BY <2>4, <3>1, <3>2 DEF SiteAt
    <2> QED BY <2>5, <2>6, <2>7
  <1> HIDE DEF new, x, more, B
  <1>11. SumFunctionOnSet(AllocsIn(new), Places(heavy)) = n + 1
    <2> DEFINE a == AllocsIn(heavy)
               c == AllocsIn(new)
    <2>1. \A e \in Places(heavy) : a[e] = heavy[e[1]][e[2]].allocs /\ c[e] = new[e[1]][e[2]].allocs
      BY <1>8 DEF AllocsIn
    <2> HIDE DEF a, c
    <2>2. \A e \in Places(heavy) : a[e] \in Nat
      BY <1>10, <2>1
    <2>3. \A e \in Places(heavy) : c[e] = IF e = x THEN a[e] + 1 ELSE a[e]
      BY <1>10, <2>1
    <2>4. \A e \in Places(heavy) : c[e] \in Nat
      BY <2>2, <2>3
    <2>5. \A e \in Places(heavy) \ {x} : a[e] = c[e]
      BY <2>3
    <2>6. IsFiniteSet(Places(heavy)) /\ n = SumFunctionOnSet(a, Places(heavy))
      BY DEF HeavyCounted, a
    <2>7. SumFunctionOnSet(c, Places(heavy)) = SumFunctionOnSet(a, Places(heavy)) - a[x] + c[x]
      BY <1>5, <2>2, <2>4, <2>5, <2>6, SumUpdate
    <2>8. SumFunctionOnSet(a, Places(heavy)) \in Nat
      BY <2>2, <2>6, SumType
    <2> QED BY <1>5, <2>2, <2>3, <2>6, <2>7, <2>8 DEF c
  <1> QED BY <1>8, <1>10, <1>11 DEF HeavyCounted, new

\* A site that has none: its bucket gets a new entry, and no other bucket can
\* have had one.
LEMMA FillHeavyNew ==
    ASSUME NEW heavy \in Tables, NEW sz \in Nat, NEW site \in Sites,
           NEW n, InTable(site), HeavyCounted(heavy, n), ~ Known(heavy, site)
    PROVE  HeavyCounted(fill_heavy(heavy, site, sz), n + 1)
  <1> DEFINE B == Hash[site]
             entry == [site |-> site, size |-> sz, allocs |-> 1]
             longer == Append(heavy[B], entry)
             new == fill_heavy(heavy, site, sz)
             x == <<B, Len(heavy[B]) + 1>>
  <1>1. /\ B \in 0 .. TableSize - 1 /\ heavy[B] \in Seq(Entries)
        /\ DOMAIN heavy[B] = 1 .. Len(heavy[B]) /\ Len(heavy[B]) \in Nat
    BY M61Assumption DEF Tables, InTable
  <1>2. new = [heavy EXCEPT ![B] = longer]
    BY Zenon DEF fill_heavy
  <1>3. new \in Tables
    BY FillHeavyType DEF Tables
  <1>4. /\ Len(longer) = Len(heavy[B]) + 1
        /\ longer[Len(heavy[B]) + 1] = entry
        /\ \A j \in 1 .. Len(heavy[B]) : longer[j] = heavy[B][j]
    <2>1. entry \in Entries
      BY DEF Entries
    <2> HIDE DEF B, entry
    <2> QED BY <1>1, <2>1
  <1> HIDE DEF longer, entry
  <1>5. \A i \in 0 .. TableSize - 1 : new[i] = IF i = B THEN longer ELSE heavy[i]
    BY <1>1, <1>2 DEF Tables
  <1> HIDE DEF new
  <1>6. x \notin Places(heavy)
    <2>1. ASSUME x \in Places(heavy) PROVE FALSE
      <3>1. x[2] \in 1 .. Len(heavy[x[1]])
        BY <2>1, PlaceParts
      <3> QED BY <1>1, <3>1
    <2> QED BY <2>1
  <1>7. Places(new) = Places(heavy) \cup {x}
    <2>1. ASSUME NEW e \in Places(new) PROVE e \in Places(heavy) \cup {x}
      <3>1. /\ e = <<e[1], e[2]>> /\ e[1] \in 0 .. TableSize - 1
            /\ e[2] \in 1 .. Len(new[e[1]])
        BY <1>3, PlaceParts
      <3>2. CASE e[1] # B
        BY <1>5, <3>1, <3>2, PlaceParts
      <3>3. CASE e[1] = B
        <4>1. e[2] \in 1 .. Len(heavy[B]) + 1
          BY <1>4, <1>5, <3>1, <3>3
        <4>2. e[2] \in 1 .. Len(heavy[B]) \/ e[2] = Len(heavy[B]) + 1
          BY <1>1, <4>1
        <4> QED BY <1>1, <3>1, <3>3, <4>2, PlaceParts
      <3> QED BY <3>2, <3>3
    <2>2. ASSUME NEW e \in Places(heavy) PROVE e \in Places(new)
      <3>1. /\ e = <<e[1], e[2]>> /\ e[1] \in 0 .. TableSize - 1
            /\ e[2] \in 1 .. Len(heavy[e[1]])
        BY PlaceParts
      <3>2. e[2] \in 1 .. Len(new[e[1]])
        BY <1>1, <1>4, <1>5, <3>1
      <3> QED BY <1>3, <3>1, <3>2, PlaceParts
    <2>3. x \in Places(new)
      <3>1. Len(heavy[B]) + 1 \in 1 .. Len(new[B])
        BY <1>1, <1>4, <1>5
      <3> QED BY <1>1, <1>3, <3>1, PlaceParts
    <2> HIDE DEF x
    <2> QED BY <2>1, <2>2, <2>3
  <1>8. ASSUME NEW e \in Places(heavy)
        PROVE  /\ new[e[1]][e[2]] = heavy[e[1]][e[2]]
               /\ heavy[e[1]][e[2]].allocs \in Nat
               /\ SiteAt(heavy, e) # site
    <2>1. /\ e[1] \in 0 .. TableSize - 1
          /\ e[2] \in 1 .. Len(heavy[e[1]]) /\ heavy[e[1]][e[2]] \in Entries
      BY PlaceParts
    <2>2. SiteAt(heavy, e) # site
      <3>1. Hash[SiteAt(heavy, e)] = e[1]
        BY DEF HeavyCounted
      <3> QED BY <1>1, <2>1, <3>1, Zenon DEF Known, SiteAt
    <2> QED BY <1>4, <1>5, <2>1, <2>2 DEF Entries
  <1>9. new[x[1]][x[2]] = entry
    BY <1>1, <1>4, <1>5
  <1>10. SiteAt(new, x) = site /\ new[x[1]][x[2]].allocs = 1 /\ x[1] = B
    BY <1>9 DEF SiteAt, entry
  <1>11. \A e \in Places(heavy) : SiteAt(new, e) = SiteAt(heavy, e)
    BY <1>8 DEF SiteAt
  <1> HIDE DEF x
  <1>12. IsFiniteSet(Places(new))
    BY <1>7, FS_AddElement DEF HeavyCounted
  <1>13. SumFunctionOnSet(AllocsIn(new), Places(new)) = n + 1
    <2> DEFINE a == AllocsIn(heavy)
               c == AllocsIn(new)
               S == Places(heavy)
    <2>1. \A e \in S \cup {x} : c[e] = new[e[1]][e[2]].allocs
      BY <1>7 DEF AllocsIn
    <2>2. \A e \in S : a[e] = heavy[e[1]][e[2]].allocs
      BY DEF AllocsIn
    <2>3. IsFiniteSet(S) /\ n = SumFunctionOnSet(a, S)
      BY DEF HeavyCounted
    <2> HIDE DEF a, c, S
    <2>4. \A e \in S : c[e] = a[e] /\ a[e] \in Nat
      BY <1>8, <2>1, <2>2 DEF S
    <2>5. c[x] = 1
      BY <1>10, <2>1
    <2>6. \A e \in S \cup {x} : c[e] \in Nat
      BY <2>4, <2>5
    <2>7. x \notin S
      BY <1>6 DEF S
    <2>8. SumFunctionOnSet(c, S \cup {x}) = c[x] + SumFunctionOnSet(c, S)
      BY <2>3, <2>6, <2>7, SumAdd
    <2>9. SumFunctionOnSet(c, S) = SumFunctionOnSet(a, S)
      BY <2>3, <2>4, SumCongruent
    <2>10. SumFunctionOnSet(a, S) \in Nat
      BY <2>3, <2>4, SumType
    <2> QED BY <1>7, <2>3, <2>5, <2>8, <2>9, <2>10 DEF S, c
  <1>14. \A e \in Places(new) : Hash[SiteAt(new, e)] = e[1]
    BY <1>7, <1>10, <1>11 DEF HeavyCounted, B
  <1>15. \A e, f \in Places(new) : SiteAt(new, e) = SiteAt(new, f) => e = f
    BY <1>7, <1>8, <1>10, <1>11 DEF HeavyCounted
  <1> QED BY <1>12, <1>13, <1>14, <1>15 DEF HeavyCounted, new

LEMMA FailedOK ==
    ASSUME NEW h \in Heaps, HeapOK(h), NEW sz \in Nat
    PROVE  HeapOK(Failed(h, sz)) /\ Failed(h, sz).running = h.running
               /\ Failed(h, sz).allocated = h.allocated
  <1> DEFINE f == Failed(h, sz)
  <1>1. f.root = h.root /\ f.meta = h.meta /\ f.allocated = h.allocated
            /\ f.running = h.running
    BY DEF Failed, Heaps
  <1>2. f \in Heaps
    <2>1. h.stats \in Statistics
      BY DEF Heaps
    <2>2. [h.stats EXCEPT !.nfail = @ + 1, !.fail_size = @ + sz] \in Statistics
      <3>1. \A st \in Statistics : [st EXCEPT !.nfail = @ + 1] \in Statistics
        BY DEF Statistics
      <3>2. \A st \in Statistics, n \in Nat : [st EXCEPT !.fail_size = n] \in Statistics
        BY DEF Statistics
      <3>3. h.stats.fail_size + sz \in Nat
        BY <2>1 DEF Statistics
      <3> QED BY <2>1, <3>1, <3>2, <3>3
    <2>3. f = [h EXCEPT !.stats = [h.stats EXCEPT !.nfail = @ + 1, !.fail_size = @ + sz]]
      BY Zenon DEF Failed
    <2> QED BY <2>2, <2>3 DEF Heaps
  <1>3. /\ f.stats.nactive = h.stats.nactive /\ f.stats.ntotal = h.stats.ntotal
        /\ f.stats.active_size = h.stats.active_size
        /\ f.stats.heap_min = h.stats.heap_min /\ f.stats.heap_max = h.stats.heap_max
        /\ f.heavy = h.heavy /\ f.unlisted = h.unlisted
    BY DEF Failed, Heaps, Statistics
  <1> HIDE DEF f
  <1>4. HeapOK(f)
    BY <1>1, <1>2, <1>3, HeapSame
  <1> QED BY <1>1, <1>4 DEF f

NewMeta(h, sz) ==
    [size |-> sz, is_active |-> TRUE, prev |-> h.root, next |-> Null, guarded |-> TRUE]

Linked(h, b, sz) ==
    [(IF h.root = Null THEN h.meta ELSE [h.meta EXCEPT ![h.root].next = b])
        EXCEPT ![b] = NewMeta(h, sz)]

LEMMA LinkedType ==
    ASSUME NEW h \in Heaps, NEW b \in Blocks, NEW sz \in 0 .. Word - 1
    PROVE  Linked(h, b, sz) \in [Blocks -> Metas]
  <1>1. h.meta \in [Blocks -> Metas] /\ h.root \in Blocks \cup {Null}
    BY DEF Heaps
  <1>2. NewMeta(h, sz) \in Metas
    BY <1>1 DEF NewMeta, Metas
  <1>3. \A m \in Metas : [m EXCEPT !.next = b] \in Metas
    BY DEF Metas
  <1>4. h.root # Null => [h.meta EXCEPT ![h.root].next = b] \in [Blocks -> Metas]
    BY <1>1, <1>3
  <1> QED BY <1>1, <1>2, <1>4 DEF Linked

\* No block is at address 0, which heap_min takes for none.
LEMMA AddressPositive ==
    ASSUME NEW b \in Blocks
    PROVE  Address(b) \in Nat /\ Address(b) >= 1 /\ Overhead \in Nat
  <1>1. b \in Nat /\ b >= 1 /\ Word + Overhead \in Nat /\ Word + Overhead >= 1
    BY M61Assumption DEF Blocks
  <1>2. \A w \in Nat : w >= 1 => b * w \in Nat /\ b * w >= 1
    BY <1>1
  <1> QED BY <1>1, <1>2, M61Assumption DEF Address

LEMMA CountedType ==
    ASSUME NEW s \in Statistics, NEW b \in Blocks, NEW sz \in Nat
    PROVE  LET top == Address(b) + sz + Overhead
               c == Counted(s, b, sz)
           IN  /\ c \in Statistics
               /\ c.nactive = s.nactive + 1
               /\ c.ntotal = s.ntotal + 1
               /\ c.active_size = s.active_size + sz
               /\ c.heap_min = IF s.heap_min = 0 \/ Address(b) < s.heap_min THEN Address(b)
                               ELSE s.heap_min
               /\ c.heap_max = IF top > s.heap_max THEN top ELSE s.heap_max
  <1>1. Address(b) \in Nat /\ Address(b) + sz + Overhead \in Nat
    BY AddressPositive
  <1> DEFINE low == IF s.heap_min = 0 \/ Address(b) < s.heap_min THEN Address(b) ELSE s.heap_min
             top == Address(b) + sz + Overhead
             high == IF top > s.heap_max THEN top ELSE s.heap_max
             c == [ nactive |-> s.nactive + 1, active_size |-> s.active_size + sz,
                    ntotal |-> s.ntotal + 1, total_size |-> s.total_size + sz,
                    nfail |-> s.nfail, fail_size |-> s.fail_size,
                    heap_min |-> low, heap_max |-> high ]
  <1>2. low \in Nat /\ high \in Nat
    BY <1>1 DEF Statistics
  <1>3. Counted(s, b, sz) = c
    <2>1. Counted(s, b, sz) =
              [s EXCEPT !.nactive = @ + 1, !.ntotal = @ + 1, !.active_size = @ + sz,
                        !.total_size = @ + sz, !.heap_min = low, !.heap_max = high]
      BY Zenon DEF Counted
    <2> HIDE DEF low, high
    <2> QED BY <2>1 DEF Statistics
  <1>4. c \in Statistics
    <2> HIDE DEF low, high
    <2> QED BY <1>2 DEF Statistics
  <1> QED BY <1>3, <1>4

LEMMA AllocateEffect ==
    ASSUME NEW h \in Heaps, NEW b \in Blocks, NEW sz \in 0 .. Word - 1, NEW site \in Sites
    PROVE  LET a == Allocate(h, b, sz, site)
           IN  /\ a \in Heaps
               /\ a.root = b /\ a.meta = Linked(h, b, sz)
               /\ a.allocated = h.allocated \cup {b}
               /\ a.stats = Counted(h.stats, b, sz)
               /\ a.heavy = (IF InTable(site) THEN fill_heavy(h.heavy, site, sz) ELSE h.heavy)
               /\ a.unlisted = (IF InTable(site) THEN h.unlisted ELSE h.unlisted + 1)
               /\ a.running = h.running
  <1> DEFINE st == Counted(h.stats, b, sz)
             he == IF InTable(site) THEN fill_heavy(h.heavy, site, sz) ELSE h.heavy
             ul == IF InTable(site) THEN h.unlisted ELSE h.unlisted + 1
             me == Linked(h, b, sz)
             a == Allocate(h, b, sz, site)
  <1>1. a = [ stats |-> st, root |-> b, meta |-> me, allocated |-> h.allocated \cup {b},
              payload |-> h.payload, heavy |-> he, unlisted |-> ul, report |-> h.report,
              running |-> h.running ]
    <2>1. Link(h, b, sz) = [h EXCEPT !.meta = me, !.root = b]
      BY Zenon DEF Link, Linked, NewMeta
    <2>2. a = [[h EXCEPT !.meta = me, !.root = b] EXCEPT
                  !.stats = st, !.allocated = @ \cup {b},
                  !.heavy = he, !.unlisted = ul]
      <3>1. Link(h, b, sz).heavy = h.heavy /\ Link(h, b, sz).unlisted = h.unlisted
        <4> HIDE DEF me
        <4> QED BY <2>1 DEF Heaps
      <3>2. a = [Link(h, b, sz) EXCEPT
                  !.stats = st, !.allocated = @ \cup {b},
                  !.heavy = IF InTable(site) THEN fill_heavy(@, site, sz) ELSE @,
                  !.unlisted = IF InTable(site) THEN @ ELSE @ + 1]
        BY Zenon DEF Allocate
      <3>3. a = [Link(h, b, sz) EXCEPT
                  !.stats = st, !.allocated = @ \cup {b}, !.heavy = he, !.unlisted = ul]
        BY <3>1, <3>2
      <3> QED BY <2>1, <3>3, Zenon
    <2> HIDE DEF st, me, he, ul, a
    <2> QED BY <2>2 DEF Heaps
  <1>2. sz \in Nat
    BY M61Assumption
  <1>3. st \in Statistics /\ he \in [0 .. TableSize - 1 -> Seq(Entries)] /\ ul \in Nat
            /\ me \in [Blocks -> Metas] /\ h.allocated \cup {b} \in SUBSET Blocks
            /\ h.payload \in [Blocks -> Metas \cup {Junk}]
            /\ h.report \in Reports /\ h.running \in BOOLEAN
    <2>1. h.stats \in Statistics /\ h.allocated \in SUBSET Blocks
            /\ h.heavy \in [0 .. TableSize - 1 -> Seq(Entries)] /\ h.unlisted \in Nat
            /\ h.payload \in [Blocks -> Metas \cup {Junk}]
            /\ h.report \in Reports /\ h.running \in BOOLEAN
      BY DEF Heaps
    <2>2. he \in [0 .. TableSize - 1 -> Seq(Entries)] /\ ul \in Nat
      BY <2>1, <1>2, FillHeavyType
    <2>3. st \in Statistics
      BY <2>1, <1>2, CountedType
    <2> HIDE DEF st, he, ul, me
    <2> QED BY <2>1, <2>2, <2>3, LinkedType DEF me
  <1> HIDE DEF st, he, ul, me
  <1>4. a \in Heaps
    BY <1>1, <1>3 DEF Heaps
  <1> QED BY <1>1, <1>4 DEF st, me, he, ul

LEMMA LinkedSizes ==
    ASSUME NEW h \in Heaps, NEW b \in Blocks, NEW sz \in 0 .. Word - 1
    PROVE  /\ Linked(h, b, sz)[b].size = sz
           /\ \A x \in Blocks \ {b} : Linked(h, b, sz)[x].size = h.meta[x].size
  <1> DEFINE before == IF h.root = Null THEN h.meta ELSE [h.meta EXCEPT ![h.root].next = b]
  <1>1. h.meta \in [Blocks -> Metas] /\ h.root \in Blocks \cup {Null}
    BY DEF Heaps
  <1>2. \A m \in Metas : LET u == [m EXCEPT !.next = b] IN u \in Metas /\ u.size = m.size
    BY DEF Metas
  <1>3. before \in [Blocks -> Metas] /\ \A x \in Blocks : before[x].size = h.meta[x].size
    <2>1. CASE h.root = Null
      BY <1>1, <2>1
    <2>2. CASE h.root # Null
      <3>1. h.root \in Blocks /\ before = [h.meta EXCEPT ![h.root].next = b]
        BY <1>1, <2>2
      <3>2. before \in [Blocks -> Metas]
        BY <1>1, <1>2, <3>1
      <3>3. \A x \in Blocks : before[x] = IF x = h.root THEN [h.meta[x] EXCEPT !.next = b]
                                           ELSE h.meta[x]
        BY <1>1, <3>1
      <3>4. \A x \in Blocks : h.meta[x] \in Metas
        BY <1>1
      <3> HIDE DEF before
      <3> QED BY <1>2, <3>2, <3>3, <3>4
    <2> QED BY <2>1, <2>2
  <1>4. Linked(h, b, sz) = [before EXCEPT ![b] = NewMeta(h, sz)]
    BY DEF Linked
  <1> HIDE DEF before
  <1>5. NewMeta(h, sz).size = sz
    BY DEF NewMeta
  <1> QED BY <1>3, <1>4, <1>5

\* The sum of the live sizes grows by that of the new block, which heap_min and
\* heap_max take in.
LEMMA AllocateSizes ==
    ASSUME NEW h \in Heaps, SizesRight(h), NEW b \in Blocks \ h.allocated,
           NEW sz \in 0 .. Word - 1,
           NEW a, a.meta = Linked(h, b, sz), a.allocated = h.allocated \cup {b},
           a.stats = Counted(h.stats, b, sz)
    PROVE  SizesRight(a)
  <1>1. /\ h.stats \in Statistics /\ h.allocated \in SUBSET Blocks
        /\ h.meta \in [Blocks -> Metas] /\ sz \in Nat
    BY M61Assumption DEF Heaps
  <1>2. IsFiniteSet(h.allocated)
    BY LiveType
  <1>3. /\ a.stats.active_size = h.stats.active_size + sz
        /\ a.stats.heap_min =
               IF h.stats.heap_min = 0 \/ Address(b) < h.stats.heap_min THEN Address(b)
               ELSE h.stats.heap_min
        /\ a.stats.heap_max =
               IF Address(b) + sz + Overhead > h.stats.heap_max THEN Address(b) + sz + Overhead
               ELSE h.stats.heap_max
    BY <1>1, CountedType
  <1>4. a.meta[b].size = sz /\ \A x \in h.allocated : a.meta[x].size = h.meta[x].size
    BY <1>1, LinkedSizes
  <1>5. \A x \in h.allocated : h.meta[x].size \in Nat
    BY <1>1, M61Assumption DEF Metas
  <1>6. a.stats.active_size = SumFunctionOnSet(Sizes(a), a.allocated)
    <2> DEFINE f == Sizes(a)
               e == Sizes(h)
               S == h.allocated
    <2>1. f[b] = sz /\ \A x \in S : f[x] = e[x] /\ f[x] \in Nat
      BY <1>4, <1>5 DEF Sizes
    <2>2. h.stats.active_size = SumFunctionOnSet(e, S)
      BY DEF SizesRight
    <2> HIDE DEF f, e
    <2>3. SumFunctionOnSet(f, S) = SumFunctionOnSet(e, S)
      BY <1>2, <2>1, SumCongruent
    <2>4. \A x \in S \cup {b} : f[x] \in Nat
      BY <1>1, <2>1
    <2>5. b \notin S
      OBVIOUS
    <2>6. SumFunctionOnSet(f, S \cup {b}) = f[b] + SumFunctionOnSet(f, S)
      BY <1>2, <2>4, <2>5, SumAdd
    <2>7. SumFunctionOnSet(f, S) \in Nat
      BY <1>2, <2>1, SumType
    <2> QED BY <1>1, <1>3, <2>1, <2>2, <2>3, <2>6, <2>7 DEF f
  <1>7. ASSUME NEW c \in a.allocated
        PROVE  /\ 1 <= a.stats.heap_min /\ a.stats.heap_min <= Address(c)
               /\ Address(c) + a.meta[c].size + Overhead <= a.stats.heap_max
    <2>1. c \in Blocks /\ Address(c) \in Nat /\ Address(b) \in Nat
            /\ Address(b) >= 1 /\ Overhead \in Nat
            /\ h.stats.heap_min \in Nat /\ h.stats.heap_max \in Nat
      BY <1>1, AddressPositive DEF Statistics
    <2>2. CASE c = b
      BY <1>1, <1>3, <1>4, <2>1, <2>2
    <2>3. CASE c # b
      <3>1. /\ 1 <= h.stats.heap_min /\ h.stats.heap_min <= Address(c)
            /\ Address(c) + a.meta[c].size + Overhead <= h.stats.heap_max
            /\ a.meta[c].size \in Nat
        BY <1>4, <1>5, <2>3 DEF SizesRight
      <3> QED BY <1>1, <1>3, <2>1, <3>1
    <2> QED BY <2>2, <2>3
  <1> QED BY <1>6, <1>7 DEF SizesRight

LEMMA LinkedListed ==
    ASSUME NEW h \in Heaps, Listed(h), NEW b \in Blocks \ h.allocated, NEW sz \in 0 .. Word - 1
    PROVE  /\ Cardinality(h.allocated \cup {b}) = Live(h) + 1
           /\ \E t \in [1 .. Live(h) + 1 -> h.allocated \cup {b}] :
                 Lists(t, b, Linked(h, b, sz), h.allocated \cup {b})
  <1> DEFINE n == Live(h)
             live == h.allocated \cup {b}
             me == Linked(h, b, sz)
  <1>1. n \in Nat /\ Cardinality(live) = n + 1
    BY LiveType, FS_AddElement DEF Live
  <1>2. PICK s \in [1 .. n -> h.allocated] : Lists(s, h.root, h.meta, h.allocated)
    BY DEF Listed
  <1>3. /\ \A i, j \in 1 .. n : s[i] = s[j] => i = j
        /\ h.root = IF n = 0 THEN Null ELSE s[n]
        /\ \A i \in 1 .. n :
              /\ h.meta[s[i]].is_active
              /\ h.meta[s[i]].prev = IF i = 1 THEN Null ELSE s[i - 1]
              /\ h.meta[s[i]].next = IF i = n THEN Null ELSE s[i + 1]
    BY <1>2, Zenon DEF Lists, Live
  <1>4. h.meta \in [Blocks -> Metas] /\ h.allocated \subseteq Blocks
            /\ Null \notin Blocks
    BY M61Assumption DEF Heaps
  <1> HIDE DEF n
  <1>5. \A i \in 1 .. n : s[i] \in Blocks /\ s[i] # b /\ s[i] # Null
    BY <1>2, <1>4
  <1>6. me[b] = NewMeta(h, sz)
    BY <1>4, LinkedType DEF Linked
  <1>7. \A i \in 1 .. n :
            /\ me[s[i]].is_active
            /\ me[s[i]].prev = h.meta[s[i]].prev
            /\ me[s[i]].next = IF i = n THEN b ELSE h.meta[s[i]].next
    <2> SUFFICES ASSUME NEW i \in 1 .. n
                 PROVE  /\ me[s[i]].is_active
                        /\ me[s[i]].prev = h.meta[s[i]].prev
                        /\ me[s[i]].next = IF i = n THEN b ELSE h.meta[s[i]].next
      OBVIOUS
    <2>1. h.root # Null /\ h.root = s[n] /\ h.root \in Blocks
      BY <1>1, <1>3, <1>5
    <2>2. me[s[i]] = [h.meta EXCEPT ![s[n]].next = b][s[i]]
      BY <1>4, <1>5, <2>1 DEF Linked
    <2>3. CASE i = n
      <3>1. me[s[i]] = [h.meta[s[i]] EXCEPT !.next = b]
        BY <1>4, <1>5, <2>2, <2>3
      <3>2. h.meta[s[i]] \in Metas
        BY <1>4, <1>5
      <3> QED BY <1>3, <2>3, <3>1, <3>2 DEF Metas
    <2>4. CASE i # n
      <3>1. s[i] # s[n]
        BY <1>1, <1>3, <2>4
      <3> QED BY <1>3, <1>4, <1>5, <2>2, <2>4, <3>1
    <2> QED BY <2>3, <2>4
  <1> DEFINE t == [i \in 1 .. n + 1 |-> IF i = n + 1 THEN b ELSE s[i]]
  <1> HIDE DEF me
  <1>8. t \in [1 .. n + 1 -> live]
    BY <1>1, <1>2
  <1>9. \A i, j \in 1 .. n + 1 : t[i] = t[j] => i = j
    BY <1>1, <1>3, <1>5
  <1>10. \A i \in 1 .. n + 1 :
            /\ me[t[i]].is_active
            /\ me[t[i]].prev = IF i = 1 THEN Null ELSE t[i - 1]
            /\ me[t[i]].next = IF i = n + 1 THEN Null ELSE t[i + 1]
    <2> SUFFICES ASSUME NEW i \in 1 .. n + 1
                 PROVE  /\ me[t[i]].is_active
                        /\ me[t[i]].prev = IF i = 1 THEN Null ELSE t[i - 1]
                        /\ me[t[i]].next = IF i = n + 1 THEN Null ELSE t[i + 1]
      OBVIOUS
    <2>1. CASE i = n + 1
      <3>1. t[i] = b
        BY <2>1
      <3>2. n # 0 => t[n] = s[n]
        BY <1>1
      <3>3. me[b].is_active /\ me[b].prev = h.root /\ me[b].next = Null
        BY <1>6 DEF NewMeta
      <3>4. i - 1 = n /\ (i = 1 <=> n = 0)
        BY <1>1, <2>1
      <3>5. h.root = IF i = 1 THEN Null ELSE t[i - 1]
        BY <1>3, <3>2, <3>4
      <3> QED BY <2>1, <3>1, <3>3, <3>5
    <2>2. CASE i # n + 1
      <3>1. i \in 1 .. n /\ t[i] = s[i] /\ t[i + 1] = IF i = n THEN b ELSE s[i + 1]
        BY <1>1, <2>2
      <3>2. i # 1 => t[i - 1] = s[i - 1]
        BY <1>1, <3>1
      <3> QED BY <1>1, <1>3, <1>7, <2>2, <3>1, <3>2
    <2> QED BY <2>1, <2>2
  <1>11. Lists(t, b, me, live)
    <2>1. b = IF n + 1 = 0 THEN Null ELSE t[n + 1]
      BY <1>1
    <2> HIDE DEF t, live
    <2> QED BY <1>1, <1>8, <1>9, <1>10, <2>1, Zenon DEF Lists
  <1> QED BY <1>1, <1>8, <1>11 DEF me, n

LEMMA AllocateOK ==
    ASSUME NEW h \in Heaps, HeapOK(h), NEW b \in Blocks \ h.allocated,
           NEW sz \in 0 .. Word - 1, NEW site \in Sites
    PROVE  HeapOK(Allocate(h, b, sz, site)) /\ Allocate(h, b, sz, site).running = h.running
               /\ Allocate(h, b, sz, site).allocated = h.allocated \cup {b}
  <1> DEFINE a == Allocate(h, b, sz, site)
  <1>1. /\ a \in Heaps
        /\ a.root = b /\ a.meta = Linked(h, b, sz)
        /\ a.allocated = h.allocated \cup {b}
        /\ a.stats = Counted(h.stats, b, sz)
        /\ a.heavy = (IF InTable(site) THEN fill_heavy(h.heavy, site, sz) ELSE h.heavy)
        /\ a.unlisted = (IF InTable(site) THEN h.unlisted ELSE h.unlisted + 1)
        /\ a.running = h.running
    BY AllocateEffect
  <1> HIDE DEF a
  <1>2. Listed(h)
    BY DEF HeapOK
  <1>3. Live(a) = Live(h) + 1
    BY <1>1, <1>2, LinkedListed DEF Live
  <1>4. CountedRight(a)
    <2>1. h.stats \in Statistics /\ sz \in Nat
      BY M61Assumption DEF Heaps
    <2>2. a.stats.nactive = h.stats.nactive + 1 /\ a.stats.ntotal = h.stats.ntotal + 1
      BY <1>1, <2>1, CountedType
    <2> QED BY <1>3, <2>1, <2>2 DEF HeapOK, CountedRight, Statistics
  <1>5. Listed(a)
    <2>1. PICK t \in [1 .. Live(h) + 1 -> h.allocated \cup {b}] :
              Lists(t, b, Linked(h, b, sz), h.allocated \cup {b})
      BY <1>2, LinkedListed
    <2> QED BY <1>1, <1>3, <2>1 DEF Listed
  <1>6. SizesRight(a)
    BY <1>1, AllocateSizes DEF HeapOK
  <1>7. HeavyRight(a)
    <2>1. h.stats \in Statistics /\ h.heavy \in Tables /\ h.unlisted \in Nat /\ sz \in Nat
      BY M61Assumption DEF Heaps, Tables
    <2>2. a.stats.ntotal = h.stats.ntotal + 1 /\ h.stats.ntotal \in Nat
      BY <1>1, <2>1, CountedType DEF Statistics
    <2>3. HeavyCounted(h.heavy, h.stats.ntotal - h.unlisted)
      BY DEF HeapOK, HeavyRight
    <2>4. CASE InTable(site)
      <3>1. HeavyCounted(fill_heavy(h.heavy, site, sz), (h.stats.ntotal - h.unlisted) + 1)
        BY <2>1, <2>3, <2>4, FillHeavyKnown, FillHeavyNew
      <3>2. a.heavy = fill_heavy(h.heavy, site, sz) /\ a.unlisted = h.unlisted
        BY <1>1, <2>4
      <3>3. (h.stats.ntotal - h.unlisted) + 1 = a.stats.ntotal - a.unlisted
        BY <2>1, <2>2, <3>2
      <3> QED BY <3>1, <3>2, <3>3 DEF HeavyRight
    <2>5. CASE ~ InTable(site)
      <3>1. a.heavy = h.heavy /\ a.unlisted = h.unlisted + 1
        BY <1>1, <2>5
      <3>2. h.stats.ntotal - h.unlisted = a.stats.ntotal - a.unlisted
        BY <2>1, <2>2, <3>1
      <3> QED BY <2>3, <3>1, <3>2 DEF HeavyRight
    <2> QED BY <2>4, <2>5
  <1> QED BY <1>1, <1>4, <1>5, <1>6, <1>7 DEF HeapOK, a

\* Whatever the outcome, the heap is in order, and it names no block as returned
\* that is not live in it.
LEMMA MallocsOK ==
    ASSUME NEW h \in Heaps, HeapOK(h), NEW sz \in 0 .. Word - 1, NEW site \in Sites,
           NEW r \in Mallocs(h, sz, site)
    PROVE  HeapOK(r[1]) /\ (r[2] # Null => r[2] \in r[1].allocated)
  <1>1. sz \in Nat
    BY M61Assumption
  <1>2. CASE r = <<Failed(h, sz), Null>>
    BY <1>1, <1>2, FailedOK
  <1>3. CASE r = <<Killed("none"), Null>>
    BY <1>3, KilledOK DEF Reports
  <1>4. ASSUME NEW b \in Blocks \ h.allocated, r = <<Allocate(h, b, sz, site), b>>
        PROVE  HeapOK(r[1]) /\ r[2] \in r[1].allocated
    BY <1>4, AllocateOK
  <1> QED BY <1>2, <1>3, <1>4, Zenon DEF Mallocs

-----------------------------------------------------------------------------
(* m61_free *)

\* The list, with what the number of its members adds: every live block is on it.
LEMMA ListFacts ==
    ASSUME NEW h \in Heaps, Listed(h)
    PROVE  \E s \in [1 .. Live(h) -> h.allocated] :
              /\ \A i, j \in 1 .. Live(h) : s[i] = s[j] => i = j
              /\ \A b \in h.allocated : \E i \in 1 .. Live(h) : s[i] = b
              /\ h.root = IF Live(h) = 0 THEN Null ELSE s[Live(h)]
              /\ \A i \in 1 .. Live(h) :
                    /\ h.meta[s[i]].is_active
                    /\ h.meta[s[i]].prev = IF i = 1 THEN Null ELSE s[i - 1]
                    /\ h.meta[s[i]].next = IF i = Live(h) THEN Null ELSE s[i + 1]
  <1> DEFINE n == Live(h)
  <1>1. PICK s \in [1 .. n -> h.allocated] : Lists(s, h.root, h.meta, h.allocated)
    BY DEF Listed
  <1>2. /\ \A i, j \in 1 .. n : s[i] = s[j] => i = j
        /\ h.root = IF n = 0 THEN Null ELSE s[n]
        /\ \A i \in 1 .. n :
              /\ h.meta[s[i]].is_active
              /\ h.meta[s[i]].prev = IF i = 1 THEN Null ELSE s[i - 1]
              /\ h.meta[s[i]].next = IF i = n THEN Null ELSE s[i + 1]
    BY <1>1, Zenon DEF Lists, Live
  <1>3. \A b \in h.allocated : \E i \in 1 .. n : s[i] = b
    <2>1. s \in Injection(1 .. n, h.allocated)
      BY <1>1, <1>2 DEF Injection, IsInjective
    <2>2. IsFiniteSet(h.allocated) /\ n \in Nat
      BY LiveType
    <2>3. Cardinality(1 .. n) = Cardinality(h.allocated)
      BY <2>2, FS_Interval DEF Live
    <2>4. s \in Surjection(1 .. n, h.allocated)
      BY <2>1, <2>2, <2>3, FS_Injection
    <2> QED BY <2>4 DEF Surjection
  <1> QED BY <1>1, <1>2, <1>3

Released(h, b) ==
    LET m == h.meta[b]
        ahead == IF m.next = Null THEN h.meta ELSE [h.meta EXCEPT ![m.next].prev = m.prev]
        unlinked ==
            IF h.root = b
            THEN IF m.prev = Null THEN h.meta ELSE [h.meta EXCEPT ![m.prev].next = Null]
            ELSE IF m.prev = Null THEN ahead ELSE [ahead EXCEPT ![m.prev].next = m.next]
    IN  [unlinked EXCEPT ![b] = NoMeta]

LEMMA NoMetaType == NoMeta \in Metas
  BY M61Assumption DEF NoMeta, Metas

LEMMA ReleasedType ==
    ASSUME NEW h \in Heaps, NEW b \in Blocks
    PROVE  Released(h, b) \in [Blocks -> Metas]
  <1>1. h.meta \in [Blocks -> Metas] /\ h.meta[b].next \in Blocks \cup {Null}
            /\ h.meta[b].prev \in Blocks \cup {Null}
    BY DEF Heaps, Metas
  <1>2. \A me \in [Blocks -> Metas], x \in Blocks, y \in Blocks \cup {Null} :
            /\ [me EXCEPT ![x].next = y] \in [Blocks -> Metas]
            /\ [me EXCEPT ![x].prev = y] \in [Blocks -> Metas]
    <2>1. \A m \in Metas, y \in Blocks \cup {Null} :
              [m EXCEPT !.next = y] \in Metas /\ [m EXCEPT !.prev = y] \in Metas
      BY DEF Metas
    <2> QED BY <2>1
  <1> QED BY <1>1, <1>2, NoMetaType DEF Released

\* What the unlinking leaves of the block x: it passes over b.
LEMMA ReleasedLinks ==
    ASSUME NEW h \in Heaps, NEW b \in Blocks, NEW x \in Blocks \ {b},
           h.root = b => h.meta[b].next = Null
    PROVE  LET m == h.meta[b]
               y == Released(h, b)[x]
           IN  /\ y.is_active = h.meta[x].is_active
               /\ y.size = h.meta[x].size
               /\ y.prev = IF x = m.next THEN m.prev ELSE h.meta[x].prev
               /\ y.next = IF x = m.prev THEN m.next ELSE h.meta[x].next
  <1> DEFINE m == h.meta[b]
             ahead == IF m.next = Null THEN h.meta ELSE [h.meta EXCEPT ![m.next].prev = m.prev]
  <1>1. h.meta \in [Blocks -> Metas] /\ m.next \in Blocks \cup {Null}
            /\ m.prev \in Blocks \cup {Null} /\ Null \notin Blocks
    BY M61Assumption DEF Heaps, Metas
  <1>2. \A me \in [Blocks -> Metas], z \in Blocks, y \in Blocks \cup {Null} :
            LET nx == [me EXCEPT ![z].next = y]
                pv == [me EXCEPT ![z].prev = y]
            IN  /\ nx \in [Blocks -> Metas] /\ pv \in [Blocks -> Metas]
                /\ nx[x].is_active = me[x].is_active /\ nx[x].size = me[x].size
                /\ nx[x].prev = me[x].prev
                /\ nx[x].next = IF x = z THEN y ELSE me[x].next
                /\ pv[x].is_active = me[x].is_active /\ pv[x].size = me[x].size
                /\ pv[x].prev = IF x = z THEN y ELSE me[x].prev
                /\ pv[x].next = me[x].next
    <2> SUFFICES ASSUME NEW me \in [Blocks -> Metas], NEW z \in Blocks,
                        NEW y \in Blocks \cup {Null}
                 PROVE  LET nx == [me EXCEPT ![z].next = y]
                            pv == [me EXCEPT ![z].prev = y]
                        IN  /\ nx \in [Blocks -> Metas] /\ pv \in [Blocks -> Metas]
                            /\ nx[x].is_active = me[x].is_active /\ nx[x].size = me[x].size
                            /\ nx[x].prev = me[x].prev
                            /\ nx[x].next = IF x = z THEN y ELSE me[x].next
                            /\ pv[x].is_active = me[x].is_active /\ pv[x].size = me[x].size
                            /\ pv[x].prev = IF x = z THEN y ELSE me[x].prev
                            /\ pv[x].next = me[x].next
      OBVIOUS
    <2> DEFINE nx == [me EXCEPT ![z].next = y]
               pv == [me EXCEPT ![z].prev = y]
    <2>1. \A k \in Metas :
             LET kn == [k EXCEPT !.next = y]
                 kp == [k EXCEPT !.prev = y]
             IN  /\ kn \in Metas /\ kn.is_active = k.is_active /\ kn.prev = k.prev /\ kn.next = y
                 /\ kp \in Metas /\ kp.is_active = k.is_active /\ kp.next = k.next /\ kp.prev = y
                 /\ kn.size = k.size /\ kp.size = k.size
      BY DEF Metas
    <2>2. nx \in [Blocks -> Metas] /\ pv \in [Blocks -> Metas]
      BY <2>1
    <2>3. nx[x] = IF x = z THEN [me[x] EXCEPT !.next = y] ELSE me[x]
      OBVIOUS
    <2>4. pv[x] = IF x = z THEN [me[x] EXCEPT !.prev = y] ELSE me[x]
      OBVIOUS
    <2>5. me[x] \in Metas
      OBVIOUS
    <2> QED BY <2>1, <2>2, <2>3, <2>4, <2>5
  <1>3. Released(h, b)[x] =
            (IF h.root = b
             THEN IF m.prev = Null THEN h.meta ELSE [h.meta EXCEPT ![m.prev].next = Null]
             ELSE IF m.prev = Null THEN ahead ELSE [ahead EXCEPT ![m.prev].next = m.next])[x]
    <2>1. ahead \in [Blocks -> Metas]
      BY <1>1, <1>2
    <2> HIDE DEF ahead
    <2>2. (IF h.root = b
             THEN IF m.prev = Null THEN h.meta ELSE [h.meta EXCEPT ![m.prev].next = Null]
             ELSE IF m.prev = Null THEN ahead ELSE [ahead EXCEPT ![m.prev].next = m.next])
               \in [Blocks -> Metas]
      BY <1>1, <1>2, <2>1
    <2> QED BY <2>2 DEF Released, ahead
  <1>4. /\ ahead \in [Blocks -> Metas]
        /\ ahead[x].is_active = h.meta[x].is_active /\ ahead[x].size = h.meta[x].size
        /\ ahead[x].prev = IF x = m.next THEN m.prev ELSE h.meta[x].prev
        /\ ahead[x].next = h.meta[x].next
    <2> HIDE DEF m
    <2>1. CASE m.next = Null
      BY <1>1, <2>1
    <2>2. CASE m.next # Null
      <3>1. ahead = [h.meta EXCEPT ![m.next].prev = m.prev]
        BY <2>2
      <3>2. h.meta[x] \in Metas /\ h.meta[m.next] \in Metas /\ m.next \in Blocks
        BY <1>1, <2>2
      <3>3. ahead[x] = IF x = m.next THEN [h.meta[x] EXCEPT !.prev = m.prev] ELSE h.meta[x]
        BY <1>1, <3>1, <3>2
      <3>4. \A k \in Metas :
                /\ [k EXCEPT !.prev = m.prev].prev = m.prev
                /\ [k EXCEPT !.prev = m.prev].next = k.next
                /\ [k EXCEPT !.prev = m.prev].is_active = k.is_active
                /\ [k EXCEPT !.prev = m.prev].size = k.size
        BY DEF Metas
      <3>5. ahead \in [Blocks -> Metas]
        <4>1. \A me \in [Blocks -> Metas], z \in Blocks, y \in Blocks \cup {Null} :
                  [me EXCEPT ![z].prev = y] \in [Blocks -> Metas]
          BY <1>2, Zenon
        <4> QED BY <1>1, <3>1, <3>2, <4>1
      <3> HIDE DEF ahead
      <3> QED BY <3>2, <3>3, <3>4, <3>5
    <2> QED BY <2>1, <2>2
  <1> HIDE DEF ahead, m
  <1>5. CASE h.root = b
    <2>1. m.next = Null
      BY <1>5 DEF m
    <2>2. CASE m.prev = Null
      BY <1>1, <1>3, <1>5, <2>1, <2>2 DEF m
    <2>3. CASE m.prev # Null
      <3>1. Released(h, b)[x] = [h.meta EXCEPT ![m.prev].next = Null][x]
        BY <1>3, <1>5, <2>3
      <3> QED BY <1>1, <1>2, <2>1, <2>3, <3>1 DEF m
    <2> QED BY <2>2, <2>3
  <1>6. CASE h.root # b
    <2>1. CASE m.prev = Null
      BY <1>1, <1>3, <1>4, <1>6, <2>1 DEF m
    <2>2. CASE m.prev # Null
      <3>1. Released(h, b)[x] = [ahead EXCEPT ![m.prev].next = m.next][x]
        BY <1>3, <1>6, <2>2
      <3> QED BY <1>1, <1>2, <1>4, <2>2, <3>1 DEF m
    <2> QED BY <2>1, <2>2
  <1> QED BY <1>5, <1>6

LEMMA BlockOfStart ==
    ASSUME NEW b \in Blocks
    PROVE  Block(<<b, "start">>) = b /\ <<b, "start">> \in Pointers
  BY DEF Block, Pointers

LEMMA ReleaseEffect ==
    ASSUME NEW h \in Heaps, NEW b \in h.allocated, h.stats.nactive >= 1
    PROVE  LET r == Release(h, h.meta[b], <<b, "start">>)
           IN  /\ r \in Heaps
               /\ r.root = IF h.root = b THEN h.meta[b].prev ELSE h.root
               /\ r.meta = Released(h, b)
               /\ r.allocated = h.allocated \ {b}
               /\ r.stats.nactive = h.stats.nactive - 1
               /\ r.stats.ntotal = h.stats.ntotal
               /\ r.stats.active_size = h.stats.active_size - h.meta[b].size
               /\ r.stats.heap_min = h.stats.heap_min /\ r.stats.heap_max = h.stats.heap_max
               /\ r.heavy = h.heavy /\ r.unlisted = h.unlisted
               /\ r.running = h.running /\ r.report = "freed"
  <1> DEFINE m == h.meta[b]
             ptr == <<b, "start">>
             r == Release(h, m, ptr)
             st == [h.stats EXCEPT !.nactive = @ - 1, !.active_size = @ - m.size]
             ro == IF h.root = b THEN m.prev ELSE h.root
             ahead == IF m.next = Null THEN h.meta ELSE [h.meta EXCEPT ![m.next].prev = m.prev]
             un == IF h.root = b
                   THEN IF m.prev = Null THEN h.meta ELSE [h.meta EXCEPT ![m.prev].next = Null]
                   ELSE IF m.prev = Null THEN ahead ELSE [ahead EXCEPT ![m.prev].next = m.next]
             pa == [h.payload EXCEPT ![b] = Junk]
             u == Unlink([h EXCEPT !.stats = st], m, ptr)
  <1>1. b \in Blocks /\ Block(ptr) = b /\ h.allocated \in SUBSET Blocks
    BY BlockOfStart DEF Heaps
  <1>2. m \in Metas /\ ro \in Blocks \cup {Null}
    BY <1>1 DEF Heaps, Metas
  <1>3. /\ st \in Statistics /\ st.nactive = h.stats.nactive - 1 /\ st.ntotal = h.stats.ntotal
        /\ st.active_size = h.stats.active_size - m.size
        /\ st.heap_min = h.stats.heap_min /\ st.heap_max = h.stats.heap_max
    <2>1. m.size \in Int /\ h.stats \in Statistics
      BY <1>2, M61Assumption DEF Metas, Heaps
    <2> HIDE DEF m
    <2>2. h.stats.nactive - 1 \in Nat /\ h.stats.active_size - m.size \in Int
      BY <2>1 DEF Statistics
    <2>3. st = [h.stats EXCEPT !.nactive = h.stats.nactive - 1,
                               !.active_size = h.stats.active_size - m.size]
      BY <2>1 DEF Statistics
    <2> DEFINE i == h.stats.nactive - 1
               d == h.stats.active_size - m.size
    <2> HIDE DEF i, d, st
    <2>4. st = [h.stats EXCEPT !.nactive = i, !.active_size = d] /\ i \in Nat /\ d \in Int
      BY <2>2, <2>3 DEF i, d
    <2>5. /\ st \in Statistics /\ st.nactive = i /\ st.ntotal = h.stats.ntotal
          /\ st.active_size = d
          /\ st.heap_min = h.stats.heap_min /\ st.heap_max = h.stats.heap_max
      BY <2>1, <2>4 DEF Statistics
    <2> QED BY <2>5 DEF i, d
  <1>4. pa \in [Blocks -> Metas \cup {Junk}]
    BY <1>1 DEF Heaps
  <1>5. u = [ stats |-> st, root |-> ro, meta |-> un, allocated |-> h.allocated,
              payload |-> h.payload, heavy |-> h.heavy, unlisted |-> h.unlisted,
              report |-> h.report, running |-> h.running ]
    <2> DEFINE g == [h EXCEPT !.stats = st]
    <2>1. g = [ stats |-> st, root |-> h.root, meta |-> h.meta, allocated |-> h.allocated,
                payload |-> h.payload, heavy |-> h.heavy, unlisted |-> h.unlisted,
                report |-> h.report, running |-> h.running ]
      BY DEF Heaps
    <2>2. g.root = h.root /\ g.meta = h.meta
      BY <2>1
    <2> HIDE DEF g, st
    <2>3. u = Unlink(g, m, ptr)
      BY DEF g
    <2> HIDE DEF u
    <2>4. CASE h.root = b
      <3>1. u = [g EXCEPT !.root = m.prev,
                          !.meta = IF m.prev = Null THEN g.meta
                                   ELSE [g.meta EXCEPT ![m.prev].next = Null]]
        BY <1>1, <2>2, <2>3, <2>4, Zenon DEF Unlink
      <3>2. un = IF m.prev = Null THEN g.meta ELSE [g.meta EXCEPT ![m.prev].next = Null]
        BY <2>2, <2>4
      <3>3. ro = m.prev
        BY <2>4
      <3>4. u = [g EXCEPT !.root = ro, !.meta = un]
        BY <3>1, <3>2, <3>3, Zenon
      <3> HIDE DEF u, un, ro
      <3> QED BY <2>1, <3>4
    <2>5. CASE h.root # b
      <3>1. u = [g EXCEPT !.meta = un]
        BY <1>1, <2>2, <2>3, <2>5, Zenon DEF Unlink
      <3>2. ro = h.root
        BY <2>5
      <3> HIDE DEF u, un, ro
      <3> QED BY <2>1, <3>1, <3>2
    <2> QED BY <2>4, <2>5
  <1>6. r = [u EXCEPT !.meta[b] = NoMeta, !.payload[b] = Junk,
                      !.allocated = @ \ {b}, !.report = "freed"]
    BY <1>1, Zenon DEF Release
  <1>7. [un EXCEPT ![b] = NoMeta] = Released(h, b)
    BY Zenon DEF Released
  <1> HIDE DEF u, un, st, ro, m, ptr
  <1>8. r = [ stats |-> st, root |-> ro, meta |-> Released(h, b),
              allocated |-> h.allocated \ {b}, payload |-> pa, heavy |-> h.heavy,
              unlisted |-> h.unlisted, report |-> "freed", running |-> h.running ]
    BY <1>5, <1>6, <1>7
  <1> HIDE DEF pa, r
  <1>9. r \in Heaps
    <2>1. h.allocated \ {b} \in SUBSET Blocks /\ Released(h, b) \in [Blocks -> Metas]
              /\ h.heavy \in [0 .. TableSize - 1 -> Seq(Entries)] /\ h.unlisted \in Nat
              /\ h.running \in BOOLEAN /\ "freed" \in Reports
      BY <1>1, ReleasedType DEF Heaps, Reports
    <2> QED BY <1>2, <1>3, <1>4, <1>8, <2>1, HeapType
  <1> QED BY <1>3, <1>8, <1>9 DEF r, ro, m, ptr

LEMMA ReleasedListed ==
    ASSUME NEW h \in Heaps, Listed(h), NEW b \in h.allocated,
           NEW r, r.root = IF h.root = b THEN h.meta[b].prev ELSE h.root,
           r.meta = Released(h, b), r.allocated = h.allocated \ {b}
    PROVE  Live(r) = Live(h) - 1 /\ Live(h) >= 1 /\ Listed(r)
  <1> DEFINE n == Live(h)
             m == h.meta[b]
  <1>1. PICK s \in [1 .. n -> h.allocated] :
              /\ \A i, j \in 1 .. n : s[i] = s[j] => i = j
              /\ \A c \in h.allocated : \E i \in 1 .. n : s[i] = c
              /\ h.root = IF n = 0 THEN Null ELSE s[n]
              /\ \A i \in 1 .. n :
                    /\ h.meta[s[i]].is_active
                    /\ h.meta[s[i]].prev = IF i = 1 THEN Null ELSE s[i - 1]
                    /\ h.meta[s[i]].next = IF i = n THEN Null ELSE s[i + 1]
    BY ListFacts
  <1>2. PICK k \in 1 .. n : s[k] = b
    BY <1>1
  <1>3. n \in Nat /\ n >= 1 /\ Live(r) = n - 1
    <2>1. IsFiniteSet(h.allocated) /\ n \in Nat
      BY LiveType
    <2>2. Cardinality(h.allocated \ {b}) = n - 1
      BY <2>1, FS_RemoveElement DEF Live
    <2> HIDE DEF n
    <2> QED BY <1>2, <2>1, <2>2 DEF Live
  <1>4. h.allocated \subseteq Blocks /\ Null \notin Blocks
    BY M61Assumption DEF Heaps
  <1> HIDE DEF n
  <1>5. \A i \in 1 .. n : s[i] \in Blocks /\ s[i] # Null
    BY <1>1, <1>4
  <1>6. m.prev = (IF k = 1 THEN Null ELSE s[k - 1]) /\ m.next = IF k = n THEN Null ELSE s[k + 1]
    BY <1>1, <1>2
  <1>7. h.root = s[n] /\ (h.root = b <=> k = n)
    BY <1>1, <1>2, <1>3
  <1> DEFINE t == [i \in 1 .. n - 1 |-> IF i < k THEN s[i] ELSE s[i + 1]]
  <1>8. t \in [1 .. n - 1 -> r.allocated]
    <2>1. ASSUME NEW i \in 1 .. n - 1
          PROVE  (IF i < k THEN s[i] ELSE s[i + 1]) \in h.allocated \ {b}
      BY <1>1, <1>2, <1>3
    <2> QED BY <2>1
  <1>9. \A i, j \in 1 .. n - 1 : t[i] = t[j] => i = j
    BY <1>1, <1>2, <1>3
  <1>10. r.root = IF n - 1 = 0 THEN Null ELSE t[n - 1]
    <2>1. CASE k = n
      BY <1>3, <1>6, <1>7, <2>1
    <2>2. CASE k # n
      BY <1>2, <1>3, <1>7, <2>2
    <2> QED BY <2>1, <2>2
  <1>11. ASSUME NEW j \in 1 .. n, j # k
         PROVE  LET y == Released(h, b)[s[j]]
                IN  /\ y.is_active
                    /\ y.prev = IF j = k + 1 THEN m.prev ELSE h.meta[s[j]].prev
                    /\ y.next = IF j = k - 1 THEN m.next ELSE h.meta[s[j]].next
    <2>1. s[j] \in Blocks \ {b}
      BY <1>1, <1>2, <1>5, <1>11
    <2>2. b \in Blocks /\ (h.root = b => m.next = Null)
      BY <1>4, <1>6, <1>7
    <2>3. s[j] = m.next <=> j = k + 1
      BY <1>1, <1>2, <1>3, <1>5, <1>6
    <2>4. s[j] = m.prev <=> j = k - 1
      BY <1>1, <1>2, <1>3, <1>5, <1>6
    <2> QED BY <1>1, <2>1, <2>2, <2>3, <2>4, ReleasedLinks
  <1>12. ASSUME NEW i \in 1 .. n - 1
         PROVE  /\ r.meta[t[i]].is_active
                /\ r.meta[t[i]].prev = IF i = 1 THEN Null ELSE t[i - 1]
                /\ r.meta[t[i]].next = IF i = n - 1 THEN Null ELSE t[i + 1]
    <2> DEFINE j == IF i < k THEN i ELSE i + 1
    <2>1. j \in 1 .. n /\ j # k /\ t[i] = s[j]
      BY <1>2, <1>3
    <2>2. i # 1 => t[i - 1] = IF i - 1 < k THEN s[i - 1] ELSE s[i]
      BY <1>3
    <2>3. i # n - 1 => t[i + 1] = IF i + 1 < k THEN s[i + 1] ELSE s[i + 2]
      BY <1>3
    <2> HIDE DEF t, m
    <2>4. /\ Released(h, b)[s[j]].is_active
          /\ Released(h, b)[s[j]].prev = IF j = k + 1 THEN m.prev ELSE h.meta[s[j]].prev
          /\ Released(h, b)[s[j]].next = IF j = k - 1 THEN m.next ELSE h.meta[s[j]].next
      BY <1>11, <2>1
    <2>5. r.meta[t[i]] = Released(h, b)[s[j]]
      BY <2>1
    <2>6. /\ h.meta[s[j]].prev = IF j = 1 THEN Null ELSE s[j - 1]
          /\ h.meta[s[j]].next = IF j = n THEN Null ELSE s[j + 1]
      BY <1>1, <2>1
    <2>7. r.meta[t[i]].prev = IF i = 1 THEN Null ELSE t[i - 1]
      BY <1>2, <1>3, <1>6, <2>1, <2>2, <2>4, <2>5, <2>6
    <2>8. r.meta[t[i]].next = IF i = n - 1 THEN Null ELSE t[i + 1]
      BY <1>2, <1>3, <1>6, <2>1, <2>3, <2>4, <2>5, <2>6
    <2> QED BY <2>4, <2>5, <2>7, <2>8
  <1>13. Lists(t, r.root, r.meta, r.allocated)
    <2> HIDE DEF t
    <2>1. Cardinality(r.allocated) = n - 1
      BY <1>3 DEF Live
    <2> QED BY <1>8, <1>9, <1>10, <1>12, <2>1 DEF Lists
  <1> QED BY <1>3, <1>8, <1>13 DEF n, Listed

\* The sum of the live sizes loses that of the block, and no other block moves.
LEMMA ReleasedSizes ==
    ASSUME NEW h \in Heaps, Listed(h), SizesRight(h), NEW b \in h.allocated,
           NEW r, r.meta = Released(h, b), r.allocated = h.allocated \ {b},
           r.stats.active_size = h.stats.active_size - h.meta[b].size,
           r.stats.heap_min = h.stats.heap_min, r.stats.heap_max = h.stats.heap_max
    PROVE  SizesRight(r)
  <1>1. h.allocated \in SUBSET Blocks /\ h.meta \in [Blocks -> Metas]
    BY DEF Heaps
  <1>2. IsFiniteSet(h.allocated) /\ IsFiniteSet(h.allocated \ {b})
    BY LiveType, FS_RemoveElement
  <1>3. h.root = b => h.meta[b].next = Null
    <2>1. PICK s \in [1 .. Live(h) -> h.allocated] :
              /\ \A i, j \in 1 .. Live(h) : s[i] = s[j] => i = j
              /\ \A c \in h.allocated : \E i \in 1 .. Live(h) : s[i] = c
              /\ h.root = IF Live(h) = 0 THEN Null ELSE s[Live(h)]
              /\ \A i \in 1 .. Live(h) :
                    /\ h.meta[s[i]].is_active
                    /\ h.meta[s[i]].prev = IF i = 1 THEN Null ELSE s[i - 1]
                    /\ h.meta[s[i]].next = IF i = Live(h) THEN Null ELSE s[i + 1]
      BY ListFacts
    <2>2. PICK k \in 1 .. Live(h) : s[k] = b
      BY <2>1
    <2>3. Live(h) \in Nat
      BY LiveType
    <2> QED BY <2>1, <2>2, <2>3
  <1>4. \A x \in h.allocated \ {b} : r.meta[x].size = h.meta[x].size
    BY <1>1, <1>3, ReleasedLinks
  <1>5. \A x \in h.allocated : h.meta[x].size \in Nat
    BY <1>1, M61Assumption DEF Metas
  <1>6. r.stats.active_size = SumFunctionOnSet(Sizes(r), r.allocated)
    <2> DEFINE f == Sizes(r)
               e == Sizes(h)
               S == h.allocated
    <2>1. /\ \A x \in S : e[x] = h.meta[x].size /\ e[x] \in Nat
          /\ \A x \in S \ {b} : e[x] = f[x]
      BY <1>4, <1>5 DEF Sizes
    <2>2. h.stats.active_size = SumFunctionOnSet(e, S)
      BY DEF SizesRight
    <2> HIDE DEF f, e
    <2>3. SumFunctionOnSet(e, S) = e[b] + SumFunctionOnSet(e, S \ {b})
      BY <1>2, <2>1, SumRemove
    <2>4. SumFunctionOnSet(e, S \ {b}) = SumFunctionOnSet(f, S \ {b})
      BY <1>2, <2>1, SumCongruent
    <2>5. SumFunctionOnSet(e, S \ {b}) \in Nat
      BY <1>2, <2>1, SumType
    <2> QED BY <2>1, <2>2, <2>3, <2>4, <2>5 DEF f
  <1>7. \A x \in r.allocated :
            /\ 1 <= r.stats.heap_min /\ r.stats.heap_min <= Address(x)
            /\ Address(x) + r.meta[x].size + Overhead <= r.stats.heap_max
    BY <1>4 DEF SizesRight
  <1> QED BY <1>6, <1>7 DEF SizesRight

LEMMA ReleaseOK ==
    ASSUME NEW h \in Heaps, HeapOK(h), NEW b \in h.allocated
    PROVE  HeapOK(Release(h, h.meta[b], <<b, "start">>))
  <1> DEFINE r == Release(h, h.meta[b], <<b, "start">>)
  <1>1. Live(h) >= 1
    <2>1. IsFiniteSet(h.allocated) /\ Live(h) \in Nat
      BY LiveType
    <2>2. Live(h) # 0
      BY <2>1, FS_EmptySet DEF Live
    <2> QED BY <2>1, <2>2
  <1>2. /\ r \in Heaps
        /\ r.root = IF h.root = b THEN h.meta[b].prev ELSE h.root
        /\ r.meta = Released(h, b)
        /\ r.allocated = h.allocated \ {b}
        /\ r.stats.nactive = h.stats.nactive - 1
        /\ r.stats.ntotal = h.stats.ntotal
        /\ r.stats.active_size = h.stats.active_size - h.meta[b].size
        /\ r.stats.heap_min = h.stats.heap_min /\ r.stats.heap_max = h.stats.heap_max
        /\ r.heavy = h.heavy /\ r.unlisted = h.unlisted
    BY <1>1, ReleaseEffect DEF HeapOK, CountedRight
  <1> HIDE DEF r
  <1>3. Live(r) = Live(h) - 1 /\ Listed(r)
    BY <1>2, ReleasedListed DEF HeapOK
  <1>4. CountedRight(r)
    <2>1. h.stats.nactive \in Nat /\ h.stats.ntotal \in Nat
      BY DEF Heaps, Statistics
    <2> QED BY <1>2, <1>3, <2>1 DEF HeapOK, CountedRight
  <1>5. SizesRight(r)
    BY <1>2, ReleasedSizes DEF HeapOK
  <1>6. HeavyRight(r)
    BY <1>2 DEF HeapOK, HeavyRight
  <1> QED BY <1>2, <1>3, <1>4, <1>5, <1>6 DEF HeapOK, r

LEMMA ReportOK ==
    ASSUME NEW h \in Heaps, HeapOK(h), NEW said \in Reports
    PROVE  HeapOK([h EXCEPT !.report = said])
  <1> DEFINE g == [h EXCEPT !.report = said]
  <1>1. g \in Heaps /\ g.root = h.root /\ g.meta = h.meta /\ g.allocated = h.allocated
            /\ g.stats = h.stats /\ g.heavy = h.heavy /\ g.unlisted = h.unlisted
    BY DEF Heaps
  <1> HIDE DEF g
  <1>2. HeapOK(g)
    BY <1>1, HeapSame
  <1> QED BY <1>2 DEF g

\* Only a pointer to the start of a live block names a block that Release gives
\* to libc, and below it lies the metadata of that block.
LEMMA PointerToBlock ==
    ASSUME NEW h \in Heaps, NEW ptr \in Pointers, Block(ptr) \in h.allocated
    PROVE  \E b \in h.allocated : ptr = <<b, "start">> /\ MetaBelow(h, ptr) = {h.meta[b]}
  <1>1. ptr \in Blocks \X {"start"}
    BY M61Assumption DEF Block, Heaps
  <1>2. PICK b \in Blocks : ptr = <<b, "start">>
    BY <1>1
  <1>3. b \in h.allocated
    BY <1>2, BlockOfStart
  <1> QED BY <1>2, <1>3 DEF MetaBelow

LEMMA ExamineOK ==
    ASSUME NEW h \in Heaps, HeapOK(h), NEW ptr \in Pointers, NEW m \in MetaBelow(h, ptr)
    PROVE  HeapOK(Examine(h, m, ptr))
  <1>1. HeapOK(Release(h, m, ptr))
    <2>1. CASE Block(ptr) \in h.allocated
      <3>1. PICK b \in h.allocated : ptr = <<b, "start">> /\ m = h.meta[b]
        BY <2>1, PointerToBlock
      <3> QED BY <3>1, ReleaseOK
    <2>2. CASE Block(ptr) \notin h.allocated
      <3>1. Release(h, m, ptr) = Killed("freed")
        BY <2>2, Zenon DEF Release
      <3> QED BY <3>1, KilledOK DEF Reports
    <2> QED BY <2>1, <2>2
  <1>2. HeapOK([h EXCEPT !.report = IF find_meta(h, ptr) THEN "inside a block"
                                     ELSE "not allocated"])
    <2>1. (IF find_meta(h, ptr) THEN "inside a block" ELSE "not allocated") \in Reports
      BY DEF Reports
    <2> QED BY <2>1, ReportOK
  <1>3. HeapOK([h EXCEPT !.report = "wild write"]) /\ HeapOK([h EXCEPT !.report = "not allocated"])
    BY ReportOK DEF Reports
  <1>4. \/ Examine(h, m, ptr) = Release(h, m, ptr)
        \/ Examine(h, m, ptr) = [h EXCEPT !.report = IF find_meta(h, ptr) THEN "inside a block"
                                                      ELSE "not allocated"]
        \/ Examine(h, m, ptr) = [h EXCEPT !.report = "wild write"]
        \/ Examine(h, m, ptr) = [h EXCEPT !.report = "not allocated"]
    BY Zenon DEF Examine
  <1> QED BY <1>1, <1>2, <1>3, <1>4, Zenon

LEMMA FreesOK ==
    ASSUME NEW h \in Heaps, HeapOK(h), NEW ptr \in Pointers, NEW g \in Frees(h, ptr)
    PROVE  HeapOK(g)
  <1>1. HeapOK(Killed("none")) /\ HeapOK(Killed("not in heap"))
    BY KilledOK DEF Reports
  <1>2. \/ g = Killed("none")
        \/ g = Killed("not in heap")
        \/ \E m \in MetaBelow(h, ptr) : g = Examine(h, m, ptr)
    BY Zenon DEF Frees
  <1> QED BY <1>1, <1>2, ExamineOK

-----------------------------------------------------------------------------
(* The invariant *)

Inv == HeapOK(Heap) /\ running \in BOOLEAN

LEMMA HeapFields ==
    /\ Heap.stats = total_stats /\ Heap.root = root /\ Heap.meta = meta
    /\ Heap.allocated = allocated /\ Heap.payload = payload /\ Heap.heavy = hash_table
    /\ Heap.unlisted = unlisted
  BY DEF Heap

LEMMA BecomesInv ==
    ASSUME NEW g, HeapOK(g), Becomes(g)
    PROVE  Inv'
  <1>1. g \in Heaps
    BY DEF HeapOK
  <1>2. /\ Heap'.stats = g.stats /\ Heap'.root = g.root /\ Heap'.meta = g.meta
        /\ Heap'.allocated = g.allocated /\ Heap'.heavy = g.heavy
        /\ Heap'.unlisted = g.unlisted
    BY DEF Heap, Becomes
  <1>3. Heap' \in Heaps
    <2>1. /\ g.stats \in Statistics /\ g.root \in Blocks \cup {Null}
          /\ g.meta \in [Blocks -> Metas] /\ g.allocated \in SUBSET Blocks
          /\ g.payload \in [Blocks -> Metas \cup {Junk}]
          /\ g.heavy \in [0 .. TableSize - 1 -> Seq(Entries)] /\ g.unlisted \in Nat
      BY <1>1 DEF Heaps
    <2>2. Heap' = [ stats |-> g.stats, root |-> g.root, meta |-> g.meta,
                    allocated |-> g.allocated, payload |-> g.payload, heavy |-> g.heavy,
                    unlisted |-> g.unlisted, report |-> "none", running |-> TRUE ]
      BY Zenon DEF Heap, Becomes
    <2>3. "none" \in Reports /\ TRUE \in BOOLEAN
      BY DEF Reports
    <2> QED BY <2>1, <2>2, <2>3, HeapType
  <1>4. HeapOK(Heap')
    BY <1>2, <1>3, HeapSame
  <1>5. running' \in BOOLEAN
    BY <1>1 DEF Becomes, Heaps
  <1>6. HeapOK(Heap)'
    BY <1>4 DEF HeapOK, CountedRight, Listed, Live, SizesRight, Sizes, HeavyRight,
                HeavyCounted, Heap
  <1> QED BY <1>5, <1>6 DEF Inv

LEMMA RequestType ==
    ASSUME NEW call \in Requests
    PROVE  call[1] \in Sites /\ call[2] \in 0 .. Word - 1
  BY M61Assumption

LEMMA MallocInv ==
    ASSUME Inv, NEW call \in Requests, m61_malloc(call[2], call[1])
    PROVE  Inv'
  <1>1. PICK r \in Mallocs(Heap, call[2], call[1]) : Becomes(r[1])
    BY DEF m61_malloc
  <1>2. HeapOK(r[1])
    BY <1>1, RequestType, MallocsOK DEF Inv, HeapOK
  <1> QED BY <1>1, <1>2, BecomesInv

LEMMA CallocInv ==
    ASSUME Inv, NEW call \in Requests, NEW n \in Counts, m61_calloc(n, call[2], call[1])
    PROVE  Inv'
  <1> DEFINE product == (n * call[2]) % Word
  <1>1. product \in 0 .. Word - 1 /\ product \in Nat
    <2>1. n \in Nat /\ call[2] \in Nat /\ Word \in Nat \ {0}
      BY M61Assumption, RequestType
    <2>2. n * call[2] \in Nat
      BY <2>1
    <2> QED BY <2>1, <2>2
  <1> HIDE DEF product
  <1>2. PICK r \in IF product >= n THEN Mallocs(Heap, product, call[1]) ELSE {<<Heap, Null>>} :
            Becomes(IF r[2] # Null \/ ~ r[1].running THEN r[1] ELSE Failed(r[1], product))
    BY Zenon DEF m61_calloc, product
  <1>3. HeapOK(r[1])
    <2>1. CASE product >= n
      BY <1>1, <1>2, <2>1, RequestType, MallocsOK DEF Inv, HeapOK
    <2>2. CASE ~ product >= n
      <3>1. r = <<Heap, Null>>
        BY <1>2, <2>2
      <3> QED BY <3>1 DEF Inv
    <2> QED BY <2>1, <2>2
  <1>4. HeapOK(Failed(r[1], product))
    BY <1>1, <1>3, FailedOK DEF HeapOK
  <1> QED BY <1>2, <1>3, <1>4, BecomesInv

LEMMA CopiesOK ==
    ASSUME NEW h \in Heaps, HeapOK(h), NEW ptr \in Pointers, NEW b \in h.allocated,
           NEW g \in Copies(h, ptr, b)
    PROVE  HeapOK(g)
  <1>1. CASE ptr \in h.allocated \X {"start"}
    <2> DEFINE c == [h EXCEPT !.payload[b] = h.payload[ptr[1]]]
    <2>1. h.allocated \in SUBSET Blocks /\ h.payload \in [Blocks -> Metas \cup {Junk}]
      BY DEF Heaps
    <2>2. b \in Blocks /\ ptr[1] \in Blocks
      BY <1>1, <2>1
    <2>3. [h.payload EXCEPT ![b] = h.payload[ptr[1]]] \in [Blocks -> Metas \cup {Junk}]
      BY <2>1, <2>2
    <2>4. c = [h EXCEPT !.payload = [h.payload EXCEPT ![b] = h.payload[ptr[1]]]]
      BY DEF Heaps
    <2>5. /\ c \in Heaps /\ c.root = h.root /\ c.meta = h.meta /\ c.allocated = h.allocated
          /\ c.stats = h.stats /\ c.heavy = h.heavy /\ c.unlisted = h.unlisted
      BY <2>3, <2>4 DEF Heaps
    <2> HIDE DEF c
    <2>6. HeapOK(c)
      BY <2>5, HeapSame
    <2>7. g = h \/ g = c
      BY <1>1, Zenon DEF Copies, c
    <2> QED BY <2>6, <2>7
  <1>2. CASE ptr \notin h.allocated \X {"start"}
    <2>1. g = h \/ g = Killed("none")
      BY <1>2, Zenon DEF Copies
    <2> QED BY <2>1, KilledOK DEF Reports
  <1> QED BY <1>1, <1>2

LEMMA ReallocInv ==
    ASSUME Inv, NEW call \in Requests, NEW ptr \in Pointers, m61_realloc(ptr, call[2], call[1])
    PROVE  Inv'
  <1> DEFINE sz == call[2]
             R == IF sz = 0 THEN {<<Heap, Null>>} ELSE Mallocs(Heap, sz, call[1])
  <1>1. PICK r \in R :
            \E h \in IF ptr = Null \/ r[2] = Null THEN {r[1]} ELSE Copies(r[1], ptr, r[2]) :
               IF ptr = Null \/ ~ h.running THEN Becomes(h)
               ELSE \E f \in Frees(h, ptr) : Becomes(f)
    BY Zenon DEF m61_realloc
  <1>2. HeapOK(r[1]) /\ (r[2] # Null => r[2] \in r[1].allocated)
    <2>1. CASE sz = 0
      <3>1. r = <<Heap, Null>>
        BY <1>1, <2>1
      <3> QED BY <3>1 DEF Inv
    <2>2. CASE sz # 0
      <3>1. r \in Mallocs(Heap, sz, call[1])
        BY <1>1, <2>2
      <3> QED BY <3>1, RequestType, MallocsOK DEF Inv, HeapOK
    <2> QED BY <2>1, <2>2
  <1>3. PICK h \in IF ptr = Null \/ r[2] = Null THEN {r[1]} ELSE Copies(r[1], ptr, r[2]) :
            IF ptr = Null \/ ~ h.running THEN Becomes(h)
            ELSE \E f \in Frees(h, ptr) : Becomes(f)
    BY <1>1
  <1> HIDE DEF R, sz
  <1>4. HeapOK(h)
    <2>1. CASE ptr = Null \/ r[2] = Null
      BY <1>2, <1>3, <2>1
    <2>2. CASE ~ (ptr = Null \/ r[2] = Null)
      <3>1. h \in Copies(r[1], ptr, r[2])
        BY <1>3, <2>2
      <3> QED BY <1>2, <2>2, <3>1, CopiesOK DEF HeapOK
    <2> QED BY <2>1, <2>2
  <1>5. CASE ptr = Null \/ ~ h.running
    BY <1>3, <1>4, <1>5, BecomesInv
  <1>6. CASE ~ (ptr = Null \/ ~ h.running)
    <2>1. PICK f \in Frees(h, ptr) : Becomes(f)
      BY <1>3, <1>6
    <2>2. HeapOK(f)
      BY <1>4, <2>1, FreesOK DEF HeapOK
    <2> QED BY <2>1, <2>2, BecomesInv
  <1> QED BY <1>5, <1>6

LEMMA FreeInv ==
    ASSUME Inv, NEW ptr \in Pointers, m61_free(ptr)
    PROVE  Inv'
  <1>1. PICK g \in Frees(Heap, ptr) : Becomes(g)
    BY DEF m61_free
  <1>2. HeapOK(g)
    BY <1>1, FreesOK DEF Inv, HeapOK
  <1> QED BY <1>1, <1>2, BecomesInv

\* The client cannot reach what the list is made of.
LEMMA GuardGone ==
    ASSUME NEW h \in Heaps, HeapOK(h), NEW b \in Blocks
    PROVE  HeapOK([h EXCEPT !.meta = [h.meta EXCEPT ![b].guarded = FALSE]])
  <1> DEFINE me == [h.meta EXCEPT ![b].guarded = FALSE]
             g == [h EXCEPT !.meta = me]
  <1>1. me \in [Blocks -> Metas] /\ \A x \in Blocks :
            /\ me[x].is_active = h.meta[x].is_active
            /\ me[x].prev = h.meta[x].prev /\ me[x].next = h.meta[x].next
            /\ me[x].size = h.meta[x].size
    <2>1. h.meta \in [Blocks -> Metas]
      BY DEF Heaps
    <2>2. \A m \in Metas :
              LET u == [m EXCEPT !.guarded = FALSE]
              IN  /\ u \in Metas /\ u.is_active = m.is_active /\ u.size = m.size
                  /\ u.prev = m.prev /\ u.next = m.next
      BY DEF Metas
    <2>3. \A x \in Blocks :
              me[x] = IF x = b THEN [h.meta[x] EXCEPT !.guarded = FALSE] ELSE h.meta[x]
      BY <2>1
    <2>4. me \in [Blocks -> Metas]
      BY <2>1, <2>2
    <2> HIDE DEF me
    <2> QED BY <2>1, <2>2, <2>3, <2>4
  <1> HIDE DEF me
  <1>2. /\ g \in Heaps /\ g.root = h.root /\ g.meta = me /\ g.allocated = h.allocated
        /\ g.stats = h.stats /\ g.heavy = h.heavy /\ g.unlisted = h.unlisted
    BY <1>1 DEF Heaps
  <1> HIDE DEF g
  <1>3. Listed(g)
    <2>1. PICK s \in [1 .. Live(h) -> h.allocated] : Lists(s, h.root, h.meta, h.allocated)
      BY DEF HeapOK, Listed
    <2>2. h.allocated \in SUBSET Blocks
      BY DEF Heaps
    <2>3. Lists(s, g.root, g.meta, g.allocated)
      BY <1>1, <1>2, <2>1, <2>2 DEF Lists, Live
    <2> QED BY <1>2, <2>1, <2>3 DEF Listed, Live
  <1>4. SizesRight(g)
    <2>1. h.allocated \in SUBSET Blocks
      BY DEF Heaps
    <2>2. \A x \in h.allocated : me[x].size = h.meta[x].size
      BY <1>1, <2>1
    <2>3. Sizes(g) = Sizes(h)
      BY <1>2, <2>2 DEF Sizes
    <2> QED BY <1>2, <2>2, <2>3 DEF HeapOK, SizesRight
  <1>5. CountedRight(g) /\ HeavyRight(g)
    BY <1>2 DEF HeapOK, CountedRight, Live, HeavyRight
  <1> QED BY <1>2, <1>3, <1>4, <1>5 DEF HeapOK, g, me

LEMMA WritePastEndInv ==
    ASSUME Inv, NEW b \in Blocks, WritePastEnd(b)
    PROVE  Inv'
  <1> DEFINE me == [Heap.meta EXCEPT ![b].guarded = FALSE]
             g == [Heap EXCEPT !.meta = me]
  <1>1. HeapOK(g)
    BY GuardGone DEF Inv, HeapOK
  <1>2. Becomes(g)
    BY Zenon, HeapFields DEF WritePastEnd, Becomes, Heap
  <1> HIDE DEF g
  <1> QED BY <1>1, <1>2, BecomesInv

LEMMA CopyBlockInv ==
    ASSUME Inv, NEW b \in Blocks, NEW c \in Blocks, CopyBlock(b, c)
    PROVE  Inv'
  <1> DEFINE pa == [payload EXCEPT ![c] = meta[b]]
             g == [Heap EXCEPT !.payload = pa]
  <1>1. Heap \in Heaps /\ HeapOK(Heap)
    BY DEF Inv, HeapOK
  <1>2. pa \in [Blocks -> Metas \cup {Junk}]
    <2>1. payload \in [Blocks -> Metas \cup {Junk}] /\ meta \in [Blocks -> Metas]
      BY <1>1, HeapFields DEF Heaps
    <2> QED BY <2>1
  <1> HIDE DEF pa
  <1>3. /\ g \in Heaps /\ g.root = root /\ g.meta = meta /\ g.allocated = allocated
        /\ g.stats = total_stats /\ g.payload = pa /\ g.heavy = hash_table
        /\ g.unlisted = unlisted /\ g.running = TRUE
    BY <1>1, <1>2 DEF Heaps, Heap
  <1> HIDE DEF g
  <1>4. HeapOK(g)
    BY <1>1, <1>3, HeapFields, HeapSame
  <1>5. Becomes(g)
    BY <1>3 DEF CopyBlock, Becomes, pa
  <1> QED BY <1>4, <1>5, BecomesInv

LEMMA InvInit == Init => Inv
  <1> SUFFICES ASSUME Init PROVE Inv
    OBVIOUS
  <1>1. Heap = Fresh
    BY Zenon DEF Init, Heap, Fresh
  <1>2. running = TRUE
    BY DEF Init, Fresh
  <1> QED BY <1>1, <1>2, FreshOK DEF Inv

LEMMA InvStep == Inv /\ [Next]_vars => Inv'
  <1> SUFFICES ASSUME Inv, [Next]_vars PROVE Inv'
    OBVIOUS
  <1>1. CASE UNCHANGED vars
    BY <1>1 DEF vars, Inv, HeapOK, CountedRight, Listed, Live, SizesRight, Sizes,
                HeavyRight, HeavyCounted, Heap
  <1>2. CASE \E call \in Requests : m61_malloc(call[2], call[1])
    BY <1>2, MallocInv
  <1>3. CASE \E call \in Requests, n \in Counts : m61_calloc(n, call[2], call[1])
    BY <1>3, CallocInv
  <1>4. CASE \E call \in Requests, ptr \in Pointers : m61_realloc(ptr, call[2], call[1])
    BY <1>4, ReallocInv
  <1>5. CASE \E ptr \in Pointers : m61_free(ptr)
    BY <1>5, FreeInv
  <1>6. CASE \E b \in Blocks : WritePastEnd(b)
    BY <1>6, WritePastEndInv
  <1>7. CASE \E b, c \in Blocks : CopyBlock(b, c)
    BY <1>7, CopyBlockInv
  <1>8. CASE Ended
    BY <1>1, <1>8 DEF Ended
  <1> QED BY <1>1, <1>2, <1>3, <1>4, <1>5, <1>6, <1>7, <1>8 DEF Next

LEMMA InvAlways == Spec => []Inv
  BY InvInit, InvStep, PTL DEF Spec

-----------------------------------------------------------------------------
(* The theorems *)

\* Whatever the client calls and writes, every variable keeps its type: no link
\* of a block ever leads out of the heap.
THEOREM M61Type == Spec => []TypeOK
  <1>1. Inv => TypeOK
    BY DEF Inv, HeapOK, TypeOK
  <1> QED BY <1>1, InvAlways, PTL

\* The leak report is exact for any number of blocks and any history of frees,
\* wrong ones and wild writes included.
THEOREM M61LeakReport == Spec => []LeakReportExact
  <1>1. Inv => LeakReportExact
    BY HeapFields DEF Inv, HeapOK, Listed, Live, LeakReportExact
  <1> QED BY <1>1, InvAlways, PTL

\* The statistics are those of the live blocks, whatever was allocated, freed,
\* refused or judged wrong before.
THEOREM M61StatsAgree == Spec => []StatsAgree
  <1>1. Inv => StatsAgree
    <2> SUFFICES ASSUME Inv PROVE StatsAgree
      OBVIOUS
    <2>1. CountedRight(Heap) /\ SizesRight(Heap)
      BY DEF Inv, HeapOK
    <2> QED BY <2>1, HeapFields DEF CountedRight, Live, SizesRight, Sizes, StatsAgree
  <1> QED BY <1>1, InvAlways, PTL

\* The heavy-hitter table has one entry for a site with an index in it and counts
\* every successful allocation of such a site once, for any hash and any order of
\* the calls; the other allocations are missing from it, whatever the order.
THEOREM M61HeavyCounts == Spec => []HeavyCounts
  <1>1. Inv => HeavyCounts
    <2> SUFFICES ASSUME Inv PROVE HeavyCounts
      OBVIOUS
    <2>1. HeavyCounted(hash_table, total_stats.ntotal - unlisted)
      BY HeapFields DEF Inv, HeapOK, HeavyRight
    <2> QED BY <2>1 DEF HeavyCounted, HeavyCounts
  <1> QED BY <1>1, InvAlways, PTL

LEMMA InvJudges == Inv => FreeJudged
  <1> SUFFICES ASSUME Inv, NEW ptr \in Pointers, NEW g \in Frees(Heap, ptr)
               PROVE  IF ptr \in allocated \X {"start"}
                      THEN IF meta[ptr[1]].guarded
                           THEN g.report = "freed" /\ g.allocated = allocated \ {ptr[1]} /\ g.running
                           ELSE g = [Heap EXCEPT !.report = "wild write"]
                      ELSE g.report = "freed" =>
                              /\ ptr \in allocated \X {"inside"}
                              /\ payload[ptr[1]] # Junk /\ payload[ptr[1]].prev = Null
    BY DEF FreeJudged
  <1>1. Heap \in Heaps /\ HeapOK(Heap) /\ Listed(Heap)
    BY DEF Inv, HeapOK
  <1>2. allocated \in SUBSET Blocks
    BY <1>1, HeapFields DEF Heaps
  <1>3. CASE ptr \in allocated \X {"start"}
    <2>1. PICK b \in allocated : ptr = <<b, "start">>
      BY <1>3
    <2>2. b \in Blocks /\ Block(ptr) = b /\ ptr[1] = b
      BY <1>2, <2>1, BlockOfStart
    <2>3. /\ meta[b].is_active
          /\ meta[b].prev # Null => meta[meta[b].prev].next = b
      <3>1. PICK s \in [1 .. Live(Heap) -> Heap.allocated] :
              /\ \A i, j \in 1 .. Live(Heap) : s[i] = s[j] => i = j
              /\ \A c \in Heap.allocated : \E i \in 1 .. Live(Heap) : s[i] = c
              /\ Heap.root = IF Live(Heap) = 0 THEN Null ELSE s[Live(Heap)]
              /\ \A i \in 1 .. Live(Heap) :
                    /\ Heap.meta[s[i]].is_active
                    /\ Heap.meta[s[i]].prev = IF i = 1 THEN Null ELSE s[i - 1]
                    /\ Heap.meta[s[i]].next = IF i = Live(Heap) THEN Null ELSE s[i + 1]
        BY <1>1, ListFacts
      <3>2. PICK k \in 1 .. Live(Heap) : s[k] = b
        BY <3>1, HeapFields
      <3>3. Live(Heap) \in Nat
        BY <1>1, LiveType
      <3>4. k # 1 => k - 1 \in 1 .. Live(Heap) /\ k - 1 # Live(Heap) /\ (k - 1) + 1 = k
        BY <3>3
      <3> QED BY <3>1, <3>2, <3>4, HeapFields
    <2>4. Live(Heap) >= 1 /\ Heap.stats.ntotal # 0 /\ Heap.stats.nactive >= 1
      <3>1. IsFiniteSet(allocated) /\ Live(Heap) \in Nat
        BY <1>1, LiveType, HeapFields
      <3>2. Live(Heap) # 0
        BY <2>1, <3>1, FS_EmptySet, HeapFields DEF Live
      <3>3. Heap.stats.nactive = Live(Heap) /\ Heap.stats.nactive <= Heap.stats.ntotal
        BY <1>1 DEF HeapOK, CountedRight
      <3>4. Heap.stats.ntotal \in Nat
        BY <1>1 DEF Heaps, Statistics
      <3> QED BY <3>1, <3>2, <3>3, <3>4
    <2>5. ~ Unmapped(Heap, ptr) /\ ptr # Null
      BY <2>1, <2>2, M61Assumption, HeapFields DEF Unmapped
    <2>6. MetaBelow(Heap, ptr) = {meta[b]}
      BY <1>3, <2>2, HeapFields, Zenon DEF MetaBelow
    <2>7. g = Examine(Heap, meta[b], ptr)
      BY <2>4, <2>5, <2>6, Zenon DEF Frees
    <2>8. CASE meta[b].guarded
      <3>1. g = Release(Heap, meta[b], ptr)
        BY <2>2, <2>3, <2>7, <2>8, HeapFields, Zenon DEF Examine
      <3>2. g.allocated = allocated \ {b} /\ g.report = "freed" /\ g.running = Heap.running
        BY <1>1, <2>1, <2>4, <3>1, HeapFields, ReleaseEffect
      <3> QED BY <1>3, <2>2, <2>8, <3>2 DEF Heap
    <2>9. CASE ~ meta[b].guarded
      <3>1. g = [Heap EXCEPT !.report = "wild write"]
        BY <2>3, <2>7, <2>9, Zenon DEF Examine
      <3> QED BY <1>3, <2>2, <2>9, <3>1
    <2> QED BY <2>8, <2>9
  <1>4. CASE ptr \notin allocated \X {"start"}
    <2> SUFFICES ASSUME g.report = "freed"
                 PROVE  /\ ptr \in allocated \X {"inside"}
                        /\ payload[ptr[1]] # Junk /\ payload[ptr[1]].prev = Null
      BY <1>4
    <2>1. g # Killed("none") /\ g # Killed("not in heap")
      <3>1. Killed("none").report = "none" /\ Killed("not in heap").report = "not in heap"
        BY KilledOK DEF Reports
      <3> QED BY <3>1
    <2>2. PICK m \in MetaBelow(Heap, ptr) : g = Examine(Heap, m, ptr)
      BY <2>1, Zenon DEF Frees
    <2>3. \A said \in Reports \ {"freed"} : g # [Heap EXCEPT !.report = said]
      BY DEF Heap
    <2>4. m.guarded /\ (m.prev # Null => Heap.meta[m.prev].next = Block(ptr))
      <3>1. /\ g # [Heap EXCEPT !.report = "wild write"]
            /\ g # [Heap EXCEPT !.report = "not allocated"]
            /\ g # [Heap EXCEPT !.report = IF find_meta(Heap, ptr) THEN "inside a block"
                                           ELSE "not allocated"]
        BY <2>3 DEF Reports
      <3> QED BY <2>2, <3>1, Zenon DEF Examine
    <2>5. ptr \in allocated \X {"inside"} /\ payload[ptr[1]] # Junk /\ m = payload[ptr[1]]
      <3>1. m \notin Garbage
        BY <2>4 DEF Garbage, NoMeta
      <3> QED BY <1>4, <2>2, <3>1, HeapFields, Zenon DEF MetaBelow
    <2>6. m.prev = Null
      <3>1. payload \in [Blocks -> Metas \cup {Junk}] /\ meta \in [Blocks -> Metas]
        BY <1>1, HeapFields DEF Heaps
      <3>2. m \in Metas
        BY <1>2, <2>5, <3>1
      <3>3. Block(ptr) = Junk
        BY <2>5 DEF Block
      <3>4. m.prev # Null => meta[m.prev].next # Junk
        BY <3>1, <3>2, M61Assumption DEF Metas
      <3> QED BY <2>4, <3>3, <3>4, HeapFields
    <2> QED BY <2>5, <2>6
  <1> QED BY <1>3, <1>4

\* m61_free judges every pointer correctly: test021, test022 and test029 for any
\* number of blocks and any history before the call.
THEOREM M61FreeJudged == Spec => []FreeJudged
  BY InvJudges, InvAlways, PTL
=============================================================================

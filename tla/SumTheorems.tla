---------------------------- MODULE SumTheorems -----------------------------
(***************************************************************************)
(* Lemmas about SumFunctionOnSet, the sum of the values of a function over *)
(* a finite set of indices, by which the models add up counters (rides,    *)
(* samples, pickups, allocated bytes).  The community modules define it by *)
(* a recursive function that removes one chosen index at a time; the first *)
(* part shows that such a function exists, the second what the sum is when *)
(* one index is removed, added or changed.  There is no induction rule to  *)
(* cite, so each induction looks at a smallest counterexample instead.     *)
(***************************************************************************)
EXTENDS FiniteSetsExt, FiniteSetTheorems, WellFoundedInduction, TLAPS

(* MinimalSet: a collection of subsets of a finite set that is not empty   *)
(* has a member that contains no other.                                    *)
LEMMA MinimalSet ==
    ASSUME NEW S, IsFiniteSet(S), NEW C \in SUBSET SUBSET S, C # {}
    PROVE  \E s \in C : \A t \in C : t \subseteq s => t = s
  <1> DEFINE R == StrictSubsetOrdering(S)
  <1>1. C \subseteq FiniteSubsetsOf(S)
    BY FS_Subset DEF FiniteSubsetsOf
  <1>2. IsWellFoundedOn(R, FiniteSubsetsOf(S))
    BY FS_StrictSubsetOrderingWellFounded
  <1>3. PICK s \in C : \A t \in C : ~ (<<t, s>> \in R)
    <2> HIDE DEF R
    <2> QED BY <1>1, <1>2, WFMin, Zenon
  <1>4. ASSUME NEW t \in C, t \subseteq s PROVE t = s
    BY <1>3, <1>4 DEF StrictSubsetOrdering
  <1> QED BY <1>4

(* LeastExists: a set of numbers that is not empty has a smallest element  *)
(* (the intervals 0..x are well-ordered by strict inclusion).              *)
LEMMA LeastExists ==
    ASSUME NEW S \in SUBSET Nat, S # {}
    PROVE  Min(S) \in S /\ \A y \in S : Min(S) <= y
  <1> DEFINE T == {0 .. x : x \in S}
             R == StrictSubsetOrdering(Nat)
  <1>1. T \subseteq FiniteSubsetsOf(Nat) /\ T # {}
    <2>1. ASSUME NEW x \in S PROVE 0 .. x \in FiniteSubsetsOf(Nat)
      BY FS_Interval DEF FiniteSubsetsOf
    <2> QED BY <2>1
  <1>2. IsWellFoundedOn(R, FiniteSubsetsOf(Nat))
    BY FS_StrictSubsetOrderingWellFounded
  <1>3. PICK I \in T : \A J \in T : ~ (<<J, I>> \in R)
    <2> HIDE DEF T, R
    <2> QED BY <1>1, <1>2, WFMin, Zenon
  <1>4. PICK m \in S : I = 0 .. m
    OBVIOUS
  <1>5. ASSUME NEW y \in S PROVE m <= y
    <2>1. 0 .. y \in T /\ 0 .. y \in SUBSET Nat /\ 0 .. m \in SUBSET Nat
      OBVIOUS
    <2>2. ~ (0 .. y \subseteq 0 .. m /\ 0 .. y # 0 .. m)
      BY <1>3, <1>4, <2>1 DEF StrictSubsetOrdering
    <2>3. CASE y < m
      <3>1. 0 .. y \subseteq 0 .. m /\ m \in 0 .. m /\ m \notin 0 .. y
        BY <2>3
      <3> QED BY <2>2, <3>1
    <2> QED BY <2>3
  <1>6. \E x \in S : \A y \in S : x <= y
    BY <1>5
  <1> QED BY <1>6, Zenon DEF Min

-----------------------------------------------------------------------------
(* The recursive function behind the sum *)

\* The element that the definition of the sum removes next.
Chosen(s) == CHOOSE x \in s : TRUE

\* g is defined on the sets of D by the equations of the recursive definition.
SumsOn(g, f, D) ==
    g = [s \in D |->
            IF s = {} THEN 0 ELSE f[Chosen(s)] + g[s \ {Chosen(s)}]]

TheSums(f, S) == CHOOSE g : SumsOn(g, f, SUBSET S)

(* SumIsFold: the sum of the community modules, in these terms.            *)
LEMMA SumIsFold ==
    ASSUME NEW f, NEW S
    PROVE  SumFunctionOnSet(f, S) = TheSums(f, S)[S]
  BY DEF SumFunctionOnSet, FoldFunctionOnSet, MapThenFoldSet, TheSums,
         SumsOn, Chosen

(* ChosenRest: what is left when the chosen element is removed.            *)
LEMMA ChosenRest ==
    ASSUME NEW s, IsFiniteSet(s), s # {}
    PROVE  /\ Chosen(s) \in s
           /\ s \ {Chosen(s)} \in SUBSET s
           /\ IsFiniteSet(s \ {Chosen(s)})
           /\ Cardinality(s) \in Nat
           /\ Cardinality(s \ {Chosen(s)}) = Cardinality(s) - 1
  <1>1. Chosen(s) \in s
    BY DEF Chosen
  <1> QED BY <1>1, FS_RemoveElement, FS_CardinalityType

\* The subsets of at most n elements, and the sums over them.
Small(S, n) == {s \in SUBSET S : Cardinality(s) <= n}

Solved(f, S, n) == \E g : SumsOn(g, f, Small(S, n))

(* SumsOfNone: the equations have a solution on the empty set.             *)
LEMMA SumsOfNone ==
    ASSUME NEW f, NEW S, IsFiniteSet(S)
    PROVE  Solved(f, S, 0)
  <1>1. \A s \in SUBSET S : IsFiniteSet(s) /\ Cardinality(s) \in Nat
    BY FS_Subset, FS_CardinalityType
  <1>2. Small(S, 0) = {{}}
    BY <1>1, FS_EmptySet DEF Small
  <1>3. SumsOn([s \in {{}} |-> 0], f, Small(S, 0))
    BY <1>2 DEF SumsOn
  <1> QED BY <1>3 DEF Solved

(* SumsOfOneMore: a solution on the subsets of at most n elements extends  *)
(* to those of n + 1.                                                      *)
LEMMA SumsOfOneMore ==
    ASSUME NEW f, NEW S, IsFiniteSet(S), NEW n \in Nat, Solved(f, S, n)
    PROVE  Solved(f, S, n + 1)
  <1>1. PICK g : SumsOn(g, f, Small(S, n))
    BY DEF Solved
  <1> DEFINE h == [s \in Small(S, n + 1) |->
                     IF s = {} THEN 0
                     ELSE f[Chosen(s)] + g[s \ {Chosen(s)}]]
  <1>2. \A s \in SUBSET S : IsFiniteSet(s)
    BY FS_Subset
  <1>3. ASSUME NEW s \in Small(S, n + 1), s # {}
        PROVE  h[s \ {Chosen(s)}] = g[s \ {Chosen(s)}]
    <2> DEFINE r == s \ {Chosen(s)}
    <2>1. r \in Small(S, n) /\ r \in Small(S, n + 1)
      <3>1. s \in SUBSET S /\ IsFiniteSet(s) /\ Cardinality(s) <= n + 1
        BY <1>2 DEF Small
      <3>2. /\ r \in SUBSET s /\ Cardinality(s) \in Nat
            /\ Cardinality(r) = Cardinality(s) - 1
        BY <3>1, <1>3, ChosenRest
      <3> HIDE DEF r
      <3> QED BY <3>1, <3>2 DEF Small
    <2> HIDE DEF r
    <2>2. g[r] = IF r = {} THEN 0 ELSE f[Chosen(r)] + g[r \ {Chosen(r)}]
      BY <1>1, <2>1 DEF SumsOn
    <2>3. h[r] = IF r = {} THEN 0 ELSE f[Chosen(r)] + g[r \ {Chosen(r)}]
      BY <2>1
    <2> QED BY <2>2, <2>3 DEF r
  <1>4. SumsOn(h, f, Small(S, n + 1))
    BY <1>3 DEF SumsOn
  <1> QED BY <1>4 DEF Solved

(* SumsExist: the equations have a solution on all subsets of a finite set *)
(* (take the least bound on the size of the subsets for which they have    *)
(* none and extend the solution for one less).                             *)
LEMMA SumsExist ==
    ASSUME NEW f, NEW S, IsFiniteSet(S)
    PROVE  SumsOn(TheSums(f, S), f, SUBSET S)
  <1> DEFINE Bad == {n \in Nat : ~ Solved(f, S, n)}
  <1>1. Bad = {}
    <2> SUFFICES ASSUME Bad # {} PROVE FALSE
      OBVIOUS
    <2>1. Bad \in SUBSET Nat
      OBVIOUS
    <2>2. Min(Bad) \in Bad /\ \A y \in Bad : Min(Bad) <= y
      <3> HIDE DEF Bad
      <3> QED BY <2>1, LeastExists
    <2> DEFINE m == Min(Bad)
    <2>3. m \in Nat /\ ~ Solved(f, S, m) /\ \A y \in Nat : ~ Solved(f, S, y) => m <= y
      <3>1. m \in Bad /\ \A y \in Bad : m <= y
        BY <2>2
      <3> HIDE DEF m
      <3> QED BY <3>1
    <2> HIDE DEF m
    <2>4. CASE m = 0
      BY <2>3, <2>4, SumsOfNone
    <2>5. CASE m > 0
      <3>1. m - 1 \in Nat /\ (m - 1) + 1 = m /\ ~ (m <= m - 1)
        BY <2>3, <2>5
      <3>2. Solved(f, S, m - 1)
        BY <3>1, <2>3
      <3>3. Solved(f, S, (m - 1) + 1)
        BY <3>1, <3>2, SumsOfOneMore
      <3> QED BY <3>1, <3>3, <2>3
    <2> QED BY <2>3, <2>4, <2>5
  <1>2. Cardinality(S) \in Nat /\ Small(S, Cardinality(S)) = SUBSET S
    <2>1. \A s \in SUBSET S : Cardinality(s) <= Cardinality(S)
      BY FS_Subset
    <2> QED BY <2>1, FS_CardinalityType DEF Small
  <1>3. Solved(f, S, Cardinality(S))
    BY <1>1, <1>2
  <1>4. \E g : SumsOn(g, f, SUBSET S)
    BY <1>2, <1>3 DEF Solved
  <1> QED BY <1>4, Zenon DEF TheSums

(* SumsAgree: the solutions for two functions agree on the sets of indices *)
(* that the functions agree on.                                            *)
LEMMA SumsAgree ==
    ASSUME NEW T, IsFiniteSet(T), NEW S \in SUBSET T,
           NEW e, NEW f, \A x \in S : e[x] = f[x],
           NEW s \in SUBSET S
    PROVE  TheSums(e, S)[s] = TheSums(f, T)[s]
  <1> DEFINE g == TheSums(e, S)
             h == TheSums(f, T)
             C == {r \in SUBSET S : g[r] # h[r]}
  <1>1. IsFiniteSet(S) /\ SumsOn(g, e, SUBSET S) /\ SumsOn(h, f, SUBSET T)
    BY FS_Subset, SumsExist
  <1> HIDE DEF g, h
  <1> SUFFICES ASSUME C # {} PROVE FALSE
    BY DEF g, h
  <1>2. PICK r \in C : \A t \in C : t \subseteq r => t = r
    <2>1. C \in SUBSET SUBSET S
      OBVIOUS
    <2> HIDE DEF C
    <2> QED BY <1>1, <2>1, MinimalSet
  <1>3. r # {} /\ IsFiniteSet(r)
    BY <1>1, FS_Subset DEF SumsOn
  <1> DEFINE x == Chosen(r)
  <1>4. x \in r /\ r \ {x} \in SUBSET S
    BY <1>3, ChosenRest
  <1>5. g[r \ {x}] = h[r \ {x}]
    BY <1>2, <1>4
  <1>6. g[r] = e[x] + g[r \ {x}] /\ h[r] = f[x] + h[r \ {x}]
    BY <1>1, <1>3 DEF SumsOn
  <1> QED BY <1>4, <1>5, <1>6

-----------------------------------------------------------------------------
(* Sums *)

(* SumEmpty: the sum over no indices is zero.                              *)
LEMMA SumEmpty ==
    ASSUME NEW f PROVE SumFunctionOnSet(f, {}) = 0
  <1>1. SumsOn(TheSums(f, {}), f, SUBSET {})
    BY SumsExist, FS_EmptySet
  <1> QED BY <1>1, SumIsFold DEF SumsOn

(* SumCongruent: the sum depends on the values at the indices only.        *)
LEMMA SumCongruent ==
    ASSUME NEW S, IsFiniteSet(S), NEW e, NEW f, \A x \in S : e[x] = f[x]
    PROVE  SumFunctionOnSet(e, S) = SumFunctionOnSet(f, S)
  <1>1. \A s \in SUBSET S : TheSums(e, S)[s] = TheSums(f, S)[s]
    BY SumsAgree
  <1> QED BY <1>1, SumIsFold

(* SumChosen: the sum is the value at the chosen index and the sum of the  *)
(* rest.                                                                   *)
LEMMA SumChosen ==
    ASSUME NEW S, IsFiniteSet(S), S # {}, NEW f
    PROVE  SumFunctionOnSet(f, S) =
               f[Chosen(S)] + SumFunctionOnSet(f, S \ {Chosen(S)})
  <1> DEFINE R == S \ {Chosen(S)}
  <1>1. IsFiniteSet(R) /\ R \in SUBSET S /\ \A x \in R : f[x] = f[x]
    BY ChosenRest
  <1>2. SumsOn(TheSums(f, S), f, SUBSET S) /\ SumsOn(TheSums(f, R), f, SUBSET R)
    BY <1>1, SumsExist
  <1>3. TheSums(f, R)[R] = TheSums(f, S)[R]
    <2> HIDE DEF R
    <2> QED BY <1>1, SumsAgree
  <1>4. TheSums(f, S)[S] = f[Chosen(S)] + TheSums(f, S)[R]
    BY <1>2 DEF SumsOn
  <1> QED BY <1>3, <1>4, SumIsFold

(* SumType: a sum of numbers is a number.                                  *)
LEMMA SumType ==
    ASSUME NEW S, IsFiniteSet(S), NEW f, \A x \in S : f[x] \in Nat
    PROVE  SumFunctionOnSet(f, S) \in Nat
  <1> DEFINE C == {s \in SUBSET S : SumFunctionOnSet(f, s) \notin Nat}
  <1> SUFFICES ASSUME C # {} PROVE FALSE
    OBVIOUS
  <1>1. PICK s \in C : \A t \in C : t \subseteq s => t = s
    <2>1. C \in SUBSET SUBSET S
      OBVIOUS
    <2> HIDE DEF C
    <2> QED BY <2>1, MinimalSet
  <1>2. s # {} /\ IsFiniteSet(s)
    <2>1. SumFunctionOnSet(f, {}) \in Nat
      BY SumEmpty
    <2>2. SumFunctionOnSet(f, s) \notin Nat /\ s \in SUBSET S
      BY <1>1
    <2> QED BY <2>1, <2>2, FS_Subset
  <1>3. Chosen(s) \in s /\ s \ {Chosen(s)} \in SUBSET S
    BY <1>2, ChosenRest
  <1>4. SumFunctionOnSet(f, s \ {Chosen(s)}) \in Nat
    BY <1>1, <1>3
  <1>5. SumFunctionOnSet(f, s) =
            f[Chosen(s)] + SumFunctionOnSet(f, s \ {Chosen(s)})
    BY <1>2, SumChosen
  <1>6. f[Chosen(s)] \in Nat
    BY <1>3
  <1>7. SumFunctionOnSet(f, s) \in Nat
    BY <1>4, <1>5, <1>6
  <1> QED BY <1>7

(* SumRemove: any index can be taken out of the sum, not only the chosen   *)
(* one.                                                                    *)
LEMMA SumRemove ==
    ASSUME NEW S, IsFiniteSet(S), NEW f, \A y \in S : f[y] \in Nat, NEW x \in S
    PROVE  SumFunctionOnSet(f, S) = f[x] + SumFunctionOnSet(f, S \ {x})
  <1> DEFINE Sum(s) == SumFunctionOnSet(f, s)
             C == {s \in SUBSET S : \E z \in s : Sum(s) # f[z] + Sum(s \ {z})}
  <1> HIDE DEF Sum
  <1> SUFFICES ASSUME C # {} PROVE FALSE
    BY DEF Sum
  <1>1. PICK s \in C : \A t \in C : t \subseteq s => t = s
    <2>1. C \in SUBSET SUBSET S
      OBVIOUS
    <2> HIDE DEF C
    <2> QED BY <2>1, MinimalSet
  <1>2. PICK z \in s : Sum(s) # f[z] + Sum(s \ {z})
    OBVIOUS
  <1>3. \A t \in SUBSET S : IsFiniteSet(t) /\ Sum(t) \in Nat
    BY FS_Subset, SumType DEF Sum
  <1> DEFINE c == Chosen(s)
  <1>4. c \in s /\ Sum(s) = f[c] + Sum(s \ {c})
    BY <1>2, <1>3, ChosenRest, SumChosen DEF Sum
  <1>5. c # z
    BY <1>2, <1>4
  <1>6. ASSUME NEW y \in s, NEW u \in s, u # y
        PROVE  Sum(s \ {y}) = f[u] + Sum((s \ {y}) \ {u})
    <2>1. s \ {y} \in SUBSET S /\ s \ {y} \notin C /\ u \in s \ {y}
      BY <1>1, <1>6
    <2> QED BY <2>1
  <1>7. (s \ {c}) \ {z} = (s \ {z}) \ {c}
    OBVIOUS
  <1>8. /\ Sum(s \ {c}) = f[z] + Sum((s \ {c}) \ {z})
        /\ Sum(s \ {z}) = f[c] + Sum((s \ {z}) \ {c})
    BY <1>4, <1>5, <1>6
  <1>9. f[c] \in Nat /\ f[z] \in Nat /\ Sum((s \ {c}) \ {z}) \in Nat
    BY <1>3, <1>4
  <1> HIDE DEF c, C
  <1> QED BY <1>2, <1>4, <1>7, <1>8, <1>9

(* SumAdd: a new index adds its value.                                     *)
LEMMA SumAdd ==
    ASSUME NEW S, IsFiniteSet(S), NEW x, x \notin S,
           NEW f, \A y \in S \cup {x} : f[y] \in Nat
    PROVE  SumFunctionOnSet(f, S \cup {x}) = f[x] + SumFunctionOnSet(f, S)
  <1>1. IsFiniteSet(S \cup {x}) /\ (S \cup {x}) \ {x} = S
    BY FS_AddElement
  <1>2. SumFunctionOnSet(f, S \cup {x}) =
            f[x] + SumFunctionOnSet(f, (S \cup {x}) \ {x})
    BY <1>1, SumRemove
  <1> QED BY <1>1, <1>2

(* SumUpdate: when the value at one index changes, the sum changes by the  *)
(* difference.                                                             *)
LEMMA SumUpdate ==
    ASSUME NEW S, IsFiniteSet(S), NEW x \in S,
           NEW e, \A y \in S : e[y] \in Nat,
           NEW f, \A y \in S : f[y] \in Nat,
           \A y \in S \ {x} : e[y] = f[y]
    PROVE  SumFunctionOnSet(f, S) = SumFunctionOnSet(e, S) - e[x] + f[x]
  <1> DEFINE R == S \ {x}
  <1>1. IsFiniteSet(R)
    BY FS_RemoveElement
  <1>2. SumFunctionOnSet(e, R) = SumFunctionOnSet(f, R)
    <2>1. \A y \in R : e[y] = f[y]
      OBVIOUS
    <2> HIDE DEF R
    <2> QED BY <1>1, <2>1, SumCongruent
  <1>3. SumFunctionOnSet(e, S) = e[x] + SumFunctionOnSet(e, R)
    BY SumRemove
  <1>4. SumFunctionOnSet(f, S) = f[x] + SumFunctionOnSet(f, R)
    BY SumRemove
  <1>5. SumFunctionOnSet(e, R) \in Nat
    BY <1>1, SumType
  <1> HIDE DEF R
  <1> QED BY <1>2, <1>3, <1>4, <1>5

(* SumOfBits: a sum of zeros and ones counts the ones.                     *)
LEMMA SumOfBits ==
    ASSUME NEW S, IsFiniteSet(S), NEW f, \A x \in S : f[x] \in {0, 1}
    PROVE  SumFunctionOnSet(f, S) = Cardinality({x \in S : f[x] = 1})
  <1> DEFINE Ones(s) == {x \in s : f[x] = 1}
             C == {s \in SUBSET S : SumFunctionOnSet(f, s) # Cardinality(Ones(s))}
  <1> SUFFICES ASSUME C # {} PROVE FALSE
    OBVIOUS
  <1>1. PICK s \in C : \A t \in C : t \subseteq s => t = s
    <2>1. C \in SUBSET SUBSET S
      OBVIOUS
    <2> HIDE DEF C
    <2> QED BY <2>1, MinimalSet
  <1>2. s # {}
    <2>1. Ones({}) = {}
      OBVIOUS
    <2>2. SumFunctionOnSet(f, {}) = Cardinality(Ones({}))
      BY <2>1, SumEmpty, FS_EmptySet
    <2> QED BY <2>2
  <1> DEFINE c == Chosen(s)
             r == s \ {c}
  <1>3. c \in s /\ r \in SUBSET S /\ IsFiniteSet(s) /\ IsFiniteSet(r)
    BY <1>2, FS_Subset, ChosenRest
  <1>4. SumFunctionOnSet(f, r) = Cardinality(Ones(r))
    BY <1>1, <1>3
  <1>5. SumFunctionOnSet(f, s) = f[c] + SumFunctionOnSet(f, r)
    BY <1>2, <1>3, SumChosen
  <1>6. IsFiniteSet(Ones(r)) /\ Cardinality(Ones(r)) \in Nat
    BY <1>3, FS_Subset, FS_CardinalityType
  <1>7. CASE f[c] = 1
    <2>1. Ones(s) = Ones(r) \cup {c} /\ c \notin Ones(r)
      BY <1>3, <1>7
    <2>2. Cardinality(Ones(s)) = Cardinality(Ones(r)) + 1
      <3> HIDE DEF Ones, c
      <3> QED BY <1>6, <2>1, FS_AddElement
    <2> QED BY <1>4, <1>5, <1>6, <1>7, <2>2
  <1>8. CASE f[c] = 0
    <2>1. Ones(s) = Ones(r)
      BY <1>3, <1>8
    <2> QED BY <1>4, <1>5, <1>6, <1>8, <2>1
  <1> QED BY <1>3, <1>7, <1>8

(* SumOfZeros: counters that all start at zero have the sum zero.          *)
LEMMA SumOfZeros ==
    ASSUME NEW S, IsFiniteSet(S), NEW f, \A x \in S : f[x] = 0
    PROVE  SumFunctionOnSet(f, S) = 0
  <1>1. \A x \in S : f[x] \in {0, 1}
    OBVIOUS
  <1>2. {x \in S : f[x] = 1} = {}
    OBVIOUS
  <1>3. SumFunctionOnSet(f, S) = Cardinality({x \in S : f[x] = 1})
    BY <1>1, SumOfBits
  <1> QED BY <1>2, <1>3, FS_EmptySet

=============================================================================

---------------------------- MODULE SumTheorems ----------------------------
(***************************************************************************)
(* Sums over finite sets: what SumFunctionOnSet of the Functions module    *)
(* returns, for any function and any finite set; and recursive functions   *)
(* of one number, and folds of a sequence: that they exist, and are unique.*)
(* The library's induction theorems take a predicate; here induction is    *)
(* over a set of subsets or numbers and rests on WFMin, which takes none.  *)
(***************************************************************************)
EXTENDS FiniteSetTheorems, SequenceTheorems, WellFoundedInduction, TLAPS

-----------------------------------------------------------------------------
(* The recursion exists and is unique. *)

Pick(s) == CHOOSE x \in s : TRUE

Adds(g, f, S) ==
  g = [s \in SUBSET S |-> IF s = {} THEN 0 ELSE f[Pick(s)] + g[s \ {Pick(s)}]]

Adder(f, S) == CHOOSE g : Adds(g, f, S)

(* The recursive function inside the fold of the Folds module, by name.     *)
LEMMA SumIsAdder ==
  ASSUME NEW f, NEW S
  PROVE  SumFunctionOnSet(f, S) = Adder(f, S)[S]
BY Zenon DEF SumFunctionOnSet, FoldFunctionOnSet, MapThenFoldSet, Adder, Adds, Pick

(* Induction over the subsets of a finite set, for a set G of them instead of *)
(* a predicate: a smallest counterexample leads to a contradiction.         *)
LEMMA SubsetInduction ==
  ASSUME NEW S, IsFiniteSet(S), NEW G,
         \A T \in SUBSET S : (\A U \in SUBSET T : U # T => U \in G) => T \in G
  PROVE  S \in G
<1> DEFINE B == {T \in SUBSET S : T \notin G}
<1>1. SUFFICES ASSUME S \notin G PROVE FALSE
  OBVIOUS
<1>2. S \in B
  BY <1>1
<1>3. IsWellFoundedOn(StrictSubsetOrdering(S), SUBSET S)
  BY FS_StrictSubsetOrderingWellFounded, FS_FiniteSubsetsOfFinite
<1>4. PICK T \in B : \A y \in B : ~ (<<y, T>> \in StrictSubsetOrdering(S))
  <2>1. B \subseteq SUBSET S /\ B # {}
    BY <1>2
  <2> HIDE DEF B
  <2> QED
    BY <1>3, <2>1, WFMin
<1>5. \A U \in SUBSET T : U # T => U \in G
  BY <1>4 DEF StrictSubsetOrdering
<1> QED
  BY <1>4, <1>5

(* Two such functions agree wherever both are defined.                      *)
LEMMA AdderUnique ==
  ASSUME NEW f, NEW S, NEW T, IsFiniteSet(S), NEW g, NEW h, Adds(g, f, S), Adds(h, f, T)
  PROVE  \A U \in SUBSET (S \cap T) : g[U] = h[U]
<1> DEFINE G == {U \in SUBSET S : U \subseteq T => g[U] = h[U]}
<1>1. SUFFICES ASSUME NEW U \in SUBSET (S \cap T)
               PROVE  g[U] = h[U]
  OBVIOUS
<1>2. IsFiniteSet(U)
  BY FS_Subset
<1>3. ASSUME NEW V \in SUBSET U, \A W \in SUBSET V : W # V => W \in G
      PROVE  V \in G
  <2>1. CASE V = {}
    BY <2>1 DEF Adds
  <2>2. CASE V # {}
    <3>1. Pick(V) \in V
      BY <2>2 DEF Pick
    <3>2. g[V \ {Pick(V)}] = h[V \ {Pick(V)}]
      BY <3>1, <1>3
    <3>3. g[V] = f[Pick(V)] + g[V \ {Pick(V)}]
      BY <2>2 DEF Adds
    <3>4. h[V] = f[Pick(V)] + h[V \ {Pick(V)}]
      BY <2>2 DEF Adds
    <3> QED
      BY <3>2, <3>3, <3>4
  <2> QED
    BY <2>1, <2>2
<1>4. U \in G
  <2> HIDE DEF G
  <2> QED
    BY <1>2, <1>3, SubsetInduction
<1> QED
  BY <1>4

(* There is one over every finite set: below the set the functions of the   *)
(* smaller sets agree, so they can be put together.                         *)
LEMMA AdderExists ==
  ASSUME NEW f, NEW S, IsFiniteSet(S)
  PROVE  Adds(Adder(f, S), f, S)
<1> DEFINE G == {T \in SUBSET S : Adds(Adder(f, T), f, T)}
<1>1. ASSUME NEW T \in SUBSET S, \A U \in SUBSET T : U # T => U \in G
      PROVE  T \in G
  <2> DEFINE below(s) == Adder(f, s \ {Pick(s)})[s \ {Pick(s)}]
             a == [s \in SUBSET T |-> IF s = {} THEN 0 ELSE f[Pick(s)] + below(s)]
  <2>1. ASSUME NEW s \in SUBSET T, s # {}
        PROVE  a[s \ {Pick(s)}] = below(s)
    <3> DEFINE r == s \ {Pick(s)}
    <3>1. Pick(s) \in s
      BY <2>1 DEF Pick
    <3>2. r \in SUBSET T /\ r # T
      BY <3>1
    <3>3. Adds(Adder(f, r), f, r)
      BY <3>2, <1>1
    <3>4. a[r] = Adder(f, r)[r]
      <4>1. CASE r = {}
        <5>1. Adder(f, r)[r] = 0
          BY <3>3, <4>1 DEF Adds
        <5> QED
          BY <4>1, <5>1
      <4>2. CASE r # {}
        <5> DEFINE q == r \ {Pick(r)}
        <5>1. Pick(r) \in r
          BY <4>2 DEF Pick
        <5>2. q \in SUBSET T /\ q # T
          BY <5>1, <3>2
        <5>3. Adds(Adder(f, q), f, q)
          BY <5>2, <1>1
        <5>4. IsFiniteSet(q)
          BY FS_Subset
        <5>5. Adder(f, q)[q] = Adder(f, r)[q]
          <6>1. q \in SUBSET (q \cap r)
            OBVIOUS
          <6> HIDE DEF q, r
          <6>2. \A U \in SUBSET (q \cap r) : Adder(f, q)[U] = Adder(f, r)[U]
            BY <5>3, <5>4, <3>3, AdderUnique
          <6> QED
            BY <6>1, <6>2, Zenon
        <5>6. Adder(f, r)[r] = f[Pick(r)] + Adder(f, r)[q]
          BY <3>3, <4>2 DEF Adds
        <5>7. a[r] = f[Pick(r)] + Adder(f, q)[q]
          BY <4>2, <3>2
        <5> QED
          BY <5>5, <5>6, <5>7
      <4> QED
        BY <4>1, <4>2
    <3> QED
      BY <3>4
  <2>2. Adds(a, f, T)
    <3>1. a = [s \in SUBSET T |-> IF s = {} THEN 0 ELSE f[Pick(s)] + a[s \ {Pick(s)}]]
      BY <2>1
    <3> QED
      BY <3>1 DEF Adds
  <2>3. Adds(Adder(f, T), f, T)
    <3> HIDE DEF a
    <3> QED
      BY <2>2 DEF Adder
  <2> QED
    BY <2>3
<1>2. S \in G
  <2> HIDE DEF G
  <2> QED
    BY <1>1, SubsetInduction
<1> QED
  BY <1>2

-----------------------------------------------------------------------------
(* Sums. *)

(* The sum over nothing.                                                    *)
THEOREM SumEmpty == ASSUME NEW f PROVE SumFunctionOnSet(f, {}) = 0
<1>1. Adds(Adder(f, {}), f, {})
  BY AdderExists, FS_EmptySet
<1>2. Adder(f, {})[{}] = 0
  BY <1>1 DEF Adds
<1> QED
  BY <1>2, SumIsAdder

(* One step of the recursion.                                               *)
LEMMA SumPick ==
  ASSUME NEW f, NEW S, IsFiniteSet(S), S # {}
  PROVE  /\ Pick(S) \in S
         /\ SumFunctionOnSet(f, S) = f[Pick(S)] + SumFunctionOnSet(f, S \ {Pick(S)})
<1> DEFINE r == S \ {Pick(S)}
<1>1. Pick(S) \in S
  BY DEF Pick
<1>2. IsFiniteSet(r)
  BY FS_Subset
<1>3. Adds(Adder(f, S), f, S) /\ Adds(Adder(f, r), f, r)
  BY <1>2, AdderExists
<1>4. Adder(f, S)[S] = f[Pick(S)] + Adder(f, S)[r]
  BY <1>3 DEF Adds
<1>5. Adder(f, S)[r] = Adder(f, r)[r]
  <2>1. r \in SUBSET (S \cap r)
    OBVIOUS
  <2> HIDE DEF r
  <2>2. \A U \in SUBSET (S \cap r) : Adder(f, S)[U] = Adder(f, r)[U]
    BY <1>3, AdderUnique
  <2> QED
    BY <2>1, <2>2, Zenon
<1> QED
  BY <1>1, <1>4, <1>5, SumIsAdder

(* A sum of summands of one kind is of that kind: N is Nat or Int.         *)
LEMMA SumType ==
  ASSUME NEW N, 0 \in N, \A a, b \in N : a + b \in N,
         NEW f, NEW S, IsFiniteSet(S), \A x \in S : f[x] \in N
  PROVE  SumFunctionOnSet(f, S) \in N
<1> DEFINE G == {T \in SUBSET S : SumFunctionOnSet(f, T) \in N}
<1>1. ASSUME NEW T \in SUBSET S, \A U \in SUBSET T : U # T => U \in G
      PROVE  T \in G
  <2>1. CASE T = {}
    BY <2>1, SumEmpty
  <2>2. CASE T # {}
    <3>1. IsFiniteSet(T)
      BY FS_Subset
    <3>2. /\ Pick(T) \in T
          /\ SumFunctionOnSet(f, T) = f[Pick(T)] + SumFunctionOnSet(f, T \ {Pick(T)})
      BY <2>2, <3>1, SumPick
    <3>3. SumFunctionOnSet(f, T \ {Pick(T)}) \in N
      BY <3>2, <1>1
    <3>4. f[Pick(T)] \in N
      BY <3>2
    <3>5. f[Pick(T)] + SumFunctionOnSet(f, T \ {Pick(T)}) \in N
      BY <3>3, <3>4, Zenon
    <3>6. SumFunctionOnSet(f, T) \in N
      BY <3>2, <3>5, Zenon
    <3> QED
      BY <3>6
  <2> QED
    BY <2>1, <2>2
<1>2. S \in G
  <2> HIDE DEF G
  <2> QED
    BY <1>1, SubsetInduction
<1> QED
  BY <1>2

(* A sum of integers is an integer, one of natural numbers a natural number. *)
THEOREM SumInt ==
  ASSUME NEW f, NEW S, IsFiniteSet(S), \A x \in S : f[x] \in Int
  PROVE  SumFunctionOnSet(f, S) \in Int
<1>1. 0 \in Int /\ \A a, b \in Int : a + b \in Int
  OBVIOUS
<1> QED
  BY <1>1, SumType, Zenon

(* ... and the bridge's totals are natural numbers.                         *)
THEOREM SumNat ==
  ASSUME NEW f, NEW S, IsFiniteSet(S), \A x \in S : f[x] \in Nat
  PROVE  SumFunctionOnSet(f, S) \in Nat
<1>1. 0 \in Nat /\ \A a, b \in Nat : a + b \in Nat
  OBVIOUS
<1> QED
  BY <1>1, SumType, Zenon

(* Any element may be taken out first: the order of the fold does not matter. *)
THEOREM SumRemove ==
  ASSUME NEW f, NEW S, IsFiniteSet(S), \A y \in S : f[y] \in Int, NEW x \in S
  PROVE  SumFunctionOnSet(f, S) = f[x] + SumFunctionOnSet(f, S \ {x})
<1> DEFINE Sum(T) == SumFunctionOnSet(f, T)
           G == {T \in SUBSET S : \A y \in T : Sum(T) = f[y] + Sum(T \ {y})}
<1>1. ASSUME NEW T \in SUBSET S, \A U \in SUBSET T : U # T => U \in G
      PROVE  T \in G
  <2>1. SUFFICES ASSUME NEW y \in T PROVE Sum(T) = f[y] + Sum(T \ {y})
    OBVIOUS
  <2> DEFINE p == Pick(T)
  <2>2. IsFiniteSet(T) /\ \A U \in SUBSET T : IsFiniteSet(U)
    BY FS_Subset
  <2>3. p \in T /\ Sum(T) = f[p] + Sum(T \ {p})
    BY <2>2, SumPick
  <2>4. CASE y = p
    BY <2>3, <2>4
  <2>5. CASE y # p
    <3>1. T \ {p} \in G /\ y \in T \ {p}
      BY <1>1, <2>3, <2>5
    <3>2. T \ {y} \in G /\ p \in T \ {y}
      BY <1>1, <2>3, <2>5
    <3>3. Sum(T \ {p}) = f[y] + Sum((T \ {p}) \ {y})
      BY <3>1
    <3>4. Sum(T \ {y}) = f[p] + Sum((T \ {y}) \ {p})
      BY <3>2
    <3>5. Sum((T \ {p}) \ {y}) = Sum((T \ {y}) \ {p})
      <4>1. (T \ {p}) \ {y} = (T \ {y}) \ {p}
        OBVIOUS
      <4> QED
        BY <4>1, Zenon
    <3>6. Sum((T \ {y}) \ {p}) \in Int
      <4>1. IsFiniteSet((T \ {y}) \ {p})
        BY <2>2
      <4> QED
        BY <4>1, SumInt
    <3>7. f[y] \in Int /\ f[p] \in Int
      BY <2>3
    <3> HIDE DEF Sum, p
    <3> QED
      BY <2>3, <3>3, <3>4, <3>5, <3>6, <3>7
  <2> QED
    BY <2>4, <2>5
<1>2. S \in G
  <2> HIDE DEF G
  <2> QED
    BY <1>1, SubsetInduction
<1> QED
  BY <1>2

(* One element more.                                                        *)
THEOREM SumAdd ==
  ASSUME NEW f, NEW S, IsFiniteSet(S), NEW x, x \notin S, \A y \in S \cup {x} : f[y] \in Int
  PROVE  SumFunctionOnSet(f, S \cup {x}) = SumFunctionOnSet(f, S) + f[x]
<1>1. IsFiniteSet(S \cup {x})
  BY FS_AddElement
<1>2. SumFunctionOnSet(f, S \cup {x}) = f[x] + SumFunctionOnSet(f, (S \cup {x}) \ {x})
  BY <1>1, SumRemove
<1>3. SumFunctionOnSet(f, (S \cup {x}) \ {x}) = SumFunctionOnSet(f, S)
  <2>1. (S \cup {x}) \ {x} = S
    OBVIOUS
  <2> QED
    BY <2>1, Zenon
<1>4. SumFunctionOnSet(f, S) \in Int /\ f[x] \in Int
  BY SumInt
<1> QED
  BY <1>2, <1>3, <1>4

(* Only the summands inside the set count.                                  *)
THEOREM SumSame ==
  ASSUME NEW f, NEW g, NEW S, IsFiniteSet(S), \A x \in S : f[x] = g[x]
  PROVE  SumFunctionOnSet(f, S) = SumFunctionOnSet(g, S)
<1> DEFINE G == {T \in SUBSET S : SumFunctionOnSet(f, T) = SumFunctionOnSet(g, T)}
<1>1. ASSUME NEW T \in SUBSET S, \A U \in SUBSET T : U # T => U \in G
      PROVE  T \in G
  <2>1. CASE T = {}
    BY <2>1, SumEmpty
  <2>2. CASE T # {}
    <3>1. IsFiniteSet(T)
      BY FS_Subset
    <3>2. /\ Pick(T) \in T
          /\ SumFunctionOnSet(f, T) = f[Pick(T)] + SumFunctionOnSet(f, T \ {Pick(T)})
          /\ SumFunctionOnSet(g, T) = g[Pick(T)] + SumFunctionOnSet(g, T \ {Pick(T)})
      BY <2>2, <3>1, SumPick
    <3>3. T \ {Pick(T)} \in G
      BY <3>2, <1>1
    <3> QED
      BY <3>2, <3>3
  <2> QED
    BY <2>1, <2>2
<1>2. S \in G
  <2> HIDE DEF G
  <2> QED
    BY <1>1, SubsetInduction
<1> QED
  BY <1>2

(* One summand changes.                                                    *)
THEOREM SumChange ==
  ASSUME NEW f, NEW g, NEW S, IsFiniteSet(S), NEW x \in S,
         \A y \in S : f[y] \in Int /\ g[y] \in Int,
         \A y \in S \ {x} : f[y] = g[y]
  PROVE  SumFunctionOnSet(g, S) = SumFunctionOnSet(f, S) + (g[x] - f[x])
<1>1. IsFiniteSet(S \ {x})
  BY FS_Subset
<1>2. SumFunctionOnSet(f, S \ {x}) = SumFunctionOnSet(g, S \ {x})
  BY <1>1, SumSame
<1>3. /\ SumFunctionOnSet(f, S) = f[x] + SumFunctionOnSet(f, S \ {x})
      /\ SumFunctionOnSet(g, S) = g[x] + SumFunctionOnSet(g, S \ {x})
  BY SumRemove
<1>4. SumFunctionOnSet(f, S \ {x}) \in Int
  BY <1>1, SumInt
<1> QED
  BY <1>2, <1>3, <1>4

(* The sum over a part is no more than the sum over the whole.             *)
THEOREM SumPart ==
  ASSUME NEW f, NEW S, IsFiniteSet(S), \A x \in S : f[x] \in Nat, NEW R \in SUBSET S
  PROVE  SumFunctionOnSet(f, R) <= SumFunctionOnSet(f, S)
<1> DEFINE G == {T \in SUBSET S : SumFunctionOnSet(f, T \cap R) <= SumFunctionOnSet(f, T)}
<1>1. ASSUME NEW T \in SUBSET S, \A U \in SUBSET T : U # T => U \in G
      PROVE  T \in G
  <2>1. IsFiniteSet(T) /\ \A U \in SUBSET T : IsFiniteSet(U)
    BY FS_Subset
  <2>2. CASE T \subseteq R
    <3>1. T \cap R = T
      BY <2>2
    <3>2. SumFunctionOnSet(f, T) \in Nat
      BY <2>1, SumNat
    <3> QED
      BY <3>1, <3>2
  <2>3. CASE ~(T \subseteq R)
    <3>1. PICK x \in T : x \notin R
      BY <2>3
    <3>2. T \ {x} \in G
      BY <1>1
    <3>3. (T \ {x}) \cap R = T \cap R
      BY <3>1
    <3>4. SumFunctionOnSet(f, T) = f[x] + SumFunctionOnSet(f, T \ {x})
      BY <2>1, SumRemove
    <3>5. SumFunctionOnSet(f, T \ {x}) \in Nat /\ SumFunctionOnSet(f, T \cap R) \in Nat
      BY <2>1, SumNat
    <3> QED
      BY <3>2, <3>3, <3>4, <3>5
  <2> QED
    BY <2>2, <2>3
<1>2. S \in G
  <2> HIDE DEF G
  <2> QED
    BY <1>1, SubsetInduction
<1>3. S \cap R = R
  OBVIOUS
<1> QED
  BY <1>2, <1>3

(* A sum is the sum over a part and that over the rest.                    *)
THEOREM SumUnion ==
  ASSUME NEW f, NEW S, IsFiniteSet(S), \A x \in S : f[x] \in Int, NEW R \in SUBSET S
  PROVE  SumFunctionOnSet(f, S) = SumFunctionOnSet(f, R) + SumFunctionOnSet(f, S \ R)
<1> DEFINE Sum(T) == SumFunctionOnSet(f, T)
           G == {T \in SUBSET S : Sum(T) = Sum(T \cap R) + Sum(T \ R)}
<1>1. ASSUME NEW T \in SUBSET S, \A U \in SUBSET T : U # T => U \in G
      PROVE  T \in G
  <2>1. IsFiniteSet(T) /\ \A U \in SUBSET T : IsFiniteSet(U)
    BY FS_Subset
  <2>2. CASE T = {}
    <3>1. T \cap R = {} /\ T \ R = {}
      BY <2>2
    <3> QED
      BY <2>2, <3>1, SumEmpty
  <2>3. CASE T # {}
    <3>1. PICK x \in T : TRUE
      BY <2>3
    <3>2. Sum(T \ {x}) = Sum((T \ {x}) \cap R) + Sum((T \ {x}) \ R)
      BY <1>1
    <3>3. Sum(T) = f[x] + Sum(T \ {x})
      BY <2>1, SumRemove
    <3>4. /\ Sum((T \ {x}) \cap R) \in Int /\ Sum((T \ {x}) \ R) \in Int
          /\ f[x] \in Int
      BY <2>1, SumInt
    <3>5. CASE x \in R
      <4>1. Sum(T \cap R) = f[x] + Sum((T \cap R) \ {x})
        BY <2>1, <3>5, SumRemove
      <4>2. Sum((T \ {x}) \cap R) = Sum((T \cap R) \ {x}) /\ Sum((T \ {x}) \ R) = Sum(T \ R)
        <5>1. (T \ {x}) \cap R = (T \cap R) \ {x} /\ (T \ {x}) \ R = T \ R
          BY <3>5
        <5> QED
          BY <5>1, Zenon
      <4> QED
        BY <3>2, <3>3, <3>4, <4>1, <4>2
    <3>6. CASE x \notin R
      <4>1. Sum(T \ R) = f[x] + Sum((T \ R) \ {x})
        BY <2>1, <3>6, SumRemove
      <4>2. Sum((T \ {x}) \cap R) = Sum(T \cap R) /\ Sum((T \ {x}) \ R) = Sum((T \ R) \ {x})
        <5>1. (T \ {x}) \cap R = T \cap R /\ (T \ {x}) \ R = (T \ R) \ {x}
          BY <3>6
        <5> QED
          BY <5>1, Zenon
      <4> QED
        BY <3>2, <3>3, <3>4, <4>1, <4>2
    <3> QED
      BY <3>5, <3>6
  <2> QED
    BY <2>2, <2>3
<1>2. S \in G
  <2> HIDE DEF G
  <2> QED
    BY <1>1, SubsetInduction
<1>3. S \cap R = R
  OBVIOUS
<1> QED
  BY <1>2, <1>3

(* Nothing but zeros.                                                       *)
THEOREM SumZero ==
  ASSUME NEW f, NEW S, IsFiniteSet(S), \A x \in S : f[x] = 0
  PROVE  SumFunctionOnSet(f, S) = 0
<1>1. 0 \in {0} /\ \A a, b \in {0} : a + b \in {0}
  OBVIOUS
<1>2. \A x \in S : f[x] \in {0}
  OBVIOUS
<1>3. SumFunctionOnSet(f, S) \in {0}
  BY <1>1, <1>2, SumType, Zenon
<1> QED
  BY <1>3

(* The sum over a part as a sum over the whole, with zeros elsewhere.       *)
THEOREM SumFilter ==
  ASSUME NEW f, NEW S, IsFiniteSet(S), \A x \in S : f[x] \in Int, NEW R \in SUBSET S,
         NEW g, \A x \in S : g[x] = IF x \in R THEN f[x] ELSE 0
  PROVE  SumFunctionOnSet(f, R) = SumFunctionOnSet(g, S)
<1>1. IsFiniteSet(R) /\ IsFiniteSet(S \ R)
  BY FS_Subset
<1>2. SumFunctionOnSet(g, S) = SumFunctionOnSet(g, R) + SumFunctionOnSet(g, S \ R)
  BY SumUnion
<1>3. SumFunctionOnSet(g, R) = SumFunctionOnSet(f, R)
  BY <1>1, SumSame
<1>4. SumFunctionOnSet(g, S \ R) = 0
  BY <1>1, SumZero
<1>5. SumFunctionOnSet(f, R) \in Int
  BY <1>1, SumInt
<1> QED
  BY <1>2, <1>3, <1>4, <1>5

(* One summand never exceeds its sum: a balance is part of the supply.      *)
THEOREM PartOfSum ==
  ASSUME NEW S, IsFiniteSet(S), NEW f, \A x \in S : f[x] \in Nat, NEW x \in S
  PROVE  SumFunctionOnSet(f, S) \in Nat /\ f[x] <= SumFunctionOnSet(f, S)
<1>1. IsFiniteSet(S \ {x})
  BY FS_Subset
<1>2. SumFunctionOnSet(f, S \ {x}) \in Nat
  BY <1>1, SumNat
<1>3. SumFunctionOnSet(f, S) = f[x] + SumFunctionOnSet(f, S \ {x})
  BY SumRemove
<1> QED
  BY <1>2, <1>3

(* Induction over the subsets of a finite set, an element at a time.        *)
LEMMA AddInduction ==
  ASSUME NEW S, IsFiniteSet(S), NEW G, {} \in G,
         \A T \in SUBSET S : \A x \in S : x \notin T /\ T \in G => T \cup {x} \in G
  PROVE  S \in G
<1>1. ASSUME NEW T \in SUBSET S, \A U \in SUBSET T : U # T => U \in G
      PROVE  T \in G
  <2>1. CASE T = {}
    BY <2>1
  <2>2. CASE T # {}
    <3>1. PICK x \in T : TRUE
      BY <2>2
    <3>2. T \ {x} \in SUBSET S /\ T \ {x} \in G /\ x \in S /\ x \notin T \ {x}
      BY <1>1, <3>1
    <3>3. (T \ {x}) \cup {x} = T
      BY <3>1
    <3>4. (T \ {x}) \cup {x} \in G
      BY <3>2
    <3> QED
      BY <3>3, <3>4, Zenon
  <2> QED
    BY <2>1, <2>2
<1> QED
  BY <1>1, SubsetInduction

(* The sum of sums.                                                         *)
THEOREM SumPlus ==
  ASSUME NEW S, IsFiniteSet(S), NEW f, NEW g, NEW h,
         \A x \in S : f[x] \in Int /\ g[x] \in Int /\ h[x] = f[x] + g[x]
  PROVE  SumFunctionOnSet(h, S) = SumFunctionOnSet(f, S) + SumFunctionOnSet(g, S)
<1> DEFINE G == {T \in SUBSET S :
                   SumFunctionOnSet(h, T) = SumFunctionOnSet(f, T) + SumFunctionOnSet(g, T)}
<1>1. {} \in G
  BY SumEmpty
<1>2. ASSUME NEW T \in SUBSET S, NEW x \in S, x \notin T, T \in G
      PROVE  T \cup {x} \in G
  <2>1. IsFiniteSet(T) /\ T \cup {x} \in SUBSET S
    BY FS_Subset
  <2>2. \A y \in T \cup {x} : f[y] \in Int /\ g[y] \in Int /\ h[y] \in Int
    BY <2>1
  <2>3. /\ SumFunctionOnSet(f, T \cup {x}) = SumFunctionOnSet(f, T) + f[x]
        /\ SumFunctionOnSet(g, T \cup {x}) = SumFunctionOnSet(g, T) + g[x]
        /\ SumFunctionOnSet(h, T \cup {x}) = SumFunctionOnSet(h, T) + h[x]
    BY <1>2, <2>1, <2>2, SumAdd
  <2>4. SumFunctionOnSet(f, T) \in Int /\ SumFunctionOnSet(g, T) \in Int
    BY <2>1, <2>2, SumInt
  <2>5. SumFunctionOnSet(h, T) = SumFunctionOnSet(f, T) + SumFunctionOnSet(g, T)
    BY <1>2
  <2>6. f[x] \in Int /\ g[x] \in Int /\ h[x] = f[x] + g[x]
    OBVIOUS
  <2>7. SumFunctionOnSet(h, T \cup {x}) = SumFunctionOnSet(f, T \cup {x}) + SumFunctionOnSet(g, T \cup {x})
    BY <2>3, <2>4, <2>5, <2>6
  <2> QED
    BY <2>1, <2>7
<1> HIDE DEF G
<1>3. S \in G
  BY <1>1, <1>2, AddInduction
<1> QED
  BY <1>3 DEF G

(* A sum is at most another when each summand is.                           *)
THEOREM SumAtMost ==
  ASSUME NEW S, IsFiniteSet(S), NEW f, NEW g,
         \A x \in S : f[x] \in Int /\ g[x] \in Int /\ f[x] <= g[x]
  PROVE  SumFunctionOnSet(f, S) <= SumFunctionOnSet(g, S)
<1> DEFINE h == [x \in S |-> g[x] - f[x]]
<1>1. \A x \in S : f[x] \in Int /\ h[x] \in Nat /\ h[x] \in Int /\ g[x] = f[x] + h[x]
  OBVIOUS
<1> HIDE DEF h
<1>2. SumFunctionOnSet(g, S) = SumFunctionOnSet(f, S) + SumFunctionOnSet(h, S)
  BY <1>1, SumPlus
<1>3. SumFunctionOnSet(h, S) \in Nat /\ SumFunctionOnSet(f, S) \in Int
  BY <1>1, SumNat, SumInt
<1> QED
  BY <1>2, <1>3

(* When each summand of one has at most a fixed ratio to that of another,   *)
(* so do the sums.                                                          *)
THEOREM SumFair ==
  ASSUME NEW S, IsFiniteSet(S), NEW f, NEW g, NEW m \in Int, NEW n \in Int,
         \A x \in S : f[x] \in Int /\ g[x] \in Int /\ f[x] * m <= n * g[x]
  PROVE  SumFunctionOnSet(f, S) * m <= n * SumFunctionOnSet(g, S)
<1> DEFINE G == {T \in SUBSET S : SumFunctionOnSet(f, T) * m <= n * SumFunctionOnSet(g, T)}
<1>1. {} \in G
  BY SumEmpty
<1>2. ASSUME NEW T \in SUBSET S, NEW x \in S, x \notin T, T \in G
      PROVE  T \cup {x} \in G
  <2>1. IsFiniteSet(T) /\ T \cup {x} \in SUBSET S
    BY FS_Subset
  <2>2. \A y \in T \cup {x} : f[y] \in Int /\ g[y] \in Int
    BY <2>1
  <2>3. /\ SumFunctionOnSet(f, T \cup {x}) = SumFunctionOnSet(f, T) + f[x]
        /\ SumFunctionOnSet(g, T \cup {x}) = SumFunctionOnSet(g, T) + g[x]
    BY <1>2, <2>1, <2>2, SumAdd
  <2>4. SumFunctionOnSet(f, T) \in Int /\ SumFunctionOnSet(g, T) \in Int
    BY <2>1, <2>2, SumInt
  <2>5. SumFunctionOnSet(f, T) * m <= n * SumFunctionOnSet(g, T) /\ f[x] * m <= n * g[x]
    BY <1>2
  <2>6. \A a, b, c, d \in Int : a * m <= n * b /\ c * m <= n * d => (a + c) * m <= n * (b + d)
    <3> SUFFICES ASSUME NEW a \in Int, NEW b \in Int, NEW c \in Int, NEW d \in Int,
                        a * m <= n * b, c * m <= n * d
                 PROVE  (a + c) * m <= n * (b + d)
      OBVIOUS
    <3>1. (a + c) * m = a * m + c * m /\ n * (b + d) = n * b + n * d
      OBVIOUS
    <3>2. a * m \in Int /\ c * m \in Int /\ n * b \in Int /\ n * d \in Int
      OBVIOUS
    <3> QED
      BY <3>1, <3>2
  <2>7. SumFunctionOnSet(f, T \cup {x}) * m <= n * SumFunctionOnSet(g, T \cup {x})
    <3>1. f[x] \in Int /\ g[x] \in Int
      OBVIOUS
    <3>2. (SumFunctionOnSet(f, T) + f[x]) * m <= n * (SumFunctionOnSet(g, T) + g[x])
      BY <2>4, <2>5, <2>6, <3>1
    <3> QED
      BY <2>3, <3>2
  <2> QED
    BY <2>1, <2>7
<1> HIDE DEF G
<1>3. S \in G
  BY <1>1, <1>2, AddInduction
<1> QED
  BY <1>3 DEF G

(* A sum over other names of the same summands.                             *)
THEOREM SumImage ==
  ASSUME NEW S, IsFiniteSet(S), NEW f, NEW g, NEW e,
         \A x, y \in S : e[x] = e[y] => x = y,
         \A x \in S : f[x] \in Int /\ g[e[x]] = f[x]
  PROVE  SumFunctionOnSet(f, S) = SumFunctionOnSet(g, {e[x] : x \in S})
<1> DEFINE I(T) == {e[y] : y \in T}
           G == {T \in SUBSET S : IsFiniteSet(I(T)) /\ SumFunctionOnSet(f, T) = SumFunctionOnSet(g, I(T))}
<1>1. {} \in G
  <2>1. I({}) = {}
    OBVIOUS
  <2>2. SumFunctionOnSet(f, {}) = 0 /\ SumFunctionOnSet(g, {}) = 0 /\ IsFiniteSet({})
    BY SumEmpty, FS_EmptySet
  <2>3. {} \in SUBSET S
    OBVIOUS
  <2> HIDE DEF I
  <2> QED
    BY <2>1, <2>2, <2>3
<1>2. ASSUME NEW T \in SUBSET S, NEW x \in S, x \notin T, T \in G
      PROVE  T \cup {x} \in G
  <2>1. IsFiniteSet(T) /\ T \cup {x} \in SUBSET S
    BY FS_Subset
  <2>2. I(T \cup {x}) = I(T) \cup {e[x]} /\ e[x] \notin I(T)
    BY <1>2
  <2>3. \A z \in I(T) \cup {e[x]} : g[z] \in Int
    OBVIOUS
  <2> HIDE DEF I
  <2>4. SumFunctionOnSet(f, T \cup {x}) = SumFunctionOnSet(f, T) + f[x]
    BY <1>2, <2>1, SumAdd
  <2>5. IsFiniteSet(I(T)) /\ SumFunctionOnSet(f, T) = SumFunctionOnSet(g, I(T))
    BY <1>2
  <2>6. SumFunctionOnSet(g, I(T) \cup {e[x]}) = SumFunctionOnSet(g, I(T)) + g[e[x]]
    BY <2>2, <2>3, <2>5, SumAdd
  <2>7. IsFiniteSet(I(T) \cup {e[x]})
    BY <2>5, FS_AddElement
  <2>8. g[e[x]] = f[x]
    OBVIOUS
  <2>9. SumFunctionOnSet(f, T \cup {x}) = SumFunctionOnSet(g, I(T \cup {x}))
    BY <2>2, <2>4, <2>5, <2>6, <2>8
  <2>10. IsFiniteSet(I(T \cup {x}))
    BY <2>2, <2>7
  <2> QED
    BY <2>1, <2>9, <2>10
<1> HIDE DEF G
<1>3. S \in G
  BY <1>1, <1>2, AddInduction
<1> QED
  BY <1>3 DEF G

-----------------------------------------------------------------------------
(* Induction over the natural numbers, for a set instead of a predicate.   *)

(* A set that has 0 and with every number the next has them all.            *)
LEMMA SetInduction ==
  ASSUME NEW S, 0 \in S, \A n \in Nat : n \in S => n + 1 \in S
  PROVE  Nat \subseteq S
<1> SUFFICES ASSUME NEW n \in Nat, n \notin S PROVE FALSE
  OBVIOUS
<1> DEFINE T == {0..m : m \in {x \in 0..n : x \notin S}}
<1>1. T \subseteq FiniteSubsetsOf(0..n) /\ T # {}
  <2>1. \A m \in 0..n : 0..m \in SUBSET (0..n) /\ IsFiniteSet(0..m)
    BY FS_Interval
  <2>2. 0..n \in T
    OBVIOUS
  <2> QED
    BY <2>1, <2>2 DEF FiniteSubsetsOf
<1>2. PICK U \in T : \A V \in T : ~(<<V, U>> \in StrictSubsetOrdering(0..n))
  <2> HIDE DEF T
  <2> QED
    BY <1>1, FS_Interval, FS_StrictSubsetOrderingWellFounded, WFMin
<1>3. PICK m \in 0..n : m \notin S /\ U = 0..m
  OBVIOUS
<1>4. m # 0
  BY <1>3
<1>5. m - 1 \notin S
  BY <1>3, <1>4
<1>6. 0..(m - 1) \in T
  BY <1>3, <1>4, <1>5
<1>7. <<0..(m - 1), U>> \in StrictSubsetOrdering(0..n)
  <2>1. 0..(m - 1) \subseteq 0..m /\ m \in 0..m /\ m \notin 0..(m - 1)
    BY <1>3
  <2>2. 0..(m - 1) \in SUBSET (0..n) /\ 0..m \in SUBSET (0..n)
    BY <1>3
  <2> HIDE DEF T
  <2> QED
    BY <1>3, <2>1, <2>2 DEF StrictSubsetOrdering
<1> QED
  BY <1>2, <1>6, <1>7

(* The same up to a bound.                                                  *)
LEMMA BoundedInduction ==
  ASSUME NEW S, NEW N \in Nat, 0 \in S, \A n \in 0..(N - 1) : n \in S => n + 1 \in S
  PROVE  0..N \subseteq S
<1> DEFINE R == {n \in Nat : n <= N => n \in S}
<1>1. 0 \in R /\ \A n \in Nat : n \in R => n + 1 \in R
  OBVIOUS
<1> HIDE DEF R
<1>2. Nat \subseteq R
  BY <1>1, SetInduction
<1> QED
  BY <1>2 DEF R

-----------------------------------------------------------------------------
(* Recursive functions: a value for 0, and one for each n from that of an  *)
(* earlier number.                                                         *)

Recurs(g, N, a, par, F) ==
    /\ DOMAIN g = 0..N
    /\ g[0] = a
    /\ \A n \in 1..N : g[n] = F[<<g[par[n]], n>>]

(* One value more.                                                          *)
LEMMA RecursionStep ==
  ASSUME NEW X, NEW a \in X, NEW N \in Nat,
         NEW par \in [1..N -> 0..N], \A n \in 1..N : par[n] < n,
         NEW F \in [X \X (1..N) -> X],
         NEW m \in 0..(N - 1), NEW g \in [0..m -> X], Recurs(g, m, a, par, F)
  PROVE  \E h \in [0..(m + 1) -> X] : Recurs(h, m + 1, a, par, F)
<1> DEFINE k == m + 1
           h == [n \in 0..k |-> IF n = k THEN F[<<g[par[k]], k>>] ELSE g[n]]
<1>1. k \in 1..N /\ par[k] \in 0..m /\ m \in 0..N /\ m \in Nat
  OBVIOUS
<1>2. g[par[k]] \in X
  BY <1>1
<1>3. F[<<g[par[k]], k>>] \in X
  BY <1>1, <1>2
<1>4. h \in [0..k -> X] /\ h[0] = a
  BY <1>1, <1>3 DEF Recurs
<1>5. ASSUME NEW n \in 1..k PROVE h[n] = F[<<h[par[n]], n>>]
  <2>1. CASE n = k
    <3>1. par[k] \in 0..k /\ par[k] # k
      BY <1>1
    <3> QED
      BY <2>1, <3>1, <1>1
  <2>2. CASE n # k
    <3>1. n \in 1..m /\ n \in 1..N /\ par[n] \in 0..m /\ par[n] \in 0..k /\ par[n] # k
      BY <2>2, <1>1
    <3>2. g[n] = F[<<g[par[n]], n>>]
      BY <3>1 DEF Recurs
    <3> QED
      BY <2>2, <3>1, <3>2
  <2> QED
    BY <2>1, <2>2
<1>6. Recurs(h, k, a, par, F)
  BY <1>4, <1>5 DEF Recurs
<1> QED
  BY <1>4, <1>6

(* There is such a function.                                                *)
LEMMA RecursionExists ==
  ASSUME NEW X, NEW a \in X, NEW N \in Nat,
         NEW par \in [1..N -> 0..N], \A n \in 1..N : par[n] < n,
         NEW F \in [X \X (1..N) -> X]
  PROVE  \E g \in [0..N -> X] : Recurs(g, N, a, par, F)
<1> DEFINE S == {m \in 0..N : \E g \in [0..m -> X] : Recurs(g, m, a, par, F)}
<1>1. 0 \in S
  <2>1. [n \in 0..0 |-> a] \in [0..0 -> X] /\ Recurs([n \in 0..0 |-> a], 0, a, par, F)
    BY DEF Recurs
  <2> QED
    BY <2>1
<1>2. \A m \in 0..(N - 1) : m \in S => m + 1 \in S
  <2> SUFFICES ASSUME NEW m \in 0..(N - 1), m \in S PROVE m + 1 \in S
    OBVIOUS
  <2>1. PICK g \in [0..m -> X] : Recurs(g, m, a, par, F)
    OBVIOUS
  <2>2. \E h \in [0..(m + 1) -> X] : Recurs(h, m + 1, a, par, F)
    BY <2>1, RecursionStep
  <2>3. m + 1 \in 0..N
    OBVIOUS
  <2> QED
    BY <2>2, <2>3
<1>3. N \in S
  <2> HIDE DEF S
  <2>1. 0..N \subseteq S
    BY <1>1, <1>2, BoundedInduction
  <2> QED
    BY <2>1
<1> QED
  BY <1>3

(* Two of them agree wherever both are defined.                             *)
LEMMA RecursionUnique ==
  ASSUME NEW N \in Nat, NEW M \in Nat, NEW a, NEW par, NEW F,
         \A n \in 1..N : par[n] \in 0..(n - 1),
         NEW g, NEW h, Recurs(g, N, a, par, F), Recurs(h, M, a, par, F)
  PROVE  \A n \in 0..N : n <= M => g[n] = h[n]
<1> DEFINE S == {n \in 0..N : \A k \in 0..n : k <= M => g[k] = h[k]}
<1>1. 0 \in S
  BY DEF Recurs
<1>2. \A n \in 0..(N - 1) : n \in S => n + 1 \in S
  <2> SUFFICES ASSUME NEW n \in 0..(N - 1), n \in S
               PROVE  n + 1 \in S
    OBVIOUS
  <2>1. ASSUME NEW k \in 0..(n + 1), k <= M
        PROVE  g[k] = h[k]
    <3>1. CASE k <= n
      BY <2>1, <3>1
    <3>2. CASE k = n + 1
      <4>1. k \in 1..N /\ k \in 1..M /\ par[k] \in 0..n /\ par[k] <= M
        BY <2>1, <3>2
      <4>2. g[k] = F[<<g[par[k]], k>>] /\ h[k] = F[<<h[par[k]], k>>]
        BY <4>1 DEF Recurs
      <4> QED
        BY <4>1, <4>2
    <3> QED
      BY <2>1, <3>1, <3>2
  <2>2. n + 1 \in 0..N
    OBVIOUS
  <2> QED
    BY <2>1, <2>2
<1>3. 0..N \subseteq S
  <2> HIDE DEF S
  <2> QED
    BY <1>1, <1>2, BoundedInduction
<1> QED
  BY <1>3

-----------------------------------------------------------------------------
(* Folds over a sequence: the value for the empty one, and that for a       *)
(* sequence with one element more.                                         *)

(* A set that has the empty sequence and with every sequence those that are *)
(* longer by one element has them all.                                     *)
LEMMA SeqInduction ==
  ASSUME NEW T, NEW S, <<>> \in S, \A s \in Seq(T), x \in T : s \in S => Append(s, x) \in S
  PROVE  Seq(T) \subseteq S
<1> SUFFICES ASSUME NEW s \in Seq(T) PROVE s \in S
  OBVIOUS
<1> DEFINE R == {n \in 0..Len(s) : SubSeq(s, 1, n) \in S}
<1>1. 0 \in R
  <2>1. SubSeq(s, 1, 0) = <<>>
    OBVIOUS
  <2>2. SubSeq(s, 1, 0) \in S
    BY <2>1, Zenon
  <2> QED
    BY <2>2
<1>2. \A n \in 0..(Len(s) - 1) : n \in R => n + 1 \in R
  <2> SUFFICES ASSUME NEW n \in 0..(Len(s) - 1), n \in R PROVE n + 1 \in R
    OBVIOUS
  <2>1. /\ n \in Nat /\ n + 1 \in 1..Len(s) /\ s[n + 1] \in T /\ n + 1 \in 0..Len(s)
        /\ SubSeq(s, 1, n) \in Seq(T)
    OBVIOUS
  <2>2. SubSeq(s, 1, n + 1) = Append(SubSeq(s, 1, n), s[n + 1])
    BY <2>1
  <2>3. Append(SubSeq(s, 1, n), s[n + 1]) \in S
    BY <2>1
  <2> QED
    BY <2>1, <2>2, <2>3
<1>3. Len(s) \in R
  <2> HIDE DEF R
  <2>1. Len(s) \in Nat
    OBVIOUS
  <2>2. 0..Len(s) \subseteq R
    BY <1>1, <1>2, <2>1, BoundedInduction
  <2> QED
    BY <2>1, <2>2
<1>4. SubSeq(s, 1, Len(s)) = s
  OBVIOUS
<1> QED
  BY <1>3, <1>4

(* A fold of a sequence, by the number of elements folded.                  *)
Folds(g, s, a, F) ==
    /\ DOMAIN g = 0..Len(s)
    /\ g[0] = a
    /\ \A n \in 1..Len(s) : g[n] = F[<<g[n - 1], s[n]>>]

(* There is one, of the expected type.                                      *)
LEMMA FoldExists ==
  ASSUME NEW T, NEW s \in Seq(T), NEW X, NEW a \in X, NEW F \in [X \X T -> X]
  PROVE  \E g \in [0..Len(s) -> X] : Folds(g, s, a, F)
<1> DEFINE N == Len(s)
           par == [n \in 1..N |-> n - 1]
           G == [p \in X \X (1..N) |-> F[<<p[1], s[p[2]]>>]]
<1>1. N \in Nat /\ \A n \in 1..N : s[n] \in T
  OBVIOUS
<1>2. G \in [X \X (1..N) -> X]
  BY <1>1
<1>3. par \in [1..N -> 0..N] /\ \A n \in 1..N : par[n] < n
  BY <1>1
<1>4. PICK g \in [0..N -> X] : Recurs(g, N, a, par, G)
  <2> HIDE DEF N, G, par
  <2> QED
    BY <1>1, <1>2, <1>3, RecursionExists
<1>5. ASSUME NEW n \in 1..N PROVE g[n] = F[<<g[n - 1], s[n]>>]
  <2>1. par[n] = n - 1 /\ n - 1 \in 0..N
    BY <1>1
  <2>2. g[n - 1] \in X
    BY <2>1, <1>4
  <2>3. g[n] = G[<<g[n - 1], n>>]
    BY <1>4, <2>1 DEF Recurs
  <2> QED
    BY <2>2, <2>3
<1>6. Folds(g, s, a, F)
  BY <1>4, <1>5 DEF Folds, Recurs
<1> QED
  BY <1>4, <1>6

LongerByOne(s, t) ==
    Len(s) \in Nat /\ Len(t) = Len(s) + 1 /\ \A n \in 1..Len(s) : t[n] = s[n]
GoesOn(h, t, g, s, F) == h[Len(t)] = F[<<g[Len(s)], t[Len(t)]>>]

(* And no other; that of a longer sequence goes on from there.              *)
LEMMA FoldUnique ==
  ASSUME NEW s, NEW t, LongerByOne(s, t),
         NEW a, NEW F, NEW g, NEW h, Folds(g, s, a, F), Folds(h, t, a, F)
  PROVE  GoesOn(h, t, g, s, F)
<1> DEFINE R == {n \in 0..Len(s) : g[n] = h[n]}
<1>1. Len(s) \in Nat /\ Len(t) = Len(s) + 1 /\ \A n \in 1..Len(s) : t[n] = s[n]
  BY DEF LongerByOne
<1>3. 0 \in R
  BY <1>1 DEF Folds
<1>4. \A n \in 0..(Len(s) - 1) : n \in R => n + 1 \in R
  <2> SUFFICES ASSUME NEW n \in 0..(Len(s) - 1), n \in R PROVE n + 1 \in R
    OBVIOUS
  <2>1. n + 1 \in 1..Len(s) /\ n + 1 \in 1..(Len(s) + 1) /\ (n + 1) - 1 = n /\ n + 1 \in 0..Len(s)
    BY <1>1
  <2>2. g[n + 1] = F[<<g[n], s[n + 1]>>]
    BY <2>1 DEF Folds
  <2>3. h[n + 1] = F[<<h[n], s[n + 1]>>]
    BY <1>1, <2>1 DEF Folds
  <2> QED
    BY <2>1, <2>2, <2>3
<1>5. Len(s) \in R
  <2> HIDE DEF R
  <2>1. 0..Len(s) \subseteq R
    BY <1>1, <1>3, <1>4, BoundedInduction
  <2> QED
    BY <1>1, <2>1
<1>6. h[Len(t)] = F[<<h[Len(s)], t[Len(t)]>>]
  <2>1. Len(t) \in 1..Len(t) /\ Len(t) - 1 = Len(s)
    BY <1>1
  <2> QED
    BY <2>1 DEF Folds
<1> QED
  BY <1>5, <1>6 DEF GoesOn

(* Whatever satisfies the equations of a fold is that fold.                 *)
LEMMA FoldTyped ==
  ASSUME NEW T, NEW s \in Seq(T), NEW X, NEW a \in X, NEW F \in [X \X T -> X],
         NEW h, h = [n \in 0..Len(s) |-> h[n]], h[0] = a,
         \A n \in 1..Len(s) : h[n - 1] \in X => h[n] = F[<<h[n - 1], s[n]>>]
  PROVE  h \in [0..Len(s) -> X] /\ Folds(h, s, a, F)
<1> DEFINE R == {n \in 0..Len(s) : h[n] \in X}
<1>0. Len(s) \in Nat /\ \A n \in 1..Len(s) : s[n] \in T
  OBVIOUS
<1>1. 0 \in R
  BY <1>0
<1>2. \A n \in 0..(Len(s) - 1) : n \in R => n + 1 \in R
  <2> SUFFICES ASSUME NEW n \in 0..(Len(s) - 1), n \in R PROVE n + 1 \in R
    OBVIOUS
  <2>1. n + 1 \in 1..Len(s) /\ (n + 1) - 1 = n /\ n + 1 \in 0..Len(s)
    BY <1>0
  <2>2. h[n + 1] = F[<<h[n], s[n + 1]>>] /\ h[n] \in X /\ s[n + 1] \in T
    BY <1>0, <2>1
  <2> QED
    BY <2>1, <2>2
<1>3. \A n \in 0..Len(s) : h[n] \in X
  <2> HIDE DEF R
  <2>1. 0..Len(s) \subseteq R
    BY <1>0, <1>1, <1>2, BoundedInduction
  <2> QED
    BY <2>1 DEF R
<1>4. \A n \in 1..Len(s) : n - 1 \in 0..Len(s)
  BY <1>0
<1> QED
  BY <1>3, <1>4 DEF Folds
=============================================================================

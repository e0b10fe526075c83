-------------------------- MODULE BaitChainProofs --------------------------
(***************************************************************************)
(* Proofs about BaitChain and WorkTemplates, for every set of transactions *)
(* and clients and every bound.                                            *)
(***************************************************************************)
EXTENDS WorkTemplates, SumTheorems, TLAPS

-----------------------------------------------------------------------------
(* What Kept returns.                                                      *)

Keeps(g, s, S) ==
    g = [n \in 0..Len(s) |->
            IF n = 0 THEN <<>>
            ELSE IF s[n] \in S THEN Append(g[n - 1], s[n]) ELSE g[n - 1]]
Keep(T, S) == [p \in Seq(T) \X T |-> IF p[2] \in S THEN Append(p[1], p[2]) ELSE p[1]]

(* The recursion of Kept is such a fold.                                    *)
LEMMA KeptIs ==
  ASSUME NEW T, NEW s \in Seq(T), NEW S
  PROVE  \E g \in [0..Len(s) -> Seq(T)] :
            Folds(g, s, <<>>, Keep(T, S)) /\ Kept(s, S) = g[Len(s)]
<1>0. Len(s) \in Nat /\ (\A n \in 1..Len(s) : s[n] \in T) /\ <<>> \in Seq(T)
  OBVIOUS
<1>1. Keep(T, S) \in [Seq(T) \X T -> Seq(T)]
  BY DEF Keep
<1>2. ASSUME NEW g \in [0..Len(s) -> Seq(T)], Folds(g, s, <<>>, Keep(T, S))
      PROVE  Keeps(g, s, S)
  <2>1. ASSUME NEW n \in 1..Len(s)
        PROVE  g[n] = IF s[n] \in S THEN Append(g[n - 1], s[n]) ELSE g[n - 1]
    <3>0. n - 1 \in 0..Len(s) /\ s[n] \in T
      BY <1>0
    <3>1. g[n - 1] \in Seq(T) /\ s[n] \in T
      BY <1>2, <3>0
    <3>2. g[n] = Keep(T, S)[<<g[n - 1], s[n]>>]
      BY <1>2 DEF Folds
    <3> QED
      BY <3>1, <3>2 DEF Keep
  <2>2. g[0] = <<>>
    BY <1>2 DEF Folds
  <2>3. \A n \in 0..Len(s) : g[n] = IF n = 0 THEN <<>>
                                    ELSE IF s[n] \in S THEN Append(g[n - 1], s[n]) ELSE g[n - 1]
    <3> SUFFICES ASSUME NEW n \in 0..Len(s)
                 PROVE  g[n] = IF n = 0 THEN <<>>
                               ELSE IF s[n] \in S THEN Append(g[n - 1], s[n]) ELSE g[n - 1]
      OBVIOUS
    <3>1. CASE n = 0
      BY <2>2, <3>1
    <3>2. CASE n # 0
      <4>1. n \in 1..Len(s)
        BY <1>0, <3>2
      <4> QED
        BY <2>1, <3>2, <4>1
    <3> QED
      BY <3>1, <3>2
  <2>4. g = [n \in 0..Len(s) |-> g[n]]
    OBVIOUS
  <2> QED
    BY <2>3, <2>4, Zenon DEF Keeps
<1> DEFINE k == CHOOSE g : Keeps(g, s, S)
<1>3. Keeps(k, s, S)
  <2>1. \E g \in [0..Len(s) -> Seq(T)] : Folds(g, s, <<>>, Keep(T, S))
    BY <1>0, <1>1, FoldExists
  <2> QED
    BY <1>2, <2>1
<1>4. Kept(s, S) = k[Len(s)]
  BY DEF Kept, Keeps
<1> HIDE DEF k
<1>5. k \in [0..Len(s) -> Seq(T)] /\ Folds(k, s, <<>>, Keep(T, S))
  <2>0. \A n \in 0..Len(s) : k[n] = IF n = 0 THEN <<>>
                                    ELSE IF s[n] \in S THEN Append(k[n - 1], s[n]) ELSE k[n - 1]
    BY <1>3, Zenon DEF Keeps
  <2>1. k = [n \in 0..Len(s) |-> k[n]] /\ k[0] = <<>>
    BY <1>0, <1>3, <2>0 DEF Keeps
  <2>2. ASSUME NEW n \in 1..Len(s), k[n - 1] \in Seq(T)
        PROVE  k[n] = Keep(T, S)[<<k[n - 1], s[n]>>]
    <3>1. k[n] = IF s[n] \in S THEN Append(k[n - 1], s[n]) ELSE k[n - 1]
      BY <1>0, <2>0
    <3> QED
      BY <1>0, <2>2, <3>1 DEF Keep
  <2> QED
    BY <1>0, <1>1, <2>1, <2>2, FoldTyped
<1> QED
  BY <1>4, <1>5

(* Nothing of nothing.                                                      *)
LEMMA KeptEmpty ==
  ASSUME NEW S
  PROVE  Kept(<<>>, S) = <<>>
<1>1. <<>> \in Seq(Nat) /\ Len(<<>>) = 0
  OBVIOUS
<1>2. PICK g \in [0..Len(<<>>) -> Seq(Nat)] :
        Folds(g, <<>>, <<>>, Keep(Nat, S)) /\ Kept(<<>>, S) = g[Len(<<>>)]
  BY <1>1, KeptIs
<1> QED
  BY <1>1, <1>2 DEF Folds

(* One element more.                                                        *)
LEMMA KeptAppend ==
  ASSUME NEW T, NEW s \in Seq(T), NEW x \in T, NEW S
  PROVE  Kept(Append(s, x), S) = IF x \in S THEN Append(Kept(s, S), x) ELSE Kept(s, S)
<1>1. PICK g \in [0..Len(s) -> Seq(T)] :
        Folds(g, s, <<>>, Keep(T, S)) /\ Kept(s, S) = g[Len(s)]
  BY KeptIs
<1> DEFINE t == Append(s, x)
<1>2. /\ t \in Seq(T) /\ Len(t) = Len(s) + 1 /\ Len(s) \in Nat
      /\ t[Len(t)] = x /\ \A n \in 1..Len(s) : t[n] = s[n]
  OBVIOUS
<1> HIDE DEF t
<1>3. PICK h \in [0..Len(t) -> Seq(T)] :
        Folds(h, t, <<>>, Keep(T, S)) /\ Kept(t, S) = h[Len(t)]
  BY <1>2, KeptIs
<1>4. GoesOn(h, t, g, s, Keep(T, S))
  <2>1. LongerByOne(s, t)
    BY <1>2 DEF LongerByOne
  <2> QED
    BY <1>1, <1>3, <2>1, FoldUnique
<1>5. g[Len(s)] \in Seq(T)
  BY <1>2
<1> QED
  BY <1>1, <1>2, <1>3, <1>4, <1>5 DEF GoesOn, Keep, t

(* A part of a sequence is a sequence of the same kind.                     *)
LEMMA KeptType ==
  ASSUME NEW T, NEW s \in Seq(T), NEW S
  PROVE  Kept(s, S) \in Seq(T)
<1>1. PICK g \in [0..Len(s) -> Seq(T)] :
        Folds(g, s, <<>>, Keep(T, S)) /\ Kept(s, S) = g[Len(s)]
  BY KeptIs
<1>2. Len(s) \in 0..Len(s)
  OBVIOUS
<1> QED
  BY <1>1, <1>2

Elems(s) == {s[i] : i \in DOMAIN s}

(* The elements of a sequence with one more.                                *)
LEMMA ElemsAppend ==
  ASSUME NEW T, NEW s \in Seq(T), NEW x \in T
  PROVE  Elems(Append(s, x)) = Elems(s) \cup {x}
<1>1. ASSUME NEW y \in Elems(Append(s, x)) PROVE y \in Elems(s) \cup {x}
  <2>1. PICK i \in 1..(Len(s) + 1) : y = Append(s, x)[i]
    BY <1>1 DEF Elems
  <2>2. CASE i = Len(s) + 1
    BY <2>1, <2>2
  <2>3. CASE i # Len(s) + 1
    <3>1. i \in DOMAIN s /\ y = s[i]
      BY <2>1, <2>3
    <3> QED
      BY <3>1 DEF Elems
  <2> QED
    BY <2>2, <2>3
<1>2. ASSUME NEW y \in Elems(s) PROVE y \in Elems(Append(s, x))
  <2>1. PICK i \in DOMAIN s : y = s[i]
    BY <1>2 DEF Elems
  <2>2. i \in DOMAIN Append(s, x) /\ Append(s, x)[i] = y
    BY <2>1
  <2> QED
    BY <2>2 DEF Elems
<1>3. x \in Elems(Append(s, x))
  <2>1. Len(s) + 1 \in DOMAIN Append(s, x) /\ Append(s, x)[Len(s) + 1] = x
    OBVIOUS
  <2> QED
    BY <2>1 DEF Elems
<1> QED
  BY <1>1, <1>2, <1>3

(* The empty sequence has none.                                             *)
LEMMA ElemsEmpty == Elems(<<>>) = {}
  BY DEF Elems

(* The elements of a sequence of a kind are of that kind.                   *)
LEMMA ElemsType ==
  ASSUME NEW T, NEW s \in Seq(T)
  PROVE  Elems(s) \subseteq T
  BY DEF Elems

(* What is kept is what is in the set.                                      *)
LEMMA KeptElems ==
  ASSUME NEW T, NEW S
  PROVE  \A s \in Seq(T) : Elems(Kept(s, S)) = Elems(s) \cap S
<1> DEFINE R == {s \in Seq(T) : Elems(Kept(s, S)) = Elems(s) \cap S}
<1>1. <<>> \in R
  <2>1. Elems(Kept(<<>>, S)) = {} /\ Elems(<<>>) = {}
    BY KeptEmpty, ElemsEmpty
  <2>2. <<>> \in Seq(T)
    OBVIOUS
  <2> QED
    BY <2>1, <2>2
<1>2. \A s \in Seq(T), x \in T : s \in R => Append(s, x) \in R
  <2> SUFFICES ASSUME NEW s \in Seq(T), NEW x \in T, s \in R
               PROVE  Append(s, x) \in R
    OBVIOUS
  <2>1. Append(s, x) \in Seq(T) /\ Kept(s, S) \in Seq(T)
    BY KeptType
  <2>2. Elems(Append(s, x)) = Elems(s) \cup {x}
    BY ElemsAppend
  <2>3. Elems(Kept(s, S)) = Elems(s) \cap S
    OBVIOUS
  <2>4. Elems(Kept(Append(s, x), S)) = Elems(Append(s, x)) \cap S
    <3>1. CASE x \in S
      <4>1. Kept(Append(s, x), S) = Append(Kept(s, S), x)
        BY <3>1, KeptAppend
      <4>2. Elems(Append(Kept(s, S), x)) = Elems(Kept(s, S)) \cup {x}
        BY <2>1, ElemsAppend
      <4>3. Elems(Kept(Append(s, x), S)) = Elems(Kept(s, S)) \cup {x}
        BY <4>1, <4>2, Zenon
      <4> HIDE DEF R
      <4> QED
        BY <3>1, <4>3, <2>2, <2>3
    <3>2. CASE x \notin S
      <4>1. Kept(Append(s, x), S) = Kept(s, S)
        BY <3>2, KeptAppend
      <4>2. Elems(Kept(Append(s, x), S)) = Elems(Kept(s, S))
        BY <4>1, Zenon
      <4> HIDE DEF R
      <4> QED
        BY <3>2, <4>2, <2>2, <2>3
    <3> QED
      BY <3>1, <3>2
  <2> QED
    BY <2>1, <2>4
<1> HIDE DEF R
<1>3. Seq(T) \subseteq R
  BY <1>1, <1>2, SeqInduction
<1> QED
  BY <1>3 DEF R

(* Keeping twice keeps what is in both sets.                                *)
LEMMA KeptTwice ==
  ASSUME NEW T, NEW S, NEW Q
  PROVE  \A s \in Seq(T) : Kept(Kept(s, S), Q) = Kept(s, S \cap Q)
<1> DEFINE R == {s \in Seq(T) : Kept(Kept(s, S), Q) = Kept(s, S \cap Q)}
<1>1. <<>> \in R
  <2>1. Kept(<<>>, S) = <<>> /\ Kept(<<>>, Q) = <<>> /\ Kept(<<>>, S \cap Q) = <<>>
    BY KeptEmpty
  <2>2. Kept(Kept(<<>>, S), Q) = Kept(<<>>, S \cap Q)
    BY <2>1, Zenon
  <2>3. <<>> \in Seq(T)
    OBVIOUS
  <2> QED
    BY <2>2, <2>3
<1>2. \A s \in Seq(T), x \in T : s \in R => Append(s, x) \in R
  <2> SUFFICES ASSUME NEW s \in Seq(T), NEW x \in T, s \in R
               PROVE  Append(s, x) \in R
    OBVIOUS
  <2>1. Append(s, x) \in Seq(T) /\ Kept(s, S) \in Seq(T)
    BY KeptType
  <2>2. Kept(Kept(s, S), Q) = Kept(s, S \cap Q)
    OBVIOUS
  <2> HIDE DEF R
  <2>3. /\ Kept(Append(s, x), S \cap Q)
             = IF x \in S \cap Q THEN Append(Kept(s, S \cap Q), x) ELSE Kept(s, S \cap Q)
        /\ Kept(Append(s, x), S) = IF x \in S THEN Append(Kept(s, S), x) ELSE Kept(s, S)
        /\ Kept(Append(Kept(s, S), x), Q)
             = IF x \in Q THEN Append(Kept(Kept(s, S), Q), x) ELSE Kept(Kept(s, S), Q)
    <3>1. Kept(Append(s, x), S) = IF x \in S THEN Append(Kept(s, S), x) ELSE Kept(s, S)
      BY KeptAppend
    <3> DEFINE k == Kept(s, S)
               P == S \cap Q
    <3>2. k \in Seq(T)
      BY <2>1
    <3> HIDE DEF k, P
    <3>3. Kept(Append(s, x), P) = IF x \in P THEN Append(Kept(s, P), x) ELSE Kept(s, P)
      BY KeptAppend
    <3>4. Kept(Append(k, x), Q) = IF x \in Q THEN Append(Kept(k, Q), x) ELSE Kept(k, Q)
      BY <3>2, KeptAppend
    <3> QED
      BY <3>1, <3>3, <3>4, Zenon DEF k, P
  <2>4. Kept(Kept(Append(s, x), S), Q) = Kept(Append(s, x), S \cap Q)
    <3>1. CASE x \notin S
      <4>1. x \notin S \cap Q
        BY <3>1
      <4> QED
        BY <2>2, <2>3, <3>1, <4>1, Zenon
    <3>2. CASE x \in S /\ x \in Q
      <4>1. x \in S \cap Q
        BY <3>2
      <4> QED
        BY <2>2, <2>3, <3>2, <4>1, Zenon
    <3>3. CASE x \in S /\ x \notin Q
      <4>1. x \notin S \cap Q
        BY <3>3
      <4> QED
        BY <2>2, <2>3, <3>3, <4>1, Zenon
    <3> QED
      BY <3>1, <3>2, <3>3
  <2> QED
    BY <2>1, <2>4 DEF R
<1> HIDE DEF R
<1>3. Seq(T) \subseteq R
  BY <1>1, <1>2, SeqInduction
<1> QED
  BY <1>3 DEF R

(* Only whether the elements of the sequence are in the set matters.        *)
LEMMA KeptSame ==
  ASSUME NEW T, NEW S, NEW Q
  PROVE  \A s \in Seq(T) : (\A x \in Elems(s) : x \in S <=> x \in Q) => Kept(s, S) = Kept(s, Q)
<1> DEFINE Alike(s) == \A x \in Elems(s) : x \in S <=> x \in Q
           R == {s \in Seq(T) : Alike(s) => Kept(s, S) = Kept(s, Q)}
<1>1. <<>> \in R
  <2>1. Kept(<<>>, S) = Kept(<<>>, Q)
    BY KeptEmpty, Zenon
  <2>2. <<>> \in Seq(T)
    OBVIOUS
  <2> QED
    BY <2>1, <2>2
<1>2. \A s \in Seq(T), x \in T : s \in R => Append(s, x) \in R
  <2> SUFFICES ASSUME NEW s \in Seq(T), NEW x \in T, s \in R, Alike(Append(s, x))
               PROVE  Kept(Append(s, x), S) = Kept(Append(s, x), Q)
    <3> HIDE DEF Alike
    <3> QED
      OBVIOUS
  <2>1. Elems(Append(s, x)) = Elems(s) \cup {x}
    BY ElemsAppend
  <2>2. Kept(s, S) = Kept(s, Q) /\ (x \in S <=> x \in Q)
    BY <2>1
  <2>3. /\ Kept(Append(s, x), S) = IF x \in S THEN Append(Kept(s, S), x) ELSE Kept(s, S)
        /\ Kept(Append(s, x), Q) = IF x \in Q THEN Append(Kept(s, Q), x) ELSE Kept(s, Q)
    BY KeptAppend
  <2> QED
    BY <2>2, <2>3, Zenon
<1> HIDE DEF R
<1>3. Seq(T) \subseteq R
  BY <1>1, <1>2, SeqInduction
<1> QED
  BY <1>3 DEF R

(* Nothing is kept when no element is in the set.                           *)
LEMMA KeptNone ==
  ASSUME NEW T, NEW S, NEW s \in Seq(T), Elems(s) \cap S = {}
  PROVE  Kept(s, S) = <<>>
<1>1. Elems(Kept(s, S)) = {} /\ Kept(s, S) \in Seq(T)
  BY KeptElems, KeptType
<1>2. ASSUME Kept(s, S) # <<>> PROVE FALSE
  <2> DEFINE k == Kept(s, S)
  <2>1. 1 \in DOMAIN k
    BY <1>1, <1>2
  <2> HIDE DEF k
  <2>2. k[1] \in Elems(k)
    BY <2>1 DEF Elems
  <2> QED
    BY <1>1, <2>2 DEF k
<1> QED
  BY <1>2

-----------------------------------------------------------------------------
(* The size of the orphan pool.                                            *)

Orphans == [parent : Nat, blocks : Seq(Nat)]
Sizes(g, s) ==
    g = [i \in 0..Len(s) |-> IF i = 0 THEN 0 ELSE g[i - 1] + Len(s[i].blocks)]
AddSize == [p \in Nat \X Orphans |-> p[1] + Len(p[2].blocks)]

(* The recursion of SizeOf is a fold.                                       *)
LEMMA SizeIs ==
  ASSUME NEW s \in Seq(Orphans)
  PROVE  \E g \in [0..Len(s) -> Nat] : Folds(g, s, 0, AddSize) /\ SizeOf(s) = g[Len(s)]
<1>0. Len(s) \in Nat /\ (\A n \in 1..Len(s) : s[n] \in Orphans) /\ 0 \in Nat
  OBVIOUS
<1>1. AddSize \in [Nat \X Orphans -> Nat]
  <2>1. \A p \in Nat \X Orphans : p[1] + Len(p[2].blocks) \in Nat
    <3> SUFFICES ASSUME NEW p \in Nat \X Orphans PROVE p[1] + Len(p[2].blocks) \in Nat
      OBVIOUS
    <3>1. p[1] \in Nat /\ p[2].blocks \in Seq(Nat)
      BY DEF Orphans
    <3> QED
      BY <3>1
  <2> QED
    BY <2>1 DEF AddSize
<1>2. ASSUME NEW g \in [0..Len(s) -> Nat], Folds(g, s, 0, AddSize)
      PROVE  Sizes(g, s)
  <2>1. ASSUME NEW n \in 1..Len(s)
        PROVE  g[n] = g[n - 1] + Len(s[n].blocks)
    <3>1. n - 1 \in 0..Len(s) /\ g[n - 1] \in Nat /\ s[n] \in Orphans
      BY <1>0, <1>2
    <3>2. g[n] = AddSize[<<g[n - 1], s[n]>>]
      BY <1>2 DEF Folds
    <3> QED
      BY <3>1, <3>2 DEF AddSize
  <2>2. g[0] = 0
    BY <1>2 DEF Folds
  <2>3. \A n \in 0..Len(s) : g[n] = IF n = 0 THEN 0 ELSE g[n - 1] + Len(s[n].blocks)
    <3> SUFFICES ASSUME NEW n \in 0..Len(s)
                 PROVE  g[n] = IF n = 0 THEN 0 ELSE g[n - 1] + Len(s[n].blocks)
      OBVIOUS
    <3>1. CASE n = 0
      BY <2>2, <3>1
    <3>2. CASE n # 0
      <4>1. n \in 1..Len(s)
        BY <1>0, <3>2
      <4> QED
        BY <2>1, <3>2, <4>1
    <3> QED
      BY <3>1, <3>2
  <2>4. g = [n \in 0..Len(s) |-> g[n]]
    OBVIOUS
  <2> QED
    BY <2>3, <2>4, Zenon DEF Sizes
<1> DEFINE k == CHOOSE g : Sizes(g, s)
<1>3. Sizes(k, s)
  <2>1. \E g \in [0..Len(s) -> Nat] : Folds(g, s, 0, AddSize)
    BY <1>0, <1>1, FoldExists
  <2> QED
    BY <1>2, <2>1
<1>4. SizeOf(s) = k[Len(s)]
  BY DEF SizeOf, Sizes
<1> HIDE DEF k
<1>5. k \in [0..Len(s) -> Nat] /\ Folds(k, s, 0, AddSize)
  <2>0. \A n \in 0..Len(s) : k[n] = IF n = 0 THEN 0 ELSE k[n - 1] + Len(s[n].blocks)
    BY <1>3, Zenon DEF Sizes
  <2>1. k = [n \in 0..Len(s) |-> k[n]] /\ k[0] = 0
    BY <1>0, <1>3, <2>0 DEF Sizes
  <2>2. ASSUME NEW n \in 1..Len(s), k[n - 1] \in Nat
        PROVE  k[n] = AddSize[<<k[n - 1], s[n]>>]
    <3>1. k[n] = k[n - 1] + Len(s[n].blocks)
      BY <1>0, <2>0
    <3> QED
      BY <1>0, <2>2, <3>1 DEF AddSize
  <2> QED
    BY <1>0, <1>1, <2>1, <2>2, FoldTyped
<1> QED
  BY <1>4, <1>5

(* An empty pool has no blocks.                                            *)
LEMMA SizeEmpty == SizeOf(<<>>) = 0
<1>1. <<>> \in Seq(Orphans) /\ Len(<<>>) = 0
  OBVIOUS
<1>2. PICK g \in [0..Len(<<>>) -> Nat] : Folds(g, <<>>, 0, AddSize) /\ SizeOf(<<>>) = g[Len(<<>>)]
  BY <1>1, SizeIs
<1> QED
  BY <1>1, <1>2 DEF Folds

(* One entry more.                                                         *)
LEMMA SizeAppend ==
  ASSUME NEW s \in Seq(Orphans), NEW x \in Orphans
  PROVE  /\ SizeOf(s) \in Nat
         /\ SizeOf(Append(s, x)) = SizeOf(s) + Len(x.blocks)
<1>1. PICK g \in [0..Len(s) -> Nat] : Folds(g, s, 0, AddSize) /\ SizeOf(s) = g[Len(s)]
  BY SizeIs
<1> DEFINE t == Append(s, x)
<1>2. /\ t \in Seq(Orphans) /\ Len(t) = Len(s) + 1 /\ Len(s) \in Nat
      /\ t[Len(t)] = x /\ \A n \in 1..Len(s) : t[n] = s[n]
  OBVIOUS
<1> HIDE DEF t
<1>3. PICK h \in [0..Len(t) -> Nat] : Folds(h, t, 0, AddSize) /\ SizeOf(t) = h[Len(t)]
  BY <1>2, SizeIs
<1>4. GoesOn(h, t, g, s, AddSize)
  <2>1. LongerByOne(s, t)
    BY <1>2 DEF LongerByOne
  <2> QED
    BY <1>1, <1>3, <2>1, FoldUnique
<1>5. g[Len(s)] \in Nat
  BY <1>2
<1>6. h[Len(t)] = AddSize[<<g[Len(s)], x>>]
  BY <1>2, <1>4 DEF GoesOn
<1>7. AddSize[<<g[Len(s)], x>>] = g[Len(s)] + Len(x.blocks)
  BY <1>5 DEF AddSize
<1> QED
  BY <1>1, <1>3, <1>5, <1>6, <1>7 DEF t

(* The size is a number, at least that of the keys when none is empty.      *)
LEMMA SizeAtLeast ==
  \A s \in Seq(Orphans) :
    /\ SizeOf(s) \in Nat
    /\ (\A o \in Elems(s) : Len(o.blocks) >= 1) => SizeOf(s) >= Len(s)
<1> DEFINE R == {s \in Seq(Orphans) :
                   /\ SizeOf(s) \in Nat
                   /\ (\A o \in Elems(s) : Len(o.blocks) >= 1) => SizeOf(s) >= Len(s)}
<1>1. <<>> \in R
  BY SizeEmpty
<1>2. \A s \in Seq(Orphans), x \in Orphans : s \in R => Append(s, x) \in R
  <2> SUFFICES ASSUME NEW s \in Seq(Orphans), NEW x \in Orphans, s \in R
               PROVE  Append(s, x) \in R
    OBVIOUS
  <2>1. SizeOf(Append(s, x)) = SizeOf(s) + Len(x.blocks) /\ SizeOf(s) \in Nat
    BY SizeAppend
  <2>2. Elems(Append(s, x)) = Elems(s) \cup {x}
    BY ElemsAppend
  <2>3. Len(x.blocks) \in Nat
    <3>1. x.blocks \in Seq(Nat)
      BY DEF Orphans
    <3> QED
      BY <3>1
  <2>4. Append(s, x) \in Seq(Orphans) /\ Len(Append(s, x)) = Len(s) + 1 /\ Len(s) \in Nat
    OBVIOUS
  <2>5. ASSUME \A o \in Elems(Append(s, x)) : Len(o.blocks) >= 1
        PROVE  SizeOf(Append(s, x)) >= Len(Append(s, x))
    <3>1. Len(x.blocks) >= 1 /\ \A o \in Elems(s) : Len(o.blocks) >= 1
      BY <2>2, <2>5
    <3>2. SizeOf(s) >= Len(s)
      BY <3>1
    <3> HIDE DEF R
    <3> QED
      BY <2>1, <2>3, <2>4, <3>1, <3>2
  <2>6. SizeOf(Append(s, x)) \in Nat
    BY <2>1, <2>3
  <2> QED
    BY <2>4, <2>5, <2>6
<1> HIDE DEF R
<1>3. Seq(Orphans) \subseteq R
  BY <1>1, <1>2, SeqInduction
<1> QED
  BY <1>3 DEF R

(* Two parts of a pool.                                                    *)
LEMMA SizeConcat ==
  ASSUME NEW s \in Seq(Orphans)
  PROVE  \A t \in Seq(Orphans) : SizeOf(s \o t) = SizeOf(s) + SizeOf(t)
<1> DEFINE R == {t \in Seq(Orphans) : SizeOf(s \o t) = SizeOf(s) + SizeOf(t)}
<1>0. SizeOf(s) \in Nat
  BY SizeAtLeast
<1>1. <<>> \in R
  <2>1. s \o <<>> = s /\ <<>> \in Seq(Orphans)
    OBVIOUS
  <2>2. SizeOf(s \o <<>>) = SizeOf(s)
    BY <2>1, Zenon
  <2> QED
    BY <1>0, <2>1, <2>2, SizeEmpty
<1>2. \A t \in Seq(Orphans), x \in Orphans : t \in R => Append(t, x) \in R
  <2> SUFFICES ASSUME NEW t \in Seq(Orphans), NEW x \in Orphans, t \in R
               PROVE  Append(t, x) \in R
    OBVIOUS
  <2>1. SizeOf(Append(t, x)) = SizeOf(t) + Len(x.blocks) /\ SizeOf(t) \in Nat
    BY SizeAppend
  <2> DEFINE c == s \o t
  <2>2. c \in Seq(Orphans) /\ s \o Append(t, x) = Append(c, x) /\ Append(t, x) \in Seq(Orphans)
    OBVIOUS
  <2>3. SizeOf(c) = SizeOf(s) + SizeOf(t)
    OBVIOUS
  <2> HIDE DEF c, R
  <2>4. SizeOf(Append(c, x)) = SizeOf(c) + Len(x.blocks)
    BY <2>2, SizeAppend
  <2>5. SizeOf(s \o Append(t, x)) = SizeOf(c) + Len(x.blocks)
    BY <2>2, <2>4, Zenon
  <2>6. Len(x.blocks) \in Nat
    <3>1. x.blocks \in Seq(Nat)
      BY DEF Orphans
    <3> QED
      BY <3>1
  <2>7. SizeOf(s \o Append(t, x)) = SizeOf(s) + SizeOf(Append(t, x))
    BY <1>0, <2>1, <2>3, <2>5, <2>6
  <2> QED
    BY <2>2, <2>7 DEF R
<1> HIDE DEF R
<1>3. Seq(Orphans) \subseteq R
  BY <1>1, <1>2, SeqInduction
<1> QED
  BY <1>3 DEF R

(* What is kept of a pool is no larger.                                    *)
LEMMA SizeKept ==
  ASSUME NEW S
  PROVE  \A s \in Seq(Orphans) : SizeOf(Kept(s, S)) <= SizeOf(s)
<1> DEFINE R == {s \in Seq(Orphans) : SizeOf(Kept(s, S)) <= SizeOf(s)}
<1>1. <<>> \in R
  <2>1. SizeOf(Kept(<<>>, S)) = 0
    BY KeptEmpty, SizeEmpty, Zenon
  <2> QED
    BY <2>1, SizeEmpty
<1>2. \A s \in Seq(Orphans), x \in Orphans : s \in R => Append(s, x) \in R
  <2> SUFFICES ASSUME NEW s \in Seq(Orphans), NEW x \in Orphans, s \in R
               PROVE  Append(s, x) \in R
    OBVIOUS
  <2> DEFINE k == Kept(s, S)
  <2>1. k \in Seq(Orphans) /\ Append(s, x) \in Seq(Orphans)
    BY KeptType
  <2>2. SizeOf(k) <= SizeOf(s)
    OBVIOUS
  <2>3. Kept(Append(s, x), S) = IF x \in S THEN Append(k, x) ELSE k
    BY KeptAppend
  <2>4. Len(x.blocks) \in Nat
    <3>1. x.blocks \in Seq(Nat)
      BY DEF Orphans
    <3> QED
      BY <3>1
  <2> HIDE DEF k, R
  <2>5. /\ SizeOf(s) \in Nat /\ SizeOf(Append(s, x)) = SizeOf(s) + Len(x.blocks)
        /\ SizeOf(k) \in Nat /\ SizeOf(Append(k, x)) = SizeOf(k) + Len(x.blocks)
    BY <2>1, SizeAppend
  <2>6. SizeOf(Kept(Append(s, x), S)) <= SizeOf(Append(s, x))
    <3>1. CASE x \in S
      <4>1. SizeOf(Kept(Append(s, x), S)) = SizeOf(Append(k, x))
        BY <2>3, <3>1, Zenon
      <4> QED
        BY <2>2, <2>4, <2>5, <4>1
    <3>2. CASE x \notin S
      <4>1. SizeOf(Kept(Append(s, x), S)) = SizeOf(k)
        BY <2>3, <3>2, Zenon
      <4> QED
        BY <2>2, <2>4, <2>5, <4>1
    <3> QED
      BY <3>1, <3>2
  <2> QED
    BY <2>1, <2>6 DEF R
<1> HIDE DEF R
<1>3. Seq(Orphans) \subseteq R
  BY <1>1, <1>2, SeqInduction
<1> QED
  BY <1>3 DEF R

-----------------------------------------------------------------------------
(* The coins a chain leaves.  bs says what each block says, so that the     *)
(* chains of two states can be compared.                                   *)

TxsIn(b, bs) == IF b = 0 THEN {} ELSE bs[b].txs
SpentIn(b, bs) == {Spends[t] : t \in TxsIn(b, bs)}

Left(c, plain, bs) ==
  LET left[n \in 0..Len(c)] ==
        IF n = 0 THEN {}
        ELSE IF c[n] \in plain THEN left[n - 1] \cup {c[n]}
        ELSE (left[n - 1] \ SpentIn(c[n], bs)) \cup {c[n]} \cup TxsIn(c[n], bs)
  IN  left[Len(c)]

(* Replay is this function of the blocks there are.                         *)
LEMMA ReplayIsLeft ==
  ASSUME NEW c, NEW plain
  PROVE  Replay(c, plain) = Left(c, plain, blocks)
  BY Zenon DEF Replay, Left, TxsOf, TxsIn, SpentIn

Leaves(g, c, plain, bs) ==
    g = [n \in 0..Len(c) |->
          IF n = 0 THEN {}
          ELSE IF c[n] \in plain THEN g[n - 1] \cup {c[n]}
          ELSE (g[n - 1] \ SpentIn(c[n], bs)) \cup {c[n]} \cup TxsIn(c[n], bs)]
CoinsOf(bs) == Nat \cup UNION {TxsIn(b, bs) : b \in Nat}
Applied(coins, b, plain, bs) ==
    IF b \in plain THEN coins \cup {b}
    ELSE (coins \ SpentIn(b, bs)) \cup {b} \cup TxsIn(b, bs)
Apply(plain, bs) ==
    [p \in (SUBSET CoinsOf(bs)) \X Nat |-> Applied(p[1], p[2], plain, bs)]

(* A block makes coins of coins.                                            *)
LEMMA AppliedType ==
  ASSUME NEW plain, NEW bs, NEW coins \in SUBSET CoinsOf(bs), NEW b \in Nat
  PROVE  Applied(coins, b, plain, bs) \in SUBSET CoinsOf(bs)
<1>1. {b} \subseteq CoinsOf(bs) /\ TxsIn(b, bs) \subseteq CoinsOf(bs)
  <2> HIDE DEF TxsIn
  <2> QED
    BY DEF CoinsOf
<1> QED
  BY <1>1 DEF Applied

(* The recursion of Replay is a fold.                                       *)
LEMMA LeftIs ==
  ASSUME NEW c \in Seq(Nat), NEW plain, NEW bs
  PROVE  \E g \in [0..Len(c) -> SUBSET CoinsOf(bs)] :
            Folds(g, c, {}, Apply(plain, bs)) /\ Left(c, plain, bs) = g[Len(c)]
<1> DEFINE X == SUBSET CoinsOf(bs)
<1>0. Len(c) \in Nat /\ (\A n \in 1..Len(c) : c[n] \in Nat) /\ {} \in X
  OBVIOUS
<1>1. Apply(plain, bs) \in [X \X Nat -> X]
  BY AppliedType DEF Apply
<1>2. ASSUME NEW g \in [0..Len(c) -> X], Folds(g, c, {}, Apply(plain, bs))
      PROVE  Leaves(g, c, plain, bs)
  <2>1. ASSUME NEW n \in 1..Len(c)
        PROVE  g[n] = Applied(g[n - 1], c[n], plain, bs)
    <3>1. n - 1 \in 0..Len(c) /\ g[n - 1] \in X /\ c[n] \in Nat
      <4>1. n - 1 \in 0..Len(c) /\ c[n] \in Nat
        BY <1>0
      <4> HIDE DEF X
      <4>2. g[n - 1] \in X
        BY <1>2, <4>1
      <4> QED
        BY <4>1, <4>2
    <3>2. g[n] = Apply(plain, bs)[<<g[n - 1], c[n]>>]
      BY <1>2 DEF Folds
    <3> HIDE DEF X
    <3> QED
      BY <3>1, <3>2 DEF Apply, X
  <2>2. g[0] = {}
    BY <1>2 DEF Folds
  <2>3. \A n \in 0..Len(c) : g[n] = IF n = 0 THEN {} ELSE Applied(g[n - 1], c[n], plain, bs)
    <3> SUFFICES ASSUME NEW n \in 0..Len(c)
                 PROVE  g[n] = IF n = 0 THEN {} ELSE Applied(g[n - 1], c[n], plain, bs)
      OBVIOUS
    <3>1. CASE n = 0
      BY <2>2, <3>1
    <3>2. CASE n # 0
      <4>1. n \in 1..Len(c)
        BY <1>0, <3>2
      <4> QED
        BY <2>1, <3>2, <4>1
    <3> QED
      BY <3>1, <3>2
  <2>4. g = [n \in 0..Len(c) |-> g[n]]
    OBVIOUS
  <2> QED
    BY <2>3, <2>4, Zenon DEF Leaves, Applied
<1> DEFINE k == CHOOSE g : Leaves(g, c, plain, bs)
<1>3. Leaves(k, c, plain, bs)
  <2>1. \E g \in [0..Len(c) -> X] : Folds(g, c, {}, Apply(plain, bs))
    <3> HIDE DEF X
    <3> QED
      BY <1>0, <1>1, FoldExists
  <2> QED
    BY <1>2, <2>1
<1>4. Left(c, plain, bs) = k[Len(c)]
  BY DEF Left, Leaves
<1> HIDE DEF k
<1>5. k \in [0..Len(c) -> X] /\ Folds(k, c, {}, Apply(plain, bs))
  <2>0. \A n \in 0..Len(c) : k[n] = IF n = 0 THEN {} ELSE Applied(k[n - 1], c[n], plain, bs)
    BY <1>3, Zenon DEF Leaves, Applied
  <2>1. k = [n \in 0..Len(c) |-> k[n]] /\ k[0] = {}
    BY <1>0, <1>3, <2>0 DEF Leaves
  <2>2. ASSUME NEW n \in 1..Len(c), k[n - 1] \in X
        PROVE  k[n] = Apply(plain, bs)[<<k[n - 1], c[n]>>]
    <3>1. k[n] = Applied(k[n - 1], c[n], plain, bs)
      BY <1>0, <2>0
    <3> QED
      BY <1>0, <2>2, <3>1 DEF Apply
  <2> HIDE DEF X
  <2> QED
    BY <1>0, <1>1, <2>1, <2>2, FoldTyped
<1> QED
  BY <1>4, <1>5

(* No chain leaves no coins.                                               *)
LEMMA LeftEmpty ==
  ASSUME NEW plain, NEW bs
  PROVE  Left(<<>>, plain, bs) = {}
<1>1. <<>> \in Seq(Nat) /\ Len(<<>>) = 0
  OBVIOUS
<1>2. PICK g \in [0..Len(<<>>) -> SUBSET CoinsOf(bs)] :
        Folds(g, <<>>, {}, Apply(plain, bs)) /\ Left(<<>>, plain, bs) = g[Len(<<>>)]
  BY <1>1, LeftIs
<1> QED
  BY <1>1, <1>2 DEF Folds

(* One block more.                                                         *)
LEMMA LeftAppend ==
  ASSUME NEW c \in Seq(Nat), NEW b \in Nat, NEW plain, NEW bs
  PROVE  Left(Append(c, b), plain, bs) = Applied(Left(c, plain, bs), b, plain, bs)
<1> DEFINE X == SUBSET CoinsOf(bs)
<1>1. PICK g \in [0..Len(c) -> X] :
        Folds(g, c, {}, Apply(plain, bs)) /\ Left(c, plain, bs) = g[Len(c)]
  BY LeftIs
<1> DEFINE t == Append(c, b)
<1>2. /\ t \in Seq(Nat) /\ Len(t) = Len(c) + 1 /\ Len(c) \in Nat
      /\ t[Len(t)] = b /\ \A n \in 1..Len(c) : t[n] = c[n]
  OBVIOUS
<1> HIDE DEF t
<1>3. PICK h \in [0..Len(t) -> X] :
        Folds(h, t, {}, Apply(plain, bs)) /\ Left(t, plain, bs) = h[Len(t)]
  BY <1>2, LeftIs
<1>4. GoesOn(h, t, g, c, Apply(plain, bs))
  <2>1. LongerByOne(c, t)
    BY <1>2 DEF LongerByOne
  <2> QED
    BY <1>1, <1>3, <2>1, FoldUnique
<1>5. g[Len(c)] \in X
  <2>1. Len(c) \in 0..Len(c)
    BY <1>2
  <2> HIDE DEF X
  <2> QED
    BY <2>1
<1>6. h[Len(t)] = Apply(plain, bs)[<<g[Len(c)], b>>]
  BY <1>2, <1>4 DEF GoesOn
<1>7. Apply(plain, bs)[<<g[Len(c)], b>>] = Applied(g[Len(c)], b, plain, bs)
  BY <1>5 DEF Apply
<1> QED
  BY <1>1, <1>3, <1>6, <1>7 DEF t
Made(c, bs) == Elems(c) \cup UNION {TxsIn(b, bs) : b \in Elems(c)}

(* A coin that is left was made by a block of the chain.                    *)
LEMMA LeftIsMade ==
  ASSUME NEW plain, NEW bs
  PROVE  \A c \in Seq(Nat) : Left(c, plain, bs) \subseteq Made(c, bs)
<1> DEFINE R == {c \in Seq(Nat) : Left(c, plain, bs) \subseteq Made(c, bs)}
<1>1. <<>> \in R
  BY LeftEmpty
<1>2. \A c \in Seq(Nat), b \in Nat : c \in R => Append(c, b) \in R
  <2> SUFFICES ASSUME NEW c \in Seq(Nat), NEW b \in Nat, c \in R
               PROVE  Append(c, b) \in R
    OBVIOUS
  <2>1. Left(Append(c, b), plain, bs) = Applied(Left(c, plain, bs), b, plain, bs)
    BY LeftAppend
  <2>2. Elems(Append(c, b)) = Elems(c) \cup {b}
    BY ElemsAppend
  <2>3. Left(c, plain, bs) \subseteq Made(c, bs)
    OBVIOUS
  <2>4. Append(c, b) \in Seq(Nat)
    OBVIOUS
  <2> HIDE DEF R
  <2>5. Left(Append(c, b), plain, bs) \subseteq Left(c, plain, bs) \cup {b} \cup TxsIn(b, bs)
    BY <2>1 DEF Applied
  <2>6. Made(c, bs) \cup {b} \cup TxsIn(b, bs) \subseteq Made(Append(c, b), bs)
    <3> HIDE DEF TxsIn
    <3> QED
      BY <2>2 DEF Made
  <2> QED
    BY <2>3, <2>4, <2>5, <2>6 DEF R
<1> HIDE DEF R
<1>3. Seq(Nat) \subseteq R
  BY <1>1, <1>2, SeqInduction
<1> QED
  BY <1>3 DEF R

(* Only what the blocks of the chain say matters, and which of them are     *)
(* applied with their coinbase only.                                       *)
LEMMA LeftSame ==
  ASSUME NEW plain, NEW bs, NEW plain2, NEW bs2
  PROVE  \A c \in Seq(Nat) :
            (\A b \in Elems(c) : (b \in plain <=> b \in plain2) /\ TxsIn(b, bs) = TxsIn(b, bs2))
              => Left(c, plain, bs) = Left(c, plain2, bs2)
<1> DEFINE Alike(b) == (b \in plain <=> b \in plain2) /\ TxsIn(b, bs) = TxsIn(b, bs2)
           R == {c \in Seq(Nat) : (\A b \in Elems(c) : Alike(b))
                                     => Left(c, plain, bs) = Left(c, plain2, bs2)}
<1>1. <<>> \in R
  <2>1. Left(<<>>, plain, bs) = Left(<<>>, plain2, bs2)
    BY LeftEmpty, Zenon
  <2>2. <<>> \in Seq(Nat)
    OBVIOUS
  <2> QED
    BY <2>1, <2>2
<1>2. \A c \in Seq(Nat), b \in Nat : c \in R => Append(c, b) \in R
  <2> SUFFICES ASSUME NEW c \in Seq(Nat), NEW b \in Nat, c \in R,
                      \A d \in Elems(Append(c, b)) : Alike(d)
               PROVE  Left(Append(c, b), plain, bs) = Left(Append(c, b), plain2, bs2)
    <3> HIDE DEF Alike
    <3> QED
      OBVIOUS
  <2>1. /\ Left(Append(c, b), plain, bs) = Applied(Left(c, plain, bs), b, plain, bs)
        /\ Left(Append(c, b), plain2, bs2) = Applied(Left(c, plain2, bs2), b, plain2, bs2)
    BY LeftAppend
  <2>2. Elems(Append(c, b)) = Elems(c) \cup {b}
    BY ElemsAppend
  <2>3. Left(c, plain, bs) = Left(c, plain2, bs2) /\ Alike(b)
    <3> HIDE DEF Alike
    <3> QED
      BY <2>2
  <2>4. SpentIn(b, bs) = SpentIn(b, bs2)
    BY <2>3 DEF SpentIn
  <2> HIDE DEF R
  <2> QED
    BY <2>1, <2>3, <2>4, Zenon DEF Applied
<1> HIDE DEF R
<1>3. Seq(Nat) \subseteq R
  BY <1>1, <1>2, SeqInduction
<1> QED
  BY <1>3 DEF R

(* Blocks applied with their coinbase only add that.                        *)
LEMMA LeftPlain ==
  ASSUME NEW c \in Seq(Nat), NEW plain, NEW bs
  PROVE  \A d \in Seq(Nat) : Elems(d) \subseteq plain
            => Left(c \o d, plain, bs) = Left(c, plain, bs) \cup Elems(d)
<1> DEFINE R == {d \in Seq(Nat) : Elems(d) \subseteq plain
                    => Left(c \o d, plain, bs) = Left(c, plain, bs) \cup Elems(d)}
<1>1. <<>> \in R
  <2>1. c \o <<>> = c /\ <<>> \in Seq(Nat)
    OBVIOUS
  <2>2. Left(c \o <<>>, plain, bs) = Left(c, plain, bs)
    BY <2>1, Zenon
  <2>3. Left(c, plain, bs) = Left(c, plain, bs) \cup Elems(<<>>)
    BY ElemsEmpty
  <2> QED
    BY <2>1, <2>2, <2>3
<1>2. \A d \in Seq(Nat), b \in Nat : d \in R => Append(d, b) \in R
  <2> SUFFICES ASSUME NEW d \in Seq(Nat), NEW b \in Nat, d \in R,
                      Elems(Append(d, b)) \subseteq plain
               PROVE  Left(c \o Append(d, b), plain, bs)
                        = Left(c, plain, bs) \cup Elems(Append(d, b))
    OBVIOUS
  <2>1. Elems(Append(d, b)) = Elems(d) \cup {b}
    BY ElemsAppend
  <2> DEFINE e == c \o d
  <2>2. e \in Seq(Nat) /\ c \o Append(d, b) = Append(e, b)
    OBVIOUS
  <2>3. Left(e, plain, bs) = Left(c, plain, bs) \cup Elems(d)
    BY <2>1
  <2> HIDE DEF e, R
  <2>4. Left(Append(e, b), plain, bs) = Applied(Left(e, plain, bs), b, plain, bs)
    BY <2>2, LeftAppend
  <2>5. Left(c \o Append(d, b), plain, bs) = Applied(Left(e, plain, bs), b, plain, bs)
    BY <2>2, <2>4, Zenon
  <2>6. b \in plain
    BY <2>1
  <2> QED
    BY <2>1, <2>3, <2>5, <2>6 DEF Applied
<1> HIDE DEF R
<1>3. Seq(Nat) \subseteq R
  BY <1>1, <1>2, SeqInduction
<1> QED
  BY <1>3 DEF R

-----------------------------------------------------------------------------
(* The tree of the blocks and the chains in it.                            *)

HeightIn(b, bs) == IF b = 0 THEN 0 ELSE bs[b].height

Tree(bs) ==
    /\ bs \in Seq(Blocks) /\ Len(bs) <= MaxBlocks
    /\ \A b \in 1..Len(bs) : /\ bs[b].parent < b
                             /\ bs[b].height = HeightIn(bs[b].parent, bs) + 1
                             /\ bs[b].height <= b

Linked(c, bs) ==
    /\ c \in Seq(Nat) /\ Len(c) >= 1 /\ c[1] = 0
    /\ \A i \in 2..Len(c) : c[i] \in 1..Len(bs) /\ bs[c[i]].parent = c[i - 1]

Path(b, d, bs) ==
    /\ d \in Seq(Nat)
    /\ \A i \in 1..Len(d) : d[i] \in 1..Len(bs) /\ bs[d[i]].parent = IF i = 1 THEN b ELSE d[i - 1]

(* What a block of the tree is.                                            *)
LEMMA TreeType ==
  ASSUME NEW bs, Tree(bs), NEW b \in 1..Len(bs)
  PROVE  /\ bs[b].parent \in 0..(b - 1) /\ bs[b].parent \in Ids
         /\ bs[b].height \in 1..b /\ bs[b].height \in Nat
         /\ bs[b].txs \in SUBSET Txs /\ bs[b].sound \in BOOLEAN /\ bs[b].local \in BOOLEAN
         /\ Len(bs) \in Nat
<1>1. bs \in Seq(Blocks) /\ Len(bs) \in Nat /\ bs[b] \in Blocks
  BY DEF Tree
<1>2. MaxBlocks \in Nat
  BY ChainAssumption
<1>3. bs[b].parent \in 0..(b - 1)
  BY <1>1, <1>2 DEF Tree, Blocks, Ids
<1>4. bs[b].height \in Nat
  BY <1>1, <1>2 DEF Blocks, Ids
<1>5. HeightIn(bs[b].parent, bs) \in Nat
  <2>1. CASE bs[b].parent = 0
    BY <2>1 DEF HeightIn
  <2>2. CASE bs[b].parent # 0
    <3> DEFINE p == bs[b].parent
    <3>1. p \in 1..Len(bs)
      BY <1>1, <1>3, <2>2
    <3>2. bs[p] \in Blocks
      BY <1>1, <3>1
    <3>3. bs[p].height \in Nat
      BY <1>2, <3>2 DEF Blocks, Ids
    <3> QED
      BY <2>2, <3>3 DEF HeightIn
  <2> QED
    BY <2>1, <2>2
<1>6. bs[b].height \in 1..b
  BY <1>1, <1>4, <1>5 DEF Tree
<1> QED
  BY <1>1, <1>3, <1>4, <1>6 DEF Blocks

(* The blocks of a chain stand at the heights of their places.              *)
LEMMA LinkedHeights ==
  ASSUME NEW bs, Tree(bs), NEW c, Linked(c, bs)
  PROVE  \A i \in 1..Len(c) : c[i] \in 0..Len(bs) /\ HeightIn(c[i], bs) = i - 1
<1>0. c \in Seq(Nat) /\ Len(c) \in Nat /\ Len(c) >= 1 /\ c[1] = 0 /\ Len(bs) \in Nat
  BY DEF Linked, Tree
<1> DEFINE N == Len(c) - 1
           R == {n \in 0..N : c[n + 1] \in 0..Len(bs) /\ HeightIn(c[n + 1], bs) = n}
<1>1. 0 \in R
  BY <1>0 DEF HeightIn
<1>2. \A n \in 0..(N - 1) : n \in R => n + 1 \in R
  <2> SUFFICES ASSUME NEW n \in 0..(N - 1), n \in R PROVE n + 1 \in R
    OBVIOUS
  <2>1. n + 2 \in 2..Len(c) /\ (n + 2) - 1 = n + 1 /\ n + 1 \in 0..N /\ (n + 1) + 1 = n + 2
    BY <1>0
  <2>2. c[n + 2] \in 1..Len(bs) /\ bs[c[n + 2]].parent = c[n + 1]
    BY <2>1 DEF Linked
  <2>3. HeightIn(c[n + 2], bs) = bs[c[n + 2]].height
    BY <2>2 DEF HeightIn
  <2>4. bs[c[n + 2]].height = HeightIn(c[n + 1], bs) + 1
    BY <2>2 DEF Tree
  <2>5. HeightIn(c[n + 1], bs) = n
    OBVIOUS
  <2>6. c[n + 2] \in 0..Len(bs) /\ HeightIn(c[n + 2], bs) = n + 1
    BY <2>2, <2>3, <2>4, <2>5
  <2> QED
    BY <2>1, <2>6
<1>3. 0..N \subseteq R
  <2> HIDE DEF R
  <2>1. N \in Nat
    BY <1>0
  <2> HIDE DEF N
  <2> QED
    BY <1>1, <1>2, <2>1, BoundedInduction
<1>4. ASSUME NEW i \in 1..Len(c)
      PROVE  c[i] \in 0..Len(bs) /\ HeightIn(c[i], bs) = i - 1
  <2>1. i - 1 \in R /\ (i - 1) + 1 = i
    <3> HIDE DEF R
    <3> QED
      BY <1>0, <1>3
  <2> QED
    BY <2>1
<1> QED
  BY <1>4

(* So no block is in a chain twice.                                        *)
LEMMA LinkedDistinct ==
  ASSUME NEW bs, Tree(bs), NEW c, Linked(c, bs), NEW i \in 1..Len(c), NEW j \in 1..Len(c), c[i] = c[j]
  PROVE  i = j
<1>1. HeightIn(c[i], bs) = i - 1 /\ HeightIn(c[j], bs) = j - 1
  BY LinkedHeights
<1>2. Len(c) \in Nat
  BY DEF Linked
<1>3. i - 1 = j - 1
  BY <1>1, Zenon
<1> QED
  BY <1>2, <1>3

(* A child of its last block goes on with a chain.                         *)
LEMMA LinkedAppend ==
  ASSUME NEW bs, NEW c, Linked(c, bs), NEW b \in 1..Len(bs), bs[b].parent = c[Len(c)], Len(bs) \in Nat
  PROVE  Linked(Append(c, b), bs)
<1>0. c \in Seq(Nat) /\ Len(c) \in Nat /\ Len(c) >= 1 /\ c[1] = 0 /\ b \in Nat
  BY DEF Linked
<1>1. /\ Append(c, b) \in Seq(Nat) /\ Len(Append(c, b)) = Len(c) + 1
      /\ \A i \in 1..Len(c) : Append(c, b)[i] = c[i]
      /\ Append(c, b)[Len(c) + 1] = b
  BY <1>0
<1> DEFINE d == Append(c, b)
<1>2. ASSUME NEW i \in 2..Len(d)
      PROVE  d[i] \in 1..Len(bs) /\ bs[d[i]].parent = d[i - 1]
  <2>1. CASE i = Len(c) + 1
    <3>1. d[i] = b /\ d[i - 1] = c[Len(c)]
      BY <1>0, <1>1, <2>1
    <3> QED
      BY <3>1
  <2>2. CASE i # Len(c) + 1
    <3>1. i \in 2..Len(c) /\ i \in 1..Len(c) /\ i - 1 \in 1..Len(c)
      BY <1>0, <1>1, <2>2
    <3>2. d[i] = c[i] /\ d[i - 1] = c[i - 1]
      BY <1>1, <3>1
    <3>3. c[i] \in 1..Len(bs) /\ bs[c[i]].parent = c[i - 1]
      BY <3>1 DEF Linked
    <3> HIDE DEF d
    <3> QED
      BY <3>2, <3>3
  <2> QED
    BY <2>1, <2>2
<1>3. d[1] = 0 /\ Len(d) >= 1 /\ d \in Seq(Nat)
  BY <1>0, <1>1
<1> HIDE DEF d
<1>4. Linked(d, bs)
  BY <1>2, <1>3 DEF Linked
<1> QED
  BY <1>4 DEF d

(* A path goes on with a chain.                                            *)
LEMMA LinkedConcat ==
  ASSUME NEW bs, NEW c, Linked(c, bs), NEW d, Path(c[Len(c)], d, bs)
  PROVE  Linked(c \o d, bs)
<1>0. c \in Seq(Nat) /\ Len(c) \in Nat /\ Len(c) >= 1 /\ c[1] = 0 /\ d \in Seq(Nat) /\ Len(d) \in Nat
  BY DEF Linked, Path
<1> DEFINE e == c \o d
<1>1. /\ e \in Seq(Nat) /\ Len(e) = Len(c) + Len(d)
      /\ \A i \in 1..Len(c) : e[i] = c[i]
      /\ \A i \in 1..Len(d) : e[Len(c) + i] = d[i]
  BY <1>0
<1> HIDE DEF e
<1>2. ASSUME NEW i \in 2..Len(e)
      PROVE  e[i] \in 1..Len(bs) /\ bs[e[i]].parent = e[i - 1]
  <2>1. CASE i <= Len(c)
    <3>1. i \in 2..Len(c) /\ i \in 1..Len(c) /\ i - 1 \in 1..Len(c)
      BY <1>0, <1>1, <2>1
    <3>2. e[i] = c[i] /\ e[i - 1] = c[i - 1]
      BY <1>1, <3>1
    <3>3. c[i] \in 1..Len(bs) /\ bs[c[i]].parent = c[i - 1]
      BY <3>1 DEF Linked
    <3> QED
      BY <3>2, <3>3
  <2>2. CASE i > Len(c)
    <3> DEFINE k == i - Len(c)
    <3>1. k \in 1..Len(d) /\ i = Len(c) + k
      BY <1>0, <1>1, <2>2
    <3>2. e[i] = d[k]
      BY <1>1, <3>1
    <3>3. d[k] \in 1..Len(bs) /\ bs[d[k]].parent = IF k = 1 THEN c[Len(c)] ELSE d[k - 1]
      BY <3>1 DEF Path
    <3>4. e[i - 1] = IF k = 1 THEN c[Len(c)] ELSE d[k - 1]
      <4>1. CASE k = 1
        <5>1. i - 1 = Len(c) /\ Len(c) \in 1..Len(c)
          BY <1>0, <3>1, <4>1
        <5> QED
          BY <1>1, <4>1, <5>1
      <4>2. CASE k # 1
        <5>1. k - 1 \in 1..Len(d) /\ i - 1 = Len(c) + (k - 1)
          BY <1>0, <3>1, <4>2
        <5> HIDE DEF k
        <5> QED
          BY <1>1, <4>2, <5>1
      <4> QED
        BY <4>1, <4>2
    <3> HIDE DEF k
    <3> QED
      BY <3>2, <3>3, <3>4, Zenon
  <2> QED
    BY <1>0, <1>1, <2>1, <2>2
<1>3. e[1] = 0 /\ Len(e) >= 1 /\ e \in Seq(Nat)
  BY <1>0, <1>1
<1>4. Linked(e, bs)
  BY <1>2, <1>3 DEF Linked
<1> QED
  BY <1>4 DEF e

(* The beginning of a chain is one.                                        *)
LEMMA LinkedPrefix ==
  ASSUME NEW bs, NEW c, Linked(c, bs), NEW k \in 1..Len(c)
  PROVE  /\ Linked(SubSeq(c, 1, k), bs) /\ Len(SubSeq(c, 1, k)) = k
         /\ \A i \in 1..k : SubSeq(c, 1, k)[i] = c[i]
<1>0. c \in Seq(Nat) /\ Len(c) \in Nat /\ Len(c) >= 1 /\ c[1] = 0
  BY DEF Linked
<1> DEFINE d == SubSeq(c, 1, k)
<1>1. d \in Seq(Nat) /\ Len(d) = k /\ \A i \in 1..k : d[i] = c[i]
  BY <1>0
<1> HIDE DEF d
<1>2. ASSUME NEW i \in 2..k PROVE d[i] \in 1..Len(bs) /\ bs[d[i]].parent = d[i - 1]
  <2>1. i \in 2..Len(c) /\ i \in 1..k /\ i - 1 \in 1..k
    BY <1>0
  <2>2. c[i] \in 1..Len(bs) /\ bs[c[i]].parent = c[i - 1]
    BY <2>1 DEF Linked
  <2> QED
    BY <1>1, <2>1, <2>2
<1>3. Linked(d, bs)
  BY <1>0, <1>1, <1>2 DEF Linked
<1> QED
  BY <1>1, <1>3 DEF d

(* Two chains to one block are the same.                                   *)
LEMMA LinkedUnique ==
  ASSUME NEW bs, Tree(bs), NEW c, Linked(c, bs), NEW d, Linked(d, bs), c[Len(c)] = d[Len(d)]
  PROVE  c = d
<1>0. /\ c \in Seq(Nat) /\ Len(c) \in Nat /\ Len(c) >= 1 /\ c[1] = 0
      /\ d \in Seq(Nat) /\ Len(d) \in Nat /\ Len(d) >= 1 /\ d[1] = 0
  BY DEF Linked
<1>1. Len(c) = Len(d)
  <2>1. HeightIn(c[Len(c)], bs) = Len(c) - 1 /\ HeightIn(d[Len(d)], bs) = Len(d) - 1
    BY <1>0, LinkedHeights
  <2>2. Len(c) - 1 = Len(d) - 1
    BY <2>1, Zenon
  <2> QED
    BY <1>0, <2>2
<1> DEFINE N == Len(c) - 1
           R == {n \in 0..N : c[Len(c) - n] = d[Len(c) - n]}
<1>2. 0 \in R
  BY <1>0, <1>1
<1>3. \A n \in 0..(N - 1) : n \in R => n + 1 \in R
  <2> SUFFICES ASSUME NEW n \in 0..(N - 1), n \in R PROVE n + 1 \in R
    OBVIOUS
  <2> DEFINE i == Len(c) - n
  <2>1. i \in 2..Len(c) /\ i - 1 = Len(c) - (n + 1) /\ n + 1 \in 0..N /\ i \in 2..Len(d)
    BY <1>0, <1>1
  <2>2. c[i] = d[i]
    OBVIOUS
  <2> HIDE DEF i
  <2>3. bs[c[i]].parent = c[i - 1] /\ bs[d[i]].parent = d[i - 1]
    BY <2>1 DEF Linked
  <2>4. c[i - 1] = d[i - 1]
    BY <2>2, <2>3, Zenon
  <2>5. c[Len(c) - (n + 1)] = d[Len(c) - (n + 1)]
    BY <2>1, <2>4, Zenon
  <2> QED
    BY <2>1, <2>5
<1>4. 0..N \subseteq R
  <2> HIDE DEF R
  <2>1. N \in Nat
    BY <1>0
  <2> HIDE DEF N
  <2> QED
    BY <1>2, <1>3, <2>1, BoundedInduction
<1>5. ASSUME NEW i \in 1..Len(c) PROVE c[i] = d[i]
  <2>1. Len(c) - i \in R /\ Len(c) - (Len(c) - i) = i
    <3>1. Len(c) \in Nat
      BY <1>0
    <3>2. Len(c) - i \in 0..N /\ Len(c) - (Len(c) - i) = i
      BY <3>1
    <3> HIDE DEF R, N
    <3> QED
      BY <1>4, <3>2
  <2>2. c[Len(c) - (Len(c) - i)] = d[Len(c) - (Len(c) - i)]
    BY <2>1
  <2> QED
    BY <2>1, <2>2, Zenon
<1> QED
  BY <1>0, <1>1, <1>5

(* A chain stays one while blocks are found.                               *)
LEMMA LinkedGrows ==
  ASSUME NEW bs, NEW new, bs \in Seq(Blocks), new \in Blocks, NEW c, Linked(c, bs)
  PROVE  Linked(c, Append(bs, new))
<1>1. /\ Len(Append(bs, new)) = Len(bs) + 1 /\ Len(bs) \in Nat
      /\ \A b \in 1..Len(bs) : Append(bs, new)[b] = bs[b]
  OBVIOUS
<1>2. \A i \in 2..Len(c) : /\ c[i] \in 1..Len(Append(bs, new))
                           /\ Append(bs, new)[c[i]].parent = c[i - 1]
  <2> SUFFICES ASSUME NEW i \in 2..Len(c)
               PROVE  /\ c[i] \in 1..Len(Append(bs, new))
                      /\ Append(bs, new)[c[i]].parent = c[i - 1]
    OBVIOUS
  <2>1. c[i] \in 1..Len(bs) /\ bs[c[i]].parent = c[i - 1]
    BY DEF Linked
  <2>2. Append(bs, new)[c[i]] = bs[c[i]]
    BY <1>1, <2>1
  <2>3. Append(bs, new)[c[i]].parent = c[i - 1]
    BY <2>1, <2>2, Zenon
  <2> QED
    BY <1>1, <2>1, <2>3
<1> QED
  BY <1>2 DEF Linked

(* The tree with one block more.                                           *)
LEMMA TreeGrows ==
  ASSUME NEW bs, Tree(bs), Len(bs) < MaxBlocks, NEW new, new.parent \in 0..Len(bs),
         new.height = HeightIn(new.parent, bs) + 1, new.txs \in SUBSET Txs, new.paid \in SUBSET Txs,
         new.local \in BOOLEAN, new.sound \in BOOLEAN,
         new = [parent |-> new.parent, height |-> new.height, txs |-> new.txs,
                paid |-> new.paid, local |-> new.local, sound |-> new.sound]
  PROVE  Tree(Append(bs, new)) /\ new \in Blocks
<1> DEFINE t == Append(bs, new)
<1>0. MaxBlocks \in Nat /\ bs \in Seq(Blocks) /\ Len(bs) \in Nat
  BY ChainAssumption DEF Tree
<1>1. HeightIn(new.parent, bs) \in 0..new.parent
  <2>1. CASE new.parent = 0
    BY <2>1 DEF HeightIn
  <2>2. CASE new.parent # 0
    <3>1. new.parent \in 1..Len(bs)
      BY <1>0, <2>2
    <3>2. bs[new.parent].height \in 1..new.parent
      BY <3>1, TreeType
    <3> QED
      BY <2>2, <3>2, <1>0 DEF HeightIn
  <2> QED
    BY <2>1, <2>2
<1>2. new \in Blocks
  <2>1. new.parent \in Ids /\ new.height \in Ids
    BY <1>0, <1>1 DEF Ids
  <2> QED
    BY <2>1 DEF Blocks
<1>3. /\ t \in Seq(Blocks) /\ Len(t) = Len(bs) + 1 /\ t[Len(bs) + 1] = new
      /\ \A b \in 1..Len(bs) : t[b] = bs[b]
  BY <1>0, <1>2
<1> HIDE DEF t
<1>4. \A b \in 0..Len(bs) : HeightIn(b, t) = HeightIn(b, bs)
  <2> SUFFICES ASSUME NEW b \in 0..Len(bs) PROVE HeightIn(b, t) = HeightIn(b, bs)
    OBVIOUS
  <2>1. CASE b = 0
    BY <2>1 DEF HeightIn
  <2>2. CASE b # 0
    <3>1. t[b] = bs[b]
      BY <1>0, <1>3, <2>2
    <3> QED
      BY <3>1, <2>2, Zenon DEF HeightIn
  <2> QED
    BY <2>1, <2>2
<1>5. ASSUME NEW b \in 1..Len(t)
      PROVE  /\ t[b].parent < b
             /\ t[b].height = HeightIn(t[b].parent, t) + 1
             /\ t[b].height <= b
  <2>1. CASE b = Len(bs) + 1
    <3>1. t[b] = new
      BY <1>3, <2>1
    <3>2. HeightIn(new.parent, t) = HeightIn(new.parent, bs)
      BY <1>4
    <3>3. new.parent < b /\ new.height <= b
      BY <1>0, <1>1, <2>1
    <3>4. new.height = HeightIn(new.parent, t) + 1
      BY <3>2
    <3> QED
      BY <3>1, <3>3, <3>4, Zenon
  <2>2. CASE b # Len(bs) + 1
    <3>1. b \in 1..Len(bs)
      BY <1>0, <1>3, <2>2
    <3>2. t[b] = bs[b] /\ bs[b].parent \in 0..Len(bs)
      <4>1. bs[b].parent \in 0..(b - 1)
        BY <3>1, TreeType
      <4> QED
        BY <1>0, <1>3, <3>1, <4>1
    <3>3. /\ bs[b].parent < b
          /\ bs[b].height = HeightIn(bs[b].parent, bs) + 1
          /\ bs[b].height <= b
      BY <3>1 DEF Tree
    <3>4. HeightIn(bs[b].parent, t) = HeightIn(bs[b].parent, bs)
      BY <1>4, <3>2
    <3> QED
      BY <3>2, <3>3, <3>4, Zenon
  <2> QED
    BY <2>1, <2>2
<1>6. Tree(t)
  BY <1>0, <1>3, <1>5 DEF Tree
<1> QED
  BY <1>2, <1>6 DEF t

(* In a tree with one block more, a chain ends in it or was there before.   *)
LEMMA LinkedInGrown ==
  ASSUME NEW bs, NEW new, Tree(Append(bs, new)), bs \in Seq(Blocks), new \in Blocks,
         NEW c, Linked(c, Append(bs, new))
  PROVE  \/ Linked(c, bs)
         \/ /\ Len(c) >= 2 /\ c[Len(c)] = Len(bs) + 1
            /\ Linked(SubSeq(c, 1, Len(c) - 1), bs)
            /\ c[Len(c) - 1] = new.parent
<1> DEFINE t == Append(bs, new)
           n == Len(bs) + 1
<1>1. /\ Len(t) = n /\ Len(bs) \in Nat /\ t[n] = new
      /\ \A b \in 1..Len(bs) : t[b] = bs[b]
  OBVIOUS
<1>2. Tree(t) /\ Linked(c, t)
  OBVIOUS
<1> HIDE DEF t
<1>3. c \in Seq(Nat) /\ Len(c) \in Nat /\ Len(c) >= 1 /\ c[1] = 0
  BY <1>2 DEF Linked
<1>4. ASSUME NEW i \in 1..(Len(c) - 1) PROVE c[i] # n
  <2>1. i + 1 \in 2..Len(c) /\ (i + 1) - 1 = i
    BY <1>3
  <2>2. c[i + 1] \in 1..Len(t) /\ t[c[i + 1]].parent = c[i]
    BY <1>2, <2>1 DEF Linked
  <2>3. t[c[i + 1]].parent \in 0..(c[i + 1] - 1)
    BY <1>2, <2>2, TreeType
  <2> QED
    BY <1>1, <2>2, <2>3
<1>5. ASSUME NEW k \in 1..Len(c), \A i \in 1..k : c[i] # n
      PROVE  Linked(SubSeq(c, 1, k), bs)
  <2> DEFINE d == SubSeq(c, 1, k)
  <2>1. Linked(d, t) /\ Len(d) = k /\ \A i \in 1..k : d[i] = c[i]
    BY <1>2, LinkedPrefix
  <2> HIDE DEF d
  <2>2. ASSUME NEW i \in 2..Len(d) PROVE d[i] \in 1..Len(bs) /\ bs[d[i]].parent = d[i - 1]
    <3>1. d[i] \in 1..Len(t) /\ t[d[i]].parent = d[i - 1]
      BY <2>1 DEF Linked
    <3>2. i \in 1..k
      BY <2>1
    <3>3. d[i] # n
      BY <1>5, <2>1, <3>2
    <3>4. d[i] \in 1..Len(bs)
      BY <1>1, <3>1, <3>3
    <3>5. t[d[i]] = bs[d[i]]
      BY <1>1, <3>4
    <3> QED
      BY <3>1, <3>4, <3>5, Zenon
  <2>3. Linked(d, bs)
    BY <2>1, <2>2 DEF Linked
  <2> QED
    BY <2>3 DEF d
<1>6. CASE c[Len(c)] # n
  <2>1. \A i \in 1..Len(c) : c[i] # n
    BY <1>3, <1>4, <1>6
  <2>2. Len(c) \in 1..Len(c) /\ SubSeq(c, 1, Len(c)) = c
    BY <1>3
  <2>3. Linked(SubSeq(c, 1, Len(c)), bs)
    BY <1>5, <2>1, <2>2
  <2> QED
    BY <2>2, <2>3, Zenon
<1>7. CASE c[Len(c)] = n
  <2>1. Len(c) >= 2
    BY <1>1, <1>3, <1>7
  <2>2. Len(c) - 1 \in 1..Len(c)
    BY <1>3, <2>1
  <2>3. Linked(SubSeq(c, 1, Len(c) - 1), bs)
    BY <1>4, <1>5, <2>2
  <2>4. Len(c) \in 2..Len(c)
    BY <1>3, <2>1
  <2>5. t[c[Len(c)]].parent = c[Len(c) - 1]
    BY <1>2, <2>4 DEF Linked
  <2>6. new.parent = c[Len(c) - 1]
    BY <1>1, <1>7, <2>5, Zenon
  <2> QED
    BY <1>7, <2>1, <2>3, <2>6
<1> QED
  BY <1>6, <1>7

-----------------------------------------------------------------------------
(* The chain to a block.                                                   *)

Branches(g) == g = [b \in 0..Len(blocks) |-> IF b = 0 THEN <<0>> ELSE Append(g[Parent(b)], b)]

(* The recursion of Branch has a solution.                                 *)
LEMMA BranchIs ==
  ASSUME Tree(blocks)
  PROVE  /\ Branch[0] = <<0>>
         /\ \A b \in 1..Len(blocks) : Branch[b] = Append(Branch[Parent(b)], b)
<1> DEFINE N == Len(blocks)
           X == Seq(Nat)
           par == [n \in 1..N |-> Parent(n)]
           F == [p \in X \X (1..N) |-> Append(p[1], p[2])]
<1>0. N \in Nat /\ \A b \in 1..N : Parent(b) \in 0..(b - 1)
  BY TreeType DEF Tree, Parent
<1>1. par \in [1..N -> 0..N] /\ \A n \in 1..N : par[n] < n
  <2> HIDE DEF N
  <2> QED
    BY <1>0
<1>2. F \in [X \X (1..N) -> X] /\ <<0>> \in X
  <2> HIDE DEF N
  <2> QED
    BY <1>0
<1>3. PICK g \in [0..N -> X] : Recurs(g, N, <<0>>, par, F)
  <2> DEFINE a == <<0>>
  <2>1. a \in X
    BY <1>2
  <2> HIDE DEF N, X, par, F, a
  <2>2. \E g \in [0..N -> X] : Recurs(g, N, a, par, F)
    BY <1>0, <1>1, <1>2, <2>1, RecursionExists
  <2> QED
    BY <2>2 DEF a
<1>4. Branches(g)
  <2>1. ASSUME NEW b \in 1..N PROVE g[b] = Append(g[Parent(b)], b)
    <3>1. Parent(b) \in 0..N /\ par[b] = Parent(b)
      <4> HIDE DEF N
      <4> QED
        BY <1>0
    <3>2. g[Parent(b)] \in X
      <4> HIDE DEF N, X
      <4> QED
        BY <3>1
    <3>3. g[b] = F[<<g[par[b]], b>>]
      <4> HIDE DEF N, X, par, F
      <4> QED
        BY <1>3 DEF Recurs
    <3>4. g[b] = F[<<g[Parent(b)], b>>]
      BY <3>1, <3>3, Zenon
    <3> QED
      BY <3>2, <3>4
  <2>2. g[0] = <<0>>
    BY <1>3 DEF Recurs
  <2>3. \A b \in 0..N : g[b] = IF b = 0 THEN <<0>> ELSE Append(g[Parent(b)], b)
    <3> SUFFICES ASSUME NEW b \in 0..N
                 PROVE  g[b] = IF b = 0 THEN <<0>> ELSE Append(g[Parent(b)], b)
      OBVIOUS
    <3>1. CASE b = 0
      BY <2>2, <3>1
    <3>2. CASE b # 0
      <4>1. b \in 1..N
        <5> HIDE DEF N
        <5> QED
          BY <1>0, <3>2
      <4> QED
        BY <2>1, <3>2, <4>1, Zenon
    <3> QED
      BY <3>1, <3>2
  <2>4. g = [b \in 0..N |-> g[b]]
    <3> HIDE DEF N, X
    <3> QED
      OBVIOUS
  <2> QED
    BY <2>3, <2>4, Zenon DEF Branches
<1> DEFINE k == CHOOSE h : Branches(h)
<1>5. Branches(k)
  BY <1>4
<1>6. Branch = k
  BY DEF Branch, Branches
<1> HIDE DEF k
<1>7. \A b \in 0..Len(blocks) : k[b] = IF b = 0 THEN <<0>> ELSE Append(k[Parent(b)], b)
  BY <1>5, Zenon DEF Branches
<1>8. 0 \in 0..Len(blocks) /\ \A b \in 1..Len(blocks) : b \in 0..Len(blocks) /\ b # 0
  <2> HIDE DEF N
  <2> QED
    BY <1>0 DEF N
<1> QED
  BY <1>6, <1>7, <1>8, Zenon

(* It is a chain and ends in the block.                                    *)
LEMMA BranchLinked ==
  ASSUME Tree(blocks), NEW b \in 0..Len(blocks)
  PROVE  /\ Linked(Branch[b], blocks) /\ Branch[b][Len(Branch[b])] = b
         /\ Len(Branch[b]) = Height(b) + 1
<1>0. Len(blocks) \in Nat /\ \A d \in 1..Len(blocks) : Parent(d) \in 0..(d - 1)
  BY TreeType DEF Tree, Parent
<1> DEFINE OK(d) == Linked(Branch[d], blocks) /\ Branch[d][Len(Branch[d])] = d
           R == {m \in 0..Len(blocks) : \A d \in 0..m : OK(d)}
<1>1. 0 \in R
  <2>1. Branch[0] = <<0>>
    BY BranchIs
  <2>2. Linked(<<0>>, blocks) /\ <<0>>[Len(<<0>>)] = 0
    BY <1>0 DEF Linked
  <2>3. OK(0)
    BY <2>1, <2>2, Zenon
  <2> HIDE DEF OK
  <2>4. \A d \in 0..0 : OK(d)
    BY <2>3
  <2> QED
    BY <1>0, <2>4
<1>2. \A m \in 0..(Len(blocks) - 1) : m \in R => m + 1 \in R
  <2> SUFFICES ASSUME NEW m \in 0..(Len(blocks) - 1), m \in R PROVE m + 1 \in R
    OBVIOUS
  <2> DEFINE d == m + 1
  <2>1. d \in 1..Len(blocks) /\ Parent(d) \in 0..m /\ d \in 0..Len(blocks)
    BY <1>0
  <2> HIDE DEF d
  <2>2. OK(Parent(d))
    <3> HIDE DEF OK
    <3> QED
      BY <2>1
  <2> DEFINE c == Branch[Parent(d)]
  <2>3. Branch[d] = Append(c, d)
    BY <2>1, BranchIs
  <2>4. Linked(c, blocks) /\ c[Len(c)] = Parent(d)
    BY <2>2
  <2> HIDE DEF c
  <2>5. Linked(Append(c, d), blocks)
    BY <1>0, <2>1, <2>4, LinkedAppend DEF Parent
  <2>6. Append(c, d)[Len(Append(c, d))] = d
    BY <2>1, <2>4 DEF Linked
  <2>7. OK(d)
    BY <2>3, <2>5, <2>6, Zenon
  <2> HIDE DEF OK
  <2>8. \A e \in 0..d : OK(e)
    BY <1>0, <2>7 DEF d
  <2> QED
    BY <2>1, <2>8 DEF d
<1>3. b \in R
  <2> HIDE DEF R
  <2>1. 0..Len(blocks) \subseteq R
    BY <1>0, <1>1, <1>2, BoundedInduction
  <2> QED
    BY <2>1
<1>4. OK(b)
  <2> HIDE DEF OK
  <2> QED
    BY <1>0, <1>3
<1>5. Len(Branch[b]) = Height(b) + 1
  <2> DEFINE c == Branch[b]
  <2>1. Linked(c, blocks) /\ c[Len(c)] = b
    BY <1>4
  <2> HIDE DEF c
  <2>2. Len(c) \in Nat /\ Len(c) \in 1..Len(c)
    BY <2>1 DEF Linked
  <2>3. HeightIn(c[Len(c)], blocks) = Len(c) - 1
    BY <2>1, <2>2, LinkedHeights
  <2>4. Height(b) = Len(c) - 1
    BY <2>1, <2>3, Zenon DEF Height, HeightIn
  <2>5. Len(c) = Height(b) + 1
    BY <2>2, <2>4
  <2> QED
    BY <2>5 DEF c
<1> QED
  BY <1>4, <1>5

-----------------------------------------------------------------------------
(* The orphan pool, and the orphans that follow a block.                   *)

PoolOK(pool, bs) ==
    /\ pool \in Seq(Orphans)
    /\ \A o \in Elems(pool) :
         /\ o.parent \in 0..Len(bs) /\ Len(o.blocks) >= 1
         /\ \A i \in 1..Len(o.blocks) : /\ o.blocks[i] \in 1..Len(bs)
                                        /\ bs[o.blocks[i]].parent = o.parent
    /\ \A i, j \in 1..Len(pool) : pool[i].parent = pool[j].parent => i = j

(* A set of numbers has a least one.                                       *)
LEMMA LeastNumber ==
  ASSUME NEW S \in SUBSET Nat, S # {}
  PROVE  \E i \in S : \A j \in S : i <= j
<1> SUFFICES ASSUME ~\E i \in S : \A j \in S : i <= j PROVE FALSE
  OBVIOUS
<1> DEFINE R == {n \in Nat : \A m \in 0..n : m \notin S}
<1>1. 0 \in R
  <2>1. 0 \notin S
    <3>1. \A j \in S : 0 <= j
      OBVIOUS
    <3> QED
      BY <3>1
  <2> QED
    BY <2>1
<1>2. \A n \in Nat : n \in R => n + 1 \in R
  <2> SUFFICES ASSUME NEW n \in Nat, n \in R PROVE n + 1 \in R
    OBVIOUS
  <2>1. \A j \in S : n + 1 <= j
    <3> SUFFICES ASSUME NEW j \in S, ~(n + 1 <= j) PROVE FALSE
      OBVIOUS
    <3>1. j \in Nat /\ j \in 0..n
      OBVIOUS
    <3> QED
      BY <3>1
  <2>2. n + 1 \notin S
    BY <2>1
  <2>3. \A m \in 0..(n + 1) : m \in 0..n \/ m = n + 1
    OBVIOUS
  <2> QED
    BY <2>2, <2>3
<1>3. Nat \subseteq R
  <2> HIDE DEF R
  <2> QED
    BY <1>1, <1>2, SetInduction
<1>4. PICK i \in S : TRUE
  OBVIOUS
<1>5. i \in R /\ i \in 0..i
  <2> HIDE DEF R
  <2> QED
    BY <1>3, <1>4
<1> QED
  BY <1>4, <1>5

(* What waits for a block are children of it.                              *)
LEMMA WaitingType ==
  ASSUME PoolOK(orphans, blocks), NEW b
  PROVE  /\ WaitingFor(b) \in Seq(Nat)
         /\ \A i \in 1..Len(WaitingFor(b)) :
              WaitingFor(b)[i] \in 1..Len(blocks) /\ Parent(WaitingFor(b)[i]) = b
         /\ (\A o \in Elems(orphans) : o.parent # b) <=> WaitingFor(b) = <<>>
<1> DEFINE at == {i \in DOMAIN orphans : orphans[i].parent = b}
<1>0. orphans \in Seq(Orphans) /\ \A i \in DOMAIN orphans : orphans[i] \in Elems(orphans)
  BY DEF PoolOK, Elems
<1>1. CASE at = {}
  <2>1. WaitingFor(b) = <<>>
    BY <1>1 DEF WaitingFor
  <2>2. \A o \in Elems(orphans) : o.parent # b
    BY <1>1 DEF Elems
  <2> QED
    BY <2>1, <2>2
<1>2. CASE at # {}
  <2> DEFINE k == CHOOSE i \in at : TRUE
             o == orphans[k]
  <2>1. k \in at
    BY <1>2
  <2>2. k \in DOMAIN orphans /\ o.parent = b /\ o \in Elems(orphans)
    BY <1>0, <2>1
  <2>3. WaitingFor(b) = o.blocks
    BY <1>2 DEF WaitingFor
  <2> HIDE DEF k, at
  <2>4. o \in Orphans
    BY <1>0, <2>2
  <2> HIDE DEF o
  <2>5. o.blocks \in Seq(Nat)
    BY <2>4 DEF Orphans
  <2>6. /\ Len(o.blocks) >= 1
        /\ \A i \in 1..Len(o.blocks) : /\ o.blocks[i] \in 1..Len(blocks)
                                       /\ blocks[o.blocks[i]].parent = o.parent
    BY <2>2 DEF PoolOK
  <2>7. o.blocks # <<>>
    BY <2>5, <2>6
  <2> QED
    BY <2>2, <2>3, <2>5, <2>6, <2>7 DEF Parent
<1> QED
  BY <1>1, <1>2

(* The one that is applied is a sound child.                               *)
LEMMA FitType ==
  ASSUME Tree(blocks), PoolOK(orphans, blocks), NEW b \in Ids, Fitting(b) # {}
  PROVE  /\ Fit(b) \in 1..Len(blocks) /\ Parent(Fit(b)) = b /\ blocks[Fit(b)].sound
         /\ b < Fit(b) /\ Fit(b) <= MaxBlocks
<1> DEFINE w == WaitingFor(b)
<1>0. w \in Seq(Nat) /\ \A i \in 1..Len(w) : w[i] \in 1..Len(blocks) /\ Parent(w[i]) = b
  BY WaitingType
<1>1. Fitting(b) \in SUBSET Nat /\ Fitting(b) \subseteq 1..Len(w)
  <2>1. Fitting(b) \subseteq DOMAIN w
    BY DEF Fitting
  <2> HIDE DEF w
  <2> QED
    BY <1>0, <2>1
<1> DEFINE k == CHOOSE i \in Fitting(b) : \A j \in Fitting(b) : i <= j
<1>2. k \in Fitting(b)
  <2> DEFINE S == Fitting(b)
  <2>1. S \in SUBSET Nat /\ S # {}
    BY <1>1
  <2> HIDE DEF S
  <2>2. \E i \in S : \A j \in S : i <= j
    BY <2>1, LeastNumber
  <2> QED
    BY <2>2 DEF S
<1>3. Fit(b) = w[k]
  BY DEF Fit
<1>4. blocks[w[k]].sound
  BY <1>2 DEF Fitting
<1> HIDE DEF k, w
<1>5. w[k] \in 1..Len(blocks) /\ Parent(w[k]) = b
  BY <1>0, <1>1, <1>2
<1>6. Parent(w[k]) \in 0..(w[k] - 1)
  BY <1>5, TreeType DEF Parent
<1>7. Len(blocks) \in Nat /\ Len(blocks) <= MaxBlocks /\ MaxBlocks \in Nat
  BY ChainAssumption DEF Tree
<1> QED
  BY <1>3, <1>4, <1>5, <1>6, <1>7

Afters(g) == g = [b \in Ids |-> IF Fitting(b) = {} THEN <<>> ELSE <<Fit(b)>> \o g[Fit(b)]]

(* The recursion of Followers has a solution.                              *)
LEMMA FollowersIs ==
  ASSUME Tree(blocks), PoolOK(orphans, blocks)
  PROVE  \A b \in Ids :
            Followers[b] = IF Fitting(b) = {} THEN <<>> ELSE <<Fit(b)>> \o Followers[Fit(b)]
<1> DEFINE N == MaxBlocks
           X == Seq(Nat)
           at(n) == N - n
           par == [n \in 1..N |-> IF Fitting(at(n)) = {} THEN 0 ELSE N - Fit(at(n))]
           F == [p \in X \X (1..N) |-> IF Fitting(at(p[2])) = {} THEN <<>>
                                       ELSE <<Fit(at(p[2]))>> \o p[1]]
<1>0. N \in Nat /\ \A b \in Ids : b \in 0..N
  BY ChainAssumption DEF Ids
<1>1. ASSUME NEW n \in 0..N
      PROVE  at(n) \in Ids /\ (Fitting(at(n)) # {} => Fit(at(n)) \in at(n) + 1..N /\ Fit(at(n)) \in Nat)
  <2>1. at(n) \in Ids
    BY <1>0 DEF Ids
  <2> DEFINE b == at(n)
  <2>2. ASSUME Fitting(b) # {} PROVE Fit(b) \in b + 1..N /\ Fit(b) \in Nat
    <3> HIDE DEF b
    <3>1. Fit(b) \in 1..Len(blocks) /\ b < Fit(b) /\ Fit(b) <= MaxBlocks
      BY <2>1, <2>2, FitType DEF b
    <3>2. b \in Nat
      BY <1>0, <2>1 DEF b
    <3> QED
      BY <1>0, <3>1, <3>2
  <2> QED
    BY <2>1, <2>2
<1>2. par \in [1..N -> 0..N] /\ \A n \in 1..N : par[n] < n
  <2>1. ASSUME NEW n \in 1..N
        PROVE  /\ (IF Fitting(at(n)) = {} THEN 0 ELSE N - Fit(at(n))) \in 0..N
               /\ (IF Fitting(at(n)) = {} THEN 0 ELSE N - Fit(at(n))) < n
    <3>1. n \in 0..N
      BY <1>0
    <3>2. Fitting(at(n)) # {} => Fit(at(n)) \in (N - n) + 1..N
      BY <1>1, <3>1
    <3> QED
      BY <1>0, <3>2
  <2> HIDE DEF at
  <2> QED
    BY <2>1
<1>3. F \in [X \X (1..N) -> X]
  <2>1. ASSUME NEW p \in X \X (1..N)
        PROVE  (IF Fitting(at(p[2])) = {} THEN <<>> ELSE <<Fit(at(p[2]))>> \o p[1]) \in X
    <3>1. p[2] \in 0..N /\ p[1] \in Seq(Nat)
      BY <1>0
    <3>2. Fitting(at(p[2])) # {} => Fit(at(p[2])) \in Nat
      BY <1>1, <3>1
    <3> HIDE DEF at
    <3> QED
      BY <3>1, <3>2
  <2> HIDE DEF at, X, N
  <2> QED
    BY <2>1
<1>4. PICK g \in [0..N -> X] : Recurs(g, N, <<>>, par, F)
  <2> DEFINE a == <<>>
  <2>1. a \in X
    OBVIOUS
  <2> HIDE DEF N, X, par, F, a
  <2>2. \E g \in [0..N -> X] : Recurs(g, N, a, par, F)
    BY <1>0, <1>2, <1>3, <2>1, RecursionExists
  <2> QED
    BY <2>2 DEF a
<1> DEFINE h == [b \in Ids |-> g[N - b]]
<1>5. Afters(h)
  <2>1. ASSUME NEW b \in Ids
        PROVE  h[b] = IF Fitting(b) = {} THEN <<>> ELSE <<Fit(b)>> \o h[Fit(b)]
    <3> DEFINE n == N - b
    <3>1. n \in 0..N /\ at(n) = b
      BY <1>0
    <3>2. Fitting(b) # {} => Fit(b) \in b + 1..N /\ Fit(b) \in Ids
      <4>1. Fitting(at(n)) # {} => Fit(at(n)) \in at(n) + 1..N
        <5> HIDE DEF at, n
        <5> QED
          BY <1>1, <3>1
      <4>2. Fitting(b) # {} => Fit(b) \in b + 1..N
        <5> HIDE DEF at
        <5> QED
          BY <3>1, <4>1
      <4> QED
        BY <1>0, <4>2 DEF Ids
    <3>3. CASE n = 0
      <4>1. Fitting(b) = {}
        BY <1>0, <3>2, <3>3
      <4>2. g[0] = <<>>
        BY <1>4 DEF Recurs
      <4>3. h[b] = <<>>
        BY <3>3, <4>2
      <4> QED
        BY <4>1, <4>3
    <3>4. CASE n # 0
      <4>1. n \in 1..N
        <5> HIDE DEF n
        <5> QED
          BY <1>0, <3>1, <3>4
      <4>2. g[n] = F[<<g[par[n]], n>>]
        <5> HIDE DEF n, N, par, F, X
        <5> QED
          BY <1>4, <4>1 DEF Recurs
      <4>3. par[n] \in 0..N /\ g[par[n]] \in X
        <5> HIDE DEF n, N, par, F, X
        <5> QED
          BY <1>2, <4>1
      <4>4. F[<<g[par[n]], n>>] = IF Fitting(b) = {} THEN <<>> ELSE <<Fit(b)>> \o g[par[n]]
        <5>1. F[<<g[par[n]], n>>] = IF Fitting(at(n)) = {} THEN <<>>
                                    ELSE <<Fit(at(n))>> \o g[par[n]]
          <6> HIDE DEF n, N, par, X, at
          <6> QED
            BY <4>1, <4>3
        <5> HIDE DEF n, N, par, F, X, at
        <5> QED
          BY <3>1, <5>1, Zenon
      <4>5. Fitting(b) # {} => g[par[n]] = h[Fit(b)]
        <5> SUFFICES ASSUME Fitting(b) # {} PROVE g[par[n]] = h[Fit(b)]
          OBVIOUS
        <5>1. par[n] = IF Fitting(at(n)) = {} THEN 0 ELSE N - Fit(at(n))
          <6> HIDE DEF n, N, F, X, at
          <6> QED
            BY <4>1
        <5>2. par[n] = N - Fit(b)
          <6> HIDE DEF n, N, F, X, at, par
          <6> QED
            BY <3>1, <5>1, Zenon
        <5>3. h[Fit(b)] = g[N - Fit(b)]
          <6> HIDE DEF n, N, F, X, at, par
          <6> QED
            BY <3>2
        <5> HIDE DEF n, N, F, X, at, par, h
        <5> QED
          BY <5>2, <5>3, Zenon
      <4>6. h[b] = g[n]
        BY <3>1
      <4> HIDE DEF n, N, F, X, at, par, h
      <4> QED
        BY <4>2, <4>4, <4>5, <4>6, Zenon
    <3> QED
      BY <3>3, <3>4
  <2>2. h = [b \in Ids |-> h[b]]
    OBVIOUS
  <2> HIDE DEF h
  <2> QED
    BY <2>1, <2>2, Zenon DEF Afters
<1> DEFINE k == CHOOSE f : Afters(f)
<1>6. Afters(k)
  <2> HIDE DEF h
  <2> QED
    BY <1>5
<1>7. Followers = k
  BY DEF Followers, Afters
<1> HIDE DEF k
<1>8. \A b \in Ids : k[b] = IF Fitting(b) = {} THEN <<>> ELSE <<Fit(b)>> \o k[Fit(b)]
  BY <1>6, Zenon DEF Afters
<1> QED
  BY <1>7, <1>8, Zenon

(* What follows a block is a path from it.                                 *)
LEMMA FollowersPath ==
  ASSUME Tree(blocks), PoolOK(orphans, blocks), NEW b \in Ids
  PROVE  Path(b, Followers[b], blocks)
<1> DEFINE N == MaxBlocks
           OK(d) == Path(d, Followers[d], blocks)
           R == {n \in 0..N : \A d \in Ids : N - n <= d => OK(d)}
<1>0. N \in Nat /\ (\A d \in Ids : d \in 0..N) /\ Len(blocks) \in Nat
  BY ChainAssumption DEF Ids, Tree
<1>1. ASSUME NEW d \in Ids, Fitting(d) = {} PROVE OK(d)
  <2>1. Followers[d] = <<>>
    BY <1>1, FollowersIs
  <2>2. Path(d, <<>>, blocks)
    BY DEF Path
  <2> QED
    BY <2>1, <2>2, Zenon
<1>2. ASSUME NEW d \in Ids, Fitting(d) # {}, OK(Fit(d)) PROVE OK(d)
  <2> DEFINE f == Fit(d)
             p == Followers[f]
             q == <<f>> \o p
  <2>1. f \in 1..Len(blocks) /\ blocks[f].parent = d
    BY <1>2, FitType DEF Parent
  <2>2. Followers[d] = q
    BY <1>2, FollowersIs
  <2>3. Path(f, p, blocks)
    BY <1>2
  <2> HIDE DEF f, p
  <2>4. p \in Seq(Nat) /\ Len(p) \in Nat /\ f \in Nat
    BY <1>0, <2>1, <2>3 DEF Path
  <2>5. /\ q \in Seq(Nat) /\ Len(q) = Len(p) + 1 /\ q[1] = f
        /\ \A i \in 2..Len(q) : q[i] = p[i - 1]
    BY <2>4
  <2> HIDE DEF q
  <2>6. ASSUME NEW i \in 1..Len(q)
        PROVE  q[i] \in 1..Len(blocks) /\ blocks[q[i]].parent = IF i = 1 THEN d ELSE q[i - 1]
    <3>1. CASE i = 1
      BY <2>1, <2>5, <3>1
    <3>2. CASE i # 1
      <4>1. i \in 2..Len(q) /\ i - 1 \in 1..Len(p)
        BY <2>4, <2>5, <3>2
      <4>2. q[i] = p[i - 1]
        BY <2>5, <4>1
      <4>3. /\ p[i - 1] \in 1..Len(blocks)
            /\ blocks[p[i - 1]].parent = IF i - 1 = 1 THEN f ELSE p[(i - 1) - 1]
        BY <2>3, <4>1 DEF Path
      <4>4. q[i - 1] = IF i - 1 = 1 THEN f ELSE p[(i - 1) - 1]
        <5>1. CASE i = 2
          BY <2>5, <5>1
        <5>2. CASE i # 2
          <6>1. i - 1 \in 2..Len(q) /\ i - 1 # 1
            BY <2>4, <2>5, <3>2, <5>2
          <6> QED
            BY <2>5, <6>1
        <5> QED
          BY <5>1, <5>2
      <4> QED
        BY <3>2, <4>2, <4>3, <4>4, Zenon
    <3> QED
      BY <3>1, <3>2
  <2>7. Path(d, q, blocks)
    BY <2>5, <2>6 DEF Path
  <2> QED
    BY <2>2, <2>7, Zenon
<1>3. 0 \in R
  <2>1. ASSUME NEW d \in Ids, N - 0 <= d PROVE OK(d)
    <3>1. Fitting(d) = {}
      <4> SUFFICES ASSUME Fitting(d) # {} PROVE FALSE
        OBVIOUS
      <4>1. d < Fit(d) /\ Fit(d) <= MaxBlocks /\ Fit(d) \in 1..Len(blocks)
        BY FitType
      <4> QED
        BY <1>0, <2>1, <4>1
    <3> QED
      BY <1>1, <3>1
  <2> HIDE DEF OK
  <2> QED
    BY <1>0, <2>1
<1>4. \A n \in 0..(N - 1) : n \in R => n + 1 \in R
  <2> SUFFICES ASSUME NEW n \in 0..(N - 1), n \in R PROVE n + 1 \in R
    OBVIOUS
  <2>1. ASSUME NEW d \in Ids, N - (n + 1) <= d PROVE OK(d)
    <3>1. CASE Fitting(d) = {}
      BY <1>1, <3>1
    <3>2. CASE Fitting(d) # {}
      <4>1. d < Fit(d) /\ Fit(d) <= MaxBlocks /\ Fit(d) \in 1..Len(blocks)
        BY <3>2, FitType
      <4>2. Fit(d) \in Ids /\ N - n <= Fit(d)
        BY <1>0, <2>1, <4>1 DEF Ids
      <4>3. OK(Fit(d))
        <5> HIDE DEF OK
        <5> QED
          BY <4>2
      <4> QED
        BY <1>2, <3>2, <4>3
    <3> QED
      BY <3>1, <3>2
  <2>2. n + 1 \in 0..N
    BY <1>0
  <2> HIDE DEF OK
  <2> QED
    BY <2>1, <2>2
<1>5. N \in R
  <2> HIDE DEF R
  <2>1. 0..N \subseteq R
    <3> HIDE DEF N
    <3> QED
      BY <1>0, <1>3, <1>4, BoundedInduction
  <2> QED
    BY <1>0, <2>1
<1>6. N - N <= b
  BY <1>0
<1> HIDE DEF OK
<1>7. OK(b)
  BY <1>5, <1>6
<1> QED
  BY <1>7 DEF OK

-----------------------------------------------------------------------------
(* What the verifier passes.                                               *)

Verifies(seen) == \A i \in DOMAIN Selected : i \in seen <=> Passes(i, seen)

(* Verification of one entry after another ends.                            *)
LEMMA VerifiesExists ==
  ASSUME mempool \in Seq(Txs)
  PROVE  /\ Selected \in Seq(Txs) /\ DOMAIN Selected \subseteq DOMAIN mempool
         /\ \A i \in DOMAIN Selected : Selected[i] = mempool[i]
         /\ \E seen \in SUBSET DOMAIN Selected : Verifies(seen)
<1> DEFINE N == Len(Selected)
           Upto(m, seen) == \A i \in 1..m : i \in seen <=> Passes(i, seen)
           R == {m \in 0..N : \E seen \in SUBSET (1..m) : Upto(m, seen)}
<1>0. /\ Selected \in Seq(Txs) /\ N \in Nat /\ N <= Len(mempool) /\ DOMAIN Selected = 1..N
      /\ \A i \in 1..N : Selected[i] = mempool[i]
  <2>1. BlockSize \in Nat
    BY ChainAssumption
  <2> QED
    BY <2>1 DEF Selected
<1>1. 0 \in R
  <2>1. Upto(0, {})
    OBVIOUS
  <2> HIDE DEF N, Upto
  <2> QED
    BY <1>0, <2>1
<1>2. \A m \in 0..(N - 1) : m \in R => m + 1 \in R
  <2> SUFFICES ASSUME NEW m \in 0..(N - 1), m \in R PROVE m + 1 \in R
    OBVIOUS
  <2>1. PICK seen \in SUBSET (1..m) : Upto(m, seen)
    <3> HIDE DEF N, Upto
    <3> QED
      OBVIOUS
  <2> DEFINE n == m + 1
             more == IF Passes(n, seen) THEN seen \cup {n} ELSE seen
  <2>2. m \in Nat /\ n \in 1..N /\ n \notin seen /\ \A i \in 1..n : i \in 1..m \/ i = n
    <3> HIDE DEF N
    <3> QED
      BY <1>0, <2>1
  <2>3. ASSUME NEW i \in 1..n PROVE Passes(i, more) <=> Passes(i, seen)
    <3>1. \A j : j < i => (j \in more <=> j \in seen)
      BY <2>2
    <3> HIDE DEF more, n
    <3> QED
      BY <3>1 DEF Passes
  <2>4. ASSUME NEW i \in 1..n PROVE i \in more <=> Passes(i, more)
    <3>1. CASE i = n
      <4>1. i \in more <=> Passes(i, seen)
        BY <2>2, <3>1
      <4> QED
        BY <2>3, <4>1
    <3>2. CASE i # n
      <4>1. i \in 1..m
        BY <2>2, <3>2
      <4>2. i \in seen <=> Passes(i, seen)
        BY <2>1, <4>1
      <4>3. i \in more <=> i \in seen
        BY <3>2
      <4> QED
        BY <2>3, <4>2, <4>3
    <3> QED
      BY <3>1, <3>2
  <2>5. more \in SUBSET (1..n)
    BY <2>1, <2>2
  <2>6. Upto(n, more)
    <3> HIDE DEF more
    <3> QED
      BY <2>4
  <2>7. n \in 0..N
    <3> HIDE DEF N
    <3> QED
      BY <1>0, <2>2
  <2> HIDE DEF N, Upto, more
  <2> QED
    BY <2>5, <2>6, <2>7
<1>3. N \in R
  <2> HIDE DEF R, N
  <2>1. 0..N \subseteq R
    BY <1>0, <1>1, <1>2, BoundedInduction
  <2> QED
    BY <1>0, <2>1
<1>4. PICK seen \in SUBSET (1..N) : Upto(N, seen)
  <2> HIDE DEF N, Upto
  <2> QED
    BY <1>3
<1>5. Verifies(seen)
  <2> HIDE DEF N
  <2> QED
    BY <1>0, <1>4 DEF Verifies
<1>6. DOMAIN Selected \subseteq DOMAIN mempool
  <2> HIDE DEF N
  <2> QED
    BY <1>0
<1> HIDE DEF N
<1> QED
  BY <1>0, <1>4, <1>5, <1>6

(* It spends coins that are there, each once.                              *)
LEMMA VerifiedSpends ==
  ASSUME mempool \in Seq(Txs)
  PROVE  /\ Verified \subseteq WellFormed /\ Verified \subseteq Txs /\ Verified \subseteq InMempool
         /\ {Spends[t] : t \in Verified} \subseteq utxo
         /\ \A t, u \in Verified : Spends[t] = Spends[u] => t = u
<1>0. WellFormed \subseteq Txs
  BY ChainAssumption
<1> DEFINE seen == CHOOSE S \in SUBSET DOMAIN Selected :
                     \A i \in DOMAIN Selected : i \in S <=> Passes(i, S)
<1>1. seen \in SUBSET DOMAIN Selected /\ Verifies(seen)
  <2>1. \E S \in SUBSET DOMAIN Selected : \A i \in DOMAIN Selected : i \in S <=> Passes(i, S)
    BY VerifiesExists DEF Verifies
  <2> QED
    BY <2>1 DEF Verifies
<1>2. Verified = {mempool[i] : i \in seen}
  BY DEF Verified
<1> HIDE DEF seen
<1>3. DOMAIN Selected \subseteq 1..Len(mempool)
  BY VerifiesExists
<1>4. ASSUME NEW i \in seen
      PROVE  Passes(i, seen) /\ i \in DOMAIN mempool /\ i \in Nat
  BY <1>1, <1>3, <1>4 DEF Verifies
<1>5. Verified \subseteq WellFormed /\ Verified \subseteq InMempool
  BY <1>2, <1>4 DEF Passes, InMempool
<1>6. {Spends[t] : t \in Verified} \subseteq utxo
  <2> SUFFICES ASSUME NEW t \in Verified PROVE Spends[t] \in utxo
    OBVIOUS
  <2>1. PICK i \in seen : t = mempool[i]
    BY <1>2
  <2> QED
    BY <1>4, <2>1 DEF Passes
<1>7. ASSUME NEW t \in Verified, NEW u \in Verified, Spends[t] = Spends[u] PROVE t = u
  <2>1. PICK i \in seen : t = mempool[i]
    BY <1>2
  <2>2. PICK j \in seen : u = mempool[j]
    BY <1>2
  <2>3. ~(j < i) /\ ~(i < j)
    <3>1. Passes(i, seen) /\ Passes(j, seen)
      BY <1>4
    <3> QED
      BY <1>7, <2>1, <2>2, <3>1 DEF Passes
  <2>4. i = j
    <3>1. i \in Nat /\ j \in Nat
      BY <1>4
    <3> QED
      BY <2>3, <3>1
  <2> QED
    BY <2>1, <2>2, <2>4
<1> QED
  BY <1>0, <1>5, <1>6, <1>7

-----------------------------------------------------------------------------
(* The pool after a block more, or some blocks less.                       *)

KeysOnce(s) == \A i, j \in 1..Len(s) : s[i].parent = s[j].parent => i = j

(* Another key can be appended.                                            *)
LEMMA KeysAppend ==
  ASSUME NEW s \in Seq(Orphans), NEW x \in Orphans
  PROVE  KeysOnce(Append(s, x)) <=> KeysOnce(s) /\ \A o \in Elems(s) : o.parent # x.parent
<1> DEFINE t == Append(s, x)
<1>1. /\ Len(t) = Len(s) + 1 /\ Len(s) \in Nat /\ t[Len(s) + 1] = x
      /\ \A i \in 1..Len(s) : t[i] = s[i]
  OBVIOUS
<1> HIDE DEF t
<1>2. ASSUME KeysOnce(t) PROVE KeysOnce(s) /\ \A o \in Elems(s) : o.parent # x.parent
  <2>1. \A i \in 1..Len(s) : i \in 1..Len(t) /\ i # Len(s) + 1
    BY <1>1
  <2>2. KeysOnce(s)
    BY <1>1, <1>2, <2>1 DEF KeysOnce
  <2>3. ASSUME NEW o \in Elems(s) PROVE o.parent # x.parent
    <3>1. PICK i \in 1..Len(s) : o = s[i]
      BY DEF Elems
    <3>2. Len(s) + 1 \in 1..Len(t) /\ t[i] = o
      BY <1>1, <3>1
    <3> QED
      BY <1>1, <1>2, <2>1, <3>2 DEF KeysOnce
  <2> QED
    BY <2>2, <2>3
<1>3. ASSUME KeysOnce(s), \A o \in Elems(s) : o.parent # x.parent PROVE KeysOnce(t)
  <2> SUFFICES ASSUME NEW i \in 1..Len(t), NEW j \in 1..Len(t), t[i].parent = t[j].parent
               PROVE  i = j
    BY DEF KeysOnce
  <2>0. \A k \in 1..Len(s) : s[k] \in Elems(s)
    BY DEF Elems
  <2>1. CASE i \in 1..Len(s) /\ j \in 1..Len(s)
    BY <1>1, <1>3, <2>1 DEF KeysOnce
  <2>2. CASE i \in 1..Len(s) /\ j = Len(s) + 1
    BY <1>1, <1>3, <2>0, <2>2
  <2>3. CASE j \in 1..Len(s) /\ i = Len(s) + 1
    BY <1>1, <1>3, <2>0, <2>3
  <2>4. CASE i = Len(s) + 1 /\ j = Len(s) + 1
    BY <2>4
  <2> QED
    BY <1>1, <2>1, <2>2, <2>3, <2>4
<1> QED
  BY <1>2, <1>3 DEF t

(* Keys stay apart when some go.                                           *)
LEMMA KeysKept ==
  ASSUME NEW S
  PROVE  \A s \in Seq(Orphans) : KeysOnce(s) => KeysOnce(Kept(s, S))
<1> DEFINE R == {s \in Seq(Orphans) : KeysOnce(s) => KeysOnce(Kept(s, S))}
<1>1. <<>> \in R
  <2>1. KeysOnce(<<>>)
    BY DEF KeysOnce
  <2>2. KeysOnce(Kept(<<>>, S))
    BY <2>1, KeptEmpty, Zenon
  <2> QED
    BY <2>2
<1>2. \A s \in Seq(Orphans), x \in Orphans : s \in R => Append(s, x) \in R
  <2> SUFFICES ASSUME NEW s \in Seq(Orphans), NEW x \in Orphans, s \in R, KeysOnce(Append(s, x))
               PROVE  KeysOnce(Kept(Append(s, x), S))
    OBVIOUS
  <2>1. KeysOnce(s) /\ \A o \in Elems(s) : o.parent # x.parent
    BY KeysAppend
  <2> DEFINE k == Kept(s, S)
  <2>2. k \in Seq(Orphans) /\ Elems(k) = Elems(s) \cap S /\ KeysOnce(k)
    BY <2>1, KeptType, KeptElems
  <2>3. Kept(Append(s, x), S) = IF x \in S THEN Append(k, x) ELSE k
    BY KeptAppend
  <2> HIDE DEF k, R
  <2>4. KeysOnce(Append(k, x))
    BY <2>1, <2>2, KeysAppend
  <2> QED
    BY <2>2, <2>3, <2>4, Zenon
<1> HIDE DEF R
<1>3. Seq(Orphans) \subseteq R
  BY <1>1, <1>2, SeqInduction
<1> QED
  BY <1>3 DEF R

(* A pool without some of its keys.                                        *)
LEMMA PoolKept ==
  ASSUME NEW pool, NEW bs, PoolOK(pool, bs), NEW S
  PROVE  /\ PoolOK(Kept(pool, S), bs) /\ SizeOf(Kept(pool, S)) <= SizeOf(pool)
         /\ Elems(Kept(pool, S)) = Elems(pool) \cap S
<1>1. pool \in Seq(Orphans) /\ KeysOnce(pool)
  BY DEF PoolOK, KeysOnce
<1> DEFINE k == Kept(pool, S)
<1>2. k \in Seq(Orphans) /\ Elems(k) = Elems(pool) \cap S /\ KeysOnce(k) /\ SizeOf(k) <= SizeOf(pool)
  BY <1>1, KeptType, KeptElems, KeysKept, SizeKept
<1> HIDE DEF k
<1>3. PoolOK(k, bs)
  BY <1>2 DEF PoolOK, KeysOnce
<1> QED
  BY <1>2, <1>3 DEF k

(* A sequence in two parts, and around one of its places.                  *)
LEMMA SplitAfter ==
  ASSUME NEW T, NEW s \in Seq(T), NEW k \in 0..Len(s)
  PROVE  s = SubSeq(s, 1, k) \o SubSeq(s, k + 1, Len(s))
<1>1. 1 \in 1..(Len(s) + 1) /\ k \in (1 - 1)..Len(s) /\ Len(s) \in k..Len(s)
  OBVIOUS
<1>2. SubSeq(s, 1, k) \o SubSeq(s, k + 1, Len(s)) = SubSeq(s, 1, Len(s))
  BY <1>1, ConcatAdjacentSubSeq
<1>3. SubSeq(s, 1, Len(s)) = s
  BY SubSeqFull
<1> QED
  BY <1>2, <1>3, Zenon

LEMMA SplitAt ==
  ASSUME NEW T, NEW s \in Seq(T), NEW k \in 1..Len(s)
  PROVE  s = Append(SubSeq(s, 1, k - 1), s[k]) \o SubSeq(s, k + 1, Len(s))
<1>1. k \in 0..Len(s) /\ 1 \in 1..Len(s) /\ k \in 1..Len(s)
  OBVIOUS
<1>2. s = SubSeq(s, 1, k) \o SubSeq(s, k + 1, Len(s))
  BY <1>1, SplitAfter
<1>3. SubSeq(s, 1, k) = SubSeq(s, 1, k - 1) \o <<s[k]>>
  BY <1>1, SubSeqRecursiveSecond
<1>4. Append(SubSeq(s, 1, k - 1), s[k]) = SubSeq(s, 1, k - 1) \o <<s[k]>>
  OBVIOUS
<1> QED
  BY <1>2, <1>3, <1>4, Zenon

(* A pool without its oldest keys; without one of them it is smaller.       *)
LEMMA PoolSuffix ==
  ASSUME NEW pool, NEW bs, PoolOK(pool, bs), NEW q \in Nat
  PROVE  /\ PoolOK(SubSeq(pool, q + 1, Len(pool)), bs)
         /\ Elems(SubSeq(pool, q + 1, Len(pool))) \subseteq Elems(pool)
         /\ SizeOf(pool) >= 1 /\ q >= 1 => SizeOf(SubSeq(pool, q + 1, Len(pool))) < SizeOf(pool)
<1>0. pool \in Seq(Orphans) /\ Len(pool) \in Nat
  BY DEF PoolOK
<1> DEFINE n == Len(pool)
           s == SubSeq(pool, q + 1, n)
<1>1. s \in Seq(Orphans) /\ Len(s) \in Nat /\ \A i \in 1..Len(s) : i + q \in 1..n /\ s[i] = pool[i + q]
  <2>1. s \in Seq(Orphans) /\ Len(s) \in Nat /\ Len(s) = IF q < n THEN n - q ELSE 0
    BY <1>0
  <2>2. \A i \in 1..Len(s) : i + q \in 1..n
    BY <1>0, <2>1
  <2>3. \A i \in 1..Len(s) : s[i] = pool[i + q]
    BY <1>0, <2>1
  <2> QED
    BY <2>1, <2>2, <2>3
<1>2. q <= n => q + Len(s) = n
  BY <1>0
<1>3. q > n => s = <<>>
  BY <1>0
<1>4. ASSUME q <= n PROVE pool = SubSeq(pool, 1, q) \o s
  <2>1. q \in 0..Len(pool)
    BY <1>0, <1>4
  <2> QED
    BY <1>0, <2>1, SplitAfter
<1> HIDE DEF s
<1>5. Elems(s) \subseteq Elems(pool)
  BY <1>1 DEF Elems
<1>6. KeysOnce(s)
  <2> SUFFICES ASSUME NEW i \in 1..Len(s), NEW j \in 1..Len(s), s[i].parent = s[j].parent
               PROVE  i = j
    BY DEF KeysOnce
  <2>1. /\ s[i] = pool[i + q] /\ i + q \in 1..Len(pool)
        /\ s[j] = pool[j + q] /\ j + q \in 1..Len(pool)
    BY <1>1
  <2>2. i + q = j + q
    BY <2>1, Zenon DEF PoolOK
  <2>3. i \in Int /\ j \in Int /\ q \in Int
    BY <1>0
  <2> QED
    BY <2>2, <2>3
<1>7. PoolOK(s, bs)
  BY <1>1, <1>5, <1>6 DEF PoolOK, KeysOnce
<1>8. ASSUME SizeOf(pool) >= 1, q >= 1 PROVE SizeOf(s) < SizeOf(pool)
  <2>0. SizeOf(pool) \in Nat
    BY <1>0, SizeAtLeast
  <2>1. CASE q <= n
    <3> DEFINE p == SubSeq(pool, 1, q)
    <3>1. p \in Seq(Orphans) /\ Len(p) = q /\ \A i \in 1..q : i \in 1..n /\ p[i] = pool[i]
      BY <1>0, <1>8, <2>1
    <3>2. pool = p \o s
      BY <1>4, <2>1
    <3> HIDE DEF p
    <3>3. Elems(p) \subseteq Elems(pool)
      BY <3>1 DEF Elems
    <3>4. \A o \in Elems(p) : Len(o.blocks) >= 1
      BY <3>3 DEF PoolOK
    <3>5. SizeOf(p) \in Nat /\ SizeOf(p) >= q
      BY <3>1, <3>4, SizeAtLeast
    <3>6. SizeOf(p \o s) = SizeOf(p) + SizeOf(s) /\ SizeOf(s) \in Nat
      BY <1>1, <3>1, SizeConcat, SizeAtLeast
    <3>7. SizeOf(pool) = SizeOf(p) + SizeOf(s)
      BY <3>2, <3>6, Zenon
    <3> QED
      BY <1>8, <3>5, <3>6, <3>7
  <2>2. CASE q > n
    <3>1. SizeOf(s) = 0
      BY <1>3, <2>2, SizeEmpty
    <3> QED
      BY <1>8, <2>0, <3>1
  <2> QED
    BY <1>0, <2>1, <2>2
<1> QED
  BY <1>5, <1>7, <1>8 DEF s

(* One entry has a block more.                                             *)
LEMMA SizeOneMore ==
  ASSUME NEW s \in Seq(Orphans), NEW t \in Seq(Orphans), Len(t) = Len(s), NEW k \in 1..Len(s),
         Len(t[k].blocks) = Len(s[k].blocks) + 1,
         \A i \in 1..Len(s) : i # k => t[i] = s[i]
  PROVE  SizeOf(t) = SizeOf(s) + 1
<1> DEFINE n == Len(s)
           a == SubSeq(s, 1, k - 1)
           b == SubSeq(s, k + 1, n)
           x == s[k]
           y == t[k]
<1>0. n \in Nat /\ k \in Nat /\ k >= 1 /\ k <= n
  OBVIOUS
<1>1. a \in Seq(Orphans) /\ b \in Seq(Orphans) /\ x \in Orphans /\ y \in Orphans
  BY <1>0
<1>2. s = Append(a, x) \o b
  BY SplitAt
<1>3. t = Append(a, y) \o b
  <2>1. SubSeq(t, 1, k - 1) = a
    BY <1>0
  <2>2. SubSeq(t, k + 1, n) = b
    BY <1>0
  <2>3. t = Append(SubSeq(t, 1, k - 1), y) \o SubSeq(t, k + 1, n)
    BY SplitAt, Zenon
  <2> QED
    BY <2>1, <2>2, <2>3, Zenon
<1> HIDE DEF a, b, x, y
<1>4. /\ Append(a, x) \in Seq(Orphans) /\ Append(a, y) \in Seq(Orphans)
      /\ SizeOf(Append(a, x)) = SizeOf(a) + Len(x.blocks)
      /\ SizeOf(Append(a, y)) = SizeOf(a) + Len(y.blocks)
      /\ SizeOf(a) \in Nat /\ SizeOf(b) \in Nat
  BY <1>1, SizeAppend, SizeAtLeast
<1>5. Len(x.blocks) \in Nat
  <2>1. x.blocks \in Seq(Nat)
    BY <1>1 DEF Orphans
  <2> QED
    BY <2>1
<1>6. /\ SizeOf(Append(a, x) \o b) = SizeOf(Append(a, x)) + SizeOf(b)
      /\ SizeOf(Append(a, y) \o b) = SizeOf(Append(a, y)) + SizeOf(b)
  BY <1>1, <1>4, SizeConcat
<1>7. SizeOf(s) = SizeOf(Append(a, x)) + SizeOf(b) /\ SizeOf(t) = SizeOf(Append(a, y)) + SizeOf(b)
  BY <1>2, <1>3, <1>6, Zenon
<1>8. Len(y.blocks) = Len(x.blocks) + 1
  BY DEF x, y
<1> QED
  BY <1>4, <1>5, <1>7, <1>8

(* A block more for one key.                                               *)
WithBlock(o, b) == [o EXCEPT !.blocks = Append(@, b)]
Grown(pool, t, p, b) ==
    t = [i \in DOMAIN pool |-> IF pool[i].parent = p THEN [pool[i] EXCEPT !.blocks = Append(@, b)]
                               ELSE pool[i]]

LEMMA WithBlockType ==
  ASSUME NEW o \in Orphans, NEW b \in Nat
  PROVE  /\ WithBlock(o, b) \in Orphans /\ WithBlock(o, b).parent = o.parent
         /\ WithBlock(o, b).blocks = Append(o.blocks, b)
         /\ o.blocks \in Seq(Nat) /\ o.parent \in Nat
<1>1. o.blocks \in Seq(Nat) /\ o.parent \in Nat
  BY DEF Orphans
<1>2. Append(o.blocks, b) \in Seq(Nat)
  BY <1>1
<1>3. WithBlock(o, b) = [parent |-> o.parent, blocks |-> Append(o.blocks, b)]
  <2>1. o = [parent |-> o.parent, blocks |-> o.blocks]
    BY DEF Orphans
  <2> DEFINE y == Append(o.blocks, b)
             z == o.blocks
             p == o.parent
  <2>2. WithBlock(o, b) = [o EXCEPT !.blocks = y]
    BY DEF WithBlock
  <2>3. o = [parent |-> p, blocks |-> z]
    BY <2>1
  <2> HIDE DEF y, z, p
  <2>4. [o EXCEPT !.blocks = y] = [[parent |-> p, blocks |-> z] EXCEPT !.blocks = y]
    BY <2>3, Zenon
  <2>5. [[parent |-> p, blocks |-> z] EXCEPT !.blocks = y] = [parent |-> p, blocks |-> y]
    OBVIOUS
  <2>6. WithBlock(o, b) = [parent |-> p, blocks |-> y]
    BY <2>2, <2>4, <2>5, Zenon
  <2> QED
    BY <2>6 DEF y, p
<1> QED
  BY <1>1, <1>2, <1>3 DEF Orphans

LEMMA GrownAt ==
  ASSUME NEW pool, NEW t, NEW p, NEW b, Grown(pool, t, p, b)
  PROVE  /\ DOMAIN t = DOMAIN pool /\ t = [i \in DOMAIN pool |-> t[i]]
         /\ \A i \in DOMAIN pool : t[i] = IF pool[i].parent = p THEN WithBlock(pool[i], b) ELSE pool[i]
  BY DEF Grown, WithBlock

LEMMA KeyGrows ==
  ASSUME NEW pool, NEW bs, PoolOK(pool, bs), NEW b \in 1..Len(bs), NEW k \in 1..Len(pool),
         bs[b].parent = pool[k].parent, NEW t, Grown(pool, t, bs[b].parent, b)
  PROVE  /\ PoolOK(t, bs) /\ SizeOf(t) = SizeOf(pool) + 1
         /\ \A o \in Elems(t) : \E p \in Elems(pool) : p.parent = o.parent
<1>0. pool \in Seq(Orphans) /\ Len(pool) \in Nat /\ DOMAIN pool = 1..Len(pool)
  BY DEF PoolOK
<1>b. b \in Nat
  OBVIOUS
<1>1. \A i \in 1..Len(pool) : pool[i] \in Orphans /\ pool[i].blocks \in Seq(Nat) /\ pool[i].parent \in Nat
  BY <1>0, <1>b, WithBlockType
<1>2. \A i \in 1..Len(pool) : i # k => t[i] = pool[i]
  <2> SUFFICES ASSUME NEW i \in 1..Len(pool), i # k PROVE t[i] = pool[i]
    OBVIOUS
  <2>1. pool[i].parent # bs[b].parent
    BY DEF PoolOK
  <2> QED
    BY <1>0, <2>1, GrownAt
<1>3. t[k] = WithBlock(pool[k], b)
  BY <1>0, GrownAt
<1>4. /\ t[k].parent = pool[k].parent /\ t[k].blocks = Append(pool[k].blocks, b)
      /\ t[k] \in Orphans
  BY <1>1, <1>3, <1>b, WithBlockType
<1>5. t \in Seq(Orphans) /\ Len(t) = Len(pool) /\ DOMAIN t = 1..Len(pool)
  <2>1. DOMAIN t = 1..Len(pool) /\ t = [i \in 1..Len(pool) |-> t[i]]
    BY <1>0, GrownAt
  <2>2. \A i \in 1..Len(pool) : t[i] \in Orphans
    BY <1>1, <1>2, <1>4
  <2>3. t \in [1..Len(pool) -> Orphans]
    BY <2>1, <2>2
  <2>4. t \in Seq(Orphans)
    BY <1>0, <2>3, SeqDef, Zenon
  <2> QED
    BY <1>0, <2>1, <2>4
<1>6. \A i \in 1..Len(pool) : t[i].parent = pool[i].parent /\ pool[i] \in Elems(pool)
  BY <1>0, <1>2, <1>4 DEF Elems
<1>7. \A o \in Elems(t) : \E p \in Elems(pool) : p.parent = o.parent
  <2> SUFFICES ASSUME NEW o \in Elems(t) PROVE \E p \in Elems(pool) : p.parent = o.parent
    OBVIOUS
  <2>1. PICK i \in 1..Len(pool) : o = t[i]
    BY <1>5 DEF Elems
  <2> QED
    BY <1>6, <2>1
<1>8. Len(t[k].blocks) = Len(pool[k].blocks) + 1
  BY <1>1, <1>4
<1>9. SizeOf(t) = SizeOf(pool) + 1
  BY <1>0, <1>2, <1>5, <1>8, SizeOneMore
<1>10. ASSUME NEW o \in Elems(t)
       PROVE  /\ o.parent \in 0..Len(bs) /\ Len(o.blocks) >= 1
              /\ \A i \in 1..Len(o.blocks) : o.blocks[i] \in 1..Len(bs) /\ bs[o.blocks[i]].parent = o.parent
  <2>1. PICK j \in 1..Len(pool) : o = t[j]
    BY <1>5 DEF Elems
  <2>2. /\ pool[j].parent \in 0..Len(bs) /\ Len(pool[j].blocks) >= 1
        /\ \A i \in 1..Len(pool[j].blocks) : /\ pool[j].blocks[i] \in 1..Len(bs)
                                             /\ bs[pool[j].blocks[i]].parent = pool[j].parent
    BY <1>6 DEF PoolOK
  <2>3. CASE j # k
    BY <1>2, <2>1, <2>2, <2>3
  <2>4. CASE j = k
    <3> DEFINE s == pool[k].blocks
    <3>1. s \in Seq(Nat) /\ Len(s) \in Nat /\ o.blocks = Append(s, b) /\ o.parent = pool[k].parent
      BY <1>1, <1>4, <2>1, <2>4
    <3>2. \A i \in 1..Len(s) : s[i] \in 1..Len(bs) /\ bs[s[i]].parent = pool[k].parent
      BY <2>2, <2>4
    <3> HIDE DEF s
    <3>3. ASSUME NEW i \in 1..Len(o.blocks)
          PROVE  o.blocks[i] \in 1..Len(bs) /\ bs[o.blocks[i]].parent = o.parent
      <4>1. Len(Append(s, b)) = Len(s) + 1
        BY <3>1
      <4>2. CASE i = Len(s) + 1
        <5>1. Append(s, b)[i] = b
          BY <3>1, <4>2
        <5> QED
          BY <3>1, <5>1
      <4>3. CASE i # Len(s) + 1
        <5>1. i \in 1..Len(s)
          BY <3>1, <4>1, <4>3
        <5>2. Append(s, b)[i] = s[i]
          BY <3>1, <5>1
        <5> QED
          BY <3>1, <3>2, <5>1, <5>2
      <4> QED
        BY <4>2, <4>3
    <3>4. Len(o.blocks) >= 1
      BY <3>1
    <3> QED
      BY <2>2, <2>4, <3>1, <3>3, <3>4
  <2> QED
    BY <2>3, <2>4
<1>11. \A i, j \in 1..Len(t) : t[i].parent = t[j].parent => i = j
  BY <1>5, <1>6 DEF PoolOK
<1> QED
  BY <1>5, <1>7, <1>9, <1>10, <1>11 DEF PoolOK

(* Another key, with one block.                                            *)
LEMMA KeyAdded ==
  ASSUME NEW pool, NEW bs, PoolOK(pool, bs), NEW b \in 1..Len(bs), bs[b].parent \in 0..Len(bs),
         \A i \in DOMAIN pool : pool[i].parent # bs[b].parent,
         NEW x, x = [parent |-> bs[b].parent, blocks |-> <<b>>]
  PROVE  /\ PoolOK(Append(pool, x), bs) /\ SizeOf(Append(pool, x)) = SizeOf(pool) + 1
         /\ Elems(Append(pool, x)) = Elems(pool) \cup {x}
<1>0. pool \in Seq(Orphans) /\ KeysOnce(pool)
  BY DEF PoolOK, KeysOnce
<1>1. x \in Orphans /\ x.parent = bs[b].parent /\ x.blocks = <<b>> /\ Len(x.blocks) = 1
  <2>1. b \in Nat /\ bs[b].parent \in Nat
    OBVIOUS
  <2> QED
    BY <2>1 DEF Orphans
<1>2. \A o \in Elems(pool) : o.parent # x.parent
  BY <1>1 DEF Elems
<1> DEFINE t == Append(pool, x)
<1>3. t \in Seq(Orphans)
  BY <1>0, <1>1
<1>4. KeysOnce(t)
  BY <1>0, <1>1, <1>2, KeysAppend
<1>5. SizeOf(t) = SizeOf(pool) + Len(x.blocks)
  BY <1>0, <1>1, SizeAppend
<1>6. Elems(t) = Elems(pool) \cup {x}
  BY <1>0, <1>1, ElemsAppend
<1> HIDE DEF t
<1>7. \A i \in 1..Len(x.blocks) : x.blocks[i] \in 1..Len(bs) /\ bs[x.blocks[i]].parent = x.parent
  BY <1>1
<1>8. PoolOK(t, bs)
  <2>1. \A o \in Elems(t) : /\ o.parent \in 0..Len(bs) /\ Len(o.blocks) >= 1
                            /\ \A i \in 1..Len(o.blocks) : /\ o.blocks[i] \in 1..Len(bs)
                                                          /\ bs[o.blocks[i]].parent = o.parent
    <3>1. x.parent \in 0..Len(bs) /\ Len(x.blocks) >= 1
      BY <1>1
    <3> QED
      BY <1>6, <1>7, <3>1 DEF PoolOK
  <2> QED
    BY <1>3, <1>4, <2>1 DEF PoolOK, KeysOnce
<1> QED
  BY <1>1, <1>5, <1>6, <1>8 DEF t

(* A block that has to wait is put into the pool.                          *)
LEMMA PoolAdded ==
  ASSUME Tree(blocks), PoolOK(orphans, blocks), SizeOf(orphans) <= MaxOrphans,
         NEW b \in 1..Len(blocks), AddToOrphanPool(b)
  PROVE  /\ PoolOK(orphans', blocks) /\ SizeOf(orphans') <= MaxOrphans
         /\ \A o \in Elems(orphans') :
              o.parent = Parent(b) \/ \E p \in Elems(orphans) : p.parent = o.parent
<1>0. MaxOrphans \in Nat /\ MaxOrphans >= 4 /\ MaxOrphans \div 4 \in Nat /\ MaxOrphans \div 4 >= 1
  BY ChainAssumption
<1>1. SizeOf(orphans) \in Nat /\ Elems(orphans) \subseteq Elems(orphans)
  BY SizeAtLeast DEF PoolOK
<1>2. PoolOK(Evicted, blocks) /\ SizeOf(Evicted) < MaxOrphans /\ Elems(Evicted) \subseteq Elems(orphans)
  <2>1. CASE SizeOf(orphans) < MaxOrphans
    <3>1. Evicted = orphans
      BY <2>1 DEF Evicted, PoolSize
    <3> QED
      BY <1>0, <1>1, <2>1, <3>1
  <2>2. CASE ~(SizeOf(orphans) < MaxOrphans)
    <3> DEFINE q == MaxOrphans \div 4
    <3>1. Evicted = SubSeq(orphans, q + 1, Len(orphans))
      BY <2>2, Zenon DEF Evicted, PoolSize
    <3> HIDE DEF q
    <3>2. q \in Nat /\ q >= 1
      BY <1>0 DEF q
    <3>3. SizeOf(orphans) >= 1
      BY <1>0, <1>1, <2>2
    <3>4. /\ PoolOK(SubSeq(orphans, q + 1, Len(orphans)), blocks)
          /\ Elems(SubSeq(orphans, q + 1, Len(orphans))) \subseteq Elems(orphans)
          /\ SizeOf(SubSeq(orphans, q + 1, Len(orphans))) < SizeOf(orphans)
      BY <3>2, <3>3, PoolSuffix
    <3>5. /\ PoolOK(Evicted, blocks) /\ Elems(Evicted) \subseteq Elems(orphans)
          /\ SizeOf(Evicted) < SizeOf(orphans)
      BY <3>1, <3>4, Zenon
    <3>6. SizeOf(Evicted) \in Nat
      BY <3>5, SizeAtLeast DEF PoolOK
    <3> QED
      BY <1>0, <1>1, <3>5, <3>6
  <2> QED
    BY <2>1, <2>2
<1> DEFINE pool == Evicted
<1>3. SizeOf(pool) \in Nat /\ pool \in Seq(Orphans)
  BY <1>2, SizeAtLeast DEF PoolOK
<1>4. blocks[b].parent \in 0..Len(blocks) /\ Parent(b) = blocks[b].parent
  BY TreeType DEF Parent
<1>5. CASE \E i \in DOMAIN Evicted : Evicted[i].parent = Parent(b)
  <2>1. PICK k \in DOMAIN pool : pool[k].parent = blocks[b].parent
    BY <1>4, <1>5
  <2>2. k \in 1..Len(pool)
    BY <1>3
  <2>3. Grown(pool, orphans', blocks[b].parent, b)
    BY <1>4, <1>5, Zenon DEF AddToOrphanPool, Grown
  <2> HIDE DEF pool
  <2>4. PoolOK(pool, blocks)
    BY <1>2 DEF pool
  <2>5. /\ PoolOK(orphans', blocks) /\ SizeOf(orphans') = SizeOf(pool) + 1
        /\ \A o \in Elems(orphans') : \E p \in Elems(pool) : p.parent = o.parent
    BY <2>1, <2>2, <2>3, <2>4, KeyGrows
  <2>6. SizeOf(pool) < MaxOrphans /\ Elems(pool) \subseteq Elems(orphans)
    BY <1>2 DEF pool
  <2> QED
    BY <1>0, <1>3, <2>5, <2>6
<1>6. CASE ~\E i \in DOMAIN Evicted : Evicted[i].parent = Parent(b)
  <2> DEFINE x == [parent |-> Parent(b), blocks |-> <<b>>]
  <2>1. orphans' = Append(pool, x)
    BY <1>6 DEF AddToOrphanPool
  <2>2. x = [parent |-> blocks[b].parent, blocks |-> <<b>>] /\ x.parent = Parent(b)
    BY <1>4
  <2>3. \A i \in DOMAIN pool : pool[i].parent # blocks[b].parent
    BY <1>4, <1>6
  <2> HIDE DEF pool, x
  <2>4. PoolOK(pool, blocks) /\ SizeOf(pool) < MaxOrphans /\ Elems(pool) \subseteq Elems(orphans)
    BY <1>2 DEF pool
  <2>5. /\ PoolOK(Append(pool, x), blocks) /\ SizeOf(Append(pool, x)) = SizeOf(pool) + 1
        /\ Elems(Append(pool, x)) = Elems(pool) \cup {x}
    BY <1>4, <2>2, <2>3, <2>4, KeyAdded
  <2>6. /\ PoolOK(orphans', blocks) /\ SizeOf(orphans') = SizeOf(pool) + 1
        /\ Elems(orphans') = Elems(pool) \cup {x}
    BY <2>1, <2>5, Zenon
  <2> QED
    BY <1>0, <1>3, <2>2, <2>4, <2>6
<1> QED
  BY <1>5, <1>6

-----------------------------------------------------------------------------
(* What the next process rebuilds.                                         *)

Stores(d, c) == DOMAIN d = 0..(Len(c) - 1) /\ \A h \in 0..(Len(c) - 1) : d[h] = c[h + 1]
ReadNext(before, d, h) ==
    IF /\ h \in DOMAIN d
       /\ Parent(d[h]) = before[Len(before)]
    THEN Append(before, d[h])
    ELSE before
Rebuilds(u, d) ==
    u = [h \in Ids |-> IF h = 0 THEN <<0>> ELSE ReadNext(u[h - 1], d, h)]

(* Block by block, a store that holds a chain gives its prefixes.          *)
LEMMA ReadNextIs ==
  ASSUME Tree(blocks), NEW c, Linked(c, blocks), NEW d, Stores(d, c), NEW h \in Nat, h >= 1
  PROVE  /\ h <= Len(c) - 1 => ReadNext(SubSeq(c, 1, h), d, h) = SubSeq(c, 1, h + 1)
         /\ h > Len(c) - 1 => ReadNext(c, d, h) = c
<1>0. c \in Seq(Nat) /\ Len(c) \in Nat /\ Len(c) >= 1
  BY DEF Linked
<1>1. ASSUME h <= Len(c) - 1
      PROVE  ReadNext(SubSeq(c, 1, h), d, h) = SubSeq(c, 1, h + 1)
  <2>0. h \in 0..(Len(c) - 1) /\ h \in 1..Len(c) /\ h + 1 \in 1..Len(c) /\ h + 1 \in 2..Len(c)
        /\ (h + 1) - 1 = h /\ 1 \in 1..Len(c)
    BY <1>0, <1>1
  <2> DEFINE p == SubSeq(c, 1, h)
  <2>1. h \in DOMAIN d /\ d[h] = c[h + 1]
    BY <2>0 DEF Stores
  <2>2. Len(p) = h /\ p[h] = c[h]
    BY <2>0, LinkedPrefix
  <2>3. Parent(c[h + 1]) = c[h]
    BY <2>0 DEF Linked, Parent
  <2>4. SubSeq(c, 1, h + 1) = p \o <<c[h + 1]>>
    <3>1. 1 \in 1..Len(c) /\ h + 1 \in 1..Len(c)
      BY <2>0
    <3>2. SubSeq(c, 1, h + 1) = SubSeq(c, 1, (h + 1) - 1) \o <<c[h + 1]>>
      BY <1>0, <3>1, SubSeqRecursiveSecond
    <3> QED
      BY <2>0, <3>2, Zenon
  <2>5. p \o <<c[h + 1]>> = Append(p, c[h + 1])
    <3>1. p \in Seq(Nat)
      BY <1>0, <2>0
    <3> HIDE DEF p
    <3> QED
      BY <3>1
  <2> HIDE DEF p
  <2>6. ReadNext(p, d, h) = Append(p, d[h])
    BY <2>1, <2>2, <2>3, Zenon DEF ReadNext
  <2>7. ReadNext(p, d, h) = SubSeq(c, 1, h + 1)
    BY <2>1, <2>4, <2>5, <2>6, Zenon
  <2> QED
    BY <2>7 DEF p
<1>2. ASSUME h > Len(c) - 1 PROVE ReadNext(c, d, h) = c
  <2>1. h \notin DOMAIN d
    BY <1>0, <1>2 DEF Stores
  <2> QED
    BY <2>1 DEF ReadNext
<1> QED
  BY <1>1, <1>2

(* All of it gives the chain.                                              *)
LEMMA RebuiltIs ==
  ASSUME Tree(blocks), NEW c, Linked(c, blocks), Stores(disk.block, c)
  PROVE  Rebuilt = c
<1>0. c \in Seq(Nat) /\ Len(c) \in Nat /\ Len(c) >= 1 /\ c[1] = 0 /\ Len(blocks) \in Nat
  BY DEF Linked, Tree
<1> DEFINE D == Len(c) - 1
           d == disk.block
           upto(h) == SubSeq(c, 1, (IF h <= D THEN h ELSE D) + 1)
           P == [h \in Ids |-> upto(h)]
<1>1. MaxBlocks \in Nat /\ D \in Nat /\ D <= MaxBlocks
  <2>1. c[Len(c)] \in 0..Len(blocks) /\ HeightIn(c[Len(c)], blocks) = D
    <3>1. Len(c) \in 1..Len(c)
      BY <1>0
    <3> QED
      BY <3>1, LinkedHeights
  <2>2. HeightIn(c[Len(c)], blocks) <= Len(blocks)
    <3>1. CASE c[Len(c)] = 0
      BY <1>0, <3>1 DEF HeightIn
    <3>2. CASE c[Len(c)] # 0
      <4> DEFINE b == c[Len(c)]
      <4>1. b \in 1..Len(blocks)
        BY <1>0, <2>1, <3>2
      <4> HIDE DEF b
      <4>2. blocks[b].height \in 1..b
        BY <4>1, TreeType
      <4>3. HeightIn(b, blocks) = blocks[b].height
        BY <4>1 DEF HeightIn
      <4>4. HeightIn(b, blocks) <= Len(blocks)
        BY <1>0, <4>1, <4>2, <4>3
      <4> QED
        BY <4>4 DEF b
    <3> QED
      BY <3>1, <3>2
  <2>3. Len(blocks) <= MaxBlocks
    BY DEF Tree
  <2> QED
    BY <1>0, <2>1, <2>2, <2>3, ChainAssumption
<1>2. upto(0) = <<0>>
  <2>1. SubSeq(c, 1, 1) = <<c[1]>>
    <3> DEFINE s == SubSeq(c, 1, 1)
    <3>1. s \in Seq(Nat) /\ Len(s) = 1 /\ s[1] = c[1]
      BY <1>0
    <3> HIDE DEF s
    <3>2. s = <<c[1]>>
      BY <3>1
    <3> QED
      BY <3>2 DEF s
  <2>2. (IF 0 <= D THEN 0 ELSE D) + 1 = 1
    BY <1>1
  <2> QED
    BY <1>0, <2>1, <2>2
<1>3. ASSUME NEW h \in Nat, h >= 1 PROVE upto(h) = ReadNext(upto(h - 1), d, h)
  <2>1. CASE h <= D
    <3>1. upto(h) = SubSeq(c, 1, h + 1)
      BY <2>1
    <3>2. upto(h - 1) = SubSeq(c, 1, h)
      <4>1. h - 1 <= D /\ (h - 1) + 1 = h
        BY <1>1, <1>3, <2>1
      <4> QED
        BY <4>1
    <3>3. ReadNext(SubSeq(c, 1, h), d, h) = SubSeq(c, 1, h + 1)
      BY <1>3, <2>1, ReadNextIs
    <3> QED
      BY <3>1, <3>2, <3>3, Zenon
  <2>2. CASE h > D
    <3>1. upto(h) = SubSeq(c, 1, Len(c)) /\ upto(h - 1) = SubSeq(c, 1, Len(c))
      <4>1. (IF h <= D THEN h ELSE D) + 1 = Len(c) /\ (IF h - 1 <= D THEN h - 1 ELSE D) + 1 = Len(c)
        BY <1>0, <1>1, <1>3, <2>2
      <4> QED
        BY <4>1, Zenon
    <3>2. SubSeq(c, 1, Len(c)) = c
      BY <1>0, SubSeqFull
    <3>3. ReadNext(c, d, h) = c
      BY <1>3, <2>2, ReadNextIs
    <3> QED
      BY <3>1, <3>2, <3>3, Zenon
  <2> QED
    BY <1>1, <1>3, <2>1, <2>2
<1> HIDE DEF upto, D, d
<1>4. Ids = 0..MaxBlocks
  BY DEF Ids
<1>5. Rebuilds(P, d)
  <2>1. \A h \in Ids : P[h] = IF h = 0 THEN <<0>> ELSE ReadNext(P[h - 1], d, h)
    <3> SUFFICES ASSUME NEW h \in Ids
                 PROVE  P[h] = IF h = 0 THEN <<0>> ELSE ReadNext(P[h - 1], d, h)
      OBVIOUS
    <3>1. CASE h = 0
      BY <1>2, <3>1
    <3>2. CASE h # 0
      <4>1. h \in Nat /\ h >= 1 /\ h - 1 \in Ids
        BY <1>1, <1>4, <3>2
      <4>2. P[h] = upto(h) /\ P[h - 1] = upto(h - 1)
        BY <4>1
      <4>3. upto(h) = ReadNext(upto(h - 1), d, h)
        BY <1>3, <4>1
      <4> QED
        BY <3>2, <4>2, <4>3, Zenon
    <3> QED
      BY <3>1, <3>2
  <2>2. P = [h \in Ids |-> P[h]]
    OBVIOUS
  <2> HIDE DEF P
  <2> QED
    BY <2>1, <2>2, Zenon DEF Rebuilds
<1> DEFINE k == CHOOSE u : Rebuilds(u, d)
<1>6. Rebuilds(k, d)
  <2> HIDE DEF P
  <2> QED
    BY <1>5, Zenon
<1>7. Rebuilt = k[MaxBlocks]
  BY Zenon DEF Rebuilt, Rebuilds, ReadNext, d
<1> HIDE DEF k
<1>8. k[0] = <<0>> /\ \A h \in Ids : h # 0 => k[h] = ReadNext(k[h - 1], d, h)
  <2>1. \A h \in Ids : k[h] = IF h = 0 THEN <<0>> ELSE ReadNext(k[h - 1], d, h)
    BY <1>6, Zenon DEF Rebuilds
  <2>2. 0 \in Ids
    BY <1>1, <1>4
  <2> QED
    BY <2>1, <2>2, Zenon
<1> DEFINE R == {h \in 0..MaxBlocks : k[h] = upto(h)}
<1>9. 0 \in R
  <2>1. k[0] = upto(0)
    BY <1>2, <1>8, Zenon
  <2> QED
    BY <1>1, <2>1
<1>10. \A h \in 0..(MaxBlocks - 1) : h \in R => h + 1 \in R
  <2> SUFFICES ASSUME NEW h \in 0..(MaxBlocks - 1), h \in R PROVE h + 1 \in R
    OBVIOUS
  <2>1. h + 1 \in Ids /\ h + 1 # 0 /\ (h + 1) - 1 = h /\ h + 1 \in Nat /\ h + 1 >= 1
    BY <1>1, <1>4
  <2>2. k[h + 1] = ReadNext(k[(h + 1) - 1], d, h + 1)
    BY <1>8, <2>1
  <2>3. upto(h + 1) = ReadNext(upto((h + 1) - 1), d, h + 1)
    BY <1>3, <2>1
  <2>4. k[h] = upto(h)
    OBVIOUS
  <2>5. k[h + 1] = upto(h + 1)
    BY <2>1, <2>2, <2>3, <2>4, Zenon
  <2> QED
    BY <1>4, <2>1, <2>5
<1> HIDE DEF R
<1>11. 0..MaxBlocks \subseteq R
  BY <1>1, <1>9, <1>10, BoundedInduction
<1>12. k[MaxBlocks] = upto(MaxBlocks)
  <2>1. MaxBlocks \in R
    BY <1>1, <1>11
  <2> QED
    BY <2>1 DEF R
<1>13. upto(MaxBlocks) = c
  <2>1. (IF MaxBlocks <= D THEN MaxBlocks ELSE D) + 1 = Len(c)
    BY <1>0, <1>1 DEF D
  <2>2. SubSeq(c, 1, Len(c)) = c
    BY <1>0, SubSeqFull
  <2> QED
    BY <2>1, <2>2, Zenon DEF upto
<1> QED
  BY <1>7, <1>12, <1>13, Zenon

-----------------------------------------------------------------------------
(* A chain that goes on with the orphans that follow it.                   *)

(* The elements of two sequences in one.                                   *)
LEMMA ElemsConcat ==
  ASSUME NEW T, NEW s \in Seq(T), NEW t \in Seq(T)
  PROVE  Elems(s \o t) = Elems(s) \cup Elems(t)
<1> DEFINE e == s \o t
<1>1. /\ Len(e) = Len(s) + Len(t) /\ Len(s) \in Nat /\ Len(t) \in Nat /\ DOMAIN e = 1..Len(e)
      /\ \A i \in 1..Len(s) : e[i] = s[i]
      /\ \A i \in 1..Len(t) : e[Len(s) + i] = t[i]
  OBVIOUS
<1>2. DOMAIN s = 1..Len(s) /\ DOMAIN t = 1..Len(t)
  OBVIOUS
<1> HIDE DEF e
<1>3. ASSUME NEW y \in Elems(e) PROVE y \in Elems(s) \cup Elems(t)
  <2>1. PICK i \in 1..Len(e) : y = e[i]
    BY <1>1 DEF Elems
  <2>2. CASE i <= Len(s)
    BY <1>1, <1>2, <2>1, <2>2 DEF Elems
  <2>3. CASE i > Len(s)
    <3>1. i - Len(s) \in 1..Len(t) /\ Len(s) + (i - Len(s)) = i
      BY <1>1, <2>3
    <3>2. y = t[i - Len(s)]
      BY <1>1, <2>1, <3>1
    <3> QED
      BY <1>2, <3>1, <3>2 DEF Elems
  <2> QED
    BY <1>1, <2>2, <2>3
<1>4. ASSUME NEW y \in Elems(s) PROVE y \in Elems(e)
  <2>1. PICK i \in 1..Len(s) : y = s[i]
    BY <1>2, <1>4 DEF Elems
  <2>2. i \in 1..Len(e) /\ e[i] = y
    BY <1>1, <2>1
  <2> QED
    BY <1>1, <2>2 DEF Elems
<1>5. ASSUME NEW y \in Elems(t) PROVE y \in Elems(e)
  <2>1. PICK i \in 1..Len(t) : y = t[i]
    BY <1>2 DEF Elems
  <2>2. Len(s) + i \in 1..Len(e)
    BY <1>1
  <2> QED
    BY <1>1, <2>1, <2>2 DEF Elems
<1> QED
  BY <1>3, <1>4, <1>5 DEF e

(* What follows a chain is none of its blocks, and is higher.              *)
LEMMA PathAhead ==
  ASSUME NEW bs, Tree(bs), NEW c, Linked(c, bs), NEW d, Path(c[Len(c)], d, bs)
  PROVE  /\ Linked(c \o d, bs) /\ Len(c \o d) = Len(c) + Len(d) /\ Len(d) \in Nat
         /\ Elems(c \o d) = Elems(c) \cup Elems(d)
         /\ \A b \in Elems(d) : b \in 1..Len(bs) /\ HeightIn(b, bs) >= Len(c) /\ b \notin Elems(c)
<1>0. c \in Seq(Nat) /\ d \in Seq(Nat) /\ Len(c) \in Nat /\ Len(d) \in Nat
      /\ DOMAIN c = 1..Len(c) /\ DOMAIN d = 1..Len(d)
  BY DEF Linked, Path
<1> DEFINE e == c \o d
<1>1. /\ Len(e) = Len(c) + Len(d)
      /\ \A i \in 1..Len(c) : e[i] = c[i]
      /\ \A i \in 1..Len(d) : e[Len(c) + i] = d[i]
  BY <1>0
<1>2. Linked(e, bs)
  BY LinkedConcat
<1>3. Elems(e) = Elems(c) \cup Elems(d)
  BY <1>0, ElemsConcat
<1> HIDE DEF e
<1>4. ASSUME NEW b \in Elems(d)
      PROVE  b \in 1..Len(bs) /\ HeightIn(b, bs) >= Len(c) /\ b \notin Elems(c)
  <2>1. PICK i \in 1..Len(d) : b = d[i]
    BY <1>0 DEF Elems
  <2>2. b \in 1..Len(bs)
    BY <2>1 DEF Path
  <2>3. Len(c) + i \in 1..Len(e) /\ e[Len(c) + i] = b /\ (Len(c) + i) - 1 >= Len(c)
    BY <1>0, <1>1, <2>1
  <2>4. HeightIn(b, bs) = (Len(c) + i) - 1
    BY <1>2, <2>3, LinkedHeights
  <2>5. ASSUME b \in Elems(c) PROVE FALSE
    <3>1. PICK j \in 1..Len(c) : b = c[j]
      BY <1>0, <2>5 DEF Elems
    <3>2. j \in 1..Len(e) /\ e[j] = b /\ j # Len(c) + i
      BY <1>0, <1>1, <3>1
    <3> QED
      BY <1>2, <2>3, <3>2, LinkedDistinct
  <2> QED
    BY <2>2, <2>3, <2>4, <2>5
<1> QED
  BY <1>0, <1>1, <1>2, <1>3, <1>4 DEF e

(* The last block of two chains in one.                                    *)
LEMMA LastOfConcat ==
  ASSUME NEW c \in Seq(Nat), Len(c) >= 1, NEW d \in Seq(Nat)
  PROVE  (c \o d)[Len(c \o d)] \in Elems(d) \cup {c[Len(c)]}
<1> DEFINE e == c \o d
<1>1. /\ Len(e) = Len(c) + Len(d) /\ Len(c) \in Nat /\ Len(d) \in Nat /\ DOMAIN d = 1..Len(d)
      /\ \A i \in 1..Len(c) : e[i] = c[i]
      /\ \A i \in 1..Len(d) : e[Len(c) + i] = d[i]
  OBVIOUS
<1> HIDE DEF e
<1>2. CASE Len(d) = 0
  BY <1>1, <1>2 DEF e
<1>3. CASE Len(d) # 0
  <2>1. Len(d) \in 1..Len(d) /\ Len(e) = Len(c) + Len(d)
    BY <1>1, <1>3
  <2>2. e[Len(e)] = d[Len(d)]
    BY <1>1, <2>1
  <2>3. d[Len(d)] \in Elems(d)
    BY <1>1, <2>1 DEF Elems
  <2> QED
    BY <2>2, <2>3 DEF e
<1> QED
  BY <1>1, <1>2, <1>3

(* validate_and_apply and _process_orphans.                                *)
Went(c, coins, plain, more) ==
    /\ Path(c[Len(c)], more, blocks) /\ chain' = c \o more /\ Linked(chain', blocks)
    /\ utxo' = coins \cup Elems(more) /\ skipped' = plain \cup Elems(more)
    /\ PoolOK(orphans', blocks) /\ SizeOf(orphans') <= SizeOf(orphans)
    /\ \A o \in Elems(orphans') : o.parent # chain'[Len(chain')]

LEMMA WentOn ==
  ASSUME Tree(blocks), PoolOK(orphans, blocks), NEW c, Linked(c, blocks), NEW coins, NEW plain,
         ApplyWithOrphans(c, coins, plain)
  PROVE  \E more : Went(c, coins, plain, more)
<1>0. c \in Seq(Nat) /\ Len(c) \in Nat /\ Len(c) >= 1 /\ c[Len(c)] \in Ids
  <2>1. c \in Seq(Nat) /\ Len(c) \in Nat /\ Len(c) >= 1 /\ Len(c) \in 1..Len(c)
    BY DEF Linked
  <2>2. c[Len(c)] \in 0..Len(blocks)
    BY <2>1, LinkedHeights
  <2>3. Len(blocks) \in Nat /\ Len(blocks) <= MaxBlocks /\ MaxBlocks \in Nat
    BY ChainAssumption DEF Tree
  <2> QED
    BY <2>1, <2>2, <2>3 DEF Ids
<1> DEFINE last == c[Len(c)]
           more == Followers[last]
           ids == Elems(more)
           stay == {o \in InPool : o.parent \notin ids \cup {last}}
<1>1. Path(last, more, blocks)
  BY <1>0, FollowersPath
<1>2. chain' = c \o more /\ utxo' = coins \cup ids /\ skipped' = plain \cup ids
      /\ orphans' = Kept(orphans, stay)
  BY Zenon DEF ApplyWithOrphans, Elems
<1>3. PoolOK(orphans', blocks) /\ SizeOf(orphans') <= SizeOf(orphans)
      /\ Elems(orphans') = Elems(orphans) \cap stay
  <2> HIDE DEF stay
  <2>1. /\ PoolOK(Kept(orphans, stay), blocks) /\ SizeOf(Kept(orphans, stay)) <= SizeOf(orphans)
        /\ Elems(Kept(orphans, stay)) = Elems(orphans) \cap stay
    BY PoolKept
  <2> QED
    BY <1>2, <2>1, Zenon
<1>4. Linked(chain', blocks)
  <2>1. Linked(c \o more, blocks)
    BY <1>1, LinkedConcat
  <2> QED
    BY <1>2, <2>1, Zenon
<1>5. \A o \in Elems(orphans') : o.parent # chain'[Len(chain')]
  <2>1. more \in Seq(Nat)
    BY <1>1 DEF Path
  <2> HIDE DEF more
  <2>2. (c \o more)[Len(c \o more)] \in ids \cup {last}
    BY <1>0, <2>1, LastOfConcat
  <2>3. chain'[Len(chain')] \in ids \cup {last}
    BY <1>2, <2>2, Zenon
  <2> QED
    BY <1>3, <2>3
<1> QED
  BY <1>1, <1>2, <1>3, <1>4, <1>5, Zenon DEF Went

(* A branch that meets the chain at a height is the chain to there.         *)
LEMMA ResolvedIs ==
  ASSUME Tree(blocks), Linked(chain, blocks), NEW b \in 1..Len(blocks), NEW k \in 1..Height(b),
         k <= Len(chain), chain[k] = Branch[b][k]
  PROVE  SubSeq(chain, 1, k) \o SubSeq(Branch[b], k + 1, Height(b) + 1) = Branch[b]
<1> DEFINE d == Branch[b]
           h == Height(b)
<1>0. h \in Nat /\ b \in 0..Len(blocks)
  <2>1. b \in 0..Len(blocks) /\ b # 0 /\ blocks[b].height \in Nat
    BY TreeType DEF Tree
  <2> QED
    BY <2>1 DEF Height
<1>1. Linked(d, blocks) /\ Len(d) = h + 1 /\ d \in Seq(Nat) /\ chain \in Seq(Nat) /\ Len(chain) \in Nat
  <2>1. Linked(d, blocks) /\ Len(d) = h + 1
    BY <1>0, BranchLinked
  <2>2. chain \in Seq(Nat) /\ Len(chain) \in Nat
    BY DEF Linked
  <2> HIDE DEF d, h
  <2>3. d \in Seq(Nat)
    BY <2>1 DEF Linked
  <2> QED
    BY <2>1, <2>2, <2>3
<1>2. chain[k] = d[k]
  OBVIOUS
<1>3. k \in 1..Len(chain) /\ k \in 1..Len(d) /\ k \in 0..Len(d)
  <2>1. k \in 1..h
    OBVIOUS
  <2> HIDE DEF h, d
  <2> QED
    BY <1>0, <1>1, <2>1
<1> HIDE DEF d, h
<1> DEFINE p == SubSeq(chain, 1, k)
           q == SubSeq(d, 1, k)
<1>4. /\ Linked(p, blocks) /\ Len(p) = k /\ p[k] = chain[k]
      /\ Linked(q, blocks) /\ Len(q) = k /\ q[k] = d[k]
  <2>1. \A c : (Linked(c, blocks) /\ k \in 1..Len(c)) => Linked(SubSeq(c, 1, k), blocks)
    BY LinkedPrefix
  <2>2. Linked(p, blocks) /\ Linked(q, blocks)
    BY <1>1, <1>3, <2>1
  <2>3. Len(p) = k /\ p[k] = chain[k]
    BY <1>1, <1>3
  <2>4. Len(q) = k /\ q[k] = d[k]
    BY <1>1, <1>3
  <2> QED
    BY <2>2, <2>3, <2>4
<1>5. p = q
  <2> HIDE DEF p, q
  <2>1. p[Len(p)] = q[Len(q)]
    BY <1>2, <1>4, Zenon
  <2> QED
    BY <1>4, <2>1, LinkedUnique
<1>6. d = q \o SubSeq(d, k + 1, Len(d))
  BY <1>1, <1>3, SplitAfter
<1>7. p \o SubSeq(d, k + 1, h + 1) = d
  BY <1>1, <1>5, <1>6, Zenon
<1> QED
  BY <1>7 DEF d, h, p

(* A chain is no longer than there are blocks.                             *)
LEMMA LinkedShort ==
  ASSUME NEW bs, Tree(bs), NEW c, Linked(c, bs)
  PROVE  Len(c) - 1 <= Len(bs) /\ Len(c) - 1 <= MaxBlocks /\ Len(c) - 1 \in Nat
<1>0. Len(c) \in Nat /\ Len(c) >= 1 /\ c[1] = 0 /\ Len(bs) \in Nat /\ Len(bs) <= MaxBlocks /\ MaxBlocks \in Nat
  BY ChainAssumption DEF Linked, Tree
<1> DEFINE b == c[Len(c)]
<1>1. b \in 0..Len(bs) /\ HeightIn(b, bs) = Len(c) - 1
  <2>1. Len(c) \in 1..Len(c)
    BY <1>0
  <2> QED
    BY <2>1, LinkedHeights
<1> HIDE DEF b
<1>2. HeightIn(b, bs) <= Len(bs)
  <2>1. CASE b = 0
    BY <1>0, <2>1 DEF HeightIn
  <2>2. CASE b # 0
    <3>1. b \in 1..Len(bs)
      BY <1>0, <1>1, <2>2
    <3>2. bs[b].height \in 1..b
      BY <3>1, TreeType
    <3>3. HeightIn(b, bs) = bs[b].height
      BY <3>1 DEF HeightIn
    <3> QED
      BY <1>0, <3>1, <3>2, <3>3
  <2> QED
    BY <2>1, <2>2
<1> QED
  BY <1>0, <1>1, <1>2

(* What waits goes on waiting when there are more blocks.                  *)
LEMMA PoolGrows ==
  ASSUME NEW pool, NEW bs, bs \in Seq(Blocks), PoolOK(pool, bs), NEW new \in Blocks
  PROVE  PoolOK(pool, Append(bs, new))
<1> DEFINE t == Append(bs, new)
<1>1. Len(t) = Len(bs) + 1 /\ Len(bs) \in Nat /\ \A b \in 1..Len(bs) : t[b] = bs[b]
  OBVIOUS
<1> HIDE DEF t
<1>2. ASSUME NEW o \in Elems(pool)
      PROVE  /\ o.parent \in 0..Len(t) /\ Len(o.blocks) >= 1
             /\ \A i \in 1..Len(o.blocks) : /\ o.blocks[i] \in 1..Len(t)
                                            /\ t[o.blocks[i]].parent = o.parent
  <2>1. /\ o.parent \in 0..Len(bs) /\ Len(o.blocks) >= 1
        /\ \A i \in 1..Len(o.blocks) : /\ o.blocks[i] \in 1..Len(bs)
                                       /\ bs[o.blocks[i]].parent = o.parent
    BY DEF PoolOK
  <2>2. o.parent \in 0..Len(t)
    BY <1>1, <2>1
  <2>3. ASSUME NEW i \in 1..Len(o.blocks)
        PROVE  o.blocks[i] \in 1..Len(t) /\ t[o.blocks[i]].parent = o.parent
    <3>1. o.blocks[i] \in 1..Len(bs) /\ bs[o.blocks[i]].parent = o.parent
      BY <2>1
    <3>2. t[o.blocks[i]] = bs[o.blocks[i]]
      BY <1>1, <3>1
    <3>3. o.blocks[i] \in 1..Len(t)
      BY <1>1, <3>1
    <3> QED
      BY <3>1, <3>2, <3>3, Zenon
  <2> QED
    BY <2>1, <2>2, <2>3
<1>3. pool \in Seq(Orphans) /\ \A i, j \in 1..Len(pool) : pool[i].parent = pool[j].parent => i = j
  BY DEF PoolOK
<1>4. PoolOK(pool, t)
  BY <1>2, <1>3 DEF PoolOK
<1> QED
  BY <1>4 DEF t

-----------------------------------------------------------------------------
(* The chain and what is beside it: the blocks there are, the store, what  *)
(* waits.                                                                  *)

\* What the next process finds: all of the chain, or all but the block being written.
Base == IF puts = 0 THEN SubSeq(chain, 1, Len(chain) - 1) ELSE chain

ModeOK ==
    /\ mode \in {"daemon", "node", "service"} /\ puts \in 0..AllPut
    /\ mode # "node" => orphans = <<>> /\ skipped = {}
    /\ mode # "daemon" => puts = AllPut
Pending ==
    /\ mempool \in Seq(Txs) /\ PoolOK(orphans, blocks)
    /\ skipped \subseteq Elems(chain)
    /\ \A b \in skipped : b \in 1..Len(blocks) /\ ~blocks[b].local
LocalIsLow(c, bs) == \A b \in 1..Len(bs) : bs[b].local => bs[b].height <= Len(c) - 1
Disk(d) == d = [block |-> d.block, height |-> d.height, tip |-> d.tip, total |-> d.total]
StoreOK ==
    /\ Disk(disk) /\ disk.total \in Nat /\ MetadataFollows
    /\ IF mode = "daemon" THEN Stores(disk.block, Base) /\ (puts = 0 => Len(chain) >= 2)
       ELSE Stores(disk.block, <<0>>)
ChainInv ==
    /\ Tree(blocks) /\ Linked(chain, blocks)
    /\ mode = "node" => LocalIsLow(chain, blocks)
    /\ ModeOK /\ Pending /\ StoreOK

(* At the start there is the genesis block.                                *)
LEMMA ChainInit == Init => ChainInv
<1> SUFFICES ASSUME Init PROVE ChainInv
  OBVIOUS
<1>1. blocks = <<>> /\ chain = <<0>> /\ Len(<<0>>) = 1 /\ MaxBlocks \in Nat
  BY ChainAssumption DEF Init
<1>2. Tree(blocks)
  <2>1. <<>> \in Seq(Blocks) /\ Len(<<>>) = 0
    OBVIOUS
  <2> QED
    BY <1>1, <2>1 DEF Tree
<1>3. Linked(chain, blocks)
  <2>1. <<0>> \in Seq(Nat) /\ <<0>>[1] = 0
    OBVIOUS
  <2> QED
    BY <1>1, <2>1 DEF Linked
<1>4. LocalIsLow(chain, blocks)
  BY <1>1 DEF LocalIsLow
<1>5. ModeOK
  BY DEF Init, ModeOK, AllPut
<1>6. Pending
  <2>1. mempool \in Seq(Txs) /\ orphans = <<>> /\ skipped = {}
    BY DEF Init
  <2>2. PoolOK(orphans, blocks)
    BY <2>1 DEF PoolOK, Elems
  <2> QED
    BY <2>1, <2>2 DEF Pending
<1>7. StoreOK
  <2>1. disk = [block |-> [h \in {0} |-> 0], height |-> 0, tip |-> 0, total |-> 1] /\ puts = AllPut
    BY DEF Init
  <2>2. Stores(disk.block, <<0>>)
    BY <2>1 DEF Stores
  <2>3. Base = <<0>>
    BY <1>1, <2>1 DEF Base, AllPut
  <2>4. Disk(disk) /\ disk.total \in Nat /\ puts # 0
    BY <2>1 DEF Disk, AllPut
  <2>5. MetadataFollows
    BY <2>1 DEF MetadataFollows
  <2> QED
    BY <2>2, <2>3, <2>4, <2>5, Zenon DEF StoreOK
<1> QED
  BY <1>2, <1>3, <1>4, <1>5, <1>6, <1>7 DEF ChainInv

(* Nothing of it is about the mempool but its type.                        *)
LEMMA ChainSame ==
  ASSUME ChainInv, UNCHANGED <<mode, blocks, chain, orphans, skipped, disk, puts>>, mempool' \in Seq(Txs)
  PROVE  ChainInv'
<1>1. ModeOK' /\ Base' = Base /\ MetadataFollows' = MetadataFollows
  BY DEF ChainInv, ModeOK, Base, MetadataFollows
<1>2. Pending'
  BY DEF ChainInv, Pending
<1>3. StoreOK'
  <2>1. disk' = disk /\ mode' = mode /\ puts' = puts /\ chain' = chain
    OBVIOUS
  <2>2. StoreOK
    BY DEF ChainInv
  <2> QED
    BY <1>1, <2>1, <2>2, Zenon DEF StoreOK
<1> QED
  BY <1>1, <1>2, <1>3 DEF ChainInv

(* A transaction is inserted into the mempool.                             *)
LEMMA InsertType ==
  ASSUME mempool \in Seq(Txs), NEW tx \in Txs
  PROVE  Insert(tx) \in Seq(Txs) /\ Elems(Insert(tx)) = Elems(mempool) \cup {tx}
<1> DEFINE S == {t \in Txs : FeeRate[t] >= FeeRate[tx]}
           k == Kept(mempool, S)
           l == Kept(mempool, Txs \ S)
<1>1. k \in Seq(Txs) /\ Elems(k) = Elems(mempool) \cap S
  <2> HIDE DEF S
  <2> QED
    BY KeptType, KeptElems
<1>2. l \in Seq(Txs) /\ Elems(l) = Elems(mempool) \cap (Txs \ S)
  <2> HIDE DEF S
  <2> QED
    BY KeptType, KeptElems
<1>3. Elems(mempool) \subseteq Txs
  BY ElemsType
<1>4. Insert(tx) = k \o <<tx>> \o l
  BY Zenon DEF Insert
<1> HIDE DEF k, l
<1>5. k \o <<tx>> = Append(k, tx) /\ Append(k, tx) \in Seq(Txs)
  BY <1>1
<1>6. Elems(Append(k, tx)) = Elems(k) \cup {tx}
  BY <1>1, ElemsAppend
<1>7. Append(k, tx) \o l \in Seq(Txs)
  BY <1>2, <1>5
<1>8. Elems(Append(k, tx) \o l) = Elems(Append(k, tx)) \cup Elems(l)
  <2> DEFINE y == Append(k, tx)
  <2>1. y \in Seq(Txs) /\ l \in Seq(Txs)
    BY <1>2, <1>5
  <2> HIDE DEF y
  <2>2. Elems(y \o l) = Elems(y) \cup Elems(l)
    BY <2>1, ElemsConcat
  <2> QED
    BY <2>2 DEF y
<1>9. Insert(tx) = Append(k, tx) \o l
  BY <1>4, <1>5, Zenon
<1>10. Elems(Insert(tx)) = (Elems(k) \cup {tx}) \cup Elems(l)
  BY <1>6, <1>8, <1>9, Zenon
<1>11. Insert(tx) \in Seq(Txs)
  BY <1>7, <1>9, Zenon
<1> QED
  BY <1>1, <1>2, <1>3, <1>10, <1>11

(* A block is found here or at a peer: the tree grows.                     *)
LEMMA TreeWith ==
  ASSUME ChainInv, Len(blocks) < MaxBlocks, NEW new, blocks' = Append(blocks, new),
         new.parent \in 0..Len(blocks), new.height = HeightIn(new.parent, blocks) + 1,
         new.txs \in SUBSET Txs, new.paid \in SUBSET Txs,
         new.local \in BOOLEAN, new.sound \in BOOLEAN,
         new = [parent |-> new.parent, height |-> new.height, txs |-> new.txs,
                paid |-> new.paid, local |-> new.local, sound |-> new.sound]
  PROVE  /\ Tree(blocks') /\ Linked(chain, blocks') /\ PoolOK(orphans, blocks') /\ new \in Blocks
         /\ Len(blocks') = Len(blocks) + 1 /\ blocks'[Len(blocks) + 1] = new /\ Len(blocks) \in Nat
         /\ \A b \in 1..Len(blocks) : blocks'[b] = blocks[b]
<1>1. Tree(blocks) /\ blocks \in Seq(Blocks) /\ Linked(chain, blocks) /\ PoolOK(orphans, blocks)
  BY DEF ChainInv, Tree, Pending
<1> DEFINE t == Append(blocks, new)
<1>2. Tree(t) /\ new \in Blocks
  BY <1>1, TreeGrows
<1>3. Linked(chain, t)
  BY <1>1, <1>2, LinkedGrows
<1>4. PoolOK(orphans, t)
  BY <1>1, <1>2, PoolGrows
<1>5. Len(t) = Len(blocks) + 1 /\ t[Len(blocks) + 1] = new /\ Len(blocks) \in Nat
      /\ \A b \in 1..Len(blocks) : t[b] = blocks[b]
  BY <1>1
<1>6. blocks' = t
  OBVIOUS
<1> HIDE DEF t
<1> QED
  BY <1>2, <1>3, <1>4, <1>5, <1>6

(* What the node's own block is.                                           *)
Mined(new) ==
    /\ new = Template /\ new.parent = chain[Len(chain)] /\ new.height = Len(chain) /\ new.txs = Verified
    /\ new.local = TRUE /\ new.parent \in 0..Len(blocks)
    /\ blocks' = Append(blocks, new) /\ Len(blocks') = Len(blocks) + 1 /\ Len(blocks) \in Nat
    /\ blocks'[Len(blocks) + 1] = new /\ \A b \in 1..Len(blocks) : blocks'[b] = blocks[b]
    /\ new \in Blocks /\ Tree(blocks') /\ Linked(chain, blocks') /\ PoolOK(orphans, blocks')
    /\ chain' = Append(chain, Len(blocks) + 1) /\ Linked(chain', blocks')
    /\ Len(chain') = Len(chain) + 1 /\ Elems(chain') = Elems(chain) \cup {Len(blocks) + 1}

LEMMA MineBlockIs ==
  ASSUME ChainInv, MineBlock
  PROVE  \E new : Mined(new)
<1>0. /\ Tree(blocks) /\ Linked(chain, blocks) /\ chain \in Seq(Nat) /\ Len(chain) \in Nat /\ Len(chain) >= 1
      /\ mempool \in Seq(Txs) /\ Len(blocks) \in Nat
  BY DEF ChainInv, Linked, Pending, Tree
<1>1. Verified \in SUBSET Txs
  BY <1>0, VerifiedSpends
<1>2. {Selected[i] : i \in DOMAIN Selected} \in SUBSET Txs
  <2>1. Selected \in Seq(Txs)
    BY <1>0, VerifiesExists
  <2> QED
    BY <2>1
<1>3. chain[Len(chain)] \in 0..Len(blocks) /\ HeightIn(chain[Len(chain)], blocks) = Len(chain) - 1
  <2>1. Len(chain) \in 1..Len(chain)
    BY <1>0
  <2> QED
    BY <1>0, <2>1, LinkedHeights
<1> DEFINE paid == {Selected[i] : i \in DOMAIN Selected}
           tip == chain[Len(chain)]
           new == [parent |-> tip, height |-> TipHeight + 1, txs |-> Verified,
                   paid |-> paid, local |-> TRUE, sound |-> TRUE]
<1>4. new = Template
  BY Zenon DEF Template, Tip
<1>5. /\ blocks' = Append(blocks, Template) /\ Len(blocks) < MaxBlocks
      /\ chain' = Append(chain, Len(blocks) + 1)
  BY DEF MineBlock
<1>6. TipHeight + 1 = Len(chain) /\ TipHeight + 1 = HeightIn(tip, blocks) + 1
  BY <1>0, <1>3 DEF TipHeight
<1> HIDE DEF paid, tip
<1>7. /\ new.parent = tip /\ new.height = TipHeight + 1 /\ new.txs = Verified /\ new.paid = paid
      /\ new.local = TRUE /\ new.sound = TRUE
      /\ new = [parent |-> new.parent, height |-> new.height, txs |-> new.txs,
                paid |-> new.paid, local |-> new.local, sound |-> new.sound]
  OBVIOUS
<1> HIDE DEF new
<1>8. tip \in 0..Len(blocks) /\ paid \in SUBSET Txs /\ blocks' = Append(blocks, new)
  BY <1>2, <1>3, <1>4, <1>5 DEF tip, paid
<1>9. /\ new.parent \in 0..Len(blocks) /\ new.height = HeightIn(new.parent, blocks) + 1
      /\ new.txs \in SUBSET Txs /\ new.paid \in SUBSET Txs /\ new.local \in BOOLEAN /\ new.sound \in BOOLEAN
  BY <1>1, <1>6, <1>7, <1>8
<1>10. /\ Tree(blocks') /\ Linked(chain, blocks') /\ PoolOK(orphans, blocks') /\ new \in Blocks
       /\ Len(blocks') = Len(blocks) + 1 /\ blocks'[Len(blocks) + 1] = new /\ Len(blocks) \in Nat
       /\ \A b \in 1..Len(blocks) : blocks'[b] = blocks[b]
  BY <1>5, <1>7, <1>8, <1>9, TreeWith
<1> DEFINE n == Len(blocks) + 1
<1>11. n \in Nat /\ n \in 1..Len(blocks') /\ blocks'[n].parent = chain[Len(chain)] /\ Len(blocks') \in Nat
  BY <1>0, <1>7, <1>10 DEF tip
<1>12. chain' = Append(chain, n)
  BY <1>5
<1> HIDE DEF n
<1>13. Linked(Append(chain, n), blocks')
  BY <1>10, <1>11, LinkedAppend
<1>14. Len(Append(chain, n)) = Len(chain) + 1 /\ Elems(Append(chain, n)) = Elems(chain) \cup {n}
  BY <1>0, <1>11, ElemsAppend
<1>15. Linked(chain', blocks') /\ Len(chain') = Len(chain) + 1 /\ Elems(chain') = Elems(chain) \cup {n}
  BY <1>12, <1>13, <1>14, Zenon
<1>16. new.parent = chain[Len(chain)] /\ new.height = Len(chain)
  BY <1>6, <1>7 DEF tip
<1>17. Mined(new)
  BY <1>4, <1>7, <1>8, <1>9, <1>10, <1>12, <1>15, <1>16, Zenon DEF Mined, n
<1> QED
  BY <1>17

(* The invariant after a block is mined.                                   *)
LEMMA ChainMined ==
  ASSUME ChainInv, MineBlock
  PROVE  ChainInv'
<1>1. PICK new : Mined(new)
  BY MineBlockIs
<1>2. Tree(blocks') /\ Linked(chain', blocks') /\ PoolOK(orphans, blocks')
  BY <1>1 DEF Mined
<1>3. /\ UNCHANGED <<mode, orphans, skipped, disk>> /\ puts' = (IF mode = "daemon" THEN 0 ELSE AllPut)
      /\ puts = AllPut
  BY DEF MineBlock
<1>4. ModeOK'
  BY <1>3 DEF ChainInv, ModeOK, AllPut
<1>5. Pending'
  <2>1. mempool' \in Seq(Txs)
    <3>1. mempool \in Seq(Txs)
      BY DEF ChainInv, Pending
    <3>2. Kept(mempool, Txs \ Template.txs) \in Seq(Txs)
      BY <3>1, KeptType
    <3> QED
      BY <3>2 DEF MineBlock
  <2>2. PoolOK(orphans', blocks')
    BY <1>2, <1>3
  <2>3. skipped' \subseteq Elems(chain')
    BY <1>1, <1>3 DEF ChainInv, Pending, Mined
  <2>4. \A b \in skipped' : b \in 1..Len(blocks') /\ ~blocks'[b].local
    <3> SUFFICES ASSUME NEW b \in skipped PROVE b \in 1..Len(blocks') /\ ~blocks'[b].local
      BY <1>3
    <3>1. b \in 1..Len(blocks) /\ ~blocks[b].local
      BY DEF ChainInv, Pending
    <3>2. blocks'[b] = blocks[b] /\ Len(blocks') = Len(blocks) + 1 /\ Len(blocks) \in Nat
      BY <1>1, <3>1 DEF Mined
    <3> QED
      BY <3>1, <3>2
  <2> QED
    BY <2>1, <2>2, <2>3, <2>4 DEF Pending
<1>6. mode = "node" => LocalIsLow(chain', blocks')
  <2> SUFFICES ASSUME mode = "node", NEW b \in 1..Len(blocks'), blocks'[b].local
               PROVE  blocks'[b].height <= Len(chain') - 1
    BY DEF LocalIsLow
  <2>0. Len(chain) \in Nat /\ Tree(blocks)
    BY DEF ChainInv, Linked
  <2>1. Len(blocks') = Len(blocks) + 1 /\ Len(blocks) \in Nat /\ Len(chain') = Len(chain) + 1
    BY <1>1 DEF Mined
  <2>2. CASE b = Len(blocks) + 1
    <3>1. blocks'[b].height = Len(chain)
      BY <1>1, <2>2 DEF Mined
    <3> QED
      BY <2>0, <2>1, <3>1
  <2>3. CASE b # Len(blocks) + 1
    <3>1. b \in 1..Len(blocks)
      BY <2>1, <2>3
    <3>2. blocks'[b] = blocks[b]
      BY <1>1, <3>1 DEF Mined
    <3>3. blocks[b].height <= Len(chain) - 1
      BY <3>1, <3>2 DEF ChainInv, LocalIsLow
    <3>4. blocks[b].height \in Nat
      BY <2>0, <3>1, TreeType
    <3> QED
      BY <2>0, <2>1, <3>2, <3>3, <3>4
  <2> QED
    BY <2>2, <2>3
<1>7. StoreOK'
  <2>1. Disk(disk') /\ disk'.total \in Nat /\ MetadataFollows'
    BY <1>3 DEF ChainInv, StoreOK, MetadataFollows
  <2>2. CASE mode = "daemon"
    <3>1. puts' = 0 /\ puts # 0 /\ Stores(disk.block, Base) /\ mode' = "daemon" /\ disk' = disk
      BY <1>3, <2>2 DEF ChainInv, StoreOK, AllPut
    <3>2. Base = chain
      BY <3>1 DEF Base
    <3>3. Base' = chain
      <4>1. chain \in Seq(Nat) /\ Len(chain) \in Nat
        BY DEF ChainInv, Linked
      <4>2. chain' = Append(chain, Len(blocks) + 1) /\ Len(chain') = Len(chain) + 1
            /\ Len(blocks) + 1 \in Nat
        BY <1>1 DEF Mined
      <4>3. SubSeq(Append(chain, Len(blocks) + 1), 1, Len(chain)) = chain
        <5> DEFINE n == Len(blocks) + 1
        <5>1. n \in Nat
          BY <4>2
        <5> HIDE DEF n
        <5>2. SubSeq(Append(chain, n), 1, Len(chain)) = chain
          BY <4>1, <5>1
        <5> QED
          BY <5>2 DEF n
      <4>4. Len(chain') - 1 = Len(chain)
        BY <4>1, <4>2
      <4>5. Base' = SubSeq(chain', 1, Len(chain') - 1)
        BY <3>1 DEF Base
      <4> QED
        BY <4>2, <4>3, <4>4, <4>5, Zenon
    <3>4. Len(chain') >= 2
      <4>1. Len(chain) >= 1 /\ Len(chain) \in Nat /\ Len(chain') = Len(chain) + 1
        BY <1>1 DEF Mined, ChainInv, Linked
      <4> QED
        BY <4>1
    <3>5. Stores(disk'.block, Base')
      BY <3>1, <3>2, <3>3, Zenon
    <3> QED
      BY <2>1, <3>1, <3>4, <3>5, Zenon DEF StoreOK
  <2>3. CASE mode # "daemon"
    BY <1>3, <2>1, <2>3 DEF ChainInv, StoreOK
  <2> QED
    BY <2>2, <2>3
<1> QED
  BY <1>2, <1>3, <1>4, <1>5, <1>6, <1>7 DEF ChainInv

(* The four writes of _persist_block.                                      *)
LEMMA ChainPersisted ==
  ASSUME ChainInv, PersistBlock
  PROVE  ChainInv'
<1>0. /\ UNCHANGED <<mode, blocks, chain, mempool, orphans, skipped>> /\ puts' = puts + 1
      /\ disk' = Written /\ puts < AllPut
  BY DEF PersistBlock
<1>1. mode = "daemon" /\ puts \in 0..3 /\ AllPut = 4
  BY <1>0 DEF ChainInv, ModeOK, AllPut
<1>2. /\ Stores(disk.block, Base) /\ (puts = 0 => Len(chain) >= 2)
      /\ Disk(disk) /\ disk.total \in Nat /\ MetadataFollows
  BY <1>1 DEF ChainInv, StoreOK
<1>3. chain \in Seq(Nat) /\ Len(chain) \in Nat /\ Len(chain) >= 1
  BY DEF ChainInv, Linked
<1>4. ModeOK' /\ Pending'
  BY <1>0, <1>1 DEF ChainInv, ModeOK, Pending
<1>5. Base' = chain
  BY <1>0, <1>1 DEF Base
<1> DEFINE B == disk.block
           H == disk.height
           T == disk.tip
           N == disk.total
           top == TipHeight
<1>6. disk = [block |-> B, height |-> H, tip |-> T, total |-> N]
  BY <1>2 DEF Disk
<1>7. top = Len(chain) - 1 /\ Tip = chain[Len(chain)] /\ top \in Nat
  BY <1>3 DEF TipHeight, Tip
<1>8. H \in DOMAIN B /\ T \in {B[h] : h \in DOMAIN B} /\ Stores(B, Base) /\ N \in Nat
  BY <1>2 DEF MetadataFollows
<1>9. CASE puts = 0
  <2> DEFINE C == [h \in DOMAIN B \cup {top} |-> IF h = top THEN Tip ELSE B[h]]
  <2>1. disk' = [disk EXCEPT !.block = C]
    BY <1>0, <1>9 DEF Written
  <2>2. Base = SubSeq(chain, 1, Len(chain) - 1) /\ Len(chain) >= 2
    BY <1>2, <1>9 DEF Base
  <2>3. Len(Base) = Len(chain) - 1 /\ \A i \in 1..(Len(chain) - 1) : Base[i] = chain[i]
    BY <1>3, <2>2
  <2>4. DOMAIN B = 0..(top - 1) /\ \A h \in 0..(top - 1) : B[h] = chain[h + 1]
    BY <1>3, <1>7, <1>8, <2>3 DEF Stores
  <2> HIDE DEF B, H, T, N, top
  <2>5. /\ DOMAIN C = 0..top /\ \A h \in 0..top : C[h] = chain[h + 1]
        /\ \A h \in DOMAIN B : h \in DOMAIN C /\ C[h] = B[h]
    <3>1. DOMAIN C = 0..top
      BY <1>7, <2>4
    <3>2. ASSUME NEW h \in 0..top PROVE C[h] = chain[h + 1]
      <4>1. CASE h = top
        BY <1>3, <1>7, <4>1
      <4>2. CASE h # top
        <5>1. h \in 0..(top - 1)
          BY <1>7, <4>2
        <5> QED
          BY <2>4, <4>2, <5>1
      <4> QED
        BY <4>1, <4>2
    <3>3. ASSUME NEW h \in DOMAIN B PROVE h \in DOMAIN C /\ C[h] = B[h]
      <4>1. h # top
        BY <1>7, <2>4
      <4> QED
        BY <4>1
    <3> QED
      BY <3>1, <3>2, <3>3
  <2> HIDE DEF C
  <2>6. disk' = [block |-> C, height |-> H, tip |-> T, total |-> N]
    BY <1>6, <2>1
  <2>7. /\ disk'.block = C /\ disk'.height = H /\ disk'.tip = T /\ disk'.total = N
        /\ Disk(disk')
    BY <2>6 DEF Disk
  <2>8. MetadataFollows'
    <3>1. H \in DOMAIN C
      BY <1>8, <2>5
    <3>2. PICK h \in DOMAIN B : T = B[h]
      BY <1>8
    <3>3. T \in {C[g] : g \in DOMAIN C}
      BY <2>5, <3>2
    <3> QED
      BY <2>7, <3>1, <3>3 DEF MetadataFollows
  <2>9. Stores(disk'.block, Base')
    BY <1>5, <1>7, <2>5, <2>7 DEF Stores
  <2>10. StoreOK'
    BY <1>0, <1>1, <1>8, <1>9, <2>7, <2>8, <2>9 DEF StoreOK
  <2> QED
    BY <1>0, <1>1, <1>4, <2>10 DEF ChainInv
<1>10. CASE puts # 0
  <2>1. Base = chain
    BY <1>10 DEF Base
  <2>2. DOMAIN B = 0..top /\ \A h \in 0..top : B[h] = chain[h + 1]
    BY <1>7, <1>8, <2>1 DEF Stores
  <2>3. top \in DOMAIN B /\ Tip \in {B[h] : h \in DOMAIN B} /\ Len(chain) \in Nat
    <3>1. top \in 0..top /\ top + 1 = Len(chain)
      BY <1>3, <1>7
    <3> QED
      BY <1>3, <1>7, <2>2, <3>1
  <2>4. \E X, Y, Z : /\ disk' = [block |-> B, height |-> X, tip |-> Y, total |-> Z]
                     /\ X \in DOMAIN B /\ Y \in {B[h] : h \in DOMAIN B} /\ Z \in Nat
    <3> HIDE DEF B, H, T, N, top
    <3>1. CASE puts = 1
      <4>1. disk' = [disk EXCEPT !.height = top]
        BY <1>0, <3>1 DEF Written, top
      <4>2. disk' = [block |-> B, height |-> top, tip |-> T, total |-> N]
        BY <1>6, <4>1
      <4> QED
        BY <1>8, <2>3, <4>2
    <3>2. CASE puts = 2
      <4>1. disk' = [disk EXCEPT !.tip = Tip]
        BY <1>0, <3>2 DEF Written
      <4>2. disk' = [block |-> B, height |-> H, tip |-> Tip, total |-> N]
        BY <1>6, <4>1
      <4> QED
        BY <1>8, <2>3, <4>2
    <3>3. CASE puts = 3
      <4>1. disk' = [disk EXCEPT !.total = Len(chain)]
        BY <1>0, <3>3 DEF Written
      <4>2. disk' = [block |-> B, height |-> H, tip |-> T, total |-> Len(chain)]
        BY <1>6, <4>1
      <4> QED
        BY <1>8, <2>3, <4>2
    <3> QED
      BY <1>1, <1>10, <3>1, <3>2, <3>3
  <2>5. PICK X, Y, Z : /\ disk' = [block |-> B, height |-> X, tip |-> Y, total |-> Z]
                       /\ X \in DOMAIN B /\ Y \in {B[h] : h \in DOMAIN B} /\ Z \in Nat
    BY <2>4
  <2> HIDE DEF B, H, T, N, top
  <2>6. /\ disk'.block = B /\ disk'.height = X /\ disk'.tip = Y /\ disk'.total = Z
        /\ Disk(disk')
    BY <2>5 DEF Disk
  <2>7. MetadataFollows'
    BY <2>5, <2>6 DEF MetadataFollows
  <2>8. Stores(disk'.block, Base')
    BY <1>5, <1>8, <2>1, <2>6
  <2>9. puts' # 0
    BY <1>0, <1>1
  <2>10. StoreOK'
    BY <1>0, <1>1, <2>5, <2>6, <2>7, <2>8, <2>9 DEF StoreOK
  <2> QED
    BY <1>0, <1>1, <1>4, <2>10 DEF ChainInv
<1> QED
  BY <1>9, <1>10

(* What a daemon that starts again finds.                                  *)
LEMMA BaseIs ==
  ASSUME ChainInv, mode = "daemon"
  PROVE  /\ Linked(Base, blocks) /\ Stores(disk.block, Base) /\ Rebuilt = Base
         /\ Elems(Base) \subseteq Elems(chain)
<1>0. chain \in Seq(Nat) /\ Len(chain) \in Nat /\ Len(chain) >= 1 /\ Linked(chain, blocks) /\ Tree(blocks)
  BY DEF ChainInv, Linked
<1>1. Stores(disk.block, Base) /\ (puts = 0 => Len(chain) >= 2)
  BY DEF ChainInv, StoreOK
<1>2. Linked(Base, blocks) /\ Elems(Base) \subseteq Elems(chain)
  <2>1. CASE puts = 0
    <3>1. Len(chain) - 1 \in 1..Len(chain)
      BY <1>0, <1>1, <2>1
    <3> DEFINE p == SubSeq(chain, 1, Len(chain) - 1)
    <3>2. Linked(p, blocks) /\ Len(p) = Len(chain) - 1 /\ \A i \in 1..(Len(chain) - 1) : p[i] = chain[i]
      BY <1>0, <3>1, LinkedPrefix
    <3>3. p = Base
      BY <2>1 DEF Base
    <3> HIDE DEF p
    <3>4. DOMAIN p = 1..(Len(chain) - 1) /\ DOMAIN chain = 1..Len(chain)
      BY <1>0, <3>2 DEF Linked
    <3>5. ASSUME NEW y \in Elems(p) PROVE y \in Elems(chain)
      <4>1. PICK i \in 1..(Len(chain) - 1) : y = p[i]
        BY <3>4, <3>5 DEF Elems
      <4>2. i \in DOMAIN chain /\ y = chain[i]
        BY <1>0, <3>2, <3>4, <4>1
      <4> QED
        BY <4>2 DEF Elems
    <3> QED
      BY <3>2, <3>3, <3>5
  <2>2. CASE puts # 0
    BY <1>0, <2>2 DEF Base
  <2> QED
    BY <2>1, <2>2
<1>3. Rebuilt = Base
  BY <1>0, <1>1, <1>2, RebuiltIs
<1> QED
  BY <1>1, <1>2, <1>3

(* The invariant after a restart.                                          *)
LEMMA ChainRestarted ==
  ASSUME ChainInv, Restart
  PROVE  ChainInv'
<1>0. /\ mode = "daemon" /\ UNCHANGED <<mode, blocks, orphans, skipped>> /\ puts' = AllPut /\ mempool' = <<>>
      /\ disk' = [disk EXCEPT !.height = 0, !.tip = 0, !.total = 1] /\ chain' = Rebuilt
  BY DEF Restart
<1>1. /\ Linked(Base, blocks) /\ Stores(disk.block, Base) /\ chain' = Base
      /\ orphans = <<>> /\ skipped = {}
  BY <1>0, BaseIs DEF ChainInv, ModeOK
<1>2. /\ Tree(blocks') /\ Linked(chain', blocks') /\ Len(chain') \in Nat /\ Len(chain') >= 1
      /\ chain'[1] = 0 /\ Disk(disk)
  BY <1>0, <1>1 DEF ChainInv, StoreOK, Linked
<1>3. ModeOK'
  BY <1>0 DEF ChainInv, ModeOK, AllPut
<1>4. Pending'
  <2>1. mempool' \in Seq(Txs)
    BY <1>0
  <2>2. PoolOK(orphans', blocks') /\ skipped' = {}
    BY <1>0, <1>1 DEF ChainInv, Pending
  <2> QED
    BY <2>1, <2>2 DEF Pending
<1>5. StoreOK'
  <2> DEFINE B == disk.block
  <2>1. disk = [block |-> B, height |-> disk.height, tip |-> disk.tip, total |-> disk.total]
    BY <1>2 DEF Disk
  <2>2. disk' = [block |-> B, height |-> 0, tip |-> 0, total |-> 1]
    BY <1>0, <2>1
  <2>3. Stores(B, chain')
    BY <1>1
  <2> HIDE DEF B
  <2>4. /\ disk'.block = B /\ disk'.height = 0 /\ disk'.tip = 0 /\ disk'.total = 1 /\ Disk(disk')
    BY <2>2 DEF Disk
  <2>5. 0 \in DOMAIN B /\ B[0] = 0
    <3>1. 0 \in 0..(Len(chain') - 1)
      BY <1>2
    <3> QED
      BY <1>2, <2>3, <3>1 DEF Stores
  <2>6. MetadataFollows'
    BY <2>4, <2>5 DEF MetadataFollows
  <2>7. Base' = chain' /\ puts' # 0
    BY <1>0 DEF Base, AllPut
  <2> QED
    BY <1>0, <2>3, <2>4, <2>6, <2>7 DEF StoreOK
<1>6. mode' = "daemon"
  BY <1>0
<1> QED
  BY <1>2, <1>3, <1>4, <1>5, <1>6 DEF ChainInv

(* What a peer's block is.                                                 *)
FromPeer(new) ==
    /\ new.parent \in 0..Len(blocks) /\ new.local = FALSE /\ new.txs \subseteq WellFormed
    /\ {Spends[t] : t \in new.txs} \subseteq Replay(Branch[new.parent], {})
    /\ \A t, u \in new.txs : Spends[t] = Spends[u] => t = u
    /\ blocks' = Append(blocks, new) /\ Len(blocks') = Len(blocks) + 1 /\ Len(blocks) \in Nat
    /\ blocks'[Len(blocks) + 1] = new /\ \A b \in 1..Len(blocks) : blocks'[b] = blocks[b]
    /\ new \in Blocks /\ Tree(blocks') /\ Linked(chain, blocks') /\ PoolOK(orphans, blocks')

LEMMA PeerMinesIs ==
  ASSUME ChainInv, NEW parent \in 0..Len(blocks), NEW sound \in BOOLEAN, PeerMines(parent, sound)
  PROVE  \E new : FromPeer(new)
<1>1. PICK txs \in SUBSET WellFormed :
        /\ {Spends[t] : t \in txs} \subseteq Replay(Branch[parent], {})
        /\ \A t, u \in txs : Spends[t] = Spends[u] => t = u
        /\ blocks' = Append(blocks, [parent |-> parent, height |-> Height(parent) + 1, txs |-> txs,
                                     paid |-> txs, local |-> FALSE, sound |-> sound])
  BY DEF PeerMines
<1>2. Len(blocks) < MaxBlocks
  BY DEF PeerMines
<1>3. Height(parent) = HeightIn(parent, blocks)
  BY DEF Height, HeightIn
<1> DEFINE new == [parent |-> parent, height |-> Height(parent) + 1, txs |-> txs,
                   paid |-> txs, local |-> FALSE, sound |-> sound]
<1>4. /\ new.parent = parent /\ new.height = Height(parent) + 1 /\ new.txs = txs /\ new.paid = txs
      /\ new.local = FALSE /\ new.sound = sound
      /\ new = [parent |-> new.parent, height |-> new.height, txs |-> new.txs,
                paid |-> new.paid, local |-> new.local, sound |-> new.sound]
  OBVIOUS
<1>5. blocks' = Append(blocks, new)
  BY <1>1
<1> HIDE DEF new
<1>6. txs \in SUBSET Txs
  BY ChainAssumption
<1>7. /\ new.parent \in 0..Len(blocks) /\ new.height = HeightIn(new.parent, blocks) + 1
      /\ new.txs \in SUBSET Txs /\ new.paid \in SUBSET Txs /\ new.local \in BOOLEAN /\ new.sound \in BOOLEAN
  BY <1>3, <1>4, <1>6
<1>8. /\ Tree(blocks') /\ Linked(chain, blocks') /\ PoolOK(orphans, blocks') /\ new \in Blocks
      /\ Len(blocks') = Len(blocks) + 1 /\ blocks'[Len(blocks) + 1] = new /\ Len(blocks) \in Nat
      /\ \A b \in 1..Len(blocks) : blocks'[b] = blocks[b]
  BY <1>2, <1>4, <1>5, <1>7, TreeWith
<1>9. FromPeer(new)
  BY <1>1, <1>4, <1>5, <1>7, <1>8 DEF FromPeer
<1> QED
  BY <1>9

(* The invariant after a peer found a block.                               *)
LEMMA ChainWithPeers ==
  ASSUME ChainInv, NEW parent \in 0..Len(blocks), NEW sound \in BOOLEAN, PeerMines(parent, sound)
  PROVE  ChainInv'
<1>0. UNCHANGED <<mode, chain, utxo, mempool, orphans, skipped, disk, puts>>
  BY DEF PeerMines
<1>1. PICK new : FromPeer(new)
  BY PeerMinesIs
<1>2. /\ Tree(blocks') /\ Linked(chain, blocks') /\ PoolOK(orphans, blocks') /\ Len(blocks) \in Nat
      /\ Len(blocks') = Len(blocks) + 1 /\ blocks'[Len(blocks) + 1] = new /\ new.local = FALSE
      /\ \A b \in 1..Len(blocks) : blocks'[b] = blocks[b]
  BY <1>1 DEF FromPeer
<1>3. ModeOK' /\ Base' = Base /\ MetadataFollows' = MetadataFollows
  BY <1>0 DEF ChainInv, ModeOK, Base, MetadataFollows
<1>4. StoreOK'
  <2>1. StoreOK
    BY DEF ChainInv
  <2> QED
    BY <1>0, <1>3, <2>1, Zenon DEF StoreOK
<1>5. Pending'
  <2>1. \A b \in skipped : b \in 1..Len(blocks') /\ ~blocks'[b].local
    <3> SUFFICES ASSUME NEW b \in skipped PROVE b \in 1..Len(blocks') /\ ~blocks'[b].local
      OBVIOUS
    <3>1. b \in 1..Len(blocks) /\ ~blocks[b].local
      BY DEF ChainInv, Pending
    <3> QED
      BY <1>2, <3>1
  <2> QED
    BY <1>0, <1>2, <2>1 DEF ChainInv, Pending
<1>6. mode = "node" => LocalIsLow(chain, blocks')
  <2> SUFFICES ASSUME mode = "node", NEW b \in 1..Len(blocks'), blocks'[b].local
               PROVE  blocks'[b].height <= Len(chain) - 1
    BY DEF LocalIsLow
  <2>1. b # Len(blocks) + 1
    BY <1>2
  <2>2. b \in 1..Len(blocks)
    BY <1>2, <2>1
  <2> QED
    BY <1>2, <2>2 DEF ChainInv, LocalIsLow
<1> QED
  BY <1>0, <1>2, <1>3, <1>4, <1>5, <1>6 DEF ChainInv

(* The chain of a node becomes c, no shorter than it was, of blocks of this *)
(* chain and of higher ones, and goes on with orphans.                      *)
LEMMA ChainWent ==
  ASSUME ChainInv, mode = "node", UNCHANGED <<mode, blocks, mempool, disk, puts>>,
         NEW c, Linked(c, blocks), Len(c) > Len(chain), NEW coins, NEW plain, NEW more,
         Went(c, coins, plain, more),
         plain \subseteq Elems(c), \A b \in plain : b \in 1..Len(blocks) /\ ~blocks[b].local
  PROVE  ChainInv' /\ Len(chain') >= Len(c)
<1>0. /\ Tree(blocks) /\ Len(chain) \in Nat /\ Len(c) \in Nat /\ c \in Seq(Nat)
      /\ LocalIsLow(chain, blocks)
  BY DEF ChainInv, Linked
<1>1. /\ Path(c[Len(c)], more, blocks) /\ chain' = c \o more /\ Linked(chain', blocks)
      /\ skipped' = plain \cup Elems(more) /\ PoolOK(orphans', blocks)
  BY DEF Went
<1>2. /\ Len(c \o more) = Len(c) + Len(more) /\ Len(more) \in Nat
      /\ Elems(c \o more) = Elems(c) \cup Elems(more)
      /\ \A b \in Elems(more) : b \in 1..Len(blocks) /\ HeightIn(b, blocks) >= Len(c) /\ b \notin Elems(c)
  BY <1>0, <1>1, PathAhead
<1>3. Len(chain') = Len(c) + Len(more) /\ Elems(chain') = Elems(c) \cup Elems(more)
  BY <1>1, <1>2
<1>4. ASSUME NEW b \in Elems(more) PROVE b \in 1..Len(blocks) /\ ~blocks[b].local
  <2>1. b \in 1..Len(blocks) /\ HeightIn(b, blocks) >= Len(c)
    BY <1>2, <1>4
  <2>2. HeightIn(b, blocks) = blocks[b].height /\ blocks[b].height \in Nat
    BY <1>0, <2>1, TreeType DEF HeightIn
  <2> QED
    BY <1>0, <2>1, <2>2 DEF LocalIsLow
<1>5. ModeOK'
  BY DEF ChainInv, ModeOK
<1>6. Pending'
  BY <1>1, <1>3, <1>4 DEF ChainInv, Pending
<1>7. LocalIsLow(chain', blocks')
  <2> SUFFICES ASSUME NEW b \in 1..Len(blocks), blocks[b].local
               PROVE  blocks[b].height <= Len(chain') - 1
    BY DEF LocalIsLow
  <2>1. blocks[b].height <= Len(chain) - 1 /\ blocks[b].height \in Nat
    BY <1>0, TreeType DEF LocalIsLow
  <2> QED
    BY <1>0, <1>2, <1>3, <2>1
<1>8. StoreOK'
  <2>1. StoreOK /\ mode # "daemon" /\ mode' # "daemon" /\ disk' = disk
    BY DEF ChainInv
  <2>2. MetadataFollows' = MetadataFollows
    BY DEF MetadataFollows
  <2> QED
    BY <2>1, <2>2, Zenon DEF StoreOK
<1>9. ChainInv'
  BY <1>0, <1>1, <1>5, <1>6, <1>7, <1>8 DEF ChainInv
<1> QED
  BY <1>0, <1>2, <1>3, <1>9

(* validate_and_apply of the block at the next height.                     *)
LEMMA ApplyBlockIs ==
  ASSUME ChainInv, NEW b \in 1..Len(blocks), ApplyBlock(b)
  PROVE  \E more : /\ Went(Append(chain, b), utxo \cup {b}, skipped \cup {b}, more)
                   /\ Path(chain[Len(chain)], <<b>>, blocks) /\ Append(chain, b) = chain \o <<b>>
                   /\ Linked(Append(chain, b), blocks) /\ Len(Append(chain, b)) = Len(chain) + 1
                   /\ Elems(Append(chain, b)) = Elems(chain) \cup {b}
                   /\ ~blocks[b].local
<1>0. /\ Tree(blocks) /\ Linked(chain, blocks) /\ PoolOK(orphans, blocks) /\ chain \in Seq(Nat)
      /\ Len(chain) \in Nat /\ Len(chain) >= 1 /\ Len(blocks) \in Nat /\ b \in Nat
  BY DEF ChainInv, Linked, Pending, Tree
<1>1. /\ mode = "node" /\ Height(b) = TipHeight + 1 /\ Parent(b) = Tip
      /\ ApplyWithOrphans(Append(chain, b), utxo \cup {b}, skipped \cup {b})
  BY DEF ApplyBlock
<1>2. blocks[b].parent = chain[Len(chain)]
  BY <1>1 DEF Parent, Tip
<1>3. Linked(Append(chain, b), blocks)
  BY <1>0, <1>2, LinkedAppend
<1>4. \E more : Went(Append(chain, b), utxo \cup {b}, skipped \cup {b}, more)
  BY <1>0, <1>1, <1>3, WentOn
<1>5. /\ Append(chain, b) = chain \o <<b>> /\ Len(Append(chain, b)) = Len(chain) + 1
      /\ Elems(Append(chain, b)) = Elems(chain) \cup {b}
  BY <1>0, ElemsAppend
<1>6. Path(chain[Len(chain)], <<b>>, blocks)
  BY <1>0, <1>2 DEF Path
<1>7. ~blocks[b].local
  <2>1. b # 0
    BY <1>0
  <2>2. blocks[b].height = TipHeight + 1 /\ TipHeight = Len(chain) - 1
    BY <1>1, <2>1 DEF Height, TipHeight
  <2>3. LocalIsLow(chain, blocks)
    BY <1>1 DEF ChainInv
  <2> QED
    BY <1>0, <2>2, <2>3 DEF LocalIsLow
<1> QED
  BY <1>3, <1>4, <1>5, <1>6, <1>7

LEMMA ChainApplied ==
  ASSUME ChainInv, NEW b \in 1..Len(blocks), ApplyBlock(b)
  PROVE  ChainInv'
<1>1. PICK more : /\ Went(Append(chain, b), utxo \cup {b}, skipped \cup {b}, more)
                  /\ Linked(Append(chain, b), blocks) /\ Len(Append(chain, b)) = Len(chain) + 1
                  /\ Elems(Append(chain, b)) = Elems(chain) \cup {b}
                  /\ ~blocks[b].local
  BY ApplyBlockIs
<1> DEFINE c == Append(chain, b)
           coins == utxo \cup {b}
           plain == skipped \cup {b}
<1>2. mode = "node" /\ UNCHANGED <<mode, blocks, mempool, disk, puts>> /\ Len(chain) \in Nat
  BY DEF ApplyBlock, ChainInv, Linked
<1>3. plain \subseteq Elems(c) /\ \A d \in plain : d \in 1..Len(blocks) /\ ~blocks[d].local
  BY <1>1 DEF ChainInv, Pending
<1>4. Went(c, coins, plain, more) /\ Linked(c, blocks) /\ Len(c) > Len(chain)
  BY <1>1, <1>2
<1> HIDE DEF c, coins, plain
<1> QED
  BY <1>2, <1>3, <1>4, ChainWent

(* A block that waits.                                                     *)
LEMMA ChainPooled ==
  ASSUME ChainInv, NEW b \in 1..Len(blocks), PoolBlock(b), SizeOf(orphans) <= MaxOrphans
  PROVE  ChainInv'
<1>1. /\ mode = "node" /\ UNCHANGED <<mode, blocks, chain, utxo, mempool, skipped, disk, puts>>
      /\ AddToOrphanPool(b)
  BY DEF PoolBlock
<1>2. PoolOK(orphans', blocks)
  BY <1>1, PoolAdded DEF ChainInv, Pending
<1>3. Pending'
  BY <1>1, <1>2 DEF ChainInv, Pending
<1>4. ModeOK' /\ MetadataFollows' = MetadataFollows
  BY <1>1 DEF ChainInv, ModeOK, MetadataFollows
<1>5. StoreOK'
  <2>1. StoreOK /\ mode # "daemon" /\ mode' # "daemon" /\ disk' = disk
    BY <1>1 DEF ChainInv
  <2> QED
    BY <1>4, <2>1, Zenon DEF StoreOK
<1> QED
  BY <1>1, <1>3, <1>4, <1>5 DEF ChainInv

(* A switch to the branch of a block.                                      *)
LEMMA ResolveIs ==
  ASSUME ChainInv, NEW b \in 1..Len(blocks), NEW k \in 1..Height(b), ResolveLongerChain(b, k)
  PROVE  \E more, c : /\ Went(c, Replay(c, {}), {}, more) /\ Linked(c, blocks) /\ Len(c) > Len(chain)
<1>0. Tree(blocks) /\ Linked(chain, blocks) /\ PoolOK(orphans, blocks)
  BY DEF ChainInv, Pending
<1> DEFINE c == SubSeq(chain, 1, k) \o SubSeq(Branch[b], k + 1, Height(b) + 1)
<1>1. /\ k <= Len(chain) /\ chain[k] = Branch[b][k] /\ Len(c) > Len(chain)
      /\ ApplyWithOrphans(c, Replay(c, {}), {})
  BY DEF ResolveLongerChain
<1>2. c = Branch[b]
  BY <1>0, <1>1, ResolvedIs
<1> HIDE DEF c
<1>3. Linked(c, blocks)
  <2>1. b \in 0..Len(blocks)
    BY <1>0 DEF Tree
  <2> QED
    BY <1>0, <1>2, <2>1, BranchLinked
<1>4. \E more : Went(c, Replay(c, {}), {}, more)
  BY <1>0, <1>1, <1>3, WentOn
<1> QED
  BY <1>1, <1>3, <1>4

LEMMA ChainResolved ==
  ASSUME ChainInv, NEW b \in 1..Len(blocks), NEW k \in 1..Height(b), ResolveLongerChain(b, k)
  PROVE  ChainInv'
<1>1. PICK more, c : Went(c, Replay(c, {}), {}, more) /\ Linked(c, blocks) /\ Len(c) > Len(chain)
  BY ResolveIs
<1>2. mode = "node" /\ UNCHANGED <<mode, blocks, mempool, disk, puts>>
  BY DEF ResolveLongerChain
<1> DEFINE plain == {}
           coins == Replay(c, {})
<1>3. plain \subseteq Elems(c) /\ \A d \in plain : d \in 1..Len(blocks) /\ ~blocks[d].local
  OBVIOUS
<1>4. Went(c, coins, plain, more)
  BY <1>1
<1> HIDE DEF plain, coins
<1> QED
  BY <1>1, <1>2, <1>3, <1>4, ChainWent

(* A chain that goes on with blocks that only pay their coinbase.          *)
LEMMA LeftWent ==
  ASSUME NEW bs, Tree(bs), NEW c, Linked(c, bs), NEW d, Path(c[Len(c)], d, bs), NEW plain
  PROVE  Left(c \o d, plain \cup Elems(d), bs) = Left(c, plain, bs) \cup Elems(d)
<1> DEFINE p == plain \cup Elems(d)
<1>0. c \in Seq(Nat) /\ d \in Seq(Nat) /\ Elems(d) \subseteq p
  BY DEF Linked, Path
<1>1. \A b \in Elems(c) : b \in p <=> b \in plain
  <2>1. \A b \in Elems(d) : b \notin Elems(c)
    BY PathAhead
  <2> QED
    BY <2>1
<1> HIDE DEF p
<1>2. Left(c \o d, p, bs) = Left(c, p, bs) \cup Elems(d)
  BY <1>0, LeftPlain
<1>3. Left(c, p, bs) = Left(c, plain, bs)
  BY <1>0, <1>1, LeftSame
<1> QED
  BY <1>2, <1>3 DEF p

(* With more blocks in the tree a chain leaves what it left.               *)
LEMMA LeftGrows ==
  ASSUME NEW bs, Tree(bs), NEW bs2, NEW c, Linked(c, bs), \A b \in 1..Len(bs) : bs2[b] = bs[b], NEW plain
  PROVE  Left(c, plain, bs2) = Left(c, plain, bs)
<1>1. c \in Seq(Nat) /\ DOMAIN c = 1..Len(c)
  BY DEF Linked
<1>2. ASSUME NEW b \in Elems(c) PROVE TxsIn(b, bs2) = TxsIn(b, bs)
  <2>1. PICK i \in 1..Len(c) : b = c[i]
    BY <1>1 DEF Elems
  <2>2. b \in 0..Len(bs)
    BY <2>1, LinkedHeights
  <2>3. CASE b = 0
    BY <2>3 DEF TxsIn
  <2>4. CASE b # 0
    <3>1. b \in 1..Len(bs)
      <4>1. Len(bs) \in Nat
        BY DEF Tree
      <4> QED
        BY <2>2, <2>4, <4>1
    <3> QED
      BY <3>1 DEF TxsIn
  <2> QED
    BY <2>3, <2>4
<1> QED
  BY <1>1, <1>2, LeftSame

-----------------------------------------------------------------------------
(* The coins, and the limits of the pool.                                  *)

Ledger == utxo = Left(chain, skipped, blocks)
OrphanInv ==
    /\ SizeOf(orphans) <= MaxOrphans
    /\ \A o \in Elems(orphans) : o.parent # chain[Len(chain)]
ChainSound == ChainInv /\ Ledger /\ OrphanInv

(* At the start only the genesis block has paid.                           *)
LEMMA SoundInit == Init => ChainSound
<1> SUFFICES ASSUME Init PROVE ChainSound
  OBVIOUS
<1>1. ChainInv
  BY ChainInit
<1>2. utxo = {0} /\ chain = <<0>> /\ skipped = {} /\ orphans = <<>>
  BY DEF Init
<1>3. Ledger
  <2>1. <<>> \in Seq(Nat) /\ 0 \in Nat /\ Append(<<>>, 0) = <<0>>
    OBVIOUS
  <2>2. Left(Append(<<>>, 0), {}, blocks) = Applied(Left(<<>>, {}, blocks), 0, {}, blocks)
    <3> DEFINE e == <<>>
               z == 0
    <3>1. e \in Seq(Nat) /\ z \in Nat
      OBVIOUS
    <3> HIDE DEF e, z
    <3>2. Left(Append(e, z), {}, blocks) = Applied(Left(e, {}, blocks), z, {}, blocks)
      BY <3>1, LeftAppend
    <3> QED
      BY <3>2 DEF e, z
  <2>3. Left(<<>>, {}, blocks) = {} /\ TxsIn(0, blocks) = {} /\ SpentIn(0, blocks) = {}
    BY LeftEmpty DEF TxsIn, SpentIn
  <2>4. Applied({}, 0, {}, blocks) = {0}
    BY <2>3 DEF Applied
  <2>5. Left(<<0>>, {}, blocks) = {0}
    BY <2>1, <2>2, <2>3, <2>4, Zenon
  <2> QED
    BY <1>2, <2>5, Zenon DEF Ledger
<1>4. OrphanInv
  <2>1. SizeOf(orphans) = 0 /\ Elems(orphans) = {}
    BY <1>2, SizeEmpty, ElemsEmpty, Zenon
  <2> QED
    BY <2>1, ChainAssumption DEF OrphanInv
<1> QED
  BY <1>1, <1>3, <1>4 DEF ChainSound

(* A step that changes neither blocks nor coins.                           *)
LEMMA SoundSame ==
  ASSUME ChainSound, UNCHANGED <<mode, blocks, chain, utxo, orphans, skipped, disk, puts>>,
         mempool' \in Seq(Txs)
  PROVE  ChainSound'
<1>1. ChainInv'
  BY ChainSame DEF ChainSound
<1>2. Ledger' /\ OrphanInv'
  BY DEF ChainSound, Ledger, OrphanInv
<1> QED
  BY <1>1, <1>2 DEF ChainSound

(* A block is mined.                                                       *)
LEMMA SoundMined ==
  ASSUME ChainSound, MineBlock
  PROVE  ChainSound'
<1>0. ChainInv /\ Ledger /\ OrphanInv
  BY DEF ChainSound
<1>1. PICK new : Mined(new)
  BY <1>0, MineBlockIs
<1> DEFINE n == Len(blocks) + 1
<1>2. /\ Tree(blocks) /\ Linked(chain, blocks) /\ chain \in Seq(Nat) /\ n \in Nat /\ Len(blocks) \in Nat
      /\ \A b \in 1..Len(blocks) : blocks'[b] = blocks[b]
      /\ chain' = Append(chain, n) /\ blocks'[n].txs = Verified
  BY <1>0, <1>1 DEF ChainInv, Linked, Mined
<1>3. /\ UNCHANGED <<mode, orphans, skipped, disk>>
      /\ utxo' = (utxo \ {Spends[t] : t \in Verified}) \cup {n} \cup Verified
  <2>1. /\ UNCHANGED <<mode, orphans, skipped, disk>>
        /\ utxo' = (utxo \ {Spends[t] : t \in Template.txs}) \cup {Len(blocks) + 1} \cup Template.txs
    BY DEF MineBlock
  <2>2. Template.txs = Verified
    BY <1>1 DEF Mined
  <2> QED
    BY <2>1, <2>2
<1>4. n \notin skipped
  <2>1. ASSUME n \in skipped PROVE FALSE
    <3>1. n \in 1..Len(blocks)
      BY <1>0, <2>1 DEF ChainInv, Pending
    <3> QED
      BY <1>2, <3>1
  <2> QED
    BY <2>1
<1>5. TxsIn(n, blocks') = Verified /\ SpentIn(n, blocks') = {Spends[t] : t \in Verified}
  <2>1. n # 0
    BY <1>2
  <2> HIDE DEF n
  <2>2. TxsIn(n, blocks') = Verified
    BY <1>2, <2>1 DEF TxsIn
  <2> QED
    BY <2>2 DEF SpentIn
<1> HIDE DEF n
<1>6. Left(chain, skipped, blocks') = Left(chain, skipped, blocks)
  BY <1>2, LeftGrows
<1>7. Left(Append(chain, n), skipped, blocks') = Applied(Left(chain, skipped, blocks'), n, skipped, blocks')
  BY <1>2, LeftAppend
<1>8. Applied(utxo, n, skipped, blocks') = (utxo \ {Spends[t] : t \in Verified}) \cup {n} \cup Verified
  BY <1>4, <1>5, Zenon DEF Applied
<1>9. Ledger'
  BY <1>0, <1>2, <1>3, <1>6, <1>7, <1>8, Zenon DEF Ledger
<1>10. OrphanInv'
  <2>1. chain'[Len(chain')] = n
    BY <1>2
  <2>2. \A o \in Elems(orphans) : o.parent \in 0..Len(blocks)
    BY <1>0 DEF ChainInv, Pending, PoolOK
  <2>3. \A o \in Elems(orphans) : o.parent # n
    BY <1>2, <2>2 DEF n
  <2> QED
    BY <1>0, <1>3, <2>1, <2>3 DEF OrphanInv
<1>11. ChainInv'
  BY <1>0, ChainMined
<1> QED
  BY <1>9, <1>10, <1>11 DEF ChainSound

(* The process is killed and starts again.                                 *)
LEMMA SoundRestarted ==
  ASSUME ChainSound, Restart
  PROVE  ChainSound'
<1>0. ChainInv /\ Ledger /\ OrphanInv
  BY DEF ChainSound
<1>1. /\ mode = "daemon" /\ UNCHANGED <<mode, blocks, orphans, skipped>>
      /\ chain' = Rebuilt /\ utxo' = Replay(Rebuilt, {})
  BY DEF Restart
<1>2. orphans = <<>> /\ skipped = {}
  BY <1>0, <1>1 DEF ChainInv, ModeOK
<1>3. Ledger'
  <2>1. utxo' = Left(Rebuilt, {}, blocks)
    BY <1>1, ReplayIsLeft, Zenon
  <2> QED
    BY <1>1, <1>2, <2>1, Zenon DEF Ledger
<1>4. OrphanInv'
  <2>1. SizeOf(orphans') = 0 /\ Elems(orphans') = {}
    BY <1>1, <1>2, SizeEmpty, ElemsEmpty, Zenon
  <2> QED
    BY <2>1, ChainAssumption DEF OrphanInv
<1>5. ChainInv'
  BY <1>0, ChainRestarted
<1> QED
  BY <1>3, <1>4, <1>5 DEF ChainSound

(* A peer finds a block.                                                   *)
LEMMA SoundWithPeers ==
  ASSUME ChainSound, NEW parent \in 0..Len(blocks), NEW sound \in BOOLEAN, PeerMines(parent, sound)
  PROVE  ChainSound'
<1>0. ChainInv /\ Ledger /\ OrphanInv
  BY DEF ChainSound
<1>1. UNCHANGED <<chain, utxo, orphans, skipped>>
  BY DEF PeerMines
<1>2. PICK new : FromPeer(new)
  BY <1>0, PeerMinesIs
<1>3. \A b \in 1..Len(blocks) : blocks'[b] = blocks[b]
  BY <1>2 DEF FromPeer
<1>4. Left(chain, skipped, blocks') = Left(chain, skipped, blocks)
  BY <1>0, <1>3, LeftGrows DEF ChainInv
<1>5. Ledger' /\ OrphanInv'
  BY <1>0, <1>1, <1>4 DEF Ledger, OrphanInv
<1>6. ChainInv'
  BY <1>0, ChainWithPeers
<1> QED
  BY <1>5, <1>6 DEF ChainSound

(* The chain goes on with a peer's block and with orphans.                 *)
LEMMA SoundApplied ==
  ASSUME ChainSound, NEW b \in 1..Len(blocks), ApplyBlock(b)
  PROVE  ChainSound'
<1>0. ChainInv /\ Ledger /\ OrphanInv /\ Tree(blocks) /\ Linked(chain, blocks)
  BY DEF ChainSound, ChainInv
<1> DEFINE c == Append(chain, b)
           d == <<b>>
           plain == skipped \cup {b}
<1>1. PICK more : /\ Went(c, utxo \cup {b}, plain, more)
                  /\ Path(chain[Len(chain)], d, blocks) /\ c = chain \o d /\ Linked(c, blocks)
  BY <1>0, ApplyBlockIs
<1>2. Elems(d) = {b}
  BY DEF Elems
<1>3. blocks' = blocks
  BY DEF ApplyBlock
<1> HIDE DEF c, d
<1>4. Left(chain \o d, skipped \cup Elems(d), blocks) = Left(chain, skipped, blocks) \cup Elems(d)
  BY <1>0, <1>1, LeftWent
<1>5. Left(c, plain, blocks) = utxo \cup {b}
  BY <1>0, <1>1, <1>2, <1>4, Zenon DEF Ledger
<1> HIDE DEF plain
<1>6. /\ Path(c[Len(c)], more, blocks) /\ chain' = c \o more
      /\ utxo' = (utxo \cup {b}) \cup Elems(more) /\ skipped' = plain \cup Elems(more)
      /\ SizeOf(orphans') <= SizeOf(orphans) /\ PoolOK(orphans', blocks)
      /\ \A o \in Elems(orphans') : o.parent # chain'[Len(chain')]
  BY <1>1 DEF Went
<1>7. Left(c \o more, plain \cup Elems(more), blocks) = Left(c, plain, blocks) \cup Elems(more)
  BY <1>0, <1>1, <1>6, LeftWent
<1>8. Ledger'
  BY <1>3, <1>5, <1>6, <1>7, Zenon DEF Ledger
<1>9. OrphanInv'
  <2>1. SizeOf(orphans) \in Nat /\ SizeOf(orphans') \in Nat
    BY <1>0, <1>6, SizeAtLeast DEF ChainInv, Pending, PoolOK
  <2>2. MaxOrphans \in Nat /\ SizeOf(orphans) <= MaxOrphans
    BY <1>0, ChainAssumption DEF OrphanInv
  <2>3. SizeOf(orphans') <= SizeOf(orphans)
    BY <1>6
  <2>4. SizeOf(orphans') <= MaxOrphans
    BY <2>1, <2>2, <2>3
  <2>5. \A o \in Elems(orphans') : o.parent # chain'[Len(chain')]
    BY <1>6
  <2> QED
    BY <2>4, <2>5 DEF OrphanInv
<1>10. ChainInv'
  BY <1>0, ChainApplied
<1> QED
  BY <1>8, <1>9, <1>10 DEF ChainSound

(* A block waits.                                                          *)
LEMMA SoundPooled ==
  ASSUME ChainSound, NEW b \in 1..Len(blocks), PoolBlock(b)
  PROVE  ChainSound'
<1>0. /\ ChainInv /\ Ledger /\ OrphanInv /\ Tree(blocks) /\ Linked(chain, blocks) /\ PoolOK(orphans, blocks)
      /\ SizeOf(orphans) <= MaxOrphans
  BY DEF ChainSound, ChainInv, Pending, OrphanInv
<1>1. /\ UNCHANGED <<mode, blocks, chain, utxo, mempool, skipped, disk, puts>> /\ AddToOrphanPool(b)
      /\ Height(b) > TipHeight + 1 \/ Parent(b) # Tip
  BY DEF PoolBlock
<1>2. Parent(b) # chain[Len(chain)]
  <2>1. ASSUME Parent(b) = chain[Len(chain)] PROVE FALSE
    <3>1. Len(chain) \in Nat /\ Len(chain) \in 1..Len(chain) /\ b # 0
      BY <1>0 DEF Linked
    <3>2. HeightIn(chain[Len(chain)], blocks) = Len(chain) - 1
      BY <1>0, <3>1, LinkedHeights
    <3>3. blocks[b].height = HeightIn(blocks[b].parent, blocks) + 1
      BY <1>0 DEF Tree
    <3>4. Height(b) = (Len(chain) - 1) + 1
      BY <2>1, <3>1, <3>2, <3>3 DEF Height, Parent
    <3> QED
      BY <1>1, <2>1, <3>1, <3>4 DEF TipHeight, Tip
  <2> QED
    BY <2>1
<1>3. /\ SizeOf(orphans') <= MaxOrphans
      /\ \A o \in Elems(orphans') :
           o.parent = Parent(b) \/ \E p \in Elems(orphans) : p.parent = o.parent
  BY <1>0, <1>1, PoolAdded
<1>4. OrphanInv'
  BY <1>0, <1>1, <1>2, <1>3 DEF OrphanInv
<1>5. Ledger'
  BY <1>0, <1>1 DEF Ledger
<1>6. ChainInv'
  BY <1>0, ChainPooled
<1> QED
  BY <1>4, <1>5, <1>6 DEF ChainSound

(* A switch to a longer branch.                                            *)
LEMMA SoundResolved ==
  ASSUME ChainSound, NEW b \in 1..Len(blocks), NEW k \in 1..Height(b), ResolveLongerChain(b, k)
  PROVE  ChainSound'
<1>0. ChainInv /\ Ledger /\ OrphanInv /\ Tree(blocks)
  BY DEF ChainSound, ChainInv
<1>1. PICK more, c : Went(c, Replay(c, {}), {}, more) /\ Linked(c, blocks) /\ Len(c) > Len(chain)
  BY <1>0, ResolveIs
<1>2. blocks' = blocks
  BY DEF ResolveLongerChain
<1>3. /\ Path(c[Len(c)], more, blocks) /\ chain' = c \o more
      /\ utxo' = Replay(c, {}) \cup Elems(more) /\ skipped' = {} \cup Elems(more)
      /\ SizeOf(orphans') <= SizeOf(orphans) /\ PoolOK(orphans', blocks)
      /\ \A o \in Elems(orphans') : o.parent # chain'[Len(chain')]
  BY <1>1 DEF Went
<1>4. Left(c \o more, {} \cup Elems(more), blocks) = Left(c, {}, blocks) \cup Elems(more)
  BY <1>0, <1>1, <1>3, LeftWent
<1>5. Replay(c, {}) = Left(c, {}, blocks)
  BY ReplayIsLeft
<1>6. Ledger'
  BY <1>2, <1>3, <1>4, <1>5, Zenon DEF Ledger
<1>7. OrphanInv'
  <2>1. SizeOf(orphans) \in Nat /\ SizeOf(orphans') \in Nat
    BY <1>0, <1>3, SizeAtLeast DEF ChainInv, Pending, PoolOK
  <2>2. MaxOrphans \in Nat /\ SizeOf(orphans) <= MaxOrphans
    BY <1>0, ChainAssumption DEF OrphanInv
  <2>3. SizeOf(orphans') <= SizeOf(orphans)
    BY <1>3
  <2>4. SizeOf(orphans') <= MaxOrphans
    BY <2>1, <2>2, <2>3
  <2>5. \A o \in Elems(orphans') : o.parent # chain'[Len(chain')]
    BY <1>3
  <2> QED
    BY <2>4, <2>5 DEF OrphanInv
<1>8. ChainInv'
  BY <1>0, ChainResolved
<1> QED
  BY <1>6, <1>7, <1>8 DEF ChainSound

(* Every step of the service keeps it.                                     *)
LEMMA SoundStep == ChainSound /\ [ServiceNext]_<<vars, workVars>> => ChainSound'
<1> SUFFICES ASSUME ChainSound, [ServiceNext]_<<vars, workVars>> PROVE ChainSound'
  OBVIOUS
<1>0. mempool \in Seq(Txs)
  BY DEF ChainSound, ChainInv, Pending
<1>1. ASSUME NEW tx \in Txs, NEW validate \in BOOLEAN, AddTransaction(tx, validate) PROVE ChainSound'
  <2>1. mempool' = Insert(tx) /\ UNCHANGED <<mode, blocks, chain, utxo, orphans, skipped, disk, puts>>
    BY <1>1 DEF AddTransaction
  <2>2. mempool' \in Seq(Txs)
    BY <1>0, <2>1, InsertType
  <2> QED
    BY <2>1, <2>2, SoundSame
<1>2. CASE MineBlock
  BY <1>2, SoundMined
<1>3. CASE PersistBlock
  <2>1. ChainInv'
    BY <1>3, ChainPersisted DEF ChainSound
  <2>2. Ledger' /\ OrphanInv'
    BY <1>3 DEF PersistBlock, ChainSound, Ledger, OrphanInv
  <2> QED
    BY <2>1, <2>2 DEF ChainSound
<1>4. CASE Restart
  BY <1>4, SoundRestarted
<1>5. ASSUME NEW parent \in 0..Len(blocks), NEW sound \in BOOLEAN, PeerMines(parent, sound) PROVE ChainSound'
  BY <1>5, SoundWithPeers
<1>d. DOMAIN blocks = 1..Len(blocks)
  BY DEF ChainSound, ChainInv, Tree
<1>6. ASSUME NEW b \in 1..Len(blocks), ApplyBlock(b) PROVE ChainSound'
  BY <1>6, SoundApplied
<1>7. ASSUME NEW b \in 1..Len(blocks), PoolBlock(b) PROVE ChainSound'
  BY <1>7, SoundPooled
<1>8. ASSUME NEW b \in 1..Len(blocks), NEW k \in 1..Height(b), ResolveLongerChain(b, k) PROVE ChainSound'
  BY <1>8, SoundResolved
<1>9. CASE UNCHANGED vars
  BY <1>0, <1>9, SoundSame DEF vars
<1>10. CASE Next
  BY <1>1, <1>2, <1>3, <1>4, <1>5, <1>6, <1>7, <1>8, <1>10, <1>d DEF Next
<1>11. Next \/ UNCHANGED vars
  BY DEF ServiceNext
<1> QED
  BY <1>9, <1>10, <1>11

-----------------------------------------------------------------------------
(* What is true of the chain at every moment.                              *)

(* The chain, its store, its coins and its pool are sound at every moment. *)
LEMMA AlwaysSound == ServiceSpec => []ChainSound
<1>1. ServiceInit => ChainSound
  BY SoundInit DEF ServiceInit
<1> QED
  BY <1>1, SoundStep, PTL DEF ServiceSpec

(* The process can be killed at any write: the next one finds the blocks   *)
(* of the chain, or all but the one being written (chain.py:91-114,        *)
(* 116-238).                                                               *)
THEOREM RestartCorrect == ServiceSpec => []RestartFindsTheChain
<1>1. ChainSound => RestartFindsTheChain
  <2> SUFFICES ASSUME ChainSound PROVE DiskIsTheChain /\ MetadataFollows
    BY DEF RestartFindsTheChain
  <2>1. MetadataFollows
    BY DEF ChainSound, ChainInv, StoreOK
  <2>2. DiskIsTheChain
    <3> SUFFICES ASSUME mode = "daemon"
                 PROVE  Rebuilt = IF puts = 0 THEN SubSeq(chain, 1, TipHeight) ELSE chain
      BY DEF DiskIsTheChain
    <3>1. Rebuilt = Base
      BY BaseIs DEF ChainSound
    <3> QED
      BY <3>1, Zenon DEF Base, TipHeight
  <2> QED
    BY <2>1, <2>2
<1> QED
  BY <1>1, AlwaysSound, PTL

(* The coins the node mines and answers balances from are those its chain  *)
(* leaves (block_sync.py:213-219, 323-347).                                *)
THEOREM UtxoCorrect == ServiceSpec => []UtxoIsReplay
<1>1. ChainSound => UtxoIsReplay
  BY ReplayIsLeft, Zenon DEF ChainSound, Ledger, UtxoIsReplay
<1> QED
  BY <1>1, AlwaysSound, PTL

(* The pool holds what has to wait, within its limit (block_sync.py:349-404). *)
THEOREM OrphansCorrect == ServiceSpec => []OrphanPoolSound
<1>1. ChainSound => OrphanPoolSound
  <2> SUFFICES ASSUME ChainSound PROVE NoOrphanFits /\ OrphansBounded
    BY DEF OrphanPoolSound
  <2>1. OrphanInv /\ PoolOK(orphans, blocks)
    BY DEF ChainSound, ChainInv, Pending
  <2>2. WaitingFor(chain[Len(chain)]) = <<>>
    BY <2>1, WaitingType DEF OrphanInv
  <2> QED
    BY <2>1, <2>2 DEF OrphanInv, NoOrphanFits, OrphansBounded, Tip, PoolSize
<1> QED
  BY <1>1, AlwaysSound, PTL

-----------------------------------------------------------------------------
(* What the blocks of a branch spend.                                      *)

SpentOnceIn(p, bs) ==
    \A i, j \in 1..Len(p) : \A t \in TxsIn(p[i], bs), u \in TxsIn(p[j], bs) :
      Spends[t] = Spends[u] => i = j /\ t = u

\* A block that follows a chain spends what the chain made, each coin once; and
\* it spends a coin again only if it is local and the earlier one came from a peer.
Extends(p, b, bs) ==
    /\ \A t \in TxsIn(b, bs) : Spends[t] \in Made(p, bs)
    /\ \A t, u \in TxsIn(b, bs) : Spends[t] = Spends[u] => t = u
    /\ SpentOnceIn(p, bs) =>
         \A i \in 1..Len(p) : \A t \in TxsIn(p[i], bs), u \in TxsIn(b, bs) :
           Spends[t] = Spends[u] => ~bs[p[i]].local /\ bs[b].local
SpendsOK(bs) ==
    \A p : \A b \in 1..Len(bs) : Linked(p, bs) /\ bs[b].parent = p[Len(p)] => Extends(p, b, bs)

(* The transactions of a block are transactions.                           *)
LEMMA TxsInType ==
  ASSUME NEW bs, Tree(bs), NEW p, Linked(p, bs), NEW i \in 1..Len(p)
  PROVE  TxsIn(p[i], bs) \subseteq Txs /\ p[i] \in Ids /\ p[i] \notin Txs
<1>1. p[i] \in 0..Len(bs) /\ Len(bs) \in Nat /\ Len(bs) <= MaxBlocks /\ MaxBlocks \in Nat
  BY LinkedHeights, ChainAssumption DEF Tree
<1>2. p[i] \in Ids
  BY <1>1 DEF Ids
<1>3. TxsIn(p[i], bs) \subseteq Txs
  <2>1. CASE p[i] = 0
    BY <2>1 DEF TxsIn
  <2>2. CASE p[i] # 0
    <3>1. p[i] \in 1..Len(bs)
      BY <1>1, <2>2
    <3> QED
      BY <2>2, <3>1, TreeType DEF TxsIn
  <2> QED
    BY <2>1, <2>2
<1> QED
  BY <1>2, <1>3, ChainAssumption

(* A coin is made before it is spent, and never again.                     *)
LEMMA MadeBefore ==
  ASSUME NEW bs, Tree(bs), SpendsOK(bs), NEW p, Linked(p, bs), SpentOnceIn(p, bs),
         NEW i \in 1..Len(p), NEW m \in i..Len(p), NEW t \in TxsIn(p[i], bs)
  PROVE  Spends[t] # p[m] /\ Spends[t] \notin TxsIn(p[m], bs)
<1>0. p \in Seq(Nat) /\ Len(p) \in Nat /\ p[1] = 0 /\ m \in 1..Len(p) /\ i \in Nat /\ m \in Nat /\ i <= m
  BY DEF Linked
<1>1. i \in 2..Len(p)
  <2>1. i # 1
    BY <1>0 DEF TxsIn
  <2> QED
    BY <1>0, <2>1
<1> DEFINE q == SubSeq(p, 1, i - 1)
<1>2. i - 1 \in 1..Len(p)
  BY <1>0, <1>1
<1>3. Linked(q, bs) /\ Len(q) = i - 1 /\ \A k \in 1..(i - 1) : q[k] = p[k]
  BY <1>2, LinkedPrefix
<1>4. p[i] \in 1..Len(bs) /\ bs[p[i]].parent = p[i - 1]
  BY <1>1 DEF Linked
<1> HIDE DEF q
<1>5. bs[p[i]].parent = q[Len(q)] /\ DOMAIN q = 1..Len(q)
  <2>1. i - 1 \in 1..(i - 1)
    BY <1>0, <1>1
  <2> QED
    BY <1>3, <1>4, <2>1 DEF Linked
<1>6. Spends[t] \in Made(q, bs)
  BY <1>3, <1>4, <1>5 DEF SpendsOK, Extends
<1>7. PICK k \in 1..(i - 1) : Spends[t] = p[k] \/ Spends[t] \in TxsIn(p[k], bs)
  <2>1. ASSUME NEW b \in Elems(q) PROVE \E k \in 1..(i - 1) : b = p[k]
    <3>1. PICK k \in 1..(i - 1) : b = q[k]
      BY <1>3, <1>5, <2>1 DEF Elems
    <3> QED
      BY <1>3, <3>1
  <2> QED
    BY <1>6, <2>1 DEF Made
<1>8. k \in 1..Len(p) /\ k # m
  BY <1>0, <1>1
<1>9. /\ TxsIn(p[k], bs) \subseteq Txs /\ p[k] \notin Txs
      /\ TxsIn(p[m], bs) \subseteq Txs /\ p[m] \notin Txs
  BY <1>0, <1>8, TxsInType
<1>10. p[k] # p[m]
  BY <1>0, <1>8, LinkedDistinct
<1>11. ASSUME NEW v \in TxsIn(p[k], bs), v \in TxsIn(p[m], bs) PROVE FALSE
  <2>1. \A x \in TxsIn(p[k], bs), y \in TxsIn(p[m], bs) : Spends[x] = Spends[y] => k = m /\ x = y
    BY <1>0, <1>8, Zenon DEF SpentOnceIn
  <2>2. Spends[v] = Spends[v] => k = m /\ v = v
    BY <1>11, <2>1, Zenon
  <2> QED
    BY <1>8, <2>2
<1> QED
  BY <1>7, <1>9, <1>10, <1>11

(* What a chain spent is not left, but by blocks that only paid their      *)
(* coinbase.                                                               *)
LEMMA SpentIsGone ==
  ASSUME NEW bs, Tree(bs), SpendsOK(bs), NEW p, Linked(p, bs), SpentOnceIn(p, bs), NEW plain,
         NEW i \in 1..Len(p), p[i] \notin plain, NEW t \in TxsIn(p[i], bs)
  PROVE  Spends[t] \notin Left(p, plain, bs)
<1>0. p \in Seq(Nat) /\ Len(p) \in Nat /\ i \in Nat /\ i >= 1 /\ i <= Len(p) /\ DOMAIN p = 1..Len(p)
  BY DEF Linked
<1> DEFINE pre(n) == SubSeq(p, 1, n)
           R == {n \in 0..Len(p) : n >= i => Spends[t] \notin Left(pre(n), plain, bs)}
<1>1. 0 \in R
  BY <1>0
<1>2. \A n \in 0..(Len(p) - 1) : n \in R => n + 1 \in R
  <2> SUFFICES ASSUME NEW n \in 0..(Len(p) - 1), n \in R PROVE n + 1 \in R
    OBVIOUS
  <2>1. n + 1 \in 0..Len(p) /\ n + 1 \in 1..Len(p) /\ n \in 0..Len(p) /\ (n + 1) - 1 = n
    BY <1>0
  <2> DEFINE x == p[n + 1]
             before == Left(pre(n), plain, bs)
  <2>2. pre(n) \in Seq(Nat) /\ x \in Nat
    BY <1>0, <2>1
  <2>3. pre(n + 1) = Append(pre(n), x)
    <3>1. 1 \in 1..Len(p) /\ n + 1 \in 1..Len(p)
      BY <1>0, <2>1
    <3>2. SubSeq(p, 1, n + 1) = SubSeq(p, 1, (n + 1) - 1) \o <<p[n + 1]>>
      BY <1>0, <3>1, SubSeqRecursiveSecond
    <3>3. pre(n) \o <<x>> = Append(pre(n), x)
      <4> DEFINE s == pre(n)
      <4>1. s \in Seq(Nat) /\ x \in Nat
        BY <2>2
      <4> HIDE DEF s, x
      <4>2. s \o <<x>> = Append(s, x)
        BY <4>1
      <4> QED
        BY <4>2 DEF s
    <3>4. SubSeq(p, 1, (n + 1) - 1) = pre(n)
      BY <2>1
    <3> QED
      BY <3>2, <3>3, <3>4, Zenon
  <2> HIDE DEF pre, x
  <2>4. Left(Append(pre(n), x), plain, bs) = Applied(before, x, plain, bs)
    BY <2>2, LeftAppend
  <2>5. Left(pre(n + 1), plain, bs) = Applied(before, x, plain, bs)
    BY <2>3, <2>4, Zenon
  <2> HIDE DEF before
  <2>6. CASE i <= n
    <3>1. Spends[t] \notin before
      BY <2>6 DEF before
    <3>2. n + 1 \in i..Len(p)
      BY <1>0, <2>1, <2>6
    <3>3. Spends[t] # x /\ Spends[t] \notin TxsIn(x, bs)
      BY <3>2, MadeBefore DEF x
    <3>4. Spends[t] \notin Applied(before, x, plain, bs)
      BY <3>1, <3>3 DEF Applied
    <3> QED
      BY <2>1, <2>5, <3>4
  <2>7. CASE i = n + 1
    <3>1. n + 1 \in i..Len(p)
      BY <1>0, <2>1, <2>7
    <3>2. Spends[t] # x /\ Spends[t] \notin TxsIn(x, bs) /\ x \notin plain /\ t \in TxsIn(x, bs)
      BY <2>7, <3>1, MadeBefore DEF x
    <3>3. Spends[t] \in SpentIn(x, bs)
      BY <3>2 DEF SpentIn
    <3>4. Spends[t] \notin Applied(before, x, plain, bs)
      BY <3>2, <3>3 DEF Applied
    <3> QED
      BY <2>1, <2>5, <3>4
  <2>8. CASE i > n + 1
    BY <1>0, <2>1, <2>8
  <2> QED
    BY <1>0, <2>1, <2>6, <2>7, <2>8
<1> HIDE DEF R
<1>3. 0..Len(p) \subseteq R
  BY <1>0, <1>1, <1>2, BoundedInduction
<1>4. Spends[t] \notin Left(pre(Len(p)), plain, bs)
  <2>1. Len(p) \in R
    BY <1>0, <1>3
  <2> QED
    BY <1>0, <2>1 DEF R
<1>5. pre(Len(p)) = p
  BY <1>0, SubSeqFull
<1> QED
  BY <1>4, <1>5, Zenon

(* A chain makes the same when its blocks hold the same.                   *)
LEMMA MadeSame ==
  ASSUME NEW p, NEW bs, NEW bs2, \A x \in Elems(p) : TxsIn(x, bs2) = TxsIn(x, bs)
  PROVE  Made(p, bs2) = Made(p, bs)
<1>1. {TxsIn(x, bs2) : x \in Elems(p)} = {TxsIn(x, bs) : x \in Elems(p)}
  OBVIOUS
<1> QED
  BY <1>1, Zenon DEF Made

(* In a tree with one block more the others extend what they extended.     *)
LEMMA ExtendsGrows ==
  ASSUME NEW bs, Tree(bs), NEW bs2, \A b \in 1..Len(bs) : bs2[b] = bs[b],
         NEW p, Linked(p, bs), NEW b \in 1..Len(bs), Extends(p, b, bs)
  PROVE  Extends(p, b, bs2)
<1>0. Len(bs) \in Nat /\ p \in Seq(Nat) /\ DOMAIN p = 1..Len(p) /\ b # 0
  BY DEF Tree, Linked
<1>1. ASSUME NEW i \in 1..Len(p)
      PROVE  /\ TxsIn(p[i], bs2) = TxsIn(p[i], bs)
             /\ TxsIn(p[i], bs) # {} => bs2[p[i]] = bs[p[i]]
  <2>1. p[i] \in 0..Len(bs)
    BY LinkedHeights
  <2>2. CASE p[i] = 0
    BY <2>2 DEF TxsIn
  <2>3. CASE p[i] # 0
    <3>1. p[i] \in 1..Len(bs)
      BY <1>0, <2>1, <2>3
    <3> QED
      BY <3>1 DEF TxsIn
  <2> QED
    BY <2>2, <2>3
<1>2. TxsIn(b, bs2) = TxsIn(b, bs) /\ bs2[b] = bs[b]
  BY <1>0 DEF TxsIn
<1>3. Made(p, bs2) = Made(p, bs)
  <2>1. \A x \in Elems(p) : TxsIn(x, bs2) = TxsIn(x, bs)
    <3> SUFFICES ASSUME NEW x \in Elems(p) PROVE TxsIn(x, bs2) = TxsIn(x, bs)
      OBVIOUS
    <3>1. PICK i \in 1..Len(p) : x = p[i]
      BY <1>0 DEF Elems
    <3> QED
      BY <1>1, <3>1
  <2> QED
    BY <2>1, MadeSame
<1>4. SpentOnceIn(p, bs2) => SpentOnceIn(p, bs)
  BY <1>1 DEF SpentOnceIn
<1>5. \A t \in TxsIn(b, bs2) : Spends[t] \in Made(p, bs2)
  BY <1>2, <1>3 DEF Extends
<1>6. \A t, u \in TxsIn(b, bs2) : Spends[t] = Spends[u] => t = u
  BY <1>2 DEF Extends
<1>7. ASSUME SpentOnceIn(p, bs2), NEW i \in 1..Len(p), NEW t \in TxsIn(p[i], bs2), NEW u \in TxsIn(b, bs2),
             Spends[t] = Spends[u]
      PROVE  ~bs2[p[i]].local /\ bs2[b].local
  <2>1. t \in TxsIn(p[i], bs) /\ u \in TxsIn(b, bs) /\ bs2[p[i]] = bs[p[i]]
    BY <1>1, <1>2, <1>7
  <2>2. ~bs[p[i]].local /\ bs[b].local
    BY <1>4, <1>7, <2>1 DEF Extends
  <2> QED
    BY <1>2, <2>1, <2>2
<1> QED
  BY <1>5, <1>6, <1>7 DEF Extends

(* A block of a node's own, or of a peer, extends the chain it was made    *)
(* for; so every block goes on extending.                                  *)
LEMMA SpendsGrow ==
  ASSUME NEW bs, Tree(bs), SpendsOK(bs), NEW bs2, Tree(bs2), NEW new \in Blocks, bs2 = Append(bs, new),
         new.parent \in 0..Len(bs),
         \A b \in 1..Len(bs) : bs2[b] = bs[b], Len(bs2) = Len(bs) + 1, bs2[Len(bs) + 1] = new,
         \A p : Linked(p, bs) /\ p[Len(p)] = new.parent => Extends(p, Len(bs) + 1, bs2)
  PROVE  SpendsOK(bs2)
<1> SUFFICES ASSUME NEW p, NEW b \in 1..Len(bs2), Linked(p, bs2), bs2[b].parent = p[Len(p)]
             PROVE  Extends(p, b, bs2)
  BY Zenon DEF SpendsOK
<1>0. Len(bs) \in Nat /\ bs \in Seq(Blocks) /\ Tree(Append(bs, new))
  BY DEF Tree
<1>1. p[Len(p)] # Len(bs) + 1
  <2>1. CASE b = Len(bs) + 1
    BY <1>0, <2>1
  <2>2. CASE b # Len(bs) + 1
    <3>1. b \in 1..Len(bs)
      BY <1>0, <2>2
    <3>2. bs[b].parent \in 0..(b - 1) /\ bs2[b] = bs[b]
      BY <3>1, TreeType
    <3> QED
      BY <1>0, <3>1, <3>2
  <2> QED
    BY <2>1, <2>2
<1>2. Linked(p, bs)
  BY <1>0, <1>1, LinkedInGrown
<1>3. CASE b = Len(bs) + 1
  <2>1. p[Len(p)] = new.parent
    BY <1>3
  <2> QED
    BY <1>2, <1>3, <2>1
<1>4. CASE b # Len(bs) + 1
  <2>1. b \in 1..Len(bs)
    BY <1>0, <1>4
  <2>2. bs[b].parent = p[Len(p)]
    BY <2>1
  <2>3. Extends(p, b, bs)
    BY <1>2, <2>1, <2>2 DEF SpendsOK
  <2> QED
    BY <1>2, <2>1, <2>3, ExtendsGrows
<1> QED
  BY <1>3, <1>4

(* A block that spends coins its chain left, each once, extends the chain; *)
(* if some blocks only paid their coinbase, they are not local and it is.  *)
LEMMA NewExtends ==
  ASSUME NEW bs, Tree(bs), SpendsOK(bs), NEW bs2, NEW new, \A b \in 1..Len(bs) : bs2[b] = bs[b],
         bs2[Len(bs) + 1] = new, NEW p, Linked(p, bs), NEW plain,
         {Spends[t] : t \in new.txs} \subseteq Left(p, plain, bs),
         \A t, u \in new.txs : Spends[t] = Spends[u] => t = u,
         \A b \in plain : b \in 1..Len(bs) /\ ~bs[b].local, plain = {} \/ new.local
  PROVE  Extends(p, Len(bs) + 1, bs2)
<1>0. Len(bs) \in Nat /\ p \in Seq(Nat) /\ DOMAIN p = 1..Len(p)
  BY DEF Tree, Linked
<1> DEFINE n == Len(bs) + 1
<1>1. n # 0
  BY <1>0
<1> HIDE DEF n
<1>2. TxsIn(n, bs2) = new.txs /\ bs2[n] = new
  BY <1>1 DEF TxsIn, n
<1>3. ASSUME NEW i \in 1..Len(p)
      PROVE  /\ TxsIn(p[i], bs2) = TxsIn(p[i], bs)
             /\ TxsIn(p[i], bs) # {} => bs2[p[i]] = bs[p[i]]
  <2>1. p[i] \in 0..Len(bs)
    BY LinkedHeights
  <2>2. CASE p[i] = 0
    BY <2>2 DEF TxsIn
  <2>3. CASE p[i] # 0
    <3>1. p[i] \in 1..Len(bs)
      BY <1>0, <2>1, <2>3
    <3> QED
      BY <3>1 DEF TxsIn
  <2> QED
    BY <2>2, <2>3
<1>4. ASSUME NEW x \in Elems(p) PROVE TxsIn(x, bs2) = TxsIn(x, bs)
  <2>1. PICK i \in 1..Len(p) : x = p[i]
    BY <1>0, <1>4 DEF Elems
  <2> QED
    BY <1>3, <2>1
<1>5. Made(p, bs2) = Made(p, bs)
  <2>1. \A x \in Elems(p) : TxsIn(x, bs2) = TxsIn(x, bs)
    BY <1>4
  <2> QED
    BY <2>1, MadeSame
<1>6. Left(p, plain, bs) \subseteq Made(p, bs)
  BY <1>0, LeftIsMade
<1>7. \A t \in TxsIn(n, bs2) : Spends[t] \in Made(p, bs2)
  BY <1>2, <1>5, <1>6
<1>8. \A t, u \in TxsIn(n, bs2) : Spends[t] = Spends[u] => t = u
  BY <1>2
<1>9. ASSUME SpentOnceIn(p, bs2), NEW i \in 1..Len(p), NEW t \in TxsIn(p[i], bs2), NEW u \in TxsIn(n, bs2),
             Spends[t] = Spends[u]
      PROVE  ~bs2[p[i]].local /\ bs2[n].local
  <2>1. SpentOnceIn(p, bs)
    BY <1>3, <1>9 DEF SpentOnceIn
  <2>2. t \in TxsIn(p[i], bs) /\ bs2[p[i]] = bs[p[i]]
    BY <1>3, <1>9
  <2>3. Spends[t] \in Left(p, plain, bs)
    BY <1>2, <1>9
  <2>4. p[i] \in plain
    BY <2>1, <2>2, <2>3, SpentIsGone
  <2> QED
    BY <1>2, <2>2, <2>4
<1>10. Extends(p, n, bs2)
  BY <1>7, <1>8, <1>9 DEF Extends
<1> QED
  BY <1>10 DEF n

(* Every block spends what its chain left.                                 *)
SpendInv == SpendsOK(blocks)

LEMMA SpendStep == ChainSound /\ SpendInv /\ [ServiceNext]_<<vars, workVars>> => SpendInv'
<1> SUFFICES ASSUME ChainSound, SpendInv, [ServiceNext]_<<vars, workVars>> PROVE SpendInv'
  OBVIOUS
<1>0. ChainInv /\ Ledger /\ Tree(blocks) /\ Linked(chain, blocks) /\ SpendsOK(blocks)
  BY DEF ChainSound, ChainInv, SpendInv
<1>1. CASE blocks' = blocks
  BY <1>0, <1>1 DEF SpendInv
<1>2. CASE MineBlock
  <2>1. PICK new : Mined(new)
    BY <1>0, <1>2, MineBlockIs
  <2>2. /\ new.txs = Verified /\ new.local = TRUE /\ new.parent = chain[Len(chain)]
        /\ new.parent \in 0..Len(blocks) /\ new \in Blocks /\ Tree(blocks')
        /\ blocks' = Append(blocks, new) /\ Len(blocks') = Len(blocks) + 1
        /\ blocks'[Len(blocks) + 1] = new /\ \A b \in 1..Len(blocks) : blocks'[b] = blocks[b]
    BY <2>1 DEF Mined
  <2>3. mempool \in Seq(Txs) /\ \A b \in skipped : b \in 1..Len(blocks) /\ ~blocks[b].local
    BY <1>0 DEF ChainInv, Pending
  <2>4. /\ {Spends[t] : t \in new.txs} \subseteq Left(chain, skipped, blocks)
        /\ \A t, u \in new.txs : Spends[t] = Spends[u] => t = u
    BY <1>0, <2>2, <2>3, VerifiedSpends DEF Ledger
  <2>5. ASSUME NEW p, Linked(p, blocks), p[Len(p)] = new.parent
        PROVE  Extends(p, Len(blocks) + 1, blocks')
    <3>1. p = chain
      BY <1>0, <2>2, <2>5, LinkedUnique
    <3>2. Extends(chain, Len(blocks) + 1, blocks')
      BY <1>0, <2>2, <2>3, <2>4, NewExtends
    <3> QED
      BY <3>1, <3>2
  <2> QED
    BY <1>0, <2>2, <2>5, SpendsGrow DEF SpendInv
<1>3. ASSUME NEW parent \in 0..Len(blocks), NEW sound \in BOOLEAN, PeerMines(parent, sound) PROVE SpendInv'
  <2>1. PICK new : FromPeer(new)
    BY <1>0, <1>3, PeerMinesIs
  <2>2. /\ new.parent \in 0..Len(blocks) /\ new \in Blocks /\ Tree(blocks')
        /\ blocks' = Append(blocks, new) /\ Len(blocks') = Len(blocks) + 1
        /\ blocks'[Len(blocks) + 1] = new /\ \A b \in 1..Len(blocks) : blocks'[b] = blocks[b]
        /\ \A t, u \in new.txs : Spends[t] = Spends[u] => t = u
    BY <2>1 DEF FromPeer
  <2> DEFINE d == Branch[new.parent]
             plain == {}
  <2>3. Linked(d, blocks) /\ d[Len(d)] = new.parent
    BY <1>0, <2>2, BranchLinked
  <2>4. {Spends[t] : t \in new.txs} \subseteq Left(d, plain, blocks)
    <3>1. {Spends[t] : t \in new.txs} \subseteq Replay(d, plain)
      BY <2>1 DEF FromPeer
    <3> HIDE DEF d, plain
    <3> QED
      BY <3>1, ReplayIsLeft
  <2>5. plain = {} /\ \A b \in plain : b \in 1..Len(blocks) /\ ~blocks[b].local
    OBVIOUS
  <2> HIDE DEF d, plain
  <2>6. ASSUME NEW p, Linked(p, blocks), p[Len(p)] = new.parent
        PROVE  Extends(p, Len(blocks) + 1, blocks')
    <3>1. p = d
      BY <1>0, <2>3, <2>6, LinkedUnique
    <3>2. Extends(d, Len(blocks) + 1, blocks')
      BY <1>0, <2>2, <2>3, <2>4, <2>5, NewExtends
    <3> QED
      BY <3>1, <3>2
  <2> QED
    BY <1>0, <2>2, <2>6, SpendsGrow DEF SpendInv
<1>4. Next \/ UNCHANGED vars
  BY DEF ServiceNext
<1>5. CASE UNCHANGED vars
  BY <1>1, <1>5 DEF vars
<1>6. CASE Next
  <2>1. ASSUME NEW tx \in Txs, NEW validate \in BOOLEAN, AddTransaction(tx, validate) PROVE blocks' = blocks
    BY <2>1 DEF AddTransaction
  <2>2. PersistBlock \/ Restart => blocks' = blocks
    BY DEF PersistBlock, Restart
  <2>3. ASSUME NEW b \in DOMAIN blocks, ApplyBlock(b) \/ PoolBlock(b) PROVE blocks' = blocks
    BY <2>3 DEF ApplyBlock, PoolBlock
  <2>4. ASSUME NEW b \in DOMAIN blocks, NEW k \in 1..Height(b), ResolveLongerChain(b, k) PROVE blocks' = blocks
    BY <2>4 DEF ResolveLongerChain
  <2> QED
    BY <1>1, <1>2, <1>3, <1>6, <2>1, <2>2, <2>3, <2>4 DEF Next
<1> QED
  BY <1>4, <1>5, <1>6

LEMMA SpendInit == Init => SpendInv
<1> SUFFICES ASSUME Init PROVE SpendInv
  OBVIOUS
<1>1. blocks = <<>>
  BY DEF Init
<1>2. \A b \in 1..Len(blocks) : FALSE
  BY <1>1
<1> QED
  BY <1>2 DEF SpendInv, SpendsOK

LEMMA AlwaysSpends == ServiceSpec => []SpendInv
<1>1. ServiceInit => SpendInv
  BY SpendInit DEF ServiceInit
<1> QED
  BY <1>1, SpendStep, AlwaysSound, PTL DEF ServiceSpec

(* The first coin the chain spends twice was first spent in a block of a   *)
(* peer, applied with its coinbase only, and then in a block of this node; *)
(* without peers none is (chain.py:348-354, 372-375).                      *)
THEOREM DoubleSpendCorrect == ServiceSpec => []DoubleSpendNeedsAPeer
<1>1. ChainSound /\ SpendInv => DoubleSpendNeedsAPeer
  <2> SUFFICES ASSUME ChainSound, SpendInv, NEW i \in DOMAIN chain, NEW j \in DOMAIN chain,
                      NEW t \in TxsOf(chain[i]), NEW u \in TxsOf(chain[j]),
                      i <= j, Spends[t] = Spends[u], SpentOnce(SubSeq(chain, 1, j - 1))
               PROVE  IF i = j THEN t = u ELSE ~blocks[chain[i]].local /\ blocks[chain[j]].local
    BY DEF DoubleSpendNeedsAPeer
  <2>0. /\ Tree(blocks) /\ Linked(chain, blocks) /\ SpendsOK(blocks)
        /\ chain \in Seq(Nat) /\ Len(chain) \in Nat /\ chain[1] = 0
        /\ i \in 1..Len(chain) /\ j \in 1..Len(chain)
    <3>1. Tree(blocks) /\ Linked(chain, blocks) /\ SpendsOK(blocks)
      BY Zenon DEF ChainSound, ChainInv, SpendInv
    <3>2. chain \in Seq(Nat) /\ chain[1] = 0
      BY <3>1 DEF Linked
    <3>3. Len(chain) \in Nat /\ DOMAIN chain = 1..Len(chain)
      BY <3>2
    <3> QED
      BY <3>1, <3>2, <3>3, Zenon
  <2>1. \A b : TxsOf(b) = TxsIn(b, blocks)
    BY DEF TxsOf, TxsIn
  <2>2. j # 1
    BY <2>0 DEF TxsOf
  <2>3. j \in 2..Len(chain) /\ j - 1 \in 1..Len(chain)
    BY <2>0, <2>2
  <2> DEFINE p == SubSeq(chain, 1, j - 1)
             b == chain[j]
  <2>4. Linked(p, blocks) /\ Len(p) = j - 1 /\ \A k \in 1..(j - 1) : p[k] = chain[k]
    BY <2>0, <2>3, LinkedPrefix
  <2>5. b \in 1..Len(blocks) /\ blocks[b].parent = chain[j - 1]
    BY <2>0, <2>3 DEF Linked
  <2>6. SpentOnce(p)
    OBVIOUS
  <2> HIDE DEF p, b
  <2>7. blocks[b].parent = p[Len(p)] /\ DOMAIN p = 1..Len(p)
    <3>1. j - 1 \in 1..(j - 1)
      BY <2>0, <2>3
    <3> QED
      BY <2>4, <2>5, <3>1 DEF Linked
  <2>8. Extends(p, b, blocks)
    BY <2>0, <2>4, <2>5, <2>7 DEF SpendsOK
  <2>9. SpentOnceIn(p, blocks)
    BY <2>1, <2>6, <2>7 DEF SpentOnce, SpentOnceIn
  <2>10. t \in TxsIn(chain[i], blocks) /\ u \in TxsIn(b, blocks)
    BY <2>1 DEF b
  <2>11. CASE i = j
    <3>1. t \in TxsIn(b, blocks)
      BY <2>10, <2>11 DEF b
    <3> QED
      BY <2>8, <2>10, <2>11, <3>1 DEF Extends
  <2>12. CASE i # j
    <3>1. i \in 1..(j - 1) /\ i \in 1..Len(p)
      BY <2>0, <2>4, <2>12
    <3>2. p[i] = chain[i]
      BY <2>4, <3>1
    <3>3. t \in TxsIn(p[i], blocks)
      BY <2>10, <3>2
    <3>4. ~blocks[p[i]].local /\ blocks[b].local
      BY <2>8, <2>9, <2>10, <3>1, <3>3 DEF Extends
    <3> QED
      BY <2>12, <3>2, <3>4 DEF b
  <2> QED
    BY <2>11, <2>12
<1> QED
  BY <1>1, AlwaysSound, AlwaysSpends, PTL

-----------------------------------------------------------------------------
(* What becomes of a transaction.                                          *)

(* A transaction leaves the mempool for the chain.                         *)
LEMMA LeavesForTheChain ==
  ChainSound /\ [ServiceNext]_<<vars, workVars>> =>
    [Restart \/ \A t \in InMempool : t \in InMempool' \/ t \in ConfirmedTxs']_vars
<1> SUFFICES ASSUME ChainSound, ServiceNext, ~UNCHANGED vars, ~Restart, NEW t \in InMempool, t \notin InMempool'
             PROVE  t \in ConfirmedTxs'
  BY DEF vars, workVars
<1>0. ChainInv /\ mempool \in Seq(Txs) /\ InMempool = Elems(mempool) /\ InMempool' = Elems(mempool')
  BY DEF ChainSound, ChainInv, Pending, InMempool, Elems
<1>1. Next
  BY DEF ServiceNext
<1>2. CASE mempool' = mempool
  BY <1>0, <1>2
<1>3. ASSUME NEW tx \in Txs, NEW validate \in BOOLEAN, AddTransaction(tx, validate) PROVE FALSE
  <2>1. mempool' = Insert(tx)
    BY <1>3 DEF AddTransaction
  <2>2. Elems(mempool') = Elems(mempool) \cup {tx}
    BY <1>0, <2>1, InsertType
  <2> QED
    BY <1>0, <2>2
<1>4. CASE MineBlock
  <2>1. PICK new : Mined(new)
    BY <1>0, <1>4, MineBlockIs
  <2>2. /\ Template.txs = Verified /\ blocks'[Len(blocks) + 1].txs = Verified
        /\ Elems(chain') = Elems(chain) \cup {Len(blocks) + 1} /\ Len(blocks) \in Nat
    BY <2>1 DEF Mined
  <2>3. mempool' = Kept(mempool, Txs \ Verified)
    BY <1>4, <2>2 DEF MineBlock
  <2>4. Elems(mempool') = Elems(mempool) \cap (Txs \ Verified)
    BY <1>0, <2>3, KeptElems
  <2>5. t \in Verified
    BY <1>0, <2>4, ElemsType
  <2>6. PICK n : n # 0 /\ n \in Elems(chain') /\ blocks'[n].txs = Verified
    BY <2>2
  <2>7. t \in TxsOf(n)'
    BY <2>5, <2>6 DEF TxsOf
  <2>8. InChain' = Elems(chain')
    BY DEF InChain, Elems
  <2> QED
    BY <2>6, <2>7, <2>8 DEF ConfirmedTxs
<1>5. CASE PersistBlock
  BY <1>2, <1>5 DEF PersistBlock
<1>6. ASSUME NEW parent \in 0..Len(blocks), NEW sound \in BOOLEAN, PeerMines(parent, sound)
      PROVE  mempool' = mempool
  BY <1>6 DEF PeerMines
<1>7. ASSUME NEW b \in DOMAIN blocks, ApplyBlock(b) \/ PoolBlock(b) PROVE mempool' = mempool
  BY <1>7 DEF ApplyBlock, PoolBlock
<1>8. ASSUME NEW b \in DOMAIN blocks, NEW k \in 1..Height(b), ResolveLongerChain(b, k) PROVE mempool' = mempool
  BY <1>8 DEF ResolveLongerChain
<1> QED
  BY <1>1, <1>2, <1>3, <1>4, <1>5, <1>6, <1>7, <1>8 DEF Next

(* A confirmed one stays while the chain does not grow.                     *)
LEMMA StaysInTheChain ==
  ChainSound /\ [ServiceNext]_<<vars, workVars>> =>
    [ConfirmedTxs \subseteq ConfirmedTxs' \/ puts = 0 \/ Len(chain') > Len(chain)]_vars
<1> SUFFICES ASSUME ChainSound, ServiceNext, ~UNCHANGED vars, puts # 0, ~(Len(chain') > Len(chain))
             PROVE  ConfirmedTxs \subseteq ConfirmedTxs'
  BY DEF vars, workVars
<1>0. /\ ChainInv /\ Tree(blocks) /\ Linked(chain, blocks) /\ Len(chain) \in Nat /\ chain \in Seq(Nat)
      /\ DOMAIN blocks = 1..Len(blocks)
  <2>1. ChainInv /\ Tree(blocks) /\ Linked(chain, blocks)
    BY Zenon DEF ChainSound, ChainInv
  <2>2. blocks \in Seq(Blocks) /\ chain \in Seq(Nat)
    BY <2>1 DEF Linked, Tree
  <2>3. Len(chain) \in Nat /\ DOMAIN blocks = 1..Len(blocks)
    BY <2>2
  <2> QED
    BY <2>1, <2>2, <2>3, Zenon
<1>1. Next
  BY DEF ServiceNext
<1>2. ASSUME chain' = chain, \A b \in 1..Len(blocks) : blocks'[b] = blocks[b]
      PROVE  ConfirmedTxs \subseteq ConfirmedTxs'
  <2>1. InChain' = InChain /\ InChain = Elems(chain)
    BY <1>2 DEF InChain, Elems
  <2>2. ASSUME NEW b \in InChain PROVE TxsOf(b)' = TxsOf(b)
    <3>1. PICK i \in 1..Len(chain) : b = chain[i]
      BY <1>0, <2>1, <2>2 DEF Elems
    <3>2. b \in 0..Len(blocks)
      BY <1>0, <3>1, LinkedHeights
    <3>3. CASE b = 0
      BY <3>3 DEF TxsOf
    <3>4. CASE b # 0
      <4>1. b \in 1..Len(blocks)
        <5>1. Len(blocks) \in Nat
          BY <1>0 DEF Tree
        <5> QED
          BY <3>2, <3>4, <5>1
      <4> QED
        BY <1>2, <3>4, <4>1 DEF TxsOf
    <3> QED
      BY <3>3, <3>4
  <2> SUFFICES ASSUME NEW t \in ConfirmedTxs PROVE t \in ConfirmedTxs'
    OBVIOUS
  <2>3. PICK b \in InChain : t \in TxsOf(b)
    BY DEF ConfirmedTxs
  <2>4. b \in InChain' /\ t \in TxsOf(b)'
    BY <2>1, <2>2, <2>3
  <2> QED
    BY <2>4 DEF ConfirmedTxs
<1>3. ASSUME NEW tx \in Txs, NEW validate \in BOOLEAN, AddTransaction(tx, validate)
      PROVE  ConfirmedTxs \subseteq ConfirmedTxs'
  BY <1>2, <1>3 DEF AddTransaction
<1>4. CASE MineBlock
  <2>1. PICK new : Mined(new)
    BY <1>0, <1>4, MineBlockIs
  <2> QED
    BY <1>0, <2>1 DEF Mined
<1>5. CASE PersistBlock
  BY <1>2, <1>5 DEF PersistBlock
<1>6. CASE Restart
  <2>1. mode = "daemon" /\ blocks' = blocks /\ chain' = Rebuilt
    BY <1>6 DEF Restart
  <2>2. chain' = chain
    BY <1>0, <2>1, BaseIs DEF Base
  <2> QED
    BY <1>2, <2>1, <2>2
<1>7. ASSUME NEW parent \in 0..Len(blocks), NEW sound \in BOOLEAN, PeerMines(parent, sound)
      PROVE  ConfirmedTxs \subseteq ConfirmedTxs'
  <2>1. PICK new : FromPeer(new)
    BY <1>0, <1>7, PeerMinesIs
  <2>2. \A b \in 1..Len(blocks) : blocks'[b] = blocks[b]
    BY <2>1 DEF FromPeer
  <2>3. chain' = chain
    BY <1>7 DEF PeerMines
  <2> QED
    BY <1>2, <2>2, <2>3
<1>w. ASSUME NEW c, Linked(c, blocks), Len(c) > Len(chain), NEW more, Path(c[Len(c)], more, blocks),
             chain' = c \o more
      PROVE  FALSE
  <2>1. Len(c \o more) = Len(c) + Len(more) /\ Len(more) \in Nat /\ Len(c) \in Nat
    BY <1>0, <1>w, PathAhead DEF Linked
  <2> QED
    BY <1>0, <1>w, <2>1
<1>8. ASSUME NEW b \in 1..Len(blocks), ApplyBlock(b) PROVE FALSE
  <2> DEFINE c == Append(chain, b)
  <2>1. PICK more : /\ Went(c, utxo \cup {b}, skipped \cup {b}, more)
                    /\ Linked(c, blocks) /\ Len(c) = Len(chain) + 1
    BY <1>0, <1>8, ApplyBlockIs
  <2> HIDE DEF c
  <2>2. Path(c[Len(c)], more, blocks) /\ chain' = c \o more
    BY <2>1 DEF Went
  <2>3. Len(c) > Len(chain)
    BY <1>0, <2>1
  <2> QED
    BY <1>w, <2>1, <2>2, <2>3
<1>9. ASSUME NEW b \in 1..Len(blocks), NEW k \in 1..Height(b), ResolveLongerChain(b, k) PROVE FALSE
  <2>1. PICK more, c : Went(c, Replay(c, {}), {}, more) /\ Linked(c, blocks) /\ Len(c) > Len(chain)
    BY <1>0, <1>9, ResolveIs
  <2>2. Path(c[Len(c)], more, blocks) /\ chain' = c \o more
    BY <2>1 DEF Went
  <2> QED
    BY <1>w, <2>1, <2>2
<1>10. ASSUME NEW b \in 1..Len(blocks), PoolBlock(b) PROVE ConfirmedTxs \subseteq ConfirmedTxs'
  BY <1>2, <1>10 DEF PoolBlock
<1> QED
  BY <1>0, <1>1, <1>3, <1>4, <1>5, <1>6, <1>7, <1>8, <1>9, <1>10 DEF Next

(* A transaction gets from the mempool into the chain and stays there, but  *)
(* for a crash or a switch to a longer chain (chain.py:369-385).            *)
THEOREM KeptCorrect == ServiceSpec => TransactionsAreKept
<1>1. ServiceSpec => MempoolLeavesForTheChain
  BY AlwaysSound, LeavesForTheChain, PTL DEF ServiceSpec, MempoolLeavesForTheChain
<1>2. ServiceSpec => ConfirmedStays
  BY AlwaysSound, StaysInTheChain, PTL DEF ServiceSpec, ConfirmedStays
<1> QED
  BY <1>1, <1>2 DEF TransactionsAreKept

-----------------------------------------------------------------------------
(* External work: the rate of the requests.                                *)

Since(k, n) == {u \in 0..n : u >= k}
Agree(b, f, k, n) == SumFunctionOnSet(f, Since(k, n)) = Len(Kept(b, k..n))
Within(f, t) == SumFunctionOnSet(f, Since(t - Window + 1, t)) <= MaxRequests
\* The bucket b agrees with the requests f served until n.
Counts(b, f, n) ==
    /\ b \in Seq(0..n) /\ f \in [0..MaxTime -> Nat]
    /\ \A u \in 0..MaxTime : u > n => f[u] = 0
    /\ \A k \in (n - Window + 1)..n : Agree(b, f, k, n)
Limits(f, n) == \A t \in 0..n : Within(f, t)
\* One request more at n.
OneMore(g, f, n) ==
    /\ g \in [0..MaxTime -> Nat] /\ g[n] = f[n] + 1
    /\ \A u \in 0..MaxTime : u # n => g[u] = f[u]

(* The times since k are finitely many.                                    *)
LEMMA SinceIs ==
  ASSUME NEW n \in Nat, NEW k \in Int
  PROVE  IsFiniteSet(Since(k, n)) /\ Since(k, n) \subseteq 0..n
<1>1. IsFiniteSet(0..n) /\ Since(k, n) \subseteq 0..n
  BY FS_Interval DEF Since
<1> QED
  BY <1>1, FS_Subset

(* Dropping what is old changes no count.                                  *)
LEMMA CountsPruned ==
  ASSUME NEW n \in Nat, NEW b, NEW f, Counts(b, f, n)
  PROVE  Counts(Kept(b, (n - Window + 1)..n), f, n)
<1> DEFINE T == 0..n
           S == (n - Window + 1)..n
           d == Kept(b, S)
<1>0. b \in Seq(T) /\ Window \in Nat
  BY WorkAssumption DEF Counts
<1>1. d \in Seq(T)
  BY <1>0, KeptType
<1>2. ASSUME NEW k \in S PROVE Kept(d, k..n) = Kept(b, k..n)
  <2> DEFINE Q == k..n
  <2>1. S \cap Q = Q
    BY <1>0
  <2> HIDE DEF S, T, Q
  <2>2. Kept(Kept(b, S), Q) = Kept(b, S \cap Q)
    BY <1>0, KeptTwice
  <2> QED
    BY <2>1, <2>2, Zenon DEF d, Q
<1>3. \A k \in S : Agree(d, f, k, n)
  <2> HIDE DEF d
  <2> QED
    BY <1>2, Zenon DEF Counts, Agree
<1> HIDE DEF d
<1> QED
  BY <1>1, <1>3 DEF Counts, d

(* A request that is served is counted, and keeps the limit.               *)
LEMMA CountsRequest ==
  ASSUME NEW n \in 0..MaxTime, NEW b, NEW f, Counts(b, f, n), Limits(f, n),
         Len(Kept(b, (n - Window + 1)..n)) < MaxRequests,
         NEW g, OneMore(g, f, n)
  PROVE  Counts(Append(Kept(b, (n - Window + 1)..n), n), g, n) /\ Limits(g, n)
<1> DEFINE T == 0..n
           S == (n - Window + 1)..n
           e == Kept(b, S)
           d == Append(e, n)
<1>0. /\ n \in Nat /\ MaxTime \in Nat /\ Window \in Nat /\ Window >= 1 /\ MaxRequests \in Nat
      /\ f \in [0..MaxTime -> Nat] /\ g \in [0..MaxTime -> Nat] /\ g[n] = f[n] + 1
      /\ \A u \in 0..MaxTime : u # n => g[u] = f[u]
  <2>1. MaxTime \in Nat /\ Window \in Nat /\ Window >= 1 /\ MaxRequests \in Nat
    BY WorkAssumption
  <2>2. n \in Nat
    BY <2>1
  <2>3. f \in [0..MaxTime -> Nat]
    BY Zenon DEF Counts
  <2>4. /\ g \in [0..MaxTime -> Nat] /\ g[n] = f[n] + 1
        /\ \A u \in 0..MaxTime : u # n => g[u] = f[u]
    BY DEF OneMore
  <2> QED
    BY <2>1, <2>2, <2>3, <2>4, Zenon
<1>1. Counts(e, f, n)
  BY <1>0, CountsPruned
<1>2. e \in Seq(T) /\ n \in T
  BY <1>0, <1>1 DEF Counts
<1> HIDE DEF e
<1>3. d \in Seq(T) /\ d = Append(e, n)
  BY <1>2
<1> HIDE DEF d
<1>4. ASSUME NEW k \in S
      PROVE  SumFunctionOnSet(g, Since(k, n)) = SumFunctionOnSet(f, Since(k, n)) + 1
  <2> DEFINE R == Since(k, n)
  <2>0. k \in Int /\ n \in 0..n /\ n >= k
    BY <1>0
  <2>1. IsFiniteSet(R) /\ R \subseteq 0..n /\ n \in R
    <3>1. IsFiniteSet(R) /\ R \subseteq 0..n
      BY <1>0, <2>0, SinceIs
    <3> QED
      BY <2>0, <3>1 DEF Since
  <2>2. \A y \in R : y \in 0..MaxTime
    BY <1>0, <2>1
  <2>3. \A y \in R : f[y] \in Nat /\ g[y] \in Nat
    BY <1>0, <2>2
  <2>4. \A y \in R \ {n} : f[y] = g[y]
    BY <1>0, <2>2
  <2>5. SumFunctionOnSet(f, R) \in Nat
    <3> HIDE DEF R
    <3> QED
      BY <2>1, <2>3, SumNat
  <2>6. SumFunctionOnSet(g, R) = SumFunctionOnSet(f, R) + (g[n] - f[n])
    <3> HIDE DEF R
    <3>1. \A y \in R : f[y] \in Int /\ g[y] \in Int
      BY <2>3
    <3>2. IsFiniteSet(R) /\ n \in R
      BY <2>1
    <3> HIDE DEF T, S
    <3>3. \A x \in R : (\A y \in R \ {x} : f[y] = g[y])
                      => SumFunctionOnSet(g, R) = SumFunctionOnSet(f, R) + (g[x] - f[x])
      BY <3>1, <3>2, SumChange
    <3> QED
      BY <2>4, <3>2, <3>3
  <2> HIDE DEF R
  <2>7. SumFunctionOnSet(g, R) = SumFunctionOnSet(f, R) + 1
    BY <1>0, <2>5, <2>6
  <2> QED
    BY <2>7 DEF R
<1>5. ASSUME NEW k \in S
      PROVE  Agree(d, g, k, n)
  <2>1. Kept(d, k..n) = Append(Kept(e, k..n), n)
    <3>1. n \in k..n
      BY <1>0
    <3> DEFINE Q == k..n
    <3>2. Kept(Append(e, n), Q) = IF n \in Q THEN Append(Kept(e, Q), n) ELSE Kept(e, Q)
      <4> HIDE DEF T, Q
      <4> QED
        BY <1>2, KeptAppend
    <3> HIDE DEF T
    <3> QED
      BY <1>3, <3>1, <3>2, Zenon
  <2>2. Kept(e, k..n) \in Seq(T)
    <3> HIDE DEF T
    <3> QED
      BY <1>2, KeptType
  <2>3. Len(Kept(d, k..n)) = Len(Kept(e, k..n)) + 1
    BY <1>2, <2>1, <2>2
  <2>4. SumFunctionOnSet(f, Since(k, n)) = Len(Kept(e, k..n))
    BY <1>1 DEF Counts, Agree
  <2> QED
    BY <1>4, <2>3, <2>4, Zenon DEF Agree
<1>6. Counts(d, g, n)
  <2>1. \A u \in 0..MaxTime : u > n => g[u] = 0
    BY <1>0, <1>1 DEF Counts
  <2> QED
    BY <1>0, <1>3, <1>5, <2>1, Zenon DEF Counts
<1>7. ASSUME NEW t \in 0..n, t # n
      PROVE  Within(g, t)
  <2> DEFINE R == Since(t - Window + 1, t)
  <2>1. IsFiniteSet(R) /\ \A y \in R : y \in 0..t
    BY <1>0, SinceIs
  <2>2. \A y \in R : f[y] = g[y]
    <3> SUFFICES ASSUME NEW y \in R PROVE f[y] = g[y]
      OBVIOUS
    <3>1. y \in 0..t
      BY <2>1
    <3> HIDE DEF R
    <3>2. y \in 0..MaxTime /\ y # n
      BY <1>0, <1>7, <3>1
    <3> QED
      BY <1>0, <3>2
  <2>3. SumFunctionOnSet(f, R) = SumFunctionOnSet(g, R)
    <3>1. IsFiniteSet(R) /\ \A y \in R : f[y] = g[y]
      BY <2>1, <2>2
    <3> HIDE DEF R
    <3> QED
      BY <3>1, SumSame
  <2> QED
    BY <2>3 DEF Limits, Within
<1>8. Within(g, n)
  <2> DEFINE k == n - Window + 1
  <2>1. k \in S
    BY <1>0
  <2>2. SumFunctionOnSet(f, Since(k, n)) = Len(Kept(b, k..n))
    BY <2>1 DEF Counts, Agree
  <2>3. Kept(b, k..n) \in Seq(T)
    BY <1>2 DEF e
  <2>4. Len(Kept(b, k..n)) \in Nat
    BY <2>3
  <2>5. SumFunctionOnSet(g, Since(k, n)) = SumFunctionOnSet(f, Since(k, n)) + 1
    BY <1>4, <2>1
  <2>6. Len(Kept(b, k..n)) < MaxRequests
    OBVIOUS
  <2> HIDE DEF k
  <2> QED
    BY <1>0, <2>2, <2>4, <2>5, <2>6 DEF k, Within
<1> QED
  BY <1>6, <1>7, <1>8 DEF Limits, d, e

(* Time passes: no more requests are in the new window than in the old one. *)
LEMMA CountsTick ==
  ASSUME NEW n \in 0..MaxTime, n < MaxTime, NEW b, NEW f, Counts(b, f, n), Limits(f, n)
  PROVE  Counts(b, f, n + 1) /\ Limits(f, n + 1)
<1>0. /\ n \in Nat /\ MaxTime \in Nat /\ Window \in Nat /\ Window >= 1 /\ MaxRequests \in Nat
      /\ f \in [0..MaxTime -> Nat] /\ b \in Seq(0..n) /\ f[n + 1] = 0
      /\ n + 1 \in 0..MaxTime
  BY WorkAssumption DEF Counts
<1>1. b \in Seq(0..(n + 1))
  <2>1. 0..n \subseteq 0..(n + 1)
    BY <1>0
  <2> QED
    BY <1>0, <2>1
<1>2. ASSUME NEW k \in Int, k <= n
      PROVE  SumFunctionOnSet(f, Since(k, n + 1)) = SumFunctionOnSet(f, Since(k, n))
  <2> DEFINE R == Since(k, n)
  <2>1. IsFiniteSet(R) /\ \A y \in R : y \in 0..MaxTime
    BY <1>0, SinceIs
  <2>2. Since(k, n + 1) = R \cup {n + 1} /\ n + 1 \notin R
    BY <1>0, <1>2 DEF Since
  <2>3. \A y \in R \cup {n + 1} : f[y] \in Nat
    BY <1>0, <2>1
  <2>4. SumFunctionOnSet(f, R) \in Nat
    <3> HIDE DEF R
    <3> QED
      BY <2>1, <2>3, SumNat
  <2> HIDE DEF R
  <2>5. SumFunctionOnSet(f, R \cup {n + 1}) = SumFunctionOnSet(f, R) + f[n + 1]
    <3>1. \A y \in R \cup {n + 1} : f[y] \in Int
      BY <2>3
    <3> QED
      BY <2>1, <2>2, <3>1, SumAdd
  <2>6. SumFunctionOnSet(f, R \cup {n + 1}) = SumFunctionOnSet(f, R)
    BY <1>0, <2>4, <2>5
  <2> QED
    BY <2>2, <2>6, Zenon DEF R
<1>3. SumFunctionOnSet(f, Since(n + 1, n + 1)) = 0
  <2>1. IsFiniteSet(Since(n + 1, n + 1)) /\ \A y \in Since(n + 1, n + 1) : y = n + 1
    <3>1. IsFiniteSet(Since(n + 1, n + 1))
      BY <1>0, SinceIs
    <3>2. \A y \in 0..(n + 1) : y >= n + 1 => y = n + 1
      BY <1>0
    <3> QED
      BY <3>1, <3>2 DEF Since
  <2>2. \A y \in Since(n + 1, n + 1) : f[y] = 0
    BY <1>0, <2>1
  <2> QED
    BY <2>1, <2>2, SumZero
<1>4. ASSUME NEW k \in ((n + 1) - Window + 1)..(n + 1)
      PROVE  Agree(b, f, k, n + 1)
  <2>1. CASE k = n + 1
    <3> DEFINE S == k..(n + 1)
               T == 0..n
    <3>1. Elems(b) \subseteq T
      BY <1>0, ElemsType
    <3>2. Elems(b) \cap S = {}
      BY <1>0, <2>1, <3>1
    <3> HIDE DEF S, T
    <3>3. Kept(b, S) = <<>>
      BY <1>0, <3>2, KeptNone DEF T
    <3>4. Len(Kept(b, S)) = 0
      BY <3>3
    <3> QED
      BY <1>3, <2>1, <3>4, Zenon DEF S, Agree
  <2>2. CASE k # n + 1
    <3> DEFINE S == k..(n + 1)
               Q == k..n
               T == 0..n
    <3>1. k <= n /\ k \in (n - Window + 1)..n /\ k \in Int
      BY <1>0, <2>2
    <3>2. \A x \in T : x \in S <=> x \in Q
      BY <1>0, <3>1
    <3>3. Elems(b) \subseteq T
      BY <1>0, ElemsType
    <3>4. SumFunctionOnSet(f, Since(k, n)) = Len(Kept(b, Q))
      BY <3>1 DEF Counts, Agree
    <3>5. SumFunctionOnSet(f, Since(k, n + 1)) = SumFunctionOnSet(f, Since(k, n))
      BY <1>2, <3>1
    <3>6. b \in Seq(T)
      BY <1>0
    <3> HIDE DEF S, T, Q
    <3>7. Kept(b, S) = Kept(b, Q)
      BY <3>2, <3>3, <3>6, KeptSame
    <3> QED
      BY <3>4, <3>5, <3>7, Zenon DEF S, Agree
  <2> QED
    BY <2>1, <2>2
<1>5. \A u \in 0..MaxTime : u > n + 1 => f[u] = 0
  BY <1>0 DEF Counts
<1>6. Within(f, n + 1)
  <2>1. CASE Window = 1
    <3>1. (n + 1) - Window + 1 = n + 1
      BY <1>0, <2>1
    <3> QED
      BY <1>0, <1>3, <3>1 DEF Within
  <2>2. CASE Window # 1
    <3> DEFINE k == (n + 1) - Window + 1
               R == Since(n - Window + 1, n)
               Q == Since(k, n)
    <3>1. k \in Int /\ k <= n /\ n - Window + 1 \in Int
      BY <1>0, <2>2
    <3>2. SumFunctionOnSet(f, Since(k, n + 1)) = SumFunctionOnSet(f, Q)
      <4> HIDE DEF k
      <4> QED
        BY <1>2, <3>1
    <3>3. IsFiniteSet(R) /\ \A y \in R : y \in 0..MaxTime
      BY <1>0, <3>1, SinceIs
    <3>4. Q \subseteq R
      BY <1>0 DEF Since
    <3>5. \A y \in R : f[y] \in Nat
      BY <1>0, <3>3
    <3>6. SumFunctionOnSet(f, R) <= MaxRequests
      BY <1>0 DEF Limits, Within
    <3>7. IsFiniteSet(Q) /\ \A y \in Q : f[y] \in Nat
      <4> HIDE DEF Q, R
      <4> QED
        BY <3>3, <3>4, <3>5, FS_Subset
    <3> HIDE DEF k, Q, R
    <3>8. SumFunctionOnSet(f, Q) <= SumFunctionOnSet(f, R)
      BY <3>3, <3>4, <3>5, SumPart
    <3>9. SumFunctionOnSet(f, Q) \in Nat /\ SumFunctionOnSet(f, R) \in Nat
      BY <3>3, <3>5, <3>7, SumNat
    <3>10. SumFunctionOnSet(f, Q) <= MaxRequests
      BY <1>0, <3>6, <3>8, <3>9
    <3>11. SumFunctionOnSet(f, Since(k, n + 1)) <= MaxRequests
      BY <3>2, <3>10
    <3> QED
      BY <3>11 DEF k, Within
  <2> QED
    BY <2>1, <2>2
<1>7. Limits(f, n + 1)
  <2>1. \A t \in 0..(n + 1) : t = n + 1 \/ t \in 0..n
    BY <1>0
  <2> QED
    BY <1>6, <2>1 DEF Limits
<1>8. Counts(b, f, n + 1)
  <2>1. \A k \in ((n + 1) - Window + 1)..(n + 1) : Agree(b, f, k, n + 1)
    BY <1>4
  <2> QED
    BY <1>0, <1>1, <1>5, <2>1 DEF Counts
<1> QED
  BY <1>7, <1>8

RatesOK(bk, sv, n) ==
    /\ DOMAIN bk = Clients /\ DOMAIN sv = Clients
    /\ bk = [c \in Clients |-> bk[c]] /\ sv = [c \in Clients |-> sv[c]]
    /\ \A c \in Clients : Counts(bk[c], sv[c], n) /\ Limits(sv[c], n)

(* A request of one client leaves the others as they are.                  *)
LEMMA RatesServed ==
  ASSUME now \in 0..MaxTime, RatesOK(buckets, served, now), NEW c \in Clients, CheckRate(c)
  PROVE  RatesOK(buckets', served', now)
<1> DEFINE n == now
           b == buckets[c]
           f == served[c]
           g == served'[c]
<1>1. /\ DOMAIN buckets = Clients /\ DOMAIN served = Clients
      /\ Len(Kept(b, (n - Window + 1)..n)) < MaxRequests
      /\ buckets' = [buckets EXCEPT ![c] = Append(Kept(b, (n - Window + 1)..n), n)]
      /\ served' = [served EXCEPT ![c] = [f EXCEPT ![n] = f[n] + 1]]
  BY DEF CheckRate, Fresh, RatesOK
<1>2. Counts(b, f, n) /\ Limits(f, n)
  BY DEF RatesOK
<1>3. /\ buckets'[c] = Append(Kept(b, (n - Window + 1)..n), n)
      /\ g = [f EXCEPT ![n] = f[n] + 1]
      /\ \A d \in Clients \ {c} : buckets'[d] = buckets[d] /\ served'[d] = served[d]
      /\ DOMAIN buckets' = Clients /\ DOMAIN served' = Clients
      /\ buckets' = [d \in Clients |-> buckets'[d]] /\ served' = [d \in Clients |-> served'[d]]
  BY <1>1
<1>4. OneMore(g, f, n)
  <2>1. f \in [0..MaxTime -> Nat] /\ n \in 0..MaxTime
    BY <1>2 DEF Counts
  <2> HIDE DEF g, f, n
  <2> QED
    BY <1>3, <2>1 DEF OneMore
<1>5. Counts(buckets'[c], g, n) /\ Limits(g, n)
  <2>1. n \in 0..MaxTime
    OBVIOUS
  <2> HIDE DEF b, f, g, n
  <2>2. /\ Counts(Append(Kept(b, (n - Window + 1)..n), n), g, n)
        /\ Limits(g, n)
    BY <1>1, <1>2, <1>4, <2>1, CountsRequest
  <2> QED
    BY <1>3, <2>2, Zenon
<1>6. ASSUME NEW d \in Clients PROVE Counts(buckets'[d], served'[d], now) /\ Limits(served'[d], now)
  <2>1. CASE d = c
    BY <1>5, <2>1
  <2>2. CASE d # c
    BY <1>3, <2>2 DEF RatesOK
  <2> QED
    BY <2>1, <2>2
<1> QED
  BY <1>3, <1>6 DEF RatesOK

(* A request over the limit is not counted.                                *)
LEMMA RatesRefused ==
  ASSUME now \in 0..MaxTime, RatesOK(buckets, served, now), NEW c \in Clients, RateExceeded(c)
  PROVE  RatesOK(buckets', served, now)
<1> DEFINE n == now
           b == buckets[c]
<1>1. /\ DOMAIN buckets = Clients
      /\ buckets' = [buckets EXCEPT ![c] = Kept(b, (n - Window + 1)..n)]
  BY DEF RateExceeded, Fresh, RatesOK
<1>2. n \in Nat /\ Counts(b, served[c], n)
  BY WorkAssumption DEF RatesOK
<1>3. /\ buckets'[c] = Kept(b, (n - Window + 1)..n)
      /\ \A d \in Clients \ {c} : buckets'[d] = buckets[d]
      /\ DOMAIN buckets' = Clients /\ buckets' = [d \in Clients |-> buckets'[d]]
  BY <1>1
<1>4. Counts(buckets'[c], served[c], now)
  <2> HIDE DEF b, n
  <2>1. Counts(Kept(b, (n - Window + 1)..n), served[c], n)
    BY <1>2, CountsPruned
  <2> QED
    BY <1>3, <2>1, Zenon DEF n
<1> QED
  BY <1>3, <1>4 DEF RatesOK

(* Time passes.                                                            *)
LEMMA RatesTick ==
  ASSUME NEW bk, NEW sv, NEW n \in 0..MaxTime, n < MaxTime, RatesOK(bk, sv, n)
  PROVE  RatesOK(bk, sv, n + 1)
BY CountsTick DEF RatesOK

-----------------------------------------------------------------------------
(* External work: the templates and what was credited for them.            *)

TemplateIn(c) == [prev : Elems(c), expires : Nat, shares : SUBSET Shares, admitted : SUBSET SUBSET Txs]
TemplatesOK(tm, is, c) ==
    DOMAIN tm \subseteq 1..is /\ tm \in [DOMAIN tm -> TemplateIn(c)]
CreditOK(cr, tm, is) ==
    /\ cr \in [1..MaxTemplates -> [Shares -> Nat]]
    /\ \A n \in 1..MaxTemplates : \A s \in Shares :
         /\ cr[n][s] <= 1 /\ (n > is => cr[n][s] = 0)
         /\ cr[n][s] # 0 /\ n \in DOMAIN tm => s \in tm[n].shares
CanApply(tm, tip, coins) ==
    \A n \in DOMAIN tm : tm[n].prev = tip =>
      \A txs \in tm[n].admitted : {Spends[t] : t \in txs} \subseteq coins
WorkOK(tm, is, cr, c, tip, coins) ==
    /\ is \in 0..MaxTemplates
    /\ TemplatesOK(tm, is, c) /\ CreditOK(cr, tm, is) /\ CanApply(tm, tip, coins)

(* A new template asks for a block on the tip; it has no share yet.         *)
LEMMA WorkIssued ==
  ASSUME NEW tm, NEW is, NEW cr, NEW c, NEW tip \in Elems(c), NEW coins, WorkOK(tm, is, cr, c, tip, coins),
         is < MaxTemplates, NEW expires \in Nat,
         NEW tm2, tm2 = [n \in DOMAIN tm \cup {is + 1} |->
           IF n = is + 1 THEN [prev |-> tip, expires |-> expires, shares |-> {}, admitted |-> {}] ELSE tm[n]]
  PROVE  WorkOK(tm2, is + 1, cr, c, tip, coins)
<1>0. is \in Nat /\ MaxTemplates \in Nat /\ DOMAIN tm \subseteq 1..is /\ is + 1 \in 0..MaxTemplates
  BY WorkAssumption DEF WorkOK, TemplatesOK
<1> DEFINE new == [prev |-> tip, expires |-> expires, shares |-> {}, admitted |-> {}]
<1>1. /\ DOMAIN tm2 = DOMAIN tm \cup {is + 1} /\ tm2[is + 1] = new
      /\ \A n \in DOMAIN tm : tm2[n] = tm[n] /\ n # is + 1
  BY <1>0
<1>2. new \in TemplateIn(c) /\ new.admitted = {}
  BY DEF TemplateIn
<1> HIDE DEF new
<1>3. TemplatesOK(tm2, is + 1, c)
  <2>1. DOMAIN tm2 \subseteq 1..(is + 1)
    BY <1>0, <1>1
  <2>2. \A n \in DOMAIN tm2 : tm2[n] \in TemplateIn(c)
    BY <1>1, <1>2 DEF WorkOK, TemplatesOK
  <2>3. tm2 = [n \in DOMAIN tm2 |-> tm2[n]]
    OBVIOUS
  <2> QED
    BY <2>1, <2>2, <2>3 DEF TemplatesOK
<1>4. CreditOK(cr, tm2, is + 1)
  <2>1. ASSUME NEW n \in 1..MaxTemplates, NEW s \in Shares
        PROVE  /\ cr[n][s] <= 1 /\ (n > is + 1 => cr[n][s] = 0)
               /\ cr[n][s] # 0 /\ n \in DOMAIN tm2 => s \in tm2[n].shares
    <3>1. /\ cr[n][s] <= 1 /\ (n > is => cr[n][s] = 0)
          /\ cr[n][s] # 0 /\ n \in DOMAIN tm => s \in tm[n].shares
      BY DEF WorkOK, CreditOK
    <3>2. CASE n = is + 1
      BY <1>0, <3>1, <3>2
    <3>3. CASE n # is + 1
      BY <1>0, <1>1, <3>1, <3>3
    <3> QED
      BY <3>2, <3>3
  <2> QED
    BY <2>1 DEF WorkOK, CreditOK
<1>5. CanApply(tm2, tip, coins)
  BY <1>1, <1>2 DEF WorkOK, CanApply
<1> QED
  BY <1>0, <1>3, <1>4, <1>5 DEF WorkOK

(* A share that is new to its template is credited.                        *)
LEMMA WorkCredited ==
  ASSUME NEW tm, NEW is, NEW cr, NEW c, NEW tip, NEW coins, WorkOK(tm, is, cr, c, tip, coins),
         NEW n \in DOMAIN tm, NEW share \in Shares, share \notin tm[n].shares,
         NEW tm2, tm2 = [tm EXCEPT ![n].shares = @ \cup {share}],
         NEW cr2, cr2 = [cr EXCEPT ![n][share] = @ + 1]
  PROVE  WorkOK(tm2, is, cr2, c, tip, coins)
<1>0. /\ is \in Nat /\ MaxTemplates \in Nat /\ is <= MaxTemplates /\ DOMAIN tm \subseteq 1..is
      /\ n \in 1..is /\ n \in 1..MaxTemplates /\ tm[n] \in TemplateIn(c)
      /\ cr \in [1..MaxTemplates -> [Shares -> Nat]] /\ cr[n] \in [Shares -> Nat]
  BY WorkAssumption DEF WorkOK, TemplatesOK, CreditOK
<1>1. /\ DOMAIN tm2 = DOMAIN tm /\ tm2[n] = [tm[n] EXCEPT !.shares = @ \cup {share}]
      /\ \A m \in DOMAIN tm \ {n} : tm2[m] = tm[m]
      /\ tm2 = [m \in DOMAIN tm2 |-> tm2[m]]
  OBVIOUS
<1>2. /\ tm2[n] \in TemplateIn(c) /\ tm2[n].shares = tm[n].shares \cup {share}
      /\ tm2[n].prev = tm[n].prev /\ tm2[n].admitted = tm[n].admitted
  BY <1>0, <1>1 DEF TemplateIn
<1>3. TemplatesOK(tm2, is, c)
  <2>1. \A m \in DOMAIN tm2 : tm2[m] \in TemplateIn(c)
    BY <1>1, <1>2 DEF WorkOK, TemplatesOK
  <2> QED
    BY <1>0, <1>1, <2>1 DEF TemplatesOK
<1>4. CanApply(tm2, tip, coins)
  BY <1>1, <1>2 DEF WorkOK, CanApply
<1>5. /\ cr2[n] = [cr[n] EXCEPT ![share] = @ + 1] /\ cr2[n] \in [Shares -> Nat]
      /\ \A m \in 1..MaxTemplates : m # n => cr2[m] = cr[m]
      /\ cr2 \in [1..MaxTemplates -> [Shares -> Nat]]
  BY <1>0
<1>6. ASSUME NEW m \in 1..MaxTemplates, NEW s \in Shares
      PROVE  /\ cr2[m][s] <= 1 /\ (m > is => cr2[m][s] = 0)
             /\ cr2[m][s] # 0 /\ m \in DOMAIN tm2 => s \in tm2[m].shares
  <2>1. /\ cr[m][s] <= 1 /\ (m > is => cr[m][s] = 0)
        /\ cr[m][s] # 0 /\ m \in DOMAIN tm => s \in tm[m].shares
    BY DEF WorkOK, CreditOK
  <2>2. CASE m # n
    BY <1>1, <1>5, <2>1, <2>2
  <2>3. CASE m = n /\ s # share
    <3>1. cr2[m][s] = cr[m][s]
      BY <1>0, <1>5, <2>3
    <3> QED
      BY <1>0, <1>1, <1>2, <2>1, <2>3, <3>1
  <2>4. CASE m = n /\ s = share
    <3>1. cr[m][s] = 0
      BY <2>1, <2>4
    <3>2. cr2[m][s] = 1
      BY <1>0, <1>5, <2>4, <3>1
    <3>3. s \in tm2[m].shares
      BY <1>2, <2>4
    <3>4. ~(m > is)
      BY <1>0, <2>4
    <3> QED
      BY <3>2, <3>3, <3>4
  <2> QED
    BY <2>2, <2>3, <2>4
<1>7. CreditOK(cr2, tm2, is)
  BY <1>5, <1>6 DEF CreditOK
<1> QED
  BY <1>3, <1>4, <1>7 DEF WorkOK

(* A block is admitted that can be applied.                                *)
LEMMA WorkAdmitted ==
  ASSUME NEW tm, NEW is, NEW cr, NEW c, NEW tip, NEW coins, WorkOK(tm, is, cr, c, tip, coins),
         NEW n \in DOMAIN tm, NEW txs \in SUBSET Txs, {Spends[t] : t \in txs} \subseteq coins,
         NEW tm2, tm2 = [tm EXCEPT ![n].admitted = @ \cup {txs}]
  PROVE  WorkOK(tm2, is, cr, c, tip, coins)
<1>0. tm[n] \in TemplateIn(c)
  BY DEF WorkOK, TemplatesOK
<1>1. /\ DOMAIN tm2 = DOMAIN tm /\ tm2[n] = [tm[n] EXCEPT !.admitted = @ \cup {txs}]
      /\ \A m \in DOMAIN tm \ {n} : tm2[m] = tm[m]
      /\ tm2 = [m \in DOMAIN tm2 |-> tm2[m]]
  OBVIOUS
<1>2. /\ tm2[n] \in TemplateIn(c) /\ tm2[n].shares = tm[n].shares
      /\ tm2[n].prev = tm[n].prev /\ tm2[n].admitted = tm[n].admitted \cup {txs}
  BY <1>0, <1>1 DEF TemplateIn
<1>3. TemplatesOK(tm2, is, c)
  <2>1. \A m \in DOMAIN tm2 : tm2[m] \in TemplateIn(c)
    BY <1>1, <1>2 DEF WorkOK, TemplatesOK
  <2> QED
    BY <1>1, <2>1 DEF WorkOK, TemplatesOK
<1>4. CanApply(tm2, tip, coins)
  <2> HIDE DEF WorkOK
  <2> SUFFICES ASSUME NEW m \in DOMAIN tm2, tm2[m].prev = tip, NEW x \in tm2[m].admitted
               PROVE  {Spends[t] : t \in x} \subseteq coins
    BY DEF CanApply
  <2>1. tm[m].prev = tip /\ (x = txs \/ x \in tm[m].admitted)
    BY <1>1, <1>2
  <2> QED
    BY <1>1, <2>1 DEF WorkOK, CanApply
<1>5. CreditOK(cr, tm2, is)
  <2>1. \A m \in DOMAIN tm2 : tm2[m].shares = tm[m].shares
    BY <1>1, <1>2
  <2> QED
    BY <1>1, <2>1 DEF WorkOK, CreditOK
<1> QED
  BY <1>3, <1>4, <1>5 DEF WorkOK

(* Templates expire.                                                       *)
LEMMA WorkExpired ==
  ASSUME NEW tm, NEW is, NEW cr, NEW c, NEW tip, NEW coins, WorkOK(tm, is, cr, c, tip, coins),
         NEW S \in SUBSET DOMAIN tm, NEW tm2, tm2 = [n \in S |-> tm[n]]
  PROVE  WorkOK(tm2, is, cr, c, tip, coins)
<1>1. /\ DOMAIN tm2 = S /\ DOMAIN tm2 \subseteq DOMAIN tm
      /\ \A n \in DOMAIN tm2 : tm2[n] = tm[n]
      /\ tm2 = [n \in DOMAIN tm2 |-> tm2[n]]
  OBVIOUS
<1>2. TemplatesOK(tm2, is, c)
  <2>1. \A n \in DOMAIN tm2 : tm2[n] \in TemplateIn(c)
    BY <1>1 DEF WorkOK, TemplatesOK
  <2> QED
    BY <1>1, <2>1 DEF WorkOK, TemplatesOK
<1>3. CanApply(tm2, tip, coins)
  BY <1>1 DEF WorkOK, CanApply
<1>4. CreditOK(cr, tm2, is)
  BY <1>1 DEF WorkOK, CreditOK
<1> QED
  BY <1>2, <1>3, <1>4 DEF WorkOK

(* The chain grows: no template is for a block on the new tip.              *)
LEMMA WorkOnNewTip ==
  ASSUME NEW tm, NEW is, NEW cr, NEW c, NEW tip, NEW coins, WorkOK(tm, is, cr, c, tip, coins),
         NEW d, Elems(c) \subseteq Elems(d), NEW tip2, tip2 \notin Elems(c), NEW coins2
  PROVE  WorkOK(tm, is, cr, d, tip2, coins2)
<1>1. TemplateIn(c) \subseteq TemplateIn(d) /\ \A x \in TemplateIn(c) : x.prev # tip2
  BY DEF TemplateIn
<1>2. TemplatesOK(tm, is, d)
  <2>1. tm = [n \in DOMAIN tm |-> tm[n]] /\ \A n \in DOMAIN tm : tm[n] \in TemplateIn(c)
    BY DEF WorkOK, TemplatesOK
  <2>2. tm \in [DOMAIN tm -> TemplateIn(d)]
    BY <1>1, <2>1
  <2> QED
    BY <2>2 DEF WorkOK, TemplatesOK
<1>3. CanApply(tm, tip2, coins2)
  BY <1>1 DEF WorkOK, TemplatesOK, CanApply
<1> QED
  BY <1>2, <1>3 DEF WorkOK

-----------------------------------------------------------------------------
(* External work over the chain.                                           *)

WorkInv ==
    /\ now \in 0..MaxTime /\ RatesOK(buckets, served, now)
    /\ WorkOK(templates, issued, credit, chain, chain[Len(chain)], utxo)
    /\ mode # "service" => templates = <<>>

(* A client that asked for nothing is within its rate.                     *)
LEMMA CountsInit ==
  ASSUME NEW f, f = [t \in 0..MaxTime |-> 0]
  PROVE  Counts(<<>>, f, 0) /\ Limits(f, 0)
<1>0. MaxTime \in Nat /\ Window \in Nat /\ Window >= 1 /\ MaxRequests \in Nat /\ MaxRequests >= 1
  BY WorkAssumption
<1>1. f \in [0..MaxTime -> Nat] /\ \A u \in 0..MaxTime : f[u] = 0
  BY <1>0
<1> HIDE DEF Since
<1>2. ASSUME NEW k \in Int PROVE SumFunctionOnSet(f, Since(k, 0)) = 0
  <2>1. IsFiniteSet(Since(k, 0)) /\ Since(k, 0) \subseteq 0..0
    BY SinceIs
  <2>2. \A x \in Since(k, 0) : f[x] = 0
    BY <1>0, <1>1, <2>1
  <2> QED
    BY <2>1, <2>2, SumZero
<1>3. ASSUME NEW k \in (0 - Window + 1)..0 PROVE Agree(<<>>, f, k, 0)
  <2>1. Kept(<<>>, k..0) = <<>>
    BY KeptEmpty
  <2>2. Len(Kept(<<>>, k..0)) = 0
    BY <2>1
  <2>3. SumFunctionOnSet(f, Since(k, 0)) = 0
    BY <1>0, <1>2
  <2> QED
    BY <2>2, <2>3, Zenon DEF Agree
<1>4. Within(f, 0)
  <2>1. 0 - Window + 1 \in Int
    BY <1>0
  <2> QED
    BY <1>0, <1>2, <2>1 DEF Within
<1>5. Limits(f, 0)
  <2>1. \A t \in 0..0 : t = 0
    OBVIOUS
  <2> QED
    BY <1>4, <2>1 DEF Limits
<1>6. <<>> \in Seq(0..0)
  OBVIOUS
<1> QED
  BY <1>1, <1>3, <1>5, <1>6 DEF Counts

(* At the start nothing was asked for.                                     *)
LEMMA WorkInvInit == ServiceInit => WorkInv
<1> SUFFICES ASSUME ServiceInit PROVE WorkInv
  OBVIOUS
<1>0. /\ now = 0 /\ issued = 0 /\ templates = <<>> /\ MaxTime \in Nat /\ MaxTemplates \in Nat
      /\ buckets = [c \in Clients |-> <<>>]
      /\ credit = [n \in 1..MaxTemplates |-> [s \in Shares |-> 0]]
      /\ served = [c \in Clients |-> [t \in 0..MaxTime |-> 0]]
  BY WorkAssumption DEF ServiceInit, WorkInit
<1>1. RatesOK(buckets, served, 0)
  <2>1. \A c \in Clients : buckets[c] = <<>> /\ served[c] = [t \in 0..MaxTime |-> 0]
    BY <1>0
  <2>2. \A c \in Clients : Counts(buckets[c], served[c], 0) /\ Limits(served[c], 0)
    BY <2>1, CountsInit
  <2>3. /\ DOMAIN buckets = Clients /\ DOMAIN served = Clients
        /\ buckets = [c \in Clients |-> buckets[c]] /\ served = [c \in Clients |-> served[c]]
    BY <1>0
  <2> QED
    BY <2>2, <2>3 DEF RatesOK
<1>2. DOMAIN templates = {} /\ templates = [n \in DOMAIN templates |-> templates[n]]
  BY <1>0
<1>3. TemplatesOK(templates, issued, chain)
  BY <1>2 DEF TemplatesOK
<1>4. CreditOK(credit, templates, issued)
  <2>1. \A n \in 1..MaxTemplates : \A s \in Shares : credit[n][s] = 0
    BY <1>0
  <2>2. credit \in [1..MaxTemplates -> [Shares -> Nat]]
    BY <1>0
  <2> QED
    BY <2>1, <2>2 DEF CreditOK
<1>5. CanApply(templates, chain[Len(chain)], utxo)
  BY <1>2 DEF CanApply
<1> QED
  BY <1>0, <1>1, <1>3, <1>4, <1>5 DEF WorkInv, WorkOK

(* What a step of the chain does to a service that hands out work on it.    *)
LEMMA ServiceChain ==
  ASSUME ChainInv, Next
  PROVE  /\ mode' = mode
         /\ mode = "service" =>
              \/ chain' = chain /\ utxo' = utxo
              \/ /\ Elems(chain) \subseteq Elems(chain')
                 /\ chain'[Len(chain')] \notin Elems(chain)
<1>1. ASSUME NEW tx \in Txs, NEW validate \in BOOLEAN, AddTransaction(tx, validate)
      PROVE  UNCHANGED <<mode, chain, utxo>>
  BY <1>1 DEF AddTransaction
<1>2. CASE MineBlock
  <2>1. PICK new : Mined(new)
    BY <1>2, MineBlockIs
  <2>2. /\ chain' = Append(chain, Len(blocks) + 1) /\ Elems(chain') = Elems(chain) \cup {Len(blocks) + 1}
        /\ Len(blocks) \in Nat /\ Tree(blocks) /\ Linked(chain, blocks) /\ chain \in Seq(Nat)
    BY <2>1 DEF Mined, ChainInv, Linked
  <2>3. chain'[Len(chain')] = Len(blocks) + 1
    BY <2>2
  <2>4. Len(blocks) + 1 \notin Elems(chain)
    <3> SUFFICES ASSUME NEW i \in DOMAIN chain, chain[i] = Len(blocks) + 1 PROVE FALSE
      BY DEF Elems
    <3>1. i \in 1..Len(chain)
      BY <2>2
    <3>2. chain[i] \in 0..Len(blocks)
      BY <2>2, <3>1, LinkedHeights
    <3> QED
      BY <2>2, <3>2
  <2>5. mode' = mode
    BY <1>2 DEF MineBlock
  <2> QED
    BY <2>2, <2>3, <2>4, <2>5
<1>3. CASE PersistBlock
  BY <1>3 DEF PersistBlock
<1>4. CASE Restart
  BY <1>4 DEF Restart
<1>5. ASSUME NEW parent \in 0..Len(blocks), NEW sound \in BOOLEAN, PeerMines(parent, sound)
      PROVE  mode' = mode /\ mode = "node"
  BY <1>5 DEF PeerMines
<1>6. ASSUME NEW b \in DOMAIN blocks, ApplyBlock(b) \/ PoolBlock(b) PROVE mode' = mode /\ mode = "node"
  BY <1>6 DEF ApplyBlock, PoolBlock
<1>7. ASSUME NEW b \in DOMAIN blocks, NEW k \in 1..Height(b), ResolveLongerChain(b, k)
      PROVE  mode' = mode /\ mode = "node"
  BY <1>7 DEF ResolveLongerChain
<1> QED
  BY <1>1, <1>2, <1>3, <1>4, <1>5, <1>6, <1>7 DEF Next

(* Every step keeps the work in order.                                     *)
LEMMA WorkInvStep ==
  ChainInv /\ WorkInv /\ [ServiceNext]_<<vars, workVars>> => WorkInv'
<1> SUFFICES ASSUME ChainInv, WorkInv, [ServiceNext]_<<vars, workVars>> PROVE WorkInv'
  OBVIOUS
<1> DEFINE tip == chain[Len(chain)]
<1>0. /\ now \in 0..MaxTime /\ RatesOK(buckets, served, now)
      /\ WorkOK(templates, issued, credit, chain, tip, utxo)
      /\ mode # "service" => templates = <<>>
      /\ MaxTime \in Nat /\ TTL \in Nat /\ now \in Nat /\ issued \in Nat
      /\ Tip = tip /\ tip \in Elems(chain)
  <2>1. Len(chain) \in 1..Len(chain) /\ DOMAIN chain = 1..Len(chain)
    BY DEF ChainInv, Linked
  <2> QED
    BY <2>1, WorkAssumption DEF WorkInv, WorkOK, Tip, Elems
<1>1. CASE UNCHANGED <<vars, workVars>>
  BY <1>1 DEF WorkInv, vars, workVars
<1>2. CASE Next /\ UNCHANGED workVars
  <2>1. UNCHANGED <<now, buckets, templates, issued, credit, served>>
    BY <1>2 DEF workVars
  <2>2. mode' = mode
    BY <1>2, ServiceChain
  <2>3. WorkOK(templates, issued, credit, chain', chain'[Len(chain')], utxo')
    <3>1. CASE mode = "service"
      BY <1>0, <1>2, <3>1, ServiceChain, WorkOnNewTip
    <3>2. CASE mode # "service"
      <4>1. templates = <<>> /\ DOMAIN templates = {}
        BY <1>0, <3>2
      <4>2. TemplatesOK(templates, issued, chain')
        BY <4>1 DEF TemplatesOK
      <4>3. CanApply(templates, chain'[Len(chain')], utxo')
        BY <4>1 DEF CanApply
      <4> QED
        BY <1>0, <4>2, <4>3 DEF WorkOK
    <3> QED
      BY <3>1, <3>2
  <2> QED
    BY <1>0, <2>1, <2>2, <2>3 DEF WorkInv
<1>w. ASSUME UNCHANGED vars, mode = "service", now' \in 0..MaxTime, RatesOK(buckets', served', now'),
             WorkOK(templates', issued', credit', chain, tip, utxo)
      PROVE  WorkInv'
  BY <1>w DEF WorkInv, vars
<1>3. ASSUME UNCHANGED vars, mode = "service", NEW c \in Clients, RateExceeded(c) PROVE WorkInv'
  <2>1. UNCHANGED <<now, templates, issued, credit, served>>
    BY <1>3 DEF RateExceeded
  <2>2. RatesOK(buckets', served, now)
    BY <1>0, <1>3, RatesRefused
  <2> HIDE DEF tip
  <2> QED
    BY <1>0, <1>3, <1>w, <2>1, <2>2
<1>4. ASSUME UNCHANGED vars, mode = "service", NEW c \in Clients, IssueTemplate(c) PROVE WorkInv'
  <2>1. RatesOK(buckets', served', now) /\ now' = now /\ credit' = credit
    BY <1>0, <1>4, RatesServed DEF IssueTemplate
  <2>2. /\ issued < MaxTemplates /\ issued' = issued + 1 /\ now + TTL \in Nat
        /\ templates' = [n \in DOMAIN templates \cup {issued + 1} |->
             IF n = issued + 1 THEN [prev |-> tip, expires |-> now + TTL, shares |-> {}, admitted |-> {}]
             ELSE templates[n]]
    BY <1>0, <1>4 DEF IssueTemplate
  <2> HIDE DEF tip
  <2>3. WorkOK(templates', issued', credit', chain, tip, utxo)
    BY <1>0, <2>1, <2>2, WorkIssued
  <2> QED
    BY <1>0, <1>4, <1>w, <2>1, <2>3
<1>5. ASSUME UNCHANGED vars, mode = "service", NEW c \in Clients, NEW n \in 1..issued, NEW share \in Shares,
             SubmitShare(c, n, share)
      PROVE  WorkInv'
  <2>1. RatesOK(buckets', served', now) /\ now' = now /\ issued' = issued
    BY <1>0, <1>5, RatesServed DEF SubmitShare
  <2>2. CASE Live(n) /\ share \notin templates[n].shares
    <3>1. /\ n \in DOMAIN templates
          /\ templates' = [templates EXCEPT ![n].shares = @ \cup {share}]
          /\ credit' = [credit EXCEPT ![n][share] = @ + 1]
      BY <1>5, <2>2 DEF SubmitShare, Live
    <3> HIDE DEF tip
    <3>2. WorkOK(templates', issued, credit', chain, tip, utxo)
      BY <1>0, <2>2, <3>1, WorkCredited
    <3> QED
      BY <1>0, <1>5, <1>w, <2>1, <3>2
  <2>3. CASE ~(Live(n) /\ share \notin templates[n].shares)
    <3>1. UNCHANGED <<templates, credit>>
      BY <1>5, <2>3 DEF SubmitShare
    <3> HIDE DEF tip
    <3> QED
      BY <1>0, <1>5, <1>w, <2>1, <3>1
  <2> QED
    BY <2>2, <2>3
<1>6. ASSUME UNCHANGED vars, mode = "service", NEW c \in Clients, NEW n \in 1..issued, NEW txs \in SUBSET Txs,
             SubmitBlock(c, n, txs)
      PROVE  WorkInv'
  <2>1. RatesOK(buckets', served', now) /\ now' = now /\ issued' = issued /\ credit' = credit
    BY <1>0, <1>6, RatesServed DEF SubmitBlock
  <2>2. CASE Live(n) /\ ValidCandidate(templates[n].prev, txs)
    <3>1. /\ n \in DOMAIN templates /\ {Spends[t] : t \in txs} \subseteq utxo
          /\ templates' = [templates EXCEPT ![n].admitted = @ \cup {txs}]
      BY <1>6, <2>2 DEF SubmitBlock, Live, ValidCandidate
    <3> HIDE DEF tip
    <3>2. WorkOK(templates', issued, credit, chain, tip, utxo)
      BY <1>0, <3>1, WorkAdmitted
    <3> QED
      BY <1>0, <1>6, <1>w, <2>1, <3>2
  <2>3. CASE ~(Live(n) /\ ValidCandidate(templates[n].prev, txs))
    <3>1. templates' = templates
      BY <1>6, <2>3 DEF SubmitBlock
    <3> HIDE DEF tip
    <3> QED
      BY <1>0, <1>6, <1>w, <2>1, <3>1
  <2> QED
    BY <2>2, <2>3
<1>7. ASSUME UNCHANGED vars, mode = "service", Expire PROVE WorkInv'
  <2> DEFINE S == {m \in DOMAIN templates : now < templates[m].expires}
  <2>1. UNCHANGED <<now, buckets, issued, credit, served>> /\ templates' = [n \in S |-> templates[n]]
    BY <1>7 DEF Expire
  <2>2. S \subseteq DOMAIN templates
    OBVIOUS
  <2> HIDE DEF tip, S
  <2>3. WorkOK(templates', issued, credit, chain, tip, utxo)
    BY <1>0, <2>1, <2>2, WorkExpired
  <2> QED
    BY <1>0, <1>7, <1>w, <2>1, <2>3
<1>8. ASSUME UNCHANGED vars, mode = "service", Tick PROVE WorkInv'
  <2>1. UNCHANGED <<buckets, templates, issued, credit, served>> /\ now < MaxTime /\ now' = now + 1
    BY <1>8 DEF Tick
  <2>2. RatesOK(buckets, served, now + 1)
    BY <1>0, <2>1, RatesTick
  <2>3. now + 1 \in 0..MaxTime
    BY <1>0, <2>1
  <2> HIDE DEF tip
  <2> QED
    BY <1>0, <1>8, <1>w, <2>1, <2>2, <2>3
<1> QED
  BY <1>1, <1>2, <1>3, <1>4, <1>5, <1>6, <1>7, <1>8 DEF ServiceNext, WorkNext

(* So the work is always in order.                                         *)
LEMMA AlwaysWork == ServiceSpec => []WorkInv
<1>1. ChainSound => ChainInv
  BY DEF ChainSound
<1> QED
  BY <1>1, WorkInvInit, WorkInvStep, AlwaysSound, PTL DEF ServiceSpec

(* No client is served over its limit in any window, no share is credited   *)
(* twice, and what a template admitted can be applied while its parent is   *)
(* the tip (mining_transport.py:47-57; work_template.py:155-218).           *)
THEOREM WorkCorrect == ServiceSpec => []WorkSound
<1>1. WorkInv => RateLimited
  <2> SUFFICES ASSUME WorkInv, NEW c \in Clients, NEW t \in 0..now
               PROVE  SumFunctionOnSet(served[c], {u \in 0..t : t - Window < u}) <= MaxRequests
    BY DEF RateLimited
  <2>1. Within(served[c], t)
    BY DEF WorkInv, RatesOK, Limits
  <2>2. now \in Nat /\ t \in Nat /\ Window \in Nat
    BY WorkAssumption DEF WorkInv
  <2>3. Since(t - Window + 1, t) = {u \in 0..t : t - Window < u}
    BY <2>2 DEF Since
  <2> QED
    BY <2>1, <2>3 DEF Within
<1>2. WorkInv => CreditedOnce
  BY DEF WorkInv, WorkOK, CreditOK, CreditedOnce
<1>3. WorkInv => AdmittedStaysApplicable
  BY DEF WorkInv, WorkOK, CanApply, AdmittedStaysApplicable, Tip
<1>4. WorkInv => WorkSound
  BY <1>1, <1>2, <1>3 DEF WorkSound
<1> QED
  BY <1>4, AlwaysWork, PTL

-----------------------------------------------------------------------------
(* Types.                                                                  *)

(* A sequence of some of its kind is a sequence of those.                  *)
LEMMA SeqOf ==
  ASSUME NEW T, NEW s \in Seq(T), NEW S, \A i \in 1..Len(s) : s[i] \in S
  PROVE  s \in Seq(S)
<1>1. s = [i \in 1..Len(s) |-> s[i]] /\ Len(s) \in Nat
  OBVIOUS
<1>2. s \in [1..Len(s) -> S]
  BY <1>1
<1> QED
  BY <1>1, <1>2

(* The chain, the coins, the pools and the store are what they should be.   *)
LEMMA ChainTypes == ChainSound => TypeOK
<1> SUFFICES ASSUME ChainSound PROVE TypeOK
  OBVIOUS
<1>0. /\ Tree(blocks) /\ Linked(chain, blocks) /\ ModeOK /\ Pending /\ StoreOK /\ Ledger
      /\ MaxBlocks \in Nat /\ Len(blocks) \in Nat /\ Len(blocks) <= MaxBlocks
      /\ DOMAIN blocks = 1..Len(blocks) /\ blocks \in Seq(Blocks)
      /\ chain \in Seq(Nat) /\ Len(chain) \in Nat /\ Len(chain) >= 1 /\ DOMAIN chain = 1..Len(chain)
  <2>1. Tree(blocks) /\ Linked(chain, blocks) /\ ModeOK /\ Pending /\ StoreOK /\ Ledger
    BY DEF ChainSound, ChainInv
  <2>2. blocks \in Seq(Blocks) /\ Len(blocks) <= MaxBlocks /\ chain \in Seq(Nat) /\ Len(chain) >= 1
    BY <2>1 DEF Tree, Linked
  <2>3. /\ Len(blocks) \in Nat /\ DOMAIN blocks = 1..Len(blocks)
        /\ Len(chain) \in Nat /\ DOMAIN chain = 1..Len(chain)
    BY <2>2
  <2> QED
    BY <2>1, <2>2, <2>3, ChainAssumption
<1>1. \A i \in 1..Len(chain) : chain[i] \in 0..Len(blocks)
  BY <1>0, LinkedHeights
<1>2. chain \in Seq(Ids) /\ InChain \ {0} \subseteq DOMAIN blocks
  <2>1. \A i \in 1..Len(chain) : chain[i] \in Ids
    BY <1>0, <1>1 DEF Ids
  <2>2. chain \in Seq(Ids)
    BY <1>0, <2>1, SeqOf
  <2>3. \A b \in 0..Len(blocks) : b # 0 => b \in 1..Len(blocks)
    BY <1>0
  <2> QED
    BY <1>0, <1>1, <2>2, <2>3 DEF InChain
<1>3. utxo \subseteq Coins
  <2>1. utxo \subseteq Made(chain, blocks)
    BY <1>0, LeftIsMade DEF Ledger
  <2>2. \A b \in Elems(chain) : b \in Ids /\ TxsIn(b, blocks) \subseteq Txs
    <3> SUFFICES ASSUME NEW i \in 1..Len(chain)
                 PROVE  chain[i] \in Ids /\ TxsIn(chain[i], blocks) \subseteq Txs
      BY <1>0 DEF Elems
    <3>1. chain[i] \in 0..Len(blocks) /\ chain[i] \in Ids
      BY <1>0, <1>1 DEF Ids
    <3>2. CASE chain[i] = 0
      BY <3>1, <3>2 DEF TxsIn
    <3>3. CASE chain[i] # 0
      <4>1. chain[i] \in 1..Len(blocks)
        BY <1>0, <3>1, <3>3
      <4>2. blocks[chain[i]].txs \subseteq Txs
        BY <1>0, <4>1, TreeType
      <4> QED
        BY <3>1, <3>3, <4>2 DEF TxsIn
    <3> QED
      BY <3>2, <3>3
  <2> QED
    BY <2>1, <2>2 DEF Made, Coins
<1>4. \A i \in DOMAIN orphans : orphans[i].parent \in Ids /\ orphans[i].blocks \in Seq(DOMAIN blocks)
  <2> SUFFICES ASSUME NEW i \in DOMAIN orphans
               PROVE  orphans[i].parent \in Ids /\ orphans[i].blocks \in Seq(DOMAIN blocks)
    OBVIOUS
  <2>1. PoolOK(orphans, blocks) /\ orphans \in Seq(Orphans) /\ orphans[i] \in Elems(orphans)
    BY <1>0 DEF Pending, PoolOK, Elems
  <2>2. orphans[i] \in Orphans
    BY <2>1
  <2>3. /\ orphans[i].parent \in 0..Len(blocks)
        /\ \A k \in 1..Len(orphans[i].blocks) : orphans[i].blocks[k] \in 1..Len(blocks)
    BY <2>1 DEF PoolOK
  <2>4. orphans[i].blocks \in Seq(Nat)
    BY <2>2 DEF Orphans
  <2>5. orphans[i].blocks \in Seq(DOMAIN blocks)
    BY <1>0, <2>3, <2>4, SeqOf
  <2> QED
    BY <1>0, <2>3, <2>5 DEF Ids
<1>5. /\ DOMAIN disk.block \subseteq Ids /\ \A h \in DOMAIN disk.block : disk.block[h] \in Ids
      /\ disk.height \in Ids /\ disk.tip \in Ids /\ disk.total \in Nat
  <2>1. PICK c : Linked(c, blocks) /\ Stores(disk.block, c)
    <3>1. CASE mode = "daemon"
      BY <1>0, <3>1, BaseIs DEF ChainSound
    <3>2. CASE mode # "daemon"
      <4>1. Linked(<<0>>, blocks)
        BY DEF Linked
      <4> QED
        BY <1>0, <3>2, <4>1 DEF StoreOK
    <3> QED
      BY <3>1, <3>2
  <2>2. Len(c) - 1 <= MaxBlocks /\ Len(c) - 1 \in Nat /\ Len(c) \in Nat
    <3>1. Len(c) - 1 <= MaxBlocks /\ Len(c) - 1 \in Nat
      BY <1>0, <2>1, LinkedShort
    <3>2. c \in Seq(Nat)
      BY <2>1 DEF Linked
    <3> QED
      BY <3>1, <3>2
  <2>3. DOMAIN disk.block \subseteq Ids
    BY <1>0, <2>1, <2>2 DEF Stores, Ids
  <2>4. ASSUME NEW h \in DOMAIN disk.block PROVE disk.block[h] \in Ids
    <3>1. disk.block[h] = c[h + 1] /\ h + 1 \in 1..Len(c)
      BY <2>1, <2>2, <2>4 DEF Stores
    <3>2. c[h + 1] \in 0..Len(blocks)
      BY <1>0, <2>1, <3>1, LinkedHeights
    <3> QED
      BY <1>0, <3>1, <3>2 DEF Ids
  <2>5. disk.height \in DOMAIN disk.block /\ disk.tip \in {disk.block[h] : h \in DOMAIN disk.block}
    BY <1>0 DEF StoreOK, MetadataFollows
  <2>6. disk.total \in Nat
    BY <1>0 DEF StoreOK
  <2> QED
    BY <2>3, <2>4, <2>5, <2>6
<1>6. mempool \in Seq(Txs) /\ skipped \subseteq InChain
  BY <1>0 DEF Pending, InChain, Elems
<1>7. mode \in {"daemon", "node", "service"} /\ puts \in 0..AllPut
  BY <1>0 DEF ModeOK
<1> QED
  BY <1>0, <1>2, <1>3, <1>4, <1>5, <1>6, <1>7 DEF TypeOK

(* The chain, the coins, the pools, the store and the work handed out stay  *)
(* of their types, for every tree of blocks.                               *)
THEOREM WorkTypeCorrect == ServiceSpec => []WorkTypeOK
<1>1. ChainSound /\ WorkInv => WorkTypeOK
  <2> SUFFICES ASSUME ChainSound, WorkInv PROVE WorkTypeOK
    OBVIOUS
  <2>0. /\ now \in 0..MaxTime /\ issued \in 0..MaxTemplates /\ MaxTime \in Nat /\ InChain = Elems(chain)
        /\ RatesOK(buckets, served, now) /\ TemplatesOK(templates, issued, chain)
        /\ credit \in [1..MaxTemplates -> [Shares -> Nat]]
    BY WorkAssumption DEF WorkInv, WorkOK, CreditOK, InChain, Elems
  <2>1. buckets \in [Clients -> Seq(0..MaxTime)]
    <3>1. ASSUME NEW c \in Clients PROVE buckets[c] \in Seq(0..MaxTime)
      <4>1. buckets[c] \in Seq(0..now)
        BY <2>0 DEF RatesOK, Counts
      <4>2. \A i \in 1..Len(buckets[c]) : buckets[c][i] \in 0..MaxTime
        BY <2>0, <4>1
      <4> QED
        BY <4>1, <4>2, SeqOf
    <3>2. buckets = [c \in Clients |-> buckets[c]]
      BY <2>0 DEF RatesOK
    <3> QED
      BY <3>1, <3>2
  <2>2. served \in [Clients -> [0..MaxTime -> Nat]]
    <3>1. \A c \in Clients : served[c] \in [0..MaxTime -> Nat]
      BY <2>0 DEF RatesOK, Counts
    <3>2. served = [c \in Clients |-> served[c]]
      BY <2>0 DEF RatesOK
    <3> QED
      BY <3>1, <3>2
  <2>3. /\ DOMAIN templates \subseteq 1..issued
        /\ \A n \in DOMAIN templates :
             /\ templates[n].prev \in InChain /\ templates[n].expires \in Nat
             /\ templates[n].shares \subseteq Shares /\ templates[n].admitted \subseteq SUBSET Txs
    <3>1. \A x \in TemplateIn(chain) : /\ x.prev \in InChain /\ x.expires \in Nat
                                       /\ x.shares \subseteq Shares /\ x.admitted \subseteq SUBSET Txs
      BY <2>0 DEF TemplateIn
    <3> QED
      BY <2>0, <3>1 DEF TemplatesOK
  <2>4. TypeOK
    BY ChainTypes
  <2> QED
    BY <2>0, <2>1, <2>2, <2>3, <2>4 DEF WorkTypeOK
<1> QED
  BY <1>1, AlwaysSound, AlwaysWork, PTL
=============================================================================

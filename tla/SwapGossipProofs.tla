-------------------------- MODULE SwapGossipProofs --------------------------
(***************************************************************************)
(* What two connected nodes have told each other, for any number of nodes  *)
(* and intents, any batch size and any number of faults.                   *)
(***************************************************************************)
EXTENDS SwapGossip, SumTheorems, TLAPS

-----------------------------------------------------------------------------
(* The log: what admitting intents one after the other makes of it.        *)

LongerLog(l, a) ==
  /\ a \in Seq(Intents) /\ Len(l) \in Nat /\ Len(l) <= Len(a) /\ \A k \in 1..Len(l) : a[k] = l[k]

\* No two intents of a log are of one order, or of one nonce.
Distinct(l) ==
  \A i, j \in 1..Len(l) : Order[l[i]] = Order[l[j]] \/ Nonce[l[i]] = Nonce[l[j]] => i = j

Within(x, items) == \E j \in 1..Len(items) : items[j] = x

LEMMA TakenIs ==
  ASSUME NEW l \in Seq(Intents), NEW x
  PROVE  Taken(l, x) <=> \E k \in 1..Len(l) : Order[l[k]] = Order[x] \/ Nonce[l[k]] = Nonce[x]
  BY DEF Taken, ToSet

LEMMA TakenOn ==
  ASSUME NEW l \in Seq(Intents), NEW a, LongerLog(l, a), NEW x, Taken(l, x)
  PROVE  Taken(a, x)
<1>1. a \in Seq(Intents) /\ Len(l) <= Len(a) /\ Len(l) \in Nat /\ \A k \in 1..Len(l) : a[k] = l[k]
  BY DEF LongerLog
<1>2. PICK k \in 1..Len(l) : Order[l[k]] = Order[x] \/ Nonce[l[k]] = Nonce[x]
  BY TakenIs
<1>3. k \in 1..Len(a) /\ a[k] = l[k]
  BY <1>1
<1>4. \E n \in 1..Len(a) : Order[a[n]] = Order[x] \/ Nonce[a[n]] = Nonce[x]
  BY <1>2, <1>3
<1> QED
  BY <1>1, <1>4, TakenIs

LEMMA LongerTrans ==
  ASSUME NEW l, NEW a, NEW b, LongerLog(l, a), LongerLog(a, b)
  PROVE  LongerLog(l, b)
  BY DEF LongerLog

LEMMA AppendIs ==
  ASSUME NEW T, NEW l \in Seq(T), NEW x \in T
  PROVE  /\ Append(l, x) \in Seq(T) /\ Len(Append(l, x)) = Len(l) + 1 /\ Len(l) \in Nat
         /\ Append(l, x)[Len(l) + 1] = x
         /\ \A k \in 1..Len(l) : Append(l, x)[k] = l[k]
  OBVIOUS

\* One intent more, when neither its order nor its nonce is taken.
LEMMA AppendKeeps ==
  ASSUME NEW l \in Seq(Intents), NEW x \in Intents, Distinct(l), ~Taken(l, x)
  PROVE  Distinct(Append(l, x))
<1> DEFINE a == Append(l, x)
           N == Len(l)
<1>1. N \in Nat /\ Len(a) = N + 1 /\ a[N + 1] = x /\ \A k \in 1..N : a[k] = l[k]
  BY AppendIs
<1>2. \A k \in 1..N : Order[l[k]] # Order[x] /\ Nonce[l[k]] # Nonce[x]
  BY TakenIs
<1> HIDE DEF a
<1>3. ASSUME NEW i \in 1..(N + 1), NEW j \in 1..(N + 1),
             Order[a[i]] = Order[a[j]] \/ Nonce[a[i]] = Nonce[a[j]]
      PROVE  i = j
  <2>1. CASE i \in 1..N /\ j \in 1..N
    BY <1>1, <1>3, <2>1 DEF Distinct
  <2>2. CASE i = N + 1 /\ j \in 1..N
    BY <1>1, <1>2, <1>3, <2>2
  <2>3. CASE i \in 1..N /\ j = N + 1
    BY <1>1, <1>2, <1>3, <2>3
  <2> QED
    BY <1>1, <2>1, <2>2, <2>3
<1> QED
  BY <1>1, <1>3 DEF Distinct, a

LEMMA AppendLonger ==
  ASSUME NEW l \in Seq(Intents), NEW x \in Intents
  PROVE  LongerLog(l, Append(l, x)) /\ Taken(Append(l, x), x)
<1>1. /\ Append(l, x) \in Seq(Intents) /\ Len(Append(l, x)) = Len(l) + 1 /\ Len(l) \in Nat
      /\ Append(l, x)[Len(l) + 1] = x /\ \A k \in 1..Len(l) : Append(l, x)[k] = l[k]
  BY AppendIs
<1> DEFINE a == Append(l, x)
<1> HIDE DEF a
<1>2. LongerLog(l, a)
  BY <1>1 DEF LongerLog, a
<1>3. \E k \in 1..Len(a) : Order[a[k]] = Order[x] \/ Nonce[a[k]] = Nonce[x]
  <2>1. Len(a) \in 1..Len(a) /\ a[Len(a)] = x
    BY <1>1 DEF a
  <2> QED
    BY <2>1
<1>4. Taken(a, x)
  BY <1>1, <1>3, TakenIs DEF a
<1> QED
  BY <1>2, <1>4 DEF a

\* What a log becomes by the items: longer, by items it did not hold, and every
\* item is taken in it.
Absorbs(l, items, a) ==
  /\ LongerLog(l, a) /\ Distinct(a)
  /\ \A k \in (Len(l) + 1)..Len(a) : Within(a[k], items)
  /\ \A j \in 1..Len(items) : Taken(a, items[j])

LEMMA AbsorbsNone ==
  ASSUME NEW l \in Seq(Intents), Distinct(l)
  PROVE  Absorbs(l, <<>>, l)
<1>1. Len(l) \in Nat /\ Len(<<>>) = 0
  OBVIOUS
<1> QED
  BY <1>1 DEF Absorbs, LongerLog

LEMMA AdmittedAbsorbs ==
  ASSUME NEW l, NEW items \in Seq(Intents), NEW a, Absorbs(l, items, a), NEW x \in Intents
  PROVE  Absorbs(l, Append(items, x), Admitted(a, x))
<1> DEFINE more == Append(items, x)
           N == Len(items)
<1>0. /\ LongerLog(l, a) /\ Distinct(a)
      /\ \A k \in (Len(l) + 1)..Len(a) : Within(a[k], items)
      /\ \A j \in 1..N : Taken(a, items[j])
  BY DEF Absorbs
<1>1. N \in Nat /\ Len(more) = N + 1 /\ more[N + 1] = x /\ \A k \in 1..N : more[k] = items[k]
  BY AppendIs
<1>2. a \in Seq(Intents) /\ Len(a) \in Nat /\ Len(l) \in Nat /\ Len(l) <= Len(a)
  BY <1>0 DEF LongerLog
<1> HIDE DEF more, N
<1>3. \A y : Within(y, items) => Within(y, more)
  <2> SUFFICES ASSUME NEW y, Within(y, items) PROVE Within(y, more)
    OBVIOUS
  <2>1. PICK j \in 1..N : items[j] = y
    BY DEF Within, N
  <2>2. j \in 1..Len(more) /\ more[j] = y
    BY <1>1, <2>1
  <2> QED
    BY <2>2 DEF Within
<1>4. Within(x, more)
  <2>1. N + 1 \in 1..Len(more)
    BY <1>1
  <2> QED
    BY <1>1, <2>1 DEF Within
<1>5. CASE Taken(a, x)
  <2>1. Admitted(a, x) = a
    BY <1>5 DEF Admitted
  <2>2. \A j \in 1..Len(more) : Taken(a, more[j])
    <3> SUFFICES ASSUME NEW j \in 1..Len(more) PROVE Taken(a, more[j])
      OBVIOUS
    <3>1. j \in 1..N \/ j = N + 1
      BY <1>1
    <3> QED
      BY <1>0, <1>1, <1>5, <3>1
  <2>3. \A k \in (Len(l) + 1)..Len(a) : Within(a[k], more)
    BY <1>0, <1>3
  <2>4. Absorbs(l, more, a)
    BY <1>0, <2>2, <2>3 DEF Absorbs
  <2> QED
    BY <2>1, <2>4 DEF more
<1>6. CASE ~Taken(a, x)
  <2> DEFINE b == Append(a, x)
  <2>1. Admitted(a, x) = b
    BY <1>6 DEF Admitted
  <2>2. /\ b \in Seq(Intents) /\ Len(b) = Len(a) + 1 /\ b[Len(a) + 1] = x
        /\ \A k \in 1..Len(a) : b[k] = a[k]
    BY <1>2, AppendIs
  <2>3. LongerLog(a, b) /\ Taken(b, x) /\ Distinct(b)
    BY <1>0, <1>2, <1>6, AppendLonger, AppendKeeps
  <2> HIDE DEF b
  <2>4. LongerLog(l, b)
    BY <1>0, <2>3, LongerTrans
  <2>5. \A j \in 1..Len(more) : Taken(b, more[j])
    <3> SUFFICES ASSUME NEW j \in 1..Len(more) PROVE Taken(b, more[j])
      OBVIOUS
    <3>1. CASE j \in 1..N
      <4>1. Taken(a, more[j])
        BY <1>0, <1>1, <3>1
      <4> QED
        BY <1>2, <2>3, <4>1, TakenOn
    <3>2. CASE j = N + 1
      BY <1>1, <2>3, <3>2
    <3> QED
      BY <1>1, <3>1, <3>2
  <2>6. \A k \in (Len(l) + 1)..Len(b) : Within(b[k], more)
    <3> SUFFICES ASSUME NEW k \in (Len(l) + 1)..Len(b) PROVE Within(b[k], more)
      OBVIOUS
    <3>1. CASE k = Len(a) + 1
      BY <1>4, <2>2, <3>1
    <3>2. CASE k # Len(a) + 1
      <4>1. k \in (Len(l) + 1)..Len(a) /\ k \in 1..Len(a)
        BY <1>2, <2>2, <3>2
      <4> QED
        BY <1>0, <1>3, <2>2, <4>1
    <3> QED
      BY <3>1, <3>2
  <2>7. Absorbs(l, more, b)
    BY <2>3, <2>4, <2>5, <2>6 DEF Absorbs
  <2> QED
    BY <2>1, <2>7 DEF more
<1> QED
  BY <1>5, <1>6

\* Applied is a fold of the items.
Admits == [p \in Seq(Intents) \X Intents |-> Admitted(p[1], p[2])]
Admitting(g, l, items) ==
  g = [k \in 0..Len(items) |-> IF k = 0 THEN l ELSE Admitted(g[k - 1], items[k])]

LEMMA AdmittedType ==
  ASSUME NEW l \in Seq(Intents), NEW x \in Intents
  PROVE  Admitted(l, x) \in Seq(Intents)
  BY AppendIs DEF Admitted

LEMMA AppliedIs ==
  ASSUME NEW l \in Seq(Intents), NEW s \in Seq(Intents)
  PROVE  \E g \in [0..Len(s) -> Seq(Intents)] : Folds(g, s, l, Admits) /\ Applied(l, s) = g[Len(s)]
<1> DEFINE L == Seq(Intents)
<1>0. Len(s) \in Nat /\ (\A n \in 1..Len(s) : s[n] \in Intents)
  OBVIOUS
<1>1. Admits \in [L \X Intents -> L]
  BY AdmittedType DEF Admits
<1>2. ASSUME NEW g \in [0..Len(s) -> L], Folds(g, s, l, Admits)
      PROVE  Admitting(g, l, s)
  <2>1. ASSUME NEW n \in 1..Len(s)
        PROVE  g[n] = Admitted(g[n - 1], s[n])
    <3>1. n - 1 \in 0..Len(s) /\ s[n] \in Intents
      BY <1>0
    <3>2. g[n - 1] \in L
      BY <3>1
    <3>3. g[n] = Admits[<<g[n - 1], s[n]>>]
      BY <1>2 DEF Folds
    <3> QED
      BY <3>1, <3>2, <3>3 DEF Admits
  <2>2. g[0] = l
    BY <1>2 DEF Folds
  <2>3. \A n \in 0..Len(s) : g[n] = IF n = 0 THEN l ELSE Admitted(g[n - 1], s[n])
    <3> SUFFICES ASSUME NEW n \in 0..Len(s)
                 PROVE  g[n] = IF n = 0 THEN l ELSE Admitted(g[n - 1], s[n])
      OBVIOUS
    <3>1. CASE n = 0
      BY <2>2, <3>1
    <3>2. CASE n # 0
      <4>1. n \in 1..Len(s)
        BY <1>0, <3>2
      <4> QED
        BY <2>1, <3>2, <4>1
    <3> QED
      BY <3>1, <3>2
  <2>4. g = [n \in 0..Len(s) |-> g[n]]
    OBVIOUS
  <2> QED
    BY <2>3, <2>4, Zenon DEF Admitting
<1> DEFINE k == CHOOSE g : Admitting(g, l, s)
<1>3. Admitting(k, l, s)
  <2>1. \E g \in [0..Len(s) -> L] : Folds(g, s, l, Admits)
    BY <1>0, <1>1, FoldExists
  <2> QED
    BY <1>2, <2>1
<1>4. Applied(l, s) = k[Len(s)]
  BY DEF Applied, Admitting
<1> HIDE DEF k
<1>5. k \in [0..Len(s) -> L] /\ Folds(k, s, l, Admits)
  <2>0. \A n \in 0..Len(s) : k[n] = IF n = 0 THEN l ELSE Admitted(k[n - 1], s[n])
    BY <1>3, Zenon DEF Admitting
  <2>1. k = [n \in 0..Len(s) |-> k[n]] /\ k[0] = l
    BY <1>0, <1>3, <2>0 DEF Admitting
  <2>2. \A n \in 1..Len(s) : k[n] = Admitted(k[n - 1], s[n]) /\ n - 1 \in 0..Len(s) /\ s[n] \in Intents
    BY <1>0, <2>0
  <2> DEFINE P == {n \in 0..Len(s) : k[n] \in L}
  <2>3. ASSUME NEW n \in 0..(Len(s) - 1), n \in P
        PROVE  n + 1 \in P
    <3>1. n + 1 \in 1..Len(s) /\ (n + 1) - 1 = n /\ n + 1 \in 0..Len(s)
      BY <1>0
    <3>2. k[n + 1] = Admitted(k[n], s[n + 1]) /\ k[n] \in L /\ s[n + 1] \in Intents
      BY <2>2, <2>3, <3>1
    <3> QED
      BY <3>1, <3>2, AdmittedType
  <2>4. 0 \in P
    BY <1>0, <2>1
  <2>5. \A n \in 0..Len(s) : k[n] \in L
    <3> HIDE DEF P
    <3>1. 0..Len(s) \subseteq P
      BY <1>0, <2>3, <2>4, BoundedInduction
    <3> QED
      BY <3>1 DEF P
  <2>6. ASSUME NEW n \in 1..Len(s)
        PROVE  k[n] = Admits[<<k[n - 1], s[n]>>]
    BY <2>2, <2>5 DEF Admits
  <2> HIDE DEF P
  <2> QED
    BY <2>1, <2>5, <2>6 DEF Folds
<1> QED
  BY <1>4, <1>5

LEMMA AppliedAppend ==
  ASSUME NEW l \in Seq(Intents), NEW s \in Seq(Intents), NEW x \in Intents
  PROVE  Applied(l, Append(s, x)) = Admitted(Applied(l, s), x) /\ Applied(l, s) \in Seq(Intents)
<1> DEFINE t == Append(s, x)
<1>1. t \in Seq(Intents) /\ LongerByOne(s, t) /\ t[Len(t)] = x /\ Len(s) \in 0..Len(s)
  BY DEF LongerByOne
<1> HIDE DEF t
<1>2. PICK g \in [0..Len(s) -> Seq(Intents)] : Folds(g, s, l, Admits) /\ Applied(l, s) = g[Len(s)]
  BY AppliedIs
<1>3. PICK h \in [0..Len(t) -> Seq(Intents)] : Folds(h, t, l, Admits) /\ Applied(l, t) = h[Len(t)]
  BY <1>1, AppliedIs
<1>4. GoesOn(h, t, g, s, Admits)
  BY <1>1, <1>2, <1>3, FoldUnique
<1>5. h[Len(t)] = Admits[<<g[Len(s)], x>>]
  BY <1>1, <1>4, Zenon DEF GoesOn
<1>6. g[Len(s)] \in Seq(Intents)
  BY <1>1
<1>7. Admits[<<g[Len(s)], x>>] = Admitted(g[Len(s)], x)
  BY <1>6 DEF Admits
<1> QED
  BY <1>2, <1>3, <1>5, <1>6, <1>7 DEF t

LEMMA AppliedAbsorbs ==
  ASSUME NEW l \in Seq(Intents), Distinct(l), NEW items \in Seq(Intents)
  PROVE  Absorbs(l, items, Applied(l, items))
<1> DEFINE S == {s \in Seq(Intents) : Absorbs(l, s, Applied(l, s))}
<1>1. <<>> \in S
  <2>1. PICK g \in [0..Len(<<>>) -> Seq(Intents)] :
          Folds(g, <<>>, l, Admits) /\ Applied(l, <<>>) = g[Len(<<>>)]
    <3>1. <<>> \in Seq(Intents)
      OBVIOUS
    <3> QED
      BY <3>1, AppliedIs
  <2>2. Applied(l, <<>>) = l
    BY <2>1 DEF Folds
  <2> QED
    BY <2>2, AbsorbsNone
<1>2. ASSUME NEW s \in Seq(Intents), NEW x \in Intents, s \in S
      PROVE  Append(s, x) \in S
  <2>1. Absorbs(l, s, Applied(l, s))
    BY <1>2
  <2>2. Absorbs(l, Append(s, x), Admitted(Applied(l, s), x))
    BY <2>1, AdmittedAbsorbs
  <2>3. Append(s, x) \in Seq(Intents)
    BY AppendIs
  <2> QED
    BY <2>2, <2>3, AppliedAppend
<1> HIDE DEF S
<1>3. Seq(Intents) \subseteq S
  BY <1>1, <1>2, SeqInduction
<1> QED
  BY <1>3 DEF S

-----------------------------------------------------------------------------
(* What a batch is cut to.                                                  *)

SoundTo(items, k) == \A j \in 1..k : items[j] \notin expired

\* Of a finite range, the last number that satisfies a condition.
LEMMA LastOf ==
  ASSUME NEW N \in Nat, NEW S \in SUBSET (0..N), 0 \in S
  PROVE  Max(S) \in S /\ \A k \in S : k <= Max(S)
<1> DEFINE T == {n \in 0..N : \E k \in S : k <= n /\ \A j \in S : j <= n => j <= k}
<1>1. 0 \in T
  OBVIOUS
<1>2. \A n \in 0..(N - 1) : n \in T => n + 1 \in T
  <2> SUFFICES ASSUME NEW n \in 0..(N - 1), n \in T PROVE n + 1 \in T
    OBVIOUS
  <2>1. CASE n + 1 \in S
    <3>1. \A j \in S : j <= n + 1 => j <= n + 1
      OBVIOUS
    <3> QED
      BY <2>1, <3>1
  <2>2. CASE n + 1 \notin S
    <3>1. PICK k \in S : k <= n /\ \A j \in S : j <= n => j <= k
      OBVIOUS
    <3>2. \A j \in S : j <= n + 1 => j <= k
      BY <2>2, <3>1
    <3> QED
      BY <3>1, <3>2
  <2> QED
    BY <2>1, <2>2
<1> HIDE DEF T
<1>3. N \in T
  BY <1>1, <1>2, BoundedInduction
<1>4. PICK k \in S : \A j \in S : k >= j
  BY <1>3 DEF T
<1> QED
  BY <1>4 DEF Max

LEMMA ValidIs ==
  ASSUME NEW items \in Seq(Intents)
  PROVE  \E N \in 0..Len(items) :
            /\ Valid(items) = SubSeq(items, 1, N)
            /\ \A k \in 0..Len(items) : SoundTo(items, k) => k <= N
<1> DEFINE S == {k \in 0..Len(items) : SoundTo(items, k)}
<1>1. Len(items) \in Nat /\ 0 \in S /\ S \in SUBSET (0..Len(items))
  BY DEF SoundTo
<1>2. Valid(items) = SubSeq(items, 1, Max(S))
  BY Zenon DEF Valid, SoundTo
<1> HIDE DEF S
<1>3. Max(S) \in S /\ \A k \in S : k <= Max(S)
  BY <1>1, LastOf
<1> QED
  BY <1>1, <1>2, <1>3 DEF S

LEMMA SubSeqIs ==
  ASSUME NEW T, NEW s \in Seq(T), NEW n \in 0..Len(s)
  PROVE  /\ SubSeq(s, 1, n) \in Seq(T) /\ Len(SubSeq(s, 1, n)) = n
         /\ \A j \in 1..n : SubSeq(s, 1, n)[j] = s[j]
  OBVIOUS

\* What is valid of the items are items, and all of them up to the last before
\* which none has expired.
LEMMA ValidItems ==
  ASSUME NEW items \in Seq(Intents)
  PROVE  /\ Valid(items) \in Seq(Intents) /\ Len(Valid(items)) <= Len(items)
         /\ \A y : Within(y, Valid(items)) => Within(y, items)
         /\ \A k \in 1..Len(items) : SoundTo(items, k) => Within(items[k], Valid(items))
<1>1. PICK N \in 0..Len(items) :
        /\ Valid(items) = SubSeq(items, 1, N)
        /\ \A k \in 0..Len(items) : SoundTo(items, k) => k <= N
  BY ValidIs
<1> DEFINE v == Valid(items)
<1>2. v \in Seq(Intents) /\ Len(v) = N /\ \A j \in 1..N : v[j] = items[j]
  BY <1>1, SubSeqIs
<1>3. Len(items) \in Nat
  OBVIOUS
<1> HIDE DEF v
<1>4. \A y : Within(y, v) => Within(y, items)
  BY <1>2, <1>3 DEF Within
<1>5. ASSUME NEW k \in 1..Len(items), SoundTo(items, k) PROVE Within(items[k], v)
  <2>1. k \in 1..N
    BY <1>1, <1>3, <1>5
  <2> QED
    BY <1>2, <2>1 DEF Within
<1> QED
  BY <1>2, <1>3, <1>4, <1>5 DEF v

-----------------------------------------------------------------------------
(* The queues of a connection.                                              *)

Holds(q, type) == \E i \in 1..Len(q) : q[i].type = type
\* A VERSION is never behind another message.
Opens(q) == \A i \in 1..Len(q) : q[i].type = "VERSION" => i = 1
\* A VERACK with the request that follows it.
Welcomes(q) ==
  \E i, j \in 1..Len(q) : i < j /\ q[i].type = "VERACK" /\ q[j].type = "SYNC_REQUEST"
\* A message by which the receiver gets the k-th intent of the log l.
Says(msg, l, k) ==
  \/ /\ msg.type = "SYNC_RESPONSE" /\ k <= Len(msg.items)
     /\ \A j \in 1..k : msg.items[j] = l[j]
  \/ msg.type = "INTENT" /\ msg.items = <<l[k]>>
Tells(q, l, k) == \E i \in 1..Len(q) : Says(q[i], l, k)

LEMMA TailIs ==
  ASSUME NEW T, NEW q \in Seq(T), q # <<>>
  PROVE  /\ Tail(q) \in Seq(T) /\ Len(q) \in Nat \ {0} /\ Len(Tail(q)) = Len(q) - 1
         /\ Head(q) = q[1] /\ Head(q) \in T
         /\ \A i \in 1..(Len(q) - 1) : Tail(q)[i] = q[i + 1]
  OBVIOUS

LEMMA JoinIs ==
  ASSUME NEW T, NEW q \in Seq(T), NEW s \in Seq(T)
  PROVE  /\ q \o s \in Seq(T) /\ Len(q) \in Nat /\ Len(s) \in Nat /\ Len(q \o s) = Len(q) + Len(s)
         /\ \A i \in 1..Len(q) : (q \o s)[i] = q[i]
         /\ \A i \in 1..Len(s) : (q \o s)[Len(q) + i] = s[i]
  OBVIOUS

\* Behind the first message the queue stays what it was.
LEMMA TailKeeps ==
  ASSUME NEW T, NEW q \in Seq(T), q # <<>>
  PROVE  /\ \A type : Holds(q, type) /\ Head(q).type # type => Holds(Tail(q), type)
         /\ \A type : Holds(Tail(q), type) => Holds(q, type)
         /\ Welcomes(q) /\ Head(q).type # "VERACK" => Welcomes(Tail(q))
         /\ Opens(q) => Opens(Tail(q)) /\ ~Holds(Tail(q), "VERSION")
         /\ Opens(q) /\ Head(q).type # "VERSION" => ~Holds(q, "VERSION")
         /\ \A l, k : Tells(q, l, k) => Says(Head(q), l, k) \/ Tells(Tail(q), l, k)
<1> DEFINE t == Tail(q)
           N == Len(q)
<1>1. /\ N \in Nat \ {0} /\ Len(t) = N - 1 /\ Head(q) = q[1] /\ \A i \in 1..(N - 1) : t[i] = q[i + 1]
  BY TailIs
<1> DEFINE h == Head(q)
<1> HIDE DEF t, N, h
<1>2. h = q[1] /\ Len(q) = N
  BY <1>1 DEF h, N
<1>3. \A i \in 1..N : i = 1 \/ (i - 1 \in 1..Len(t) /\ t[i - 1] = q[i])
  BY <1>1
<1>4. \A i \in 1..Len(t) : i + 1 \in 1..N /\ t[i] = q[i + 1]
  BY <1>1
<1>5. \A type : Holds(q, type) /\ h.type # type => Holds(t, type)
  <2> SUFFICES ASSUME NEW type, Holds(q, type), h.type # type PROVE Holds(t, type)
    OBVIOUS
  <2>1. PICK i \in 1..N : q[i].type = type
    BY <1>2 DEF Holds
  <2>2. i - 1 \in 1..Len(t) /\ t[i - 1] = q[i]
    BY <1>2, <1>3, <2>1
  <2> QED
    BY <2>1, <2>2 DEF Holds
<1>6. \A type : Holds(t, type) => Holds(q, type)
  <2> SUFFICES ASSUME NEW type, Holds(t, type) PROVE Holds(q, type)
    OBVIOUS
  <2>1. PICK i \in 1..Len(t) : t[i].type = type
    BY DEF Holds
  <2>2. i + 1 \in 1..Len(q) /\ t[i] = q[i + 1]
    BY <1>2, <1>4
  <2> QED
    BY <2>1, <2>2 DEF Holds
<1>7. Welcomes(q) /\ h.type # "VERACK" => Welcomes(t)
  <2> SUFFICES ASSUME Welcomes(q), h.type # "VERACK" PROVE Welcomes(t)
    OBVIOUS
  <2>1. PICK i \in 1..N, j \in 1..N : i < j /\ q[i].type = "VERACK" /\ q[j].type = "SYNC_REQUEST"
    BY <1>2 DEF Welcomes
  <2>2. i # 1 /\ j # 1
    BY <1>2, <2>1
  <2>3. /\ i - 1 \in 1..Len(t) /\ t[i - 1] = q[i] /\ j - 1 \in 1..Len(t) /\ t[j - 1] = q[j]
        /\ i - 1 < j - 1
    BY <1>3, <2>1, <2>2
  <2> QED
    BY <2>1, <2>3 DEF Welcomes
<1>8. Opens(q) => Opens(t) /\ ~Holds(t, "VERSION")
  <2> SUFFICES ASSUME Opens(q), NEW i \in 1..Len(t), t[i].type = "VERSION" PROVE FALSE
    BY DEF Opens, Holds
  <2>1. i + 1 \in 1..Len(q) /\ t[i] = q[i + 1] /\ i + 1 # 1
    BY <1>2, <1>4
  <2> QED
    BY <2>1 DEF Opens
<1>9. Opens(q) /\ h.type # "VERSION" => ~Holds(q, "VERSION")
  BY <1>2 DEF Opens, Holds
<1>10. \A l, k : Tells(q, l, k) => Says(h, l, k) \/ Tells(t, l, k)
  <2> SUFFICES ASSUME NEW l, NEW k, Tells(q, l, k), ~Says(h, l, k) PROVE Tells(t, l, k)
    OBVIOUS
  <2>1. PICK i \in 1..N : Says(q[i], l, k)
    BY <1>2 DEF Tells
  <2>2. i - 1 \in 1..Len(t) /\ t[i - 1] = q[i]
    BY <1>2, <1>3, <2>1
  <2> QED
    BY <2>1, <2>2 DEF Tells
<1> QED
  BY <1>5, <1>6, <1>7, <1>8, <1>9, <1>10 DEF t, h

\* What is written behind adds to it.
LEMMA JoinKeeps ==
  ASSUME NEW T, NEW q \in Seq(T), NEW s \in Seq(T)
  PROVE  /\ \A type : Holds(q \o s, type) <=> Holds(q, type) \/ Holds(s, type)
         /\ Welcomes(q) \/ Welcomes(s) => Welcomes(q \o s)
         /\ Opens(q) /\ ~Holds(s, "VERSION") => Opens(q \o s)
         /\ \A l, k : Tells(q, l, k) \/ Tells(s, l, k) => Tells(q \o s, l, k)
<1> DEFINE r == q \o s
           N == Len(q)
           M == Len(s)
<1>1. /\ N \in Nat /\ M \in Nat /\ Len(r) = N + M /\ \A i \in 1..N : r[i] = q[i]
      /\ \A i \in 1..M : r[N + i] = s[i]
  BY JoinIs
<1> HIDE DEF r
<1>2. \A i \in 1..N : i \in 1..Len(r) /\ r[i] = q[i]
  BY <1>1
<1>3. \A i \in 1..M : N + i \in 1..Len(r) /\ r[N + i] = s[i]
  BY <1>1
<1>4. \A i \in 1..Len(r) : (i \in 1..N /\ r[i] = q[i]) \/ (i - N \in 1..M /\ r[i] = s[i - N])
  <2> SUFFICES ASSUME NEW i \in 1..Len(r), i \notin 1..N PROVE i - N \in 1..M /\ r[i] = s[i - N]
    BY <1>1
  <2>1. i - N \in 1..M /\ N + (i - N) = i
    BY <1>1
  <2> QED
    BY <1>1, <2>1
<1> HIDE DEF N, M
<1>5. Len(q) = N /\ Len(s) = M
  BY DEF N, M
<1>6. \A type : Holds(r, type) <=> Holds(q, type) \/ Holds(s, type)
  <2> SUFFICES ASSUME NEW type PROVE Holds(r, type) <=> Holds(q, type) \/ Holds(s, type)
    OBVIOUS
  <2>1. Holds(r, type) => Holds(q, type) \/ Holds(s, type)
    BY <1>4, <1>5 DEF Holds
  <2>2. Holds(q, type) => Holds(r, type)
    BY <1>2, <1>5 DEF Holds
  <2>3. Holds(s, type) => Holds(r, type)
    BY <1>3, <1>5 DEF Holds
  <2> QED
    BY <2>1, <2>2, <2>3
<1>7. Welcomes(q) => Welcomes(r)
  BY <1>2, <1>5 DEF Welcomes
<1>8. Welcomes(s) => Welcomes(r)
  <2> SUFFICES ASSUME Welcomes(s) PROVE Welcomes(r)
    OBVIOUS
  <2>1. PICK i \in 1..M, j \in 1..M : i < j /\ s[i].type = "VERACK" /\ s[j].type = "SYNC_REQUEST"
    BY <1>5 DEF Welcomes
  <2>2. /\ N + i \in 1..Len(r) /\ r[N + i] = s[i] /\ N + j \in 1..Len(r) /\ r[N + j] = s[j]
        /\ N + i < N + j
    BY <1>1, <1>3, <2>1
  <2> QED
    BY <2>1, <2>2 DEF Welcomes
<1>9. Opens(q) /\ ~Holds(s, "VERSION") => Opens(r)
  BY <1>4, <1>5 DEF Opens, Holds
<1>10. \A l, k : Tells(q, l, k) => Tells(r, l, k)
  BY <1>2, <1>5 DEF Tells
<1>11. \A l, k : Tells(s, l, k) => Tells(r, l, k)
  BY <1>3, <1>5 DEF Tells
<1> QED
  BY <1>6, <1>7, <1>8, <1>9, <1>10, <1>11 DEF r

-----------------------------------------------------------------------------
(* One direction of a connection: q and r are the queues of n and of its    *)
(* peer, R are the ends that are ready.                                     *)

\* n is ready, or its peer has yet to read the VERSION, or to n the VERACK is on
\* its way and the peer's request behind it.
Half(q, r, n, R) ==
  /\ Opens(q) /\ (Holds(q, "VERSION") => n \notin R)
  /\ n \notin R => Holds(r, "VERSION") \/ Welcomes(q)

\* The k-th intent of the log l is promised to the peer: x have expired, u were
\* accepted from batches that were refused.
Due(l, k, x, u) == k <= Batch /\ (\A j \in 1..k : l[j] \notin x) /\ l[k] \notin u

\* The peer, whose log is p, has it, or will ask, or is asking for it, or it is
\* on its way, or n has it among the broadcasts w to run.
Met(q, r, n, R, l, p, w, k) ==
  \/ Taken(p, l[k])
  \/ Holds(r, "VERSION")
  \/ Holds(q, "SYNC_REQUEST")
  \/ Tells(r, l, k)
  \/ n \in R /\ Within(l[k], w)

Owes(q, r, n, R, l, p, w, x, u) ==
  \A k \in 1..Len(l) : Due(l, k, x, u) => Met(q, r, n, R, l, p, w, k)

\* More is written to the peer, or to n.
LEMMA OwesHears ==
  ASSUME NEW q, NEW r \in Seq(Messages), NEW n, NEW R, NEW l, NEW p, NEW w, NEW x, NEW u,
         Owes(q, r, n, R, l, p, w, x, u), NEW b \in Seq(Messages)
  PROVE  Owes(q, r \o b, n, R, l, p, w, x, u)
<1> SUFFICES ASSUME NEW k \in 1..Len(l), Due(l, k, x, u)
             PROVE  Met(q, r \o b, n, R, l, p, w, k)
  BY DEF Owes
<1>1. Met(q, r, n, R, l, p, w, k)
  BY DEF Owes
<1>2. /\ Holds(r, "VERSION") => Holds(r \o b, "VERSION")
      /\ Tells(r, l, k) => Tells(r \o b, l, k)
  BY JoinKeeps
<1> QED
  BY <1>1, <1>2 DEF Met

LEMMA OwesIsTold ==
  ASSUME NEW q \in Seq(Messages), NEW r, NEW n, NEW R, NEW l, NEW p, NEW w, NEW x, NEW u,
         Owes(q, r, n, R, l, p, w, x, u), NEW b \in Seq(Messages)
  PROVE  Owes(q \o b, r, n, R, l, p, w, x, u)
<1> SUFFICES ASSUME NEW k \in 1..Len(l), Due(l, k, x, u)
             PROVE  Met(q \o b, r, n, R, l, p, w, k)
  BY DEF Owes
<1>1. Met(q, r, n, R, l, p, w, k)
  BY DEF Owes
<1>2. Holds(q, "SYNC_REQUEST") => Holds(q \o b, "SYNC_REQUEST")
  BY JoinKeeps
<1> QED
  BY <1>1, <1>2 DEF Met

\* n reads a message that is no request.
LEMMA OwesNext ==
  ASSUME NEW q \in Seq(Messages), NEW r, NEW n, NEW R, NEW l, NEW p, NEW w, NEW x, NEW u,
         Owes(q, r, n, R, l, p, w, x, u), q # <<>>, Head(q).type # "SYNC_REQUEST"
  PROVE  Owes(Tail(q), r, n, R, l, p, w, x, u)
<1> SUFFICES ASSUME NEW k \in 1..Len(l), Due(l, k, x, u)
             PROVE  Met(Tail(q), r, n, R, l, p, w, k)
  BY DEF Owes
<1>1. Met(q, r, n, R, l, p, w, k)
  BY DEF Owes
<1>2. Holds(q, "SYNC_REQUEST") => Holds(Tail(q), "SYNC_REQUEST")
  BY TailKeeps
<1> QED
  BY <1>1, <1>2 DEF Met

\* The peer reads a message and takes what it says.
LEMMA OwesRead ==
  ASSUME NEW q, NEW r \in Seq(Messages), NEW n, NEW R, NEW l, NEW p, NEW w, NEW x, NEW u,
         Owes(q, r, n, R, l, p, w, x, u), r # <<>>, Head(r).type # "VERSION",
         \A k \in 1..Len(l) : Due(l, k, x, u) /\ Says(Head(r), l, k) => Taken(p, l[k])
  PROVE  Owes(q, Tail(r), n, R, l, p, w, x, u)
<1> SUFFICES ASSUME NEW k \in 1..Len(l), Due(l, k, x, u)
             PROVE  Met(q, Tail(r), n, R, l, p, w, k)
  BY DEF Owes
<1>1. Met(q, r, n, R, l, p, w, k)
  BY DEF Owes
<1>2. /\ Holds(r, "VERSION") => Holds(Tail(r), "VERSION")
      /\ Tells(r, l, k) => Says(Head(r), l, k) \/ Tells(Tail(r), l, k)
  BY TailKeeps
<1> QED
  BY <1>1, <1>2 DEF Met

\* A request on its way to n covers everything.
LEMMA OwesAsks ==
  ASSUME NEW q, NEW r, NEW n, NEW R, NEW l, NEW p, NEW w, NEW x, NEW u, Holds(q, "SYNC_REQUEST")
  PROVE  Owes(q, r, n, R, l, p, w, x, u)
  BY DEF Owes, Met

\* The ends that are ready change.
LEMMA OwesReady ==
  ASSUME NEW q, NEW r, NEW n, NEW R, NEW l, NEW p, NEW w, NEW x, NEW u,
         Owes(q, r, n, R, l, p, w, x, u), NEW S, n \in R => n \in S
  PROVE  Owes(q, r, n, S, l, p, w, x, u)
  BY DEF Owes, Met

\* n answers with the first Batch entries of its log.
Answer(l, msg) ==
  /\ msg.type = "SYNC_RESPONSE"
  /\ msg.items = SubSeq(l, 1, IF Len(l) < Batch THEN Len(l) ELSE Batch)

LEMMA OwesAnswers ==
  ASSUME NEW q, NEW r \in Seq(Messages), NEW n, NEW R, NEW l \in Seq(Intents), NEW p, NEW w, NEW x, NEW u,
         NEW msg \in Messages, Answer(l, msg)
  PROVE  Owes(q, r \o <<msg>>, n, R, l, p, w, x, u)
<1> SUFFICES ASSUME NEW k \in 1..Len(l), Due(l, k, x, u)
             PROVE  Met(q, r \o <<msg>>, n, R, l, p, w, k)
  BY DEF Owes
<1> DEFINE N == IF Len(l) < Batch THEN Len(l) ELSE Batch
           d == SubSeq(l, 1, N)
<1>1. Len(l) \in Nat /\ Batch \in Nat /\ N \in 0..Len(l) /\ k \in 1..N
  BY GossipAssumption DEF Due
<1>2. Len(d) = N /\ \A j \in 1..N : d[j] = l[j]
  BY <1>1, SubSeqIs
<1>3. msg.type = "SYNC_RESPONSE" /\ msg.items = d
  BY DEF Answer
<1> HIDE DEF N, d
<1>4. Says(msg, l, k)
  BY <1>1, <1>2, <1>3 DEF Says
<1>5. <<msg>> \in Seq(Messages) /\ Len(<<msg>>) = 1 /\ <<msg>>[1] = msg
  OBVIOUS
<1>6. Tells(<<msg>>, l, k)
  BY <1>4, <1>5 DEF Tells
<1>7. Tells(r \o <<msg>>, l, k)
  BY <1>5, <1>6, JoinKeeps
<1> QED
  BY <1>7 DEF Met

\* n runs its first broadcast.
Tidings(i, msg) == msg.type = "INTENT" /\ msg.items = <<i>>

LEMMA OwesSays ==
  ASSUME NEW q, NEW r \in Seq(Messages), NEW n, NEW R, NEW l, NEW p, NEW w \in Seq(Intents), NEW x, NEW u,
         Owes(q, r, n, R, l, p, w, x, u), w # <<>>, NEW msg \in Messages, Tidings(Head(w), msg)
  PROVE  Owes(q, r \o <<msg>>, n, R, l, p, Tail(w), x, u)
<1> SUFFICES ASSUME NEW k \in 1..Len(l), Due(l, k, x, u)
             PROVE  Met(q, r \o <<msg>>, n, R, l, p, Tail(w), k)
  BY DEF Owes
<1>1. Met(q, r, n, R, l, p, w, k)
  BY DEF Owes
<1>2. <<msg>> \in Seq(Messages) /\ Len(<<msg>>) = 1 /\ <<msg>>[1] = msg
  OBVIOUS
<1>3. /\ Holds(r, "VERSION") => Holds(r \o <<msg>>, "VERSION")
      /\ Tells(r, l, k) => Tells(r \o <<msg>>, l, k)
      /\ Tells(<<msg>>, l, k) => Tells(r \o <<msg>>, l, k)
  BY <1>2, JoinKeeps
<1>4. /\ Len(w) \in Nat \ {0} /\ Len(Tail(w)) = Len(w) - 1 /\ Head(w) = w[1]
      /\ \A i \in 1..(Len(w) - 1) : Tail(w)[i] = w[i + 1]
  BY TailIs
<1>5. ASSUME Within(l[k], w) PROVE Tells(<<msg>>, l, k) \/ Within(l[k], Tail(w))
  <2>1. PICK j \in 1..Len(w) : w[j] = l[k]
    BY <1>5 DEF Within
  <2>2. CASE j = 1
    <3>1. Says(msg, l, k)
      BY <1>4, <2>1, <2>2 DEF Says, Tidings
    <3> QED
      BY <1>2, <3>1 DEF Tells
  <2>3. CASE j # 1
    <3>1. j - 1 \in 1..Len(Tail(w)) /\ Tail(w)[j - 1] = l[k]
      BY <1>4, <2>1, <2>3
    <3> QED
      BY <3>1 DEF Within
  <2> QED
    BY <2>2, <2>3
<1> QED
  BY <1>1, <1>3, <1>5 DEF Met

\* n is not ready: the broadcasts do not matter.
LEMMA OwesAside ==
  ASSUME NEW q, NEW r, NEW n, NEW R, NEW l, NEW p, NEW w, NEW x, NEW u,
         Owes(q, r, n, R, l, p, w, x, u), n \notin R, NEW v
  PROVE  Owes(q, r, n, R, l, p, v, x, u)
  BY DEF Owes, Met

\* The logs grow, and what is new in that of n is among its broadcasts, or it
\* came from a batch that was refused.
Grows(l, w, u, m, v, t) ==
  /\ l \in Seq(Intents) /\ LongerLog(l, m)
  /\ \A i : Within(i, w) => Within(i, v)
  /\ \A k \in (Len(l) + 1)..Len(m) : Within(m[k], v) \/ m[k] \in t
  /\ u \subseteq t

LEMMA OwesGrows ==
  ASSUME NEW q, NEW r, NEW n, NEW R, NEW l, NEW p, NEW w, NEW x, NEW u,
         Owes(q, r, n, R, l, p, w, x, u), Half(q, r, n, R),
         NEW m, NEW v, NEW t, Grows(l, w, u, m, v, t),
         p \in Seq(Intents), NEW o, LongerLog(p, o), NEW y, x \subseteq y
  PROVE  Owes(q, r, n, R, m, o, v, y, t)
<1> SUFFICES ASSUME NEW k \in 1..Len(m), Due(m, k, y, t)
             PROVE  Met(q, r, n, R, m, o, v, k)
  BY DEF Owes
<1>1. /\ l \in Seq(Intents) /\ m \in Seq(Intents) /\ Len(l) \in Nat /\ Len(l) <= Len(m) /\ Len(m) \in Nat
      /\ \A j \in 1..Len(l) : m[j] = l[j]
  BY DEF Grows, LongerLog
<1>2. CASE k \in 1..Len(l)
  <2>1. \A j \in 1..k : m[j] = l[j]
    BY <1>1, <1>2
  <2>2. Due(l, k, x, u)
    BY <1>2, <2>1 DEF Due, Grows
  <2>3. Met(q, r, n, R, l, p, w, k) /\ m[k] = l[k]
    BY <1>1, <1>2, <2>2 DEF Owes
  <2>4. Taken(p, l[k]) => Taken(o, l[k])
    BY TakenOn
  <2>5. Tells(r, l, k) => Tells(r, m, k)
    BY <2>1, <2>3 DEF Tells, Says
  <2>6. Within(l[k], w) => Within(l[k], v)
    BY DEF Grows
  <2> QED
    BY <2>3, <2>4, <2>5, <2>6 DEF Met
<1>3. CASE k \notin 1..Len(l)
  <2>1. Within(m[k], v)
    <3>1. k \in (Len(l) + 1)..Len(m)
      BY <1>1, <1>3
    <3> QED
      BY <3>1 DEF Grows, Due
  <2>2. n \in R \/ Holds(r, "VERSION") \/ Holds(q, "SYNC_REQUEST")
    BY DEF Half, Welcomes, Holds
  <2> QED
    BY <2>1, <2>2 DEF Met
<1> QED
  BY <1>2, <1>3

\* n reads VERSION, and answers with VERACK and a request.
LEMMA HalfVersion ==
  ASSUME NEW q \in Seq(Messages), NEW r \in Seq(Messages), NEW n, NEW m, NEW R,
         Half(q, r, n, R), Half(r, q, m, R), q # <<>>, Head(q).type = "VERSION", n # m,
         NEW s \in Seq(Messages), Welcomes(s), ~Holds(s, "VERSION")
  PROVE  Half(Tail(q), r \o s, n, R \ {n}) /\ Half(r \o s, Tail(q), m, R \ {n})
<1>1. n \notin R
  <2>1. Holds(q, "VERSION")
    <3>1. Len(q) \in Nat \ {0} /\ Head(q) = q[1]
      BY TailIs
    <3> QED
      BY <3>1 DEF Holds
  <2> QED
    BY <2>1 DEF Half
<1>2. Opens(q) /\ Opens(r)
  BY DEF Half
<1>3. Opens(Tail(q)) /\ ~Holds(Tail(q), "VERSION") /\ (Welcomes(q) => Welcomes(Tail(q)))
  BY <1>2, TailKeeps
<1>4. /\ Holds(r \o s, "VERSION") <=> Holds(r, "VERSION")
      /\ Welcomes(r \o s) /\ Opens(r \o s)
  BY <1>2, JoinKeeps
<1> QED
  BY <1>1, <1>3, <1>4 DEF Half

\* n reads VERACK and is ready.
LEMMA HalfVerack ==
  ASSUME NEW q \in Seq(Messages), NEW r \in Seq(Messages), NEW n, NEW m, NEW R,
         Half(q, r, n, R), Half(r, q, m, R), q # <<>>, Head(q).type = "VERACK", n # m
  PROVE  Half(Tail(q), r, n, R \cup {n}) /\ Half(r, Tail(q), m, R \cup {n})
<1>1. Opens(q) /\ Opens(r)
  BY DEF Half
<1>2. Opens(Tail(q)) /\ ~Holds(Tail(q), "VERSION") /\ ~Holds(q, "VERSION")
  BY <1>1, TailKeeps
<1> QED
  BY <1>1, <1>2 DEF Half

\* n reads anything else.
LEMMA HalfRead ==
  ASSUME NEW q \in Seq(Messages), NEW r \in Seq(Messages), NEW n, NEW m, NEW R,
         Half(q, r, n, R), Half(r, q, m, R), q # <<>>, Head(q).type \notin {"VERSION", "VERACK"}
  PROVE  Half(Tail(q), r, n, R) /\ Half(r, Tail(q), m, R)
<1>1. Opens(q) /\ Opens(r)
  BY DEF Half
<1>2. /\ Opens(Tail(q)) /\ ~Holds(Tail(q), "VERSION") /\ ~Holds(q, "VERSION")
      /\ Welcomes(q) => Welcomes(Tail(q))
  BY <1>1, TailKeeps
<1> QED
  BY <1>1, <1>2 DEF Half

\* Something that is no VERSION is written to the peer.
LEMMA HalfJoin ==
  ASSUME NEW q \in Seq(Messages), NEW r \in Seq(Messages), NEW n, NEW m, NEW R,
         Half(q, r, n, R), Half(r, q, m, R), NEW s \in Seq(Messages), ~Holds(s, "VERSION")
  PROVE  Half(q, r \o s, n, R) /\ Half(r \o s, q, m, R)
<1>1. Opens(q) /\ Opens(r)
  BY DEF Half
<1>2. /\ Holds(r \o s, "VERSION") <=> Holds(r, "VERSION")
      /\ Welcomes(r) => Welcomes(r \o s)
      /\ Opens(r \o s)
  BY <1>1, JoinKeeps
<1> QED
  BY <1>1, <1>2 DEF Half

-----------------------------------------------------------------------------
(* Connections as records.                                                  *)

Conn(a, b, lv, h, R, i) == [from |-> a, to |-> b, live |-> lv, held |-> h, ready |-> R, in |-> i]

\* A connection two nodes have, one of them perhaps no longer.
Connection(c) ==
  /\ c = Conn(c.from, c.to, c.live, c.held, c.ready, c.in)
  /\ c.from \in Nodes /\ c.to \in Seeds[c.from] /\ c.live \in BOOLEAN
  /\ c.held \in SUBSET Ends(c) /\ c.held # {} /\ c.ready \subseteq c.held
  /\ c.in \in [Ends(c) -> Seq(Messages)]
  /\ c.live => c.held = Ends(c)
  /\ ~c.live => \A n \in Ends(c) : c.in[n] = <<>>

LEMMA ConnFields ==
  ASSUME NEW a, NEW b, NEW lv, NEW h, NEW R, NEW i, NEW d, d = Conn(a, b, lv, h, R, i)
  PROVE  /\ d.from = a /\ d.to = b /\ d.live = lv /\ d.held = h /\ d.ready = R /\ d.in = i
         /\ Ends(d) = {a, b}
  BY DEF Conn, Ends

LEMMA ConnEdit ==
  ASSUME NEW a, NEW b, NEW lv, NEW h, NEW R, NEW i, NEW j
  PROVE  /\ [Conn(a, b, lv, h, R, i) EXCEPT !.in = j] = Conn(a, b, lv, h, R, j)
         /\ [Conn(a, b, lv, h, R, i) EXCEPT !.ready = j] = Conn(a, b, lv, h, j, i)
  BY DEF Conn

\* The two ends of a connection.
LEMMA PeerIs ==
  ASSUME NEW c, Connection(c), NEW n \in Ends(c)
  PROVE  /\ Peer(c, n) \in Ends(c) /\ Peer(c, n) # n /\ Ends(c) = {n, Peer(c, n)}
         /\ Peer(c, Peer(c, n)) = n /\ Ends(c) \subseteq Nodes
<1>1. c.from # c.to /\ c.from \in Nodes /\ c.to \in Nodes
  BY GossipAssumption DEF Connection
<1>2. Ends(c) = {c.from, c.to}
  BY DEF Ends
<1>3. ASSUME NEW e \in Ends(c) PROVE Peer(c, e) \in Ends(c) /\ Peer(c, e) # e
  <2>1. \E m \in Ends(c) : m # e
    BY <1>1, <1>2
  <2> QED
    BY <2>1 DEF Peer
<1>4. Ends(c) = {n, Peer(c, n)}
  BY <1>2, <1>3
<1>5. Peer(c, Peer(c, n)) = n
  BY <1>3, <1>4
<1> QED
  BY <1>1, <1>2, <1>3, <1>4, <1>5

LEMMA PeerSame ==
  ASSUME NEW c, NEW d, Ends(d) = Ends(c), NEW n
  PROVE  Peer(d, n) = Peer(c, n)
  BY DEF Peer

\* What one end of a live connection, n, owes the other, m: L are the logs, W the
\* broadcasts, x what has expired, U what came from refused batches.
Direct(i, n, m, R, L, W, x, U) ==
  /\ Half(i[n], i[m], n, R)
  /\ Owes(i[n], i[m], n, R, L[n], L[m], W[n], x, U[n])
Linked(c, L, W, x, U) == \A n \in Ends(c) : Direct(c.in, n, Peer(c, n), c.ready, L, W, x, U)
Kept(c, L, W, x, U) == Connection(c) /\ (c.live => Linked(c, L, W, x, U))

LEMMA LinkedBoth ==
  ASSUME NEW c, Connection(c), NEW n \in Ends(c), NEW L, NEW W, NEW x, NEW U
  PROVE  Linked(c, L, W, x, U) <=> /\ Direct(c.in, n, Peer(c, n), c.ready, L, W, x, U)
                                   /\ Direct(c.in, Peer(c, n), n, c.ready, L, W, x, U)
<1> DEFINE m == Peer(c, n)
<1>1. m \in Ends(c) /\ Ends(c) = {n, m} /\ Peer(c, m) = n
  BY PeerIs
<1> HIDE DEF m
<1>2. Peer(c, n) = m
  BY DEF m
<1> QED
  BY <1>1, <1>2 DEF Linked

\* A connection of the same ends with other queues.
Rewired(c, d, R, i) ==
  /\ d = Conn(c.from, c.to, c.live, c.held, R, i)
  /\ R \subseteq c.held /\ i \in [Ends(c) -> Seq(Messages)]

LEMMA RewiredIs ==
  ASSUME NEW c, Connection(c), c.live, NEW d, NEW R, NEW i, Rewired(c, d, R, i)
  PROVE  /\ Connection(d) /\ d.live /\ Ends(d) = Ends(c) /\ d.ready = R /\ d.in = i
         /\ d.from = c.from /\ d.to = c.to /\ d.held = c.held
<1>1. d = Conn(c.from, c.to, c.live, c.held, R, i) /\ R \subseteq c.held /\ i \in [Ends(c) -> Seq(Messages)]
  BY DEF Rewired
<1>2. /\ d.from = c.from /\ d.to = c.to /\ d.live = c.live /\ d.held = c.held /\ d.ready = R /\ d.in = i
      /\ Ends(d) = {c.from, c.to}
  <2> DEFINE a == c.from
             b == c.to
             h == c.held
             lv == c.live
  <2>1. d = Conn(a, b, lv, h, R, i)
    BY <1>1
  <2> HIDE DEF a, b, h, lv
  <2>2. /\ d.from = a /\ d.to = b /\ d.live = lv /\ d.held = h /\ d.ready = R /\ d.in = i
        /\ Ends(d) = {a, b}
    BY <2>1, ConnFields
  <2> QED
    BY <2>2 DEF a, b, h, lv
<1>3. Ends(d) = Ends(c)
  BY <1>2 DEF Ends
<1>4. /\ c.from \in Nodes /\ c.to \in Seeds[c.from] /\ c.live \in BOOLEAN
      /\ c.held \in SUBSET Ends(c) /\ c.held # {} /\ c.held = Ends(c)
  BY DEF Connection
<1>5. d = Conn(d.from, d.to, d.live, d.held, d.ready, d.in)
  BY <1>1, <1>2
<1> QED
  BY <1>1, <1>2, <1>3, <1>4, <1>5 DEF Connection

\* What Taking and Sent make of a live connection.
LEMMA TakingIs ==
  ASSUME NEW c, Connection(c), c.live, NEW n \in Ends(c), c.in[n] # <<>>
  PROVE  /\ Taking(n, c) = Conn(c.from, c.to, c.live, c.held, c.ready, [c.in EXCEPT ![n] = Tail(c.in[n])])
         /\ Rewired(c, Taking(n, c), c.ready, [c.in EXCEPT ![n] = Tail(c.in[n])])
<1> DEFINE a == c.from
           b == c.to
           h == c.held
           R == c.ready
           i == c.in
           lv == c.live
           j == [i EXCEPT ![n] = Tail(i[n])]
<1>1. c = Conn(a, b, lv, h, R, i) /\ i \in [Ends(c) -> Seq(Messages)] /\ R \subseteq h
  BY DEF Connection
<1>2. Tail(i[n]) \in Seq(Messages)
  <2>1. i[n] \in Seq(Messages)
    BY <1>1
  <2> QED
    BY <2>1, TailIs
<1>3. j \in [Ends(c) -> Seq(Messages)]
  BY <1>1, <1>2
<1>4. Taking(n, c) = [c EXCEPT !.in = j]
  BY DEF Taking
<1> HIDE DEF a, b, h, R, i, lv, j
<1>5. [c EXCEPT !.in = j] = Conn(a, b, lv, h, R, j)
  BY <1>1, ConnEdit
<1>6. Taking(n, c) = Conn(a, b, lv, h, R, j)
  BY <1>4, <1>5
<1>7. Rewired(c, Taking(n, c), R, j)
  BY <1>1, <1>3, <1>6 DEF Rewired, a, b, lv, h
<1> QED
  BY <1>6, <1>7 DEF a, b, h, R, i, lv, j

LEMMA SentIs ==
  ASSUME NEW c, Connection(c), c.live, NEW m \in Ends(c), NEW s \in Seq(Messages)
  PROVE  /\ Sent(c, m, s) = Conn(c.from, c.to, c.live, c.held, c.ready, [c.in EXCEPT ![m] = c.in[m] \o s])
         /\ Rewired(c, Sent(c, m, s), c.ready, [c.in EXCEPT ![m] = c.in[m] \o s])
<1> DEFINE a == c.from
           b == c.to
           h == c.held
           R == c.ready
           i == c.in
           lv == c.live
           j == [i EXCEPT ![m] = i[m] \o s]
<1>1. c = Conn(a, b, lv, h, R, i) /\ i \in [Ends(c) -> Seq(Messages)] /\ R \subseteq h
  BY DEF Connection
<1>2. i[m] \o s \in Seq(Messages)
  <2>1. i[m] \in Seq(Messages)
    BY <1>1
  <2> QED
    BY <2>1, JoinIs
<1>3. j \in [Ends(c) -> Seq(Messages)]
  BY <1>1, <1>2
<1>4. Sent(c, m, s) = [c EXCEPT !.in = j]
  BY DEF Sent
<1> HIDE DEF a, b, h, R, i, lv, j
<1>5. [c EXCEPT !.in = j] = Conn(a, b, lv, h, R, j)
  BY <1>1, ConnEdit
<1>6. Sent(c, m, s) = Conn(a, b, lv, h, R, j)
  BY <1>4, <1>5
<1>7. Rewired(c, Sent(c, m, s), R, j)
  BY <1>1, <1>3, <1>6 DEF Rewired, a, b, lv, h
<1> QED
  BY <1>6, <1>7 DEF a, b, h, R, i, lv, j

\* The ready ends of a connection change.
LEMMA ReadyIs ==
  ASSUME NEW c, Connection(c), c.live, NEW S \in SUBSET c.held
  PROVE  Rewired(c, [c EXCEPT !.ready = S], S, c.in)
<1> DEFINE a == c.from
           b == c.to
           h == c.held
           R == c.ready
           i == c.in
           lv == c.live
<1>1. c = Conn(a, b, lv, h, R, i) /\ i \in [Ends(c) -> Seq(Messages)]
  BY DEF Connection
<1> DEFINE e == [c EXCEPT !.ready = S]
<1> HIDE DEF a, b, h, R, i, lv
<1>2. e = Conn(a, b, lv, h, S, i)
  <2>1. c = Conn(a, b, lv, h, R, i)
    BY <1>1
  <2>2. [Conn(a, b, lv, h, R, i) EXCEPT !.ready = S] = Conn(a, b, lv, h, S, i)
    BY DEF Conn
  <2> QED
    BY <2>1, <2>2, Zenon
<1> HIDE DEF e
<1>3. S \subseteq c.held /\ c.in \in [Ends(c) -> Seq(Messages)]
  BY <1>1 DEF i
<1>4. Rewired(c, e, S, c.in)
  BY <1>2, <1>3 DEF Rewired, a, b, h, i, lv
<1> QED
  BY <1>4 DEF e

-----------------------------------------------------------------------------
(* What a connection keeps in every step.                                   *)

\* The logs, broadcasts, expiries and refused batches move on.
AllGrow(S, L, W, x, U, M, V, y, T) ==
  /\ x \subseteq y
  /\ \A n \in S : L[n] \in Seq(Intents) /\ Grows(L[n], W[n], U[n], M[n], V[n], T[n])

LEMMA KeptGrows ==
  ASSUME NEW c, NEW L, NEW W, NEW x, NEW U, Kept(c, L, W, x, U),
         NEW M, NEW V, NEW y, NEW T, AllGrow(Ends(c), L, W, x, U, M, V, y, T)
  PROVE  Kept(c, M, V, y, T)
<1> SUFFICES ASSUME c.live, NEW n \in Ends(c)
             PROVE  Direct(c.in, n, Peer(c, n), c.ready, M, V, y, T)
  BY DEF Kept, Linked
<1> DEFINE m == Peer(c, n)
           q == c.in[n]
           r == c.in[m]
           R == c.ready
<1>1. m \in Ends(c)
  BY PeerIs DEF Kept
<1>2. Half(q, r, n, R) /\ Owes(q, r, n, R, L[n], L[m], W[n], x, U[n])
  BY DEF Kept, Linked, Direct
<1>3. /\ Grows(L[n], W[n], U[n], M[n], V[n], T[n]) /\ x \subseteq y
      /\ L[m] \in Seq(Intents) /\ LongerLog(L[m], M[m])
  BY <1>1 DEF AllGrow, Grows
<1> DEFINE l == L[n]
           p == L[m]
           w == W[n]
           u == U[n]
           a == M[n]
           o == M[m]
           v == V[n]
           t == T[n]
<1> HIDE DEF q, r, R, l, p, w, u, a, o, v, t, m
<1>4. Half(q, r, n, R) /\ Owes(q, r, n, R, l, p, w, x, u)
  BY <1>2 DEF l, p, w, u
<1>5. Grows(l, w, u, a, v, t) /\ x \subseteq y /\ p \in Seq(Intents) /\ LongerLog(p, o)
  BY <1>3 DEF l, p, w, u, a, o, v, t
<1>6. Owes(q, r, n, R, a, o, v, y, t)
  BY <1>4, <1>5, OwesGrows
<1> QED
  BY <1>4, <1>6 DEF Direct, q, r, R, m, a, o, v, t

LEMMA GrowsNot ==
  ASSUME NEW l \in Seq(Intents), NEW w, NEW u
  PROVE  Grows(l, w, u, l, w, u)
<1>1. Len(l) \in Nat
  OBVIOUS
<1> QED
  BY <1>1 DEF Grows, LongerLog

\* n has read its first message, and the queue of its peer is now r.
Turned(c, d, n, R, r) ==
  /\ Connection(d) /\ d.live /\ Ends(d) = Ends(c) /\ d.ready = R
  /\ d.from = c.from /\ d.to = c.to /\ d.held = c.held
  /\ d.in[n] = Tail(c.in[n]) /\ d.in[Peer(c, n)] = r

\* Reads(c, n): c is live and has a message for n.
Reads(c, n) == c.live /\ n \in Ends(c) /\ c.in[n] # <<>>

LEMMA ReadsIs ==
  ASSUME NEW c, Connection(c), NEW n, n \in c.held, c.in[n] # <<>>
  PROVE  /\ Reads(c, n) /\ c.in[n] \in Seq(Messages) /\ Head(c.in[n]) \in Messages
         /\ c.held = Ends(c) /\ c.in[Peer(c, n)] \in Seq(Messages)
<1>1. n \in Ends(c) /\ c.live
  BY DEF Connection
<1>2. Peer(c, n) \in Ends(c)
  BY <1>1, PeerIs
<1>3. c.in[n] \in Seq(Messages) /\ c.in[Peer(c, n)] \in Seq(Messages)
  BY <1>1, <1>2 DEF Connection
<1>4. Head(c.in[n]) \in Messages
  BY <1>3, TailIs
<1> QED
  BY <1>1, <1>3, <1>4 DEF Reads, Connection

\* The three ways in which a handler leaves a connection.
LEMMA TurnTaking ==
  ASSUME NEW c, Connection(c), NEW n, Reads(c, n)
  PROVE  Turned(c, Taking(n, c), n, c.ready, c.in[Peer(c, n)])
<1> DEFINE m == Peer(c, n)
           j == [c.in EXCEPT ![n] = Tail(c.in[n])]
           e == Taking(n, c)
<1>1. n \in Ends(c) /\ c.live /\ c.in[n] # <<>> /\ m \in Ends(c) /\ m # n
  BY PeerIs DEF Reads
<1>2. Rewired(c, e, c.ready, j)
  BY <1>1, TakingIs
<1>3. c.in \in [Ends(c) -> Seq(Messages)]
  BY DEF Connection
<1>4. j[n] = Tail(c.in[n]) /\ j[m] = c.in[m]
  BY <1>1, <1>3
<1> HIDE DEF j, e, m
<1>5. /\ Connection(e) /\ e.live /\ Ends(e) = Ends(c) /\ e.ready = c.ready /\ e.in = j
      /\ e.from = c.from /\ e.to = c.to /\ e.held = c.held
  BY <1>1, <1>2, RewiredIs
<1> QED
  BY <1>4, <1>5 DEF Turned, e, m

LEMMA TurnSent ==
  ASSUME NEW c, Connection(c), NEW n, Reads(c, n), NEW s \in Seq(Messages),
         NEW e, NEW R, Turned(c, e, n, R, c.in[Peer(c, n)])
  PROVE  Turned(c, Sent(e, Peer(c, n), s), n, R, c.in[Peer(c, n)] \o s)
<1> DEFINE m == Peer(c, n)
           j == [e.in EXCEPT ![m] = e.in[m] \o s]
           d == Sent(e, m, s)
<1>1. /\ n \in Ends(c) /\ m \in Ends(c) /\ m # n
      /\ Connection(e) /\ e.live /\ Ends(e) = Ends(c) /\ e.ready = R
      /\ e.from = c.from /\ e.to = c.to /\ e.held = c.held
      /\ e.in[n] = Tail(c.in[n]) /\ e.in[m] = c.in[m]
  BY PeerIs DEF Reads, Turned
<1>2. m \in Ends(e)
  BY <1>1
<1> HIDE DEF m
<1>3. Rewired(e, d, e.ready, j)
  BY <1>1, <1>2, SentIs
<1>4. e.in \in [Ends(e) -> Seq(Messages)]
  BY <1>1 DEF Connection
<1>5. j[n] = e.in[n] /\ j[m] = c.in[m] \o s
  BY <1>1, <1>4
<1> HIDE DEF j, d
<1>6. /\ Connection(d) /\ d.live /\ Ends(d) = Ends(e) /\ d.ready = e.ready /\ d.in = j
      /\ d.from = e.from /\ d.to = e.to /\ d.held = e.held
  BY <1>1, <1>3, RewiredIs
<1>7. /\ Ends(d) = Ends(c) /\ d.ready = R /\ d.from = c.from /\ d.to = c.to /\ d.held = c.held
      /\ d.in[n] = Tail(c.in[n]) /\ d.in[m] = c.in[m] \o s
  BY <1>1, <1>5, <1>6
<1> QED
  BY <1>6, <1>7 DEF Turned, d, m

LEMMA TurnReady ==
  ASSUME NEW c, Connection(c), NEW n, NEW e, NEW R, NEW r, Turned(c, e, n, R, r),
         NEW S \in SUBSET c.held
  PROVE  Turned(c, [e EXCEPT !.ready = S], n, S, r)
<1> DEFINE d == [e EXCEPT !.ready = S]
<1>1. /\ Connection(e) /\ e.live /\ Ends(e) = Ends(c) /\ e.ready = R
      /\ e.from = c.from /\ e.to = c.to /\ e.held = c.held
      /\ e.in[n] = Tail(c.in[n]) /\ e.in[Peer(c, n)] = r
  BY DEF Turned
<1>2. Rewired(e, d, S, e.in)
  BY <1>1, ReadyIs
<1> HIDE DEF d
<1>3. /\ Connection(d) /\ d.live /\ Ends(d) = Ends(e) /\ d.ready = S /\ d.in = e.in
      /\ d.from = e.from /\ d.to = e.to /\ d.held = e.held
  BY <1>1, <1>2, RewiredIs
<1>4. /\ Ends(d) = Ends(c) /\ d.from = c.from /\ d.to = c.to /\ d.held = c.held
      /\ d.in[n] = Tail(c.in[n]) /\ d.in[Peer(c, n)] = r
  BY <1>1, <1>3
<1> QED
  BY <1>3, <1>4 DEF Turned, d

\* To show Kept of what a handler leaves: both directions.
Both(q, r, n, m, R, L, W, x, U) ==
  /\ Half(q, r, n, R) /\ Owes(q, r, n, R, L[n], L[m], W[n], x, U[n])
  /\ Half(r, q, m, R) /\ Owes(r, q, m, R, L[m], L[n], W[m], x, U[m])

LEMMA KeptBoth ==
  ASSUME NEW c, NEW L, NEW W, NEW x, NEW U, Kept(c, L, W, x, U), c.live, NEW n \in Ends(c)
  PROVE  Both(c.in[n], c.in[Peer(c, n)], n, Peer(c, n), c.ready, L, W, x, U)
<1>1. Connection(c) /\ Linked(c, L, W, x, U)
  BY DEF Kept
<1>2. /\ Direct(c.in, n, Peer(c, n), c.ready, L, W, x, U)
      /\ Direct(c.in, Peer(c, n), n, c.ready, L, W, x, U)
  BY <1>1, LinkedBoth
<1> QED
  BY <1>2 DEF Both, Direct

LEMMA TurnedKept ==
  ASSUME NEW c, Connection(c), NEW n \in Ends(c), NEW d, NEW R, NEW r, Turned(c, d, n, R, r),
         NEW L, NEW W, NEW x, NEW U, Both(Tail(c.in[n]), r, n, Peer(c, n), R, L, W, x, U)
  PROVE  Kept(d, L, W, x, U)
<1> DEFINE m == Peer(c, n)
<1>1. /\ Connection(d) /\ Ends(d) = Ends(c) /\ d.ready = R /\ d.in[n] = Tail(c.in[n]) /\ d.in[m] = r
  BY DEF Turned
<1>2. n \in Ends(d) /\ Peer(d, n) = m
  BY <1>1, PeerSame
<1> HIDE DEF m
<1>3. Both(d.in[n], d.in[m], n, m, d.ready, L, W, x, U)
  BY <1>1 DEF m
<1>4. Direct(d.in, n, m, d.ready, L, W, x, U) /\ Direct(d.in, m, n, d.ready, L, W, x, U)
  BY <1>3 DEF Both, Direct
<1>5. Linked(d, L, W, x, U)
  BY <1>1, <1>2, <1>4, LinkedBoth
<1> QED
  BY <1>1, <1>5 DEF Kept

-----------------------------------------------------------------------------
(* The handlers, one after the other, about the two queues alone.           *)

LEMMA VersionBoth ==
  ASSUME NEW q \in Seq(Messages), NEW r \in Seq(Messages), NEW n, NEW m, n # m, NEW R,
         NEW L, NEW W, NEW x, NEW U, Both(q, r, n, m, R, L, W, x, U),
         q # <<>>, Head(q).type = "VERSION",
         NEW s \in Seq(Messages), Welcomes(s), Holds(s, "SYNC_REQUEST"), ~Holds(s, "VERSION")
  PROVE  Both(Tail(q), r \o s, n, m, R \ {n}, L, W, x, U)
<1> DEFINE t == Tail(q)
           o == r \o s
           S == R \ {n}
<1>1. Half(q, r, n, R) /\ Half(r, q, m, R) /\ Owes(q, r, n, R, L[n], L[m], W[n], x, U[n])
  BY DEF Both
<1>2. Half(t, o, n, S) /\ Half(o, t, m, S)
  BY <1>1, HalfVersion
<1>3. n \notin R
  <2>1. Len(q) \in Nat \ {0} /\ Head(q) = q[1]
    BY TailIs
  <2>2. Holds(q, "VERSION")
    BY <2>1 DEF Holds
  <2> QED
    BY <1>1, <2>2 DEF Half
<1>4. Owes(t, o, n, S, L[n], L[m], W[n], x, U[n])
  <2> DEFINE l == L[n]
             p == L[m]
             w == W[n]
             u == U[n]
  <2>1. Owes(q, r, n, R, l, p, w, x, u)
    BY <1>1
  <2> HIDE DEF l, p, w, u
  <2>2. Owes(t, r, n, R, l, p, w, x, u)
    BY <2>1, OwesNext
  <2>3. Owes(t, o, n, R, l, p, w, x, u)
    BY <2>2, OwesHears
  <2> HIDE DEF t, o, S
  <2>4. Owes(t, o, n, S, l, p, w, x, u)
    BY <1>3, <2>3, OwesReady
  <2> QED
    BY <2>4 DEF l, p, w, u
<1>5. Holds(o, "SYNC_REQUEST")
  BY JoinKeeps
<1>6. Owes(o, t, m, S, L[m], L[n], W[m], x, U[m])
  <2> HIDE DEF t, o, S
  <2> DEFINE l == L[m]
             p == L[n]
             w == W[m]
             u == U[m]
  <2> HIDE DEF l, p, w, u
  <2>1. Owes(o, t, m, S, l, p, w, x, u)
    BY <1>5, OwesAsks
  <2> QED
    BY <2>1 DEF l, p, w, u
<1> QED
  BY <1>2, <1>4, <1>6 DEF Both

LEMMA VerackBoth ==
  ASSUME NEW q \in Seq(Messages), NEW r \in Seq(Messages), NEW n, NEW m, n # m, NEW R,
         NEW L, NEW W, NEW x, NEW U, Both(q, r, n, m, R, L, W, x, U),
         q # <<>>, Head(q).type = "VERACK"
  PROVE  Both(Tail(q), r, n, m, R \cup {n}, L, W, x, U)
<1> DEFINE t == Tail(q)
           S == R \cup {n}
<1>1. /\ Half(q, r, n, R) /\ Owes(q, r, n, R, L[n], L[m], W[n], x, U[n])
      /\ Half(r, q, m, R) /\ Owes(r, q, m, R, L[m], L[n], W[m], x, U[m])
  BY DEF Both
<1>2. Half(t, r, n, S) /\ Half(r, t, m, S)
  BY <1>1, HalfVerack
<1>3. Owes(t, r, n, S, L[n], L[m], W[n], x, U[n])
  <2> DEFINE l == L[n]
             p == L[m]
             w == W[n]
             u == U[n]
  <2>1. Owes(q, r, n, R, l, p, w, x, u)
    BY <1>1
  <2> HIDE DEF l, p, w, u
  <2>2. Owes(t, r, n, R, l, p, w, x, u)
    BY <2>1, OwesNext
  <2> HIDE DEF t, S
  <2>3. n \in R => n \in S
    BY DEF S
  <2>4. Owes(t, r, n, S, l, p, w, x, u)
    BY <2>2, <2>3, OwesReady
  <2> QED
    BY <2>4 DEF l, p, w, u
<1>4. Owes(r, t, m, S, L[m], L[n], W[m], x, U[m])
  <2> DEFINE l == L[m]
             p == L[n]
             w == W[m]
             u == U[m]
  <2>1. Owes(r, q, m, R, l, p, w, x, u)
    BY <1>1
  <2> HIDE DEF l, p, w, u
  <2>2. \A k : ~Says(Head(q), l, k)
    BY DEF Says
  <2>3. Owes(r, t, m, R, l, p, w, x, u)
    BY <2>1, <2>2, OwesRead
  <2> HIDE DEF t, S
  <2>4. m \in R => m \in S
    BY DEF S
  <2>5. Owes(r, t, m, S, l, p, w, x, u)
    BY <2>3, <2>4, OwesReady
  <2> QED
    BY <2>5 DEF l, p, w, u
<1> QED
  BY <1>2, <1>3, <1>4 DEF Both

LEMMA RequestBoth ==
  ASSUME NEW q \in Seq(Messages), NEW r \in Seq(Messages), NEW n, NEW m, n # m, NEW R,
         NEW L, NEW W, NEW x, NEW U, Both(q, r, n, m, R, L, W, x, U),
         q # <<>>, Head(q).type = "SYNC_REQUEST", L[n] \in Seq(Intents),
         NEW msg \in Messages, Answer(L[n], msg)
  PROVE  Both(Tail(q), r \o <<msg>>, n, m, R, L, W, x, U)
<1> DEFINE t == Tail(q)
           s == <<msg>>
           o == r \o s
<1>1. /\ Half(q, r, n, R) /\ Owes(q, r, n, R, L[n], L[m], W[n], x, U[n])
      /\ Half(r, q, m, R) /\ Owes(r, q, m, R, L[m], L[n], W[m], x, U[m])
  BY DEF Both
<1>2. Half(t, r, n, R) /\ Half(r, t, m, R)
  BY <1>1, HalfRead
<1>3. s \in Seq(Messages) /\ ~Holds(s, "VERSION") /\ t \in Seq(Messages)
  <2>1. Len(s) = 1 /\ s[1] = msg /\ msg.type # "VERSION" /\ s \in Seq(Messages)
    BY DEF Answer
  <2>2. \A i \in 1..Len(s) : i = 1
    BY <2>1
  <2> QED
    BY <2>1, <2>2, TailIs DEF Holds
<1>4. Half(t, o, n, R) /\ Half(o, t, m, R)
  <2> HIDE DEF t, s
  <2> QED
    BY <1>2, <1>3, HalfJoin
<1>5. Owes(t, o, n, R, L[n], L[m], W[n], x, U[n])
  <2> DEFINE l == L[n]
             p == L[m]
             w == W[n]
             u == U[n]
  <2>1. l \in Seq(Intents) /\ Answer(l, msg)
    OBVIOUS
  <2> HIDE DEF l, p, w, u, t
  <2>2. Owes(t, o, n, R, l, p, w, x, u)
    BY <2>1, OwesAnswers
  <2> QED
    BY <2>2 DEF l, p, w, u
<1>6. Owes(o, t, m, R, L[m], L[n], W[m], x, U[m])
  <2> DEFINE l == L[m]
             p == L[n]
             w == W[m]
             u == U[m]
  <2>1. Owes(r, q, m, R, l, p, w, x, u)
    BY <1>1
  <2> HIDE DEF l, p, w, u
  <2>2. \A k : ~Says(Head(q), l, k)
    BY DEF Says
  <2>3. Owes(r, t, m, R, l, p, w, x, u)
    BY <2>1, <2>2, OwesRead
  <2> HIDE DEF t, s
  <2>4. Owes(o, t, m, R, l, p, w, x, u)
    BY <1>3, <2>3, OwesIsTold
  <2> QED
    BY <2>4 DEF l, p, w, u
<1> QED
  BY <1>4, <1>5, <1>6 DEF Both

\* A batch or an intent is read, and what it says has been taken.
LEMMA ItemsBoth ==
  ASSUME NEW q \in Seq(Messages), NEW r \in Seq(Messages), NEW n, NEW m, n # m, NEW R,
         NEW L, NEW W, NEW x, NEW U, Both(q, r, n, m, R, L, W, x, U),
         q # <<>>, Head(q).type \in {"SYNC_RESPONSE", "INTENT"},
         \A k \in 1..Len(L[m]) : Due(L[m], k, x, U[m]) /\ Says(Head(q), L[m], k) => Taken(L[n], L[m][k])
  PROVE  Both(Tail(q), r, n, m, R, L, W, x, U)
<1> DEFINE t == Tail(q)
<1>1. /\ Half(q, r, n, R) /\ Owes(q, r, n, R, L[n], L[m], W[n], x, U[n])
      /\ Half(r, q, m, R) /\ Owes(r, q, m, R, L[m], L[n], W[m], x, U[m])
  BY DEF Both
<1>2. Half(t, r, n, R) /\ Half(r, t, m, R)
  BY <1>1, HalfRead
<1>3. Owes(t, r, n, R, L[n], L[m], W[n], x, U[n])
  <2> DEFINE l == L[n]
             p == L[m]
             w == W[n]
             u == U[n]
  <2>1. Owes(q, r, n, R, l, p, w, x, u)
    BY <1>1
  <2> HIDE DEF l, p, w, u
  <2>2. Owes(t, r, n, R, l, p, w, x, u)
    BY <2>1, OwesNext
  <2> QED
    BY <2>2 DEF l, p, w, u
<1>4. Owes(r, t, m, R, L[m], L[n], W[m], x, U[m])
  <2> DEFINE l == L[m]
             p == L[n]
             w == W[m]
             u == U[m]
  <2>1. /\ Owes(r, q, m, R, l, p, w, x, u)
        /\ \A k \in 1..Len(l) : Due(l, k, x, u) /\ Says(Head(q), l, k) => Taken(p, l[k])
    BY <1>1
  <2> HIDE DEF l, p, w, u
  <2>2. Owes(r, t, m, R, l, p, w, x, u)
    BY <2>1, OwesRead
  <2> QED
    BY <2>2 DEF l, p, w, u
<1> QED
  BY <1>2, <1>3, <1>4 DEF Both
-----------------------------------------------------------------------------
(* The inductive invariant.                                                 *)

\* A node has at most one connection of its own to another one.
Single(C) ==
  \A c, d \in C : c.from = d.from /\ c.to = d.to /\ c.from \in c.held /\ d.from \in d.held => c = d

\* The stores: of each node its log L and the broadcasts W it has yet to run, x
\* what has expired, U what each node took from batches it refused.
Stores(L, W, x, U) ==
  /\ L \in [Nodes -> Seq(Intents)] /\ W \in [Nodes -> Seq(Intents)] /\ U \in [Nodes -> SUBSET Intents]
  /\ x \subseteq MayExpire
  /\ \A n \in Nodes : Distinct(L[n])

GossipInv ==
  /\ Stores(log, casts, expired, untold) /\ faults \in 0..MaxFaults
  /\ \A c \in conns : Kept(c, log, casts, expired, untold)
  /\ Single(conns)

LEMMA SingleOne ==
  ASSUME NEW C, Single(C), NEW c \in C, NEW d, d.from = c.from, d.to = c.to, d.held \subseteq c.held
  PROVE  Single((C \ {c}) \cup {d})
<1> SUFFICES ASSUME NEW e \in (C \ {c}) \cup {d}, NEW f \in (C \ {c}) \cup {d},
                    e.from = f.from, e.to = f.to, e.from \in e.held, f.from \in f.held
             PROVE  e = f
  BY DEF Single
<1>1. CASE e = d
  <2>1. f # d => c = f
    BY <1>1 DEF Single
  <2> QED
    BY <1>1, <2>1
<1>2. CASE e # d
  <2>1. f = d => c = e
    BY <1>2 DEF Single
  <2> QED
    BY <1>2, <2>1 DEF Single
<1> QED
  BY <1>1, <1>2

LEMMA SingleLess ==
  ASSUME NEW C, Single(C), NEW D, D \subseteq C
  PROVE  Single(D)
  BY DEF Single

\* The connections change, none of its ends and none is held by more.
LEMMA SingleImage ==
  ASSUME NEW C, Single(C), NEW f,
         \A c \in C : f[c].from = c.from /\ f[c].to = c.to /\ f[c].held \subseteq c.held,
         NEW D, \A d \in D : \E c \in C : d = f[c]
  PROVE  Single(D)
<1> SUFFICES ASSUME NEW d \in D, NEW e \in D,
                    d.from = e.from, d.to = e.to, d.from \in d.held, e.from \in e.held
             PROVE  d = e
  BY DEF Single
<1>1. PICK a \in C : d = f[a]
  OBVIOUS
<1>2. PICK b \in C : e = f[b]
  OBVIOUS
<1>3. /\ a.from = b.from /\ a.to = b.to
      /\ a.from \in a.held /\ b.from \in b.held
  <2>1. d.from = a.from /\ d.to = a.to /\ d.held \subseteq a.held
    BY <1>1
  <2>2. e.from = b.from /\ e.to = b.to /\ e.held \subseteq b.held
    BY <1>2
  <2> QED
    BY <2>1, <2>2
<1>4. a = b
  BY <1>3 DEF Single
<1> QED
  BY <1>1, <1>2, <1>4

\* Nothing is logged, queued or expired.
StoresSame == log' = log /\ casts' = casts /\ expired' = expired /\ untold' = untold
\* The invariant of the connections of now, with the stores of the next state.
StillKept ==
  /\ Stores(log', casts', expired', untold') /\ faults' \in 0..MaxFaults
  /\ \A c \in conns : Kept(c, log', casts', expired', untold')

LEMMA StoresSameKeep ==
  ASSUME GossipInv, StoresSame, faults' \in 0..MaxFaults
  PROVE  StillKept
<1>1. log' = log /\ casts' = casts /\ expired' = expired /\ untold' = untold
  BY DEF StoresSame
<1>2. Stores(log', casts', expired', untold')
  BY <1>1 DEF GossipInv
<1>3. \A c \in conns : Kept(c, log', casts', expired', untold')
  BY <1>1 DEF GossipInv
<1> QED
  BY <1>2, <1>3 DEF StillKept

\* One connection changes.
LEMMA BecomesInv ==
  ASSUME GossipInv, StillKept, NEW c \in conns, NEW d, Becomes(c, d),
         d.from = c.from, d.to = c.to, d.held \subseteq c.held,
         Kept(d, log', casts', expired', untold')
  PROVE  GossipInv'
<1>1. conns' = (conns \ {c}) \cup {d}
  BY DEF Becomes
<1>2. \A e \in conns' : Kept(e, log', casts', expired', untold')
  BY <1>1 DEF StillKept
<1>3. Single(conns')
  <2>1. Single(conns)
    BY DEF GossipInv
  <2>2. Single((conns \ {c}) \cup {d})
    BY <2>1, SingleOne
  <2> QED
    BY <1>1, <2>2
<1> QED
  BY <1>2, <1>3 DEF GossipInv, StillKept

\* A handler: what node n leaves of connection c.
LEMMA TurnedInv ==
  ASSUME GossipInv, StillKept, NEW c \in conns, NEW n, Reads(c, n), NEW d, NEW R, NEW r,
         Turned(c, d, n, R, r), Becomes(c, d),
         Both(Tail(c.in[n]), r, n, Peer(c, n), R, log', casts', expired', untold')
  PROVE  GossipInv'
<1>1. Connection(c) /\ n \in Ends(c)
  BY DEF GossipInv, Kept, Reads
<1>2. Kept(d, log', casts', expired', untold')
  BY <1>1, TurnedKept
<1>3. d.from = c.from /\ d.to = c.to /\ d.held = c.held
  BY DEF Turned
<1> QED
  BY <1>2, <1>3, BecomesInv

LEMMA ReceivesIs ==
  ASSUME GossipInv, StillKept, NEW c \in conns, NEW n, NEW type, Receives(n, c, type)
  PROVE  /\ Connection(c) /\ Reads(c, n) /\ n \in Ends(c) /\ Peer(c, n) \in Ends(c) /\ n # Peer(c, n)
         /\ n \in Nodes /\ Peer(c, n) \in Nodes
         /\ c.in[n] \in Seq(Messages) /\ c.in[n] # <<>> /\ Head(c.in[n]).type = type
         /\ Head(c.in[n]) \in Messages /\ c.in[Peer(c, n)] \in Seq(Messages)
         /\ c.held = Ends(c) /\ c.ready \subseteq c.held
         /\ Both(c.in[n], c.in[Peer(c, n)], n, Peer(c, n), c.ready, log', casts', expired', untold')
<1>1. Connection(c) /\ Kept(c, log', casts', expired', untold')
  BY DEF StillKept, Kept
<1>2. n \in c.held /\ c.in[n] # <<>> /\ Head(c.in[n]).type = type
  BY DEF Receives
<1>3. /\ Reads(c, n) /\ c.in[n] \in Seq(Messages) /\ Head(c.in[n]) \in Messages
      /\ c.held = Ends(c) /\ c.in[Peer(c, n)] \in Seq(Messages)
  BY <1>1, <1>2, ReadsIs
<1>4. c.live /\ n \in Ends(c)
  BY <1>3 DEF Reads
<1>5. /\ Peer(c, n) \in Ends(c) /\ n # Peer(c, n) /\ Ends(c) \subseteq Nodes
  BY <1>1, <1>4, PeerIs
<1>6. c.ready \subseteq c.held
  BY <1>1 DEF Connection
<1> DEFINE L == log'
           W == casts'
           x == expired'
           U == untold'
<1>7. Kept(c, L, W, x, U)
  BY <1>1
<1> HIDE DEF L, W, x, U
<1>8. Both(c.in[n], c.in[Peer(c, n)], n, Peer(c, n), c.ready, L, W, x, U)
  BY <1>4, <1>7, KeptBoth
<1> QED
  BY <1>1, <1>2, <1>3, <1>4, <1>5, <1>6, <1>8 DEF L, W, x, U

LEMMA VersionInv ==
  ASSUME GossipInv, NEW n, NEW c \in conns, HandleVersion(n, c)
  PROVE  GossipInv'
<1> DEFINE m == Peer(c, n)
           q == c.in[n]
           r == c.in[m]
           R == c.ready
           S == R \ {n}
           a == Message("VERACK")
           b == Message("SYNC_REQUEST")
           s == <<a, b>>
           e == Taking(n, c)
           f == [e EXCEPT !.ready = S]
           d == Sent(f, m, s)
<1>1. StillKept
  BY StoresSameKeep DEF HandleVersion, StoresSame, GossipInv
<1>2. /\ Connection(c) /\ Reads(c, n) /\ n # m /\ q \in Seq(Messages) /\ q # <<>>
      /\ Head(q).type = "VERSION" /\ r \in Seq(Messages) /\ R \subseteq c.held
      /\ Both(q, r, n, m, R, log', casts', expired', untold')
  BY <1>1, ReceivesIs DEF HandleVersion
<1>3. Turned(c, e, n, R, r)
  BY <1>2, TurnTaking
<1>4. e.ready = R
  BY <1>3 DEF Turned
<1>5. Becomes(c, d)
  BY <1>4 DEF HandleVersion
<1>6. s \in Seq(Messages) /\ Welcomes(s) /\ Holds(s, "SYNC_REQUEST") /\ ~Holds(s, "VERSION")
  <2>1. a.type = "VERACK" /\ b.type = "SYNC_REQUEST"
    BY DEF Message
  <2>2. a \in Messages /\ b \in Messages
    BY DEF Message, Messages
  <2> HIDE DEF a, b
  <2>3. s \in Seq(Messages) /\ Len(s) = 2 /\ s[1] = a /\ s[2] = b
    BY <2>2
  <2> HIDE DEF s
  <2>4. 1 \in 1..Len(s) /\ 2 \in 1..Len(s) /\ \A i \in 1..Len(s) : i = 1 \/ i = 2
    BY <2>3
  <2>5. ~Holds(s, "VERSION")
    BY <2>1, <2>3, <2>4 DEF Holds
  <2>6. Holds(s, "SYNC_REQUEST")
    BY <2>1, <2>3, <2>4 DEF Holds
  <2>7. Welcomes(s)
    BY <2>1, <2>3, <2>4 DEF Welcomes
  <2> QED
    BY <2>3, <2>5, <2>6, <2>7
<1>7. S \in SUBSET c.held
  BY <1>2
<1> HIDE DEF s, S, e
<1>8. Turned(c, f, n, S, r)
  BY <1>2, <1>3, <1>7, TurnReady
<1> HIDE DEF f
<1>9. Turned(c, d, n, S, r \o s)
  BY <1>2, <1>6, <1>8, TurnSent
<1> HIDE DEF d, m, q, r, R
<1>10. Both(Tail(q), r \o s, n, m, S, log', casts', expired', untold')
  <2> DEFINE L == log'
             W == casts'
             x == expired'
             U == untold'
  <2>1. Both(q, r, n, m, R, L, W, x, U)
    BY <1>2
  <2> HIDE DEF L, W, x, U
  <2>2. Both(Tail(q), r \o s, n, m, R \ {n}, L, W, x, U)
    BY <1>2, <1>6, <2>1, VersionBoth
  <2> QED
    BY <2>2 DEF L, W, x, U, S
<1> DEFINE o == r \o s
<1>11. Turned(c, d, n, S, o) /\ Both(Tail(c.in[n]), o, n, Peer(c, n), S, log', casts', expired', untold')
  BY <1>9, <1>10 DEF m, q
<1> HIDE DEF o
<1> QED
  BY <1>1, <1>2, <1>5, <1>11, TurnedInv

LEMMA VerackInv ==
  ASSUME GossipInv, NEW n, NEW c \in conns, HandleVerack(n, c)
  PROVE  GossipInv'
<1> DEFINE m == Peer(c, n)
           q == c.in[n]
           r == c.in[m]
           R == c.ready
           S == R \cup {n}
           e == Taking(n, c)
           d == [e EXCEPT !.ready = S]
<1>1. StillKept
  BY StoresSameKeep DEF HandleVerack, StoresSame, GossipInv
<1>2. /\ Connection(c) /\ Reads(c, n) /\ n \in Ends(c) /\ n # m /\ q \in Seq(Messages) /\ q # <<>>
      /\ Head(q).type = "VERACK" /\ r \in Seq(Messages) /\ R \subseteq c.held /\ c.held = Ends(c)
      /\ Both(q, r, n, m, R, log', casts', expired', untold')
  BY <1>1, ReceivesIs DEF HandleVerack
<1>3. Turned(c, e, n, R, r)
  BY <1>2, TurnTaking
<1>4. e.ready = R
  BY <1>3 DEF Turned
<1>5. Becomes(c, d)
  BY <1>4 DEF HandleVerack
<1>6. S \in SUBSET c.held
  BY <1>2
<1> HIDE DEF S, e
<1>7. Turned(c, d, n, S, r)
  BY <1>2, <1>3, <1>6, TurnReady
<1> HIDE DEF d, m, q, r, R
<1>8. Both(Tail(q), r, n, m, S, log', casts', expired', untold')
  <2> DEFINE L == log'
             W == casts'
             x == expired'
             U == untold'
  <2>1. Both(q, r, n, m, R, L, W, x, U)
    BY <1>2
  <2> HIDE DEF L, W, x, U
  <2>2. Both(Tail(q), r, n, m, R \cup {n}, L, W, x, U)
    BY <1>2, <2>1, VerackBoth
  <2> QED
    BY <2>2 DEF L, W, x, U, S
<1>9. Both(Tail(c.in[n]), r, n, Peer(c, n), S, log', casts', expired', untold')
  BY <1>8 DEF m, q
<1> QED
  BY <1>1, <1>2, <1>5, <1>7, <1>9, TurnedInv

LEMMA RequestInv ==
  ASSUME GossipInv, NEW n, NEW c \in conns, HandleSyncRequest(n, c)
  PROVE  GossipInv'
<1> DEFINE m == Peer(c, n)
           q == c.in[n]
           r == c.in[m]
           R == c.ready
           msg == [type |-> "SYNC_RESPONSE", items |-> Deltas(n)]
           s == <<msg>>
           e == Taking(n, c)
           d == Sent(e, m, s)
<1>1. StillKept
  BY StoresSameKeep DEF HandleSyncRequest, StoresSame, GossipInv
<1>2. /\ Connection(c) /\ Reads(c, n) /\ n \in Nodes /\ n # m /\ q \in Seq(Messages) /\ q # <<>>
      /\ Head(q).type = "SYNC_REQUEST" /\ r \in Seq(Messages)
      /\ Both(q, r, n, m, R, log', casts', expired', untold')
  BY <1>1, ReceivesIs DEF HandleSyncRequest
<1>3. Turned(c, e, n, R, r)
  BY <1>2, TurnTaking
<1>4. Becomes(c, d)
  BY DEF HandleSyncRequest
<1>5. log[n] \in Seq(Intents) /\ log' = log
  BY <1>2 DEF GossipInv, Stores, HandleSyncRequest
<1>6. Deltas(n) \in Seq(Intents)
  <2> DEFINE N == IF Len(log[n]) < Batch THEN Len(log[n]) ELSE Batch
  <2>1. N \in 0..Len(log[n])
    BY <1>5, GossipAssumption
  <2> HIDE DEF N
  <2>2. SubSeq(log[n], 1, N) \in Seq(Intents)
    BY <1>5, <2>1, SubSeqIs
  <2> QED
    BY <2>2 DEF Deltas, N
<1>7. msg \in Messages /\ Answer(log'[n], msg)
  BY <1>5, <1>6 DEF Messages, Answer, Deltas
<1> HIDE DEF msg
<1>8. s \in Seq(Messages)
  BY <1>7
<1> HIDE DEF s, e
<1>9. Turned(c, d, n, R, r \o s)
  BY <1>2, <1>3, <1>8, TurnSent
<1> HIDE DEF d, m, q, r, R
<1>10. Both(Tail(q), r \o s, n, m, R, log', casts', expired', untold')
  <2> DEFINE L == log'
             W == casts'
             x == expired'
             U == untold'
  <2>1. Both(q, r, n, m, R, L, W, x, U) /\ L[n] \in Seq(Intents) /\ Answer(L[n], msg)
    BY <1>2, <1>5, <1>7
  <2> HIDE DEF L, W, x, U
  <2>2. Both(Tail(q), r \o <<msg>>, n, m, R, L, W, x, U)
    BY <1>2, <1>7, <2>1, RequestBoth
  <2> QED
    BY <2>2 DEF L, W, x, U, s
<1> DEFINE o == r \o s
<1>11. Turned(c, d, n, R, o) /\ Both(Tail(c.in[n]), o, n, Peer(c, n), R, log', casts', expired', untold')
  BY <1>9, <1>10 DEF m, q
<1> HIDE DEF o
<1> QED
  BY <1>1, <1>2, <1>4, <1>11, TurnedInv

-----------------------------------------------------------------------------
(* The handlers that take intents.                                          *)

LEMMA WithinJoin ==
  ASSUME NEW w \in Seq(Intents), NEW s \in Seq(Intents), NEW i
  PROVE  /\ Within(i, w) => Within(i, w \o s)
         /\ Within(i, s) => Within(i, w \o s)
<1>1. /\ w \o s \in Seq(Intents) /\ Len(w) \in Nat /\ Len(s) \in Nat /\ Len(w \o s) = Len(w) + Len(s)
      /\ \A j \in 1..Len(w) : (w \o s)[j] = w[j]
      /\ \A j \in 1..Len(s) : (w \o s)[Len(w) + j] = s[j]
  BY JoinIs
<1> DEFINE o == w \o s
<1> HIDE DEF o
<1>2. ASSUME Within(i, w) PROVE Within(i, o)
  <2>1. PICK j \in 1..Len(w) : w[j] = i
    BY <1>2 DEF Within
  <2>2. j \in 1..Len(o) /\ o[j] = i
    BY <1>1, <2>1 DEF o
  <2> QED
    BY <2>2 DEF Within
<1>3. ASSUME Within(i, s) PROVE Within(i, o)
  <2>1. PICK j \in 1..Len(s) : s[j] = i
    BY <1>3 DEF Within
  <2>2. Len(w) + j \in 1..Len(o) /\ o[Len(w) + j] = i
    BY <1>1, <2>1 DEF o
  <2> QED
    BY <2>2 DEF Within
<1> QED
  BY <1>2, <1>3 DEF o

LEMMA GrowsKeep ==
  ASSUME GossipInv, Stores(log', casts', expired', untold'), faults' \in 0..MaxFaults,
         AllGrow(Nodes, log, casts, expired, untold, log', casts', expired', untold')
  PROVE  StillKept
<1> SUFFICES ASSUME NEW c \in conns
             PROVE  Kept(c, log', casts', expired', untold')
  BY DEF StillKept
<1>1. Kept(c, log, casts, expired, untold) /\ Connection(c)
  BY DEF GossipInv, Kept
<1>2. Ends(c) \subseteq Nodes
  BY <1>1, PeerIs DEF Ends
<1> DEFINE L == log'
           W == casts'
           x == expired'
           U == untold'
<1>3. AllGrow(Ends(c), log, casts, expired, untold, L, W, x, U)
  BY <1>2 DEF AllGrow
<1> HIDE DEF L, W, x, U
<1>4. Kept(c, L, W, x, U)
  BY <1>1, <1>3, KeptGrows
<1> QED
  BY <1>4 DEF L, W, x, U

\* The log of one node grows by what it then has to broadcast, or has taken from
\* a batch that it refused.
Grown(n, a) ==
  /\ log' = [log EXCEPT ![n] = a]
  /\ LongerLog(log[n], a) /\ Distinct(a)
  /\ casts' \in [Nodes -> Seq(Intents)] /\ untold' \in [Nodes -> SUBSET Intents]
  /\ \A m \in Nodes \ {n} : casts'[m] = casts[m] /\ untold'[m] = untold[m]
  /\ \A i : Within(i, casts[n]) => Within(i, casts'[n])
  /\ untold[n] \subseteq untold'[n]
  /\ \A k \in (Len(log[n]) + 1)..Len(a) : Within(a[k], casts'[n]) \/ a[k] \in untold'[n]

LEMMA GrownKeep ==
  ASSUME GossipInv, NEW n \in Nodes, NEW a, Grown(n, a), expired' = expired, faults' = faults
  PROVE  StillKept
<1>1. /\ log \in [Nodes -> Seq(Intents)] /\ casts \in [Nodes -> Seq(Intents)]
      /\ untold \in [Nodes -> SUBSET Intents]
      /\ expired \subseteq MayExpire /\ faults \in 0..MaxFaults /\ \A m \in Nodes : Distinct(log[m])
  BY DEF GossipInv, Stores
<1>2. /\ log' = [log EXCEPT ![n] = a]
      /\ a \in Seq(Intents) /\ Distinct(a)
  BY DEF Grown, LongerLog
<1>3. /\ log' \in [Nodes -> Seq(Intents)] /\ log'[n] = a
      /\ \A m \in Nodes \ {n} : log'[m] = log[m]
  BY <1>1, <1>2
<1>4. \A m \in Nodes : Distinct(log'[m])
  BY <1>1, <1>2, <1>3
<1>5. Stores(log', casts', expired', untold')
  BY <1>1, <1>3, <1>4 DEF Stores, Grown
<1>6. Grows(log[n], casts[n], untold[n], log'[n], casts'[n], untold'[n])
  BY <1>1, <1>3 DEF Grown, Grows
<1>7. ASSUME NEW m \in Nodes \ {n}
      PROVE  Grows(log[m], casts[m], untold[m], log'[m], casts'[m], untold'[m])
  <2>1. log'[m] = log[m] /\ casts'[m] = casts[m] /\ untold'[m] = untold[m]
    BY <1>3 DEF Grown
  <2>2. Grows(log[m], casts[m], untold[m], log[m], casts[m], untold[m])
    BY <1>1, GrowsNot
  <2> QED
    BY <2>1, <2>2
<1>8. AllGrow(Nodes, log, casts, expired, untold, log', casts', expired', untold')
  BY <1>1, <1>6, <1>7 DEF AllGrow
<1> QED
  BY <1>1, <1>5, <1>8, GrowsKeep

\* What is due and is said is taken.
LEMMA SaidIsTaken ==
  ASSUME NEW msg, msg.items \in Seq(Intents), NEW l \in Seq(Intents), NEW k \in 1..Len(l), NEW u,
         Due(l, k, expired, u), Says(msg, l, k),
         NEW h, NEW a, Absorbs(h, Valid(msg.items), a)
  PROVE  Taken(a, l[k])
<1> DEFINE s == msg.items
           v == Valid(s)
<1>1. \A j \in 1..k : l[j] \notin expired
  BY DEF Due
<1>2. k \in 1..k /\ k \in Nat \ {0} /\ Len(s) \in Nat
  OBVIOUS
<1>3. Within(l[k], v)
  <2>1. CASE k <= Len(s) /\ \A j \in 1..k : s[j] = l[j]
    <3>1. k \in 1..Len(s) /\ s[k] = l[k] /\ SoundTo(s, k)
      BY <1>1, <1>2, <2>1 DEF SoundTo
    <3> HIDE DEF s
    <3>2. s \in Seq(Intents)
      BY DEF s
    <3> QED
      BY <3>1, <3>2, ValidItems
  <2>2. CASE s = <<l[k]>>
    <3>1. Len(s) = 1 /\ 1 \in 1..Len(s) /\ s[1] = l[k]
      BY <2>2
    <3>2. SoundTo(s, 1)
      <4>1. \A j \in 1..1 : s[j] = l[k]
        BY <3>1
      <4> QED
        BY <1>1, <1>2, <4>1 DEF SoundTo
    <3> HIDE DEF s
    <3>3. s \in Seq(Intents)
      BY DEF s
    <3> QED
      BY <3>1, <3>2, <3>3, ValidItems
  <2> QED
    BY <2>1, <2>2 DEF Says
<1> HIDE DEF v
<1>4. PICK j \in 1..Len(v) : v[j] = l[k]
  BY <1>3 DEF Within
<1>5. Absorbs(h, v, a)
  BY DEF v
<1> QED
  BY <1>4, <1>5 DEF Absorbs

\* What a message brings, and what the log becomes by it.
LEMMA ItemsAre ==
  ASSUME GossipInv, NEW n, NEW c \in conns, NEW type \in {"SYNC_RESPONSE", "INTENT"}, Receives(n, c, type)
  PROVE  /\ n \in Nodes /\ log[n] \in Seq(Intents)
         /\ Items(n, c) \in Seq(Intents) /\ Valid(Items(n, c)) \in Seq(Intents)
         /\ \A i : Within(i, Valid(Items(n, c))) => Within(i, Items(n, c))
         /\ Absorbs(log[n], Valid(Items(n, c)), Applied(log[n], Valid(Items(n, c))))
<1>1. Connection(c)
  BY DEF GossipInv, Kept
<1>2. n \in c.held /\ c.in[n] # <<>> /\ Head(c.in[n]).type = type
  BY DEF Receives
<1>3. Reads(c, n) /\ Head(c.in[n]) \in Messages
  BY <1>1, <1>2, ReadsIs
<1>4. n \in Nodes
  <2>1. n \in Ends(c)
    BY <1>3 DEF Reads
  <2>2. Ends(c) \subseteq Nodes
    BY <1>1, <2>1, PeerIs
  <2> QED
    BY <2>1, <2>2
<1>5. Items(n, c) \in Seq(Intents)
  BY <1>2, <1>3 DEF Items, Messages
<1> DEFINE s == Items(n, c)
           v == Valid(s)
           l == log[n]
<1>6. l \in Seq(Intents) /\ Distinct(l)
  BY <1>4 DEF GossipInv, Stores
<1> HIDE DEF s, l
<1>7. s \in Seq(Intents)
  BY <1>5 DEF s
<1>8. v \in Seq(Intents) /\ \A i : Within(i, v) => Within(i, s)
  BY <1>7, ValidItems
<1> HIDE DEF v
<1>9. Absorbs(l, v, Applied(l, v))
  BY <1>6, <1>8, AppliedAbsorbs
<1> QED
  BY <1>4, <1>6, <1>7, <1>8, <1>9 DEF s, v, l

LEMMA ItemsInv ==
  ASSUME GossipInv, StillKept, NEW n, NEW c \in conns,
         NEW type \in {"SYNC_RESPONSE", "INTENT"}, Receives(n, c, type),
         log' = [log EXCEPT ![n] = Applied(@, Valid(Items(n, c)))], expired' = expired,
         Becomes(c, Taking(n, c))
  PROVE  GossipInv'
<1> DEFINE m == Peer(c, n)
           q == c.in[n]
           r == c.in[m]
           R == c.ready
           d == Taking(n, c)
           s == Items(n, c)
           a == Applied(log[n], Valid(s))
<1>1. /\ Connection(c) /\ Reads(c, n) /\ n \in Nodes /\ m \in Nodes /\ n # m
      /\ q \in Seq(Messages) /\ q # <<>>
      /\ Head(q).type = type /\ r \in Seq(Messages)
      /\ Both(q, r, n, m, R, log', casts', expired', untold')
  BY ReceivesIs
<1>2. Turned(c, d, n, R, r)
  BY <1>1, TurnTaking
<1>3. s \in Seq(Intents) /\ Absorbs(log[n], Valid(s), a) /\ s = Head(q).items
  BY ItemsAre DEF Items
<1>4. log'[n] = a /\ log'[m] \in Seq(Intents)
  <2>1. log \in [Nodes -> Seq(Intents)]
    BY DEF GossipInv, Stores
  <2>2. log' \in [Nodes -> Seq(Intents)]
    BY DEF StillKept, Stores
  <2> QED
    BY <1>1, <2>1, <2>2
<1>5. ASSUME NEW k \in 1..Len(log'[m]), Due(log'[m], k, expired', untold'[m]), Says(Head(q), log'[m], k)
      PROVE  Taken(log'[n], log'[m][k])
  <2> DEFINE l == log'[m]
             u == untold'[m]
             msg == Head(q)
             h == log[n]
  <2>1. /\ l \in Seq(Intents) /\ k \in 1..Len(l) /\ Due(l, k, expired, u) /\ Says(msg, l, k)
        /\ msg.items \in Seq(Intents) /\ Absorbs(h, Valid(msg.items), a)
    BY <1>3, <1>4, <1>5
  <2> HIDE DEF l, u, msg, a, h
  <2>2. Taken(a, l[k])
    BY <2>1, SaidIsTaken
  <2> QED
    BY <1>4, <2>2 DEF l
<1> HIDE DEF d, m, q, r, R, a, s
<1>6. Both(Tail(q), r, n, m, R, log', casts', expired', untold')
  <2> DEFINE L == log'
             W == casts'
             x == expired'
             U == untold'
  <2>1. /\ Both(q, r, n, m, R, L, W, x, U)
        /\ \A k \in 1..Len(L[m]) : Due(L[m], k, x, U[m]) /\ Says(Head(q), L[m], k) => Taken(L[n], L[m][k])
    BY <1>1, <1>5
  <2>2. Head(q).type \in {"SYNC_RESPONSE", "INTENT"}
    BY <1>1
  <2> HIDE DEF L, W, x, U
  <2>3. Both(Tail(q), r, n, m, R, L, W, x, U)
    BY <1>1, <2>1, <2>2, ItemsBoth
  <2> QED
    BY <2>3 DEF L, W, x, U
<1>7. /\ Turned(c, d, n, R, r) /\ Becomes(c, d)
      /\ Both(Tail(c.in[n]), r, n, Peer(c, n), R, log', casts', expired', untold')
  BY <1>2, <1>6 DEF m, q, d
<1> QED
  BY <1>1, <1>7, TurnedInv

LEMMA ResponseInv ==
  ASSUME GossipInv, NEW n, NEW c \in conns, HandleSyncResponse(n, c)
  PROVE  GossipInv'
<1> DEFINE s == Items(n, c)
           v == Valid(s)
           l == log[n]
           a == Applied(l, v)
<1>1. /\ Receives(n, c, "SYNC_RESPONSE") /\ Becomes(c, Taking(n, c))
      /\ log' = [log EXCEPT ![n] = Applied(@, Valid(Items(n, c)))]
      /\ expired' = expired /\ faults' = faults
      /\ casts' = IF v = s /\ log' # log THEN [casts EXCEPT ![n] = @ \o s] ELSE casts
      /\ untold' = IF v = s THEN untold
                   ELSE [untold EXCEPT ![n] = @ \cup (ToSet(log'[n]) \ ToSet(log[n]))]
  BY DEF HandleSyncResponse
<1>2. n \in Nodes /\ l \in Seq(Intents) /\ s \in Seq(Intents) /\ Absorbs(l, v, a)
  BY <1>1, ItemsAre
<1>3. /\ log \in [Nodes -> Seq(Intents)] /\ casts \in [Nodes -> Seq(Intents)]
      /\ untold \in [Nodes -> SUBSET Intents] /\ casts[n] \in Seq(Intents)
  BY <1>2 DEF GossipInv, Stores
<1>4. log' = [log EXCEPT ![n] = a] /\ log'[n] = a
  BY <1>1, <1>2, <1>3
<1>5. /\ LongerLog(l, a) /\ Distinct(a) /\ a \in Seq(Intents) /\ Len(l) \in Nat /\ Len(a) \in Nat
      /\ Len(l) <= Len(a) /\ (\A k \in 1..Len(l) : a[k] = l[k])
      /\ \A k \in (Len(l) + 1)..Len(a) : Within(a[k], v)
  BY <1>2 DEF Absorbs, LongerLog
<1> HIDE DEF s, v, l, a
<1>6. Grown(n, a)
  <2>1. CASE v = s
    <3>1. untold' = untold
      BY <1>1, <2>1
    <3>2. CASE log' = log
      <4>1. casts' = casts
        BY <1>1, <3>2
      <4>2. a = l
        BY <1>4, <3>2 DEF l
      <4>3. \A k \in (Len(l) + 1)..Len(a) : FALSE
        BY <1>5, <4>2
      <4> QED
        BY <1>3, <1>4, <1>5, <3>1, <4>1, <4>3 DEF Grown, l
    <3>3. CASE log' # log
      <4>1. casts' = [casts EXCEPT ![n] = @ \o s]
        BY <1>1, <2>1, <3>3
      <4>2. casts[n] \o s \in Seq(Intents)
        BY <1>2, <1>3, JoinIs
      <4>3. /\ casts' \in [Nodes -> Seq(Intents)] /\ casts'[n] = casts[n] \o s
            /\ \A m \in Nodes \ {n} : casts'[m] = casts[m]
        BY <1>2, <1>3, <4>1, <4>2
      <4>4. /\ \A i : Within(i, casts[n]) => Within(i, casts'[n])
            /\ \A i : Within(i, s) => Within(i, casts'[n])
        BY <1>2, <1>3, <4>3, WithinJoin
      <4>5. \A k \in (Len(l) + 1)..Len(a) : Within(a[k], casts'[n])
        BY <1>5, <2>1, <4>4
      <4> QED
        BY <1>3, <1>4, <1>5, <3>1, <4>3, <4>4, <4>5 DEF Grown, l
    <3> QED
      BY <3>2, <3>3
  <2>2. CASE v # s
    <3>1. casts' = casts
      BY <1>1, <2>2
    <3>2. untold' = [untold EXCEPT ![n] = @ \cup (ToSet(a) \ ToSet(l))]
      BY <1>1, <1>4, <2>2 DEF l
    <3>3. ToSet(a) \subseteq Intents /\ \A k \in 1..Len(a) : a[k] \in ToSet(a)
      BY <1>5 DEF ToSet
    <3>4. /\ untold' \in [Nodes -> SUBSET Intents]
          /\ untold'[n] = untold[n] \cup (ToSet(a) \ ToSet(l))
          /\ \A m \in Nodes \ {n} : untold'[m] = untold[m]
      BY <1>2, <1>3, <3>2, <3>3
    <3>5. ASSUME NEW k \in (Len(l) + 1)..Len(a)
          PROVE  a[k] \in untold'[n]
      <4>1. k \in 1..Len(a) /\ k > Len(l)
        BY <1>5
      <4>2. ASSUME a[k] \in ToSet(l) PROVE FALSE
        <5>1. PICK j \in 1..Len(l) : l[j] = a[k]
          BY <4>2 DEF ToSet
        <5>2. j \in 1..Len(a) /\ a[j] = a[k] /\ j # k
          BY <1>5, <4>1, <5>1
        <5> QED
          BY <1>5, <4>1, <5>2 DEF Distinct
      <4> QED
        BY <3>3, <3>4, <4>1, <4>2
    <3> QED
      BY <1>3, <1>4, <1>5, <3>1, <3>4, <3>5 DEF Grown, l
  <2> QED
    BY <2>1, <2>2
<1>7. StillKept
  BY <1>1, <1>2, <1>6, GrownKeep
<1> QED
  BY <1>1, <1>7, ItemsInv

LEMMA IntentInv ==
  ASSUME GossipInv, NEW n, NEW c \in conns, HandleIntent(n, c)
  PROVE  GossipInv'
<1> DEFINE s == Items(n, c)
           v == Valid(s)
           l == log[n]
           a == Applied(l, v)
<1>1. /\ Receives(n, c, "INTENT") /\ Becomes(c, Taking(n, c))
      /\ log' = [log EXCEPT ![n] = Applied(@, Valid(Items(n, c)))]
      /\ expired' = expired /\ faults' = faults /\ untold' = untold
      /\ casts' = IF log' # log THEN [casts EXCEPT ![n] = @ \o s] ELSE casts
  BY DEF HandleIntent
<1>2. /\ n \in Nodes /\ l \in Seq(Intents) /\ s \in Seq(Intents) /\ Absorbs(l, v, a)
      /\ \A i : Within(i, v) => Within(i, s)
  BY <1>1, ItemsAre
<1>3. /\ log \in [Nodes -> Seq(Intents)] /\ casts \in [Nodes -> Seq(Intents)]
      /\ untold \in [Nodes -> SUBSET Intents] /\ casts[n] \in Seq(Intents)
  BY <1>2 DEF GossipInv, Stores
<1>4. log' = [log EXCEPT ![n] = a] /\ log'[n] = a
  BY <1>1, <1>2, <1>3
<1>5. /\ LongerLog(l, a) /\ Distinct(a) /\ a \in Seq(Intents) /\ Len(l) \in Nat /\ Len(a) \in Nat
      /\ \A k \in (Len(l) + 1)..Len(a) : Within(a[k], v)
  BY <1>2 DEF Absorbs, LongerLog
<1> HIDE DEF s, v, l, a
<1>6. Grown(n, a)
  <2>1. CASE log' = log
    <3>1. casts' = casts
      BY <1>1, <2>1
    <3>2. a = l
      BY <1>4, <2>1 DEF l
    <3>3. \A k \in (Len(l) + 1)..Len(a) : FALSE
      BY <1>5, <3>2
    <3> QED
      BY <1>1, <1>3, <1>4, <1>5, <3>1, <3>3 DEF Grown, l
  <2>2. CASE log' # log
    <3>1. casts' = [casts EXCEPT ![n] = @ \o s]
      BY <1>1, <2>2
    <3>2. casts[n] \o s \in Seq(Intents)
      BY <1>2, <1>3, JoinIs
    <3>3. /\ casts' \in [Nodes -> Seq(Intents)] /\ casts'[n] = casts[n] \o s
          /\ \A m \in Nodes \ {n} : casts'[m] = casts[m]
      BY <1>2, <1>3, <3>1, <3>2
    <3>4. /\ \A i : Within(i, casts[n]) => Within(i, casts'[n])
          /\ \A i : Within(i, s) => Within(i, casts'[n])
      BY <1>2, <1>3, <3>3, WithinJoin
    <3>5. \A k \in (Len(l) + 1)..Len(a) : Within(a[k], casts'[n])
      BY <1>2, <1>5, <3>4
    <3> QED
      BY <1>1, <1>3, <1>4, <1>5, <3>3, <3>4, <3>5 DEF Grown, l
  <2> QED
    BY <2>1, <2>2
<1>7. StillKept
  BY <1>1, <1>2, <1>6, GrownKeep
<1> QED
  BY <1>1, <1>7, ItemsInv

-----------------------------------------------------------------------------
(* Clients, time, and connections that come and go.                         *)

LEMMA ConnsSame ==
  ASSUME GossipInv, StillKept, conns' = conns
  PROVE  GossipInv'
  BY DEF GossipInv, StillKept

LEMMA PublishInv ==
  ASSUME GossipInv, NEW i \in Intents, Publish(i)
  PROVE  GossipInv'
<1> DEFINE n == Home[i]
           l == log[n]
           a == Append(l, i)
           w == casts[n]
           b == Append(w, i)
<1>1. /\ ~Taken(l, i)
      /\ log' = [log EXCEPT ![n] = a] /\ casts' = [casts EXCEPT ![n] = b]
      /\ expired' = expired /\ faults' = faults /\ untold' = untold /\ conns' = conns
  BY DEF Publish
<1>2. n \in Nodes
  BY GossipAssumption
<1>3. /\ log \in [Nodes -> Seq(Intents)] /\ casts \in [Nodes -> Seq(Intents)]
      /\ untold \in [Nodes -> SUBSET Intents]
      /\ l \in Seq(Intents) /\ w \in Seq(Intents) /\ Distinct(l)
  BY <1>2 DEF GossipInv, Stores
<1> HIDE DEF n
<1>4. /\ a \in Seq(Intents) /\ Len(a) = Len(l) + 1 /\ Len(l) \in Nat /\ a[Len(l) + 1] = i
      /\ \A k \in 1..Len(l) : a[k] = l[k]
  BY <1>3, AppendIs
<1>5. /\ b \in Seq(Intents) /\ Len(b) = Len(w) + 1 /\ Len(w) \in Nat /\ b[Len(w) + 1] = i
      /\ \A k \in 1..Len(w) : b[k] = w[k]
  BY <1>3, AppendIs
<1>6. Distinct(a)
  BY <1>1, <1>3, AppendKeeps
<1>7. LongerLog(l, a)
  BY <1>4 DEF LongerLog
<1> HIDE DEF l, a, w, b
<1>8. \A j : Within(j, w) => Within(j, b)
  <2>1. \A k \in 1..Len(w) : k \in 1..Len(b)
    BY <1>5
  <2> QED
    BY <1>5, <2>1 DEF Within
<1>9. \A k \in (Len(l) + 1)..Len(a) : Within(a[k], b)
  <2>1. Len(w) + 1 \in 1..Len(b)
    BY <1>5
  <2>2. Within(i, b)
    BY <1>5, <2>1 DEF Within
  <2>3. \A k \in (Len(l) + 1)..Len(a) : k = Len(l) + 1
    BY <1>4
  <2> QED
    BY <1>4, <2>2, <2>3
<1>10. /\ casts' \in [Nodes -> Seq(Intents)] /\ casts'[n] = b
       /\ \A m \in Nodes \ {n} : casts'[m] = casts[m]
  BY <1>1, <1>2, <1>3, <1>5
<1>11. Grown(n, a)
  BY <1>1, <1>2, <1>3, <1>6, <1>7, <1>8, <1>9, <1>10 DEF Grown, l, w
<1>12. StillKept
  BY <1>1, <1>2, <1>11, GrownKeep
<1> QED
  BY <1>1, <1>12, ConnsSame

LEMMA ExpireInv ==
  ASSUME GossipInv, NEW i \in Intents, Expire(i)
  PROVE  GossipInv'
<1>1. /\ log' = log /\ casts' = casts /\ untold' = untold /\ conns' = conns /\ faults' = faults
      /\ expired' = expired \cup {i} /\ i \in MayExpire
  BY DEF Expire
<1>2. /\ log \in [Nodes -> Seq(Intents)] /\ faults \in 0..MaxFaults
      /\ expired \subseteq MayExpire
  BY DEF GossipInv, Stores
<1>3. Stores(log', casts', expired', untold')
  BY <1>1 DEF GossipInv, Stores
<1>4. \A n \in Nodes : Grows(log[n], casts[n], untold[n], log[n], casts[n], untold[n])
  BY <1>2, GrowsNot
<1>5. AllGrow(Nodes, log, casts, expired, untold, log', casts', expired', untold')
  BY <1>1, <1>2, <1>4 DEF AllGrow
<1>6. StillKept
  BY <1>1, <1>2, <1>3, <1>5, GrowsKeep
<1> QED
  BY <1>1, <1>6, ConnsSame

LEMMA DialInv ==
  ASSUME GossipInv, NEW n \in Nodes, NEW m \in Nodes, Dial(n, m)
  PROVE  GossipInv'
<1> DEFINE v == Message("VERSION")
           s == <<v>>
           h == {n, m}
           j == [e \in {n, m} |-> s]
           d == Conn(n, m, TRUE, h, {}, j)
<1>1. /\ m \in Seeds[n] /\ conns' = conns \cup {d} /\ StoresSame /\ faults' = faults
      /\ \A c \in conns : n \in c.held => ~(c.from = n /\ c.to = m)
  BY DEF Dial, Conn, StoresSame, HeldBy
<1>2. n # m
  BY <1>1, GossipAssumption
<1>3. v \in Messages /\ v.type = "VERSION"
  BY DEF Message, Messages
<1> HIDE DEF v
<1>4. s \in Seq(Messages) /\ Len(s) = 1 /\ s[1] = v
  BY <1>3
<1> HIDE DEF s
<1>5. j \in [h -> Seq(Messages)] /\ j[n] = s /\ j[m] = s
  BY <1>4
<1> DEFINE R == {}
           lv == TRUE
<1>6. d = Conn(n, m, lv, h, R, j) /\ R = {} /\ lv = TRUE /\ h = {n, m}
  OBVIOUS
<1> HIDE DEF d, R, lv, j, h
<1>7. /\ d.from = n /\ d.to = m /\ d.live = lv /\ d.held = h /\ d.ready = R /\ d.in = j
      /\ Ends(d) = {n, m}
  <2>1. d = Conn(n, m, lv, h, R, j)
    BY <1>6
  <2> QED
    BY <2>1, ConnFields
<1>8. Connection(d)
  BY <1>1, <1>5, <1>6, <1>7 DEF Connection
<1>9. Opens(s) /\ Holds(s, "VERSION")
  <2>1. 1 \in 1..Len(s) /\ \A i \in 1..Len(s) : i = 1
    BY <1>4
  <2> QED
    BY <1>3, <1>4, <2>1 DEF Opens, Holds
<1>10. \A e : Half(s, s, e, R)
  BY <1>6, <1>9 DEF Half
<1>11. \A e \in Ends(d) : d.in[e] = s /\ d.in[Peer(d, e)] = s
  BY <1>5, <1>7, <1>8, PeerIs
<1>12. Linked(d, log, casts, expired, untold)
  BY <1>7, <1>9, <1>10, <1>11 DEF Linked, Direct, Owes, Met
<1>13. Kept(d, log, casts, expired, untold)
  BY <1>8, <1>12 DEF Kept
<1>14. StillKept
  BY <1>1, StoresSameKeep DEF GossipInv
<1>15. \A c \in conns' : Kept(c, log', casts', expired', untold')
  BY <1>1, <1>13, <1>14 DEF StillKept, StoresSame
<1>16. Single(conns')
  BY <1>1, <1>7 DEF GossipInv, Single
<1> QED
  BY <1>14, <1>15, <1>16 DEF GossipInv, StillKept

\* A connection that is cut, and one that its end n has left.
LEMMA CutIs ==
  ASSUME NEW c, Connection(c)
  PROVE  /\ Connection(Cut(c)) /\ ~Cut(c).live /\ Ends(Cut(c)) = Ends(c)
         /\ Cut(c).from = c.from /\ Cut(c).to = c.to /\ Cut(c).held = c.held
<1> DEFINE a == c.from
           b == c.to
           h == c.held
           R == c.ready
           i == c.in
           lv == c.live
           j == [n \in Ends(c) |-> <<>>]
           no == FALSE
           d == Cut(c)
<1>1. /\ c = Conn(a, b, lv, h, R, i)
      /\ a \in Nodes /\ b \in Seeds[a] /\ h \in SUBSET Ends(c) /\ h # {} /\ R \subseteq h
  BY DEF Connection
<1>2. d = [c EXCEPT !.live = no, !.in = j]
  BY DEF Cut
<1>3. no = FALSE /\ j \in [Ends(c) -> Seq(Messages)] /\ \A n \in Ends(c) : j[n] = <<>>
  OBVIOUS
<1>4. Ends(c) = {a, b}
  BY DEF Ends
<1> HIDE DEF a, b, h, R, i, lv, j, no, d
<1>5. d = Conn(a, b, no, h, R, j)
  <2>1. [Conn(a, b, lv, h, R, i) EXCEPT !.live = no] = Conn(a, b, no, h, R, i)
    BY DEF Conn
  <2>2. [Conn(a, b, no, h, R, i) EXCEPT !.in = j] = Conn(a, b, no, h, R, j)
    BY DEF Conn
  <2> QED
    BY <1>1, <1>2, <2>1, <2>2, Zenon
<1>6. /\ d.from = a /\ d.to = b /\ d.live = no /\ d.held = h /\ d.ready = R /\ d.in = j
      /\ Ends(d) = {a, b}
  BY <1>5, ConnFields
<1>7. Connection(d)
  BY <1>1, <1>3, <1>4, <1>5, <1>6 DEF Connection
<1> QED
  BY <1>3, <1>4, <1>6, <1>7 DEF a, b, h, d

Left(c, n) == [c EXCEPT !.held = @ \ {n}, !.ready = @ \ {n}]

LEMMA LeftIs ==
  ASSUME NEW c, Connection(c), ~c.live, NEW n
  PROVE  /\ Left(c, n).held # {} => Connection(Left(c, n))
         /\ ~Left(c, n).live /\ Left(c, n).from = c.from /\ Left(c, n).to = c.to
         /\ Left(c, n).held = c.held \ {n}
<1> DEFINE a == c.from
           b == c.to
           h == c.held
           R == c.ready
           i == c.in
           lv == c.live
           g == h \ {n}
           S == R \ {n}
           d == Left(c, n)
<1>1. /\ c = Conn(a, b, lv, h, R, i)
      /\ a \in Nodes /\ b \in Seeds[a] /\ h \in SUBSET Ends(c) /\ R \subseteq h
      /\ i \in [Ends(c) -> Seq(Messages)] /\ lv = FALSE /\ \A e \in Ends(c) : i[e] = <<>>
  BY DEF Connection
<1>2. d = [c EXCEPT !.held = g, !.ready = S]
  BY DEF Left
<1>3. g \in SUBSET Ends(c) /\ S \subseteq g
  BY <1>1
<1>4. Ends(c) = {a, b}
  BY DEF Ends
<1> HIDE DEF a, b, h, R, i, lv, g, S, d
<1>5. d = Conn(a, b, lv, g, S, i)
  <2>1. [Conn(a, b, lv, h, R, i) EXCEPT !.held = g] = Conn(a, b, lv, g, R, i)
    BY DEF Conn
  <2>2. [Conn(a, b, lv, g, R, i) EXCEPT !.ready = S] = Conn(a, b, lv, g, S, i)
    BY DEF Conn
  <2> QED
    BY <1>1, <1>2, <2>1, <2>2, Zenon
<1>6. /\ d.from = a /\ d.to = b /\ d.live = lv /\ d.held = g /\ d.ready = S /\ d.in = i
      /\ Ends(d) = {a, b}
  BY <1>5, ConnFields
<1>7. d.held # {} => Connection(d)
  BY <1>1, <1>3, <1>4, <1>5, <1>6 DEF Connection
<1> QED
  <2>1. /\ d.held # {} => Connection(d)
        /\ ~d.live /\ d.from = a /\ d.to = b /\ d.held = h \ {n}
    BY <1>1, <1>6, <1>7 DEF g
  <2> QED
    BY <2>1 DEF a, b, h, d

LEMMA BreakInv ==
  ASSUME GossipInv, NEW c \in conns, Break(c)
  PROVE  GossipInv'
<1>1. Becomes(c, Cut(c)) /\ StoresSame /\ faults' = faults + 1 /\ faults < MaxFaults
  BY DEF Break, StoresSame
<1>2. faults' \in 0..MaxFaults
  BY <1>1, GossipAssumption DEF GossipInv
<1>3. StillKept
  BY <1>1, <1>2, StoresSameKeep
<1>4. Connection(c)
  BY DEF GossipInv, Kept
<1> DEFINE d == Cut(c)
<1>5. /\ Connection(d) /\ ~d.live /\ d.from = c.from /\ d.to = c.to /\ d.held = c.held
  BY <1>4, CutIs
<1> HIDE DEF d
<1>6. Kept(d, log', casts', expired', untold')
  BY <1>5 DEF Kept
<1>7. Becomes(c, d)
  BY <1>1 DEF d
<1> QED
  BY <1>3, <1>5, <1>6, <1>7, BecomesInv

LEMMA DisconnectInv ==
  ASSUME GossipInv, NEW n, NEW c \in conns, Disconnect(n, c)
  PROVE  GossipInv'
<1> DEFINE d == Left(c, n)
<1>1. /\ StoresSame /\ faults' = faults /\ ~c.live
      /\ conns' = (conns \ {c}) \cup (IF c.held = {n} THEN {} ELSE {d})
  BY DEF Disconnect, StoresSame, Left
<1>2. StillKept
  BY <1>1, StoresSameKeep DEF GossipInv
<1>3. Connection(c) /\ c.held # {}
  BY DEF GossipInv, Kept, Connection
<1>4. /\ d.held # {} => Connection(d)
      /\ ~d.live /\ d.from = c.from /\ d.to = c.to /\ d.held = c.held \ {n}
  BY <1>1, <1>3, LeftIs
<1> HIDE DEF d
<1>5. CASE c.held = {n}
  <2>1. conns' \subseteq conns
    BY <1>1, <1>5
  <2>2. Single(conns)
    BY DEF GossipInv
  <2>3. Single(conns')
    BY <2>1, <2>2, SingleLess
  <2> QED
    BY <1>2, <2>1, <2>3 DEF GossipInv, StillKept
<1>6. CASE c.held # {n}
  <2>1. Becomes(c, d)
    BY <1>1, <1>6 DEF Becomes
  <2>2. d.held # {} /\ d.held \subseteq c.held
    BY <1>3, <1>4, <1>6
  <2>3. Kept(d, log', casts', expired', untold')
    BY <1>4, <2>2 DEF Kept
  <2> QED
    BY <1>2, <1>4, <2>1, <2>2, <2>3, BecomesInv
<1> QED
  BY <1>5, <1>6

-----------------------------------------------------------------------------
(* A broadcast runs, and a node crashes: every connection may change.       *)

LEMMA KeptFrom ==
  ASSUME NEW c, Connection(c), NEW n \in Ends(c), NEW L, NEW W, NEW x, NEW U,
         Both(c.in[n], c.in[Peer(c, n)], n, Peer(c, n), c.ready, L, W, x, U)
  PROVE  Kept(c, L, W, x, U)
<1>1. /\ Direct(c.in, n, Peer(c, n), c.ready, L, W, x, U)
      /\ Direct(c.in, Peer(c, n), n, c.ready, L, W, x, U)
  BY DEF Both, Direct
<1>2. Linked(c, L, W, x, U)
  BY <1>1, LinkedBoth
<1> QED
  BY <1>2 DEF Kept

\* n tells its peer, or would tell it if it were ready; V are the broadcasts that
\* are left.
LEMMA CastBoth ==
  ASSUME NEW q \in Seq(Messages), NEW r \in Seq(Messages), NEW n, NEW m, n # m, NEW R,
         NEW L, NEW W, NEW x, NEW U, Both(q, r, n, m, R, L, W, x, U),
         W[n] \in Seq(Intents), W[n] # <<>>, NEW msg \in Messages, Tidings(Head(W[n]), msg),
         NEW V, V[n] = Tail(W[n]), V[m] = W[m]
  PROVE  Both(q, r \o <<msg>>, n, m, R, L, V, x, U)
<1> DEFINE s == <<msg>>
           o == r \o s
<1>1. /\ Half(q, r, n, R) /\ Owes(q, r, n, R, L[n], L[m], W[n], x, U[n])
      /\ Half(r, q, m, R) /\ Owes(r, q, m, R, L[m], L[n], W[m], x, U[m])
  BY DEF Both
<1>2. s \in Seq(Messages) /\ ~Holds(s, "VERSION")
  <2>1. Len(s) = 1 /\ s[1] = msg /\ msg.type # "VERSION" /\ s \in Seq(Messages)
    BY DEF Tidings
  <2>2. \A i \in 1..Len(s) : i = 1
    BY <2>1
  <2> QED
    BY <2>1, <2>2 DEF Holds
<1>3. Half(q, o, n, R) /\ Half(o, q, m, R)
  <2> HIDE DEF s
  <2> QED
    BY <1>1, <1>2, HalfJoin
<1>4. Owes(q, o, n, R, L[n], L[m], V[n], x, U[n])
  <2> DEFINE l == L[n]
             p == L[m]
             w == W[n]
             u == U[n]
  <2>1. Owes(q, r, n, R, l, p, w, x, u) /\ w \in Seq(Intents) /\ w # <<>> /\ Tidings(Head(w), msg)
    BY <1>1
  <2> HIDE DEF l, p, w, u
  <2>2. Owes(q, o, n, R, l, p, Tail(w), x, u)
    BY <2>1, OwesSays
  <2> QED
    BY <2>2 DEF l, p, w, u
<1>5. Owes(o, q, m, R, L[m], L[n], V[m], x, U[m])
  <2> DEFINE l == L[m]
             p == L[n]
             w == W[m]
             u == U[m]
  <2>1. Owes(r, q, m, R, l, p, w, x, u)
    BY <1>1
  <2> HIDE DEF l, p, w, u, s
  <2>2. Owes(o, q, m, R, l, p, w, x, u)
    BY <1>2, <2>1, OwesIsTold
  <2> QED
    BY <2>2 DEF l, p, w, u
<1> QED
  BY <1>3, <1>4, <1>5 DEF Both

LEMMA AsideBoth ==
  ASSUME NEW q, NEW r, NEW n, NEW m, NEW R,
         NEW L, NEW W, NEW x, NEW U, Both(q, r, n, m, R, L, W, x, U), n \notin R, NEW V, V[m] = W[m]
  PROVE  Both(q, r, n, m, R, L, V, x, U)
<1>1. /\ Half(q, r, n, R) /\ Owes(q, r, n, R, L[n], L[m], W[n], x, U[n])
      /\ Half(r, q, m, R) /\ Owes(r, q, m, R, L[m], L[n], W[m], x, U[m])
  BY DEF Both
<1> DEFINE l == L[n]
           p == L[m]
           w == W[n]
           v == V[n]
           u == U[n]
<1>2. Owes(q, r, n, R, l, p, w, x, u)
  BY <1>1
<1> HIDE DEF l, p, w, v, u
<1>3. Owes(q, r, n, R, l, p, v, x, u)
  BY <1>2, OwesAside
<1> QED
  BY <1>1, <1>3 DEF Both, l, p, v, u

\* At the other nodes nothing happens.
LEMMA KeptElsewhere ==
  ASSUME NEW c, NEW L, NEW W, NEW x, NEW U, Kept(c, L, W, x, U), NEW n, ~c.live \/ n \notin Ends(c),
         Ends(c) \subseteq Nodes, L \in [Nodes -> Seq(Intents)],
         NEW M, NEW V, \A m \in Nodes \ {n} : M[m] = L[m] /\ V[m] = W[m]
  PROVE  Kept(c, M, V, x, U)
<1>1. CASE ~c.live
  BY <1>1 DEF Kept
<1>2. CASE n \notin Ends(c)
  <2>1. ASSUME NEW m \in Ends(c)
        PROVE  L[m] \in Seq(Intents) /\ Grows(L[m], W[m], U[m], M[m], V[m], U[m])
    <3>1. M[m] = L[m] /\ V[m] = W[m] /\ L[m] \in Seq(Intents)
      BY <1>2, <2>1
    <3>2. Grows(L[m], W[m], U[m], L[m], W[m], U[m])
      BY <3>1, GrowsNot
    <3> QED
      BY <3>1, <3>2
  <2>2. AllGrow(Ends(c), L, W, x, U, M, V, x, U)
    BY <2>1 DEF AllGrow
  <2> QED
    BY <2>2, KeptGrows
<1> QED
  BY <1>1, <1>2

LEMMA BroadcastInv ==
  ASSUME GossipInv, NEW n \in Nodes, Broadcast(n)
  PROVE  GossipInv'
<1> DEFINE w == casts[n]
           msg == [type |-> "INTENT", items |-> <<Head(w)>>]
           s == <<msg>>
           f == [c \in conns |-> IF n \in c.ready THEN Sent(c, Peer(c, n), s) ELSE c]
<1>1. /\ w # <<>> /\ conns' = {f[c] : c \in conns} /\ casts' = [casts EXCEPT ![n] = Tail(@)]
      /\ log' = log /\ expired' = expired /\ faults' = faults /\ untold' = untold
  BY DEF Broadcast
<1>2. /\ log \in [Nodes -> Seq(Intents)] /\ casts \in [Nodes -> Seq(Intents)] /\ w \in Seq(Intents)
      /\ faults \in 0..MaxFaults
  BY DEF GossipInv, Stores
<1>3. Tail(w) \in Seq(Intents) /\ Head(w) \in Intents
  BY <1>1, <1>2, TailIs
<1>4. /\ casts' \in [Nodes -> Seq(Intents)] /\ casts'[n] = Tail(w)
      /\ \A m \in Nodes \ {n} : casts'[m] = casts[m]
  BY <1>1, <1>2, <1>3
<1>5. Stores(log', casts', expired', untold') /\ faults' \in 0..MaxFaults
  BY <1>1, <1>2, <1>4 DEF GossipInv, Stores
<1>6. msg \in Messages /\ Tidings(Head(w), msg)
  BY <1>3 DEF Messages, Tidings
<1> HIDE DEF msg
<1>7. s \in Seq(Messages)
  BY <1>6
<1> HIDE DEF s
<1>8. ASSUME NEW c \in conns
      PROVE  /\ f[c].from = c.from /\ f[c].to = c.to /\ f[c].held = c.held
             /\ Kept(f[c], log', casts', expired', untold')
  <2> DEFINE m == Peer(c, n)
             q == c.in[n]
             r == c.in[m]
             R == c.ready
             d == Sent(c, m, s)
             W == casts'
  <2>1. Kept(c, log, casts, expired, untold) /\ Connection(c) /\ R \subseteq Ends(c)
    BY DEF GossipInv, Kept, Connection
  <2>2. Ends(c) \subseteq Nodes
    BY <2>1, PeerIs DEF Ends
  <2>3. f[c] = IF n \in R THEN d ELSE c
    OBVIOUS
  <2>4. CASE ~c.live \/ n \notin Ends(c)
    <3>1. d = c \/ n \notin R
      BY <2>1, <2>4 DEF Sent
    <3>2. f[c] = c
      BY <2>3, <3>1
    <3>3. \A e \in Nodes \ {n} : log[e] = log[e] /\ W[e] = casts[e]
      BY <1>4
    <3> HIDE DEF W, f
    <3>4. Kept(c, log, W, expired, untold)
      BY <1>2, <2>1, <2>2, <2>4, <3>3, KeptElsewhere
    <3> QED
      BY <1>1, <3>2, <3>4 DEF W
  <2>5. CASE c.live /\ n \in Ends(c)
    <3>1. Both(q, r, n, m, R, log, casts, expired, untold)
      BY <2>1, <2>5, KeptBoth
    <3>2. m \in Ends(c) /\ n # m /\ q \in Seq(Messages) /\ r \in Seq(Messages)
      BY <2>1, <2>5, PeerIs DEF Connection
    <3>3. W[n] = Tail(casts[n]) /\ W[m] = casts[m]
      BY <1>4, <2>2, <3>2
    <3>4. CASE n \notin R
      <4>1. f[c] = c
        BY <2>3, <3>4
      <4> HIDE DEF W, f, q, r, m, R
      <4>2. Both(q, r, n, m, R, log, W, expired, untold)
        BY <3>1, <3>3, <3>4, AsideBoth
      <4>3. Both(c.in[n], c.in[Peer(c, n)], n, Peer(c, n), c.ready, log, W, expired, untold)
        BY <4>2 DEF q, r, m, R
      <4>4. Kept(c, log, W, expired, untold)
        BY <2>1, <2>5, <4>3, KeptFrom
      <4> QED
        BY <1>1, <4>1, <4>4 DEF W
    <3>5. CASE n \in R
      <4>1. f[c] = d
        BY <2>3, <3>5
      <4> HIDE DEF f
      <4> DEFINE o == r \o s
                 j == [c.in EXCEPT ![m] = o]
      <4>2. Rewired(c, d, R, j)
        BY <1>7, <2>1, <2>5, <3>2, SentIs
      <4>3. c.in \in [Ends(c) -> Seq(Messages)]
        BY <2>1 DEF Connection
      <4>4. j[n] = q /\ j[m] = o
        BY <2>5, <3>2, <4>3
      <4> HIDE DEF j, d
      <4>5. /\ Connection(d) /\ Ends(d) = Ends(c) /\ d.ready = R /\ d.in = j
            /\ d.from = c.from /\ d.to = c.to /\ d.held = c.held
        BY <2>1, <2>5, <4>2, RewiredIs
      <4>6. Peer(d, n) = m
        BY <4>5, PeerSame
      <4> HIDE DEF W, q, r, m, R, o
      <4>7. casts[n] \in Seq(Intents) /\ casts[n] # <<>> /\ Tidings(Head(casts[n]), msg)
        BY <1>1, <1>2, <1>6
      <4>8. Both(q, r \o <<msg>>, n, m, R, log, W, expired, untold)
        BY <1>6, <3>1, <3>2, <3>3, <4>7, CastBoth
      <4>9. Both(q, o, n, m, R, log, W, expired, untold)
        BY <4>8 DEF o, s
      <4>10. Both(d.in[n], d.in[Peer(d, n)], n, Peer(d, n), d.ready, log, W, expired, untold)
        BY <4>4, <4>5, <4>6, <4>9
      <4>11. Kept(d, log, W, expired, untold)
        BY <2>5, <4>5, <4>10, KeptFrom
      <4> QED
        BY <1>1, <4>1, <4>5, <4>11 DEF W
    <3> QED
      BY <3>4, <3>5
  <2> QED
    BY <2>4, <2>5
<1> HIDE DEF f
<1>9. \A d \in conns' : Kept(d, log', casts', expired', untold')
  BY <1>1, <1>8
<1>10. Single(conns')
  <2>1. Single(conns) /\ \A d \in conns' : \E c \in conns : d = f[c]
    BY <1>1 DEF GossipInv
  <2>2. \A c \in conns : f[c].from = c.from /\ f[c].to = c.to /\ f[c].held \subseteq c.held
    BY <1>8
  <2> QED
    BY <2>1, <2>2, SingleImage
<1> QED
  BY <1>5, <1>9, <1>10 DEF GossipInv

\* What a node has of a batch when it is killed.
LEMMA CrashLog ==
  ASSUME GossipInv, NEW n \in Nodes, Crash(n)
  PROVE  \E a : log' = [log EXCEPT ![n] = a] /\ a \in Seq(Intents) /\ Distinct(a)
<1>1. log \in [Nodes -> Seq(Intents)] /\ log[n] \in Seq(Intents) /\ Distinct(log[n])
  BY DEF GossipInv, Stores
<1>2. CASE UNCHANGED log
  <2>1. log' = [log EXCEPT ![n] = log[n]]
    BY <1>1, <1>2
  <2> QED
    BY <1>1, <2>1
<1>3. ASSUME NEW c \in HeldBy(n), Receives(n, c, "SYNC_RESPONSE"),
             NEW k \in 1..(Len(Valid(Items(n, c))) - 1),
             log' = [log EXCEPT ![n] = Applied(@, SubSeq(Items(n, c), 1, k))]
      PROVE  \E a : log' = [log EXCEPT ![n] = a] /\ a \in Seq(Intents) /\ Distinct(a)
  <2> DEFINE s == Items(n, c)
             v == Valid(s)
             b == SubSeq(s, 1, k)
             l == log[n]
             a == Applied(l, b)
  <2>1. c \in conns
    BY DEF HeldBy
  <2>2. s \in Seq(Intents)
    BY <1>3, <2>1, ItemsAre
  <2> HIDE DEF s
  <2>3. v \in Seq(Intents) /\ Len(v) <= Len(s)
    BY <2>2, ValidItems
  <2>4. k \in 1..(Len(v) - 1)
    BY DEF s
  <2> HIDE DEF v
  <2>5. k \in 0..Len(s)
    BY <2>2, <2>3, <2>4
  <2>6. b \in Seq(Intents)
    BY <2>2, <2>5, SubSeqIs
  <2> HIDE DEF b, l
  <2>7. l \in Seq(Intents) /\ Distinct(l)
    BY <1>1 DEF l
  <2>8. Absorbs(l, b, a)
    BY <2>6, <2>7, AppliedAbsorbs
  <2>9. a \in Seq(Intents) /\ Distinct(a)
    BY <2>8 DEF Absorbs, LongerLog
  <2>10. log' = [log EXCEPT ![n] = a]
    BY <1>3 DEF a, b, s, l
  <2> QED
    BY <2>9, <2>10
<1> QED
  BY <1>2, <1>3 DEF Crash

LEMMA CrashInv ==
  ASSUME GossipInv, NEW n \in Nodes, Crash(n)
  PROVE  GossipInv'
<1> DEFINE f == [c \in conns |-> IF n \in c.held THEN Left(Cut(c), n) ELSE c]
<1>1. /\ casts' = [casts EXCEPT ![n] = <<>>] /\ expired' = expired /\ untold' = untold
      /\ faults < MaxFaults /\ faults' = faults + 1
      /\ conns' = {c \in {f[e] : e \in conns} : c.held # {}}
  BY DEF Crash, Left
<1>2. PICK a : log' = [log EXCEPT ![n] = a] /\ a \in Seq(Intents) /\ Distinct(a)
  BY CrashLog
<1>3. /\ log \in [Nodes -> Seq(Intents)] /\ casts \in [Nodes -> Seq(Intents)]
      /\ faults \in 0..MaxFaults /\ \A m \in Nodes : Distinct(log[m])
  BY DEF GossipInv, Stores
<1>4. /\ log' \in [Nodes -> Seq(Intents)] /\ log'[n] = a
      /\ \A m \in Nodes \ {n} : log'[m] = log[m]
  BY <1>2, <1>3
<1>5. /\ casts' \in [Nodes -> Seq(Intents)]
      /\ \A m \in Nodes \ {n} : casts'[m] = casts[m]
  BY <1>1, <1>3
<1>6. \A m \in Nodes : Distinct(log'[m])
  BY <1>2, <1>3, <1>4
<1>7. faults' \in 0..MaxFaults
  BY <1>1, <1>3, GossipAssumption
<1>8. Stores(log', casts', expired', untold')
  BY <1>1, <1>4, <1>5, <1>6 DEF GossipInv, Stores
<1>9. ASSUME NEW c \in conns
      PROVE  /\ f[c].from = c.from /\ f[c].to = c.to /\ f[c].held \subseteq c.held
             /\ f[c].held # {} => Kept(f[c], log', casts', expired', untold')
  <2>1. Kept(c, log, casts, expired, untold) /\ Connection(c)
    BY DEF GossipInv, Kept
  <2>2. Ends(c) \subseteq Nodes /\ (c.live => c.held = Ends(c))
    BY <2>1, PeerIs DEF Ends, Connection
  <2>3. CASE n \in c.held
    <3> DEFINE b == Cut(c)
               d == Left(b, n)
    <3>1. f[c] = d
      BY <2>3
    <3>2. Connection(b) /\ ~b.live /\ b.from = c.from /\ b.to = c.to /\ b.held = c.held
      BY <2>1, CutIs
    <3> HIDE DEF b, f
    <3>3. /\ d.held # {} => Connection(d)
          /\ ~d.live /\ d.from = b.from /\ d.to = b.to /\ d.held = b.held \ {n}
      BY <3>2, LeftIs
    <3> HIDE DEF d
    <3> QED
      BY <3>1, <3>2, <3>3 DEF Kept
  <2>4. CASE n \notin c.held
    <3>1. f[c] = c
      BY <2>4
    <3> DEFINE L == log'
               W == casts'
    <3>2. ~c.live \/ n \notin Ends(c)
      BY <2>2, <2>4
    <3>3. \A m \in Nodes \ {n} : L[m] = log[m] /\ W[m] = casts[m]
      BY <1>4, <1>5
    <3> HIDE DEF L, W, f
    <3>4. /\ Kept(c, log, casts, expired, untold) /\ Ends(c) \subseteq Nodes
          /\ log \in [Nodes -> Seq(Intents)]
      BY <1>3, <2>1, <2>2
    <3>5. Kept(c, L, W, expired, untold)
      BY <3>2, <3>3, <3>4, KeptElsewhere
    <3> QED
      BY <1>1, <3>1, <3>5 DEF L, W
  <2> QED
    BY <2>3, <2>4
<1> HIDE DEF f
<1>10. \A d \in conns' : Kept(d, log', casts', expired', untold')
  BY <1>1, <1>9
<1>11. Single(conns')
  <2>1. Single(conns) /\ \A d \in conns' : \E c \in conns : d = f[c]
    BY <1>1 DEF GossipInv
  <2>2. \A c \in conns : f[c].from = c.from /\ f[c].to = c.to /\ f[c].held \subseteq c.held
    BY <1>9
  <2> QED
    BY <2>1, <2>2, SingleImage
<1> QED
  BY <1>7, <1>8, <1>10, <1>11 DEF GossipInv

-----------------------------------------------------------------------------
(* The specification.                                                       *)

LEMMA InitInv ==
  ASSUME Init
  PROVE  GossipInv
<1>1. <<>> \in Seq(Intents) /\ Len(<<>>) = 0 /\ 0 \in 0..MaxFaults
  BY GossipAssumption
<1>2. Distinct(<<>>)
  BY <1>1 DEF Distinct
<1> QED
  BY <1>1, <1>2 DEF Init, GossipInv, Stores, Single

LEMMA NextInv ==
  ASSUME GossipInv, [Next]_vars
  PROVE  GossipInv'
<1>1. ASSUME NEW n \in Nodes, NEW m \in Nodes, Dial(n, m) PROVE GossipInv'
  BY <1>1, DialInv
<1>2. ASSUME NEW c \in conns, Break(c) PROVE GossipInv'
  BY <1>2, BreakInv
<1>3. ASSUME NEW n \in Nodes, NEW c \in conns, Disconnect(n, c) PROVE GossipInv'
  BY <1>3, DisconnectInv
<1>4. ASSUME NEW n \in Nodes, NEW c \in conns, Handle(n, c) PROVE GossipInv'
  <2>1. CASE HandleVersion(n, c)
    BY <2>1, VersionInv
  <2>2. CASE HandleVerack(n, c)
    BY <2>2, VerackInv
  <2>3. CASE HandleSyncRequest(n, c)
    BY <2>3, RequestInv
  <2>4. CASE HandleSyncResponse(n, c)
    BY <2>4, ResponseInv
  <2>5. CASE HandleIntent(n, c)
    BY <2>5, IntentInv
  <2> QED
    BY <1>4, <2>1, <2>2, <2>3, <2>4, <2>5 DEF Handle
<1>5. ASSUME NEW n \in Nodes, Broadcast(n) PROVE GossipInv'
  BY <1>5, BroadcastInv
<1>6. ASSUME NEW n \in Nodes, Crash(n) PROVE GossipInv'
  BY <1>6, CrashInv
<1>7. ASSUME NEW i \in Intents, Publish(i) PROVE GossipInv'
  BY <1>7, PublishInv
<1>8. ASSUME NEW i \in Intents, Expire(i) PROVE GossipInv'
  BY <1>8, ExpireInv
<1>9. CASE UNCHANGED vars
  BY <1>9 DEF vars, GossipInv
<1> QED
  BY <1>1, <1>2, <1>3, <1>4, <1>5, <1>6, <1>7, <1>8, <1>9 DEF Next

LEMMA InvIsTyped ==
  ASSUME GossipInv
  PROVE  GossipTypeOK
<1>1. /\ log \in [Nodes -> Seq(Intents)] /\ casts \in [Nodes -> Seq(Intents)]
      /\ untold \in [Nodes -> SUBSET Intents] /\ expired \subseteq MayExpire /\ faults \in 0..MaxFaults
      /\ \A n \in Nodes : Distinct(log[n])
  BY DEF GossipInv, Stores
<1>2. \A n \in Nodes : \A i, j \in 1..Len(log[n]) :
         Order[log[n][i]] = Order[log[n][j]] \/ Nonce[log[n][i]] = Nonce[log[n][j]] => i = j
  BY <1>1 DEF Distinct
<1>3. \A c \in conns :
         /\ c.to \in Seeds[c.from] /\ c.live \in BOOLEAN
         /\ c.held \in (SUBSET Ends(c)) \ {{}} /\ c.ready \subseteq c.held
         /\ c.in \in [Ends(c) -> Seq(Messages)]
         /\ ~c.live => \A n \in Ends(c) : c.in[n] = <<>>
  BY DEF GossipInv, Kept, Connection
<1>4. ASSUME NEW n \in Nodes, NEW m \in Nodes
      PROVE  Cardinality({c \in HeldBy(n) : c.from = n /\ c.to = m}) <= 1
  <2> DEFINE S == {c \in HeldBy(n) : c.from = n /\ c.to = m}
  <2>1. \A c, d \in S : c = d
    <3>1. \A c \in S : c \in conns /\ c.from = n /\ c.to = m /\ c.from \in c.held
      BY DEF HeldBy
    <3>2. Single(conns)
      BY DEF GossipInv
    <3> HIDE DEF S
    <3> QED
      BY <3>1, <3>2 DEF Single
  <2> HIDE DEF S
  <2>2. CASE S = {}
    <3>1. Cardinality(S) = 0
      BY <2>2, FS_EmptySet
    <3> QED
      BY <3>1 DEF S
  <2>3. CASE S # {}
    <3>1. \E c : S = {c}
      BY <2>1, <2>3
    <3>2. Cardinality(S) = 1
      BY <3>1, FS_Singleton
    <3> QED
      BY <3>2 DEF S
  <2> QED
    BY <2>2, <2>3
<1> QED
  BY <1>1, <1>2, <1>3, <1>4 DEF GossipTypeOK

LEMMA InvIsSynced ==
  ASSUME GossipInv
  PROVE  QuietMeansSynced
<1> SUFFICES ASSUME NEW c \in conns, Quiet(c), NEW n \in Ends(c), NEW k \in 1..Len(log[n]),
                    \A j \in 1..k : log[n][j] \notin expired, k <= Batch, log[n][k] \notin untold[n]
             PROVE  Taken(log[Peer(c, n)], log[n][k])
  BY DEF QuietMeansSynced
<1> DEFINE m == Peer(c, n)
<1>1. Connection(c) /\ c.live /\ Linked(c, log, casts, expired, untold)
  BY DEF GossipInv, Kept, Quiet
<1>2. m \in Ends(c)
  BY <1>1, PeerIs
<1>3. c.in[n] = <<>> /\ c.in[m] = <<>> /\ casts[n] = <<>>
  BY <1>2 DEF Quiet
<1>4. Owes(c.in[n], c.in[m], n, c.ready, log[n], log[m], casts[n], expired, untold[n])
  BY <1>1 DEF Linked, Direct
<1>5. Due(log[n], k, expired, untold[n])
  BY DEF Due
<1>6. Met(c.in[n], c.in[m], n, c.ready, log[n], log[m], casts[n], k)
  BY <1>4, <1>5 DEF Owes
<1>7. \A i \in 1..Len(<<>>) : FALSE
  OBVIOUS
<1> HIDE DEF m
<1>8. /\ ~Holds(c.in[m], "VERSION") /\ ~Holds(c.in[n], "SYNC_REQUEST")
      /\ ~Tells(c.in[m], log[n], k) /\ ~Within(log[n][k], casts[n])
  BY <1>3, <1>7 DEF Holds, Tells, Within
<1> QED
  BY <1>6, <1>8 DEF Met, m

THEOREM GossipKeepsInv == Spec => []GossipInv
<1>1. Init => GossipInv
  BY InitInv
<1>2. GossipInv /\ [Next]_vars => GossipInv'
  BY NextInv
<1> QED
  BY <1>1, <1>2, PTL DEF Spec

(* The logs of the nodes hold intents of distinct orders and nonces, the    *)
(* connections are well formed, and no node has two connections of its own  *)
(* to one peer: _connections (p2p_real/node.py) and the swap_sync_log of    *)
(* swap_sync.py, whatever joins, breaks, crashes or expires.                *)
THEOREM GossipIsTyped == Spec => []GossipTypeOK
<1>1. GossipInv => GossipTypeOK
  BY InvIsTyped
<1> QED
  BY <1>1, GossipKeepsInv, PTL

(* Two nodes that have done their handshake and have nothing under way know *)
(* the same orders, but for what has expired, what is behind the first      *)
(* SYNC_BATCH_SIZE entries, and what came from a batch that was refused:    *)
(* the VERACK comes before the request for the log, so that an intent is    *)
(* in the answer or among the broadcasts that follow.                       *)
THEOREM GossipQuietIsSynced == Spec => []QuietMeansSynced
<1>1. GossipInv => QuietMeansSynced
  BY InvIsSynced
<1> QED
  BY <1>1, GossipKeepsInv, PTL
=============================================================================

------------------------- MODULE MemoryStoreProofs -------------------------
(***************************************************************************)
(* Proofs about MemoryStore for every set of processes, keys and values    *)
(* and every size of the cache, the segments and the snapshot interval.    *)
(***************************************************************************)
EXTENDS MemoryStore, FiniteSetTheorems, SequenceTheorems, WellFoundedInduction, TLAPS

-----------------------------------------------------------------------------
(* What the operators on maps and lines return.                            *)

(* A line settles keys only, and each to a value or to its absence.         *)
LEMMA LineType ==
  ASSUME NEW e \in Lines
  PROVE  DOMAIN e \subseteq Keys /\ \A k \in DOMAIN e : e[k] \in Value
<1>1. CASE e = NoEffect
  BY <1>1 DEF NoEffect
<1>2. CASE e \in Map
  BY <1>2 DEF Map
<1>3. ASSUME NEW k \in Keys, NEW v \in Vals, e = PutEffect(k, v)
      PROVE  DOMAIN e \subseteq Keys /\ \A x \in DOMAIN e : e[x] \in Value
  BY <1>3 DEF PutEffect, Value
<1>4. ASSUME NEW k \in Keys, e = DeleteEffect(k)
      PROVE  DOMAIN e \subseteq Keys /\ \A x \in DOMAIN e : e[x] \in Value
  BY <1>4 DEF DeleteEffect, PutEffect, Value
<1> QED
  BY <1>1, <1>2, <1>3, <1>4 DEF Lines, Effects, Writes

(* Overlaying a map with a line or a cache gives a map.                     *)
LEMMA OverlayType ==
  ASSUME NEW m \in Map, NEW f, \A k \in DOMAIN f : f[k] \in Value
  PROVE  Overlay(f, m) \in Map
BY DEF Overlay, Map

(* A cache maps some keys to values.                                        *)
LEMMA CacheType ==
  ASSUME NEW c
  PROVE  c \in Caches <=> /\ c = [k \in DOMAIN c |-> c[k]]
                          /\ DOMAIN c \subseteq Keys
                          /\ \A k \in DOMAIN c : c[k] \in Vals
<1>1. ASSUME c \in Caches
      PROVE  /\ c = [k \in DOMAIN c |-> c[k]]
             /\ DOMAIN c \subseteq Keys
             /\ \A k \in DOMAIN c : c[k] \in Vals
  <2>1. PICK D \in SUBSET Keys : c \in [D -> Vals]
    BY <1>1 DEF Caches
  <2> QED
    BY <2>1
<1>2. ASSUME c = [k \in DOMAIN c |-> c[k]], DOMAIN c \subseteq Keys,
             \A k \in DOMAIN c : c[k] \in Vals
      PROVE  c \in Caches
  <2>1. c \in [DOMAIN c -> Vals]
    BY <1>2
  <2> QED
    BY <1>2, <2>1 DEF Caches
<1> QED
  BY <1>1, <1>2

(* What is present in a line or a map can be cached.                        *)
LEMMA PresentType ==
  ASSUME NEW f, NEW D, DOMAIN f \subseteq Keys, \A k \in DOMAIN f : f[k] \in Value
  PROVE  Present(f, D) \in Caches
<1> DEFINE E == {x \in D \cap DOMAIN f : f[x] # Absent}
<1>1. E \in SUBSET Keys /\ \A k \in E : f[k] \in Vals
  BY DEF Value
<1>2. [k \in E |-> f[k]] \in [E -> Vals]
  BY <1>1
<1>3. Present(f, D) = [k \in E |-> f[k]]
  BY DEF Present
<1> QED
  BY <1>1, <1>2, <1>3 DEF Caches

(* Forgetting keys leaves a cache that is not larger.                       *)
LEMMA WithoutType ==
  ASSUME NEW c \in Caches, NEW D
  PROVE  /\ Without(c, D) \in Caches
         /\ Cardinality(DOMAIN Without(c, D)) <= Cardinality(DOMAIN c)
<1>1. DOMAIN c \subseteq Keys /\ \A k \in DOMAIN c : c[k] \in Vals
  BY CacheType
<1>2. DOMAIN Without(c, D) = DOMAIN c \ D
  BY DEF Without
<1>3. Without(c, D) \in [DOMAIN c \ D -> Vals]
  BY <1>1 DEF Without
<1>4. IsFiniteSet(DOMAIN c)
  BY <1>1, FS_Subset, MemoryStoreAssumption DEF MemoryStoreAssumption
<1>5. Cardinality(DOMAIN c \ D) <= Cardinality(DOMAIN c)
  BY <1>4, FS_Subset, DOMAIN c \ D \in SUBSET DOMAIN c
<1> QED
  BY <1>1, <1>2, <1>3, <1>5 DEF Caches

(* Putting entries into a cache gives a cache within its bound that holds   *)
(* nothing but old and new entries.                                         *)
LEMMA CachePutType ==
  ASSUME NEW c \in Caches, NEW new \in Caches, NEW d \in CachePut(c, new)
  PROVE  /\ d \in Caches
         /\ Cardinality(DOMAIN d) <= CACHE_SIZE
         /\ DOMAIN d \subseteq DOMAIN c \cup DOMAIN new
<1> DEFINE all == [k \in DOMAIN c \cup DOMAIN new |->
                      IF k \in DOMAIN new THEN new[k] ELSE c[k]]
<1>1. DOMAIN c \subseteq Keys /\ \A k \in DOMAIN c : c[k] \in Vals
  BY CacheType
<1>2. DOMAIN new \subseteq Keys /\ \A k \in DOMAIN new : new[k] \in Vals
  BY CacheType
<1>3. DOMAIN all = DOMAIN c \cup DOMAIN new /\ \A k \in DOMAIN all : all[k] \in Vals
  BY <1>1, <1>2
<1>4. PICK D \in SUBSET DOMAIN all :
        /\ d = [k \in D |-> all[k]]
        /\ IF Cardinality(DOMAIN all) <= CACHE_SIZE
           THEN D = DOMAIN all ELSE Cardinality(D) = CACHE_SIZE
  BY DEF CachePut
<1> HIDE DEF all
<1>5. d \in [D -> Vals] /\ DOMAIN d = D
  BY <1>3, <1>4
<1>6. Cardinality(D) <= CACHE_SIZE
  <2>1. CASE Cardinality(DOMAIN all) <= CACHE_SIZE
    BY <2>1, <1>4
  <2>2. CASE ~(Cardinality(DOMAIN all) <= CACHE_SIZE)
    BY <2>2, <1>4, MemoryStoreAssumption DEF MemoryStoreAssumption
  <2> QED
    BY <2>1, <2>2
<1>7. D \in SUBSET Keys
  BY <1>1, <1>2, <1>3, <1>4
<1> QED
  BY <1>3, <1>4, <1>5, <1>6, <1>7 DEF Caches

-----------------------------------------------------------------------------
(* The replay.                                                             *)

(* A bounded set of natural numbers that is not empty has a greatest one.   *)
LEMMA Greatest ==
  ASSUME NEW S \in SUBSET Nat, S # {}, NEW n \in Nat, \A x \in S : x <= n
  PROVE  \E x \in S : \A y \in S : y <= x
<1> DEFINE Up(x) == {y \in S : x <= y}
           T == {Up(x) : x \in S}
<1>1. IsFiniteSet(S)
  BY FS_BoundedSetOfNaturals
<1>2. T \subseteq FiniteSubsetsOf(S) /\ T # {}
  <2>1. \A x \in S : Up(x) \in SUBSET S /\ IsFiniteSet(Up(x))
    BY <1>1, FS_Subset
  <2> QED
    BY <2>1 DEF FiniteSubsetsOf
<1>3. PICK U \in T : \A V \in T : ~(<<V, U>> \in StrictSubsetOrdering(S))
  <2> HIDE DEF T
  <2> QED
    BY <1>2, FS_StrictSubsetOrderingWellFounded, WFMin
<1>4. PICK x \in S : U = Up(x)
  OBVIOUS
<1>5. ASSUME NEW y \in S PROVE y <= x
  <2> SUFFICES ASSUME ~(y <= x) PROVE FALSE
    OBVIOUS
  <2>0. x \in Nat /\ y \in Nat /\ S \subseteq Nat
    OBVIOUS
  <2>5. x < y
    BY <2>0
  <2>6. \A z \in S : y <= z => x <= z
    BY <2>0, <2>5
  <2>1. Up(y) \subseteq Up(x) /\ x \in Up(x) /\ x \notin Up(y)
    <3> HIDE DEF T
    <3>1. Up(y) \subseteq Up(x)
      BY <2>6
    <3>2. x \in Up(x)
      BY <2>0
    <3>3. x \notin Up(y)
      BY <2>0, <2>5
    <3> QED
      BY <3>1, <3>2, <3>3
  <2>2. Up(y) \in SUBSET S /\ Up(x) \in SUBSET S /\ Up(y) \in T
    OBVIOUS
  <2> HIDE DEF Up, T
  <2>3. <<Up(y), U>> \in StrictSubsetOrdering(S)
    BY <1>4, <2>1, <2>2 DEF StrictSubsetOrdering
  <2> QED
    BY <1>3, <2>2, <2>3
<1> QED
  BY <1>5

(* The positions of a line that settles k, spelled out.                     *)
LEMMA SettlingPositions ==
  ASSUME TypeOK, NEW k
  PROVE  \A q : q \in Settling(k) <=>
            \E s \in Segments : \E i \in 1..Len(log[s]) :
                q = <<s, i>> /\ k \in DOMAIN log[s][i]
<1>1. \A s \in Segments : DOMAIN log[s] = 1..Len(log[s])
  BY DEF TypeOK
<1> QED
  BY <1>1 DEF Settling, Positions, LineAt

(* If some line settles k, one of them comes last in the replay.            *)
LEMMA LastLine ==
  ASSUME TypeOK, NEW k, Settling(k) # {}
  PROVE  \E q \in Settling(k) : \A r \in Settling(k) : Before(r, q)
<1> DEFINE S == {s \in Segments : \E i \in 1..Len(log[s]) : k \in DOMAIN log[s][i]}
<1>1. S \in SUBSET Nat /\ \A s \in S : s <= MaxSegments
  BY MemoryStoreAssumption DEF Segments, MemoryStoreAssumption
<1>2. S # {}
  BY SettlingPositions
<1>3. PICK s \in S : \A t \in S : t <= s
  <2> HIDE DEF S
  <2> QED
    BY <1>1, <1>2, Greatest, MemoryStoreAssumption DEF MemoryStoreAssumption
<1> DEFINE I == {i \in 1..Len(log[s]) : k \in DOMAIN log[s][i]}
<1>4. Len(log[s]) \in Nat
  BY <1>3 DEF TypeOK
<1>5. I \in SUBSET Nat /\ I # {} /\ \A i \in I : i <= Len(log[s])
  BY <1>3, <1>4
<1>6. PICK i \in I : \A j \in I : j <= i
  <2> HIDE DEF I
  <2> QED
    BY <1>4, <1>5, Greatest
<1>7. <<s, i>> \in Settling(k)
  BY <1>3, <1>6, SettlingPositions
<1>8. \A r \in Settling(k) : Before(r, <<s, i>>)
  <2> TAKE r \in Settling(k)
  <2>1. PICK t \in Segments :
            \E j \in 1..Len(log[t]) : r = <<t, j>> /\ k \in DOMAIN log[t][j]
    BY SettlingPositions
  <2>4. PICK j \in 1..Len(log[t]) : r = <<t, j>> /\ k \in DOMAIN log[t][j]
    BY <2>1
  <2>2. t <= s /\ (t = s => j <= i)
    BY <1>3, <1>6, <2>4
  <2>3. t \in Nat /\ s \in Nat
    BY <1>1, <1>3 DEF Segments
  <2> QED
    BY <2>4, <2>2, <2>3 DEF Before
<1> QED
  BY <1>7, <1>8

(* A replay gives a map, and the base shows through exactly where no line   *)
(* settles the key.                                                         *)
LEMMA ReplayType ==
  ASSUME TypeOK, NEW base \in Map
  PROVE  Replay(base) \in Map
<1> SUFFICES ASSUME NEW k \in Keys PROVE Replay(base)[k] \in Value
  BY DEF Replay, Map
<1>1. CASE Settling(k) = {}
  BY <1>1 DEF Replay, Map
<1>2. CASE Settling(k) # {}
  <2> DEFINE q == CHOOSE x \in Settling(k) : \A r \in Settling(k) : Before(r, x)
  <2>1. q \in Settling(k)
    BY <1>2, LastLine
  <2>2. Replay(base)[k] = LineAt(q)[k]
    BY <1>2 DEF Replay
  <2> HIDE DEF q
  <2>3. PICK s \in Segments :
            \E i \in 1..Len(log[s]) : q = <<s, i>> /\ k \in DOMAIN log[s][i]
    BY <2>1, SettlingPositions
  <2>5. PICK i \in 1..Len(log[s]) : q = <<s, i>> /\ k \in DOMAIN log[s][i]
    BY <2>3
  <2>4. log[s][i] \in Lines
    BY <2>5, ElementOfSeq DEF TypeOK
  <2> QED
    BY <2>2, <2>5, <2>4, LineType DEF LineAt
<1> QED
  BY <1>1, <1>2

LEMMA ReplayOfBase ==
  ASSUME NEW b \in Map, NEW c \in Map,
         \A k \in Keys : Settling(k) = {} => b[k] = c[k]
  PROVE  Replay(b) = Replay(c)
BY DEF Replay

-----------------------------------------------------------------------------
(* Type correctness.                                                       *)

(* The records the actions build are operations and reads.                  *)
LEMMA RecordTypes ==
  /\ EmptyMap \in Map
  /\ Idle \in Operation
  /\ \A e \in Lines : /\ Writing("logged", e) \in Operation
                      /\ Writing("evicted", e) \in Operation
  /\ \A m \in Map, b \in BOOLEAN : /\ Snapshotting("merge", m, b) \in Operation
                                   /\ Snapshotting("install", m, b) \in Operation
  /\ \A S \in SUBSET Segments : Removing(S) \in Operation
  /\ NoRead \in ReadOperation
  /\ \A K \in SUBSET Keys, m \in Map : /\ Reading("replay", K, m) \in ReadOperation
                                       /\ Reading("return", K, m) \in ReadOperation
<1>1. EmptyMap \in Map
  BY DEF EmptyMap, Map, Value
<1>2. NoEffect \in Lines
  BY DEF Lines
<1> QED
  BY <1>1, <1>2 DEF Idle, Writing, Snapshotting, Removing, NoRead, Reading,
                    Operation, ReadOperation

LEMMA LookingUpType ==
  ASSUME TypeOK, NEW e \in Lines
  PROVE  LookingUp(e) \in Operation
BY DEF LookingUp, Operation, TypeOK

(* Appending a line keeps the log a log.                                    *)
LEMMA AppendType ==
  ASSUME TypeOK, NEW p \in Procs, NEW line \in Lines, AppendLine(p, line)
  PROVE  /\ log' \in [Segments -> Seq(Lines)]
         /\ segment' \in [Procs -> 0..MaxSegments]
<1>1. PICK s \in Segments : /\ log' = [log EXCEPT ![s] = Append(@, line)]
                            /\ segment' = [segment EXCEPT ![p] = s]
  BY DEF AppendLine
<1>2. Append(log[s], line) \in Seq(Lines)
  BY DEF TypeOK
<1>3. s \in 0..MaxSegments
  BY MemoryStoreAssumption DEF Segments, MemoryStoreAssumption
<1> QED
  BY <1>1, <1>2, <1>3 DEF TypeOK

(* Counting a write keeps the counter in its range.                         *)
LEMMA CountType ==
  ASSUME TypeOK, NEW p \in Procs, CountWrite(p)
  PROVE  /\ writeCount' \in [Procs -> 0..SNAPSHOT_INTERVAL_WRITES]
         /\ op' \in [Procs -> Operation]
<1> DEFINE n == IF writeCount[p] = SNAPSHOT_INTERVAL_WRITES
                THEN writeCount[p] ELSE writeCount[p] + 1
<1>1. n \in 0..SNAPSHOT_INTERVAL_WRITES
  BY MemoryStoreAssumption DEF TypeOK, MemoryStoreAssumption
<1>2. writeCount' = [writeCount EXCEPT ![p] = n]
  BY DEF CountWrite
<1>3. \/ op' = [op EXCEPT ![p] = Idle]
      \/ op' = [op EXCEPT ![p] = Snapshotting("merge", snapshot, FALSE)]
  BY DEF CountWrite
<1>4. Snapshotting("merge", snapshot, FALSE) \in Operation /\ Idle \in Operation
  BY RecordTypes DEF TypeOK
<1> HIDE DEF n
<1> QED
  BY <1>1, <1>2, <1>3, <1>4 DEF TypeOK

(* Replacing one process's cache by a cache within the bound.               *)
LEMMA CacheStepType ==
  ASSUME TypeOK, NEW p \in Procs, NEW c \in Caches,
         Cardinality(DOMAIN c) <= CACHE_SIZE, cache' = [cache EXCEPT ![p] = c]
  PROVE  /\ cache' \in [Procs -> Caches]
         /\ \A r \in Procs : Cardinality(DOMAIN cache'[r]) <= CACHE_SIZE
BY DEF TypeOK

LEMMA NoEffectType == NoEffect \in Caches /\ Cardinality(DOMAIN NoEffect) = 0
<1>1. DOMAIN NoEffect = {}
  BY DEF NoEffect
<1>2. NoEffect \in [{} -> Vals]
  BY DEF NoEffect
<1> QED
  BY <1>1, <1>2, FS_EmptySet DEF Caches

LEMMA InitType == Init => TypeOK
<1> SUFFICES ASSUME Init PROVE TypeOK
  OBVIOUS
<1>1. snapshot \in Map
  BY RecordTypes DEF Init
<1>2. log \in [Segments -> Seq(Lines)]
  BY DEF Init
<1>3. cache \in [Procs -> Caches]
  BY NoEffectType DEF Init
<1>4. \A p \in Procs : Cardinality(DOMAIN cache[p]) <= CACHE_SIZE
  BY NoEffectType, MemoryStoreAssumption DEF Init, MemoryStoreAssumption
<1>5. writeCount \in [Procs -> 0..SNAPSHOT_INTERVAL_WRITES]
  BY MemoryStoreAssumption DEF Init, MemoryStoreAssumption
<1>6. segment \in [Procs -> 0..MaxSegments]
  BY MemoryStoreAssumption DEF Init, MemoryStoreAssumption
<1>7. op \in [Procs -> Operation] /\ read \in [Procs -> ReadOperation]
  BY RecordTypes DEF Init
<1> QED
  BY <1>1, <1>2, <1>3, <1>4, <1>5, <1>6, <1>7 DEF TypeOK

(* Each step keeps the types: the steps that write to the log ...           *)
LEMMA WriteType ==
  ASSUME TypeOK, NEW p \in Procs, NEW e \in Lines, Write(p, e, e)
  PROVE  TypeOK'
<1>1. /\ log' \in [Segments -> Seq(Lines)]
      /\ segment' \in [Procs -> 0..MaxSegments]
  BY AppendType DEF Write
<1>2. op' \in [Procs -> Operation]
  BY RecordTypes DEF Write, TypeOK
<1> QED
  BY <1>1, <1>2 DEF Write, TypeOK

LEMMA LogDeleteType ==
  ASSUME TypeOK, NEW p \in Procs, LogDelete(p, op[p].entry)
  PROVE  TypeOK'
<1>1. op[p].entry \in Lines
  BY DEF TypeOK, Operation
<1>2. /\ log' \in [Segments -> Seq(Lines)]
      /\ segment' \in [Procs -> 0..MaxSegments]
  BY <1>1, AppendType DEF LogDelete
<1>3. /\ writeCount' \in [Procs -> 0..SNAPSHOT_INTERVAL_WRITES]
      /\ op' \in [Procs -> Operation]
  BY CountType DEF LogDelete
<1> QED
  BY <1>2, <1>3 DEF LogDelete, TypeOK

(* ... the steps that change the cache ...                                  *)
LEMMA WriteToCacheType ==
  ASSUME TypeOK, NEW p \in Procs, WriteToCache(p)
  PROVE  /\ TypeOK'
         /\ DOMAIN cache'[p] \subseteq DOMAIN cache[p] \cup DOMAIN op[p].entry
<1> DEFINE e == op[p].entry
           kept == Without(cache[p], DOMAIN e)
           new == Present(e, DOMAIN e)
<1>1. e \in Lines /\ cache[p] \in Caches
  BY DEF TypeOK, Operation
<1>2. kept \in Caches /\ new \in Caches
  BY <1>1, LineType, PresentType, WithoutType
<1>3. PICK c \in CachePut(kept, new) : cache' = [cache EXCEPT ![p] = c]
  BY DEF WriteToCache
<1>4. DOMAIN kept \subseteq DOMAIN cache[p] /\ DOMAIN new \subseteq DOMAIN e
  BY DEF Without, Present
<1> HIDE DEF kept, new, e
<1>5. /\ c \in Caches /\ Cardinality(DOMAIN c) <= CACHE_SIZE
      /\ DOMAIN c \subseteq DOMAIN kept \cup DOMAIN new
  BY <1>2, <1>3, CachePutType
<1>6. /\ cache' \in [Procs -> Caches]
      /\ \A r \in Procs : Cardinality(DOMAIN cache'[r]) <= CACHE_SIZE
  BY <1>3, <1>5, CacheStepType
<1>7. /\ writeCount' \in [Procs -> 0..SNAPSHOT_INTERVAL_WRITES]
      /\ op' \in [Procs -> Operation]
  BY CountType DEF WriteToCache
<1>8. TypeOK'
  BY <1>6, <1>7 DEF WriteToCache, TypeOK, disk
<1>9. cache'[p] = c
  BY <1>3 DEF TypeOK
<1> QED
  BY <1>4, <1>5, <1>8, <1>9 DEF e

LEMMA DeleteFromCacheType ==
  ASSUME TypeOK, NEW p \in Procs, DeleteFromCache(p)
  PROVE  TypeOK'
<1> DEFINE c == Without(cache[p], DOMAIN op[p].entry)
<1>1. op[p].entry \in Lines /\ cache[p] \in Caches
  BY DEF TypeOK, Operation
<1>2. /\ c \in Caches
      /\ Cardinality(DOMAIN c) <= Cardinality(DOMAIN cache[p])
  BY <1>1, WithoutType
<1>3. IsFiniteSet(DOMAIN cache[p]) /\ IsFiniteSet(DOMAIN c)
  <2>1. DOMAIN cache[p] \subseteq Keys /\ DOMAIN c \subseteq Keys
    BY <1>1, <1>2, CacheType
  <2> QED
    BY <2>1, FS_Subset, MemoryStoreAssumption DEF MemoryStoreAssumption
<1>4. Cardinality(DOMAIN c) <= CACHE_SIZE
  <2>1. Cardinality(DOMAIN c) \in Nat /\ Cardinality(DOMAIN cache[p]) \in Nat
    BY <1>3, FS_CardinalityType
  <2>2. Cardinality(DOMAIN cache[p]) <= CACHE_SIZE
    BY DEF TypeOK
  <2> HIDE DEF c
  <2> QED
    BY <1>2, <2>1, <2>2, MemoryStoreAssumption DEF MemoryStoreAssumption
<1>5. cache' = [cache EXCEPT ![p] = c]
  BY DEF DeleteFromCache
<1> HIDE DEF c
<1>6. /\ cache' \in [Procs -> Caches]
      /\ \A r \in Procs : Cardinality(DOMAIN cache'[r]) <= CACHE_SIZE
  BY <1>2, <1>4, <1>5, CacheStepType
<1>7. op' \in [Procs -> Operation]
  BY <1>1, RecordTypes DEF DeleteFromCache, TypeOK
<1> QED
  BY <1>6, <1>7 DEF DeleteFromCache, TypeOK, disk

LEMMA EndReadType ==
  ASSUME TypeOK, NEW p \in Procs, EndRead(p)
  PROVE  /\ TypeOK'
         /\ DOMAIN cache'[p] \subseteq DOMAIN cache[p]
                \cup {k \in Keys : read[p].data[k] # Absent}
<1> DEFINE new == Present(read[p].data, read[p].keys)
<1>1. cache[p] \in Caches /\ read[p].data \in Map
  BY DEF TypeOK, ReadOperation
<1>2. new \in Caches
  BY <1>1, PresentType DEF Map
<1>3. PICK c \in CachePut(cache[p], new) : cache' = [cache EXCEPT ![p] = c]
  BY DEF EndRead
<1>4. DOMAIN new \subseteq {k \in Keys : read[p].data[k] # Absent}
  BY <1>1 DEF Present, Map
<1> HIDE DEF new
<1>5. /\ c \in Caches /\ Cardinality(DOMAIN c) <= CACHE_SIZE
      /\ DOMAIN c \subseteq DOMAIN cache[p] \cup DOMAIN new
  BY <1>1, <1>2, <1>3, CachePutType
<1>6. /\ cache' \in [Procs -> Caches]
      /\ \A r \in Procs : Cardinality(DOMAIN cache'[r]) <= CACHE_SIZE
  BY <1>3, <1>5, CacheStepType
<1>7. read' \in [Procs -> ReadOperation]
  BY RecordTypes DEF EndRead, TypeOK
<1>8. TypeOK'
  BY <1>6, <1>7 DEF EndRead, TypeOK, disk
<1>9. cache'[p] = c
  BY <1>3 DEF TypeOK
<1> QED
  BY <1>4, <1>5, <1>8, <1>9

(* ... a crash ...                                                          *)
LEMMA CrashType ==
  ASSUME TypeOK, NEW p \in Procs, Crash(p)
  PROVE  TypeOK'
<1>1. /\ cache' \in [Procs -> Caches]
      /\ \A r \in Procs : Cardinality(DOMAIN cache'[r]) <= CACHE_SIZE
  <2>1. Cardinality(DOMAIN NoEffect) <= CACHE_SIZE
    BY NoEffectType, MemoryStoreAssumption DEF MemoryStoreAssumption
  <2> QED
    BY <2>1, NoEffectType, CacheStepType DEF Crash
<1>2. /\ writeCount' \in [Procs -> 0..SNAPSHOT_INTERVAL_WRITES]
      /\ segment' \in [Procs -> 0..MaxSegments]
  BY MemoryStoreAssumption DEF Crash, TypeOK, MemoryStoreAssumption
<1>3. op' \in [Procs -> Operation] /\ read' \in [Procs -> ReadOperation]
  BY RecordTypes DEF Crash, TypeOK
<1> QED
  BY <1>1, <1>2, <1>3 DEF Crash, TypeOK, disk

(* ... and the rest.                                                        *)
LEMMA OtherType ==
  ASSUME TypeOK, NEW p \in Procs
  PROVE  /\ (\E k \in Keys : Delete(p, k)) => TypeOK'
         /\ DeleteAbsent(p) => TypeOK'
         /\ ForceSnapshot(p) => TypeOK'
         /\ Compact(p) => TypeOK'
         /\ MergeCache(p) => TypeOK'
         /\ InstallSnapshot(p) => TypeOK'
         /\ SnapshotFails(p) => TypeOK'
         /\ (\E s \in Segments : RemoveSegment(p, s)) => TypeOK'
         /\ FinishCompact(p) => TypeOK'
         /\ (\E k \in Keys : StartRead(p, {k})) => TypeOK'
         /\ StartRead(p, Keys) => TypeOK'
         /\ ReplayRead(p) => TypeOK'
<1> USE DEF disk, memory
<1>0. /\ op[p].data \in Map /\ op[p].compact \in BOOLEAN
      /\ op[p].files \in SUBSET Segments
      /\ read[p].keys \in SUBSET Keys /\ read[p].data \in Map
      /\ snapshot \in Map /\ cache[p] \in Caches
  BY DEF TypeOK, Operation, ReadOperation
<1>1. ASSUME NEW k \in Keys, Delete(p, k) PROVE TypeOK'
  <2>1. DeleteEffect(k) \in Lines
    BY DEF Lines, Effects
  <2>2. op' \in [Procs -> Operation]
    BY <1>1, <2>1, LookingUpType DEF Delete, TypeOK
  <2> QED
    BY <1>1, <2>2 DEF Delete, TypeOK
<1>2. ASSUME DeleteAbsent(p) PROVE TypeOK'
  <2>1. op' \in [Procs -> Operation]
    BY <1>2, RecordTypes DEF DeleteAbsent, TypeOK
  <2> QED
    BY <1>2, <2>1 DEF DeleteAbsent, TypeOK
<1>3. ASSUME ForceSnapshot(p) PROVE TypeOK'
  <2>1. op' \in [Procs -> Operation]
    BY <1>0, <1>3, RecordTypes DEF ForceSnapshot, TypeOK
  <2> QED
    BY <1>3, <2>1 DEF ForceSnapshot, TypeOK
<1>4. ASSUME Compact(p) PROVE TypeOK'
  <2>1. op' \in [Procs -> Operation]
    BY <1>0, <1>4, RecordTypes DEF Compact, TypeOK
  <2> QED
    BY <1>4, <2>1 DEF Compact, TypeOK
<1>5. ASSUME MergeCache(p) PROVE TypeOK'
  <2>1. Replay(op[p].data) \in Map
    BY <1>0, ReplayType
  <2>2. \A k \in DOMAIN cache[p] : cache[p][k] \in Value
    BY <1>0, CacheType DEF Value
  <2>3. Overlay(cache[p], Replay(op[p].data)) \in Map
    BY <2>1, <2>2, OverlayType
  <2>4. op' \in [Procs -> Operation]
    BY <1>0, <1>5, <2>3, RecordTypes DEF MergeCache, TypeOK
  <2> QED
    BY <1>5, <2>4 DEF MergeCache, TypeOK
<1>6. ASSUME InstallSnapshot(p) PROVE TypeOK'
  <2>1. LogFiles \in SUBSET Segments
    BY DEF LogFiles
  <2>2. (IF op[p].compact THEN Removing(LogFiles) ELSE Idle) \in Operation
    BY <2>1, RecordTypes
  <2>3. op' \in [Procs -> Operation]
    BY <1>6, <2>2 DEF InstallSnapshot, TypeOK
  <2>4. writeCount' \in [Procs -> 0..SNAPSHOT_INTERVAL_WRITES]
    BY <1>6, MemoryStoreAssumption DEF InstallSnapshot, TypeOK, MemoryStoreAssumption
  <2> QED
    BY <1>0, <1>6, <2>3, <2>4 DEF InstallSnapshot, TypeOK
<1>7. ASSUME SnapshotFails(p) PROVE TypeOK'
  <2>1. op' \in [Procs -> Operation]
    BY <1>7, RecordTypes DEF SnapshotFails, TypeOK
  <2> QED
    BY <1>7, <2>1 DEF SnapshotFails, TypeOK
<1>8. ASSUME NEW s \in Segments, RemoveSegment(p, s) PROVE TypeOK'
  <2>1. op[p].files \ {s} \in SUBSET Segments
    BY <1>0
  <2>2. op' \in [Procs -> Operation]
    BY <1>8, <2>1, RecordTypes DEF RemoveSegment, TypeOK
  <2>3. log' \in [Segments -> Seq(Lines)]
    <3>1. CASE log' = [log EXCEPT ![s] = <<>>]
      BY <3>1, EmptySeq DEF TypeOK
    <3>2. CASE UNCHANGED log
      BY <3>2 DEF TypeOK
    <3> QED
      BY <1>8, <3>1, <3>2 DEF RemoveSegment
  <2> QED
    BY <1>8, <2>2, <2>3 DEF RemoveSegment, TypeOK
<1>9. ASSUME FinishCompact(p) PROVE TypeOK'
  <2>1. op' \in [Procs -> Operation]
    BY <1>9, RecordTypes DEF FinishCompact, TypeOK
  <2>2. segment' \in [Procs -> 0..MaxSegments]
    BY <1>9, MemoryStoreAssumption DEF FinishCompact, TypeOK, MemoryStoreAssumption
  <2> QED
    BY <1>9, <2>1, <2>2 DEF FinishCompact, TypeOK
<1>10. ASSUME NEW K \in SUBSET Keys, StartRead(p, K) PROVE TypeOK'
  <2>1. read' \in [Procs -> ReadOperation]
    BY <1>0, <1>10, RecordTypes DEF StartRead, TypeOK
  <2> QED
    BY <1>10, <2>1 DEF StartRead, TypeOK
<1>11. ASSUME ReplayRead(p) PROVE TypeOK'
  <2>1. Replay(read[p].data) \in Map
    BY <1>0, ReplayType
  <2>2. read' \in [Procs -> ReadOperation]
    BY <1>0, <1>11, <2>1, RecordTypes DEF ReplayRead, TypeOK
  <2> QED
    BY <1>11, <2>2 DEF ReplayRead, TypeOK
<1>12. \A k \in Keys : {k} \in SUBSET Keys
  OBVIOUS
<1> QED
  BY <1>1, <1>2, <1>3, <1>4, <1>5, <1>6, <1>7, <1>8, <1>9, <1>10, <1>11, <1>12

LEMMA StepType == TypeOK /\ [Next]_vars => TypeOK'
<1> SUFFICES ASSUME TypeOK, [Next]_vars PROVE TypeOK'
  OBVIOUS
<1>1. CASE UNCHANGED vars
  BY <1>1 DEF TypeOK, vars, disk, memory
<1>2. ASSUME NEW p \in Procs, NEW e \in Writes, Write(p, e, e) PROVE TypeOK'
  BY <1>2, WriteType DEF Lines, Effects
<1>3. ASSUME NEW p \in Procs, Internal(p) PROVE TypeOK'
  BY <1>3, WriteToCacheType, DeleteFromCacheType, EndReadType, CrashType, OtherType
     DEF Internal
<1> QED
  BY <1>1, <1>2, <1>3, LogDeleteType DEF Next

(* Whatever the interleaving, the snapshot and every pending copy of it are *)
(* maps, the log consists of lines, and no cache exceeds its bound.         *)
THEOREM MemoryTypeCorrect == Spec => []TypeOK
<1> QED
  BY InitType, StepType, PTL DEF Spec

-----------------------------------------------------------------------------
(* Without compact the log decides.                                        *)

\* The keys that some line of the log settles.
SettledKeys == {k \in Keys : Settling(k) # {}}

StoredIn(m, S) == \A k \in Keys : m[k] # Absent => k \in S
OperationWithin(o, S) ==
    /\ o.at # "remove"
    /\ ~o.compact
    /\ o.at \in {"lookup", "evicted"} => o.entry \in Effects
    /\ o.at = "logged" => DOMAIN o.entry \subseteq S
    /\ StoredIn(o.data, S)

\* Whatever is or can still get into a snapshot or a cache is about a key that
\* the log settles, and nothing is about to remove a line.
LogDecides ==
    /\ StoredIn(snapshot, SettledKeys)
    /\ \A p \in Procs :
        /\ OperationWithin(op[p], SettledKeys)
        /\ DOMAIN cache[p] \subseteq SettledKeys
        /\ StoredIn(read[p].data, SettledKeys)

(* A step that leaves the log alone settles and unsettles no key.           *)
LEMMA SettledUnchanged ==
  ASSUME log' = log
  PROVE  SettledKeys' = SettledKeys
BY DEF SettledKeys, Settling, Positions, LineAt

(* A step that appends a line settles the keys of the line as well.         *)
LEMMA SettledByAppend ==
  ASSUME TypeOK, TypeOK', NEW line \in Lines, NEW p, AppendLine(p, line)
  PROVE  SettledKeys \cup DOMAIN line \subseteq SettledKeys'
<1>1. PICK s \in Segments : log' = [log EXCEPT ![s] = Append(@, line)]
  BY DEF AppendLine
<1>2. log[s] \in Seq(Lines)
  BY DEF TypeOK
<1>3. /\ Len(log'[s]) = Len(log[s]) + 1
      /\ log'[s][Len(log[s]) + 1] = line
      /\ \A i \in 1..Len(log[s]) : log'[s][i] = log[s][i]
  BY <1>1, <1>2 DEF TypeOK
<1>4. \A t \in Segments : t # s => log'[t] = log[t]
  BY <1>1 DEF TypeOK
<1>5. \A t \in Segments : DOMAIN log'[t] = 1..Len(log'[t])
  BY DEF TypeOK
<1>6. ASSUME NEW k \in SettledKeys PROVE k \in SettledKeys'
  <2>1. PICK t \in Segments : \E i \in 1..Len(log[t]) : k \in DOMAIN log[t][i]
    BY SettlingPositions DEF SettledKeys
  <2>2. PICK i \in 1..Len(log[t]) : k \in DOMAIN log[t][i]
    BY <2>1
  <2>3. i \in 1..Len(log'[t]) /\ k \in DOMAIN log'[t][i]
    <3>1. CASE t = s
      BY <3>1, <2>2, <1>2, <1>3
    <3>2. CASE t # s
      BY <3>2, <2>2, <1>4
    <3> QED
      BY <3>1, <3>2
  <2>4. <<t, i>> \in Settling(k)'
    BY <2>3, <1>5 DEF Settling, Positions, LineAt
  <2> QED
    BY <2>4 DEF SettledKeys
<1>7. ASSUME NEW k \in DOMAIN line PROVE k \in SettledKeys'
  <2> DEFINE i == Len(log[s]) + 1
  <2>1. i \in 1..Len(log'[s]) /\ k \in DOMAIN log'[s][i]
    BY <1>2, <1>3
  <2> HIDE DEF i
  <2>2. <<s, i>> \in Settling(k)'
    BY <2>1, <1>5 DEF Settling, Positions, LineAt
  <2> QED
    BY <2>2, LineType DEF SettledKeys
<1> QED
  BY <1>6, <1>7

(* The condition on an operation only weakens as more keys are settled.     *)
LEMMA WithinMonotone ==
  ASSUME NEW S, NEW T, S \subseteq T
  PROVE  /\ \A m : StoredIn(m, S) => StoredIn(m, T)
         /\ \A o : OperationWithin(o, S) => OperationWithin(o, T)
BY DEF StoredIn, OperationWithin

(* The operations that carry no map and no line satisfy it ...              *)
LEMMA WithinTrivially ==
  ASSUME NEW S
  PROVE  /\ OperationWithin(Idle, S)
         /\ StoredIn(NoRead.data, S)
         /\ \A e \in Effects : OperationWithin(Writing("evicted", e), S)
         /\ \A e : DOMAIN e \subseteq S => OperationWithin(Writing("logged", e), S)
         /\ \A m : StoredIn(m, S) =>
                /\ OperationWithin(Snapshotting("merge", m, FALSE), S)
                /\ OperationWithin(Snapshotting("install", m, FALSE), S)
<1>1. StoredIn(EmptyMap, S)
  BY DEF StoredIn, EmptyMap
<1> QED
  BY <1>1 DEF OperationWithin, Idle, NoRead, Writing, Snapshotting

(* ... and a replay over a map that stores settled keys stores settled keys.*)
LEMMA ReplaySettled ==
  ASSUME NEW m \in Map, StoredIn(m, SettledKeys)
  PROVE  StoredIn(Replay(m), SettledKeys)
BY DEF Replay, StoredIn, SettledKeys

LEMMA CountWithin ==
  ASSUME TypeOK, LogDecides, NEW p \in Procs, CountWrite(p)
  PROVE  \A r \in Procs : OperationWithin(op'[r], SettledKeys)
<1>1. \/ op' = [op EXCEPT ![p] = Idle]
      \/ op' = [op EXCEPT ![p] = Snapshotting("merge", snapshot, FALSE)]
  BY DEF CountWrite
<1>2. /\ OperationWithin(Idle, SettledKeys)
      /\ OperationWithin(Snapshotting("merge", snapshot, FALSE), SettledKeys)
  BY WithinTrivially DEF LogDecides
<1>3. \A r \in Procs : OperationWithin(op[r], SettledKeys)
  BY DEF LogDecides
<1>4. op \in [Procs -> Operation]
  BY DEF TypeOK
<1> QED
  BY <1>1, <1>2, <1>3, <1>4

LEMMA LogDecidesInit == Compacting = {} /\ Init => LogDecides
<1> SUFFICES ASSUME Init PROVE LogDecides
  OBVIOUS
<1>1. StoredIn(snapshot, SettledKeys)
  BY DEF Init, StoredIn, EmptyMap
<1>2. ASSUME NEW p \in Procs
      PROVE  /\ OperationWithin(op[p], SettledKeys)
             /\ DOMAIN cache[p] \subseteq SettledKeys
             /\ StoredIn(read[p].data, SettledKeys)
  <2>1. op[p] = Idle /\ read[p] = NoRead /\ DOMAIN cache[p] = {}
    BY DEF Init, NoEffect
  <2> QED
    BY <2>1, WithinTrivially
<1> QED
  BY <1>1, <1>2 DEF LogDecides

(* A step that replaces only p's operation, by one that satisfies it.       *)
LEMMA OperationStep ==
  ASSUME TypeOK, LogDecides, NEW p \in Procs, NEW o,
         OperationWithin(o, SettledKeys), op' = [op EXCEPT ![p] = o],
         UNCHANGED <<snapshot, log, cache, read>>
  PROVE  LogDecides'
<1>1. SettledKeys' = SettledKeys
  BY SettledUnchanged
<1>2. \A r \in Procs : OperationWithin(op'[r], SettledKeys)
  BY DEF LogDecides, TypeOK
<1> QED
  BY <1>1, <1>2 DEF LogDecides

(* put and put_all: the keys of the line are settled from here on.          *)
LEMMA WriteDecides ==
  ASSUME TypeOK, TypeOK', LogDecides, NEW p \in Procs, NEW e \in Writes, Write(p, e, e)
  PROVE  LogDecides'
<1>1. e \in Lines /\ AppendLine(p, e)
  BY DEF Lines, Effects, Write
<1>2. SettledKeys \cup DOMAIN e \subseteq SettledKeys'
  BY <1>1, SettledByAppend
<1> DEFINE S == SettledKeys'
<1> HIDE DEF S
<1>3. SettledKeys \subseteq S /\ DOMAIN e \subseteq S
  BY <1>2 DEF S
<1>4. StoredIn(snapshot, S)
  BY <1>3, WithinMonotone DEF LogDecides
<1>5. ASSUME NEW r \in Procs
      PROVE  /\ OperationWithin(op'[r], S)
             /\ DOMAIN cache[r] \subseteq S
             /\ StoredIn(read[r].data, S)
  <2>1. OperationWithin(op[r], S) /\ StoredIn(read[r].data, S)
    BY <1>3, WithinMonotone DEF LogDecides
  <2>2. OperationWithin(Writing("logged", e), S)
    BY <1>3, WithinTrivially
  <2>3. op'[r] = op[r] \/ op'[r] = Writing("logged", e)
    BY DEF Write, TypeOK
  <2> QED
    BY <2>1, <2>2, <2>3, <1>3 DEF LogDecides
<1> QED
  BY <1>4, <1>5 DEF LogDecides, Write, S

LEMMA LogDeleteDecides ==
  ASSUME TypeOK, TypeOK', LogDecides, NEW p \in Procs, LogDelete(p, op[p].entry)
  PROVE  LogDecides'
<1>1. op[p].entry \in Lines /\ AppendLine(p, op[p].entry) /\ CountWrite(p)
  BY DEF TypeOK, Operation, LogDelete
<1>2. SettledKeys \subseteq SettledKeys'
  BY <1>1, SettledByAppend
<1> DEFINE S == SettledKeys'
<1> HIDE DEF S
<1>3. SettledKeys \subseteq S
  BY <1>2 DEF S
<1>4. StoredIn(snapshot, S)
  BY <1>3, WithinMonotone DEF LogDecides
<1>5. ASSUME NEW r \in Procs
      PROVE  /\ OperationWithin(op'[r], S)
             /\ DOMAIN cache[r] \subseteq S
             /\ StoredIn(read[r].data, S)
  <2>1. OperationWithin(op'[r], SettledKeys)
    BY <1>1, CountWithin
  <2> QED
    BY <1>3, <2>1, WithinMonotone DEF LogDecides
<1> QED
  BY <1>4, <1>5 DEF LogDecides, LogDelete, S

(* The cache takes over what was logged ...                                 *)
LEMMA WriteToCacheDecides ==
  ASSUME TypeOK, LogDecides, NEW p \in Procs, WriteToCache(p)
  PROVE  LogDecides'
<1>1. SettledKeys' = SettledKeys
  BY SettledUnchanged DEF WriteToCache, disk
<1>2. \A r \in Procs : OperationWithin(op'[r], SettledKeys)
  BY CountWithin DEF WriteToCache
<1>3. DOMAIN op[p].entry \subseteq SettledKeys /\ DOMAIN cache[p] \subseteq SettledKeys
  BY DEF WriteToCache, LogDecides, OperationWithin
<1>4. DOMAIN cache'[p] \subseteq SettledKeys
  BY <1>3, WriteToCacheType
<1>5. \A r \in Procs : r # p => cache'[r] = cache[r]
  BY DEF WriteToCache, TypeOK
<1>6. \A r \in Procs : DOMAIN cache'[r] \subseteq SettledKeys
  BY <1>4, <1>5 DEF LogDecides
<1> QED
  BY <1>1, <1>2, <1>6 DEF LogDecides, WriteToCache, disk

(* ... or what was read, or loses something.                                *)
LEMMA EndReadDecides ==
  ASSUME TypeOK, LogDecides, NEW p \in Procs, EndRead(p)
  PROVE  LogDecides'
<1>1. SettledKeys' = SettledKeys
  BY SettledUnchanged DEF EndRead, disk
<1>2. {k \in Keys : read[p].data[k] # Absent} \subseteq SettledKeys
  BY DEF LogDecides, StoredIn
<1>3. DOMAIN cache'[p] \subseteq SettledKeys
  BY <1>2, EndReadType DEF LogDecides
<1>4. \A r \in Procs : r # p => cache'[r] = cache[r]
  BY DEF EndRead, TypeOK
<1>5. \A r \in Procs : DOMAIN cache'[r] \subseteq SettledKeys
  BY <1>3, <1>4 DEF LogDecides
<1>6. \A r \in Procs : read'[r] = read[r] \/ read'[r] = NoRead
  BY DEF EndRead, TypeOK
<1>7. \A r \in Procs : StoredIn(read'[r].data, SettledKeys)
  BY <1>6, WithinTrivially DEF LogDecides
<1> QED
  BY <1>1, <1>5, <1>7 DEF LogDecides, EndRead, disk

LEMMA DeleteFromCacheDecides ==
  ASSUME TypeOK, LogDecides, NEW p \in Procs, DeleteFromCache(p)
  PROVE  LogDecides'
<1>1. SettledKeys' = SettledKeys
  BY SettledUnchanged DEF DeleteFromCache, disk
<1>2. op[p].entry \in Effects
  BY DEF DeleteFromCache, LogDecides, OperationWithin
<1>3. \A r \in Procs : op'[r] = op[r] \/ op'[r] = Writing("evicted", op[p].entry)
  BY DEF DeleteFromCache, TypeOK
<1>4. \A r \in Procs : OperationWithin(op'[r], SettledKeys)
  BY <1>2, <1>3, WithinTrivially DEF LogDecides
<1>5. \A r \in Procs : DOMAIN cache'[r] \subseteq DOMAIN cache[r]
  BY DEF DeleteFromCache, TypeOK, Without
<1> QED
  BY <1>1, <1>4, <1>5 DEF LogDecides, DeleteFromCache, disk

LEMMA CrashDecides ==
  ASSUME TypeOK, LogDecides, NEW p \in Procs, Crash(p)
  PROVE  LogDecides'
<1>1. SettledKeys' = SettledKeys
  BY SettledUnchanged DEF Crash, disk
<1>2. ASSUME NEW r \in Procs
      PROVE  /\ OperationWithin(op'[r], SettledKeys)
             /\ DOMAIN cache'[r] \subseteq SettledKeys
             /\ StoredIn(read'[r].data, SettledKeys)
  <2>1. CASE r # p
    BY <2>1 DEF Crash, LogDecides, TypeOK
  <2>2. CASE r = p
    <3>1. op'[r] = Idle /\ read'[r] = NoRead /\ DOMAIN cache'[r] = {}
      BY <2>2 DEF Crash, TypeOK, NoEffect
    <3> QED
      BY <3>1, WithinTrivially
  <2> QED
    BY <2>1, <2>2
<1> QED
  BY <1>1, <1>2 DEF LogDecides, Crash, disk

(* The remaining steps only move maps that are within the settled keys.     *)
LEMMA OtherDecides ==
  ASSUME Compacting = {}, TypeOK, LogDecides, NEW p \in Procs
  PROVE  /\ (\E k \in Keys : Delete(p, k)) => LogDecides'
         /\ DeleteAbsent(p) => LogDecides'
         /\ ForceSnapshot(p) => LogDecides'
         /\ ~Compact(p)
         /\ MergeCache(p) => LogDecides'
         /\ InstallSnapshot(p) => LogDecides'
         /\ SnapshotFails(p) => LogDecides'
         /\ (\A s \in Segments : ~RemoveSegment(p, s))
         /\ ~FinishCompact(p)
         /\ (\E k \in Keys : StartRead(p, {k})) => LogDecides'
         /\ StartRead(p, Keys) => LogDecides'
         /\ ReplayRead(p) => LogDecides'
<1>0. /\ OperationWithin(op[p], SettledKeys)
      /\ StoredIn(snapshot, SettledKeys)
      /\ StoredIn(read[p].data, SettledKeys)
      /\ op[p].data \in Map /\ read[p].data \in Map /\ snapshot \in Map
  BY DEF LogDecides, TypeOK, Operation, ReadOperation
<1>1. ASSUME NEW k \in Keys, Delete(p, k) PROVE LogDecides'
  <2>1. OperationWithin(LookingUp(DeleteEffect(k)), SettledKeys)
    <3>1. DeleteEffect(k) \in Effects
      BY DEF Effects
    <3> QED
      BY <1>0, <3>1 DEF OperationWithin, LookingUp
  <2> QED
    BY <1>1, <2>1, OperationStep DEF Delete, disk, memory
<1>2. ASSUME DeleteAbsent(p) \/ SnapshotFails(p) PROVE LogDecides'
  BY <1>2, WithinTrivially, OperationStep DEF DeleteAbsent, SnapshotFails, disk, memory
<1>3. ASSUME ForceSnapshot(p) PROVE LogDecides'
  BY <1>0, <1>3, WithinTrivially, OperationStep DEF ForceSnapshot, disk, memory
<1>4. ~Compact(p)
  BY DEF Compact
<1>5. ASSUME MergeCache(p) PROVE LogDecides'
  <2> DEFINE merged == Overlay(cache[p], Replay(op[p].data))
  <2>1. StoredIn(Replay(op[p].data), SettledKeys)
    BY <1>0, ReplaySettled DEF OperationWithin
  <2>2. StoredIn(merged, SettledKeys)
    BY <2>1 DEF StoredIn, Overlay, LogDecides, Replay
  <2>3. ~op[p].compact /\ op[p].compact \in BOOLEAN
    BY <1>0 DEF OperationWithin, TypeOK, Operation
  <2>4. op' = [op EXCEPT ![p] = Snapshotting("install", merged, FALSE)]
    BY <1>5, <2>3 DEF MergeCache
  <2> HIDE DEF merged
  <2>5. OperationWithin(Snapshotting("install", merged, FALSE), SettledKeys)
    BY <2>2, WithinTrivially
  <2> QED
    BY <1>5, <2>4, <2>5, OperationStep DEF MergeCache, disk, memory
<1>6. ASSUME InstallSnapshot(p) PROVE LogDecides'
  <2>1. SettledKeys' = SettledKeys
    BY <1>6, SettledUnchanged DEF InstallSnapshot
  <2>2. StoredIn(snapshot', SettledKeys)
    BY <1>0, <1>6 DEF InstallSnapshot, OperationWithin
  <2>3. op' = [op EXCEPT ![p] = Idle]
    BY <1>0, <1>6 DEF InstallSnapshot, OperationWithin
  <2>4. \A r \in Procs : op'[r] = op[r] \/ op'[r] = Idle
    BY <2>3 DEF TypeOK
  <2>5. \A r \in Procs : OperationWithin(op'[r], SettledKeys)
    BY <2>4, WithinTrivially DEF LogDecides
  <2> QED
    BY <1>6, <2>1, <2>2, <2>5 DEF LogDecides, InstallSnapshot
<1>8. \A s \in Segments : ~RemoveSegment(p, s)
  BY <1>0 DEF RemoveSegment, OperationWithin
<1>9. ~FinishCompact(p)
  BY <1>0 DEF FinishCompact, OperationWithin
<1>10. ASSUME NEW m, StoredIn(m, SettledKeys), NEW at, NEW K,
              read' = [read EXCEPT ![p] = Reading(at, K, m)],
              UNCHANGED <<snapshot, log, cache, op>>
       PROVE  LogDecides'
  <2>1. SettledKeys' = SettledKeys
    BY <1>10, SettledUnchanged
  <2>2. \A r \in Procs : StoredIn(read'[r].data, SettledKeys)
    BY <1>10 DEF LogDecides, TypeOK, Reading
  <2> QED
    BY <1>10, <2>1, <2>2 DEF LogDecides
<1>11. ASSUME NEW K, StartRead(p, K) PROVE LogDecides'
  BY <1>0, <1>10, <1>11 DEF StartRead, disk, memory
<1>12. ASSUME ReplayRead(p) PROVE LogDecides'
  <2>1. StoredIn(Replay(read[p].data), SettledKeys)
    BY <1>0, ReplaySettled
  <2> QED
    BY <1>10, <1>12, <2>1 DEF ReplayRead, disk, memory
<1> QED
  BY <1>1, <1>2, <1>3, <1>4, <1>5, <1>6, <1>8, <1>9, <1>11, <1>12

LEMMA LogDecidesStep ==
  ASSUME Compacting = {}
  PROVE  TypeOK /\ LogDecides /\ [Next]_vars => LogDecides'
<1> SUFFICES ASSUME TypeOK, LogDecides, [Next]_vars PROVE LogDecides'
  OBVIOUS
<1>0. TypeOK'
  BY StepType
<1>1. CASE UNCHANGED vars
  <2>1. SettledKeys' = SettledKeys
    BY <1>1, SettledUnchanged DEF vars, disk
  <2> QED
    BY <1>1, <2>1 DEF LogDecides, vars, disk, memory
<1>2. ASSUME NEW p \in Procs, Internal(p) PROVE LogDecides'
  BY <1>2, WriteToCacheDecides, EndReadDecides, DeleteFromCacheDecides,
     CrashDecides, OtherDecides DEF Internal
<1> QED
  BY <1>0, <1>1, <1>2, WriteDecides, LogDeleteDecides DEF Next

(* A step that appends nothing changes at most the snapshot, and there only *)
(* keys the log settles: what a restart loads stays as it is.               *)
LEMMA RecoveredStep ==
  ASSUME Compacting = {}, TypeOK, LogDecides, [Next]_vars
  PROVE  Recovered' # Recovered => \E e \in Effects : Appends(e)
<1>1. ASSUME snapshot' = snapshot, log' = log PROVE Recovered' = Recovered
  BY <1>1 DEF Recovered, Replay, Settling, Positions, LineAt
<1>2. CASE UNCHANGED vars
  BY <1>1, <1>2 DEF vars, disk
<1>3. ASSUME NEW p, NEW e \in Effects, AppendLine(p, e)
      PROVE  \E f \in Effects : Appends(f)
  BY <1>3 DEF AppendLine, Appends
<1>4. ASSUME NEW p \in Procs, NEW e \in Writes, Write(p, e, e)
      PROVE  \E f \in Effects : Appends(f)
  BY <1>3, <1>4 DEF Write, Effects
<1>5. ASSUME NEW p \in Procs, LogDelete(p, op[p].entry)
      PROVE  \E f \in Effects : Appends(f)
  <2>1. op[p].entry \in Effects
    BY <1>5 DEF LogDelete, LogDecides, OperationWithin
  <2> QED
    BY <1>3, <1>5, <2>1 DEF LogDelete
<1>6. ASSUME NEW p \in Procs, InstallSnapshot(p) PROVE Recovered' = Recovered
  <2>1. log' = log /\ snapshot' = op[p].data
    BY <1>6 DEF InstallSnapshot
  <2>2. StoredIn(snapshot, SettledKeys) /\ StoredIn(op[p].data, SettledKeys)
    BY DEF LogDecides, OperationWithin
  <2>3. \A k \in Keys : Settling(k) = {} => snapshot[k] = op[p].data[k]
    BY <2>2 DEF StoredIn, SettledKeys
  <2>4. snapshot \in Map /\ op[p].data \in Map
    BY DEF TypeOK, Operation
  <2>5. Replay(op[p].data) = Replay(snapshot)
    BY <2>3, <2>4, ReplayOfBase
  <2>6. Recovered' = Replay(op[p].data)
    BY <2>1 DEF Recovered, Replay, Settling, Positions, LineAt
  <2> QED
    BY <2>5, <2>6 DEF Recovered
<1>7. ASSUME NEW p \in Procs, Internal(p), ~InstallSnapshot(p)
      PROVE  snapshot' = snapshot /\ log' = log
  <2>1. ~Compact(p) /\ (\A s \in Segments : ~RemoveSegment(p, s))
    BY OtherDecides
  <2> QED
    BY <1>7, <2>1 DEF Internal, WriteToCache, Delete, DeleteAbsent,
       DeleteFromCache, ForceSnapshot, MergeCache, SnapshotFails, FinishCompact,
       StartRead, ReplayRead, EndRead, Crash, disk
<1> QED
  BY <1>1, <1>2, <1>4, <1>5, <1>6, <1>7 DEF Next

(* As long as no process compacts, only a write changes what a restart      *)
(* loads, for any number of processes with stale caches, racing readers,    *)
(* failing snapshots and crashes: the log alone decides.                    *)
THEOREM OnlyWritesChangeTheStoreCorrect ==
  ASSUME Compacting = {}
  PROVE  Spec => OnlyWritesChangeTheStore
<1>1. Init => TypeOK /\ LogDecides
  BY InitType, LogDecidesInit
<1>2. TypeOK /\ LogDecides /\ [Next]_vars => (TypeOK /\ LogDecides)'
  BY StepType, LogDecidesStep
<1>3. TypeOK /\ LogDecides /\ [Next]_vars
        => [Recovered' # Recovered => \E e \in Effects : Appends(e)]_vars
  BY RecoveredStep
<1> QED
  BY <1>1, <1>2, <1>3, PTL DEF Spec, OnlyWritesChangeTheStore

-----------------------------------------------------------------------------
(* A single process.                                                       *)

OneProcess == \A p, q \in Procs : p = q

(* What a replay loads for a key is the entry of the last line settling it. *)
LastDecides ==
    \A k \in Keys, s \in Segments : \A i \in 1..Len(log[s]) :
        /\ k \in DOMAIN log[s][i]
        /\ \A t \in Segments : \A j \in 1..Len(log[t]) :
              k \in DOMAIN log[t][j] => t < s \/ (t = s /\ j <= i)
        => Recovered[k] = log[s][i][k]

(* The replay order is total, so there is one such line only.               *)
LEMMA LastLineDecides == TypeOK => LastDecides
<1> SUFFICES ASSUME TypeOK, NEW k \in Keys, NEW s \in Segments, NEW i \in 1..Len(log[s]),
                    k \in DOMAIN log[s][i],
                    \A t \in Segments : \A j \in 1..Len(log[t]) :
                       k \in DOMAIN log[t][j] => t < s \/ (t = s /\ j <= i)
             PROVE  Recovered[k] = log[s][i][k]
  BY DEF LastDecides
<1> DEFINE x == CHOOSE q \in Settling(k) : \A r \in Settling(k) : Before(r, q)
<1>1. <<s, i>> \in Settling(k)
  BY SettlingPositions
<1>2. x \in Settling(k) /\ \A r \in Settling(k) : Before(r, x)
  BY <1>1, LastLine
<1>3. Recovered[k] = LineAt(x)[k]
  BY <1>1 DEF Recovered, Replay
<1> HIDE DEF x
<1>4. PICK t \in Segments : \E j \in 1..Len(log[t]) : x = <<t, j>> /\ k \in DOMAIN log[t][j]
  BY <1>2, SettlingPositions
<1>5. PICK j \in 1..Len(log[t]) : x = <<t, j>> /\ k \in DOMAIN log[t][j]
  BY <1>4
<1>6. s \in Nat /\ t \in Nat /\ i \in Int /\ j \in Int
  BY DEF Segments
<1>7. s < t \/ (s = t /\ i <= j)
  BY <1>1, <1>2, <1>5 DEF Before
<1>8. t < s \/ (t = s /\ j <= i)
  BY <1>5
<1>9. s = t /\ i = j
  BY <1>6, <1>7, <1>8
<1> QED
  BY <1>3, <1>5, <1>9 DEF LineAt

(* The same after a step.                                                   *)
LEMMA LastLineDecidesNext == TypeOK' => LastDecides'
BY LastLineDecides, PTL

(* A restart loads a map ...                                                *)
LEMMA RecoveredType == TypeOK => Recovered \in Map
BY ReplayType DEF Recovered, TypeOK

(* ... before and after a step.                                             *)
LEMMA RecoveredTypeNext == TypeOK' => Recovered' \in Map
<1>1. (TypeOK => Recovered \in Map)'
  BY RecoveredType, PTL
<1> QED
  BY <1>1 DEF Map, Value

\* A process that knows its segment knows the newest one there is.
NewestKnown == \A p \in Procs : segment[p] # 0 => \A s \in LogFiles : s <= segment[p]

(* The segment a process appends to is the last one.                        *)
LEMMA AppendsToTheLast ==
  ASSUME TypeOK, NewestKnown, NEW p \in Procs
  PROVE  \A s \in LogFiles : s <= CurrentSegment(p) /\ s <= AppendSegment(p)
<1>1. LogFiles \in SUBSET Nat /\ \A s \in LogFiles : s <= MaxSegments
  BY MemoryStoreAssumption DEF LogFiles, Segments, MemoryStoreAssumption
<1>2. CASE segment[p] # 0
  <2>1. CurrentSegment(p) = segment[p] /\ segment[p] \in Nat
    BY <1>2 DEF CurrentSegment, TypeOK
  <2>2. AppendSegment(p) \in {segment[p], segment[p] + 1}
    BY <2>1 DEF AppendSegment
  <2> QED
    BY <1>1, <1>2, <2>1, <2>2 DEF NewestKnown
<1>3. CASE segment[p] = 0 /\ LogFiles # {}
  <2>1. \E s \in LogFiles : \A t \in LogFiles : t <= s
    BY <1>1, <1>3, Greatest, MemoryStoreAssumption DEF MemoryStoreAssumption
  <2>2. /\ CurrentSegment(p) \in LogFiles
        /\ \A t \in LogFiles : t <= CurrentSegment(p)
    BY <1>3, <2>1 DEF CurrentSegment
  <2>3. AppendSegment(p) \in {CurrentSegment(p), CurrentSegment(p) + 1}
    BY DEF AppendSegment
  <2> DEFINE c == CurrentSegment(p)
  <2>4. c \in Nat /\ \A s \in LogFiles : s \in Nat /\ s <= c
    BY <1>1, <2>2
  <2>5. AppendSegment(p) \in {c, c + 1}
    BY <2>3
  <2> HIDE DEF c
  <2>6. \A s \in LogFiles : s <= c /\ s <= AppendSegment(p)
    BY <2>4, <2>5
  <2> QED
    BY <2>6 DEF c
<1> QED
  BY <1>2, <1>3

(* So a line that is appended overlays what a restart loads.                *)
LEMMA AppendOverlays ==
  ASSUME TypeOK, TypeOK', NewestKnown, NEW p \in Procs, NEW line \in Lines,
         AppendLine(p, line), snapshot' = snapshot
  PROVE  Recovered' = Overlay(line, Recovered)
<1> DEFINE s == AppendSegment(p)
<1>1. s \in Segments /\ log' = [log EXCEPT ![s] = Append(@, line)]
  BY DEF AppendLine
<1>2. \A t \in Segments : log[t] # <<>> => t <= s
  BY AppendsToTheLast DEF LogFiles
<1> HIDE DEF s
<1>3. log[s] \in Seq(Lines)
  BY <1>1 DEF TypeOK
<1> DEFINE n == Len(log[s]) + 1
<1>4. /\ Len(log'[s]) = n
      /\ n \in 1..Len(log'[s])
      /\ log'[s][n] = line
      /\ \A i \in 1..Len(log[s]) : log'[s][i] = log[s][i]
  BY <1>1, <1>3 DEF TypeOK
<1>5. \A t \in Segments : t # s => log'[t] = log[t]
  BY <1>1 DEF TypeOK
<1>6. Recovered \in Map /\ Recovered' \in Map
  BY RecoveredType, RecoveredTypeNext
<1>7. \A t \in Segments : DOMAIN log[t] = 1..Len(log[t]) /\ DOMAIN log'[t] = 1..Len(log'[t])
  BY DEF TypeOK
<1>8. ASSUME NEW k \in Keys, k \in DOMAIN line PROVE Recovered'[k] = line[k]
  <2>1. ASSUME NEW t \in Segments, NEW j \in 1..Len(log'[t])
        PROVE  t < s \/ (t = s /\ j <= n)
    <3>1. CASE t = s
      BY <3>1, <1>4
    <3>2. CASE t # s
      <4>1. log[t] # <<>> /\ t \in Nat /\ s \in Nat
        BY <1>1, <1>5, <3>2 DEF Segments
      <4> QED
        BY <1>2, <3>2, <4>1
    <3> QED
      BY <3>1, <3>2
  <2>2. /\ k \in DOMAIN log'[s][n]
        /\ \A t \in Segments : \A j \in 1..Len(log'[t]) :
              k \in DOMAIN log'[t][j] => t < s \/ (t = s /\ j <= n)
    BY <1>4, <1>8, <2>1
  <2>3. \A i \in 1..Len(log'[s]) :
          /\ k \in DOMAIN log'[s][i]
          /\ \A t \in Segments : \A j \in 1..Len(log'[t]) :
                k \in DOMAIN log'[t][j] => t < s \/ (t = s /\ j <= i)
          => Recovered'[k] = log'[s][i][k]
    BY <1>1, LastLineDecidesNext DEF LastDecides
  <2> HIDE DEF n
  <2>4. Recovered'[k] = log'[s][n][k]
    BY <1>4, <2>2, <2>3
  <2> QED
    BY <1>4, <2>4
<1>9. ASSUME NEW k \in Keys, k \notin DOMAIN line PROVE Recovered'[k] = Recovered[k]
  <2>1. \A t \in Segments : \A i :
          /\ i \in DOMAIN log[t] => i \in DOMAIN log'[t] /\ log'[t][i] = log[t][i]
          /\ i \in DOMAIN log'[t] /\ i \notin DOMAIN log[t] => log'[t][i] = line
    <3> TAKE t \in Segments
    <3> TAKE i
    <3>1. CASE t # s
      BY <3>1, <1>5
    <3>2. CASE t = s
      BY <3>2, <1>1, <1>3, <1>4, <1>7
    <3> QED
      BY <3>1, <3>2
  <2>2. \A q : /\ q \in Settling(k) => LineAt(q)' = LineAt(q)
               /\ q \in Settling(k) <=> q \in Settling(k)'
    <3>1. \A q : q \in Settling(k) <=> \E t \in Segments : \E i \in DOMAIN log[t] :
                    q = <<t, i>> /\ k \in DOMAIN log[t][i]
      BY DEF Settling, Positions, LineAt
    <3>2. \A q : q \in Settling(k)' <=> \E t \in Segments : \E i \in DOMAIN log'[t] :
                    q = <<t, i>> /\ k \in DOMAIN log'[t][i]
      BY DEF Settling, Positions, LineAt
    <3>3. \A t, i : LineAt(<<t, i>>) = log[t][i] /\ LineAt(<<t, i>>)' = log'[t][i]
      BY DEF LineAt
    <3> QED
      BY <1>9, <2>1, <3>1, <3>2, <3>3
  <2>3. Settling(k)' = Settling(k)
    BY <2>2
  <2>4. CASE Settling(k) = {}
    BY <2>3, <2>4 DEF Recovered, Replay
  <2>5. CASE Settling(k) # {}
    <3> DEFINE x == CHOOSE q \in Settling(k) : \A r \in Settling(k) : Before(r, q)
    <3>1. x \in Settling(k)
      BY <2>5, LastLine
    <3>2. Recovered[k] = LineAt(x)[k]
      BY <2>5 DEF Recovered, Replay
    <3>3. Recovered'[k] = LineAt(x)'[k]
      BY <2>3, <2>5 DEF Recovered, Replay, Before
    <3> QED
      BY <2>2, <3>1, <3>2, <3>3
  <2> QED
    BY <2>4, <2>5
<1>10. DOMAIN Recovered' = Keys /\ DOMAIN Recovered = Keys
  BY <1>6 DEF Map
<1> QED
  BY <1>6, <1>8, <1>9, <1>10 DEF Overlay, Map

(* Every way a step changes the log.                                        *)
LEMMA LogSteps ==
  ASSUME TypeOK, NEW p \in Procs,
         (\E e \in Writes : Write(p, e, e)) \/ LogDelete(p, op[p].entry) \/ Internal(p)
  PROVE  \/ \E e \in Lines : AppendLine(p, e) /\ snapshot' = snapshot
         \/ log' = log
         \/ \E s \in Segments : /\ RemoveSegment(p, s)
                                /\ log' = [log EXCEPT ![s] = <<>>]
<1>1. ASSUME NEW e \in Writes, Write(p, e, e)
      PROVE  \E f \in Lines : AppendLine(p, f) /\ snapshot' = snapshot
  BY <1>1 DEF Write, Lines, Effects
<1>2. ASSUME LogDelete(p, op[p].entry)
      PROVE  \E f \in Lines : AppendLine(p, f) /\ snapshot' = snapshot
  BY <1>2 DEF LogDelete, TypeOK, Operation
<1>3. ASSUME NEW s \in Segments, RemoveSegment(p, s)
      PROVE  log' = log \/ log' = [log EXCEPT ![s] = <<>>]
  BY <1>3 DEF RemoveSegment
<1>4. ASSUME Internal(p), \A s \in Segments : ~RemoveSegment(p, s)
      PROVE  log' = log
  BY <1>4 DEF Internal, WriteToCache, Delete, DeleteAbsent, DeleteFromCache,
     ForceSnapshot, Compact, MergeCache, InstallSnapshot, SnapshotFails,
     FinishCompact, StartRead, ReplayRead, EndRead, Crash, disk
<1> QED
  BY <1>1, <1>2, <1>3, <1>4

(* A process either keeps its segment, appends, or forgets it.              *)
LEMMA SegmentSteps ==
  ASSUME TypeOK, NEW p \in Procs,
         (\E e \in Writes : Write(p, e, e)) \/ LogDelete(p, op[p].entry) \/ Internal(p)
  PROVE  \/ \E e \in Lines : AppendLine(p, e)
         \/ segment' = segment
         \/ segment' = [segment EXCEPT ![p] = 0]
<1>1. ASSUME NEW e \in Writes, Write(p, e, e) PROVE \E f \in Lines : AppendLine(p, f)
  BY <1>1 DEF Write, Lines, Effects
<1>2. ASSUME LogDelete(p, op[p].entry) PROVE \E f \in Lines : AppendLine(p, f)
  BY <1>2 DEF LogDelete, TypeOK, Operation
<1>3. ASSUME Internal(p)
      PROVE  segment' = segment \/ segment' = [segment EXCEPT ![p] = 0]
  BY <1>3 DEF Internal, WriteToCache, Delete, DeleteAbsent, DeleteFromCache,
     ForceSnapshot, Compact, MergeCache, InstallSnapshot, SnapshotFails, RemoveSegment,
     FinishCompact, StartRead, ReplayRead, EndRead, Crash, disk, memory
<1> QED
  BY <1>1, <1>2, <1>3

(* The only process never loses sight of the newest segment.                *)
LEMMA NewestKnownStep ==
  OneProcess /\ TypeOK /\ TypeOK' /\ NewestKnown /\ [Next]_vars => NewestKnown'
<1> SUFFICES ASSUME OneProcess, TypeOK, TypeOK', NewestKnown, [Next]_vars
             PROVE  NewestKnown'
  OBVIOUS
<1>1. CASE UNCHANGED vars
  BY <1>1 DEF NewestKnown, LogFiles, vars, disk, memory
<1>2. ASSUME NEW p \in Procs,
             (\E e \in Writes : Write(p, e, e)) \/ LogDelete(p, op[p].entry) \/ Internal(p)
      PROVE  NewestKnown'
  <2> SUFFICES ASSUME segment'[p] # 0, NEW s \in Segments, log'[s] # <<>>
               PROVE  s <= segment'[p]
    BY DEF OneProcess, NewestKnown, LogFiles
  <2>1. CASE \E e \in Lines : AppendLine(p, e)
    <3> DEFINE t == AppendSegment(p)
    <3>1. PICK e \in Lines : /\ t \in Segments
                             /\ log' = [log EXCEPT ![t] = Append(@, e)]
                             /\ segment' = [segment EXCEPT ![p] = t]
      BY <2>1 DEF AppendLine
    <3>2. log[s] # <<>> => s <= t
      BY AppendsToTheLast DEF LogFiles
    <3> HIDE DEF t
    <3>3. segment'[p] = t /\ (s # t => log'[s] = log[s])
      BY <3>1 DEF TypeOK
    <3> QED
      BY <3>1, <3>2, <3>3 DEF Segments
  <2>2. CASE ~(\E e \in Lines : AppendLine(p, e))
    <3>1. segment'[p] = segment[p]
      BY <1>2, <2>2, SegmentSteps DEF TypeOK
    <3>2. log'[s] = log[s]
      BY <1>2, <2>2, LogSteps DEF TypeOK
    <3> QED
      BY <3>1, <3>2 DEF NewestKnown, LogFiles
  <2> QED
    BY <2>1, <2>2
<1> QED
  BY <1>1, <1>2 DEF Next

(* A step that appends e anywhere is the step of a write of e.              *)
LEMMA AppendsOnce ==
  ASSUME TypeOK, TypeOK', [Next]_vars, NEW e \in Effects, Appends(e)
  PROVE  /\ snapshot' = snapshot
         /\ \E p \in Procs : AppendLine(p, e)
<1>1. PICK s \in Segments : log' = [log EXCEPT ![s] = Append(@, e)]
  BY DEF Appends
<1>2. log[s] \in Seq(Lines) /\ e \in Lines
  BY DEF TypeOK, Lines
<1>3. log'[s] = Append(log[s], e)
  BY <1>1 DEF TypeOK
<1>4. /\ Len(log'[s]) = Len(log[s]) + 1
      /\ log'[s][Len(log[s]) + 1] = e
      /\ Len(log[s]) \in Nat
  BY <1>2, <1>3
<1>5. log' # log /\ log'[s] # <<>>
  BY <1>2, <1>4
<1>6. \A t \in Segments : t # s => log'[t] = log[t]
  BY <1>1 DEF TypeOK
<1>7. PICK p \in Procs :
        (\E f \in Writes : Write(p, f, f)) \/ LogDelete(p, op[p].entry) \/ Internal(p)
  BY <1>5 DEF Next, vars, disk
<1>8. ASSUME NEW t \in Segments, log' = [log EXCEPT ![t] = <<>>] PROVE FALSE
  <2>1. log'[t] = <<>>
    BY <1>8 DEF TypeOK
  <2>2. t # s
    BY <1>5, <2>1
  <2>3. log'[s] = log[s]
    BY <1>8, <2>2 DEF TypeOK
  <2> QED
    BY <1>4, <2>3
<1>9. PICK f \in Lines : AppendLine(p, f) /\ snapshot' = snapshot
  BY <1>5, <1>7, <1>8, LogSteps
<1>10. PICK t \in Segments : log' = [log EXCEPT ![t] = Append(@, f)]
  BY <1>9 DEF AppendLine
<1>11. log[t] \in Seq(Lines) /\ log'[t] = Append(log[t], f)
  BY <1>10 DEF TypeOK
<1>12. t = s
  <2>1. Len(log'[t]) = Len(log[t]) + 1 /\ Len(log[t]) \in Nat
    BY <1>11
  <2> QED
    BY <1>6, <2>1
<1>13. f = e
  BY <1>2, <1>3, <1>4, <1>11, <1>12
<1> QED
  BY <1>9, <1>13

(* With one process, and any number of reads beside it: from the step that  *)
(* logs a put, put_all or delete a restart loads what was written, over all *)
(* that was there, also where compact removed segments before.              *)
THEOREM WritesTakeEffectCorrect ==
  ASSUME OneProcess
  PROVE  Spec => WritesTakeEffect
<1>1. Init => TypeOK /\ NewestKnown
  BY InitType DEF Init, NewestKnown
<1>2. TypeOK /\ NewestKnown /\ [Next]_vars => (TypeOK /\ NewestKnown)'
  BY StepType, NewestKnownStep
<1>3. TypeOK /\ NewestKnown /\ [Next]_vars
        => [\A e \in Effects : Appends(e) => Recovered' = Overlay(e, Recovered)]_vars
  <2> SUFFICES ASSUME TypeOK, NewestKnown, [Next]_vars, NEW e \in Effects, Appends(e)
               PROVE  Recovered' = Overlay(e, Recovered)
    OBVIOUS
  <2>1. TypeOK'
    BY StepType
  <2>2. PICK p \in Procs : AppendLine(p, e)
    BY <2>1, AppendsOnce
  <2> QED
    BY <2>1, <2>2, AppendsOnce, AppendOverlays DEF Lines
<1> QED
  BY <1>1, <1>2, <1>3, PTL DEF Spec, WritesTakeEffect

-----------------------------------------------------------------------------
(* A single process whose reads and operations take turns.                 *)

\* compact takes segments away, so there must not be an older one left behind.
TakesTurns ==
    /\ OneProcess
    /\ Readers = {}
    /\ Compacting = {} \/ MaxSegments = 1

\* What a process whose cache is c, whose operation is o and whose read is r
\* holds in memory, against the snapshot and what a restart would load: the
\* cache is right but for the keys being written, and so is every copy in
\* progress.
Faithful(c, o, r, snap, recovered) ==
    /\ \A k \in DOMAIN c : (o.at = "logged" /\ k \in DOMAIN o.entry) \/ c[k] = recovered[k]
    /\ o.at = "logged" => \A k \in DOMAIN o.entry : o.entry[k] = recovered[k]
    /\ o.at \in {"lookup", "evicted"} => o.entry \in Effects
    /\ o.at = "evicted" => DOMAIN o.entry \cap DOMAIN c = {}
    /\ o.at \in {"lookup", "merge"} => o.data = snap
    /\ o.at = "install" => o.data = recovered
    /\ o.at = "remove" => snap = recovered
    /\ o.at = "remove" \/ o.compact => MaxSegments = 1
    /\ o # Idle => r = NoRead
    /\ r.at = "replay" => r.data = snap
    /\ r.at = "return" => r.data = recovered

MemoryFaithful ==
    \A p \in Procs : Faithful(cache[p], op[p], read[p], snapshot, Recovered)

(* A cache that had entries put into it holds some of these and of its own. *)
LEMMA CachePutHolds ==
  ASSUME NEW c, NEW new, NEW d \in CachePut(c, new)
  PROVE  \A k \in DOMAIN d : \/ k \in DOMAIN new /\ d[k] = new[k]
                             \/ k \in DOMAIN c \ DOMAIN new /\ d[k] = c[k]
<1> DEFINE all == [k \in DOMAIN c \cup DOMAIN new |->
                      IF k \in DOMAIN new THEN new[k] ELSE c[k]]
<1>1. PICK D \in SUBSET DOMAIN all : d = [k \in D |-> all[k]]
  BY DEF CachePut
<1> QED
  BY <1>1

(* The fields of the operations and reads.                                  *)
LEMMA OperationFields ==
  /\ Idle.at = "idle" /\ ~Idle.compact
  /\ \A a, e : /\ Writing(a, e).at = a /\ Writing(a, e).entry = e
               /\ ~Writing(a, e).compact
  /\ \A e : /\ LookingUp(e).at = "lookup" /\ LookingUp(e).entry = e
            /\ LookingUp(e).data = snapshot /\ ~LookingUp(e).compact
  /\ \A a, m, b : /\ Snapshotting(a, m, b).at = a /\ Snapshotting(a, m, b).data = m
                  /\ Snapshotting(a, m, b).compact = b
  /\ \A S : Removing(S).at = "remove"
  /\ NoRead.at = "idle"
  /\ \A a, K, m : Reading(a, K, m).at = a /\ Reading(a, K, m).data = m
BY DEF Idle, Writing, LookingUp, Snapshotting, Removing, NoRead, Reading

(* A step that leaves the disk alone changes nothing a restart loads.       *)
LEMMA SameDisk == log' = log /\ snapshot' = snapshot => Recovered' = Recovered
BY DEF Recovered, Replay, Settling, Positions, LineAt

(* After a snapshot is installed the log is replayed over it.               *)
LEMMA ReplayInstalled ==
  ASSUME NEW m, log' = log, snapshot' = m
  PROVE  Recovered' = Replay(m)
BY DEF Recovered, Replay, Settling, Positions, LineAt

(* Replaying the log over what it recovers recovers the same.               *)
LEMMA ReplayTwice ==
  ASSUME TypeOK
  PROVE  Replay(Recovered) = Recovered
BY DEF Recovered, Replay

(* put and put_all: the keys of the line may be wrong in the cache now.     *)
LEMMA WriteFaithful ==
  ASSUME TypeOK, TypeOK', NewestKnown, Readers = {}, NEW p \in Procs,
         NEW e \in Writes, Write(p, e, e),
         Faithful(cache[p], op[p], read[p], snapshot, Recovered)
  PROVE  Faithful(cache'[p], op'[p], read'[p], snapshot', Recovered')
<1>1. Recovered' = Overlay(e, Recovered)
  BY AppendOverlays DEF Write, Lines, Effects
<1>2. Recovered \in Map /\ DOMAIN Recovered = Keys /\ DOMAIN e \subseteq Keys
  BY RecoveredType, LineType DEF Map, Lines, Effects
<1>3. /\ \A k \in DOMAIN e : Recovered'[k] = e[k]
      /\ \A k \in Keys \ DOMAIN e : Recovered'[k] = Recovered[k]
  BY <1>1, <1>2 DEF Overlay
<1>4. op'[p] = Writing("logged", e) /\ cache' = cache /\ read' = read
  BY DEF Write, TypeOK
<1>5. op[p] = Idle /\ read[p] = NoRead
  BY DEF Write, MayStart
<1>6. DOMAIN cache[p] \subseteq Keys
  BY CacheType DEF TypeOK
<1> QED
  BY <1>3, <1>4, <1>5, <1>6, OperationFields DEF Faithful

(* A counted write ends, or begins a snapshot of what is on disk.           *)
LEMMA CountFields ==
  ASSUME TypeOK, NEW p \in Procs, CountWrite(p)
  PROVE  /\ op'[p].at \in {"idle", "merge"} /\ ~op'[p].compact
         /\ op'[p].at = "merge" => op'[p].data = snapshot
<1>1. \/ op'[p] = Idle
      \/ op'[p] = Snapshotting("merge", snapshot, FALSE)
  BY DEF CountWrite, TypeOK
<1> QED
  BY <1>1 DEF Idle, Snapshotting

(* The end of put and put_all: the cache learns what the log says.          *)
LEMMA WriteToCacheFaithful ==
  ASSUME TypeOK, NEW p \in Procs, WriteToCache(p),
         Faithful(cache[p], op[p], read[p], snapshot, Recovered)
  PROVE  Faithful(cache'[p], op'[p], read'[p], snapshot', Recovered')
<1> DEFINE e == op[p].entry
<1>1. cache'[p] \in CachePut(Without(cache[p], DOMAIN e), Present(e, DOMAIN e))
  BY DEF WriteToCache, TypeOK
<1>2. /\ \A k \in DOMAIN Present(e, DOMAIN e) : k \in DOMAIN e /\ Present(e, DOMAIN e)[k] = e[k]
      /\ \A k \in DOMAIN Without(cache[p], DOMAIN e) :
            /\ k \in DOMAIN cache[p] \ DOMAIN e
            /\ Without(cache[p], DOMAIN e)[k] = cache[p][k]
  BY DEF Present, Without
<1>3. op[p].at = "logged" /\ read[p] = NoRead /\ read' = read
  BY OperationFields DEF WriteToCache, Faithful
<1>4. snapshot' = snapshot /\ Recovered' = Recovered
  BY SameDisk DEF WriteToCache, disk
<1>5. \A k \in DOMAIN cache'[p] : cache'[p][k] = Recovered[k]
  BY <1>1, <1>2, <1>3, CachePutHolds DEF Faithful
<1>6. /\ op'[p].at \in {"idle", "merge"} /\ ~op'[p].compact
      /\ op'[p].at = "merge" => op'[p].data = snapshot
  BY CountFields DEF WriteToCache
<1> QED
  BY <1>3, <1>4, <1>5, <1>6, OperationFields DEF Faithful

(* delete: the key it logs is in no cache.                                  *)
LEMMA LogDeleteFaithful ==
  ASSUME TypeOK, TypeOK', NewestKnown, NEW p \in Procs, LogDelete(p, op[p].entry),
         Faithful(cache[p], op[p], read[p], snapshot, Recovered)
  PROVE  Faithful(cache'[p], op'[p], read'[p], snapshot', Recovered')
<1> DEFINE e == op[p].entry
<1>1. op[p].at = "evicted" /\ e \in Lines /\ read[p] = NoRead
  BY OperationFields DEF LogDelete, Faithful, Lines
<1>2. Recovered' = Overlay(e, Recovered)
  BY <1>1, AppendOverlays DEF LogDelete
<1>3. Recovered \in Map /\ DOMAIN Recovered = Keys
  BY RecoveredType DEF Map
<1>4. DOMAIN cache[p] \subseteq Keys /\ DOMAIN e \cap DOMAIN cache[p] = {}
  BY <1>1, CacheType DEF TypeOK, Faithful
<1>5. \A k \in DOMAIN cache[p] : cache[p][k] = Recovered'[k]
  BY <1>1, <1>2, <1>3, <1>4 DEF Faithful, Overlay
<1>6. /\ op'[p].at \in {"idle", "merge"} /\ ~op'[p].compact
      /\ op'[p].at = "merge" => op'[p].data = snapshot
  BY CountFields DEF LogDelete
<1> QED
  BY <1>1, <1>5, <1>6, OperationFields DEF Faithful, LogDelete

(* Reads: what is found on disk between two operations is what is there.    *)
LEMMA ReadsFaithful ==
  ASSUME TypeOK, Readers = {}, NEW p \in Procs,
         (\E K : StartRead(p, K)) \/ ReplayRead(p) \/ EndRead(p),
         Faithful(cache[p], op[p], read[p], snapshot, Recovered)
  PROVE  Faithful(cache'[p], op'[p], read'[p], snapshot', Recovered')
<1>1. snapshot' = snapshot /\ Recovered' = Recovered /\ op' = op
  BY SameDisk DEF StartRead, ReplayRead, EndRead, disk
<1>2. CASE \E K : StartRead(p, K)
  <2>1. /\ op[p] = Idle /\ cache' = cache
        /\ read'[p].at = "replay" /\ read'[p].data = snapshot
    BY <1>2, OperationFields DEF StartRead, TypeOK, memory
  <2> QED
    BY <1>1, <2>1, OperationFields DEF Faithful
<1>3. CASE ReplayRead(p)
  <2>1. /\ cache' = cache
        /\ read[p].at = "replay" /\ read[p].data = snapshot /\ op[p] = Idle
        /\ read'[p].at = "return" /\ read'[p].data = Replay(read[p].data)
    BY <1>3, OperationFields DEF ReplayRead, TypeOK, memory, Faithful
  <2>2. read'[p].data = Recovered
    BY <2>1 DEF Recovered
  <2> QED
    BY <1>1, <2>1, <2>2, OperationFields DEF Faithful
<1>4. CASE EndRead(p)
  <2> DEFINE new == Present(read[p].data, read[p].keys)
  <2>1. /\ read[p].at = "return" /\ read[p].data = Recovered /\ op[p] = Idle
        /\ read'[p] = NoRead /\ cache'[p] \in CachePut(cache[p], new)
    BY <1>4, OperationFields DEF EndRead, TypeOK, Faithful
  <2>2. \A k \in DOMAIN new : new[k] = Recovered[k]
    BY <2>1 DEF Present
  <2> HIDE DEF new
  <2>3. \A k \in DOMAIN cache'[p] : cache'[p][k] = Recovered[k]
    BY <2>1, <2>2, CachePutHolds, OperationFields DEF Faithful
  <2> QED
    BY <1>1, <2>1, <2>3, OperationFields DEF Faithful
<1> QED
  BY <1>2, <1>3, <1>4

(* Operations that begin, and those that leave the disk alone.              *)
LEMMA BeginFaithful ==
  ASSUME TypeOK, TakesTurns, NEW p \in Procs,
         \/ \E k \in Keys : Delete(p, k)
         \/ DeleteAbsent(p) \/ DeleteFromCache(p)
         \/ ForceSnapshot(p) \/ Compact(p) \/ SnapshotFails(p) \/ FinishCompact(p)
         \/ Crash(p),
         Faithful(cache[p], op[p], read[p], snapshot, Recovered)
  PROVE  Faithful(cache'[p], op'[p], read'[p], snapshot', Recovered')
<1>1. snapshot' = snapshot /\ Recovered' = Recovered
  BY SameDisk DEF Delete, DeleteAbsent, DeleteFromCache, ForceSnapshot, Compact,
     SnapshotFails, FinishCompact, Crash, disk
<1>2. ASSUME NEW k \in Keys, Delete(p, k)
      PROVE  Faithful(cache'[p], op'[p], read'[p], snapshot, Recovered)
  <2>1. /\ op[p] = Idle /\ read[p] = NoRead /\ cache' = cache /\ read' = read
        /\ op'[p] = LookingUp(DeleteEffect(k)) /\ DeleteEffect(k) \in Effects
    BY <1>2 DEF Delete, MayStart, TakesTurns, TypeOK, memory, Effects
  <2> QED
    BY <2>1, OperationFields DEF Faithful
<1>3. CASE DeleteAbsent(p)
  <2>1. /\ op[p].at = "lookup" /\ op'[p] = Idle /\ cache' = cache /\ read' = read
        /\ read[p] = NoRead
    BY <1>3, OperationFields DEF DeleteAbsent, TypeOK, memory, Faithful
  <2> QED
    BY <1>1, <2>1, OperationFields DEF Faithful
<1>4. CASE DeleteFromCache(p)
  <2>1. /\ op[p].at = "lookup" /\ op'[p] = Writing("evicted", op[p].entry)
        /\ cache'[p] = Without(cache[p], DOMAIN op[p].entry) /\ read' = read
        /\ read[p] = NoRead
    BY <1>4, OperationFields DEF DeleteFromCache, TypeOK, Faithful
  <2>2. /\ DOMAIN cache'[p] = DOMAIN cache[p] \ DOMAIN op[p].entry
        /\ \A k \in DOMAIN cache'[p] : cache'[p][k] = cache[p][k]
    BY <2>1 DEF Without
  <2>3. DOMAIN op[p].entry \cap DOMAIN cache'[p] = {}
    BY <2>2
  <2> QED
    BY <1>1, <2>1, <2>2, <2>3, OperationFields DEF Faithful
<1>5. CASE ForceSnapshot(p)
  <2>1. /\ op[p] = Idle /\ read[p] = NoRead /\ cache' = cache /\ read' = read
        /\ op'[p] = Snapshotting("merge", snapshot, FALSE)
    BY <1>5 DEF ForceSnapshot, MayStart, TakesTurns, TypeOK, memory
  <2>2. op'[p].at = "merge" /\ op'[p].data = snapshot /\ ~op'[p].compact
    BY <2>1 DEF Snapshotting
  <2> QED
    BY <1>1, <2>1, <2>2, OperationFields DEF Faithful
<1>6. CASE Compact(p)
  <2>1. /\ op[p] = Idle /\ read[p] = NoRead /\ cache' = cache /\ read' = read
        /\ op'[p] = Snapshotting("merge", snapshot, TRUE) /\ MaxSegments = 1
    BY <1>6 DEF Compact, MayStart, TakesTurns, TypeOK, memory
  <2>2. op'[p].at = "merge" /\ op'[p].data = snapshot
    BY <2>1 DEF Snapshotting
  <2> QED
    BY <1>1, <2>1, <2>2, OperationFields DEF Faithful
<1>7. CASE SnapshotFails(p) \/ FinishCompact(p)
  <2>1. /\ op[p].at \in {"install", "remove"} /\ op'[p] = Idle
        /\ read[p] = NoRead /\ cache' = cache /\ read' = read
    BY <1>7, OperationFields DEF SnapshotFails, FinishCompact, TypeOK, memory, Faithful
  <2> QED
    BY <1>1, <2>1, OperationFields DEF Faithful
<1>8. CASE Crash(p)
  <2>1. op'[p] = Idle /\ read'[p] = NoRead /\ cache'[p] = NoEffect
    BY <1>8 DEF Crash, TypeOK
  <2>2. DOMAIN NoEffect = {}
    BY DEF NoEffect
  <2> QED
    BY <1>1, <2>1, <2>2, OperationFields DEF Faithful
<1> QED
  BY <1>1, <1>2, <1>3, <1>4, <1>5, <1>6, <1>7, <1>8

(* The steps of a snapshot and of the compaction after it.                  *)
LEMMA SnapshotFaithful ==
  ASSUME TypeOK, TypeOK', NEW p \in Procs,
         MergeCache(p) \/ InstallSnapshot(p) \/ \E s \in Segments : RemoveSegment(p, s),
         Faithful(cache[p], op[p], read[p], snapshot, Recovered)
  PROVE  /\ Faithful(cache'[p], op'[p], read'[p], snapshot', Recovered')
         /\ Recovered' = Recovered
<1>0. read[p] = NoRead /\ read' = read /\ cache' = cache
  BY OperationFields DEF MergeCache, InstallSnapshot, RemoveSegment, memory, Faithful
<1>1. CASE MergeCache(p)
  <2>1. /\ op[p].at = "merge" /\ op[p].data = snapshot
        /\ op'[p] = Snapshotting("install", Overlay(cache[p], Recovered), op[p].compact)
    BY <1>1 DEF MergeCache, TypeOK, Faithful, Recovered
  <2>2. snapshot' = snapshot /\ Recovered' = Recovered
    BY <1>1, SameDisk DEF MergeCache, disk
  <2>3. Overlay(cache[p], Recovered) = Recovered
    <3>1. Recovered \in Map
      BY RecoveredType
    <3>2. \A k \in DOMAIN cache[p] : cache[p][k] = Recovered[k]
      BY <2>1 DEF Faithful
    <3> QED
      BY <3>1, <3>2 DEF Overlay, Map
  <2> QED
    BY <1>0, <2>1, <2>2, <2>3, OperationFields DEF Faithful
<1>2. CASE InstallSnapshot(p)
  <2>1. op[p].at = "install" /\ snapshot' = Recovered /\ log' = log
    BY <1>2 DEF InstallSnapshot, Faithful
  <2>2. Recovered' = Replay(op[p].data)
    <3>1. log' = log /\ snapshot' = op[p].data
      BY <1>2 DEF InstallSnapshot
    <3> QED
      BY <3>1, ReplayInstalled
  <2>3. Recovered' = Recovered
    <3>1. op[p].data = Recovered
      BY <1>2 DEF InstallSnapshot, Faithful
    <3> QED
      BY <3>1, <2>2, ReplayTwice
  <2>4. op'[p] = IF op[p].compact THEN Removing(LogFiles) ELSE Idle
    BY <1>2 DEF InstallSnapshot, TypeOK
  <2>5. CASE op[p].compact
    BY <1>0, <2>1, <2>3, <2>4, <2>5, OperationFields DEF Faithful
  <2>6. CASE ~op[p].compact
    BY <1>0, <2>1, <2>3, <2>4, <2>6, OperationFields DEF Faithful
  <2> QED
    BY <2>3, <2>5, <2>6
<1>3. ASSUME NEW s \in Segments, RemoveSegment(p, s)
      PROVE  /\ Faithful(cache'[p], op'[p], read'[p], snapshot', Recovered')
             /\ Recovered' = Recovered
  <2>1. /\ op[p].at = "remove" /\ snapshot = Recovered /\ snapshot' = snapshot
        /\ MaxSegments = 1
        /\ op'[p] = Removing(op[p].files \ {s})
    BY <1>3 DEF RemoveSegment, Faithful, TypeOK
  <2>2. Recovered' = Recovered
    <3>1. CASE log' = log
      BY <2>1, <3>1, SameDisk
    <3>2. CASE log' = [log EXCEPT ![s] = <<>>]
      <4>1. \A t \in Segments : t = s
        BY <2>1 DEF Segments
      <4>2. \A t \in Segments : log'[t] = <<>>
        BY <3>2, <4>1 DEF TypeOK
      <4>3. \A k : Settling(k)' = {}
        BY <4>2 DEF Settling, Positions
      <4>4. Recovered' = [k \in Keys |-> snapshot'[k]]
        BY <4>3 DEF Recovered, Replay
      <4>5. Recovered \in Map
        BY RecoveredType
      <4> QED
        BY <2>1, <4>4, <4>5 DEF Map
    <3> QED
      BY <1>3, <3>1, <3>2 DEF RemoveSegment
  <2> QED
    BY <1>0, <2>1, <2>2, OperationFields DEF Faithful
<1> QED
  BY <1>1, <1>2, <1>3

(* The invariant holds at the start ...                                     *)
LEMMA FaithfulInit == Init => MemoryFaithful
<1> SUFFICES ASSUME Init, NEW p \in Procs
             PROVE  Faithful(cache[p], op[p], read[p], snapshot, Recovered)
  BY DEF MemoryFaithful
<1>1. op[p] = Idle /\ read[p] = NoRead /\ DOMAIN cache[p] = {}
  BY DEF Init, NoEffect
<1> QED
  BY <1>1, OperationFields DEF Faithful

(* ... and in every step, and none but a write changes what a restart loads.*)
LEMMA FaithfulStep ==
  ASSUME TakesTurns, TypeOK, TypeOK', NewestKnown, MemoryFaithful, [Next]_vars
  PROVE  /\ MemoryFaithful'
         /\ Recovered' # Recovered => \E e \in Effects : Appends(e)
<1>1. CASE UNCHANGED vars
  BY <1>1, SameDisk DEF MemoryFaithful, vars, disk, memory
<1>2. ASSUME NEW p \in Procs,
             (\E e \in Writes : Write(p, e, e)) \/ LogDelete(p, op[p].entry) \/ Internal(p)
      PROVE  /\ Faithful(cache'[p], op'[p], read'[p], snapshot', Recovered')
             /\ Recovered' # Recovered => \E e \in Effects : Appends(e)
  <2>0. Faithful(cache[p], op[p], read[p], snapshot, Recovered)
    BY DEF MemoryFaithful
  <2>1. ASSUME NEW e \in Writes, Write(p, e, e)
        PROVE  /\ Faithful(cache'[p], op'[p], read'[p], snapshot', Recovered')
               /\ \E f \in Effects : Appends(f)
    <3>1. Appends(e) /\ e \in Effects
      BY <2>1 DEF Write, AppendLine, Appends, Effects
    <3> QED
      BY <2>0, <2>1, <3>1, WriteFaithful DEF TakesTurns
  <2>2. ASSUME LogDelete(p, op[p].entry)
        PROVE  /\ Faithful(cache'[p], op'[p], read'[p], snapshot', Recovered')
               /\ \E f \in Effects : Appends(f)
    <3>1. Appends(op[p].entry) /\ op[p].entry \in Effects
      BY <2>0, <2>2 DEF LogDelete, AppendLine, Appends, Faithful
    <3> QED
      BY <2>0, <2>2, <3>1, LogDeleteFaithful
  <2>3. ASSUME MergeCache(p) \/ InstallSnapshot(p) \/ \E s \in Segments : RemoveSegment(p, s)
        PROVE  /\ Faithful(cache'[p], op'[p], read'[p], snapshot', Recovered')
               /\ Recovered' = Recovered
    BY <2>0, <2>3, SnapshotFaithful
  <2>4. ASSUME WriteToCache(p) \/ (\E K : StartRead(p, K)) \/ ReplayRead(p) \/ EndRead(p)
        PROVE  /\ Faithful(cache'[p], op'[p], read'[p], snapshot', Recovered')
               /\ Recovered' = Recovered
    <3>1. Recovered' = Recovered
      BY <2>4, SameDisk DEF WriteToCache, StartRead, ReplayRead, EndRead, disk
    <3> QED
      BY <2>0, <2>4, <3>1, WriteToCacheFaithful, ReadsFaithful DEF TakesTurns
  <2>5. ASSUME \/ \E k \in Keys : Delete(p, k)
               \/ DeleteAbsent(p) \/ DeleteFromCache(p)
               \/ ForceSnapshot(p) \/ Compact(p) \/ SnapshotFails(p) \/ FinishCompact(p)
               \/ Crash(p)
        PROVE  /\ Faithful(cache'[p], op'[p], read'[p], snapshot', Recovered')
               /\ Recovered' = Recovered
    <3>1. Recovered' = Recovered
      BY <2>5, SameDisk DEF Delete, DeleteAbsent, DeleteFromCache, ForceSnapshot,
         Compact, SnapshotFails, FinishCompact, Crash, disk
    <3> QED
      BY <2>0, <2>5, <3>1, BeginFaithful
  <2> QED
    BY <1>2, <2>1, <2>2, <2>3, <2>4, <2>5 DEF Internal
<1>3. CASE Next
  <2>1. PICK p \in Procs :
          (\E e \in Writes : Write(p, e, e)) \/ LogDelete(p, op[p].entry) \/ Internal(p)
    BY <1>3 DEF Next
  <2>2. \A q \in Procs : q = p
    BY DEF TakesTurns, OneProcess
  <2> QED
    BY <1>2, <2>1, <2>2 DEF MemoryFaithful
<1> QED
  BY <1>1, <1>3

(* With one process whose reads do not run beside its operations, what the  *)
(* cache answers is what a restart would load, through failed snapshots,    *)
(* crashes and, where the log is a single segment, compact.                 *)
THEOREM CacheCoherentCorrect ==
  ASSUME TakesTurns
  PROVE  Spec => []CacheCoherent
<1>1. Init => TypeOK /\ NewestKnown /\ MemoryFaithful
  BY InitType, FaithfulInit DEF Init, NewestKnown
<1>2. TypeOK /\ NewestKnown /\ MemoryFaithful /\ [Next]_vars
        => (TypeOK /\ NewestKnown /\ MemoryFaithful)'
  BY StepType, NewestKnownStep, FaithfulStep DEF TakesTurns
<1>3. MemoryFaithful => CacheCoherent
  BY OperationFields DEF MemoryFaithful, Faithful, CacheCoherent
<1> QED
  BY <1>1, <1>2, <1>3, PTL DEF Spec

(* There, only a write changes what a restart loads with compact as well.   *)
THEOREM CompactionKeepsTheStore ==
  ASSUME TakesTurns
  PROVE  Spec => OnlyWritesChangeTheStore
<1>1. Init => TypeOK /\ NewestKnown /\ MemoryFaithful
  BY InitType, FaithfulInit DEF Init, NewestKnown
<1>2. TypeOK /\ NewestKnown /\ MemoryFaithful /\ [Next]_vars
        => (TypeOK /\ NewestKnown /\ MemoryFaithful)'
  BY StepType, NewestKnownStep, FaithfulStep DEF TakesTurns
<1>3. TypeOK /\ NewestKnown /\ MemoryFaithful /\ [Next]_vars
        => [Recovered' # Recovered => \E e \in Effects : Appends(e)]_vars
  BY StepType, FaithfulStep
<1> QED
  BY <1>1, <1>2, <1>3, PTL DEF Spec, OnlyWritesChangeTheStore
=============================================================================

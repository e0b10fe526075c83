---------------------------- MODULE MemoryStore ----------------------------
(***************************************************************************)
(* baitcoin_memory/store.py: one namespace of the persistent key-value     *)
(* store, a snapshot file and a write-ahead log of numbered segments on    *)
(* disk, and in every process a lock, an LRU cache and a write counter.    *)
(*                                                                         *)
(* put, put_all, delete, force_snapshot and compact hold the process's     *)
(* lock; get and get_all do not.  Every access to a file and to the cache  *)
(* is a step of its own, and a process may die and restart between any two.*)
(*                                                                         *)
(* A log line is the effect it has when it is replayed: a function from    *)
(* the keys it settles to their values.  Which entry the LRU list evicts   *)
(* is left open, as is whether the snapshot interval has expired.          *)
(***************************************************************************)
EXTENDS Integers, Sequences, FiniteSets

CONSTANTS
    Procs,                      \* processes that open the same data_path
    Readers,                    \* those that read in a thread of their own
    Compacting,                 \* those that call compact
    Keys, Vals,
    Absent,                     \* not a value: the key is not stored
    CACHE_SIZE,
    SNAPSHOT_INTERVAL_WRITES,
    SegmentLines,               \* lines that exceed MAX_WAL_SEGMENT_SIZE
    MaxSegments,                \* model bound on segment numbers
    MaxLines                    \* model bound on the lines of the whole log

ASSUME MemoryStoreAssumption ==
    /\ Readers \subseteq Procs /\ Compacting \subseteq Procs
    /\ IsFiniteSet(Keys)
    /\ Absent \notin Vals
    /\ CACHE_SIZE \in Nat \ {0}
    /\ SNAPSHOT_INTERVAL_WRITES \in Nat \ {0}
    /\ SegmentLines \in Nat \ {0}
    /\ MaxSegments \in Nat \ {0}
    /\ MaxLines \in Nat

VARIABLES
    snapshot,                   \* current.json
    log,                        \* [segment -> lines], <<>> if there is no file
    cache,                      \* per process: _cache
    writeCount,                 \* per process: _write_count, up to the interval
    segment,                    \* per process: _wal_segments, 0 if not known
    op,                         \* per process: the operation holding the lock
    read                        \* per process: the read outside the lock

disk   == <<snapshot, log>>
memory == <<cache, writeCount, segment>>
vars   == <<disk, memory, op, read>>

Value    == Vals \cup {Absent}
Map      == [Keys -> Value]
Segments == 1..MaxSegments
NoEffect == [k \in {} |-> Absent]

PutEffect(k, v) == [x \in {k} |-> v]
DeleteEffect(k) == PutEffect(k, Absent)
\* The lines put, put_all and delete append.
Writes  == {PutEffect(k, v) : k \in Keys, v \in Vals} \cup Map
Effects == Writes \cup {DeleteEffect(k) : k \in Keys}
Lines   == Effects \cup {NoEffect}
Caches  == UNION {[D -> Vals] : D \in SUBSET Keys}

Overlay(f, m)  == [k \in DOMAIN m |-> IF k \in DOMAIN f THEN f[k] ELSE m[k]]
Present(f, D)  == [k \in {x \in D \cap DOMAIN f : f[x] # Absent} |-> f[k]]

\* Faulty: put_all and delete leave the keys they name in the cache.
KeepAll(c, D)  == c

Without(c, D)  == [k \in DOMAIN c \ D |-> c[k]]

-----------------------------------------------------------------------------
(* The log and its replay.                                                 *)

Positions   == UNION {{s} \X DOMAIN log[s] : s \in Segments}
LineAt(q)   == log[q[1]][q[2]]

\* Faulty: the segments come in an order that is not that of their numbers.
BeforeUnsorted(q, r) == q[1] > r[1] \/ (q[1] = r[1] /\ q[2] <= r[2])

Before(q, r) == q[1] < r[1] \/ (q[1] = r[1] /\ q[2] <= r[2])

Settling(k) == {q \in Positions : k \in DOMAIN LineAt(q)}

\* The segments are replayed in the order of their numbers over the snapshot
\* that was read, so the last line that settles a key decides.
Replay(base) ==
    [k \in Keys |->
        IF Settling(k) = {} THEN base[k]
        ELSE LineAt(CHOOSE q \in Settling(k) :
                        \A r \in Settling(k) : Before(r, q))[k]]

\* What a process that starts now would load.
Recovered == Replay(snapshot)

LogFiles == {s \in Segments : log[s] # <<>>}

CurrentSegment(p) ==
    IF segment[p] # 0 THEN segment[p]
    ELSE IF LogFiles = {} THEN 1
    ELSE CHOOSE s \in LogFiles : \A t \in LogFiles : t <= s

\* The segment an append goes to, after a rotation if the current one is full.
AppendSegment(p) ==
    LET s == CurrentSegment(p) IN
    IF s \in LogFiles /\ Len(log[s]) >= SegmentLines THEN s + 1 ELSE s

AppendLine(p, line) ==
    LET s == AppendSegment(p) IN
    /\ s \in Segments
    /\ Cardinality(Positions) < MaxLines
    /\ log' = [log EXCEPT ![s] = Append(@, line)]
    /\ segment' = [segment EXCEPT ![p] = s]

-----------------------------------------------------------------------------
(* The cache.                                                              *)

\* Faulty: nothing is ever evicted.
CachePutUnbounded(c, new) ==
    {[k \in DOMAIN c \cup DOMAIN new |->
        IF k \in DOMAIN new THEN new[k] ELSE c[k]]}

\* The caches that result from putting the entries of new into c one by one.
CachePut(c, new) ==
    LET all == [k \in DOMAIN c \cup DOMAIN new |->
                    IF k \in DOMAIN new THEN new[k] ELSE c[k]]
        fits(D) == IF Cardinality(DOMAIN all) <= CACHE_SIZE
                   THEN D = DOMAIN all
                   ELSE /\ Cardinality(D) = CACHE_SIZE
                        /\ DOMAIN new \subseteq D \/ D \subseteq DOMAIN new
    IN  {[k \in D |-> all[k]] : D \in {E \in SUBSET DOMAIN all : fits(E)}}

-----------------------------------------------------------------------------
EmptyMap == [k \in Keys |-> Absent]

\* What the holder of the lock is about to do, and with what.
Idle == [at |-> "idle", entry |-> NoEffect, data |-> EmptyMap,
         compact |-> FALSE, files |-> {}]
Writing(at, e) == [at |-> at, entry |-> e, data |-> EmptyMap,
                   compact |-> FALSE, files |-> {}]
LookingUp(e) == [at |-> "lookup", entry |-> e, data |-> snapshot,
                 compact |-> FALSE, files |-> {}]
Snapshotting(at, m, compacts) ==
    [at |-> at, entry |-> NoEffect, data |-> m,
     compact |-> compacts, files |-> {}]
Removing(S) == [at |-> "remove", entry |-> NoEffect, data |-> EmptyMap,
                compact |-> TRUE, files |-> S]

NoRead == [at |-> "idle", keys |-> {}, data |-> EmptyMap]
Reading(at, K, m) == [at |-> at, keys |-> K, data |-> m]

Init ==
    /\ snapshot = EmptyMap
    /\ log = [s \in Segments |-> <<>>]
    /\ cache = [p \in Procs |-> NoEffect]
    /\ writeCount = [p \in Procs |-> 0]
    /\ segment = [p \in Procs |-> 0]
    /\ op = [p \in Procs |-> Idle]
    /\ read = [p \in Procs |-> NoRead]

\* A process without a reader thread reads only between its own operations.
MayStart(p) == op[p] = Idle /\ (p \in Readers \/ read[p] = NoRead)

\* The end of put, put_all and delete: the operation returns, or takes a
\* snapshot because enough was written or because the interval has expired.
CountWrite(p) ==
    LET n == IF writeCount[p] = SNAPSHOT_INTERVAL_WRITES
             THEN writeCount[p] ELSE writeCount[p] + 1
    IN  /\ writeCount' = [writeCount EXCEPT ![p] = n]
        /\ \/ /\ n < SNAPSHOT_INTERVAL_WRITES
              /\ op' = [op EXCEPT ![p] = Idle]
           \/ op' = [op EXCEPT ![p] = Snapshotting("merge", snapshot, FALSE)]

\* put and put_all: the line is on disk before the cache knows of it.
Write(p, e, line) ==
    /\ MayStart(p)
    /\ AppendLine(p, line)
    /\ op' = [op EXCEPT ![p] = Writing("logged", e)]
    /\ UNCHANGED <<snapshot, cache, writeCount, read>>

WriteToCache(p) ==
    /\ op[p].at = "logged"
    /\ LET e == op[p].entry IN
       \E c \in CachePut(Without(cache[p], DOMAIN e), Present(e, DOMAIN e)) :
            cache' = [cache EXCEPT ![p] = c]
    /\ CountWrite(p)
    /\ UNCHANGED <<disk, segment, read>>

\* delete: looks the key up on disk, forgets it, then logs the deletion.
Delete(p, k) ==
    /\ MayStart(p)
    /\ op' = [op EXCEPT ![p] = LookingUp(DeleteEffect(k))]
    /\ UNCHANGED <<disk, memory, read>>

DeleteAbsent(p) ==
    /\ op[p].at = "lookup"
    /\ Present(Replay(op[p].data), DOMAIN op[p].entry) = NoEffect
    /\ op' = [op EXCEPT ![p] = Idle]
    /\ UNCHANGED <<disk, memory, read>>

DeleteFromCache(p) ==
    /\ op[p].at = "lookup"
    /\ Present(Replay(op[p].data), DOMAIN op[p].entry) # NoEffect
    /\ cache' = [cache EXCEPT ![p] = Without(@, DOMAIN op[p].entry)]
    /\ op' = [op EXCEPT ![p] = Writing("evicted", op[p].entry)]
    /\ UNCHANGED <<disk, writeCount, segment, read>>

LogDelete(p, line) ==
    /\ op[p].at = "evicted"
    /\ AppendLine(p, line)
    /\ CountWrite(p)
    /\ UNCHANGED <<snapshot, cache, read>>

-----------------------------------------------------------------------------
(* Snapshots and compaction.                                               *)

ForceSnapshot(p) ==
    /\ MayStart(p)
    /\ op' = [op EXCEPT ![p] = Snapshotting("merge", snapshot, FALSE)]
    /\ UNCHANGED <<disk, memory, read>>

Compact(p) ==
    /\ MayStart(p)
    /\ p \in Compacting
    /\ op' = [op EXCEPT ![p] = Snapshotting("merge", snapshot, TRUE)]
    /\ UNCHANGED <<disk, memory, read>>

MergeCache(p) ==
    /\ op[p].at = "merge"
    /\ LET merged == Overlay(cache[p], Replay(op[p].data)) IN
       op' = [op EXCEPT ![p] = Snapshotting("install", merged, op[p].compact)]
    /\ UNCHANGED <<disk, memory, read>>

InstallSnapshot(p) ==
    /\ op[p].at = "install"
    /\ snapshot' = op[p].data
    /\ writeCount' = [writeCount EXCEPT ![p] = 0]
    /\ op' = [op EXCEPT ![p] =
                IF op[p].compact THEN Removing(LogFiles) ELSE Idle]
    /\ UNCHANGED <<log, cache, segment, read>>

\* Faulty: the error is swallowed and compact goes on to remove the log.
SnapshotFailsSilently(p) ==
    /\ op[p].at = "install"
    /\ op' = [op EXCEPT ![p] =
                IF op[p].compact THEN Removing(LogFiles) ELSE Idle]
    /\ UNCHANGED <<disk, memory, read>>

\* An OSError before the rename: the operation raises, the old file stays.
SnapshotFails(p) ==
    /\ op[p].at = "install"
    /\ op' = [op EXCEPT ![p] = Idle]
    /\ UNCHANGED <<disk, memory, read>>

\* compact goes through the files in the order os.listdir returns them, and
\* passes over one it cannot remove.
RemoveSegment(p, s) ==
    /\ op[p].at = "remove"
    /\ s \in op[p].files
    /\ op' = [op EXCEPT ![p] = Removing(op[p].files \ {s})]
    /\ \/ log' = [log EXCEPT ![s] = <<>>]
       \/ UNCHANGED log
    /\ UNCHANGED <<snapshot, memory, read>>

FinishCompact(p) ==
    /\ op[p].at = "remove"
    /\ op[p].files = {}
    /\ segment' = [segment EXCEPT ![p] = 0]
    /\ op' = [op EXCEPT ![p] = Idle]
    /\ UNCHANGED <<disk, cache, writeCount, read>>

-----------------------------------------------------------------------------
(* Reads, outside the lock.                                                *)

\* get looks at the disk when the key is not cached; get_all always does.
StartRead(p, K) ==
    /\ read[p] = NoRead
    /\ p \in Readers \/ op[p] = Idle
    /\ K = Keys \/ K \cap DOMAIN cache[p] = {}
    /\ read' = [read EXCEPT ![p] = Reading("replay", K, snapshot)]
    /\ UNCHANGED <<disk, memory, op>>

ReplayRead(p) ==
    /\ read[p].at = "replay"
    /\ LET r == read[p] IN
       read' = [read EXCEPT ![p] = Reading("return", r.keys, Replay(r.data))]
    /\ UNCHANGED <<disk, memory, op>>

\* What was found goes into the cache, whatever has been written meanwhile.
EndRead(p) ==
    /\ read[p].at = "return"
    /\ \E c \in CachePut(cache[p], Present(read[p].data, read[p].keys)) :
            cache' = [cache EXCEPT ![p] = c]
    /\ read' = [read EXCEPT ![p] = NoRead]
    /\ UNCHANGED <<disk, writeCount, segment, op>>

\* The process dies and starts again: the disk is all that is left.
Crash(p) ==
    /\ cache' = [cache EXCEPT ![p] = NoEffect]
    /\ writeCount' = [writeCount EXCEPT ![p] = 0]
    /\ segment' = [segment EXCEPT ![p] = 0]
    /\ op' = [op EXCEPT ![p] = Idle]
    /\ read' = [read EXCEPT ![p] = NoRead]
    /\ UNCHANGED disk

-----------------------------------------------------------------------------
\* Every step but the two that append.
Internal(p) ==
    \/ WriteToCache(p)
    \/ \E k \in Keys : Delete(p, k)
    \/ DeleteAbsent(p)
    \/ DeleteFromCache(p)
    \/ ForceSnapshot(p)
    \/ Compact(p)
    \/ MergeCache(p)
    \/ InstallSnapshot(p)
    \/ SnapshotFails(p)
    \/ \E s \in Segments : RemoveSegment(p, s)
    \/ FinishCompact(p)
    \/ \E k \in Keys : StartRead(p, {k})
    \/ StartRead(p, Keys)
    \/ ReplayRead(p)
    \/ EndRead(p)
    \/ Crash(p)

Next ==
    \E p \in Procs :
        \/ \E e \in Writes : Write(p, e, e)
        \/ LogDelete(p, op[p].entry)
        \/ Internal(p)

Spec == Init /\ [][Next]_vars

-----------------------------------------------------------------------------
(* Properties.                                                             *)

Operation == [at : {"idle", "logged", "lookup", "evicted", "merge", "install",
                    "remove"},
              entry : Lines, data : Map,
              compact : BOOLEAN, files : SUBSET Segments]
ReadOperation == [at : {"idle", "replay", "return"},
                  keys : SUBSET Keys, data : Map]

TypeOK ==
    /\ snapshot \in Map
    /\ log \in [Segments -> Seq(Lines)]
    /\ cache \in [Procs -> Caches]
    /\ \A p \in Procs : Cardinality(DOMAIN cache[p]) <= CACHE_SIZE
    /\ writeCount \in [Procs -> 0..SNAPSHOT_INTERVAL_WRITES]
    /\ segment \in [Procs -> 0..MaxSegments]
    /\ op \in [Procs -> Operation]
    /\ read \in [Procs -> ReadOperation]

\* The step appends a line with effect e to some segment.
Appends(e) ==
    \E s \in Segments : log' = [log EXCEPT ![s] = Append(@, e)]

\* Only an append changes what a restart would load: no snapshot, failed
\* snapshot, cache merge, compaction step, read or crash adds, drops, reverts
\* or resurrects a key (_create_snapshot, compact, _load_namespace).
OnlyWritesChangeTheStore ==
    [][Recovered' # Recovered => \E e \in Effects : Appends(e)]_vars

\* From the step that puts the line of a put, put_all or delete in the log, a
\* restart loads exactly the written value for the keys it names and what was
\* there for the others (_append_wal, _load_namespace).
WritesTakeEffect ==
    [][\A e \in Effects : Appends(e) => Recovered' = Overlay(e, Recovered)]_vars

\* When a process has no operation and no read in progress, what its cache
\* answers is what a restart would load (get, put, delete).
CacheCoherent ==
    \A p \in Procs :
        op[p] = Idle /\ read[p] = NoRead =>
            \A k \in DOMAIN cache[p] : cache[p][k] = Recovered[k]
=============================================================================

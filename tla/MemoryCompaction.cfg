SPECIFICATION Spec
CONSTANTS
    Procs = {p}
    Readers = {}
    Compacting = {p}
    Keys = {k1, k2}
    Vals = {v1, v2}
    Absent = Absent
    CACHE_SIZE = 1
    SNAPSHOT_INTERVAL_WRITES = 2
    SegmentLines = 3
    MaxSegments = 1
    MaxLines = 3
SYMMETRY Symmetry
INVARIANTS
  TypeOK
  CacheCoherent
PROPERTIES
  OnlyWritesChangeTheStore

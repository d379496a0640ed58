SPECIFICATION Spec
CONSTANTS
  MaxRev = 3
  Profiles = {benni}
  Payloads = {empty, plain}
  Accepted = {empty, plain}
  Procs = {ha1}
  Workers = {w1, w2}
  DraftIds = {d1}
  Empty = empty
  Valid <- SameVersion
  Unchecked = Unchecked
  Readers = {"read", "export", "open"}
  RollbackMayOmitBase = FALSE
  CacheMayFail = FALSE
  MaxActs = 4
  MaxStamp = 3
  MaxFaults = 3
  benni = benni
  empty = empty
  plain = plain
  extended = extended
  ha1 = ha1
  ha2 = ha2
  w1 = w1
  w2 = w2
  d1 = d1
SYMMETRY Symmetry
INVARIANT CacheNotOlder
PROPERTY RuntimeNeverRegresses
PROPERTY NoEditLost

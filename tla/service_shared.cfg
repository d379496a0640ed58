SPECIFICATION FairSpec
CONSTANTS
  MaxRev = 2
  Profiles = {benni}
  Payloads = {empty, extended}
  Accepted = {empty, extended}
  Procs = {ha1, ha2}
  Workers = {w1}
  DraftIds = {d1}
  Empty = empty
  Valid <- MixedVersions
  Unchecked = Unchecked
  Readers = {"read", "open"}
  RollbackMayOmitBase = TRUE
  CacheMayFail = TRUE
  MaxActs = 2
  MaxStamp = 2
  MaxFaults = 1
  benni = benni
  empty = empty
  plain = plain
  extended = extended
  ha1 = ha1
  ha2 = ha2
  w1 = w1
  w2 = w2
  d1 = d1
INVARIANT TypeOK
INVARIANT InstalledWasActivated
PROPERTY RuntimeConverges

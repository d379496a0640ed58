SPECIFICATION Spec
CONSTANTS
  Clients = {c1, c2}
  MaxRev = 2
  Profiles = {benni}
  Payloads = {good, bad}
  Accepted = {good}
  Expectations = {0, Unchecked}
  Nobody = Nobody
  Unchecked = Unchecked
  c1 = c1
  c2 = c2
  good = good
  bad = bad
  benni = benni
PROPERTY EmptyOnlyWhenEmpty

SPECIFICATION FairSpec
CONSTANTS
  Clients = {c1, c2}
  MaxRev = 2
  Profiles = {benni, eltern}
  Payloads = {good, bad}
  Accepted = {good}
  Expectations = {0, 1, Unchecked}
  Nobody = Nobody
  Unchecked = Unchecked
  c1 = c1
  c2 = c2
  good = good
  bad = bad
  benni = benni
  eltern = eltern
INVARIANT TypeOK
INVARIANT OneActivePerProfile
INVARIANT DecisionsStayCurrent
INVARIANT ActivationNeverTrips
PROPERTY ReplacesExpectedBase
PROPERTY AnswersAreTruthful
PROPERTY HistorySpec
PROPERTY CallsReturn

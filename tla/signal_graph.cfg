SPECIFICATION Spec
CONSTANTS
  Bindings = {"b1", "b2", "b3"}
  Contract = "c"
  Configs <- MCConfigs
  Schemas <- MCSchemas
  Observations <- MCObservations
  MaxAge = 3
  NoSignal = NoSignal
  NoPlan = NoPlan
INVARIANT TypeOK
INVARIANT OpeningFieldsAgree
INVARIANT HeldWasValid
INVARIANT ClaimsAreProven
INVARIANT PhysicalNeverGuessed
INVARIANT DecisionsAreForced
PROPERTY ActivationKeepsAge

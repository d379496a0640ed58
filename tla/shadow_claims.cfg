SPECIFICATION GatesSpec
CONSTANTS
  Bindings = {"b1", "b2", "b3", "b4"}
  Contract = "c"
  Configs <- MCConfigs
  Schemas <- MCSchemas
  Observations <- MCObservations
  Records <- MCRecords
  MaxAge = 2
  NoSignal = NoSignal
  NoPlan = NoPlan
INVARIANT ShadowClaimsAreCurrent

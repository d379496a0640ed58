SPECIFICATION Spec
CONSTANTS
  Sources = {s1}
  MaxGraphs = 3
  MaxLoads = 2
  MaxEvents = 3
  MaxQueue = 3
  ReadsMiss = FALSE
  ActivationsDuringSetup = TRUE
  CallsSpanUnload = FALSE
INVARIANT BoundToLive

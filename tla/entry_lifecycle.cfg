SPECIFICATION Spec
CONSTANTS
  Sources = {s1}
  MaxGraphs = 3
  MaxLoads = 2
  MaxEvents = 3
  MaxQueue = 3
  ReadsMiss = TRUE
  ActivationsDuringSetup = TRUE
  CallsSpanUnload = FALSE
INVARIANT TypeOK
INVARIANT ListenersMatch
INVARIANT SignalsCurrent
PROPERTY NeverFallsBehind
PROPERTY UnloadIsFinal

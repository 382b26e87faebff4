CONSTANTS
  c1 = c1
  c2 = c2
  Clients = {c1}
  Listener = Listener
  Nobody = Nobody
  Interrupts = "outside"
  Loud = {c1}
  TaskBound = 1
  SignalBound = 1
SPECIFICATION Spec
INVARIANTS NoCircularWait GameUsesConnections
PROPERTIES DataGetsThrough ClientsComeAndGo
CHECK_DEADLOCK FALSE

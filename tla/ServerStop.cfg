CONSTANTS
  c1 = c1
  c2 = c2
  Clients = {c1}
  Listener = Listener
  Nobody = Nobody
  Interrupts = "outside"
  Loud = {}
  TaskBound = 1
  SignalBound = 1
SPECIFICATION Spec
PROPERTIES StopReturns
CHECK_DEADLOCK FALSE

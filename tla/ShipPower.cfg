SPECIFICATION Spec
CONSTANTS
  reactor = reactor
  second = second
  engine = engine
  thrusters = thrusters
  computer = computer
  Reactors = {reactor, second}
  Consumers <- MCConsumers
  Computer = computer
  Engines = {engine}
  Thrusters = {thrusters}
  Position <- MCPosition
  Pristine = 2
  Optimal <- MCOptimal
  PeakDraw <- MCPeakDraw
  Rated <- MCRated
  Peak <- MCPeak
  Charge <- MCCharge
  Burn <- MCBurn
  TankSize = 1
  FuelBound = 1
  LandingTicks = 2
  LaunchTicks = 1
  Requests <- MCPositiveRequests
  Fragile = {reactor, engine}
INVARIANTS InoperableUnpowered OfflineIsAtRest
PROPERTIES BudgetRestored ComputerShedLast ReactorsWithinPeak OverdrawEnds

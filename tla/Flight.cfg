SPECIFICATION FlightSpec
CONSTANTS
  Quarter = 2
  Rate = 3
  Engines <- MCEngines
  RevertPercent = 50
  Tank = 2
  RequiredCharge = 2
  ChargeSpeed = 1
  Courses <- MCCourses
  Speeds <- MCSpeeds
  PowerStates <- MCPowerStates
PROPERTIES TurnsTheShortWay EnginesKeepTheLimit StopIsReached

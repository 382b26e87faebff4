SPECIFICATION SteadySpec
CONSTANTS
  carrier = carrier
  shuttle = shuttle
  planet = planet
  pad = pad
  hangar = hangar
  locker = locker
  apron = apron
  Ships = {carrier, shuttle}
  Planets = {planet}
  Locations = {pad, hangar, locker}
  Aprons = {apron}
  Space = space
  None = none
  Host <- MCHost
  Size <- MCSize
  Capacity <- MCLargeLocker
  Exits <- MCLocalExits
  Failures = {"cold"}
  Perishable = {pad}
  LandingTicks = 2
  LaunchTicks = 1
  RosterBound = 2
INVARIANTS LandedShipIsThere RosterIsAccurate
PROPERTIES NoSecondLanding SequenceEndsOrStrands

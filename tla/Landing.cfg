SPECIFICATION Spec
CONSTANTS
  carrier = carrier
  shuttle = shuttle
  planet = planet
  pad = pad
  hangar = hangar
  locker = locker
  apron = apron
  Ships = {carrier, shuttle}
  Planets = {planet}
  Locations = {pad, hangar}
  Aprons = {apron}
  Space = space
  None = none
  Host <- MCHost
  Size <- MCSize
  Capacity <- MCCapacity
  Exits <- MCLocalExits
  Failures = {"dark", "cold"}
  Perishable = {shuttle}
  LandingTicks = 2
  LaunchTicks = 1
  RosterBound = 2
INVARIANT FlightIsCoherent

SPECIFICATION Spec
CONSTANTS
  hunter = hunter
  quarry = quarry
  buoy = buoy
  beacon = beacon
  bridge = bridge
  helm = helm
  cannon = cannon
  lance = lance
  screen = screen
  plate = plate
  starboard = starboard
  fore = fore
  Ships = {hunter, quarry}
  Others = {buoy, beacon}
  Sighted = {hunter}
  Weapons = {cannon, lance}
  Shields = {screen, plate}
  Arcs = {starboard, fore}
  None = none
  Computer <- MCComputer
  Owner <- MCOwner
  Position <- MCPosition
  MountPoint <- MCMountPoint
  FullCharge <- MCFullCharge
  MinCharge <- MCMinCharge
  ChargeSpeed <- MCSpeed
  MaxAbsorption <- MCOne
  Regen <- MCOne
  HullPoints <- MCHull
  Grain = 2
  Fadings = {0, 1}
  Weakenings = {0, 1, 2}
  Switchable = {bridge, cannon, screen}
  Movers = {hunter, quarry}
  Perishable = {quarry, buoy}
INVARIANT LockIsContact
PROPERTIES StaleIsBounded HullPaidByCharge ShieldsFirst

SPECIFICATION Spec
CONSTANTS
  tender = tender
  guest = guest
  bench = bench
  port = port
  star = star
  spare = spare
  engine = engine
  shop = shop
  Ships = {tender, guest}
  Systems = {bench, port, star, spare}
  Benches = {bench}
  None = none
  HullId = hullid
  Owner <- MCOwner
  Class <- MCClass
  Position <- MCPosition
  Full = 3
  JobBound = 3
  Work <- MCWork
  Mass <- MCMass
  HullPoints <- MCHull
  HullMass <- MCHullMass
  Guests = {guest}
  Fragile = {tender, guest, bench, spare}
  Removable = {port, star}
PROPERTIES JobsShiftOnlyByRemoval CapacityIsShared OnlyGuestsGain RepairsEnd

SPECIFICATION ViewSpec
CONSTANTS
  Ships = {scout, tug}
  Ids = {i, j}
  i = i
  j = j
  planet = planet
  probe = probe
  Nothing = nothing
  Values = {0, 1, 2, planet, probe}
  Pictures <- MCPictures
  NavStats <- MCNavStats
  WireBound = 1
  DriftBound = 2
INVARIANTS ViewAgrees CrewIsShown
PROPERTY ShipAppears

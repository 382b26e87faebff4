SPECIFICATION DockingSpec
CONSTANTS
  ferry = ferry
  pod = pod
  station = station
  bow = bow
  stern = stern
  podlock = podlock
  gangway = gangway
  Bodies = {ferry, pod, station}
  Crewed = {ferry, pod}
  Hatches = {bow, stern, podlock, gangway}
  Fitted <- MCFitted
  Reusable = {stern}
  Gaters = {pod}
  Positions = {0, 1, 2}
  DockingDistance = 1
  Nothing = nothing
INVARIANTS LinksAreMutual ConnectedExitsLead LinkedWithinRange
PROPERTY PassageSpec
CHECK_DEADLOCK FALSE

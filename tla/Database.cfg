SPECIFICATION Spec
CONSTANTS
  main = main
  other = other
  frigate = frigate
  cruiser = cruiser
  zone = zone
  alpha = alpha
  beta = beta
  pod1 = pod1
  pod2 = pod2
  engine = engine
  shield = shield
  drive = drive
  screen = screen
  spare = spare
  helm = helm
  Rooms = {main, other}
  Classes = {frigate, cruiser}
  Territories = {zone}
  Ships = {alpha, beta}
  Pods = {pod1, pod2}
  Systems = {engine, shield}
  Instances = {drive, screen, spare}
  Consoles = {helm}
  TypeCount = 2
  Type <- MCType
  Nothing = nothing
  InitialRows <- MCInitialRows
  MaxEdits = 3
  MaxBreaks = 2
INVARIANTS Filed NumbersAreDistinct ReferencesHold
PROPERTY StoreSpec

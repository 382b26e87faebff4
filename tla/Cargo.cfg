SPECIFICATION Spec
CONSTANTS
  miner = miner
  field = field
  well = well
  fore = fore
  aft = aft
  drill = drill
  ore = ore
  gas = gas
  depot = depot
  pod = pod
  None = none
  Commods = {ore, gas}
  Resources = {field, well}
  Bays = {fore, aft}
  Warehouses = {depot}
  Pods = {pod}
  Harvesters = {drill}
  Owner <- MCOwner
  Position <- MCPosition
  Space <- MCSpace
  Grain = 2
  Stock <- MCStock
  Generates <- MCGenerates
  Destructs = {field}
  Mines <- MCMines
  Yields = {1, 2, 3}
  Loads = {1}
  StockBound = 2
  Deletable = {gas}
INVARIANT TypeOK
PROPERTIES CargoHasASource CargoIsNotLost

SPECIFICATION FairSpec
CONSTANTS
  w1 = w1  w2 = w2
  rootSignature = rootSignature  collection = collection  stateObject = stateObject
  pipeline = pipeline
  Workers = {w1, w2}
  Providers = {rootSignature}
  Objects = {collection, stateObject, pipeline}
  Uses <- Chain
  MayFail = {collection}
  MaxRef = 2
INVARIANTS TypeOK ProvidersAlive CountsAgree CreatedOnce ArgumentsFound
PROPERTIES CallsReturn
CHECK_DEADLOCK FALSE

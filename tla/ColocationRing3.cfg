SPECIFICATION FairSpec
CONSTANTS
  infer = infer
  teacher = teacher
  train = train
  Authority = authority
  Ring <- ThreeRing
  Fallback = {infer}
  MaxWindows <- UnevenWindows
  Patient = TRUE
INVARIANTS TypeOK GrantChain OneLiveRow WorkersComputeOnCard RequestIdsUnique
PROPERTIES ImplementsToken RequestsServed FallbackRegains

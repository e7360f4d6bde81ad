SPECIFICATION Spec
CONSTANTS
  infer = infer
  teacher = teacher
  train = train
  Authority = authority
  Ring <- ThreeRing
  Fallback = {infer}
  MaxWindows <- EvenWindows
  Patient = FALSE
INVARIANTS CardExclusive ChosenRowStillOpen

CONSTANTS
  Clients = {c1, c2}
  Types = {boarded}
  DefaultTypes = {boarded}
  MaxEvents = 3
  BatchSize = 1
  MaxPrefs = 1
  MaxLate = 1
SPECIFICATION Spec
SYMMETRY ClientSymmetry
INVARIANTS TypeOK Inv NoSilentLoss NoGaps
PROPERTIES MarkedByItsOwnAttempt ImplementsDelivery

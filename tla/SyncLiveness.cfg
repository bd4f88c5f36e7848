CONSTANTS
  Clients = {c1}
  Types = {boarded}
  DefaultTypes = {boarded}
  MaxEvents = 2
  BatchSize = 2
  MaxPrefs = 2
  MaxLate = 1
SPECIFICATION FairSpec
INVARIANT Inv
PROPERTIES UpdateSettlesTheBatch EventuallySettled CancelledClientStops

CONSTANTS
  Keys <- ShipEvents
  Period = 1
  MaxTime = 1
  MaxTailers = 2
  MaxLog = 3
  MaxFailures = 1
SPECIFICATION Spec
INVARIANTS TypeOK TrayFollowsTheLog LogReachesStore
PROPERTIES RowsApart EverythingIsPublished
CHECK_DEADLOCK FALSE

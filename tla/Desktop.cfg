CONSTANTS
  Requests = {r1, r2}
  Versions <- Releases
  Current <- Runs
  NoRelease = NoRelease
SPECIFICATION Spec
INVARIANTS TypeOK ResultIsFirstReport WaitsOnlyForAnother UpdateGoesForward NothingIsLeft
PROPERTIES OnlyRequestIsAnswered FlowEnds UpdateEnds
CHECK_DEADLOCK FALSE

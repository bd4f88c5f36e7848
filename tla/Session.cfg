CONSTANTS
  Clients = {c1, c2}
  Types = {boarded}
  DefaultTypes = {boarded}
  MaxEvents = 0
  BatchSize = 1
  MaxPrefs = 1
  MaxLate = 0
  Calls = {k1}
  Envs = {"production", "staging"}
  DefaultEnv = "production"
  NoClient = NoClient
  NoAuth = NoAuth
  LegacyToken = TRUE
SPECIFICATION SessionSpec
SYMMETRY ClientSymmetry
INVARIANTS SessionInv ServingClientIsReachable ConnectedIsServed RestartKeepsConnection
PROPERTY DisconnectStopsWhatServed

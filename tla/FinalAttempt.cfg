CONSTANTS
  Clients = {c1, c2}
  Types = {boarded}
  DefaultTypes = {boarded}
  MaxEvents = 1
  BatchSize = 1
  MaxPrefs = 1
  MaxLate = 0
  Calls = {k1}
  Envs = {"production"}
  DefaultEnv = "production"
  NoClient = NoClient
  NoAuth = NoAuth
  LegacyToken = FALSE
SPECIFICATION SessionSpec
PROPERTY FinalAttemptBeforeClose

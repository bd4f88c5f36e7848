CONSTANTS
  Clients = {c1}
  Types = {boarded}
  DefaultTypes = {boarded}
  MaxEvents = 1
  BatchSize = 1
  MaxPrefs = 2
  MaxLate = 0
SPECIFICATION Spec
PROPERTY ChecksFollowPreferences

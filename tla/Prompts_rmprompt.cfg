SPECIFICATION SettingsSpec
CONSTANTS
  e1 = e1
  e2 = e2
  e3 = e3
  e4 = e4
  alice = alice
  bob = bob
  Events <- ThreeEvents
  Nicks <- TwoNicks
  Triggers <- TwoTriggers
  Location = 2
  Tools = {weather_forecast}
  UnknownTool = other
  NoRow = NoRow
  MaxRewrites = 1
INVARIANT ReplyNamesRemovedPrompt
CHECK_DEADLOCK FALSE

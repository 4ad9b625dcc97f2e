CONSTANTS
  c1 = c1
  k1 = k1
  p1 = p1
  Clients <- MCClients
  Keyboards <- MCKeyboards
  Plugins <- MCPlugins
  Buttons <- MCButtons
  Thresholds <- MCThresholds
  MaxWindows = 2
  MaxMissed = 2
  MaxDialogs = 2
SPECIFICATION Spec
INVARIANTS TypeOK NoStrayDialog AllowedByRule
PROPERTIES Answered

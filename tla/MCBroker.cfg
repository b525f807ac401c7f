SPECIFICATION BrokerSpec
CONSTANTS
  a = a
  b = b
  Tabs = {a, b}
  Buffer = 2
  DataEvents <- BoardAndItem
  ThemeEvents <- ThemeOnly
  MayNotOpen = TRUE
  MaxPollers = 2
  MaxChanges <- OneOfEach
  MaxFaults = 0
INVARIANTS BrokerSound
PROPERTIES ChangesArrive CloseReturns
CHECK_DEADLOCK FALSE

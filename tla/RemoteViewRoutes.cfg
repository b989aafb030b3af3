\* Two sessions on a pool of two entries, in six scenarios.
SPECIFICATION RoutesFairSpec
CONSTANTS
    None = None
    a = a
    b = b
    Sessions = {a, b}
    Entries = {1, 2}
    MaxOpens = 3
    Scenarios <- MCScenarios
INVARIANTS
  RecordsAgree
  OneBrowserPerRoute
PROPERTIES
  LeaseFinal
  EntryReturns
CHECK_DEADLOCK FALSE

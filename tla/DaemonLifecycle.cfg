\* Two clients, in three scenarios.
SPECIFICATION Spec
CONSTANTS
    ca = ca
    cb = cb
    Clients = {ca, cb}
    Scenarios <- MCScenarios
    MaxDaemons = 3
    MaxBrowsers = 2
    FirstBuild = "old"
INVARIANTS
  RunsHaveCause
  QuietSessionAuthorised
  ResumedWhatWasHanded
CHECK_DEADLOCK FALSE

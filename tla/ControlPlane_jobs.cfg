\* Two client requests (one lease bound, one network capture) and a monitor run
\* over a channel of one, with two cancel calls and a journal of two.
SPECIFICATION Spec
CONSTANTS
  r1 = r1  r2 = r2  m1 = m1  p1 = p1  p2 = p2
  j1 = j1  j2 = j2  jm = jm
  None = None
  Requests = {r1, r2, m1}
  PrivateRequests = {}
  PreflightRequests = {}
  MonitorRequests = {m1}
  LeaseRequests = {r1}
  CaptureRequests = {r2}
  TimedRequests = {r1}
  Jobs = {j1, j2, jm}
  JobOf <- MCJobOf
  Capacity = 1
  MaxJobs = 2
  MaxWaits = 2
  MaxCancels = 2
INVARIANTS
  QueueDepthExact
  TokenOfRunningJob
  AnswerAgreesWithJournal
  ParkedCancelHolds
  WaitEventsPaired
PROPERTIES
  SettledNeverRewritten
  KeepsPromise

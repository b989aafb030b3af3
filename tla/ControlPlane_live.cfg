\* A lease-bound client request with a job timeout, beside a private
\* request and a preflight whose callers may give up.
SPECIFICATION FairSpec
CONSTANTS
  r1 = r1  r2 = r2  m1 = m1  p1 = p1  p2 = p2
  j1 = j1  j2 = j2  jm = jm
  None = None
  Requests = {r1, p1, p2}
  PrivateRequests = {p1, p2}
  PreflightRequests = {p2}
  MonitorRequests = {}
  LeaseRequests = {r1}
  CaptureRequests = {}
  TimedRequests = {r1}
  Jobs = {j1}
  JobOf <- MCJobOf
  Capacity = 1
  MaxJobs = 1
  MaxWaits = 2
  MaxCancels = 1
INVARIANTS
  QueueDepthExact
PROPERTIES
  KeepsPromise
  EveryCallerAnswered

\* One request without a job timeout and one cancel call.
SPECIFICATION FairSpec
CONSTANTS
  r1 = r1  r2 = r2  m1 = m1  p1 = p1  p2 = p2
  j1 = j1  j2 = j2  jm = jm
  None = None
  Requests = {r1}
  PrivateRequests = {}
  PreflightRequests = {}
  MonitorRequests = {}
  LeaseRequests = {}
  CaptureRequests = {}
  TimedRequests = {}
  Jobs = {j1}
  JobOf <- MCJobOf
  Capacity = 1
  MaxJobs = 1
  MaxWaits = 0
  MaxCancels = 1
PROPERTIES
  RequestedCancelEnds

\* A reader, two ordinary mutations and a durable one in two processes, beside
\* a writer of an older release, with a power failure.
SPECIFICATION FairSpec
CONSTANTS
  r1 = r1  m1 = m1  m2 = m2  d1 = d1  l1 = l1  a = a  b = b
  Readers = {r1}
  Mutators = {m1, m2}
  Durable = {d1}
  HandoffCalls = {m1, d1}
  Legacy = {l1}
  Processes = {a, b}
  ProcessOf <- MCProcessOf
  MaxPowerFails = 1
INVARIANTS
  NoLostUpdate
  HandoffKept
  SnapshotWhole
PROPERTIES
  EveryCallReturns

\* Any three of two commands, a raw message and two shutdowns for different
\* permits, over a socket that may stop taking what is written.
SPECIFICATION FairSpec
CONSTANTS
  c1 = c1  c2 = c2  w1 = w1  k1 = k1  k2 = k2  e1 = e1  e2 = e2
  NoBinding = NoBinding
  Commands = {c1, c2}
  Raws = {w1}
  Closers = {k1, k2}
  MaxCalls = 3
  BindingOf <- MCBindingOf
INVARIANTS
  EvidenceTrue
  PendingMapSound
PROPERTIES
  EveryCommandEnds

\* Two connections, two commands and two private tasks over two epochs of two
\* stages each.
SPECIFICATION Spec
CONSTANTS
  k1 = k1  k2 = k2  c1 = c1  c2 = c2  p1 = p1  p2 = p2
  Clients = {k1, k2}
  Commands = {c1, c2}
  Permits = {p1, p2}
  LastStage = 1
  MaxEpochs = 2
INVARIANTS
  NoPublicWhilePrivate
  CommandsDrained
  ObserverRevoked
  PermitSound
SYMMETRY MCSymmetry

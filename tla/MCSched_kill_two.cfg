CONSTANTS
  c1 = c1
  c2 = c2
  u1 = u1
  u2 = u2
  g1 = g1
  g2 = g2
  Cpus = {c1, c2}
  Users = {u1, u2}
  Groups = {g1, g2}
  Droppable = {g1, g2}
  First = u1
  Root = g1
  GenBound <- BoundKill
SPECIFICATION FairSpec
CHECK_DEADLOCK FALSE
PROPERTIES
  KilledStops

SPECIFICATION Spec
CONSTANTS
  a1 = a1
  a2 = a2
  e1 = e1
  s1 = s1
  o1 = o1
  r1 = r1
  g0 = g0
  g1 = g1
  g2 = g2
  m1 = m1
  m2 = m2
  m3 = m3
  u1 = u1
  u2 = u2
  l1 = l1
  l2 = l2
  n1 = n1
  n2 = n2
  n3 = n3
  Calls = {k1, k2, k3}
  AsyncCalls = {k3}
  Service = Service
  Nothing = Nothing
  Nil = Nil
  Off = Off
VIEW View
SYMMETRY Symmetry
CHECK_DEADLOCK FALSE
INVARIANTS
  SleeperIsServed
  EventsHandedInOrder
  EmissionReachesAll
  CountsExact
  ExitKillsMembers
  NoLockCircle
  MappingsTracked
  PointersExact
  HeapExact
  ReadsWhatWasSent
  CopiesWithinPage
  ParsesWhatWasWritten
  AsleepOnlyWithWaiters
  NoOverlap
  TreeExact
  FailsOnlyWhenFull

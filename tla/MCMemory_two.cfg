SPECIFICATION Spec
CONSTANTS
  m1 = m1
  m2 = m2
  s1 = s1
  s2 = s2
  c1 = c1
  Absent = Absent
  ToTable = ToTable
  Kernel = Kernel
  Idle = Idle
  Levels = 3
  Fan = 2
  Cpus = {c1}
  Mems = {m1, m2}
  Spaces = {s1}
  Frames = 5
  MaxPages = 3
  MaxMaps = 2
  MaxLoad = 4
  PhysPages = 1
  Sources = {"Owned", "LazyAlloc"}
  MapAddrs = {1, 2}
  MapOptions <- ReadWrite
  NewOptions <- Read
  HeapFails = TRUE

SYMMETRY Symmetry
CHECK_DEADLOCK FALSE
INVARIANTS
  TranslationsExact
  FramesExact
  ListsAgree
  PanicsOnlyWhenOvertaken

SPECIFICATION Spec
CONSTANTS
  Init0 = i
  Threads = {i, a, b}
  Devs = {d1}
  NoDev = NoDev
  MaxBusDevs = 1
  MaxRems = 2
  MaxAperts = 1
  MaxReqs = 2
  NCpus = 2
SYMMETRY Symmetry
INVARIANTS TypeOK SessionsMatch RequestsOrdered NoLostRequest AperturesOwn NoDanglingEntry

CONSTANTS
  Threads = {init, t1, t2}
  Init0 = init
  Idle = Idle
  Nobody = Nobody
  NCpus = 1
SYMMETRY ThreadSymmetry
SPECIFICATION Spec
INVARIANTS NoSleepWithSignal ListsIntact WorkConserving ParentAlive

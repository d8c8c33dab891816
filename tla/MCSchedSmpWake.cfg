CONSTANTS
  Threads = {init, t1, t2}
  Init0 = init
  Idle = Idle
  Nobody = Nobody
  NCpus = 2
SPECIFICATION Spec
INVARIANT NoSleepWithSignal
CHECK_DEADLOCK FALSE

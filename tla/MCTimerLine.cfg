CONSTANTS
  TThreads = {ta, tb}
  TBoot = ta
  Horizon = 2
  Diffs = {1, 2}
SPECIFICATION TimerSpec
CHECK_DEADLOCK FALSE
INVARIANT LineReenabled

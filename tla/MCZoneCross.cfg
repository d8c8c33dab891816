CONSTANTS
  ORDMAX = 5
  NPages = 8
  KernEnd = 5
  Lim32 = 7
  RamPages = {1, 2, 3, 4, 5, 6, 7}
  PgSizes = {1}
  PgCpus = {0}
SPECIFICATION PgSpec
CHECK_DEADLOCK FALSE
INVARIANT KernelPagesDirect

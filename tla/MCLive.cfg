CONSTANTS
  SchedThreads = {init, t1}
  SchedInit = init
  SchedIdle = Idle
  SchedNobody = Nobody
  Drivers = {d1, d2, e1}
  EdgeDrv = {e1}
  ShLine = ShLine
  IrqCpus = {0}
  Waiters = {w1}
  Asts = {a1}
  MainLwt = main
  Yielders = {main, w1}
  LHead = LHead
  LNull = LNull
  MaxIrq = 2
  EvtWord = 2
  IntBits = 1
  EvtWords = 1
  EvtUsers = {u1}
  NoUser = NoUser
  MaxLeak = 2
  KlogBufSz = 3
  KlogCpus = {0}
  KlogChars = 4
  APorts = {0}
  ASlots = {0, 1}
  AReqs = {1, 2, 3}
  APortOf <- OnePort
  APages <- RequestPages
  AIdent = AIdent
SPECIFICATION LiveSpec
CHECK_DEADLOCK FALSE
PROPERTIES SignalDelivered RunnableRuns InterruptServed WorkServed KlogDrained IssuedReported

CONSTANTS
  Waiters = {w1, w2}
  Asts = {a1}
  MainLwt = main
  Yielders = {w1, a1}
  LHead = LHead
  LNull = LNull
  MaxIrq = 2
  EvtWord = 6
  IntBits = 3
  EvtWords = 1
  EvtUsers = {u1, u2}
  NoUser = NoUser
  MaxLeak = 1
  KlogBufSz = 3
  KlogCpus = {0}
  KlogChars = 4
  APorts = {0}
  ASlots = {0, 1}
  AReqs = {1, 2, 3}
  APortOf <- OnePort
  APages <- RequestPages
  AIdent = AIdent
  BNames = {1, 2}
  BlkMax = 3
  FdMax = 1
  DiskLen = 2
  RInit = ri
  RCreated = {rc}
  RBios = {ra, rb}
  RNull = RNull
  RDeep = 2
  Screens = {0, 1}
  KbdBufSize = 2
  ClistSize = 4
  KeyMax = 2
  COLS = 2
  LINES = 4
  TabSize = 2
  MaxCall = 5
  NParms = 2
  PtrMax = 3
  ShortHalf = 8
  IntHalf = 64
  VtDigits = {2, 3, 7}
  MaxByte = 8
SPECIFICATION UserSpec
CHECK_DEADLOCK FALSE
INVARIANTS UserTypeOK LwtSound KlogInOrder RequestsSound BlkSound RumpSound ConsoleSound TerminalSound

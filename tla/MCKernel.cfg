CONSTANTS
  Threads = {init, t1}
  Init0 = init
  Idle = Idle
  Nobody = Nobody
  NCpus = 2
  Drivers = {d1, d2}
  EdgeDrv = {}
  ShLine = ShLine
  IrqCpus = {0, 1}
  TThreads = {ta, tb}
  TBoot = ta
  Horizon = 2
  Diffs = {1, 2}
  NPages = 7
  KernEnd = 4
  Lim32 = 6
  RamPages = {1, 2, 3, 5, 6}
  PgSizes = {1, 2}
  PgCpus = {0}
  ORDMAX = 5
  KVA_SVMAP = 4
  KVA_EVMAP = 10
  VM_MINMMAP_ADDRESS = 2
  VM_MAXMMAP_ADDRESS = 7
  Low = 2
  KvLens = {1, 2, 3}
  DmaPages = {1, 2}
  HeapUnits = 7
  HeapMax = 2
  HeapSizes = {1, 2}
  SlabSize = 9
  HdrSize = 1
  ObjSize = 3
  SlabMax = 2
  SlabTries = 0
  SlabCpus = {0, 1}
  TlbCpus = {0, 1, 2}
  MaxFlush = 2
  RbKeys = {1, 2, 3, 4, 5, 6, 7, 8}
  QHeads = {h, g}
  QElms = {qa, qb, qc, qd}
  NoElm = NoElm
SPECIFICATION KernelSpec
CHECK_DEADLOCK FALSE
INVARIANTS KernelTypeOK OnePlace MaskedIsOwed TimersSound PagesSound VmapSound
           HeapSound SlabSound FlushReaches
PROPERTIES RbIsSet QueueIsSeq

CONSTANTS
  Procs = {p1, p2}
  Init0 = p1
  ZVa = z
  CowVas = {a}
  Pfns = {f1, f2, f3}
  Mmio = {io}
  NoPfn = NoPfn
  StaleWir = 7
  MaxDma = 1
  MaxRef = 3
  SelfMove = FALSE
SYMMETRY FrameSymmetry
SPECIFICATION Spec
INVARIANTS TypeOK RefCovers RefExact SharedReadOnly DmaPinned

-------------------------------- MODULE Pmap --------------------------------
(***************************************************************************)
(* User address spaces of the MH microkernel: the page-table entries of    *)
(* every process (ukern/i386/src/pmap.c, pae.h), the per-page reference    *)
(* and wiring counts (ukern/src/pfndb.c), the vm calls that drive them     *)
(* (ukern/src/kern.c, sys.c) and the hardware-device calls that pin pages  *)
(* for DMA or map MMIO frames (ukern/src/hwdev.c).                         *)
(*                                                                         *)
(* One action is one system call.  Interrupts are off inside the kernel    *)
(* and a pmap has a single thread, so the page table of a process is only  *)
(* changed by the call that process is in; the counters are atomic, the    *)
(* page allocator is locked, and pfn_decref follows the change of the      *)
(* entry, so a call is atomic towards the calls of other processes.        *)
(*                                                                         *)
(* A failed kernel assertion or an exhausted page allocator stops the      *)
(* machine: `halt' names the reason, and nothing moves afterwards.         *)
(***************************************************************************)
EXTENDS Integers, FiniteSets

CONSTANTS Procs,    \* process (pmap) slots
          Init0,    \* the system process, running from the start
          ZVa,      \* the page of the no-COW area [ZCOWBASE, ZCOWEND)
          CowVas,   \* the pages of the COW area [COWBASE, COWEND)
          Pfns,     \* frames the allocator hands out to user mappings
          Mmio,     \* frames of type PFNT_MMIO
          NoPfn,    \* PFN_INVALID
          StaleWir, \* what usr.wir may hold in a frame whose count is not cleared
          MaxDma,   \* bound: export records of one page of one process
          MaxRef,   \* bound: references fork may add to a frame
          SelfMove  \* whether processes call sys_move with equal addresses

ASSUME ProcsAssumption == Init0 \in Procs /\ IsFiniteSet(Procs)
ASSUME VaAssumption == ZVa \notin CowVas /\ IsFiniteSet(CowVas)
ASSUME PfnAssumption == /\ IsFiniteSet(Pfns)
                        /\ Pfns \cap Mmio = {}
                        /\ NoPfn \notin Pfns \cup Mmio
ASSUME CountAssumption == /\ StaleWir \in Nat
                          /\ MaxDma \in Nat
                          /\ MaxRef \in Nat
                          /\ SelfMove \in BOOLEAN

Vas == {ZVa} \cup CowVas

VARIABLES st,     \* [Procs -> slot state]
          pte,    \* [Procs -> [Vas -> entry]]
          used,   \* frames of type PFNT_USER
          ref,    \* usr.ref of each frame
          wir,    \* usr.wir of each frame
          dma,    \* hwdma records of each process, as a bag over <<va, pfn>>
          hwmap,  \* virtual pages in the hwmaps list of each process
          halt,   \* "no", or why the kernel stopped
          cowed,  \* history: frames that fork has shared since they were allocated
          cowexp  \* history: frames wired through a COW entry since then

vars == <<st, pte, used, ref, wir, dma, hwmap, halt, cowed, cowexp>>

-----------------------------------------------------------------------------
(* Page-table entries.  All the non-present encodings are one value.       *)

None == [t |-> "none", pfn |-> NoPfn, w |-> FALSE]
Entry == [t : {"none"}, pfn : {NoPfn}, w : {FALSE}]
         \cup [t : {"normal", "cow", "wired"}, pfn : Pfns, w : BOOLEAN]
         \cup [t : {"iomap"}, pfn : Mmio, w : {TRUE}]

l1e_external_iomap(e) == e.t = "iomap"     \* mutant: a wired page is not external
l1e_external(e) == e.t \in {"wired", "iomap"}

(* Entries that stand for one use of a user frame.                         *)
Counted(e) == e.t \in {"normal", "cow", "wired"}

l1e_mknormal(e) == [t |-> "normal", pfn |-> e.pfn, w |-> e.w]
l1e_mkwired(e) == [t |-> "wired", pfn |-> e.pfn, w |-> e.w]
l1e_mkcow(e) == [t |-> "cow", pfn |-> e.pfn, w |-> FALSE]

(* The mappings of frame p, in every address space.                        *)
Maps(p) == {m \in Procs \X Vas :
              Counted(pte[m[1]][m[2]]) /\ pte[m[1]][m[2]].pfn = p}

(* Virtual pages of process pr, among the set V, that map p with a type in T. *)
VasOf(tbl, V, T, p) == {va \in V : tbl[va].t \in T /\ tbl[va].pfn = p}

-----------------------------------------------------------------------------
Init ==
  /\ st = [pr \in Procs |-> IF pr = Init0 THEN "live" ELSE "free"]
  /\ pte = [pr \in Procs |-> [va \in Vas |-> None]]
  /\ used = {}
  /\ ref = [p \in Pfns |-> 0]
  /\ wir = [p \in Pfns |-> 0]
  /\ dma = [pr \in Procs |-> [r \in Vas \X Pfns |-> 0]]
  /\ hwmap = [pr \in Procs |-> {}]
  /\ halt = "no"
  /\ cowed = {}
  /\ cowexp = {}

(* pr is executing a system call.                                          *)
Running(pr) == halt = "no" /\ st[pr] = "live"

Halt(why) ==
  /\ halt' = why
  /\ UNCHANGED <<st, pte, used, ref, wir, dma, hwmap, cowed, cowexp>>

(* The tail of pmap_uenter, pmap_uiomap and pmap_uchaddr: the replaced     *)
(* entry e gives up its reference only if it is NORMAL, and the caller     *)
(* frees the frame when the count reaches zero.                            *)
DropRef(r, e) == IF e.t = "normal" THEN [r EXCEPT ![e.pfn] = @ - 1] ELSE r
FreeOldNot(u, e) == u                   \* mutant: the caller does not free the frame
FreeOld(u, e) == IF e.t = "normal" /\ ref[e.pfn] = 1 THEN u \ {e.pfn} ELSE u

-----------------------------------------------------------------------------
(* sys_map with MAP_NEW or MAP_NEW32: vmmap, vmmap32.  An externally       *)
(* controlled entry makes the call return -EBUSY and give the frame back.  *)
VmMap(pr, va, w) ==
  /\ Running(pr)
  /\ ~l1e_external(pte[pr][va])
  /\ \E p \in Pfns \ used :
       /\ pte' = [pte EXCEPT ![pr][va] = [t |-> "normal", pfn |-> p, w |-> w]]
       /\ ref' = DropRef([ref EXCEPT ![p] = 1], pte[pr][va])
       /\ used' = FreeOld(used \cup {p}, pte[pr][va])
       /\ wir' = [wir EXCEPT ![p] = 0]
       /\ cowed' = cowed \ {p}
       /\ cowexp' = cowexp \ {p}
  /\ UNCHANGED <<st, dma, hwmap, halt>>

(* pgalloc finds no frame: panic.                                          *)
OutOfMemory(pr) ==
  /\ Running(pr)
  /\ Pfns \subseteq used
  /\ Halt("oom")

(* sys_map with MAP_NONE: vmunmap.                                         *)
VmUnmap(pr, va) ==
  /\ Running(pr)
  /\ ~l1e_external(pte[pr][va])
  /\ pte' = [pte EXCEPT ![pr][va] = None]
  /\ ref' = DropRef(ref, pte[pr][va])
  /\ used' = FreeOld(used, pte[pr][va])
  /\ UNCHANGED <<st, wir, dma, hwmap, halt, cowed, cowexp>>

(* sys_move: vmmove, pmap_uchaddr.  The source is cleared before the       *)
(* destination is written, and the replaced destination is released.       *)
VmMove(pr, dst, src) ==
  /\ Running(pr)
  /\ SelfMove \/ dst # src
  /\ ~l1e_external(pte[pr][src])
  /\ ~l1e_external(pte[pr][dst])
  /\ pte' = [pte EXCEPT ![pr] = [@ EXCEPT ![src] = None, ![dst] = pte[pr][src]]]
  /\ ref' = DropRef(ref, pte[pr][dst])
  /\ used' = FreeOld(used, pte[pr][dst])
  /\ UNCHANGED <<st, wir, dma, hwmap, halt, cowed, cowexp>>

(* sys_map without a new frame: vmchprot, pmap_uchprot.  External entries  *)
(* (-EBUSY), absent ones (-EPERM) and a writable protection for a COW      *)
(* entry (-EINVAL) change nothing.                                         *)
MayChprotAbsent(e) == e.t \in {"normal", "none"}  \* mutant: no test of the present bit
MayChprot(e) == e.t = "normal"

VmChprot(pr, va, w) ==
  /\ Running(pr)
  /\ MayChprot(pte[pr][va])
  /\ pte' = [pte EXCEPT ![pr][va] = [t |-> "normal", pfn |-> @.pfn, w |-> w]]
  /\ UNCHANGED <<st, used, ref, wir, dma, hwmap, halt, cowed, cowexp>>

(* A read-only protection for a COW entry passes every check and meets     *)
(* assert(l1e_normal(ol1e)).                                               *)
VmChprotCow(pr, va) ==
  /\ Running(pr)
  /\ pte[pr][va].t = "cow"
  /\ Halt("chprot")

(* Page fault: the last user of a shared frame gets its entry back as      *)
(* NORMAL, still read-only.  Any other fault is signalled to the process   *)
(* and changes no entry.                                                   *)
PmapFault(pr, va) ==
  /\ Running(pr)
  /\ pte[pr][va].t = "cow"
  /\ ref[pte[pr][va].pfn] = 1
  /\ pte' = [pte EXCEPT ![pr][va] = l1e_mknormal(@)]
  /\ UNCHANGED <<st, used, ref, wir, dma, hwmap, halt, cowed, cowexp>>

-----------------------------------------------------------------------------
(* sys_export on a hardware device: pmap_uwire, pmap_phys, a new hwdma     *)
(* record.  -EBUSY for an MMIO entry.                                      *)
Export(pr, va) ==
  LET e == pte[pr][va] IN
  /\ Running(pr)
  /\ Counted(e)
  /\ dma[pr][<<va, e.pfn>>] < MaxDma
  /\ pte' = [pte EXCEPT ![pr][va] = l1e_mkwired(@)]
  /\ wir' = [wir EXCEPT ![e.pfn] = @ + 1]
  /\ dma' = [dma EXCEPT ![pr][<<va, e.pfn>>] = @ + 1]
  /\ cowexp' = IF e.t = "cow" THEN cowexp \cup {e.pfn} ELSE cowexp
  /\ UNCHANGED <<st, used, ref, hwmap, halt, cowed>>

(* pmap_uwire does not look at the present bit: pfn_incwir then asserts on *)
(* a frame that is not a user frame.                                       *)
ExportAbsent(pr, va) ==
  /\ Running(pr)
  /\ pte[pr][va].t = "none"
  /\ Halt("wire")

(* sys_unexport: the first hwdma record of va is dropped, and pmap_uunwire *)
(* makes the entry NORMAL when the frame has no wiring left.  An entry     *)
(* that is not wired meets assert(!ret).                                   *)
Unexport(pr, va) ==
  /\ Running(pr)
  /\ \E p \in Pfns :
       /\ dma[pr][<<va, p>>] > 0
       /\ IF pte[pr][va].t # "wired"
          THEN Halt("unwire")
          ELSE /\ dma' = [dma EXCEPT ![pr][<<va, p>>] = @ - 1]
               /\ wir' = [wir EXCEPT ![pte[pr][va].pfn] = @ - 1]
               /\ pte' = IF wir[pte[pr][va].pfn] = 1
                         THEN [pte EXCEPT ![pr][va] = l1e_mknormal(@)]
                         ELSE pte
               /\ UNCHANGED <<st, used, ref, hwmap, halt, cowed, cowexp>>

(* sys_iomap: iomap, pmap_uiomap, a new hwmap record.                      *)
IoMap(pr, va, m) ==
  /\ Running(pr)
  /\ ~l1e_external(pte[pr][va])
  /\ pte' = [pte EXCEPT ![pr][va] = [t |-> "iomap", pfn |-> m, w |-> TRUE]]
  /\ ref' = DropRef(ref, pte[pr][va])
  /\ used' = FreeOld(used, pte[pr][va])
  /\ hwmap' = [hwmap EXCEPT ![pr] = @ \cup {va}]
  /\ UNCHANGED <<st, wir, dma, halt, cowed, cowexp>>

(* sys_iounmap: the record goes, and pmap_uiounmap clears an MMIO entry.   *)
IoUnmap(pr, va) ==
  /\ Running(pr)
  /\ va \in hwmap[pr]
  /\ hwmap' = [hwmap EXCEPT ![pr] = @ \ {va}]
  /\ pte' = IF pte[pr][va].t = "iomap"
            THEN [pte EXCEPT ![pr][va] = None] ELSE pte
  /\ UNCHANGED <<st, used, ref, wir, dma, halt, cowed, cowexp>>

-----------------------------------------------------------------------------
(* pmap_copy: normal and COW entries of the COW area are shared read-only  *)
(* by both tables, external ones are not inherited.                        *)
Shared(e) == e.t \in {"normal", "cow"}

ParentTableRw(pr) == pte[pr]            \* mutant: the parent stays writable
ParentTable(pr) ==
  [va \in Vas |-> IF va \in CowVas /\ Shared(pte[pr][va])
                  THEN l1e_mkcow(pte[pr][va]) ELSE pte[pr][va]]

ChildTable(pr, zentry) ==
  [va \in Vas |-> IF va = ZVa THEN zentry
                  ELSE IF Shared(pte[pr][va]) THEN l1e_mkcow(pte[pr][va])
                  ELSE None]

(* One pfn_incref for each shared entry.  Mutant: an entry that was shared *)
(* before gets none.                                                       *)
ForkRefNormal(pr) ==
  [p \in Pfns |-> ref[p] + Cardinality(VasOf(pte[pr], CowVas, {"normal"}, p))]
ForkRef(pr) ==
  [p \in Pfns |-> ref[p] + Cardinality(VasOf(pte[pr], CowVas, {"normal", "cow"}, p))]

(* sys_fork, the memory part of thfork.  The page of the no-COW area is    *)
(* copied into a frame q whose reference count is cleared and whose wiring *)
(* count is not; q goes back to the allocator when there is nothing to     *)
(* copy.                                                                   *)
Fork(pr, n) ==
  /\ Running(pr)
  /\ st[n] = "free"
  /\ \A p \in Pfns : ForkRef(pr)[p] <= MaxRef
  /\ \E q \in Pfns \ used, g \in {0, StaleWir} :
       LET copied == pte[pr][ZVa].t # "none"
           zentry == IF copied THEN [t |-> "normal", pfn |-> q, w |-> TRUE] ELSE None
       IN
       /\ pte' = [pte EXCEPT ![pr] = ParentTable(pr), ![n] = ChildTable(pr, zentry)]
       /\ ref' = IF copied THEN [ForkRef(pr) EXCEPT ![q] = 1] ELSE ForkRef(pr)
       /\ used' = IF copied THEN used \cup {q} ELSE used
       /\ wir' = IF copied THEN [wir EXCEPT ![q] = g] ELSE wir
       /\ cowed' = (cowed \ {q}) \cup
                   {p \in Pfns : VasOf(pte[pr], CowVas, {"normal", "cow"}, p) # {}}
       /\ cowexp' = cowexp \ {q}
  /\ st' = [st EXCEPT ![n] = "live"]
  /\ UNCHANGED <<dma, hwmap, halt>>

-----------------------------------------------------------------------------
(* _hwdev_close, from bus_remove: MMIO mappings are undone and every hwdma *)
(* record is unwired.  Records: how many of them are for frame p.          *)
Records(pr, p) ==
  Cardinality({r \in Vas \X (1 .. MaxDma) : r[2] <= dma[pr][<<r[1], p>>]})

ClosedWir(pr) == [p \in Pfns |-> wir[p] - Records(pr, p)]

ClosedEntry(pr, va) ==
  LET e == pte[pr][va]
      lastwire == dma[pr][<<va, e.pfn>>] > 0 /\ ClosedWir(pr)[e.pfn] = 0
  IN
  IF e.t = "iomap" /\ va \in hwmap[pr] THEN None
  ELSE IF e.t = "wired" /\ lastwire THEN l1e_mknormal(e)
  ELSE e

(* __exit, the memory part: close, then vmclear of the whole user range.   *)
(* Entries that are still external are left in the table; COW entries are  *)
(* cleared without releasing their frame.                                  *)
Exit(pr) ==
  LET closed == [va \in Vas |-> ClosedEntry(pr, va)]
      dropped(p) == Cardinality(VasOf(closed, Vas, {"normal"}, p))
  IN
  /\ Running(pr)
  /\ pr # Init0
  /\ pte' = [pte EXCEPT ![pr] = [va \in Vas |-> IF l1e_external(closed[va])
                                                THEN closed[va] ELSE None]]
  /\ ref' = [p \in Pfns |-> ref[p] - dropped(p)]
  /\ used' = {p \in used : dropped(p) = 0 \/ ref[p] # dropped(p)}
  /\ wir' = ClosedWir(pr)
  /\ dma' = [dma EXCEPT ![pr] = [r \in Vas \X Pfns |-> 0]]
  /\ hwmap' = [hwmap EXCEPT ![pr] = {}]
  /\ st' = [st EXCEPT ![pr] = "zombie"]
  /\ halt' = IF \E r \in Vas \X Pfns : dma[pr][r] > 0 /\ pte[pr][r[1]].t # "wired"
             THEN "unwire" ELSE halt
  /\ UNCHANGED <<cowed, cowexp>>

(* childstat of the parent: thfree, pmap_free.                             *)
Reap(pr) ==
  /\ halt = "no"
  /\ st[pr] = "zombie"
  /\ st' = [st EXCEPT ![pr] = "free"]
  /\ pte' = [pte EXCEPT ![pr] = [va \in Vas |-> None]]
  /\ UNCHANGED <<used, ref, wir, dma, hwmap, halt, cowed, cowexp>>

(* A stopped machine stays stopped.                                        *)
Halted == halt # "no" /\ UNCHANGED vars

Next ==
  \/ \E pr \in Procs :
       \/ \E va \in Vas, w \in BOOLEAN : VmMap(pr, va, w) \/ VmChprot(pr, va, w)
       \/ \E va \in Vas : \/ VmUnmap(pr, va) \/ VmChprotCow(pr, va)
                          \/ PmapFault(pr, va)
                          \/ Export(pr, va) \/ ExportAbsent(pr, va)
                          \/ Unexport(pr, va) \/ IoUnmap(pr, va)
       \/ \E va \in Vas, m \in Mmio : IoMap(pr, va, m)
       \/ \E dst \in Vas, src \in Vas : VmMove(pr, dst, src)
       \/ \E n \in Procs : Fork(pr, n)
       \/ OutOfMemory(pr) \/ Exit(pr) \/ Reap(pr)
  \/ Halted

Spec == Init /\ [][Next]_vars

-----------------------------------------------------------------------------
(* Every variable has its type.                                            *)
TypeOK ==
  /\ st \in [Procs -> {"free", "live", "zombie"}]
  /\ pte \in [Procs -> [Vas -> Entry]]
  /\ used \subseteq Pfns
  /\ ref \in [Pfns -> Int]
  /\ wir \in [Pfns -> Int]
  /\ dma \in [Procs -> [Vas \X Pfns -> Int]]
  /\ hwmap \in [Procs -> SUBSET Vas]
  /\ halt \in {"no", "oom", "chprot", "wire", "unwire"}
  /\ cowed \subseteq Pfns
  /\ cowexp \subseteq Pfns

(* pfndb_decref frees a frame when its count reaches zero: the count never *)
(* falls below the number of page-table entries that use the frame, so a   *)
(* frame that is mapped anywhere still belongs to its users and is not in  *)
(* the allocator (pmap_uenter, pmap_uchaddr, pmap_copy, vmclear).          *)
RefCovers ==
  \A p \in Pfns : /\ Maps(p) # {} => p \in used
                  /\ p \in used => Cardinality(Maps(p)) <= ref[p]

(* For a frame that fork never shared the count is exact: with no mapping  *)
(* left it goes back to the allocator.  (A frame shared by fork is leaked, *)
(* because no path releases the reference of a COW entry.)                 *)
RefExact ==
  \A p \in used \ cowed :
    wir[p] = 0 => /\ Cardinality(Maps(p)) = ref[p]
                  /\ ref[p] > 0

(* Copy on write: a frame with two users is writable through none of them, *)
(* unless a COW entry of it was once exported to a device (pmap_uwire      *)
(* forgets the COW mark).                                                  *)
SharedReadOnly ==
  \A p \in used \ cowexp :
    Cardinality(Maps(p)) > 1 => \A m \in Maps(p) : ~pte[m[1]][m[2]].w

(* DMA safety: the page behind every hwdma record is still wired at the    *)
(* frame the device was given and that frame is still a user frame, so the *)
(* assertions on pmap_uunwire in _hwdev_unexport and _hwdev_close hold.    *)
DmaPinned ==
  /\ halt # "unwire"
  /\ \A pr \in Procs, va \in Vas, p \in Pfns :
       dma[pr][<<va, p>>] > 0 => /\ pte[pr][va].t = "wired"
                                 /\ pte[pr][va].pfn = p
                                 /\ p \in used

(* assert(l1e_normal(ol1e)) in pmap_uchprot holds.                         *)
ChprotAssertHolds == halt # "chprot"
=============================================================================

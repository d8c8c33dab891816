----------------------------- MODULE MCKernel -------------------------------
(* Parts of the kernel for TLC: the scheduler on two CPUs, interrupts,     *)
(* alarms, the allocators, TLB shootdown, and the trees and lists they are *)
(* built on.  They share no state: a behaviour is one of one part, chosen  *)
(* at the start; the others stay in their initial states.                  *)
EXTENDS Sched, Irq, Timer, PgAlloc, Vmap, Heap, Slab, Tlb, Rbtree, Queue, TLC

VARIABLE part

kernelVars == <<part, vars, irqVars, timerVars, pgVars, vmapVars,
              heapVars, slabVars, tlbVars, rbVars, queueVars>>

KernelInit ==
  /\ part \in {"smp", "irq", "timer", "pages", "kvmap", "uvmap", "heap",
              "slab", "tlb", "rb", "queue"}
  /\ Init /\ IrqInit /\ TimerInit /\ PgInit
  /\ VmapInit /\ HeapInit /\ SlabInit /\ TlbInit
  /\ RbInit /\ QueueInit
  /\ part # "queue" => qkind = "list"

(* The variables of the parts that do not run stay as they are.            *)
Still ==
  /\ UNCHANGED part
  /\ IF part \in {"smp"} THEN TRUE ELSE UNCHANGED vars
  /\ IF part \in {"irq"} THEN TRUE ELSE UNCHANGED irqVars
  /\ IF part \in {"timer"} THEN TRUE ELSE UNCHANGED timerVars
  /\ IF part \in {"pages"} THEN TRUE ELSE UNCHANGED pgVars
  /\ IF part \in {"kvmap", "uvmap"} THEN TRUE ELSE UNCHANGED vmapVars
  /\ IF part \in {"heap"} THEN TRUE ELSE UNCHANGED heapVars
  /\ IF part \in {"slab"} THEN TRUE ELSE UNCHANGED slabVars
  /\ IF part \in {"tlb"} THEN TRUE ELSE UNCHANGED tlbVars
  /\ IF part \in {"rb"} THEN TRUE ELSE UNCHANGED rbVars
  /\ IF part \in {"queue"} THEN TRUE ELSE UNCHANGED queueVars

KernelNext ==
  \/ part = "smp" /\ Next /\ Still
  \/ part = "irq" /\ IrqNext /\ Still
  \/ part = "timer" /\ TimerNext /\ Still
  \/ part = "pages" /\ PgNextStep /\ Still
  \/ part = "kvmap" /\ KvNext /\ Still
  \/ part = "uvmap" /\ UvNext /\ Still
  \/ part = "heap" /\ HeapNext /\ Still
  \/ part = "slab" /\ SlabNext /\ Still
  \/ part = "tlb" /\ TlbNext /\ Still
  \/ part = "rb" /\ RbNext /\ Still
  \/ part = "queue" /\ QueueNext /\ Still

KernelSpec == KernelInit /\ [][KernelNext]_kernelVars

(* Type invariant of the part that runs.                                   *)
KernelTypeOK ==
  CASE part = "smp" -> TypeOK
    [] part = "irq" -> IrqTypeOK
    [] part = "timer" -> TimerTypeOK
    [] part = "pages" -> PgTypeOK
    [] part \in {"kvmap", "uvmap"} -> VmapTypeOK
    [] part = "heap" -> HeapTypeOK
    [] part = "slab" -> SlabTypeOK
    [] part = "tlb" -> TlbTypeOK
    [] part = "rb" -> RbTypeOK
    [] part = "queue" -> QueueTypeOK
=============================================================================

------------------------------ MODULE MCLive -------------------------------
(* The parts of the system that must eventually do something, for TLC: the *)
(* scheduler of one CPU, device interrupts and their drivers, user-level   *)
(* threads, the kernel log and the disk driver.  A behaviour is one of one *)
(* part, chosen at the start; the others stay in their initial states.     *)
EXTENDS Irq, Lwt, Klog, Ahci, TLC

CONSTANTS SchedThreads, SchedInit, SchedIdle, SchedNobody

VARIABLES part,
          status, cpu, sig, intr, parent, zlist, fresh, runq, stopq, cur,
          resched, zsoft, idlemap, kick, k, broken

S == INSTANCE Sched WITH Threads <- SchedThreads, Init0 <- SchedInit,
                         Idle <- SchedIdle, Nobody <- SchedNobody, NCpus <- 1

schedVars == <<status, cpu, sig, intr, parent, zlist, fresh, runq, stopq, cur,
               resched, zsoft, idlemap, kick, k, broken>>
liveVars == <<part, schedVars, irqVars, lwtVars, evtVars, klogVars, ahciVars>>

LiveInit ==
  /\ part \in {"sched", "irq", "lwt", "klog", "ahci"}
  /\ S!Init /\ IrqInit /\ LwtInit /\ EvtInit /\ KlogInit /\ AhciInit

LiveNext ==
  /\ UNCHANGED <<part, evtVars>>
  /\ \/ part = "sched" /\ S!Next /\ UNCHANGED <<irqVars, lwtVars, klogVars, ahciVars>>
     \/ part = "irq" /\ IrqNext /\ UNCHANGED <<schedVars, lwtVars, klogVars, ahciVars>>
     \/ part = "lwt" /\ LwtNext /\ UNCHANGED <<schedVars, irqVars, klogVars, ahciVars>>
     \/ part = "klog" /\ KlogNext /\ UNCHANGED <<schedVars, irqVars, lwtVars, ahciVars>>
     \/ part = "ahci" /\ AhciNext /\ UNCHANGED <<schedVars, irqVars, lwtVars, klogVars>>

(* LwtFairness, KlogFairness and AhciFairness, for the part that runs.     *)
LiveSpec ==
  /\ LiveInit /\ [][LiveNext]_liveVars
  /\ WF_lwtVars(part = "lwt" /\ LwtStep)
  /\ WF_klogVars(part = "klog" /\ KlogReader)
  /\ WF_klogVars(part = "klog" /\ \E c \in KlogCpus : PutcStore(c))
  /\ WF_ahciVars(part = "ahci" /\ AhciDriver)
  /\ WF_ahciVars(part = "ahci" /\ AhciHba)

(* A request for two pages, and two for parts of one page, to one port.    *)
OnePort == [r \in AReqs |-> 0]
RequestPages == [r \in AReqs |-> IF r = 1 THEN <<1, 2>> ELSE <<3>>]

-----------------------------------------------------------------------------
(* A signal raised for a live thread gets delivered, under the fairness of *)
(* cooperative processes (schedule, sys_wait, do_softirq).                 *)
SignalDelivered == part = "sched" /\ S!Fairness => S!SignalDelivered

(* Every runnable thread gets the CPU (schedule and the idle loop).        *)
RunnableRuns == part = "sched" /\ S!Fairness => S!RunnableRuns

(* A device that asks for service gets it, when its driver answers signals *)
(* with sys_eoi: no line stays masked, no signal or edge is lost.          *)
InterruptServed == part = "irq" /\ IrqFairness => DeviceServed
=============================================================================

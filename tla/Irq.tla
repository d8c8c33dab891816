-------------------------------- MODULE Irq --------------------------------
(***************************************************************************)
(* Interrupt lines and the drivers that share them: irqregister,           *)
(* irqsignal, irqeoi and irqunregister of ukern/src/kern.c, their callers  *)
(* in ukern/src/hwdev.c, the interrupt entry of ukern/i386/src/machdep.c   *)
(* and the mask bit of ukern/i386/src/ioapic.c.                            *)
(*                                                                         *)
(* A driver opens a hardware device, maps its interrupt to a signal and,   *)
(* for a level-triggered line, tells the kernel when it has served the     *)
(* device: the kernel keeps the line masked until then.  Drivers on one    *)
(* shared line do so for each other.                                       *)
(*                                                                         *)
(* All redirection entries name the APIC of CPU 0, which takes every       *)
(* interrupt; the system calls run on any CPU.  A step is a section under  *)
(* irqsigs_lock or one write of the mask bit: `op[c]' is what CPU c has    *)
(* left to do.                                                             *)
(***************************************************************************)
EXTENDS Integers

CONSTANTS Drivers,   \* driver processes, each with one device and one session
          EdgeDrv,   \* those whose device has an edge-triggered line of its own
          ShLine,    \* the level-triggered line that the others share
          IrqCpus    \* CPU numbers; 0 is one of them

ASSUME IrqAssumption == /\ EdgeDrv \subseteq Drivers
                        /\ ShLine \notin Drivers
                        /\ 0 \in IrqCpus

Lines == EdgeDrv \cup {ShLine}
LineOf(d) == IF d \in EdgeDrv THEN d ELSE ShLine
gsi_is_level(l) == l = ShLine

VARIABLES sess,    \* drivers that have the device open
          sigs,    \* irqsigs: the registered drivers of each line
          eoi,     \* drivers whose irqsig->eoi is set
          masked,  \* lines with the mask bit set in the I/O APIC
          latched, \* edge-triggered lines with an edge not yet delivered
          want,    \* devices that want to be served
          pend,    \* drivers with the signal pending
          served,  \* drivers that have served the device and owe sys_eoi
          op       \* [IrqCpus -> what the CPU has left to do]

irqVars == <<sess, sigs, eoi, masked, latched, want, pend, served, op>>

None == [do |-> "none", l |-> ShLine]
Free(c) == op[c] = None
Mapped(d) == d \in sigs[LineOf(d)]

(* ioapic_add masks every line.                                            *)
IrqInit ==
  /\ sess = {}
  /\ sigs = [l \in Lines |-> {}]
  /\ eoi = {}
  /\ masked = Lines
  /\ latched = {}
  /\ want = {}
  /\ pend = {}
  /\ served = {}
  /\ op = [c \in IrqCpus |-> None]

-----------------------------------------------------------------------------
(* External: the device of a driver wants to be served, at any time: also  *)
(* before its driver has it open, or while its line is masked, and then an *)
(* edge is lost.                                                           *)
HwAssert(d) ==
  /\ d \notin want
  /\ want' = want \cup {d}
  /\ latched' = IF gsi_is_level(LineOf(d)) \/ LineOf(d) \in masked
                THEN latched ELSE latched \cup {LineOf(d)}
  /\ UNCHANGED <<sess, sigs, eoi, masked, pend, served, op>>

(* The I/O APIC delivers an unmasked line that is high, or an edge.        *)
Delivers(l) == IF gsi_is_level(l)
               THEN l \notin masked /\ \E d \in want : LineOf(d) = l
               ELSE l \in latched

(* intr_entry, irqsignal: a level-triggered line is masked before anything *)
(* else.                                                                   *)
IntrEntry(l) ==
  /\ Free(0)
  /\ Delivers(l)
  /\ masked' = IF gsi_is_level(l) THEN masked \cup {l} ELSE masked
  /\ latched' = latched \ {l}
  /\ op' = [op EXCEPT ![0] = [do |-> "signal", l |-> l]]
  /\ UNCHANGED <<sess, sigs, eoi, want, pend, served>>

(* irqsignal, under irqsigs_lock: every driver of the line is signalled    *)
(* and, on a level-triggered line, owes an acknowledgement.                *)
OwersNot(l) == eoi                       \* mutant: irqsig->eoi is not set
Owers(l) == IF gsi_is_level(l) THEN eoi \cup sigs[l] ELSE eoi
IrqSignal(c) ==
  LET l == op[c].l IN
  /\ op[c].do = "signal"
  /\ pend' = pend \cup sigs[l]
  /\ eoi' = Owers(l)
  /\ op' = [op EXCEPT ![c] = None]
  /\ UNCHANGED <<sess, sigs, masked, latched, want, served>>

(* platform_irqon, after the lock of irqregister or irqeoi is dropped.     *)
UnmaskNot(l) == masked                   \* mutant: the line stays masked
Unmask(l) == masked \ {l}
PlatformIrqOn(c) ==
  /\ op[c].do = "on"
  /\ masked' = Unmask(op[c].l)
  /\ op' = [op EXCEPT ![c] = None]
  /\ UNCHANGED <<sess, sigs, eoi, latched, want, pend, served>>

-----------------------------------------------------------------------------
(* _hwdev_open; the driver resets its device.                              *)
HwdevOpen(c, d) ==
  /\ Free(c)
  /\ d \notin sess
  /\ sess' = sess \cup {d}
  /\ want' = want \ {d}
  /\ UNCHANGED <<sigs, eoi, masked, latched, pend, served, op>>

(* _hwdev_irqmap, irqregister.  irqsig->eoi is not initialised: it is what *)
(* the heap left there.                                                    *)
HwdevIrqmap(c, d) ==
  /\ Free(c)
  /\ d \in sess
  /\ ~Mapped(d)
  /\ sigs' = [sigs EXCEPT ![LineOf(d)] = @ \cup {d}]
  /\ eoi' \in {eoi, eoi \cup {d}}
  /\ op' = [op EXCEPT ![c] = [do |-> "on", l |-> LineOf(d)]]
  /\ UNCHANGED <<sess, masked, latched, want, pend, served>>

(* The handler of the driver runs and serves the device.                   *)
Serve(d) ==
  /\ d \in pend
  /\ pend' = pend \ {d}
  /\ want' = want \ {d}
  /\ served' = served \cup {d}
  /\ UNCHANGED <<sess, sigs, eoi, masked, latched, op>>

(* sys_eoi: _hwdev_eoi, irqeoi.  The flags of all the drivers of the line  *)
(* are cleared.  `doeoi' is not initialised: if none was set, the line is  *)
(* unmasked or not.                                                        *)
HwdevEoi(c, d) ==
  LET l == LineOf(d)
      owing == eoi \cap sigs[l] IN
  /\ Free(c)
  /\ d \in sess
  /\ d \in served
  /\ served' = served \ {d}
  /\ eoi' = eoi \ owing
  /\ \/ op' = [op EXCEPT ![c] = [do |-> "on", l |-> l]]
     \/ owing = {} /\ UNCHANGED op
  /\ UNCHANGED <<sess, sigs, masked, latched, want, pend>>

(* _hwdev_close, also when the driver dies: irqunregister.                 *)
HwdevClose(c, d) ==
  /\ Free(c)
  /\ d \in sess
  /\ sess' = sess \ {d}
  /\ sigs' = [sigs EXCEPT ![LineOf(d)] = @ \ {d}]
  /\ eoi' = eoi \ {d}
  /\ pend' = pend \ {d}
  /\ served' = served \ {d}
  /\ UNCHANGED <<masked, latched, want, op>>

IrqKernel(c) == IrqSignal(c) \/ PlatformIrqOn(c)

IrqNext ==
  \/ \E l \in Lines : IntrEntry(l)
  \/ \E c \in IrqCpus : IrqKernel(c)
  \/ \E d \in Drivers : HwAssert(d) \/ Serve(d)
  \/ \E c \in IrqCpus, d \in Drivers :
       HwdevOpen(c, d) \/ HwdevIrqmap(c, d) \/ HwdevEoi(c, d) \/ HwdevClose(c, d)

(* CPUs finish what they do, CPU 0 takes interrupts, and a driver that is  *)
(* signalled serves its device and calls sys_eoi (the handler of           *)
(* lib/libahci and of the console processes).                              *)
IrqFairness ==
  /\ \A c \in IrqCpus : WF_irqVars(IrqKernel(c))
  /\ \A l \in Lines : SF_irqVars(IntrEntry(l))
  /\ \A d \in Drivers : /\ WF_irqVars(Serve(d))
                        /\ SF_irqVars(\E c \in IrqCpus : HwdevEoi(c, d))

IrqSpec == IrqInit /\ [][IrqNext]_irqVars /\ IrqFairness

-----------------------------------------------------------------------------
(* Type invariant.                                                         *)
IrqTypeOK ==
  /\ sess \subseteq Drivers
  /\ sigs \in [Lines -> SUBSET Drivers]
  /\ eoi \subseteq Drivers
  /\ masked \subseteq Lines
  /\ latched \subseteq EdgeDrv
  /\ want \subseteq Drivers
  /\ pend \subseteq Drivers
  /\ served \subseteq Drivers
  /\ op \in [IrqCpus -> [do : {"none", "signal", "on"}, l : Lines]]

(* irqsignal: "Disable the IRQ line, it will be re-enabled by the          *)
(* interrupt handler".  A line that has drivers is never left masked with  *)
(* nobody to unmask it: some driver owes an acknowledgement, or a CPU is   *)
(* about to change the line; not even a driver that dies between the       *)
(* interrupt and its sys_eoi silences the others.                          *)
MaskedIsOwed ==
  \A l \in Lines :
    (l \in masked /\ sigs[l] # {} /\ \A c \in IrqCpus : op[c].l # l \/ Free(c))
      => \E d \in eoi : LineOf(d) = l

(* A device that wants to be served is, unless its driver closes it.  An   *)
(* edge must have reached the I/O APIC while the line was open: the edge   *)
(* that comes after irqregister has listed the driver and before its       *)
(* platform_irqon is lost, and the device that gave it waits for good.     *)
DeviceServed ==
  \A d \in Drivers :
    (d \in want /\ Mapped(d) /\ (d \in EdgeDrv => d \in latched))
      ~> (d \notin want \/ ~Mapped(d))
=============================================================================

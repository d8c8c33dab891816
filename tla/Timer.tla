------------------------------- MODULE Timer -------------------------------
(***************************************************************************)
(* Alarms of threads: timer_register, timer_remove, do_timer, thalrm,      *)
(* thvtalrm, thvtt and the timer part of schedule in ukern/src/kern.c,     *)
(* the SYSTEM device of ukern/src/sysdev.c through which a thread sets     *)
(* them, and the HPET of ukern/i386/src/hpet.c with the line it raises.    *)
(*                                                                         *)
(* One CPU.  The kernel runs with interrupts off, so a system call, a      *)
(* switch and an interrupt with its soft interrupts are one step each.     *)
(***************************************************************************)
EXTENDS Integers, Sequences, SequencesExt, FiniteSetsExt

CONSTANTS TThreads,   \* threads
          TBoot,      \* the one that runs first
          Horizon,    \* bound: the counter stops here
          Diffs       \* delays that threads ask for

ASSUME TimerAssumption == /\ TBoot \in TThreads /\ IsFiniteSet(TThreads)
                          /\ Horizon \in Nat
                          /\ Diffs \subseteq Nat \ {0}

Rtt(th) == <<th, "rtt">>         \* th->rtt_alarm
Vtt(th) == <<th, "vtt">>         \* th->vtt_alarm
Timers == TThreads \X {"rtt", "vtt"}

VARIABLES tnow,     \* the HPET counter
          tq,       \* timers, in list order; the valid ones; their times;
                    \* the comparator of the HPET and its INT_ENB bit
          isr,      \* status bit of the comparator: the timer has matched
          lmask,    \* the HPET's line is masked in the I/O APIC
          tmapped,  \* alarms with a signal number (timer->sig # 0)
          fired,    \* alarms whose signal is pending
          tcur,     \* current_thread()
          vtt       \* virtual time: [thread -> [almdiff, offset, base]]

timerVars == <<tnow, tq, isr, lmask, tmapped, fired, tcur, vtt>>

(* thcreate, kern_boot and hpet_init: no alarm, the counter at 0, the line *)
(* unmasked by irqfnregister.                                              *)
TimerInit ==
  /\ tnow = 0
  /\ tq = [list |-> <<>>, valid |-> {}, time |-> [t \in Timers |-> 0],
           cmp |-> 0, enb |-> FALSE]
  /\ isr = FALSE
  /\ lmask = FALSE
  /\ tmapped = {}
  /\ fired = {}
  /\ tcur = TBoot
  /\ vtt = [th \in TThreads |-> [almdiff |-> 0, offset |-> 0, base |-> 0]]

-----------------------------------------------------------------------------
(* "Update hw timer": the comparator follows the head of the list, through *)
(* timer_setalarm and timer_disablealarm.                                  *)
SetHw(q) == IF q.list = <<>>
            THEN [q EXCEPT !.enb = FALSE]
            ELSE [q EXCEPT !.enb = TRUE, !.cmp = q.time[Head(q.list)]]

(* timer_remove, with the LIST_REMOVE of a timer that is in the list.  The *)
(* time of a timer that is not valid is never read: the model keeps it at  *)
(* 0.                                                                      *)
Unlisted(list, t) == RemoveAt(list, CHOOSE i \in DOMAIN list : list[i] = t)
Invalid(q, t) == [q EXCEPT !.list = Unlisted(@, t), !.valid = @ \ {t}, !.time[t] = 0]
timer_removeStale(q, t) ==       \* mutant: the hardware keeps the old alarm
  IF t \notin q.valid THEN q ELSE Invalid(q, t)
timer_remove(q, t) ==
  IF t \notin q.valid THEN q ELSE SetHw(Invalid(q, t))

(* timer_register: behind the first timer that is not earlier, or at the   *)
(* end; so a timer earlier than all others is second in the list.          *)
timer_register(q, t) ==
  LET later == {i \in DOMAIN q.list : q.time[q.list[i]] >= q.time[t]}
      pos == IF later = {} THEN Len(q.list) ELSE Min(later)
  IN SetHw([q EXCEPT !.list = InsertAt(@, pos + 1, t)])

(* thalrm and thvtalrm.                                                    *)
Arm(q, t, diff) ==
  timer_register([timer_remove(q, t) EXCEPT !.time[t] = tnow + diff, !.valid = @ \cup {t}], t)

(* do_timer: the expired timers up to the first that is not.               *)
do_timer(q) ==
  LET late == {i \in DOMAIN q.list : q.time[q.list[i]] > tnow}
      n == IF late = {} THEN Len(q.list) ELSE Min(late) - 1
      gone == {q.list[i] : i \in 1..n}
  IN [q |-> IF n = 0 THEN q
            ELSE SetHw([q EXCEPT !.list = SubSeq(@, n + 1, Len(@)), !.valid = @ \ gone,
                                 !.time = [t \in Timers |-> IF t \in gone THEN 0 ELSE @[t]]]),
      raise |-> gone]

-----------------------------------------------------------------------------
(* _sysdev_out, ports SYSDEVIO_RTTALM and SYSDEVIO_VTTALM.                 *)
SysdevOut(t, diff) ==
  /\ t \in {Rtt(tcur), Vtt(tcur)}
  /\ tnow + diff <= Horizon
  /\ tq' = Arm(tq, t, diff)
  /\ UNCHANGED <<tnow, isr, lmask, tmapped, fired, tcur, vtt>>

(* _sysdev_irqmap.                                                         *)
SysdevIrqmap(t) ==
  /\ t \in {Rtt(tcur), Vtt(tcur)}
  /\ tmapped' = tmapped \cup {t}
  /\ UNCHANGED <<tnow, tq, isr, lmask, fired, tcur, vtt>>

(* The signal of an alarm is delivered to the thread that runs.            *)
AlarmSignal(t) ==
  /\ t \in fired
  /\ t[1] = tcur
  /\ fired' = fired \ {t}
  /\ UNCHANGED <<tnow, tq, isr, lmask, tmapped, tcur, vtt>>

(* thvtt.                                                                  *)
thvtt(th) == tnow - vtt[th].base + vtt[th].offset

(* schedule, with `th' the thread chosen: the virtual alarm of the old     *)
(* thread is taken off with what is left of it, the one of the new thread  *)
(* is set again.  vtt_almdiff is never reset, so a virtual alarm that has  *)
(* fired is set again, too.  (vtt_rttbase is read of the running thread    *)
(* only: the model forgets it.)                                            *)
OffCpu(q, old) == timer_remove(q, Vtt(old))
ThSwitch(th) ==
  LET left == tq.time[Vtt(tcur)] - tnow
      q == OffCpu(tq, tcur) IN
  /\ th # tcur
  /\ tnow + vtt[th].almdiff <= Horizon
  /\ vtt' = [vtt EXCEPT
               ![tcur].offset = thvtt(tcur),
               ![tcur].almdiff = IF Vtt(tcur) \notin tq.valid THEN @
                                 ELSE IF left > 0 THEN left ELSE 1,
               ![tcur].base = 0,
               ![th].base = tnow]
  /\ tcur' = th
  /\ tq' = IF vtt[th].almdiff = 0 THEN q ELSE Arm(q, Vtt(th), vtt[th].almdiff)
  /\ UNCHANGED <<tnow, isr, lmask, tmapped, fired>>

(* External: the counter of the HPET advances and matches the comparator;  *)
(* the status bit is set whether or not the interrupt is enabled.          *)
HpetTick ==
  /\ tnow < Horizon
  /\ tnow' = tnow + 1
  /\ isr' = (isr \/ tq.cmp = tnow + 1)
  /\ UNCHANGED <<tq, lmask, tmapped, fired, tcur, vtt>>

(* intr_entry: irqsignal masks the line, which is level-triggered;         *)
(* hpet_irqhandler clears the status and INT_ENB; do_softirq calls         *)
(* do_timer.                                                               *)
HpetInterrupt ==
  LET d == do_timer([tq EXCEPT !.enb = FALSE]) IN
  /\ isr /\ tq.enb /\ ~lmask
  /\ lmask' = TRUE
  /\ isr' = FALSE
  /\ tq' = d.q
  /\ fired' = fired \cup (d.raise \cap tmapped)
  /\ UNCHANGED <<tnow, tmapped, tcur, vtt>>

TimerNext ==
  \/ \E t \in Timers : SysdevIrqmap(t) \/ AlarmSignal(t) \/ \E d \in Diffs : SysdevOut(t, d)
  \/ \E th \in TThreads : ThSwitch(th)
  \/ HpetTick
  \/ HpetInterrupt

TimerSpec == TimerInit /\ [][TimerNext]_timerVars

-----------------------------------------------------------------------------
(* Type invariant.                                                         *)
TimerTypeOK ==
  /\ tnow \in 0..Horizon
  /\ tq.list \in Seq(Timers)
  /\ tq.valid \subseteq Timers
  /\ tq.time \in [Timers -> Nat]
  /\ tq.cmp \in Nat
  /\ {tq.enb, isr, lmask} \subseteq BOOLEAN
  /\ tmapped \subseteq Timers
  /\ fired \subseteq tmapped
  /\ tcur \in TThreads
  /\ vtt \in [TThreads -> [almdiff : Nat, offset : Nat, base : Nat]]

(* timer_remove trusts timer->valid to say whether the timer is in the     *)
(* list: it is there exactly once when valid and not at all otherwise, or  *)
(* the next LIST_REMOVE or LIST_INSERT corrupts the list.                  *)
TimersListed == \A t \in Timers :
  Cardinality({i \in DOMAIN tq.list : tq.list[i] = t}) = IF t \in tq.valid THEN 1 ELSE 0

(* schedule takes the virtual alarm off with the thread: only the running  *)
(* thread has one in the list.                                             *)
VirtualOnlyRunning == \A th \in TThreads : Vtt(th) \in tq.valid => th = tcur

(* The three places that update the hardware timer keep it on the head of  *)
(* the list: enabled, it is for the head; with no timer it is disabled.    *)
AlarmFollowsHead == tq.enb => tq.list # <<>> /\ tq.cmp = tq.time[Head(tq.list)]

(* vtt_offset and vtt_rttbase charge every tick to one thread: the virtual *)
(* times of all threads add up to the real time.                           *)
TimeConserved ==
  tnow = thvtt(tcur) + MapThenSumSet(LAMBDA th : vtt[th].offset, TThreads \ {tcur})

(* The alarms are sound: the list, the virtual alarms, the hardware timer  *)
(* and the virtual times agree, however timer_register, timer_remove,      *)
(* do_timer and schedule follow one another.                               *)
TimersSound == TimersListed /\ VirtualOnlyRunning /\ AlarmFollowsHead /\ TimeConserved

(* irqsignal masks a level-triggered line: "it will be re-enabled by the   *)
(* interrupt handler".  hpet_irqhandler does not.                          *)
LineReenabled == ~lmask
=============================================================================

-------------------------------- MODULE Lwt --------------------------------
(***************************************************************************)
(* The threads and events of a process: lib/libmrg/lwt.c, evt.c, int.c and *)
(* mrg_preempt.h.  One LWT runs at a time.  Interrupts of the kernel set   *)
(* events, and an event wakes the LWT that is registered for it.           *)
(*                                                                         *)
(* Two kinds of LWT are modelled, with the event of each (the allocator of *)
(* events is module Evt).  A waiter loops like __lwt_vttykbd: it asks for  *)
(* something, evtwait, takes the answer, evtclear.  An AST (evtast) is     *)
(* started by its event, serves what there is, like __console_io_ast, and  *)
(* exits.  Any of them may set the event of another, and some may yield.   *)
(*                                                                         *)
(* The queue of active LWTs is a SIMPLEQ with its pointers, since an LWT   *)
(* can be put into it twice: lwt_yield and lwt_pause insert lwt_current    *)
(* whether or not it is active, and lwt_exit clears LWTF_ACTIVE of an AST  *)
(* that was woken while it ran and is still in the queue.                  *)
(***************************************************************************)
EXTENDS Evt, SequencesExt

CONSTANTS Waiters,   \* LWTs that wait for their event
          Asts,      \* LWTs that their event starts
          MainLwt,   \* __lwt_main, which sleeps once the others are set up
          Yielders,  \* LWTs that call lwt_yield or lwt_pause
          LHead,     \* the queue's head
          LNull,     \* NULL
          MaxIrq     \* bound: interrupts of a device

Lwts == Waiters \cup Asts \cup {MainLwt}

ASSUME LwtAssumption ==
  /\ MaxIrq \in Nat /\ {LHead, LNull} \cap Lwts = {}
  /\ Waiters \cap Asts = {} /\ MainLwt \notin Waiters \cup Asts
  /\ Yielders \subseteq Lwts

VARIABLES lq,        \* __lwtq_active: [nxt, last], by the cells they are in
          lact,      \* LWTs with LWTF_ACTIVE
          lcur,      \* lwt_current
          lidle,     \* lwt_current is in the loop around sys_wait
          lvl,       \* __preemption_level
          lpc,       \* where each LWT stands
          evset,     \* LWTs whose event is set (set_evts)
          ewait,     \* LWTs registered in wait_evts
          lpend,     \* interrupts that the kernel has still to deliver
          lwork,     \* [lwt -> what its device has for it]
          lirqs,     \* [lwt -> times it was given something]
          lslip      \* history: a queued LWT was inserted, or lost LWTF_ACTIVE

lwtVars == <<lq, lact, lcur, lidle, lvl, lpc, evset, ewait, lpend, lwork, lirqs, lslip>>

-----------------------------------------------------------------------------
(* SIMPLEQ_INSERT_TAIL, also of an LWT that is in the queue.               *)
LwtInsert(l, w) == [nxt |-> [l.nxt EXCEPT ![w] = LNull, ![l.last] = w], last |-> w]

(* __lwt_wake and lwt_wake, for an LWT w in the queue l.                   *)
WakeAlways(l, act, w) == LwtInsert(l, w)     \* mutant: LWTF_ACTIVE is not looked at
Wake(l, act, w) == IF w \in act THEN l ELSE LwtInsert(l, w)

(* SIMPLEQ_REMOVE_HEAD.                                                    *)
Dequeue(l) ==
  LET f == l.nxt[l.nxt[LHead]]
  IN  [nxt |-> [l.nxt EXCEPT ![LHead] = f], last |-> IF f = LNull THEN LHead ELSE l.last]

(* The second half of lwt_sleep, lwt_exit, lwt_yield and lwt_pause (which  *)
(* find a queue that is not empty): the first active LWT is                *)
(* switched to, or the process waits for an interrupt.  An LWT that comes  *)
(* back from the lwt_sleep of evtwait leaves wait_evts and enables         *)
(* interrupts before anything else runs.                                   *)
Resume(l, act, level, waiting) ==
  IF l.nxt[LHead] = LNull
  THEN /\ lidle' = TRUE /\ lq' = l /\ lact' = act /\ lvl' = level + 1
       /\ ewait' = waiting /\ UNCHANGED lcur
  ELSE LET new  == l.nxt[LHead]
           back == new \in Waiters /\ new \in waiting
       IN  /\ lidle' = FALSE /\ lq' = Dequeue(l) /\ lact' = act \ {new} /\ lcur' = new
           /\ lvl' = IF back THEN level - 1 ELSE level
           /\ ewait' = IF back THEN waiting \ {new} ELSE waiting

(* lwt_current goes to sleep, or exits, at preemption level "level".       *)
SleepAt(level, waiting) == Resume(lq, lact \ {lcur}, level, waiting)

-----------------------------------------------------------------------------
LwtInit ==
  /\ lq = [nxt |-> [c \in Lwts \cup {LHead} |-> LNull], last |-> LHead]
  /\ lact = {} /\ lcur = MainLwt /\ lidle = FALSE /\ lvl = 0
  /\ lpc = [w \in Lwts |-> "start"]
  /\ evset = {} /\ ewait = {} /\ lpend = {}
  /\ lwork = [w \in Lwts |-> 0] /\ lirqs = [w \in Lwts |-> 0] /\ lslip = FALSE

Running(w, pc) == lcur = w /\ ~lidle /\ lpc[w] = pc
Goto(w, pc) == lpc' = [lpc EXCEPT ![w] = pc]

(* __lwt_main starts waiters (lwt_create, __lwt_wake) and registers ASTs   *)
(* in any order, as vtdrv_init, vtty_kast and blkdrv_ahci_probe do.        *)
(* evtast wakes the LWT of an event that is already set, and then returns  *)
(* without preempt_enable.                                                 *)
LwtStart(w) ==
  /\ Running(MainLwt, "start") /\ lpc[w] = "start" /\ w \notin lact
  /\ lq' = Wake(lq, lact, w) /\ lact' = lact \cup {w}
  /\ UNCHANGED <<lcur, lidle, lvl, lpc, evset, ewait, lpend, lwork, lirqs, lslip>>
EvtAst(a) ==
  /\ Running(MainLwt, "start") /\ a \notin ewait
  /\ ewait' = ewait \cup {a}
  /\ IF a \in evset
     THEN lq' = Wake(lq, lact, a) /\ lact' = lact \cup {a} /\ lvl' = lvl + 1
     ELSE UNCHANGED <<lq, lact, lvl>>
  /\ UNCHANGED <<lcur, lidle, lpc, evset, lpend, lwork, lirqs, lslip>>

(* Once the ASTs are registered, it sleeps for good.                       *)
MainSleep ==
  /\ Running(MainLwt, "start") /\ Asts \subseteq ewait
  /\ SleepAt(lvl, ewait)
  /\ UNCHANGED <<lpc, evset, lpend, lwork, lirqs, lslip>>

(* A waiter: the request to its device, ...                                *)
LwtAsk(w) ==
  /\ Running(w, "start")
  /\ lwork' = [lwork EXCEPT ![w] = 1]
  /\ Goto(w, "wait")
  /\ UNCHANGED <<lq, lact, lcur, lidle, lvl, evset, ewait, lpend, lirqs, lslip>>

(* ... evtwait, which looks at the event with interrupts disabled, ...     *)
EvtWait(w) ==
  /\ Running(w, "wait")
  /\ Goto(w, "serve")
  /\ IF w \in evset THEN UNCHANGED <<lq, lact, lcur, lidle, lvl, ewait>>
     ELSE SleepAt(lvl + 1, ewait \cup {w})
  /\ UNCHANGED <<evset, lpend, lwork, lirqs, lslip>>

(* ... the answer, and evtclear.                                           *)
LwtServe(w) ==
  /\ Running(w, "serve")
  /\ lwork' = [lwork EXCEPT ![w] = 0]
  /\ Goto(w, "clear")
  /\ UNCHANGED <<lq, lact, lcur, lidle, lvl, evset, ewait, lpend, lirqs, lslip>>
EvtClear(w) ==
  /\ Running(w, "clear")
  /\ evset' = evset \ {w}
  /\ Goto(w, IF w \in Waiters THEN "start" ELSE "exit")
  /\ UNCHANGED <<lq, lact, lcur, lidle, lvl, ewait, lpend, lwork, lirqs, lslip>>

(* An AST: the loop until its device has nothing left, evtclear, lwt_exit, *)
(* which sets it up to start again.                                        *)
AstPoll(a) ==
  /\ Running(a, "start")
  /\ IF lwork[a] = 0 THEN Goto(a, "clear") /\ UNCHANGED lwork
     ELSE lwork' = [lwork EXCEPT ![a] = @ - 1] /\ UNCHANGED lpc
  /\ UNCHANGED <<lq, lact, lcur, lidle, lvl, evset, ewait, lpend, lirqs, lslip>>
LwtExit(a) ==
  /\ Running(a, "exit")
  /\ Goto(a, "start")
  /\ SleepAt(lvl, ewait)
  /\ lslip' = (lslip \/ (a \in lact /\ lq.nxt[LHead] # a))
  /\ UNCHANGED <<evset, lpend, lwork, lirqs>>

(* lwt_yield and lwt_pause, at any point of an LWT; of __lwt_main while it *)
(* waits for a device (vtdrv_init, ahci_port_init).                        *)
LwtYield(w) ==
  /\ lcur = w /\ ~lidle
  /\ Resume(LwtInsert(lq, w), lact \cup {w}, lvl, ewait)
  /\ lslip' = (lslip \/ w \in lact)
  /\ UNCHANGED <<lpc, evset, lpend, lwork, lirqs>>

(* The LWT that runs has something for another one and sets its event      *)
(* (evtset), as __lwt_vttykbd and check_port do.                           *)
EvtSetBy(v) ==
  /\ ~lidle /\ v # lcur /\ lirqs[v] < MaxIrq
  /\ v \in Waiters => lwork[v] = 1
  /\ lwork' = [lwork EXCEPT ![v] = @ + 1]
  /\ lirqs' = [lirqs EXCEPT ![v] = @ + 1]
  /\ evset' = evset \cup {v}
  /\ lq' = IF v \in ewait THEN Wake(lq, lact, v) ELSE lq
  /\ lact' = IF v \in ewait THEN lact \cup {v} ELSE lact
  /\ UNCHANGED <<lcur, lidle, lvl, lpc, ewait, lpend, lslip>>

(* sys_wait returns when interrupts have been delivered, and the queue is  *)
(* looked at again, with the level that lwt_sleep has raised.              *)
LwtRetry ==
  /\ lidle /\ lq.nxt[LHead] # LNull
  /\ Resume(lq, lact, lvl - 1, ewait)
  /\ UNCHANGED <<lpc, evset, lpend, lwork, lirqs, lslip>>

-----------------------------------------------------------------------------
(* A device of an AST has something at any time; that of a waiter when it  *)
(* has been asked (2: the answer is there).                                *)
DeviceRaises(w) ==
  /\ lirqs[w] < MaxIrq
  /\ w \in Waiters => lwork[w] = 1
  /\ lwork' = [lwork EXCEPT ![w] = @ + 1]
  /\ lirqs' = [lirqs EXCEPT ![w] = @ + 1]
  /\ lpend' = lpend \cup {w}
  /\ UNCHANGED <<lq, lact, lcur, lidle, lvl, lpc, evset, ewait, lslip>>

(* __sys_inthandler: every pending interrupt sets its event (__evtset).    *)
(* The kernel delivers when interrupts are enabled, or out of sys_wait.    *)
Interrupts == lvl = 0 \/ lidle
EvtSetRunning(w) ==              \* mutant: the LWT that runs is not woken
  /\ Interrupts /\ w \in lpend
  /\ lpend' = lpend \ {w}
  /\ evset' = evset \cup {w}
  /\ lq' = IF w \in ewait /\ (lidle \/ w # lcur) THEN Wake(lq, lact, w) ELSE lq
  /\ lact' = IF w \in ewait /\ (lidle \/ w # lcur) THEN lact \cup {w} ELSE lact
  /\ UNCHANGED <<lcur, lidle, lvl, lpc, ewait, lwork, lirqs, lslip>>
EvtSet(w) ==
  /\ Interrupts /\ w \in lpend
  /\ lpend' = lpend \ {w}
  /\ evset' = evset \cup {w}
  /\ lq' = IF w \in ewait THEN Wake(lq, lact, w) ELSE lq
  /\ lact' = IF w \in ewait THEN lact \cup {w} ELSE lact
  /\ UNCHANGED <<lcur, lidle, lvl, lpc, ewait, lwork, lirqs, lslip>>

LwtStep ==
  \/ MainSleep \/ LwtRetry
  \/ \E w \in Waiters : LwtStart(w) \/ LwtAsk(w) \/ EvtWait(w) \/ LwtServe(w) \/ EvtClear(w)
  \/ \E a \in Asts : EvtAst(a) \/ AstPoll(a) \/ EvtClear(a) \/ LwtExit(a)
  \/ \E w \in Waiters \cup Asts : EvtSet(w)
LwtNext ==
  \/ LwtStep
  \/ \E w \in Yielders : LwtYield(w)
  \/ \E w \in Waiters \cup Asts : DeviceRaises(w) \/ EvtSetBy(w)

(* The process runs, and the kernel delivers interrupts to it, as long as  *)
(* either can; no LWT does nothing but yield.  The devices need not raise  *)
(* any interrupts, nor an LWT set events.                                  *)
LwtFairness == WF_lwtVars(LwtStep)
LwtSpec == LwtInit /\ [][LwtNext]_lwtVars /\ LwtFairness

-----------------------------------------------------------------------------
(* Type invariant.                                                         *)
LwtTypeOK ==
  /\ lq.nxt \in [Lwts \cup {LHead} -> Lwts \cup {LNull}] /\ lq.last \in Lwts \cup {LHead}
  /\ lact \subseteq Lwts /\ lcur \in Lwts /\ lidle \in BOOLEAN /\ lvl \in Nat
  /\ lpc \in [Lwts -> {"start", "wait", "serve", "clear", "exit"}] /\ lslip \in BOOLEAN
  /\ evset \subseteq Lwts /\ ewait \subseteq Lwts /\ lpend \subseteq Lwts
  /\ lwork \in [Lwts -> Nat] /\ lirqs \in [Lwts -> 0..MaxIrq]

(* The LWTs with LWTF_ACTIVE are those of the queue, each is there once,   *)
(* and the queue ends where its tail pointer says: no wake-up from an      *)
(* interrupt handler is lost in it or runs an LWT twice.                   *)
QueueIs(l, s) ==
  LET at(i) == IF i = 0 THEN LHead ELSE s[i]
  IN  /\ l.last = at(Len(s))
      /\ \A i \in 0..Len(s) : l.nxt[at(i)] = IF i = Len(s) THEN LNull ELSE s[i + 1]
LwtQueueOk == \E s \in SetToSeqs(lact) : QueueIs(lq, s)

(* The process does not sleep on an event that is set: whoever evtwait has *)
(* put to sleep and whose event is set is active, although the event comes *)
(* at any point between the request to the device and the sleep.           *)
NoLostEvent == \A w \in Waiters : w \in ewait /\ w \in evset => w \in lact

(* The queue of the LWTs and their events survive interrupts, wake-ups,    *)
(* yields and exits at any point, until one of two things happens: an LWT  *)
(* that was woken while it ran yields (lwt.c:147, 169), or such a one      *)
(* exits while others are queued before it (lwt.c:216).  No other step     *)
(* damages the queue.  And the events are those of their holders.          *)
LwtSound == EvtSound /\ (~lslip => LwtQueueOk /\ NoLostEvent)

(* Whatever there is for an LWT is taken in the end, also when the         *)
(* interrupt comes while another LWT holds interrupts disabled, or while   *)
(* the AST it is for is already running; as long as the queue is whole.    *)
WorkServed ==
  /\ \A w \in Waiters : (lwork[w] = 2) ~> (lwork[w] = 0 \/ lslip)
  /\ \A a \in Asts : (lwork[a] > 0) ~> (lwork[a] = 0 \/ lslip)
=============================================================================

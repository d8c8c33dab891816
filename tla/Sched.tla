------------------------------- MODULE Sched -------------------------------
(***************************************************************************)
(* Threads, signals and the scheduler of the MH microkernel                *)
(* (ukern/src/kern.c: thfork, thraise, wake, schedule, do_softirq,         *)
(* do_zombie, childstat, __exit, idle; ukern/i386/src/machdep.c: the       *)
(* kernel entries).                                                        *)
(*                                                                         *)
(* Interrupts are off in the kernel, so on its own CPU a kernel entry runs *)
(* from user mode back to user mode.  CPUs interleave with each other:     *)
(* each step below is one access to shared state, one locked section or    *)
(* the private code between two of them.  `k[c]' is the continuation of    *)
(* CPU c: the next step and the arguments it needs.                        *)
(***************************************************************************)
EXTENDS Integers, Sequences, FiniteSets

CONSTANTS Threads,  \* thread structures
          Init0,    \* __kern_init
          Idle,     \* stands for the idle thread of every CPU
          Nobody,   \* NULL
          NCpus     \* number of CPUs

ASSUME ThreadsAssumption == /\ Init0 \in Threads
                            /\ IsFiniteSet(Threads)
                            /\ Idle \notin Threads
                            /\ Nobody \notin Threads \cup {Idle}
ASSUME CpusAssumption == NCpus \in Nat \ {0}

Cpus == 0 .. NCpus - 1

VARIABLES status,   \* th->status, "free" for an unallocated structure
          cpu,      \* th->cpu
          sig,      \* whether th->softintrs has a bit set
          intr,     \* THFL_INTR of th->userfl
          parent,   \* th->parent
          zlist,    \* threads in the zombie_children list of their parent
          fresh,    \* threads whose context is still __childstart or __initstart
          runq,     \* running_threads
          stopq,    \* stopped_threads
          cur,      \* current_thread() of each CPU
          resched,  \* zombies each CPU has to hand to their parents
          zsoft,    \* SOFTIRQ_ZOMBIE in the softirq word of each CPU
          idlemap,  \* cpu_idlemap
          kick,     \* VECT_KICK pending at each CPU
          k,        \* continuation of each CPU
          broken    \* a list was updated for a thread that is not in it

vars == <<status, cpu, sig, intr, parent, zlist, fresh, runq, stopq, cur,
          resched, zsoft, idlemap, kick, k, broken>>

-----------------------------------------------------------------------------
(* Continuations: pc is the next step, th and st its arguments, next the   *)
(* step after it.                                                          *)
Cont(pc, th, st, next) == [pc |-> pc, th |-> th, st |-> st, next |-> next]
At(pc) == Cont(pc, Nobody, "running", "user")
ToWake(th, next) == Cont("wake", th, "running", next)
ToSchedule(newst) == Cont("pick", Nobody, newst, "user")

(* CPU c continues at step x.                                              *)
Goto(c, x) == k' = [k EXCEPT ![c] = x]
Is(c, pc) == k[c].pc = pc /\ ~broken

(* A thread that has not called __exit yet.                                *)
Live(t) == status[t] \in {"running", "runnable", "stopped"}

thread_has_interrupts(t) == intr[t] /\ sig[t]

(* CPU c is in user mode, running thread t.                                *)
User(c, t) == Is(c, "user") /\ cur[c] = t /\ t # Idle

-----------------------------------------------------------------------------
(* kern_boot: CPU 0 has queued init and is about to schedule from its idle *)
(* thread; so are the other CPUs, from kern_bootap.                        *)
Init ==
  /\ status = [t \in Threads |-> IF t = Init0 THEN "runnable" ELSE "free"]
  /\ cpu = [t \in Threads |-> 0]
  /\ sig = [t \in Threads |-> FALSE]
  /\ intr = [t \in Threads |-> FALSE]
  /\ parent = [t \in Threads |-> Nobody]
  /\ zlist = {}
  /\ fresh = {Init0}
  /\ runq = <<Init0>>
  /\ stopq = {}
  /\ cur = [c \in Cpus |-> Idle]
  /\ resched = [c \in Cpus |-> <<>>]
  /\ zsoft = [c \in Cpus |-> FALSE]
  /\ idlemap = {}
  /\ kick = [c \in Cpus |-> FALSE]
  /\ k = [c \in Cpus |-> ToSchedule("stopped")]
  /\ broken = FALSE

-----------------------------------------------------------------------------
(* Kernel entries from user mode.                                          *)
(* The interrupt flag sys_wait leaves.                                     *)
WaitFlagKept(t) == intr[t]             \* mutant: interrupts stay as they are
WaitFlag(t) == TRUE

(* The first test of schedule, made with that flag: do not sleep with      *)
(* signals.                                                                *)
MaySleepAlways(t) == TRUE              \* mutant: no test
MaySleep(t) == ~(WaitFlag(t) /\ sig[t])

SysWait(c, t) ==
  /\ User(c, t)
  /\ intr' = [intr EXCEPT ![t] = WaitFlag(t)]
  /\ Goto(c, IF MaySleep(t) THEN ToSchedule("stopped") ELSE At("softirq"))
  /\ UNCHANGED <<status, cpu, sig, parent, zlist, fresh, runq, stopq, cur,
                 resched, zsoft, idlemap, kick, broken>>

SysYield(c, t) ==
  /\ User(c, t)
  /\ Goto(c, ToSchedule("runnable"))
  /\ UNCHANGED <<status, cpu, sig, intr, parent, zlist, fresh, runq, stopq, cur,
                 resched, zsoft, idlemap, kick, broken>>

(* sys_sti, sys_cli and sys_iret set the interrupt flag; every other call, *)
(* exception or interrupt that signals nobody leaves it as it is.          *)
SysFlags(c, t, fl) ==
  /\ User(c, t)
  /\ intr' = [intr EXCEPT ![t] = fl]
  /\ Goto(c, At("softirq"))
  /\ UNCHANGED <<status, cpu, sig, parent, zlist, fresh, runq, stopq, cur,
                 resched, zsoft, idlemap, kick, broken>>

(* sys_fork: the child inherits the flag and the pending signals.          *)
SysFork(c, t, n) ==
  /\ User(c, t)
  /\ status[n] = "free"
  /\ status' = [status EXCEPT ![n] = "runnable"]
  /\ sig' = [sig EXCEPT ![n] = sig[t]]
  /\ intr' = [intr EXCEPT ![n] = intr[t]]
  /\ parent' = [parent EXCEPT ![n] = t]
  /\ fresh' = fresh \cup {n}
  /\ runq' = Append(runq, n)
  /\ Goto(c, At("softirq"))
  /\ UNCHANGED <<cpu, zlist, stopq, cur, resched, zsoft, idlemap, kick, broken>>

(* sys_childstat with a zombie child: its structure is freed.              *)
SysChildstat(c, t, z) ==
  /\ User(c, t)
  /\ z \in zlist
  /\ parent[z] = t
  /\ zlist' = zlist \ {z}
  /\ status' = [status EXCEPT ![z] = "free"]
  /\ parent' = [parent EXCEPT ![z] = Nobody]
  /\ sig' = [sig EXCEPT ![z] = FALSE]
  /\ Goto(c, At("softirq"))
  /\ UNCHANGED <<cpu, intr, fresh, runq, stopq, cur, resched, zsoft, idlemap,
                 kick, broken>>

(* thraise of u, from a device call or sys_raise of the running thread, or *)
(* from a device or timer interrupt taken in user mode or in the idle loop. *)
Raise(c, u) ==
  /\ Is(c, "user")
  /\ Live(u)
  /\ sig' = [sig EXCEPT ![u] = TRUE]
  /\ Goto(c, ToWake(u, "softirq"))
  /\ UNCHANGED <<status, cpu, intr, parent, zlist, fresh, runq, stopq, cur,
                 resched, zsoft, idlemap, kick, broken>>

(* The VECT_KICK interrupt: intr_entry, cpu_kick.                          *)
CpuKick(c) ==
  /\ Is(c, "user")
  /\ kick[c]
  /\ kick' = [kick EXCEPT ![c] = FALSE]
  /\ Goto(c, IF cur[c] = Idle THEN ToSchedule("stopped") ELSE At("softirq"))
  /\ UNCHANGED <<status, cpu, sig, intr, parent, zlist, fresh, runq, stopq, cur,
                 resched, zsoft, idlemap, broken>>
(* The parents after the death of t: init inherits its children.           *)
ReparentedNot(t) == parent             \* mutant: they keep their parent
Reparented(t) == [u \in Threads |-> IF parent[u] = t THEN Init0 ELSE parent[u]]

(* __exit: the children go to init, init is signalled, and the thread      *)
(* schedules away for ever.  The death of init is a panic.                 *)
Die(c, t, pending) ==
  /\ t # Init0
  /\ parent' = Reparented(t)
  /\ sig' = [sig EXCEPT ![t] = pending, ![Init0] = TRUE]
  /\ Goto(c, Cont("wake", Init0, "zombie", "pick"))
  /\ UNCHANGED <<status, cpu, zlist, fresh, runq, stopq, cur, resched,
                 zsoft, idlemap, kick, broken>>

SysDie(c, t) ==
  /\ User(c, t)
  /\ Die(c, t, sig[t])
  /\ UNCHANGED intr

-----------------------------------------------------------------------------
(* once_cpumask over cpu_idlemap: the lowest idle CPU.                     *)
NoCpu == {}                            \* mutant: nobody is kicked
LowestIdle == {c \in idlemap : \A d \in idlemap : c <= d}

(* wake, under sched_lock.  A thread whose status is STOPPED is taken from *)
(* stopped_threads whether it is there or not, and an idle CPU is kicked.  *)
Wake(c) ==
  LET u == k[c].th IN
  /\ Is(c, "wake")
  /\ IF status[u] = "stopped"
     THEN /\ broken' = (u \notin stopq)
          /\ stopq' = stopq \ {u}
          /\ status' = [status EXCEPT ![u] = "runnable"]
          /\ runq' = Append(runq, u)
          /\ kick' = [d \in Cpus |-> kick[d] \/ d \in LowestIdle]
     ELSE /\ kick' = [d \in Cpus |-> kick[d] \/ (status[u] = "running" /\ d = cpu[u])]
          /\ UNCHANGED <<broken, stopq, status, runq>>
  /\ Goto(c, IF k[c].next = "pick" THEN ToSchedule(k[c].st) ELSE At(k[c].next))
  /\ UNCHANGED <<cpu, sig, intr, parent, zlist, fresh, cur, resched, zsoft, idlemap>>

(* The run queue after its first thread was chosen, and the CPU number the *)
(* thread is given.                                                        *)
RestAll == runq                        \* mutant: it stays in the queue
Rest == Tail(runq)
cpu_number_from_one(c) == c + 1        \* mutant: CPUs are numbered from one
cpu_number(c) == c

(* schedule, first locked section: choose the next thread.  Without one, a *)
(* yielding thread goes on and any other gives way to the idle thread.     *)
Pick(c) ==
  LET none == runq = <<>>
      th == IF ~none THEN Head(runq)
            ELSE IF k[c].st = "runnable" THEN cur[c] ELSE Idle
  IN
  /\ Is(c, "pick")
  /\ runq' = IF none THEN runq ELSE Rest
  /\ status' = IF none THEN status ELSE [status EXCEPT ![th] = "running"]
  /\ cpu' = IF none THEN cpu ELSE [cpu EXCEPT ![th] = cpu_number(c)]
  /\ Goto(c, IF th = cur[c] THEN At("softirq") ELSE Cont("switch", th, k[c].st, "user"))
  /\ UNCHANGED <<sig, intr, parent, zlist, fresh, stopq, cur, resched, zsoft,
                 idlemap, kick, broken>>

(* cpu_idlemap after CPU c switched to th: bits are set and never cleared. *)
IdlemapKept(c, th) == idlemap          \* mutant: the bit is not set
IdlemapAfter(c, th) == IF th = Idle THEN idlemap \cup {c} ELSE idlemap

(* thswitch, then the status of the old thread, written without a lock.    *)
Switch(c) ==
  LET old == cur[c] IN
  /\ Is(c, "switch")
  /\ cur' = [cur EXCEPT ![c] = k[c].th]
  /\ idlemap' = IdlemapAfter(c, k[c].th)
  /\ status' = IF old = Idle THEN status ELSE [status EXCEPT ![old] = k[c].st]
  /\ Goto(c, Cont(IF old = Idle THEN "resume" ELSE "insert", old, k[c].st, "user"))
  /\ UNCHANGED <<cpu, sig, intr, parent, zlist, fresh, runq, stopq, resched,
                 zsoft, kick, broken>>

(* The stopped threads once old is filed with status st.                   *)
FiledStoppedNot(old, st) == stopq      \* mutant: old is filed nowhere
FiledStopped(old, st) == IF st = "stopped" THEN stopq \cup {old} ELSE stopq

(* schedule, second locked section: file the old thread by its status.     *)
Insert(c) ==
  LET old == k[c].th IN
  /\ Is(c, "insert")
  /\ runq' = IF k[c].st = "runnable" THEN Append(runq, old) ELSE runq
  /\ stopq' = FiledStopped(old, k[c].st)
  /\ resched' = IF k[c].st = "zombie"
                THEN [resched EXCEPT ![c] = Append(@, old)] ELSE resched
  /\ zsoft' = IF k[c].st = "zombie" THEN [zsoft EXCEPT ![c] = TRUE] ELSE zsoft
  /\ Goto(c, Cont("resume", old, k[c].st, "user"))
  /\ UNCHANGED <<status, cpu, sig, intr, parent, zlist, fresh, cur, idlemap,
                 kick, broken>>

(* _longjmp to the new thread: one that has run before returns from        *)
(* schedule to the end of its kernel entry; a new one enters user mode at  *)
(* once.                                                                   *)
Resume(c) ==
  /\ Is(c, "resume")
  /\ fresh' = fresh \ {cur[c]}
  /\ Goto(c, At(IF cur[c] \in fresh THEN "user" ELSE "softirq"))
  /\ UNCHANGED <<status, cpu, sig, intr, parent, zlist, runq, stopq, cur,
                 resched, zsoft, idlemap, kick, broken>>

-----------------------------------------------------------------------------
(* do_softirq at the end of every kernel entry: pending signals are        *)
(* delivered to a thread that accepts them.                                *)
Deliver(c) ==
  LET t == cur[c] IN
  /\ Is(c, "softirq")
  /\ IF t # Idle /\ thread_has_interrupts(t)
     THEN sig' = [sig EXCEPT ![t] = FALSE] /\ intr' = [intr EXCEPT ![t] = FALSE]
     ELSE UNCHANGED <<sig, intr>>
  /\ Goto(c, At("zirq"))
  /\ UNCHANGED <<status, cpu, parent, zlist, fresh, runq, stopq, cur, resched,
                 zsoft, idlemap, kick, broken>>

(* usrframe_signal has no handler or cannot write its frame: die().        *)
DeliverFails(c, t) ==
  /\ Is(c, "softirq")
  /\ cur[c] = t
  /\ thread_has_interrupts(t)
  /\ intr' = [intr EXCEPT ![t] = FALSE]
  /\ Die(c, t, FALSE)

(* SOFTIRQ_ZOMBIE: do_zombie hands the first zombie of the CPU to its      *)
(* parent, and only that one.                                              *)
DoZombie(c) ==
  /\ Is(c, "zirq")
  /\ zsoft[c]
  /\ resched[c] # <<>>
  /\ LET z == Head(resched[c]) IN
     /\ zsoft' = [zsoft EXCEPT ![c] = FALSE]
     /\ resched' = [resched EXCEPT ![c] = Tail(@)]
     /\ zlist' = zlist \cup {z}
     /\ sig' = [sig EXCEPT ![parent[z]] = TRUE]
     /\ Goto(c, ToWake(parent[z], "zirq"))
  /\ UNCHANGED <<status, cpu, intr, parent, fresh, runq, stopq, cur, idlemap,
                 kick, broken>>

(* No software interrupt is left: back to user mode or to the idle loop.   *)
ReturnToUser(c) ==
  /\ Is(c, "zirq")
  /\ ~zsoft[c]
  /\ Goto(c, At("user"))
  /\ UNCHANGED <<status, cpu, sig, intr, parent, zlist, fresh, runq, stopq, cur,
                 resched, zsoft, idlemap, kick, broken>>

Kernel(c) ==
  \/ Wake(c) \/ Pick(c) \/ Switch(c) \/ Insert(c) \/ Resume(c)
  \/ Deliver(c) \/ (\E t \in Threads : DeliverFails(c, t))
  \/ DoZombie(c) \/ ReturnToUser(c)

UserCall(c, t) ==
  \/ SysWait(c, t) \/ SysYield(c, t) \/ SysDie(c, t)
  \/ \E fl \in BOOLEAN : SysFlags(c, t, fl)
  \/ \E n \in Threads : SysFork(c, t, n) \/ SysChildstat(c, t, n)

Next ==
  \E c \in Cpus :
    \/ Kernel(c) \/ CpuKick(c)
    \/ \E t \in Threads : UserCall(c, t) \/ Raise(c, t)

Spec == Init /\ [][Next]_vars

-----------------------------------------------------------------------------
(* A thread gives up the CPU: it sleeps with no signal pending, or yields. *)
Release(t) ==
  \E c \in Cpus : SysYield(c, t) \/ (~sig[t] /\ SysWait(c, t))

(* CPUs run kernel code and do not ignore a pending kick for ever; a       *)
(* thread that runs again and again ends up, again and again, in sys_wait  *)
(* (lwt_sleep of libmrg) and gives up the CPU.                             *)
Fairness ==
  /\ \A c \in Cpus : WF_vars(Kernel(c)) /\ SF_vars(CpuKick(c))
  /\ \A t \in Threads : /\ SF_vars(\E c \in Cpus : SysWait(c, t))
                         /\ SF_vars(Release(t))

FairSpec == Spec /\ Fairness

-----------------------------------------------------------------------------
Statuses == {"free", "running", "runnable", "stopped", "zombie"}
Steps == {"user", "softirq", "zirq", "wake", "pick", "switch", "insert", "resume"}

(* Every variable has its type.                                            *)
TypeOK ==
  /\ status \in [Threads -> Statuses]
  /\ cpu \in [Threads -> Cpus]
  /\ sig \in [Threads -> BOOLEAN]
  /\ intr \in [Threads -> BOOLEAN]
  /\ parent \in [Threads -> Threads \cup {Nobody}]
  /\ zlist \subseteq Threads
  /\ fresh \subseteq Threads
  /\ runq \in Seq(Threads)
  /\ stopq \subseteq Threads
  /\ cur \in [Cpus -> Threads \cup {Idle}]
  /\ resched \in [Cpus -> Seq(Threads)]
  /\ zsoft \in [Cpus -> BOOLEAN]
  /\ idlemap \subseteq Cpus
  /\ kick \in [Cpus -> BOOLEAN]
  /\ k \in [Cpus -> [pc : Steps, th : Threads \cup {Idle, Nobody},
                     st : Statuses, next : {"user", "softirq", "zirq", "pick"}]]
  /\ broken \in BOOLEAN

(* schedule: "Do not sleep if active signals".  A sleeping thread that     *)
(* accepts signals has none pending, unless a CPU is just about to wake    *)
(* it, so no thraise is lost between the test in schedule and wake.        *)
NoSleepWithSignal ==
  \A t \in Threads :
    (status[t] = "stopped" /\ thread_has_interrupts(t))
      => \E c \in Cpus : k[c].pc = "wake" /\ k[c].th = t

(* wake only removes from stopped_threads a thread that is there.          *)
ListsIntact == ~broken

(* Where the kernel keeps thread t, each place with the status that        *)
(* belongs to it.                                                          *)
InQueue(t) == {<<"runnable", "queue", i>> : i \in {j \in DOMAIN runq : runq[j] = t}}
InStop(t) == {<<"stopped", "list", x>> : x \in {t} \cap stopq}
InZlist(t) == {<<"zombie", "list", x>> : x \in {t} \cap zlist}
InResched(t) ==
  UNION {{<<"zombie", c, i>> : i \in {j \in DOMAIN resched[c] : resched[c][j] = t}} :
           c \in Cpus}
AsCurrent(t) == {<<"running", "current", c>> : c \in {d \in Cpus : cur[d] = t}}
AsNext(t) ==
  {<<"running", "next", c>> : c \in {d \in Cpus : k[d].pc = "switch" /\ k[d].th = t}}
AsOld(t) == {<<k[c].st, "old", c>> : c \in {d \in Cpus : k[d].pc = "insert" /\ k[d].th = t}}
Places(t) == InQueue(t) \cup InStop(t) \cup InZlist(t) \cup InResched(t)
             \cup AsCurrent(t) \cup AsNext(t) \cup AsOld(t)

(* A thread is in one list or on one CPU, the one its status says: no      *)
(* thread is run by two CPUs, queued twice, or forgotten.                  *)
OnePlace ==
  ~broken =>
    \A t \in Threads :
      IF status[t] = "free" THEN Places(t) = {}
      ELSE /\ Cardinality(Places(t)) = 1
           /\ \A m \in Places(t) : m[1] = status[t]

(* The CPU halts in its idle loop only if there is nothing to run: a       *)
(* thread made runnable by an interrupt always brings a kick with it.      *)
WorkConserving ==
  \A c \in Cpus : (k[c].pc = "user" /\ cur[c] = Idle /\ ~kick[c]) => runq = <<>>

(* th->parent is never a dead thread: do_zombie and thraise use it, and    *)
(* __exit gives all children of a dying thread to init.                    *)
ParentAlive ==
  \A t \in Threads \ {Init0} :
    status[t] # "free" => parent[t] \in Threads /\ Live(parent[t])

(* A signal raised for a thread is delivered, unless the thread dies.      *)
SignalDelivered ==
  \A t \in Threads : (Live(t) /\ sig[t]) ~> (~sig[t] \/ ~Live(t))

(* Every runnable thread gets a CPU.                                       *)
RunnableRuns == \A t \in Threads : status[t] = "runnable" ~> status[t] = "running"

(* bootstrap, of the signal do_zombie raises: "Being the INTRCHILD handler, *)
(* we'll handle death of processes".  Every dead thread gets to the        *)
(* zombie_children list of its parent.                                     *)
DeathReported ==
  \A t \in Threads : status[t] = "zombie" ~> (t \in zlist \/ status[t] = "free")
=============================================================================

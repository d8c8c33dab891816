---------------------------- MODULE SchedProofs -----------------------------
(***************************************************************************)
(* Proofs about Sched: for any number of CPUs and threads, where every     *)
(* thread is and who its parent is; for one CPU, that no list is corrupted *)
(* and no wake-up is lost.                                                 *)
(***************************************************************************)
EXTENDS Sched, FiniteSetTheorems, TLAPS

(* The threads in a queue, and that none is there twice.                   *)
Elems(s) == {s[i] : i \in DOMAIN s}
Uniq(s) == \A i, j \in DOMAIN s : s[i] = s[j] => i = j

(* What is known of the step that a CPU is about to take.                  *)
Leaving == {"runnable", "stopped", "zombie"}
ControlOK ==
  \A c \in Cpus :
    /\ k[c].pc = "wake" => /\ k[c].th \in Threads
                           /\ k[c].next # "user"
                           /\ k[c].next = "pick" => k[c].st = "zombie"
    /\ k[c].pc \in {"pick", "switch"} => k[c].st \in Leaving
    /\ k[c].pc = "switch" => k[c].th \in Threads \cup {Idle} /\ k[c].th # cur[c]
    /\ k[c].pc = "insert" => k[c].th \in Threads /\ k[c].st \in Leaving

(* CPU c is past __exit of its current thread and has not left it yet.     *)
Dying(c) == \/ k[c].pc = "wake" /\ k[c].next = "pick"
            \/ k[c].pc \in {"pick", "switch"} /\ k[c].st = "zombie"

(* A thread that is leaving for ever is not init and has no children left. *)
DyingOK ==
  \A c \in Cpus : Dying(c) => /\ cur[c] \in Threads \ {Init0}
                              /\ \A t \in Threads : parent[t] # cur[c]
InitAlive == Live(Init0)

FamilyInv == TypeOK /\ ControlOK /\ DyingOK /\ InitAlive /\ ParentAlive

(* One place per thread, list by list: everything that is in a list, or at *)
(* a CPU, has the status of that list, and is not in another one of the    *)
(* same status.                                                            *)
QueueOK == Uniq(runq) /\ \A t \in Elems(runq) : status[t] = "runnable"
StopOK == \A t \in stopq : status[t] = "stopped"
ZombieOK ==
  /\ \A t \in zlist : status[t] = "zombie"
  /\ \A c \in Cpus :
       /\ Uniq(resched[c])
       /\ \A t \in Elems(resched[c]) :
            /\ status[t] = "zombie" /\ t \notin zlist
            /\ \A d \in Cpus : d # c => t \notin Elems(resched[d])
CurOK ==
  \A c \in Cpus : cur[c] # Idle =>
    /\ status[cur[c]] = "running"
    /\ \A d \in Cpus : d # c => cur[d] # cur[c]
NextOK ==
  \A c \in Cpus : (k[c].pc = "switch" /\ k[c].th # Idle) =>
    /\ status[k[c].th] = "running"
    /\ \A d \in Cpus : /\ cur[d] # k[c].th
                       /\ d # c /\ k[d].pc = "switch" => k[d].th # k[c].th
OldOK ==
  \A c \in Cpus : k[c].pc = "insert" =>
    /\ status[k[c].th] = k[c].st
    /\ k[c].th \notin Elems(runq) \cup stopq \cup zlist
    /\ \A d \in Cpus : /\ k[c].th \notin Elems(resched[d])
                       /\ d # c /\ k[d].pc = "insert" => k[d].th # k[c].th
(* No thread is forgotten.                                                 *)
Inserting(t) == \E c \in Cpus : k[c].pc = "insert" /\ k[c].th = t
FoundOK ==
  \A t \in Threads :
    /\ status[t] = "runnable" => t \in Elems(runq) \/ Inserting(t)
    /\ status[t] = "stopped" => t \in stopq \/ Inserting(t)
    /\ status[t] = "zombie" => \/ t \in zlist \/ Inserting(t)
                               \/ \E c \in Cpus : t \in Elems(resched[c])
    /\ status[t] = "running" => \E c \in Cpus : \/ cur[c] = t
                                                \/ k[c].pc = "switch" /\ k[c].th = t
PlaceInv == QueueOK /\ StopOK /\ ZombieOK /\ CurOK /\ NextOK /\ OldOK /\ FoundOK

SchedInv == FamilyInv /\ (~broken => PlaceInv)

(* On one CPU: a thread that is going to sleep has no signal pending, and  *)
(* an idle CPU with something to run has a kick pending.                   *)
SleepOK ==
  /\ NoSleepWithSignal
  /\ \A c \in Cpus :
       k[c].pc \in {"pick", "switch"} /\ k[c].st = "stopped" /\ cur[c] # Idle
         => ~sig[cur[c]]
IdleOK ==
  \A c \in Cpus :
    /\ k[c].pc = "switch" /\ k[c].th = Idle => runq = <<>> /\ k[c].st # "runnable"
    /\ cur[c] = Idle =>
         /\ k[c].pc = "insert" => k[c].st # "runnable"
         /\ \/ c \in idlemap
            \/ k[c].pc = "pick" /\ runq # <<>>
            \/ k[c].pc = "switch"
         /\ k[c].pc \in {"pick", "switch"} \/ kick[c] \/ runq = <<>>
OneCpuInv == ~broken /\ SleepOK /\ IdleOK

-----------------------------------------------------------------------------
(* Queues.                                                                 *)

(* Appending a new element.                                                *)
LEMMA AppendQueue ==
  ASSUME NEW T, NEW s \in Seq(T), NEW x \in T
  PROVE  /\ Append(s, x) \in Seq(T)
         /\ Append(s, x) # <<>>
         /\ Elems(Append(s, x)) = Elems(s) \cup {x}
         /\ Uniq(s) /\ x \notin Elems(s) => Uniq(Append(s, x))
<1> DEFINE a == Append(s, x)
<1>1. /\ a \in Seq(T) /\ Len(a) = Len(s) + 1 /\ Len(s) \in Nat /\ a # <<>>
      /\ \A i \in 1 .. Len(s) : a[i] = s[i]
      /\ a[Len(s) + 1] = x
      /\ DOMAIN s = 1 .. Len(s) /\ DOMAIN a = 1 .. Len(s) + 1
  OBVIOUS
<1> HIDE DEF a
<1>2. Elems(a) = Elems(s) \cup {x}
  <2>1. ASSUME NEW i \in DOMAIN a
        PROVE  a[i] \in Elems(s) \cup {x}
    <3>1. i \in 1 .. Len(s) \/ i = Len(s) + 1
      BY <1>1
    <3>2. QED
      BY <1>1, <3>1 DEF Elems
  <2>2. ASSUME NEW i \in DOMAIN s
        PROVE  s[i] \in Elems(a)
    <3>1. i \in DOMAIN a /\ a[i] = s[i]
      BY <1>1
    <3>2. QED
      BY <3>1 DEF Elems
  <2>3. x \in Elems(a)
    <3>1. Len(s) + 1 \in DOMAIN a
      BY <1>1
    <3>2. QED
      BY <1>1, <3>1 DEF Elems
  <2>4. QED
    BY <2>1, <2>2, <2>3 DEF Elems
<1>3. ASSUME Uniq(s), x \notin Elems(s) PROVE Uniq(a)
  <2> SUFFICES ASSUME NEW i \in DOMAIN a, NEW j \in DOMAIN a, a[i] = a[j]
               PROVE  i = j
    BY DEF Uniq
  <2>1. /\ i \in DOMAIN s \/ i = Len(s) + 1
        /\ j \in DOMAIN s \/ j = Len(s) + 1
    BY <1>1
  <2>2. CASE i \in DOMAIN s /\ j \in DOMAIN s
    BY <1>1, <1>3, <2>2 DEF Uniq
  <2>3. CASE i \in DOMAIN s /\ j = Len(s) + 1
    BY <1>1, <1>3, <2>3 DEF Elems
  <2>4. CASE i = Len(s) + 1 /\ j \in DOMAIN s
    BY <1>1, <1>3, <2>4 DEF Elems
  <2>5. QED
    BY <2>1, <2>2, <2>3, <2>4
<1>4. QED
  BY <1>1, <1>2, <1>3 DEF a

(* Taking the first element.                                               *)
LEMMA TailQueue ==
  ASSUME NEW T, NEW s \in Seq(T), s # <<>>
  PROVE  /\ Head(s) \in T /\ Head(s) \in Elems(s)
         /\ Tail(s) \in Seq(T)
         /\ Uniq(s) => /\ Elems(Tail(s)) = Elems(s) \ {Head(s)}
                       /\ Uniq(Tail(s))
<1> DEFINE r == Tail(s)
           h == Head(s)
<1>1. /\ r \in Seq(T) /\ Len(r) = Len(s) - 1 /\ Len(s) \in Nat /\ Len(s) >= 1
      /\ \A i \in 1 .. Len(s) - 1 : r[i] = s[i + 1]
      /\ h = s[1] /\ h \in T
      /\ DOMAIN s = 1 .. Len(s) /\ DOMAIN r = 1 .. Len(s) - 1
  OBVIOUS
<1> HIDE DEF r, h
<1>2. h \in Elems(s)
  <2>1. 1 \in DOMAIN s
    BY <1>1
  <2>2. QED
    BY <1>1, <2>1 DEF Elems
<1>3. ASSUME Uniq(s)
      PROVE  Elems(r) = Elems(s) \ {h}
  <2>1. ASSUME NEW i \in DOMAIN r
        PROVE  r[i] \in Elems(s) /\ r[i] # h
    <3>1. i + 1 \in DOMAIN s /\ 1 \in DOMAIN s /\ r[i] = s[i + 1] /\ i + 1 # 1
      BY <1>1
    <3>2. QED
      BY <1>1, <1>3, <3>1 DEF Elems, Uniq
  <2>2. ASSUME NEW i \in DOMAIN s, s[i] # h
        PROVE  s[i] \in Elems(r)
    <3>1. i # 1
      BY <1>1, <2>2
    <3>2. i - 1 \in DOMAIN r /\ r[i - 1] = s[i]
      BY <1>1, <3>1
    <3>3. QED
      BY <3>2 DEF Elems
  <2>3. QED
    BY <2>1, <2>2 DEF Elems
<1>4. ASSUME Uniq(s) PROVE Uniq(r)
  <2> SUFFICES ASSUME NEW i \in DOMAIN r, NEW j \in DOMAIN r, r[i] = r[j]
               PROVE  i = j
    BY DEF Uniq
  <2>1. /\ i + 1 \in DOMAIN s /\ j + 1 \in DOMAIN s
        /\ r[i] = s[i + 1] /\ r[j] = s[j + 1] /\ i \in Int /\ j \in Int
    BY <1>1
  <2>2. i + 1 = j + 1
    BY <1>4, <2>1 DEF Uniq
  <2>3. QED
    BY <2>1, <2>2
<1>5. QED
  BY <1>1, <1>2, <1>3, <1>4 DEF r, h

LEMMA EmptyQueue ==
  ASSUME NEW T
  PROVE  <<>> \in Seq(T) /\ Elems(<<>>) = {} /\ Uniq(<<>>)
BY DEF Elems, Uniq

LEMMA ElemsType ==
  ASSUME NEW T, NEW s \in Seq(T)
  PROVE  Elems(s) \subseteq T
BY DEF Elems

-----------------------------------------------------------------------------
(* Types.                                                                  *)

ContType == [pc : Steps, th : Threads \cup {Idle, Nobody},
             st : Statuses, next : {"user", "softirq", "zirq", "pick"}]

LEMMA GotoTable ==
  ASSUME TypeOK, NEW c \in Cpus, NEW x, Goto(c, x)
  PROVE  /\ k'[c] = x
         /\ \A d \in Cpus : d # c => k'[d] = k[d]
         /\ x \in ContType => k' \in [Cpus -> ContType]
<1>1. k \in [Cpus -> ContType]
  BY DEF TypeOK, ContType
<1>2. QED
  BY <1>1 DEF Goto

(* The continuations that the steps leave.                                 *)
LEMMA ContTypes ==
  /\ \A pc \in Steps : At(pc) \in ContType
  /\ \A st \in Leaving : ToSchedule(st) \in ContType
  /\ \A th \in Threads, next \in {"softirq", "zirq"} : ToWake(th, next) \in ContType
  /\ \A th \in Threads : Cont("wake", th, "zombie", "pick") \in ContType
  /\ \A th \in Threads \cup {Idle}, st \in Statuses, pc \in Steps :
       Cont(pc, th, st, "user") \in ContType
BY DEF ContType, Steps, Statuses, Leaving, At, ToSchedule, ToWake, Cont

(* The fields of a continuation.                                           *)
LEMMA ContFields ==
  /\ \A pc : At(pc).pc = pc
  /\ \A st : ToSchedule(st).pc = "pick" /\ ToSchedule(st).st = st
  /\ \A th, next : /\ ToWake(th, next).pc = "wake" /\ ToWake(th, next).th = th
                   /\ ToWake(th, next).next = next
  /\ \A pc, th, st, next : /\ Cont(pc, th, st, next).pc = pc
                           /\ Cont(pc, th, st, next).th = th
                           /\ Cont(pc, th, st, next).st = st
                           /\ Cont(pc, th, st, next).next = next
BY DEF At, ToSchedule, ToWake, Cont

LEMMA DieType ==
  ASSUME TypeOK, NEW c \in Cpus, NEW t \in Threads, NEW b \in BOOLEAN, Die(c, t, b),
         intr' \in [Threads -> BOOLEAN]
  PROVE  TypeOK'
<1>1. parent' \in [Threads -> Threads \cup {Nobody}]
  BY ThreadsAssumption DEF Die, Reparented, TypeOK
<1>2. sig' \in [Threads -> BOOLEAN]
  BY DEF Die, TypeOK
<1>3. k' \in [Cpus -> ContType]
  BY ThreadsAssumption, GotoTable, ContTypes DEF Die
<1>4. QED
  BY <1>1, <1>2, <1>3 DEF Die, TypeOK, ContType

(* Every step keeps the types, given that wake and insert have a thread to *)
(* work on.                                                                *)
LEMMA TypeStep ==
  ASSUME TypeOK, ControlOK, ~broken => ParentAlive /\ ZombieOK, InitAlive, Next
  PROVE  TypeOK'
<1> USE DEF ContType
<1>0. /\ {"user", "softirq", "zirq", "pick", "wake", "switch", "insert", "resume"} = Steps
      /\ {"free", "running"} \cup Leaving = Statuses
  BY DEF Steps, Statuses, Leaving
<1>1. ASSUME NEW c \in Cpus, NEW t \in Threads, SysWait(c, t)
      PROVE  TypeOK'
  <2>1. k' \in [Cpus -> ContType]
    BY <1>1, GotoTable, ContTypes, <1>0 DEF SysWait, Leaving
  <2>2. QED
    BY <1>1, <2>1 DEF SysWait, TypeOK, WaitFlag
<1>2. ASSUME NEW c \in Cpus, NEW t \in Threads, SysYield(c, t)
      PROVE  TypeOK'
  <2>1. k' \in [Cpus -> ContType]
    BY <1>2, GotoTable, ContTypes, <1>0 DEF SysYield, Leaving
  <2>2. QED
    BY <1>2, <2>1 DEF SysYield, TypeOK
<1>3. ASSUME NEW c \in Cpus, NEW t \in Threads, NEW fl \in BOOLEAN, SysFlags(c, t, fl)
      PROVE  TypeOK'
  <2>1. k' \in [Cpus -> ContType]
    BY <1>3, GotoTable, ContTypes, <1>0 DEF SysFlags
  <2>2. QED
    BY <1>3, <2>1 DEF SysFlags, TypeOK
<1>4. ASSUME NEW c \in Cpus, NEW t \in Threads, NEW n \in Threads, SysFork(c, t, n)
      PROVE  TypeOK'
  <2>1. k' \in [Cpus -> ContType]
    BY <1>4, GotoTable, ContTypes, <1>0 DEF SysFork
  <2>2. runq' \in Seq(Threads)
    BY <1>4, AppendQueue DEF SysFork, TypeOK
  <2>3. status' \in [Threads -> Statuses]
    BY <1>4 DEF SysFork, TypeOK, Statuses
  <2>4. QED
    BY <1>4, <2>1, <2>2, <2>3 DEF SysFork, TypeOK
<1>5. ASSUME NEW c \in Cpus, NEW t \in Threads, NEW z \in Threads, SysChildstat(c, t, z)
      PROVE  TypeOK'
  <2>1. k' \in [Cpus -> ContType]
    BY <1>5, GotoTable, ContTypes, <1>0 DEF SysChildstat
  <2>2. status' \in [Threads -> Statuses]
    BY <1>5 DEF SysChildstat, TypeOK, Statuses
  <2>3. QED
    BY <1>5, <2>1, <2>2 DEF SysChildstat, TypeOK
<1>6. ASSUME NEW c \in Cpus, NEW u \in Threads, Raise(c, u)
      PROVE  TypeOK'
  <2>1. k' \in [Cpus -> ContType]
    BY <1>6, GotoTable, ContTypes DEF Raise
  <2>2. QED
    BY <1>6, <2>1 DEF Raise, TypeOK
<1>7. ASSUME NEW c \in Cpus, CpuKick(c)
      PROVE  TypeOK'
  <2>1. k' \in [Cpus -> ContType]
    BY <1>7, GotoTable, ContTypes, <1>0 DEF CpuKick, Leaving
  <2>2. QED
    BY <1>7, <2>1 DEF CpuKick, TypeOK
<1>8. ASSUME NEW c \in Cpus, NEW t \in Threads, SysDie(c, t)
      PROVE  TypeOK'
  BY <1>8, DieType DEF SysDie, TypeOK
<1>9. ASSUME NEW c \in Cpus, NEW t \in Threads, DeliverFails(c, t)
      PROVE  TypeOK'
  <2>1. intr' \in [Threads -> BOOLEAN]
    BY <1>9 DEF DeliverFails, TypeOK
  <2>2. QED
    BY <1>9, <2>1, DieType DEF DeliverFails
<1>10. ASSUME NEW c \in Cpus, Wake(c)
       PROVE  TypeOK'
  <2> DEFINE u == k[c].th
  <2>1. /\ u \in Threads /\ k[c].next # "user" /\ k[c] \in ContType
        /\ k[c].next = "pick" => k[c].st = "zombie"
    BY <1>10 DEF Wake, Is, ControlOK, TypeOK
  <2>2. k' \in [Cpus -> ContType]
    <3>1. k[c].next = "pick" => ToSchedule(k[c].st) \in ContType
      BY <2>1, ContTypes DEF Leaving
    <3>2. k[c].next # "pick" => At(k[c].next) \in ContType
      BY <1>0, <2>1, ContTypes
    <3>3. QED
      BY <1>10, <3>1, <3>2, GotoTable DEF Wake
  <2>3. runq' \in Seq(Threads)
    <3>1. runq' = runq \/ runq' = Append(runq, u)
      BY <1>10 DEF Wake
    <3>2. runq \in Seq(Threads) /\ Append(runq, u) \in Seq(Threads)
      BY <2>1, AppendQueue DEF TypeOK
    <3>3. QED
      BY <3>1, <3>2
  <2>4. status' \in [Threads -> Statuses]
    <3>1. status' = status \/ status' = [status EXCEPT ![u] = "runnable"]
      BY <1>10 DEF Wake
    <3>2. QED
      BY <2>1, <3>1 DEF TypeOK, Statuses
  <2>5. kick' \in [Cpus -> BOOLEAN] /\ stopq' \subseteq Threads /\ broken' \in BOOLEAN
    BY <1>10, <2>1 DEF Wake, TypeOK
  <2>6. QED
    BY <1>10, <2>2, <2>3, <2>4, <2>5 DEF Wake, TypeOK
<1>11. ASSUME NEW c \in Cpus, Pick(c)
       PROVE  TypeOK'
  <2> DEFINE none == runq = <<>>
             th == IF ~none THEN Head(runq)
                   ELSE IF k[c].st = "runnable" THEN cur[c] ELSE Idle
  <2>1. /\ runq' = IF none THEN runq ELSE Tail(runq)
        /\ status' = IF none THEN status ELSE [status EXCEPT ![th] = "running"]
        /\ cpu' = IF none THEN cpu ELSE [cpu EXCEPT ![th] = c]
        /\ Goto(c, IF th = cur[c] THEN At("softirq") ELSE Cont("switch", th, k[c].st, "user"))
        /\ UNCHANGED <<sig, intr, parent, zlist, fresh, stopq, cur, resched, zsoft,
                       idlemap, kick, broken>>
    BY <1>11 DEF Pick, Rest, cpu_number
  <2>2. /\ ~none => Head(runq) \in Threads /\ Tail(runq) \in Seq(Threads)
        /\ runq \in Seq(Threads) /\ cur[c] \in Threads \cup {Idle} /\ k[c].st \in Statuses
    BY TailQueue DEF TypeOK
  <2>3. th \in Threads \cup {Idle} /\ (~none => th \in Threads)
    BY <2>2
  <2>4. runq' \in Seq(Threads)
    BY <2>1, <2>2
  <2> HIDE DEF none, th
  <2>5. k' \in [Cpus -> ContType]
    <3>1. At("softirq") \in ContType /\ Cont("switch", th, k[c].st, "user") \in ContType
      BY <1>0, <2>2, <2>3, ContTypes
    <3>2. QED
      BY <2>1, <3>1, GotoTable
  <2>6. status' \in [Threads -> Statuses] /\ cpu' \in [Threads -> Cpus]
    BY <2>1, <2>3 DEF TypeOK, Statuses
  <2>7. QED
    BY <2>1, <2>4, <2>5, <2>6 DEF TypeOK
<1>12. ASSUME NEW c \in Cpus, Switch(c)
       PROVE  TypeOK'
  <2>1. /\ k[c].th \in Threads \cup {Idle} /\ k[c].st \in Statuses
        /\ cur[c] \in Threads \cup {Idle}
    BY <1>0, <1>12 DEF Switch, Is, ControlOK, TypeOK
  <2>2. k' \in [Cpus -> ContType]
    BY <1>0, <1>12, <2>1, ContTypes, GotoTable, SMTT(30) DEF Switch
  <2>3. cur' \in [Cpus -> Threads \cup {Idle}] /\ idlemap' \subseteq Cpus
    BY <1>12, <2>1 DEF Switch, IdlemapAfter, TypeOK
  <2>4. status' \in [Threads -> Statuses]
    BY <1>12, <2>1 DEF Switch, TypeOK
  <2>5. QED
    BY <1>12, <2>2, <2>3, <2>4 DEF Switch, TypeOK
<1>13. ASSUME NEW c \in Cpus, Insert(c)
       PROVE  TypeOK'
  <2>1. k[c].th \in Threads /\ k[c].st \in Statuses
    BY <1>0, <1>13 DEF Insert, Is, ControlOK
  <2>2. k' \in [Cpus -> ContType]
    BY <1>0, <1>13, <2>1, ContTypes, GotoTable DEF Insert
  <2>3. runq' \in Seq(Threads)
    BY <1>13, <2>1, AppendQueue DEF Insert, TypeOK
  <2>4. resched' \in [Cpus -> Seq(Threads)]
    <3>1. Append(resched[c], k[c].th) \in Seq(Threads)
      BY <2>1, AppendQueue DEF TypeOK
    <3>2. QED
      BY <1>13, <3>1 DEF Insert, TypeOK
  <2>5. stopq' \subseteq Threads /\ zsoft' \in [Cpus -> BOOLEAN]
    BY <1>13, <2>1 DEF Insert, FiledStopped, TypeOK
  <2>6. QED
    BY <1>13, <2>2, <2>3, <2>4, <2>5 DEF Insert, TypeOK
<1>14. ASSUME NEW c \in Cpus, Resume(c)
       PROVE  TypeOK'
  <2>1. k' \in [Cpus -> ContType]
    BY <1>0, <1>14, ContTypes, GotoTable DEF Resume
  <2>2. QED
    BY <1>14, <2>1 DEF Resume, TypeOK
<1>15. ASSUME NEW c \in Cpus, Deliver(c)
       PROVE  TypeOK'
  <2>1. k' \in [Cpus -> ContType]
    BY <1>0, <1>15, ContTypes, GotoTable DEF Deliver
  <2>2. sig' \in [Threads -> BOOLEAN] /\ intr' \in [Threads -> BOOLEAN]
    BY <1>15 DEF Deliver, TypeOK
  <2>3. QED
    BY <1>15, <2>1, <2>2 DEF Deliver, TypeOK
<1>16. ASSUME NEW c \in Cpus, DoZombie(c)
       PROVE  TypeOK'
  <2> DEFINE z == Head(resched[c])
  <2>1. z \in Threads /\ Tail(resched[c]) \in Seq(Threads) /\ z \in Elems(resched[c])
    BY <1>16, TailQueue DEF DoZombie, TypeOK
  <2>2. parent[z] \in Threads
    <3>1. status[z] = "zombie"
      BY <1>16, <2>1 DEF DoZombie, Is, ZombieOK
    <3>2. QED
      BY <1>16, <2>1, <3>1 DEF DoZombie, Is, ParentAlive, InitAlive, Live
  <2>3. k' \in [Cpus -> ContType]
    BY <1>16, <2>2, ContTypes, GotoTable DEF DoZombie
  <2>4. resched' \in [Cpus -> Seq(Threads)] /\ sig' \in [Threads -> BOOLEAN]
        /\ zlist' \subseteq Threads /\ zsoft' \in [Cpus -> BOOLEAN]
    BY <1>16, <2>1, <2>2 DEF DoZombie, TypeOK
  <2>5. QED
    BY <1>16, <2>3, <2>4 DEF DoZombie, TypeOK
<1>17. ASSUME NEW c \in Cpus, ReturnToUser(c)
       PROVE  TypeOK'
  <2>1. k' \in [Cpus -> ContType]
    BY <1>0, <1>17, ContTypes, GotoTable DEF ReturnToUser
  <2>2. QED
    BY <1>17, <2>1 DEF ReturnToUser, TypeOK
<1>18. QED
  BY <1>1, <1>2, <1>3, <1>4, <1>5, <1>6, <1>7, <1>8, <1>9, <1>10, <1>11, <1>12,
     <1>13, <1>14, <1>15, <1>16, <1>17
  DEF Next, Kernel, UserCall

-----------------------------------------------------------------------------
(* Parents.                                                                *)

(* A step that changes no status, parent or current thread and does not    *)
(* begin or continue the departure of a dying thread.                      *)
LEMMA QuietFamily ==
  ASSUME FamilyInv, NEW c \in Cpus, \A d \in Cpus : d # c => k'[d] = k[d],
         status' = status, parent' = parent, cur' = cur,
         k'[c].pc \notin {"switch", "insert"},
         k'[c].pc = "wake" => k'[c].th \in Threads /\ k'[c].next \notin {"user", "pick"},
         k'[c].pc = "pick" => k'[c].st \in {"runnable", "stopped"}
  PROVE  ControlOK' /\ DyingOK' /\ InitAlive' /\ ParentAlive'
<1>1. InitAlive' /\ ParentAlive'
  BY DEF FamilyInv, InitAlive, ParentAlive, Live
<1>2. ControlOK'
  <2> SUFFICES ASSUME NEW d \in Cpus
               PROVE  /\ k'[d].pc = "wake" => /\ k'[d].th \in Threads
                                              /\ k'[d].next # "user"
                                              /\ k'[d].next = "pick" => k'[d].st = "zombie"
                      /\ k'[d].pc \in {"pick", "switch"} => k'[d].st \in Leaving
                      /\ k'[d].pc = "switch" => k'[d].th \in Threads \cup {Idle} /\ k'[d].th # cur'[d]
                      /\ k'[d].pc = "insert" => k'[d].th \in Threads /\ k'[d].st \in Leaving
    BY DEF ControlOK
  <2>1. CASE d = c
    BY <2>1 DEF Leaving
  <2>2. CASE d # c
    BY <2>2 DEF FamilyInv, ControlOK
  <2>3. QED
    BY <2>1, <2>2
<1>3. DyingOK'
  <2> SUFFICES ASSUME NEW d \in Cpus, Dying(d)'
               PROVE  /\ cur'[d] \in Threads \ {Init0}
                      /\ \A t \in Threads : parent'[t] # cur'[d]
    BY DEF DyingOK
  <2>1. d # c
    BY DEF Dying
  <2>2. Dying(d)
    BY <2>1 DEF Dying
  <2>3. QED
    BY <2>2 DEF FamilyInv, DyingOK
<1>4. QED
  BY <1>1, <1>2, <1>3

(* fork: the child of a running thread, which is not dying.                *)
LEMMA ForkFamily ==
  ASSUME FamilyInv, PlaceInv, NEW c \in Cpus, NEW t \in Threads, NEW n \in Threads,
         SysFork(c, t, n)
  PROVE  ControlOK' /\ DyingOK' /\ InitAlive' /\ ParentAlive'
<1>1. /\ \A d \in Cpus : d # c => k'[d] = k[d]
      /\ k'[c].pc = "softirq" /\ k[c].pc = "user" /\ cur[c] = t /\ t # Idle
      /\ status' = [status EXCEPT ![n] = "runnable"]
      /\ parent' = [parent EXCEPT ![n] = t]
      /\ cur' = cur /\ status[n] = "free"
  BY GotoTable, ContFields DEF SysFork, User, Is, FamilyInv
<1>2. status[t] = "running" /\ \A d \in Cpus : d # c => cur[d] # t
  BY <1>1 DEF PlaceInv, CurOK
<1>3. /\ \A u \in Threads : u # n => status'[u] = status[u] /\ parent'[u] = parent[u]
      /\ status'[n] = "runnable" /\ parent'[n] = t
  BY <1>1 DEF FamilyInv, TypeOK
<1>4. ControlOK'
  BY <1>1 DEF FamilyInv, ControlOK
<1>5. DyingOK'
  <2> SUFFICES ASSUME NEW d \in Cpus, Dying(d)'
               PROVE  /\ cur'[d] \in Threads \ {Init0}
                      /\ \A u \in Threads : parent'[u] # cur'[d]
    BY DEF DyingOK
  <2>1. d # c
    BY <1>1 DEF Dying
  <2>2. Dying(d)
    BY <1>1, <2>1 DEF Dying
  <2>3. QED
    BY <1>1, <1>2, <1>3, <2>1, <2>2 DEF FamilyInv, DyingOK
<1>6. InitAlive' /\ ParentAlive'
  BY <1>1, <1>2, <1>3, ThreadsAssumption DEF FamilyInv, InitAlive, ParentAlive, Live
<1>7. QED
  BY <1>4, <1>5, <1>6

(* childstat: nobody is the child of a zombie.                             *)
LEMMA ChildstatFamily ==
  ASSUME FamilyInv, PlaceInv, NEW c \in Cpus, NEW t \in Threads, NEW z \in Threads,
         SysChildstat(c, t, z)
  PROVE  ControlOK' /\ DyingOK' /\ InitAlive' /\ ParentAlive'
<1>1. /\ \A d \in Cpus : d # c => k'[d] = k[d]
      /\ k'[c].pc = "softirq" /\ z \in zlist
      /\ status' = [status EXCEPT ![z] = "free"]
      /\ parent' = [parent EXCEPT ![z] = Nobody]
      /\ cur' = cur
  BY GotoTable, ContFields DEF SysChildstat, User, Is, FamilyInv
<1>2. status[z] = "zombie"
  BY <1>1 DEF PlaceInv, ZombieOK
<1>3. /\ \A u \in Threads : u # z => status'[u] = status[u] /\ parent'[u] = parent[u]
      /\ status'[z] = "free" /\ parent'[z] = Nobody
  BY <1>1 DEF FamilyInv, TypeOK
<1>4. ControlOK'
  BY <1>1 DEF FamilyInv, ControlOK
<1>5. DyingOK'
  <2> SUFFICES ASSUME NEW d \in Cpus, Dying(d)'
               PROVE  /\ cur'[d] \in Threads \ {Init0}
                      /\ \A u \in Threads : parent'[u] # cur'[d]
    BY DEF DyingOK
  <2>1. d # c
    BY <1>1 DEF Dying
  <2>2. Dying(d)
    BY <1>1, <2>1 DEF Dying
  <2>3. QED
    BY <1>1, <1>3, <2>2, ThreadsAssumption DEF FamilyInv, DyingOK
<1>6. InitAlive' /\ ParentAlive'
  BY <1>1, <1>2, <1>3, ThreadsAssumption DEF FamilyInv, InitAlive, ParentAlive, Live
<1>7. QED
  BY <1>4, <1>5, <1>6

(* __exit: init inherits the children.                                     *)
LEMMA DieFamily ==
  ASSUME FamilyInv, NEW c \in Cpus, NEW t \in Threads, NEW b, cur[c] = t, Die(c, t, b)
  PROVE  ControlOK' /\ DyingOK' /\ InitAlive' /\ ParentAlive'
<1>1. /\ \A d \in Cpus : d # c => k'[d] = k[d]
      /\ k'[c] = Cont("wake", Init0, "zombie", "pick")
      /\ status' = status /\ cur' = cur /\ t # Init0
      /\ \A u \in Threads : parent'[u] = IF parent[u] = t THEN Init0 ELSE parent[u]
  BY GotoTable DEF Die, Reparented, FamilyInv
<1>2. k'[c].pc = "wake" /\ k'[c].th = Init0 /\ k'[c].st = "zombie" /\ k'[c].next = "pick"
  BY <1>1, ContFields
<1>3. ControlOK'
  BY <1>1, <1>2, ThreadsAssumption DEF FamilyInv, ControlOK
<1>4. DyingOK'
  <2> SUFFICES ASSUME NEW d \in Cpus, Dying(d)'
               PROVE  /\ cur'[d] \in Threads \ {Init0}
                      /\ \A u \in Threads : parent'[u] # cur'[d]
    BY DEF DyingOK
  <2>1. CASE d = c
    BY <1>1, <2>1
  <2>2. CASE d # c
    <3>1. Dying(d)
      BY <1>1, <2>2 DEF Dying
    <3>2. QED
      BY <1>1, <3>1 DEF FamilyInv, DyingOK
  <2>3. QED
    BY <2>1, <2>2
<1>5. InitAlive' /\ ParentAlive'
  BY <1>1, ThreadsAssumption DEF FamilyInv, InitAlive, ParentAlive, Live
<1>6. QED
  BY <1>3, <1>4, <1>5

(* Some thread becomes runnable or running and nobody ceases to live.      *)
LEMMA StillAlive ==
  ASSUME FamilyInv, parent' = parent,
         \A u \in Threads : /\ Live(u) => Live(u)'
                            /\ status'[u] = "free" <=> status[u] = "free"
  PROVE  InitAlive' /\ ParentAlive'
BY ThreadsAssumption DEF FamilyInv, InitAlive, ParentAlive

LEMMA WakeFamily ==
  ASSUME FamilyInv, NEW c \in Cpus, Wake(c)
  PROVE  ControlOK' /\ DyingOK' /\ InitAlive' /\ ParentAlive'
<1> DEFINE u == k[c].th
<1>1. /\ \A d \in Cpus : d # c => k'[d] = k[d]
      /\ k'[c] = IF k[c].next = "pick" THEN ToSchedule(k[c].st) ELSE At(k[c].next)
      /\ parent' = parent /\ cur' = cur /\ k[c].pc = "wake"
      /\ \/ status' = status
         \/ status[u] = "stopped" /\ status' = [status EXCEPT ![u] = "runnable"]
  BY GotoTable DEF Wake, Is, FamilyInv
<1>2. /\ u \in Threads /\ k[c].next \in {"softirq", "zirq", "pick"}
      /\ k[c].next = "pick" => k[c].st = "zombie"
  BY <1>1 DEF FamilyInv, ControlOK, TypeOK
<1>3. /\ k[c].next = "pick" => k'[c].pc = "pick" /\ k'[c].st = "zombie"
      /\ k[c].next # "pick" => k'[c].pc \in {"softirq", "zirq"}
  BY <1>1, <1>2, ContFields
<1>4. ControlOK'
  BY <1>1, <1>3 DEF FamilyInv, ControlOK, Leaving
<1>5. DyingOK'
  <2> SUFFICES ASSUME NEW d \in Cpus, Dying(d)'
               PROVE  Dying(d)
    BY <1>1 DEF FamilyInv, DyingOK
  <2>1. QED
    BY <1>1, <1>3 DEF Dying
<1>6. \A v \in Threads : /\ Live(v) => Live(v)'
                         /\ status'[v] = "free" <=> status[v] = "free"
  BY <1>1, <1>2 DEF FamilyInv, TypeOK, Live
<1>7. QED
  BY <1>1, <1>4, <1>5, <1>6, StillAlive

LEMMA PickFamily ==
  ASSUME FamilyInv, PlaceInv, NEW c \in Cpus, Pick(c)
  PROVE  ControlOK' /\ DyingOK' /\ InitAlive' /\ ParentAlive'
<1> DEFINE none == runq = <<>>
           th == IF ~none THEN Head(runq)
                 ELSE IF k[c].st = "runnable" THEN cur[c] ELSE Idle
<1>1. /\ status' = IF none THEN status ELSE [status EXCEPT ![th] = "running"]
      /\ k'[c] = IF th = cur[c] THEN At("softirq") ELSE Cont("switch", th, k[c].st, "user")
      /\ \A d \in Cpus : d # c => k'[d] = k[d]
      /\ parent' = parent /\ cur' = cur /\ k[c].pc = "pick"
  BY GotoTable DEF Pick, Is, FamilyInv
<1>2. /\ ~none => th \in Threads /\ status[th] = "runnable"
      /\ th \in Threads \cup {Idle} /\ k[c].st \in Leaving
  BY <1>1, TailQueue DEF FamilyInv, TypeOK, ControlOK, PlaceInv, QueueOK
<1> HIDE DEF none, th
<1>3. /\ th = cur[c] => k'[c].pc = "softirq"
      /\ th # cur[c] => k'[c].pc = "switch" /\ k'[c].th = th /\ k'[c].st = k[c].st
  BY <1>1, ContFields
<1>4. ControlOK'
  BY <1>1, <1>2, <1>3 DEF FamilyInv, ControlOK
<1>5. DyingOK'
  <2> SUFFICES ASSUME NEW d \in Cpus, Dying(d)'
               PROVE  Dying(d)
    BY <1>1 DEF FamilyInv, DyingOK
  <2>1. QED
    BY <1>1, <1>3 DEF Dying
<1>6. \A v \in Threads : /\ Live(v) => Live(v)'
                         /\ status'[v] = "free" <=> status[v] = "free"
  BY <1>1, <1>2 DEF FamilyInv, TypeOK, Live
<1>7. QED
  BY <1>1, <1>4, <1>5, <1>6, StillAlive

(* thswitch: the thread that becomes a zombie has no children.             *)
LEMMA SwitchFamily ==
  ASSUME FamilyInv, PlaceInv, NEW c \in Cpus, Switch(c)
  PROVE  ControlOK' /\ DyingOK' /\ InitAlive' /\ ParentAlive'
<1> DEFINE old == cur[c]
<1>1. /\ status' = IF old = Idle THEN status ELSE [status EXCEPT ![old] = k[c].st]
      /\ k'[c] = Cont(IF old = Idle THEN "resume" ELSE "insert", old, k[c].st, "user")
      /\ \A d \in Cpus : d # c => k'[d] = k[d]
      /\ parent' = parent /\ k[c].pc = "switch"
      /\ \A d \in Cpus : d # c => cur'[d] = cur[d]
  BY GotoTable DEF Switch, Is, FamilyInv, TypeOK
<1>2. old \in Threads \cup {Idle} /\ k[c].st \in Leaving
  BY <1>1 DEF FamilyInv, TypeOK, ControlOK
<1>3. /\ old = Idle => k'[c].pc = "resume"
      /\ old # Idle => k'[c].pc = "insert" /\ k'[c].th = old /\ k'[c].st = k[c].st
  BY <1>1, ContFields
<1>4. k[c].st = "zombie" => old \in Threads \ {Init0} /\ \A t \in Threads : parent[t] # old
  BY <1>1 DEF FamilyInv, DyingOK, Dying
<1>5. old # Idle => status[old] = "running"
  BY DEF PlaceInv, CurOK
<1> HIDE DEF old
<1>6. ControlOK'
  BY <1>1, <1>2, <1>3 DEF FamilyInv, ControlOK
<1>7. DyingOK'
  <2> SUFFICES ASSUME NEW d \in Cpus, Dying(d)'
               PROVE  d # c /\ Dying(d)
    BY <1>1 DEF FamilyInv, DyingOK
  <2>1. QED
    BY <1>1, <1>3 DEF Dying
<1>8. \A u \in Threads : status'[u] = IF u = old THEN k[c].st ELSE status[u]
  BY <1>1, ThreadsAssumption DEF FamilyInv, TypeOK
<1>9. InitAlive' /\ ParentAlive'
  <2>1. CASE k[c].st = "zombie"
    BY <1>1, <1>4, <1>5, <1>8, <2>1, ThreadsAssumption
    DEF FamilyInv, InitAlive, ParentAlive, Live
  <2>2. CASE k[c].st # "zombie"
    <3>1. \A u \in Threads : /\ Live(u) => Live(u)'
                             /\ status'[u] = "free" <=> status[u] = "free"
      BY <1>2, <1>5, <1>8, <2>2, ThreadsAssumption DEF Live, Leaving
    <3>2. QED
      BY <1>1, <3>1, StillAlive
  <2>3. QED
    BY <2>1, <2>2
<1>10. QED
  BY <1>6, <1>7, <1>9

-----------------------------------------------------------------------------
(* The steps that move no thread.                                          *)

Quiet(c) ==
  /\ \A d \in Cpus : d # c => k'[d] = k[d]
  /\ UNCHANGED <<status, zlist, runq, stopq, cur, resched, broken>>
  /\ k[c].pc \notin {"switch", "insert"}
  /\ k'[c].pc \notin {"switch", "insert"}

LEMMA QuietSteps ==
  ASSUME TypeOK, NEW c \in Cpus,
         \/ CpuKick(c) \/ Resume(c) \/ Deliver(c) \/ ReturnToUser(c)
         \/ \E t \in Threads : \/ SysWait(c, t) \/ SysYield(c, t) \/ Raise(c, t)
                               \/ \E fl \in BOOLEAN : SysFlags(c, t, fl)
  PROVE  /\ Quiet(c) /\ parent' = parent
         /\ k'[c].pc = "wake" => k'[c].th \in Threads /\ k'[c].next \notin {"user", "pick"}
         /\ k'[c].pc = "pick" => k'[c].st \in {"runnable", "stopped"}
<1>1. ASSUME CpuKick(c)
      PROVE  /\ Quiet(c) /\ parent' = parent /\ k'[c].pc \in {"pick", "softirq"}
             /\ k'[c].pc = "pick" => k'[c].st = "stopped"
  BY <1>1, GotoTable, ContFields DEF CpuKick, Is, Quiet
<1>2. ASSUME Resume(c)
      PROVE  Quiet(c) /\ parent' = parent /\ k'[c].pc \in {"user", "softirq"}
  BY <1>2, GotoTable, ContFields DEF Resume, Is, Quiet
<1>3. ASSUME Deliver(c)
      PROVE  Quiet(c) /\ parent' = parent /\ k'[c].pc = "zirq"
  BY <1>3, GotoTable, ContFields DEF Deliver, Is, Quiet
<1>4. ASSUME ReturnToUser(c)
      PROVE  Quiet(c) /\ parent' = parent /\ k'[c].pc = "user"
  BY <1>4, GotoTable, ContFields DEF ReturnToUser, Is, Quiet
<1>5. ASSUME NEW t \in Threads, SysWait(c, t)
      PROVE  /\ Quiet(c) /\ parent' = parent /\ k'[c].pc \in {"pick", "softirq"}
             /\ k'[c].pc = "pick" => k'[c].st = "stopped"
  BY <1>5, GotoTable, ContFields DEF SysWait, User, Is, Quiet
<1>6. ASSUME NEW t \in Threads, SysYield(c, t)
      PROVE  /\ Quiet(c) /\ parent' = parent /\ k'[c].pc = "pick" /\ k'[c].st = "runnable"
  BY <1>6, GotoTable, ContFields DEF SysYield, User, Is, Quiet
<1>7. ASSUME NEW t \in Threads, Raise(c, t)
      PROVE  /\ Quiet(c) /\ parent' = parent /\ k'[c].pc = "wake"
             /\ k'[c].th = t /\ k'[c].next = "softirq"
  BY <1>7, GotoTable, ContFields DEF Raise, Is, Quiet
<1>8. ASSUME NEW t \in Threads, NEW fl \in BOOLEAN, SysFlags(c, t, fl)
      PROVE  /\ Quiet(c) /\ parent' = parent /\ k'[c].pc = "softirq"
  BY <1>8, GotoTable, ContFields DEF SysFlags, User, Is, Quiet
<1>9. QED
  BY <1>1, <1>2, <1>3, <1>4, <1>5, <1>6, <1>7, <1>8

LEMMA DieQuiet ==
  ASSUME TypeOK, NEW c \in Cpus, NEW t \in Threads, SysDie(c, t) \/ DeliverFails(c, t)
  PROVE  Quiet(c) /\ cur[c] = t /\ ~broken /\ \E b \in BOOLEAN : Die(c, t, b)
<1>1. ASSUME SysDie(c, t)
      PROVE  Quiet(c) /\ cur[c] = t /\ ~broken /\ Die(c, t, sig[t])
  BY <1>1, GotoTable, ContFields DEF SysDie, User, Die, Is, Quiet
<1>2. ASSUME DeliverFails(c, t)
      PROVE  Quiet(c) /\ cur[c] = t /\ ~broken /\ Die(c, t, FALSE)
  BY <1>2, GotoTable, ContFields DEF DeliverFails, Die, Is, Quiet
<1>3. sig[t] \in BOOLEAN
  BY DEF TypeOK
<1>4. QED
  BY <1>1, <1>2, <1>3

(* do_zombie: the dead thread has a parent to hand it to.                  *)
LEMMA ZombieParent ==
  ASSUME FamilyInv, PlaceInv, NEW c \in Cpus, DoZombie(c)
  PROVE  LET z == Head(resched[c]) IN
         /\ z \in Elems(resched[c]) /\ z \in Threads /\ parent[z] \in Threads
         /\ \A d \in Cpus : d # c => k'[d] = k[d]
         /\ k'[c] = ToWake(parent[z], "zirq") /\ k[c].pc = "zirq"
<1> DEFINE z == Head(resched[c])
<1>1. z \in Threads /\ z \in Elems(resched[c])
  BY TailQueue DEF DoZombie, FamilyInv, TypeOK
<1>2. status[z] = "zombie"
  BY <1>1 DEF PlaceInv, ZombieOK
<1>3. parent[z] \in Threads
  BY <1>1, <1>2 DEF FamilyInv, ParentAlive, InitAlive, Live
<1>4. QED
  BY <1>1, <1>3, GotoTable DEF DoZombie, Is, FamilyInv

(* Nothing moves once a list is corrupted.                                 *)
LEMMA NotBroken == ASSUME Next PROVE ~broken
<1>1. PICK c \in Cpus : \/ Kernel(c) \/ CpuKick(c)
                        \/ \E t \in Threads : UserCall(c, t) \/ Raise(c, t)
  BY DEF Next
<1>2. ASSUME NEW t \in Threads, UserCall(c, t) PROVE ~broken
  BY <1>2 DEF UserCall, SysWait, SysYield, SysDie, SysFlags, SysFork, SysChildstat,
              User, Is
<1>3. ASSUME Kernel(c) PROVE ~broken
  <2>1. Wake(c) \/ Pick(c) \/ Switch(c) \/ Insert(c) => ~broken
    BY DEF Wake, Pick, Switch, Insert, Is
  <2>2. Resume(c) \/ Deliver(c) \/ DoZombie(c) \/ ReturnToUser(c) => ~broken
    BY DEF Resume, Deliver, DoZombie, ReturnToUser, Is
  <2>3. (\E t \in Threads : DeliverFails(c, t)) => ~broken
    BY DEF DeliverFails, Is
  <2>4. QED
    BY <1>3, <2>1, <2>2, <2>3 DEF Kernel
<1>4. QED
  BY <1>1, <1>2, <1>3 DEF CpuKick, Raise, Is

(* Every step keeps the parents alive.                                     *)
LEMMA FamilyStep ==
  ASSUME SchedInv, Next
  PROVE  FamilyInv'
<1> USE DEF SchedInv
<1>0. ~broken /\ PlaceInv
  BY NotBroken
<1>1. TypeOK'
  BY <1>0, TypeStep DEF FamilyInv, PlaceInv
<1>2. ASSUME NEW c \in Cpus,
             \/ CpuKick(c) \/ Resume(c) \/ Deliver(c) \/ ReturnToUser(c)
             \/ \E t \in Threads : \/ SysWait(c, t) \/ SysYield(c, t) \/ Raise(c, t)
                                   \/ \E fl \in BOOLEAN : SysFlags(c, t, fl)
      PROVE  FamilyInv'
  <2>1. /\ Quiet(c) /\ parent' = parent
        /\ k'[c].pc = "wake" => k'[c].th \in Threads /\ k'[c].next \notin {"user", "pick"}
        /\ k'[c].pc = "pick" => k'[c].st \in {"runnable", "stopped"}
    BY <1>2, QuietSteps DEF FamilyInv
  <2>2. ControlOK' /\ DyingOK' /\ InitAlive' /\ ParentAlive'
    BY <2>1, QuietFamily DEF Quiet
  <2>3. QED
    BY <1>1, <2>2 DEF FamilyInv
<1>3. ASSUME NEW c \in Cpus, NEW t \in Threads, SysDie(c, t) \/ DeliverFails(c, t)
      PROVE  FamilyInv'
  <2>1. cur[c] = t /\ \E b \in BOOLEAN : Die(c, t, b)
    BY <1>3, DieQuiet DEF FamilyInv
  <2>2. ControlOK' /\ DyingOK' /\ InitAlive' /\ ParentAlive'
    BY <2>1, DieFamily
  <2>3. QED
    BY <1>1, <2>2 DEF FamilyInv
<1>4. ASSUME NEW c \in Cpus, Insert(c)
      PROVE  FamilyInv'
  <2>1. /\ \A d \in Cpus : d # c => k'[d] = k[d]
        /\ k'[c].pc = "resume"
        /\ status' = status /\ parent' = parent /\ cur' = cur
    BY <1>4, GotoTable, ContFields DEF Insert, FamilyInv
  <2>2. ControlOK' /\ DyingOK' /\ InitAlive' /\ ParentAlive'
    BY <2>1, QuietFamily
  <2>3. QED
    BY <1>1, <2>2 DEF FamilyInv
<1>5. ASSUME NEW c \in Cpus, DoZombie(c)
      PROVE  FamilyInv'
  <2>1. /\ \A d \in Cpus : d # c => k'[d] = k[d]
        /\ k'[c].pc = "wake" /\ k'[c].th \in Threads /\ k'[c].next = "zirq"
    BY <1>0, <1>5, ZombieParent, ContFields
  <2>2. status' = status /\ parent' = parent /\ cur' = cur
    BY <1>5 DEF DoZombie
  <2>3. ControlOK' /\ DyingOK' /\ InitAlive' /\ ParentAlive'
    BY <2>1, <2>2, QuietFamily
  <2>4. QED
    BY <1>1, <2>3 DEF FamilyInv
<1>6. ASSUME NEW c \in Cpus, NEW t \in Threads, NEW n \in Threads,
             SysFork(c, t, n) \/ SysChildstat(c, t, n)
      PROVE  FamilyInv'
  BY <1>0, <1>1, <1>6, ForkFamily, ChildstatFamily DEF FamilyInv
<1>7. ASSUME NEW c \in Cpus, Wake(c) \/ Pick(c) \/ Switch(c)
      PROVE  FamilyInv'
  BY <1>0, <1>1, <1>7, WakeFamily, PickFamily, SwitchFamily DEF FamilyInv
<1>8. QED
  BY <1>2, <1>3, <1>4, <1>5, <1>6, <1>7 DEF Next, Kernel, UserCall

-----------------------------------------------------------------------------
(* Places.                                                                 *)

LEMMA QuietPlaces ==
  ASSUME PlaceInv, NEW c \in Cpus, Quiet(c)
  PROVE  PlaceInv'
<1>1. /\ UNCHANGED <<status, zlist, runq, stopq, cur, resched>>
      /\ \A d \in Cpus : /\ k'[d].pc = "switch" <=> k[d].pc = "switch"
                         /\ k'[d].pc = "insert" <=> k[d].pc = "insert"
                         /\ k[d].pc \in {"switch", "insert"} => k'[d] = k[d]
  BY DEF Quiet
<1>2. QueueOK' /\ StopOK' /\ ZombieOK' /\ CurOK'
  BY <1>1 DEF PlaceInv, QueueOK, StopOK, ZombieOK, CurOK
<1>3. NextOK'
  BY <1>1 DEF PlaceInv, NextOK
<1>4. OldOK'
  BY <1>1 DEF PlaceInv, OldOK
<1>5. FoundOK'
  <2>1. \A t \in Threads : Inserting(t)' <=> Inserting(t)
    BY <1>1 DEF Inserting
  <2>2. QED
    BY <1>1, <2>1 DEF PlaceInv, FoundOK
<1>6. QED
  BY <1>2, <1>3, <1>4, <1>5 DEF PlaceInv

(* The sets that the lists stand for.                                      *)
LEMMA ListTypes ==
  ASSUME FamilyInv
  PROVE  /\ Elems(runq) \subseteq Threads /\ stopq \subseteq Threads /\ zlist \subseteq Threads
         /\ \A c \in Cpus : Elems(resched[c]) \subseteq Threads
         /\ \A c \in Cpus : cur[c] \in Threads \cup {Idle}
         /\ \A c \in Cpus : k[c].pc = "switch" => k[c].th \in Threads \cup {Idle}
         /\ \A c \in Cpus : k[c].pc = "insert" => k[c].th \in Threads /\ k[c].st \in Leaving
         /\ Idle \notin Threads
<1>1. Elems(runq) \subseteq Threads /\ \A c \in Cpus : Elems(resched[c]) \subseteq Threads
  BY ElemsType DEF FamilyInv, TypeOK
<1>2. QED
  BY <1>1, ThreadsAssumption DEF FamilyInv, TypeOK, ControlOK

LEMMA ForkPlaces ==
  ASSUME FamilyInv, PlaceInv, NEW c \in Cpus, NEW t \in Threads, NEW n \in Threads,
         SysFork(c, t, n)
  PROVE  PlaceInv'
<1>1. /\ k'[c].pc = "softirq" /\ k[c].pc = "user"
      /\ \A d \in Cpus : d # c => k'[d] = k[d]
      /\ status[n] = "free"
      /\ UNCHANGED <<zlist, stopq, cur, resched>>
  BY GotoTable, ContFields DEF SysFork, User, Is, FamilyInv
<1>2. status'[n] = "runnable" /\ \A u \in Threads : u # n => status'[u] = status[u]
  BY DEF SysFork, FamilyInv, TypeOK
<1>3. n \notin Elems(runq)
  BY <1>1 DEF PlaceInv, QueueOK
<1>4. Elems(runq') = Elems(runq) \cup {n} /\ Uniq(runq')
  BY <1>3, AppendQueue DEF SysFork, FamilyInv, TypeOK, PlaceInv, QueueOK
<1>5. QueueOK' /\ StopOK'
  BY <1>1, <1>2, <1>4, ListTypes DEF PlaceInv, QueueOK, StopOK
<1>6. ZombieOK'
  BY <1>1, <1>2, ListTypes DEF PlaceInv, ZombieOK
<1>7. CurOK'
  BY <1>1, <1>2, ListTypes DEF PlaceInv, CurOK
<1>8. NextOK'
  BY <1>1, <1>2, ListTypes DEF PlaceInv, NextOK
<1>9. OldOK'
  <2> SUFFICES ASSUME NEW d \in Cpus, k'[d].pc = "insert"
               PROVE  /\ status'[k'[d].th] = k'[d].st
                      /\ k'[d].th \notin Elems(runq') \cup stopq \cup zlist
                      /\ \A e \in Cpus : /\ k'[d].th \notin Elems(resched[e])
                                         /\ e # d /\ k'[e].pc = "insert" => k'[e].th # k'[d].th
    BY <1>1 DEF OldOK
  <2>1. d # c /\ k'[d] = k[d]
    BY <1>1
  <2>2. k[d].th # n
    BY <1>1, <2>1, ListTypes DEF PlaceInv, OldOK, Leaving
  <2>3. QED
    BY <1>1, <1>2, <1>4, <2>1, <2>2, ListTypes DEF PlaceInv, OldOK
<1>10. FoundOK'
  <2>1. \A u \in Threads : Inserting(u) => Inserting(u)'
    BY <1>1 DEF Inserting
  <2> SUFFICES ASSUME NEW u \in Threads
               PROVE  /\ status'[u] = "runnable" => u \in Elems(runq') \/ Inserting(u)'
                      /\ status'[u] = "stopped" => u \in stopq \/ Inserting(u)'
                      /\ status'[u] = "zombie" => \/ u \in zlist \/ Inserting(u)'
                                                  \/ \E d \in Cpus : u \in Elems(resched[d])
                      /\ status'[u] = "running" =>
                           \E d \in Cpus : cur[d] = u \/ (k'[d].pc = "switch" /\ k'[d].th = u)
    BY <1>1 DEF FoundOK
  <2>2. CASE u = n
    BY <1>2, <1>4, <2>2
  <2>3. CASE u # n
    <3>1. status'[u] = status[u]
      BY <1>2, <2>3
    <3>2. status[u] = "running" =>
            \E d \in Cpus : cur[d] = u \/ (k'[d].pc = "switch" /\ k'[d].th = u)
      BY <1>1 DEF PlaceInv, FoundOK
    <3>3. QED
      BY <1>4, <2>1, <3>1, <3>2 DEF PlaceInv, FoundOK
  <2>4. QED
    BY <2>2, <2>3
<1>11. QED
  BY <1>5, <1>6, <1>7, <1>8, <1>9, <1>10 DEF PlaceInv

LEMMA ChildstatPlaces ==
  ASSUME FamilyInv, PlaceInv, NEW c \in Cpus, NEW t \in Threads, NEW z \in Threads,
         SysChildstat(c, t, z)
  PROVE  PlaceInv'
<1>1. /\ k'[c].pc = "softirq" /\ k[c].pc = "user"
      /\ \A d \in Cpus : d # c => k'[d] = k[d]
      /\ z \in zlist /\ zlist' = zlist \ {z}
      /\ UNCHANGED <<runq, stopq, cur, resched>>
  BY GotoTable, ContFields DEF SysChildstat, User, Is, FamilyInv
<1>2. status'[z] = "free" /\ \A u \in Threads : u # z => status'[u] = status[u]
  BY DEF SysChildstat, FamilyInv, TypeOK
<1>3. status[z] = "zombie" /\ \A d \in Cpus : z \notin Elems(resched[d])
  BY <1>1 DEF PlaceInv, ZombieOK
<1>4. QueueOK' /\ StopOK'
  BY <1>1, <1>2, <1>3, ListTypes DEF PlaceInv, QueueOK, StopOK
<1>5. ZombieOK'
  BY <1>1, <1>2, <1>3, ListTypes DEF PlaceInv, ZombieOK
<1>6. CurOK'
  BY <1>1, <1>2, <1>3, ListTypes DEF PlaceInv, CurOK
<1>7. NextOK'
  BY <1>1, <1>2, <1>3, ListTypes DEF PlaceInv, NextOK
<1>8. OldOK'
  <2> SUFFICES ASSUME NEW d \in Cpus, k'[d].pc = "insert"
               PROVE  /\ status'[k'[d].th] = k'[d].st
                      /\ k'[d].th \notin Elems(runq) \cup stopq \cup zlist'
                      /\ \A e \in Cpus : /\ k'[d].th \notin Elems(resched[e])
                                         /\ e # d /\ k'[e].pc = "insert" => k'[e].th # k'[d].th
    BY <1>1 DEF OldOK
  <2>1. d # c /\ k'[d] = k[d]
    BY <1>1
  <2>2. k[d].th # z
    BY <1>1, <2>1 DEF PlaceInv, OldOK
  <2>3. QED
    BY <1>1, <1>2, <2>1, <2>2, ListTypes DEF PlaceInv, OldOK
<1>9. FoundOK'
  <2>1. \A u \in Threads : Inserting(u) => Inserting(u)'
    BY <1>1 DEF Inserting
  <2> SUFFICES ASSUME NEW u \in Threads, u # z
               PROVE  /\ status[u] = "runnable" => u \in Elems(runq) \/ Inserting(u)'
                      /\ status[u] = "stopped" => u \in stopq \/ Inserting(u)'
                      /\ status[u] = "zombie" => \/ u \in zlist' \/ Inserting(u)'
                                                 \/ \E d \in Cpus : u \in Elems(resched[d])
                      /\ status[u] = "running" =>
                           \E d \in Cpus : cur[d] = u \/ (k'[d].pc = "switch" /\ k'[d].th = u)
    BY <1>1, <1>2 DEF FoundOK
  <2>2. status[u] = "running" =>
          \E d \in Cpus : cur[d] = u \/ (k'[d].pc = "switch" /\ k'[d].th = u)
    BY <1>1 DEF PlaceInv, FoundOK
  <2>3. QED
    BY <1>1, <2>1, <2>2 DEF PlaceInv, FoundOK
<1>10. QED
  BY <1>4, <1>5, <1>6, <1>7, <1>8, <1>9 DEF PlaceInv

(* wake of a thread that is where its status says.                         *)
LEMMA WakePlaces ==
  ASSUME FamilyInv, PlaceInv, NEW c \in Cpus, Wake(c), ~broken'
  PROVE  PlaceInv'
<1> DEFINE u == k[c].th
<1>1. /\ k'[c].pc \in {"softirq", "zirq", "pick"} /\ k[c].pc = "wake"
      /\ \A d \in Cpus : d # c => k'[d] = k[d]
      /\ UNCHANGED <<zlist, cur, resched>> /\ u \in Threads
  <2>1. k[c].next \in {"softirq", "zirq", "pick"} /\ u \in Threads /\ k[c].pc = "wake"
    BY DEF Wake, Is, FamilyInv, ControlOK, TypeOK
  <2>2. QED
    BY <2>1, GotoTable, ContFields DEF Wake, FamilyInv
<1>2. CASE status[u] # "stopped"
  <2>1. Quiet(c)
    BY <1>1, <1>2 DEF Wake, Quiet
  <2>2. QED
    BY <2>1, QuietPlaces
<1>3. CASE status[u] = "stopped"
  <2>1. /\ u \in stopq /\ stopq' = stopq \ {u}
        /\ status' = [status EXCEPT ![u] = "runnable"]
        /\ runq' = Append(runq, u)
    BY <1>3 DEF Wake, FamilyInv, TypeOK
  <2>2. status'[u] = "runnable" /\ \A v \in Threads : v # u => status'[v] = status[v]
    BY <1>1, <2>1 DEF FamilyInv, TypeOK
  <2>3. u \notin Elems(runq)
    BY <1>3 DEF PlaceInv, QueueOK
  <2>4. Elems(runq') = Elems(runq) \cup {u} /\ Uniq(runq')
    BY <1>1, <2>1, <2>3, AppendQueue DEF FamilyInv, TypeOK, PlaceInv, QueueOK
  <2> HIDE DEF u
  <2>5. QueueOK' /\ StopOK'
    BY <1>1, <2>1, <2>2, <2>4, ListTypes DEF PlaceInv, QueueOK, StopOK
  <2>6. ZombieOK'
    BY <1>1, <1>3, <2>2, ListTypes DEF PlaceInv, ZombieOK
  <2>7. CurOK'
    BY <1>1, <1>3, <2>2, ListTypes DEF PlaceInv, CurOK
  <2>8. NextOK'
    BY <1>1, <1>3, <2>2, ListTypes DEF PlaceInv, NextOK
  <2>9. OldOK'
    <3> SUFFICES ASSUME NEW d \in Cpus, k'[d].pc = "insert"
                 PROVE  /\ status'[k'[d].th] = k'[d].st
                        /\ k'[d].th \notin Elems(runq') \cup stopq' \cup zlist
                        /\ \A e \in Cpus : /\ k'[d].th \notin Elems(resched[e])
                                           /\ e # d /\ k'[e].pc = "insert" => k'[e].th # k'[d].th
      BY <1>1 DEF OldOK
    <3>1. d # c /\ k'[d] = k[d]
      BY <1>1
    <3>2. k[d].th # u
      BY <2>1, <3>1 DEF PlaceInv, OldOK
    <3>3. QED
      BY <1>1, <2>1, <2>2, <2>4, <3>1, <3>2, ListTypes DEF PlaceInv, OldOK
  <2>10. FoundOK'
    <3>1. \A v \in Threads : Inserting(v) => Inserting(v)'
      BY <1>1 DEF Inserting
    <3> SUFFICES ASSUME NEW v \in Threads
                 PROVE  /\ status'[v] = "runnable" => v \in Elems(runq') \/ Inserting(v)'
                        /\ status'[v] = "stopped" => v \in stopq' \/ Inserting(v)'
                        /\ status'[v] = "zombie" => \/ v \in zlist \/ Inserting(v)'
                                                    \/ \E d \in Cpus : v \in Elems(resched[d])
                        /\ status'[v] = "running" =>
                             \E d \in Cpus : cur[d] = v \/ (k'[d].pc = "switch" /\ k'[d].th = v)
      BY <1>1 DEF FoundOK
    <3>2. CASE v = u
      BY <2>2, <2>4, <3>2
    <3>3. CASE v # u
      <4>1. status'[v] = status[v]
        BY <2>2, <3>3
      <4>2. status[v] = "running" =>
              \E d \in Cpus : cur[d] = v \/ (k'[d].pc = "switch" /\ k'[d].th = v)
        BY <1>1 DEF PlaceInv, FoundOK
      <4>3. QED
        BY <2>1, <2>4, <3>1, <3>3, <4>1, <4>2 DEF PlaceInv, FoundOK
    <3>4. QED
      BY <3>2, <3>3
  <2>11. QED
    BY <2>5, <2>6, <2>7, <2>8, <2>9, <2>10 DEF PlaceInv
<1>4. QED
  BY <1>2, <1>3

(* schedule, first half: the chosen thread leaves the run queue for the    *)
(* CPU.                                                                    *)
LEMMA PickPlaces ==
  ASSUME FamilyInv, PlaceInv, NEW c \in Cpus, Pick(c)
  PROVE  PlaceInv'
<1>1. CASE runq = <<>>
  <2> DEFINE th == IF k[c].st = "runnable" THEN cur[c] ELSE Idle
  <2>1. /\ UNCHANGED <<status, zlist, runq, stopq, cur, resched>>
        /\ k[c].pc = "pick"
        /\ \A d \in Cpus : d # c => k'[d] = k[d]
        /\ k'[c] = IF th = cur[c] THEN At("softirq") ELSE Cont("switch", th, k[c].st, "user")
    BY <1>1, GotoTable DEF Pick, Is, FamilyInv
  <2>2. k'[c].pc = "softirq" \/ (k'[c].pc = "switch" /\ k'[c].th = Idle)
    BY <2>1, ContFields
  <2>3. QueueOK' /\ StopOK' /\ ZombieOK' /\ CurOK'
    BY <2>1 DEF PlaceInv, QueueOK, StopOK, ZombieOK, CurOK
  <2>4. NextOK'
    BY <2>1, <2>2 DEF PlaceInv, NextOK
  <2>5. OldOK'
    BY <2>1, <2>2 DEF PlaceInv, OldOK
  <2>6. FoundOK'
    <3>1. \A u \in Threads : Inserting(u) => Inserting(u)'
      BY <2>1 DEF Inserting
    <3>2. \A u \in Threads : status[u] = "running" =>
            \E d \in Cpus : cur[d] = u \/ (k'[d].pc = "switch" /\ k'[d].th = u)
      BY <2>1 DEF PlaceInv, FoundOK
    <3>3. QED
      BY <2>1, <3>1, <3>2 DEF PlaceInv, FoundOK
  <2>7. QED
    BY <2>3, <2>4, <2>5, <2>6 DEF PlaceInv
<1>2. CASE runq # <<>>
  <2> DEFINE th == Head(runq)
  <2>1. /\ UNCHANGED <<zlist, stopq, cur, resched>>
        /\ runq' = Tail(runq) /\ status' = [status EXCEPT ![th] = "running"]
        /\ k[c].pc = "pick"
        /\ \A d \in Cpus : d # c => k'[d] = k[d]
        /\ k'[c] = IF th = cur[c] THEN At("softirq") ELSE Cont("switch", th, k[c].st, "user")
    BY <1>2, GotoTable DEF Pick, Rest, Is, FamilyInv
  <2>2. /\ th \in Threads /\ th \in Elems(runq) /\ status[th] = "runnable"
        /\ Elems(runq') = Elems(runq) \ {th} /\ Uniq(runq')
    BY <1>2, <2>1, TailQueue DEF FamilyInv, TypeOK, PlaceInv, QueueOK
  <2>3. status'[th] = "running" /\ \A v \in Threads : v # th => status'[v] = status[v]
    BY <2>1, <2>2 DEF FamilyInv, TypeOK
  <2>4. \A d \in Cpus : cur[d] # th
    BY <2>2, ListTypes DEF PlaceInv, CurOK
  <2>5. k'[c].pc = "switch" /\ k'[c].th = th
    BY <2>1, <2>4, ContFields
  <2>6. \A d \in Cpus : k[d].pc = "switch" => k[d].th # th
    BY <2>2, ListTypes DEF PlaceInv, NextOK
  <2>7. \A d \in Cpus : k[d].pc = "insert" => k[d].th # th
    BY <2>2 DEF PlaceInv, OldOK
  <2> HIDE DEF th
  <2>8. QueueOK' /\ StopOK'
    BY <2>1, <2>2, <2>3, ListTypes DEF PlaceInv, QueueOK, StopOK
  <2>9. ZombieOK'
    BY <2>1, <2>2, <2>3, ListTypes DEF PlaceInv, ZombieOK
  <2>10. CurOK'
    BY <2>1, <2>3, <2>4, ListTypes DEF PlaceInv, CurOK
  <2>11. NextOK'
    BY <2>1, <2>3, <2>4, <2>5, <2>6, ListTypes DEF PlaceInv, NextOK
  <2>12. OldOK'
    BY <2>1, <2>2, <2>3, <2>5, <2>7, ListTypes DEF PlaceInv, OldOK
  <2>13. FoundOK'
    <3>1. \A v \in Threads : Inserting(v) => Inserting(v)'
      BY <2>1 DEF Inserting
    <3> SUFFICES ASSUME NEW v \in Threads
                 PROVE  /\ status'[v] = "runnable" => v \in Elems(runq') \/ Inserting(v)'
                        /\ status'[v] = "stopped" => v \in stopq \/ Inserting(v)'
                        /\ status'[v] = "zombie" => \/ v \in zlist \/ Inserting(v)'
                                                    \/ \E d \in Cpus : v \in Elems(resched[d])
                        /\ status'[v] = "running" =>
                             \E d \in Cpus : cur[d] = v \/ (k'[d].pc = "switch" /\ k'[d].th = v)
      BY <2>1 DEF FoundOK
    <3>2. CASE v = th
      BY <2>3, <2>5, <3>2
    <3>3. CASE v # th
      <4>1. status'[v] = status[v]
        BY <2>3, <3>3
      <4>2. status[v] = "running" =>
              \E d \in Cpus : cur[d] = v \/ (k'[d].pc = "switch" /\ k'[d].th = v)
        BY <2>1 DEF PlaceInv, FoundOK
      <4>3. QED
        BY <2>2, <3>1, <3>3, <4>1, <4>2 DEF PlaceInv, FoundOK
    <3>4. QED
      BY <3>2, <3>3
  <2>14. QED
    BY <2>8, <2>9, <2>10, <2>11, <2>12, <2>13 DEF PlaceInv
<1>3. QED
  BY <1>1, <1>2

(* thswitch: the next thread is the current one; the old one has its new   *)
(* status and is in no list yet.                                           *)
LEMMA SwitchPlaces ==
  ASSUME FamilyInv, PlaceInv, NEW c \in Cpus, Switch(c)
  PROVE  PlaceInv'
<1> DEFINE old == cur[c]
           th == k[c].th
           st == k[c].st
<1>1. /\ UNCHANGED <<zlist, runq, stopq, resched>>
      /\ status' = IF old = Idle THEN status ELSE [status EXCEPT ![old] = st]
      /\ k[c].pc = "switch"
      /\ k'[c] = Cont(IF old = Idle THEN "resume" ELSE "insert", old, st, "user")
      /\ \A d \in Cpus : d # c => k'[d] = k[d]
      /\ cur'[c] = th /\ \A d \in Cpus : d # c => cur'[d] = cur[d]
  BY GotoTable DEF Switch, Is, FamilyInv, TypeOK
<1>2. /\ old \in Threads \cup {Idle} /\ th \in Threads \cup {Idle} /\ Idle \notin Threads
      /\ st \in Leaving /\ th # old
  BY <1>1, ThreadsAssumption DEF FamilyInv, TypeOK, ControlOK
<1>3. /\ old = Idle => k'[c].pc = "resume"
      /\ old # Idle => k'[c].pc = "insert" /\ k'[c].th = old /\ k'[c].st = st
  BY <1>1, ContFields
<1>4. \A u \in Threads : status'[u] = IF u = old THEN st ELSE status[u]
  BY <1>1, <1>2 DEF FamilyInv, TypeOK
<1>5. old # Idle => /\ status[old] = "running"
                    /\ \A d \in Cpus : /\ d # c => cur[d] # old
                                       /\ k[d].pc = "switch" => k[d].th # old
  BY <1>2 DEF PlaceInv, CurOK, NextOK
<1>6. th # Idle => /\ status[th] = "running"
                   /\ \A d \in Cpus : /\ cur[d] # th
                                      /\ d # c /\ k[d].pc = "switch" => k[d].th # th
  BY <1>1 DEF PlaceInv, NextOK
<1> HIDE DEF old, th, st
<1>7. QueueOK' /\ StopOK'
  BY <1>1, <1>4, <1>5, <1>2, ListTypes DEF PlaceInv, QueueOK, StopOK
<1>8. ZombieOK'
  BY <1>1, <1>4, <1>5, <1>2, ListTypes DEF PlaceInv, ZombieOK
<1>9. CurOK'
  <2> SUFFICES ASSUME NEW d \in Cpus, cur'[d] # Idle
               PROVE  /\ status'[cur'[d]] = "running"
                      /\ \A e \in Cpus : e # d => cur'[e] # cur'[d]
    BY DEF CurOK
  <2>1. CASE d = c
    BY <1>1, <1>2, <1>4, <1>6, <2>1
  <2>2. CASE d # c
    BY <1>1, <1>2, <1>4, <1>5, <1>6, <2>2, ListTypes DEF PlaceInv, CurOK
  <2>3. QED
    BY <2>1, <2>2
<1>10. NextOK'
  <2> SUFFICES ASSUME NEW d \in Cpus, k'[d].pc = "switch", k'[d].th # Idle
               PROVE  /\ status'[k'[d].th] = "running"
                      /\ \A e \in Cpus : /\ cur'[e] # k'[d].th
                                         /\ e # d /\ k'[e].pc = "switch" => k'[e].th # k'[d].th
    BY DEF NextOK
  <2>1. d # c /\ k'[d] = k[d]
    BY <1>1, <1>3
  <2>2. k[d].th \in Threads /\ k[d].th # old /\ k[d].th # th
    BY <1>1, <1>2, <1>5, <1>6, <2>1, ListTypes
  <2>3. \A e \in Cpus : k'[e].pc = "switch" => k'[e] = k[e]
    BY <1>1, <1>3
  <2>4. QED
    BY <1>1, <1>4, <2>1, <2>2, <2>3 DEF PlaceInv, NextOK
<1>11. OldOK'
  <2> SUFFICES ASSUME NEW d \in Cpus, k'[d].pc = "insert"
               PROVE  /\ status'[k'[d].th] = k'[d].st
                      /\ k'[d].th \notin Elems(runq) \cup stopq \cup zlist
                      /\ \A e \in Cpus : /\ k'[d].th \notin Elems(resched[e])
                                         /\ e # d /\ k'[e].pc = "insert" => k'[e].th # k'[d].th
    BY <1>1 DEF OldOK
  <2>0. \A e \in Cpus : k[e].pc = "insert" => k[e].th # old
    BY <1>2, <1>5, ListTypes DEF PlaceInv, OldOK, Leaving
  <2>1. CASE d = c
    <3>1. k'[d].th = old /\ k'[d].st = st /\ old \in Threads /\ status[old] = "running"
      BY <1>2, <1>3, <1>5, <2>1
    <3>2. old \notin Elems(runq) \cup stopq \cup zlist /\ \A e \in Cpus : old \notin Elems(resched[e])
      BY <3>1 DEF PlaceInv, QueueOK, StopOK, ZombieOK
    <3>3. QED
      BY <1>1, <1>4, <2>0, <2>1, <3>1, <3>2
  <2>2. CASE d # c
    BY <1>1, <1>3, <1>4, <2>0, <2>2, ListTypes DEF PlaceInv, OldOK
  <2>3. QED
    BY <2>1, <2>2
<1>12. FoundOK'
  <2>1. \A v \in Threads : Inserting(v) => Inserting(v)'
    BY <1>1 DEF Inserting
  <2> SUFFICES ASSUME NEW v \in Threads
               PROVE  /\ status'[v] = "runnable" => v \in Elems(runq) \/ Inserting(v)'
                      /\ status'[v] = "stopped" => v \in stopq \/ Inserting(v)'
                      /\ status'[v] = "zombie" => \/ v \in zlist \/ Inserting(v)'
                                                  \/ \E d \in Cpus : v \in Elems(resched[d])
                      /\ status'[v] = "running" =>
                           \E d \in Cpus : cur'[d] = v \/ (k'[d].pc = "switch" /\ k'[d].th = v)
    BY <1>1 DEF FoundOK
  <2>2. CASE v = old
    <3>1. Inserting(v)'
      BY <1>2, <1>3, <2>2 DEF Inserting
    <3>2. status'[v] # "running"
      BY <1>2, <1>4, <2>2 DEF Leaving
    <3>3. QED
      BY <3>1, <3>2
  <2>3. CASE v # old
    <3>1. status'[v] = status[v]
      BY <1>4, <2>3
    <3>2. status[v] = "running" =>
            \E d \in Cpus : cur'[d] = v \/ (k'[d].pc = "switch" /\ k'[d].th = v)
      <4> SUFFICES ASSUME status[v] = "running"
                   PROVE  \E d \in Cpus : cur'[d] = v \/ (k'[d].pc = "switch" /\ k'[d].th = v)
        OBVIOUS
      <4>1. PICK d \in Cpus : cur[d] = v \/ (k[d].pc = "switch" /\ k[d].th = v)
        BY DEF PlaceInv, FoundOK
      <4>2. CASE d = c
        BY <1>1, <2>3, <4>1, <4>2 DEF old, th
      <4>3. CASE d # c
        BY <1>1, <4>1, <4>3
      <4>4. QED
        BY <4>2, <4>3
    <3>3. QED
      BY <2>1, <3>1, <3>2 DEF PlaceInv, FoundOK
  <2>4. QED
    BY <2>2, <2>3
<1>13. QED
  BY <1>7, <1>8, <1>9, <1>10, <1>11, <1>12 DEF PlaceInv

(* schedule, second half: the old thread goes to the list of its status.   *)
LEMMA InsertPlaces ==
  ASSUME FamilyInv, PlaceInv, NEW c \in Cpus, Insert(c)
  PROVE  PlaceInv'
<1> DEFINE old == k[c].th
           st == k[c].st
<1>1. /\ UNCHANGED <<status, zlist, cur>>
      /\ runq' = IF st = "runnable" THEN Append(runq, old) ELSE runq
      /\ stopq' = IF st = "stopped" THEN stopq \cup {old} ELSE stopq
      /\ resched' = IF st = "zombie"
                    THEN [resched EXCEPT ![c] = Append(@, old)] ELSE resched
      /\ k[c].pc = "insert" /\ k'[c].pc = "resume"
      /\ \A d \in Cpus : d # c => k'[d] = k[d]
  BY GotoTable, ContFields DEF Insert, FiledStopped, Is, FamilyInv
<1>2. old \in Threads /\ st \in Leaving /\ status[old] = st
  BY <1>1, ListTypes DEF PlaceInv, OldOK
<1>3. /\ old \notin Elems(runq) \cup stopq \cup zlist
      /\ \A d \in Cpus : /\ old \notin Elems(resched[d])
                         /\ d # c /\ k[d].pc = "insert" => k[d].th # old
  BY <1>1 DEF PlaceInv, OldOK
<1>4. /\ Elems(runq') = Elems(runq) \cup (IF st = "runnable" THEN {old} ELSE {})
      /\ Uniq(runq')
  <2>1. /\ Elems(Append(runq, old)) = Elems(runq) \cup {old}
        /\ Uniq(Append(runq, old)) /\ Uniq(runq)
    BY <1>2, <1>3, AppendQueue DEF FamilyInv, TypeOK, PlaceInv, QueueOK
  <2>2. QED
    BY <1>1, <2>1
<1>5. /\ Elems(resched'[c]) = Elems(resched[c]) \cup (IF st = "zombie" THEN {old} ELSE {})
      /\ Uniq(resched'[c])
      /\ \A d \in Cpus : d # c => resched'[d] = resched[d]
  <2>1. /\ Elems(Append(resched[c], old)) = Elems(resched[c]) \cup {old}
        /\ Uniq(Append(resched[c], old)) /\ Uniq(resched[c])
    BY <1>2, <1>3, AppendQueue DEF FamilyInv, TypeOK, PlaceInv, ZombieOK
  <2>2. CASE st = "zombie"
    <3>1. resched'[c] = Append(resched[c], old) /\ \A d \in Cpus : d # c => resched'[d] = resched[d]
      BY <1>1, <2>2 DEF FamilyInv, TypeOK
    <3>2. QED
      BY <2>1, <2>2, <3>1
  <2>3. CASE st # "zombie"
    BY <1>1, <2>1, <2>3
  <2>4. QED
    BY <2>2, <2>3
<1> HIDE DEF old, st
<1>6. QueueOK'
  BY <1>1, <1>2, <1>4 DEF PlaceInv, QueueOK
<1>7. StopOK'
  BY <1>1, <1>2 DEF PlaceInv, StopOK
<1>8. ZombieOK'
  <2>1. ASSUME NEW d \in Cpus
        PROVE  /\ Uniq(resched'[d])
               /\ \A t \in Elems(resched'[d]) :
                    t \in Elems(resched[d]) \/ (t = old /\ d = c /\ st = "zombie")
    BY <1>5 DEF PlaceInv, ZombieOK
  <2>2. ASSUME NEW d \in Cpus, NEW t \in Elems(resched'[d])
        PROVE  /\ status[t] = "zombie" /\ t \notin zlist
               /\ \A e \in Cpus : e # d => t \notin Elems(resched'[e])
    <3>1. CASE t = old /\ d = c /\ st = "zombie"
      BY <1>2, <1>3, <2>1, <3>1
    <3>2. CASE t \in Elems(resched[d])
      BY <1>3, <2>1, <3>2 DEF PlaceInv, ZombieOK
    <3>3. QED
      BY <2>1, <3>1, <3>2
  <2>3. QED
    BY <1>1, <2>1, <2>2 DEF PlaceInv, ZombieOK
<1>9. CurOK' /\ NextOK'
  BY <1>1 DEF PlaceInv, CurOK, NextOK
<1>10. OldOK'
  <2> SUFFICES ASSUME NEW d \in Cpus, k'[d].pc = "insert"
               PROVE  /\ status[k'[d].th] = k'[d].st
                      /\ k'[d].th \notin Elems(runq') \cup stopq' \cup zlist
                      /\ \A e \in Cpus : /\ k'[d].th \notin Elems(resched'[e])
                                         /\ e # d /\ k'[e].pc = "insert" => k'[e].th # k'[d].th
    BY <1>1 DEF OldOK
  <2>1. d # c /\ k'[d] = k[d]
    BY <1>1
  <2>2. k[d].th # old
    BY <1>3, <2>1
  <2>3. QED
    BY <1>1, <1>4, <1>5, <2>1, <2>2 DEF PlaceInv, OldOK
<1>11. FoundOK'
  <2> SUFFICES ASSUME NEW v \in Threads
               PROVE  /\ status[v] = "runnable" => v \in Elems(runq') \/ Inserting(v)'
                      /\ status[v] = "stopped" => v \in stopq' \/ Inserting(v)'
                      /\ status[v] = "zombie" => \/ v \in zlist \/ Inserting(v)'
                                                 \/ \E d \in Cpus : v \in Elems(resched'[d])
                      /\ status[v] = "running" =>
                           \E d \in Cpus : cur[d] = v \/ (k'[d].pc = "switch" /\ k'[d].th = v)
    BY <1>1 DEF FoundOK
  <2>1. CASE v = old
    BY <1>1, <1>2, <1>4, <1>5, <2>1 DEF Leaving
  <2>2. CASE v # old
    <3>1. Inserting(v) => Inserting(v)'
      BY <1>1, <2>2 DEF Inserting, old
    <3>2. status[v] = "running" =>
            \E d \in Cpus : cur[d] = v \/ (k'[d].pc = "switch" /\ k'[d].th = v)
      BY <1>1 DEF PlaceInv, FoundOK
    <3>3. (\E d \in Cpus : v \in Elems(resched[d])) => \E d \in Cpus : v \in Elems(resched'[d])
      BY <1>5
    <3>4. QED
      BY <1>1, <1>4, <3>1, <3>2, <3>3 DEF PlaceInv, FoundOK
  <2>3. QED
    BY <2>1, <2>2
<1>12. QED
  BY <1>6, <1>7, <1>8, <1>9, <1>10, <1>11 DEF PlaceInv

(* do_zombie: from the CPU's list to the parent's.                         *)
LEMMA ZombiePlaces ==
  ASSUME FamilyInv, PlaceInv, NEW c \in Cpus, DoZombie(c)
  PROVE  PlaceInv'
<1> DEFINE z == Head(resched[c])
<1>1. /\ UNCHANGED <<status, cur, runq, stopq>>
      /\ zlist' = zlist \cup {z}
      /\ resched' = [resched EXCEPT ![c] = Tail(@)] /\ resched[c] # <<>>
  BY DEF DoZombie
<1>2. /\ k[c].pc = "zirq" /\ k'[c].pc = "wake"
      /\ \A d \in Cpus : d # c => k'[d] = k[d]
      /\ z \in Threads /\ z \in Elems(resched[c])
  BY ZombieParent, ContFields
<1>3. /\ Elems(resched'[c]) = Elems(resched[c]) \ {z} /\ Uniq(resched'[c])
      /\ \A d \in Cpus : d # c => resched'[d] = resched[d]
  <2>1. Elems(Tail(resched[c])) = Elems(resched[c]) \ {z} /\ Uniq(Tail(resched[c]))
    BY <1>1, TailQueue DEF FamilyInv, TypeOK, PlaceInv, ZombieOK
  <2>2. resched'[c] = Tail(resched[c]) /\ \A d \in Cpus : d # c => resched'[d] = resched[d]
    BY <1>1 DEF FamilyInv, TypeOK
  <2>3. QED
    BY <2>1, <2>2
<1>4. /\ status[z] = "zombie" /\ z \notin zlist
      /\ \A d \in Cpus : d # c => z \notin Elems(resched[d])
  BY <1>2 DEF PlaceInv, ZombieOK
<1> HIDE DEF z
<1>5. QueueOK' /\ StopOK' /\ CurOK' /\ NextOK'
  BY <1>1, <1>2 DEF PlaceInv, QueueOK, StopOK, CurOK, NextOK
<1>6. ZombieOK'
  <2>1. \A t \in zlist' : status[t] = "zombie"
    BY <1>1, <1>4 DEF PlaceInv, ZombieOK
  <2>2. ASSUME NEW d \in Cpus
        PROVE  Uniq(resched'[d]) /\ Elems(resched'[d]) \subseteq Elems(resched[d]) \ {z}
    BY <1>3, <1>4 DEF PlaceInv, ZombieOK
  <2>3. QED
    BY <1>1, <2>1, <2>2 DEF PlaceInv, ZombieOK
<1>7. OldOK'
  <2>1. \A d \in Cpus : k[d].pc = "insert" => k[d].th # z
    BY <1>2 DEF PlaceInv, OldOK
  <2>2. \A d \in Cpus : Elems(resched'[d]) \subseteq Elems(resched[d])
    BY <1>3
  <2>3. \A d \in Cpus : k'[d].pc = "insert" => k'[d] = k[d]
    BY <1>2
  <2> SUFFICES ASSUME NEW d \in Cpus, k[d].pc = "insert", k'[d] = k[d]
               PROVE  /\ status[k[d].th] = k[d].st
                      /\ k[d].th \notin Elems(runq) \cup stopq \cup zlist'
                      /\ \A e \in Cpus : /\ k[d].th \notin Elems(resched'[e])
                                         /\ e # d /\ k'[e].pc = "insert" => k'[e].th # k[d].th
    BY <1>1, <2>3 DEF OldOK
  <2>4. QED
    BY <1>1, <2>1, <2>2, <2>3, ZenonT(30) DEF PlaceInv, OldOK
<1>8. FoundOK'
  <2> SUFFICES ASSUME NEW v \in Threads
               PROVE  /\ status[v] = "runnable" => v \in Elems(runq) \/ Inserting(v)'
                      /\ status[v] = "stopped" => v \in stopq \/ Inserting(v)'
                      /\ status[v] = "zombie" => \/ v \in zlist' \/ Inserting(v)'
                                                 \/ \E d \in Cpus : v \in Elems(resched'[d])
                      /\ status[v] = "running" =>
                           \E d \in Cpus : cur[d] = v \/ (k'[d].pc = "switch" /\ k'[d].th = v)
    BY <1>1 DEF FoundOK
  <2>1. Inserting(v) => Inserting(v)'
    BY <1>2 DEF Inserting
  <2>2. status[v] = "running" =>
          \E d \in Cpus : cur[d] = v \/ (k'[d].pc = "switch" /\ k'[d].th = v)
    BY <1>2 DEF PlaceInv, FoundOK
  <2>3. (\E d \in Cpus : v \in Elems(resched[d])) =>
          v \in zlist' \/ \E d \in Cpus : v \in Elems(resched'[d])
    BY <1>1, <1>3
  <2>4. QED
    BY <1>1, <2>1, <2>2, <2>3 DEF PlaceInv, FoundOK
<1>9. QED
  BY <1>5, <1>6, <1>7, <1>8 DEF PlaceInv

(* Every step keeps each thread in its one place.                          *)
LEMMA PlaceStep ==
  ASSUME SchedInv, Next, ~broken'
  PROVE  PlaceInv'
<1> USE DEF SchedInv
<1>0. ~broken /\ PlaceInv /\ FamilyInv /\ TypeOK
  BY NotBroken DEF FamilyInv
<1>1. ASSUME NEW c \in Cpus,
             \/ CpuKick(c) \/ Resume(c) \/ Deliver(c) \/ ReturnToUser(c)
             \/ \E t \in Threads : \/ SysWait(c, t) \/ SysYield(c, t) \/ Raise(c, t)
                                   \/ \E fl \in BOOLEAN : SysFlags(c, t, fl)
      PROVE  PlaceInv'
  <2>1. Quiet(c)
    BY <1>0, <1>1, QuietSteps
  <2>2. QED
    BY <1>0, <2>1, QuietPlaces
<1>2. ASSUME NEW c \in Cpus, NEW t \in Threads, SysDie(c, t) \/ DeliverFails(c, t)
      PROVE  PlaceInv'
  BY <1>0, <1>2, DieQuiet, QuietPlaces
<1>3. ASSUME NEW c \in Cpus, NEW t \in Threads, NEW n \in Threads,
             SysFork(c, t, n) \/ SysChildstat(c, t, n)
      PROVE  PlaceInv'
  BY <1>0, <1>3, ForkPlaces, ChildstatPlaces
<1>4. ASSUME NEW c \in Cpus,
             Wake(c) \/ Pick(c) \/ Switch(c) \/ Insert(c) \/ DoZombie(c)
      PROVE  PlaceInv'
  BY <1>0, <1>4, WakePlaces, PickPlaces, SwitchPlaces, InsertPlaces, ZombiePlaces
<1>5. QED
  BY <1>1, <1>2, <1>3, <1>4 DEF Next, Kernel, UserCall

LEMMA SchedInvInit == Init => SchedInv
<1> SUFFICES ASSUME Init PROVE SchedInv
  OBVIOUS
<1>1. /\ \A c \in Cpus : /\ k[c].pc = "pick" /\ k[c].st = "stopped"
                         /\ k[c] \in ContType /\ cur[c] = Idle /\ resched[c] = <<>>
      /\ k \in [Cpus -> ContType]
  BY ContFields, ContTypes DEF Init, Leaving
<1>2. /\ \A t \in Threads : /\ status[t] = (IF t = Init0 THEN "runnable" ELSE "free")
                            /\ parent[t] = Nobody
      /\ zlist = {} /\ stopq = {} /\ runq = <<Init0>> /\ Init0 \in Threads
      /\ Idle \notin Threads
  BY ThreadsAssumption DEF Init
<1>3. /\ runq \in Seq(Threads) /\ Elems(runq) = {Init0} /\ Uniq(runq)
      /\ resched \in [Cpus -> Seq(Threads)]
      /\ \A c \in Cpus : Elems(resched[c]) = {} /\ Uniq(resched[c])
  <2>1. /\ Append(<<>>, Init0) = <<Init0>>
        /\ <<>> \in Seq(Threads) /\ Elems(<<>>) = {} /\ Uniq(<<>>)
    BY EmptyQueue
  <2>2. runq \in Seq(Threads) /\ Elems(runq) = {Init0} /\ Uniq(runq)
    <3>1. <<>> \in Seq(Threads) /\ Init0 \in Threads
      BY <1>2, <2>1
    <3>2. /\ Append(<<>>, Init0) \in Seq(Threads)
          /\ Elems(Append(<<>>, Init0)) = Elems(<<>>) \cup {Init0}
          /\ Uniq(<<>>) /\ Init0 \notin Elems(<<>>) => Uniq(Append(<<>>, Init0))
      BY <3>1, AppendQueue, ZenonT(30)
    <3>3. QED
      BY <1>2, <2>1, <3>2
  <2>3. QED
    BY <1>1, <2>1, <2>2 DEF Init
<1>4. TypeOK
  <2>1. 0 \in Cpus
    BY CpusAssumption DEF Cpus
  <2>2. QED
    BY <1>1, <1>3, <2>1, ThreadsAssumption DEF Init, TypeOK, Statuses, ContType
<1>5. ControlOK /\ DyingOK /\ InitAlive /\ ParentAlive
  BY <1>1, <1>2 DEF ControlOK, DyingOK, Dying, InitAlive, ParentAlive, Live, Leaving
<1>6. QueueOK /\ StopOK /\ ZombieOK
  BY <1>2, <1>3 DEF QueueOK, StopOK, ZombieOK
<1>7. CurOK /\ NextOK /\ OldOK
  BY <1>1 DEF CurOK, NextOK, OldOK
<1>8. FoundOK
  BY <1>2, <1>3 DEF FoundOK
<1>9. QED
  BY <1>4, <1>5, <1>6, <1>7, <1>8 DEF SchedInv, FamilyInv, PlaceInv

(* For any number of CPUs and threads, the kernel keeps SchedInv.          *)
THEOREM SchedInvCorrect == Spec => []SchedInv
<1>1. Init => SchedInv
  BY SchedInvInit
<1>2. SchedInv /\ [Next]_vars => SchedInv'
  <2> SUFFICES ASSUME SchedInv, [Next]_vars PROVE SchedInv'
    OBVIOUS
  <2>1. CASE Next
    BY <2>1, FamilyStep, PlaceStep DEF SchedInv
  <2>2. CASE UNCHANGED vars
    <3>1. FamilyInv' <=> FamilyInv
      BY <2>2 DEF vars, FamilyInv, TypeOK, ControlOK, DyingOK, Dying, InitAlive,
                  ParentAlive, Live
    <3>2. PlaceInv' <=> PlaceInv
      BY <2>2 DEF vars, PlaceInv, QueueOK, StopOK, ZombieOK, CurOK, NextOK, OldOK,
                  FoundOK, Inserting
    <3>3. QED
      BY <2>2, <3>1, <3>2 DEF SchedInv, vars
  <2>3. QED
    BY <2>1, <2>2
<1>3. QED
  BY <1>1, <1>2, PTL DEF Spec

(* Every variable of the scheduler keeps its type: whatever wake, schedule *)
(* and do_zombie are called with is a thread.                              *)
THEOREM TypeCorrect == Spec => []TypeOK
<1>1. SchedInv => TypeOK
  BY DEF SchedInv, FamilyInv
<1>2. QED
  BY <1>1, SchedInvCorrect, PTL

(* th->parent, which do_zombie signals, is never a dead thread.            *)
THEOREM ParentAliveCorrect == Spec => []ParentAlive
<1>1. SchedInv => ParentAlive
  BY DEF SchedInv, FamilyInv
<1>2. QED
  BY <1>1, SchedInvCorrect, PTL

-----------------------------------------------------------------------------
(* From the lists, one by one, to the places of a thread.                  *)

(* S is one place that belongs to status st.                               *)
One(S, st) == \E m : S = {m} /\ m[1] = st

LEMMA OneTuple == \A a, b, c : One({<<a, b, c>>}, a)
<1> SUFFICES ASSUME NEW a, NEW b, NEW c
             PROVE  \E m : {<<a, b, c>>} = {m} /\ m[1] = a
  BY DEF One
<1> WITNESS <<a, b, c>>
<1>1. QED
  OBVIOUS

LEMMA PlaceSets ==
  ASSUME FamilyInv, PlaceInv, NEW t \in Threads
  PROVE  /\ IF t \in Elems(runq) THEN One(InQueue(t), "runnable") ELSE InQueue(t) = {}
         /\ IF t \in stopq THEN One(InStop(t), "stopped") ELSE InStop(t) = {}
         /\ IF t \in zlist THEN One(InZlist(t), "zombie") ELSE InZlist(t) = {}
         /\ IF \E c \in Cpus : t \in Elems(resched[c])
            THEN One(InResched(t), "zombie") ELSE InResched(t) = {}
         /\ IF \E c \in Cpus : cur[c] = t
            THEN One(AsCurrent(t), "running") ELSE AsCurrent(t) = {}
         /\ IF \E c \in Cpus : k[c].pc = "switch" /\ k[c].th = t
            THEN One(AsNext(t), "running") ELSE AsNext(t) = {}
         /\ IF Inserting(t) THEN One(AsOld(t), status[t]) ELSE AsOld(t) = {}
<1>0. Idle \notin Threads
  BY ThreadsAssumption
<1>1. IF t \in Elems(runq) THEN One(InQueue(t), "runnable") ELSE InQueue(t) = {}
  <2>1. CASE t \in Elems(runq)
    <3>1. PICK i \in DOMAIN runq : runq[i] = t
      BY <2>1 DEF Elems
    <3>2. \A j \in DOMAIN runq : runq[j] = t => j = i
      BY <3>1 DEF PlaceInv, QueueOK, Uniq
    <3>3. InQueue(t) = {<<"runnable", "queue", i>>}
      BY <3>1, <3>2 DEF InQueue
    <3>4. QED
      BY <2>1, <3>3, OneTuple
  <2>2. CASE t \notin Elems(runq)
    BY <2>2 DEF Elems, InQueue
  <2>3. QED
    BY <2>1, <2>2
<1>2. IF t \in stopq THEN One(InStop(t), "stopped") ELSE InStop(t) = {}
  <2>1. CASE t \in stopq
    <3>1. InStop(t) = {<<"stopped", "list", t>>}
      BY <2>1 DEF InStop
    <3>2. QED
      BY <2>1, <3>1, OneTuple
  <2>2. CASE t \notin stopq
    BY <2>2 DEF InStop
  <2>3. QED
    BY <2>1, <2>2
<1>3. IF t \in zlist THEN One(InZlist(t), "zombie") ELSE InZlist(t) = {}
  <2>1. CASE t \in zlist
    <3>1. InZlist(t) = {<<"zombie", "list", t>>}
      BY <2>1 DEF InZlist
    <3>2. QED
      BY <2>1, <3>1, OneTuple
  <2>2. CASE t \notin zlist
    BY <2>2 DEF InZlist
  <2>3. QED
    BY <2>1, <2>2
<1>4. IF \E c \in Cpus : t \in Elems(resched[c])
      THEN One(InResched(t), "zombie") ELSE InResched(t) = {}
  <2>1. ASSUME NEW c \in Cpus, t \in Elems(resched[c])
        PROVE  One(InResched(t), "zombie")
    <3>1. PICK i \in DOMAIN resched[c] : resched[c][i] = t
      BY <2>1 DEF Elems
    <3>2. \A j \in DOMAIN resched[c] : resched[c][j] = t => j = i
      BY <3>1 DEF PlaceInv, ZombieOK, Uniq
    <3>3. \A d \in Cpus : \A j \in DOMAIN resched[d] : resched[d][j] = t => d = c
      BY <2>1 DEF PlaceInv, ZombieOK, Elems
    <3>4. InResched(t) = {<<"zombie", c, i>>}
      BY <3>1, <3>2, <3>3 DEF InResched
    <3>5. QED
      BY <3>4, OneTuple
  <2>2. CASE ~\E c \in Cpus : t \in Elems(resched[c])
    BY <2>2 DEF Elems, InResched
  <2>3. QED
    BY <2>1, <2>2
<1>5. IF \E c \in Cpus : cur[c] = t
      THEN One(AsCurrent(t), "running") ELSE AsCurrent(t) = {}
  <2>1. ASSUME NEW c \in Cpus, cur[c] = t
        PROVE  One(AsCurrent(t), "running")
    <3>1. \A d \in Cpus : cur[d] = t => d = c
      BY <1>0, <2>1 DEF PlaceInv, CurOK
    <3>2. AsCurrent(t) = {<<"running", "current", c>>}
      BY <2>1, <3>1 DEF AsCurrent
    <3>3. QED
      BY <3>2, OneTuple
  <2>2. CASE ~\E c \in Cpus : cur[c] = t
    BY <2>2 DEF AsCurrent
  <2>3. QED
    BY <2>1, <2>2
<1>6. IF \E c \in Cpus : k[c].pc = "switch" /\ k[c].th = t
      THEN One(AsNext(t), "running") ELSE AsNext(t) = {}
  <2>1. ASSUME NEW c \in Cpus, k[c].pc = "switch", k[c].th = t
        PROVE  One(AsNext(t), "running")
    <3>1. \A d \in Cpus : k[d].pc = "switch" /\ k[d].th = t => d = c
      BY <1>0, <2>1 DEF PlaceInv, NextOK
    <3>2. AsNext(t) = {<<"running", "next", c>>}
      BY <2>1, <3>1 DEF AsNext
    <3>3. QED
      BY <3>2, OneTuple
  <2>2. CASE ~\E c \in Cpus : k[c].pc = "switch" /\ k[c].th = t
    BY <2>2 DEF AsNext
  <2>3. QED
    BY <2>1, <2>2
<1>7. IF Inserting(t) THEN One(AsOld(t), status[t]) ELSE AsOld(t) = {}
  <2>1. ASSUME NEW c \in Cpus, k[c].pc = "insert", k[c].th = t
        PROVE  One(AsOld(t), status[t])
    <3>1. /\ \A d \in Cpus : k[d].pc = "insert" /\ k[d].th = t => d = c
          /\ k[c].st = status[t]
      BY <2>1 DEF PlaceInv, OldOK
    <3>2. AsOld(t) = {<<status[t], "old", c>>}
      BY <2>1, <3>1 DEF AsOld
    <3>3. QED
      BY <3>2, OneTuple
  <2>2. CASE ~Inserting(t)
    BY <2>2 DEF AsOld, Inserting
  <2>3. QED
    BY <2>1, <2>2 DEF Inserting
<1>8. QED
  BY <1>1, <1>2, <1>3, <1>4, <1>5, <1>6, <1>7

(* One place makes one element, whose status is that of the thread.        *)
LEMMA OneIsOne ==
  ASSUME NEW S, NEW st, One(S, st)
  PROVE  Cardinality(S) = 1 /\ \A m \in S : m[1] = st
BY FS_Singleton DEF One

LEMMA PlacesOne ==
  ASSUME FamilyInv, PlaceInv, NEW t \in Threads
  PROVE  IF status[t] = "free" THEN Places(t) = {} ELSE One(Places(t), status[t])
<1> DEFINE Listed == \E c \in Cpus : t \in Elems(resched[c])
           Current == \E c \in Cpus : cur[c] = t
           Chosen == \E c \in Cpus : k[c].pc = "switch" /\ k[c].th = t
<1>1. Places(t) = InQueue(t) \cup InStop(t) \cup InZlist(t) \cup InResched(t)
                  \cup AsCurrent(t) \cup AsNext(t) \cup AsOld(t)
  BY DEF Places
<1>2. /\ t \in Elems(runq) => status[t] = "runnable" /\ ~Inserting(t)
      /\ t \in stopq => status[t] = "stopped" /\ ~Inserting(t)
      /\ t \in zlist => status[t] = "zombie" /\ ~Inserting(t) /\ ~Listed
      /\ Listed => status[t] = "zombie" /\ ~Inserting(t)
      /\ Current => status[t] = "running" /\ ~Chosen
      /\ Chosen => status[t] = "running"
      /\ Inserting(t) => status[t] \in {"runnable", "stopped", "zombie"}
  <2>1. /\ t \in Elems(runq) => status[t] = "runnable" /\ ~Inserting(t)
        /\ t \in stopq => status[t] = "stopped" /\ ~Inserting(t)
    BY DEF PlaceInv, QueueOK, StopOK, OldOK, Inserting
  <2>2. /\ t \in zlist => status[t] = "zombie" /\ ~Inserting(t) /\ ~Listed
        /\ Listed => status[t] = "zombie" /\ ~Inserting(t)
    BY DEF PlaceInv, ZombieOK, OldOK, Inserting
  <2>3. /\ Current => status[t] = "running" /\ ~Chosen
        /\ Chosen => status[t] = "running"
    BY ThreadsAssumption DEF PlaceInv, CurOK, NextOK
  <2>4. Inserting(t) => status[t] \in {"runnable", "stopped", "zombie"}
    BY ListTypes DEF PlaceInv, OldOK, Inserting, Leaving
  <2>5. QED
    BY <2>1, <2>2, <2>3, <2>4
<1>3. /\ status[t] = "runnable" => t \in Elems(runq) \/ Inserting(t)
      /\ status[t] = "stopped" => t \in stopq \/ Inserting(t)
      /\ status[t] = "zombie" => t \in zlist \/ Inserting(t) \/ Listed
      /\ status[t] = "running" => Current \/ Chosen
      /\ status[t] \in {"free", "running", "runnable", "stopped", "zombie"}
  BY DEF PlaceInv, FoundOK, FamilyInv, TypeOK, Statuses
<1>4. /\ IF t \in Elems(runq) THEN One(InQueue(t), "runnable") ELSE InQueue(t) = {}
      /\ IF t \in stopq THEN One(InStop(t), "stopped") ELSE InStop(t) = {}
      /\ IF t \in zlist THEN One(InZlist(t), "zombie") ELSE InZlist(t) = {}
      /\ IF Listed THEN One(InResched(t), "zombie") ELSE InResched(t) = {}
      /\ IF Current THEN One(AsCurrent(t), "running") ELSE AsCurrent(t) = {}
      /\ IF Chosen THEN One(AsNext(t), "running") ELSE AsNext(t) = {}
      /\ IF Inserting(t) THEN One(AsOld(t), status[t]) ELSE AsOld(t) = {}
  BY PlaceSets
<1> HIDE DEF Listed, Current, Chosen
<1>5. CASE status[t] = "free"
  BY <1>1, <1>2, <1>4, <1>5
<1>6. CASE status[t] = "runnable"
  <2>1. \/ Places(t) = InQueue(t) /\ One(InQueue(t), "runnable")
        \/ Places(t) = AsOld(t) /\ One(AsOld(t), status[t])
    BY <1>1, <1>2, <1>3, <1>4, <1>6
  <2>2. QED
    BY <1>6, <2>1
<1>7. CASE status[t] = "stopped"
  <2>1. \/ Places(t) = InStop(t) /\ One(InStop(t), "stopped")
        \/ Places(t) = AsOld(t) /\ One(AsOld(t), status[t])
    BY <1>1, <1>2, <1>3, <1>4, <1>7
  <2>2. QED
    BY <1>7, <2>1
<1>8. CASE status[t] = "zombie"
  <2>1. \/ Places(t) = InZlist(t) /\ One(InZlist(t), "zombie")
        \/ Places(t) = InResched(t) /\ One(InResched(t), "zombie")
        \/ Places(t) = AsOld(t) /\ One(AsOld(t), status[t])
    BY <1>1, <1>2, <1>3, <1>4, <1>8
  <2>2. QED
    BY <1>8, <2>1
<1>9. CASE status[t] = "running"
  <2>1. \/ Places(t) = AsCurrent(t) /\ One(AsCurrent(t), "running")
        \/ Places(t) = AsNext(t) /\ One(AsNext(t), "running")
    BY <1>1, <1>2, <1>3, <1>4, <1>9
  <2>2. QED
    BY <1>9, <2>1
<1>10. QED
  BY <1>3, <1>5, <1>6, <1>7, <1>8, <1>9

(* A thread is in one list or on one CPU, the one its status says, for any *)
(* number of CPUs and threads.                                             *)
THEOREM OnePlaceCorrect == Spec => []OnePlace
<1>1. SchedInv => OnePlace
  <2> SUFFICES ASSUME SchedInv, ~broken, NEW t \in Threads
               PROVE  IF status[t] = "free" THEN Places(t) = {}
                      ELSE /\ Cardinality(Places(t)) = 1
                           /\ \A m \in Places(t) : m[1] = status[t]
    BY DEF OnePlace
  <2>1. IF status[t] = "free" THEN Places(t) = {} ELSE One(Places(t), status[t])
    BY PlacesOne DEF SchedInv
  <2>2. QED
    BY <2>1, OneIsOne
<1>2. QED
  BY <1>1, SchedInvCorrect, PTL

-----------------------------------------------------------------------------
(* One CPU: no other CPU runs between the two halves of schedule, so that  *)
(* a stopped thread is in stopped_threads whenever wake runs.              *)

LEMMA OnlyCpu ==
  ASSUME NCpus = 1
  PROVE  \A c, d \in Cpus : c = d
BY DEF Cpus

(* Nobody falls asleep with a signal but the thread that is about to be    *)
(* woken.                                                                  *)
LEMMA SleepKept ==
  ASSUME SleepOK, NEW c \in Cpus, \A d \in Cpus : d = c,
         \A t \in Threads :
           (status'[t] = "stopped" /\ intr'[t] /\ sig'[t])
             => \/ status[t] = "stopped" /\ intr[t] /\ sig[t]
                     /\ ~(k[c].pc = "wake" /\ k[c].th = t)
                \/ k'[c].pc = "wake" /\ k'[c].th = t,
         (k'[c].pc \in {"pick", "switch"} /\ k'[c].st = "stopped" /\ cur'[c] # Idle)
           => ~sig'[cur'[c]]
  PROVE  SleepOK'
<1>1. \A t \in Threads : ~(status[t] = "stopped" /\ intr[t] /\ sig[t]
                             /\ ~(k[c].pc = "wake" /\ k[c].th = t))
  BY DEF SleepOK, NoSleepWithSignal, thread_has_interrupts
<1>2. NoSleepWithSignal'
  BY <1>1 DEF NoSleepWithSignal, thread_has_interrupts
<1>3. QED
  BY <1>2 DEF SleepOK

(* An idle CPU that does not schedule keeps its kick, and gets one with    *)
(* every thread that becomes runnable.                                     *)
LEMMA IdleKept ==
  ASSUME IdleOK, NEW c \in Cpus, \A d \in Cpus : d = c,
         k[c].pc \notin {"pick", "switch"}, k'[c].pc \notin {"switch", "insert"},
         cur'[c] = cur[c], idlemap' = idlemap,
         cur[c] = Idle => \/ k'[c].pc = "pick"
                          \/ kick'[c]
                          \/ kick'[c] = kick[c] /\ runq' = runq
  PROVE  IdleOK'
BY DEF IdleOK

LEMMA CallSleepIdle ==
  ASSUME NCpus = 1, SchedInv, OneCpuInv, NEW c \in Cpus, NEW t \in Threads,
         \/ SysWait(c, t) \/ SysYield(c, t)
         \/ \E fl \in BOOLEAN : SysFlags(c, t, fl)
         \/ \E n \in Threads : SysFork(c, t, n) \/ SysChildstat(c, t, n)
  PROVE  SleepOK' /\ IdleOK' /\ ~broken'
<1>0. /\ TypeOK /\ PlaceInv /\ SleepOK /\ IdleOK /\ ~broken /\ Idle \notin Threads
      /\ \A d \in Cpus : d = c
  BY OnlyCpu, ThreadsAssumption DEF SchedInv, FamilyInv, OneCpuInv
<1>1. k[c].pc = "user" /\ cur[c] = t /\ t # Idle /\ status[t] = "running"
  <2>1. User(c, t)
    BY DEF SysWait, SysYield, SysFlags, SysFork, SysChildstat
  <2>2. QED
    BY <1>0, <2>1 DEF User, Is, PlaceInv, CurOK
<1>2. k'[c].pc \in {"pick", "softirq"} /\ cur' = cur /\ idlemap' = idlemap /\ broken' = broken
  <2>1. ASSUME SysWait(c, t) \/ SysYield(c, t)
        PROVE  k'[c].pc \in {"pick", "softirq"} /\ UNCHANGED <<cur, idlemap, broken>>
    BY <1>0, <2>1, GotoTable, ContFields DEF SysWait, SysYield
  <2>2. ASSUME NEW fl \in BOOLEAN, SysFlags(c, t, fl)
        PROVE  k'[c].pc = "softirq" /\ UNCHANGED <<cur, idlemap, broken>>
    BY <1>0, <2>2, GotoTable, ContFields DEF SysFlags
  <2>3. ASSUME NEW n \in Threads, SysFork(c, t, n) \/ SysChildstat(c, t, n)
        PROVE  k'[c].pc = "softirq" /\ UNCHANGED <<cur, idlemap, broken>>
    BY <1>0, <2>3, GotoTable, ContFields DEF SysFork, SysChildstat
  <2>4. QED
    BY <2>1, <2>2, <2>3
<1>3. IdleOK'
  BY <1>0, <1>1, <1>2, IdleKept
<1>4. ASSUME SysWait(c, t) PROVE SleepOK'
  <2>1. /\ UNCHANGED <<status, sig>>
        /\ \A u \in Threads : u # t => intr'[u] = intr[u]
        /\ k'[c].pc = "pick" => ~sig[t]
    BY <1>0, <1>4, GotoTable, ContFields DEF SysWait, MaySleep, WaitFlag, TypeOK
  <2>2. \A u \in Threads : (status'[u] = "stopped" /\ intr'[u] /\ sig'[u])
          => status[u] = "stopped" /\ intr[u] /\ sig[u]
    BY <1>1, <2>1
  <2>3. QED
    BY <1>0, <1>1, <1>2, <2>1, <2>2, SleepKept
<1>5. ASSUME SysYield(c, t) PROVE SleepOK'
  <2>1. UNCHANGED <<status, sig, intr>> /\ k'[c].pc = "pick" /\ k'[c].st = "runnable"
    BY <1>0, <1>5, GotoTable, ContFields DEF SysYield
  <2>2. QED
    BY <1>0, <1>1, <2>1, SleepKept
<1>6. ASSUME NEW fl \in BOOLEAN, SysFlags(c, t, fl) PROVE SleepOK'
  <2>1. /\ UNCHANGED <<status, sig>> /\ k'[c].pc = "softirq"
        /\ \A u \in Threads : u # t => intr'[u] = intr[u]
    BY <1>0, <1>6, GotoTable, ContFields DEF SysFlags, TypeOK
  <2>2. \A u \in Threads : (status'[u] = "stopped" /\ intr'[u] /\ sig'[u])
          => status[u] = "stopped" /\ intr[u] /\ sig[u]
    BY <1>1, <2>1
  <2>3. QED
    BY <1>0, <1>1, <2>1, <2>2, SleepKept
<1>7. ASSUME NEW n \in Threads, SysFork(c, t, n) PROVE SleepOK'
  <2>1. /\ k'[c].pc = "softirq" /\ status'[n] = "runnable"
        /\ \A u \in Threads : u # n => /\ intr'[u] = intr[u] /\ sig'[u] = sig[u]
                                       /\ status'[u] = status[u]
    BY <1>0, <1>7, GotoTable, ContFields DEF SysFork, TypeOK
  <2>2. \A u \in Threads : (status'[u] = "stopped" /\ intr'[u] /\ sig'[u])
          => status[u] = "stopped" /\ intr[u] /\ sig[u]
    BY <2>1
  <2>3. QED
    BY <1>0, <1>1, <2>1, <2>2, SleepKept
<1>8. ASSUME NEW n \in Threads, SysChildstat(c, t, n) PROVE SleepOK'
  <2>1. /\ k'[c].pc = "softirq" /\ status'[n] = "free" /\ intr' = intr
        /\ \A u \in Threads : u # n => sig'[u] = sig[u] /\ status'[u] = status[u]
    BY <1>0, <1>8, GotoTable, ContFields DEF SysChildstat, TypeOK
  <2>2. \A u \in Threads : (status'[u] = "stopped" /\ intr'[u] /\ sig'[u])
          => status[u] = "stopped" /\ intr[u] /\ sig[u]
    BY <2>1
  <2>3. QED
    BY <1>0, <1>1, <2>1, <2>2, SleepKept
<1>9. QED
  BY <1>0, <1>2, <1>3, <1>4, <1>5, <1>6, <1>7, <1>8

(* The steps that raise a signal: the thread they raise it for is the one  *)
(* they wake next.                                                         *)
LEMMA RaiseSleepIdle ==
  ASSUME NCpus = 1, SchedInv, OneCpuInv, NEW c \in Cpus,
         \/ DoZombie(c)
         \/ \E t \in Threads : Raise(c, t) \/ SysDie(c, t) \/ DeliverFails(c, t)
  PROVE  SleepOK' /\ IdleOK' /\ ~broken'
<1>0. /\ TypeOK /\ PlaceInv /\ FamilyInv /\ SleepOK /\ IdleOK /\ ~broken
      /\ Init0 \in Threads /\ Idle \notin Threads /\ \A d \in Cpus : d = c
  BY OnlyCpu, ThreadsAssumption DEF SchedInv, FamilyInv, OneCpuInv
<1>1. ASSUME NEW u \in Threads, NEW v \in Threads,
             k'[c].pc = "wake", k'[c].th = u, k[c].pc \in {"user", "softirq", "zirq"},
             UNCHANGED <<status, runq, cur, idlemap, kick, broken>>,
             \A w \in Threads : w # v => intr'[w] = intr[w],
             \A w \in Threads \ {u} : w # v => sig'[w] = sig[w],
             v # u => status[v] = "running"
      PROVE  SleepOK' /\ IdleOK' /\ ~broken'
  <2>1. \A w \in Threads : (status'[w] = "stopped" /\ intr'[w] /\ sig'[w])
          => (status[w] = "stopped" /\ intr[w] /\ sig[w]) \/ w = u
    BY <1>1
  <2>2. SleepOK'
    BY <1>0, <1>1, <2>1, SleepKept
  <2>3. IdleOK'
    BY <1>0, <1>1, IdleKept
  <2>4. QED
    BY <1>0, <1>1, <2>2, <2>3
<1>2. ASSUME DoZombie(c) PROVE SleepOK' /\ IdleOK' /\ ~broken'
  <2> DEFINE u == parent[Head(resched[c])]
  <2>1. u \in Threads /\ k'[c].pc = "wake" /\ k'[c].th = u /\ k[c].pc = "zirq"
    BY <1>0, <1>2, ZombieParent, ContFields
  <2>2. /\ UNCHANGED <<status, runq, cur, idlemap, kick, broken, intr>>
        /\ sig' = [sig EXCEPT ![u] = TRUE]
    BY <1>2 DEF DoZombie
  <2> HIDE DEF u
  <2>3. \A w \in Threads \ {u} : sig'[w] = sig[w]
    BY <1>0, <2>1, <2>2 DEF TypeOK
  <2>4. QED
    BY <1>1, <2>1, <2>2, <2>3
<1>3. ASSUME NEW t \in Threads, Raise(c, t) PROVE SleepOK' /\ IdleOK' /\ ~broken'
  <2>1. k'[c].pc = "wake" /\ k'[c].th = t /\ k[c].pc = "user"
    BY <1>0, <1>3, GotoTable, ContFields DEF Raise, Is
  <2>2. /\ UNCHANGED <<status, runq, cur, idlemap, kick, broken, intr>>
        /\ \A w \in Threads \ {t} : sig'[w] = sig[w]
    BY <1>0, <1>3 DEF Raise, TypeOK
  <2>3. QED
    BY <1>1, <2>1, <2>2
<1>4. ASSUME NEW t \in Threads, NEW b \in BOOLEAN, Die(c, t, b), cur[c] = t,
             k[c].pc \in {"user", "softirq"},
             \A w \in Threads : w # t => intr'[w] = intr[w]
      PROVE  SleepOK' /\ IdleOK' /\ ~broken'
  <2>1. k'[c].pc = "wake" /\ k'[c].th = Init0
    BY <1>0, <1>4, GotoTable, ContFields DEF Die
  <2>2. /\ UNCHANGED <<status, runq, cur, idlemap, kick, broken>>
        /\ \A w \in Threads \ {Init0} : w # t => sig'[w] = sig[w]
    BY <1>0, <1>4 DEF Die, TypeOK
  <2>3. status[t] = "running"
    BY <1>0, <1>4 DEF PlaceInv, CurOK
  <2>4. QED
    BY <1>0, <1>1, <1>4, <2>1, <2>2, <2>3
<1>5. ASSUME NEW t \in Threads, SysDie(c, t) PROVE SleepOK' /\ IdleOK' /\ ~broken'
  <2>1. k[c].pc = "user" /\ cur[c] = t /\ Die(c, t, sig[t]) /\ intr' = intr /\ sig[t] \in BOOLEAN
    BY <1>0, <1>5 DEF SysDie, User, Is, TypeOK
  <2>2. QED
    BY <1>4, <2>1
<1>6. ASSUME NEW t \in Threads, DeliverFails(c, t) PROVE SleepOK' /\ IdleOK' /\ ~broken'
  <2>1. /\ k[c].pc = "softirq" /\ cur[c] = t /\ Die(c, t, FALSE)
        /\ \A w \in Threads : w # t => intr'[w] = intr[w]
    BY <1>0, <1>6 DEF DeliverFails, Is, TypeOK
  <2>2. QED
    BY <1>4, <2>1
<1>7. QED
  BY <1>2, <1>3, <1>5, <1>6

(* wake: no other CPU is between the two halves of schedule.               *)
LEMMA WakeSleepIdle ==
  ASSUME NCpus = 1, SchedInv, OneCpuInv, NEW c \in Cpus, Wake(c)
  PROVE  SleepOK' /\ IdleOK' /\ ~broken'
<1> DEFINE u == k[c].th
<1>0. /\ TypeOK /\ PlaceInv /\ FamilyInv /\ SleepOK /\ IdleOK /\ ~broken
      /\ \A d \in Cpus : d = c
  BY OnlyCpu DEF SchedInv, FamilyInv, OneCpuInv
<1>1. /\ k[c].pc = "wake" /\ k[c].next \in {"softirq", "zirq", "pick"} /\ u \in Threads
      /\ k[c].next = "pick" => k[c].st = "zombie"
      /\ k'[c] = IF k[c].next = "pick" THEN ToSchedule(k[c].st) ELSE At(k[c].next)
      /\ UNCHANGED <<sig, intr, cur, idlemap>>
  BY <1>0, GotoTable DEF Wake, Is, FamilyInv, ControlOK, TypeOK
<1>2. k'[c].pc \in {"softirq", "zirq"} \/ (k'[c].pc = "pick" /\ k'[c].st = "zombie")
  BY <1>1, ContFields
<1>3. status[u] = "stopped" => u \in stopq
  BY <1>0, <1>1 DEF PlaceInv, FoundOK, Inserting
<1>4. ~broken'
  BY <1>0, <1>3 DEF Wake
<1>5. /\ status'[u] # "stopped"
      /\ \A w \in Threads : w # u => status'[w] = status[w]
  <2>1. \/ status' = status /\ status[u] # "stopped"
        \/ status' = [status EXCEPT ![u] = "runnable"]
    BY DEF Wake
  <2>2. QED
    BY <1>0, <1>1, <2>1 DEF TypeOK
<1>6. cur[c] = Idle => kick'[c] \/ (kick'[c] = kick[c] /\ runq' = runq)
  <2>1. CASE status[u] = "stopped"
    <3>1. cur[c] = Idle => c \in idlemap
      BY <1>0, <1>1 DEF IdleOK
    <3>2. idlemap \subseteq Cpus /\ \A d \in Cpus : d <= d
      BY <1>0 DEF TypeOK, Cpus
    <3>3. c \in idlemap => c \in LowestIdle
      BY <1>0, <3>2 DEF LowestIdle
    <3>4. kick'[c] = (kick[c] \/ c \in LowestIdle)
      BY <2>1 DEF Wake
    <3>5. QED
      BY <3>1, <3>3, <3>4
  <2>2. CASE status[u] # "stopped"
    <3>1. runq' = runq /\ kick'[c] = (kick[c] \/ (status[u] = "running" /\ c = cpu[u]))
      BY <2>2 DEF Wake
    <3>2. kick[c] \in BOOLEAN
      BY <1>0 DEF TypeOK
    <3>3. QED
      BY <3>1, <3>2
  <2>3. QED
    BY <2>1, <2>2
<1> HIDE DEF u
<1>7. IdleOK'
  BY <1>0, <1>1, <1>2, <1>6, IdleKept
<1>8. \A w \in Threads : (status'[w] = "stopped" /\ intr'[w] /\ sig'[w])
        => w # u /\ status[w] = "stopped" /\ intr[w] /\ sig[w]
  BY <1>1, <1>5
<1>9. SleepOK'
  BY <1>0, <1>1, <1>2, <1>8, SleepKept DEF u
<1>10. QED
  BY <1>4, <1>7, <1>9

(* schedule: the CPU goes idle only with nothing to run.                   *)
LEMMA ScheduleSleepIdle ==
  ASSUME NCpus = 1, SchedInv, OneCpuInv, NEW c \in Cpus, Pick(c) \/ Switch(c) \/ Insert(c)
  PROVE  SleepOK' /\ IdleOK' /\ ~broken'
<1>0. /\ TypeOK /\ PlaceInv /\ FamilyInv /\ SleepOK /\ IdleOK /\ ~broken
      /\ Idle \notin Threads /\ \A d \in Cpus : d = c
  BY OnlyCpu, ThreadsAssumption DEF SchedInv, FamilyInv, OneCpuInv
<1>1. ASSUME Pick(c) PROVE SleepOK' /\ IdleOK' /\ ~broken'
  <2> DEFINE none == runq = <<>>
             th == IF ~none THEN Head(runq)
                   ELSE IF k[c].st = "runnable" THEN cur[c] ELSE Idle
  <2>1. /\ k[c].pc = "pick" /\ UNCHANGED <<sig, intr, cur, idlemap, kick, broken>>
        /\ runq' = IF none THEN runq ELSE Tail(runq)
        /\ status' = IF none THEN status ELSE [status EXCEPT ![th] = "running"]
        /\ k'[c] = IF th = cur[c] THEN At("softirq") ELSE Cont("switch", th, k[c].st, "user")
    BY <1>0, <1>1, GotoTable DEF Pick, Rest, Is
  <2>2. ~none => th \in Threads /\ cur[c] # th
    <3>1. ~none => th \in Threads /\ status[th] = "runnable"
      BY <1>0, TailQueue DEF TypeOK, PlaceInv, QueueOK
    <3>2. QED
      BY <1>0, <3>1 DEF PlaceInv, CurOK
  <2>3. none /\ th # cur[c] => th = Idle /\ k[c].st # "runnable"
    OBVIOUS
  <2> HIDE DEF none, th
  <2>4. /\ th = cur[c] => k'[c].pc = "softirq"
        /\ th # cur[c] => k'[c].pc = "switch" /\ k'[c].th = th /\ k'[c].st = k[c].st
    BY <2>1, ContFields
  <2>5. \A w \in Threads : status'[w] = "stopped" => status[w] = "stopped"
    BY <1>0, <2>1, <2>2 DEF TypeOK
  <2>6. SleepOK'
    <3>1. k'[c].pc \in {"pick", "switch"} /\ k'[c].st = "stopped" /\ cur'[c] # Idle
            => ~sig'[cur'[c]]
      BY <1>0, <2>1, <2>4 DEF SleepOK
    <3>2. QED
      BY <1>0, <2>1, <2>5, <3>1, SleepKept
  <2>7. IdleOK'
    <3>1. CASE th = cur[c]
      <4>1. none /\ runq' = <<>> /\ runq = <<>>
        BY <2>1, <2>2, <3>1 DEF none
      <4>2. QED
        BY <1>0, <2>1, <2>4, <3>1, <4>1 DEF IdleOK
    <3>2. CASE th # cur[c]
      <4>1. k'[c].th = Idle => runq' = <<>> /\ k'[c].st # "runnable"
        BY <1>0, <2>1, <2>2, <2>3, <2>4, <3>2 DEF none
      <4>2. QED
        BY <1>0, <2>4, <3>2, <4>1 DEF IdleOK
    <3>3. QED
      BY <3>1, <3>2
  <2>8. QED
    BY <1>0, <2>1, <2>6, <2>7
<1>2. ASSUME Switch(c) PROVE SleepOK' /\ IdleOK' /\ ~broken'
  <2> DEFINE old == cur[c]
             th == k[c].th
             st == k[c].st
  <2>1. /\ k[c].pc = "switch" /\ UNCHANGED <<sig, intr, runq, kick, broken>>
        /\ cur'[c] = th /\ (th = Idle => c \in idlemap')
        /\ status' = IF old = Idle THEN status ELSE [status EXCEPT ![old] = st]
        /\ k'[c] = Cont(IF old = Idle THEN "resume" ELSE "insert", old, st, "user")
    BY <1>0, <1>2, GotoTable DEF Switch, IdlemapAfter, Is, TypeOK
  <2>2. k'[c].pc \in {"resume", "insert"} /\ k'[c].st = st
    BY <2>1, ContFields
  <2>3. th = Idle => runq = <<>> /\ st # "runnable"
    BY <1>0, <2>1 DEF IdleOK
  <2>4. old # Idle /\ st = "stopped" => ~sig[old]
    BY <1>0, <2>1 DEF SleepOK
  <2> HIDE DEF old, th, st
  <2>5. IdleOK'
    BY <1>0, <2>1, <2>2, <2>3 DEF IdleOK
  <2>6. \A w \in Threads : status'[w] = "stopped" =>
          status[w] = "stopped" \/ (w = old /\ old # Idle /\ st = "stopped")
    BY <1>0, <2>1 DEF TypeOK
  <2>7. SleepOK'
    BY <1>0, <2>1, <2>2, <2>4, <2>6, SleepKept
  <2>8. QED
    BY <1>0, <2>1, <2>5, <2>7
<1>3. ASSUME Insert(c) PROVE SleepOK' /\ IdleOK' /\ ~broken'
  <2>1. /\ k[c].pc = "insert" /\ k'[c].pc = "resume"
        /\ UNCHANGED <<status, sig, intr, cur, idlemap, kick, broken>>
        /\ k[c].st # "runnable" => runq' = runq
    BY <1>0, <1>3, GotoTable, ContFields DEF Insert, Is
  <2>2. SleepOK'
    BY <1>0, <2>1, SleepKept
  <2>3. cur[c] = Idle => runq' = runq
    BY <1>0, <2>1 DEF IdleOK
  <2>4. IdleOK'
    BY <1>0, <2>1, <2>3, IdleKept
  <2>5. QED
    BY <1>0, <2>1, <2>2, <2>4
<1>4. QED
  BY <1>1, <1>2, <1>3

LEMMA RestSleepIdle ==
  ASSUME NCpus = 1, SchedInv, OneCpuInv, NEW c \in Cpus,
         CpuKick(c) \/ Resume(c) \/ Deliver(c) \/ ReturnToUser(c)
  PROVE  SleepOK' /\ IdleOK' /\ ~broken'
<1>0. /\ TypeOK /\ SleepOK /\ IdleOK /\ ~broken /\ \A d \in Cpus : d = c
  BY OnlyCpu DEF SchedInv, FamilyInv, OneCpuInv
<1>1. ASSUME CpuKick(c) PROVE SleepOK' /\ IdleOK' /\ ~broken'
  <2>1. /\ k[c].pc = "user" /\ UNCHANGED <<status, sig, intr, cur, runq, idlemap, broken>>
        /\ cur[c] = Idle => k'[c].pc = "pick"
        /\ cur[c] # Idle => k'[c].pc = "softirq"
    BY <1>0, <1>1, GotoTable, ContFields DEF CpuKick, Is
  <2>2. SleepOK'
    BY <1>0, <2>1, SleepKept
  <2>3. IdleOK'
    BY <1>0, <2>1, IdleKept
  <2>4. QED
    BY <1>0, <2>1, <2>2, <2>3
<1>2. ASSUME Resume(c) \/ Deliver(c) \/ ReturnToUser(c)
      PROVE  SleepOK' /\ IdleOK' /\ ~broken'
  <2>1. /\ k[c].pc \in {"resume", "softirq", "zirq"}
        /\ k'[c].pc \in {"user", "softirq", "zirq"}
        /\ UNCHANGED <<status, cur, runq, idlemap, kick, broken>>
    BY <1>0, <1>2, GotoTable, ContFields DEF Resume, Deliver, ReturnToUser, Is
  <2>2. \A w \in Threads : intr'[w] /\ sig'[w] => intr[w] /\ sig[w]
    BY <1>0, <1>2 DEF Resume, Deliver, ReturnToUser, TypeOK
  <2>3. SleepOK'
    BY <1>0, <2>1, <2>2, SleepKept
  <2>4. IdleOK'
    BY <1>0, <2>1, IdleKept
  <2>5. QED
    BY <1>0, <2>1, <2>3, <2>4
<1>3. QED
  BY <1>1, <1>2

(* On one CPU the kernel keeps OneCpuInv.                                  *)
THEOREM OneCpuInvCorrect ==
  ASSUME NCpus = 1
  PROVE  Spec => []OneCpuInv
<1>1. Init => OneCpuInv
  <2> SUFFICES ASSUME Init PROVE OneCpuInv
    OBVIOUS
  <2>1. /\ \A c \in Cpus : k[c].pc = "pick" /\ cur[c] = Idle
        /\ \A t \in Threads : status[t] # "stopped"
        /\ runq # <<>> /\ ~broken
    BY ContFields DEF Init
  <2>2. QED
    BY <2>1 DEF OneCpuInv, SleepOK, IdleOK, NoSleepWithSignal
<1>2. SchedInv /\ OneCpuInv /\ [Next]_vars => OneCpuInv'
  <2> SUFFICES ASSUME SchedInv, OneCpuInv, [Next]_vars PROVE OneCpuInv'
    OBVIOUS
  <2>1. CASE Next
    <3>1. PICK c \in Cpus : \/ Kernel(c) \/ CpuKick(c)
                            \/ \E t \in Threads : UserCall(c, t) \/ Raise(c, t)
      BY <2>1 DEF Next
    <3>2. SleepOK' /\ IdleOK' /\ ~broken'
      <4>1. CASE \E t \in Threads : \/ SysWait(c, t) \/ SysYield(c, t)
                                    \/ \E fl \in BOOLEAN : SysFlags(c, t, fl)
                                    \/ \E n \in Threads : SysFork(c, t, n) \/ SysChildstat(c, t, n)
        BY <4>1, CallSleepIdle
      <4>2. CASE \/ DoZombie(c)
                 \/ \E t \in Threads : Raise(c, t) \/ SysDie(c, t) \/ DeliverFails(c, t)
        BY <4>2, RaiseSleepIdle
      <4>3. CASE \/ Wake(c) \/ Pick(c) \/ Switch(c) \/ Insert(c)
                 \/ CpuKick(c) \/ Resume(c) \/ Deliver(c) \/ ReturnToUser(c)
        BY <4>3, WakeSleepIdle, ScheduleSleepIdle, RestSleepIdle
      <4>4. QED
        BY <3>1, <4>1, <4>2, <4>3 DEF Kernel, UserCall
    <3>3. QED
      BY <3>2 DEF OneCpuInv
  <2>2. CASE UNCHANGED vars
    BY <2>2 DEF vars, OneCpuInv, SleepOK, IdleOK, NoSleepWithSignal, thread_has_interrupts
  <2>3. QED
    BY <2>1, <2>2
<1>3. QED
  BY <1>1, <1>2, SchedInvCorrect, PTL DEF Spec

(* On one CPU, wake only removes from stopped_threads a thread that is     *)
(* there.                                                                  *)
THEOREM ListsIntactCorrect ==
  ASSUME NCpus = 1
  PROVE  Spec => []ListsIntact
<1>1. OneCpuInv => ListsIntact
  BY DEF OneCpuInv, ListsIntact
<1>2. QED
  BY <1>1, OneCpuInvCorrect, PTL

(* On one CPU, no thread sleeps with a signal that it accepts, unless it   *)
(* is just being woken: schedule and thraise lose no wake-up.              *)
THEOREM NoSleepWithSignalCorrect ==
  ASSUME NCpus = 1
  PROVE  Spec => []NoSleepWithSignal
<1>1. OneCpuInv => NoSleepWithSignal
  BY DEF OneCpuInv, SleepOK
<1>2. QED
  BY <1>1, OneCpuInvCorrect, PTL

(* On one CPU, the idle loop with nothing to wake it up has nothing to     *)
(* run.                                                                    *)
THEOREM WorkConservingCorrect ==
  ASSUME NCpus = 1
  PROVE  Spec => []WorkConserving
<1>1. OneCpuInv => WorkConserving
  BY DEF OneCpuInv, IdleOK, WorkConserving
<1>2. QED
  BY <1>1, OneCpuInvCorrect, PTL
=============================================================================

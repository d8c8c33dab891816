----------------------------- MODULE BusProofs ------------------------------
(***************************************************************************)
(* Proofs about Bus: for any number of threads, devices, slots, sessions   *)
(* and CPUs, bus entries and device sessions match, the lists of a device  *)
(* hold the entries that point to it, and its queue tells the owner what   *)
(* is open.                                                                *)
(***************************************************************************)
EXTENDS Bus, FiniteSetTheorems, TLAPS

(* What a thread in the kernel is doing.  Pending: it is about to set the  *)
(* pointers of a bus entry.                                                *)
Pending(u) == k[u].pc \in {"mark", "link"}
Forking(u) == k[u].pc \in {"copy", "link"} \/ (k[u].pc = "mark" /\ k[u].n # u)
Destroying(u) == k[u].pc \in {"detach", "offline", "sever"}

(* Thread t is past bus_remove for its slot s.                             *)
Gone(t, s) == \/ k[t].pc = "remove" \/ Destroying(t)
              \/ k[t].pc = "unplug" /\ s < k[t].s

ControlOK ==
  /\ \A u \in Threads :
       /\ k[u].pc # "user" => st[u] = "live"
       /\ k[u].pc \in {"plug", "mark", "link"} => k[u].o \in Devs /\ dst[k[u].o] # "none"
       /\ k[u].pc = "mark" => dst[k[u].o] = "live"
       /\ k[u].pc \in {"mark", "link", "unplug"} => k[u].s \in Slots
       /\ Forking(u) => st[k[u].n] = "embryo"
       /\ Destroying(u) => /\ k[u].o \in detaching
                           /\ dst[k[u].o] = "live" /\ owner[k[u].o] = u
  /\ \A u, v \in Threads : Forking(u) /\ Forking(v) /\ u # v => k[u].n # k[v].n

(* The stages of a device; one that is being destroyed is in the hands of  *)
(* its owner.                                                              *)
StageOK ==
  \A o \in Devs :
    /\ dst[o] = "none" => o \notin detaching /\ busdevs[o] = {}
    /\ o \in tree => dst[o] = "live"
    /\ o \in offline => o \in detaching /\ busdevs[o] = {}
    /\ o \in detaching /\ dst[o] = "live" =>
         /\ Destroying(owner[o]) /\ k[owner[o]].o = o
         /\ o \in offline <=> k[owner[o]].pc = "sever"
         /\ o \in tree => k[owner[o]].pc = "detach"

(* A bus entry either points to a live device, or is empty, or is being    *)
(* filled.  A thread that leaves keeps only entries of offline devices.    *)
EntryOK ==
  \A t \in Threads, s \in Slots :
    /\ bus[t][s].dev # NoDev => bus[t][s].plg /\ dst[bus[t][s].dev] = "live"
    /\ bus[t][s].bus => bus[t][s].dev # NoDev
    /\ bus[t][s].plg /\ bus[t][s].dev = NoDev =>
         \E u \in Threads : Pending(u) /\ k[u].n = t /\ k[u].s = s
    /\ st[t] = "free" => bus[t][s].dev = NoDev
    /\ st[t] = "zombie" \/ Gone(t, s) => bus[t][s].dev \in offline \cup {NoDev}
PendingOK ==
  \A u \in Threads :
    /\ Pending(u) => bus[k[u].n][k[u].s].plg /\ bus[k[u].n][k[u].s].dev = NoDev
    /\ Forking(u) => \A s \in Slots : s >= k[u].s => bus[k[u].n][s].dev = NoDev

(* Entries, made or in the making, and sessions: each has a session of its *)
(* own, and as long as the device is not being destroyed each session has  *)
(* an entry.                                                               *)
SessionOK ==
  /\ \A t \in Threads, s \in Slots : bus[t][s].dev # NoDev =>
       /\ rem[bus[t][s].dev][bus[t][s].devid].use
       /\ rem[bus[t][s].dev][bus[t][s].devid].th = t
  /\ \A u \in Threads : Pending(u) /\ dst[k[u].o] = "live" =>
       rem[k[u].o][k[u].id].use /\ rem[k[u].o][k[u].id].th = k[u].n
  /\ \A t, u \in Threads, s, r \in Slots :
       (bus[t][s].dev # NoDev /\ bus[t][s].dev = bus[u][r].dev
          /\ bus[t][s].devid = bus[u][r].devid) => t = u /\ s = r
  /\ \A u, v \in Threads :
       (Pending(u) /\ Pending(v) /\ k[u].o = k[v].o /\ k[u].id = k[v].id) => u = v
  /\ \A t, u \in Threads, s \in Slots :
       Pending(u) /\ bus[t][s].dev = k[u].o => bus[t][s].devid # k[u].id
Held(o, i) ==
  \/ \E t \in Threads, s \in Slots : bus[t][s].dev = o /\ bus[t][s].devid = i
  \/ \E u \in Threads : Pending(u) /\ k[u].o = o /\ k[u].id = i
HeldOK ==
  \A o \in Devs, i \in Ids :
    dst[o] = "live" /\ o \notin detaching /\ rem[o][i].use => Held(o, i)

(* The busdevs list of a device, or the destroy list of its owner once it  *)
(* is offline, holds the entries that point to the device or are about to. *)
Marking(n, s, o) ==
  \E u \in Threads : k[u].pc = "mark" /\ k[u].n = n /\ k[u].s = s /\ k[u].o = o
Linked(n, s, o) == bus[n][s].dev = o \/ Marking(n, s, o)
ListOf(o) == IF o \in offline THEN k[owner[o]].todo ELSE busdevs[o]
ListOK ==
  /\ \A n \in Threads, s \in Slots, o \in Devs : Linked(n, s, o) => <<n, s>> \in ListOf(o)
  /\ \A o \in Devs, n \in Threads, s \in Slots : <<n, s>> \in busdevs[o] => Linked(n, s, o)
  /\ \A u, n \in Threads, s \in Slots :
       k[u].pc = "sever" /\ <<n, s>> \in k[u].todo => Linked(n, s, k[u].o)

(* A device that was not created yet has no sessions and no requests.      *)
NewOK ==
  \A o \in Devs : dst[o] = "none" =>
    /\ ioreqs[o] = <<>> /\ known[o] = {}
    /\ \A i \in Ids : ~rem[o][i].use /\ rem[o][i].apt = <<>>

StructInv == TypeOK /\ ControlOK /\ StageOK /\ EntryOK /\ PendingOK /\ SessionOK
BusInv == StructInv /\ HeldOK /\ NewOK /\ (~damaged => ListOK)

-----------------------------------------------------------------------------
(* Tables.                                                                 *)

ContType == [pc : Steps, o : Devs \cup {NoDev}, n : Threads, s : 1 .. MaxBusDevs + 1,
             id : Ids, todo : SUBSET (Threads \X Slots)]

LEMMA GotoTable ==
  ASSUME TypeOK, NEW t \in Threads, NEW x, Goto(t, x)
  PROVE  /\ k'[t] = x
         /\ \A u \in Threads : u # t => k'[u] = k[u]
         /\ x \in ContType => k' \in [Threads -> ContType]
<1>1. k \in [Threads -> ContType]
  BY DEF TypeOK, ContType
<1>2. QED
  BY <1>1 DEF Goto

LEMMA AtFields ==
  \A pc, o, n, s, id, todo :
    /\ At(pc, o, n, s, id, todo).pc = pc /\ At(pc, o, n, s, id, todo).o = o
    /\ At(pc, o, n, s, id, todo).n = n /\ At(pc, o, n, s, id, todo).s = s
    /\ At(pc, o, n, s, id, todo).id = id /\ At(pc, o, n, s, id, todo).todo = todo
BY DEF At

(* The continuations that the steps leave.                                 *)
LEMMA AtTypes ==
  ASSUME NEW n \in Threads
  PROVE  /\ User(n) \in ContType /\ User(n).pc = "user"
         /\ \A pc \in Steps, o \in Devs \cup {NoDev}, s \in 1 .. MaxBusDevs + 1, id \in Ids,
               todo \in SUBSET (Threads \X Slots) : At(pc, o, n, s, id, todo) \in ContType
         /\ 0 \in Ids /\ 1 \in Slots /\ "user" \in Steps
         /\ \A s \in Slots : s \in 1 .. MaxBusDevs + 1 /\ s + 1 \in 1 .. MaxBusDevs + 1
<1>1. /\ 0 \in Ids /\ 1 \in Slots /\ "user" \in Steps /\ 1 \in 1 .. MaxBusDevs + 1
      /\ \A s \in Slots : s \in 1 .. MaxBusDevs + 1 /\ s + 1 \in 1 .. MaxBusDevs + 1
  BY SizesAssumption DEF Ids, Slots, Steps
<1>2. \A pc \in Steps, o \in Devs \cup {NoDev}, s \in 1 .. MaxBusDevs + 1, id \in Ids,
         todo \in SUBSET (Threads \X Slots) : At(pc, o, n, s, id, todo) \in ContType
  BY DEF At, ContType
<1>3. {} \in SUBSET (Threads \X Slots)
  OBVIOUS
<1>4. User(n) \in ContType /\ User(n).pc = "user"
  BY <1>1, <1>2, <1>3, AtFields DEF User
<1>5. QED
  BY <1>1, <1>2, <1>4

(* The search for the first free entry.                                    *)
LEMMA FirstOf ==
  /\ \A o : FreeId(o) \subseteq Ids /\ \A i \in FreeId(o) : ~rem[o][i].use
  /\ \A t : /\ FreeSlots(t) \subseteq Slots
            /\ \A s \in FreeSlots(t) : ~bus[t][s].bsy /\ bus[t][s].dev = NoDev
BY DEF FreeId, FreeSlots, First, Used

(* A request goes to the end of the queue, with the signal.                *)
LEMMA RequestTable ==
  ASSUME TypeOK, NEW o \in Devs, NEW op \in {"open", "clone", "out", "close"},
         NEW id \in Ids, NEW new \in Ids, Request(o, Ior(op, id, new))
  PROVE  /\ ioreqs' \in [Devs -> Seq(Iors)] /\ sigreq' \in [Devs -> BOOLEAN]
         /\ Ior(op, id, new) \in Iors
         /\ \A p \in Devs : p # o \/ o \in detaching =>
              ioreqs'[p] = ioreqs[p] /\ sigreq'[p] = sigreq[p]
         /\ o \notin detaching => ioreqs'[o] = Append(ioreqs[o], Ior(op, id, new)) /\ sigreq'[o]
<1>1. Ior(op, id, new) \in Iors
  BY DEF Ior, Iors
<1> DEFINE r == Ior(op, id, new)
<1> HIDE DEF r
<1>2. CASE o \in detaching
  BY <1>1, <1>2 DEF Request, TypeOK
<1>3. CASE o \notin detaching
  <2>1. /\ ioreqs' = [ioreqs EXCEPT ![o] = Append(ioreqs[o], r)]
        /\ sigreq' = [sigreq EXCEPT ![o] = TRUE]
    BY <1>3 DEF Request, r
  <2>2. Append(ioreqs[o], r) \in Seq(Iors)
    BY <1>1 DEF r, TypeOK
  <2>3. /\ ioreqs' \in [Devs -> Seq(Iors)] /\ ioreqs'[o] = Append(ioreqs[o], r)
        /\ \A p \in Devs : p # o => ioreqs'[p] = ioreqs[p]
    BY <2>1, <2>2 DEF TypeOK
  <2>4. /\ sigreq' \in [Devs -> BOOLEAN] /\ sigreq'[o]
        /\ \A p \in Devs : p # o => sigreq'[p] = sigreq[p]
    BY <2>1 DEF TypeOK
  <2>5. QED
    BY <1>1, <1>3, <2>3, <2>4 DEF r
<1>4. QED
  BY <1>2, <1>3

(* The entry that a thread in user mode, or in bus_copy or bus_remove, finds *)
(* plugged in its own bus has its device set.                              *)
LEMMA OwnEntry ==
  ASSUME BusInv, NEW t \in Threads, st[t] = "live", k[t].pc # "mark",
         NEW s \in Slots, bus[t][s].plg
  PROVE  bus[t][s].dev \in Devs /\ dst[bus[t][s].dev] = "live" /\ bus[t][s].devid \in Ids
<1>1. bus[t][s] \in Entries
  BY DEF BusInv, StructInv, TypeOK
<1>2. \A u \in Threads : Pending(u) => k[u].n # t
  <2> SUFFICES ASSUME NEW u \in Threads, Pending(u), k[u].n = t PROVE FALSE
    OBVIOUS
  <2>1. CASE u = t
    BY <2>1 DEF Pending, Forking, BusInv, StructInv, ControlOK
  <2>2. CASE u # t
    BY <2>2 DEF Pending, Forking, BusInv, StructInv, ControlOK
  <2>3. QED
    BY <2>1, <2>2
<1>3. bus[t][s].dev # NoDev
  BY <1>2 DEF BusInv, StructInv, EntryOK
<1>4. QED
  BY <1>1, <1>3 DEF BusInv, StructInv, EntryOK, Entries

-----------------------------------------------------------------------------
(* Steps that leave threads, entries and devices as they are, and do not   *)
(* open or close a session.                                                *)
LEMMA QuietStep ==
  ASSUME BusInv, ~damaged, TypeOK', NewOK',
         UNCHANGED <<st, bus, dst, tree, offline, detaching, owner, busdevs, k>>,
         \A o \in Devs, i \in Ids : /\ rem'[o][i].use = rem[o][i].use
                                    /\ rem'[o][i].th = rem[o][i].th
  PROVE  BusInv'
<1>1. ControlOK' /\ StageOK' /\ EntryOK' /\ PendingOK'
  BY DEF BusInv, StructInv, ControlOK, StageOK, EntryOK, PendingOK, Pending, Forking,
         Destroying, Gone
<1>2. SessionOK'
  <2>1. /\ \A t \in Threads, s \in Slots :
             bus[t][s].dev \in Devs \cup {NoDev} /\ bus[t][s].devid \in Ids
        /\ \A u \in Threads : k[u].id \in Ids
        /\ \A u \in Threads : Pending(u) => k[u].o \in Devs
    BY DEF BusInv, StructInv, TypeOK, Entries, ControlOK, Pending
  <2>2. \A u \in Threads : Pending(u)' <=> Pending(u)
    BY DEF Pending
  <2>3. QED
    BY <2>1, <2>2 DEF BusInv, StructInv, SessionOK
<1>3. HeldOK'
  <2>1. \A o \in Devs, i \in Ids : Held(o, i)' <=> Held(o, i)
    BY DEF Held, Pending
  <2>2. QED
    BY <2>1 DEF BusInv, HeldOK
<1>4. ListOK'
  BY DEF BusInv, ListOK, Linked, Marking, ListOf
<1>5. QED
  BY <1>1, <1>2, <1>3, <1>4 DEF BusInv, StructInv

LEMMA OutStep ==
  ASSUME BusInv, NEW t \in Threads, NEW s \in Slots, NEW o \in Devs, SysOut(t, s, o)
  PROVE  BusInv'
<1>0. TypeOK /\ NewOK /\ ~damaged
  BY DEF BusInv, StructInv, SysOut, Enter
<1>1. bus[t][s].devid \in Ids
  BY <1>0 DEF TypeOK, Entries
<1>2. /\ Request(o, Ior("out", bus[t][s].devid, bus[t][s].devid))
      /\ UNCHANGED <<st, bus, locked, devvars, busdevs, rem, polling, known, k, damaged>>
      /\ dst[o] = "live"
  BY DevsAssumption DEF SysOut, Plugged, BusInv, StructInv, EntryOK
<1>3. /\ ioreqs' \in [Devs -> Seq(Iors)] /\ sigreq' \in [Devs -> BOOLEAN]
      /\ \A p \in Devs : p # o => ioreqs'[p] = ioreqs[p]
  BY <1>0, <1>1, <1>2, RequestTable
<1>4. TypeOK'
  BY <1>0, <1>2, <1>3 DEF TypeOK, devvars
<1>5. NewOK'
  BY <1>0, <1>2, <1>3 DEF NewOK, devvars
<1>6. QED
  BY <1>0, <1>2, <1>4, <1>5, QuietStep DEF devvars

(* _usrdev_export and its inverse change only the apertures of one         *)
(* session.                                                                *)
LEMMA ExportTable ==
  ASSUME BusInv, NEW t \in Threads, NEW s \in Slots, NEW o \in Devs,
         SysExport(t, s, o) \/ SysUnexport(t, s, o)
  PROVE  LET i == bus[t][s].devid IN
         /\ i \in Ids /\ dst[o] = "live" /\ rem[o][i].use /\ rem[o][i].th = t
         /\ rem' \in [Devs -> [Ids -> Sessions]]
         /\ rem'[o][i].use = rem[o][i].use /\ rem'[o][i].th = t
         /\ \/ rem'[o][i].apt = Append(rem[o][i].apt, t)
            \/ rem[o][i].apt # <<>> /\ rem'[o][i].apt = Tail(rem[o][i].apt)
         /\ \A p \in Devs, j \in Ids : p # o \/ j # i => rem'[p][j] = rem[p][j]
         /\ UNCHANGED <<st, bus, locked, devvars, busdevs, ioreqs, sigreq, polling,
                        known, k, damaged>>
         /\ ~damaged
<1> DEFINE i == bus[t][s].devid
<1>0. TypeOK /\ NoDev \notin Devs
  BY DevsAssumption DEF BusInv, StructInv
<1>1. i \in Ids /\ bus[t][s].dev = o
  BY <1>0 DEF TypeOK, Entries, SysExport, SysUnexport, Plugged
<1>2. dst[o] = "live" /\ rem[o][i].use /\ rem[o][i].th = t
  BY <1>0, <1>1 DEF BusInv, StructInv, EntryOK, SessionOK
<1>3. /\ UNCHANGED <<st, bus, locked, devvars, busdevs, ioreqs, sigreq, polling,
                     known, k, damaged>>
      /\ ~damaged
  BY DEF SysExport, SysUnexport, Enter
<1>4. /\ rem[o][i] \in Sessions /\ rem[o][i].apt \in Seq(Threads) /\ rem[o] \in [Ids -> Sessions]
  BY <1>0, <1>1 DEF TypeOK, Sessions
<1>5. ASSUME NEW a \in Seq(Threads), rem' = [rem EXCEPT ![o][i].apt = a]
      PROVE  /\ rem' \in [Devs -> [Ids -> Sessions]]
             /\ rem'[o][i].use = rem[o][i].use /\ rem'[o][i].th = rem[o][i].th
             /\ rem'[o][i].apt = a
             /\ \A p \in Devs, j \in Ids : p # o \/ j # i => rem'[p][j] = rem[p][j]
  <2> DEFINE e == [rem[o][i] EXCEPT !.apt = a]
             f == [rem[o] EXCEPT ![i] = e]
  <2>1. e \in Sessions /\ e.use = rem[o][i].use /\ e.th = rem[o][i].th /\ e.apt = a
    BY <1>4 DEF Sessions
  <2>2. rem' = [rem EXCEPT ![o] = f]
    BY <1>5
  <2> HIDE DEF e
  <2>3. f \in [Ids -> Sessions] /\ f[i] = e /\ \A j \in Ids : j # i => f[j] = rem[o][j]
    BY <1>1, <1>4, <2>1
  <2> HIDE DEF f
  <2>4. /\ rem' \in [Devs -> [Ids -> Sessions]] /\ rem'[o] = f
        /\ \A p \in Devs : p # o => rem'[p] = rem[p]
    BY <1>0, <2>2, <2>3 DEF TypeOK
  <2>5. QED
    BY <2>1, <2>3, <2>4
<1> HIDE DEF i
<1>6. \E a \in Seq(Threads) : /\ rem' = [rem EXCEPT ![o][i].apt = a]
                              /\ \/ a = Append(rem[o][i].apt, t)
                                 \/ rem[o][i].apt # <<>> /\ a = Tail(rem[o][i].apt)
  <2>1. CASE SysExport(t, s, o)
    <3>1. rem' = [rem EXCEPT ![o][i].apt = Append(rem[o][i].apt, t)]
      BY <2>1, Zenon DEF SysExport, i
    <3>2. Append(rem[o][i].apt, t) \in Seq(Threads)
      BY <1>4
    <3>3. QED
      BY <3>1, <3>2, Zenon
  <2>2. CASE SysUnexport(t, s, o)
    <3>1. rem' = [rem EXCEPT ![o][i].apt = Tail(rem[o][i].apt)] /\ rem[o][i].apt # <<>>
      BY <2>2, Zenon DEF SysUnexport, i
    <3>2. Tail(rem[o][i].apt) \in Seq(Threads)
      BY <1>4, <3>1
    <3>3. QED
      BY <3>1, <3>2, Zenon
  <2>3. QED
    BY <2>1, <2>2
<1>7. QED
  BY <1>1, <1>2, <1>3, <1>5, <1>6 DEF i

LEMMA ExportStep ==
  ASSUME BusInv, NEW t \in Threads, NEW s \in Slots, NEW o \in Devs,
         SysExport(t, s, o) \/ SysUnexport(t, s, o)
  PROVE  BusInv'
<1> DEFINE i == bus[t][s].devid
<1>0. /\ i \in Ids /\ dst[o] = "live" /\ rem[o][i].use /\ rem[o][i].th = t
      /\ rem' \in [Devs -> [Ids -> Sessions]]
      /\ rem'[o][i].use = rem[o][i].use /\ rem'[o][i].th = t
      /\ \/ rem'[o][i].apt = Append(rem[o][i].apt, t)
         \/ rem[o][i].apt # <<>> /\ rem'[o][i].apt = Tail(rem[o][i].apt)
      /\ \A p \in Devs, j \in Ids : p # o \/ j # i => rem'[p][j] = rem[p][j]
      /\ UNCHANGED <<st, bus, locked, devvars, busdevs, ioreqs, sigreq, polling,
                     known, k, damaged>>
      /\ ~damaged
  BY ExportTable, Zenon
<1> HIDE DEF i
<1>1. /\ i \in Ids /\ dst[o] = "live" /\ rem[o][i].th = t
      /\ rem' \in [Devs -> [Ids -> Sessions]]
      /\ rem'[o][i].use = rem[o][i].use /\ rem'[o][i].th = t
      /\ \A p \in Devs, j \in Ids : p # o \/ j # i => rem'[p][j] = rem[p][j]
      /\ UNCHANGED <<st, bus, locked, devvars, busdevs, ioreqs, sigreq, polling,
                     known, k, damaged>>
      /\ ~damaged
  BY <1>0, Zenon
<1>2. TypeOK'
  BY <1>1 DEF BusInv, StructInv, TypeOK, devvars
<1>3. NewOK'
  BY <1>1 DEF BusInv, NewOK, devvars
<1>4. \A p \in Devs, j \in Ids : /\ rem'[p][j].use = rem[p][j].use
                                 /\ rem'[p][j].th = rem[p][j].th
  BY <1>1
<1>5. QED
  BY <1>1, <1>2, <1>3, <1>4, QuietStep DEF devvars

(* The owner takes the request signal, and polls.                          *)
LEMMA OwnerStep ==
  ASSUME BusInv, NEW t \in Threads, NEW o \in Devs, OwnerSignal(t, o) \/ DevPoll(t, o)
  PROVE  BusInv'
<1>0. TypeOK /\ NewOK /\ ~damaged /\ dst[o] = "live"
  BY DEF BusInv, StructInv, OwnerSignal, DevPoll, Enter
<1>1. UNCHANGED <<st, bus, locked, devvars, busdevs, rem, k, damaged>>
  BY DEF OwnerSignal, DevPoll
<1>2. /\ ioreqs' \in [Devs -> Seq(Iors)] /\ known' \in [Devs -> SUBSET Ids]
      /\ \A p \in Devs : p # o => ioreqs'[p] = ioreqs[p] /\ known'[p] = known[p]
  <2>1. CASE UNCHANGED <<ioreqs, known>>
    BY <1>0, <2>1 DEF TypeOK
  <2>2. CASE /\ ioreqs[o] # <<>>
             /\ ioreqs' = [ioreqs EXCEPT ![o] = Tail(@)]
             /\ known' = [known EXCEPT ![o] = After(Head(ioreqs[o]), @)]
    <3>1. ioreqs[o] \in Seq(Iors) /\ known[o] \subseteq Ids
      BY <1>0 DEF TypeOK
    <3>2. Tail(ioreqs[o]) \in Seq(Iors) /\ Head(ioreqs[o]) \in Iors
      BY <2>2, <3>1
    <3>3. After(Head(ioreqs[o]), known[o]) \subseteq Ids
      BY <3>1, <3>2 DEF After, Iors
    <3>4. QED
      BY <1>0, <2>2, <3>2, <3>3 DEF TypeOK
  <2>3. QED
    BY <2>1, <2>2 DEF OwnerSignal, DevPoll
<1>3. sigreq' \in [Devs -> BOOLEAN] /\ polling' \in [Devs -> BOOLEAN]
  BY <1>0 DEF OwnerSignal, DevPoll, TypeOK
<1>4. TypeOK'
  BY <1>0, <1>1, <1>2, <1>3 DEF TypeOK, devvars
<1>5. NewOK'
  BY <1>0, <1>1, <1>2 DEF NewOK, devvars
<1>6. QED
  BY <1>0, <1>1, <1>4, <1>5, QuietStep DEF devvars

(* The accesses to freed memory.                                           *)
LEMMA DamageStep ==
  ASSUME BusInv, NEW t \in Threads, UseFreedDevice(t) \/ UseBadBus(t)
  PROVE  BusInv'
<1>1. /\ UNCHANGED <<st, bus, locked, devvars, busdevs, usrvars, polling, known, k>>
      /\ damaged' = TRUE /\ ~damaged
  BY DEF UseFreedDevice, UseBadBus, Is
<1>2. TypeOK' /\ NewOK'
  BY <1>1 DEF BusInv, StructInv, TypeOK, NewOK, devvars, usrvars
<1>3. QED
  BY <1>1, <1>2, QuietStep DEF devvars, usrvars

-----------------------------------------------------------------------------
(* Steps that only move one thread on.                                     *)

Others(t) == \A u \in Threads : u # t => k'[u] = k[u]

(* What the parts of the invariant say, once and for all.                  *)
LEMMA Parts ==
  ASSUME BusInv
  PROVE  /\ TypeOK /\ ControlOK /\ StageOK /\ EntryOK /\ PendingOK /\ SessionOK
         /\ HeldOK /\ NewOK /\ (~damaged => ListOK) /\ NoDev \notin Devs
BY DevsAssumption DEF BusInv, StructInv

LEMMA PartTypes ==
  ASSUME TypeOK
  PROVE  /\ \A t \in Threads, s \in Slots :
              /\ bus[t][s] \in Entries /\ bus[t][s].dev \in Devs \cup {NoDev}
              /\ bus[t][s].devid \in Ids /\ bus[t][s].plg \in BOOLEAN
         /\ \A u \in Threads : /\ k[u] \in ContType /\ k[u].id \in Ids /\ k[u].n \in Threads
                               /\ k[u].s \in 1 .. MaxBusDevs + 1
                               /\ k[u].o \in Devs \cup {NoDev} /\ k[u].pc \in Steps
                               /\ k[u].todo \in SUBSET (Threads \X Slots)
         /\ \A o \in Devs, i \in Ids : rem[o][i] \in Sessions
         /\ \A o \in Devs : owner[o] \in Threads /\ busdevs[o] \subseteq Threads \X Slots
BY DEF TypeOK, Entries, ContType

(* Entries that stay as they are, or go, keep their sessions.              *)
LEMMA SessionKept ==
  ASSUME SessionOK,
         \A u \in Threads : Pending(u) => k[u].o # NoDev,
         \A t \in Threads, s \in Slots : bus'[t][s].dev # NoDev =>
           /\ bus'[t][s].dev = bus[t][s].dev /\ bus'[t][s].devid = bus[t][s].devid
           /\ rem'[bus[t][s].dev] = rem[bus[t][s].dev],
         \A u \in Threads : Pending(u)' =>
           /\ Pending(u) /\ k'[u].o = k[u].o /\ k'[u].id = k[u].id /\ k'[u].n = k[u].n
           /\ dst'[k[u].o] = "live" => dst[k[u].o] = "live" /\ rem'[k[u].o] = rem[k[u].o]
  PROVE  SessionOK'
<1>1. \A t \in Threads, s \in Slots : bus'[t][s].dev # NoDev =>
        /\ rem'[bus'[t][s].dev][bus'[t][s].devid].use
        /\ rem'[bus'[t][s].dev][bus'[t][s].devid].th = t
  BY DEF SessionOK
<1>2. \A u \in Threads : Pending(u)' /\ dst'[k'[u].o] = "live" =>
        rem'[k'[u].o][k'[u].id].use /\ rem'[k'[u].o][k'[u].id].th = k'[u].n
  BY DEF SessionOK
<1>3. \A t, u \in Threads, s, r \in Slots :
        (bus'[t][s].dev # NoDev /\ bus'[t][s].dev = bus'[u][r].dev
           /\ bus'[t][s].devid = bus'[u][r].devid) => t = u /\ s = r
  BY DEF SessionOK
<1>4. \A u, v \in Threads :
        (Pending(u)' /\ Pending(v)' /\ k'[u].o = k'[v].o /\ k'[u].id = k'[v].id) => u = v
  BY DEF SessionOK
<1>5. \A t, u \in Threads, s \in Slots :
        Pending(u)' /\ bus'[t][s].dev = k'[u].o => bus'[t][s].devid # k'[u].id
  BY DEF SessionOK
<1>6. QED
  BY <1>1, <1>2, <1>3, <1>4, <1>5, Zenon DEF SessionOK

(* A step of t that starts or ends where t has nothing to do with any list. *)
LEMMA ControlStep ==
  ASSUME BusInv, ~damaged, TypeOK', NEW t \in Threads, Others(t),
         UNCHANGED <<st, bus, locked, devvars, busdevs, usrvars, polling, known, damaged>>,
         st[t] = "live", k[t].pc \in {"user", "plug"}, k'[t].pc \in {"user", "plug", "unplug"},
         k'[t].pc = "plug" => k'[t].o \in Devs /\ dst[k'[t].o] # "none",
         k'[t].pc = "unplug" => k'[t].s = 1
  PROVE  BusInv'
<1>0. /\ TypeOK /\ ControlOK /\ StageOK /\ EntryOK /\ PendingOK /\ SessionOK
      /\ HeldOK /\ NewOK /\ ListOK
  BY Parts
<1>1. \A u \in Threads : /\ Pending(u)' <=> Pending(u)
                         /\ Forking(u)' <=> Forking(u)
                         /\ Destroying(u)' <=> Destroying(u)
                         /\ Pending(u) \/ Forking(u) \/ Destroying(u) => k'[u] = k[u] /\ u # t
  BY DEF Others, Pending, Forking, Destroying
<1>2. 1 \in Slots /\ \A s \in Slots : ~(s < 1)
  BY SizesAssumption DEF Slots
<1>3. \A u \in Threads, s \in Slots : Gone(u, s)' => Gone(u, s)
  BY <1>1, <1>2 DEF Gone, Others
<1>4. ControlOK'
  BY <1>0, <1>1, <1>2 DEF ControlOK, Others, devvars
<1>5. StageOK'
  BY <1>0, <1>1, PartTypes DEF StageOK, devvars
<1>6. EntryOK'
  BY <1>0, <1>1, <1>3 DEF EntryOK, devvars
<1>7. PendingOK'
  BY <1>0, <1>1 DEF PendingOK
<1>8. SessionOK'
  BY <1>0, <1>1 DEF SessionOK, devvars, usrvars
<1>9. HeldOK' /\ NewOK'
  BY <1>0, <1>1 DEF HeldOK, Held, NewOK, devvars, usrvars
<1>10. ListOK'
  <2>1. \A n \in Threads, s \in Slots, o \in Devs : Linked(n, s, o)' <=> Linked(n, s, o)
    BY DEF Linked, Marking, Others
  <2>2. \A o \in Devs, n \in Threads, s \in Slots : Linked(n, s, o) => dst[o] = "live"
    BY <1>0, DevsAssumption DEF Linked, Marking, EntryOK, ControlOK
  <2>3. \A o \in Devs : dst[o] = "live" => ListOf(o)' = ListOf(o)
    BY <1>0, <1>1, PartTypes DEF ListOf, StageOK, devvars
  <2>4. \A u \in Threads : k'[u].pc = "sever" => k'[u] = k[u] /\ k[u].o \in Devs
    BY <1>0, <1>1, PartTypes DEF Destroying, ControlOK, TypeOK
  <2>5. QED
    BY <1>0, <2>1, <2>2, <2>3, <2>4 DEF ListOK
<1>11. QED
  BY <1>4, <1>5, <1>6, <1>7, <1>8, <1>9, <1>10 DEF BusInv, StructInv

LEMMA CallStep ==
  ASSUME BusInv, NEW t \in Threads,
         BusPlugFail(t) \/ SysDie(t) \/ \E o \in Devs : BusPlugFind(t, o)
  PROVE  BusInv'
<1>0. TypeOK /\ ControlOK /\ StageOK
  BY Parts
<1>1. UNCHANGED <<st, bus, locked, devvars, busdevs, usrvars, polling, known, damaged>> /\ ~damaged
  BY DEF BusPlugFail, SysDie, BusPlugFind, Is, Enter
<1>2. CASE BusPlugFail(t)
  <2>1. k[t].pc = "plug" /\ st[t] = "live" /\ Goto(t, User(t))
    BY <1>0, <1>2 DEF BusPlugFail, Is, ControlOK
  <2>2. k'[t].pc = "user" /\ Others(t) /\ k' \in [Threads -> ContType]
    BY <1>0, <2>1, GotoTable, AtTypes DEF Others
  <2>3. TypeOK'
    BY <1>0, <1>1, <2>2 DEF TypeOK, ContType, devvars, usrvars
  <2>4. QED
    BY <1>1, <2>1, <2>2, <2>3, ControlStep
<1>3. CASE SysDie(t)
  <2>1. k[t].pc = "user" /\ st[t] = "live" /\ Goto(t, At("unplug", NoDev, t, 1, 0, {}))
    BY <1>3 DEF SysDie, Enter
  <2>2. At("unplug", NoDev, t, 1, 0, {}) \in ContType
    BY AtTypes, SizesAssumption DEF Steps
  <2>3. k'[t].pc = "unplug" /\ k'[t].s = 1 /\ Others(t) /\ k' \in [Threads -> ContType]
    BY <1>0, <2>1, <2>2, GotoTable, AtFields DEF Others
  <2>4. TypeOK'
    BY <1>0, <1>1, <2>3 DEF TypeOK, ContType, devvars, usrvars
  <2>5. QED
    BY <1>1, <2>1, <2>3, <2>4, ControlStep
<1>4. ASSUME NEW o \in Devs, BusPlugFind(t, o) PROVE BusInv'
  <2>1. /\ k[t].pc = "user" /\ st[t] = "live" /\ dst[o] = "live"
        /\ Goto(t, At("plug", o, t, 1, 0, {}))
    BY <1>0, <1>4 DEF BusPlugFind, Enter, StageOK
  <2>2. At("plug", o, t, 1, 0, {}) \in ContType
    BY AtTypes, SizesAssumption DEF Steps
  <2>3. k'[t].pc = "plug" /\ k'[t].o = o /\ Others(t) /\ k' \in [Threads -> ContType]
    BY <1>0, <2>1, <2>2, GotoTable, AtFields DEF Others
  <2>4. TypeOK'
    BY <1>0, <1>1, <2>3 DEF TypeOK, ContType, devvars, usrvars
  <2>5. QED
    BY <1>1, <2>1, <2>3, <2>4, ControlStep
<1>5. QED
  BY <1>2, <1>3, <1>4

(* devcreat: nobody knows the new device yet.                              *)
LEMMA CreatStep ==
  ASSUME BusInv, NEW t \in Threads, NEW o \in Devs, DevCreat(t, o)
  PROVE  BusInv'
<1>0. /\ TypeOK /\ ControlOK /\ StageOK /\ EntryOK /\ PendingOK /\ SessionOK
      /\ HeldOK /\ NewOK /\ ListOK /\ ~damaged
  BY Parts DEF DevCreat, Enter
<1>1. /\ dst[o] = "none" /\ tree = {} /\ tree' = {o}
      /\ UNCHANGED <<st, bus, locked, offline, detaching, busdevs, usrvars, polling,
                     known, k, damaged>>
  BY DEF DevCreat
<1>2. /\ dst' \in [Devs -> {"none", "live", "freed"}] /\ owner' \in [Devs -> Threads]
      /\ dst'[o] = "live" /\ \A p \in Devs : p # o => dst'[p] = dst[p] /\ owner'[p] = owner[p]
  BY <1>0 DEF DevCreat, TypeOK
<1>3. TypeOK'
  BY <1>0, <1>1, <1>2 DEF TypeOK, usrvars
<1>4. \A u \in Threads : /\ Pending(u)' <=> Pending(u)
                         /\ Forking(u)' <=> Forking(u)
                         /\ Destroying(u)' <=> Destroying(u)
                         /\ \A s \in Slots : Gone(u, s)' <=> Gone(u, s)
                         /\ Pending(u) \/ Destroying(u) \/ k[u].pc = "plug" => k[u].o # o
                         /\ Destroying(u) => k[u].o \in Devs
  <2>1. \A u \in Threads : /\ Pending(u)' <=> Pending(u)
                           /\ Forking(u)' <=> Forking(u)
                           /\ Destroying(u)' <=> Destroying(u)
                           /\ \A s \in Slots : Gone(u, s)' <=> Gone(u, s)
    BY <1>1 DEF Pending, Forking, Destroying, Gone
  <2>2. \A u \in Threads : /\ Pending(u) \/ Destroying(u) \/ k[u].pc = "plug" => k[u].o # o
                           /\ Destroying(u) => k[u].o \in Devs
    BY <1>0, <1>1 DEF Pending, Destroying, ControlOK, TypeOK
  <2>3. QED
    BY <2>1, <2>2
<1>5. ControlOK'
  BY <1>0, <1>1, <1>2, <1>4 DEF ControlOK
<1>6. StageOK'
  BY <1>0, <1>1, <1>2, <1>4 DEF StageOK
<1>7. EntryOK' /\ PendingOK'
  <2>1. EntryOK'
    BY <1>0, <1>1, <1>2, <1>4, PartTypes DEF EntryOK
  <2>2. PendingOK'
    BY <1>0, <1>1, <1>4 DEF PendingOK
  <2>3. QED
    BY <2>1, <2>2
<1>8. SessionOK'
  <2>1. \A u \in Threads : Pending(u) => k[u].o # NoDev
    BY <1>0, DevsAssumption DEF ControlOK, Pending
  <2>2. \A u \in Threads : Pending(u) /\ dst'[k[u].o] = "live" => dst[k[u].o] = "live"
    BY <1>0, <1>2, <1>4 DEF ControlOK, Pending
  <2>3. QED
    BY <1>0, <1>1, <1>4, <2>1, <2>2, SessionKept DEF usrvars
<1>9. HeldOK'
  <2>1. \A p \in Devs, i \in Ids : Held(p, i)' <=> Held(p, i)
    BY <1>1, <1>4 DEF Held
  <2>2. QED
    BY <1>0, <1>1, <1>2, <2>1 DEF HeldOK, NewOK, usrvars
<1>10. NewOK'
  BY <1>0, <1>1, <1>2 DEF NewOK, usrvars
<1>11. ListOK'
  <2>1. \A p \in Devs : ListOf(p)' = ListOf(p)
    BY <1>0, <1>1, <1>2 DEF ListOf, StageOK
  <2>2. \A n \in Threads, s \in Slots, p \in Devs : Linked(n, s, p)' <=> Linked(n, s, p)
    BY <1>1 DEF Linked, Marking
  <2>3. \A u \in Threads : k[u].pc = "sever" => k[u].o \in Devs
    BY <1>4 DEF Destroying
  <2>4. QED
    BY <1>0, <1>1, <2>1, <2>2, <2>3 DEF ListOK
<1>12. QED
  BY <1>3, <1>5, <1>6, <1>7, <1>8, <1>9, <1>10, <1>11 DEF BusInv, StructInv

(* The entries of a list belong to a live device.                          *)
LEMMA LinkedLive ==
  ASSUME BusInv
  PROVE  /\ \A n \in Threads, s \in Slots, o \in Devs : Linked(n, s, o) => dst[o] = "live"
         /\ \A u \in Threads : Destroying(u) => k[u].o \in Devs
BY Parts, PartTypes DEF Linked, Marking, EntryOK, ControlOK, TypeOK

(* A step of a thread that destroys nothing leaves the lists where they    *)
(* are.                                                                    *)
LEMMA SameLists ==
  ASSUME BusInv, NEW t \in Threads, Others(t), ~Destroying(t),
         UNCHANGED <<dst, owner, offline, busdevs>>
  PROVE  \A o \in Devs : dst[o] = "live" => ListOf(o)' = ListOf(o)
BY Parts, PartTypes DEF ListOf, StageOK, Others

(* No call is filling an entry of thread n, unless it is one of n or n is  *)
(* being forked.                                                           *)
LEMMA NoFilling ==
  ASSUME BusInv, NEW n \in Threads, st[n] # "embryo"
  PROVE  \A u \in Threads : Pending(u) /\ k[u].n = n => u = n /\ k[u].pc = "mark" /\ st[n] = "live"
BY Parts DEF Pending, Forking, ControlOK

-----------------------------------------------------------------------------
(* thfork.                                                                 *)

LEMMA ForkStep ==
  ASSUME BusInv, NEW t \in Threads, NEW n \in Threads, SysFork(t, n)
  PROVE  BusInv'
<1>0. /\ TypeOK /\ ControlOK /\ StageOK /\ EntryOK /\ PendingOK /\ SessionOK
      /\ HeldOK /\ NewOK /\ ListOK /\ ~damaged /\ NoDev \notin Devs
  BY Parts DEF SysFork, Enter
<1>1. /\ st[n] = "free" /\ st[t] = "live" /\ k[t].pc = "user" /\ t # n
      /\ Goto(t, At("copy", NoDev, n, 1, 0, {}))
      /\ UNCHANGED <<locked, devvars, busdevs, usrvars, polling, known, damaged>>
  BY DEF SysFork, Enter
<1>2. /\ Others(t) /\ k'[t].pc = "copy" /\ k'[t].n = n /\ k'[t].s = 1
      /\ k' \in [Threads -> ContType]
  <2>1. At("copy", NoDev, n, 1, 0, {}) \in ContType
    BY AtTypes, SizesAssumption DEF Steps
  <2>2. QED
    BY <1>0, <1>1, <2>1, GotoTable, AtFields DEF Others
<1>3. /\ st' \in [Threads -> {"free", "embryo", "live", "zombie"}] /\ st'[n] = "embryo"
      /\ \A u \in Threads : u # n => st'[u] = st[u]
  BY <1>0 DEF SysFork, TypeOK
<1>4. /\ Empty \in Entries /\ Empty.dev = NoDev /\ ~Empty.plg /\ ~Empty.bus
      /\ bus' \in [Threads -> [Slots -> Entries]]
      /\ \A s \in Slots : bus'[n][s] = Empty
      /\ \A u \in Threads, s \in Slots : u # n => bus'[u][s] = bus[u][s]
  <2>1. Empty \in Entries /\ Empty.dev = NoDev /\ ~Empty.plg /\ ~Empty.bus
    BY SizesAssumption DEF Empty, Entries, Ids
  <2>2. QED
    BY <1>0, <2>1 DEF SysFork, TypeOK
<1> HIDE DEF Empty
<1>5. TypeOK'
  BY <1>0, <1>1, <1>2, <1>3, <1>4 DEF TypeOK, ContType, devvars, usrvars
<1>6. /\ \A u \in Threads : k[u].n = n => ~Pending(u) /\ ~Forking(u)
      /\ \A u \in Threads : /\ Pending(u)' <=> Pending(u)
                            /\ Destroying(u)' <=> Destroying(u)
                            /\ Forking(u)' <=> (Forking(u) \/ u = t)
                            /\ Pending(u) \/ Destroying(u) \/ Forking(u) => u # t /\ k'[u] = k[u]
                            /\ \A s \in Slots : Gone(u, s)' => Gone(u, s) /\ u # n
  <2>1. \A u \in Threads : k[u].n = n => ~Pending(u) /\ ~Forking(u)
    BY <1>0, <1>1, NoFilling DEF ControlOK
  <2>2. k[n].pc = "user"
    BY <1>0, <1>1 DEF ControlOK
  <2>3. \A u \in Threads : /\ Pending(u)' <=> Pending(u)
                           /\ Destroying(u)' <=> Destroying(u)
                           /\ Forking(u)' <=> (Forking(u) \/ u = t)
                           /\ Pending(u) \/ Destroying(u) \/ Forking(u) => u # t /\ k'[u] = k[u]
    BY <1>1, <1>2 DEF Pending, Destroying, Forking, Others
  <2>4. \A u \in Threads, s \in Slots : Gone(u, s)' => Gone(u, s) /\ u # n
    BY <1>1, <1>2, <2>2, <2>3 DEF Gone, Others, Destroying
  <2>5. QED
    BY <2>1, <2>3, <2>4
<1>7. ControlOK'
  <2>1. \A u \in Threads : k'[u].pc \notin {"user", "copy"} => k'[u] = k[u] /\ u # t
    BY <1>2 DEF Others
  <2>2. \A u \in Threads : k'[u].pc # "user" => u # n /\ st'[u] = "live"
    BY <1>0, <1>1, <1>2, <1>3 DEF ControlOK, Others
  <2>3. \A u \in Threads : Forking(u)' => st'[k'[u].n] = "embryo"
    BY <1>0, <1>2, <1>3, <1>6, PartTypes DEF ControlOK
  <2>4. \A u, v \in Threads : Forking(u)' /\ Forking(v)' /\ u # v => k'[u].n # k'[v].n
    BY <1>0, <1>2, <1>6 DEF ControlOK
  <2>5. QED
    BY <1>0, <1>1, <1>6, <2>1, <2>2, <2>3, <2>4 DEF ControlOK, devvars
<1>8. StageOK'
  BY <1>0, <1>1, <1>6, PartTypes DEF StageOK, devvars
<1>9. EntryOK'
  <2> SUFFICES ASSUME NEW m \in Threads, NEW s \in Slots
               PROVE  /\ bus'[m][s].dev # NoDev =>
                           bus'[m][s].plg /\ dst[bus'[m][s].dev] = "live"
                      /\ bus'[m][s].bus => bus'[m][s].dev # NoDev
                      /\ bus'[m][s].plg /\ bus'[m][s].dev = NoDev =>
                           \E u \in Threads : Pending(u)' /\ k'[u].n = m /\ k'[u].s = s
                      /\ st'[m] = "free" => bus'[m][s].dev = NoDev
                      /\ st'[m] = "zombie" \/ Gone(m, s)' => bus'[m][s].dev \in offline \cup {NoDev}
    BY <1>1 DEF EntryOK, devvars
  <2>1. CASE m = n
    BY <1>4, <2>1
  <2>2. CASE m # n
    <3>1. bus'[m][s] = bus[m][s] /\ st'[m] = st[m] /\ (Gone(m, s)' => Gone(m, s))
      BY <1>3, <1>4, <1>6, <2>2
    <3>2. (\E u \in Threads : Pending(u) /\ k[u].n = m /\ k[u].s = s)
            => \E u \in Threads : Pending(u)' /\ k'[u].n = m /\ k'[u].s = s
      BY <1>6
    <3>3. QED
      BY <1>0, <3>1, <3>2 DEF EntryOK
  <2>3. QED
    BY <2>1, <2>2
<1>10. PendingOK'
  <2>1. ASSUME NEW u \in Threads, Pending(u)'
        PROVE  bus'[k'[u].n][k'[u].s].plg /\ bus'[k'[u].n][k'[u].s].dev = NoDev
    <3>1. Pending(u) /\ k'[u] = k[u] /\ k[u].n # n /\ k[u].n \in Threads /\ k[u].s \in Slots
      BY <1>0, <1>6, <2>1, PartTypes DEF ControlOK, Pending
    <3>2. QED
      BY <1>0, <1>4, <3>1 DEF PendingOK
  <2>2. ASSUME NEW u \in Threads, Forking(u)', NEW s \in Slots, s >= k'[u].s
        PROVE  bus'[k'[u].n][s].dev = NoDev
    <3>1. CASE u = t
      BY <1>2, <1>4, <3>1
    <3>2. CASE u # t
      <4>1. Forking(u) /\ k'[u] = k[u] /\ k[u].n # n /\ k[u].n \in Threads
        BY <1>0, <1>6, <2>2, <3>2, PartTypes
      <4>2. QED
        BY <1>0, <1>4, <2>2, <4>1 DEF PendingOK
    <3>3. QED
      BY <3>1, <3>2
  <2>3. QED
    BY <2>1, <2>2 DEF PendingOK
<1>11. \A u \in Threads, s \in Slots :
         /\ bus'[u][s].dev = bus[u][s].dev
         /\ bus[u][s].dev # NoDev => bus'[u][s] = bus[u][s]
  BY <1>0, <1>1, <1>4 DEF EntryOK
<1>12. SessionOK'
  <2>1. \A u \in Threads : Pending(u) => k[u].o # NoDev
    BY <1>0 DEF ControlOK, Pending
  <2>2. QED
    BY <1>0, <1>1, <1>6, <1>11, <2>1, SessionKept DEF devvars, usrvars
<1>13. HeldOK' /\ NewOK'
  <2>1. \A o \in Devs, i \in Ids : Held(o, i) => Held(o, i)'
    BY <1>0, <1>6, <1>11 DEF Held
  <2>2. QED
    BY <1>0, <1>1, <2>1 DEF HeldOK, NewOK, devvars, usrvars
<1>14. ListOK'
  <2>1. \A m \in Threads, s \in Slots, o \in Devs : Linked(m, s, o)' <=> Linked(m, s, o)
    BY <1>1, <1>2, <1>11 DEF Linked, Marking, Others
  <2>2. \A o \in Devs : dst[o] = "live" => ListOf(o)' = ListOf(o)
    BY <1>1, <1>2, SameLists DEF Destroying, devvars
  <2>3. \A u \in Threads : k'[u].pc = "sever" => k'[u] = k[u] /\ k[u].o \in Devs
    BY <1>6, LinkedLive DEF Destroying
  <2>4. QED
    BY <1>0, <1>1, <2>1, <2>2, <2>3, LinkedLive DEF ListOK, devvars
<1>15. QED
  BY <1>5, <1>7, <1>8, <1>9, <1>10, <1>12, <1>13, <1>14 DEF BusInv, StructInv

LEMMA SkipStep ==
  ASSUME BusInv, NEW t \in Threads, BusCopySkip(t)
  PROVE  BusInv'
<1> DEFINE x == k[t]
<1>0. /\ TypeOK /\ ControlOK /\ StageOK /\ EntryOK /\ PendingOK /\ SessionOK
      /\ HeldOK /\ NewOK /\ ListOK /\ ~damaged
  BY Parts DEF BusCopySkip, Is
<1>1. /\ x.pc = "copy" /\ x.s \in Slots /\ x.n \in Threads
      /\ Goto(t, At("copy", NoDev, x.n, x.s + 1, 0, {}))
      /\ UNCHANGED <<st, bus, locked, devvars, busdevs, usrvars, polling, known, damaged>>
  BY <1>0, PartTypes DEF BusCopySkip, Is
<1>2. /\ Others(t) /\ k'[t].pc = "copy" /\ k'[t].n = x.n /\ k'[t].s = x.s + 1
      /\ k' \in [Threads -> ContType]
  <2>1. At("copy", NoDev, x.n, x.s + 1, 0, {}) \in ContType
    BY <1>1, AtTypes, SizesAssumption DEF Steps
  <2>2. QED
    BY <1>0, <1>1, <2>1, GotoTable, AtFields DEF Others
<1>3. TypeOK'
  BY <1>0, <1>1, <1>2 DEF TypeOK, ContType, devvars, usrvars
<1>4. \A u \in Threads : /\ Pending(u)' <=> Pending(u)
                         /\ Destroying(u)' <=> Destroying(u)
                         /\ Forking(u)' <=> Forking(u)
                         /\ Pending(u) \/ Destroying(u) => u # t
                         /\ u # t => k'[u] = k[u]
                         /\ k'[u].pc = k[u].pc /\ k'[u].n = k[u].n
                         /\ \A s \in Slots : Gone(u, s)' <=> Gone(u, s)
  BY <1>1, <1>2 DEF Pending, Destroying, Forking, Others, Gone
<1>5. ControlOK'
  BY <1>0, <1>1, <1>4 DEF ControlOK, devvars, Pending, Destroying
<1>6. StageOK'
  BY <1>0, <1>1, <1>4, PartTypes DEF StageOK, devvars
<1>7. EntryOK'
  BY <1>0, <1>1, <1>4 DEF EntryOK, devvars
<1>8. PendingOK'
  <2>1. \A s \in Slots : s >= x.s + 1 => s >= x.s
    BY <1>1 DEF Slots
  <2>2. QED
    BY <1>0, <1>1, <1>2, <1>4, <2>1 DEF PendingOK
<1>9. SessionOK'
  BY <1>0, <1>1, <1>4 DEF SessionOK, devvars, usrvars
<1>10. HeldOK' /\ NewOK'
  <2>1. \A o \in Devs, i \in Ids : Held(o, i) => Held(o, i)'
    BY <1>1, <1>4 DEF Held
  <2>2. QED
    BY <1>0, <1>1, <2>1 DEF HeldOK, NewOK, devvars, usrvars
<1>11. ListOK'
  <2>1. \A m \in Threads, s \in Slots, o \in Devs : Linked(m, s, o)' <=> Linked(m, s, o)
    BY <1>1, <1>4 DEF Linked, Marking
  <2>2. \A o \in Devs : dst[o] = "live" => ListOf(o)' = ListOf(o)
    BY <1>1, <1>2, SameLists DEF Destroying, devvars
  <2>3. \A u \in Threads : k'[u].pc = "sever" => k'[u] = k[u] /\ k[u].o \in Devs
    BY <1>1, <1>4, LinkedLive DEF Destroying
  <2>4. QED
    BY <1>0, <1>1, <2>1, <2>2, <2>3, LinkedLive DEF ListOK, devvars
<1>12. QED
  BY <1>3, <1>5, <1>6, <1>7, <1>8, <1>9, <1>10, <1>11 DEF BusInv, StructInv

LEMMA ForkEndStep ==
  ASSUME BusInv, NEW t \in Threads, ForkEnd(t)
  PROVE  BusInv'
<1> DEFINE n == k[t].n
<1>0. /\ TypeOK /\ ControlOK /\ StageOK /\ EntryOK /\ PendingOK /\ SessionOK
      /\ HeldOK /\ NewOK /\ ListOK /\ ~damaged
  BY Parts DEF ForkEnd, Is
<1>1. /\ k[t].pc = "copy" /\ n \in Threads /\ st[n] = "embryo" /\ st[t] = "live"
      /\ Goto(t, User(t))
      /\ UNCHANGED <<bus, locked, devvars, busdevs, usrvars, polling, known, damaged>>
  BY <1>0, PartTypes DEF ForkEnd, Is, ControlOK, Forking
<1>2. Others(t) /\ k'[t].pc = "user" /\ k' \in [Threads -> ContType]
  BY <1>0, <1>1, GotoTable, AtTypes DEF Others
<1>3. /\ st' \in [Threads -> {"free", "embryo", "live", "zombie"}] /\ st'[n] = "live"
      /\ \A u \in Threads : u # n => st'[u] = st[u]
  BY <1>0, <1>1 DEF ForkEnd, TypeOK
<1>4. TypeOK'
  BY <1>0, <1>1, <1>2, <1>3 DEF TypeOK, ContType, devvars, usrvars
<1>5. \A u \in Threads : /\ Pending(u)' <=> Pending(u)
                         /\ Destroying(u)' <=> Destroying(u)
                         /\ Forking(u)' <=> (Forking(u) /\ u # t)
                         /\ Pending(u) \/ Destroying(u) => u # t
                         /\ u # t => k'[u] = k[u]
                         /\ Forking(u) /\ u # t => k[u].n # n
                         /\ \A s \in Slots : Gone(u, s)' => Gone(u, s)
  <2>1. \A u \in Threads : /\ Pending(u)' <=> Pending(u)
                           /\ Destroying(u)' <=> Destroying(u)
                           /\ Forking(u)' <=> (Forking(u) /\ u # t)
                           /\ Pending(u) \/ Destroying(u) => u # t
                           /\ u # t => k'[u] = k[u]
                           /\ \A s \in Slots : Gone(u, s)' => Gone(u, s)
    BY <1>1, <1>2 DEF Pending, Destroying, Forking, Others, Gone
  <2>2. \A u \in Threads : Forking(u) /\ u # t => k[u].n # n
    BY <1>0, <1>1 DEF ControlOK, Forking
  <2>3. QED
    BY <2>1, <2>2
<1> HIDE DEF n
<1>6. ControlOK'
  BY <1>0, <1>1, <1>2, <1>3, <1>5, PartTypes DEF ControlOK, devvars
<1>7. StageOK'
  BY <1>0, <1>1, <1>5, PartTypes DEF StageOK, devvars
<1>8. EntryOK'
  BY <1>0, <1>1, <1>3, <1>5 DEF EntryOK, devvars
<1>9. PendingOK' /\ SessionOK'
  BY <1>0, <1>1, <1>5 DEF PendingOK, SessionOK, devvars, usrvars
<1>10. HeldOK' /\ NewOK'
  <2>1. \A o \in Devs, i \in Ids : Held(o, i) => Held(o, i)'
    BY <1>1, <1>5 DEF Held
  <2>2. QED
    BY <1>0, <1>1, <2>1 DEF HeldOK, NewOK, devvars, usrvars
<1>11. ListOK'
  <2>1. \A m \in Threads, s \in Slots, o \in Devs : Linked(m, s, o)' <=> Linked(m, s, o)
    BY <1>1, <1>2 DEF Linked, Marking, Others
  <2>2. \A o \in Devs : dst[o] = "live" => ListOf(o)' = ListOf(o)
    BY <1>1, <1>2, SameLists DEF Destroying, devvars
  <2>3. \A u \in Threads : k'[u].pc = "sever" => k'[u] = k[u] /\ k[u].o \in Devs
    BY <1>1, <1>2, <1>5, LinkedLive DEF Destroying
  <2>4. QED
    BY <1>0, <1>1, <2>1, <2>2, <2>3, LinkedLive DEF ListOK, devvars
<1>12. QED
  BY <1>4, <1>6, <1>7, <1>8, <1>9, <1>10, <1>11 DEF BusInv, StructInv

-----------------------------------------------------------------------------
(* __exit and the destruction of a device.                                 *)

LEMMA ExitEndStep ==
  ASSUME BusInv, NEW t \in Threads, ExitEnd(t)
  PROVE  BusInv'
<1>0. /\ TypeOK /\ ControlOK /\ StageOK /\ EntryOK /\ PendingOK /\ SessionOK
      /\ HeldOK /\ NewOK /\ ListOK /\ ~damaged
  BY Parts DEF ExitEnd, Is
<1>1. /\ k[t].pc = "remove" /\ st[t] = "live" /\ Goto(t, User(t))
      /\ UNCHANGED <<bus, locked, devvars, busdevs, usrvars, polling, known, damaged>>
  BY <1>0 DEF ExitEnd, Is, ControlOK
<1>2. Others(t) /\ k'[t].pc = "user" /\ k' \in [Threads -> ContType]
  BY <1>0, <1>1, GotoTable, AtTypes DEF Others
<1>3. /\ st' \in [Threads -> {"free", "embryo", "live", "zombie"}] /\ st'[t] = "zombie"
      /\ \A u \in Threads : u # t => st'[u] = st[u]
  BY <1>0 DEF ExitEnd, TypeOK
<1>4. TypeOK'
  BY <1>0, <1>1, <1>2, <1>3 DEF TypeOK, ContType, devvars, usrvars
<1>5. \A u \in Threads : /\ Pending(u)' <=> Pending(u)
                         /\ Destroying(u)' <=> Destroying(u)
                         /\ Forking(u)' <=> Forking(u)
                         /\ Pending(u) \/ Destroying(u) \/ Forking(u) => u # t
                         /\ u # t => k'[u] = k[u]
                         /\ \A s \in Slots : Gone(u, s)' => Gone(u, s)
  BY <1>1, <1>2 DEF Pending, Destroying, Forking, Others, Gone
<1>6. ControlOK'
  BY <1>0, <1>1, <1>2, <1>3, <1>5, PartTypes DEF ControlOK, devvars
<1>7. StageOK'
  BY <1>0, <1>1, <1>5, PartTypes DEF StageOK, devvars
<1>8. EntryOK'
  <2>1. \A s \in Slots : Gone(t, s)
    BY <1>1 DEF Gone
  <2>2. QED
    BY <1>0, <1>1, <1>3, <1>5, <2>1 DEF EntryOK, devvars
<1>9. PendingOK' /\ SessionOK'
  BY <1>0, <1>1, <1>5 DEF PendingOK, SessionOK, devvars, usrvars
<1>10. HeldOK' /\ NewOK'
  <2>1. \A o \in Devs, i \in Ids : Held(o, i) => Held(o, i)'
    BY <1>1, <1>5 DEF Held
  <2>2. QED
    BY <1>0, <1>1, <2>1 DEF HeldOK, NewOK, devvars, usrvars
<1>11. ListOK'
  <2>1. \A m \in Threads, s \in Slots, o \in Devs : Linked(m, s, o)' <=> Linked(m, s, o)
    BY <1>1, <1>2 DEF Linked, Marking, Others
  <2>2. \A o \in Devs : dst[o] = "live" => ListOf(o)' = ListOf(o)
    BY <1>1, <1>2, SameLists DEF Destroying, devvars
  <2>3. \A u \in Threads : k'[u].pc = "sever" => k'[u] = k[u] /\ k[u].o \in Devs
    BY <1>1, <1>2, <1>5, LinkedLive DEF Destroying
  <2>4. QED
    BY <1>0, <1>1, <2>1, <2>2, <2>3, LinkedLive DEF ListOK, devvars
<1>12. QED
  BY <1>4, <1>6, <1>7, <1>8, <1>9, <1>10, <1>11 DEF BusInv, StructInv

(* A reaped thread had no entries but those of devices being destroyed;    *)
(* if there were any, memory is damaged.                                   *)
LEMMA ReapStep ==
  ASSUME BusInv, NEW t \in Threads, Reap(t)
  PROVE  BusInv'
<1>0. /\ TypeOK /\ ControlOK /\ StageOK /\ EntryOK /\ PendingOK /\ SessionOK
      /\ HeldOK /\ NewOK /\ ListOK /\ ~damaged /\ NoDev \notin Devs
  BY Parts DEF Reap
<1>1. /\ st[t] = "zombie" /\ damaged' = Listed(t)
      /\ UNCHANGED <<locked, devvars, busdevs, usrvars, polling, known, k>>
  BY DEF Reap
<1>2. /\ st' \in [Threads -> {"free", "embryo", "live", "zombie"}] /\ st'[t] = "free"
      /\ \A u \in Threads : u # t => st'[u] = st[u]
  BY <1>0 DEF Reap, TypeOK
<1>3. /\ Empty \in Entries /\ Empty.dev = NoDev /\ ~Empty.plg /\ ~Empty.bus
      /\ bus' \in [Threads -> [Slots -> Entries]]
      /\ \A s \in Slots : bus'[t][s] = Empty
      /\ \A u \in Threads, s \in Slots : u # t => bus'[u][s] = bus[u][s]
  <2>1. Empty \in Entries /\ Empty.dev = NoDev /\ ~Empty.plg /\ ~Empty.bus
    BY SizesAssumption DEF Empty, Entries, Ids
  <2>2. QED
    BY <1>0, <2>1 DEF Reap, TypeOK
<1> HIDE DEF Empty
<1>4. TypeOK'
  <2>1. Listed(t) \in BOOLEAN
    BY DEF Listed
  <2>2. QED
    BY <1>0, <1>1, <1>2, <1>3, <2>1 DEF TypeOK, devvars, usrvars
<1>5. /\ k[t].pc = "user"
      /\ \A u \in Threads : Pending(u) \/ Forking(u) => k[u].n # t
      /\ \A s \in Slots : bus[t][s].dev \in offline \cup {NoDev}
  BY <1>0, <1>1, NoFilling DEF ControlOK, EntryOK
<1>6. \A u \in Threads : /\ Pending(u)' <=> Pending(u)
                         /\ Destroying(u)' <=> Destroying(u)
                         /\ Forking(u)' <=> Forking(u)
                         /\ \A s \in Slots : Gone(u, s)' <=> Gone(u, s)
  BY <1>1 DEF Pending, Destroying, Forking, Gone
<1>7. ControlOK'
  BY <1>0, <1>1, <1>2, <1>5, <1>6, PartTypes DEF ControlOK, devvars
<1>8. StageOK'
  BY <1>0, <1>1, <1>6, PartTypes DEF StageOK, devvars
<1>9. EntryOK'
  <2> SUFFICES ASSUME NEW m \in Threads, NEW s \in Slots
               PROVE  /\ bus'[m][s].dev # NoDev =>
                           bus'[m][s].plg /\ dst[bus'[m][s].dev] = "live"
                      /\ bus'[m][s].bus => bus'[m][s].dev # NoDev
                      /\ bus'[m][s].plg /\ bus'[m][s].dev = NoDev =>
                           \E u \in Threads : Pending(u) /\ k[u].n = m /\ k[u].s = s
                      /\ st'[m] = "free" => bus'[m][s].dev = NoDev
                      /\ st'[m] = "zombie" \/ Gone(m, s) => bus'[m][s].dev \in offline \cup {NoDev}
    BY <1>1, <1>6 DEF EntryOK, devvars
  <2>1. CASE m = t
    BY <1>3, <2>1
  <2>2. CASE m # t
    <3>1. bus'[m][s] = bus[m][s] /\ st'[m] = st[m]
      BY <1>2, <1>3, <2>2
    <3>2. QED
      BY <1>0, <3>1 DEF EntryOK
  <2>3. QED
    BY <2>1, <2>2
<1>10. PendingOK'
  <2>1. ASSUME NEW u \in Threads, Pending(u)
        PROVE  bus'[k[u].n][k[u].s].plg /\ bus'[k[u].n][k[u].s].dev = NoDev
    <3>1. k[u].n # t /\ k[u].n \in Threads /\ k[u].s \in Slots
      BY <1>0, <1>5, <2>1, PartTypes DEF ControlOK, Pending
    <3>2. QED
      BY <1>0, <1>3, <2>1, <3>1 DEF PendingOK
  <2>2. ASSUME NEW u \in Threads, Forking(u), NEW s \in Slots, s >= k[u].s
        PROVE  bus'[k[u].n][s].dev = NoDev
    <3>1. k[u].n # t /\ k[u].n \in Threads
      BY <1>0, <1>5, <2>2, PartTypes
    <3>2. QED
      BY <1>0, <1>3, <2>2, <3>1 DEF PendingOK
  <2>3. QED
    BY <1>1, <1>6, <2>1, <2>2 DEF PendingOK
<1>11. \A u \in Threads, s \in Slots : bus'[u][s].dev # NoDev => bus'[u][s] = bus[u][s]
  BY <1>3
<1>12. SessionOK'
  <2>1. \A u \in Threads : Pending(u) => k[u].o # NoDev
    BY <1>0 DEF ControlOK, Pending
  <2>2. QED
    BY <1>0, <1>1, <1>6, <1>11, <2>1, SessionKept DEF devvars, usrvars
<1>13. HeldOK' /\ NewOK'
  <2>1. ASSUME NEW o \in Devs, NEW i \in Ids, Held(o, i), o \notin detaching
        PROVE  Held(o, i)'
    <3>1. CASE \E u \in Threads : Pending(u) /\ k[u].o = o /\ k[u].id = i
      BY <1>1, <1>6, <3>1 DEF Held
    <3>2. ASSUME NEW u \in Threads, NEW s \in Slots, bus[u][s].dev = o, bus[u][s].devid = i
          PROVE  Held(o, i)'
      <4>1. u # t
        BY <1>0, <1>5, <2>1, <3>2 DEF StageOK
      <4>2. QED
        BY <1>3, <3>2, <4>1 DEF Held
    <3>3. QED
      BY <2>1, <3>1, <3>2 DEF Held
  <2>2. QED
    BY <1>0, <1>1, <2>1 DEF HeldOK, NewOK, devvars, usrvars
<1>14. ASSUME ~damaged' PROVE ListOK'
  <2>1. \A u \in Threads, s \in Slots : k[u].pc = "sever" => <<t, s>> \notin k[u].todo
    BY <1>1, <1>14 DEF Listed
  <2>2. \A m \in Threads, s \in Slots, o \in Devs : Linked(m, s, o)' => Linked(m, s, o)
    BY <1>0, <1>1, <1>11 DEF Linked, Marking
  <2>3. \A m \in Threads, s \in Slots, o \in Devs : Linked(m, s, o) /\ m # t => Linked(m, s, o)'
    BY <1>1, <1>3 DEF Linked, Marking
  <2>4. \A o \in Devs, s \in Slots : <<t, s>> \notin busdevs[o]
    <3> SUFFICES ASSUME NEW o \in Devs, NEW s \in Slots, <<t, s>> \in busdevs[o] PROVE FALSE
      OBVIOUS
    <3>1. Linked(t, s, o)
      BY <1>0 DEF ListOK
    <3>2. ~Marking(t, s, o)
      BY <1>5 DEF Marking, Pending
    <3>3. o \in offline
      BY <1>0, <1>5, <3>1, <3>2 DEF Linked
    <3>4. QED
      BY <1>0, <3>3 DEF StageOK
  <2>5. \A o \in Devs : ListOf(o)' = ListOf(o)
    BY <1>1 DEF ListOf, devvars
  <2>6. \A u \in Threads : k[u].pc = "sever" => k[u].o \in Devs
    BY LinkedLive DEF Destroying
  <2>7. QED
    BY <1>0, <1>1, <2>1, <2>2, <2>3, <2>4, <2>5, <2>6 DEF ListOK
<1>15. QED
  BY <1>4, <1>7, <1>8, <1>9, <1>10, <1>12, <1>13, <1>14 DEF BusInv, StructInv

(* devremove: the owner takes its device in hand.                          *)
LEMMA DestroyStep ==
  ASSUME BusInv, NEW t \in Threads, NEW o \in Devs, UsrdevDestroy(t, o)
  PROVE  BusInv'
<1>0. /\ TypeOK /\ ControlOK /\ StageOK /\ EntryOK /\ PendingOK /\ SessionOK
      /\ HeldOK /\ NewOK /\ ListOK /\ ~damaged
  BY Parts DEF UsrdevDestroy, Is
<1>1. /\ k[t].pc = "remove" /\ st[t] = "live" /\ dst[o] = "live" /\ owner[o] = t
      /\ detaching' = detaching \cup {o}
      /\ Goto(t, At("detach", o, t, 1, 0, {}))
      /\ UNCHANGED <<st, bus, locked, dst, tree, offline, owner, busdevs, usrvars,
                     polling, known, damaged>>
  BY <1>0 DEF UsrdevDestroy, Is, ControlOK, Owned
<1>2. /\ Others(t) /\ k'[t].pc = "detach" /\ k'[t].o = o
      /\ k' \in [Threads -> ContType]
  <2>1. At("detach", o, t, 1, 0, {}) \in ContType
    BY AtTypes, SizesAssumption DEF Steps
  <2>2. QED
    BY <1>0, <1>1, <2>1, GotoTable, AtFields DEF Others
<1>3. TypeOK'
  BY <1>0, <1>1, <1>2 DEF TypeOK, ContType, usrvars
<1>4. \A u \in Threads : /\ Pending(u)' <=> Pending(u)
                         /\ Destroying(u)' <=> (Destroying(u) \/ u = t)
                         /\ Forking(u)' <=> Forking(u)
                         /\ Pending(u) \/ Destroying(u) \/ Forking(u) => u # t
                         /\ u # t => k'[u] = k[u]
                         /\ \A s \in Slots : Gone(u, s)' => Gone(u, s)
  BY <1>1, <1>2 DEF Pending, Destroying, Forking, Others, Gone
<1>5. o \notin detaching /\ o \notin offline
  BY <1>0, <1>1, <1>4 DEF StageOK
<1>6. ControlOK'
  BY <1>0, <1>1, <1>2, <1>4, PartTypes DEF ControlOK
<1>7. StageOK'
  BY <1>0, <1>1, <1>2, <1>4, <1>5, PartTypes DEF StageOK
<1>8. EntryOK'
  BY <1>0, <1>1, <1>4 DEF EntryOK
<1>9. PendingOK' /\ SessionOK'
  BY <1>0, <1>1, <1>4 DEF PendingOK, SessionOK, usrvars
<1>10. HeldOK' /\ NewOK'
  <2>1. \A p \in Devs, i \in Ids : Held(p, i) => Held(p, i)'
    BY <1>1, <1>4 DEF Held
  <2>2. QED
    BY <1>0, <1>1, <2>1 DEF HeldOK, NewOK, usrvars
<1>11. ListOK'
  <2>1. \A m \in Threads, s \in Slots, p \in Devs : Linked(m, s, p)' <=> Linked(m, s, p)
    BY <1>1, <1>2 DEF Linked, Marking, Others
  <2>2. \A p \in Devs : dst[p] = "live" => ListOf(p)' = ListOf(p)
    BY <1>1, <1>2, SameLists DEF Destroying
  <2>3. \A u \in Threads : k'[u].pc = "sever" => k'[u] = k[u] /\ k[u].o \in Devs
    BY <1>1, <1>2, <1>4, LinkedLive DEF Destroying
  <2>4. QED
    BY <1>0, <1>1, <2>1, <2>2, <2>3, LinkedLive DEF ListOK
<1>12. QED
  BY <1>3, <1>6, <1>7, <1>8, <1>9, <1>10, <1>11 DEF BusInv, StructInv

(* dev_detach: out of the tree.                                            *)
LEMMA DetachTreeStep ==
  ASSUME BusInv, NEW t \in Threads, DevDetachTree(t)
  PROVE  BusInv'
<1> DEFINE o == k[t].o
<1>0. /\ TypeOK /\ ControlOK /\ StageOK /\ EntryOK /\ PendingOK /\ SessionOK
      /\ HeldOK /\ NewOK /\ ListOK /\ ~damaged
  BY Parts DEF DevDetachTree, Is
<1>1. /\ k[t].pc = "detach" /\ tree' = tree \ {o}
      /\ Goto(t, [k[t] EXCEPT !.pc = "offline"])
      /\ UNCHANGED <<st, bus, locked, dst, offline, detaching, owner, busdevs, usrvars,
                     polling, known, damaged>>
  BY DEF DevDetachTree, Is
<1>2. /\ Others(t) /\ k'[t].pc = "offline" /\ k'[t].o = o
      /\ k' \in [Threads -> ContType]
  <2>1. k[t] \in ContType
    BY <1>0, PartTypes
  <2>2. /\ [k[t] EXCEPT !.pc = "offline"] \in ContType
        /\ [k[t] EXCEPT !.pc = "offline"].pc = "offline"
        /\ [k[t] EXCEPT !.pc = "offline"].o = o
    BY <2>1 DEF ContType, Steps
  <2>3. QED
    BY <1>0, <1>1, <2>2, GotoTable DEF Others
<1>3. TypeOK'
  BY <1>0, <1>1, <1>2 DEF TypeOK, ContType, usrvars
<1>4. \A u \in Threads : /\ Pending(u)' <=> Pending(u)
                         /\ Destroying(u)' <=> Destroying(u)
                         /\ Forking(u)' <=> Forking(u)
                         /\ Pending(u) \/ Forking(u) => u # t
                         /\ u # t => k'[u] = k[u]
                         /\ k'[u].o = k[u].o /\ (k'[u].pc = "sever" <=> k[u].pc = "sever")
                         /\ \A s \in Slots : Gone(u, s)' => Gone(u, s)
  BY <1>1, <1>2 DEF Pending, Destroying, Forking, Others, Gone
<1>5. /\ o \in Devs /\ o \notin offline /\ owner[o] = t /\ Destroying(t)
      /\ \A u \in Threads : Destroying(u) => k[u].o \in Devs
  BY <1>0, <1>1, LinkedLive DEF Destroying, ControlOK, StageOK
<1> HIDE DEF o
<1>6. ControlOK'
  BY <1>0, <1>1, <1>2, <1>4 DEF ControlOK
<1>7. StageOK'
  <2> SUFFICES ASSUME NEW p \in Devs
               PROVE  /\ dst[p] = "none" => p \notin detaching /\ busdevs[p] = {}
                      /\ p \in tree' => dst[p] = "live"
                      /\ p \in offline => p \in detaching /\ busdevs[p] = {}
                      /\ p \in detaching /\ dst[p] = "live" =>
                           /\ Destroying(owner[p])' /\ k'[owner[p]].o = p
                           /\ p \in offline <=> k'[owner[p]].pc = "sever"
                           /\ p \in tree' => k'[owner[p]].pc = "detach"
    BY <1>1 DEF StageOK, Destroying
  <2>1. p \in tree' => p \in tree /\ p # o
    BY <1>1
  <2>2. ASSUME p \in detaching, dst[p] = "live", owner[p] = t
        PROVE  p = o
    BY <1>0, <2>2 DEF StageOK, o
  <2>3. /\ dst[p] = "none" => p \notin detaching /\ busdevs[p] = {}
        /\ p \in tree' => dst[p] = "live"
        /\ p \in offline => p \in detaching /\ busdevs[p] = {}
    BY <1>0, <2>1 DEF StageOK
  <2>4. ASSUME p \in detaching, dst[p] = "live"
        PROVE  /\ Destroying(owner[p])' /\ k'[owner[p]].o = p
               /\ p \in offline <=> k'[owner[p]].pc = "sever"
               /\ p \in tree' => k'[owner[p]].pc = "detach"
    <3>1. owner[p] \in Threads /\ Destroying(owner[p]) /\ k[owner[p]].o = p
      BY <1>0, <2>4, PartTypes DEF StageOK
    <3>2. CASE owner[p] = t
      BY <1>0, <1>1, <1>2, <1>4, <1>5, <2>1, <2>2, <2>4, <3>1, <3>2
    <3>3. CASE owner[p] # t
      <4>1. k'[owner[p]] = k[owner[p]] /\ Destroying(owner[p])'
        BY <1>1, <1>4, <3>1, <3>3
      <4>2. /\ p \in offline <=> k[owner[p]].pc = "sever"
            /\ p \in tree => k[owner[p]].pc = "detach"
        BY <1>0, <2>4 DEF StageOK
      <4>3. QED
        BY <2>1, <3>1, <4>1, <4>2
    <3>4. QED
      BY <3>2, <3>3
  <2>5. QED
    BY <2>3, <2>4
<1>8. EntryOK'
  BY <1>0, <1>1, <1>4 DEF EntryOK
<1>9. PendingOK' /\ SessionOK'
  BY <1>0, <1>1, <1>4 DEF PendingOK, SessionOK, usrvars
<1>10. HeldOK' /\ NewOK'
  <2>1. \A p \in Devs, i \in Ids : Held(p, i) => Held(p, i)'
    BY <1>1, <1>4 DEF Held
  <2>2. QED
    BY <1>0, <1>1, <2>1 DEF HeldOK, NewOK, usrvars
<1>11. ListOK'
  <2>1. \A m \in Threads, s \in Slots, p \in Devs : Linked(m, s, p)' <=> Linked(m, s, p)
    BY <1>1, <1>2 DEF Linked, Marking, Others
  <2>2. \A p \in Devs : dst[p] = "live" => ListOf(p)' = ListOf(p)
    <3>1. \A p \in Devs : p \in offline /\ dst[p] = "live" => owner[p] # t
      BY <1>0, <1>1 DEF StageOK
    <3>2. QED
      BY <1>0, <1>1, <1>4, <3>1, PartTypes DEF ListOf
  <2>3. \A u \in Threads : k'[u].pc = "sever" => k'[u] = k[u] /\ k[u].o \in Devs
    BY <1>1, <1>2, <1>4, <1>5 DEF Destroying
  <2>4. QED
    BY <1>0, <1>1, <2>1, <2>2, <2>3, LinkedLive DEF ListOK
<1>12. QED
  BY <1>3, <1>6, <1>7, <1>8, <1>9, <1>10, <1>11 DEF BusInv, StructInv

(* dev_detach: offline, and the list of bus entries becomes the destroy    *)
(* list.                                                                   *)
LEMMA DetachOfflineStep ==
  ASSUME BusInv, NEW t \in Threads, DevDetachOffline(t)
  PROVE  BusInv'
<1>0. /\ TypeOK /\ ControlOK /\ StageOK /\ EntryOK /\ PendingOK /\ SessionOK
      /\ HeldOK /\ NewOK /\ ListOK /\ ~damaged
  BY Parts DEF DevDetachOffline, Is
<1>p. PICK o \in Devs : o = k[t].o
  BY <1>0, LinkedLive DEF DevDetachOffline, Is, Destroying
<1>1. /\ k[t].pc = "offline" /\ offline' = offline \cup {o}
      /\ busdevs' = [busdevs EXCEPT ![o] = {}]
      /\ Goto(t, At("sever", o, t, MaxBusDevs + 1, 0, busdevs[o]))
      /\ UNCHANGED <<st, bus, locked, dst, tree, detaching, owner, usrvars, polling,
                     known, damaged>>
  BY <1>p DEF DevDetachOffline, Is
<1>5. /\ o \in Devs /\ o \notin offline /\ owner[o] = t /\ Destroying(t) /\ st[t] = "live"
      /\ o \in detaching /\ dst[o] = "live" /\ o \notin tree
      /\ \A u \in Threads : Destroying(u) => k[u].o \in Devs
  BY <1>0, <1>1, <1>p, LinkedLive DEF Destroying, ControlOK, StageOK
<1>2. /\ Others(t) /\ k'[t].pc = "sever" /\ k'[t].o = o /\ k'[t].todo = busdevs[o]
      /\ k' \in [Threads -> ContType]
  <2>1. At("sever", o, t, MaxBusDevs + 1, 0, busdevs[o]) \in ContType
    <3>1. busdevs[o] \in SUBSET (Threads \X Slots)
      BY <1>0, <1>5, PartTypes
    <3>2. "sever" \in Steps /\ MaxBusDevs + 1 \in 1 .. MaxBusDevs + 1 /\ 0 \in Ids
      BY SizesAssumption DEF Steps, Ids
    <3>3. QED
      BY <1>5, <3>1, <3>2, AtTypes
  <2>2. QED
    BY <1>0, <1>1, <2>1, GotoTable, AtFields DEF Others
<1>3. /\ busdevs' \in [Devs -> SUBSET (Threads \X Slots)] /\ busdevs'[o] = {}
      /\ \A p \in Devs : p # o => busdevs'[p] = busdevs[p]
  BY <1>0, <1>1, <1>5 DEF TypeOK
<1>31. TypeOK'
  BY <1>0, <1>1, <1>2, <1>3, <1>5 DEF TypeOK, ContType, usrvars
<1>4. \A u \in Threads : /\ Pending(u)' <=> Pending(u)
                         /\ Destroying(u)' <=> Destroying(u)
                         /\ Forking(u)' <=> Forking(u)
                         /\ Pending(u) \/ Forking(u) => u # t
                         /\ u # t => k'[u] = k[u]
                         /\ k'[u].o = k[u].o
                         /\ \A s \in Slots : Gone(u, s)' => Gone(u, s)
  BY <1>1, <1>2, <1>p DEF Pending, Destroying, Forking, Others, Gone
<1>6. ControlOK'
  BY <1>0, <1>1, <1>2, <1>4 DEF ControlOK
<1>7. StageOK'
  <2> SUFFICES ASSUME NEW p \in Devs
               PROVE  /\ dst[p] = "none" => p \notin detaching /\ busdevs'[p] = {}
                      /\ p \in tree => dst[p] = "live"
                      /\ p \in offline' => p \in detaching /\ busdevs'[p] = {}
                      /\ p \in detaching /\ dst[p] = "live" =>
                           /\ Destroying(owner[p])' /\ k'[owner[p]].o = p
                           /\ p \in offline' <=> k'[owner[p]].pc = "sever"
                           /\ p \in tree => k'[owner[p]].pc = "detach"
    BY <1>1 DEF StageOK, Destroying
  <2>1. CASE p = o
    BY <1>1, <1>2, <1>3, <1>4, <1>5, <2>1
  <2>2. CASE p # o
    <3>1. busdevs'[p] = busdevs[p] /\ (p \in offline' <=> p \in offline)
      BY <1>1, <1>3, <2>2
    <3>2. ASSUME p \in detaching, dst[p] = "live"
          PROVE  k'[owner[p]] = k[owner[p]] /\ Destroying(owner[p])'
      <4>1. owner[p] \in Threads /\ owner[p] # t /\ Destroying(owner[p])
        BY <1>0, <1>p, <2>2, <3>2, PartTypes DEF StageOK
      <4>2. QED
        BY <1>1, <1>4, <4>1
    <3>3. QED
      BY <1>0, <3>1, <3>2 DEF StageOK
  <2>3. QED
    BY <2>1, <2>2
<1>8. EntryOK'
  BY <1>0, <1>1, <1>4 DEF EntryOK
<1>9. PendingOK' /\ SessionOK'
  BY <1>0, <1>1, <1>4 DEF PendingOK, SessionOK, usrvars
<1>10. HeldOK' /\ NewOK'
  <2>1. \A p \in Devs, i \in Ids : Held(p, i) => Held(p, i)'
    BY <1>1, <1>4 DEF Held
  <2>2. QED
    BY <1>0, <1>1, <2>1 DEF HeldOK, NewOK, usrvars
<1>11. ListOK'
  <2>1. \A m \in Threads, s \in Slots, p \in Devs : Linked(m, s, p)' <=> Linked(m, s, p)
    BY <1>1, <1>2 DEF Linked, Marking, Others
  <2>2. \A p \in Devs : dst[p] = "live" => ListOf(p)' = ListOf(p)
    <3>1. \A p \in Devs : p \in offline /\ dst[p] = "live" => owner[p] # t
      BY <1>0, <1>1 DEF StageOK
    <3>2. ListOf(o)' = ListOf(o)
      BY <1>1, <1>2, <1>5 DEF ListOf
    <3>3. \A p \in Devs : p # o /\ dst[p] = "live" => ListOf(p)' = ListOf(p)
      BY <1>0, <1>1, <1>3, <1>4, <3>1, PartTypes DEF ListOf
    <3>4. QED
      BY <3>2, <3>3
  <2>3. \A m \in Threads, s \in Slots, p \in Devs : Linked(m, s, p)' => <<m, s>> \in ListOf(p)'
    BY <1>0, <2>1, <2>2, LinkedLive DEF ListOK
  <2>4. \A p \in Devs, n \in Threads, s \in Slots : <<n, s>> \in busdevs'[p] => Linked(n, s, p)'
    BY <1>0, <1>3, <2>1 DEF ListOK
  <2>5. ASSUME NEW u \in Threads, NEW n \in Threads, NEW s \in Slots, NEW p \in Devs,
               k'[u].pc = "sever", <<n, s>> \in k'[u].todo, p = k'[u].o
        PROVE  Linked(n, s, p)'
    <3>1. CASE u = t
      BY <1>0, <1>2, <2>1, <2>5, <3>1 DEF ListOK
    <3>2. CASE u # t
      BY <1>0, <1>4, <2>1, <2>5, <3>2 DEF ListOK
    <3>3. QED
      BY <3>1, <3>2
  <2>6. \A u \in Threads : k'[u].pc = "sever" => k'[u].o \in Devs
    BY <1>4, <1>5 DEF Destroying
  <2>7. QED
    BY <2>3, <2>4, <2>5, <2>6 DEF ListOK
<1>12. QED
  BY <1>31, <1>6, <1>7, <1>8, <1>9, <1>10, <1>11 DEF BusInv, StructInv

(* The device is freed: its destroy list is empty, so that nothing points  *)
(* to it.                                                                  *)
LEMMA FreeStep ==
  ASSUME BusInv, NEW t \in Threads, UsrdevFree(t)
  PROVE  BusInv'
<1>0. /\ TypeOK /\ ControlOK /\ StageOK /\ EntryOK /\ PendingOK /\ SessionOK
      /\ HeldOK /\ NewOK /\ ListOK /\ ~damaged /\ NoDev \notin Devs
  BY Parts DEF UsrdevFree, Is
<1>p. PICK o \in Devs : o = k[t].o
  BY LinkedLive DEF UsrdevFree, Is, Destroying
<1>1. /\ k[t].pc = "sever" /\ k[t].todo = {}
      /\ dst' = [dst EXCEPT ![o] = "freed"]
      /\ ioreqs' = [ioreqs EXCEPT ![o] = <<>>]
      /\ owner' = [owner EXCEPT ![o] = Init0]
      /\ rem' = [rem EXCEPT ![o] = [i \in Ids |-> Unused]]
      /\ sigreq' = [sigreq EXCEPT ![o] = FALSE]
      /\ polling' = [polling EXCEPT ![o] = FALSE]
      /\ known' = [known EXCEPT ![o] = {}]
      /\ Goto(t, At("remove", NoDev, t, 1, 0, {}))
      /\ UNCHANGED <<st, bus, locked, tree, offline, detaching, busdevs, damaged>>
  BY <1>p DEF UsrdevFree, Is
<1>2. /\ Others(t) /\ k'[t].pc = "remove"
      /\ k' \in [Threads -> ContType]
  <2>1. At("remove", NoDev, t, 1, 0, {}) \in ContType
    BY AtTypes, SizesAssumption DEF Steps
  <2>2. QED
    BY <1>0, <1>1, <2>1, GotoTable, AtFields DEF Others
<1>3. /\ dst' \in [Devs -> {"none", "live", "freed"}] /\ dst'[o] = "freed"
      /\ owner' \in [Devs -> Threads] /\ owner'[o] = Init0
      /\ \A p \in Devs : p # o => dst'[p] = dst[p] /\ owner'[p] = owner[p]
  BY <1>0, <1>1, ThreadsAssumption DEF TypeOK
<1>4. /\ rem' \in [Devs -> [Ids -> Sessions]]
      /\ \A p \in Devs : p # o => rem'[p] = rem[p]
  <2>1. Unused \in Sessions
    BY ThreadsAssumption DEF Unused, Sessions
  <2>2. QED
    BY <1>0, <1>1, <2>1 DEF TypeOK
<1>5. /\ ioreqs' \in [Devs -> Seq(Iors)] /\ sigreq' \in [Devs -> BOOLEAN]
      /\ polling' \in [Devs -> BOOLEAN] /\ known' \in [Devs -> SUBSET Ids]
      /\ \A p \in Devs : p # o => ioreqs'[p] = ioreqs[p] /\ known'[p] = known[p]
  BY <1>0, <1>1 DEF TypeOK
<1>6. TypeOK'
  BY <1>0, <1>1, <1>2, <1>3, <1>4, <1>5 DEF TypeOK, ContType
<1>7. /\ o \in detaching /\ o \in offline /\ dst[o] = "live" /\ owner[o] = t
      /\ o \notin tree /\ st[t] = "live" /\ Destroying(t)
  BY <1>0, <1>1, <1>p DEF Destroying, ControlOK, StageOK
<1>8. /\ \A n \in Threads, s \in Slots : ~Linked(n, s, o)
      /\ \A n \in Threads, s \in Slots : bus[n][s].dev # o
      /\ \A u \in Threads : k[u].pc = "mark" => k[u].o # o
  <2>1. \A n \in Threads, s \in Slots : ~Linked(n, s, o)
    BY <1>0, <1>1, <1>7 DEF ListOK, ListOf
  <2>2. QED
    BY <1>0, <2>1, PartTypes DEF Linked, Marking, ControlOK
<1>9. \A u \in Threads : /\ Pending(u)' <=> Pending(u)
                         /\ Destroying(u)' <=> (Destroying(u) /\ u # t)
                         /\ Forking(u)' <=> Forking(u)
                         /\ Pending(u) \/ Forking(u) => u # t
                         /\ u # t => k'[u] = k[u]
                         /\ \A s \in Slots : Gone(u, s)' => Gone(u, s)
                         /\ Destroying(u) /\ u # t => k[u].o \in Devs /\ k[u].o # o
  <2>1. \A u \in Threads : /\ Pending(u)' <=> Pending(u)
                           /\ Destroying(u)' <=> (Destroying(u) /\ u # t)
                           /\ Forking(u)' <=> Forking(u)
                           /\ Pending(u) \/ Forking(u) => u # t
                           /\ u # t => k'[u] = k[u]
                           /\ \A s \in Slots : Gone(u, s)' => Gone(u, s)
    BY <1>1, <1>2 DEF Pending, Destroying, Forking, Others, Gone
  <2>2. \A u \in Threads : Destroying(u) /\ u # t => k[u].o \in Devs /\ k[u].o # o
    BY <1>0, <1>7, LinkedLive DEF ControlOK
  <2>3. QED
    BY <2>1, <2>2
<1>10. ControlOK'
  <2>1. \A u \in Threads : k'[u].pc \in {"plug", "mark", "link"} => k'[u] = k[u]
    BY <1>2 DEF Others
  <2>2. \A u \in Threads :
          /\ k'[u].pc \in {"plug", "mark", "link"} => k'[u].o \in Devs /\ dst'[k'[u].o] # "none"
          /\ k'[u].pc = "mark" => dst'[k'[u].o] = "live"
    BY <1>0, <1>3, <1>8, <2>1 DEF ControlOK
  <2>3. \A u \in Threads :
          Destroying(u)' => /\ k'[u].o \in detaching
                            /\ dst'[k'[u].o] = "live" /\ owner'[k'[u].o] = u
    BY <1>0, <1>3, <1>9 DEF ControlOK
  <2>4. \A u \in Threads :
          /\ k'[u].pc # "user" => st[u] = "live"
          /\ k'[u].pc \in {"mark", "link", "unplug"} => k'[u].s \in Slots
          /\ Forking(u)' => st[k'[u].n] = "embryo"
    BY <1>0, <1>2, <1>7, <1>9 DEF ControlOK
  <2>5. \A u, v \in Threads : Forking(u)' /\ Forking(v)' /\ u # v => k'[u].n # k'[v].n
    BY <1>0, <1>9 DEF ControlOK
  <2>6. QED
    BY <1>1, <2>2, <2>3, <2>4, <2>5 DEF ControlOK
<1>11. StageOK'
  <2> SUFFICES ASSUME NEW p \in Devs
               PROVE  /\ dst'[p] = "none" => p \notin detaching /\ busdevs[p] = {}
                      /\ p \in tree => dst'[p] = "live"
                      /\ p \in offline => p \in detaching /\ busdevs[p] = {}
                      /\ p \in detaching /\ dst'[p] = "live" =>
                           /\ Destroying(owner[p])' /\ k'[owner'[p]].o = p
                           /\ p \in offline <=> k'[owner'[p]].pc = "sever"
                           /\ p \in tree => k'[owner'[p]].pc = "detach"
    BY <1>1 DEF StageOK, Destroying
  <2>1. CASE p = o
    BY <1>0, <1>3, <1>7, <2>1 DEF StageOK
  <2>2. CASE p # o
    <3>1. dst'[p] = dst[p] /\ owner'[p] = owner[p]
      BY <1>3, <2>2
    <3>2. ASSUME p \in detaching, dst[p] = "live"
          PROVE  k'[owner[p]] = k[owner[p]] /\ Destroying(owner[p])'
      <4>1. owner[p] \in Threads /\ owner[p] # t /\ Destroying(owner[p])
        BY <1>0, <1>p, <2>2, <3>2, PartTypes DEF StageOK
      <4>2. QED
        BY <1>9, <3>1, <4>1
    <3>3. QED
      BY <1>0, <3>1, <3>2 DEF StageOK
  <2>3. QED
    BY <2>1, <2>2
<1>12. EntryOK'
  <2>1. \A n \in Threads, s \in Slots : bus[n][s].dev # NoDev =>
          bus[n][s].plg /\ dst'[bus[n][s].dev] = "live"
    BY <1>0, <1>3, <1>8, PartTypes DEF EntryOK
  <2>2. QED
    BY <1>0, <1>1, <1>9, <2>1 DEF EntryOK
<1>13. PendingOK'
  BY <1>0, <1>1, <1>9 DEF PendingOK
<1>14. SessionOK'
  <2>1. \A n \in Threads, s \in Slots : bus[n][s].dev # NoDev =>
          rem'[bus[n][s].dev] = rem[bus[n][s].dev]
    BY <1>0, <1>4, <1>8, PartTypes
  <2>2. \A u \in Threads : Pending(u)' /\ dst'[k'[u].o] = "live" =>
          /\ rem'[k[u].o] = rem[k[u].o] /\ dst[k[u].o] = "live" /\ Pending(u) /\ k'[u] = k[u]
    BY <1>0, <1>3, <1>4, <1>9 DEF ControlOK, Pending
  <2>3. \A u \in Threads : Pending(u) => k[u].o # NoDev
    BY <1>0 DEF ControlOK, Pending
  <2>4. QED
    BY <1>0, <1>1, <1>9, <2>1, <2>2, <2>3, SessionKept
<1>15. HeldOK'
  <2>1. \A p \in Devs, i \in Ids : Held(p, i) => Held(p, i)'
    BY <1>1, <1>9 DEF Held
  <2>2. QED
    BY <1>0, <1>1, <1>3, <1>4, <2>1 DEF HeldOK
<1>16. NewOK'
  <2>1. \A p \in Devs : dst'[p] = "none" =>
          /\ p # o /\ dst[p] = "none" /\ rem'[p] = rem[p]
          /\ ioreqs'[p] = ioreqs[p] /\ known'[p] = known[p]
    BY <1>3, <1>4, <1>5
  <2>2. QED
    BY <1>0, <2>1 DEF NewOK
<1>17. ListOK'
  <2>1. \A m \in Threads, s \in Slots, p \in Devs : Linked(m, s, p)' <=> Linked(m, s, p)
    BY <1>1, <1>2 DEF Linked, Marking, Others
  <2>2. \A p \in Devs : p # o /\ dst[p] = "live" => ListOf(p)' = ListOf(p)
    <3>1. \A p \in Devs : p # o /\ p \in offline /\ dst[p] = "live" => owner[p] # t
      BY <1>0, <1>p DEF StageOK
    <3>2. QED
      BY <1>0, <1>1, <1>3, <1>9, <3>1, PartTypes DEF ListOf
  <2>3. \A u \in Threads : k'[u].pc = "sever" => k'[u] = k[u] /\ k[u].o \in Devs
    BY <1>2, <1>9 DEF Destroying
  <2>4. QED
    BY <1>0, <1>1, <1>8, <2>1, <2>2, <2>3, LinkedLive DEF ListOK
<1>18. QED
  BY <1>6, <1>10, <1>11, <1>12, <1>13, <1>14, <1>15, <1>16, <1>17 DEF BusInv, StructInv

-----------------------------------------------------------------------------
(* Closing a session: bus_unplug and dev_detach.                           *)

LEMMA SessionTable ==
  ASSUME TypeOK, NEW o \in Devs, NEW i \in Ids, NEW e \in Sessions,
         rem' = [rem EXCEPT ![o][i] = e]
  PROVE  /\ rem' \in [Devs -> [Ids -> Sessions]] /\ rem'[o][i] = e
         /\ \A p \in Devs, j \in Ids : p # o \/ j # i => rem'[p][j] = rem[p][j]
<1> DEFINE f == [rem[o] EXCEPT ![i] = e]
<1>1. rem[o] \in [Ids -> Sessions]
  BY DEF TypeOK
<1>2. f \in [Ids -> Sessions] /\ f[i] = e /\ \A j \in Ids : j # i => f[j] = rem[o][j]
  BY <1>1
<1>3. rem' = [rem EXCEPT ![o] = f]
  OBVIOUS
<1> HIDE DEF f
<1>4. /\ rem' \in [Devs -> [Ids -> Sessions]] /\ rem'[o] = f
      /\ \A p \in Devs : p # o => rem'[p] = rem[p]
  BY <1>2, <1>3 DEF TypeOK
<1>5. QED
  BY <1>2, <1>4

LEMMA CloseTable ==
  ASSUME TypeOK, NEW o \in Devs, NEW i \in Ids, UsrdevClose(o, i)
  PROVE  /\ rem' \in [Devs -> [Ids -> Sessions]]
         /\ ~rem'[o][i].use /\ rem'[o][i].th = rem[o][i].th /\ rem'[o][i].apt = <<>>
         /\ \A p \in Devs, j \in Ids : p # o \/ j # i => rem'[p][j] = rem[p][j]
         /\ ioreqs' \in [Devs -> Seq(Iors)] /\ sigreq' \in [Devs -> BOOLEAN]
         /\ \A p \in Devs : p # o \/ o \in detaching =>
              ioreqs'[p] = ioreqs[p] /\ sigreq'[p] = sigreq[p]
         /\ o \notin detaching =>
              ioreqs'[o] = Append(ioreqs[o], Ior("close", i, i)) /\ sigreq'[o]
<1>1. rem[o][i] \in Sessions
  BY DEF TypeOK
<1>2. /\ Closed(o, i) \in Sessions /\ ~Closed(o, i).use /\ Closed(o, i).th = rem[o][i].th
      /\ Closed(o, i).apt = <<>>
  <2> DEFINE e == [rem[o][i] EXCEPT !.use = FALSE]
  <2>1. e \in Sessions /\ ~e.use /\ e.th = rem[o][i].th
    BY <1>1 DEF Sessions
  <2>2. Closed(o, i) = [e EXCEPT !.apt = <<>>]
    BY DEF Closed
  <2> HIDE DEF e
  <2>3. <<>> \in Seq(Threads)
    OBVIOUS
  <2>4. QED
    BY <2>1, <2>2, <2>3 DEF Sessions
<1>3. rem' = [rem EXCEPT ![o][i] = Closed(o, i)] /\ Request(o, Ior("close", i, i))
  BY DEF UsrdevClose
<1>4. /\ rem' \in [Devs -> [Ids -> Sessions]] /\ rem'[o][i] = Closed(o, i)
      /\ \A p \in Devs, j \in Ids : p # o \/ j # i => rem'[p][j] = rem[p][j]
  BY <1>2, <1>3, SessionTable
<1>5. QED
  BY <1>2, <1>3, <1>4, RequestTable

LEMMA EntryTable ==
  ASSUME TypeOK, NEW n \in Threads, NEW s \in Slots, NEW e \in Entries,
         bus' = [bus EXCEPT ![n][s] = e]
  PROVE  /\ bus' \in [Threads -> [Slots -> Entries]] /\ bus'[n][s] = e
         /\ \A m \in Threads, r \in Slots : m # n \/ r # s => bus'[m][r] = bus[m][r]
<1> DEFINE f == [bus[n] EXCEPT ![s] = e]
<1>1. bus[n] \in [Slots -> Entries]
  BY DEF TypeOK
<1>2. f \in [Slots -> Entries] /\ f[s] = e /\ \A r \in Slots : r # s => f[r] = bus[n][r]
  BY <1>1
<1>3. bus' = [bus EXCEPT ![n] = f]
  OBVIOUS
<1> HIDE DEF f
<1>4. /\ bus' \in [Threads -> [Slots -> Entries]] /\ bus'[n] = f
      /\ \A m \in Threads : m # n => bus'[m] = bus[m]
  BY <1>2, <1>3 DEF TypeOK
<1>5. QED
  BY <1>2, <1>4

(* No call is filling an entry that has its pointers.                      *)
LEMMA NotFilling ==
  ASSUME BusInv, NEW n \in Threads, NEW s \in Slots, bus[n][s].dev # NoDev
  PROVE  /\ \A u \in Threads : Pending(u) => k[u].n # n \/ k[u].s # s
         /\ \A o \in Devs : Linked(n, s, o) => bus[n][s].dev = o
<1>1. \A u \in Threads : Pending(u) => k[u].n # n \/ k[u].s # s
  BY Parts DEF PendingOK
<1>2. QED
  BY <1>1 DEF Linked, Marking, Pending

(* An entry loses its pointers, and its session is closed.                 *)
Drop(n, s, o, i) ==
  /\ bus[n][s].dev = o /\ bus[n][s].devid = i /\ dst[o] = "live"
  /\ bus'[n][s].dev = NoDev /\ ~bus'[n][s].plg /\ ~bus'[n][s].bus
  /\ \A m \in Threads, r \in Slots : m # n \/ r # s => bus'[m][r] = bus[m][r]
  /\ ~rem'[o][i].use
  /\ \A p \in Devs, j \in Ids : p # o \/ j # i => rem'[p][j] = rem[p][j]
  /\ UNCHANGED <<st, dst, offline, detaching>>
  /\ \A u \in Threads : /\ Pending(u)' <=> Pending(u)
                        /\ Forking(u)' <=> Forking(u)
                        /\ Pending(u) \/ Forking(u) => k'[u] = k[u]
  /\ \A m \in Threads, r \in Slots : Gone(m, r)' => Gone(m, r) \/ (m = n /\ r = s)

LEMMA DropEntry ==
  ASSUME BusInv, NEW n \in Threads, NEW s \in Slots, NEW o \in Devs, NEW i \in Ids,
         Drop(n, s, o, i)
  PROVE  EntryOK' /\ PendingOK' /\ SessionOK' /\ HeldOK'
<1> USE DEF Drop
<1>0. /\ TypeOK /\ ControlOK /\ StageOK /\ EntryOK /\ PendingOK /\ SessionOK
      /\ HeldOK /\ NoDev \notin Devs
  BY Parts
<1>1. \A u \in Threads : Pending(u) => k[u].n # n \/ k[u].s # s
  BY <1>0, NotFilling
<1>2. EntryOK'
  <2> SUFFICES ASSUME NEW m \in Threads, NEW r \in Slots
               PROVE  /\ bus'[m][r].dev # NoDev =>
                           bus'[m][r].plg /\ dst[bus'[m][r].dev] = "live"
                      /\ bus'[m][r].bus => bus'[m][r].dev # NoDev
                      /\ bus'[m][r].plg /\ bus'[m][r].dev = NoDev =>
                           \E u \in Threads : Pending(u)' /\ k'[u].n = m /\ k'[u].s = r
                      /\ st[m] = "free" => bus'[m][r].dev = NoDev
                      /\ st[m] = "zombie" \/ Gone(m, r)' => bus'[m][r].dev \in offline \cup {NoDev}
    BY DEF EntryOK
  <2>1. CASE m = n /\ r = s
    BY <2>1
  <2>2. CASE m # n \/ r # s
    <3>1. bus'[m][r] = bus[m][r] /\ (Gone(m, r)' => Gone(m, r))
      BY <2>2
    <3>2. (\E u \in Threads : Pending(u) /\ k[u].n = m /\ k[u].s = r)
            => \E u \in Threads : Pending(u)' /\ k'[u].n = m /\ k'[u].s = r
      OBVIOUS
    <3>3. QED
      BY <1>0, <3>1, <3>2 DEF EntryOK
  <2>3. QED
    BY <2>1, <2>2
<1>3. PendingOK'
  <2>1. ASSUME NEW u \in Threads, Pending(u)'
        PROVE  bus'[k'[u].n][k'[u].s].plg /\ bus'[k'[u].n][k'[u].s].dev = NoDev
    <3>1. /\ Pending(u) /\ k'[u] = k[u] /\ k[u].n \in Threads /\ k[u].s \in Slots
          /\ k[u].n # n \/ k[u].s # s
      BY <1>0, <1>1, <2>1, PartTypes DEF ControlOK, Pending
    <3>2. QED
      BY <1>0, <3>1 DEF PendingOK
  <2>2. ASSUME NEW u \in Threads, Forking(u)', NEW r \in Slots, r >= k'[u].s
        PROVE  bus'[k'[u].n][r].dev = NoDev
    <3>1. Forking(u) /\ k'[u] = k[u] /\ k[u].n \in Threads
      BY <1>0, <2>2, PartTypes
    <3>2. bus[k[u].n][r].dev = NoDev
      BY <1>0, <2>2, <3>1 DEF PendingOK
    <3>3. QED
      BY <1>0, <3>1, <3>2
  <2>3. QED
    BY <2>1, <2>2 DEF PendingOK
<1>4. /\ \A m \in Threads, r \in Slots : bus'[m][r].dev # NoDev =>
           /\ bus'[m][r] = bus[m][r]
           /\ rem'[bus[m][r].dev][bus[m][r].devid] = rem[bus[m][r].dev][bus[m][r].devid]
      /\ \A u \in Threads : Pending(u) => rem'[k[u].o][k[u].id] = rem[k[u].o][k[u].id]
  <2>1. ASSUME NEW m \in Threads, NEW r \in Slots, bus'[m][r].dev # NoDev
        PROVE  /\ bus'[m][r] = bus[m][r]
               /\ rem'[bus[m][r].dev][bus[m][r].devid] = rem[bus[m][r].dev][bus[m][r].devid]
    <3>1. (m # n \/ r # s) /\ bus'[m][r] = bus[m][r]
      BY <2>1
    <3>2. bus[m][r].dev # o \/ bus[m][r].devid # i
      BY <1>0, <2>1, <3>1 DEF SessionOK
    <3>3. bus[m][r].dev \in Devs /\ bus[m][r].devid \in Ids
      BY <1>0, <2>1, <3>1, PartTypes
    <3>4. QED
      BY <3>1, <3>2, <3>3
  <2>2. ASSUME NEW u \in Threads, Pending(u)
        PROVE  rem'[k[u].o][k[u].id] = rem[k[u].o][k[u].id]
    <3>1. k[u].o \in Devs /\ k[u].id \in Ids
      BY <1>0, <2>2, PartTypes DEF ControlOK, Pending
    <3>2. k[u].o # o \/ k[u].id # i
      BY <1>0, <2>2 DEF SessionOK
    <3>3. QED
      BY <3>1, <3>2
  <2>3. QED
    BY <2>1, <2>2
<1>5. SessionOK'
  <2>1. \A m \in Threads, r \in Slots : bus'[m][r].dev # NoDev =>
          /\ rem'[bus'[m][r].dev][bus'[m][r].devid].use
          /\ rem'[bus'[m][r].dev][bus'[m][r].devid].th = m
    BY <1>0, <1>4 DEF SessionOK
  <2>2. \A u \in Threads : Pending(u)' /\ dst[k'[u].o] = "live" =>
          rem'[k'[u].o][k'[u].id].use /\ rem'[k'[u].o][k'[u].id].th = k'[u].n
    BY <1>0, <1>4 DEF SessionOK
  <2>3. \A m, u \in Threads, r, q \in Slots :
          (bus'[m][r].dev # NoDev /\ bus'[m][r].dev = bus'[u][q].dev
             /\ bus'[m][r].devid = bus'[u][q].devid) => m = u /\ r = q
    BY <1>0, <1>4 DEF SessionOK
  <2>4. \A u, v \in Threads :
          (Pending(u)' /\ Pending(v)' /\ k'[u].o = k'[v].o /\ k'[u].id = k'[v].id) => u = v
    BY <1>0 DEF SessionOK
  <2>5. \A m, u \in Threads, r \in Slots :
          Pending(u)' /\ bus'[m][r].dev = k'[u].o => bus'[m][r].devid # k'[u].id
    <3>1. \A u \in Threads : Pending(u) => k[u].o # NoDev
      BY <1>0 DEF ControlOK, Pending
    <3>2. QED
      BY <1>0, <1>4, <3>1 DEF SessionOK
  <2>6. QED
    BY <2>1, <2>2, <2>3, <2>4, <2>5 DEF SessionOK
<1>6. HeldOK'
  <2>1. ASSUME NEW p \in Devs, NEW j \in Ids, Held(p, j), p # o \/ j # i
        PROVE  Held(p, j)'
    <3>1. CASE \E u \in Threads : Pending(u) /\ k[u].o = p /\ k[u].id = j
      BY <3>1 DEF Held
    <3>2. ASSUME NEW u \in Threads, NEW r \in Slots, bus[u][r].dev = p, bus[u][r].devid = j
          PROVE  Held(p, j)'
      <4>1. bus'[u][r] = bus[u][r]
        BY <2>1, <3>2
      <4>2. QED
        BY <3>2, <4>1 DEF Held
    <3>3. QED
      BY <2>1, <3>1, <3>2 DEF Held
  <2>2. QED
    BY <1>0, <2>1 DEF HeldOK
<1>7. QED
  BY <1>2, <1>3, <1>5, <1>6

(* dev_detach closes the entry <<n, s>> of its destroy list.               *)
LEMMA SeverStep ==
  ASSUME BusInv, NEW t \in Threads, NEW n \in Threads, NEW s \in Slots, DevDetachSever(t, n, s)
  PROVE  BusInv'
<1>0. /\ TypeOK /\ ControlOK /\ StageOK /\ EntryOK /\ PendingOK /\ SessionOK
      /\ HeldOK /\ NewOK /\ ListOK /\ ~damaged /\ NoDev \notin Devs
  BY Parts DEF DevDetachSever, Is
<1>p. PICK o \in Devs : o = k[t].o
  BY LinkedLive DEF DevDetachSever, Is, Destroying
<1>q. PICK i \in Ids : i = bus[n][s].devid
  BY <1>0, PartTypes
<1>1. /\ k[t].pc = "sever" /\ <<n, s>> \in k[t].todo /\ bus[n][s].bus
      /\ UsrdevClose(o, i)
      /\ bus' = [bus EXCEPT ![n][s] = Severed(bus[n][s])]
      /\ Goto(t, At("sever", o, n, s, 0, k[t].todo \ {<<n, s>>}))
      /\ UNCHANGED <<st, locked, devvars, busdevs, polling, known, damaged>>
  BY <1>p, <1>q DEF DevDetachSever, Is
<1>2. /\ Others(t) /\ k'[t].pc = "sever" /\ k'[t].o = o /\ k'[t].todo = k[t].todo \ {<<n, s>>}
      /\ k' \in [Threads -> ContType]
  <2>1. At("sever", o, n, s, 0, k[t].todo \ {<<n, s>>}) \in ContType
    <3>1. k[t].todo \ {<<n, s>>} \in SUBSET (Threads \X Slots)
      BY <1>0, PartTypes
    <3>2. "sever" \in Steps /\ s \in 1 .. MaxBusDevs + 1 /\ 0 \in Ids
      BY AtTypes DEF Steps
    <3>3. QED
      BY <3>1, <3>2, AtTypes
  <2>2. QED
    BY <1>0, <1>1, <2>1, GotoTable, AtFields DEF Others
<1>3. /\ bus' \in [Threads -> [Slots -> Entries]]
      /\ bus'[n][s].dev = NoDev /\ ~bus'[n][s].plg /\ ~bus'[n][s].bus
      /\ \A m \in Threads, r \in Slots : m # n \/ r # s => bus'[m][r] = bus[m][r]
  <2>1. bus[n][s].bsy \in BOOLEAN /\ 0 \in Ids
    BY <1>0, AtTypes DEF TypeOK, Entries
  <2>2. PICK e \in Entries : e = Severed(bus[n][s])
    BY <2>1 DEF Severed, Empty, Entries
  <2>3. e.dev = NoDev /\ ~e.plg /\ ~e.bus
    BY <2>2 DEF Severed, Empty
  <2>4. bus' = [bus EXCEPT ![n][s] = e]
    BY <1>1, <2>2
  <2>5. /\ bus' \in [Threads -> [Slots -> Entries]] /\ bus'[n][s] = e
        /\ \A m \in Threads, r \in Slots : m # n \/ r # s => bus'[m][r] = bus[m][r]
    BY <1>0, <2>4, EntryTable, ZenonT(30)
  <2>6. QED
    BY <2>3, <2>5
<1>4. /\ rem' \in [Devs -> [Ids -> Sessions]] /\ ~rem'[o][i].use
      /\ \A p \in Devs, j \in Ids : p # o \/ j # i => rem'[p][j] = rem[p][j]
      /\ ioreqs' \in [Devs -> Seq(Iors)] /\ sigreq' \in [Devs -> BOOLEAN]
      /\ \A p \in Devs : p # o => ioreqs'[p] = ioreqs[p]
  BY <1>0, <1>1, CloseTable
<1>5. TypeOK'
  BY <1>0, <1>1, <1>2, <1>3, <1>4 DEF TypeOK, ContType, devvars
<1>6. /\ o \in detaching /\ o \in offline /\ dst[o] = "live" /\ owner[o] = t
      /\ bus[n][s].dev = o /\ busdevs[o] = {} /\ Destroying(t) /\ st[t] = "live"
  <2>1. o \in detaching /\ o \in offline /\ dst[o] = "live" /\ owner[o] = t /\ Destroying(t)
        /\ st[t] = "live"
    BY <1>0, <1>1, <1>p DEF Destroying, ControlOK, StageOK
  <2>2. bus[n][s].dev # NoDev /\ Linked(n, s, o)
    BY <1>0, <1>1, <1>p DEF EntryOK, ListOK
  <2>3. QED
    BY <1>0, <2>1, <2>2, NotFilling DEF StageOK
<1>7. \A u \in Threads : /\ Pending(u)' <=> Pending(u)
                         /\ Destroying(u)' <=> Destroying(u)
                         /\ Forking(u)' <=> Forking(u)
                         /\ Pending(u) \/ Forking(u) => u # t /\ k'[u] = k[u]
                         /\ u # t => k'[u] = k[u]
                         /\ k'[u].o = k[u].o /\ k'[u].pc = k[u].pc
                         /\ \A r \in Slots : Gone(u, r)' => Gone(u, r)
  BY <1>1, <1>2, <1>p DEF Pending, Destroying, Forking, Others, Gone
<1>8. ControlOK'
  BY <1>0, <1>1, <1>2, <1>7 DEF ControlOK, devvars
<1>9. StageOK'
  BY <1>0, <1>1, <1>7, PartTypes DEF StageOK, devvars
<1>10. EntryOK' /\ PendingOK' /\ SessionOK' /\ HeldOK'
  <2>1. /\ UNCHANGED <<st, dst, offline, detaching>> /\ bus[n][s].devid = i
        /\ \A u \in Threads : /\ Pending(u)' <=> Pending(u)
                              /\ Forking(u)' <=> Forking(u)
                              /\ Pending(u) \/ Forking(u) => k'[u] = k[u]
        /\ \A m \in Threads, r \in Slots : Gone(m, r)' => Gone(m, r) \/ (m = n /\ r = s)
    BY <1>1, <1>7, <1>q DEF devvars
  <2>2. Drop(n, s, o, i)
    BY <1>3, <1>4, <1>6, <2>1 DEF Drop
  <2>3. QED
    BY <2>2, DropEntry
<1>11. NewOK'
  <2>1. \A p \in Devs : dst[p] = "none" => p # o /\ ioreqs'[p] = ioreqs[p]
    BY <1>4, <1>6
  <2>2. QED
    BY <1>0, <1>1, <1>4, <2>1, SMTT(30) DEF NewOK, devvars
<1>12. ListOK'
  <2>1. /\ \A m \in Threads, r \in Slots, p \in Devs :
             (m # n \/ r # s) => (Linked(m, r, p)' <=> Linked(m, r, p))
        /\ \A p \in Devs : ~Linked(n, s, p)'
    <3>1. \A m \in Threads, r \in Slots, p \in Devs : Marking(m, r, p)' <=> Marking(m, r, p)
      BY <1>1, <1>2 DEF Marking, Others
    <3>2. \A p \in Devs : ~Marking(n, s, p)
      BY <1>0, <1>6, NotFilling DEF Marking, Pending
    <3>3. QED
      BY <1>0, <1>3, <3>1, <3>2 DEF Linked
  <2>2. \A p \in Devs : p # o /\ dst[p] = "live" => ListOf(p)' = ListOf(p)
    <3>1. \A p \in Devs : p # o /\ p \in offline /\ dst[p] = "live" => owner[p] # t
      BY <1>0, <1>p DEF StageOK
    <3>2. QED
      BY <1>0, <1>1, <1>7, <3>1, PartTypes DEF ListOf, devvars
  <2>3. ListOf(o)' = ListOf(o) \ {<<n, s>>}
    BY <1>1, <1>2, <1>6 DEF ListOf, devvars
  <2>4. \A m \in Threads, r \in Slots, p \in Devs : Linked(m, r, p)' => <<m, r>> \in ListOf(p)'
    <3> SUFFICES ASSUME NEW m \in Threads, NEW r \in Slots, NEW p \in Devs, Linked(m, r, p)'
                 PROVE  <<m, r>> \in ListOf(p)'
      OBVIOUS
    <3>1. (m # n \/ r # s) /\ Linked(m, r, p) /\ dst[p] = "live" /\ <<m, r>> \in ListOf(p)
      BY <1>0, <2>1, LinkedLive DEF ListOK
    <3>2. QED
      BY <2>2, <2>3, <3>1
  <2>5. \A p \in Devs, m \in Threads, r \in Slots : <<m, r>> \in busdevs'[p] => Linked(m, r, p)'
    <3> SUFFICES ASSUME NEW p \in Devs, NEW m \in Threads, NEW r \in Slots,
                        <<m, r>> \in busdevs[p]
                 PROVE  Linked(m, r, p)'
      BY <1>1
    <3>1. Linked(m, r, p) /\ p # o
      BY <1>0, <1>6 DEF ListOK
    <3>2. m # n \/ r # s
      BY <1>0, <1>6, <3>1, NotFilling
    <3>3. QED
      BY <2>1, <3>1, <3>2
  <2>6. ASSUME NEW u \in Threads, NEW m \in Threads, NEW r \in Slots, NEW p \in Devs,
               k'[u].pc = "sever", <<m, r>> \in k'[u].todo, p = k'[u].o
        PROVE  Linked(m, r, p)'
    <3>1. CASE u = t
      <4>1. <<m, r>> \in k[t].todo /\ (m # n \/ r # s) /\ p = o
        BY <1>2, <2>6, <3>1
      <4>2. QED
        BY <1>0, <1>1, <1>p, <2>1, <4>1 DEF ListOK
    <3>2. CASE u # t
      <4>1. k'[u] = k[u] /\ Linked(m, r, p)
        BY <1>0, <1>7, <2>6, <3>2 DEF ListOK
      <4>2. p # o
        BY <1>0, <1>6, <2>6, <3>2, <4>1 DEF ControlOK, Destroying
      <4>3. m # n \/ r # s
        BY <1>0, <1>6, <4>1, <4>2, NotFilling
      <4>4. QED
        BY <2>1, <4>1, <4>3
    <3>3. QED
      BY <3>1, <3>2
  <2>7. \A u \in Threads : k'[u].pc = "sever" => k'[u].o \in Devs
    BY <1>7, LinkedLive DEF Destroying
  <2>8. QED
    BY <2>4, <2>5, <2>6, <2>7 DEF ListOK
<1>13. QED
  BY <1>5, <1>8, <1>9, <1>10, <1>11, <1>12 DEF BusInv, StructInv

(* bus_unplug of slot s, by sys_close or bus_remove.                       *)
Unplugging(t, s) ==
  /\ BusUnplug(t, s) /\ ~damaged /\ st[t] = "live" /\ k[t].pc \in {"user", "unplug"}
  /\ UNCHANGED <<st, locked, devvars, polling, known, damaged>>
  /\ Others(t) /\ k' \in [Threads -> ContType]
  /\ k'[t].pc \in {"user", "unplug", "remove"}
  /\ k'[t].pc = "unplug" => k'[t].s \in Slots
  /\ \A r \in Slots : Gone(t, r)' => Gone(t, r) \/ r = s

LEMMA UnplugStep ==
  ASSUME BusInv, NEW t \in Threads, NEW s \in Slots, Unplugging(t, s)
  PROVE  BusInv'
<1>u. /\ BusUnplug(t, s) /\ ~damaged /\ st[t] = "live" /\ k[t].pc \in {"user", "unplug"}
      /\ UNCHANGED <<st, locked, devvars, polling, known, damaged>>
  BY DEF Unplugging
<1>v. /\ Others(t) /\ k' \in [Threads -> ContType]
      /\ k'[t].pc \in {"user", "unplug", "remove"}
      /\ k'[t].pc = "unplug" => k'[t].s \in Slots
      /\ \A r \in Slots : Gone(t, r)' => Gone(t, r) \/ r = s
  BY DEF Unplugging
<1>0. /\ TypeOK /\ ControlOK /\ StageOK /\ EntryOK /\ PendingOK /\ SessionOK
      /\ HeldOK /\ NewOK /\ ListOK /\ ~damaged /\ NoDev \notin Devs
  BY <1>u, Parts
<1>1. \A u \in Threads : /\ Pending(u)' <=> Pending(u)
                         /\ Destroying(u)' <=> Destroying(u)
                         /\ Forking(u)' <=> Forking(u)
                         /\ Pending(u) \/ Forking(u) \/ Destroying(u) => u # t /\ k'[u] = k[u]
                         /\ u # t => k'[u] = k[u]
                         /\ \A r \in Slots : Gone(u, r)' => Gone(u, r) \/ (u = t /\ r = s)
  <2>1. \A u \in Threads : /\ Pending(u)' <=> Pending(u)
                           /\ Destroying(u)' <=> Destroying(u)
                           /\ Forking(u)' <=> Forking(u)
                           /\ Pending(u) \/ Forking(u) \/ Destroying(u) => u # t /\ k'[u] = k[u]
                           /\ u # t => k'[u] = k[u]
    BY <1>u, <1>v DEF Pending, Destroying, Forking, Others
  <2>2. \A u \in Threads, r \in Slots : u # t => (Gone(u, r)' => Gone(u, r))
    BY <1>u, <1>v DEF Gone, Destroying, Others
  <2>3. QED
    BY <1>v, <2>1, <2>2
<1>2. ControlOK'
  <2>1. \A u \in Threads : k'[u].pc \notin {"user", "unplug", "remove"} => k'[u] = k[u] /\ u # t
    BY <1>v DEF Others
  <2>2. QED
    BY <1>0, <1>1, <1>u, <1>v, <2>1 DEF ControlOK, devvars, Others
<1>3. \A m \in Threads, r \in Slots, p \in Devs : Marking(m, r, p)' <=> Marking(m, r, p)
  BY <1>u, <1>v DEF Marking, Others
<1>4. CASE CanUnplug(t, s)
  <2>p. PICK o \in Devs : o = bus[t][s].dev
    BY <1>4, <1>u, OwnEntry DEF CanUnplug
  <2>q. PICK i \in Ids : i = bus[t][s].devid
    BY <1>0, PartTypes
  <2>1. /\ UsrdevClose(o, i) /\ busdevs' = [busdevs EXCEPT ![o] = @ \ {<<t, s>>}]
        /\ bus' = [bus EXCEPT ![t][s] = Empty]
        /\ dst[o] = "live" /\ o \notin offline
    BY <1>4, <1>u, <2>p, <2>q, OwnEntry DEF BusUnplug, CanUnplug, Unplugged
  <2>2. /\ bus' \in [Threads -> [Slots -> Entries]]
        /\ bus'[t][s].dev = NoDev /\ ~bus'[t][s].plg /\ ~bus'[t][s].bus
        /\ \A m \in Threads, r \in Slots : m # t \/ r # s => bus'[m][r] = bus[m][r]
    <3>1. Empty \in Entries /\ Empty.dev = NoDev /\ ~Empty.plg /\ ~Empty.bus
      BY SizesAssumption DEF Empty, Entries, Ids
    <3>2. PICK e \in Entries : e = Empty
      BY <3>1
    <3>3. bus' = [bus EXCEPT ![t][s] = e]
      BY <2>1, <3>2
    <3>4. /\ bus' \in [Threads -> [Slots -> Entries]] /\ bus'[t][s] = e
          /\ \A m \in Threads, r \in Slots : m # t \/ r # s => bus'[m][r] = bus[m][r]
      BY <1>0, <3>3, EntryTable, ZenonT(30)
    <3>5. QED
      BY <3>1, <3>2, <3>4
  <2>3. /\ rem' \in [Devs -> [Ids -> Sessions]] /\ ~rem'[o][i].use
        /\ \A p \in Devs, j \in Ids : p # o \/ j # i => rem'[p][j] = rem[p][j]
        /\ ioreqs' \in [Devs -> Seq(Iors)] /\ sigreq' \in [Devs -> BOOLEAN]
        /\ \A p \in Devs : p # o => ioreqs'[p] = ioreqs[p]
    BY <1>0, <2>1, CloseTable
  <2>4. /\ busdevs' \in [Devs -> SUBSET (Threads \X Slots)]
        /\ busdevs'[o] = busdevs[o] \ {<<t, s>>}
        /\ \A p \in Devs : p # o => busdevs'[p] = busdevs[p]
    BY <1>0, <2>1 DEF TypeOK
  <2>5. TypeOK'
    BY <1>0, <1>u, <1>v, <2>2, <2>3, <2>4 DEF TypeOK, ContType, devvars
  <2>6. StageOK'
    BY <1>0, <1>1, <1>u, <2>1, <2>4, PartTypes DEF StageOK, devvars
  <2>7. EntryOK' /\ PendingOK' /\ SessionOK' /\ HeldOK'
    <3>1. /\ UNCHANGED <<st, dst, offline, detaching>>
          /\ bus[t][s].dev = o /\ bus[t][s].devid = i
          /\ \A u \in Threads : /\ Pending(u)' <=> Pending(u)
                                /\ Forking(u)' <=> Forking(u)
                                /\ Pending(u) \/ Forking(u) => k'[u] = k[u]
          /\ \A m \in Threads, r \in Slots : Gone(m, r)' => Gone(m, r) \/ (m = t /\ r = s)
      BY <1>1, <1>u, <2>p, <2>q DEF devvars
    <3>2. Drop(t, s, o, i)
      BY <2>1, <2>2, <2>3, <3>1 DEF Drop
    <3>3. QED
      BY <3>2, DropEntry
  <2>8. NewOK'
    <3>1. \A p \in Devs : dst[p] = "none" =>
            p # o /\ ioreqs'[p] = ioreqs[p] /\ \A j \in Ids : rem'[p][j] = rem[p][j]
      BY <2>1, <2>3
    <3>2. UNCHANGED <<dst, known>>
      BY <1>u DEF devvars
    <3>3. QED
      BY <1>0, <3>1, <3>2 DEF NewOK
  <2>9. ListOK'
    <3>0. bus[t][s].dev # NoDev
      BY <1>0, <2>p
    <3>1. /\ \A m \in Threads, r \in Slots, p \in Devs :
               (m # t \/ r # s) => (Linked(m, r, p)' <=> Linked(m, r, p))
          /\ \A p \in Devs : ~Linked(t, s, p)'
      <4>1. \A p \in Devs : ~Marking(t, s, p)
        BY <1>0, <3>0, NotFilling DEF Marking, Pending
      <4>2. QED
        BY <1>0, <1>3, <2>2, <4>1 DEF Linked
    <3>2. \A p \in Devs : p # o /\ dst[p] = "live" => ListOf(p)' = ListOf(p)
      BY <1>0, <1>1, <1>u, <2>4, PartTypes DEF ListOf, devvars, StageOK
    <3>3. ListOf(o)' = ListOf(o) \ {<<t, s>>}
      BY <1>u, <2>1, <2>4 DEF ListOf, devvars
    <3>4. \A m \in Threads, r \in Slots, p \in Devs : Linked(m, r, p)' => <<m, r>> \in ListOf(p)'
      <4> SUFFICES ASSUME NEW m \in Threads, NEW r \in Slots, NEW p \in Devs, Linked(m, r, p)'
                   PROVE  <<m, r>> \in ListOf(p)'
        OBVIOUS
      <4>1. (m # t \/ r # s) /\ Linked(m, r, p) /\ dst[p] = "live" /\ <<m, r>> \in ListOf(p)
        BY <1>0, <3>1, LinkedLive DEF ListOK
      <4>2. QED
        BY <3>2, <3>3, <4>1
    <3>5. \A p \in Devs, m \in Threads, r \in Slots : <<m, r>> \in busdevs'[p] => Linked(m, r, p)'
      <4> SUFFICES ASSUME NEW p \in Devs, NEW m \in Threads, NEW r \in Slots,
                          <<m, r>> \in busdevs'[p]
                   PROVE  Linked(m, r, p)'
        OBVIOUS
      <4>1. Linked(m, r, p)
        BY <1>0, <2>4 DEF ListOK
      <4>2. m # t \/ r # s
        BY <2>4, <2>p, <3>0, <4>1, NotFilling
      <4>3. QED
        BY <3>1, <4>1, <4>2
    <3>6. ASSUME NEW u \in Threads, NEW m \in Threads, NEW r \in Slots, NEW p \in Devs,
                 k'[u].pc = "sever", <<m, r>> \in k'[u].todo, p = k'[u].o
          PROVE  Linked(m, r, p)'
      <4>1. k'[u] = k[u] /\ Linked(m, r, p)
        BY <1>0, <1>1, <3>6 DEF ListOK, Destroying
      <4>2. p \in offline
        BY <1>0, <3>6, <4>1 DEF ControlOK, Destroying, StageOK
      <4>3. m # t \/ r # s
        BY <2>1, <2>p, <3>0, <4>1, <4>2, NotFilling
      <4>4. QED
        BY <3>1, <4>1, <4>3
    <3>7. \A u \in Threads : k'[u].pc = "sever" => k'[u].o \in Devs
      BY <1>1, LinkedLive DEF Destroying
    <3>8. QED
      BY <3>4, <3>5, <3>6, <3>7 DEF ListOK
  <2>10. QED
    BY <1>2, <2>5, <2>6, <2>7, <2>8, <2>9 DEF BusInv, StructInv
<1>5. CASE ~CanUnplug(t, s)
  <2>1. /\ bus' = [bus EXCEPT ![t][s] = [bus[t][s] EXCEPT !.bsy = FALSE]]
        /\ UNCHANGED <<busdevs, usrvars>>
    BY <1>5, <1>u DEF BusUnplug
  <2>2. /\ bus' \in [Threads -> [Slots -> Entries]]
        /\ \A m \in Threads, r \in Slots :
             /\ bus'[m][r].dev = bus[m][r].dev /\ bus'[m][r].devid = bus[m][r].devid
             /\ bus'[m][r].plg = bus[m][r].plg /\ bus'[m][r].bus = bus[m][r].bus
    <3> DEFINE e == [bus[t][s] EXCEPT !.bsy = FALSE]
    <3>1. /\ e \in Entries /\ e.dev = bus[t][s].dev /\ e.devid = bus[t][s].devid
          /\ e.plg = bus[t][s].plg /\ e.bus = bus[t][s].bus
      <4>1. bus[t][s] \in Entries
        BY <1>0, PartTypes
      <4>2. QED
        BY <4>1 DEF Entries
    <3>2. bus' = [bus EXCEPT ![t][s] = e]
      BY <2>1
    <3> HIDE DEF e
    <3>3. QED
      BY <1>0, <3>1, <3>2, EntryTable, ZenonT(30)
  <2>3. TypeOK'
    BY <1>0, <1>u, <1>v, <2>1, <2>2 DEF TypeOK, ContType, devvars, usrvars
  <2>4. StageOK'
    BY <1>0, <1>1, <1>u, <2>1, PartTypes DEF StageOK, devvars
  <2>5. bus[t][s].dev \in offline \cup {NoDev}
    BY <1>0, <1>5 DEF CanUnplug, EntryOK
  <2>6. EntryOK'
    <3>1. \A m \in Threads, r \in Slots :
            /\ bus'[m][r].dev # NoDev => bus'[m][r].plg /\ dst[bus'[m][r].dev] = "live"
            /\ bus'[m][r].bus => bus'[m][r].dev # NoDev
            /\ st[m] = "free" => bus'[m][r].dev = NoDev
      BY <1>0, <2>2 DEF EntryOK
    <3>2. \A m \in Threads, r \in Slots : bus'[m][r].plg /\ bus'[m][r].dev = NoDev =>
            \E u \in Threads : Pending(u)' /\ k'[u].n = m /\ k'[u].s = r
      <4>1. \A m \in Threads, r \in Slots :
              (\E u \in Threads : Pending(u) /\ k[u].n = m /\ k[u].s = r)
                => \E u \in Threads : Pending(u)' /\ k'[u].n = m /\ k'[u].s = r
        BY <1>1
      <4>2. \A m \in Threads, r \in Slots : bus'[m][r].plg /\ bus'[m][r].dev = NoDev =>
              \E u \in Threads : Pending(u) /\ k[u].n = m /\ k[u].s = r
        BY <1>0, <2>2 DEF EntryOK
      <4>3. QED
        BY <4>1, <4>2
    <3>3. \A m \in Threads, r \in Slots :
            st[m] = "zombie" \/ Gone(m, r)' => bus'[m][r].dev \in offline \cup {NoDev}
      BY <1>0, <1>1, <2>2, <2>5 DEF EntryOK
    <3>4. QED
      BY <1>u, <3>1, <3>2, <3>3 DEF EntryOK, devvars
  <2>7. PendingOK'
    <3>1. \A u \in Threads : k[u].n \in Threads /\ (Pending(u) => k[u].s \in Slots)
      BY <1>0, PartTypes DEF ControlOK, Pending
    <3>2. \A u \in Threads : Pending(u)' =>
            bus'[k'[u].n][k'[u].s].plg /\ bus'[k'[u].n][k'[u].s].dev = NoDev
      <4>1. \A u \in Threads : Pending(u) =>
              bus'[k[u].n][k[u].s].plg /\ bus'[k[u].n][k[u].s].dev = NoDev
        BY <1>0, <2>2, <3>1 DEF PendingOK
      <4>2. QED
        BY <1>1, <4>1
    <3>3. \A u \in Threads : Forking(u)' =>
            \A r \in Slots : r >= k'[u].s => bus'[k'[u].n][r].dev = NoDev
      <4>1. \A u \in Threads : Forking(u) =>
              \A r \in Slots : r >= k[u].s => bus'[k[u].n][r].dev = NoDev
        BY <1>0, <2>2, <3>1 DEF PendingOK
      <4>2. QED
        BY <1>1, <4>1
    <3>4. QED
      BY <3>2, <3>3 DEF PendingOK
  <2>8. SessionOK'
    <3>1. /\ UNCHANGED <<dst, rem>>
          /\ \A u \in Threads : (Pending(u)' <=> Pending(u)) /\ (Pending(u) => k'[u] = k[u])
      BY <1>1, <1>u, <2>1 DEF devvars, usrvars
    <3>2. /\ \A m \in Threads, r \in Slots : bus'[m][r].dev # NoDev =>
               /\ rem[bus'[m][r].dev][bus'[m][r].devid].use
               /\ rem[bus'[m][r].dev][bus'[m][r].devid].th = m
          /\ \A m, u \in Threads, r, q \in Slots :
               (bus'[m][r].dev # NoDev /\ bus'[m][r].dev = bus'[u][q].dev
                  /\ bus'[m][r].devid = bus'[u][q].devid) => m = u /\ r = q
          /\ \A m, u \in Threads, r \in Slots :
               Pending(u) /\ bus'[m][r].dev = k[u].o => bus'[m][r].devid # k[u].id
      <4>0. \A m \in Threads, r \in Slots :
              bus'[m][r].dev = bus[m][r].dev /\ bus'[m][r].devid = bus[m][r].devid
        BY <2>2
      <4>1. \A m \in Threads, r \in Slots : bus'[m][r].dev # NoDev =>
               /\ rem[bus'[m][r].dev][bus'[m][r].devid].use
               /\ rem[bus'[m][r].dev][bus'[m][r].devid].th = m
        BY <1>0, <4>0 DEF SessionOK
      <4>2. \A m, u \in Threads, r, q \in Slots :
               (bus'[m][r].dev # NoDev /\ bus'[m][r].dev = bus'[u][q].dev
                  /\ bus'[m][r].devid = bus'[u][q].devid) => m = u /\ r = q
        <5>1. \A m, u \in Threads, r, q \in Slots :
                 (bus[m][r].dev # NoDev /\ bus[m][r].dev = bus[u][q].dev
                    /\ bus[m][r].devid = bus[u][q].devid) => m = u /\ r = q
          BY <1>0 DEF SessionOK
        <5>2. QED
          BY <4>0, <5>1
      <4>3. \A m, u \in Threads, r \in Slots :
               Pending(u) /\ bus'[m][r].dev = k[u].o => bus'[m][r].devid # k[u].id
        BY <1>0, <4>0 DEF SessionOK
      <4>4. QED
        BY <4>1, <4>2, <4>3
    <3>3. /\ \A u \in Threads : Pending(u) /\ dst[k[u].o] = "live" =>
               rem[k[u].o][k[u].id].use /\ rem[k[u].o][k[u].id].th = k[u].n
          /\ \A u, v \in Threads :
               (Pending(u) /\ Pending(v) /\ k[u].o = k[v].o /\ k[u].id = k[v].id) => u = v
      BY <1>0 DEF SessionOK
    <3>4. QED
      BY <3>1, <3>2, <3>3 DEF SessionOK
  <2>9. HeldOK' /\ NewOK'
    <3>1. \A p \in Devs, i \in Ids : Held(p, i) => Held(p, i)'
      <4>1. \A p \in Devs, i \in Ids :
              (\E u \in Threads : Pending(u) /\ k[u].o = p /\ k[u].id = i)
                => \E u \in Threads : Pending(u)' /\ k'[u].o = p /\ k'[u].id = i
        BY <1>1
      <4>2. \A p \in Devs, i \in Ids :
              (\E m \in Threads, r \in Slots : bus[m][r].dev = p /\ bus[m][r].devid = i)
                => \E m \in Threads, r \in Slots : bus'[m][r].dev = p /\ bus'[m][r].devid = i
        BY <2>2
      <4>3. QED
        BY <4>1, <4>2 DEF Held
    <3>2. QED
      BY <1>0, <1>u, <2>1, <3>1 DEF HeldOK, NewOK, devvars, usrvars
  <2>10. ListOK'
    <3>1. \A m \in Threads, r \in Slots, p \in Devs : Linked(m, r, p)' <=> Linked(m, r, p)
      BY <1>3, <2>2 DEF Linked
    <3>2. \A p \in Devs : dst[p] = "live" => ListOf(p)' = ListOf(p)
      BY <1>1, <1>u, <1>v, <2>1, SameLists DEF Destroying, devvars
    <3>3. \A u \in Threads : k'[u].pc = "sever" => k'[u] = k[u] /\ k[u].o \in Devs
      BY <1>1, LinkedLive DEF Destroying
    <3>4. QED
      BY <1>0, <1>u, <2>1, <3>1, <3>2, <3>3, LinkedLive DEF ListOK, devvars
  <2>11. QED
    BY <1>2, <2>3, <2>4, <2>6, <2>7, <2>8, <2>9, <2>10 DEF BusInv, StructInv
<1>6. QED
  BY <1>4, <1>5

LEMMA CloseStep ==
  ASSUME BusInv, NEW t \in Threads, (\E s \in Slots : SysClose(t, s)) \/ BusRemove(t)
  PROVE  BusInv'
<1>0. TypeOK /\ ControlOK
  BY Parts
<1>1. ASSUME NEW s \in Slots, SysClose(t, s) PROVE BusInv'
  <2>1. /\ BusUnplug(t, s) /\ ~damaged /\ st[t] = "live" /\ k[t].pc = "user" /\ k' = k
        /\ UNCHANGED <<st, locked, devvars, polling, known, damaged>>
    BY <1>1 DEF SysClose, Enter
  <2>2. k' \in [Threads -> ContType] /\ Others(t) /\ k'[t].pc = "user"
    BY <1>0, <2>1 DEF TypeOK, ContType, Others
  <2>3. \A r \in Slots : Gone(t, r)' => Gone(t, r)
    BY <2>1 DEF Gone, Destroying
  <2>4. Unplugging(t, s)
    BY <2>1, <2>2, <2>3 DEF Unplugging
  <2>5. QED
    BY <2>4, UnplugStep
<1>2. CASE BusRemove(t)
  <2>1. PICK s \in Slots : s = k[t].s
    BY <1>0, <1>2 DEF BusRemove, Is, ControlOK
  <2>2. /\ BusUnplug(t, s) /\ ~damaged /\ st[t] = "live" /\ k[t].pc = "unplug"
        /\ UNCHANGED <<st, locked, devvars, polling, known, damaged>>
    BY <1>0, <1>2, <2>1 DEF BusRemove, Is, ControlOK
  <2>3. /\ Others(t) /\ k' \in [Threads -> ContType]
        /\ \/ k'[t].pc = "unplug" /\ k'[t].s = s + 1 /\ s + 1 \in Slots
           \/ k'[t].pc = "remove" /\ s + 1 \notin Slots
    <3>1. CASE s + 1 \in Slots
      <4>1. Goto(t, At("unplug", NoDev, t, s + 1, 0, {}))
        BY <1>2, <2>1, <3>1 DEF BusRemove
      <4>2. At("unplug", NoDev, t, s + 1, 0, {}) \in ContType
        BY <3>1, AtTypes DEF Steps
      <4>3. QED
        BY <1>0, <3>1, <4>1, <4>2, GotoTable, AtFields DEF Others
    <3>2. CASE s + 1 \notin Slots
      <4>1. Goto(t, At("remove", NoDev, t, 1, 0, {}))
        BY <1>2, <2>1, <3>2 DEF BusRemove
      <4>2. At("remove", NoDev, t, 1, 0, {}) \in ContType
        BY AtTypes DEF Steps
      <4>3. QED
        BY <1>0, <3>2, <4>1, <4>2, GotoTable, AtFields DEF Others
    <3>3. QED
      BY <3>1, <3>2
  <2>4. \A r \in Slots : Gone(t, r)' => Gone(t, r) \/ r = s
    <3>1. \A r \in Slots : /\ r < s + 1 => r < s \/ r = s
                           /\ s + 1 \notin Slots => r < s \/ r = s
      BY SizesAssumption DEF Slots
    <3>2. QED
      BY <2>1, <2>2, <2>3, <3>1 DEF Gone, Destroying
  <2>5. Unplugging(t, s)
    BY <2>2, <2>3, <2>4 DEF Unplugging
  <2>6. QED
    BY <2>5, UnplugStep
<1>3. QED
  BY <1>1, <1>2

-----------------------------------------------------------------------------
(* Taking a session: bus_plug and bus_copy.                                *)

(* Two calls never fill entries of the same thread.                        *)
LEMMA OneFiller ==
  ASSUME BusInv, NEW u \in Threads, NEW v \in Threads, u # v,
         Pending(u) \/ Forking(u), Pending(v) \/ Forking(v)
  PROVE  k[u].n # k[v].n
<1>1. ControlOK
  BY Parts
<1>2. /\ Forking(u) \/ (k[u].pc = "mark" /\ k[u].n = u)
      /\ Forking(v) \/ (k[v].pc = "mark" /\ k[v].n = v)
  BY DEF Pending, Forking
<1>3. QED
  BY <1>1, <1>2 DEF ControlOK

LEMMA OpenTable ==
  ASSUME TypeOK, NEW o \in Devs, NEW i \in Ids, NEW t \in Threads,
         rem' = [rem EXCEPT ![o][i] = Session(o, i, t)]
  PROVE  /\ rem' \in [Devs -> [Ids -> Sessions]]
         /\ rem'[o][i].use /\ rem'[o][i].th = t /\ rem'[o][i].apt = rem[o][i].apt
         /\ \A p \in Devs, j \in Ids : p # o \/ j # i => rem'[p][j] = rem[p][j]
<1>1. rem[o][i] \in Sessions
  BY DEF TypeOK
<1>2. /\ Session(o, i, t) \in Sessions /\ Session(o, i, t).use /\ Session(o, i, t).th = t
      /\ Session(o, i, t).apt = rem[o][i].apt
  <2> DEFINE f == [rem[o][i] EXCEPT !.use = TRUE]
  <2>1. f \in Sessions /\ f.use /\ f.apt = rem[o][i].apt
    BY <1>1 DEF Sessions
  <2>2. Session(o, i, t) = [f EXCEPT !.th = t]
    BY DEF Session
  <2> HIDE DEF f
  <2>3. QED
    BY <2>1, <2>2 DEF Sessions
<1>3. /\ rem' \in [Devs -> [Ids -> Sessions]] /\ rem'[o][i] = Session(o, i, t)
      /\ \A p \in Devs, j \in Ids : p # o \/ j # i => rem'[p][j] = rem[p][j]
  <2>1. PICK e \in Sessions : e = Session(o, i, t)
    BY <1>2
  <2>2. PICK f \in [Ids -> Sessions] : f = [rem[o] EXCEPT ![i] = e]
    BY DEF TypeOK
  <2>3. f[i] = e /\ \A j \in Ids : j # i => f[j] = rem[o][j]
    BY <2>2 DEF TypeOK
  <2>4. rem' = [rem EXCEPT ![o] = f]
    BY <2>1, <2>2
  <2>5. /\ rem' \in [Devs -> [Ids -> Sessions]] /\ rem'[o] = f
        /\ \A p \in Devs : p # o => rem'[p] = rem[p]
    BY <2>4 DEF TypeOK
  <2>6. QED
    BY <2>1, <2>3, <2>5
<1>4. QED
  BY <1>2, <1>3

(* A session in nobody's hands.                                            *)
LEMMA FreeSession ==
  ASSUME BusInv, NEW o \in Devs, NEW i \in Ids, ~rem[o][i].use, dst[o] = "live"
  PROVE  /\ \A m \in Threads, r \in Slots : bus[m][r].dev = o => bus[m][r].devid # i
         /\ \A u \in Threads : Pending(u) /\ k[u].o = o => k[u].id # i
<1>1. SessionOK /\ NoDev \notin Devs
  BY Parts
<1>2. QED
  BY <1>1 DEF SessionOK

(* Thread t is about to fill entry <<n, s>> for the session i of device o, *)
(* just opened.                                                            *)
Fill(t, n, s, o, i) ==
  /\ dst[o] = "live" /\ ~rem[o][i].use /\ bus[n][s].dev = NoDev
  /\ bus'[n][s].dev = NoDev /\ bus'[n][s].plg /\ (bus'[n][s].bus => bus[n][s].bus)
  /\ \A m \in Threads, r \in Slots : m # n \/ r # s => bus'[m][r] = bus[m][r]
  /\ rem'[o][i].use /\ rem'[o][i].th = n
  /\ \A p \in Devs, j \in Ids : p # o \/ j # i => rem'[p][j] = rem[p][j]
  /\ UNCHANGED <<st, dst, offline, detaching>>
  /\ ~Pending(t) /\ Pending(t)' /\ Others(t)
  /\ k'[t].o = o /\ k'[t].n = n /\ k'[t].s = s /\ k'[t].id = i
  /\ Forking(t)' => Forking(t) /\ k[t].n = n /\ k[t].s = s
  /\ \A u \in Threads : u # t /\ (Pending(u) \/ Forking(u)) => k[u].n # n
  /\ \A m \in Threads, r \in Slots : Gone(m, r)' => Gone(m, r)

LEMMA FillEntry ==
  ASSUME BusInv, NEW t \in Threads, NEW n \in Threads, NEW s \in Slots, NEW o \in Devs,
         NEW i \in Ids, Fill(t, n, s, o, i)
  PROVE  EntryOK' /\ PendingOK' /\ SessionOK' /\ HeldOK'
<1>0. /\ TypeOK /\ ControlOK /\ StageOK /\ EntryOK /\ PendingOK /\ SessionOK
      /\ HeldOK /\ NoDev \notin Devs
  BY Parts
<1>1. /\ dst[o] = "live" /\ ~rem[o][i].use /\ bus[n][s].dev = NoDev
      /\ bus'[n][s].dev = NoDev /\ bus'[n][s].plg /\ (bus'[n][s].bus => bus[n][s].bus)
      /\ \A m \in Threads, r \in Slots : m # n \/ r # s => bus'[m][r] = bus[m][r]
  BY DEF Fill
<1>2. /\ rem'[o][i].use /\ rem'[o][i].th = n
      /\ \A p \in Devs, j \in Ids : p # o \/ j # i => rem'[p][j] = rem[p][j]
      /\ UNCHANGED <<st, dst, offline, detaching>>
  BY DEF Fill
<1>3. /\ ~Pending(t) /\ Pending(t)'
      /\ k'[t].o = o /\ k'[t].n = n /\ k'[t].s = s /\ k'[t].id = i
      /\ Forking(t)' => Forking(t) /\ k[t].n = n /\ k[t].s = s
      /\ \A u \in Threads : u # t /\ (Pending(u) \/ Forking(u)) => k[u].n # n
      /\ \A m \in Threads, r \in Slots : Gone(m, r)' => Gone(m, r)
  BY DEF Fill
<1>4. \A u \in Threads : u # t => /\ k'[u] = k[u] /\ (Pending(u)' <=> Pending(u))
                                  /\ Forking(u)' <=> Forking(u)
  BY DEF Fill, Others, Pending, Forking
<1>5. EntryOK'
  <2> SUFFICES ASSUME NEW m \in Threads, NEW r \in Slots
               PROVE  /\ bus'[m][r].dev # NoDev =>
                           bus'[m][r].plg /\ dst[bus'[m][r].dev] = "live"
                      /\ bus'[m][r].bus => bus'[m][r].dev # NoDev
                      /\ bus'[m][r].plg /\ bus'[m][r].dev = NoDev =>
                           \E u \in Threads : Pending(u)' /\ k'[u].n = m /\ k'[u].s = r
                      /\ st[m] = "free" => bus'[m][r].dev = NoDev
                      /\ st[m] = "zombie" \/ Gone(m, r)' => bus'[m][r].dev \in offline \cup {NoDev}
    BY <1>2 DEF EntryOK
  <2>1. CASE m = n /\ r = s
    <3>1. ~bus'[n][s].bus
      BY <1>0, <1>1 DEF EntryOK
    <3>2. QED
      BY <1>1, <1>3, <2>1, <3>1
  <2>2. CASE m # n \/ r # s
    <3>1. bus'[m][r] = bus[m][r] /\ (Gone(m, r)' => Gone(m, r))
      BY <1>1, <1>3, <2>2
    <3>2. (\E u \in Threads : Pending(u) /\ k[u].n = m /\ k[u].s = r)
            => \E u \in Threads : Pending(u)' /\ k'[u].n = m /\ k'[u].s = r
      BY <1>3, <1>4
    <3>3. QED
      BY <1>0, <3>1, <3>2 DEF EntryOK
  <2>3. QED
    BY <2>1, <2>2
<1>6. PendingOK'
  <2>1. ASSUME NEW u \in Threads, Pending(u)'
        PROVE  bus'[k'[u].n][k'[u].s].plg /\ bus'[k'[u].n][k'[u].s].dev = NoDev
    <3>1. CASE u = t
      BY <1>1, <1>3, <3>1
    <3>2. CASE u # t
      <4>1. Pending(u) /\ k'[u] = k[u] /\ k[u].n \in Threads /\ k[u].s \in Slots /\ k[u].n # n
        BY <1>0, <1>3, <1>4, <2>1, <3>2, PartTypes DEF ControlOK, Pending
      <4>2. QED
        BY <1>0, <1>1, <4>1 DEF PendingOK
    <3>3. QED
      BY <3>1, <3>2
  <2>2. ASSUME NEW u \in Threads, Forking(u)', NEW r \in Slots, r >= k'[u].s
        PROVE  bus'[k'[u].n][r].dev = NoDev
    <3>1. Forking(u) /\ k'[u].n = k[u].n /\ k'[u].s = k[u].s /\ k[u].n \in Threads
      BY <1>0, <1>3, <1>4, <2>2, PartTypes
    <3>2. bus[k[u].n][r].dev = NoDev
      BY <1>0, <2>2, <3>1 DEF PendingOK
    <3>3. QED
      BY <1>1, <3>1, <3>2
  <2>3. QED
    BY <2>1, <2>2 DEF PendingOK
<1>7. SessionOK'
  <2>0. /\ \A m \in Threads, r \in Slots : bus[m][r].dev = o => bus[m][r].devid # i
        /\ \A u \in Threads : Pending(u) /\ k[u].o = o => k[u].id # i
    BY <1>1, FreeSession
  <2>1. \A m \in Threads, r \in Slots :
          /\ bus'[m][r].dev = bus[m][r].dev
          /\ bus'[m][r].dev # NoDev => /\ bus'[m][r] = bus[m][r] /\ bus[m][r].dev \in Devs
                                       /\ bus[m][r].devid \in Ids
    BY <1>0, <1>1, PartTypes
  <2>2. \A m \in Threads, r \in Slots : bus'[m][r].dev # NoDev =>
          rem'[bus[m][r].dev][bus[m][r].devid] = rem[bus[m][r].dev][bus[m][r].devid]
    BY <1>2, <2>0, <2>1
  <2>3. \A m \in Threads, r \in Slots : bus'[m][r].dev # NoDev =>
          /\ rem'[bus'[m][r].dev][bus'[m][r].devid].use
          /\ rem'[bus'[m][r].dev][bus'[m][r].devid].th = m
    BY <1>0, <2>1, <2>2, SMTT(30) DEF SessionOK
  <2>4. \A u \in Threads : Pending(u)' /\ dst[k'[u].o] = "live" =>
          rem'[k'[u].o][k'[u].id].use /\ rem'[k'[u].o][k'[u].id].th = k'[u].n
    <3> SUFFICES ASSUME NEW u \in Threads, Pending(u)', dst[k'[u].o] = "live"
                 PROVE  rem'[k'[u].o][k'[u].id].use /\ rem'[k'[u].o][k'[u].id].th = k'[u].n
      OBVIOUS
    <3>1. CASE u = t
      BY <1>2, <1>3, <3>1
    <3>2. CASE u # t
      <4>1. Pending(u) /\ k'[u] = k[u] /\ k[u].o \in Devs /\ k[u].id \in Ids
        BY <1>0, <1>4, <3>2, PartTypes DEF ControlOK, Pending
      <4>2. rem'[k[u].o][k[u].id] = rem[k[u].o][k[u].id]
        BY <1>2, <2>0, <4>1
      <4>3. QED
        BY <1>0, <4>1, <4>2 DEF SessionOK
    <3>3. QED
      BY <3>1, <3>2
  <2>5. \A m, u \in Threads, r, q \in Slots :
          (bus'[m][r].dev # NoDev /\ bus'[m][r].dev = bus'[u][q].dev
             /\ bus'[m][r].devid = bus'[u][q].devid) => m = u /\ r = q
    BY <1>0, <2>1 DEF SessionOK
  <2>6. \A u, v \in Threads :
          (Pending(u)' /\ Pending(v)' /\ k'[u].o = k'[v].o /\ k'[u].id = k'[v].id) => u = v
    <3> SUFFICES ASSUME NEW u \in Threads, NEW v \in Threads, Pending(u)', Pending(v)',
                        k'[u].o = k'[v].o, k'[u].id = k'[v].id, u # v
                 PROVE  FALSE
      OBVIOUS
    <3>1. CASE u = t
      BY <1>3, <1>4, <2>0, <3>1
    <3>2. CASE v = t
      BY <1>3, <1>4, <2>0, <3>2
    <3>3. CASE u # t /\ v # t
      BY <1>0, <1>4, <3>3 DEF SessionOK
    <3>4. QED
      BY <3>1, <3>2, <3>3
  <2>7. \A m, u \in Threads, r \in Slots :
          Pending(u)' /\ bus'[m][r].dev = k'[u].o => bus'[m][r].devid # k'[u].id
    <3> SUFFICES ASSUME NEW m \in Threads, NEW u \in Threads, NEW r \in Slots,
                        Pending(u)', bus'[m][r].dev = k'[u].o
                 PROVE  bus'[m][r].devid # k'[u].id
      OBVIOUS
    <3>1. CASE u = t
      BY <1>0, <1>3, <2>0, <2>1, <3>1
    <3>2. CASE u # t
      <4>1. Pending(u) /\ k'[u] = k[u] /\ k[u].o \in Devs
        BY <1>0, <1>4, <3>2 DEF ControlOK, Pending
      <4>2. QED
        BY <1>0, <2>1, <4>1 DEF SessionOK
    <3>3. QED
      BY <3>1, <3>2
  <2>8. QED
    BY <1>2, <2>3, <2>4, <2>5, <2>6, <2>7 DEF SessionOK
<1>8. HeldOK'
  <2>1. ASSUME NEW p \in Devs, NEW j \in Ids, Held(p, j) PROVE Held(p, j)'
    <3>1. CASE \E u \in Threads : Pending(u) /\ k[u].o = p /\ k[u].id = j
      BY <1>3, <1>4, <3>1 DEF Held
    <3>2. ASSUME NEW u \in Threads, NEW r \in Slots, bus[u][r].dev = p, bus[u][r].devid = j
          PROVE  Held(p, j)'
      <4>1. bus'[u][r] = bus[u][r]
        BY <1>0, <1>1, <3>2
      <4>2. QED
        BY <3>2, <4>1 DEF Held
    <3>3. QED
      BY <2>1, <3>1, <3>2 DEF Held
  <2>2. Held(o, i)'
    BY <1>3 DEF Held
  <2>3. QED
    BY <1>0, <1>2, <2>1, <2>2 DEF HeldOK
<1>9. QED
  BY <1>5, <1>6, <1>7, <1>8

(* A session of a device that is being destroyed is taken, and the call    *)
(* fails: nothing refers to the session.                                   *)
Lose(t, o, i) ==
  /\ dst[o] = "live" /\ o \in detaching /\ ~rem[o][i].use
  /\ \A p \in Devs, j \in Ids : p # o \/ j # i => rem'[p][j] = rem[p][j]
  /\ UNCHANGED <<st, bus, dst, offline, detaching>>
  /\ ~Pending(t) /\ ~Pending(t)' /\ Others(t)
  /\ Forking(t)' => Forking(t) /\ k'[t].n = k[t].n /\ \A r \in Slots : r >= k'[t].s => r >= k[t].s
  /\ \A m \in Threads, r \in Slots : Gone(m, r)' => Gone(m, r)

LEMMA LoseSession ==
  ASSUME BusInv, NEW t \in Threads, NEW o \in Devs, NEW i \in Ids, Lose(t, o, i)
  PROVE  EntryOK' /\ PendingOK' /\ SessionOK' /\ HeldOK'
<1>0. /\ TypeOK /\ ControlOK /\ StageOK /\ EntryOK /\ PendingOK /\ SessionOK
      /\ HeldOK /\ NoDev \notin Devs
  BY Parts
<1>1. /\ dst[o] = "live" /\ o \in detaching /\ ~rem[o][i].use
      /\ \A p \in Devs, j \in Ids : p # o \/ j # i => rem'[p][j] = rem[p][j]
      /\ UNCHANGED <<st, bus, dst, offline, detaching>>
  BY DEF Lose
<1>2. /\ \A u \in Threads : /\ Pending(u)' <=> Pending(u)
                            /\ Pending(u) => k'[u] = k[u]
                            /\ Forking(u)' => Forking(u) /\ k'[u].n = k[u].n
                            /\ Forking(u)' => \A r \in Slots : r >= k'[u].s => r >= k[u].s
      /\ \A m \in Threads, r \in Slots : Gone(m, r)' => Gone(m, r)
  BY DEF Lose, Others, Pending, Forking
<1>3. EntryOK'
  BY <1>0, <1>1, <1>2 DEF EntryOK
<1>4. PendingOK'
  BY <1>0, <1>1, <1>2 DEF PendingOK
<1>5. /\ \A m \in Threads, r \in Slots : bus[m][r].dev # NoDev =>
           rem'[bus[m][r].dev][bus[m][r].devid] = rem[bus[m][r].dev][bus[m][r].devid]
      /\ \A u \in Threads : Pending(u) => rem'[k[u].o][k[u].id] = rem[k[u].o][k[u].id]
  <2>1. /\ \A m \in Threads, r \in Slots : bus[m][r].dev # NoDev =>
             bus[m][r].dev \in Devs /\ bus[m][r].devid \in Ids
        /\ \A u \in Threads : Pending(u) => k[u].o \in Devs /\ k[u].id \in Ids
    BY <1>0, PartTypes DEF ControlOK, Pending
  <2>2. /\ \A m \in Threads, r \in Slots : bus[m][r].dev = o => bus[m][r].devid # i
        /\ \A u \in Threads : Pending(u) /\ k[u].o = o => k[u].id # i
    BY <1>1, FreeSession
  <2>3. QED
    BY <1>1, <2>1, <2>2
<1>6. SessionOK'
  <2>1. \A m \in Threads, r \in Slots : bus[m][r].dev # NoDev =>
          /\ rem'[bus[m][r].dev][bus[m][r].devid].use
          /\ rem'[bus[m][r].dev][bus[m][r].devid].th = m
    BY <1>0, <1>5 DEF SessionOK
  <2>2. \A u \in Threads : Pending(u) /\ dst[k[u].o] = "live" =>
          rem'[k[u].o][k[u].id].use /\ rem'[k[u].o][k[u].id].th = k[u].n
    BY <1>0, <1>5 DEF SessionOK
  <2>3. QED
    BY <1>0, <1>1, <1>2, <2>1, <2>2 DEF SessionOK
<1>7. HeldOK'
  <2>1. \A p \in Devs, j \in Ids : Held(p, j) => Held(p, j)'
    BY <1>1, <1>2 DEF Held
  <2>2. QED
    BY <1>0, <1>1, <2>1 DEF HeldOK
<1>8. QED
  BY <1>3, <1>4, <1>6, <1>7

(* bus_plug opens the device.                                              *)
LEMMA OpenStep ==
  ASSUME BusInv, NEW t \in Threads, BusPlugOpen(t)
  PROVE  BusInv'
<1>0. /\ TypeOK /\ ControlOK /\ StageOK /\ EntryOK /\ PendingOK /\ SessionOK
      /\ HeldOK /\ NewOK /\ ListOK /\ ~damaged /\ NoDev \notin Devs
  BY Parts DEF BusPlugOpen, Is
<1>p. PICK o \in Devs : o = k[t].o
  BY <1>0 DEF BusPlugOpen, Is, ControlOK
<1>1. /\ k[t].pc = "plug" /\ dst[o] = "live" /\ o \notin offline /\ st[t] = "live"
      /\ UNCHANGED <<st, devvars, polling, known, damaged>>
  BY <1>0, <1>p DEF BusPlugOpen, Is, ControlOK
<1>2. PICK s \in FreeSlots(t), i \in FreeId(o) :
        /\ rem' = [rem EXCEPT ![o][i] = Session(o, i, t)]
        /\ Request(o, Ior("open", i, i))
        /\ IF o \in detaching
           THEN Goto(t, User(t)) /\ UNCHANGED <<bus, locked, busdevs>>
           ELSE /\ busdevs' = [busdevs EXCEPT ![o] = @ \cup {<<t, s>>}]
                /\ bus' = [bus EXCEPT ![t][s].plg = TRUE]
                /\ locked' = locked \cup {t}
                /\ Goto(t, At("mark", o, t, s, i, {}))
  BY <1>p DEF BusPlugOpen
<1>3. s \in Slots /\ i \in Ids /\ ~rem[o][i].use /\ bus[t][s].dev = NoDev
  BY FirstOf
<1>4. /\ rem' \in [Devs -> [Ids -> Sessions]] /\ rem'[o][i].use /\ rem'[o][i].th = t
      /\ \A p \in Devs, j \in Ids : p # o \/ j # i => rem'[p][j] = rem[p][j]
  BY <1>0, <1>2, <1>3, OpenTable
<1>5. /\ ioreqs' \in [Devs -> Seq(Iors)] /\ sigreq' \in [Devs -> BOOLEAN]
      /\ \A p \in Devs : p # o => ioreqs'[p] = ioreqs[p]
  BY <1>0, <1>2, <1>3, RequestTable
<1>6. NewOK'
  <2>1. \A p \in Devs : dst[p] = "none" =>
          p # o /\ ioreqs'[p] = ioreqs[p] /\ \A j \in Ids : rem'[p][j] = rem[p][j]
    BY <1>1, <1>4, <1>5
  <2>2. UNCHANGED <<dst, known>>
    BY <1>1 DEF devvars
  <2>3. QED
    BY <1>0, <2>1, <2>2 DEF NewOK
<1>7. CASE o \in detaching
  <2>1. Goto(t, User(t)) /\ UNCHANGED <<bus, locked, busdevs>>
    BY <1>2, <1>7
  <2>2. Others(t) /\ k'[t].pc = "user" /\ k' \in [Threads -> ContType]
    BY <1>0, <2>1, GotoTable, AtTypes DEF Others
  <2>3. TypeOK'
    BY <1>0, <1>1, <1>4, <1>5, <2>1, <2>2 DEF TypeOK, ContType, devvars
  <2>4. \A u \in Threads : /\ Pending(u)' <=> Pending(u)
                           /\ Destroying(u)' <=> Destroying(u)
                           /\ Forking(u)' <=> Forking(u)
                           /\ Pending(u) \/ Forking(u) \/ Destroying(u) => u # t /\ k'[u] = k[u]
                           /\ u # t => k'[u] = k[u]
                           /\ \A r \in Slots : Gone(u, r)' => Gone(u, r)
    BY <1>1, <2>2 DEF Pending, Destroying, Forking, Others, Gone
  <2>5. ControlOK'
    BY <1>0, <1>1, <2>2, <2>4 DEF ControlOK, devvars, Others
  <2>6. StageOK'
    BY <1>0, <1>1, <2>1, <2>4, PartTypes DEF StageOK, devvars
  <2>7. EntryOK' /\ PendingOK' /\ SessionOK' /\ HeldOK'
    <3>1. UNCHANGED <<st, bus, dst, offline, detaching>>
      BY <1>1, <2>1 DEF devvars
    <3>2. ~Pending(t) /\ ~Pending(t)' /\ ~Forking(t)'
      BY <1>1, <2>2 DEF Pending, Forking
    <3>3. Lose(t, o, i)
      BY <1>1, <1>3, <1>4, <1>7, <2>2, <2>4, <3>1, <3>2 DEF Lose
    <3>4. QED
      BY <1>3, <3>3, LoseSession
  <2>8. ListOK'
    <3>1. \A m \in Threads, r \in Slots, p \in Devs : Linked(m, r, p)' <=> Linked(m, r, p)
      BY <1>1, <2>1, <2>2 DEF Linked, Marking, Others
    <3>2. \A p \in Devs : dst[p] = "live" => ListOf(p)' = ListOf(p)
      BY <1>1, <2>1, <2>2, SameLists DEF Destroying, devvars
    <3>3. \A u \in Threads : k'[u].pc = "sever" => k'[u] = k[u] /\ k[u].o \in Devs
      BY <2>4, LinkedLive DEF Destroying
    <3>4. QED
      BY <1>0, <2>1, <3>1, <3>2, <3>3, LinkedLive DEF ListOK
  <2>9. QED
    BY <1>6, <2>3, <2>5, <2>6, <2>7, <2>8 DEF BusInv, StructInv
<1>8. CASE o \notin detaching
  <2>1. /\ busdevs' = [busdevs EXCEPT ![o] = @ \cup {<<t, s>>}]
        /\ bus' = [bus EXCEPT ![t][s] = [bus[t][s] EXCEPT !.plg = TRUE]]
        /\ locked' = locked \cup {t}
        /\ Goto(t, At("mark", o, t, s, i, {}))
    BY <1>2, <1>8
  <2>2. /\ Others(t) /\ k' \in [Threads -> ContType] /\ k'[t].pc = "mark" /\ k'[t].o = o
        /\ k'[t].n = t /\ k'[t].s = s /\ k'[t].id = i
    <3>1. At("mark", o, t, s, i, {}) \in ContType
      BY <1>3, AtTypes DEF Steps
    <3>2. QED
      BY <1>0, <2>1, <3>1, GotoTable, AtFields DEF Others
  <2>3. /\ bus' \in [Threads -> [Slots -> Entries]]
        /\ bus'[t][s].dev = NoDev /\ bus'[t][s].plg /\ bus'[t][s].bus = bus[t][s].bus
        /\ \A m \in Threads, r \in Slots : m # t \/ r # s => bus'[m][r] = bus[m][r]
    <3>1. bus[t][s] \in Entries
      BY <1>0, <1>3, PartTypes
    <3>2. PICK e \in Entries : e = [bus[t][s] EXCEPT !.plg = TRUE]
      BY <3>1 DEF Entries
    <3>3. e.dev = NoDev /\ e.plg /\ e.bus = bus[t][s].bus
      BY <1>3, <3>1, <3>2 DEF Entries
    <3>4. bus' = [bus EXCEPT ![t][s] = e]
      BY <2>1, <3>2
    <3>5. /\ bus' \in [Threads -> [Slots -> Entries]] /\ bus'[t][s] = e
          /\ \A m \in Threads, r \in Slots : m # t \/ r # s => bus'[m][r] = bus[m][r]
      BY <1>0, <1>3, <3>4, EntryTable, ZenonT(30)
    <3>6. QED
      BY <3>3, <3>5
  <2>4. /\ busdevs' \in [Devs -> SUBSET (Threads \X Slots)]
        /\ busdevs'[o] = busdevs[o] \cup {<<t, s>>}
        /\ \A p \in Devs : p # o => busdevs'[p] = busdevs[p]
    BY <1>0, <1>3, <2>1 DEF TypeOK
  <2>5. TypeOK'
    BY <1>0, <1>1, <1>4, <1>5, <2>1, <2>2, <2>3, <2>4 DEF TypeOK, ContType, devvars
  <2>6. \A u \in Threads : /\ Pending(u)' <=> (Pending(u) \/ u = t)
                           /\ Destroying(u)' <=> Destroying(u)
                           /\ Forking(u)' <=> Forking(u)
                           /\ Pending(u) \/ Forking(u) \/ Destroying(u) => u # t /\ k'[u] = k[u]
                           /\ u # t => k'[u] = k[u]
                           /\ \A r \in Slots : Gone(u, r)' => Gone(u, r)
    BY <1>1, <2>2 DEF Pending, Destroying, Forking, Others, Gone
  <2>7. ControlOK'
    BY <1>0, <1>1, <1>3, <2>2, <2>6 DEF ControlOK, devvars, Others
  <2>8. StageOK'
    BY <1>0, <1>1, <2>4, <2>6, PartTypes DEF StageOK, devvars
  <2>9. EntryOK' /\ PendingOK' /\ SessionOK' /\ HeldOK'
    <3>1. UNCHANGED <<st, dst, offline, detaching>>
      BY <1>1 DEF devvars
    <3>2. ~Pending(t) /\ Pending(t)' /\ ~Forking(t)'
      BY <1>1, <2>2 DEF Pending, Forking
    <3>3. \A u \in Threads : u # t /\ (Pending(u) \/ Forking(u)) => k[u].n # t
      BY <1>0, <1>1, NoFilling DEF ControlOK
    <3>4. Fill(t, t, s, o, i)
      BY <1>1, <1>3, <1>4, <2>2, <2>3, <2>6, <3>1, <3>2, <3>3 DEF Fill
    <3>5. QED
      BY <1>3, <3>4, FillEntry
  <2>10. ListOK'
    <3>1. \A m \in Threads, r \in Slots, p \in Devs :
            Linked(m, r, p)' <=> Linked(m, r, p) \/ (m = t /\ r = s /\ p = o)
      <4>1. \A m \in Threads, r \in Slots : bus'[m][r].dev = bus[m][r].dev
        BY <1>3, <2>3
      <4>2. \A m \in Threads, r \in Slots, p \in Devs :
              Marking(m, r, p)' <=> Marking(m, r, p) \/ (m = t /\ r = s /\ p = o)
        BY <1>1, <2>2 DEF Marking, Others
      <4>3. QED
        BY <4>1, <4>2 DEF Linked
    <3>2. \A p \in Devs : p # o /\ dst[p] = "live" => ListOf(p)' = ListOf(p)
      BY <1>0, <1>1, <2>4, <2>6, PartTypes DEF ListOf, devvars, StageOK
    <3>3. ListOf(o)' = ListOf(o) \cup {<<t, s>>}
      BY <1>1, <2>4 DEF ListOf, devvars
    <3>4. \A m \in Threads, r \in Slots, p \in Devs : Linked(m, r, p)' => <<m, r>> \in ListOf(p)'
      <4> SUFFICES ASSUME NEW m \in Threads, NEW r \in Slots, NEW p \in Devs, Linked(m, r, p)'
                   PROVE  <<m, r>> \in ListOf(p)'
        OBVIOUS
      <4>1. CASE m = t /\ r = s /\ p = o
        BY <3>3, <4>1
      <4>2. CASE Linked(m, r, p)
        <5>1. dst[p] = "live" /\ <<m, r>> \in ListOf(p)
          BY <1>0, <4>2, LinkedLive DEF ListOK
        <5>2. QED
          BY <3>2, <3>3, <5>1
      <4>3. QED
        BY <3>1, <4>1, <4>2
    <3>5. \A p \in Devs, m \in Threads, r \in Slots : <<m, r>> \in busdevs'[p] => Linked(m, r, p)'
      BY <1>0, <2>4, <3>1 DEF ListOK
    <3>6. \A u \in Threads : k'[u].pc = "sever" => k'[u] = k[u] /\ k[u].o \in Devs
      BY <2>2, <2>6, LinkedLive DEF Destroying
    <3>7. QED
      BY <1>0, <3>1, <3>4, <3>5, <3>6 DEF ListOK
  <2>11. QED
    BY <1>6, <2>5, <2>7, <2>8, <2>9, <2>10 DEF BusInv, StructInv
<1>9. QED
  BY <1>7, <1>8

(* bus_copy clones a session of the parent for the new thread.             *)
LEMMA CloneStep ==
  ASSUME BusInv, NEW t \in Threads, BusCopyClone(t)
  PROVE  BusInv'
<1>0. /\ TypeOK /\ ControlOK /\ StageOK /\ EntryOK /\ PendingOK /\ SessionOK
      /\ HeldOK /\ NewOK /\ ListOK /\ ~damaged /\ NoDev \notin Devs
  BY Parts DEF BusCopyClone, Is
<1>a. /\ k[t].pc = "copy" /\ st[t] = "live" /\ CanClone(t, k[t].s)
      /\ UNCHANGED <<st, locked, devvars, busdevs, polling, known, damaged>>
  BY <1>0 DEF BusCopyClone, Is, ControlOK
<1>b. PICK s \in Slots : s = k[t].s
  BY DEF BusCopyClone
<1>c. PICK n \in Threads : n = k[t].n
  BY <1>0, PartTypes
<1>d. PICK o \in Devs : o = bus[t][s].dev
  BY <1>a, <1>b, OwnEntry DEF CanClone
<1>e. PICK id \in Ids : id = bus[t][s].devid
  BY <1>0, PartTypes
<1>1. /\ dst[o] = "live" /\ o \notin offline /\ Forking(t) /\ st[n] = "embryo" /\ n # t
      /\ bus[n][s].dev = NoDev
  <2>1. dst[o] = "live" /\ o \notin offline
    BY <1>a, <1>b, <1>d, OwnEntry DEF CanClone
  <2>2. Forking(t) /\ st[n] = "embryo" /\ n # t
    BY <1>0, <1>a, <1>c DEF Forking, ControlOK
  <2>3. s >= s
    BY DEF Slots
  <2>4. bus[n][s].dev = NoDev
    BY <1>0, <1>b, <1>c, <2>2, <2>3 DEF PendingOK
  <2>5. QED
    BY <2>1, <2>2, <2>4
<1>2. PICK i \in FreeId(o) :
        /\ rem' = [rem EXCEPT ![o][i] = Session(o, i, n)]
        /\ Request(o, Ior("clone", id, i))
        /\ IF o \in detaching
           THEN /\ Goto(t, At("copy", NoDev, n, s + 1, 0, {}))
                /\ UNCHANGED bus
           ELSE /\ Goto(t, At("link", o, n, s, i, {}))
                /\ bus' = [bus EXCEPT ![n][s].plg = TRUE]
  BY <1>b, <1>c, <1>d, <1>e DEF BusCopyClone, Cloned
<1>3. i \in Ids /\ ~rem[o][i].use
  BY FirstOf
<1>4. /\ rem' \in [Devs -> [Ids -> Sessions]] /\ rem'[o][i].use /\ rem'[o][i].th = n
      /\ \A p \in Devs, j \in Ids : p # o \/ j # i => rem'[p][j] = rem[p][j]
  BY <1>0, <1>2, <1>3, OpenTable
<1>5. /\ ioreqs' \in [Devs -> Seq(Iors)] /\ sigreq' \in [Devs -> BOOLEAN]
      /\ \A p \in Devs : p # o => ioreqs'[p] = ioreqs[p]
  BY <1>0, <1>2, <1>3, RequestTable
<1>6. NewOK'
  <2>1. \A p \in Devs : dst[p] = "none" =>
          p # o /\ ioreqs'[p] = ioreqs[p] /\ \A j \in Ids : rem'[p][j] = rem[p][j]
    BY <1>1, <1>4, <1>5
  <2>2. UNCHANGED <<dst, known>>
    BY <1>a DEF devvars
  <2>3. QED
    BY <1>0, <2>1, <2>2 DEF NewOK
<1>7. CASE o \in detaching
  <2>1. Goto(t, At("copy", NoDev, n, s + 1, 0, {})) /\ UNCHANGED bus
    BY <1>2, <1>7
  <2>2. /\ Others(t) /\ k' \in [Threads -> ContType] /\ k'[t].pc = "copy"
        /\ k'[t].n = n /\ k'[t].s = s + 1
    <3>1. At("copy", NoDev, n, s + 1, 0, {}) \in ContType
      BY AtTypes DEF Steps
    <3>2. QED
      BY <1>0, <2>1, <3>1, GotoTable, AtFields DEF Others
  <2>3. TypeOK'
    BY <1>0, <1>a, <1>4, <1>5, <2>1, <2>2 DEF TypeOK, ContType, devvars
  <2>4. \A u \in Threads : /\ Pending(u)' <=> Pending(u)
                           /\ Destroying(u)' <=> Destroying(u)
                           /\ Forking(u)' <=> Forking(u)
                           /\ Pending(u) \/ Destroying(u) => u # t /\ k'[u] = k[u]
                           /\ u # t => k'[u] = k[u]
                           /\ k'[u].pc = k[u].pc /\ k'[u].n = k[u].n
                           /\ \A r \in Slots : Gone(u, r)' => Gone(u, r)
    BY <1>a, <1>c, <2>2 DEF Pending, Destroying, Forking, Others, Gone
  <2>5. ControlOK'
    BY <1>0, <1>a, <2>2, <2>4 DEF ControlOK, devvars, Pending, Destroying
  <2>6. StageOK'
    BY <1>0, <1>a, <2>1, <2>4, PartTypes DEF StageOK, devvars
  <2>7. EntryOK' /\ PendingOK' /\ SessionOK' /\ HeldOK'
    <3>1. UNCHANGED <<st, bus, dst, offline, detaching>>
      BY <1>a, <2>1 DEF devvars
    <3>2. ~Pending(t) /\ ~Pending(t)'
      BY <1>a, <2>2 DEF Pending
    <3>3. \A r \in Slots : r >= s + 1 => r >= s
      BY DEF Slots
    <3>4. Lose(t, o, i)
      BY <1>1, <1>3, <1>4, <1>7, <1>b, <1>c, <2>2, <2>4, <3>1, <3>2, <3>3 DEF Lose
    <3>5. QED
      BY <1>3, <3>4, LoseSession
  <2>8. ListOK'
    <3>1. \A m \in Threads, r \in Slots, p \in Devs : Linked(m, r, p)' <=> Linked(m, r, p)
      BY <1>a, <2>1, <2>2 DEF Linked, Marking, Others
    <3>2. \A p \in Devs : dst[p] = "live" => ListOf(p)' = ListOf(p)
      BY <1>a, <2>1, <2>2, SameLists DEF Destroying, devvars
    <3>3. \A u \in Threads : k'[u].pc = "sever" => k'[u] = k[u] /\ k[u].o \in Devs
      BY <2>4, LinkedLive DEF Destroying
    <3>4. QED
      BY <1>0, <1>a, <3>1, <3>2, <3>3, LinkedLive DEF ListOK
  <2>9. QED
    BY <1>6, <2>3, <2>5, <2>6, <2>7, <2>8 DEF BusInv, StructInv
<1>8. CASE o \notin detaching
  <2>1. /\ Goto(t, At("link", o, n, s, i, {}))
        /\ bus' = [bus EXCEPT ![n][s] = [bus[n][s] EXCEPT !.plg = TRUE]]
    BY <1>2, <1>8
  <2>2. /\ Others(t) /\ k' \in [Threads -> ContType] /\ k'[t].pc = "link" /\ k'[t].o = o
        /\ k'[t].n = n /\ k'[t].s = s /\ k'[t].id = i
    <3>1. At("link", o, n, s, i, {}) \in ContType
      BY <1>3, AtTypes DEF Steps
    <3>2. QED
      BY <1>0, <2>1, <3>1, GotoTable, AtFields DEF Others
  <2>3. /\ bus' \in [Threads -> [Slots -> Entries]]
        /\ bus'[n][s].dev = NoDev /\ bus'[n][s].plg /\ bus'[n][s].bus = bus[n][s].bus
        /\ \A m \in Threads, r \in Slots : m # n \/ r # s => bus'[m][r] = bus[m][r]
    <3>1. bus[n][s] \in Entries
      BY <1>0, PartTypes
    <3>2. PICK e \in Entries : e = [bus[n][s] EXCEPT !.plg = TRUE]
      BY <3>1 DEF Entries
    <3>3. e.dev = NoDev /\ e.plg /\ e.bus = bus[n][s].bus
      BY <1>1, <3>1, <3>2 DEF Entries
    <3>4. bus' = [bus EXCEPT ![n][s] = e]
      BY <2>1, <3>2
    <3>5. /\ bus' \in [Threads -> [Slots -> Entries]] /\ bus'[n][s] = e
          /\ \A m \in Threads, r \in Slots : m # n \/ r # s => bus'[m][r] = bus[m][r]
      BY <1>0, <3>4, EntryTable, ZenonT(30)
    <3>6. QED
      BY <3>3, <3>5
  <2>4. TypeOK'
    BY <1>0, <1>a, <1>4, <1>5, <2>1, <2>2, <2>3 DEF TypeOK, ContType, devvars
  <2>5. \A u \in Threads : /\ Pending(u)' <=> (Pending(u) \/ u = t)
                           /\ Destroying(u)' <=> Destroying(u)
                           /\ Forking(u)' <=> Forking(u)
                           /\ Pending(u) \/ Destroying(u) => u # t /\ k'[u] = k[u]
                           /\ u # t => k'[u] = k[u]
                           /\ k'[u].n = k[u].n
                           /\ \A r \in Slots : Gone(u, r)' => Gone(u, r)
    BY <1>a, <1>c, <2>2 DEF Pending, Destroying, Forking, Others, Gone
  <2>6. ControlOK'
    <3>1. \A u \in Threads : u # t =>
            /\ k'[u].pc # "user" => st[u] = "live"
            /\ k'[u].pc \in {"plug", "mark", "link"} => k'[u].o \in Devs /\ dst[k'[u].o] # "none"
            /\ k'[u].pc = "mark" => dst[k'[u].o] = "live"
            /\ k'[u].pc \in {"mark", "link", "unplug"} => k'[u].s \in Slots
      BY <1>0, <2>5 DEF ControlOK
    <3>2. \A u \in Threads : /\ Forking(u)' => st[k'[u].n] = "embryo"
                             /\ Destroying(u)' => /\ k'[u].o \in detaching
                                                  /\ dst[k'[u].o] = "live" /\ owner[k'[u].o] = u
      BY <1>0, <2>5 DEF ControlOK
    <3>3. \A u, v \in Threads : Forking(u)' /\ Forking(v)' /\ u # v => k'[u].n # k'[v].n
      BY <1>0, <2>5 DEF ControlOK
    <3>4. QED
      BY <1>1, <1>a, <2>2, <3>1, <3>2, <3>3 DEF ControlOK, devvars
  <2>7. StageOK'
    BY <1>0, <1>a, <2>5, PartTypes DEF StageOK, devvars
  <2>8. EntryOK' /\ PendingOK' /\ SessionOK' /\ HeldOK'
    <3>1. UNCHANGED <<st, dst, offline, detaching>>
      BY <1>a DEF devvars
    <3>2. ~Pending(t) /\ Pending(t)'
      BY <1>a, <2>2 DEF Pending
    <3>3. \A u \in Threads : u # t /\ (Pending(u) \/ Forking(u)) => k[u].n # n
      BY <1>1, <1>c, OneFiller
    <3>4. Fill(t, n, s, o, i)
      BY <1>1, <1>3, <1>4, <1>b, <1>c, <2>2, <2>3, <2>5, <3>1, <3>2, <3>3 DEF Fill
    <3>5. QED
      BY <1>3, <3>4, FillEntry
  <2>9. ListOK'
    <3>1. \A m \in Threads, r \in Slots, p \in Devs : Linked(m, r, p)' <=> Linked(m, r, p)
      <4>1. \A m \in Threads, r \in Slots : bus'[m][r].dev = bus[m][r].dev
        BY <1>1, <2>3
      <4>2. \A m \in Threads, r \in Slots, p \in Devs : Marking(m, r, p)' <=> Marking(m, r, p)
        BY <1>a, <2>2 DEF Marking, Others
      <4>3. QED
        BY <4>1, <4>2 DEF Linked
    <3>2. \A p \in Devs : dst[p] = "live" => ListOf(p)' = ListOf(p)
      BY <1>a, <2>2, SameLists DEF Destroying, devvars
    <3>3. \A u \in Threads : k'[u].pc = "sever" => k'[u] = k[u] /\ k[u].o \in Devs
      BY <2>2, <2>5, LinkedLive DEF Destroying
    <3>4. QED
      BY <1>0, <1>a, <3>1, <3>2, <3>3, LinkedLive DEF ListOK
  <2>10. QED
    BY <1>6, <2>4, <2>6, <2>7, <2>8, <2>9 DEF BusInv, StructInv
<1>9. QED
  BY <1>7, <1>8

(* The second half of bus_copy: the entry of the new thread is linked, or  *)
(* given up when the device went offline.                                  *)
LEMMA LinkStep ==
  ASSUME BusInv, NEW t \in Threads, BusCopyLink(t)
  PROVE  BusInv'
<1>0. /\ TypeOK /\ ControlOK /\ StageOK /\ EntryOK /\ PendingOK /\ SessionOK
      /\ HeldOK /\ NewOK /\ ListOK /\ ~damaged /\ NoDev \notin Devs
  BY Parts DEF BusCopyLink, Is
<1>a. /\ k[t].pc = "link" /\ st[t] = "live" /\ Pending(t) /\ Forking(t)
      /\ UNCHANGED <<st, devvars, usrvars, polling, known, damaged>>
  BY <1>0 DEF BusCopyLink, Is, ControlOK, Pending, Forking
<1>b. PICK s \in Slots : s = k[t].s
  BY <1>0, <1>a DEF ControlOK
<1>c. PICK n \in Threads : n = k[t].n
  BY <1>0, PartTypes
<1>d. PICK o \in Devs : o = k[t].o
  BY <1>0, <1>a DEF ControlOK
<1>e. PICK i \in Ids : i = k[t].id
  BY <1>0, PartTypes
<1>1. /\ dst[o] = "live" /\ st[n] = "embryo" /\ n # t /\ bus[n][s].dev = NoDev
      /\ \A u \in Threads : u # t /\ (Pending(u) \/ Forking(u)) => k[u].n # n
  <2>1. dst[o] = "live" /\ st[n] = "embryo" /\ n # t /\ bus[n][s].dev = NoDev
    BY <1>0, <1>a, <1>b, <1>c, <1>d DEF BusCopyLink, ControlOK, PendingOK
  <2>2. \A u \in Threads : u # t /\ (Pending(u) \/ Forking(u)) => k[u].n # n
    BY <1>a, <1>c, OneFiller
  <2>3. QED
    BY <2>1, <2>2
<1>2. CASE o \in offline
  <2>1. /\ bus' = [bus EXCEPT ![n][s] = [bus[n][s] EXCEPT !.plg = FALSE]]
        /\ Goto(t, At("copy", NoDev, n, s + 1, 0, {}))
        /\ UNCHANGED <<busdevs, locked>>
    BY <1>2, <1>b, <1>c, <1>d DEF BusCopyLink
  <2>2. /\ Others(t) /\ k' \in [Threads -> ContType] /\ k'[t].pc = "copy"
        /\ k'[t].n = n /\ k'[t].s = s + 1
    <3>1. At("copy", NoDev, n, s + 1, 0, {}) \in ContType
      BY AtTypes DEF Steps
    <3>2. QED
      BY <1>0, <2>1, <3>1, GotoTable, AtFields DEF Others
  <2>3. /\ bus' \in [Threads -> [Slots -> Entries]]
        /\ bus'[n][s].dev = NoDev /\ ~bus'[n][s].plg /\ bus'[n][s].bus = bus[n][s].bus
        /\ \A m \in Threads, r \in Slots : m # n \/ r # s => bus'[m][r] = bus[m][r]
    <3>1. bus[n][s] \in Entries
      BY <1>0, PartTypes
    <3>2. PICK e \in Entries : e = [bus[n][s] EXCEPT !.plg = FALSE]
      BY <3>1 DEF Entries
    <3>3. e.dev = NoDev /\ ~e.plg /\ e.bus = bus[n][s].bus
      BY <1>1, <3>1, <3>2 DEF Entries
    <3>4. bus' = [bus EXCEPT ![n][s] = e]
      BY <2>1, <3>2
    <3>5. /\ bus' \in [Threads -> [Slots -> Entries]] /\ bus'[n][s] = e
          /\ \A m \in Threads, r \in Slots : m # n \/ r # s => bus'[m][r] = bus[m][r]
      BY <1>0, <3>4, EntryTable, ZenonT(30)
    <3>6. QED
      BY <3>3, <3>5
  <2>4. TypeOK'
    BY <1>0, <1>a, <2>1, <2>2, <2>3 DEF TypeOK, ContType, devvars, usrvars
  <2>5. \A u \in Threads : /\ Pending(u)' <=> (Pending(u) /\ u # t)
                           /\ Destroying(u)' <=> Destroying(u)
                           /\ Forking(u)' <=> Forking(u)
                           /\ Destroying(u) => u # t
                           /\ u # t => k'[u] = k[u]
                           /\ k'[u].n = k[u].n
                           /\ \A r \in Slots : Gone(u, r)' => Gone(u, r)
    BY <1>a, <1>c, <2>2 DEF Pending, Destroying, Forking, Others, Gone
  <2>6. ControlOK'
    <3>1. \A u \in Threads : u # t =>
            /\ k'[u].pc # "user" => st[u] = "live"
            /\ k'[u].pc \in {"plug", "mark", "link"} => k'[u].o \in Devs /\ dst[k'[u].o] # "none"
            /\ k'[u].pc = "mark" => dst[k'[u].o] = "live"
            /\ k'[u].pc \in {"mark", "link", "unplug"} => k'[u].s \in Slots
      BY <1>0, <2>5 DEF ControlOK
    <3>2. \A u \in Threads : /\ Forking(u)' => st[k'[u].n] = "embryo"
                             /\ Destroying(u)' => /\ k'[u].o \in detaching
                                                  /\ dst[k'[u].o] = "live" /\ owner[k'[u].o] = u
      BY <1>0, <2>5 DEF ControlOK
    <3>3. \A u, v \in Threads : Forking(u)' /\ Forking(v)' /\ u # v => k'[u].n # k'[v].n
      BY <1>0, <2>5 DEF ControlOK
    <3>4. QED
      BY <1>1, <1>a, <2>2, <3>1, <3>2, <3>3 DEF ControlOK, devvars
  <2>7. StageOK'
    BY <1>0, <1>a, <2>1, <2>5, PartTypes DEF StageOK, devvars
  <2>8. EntryOK'
    <3> SUFFICES ASSUME NEW m \in Threads, NEW r \in Slots
                 PROVE  /\ bus'[m][r].dev # NoDev =>
                             bus'[m][r].plg /\ dst[bus'[m][r].dev] = "live"
                        /\ bus'[m][r].bus => bus'[m][r].dev # NoDev
                        /\ bus'[m][r].plg /\ bus'[m][r].dev = NoDev =>
                             \E u \in Threads : Pending(u)' /\ k'[u].n = m /\ k'[u].s = r
                        /\ st[m] = "free" => bus'[m][r].dev = NoDev
                        /\ st[m] = "zombie" \/ Gone(m, r)' =>
                             bus'[m][r].dev \in offline \cup {NoDev}
      BY <1>a DEF EntryOK, devvars
    <3>1. CASE m = n /\ r = s
      <4>1. ~bus'[n][s].bus
        BY <1>0, <1>1, <2>3 DEF EntryOK
      <4>2. QED
        BY <2>3, <3>1, <4>1
    <3>2. CASE m # n \/ r # s
      <4>1. bus'[m][r] = bus[m][r] /\ (Gone(m, r)' => Gone(m, r))
        BY <2>3, <2>5, <3>2
      <4>2. (\E u \in Threads : Pending(u) /\ k[u].n = m /\ k[u].s = r)
              => \E u \in Threads : Pending(u)' /\ k'[u].n = m /\ k'[u].s = r
        BY <1>b, <1>c, <2>5, <3>2
      <4>3. QED
        BY <1>0, <4>1, <4>2 DEF EntryOK
    <3>3. QED
      BY <3>1, <3>2
  <2>9. PendingOK'
    <3>1. ASSUME NEW u \in Threads, Pending(u)'
          PROVE  bus'[k'[u].n][k'[u].s].plg /\ bus'[k'[u].n][k'[u].s].dev = NoDev
      <4>1. Pending(u) /\ k'[u] = k[u] /\ k[u].n # n /\ k[u].n \in Threads /\ k[u].s \in Slots
        BY <1>0, <1>1, <2>5, <3>1, PartTypes DEF ControlOK, Pending
      <4>2. QED
        BY <1>0, <2>3, <4>1 DEF PendingOK
    <3>2. ASSUME NEW u \in Threads, Forking(u)', NEW r \in Slots, r >= k'[u].s
          PROVE  bus'[k'[u].n][r].dev = NoDev
      <4>1. Forking(u) /\ k'[u].n = k[u].n /\ k[u].n \in Threads
        BY <1>0, <2>5, <3>2, PartTypes
      <4>2. r >= s + 1 => r >= s
        BY DEF Slots
      <4>3. r >= k[u].s
        BY <1>b, <2>2, <2>5, <3>2, <4>2
      <4>4. bus[k[u].n][r].dev = NoDev
        BY <1>0, <4>1, <4>3 DEF PendingOK
      <4>5. QED
        BY <2>3, <4>1, <4>4
    <3>3. QED
      BY <3>1, <3>2 DEF PendingOK
  <2>10. \A m \in Threads, r \in Slots :
           /\ bus'[m][r].dev = bus[m][r].dev
           /\ bus'[m][r].dev # NoDev => bus'[m][r] = bus[m][r]
    BY <1>1, <2>3
  <2>11. SessionOK'
    <3>1. UNCHANGED <<dst, rem>>
      BY <1>a DEF devvars, usrvars
    <3>2. \A u \in Threads : Pending(u)' => Pending(u) /\ k'[u] = k[u] /\ k[u].o # NoDev
      BY <1>0, <2>5 DEF ControlOK, Pending
    <3>3. \A m \in Threads, r \in Slots : bus'[m][r].dev # NoDev =>
            /\ rem[bus'[m][r].dev][bus'[m][r].devid].use
            /\ rem[bus'[m][r].dev][bus'[m][r].devid].th = m
      BY <1>0, <2>10 DEF SessionOK
    <3>4. \A m, u \in Threads, r, q \in Slots :
            (bus'[m][r].dev # NoDev /\ bus'[m][r].dev = bus'[u][q].dev
               /\ bus'[m][r].devid = bus'[u][q].devid) => m = u /\ r = q
      BY <1>0, <2>10 DEF SessionOK
    <3>5. \A m, u \in Threads, r \in Slots :
            Pending(u)' /\ bus'[m][r].dev = k'[u].o => bus'[m][r].devid # k'[u].id
      BY <1>0, <2>10, <3>2 DEF SessionOK
    <3>6. /\ \A u \in Threads : Pending(u)' /\ dst[k'[u].o] = "live" =>
               rem[k'[u].o][k'[u].id].use /\ rem[k'[u].o][k'[u].id].th = k'[u].n
          /\ \A u, v \in Threads :
               (Pending(u)' /\ Pending(v)' /\ k'[u].o = k'[v].o /\ k'[u].id = k'[v].id) => u = v
      BY <1>0, <3>2 DEF SessionOK
    <3>7. QED
      BY <3>1, <3>3, <3>4, <3>5, <3>6 DEF SessionOK
  <2>12. HeldOK'
    <3>1. ASSUME NEW p \in Devs, NEW j \in Ids, Held(p, j), p \notin detaching
          PROVE  Held(p, j)'
      <4>1. CASE \E u \in Threads : Pending(u) /\ k[u].o = p /\ k[u].id = j
        <5>1. PICK u \in Threads : Pending(u) /\ k[u].o = p /\ k[u].id = j
          BY <4>1
        <5>2. u # t
          BY <1>0, <1>2, <1>d, <3>1, <5>1 DEF StageOK
        <5>3. QED
          BY <2>5, <5>1, <5>2 DEF Held
      <4>2. ASSUME NEW u \in Threads, NEW r \in Slots, bus[u][r].dev = p, bus[u][r].devid = j
            PROVE  Held(p, j)'
        <5>1. bus'[u][r] = bus[u][r]
          BY <1>0, <2>10, <4>2
        <5>2. QED
          BY <4>2, <5>1 DEF Held
      <4>3. QED
        BY <3>1, <4>1, <4>2 DEF Held
    <3>2. QED
      BY <1>0, <1>a, <3>1 DEF HeldOK, devvars, usrvars
  <2>13. NewOK'
    BY <1>0, <1>a DEF NewOK, devvars, usrvars
  <2>14. ListOK'
    <3>1. \A m \in Threads, r \in Slots, p \in Devs : Linked(m, r, p)' <=> Linked(m, r, p)
      <4>1. \A m \in Threads, r \in Slots, p \in Devs : Marking(m, r, p)' <=> Marking(m, r, p)
        BY <1>a, <2>2 DEF Marking, Others
      <4>2. QED
        BY <2>10, <4>1 DEF Linked
    <3>2. \A p \in Devs : dst[p] = "live" => ListOf(p)' = ListOf(p)
      BY <1>a, <2>1, <2>2, SameLists DEF Destroying, devvars
    <3>3. \A u \in Threads : k'[u].pc = "sever" => k'[u] = k[u] /\ k[u].o \in Devs
      BY <2>2, <2>5, LinkedLive DEF Destroying
    <3>4. QED
      BY <1>0, <2>1, <3>1, <3>2, <3>3, LinkedLive DEF ListOK
  <2>15. QED
    BY <2>4, <2>6, <2>7, <2>8, <2>9, <2>11, <2>12, <2>13, <2>14 DEF BusInv, StructInv
<1>3. CASE o \notin offline
  <2>1. /\ busdevs' = [busdevs EXCEPT ![o] = @ \cup {<<n, s>>}]
        /\ locked' = locked \cup {n}
        /\ Goto(t, At("mark", o, n, s, i, {}))
        /\ UNCHANGED bus
    BY <1>3, <1>b, <1>c, <1>d, <1>e DEF BusCopyLink
  <2>2. /\ Others(t) /\ k' \in [Threads -> ContType] /\ k'[t].pc = "mark" /\ k'[t].o = o
        /\ k'[t].n = n /\ k'[t].s = s /\ k'[t].id = i
    <3>1. At("mark", o, n, s, i, {}) \in ContType
      BY AtTypes DEF Steps
    <3>2. QED
      BY <1>0, <2>1, <3>1, GotoTable, AtFields DEF Others
  <2>3. /\ busdevs' \in [Devs -> SUBSET (Threads \X Slots)]
        /\ busdevs'[o] = busdevs[o] \cup {<<n, s>>}
        /\ \A p \in Devs : p # o => busdevs'[p] = busdevs[p]
    BY <1>0, <2>1 DEF TypeOK
  <2>4. TypeOK'
    BY <1>0, <1>a, <2>1, <2>2, <2>3 DEF TypeOK, ContType, devvars, usrvars
  <2>5. \A u \in Threads : /\ Pending(u)' <=> Pending(u)
                           /\ Destroying(u)' <=> Destroying(u)
                           /\ Forking(u)' <=> Forking(u)
                           /\ Destroying(u) => u # t
                           /\ u # t => k'[u] = k[u]
                           /\ k'[u].n = k[u].n /\ k'[u].s = k[u].s
                           /\ k'[u].o = k[u].o /\ k'[u].id = k[u].id
                           /\ \A r \in Slots : Gone(u, r)' => Gone(u, r)
    BY <1>1, <1>a, <1>b, <1>c, <1>d, <1>e, <2>2 DEF Pending, Destroying, Forking, Others, Gone
  <2>6. ControlOK'
    <3>1. \A u \in Threads : u # t =>
            /\ k'[u].pc # "user" => st[u] = "live"
            /\ k'[u].pc \in {"plug", "mark", "link"} => k'[u].o \in Devs /\ dst[k'[u].o] # "none"
            /\ k'[u].pc = "mark" => dst[k'[u].o] = "live"
            /\ k'[u].pc \in {"mark", "link", "unplug"} => k'[u].s \in Slots
      BY <1>0, <2>5 DEF ControlOK
    <3>2. \A u \in Threads : /\ Forking(u)' => st[k'[u].n] = "embryo"
                             /\ Destroying(u)' => /\ k'[u].o \in detaching
                                                  /\ dst[k'[u].o] = "live" /\ owner[k'[u].o] = u
      BY <1>0, <2>5 DEF ControlOK
    <3>3. \A u, v \in Threads : Forking(u)' /\ Forking(v)' /\ u # v => k'[u].n # k'[v].n
      BY <1>0, <2>5 DEF ControlOK
    <3>4. QED
      BY <1>1, <1>a, <2>2, <3>1, <3>2, <3>3 DEF ControlOK, devvars
  <2>7. StageOK'
    BY <1>0, <1>1, <1>3, <1>a, <2>3, <2>5, PartTypes DEF StageOK, devvars
  <2>8. EntryOK'
    BY <1>0, <1>a, <2>1, <2>5 DEF EntryOK, devvars
  <2>9. PendingOK' /\ SessionOK'
    <3>1. PendingOK'
      BY <1>0, <2>1, <2>5 DEF PendingOK
    <3>2. \A u \in Threads : Pending(u) => k[u].o # NoDev
      BY <1>0 DEF ControlOK, Pending
    <3>3. SessionOK'
      BY <1>0, <1>a, <2>1, <2>5, <3>2, SessionKept DEF devvars, usrvars
    <3>4. QED
      BY <3>1, <3>3
  <2>10. HeldOK' /\ NewOK'
    <3>1. \A p \in Devs, j \in Ids : Held(p, j) => Held(p, j)'
      BY <2>1, <2>5 DEF Held
    <3>2. QED
      BY <1>0, <1>a, <3>1 DEF HeldOK, NewOK, devvars, usrvars
  <2>11. ListOK'
    <3>1. \A m \in Threads, r \in Slots, p \in Devs :
            Linked(m, r, p)' <=> Linked(m, r, p) \/ (m = n /\ r = s /\ p = o)
      <4>1. \A m \in Threads, r \in Slots, p \in Devs :
              Marking(m, r, p)' <=> Marking(m, r, p) \/ (m = n /\ r = s /\ p = o)
        BY <1>a, <2>2 DEF Marking, Others
      <4>2. QED
        BY <2>1, <4>1 DEF Linked
    <3>2. \A p \in Devs : p # o /\ dst[p] = "live" => ListOf(p)' = ListOf(p)
      BY <1>0, <1>a, <2>3, <2>5, PartTypes DEF ListOf, devvars, StageOK
    <3>3. ListOf(o)' = ListOf(o) \cup {<<n, s>>}
      BY <1>3, <1>a, <2>3 DEF ListOf, devvars
    <3>4. \A m \in Threads, r \in Slots, p \in Devs : Linked(m, r, p)' => <<m, r>> \in ListOf(p)'
      <4> SUFFICES ASSUME NEW m \in Threads, NEW r \in Slots, NEW p \in Devs, Linked(m, r, p)'
                   PROVE  <<m, r>> \in ListOf(p)'
        OBVIOUS
      <4>1. CASE m = n /\ r = s /\ p = o
        BY <3>3, <4>1
      <4>2. CASE Linked(m, r, p)
        <5>1. dst[p] = "live" /\ <<m, r>> \in ListOf(p)
          BY <1>0, <4>2, LinkedLive DEF ListOK
        <5>2. QED
          BY <3>2, <3>3, <5>1
      <4>3. QED
        BY <3>1, <4>1, <4>2
    <3>5. \A p \in Devs, m \in Threads, r \in Slots : <<m, r>> \in busdevs'[p] => Linked(m, r, p)'
      BY <1>0, <2>3, <3>1 DEF ListOK
    <3>6. \A u \in Threads : k'[u].pc = "sever" => k'[u] = k[u] /\ k[u].o \in Devs
      BY <2>2, <2>5, LinkedLive DEF Destroying
    <3>7. QED
      BY <1>0, <3>1, <3>4, <3>5, <3>6 DEF ListOK
  <2>12. QED
    BY <2>4, <2>6, <2>7, <2>8, <2>9, <2>10, <2>11 DEF BusInv, StructInv
<1>4. QED
  BY <1>2, <1>3

(* The entry gets its pointers.                                            *)
LEMMA MarkStep ==
  ASSUME BusInv, NEW t \in Threads, BusMark(t)
  PROVE  BusInv'
<1>0. /\ TypeOK /\ ControlOK /\ StageOK /\ EntryOK /\ PendingOK /\ SessionOK
      /\ HeldOK /\ NewOK /\ ListOK /\ ~damaged /\ NoDev \notin Devs
  BY Parts DEF BusMark, Is
<1>a. /\ k[t].pc = "mark" /\ st[t] = "live" /\ Pending(t)
      /\ UNCHANGED <<st, devvars, busdevs, usrvars, polling, known, damaged>>
  BY <1>0 DEF BusMark, Is, ControlOK, Pending
<1>b. PICK s \in Slots : s = k[t].s
  BY <1>0, <1>a DEF ControlOK
<1>c. PICK n \in Threads : n = k[t].n
  BY <1>0, PartTypes
<1>d. PICK o \in Devs : o = k[t].o
  BY <1>0, <1>a DEF ControlOK
<1>e. PICK i \in Ids : i = k[t].id
  BY <1>0, PartTypes
<1>1. /\ dst[o] = "live" /\ bus[n][s].dev = NoDev /\ bus[n][s].plg
      /\ \A u \in Threads : u # t /\ (Pending(u) \/ Forking(u)) => k[u].n # n
      /\ st[n] \in {"live", "embryo"} /\ \A r \in Slots : ~Gone(n, r)
  <2>1. dst[o] = "live" /\ bus[n][s].dev = NoDev /\ bus[n][s].plg
    BY <1>0, <1>a, <1>b, <1>c, <1>d DEF ControlOK, PendingOK
  <2>2. \A u \in Threads : u # t /\ (Pending(u) \/ Forking(u)) => k[u].n # n
    BY <1>a, <1>c, OneFiller
  <2>3. n = t \/ (n # t /\ Forking(t) /\ st[n] = "embryo")
    BY <1>0, <1>a, <1>c DEF Forking, ControlOK
  <2>4. n = t \/ k[n].pc = "user"
    BY <1>0, <2>3 DEF ControlOK
  <2>5. QED
    BY <1>a, <2>1, <2>2, <2>3, <2>4 DEF Gone, Destroying
<1>2. /\ Others(t) /\ k' \in [Threads -> ContType]
      /\ \/ n = t /\ k'[t].pc = "user"
         \/ n # t /\ k'[t].pc = "copy" /\ k'[t].n = n /\ k'[t].s = s + 1
  <2>1. CASE n = t
    <3>1. Goto(t, User(t))
      BY <1>c, <2>1 DEF BusMark
    <3>2. QED
      BY <1>0, <2>1, <3>1, GotoTable, AtTypes DEF Others
  <2>2. CASE n # t
    <3>1. Goto(t, At("copy", NoDev, n, s + 1, 0, {}))
      BY <1>b, <1>c, <2>2 DEF BusMark
    <3>2. At("copy", NoDev, n, s + 1, 0, {}) \in ContType
      BY AtTypes DEF Steps
    <3>3. QED
      BY <1>0, <2>2, <3>1, <3>2, GotoTable, AtFields DEF Others
  <2>3. QED
    BY <2>1, <2>2
<1>3. /\ bus' \in [Threads -> [Slots -> Entries]]
      /\ bus'[n][s].dev = o /\ bus'[n][s].plg /\ bus'[n][s].devid = i
      /\ \A m \in Threads, r \in Slots : m # n \/ r # s => bus'[m][r] = bus[m][r]
  <2>1. bus[n][s] \in Entries
    BY <1>0, PartTypes
  <2>2. PICK e \in Entries : e = Marked(bus[n][s], o, i)
    <3>1. PICK f \in Entries : f = [bus[n][s] EXCEPT !.bsy = TRUE, !.bus = TRUE]
      BY <2>1 DEF Entries
    <3>2. [f EXCEPT !.dev = o, !.devid = i] \in Entries
      BY <3>1 DEF Entries
    <3>3. Marked(bus[n][s], o, i) = [f EXCEPT !.dev = o, !.devid = i]
      BY <3>1 DEF Marked
    <3>4. QED
      BY <3>2, <3>3
  <2>3. e.dev = o /\ e.plg = bus[n][s].plg /\ e.devid = i
    BY <2>1, <2>2 DEF Marked, Entries
  <2>4. bus' = [bus EXCEPT ![n][s] = e]
    BY <1>b, <1>c, <1>d, <1>e, <2>2 DEF BusMark
  <2>5. /\ bus' \in [Threads -> [Slots -> Entries]] /\ bus'[n][s] = e
        /\ \A m \in Threads, r \in Slots : m # n \/ r # s => bus'[m][r] = bus[m][r]
    BY <1>0, <2>4, EntryTable, ZenonT(30)
  <2>6. QED
    BY <1>1, <2>3, <2>5
<1>4. TypeOK'
  <2>1. locked' \subseteq Threads
    BY <1>0 DEF BusMark, TypeOK
  <2>2. QED
    BY <1>0, <1>a, <1>2, <1>3, <2>1 DEF TypeOK, ContType, devvars, usrvars
<1>5. \A u \in Threads : /\ Pending(u)' <=> (Pending(u) /\ u # t)
                         /\ Destroying(u)' <=> Destroying(u)
                         /\ Forking(u)' <=> Forking(u)
                         /\ Destroying(u) => u # t
                         /\ u # t => k'[u] = k[u]
                         /\ Forking(u) => k'[u].n = k[u].n
                         /\ \A r \in Slots : Gone(u, r)' => Gone(u, r)
  BY <1>a, <1>c, <1>2 DEF Pending, Destroying, Forking, Others, Gone
<1>6. ControlOK'
  <2>1. \A u \in Threads : u # t =>
          /\ k'[u].pc # "user" => st[u] = "live"
          /\ k'[u].pc \in {"plug", "mark", "link"} => k'[u].o \in Devs /\ dst[k'[u].o] # "none"
          /\ k'[u].pc = "mark" => dst[k'[u].o] = "live"
          /\ k'[u].pc \in {"mark", "link", "unplug"} => k'[u].s \in Slots
    BY <1>0, <1>5 DEF ControlOK
  <2>2. \A u \in Threads : /\ Forking(u)' => st[k'[u].n] = "embryo"
                           /\ Destroying(u)' => /\ k'[u].o \in detaching
                                                /\ dst[k'[u].o] = "live" /\ owner[k'[u].o] = u
    BY <1>0, <1>5 DEF ControlOK
  <2>3. \A u, v \in Threads : Forking(u)' /\ Forking(v)' /\ u # v => k'[u].n # k'[v].n
    BY <1>0, <1>5 DEF ControlOK
  <2>4. QED
    BY <1>a, <1>2, <2>1, <2>2, <2>3 DEF ControlOK, devvars
<1>7. StageOK'
  BY <1>0, <1>a, <1>5, PartTypes DEF StageOK, devvars
<1>8. EntryOK'
  <2> SUFFICES ASSUME NEW m \in Threads, NEW r \in Slots
               PROVE  /\ bus'[m][r].dev # NoDev =>
                           bus'[m][r].plg /\ dst[bus'[m][r].dev] = "live"
                      /\ bus'[m][r].bus => bus'[m][r].dev # NoDev
                      /\ bus'[m][r].plg /\ bus'[m][r].dev = NoDev =>
                           \E u \in Threads : Pending(u)' /\ k'[u].n = m /\ k'[u].s = r
                      /\ st[m] = "free" => bus'[m][r].dev = NoDev
                      /\ st[m] = "zombie" \/ Gone(m, r)' => bus'[m][r].dev \in offline \cup {NoDev}
    BY <1>a DEF EntryOK, devvars
  <2>1. CASE m = n /\ r = s
    BY <1>0, <1>1, <1>3, <1>5, <2>1
  <2>2. CASE m # n \/ r # s
    <3>1. bus'[m][r] = bus[m][r] /\ (Gone(m, r)' => Gone(m, r))
      BY <1>3, <1>5, <2>2
    <3>2. (\E u \in Threads : Pending(u) /\ k[u].n = m /\ k[u].s = r)
            => \E u \in Threads : Pending(u)' /\ k'[u].n = m /\ k'[u].s = r
      BY <1>b, <1>c, <1>5, <2>2
    <3>3. QED
      BY <1>0, <3>1, <3>2 DEF EntryOK
  <2>3. QED
    BY <2>1, <2>2
<1>9. PendingOK'
  <2>1. ASSUME NEW u \in Threads, Pending(u)'
        PROVE  bus'[k'[u].n][k'[u].s].plg /\ bus'[k'[u].n][k'[u].s].dev = NoDev
    <3>1. Pending(u) /\ k'[u] = k[u] /\ k[u].n # n /\ k[u].n \in Threads /\ k[u].s \in Slots
      BY <1>0, <1>1, <1>5, <2>1, PartTypes DEF ControlOK, Pending
    <3>2. QED
      BY <1>0, <1>3, <3>1 DEF PendingOK
  <2>2. ASSUME NEW u \in Threads, Forking(u)', NEW r \in Slots, r >= k'[u].s
        PROVE  bus'[k'[u].n][r].dev = NoDev
    <3>1. Forking(u) /\ k'[u].n = k[u].n /\ k[u].n \in Threads
      BY <1>0, <1>5, <2>2, PartTypes
    <3>2. r >= s + 1 => r >= s /\ r # s
      BY DEF Slots
    <3>3. CASE u = t
      <4>1. k[u].n = n /\ r >= s + 1
        BY <1>2, <1>c, <2>2, <3>3, <3>1 DEF Forking
      <4>2. bus[n][r].dev = NoDev
        BY <1>0, <1>b, <3>1, <3>2, <3>3, <4>1 DEF PendingOK
      <4>3. QED
        BY <1>3, <3>1, <3>2, <4>1, <4>2
    <3>4. CASE u # t
      <4>1. k'[u] = k[u] /\ k[u].n # n
        BY <1>1, <1>5, <3>1, <3>4
      <4>2. bus[k[u].n][r].dev = NoDev
        BY <1>0, <2>2, <3>1, <4>1 DEF PendingOK
      <4>3. QED
        BY <1>3, <3>1, <4>1, <4>2
    <3>5. QED
      BY <3>3, <3>4
  <2>3. QED
    BY <2>1, <2>2 DEF PendingOK
<1>10. \A m \in Threads, r \in Slots : bus'[m][r].dev # NoDev =>
         (m = n /\ r = s) \/ bus'[m][r] = bus[m][r]
  BY <1>3
<1>11. SessionOK'
  <2>1. UNCHANGED <<dst, rem>>
    BY <1>a DEF devvars, usrvars
  <2>2. \A u \in Threads : Pending(u)' => u # t /\ Pending(u) /\ k'[u] = k[u] /\ k[u].o \in Devs
    BY <1>0, <1>5 DEF ControlOK, Pending
  <2>3. /\ rem[o][i].use /\ rem[o][i].th = n
        /\ \A m \in Threads, r \in Slots : bus[m][r].dev = o => bus[m][r].devid # i
        /\ \A u \in Threads : Pending(u) /\ u # t /\ k[u].o = o => k[u].id # i
    BY <1>0, <1>1, <1>a, <1>c, <1>d, <1>e DEF SessionOK
  <2>4. \A m \in Threads, r \in Slots : bus'[m][r].dev # NoDev =>
          /\ rem[bus'[m][r].dev][bus'[m][r].devid].use
          /\ rem[bus'[m][r].dev][bus'[m][r].devid].th = m
    BY <1>0, <1>3, <1>10, <2>3 DEF SessionOK
  <2>5. \A m, u \in Threads, r, q \in Slots :
          (bus'[m][r].dev # NoDev /\ bus'[m][r].dev = bus'[u][q].dev
             /\ bus'[m][r].devid = bus'[u][q].devid) => m = u /\ r = q
    BY <1>0, <1>3, <1>10, <2>3 DEF SessionOK
  <2>6. \A m, u \in Threads, r \in Slots :
          Pending(u)' /\ bus'[m][r].dev = k'[u].o => bus'[m][r].devid # k'[u].id
    <3> SUFFICES ASSUME NEW m \in Threads, NEW u \in Threads, NEW r \in Slots,
                        Pending(u)', bus'[m][r].dev = k'[u].o
                 PROVE  bus'[m][r].devid # k'[u].id
      OBVIOUS
    <3>1. CASE m = n /\ r = s
      BY <1>3, <2>2, <2>3, <3>1
    <3>2. CASE m # n \/ r # s
      BY <1>0, <1>3, <2>2, <3>2 DEF SessionOK
    <3>3. QED
      BY <3>1, <3>2
  <2>7. /\ \A u \in Threads : Pending(u)' /\ dst[k'[u].o] = "live" =>
             rem[k'[u].o][k'[u].id].use /\ rem[k'[u].o][k'[u].id].th = k'[u].n
        /\ \A u, v \in Threads :
             (Pending(u)' /\ Pending(v)' /\ k'[u].o = k'[v].o /\ k'[u].id = k'[v].id) => u = v
    BY <1>0, <2>2 DEF SessionOK
  <2>8. QED
    BY <2>1, <2>4, <2>5, <2>6, <2>7 DEF SessionOK
<1>12. HeldOK'
  <2>1. ASSUME NEW p \in Devs, NEW j \in Ids, Held(p, j) PROVE Held(p, j)'
    <3>1. CASE \E u \in Threads : Pending(u) /\ k[u].o = p /\ k[u].id = j
      <4>1. PICK u \in Threads : Pending(u) /\ k[u].o = p /\ k[u].id = j
        BY <3>1
      <4>2. CASE u = t
        BY <1>3, <1>d, <1>e, <4>1, <4>2 DEF Held
      <4>3. CASE u # t
        BY <1>5, <4>1, <4>3 DEF Held
      <4>4. QED
        BY <4>2, <4>3
    <3>2. ASSUME NEW u \in Threads, NEW r \in Slots, bus[u][r].dev = p, bus[u][r].devid = j
          PROVE  Held(p, j)'
      <4>1. bus'[u][r] = bus[u][r]
        BY <1>0, <1>1, <1>3, <3>2
      <4>2. QED
        BY <3>2, <4>1 DEF Held
    <3>3. QED
      BY <2>1, <3>1, <3>2 DEF Held
  <2>2. QED
    BY <1>0, <1>a, <2>1 DEF HeldOK, devvars, usrvars
<1>13. NewOK'
  BY <1>0, <1>a DEF NewOK, devvars, usrvars
<1>14. ListOK'
  <2>1. \A m \in Threads, r \in Slots, p \in Devs : Linked(m, r, p)' <=> Linked(m, r, p)
    <3> SUFFICES ASSUME NEW m \in Threads, NEW r \in Slots, NEW p \in Devs
                 PROVE  Linked(m, r, p)' <=> Linked(m, r, p)
      OBVIOUS
    <3>1. \A u \in Threads : u # t => (k'[u] = k[u])
      BY <1>5
    <3>2. k[t].pc = "mark" /\ k'[t].pc # "mark"
      BY <1>a, <1>2
    <3>3. CASE m = n /\ r = s
      <4>1. ~Marking(m, r, p)'
        BY <1>1, <3>1, <3>2, <3>3 DEF Marking, Pending
      <4>2. Marking(m, r, p) <=> p = o
        BY <1>1, <1>a, <1>b, <1>c, <1>d, <3>3 DEF Marking, Pending
      <4>3. QED
        BY <1>0, <1>1, <1>3, <3>3, <4>1, <4>2 DEF Linked
    <3>4. CASE m # n \/ r # s
      <4>1. Marking(m, r, p)' <=> Marking(m, r, p)
        BY <1>b, <1>c, <3>1, <3>2, <3>4 DEF Marking
      <4>2. QED
        BY <1>3, <3>4, <4>1 DEF Linked
    <3>5. QED
      BY <3>3, <3>4
  <2>2. \A p \in Devs : dst[p] = "live" => ListOf(p)' = ListOf(p)
    BY <1>a, <1>2, SameLists DEF Destroying, devvars
  <2>3. \A u \in Threads : k'[u].pc = "sever" => k'[u] = k[u] /\ k[u].o \in Devs
    BY <1>2, <1>5, LinkedLive DEF Destroying
  <2>4. QED
    BY <1>0, <1>a, <2>1, <2>2, <2>3, LinkedLive DEF ListOK
<1>15. QED
  BY <1>4, <1>6, <1>7, <1>8, <1>9, <1>11, <1>12, <1>13, <1>14 DEF BusInv, StructInv

-----------------------------------------------------------------------------
LEMMA BusInit == Init => BusInv
<1> SUFFICES ASSUME Init PROVE BusInv
  OBVIOUS
<1>1. /\ 0 \in Ids /\ 1 \in Slots /\ 1 \in 1 .. MaxBusDevs + 1
  BY SizesAssumption DEF Ids, Slots
<1>2. /\ Empty \in Entries /\ Empty.dev = NoDev /\ ~Empty.plg /\ ~Empty.bus
      /\ Unused \in Sessions /\ ~Unused.use /\ Unused.apt = <<>>
  BY <1>1, ThreadsAssumption DEF Empty, Entries, Unused, Sessions
<1>3. k \in [Threads -> ContType] /\ \A u \in Threads : k[u].pc = "user"
  BY AtTypes DEF Init
<1>4. \A u \in Threads : /\ ~Pending(u) /\ ~Forking(u) /\ ~Destroying(u)
                         /\ \A s \in Slots : ~Gone(u, s)
  BY <1>3 DEF Pending, Forking, Destroying, Gone
<1> HIDE DEF Empty, Unused, User
<1>5. TypeOK
  <2>1. /\ st \in [Threads -> {"free", "embryo", "live", "zombie"}]
        /\ bus \in [Threads -> [Slots -> Entries]]
        /\ rem \in [Devs -> [Ids -> Sessions]]
        /\ owner \in [Devs -> Threads]
    BY <1>2, ThreadsAssumption DEF Init
  <2>2. /\ ioreqs \in [Devs -> Seq(Iors)] /\ sigreq \in [Devs -> BOOLEAN]
        /\ polling \in [Devs -> BOOLEAN] /\ known \in [Devs -> SUBSET Ids]
        /\ dst \in [Devs -> {"none", "live", "freed"}]
        /\ busdevs \in [Devs -> SUBSET (Threads \X Slots)]
    BY DEF Init
  <2>3. /\ locked \subseteq Threads /\ tree \subseteq Devs /\ offline \subseteq Devs
        /\ detaching \subseteq Devs /\ damaged \in BOOLEAN
    BY DEF Init
  <2>4. QED
    BY <1>3, <2>1, <2>2, <2>3 DEF TypeOK, ContType
<1>6. \A t \in Threads, s \in Slots : bus[t][s] = Empty
  BY DEF Init
<1>7. ControlOK
  BY <1>3, <1>4 DEF ControlOK
<1>8. StageOK
  BY DEF Init, StageOK
<1>9. EntryOK /\ PendingOK /\ SessionOK
  BY <1>2, <1>4, <1>6 DEF EntryOK, PendingOK, SessionOK, Init
<1>10. HeldOK /\ NewOK
  BY <1>2 DEF HeldOK, NewOK, Init
<1>11. ListOK
  <2>1. \A n \in Threads, s \in Slots, o \in Devs : ~Linked(n, s, o)
    BY <1>2, <1>3, <1>6, DevsAssumption DEF Linked, Marking
  <2>2. QED
    BY <1>3, <2>1 DEF ListOK, Init
<1>12. QED
  BY <1>5, <1>7, <1>8, <1>9, <1>10, <1>11 DEF BusInv, StructInv

LEMMA BusStep == BusInv /\ [Next]_vars => BusInv'
<1> SUFFICES ASSUME BusInv, [Next]_vars PROVE BusInv'
  OBVIOUS
<1>1. CASE UNCHANGED vars
  <2>1. UNCHANGED <<st, bus, dst, tree, offline, detaching, owner, busdevs, k, rem, ioreqs,
                    known, damaged, locked, sigreq, polling>>
    BY <1>1 DEF vars, devvars, usrvars
  <2>2. TypeOK' /\ NewOK'
    BY <2>1, Parts DEF TypeOK, NewOK
  <2>3. CASE ~damaged
    BY <2>1, <2>2, <2>3, QuietStep
  <2>4. CASE damaged
    <3>1. ControlOK' /\ StageOK' /\ EntryOK' /\ PendingOK' /\ SessionOK'
      BY <2>1, Parts DEF ControlOK, StageOK, EntryOK, PendingOK, SessionOK, Pending, Forking,
                         Destroying, Gone
    <3>2. HeldOK'
      BY <2>1, Parts DEF HeldOK, Held, Pending
    <3>3. QED
      BY <2>1, <2>2, <2>4, <3>1, <3>2 DEF BusInv, StructInv
  <2>5. QED
    BY <2>3, <2>4
<1>2. ASSUME NEW t \in Threads, Call(t) PROVE BusInv'
  BY <1>2, CreatStep, CallStep, OwnerStep, CloseStep, OutStep, ExportStep, ForkStep DEF Call
<1>3. ASSUME NEW t \in Threads, Kernel(t) PROVE BusInv'
  <2>1. CASE \/ BusPlugFail(t) \/ BusPlugOpen(t) \/ BusMark(t) \/ BusCopyClone(t)
             \/ BusCopySkip(t) \/ BusCopyLink(t) \/ ForkEnd(t)
    BY <2>1, CallStep, OpenStep, MarkStep, CloneStep, SkipStep, LinkStep, ForkEndStep
  <2>2. CASE \/ BusRemove(t) \/ (\E o \in Devs : UsrdevDestroy(t, o)) \/ DevDetachTree(t)
             \/ DevDetachOffline(t) \/ (\E n \in Threads, s \in Slots : DevDetachSever(t, n, s))
    BY <2>2, CloseStep, DestroyStep, DetachTreeStep, DetachOfflineStep, SeverStep
  <2>3. CASE UseBadBus(t) \/ UsrdevFree(t) \/ ExitEnd(t) \/ UseFreedDevice(t)
    BY <2>3, DamageStep, FreeStep, ExitEndStep
  <2>4. QED
    BY <1>3, <2>1, <2>2, <2>3 DEF Kernel
<1>4. ASSUME NEW t \in Threads, Reap(t) PROVE BusInv'
  BY <1>4, ReapStep
<1>5. QED
  BY <1>1, <1>2, <1>3, <1>4 DEF Next, Undefined

(* Every reachable state of the bus satisfies the inductive invariant.     *)
THEOREM BusInvCorrect == Spec => []BusInv
<1>1. QED
  BY BusInit, BusStep, PTL DEF Spec

(* Types, and with them the bounds of the session and bus tables: a call   *)
(* never stores a session number past remths or a slot past the bus.       *)
THEOREM TypeCorrect == Spec => []TypeOK
<1>1. BusInv => TypeOK
  BY DEF BusInv, StructInv
<1>2. QED
  BY <1>1, BusInvCorrect, PTL

(* bus_unplug and bus_get_dev never follow an entry to a freed device, for *)
(* any interleaving of opens, forks, exits and the destruction of devices. *)
THEOREM NoDanglingEntryCorrect == Spec => []NoDanglingEntry
<1>1. BusInv => NoDanglingEntry
  BY DEF BusInv, StructInv, EntryOK, NoDanglingEntry
<1>2. QED
  BY <1>1, BusInvCorrect, PTL

-----------------------------------------------------------------------------
(* Sessions and bus entries.                                               *)

LEMMA RefsUnique ==
  ASSUME BusInv, NEW o \in Devs, NEW i \in Ids, NEW a \in Refs(o, i), NEW b \in Refs(o, i)
  PROVE  a = b
<1>0. TypeOK /\ ControlOK /\ PendingOK /\ SessionOK /\ NoDev \notin Devs
  BY Parts
<1> DEFINE Made(e) == /\ e \in Threads \X Slots
                      /\ bus[e[1]][e[2]].dev = o /\ bus[e[1]][e[2]].devid = i
           Due(e, u) == /\ Pending(u) /\ k[u].o = o /\ k[u].id = i
                        /\ e = <<k[u].n, k[u].s>>
<1>1. \A e \in Refs(o, i) : Made(e) \/ \E u \in Threads : Due(e, u)
  BY DEF Refs, Pending
<1>2. ASSUME Made(a), Made(b) PROVE a = b
  <2>1. /\ a = <<a[1], a[2]>> /\ b = <<b[1], b[2]>> /\ a[1] \in Threads /\ b[1] \in Threads
        /\ a[2] \in Slots /\ b[2] \in Slots
    BY <1>2
  <2>2. a[1] = b[1] /\ a[2] = b[2]
    BY <1>0, <1>2, <2>1 DEF SessionOK
  <2>3. QED
    BY <2>1, <2>2
<1>3. ASSUME NEW e, NEW f, NEW u \in Threads, Made(e), Due(f, u) PROVE FALSE
  <2>1. e[1] \in Threads /\ e[2] \in Slots
    BY <1>3
  <2>2. QED
    BY <1>0, <1>3, <2>1 DEF SessionOK
<1>4. ASSUME NEW u \in Threads, NEW v \in Threads, Due(a, u), Due(b, v) PROVE a = b
  BY <1>0, <1>4 DEF SessionOK
<1> HIDE DEF Made, Due
<1>5. QED
  BY <1>1, <1>2, <1>3, <1>4

(* As long as a device is not being destroyed, each of its sessions in use *)
(* has exactly one bus entry, of the thread it was given to, which is      *)
(* alive: the pairing that bus_plug, bus_copy, bus_unplug and dev_detach   *)
(* must keep across all their interleavings.                               *)
THEOREM SessionsMatchCorrect == Spec => []SessionsMatch
<1>1. BusInv => SessionsMatch
  <2> SUFFICES ASSUME BusInv, NEW o \in Devs, NEW i \in Ids, dst[o] = "live", o \notin detaching
               PROVE  IF rem[o][i].use
                      THEN /\ Cardinality(Refs(o, i)) = 1
                           /\ \A r \in Refs(o, i) :
                                r[1] = rem[o][i].th /\ st[r[1]] \in {"live", "embryo"}
                      ELSE Refs(o, i) = {}
    BY DEF SessionsMatch
  <2>0. /\ TypeOK /\ ControlOK /\ StageOK /\ EntryOK /\ PendingOK /\ SessionOK
        /\ HeldOK /\ NoDev \notin Devs
    BY Parts
  <2>1. ASSUME NEW r \in Refs(o, i)
        PROVE  /\ rem[o][i].use /\ r[1] = rem[o][i].th /\ st[r[1]] \in {"live", "embryo"}
    <3>1. CASE /\ r \in Threads \X Slots
               /\ bus[r[1]][r[2]].dev = o /\ bus[r[1]][r[2]].devid = i
      <4>1. r[1] \in Threads /\ r[2] \in Slots
        BY <3>1
      <4>2. rem[o][i].use /\ rem[o][i].th = r[1]
        BY <2>0, <3>1, <4>1 DEF SessionOK
      <4>3. st[r[1]] # "free" /\ st[r[1]] # "zombie"
        BY <2>0, <3>1, <4>1 DEF EntryOK, StageOK
      <4>4. QED
        BY <2>0, <4>1, <4>2, <4>3 DEF TypeOK
    <3>2. ASSUME NEW u \in Threads, Pending(u), k[u].o = o, k[u].id = i, r = <<k[u].n, k[u].s>>
          PROVE  /\ rem[o][i].use /\ r[1] = rem[o][i].th /\ st[r[1]] \in {"live", "embryo"}
      <4>1. rem[o][i].use /\ r[1] = rem[o][i].th
        BY <2>0, <3>2 DEF SessionOK
      <4>2. st[k[u].n] \in {"live", "embryo"}
        BY <2>0, <3>2 DEF ControlOK, Pending, Forking
      <4>3. QED
        BY <3>2, <4>1, <4>2
    <3>3. QED
      BY <2>1, <3>1, <3>2 DEF Refs, Pending
  <2>2. CASE rem[o][i].use
    <3>1. Held(o, i)
      BY <2>0, <2>2 DEF HeldOK
    <3>2. \E r : r \in Refs(o, i)
      <4>1. ASSUME NEW t \in Threads, NEW s \in Slots, bus[t][s].dev = o, bus[t][s].devid = i
            PROVE  <<t, s>> \in Refs(o, i)
        BY <2>0, <4>1 DEF Refs, EntryOK
      <4>2. ASSUME NEW u \in Threads, Pending(u), k[u].o = o, k[u].id = i
            PROVE  <<k[u].n, k[u].s>> \in Refs(o, i)
        BY <4>2 DEF Refs, Pending
      <4>3. QED
        BY <3>1, <4>1, <4>2 DEF Held
    <3>3. PICK r : r \in Refs(o, i)
      BY <3>2
    <3>4. Refs(o, i) = {r}
      BY <3>3, RefsUnique
    <3>5. Cardinality(Refs(o, i)) = 1
      BY <3>4, FS_Singleton
    <3>6. QED
      BY <2>1, <2>2, <3>5
  <2>3. CASE ~rem[o][i].use
    BY <2>1, <2>3
  <2>4. QED
    BY <2>2, <2>3
<1>2. QED
  BY <1>1, BusInvCorrect, PTL

-----------------------------------------------------------------------------
(* What the steps do to the sessions and to the queue of a device.         *)

SameRem(o, i) == \A p \in Devs, j \in Ids : p # o \/ j # i => rem'[p][j] = rem[p][j]

(* Nothing, though a device may be created or detached.                    *)
Quiet == /\ UNCHANGED usrvars /\ UNCHANGED <<polling, known>>
         /\ \A p \in Devs : dst'[p] = "live" => /\ dst[p] \in {"live", "none"}
                                                /\ p \in detaching => p \in detaching'
(* Request r is sent.                                                      *)
Sends(o, r) ==
  /\ dst[o] = "live" /\ UNCHANGED <<dst, detaching, polling, known>>
  /\ \A p \in Devs : p # o \/ o \in detaching =>
       ioreqs'[p] = ioreqs[p] /\ sigreq'[p] = sigreq[p]
  /\ o \notin detaching => ioreqs'[o] = Append(ioreqs[o], r) /\ sigreq'[o]
(* A session is taken, closed, or used.                                    *)
Takes(o, i, op, id) ==
  /\ Sends(o, Ior(op, id, i)) /\ SameRem(o, i)
  /\ ~rem[o][i].use /\ rem'[o][i].use /\ rem'[o][i].apt = rem[o][i].apt
  /\ op = "open" \/ (op = "clone" /\ rem[o][id].use)
Ends(o, i) ==
  /\ Sends(o, Ior("close", i, i)) /\ SameRem(o, i)
  /\ rem[o][i].use /\ ~rem'[o][i].use /\ rem'[o][i].apt = <<>>
Outs(o, i) == Sends(o, Ior("out", i, i)) /\ UNCHANGED rem /\ rem[o][i].use
Exports(o, i) ==
  /\ dst[o] = "live" /\ UNCHANGED <<dst, detaching, ioreqs, sigreq, polling, known>>
  /\ SameRem(o, i)
  /\ rem[o][i].use /\ rem'[o][i].use /\ rem'[o][i].th = rem[o][i].th
  /\ \/ rem'[o][i].apt = Append(rem[o][i].apt, rem[o][i].th)
     \/ rem[o][i].apt # <<>> /\ rem'[o][i].apt = Tail(rem[o][i].apt)
(* The owner polls, or the device is freed.                                *)
Polls(o) == \E t \in Threads : OwnerSignal(t, o) \/ DevPoll(t, o)
Frees(o) ==
  /\ dst'[o] = "freed" /\ UNCHANGED detaching
  /\ \A p \in Devs : p # o =>
       /\ dst'[p] = dst[p] /\ rem'[p] = rem[p] /\ ioreqs'[p] = ioreqs[p]
       /\ sigreq'[p] = sigreq[p] /\ polling'[p] = polling[p] /\ known'[p] = known[p]

Effect ==
  \/ Quiet
  \/ \E o \in Devs, i, id \in Ids, op \in {"open", "clone"} : Takes(o, i, op, id)
  \/ \E o \in Devs, i \in Ids : Ends(o, i) \/ Outs(o, i) \/ Exports(o, i)
  \/ \E o \in Devs : Polls(o) \/ Frees(o)

LEMMA RequestSends ==
  ASSUME TypeOK, NEW o \in Devs, NEW op \in {"open", "clone", "out", "close"}, NEW id \in Ids,
         NEW new \in Ids, Request(o, Ior(op, id, new)), dst[o] = "live",
         UNCHANGED <<dst, detaching, polling, known>>
  PROVE  Sends(o, Ior(op, id, new))
BY RequestTable DEF Sends

LEMMA UnplugEffect ==
  ASSUME BusInv, NEW t \in Threads, NEW s \in Slots, BusUnplug(t, s),
         st[t] = "live", k[t].pc # "mark", UNCHANGED <<dst, detaching, polling, known>>
  PROVE  Effect
<1>0. TypeOK /\ SessionOK /\ NoDev \notin Devs
  BY Parts
<1>1. CASE CanUnplug(t, s)
  <2>1. PICK o \in Devs : o = bus[t][s].dev
    BY <1>1, OwnEntry DEF CanUnplug
  <2>2. PICK i \in Ids : i = bus[t][s].devid
    BY <1>0, PartTypes
  <2>3. UsrdevClose(o, i) /\ dst[o] = "live" /\ rem[o][i].use
    BY <1>0, <1>1, <2>1, <2>2, OwnEntry DEF BusUnplug, CanUnplug, SessionOK
  <2>4. ~rem'[o][i].use /\ rem'[o][i].apt = <<>> /\ SameRem(o, i)
    BY <1>0, <2>3, CloseTable DEF SameRem
  <2>5. Sends(o, Ior("close", i, i))
    BY <1>0, <2>3, RequestSends DEF UsrdevClose
  <2>6. Ends(o, i)
    BY <2>3, <2>4, <2>5 DEF Ends
  <2>7. QED
    BY <2>6 DEF Effect
<1>2. CASE ~CanUnplug(t, s)
  <2>1. UNCHANGED usrvars
    BY <1>2 DEF BusUnplug, usrvars
  <2>2. Quiet
    BY <2>1 DEF Quiet
  <2>3. QED
    BY <2>2 DEF Effect
<1>3. QED
  BY <1>1, <1>2

LEMMA OpenEffect ==
  ASSUME BusInv, NEW t \in Threads, BusPlugOpen(t)
  PROVE  Effect
<1>0. TypeOK /\ ControlOK
  BY Parts
<1>p. PICK o \in Devs : o = k[t].o
  BY <1>0 DEF BusPlugOpen, Is, ControlOK
<1>1. dst[o] = "live" /\ UNCHANGED <<dst, detaching, polling, known>>
  BY <1>p DEF BusPlugOpen, devvars
<1>2. PICK i \in FreeId(o) : /\ rem' = [rem EXCEPT ![o][i] = Session(o, i, t)]
                             /\ Request(o, Ior("open", i, i))
  BY <1>p DEF BusPlugOpen
<1>3. i \in Ids /\ ~rem[o][i].use
  BY FirstOf
<1>4. rem'[o][i].use /\ rem'[o][i].apt = rem[o][i].apt /\ SameRem(o, i)
  BY <1>0, <1>2, <1>3, OpenTable DEF SameRem
<1>5. Sends(o, Ior("open", i, i))
  BY <1>0, <1>1, <1>2, <1>3, RequestSends
<1>6. Takes(o, i, "open", i)
  BY <1>3, <1>4, <1>5 DEF Takes
<1>7. QED
  BY <1>3, <1>6 DEF Effect

LEMMA CloneEffect ==
  ASSUME BusInv, NEW t \in Threads, BusCopyClone(t)
  PROVE  Effect
<1>0. TypeOK /\ ControlOK /\ SessionOK /\ NoDev \notin Devs
  BY Parts
<1>a. /\ k[t].pc = "copy" /\ st[t] = "live" /\ CanClone(t, k[t].s)
      /\ UNCHANGED <<dst, detaching, polling, known>>
  BY <1>0 DEF BusCopyClone, Is, ControlOK, devvars
<1>b. PICK s \in Slots : s = k[t].s
  BY DEF BusCopyClone
<1>c. PICK n \in Threads : n = k[t].n
  BY <1>0, PartTypes
<1>d. PICK o \in Devs : o = bus[t][s].dev
  BY <1>a, <1>b, OwnEntry DEF CanClone
<1>e. PICK id \in Ids : id = bus[t][s].devid
  BY <1>0, PartTypes
<1>1. dst[o] = "live" /\ rem[o][id].use
  BY <1>0, <1>a, <1>b, <1>d, <1>e, OwnEntry DEF CanClone, SessionOK
<1>2. PICK i \in FreeId(o) : /\ rem' = [rem EXCEPT ![o][i] = Session(o, i, n)]
                             /\ Request(o, Ior("clone", id, i))
  BY <1>b, <1>c, <1>d, <1>e DEF BusCopyClone, Cloned
<1>3. i \in Ids /\ ~rem[o][i].use
  BY FirstOf
<1>4. rem'[o][i].use /\ rem'[o][i].apt = rem[o][i].apt /\ SameRem(o, i)
  BY <1>0, <1>2, <1>3, OpenTable DEF SameRem
<1>5. Sends(o, Ior("clone", id, i))
  BY <1>0, <1>1, <1>2, <1>3, <1>a, RequestSends
<1>6. Takes(o, i, "clone", id)
  BY <1>1, <1>3, <1>4, <1>5 DEF Takes
<1>7. QED
  BY <1>3, <1>6 DEF Effect

LEMMA SeverEffect ==
  ASSUME BusInv, NEW t \in Threads, NEW n \in Threads, NEW s \in Slots, DevDetachSever(t, n, s)
  PROVE  Effect
<1>0. TypeOK /\ ControlOK /\ EntryOK /\ SessionOK /\ ListOK /\ NoDev \notin Devs
  BY Parts DEF DevDetachSever, Is
<1>p. PICK o \in Devs : o = k[t].o
  BY LinkedLive DEF DevDetachSever, Is, Destroying
<1>q. PICK i \in Ids : i = bus[n][s].devid
  BY <1>0, PartTypes
<1>1. /\ k[t].pc = "sever" /\ <<n, s>> \in k[t].todo /\ bus[n][s].bus
      /\ UsrdevClose(o, i) /\ UNCHANGED <<dst, detaching, polling, known>>
  BY <1>p, <1>q DEF DevDetachSever, Is, devvars
<1>2. bus[n][s].dev # NoDev /\ Linked(n, s, o) /\ dst[o] = "live"
  BY <1>0, <1>1, <1>p DEF EntryOK, ListOK, ControlOK, Destroying
<1>3. bus[n][s].dev = o
  BY <1>2, NotFilling
<1>4. rem[o][i].use
  BY <1>0, <1>2, <1>3, <1>q DEF SessionOK
<1>5. ~rem'[o][i].use /\ rem'[o][i].apt = <<>> /\ SameRem(o, i)
  BY <1>0, <1>1, CloseTable DEF SameRem
<1>6. Sends(o, Ior("close", i, i))
  BY <1>0, <1>1, <1>2, RequestSends DEF UsrdevClose
<1>7. Ends(o, i)
  BY <1>4, <1>5, <1>6 DEF Ends
<1>8. QED
  BY <1>7 DEF Effect

LEMMA FreeEffect ==
  ASSUME BusInv, NEW t \in Threads, UsrdevFree(t)
  PROVE  Effect
<1>0. TypeOK
  BY Parts
<1>p. PICK o \in Devs : o = k[t].o
  BY LinkedLive DEF UsrdevFree, Is, Destroying
<1>1. /\ dst'[o] = "freed" /\ UNCHANGED detaching
      /\ \A p \in Devs : p # o =>
           /\ dst'[p] = dst[p] /\ rem'[p] = rem[p] /\ ioreqs'[p] = ioreqs[p]
           /\ sigreq'[p] = sigreq[p] /\ polling'[p] = polling[p] /\ known'[p] = known[p]
  BY <1>0, <1>p DEF UsrdevFree, TypeOK
<1>2. Frees(o)
  BY <1>1 DEF Frees
<1>3. QED
  BY <1>2 DEF Effect

LEMMA OutEffect ==
  ASSUME BusInv, NEW t \in Threads, NEW s \in Slots, NEW o \in Devs, SysOut(t, s, o)
  PROVE  Effect
<1>0. TypeOK /\ EntryOK /\ SessionOK /\ NoDev \notin Devs
  BY Parts
<1>1. PICK i \in Ids : i = bus[t][s].devid
  BY <1>0, PartTypes
<1>2. dst[o] = "live" /\ rem[o][i].use
  <2>1. bus[t][s].dev = o
    BY DEF SysOut, Plugged
  <2>2. QED
    BY <1>0, <1>1, <2>1 DEF EntryOK, SessionOK
<1>3. /\ Request(o, Ior("out", i, i)) /\ UNCHANGED rem
      /\ UNCHANGED <<dst, detaching, polling, known>>
  BY <1>1 DEF SysOut, devvars
<1>4. Sends(o, Ior("out", i, i))
  BY <1>0, <1>2, <1>3, RequestSends
<1>5. Outs(o, i)
  BY <1>2, <1>3, <1>4 DEF Outs
<1>6. QED
  BY <1>5 DEF Effect

LEMMA ExportEffect ==
  ASSUME BusInv, NEW t \in Threads, NEW s \in Slots, NEW o \in Devs,
         SysExport(t, s, o) \/ SysUnexport(t, s, o)
  PROVE  Effect
<1> DEFINE i == bus[t][s].devid
<1>1. /\ i \in Ids /\ dst[o] = "live" /\ rem[o][i].use /\ rem[o][i].th = t
      /\ rem' \in [Devs -> [Ids -> Sessions]]
      /\ rem'[o][i].use = rem[o][i].use /\ rem'[o][i].th = t
      /\ \/ rem'[o][i].apt = Append(rem[o][i].apt, t)
         \/ rem[o][i].apt # <<>> /\ rem'[o][i].apt = Tail(rem[o][i].apt)
      /\ \A p \in Devs, j \in Ids : p # o \/ j # i => rem'[p][j] = rem[p][j]
      /\ UNCHANGED <<st, bus, locked, devvars, busdevs, ioreqs, sigreq, polling,
                     known, k, damaged>>
      /\ ~damaged
  BY ExportTable, Zenon
<1> HIDE DEF i
<1>2. Exports(o, i)
  BY <1>1 DEF Exports, SameRem, devvars
<1>3. QED
  BY <1>1, <1>2 DEF Effect

LEMMA StepEffect ==
  ASSUME BusInv, [Next]_vars
  PROVE  Effect
<1>0. TypeOK
  BY Parts
<1>1. CASE UNCHANGED vars
  BY <1>1 DEF vars, Effect, Quiet, devvars, usrvars
<1>2. ASSUME NEW t \in Threads, Call(t) PROVE Effect
  <2>1. CASE \E o \in Devs : DevCreat(t, o)
    <3>1. PICK o \in Devs : DevCreat(t, o)
      BY <2>1
    <3>2. Quiet
      BY <1>0, <3>1 DEF DevCreat, Quiet, TypeOK
    <3>3. QED
      BY <3>2 DEF Effect
  <2>2. CASE (\E o \in Devs : BusPlugFind(t, o)) \/ (\E n \in Threads : SysFork(t, n)) \/ SysDie(t)
    <3>1. UNCHANGED usrvars /\ UNCHANGED <<devvars, polling, known>>
      BY <2>2 DEF BusPlugFind, SysFork, SysDie
    <3>2. Quiet
      BY <3>1 DEF Quiet, devvars
    <3>3. QED
      BY <3>2 DEF Effect
  <2>3. CASE \E o \in Devs : OwnerSignal(t, o) \/ DevPoll(t, o)
    BY <2>3 DEF Effect, Polls
  <2>4. CASE \E s \in Slots : SysClose(t, s)
    BY <2>4, UnplugEffect DEF SysClose, Enter, devvars
  <2>5. CASE \E s \in Slots, o \in Devs : SysOut(t, s, o) \/ SysExport(t, s, o) \/ SysUnexport(t, s, o)
    BY <2>5, OutEffect, ExportEffect
  <2>6. QED
    BY <1>2, <2>1, <2>2, <2>3, <2>4, <2>5 DEF Call
<1>3. ASSUME NEW t \in Threads, Kernel(t) PROVE Effect
  <2>1. CASE \/ BusPlugFail(t) \/ BusMark(t) \/ BusCopySkip(t) \/ BusCopyLink(t) \/ ForkEnd(t)
             \/ ExitEnd(t) \/ UseBadBus(t) \/ UseFreedDevice(t)
    <3>1. UNCHANGED usrvars /\ UNCHANGED <<devvars, polling, known>>
      BY <2>1 DEF BusPlugFail, BusMark, BusCopySkip, BusCopyLink, ForkEnd, ExitEnd, UseBadBus,
                  UseFreedDevice
    <3>2. Quiet
      BY <3>1 DEF Quiet, devvars
    <3>3. QED
      BY <3>2 DEF Effect
  <2>2. CASE (\E o \in Devs : UsrdevDestroy(t, o)) \/ DevDetachTree(t) \/ DevDetachOffline(t)
    <3>1. /\ UNCHANGED usrvars /\ UNCHANGED <<dst, polling, known>>
          /\ \A p \in Devs : p \in detaching => p \in detaching'
      BY <2>2 DEF UsrdevDestroy, DevDetachTree, DevDetachOffline
    <3>2. Quiet
      BY <3>1 DEF Quiet
    <3>3. QED
      BY <3>2 DEF Effect
  <2>3. CASE BusRemove(t)
    <3>1. k[t].s \in Slots /\ st[t] = "live" /\ k[t].pc = "unplug"
      BY <2>3, Parts DEF BusRemove, Is, ControlOK
    <3>2. QED
      BY <2>3, <3>1, UnplugEffect DEF BusRemove, devvars
  <2>4. QED
    BY <1>3, <2>1, <2>2, <2>3, OpenEffect, CloneEffect, SeverEffect, FreeEffect DEF Kernel
<1>4. ASSUME NEW t \in Threads, Reap(t) PROVE Effect
  <2>1. UNCHANGED usrvars /\ UNCHANGED <<devvars, polling, known>>
    BY <1>4 DEF Reap
  <2>2. Quiet
    BY <2>1 DEF Quiet, devvars
  <2>3. QED
    BY <2>2 DEF Effect
<1>5. QED
  BY <1>1, <1>2, <1>3, <1>4 DEF Next, Undefined

LEMMA PollTable ==
  ASSUME TypeOK, NEW o \in Devs, Polls(o)
  PROVE  /\ UNCHANGED <<dst, detaching, rem>>
         /\ \A p \in Devs : p # o => /\ ioreqs'[p] = ioreqs[p] /\ sigreq'[p] = sigreq[p]
                                     /\ polling'[p] = polling[p] /\ known'[p] = known[p]
         /\ \/ /\ ioreqs'[o] = ioreqs[o] /\ known'[o] = known[o]
               /\ polling'[o] \/ ioreqs[o] = <<>>
            \/ /\ ioreqs[o] # <<>> /\ ioreqs'[o] = Tail(ioreqs[o]) /\ polling'[o]
               /\ known'[o] = After(Head(ioreqs[o]), known[o])
<1>1. PICK t \in Threads : OwnerSignal(t, o) \/ DevPoll(t, o)
  BY DEF Polls
<1>2. CASE OwnerSignal(t, o)
  BY <1>2 DEF OwnerSignal, TypeOK, devvars
<1>3. CASE DevPoll(t, o) /\ ioreqs[o] = <<>>
  BY <1>3 DEF DevPoll, TypeOK, devvars
<1>4. CASE DevPoll(t, o) /\ ioreqs[o] # <<>>
  <2>1. /\ ioreqs' = [ioreqs EXCEPT ![o] = Tail(ioreqs[o])]
        /\ known' = [known EXCEPT ![o] = After(Head(ioreqs[o]), known[o])]
        /\ polling[o] /\ UNCHANGED <<dst, detaching, rem, sigreq, polling>>
    BY <1>4 DEF DevPoll, devvars
  <2> DEFINE a == After(Head(ioreqs[o]), known[o])
             q == Tail(ioreqs[o])
  <2> HIDE DEF a, q
  <2>2. ioreqs' = [ioreqs EXCEPT ![o] = q] /\ known' = [known EXCEPT ![o] = a]
    BY <2>1, Zenon DEF a, q
  <2>3. /\ ioreqs'[o] = q /\ known'[o] = a
        /\ \A p \in Devs : p # o => ioreqs'[p] = ioreqs[p] /\ known'[p] = known[p]
    BY <2>2 DEF TypeOK
  <2>4. ioreqs'[o] = Tail(ioreqs[o]) /\ known'[o] = After(Head(ioreqs[o]), known[o])
    BY <2>3, Zenon DEF a, q
  <2>5. QED
    BY <1>4, <2>1, <2>3, <2>4
<1>5. QED
  BY <1>1, <1>2, <1>3, <1>4

(* NoLostRequest follows the signal: every request that is queued raises   *)
(* it, it is lowered only when the handler starts, and the handler ends on *)
(* an empty queue.                                                         *)
LEMMA NoLostRequestStep ==
  ASSUME BusInv, NoLostRequest, [Next]_vars
  PROVE  NoLostRequest'
<1>0. TypeOK /\ NewOK /\ Effect
  BY Parts, StepEffect
<1> SUFFICES ASSUME NEW p \in Devs, dst'[p] = "live", ioreqs'[p] # <<>>
             PROVE  sigreq'[p] \/ polling'[p]
  BY DEF NoLostRequest
<1>1. CASE Quiet
  BY <1>0, <1>1 DEF Quiet, usrvars, NewOK, NoLostRequest
<1>2. ASSUME NEW o \in Devs, NEW r, Sends(o, r) PROVE sigreq'[p] \/ polling'[p]
  BY <1>2 DEF Sends, NoLostRequest
<1>3. CASE \E o \in Devs, i, id \in Ids, op \in {"open", "clone"} : Takes(o, i, op, id)
  BY <1>2, <1>3 DEF Takes
<1>4. CASE \E o \in Devs, i \in Ids : Ends(o, i) \/ Outs(o, i)
  BY <1>2, <1>4 DEF Ends, Outs
<1>5. CASE \E o \in Devs, i \in Ids : Exports(o, i)
  BY <1>5 DEF Exports, NoLostRequest
<1>6. ASSUME NEW o \in Devs, Polls(o) PROVE sigreq'[p] \/ polling'[p]
  BY <1>0, <1>6, PollTable DEF NoLostRequest
<1>7. ASSUME NEW o \in Devs, Frees(o) PROVE sigreq'[p] \/ polling'[p]
  BY <1>7 DEF Frees, NoLostRequest
<1>8. QED
  BY <1>0, <1>1, <1>3, <1>4, <1>5, <1>6, <1>7 DEF Effect

(* Whatever the interleaving of openers, forks, closes, a dying owner and  *)
(* the handler itself, a request that usrdev.c has queued is never left    *)
(* without a pending signal or a running handler (thraise in __usrdev_io,  *)
(* the poll loop of __console_io_ast).                                     *)
THEOREM NoLostRequestCorrect == Spec => []NoLostRequest
<1>1. Init => NoLostRequest
  BY DEF Init, NoLostRequest
<1>2. BusInv /\ NoLostRequest /\ [Next]_vars => NoLostRequest'
  BY NoLostRequestStep
<1>3. QED
  BY <1>1, <1>2, BusInvCorrect, PTL DEF Spec

LEMMA AperturesOwnStep ==
  ASSUME BusInv, AperturesOwn, [Next]_vars
  PROVE  AperturesOwn'
<1>0. TypeOK /\ NewOK /\ Effect
  BY Parts, StepEffect
<1> DEFINE Own(x) == (\A j \in DOMAIN x.apt : x.apt[j] = x.th) /\ (~x.use => x.apt = <<>>)
<1>a. \A p \in Devs, j \in Ids : dst[p] = "live" => Own(rem[p][j])
  BY DEF AperturesOwn
<1>b. ASSUME NEW p \in Devs, NEW j \in Ids, dst'[p] = "live" PROVE Own(rem'[p][j])
  <2>e. ASSUME NEW x, x.apt = <<>> PROVE Own(x)
    BY <2>e
  <2>t. rem[p][j] \in Sessions /\ rem[p][j].apt \in Seq(Threads)
    BY <1>0 DEF TypeOK, Sessions
  <2>1. CASE Quiet
    <3>1. rem'[p][j] = rem[p][j] /\ dst[p] \in {"live", "none"}
      BY <1>b, <2>1 DEF Quiet, usrvars
    <3>2. CASE dst[p] = "none"
      BY <1>0, <2>e, <3>1, <3>2 DEF NewOK
    <3>3. QED
      BY <1>a, <3>1, <3>2
  <2>2. ASSUME NEW o \in Devs, NEW i \in Ids, NEW id \in Ids, NEW op, Takes(o, i, op, id)
        PROVE  Own(rem'[p][j])
    <3>1. dst[p] = "live" /\ dst[o] = "live"
      BY <1>b, <2>2 DEF Takes, Sends
    <3>2. CASE p = o /\ j = i
      <4>1. rem[o][i].apt = <<>>
        BY <2>2, <3>1 DEF Takes, AperturesOwn
      <4>2. QED
        BY <2>2, <2>e, <3>2, <4>1 DEF Takes
    <3>3. CASE ~(p = o /\ j = i)
      BY <1>a, <2>2, <3>1, <3>3 DEF Takes, SameRem
    <3>4. QED
      BY <3>2, <3>3
  <2>3. ASSUME NEW o \in Devs, NEW i \in Ids, Ends(o, i) PROVE Own(rem'[p][j])
    <3>1. dst[p] = "live"
      BY <1>b, <2>3 DEF Ends, Sends
    <3>2. CASE p = o /\ j = i
      BY <2>3, <2>e, <3>2 DEF Ends
    <3>3. CASE ~(p = o /\ j = i)
      BY <1>a, <2>3, <3>1, <3>3 DEF Ends, SameRem
    <3>4. QED
      BY <3>2, <3>3
  <2>4. ASSUME NEW o \in Devs, NEW i \in Ids, Outs(o, i) PROVE Own(rem'[p][j])
    BY <1>a, <1>b, <2>4 DEF Outs, Sends
  <2>5. ASSUME NEW o \in Devs, NEW i \in Ids, Exports(o, i) PROVE Own(rem'[p][j])
    <3>1. dst[p] = "live"
      BY <1>b, <2>5 DEF Exports
    <3>2. CASE p = o /\ j = i
      <4> DEFINE a == rem[p][j].apt
                 h == rem[p][j].th
      <4>1. /\ a \in Seq(Threads) /\ rem'[p][j].use /\ rem'[p][j].th = h
            /\ \A m \in DOMAIN a : a[m] = h
            /\ \/ rem'[p][j].apt = Append(a, h)
               \/ a # <<>> /\ rem'[p][j].apt = Tail(a)
        BY <1>a, <2>5, <2>t, <3>1, <3>2 DEF Exports
      <4>h. h \in Threads
        BY <2>t DEF Sessions
      <4> HIDE DEF a, h
      <4>2. \A m \in DOMAIN Append(a, h) : Append(a, h)[m] = h
        BY <4>1, <4>h
      <4>3. a # <<>> => \A m \in DOMAIN Tail(a) : Tail(a)[m] = h
        BY <4>1
      <4>4. QED
        BY <4>1, <4>2, <4>3
    <3>3. CASE ~(p = o /\ j = i)
      BY <1>a, <2>5, <3>1, <3>3 DEF Exports, SameRem
    <3>4. QED
      BY <3>2, <3>3
  <2>6. ASSUME NEW o \in Devs, Polls(o) PROVE Own(rem'[p][j])
    BY <1>0, <1>a, <1>b, <2>6, PollTable
  <2>7. ASSUME NEW o \in Devs, Frees(o) PROVE Own(rem'[p][j])
    BY <1>a, <1>b, <2>7 DEF Frees
  <2>8. QED
    BY <1>0, <2>1, <2>2, <2>3, <2>4, <2>5, <2>6, <2>7 DEF Effect
<1>c. QED
  BY <1>b DEF AperturesOwn

(* No sequence of opens, forks, exports, closes and exits gives a device   *)
(* access to memory of a thread that did not export it: an aperture        *)
(* belongs to the thread of its session, and a closed session has none     *)
(* (_usrdev_close clears the apertures that _usrdev_open does not).        *)
THEOREM AperturesOwnCorrect == Spec => []AperturesOwn
<1>1. Init => AperturesOwn
  BY DEF Init, AperturesOwn, Unused
<1>2. BusInv /\ AperturesOwn /\ [Next]_vars => AperturesOwn'
  BY AperturesOwnStep
<1>3. QED
  BY <1>1, <1>2, BusInvCorrect, PTL DEF Spec

-----------------------------------------------------------------------------
(* What the owner knows, as a function of what it knew, K, and the queue   *)
(* q; and the condition of RequestsOrdered on one device with the sessions *)
(* U in use.                                                               *)
KA(K, q, n) ==
  {i \in Ids :
     \/ i \in K /\ \A m \in 1 .. n : ~Closes(q[m], i)
     \/ \E j \in 1 .. n : /\ Opens(q[j], i)
                          /\ \A m \in j + 1 .. n : ~Closes(q[m], i)}
Sound(r, S) == /\ r.op # "open" => r.id \in S
               /\ r.op \in {"open", "clone"} => r.new \notin S
Ord(K, q, U) ==
  /\ \A n \in 1 .. Len(q) : Sound(q[n], KA(K, q, n - 1))
  /\ KA(K, q, Len(q)) = U

LEMMA OrdOf ==
  RequestsOrdered <=>
    \A o \in Devs : (dst[o] = "live" /\ o \notin detaching) => Ord(known[o], ioreqs[o], Used(o))
BY DEF RequestsOrdered, Ord, Sound, KnownAfter, KA

LEMMA AfterMem ==
  ASSUME NEW r \in Iors, NEW S, NEW i
  PROVE  /\ i \in After(r, S) <=> Opens(r, i) \/ (i \in S /\ ~Closes(r, i))
         /\ ~(Opens(r, i) /\ Closes(r, i))
<1>1. r.op \in {"open", "clone", "out", "close"}
  BY DEF Iors
<1>2. CASE r.op \in {"open", "clone"}
  BY <1>2 DEF After, Opens, Closes
<1>3. CASE r.op = "close"
  BY <1>3 DEF After, Opens, Closes
<1>4. CASE r.op = "out"
  BY <1>4 DEF After, Opens, Closes
<1>5. QED
  BY <1>1, <1>2, <1>3, <1>4

LEMMA KAPrefix ==
  ASSUME NEW K, NEW q, NEW p, NEW n \in Nat, \A m \in 1 .. n : p[m] = q[m]
  PROVE  KA(K, p, n) = KA(K, q, n)
<1>1. \A j \in 1 .. n : \A m \in j + 1 .. n : m \in 1 .. n
  OBVIOUS
<1>2. QED
  BY <1>1 DEF KA

(* One more request polled.                                                *)
LEMMA KAEnd ==
  ASSUME NEW K, NEW q, NEW n \in Nat, q[n + 1] \in Iors
  PROVE  KA(K, q, n + 1) = After(q[n + 1], KA(K, q, n))
<1> DEFINE r == q[n + 1]
<1>1. ASSUME NEW i \in Ids
      PROVE  i \in KA(K, q, n + 1) <=> Opens(r, i) \/ (i \in KA(K, q, n) /\ ~Closes(r, i))
  <2>1. (\A m \in 1 .. n + 1 : ~Closes(q[m], i)) <=> (\A m \in 1 .. n : ~Closes(q[m], i)) /\ ~Closes(r, i)
    <3>1. \A m \in 1 .. n + 1 : m \in 1 .. n \/ m = n + 1
      OBVIOUS
    <3>2. n + 1 \in 1 .. n + 1 /\ \A m \in 1 .. n : m \in 1 .. n + 1
      OBVIOUS
    <3>3. QED
      BY <3>1, <3>2
  <2>2. ASSUME NEW j \in 1 .. n
        PROVE  (\A m \in j + 1 .. n + 1 : ~Closes(q[m], i)) <=>
               (\A m \in j + 1 .. n : ~Closes(q[m], i)) /\ ~Closes(r, i)
    <3>1. \A m \in j + 1 .. n + 1 : m \in j + 1 .. n \/ m = n + 1
      OBVIOUS
    <3>2. n + 1 \in j + 1 .. n + 1 /\ \A m \in j + 1 .. n : m \in j + 1 .. n + 1
      OBVIOUS
    <3>3. QED
      BY <3>1, <3>2
  <2>3. (\E j \in 1 .. n + 1 : Opens(q[j], i) /\ \A m \in j + 1 .. n + 1 : ~Closes(q[m], i)) <=>
        \/ Opens(r, i)
        \/ /\ ~Closes(r, i)
           /\ \E j \in 1 .. n : Opens(q[j], i) /\ \A m \in j + 1 .. n : ~Closes(q[m], i)
    <3>1. \A j \in 1 .. n + 1 : j \in 1 .. n \/ j = n + 1
      OBVIOUS
    <3>2. /\ n + 1 \in 1 .. n + 1 /\ \A m \in 1 .. n : m \in 1 .. n + 1
          /\ \A m \in (n + 1) + 1 .. n + 1 : FALSE
      OBVIOUS
    <3>3. QED
      BY <2>2, <3>1, <3>2
  <2> HIDE DEF r
  <2>4. QED
    BY <2>1, <2>3 DEF KA
<1>2. ASSUME NEW i, i \in After(r, KA(K, q, n)) PROVE i \in Ids
  BY <1>2, AfterMem DEF KA, Opens, Iors
<1>3. \A i : i \in KA(K, q, n + 1) => i \in Ids
  BY DEF KA
<1>4. \A i \in Ids : i \in KA(K, q, n + 1) <=> i \in After(r, KA(K, q, n))
  BY <1>1, AfterMem
<1>5. QED
  BY <1>2, <1>3, <1>4

(* The first request polled.                                               *)
LEMMA KATail ==
  ASSUME NEW K \in SUBSET Ids, NEW q \in Seq(Iors), q # <<>>, NEW n \in 0 .. Len(q) - 1
  PROVE  KA(After(Head(q), K), Tail(q), n) = KA(K, q, n + 1)
<1> DEFINE r == q[1]
           T == Tail(q)
<1>0. /\ r \in Iors /\ Head(q) = r /\ \A m \in 1 .. n : T[m] = q[m + 1]
  OBVIOUS
<1> HIDE DEF T
<1>1. ASSUME NEW i \in Ids
      PROVE  i \in KA(After(r, K), T, n) <=> i \in KA(K, q, n + 1)
  <2> DEFINE C(m) == Closes(q[m], i)
             O(m) == Opens(q[m], i)
  <2>a. /\ i \in After(r, K) <=> O(1) \/ (i \in K /\ ~C(1))
        /\ ~(O(1) /\ C(1))
    BY <1>0, AfterMem
  <2>b. i \in KA(After(r, K), T, n) <=>
          \/ (O(1) \/ (i \in K /\ ~C(1))) /\ \A m \in 1 .. n : ~C(m + 1)
          \/ \E j \in 1 .. n : O(j + 1) /\ \A m \in j + 1 .. n : ~C(m + 1)
    <3>1. \A j \in 1 .. n : \A m \in j + 1 .. n : m \in 1 .. n
      OBVIOUS
    <3>2. \A m \in 1 .. n : (Closes(T[m], i) <=> C(m + 1)) /\ (Opens(T[m], i) <=> O(m + 1))
      BY <1>0
    <3> HIDE DEF C, O
    <3>3. QED
      BY <2>a, <3>1, <3>2 DEF KA
  <2>c. i \in KA(K, q, n + 1) <=>
          \/ i \in K /\ \A m \in 1 .. n + 1 : ~C(m)
          \/ \E j \in 1 .. n + 1 : O(j) /\ \A m \in j + 1 .. n + 1 : ~C(m)
    BY DEF KA
  <2> HIDE DEF C, O
  <2>1. (\A m \in 1 .. n + 1 : ~C(m)) <=> ~C(1) /\ \A m \in 1 .. n : ~C(m + 1)
    <3>1. \A m \in 1 .. n + 1 : m = 1 \/ (m - 1 \in 1 .. n /\ m = (m - 1) + 1)
      OBVIOUS
    <3>2. 1 \in 1 .. n + 1 /\ \A m \in 1 .. n : m + 1 \in 1 .. n + 1
      OBVIOUS
    <3>3. QED
      BY <3>1, <3>2
  <2>2. (\A m \in 1 + 1 .. n + 1 : ~C(m)) <=> \A m \in 1 .. n : ~C(m + 1)
    <3>1. \A m \in 1 + 1 .. n + 1 : m - 1 \in 1 .. n /\ m = (m - 1) + 1
      OBVIOUS
    <3>2. \A m \in 1 .. n : m + 1 \in 1 + 1 .. n + 1
      OBVIOUS
    <3>3. QED
      BY <3>1, <3>2
  <2>3. ASSUME NEW j \in 1 .. n
        PROVE  (\A m \in (j + 1) + 1 .. n + 1 : ~C(m)) <=> \A m \in j + 1 .. n : ~C(m + 1)
    <3>1. \A m \in (j + 1) + 1 .. n + 1 : m - 1 \in j + 1 .. n /\ m = (m - 1) + 1
      OBVIOUS
    <3>2. \A m \in j + 1 .. n : m + 1 \in (j + 1) + 1 .. n + 1
      OBVIOUS
    <3>3. QED
      BY <3>1, <3>2
  <2>4. (\E j \in 1 .. n + 1 : O(j) /\ \A m \in j + 1 .. n + 1 : ~C(m)) <=>
          \/ O(1) /\ \A m \in 1 .. n : ~C(m + 1)
          \/ \E j \in 1 .. n : O(j + 1) /\ \A m \in j + 1 .. n : ~C(m + 1)
    <3> DEFINE P(j) == O(j) /\ \A m \in j + 1 .. n + 1 : ~C(m)
    <3>1. P(1) <=> O(1) /\ \A m \in 1 .. n : ~C(m + 1)
      BY <2>2
    <3>2. \A j \in 1 .. n : P(j + 1) <=> O(j + 1) /\ \A m \in j + 1 .. n : ~C(m + 1)
      BY <2>3
    <3> HIDE DEF P
    <3>3. (\E j \in 1 .. n + 1 : P(j)) <=> P(1) \/ \E j \in 1 .. n : P(j + 1)
      <4>1. \A m \in 1 .. n + 1 : m = 1 \/ (m - 1 \in 1 .. n /\ m = (m - 1) + 1)
        OBVIOUS
      <4>2. 1 \in 1 .. n + 1 /\ \A m \in 1 .. n : m + 1 \in 1 .. n + 1
        OBVIOUS
      <4>3. QED
        BY <4>1, <4>2
    <3>4. (\E j \in 1 .. n : P(j + 1)) <=>
          \E j \in 1 .. n : O(j + 1) /\ \A m \in j + 1 .. n : ~C(m + 1)
      BY <3>2
    <3>5. QED
      BY <3>1, <3>3, <3>4 DEF P
  <2>5. QED
    BY <2>a, <2>b, <2>c, <2>1, <2>4
<1>2. QED
  BY <1>0, <1>1 DEF KA, T

LEMMA OrdAppend ==
  ASSUME NEW K \in SUBSET Ids, NEW q \in Seq(Iors), NEW U, Ord(K, q, U),
         NEW r \in Iors, Sound(r, U)
  PROVE  Ord(K, Append(q, r), After(r, U))
<1> DEFINE Q == Append(q, r)
           L == Len(q)
<1>0. /\ L \in Nat /\ Len(Q) = L + 1 /\ Q[L + 1] = r
      /\ \A m \in 1 .. L : Q[m] = q[m]
  OBVIOUS
<1> HIDE DEF Q, L
<1>1. \A n \in 0 .. L : KA(K, Q, n) = KA(K, q, n)
  BY <1>0, KAPrefix
<1>2. KA(K, Q, L) = U
  BY <1>0, <1>1 DEF Ord, L
<1>3. KA(K, Q, L + 1) = After(r, U)
  BY <1>0, <1>2, KAEnd
<1>4. ASSUME NEW n \in 1 .. Len(Q) PROVE Sound(Q[n], KA(K, Q, n - 1))
  <2>1. CASE n = L + 1
    BY <1>0, <1>2, <2>1
  <2>2. CASE n \in 1 .. L
    BY <1>0, <1>1, <2>2 DEF Ord, L
  <2>3. QED
    BY <1>0, <2>1, <2>2
<1>5. QED
  BY <1>0, <1>3, <1>4 DEF Ord, Q

LEMMA OrdTail ==
  ASSUME NEW K \in SUBSET Ids, NEW q \in Seq(Iors), NEW U, Ord(K, q, U), q # <<>>
  PROVE  Ord(After(Head(q), K), Tail(q), U)
<1> DEFINE T == Tail(q)
           H == After(Head(q), K)
<1>0. /\ Len(q) \in Nat \ {0} /\ Len(T) = Len(q) - 1 /\ \A n \in 1 .. Len(T) : T[n] = q[n + 1]
  OBVIOUS
<1>1. \A n \in 0 .. Len(q) - 1 : KA(H, T, n) = KA(K, q, n + 1)
  BY KATail
<1> HIDE DEF T, H
<1>2. KA(H, T, Len(T)) = U
  BY <1>0, <1>1 DEF Ord
<1>3. ASSUME NEW n \in 1 .. Len(T) PROVE Sound(T[n], KA(H, T, n - 1))
  <2>1. T[n] = q[n + 1] /\ n + 1 \in 1 .. Len(q) /\ n - 1 \in 0 .. Len(q) - 1
        /\ (n - 1) + 1 = (n + 1) - 1
    BY <1>0
  <2>2. Sound(q[n + 1], KA(K, q, (n + 1) - 1))
    BY <2>1 DEF Ord
  <2>3. KA(H, T, n - 1) = KA(K, q, (n + 1) - 1)
    BY <1>1, <2>1
  <2>4. QED
    BY <2>1, <2>2, <2>3
<1>4. QED
  BY <1>2, <1>3 DEF Ord, T, H

LEMMA OrdEmpty == Ord({}, <<>>, {})
BY DEF Ord, KA

(* What a request says of the sessions in use is what the table says.      *)
LEMMA UsedAfter ==
  ASSUME NEW o \in Devs, NEW i \in Ids, SameRem(o, i), NEW op, NEW id \in Ids,
         \/ op \in {"open", "clone"} /\ rem'[o][i].use
         \/ op = "close" /\ id = i /\ ~rem'[o][i].use
  PROVE  Used(o)' = After(Ior(op, id, i), Used(o))
<1>1. Ior(op, id, i) \in Iors
  BY DEF Ior, Iors
<1>2. /\ Opens(Ior(op, id, i), i) <=> op \in {"open", "clone"}
      /\ Closes(Ior(op, id, i), i) <=> op = "close" /\ id = i
      /\ \A j : j # i => ~Opens(Ior(op, id, i), j)
      /\ \A j : j # i => (Closes(Ior(op, id, i), j) <=> op = "close" /\ id = j)
  BY DEF Opens, Closes, Ior
<1>3. ASSUME NEW j \in Ids
      PROVE  rem'[o][j].use <=> j \in After(Ior(op, id, i), Used(o))
  <2>1. CASE j = i
    BY <1>1, <1>2, <2>1, AfterMem DEF Used
  <2>2. CASE j # i
    BY <1>1, <1>2, <2>2, AfterMem DEF Used, SameRem
  <2>3. QED
    BY <2>1, <2>2
<1>4. \A j : j \in After(Ior(op, id, i), Used(o)) => j \in Ids
  BY <1>1, <1>2, AfterMem DEF Used
<1>5. QED
  BY <1>3, <1>4 DEF Used

LEMMA SendOrdered ==
  ASSUME TypeOK, NEW o \in Devs, o \notin detaching, NEW op \in {"open", "clone", "out", "close"},
         NEW id \in Ids, NEW i \in Ids, Sends(o, Ior(op, id, i)),
         Ord(known[o], ioreqs[o], Used(o)), Sound(Ior(op, id, i), Used(o)),
         Used(o)' = After(Ior(op, id, i), Used(o))
  PROVE  Ord(known[o], ioreqs[o], Used(o))'
<1>1. known[o] \in SUBSET Ids /\ ioreqs[o] \in Seq(Iors)
  BY DEF TypeOK
<1>2. Ior(op, id, i) \in Iors
  BY DEF Ior, Iors
<1>3. Ord(known[o], Append(ioreqs[o], Ior(op, id, i)), Used(o)')
  BY <1>1, <1>2, OrdAppend
<1>4. known'[o] = known[o] /\ ioreqs'[o] = Append(ioreqs[o], Ior(op, id, i))
  BY DEF Sends
<1>5. QED
  BY <1>3, <1>4

LEMMA RequestsOrderedStep ==
  ASSUME BusInv, RequestsOrdered, [Next]_vars
  PROVE  RequestsOrdered'
<1>0. TypeOK /\ NewOK /\ Effect
  BY Parts, StepEffect
<1>a. ASSUME NEW p \in Devs, dst[p] = "live", p \notin detaching
      PROVE  Ord(known[p], ioreqs[p], Used(p))
  BY <1>a, OrdOf
<1>b. ASSUME NEW p \in Devs, known'[p] = known[p], ioreqs'[p] = ioreqs[p], rem'[p] = rem[p],
             Ord(known[p], ioreqs[p], Used(p))
      PROVE  Ord(known[p], ioreqs[p], Used(p))'
  <2>1. Used(p)' = Used(p)
    BY <1>b DEF Used
  <2>2. QED
    BY <1>b, <2>1
<1>c. ASSUME NEW p \in Devs, dst'[p] = "live", p \notin detaching'
      PROVE  Ord(known[p], ioreqs[p], Used(p))'
  <2>1. CASE Quiet
    <3>1. /\ known'[p] = known[p] /\ ioreqs'[p] = ioreqs[p] /\ rem'[p] = rem[p]
          /\ dst[p] \in {"live", "none"} /\ p \notin detaching
      BY <1>c, <2>1 DEF Quiet, usrvars
    <3>2. CASE dst[p] = "none"
      <4>1. known[p] = {} /\ ioreqs[p] = <<>> /\ Used(p) = {}
        BY <1>0, <3>2 DEF NewOK, Used
      <4>2. QED
        BY <1>b, <3>1, <4>1, OrdEmpty
    <3>3. QED
      BY <1>a, <1>b, <3>1, <3>2
  <2>f. ASSUME NEW o \in Devs, NEW i \in Ids, NEW r, Sends(o, r), p # o, SameRem(o, i)
        PROVE  Ord(known[p], ioreqs[p], Used(p))'
    <3>1. /\ known'[p] = known[p] /\ ioreqs'[p] = ioreqs[p]
          /\ dst[p] = "live" /\ p \notin detaching
      BY <1>c, <2>f DEF Sends
    <3>2. Used(p)' = Used(p)
      BY <2>f DEF SameRem, Used
    <3>3. QED
      BY <1>a, <3>1, <3>2
  <2>2. ASSUME NEW o \in Devs, NEW i \in Ids, NEW id \in Ids, NEW op \in {"open", "clone"},
               Takes(o, i, op, id)
        PROVE  Ord(known[p], ioreqs[p], Used(p))'
    <3>1. CASE p = o
      <4>1. dst[o] = "live" /\ o \notin detaching
        BY <1>c, <2>2, <3>1 DEF Takes, Sends
      <4>2. Sound(Ior(op, id, i), Used(o))
        BY <2>2 DEF Takes, Sound, Ior, Used
      <4>3. Used(o)' = After(Ior(op, id, i), Used(o))
        BY <2>2, UsedAfter DEF Takes
      <4>4. Sends(o, Ior(op, id, i))
        BY <2>2 DEF Takes
      <4>5. Ord(known[o], ioreqs[o], Used(o))
        BY <1>a, <4>1
      <4>6. Ord(known[o], ioreqs[o], Used(o))'
        BY <1>0, <4>1, <4>2, <4>3, <4>4, <4>5, SendOrdered
      <4>7. QED
        BY <3>1, <4>6
    <3>2. CASE p # o
      BY <2>2, <2>f, <3>2 DEF Takes
    <3>3. QED
      BY <3>1, <3>2
  <2>3. ASSUME NEW o \in Devs, NEW i \in Ids, Ends(o, i)
        PROVE  Ord(known[p], ioreqs[p], Used(p))'
    <3>1. CASE p = o
      <4>1. dst[o] = "live" /\ o \notin detaching
        BY <1>c, <2>3, <3>1 DEF Ends, Sends
      <4>2. Sound(Ior("close", i, i), Used(o))
        BY <2>3 DEF Ends, Sound, Ior, Used
      <4>3. Used(o)' = After(Ior("close", i, i), Used(o))
        BY <2>3, UsedAfter DEF Ends
      <4>4. Sends(o, Ior("close", i, i))
        BY <2>3 DEF Ends
      <4>5. Ord(known[o], ioreqs[o], Used(o))
        BY <1>a, <4>1
      <4>6. Ord(known[o], ioreqs[o], Used(o))'
        BY <1>0, <4>1, <4>2, <4>3, <4>4, <4>5, SendOrdered
      <4>7. QED
        BY <3>1, <4>6
    <3>2. CASE p # o
      BY <2>3, <2>f, <3>2 DEF Ends
    <3>3. QED
      BY <3>1, <3>2
  <2>4. ASSUME NEW o \in Devs, NEW i \in Ids, Outs(o, i)
        PROVE  Ord(known[p], ioreqs[p], Used(p))'
    <3>1. CASE p = o
      <4>1. dst[o] = "live" /\ o \notin detaching
        BY <1>c, <2>4, <3>1 DEF Outs, Sends
      <4>2. Sound(Ior("out", i, i), Used(o))
        BY <2>4 DEF Outs, Sound, Ior, Used
      <4>3. Used(o)' = After(Ior("out", i, i), Used(o))
        BY <2>4 DEF Outs, After, Ior, Used
      <4>4. Sends(o, Ior("out", i, i))
        BY <2>4 DEF Outs
      <4>5. Ord(known[o], ioreqs[o], Used(o))
        BY <1>a, <4>1
      <4>6. Ord(known[o], ioreqs[o], Used(o))'
        BY <1>0, <4>1, <4>2, <4>3, <4>4, <4>5, SendOrdered
      <4>7. QED
        BY <3>1, <4>6
    <3>2. CASE p # o
      BY <2>4, <2>f, <3>2 DEF Outs, SameRem
    <3>3. QED
      BY <3>1, <3>2
  <2>5. ASSUME NEW o \in Devs, NEW i \in Ids, Exports(o, i)
        PROVE  Ord(known[p], ioreqs[p], Used(p))'
    <3>1. /\ known'[p] = known[p] /\ ioreqs'[p] = ioreqs[p]
          /\ dst[p] = "live" /\ p \notin detaching
      BY <1>c, <2>5 DEF Exports
    <3>2. \A j \in Ids : rem'[p][j].use <=> rem[p][j].use
      BY <2>5 DEF Exports, SameRem
    <3>3. Used(p)' = Used(p)
      BY <3>2 DEF Used
    <3>4. QED
      BY <1>a, <3>1, <3>3
  <2>6. ASSUME NEW o \in Devs, Polls(o) PROVE Ord(known[p], ioreqs[p], Used(p))'
    <3>1. UNCHANGED <<dst, detaching, rem>> /\ Ord(known[p], ioreqs[p], Used(p))
      BY <1>0, <1>a, <1>c, <2>6, PollTable
    <3>2. CASE known'[p] = known[p] /\ ioreqs'[p] = ioreqs[p]
      BY <1>b, <3>1, <3>2
    <3>3. CASE /\ ioreqs[p] # <<>> /\ ioreqs'[p] = Tail(ioreqs[p])
               /\ known'[p] = After(Head(ioreqs[p]), known[p])
      <4>1. known[p] \in SUBSET Ids /\ ioreqs[p] \in Seq(Iors)
        BY <1>0 DEF TypeOK
      <4>2. Ord(After(Head(ioreqs[p]), known[p]), Tail(ioreqs[p]), Used(p))
        BY <3>1, <3>3, <4>1, OrdTail
      <4>3. Used(p)' = Used(p)
        BY <3>1 DEF Used
      <4>4. QED
        BY <3>3, <4>2, <4>3
    <3>4. QED
      BY <1>0, <2>6, <3>2, <3>3, PollTable
  <2>7. ASSUME NEW o \in Devs, Frees(o) PROVE Ord(known[p], ioreqs[p], Used(p))'
    BY <1>a, <1>b, <1>c, <2>7 DEF Frees
  <2>8. QED
    BY <1>0, <2>1, <2>2, <2>3, <2>4, <2>5, <2>6, <2>7 DEF Effect
<1>d. QED
  BY <1>c DEF RequestsOrdered, Ord, Sound, KnownAfter, KA

(* Every request the owner of a device polls makes sense to it, and after  *)
(* the last one it knows exactly the sessions in use: opens, clones,       *)
(* outputs and closes of the same session reach the queue in the order in  *)
(* which usrdev.c changed the table, whichever threads they come from, and *)
(* the number of a closed session is not given again ahead of its CLOSE.   *)
THEOREM RequestsOrderedCorrect == Spec => []RequestsOrdered
<1>1. Init => RequestsOrdered
  BY DEF Init, RequestsOrdered
<1>2. BusInv /\ RequestsOrdered /\ [Next]_vars => RequestsOrdered'
  BY RequestsOrderedStep
<1>3. QED
  BY <1>1, <1>2, BusInvCorrect, PTL DEF Spec
=============================================================================

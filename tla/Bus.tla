-------------------------------- MODULE Bus --------------------------------
(***************************************************************************)
(* The device bus of the MH microkernel and the devices that processes     *)
(* implement: ukern/src/bus.c (bus_plug, bus_copy, bus_unplug, OP_CALL,    *)
(* dev_attach, dev_detach), ukern/src/usrdev.c (sessions, request queue,   *)
(* apertures) and the calls of ukern/src/kern.c that use them (devcreat,   *)
(* devpoll, devopen, thfork, __exit).                                      *)
(*                                                                         *)
(* A process opens a device by name: an entry of its bus and a remote      *)
(* descriptor (`session') of the device refer to each other from then on.  *)
(* Requests go to the queue of the device and are polled by its owner.     *)
(* A device is destroyed when its owner exits, while other CPUs may be in  *)
(* the middle of a call on it.                                             *)
(*                                                                         *)
(* A step is a locked section, or the code between two of them.  Only the  *)
(* bus lock is ever held from one step to the next (`locked').  Using the  *)
(* memory of a freed device or thread, or a NULL bus, is undefined: it     *)
(* sets `damaged' and nothing is modelled after it.                        *)
(***************************************************************************)
EXTENDS Integers, Sequences, FiniteSets

CONSTANTS Threads,    \* thread structures
          Init0,      \* __kern_init, which never exits
          Devs,       \* device structures; each is created once
          NoDev,      \* NULL
          MaxBusDevs, \* MAXBUSDEVS
          MaxRems,    \* MAXUSRDEVREMS
          MaxAperts,  \* MAXUSRDEVAPERTS
          MaxReqs,    \* bound: no open, output or fork starts with that many requests queued
          NCpus       \* number of CPUs

ASSUME ThreadsAssumption == Init0 \in Threads /\ IsFiniteSet(Threads)
ASSUME DevsAssumption == NoDev \notin Devs
ASSUME SizesAssumption == /\ MaxBusDevs \in Nat \ {0}
                          /\ MaxRems \in Nat \ {0}
                          /\ MaxAperts \in Nat
                          /\ MaxReqs \in Nat
                          /\ NCpus \in Nat \ {0}

Slots == 1 .. MaxBusDevs
Ids == 0 .. MaxRems - 1

VARIABLES st,       \* threads: "free", "embryo" (in thfork), "live", "zombie"
          bus,      \* th->bus.devs of each thread
          locked,   \* threads whose bus lock is held
          dst,      \* devices: "none", "live", "freed"
          tree,     \* sys_device_rbtree
          offline,  \* devices with dev.offline
          detaching,\* devices with ud->detaching
          owner,    \* ud->th
          busdevs,  \* dev.busdevs, as a set of bus entries <<thread, slot>>
          rem,      \* ud->remths
          ioreqs,   \* ud->ioreqs
          sigreq,   \* whether ud->sig is pending at the owner
          polling,  \* whether the owner's request handler runs
          known,    \* the sessions the owner believes open, from what it polled
          k,        \* continuation of each thread in the kernel
          damaged   \* freed or NULL memory was used

devvars == <<dst, tree, offline, detaching, owner>>
usrvars == <<rem, ioreqs, sigreq>>
vars == <<st, bus, locked, devvars, busdevs, usrvars, polling, known, k, damaged>>

-----------------------------------------------------------------------------
Empty == [bsy |-> FALSE, plg |-> FALSE, bus |-> FALSE, dev |-> NoDev, devid |-> 0]
Unused == [use |-> FALSE, th |-> Init0, apt |-> <<>>]

(* Requests; `new' is the session that OPEN and CLONE bring to life.       *)
Ior(op, id, new) == [op |-> op, id |-> id, new |-> new]

(* Continuations: the next step and its arguments, a device o, a bus entry *)
(* <<n, s>>, a session id and the bus entries of a destroy list.           *)
At(pc, o, n, s, id, todo) ==
  [pc |-> pc, o |-> o, n |-> n, s |-> s, id |-> id, todo |-> todo]
User(t) == At("user", NoDev, t, 1, 0, {})

Init ==
  /\ st = [t \in Threads |-> IF t = Init0 THEN "live" ELSE "free"]
  /\ bus = [t \in Threads |-> [s \in Slots |-> Empty]]
  /\ locked = {}
  /\ dst = [o \in Devs |-> "none"]
  /\ tree = {}
  /\ offline = {}
  /\ detaching = {}
  /\ owner = [o \in Devs |-> Init0]
  /\ busdevs = [o \in Devs |-> {}]
  /\ rem = [o \in Devs |-> [i \in Ids |-> Unused]]
  /\ ioreqs = [o \in Devs |-> <<>>]
  /\ sigreq = [o \in Devs |-> FALSE]
  /\ polling = [o \in Devs |-> FALSE]
  /\ known = [o \in Devs |-> {}]
  /\ k = [t \in Threads |-> User(t)]
  /\ damaged = FALSE

(* t enters the kernel from user mode, on a CPU of its own.                *)
Enter(t) ==
  /\ ~damaged
  /\ st[t] = "live"
  /\ k[t].pc = "user"
  /\ Cardinality({u \in Threads : k[u].pc # "user"}) < NCpus

Is(t, pc) == k[t].pc = pc /\ ~damaged
Goto(t, x) == k' = [k EXCEPT ![t] = x]

(* The number the search for the first free entry ends with, if any.       *)
First(S) == {x \in S : \A y \in S : x <= y}

-----------------------------------------------------------------------------
(* Sessions of a user device.                                              *)
Used(o) == {i \in Ids : rem[o][i].use}
FreeIdPast(o) == First((0 .. MaxRems) \ Used(o)) \* mutant: one entry too many
FreeId(o) == First(Ids \ Used(o))

(* Append r and raise the request signal, unless the device is detaching.  *)
RequestHead(o, r) ==                       \* mutant: TAILQ_INSERT_HEAD
  IF o \in detaching THEN UNCHANGED <<ioreqs, sigreq>>
  ELSE /\ ioreqs' = [ioreqs EXCEPT ![o] = <<r>> \o @]
       /\ sigreq' = [sigreq EXCEPT ![o] = TRUE]
RequestSilent(o, r) ==                     \* mutant: no thraise for CLOSE
  IF o \in detaching THEN UNCHANGED <<ioreqs, sigreq>>
  ELSE /\ ioreqs' = [ioreqs EXCEPT ![o] = Append(@, r)]
       /\ sigreq' = [sigreq EXCEPT ![o] = @ \/ r.op # "close"]
Request(o, r) ==
  IF o \in detaching THEN UNCHANGED <<ioreqs, sigreq>>
  ELSE /\ ioreqs' = [ioreqs EXCEPT ![o] = Append(@, r)]
       /\ sigreq' = [sigreq EXCEPT ![o] = TRUE]

(* The table entry _usrdev_open and _usrdev_clone give to thread t.  The   *)
(* apertures are those _usrdev_close left.                                 *)
Session(o, i, t) == [rem[o][i] EXCEPT !.use = TRUE, !.th = t]

(* _usrdev_close of session i.                                             *)
Closed(o, i) == [rem[o][i] EXCEPT !.use = FALSE, !.apt = <<>>]
UsrdevClose(o, i) ==
  /\ rem' = [rem EXCEPT ![o][i] = Closed(o, i)]
  /\ Request(o, Ior("close", i, i))

-----------------------------------------------------------------------------
(* devcreat: usrdev_creat, dev_attach.  A name in the tree is -EEXIST.     *)
DevCreat(t, o) ==
  /\ Enter(t)
  /\ dst[o] = "none"
  /\ tree = {}
  /\ dst' = [dst EXCEPT ![o] = "live"]
  /\ tree' = {o}
  /\ owner' = [owner EXCEPT ![o] = t]
  /\ UNCHANGED <<st, bus, locked, offline, detaching, busdevs, usrvars, polling,
                 known, k, damaged>>

(* bus_plug: the device is looked up and the tree unlocked.                *)
BusPlugFind(t, o) ==
  /\ Enter(t)
  /\ o \in tree
  /\ Len(ioreqs[o]) < MaxReqs
  /\ Goto(t, At("plug", o, t, 1, 0, {}))
  /\ UNCHANGED <<st, bus, locked, devvars, busdevs, usrvars, polling, known, damaged>>

FreeSlots(t) == First({s \in Slots : ~bus[t][s].bsy /\ bus[t][s].dev = NoDev})

(* The calls that fail: -EMFILE, -ESRCH or -ENFILE.                        *)
BusPlugFail(t) ==
  LET o == k[t].o IN
  /\ Is(t, "plug")
  /\ dst[o] = "live"
  /\ FreeSlots(t) = {} \/ o \in offline \/ FreeId(o) = {}
  /\ Goto(t, User(t))
  /\ UNCHANGED <<st, bus, locked, devvars, busdevs, usrvars, polling, known, damaged>>

(* Under the bus and the device lock: open, insert in busdevs, set plg.    *)
(* Meanwhile `detaching' may be set: the session is taken all the same and *)
(* the call returns -ENODEV.  The device lock is then dropped, the bus     *)
(* lock is kept.                                                           *)
BusPlugOpen(t) ==
  LET o == k[t].o IN
  /\ Is(t, "plug")
  /\ dst[o] = "live"
  /\ o \notin offline
  /\ \E s \in FreeSlots(t), i \in FreeId(o) :
       /\ rem' = [rem EXCEPT ![o][i] = Session(o, i, t)]
       /\ Request(o, Ior("open", i, i))
       /\ IF o \in detaching
          THEN Goto(t, User(t)) /\ UNCHANGED <<bus, locked, busdevs>>
          ELSE /\ busdevs' = [busdevs EXCEPT ![o] = @ \cup {<<t, s>>}]
               /\ bus' = [bus EXCEPT ![t][s].plg = TRUE]
               /\ locked' = locked \cup {t}
               /\ Goto(t, At("mark", o, t, s, i, {}))
  /\ UNCHANGED <<st, devvars, polling, known, damaged>>

(* The end of bus_plug and bus_copy: the entry gets its pointers, and the  *)
(* bus lock is dropped.                                                    *)
Marked(e, o, i) == [e EXCEPT !.bsy = TRUE, !.bus = TRUE, !.dev = o, !.devid = i]
BusMark(t) ==
  LET x == k[t] IN
  /\ Is(t, "mark")
  /\ bus' = [bus EXCEPT ![x.n][x.s] = Marked(@, x.o, x.id)]
  /\ locked' = locked \ {x.n}
  /\ Goto(t, IF x.n = t THEN User(t) ELSE At("copy", NoDev, x.n, x.s + 1, 0, {}))
  /\ UNCHANGED <<st, devvars, busdevs, usrvars, polling, known, damaged>>

-----------------------------------------------------------------------------
(* bus_unplug of slot s of t, and what is left of the entry.               *)
UnpluggedHalf(e) == [e EXCEPT !.bsy = FALSE] \* mutant: plg and dev are kept
Unplugged(e) == Empty
CanUnplug(t, s) == bus[t][s].plg /\ bus[t][s].dev \notin offline
BusUnplug(t, s) ==
  LET o == bus[t][s].dev
      i == bus[t][s].devid IN
  IF CanUnplug(t, s)
  THEN /\ UsrdevClose(o, i)
       /\ busdevs' = [busdevs EXCEPT ![o] = @ \ {<<t, s>>}]
       /\ bus' = [bus EXCEPT ![t][s] = Unplugged(@)]
  ELSE /\ bus' = [bus EXCEPT ![t][s].bsy = FALSE]
       /\ UNCHANGED <<busdevs, usrvars>>

SysClose(t, s) ==
  /\ Enter(t)
  /\ BusUnplug(t, s)
  /\ UNCHANGED <<st, locked, devvars, polling, known, k, damaged>>

(* bus_get_dev finds device o in slot s of t.                              *)
Plugged(t, s, o) == bus[t][s].plg /\ bus[t][s].dev = o /\ o \notin offline

SysOut(t, s, o) ==
  /\ Enter(t)
  /\ Plugged(t, s, o)
  /\ Len(ioreqs[o]) < MaxReqs
  /\ Request(o, Ior("out", bus[t][s].devid, bus[t][s].devid))
  /\ UNCHANGED <<st, bus, locked, devvars, busdevs, rem, polling, known, k, damaged>>

(* _usrdev_export, with the thread that exports; -EBUSY when the aperture  *)
(* table is full.                                                          *)
SysExport(t, s, o) ==
  LET i == bus[t][s].devid IN
  /\ Enter(t)
  /\ Plugged(t, s, o)
  /\ Len(rem[o][i].apt) < MaxAperts
  /\ rem' = [rem EXCEPT ![o][i].apt = Append(@, t)]
  /\ UNCHANGED <<st, bus, locked, devvars, busdevs, ioreqs, sigreq, polling,
                 known, k, damaged>>

SysUnexport(t, s, o) ==
  LET i == bus[t][s].devid IN
  /\ Enter(t)
  /\ Plugged(t, s, o)
  /\ rem[o][i].apt # <<>>
  /\ rem' = [rem EXCEPT ![o][i].apt = Tail(@)]
  /\ UNCHANGED <<st, bus, locked, devvars, busdevs, ioreqs, sigreq, polling,
                 known, k, damaged>>

-----------------------------------------------------------------------------
(* The owner: its handler polls until -ENOENT (__console_io_ast).          *)
OwnerSignal(t, o) ==
  /\ Enter(t)
  /\ dst[o] = "live"
  /\ owner[o] = t
  /\ sigreq[o]
  /\ sigreq' = [sigreq EXCEPT ![o] = FALSE]
  /\ polling' = [polling EXCEPT ![o] = TRUE]
  /\ UNCHANGED <<st, bus, locked, devvars, busdevs, rem, ioreqs, known, k, damaged>>

(* What the owner knows after request r.                                   *)
After(r, S) ==
  CASE r.op \in {"open", "clone"} -> S \cup {r.new}
    [] r.op = "close" -> S \ {r.id}
    [] OTHER -> S

DevPoll(t, o) ==
  /\ Enter(t)
  /\ dst[o] = "live"
  /\ owner[o] = t
  /\ polling[o]
  /\ IF ioreqs[o] = <<>>
     THEN polling' = [polling EXCEPT ![o] = FALSE] /\ UNCHANGED <<ioreqs, known>>
     ELSE /\ ioreqs' = [ioreqs EXCEPT ![o] = Tail(@)]
          /\ known' = [known EXCEPT ![o] = After(Head(ioreqs[o]), @)]
          /\ UNCHANGED polling
  /\ UNCHANGED <<st, bus, locked, devvars, busdevs, rem, sigreq, k, damaged>>

-----------------------------------------------------------------------------
(* thfork: the new thread starts with an empty bus, and the slots of its   *)
(* parent are copied one by one.                                           *)
SysFork(t, n) ==
  /\ Enter(t)
  /\ st[n] = "free"
  /\ \A o \in Devs : Len(ioreqs[o]) < MaxReqs
  /\ st' = [st EXCEPT ![n] = "embryo"]
  /\ bus' = [bus EXCEPT ![n] = [s \in Slots |-> Empty]]
  /\ Goto(t, At("copy", NoDev, n, 1, 0, {}))
  /\ UNCHANGED <<locked, devvars, busdevs, usrvars, polling, known, damaged>>

(* bus_copy up to the unlock of the parent's bus: an entry that is not     *)
(* plugged, an offline device or a full session table is skipped, and      *)
(* `detaching' takes a session and fails.                                  *)
ClonedAperts(o, i, id, n) ==          \* mutant: apertbl is copied
  [rem[o][i] EXCEPT !.use = TRUE, !.th = n, !.apt = rem[o][id].apt]
Cloned(o, i, id, n) == Session(o, i, n)

CanClone(t, s) ==
  /\ bus[t][s].plg
  /\ bus[t][s].dev \notin offline
  /\ FreeId(bus[t][s].dev) # {}

BusCopyClone(t) ==
  LET x == k[t]
      o == bus[t][x.s].dev
      id == bus[t][x.s].devid IN
  /\ Is(t, "copy")
  /\ x.s \in Slots
  /\ CanClone(t, x.s)
  /\ \E i \in FreeId(o) :
       /\ rem' = [rem EXCEPT ![o][i] = Cloned(o, i, id, x.n)]
       /\ Request(o, Ior("clone", id, i))
       /\ IF o \in detaching
          THEN /\ Goto(t, At("copy", NoDev, x.n, x.s + 1, 0, {}))
               /\ UNCHANGED bus
          ELSE /\ Goto(t, At("link", o, x.n, x.s, i, {}))
               /\ bus' = [bus EXCEPT ![x.n][x.s].plg = TRUE]
  /\ UNCHANGED <<st, locked, devvars, busdevs, polling, known, damaged>>

BusCopySkip(t) ==
  LET x == k[t] IN
  /\ Is(t, "copy")
  /\ x.s \in Slots
  /\ ~CanClone(t, x.s)
  /\ Goto(t, At("copy", NoDev, x.n, x.s + 1, 0, {}))
  /\ UNCHANGED <<st, bus, locked, devvars, busdevs, usrvars, polling, known, damaged>>

(* The second half of bus_copy, under the bus lock of the new thread.      *)
BusCopyLink(t) ==
  LET x == k[t] IN
  /\ Is(t, "link")
  /\ dst[x.o] = "live"
  /\ IF x.o \in offline
     THEN /\ bus' = [bus EXCEPT ![x.n][x.s].plg = FALSE]
          /\ Goto(t, At("copy", NoDev, x.n, x.s + 1, 0, {}))
          /\ UNCHANGED <<busdevs, locked>>
     ELSE /\ busdevs' = [busdevs EXCEPT ![x.o] = @ \cup {<<x.n, x.s>>}]
          /\ locked' = locked \cup {x.n}
          /\ Goto(t, At("mark", x.o, x.n, x.s, x.id, {}))
          /\ UNCHANGED bus
  /\ UNCHANGED <<st, devvars, usrvars, polling, known, damaged>>

ForkEnd(t) ==
  /\ Is(t, "copy")
  /\ k[t].s \notin Slots
  /\ st' = [st EXCEPT ![k[t].n] = "live"]
  /\ Goto(t, User(t))
  /\ UNCHANGED <<bus, locked, devvars, busdevs, usrvars, polling, known, damaged>>

-----------------------------------------------------------------------------
(* __exit: bus_remove unplugs every slot, then the devices are destroyed.  *)
SysDie(t) ==
  /\ Enter(t)
  /\ t # Init0
  /\ Goto(t, At("unplug", NoDev, t, 1, 0, {}))
  /\ UNCHANGED <<st, bus, locked, devvars, busdevs, usrvars, polling, known, damaged>>

BusRemove(t) ==
  LET s == k[t].s IN
  /\ Is(t, "unplug")
  /\ BusUnplug(t, s)
  /\ Goto(t, IF s + 1 \in Slots THEN At("unplug", NoDev, t, s + 1, 0, {})
             ELSE At("remove", NoDev, t, 1, 0, {}))
  /\ UNCHANGED <<st, locked, devvars, polling, known, damaged>>

Owned(t) == {o \in Devs : dst[o] = "live" /\ owner[o] = t}

(* devremove, usrdev_destroy: `detaching' is set without a lock.           *)
UsrdevDestroy(t, o) ==
  /\ Is(t, "remove")
  /\ o \in Owned(t)
  /\ detaching' = detaching \cup {o}
  /\ Goto(t, At("detach", o, t, 1, 0, {}))
  /\ UNCHANGED <<st, bus, locked, dst, tree, offline, owner, busdevs, usrvars,
                 polling, known, damaged>>

(* dev_detach: out of the tree,                                            *)
DevDetachTree(t) ==
  /\ Is(t, "detach")
  /\ tree' = tree \ {k[t].o}
  /\ Goto(t, [k[t] EXCEPT !.pc = "offline"])
  /\ UNCHANGED <<st, bus, locked, dst, offline, detaching, owner, busdevs, usrvars,
                 polling, known, damaged>>

(* then offline, with the bus entries moved to the destroy list,           *)
DevDetachOffline(t) ==
  LET o == k[t].o IN
  /\ Is(t, "offline")
  /\ offline' = offline \cup {o}
  /\ busdevs' = [busdevs EXCEPT ![o] = {}]
  /\ Goto(t, At("sever", o, t, MaxBusDevs + 1, 0, busdevs[o]))
  /\ UNCHANGED <<st, bus, locked, dst, tree, detaching, owner, usrvars, polling,
                 known, damaged>>

(* The entry dev_detach has closed last, <<n, s>>, is in a list again: its *)
(* successor is no longer the next entry of the destroy list.              *)
Relinked(t) == \E o \in Devs : <<k[t].n, k[t].s>> \in busdevs[o]

(* and each of them is closed, under the lock of the bus its bd->bus names.*)
SeveredPlugged(e) == [Empty EXCEPT !.bsy = e.bsy, !.plg = TRUE, !.dev = e.dev] \* mutant: left plugged
Severed(e) == [Empty EXCEPT !.bsy = e.bsy]
DevDetachSever(t, n, s) ==
  LET o == k[t].o IN
  /\ Is(t, "sever")
  /\ <<n, s>> \in k[t].todo
  /\ ~Relinked(t)
  /\ bus[n][s].bus
  /\ n \notin locked
  /\ UsrdevClose(o, bus[n][s].devid)
  /\ bus' = [bus EXCEPT ![n][s] = Severed(@)]
  /\ Goto(t, At("sever", o, n, s, 0, k[t].todo \ {<<n, s>>}))
  /\ UNCHANGED <<st, locked, devvars, busdevs, polling, known, damaged>>

(* The queue and the device are freed: what the memory holds from now on   *)
(* is of no interest.                                                      *)
UsrdevFree(t) ==
  LET o == k[t].o IN
  /\ Is(t, "sever")
  /\ k[t].todo = {}
  /\ ~Relinked(t)
  /\ dst' = [dst EXCEPT ![o] = "freed"]
  /\ ioreqs' = [ioreqs EXCEPT ![o] = <<>>]
  /\ owner' = [owner EXCEPT ![o] = Init0]
  /\ rem' = [rem EXCEPT ![o] = [i \in Ids |-> Unused]]
  /\ sigreq' = [sigreq EXCEPT ![o] = FALSE]
  /\ polling' = [polling EXCEPT ![o] = FALSE]
  /\ known' = [known EXCEPT ![o] = {}]
  /\ Goto(t, At("remove", NoDev, t, 1, 0, {}))
  /\ UNCHANGED <<st, bus, locked, tree, offline, detaching, busdevs, damaged>>

ExitEnd(t) ==
  /\ Is(t, "remove")
  /\ Owned(t) = {}
  /\ st' = [st EXCEPT ![t] = "zombie"]
  /\ Goto(t, User(t))
  /\ UNCHANGED <<bus, locked, devvars, busdevs, usrvars, polling, known, damaged>>

(* childstat of the parent: thfree.  A destroy list that still has to go   *)
(* through a bus entry of the thread now runs through freed memory.        *)
Listed(t) ==
  \E u \in Threads :
    /\ k[u].pc = "sever"
    /\ k[u].n = t \/ (\E s \in Slots : <<t, s>> \in k[u].todo)
Reap(t) ==
  /\ ~damaged
  /\ st[t] = "zombie"
  /\ st' = [st EXCEPT ![t] = "free"]
  /\ bus' = [bus EXCEPT ![t] = [s \in Slots |-> Empty]]
  /\ damaged' = Listed(t)
  /\ UNCHANGED <<locked, devvars, busdevs, usrvars, polling, known, k>>

-----------------------------------------------------------------------------
(* bus_plug or bus_copy uses a device that was freed since it looked it    *)
(* up; dev_detach follows a bd->bus that is not set yet, or the successor  *)
(* of an entry that was plugged again meanwhile.                           *)
UseFreedDevice(t) ==
  /\ Is(t, "plug") \/ Is(t, "link")
  /\ dst[k[t].o] = "freed"
  /\ damaged' = TRUE
  /\ UNCHANGED <<st, bus, locked, devvars, busdevs, usrvars, polling, known, k>>

UseBadBus(t) ==
  /\ Is(t, "sever")
  /\ \/ Relinked(t)
     \/ \E n \in Threads, s \in Slots : <<n, s>> \in k[t].todo /\ ~bus[n][s].bus
  /\ damaged' = TRUE
  /\ UNCHANGED <<st, bus, locked, devvars, busdevs, usrvars, polling, known, k>>

Undefined == damaged /\ UNCHANGED vars

Call(t) ==
  \/ \E o \in Devs : DevCreat(t, o) \/ BusPlugFind(t, o) \/ OwnerSignal(t, o) \/ DevPoll(t, o)
  \/ \E s \in Slots : SysClose(t, s)
  \/ \E s \in Slots, o \in Devs : SysOut(t, s, o) \/ SysExport(t, s, o) \/ SysUnexport(t, s, o)
  \/ \E n \in Threads : SysFork(t, n)
  \/ SysDie(t)

Kernel(t) ==
  \/ BusPlugFail(t) \/ BusPlugOpen(t) \/ BusMark(t)
  \/ BusCopyClone(t) \/ BusCopySkip(t) \/ BusCopyLink(t) \/ ForkEnd(t)
  \/ BusRemove(t) \/ (\E o \in Devs : UsrdevDestroy(t, o))
  \/ DevDetachTree(t) \/ DevDetachOffline(t)
  \/ (\E n \in Threads, s \in Slots : DevDetachSever(t, n, s)) \/ UseBadBus(t)
  \/ UsrdevFree(t) \/ ExitEnd(t) \/ UseFreedDevice(t)

Next == (\E t \in Threads : Call(t) \/ Kernel(t) \/ Reap(t)) \/ Undefined

Spec == Init /\ [][Next]_vars

-----------------------------------------------------------------------------
Steps == {"user", "plug", "mark", "copy", "link", "unplug", "remove", "detach",
          "offline", "sever"}
Entries == [bsy : BOOLEAN, plg : BOOLEAN, bus : BOOLEAN, dev : Devs \cup {NoDev}, devid : Ids]
Sessions == [use : BOOLEAN, th : Threads, apt : Seq(Threads)]
Iors == [op : {"open", "clone", "out", "close"}, id : Ids, new : Ids]

(* Every variable has its type; tables stay within their sizes.            *)
TypeOK ==
  /\ st \in [Threads -> {"free", "embryo", "live", "zombie"}]
  /\ bus \in [Threads -> [Slots -> Entries]]
  /\ locked \subseteq Threads
  /\ dst \in [Devs -> {"none", "live", "freed"}]
  /\ tree \subseteq Devs
  /\ offline \subseteq Devs
  /\ detaching \subseteq Devs
  /\ owner \in [Devs -> Threads]
  /\ busdevs \in [Devs -> SUBSET (Threads \X Slots)]
  /\ rem \in [Devs -> [Ids -> Sessions]]
  /\ ioreqs \in [Devs -> Seq(Iors)]
  /\ sigreq \in [Devs -> BOOLEAN]
  /\ polling \in [Devs -> BOOLEAN]
  /\ known \in [Devs -> SUBSET Ids]
  /\ k \in [Threads -> [pc : Steps, o : Devs \cup {NoDev}, n : Threads,
                        s : 1 .. MaxBusDevs + 1, id : Ids, todo : SUBSET (Threads \X Slots)]]
  /\ damaged \in BOOLEAN

(* The bus entries that refer to session i of device o, those of a call    *)
(* that is about to set the pointers included.                             *)
Refs(o, i) ==
  {e \in Threads \X Slots : /\ bus[e[1]][e[2]].plg
                             /\ bus[e[1]][e[2]].dev = o
                             /\ bus[e[1]][e[2]].devid = i}
  \cup {<<k[t].n, k[t].s>> : t \in {u \in Threads : /\ k[u].pc \in {"mark", "link"}
                                                    /\ k[u].o = o
                                                    /\ k[u].id = i}}

(* As long as a device is not being destroyed, a session is in use exactly *)
(* while one bus entry refers to it, and its thread is the one of that     *)
(* entry, which has not died: usrdev_irq, usrdev_read and usrdev_write act *)
(* on remths[id].th.                                                       *)
SessionsMatch ==
  \A o \in Devs, i \in Ids :
    (dst[o] = "live" /\ o \notin detaching) =>
      IF rem[o][i].use
      THEN /\ Cardinality(Refs(o, i)) = 1
           /\ \A r \in Refs(o, i) : r[1] = rem[o][i].th /\ st[r[1]] \in {"live", "embryo"}
      ELSE Refs(o, i) = {}

(* The sessions that the owner knows to be open once it has polled the     *)
(* first n requests of the queue: DevPoll, n times.                        *)
Opens(r, i) == r.op \in {"open", "clone"} /\ r.new = i
Closes(r, i) == r.op = "close" /\ r.id = i
KnownAfter(o, n) ==
  {i \in Ids :
     \/ i \in known[o] /\ \A m \in 1 .. n : ~Closes(ioreqs[o][m], i)
     \/ \E j \in 1 .. n : /\ Opens(ioreqs[o][j], i)
                          /\ \A m \in j + 1 .. n : ~Closes(ioreqs[o][m], i)}

(* usrdev.c: "Events pertaining the same 'id' must be polled in the order  *)
(* of insertion."  Every request the owner polls makes sense to it: a      *)
(* session is opened or cloned only when it is not open, from one that is, *)
(* and used and closed only while it is open; and after the last request   *)
(* the owner knows the sessions in use.                                    *)
RequestsOrdered ==
  \A o \in Devs : (dst[o] = "live" /\ o \notin detaching) =>
    /\ \A n \in 1 .. Len(ioreqs[o]) :
         LET r == ioreqs[o][n] IN
         /\ r.op # "open" => r.id \in KnownAfter(o, n - 1)
         /\ r.op \in {"open", "clone"} => r.new \notin KnownAfter(o, n - 1)
    /\ KnownAfter(o, Len(ioreqs[o])) = Used(o)

(* A queued request has its signal pending or is about to be polled.       *)
NoLostRequest ==
  \A o \in Devs : (dst[o] = "live" /\ ioreqs[o] # <<>>) => sigreq[o] \/ polling[o]

(* The apertures of a session were exported by the thread the session      *)
(* belongs to: neither a fork nor the reuse of a closed session gives the  *)
(* device access to memory of a process that did not export it.            *)
AperturesOwn ==
  \A o \in Devs, i \in Ids : dst[o] = "live" =>
    /\ \A j \in DOMAIN rem[o][i].apt : rem[o][i].apt[j] = rem[o][i].th
    /\ ~rem[o][i].use => rem[o][i].apt = <<>>

(* No bus entry refers to a freed device, unless memory has already been   *)
(* damaged: bus_unplug and bus_get_dev follow the pointer.                 *)
NoDanglingEntry ==
  \A t \in Threads, s \in Slots :
    (~damaged /\ bus[t][s].plg /\ bus[t][s].dev # NoDev) => dst[bus[t][s].dev] = "live"

(* bus.c, dev_detach: "Set device as offline. Do not attempt any further   *)
(* operation (open, io, irqmap, close)", then ".foreach bus . take the bus *)
(* lock".  No call uses a freed device, and dev_detach always finds the    *)
(* bus it has to lock.                                                     *)
NothingFreedIsUsed == ~damaged
=============================================================================

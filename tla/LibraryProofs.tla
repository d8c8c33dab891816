--------------------------- MODULE LibraryProofs ---------------------------
(***************************************************************************)
(* Proofs about the libraries of a process: the threads of a rump kernel   *)
(* with their locks (Rump), for any number of threads and any depth of a   *)
(* mutex, its LWTs and events (Lwt), and the terminal library (Window and  *)
(* Vt100), for any size of the screen.                                     *)
(***************************************************************************)
EXTENDS Rump, Lwt, Vt100, ListProofs, FiniteSetTheorems, TLAPS

-----------------------------------------------------------------------------
(* The inductive invariant.  Runs: the threads that run or are active.     *)
(* The threads that wait for a lock or the condition variable are by where *)
(* they stand (rpc) in one list each, unless they were woken.              *)
Live == {"run", "mtx", "cv", "rd", "wr", "ast"}
Pcs == Live \cup {"none", "new", "join", "io", "never", "gone"}
Runs(cur, act) == (ToSet(act) \cup {cur}) \ {RNull}
Holds(l, S) == l \in Seq(RThreads) /\ IsInjective(l) /\ ToSet(l) = S
Asleep(pc, R, k) == {t \in RThreads : pc[t] = k /\ t \notin R}
RSchedOk(cur, act) == Holds(act, Runs(cur, act) \ {cur}) /\ cur \in RThreads \cup {RNull}
PcOk(pc, R) == pc \in [RThreads -> Pcs] /\ R \subseteq RThreads /\ \A t \in R : pc[t] \in Live
WaitOk(pc, R, m, l, c) ==
  /\ Holds(m.w, Asleep(pc, R, "mtx")) /\ Holds(c.w, Asleep(pc, R, "cv"))
  /\ Holds(l.rw, Asleep(pc, R, "rd")) /\ Holds(l.ww, Asleep(pc, R, "wr"))

(* No thread that was created runs: nothing wakes it.                      *)
FlagsOk(flags, pc) ==
  \A t \in RThreads : flags[t] # {} => flags[t] = {"MUSTJOIN"} /\ pc[t] = "new"

(* The mutex has an owner when it is taken, who has entered it so often.   *)
MutexOk(m, h, barged) ==
  /\ m \in [v : Nat, o : RThreads \cup {RNull}, w : Seq(RThreads)]
  /\ m.v = 0 <=> m.o = RNull
  /\ h \in [RThreads -> [m : Nat, r : {"no", "rd", "wr"}]] /\ barged \in BOOLEAN
  /\ ~barged => \A t \in RThreads : IF m.o = t THEN h[t].m = m.v ELSE h[t].m = 0
RwCvOk(l, c) ==
  /\ l \in [v : Int, o : RThreads \cup {RNull}, rw : Seq(RThreads), ww : Seq(RThreads)]
  /\ c \in [n : Int, w : Seq(RThreads)]

(* A lock that is free and waited for has a thread going for it: the       *)
(* reader-writer lock a writer, since readers that wait without a writer   *)
(* are woken all.                                                          *)
Going(pc, R, k) == \E t \in R : pc[t] = k
GoingOk(pc, R, m, l) ==
  /\ m.v = 0 /\ m.w # <<>> => Going(pc, R, "mtx")
  /\ l.o = RNull /\ (l.ww # <<>> \/ l.rw # <<>>) => Going(pc, R, "wr")

RumpInv ==
  /\ RSchedOk(rcur, ract) /\ PcOk(rpc, Runs(rcur, ract))
  /\ WaitOk(rpc, Runs(rcur, ract), mtx, rwl, cv)
  /\ FlagsOk(rflags, rpc) /\ rflags \in [RThreads -> SUBSET {"MUSTJOIN", "JOINED"}]
  /\ MutexOk(mtx, rhold, rbarged) /\ RwCvOk(rwl, cv)
  /\ GoingOk(rpc, Runs(rcur, ract), mtx, rwl)

-----------------------------------------------------------------------------
(* Lists.                                                                  *)
LEMMA HoldsMany ==
  ASSUME NEW l, NEW S, Holds(l, S), NEW t \in RThreads, t \notin S
  PROVE  Holds(Append(l, t), S \cup {t})
BY PushBack DEF Holds

LEMMA HoldsFewer ==
  ASSUME NEW l, NEW S, Holds(l, S), l # <<>>
  PROVE  Holds(Tail(l), S \ {Head(l)}) /\ Head(l) \in S /\ S \subseteq RThreads
<1>1. l \in Seq(RThreads) /\ IsInjective(l) /\ ToSet(l) = S
  BY DEF Holds
<1>2. /\ Tail(l) \in Seq(RThreads) /\ Head(l) \in ToSet(l)
      /\ IsInjective(Tail(l)) /\ ToSet(Tail(l)) = ToSet(l) \ {Head(l)}
  BY <1>1, PopFront
<1>3. ToSet(l) \subseteq RThreads
  BY <1>1 DEF ToSet
<1>4. QED
  BY <1>1, <1>2, <1>3 DEF Holds

LEMMA HoldsNone ==
  /\ Holds(<<>>, {})
  /\ \A l, S : Holds(l, S) => (l = <<>> <=> S = {}) /\ S \subseteq RThreads
<1>1. Holds(<<>>, {})
  BY DEF Holds, IsInjective, ToSet
<1>2. ASSUME NEW l, NEW S, Holds(l, S) PROVE (l = <<>> <=> S = {}) /\ S \subseteq RThreads
  <2>1. l \in Seq(RThreads) /\ ToSet(l) = S
    BY <1>2 DEF Holds
  <2>2. l # <<>> => 1 \in DOMAIN l
    BY <2>1
  <2>3. QED
    BY <2>1, <2>2 DEF ToSet
<1>3. QED
  BY <1>1, <1>2

LEMMA HoldsSame ==
  ASSUME NEW l, NEW S, NEW T, Holds(l, S), S = T
  PROVE  Holds(l, T)
OBVIOUS

(* wake() and wakeup_all: the threads are in the queue, once.              *)
LEMMA WakeOneIs ==
  ASSUME NEW q, NEW S, Holds(q, S), NEW t \in RThreads
  PROVE  Holds(WakeOne(q, t), S \cup {t})
<1>1. CASE t \in S
  <2>1. S \cup {t} = S /\ WakeOne(q, t) = q
    BY <1>1 DEF WakeOne, Holds
  <2>2. QED
    BY <2>1
<1>2. CASE t \notin S
  <2>1. WakeOne(q, t) = Append(q, t)
    BY <1>2 DEF WakeOne, Holds
  <2>2. QED
    BY <1>2, <2>1, HoldsMany
<1>3. QED
  BY <1>1, <1>2

IsAfter(f, q, ts) == f = [i \in 0..Len(ts) |-> IF i = 0 THEN q ELSE WakeOne(f[i - 1], ts[i])]

(* The recursive function of Woken exists, by induction on the length.     *)
LEMMA AfterExists ==
  ASSUME NEW q, NEW ts \in Seq(RThreads)
  PROVE  \E f : IsAfter(f, q, ts)
<1> DEFINE n == Len(ts)
           Good(f, m) == f[0] = q /\ \A i \in 1..m : f[i] = WakeOne(f[i - 1], ts[i])
           M == {m \in 0..n : \E f : DOMAIN f = 0..m /\ f = [i \in DOMAIN f |-> f[i]] /\ Good(f, m)}
<1>0. n \in Nat
  OBVIOUS
<1>1. 0 \in M
  <2> DEFINE f == [i \in 0..0 |-> q]
  <2>1. DOMAIN f = 0..0 /\ f = [i \in DOMAIN f |-> f[i]] /\ Good(f, 0)
    OBVIOUS
  <2> HIDE DEF f, Good
  <2>2. QED
    BY <1>0, <2>1
<1>2. \A m \in 0..n : m \in M /\ m < n => m + 1 \in M
  <2> SUFFICES ASSUME NEW m \in 0..n, m \in M, m < n PROVE m + 1 \in M
    OBVIOUS
  <2>0. m \in Nat /\ m + 1 \in 0..n
    BY <1>0
  <2>1. PICK f : DOMAIN f = 0..m /\ Good(f, m)
    OBVIOUS
  <2> DEFINE g == [i \in 0..m + 1 |-> IF i = m + 1 THEN WakeOne(f[m], ts[m + 1]) ELSE f[i]]
  <2>2. DOMAIN g = 0..m + 1 /\ g = [i \in DOMAIN g |-> g[i]]
    OBVIOUS
  <2>3. Good(g, m + 1)
    <3>1. g[0] = q
      BY <2>0, <2>1
    <3>2. ASSUME NEW i \in 1..m + 1 PROVE g[i] = WakeOne(g[i - 1], ts[i])
      <4>1. CASE i = m + 1
        <5>1. i - 1 = m /\ m \in 0..m + 1 /\ m # m + 1 /\ i \in 0..m + 1
          BY <2>0, <4>1
        <5>2. QED
          BY <4>1, <5>1
      <4>2. CASE i # m + 1
        <5>1. i \in 1..m /\ i - 1 \in 0..m + 1 /\ i - 1 # m + 1 /\ i \in 0..m + 1
          BY <2>0, <4>2
        <5>2. f[i] = WakeOne(f[i - 1], ts[i])
          BY <2>1, <5>1
        <5>3. QED
          BY <4>2, <5>1, <5>2
      <4>3. QED
        BY <4>1, <4>2
    <3>3. QED
      BY <3>1, <3>2
  <2> HIDE DEF g, Good
  <2>4. QED
    BY <2>0, <2>2, <2>3
<1>3. n \in M
  <2> HIDE DEF M, n
  <2>1. \A m \in 0..n : m \in M
    BY <1>0, <1>1, <1>2, UpTo
  <2>2. QED
    BY <1>0, <2>1
<1>4. PICK f : DOMAIN f = 0..n /\ f = [i \in DOMAIN f |-> f[i]] /\ Good(f, n)
  BY <1>3
<1>5. \A i \in 0..n : f[i] = IF i = 0 THEN q ELSE WakeOne(f[i - 1], ts[i])
  BY <1>0, <1>4
<1>6. QED
  BY <1>4, <1>5 DEF IsAfter

LEMMA WokenIs ==
  ASSUME NEW q, NEW S, Holds(q, S), NEW ts \in Seq(RThreads)
  PROVE  Holds(Woken(q, ts), S \cup ToSet(ts))
<1> DEFINE f == CHOOSE f : IsAfter(f, q, ts)
           n == Len(ts)
           Upto(i) == {ts[j] : j \in 1..i}
           M == {i \in 0..n : Holds(f[i], S \cup Upto(i))}
<1>1. Woken(q, ts) = f[n]
  BY DEF Woken, IsAfter
<1>2. IsAfter(f, q, ts)
  BY AfterExists
<1> HIDE DEF f
<1>3. n \in Nat /\ \A i \in 0..n : f[i] = IF i = 0 THEN q ELSE WakeOne(f[i - 1], ts[i])
  BY <1>2 DEF IsAfter
<1>4. 0 \in M
  <2>1. S \cup Upto(0) = S /\ f[0] = q /\ 0 \in 0..n
    BY <1>3
  <2> HIDE DEF Upto
  <2>2. Holds(f[0], S \cup Upto(0))
    BY <2>1
  <2>3. QED
    BY <2>1, <2>2
<1>5. \A i \in 0..n : i \in M /\ i < n => i + 1 \in M
  <2> SUFFICES ASSUME NEW i \in 0..n, i \in M, i < n PROVE i + 1 \in M
    OBVIOUS
  <2>1. i + 1 \in 0..n /\ i + 1 # 0 /\ (i + 1) - 1 = i /\ i + 1 \in 1..n
    BY <1>3
  <2>2. f[i + 1] = WakeOne(f[i], ts[i + 1]) /\ ts[i + 1] \in RThreads
    BY <1>3, <2>1
  <2>3. Holds(f[i + 1], (S \cup Upto(i)) \cup {ts[i + 1]})
    BY <2>2, WakeOneIs
  <2>4. S \cup Upto(i + 1) = (S \cup Upto(i)) \cup {ts[i + 1]}
    <3>1. 1..(i + 1) = (1..i) \cup {i + 1}
      BY <1>3
    <3>2. QED
      BY <3>1
  <2>5. QED
    BY <2>1, <2>3, <2>4
<1>6. n \in M
  <2> HIDE DEF M, n
  <2>1. \A i \in 0..n : i \in M
    BY <1>3, <1>4, <1>5, UpTo
  <2>2. QED
    BY <1>3, <2>1
<1>7. Upto(n) = ToSet(ts)
  BY DEF ToSet
<1> HIDE DEF Upto
<1>8. QED
  BY <1>1, <1>6, <1>7

(* lwt_sleep: the first of the queue runs.                                 *)
LEMMA SleepToIs ==
  ASSUME NEW q, NEW S, Holds(q, S), SleepTo(q)
  PROVE  RSchedOk(rcur', ract') /\ Runs(rcur', ract') = S
<1>0. RNull \notin RThreads /\ S \subseteq RThreads
  BY RumpAssumption, HoldsNone
<1>1. CASE q = <<>>
  <2>1. rcur' = RNull /\ ract' = <<>> /\ S = {}
    BY <1>1, HoldsNone DEF SleepTo
  <2>2. ToSet(<<>>) = {}
    BY DEF ToSet
  <2>3. Runs(rcur', ract') = {}
    BY <2>1, <2>2 DEF Runs
  <2>4. Runs(rcur', ract') \ {rcur'} = {}
    BY <2>3
  <2>5. QED
    BY <2>1, <2>3, <2>4, HoldsNone DEF RSchedOk
<1>2. CASE q # <<>>
  <2>1. rcur' = Head(q) /\ ract' = Tail(q)
    BY <1>2 DEF SleepTo
  <2>2. Holds(ract', S \ {rcur'}) /\ rcur' \in S
    BY <1>2, <2>1, HoldsFewer
  <2>3. ToSet(ract') = S \ {rcur'}
    BY <2>2 DEF Holds
  <2>4. Runs(rcur', ract') = S
    BY <1>0, <2>2, <2>3 DEF Runs
  <2>5. QED
    BY <1>0, <2>2, <2>4 DEF RSchedOk
<1>3. QED
  BY <1>1, <1>2

(* The thread that runs goes on.                                           *)
LEMMA StaysOnIs ==
  ASSUME RSchedOk(rcur, ract), rcur # RNull,
         NEW q, NEW S, Holds(q, S), StaysOn(q), rcur \notin S
  PROVE  RSchedOk(rcur', ract') /\ Runs(rcur', ract') = S \cup {rcur}
<1>0. RNull \notin RThreads /\ S \subseteq RThreads /\ rcur \in RThreads
  BY RumpAssumption, HoldsNone DEF RSchedOk
<1>1. rcur' = rcur /\ ract' = q /\ ToSet(q) = S
  BY DEF StaysOn, Holds
<1>2. Runs(rcur', ract') = S \cup {rcur}
  BY <1>0, <1>1 DEF Runs
<1>3. Runs(rcur', ract') \ {rcur'} = S
  BY <1>1, <1>2
<1>4. QED
  BY <1>0, <1>1, <1>2, <1>3 DEF RSchedOk

-----------------------------------------------------------------------------
LEMMA RumpFacts ==
  ASSUME RumpInv
  PROVE  LET R == Runs(rcur, ract) IN
         /\ RSchedOk(rcur, ract) /\ PcOk(rpc, R) /\ WaitOk(rpc, R, mtx, rwl, cv)
         /\ FlagsOk(rflags, rpc) /\ rflags \in [RThreads -> SUBSET {"MUSTJOIN", "JOINED"}]
         /\ MutexOk(mtx, rhold, rbarged) /\ RwCvOk(rwl, cv) /\ GoingOk(rpc, R, mtx, rwl)
         /\ RNull \notin RThreads /\ Holds(ract, R \ {rcur}) /\ R \subseteq RThreads
         /\ (rcur \in RThreads => rcur \in R)
         /\ rpc \in [RThreads -> Pcs] /\ rhold \in [RThreads -> [m : Nat, r : {"no", "rd", "wr"}]]
<1>1. RNull \notin RThreads
  BY RumpAssumption
<1>2. RSchedOk(rcur, ract) /\ PcOk(rpc, Runs(rcur, ract)) /\ MutexOk(mtx, rhold, rbarged)
  BY DEF RumpInv
<1>3. rcur \in RThreads => rcur \in Runs(rcur, ract)
  BY <1>1 DEF Runs
<1>4. QED
  BY <1>1, <1>2, <1>3 DEF RumpInv, RSchedOk, PcOk, MutexOk

LEMMA RumpInitInv == RumpInit => RumpInv
<1> SUFFICES ASSUME RumpInit PROVE RumpInv
  OBVIOUS
<1> DEFINE R == Runs(rcur, ract)
<1>0. RNull \notin RThreads /\ RInit \in RThreads
  BY RumpAssumption DEF RThreads
<1>1. rcur = RInit /\ ract = <<>>
  BY DEF RumpInit
<1>2. R = {RInit}
  BY <1>0, <1>1 DEF Runs, ToSet
<1>3. RSchedOk(rcur, ract)
  <2>1. R \ {rcur} = {}
    BY <1>1, <1>2
  <2>2. QED
    BY <1>0, <1>1, <2>1, HoldsNone DEF RSchedOk
<1> HIDE DEF R
<1>4. rpc = [t \in RThreads |-> IF t = RInit THEN "run" ELSE "none"]
  BY DEF RumpInit
<1>5. PcOk(rpc, R)
  BY <1>0, <1>2, <1>4 DEF PcOk, Pcs, Live
<1>6. \A k \in {"mtx", "cv", "rd", "wr"} : Asleep(rpc, R, k) = {}
  BY <1>4 DEF Asleep
<1>7. WaitOk(rpc, R, mtx, rwl, cv)
  <2>1. mtx.w = <<>> /\ cv.w = <<>> /\ rwl.rw = <<>> /\ rwl.ww = <<>>
    BY DEF RumpInit
  <2>2. QED
    BY <1>6, <2>1, HoldsNone DEF WaitOk
<1>8. FlagsOk(rflags, rpc) /\ rflags \in [RThreads -> SUBSET {"MUSTJOIN", "JOINED"}]
  BY DEF RumpInit, FlagsOk
<1>9. MutexOk(mtx, rhold, rbarged)
  <2>1. mtx = [v |-> 0, o |-> RNull, w |-> <<>>] /\ rbarged = FALSE
        /\ rhold = [t \in RThreads |-> [m |-> 0, r |-> "no"]]
    BY DEF RumpInit
  <2>2. mtx.v = 0 /\ mtx.o = RNull /\ mtx \in [v : Nat, o : RThreads \cup {RNull}, w : Seq(RThreads)]
    BY <2>1
  <2>3. /\ rhold \in [RThreads -> [m : Nat, r : {"no", "rd", "wr"}]]
        /\ \A t \in RThreads : rhold[t].m = 0
    BY <2>1
  <2>4. QED
    BY <1>0, <2>1, <2>2, <2>3 DEF MutexOk
<1>10. RwCvOk(rwl, cv)
  BY DEF RumpInit, RwCvOk
<1>11. GoingOk(rpc, R, mtx, rwl)
  BY DEF RumpInit, GoingOk
<1>12. QED
  BY <1>3, <1>5, <1>7, <1>8, <1>9, <1>10, <1>11 DEF RumpInv, R

(* How the sets of waiting threads change.  SameWait: the threads that     *)
(* wait, and those that go for a lock, are the same.                       *)
Waits == {"mtx", "cv", "rd", "wr"}
SameWait(pc, R, pc2, R2) ==
  /\ PcOk(pc2, R2)
  /\ \A t \in RThreads : (t \in R /\ pc[t] \in Waits) <=> (t \in R2 /\ pc2[t] \in Waits)
  /\ \A t \in RThreads : pc[t] \in Waits \/ pc2[t] \in Waits => pc2[t] = pc[t]

LEMMA SameWaitIs ==
  ASSUME NEW pc, NEW R, NEW pc2, NEW R2, R \subseteq RThreads, SameWait(pc, R, pc2, R2)
  PROVE  /\ \A k \in Waits : Asleep(pc2, R2, k) = Asleep(pc, R, k)
         /\ \A k \in Waits : Going(pc, R, k) => Going(pc2, R2, k)
<1>1. ASSUME NEW k \in Waits, NEW t \in RThreads
      PROVE  (pc2[t] = k /\ t \notin R2) <=> (pc[t] = k /\ t \notin R)
  BY DEF SameWait
<1>2. ASSUME NEW k \in Waits PROVE Asleep(pc2, R2, k) = Asleep(pc, R, k)
  BY <1>1, <1>2 DEF Asleep
<1>3. ASSUME NEW k \in Waits, Going(pc, R, k) PROVE Going(pc2, R2, k)
  BY <1>3 DEF SameWait, Going
<1>4. QED
  BY <1>2, <1>3

(* Locks with the same lists and the same state, and the same waiters.     *)
LEMMA WaitSame ==
  ASSUME NEW pc, NEW R, NEW pc2, NEW R2, R \subseteq RThreads, SameWait(pc, R, pc2, R2),
         NEW m, NEW l, NEW c, WaitOk(pc, R, m, l, c), NEW m2, NEW l2, NEW c2,
         m2.w = m.w, l2.rw = l.rw, l2.ww = l.ww, c2.w = c.w
  PROVE  WaitOk(pc2, R2, m2, l2, c2)
<1>1. \A k \in Waits : Asleep(pc2, R2, k) = Asleep(pc, R, k)
  BY SameWaitIs
<1>2. /\ Asleep(pc2, R2, "mtx") = Asleep(pc, R, "mtx") /\ Asleep(pc2, R2, "cv") = Asleep(pc, R, "cv")
      /\ Asleep(pc2, R2, "rd") = Asleep(pc, R, "rd") /\ Asleep(pc2, R2, "wr") = Asleep(pc, R, "wr")
  BY <1>1 DEF Waits
<1>3. QED
  BY <1>2 DEF WaitOk

LEMMA GoingSame ==
  ASSUME NEW pc, NEW R, NEW pc2, NEW R2, R \subseteq RThreads, SameWait(pc, R, pc2, R2),
         NEW m, NEW l, GoingOk(pc, R, m, l), NEW m2, NEW l2,
         m2.w = m.w, l2.rw = l.rw, l2.ww = l.ww, m2.v = 0 => m.v = 0, l2.o = RNull => l.o = RNull
  PROVE  GoingOk(pc2, R2, m2, l2)
<1>1. \A k \in Waits : Going(pc, R, k) => Going(pc2, R2, k)
  BY SameWaitIs
<1>2. QED
  BY <1>1 DEF GoingOk, Waits

(* A step that wakes nobody and puts nobody to sleep on a lock.            *)
LEMMA QuietStep ==
  ASSUME RumpInv, NEW R2, RSchedOk(rcur', ract'), Runs(rcur', ract') = R2,
         SameWait(rpc, Runs(rcur, ract), rpc', R2), FlagsOk(rflags', rpc'),
         rflags' \in [RThreads -> SUBSET {"MUSTJOIN", "JOINED"}],
         UNCHANGED <<mtx, rwl, cv, rhold, rbarged>>
  PROVE  RumpInv'
<1> DEFINE R == Runs(rcur, ract)
<1> USE RumpFacts
<1>1. R \subseteq RThreads /\ WaitOk(rpc, R, mtx, rwl, cv) /\ GoingOk(rpc, R, mtx, rwl)
      /\ MutexOk(mtx, rhold, rbarged) /\ RwCvOk(rwl, cv)
  OBVIOUS
<1>2. mtx' = mtx /\ rwl' = rwl /\ cv' = cv /\ rhold' = rhold /\ rbarged' = rbarged
  OBVIOUS
<1> HIDE DEF R
<1> HIDE RumpFacts
<1>a. SameWait(rpc, R, rpc', R2)
  BY DEF R
<1>3. WaitOk(rpc', R2, mtx', rwl', cv')
  <2>1. WaitOk(rpc', R2, mtx, rwl, cv)
    BY <1>1, <1>a, WaitSame
  <2>2. QED
    BY <1>2, <2>1
<1>4. GoingOk(rpc', R2, mtx', rwl')
  <2>1. GoingOk(rpc', R2, mtx, rwl)
    BY <1>1, <1>a, GoingSame
  <2>2. QED
    BY <1>2, <2>1
<1>5. MutexOk(mtx', rhold', rbarged') /\ RwCvOk(rwl', cv')
  BY <1>1, <1>2
<1>6. PcOk(rpc', R2)
  BY DEF SameWait
<1>7. QED
  BY <1>3, <1>4, <1>5, <1>6 DEF RumpInv

-----------------------------------------------------------------------------
(* The steps that change no lock.                                          *)
LEMMA AtIs ==
  ASSUME RumpInv, NEW t \in RThreads, NEW pc, At(t, pc)
  PROVE  /\ rcur = t /\ rpc[t] = pc /\ t \in Runs(rcur, ract) /\ t # RNull
         /\ Holds(ract, Runs(rcur, ract) \ {t}) /\ Runs(rcur, ract) \subseteq RThreads
         /\ rpc \in [RThreads -> Pcs]
BY RumpFacts DEF At

LEMMA AbortInv ==
  ASSUME RumpInv, Abort
  PROVE  RumpInv'
<1>1. UNCHANGED <<rcur, ract, rpc, rlist, rexit, rflags, joinwq, mtx, rwl, cv, rhold, rbarged, ruse>>
  BY DEF Abort, threads, locks
<1>2. QED
  BY <1>1 DEF RumpInv

LEMMA RIdleInv ==
  ASSUME RumpInv, RIdle
  PROVE  RumpInv'
<1> DEFINE R == Runs(rcur, ract)
<1>1. SleepTo(ract) /\ UNCHANGED <<rpc, rflags, mtx, rwl, cv, rhold, rbarged>> /\ rcur = RNull
  BY DEF RIdle, threads, locks
<1>2. Holds(ract, R \ {rcur}) /\ R \ {rcur} = R
  BY <1>1, RumpFacts
<1>3. RSchedOk(rcur', ract') /\ Runs(rcur', ract') = R
  BY <1>1, <1>2, SleepToIs
<1>4. SameWait(rpc, R, rpc', R)
  BY <1>1, RumpFacts DEF SameWait
<1>5. QED
  BY <1>1, <1>3, <1>4, RumpFacts, QuietStep

LEMMA ClockSleepInv ==
  ASSUME RumpInv, NEW t \in RThreads, ClockSleep(t)
  PROVE  RumpInv'
<1> DEFINE R == Runs(rcur, ract)
<1>1. SleepTo(Append(ract, t)) /\ UNCHANGED <<rpc, rflags, mtx, rwl, cv, rhold, rbarged>> /\ At(t, "run")
  BY DEF ClockSleep, threads, locks
<1>2. t \in R /\ Holds(ract, R \ {t})
  BY <1>1, AtIs
<1>3. Holds(Append(ract, t), R)
  <2>1. Holds(Append(ract, t), (R \ {t}) \cup {t})
    BY <1>2, HoldsMany
  <2>2. (R \ {t}) \cup {t} = R
    BY <1>2
  <2>3. QED
    BY <2>1, <2>2
<1>4. RSchedOk(rcur', ract') /\ Runs(rcur', ract') = R
  BY <1>1, <1>3, SleepToIs
<1>5. SameWait(rpc, R, rpc', R)
  BY <1>1, RumpFacts DEF SameWait
<1>6. QED
  BY <1>1, <1>4, <1>5, RumpFacts, QuietStep

(* A thread that does not run is created, or given to the block device.    *)
LEMMA NewThreadInv ==
  ASSUME RumpInv, NEW n \in RThreads, rpc[n] = "none", NEW pc \in {"new", "io", "never"},
         rpc' = [rpc EXCEPT ![n] = pc], UNCHANGED <<rcur, ract, mtx, rwl, cv, rhold, rbarged>>,
         rflags' \in [RThreads -> SUBSET {"MUSTJOIN", "JOINED"}],
         \A t \in RThreads \ {n} : rflags'[t] = rflags[t],
         rflags'[n] # {} => rflags'[n] = {"MUSTJOIN"} /\ pc = "new"
  PROVE  RumpInv'
<1> DEFINE R == Runs(rcur, ract)
<1>0. /\ RSchedOk(rcur, ract) /\ PcOk(rpc, R) /\ FlagsOk(rflags, rpc) /\ rpc \in [RThreads -> Pcs]
      /\ R \subseteq RThreads
  BY RumpFacts
<1>1. RSchedOk(rcur', ract') /\ Runs(rcur', ract') = R
  BY <1>0
<1> HIDE DEF R
<1>2. n \notin R
  BY <1>0 DEF PcOk, Live
<1>3. rpc' \in [RThreads -> Pcs] /\ rpc'[n] = pc /\ \A t \in RThreads \ {n} : rpc'[t] = rpc[t]
  BY <1>0 DEF Pcs
<1>4. PcOk(rpc', R)
  BY <1>0, <1>2, <1>3 DEF PcOk
<1>5. SameWait(rpc, R, rpc', R)
  BY <1>2, <1>3, <1>4 DEF SameWait, Waits
<1>6. FlagsOk(rflags', rpc')
  BY <1>0, <1>3 DEF FlagsOk
<1>7. QED
  BY <1>1, <1>5, <1>6, QuietStep DEF R

LEMMA ThreadCreateInv ==
  ASSUME RumpInv, NEW t \in RThreads, NEW n \in RCreated, NEW j \in BOOLEAN, ThreadCreate(t, n, j)
  PROVE  RumpInv'
<1>0. n \in RThreads /\ rflags \in [RThreads -> SUBSET {"MUSTJOIN", "JOINED"}]
  BY RumpFacts DEF RThreads
<1>1. /\ rpc[n] = "none" /\ rpc' = [rpc EXCEPT ![n] = "new"]
      /\ UNCHANGED <<rcur, ract, mtx, rwl, cv, rhold, rbarged>>
      /\ rflags' = [rflags EXCEPT ![n] = IF j THEN {"MUSTJOIN"} ELSE {}]
  BY DEF ThreadCreate, RGoto, locks
<1>2. /\ rflags' \in [RThreads -> SUBSET {"MUSTJOIN", "JOINED"}]
      /\ \A x \in RThreads \ {n} : rflags'[x] = rflags[x]
      /\ rflags'[n] # {} => rflags'[n] = {"MUSTJOIN"}
  BY <1>0, <1>1
<1>3. QED
  BY <1>0, <1>1, <1>2, NewThreadInv

LEMMA BioInv ==
  ASSUME RumpInv, NEW t \in RThreads, NEW b \in RBios, NEW st \in BOOLEAN, Bio(t, b, st)
  PROVE  RumpInv'
<1>0. b \in RThreads /\ rflags \in [RThreads -> SUBSET {"MUSTJOIN", "JOINED"}] /\ FlagsOk(rflags, rpc)
  BY RumpFacts DEF RThreads
<1>1. /\ rpc[b] = "none" /\ rpc' = [rpc EXCEPT ![b] = IF st THEN "io" ELSE "never"]
      /\ UNCHANGED <<rcur, ract, rflags, mtx, rwl, cv, rhold, rbarged>>
  BY DEF Bio, RGoto, locks, threads
<1>2. rflags'[b] = {}
  BY <1>0, <1>1 DEF FlagsOk
<1>3. (IF st THEN "io" ELSE "never") \in {"new", "io", "never"}
  OBVIOUS
<1>4. QED
  BY <1>0, <1>1, <1>2, <1>3, NewThreadInv

(* A thread that runs stops for good, or for the exit of another.          *)
LEMMA LeavesInv ==
  ASSUME RumpInv, NEW t \in RThreads, At(t, "run"), NEW pc \in {"join", "gone"},
         rpc' = [rpc EXCEPT ![t] = pc], SleepTo(ract),
         UNCHANGED <<rflags, mtx, rwl, cv, rhold, rbarged>>
  PROVE  RumpInv'
<1> DEFINE R == Runs(rcur, ract)
           R2 == R \ {t}
<1>0. /\ PcOk(rpc, R) /\ FlagsOk(rflags, rpc) /\ rpc \in [RThreads -> Pcs] /\ R \subseteq RThreads
      /\ rflags \in [RThreads -> SUBSET {"MUSTJOIN", "JOINED"}]
  BY RumpFacts
<1>1. t \in R /\ Holds(ract, R \ {t}) /\ rpc[t] = "run"
  BY AtIs
<1>2. RSchedOk(rcur', ract') /\ Runs(rcur', ract') = R2
  BY <1>1, SleepToIs
<1> HIDE DEF R
<1>3. rpc' \in [RThreads -> Pcs] /\ rpc'[t] = pc /\ \A x \in RThreads \ {t} : rpc'[x] = rpc[x]
  BY <1>0 DEF Pcs
<1>4. PcOk(rpc', R2)
  BY <1>0, <1>3 DEF PcOk
<1>5. SameWait(rpc, R, rpc', R2)
  BY <1>1, <1>3, <1>4 DEF SameWait, Waits
<1>6. FlagsOk(rflags', rpc')
  BY <1>0, <1>1, <1>3 DEF FlagsOk
<1>7. QED
  BY <1>0, <1>2, <1>5, <1>6, QuietStep DEF R

LEMMA ThreadJoinInv ==
  ASSUME RumpInv, NEW t \in RThreads, NEW n \in RCreated, ThreadJoin(t, n)
  PROVE  RumpInv'
<1>0. n \in RThreads /\ FlagsOk(rflags, rpc)
  BY RumpFacts DEF RThreads
<1>1. "JOINED" \notin rflags[n]
  BY <1>0 DEF FlagsOk
<1>2. /\ At(t, "run") /\ rpc' = [rpc EXCEPT ![t] = "join"] /\ SleepTo(ract)
      /\ UNCHANGED <<rflags, mtx, rwl, cv, rhold, rbarged>>
  BY <1>1 DEF ThreadJoin, RGoto, locks
<1>3. QED
  BY <1>2, LeavesInv

LEMMA ThreadExitInv ==
  ASSUME RumpInv, NEW t \in RThreads, ThreadExit(t)
  PROVE  RumpInv'
<1>0. At(t, "run") /\ rpc[t] = "run" /\ FlagsOk(rflags, rpc)
  BY RumpFacts, AtIs DEF ThreadExit
<1>1. "MUSTJOIN" \notin rflags[t]
  BY <1>0 DEF FlagsOk
<1>2. /\ rpc' = [rpc EXCEPT ![t] = "gone"] /\ SleepTo(ract)
      /\ UNCHANGED <<rflags, mtx, rwl, cv, rhold, rbarged>>
  BY <1>1 DEF ThreadExit, RGoto, locks
<1>3. QED
  BY <1>0, <1>2, LeavesInv

LEMMA BioAstEndInv ==
  ASSUME RumpInv, NEW b \in RBios, BioAstEnd(b)
  PROVE  RumpInv'
<1>1. /\ b \in RThreads /\ At(b, "run") /\ rpc' = [rpc EXCEPT ![b] = "gone"] /\ SleepTo(ract)
      /\ UNCHANGED <<rflags, mtx, rwl, cv, rhold, rbarged>>
  BY DEF BioAstEnd, RGoto, locks, threads, RThreads
<1>2. QED
  BY <1>1, LeavesInv

LEMMA BioAstInv ==
  ASSUME RumpInv, NEW b \in RBios, BioAst(b)
  PROVE  RumpInv'
<1> DEFINE R == Runs(rcur, ract)
<1>0. /\ PcOk(rpc, R) /\ FlagsOk(rflags, rpc) /\ rpc \in [RThreads -> Pcs] /\ R \subseteq RThreads
      /\ rflags \in [RThreads -> SUBSET {"MUSTJOIN", "JOINED"}] /\ RSchedOk(rcur, ract)
  BY RumpFacts
<1>1. /\ b \in RThreads /\ At(b, "ast") /\ rpc' = [rpc EXCEPT ![b] = "run"]
      /\ UNCHANGED <<rcur, ract, rflags, mtx, rwl, cv, rhold, rbarged>>
  BY DEF BioAst, RGoto, locks, RThreads
<1>2. b \in R /\ rpc[b] = "ast"
  BY <1>1, AtIs
<1>3. RSchedOk(rcur', ract') /\ Runs(rcur', ract') = R
  BY <1>0, <1>1
<1> HIDE DEF R
<1>4. rpc' \in [RThreads -> Pcs] /\ rpc'[b] = "run" /\ \A x \in RThreads \ {b} : rpc'[x] = rpc[x]
  BY <1>0, <1>1 DEF Pcs, Live
<1>5. PcOk(rpc', R)
  BY <1>0, <1>2, <1>4 DEF PcOk, Live
<1>6. SameWait(rpc, R, rpc', R)
  BY <1>2, <1>4, <1>5 DEF SameWait, Waits
<1>7. FlagsOk(rflags', rpc')
  BY <1>0, <1>1, <1>2, <1>4 DEF FlagsOk
<1>8. QED
  BY <1>0, <1>1, <1>3, <1>6, <1>7, QuietStep DEF R

LEMMA BioDoneInv ==
  ASSUME RumpInv, NEW b \in RBios, BioDone(b)
  PROVE  RumpInv'
<1> DEFINE R == Runs(rcur, ract)
           R2 == R \cup {b}
<1>0. /\ PcOk(rpc, R) /\ FlagsOk(rflags, rpc) /\ rpc \in [RThreads -> Pcs] /\ R \subseteq RThreads
      /\ rflags \in [RThreads -> SUBSET {"MUSTJOIN", "JOINED"}] /\ RSchedOk(rcur, ract)
      /\ Holds(ract, R \ {rcur}) /\ RNull \notin RThreads
  BY RumpFacts
<1>1. /\ b \in RThreads /\ rpc[b] = "io" /\ rpc' = [rpc EXCEPT ![b] = "ast"]
      /\ rcur' = rcur /\ ract' = Append(ract, b)
      /\ UNCHANGED <<rflags, mtx, rwl, cv, rhold, rbarged>>
  BY DEF BioDone, RGoto, StaysOn, locks, threads, RThreads
<1>2. b \notin R /\ b # RNull
  BY <1>0, <1>1 DEF PcOk, Live
<1>3. Holds(ract', (R \ {rcur}) \cup {b})
  <2>1. b \notin R \ {rcur}
    BY <1>2
  <2>2. QED
    BY <1>0, <1>1, <2>1, HoldsMany
<1>4. b # rcur
  BY <1>0, <1>1, <1>2 DEF RSchedOk, Runs
<1>5. Runs(rcur', ract') = R2 /\ R2 \ {rcur'} = (R \ {rcur}) \cup {b}
  <2>1. ToSet(ract') = (R \ {rcur}) \cup {b} /\ ToSet(ract) = R \ {rcur}
    BY <1>0, <1>3 DEF Holds
  <2>2. rcur # RNull => rcur \in R
    BY DEF Runs
  <2> HIDE DEF R
  <2>3. QED
    BY <1>0, <1>1, <1>2, <1>4, <2>1, <2>2 DEF Runs
<1>6. RSchedOk(rcur', ract')
  BY <1>0, <1>1, <1>3, <1>5 DEF RSchedOk
<1> HIDE DEF R
<1>7. rpc' \in [RThreads -> Pcs] /\ rpc'[b] = "ast" /\ \A x \in RThreads \ {b} : rpc'[x] = rpc[x]
  BY <1>0, <1>1 DEF Pcs, Live
<1>8. PcOk(rpc', R2)
  BY <1>0, <1>1, <1>2, <1>7 DEF PcOk, Live
<1>9. SameWait(rpc, R, rpc', R2)
  BY <1>1, <1>2, <1>7, <1>8 DEF SameWait, Waits
<1>10. FlagsOk(rflags', rpc')
  BY <1>0, <1>1, <1>7 DEF FlagsOk
<1>11. QED
  BY <1>0, <1>1, <1>5, <1>6, <1>9, <1>10, QuietStep DEF R

-----------------------------------------------------------------------------
(* The steps on locks.  A thread that runs goes on elsewhere; or it goes   *)
(* to sleep; or threads that sleep for k are woken.                        *)
Stayed(pc, pc2, R, t) ==
  /\ PcOk(pc2, R)
  /\ \A j : Asleep(pc2, R, j) = Asleep(pc, R, j)
  /\ \A j : Going(pc, R, j) /\ pc[t] # j => Going(pc2, R, j)
FellAsleep(pc, pc2, R, t, k) ==
  /\ PcOk(pc2, R \ {t})
  /\ Asleep(pc2, R \ {t}, k) = Asleep(pc, R, k) \cup {t} /\ t \notin Asleep(pc, R, k)
  /\ \A j : j # k => Asleep(pc2, R \ {t}, j) = Asleep(pc, R, j)
  /\ \A j : Going(pc, R, j) /\ pc[t] # j => Going(pc2, R \ {t}, j)
WokeUp(pc, R, k, W) ==
  /\ PcOk(pc, R \cup W) /\ Asleep(pc, R \cup W, k) = Asleep(pc, R, k) \ W
  /\ \A j : j # k => Asleep(pc, R \cup W, j) = Asleep(pc, R, j)
  /\ \A j : Going(pc, R, j) => Going(pc, R \cup W, j)
  /\ W # {} => Going(pc, R \cup W, k)

LEMMA StayOk ==
  ASSUME NEW pc, NEW R, PcOk(pc, R), NEW t \in R, NEW k \in Live, NEW pc2, pc2 = [pc EXCEPT ![t] = k]
  PROVE  Stayed(pc, pc2, R, t)
<1>1. pc2 \in [RThreads -> Pcs] /\ pc2[t] = k /\ \A x \in RThreads \ {t} : pc2[x] = pc[x]
  BY DEF PcOk, Pcs
<1>2. PcOk(pc2, R)
  BY <1>1 DEF PcOk
<1>3. ASSUME NEW j PROVE Asleep(pc2, R, j) = Asleep(pc, R, j)
  BY <1>1 DEF Asleep
<1>4. ASSUME NEW j, Going(pc, R, j), pc[t] # j PROVE Going(pc2, R, j)
  BY <1>1, <1>4 DEF Going, PcOk
<1>5. QED
  BY <1>2, <1>3, <1>4 DEF Stayed

LEMMA SleepOk ==
  ASSUME NEW pc, NEW R, PcOk(pc, R), NEW t \in R, NEW k \in Pcs, NEW pc2, pc2 = [pc EXCEPT ![t] = k]
  PROVE  FellAsleep(pc, pc2, R, t, k)
<1>1. pc2 \in [RThreads -> Pcs] /\ pc2[t] = k /\ \A x \in RThreads \ {t} : pc2[x] = pc[x]
  BY DEF PcOk
<1>2. PcOk(pc2, R \ {t})
  BY <1>1 DEF PcOk
<1>3. Asleep(pc2, R \ {t}, k) = Asleep(pc, R, k) \cup {t} /\ t \notin Asleep(pc, R, k)
  BY <1>1 DEF Asleep, PcOk
<1>4. ASSUME NEW j, j # k PROVE Asleep(pc2, R \ {t}, j) = Asleep(pc, R, j)
  BY <1>1, <1>4 DEF Asleep
<1>5. ASSUME NEW j, Going(pc, R, j), pc[t] # j PROVE Going(pc2, R \ {t}, j)
  BY <1>1, <1>5 DEF Going, PcOk
<1>6. QED
  BY <1>2, <1>3, <1>4, <1>5 DEF FellAsleep

LEMMA WakeOk ==
  ASSUME NEW pc, NEW R, PcOk(pc, R), NEW k \in Waits, NEW W, W \subseteq Asleep(pc, R, k)
  PROVE  WokeUp(pc, R, k, W)
<1>1. \A x \in W : x \in RThreads /\ pc[x] = k /\ x \notin R
  BY DEF Asleep
<1>2. PcOk(pc, R \cup W)
  BY <1>1 DEF PcOk, Waits, Live
<1>3. QED
  BY <1>1, <1>2 DEF Asleep, Going, WokeUp

(* The flags belong to threads that do not run.                            *)
LEMMA FlagsStay ==
  ASSUME FlagsOk(rflags, rpc), NEW t \in RThreads, rpc \in [RThreads -> Pcs], rpc[t] # "new",
         NEW k, rpc' = [rpc EXCEPT ![t] = k], rflags' = rflags
  PROVE  FlagsOk(rflags', rpc')
BY DEF FlagsOk

(* rumpuser_mutex_tryenter and rumpuser_mutex_exit.                        *)
Tried(m, m2, h2, b) ==
  /\ m2 # m => MutexOk(m2, h2, b)
  /\ m2 = m => MutexOk(m, h2, TRUE)
  /\ m2.w = m.w /\ m2.v > 0 /\ m2.v \in Nat
LeftBy(e, S, h2, b, W) ==
  /\ e.wake \in Seq(RThreads) /\ ToSet(e.wake) = W /\ W \subseteq S
  /\ Holds(e.m.w, S \ W) /\ MutexOk(e.m, h2, b)
  /\ e.m.v = 0 /\ e.m.w # <<>> => W # {}

LEMMA TryEnterIs ==
  ASSUME NEW m, NEW h, NEW b \in BOOLEAN, MutexOk(m, h, b), NEW t \in RThreads, RNull \notin RThreads,
         NEW m2, m2 = TryEnter(m, t), NEW h2, h2 = [h EXCEPT ![t].m = @ + 1]
  PROVE  Tried(m, m2, h2, b)
<1>1. /\ m \in [v : Nat, o : RThreads \cup {RNull}, w : Seq(RThreads)] /\ (m.v = 0 <=> m.o = RNull)
      /\ h \in [RThreads -> [m : Nat, r : {"no", "rd", "wr"}]]
      /\ ~b => \A x \in RThreads : IF m.o = x THEN h[x].m = m.v ELSE h[x].m = 0
  BY DEF MutexOk
<1>2. h2 \in [RThreads -> [m : Nat, r : {"no", "rd", "wr"}]]
      /\ h2[t].m = h[t].m + 1 /\ \A x \in RThreads \ {t} : h2[x] = h[x]
  BY <1>1
<1>3. CASE m.v > 0 /\ m.o # t
  <2>1. m2 = m
    BY <1>3 DEF TryEnter
  <2>2. QED
    BY <1>1, <1>2, <1>3, <2>1 DEF MutexOk, Tried
<1>4. CASE ~(m.v > 0 /\ m.o # t)
  <2>1. m2 \in [v : {m.v + 1}, o : {t}, w : {m.w}]
    BY <1>1, <1>4 DEF TryEnter
  <2>2. m2.v = m.v + 1 /\ m2.o = t /\ m2.w = m.w /\ m.v \in Nat /\ m.w \in Seq(RThreads)
    BY <1>1, <2>1
  <2>3. m2 # m
    BY <2>2
  <2>4. m2 \in [v : Nat, o : RThreads \cup {RNull}, w : Seq(RThreads)]
    BY <2>1, <2>2
  <2>5. ASSUME ~b, NEW x \in RThreads PROVE IF m2.o = x THEN h2[x].m = m2.v ELSE h2[x].m = 0
    <3>1. m.v = 0 \/ m.o = t
      BY <1>1, <1>4
    <3>2. h[t].m = m.v /\ \A y \in RThreads \ {t} : h[y].m = 0
      BY <1>1, <2>5, <3>1
    <3>3. QED
      BY <1>2, <2>2, <3>2
  <2>6. QED
    BY <1>2, <2>2, <2>3, <2>4, <2>5 DEF MutexOk, Tried
<1>5. QED
  BY <1>3, <1>4

(* Who has entered it leaves, and the first that waits is taken off.       *)
LEMMA ExitedIs ==
  ASSUME NEW m, NEW h, NEW b \in BOOLEAN, MutexOk(m, h, b), NEW t \in RThreads, RNull \notin RThreads,
         m.v # 0, h[t].m > 0, NEW S, Holds(m.w, S),
         NEW h2, h2 = [h EXCEPT ![t].m = @ + -1]
  PROVE  \E W : LeftBy(Exited(m), S, h2, b, W)
<1> DEFINE m2 == Exited(m).m
           ws == Exited(m).wake
<1>1. /\ m \in [v : Nat, o : RThreads \cup {RNull}, w : Seq(RThreads)] /\ (m.v = 0 <=> m.o = RNull)
      /\ h \in [RThreads -> [m : Nat, r : {"no", "rd", "wr"}]]
      /\ ~b => \A x \in RThreads : IF m.o = x THEN h[x].m = m.v ELSE h[x].m = 0
  BY DEF MutexOk
<1>2. h2 \in [RThreads -> [m : Nat, r : {"no", "rd", "wr"}]]
      /\ h2[t].m = h[t].m - 1 /\ \A x \in RThreads \ {t} : h2[x] = h[x]
  <2>1. h[t] \in [m : Nat, r : {"no", "rd", "wr"}] /\ h[t].m + -1 \in Nat /\ h[t].m + -1 = h[t].m - 1
    BY <1>1
  <2> DEFINE g == [h[t] EXCEPT !.m = @ + -1]
  <2>2. g \in [m : Nat, r : {"no", "rd", "wr"}] /\ g.m = h[t].m - 1
    BY <2>1
  <2>3. h2 = [h EXCEPT ![t] = g]
    OBVIOUS
  <2> HIDE DEF g
  <2>4. QED
    BY <1>1, <2>2, <2>3
<1>3. ~b => m.o = t /\ h[t].m = m.v /\ \A y \in RThreads \ {t} : h[y].m = 0
  BY <1>1
<1>4. CASE m.v = 1
  <2>1. m2 = [v |-> 0, o |-> RNull, w |-> IF m.w = <<>> THEN <<>> ELSE Tail(m.w)]
        /\ ws = IF m.w # <<>> THEN <<Head(m.w)>> ELSE <<>>
    BY <1>4 DEF Exited
  <2>2. m.w # <<>> => Tail(m.w) \in Seq(RThreads) /\ Head(m.w) \in RThreads
    BY <1>1
  <2>3. MutexOk(m2, h2, b)
    BY <1>2, <1>3, <1>4, <2>1, <2>2 DEF MutexOk
  <2>4. CASE m.w = <<>>
    <3>1. ws = <<>> /\ m2.w = <<>>
      BY <2>1, <2>4
    <3>2. ToSet(<<>>) = {}
      BY DEF ToSet
    <3>3. S \ {} = {} /\ {} \subseteq S /\ Holds(<<>>, {})
      BY <2>4, HoldsNone
    <3>4. Holds(m2.w, S \ {})
      BY <3>1, <3>3
    <3>5. ws \in Seq(RThreads)
      BY <3>1
    <3> HIDE DEF m2, ws
    <3>6. QED
      BY <2>3, <3>1, <3>2, <3>3, <3>4, <3>5 DEF m2, ws, LeftBy
  <2>5. CASE m.w # <<>>
    <3>1. m2.w = Tail(m.w) /\ ws = <<Head(m.w)>>
      BY <2>1, <2>5
    <3>2. Holds(m2.w, S \ {Head(m.w)}) /\ Head(m.w) \in S
      BY <2>5, <3>1, HoldsFewer
    <3>3. ToSet(ws) = {Head(m.w)} /\ ws \in Seq(RThreads)
      BY <2>2, <2>5, <3>1 DEF ToSet
    <3>4. {Head(m.w)} # {} /\ {Head(m.w)} \subseteq S
      BY <3>2
    <3> HIDE DEF m2, ws
    <3>5. QED
      BY <2>3, <3>2, <3>3, <3>4 DEF m2, ws, LeftBy
  <2>6. QED
    BY <2>4, <2>5
<1>5. CASE m.v # 1
  <2>1. m2 \in [v : {m.v - 1}, o : {m.o}, w : {m.w}] /\ ws = <<>>
    BY <1>1, <1>5 DEF Exited
  <2>2. m2.v = m.v - 1 /\ m2.o = m.o /\ m2.w = m.w /\ m2.v \in Nat /\ m2.v # 0
    BY <1>1, <1>5, <2>1
  <2>3. m2 \in [v : Nat, o : RThreads \cup {RNull}, w : Seq(RThreads)]
    BY <1>1, <2>1, <2>2
  <2>4. MutexOk(m2, h2, b)
    BY <1>1, <1>2, <1>3, <2>2, <2>3 DEF MutexOk
  <2>5. ToSet(ws) = {} /\ ws \in Seq(RThreads) /\ S \ {} = S /\ {} \subseteq S
    BY <2>1 DEF ToSet
  <2>6. Holds(m2.w, S \ {})
    BY <2>2, <2>5
  <2> HIDE DEF m2, ws
  <2>7. QED
    BY <2>2, <2>4, <2>5, <2>6 DEF m2, ws, LeftBy
<1>6. QED
  BY <1>4, <1>5

LEMMA LockStep ==
  ASSUME RSchedOk(rcur', ract'), NEW R2, Runs(rcur', ract') = R2, PcOk(rpc', R2),
         WaitOk(rpc', R2, mtx', rwl', cv'), FlagsOk(rflags', rpc'),
         rflags' \in [RThreads -> SUBSET {"MUSTJOIN", "JOINED"}],
         MutexOk(mtx', rhold', rbarged'), RwCvOk(rwl', cv'), GoingOk(rpc', R2, mtx', rwl')
  PROVE  RumpInv'
BY DEF RumpInv

LEMMA AtFacts ==
  ASSUME RumpInv, NEW t \in RThreads, rcur = t
  PROVE  LET R == Runs(rcur, ract) IN
         /\ t \in R /\ Holds(ract, R \ {t}) /\ RNull \notin RThreads /\ rbarged \in BOOLEAN
         /\ PcOk(rpc, R) /\ FlagsOk(rflags, rpc) /\ rpc \in [RThreads -> Pcs] /\ R \subseteq RThreads
         /\ rflags \in [RThreads -> SUBSET {"MUSTJOIN", "JOINED"}]
         /\ MutexOk(mtx, rhold, rbarged) /\ RwCvOk(rwl, cv)
         /\ WaitOk(rpc, R, mtx, rwl, cv) /\ GoingOk(rpc, R, mtx, rwl)
<1>1. MutexOk(mtx, rhold, rbarged)
  BY RumpFacts
<1>2. rbarged \in BOOLEAN
  BY <1>1 DEF MutexOk
<1>3. QED
  BY <1>2, RumpFacts

(* The thread that runs goes on, after it has woken W, or it sleeps.       *)
LEMMA GoesOn ==
  ASSUME RumpInv, NEW t \in RThreads, rcur = t, NEW q, NEW W, W \subseteq RThreads, t \notin W,
         Holds(q, (Runs(rcur, ract) \ {t}) \cup W)
  PROVE  /\ StaysOn(q) => RSchedOk(rcur', ract') /\ Runs(rcur', ract') = Runs(rcur, ract) \cup W
         /\ SleepTo(q) => RSchedOk(rcur', ract') /\ Runs(rcur', ract') = (Runs(rcur, ract) \cup W) \ {t}
<1> DEFINE R == Runs(rcur, ract)
<1>1. t \in R /\ rcur # RNull /\ RSchedOk(rcur, ract)
  BY AtFacts, RumpFacts
<1> HIDE DEF R
<1>2. Holds(q, (R \ {t}) \cup W)
  BY DEF R
<1>3. (R \ {t}) \cup W = (R \cup W) \ {t} /\ ((R \ {t}) \cup W) \cup {t} = R \cup W
  BY <1>1
<1>4. ASSUME StaysOn(q) PROVE RSchedOk(rcur', ract') /\ Runs(rcur', ract') = R \cup W
  <2>1. rcur \notin (R \ {t}) \cup W
    OBVIOUS
  <2>2. RSchedOk(rcur', ract') /\ Runs(rcur', ract') = ((R \ {t}) \cup W) \cup {rcur}
    BY <1>1, <1>2, <1>4, <2>1, StaysOnIs
  <2>3. QED
    BY <1>3, <2>2
<1>5. ASSUME SleepTo(q) PROVE RSchedOk(rcur', ract') /\ Runs(rcur', ract') = (R \cup W) \ {t}
  <2>1. RSchedOk(rcur', ract') /\ Runs(rcur', ract') = (R \ {t}) \cup W
    BY <1>2, <1>5, SleepToIs
  <2>2. QED
    BY <1>3, <2>1
<1>6. QED
  BY <1>4, <1>5 DEF R

LEMMA GoesOnQuiet ==
  ASSUME RumpInv, NEW t \in RThreads, rcur = t
  PROVE  /\ StaysOn(ract) => RSchedOk(rcur', ract') /\ Runs(rcur', ract') = Runs(rcur, ract)
         /\ SleepTo(ract) => RSchedOk(rcur', ract') /\ Runs(rcur', ract') = Runs(rcur, ract) \ {t}
<1> DEFINE R == Runs(rcur, ract)
<1>1. Holds(ract, R \ {t})
  BY AtFacts
<1> HIDE DEF R
<1>2. (R \ {t}) \cup {} = R \ {t} /\ R \cup {} = R /\ {} \subseteq RThreads
  OBVIOUS
<1>3. Holds(ract, (R \ {t}) \cup {})
  BY <1>1, <1>2
<1>4. /\ StaysOn(ract) => RSchedOk(rcur', ract') /\ Runs(rcur', ract') = R \cup {}
      /\ SleepTo(ract) => RSchedOk(rcur', ract') /\ Runs(rcur', ract') = (R \cup {}) \ {t}
  BY <1>2, <1>3, GoesOn DEF R
<1>5. QED
  BY <1>2, <1>4 DEF R

(* The lists when the thread that runs goes on, with locks that changed,   *)
(* but not in who waits for them.                                          *)
LEMMA StayStep ==
  ASSUME RumpInv, NEW t \in RThreads, rcur = t, NEW k \in Live, rpc' = [rpc EXCEPT ![t] = k],
         StaysOn(ract), rflags' = rflags,
         mtx'.w = mtx.w, rwl'.rw = rwl.rw, rwl'.ww = rwl.ww, cv'.w = cv.w,
         MutexOk(mtx', rhold', rbarged'), RwCvOk(rwl', cv'),
         mtx'.v = 0 => mtx.v = 0 /\ rpc[t] # "mtx", rwl'.o = RNull => rwl.o = RNull /\ rpc[t] # "wr"
  PROVE  RumpInv'
<1> DEFINE R == Runs(rcur, ract)
<1>1. /\ t \in R /\ PcOk(rpc, R) /\ FlagsOk(rflags, rpc) /\ rpc \in [RThreads -> Pcs]
      /\ rflags \in [RThreads -> SUBSET {"MUSTJOIN", "JOINED"}]
      /\ WaitOk(rpc, R, mtx, rwl, cv) /\ GoingOk(rpc, R, mtx, rwl)
  BY AtFacts
<1>2. RSchedOk(rcur', ract') /\ Runs(rcur', ract') = R
  BY GoesOnQuiet
<1> HIDE DEF R
<1>3. Stayed(rpc, rpc', R, t) /\ PcOk(rpc', R)
  <2>1. Stayed(rpc, rpc', R, t)
    BY <1>1, StayOk
  <2>2. QED
    BY <2>1 DEF Stayed
<1>4. WaitOk(rpc', R, mtx', rwl', cv')
  BY <1>1, <1>3 DEF WaitOk, Stayed
<1>5. GoingOk(rpc', R, mtx', rwl')
  BY <1>1, <1>3 DEF GoingOk, Stayed
<1>6. rpc[t] # "new"
  BY <1>1 DEF PcOk, Live
<1>7. FlagsOk(rflags', rpc')
  BY <1>1, <1>6, FlagsStay
<1>8. QED
  BY <1>1, <1>2, <1>3, <1>4, <1>5, <1>7, LockStep

(* The thread that runs goes to sleep for k, at the end of a list.         *)
LEMMA SleepStep ==
  ASSUME RumpInv, NEW t \in RThreads, rcur = t, NEW k \in Waits, rpc' = [rpc EXCEPT ![t] = k],
         SleepTo(ract), rflags' = rflags,
         mtx'.w = IF k = "mtx" THEN Append(mtx.w, t) ELSE mtx.w,
         cv'.w = IF k = "cv" THEN Append(cv.w, t) ELSE cv.w,
         rwl'.rw = IF k = "rd" THEN Append(rwl.rw, t) ELSE rwl.rw,
         rwl'.ww = IF k = "wr" THEN Append(rwl.ww, t) ELSE rwl.ww,
         MutexOk(mtx', rhold', rbarged'), RwCvOk(rwl', cv'),
         mtx'.v = 0 => mtx.v = 0 /\ rpc[t] # "mtx" /\ k # "mtx",
         rwl'.o = RNull => rwl.o = RNull /\ rpc[t] # "wr" /\ k # "wr" /\ (k = "rd" => rwl.ww # <<>>)
  PROVE  RumpInv'
<1> DEFINE R == Runs(rcur, ract)
           R2 == R \ {t}
<1>1. /\ t \in R /\ PcOk(rpc, R) /\ FlagsOk(rflags, rpc) /\ rpc \in [RThreads -> Pcs]
      /\ rflags \in [RThreads -> SUBSET {"MUSTJOIN", "JOINED"}]
      /\ WaitOk(rpc, R, mtx, rwl, cv) /\ GoingOk(rpc, R, mtx, rwl)
  BY AtFacts
<1>2. RSchedOk(rcur', ract') /\ Runs(rcur', ract') = R2
  BY GoesOnQuiet
<1> HIDE DEF R
<1>3. FellAsleep(rpc, rpc', R, t, k)
  <2>1. k \in Pcs
    BY DEF Waits, Pcs, Live
  <2>2. QED
    BY <1>1, <2>1, SleepOk
<1>4. PcOk(rpc', R2)
  BY <1>3 DEF FellAsleep
<1>5. WaitOk(rpc', R2, mtx', rwl', cv')
  <2>1. ASSUME NEW j \in Waits, NEW l, Holds(l, Asleep(rpc, R, j))
        PROVE  Holds(IF k = j THEN Append(l, t) ELSE l, Asleep(rpc', R2, j))
    <3>1. CASE k = j
      <4>1. t \notin Asleep(rpc, R, j) /\ Asleep(rpc', R2, j) = Asleep(rpc, R, j) \cup {t}
        BY <1>3, <3>1 DEF FellAsleep
      <4>2. Holds(Append(l, t), Asleep(rpc, R, j) \cup {t})
        BY <2>1, <4>1, HoldsMany
      <4>3. QED
        BY <3>1, <4>1, <4>2
    <3>2. CASE k # j
      <4>1. Asleep(rpc', R2, j) = Asleep(rpc, R, j)
        BY <1>3, <3>2 DEF FellAsleep
      <4>2. QED
        BY <2>1, <3>2, <4>1
    <3>3. QED
      BY <3>1, <3>2
  <2>2. /\ Holds(mtx.w, Asleep(rpc, R, "mtx")) /\ Holds(cv.w, Asleep(rpc, R, "cv"))
        /\ Holds(rwl.rw, Asleep(rpc, R, "rd")) /\ Holds(rwl.ww, Asleep(rpc, R, "wr"))
    BY <1>1 DEF WaitOk
  <2>3. "mtx" \in Waits /\ "cv" \in Waits /\ "rd" \in Waits /\ "wr" \in Waits
    BY DEF Waits
  <2> HIDE DEF R2
  <2>4. Holds(mtx'.w, Asleep(rpc', R2, "mtx"))
    BY <2>1, <2>2, <2>3
  <2>5. Holds(cv'.w, Asleep(rpc', R2, "cv"))
    BY <2>1, <2>2, <2>3
  <2>6. Holds(rwl'.rw, Asleep(rpc', R2, "rd"))
    BY <2>1, <2>2, <2>3
  <2>7. Holds(rwl'.ww, Asleep(rpc', R2, "wr"))
    BY <2>1, <2>2, <2>3
  <2>8. QED
    BY <2>4, <2>5, <2>6, <2>7 DEF WaitOk
<1>6. GoingOk(rpc', R2, mtx', rwl')
  <2>1. \A j : Going(rpc, R, j) /\ rpc[t] # j => Going(rpc', R2, j)
    BY <1>3 DEF FellAsleep
  <2> HIDE DEF R2
  <2>2. ASSUME mtx'.v = 0, mtx'.w # <<>> PROVE Going(rpc', R2, "mtx")
    <3>1. mtx'.w = mtx.w /\ mtx.v = 0 /\ rpc[t] # "mtx"
      BY <2>2
    <3>2. Going(rpc, R, "mtx")
      BY <1>1, <2>2, <3>1 DEF GoingOk
    <3>3. QED
      BY <2>1, <3>1, <3>2
  <2>3. ASSUME rwl'.o = RNull, rwl'.ww # <<>> \/ rwl'.rw # <<>> PROVE Going(rpc', R2, "wr")
    <3>1. rwl.o = RNull /\ rpc[t] # "wr" /\ (rwl.ww # <<>> \/ rwl.rw # <<>>)
      BY <2>3
    <3>2. Going(rpc, R, "wr")
      BY <1>1, <3>1 DEF GoingOk
    <3>3. QED
      BY <2>1, <3>1, <3>2
  <2>4. QED
    BY <2>2, <2>3 DEF GoingOk
<1>7. rpc[t] # "new"
  BY <1>1 DEF PcOk, Live
<1>8. FlagsOk(rflags', rpc')
  BY <1>1, <1>7, FlagsStay
<1>9. QED
  BY <1>1, <1>2, <1>4, <1>5, <1>6, <1>8, LockStep

(* The queue after threads that sleep for k were woken.                    *)
LEMMA WokenQueue ==
  ASSUME RumpInv, NEW t \in RThreads, rcur = t, NEW k \in Waits, NEW ws \in Seq(RThreads),
         NEW W, ToSet(ws) = W, W \subseteq Asleep(rpc, Runs(rcur, ract), k)
  PROVE  /\ Holds(Woken(ract, ws), (Runs(rcur, ract) \ {t}) \cup W) /\ t \notin W /\ W \subseteq RThreads
         /\ WokeUp(rpc, Runs(rcur, ract), k, W)
<1> DEFINE R == Runs(rcur, ract)
<1>1. t \in R /\ Holds(ract, R \ {t}) /\ PcOk(rpc, R)
  BY AtFacts
<1> HIDE DEF R
<1>2. W \subseteq RThreads /\ t \notin W
  BY <1>1 DEF Asleep, R
<1>3. Holds(Woken(ract, ws), (R \ {t}) \cup W)
  BY <1>1, WokenIs
<1>4. WokeUp(rpc, R, k, W)
  BY <1>1, WakeOk DEF R
<1>5. QED
  BY <1>2, <1>3, <1>4 DEF R

(* The thread that runs wakes threads, and goes on.                        *)
LEMMA WakeStep ==
  ASSUME RumpInv, NEW t \in RThreads, rcur = t, NEW k \in Waits, NEW ws \in Seq(RThreads),
         NEW W, ToSet(ws) = W, W \subseteq Asleep(rpc, Runs(rcur, ract), k),
         StaysOn(Woken(ract, ws)), UNCHANGED <<rpc, rflags>>,
         MutexOk(mtx', rhold', rbarged'), RwCvOk(rwl', cv'),
         WaitOk(rpc, Runs(rcur, ract) \cup W, mtx', rwl', cv'),
         GoingOk(rpc, Runs(rcur, ract) \cup W, mtx', rwl')
  PROVE  RumpInv'
<1> DEFINE R == Runs(rcur, ract)
           R2 == R \cup W
<1>1. Holds(Woken(ract, ws), (R \ {t}) \cup W) /\ t \notin W /\ W \subseteq RThreads /\ WokeUp(rpc, R, k, W)
  BY WokenQueue
<1>2. RSchedOk(rcur', ract') /\ Runs(rcur', ract') = R2
  BY <1>1, GoesOn
<1>3. PcOk(rpc, R2)
  BY <1>1 DEF WokeUp
<1>4. FlagsOk(rflags, rpc) /\ rflags \in [RThreads -> SUBSET {"MUSTJOIN", "JOINED"}]
  BY AtFacts
<1> HIDE DEF R2
<1>5. WaitOk(rpc, R2, mtx', rwl', cv') /\ GoingOk(rpc, R2, mtx', rwl')
  BY DEF R2
<1>6. rpc' = rpc /\ rflags' = rflags
  OBVIOUS
<1>7. PcOk(rpc', R2) /\ WaitOk(rpc', R2, mtx', rwl', cv') /\ GoingOk(rpc', R2, mtx', rwl') /\ FlagsOk(rflags', rpc')
  BY <1>3, <1>4, <1>5, <1>6
<1>8. QED
  BY <1>2, <1>4, <1>6, <1>7, LockStep

-----------------------------------------------------------------------------
(* The mutex.                                                              *)
LEMMA LocksTyped ==
  ASSUME RumpInv
  PROVE  /\ mtx \in [v : Nat, o : RThreads \cup {RNull}, w : Seq(RThreads)] /\ rbarged \in BOOLEAN
         /\ rwl \in [v : Int, o : RThreads \cup {RNull}, rw : Seq(RThreads), ww : Seq(RThreads)]
         /\ cv \in [n : Int, w : Seq(RThreads)] /\ MutexOk(mtx, rhold, rbarged) /\ RwCvOk(rwl, cv)
         /\ RNull \notin RThreads /\ rhold \in [RThreads -> [m : Nat, r : {"no", "rd", "wr"}]]
<1>1. MutexOk(mtx, rhold, rbarged) /\ RwCvOk(rwl, cv)
  BY RumpFacts
<1>2. QED
  BY <1>1, RumpFacts DEF MutexOk, RwCvOk

LEMMA MutexEnterInv ==
  ASSUME RumpInv, NEW t \in RThreads, MutexEnter(t)
  PROVE  RumpInv'
<1> DEFINE m == TryEnter(mtx, t)
           h == [rhold EXCEPT ![t].m = @ + 1]
<1>0. /\ rcur = t /\ rpc[t] \in {"run", "mtx"} /\ rflags' = rflags /\ rwl' = rwl /\ cv' = cv
      /\ rbarged' = rbarged
  BY DEF MutexEnter, At, threads
<1>1. MutexOk(mtx, rhold, rbarged) /\ RwCvOk(rwl, cv) /\ RNull \notin RThreads /\ rbarged \in BOOLEAN
      /\ mtx \in [v : Nat, o : RThreads \cup {RNull}, w : Seq(RThreads)]
  BY LocksTyped
<1>2. (m # mtx => MutexOk(m, h, rbarged)) /\ m.w = mtx.w /\ m.v > 0 /\ m.v \in Nat
  <2>1. Tried(mtx, m, h, rbarged)
    BY <1>1, TryEnterIs
  <2>2. QED
    BY <2>1 DEF Tried
<1>3. CASE m # mtx
  <2>1. mtx' = m /\ rpc' = [rpc EXCEPT ![t] = "run"] /\ rhold' = h /\ StaysOn(ract)
    BY <1>3 DEF MutexEnter, RGoto, HoldsMore
  <2> HIDE DEF m, h
  <2>2. "run" \in Live /\ mtx'.v # 0 /\ mtx'.w = mtx.w
    BY <1>2, <2>1 DEF Live
  <2>3. MutexOk(mtx', rhold', rbarged') /\ RwCvOk(rwl', cv')
    BY <1>0, <1>1, <1>2, <1>3, <2>1
  <2>4. QED
    BY <1>0, <2>1, <2>2, <2>3, StayStep
<1>4. CASE m = mtx
  <2>1. /\ mtx' = [mtx EXCEPT !.w = Append(@, t)] /\ rpc' = [rpc EXCEPT ![t] = "mtx"]
        /\ SleepTo(ract) /\ rhold' = rhold
    BY <1>4 DEF MutexEnter, RGoto
  <2>2. mtx' \in [v : {mtx.v}, o : {mtx.o}, w : {Append(mtx.w, t)}] /\ mtx.v # 0
    <3>1. mtx.v # 0
      BY <1>2, <1>4
    <3> HIDE DEF m, h
    <3>2. QED
      BY <1>1, <2>1, <3>1
  <2>3. mtx'.v = mtx.v /\ mtx'.o = mtx.o /\ mtx'.w = Append(mtx.w, t) /\ mtx'.w \in Seq(RThreads)
    BY SMTT(30), <1>1, <2>2
  <2>4. mtx' \in [v : Nat, o : RThreads \cup {RNull}, w : Seq(RThreads)]
    BY <1>1, <2>2, <2>3
  <2>5. MutexOk(mtx', rhold', rbarged')
    BY <1>0, <1>1, <2>1, <2>3, <2>4 DEF MutexOk
  <2>6. "mtx" \in Waits
    BY DEF Waits
  <2>7. RwCvOk(rwl', cv')
    BY <1>0, <1>1
  <2> HIDE DEF m, h
  <2>8. QED
    BY <1>0, <2>1, <2>2, <2>3, <2>5, <2>6, <2>7, SleepStep
<1>5. QED
  BY <1>3, <1>4

(* A step of a thread that runs and stays where it is.                     *)
LEMMA InPlace ==
  ASSUME RumpInv, NEW t \in RThreads, At(t, "run"), UNCHANGED <<rcur, ract, rpc, rflags>>,
         mtx'.w = mtx.w, rwl'.rw = rwl.rw, rwl'.ww = rwl.ww, cv'.w = cv.w,
         MutexOk(mtx', rhold', rbarged'), RwCvOk(rwl', cv'),
         mtx'.v = 0 => mtx.v = 0, rwl'.o = RNull => rwl.o = RNull
  PROVE  RumpInv'
<1>1. rcur = t /\ rpc[t] = "run" /\ rpc \in [RThreads -> Pcs] /\ "run" \in Live
  BY AtIs DEF Live
<1>2. rpc' = [rpc EXCEPT ![t] = "run"] /\ StaysOn(ract)
  BY <1>1 DEF StaysOn
<1>3. QED
  BY <1>1, <1>2, StayStep

LEMMA MutexTryenterInv ==
  ASSUME RumpInv, NEW t \in RThreads, MutexTryenter(t)
  PROVE  RumpInv'
<1> DEFINE m == TryEnter(mtx, t)
           h == [rhold EXCEPT ![t].m = @ + 1]
<1>0. /\ At(t, "run") /\ mtx' = m /\ UNCHANGED <<rcur, ract, rpc, rflags, rwl, cv, rbarged>>
      /\ rhold' = IF mtx' = mtx THEN rhold ELSE h
  BY DEF MutexTryenter, threads
<1>1. MutexOk(mtx, rhold, rbarged) /\ RwCvOk(rwl, cv) /\ RNull \notin RThreads /\ rbarged \in BOOLEAN
  BY LocksTyped
<1>2. (m # mtx => MutexOk(m, h, rbarged)) /\ m.w = mtx.w /\ m.v > 0 /\ m.v \in Nat
  <2>1. Tried(mtx, m, h, rbarged)
    BY <1>1, TryEnterIs
  <2>2. QED
    BY <2>1 DEF Tried
<1> HIDE DEF m, h
<1>3. MutexOk(mtx', rhold', rbarged')
  BY <1>0, <1>1, <1>2
<1>4. RwCvOk(rwl', cv') /\ mtx'.v # 0 /\ mtx'.w = mtx.w
  BY <1>0, <1>1, <1>2
<1>5. QED
  BY <1>0, <1>3, <1>4, InPlace

(* What rumpuser_mutex_exit leaves: the first that waited is woken.        *)
Leaves(R, W) ==
  /\ Exited(mtx).wake \in Seq(RThreads) /\ ToSet(Exited(mtx).wake) = W /\ W \subseteq Asleep(rpc, R, "mtx")
  /\ WaitOk(rpc, R \cup W, Exited(mtx).m, rwl, cv) /\ GoingOk(rpc, R \cup W, Exited(mtx).m, rwl)

LEMMA ExitLeaves ==
  ASSUME RumpInv, NEW t \in RThreads, rcur = t, rhold[t].m > 0, mtx.v # 0
  PROVE  \E W : Leaves(Runs(rcur, ract), W) /\ MutexOk(Exited(mtx).m, [rhold EXCEPT ![t].m = @ + -1], rbarged)
<1> DEFINE R == Runs(rcur, ract)
           h2 == [rhold EXCEPT ![t].m = @ + -1]
           m2 == Exited(mtx).m
           S == Asleep(rpc, R, "mtx")
<1>1. MutexOk(mtx, rhold, rbarged) /\ RNull \notin RThreads /\ rbarged \in BOOLEAN
  BY LocksTyped
<1>2. WaitOk(rpc, R, mtx, rwl, cv) /\ GoingOk(rpc, R, mtx, rwl) /\ PcOk(rpc, R)
  BY AtFacts
<1>3. Holds(mtx.w, S)
  BY <1>2 DEF WaitOk
<1> HIDE DEF S
<1>4. PICK W : /\ Exited(mtx).wake \in Seq(RThreads) /\ ToSet(Exited(mtx).wake) = W /\ W \subseteq S
               /\ Holds(m2.w, S \ W) /\ MutexOk(m2, h2, rbarged)
               /\ m2.v = 0 /\ m2.w # <<>> => W # {}
  <2>1. \E W : LeftBy(Exited(mtx), S, h2, rbarged, W)
    BY <1>1, <1>3, ExitedIs
  <2>2. QED
    BY <2>1 DEF LeftBy
<1> HIDE DEF m2, h2, R
<1>5. WokeUp(rpc, R, "mtx", W)
  <2>1. "mtx" \in Waits
    BY DEF Waits
  <2>2. W \subseteq Asleep(rpc, R, "mtx")
    BY <1>4 DEF S
  <2>3. QED
    BY <1>2, <2>1, <2>2, WakeOk
<1>6. WaitOk(rpc, R \cup W, m2, rwl, cv)
  <2>1. Asleep(rpc, R \cup W, "mtx") = S \ W /\ \A j : j # "mtx" => Asleep(rpc, R \cup W, j) = Asleep(rpc, R, j)
    BY <1>5 DEF WokeUp, S
  <2>2. QED
    BY <1>2, <1>4, <2>1 DEF WaitOk
<1>7. GoingOk(rpc, R \cup W, m2, rwl)
  <2>1. m2.v = 0 /\ m2.w # <<>> => Going(rpc, R \cup W, "mtx")
    BY <1>4, <1>5 DEF WokeUp
  <2>2. Going(rpc, R, "wr") => Going(rpc, R \cup W, "wr")
    BY <1>5 DEF WokeUp
  <2>3. QED
    BY <1>2, <2>1, <2>2 DEF GoingOk
<1>8. Leaves(R, W) /\ MutexOk(m2, h2, rbarged)
  BY <1>4, <1>6, <1>7 DEF Leaves, S, m2
<1>9. QED
  BY <1>8 DEF m2, h2, R

LEMMA MutexExitInv ==
  ASSUME RumpInv, NEW t \in RThreads, MutexExit(t)
  PROVE  RumpInv'
<1> DEFINE R == Runs(rcur, ract)
           ws == Exited(mtx).wake
<1>0. rcur = t /\ rhold[t].m > 0
  BY DEF MutexExit, At
<1>1. CASE mtx.v = 0
  BY <1>1, AbortInv DEF MutexExit
<1>2. CASE mtx.v # 0
  <2>1. /\ mtx' = Exited(mtx).m /\ StaysOn(Woken(ract, ws)) /\ rhold' = [rhold EXCEPT ![t].m = @ + -1]
        /\ UNCHANGED <<rpc, rflags>> /\ rwl' = rwl /\ cv' = cv /\ rbarged' = rbarged
    BY <1>2 DEF MutexExit, HoldsMore, threads
  <2>2. PICK W : Leaves(R, W) /\ MutexOk(Exited(mtx).m, [rhold EXCEPT ![t].m = @ + -1], rbarged)
    BY <1>0, <1>2, ExitLeaves
  <2>3. MutexOk(mtx', rhold', rbarged')
    BY <2>1, <2>2
  <2>4. RwCvOk(rwl', cv')
    BY <2>1, LocksTyped
  <2> HIDE DEF ws
  <2>5. ws \in Seq(RThreads) /\ ToSet(ws) = W /\ W \subseteq Asleep(rpc, R, "mtx")
    BY <2>2 DEF Leaves, ws
  <2>6. WaitOk(rpc, R \cup W, mtx', rwl', cv') /\ GoingOk(rpc, R \cup W, mtx', rwl')
    BY <2>1, <2>2 DEF Leaves
  <2>7. "mtx" \in Waits
    BY DEF Waits
  <2>8. QED
    BY <1>0, <2>1, <2>3, <2>4, <2>5, <2>6, <2>7, WakeStep
<1>3. QED
  BY <1>1, <1>2

(* The condition variable.                                                 *)
LEMMA CvWaitInv ==
  ASSUME RumpInv, NEW t \in RThreads, CvWait(t)
  PROVE  RumpInv'
<1> DEFINE R == Runs(rcur, ract)
           ws == Exited(mtx).wake
<1>0. rcur = t /\ rhold[t].m > 0 /\ rpc[t] = "run"
  BY DEF CvWait, At
<1>1. CASE mtx.v = 0
  BY <1>1, AbortInv DEF CvWait
<1>2. CASE mtx.v # 0
  <2>1. /\ mtx' = Exited(mtx).m /\ SleepTo(Woken(ract, ws)) /\ rhold' = [rhold EXCEPT ![t].m = @ + -1]
        /\ cv' = [n |-> cv.n + 1, w |-> Append(cv.w, t)] /\ rpc' = [rpc EXCEPT ![t] = "cv"]
        /\ rflags' = rflags /\ rwl' = rwl /\ rbarged' = rbarged
    BY <1>2 DEF CvWait, HoldsMore, threads, RGoto
  <2>2. PICK W : Leaves(R, W) /\ MutexOk(Exited(mtx).m, [rhold EXCEPT ![t].m = @ + -1], rbarged)
    BY <1>0, <1>2, ExitLeaves
  <2>3. MutexOk(mtx', rhold', rbarged')
    BY <2>1, <2>2
  <2>4. RwCvOk(rwl', cv')
    BY <2>1, LocksTyped DEF RwCvOk
  <2> HIDE DEF ws
  <2>5. ws \in Seq(RThreads) /\ ToSet(ws) = W /\ W \subseteq Asleep(rpc, R, "mtx")
    BY <2>2 DEF Leaves, ws
  <2> DEFINE R1 == R \cup W
             R2 == R1 \ {t}
  <2>6. WaitOk(rpc, R1, mtx', rwl', cv) /\ GoingOk(rpc, R1, mtx', rwl')
    BY <2>1, <2>2 DEF Leaves
  <2>7. Holds(Woken(ract, ws), (R \ {t}) \cup W) /\ t \notin W /\ W \subseteq RThreads /\ WokeUp(rpc, R, "mtx", W)
    <3>1. "mtx" \in Waits
      BY DEF Waits
    <3>2. QED
      BY <1>0, <2>5, <3>1, WokenQueue
  <2>8. RSchedOk(rcur', ract') /\ Runs(rcur', ract') = R2
    BY <1>0, <2>1, <2>7, GoesOn
  <2>9. /\ t \in R1 /\ FlagsOk(rflags, rpc) /\ rpc \in [RThreads -> Pcs]
        /\ rflags \in [RThreads -> SUBSET {"MUSTJOIN", "JOINED"}]
    BY <1>0, AtFacts
  <2>10. PcOk(rpc, R1)
    BY <2>7 DEF WokeUp
  <2> HIDE DEF R1, R2
  <2>11. FellAsleep(rpc, rpc', R1, t, "cv")
    <3>1. "cv" \in Pcs
      BY DEF Pcs, Live
    <3>2. QED
      BY <2>1, <2>9, <2>10, <3>1, SleepOk
  <2>12. /\ PcOk(rpc', R2) /\ Asleep(rpc', R2, "cv") = Asleep(rpc, R1, "cv") \cup {t}
         /\ t \notin Asleep(rpc, R1, "cv")
         /\ \A j : j # "cv" => Asleep(rpc', R2, j) = Asleep(rpc, R1, j)
         /\ \A j : Going(rpc, R1, j) /\ rpc[t] # j => Going(rpc', R2, j)
    BY <2>11 DEF FellAsleep, R2
  <2>13. WaitOk(rpc', R2, mtx', rwl', cv')
    <3>1. Holds(cv.w, Asleep(rpc, R1, "cv"))
      BY <2>6 DEF WaitOk
    <3>2. Holds(Append(cv.w, t), Asleep(rpc, R1, "cv") \cup {t})
      BY <2>12, <3>1, HoldsMany
    <3>3. Holds(cv'.w, Asleep(rpc', R2, "cv"))
      BY <2>1, <2>12, <3>2
    <3>4. QED
      BY <2>6, <2>12, <3>3 DEF WaitOk
  <2>14. GoingOk(rpc', R2, mtx', rwl')
    BY <1>0, <2>6, <2>12 DEF GoingOk
  <2>15. FlagsOk(rflags', rpc')
    BY <1>0, <2>1, <2>9, FlagsStay
  <2>16. QED
    BY <2>1, <2>3, <2>4, <2>8, <2>9, <2>12, <2>13, <2>14, <2>15, LockStep
<1>3. QED
  BY <1>1, <1>2

LEMMA CvReschedInv ==
  ASSUME RumpInv, NEW t \in RThreads, CvResched(t)
  PROVE  RumpInv'
<1> DEFINE m == TryEnter(mtx, t)
           h == [rhold EXCEPT ![t].m = @ + 1]
<1>0. /\ rcur = t /\ rpc[t] = "cv" /\ rflags' = rflags /\ rwl' = rwl /\ cv' = [cv EXCEPT !.n = @ - 1]
      /\ rbarged' = (rbarged \/ mtx' = mtx) /\ mtx' = m /\ rhold' = h
      /\ rpc' = [rpc EXCEPT ![t] = "run"] /\ UNCHANGED <<rcur, ract>>
  BY DEF CvResched, At, threads, HoldsMore, RGoto
<1>1. /\ MutexOk(mtx, rhold, rbarged) /\ RwCvOk(rwl, cv) /\ RNull \notin RThreads /\ rbarged \in BOOLEAN
      /\ cv \in [n : Int, w : Seq(RThreads)]
  BY LocksTyped
<1>2. Tried(mtx, m, h, rbarged)
  BY <1>1, TryEnterIs
<1> HIDE DEF m, h
<1>3. MutexOk(mtx', rhold', rbarged')
  <2>1. CASE m = mtx
    <3>1. rbarged' = TRUE /\ MutexOk(mtx, h, TRUE)
      BY <1>0, <1>2, <2>1 DEF Tried
    <3>2. QED
      BY <1>0, <2>1, <3>1
  <2>2. CASE m # mtx
    <3>1. rbarged' = rbarged /\ MutexOk(m, h, rbarged)
      BY <1>0, <1>1, <1>2, <2>2 DEF Tried
    <3>2. QED
      BY <1>0, <3>1
  <2>3. QED
    BY <2>1, <2>2
<1>4. mtx'.v # 0 /\ mtx'.w = mtx.w /\ "run" \in Live /\ StaysOn(ract)
  BY <1>0, <1>2 DEF Tried, Live, StaysOn
<1>5. RwCvOk(rwl', cv') /\ cv'.w = cv.w
  BY <1>0, <1>1 DEF RwCvOk
<1>6. QED
  BY <1>0, <1>3, <1>4, <1>5, StayStep

(* rumpuser_cv_signal and rumpuser_cv_broadcast wake W.                    *)
LEMMA CvWakes ==
  ASSUME RumpInv, NEW t \in RThreads, At(t, "run"), NEW ws \in Seq(RThreads), NEW W, ToSet(ws) = W,
         W \subseteq Asleep(rpc, Runs(rcur, ract), "cv"), StaysOn(Woken(ract, ws)),
         UNCHANGED <<rpc, rflags, mtx, rwl, rhold, rbarged>>,
         RwCvOk(rwl, cv'), Holds(cv'.w, Asleep(rpc, Runs(rcur, ract), "cv") \ W)
  PROVE  RumpInv'
<1> DEFINE R == Runs(rcur, ract)
           R1 == R \cup W
<1>0. /\ rcur = t /\ rpc' = rpc /\ rflags' = rflags /\ mtx' = mtx /\ rwl' = rwl
      /\ rhold' = rhold /\ rbarged' = rbarged /\ "cv" \in Waits
  BY DEF At, Waits
<1>1. WaitOk(rpc, R, mtx, rwl, cv) /\ GoingOk(rpc, R, mtx, rwl) /\ MutexOk(mtx, rhold, rbarged)
  BY <1>0, AtFacts
<1>2. WokeUp(rpc, R, "cv", W)
  BY <1>0, WokenQueue
<1>3. /\ Asleep(rpc, R1, "cv") = Asleep(rpc, R, "cv") \ W
      /\ \A j : j # "cv" => Asleep(rpc, R1, j) = Asleep(rpc, R, j)
      /\ \A j : Going(rpc, R, j) => Going(rpc, R1, j)
  BY <1>2 DEF WokeUp
<1>4. Holds(cv'.w, Asleep(rpc, R1, "cv"))
  BY <1>3
<1> HIDE DEF R1, R
<1>5. WaitOk(rpc, R1, mtx', rwl', cv')
  BY <1>0, <1>1, <1>3, <1>4 DEF WaitOk
<1>6. GoingOk(rpc, R1, mtx', rwl')
  BY <1>0, <1>1, <1>3 DEF GoingOk
<1>7. MutexOk(mtx', rhold', rbarged') /\ RwCvOk(rwl', cv')
  BY <1>0, <1>1
<1>8. QED
  BY <1>0, <1>5, <1>6, <1>7, WakeStep DEF R1, R

LEMMA CvSignalInv ==
  ASSUME RumpInv, NEW t \in RThreads, CvSignal(t)
  PROVE  RumpInv'
<1> DEFINE R == Runs(rcur, ract)
           S == Asleep(rpc, R, "cv")
           x == Head(cv.w)
           ws == <<x>>
<1>0. /\ At(t, "run") /\ rcur = t /\ cv.w # <<>> /\ cv' = [cv EXCEPT !.w = Tail(@)]
      /\ StaysOn(Woken(ract, ws)) /\ UNCHANGED <<rpc, rflags, mtx, rwl, rhold, rbarged>>
  BY DEF CvSignal, At, threads
<1>1. RwCvOk(rwl, cv) /\ cv \in [n : Int, w : Seq(RThreads)]
  BY LocksTyped
<1>2. Holds(cv.w, S)
  BY <1>0, AtFacts DEF WaitOk
<1>3. Holds(Tail(cv.w), S \ {x}) /\ x \in S
  BY <1>0, <1>2, HoldsFewer
<1>4. x \in RThreads /\ Tail(cv.w) \in Seq(RThreads)
  BY <1>0, <1>1
<1>5. cv' \in [n : {cv.n}, w : {Tail(cv.w)}]
  BY <1>0, <1>1
<1>6. cv'.w = Tail(cv.w) /\ RwCvOk(rwl, cv')
  BY <1>1, <1>4, <1>5 DEF RwCvOk
<1> HIDE DEF x
<1>7. ws \in Seq(RThreads) /\ ToSet(ws) = {x}
  BY <1>4 DEF ToSet
<1> HIDE DEF ws
<1>8. Holds(cv'.w, S \ {x}) /\ {x} \subseteq S
  BY <1>3, <1>6
<1>9. QED
  BY <1>0, <1>6, <1>7, <1>8, CvWakes

LEMMA CvBroadcastInv ==
  ASSUME RumpInv, NEW t \in RThreads, CvBroadcast(t)
  PROVE  RumpInv'
<1> DEFINE R == Runs(rcur, ract)
           S == Asleep(rpc, R, "cv")
<1>0. /\ At(t, "run") /\ rcur = t /\ cv' = [cv EXCEPT !.w = <<>>]
      /\ StaysOn(Woken(ract, cv.w)) /\ UNCHANGED <<rpc, rflags, mtx, rwl, rhold, rbarged>>
  BY DEF CvBroadcast, At, threads
<1>1. RwCvOk(rwl, cv) /\ cv \in [n : Int, w : Seq(RThreads)] /\ cv.w \in Seq(RThreads)
  BY LocksTyped
<1>2. Holds(cv.w, S)
  BY <1>0, AtFacts DEF WaitOk
<1>3. ToSet(cv.w) = S
  BY <1>2 DEF Holds
<1>4. cv'.w = <<>> /\ RwCvOk(rwl, cv')
  <2>1. cv' \in [n : {cv.n}, w : {<<>>}]
    BY <1>0, <1>1
  <2>2. cv'.w = <<>> /\ cv' \in [n : Int, w : Seq(RThreads)]
    <3>1. <<>> \in Seq(RThreads) /\ cv.n \in Int
      BY <1>1
    <3>2. QED
      BY <2>1, <3>1
  <2>3. QED
    BY <1>1, <2>2 DEF RwCvOk
<1>5. S \ S = {} /\ S \subseteq S
  OBVIOUS
<1>6. Holds(cv'.w, S \ S)
  BY <1>4, <1>5, HoldsNone
<1>7. QED
  BY <1>0, <1>1, <1>3, <1>4, <1>5, <1>6, CvWakes

-----------------------------------------------------------------------------
(* The reader-writer lock.                                                 *)
LEMMA HoldRw ==
  ASSUME NEW h, NEW b, MutexOk(mtx, h, b), NEW t \in RThreads, NEW k \in {"no", "rd", "wr"}
  PROVE  MutexOk(mtx, [h EXCEPT ![t].r = k], b)
<1> DEFINE h2 == [h EXCEPT ![t].r = k]
<1>1. h \in [RThreads -> [m : Nat, r : {"no", "rd", "wr"}]]
  BY DEF MutexOk
<1>2. h2 \in [RThreads -> [m : Nat, r : {"no", "rd", "wr"}]] /\ \A x \in RThreads : h2[x].m = h[x].m
  BY <1>1
<1> HIDE DEF h2
<1>3. QED
  BY <1>2 DEF MutexOk, h2

LEMMA RwTakenIs ==
  ASSUME RumpInv, NEW t \in RThreads, NEW k \in {"rd", "wr"}, NEW l, l = RwTaken(rwl, k, t), RwFree(rwl, k)
  PROVE  /\ RwCvOk(l, cv) /\ l.rw = rwl.rw /\ l.ww = rwl.ww
         /\ k = "wr" => l.o # RNull
         /\ l.o = RNull => rwl.o = RNull
<1>1. /\ rwl \in [v : Int, o : RThreads \cup {RNull}, rw : Seq(RThreads), ww : Seq(RThreads)]
      /\ RNull \notin RThreads /\ RwCvOk(rwl, cv)
  BY LocksTyped
<1>2. CASE k = "wr"
  <2>1. l \in [v : {rwl.v}, o : {t}, rw : {rwl.rw}, ww : {rwl.ww}]
    BY <1>1, <1>2 DEF RwTaken
  <2>2. QED
    BY <1>1, <2>1 DEF RwCvOk
<1>3. CASE k # "wr"
  <2>1. l \in [v : {rwl.v + 1}, o : {rwl.o}, rw : {rwl.rw}, ww : {rwl.ww}]
    BY <1>1, <1>3 DEF RwTaken
  <2>2. rwl.v + 1 \in Int
    BY <1>1
  <2>3. QED
    BY <1>1, <1>3, <2>1, <2>2 DEF RwCvOk
<1>4. QED
  BY <1>2, <1>3

LEMMA RwEnterInv ==
  ASSUME RumpInv, NEW t \in RThreads, NEW k \in {"rd", "wr"}, RwEnter(t, k)
  PROVE  RumpInv'
<1>0. /\ rcur = t /\ rpc[t] \in {"run", k} /\ rflags' = rflags /\ mtx' = mtx /\ cv' = cv
      /\ rbarged' = rbarged
  BY DEF RwEnter, At, threads
<1>1. /\ MutexOk(mtx, rhold, rbarged) /\ RwCvOk(rwl, cv)
      /\ rwl \in [v : Int, o : RThreads \cup {RNull}, rw : Seq(RThreads), ww : Seq(RThreads)]
  BY LocksTyped
<1>2. rpc[t] # "mtx"
  BY <1>0
<1>3. CASE RwFree(rwl, k)
  <2>1. /\ rwl' = RwTaken(rwl, k, t) /\ rhold' = [rhold EXCEPT ![t].r = k]
        /\ rpc' = [rpc EXCEPT ![t] = "run"] /\ StaysOn(ract)
    BY <1>3 DEF RwEnter, RGoto
  <2>2. /\ RwCvOk(rwl', cv) /\ rwl'.rw = rwl.rw /\ rwl'.ww = rwl.ww
        /\ (k = "wr" => rwl'.o # RNull) /\ (rwl'.o = RNull => rwl.o = RNull)
    BY <1>3, <2>1, RwTakenIs
  <2>3. MutexOk(mtx', rhold', rbarged')
    BY <1>0, <1>1, <2>1, HoldRw
  <2>4. rwl'.o = RNull => rwl.o = RNull /\ rpc[t] # "wr"
    BY <1>0, <2>2
  <2>5. "run" \in Live /\ RwCvOk(rwl', cv')
    BY <1>0, <2>2 DEF Live
  <2>6. QED
    BY <1>0, <1>2, <2>1, <2>2, <2>3, <2>4, <2>5, StayStep
<1>4. CASE ~RwFree(rwl, k)
  <2>1. /\ rwl' = IF k = "wr" THEN [rwl EXCEPT !.ww = Append(@, t)] ELSE [rwl EXCEPT !.rw = Append(@, t)]
        /\ rpc' = [rpc EXCEPT ![t] = k] /\ SleepTo(ract) /\ rhold' = rhold
    BY <1>4 DEF RwEnter, RGoto
  <2>2. rwl' \in [v : {rwl.v}, o : {rwl.o}, rw : {IF k = "rd" THEN Append(rwl.rw, t) ELSE rwl.rw},
                  ww : {IF k = "wr" THEN Append(rwl.ww, t) ELSE rwl.ww}]
    <3>1. CASE k = "wr"
      BY <1>1, <2>1, <3>1
    <3>2. CASE k = "rd"
      BY <1>1, <2>1, <3>2
    <3>3. QED
      BY <3>1, <3>2
  <2>3. /\ rwl'.o = rwl.o /\ rwl'.rw = (IF k = "rd" THEN Append(rwl.rw, t) ELSE rwl.rw)
        /\ rwl'.ww = (IF k = "wr" THEN Append(rwl.ww, t) ELSE rwl.ww)
    BY <2>2
  <2>4. RwCvOk(rwl', cv')
    <3>1. Append(rwl.rw, t) \in Seq(RThreads) /\ Append(rwl.ww, t) \in Seq(RThreads)
      BY <1>1
    <3>2. rwl' \in [v : Int, o : RThreads \cup {RNull}, rw : Seq(RThreads), ww : Seq(RThreads)]
      BY <1>1, <2>2, <3>1
    <3>3. QED
      BY <1>0, <1>1, <3>2 DEF RwCvOk
  <2>5. rwl'.o = RNull => rwl.o = RNull /\ rpc[t] # "wr" /\ k # "wr" /\ (k = "rd" => rwl.ww # <<>>)
    <3>1. rwl.o = RNull => k = "rd" /\ rwl.ww # <<>>
      BY <1>4 DEF RwFree
    <3>2. QED
      BY <1>0, <2>3, <3>1
  <2>6. /\ k \in Waits /\ k # "mtx" /\ k # "cv"
        /\ mtx'.w = (IF k = "mtx" THEN Append(mtx.w, t) ELSE mtx.w)
        /\ cv'.w = (IF k = "cv" THEN Append(cv.w, t) ELSE cv.w)
        /\ mtx'.v = 0 => mtx.v = 0 /\ rpc[t] # "mtx" /\ k # "mtx"
    BY <1>0, <1>2 DEF Waits
  <2>7. MutexOk(mtx', rhold', rbarged')
    BY <1>0, <1>1, <2>1
  <2>8. QED
    BY <1>0, <2>1, <2>3, <2>4, <2>5, <2>6, <2>7, SleepStep
<1>5. QED
  BY <1>3, <1>4

LEMMA RwTryenterInv ==
  ASSUME RumpInv, NEW t \in RThreads, NEW k \in {"rd", "wr"}, RwTryenter(t, k)
  PROVE  RumpInv'
<1>0. /\ At(t, "run") /\ UNCHANGED <<rcur, ract, rpc, rflags>> /\ mtx' = mtx /\ cv' = cv
      /\ rbarged' = rbarged /\ RwFree(rwl, k) /\ rwl' = RwTaken(rwl, k, t)
      /\ rhold' = [rhold EXCEPT ![t].r = k]
  BY DEF RwTryenter, threads
<1>1. MutexOk(mtx, rhold, rbarged)
  BY LocksTyped
<1>2. RwCvOk(rwl', cv) /\ rwl'.rw = rwl.rw /\ rwl'.ww = rwl.ww /\ (rwl'.o = RNull => rwl.o = RNull)
  BY <1>0, RwTakenIs
<1>3. MutexOk(mtx', rhold', rbarged')
  BY <1>0, <1>1, HoldRw
<1>4. QED
  BY <1>0, <1>2, <1>3, InPlace

LEMMA RwDowngradeInv ==
  ASSUME RumpInv, NEW t \in RThreads, RwDowngrade(t)
  PROVE  RumpInv'
<1>1. CASE rwl.o # t
  BY <1>1, AbortInv DEF RwDowngrade
<1>2. CASE rwl.o = t
  <2>0. /\ At(t, "run") /\ UNCHANGED <<rcur, ract, rpc, rflags>> /\ mtx' = mtx /\ cv' = cv
        /\ rbarged' = rbarged /\ rwl' = [rwl EXCEPT !.v = -1] /\ rhold' = [rhold EXCEPT ![t].r = "rd"]
    BY <1>2 DEF RwDowngrade, threads
  <2>1. /\ MutexOk(mtx, rhold, rbarged) /\ RwCvOk(rwl, cv)
        /\ rwl \in [v : Int, o : RThreads \cup {RNull}, rw : Seq(RThreads), ww : Seq(RThreads)]
    BY LocksTyped
  <2>2. rwl'.rw = rwl.rw /\ rwl'.ww = rwl.ww /\ rwl'.o = rwl.o /\ RwCvOk(rwl', cv')
    <3>1. -1 \in Int
      OBVIOUS
    <3>2. rwl' \in [v : {-1}, o : {rwl.o}, rw : {rwl.rw}, ww : {rwl.ww}]
      BY <2>0, <2>1
    <3>3. rwl' \in [v : Int, o : RThreads \cup {RNull}, rw : Seq(RThreads), ww : Seq(RThreads)]
      BY <2>1, <3>1, <3>2
    <3>4. QED
      BY <2>0, <2>1, <3>2, <3>3 DEF RwCvOk
  <2>3. MutexOk(mtx', rhold', rbarged')
    BY <2>0, <2>1, HoldRw
  <2>4. QED
    BY <2>0, <2>2, <2>3, InPlace
<1>3. QED
  BY <1>1, <1>2

LEMMA RwTryupgradeInv ==
  ASSUME RumpInv, NEW t \in RThreads, RwTryupgrade(t)
  PROVE  RumpInv'
<1>0. /\ At(t, "run") /\ UNCHANGED <<rcur, ract, rpc, rflags>> /\ mtx' = mtx /\ cv' = cv
      /\ rbarged' = rbarged /\ rwl' = [rwl EXCEPT !.v = 1, !.o = t] /\ rhold' = [rhold EXCEPT ![t].r = "wr"]
  BY DEF RwTryupgrade, threads
<1>1. /\ MutexOk(mtx, rhold, rbarged) /\ RwCvOk(rwl, cv) /\ RNull \notin RThreads
      /\ rwl \in [v : Int, o : RThreads \cup {RNull}, rw : Seq(RThreads), ww : Seq(RThreads)]
  BY LocksTyped
<1>2. rwl' \in [v : {1}, o : {t}, rw : {rwl.rw}, ww : {rwl.ww}]
  BY <1>0, <1>1
<1>3. rwl'.rw = rwl.rw /\ rwl'.ww = rwl.ww /\ rwl'.o # RNull /\ RwCvOk(rwl', cv')
  BY <1>0, <1>1, <1>2 DEF RwCvOk
<1>4. MutexOk(mtx', rhold', rbarged')
  BY <1>0, <1>1, HoldRw
<1>5. QED
  BY <1>0, <1>3, <1>4, InPlace

(* Who exits wakes the first writer, or else all readers: k, W.            *)
LEMMA RwExitInv ==
  ASSUME RumpInv, NEW t \in RThreads, RwExit(t)
  PROVE  RumpInv'
<1> DEFINE R == Runs(rcur, ract)
           l == IF rwl.o # RNull THEN [rwl EXCEPT !.o = RNull] ELSE [rwl EXCEPT !.v = @ - 1]
           ws == RwWakes(l)
<1>0. /\ rcur = t /\ UNCHANGED <<rpc, rflags>> /\ mtx' = mtx /\ cv' = cv /\ rbarged' = rbarged
      /\ rwl' = RwLeft(l) /\ StaysOn(Woken(ract, ws)) /\ rhold' = [rhold EXCEPT ![t].r = "no"]
  BY DEF RwExit, At, threads
<1>1. /\ MutexOk(mtx, rhold, rbarged) /\ RwCvOk(rwl, cv) /\ RNull \notin RThreads
      /\ rwl \in [v : Int, o : RThreads \cup {RNull}, rw : Seq(RThreads), ww : Seq(RThreads)]
  BY LocksTyped
<1>2. l \in [v : Int, o : {RNull}, rw : {rwl.rw}, ww : {rwl.ww}]
  <2>1. rwl.v - 1 \in Int
    BY <1>1
  <2>2. QED
    BY <1>1, <2>1
<1> HIDE DEF l
<1>3. l.o = RNull /\ l.rw = rwl.rw /\ l.ww = rwl.ww
  BY <1>2
<1>4. MutexOk(mtx', rhold', rbarged')
  BY <1>0, <1>1, HoldRw
<1>5. WaitOk(rpc, R, mtx, rwl, cv) /\ GoingOk(rpc, R, mtx, rwl)
  BY <1>0, AtFacts
<1> HIDE DEF R
<1>6. /\ Holds(mtx.w, Asleep(rpc, R, "mtx")) /\ Holds(cv.w, Asleep(rpc, R, "cv"))
      /\ Holds(rwl.rw, Asleep(rpc, R, "rd")) /\ Holds(rwl.ww, Asleep(rpc, R, "wr"))
  BY <1>5 DEF WaitOk
<1>7. CASE rwl.ww # <<>>
  <2> DEFINE x == Head(rwl.ww)
             W == {x}
             R1 == R \cup W
  <2>1. rwl' = [l EXCEPT !.ww = Tail(@)] /\ ws = <<x>>
    BY <1>0, <1>3, <1>7 DEF RwLeft, RwWakes
  <2>2. Holds(Tail(rwl.ww), Asleep(rpc, R, "wr") \ W) /\ x \in Asleep(rpc, R, "wr") /\ x \in RThreads
        /\ Tail(rwl.ww) \in Seq(RThreads)
    BY <1>1, <1>6, <1>7, HoldsFewer
  <2> HIDE DEF ws
  <2>3. rwl' \in [v : Int, o : {RNull}, rw : {rwl.rw}, ww : {Tail(rwl.ww)}]
    BY <1>2, <1>3, <2>1
  <2>4. rwl'.rw = rwl.rw /\ rwl'.ww = Tail(rwl.ww)
    BY <2>3
  <2>5. rwl' \in [v : Int, o : RThreads \cup {RNull}, rw : Seq(RThreads), ww : Seq(RThreads)]
    BY <1>1, <2>2, <2>3
  <2>6. RwCvOk(rwl', cv')
    BY <1>0, <1>1, <2>5 DEF RwCvOk
  <2> HIDE DEF x
  <2>7. ws \in Seq(RThreads) /\ ToSet(ws) = W
    BY <2>1, <2>2 DEF ToSet
  <2>8. W \subseteq Asleep(rpc, R, "wr") /\ W # {} /\ "wr" \in Waits
    BY <2>2 DEF Waits
  <2> HIDE DEF W
  <2>9. WokeUp(rpc, R, "wr", W)
    BY <1>0, <2>7, <2>8, WokenQueue DEF R
  <2>10. /\ Asleep(rpc, R1, "wr") = Asleep(rpc, R, "wr") \ W /\ Going(rpc, R1, "wr")
         /\ \A j : j # "wr" => Asleep(rpc, R1, j) = Asleep(rpc, R, j)
         /\ \A j : Going(rpc, R, j) => Going(rpc, R1, j)
    BY <2>8, <2>9 DEF WokeUp
  <2> HIDE DEF R1
  <2>11. WaitOk(rpc, R1, mtx', rwl', cv')
    BY <1>0, <1>6, <2>2, <2>4, <2>10 DEF WaitOk
  <2>12. GoingOk(rpc, R1, mtx', rwl')
    BY <1>0, <1>5, <2>10 DEF GoingOk
  <2>13. QED
    BY <1>0, <1>4, <2>6, <2>7, <2>8, <2>11, <2>12, WakeStep DEF R1, R
<1>8. CASE rwl.ww = <<>>
  <2> DEFINE W == Asleep(rpc, R, "rd")
             R1 == R \cup W
  <2>1. rwl' = [l EXCEPT !.rw = <<>>] /\ ws = rwl.rw
    BY <1>0, <1>3, <1>8 DEF RwLeft, RwWakes
  <2> HIDE DEF ws
  <2>2. ws \in Seq(RThreads) /\ ToSet(ws) = W
    BY <1>1, <1>6, <2>1 DEF Holds
  <2>3. rwl' \in [v : Int, o : {RNull}, rw : {<<>>}, ww : {<<>>}]
    BY <1>2, <1>3, <1>8, <2>1
  <2>4. rwl'.rw = <<>> /\ rwl'.ww = <<>> /\ rwl.ww = <<>>
    BY <1>8, <2>3
  <2>5. rwl' \in [v : Int, o : RThreads \cup {RNull}, rw : Seq(RThreads), ww : Seq(RThreads)]
    <3>1. <<>> \in Seq(RThreads)
      OBVIOUS
    <3>2. QED
      BY <2>3, <3>1
  <2>6. RwCvOk(rwl', cv')
    BY <1>0, <1>1, <2>5 DEF RwCvOk
  <2>8. W \subseteq Asleep(rpc, R, "rd") /\ "rd" \in Waits
    BY DEF Waits
  <2> HIDE DEF W
  <2>9. WokeUp(rpc, R, "rd", W)
    BY <1>0, <2>2, <2>8, WokenQueue DEF R
  <2>10. /\ Asleep(rpc, R1, "rd") = {}
         /\ \A j : j # "rd" => Asleep(rpc, R1, j) = Asleep(rpc, R, j)
         /\ \A j : Going(rpc, R, j) => Going(rpc, R1, j)
    BY <2>9 DEF WokeUp, W
  <2> HIDE DEF R1
  <2>11. WaitOk(rpc, R1, mtx', rwl', cv')
    BY <1>0, <1>6, <2>4, <2>10, HoldsNone DEF WaitOk
  <2>12. GoingOk(rpc, R1, mtx', rwl')
    BY <1>0, <1>5, <2>4, <2>10 DEF GoingOk
  <2>13. QED
    BY <1>0, <1>4, <2>2, <2>6, <2>8, <2>11, <2>12, WakeStep DEF R1, R
<1>9. QED
  BY <1>7, <1>8

-----------------------------------------------------------------------------
LEMMA RumpStep ==
  ASSUME RumpInv, [RumpNext]_rumpVars
  PROVE  RumpInv'
<1>1. CASE UNCHANGED rumpVars
  <2>1. UNCHANGED <<rcur, ract, rpc, rflags, mtx, rwl, cv, rhold, rbarged>>
    BY <1>1 DEF rumpVars
  <2>2. QED
    BY <2>1 DEF RumpInv
<1>2. CASE RIdle
  BY <1>2, RIdleInv
<1>3. ASSUME NEW t \in RThreads,
             \/ MutexEnter(t) \/ MutexTryenter(t) \/ MutexExit(t)
             \/ CvWait(t) \/ CvResched(t) \/ CvSignal(t) \/ CvBroadcast(t)
      PROVE  RumpInv'
  BY <1>3, MutexEnterInv, MutexTryenterInv, MutexExitInv, CvWaitInv, CvReschedInv, CvSignalInv,
     CvBroadcastInv
<1>4. ASSUME NEW t \in RThreads, NEW k \in {"rd", "wr"}, RwEnter(t, k) \/ RwTryenter(t, k)
      PROVE  RumpInv'
  BY <1>4, RwEnterInv, RwTryenterInv
<1>5. ASSUME NEW t \in RThreads,
             RwExit(t) \/ RwDowngrade(t) \/ RwTryupgrade(t) \/ ClockSleep(t) \/ ThreadExit(t)
      PROVE  RumpInv'
  BY <1>5, RwExitInv, RwDowngradeInv, RwTryupgradeInv, ClockSleepInv, ThreadExitInv
<1>6. ASSUME NEW t \in RThreads, NEW n \in RCreated, NEW j \in BOOLEAN, ThreadCreate(t, n, j)
      PROVE  RumpInv'
  BY <1>6, ThreadCreateInv
<1>7. ASSUME NEW t \in RThreads, NEW n \in RCreated, ThreadJoin(t, n)
      PROVE  RumpInv'
  BY <1>7, ThreadJoinInv
<1>8. ASSUME NEW t \in RThreads, NEW b \in RBios, NEW st \in BOOLEAN, Bio(t, b, st)
      PROVE  RumpInv'
  BY <1>8, BioInv
<1>9. ASSUME NEW b \in RBios, BioDone(b) \/ BioAst(b) \/ BioAstEnd(b)
      PROVE  RumpInv'
  BY <1>9, BioDoneInv, BioAstInv, BioAstEndInv
<1>10. QED
  BY <1>1, <1>2, <1>3, <1>4, <1>5, <1>6, <1>7, <1>8, <1>9 DEF RumpNext

(* Lists of threads that stand at different places have none in common.    *)
LEMMA HoldsBoth ==
  ASSUME NEW l, NEW S, Holds(l, S), NEW l2, NEW S2, Holds(l2, S2), S \cap S2 = {}
  PROVE  Holds(l \o l2, S \cup S2)
BY Concat DEF Holds

(* The inductive invariant says what RumpSound does.                       *)
LEMMA RumpInvSound == RumpInv => RumpSound
<1> SUFFICES ASSUME RumpInv PROVE RumpSound
  OBVIOUS
<1> DEFINE R == Runs(rcur, ract)
           waits == mtx.w \o rwl.rw \o rwl.ww \o cv.w
           A(k) == Asleep(rpc, R, k)
<1>1. /\ RSchedOk(rcur, ract) /\ PcOk(rpc, R) /\ WaitOk(rpc, R, mtx, rwl, cv)
      /\ MutexOk(mtx, rhold, rbarged) /\ GoingOk(rpc, R, mtx, rwl)
      /\ RNull \notin RThreads /\ Holds(ract, R \ {rcur}) /\ R \subseteq RThreads
  BY RumpFacts
<1>2. R = (ToSet(ract) \cup {rcur}) \ {RNull}
  BY DEF Runs
<1> HIDE DEF R
<1>3. Holds(mtx.w, A("mtx")) /\ Holds(rwl.rw, A("rd")) /\ Holds(rwl.ww, A("wr")) /\ Holds(cv.w, A("cv"))
  BY <1>1 DEF WaitOk
<1>4. /\ A("mtx") \cap A("rd") = {} /\ (A("mtx") \cup A("rd")) \cap A("wr") = {}
      /\ ((A("mtx") \cup A("rd")) \cup A("wr")) \cap A("cv") = {}
  BY DEF Asleep
<1> DEFINE T == ((A("mtx") \cup A("rd")) \cup A("wr")) \cup A("cv")
<1>5. Holds(waits, T)
  <2> HIDE DEF A
  <2>1. Holds(mtx.w \o rwl.rw, A("mtx") \cup A("rd"))
    BY <1>3, <1>4, HoldsBoth
  <2>2. Holds((mtx.w \o rwl.rw) \o rwl.ww, (A("mtx") \cup A("rd")) \cup A("wr"))
    BY <1>3, <1>4, <2>1, HoldsBoth
  <2>3. QED
    BY <1>3, <1>4, <2>2, HoldsBoth
<1>6. \A t \in T : t \in RThreads /\ t \notin R
  BY DEF Asleep
<1>7. \A t \in RThreads : rpc[t] \in {"mtx", "rd", "wr", "cv"} => t \in T \/ t \in R
  BY DEF Asleep
<1> HIDE DEF T, A, waits
<1>8. IsInjective(waits) /\ ToSet(waits) = T /\ IsInjective(ract) /\ ToSet(ract) = R \ {rcur}
  BY <1>1, <1>5 DEF Holds
<1>9. WaitersSleep
  <2>1. T \cap (ToSet(ract) \cup {rcur}) = {}
    BY <1>1, <1>2, <1>6
  <2>2. rcur \notin ToSet(ract)
    BY <1>8
  <2>3. \A t \in RThreads : rpc[t] \in {"mtx", "rd", "wr", "cv"} =>
           t \in ToSet(waits) \/ t \in ToSet(ract) \/ t = rcur
    BY <1>2, <1>7, <1>8
  <2>4. QED
    BY <1>8, <2>1, <2>2, <2>3 DEF WaitersSleep, waits
<1>10. NoStrandedWaiter
  <2>1. ASSUME mtx.v = 0, mtx.w # <<>>
        PROVE  \E t \in ToSet(ract) \cup {rcur} : t # RNull /\ rpc[t] \in {"mtx"}
    <3>1. PICK t \in R : rpc[t] = "mtx"
      BY <1>1, <2>1 DEF GoingOk, Going
    <3>2. QED
      BY <1>2, <3>1
  <2>2. ASSUME rwl.o = RNull, rwl.ww \o rwl.rw # <<>>
        PROVE  \E t \in ToSet(ract) \cup {rcur} : t # RNull /\ rpc[t] \in {"rd", "wr"}
    <3>1. rwl.ww # <<>> \/ rwl.rw # <<>>
      BY <2>2
    <3>2. PICK t \in R : rpc[t] = "wr"
      BY <1>1, <2>2, <3>1 DEF GoingOk, Going
    <3>3. QED
      BY <1>2, <3>2
  <2>3. QED
    BY <2>1, <2>2 DEF NoStrandedWaiter
<1>11. MutexExclusive
  BY <1>1 DEF MutexExclusive, MutexOk
<1>12. QED
  BY <1>9, <1>10, <1>11 DEF RumpSound

(* The locks that a rump kernel gets from its host (rumpuser.c): a thread  *)
(* is on one list of waiters, once, exactly while it sleeps there          *)
(* (rumpuser_mutex_enter, rumpuser_cv_wait, rumpuser_rw_enter); a lock     *)
(* that is free and waited for has a thread on its way to take it; and     *)
(* until rumpuser_mutex_enter_nowrap has found the mutex busy, only its    *)
(* owner is inside.  For any number of threads and any depth of the mutex. *)
THEOREM RumpSoundCorrect == RumpSpec => []RumpSound
<1>1. RumpInit => RumpInv
  BY RumpInitInv
<1>2. RumpInv /\ [RumpNext]_rumpVars => RumpInv'
  BY RumpStep
<1>3. RumpInv => RumpSound
  BY RumpInvSound
<1>4. QED
  BY <1>1, <1>2, <1>3, PTL DEF RumpSpec

-----------------------------------------------------------------------------
(* The LWTs of a process.  The inductive invariant, until the queue slips: *)
(* the active LWTs are a list s; an LWT that runs is neither active nor    *)
(* registered, unless it is an AST; and every LWT that waits in evtwait    *)
(* has disabled interrupts once, so that none waits when an interrupt      *)
(* finds an LWT running.                                                   *)
LNodes == Lwts \cup {LHead}
ListIs(l, act, s) ==
  /\ l \in [nxt : [LNodes -> Lwts \cup {LNull}], last : LNodes]
  /\ s \in Seq(Lwts) /\ IsInjective(s) /\ ToSet(s) = act
  /\ IsFiniteSet(act) /\ Len(s) = Cardinality(act) /\ QueueIs(l, s)
ActiveOk(l, act) == \E s : ListIs(l, act, s)
LevelOk(level, n, waiting) ==
  /\ level \in Nat /\ IsFiniteSet(waiting \cap Waiters)
  /\ level >= Cardinality(waiting \cap Waiters) + n
RunsOk(c, idle, act, waiting) ==
  /\ c \in Lwts /\ idle \in BOOLEAN /\ waiting \subseteq Waiters \cup Asts
  /\ ~idle /\ c \notin Asts => c \notin act \cup waiting
NoLost(act, waiting, set) == \A w \in Waiters : w \in waiting /\ w \in set => w \in act

LwtGood ==
  /\ ActiveOk(lq, lact) /\ LevelOk(lvl, IF lidle THEN 1 ELSE 0, ewait)
  /\ RunsOk(lcur, lidle, lact, ewait) /\ NoLost(lact, ewait, evset)
LwtInv == ~lslip => LwtGood

-----------------------------------------------------------------------------
LEMMA LwtNames ==
  /\ Lwts = Waiters \cup Asts \cup {MainLwt} /\ LHead \notin Lwts /\ LNull \notin Lwts
  /\ Waiters \cap Asts = {} /\ MainLwt \notin Waiters /\ MainLwt \notin Asts
BY LwtAssumption DEF Lwts

(* The pointers, spelled out.                                              *)
LEMMA QueuePointers ==
  ASSUME NEW l, NEW s, s \in Seq(Lwts)
  PROVE  QueueIs(l, s) <=>
         /\ l.last = IF s = <<>> THEN LHead ELSE s[Len(s)]
         /\ l.nxt[LHead] = IF s = <<>> THEN LNull ELSE s[1]
         /\ \A i \in 1..Len(s) : l.nxt[s[i]] = IF i = Len(s) THEN LNull ELSE s[i + 1]
<1>1. Len(s) \in Nat /\ (s = <<>> <=> Len(s) = 0)
  OBVIOUS
<1>2. 0 .. Len(s) = {0} \cup 1 .. Len(s) /\ \A i \in 1..Len(s) : i # 0
  BY <1>1
<1>3. QED
  BY <1>1, <1>2 DEF QueueIs

(* SIMPLEQ_INSERT_TAIL of an LWT that is not in the queue.                 *)
LEMMA InsertList ==
  ASSUME NEW l, NEW act, ActiveOk(l, act), NEW w \in Lwts, w \notin act
  PROVE  ActiveOk(LwtInsert(l, w), act \cup {w})
<1>1. PICK s : ListIs(l, act, s)
  BY DEF ActiveOk
<1> DEFINE r == Append(s, w)
           n == Len(s)
           l2 == LwtInsert(l, w)
           A == Lwts
<1>2. /\ s \in Seq(A) /\ IsInjective(s) /\ ToSet(s) = act
      /\ IsFiniteSet(act) /\ n = Cardinality(act)
      /\ l.nxt \in [LNodes -> Lwts \cup {LNull}] /\ l.last \in LNodes /\ QueueIs(l, s)
  BY <1>1 DEF ListIs
<1>3. /\ l.last = IF s = <<>> THEN LHead ELSE s[n]
      /\ l.nxt[LHead] = IF s = <<>> THEN LNull ELSE s[1]
      /\ \A i \in 1..n : l.nxt[s[i]] = IF i = n THEN LNull ELSE s[i + 1]
  BY <1>2, QueuePointers
<1>4. n \in Nat /\ \A i \in 1..n : s[i] \in act /\ s[i] \in A /\ s[i] # w
  BY <1>2, InToSet
<1>5. \A i, j \in 1..n : s[i] = s[j] => i = j
  BY <1>2 DEF IsInjective
<1>6. l2 = [nxt |-> [l.nxt EXCEPT ![w] = LNull, ![l.last] = w], last |-> w]
  BY DEF LwtInsert
<1>7. w \in LNodes /\ w \in Lwts /\ w # LHead /\ A \subseteq Lwts /\ LHead \in LNodes /\ LHead \notin A
  BY LwtNames DEF LNodes
<1>8. l.last # w
  BY <1>3, <1>4, <1>7
<1>9. /\ l2.last = w /\ l2.nxt[w] = LNull /\ l2.nxt[l.last] = w
      /\ \A x \in LNodes : x # w /\ x # l.last => l2.nxt[x] = l.nxt[x]
      /\ l2.nxt \in [LNodes -> Lwts \cup {LNull}]
  BY <1>2, <1>6, <1>7, <1>8
<1>10. l2 \in [nxt : [LNodes -> Lwts \cup {LNull}], last : LNodes]
  BY <1>6, <1>7, <1>9
<1>11. /\ r \in Seq(A) /\ Len(r) = n + 1 /\ ToSet(r) = act \cup {w} /\ IsInjective(r)
  BY <1>2, PushBack
<1>12. r[n + 1] = w /\ (\A i \in 1..n : r[i] = s[i]) /\ r # <<>>
  <2>1. r[n + 1] = w /\ \A i \in 1..n : r[i] = s[i]
    BY <1>2
  <2> HIDE DEF r, n, A
  <2>2. r # <<>>
    BY <1>4, <1>11
  <2>3. QED
    BY <2>1, <2>2
<1> HIDE DEF r, l2, A
<1>13. QueueIs(l2, r)
  <2>1. l2.last = r[Len(r)]
    BY <1>9, <1>11, <1>12
  <2>2. l2.nxt[LHead] = r[1]
    <3>1. CASE n = 0
      BY <1>2, <1>3, <1>9, <1>12, <3>1
    <3>2. CASE n # 0
      <4>1. s # <<>> /\ 1 \in 1..n /\ n \in 1..n
        BY <1>4, <3>2
      <4>2. l.last # LHead /\ l.nxt[LHead] = s[1]
        BY <1>3, <1>4, <1>7, <4>1
      <4>3. QED
        BY <1>7, <1>9, <1>12, <4>1, <4>2
    <3>3. QED
      BY <3>1, <3>2
  <2>3. ASSUME NEW i \in 1..Len(r) PROVE l2.nxt[r[i]] = IF i = Len(r) THEN LNull ELSE r[i + 1]
    <3>1. CASE i = n + 1
      BY <1>9, <1>11, <1>12, <3>1
    <3>2. CASE i = n
      <4>1. i \in 1..n /\ s # <<>>
        BY <1>4, <1>11, <3>2
      <4>2. r[i] = l.last /\ r[i + 1] = w /\ i # Len(r)
        BY <1>3, <1>11, <1>12, <3>2, <4>1
      <4>3. QED
        BY <1>9, <4>2
    <3>3. CASE i # n + 1 /\ i # n
      <4>1. i \in 1..n /\ i + 1 \in 1..n /\ n \in 1..n /\ s # <<>> /\ i # Len(r)
        BY <1>4, <1>11, <3>3
      <4>2. s[i] # l.last
        BY <1>3, <1>5, <3>3, <4>1
      <4>3. s[i] \in LNodes /\ s[i] # w
        BY <1>4, <1>7, <4>1 DEF LNodes
      <4>4. l2.nxt[s[i]] = s[i + 1]
        BY <1>3, <1>9, <3>3, <4>1, <4>2, <4>3
      <4>5. QED
        BY <1>12, <4>1, <4>4
    <3>4. QED
      BY <3>1, <3>2, <3>3
  <2>4. r \in Seq(Lwts)
    BY <1>11 DEF A
  <2>5. QED
    BY <1>12, <2>1, <2>2, <2>3, <2>4, QueuePointers
<1>14. IsFiniteSet(act \cup {w}) /\ Cardinality(act \cup {w}) = n + 1
  BY <1>2, FS_AddElement
<1>15. ListIs(l2, act \cup {w}, r)
  BY <1>10, <1>11, <1>13, <1>14 DEF ListIs, A
<1>16. QED
  BY <1>15 DEF ActiveOk, l2

(* __lwt_wake.                                                             *)
LEMMA WakeList ==
  ASSUME NEW l, NEW act, ActiveOk(l, act), NEW w \in Lwts
  PROVE  ActiveOk(Wake(l, act, w), act \cup {w})
<1>1. CASE w \in act
  <2>1. Wake(l, act, w) = l /\ act \cup {w} = act
    BY <1>1 DEF Wake
  <2>2. QED
    BY <2>1
<1>2. CASE w \notin act
  BY <1>2, InsertList DEF Wake
<1>3. QED
  BY <1>1, <1>2

(* SIMPLEQ_REMOVE_HEAD: the first leaves.                                  *)
LEMMA DequeueList ==
  ASSUME NEW l, NEW act, ActiveOk(l, act), NEW new, new = l.nxt[LHead], new # LNull
  PROVE  new \in act /\ new \in Lwts /\ ActiveOk(Dequeue(l), act \ {new})
<1>1. PICK s : ListIs(l, act, s)
  BY DEF ActiveOk
<1> DEFINE r == Tail(s)
           n == Len(s)
           l2 == Dequeue(l)
           A == Lwts
<1>2. /\ s \in Seq(A) /\ IsInjective(s) /\ ToSet(s) = act
      /\ IsFiniteSet(act) /\ n = Cardinality(act)
      /\ l.nxt \in [LNodes -> Lwts \cup {LNull}] /\ l.last \in LNodes /\ QueueIs(l, s)
  BY <1>1 DEF ListIs
<1>3. /\ l.last = IF s = <<>> THEN LHead ELSE s[n]
      /\ l.nxt[LHead] = IF s = <<>> THEN LNull ELSE s[1]
      /\ \A i \in 1..n : l.nxt[s[i]] = IF i = n THEN LNull ELSE s[i + 1]
  BY <1>2, QueuePointers
<1>4. s # <<>> /\ new = s[1] /\ n \in Nat \ {0} /\ 1 \in 1..n /\ Head(s) = s[1]
  BY <1>2, <1>3
<1>5. \A i \in 1..n : s[i] \in act /\ s[i] \in A
  BY <1>2, InToSet
<1>6. \A i, j \in 1..n : s[i] = s[j] => i = j
  BY <1>2 DEF IsInjective
<1>7. /\ r \in Seq(A) /\ Len(r) = n - 1 /\ IsInjective(r) /\ ToSet(r) = act \ {new}
  BY <1>2, <1>4, PopFront
<1>8. \A i \in 1..n - 1 : r[i] = s[i + 1] /\ i + 1 \in 1..n
  BY <1>2, <1>4
<1>9. A \subseteq Lwts /\ LHead \notin A /\ LHead \in LNodes /\ LNull \notin A /\ LNull \notin Lwts
  BY LwtNames DEF LNodes
<1> DEFINE f == l.nxt[new]
<1>a. n # 1 => 2 \in 1..n /\ 1 \in 1..n - 1
  <2> HIDE DEF n
  <2>1. CASE n = 1
    BY <2>1
  <2>2. CASE n # 1
    BY <1>4, <2>2
  <2>3. QED
    BY <2>1, <2>2
<1>10. f = IF n = 1 THEN LNull ELSE s[2]
  <2>1. l.nxt[s[1]] = IF 1 = n THEN LNull ELSE s[1 + 1]
    BY <1>3, <1>4
  <2>2. QED
    BY <1>4, <2>1
<1>11. l2 = [nxt |-> [l.nxt EXCEPT ![LHead] = f], last |-> IF f = LNull THEN LHead ELSE l.last]
  BY DEF Dequeue
<1> HIDE DEF r, l2, f
<1>12. f \in Lwts \cup {LNull}
  BY <1>5, <1>9, <1>10, <1>a
<1>13. /\ l2.nxt[LHead] = f /\ \A x \in LNodes : x # LHead => l2.nxt[x] = l.nxt[x]
       /\ l2.nxt \in [LNodes -> Lwts \cup {LNull}] /\ l2.last = IF f = LNull THEN LHead ELSE l.last
  BY <1>2, <1>9, <1>11, <1>12
<1>14. l2 \in [nxt : [LNodes -> Lwts \cup {LNull}], last : LNodes]
  BY <1>2, <1>9, <1>11, <1>13
<1>15. QueueIs(l2, r)
  <2>1. r = <<>> <=> n = 1
    BY <1>4, <1>7
  <2>2. l2.last = IF r = <<>> THEN LHead ELSE r[Len(r)]
    <3>1. CASE n = 1
      BY <1>10, <1>13, <2>1, <3>1
    <3>2. CASE n # 1
      <4>1. 2 \in 1..n /\ n - 1 \in 1..n - 1 /\ (n - 1) + 1 = n
        <5> HIDE DEF n
        <5>1. n \in Nat /\ n # 0 /\ n # 1
          BY <1>4, <3>2
        <5>2. QED
          BY <5>1
      <4>2. f # LNull /\ r[n - 1] = s[n]
        BY <1>5, <1>8, <1>9, <1>10, <3>2, <4>1
      <4>3. QED
        BY <1>3, <1>4, <1>7, <1>13, <2>1, <3>2, <4>2
    <3>3. QED
      BY <3>1, <3>2
  <2>3. l2.nxt[LHead] = IF r = <<>> THEN LNull ELSE r[1]
    BY <1>8, <1>10, <1>13, <1>a, <2>1
  <2>4. ASSUME NEW i \in 1..Len(r) PROVE l2.nxt[r[i]] = IF i = Len(r) THEN LNull ELSE r[i + 1]
    <3>1. i \in 1..n - 1 /\ i + 1 \in 1..n
      BY <1>4, <1>7, <2>4
    <3>2. r[i] = s[i + 1] /\ s[i + 1] \in A
      BY <1>5, <1>8, <3>1
    <3>3. l2.nxt[r[i]] = l.nxt[s[i + 1]]
      BY <1>9, <1>13, <3>2 DEF LNodes
    <3>4. CASE i = Len(r)
      BY <1>3, <1>4, <1>7, <3>1, <3>3, <3>4
    <3>5. CASE i # Len(r)
      <4>1. i + 1 \in 1..n - 1 /\ i + 1 # n
        BY <1>4, <1>7, <3>1, <3>5
      <4>2. r[i + 1] = s[(i + 1) + 1]
        BY <1>8, <4>1
      <4>3. QED
        BY <1>3, <3>1, <3>3, <3>5, <4>1, <4>2
    <3>6. QED
      BY <3>4, <3>5
  <2>5. r \in Seq(Lwts)
    BY <1>7 DEF A
  <2>6. QED
    BY <2>2, <2>3, <2>4, <2>5, QueuePointers
<1>16. new \in act /\ new \in A
  BY <1>4, <1>5
<1>17. IsFiniteSet(act \ {new}) /\ Cardinality(act \ {new}) = n - 1
  BY ZenonT(40), <1>2, <1>16, FS_RemoveElement
<1>18. ListIs(l2, act \ {new}, r)
  BY <1>7, <1>14, <1>15, <1>17 DEF ListIs, A
<1>19. ActiveOk(l2, act \ {new})
  BY <1>18 DEF ActiveOk
<1>20. QED
  BY <1>16, <1>19 DEF l2, A

(* The switch to the first active LWT, or the wait for an interrupt.       *)
LEMMA ResumeOk ==
  ASSUME NEW l, NEW act, NEW level, NEW waiting, ActiveOk(l, act), LevelOk(level, 0, waiting),
         waiting \subseteq Waiters \cup Asts, NoLost(act, waiting, evset), Resume(l, act, level, waiting),
         evset' = evset, lcur \in Lwts
  PROVE  LwtGood'
<1> DEFINE card == Cardinality(waiting \cap Waiters)
<1>1. level \in Nat /\ IsFiniteSet(waiting \cap Waiters) /\ level >= card /\ card \in Nat
  BY FS_CardinalityType DEF LevelOk
<1>2. CASE l.nxt[LHead] = LNull
  <2>1. lidle' = TRUE /\ lq' = l /\ lact' = act /\ lvl' = level + 1 /\ ewait' = waiting /\ lcur' = lcur
    BY <1>2 DEF Resume
  <2>2. LevelOk(level + 1, 1, waiting)
    BY <1>1 DEF LevelOk
  <2>3. LevelOk(lvl', IF lidle' THEN 1 ELSE 0, ewait')
    BY <2>1, <2>2
  <2>4. RunsOk(lcur', lidle', lact', ewait')
    BY <2>1 DEF RunsOk
  <2>5. ActiveOk(lq', lact') /\ NoLost(lact', ewait', evset')
    BY <2>1
  <2>6. QED
    BY <2>3, <2>4, <2>5 DEF LwtGood
<1>3. CASE l.nxt[LHead] # LNull
  <2> DEFINE new == l.nxt[LHead]
             back == new \in Waiters /\ new \in waiting
             w2 == IF back THEN waiting \ {new} ELSE waiting
  <2>1. /\ lidle' = FALSE /\ lq' = Dequeue(l) /\ lact' = act \ {new} /\ lcur' = new
        /\ lvl' = (IF back THEN level - 1 ELSE level) /\ ewait' = w2
    BY <1>3 DEF Resume
  <2> HIDE DEF new
  <2>2. waiting \ {new} \subseteq w2 /\ w2 \subseteq waiting /\ (new \in Waiters => new \notin w2)
        /\ (new \notin Waiters => w2 = waiting)
    OBVIOUS
  <2>3. new \in act /\ new \in Lwts /\ ActiveOk(Dequeue(l), act \ {new})
    BY <1>3, <2>2, DequeueList DEF new
  <2>4. LevelOk(lvl', 0, w2)
    <3>1. CASE back
      <4>1. w2 \cap Waiters = (waiting \cap Waiters) \ {new} /\ new \in waiting \cap Waiters
        BY <3>1
      <4>2. IsFiniteSet(w2 \cap Waiters) /\ Cardinality(w2 \cap Waiters) = card - 1
        <5> DEFINE V == waiting \cap Waiters
        <5>1. IsFiniteSet(V) /\ new \in V /\ w2 \cap Waiters = V \ {new} /\ card = Cardinality(V)
          BY <1>1, <4>1
        <5> HIDE DEF V, w2, card
        <5>2. IsFiniteSet(V \ {new}) /\ Cardinality(V \ {new}) = Cardinality(V) - 1
          BY <5>1, FS_RemoveElement
        <5>3. QED
          BY <5>1, <5>2
      <4>3. card # 0
        BY <1>1, <4>1, FS_EmptySet
      <4>4. lvl' = level - 1
        BY <2>1, <3>1
      <4> HIDE DEF card, w2, back
      <4>5. QED
        BY <1>1, <4>2, <4>3, <4>4 DEF LevelOk
    <3>2. CASE ~back
      <4>1. w2 = waiting /\ lvl' = level
        BY <2>1, <3>2
      <4>2. QED
        BY <4>1
    <3>3. QED
      BY <3>1, <3>2
  <2> HIDE DEF w2, back
  <2>5. LevelOk(lvl', IF lidle' THEN 1 ELSE 0, ewait')
    BY <2>1, <2>4
  <2>6. RunsOk(lcur', lidle', lact', ewait')
    <3>1. new \in Lwts /\ w2 \subseteq Waiters \cup Asts
      BY <2>2, <2>3
    <3>2. new \notin Asts => new \notin w2
      BY <2>2, <2>3, <3>1, LwtNames
    <3>3. RunsOk(new, FALSE, act \ {new}, w2)
      BY <3>1, <3>2 DEF RunsOk
    <3>4. QED
      BY <2>1, <3>3
  <2>7. NoLost(act \ {new}, w2, evset)
    BY <2>2 DEF NoLost
  <2>8. ActiveOk(lq', lact') /\ NoLost(lact', ewait', evset')
    BY <2>1, <2>3, <2>7
  <2>9. QED
    BY <2>5, <2>6, <2>8 DEF LwtGood
<1>4. QED
  BY <1>2, <1>3

LEMMA LwtInitInv == LwtInit => LwtInv
<1> SUFFICES ASSUME LwtInit PROVE LwtInv
  OBVIOUS
<1>1. /\ lq = [nxt |-> [c \in LNodes |-> LNull], last |-> LHead] /\ lact = {} /\ lcur = MainLwt
      /\ lidle = FALSE /\ lvl = 0 /\ evset = {} /\ ewait = {}
  BY DEF LwtInit, LNodes
<1>2. ActiveOk(lq, lact)
  <2>1. lq \in [nxt : [LNodes -> Lwts \cup {LNull}], last : LNodes]
    BY <1>1 DEF LNodes
  <2>2. <<>> \in Seq(Lwts) /\ Len(<<>>) = 0
    OBVIOUS
  <2>3. IsInjective(<<>>) /\ ToSet(<<>>) = {}
    BY DEF IsInjective, ToSet
  <2>4. lq.last = LHead /\ lq.nxt[LHead] = LNull
    BY <1>1 DEF LNodes
  <2>5. QueueIs(lq, <<>>)
    <3> DEFINE e == <<>>
    <3>1. e \in Seq(Lwts) /\ Len(e) = 0 /\ e = <<>> /\ 1..0 = {}
      OBVIOUS
    <3> HIDE DEF e
    <3>2. QueueIs(lq, e)
      BY <2>4, <3>1, QueuePointers
    <3>3. QED
      BY <3>1, <3>2
  <2>6. ListIs(lq, lact, <<>>)
    BY <1>1, <2>1, <2>2, <2>3, <2>5, FS_EmptySet DEF ListIs
  <2>7. QED
    BY <2>6 DEF ActiveOk
<1>3. LevelOk(lvl, IF lidle THEN 1 ELSE 0, ewait)
  <2>1. ewait \cap Waiters = {}
    BY <1>1
  <2>2. QED
    BY <1>1, <2>1, FS_EmptySet DEF LevelOk
<1>4. RunsOk(lcur, lidle, lact, ewait)
  BY <1>1, LwtNames DEF RunsOk
<1>5. NoLost(lact, ewait, evset)
  BY <1>1 DEF NoLost
<1>6. QED
  BY <1>2, <1>3, <1>4, <1>5 DEF LwtGood, LwtInv

LEMMA LwtFacts ==
  ASSUME LwtGood
  PROVE  /\ ActiveOk(lq, lact) /\ LevelOk(lvl, IF lidle THEN 1 ELSE 0, ewait)
         /\ RunsOk(lcur, lidle, lact, ewait) /\ NoLost(lact, ewait, evset)
         /\ lcur \in Lwts /\ lidle \in BOOLEAN /\ ewait \subseteq Waiters \cup Asts
         /\ LevelOk(lvl, 0, ewait)
<1>1. /\ ActiveOk(lq, lact) /\ LevelOk(lvl, IF lidle THEN 1 ELSE 0, ewait)
      /\ RunsOk(lcur, lidle, lact, ewait) /\ NoLost(lact, ewait, evset)
  BY DEF LwtGood
<1>2. LevelOk(lvl, 0, ewait)
  <2>1. Cardinality(ewait \cap Waiters) \in Nat
    BY <1>1, FS_CardinalityType DEF LevelOk
  <2>2. QED
    BY <1>1, <2>1 DEF LevelOk
<1>3. QED
  BY <1>1, <1>2 DEF RunsOk

(* A step of an LWT that touches neither the queue nor who waits.          *)
LEMMA StillOk ==
  ASSUME LwtGood, UNCHANGED <<lq, lact, lcur, lidle, lvl, ewait>>, evset' \subseteq evset
  PROVE  LwtGood'
<1>1. /\ ActiveOk(lq, lact) /\ LevelOk(lvl, IF lidle THEN 1 ELSE 0, ewait)
      /\ RunsOk(lcur, lidle, lact, ewait) /\ NoLost(lact, ewait, evset)
  BY LwtFacts
<1>2. lq' = lq /\ lact' = lact /\ lcur' = lcur /\ lidle' = lidle /\ lvl' = lvl /\ ewait' = ewait
  OBVIOUS
<1>3. NoLost(lact', ewait', evset')
  BY <1>1, <1>2 DEF NoLost
<1>4. /\ ActiveOk(lq', lact') /\ LevelOk(lvl', IF lidle' THEN 1 ELSE 0, ewait')
      /\ RunsOk(lcur', lidle', lact', ewait')
  BY <1>1, <1>2
<1>5. QED
  BY <1>3, <1>4 DEF LwtGood

LEMMA LwtStartOk ==
  ASSUME LwtGood, NEW w \in Waiters, LwtStart(w)
  PROVE  LwtGood'
<1>1. /\ lcur = MainLwt /\ lq' = Wake(lq, lact, w) /\ lact' = lact \cup {w}
      /\ UNCHANGED <<lcur, lidle, lvl, evset, ewait>>
  BY DEF LwtStart, Running
<1>2. /\ ActiveOk(lq, lact) /\ LevelOk(lvl, IF lidle THEN 1 ELSE 0, ewait)
      /\ RunsOk(lcur, lidle, lact, ewait) /\ NoLost(lact, ewait, evset)
  BY LwtFacts
<1>3. ActiveOk(Wake(lq, lact, w), lact \cup {w})
  BY <1>2, WakeList, LwtNames
<1>4. RunsOk(lcur, lidle, lact \cup {w}, ewait)
  BY <1>1, <1>2, LwtNames DEF RunsOk
<1>5. NoLost(lact \cup {w}, ewait, evset)
  BY <1>2 DEF NoLost
<1>6. QED
  BY <1>1, <1>2, <1>3, <1>4, <1>5 DEF LwtGood

LEMMA EvtAstOk ==
  ASSUME LwtGood, NEW a \in Asts, EvtAst(a)
  PROVE  LwtGood'
<1> DEFINE w2 == ewait \cup {a}
<1>1. /\ lcur = MainLwt /\ ~lidle /\ ewait' = w2 /\ UNCHANGED <<lcur, lidle, evset>>
      /\ IF a \in evset THEN lq' = Wake(lq, lact, a) /\ lact' = lact \cup {a} /\ lvl' = lvl + 1
         ELSE UNCHANGED <<lq, lact, lvl>>
  BY DEF EvtAst, Running
<1>2. /\ ActiveOk(lq, lact) /\ LevelOk(lvl, 0, ewait) /\ NoLost(lact, ewait, evset)
      /\ RunsOk(lcur, lidle, lact, ewait)
  BY LwtFacts
<1>3. w2 \cap Waiters = ewait \cap Waiters
  BY LwtNames
<1>4. Cardinality(ewait \cap Waiters) \in Nat
  BY <1>2, FS_CardinalityType DEF LevelOk
<1>5. w2 \subseteq Waiters \cup Asts /\ MainLwt \notin w2
  BY <1>2, LwtNames DEF RunsOk
<1> HIDE DEF w2
<1>6. LevelOk(lvl, 0, w2) /\ LevelOk(lvl + 1, 0, w2)
  <2> DEFINE c == Cardinality(ewait \cap Waiters)
  <2>1. /\ lvl \in Nat /\ IsFiniteSet(ewait \cap Waiters) /\ lvl >= c + 0 /\ c \in Nat
        /\ Cardinality(w2 \cap Waiters) = c /\ IsFiniteSet(w2 \cap Waiters)
    BY <1>2, <1>3, <1>4 DEF LevelOk
  <2> HIDE DEF c
  <2>2. lvl + 1 \in Nat /\ lvl + 1 >= c + 0
    BY <2>1
  <2>3. QED
    BY <2>1, <2>2 DEF LevelOk
<1>7. ActiveOk(lq', lact') /\ LevelOk(lvl', IF lidle' THEN 1 ELSE 0, ewait')
  <2>1. CASE a \in evset
    <3>1. ActiveOk(Wake(lq, lact, a), lact \cup {a})
      BY <1>2, WakeList, LwtNames
    <3>2. QED
      BY <1>1, <1>6, <2>1, <3>1
  <2>2. CASE a \notin evset
    BY <1>1, <1>2, <1>6, <2>2
  <2>3. QED
    BY <2>1, <2>2
<1>8. RunsOk(lcur', lidle', lact', ewait')
  <2>1. lact' \subseteq lact \cup {a} /\ MainLwt \notin lact /\ a # MainLwt
    BY <1>1, <1>2, LwtNames DEF RunsOk
  <2>2. lcur' = MainLwt /\ lidle' = FALSE /\ ewait' = w2 /\ MainLwt \notin lact'
    BY <1>1, <2>1
  <2>3. QED
    BY <1>5, <2>2, LwtNames DEF RunsOk
<1>9. NoLost(lact', ewait', evset')
  BY <1>1, <1>2, <1>3 DEF NoLost
<1>10. QED
  BY <1>7, <1>8, <1>9 DEF LwtGood

LEMMA MainSleepOk ==
  ASSUME LwtGood, MainSleep
  PROVE  LwtGood'
<1>1. lcur = MainLwt /\ ~lidle /\ Resume(lq, lact \ {lcur}, lvl, ewait) /\ evset' = evset
  BY DEF MainSleep, Running, SleepAt
<1>2. lact \ {lcur} = lact
  BY <1>1, LwtFacts, LwtNames DEF RunsOk
<1>3. Resume(lq, lact, lvl, ewait)
  BY <1>1, <1>2
<1>4. QED
  BY <1>1, <1>3, LwtFacts, ResumeOk

LEMMA EvtWaitOk ==
  ASSUME LwtGood, NEW w \in Waiters, EvtWait(w)
  PROVE  LwtGood'
<1>1. lcur = w /\ ~lidle /\ evset' = evset
  BY DEF EvtWait, Running
<1>2. CASE w \in evset
  <2>1. UNCHANGED <<lq, lact, lcur, lidle, lvl, ewait>>
    BY <1>2 DEF EvtWait
  <2>2. QED
    BY <1>1, <2>1, StillOk
<1>3. CASE w \notin evset
  <2> DEFINE w2 == ewait \cup {w}
             V == ewait \cap Waiters
  <2>1. Resume(lq, lact \ {lcur}, lvl + 1, w2)
    BY <1>3 DEF EvtWait, SleepAt
  <2>2. /\ ActiveOk(lq, lact) /\ LevelOk(lvl, 0, ewait) /\ NoLost(lact, ewait, evset)
        /\ RunsOk(lcur, lidle, lact, ewait) /\ lcur \in Lwts
    BY LwtFacts
  <2>3. w \notin lact /\ w \notin ewait /\ lact \ {lcur} = lact /\ w2 \subseteq Waiters \cup Asts
    BY <1>1, <2>2, LwtNames DEF RunsOk
  <2>4. w2 \cap Waiters = V \cup {w} /\ w \notin V
    BY <2>3
  <2>5. LevelOk(lvl + 1, 0, w2)
    <3>1. IsFiniteSet(V) /\ lvl \in Nat /\ lvl >= Cardinality(V) + 0 /\ Cardinality(V) \in Nat
      BY <2>2, FS_CardinalityType DEF LevelOk
    <3> HIDE DEF V, w2
    <3>2. IsFiniteSet(V \cup {w}) /\ Cardinality(V \cup {w}) = Cardinality(V) + 1
      BY <2>4, <3>1, FS_AddElement
    <3>3. QED
      BY <2>4, <3>1, <3>2 DEF LevelOk
  <2>6. NoLost(lact, w2, evset)
    BY <1>3, <2>2 DEF NoLost
  <2> HIDE DEF w2
  <2>7. Resume(lq, lact, lvl + 1, w2)
    BY <2>1, <2>3
  <2>8. QED
    BY <1>1, <2>2, <2>3, <2>5, <2>6, <2>7, ResumeOk
<1>4. QED
  BY <1>2, <1>3

(* An AST that was woken while it ran is the first of the queue, unless    *)
(* the queue slips, and starts again at once.                              *)
LEMMA LwtExitOk ==
  ASSUME LwtGood, NEW a \in Asts, LwtExit(a), ~lslip'
  PROVE  LwtGood'
<1>1. /\ lcur = a /\ evset' = evset /\ Resume(lq, lact \ {a}, lvl, ewait)
      /\ a \in lact => lq.nxt[LHead] = a
  BY DEF LwtExit, Running, SleepAt
<1>2. Resume(lq, lact, lvl, ewait)
  <2>1. CASE a \notin lact
    <3>1. lact \ {a} = lact
      BY <2>1
    <3>2. QED
      BY <1>1, <3>1
  <2>2. CASE a \in lact
    <3>1. lq.nxt[LHead] = a /\ a # LNull
      BY <1>1, <2>2, LwtNames
    <3>2. (lact \ {a}) \ {a} = lact \ {a}
      OBVIOUS
    <3>3. QED
      BY <1>1, <3>1, <3>2 DEF Resume
  <2>3. QED
    BY <2>1, <2>2
<1>3. QED
  BY <1>1, <1>2, LwtFacts, ResumeOk

(* lwt_yield and lwt_pause: an LWT that is not active is inserted.         *)
LEMMA LwtYieldOk ==
  ASSUME LwtGood, NEW w \in Lwts, LwtYield(w), ~lslip'
  PROVE  LwtGood'
<1>1. w \notin lact /\ evset' = evset /\ Resume(LwtInsert(lq, w), lact \cup {w}, lvl, ewait)
  BY DEF LwtYield
<1>2. ActiveOk(LwtInsert(lq, w), lact \cup {w})
  BY <1>1, LwtFacts, InsertList
<1>3. NoLost(lact \cup {w}, ewait, evset)
  BY LwtFacts DEF NoLost
<1>4. QED
  BY <1>1, <1>2, <1>3, LwtFacts, ResumeOk

LEMMA LwtRetryOk ==
  ASSUME LwtGood, LwtRetry
  PROVE  LwtGood'
<1>1. lidle /\ Resume(lq, lact, lvl - 1, ewait) /\ evset' = evset
  BY DEF LwtRetry
<1>2. LevelOk(lvl - 1, 0, ewait)
  <2>1. LevelOk(lvl, 1, ewait)
    BY <1>1, LwtFacts
  <2>2. Cardinality(ewait \cap Waiters) \in Nat
    BY <2>1, FS_CardinalityType DEF LevelOk
  <2>3. QED
    BY <2>1, <2>2 DEF LevelOk
<1>3. QED
  BY <1>1, <1>2, LwtFacts, ResumeOk

(* __evtset, from an interrupt or by the LWT that runs.                    *)
LEMMA EvtSetOk ==
  ASSUME LwtGood, NEW w \in Waiters \cup Asts, evset' = evset \cup {w},
         UNCHANGED <<lcur, lidle, lvl, ewait>>,
         lq' = IF w \in ewait THEN Wake(lq, lact, w) ELSE lq,
         lact' = IF w \in ewait THEN lact \cup {w} ELSE lact
  PROVE  LwtGood'
<1>1. /\ ActiveOk(lq, lact) /\ LevelOk(lvl, IF lidle THEN 1 ELSE 0, ewait)
      /\ RunsOk(lcur, lidle, lact, ewait) /\ NoLost(lact, ewait, evset)
  BY LwtFacts
<1>2. LevelOk(lvl', IF lidle' THEN 1 ELSE 0, ewait')
  BY <1>1
<1>3. CASE w \notin ewait
  <2>1. lq' = lq /\ lact' = lact
    BY <1>3
  <2>2. NoLost(lact', ewait', evset')
    BY <1>1, <1>3, <2>1 DEF NoLost
  <2>3. ActiveOk(lq', lact') /\ RunsOk(lcur', lidle', lact', ewait')
    BY <1>1, <2>1
  <2>4. QED
    BY <1>2, <2>2, <2>3 DEF LwtGood
<1>4. CASE w \in ewait
  <2> DEFINE a2 == lact \cup {w}
  <2>1. lq' = Wake(lq, lact, w) /\ lact' = a2
    BY <1>4
  <2>2. ActiveOk(Wake(lq, lact, w), a2)
    BY <1>1, WakeList, LwtNames
  <2>3. RunsOk(lcur, lidle, a2, ewait)
    BY <1>1, <1>4 DEF RunsOk
  <2>4. NoLost(a2, ewait, evset \cup {w})
    BY <1>1 DEF NoLost
  <2> HIDE DEF a2
  <2>5. ActiveOk(lq', lact') /\ RunsOk(lcur', lidle', lact', ewait') /\ NoLost(lact', ewait', evset')
    BY <2>1, <2>2, <2>3, <2>4
  <2>6. QED
    BY <1>2, <2>5 DEF LwtGood
<1>5. QED
  BY <1>3, <1>4

(* Every step keeps the queue, unless it slips, and what has slipped stays *)
(* so.                                                                     *)
LEMMA LwtStepInv ==
  ASSUME LwtInv, [LwtNext]_lwtVars
  PROVE  LwtInv'
<1> SUFFICES ASSUME ~lslip' PROVE LwtGood'
  BY DEF LwtInv
<1>1. CASE UNCHANGED lwtVars
  BY <1>1, StillOk DEF lwtVars, LwtInv
<1>2. CASE MainSleep \/ LwtRetry
  <2>1. LwtGood
    BY <1>2 DEF LwtInv, MainSleep, LwtRetry
  <2>2. QED
    BY <1>2, <2>1, MainSleepOk, LwtRetryOk
<1>3. ASSUME NEW w \in Waiters, LwtStart(w) \/ EvtWait(w) PROVE LwtGood'
  <2>1. LwtGood
    BY <1>3 DEF LwtInv, LwtStart, EvtWait
  <2>2. QED
    BY <1>3, <2>1, LwtStartOk, EvtWaitOk
<1>4. ASSUME NEW w \in Waiters \cup Asts,
             LwtAsk(w) \/ LwtServe(w) \/ EvtClear(w) \/ AstPoll(w) \/ DeviceRaises(w)
      PROVE  LwtGood'
  <2>1. UNCHANGED <<lq, lact, lcur, lidle, lvl, ewait, lslip>> /\ evset' \subseteq evset
    BY <1>4 DEF LwtAsk, LwtServe, EvtClear, AstPoll, DeviceRaises
  <2>2. QED
    BY <2>1, StillOk DEF LwtInv
<1>5. ASSUME NEW a \in Asts, EvtAst(a) \/ LwtExit(a) PROVE LwtGood'
  <2>1. LwtGood
    BY <1>5 DEF LwtInv, EvtAst, LwtExit
  <2>2. QED
    BY <1>5, <2>1, EvtAstOk, LwtExitOk
<1>6. ASSUME NEW w \in Waiters \cup Asts, EvtSet(w) \/ EvtSetBy(w) PROVE LwtGood'
  <2>1. /\ evset' = evset \cup {w} /\ UNCHANGED <<lcur, lidle, lvl, ewait, lslip>>
        /\ lq' = (IF w \in ewait THEN Wake(lq, lact, w) ELSE lq)
        /\ lact' = (IF w \in ewait THEN lact \cup {w} ELSE lact)
    BY <1>6 DEF EvtSet, EvtSetBy
  <2>2. QED
    BY <2>1, EvtSetOk DEF LwtInv
<1>7. ASSUME NEW w \in Yielders, LwtYield(w) PROVE LwtGood'
  <2>1. LwtGood /\ w \in Lwts
    BY <1>7, LwtAssumption DEF LwtInv, LwtYield
  <2>2. QED
    BY <1>7, <2>1, LwtYieldOk
<1>8. CASE LwtStep
  BY <1>2, <1>3, <1>4, <1>5, <1>6, <1>8 DEF LwtStep
<1>9. QED
  BY <1>1, <1>4, <1>6, <1>7, <1>8 DEF LwtNext

LEMMA LwtGoodSound == LwtGood => LwtQueueOk /\ NoLostEvent
<1> SUFFICES ASSUME LwtGood PROVE LwtQueueOk /\ NoLostEvent
  OBVIOUS
<1>1. PICK s : ListIs(lq, lact, s)
  BY LwtFacts DEF ActiveOk
<1>2. /\ s \in Seq(Lwts) /\ IsInjective(s) /\ ToSet(s) = lact
      /\ IsFiniteSet(lact) /\ Len(s) = Cardinality(lact) /\ QueueIs(lq, s)
  BY <1>1 DEF ListIs
<1>3. s \in SetToSeqs(lact)
  <2> DEFINE D == 1..Cardinality(lact)
  <2>1. DOMAIN s = D /\ s = [i \in DOMAIN s |-> s[i]]
    BY <1>2
  <2>2. \A i \in D : s[i] \in lact
    BY <1>2, <2>1, InToSet
  <2>3. s \in [D -> lact]
    BY <2>1, <2>2
  <2>4. \A i, j \in D : i # j => s[i] # s[j]
    BY <1>2, <2>1 DEF IsInjective
  <2>5. QED
    BY <2>3, <2>4 DEF SetToSeqs
<1>4. LwtQueueOk
  BY <1>2, <1>3 DEF LwtQueueOk
<1>5. NoLostEvent
  BY LwtFacts DEF NoLost, NoLostEvent
<1>6. QED
  BY <1>4, <1>5

(* The events.  Until an event is handed out that evtfree cannot free,     *)
(* every event in use is below it, in the first word.                      *)
EvtGood ==
  /\ ewaits \in [Events -> EvtUsers \cup {NoUser}] /\ eheld \in [EvtUsers -> Int]
  /\ eregs \subseteq EvtUsers /\ \A u \in eregs : eheld[u] # NoEvent
  /\ \A u \in EvtUsers : eheld[u] # NoEvent =>
       eheld[u] \in Events /\ eheld[u] < IntBits - 1 /\ HolderOk(u)
EvtInv == ~eover => EvtGood

LEMMA EvtNumbers ==
  ASSUME NEW e \in Events, e < IntBits - 1
  PROVE  /\ e \in Nat /\ e # NoEvent /\ e % EvtWord = e /\ e \div EvtWord = 0 /\ Freed(e) = {e}
<1>1. e \in Nat /\ IntBits \in Nat /\ EvtWord \in Nat /\ e < EvtWord /\ e < IntBits
  BY EvtAssumption DEF Events
<1>2. ASSUME NEW n \in Nat, e < n PROVE e % n = e /\ e \div n = 0
  BY <1>1, <1>2
<1>3. e % IntBits = e /\ e # IntBits - 1
  BY <1>1, <1>2
<1>4. Freed(e) = {e}
  BY <1>3 DEF Freed
<1>5. QED
  BY <1>1, <1>2, <1>4 DEF NoEvent

LEMMA EvtStepInv ==
  ASSUME EvtInv, [EvtNext]_evtVars
  PROVE  EvtInv'
<1> SUFFICES ASSUME ~eover' PROVE EvtGood'
  BY DEF EvtInv
<1>1. CASE UNCHANGED evtVars
  BY <1>1 DEF evtVars, EvtInv, EvtGood, HolderOk
<1>2. CASE EvtNext
  <2>0. PICK u \in EvtUsers : \/ EvtAlloc(u) \/ EvtFree(u) \/ EvtLeak(u) \/ EvtRegister(u)
                              \/ EvtUnregister(u) \/ EvtRaise(u) \/ EvtReset(u)
    BY <1>2 DEF EvtNext
  <2>1. EvtGood
    BY <2>0 DEF EvtInv, EvtAlloc, EvtFree, EvtLeak, EvtRegister, EvtUnregister, EvtRaise, EvtReset
  <2>2. /\ ewaits \in [Events -> EvtUsers \cup {NoUser}] /\ eheld \in [EvtUsers -> Int]
        /\ eregs \subseteq EvtUsers /\ \A v \in eregs : eheld[v] # NoEvent
    BY <2>1 DEF EvtGood
  <2>3. \A v \in EvtUsers : eheld[v] # NoEvent =>
          /\ eheld[v] \in Events /\ eheld[v] < IntBits - 1 /\ eheld[v] \in ealloc
          /\ \A x \in EvtUsers \ {v} : eheld[x] # eheld[v]
          /\ ewaits[eheld[v]] = IF v \in eregs THEN v ELSE NoUser
          /\ eheld[v] \in esets => v \in eraised
    BY <2>1 DEF EvtGood, HolderOk
  <2>4. CASE EvtAlloc(u)
    <3>1. PICK e \in Events :
            /\ e \notin ealloc /\ ealloc' = ealloc \cup {e} /\ esets' = esets \ {e}
            /\ ewaits' = [ewaits EXCEPT ![e % EvtWord] = NoUser] /\ eheld' = [eheld EXCEPT ![u] = e]
            /\ e < IntBits - 1
      <4>1. PICK e \in Events :
              /\ FirstFree(e) /\ ealloc' = ealloc \cup {e} /\ esets' = esets \ {e}
              /\ ewaits' = [ewaits EXCEPT ![e % EvtWord] = NoUser] /\ eheld' = [eheld EXCEPT ![u] = e]
              /\ eover' = (eover \/ e >= IntBits - 1)
        BY <2>4 DEF EvtAlloc
      <4>2. MaxEvt \in Int /\ IntBits \in Int
        BY EvtAssumption DEF MaxEvt
      <4>3. ~(e >= IntBits - 1)
        BY <4>1, Zenon
      <4>4. e < IntBits - 1
        BY <4>1, <4>2, <4>3 DEF Events
      <4>5. e \notin ealloc
        BY <4>1 DEF FirstFree
      <4>6. QED
        BY <4>1, <4>4, <4>5
    <3>2. eheld[u] = NoEvent /\ eregs' = eregs /\ eraised' = eraised /\ u \notin eregs
      BY <2>2, <2>4 DEF EvtAlloc
    <3>3. e % EvtWord = e /\ e # NoEvent /\ e \in Int
      BY <3>1, EvtNumbers
    <3>4. /\ ewaits' \in [Events -> EvtUsers \cup {NoUser}] /\ eheld' \in [EvtUsers -> Int]
          /\ eregs' \subseteq EvtUsers /\ \A v \in eregs' : eheld'[v] # NoEvent
      BY <2>2, <3>1, <3>2, <3>3
    <3>5. ASSUME NEW v \in EvtUsers, eheld'[v] # NoEvent
          PROVE  eheld'[v] \in Events /\ eheld'[v] < IntBits - 1 /\ HolderOk(v)'
      <4>1. CASE v = u
        BY <2>2, <2>3, <3>1, <3>2, <3>3, <4>1 DEF HolderOk
      <4>2. CASE v # u
        <5>1. eheld'[v] = eheld[v] /\ eheld[v] # e
          BY <2>2, <2>3, <3>1, <3>5, <4>2
        <5>2. QED
          BY <2>2, <2>3, <3>1, <3>2, <3>3, <3>5, <4>2, <5>1 DEF HolderOk
      <4>3. QED
        BY <4>1, <4>2
    <3>6. QED
      BY <3>4, <3>5 DEF EvtGood
  <2>5. CASE EvtFree(u) \/ EvtLeak(u)
    <3>1. /\ eheld[u] # NoEvent /\ eheld' = [eheld EXCEPT ![u] = NoEvent] /\ eregs' = eregs \ {u}
          /\ eraised' = eraised \ {u} /\ esets' = esets /\ ewaits' = ewaits /\ ealloc \ {eheld[u]} \subseteq ealloc'
      <4>1. CASE EvtFree(u)
        <5> DEFINE e == eheld[u]
        <5>1. e \in Nat /\ e % EvtWord = e /\ e \div EvtWord = 0 /\ Freed(e) = {e}
          BY <2>3, <4>1, EvtNumbers DEF EvtFree
        <5>2. ealloc' = ealloc \ {(e \div EvtWord) * EvtWord + b : b \in Freed(e % EvtWord)}
          BY <4>1 DEF EvtFree
        <5> HIDE DEF e
        <5>3. EvtWord \in Nat /\ 0 * EvtWord + e = e
          BY <5>1, EvtAssumption
        <5>4. ealloc' = ealloc \ {0 * EvtWord + b : b \in {e}}
          BY <5>1, <5>2
        <5>5. ealloc' = ealloc \ {e}
          BY <5>3, <5>4
        <5>6. QED
          BY <4>1, <5>5 DEF EvtFree, e
      <4>2. CASE EvtLeak(u)
        BY <4>2 DEF EvtLeak
      <4>3. QED
        BY <2>5, <4>1, <4>2
    <3>2. NoEvent \in Int
      BY DEF NoEvent
    <3>3. /\ ewaits' \in [Events -> EvtUsers \cup {NoUser}] /\ eheld' \in [EvtUsers -> Int]
          /\ eregs' \subseteq EvtUsers /\ \A v \in eregs' : eheld'[v] # NoEvent
      BY <2>2, <3>1, <3>2
    <3>4. ASSUME NEW v \in EvtUsers, eheld'[v] # NoEvent
          PROVE  eheld'[v] \in Events /\ eheld'[v] < IntBits - 1 /\ HolderOk(v)'
      <4>1. v # u /\ eheld'[v] = eheld[v] /\ eheld[v] # eheld[u]
        BY <2>2, <2>3, <3>1, <3>4
      <4>2. QED
        BY <2>2, <2>3, <3>1, <3>4, <4>1 DEF HolderOk
    <3>5. QED
      BY <3>3, <3>4 DEF EvtGood
  <2>6. CASE EvtRegister(u) \/ EvtUnregister(u)
    <3>1. /\ eheld[u] # NoEvent /\ eheld' = eheld /\ ealloc' = ealloc /\ esets' = esets /\ eraised' = eraised
          /\ eregs' \subseteq eregs \cup {u} /\ \A v \in EvtUsers \ {u} : v \in eregs' <=> v \in eregs
          /\ ewaits' = [ewaits EXCEPT ![eheld[u]] = IF u \in eregs' THEN u ELSE NoUser]
      <4>1. CASE EvtRegister(u)
        BY <4>1 DEF EvtRegister
      <4>2. CASE EvtUnregister(u)
        BY <2>2, <4>2 DEF EvtUnregister
      <4>3. QED
        BY <2>6, <4>1, <4>2
    <3>2. /\ ewaits' \in [Events -> EvtUsers \cup {NoUser}] /\ eheld' \in [EvtUsers -> Int]
          /\ eregs' \subseteq EvtUsers /\ \A v \in eregs' : eheld'[v] # NoEvent
      BY <2>2, <3>1
    <3>3. ASSUME NEW v \in EvtUsers, eheld'[v] # NoEvent
          PROVE  eheld'[v] \in Events /\ eheld'[v] < IntBits - 1 /\ HolderOk(v)'
      <4>1. ewaits'[eheld[v]] = IF v \in eregs' THEN v ELSE NoUser
        <5>1. CASE v = u
          BY <2>2, <2>3, <3>1, <5>1
        <5>2. CASE v # u
          BY <2>2, <2>3, <3>1, <3>3, <5>2
        <5>3. QED
          BY <5>1, <5>2
      <4>2. QED
        BY <2>3, <3>1, <3>3, <4>1 DEF HolderOk
    <3>4. QED
      BY <3>2, <3>3 DEF EvtGood
  <2>7. CASE EvtRaise(u) \/ EvtReset(u)
    <3>1. /\ eheld[u] # NoEvent /\ eheld' = eheld /\ ealloc' = ealloc /\ ewaits' = ewaits /\ eregs' = eregs
          /\ eraised \subseteq eraised' /\ esets' \subseteq esets \cup {eheld[u]}
          /\ eheld[u] \in esets' => u \in eraised'
      BY <2>7 DEF EvtRaise, EvtReset
    <3>2. ASSUME NEW v \in EvtUsers, eheld[v] # NoEvent PROVE eheld[v] \in esets' => v \in eraised'
      BY <2>3, <3>1, <3>2
    <3>3. QED
      BY <2>2, <2>3, <3>1, <3>2 DEF EvtGood, HolderOk
  <2>8. QED
    BY <2>0, <2>4, <2>5, <2>6, <2>7
<1>3. QED
  BY <1>1, <1>2

(* The LWTs and events of a process (lwt.c, evt.c), for any number of ASTs *)
(* and of LWTs that wait, yield or set events of others, whatever the      *)
(* points at which interrupts set the events.  Until an LWT that was woken *)
(* while it ran yields, or exits with others queued before it (~lslip):    *)
(* LWTF_ACTIVE marks the LWTs of __lwtq_active, each is there once and the *)
(* list is intact, and no LWT sleeps in evtwait on an event that is set.   *)
(* Until a process has 32 events at a time (~eover): each holder has an    *)
(* event of its own, with its own registration, that is set only for it.   *)
THEOREM LwtSoundCorrect == LwtSpec /\ EvtSpec => []LwtSound
<1>1. LwtInit /\ EvtInit => LwtInv /\ EvtInv
  <2>1. EvtInit => EvtInv
    BY DEF EvtInit, EvtInv, EvtGood, NoEvent
  <2>2. QED
    BY <2>1, LwtInitInv
<1>2. LwtInv /\ [LwtNext]_lwtVars => LwtInv'
  BY LwtStepInv
<1>3. EvtInv /\ [EvtNext]_evtVars => EvtInv'
  BY EvtStepInv
<1>4. LwtInv /\ EvtInv => LwtSound
  BY LwtGoodSound DEF LwtInv, EvtInv, LwtSound, EvtSound, EvtGood
<1>5. QED
  BY <1>1, <1>2, <1>3, <1>4, PTL DEF LwtSpec, EvtSpec

-----------------------------------------------------------------------------
(* The terminal library.  Loops: a set that has 0 and the successor of     *)
(* each of its members up to n.                                            *)

LEMMA NaturalsUpTo ==
  ASSUME NEW n \in Nat, NEW T, 0 \in T, \A i \in 1..n : i - 1 \in T => i \in T
  PROVE  \A i \in 0..n : i \in T
<1>1. ASSUME NEW k \in 0..n, k \in T, k < n PROVE k + 1 \in T
  <2>1. k + 1 \in 1..n /\ (k + 1) - 1 = k
    BY <1>1
  <2> QED BY <1>1, <2>1
<1> QED BY <1>1, UpTo

(* An invariant I of a loop, as a set of pairs of a count and a state.     *)
LEMMA LoopInvariant ==
  ASSUME NEW n \in Nat, NEW a, NEW I, <<0, a[0]>> \in I,
         \A i \in 1..n : <<i - 1, a[i - 1]>> \in I => <<i, a[i]>> \in I
  PROVE  <<n, a[n]>> \in I
<1> DEFINE T == {i \in 0..n : <<i, a[i]>> \in I}
<1>1. 0 \in T
  OBVIOUS
<1>2. \A i \in 1..n : i - 1 \in T => i \in T
  OBVIOUS
<1>3. \A i \in 0..n : i \in T
  <2> HIDE DEF T
  <2> QED BY <1>1, <1>2, NaturalsUpTo
<1> QED BY <1>3

(* A set that a loop does not leave.                                       *)
LEMMA LoopStays ==
  ASSUME NEW n \in Nat, NEW a, NEW X, a[0] \in X, \A i \in 1..n : a[i - 1] \in X => a[i] \in X
  PROVE  \A i \in 0..n : a[i] \in X
<1> DEFINE T == {i \in 0..n : a[i] \in X}
<1>1. 0 \in T /\ \A i \in 1..n : i - 1 \in T => i \in T
  OBVIOUS
<1>2. \A i \in 0..n : i \in T
  <2> HIDE DEF T
  <2> QED BY <1>1, NaturalsUpTo
<1> QED BY <1>2

(* The states that a loop passes exist, for a step that stays in X.        *)
States(X, x, G, k, a) == /\ a \in [0..k -> X] /\ a[0] = x
                         /\ \A i \in 1..k : a[i] = G[<<i, a[i - 1]>>]
LEMMA LoopExists ==
  ASSUME NEW X, NEW x \in X, NEW n \in Nat, NEW G, G \in [(1..n) \X X -> X]
  PROVE  \E a : States(X, x, G, n, a)
<1> DEFINE Upto(k, a) == /\ a \in [0..k -> X] /\ a[0] = x
                         /\ \A i \in 1..k : a[i] = G[<<i, a[i - 1]>>]
           T == {k \in 0..n : \E a : Upto(k, a)}
<1>1. 0 \in T
  <2>1. Upto(0, [i \in 0..0 |-> x])
    OBVIOUS
  <2>2. \E a : Upto(0, a)
    BY <2>1, Zenon
  <2> QED BY <2>2
<1>2. ASSUME NEW k \in 1..n, k - 1 \in T PROVE k \in T
  <2>1. PICK a : Upto(k - 1, a)
    BY <1>2
  <2> DEFINE v == G[<<k, a[k - 1]>>]
             b == [i \in 0..k |-> IF i = k THEN v ELSE a[i]]
  <2>2. a[k - 1] \in X /\ v \in X
    BY <2>1
  <2> HIDE DEF v
  <2>3. b \in [0..k -> X] /\ b[0] = x
    BY <2>1, <2>2
  <2>4. ASSUME NEW i \in 1..k PROVE b[i] = G[<<i, b[i - 1]>>]
    <3>1. b[i - 1] = a[i - 1]
      OBVIOUS
    <3>2. CASE i = k
      BY <3>1, <3>2 DEF v
    <3>3. CASE i # k
      <4>1. i \in 1..(k - 1) /\ b[i] = a[i]
        BY <3>3
      <4> HIDE DEF b
      <4> QED BY <3>1, <4>1, <2>1
    <3> QED BY <3>2, <3>3
  <2>5. Upto(k, b)
    <3> HIDE DEF b
    <3> QED BY <2>3, <2>4
  <2>6. \E d : Upto(k, d)
    BY <2>5, Zenon
  <2> QED BY <2>6
<1>3. n \in T
  <2> HIDE DEF T
  <2> QED BY <1>1, <1>2, NaturalsUpTo
<1>4. PICK a : Upto(n, a)
  BY <1>3
<1> QED BY <1>4 DEF States

-----------------------------------------------------------------------------
(* Windows: the display and the image of the library.                      *)

XS == 0 .. COLS - 1
YS == 0 .. LINES - 1
Chars == Printable \cup {" ", "E", Title, ">"}
Shown == Chars \cup {"?", "1"}

Ttys == [g : [Cells -> Chars], cx : Nat, cy : YS, last : XS \X YS \X Chars,
         m : [Cells -> Shown], dx : XS, dy : YS, on : BOOLEAN,
         saved : {<<>>} \cup (XS \X YS)]
Wins == [y1 : YS, y2 : YS, sy1 : YS, sy2 : YS, curx : 0 .. COLS, cury : 0 .. LINES,
         wrap : BOOLEAN, direct : BOOLEAN, doscroll : BOOLEAN]

(* A region may begin below its end (vtty_winsline below the region).      *)
RegionOk(w) == /\ w \in Wins /\ w.y1 <= w.sy1 /\ w.sy1 <= w.y2
               /\ w.y1 <= w.sy2 /\ w.sy2 <= w.y2
WinOk(w) == RegionOk(w) /\ w.y1 + w.cury <= w.y2

(* The library is right about the cursor, unless it believes it to be      *)
(* right of the last column.                                               *)
Sync(s) == s.on /\ s.cx < COLS => s.dx = s.cx /\ s.dy = s.cy

(* If the next character at x, y is sent without a movement, the cursor of *)
(* the display is there.                                                   *)
Ready(s, x, y) ==
  s.on /\ x < COLS /\ s.last[1] + 1 = x /\ s.last[2] = y /\ s.last[3] = High
    => s.dx = x /\ s.dy = y

(* The display shows the image.                                            *)
Same(s) == Sync(s) /\ (s.on => s.m = s.g)

(* The title is in the rows above the window and nowhere else.             *)
Titled(s, y1) == \A p \in Cells : p[2] < y1 <=> s.g[p] = Title

(* The library, its window and the display behind it.                      *)
WindowInv ==
  /\ tty \in Ttys /\ (~tty.on => tty.saved \in XS \X YS)
  /\ WinOk(win) /\ win.direct /\ win.doscroll
  /\ Titled(tty, win.y1)
  /\ redraw \in BOOLEAN /\ torn \in BOOLEAN /\ ncall \in Nat
  /\ ~redraw /\ ~torn => Same(tty) /\ Ready(tty, win.curx, win.y1 + win.cury)

-----------------------------------------------------------------------------
(* The display and the cursor.                                             *)

LEMMA SizesOk == COLS \in Nat /\ LINES \in Nat /\ COLS > 1 /\ LINES > 3 /\ TabSize \in Nat /\ TabSize > 0
  BY WindowAssumption

(* The fields of a display, and a display from its fields.                 *)
LEMMA TtyFields ==
  ASSUME NEW s \in Ttys
  PROVE  /\ s.g \in [Cells -> Chars] /\ s.cx \in Nat /\ s.cy \in YS
         /\ s.last \in XS \X YS \X Chars /\ s.m \in [Cells -> Shown]
         /\ s.dx \in XS /\ s.dy \in YS /\ s.on \in BOOLEAN
         /\ s.saved \in {<<>>} \cup (XS \X YS)
  BY DEF Ttys

LEMMA CharFacts == /\ " " \in Chars /\ "E" \in Chars /\ ">" \in Chars /\ "a" \in Chars /\ High \in Chars
                   /\ Title \in Chars /\ Chars \subseteq Shown /\ "1" \in Shown /\ "?" \in Shown
                   /\ " " # Title /\ "E" # Title /\ ">" # Title /\ "a" # Title /\ High # Title
  BY DEF Chars, Shown, Printable, High, Title

(* _gotoxy moves the cursor and changes nothing else.                      *)
LEMMA Gotoxy ==
  ASSUME NEW s \in Ttys, NEW x \in Nat, NEW y \in YS
  PROVE  LET t == gotoxy(s, x, y) IN
         /\ t \in Ttys /\ t.g = s.g /\ t.m = s.m /\ t.last = s.last
         /\ t.on = s.on /\ t.saved = s.saved
         /\ x < COLS => t.cx = x /\ t.cy = y
         /\ x >= COLS => t = s
         /\ x < COLS /\ (x # s.cx \/ y # s.cy) => (s.on => t.dx = x /\ t.dy = y)
         /\ x = s.cx /\ y = s.cy => t = s
<1> DEFINE u == [[s EXCEPT !.dx = x, !.dy = y] EXCEPT !.cx = x, !.cy = y]
           v == [s EXCEPT !.cx = x, !.cy = y]
           t == gotoxy(s, x, y)
<1> USE SizesOk
<1>1. CASE x >= COLS \/ (x = s.cx /\ y = s.cy)
  <2>1. t = s
    BY <1>1 DEF gotoxy
  <2> QED BY <1>1, <2>1, TtyFields DEF YS
<1>2. CASE x < COLS /\ ~(x = s.cx /\ y = s.cy)
  <2>0. ~(x >= COLS \/ y >= LINES \/ (x = s.cx /\ y = s.cy))
    BY <1>2 DEF YS
  <2>1. CASE s.on
    <3>1. t = u
      BY <2>0, <2>1 DEF gotoxy, vga_goto
    <3>2. u \in Ttys /\ u.g = s.g /\ u.m = s.m /\ u.last = s.last /\ u.on = s.on /\ u.saved = s.saved
          /\ u.cx = x /\ u.cy = y /\ u.dx = x /\ u.dy = y
      <4> DEFINE k == [s EXCEPT !.dx = x, !.dy = y]
      <4>1. k \in Ttys /\ k.g = s.g /\ k.m = s.m /\ k.last = s.last /\ k.on = s.on
            /\ k.saved = s.saved /\ k.dx = x /\ k.dy = y
        <5>1. x \in XS
          BY <1>2 DEF XS
        <5> QED BY <5>1 DEF Ttys
      <4>2. u = [k EXCEPT !.cx = x, !.cy = y]
        OBVIOUS
      <4> HIDE DEF k
      <4>3. [k EXCEPT !.cx = x, !.cy = y] \in Ttys
        BY <4>1 DEF Ttys
      <4>4. k = [g |-> k.g, cx |-> k.cx, cy |-> k.cy, last |-> k.last, m |-> k.m, dx |-> k.dx,
                 dy |-> k.dy, on |-> k.on, saved |-> k.saved]
        BY <4>1 DEF Ttys
      <4> QED BY <4>1, <4>2, <4>3, <4>4
    <3> QED BY <3>1, <3>2, <1>2
  <2>2. CASE ~s.on
    <3>1. t = v
      BY <2>0, <2>2 DEF gotoxy, vga_goto
    <3>2. v \in Ttys /\ v.g = s.g /\ v.m = s.m /\ v.last = s.last /\ v.on = s.on /\ v.saved = s.saved
          /\ v.cx = x /\ v.cy = y
      BY <1>2 DEF Ttys, XS, YS
    <3> QED BY <3>1, <3>2, <1>2, <2>2
  <2> QED BY <2>1, <2>2
<1> QED BY <1>1, <1>2

(* ... and the display goes there, if the library was right about it.      *)
LEMMA GotoxySync ==
  ASSUME NEW s \in Ttys, NEW x \in Nat, NEW y \in YS, Sync(s)
  PROVE  LET t == gotoxy(s, x, y) IN
         /\ Sync(t)
         /\ x < COLS => Ready(t, x, y) /\ (t.on => t.dx = x /\ t.dy = y)
<1> DEFINE t == gotoxy(s, x, y)
<1> USE SizesOk
<1>1. /\ t \in Ttys /\ t.on = s.on /\ (x < COLS => t.cx = x /\ t.cy = y) /\ (x >= COLS => t = s)
      /\ x < COLS /\ (x # s.cx \/ y # s.cy) => (s.on => t.dx = x /\ t.dy = y)
      /\ x = s.cx /\ y = s.cy => t = s
  BY Gotoxy
<1> HIDE DEF t
<1>2. CASE x >= COLS
  <2>1. Sync(t)
    BY <1>1, <1>2
  <2> QED BY <1>2, <2>1 DEF t
<1>3. CASE x < COLS
  <2>1. t.on => t.dx = x /\ t.dy = y
    BY <1>1, <1>3 DEF Sync
  <2>2. Sync(t) /\ Ready(t, x, y)
    BY <1>1, <1>3, <2>1 DEF Sync, Ready
  <2> QED BY <2>1, <2>2 DEF t
<1> QED BY <1>2, <1>3

(* A character on the display.                                             *)
LEMMA Putc ==
  ASSUME NEW s \in Ttys, NEW c \in Shown
  PROVE  LET t == vga_putc(s, c) IN
         /\ t \in Ttys /\ t.g = s.g /\ t.cx = s.cx /\ t.cy = s.cy /\ t.last = s.last
         /\ t.on = s.on /\ t.saved = s.saved
         /\ s.on => /\ t.m = [s.m EXCEPT ![<<s.dx, s.dy>>] = c]
                    /\ t.dx = IF s.dx + 1 < COLS THEN s.dx + 1 ELSE 0
                    /\ s.dx + 1 < COLS => t.dy = s.dy
         /\ ~s.on => t = s
<1> DEFINE nm == [s.m EXCEPT ![<<s.dx, s.dy>>] = c]
           nx == IF s.dx + 1 < COLS THEN s.dx + 1 ELSE 0
           ny == IF s.dx + 1 < COLS \/ s.dy >= LINES - 1 THEN s.dy ELSE s.dy + 1
           t == [s EXCEPT !.m = nm, !.dx = nx, !.dy = ny]
<1>1. CASE ~s.on
  <2>1. vga_putc(s, c) = s
    BY <1>1 DEF vga_putc
  <2> QED BY <1>1, <2>1
<1>2. CASE s.on
  <2>1. vga_putc(s, c) = t
    BY <1>2 DEF vga_putc, Ttys
  <2>2. nx \in XS /\ ny \in YS /\ nm \in [Cells -> Shown]
    <3>1. s.dx \in XS /\ s.dy \in YS /\ s.m \in [Cells -> Shown]
      BY TtyFields
    <3>2. nx \in XS
      BY <3>1, SizesOk DEF XS
    <3>3. ny \in YS
      BY <3>1, SizesOk DEF YS
    <3>4. nm \in [Cells -> Shown]
      BY <3>1
    <3> QED BY <3>2, <3>3, <3>4
  <2>3. s.dx + 1 < COLS => ny = s.dy
    OBVIOUS
  <2> HIDE DEF nm, nx, ny
  <2>4. /\ t \in Ttys /\ t.g = s.g /\ t.cx = s.cx /\ t.cy = s.cy /\ t.last = s.last
        /\ t.on = s.on /\ t.saved = s.saved /\ t.m = nm /\ t.dx = nx /\ t.dy = ny
    BY <2>2 DEF Ttys
  <2> HIDE DEF t
  <2> QED BY <1>2, <2>1, <2>3, <2>4 DEF nm, nx
<1> QED BY <1>1, <1>2

(* _write to the screen, before the image is changed.                      *)
Sent(s, c, x, y) ==
  [vga_putc(IF s.last[1] + 1 = x /\ s.last[2] = y /\ s.last[3] = High THEN s ELSE gotoxy(s, x, y), c)
     EXCEPT !.last = <<x, y, c>>, !.cx = @ + 1]

LEMMA SentOk ==
  ASSUME NEW s \in Ttys, NEW c \in Chars, NEW x \in XS, NEW y \in YS
  PROVE  LET t == Sent(s, c, x, y) IN
         /\ t \in Ttys /\ t.on = s.on /\ t.saved = s.saved /\ t.g = s.g /\ t.last = <<x, y, c>>
         /\ ~s.on => t.m = s.m
         /\ s.on /\ Sync(s) /\ Ready(s, x, y) =>
              /\ t.m = [s.m EXCEPT ![<<x, y>>] = c]
              /\ Sync(t)
              /\ x + 1 < COLS => t.dx = x + 1 /\ t.dy = y
<1> USE SizesOk
<1> DEFINE near == s.last[1] + 1 = x /\ s.last[2] = y /\ s.last[3] = High
           a == IF near THEN s ELSE gotoxy(s, x, y)
           b == vga_putc(a, c)
           t == Sent(s, c, x, y)
<1>1. x \in Nat /\ x < COLS
  BY DEF XS
<1>2. /\ a \in Ttys /\ a.g = s.g /\ a.m = s.m /\ a.on = s.on /\ a.saved = s.saved
      /\ s.on /\ Sync(s) /\ Ready(s, x, y) => a.dx = x /\ a.dy = y /\ Sync(a)
  <2>1. CASE near
    BY <2>1, <1>1 DEF Ready
  <2>2. CASE ~near
    BY <2>2, <1>1, Gotoxy, GotoxySync
  <2> QED BY <2>1, <2>2
<1>3. t = [b EXCEPT !.last = <<x, y, c>>, !.cx = @ + 1]
  BY DEF Sent
<1> HIDE DEF near, a, t
<1>4. c \in Shown
  BY CharFacts
<1>5. /\ b \in Ttys /\ b.g = a.g /\ b.cx = a.cx /\ b.cy = a.cy /\ b.last = a.last
      /\ b.on = a.on /\ b.saved = a.saved
      /\ a.on => /\ b.m = [a.m EXCEPT ![<<a.dx, a.dy>>] = c]
                 /\ b.dx = IF a.dx + 1 < COLS THEN a.dx + 1 ELSE 0
                 /\ a.dx + 1 < COLS => b.dy = a.dy
      /\ ~a.on => b = a
  BY <1>2, <1>4, Putc
<1> HIDE DEF b
<1>6. /\ t \in Ttys /\ t.on = b.on /\ t.saved = b.saved /\ t.g = b.g /\ t.last = <<x, y, c>>
      /\ t.m = b.m /\ t.dx = b.dx /\ t.dy = b.dy /\ t.cx = b.cx + 1 /\ t.cy = b.cy
  <2>1. <<x, y, c>> \in XS \X YS \X Chars /\ b.cx + 1 \in Nat
    BY <1>5, TtyFields
  <2>2. t = [b EXCEPT !.last = <<x, y, c>>, !.cx = b.cx + 1]
    BY <1>3, <1>5 DEF Ttys
  <2> QED BY <2>1, <2>2, <1>5 DEF Ttys
<1>7. ~s.on => t.m = s.m
  BY <1>2, <1>5, <1>6
<1>8. ASSUME s.on, Sync(s), Ready(s, x, y)
      PROVE  /\ t.m = [s.m EXCEPT ![<<x, y>>] = c] /\ Sync(t)
             /\ x + 1 < COLS => t.dx = x + 1 /\ t.dy = y
  <2>1. a.dx = x /\ a.dy = y /\ Sync(a) /\ a.on
    BY <1>2, <1>8
  <2>2. /\ t.m = [s.m EXCEPT ![<<x, y>>] = c]
        /\ x + 1 < COLS => t.dx = x + 1 /\ t.dy = y
    BY <2>1, <1>2, <1>5, <1>6
  <2>3. Sync(t)
    <3>1. SUFFICES ASSUME t.cx < COLS PROVE t.dx = t.cx /\ t.dy = t.cy
      BY DEF Sync
    <3>2. a.cx + 1 < COLS /\ a.cx \in Nat
      BY <3>1, <1>2, <1>5, <1>6, TtyFields
    <3>3. a.cx = x /\ a.cy = y
      BY <3>2, <2>1 DEF Sync
    <3> QED BY <3>2, <3>3, <2>2, <1>5, <1>6
  <2> QED BY <2>2, <2>3
<1>9. t.on = s.on /\ t.saved = s.saved /\ t.g = s.g
  BY <1>2, <1>5, <1>6
<1> QED BY <1>6, <1>7, <1>8, <1>9 DEF t

(* _write: the image, the display, and a display that is ready for any     *)
(* next character.                                                         *)
WriteOk(s, t, c, doit, x, y) ==
  /\ t \in Ttys /\ t.on = s.on /\ t.saved = s.saved
  /\ t.g = IF doit >= 0 THEN [s.g EXCEPT ![<<x, y>>] = c] ELSE s.g
  /\ doit = 0 => t.cx = s.cx /\ t.cy = s.cy /\ t.m = s.m /\ t.last = s.last
                 /\ t.dx = s.dx /\ t.dy = s.dy
  /\ doit # 0 => t.last = <<x, y, c>>
  /\ doit # 0 /\ Sync(s) /\ Ready(s, x, y) =>
       /\ s.on => t.m = [s.m EXCEPT ![<<x, y>>] = c]
       /\ Sync(t)
       /\ \A x2, y2 : Ready(t, x2, y2)

LEMMA Write ==
  ASSUME NEW s \in Ttys, NEW c \in Chars, NEW x \in XS, NEW y \in YS, NEW doit \in {-1, 0, 1}
  PROVE  WriteOk(s, write(s, c, doit, x, y), c, doit, x, y)
<1> USE SizesOk
<1> DEFINE a == IF doit = 0 THEN s ELSE Sent(s, c, x, y)
           ng == [a.g EXCEPT ![<<x, y>>] = c]
           t == write(s, c, doit, x, y)
<1>1. ~(x >= COLS \/ y >= LINES)
  BY DEF XS, YS
<1>2. t = IF doit >= 0 THEN [a EXCEPT !.g = ng] ELSE a
  <2>1. t = IF doit >= 0 THEN [a EXCEPT !.g[<<x, y>>] = c] ELSE a
    BY <1>1, Zenon DEF write, Sent
  <2>2. a \in Ttys
    BY SentOk
  <2> HIDE DEF a
  <2> QED BY <2>1, <2>2 DEF Ttys
<1>3. /\ a \in Ttys /\ a.on = s.on /\ a.saved = s.saved /\ a.g = s.g
      /\ doit = 0 => a = s
      /\ doit # 0 => a.last = <<x, y, c>>
      /\ doit # 0 /\ Sync(s) /\ Ready(s, x, y) =>
              /\ s.on => a.m = [s.m EXCEPT ![<<x, y>>] = c]
              /\ Sync(a)
              /\ s.on /\ x + 1 < COLS => a.dx = x + 1 /\ a.dy = y
  <2>1. CASE doit = 0
    BY <2>1
  <2>2. CASE doit # 0
    <3>1. a = Sent(s, c, x, y)
      BY <2>2
    <3> HIDE DEF a
    <3>2. ~a.on => Sync(a)
      BY DEF Sync
    <3>3. s.on \in BOOLEAN
      BY TtyFields
    <3> QED BY <2>2, <3>1, <3>2, <3>3, SentOk
  <2> QED BY <2>1, <2>2
<1> HIDE DEF a
<1>4. /\ t \in Ttys /\ t.on = a.on /\ t.saved = a.saved /\ t.cx = a.cx /\ t.cy = a.cy
      /\ t.m = a.m /\ t.last = a.last /\ t.dx = a.dx /\ t.dy = a.dy
      /\ t.g = IF doit >= 0 THEN ng ELSE a.g
  <2>1. ng \in [Cells -> Chars]
    BY <1>3, TtyFields
  <2> HIDE DEF ng, t
  <2>2. CASE doit >= 0
    BY <1>2, <1>3, <2>1, <2>2 DEF Ttys
  <2>3. CASE ~(doit >= 0)
    BY <1>2, <1>3, <2>3
  <2> QED BY <2>2, <2>3
<1> HIDE DEF t
<1>5. Sync(a) => Sync(t)
  BY <1>4 DEF Sync
<1>6. ASSUME doit # 0, Sync(s), Ready(s, x, y), NEW x2, NEW y2 PROVE Ready(t, x2, y2)
  <2>1. SUFFICES ASSUME t.on, x2 < COLS, t.last[1] + 1 = x2, t.last[2] = y2, t.last[3] = High
                 PROVE  t.dx = x2 /\ t.dy = y2
    BY DEF Ready
  <2>2. x2 = x + 1 /\ y2 = y
    BY <2>1, <1>3, <1>4, <1>6
  <2> QED BY <2>1, <2>2, <1>3, <1>4, <1>6
<1>7. t.g = IF doit >= 0 THEN [s.g EXCEPT ![<<x, y>>] = c] ELSE s.g
  BY <1>3, <1>4
<1>8. t.on = s.on /\ t.saved = s.saved /\ t \in Ttys
  BY <1>3, <1>4
<1>9. doit = 0 => t.cx = s.cx /\ t.cy = s.cy /\ t.m = s.m /\ t.last = s.last
                        /\ t.dx = s.dx /\ t.dy = s.dy
  BY <1>3, <1>4
<1>10. doit # 0 => t.last = <<x, y, c>>
  BY <1>3, <1>4
<1>11. doit # 0 /\ Sync(s) /\ Ready(s, x, y) =>
              /\ s.on => t.m = [s.m EXCEPT ![<<x, y>>] = c]
              /\ Sync(t)
              /\ \A x2, y2 : Ready(t, x2, y2)
  BY <1>3, <1>4, <1>5, <1>6
<1> QED BY <1>7, <1>8, <1>9, <1>10, <1>11 DEF t, WriteOk

-----------------------------------------------------------------------------
(* The loops over _write.                                                  *)

Kept(s, t) == t \in Ttys /\ t.on = s.on /\ t.saved = s.saved
Unsent(s, t) == /\ t.cx = s.cx /\ t.cy = s.cy /\ t.m = s.m /\ t.last = s.last
                /\ t.dx = s.dx /\ t.dy = s.dy

(* The states of the loop over a row.                                      *)
RowStates(s, x1, x2, y, val, doit, a) ==
  /\ a \in [0..Count(x1, x2) -> Ttys] /\ a[0] = s
  /\ \A i \in 1..Count(x1, x2) :
       a[i] = write(a[i - 1], val[<<x1 + i - 1, y>>], doit, x1 + i - 1, y)
  /\ PaintRow(s, x1, x2, y, val, doit) = a[Count(x1, x2)]

LEMMA PaintRowLoop ==
  ASSUME NEW s \in Ttys, NEW x1 \in 0..COLS, NEW x2 \in -1 .. COLS - 1, NEW y \in YS,
         NEW val \in [Cells -> Chars], NEW doit \in {-1, 0, 1}
  PROVE  \E a : RowStates(s, x1, x2, y, val, doit, a)
<1> DEFINE n == Count(x1, x2)
           Step(t, i) == write(t, val[<<x1 + i - 1, y>>], doit, x1 + i - 1, y)
           Eq(a) == a = [i \in 0..n |-> IF i = 0 THEN s ELSE Step(a[i - 1], i)]
           a == CHOOSE a : Eq(a)
           G == [z \in (1..n) \X Ttys |-> Step(z[2], z[1])]
<1>0. n \in Nat
  BY SizesOk DEF Count
<1>1. \A i \in 1..n, t \in Ttys : Step(t, i) \in Ttys
  <2>1. ASSUME NEW i \in 1..n, NEW t \in Ttys PROVE Step(t, i) \in Ttys
    <3>1. x1 + i - 1 \in XS
      BY SizesOk DEF Count, XS
    <3>2. val[<<x1 + i - 1, y>>] \in Chars
      BY <3>1 DEF Cells, XS, YS
    <3> QED BY <3>1, <3>2, Write DEF WriteOk
  <2> QED BY <2>1
<1>2. PaintRow(s, x1, x2, y, val, doit) = a[n]
  BY Zenon DEF PaintRow, Loop
<1> HIDE DEF n, Step
<1>3. \A i \in 1..n, t \in Ttys : G[<<i, t>>] = Step(t, i)
  OBVIOUS
<1>4. PICK b : States(Ttys, s, G, n, b)
  <2> HIDE DEF G
  <2>1. \A i \in 1..n, t \in Ttys : G[<<i, t>>] \in Ttys
    BY <1>1, <1>3
  <2>2. G \in [(1..n) \X Ttys -> Ttys]
    BY <1>1 DEF G
  <2> QED BY <2>2, <1>0, LoopExists
<1>5. Eq(b)
  <2> HIDE DEF G
  <2>1. \A i \in 0..n : b[i] = (IF i = 0 THEN s ELSE Step(b[i - 1], i))
    <3>1. TAKE i \in 0..n
    <3>2. CASE i = 0
      BY <1>4, <3>2 DEF States
    <3>3. CASE i # 0
      <4>1. i \in 1..n /\ i - 1 \in 0..n
        BY <1>0, <3>3
      <4>2. b[i] = G[<<i, b[i - 1]>>] /\ b[i - 1] \in Ttys
        BY <1>4, <4>1 DEF States
      <4> QED BY <1>3, <3>3, <4>1, <4>2
    <3> QED BY <3>2, <3>3
  <2> QED BY <1>4, <2>1 DEF States
<1>6. Eq(a)
  <2> HIDE DEF Eq
  <2> QED BY <1>5, Zenon
<1> HIDE DEF a
<1>7. /\ a[0] = s /\ DOMAIN a = 0..n /\ a = [i \in 0..n |-> a[i]]
      /\ \A i \in 1..n : a[i] = Step(a[i - 1], i)
  BY <1>0, <1>6
<1>8. \A i \in 0..n : a[i] \in Ttys
  <2>1. ASSUME NEW i \in 1..n, a[i - 1] \in Ttys PROVE a[i] \in Ttys
    BY <1>1, <1>7, <2>1
  <2> QED BY <1>0, <1>7, <2>1, LoopStays
<1>9. a \in [0..n -> Ttys]
  BY <1>7, <1>8
<1> QED BY <1>2, <1>7, <1>9 DEF n, Step, RowStates

(* A row of the window: what changes in the image and on the display.      *)
RowInImage(s, t, x1, x2, y, val, doit) ==
  \A p \in Cells : \/ t.g[p] = s.g[p]
                   \/ doit >= 0 /\ p[2] = y /\ p[1] \in x1..x2 /\ t.g[p] = val[p]
RowOnDisplay(s, t, x1, x2, y) ==
  s.on => \A p \in Cells : /\ t.m[p] = s.m[p] \/ t.m[p] = s.g[p]
                           /\ p[2] = y /\ p[1] \in x1..x2 => t.m[p] = s.g[p]

RowDone(s, t, x1, x2, y, val, doit) ==
  /\ Kept(s, t) /\ RowInImage(s, t, x1, x2, y, val, doit)
  /\ doit = 0 => Unsent(s, t)
  /\ doit # 0 /\ Sync(s) /\ Ready(s, x1, y) =>
       /\ Sync(t)
       /\ x1 <= x2 => \A x0, y0 : Ready(t, x0, y0)
       /\ x1 > x2 => t = s
       /\ doit = 1 /\ Same(s) => Same(t)
       /\ doit = -1 /\ val = s.g => t.g = s.g /\ RowOnDisplay(s, t, x1, x2, y)

LEMMA PaintRowOk ==
  ASSUME NEW s \in Ttys, NEW x1 \in 0..COLS, NEW x2 \in -1 .. COLS - 1, NEW y \in YS,
         NEW val \in [Cells -> Chars], NEW doit \in {-1, 0, 1}
  PROVE  RowDone(s, PaintRow(s, x1, x2, y, val, doit), x1, x2, y, val, doit)
<1> USE SizesOk
<1> DEFINE n == Count(x1, x2)
           t == PaintRow(s, x1, x2, y, val, doit)
           good == doit # 0 /\ Sync(s) /\ Ready(s, x1, y)
           P(i, u) == /\ Kept(s, u) /\ RowInImage(s, u, x1, x1 + i - 1, y, val, doit)
                      /\ doit = 0 => Unsent(s, u)
                      /\ i = 0 => u = s
                      /\ good =>
                           /\ Sync(u)
                           /\ i > 0 => \A x0, y0 : Ready(u, x0, y0)
                           /\ doit = 1 /\ Same(s) => Same(u)
                           /\ doit = -1 /\ val = s.g => u.g = s.g /\ RowOnDisplay(s, u, x1, x1 + i - 1, y)
           I == {z \in (0..n) \X Ttys : P(z[1], z[2])}
<1>1. n \in Nat /\ (x1 <= x2 => n > 0 /\ x1 + n - 1 = x2) /\ (x1 > x2 => n = 0)
  BY DEF Count
<1>2. PICK a : RowStates(s, x1, x2, y, val, doit, a)
  BY PaintRowLoop
<1>21. /\ a \in [0..n -> Ttys] /\ a[0] = s /\ t = a[n]
       /\ \A i \in 1..n : a[i] = write(a[i - 1], val[<<x1 + i - 1, y>>], doit, x1 + i - 1, y)
  BY <1>2 DEF RowStates
<1>3. \A i \in 1..n : x1 + i - 1 \in XS
  BY DEF Count, XS
<1> HIDE DEF n, t
<1>4. P(0, s)
  BY DEF Kept, RowInImage, Unsent, RowOnDisplay
<1>5. ASSUME NEW i \in 1..n, P(i - 1, a[i - 1]) PROVE P(i, a[i])
  <2> DEFINE b == a[i - 1]
             c == a[i]
             x == x1 + i - 1
             p0 == <<x, y>>
             v == val[p0]
  <2>1. b \in Ttys /\ x \in XS /\ p0 \in Cells /\ v \in Chars /\ c = write(b, v, doit, x, y)
    <3>1. i - 1 \in 0..n /\ x \in XS
      BY <1>1, <1>3
    <3>2. p0 \in Cells
      BY <3>1 DEF Cells, XS, YS
    <3> QED BY <1>21, <3>1, <3>2
  <2>2.  /\ c \in Ttys /\ c.on = b.on /\ c.saved = b.saved
         /\ c.g = IF doit >= 0 THEN [b.g EXCEPT ![p0] = v] ELSE b.g
         /\ doit = 0 => c.cx = b.cx /\ c.cy = b.cy /\ c.m = b.m /\ c.last = b.last
                        /\ c.dx = b.dx /\ c.dy = b.dy
         /\ doit # 0 /\ Sync(b) /\ Ready(b, x, y) =>
              /\ b.on => c.m = [b.m EXCEPT ![p0] = v]
              /\ Sync(c)
              /\ \A x0, y0 : Ready(c, x0, y0)
    <3> HIDE DEF b, c, x, v, P
    <3>1. WriteOk(b, c, v, doit, x, y)
      BY <2>1, Write
    <3> QED BY <3>1 DEF WriteOk
  <2>3. b.g \in [Cells -> Chars] /\ b.m \in [Cells -> Shown] /\ s.g \in [Cells -> Chars]
        /\ s.m \in [Cells -> Shown] /\ x \in Int /\ x1 \in Int /\ i \in Int /\ n \in Nat
    <3>1. x1 \in Int /\ i \in Int /\ n \in Nat /\ x \in Int
      BY <1>1
    <3>2. /\ b.g \in [Cells -> Chars] /\ b.m \in [Cells -> Shown]
          /\ s.g \in [Cells -> Chars] /\ s.m \in [Cells -> Shown]
      <4> HIDE DEF b
      <4>1. QED
        BY <2>1, TtyFields
    <3>3. QED
      BY <3>1, <3>2
  <2>4. P(i - 1, b)
    BY <1>5
  <2> HIDE DEF b, c, P
  <2>5. Kept(s, c)
    BY <2>2, <2>4 DEF Kept, P
  <2>6. RowInImage(s, c, x1, x1 + i - 1, y, val, doit)
    <3>1. SUFFICES ASSUME NEW p \in Cells, c.g[p] # s.g[p]
                   PROVE  doit >= 0 /\ p[2] = y /\ p[1] \in x1..(x1 + i - 1) /\ c.g[p] = val[p]
      BY DEF RowInImage
    <3>2. CASE p = p0 /\ doit >= 0
      BY <2>1, <2>2, <2>3, <3>2 
    <3>3. CASE ~(p = p0 /\ doit >= 0)
      <4>1. c.g[p] = b.g[p]
        <5>1. CASE doit >= 0
          BY <2>2, <2>3, <3>3, <5>1
        <5>2. CASE ~(doit >= 0)
          BY <2>2, <5>2
        <5> QED BY <5>1, <5>2
      <4>2. doit >= 0 /\ p[2] = y /\ p[1] \in x1..(x1 + (i - 1) - 1) /\ b.g[p] = val[p]
        BY <2>4, <3>1, <4>1 DEF P, RowInImage
      <4> QED BY <2>3, <4>1, <4>2
    <3> QED BY <3>2, <3>3
  <2>7. doit = 0 => Unsent(s, c)
    <3>1. doit = 0 => Unsent(s, b)
      BY <2>4 DEF P
    <3> QED BY <2>2, <3>1 DEF Unsent
  <2>8. ASSUME good PROVE /\ Sync(c) /\ \A x0, y0 : Ready(c, x0, y0)
                          /\ b.on => c.m = [b.m EXCEPT ![p0] = v]
    <3>1. Sync(b) /\ Ready(b, x, y)
      <4>1. CASE i = 1
        <5>1. b = s /\ x = x1
          BY <2>3, <2>4, <4>1 DEF P
        <5> QED BY <5>1, <2>8
      <4>2. CASE i # 1
        <5>1. i - 1 > 0
          BY <4>2
        <5> QED BY <5>1, <2>4, <2>8 DEF P
      <4> QED BY <4>1, <4>2
    <3>2. doit # 0
      BY <2>8
    <3> HIDE DEF x, v, p0, good
    <3> QED BY <3>1, <3>2, <2>2
  <2>9. ASSUME good, doit = 1, Same(s) PROVE Same(c)
    <3>1. Same(b)
      BY <2>4, <2>9 DEF P
    <3>2. c.g = [b.g EXCEPT ![p0] = v] /\ c.on = b.on
      BY <2>2, <2>9
    <3> QED BY <3>1, <3>2, <2>8, <2>9 DEF Same
  <2>10. ASSUME good, doit = -1, val = s.g
         PROVE  c.g = s.g /\ RowOnDisplay(s, c, x1, x1 + i - 1, y)
    <3>1. b.g = s.g /\ RowOnDisplay(s, b, x1, x1 + (i - 1) - 1, y)
      BY <2>4, <2>10 DEF P
    <3>2. c.g = b.g
      <4>1. ~(doit >= 0)
        BY <2>10
      <4> QED BY <2>2, <4>1
    <3>3. ASSUME s.on, NEW p \in Cells
          PROVE  /\ c.m[p] = s.m[p] \/ c.m[p] = s.g[p]
                 /\ p[2] = y /\ p[1] \in x1..(x1 + i - 1) => c.m[p] = s.g[p]
      <4>1. c.m = [b.m EXCEPT ![p0] = v]
        BY <2>4, <2>8, <2>10, <3>3 DEF P, Kept
      <4>2. CASE p = p0
        BY <2>3, <2>10, <4>1, <4>2
      <4>3. CASE p # p0
        <5>1. c.m[p] = b.m[p]
          BY <2>3, <4>1, <4>3
        <5>2. p[2] = y /\ p[1] \in x1..(x1 + i - 1) => p[1] \in x1..(x1 + (i - 1) - 1)
          <6>1. p = <<p[1], p[2]>> /\ p[1] \in Int
            BY DEF Cells
          <6> QED BY <6>1, <4>3, <2>3
        <5> QED BY <3>1, <3>3, <5>1, <5>2 DEF RowOnDisplay
      <4> QED BY <4>2, <4>3
    <3> QED BY <3>1, <3>2, <3>3 DEF RowOnDisplay
  <2>11. i # 0
    OBVIOUS
  <2> QED BY <2>5, <2>6, <2>7, <2>8, <2>9, <2>10, <2>11 DEF P, c
<1>6. <<n, a[n]>> \in I
  <2>1. <<0, a[0]>> \in I
    BY <1>1, <1>21, <1>4
  <2>2. ASSUME NEW i \in 1..n, <<i - 1, a[i - 1]>> \in I PROVE <<i, a[i]>> \in I
    <3>1. P(i - 1, a[i - 1])
      BY <2>2
    <3>2. P(i, a[i])
      BY <3>1, <1>5
    <3>3. a[i] \in Ttys /\ i \in 0..n
      BY <1>1, <1>21
    <3> HIDE DEF P
    <3> QED BY <3>2, <3>3
  <2> HIDE DEF I
  <2> QED BY <1>1, <2>1, <2>2, LoopInvariant
<1>7. P(n, t)
  <2> HIDE DEF P
  <2> QED BY <1>21, <1>6
<1>8. x1 .. (x1 + n - 1) = x1..x2
  BY <1>1
<1>9. /\ Kept(s, t) /\ RowInImage(s, t, x1, x2, y, val, doit)
      /\ doit = 0 => Unsent(s, t)
  BY <1>7, <1>8 DEF RowInImage
<1>10. ASSUME good
       PROVE  /\ Sync(t)
              /\ x1 <= x2 => \A x0, y0 : Ready(t, x0, y0)
              /\ x1 > x2 => t = s
              /\ doit = 1 /\ Same(s) => Same(t)
              /\ doit = -1 /\ val = s.g => t.g = s.g /\ RowOnDisplay(s, t, x1, x2, y)
  BY <1>1, <1>7, <1>8, <1>10 DEF RowOnDisplay
<1> QED BY <1>9, <1>10 DEF t, RowDone

(* The loop over rows.                                                     *)
RowAt(y1, y2, back, i) == IF back THEN y2 - i + 1 ELSE y1 + i - 1
RowsStates(s, y1, y2, back, val, doit, a) ==
  /\ a \in [0..Count(y1, y2) -> Ttys] /\ a[0] = s
  /\ \A i \in 1..Count(y1, y2) :
       a[i] = PaintRow(a[i - 1], 0, COLS - 1, RowAt(y1, y2, back, i), val, doit)
  /\ PaintRows(s, y1, y2, back, val, doit) = a[Count(y1, y2)]

LEMMA RowAtOk ==
  ASSUME NEW y1 \in 0..LINES, NEW y2 \in -1 .. LINES - 1, NEW back \in BOOLEAN,
         NEW i \in 1..Count(y1, y2)
  PROVE  RowAt(y1, y2, back, i) \in YS /\ RowAt(y1, y2, back, i) \in y1..y2
<1>1. CASE back
  BY <1>1, SizesOk DEF Count, RowAt, YS
<1>2. CASE ~back
  BY <1>2, SizesOk DEF Count, RowAt, YS
<1> QED BY <1>1, <1>2

LEMMA PaintRowsLoop ==
  ASSUME NEW s \in Ttys, NEW y1 \in 0..LINES, NEW y2 \in -1 .. LINES - 1, NEW back \in BOOLEAN,
         NEW val \in [Cells -> Chars], NEW doit \in {-1, 0, 1}
  PROVE  \E a : RowsStates(s, y1, y2, back, val, doit, a)
<1> DEFINE n == Count(y1, y2)
           Step(t, i) == PaintRow(t, 0, COLS - 1, IF back THEN y2 - i + 1 ELSE y1 + i - 1, val, doit)
           Eq(a) == a = [i \in 0..n |-> IF i = 0 THEN s ELSE Step(a[i - 1], i)]
           a == CHOOSE a : Eq(a)
           G == [z \in (1..n) \X Ttys |-> Step(z[2], z[1])]
<1>0. n \in Nat
  BY SizesOk DEF Count
<1>1. ASSUME NEW i \in 1..n, NEW t \in Ttys PROVE Step(t, i) \in Ttys
  <2>1. RowAt(y1, y2, back, i) \in YS
    BY RowAtOk
  <2>2. 0 \in 0..COLS /\ COLS - 1 \in -1 .. COLS - 1
    BY SizesOk
  <2>3. Kept(t, PaintRow(t, 0, COLS - 1, RowAt(y1, y2, back, i), val, doit))
    BY <2>1, <2>2, PaintRowOk DEF RowDone
  <2> QED BY <2>3 DEF Kept, RowAt
<1>2. PaintRows(s, y1, y2, back, val, doit) = a[n]
  BY Zenon DEF PaintRows, Loop
<1>21. \A i, t : Step(t, i) = PaintRow(t, 0, COLS - 1, RowAt(y1, y2, back, i), val, doit)
  BY DEF RowAt
<1> HIDE DEF n, Step
<1>3. \A i \in 1..n, t \in Ttys : G[<<i, t>>] = Step(t, i)
  OBVIOUS
<1>4. PICK b : States(Ttys, s, G, n, b)
  <2>1. G \in [(1..n) \X Ttys -> Ttys]
    BY <1>1
  <2> HIDE DEF G
  <2> QED BY <2>1, <1>0, LoopExists
<1>5. Eq(b)
  <2> HIDE DEF G
  <2>1. ASSUME NEW i \in 0..n PROVE b[i] = (IF i = 0 THEN s ELSE Step(b[i - 1], i))
    <3>2. CASE i = 0
      BY <1>4, <3>2 DEF States
    <3>3. CASE i # 0
      <4>1. i \in 1..n /\ i - 1 \in 0..n
        BY <1>0, <3>3
      <4>2. b[i] = G[<<i, b[i - 1]>>] /\ b[i - 1] \in Ttys
        BY <1>4, <4>1 DEF States
      <4> QED BY <1>3, <3>3, <4>1, <4>2
    <3> QED BY <3>2, <3>3
  <2> QED BY <1>4, <2>1 DEF States
<1>6. Eq(a)
  <2> HIDE DEF Eq
  <2> QED BY <1>5, Zenon
<1> HIDE DEF a
<1>7. /\ a[0] = s /\ DOMAIN a = 0..n /\ a = [i \in 0..n |-> a[i]]
      /\ \A i \in 1..n : a[i] = Step(a[i - 1], i)
  BY <1>0, <1>6
<1>8. \A i \in 0..n : a[i] \in Ttys
  <2>1. ASSUME NEW i \in 1..n, a[i - 1] \in Ttys PROVE a[i] \in Ttys
    BY <1>1, <1>7, <2>1
  <2> QED BY <1>0, <1>7, <2>1, LoopStays
<1>9. a \in [0..n -> Ttys]
  BY <1>7, <1>8
<1>10. \A i \in 1..n : a[i] = PaintRow(a[i - 1], 0, COLS - 1, RowAt(y1, y2, back, i), val, doit)
  BY <1>7, <1>21
<1> QED BY <1>2, <1>7, <1>9, <1>10 DEF n, RowsStates

(* Nothing is skipped in the first column.                                 *)
LEMMA ReadyFirst == \A s \in Ttys : \A y : Ready(s, 0, y)
<1> TAKE s \in Ttys
<1> TAKE y
<1>2. s.last[1] \in XS
  BY TtyFields
<1> QED BY <1>2, SizesOk DEF Ready, XS

RowsInImage(s, t, y1, y2, val, doit) ==
  \A p \in Cells : \/ t.g[p] = s.g[p]
                   \/ doit >= 0 /\ p[2] \in y1..y2 /\ t.g[p] = val[p]
RowsOnDisplay(s, t, y1, y2) ==
  s.on => \A p \in Cells : /\ t.m[p] = s.m[p] \/ t.m[p] = s.g[p]
                           /\ p[2] \in y1..y2 => t.m[p] = s.g[p]

RowsDone(s, t, y1, y2, val, doit) ==
  /\ Kept(s, t) /\ RowsInImage(s, t, y1, y2, val, doit)
  /\ doit # 0 /\ Sync(s) =>
       /\ Sync(t)
       /\ y1 <= y2 => \A x0, y0 : Ready(t, x0, y0)
       /\ y1 > y2 => t = s
       /\ doit = 1 /\ Same(s) => Same(t)
       /\ doit = -1 /\ val = s.g => t.g = s.g /\ RowsOnDisplay(s, t, y1, y2)

(* Rows of the window.                                                     *)
LEMMA PaintRowsOk ==
  ASSUME NEW s \in Ttys, NEW y1 \in 0..LINES, NEW y2 \in -1 .. LINES - 1, NEW back \in BOOLEAN,
         NEW val \in [Cells -> Chars], NEW doit \in {-1, 0, 1}
  PROVE  RowsDone(s, PaintRows(s, y1, y2, back, val, doit), y1, y2, val, doit)
<1> USE SizesOk
<1> DEFINE n == Count(y1, y2)
           t == PaintRows(s, y1, y2, back, val, doit)
           good == doit # 0 /\ Sync(s)
           Done(i, u) == s.on => \A p \in Cells :
                            /\ u.m[p] = s.m[p] \/ u.m[p] = s.g[p]
                            /\ (\E j \in 1..i : p[2] = RowAt(y1, y2, back, j)) => u.m[p] = s.g[p]
           P(i, u) == /\ Kept(s, u) /\ RowsInImage(s, u, y1, y2, val, doit)
                      /\ i = 0 => u = s
                      /\ good =>
                           /\ Sync(u)
                           /\ i > 0 => \A x0, y0 : Ready(u, x0, y0)
                           /\ doit = 1 /\ Same(s) => Same(u)
                           /\ doit = -1 /\ val = s.g => u.g = s.g /\ Done(i, u)
           I == {z \in (0..n) \X Ttys : P(z[1], z[2])}
<1>1. n \in Nat /\ (y1 <= y2 => n > 0 /\ n = y2 - y1 + 1) /\ (y1 > y2 => n = 0)
  BY DEF Count
<1>2. PICK a : RowsStates(s, y1, y2, back, val, doit, a)
  BY PaintRowsLoop
<1>21. /\ a \in [0..n -> Ttys] /\ a[0] = s /\ t = a[n]
       /\ \A i \in 1..n : a[i] = PaintRow(a[i - 1], 0, COLS - 1, RowAt(y1, y2, back, i), val, doit)
  BY <1>2 DEF RowsStates
<1>3. \A i \in 1..n : RowAt(y1, y2, back, i) \in YS /\ RowAt(y1, y2, back, i) \in y1..y2
  BY RowAtOk
<1> HIDE DEF n, t
<1>4. P(0, s)
  BY DEF Kept, RowsInImage
<1>5. ASSUME NEW i \in 1..n, P(i - 1, a[i - 1]) PROVE P(i, a[i])
  <2> DEFINE b == a[i - 1]
             c == a[i]
             y == RowAt(y1, y2, back, i)
  <2>1. b \in Ttys /\ y \in YS /\ y \in y1..y2 /\ c = PaintRow(b, 0, COLS - 1, y, val, doit)
        /\ 0 \in 0..COLS /\ COLS - 1 \in -1 .. COLS - 1
    <3>1. i - 1 \in 0..n
      BY <1>1
    <3> QED BY <1>21, <1>3, <3>1
  <2>4. P(i - 1, b) /\ Ready(b, 0, y)
    BY <1>5, <2>1, ReadyFirst
  <2> HIDE DEF b, c, P, y
  <2>2. /\ Kept(b, c) /\ RowInImage(b, c, 0, COLS - 1, y, val, doit)
        /\ doit # 0 /\ Sync(b) =>
              /\ Sync(c)
              /\ \A x0, y0 : Ready(c, x0, y0)
              /\ doit = 1 /\ Same(b) => Same(c)
              /\ doit = -1 /\ val = b.g => c.g = b.g /\ RowOnDisplay(b, c, 0, COLS - 1, y)
    <3>1. RowDone(b, c, 0, COLS - 1, y, val, doit)
      BY <2>1, PaintRowOk
    <3> QED BY <2>4, <3>1 DEF RowDone
  <2>5. Kept(s, c)
    BY <2>2, <2>4 DEF Kept, P
  <2>6. RowsInImage(s, c, y1, y2, val, doit)
    <3>1. RowsInImage(s, b, y1, y2, val, doit)
      BY <2>4 DEF P
    <3> QED BY <2>1, <2>2, <3>1 DEF RowsInImage, RowInImage
  <2>8. ASSUME good PROVE Sync(b) /\ Sync(c) /\ \A x0, y0 : Ready(c, x0, y0)
    <3>1. Sync(b)
      BY <2>4, <2>8 DEF P
    <3> QED BY <2>2, <2>8, <3>1
  <2>9. ASSUME good, doit = 1, Same(s) PROVE Same(c)
    <3>1. Same(b)
      BY <2>4, <2>9 DEF P
    <3> QED BY <2>2, <2>8, <2>9, <3>1
  <2>10. ASSUME good, doit = -1, val = s.g PROVE c.g = s.g /\ Done(i, c)
    <3>1. b.g = s.g /\ Done(i - 1, b)
      BY <2>4, <2>10 DEF P
    <3>2. c.g = b.g /\ RowOnDisplay(b, c, 0, COLS - 1, y) /\ b.on = s.on
      BY <2>2, <2>4, <2>8, <2>10, <3>1 DEF P, Kept
    <3>3. ASSUME s.on, NEW p \in Cells
          PROVE  /\ c.m[p] = s.m[p] \/ c.m[p] = s.g[p]
                 /\ (\E j \in 1..i : p[2] = RowAt(y1, y2, back, j)) => c.m[p] = s.g[p]
      <4>1. /\ c.m[p] = b.m[p] \/ c.m[p] = s.g[p]
            /\ p[2] = y => c.m[p] = s.g[p]
        <5>1. p[1] \in 0 .. COLS - 1
          BY DEF Cells
        <5> QED BY <3>1, <3>2, <3>3, <5>1 DEF RowOnDisplay
      <4>2. /\ b.m[p] = s.m[p] \/ b.m[p] = s.g[p]
            /\ \A j \in 1..(i - 1) : p[2] = RowAt(y1, y2, back, j) => b.m[p] = s.g[p]
        BY <3>1, <3>3
      <4>3. ASSUME NEW j \in 1..i, p[2] = RowAt(y1, y2, back, j) PROVE c.m[p] = s.g[p]
        <5>1. CASE j = i
          BY <4>1, <4>3, <5>1 DEF y
        <5>2. CASE j # i
          <6>1. j \in 1..(i - 1)
            BY <5>2
          <6> QED BY <4>1, <4>2, <4>3, <6>1
        <5> QED BY <5>1, <5>2
      <4> QED BY <4>1, <4>2, <4>3
    <3> QED BY <3>1, <3>2, <3>3
  <2>11. i # 0
    OBVIOUS
  <2> HIDE DEF Done
  <2> QED BY <2>5, <2>6, <2>8, <2>9, <2>10, <2>11 DEF P, c
<1> HIDE DEF Done
<1>6. <<n, a[n]>> \in I
  <2>1. <<0, a[0]>> \in I
    BY <1>1, <1>21, <1>4
  <2>2. ASSUME NEW i \in 1..n, <<i - 1, a[i - 1]>> \in I PROVE <<i, a[i]>> \in I
    <3>1. P(i - 1, a[i - 1])
      BY <2>2
    <3>2. P(i, a[i])
      BY <3>1, <1>5
    <3>3. a[i] \in Ttys /\ i \in 0..n
      BY <1>1, <1>21
    <3> HIDE DEF P
    <3> QED BY <3>2, <3>3
  <2> HIDE DEF I
  <2> QED BY <1>1, <2>1, <2>2, LoopInvariant
<1>7. P(n, t)
  <2> HIDE DEF P
  <2> QED BY <1>21, <1>6
<1>9. Kept(s, t) /\ RowsInImage(s, t, y1, y2, val, doit)
  BY <1>7
<1>10. ASSUME good
       PROVE  /\ Sync(t)
              /\ y1 <= y2 => \A x0, y0 : Ready(t, x0, y0)
              /\ y1 > y2 => t = s
              /\ doit = 1 /\ Same(s) => Same(t)
  BY <1>1, <1>7, <1>10
<1>11. ASSUME good, doit = -1, val = s.g
       PROVE  t.g = s.g /\ RowsOnDisplay(s, t, y1, y2)
  <2>1. t.g = s.g /\ Done(n, t)
    BY <1>7, <1>11
  <2>2. ASSUME NEW p \in Cells, p[2] \in y1..y2
        PROVE  \E j \in 1..n : p[2] = RowAt(y1, y2, back, j)
    <3>1. CASE back
      <4>1. y2 - p[2] + 1 \in 1..n /\ p[2] = RowAt(y1, y2, back, y2 - p[2] + 1)
        BY <1>1, <2>2, <3>1 DEF RowAt
      <4> QED BY <4>1
    <3>2. CASE ~back
      <4>1. p[2] - y1 + 1 \in 1..n /\ p[2] = RowAt(y1, y2, back, p[2] - y1 + 1)
        BY <1>1, <2>2, <3>2 DEF RowAt
      <4> QED BY <4>1
    <3> QED BY <3>1, <3>2
  <2> QED BY <2>1, <2>2 DEF RowsOnDisplay, Done
<1> QED BY <1>9, <1>10, <1>11 DEF t, RowsDone

-----------------------------------------------------------------------------
(* The operations of window.c.                                             *)

(* A library and display with a window; what an operation leaves alone.    *)
Pairs == [s : Ttys, w : Wins]
Fine(r) == r \in Pairs /\ WinOk(r.w) /\ Titled(r.s, r.w.y1)
Fixed(w, v) == /\ v.y1 = w.y1 /\ v.y2 = w.y2 /\ v.sy1 = w.sy1 /\ v.sy2 = w.sy2
               /\ v.wrap = w.wrap /\ v.direct = w.direct /\ v.doscroll = w.doscroll
Shows(r) == Same(r.s) /\ Ready(r.s, r.w.curx, r.w.y1 + r.w.cury)
Does(r, q) == Fine(q) /\ Kept(r.s, q.s) /\ Fixed(r.w, q.w)

LEMMA PairFields ==
  ASSUME NEW r \in Pairs
  PROVE  r.s \in Ttys /\ r.w \in Wins /\ r = [s |-> r.s, w |-> r.w]
  BY DEF Pairs

LEMMA WinFields ==
  ASSUME NEW w \in Wins
  PROVE  /\ w.y1 \in YS /\ w.y2 \in YS /\ w.sy1 \in YS /\ w.sy2 \in YS
         /\ w.curx \in 0 .. COLS /\ w.cury \in 0 .. LINES
         /\ w.wrap \in BOOLEAN /\ w.direct \in BOOLEAN /\ w.doscroll \in BOOLEAN
  BY DEF Wins

(* The row of the cursor is a row of the screen and of the window.         *)
LEMMA CursorRow ==
  ASSUME NEW w, WinOk(w)
  PROVE  /\ w \in Wins /\ w.y1 + w.cury \in YS /\ w.y1 <= w.y1 + w.cury /\ w.y1 + w.cury <= w.y2
         /\ Ys(w) \in Nat /\ Ys(w) > 0 /\ w.cury < Ys(w) /\ w.y1 <= w.y2
<1>1. w \in Wins /\ w.y1 + w.cury <= w.y2
  BY DEF WinOk, RegionOk
<1>2. w.y1 \in YS /\ w.y2 \in YS /\ w.cury \in 0 .. LINES
  BY <1>1, WinFields
<1> QED BY <1>1, <1>2, SizesOk DEF YS, Ys

(* A window with its cursor elsewhere.                                     *)
Moved(w, v, x, y) ==
  RegionOk(v) /\ Fixed(w, v) /\ v.curx = x /\ v.cury = y /\ (w.y1 + y <= w.y2 => WinOk(v))
LEMMA WinAt ==
  ASSUME NEW w, RegionOk(w), NEW x \in 0 .. COLS, NEW y \in 0 .. LINES
  PROVE  Moved(w, [w EXCEPT !.curx = x, !.cury = y], x, y)
  BY DEF RegionOk, WinOk, Wins, Fixed, Moved

LEMMA GotoCursorOk ==
  ASSUME NEW s \in Ttys, NEW w, WinOk(w)
  PROVE  LET t == GotoCursor(s, w) IN
         /\ Kept(s, t) /\ t.g = s.g /\ t.m = s.m
         /\ w.direct /\ Same(s) => Same(t) /\ Ready(t, w.curx, w.y1 + w.cury)
         /\ ~w.direct => t = s
<1> DEFINE t == GotoCursor(s, w)
           y == w.y1 + w.cury
<1>1. y \in YS /\ w.curx \in Nat /\ w.direct \in BOOLEAN /\ w.curx \in 0 .. COLS
  BY CursorRow, WinFields, SizesOk
<1> HIDE DEF y
<1>2. CASE w.direct
  <2>1. t = gotoxy(s, w.curx, y)
    BY <1>2 DEF GotoCursor, y
  <2>2. Kept(s, t) /\ t.g = s.g /\ t.m = s.m
    BY <1>1, <2>1, Gotoxy DEF Kept
  <2>3. ASSUME Same(s) PROVE Same(t) /\ Ready(t, w.curx, y)
    <3>1. Sync(t) /\ (w.curx < COLS => Ready(t, w.curx, y))
      BY <1>1, <2>1, <2>3, GotoxySync DEF Same
    <3>2. ~(w.curx < COLS) => Ready(t, w.curx, y)
      BY DEF Ready
    <3> QED BY <2>2, <2>3, <3>1, <3>2 DEF Same, Kept
  <2> QED BY <1>2, <2>2, <2>3 DEF t, y
<1>3. CASE ~w.direct
  BY <1>3 DEF GotoCursor, Kept
<1> QED BY <1>1, <1>2, <1>3

(* The title stays when rows are painted with something else.              *)
LEMMA TitledRow ==
  ASSUME NEW s \in Ttys, NEW t \in Ttys, NEW x1, NEW x2, NEW y \in YS, NEW val, NEW doit,
         NEW y1 \in YS, Titled(s, y1), RowInImage(s, t, x1, x2, y, val, doit), y1 <= y,
         \A p \in Cells : p[2] = y => val[p] # Title
  PROVE  Titled(t, y1)
  BY SizesOk DEF Titled, RowInImage, YS, Cells

LEMMA TitledRows ==
  ASSUME NEW s \in Ttys, NEW t \in Ttys, NEW ya \in Int, NEW yb \in Int, NEW val, NEW doit,
         NEW y1 \in YS, Titled(s, y1), RowsInImage(s, t, ya, yb, val, doit), y1 <= ya,
         \A p \in Cells : p[2] \in ya..yb => val[p] # Title
  PROVE  Titled(t, y1)
  BY SizesOk DEF Titled, RowsInImage, YS, Cells

LEMMA BlankOk == Blank \in [Cells -> Chars] /\ \A p \in Cells : Blank[p] = " " /\ Blank[p] # Title
  BY CharFacts DEF Blank

(* vtty_wlocate, from anywhere.                                            *)
LEMMA ClipOk == \A i \in Int, n \in Nat \ {0} : Clip(i, n) \in 0 .. n - 1
  BY DEF Clip

LEMMA Locates0 ==
  ASSUME NEW r \in Pairs, RegionOk(r.w), Titled(r.s, r.w.y1), NEW x \in Int, NEW y \in Int
  PROVE  LET q == vtty_wlocate(r, x, y) IN
         /\ Does(r, q) /\ q.s.g = r.s.g /\ q.s.m = r.s.m
         /\ q.w = [r.w EXCEPT !.curx = Clip(x, COLS), !.cury = Clip(y, Ys(r.w))]
         /\ r.w.direct /\ Same(r.s) => Shows(q)
         /\ ~r.w.direct => q.s = r.s
<1> USE SizesOk
<1> DEFINE px == Clip(x, COLS)
           py == Clip(y, Ys(r.w))
           v == [r.w EXCEPT !.curx = px, !.cury = py]
           t == GotoCursor(r.s, v)
           q == vtty_wlocate(r, x, y)
<1>1. q = [s |-> t, w |-> v]
  BY DEF vtty_wlocate
<1>2. r.w.y1 \in YS /\ r.w.y2 \in YS /\ r.w.y1 <= r.w.y2 /\ r.w \in Wins /\ r.s \in Ttys
  BY PairFields, WinFields DEF RegionOk, YS
<1>3. Ys(r.w) \in Nat \ {0} /\ Ys(r.w) <= LINES
  BY <1>2 DEF Ys, YS
<1>4. px \in 0 .. COLS - 1 /\ py \in 0 .. Ys(r.w) - 1
  <2>1. COLS \in Nat \ {0}
    OBVIOUS
  <2> QED BY <1>3, <2>1, ClipOk
<1> HIDE DEF px, py
<1>5. px \in 0 .. COLS /\ py \in 0 .. LINES /\ r.w.y1 + py <= r.w.y2
  BY <1>2, <1>3, <1>4 DEF Ys, YS
<1>6. WinOk(v) /\ Fixed(r.w, v) /\ v.curx = px /\ v.cury = py
  <2>1. Moved(r.w, v, px, py)
    BY <1>5, WinAt
  <2> QED BY <1>5, <2>1 DEF Moved
<1> HIDE DEF v
<1>7. /\ Kept(r.s, t) /\ t.g = r.s.g /\ t.m = r.s.m
      /\ v.direct /\ Same(r.s) => Same(t) /\ Ready(t, v.curx, v.y1 + v.cury)
      /\ ~v.direct => t = r.s
  BY <1>2, <1>6, GotoCursorOk
<1> HIDE DEF t, q
<1>8. q.s = t /\ q.w = v /\ q \in Pairs
  BY <1>1, <1>6, <1>7 DEF Pairs, Kept, WinOk, RegionOk
<1>9. Titled(t, v.y1)
  BY <1>6, <1>7 DEF Titled, Fixed
<1>10. Does(r, q)
  BY <1>6, <1>7, <1>8, <1>9 DEF Does, Fine
<1>11. r.w.direct /\ Same(r.s) => Shows(q)
  BY <1>6, <1>7, <1>8 DEF Shows, Fixed
<1>12. ~r.w.direct => q.s = r.s
  BY <1>6, <1>7, <1>8 DEF Fixed
<1> QED BY <1>7, <1>8, <1>10, <1>11, <1>12 DEF q, v, px, py

LEMMA DoitOk == \A w \in Wins : Doit(w) \in {0, 1} /\ (w.direct => Doit(w) = 1) /\ (~w.direct => Doit(w) = 0)
  BY DEF Doit

(* _wclreol.                                                               *)
LEMMA ClreolOk ==
  ASSUME NEW s \in Ttys, NEW w, WinOk(w), Titled(s, w.y1)
  PROVE  LET t == clreol(s, w) IN
         /\ Kept(s, t) /\ Titled(t, w.y1)
         /\ w.direct /\ Same(s) /\ Ready(s, w.curx, w.y1 + w.cury) => Same(t)
<1> DEFINE t == clreol(s, w)
           y == w.y1 + w.cury
           d == Doit(w)
<1>1. w \in Wins /\ y \in YS /\ w.y1 \in YS /\ w.y1 <= y /\ w.curx \in 0 .. COLS
  BY CursorRow, WinFields
<1>2. d \in {-1, 0, 1} /\ (w.direct => d = 1) /\ COLS - 1 \in -1 .. COLS - 1
  BY <1>1, DoitOk, SizesOk
<1>3. t = PaintRow(s, w.curx, COLS - 1, y, Blank, d)
  BY DEF clreol
<1> HIDE DEF t, y, d
<1>4. /\ Kept(s, t) /\ RowInImage(s, t, w.curx, COLS - 1, y, Blank, d)
      /\ d = 1 /\ Same(s) /\ Ready(s, w.curx, y) => Same(t)
  <2>1. RowDone(s, t, w.curx, COLS - 1, y, Blank, d)
    BY <1>1, <1>2, <1>3, BlankOk, PaintRowOk
  <2> QED BY <2>1 DEF RowDone, Same
<1>5. Titled(t, w.y1)
  <2>1. t \in Ttys /\ \A p \in Cells : p[2] = y => Blank[p] # Title
    BY <1>4, BlankOk DEF Kept
  <2> QED BY <1>1, <1>4, <2>1, TitledRow
<1> QED BY <1>2, <1>4, <1>5 DEF t, y

(* Scrolling the display itself.                                           *)
TopBlank(s) == s.on => \A x \in XS : s.m[<<x, 0>>] = " "

LEMMA ShiftOk ==
  ASSUME NEW h \in [Cells -> Shown], NEW k \in [Cells -> Shown]
  PROVE  /\ RowsUp(h) \in [Cells -> Shown] /\ RowsDown(h, k) \in [Cells -> Shown]
         /\ h \in [Cells -> Chars] => RowsUp(h) \in [Cells -> Chars]
         /\ h \in [Cells -> Chars] /\ k \in [Cells -> Chars] => RowsDown(h, k) \in [Cells -> Chars]
<1>1. ASSUME NEW p \in Cells
      PROVE  /\ p[2] # LINES - 1 => <<p[1], p[2] + 1>> \in Cells
             /\ p[2] # 0 => <<p[1], p[2] - 1>> \in Cells
  BY SizesOk DEF Cells
<1> QED BY <1>1, CharFacts DEF RowsUp, RowsDown

LEMMA ScrollDisplayOk ==
  ASSUME NEW r \in Pairs, NEW dir \in {"up", "down"}
  PROVE  LET t == ScrollDisplay(r, dir) IN
         /\ Kept(r.s, t) /\ t.g = r.s.g
         /\ Sync(r.s) => Sync(t)
         /\ r.s.on => t.m = IF dir = "up" THEN RowsUp(r.s.m) ELSE RowsDown(r.s.m, r.s.m)
<1> USE SizesOk
<1> DEFINE y == IF dir = "up" THEN LINES - 1 ELSE 0
           u == gotoxy(r.s, 0, y)
           nm == IF dir = "up" THEN RowsUp(u.m) ELSE RowsDown(u.m, u.m)
           t == ScrollDisplay(r, dir)
<1>1. t = IF u.on THEN [u EXCEPT !.m = nm] ELSE u
  <2>1. CASE dir = "up"
    BY <2>1 DEF ScrollDisplay, vga_scroll
  <2>2. CASE dir = "down"
    BY <2>2 DEF ScrollDisplay, vga_upscroll
  <2> QED BY <2>1, <2>2
<1>2. y \in YS /\ 0 \in Nat /\ r.s \in Ttys
  BY PairFields DEF YS
<1> HIDE DEF y
<1>3. /\ u \in Ttys /\ u.g = r.s.g /\ u.m = r.s.m /\ u.on = r.s.on /\ u.saved = r.s.saved
      /\ Sync(r.s) => Sync(u)
  BY <1>2, Gotoxy, GotoxySync
<1> HIDE DEF u
<1>4. nm \in [Cells -> Shown]
  BY <1>3, TtyFields, ShiftOk
<1>5. nm = IF dir = "up" THEN RowsUp(r.s.m) ELSE RowsDown(r.s.m, r.s.m)
  BY <1>3
<1> HIDE DEF nm, t
<1>6. /\ t \in Ttys /\ t.g = u.g /\ t.on = u.on /\ t.saved = u.saved /\ t.cx = u.cx /\ t.cy = u.cy
      /\ t.dx = u.dx /\ t.dy = u.dy /\ (u.on => t.m = nm)
  <2>1. CASE u.on
    BY <1>1, <1>3, <1>4, <2>1 DEF Ttys
  <2>2. CASE ~u.on
    BY <1>1, <1>3, <2>2
  <2> QED BY <2>1, <2>2
<1>7. Sync(u) => Sync(t)
  BY <1>6 DEF Sync
<1> QED BY <1>3, <1>5, <1>6, <1>7 DEF t, Kept

(* vtty_wscroll of a window as high as the screen.                         *)
Scrolled(r, dir) == [ScrollDisplay(r, dir) EXCEPT !.g = IF dir = "up" THEN RowsUp(@) ELSE RowsDown(@, Blank)]

LEMMA ScrolledOk ==
  ASSUME NEW r \in Pairs, RegionOk(r.w), Titled(r.s, r.w.y1), Physical(r.w), NEW dir \in {"up", "down"}
  PROVE  LET t == Scrolled(r, dir) IN
         /\ Kept(r.s, t) /\ Titled(t, r.w.y1)
         /\ Same(r.s) /\ (dir = "down" => TopBlank(r.s)) => Same(t)
<1> USE SizesOk
<1> DEFINE u == ScrollDisplay(r, dir)
           ng == IF dir = "up" THEN RowsUp(r.s.g) ELSE RowsDown(r.s.g, Blank)
           t == Scrolled(r, dir)
<1>1. r.s \in Ttys /\ r.s.g \in [Cells -> Chars] /\ r.s.m \in [Cells -> Shown] /\ r.s.on \in BOOLEAN
  BY PairFields, TtyFields
<1>2. /\ Kept(r.s, u) /\ u.g = r.s.g
      /\ Sync(r.s) => Sync(u)
      /\ r.s.on => u.m = IF dir = "up" THEN RowsUp(r.s.m) ELSE RowsDown(r.s.m, r.s.m)
  BY ScrollDisplayOk
<1> HIDE DEF u
<1>3. t = [u EXCEPT !.g = ng]
  BY <1>2 DEF Scrolled, u, Ttys, Kept
<1>4. ng \in [Cells -> Chars]
  <2>1. r.s.g \in [Cells -> Shown] /\ Blank \in [Cells -> Shown] /\ Blank \in [Cells -> Chars]
    BY <1>1, BlankOk, CharFacts
  <2> QED BY <1>1, <2>1, ShiftOk
<1>5. r.w.y1 = 0
  BY WinFields, PairFields DEF RegionOk, Physical, YS
<1>6. \A p \in Cells : ng[p] # Title
  <2>1. \A p \in Cells : r.s.g[p] # Title
    BY <1>5 DEF Titled, Cells
  <2>2. ASSUME NEW p \in Cells PROVE ng[p] # Title
    <3>1. /\ p[2] # LINES - 1 => <<p[1], p[2] + 1>> \in Cells
          /\ p[2] # 0 => <<p[1], p[2] - 1>> \in Cells
      BY DEF Cells
    <3> QED BY <2>1, <3>1, BlankOk, CharFacts DEF RowsUp, RowsDown
  <2> QED BY <2>2
<1> HIDE DEF t, ng
<1>7. /\ t \in Ttys /\ t.g = ng /\ t.m = u.m /\ t.on = u.on /\ t.saved = u.saved /\ t.cx = u.cx /\ t.cy = u.cy
      /\ t.dx = u.dx /\ t.dy = u.dy
  BY <1>2, <1>3, <1>4 DEF Ttys, Kept
<1>8. Kept(r.s, t) /\ Titled(t, r.w.y1)
  BY <1>2, <1>5, <1>6, <1>7 DEF Kept, Titled, Cells
<1>9. ASSUME Same(r.s), dir = "down" => TopBlank(r.s) PROVE Same(t)
  <2>1. Sync(t)
    BY <1>2, <1>7, <1>9 DEF Same, Sync
  <2>2. ASSUME r.s.on PROVE u.m = ng
    <3>1. r.s.m = r.s.g
      BY <1>9, <2>2 DEF Same
    <3>2. CASE dir = "up"
      BY <1>2, <2>2, <3>1, <3>2 DEF ng
    <3>3. CASE dir = "down"
      <4>1. \A p \in Cells : p[2] = 0 => r.s.m[p] = Blank[p]
        <5>1. TAKE p \in Cells
        <5>2. p = <<p[1], p[2]>> /\ p[1] \in XS
          BY DEF Cells, XS
        <5> QED BY <1>9, <2>2, <3>3, <5>2, BlankOk DEF TopBlank
      <4>2. RowsDown(r.s.m, r.s.m) = RowsDown(r.s.g, Blank)
        BY <3>1, <4>1 DEF RowsDown
      <4> QED BY <1>2, <2>2, <3>3, <4>2 DEF ng
    <3> QED BY <3>2, <3>3
  <2> QED BY <1>2, <1>7, <2>1, <2>2 DEF Same, Kept
<1> QED BY <1>8, <1>9 DEF t

(* vtty_wscroll.                                                           *)
ScrollDone(r, q, dir, intern) ==
  /\ Does(r, q) /\ q.w.curx = r.w.curx
  /\ r.w.direct /\ Same(r.s) /\ (dir = "down" /\ Physical(r.w) => TopBlank(r.s)) =>
       Same(q.s) /\ (~intern => Shows(q))

LEMMA Wscroll ==
  ASSUME NEW r \in Pairs, RegionOk(r.w), Titled(r.s, r.w.y1), NEW dir \in {"up", "down"}, NEW intern \in BOOLEAN
  PROVE  ScrollDone(r, vtty_wscroll(r, dir, intern), dir, intern)
<1> USE SizesOk
<1> DEFINE w0 == r.w
           g == r.s.g
           cy == (IF dir = "up" THEN w0.sy2 ELSE w0.sy1) - w0.y1
           w == [w0 EXCEPT !.cury = cy]
           w1 == [w EXCEPT !.curx = 0]
           phys == w0.direct /\ LINES = w0.sy2 - w0.sy1 + 1
           moved == IF dir = "up"
                    THEN PaintRows(r.s, w0.sy1, w0.sy2 - 1, FALSE, RowsUp(g), Doit(w0))
                    ELSE PaintRows(r.s, w0.sy1 + 1, w0.sy2, TRUE, RowsDown(g, Blank), Doit(w0))
           s == IF phys THEN Scrolled(r, dir) ELSE clreol(moved, w1)
           q == vtty_wscroll(r, dir, intern)
           ok == r.w.direct /\ Same(r.s) /\ (dir = "down" /\ Physical(r.w) => TopBlank(r.s))
<1>1. q = [s |-> IF intern THEN s ELSE GotoCursor(s, w), w |-> w]
  BY Zenon DEF vtty_wscroll, Scrolled
<1>2. /\ w0 \in Wins /\ r.s \in Ttys /\ g \in [Cells -> Chars] /\ w0.y1 \in YS /\ w0.y2 \in YS
      /\ w0.sy1 \in YS /\ w0.sy2 \in YS /\ w0.direct \in BOOLEAN /\ w0.curx \in 0 .. COLS
      /\ w0.y1 <= w0.sy1 /\ w0.sy1 <= w0.y2 /\ w0.y1 <= w0.sy2 /\ w0.sy2 <= w0.y2
  BY PairFields, WinFields, TtyFields DEF RegionOk
<1>3. cy \in 0 .. LINES /\ w0.y1 + cy <= w0.y2
  BY <1>2 DEF YS
<1>4. Physical(w0) => (phys <=> w0.direct)
  BY <1>2 DEF Physical, YS
<1>41. phys => Physical(w0)
  BY <1>2 DEF Physical, YS
<1> HIDE DEF cy, s, q
<1>5. WinOk(w) /\ Fixed(w0, w) /\ w.curx = w0.curx /\ WinOk(w1) /\ Fixed(w0, w1) /\ w1.curx = 0
  <2>1. w = [w0 EXCEPT !.curx = w0.curx, !.cury = cy]
    BY <1>2 DEF Wins
  <2>2. Moved(w0, w, w0.curx, cy)
    BY <1>2, <1>3, <2>1, WinAt
  <2>3. w1 = [w0 EXCEPT !.curx = 0, !.cury = cy]
    BY <1>2 DEF Wins
  <2>4. 0 \in 0 .. COLS
    OBVIOUS
  <2> HIDE DEF w, w1
  <2>5. Moved(w0, w1, 0, cy)
    BY <1>3, <2>3, <2>4, WinAt
  <2> QED BY <1>3, <2>2, <2>5 DEF Moved
<1> HIDE DEF w, w1
<1>6. ASSUME phys PROVE Kept(r.s, s) /\ Titled(s, w0.y1) /\ (ok => Same(s))
  <2>1. s = Scrolled(r, dir) /\ Physical(r.w)
    BY <1>6, <1>41 DEF s
  <2>2. Kept(r.s, s) /\ Titled(s, w0.y1) /\ (ok => Same(s))
    BY <1>2, <2>1, ScrolledOk
  <2> QED BY <2>2
<1>7. ASSUME ~phys PROVE Kept(r.s, s) /\ Titled(s, w0.y1) /\ (ok => Same(s))
  <2> HIDE DEF moved, phys
  <2>1. s = clreol(moved, w1)
    BY <1>7 DEF s
  <2> DEFINE d == Doit(w0)
  <2>2. d \in {-1, 0, 1} /\ (w0.direct => d = 1)
    BY <1>2, DoitOk
  <2>3. g \in [Cells -> Shown] /\ Blank \in [Cells -> Shown] /\ Blank \in [Cells -> Chars]
    BY <1>2, BlankOk, CharFacts
  <2>4. RowsUp(g) \in [Cells -> Chars] /\ RowsDown(g, Blank) \in [Cells -> Chars]
    BY <1>2, <2>3, ShiftOk
  <2> HIDE DEF d
  <2>5. Kept(r.s, moved) /\ Titled(moved, w0.y1) /\ (ok => Same(moved))
    <3>1. CASE dir = "up"
      <4>1. moved = PaintRows(r.s, w0.sy1, w0.sy2 - 1, FALSE, RowsUp(g), d)
        BY <3>1 DEF moved, d
      <4>2. w0.sy1 \in 0 .. LINES /\ w0.sy2 - 1 \in -1 .. LINES - 1
        BY <1>2 DEF YS
      <4>3. RowsDone(r.s, moved, w0.sy1, w0.sy2 - 1, RowsUp(g), d)
        BY <1>2, <2>2, <2>4, <4>1, <4>2, PaintRowsOk
      <4>4. ASSUME NEW p \in Cells, p[2] \in w0.sy1 .. (w0.sy2 - 1) PROVE RowsUp(g)[p] # Title
        <5>1. p[2] # LINES - 1 /\ <<p[1], p[2] + 1>> \in Cells /\ ~(p[2] + 1 < w0.y1)
          BY <1>2, <4>4 DEF Cells, YS
        <5>2. g[<<p[1], p[2] + 1>>] # Title
          BY <5>1 DEF Titled
        <5> QED BY <5>1, <5>2 DEF RowsUp
      <4>5. Titled(moved, w0.y1)
        <5>1. moved \in Ttys /\ RowsInImage(r.s, moved, w0.sy1, w0.sy2 - 1, RowsUp(g), d)
          BY <4>3 DEF RowsDone, Kept
        <5>2. w0.sy1 \in Int /\ w0.sy2 - 1 \in Int
          BY <1>2 DEF YS
        <5> QED BY <1>2, <4>4, <5>1, <5>2, TitledRows
      <4> QED BY <2>2, <4>3, <4>5 DEF RowsDone, Same
    <3>2. CASE dir = "down"
      <4>1. moved = PaintRows(r.s, w0.sy1 + 1, w0.sy2, TRUE, RowsDown(g, Blank), d)
        BY <3>2 DEF moved, d
      <4>2. w0.sy1 + 1 \in 0 .. LINES /\ w0.sy2 \in -1 .. LINES - 1
        BY <1>2 DEF YS
      <4>3. RowsDone(r.s, moved, w0.sy1 + 1, w0.sy2, RowsDown(g, Blank), d)
        BY <1>2, <2>2, <2>4, <4>1, <4>2, PaintRowsOk
      <4>4. ASSUME NEW p \in Cells, p[2] \in (w0.sy1 + 1) .. w0.sy2 PROVE RowsDown(g, Blank)[p] # Title
        <5>1. p[2] # 0 /\ <<p[1], p[2] - 1>> \in Cells /\ ~(p[2] - 1 < w0.y1)
          BY <1>2, <4>4 DEF Cells, YS
        <5>2. g[<<p[1], p[2] - 1>>] # Title
          BY <5>1 DEF Titled
        <5> QED BY <5>1, <5>2 DEF RowsDown
      <4>5. Titled(moved, w0.y1)
        <5>1. moved \in Ttys /\ RowsInImage(r.s, moved, w0.sy1 + 1, w0.sy2, RowsDown(g, Blank), d)
          BY <4>3 DEF RowsDone, Kept
        <5>2. w0.sy1 + 1 \in Int /\ w0.sy2 \in Int /\ w0.y1 <= w0.sy1 + 1
          BY <1>2 DEF YS
        <5> QED BY <1>2, <4>4, <5>1, <5>2, TitledRows
      <4> QED BY <2>2, <4>3, <4>5 DEF RowsDone, Same
    <3> QED BY <3>1, <3>2
  <2>6. moved \in Ttys /\ Titled(moved, w1.y1) /\ Ready(moved, w1.curx, w1.y1 + w1.cury)
    BY <1>5, <2>5, ReadyFirst DEF Kept, Fixed
  <2>7. Kept(moved, s) /\ Titled(s, w1.y1) /\ (w1.direct /\ Same(moved) => Same(s))
    BY <1>5, <2>1, <2>6, ClreolOk
  <2>8. Kept(r.s, s) /\ Titled(s, w0.y1)
    BY <1>5, <2>5, <2>7 DEF Kept, Fixed
  <2>9. ok => Same(s)
    BY <1>5, <2>5, <2>7 DEF Fixed
  <2> QED BY <2>8, <2>9
<1>8. Kept(r.s, s) /\ Titled(s, w0.y1) /\ (ok => Same(s))
  BY <1>6, <1>7
<1>9. s \in Ttys
  BY <1>8 DEF Kept
<1> DEFINE t == GotoCursor(s, w)
<1>10. /\ Kept(s, t) /\ t.g = s.g /\ (w.direct /\ Same(s) => Same(t) /\ Ready(t, w.curx, w.y1 + w.cury))
  BY <1>5, <1>9, GotoCursorOk
<1> HIDE DEF t, ok
<1>11. q.w = w /\ (intern => q.s = s) /\ (~intern => q.s = t) /\ q = [s |-> q.s, w |-> w]
  BY <1>1 DEF t
<1>12. Kept(r.s, q.s) /\ Titled(q.s, w0.y1) /\ (ok => Same(q.s))
  <2>1. Kept(r.s, t) /\ Titled(t, w0.y1) /\ (ok => Same(t))
    BY <1>5, <1>8, <1>10 DEF Kept, Titled, Fixed, ok
  <2> QED BY <1>8, <1>11, <2>1
<1>13. Does(r, q)
  <2>1. q \in Pairs
    BY <1>5, <1>11, <1>12 DEF Pairs, Kept, WinOk, RegionOk
  <2> QED BY <1>5, <1>11, <1>12, <2>1 DEF Does, Fine, Fixed
<1>14. ok /\ ~intern => Shows(q)
  BY <1>5, <1>8, <1>10, <1>11, <1>12 DEF Shows, Fixed, ok
<1> QED BY <1>5, <1>11, <1>12, <1>13, <1>14 DEF ScrollDone, q, ok

(* The next row, of vtty_wputc.                                            *)
RowDoneNext(r, q) ==
  /\ Does(r, q) /\ q.w.curx = 0
  /\ r.w.direct /\ Same(r.s) => Same(q.s)
  /\ ~r.w.doscroll => q.s = r.s

LEMMA NextRowOk ==
  ASSUME NEW r, Fine(r)
  PROVE  RowDoneNext(r, NextRow(r))
<1> USE SizesOk
<1> DEFINE cy == r.w.cury + 1
           w == [r.w EXCEPT !.curx = 0, !.cury = @ + 1]
           ra == [r EXCEPT !.w = w]
           wb == [w EXCEPT !.cury = w.sy1 - w.y1]
           r1 == IF w.cury # w.sy2 - w.y1 + 1 THEN ra
                 ELSE IF w.doscroll THEN vtty_wscroll(ra, "up", FALSE)
                 ELSE [r EXCEPT !.w = wb]
           ny == IF r1.w.cury >= Ys(w) THEN Ys(w) - 1 ELSE r1.w.cury
           q == NextRow(r)
<1>1. r \in Pairs /\ WinOk(r.w) /\ RegionOk(r.w) /\ Titled(r.s, r.w.y1) /\ r.s \in Ttys
  BY PairFields DEF Fine, WinOk
<1>2. /\ r.w \in Wins /\ r.w.y1 + r.w.cury <= r.w.y2 /\ r.w.y1 \in YS /\ r.w.y2 \in YS /\ r.w.sy1 \in YS
      /\ r.w.y1 <= r.w.sy1 /\ r.w.sy1 <= r.w.y2 /\ r.w.cury \in 0 .. LINES /\ Ys(r.w) \in Nat /\ Ys(r.w) > 0
      /\ r.w.doscroll \in BOOLEAN
  BY <1>1, CursorRow, WinFields DEF WinOk, RegionOk
<1>3. q = [r1 EXCEPT !.w.cury = IF @ >= Ys(w) THEN Ys(w) - 1 ELSE @]
  BY Zenon DEF NextRow
<1>4. cy \in 0 .. LINES /\ 0 \in 0 .. COLS
  BY <1>2 DEF YS
<1>5. Moved(r.w, w, 0, cy)
  <2>1. w = [r.w EXCEPT !.curx = 0, !.cury = cy]
    BY <1>2 DEF Wins
  <2> HIDE DEF w
  <2> HIDE DEF cy
  <2> QED BY <1>1, <1>4, <2>1, WinAt
<1> HIDE DEF q, cy, w
<1>6. RegionOk(w) /\ Fixed(r.w, w) /\ w.curx = 0 /\ w.cury = cy /\ Ys(w) = Ys(r.w) /\ w \in Wins
  BY <1>5 DEF Moved, Ys, Fixed, RegionOk
<1>7. ra \in Pairs /\ ra.s = r.s /\ ra.w = w /\ Titled(ra.s, ra.w.y1)
  BY <1>1, <1>6 DEF Pairs, Fixed
<1>8. wb \in Wins /\ RegionOk(wb) /\ Fixed(r.w, wb) /\ wb.curx = 0
  <2>1. w.sy1 - w.y1 \in 0 .. LINES /\ w.curx \in 0 .. COLS
    BY <1>2, <1>4, <1>6 DEF Fixed, YS
  <2> DEFINE k == w.sy1 - w.y1
  <2> HIDE DEF k
  <2>2. wb = [w EXCEPT !.curx = w.curx, !.cury = k]
    BY <1>6 DEF Wins, k
  <2>3. Moved(w, wb, w.curx, k)
    BY <1>6, <2>1, <2>2, WinAt DEF k
  <2> QED BY <1>6, <2>3 DEF Moved, Fixed, RegionOk
<1>9. /\ r1 \in Pairs /\ RegionOk(r1.w) /\ Fixed(r.w, r1.w) /\ Kept(r.s, r1.s) /\ Titled(r1.s, r.w.y1) /\ r1.w.curx = 0
      /\ r.w.direct /\ Same(r.s) => Same(r1.s)
      /\ ~r.w.doscroll => r1.s = r.s
  <2>1. CASE w.cury # w.sy2 - w.y1 + 1
    <3>1. r1 = ra
      BY <2>1
    <3> HIDE DEF r1, ra
    <3> QED BY <1>1, <1>6, <1>7, <3>1 DEF Kept, Fixed
  <2>2. CASE w.cury = w.sy2 - w.y1 + 1 /\ w.doscroll
    <3>1. r1 = vtty_wscroll(ra, "up", FALSE)
      BY <2>2
    <3> HIDE DEF r1, ra
    <3>2. ScrollDone(ra, r1, "up", FALSE)
      BY <1>6, <1>7, <3>1, Wscroll
    <3>3. Does(ra, r1) /\ r1.w.curx = 0 /\ (w.direct /\ Same(r.s) => Same(r1.s))
      BY <1>6, <1>7, <3>2 DEF ScrollDone
    <3> QED BY <1>6, <1>7, <2>2, <3>3 DEF Does, Fine, Fixed, WinOk, Kept
  <2>3. CASE w.cury = w.sy2 - w.y1 + 1 /\ ~w.doscroll
    <3>1. r1 = [r EXCEPT !.w = wb]
      BY <2>3
    <3>2. r1.w = wb /\ r1.s = r.s /\ r1 \in Pairs
      BY <1>1, <1>8, <3>1 DEF Pairs
    <3> HIDE DEF r1, wb
    <3> QED BY <1>1, <1>8, <3>2 DEF Kept, Fixed
  <2> QED BY <2>1, <2>2, <2>3
<1> HIDE DEF r1
<1>10. ny \in 0 .. LINES /\ r.w.y1 + ny <= r.w.y2 /\ r1.w \in Wins /\ r1.s \in Ttys
  <2>1. r1.w.cury \in 0 .. LINES /\ r1.w \in Wins /\ r1.s \in Ttys
    BY <1>9, PairFields, WinFields
  <2> QED BY <1>2, <1>6, <2>1 DEF Ys, YS
<1> HIDE DEF ny
<1> DEFINE v == [r1.w EXCEPT !.curx = 0, !.cury = ny]
<1>11. q = [s |-> r1.s, w |-> v]
  <2>1. q = [r1 EXCEPT !.w = [r1.w EXCEPT !.cury = ny]]
    BY <1>3, <1>9, <1>10 DEF Pairs, Wins, ny
  <2>2. [r1.w EXCEPT !.cury = ny] = v
    BY <1>9, <1>10 DEF Wins
  <2> HIDE DEF v
  <2> QED BY <1>9, <2>1, <2>2 DEF Pairs
<1>12. Moved(r1.w, v, 0, ny)
  BY <1>4, <1>9, <1>10, WinAt
<1> HIDE DEF v
<1>13. WinOk(v) /\ Fixed(r.w, v) /\ v.curx = 0 /\ v \in Wins
  BY <1>9, <1>10, <1>12 DEF Moved, Fixed, RegionOk
<1>14. q.s = r1.s /\ q.w = v /\ q \in Pairs
  BY <1>10, <1>11, <1>13 DEF Pairs
<1>15. Does(r, q)
  BY <1>9, <1>13, <1>14 DEF Does, Fine, Fixed
<1> QED BY <1>9, <1>13, <1>14, <1>15 DEF RowDoneNext, q

(* A character is put into the window, as PutHere does it.                 *)
InMemory(s, t, w) ==
  /\ t.cy = s.cy /\ t.m = s.m /\ t.last = s.last /\ t.dx = s.dx /\ t.dy = s.dy
  /\ t.cx = s.cx \/ (t.cx = 0 /\ ~w.wrap)
  /\ \A p \in Cells : p[2] \notin w.y1 .. w.y2 => t.g[p] = s.g[p]

(* The last column when the window does not wrap: the library believes in  *)
(* column 0, until it moves.                                               *)
AtEdge(w) == w.curx + 1 >= COLS /\ ~w.wrap

PutDone(r, q) ==
  /\ Does(r, q)
  /\ r.w.direct /\ Shows(r) /\ r.w.curx < COLS =>
       /\ q.s.on => q.s.m = q.s.g
       /\ ~AtEdge(r.w) => Shows(q)
       /\ AtEdge(r.w) => q.s.cx = 0 /\ q.w = r.w
  /\ ~r.w.direct => InMemory(r.s, q.s, r.w)
  /\ ~AtEdge(r.w) => q.w = [r.w EXCEPT !.curx = r.w.curx + 1]

LEMMA PutHereOk ==
  ASSUME NEW r, Fine(r), r.w.wrap => r.w.curx < COLS, NEW c \in Chars, c # Title
  PROVE  PutDone(r, PutHere(r, c))
<1> USE SizesOk
<1> DEFINE w == r.w
           y == w.y1 + w.cury
           d == Doit(w)
           k == IF ~w.wrap /\ w.curx >= COLS THEN ">" ELSE c
           s == write(r.s, k, d, w.curx, y)
           z == [s EXCEPT !.cx = 0]
           v == [w EXCEPT !.curx = w.curx + 1]
           q == PutHere(r, c)
<1>1. r \in Pairs /\ WinOk(w) /\ RegionOk(w) /\ Titled(r.s, w.y1) /\ r.s \in Ttys /\ w \in Wins
  BY PairFields DEF Fine, WinOk
<1>2. /\ w.curx \in 0 .. COLS /\ w.cury \in 0 .. LINES /\ w.wrap \in BOOLEAN /\ w.direct \in BOOLEAN
      /\ w.y1 \in YS /\ w.y2 \in YS /\ y \in YS /\ w.y1 <= y /\ y <= w.y2
  BY <1>1, WinFields, CursorRow
<1>3. q = IF w.curx + 1 >= COLS /\ ~w.wrap THEN [s |-> z, w |-> w] ELSE [s |-> s, w |-> v]
  BY <1>1, Zenon DEF PutHere
<1>4. k \in Chars /\ k # Title /\ d \in {-1, 0, 1} /\ (w.direct => d = 1) /\ (~w.direct => d = 0)
  BY <1>1, DoitOk, CharFacts
<1> HIDE DEF k, d, s, q, y
<1>5. /\ Kept(r.s, s) /\ Titled(s, w.y1)
      /\ d = 0 => Unsent(r.s, s)
      /\ \A p \in Cells : p[2] \notin w.y1 .. w.y2 => s.g[p] = r.s.g[p]
      /\ d = 1 /\ Shows(r) /\ w.curx < COLS => Same(s) /\ \A x0, y0 : Ready(s, x0, y0)
  <2>1. CASE w.curx < COLS
    <3>1. w.curx \in XS
      BY <1>2, <2>1 DEF XS
    <3>2. WriteOk(r.s, s, k, d, w.curx, y)
      BY <1>1, <1>2, <1>4, <3>1, Write DEF s
    <3>3. Kept(r.s, s) /\ (d = 0 => Unsent(r.s, s))
      BY <3>2 DEF WriteOk, Kept, Unsent
    <3>4. \A p \in Cells : s.g[p] = r.s.g[p] \/ (p[2] = y /\ s.g[p] = k)
      BY <1>1, <1>4, <3>2, TtyFields DEF WriteOk
    <3>5. Titled(s, w.y1)
      BY <1>1, <1>2, <1>4, <3>4 DEF Titled, YS
    <3>6. \A p \in Cells : p[2] \notin w.y1 .. w.y2 => s.g[p] = r.s.g[p]
      BY <1>2, <3>4 DEF YS
    <3>7. ASSUME d = 1, Shows(r) PROVE Same(s) /\ \A x0, y0 : Ready(s, x0, y0)
      <4>1. Sync(r.s) /\ Ready(r.s, w.curx, y) /\ (r.s.on => r.s.m = r.s.g)
        BY <3>7 DEF Shows, Same, y
      <4>2. /\ s.on = r.s.on /\ s.g = [r.s.g EXCEPT ![<<w.curx, y>>] = k]
            /\ r.s.on => s.m = [r.s.m EXCEPT ![<<w.curx, y>>] = k]
            /\ Sync(s) /\ \A x0, y0 : Ready(s, x0, y0)
        BY <3>2, <3>7, <4>1 DEF WriteOk
      <4> QED BY <4>1, <4>2 DEF Same
    <3> QED BY <3>3, <3>5, <3>6, <3>7
  <2>2. CASE ~(w.curx < COLS)
    <3>1. s = r.s
      BY <1>2, <2>2 DEF s, write
    <3> QED BY <1>1, <2>2, <3>1 DEF Kept, Unsent
  <2> QED BY <2>1, <2>2
<1>6. s \in Ttys
  BY <1>5 DEF Kept
<1>7. CASE AtEdge(w)
  <2>1. q = [s |-> z, w |-> w]
    BY <1>3, <1>7 DEF AtEdge
  <2>2. /\ z \in Ttys /\ z.g = s.g /\ z.m = s.m /\ z.on = s.on /\ z.saved = s.saved /\ z.cx = 0
        /\ z.cy = s.cy /\ z.dx = s.dx /\ z.dy = s.dy /\ z.last = s.last
    BY <1>6 DEF Ttys
  <2> HIDE DEF z
  <2>3. q.s = z /\ q.w = w /\ q \in Pairs
    BY <1>1, <2>1, <2>2 DEF Pairs
  <2>4. Does(r, q)
    BY <1>1, <1>5, <2>2, <2>3 DEF Does, Fine, Kept, Titled, Fixed
  <2>5. ~w.direct => InMemory(r.s, q.s, w)
    BY <1>4, <1>5, <1>7, <2>2, <2>3 DEF InMemory, Unsent, AtEdge
  <2>6. w.direct /\ Shows(r) /\ w.curx < COLS => (q.s.on => q.s.m = q.s.g)
    BY <1>4, <1>5, <2>2, <2>3 DEF Same
  <2> QED BY <1>7, <2>2, <2>3, <2>4, <2>5, <2>6 DEF PutDone, q
<1>8. CASE ~AtEdge(w)
  <2>1. q = [s |-> s, w |-> v]
    BY <1>3, <1>8 DEF AtEdge
  <2>2. w.curx + 1 \in 0 .. COLS /\ w.curx < COLS
    BY <1>2, <1>8 DEF AtEdge
  <2>3. v = [w EXCEPT !.curx = w.curx + 1, !.cury = w.cury]
    BY <1>1 DEF Wins
  <2> DEFINE nx == w.curx + 1
  <2>4. Moved(w, v, nx, w.cury)
    <3> HIDE DEF v, nx
    <3> QED BY <1>1, <1>2, <2>2, <2>3, WinAt DEF nx
  <2>45. v = [r.w EXCEPT !.curx = r.w.curx + 1]
    OBVIOUS
  <2> HIDE DEF v, nx
  <2>5. WinOk(v) /\ Fixed(w, v) /\ v \in Wins
    BY <1>1, <2>4 DEF Moved, WinOk, RegionOk
  <2>6. q.s = s /\ q.w = v /\ q \in Pairs
    BY <1>6, <2>1, <2>5 DEF Pairs
  <2>7. Does(r, q)
    BY <1>1, <1>5, <2>5, <2>6 DEF Does, Fine, Kept, Titled, Fixed
  <2>8. ~w.direct => InMemory(r.s, q.s, w)
    BY <1>4, <1>5, <2>6 DEF InMemory, Unsent
  <2>9. w.direct /\ Shows(r) => Shows(q)
    BY <1>4, <1>5, <2>2, <2>6 DEF Shows
  <2>10. Shows(q) => (q.s.on => q.s.m = q.s.g)
    BY DEF Shows, Same
  <2> QED BY <1>8, <2>45, <2>6, <2>7, <2>8, <2>9, <2>10 DEF PutDone, q
<1> QED BY <1>7, <1>8

(* The cursor goes to where the window has it.                             *)
MoveDone(r, q) ==
  /\ Does(r, q) /\ q.w = r.w
  /\ r.w.direct /\ Same(r.s) => Shows(q)
  /\ ~r.w.direct => q = r
  /\ r.w.direct /\ (r.s.on => r.s.m = r.s.g) /\ r.s.cx # r.w.curx /\ r.w.curx < COLS => Shows(q)

LEMMA PutMovedOk ==
  ASSUME NEW r, Fine(r)
  PROVE  MoveDone(r, PutMoved(r))
<1> USE SizesOk
<1> DEFINE w == r.w
           y == w.y1 + w.cury
           t == GotoCursor(r.s, w)
           q == PutMoved(r)
<1>1. r \in Pairs /\ WinOk(w) /\ Titled(r.s, w.y1) /\ r.s \in Ttys /\ w \in Wins /\ r = [s |-> r.s, w |-> w]
  BY PairFields DEF Fine
<1>2. y \in YS /\ w.curx \in Nat /\ w.direct \in BOOLEAN
  BY <1>1, CursorRow, WinFields
<1>3. /\ Kept(r.s, t) /\ t.g = r.s.g /\ t.m = r.s.m
      /\ w.direct /\ Same(r.s) => Same(t) /\ Ready(t, w.curx, y)
      /\ ~w.direct => t = r.s
  BY <1>1, GotoCursorOk
<1>4. ASSUME w.direct, r.s.on => r.s.m = r.s.g, r.s.cx # w.curx, w.curx < COLS
      PROVE  Same(t) /\ Ready(t, w.curx, y)
  <2>1. t = gotoxy(r.s, w.curx, y)
    BY <1>4 DEF GotoCursor
  <2> HIDE DEF t, y
  <2>2. t.on = r.s.on /\ t.cx = w.curx /\ t.cy = y /\ (r.s.on => t.dx = w.curx /\ t.dy = y)
    BY <1>1, <1>2, <1>4, <2>1, Gotoxy
  <2> QED BY <1>3, <1>4, <2>2 DEF Same, Sync, Ready
<1>5. q = [s |-> t, w |-> w]
  BY <1>1 DEF PutMoved, Pairs
<1> HIDE DEF t, q, y
<1>6. q.s = t /\ q.w = w /\ q \in Pairs
  BY <1>1, <1>3, <1>5 DEF Pairs, Kept
<1>7. Does(r, q)
  BY <1>1, <1>3, <1>6 DEF Does, Fine, Titled, Fixed
<1>8. ~w.direct => q = r
  BY <1>1, <1>3, <1>5
<1>9. Same(t) /\ Ready(t, w.curx, y) => Shows(q)
  BY <1>6 DEF Shows, y
<1> QED BY <1>3, <1>4, <1>6, <1>7, <1>8, <1>9 DEF MoveDone, q

LEMMA DoesTwice ==
  ASSUME NEW a, NEW b, NEW c, Does(a, b), Does(b, c)
  PROVE  Does(a, c)
  BY DEF Does, Kept, Fixed

(* vtty_wputc of a character.                                              *)
PutCharDone(r, q) ==
  /\ Does(r, q)
  /\ r.w.direct /\ Shows(r) /\ ~(~r.w.wrap /\ r.w.curx >= COLS) => Shows(q)
  /\ ~r.w.direct /\ ~r.w.doscroll => InMemory(r.s, q.s, r.w)
  /\ r.w.curx < COLS - 1 => q.w = [r.w EXCEPT !.curx = r.w.curx + 1]

LEMMA PutCharOk ==
  ASSUME NEW r, Fine(r), NEW c \in Chars, c # Title
  PROVE  PutCharDone(r, PutChar(r, c))
<1> USE SizesOk
<1> DEFINE w == r.w
           wraps == w.curx >= COLS /\ w.wrap
           r0 == IF wraps THEN NextRow(r) ELSE r
           r1 == PutHere(r0, c)
           q == PutChar(r, c)
<1>1. q = IF wraps \/ AtEdge(w) THEN PutMoved(r1) ELSE r1
  BY Zenon DEF PutChar, AtEdge
<1>2. w.curx \in 0 .. COLS /\ w.wrap \in BOOLEAN /\ w.direct \in BOOLEAN /\ r.s \in Ttys
  BY PairFields, WinFields DEF Fine
<1>3. ASSUME wraps PROVE PutCharDone(r, q)
  <2>1. RowDoneNext(r, r0)
    BY <1>3, NextRowOk
  <2> HIDE DEF r0
  <2>2. /\ Does(r, r0) /\ Fine(r0) /\ r0.w.curx = 0 /\ r0.s \in Ttys /\ Fixed(w, r0.w)
        /\ (w.direct /\ Same(r.s) => Same(r0.s)) /\ (~w.doscroll => r0.s = r.s)
    BY <2>1, PairFields DEF RowDoneNext, Does, Fine
  <2>3. w.direct /\ Same(r.s) => Shows(r0)
    BY <2>2, ReadyFirst DEF Shows
  <2>4. PutDone(r0, r1) /\ ~AtEdge(r0.w)
    BY <2>2, PutHereOk DEF AtEdge
  <2> HIDE DEF r1
  <2>5. Does(r0, r1) /\ Fine(r1) /\ (r0.w.direct /\ Shows(r0) => Shows(r1)) /\ (~r0.w.direct => InMemory(r0.s, r1.s, r0.w))
    BY <2>2, <2>4 DEF PutDone, Does
  <2>6. q = PutMoved(r1)
    BY <1>1, <1>3
  <2> HIDE DEF q
  <2>7. MoveDone(r1, q)
    BY <2>5, <2>6, PutMovedOk
  <2>8. Does(r, q)
    BY <2>2, <2>5, <2>7, DoesTwice DEF MoveDone
  <2>9. r0.w.direct = w.direct /\ r1.w.direct = w.direct /\ r0.w.wrap = w.wrap /\ r0.w.y1 = w.y1 /\ r0.w.y2 = w.y2
    BY <2>2, <2>5 DEF Does, Fixed
  <2>10. w.direct /\ Shows(r) => Shows(q)
    BY <2>3, <2>5, <2>7, <2>9 DEF MoveDone, Shows
  <2>11. ~w.direct /\ ~w.doscroll => InMemory(r.s, q.s, w)
    BY <2>2, <2>5, <2>7, <2>9 DEF MoveDone, InMemory
  <2> QED BY <1>2, <1>3, <2>8, <2>10, <2>11 DEF PutCharDone
<1>4. ASSUME ~wraps PROVE PutCharDone(r, q)
  <2>1. r0 = r
    BY <1>4
  <2>2. PutDone(r, r1)
    BY <1>2, <1>4, <2>1, PutHereOk
  <2> HIDE DEF r0, r1
  <2>3. Does(r, r1) /\ Fine(r1) /\ (~w.direct => InMemory(r.s, r1.s, w)) /\ Fixed(w, r1.w)
    BY <2>2 DEF PutDone, Does
  <2>4. CASE AtEdge(w)
    <3>1. q = PutMoved(r1) /\ ~(w.curx < COLS - 1)
      BY <1>1, <1>2, <2>4 DEF AtEdge
    <3> HIDE DEF q
    <3>2. MoveDone(r1, q)
      BY <2>3, <3>1, PutMovedOk
    <3>3. Does(r, q)
      BY <2>3, <3>2, DoesTwice DEF MoveDone
    <3>4. ASSUME w.direct, Shows(r), w.curx < COLS PROVE Shows(q)
      <4>1. (r1.s.on => r1.s.m = r1.s.g) /\ r1.s.cx = 0 /\ r1.w = w
        BY <2>2, <2>4, <3>4 DEF PutDone
      <4>2. w.curx = COLS - 1 /\ w.curx # 0
        BY <1>2, <2>4, <3>4 DEF AtEdge
      <4> QED BY <3>2, <3>4, <4>1, <4>2 DEF MoveDone
    <3>5. ~w.direct => InMemory(r.s, q.s, w)
      BY <2>3, <3>2 DEF MoveDone, Fixed
    <3> QED BY <1>2, <2>4, <3>1, <3>3, <3>4, <3>5 DEF PutCharDone, AtEdge
  <2>5. CASE ~AtEdge(w)
    <3>1. q = r1
      BY <1>1, <1>4, <2>5
    <3>2. w.curx < COLS
      BY <1>2, <1>4, <2>5 DEF AtEdge
    <3> QED BY <2>2, <2>3, <2>5, <3>1, <3>2 DEF PutCharDone, PutDone
  <2> QED BY <2>4, <2>5
<1> QED BY <1>3, <1>4

(* Characters in a loop: a tab, and a row of the test screen.              *)
FinePairs == {r \in Pairs : Fine(r)}
CharStates(r, c, n, a) ==
  /\ a \in [0..n -> FinePairs] /\ a[0] = r
  /\ \A i \in 1..n : a[i] = PutChar(a[i - 1], c)
  /\ PutChars(r, c, n) = a[n]

LEMMA PutCharsLoop ==
  ASSUME NEW r, Fine(r), NEW c \in Chars, c # Title, NEW n \in Nat
  PROVE  \E a : CharStates(r, c, n, a)
<1> DEFINE Eq(a) == a = [i \in 0..n |-> IF i = 0 THEN r ELSE PutChar(a[i - 1], c)]
           a == CHOOSE a : Eq(a)
           G == [z \in (1..n) \X FinePairs |-> PutChar(z[2], c)]
<1>0. r \in FinePairs
  BY DEF FinePairs, Fine
<1>1. ASSUME NEW t \in FinePairs PROVE PutChar(t, c) \in FinePairs
  <2>1. Fine(t)
    BY DEF FinePairs
  <2>2. PutCharDone(t, PutChar(t, c))
    BY <2>1, PutCharOk
  <2> QED BY <2>2 DEF PutCharDone, Does, FinePairs, Fine
<1>2. PutChars(r, c, n) = a[n]
  BY Zenon DEF PutChars, Loop
<1>3. \A i \in 1..n, t \in FinePairs : G[<<i, t>>] = PutChar(t, c)
  OBVIOUS
<1>4. PICK b : States(FinePairs, r, G, n, b)
  <2>1. G \in [(1..n) \X FinePairs -> FinePairs]
    BY <1>1
  <2> HIDE DEF G
  <2> QED BY <2>1, <1>0, LoopExists
<1>5. Eq(b)
  <2> HIDE DEF G
  <2>1. ASSUME NEW i \in 0..n PROVE b[i] = (IF i = 0 THEN r ELSE PutChar(b[i - 1], c))
    <3>2. CASE i = 0
      BY <1>4, <3>2 DEF States
    <3>3. CASE i # 0
      <4>1. i \in 1..n /\ i - 1 \in 0..n
        BY <3>3
      <4>2. b[i] = G[<<i, b[i - 1]>>] /\ b[i - 1] \in FinePairs
        BY <1>4, <4>1 DEF States
      <4> QED BY <1>3, <3>3, <4>1, <4>2
    <3> QED BY <3>2, <3>3
  <2> QED BY <1>4, <2>1 DEF States
<1>6. Eq(a)
  <2> HIDE DEF Eq
  <2> QED BY <1>5, Zenon
<1> HIDE DEF a
<1>7. /\ a[0] = r /\ DOMAIN a = 0..n /\ a = [i \in 0..n |-> a[i]]
      /\ \A i \in 1..n : a[i] = PutChar(a[i - 1], c)
  BY <1>6
<1>8. \A i \in 0..n : a[i] \in FinePairs
  <2>1. ASSUME NEW i \in 1..n, a[i - 1] \in FinePairs PROVE a[i] \in FinePairs
    BY <1>1, <1>7, <2>1
  <2> QED BY <1>0, <1>7, <2>1, LoopStays
<1>9. a \in [0..n -> FinePairs]
  BY <1>7, <1>8
<1> QED BY <1>2, <1>7, <1>9 DEF CharStates

PutCharsDone(r, q) ==
  /\ Does(r, q)
  /\ r.w.direct /\ r.w.wrap /\ Shows(r) => Shows(q)
  /\ ~r.w.direct /\ ~r.w.doscroll => InMemory(r.s, q.s, r.w)

LEMMA DoesSelf == \A r : Fine(r) => Does(r, r)
  BY PairFields DEF Does, Fine, Kept, Fixed

LEMMA InMemoryTwice ==
  ASSUME NEW s, NEW t, NEW u, NEW w, NEW v, Fixed(w, v), InMemory(s, t, w), InMemory(t, u, v)
  PROVE  InMemory(s, u, w)
  BY DEF InMemory, Fixed

LEMMA PutCharsOk ==
  ASSUME NEW r, Fine(r), NEW c \in Chars, c # Title, NEW n \in Nat
  PROVE  PutCharsDone(r, PutChars(r, c, n))
<1> DEFINE X == {u \in FinePairs : PutCharsDone(r, u)}
<1>1. PICK a : CharStates(r, c, n, a)
  BY PutCharsLoop
<1>2. /\ a \in [0..n -> FinePairs] /\ a[0] = r /\ PutChars(r, c, n) = a[n]
      /\ \A i \in 1..n : a[i] = PutChar(a[i - 1], c)
  BY <1>1 DEF CharStates
<1>3. a[0] \in X
  <2>1. PutCharsDone(r, r)
    BY DoesSelf DEF PutCharsDone, InMemory
  <2> QED BY <1>2, <2>1 DEF FinePairs, Fine
<1>4. ASSUME NEW i \in 1..n, a[i - 1] \in X PROVE a[i] \in X
  <2> DEFINE b == a[i - 1]
             d == a[i]
  <2>1. Fine(b) /\ PutCharsDone(r, b) /\ d = PutChar(b, c)
    BY <1>2, <1>4 DEF FinePairs
  <2> HIDE DEF b, d
  <2>2. PutCharDone(b, d)
    BY <2>1, PutCharOk
  <2>3. Does(r, d) /\ Does(r, b) /\ Fixed(r.w, b.w)
    BY <2>1, <2>2, DoesTwice DEF PutCharsDone, PutCharDone, Does
  <2>4. b.w.direct = r.w.direct /\ b.w.wrap = r.w.wrap /\ b.w.doscroll = r.w.doscroll
    BY <2>3 DEF Fixed
  <2>5. r.w.direct /\ r.w.wrap /\ Shows(r) => Shows(d)
    BY <2>1, <2>2, <2>4 DEF PutCharsDone, PutCharDone
  <2>6. ASSUME ~r.w.direct, ~r.w.doscroll PROVE InMemory(r.s, d.s, r.w)
    <3>1. InMemory(r.s, b.s, r.w) /\ InMemory(b.s, d.s, b.w)
      BY <2>1, <2>2, <2>4, <2>6 DEF PutCharsDone, PutCharDone
    <3> QED BY <2>3, <3>1, InMemoryTwice
  <2>7. PutCharsDone(r, d)
    BY <2>3, <2>5, <2>6 DEF PutCharsDone
  <2>8. d \in FinePairs
    BY <1>2 DEF d
  <2> QED BY <2>7, <2>8 DEF d
<1>5. \A i \in 0..n : a[i] \in X
  <2> HIDE DEF X
  <2> QED BY <1>3, <1>4, LoopStays
<1> QED BY <1>2, <1>5

(* vtty_wputc.                                                             *)
WputcDone(r, q, c) ==
  /\ Does(r, q)
  /\ r.w.direct /\ Shows(r) /\ ~(c \in Printable /\ ~r.w.wrap /\ r.w.curx >= COLS)
       /\ (c = "HT" => r.w.wrap) => Shows(q)

LEMMA TabOk == \A x \in Nat : TabSize - (x % TabSize) \in Nat
  BY SizesOk

(* A window whose cursor has moved within the row.                         *)
LEMMA CursorX ==
  ASSUME NEW r, Fine(r), NEW x \in 0 .. COLS
  PROVE  LET q == [r EXCEPT !.w.curx = x] IN Does(r, q) /\ q.s = r.s /\ q.w.curx = x /\ q.w.cury = r.w.cury
<1> DEFINE v == [r.w EXCEPT !.curx = x, !.cury = r.w.cury]
           q == [r EXCEPT !.w.curx = x]
<1>1. r \in Pairs /\ WinOk(r.w) /\ RegionOk(r.w) /\ Titled(r.s, r.w.y1) /\ r.s \in Ttys /\ r.w \in Wins
  BY PairFields DEF Fine, WinOk
<1>2. q = [s |-> r.s, w |-> v]
  <2>1. [r.w EXCEPT !.curx = x] = v
    BY <1>1 DEF Wins
  <2>2. q = [r EXCEPT !.w = [r.w EXCEPT !.curx = x]]
    BY <1>1 DEF Pairs
  <2> HIDE DEF v, q
  <2> QED BY <1>1, <2>1, <2>2 DEF Pairs
<1>3. r.w.cury \in 0 .. LINES
  BY <1>1, WinFields
<1>4. Moved(r.w, v, x, r.w.cury)
  BY <1>1, <1>3, WinAt
<1> HIDE DEF v, q
<1>5. WinOk(v) /\ Fixed(r.w, v) /\ v \in Wins /\ v.curx = x /\ v.cury = r.w.cury
  BY <1>1, <1>4 DEF Moved, WinOk, RegionOk
<1>6. q.s = r.s /\ q.w = v /\ q \in Pairs
  BY <1>1, <1>2, <1>5 DEF Pairs
<1>7. Does(r, q)
  BY <1>1, <1>5, <1>6 DEF Does, Fine, Kept, Fixed
<1> QED BY <1>5, <1>6, <1>7 DEF q

LEMMA Wputc ==
  ASSUME NEW r, Fine(r), NEW c \in Printable \cup Control
  PROVE  WputcDone(r, vtty_wputc(r, c), c)
<1> USE SizesOk
<1> DEFINE q == vtty_wputc(r, c)
<1>1. r.w.curx \in 0 .. COLS /\ r.s \in Ttys
  BY PairFields, WinFields DEF Fine
<1>2. CASE c = "CR"
  <2> DEFINE a == [r EXCEPT !.w.curx = 0]
  <2>1. q = PutMoved(a)
    BY <1>2 DEF vtty_wputc
  <2>2. 0 \in 0 .. COLS
    OBVIOUS
  <2>3. Does(r, a) /\ a.s = r.s
    BY <2>2, CursorX
  <2> HIDE DEF a, q
  <2>4. MoveDone(a, q)
    BY <2>1, <2>3, PutMovedOk DEF Does
  <2>5. Does(r, q)
    BY <2>3, <2>4, DoesTwice DEF MoveDone
  <2>6. r.w.direct /\ Shows(r) => Shows(q)
    BY <2>3, <2>4 DEF MoveDone, Shows, Does, Fixed
  <2> QED BY <2>5, <2>6 DEF WputcDone, q
<1>3. CASE c = "BS"
  <2>1. CASE r.w.curx = 0
    <3>1. q = r
      BY <1>3, <2>1 DEF vtty_wputc
    <3> QED BY <3>1, DoesSelf DEF WputcDone
  <2>2. CASE r.w.curx # 0
    <3> DEFINE x == r.w.curx - 1
               a == [r EXCEPT !.w.curx = x]
    <3>1. q = PutMoved(a)
      <4>1. [r EXCEPT !.w.curx = @ - 1] = a
        BY PairFields DEF Fine, Wins, Pairs
      <4> HIDE DEF a
      <4> QED BY <1>3, <2>2, <4>1 DEF vtty_wputc
    <3>2. x \in 0 .. COLS
      BY <1>1, <2>2
    <3> HIDE DEF x
    <3>3. Does(r, a) /\ a.s = r.s
      BY <3>2, CursorX
    <3> HIDE DEF a, q
    <3>4. MoveDone(a, q)
      BY <3>1, <3>3, PutMovedOk DEF Does
    <3>5. Does(r, q)
      BY <3>3, <3>4, DoesTwice DEF MoveDone
    <3>6. r.w.direct /\ Shows(r) => Shows(q)
      BY <3>3, <3>4 DEF MoveDone, Shows, Does, Fixed
    <3> QED BY <3>5, <3>6 DEF WputcDone, q
  <2> QED BY <2>1, <2>2
<1>4. CASE c = "NL"
  <2> DEFINE a == NextRow(r)
  <2>1. q = PutMoved(a)
    BY <1>4 DEF vtty_wputc
  <2>2. RowDoneNext(r, a)
    BY NextRowOk
  <2> HIDE DEF a, q
  <2>3. Does(r, a) /\ Fine(a)
    BY <2>2 DEF RowDoneNext, Does
  <2>4. MoveDone(a, q)
    BY <2>1, <2>3, PutMovedOk
  <2>5. Does(r, q)
    BY <2>3, <2>4, DoesTwice DEF MoveDone
  <2>6. r.w.direct /\ Shows(r) => Shows(q)
    BY <2>2, <2>3, <2>4 DEF MoveDone, Shows, Does, Fixed, RowDoneNext
  <2> QED BY <2>5, <2>6 DEF WputcDone, q
<1>5. CASE c = "HT"
  <2> DEFINE n == TabSize - (r.w.curx % TabSize)
  <2>1. q = PutChars(r, " ", n)
    BY <1>5 DEF vtty_wputc
  <2>2. n \in Nat
    <3>1. r.w.curx \in Nat
      BY <1>1
    <3> QED BY <3>1, TabOk, Zenon
  <2> HIDE DEF n
  <2>3. PutCharsDone(r, q)
    BY <2>1, <2>2, CharFacts, PutCharsOk
  <2> QED BY <1>5, <2>3 DEF WputcDone, PutCharsDone
<1>6. CASE c \in Printable
  <2>1. c \in Chars /\ c # Title
    BY <1>6, CharFacts DEF Printable, Chars
  <2>2. q = PutChar(r, c)
    BY <1>6 DEF vtty_wputc, Printable, High
  <2>3. PutCharDone(r, q)
    BY <2>1, <2>2, PutCharOk
  <2> QED BY <1>6, <2>3 DEF WputcDone, PutCharDone
<1> QED BY <1>2, <1>3, <1>4, <1>5, <1>6 DEF Control

-----------------------------------------------------------------------------
(* Clearing.                                                               *)

(* An operation keeps the display right; the second form starts anywhere.  *)
Goes(r, q) == Does(r, q) /\ (r.w.direct /\ Shows(r) => Shows(q))
GoesAny(r, q) == Does(r, q) /\ (r.w.direct /\ Same(r.s) => Shows(q))

LEMMA AnyGoes == \A r, q : GoesAny(r, q) => Goes(r, q)
  BY DEF Goes, GoesAny, Shows

LEMMA FineFields ==
  ASSUME NEW r, Fine(r)
  PROVE  /\ r \in Pairs /\ r.s \in Ttys /\ r.w \in Wins /\ r = [s |-> r.s, w |-> r.w]
         /\ WinOk(r.w) /\ RegionOk(r.w) /\ Titled(r.s, r.w.y1)
         /\ r.w.y1 \in YS /\ r.w.y2 \in YS /\ r.w.sy1 \in YS /\ r.w.sy2 \in YS
         /\ r.w.curx \in 0 .. COLS /\ r.w.cury \in 0 .. LINES
         /\ r.w.wrap \in BOOLEAN /\ r.w.direct \in BOOLEAN /\ r.w.doscroll \in BOOLEAN
         /\ r.w.y1 + r.w.cury \in YS /\ r.w.y1 + r.w.cury <= r.w.y2
  BY PairFields, WinFields, CursorRow DEF Fine, WinOk

(* Another display for the same window.                                    *)
LEMMA NewDisplay ==
  ASSUME NEW r, Fine(r), NEW t, Kept(r.s, t), Titled(t, r.w.y1)
  PROVE  LET q == [r EXCEPT !.s = t] IN Does(r, q) /\ Fine(q) /\ q.s = t /\ q.w = r.w /\ q \in Pairs
<1> DEFINE q == [r EXCEPT !.s = t]
<1>1. q.s = t /\ q.w = r.w /\ q \in Pairs
  BY FineFields DEF Pairs, Kept
<1> HIDE DEF q
<1>2. Does(r, q)
  BY <1>1, FineFields DEF Does, Fine, Fixed
<1> QED BY <1>1, <1>2 DEF Does, q

(* A movement keeps the display right.                                     *)
GotoDone(s, t, x, y) ==
  /\ Kept(s, t) /\ t.g = s.g /\ t.m = s.m
  /\ Same(s) => Same(t) /\ (x < COLS => Ready(t, x, y))

LEMMA GotoLive ==
  ASSUME NEW s \in Ttys, NEW x \in Nat, NEW y \in YS
  PROVE  GotoDone(s, gotoxy(s, x, y), x, y)
  BY Gotoxy, GotoxySync DEF GotoDone, Kept, Same

(* vtty_wclrel, vtty_wclreol.                                              *)
LEMMA Wclrel ==
  ASSUME NEW r, Fine(r)
  PROVE  GoesAny(r, vtty_wclrel(r))
<1> USE SizesOk
<1> DEFINE v == [r.w EXCEPT !.curx = 0]
           t == clreol(r.s, v)
           a == [r EXCEPT !.s = t]
           q == vtty_wclrel(r)
<1>1. q = vtty_wlocate(a, r.w.curx, r.w.cury)
  <2>1. [r EXCEPT !.s = clreol(@, v)] = a
    BY FineFields DEF Pairs
  <2> HIDE DEF a
  <2> QED BY <2>1 DEF vtty_wclrel
<1>2. WinOk(v) /\ Fixed(r.w, v) /\ v.curx = 0
  <2>1. v = [r.w EXCEPT !.curx = 0, !.cury = r.w.cury]
    BY FineFields DEF Wins
  <2> HIDE DEF v
  <2>2. 0 \in 0 .. COLS /\ r.w.cury \in 0 .. LINES /\ RegionOk(r.w)
    BY FineFields
  <2>3. Moved(r.w, v, 0, r.w.cury)
    BY <2>1, <2>2, WinAt
  <2> QED BY <2>3, FineFields DEF Moved, WinOk
<1> HIDE DEF v
<1>3. Titled(r.s, v.y1) /\ Ready(r.s, v.curx, v.y1 + v.cury) /\ r.s \in Ttys
  BY <1>2, FineFields, ReadyFirst DEF Fixed
<1>4. Kept(r.s, t) /\ Titled(t, v.y1) /\ (v.direct /\ Same(r.s) => Same(t))
  BY <1>2, <1>3, ClreolOk
<1> HIDE DEF t
<1>5. Does(r, a) /\ Fine(a) /\ a.s = t /\ a.w = r.w
  BY <1>2, <1>4, NewDisplay DEF Fixed
<1> HIDE DEF a, q
<1>6. r.w.curx \in Int /\ r.w.cury \in Int
  BY FineFields
<1>7. Does(a, q) /\ (a.w.direct /\ Same(a.s) => Shows(q))
  BY <1>1, <1>5, <1>6, FineFields, Locates0
<1>8. Does(r, q)
  BY <1>5, <1>7, DoesTwice
<1>9. r.w.direct /\ Same(r.s) => Shows(q)
  BY <1>2, <1>4, <1>5, <1>7 DEF Fixed
<1> QED BY <1>8, <1>9 DEF GoesAny, q

LEMMA Wclreol ==
  ASSUME NEW r, Fine(r)
  PROVE  Goes(r, vtty_wclreol(r))
<1> DEFINE t == clreol(r.s, r.w)
           u == GotoCursor(t, r.w)
           q == [r EXCEPT !.s = u]
<1>1. vtty_wclreol(r) = q
  BY FineFields DEF vtty_wclreol, Pairs
<1>2. Kept(r.s, t) /\ Titled(t, r.w.y1) /\ t \in Ttys
      /\ (r.w.direct /\ Same(r.s) /\ Ready(r.s, r.w.curx, r.w.y1 + r.w.cury) => Same(t))
  BY FineFields, ClreolOk DEF Kept
<1> HIDE DEF t
<1>3. Kept(t, u) /\ u.g = t.g /\ (r.w.direct /\ Same(t) => Same(u) /\ Ready(u, r.w.curx, r.w.y1 + r.w.cury))
  BY <1>2, FineFields, GotoCursorOk
<1> HIDE DEF u
<1>4. Kept(r.s, u) /\ Titled(u, r.w.y1)
  BY <1>2, <1>3 DEF Kept, Titled
<1>5. Does(r, q) /\ q.s = u /\ q.w = r.w
  BY <1>4, NewDisplay
<1> HIDE DEF q
<1>6. r.w.direct /\ Shows(r) => Shows(q)
  BY <1>2, <1>3, <1>5 DEF Shows
<1> QED BY <1>1, <1>5, <1>6 DEF Goes

(* vtty_wclrbol.                                                           *)
LEMMA Wclrbol ==
  ASSUME NEW r, Fine(r)
  PROVE  GoesAny(r, vtty_wclrbol(r))
<1> USE SizesOk
<1> DEFINE w == r.w
           y == w.y1 + w.cury
           n == IF w.curx > COLS - 1 THEN COLS - 1 ELSE w.curx
           d == Doit(w)
           a == IF w.direct THEN gotoxy(r.s, 0, y) ELSE r.s
           b == PaintRow(a, 0, n, y, Blank, d)
           t == IF w.direct THEN gotoxy(b, n, y) ELSE b
           q == [r EXCEPT !.s = t]
<1>1. vtty_wclrbol(r) = q
  BY Zenon DEF vtty_wclrbol
<1>2. y \in YS /\ w.y1 \in YS /\ w.curx \in 0 .. COLS /\ n \in XS /\ n \in -1 .. COLS - 1 /\ n \in Nat /\ 0 \in 0 .. COLS
      /\ r.s \in Ttys /\ w.direct \in BOOLEAN /\ w.y1 <= y /\ (w.curx < COLS => n = w.curx)
  BY FineFields DEF XS, YS
<1>3. d \in {-1, 0, 1} /\ (w.direct => d = 1)
  BY FineFields, DoitOk
<1>4. n < COLS
  BY <1>2 DEF XS
<1>45. Titled(r.s, w.y1)
  BY FineFields
<1> HIDE DEF y, n, d
<1>5. Kept(r.s, a) /\ a.g = r.s.g /\ a.m = r.s.m /\ a \in Ttys /\ (Same(r.s) => Same(a))
  <2>1. CASE w.direct
    <3>1. GotoDone(r.s, a, 0, y)
      BY <1>2, <2>1, GotoLive
    <3> HIDE DEF a
    <3> QED BY <3>1 DEF GotoDone, Kept
  <2>2. CASE ~w.direct
    BY <1>2, <2>2 DEF Kept
  <2> QED BY <2>1, <2>2
<1> HIDE DEF a
<1>6. RowDone(a, b, 0, n, y, Blank, d)
  BY <1>2, <1>3, <1>5, BlankOk, PaintRowOk
<1> HIDE DEF b
<1>7. Kept(a, b) /\ RowInImage(a, b, 0, n, y, Blank, d) /\ b \in Ttys /\ (w.direct /\ Same(a) => Same(b))
  BY <1>2, <1>3, <1>5, <1>6, ReadyFirst DEF RowDone, Kept, Same
<1>8. Titled(a, w.y1)
  BY <1>5, <1>45 DEF Titled
<1>9. Titled(b, w.y1)
  <2>1. \A p \in Cells : p[2] = y => Blank[p] # Title
    BY BlankOk
  <2> QED BY <1>2, <1>5, <1>7, <1>8, <2>1, TitledRow
<1>10. Kept(b, t) /\ t.g = b.g /\ t.m = b.m /\ (w.direct /\ Same(b) => Same(t) /\ Ready(t, n, y))
  <2>1. CASE w.direct
    <3>1. GotoDone(b, t, n, y)
      BY <1>2, <1>7, <2>1, GotoLive
    <3> HIDE DEF t
    <3> QED BY <1>4, <3>1 DEF GotoDone
  <2>2. CASE ~w.direct
    BY <1>7, <2>2 DEF Kept
  <2> QED BY <1>2, <2>1, <2>2
<1> HIDE DEF t
<1>12. Kept(r.s, t) /\ Titled(t, r.w.y1)
  BY <1>5, <1>7, <1>9, <1>10 DEF Kept, Titled
<1>13. Does(r, q) /\ q.s = t /\ q.w = r.w
  BY <1>12, NewDisplay
<1> HIDE DEF q
<1>14. r.w.direct /\ Same(r.s) => Shows(q)
  <2>1. ~(w.curx < COLS) => Ready(t, w.curx, y)
    BY DEF Ready
  <2> QED BY <1>2, <1>5, <1>7, <1>10, <1>13, <2>1 DEF Shows, y
<1> QED BY <1>1, <1>13, <1>14 DEF GoesAny

(* Rows, or a part of one, painted inside the window.                      *)
RowsPainted(r, t, y1, y2) ==
  /\ Kept(r.s, t) /\ Titled(t, r.w.y1)
  /\ r.w.direct /\ Same(r.s) => /\ Same(t)
                                /\ y1 <= y2 => \A x0, y0 : Ready(t, x0, y0)
                                /\ y1 > y2 => t = r.s

LEMMA RowsInside ==
  ASSUME NEW r, Fine(r), NEW y1 \in 0..LINES, NEW y2 \in -1 .. LINES - 1, NEW back \in BOOLEAN,
         r.w.y1 <= y1
  PROVE  RowsPainted(r, PaintRows(r.s, y1, y2, back, Blank, Doit(r.w)), y1, y2)
<1> USE SizesOk
<1> DEFINE d == Doit(r.w)
           t == PaintRows(r.s, y1, y2, back, Blank, d)
<1>1. d \in {-1, 0, 1} /\ (r.w.direct => d = 1)
  BY FineFields, DoitOk
<1>2. r.s \in Ttys /\ r.w.y1 \in YS /\ Titled(r.s, r.w.y1)
  BY FineFields
<1> HIDE DEF d
<1>3. RowsDone(r.s, t, y1, y2, Blank, d)
  BY <1>1, <1>2, BlankOk, PaintRowsOk
<1> HIDE DEF t
<1>4. Kept(r.s, t) /\ t \in Ttys /\ RowsInImage(r.s, t, y1, y2, Blank, d)
  BY <1>3 DEF RowsDone, Kept
<1>5. Titled(t, r.w.y1)
  <2>1. \A p \in Cells : p[2] \in y1..y2 => Blank[p] # Title
    BY BlankOk
  <2>2. y1 \in Int /\ y2 \in Int
    OBVIOUS
  <2> QED BY <1>2, <1>4, <2>1, <2>2, TitledRows
<1>6. ASSUME r.w.direct, Same(r.s)
      PROVE  /\ Same(t)
             /\ y1 <= y2 => \A x0, y0 : Ready(t, x0, y0)
             /\ y1 > y2 => t = r.s
  BY <1>1, <1>3, <1>6 DEF RowsDone, Same
<1> QED BY <1>4, <1>5, <1>6 DEF RowsPainted, t, d

RowPainted(r, s, t, x1, x2, y) ==
  /\ Kept(r.s, t) /\ Titled(t, r.w.y1)
  /\ r.w.direct /\ Same(s) /\ Ready(s, x1, y) =>
       /\ Same(t)
       /\ x1 <= x2 => \A x0, y0 : Ready(t, x0, y0)
       /\ x1 > x2 => t = s

LEMMA RowInside ==
  ASSUME NEW r, Fine(r), NEW s, Kept(r.s, s), Titled(s, r.w.y1),
         NEW x1 \in 0..COLS, NEW x2 \in -1 .. COLS - 1, NEW y \in YS, r.w.y1 <= y,
         NEW val \in [Cells -> Chars], \A p \in Cells : p[2] = y => val[p] # Title
  PROVE  RowPainted(r, s, PaintRow(s, x1, x2, y, val, Doit(r.w)), x1, x2, y)
<1> USE SizesOk
<1> DEFINE d == Doit(r.w)
           t == PaintRow(s, x1, x2, y, val, d)
<1>1. d \in {-1, 0, 1} /\ (r.w.direct => d = 1)
  BY FineFields, DoitOk
<1>2. s \in Ttys /\ r.w.y1 \in YS
  BY FineFields DEF Kept
<1> HIDE DEF d
<1>3. RowDone(s, t, x1, x2, y, val, d)
  BY <1>1, <1>2, PaintRowOk
<1> HIDE DEF t
<1>4. Kept(s, t) /\ t \in Ttys /\ RowInImage(s, t, x1, x2, y, val, d)
  BY <1>3 DEF RowDone, Kept
<1>5. Titled(t, r.w.y1)
  BY <1>2, <1>4, TitledRow
<1>6. Kept(r.s, t)
  BY <1>4 DEF Kept
<1>7. ASSUME r.w.direct, Same(s), Ready(s, x1, y)
      PROVE  /\ Same(t)
             /\ x1 <= x2 => \A x0, y0 : Ready(t, x0, y0)
             /\ x1 > x2 => t = s
  BY <1>1, <1>3, <1>7 DEF RowDone, Same
<1> QED BY <1>5, <1>6, <1>7 DEF RowPainted, t, d

(* vtty_wclreos, vtty_wclrbos, vtty_winclr.                                *)
LEMMA Wclreos ==
  ASSUME NEW r, Fine(r)
  PROVE  Goes(r, vtty_wclreos(r))
<1> USE SizesOk
<1> DEFINE y == r.w.y1 + r.w.cury + 1
           a == PaintRows(r.s, y, r.w.y2, FALSE, Blank, Doit(r.w))
           t == clreol(a, r.w)
           u == GotoCursor(t, r.w)
           q == [r EXCEPT !.s = u]
<1>1. vtty_wclreos(r) = q
  BY Zenon DEF vtty_wclreos
<1>2. y \in 0..LINES /\ r.w.y2 \in -1 .. LINES - 1 /\ r.w.y1 <= y
  BY FineFields DEF YS
<1> HIDE DEF y
<1>3. RowsPainted(r, a, y, r.w.y2)
  BY <1>2, RowsInside
<1> HIDE DEF a
<1>4. Kept(r.s, a) /\ a \in Ttys /\ Titled(a, r.w.y1) /\ WinOk(r.w)
  BY <1>3, FineFields DEF RowsPainted, Kept
<1>5. r.w.direct /\ Shows(r) => Same(a) /\ Ready(a, r.w.curx, r.w.y1 + r.w.cury)
  <2>1. y \in Int /\ r.w.y2 \in Int
    BY <1>2
  <2> QED BY <2>1, <1>3 DEF RowsPainted, Shows
<1>6. Kept(a, t) /\ Titled(t, r.w.y1) /\ t \in Ttys
      /\ (r.w.direct /\ Same(a) /\ Ready(a, r.w.curx, r.w.y1 + r.w.cury) => Same(t))
  BY <1>4, ClreolOk DEF Kept
<1> HIDE DEF t
<1>7. Kept(t, u) /\ u.g = t.g /\ (r.w.direct /\ Same(t) => Same(u) /\ Ready(u, r.w.curx, r.w.y1 + r.w.cury))
  BY <1>4, <1>6, GotoCursorOk
<1> HIDE DEF u
<1>8. Kept(r.s, u) /\ Titled(u, r.w.y1)
  BY <1>4, <1>6, <1>7 DEF Kept, Titled
<1>9. Does(r, q) /\ q.s = u /\ q.w = r.w
  BY <1>8, NewDisplay
<1> HIDE DEF q
<1>10. r.w.direct /\ Shows(r) => Shows(q)
  BY <1>5, <1>6, <1>7, <1>9 DEF Shows
<1> QED BY <1>1, <1>9, <1>10 DEF Goes

LEMMA Wclrbos ==
  ASSUME NEW r, Fine(r)
  PROVE  GoesAny(r, vtty_wclrbos(r))
<1> USE SizesOk
<1> DEFINE y == r.w.y1 + r.w.cury - 1
           t == PaintRows(r.s, r.w.y1, y, FALSE, Blank, Doit(r.w))
           a == [r EXCEPT !.s = t]
           q == vtty_wclrbos(r)
<1>1. q = vtty_wclrbol(a)
  BY FineFields DEF vtty_wclrbos, Pairs
<1>2. r.w.y1 \in 0..LINES /\ y \in -1 .. LINES - 1 /\ r.w.y1 <= r.w.y1
  BY FineFields DEF YS
<1> HIDE DEF y
<1>3. RowsPainted(r, t, r.w.y1, y)
  BY <1>2, RowsInside
<1> HIDE DEF t, q
<1>4. Does(r, a) /\ Fine(a) /\ a.s = t /\ a.w = r.w
  BY <1>3, NewDisplay DEF RowsPainted
<1> HIDE DEF a
<1>5. GoesAny(a, q)
  BY <1>1, <1>4, Wclrbol
<1>6. Does(r, q)
  BY <1>4, <1>5, DoesTwice DEF GoesAny
<1>7. r.w.direct /\ Same(r.s) => Shows(q)
  BY <1>3, <1>4, <1>5 DEF GoesAny, RowsPainted
<1> QED BY <1>6, <1>7 DEF GoesAny, q

LEMMA Winclr ==
  ASSUME NEW r, Fine(r)
  PROVE  GoesAny(r, vtty_winclr(r))
<1> USE SizesOk
<1> DEFINE t == PaintRows(r.s, r.w.y1, r.w.y2, TRUE, Blank, Doit(r.w))
           u == gotoxy(t, 0, r.w.y1)
           v == [r.w EXCEPT !.curx = 0, !.cury = 0]
           q == [s |-> u, w |-> v]
<1>1. vtty_winclr(r) = q
  BY Zenon DEF vtty_winclr
<1>2. r.w.y1 \in 0..LINES /\ r.w.y2 \in -1 .. LINES - 1 /\ r.w.y1 <= r.w.y1 /\ r.w.y1 <= r.w.y2
      /\ r.w.y1 \in YS /\ RegionOk(r.w) /\ 0 \in 0 .. COLS /\ 0 \in 0 .. LINES
  BY FineFields, CursorRow DEF YS
<1>3. RowsPainted(r, t, r.w.y1, r.w.y2)
  BY <1>2, RowsInside
<1> HIDE DEF t
<1>4. Kept(r.s, t) /\ t \in Ttys /\ Titled(t, r.w.y1)
  BY <1>3 DEF RowsPainted, Kept
<1>5. GotoDone(t, u, 0, r.w.y1)
  BY <1>2, <1>4, GotoLive
<1>6. Moved(r.w, v, 0, 0)
  BY <1>2, WinAt
<1> HIDE DEF u, v
<1>7. WinOk(v) /\ Fixed(r.w, v) /\ v \in Wins /\ v.curx = 0 /\ v.cury = 0
  BY <1>2, <1>6 DEF Moved, WinOk, RegionOk, YS
<1>8. Kept(r.s, u) /\ Titled(u, v.y1) /\ u \in Ttys
  BY <1>4, <1>5, <1>7 DEF GotoDone, Kept, Titled, Fixed
<1>9. Does(r, q) /\ q.s = u /\ q.w = v
  BY <1>7, <1>8 DEF Does, Fine, Pairs
<1> HIDE DEF q
<1>10. r.w.direct /\ Same(r.s) => Shows(q)
  <2>1. v.y1 + v.cury = r.w.y1
    BY <1>2, <1>7 DEF Fixed, YS
  <2> QED BY <1>3, <1>5, <1>7, <1>9, <2>1 DEF Shows, RowsPainted, GotoDone
<1> QED BY <1>1, <1>9, <1>10 DEF GoesAny

(* vtty_wclrch, unless the first character follows a High one.             *)
AfterHigh(r) == r.w.curx \in 1 .. COLS - 1 /\ r.s.last = <<r.w.curx - 1, r.w.y1 + r.w.cury, High>>

LEMMA Wclrch ==
  ASSUME NEW r, Fine(r), NEW n \in {1, 2}
  PROVE  LET q == vtty_wclrch(r, n) IN
         Does(r, q) /\ (r.w.direct /\ Shows(r) /\ ~AfterHigh(r) => Shows(q))
<1> USE SizesOk
<1> DEFINE x == r.w.curx
           y == r.w.y1 + r.w.cury
           e == IF x + n - 1 > COLS - 1 THEN COLS - 1 ELSE x + n - 1
           s == IF r.w.direct THEN gotoxy(r.s, 0, y) ELSE r.s
           t == PaintRow(s, x, e, y, Blank, Doit(r.w))
           q == [r EXCEPT !.s = t]
<1>1. vtty_wclrch(r, n) = q
  BY Zenon DEF vtty_wclrch
<1>2. /\ y \in YS /\ r.w.y1 <= y /\ x \in 0 .. COLS /\ e \in -1 .. COLS - 1 /\ r.s \in Ttys
      /\ x < COLS => x <= e
      /\ r.w.direct \in BOOLEAN /\ 0 \in Nat /\ Titled(r.s, r.w.y1)
  BY FineFields DEF YS
<1>3. AfterHigh(r) <=> x \in 1 .. COLS - 1 /\ r.s.last = <<x - 1, y, High>>
  BY DEF AfterHigh
<1>35. Shows(r) <=> Same(r.s) /\ Ready(r.s, x, y)
  BY DEF Shows
<1>36. \A u : Shows([s |-> u, w |-> r.w]) <=> Same(u) /\ Ready(u, x, y)
  BY DEF Shows
<1> HIDE DEF x, y, e
<1>4. Kept(r.s, s) /\ s.g = r.s.g /\ s.last = r.s.last /\ s \in Ttys /\ (Same(r.s) => Same(s))
  <2>1. CASE r.w.direct
    <3>1. s = gotoxy(r.s, 0, y)
      BY <2>1
    <3> HIDE DEF s
    <3>2. GotoDone(r.s, s, 0, y)
      BY <1>2, <3>1, GotoLive
    <3>3. s.last = r.s.last
      BY <1>2, <3>1, Gotoxy
    <3> QED BY <3>2, <3>3 DEF GotoDone, Kept
  <2>2. CASE ~r.w.direct
    BY <1>2, <2>2 DEF Kept
  <2> QED BY <2>1, <2>2
<1> HIDE DEF s
<1>5. Titled(s, r.w.y1)
  BY <1>2, <1>4 DEF Titled
<1>6. \A p \in Cells : p[2] = y => Blank[p] # Title
  BY BlankOk
<1>7. RowPainted(r, s, t, x, e, y)
  BY <1>2, <1>4, <1>5, <1>6, BlankOk, RowInside
<1> HIDE DEF t
<1>8. Does(r, q) /\ q.s = t /\ q.w = r.w
  BY <1>7, NewDisplay DEF RowPainted
<1>9. ASSUME r.w.direct, Shows(r), ~AfterHigh(r) PROVE Shows(q)
  <2>1. Same(s)
    BY <1>4, <1>9, <1>35
  <2>2. Ready(s, x, y)
    <3>1. CASE x = 0
      BY <1>4, <3>1, ReadyFirst
    <3>2. CASE x = COLS
      BY <1>2, <3>2 DEF Ready
    <3>3. CASE x \in 1 .. COLS - 1
      <4>1. r.s.last # <<x - 1, y, High>>
        BY <1>3, <1>9, <3>3
      <4>2. r.s.last \in XS \X YS \X Chars
        BY <1>2, TtyFields
      <4>3. ~(s.last[1] + 1 = x /\ s.last[2] = y /\ s.last[3] = High)
        <5>1. SUFFICES ASSUME r.s.last[1] + 1 = x, r.s.last[2] = y, r.s.last[3] = High PROVE FALSE
          BY <1>4
        <5>2. r.s.last[1] \in Int /\ r.s.last[1] = x - 1
          BY <4>2, <5>1, <1>2 DEF XS
        <5>3. r.s.last = <<r.s.last[1], r.s.last[2], r.s.last[3]>>
          BY <4>2
        <5> QED BY <4>1, <5>1, <5>2, <5>3
      <4> QED BY <4>3 DEF Ready
    <3> QED BY <1>2, <3>1, <3>2, <3>3
  <2>3. Same(t) /\ (x <= e => \A x0, y0 : Ready(t, x0, y0))
    BY <1>7, <1>9, <2>1, <2>2 DEF RowPainted
  <2>4. Ready(t, x, y)
    <3>1. CASE x < COLS
      BY <1>2, <2>3, <3>1
    <3>2. CASE ~(x < COLS)
      BY <3>2 DEF Ready
    <3> QED BY <3>1, <3>2
  <2> HIDE DEF q
  <2> QED BY <1>8, <2>3, <2>4 DEF Shows, x, y
<1> QED BY <1>1, <1>8, <1>9

-----------------------------------------------------------------------------
(* Inserting and deleting.                                                 *)

LEMMA FromCursorOk ==
  ASSUME NEW r, Fine(r)
  PROVE  LET a == [r EXCEPT !.w = FromCursor(@)] IN
         /\ a \in Pairs /\ a.s = r.s /\ a.w = FromCursor(r.w) /\ RegionOk(a.w) /\ Titled(a.s, a.w.y1)
         /\ a.w.y1 = r.w.y1 /\ a.w.y2 = r.w.y2 /\ a.w.curx = r.w.curx /\ a.w.cury = r.w.cury
         /\ a.w.wrap = r.w.wrap /\ a.w.direct = r.w.direct /\ a.w.doscroll = r.w.doscroll
<1> DEFINE b == IF r.w.y1 + r.w.cury < r.w.sy1 THEN r.w.sy1 ELSE r.w.y1 + r.w.cury
           e == IF r.w.y2 > r.w.sy2 THEN r.w.sy2 ELSE r.w.y2
           v == [r.w EXCEPT !.sy1 = b, !.sy2 = e]
           a == [r EXCEPT !.w = FromCursor(@)]
<1>1. FromCursor(r.w) = v
  BY FineFields DEF FromCursor, Wins
<1>2. b \in YS /\ e \in YS /\ r.w.y1 <= b /\ b <= r.w.y2 /\ r.w.y1 <= e /\ e <= r.w.y2
  BY FineFields DEF YS, RegionOk
<1> HIDE DEF b, e
<1>3. v \in Wins /\ v.y1 = r.w.y1 /\ v.y2 = r.w.y2 /\ v.sy1 = b /\ v.sy2 = e
      /\ v.curx = r.w.curx /\ v.cury = r.w.cury
      /\ v.wrap = r.w.wrap /\ v.direct = r.w.direct /\ v.doscroll = r.w.doscroll
  BY <1>2, FineFields DEF Wins
<1> HIDE DEF v
<1>4. a = [s |-> r.s, w |-> v]
  BY <1>1, FineFields DEF Pairs
<1> HIDE DEF a
<1>5. a \in Pairs /\ a.s = r.s /\ a.w = v
  BY <1>3, <1>4, FineFields DEF Pairs
<1>6. RegionOk(v) /\ Titled(r.s, v.y1)
  BY <1>2, <1>3, FineFields DEF RegionOk
<1> QED BY <1>1, <1>3, <1>5, <1>6 DEF a

(* The region as it was.                                                   *)
LEMMA RegionBack ==
  ASSUME NEW r, Fine(r), NEW a \in Pairs, a.s = r.s, a.w = FromCursor(r.w), NEW b, Does(a, b)
  PROVE  LET q == Region(b, r.w) IN Does(r, q) /\ (Shows(b) => Shows(q))
<1> DEFINE v == [b.w EXCEPT !.sy1 = r.w.sy1, !.sy2 = r.w.sy2]
           q == Region(b, r.w)
<1>1. Fine(b) /\ Kept(r.s, b.s) /\ Fixed(FromCursor(r.w), b.w)
  BY DEF Does
<1>2. FromCursor(r.w).y1 = r.w.y1 /\ FromCursor(r.w).y2 = r.w.y2
      /\ FromCursor(r.w).wrap = r.w.wrap /\ FromCursor(r.w).direct = r.w.direct
      /\ FromCursor(r.w).doscroll = r.w.doscroll
  BY FineFields DEF FromCursor, Wins
<1>3. v \in Wins /\ v.y1 = b.w.y1 /\ v.y2 = b.w.y2 /\ v.sy1 = r.w.sy1 /\ v.sy2 = r.w.sy2
      /\ v.curx = b.w.curx /\ v.cury = b.w.cury
      /\ v.wrap = b.w.wrap /\ v.direct = b.w.direct /\ v.doscroll = b.w.doscroll
  <2>1. b.w \in Wins /\ r.w.sy1 \in YS /\ r.w.sy2 \in YS
    BY <1>1, FineFields
  <2> QED BY <2>1 DEF Wins
<1>4. q = [s |-> b.s, w |-> v]
  <2>1. b \in Pairs /\ b.w \in Wins
    BY <1>1, FineFields
  <2>2. v = [[b.w EXCEPT !.sy1 = r.w.sy1] EXCEPT !.sy2 = r.w.sy2]
    BY <2>1 DEF Wins
  <2>3. q = [b EXCEPT !.w = v]
    <3> HIDE DEF v
    <3>1. q = [b EXCEPT !.w.sy1 = r.w.sy1, !.w.sy2 = r.w.sy2]
      BY DEF Region
    <3>2. [b EXCEPT !.w.sy1 = r.w.sy1] = [b EXCEPT !.w = [b.w EXCEPT !.sy1 = r.w.sy1]]
      BY <2>1 DEF Pairs
    <3>3. [b EXCEPT !.w.sy1 = r.w.sy1].w = [b.w EXCEPT !.sy1 = r.w.sy1]
      BY <2>1 DEF Pairs
    <3> QED BY <2>1, <2>2, <3>1, <3>2, <3>3 DEF Pairs
  <2> HIDE DEF v, q
  <2> QED BY <2>1, <2>3 DEF Pairs
<1> HIDE DEF v, q
<1>5. q \in Pairs /\ q.s = b.s /\ q.w = v
  <2>1. b.s \in Ttys
    BY <1>1, FineFields
  <2> QED BY <1>3, <1>4, <2>1 DEF Pairs
<1>6. Fixed(r.w, v)
  BY <1>1, <1>2, <1>3 DEF Fixed
<1>7. WinOk(v)
  <2>1. WinOk(b.w) /\ RegionOk(r.w)
    BY <1>1, FineFields
  <2> QED BY <1>3, <1>6, <2>1 DEF Fixed, WinOk, RegionOk
<1>8. Titled(b.s, v.y1)
  BY <1>1, <1>3, FineFields
<1>9. Does(r, q)
  BY <1>1, <1>5, <1>6, <1>7, <1>8 DEF Does, Fine
<1>10. Shows(b) => Shows(q)
  BY <1>3, <1>5 DEF Shows
<1> QED BY <1>9, <1>10 DEF q

LEMMA Winsline ==
  ASSUME NEW r, Fine(r)
  PROVE  LET q == vtty_winsline(r) IN
         Does(r, q) /\ (r.w.direct /\ Same(r.s) /\ (Physical(FromCursor(r.w)) => TopBlank(r.s)) => Shows(q))
<1> DEFINE a == [r EXCEPT !.w = FromCursor(@)]
           b == vtty_wscroll(a, "down", FALSE)
           q == Region(b, r.w)
<1>1. vtty_winsline(r) = q
  BY Zenon DEF vtty_winsline
<1>2. a \in Pairs /\ a.s = r.s /\ a.w = FromCursor(r.w) /\ RegionOk(a.w) /\ Titled(a.s, a.w.y1)
      /\ a.w.direct = r.w.direct
  BY FromCursorOk
<1> HIDE DEF a
<1>3. ScrollDone(a, b, "down", FALSE)
  BY <1>2, Wscroll
<1> HIDE DEF b
<1>4. Does(a, b) /\ (r.w.direct /\ Same(r.s) /\ (Physical(FromCursor(r.w)) => TopBlank(r.s)) => Shows(b))
  BY <1>2, <1>3 DEF ScrollDone
<1>5. Does(r, q) /\ (Shows(b) => Shows(q))
  BY <1>2, <1>4, RegionBack
<1> QED BY <1>1, <1>4, <1>5

LEMMA Wdelline ==
  ASSUME NEW r, Fine(r)
  PROVE  GoesAny(r, vtty_wdelline(r))
<1> DEFINE a == [r EXCEPT !.w = FromCursor(@)]
           b == vtty_wscroll(a, "up", TRUE)
           d == vtty_wlocate(b, 0, r.w.cury)
           q == Region(d, r.w)
<1>1. vtty_wdelline(r) = q
  BY Zenon DEF vtty_wdelline
<1>2. a \in Pairs /\ a.s = r.s /\ a.w = FromCursor(r.w) /\ RegionOk(a.w) /\ Titled(a.s, a.w.y1)
      /\ a.w.direct = r.w.direct
  BY FromCursorOk
<1> HIDE DEF a
<1>3. ScrollDone(a, b, "up", TRUE)
  BY <1>2, Wscroll
<1> HIDE DEF b
<1>4. Does(a, b) /\ (r.w.direct /\ Same(r.s) => Same(b.s)) /\ b.w.direct = r.w.direct /\ Fine(b)
  BY <1>2, <1>3 DEF ScrollDone, Does, Fixed
<1>5. 0 \in Int /\ r.w.cury \in Int
  BY FineFields
<1>6. b \in Pairs /\ RegionOk(b.w) /\ Titled(b.s, b.w.y1)
  BY <1>4, FineFields
<1>7. Does(b, d) /\ (b.w.direct /\ Same(b.s) => Shows(d))
  BY <1>5, <1>6, Locates0
<1> HIDE DEF d
<1>8. Does(a, d)
  BY <1>4, <1>7, DoesTwice
<1>9. Does(r, q) /\ (Shows(d) => Shows(q))
  BY <1>2, <1>8, RegionBack
<1> QED BY <1>1, <1>4, <1>7, <1>9 DEF GoesAny

(* vtty_wdelchar and vtty_winschar2.                                       *)
LEMMA Wdelchar ==
  ASSUME NEW r, Fine(r)
  PROVE  Goes(r, vtty_wdelchar(r))
<1> USE SizesOk
<1> DEFINE x == r.w.curx
           y == r.w.y1 + r.w.cury
           next == [p \in Cells |-> IF p[1] = COLS - 1 THEN " " ELSE r.s.g[<<p[1] + 1, p[2]>>]]
           t == PaintRow(r.s, x, COLS - 1, y, next, Doit(r.w))
           a == [r EXCEPT !.s = t]
           q == vtty_wlocate(a, x, r.w.cury)
<1>1. vtty_wdelchar(r) = q
  <2>1. [r EXCEPT !.s = PaintRow(@, x, COLS - 1, y, next, Doit(r.w))] = a
    <3> HIDE DEF next, y, x
    <3> QED BY FineFields DEF Pairs
  <2> HIDE DEF a
  <2> QED BY <2>1, Zenon DEF vtty_wdelchar
<1>2. /\ y \in YS /\ r.w.y1 <= y /\ x \in 0 .. COLS /\ COLS - 1 \in -1 .. COLS - 1 /\ r.s \in Ttys
      /\ Titled(r.s, r.w.y1) /\ r.w.y1 \in YS /\ Kept(r.s, r.s)
  BY FineFields DEF YS, Kept
<1>3. next \in [Cells -> Chars]
  <2>1. r.s.g \in [Cells -> Chars]
    BY <1>2, TtyFields
  <2>2. ASSUME NEW p \in Cells, p[1] # COLS - 1 PROVE <<p[1] + 1, p[2]>> \in Cells
    BY <2>2 DEF Cells
  <2> QED BY <2>1, <2>2, CharFacts
<1>4. ASSUME NEW p \in Cells, p[2] = y PROVE next[p] # Title
  <2>1. CASE p[1] = COLS - 1
    BY <2>1, CharFacts
  <2>2. CASE p[1] # COLS - 1
    <3> DEFINE o == <<p[1] + 1, p[2]>>
    <3>1. o \in Cells /\ o[2] = y /\ ~(o[2] < r.w.y1)
      BY <1>2, <1>4, <2>2 DEF Cells, YS
    <3>2. next[p] = r.s.g[o]
      BY <2>2
    <3> HIDE DEF o, next
    <3> QED BY <1>2, <3>1, <3>2 DEF Titled
  <2> QED BY <2>1, <2>2
<1> HIDE DEF next
<1>5. RowPainted(r, r.s, t, x, COLS - 1, y)
  BY <1>2, <1>3, <1>4, RowInside
<1> HIDE DEF t
<1>6. Does(r, a) /\ Fine(a) /\ a.s = t /\ a.w = r.w
  BY <1>5, NewDisplay DEF RowPainted
<1> HIDE DEF a
<1>7. x \in Int /\ r.w.cury \in Int
  BY FineFields
<1>8. Does(a, q) /\ (a.w.direct /\ Same(a.s) => Shows(q))
  BY <1>6, <1>7, FineFields, Locates0
<1> HIDE DEF q
<1>9. Does(r, q)
  BY <1>6, <1>8, DoesTwice
<1>10. r.w.direct /\ Shows(r) => Shows(q)
  BY <1>5, <1>6, <1>8 DEF Shows, RowPainted
<1> QED BY <1>1, <1>9, <1>10 DEF Goes

LEMMA Winschar ==
  ASSUME NEW r, Fine(r), NEW c \in Chars, c # Title, NEW move \in BOOLEAN
  PROVE  LET q == vtty_winschar2(r, c, move) IN
         Does(r, q) /\ (r.w.direct /\ Shows(r) /\ ~(~r.w.wrap /\ r.w.curx >= COLS) => Shows(q))
<1> USE SizesOk
<1> DEFINE x == r.w.curx
           y == r.w.y1 + r.w.cury
           old == [p \in Cells |-> IF p[1] = 0 THEN " " ELSE r.s.g[<<p[1] - 1, p[2]>>]]
           b == PutChar(r, c)
           v == IF move THEN b.w ELSE [b.w EXCEPT !.curx = x]
           t == PaintRow(b.s, x + 1, COLS - 1, y, old, Doit(r.w))
           a == [s |-> t, w |-> v]
           z == vtty_wlocate(a, v.curx, v.cury)
           q == vtty_winschar2(r, c, move)
<1>1. q = IF x >= COLS - 1 THEN b ELSE z
  BY Zenon DEF vtty_winschar2
<1>2. /\ y \in YS /\ r.w.y1 <= y /\ x \in 0 .. COLS /\ COLS - 1 \in -1 .. COLS - 1 /\ r.s \in Ttys
      /\ Titled(r.s, r.w.y1) /\ r.w.y1 \in YS /\ r.w \in Wins /\ r.w.cury \in 0 .. LINES
  BY FineFields DEF YS
<1>3. PutCharDone(r, b)
  BY PutCharOk
<1> HIDE DEF b, q, z
<1>4. x >= COLS - 1 =>
        Does(r, q) /\ (r.w.direct /\ Shows(r) /\ ~(~r.w.wrap /\ r.w.curx >= COLS) => Shows(q))
  BY <1>1, <1>3 DEF PutCharDone
<1>5. ASSUME ~(x >= COLS - 1)
      PROVE  Does(r, q) /\ (r.w.direct /\ Shows(r) => Shows(q))
  <2>1. b.w = [r.w EXCEPT !.curx = x + 1] /\ x + 1 \in 0 .. COLS /\ q = z
    <3>1. x < COLS - 1 /\ x + 1 \in 0 .. COLS
      BY <1>2, <1>5
    <3> QED BY <1>1, <1>3, <1>5, <3>1 DEF PutCharDone
  <2>2. Does(r, b) /\ Fine(b) /\ Kept(r.s, b.s)
    BY <1>3 DEF PutCharDone, Does
  <2>3. b.w.y1 = r.w.y1 /\ b.w.curx = x + 1 /\ b.w.cury = r.w.cury /\ b.w \in Wins /\ Fixed(r.w, b.w)
        /\ RegionOk(b.w) /\ Titled(b.s, r.w.y1) /\ b.s \in Ttys
    <3>1. b.w.curx = x + 1 /\ b.w.cury = r.w.cury
      BY <1>2, <2>1 DEF Wins
    <3> QED BY <3>1, <2>2, FineFields DEF Does, Fixed
  <2>4. RegionOk(v) /\ v \in Wins /\ Fixed(r.w, v) /\ v.curx \in Int /\ v.cury \in Int
    <3>1. CASE move
      BY <3>1, <2>3, <1>2
    <3>2. CASE ~move
      <4>1. v = [b.w EXCEPT !.curx = x, !.cury = r.w.cury]
        BY <3>2, <2>3 DEF Wins
      <4> HIDE DEF v
      <4>2. Moved(b.w, v, x, r.w.cury)
        BY <4>1, <1>2, <2>3, WinAt
      <4> QED BY <4>2, <2>3, <1>2 DEF Moved, Fixed, RegionOk
    <3> QED BY <3>1, <3>2
  <2> HIDE DEF v
  <2>5. old \in [Cells -> Chars]
    <3>1. r.s.g \in [Cells -> Chars]
      BY <1>2, TtyFields
    <3>2. ASSUME NEW p \in Cells, p[1] # 0 PROVE <<p[1] - 1, p[2]>> \in Cells
      BY <3>2 DEF Cells
    <3> QED BY <3>1, <3>2, CharFacts
  <2>6. ASSUME NEW p \in Cells, p[2] = y PROVE old[p] # Title
    <3>1. CASE p[1] = 0
      BY <3>1, CharFacts
    <3>2. CASE p[1] # 0
      <4> DEFINE o == <<p[1] - 1, p[2]>>
      <4>1. o \in Cells /\ o[2] = y /\ ~(o[2] < r.w.y1)
        BY <1>2, <2>6, <3>2 DEF Cells, YS
      <4>2. old[p] = r.s.g[o]
        BY <3>2
      <4> HIDE DEF o, old
      <4> QED BY <1>2, <4>1, <4>2 DEF Titled
    <3> QED BY <3>1, <3>2
  <2> HIDE DEF old
  <2>7. RowPainted(r, b.s, t, x + 1, COLS - 1, y)
    BY <1>2, <2>1, <2>2, <2>3, <2>5, <2>6, RowInside
  <2> HIDE DEF t
  <2>8. a \in Pairs /\ a.s = t /\ a.w = v /\ RegionOk(a.w) /\ Titled(a.s, a.w.y1)
    BY <2>4, <2>7 DEF RowPainted, Kept, Pairs, Fixed
  <2> HIDE DEF a
  <2>9. Does(a, z) /\ (a.w.direct /\ Same(a.s) => Shows(z))
    BY <2>4, <2>8, Locates0 DEF z
  <2>10. Does(r, z)
    BY <2>4, <2>7, <2>8, <2>9 DEF Does, Fixed, RowPainted, Kept
  <2>11. ASSUME r.w.direct, Shows(r) PROVE Shows(z)
    <3>1. Shows(b)
      BY <1>2, <1>3, <1>5, <2>11 DEF PutCharDone
    <3>2. Same(b.s) /\ Ready(b.s, x + 1, y)
      BY <2>3, <3>1 DEF Shows
    <3>3. Same(t)
      BY <2>7, <2>11, <3>2 DEF RowPainted
    <3> QED BY <2>4, <2>8, <2>9, <2>11, <3>3 DEF Fixed
  <2> QED BY <2>1, <2>10, <2>11
<1> QED BY <1>4, <1>5 DEF q

-----------------------------------------------------------------------------
(* Drawing again.                                                          *)

(* After a row, or rows, the last character sent is the last of a row.     *)
LEMMA RowLast ==
  ASSUME NEW s \in Ttys, NEW x1 \in 0..COLS, NEW x2 \in -1 .. COLS - 1, x1 <= x2, NEW y \in YS,
         NEW val \in [Cells -> Chars], NEW doit \in {-1, 1}
  PROVE  PaintRow(s, x1, x2, y, val, doit).last[1] = x2
<1> USE SizesOk
<1> DEFINE n == Count(x1, x2)
           x == x1 + n - 1
<1>1. doit \in {-1, 0, 1} /\ doit # 0
  OBVIOUS
<1>2. PICK a : RowStates(s, x1, x2, y, val, doit, a)
  BY <1>1, PaintRowLoop
<1>3. n \in Nat /\ n \in 1..n /\ x = x2 /\ x \in XS /\ n - 1 \in 0..n
  BY DEF Count, XS
<1>4. a[n] = write(a[n - 1], val[<<x, y>>], doit, x, y) /\ a[n - 1] \in Ttys
      /\ PaintRow(s, x1, x2, y, val, doit) = a[n]
  BY <1>2, <1>3 DEF RowStates
<1>5. val[<<x, y>>] \in Chars
  BY <1>3 DEF Cells, XS, YS
<1> HIDE DEF n, x
<1>6. WriteOk(a[n - 1], a[n], val[<<x, y>>], doit, x, y)
  BY <1>1, <1>3, <1>4, <1>5, Write
<1>7. a[n].last = <<x, y, val[<<x, y>>]>>
  BY <1>1, <1>6 DEF WriteOk
<1> QED BY <1>3, <1>4, <1>7

LEMMA RowsLast ==
  ASSUME NEW s \in Ttys, NEW y1 \in 0..LINES, NEW y2 \in -1 .. LINES - 1, y1 <= y2, NEW back \in BOOLEAN,
         NEW val \in [Cells -> Chars], NEW doit \in {-1, 1}
  PROVE  PaintRows(s, y1, y2, back, val, doit).last[1] = COLS - 1
<1> USE SizesOk
<1> DEFINE n == Count(y1, y2)
           y == RowAt(y1, y2, back, n)
<1>1. doit \in {-1, 0, 1} /\ doit # 0
  OBVIOUS
<1>2. PICK a : RowsStates(s, y1, y2, back, val, doit, a)
  BY <1>1, PaintRowsLoop
<1>3. n \in Nat /\ n \in 1..n /\ n - 1 \in 0..n
  BY DEF Count
<1>4. y \in YS
  BY <1>3, RowAtOk
<1>5. a[n] = PaintRow(a[n - 1], 0, COLS - 1, y, val, doit) /\ a[n - 1] \in Ttys
      /\ PaintRows(s, y1, y2, back, val, doit) = a[n]
  BY <1>2, <1>3 DEF RowsStates
<1> HIDE DEF n, y
<1>6. 0 \in 0..COLS /\ COLS - 1 \in -1 .. COLS - 1 /\ 0 <= COLS - 1
  OBVIOUS
<1> QED BY <1>4, <1>5, <1>6, RowLast

(* Rows painted with the image: the display shows it there.                *)
Repainted(s, t, y1, y2) ==
  /\ Kept(s, t) /\ t.g = s.g
  /\ Sync(s) => Sync(t)
  /\ Sync(s) /\ s.on => \A p \in Cells : p[2] \in y1..y2 \/ s.m[p] = s.g[p] => t.m[p] = t.g[p]
  /\ t.last[1] = COLS - 1

LEMMA Repaint ==
  ASSUME NEW s \in Ttys, NEW y1 \in 0..LINES, NEW y2 \in -1 .. LINES - 1, y1 <= y2
  PROVE  Repainted(s, PaintRows(s, y1, y2, FALSE, s.g, -1), y1, y2)
<1> USE SizesOk
<1> DEFINE t == PaintRows(s, y1, y2, FALSE, s.g, -1)
<1>1. s.g \in [Cells -> Chars] /\ FALSE \in BOOLEAN /\ -1 \in {-1, 0, 1} /\ -1 \in {-1, 1}
  BY TtyFields
<1>2. RowsDone(s, t, y1, y2, s.g, -1)
  BY <1>1, PaintRowsOk
<1>3. t.last[1] = COLS - 1
  BY <1>1, RowsLast
<1> HIDE DEF t
<1>4. Kept(s, t) /\ t \in Ttys /\ RowsInImage(s, t, y1, y2, s.g, -1)
  BY <1>2 DEF RowsDone, Kept
<1>5. t.g = s.g
  <2>1. t.g \in [Cells -> Chars]
    BY <1>4, TtyFields
  <2>2. \A p \in Cells : t.g[p] = s.g[p]
    BY <1>4 DEF RowsInImage
  <2> QED BY <1>1, <2>1, <2>2
<1>6. Sync(s) => Sync(t) /\ RowsOnDisplay(s, t, y1, y2)
  BY <1>2 DEF RowsDone
<1>7. Sync(s) /\ s.on => \A p \in Cells : p[2] \in y1..y2 \/ s.m[p] = s.g[p] => t.m[p] = t.g[p]
  BY <1>5, <1>6 DEF RowsOnDisplay
<1> QED BY <1>3, <1>4, <1>5, <1>6, <1>7 DEF Repainted, t

(* vtty_wredraw: right once its first movement is.                         *)
RedrawDone(r, q) ==
  /\ Fine(q) /\ Kept(r.s, q.s) /\ q.w = [r.w EXCEPT !.direct = TRUE]
  /\ Sync(gotoxy(r.s, 0, r.w.y1))
     /\ (r.s.on => \A p \in Cells : p[2] \notin r.w.y1 .. r.w.y2 => r.s.m[p] = r.s.g[p])
     => Shows(q)

LEMMA Wredraw ==
  ASSUME NEW r, Fine(r)
  PROVE  RedrawDone(r, vtty_wredraw(r))
<1> USE SizesOk
<1> DEFINE a == gotoxy(r.s, 0, r.w.y1)
           b == PaintRows(a, r.w.y1, r.w.y2, FALSE, a.g, -1)
           y == r.w.y1 + r.w.cury
           t == gotoxy(b, r.w.curx, y)
           v == [r.w EXCEPT !.direct = TRUE]
           q == [s |-> t, w |-> v]
<1>1. vtty_wredraw(r) = q
  BY Zenon DEF vtty_wredraw
<1>2. /\ r.w.y1 \in 0..LINES /\ r.w.y2 \in -1 .. LINES - 1 /\ r.w.y1 <= r.w.y2 /\ r.w.y1 \in YS
      /\ y \in YS /\ r.w.curx \in Nat /\ r.w.curx \in 0 .. COLS /\ r.s \in Ttys /\ 0 \in Nat
      /\ Titled(r.s, r.w.y1) /\ r.w \in Wins /\ WinOk(r.w)
  BY FineFields, CursorRow DEF YS
<1>3. a \in Ttys /\ Kept(r.s, a) /\ a.g = r.s.g /\ a.m = r.s.m
  <2>1. GotoDone(r.s, a, 0, r.w.y1)
    BY <1>2, GotoLive
  <2> HIDE DEF a
  <2> QED BY <2>1 DEF GotoDone, Kept
<1>4. v \in Wins /\ WinOk(v) /\ v.curx = r.w.curx /\ v.y1 = r.w.y1 /\ v.cury = r.w.cury
  BY <1>2 DEF WinOk, RegionOk, Wins
<1> HIDE DEF a, v
<1>5. Repainted(a, b, r.w.y1, r.w.y2)
  BY <1>2, <1>3, Repaint
<1> HIDE DEF b
<1>6. b \in Ttys /\ Kept(a, b) /\ b.g = a.g
  BY <1>5 DEF Repainted, Kept
<1>7. GotoDone(b, t, r.w.curx, y)
  BY <1>2, <1>6, GotoLive
<1> HIDE DEF t
<1>8. Kept(r.s, t) /\ t \in Ttys /\ t.g = r.s.g
  BY <1>3, <1>6, <1>7 DEF GotoDone, Kept
<1>9. Titled(t, v.y1)
  BY <1>2, <1>4, <1>8 DEF Titled
<1>10. Fine(q) /\ q.s = t /\ q.w = v
  BY <1>4, <1>8, <1>9 DEF Fine, Pairs
<1>11. ASSUME Sync(a), r.s.on => \A p \in Cells : p[2] \notin r.w.y1 .. r.w.y2 => r.s.m[p] = r.s.g[p]
       PROVE  Shows(q)
  <2>1. Sync(b)
    BY <1>5, <1>11 DEF Repainted
  <2>2. ASSUME b.on PROVE b.m = b.g
    <3>1. r.s.on /\ a.on
      BY <1>3, <1>6, <2>2 DEF Kept
    <3>2. \A p \in Cells : b.m[p] = b.g[p]
      BY <1>3, <1>5, <1>11, <3>1 DEF Repainted
    <3>3. b.m \in [Cells -> Shown] /\ b.g \in [Cells -> Chars]
      BY <1>6, TtyFields
    <3> QED BY <3>2, <3>3
  <2>3. Same(t) /\ (r.w.curx < COLS => Ready(t, r.w.curx, y))
    BY <1>7, <2>1, <2>2 DEF GotoDone, Same
  <2>4. Ready(t, r.w.curx, y)
    <3>1. CASE r.w.curx < COLS
      BY <2>3, <3>1
    <3>2. CASE ~(r.w.curx < COLS)
      BY <3>2 DEF Ready
    <3> QED BY <3>1, <3>2
  <2> HIDE DEF q
  <2> QED BY <1>4, <1>10, <2>3, <2>4 DEF Shows
<1> HIDE DEF q
<1> QED BY <1>1, <1>8, <1>10, <1>11 DEF RedrawDone, a, v

(* vtty_wrestore after the character of __redraw.                          *)
RestoreDone(s, t) ==
  /\ Kept(s, t) /\ t.g = s.g
  /\ ~(s.cx = 0 /\ s.cy = 0) => Same(t)
  /\ \A x, y : Ready(t, x, y)

LEMMA Wrestore ==
  ASSUME NEW s \in Ttys
  PROVE  RestoreDone(s, vtty_wrestore(vga_putc(vga_goto(s, 0, 0), "1")))
<1> USE SizesOk
<1> DEFINE h == vga_goto(s, 0, 0)
           a == vga_putc(h, "1")
           b == gotoxy(a, 0, 0)
           d == PaintRows(b, 0, LINES - 1, FALSE, a.g, -1)
           t == gotoxy(d, a.cx, a.cy)
<1>1. vtty_wrestore(a) = t
  BY Zenon DEF vtty_wrestore
<1>2. 0 \in Nat /\ 0 \in YS /\ 0 \in XS /\ 0 \in 0..LINES /\ LINES - 1 \in -1 .. LINES - 1 /\ 0 <= LINES - 1
  BY DEF XS, YS
<1>3. h \in Ttys /\ Kept(s, h) /\ h.g = s.g /\ h.cx = s.cx /\ h.cy = s.cy
  BY <1>2 DEF Ttys, vga_goto, Kept
<1> HIDE DEF h
<1>4. a \in Ttys /\ Kept(s, a) /\ a.g = s.g /\ a.cx = s.cx /\ a.cy = s.cy
  BY <1>3, CharFacts, Putc DEF Kept
<1> HIDE DEF a
<1>5. b \in Ttys /\ Kept(s, b) /\ b.g = s.g
      /\ b.cx = 0 /\ b.cy = 0 /\ ((0 # a.cx \/ 0 # a.cy) => (a.on => b.dx = 0 /\ b.dy = 0))
  BY <1>2, <1>4, Gotoxy DEF Kept
<1> HIDE DEF b
<1>6. Repainted(b, d, 0, LINES - 1)
  BY <1>2, <1>4, <1>5, Repaint
<1> HIDE DEF d
<1>7. d \in Ttys /\ Kept(s, d) /\ d.g = s.g /\ d.last[1] = COLS - 1
  BY <1>5, <1>6 DEF Repainted, Kept
<1>8. a.cx \in Nat /\ a.cy \in YS
  BY <1>4, TtyFields
<1>9. GotoDone(d, t, a.cx, a.cy) /\ t.last = d.last
  BY <1>7, <1>8, GotoLive, Gotoxy
<1> HIDE DEF t
<1>10. Kept(s, t) /\ t.g = s.g
  BY <1>7, <1>9 DEF GotoDone, Kept
<1>11. ASSUME NEW x, NEW y PROVE Ready(t, x, y)
  <2>1. t.last[1] + 1 = COLS
    BY <1>7, <1>9
  <2> QED BY <2>1 DEF Ready
<1>12. ASSUME ~(s.cx = 0 /\ s.cy = 0) PROVE Same(t)
  <2>1. Sync(b)
    BY <1>4, <1>5, <1>12 DEF Sync, Kept
  <2>2. ASSUME d.on PROVE d.m = d.g
    <3>1. b.on
      BY <1>5, <1>7, <2>2 DEF Kept
    <3>2. \A p \in Cells : p[2] \in 0 .. LINES - 1
      BY DEF Cells
    <3>3. \A p \in Cells : d.m[p] = d.g[p]
      BY <1>6, <2>1, <3>1, <3>2 DEF Repainted
    <3>4. d.m \in [Cells -> Shown] /\ d.g \in [Cells -> Chars]
      BY <1>7, TtyFields
    <3> QED BY <3>3, <3>4
  <2>3. Same(d)
    BY <1>6, <2>1, <2>2 DEF Same, Repainted
  <2> QED BY <1>9, <2>3 DEF GotoDone
<1> QED BY <1>1, <1>10, <1>11, <1>12 DEF RestoreDone, a, h

(* The test screen.                                                        *)
TestRow(a, i) == PutChars(vtty_wlocate(a, 0, i - 1), "E", COLS)
InRows(r, q) == Does(r, q) /\ InMemory(r.s, q.s, r.w)
TestPairs(r) == {q \in FinePairs : InRows(r, q)}

LEMMA TestRowOk ==
  ASSUME NEW a, Fine(a), ~a.w.direct, ~a.w.doscroll, NEW i \in Nat
  PROVE  InRows(a, TestRow(a, i))
<1> USE SizesOk
<1> DEFINE b == vtty_wlocate(a, 0, i - 1)
           q == PutChars(b, "E", COLS)
<1>1. 0 \in Int /\ i - 1 \in Int /\ a \in Pairs /\ RegionOk(a.w) /\ Titled(a.s, a.w.y1)
  BY FineFields
<1>2. Does(a, b) /\ b.s = a.s
  BY <1>1, Locates0
<1> HIDE DEF b
<1>3. Fine(b) /\ ~b.w.direct /\ ~b.w.doscroll /\ Fixed(a.w, b.w)
  BY <1>2 DEF Does, Fixed
<1>4. PutCharsDone(b, q)
  BY <1>3, CharFacts, PutCharsOk
<1> HIDE DEF q
<1>5. Does(b, q) /\ InMemory(b.s, q.s, b.w)
  BY <1>3, <1>4 DEF PutCharsDone
<1>6. Does(a, q)
  BY <1>2, <1>5, DoesTwice
<1>7. InMemory(a.s, q.s, a.w)
  BY <1>2, <1>3, <1>5 DEF InMemory, Fixed
<1> QED BY <1>6, <1>7 DEF InRows, TestRow, q, b

TestStates(r, n, a) ==
  /\ a \in [0..n -> TestPairs(r)] /\ a[0] = r
  /\ Loop(r, LAMBDA z, i : PutChars(vtty_wlocate(z, 0, i - 1), "E", COLS), n) = a[n]

LEMMA TestLoop ==
  ASSUME NEW r, Fine(r), ~r.w.direct, ~r.w.doscroll, NEW n \in Nat
  PROVE  \E a : TestStates(r, n, a)
<1> DEFINE X == TestPairs(r)
           Eq(a) == a = [i \in 0..n |-> IF i = 0 THEN r ELSE TestRow(a[i - 1], i)]
           a == CHOOSE a : Eq(a)
           G == [z \in (1..n) \X X |-> TestRow(z[2], z[1])]
<1>0. r \in X
  <2>1. InRows(r, r)
    BY DoesSelf DEF InRows, InMemory
  <2> QED BY <2>1 DEF TestPairs, FinePairs, Fine
<1>1. ASSUME NEW t \in X, NEW i \in 1..n PROVE TestRow(t, i) \in X
  <2> DEFINE d == TestRow(t, i)
  <2>1. Fine(t) /\ InRows(r, t) /\ i \in Nat
    BY DEF TestPairs, FinePairs
  <2>2. ~t.w.direct /\ ~t.w.doscroll /\ Fixed(r.w, t.w)
    BY <2>1 DEF InRows, Does, Fixed
  <2>3. InRows(t, d)
    BY <2>1, <2>2, TestRowOk
  <2> HIDE DEF d
  <2>4. Does(r, d) /\ Fine(d)
    BY <2>1, <2>3, DoesTwice DEF InRows, Does
  <2>5. InMemory(r.s, d.s, r.w)
    BY <2>1, <2>2, <2>3, InMemoryTwice DEF InRows
  <2> QED BY <2>4, <2>5 DEF InRows, TestPairs, FinePairs, Fine, d
<1>2. Loop(r, LAMBDA z, i : PutChars(vtty_wlocate(z, 0, i - 1), "E", COLS), n) = a[n]
  BY Zenon DEF Loop, TestRow
<1> HIDE DEF X
<1>3. \A i \in 1..n, t \in X : G[<<i, t>>] = TestRow(t, i)
  OBVIOUS
<1>4. PICK b : States(X, r, G, n, b)
  <2>1. G \in [(1..n) \X X -> X]
    BY <1>1
  <2> HIDE DEF G
  <2> QED BY <2>1, <1>0, LoopExists
<1>5. Eq(b)
  <2> HIDE DEF G
  <2>1. ASSUME NEW i \in 0..n PROVE b[i] = (IF i = 0 THEN r ELSE TestRow(b[i - 1], i))
    <3>2. CASE i = 0
      BY <1>4, <3>2 DEF States
    <3>3. CASE i # 0
      <4>1. i \in 1..n /\ i - 1 \in 0..n
        BY <3>3
      <4>2. b[i] = G[<<i, b[i - 1]>>] /\ b[i - 1] \in X
        BY <1>4, <4>1 DEF States
      <4> QED BY <1>3, <3>3, <4>1, <4>2
    <3> QED BY <3>2, <3>3
  <2> QED BY <1>4, <2>1 DEF States
<1>6. Eq(a)
  <2> HIDE DEF Eq
  <2> QED BY <1>5, Zenon
<1> HIDE DEF a
<1>7. /\ a[0] = r /\ DOMAIN a = 0..n /\ a = [i \in 0..n |-> a[i]]
      /\ \A i \in 1..n : a[i] = TestRow(a[i - 1], i)
  BY <1>6
<1>8. \A i \in 0..n : a[i] \in X
  <2>1. ASSUME NEW i \in 1..n, a[i - 1] \in X PROVE a[i] \in X
    BY <1>1, <1>7, <2>1
  <2> QED BY <1>0, <1>7, <2>1, LoopStays
<1>9. a \in [0..n -> X]
  BY <1>7, <1>8
<1> QED BY <1>2, <1>7, <1>9 DEF TestStates, X

(* The library believes in column 0 and is wrong.                          *)
LostColumn(r) == ~r.w.wrap /\ r.s.cy = r.w.y1 /\ r.s.cx # 0

LEMMA WithFlags ==
  ASSUME NEW r, Fine(r), NEW d \in BOOLEAN, NEW c \in BOOLEAN
  PROVE  LET v == [r.w EXCEPT !.doscroll = c, !.direct = d]
             q == [r EXCEPT !.w = v] IN
         /\ Fine(q) /\ q.s = r.s /\ q.w = v /\ v.y1 = r.w.y1 /\ v.y2 = r.w.y2 /\ v.sy1 = r.w.sy1
         /\ v.sy2 = r.w.sy2 /\ v.wrap = r.w.wrap /\ v.curx = r.w.curx /\ v.cury = r.w.cury
         /\ v.doscroll = c /\ v.direct = d
<1> DEFINE v == [r.w EXCEPT !.doscroll = c, !.direct = d]
           q == [r EXCEPT !.w = v]
<1>1. v \in Wins /\ v.y1 = r.w.y1 /\ v.y2 = r.w.y2 /\ v.sy1 = r.w.sy1
      /\ v.sy2 = r.w.sy2 /\ v.wrap = r.w.wrap /\ v.curx = r.w.curx /\ v.cury = r.w.cury
      /\ v.doscroll = c /\ v.direct = d
  BY FineFields DEF Wins
<1> HIDE DEF v
<1>2. q \in Pairs /\ q.s = r.s /\ q.w = v
  BY <1>1, FineFields DEF Pairs
<1> HIDE DEF q
<1>3. WinOk(v) /\ Titled(r.s, v.y1)
  BY <1>1, FineFields DEF WinOk, RegionOk
<1> QED BY <1>1, <1>2, <1>3 DEF Fine, q, v

LEMMA SelftestOk ==
  ASSUME NEW r, Fine(r), r.w.direct, r.w.doscroll
  PROVE  LET q == Selftest(r) IN
         Does(r, q) /\ (Shows(r) /\ ~LostColumn(r) => Shows(q))
<1> USE SizesOk
<1> DEFINE w == [r.w EXCEPT !.doscroll = FALSE, !.direct = FALSE]
           b == [r EXCEPT !.w = w]
           full == Loop(b, LAMBDA a, i : PutChars(vtty_wlocate(a, 0, i - 1), "E", COLS), Ys(w))
           home == vtty_wlocate(full, 0, 0)
           e == [home EXCEPT !.w.doscroll = TRUE]
           q == vtty_wredraw(e)
<1>1. Selftest(r) = q
  BY Zenon DEF Selftest
<1>2. Fine(b) /\ b.s = r.s /\ b.w = w /\ w.y1 = r.w.y1 /\ w.y2 = r.w.y2 /\ w.sy1 = r.w.sy1
      /\ w.sy2 = r.w.sy2 /\ w.wrap = r.w.wrap /\ ~w.doscroll /\ ~w.direct
  BY WithFlags
<1> HIDE DEF b, w
<1>3. Ys(w) \in Nat
  BY <1>2, FineFields, CursorRow DEF Fine
<1>4. PICK a : TestStates(b, Ys(w), a)
  BY <1>2, <1>3, TestLoop
<1>5. full \in TestPairs(b)
  <2>1. Ys(w) \in 0..Ys(w)
    BY <1>3
  <2> QED BY <1>4, <2>1 DEF TestStates
<1> HIDE DEF full
<1>6. Fine(full) /\ Does(b, full) /\ InMemory(b.s, full.s, b.w)
  BY <1>5 DEF TestPairs, FinePairs, InRows
<1>7. Does(full, home) /\ home.s = full.s
  <2>1. full \in Pairs /\ RegionOk(full.w) /\ Titled(full.s, full.w.y1) /\ 0 \in Int
    BY <1>6, FineFields
  <2>2. ~full.w.direct
    BY <1>2, <1>6 DEF Does, Fixed
  <2> QED BY <2>1, <2>2, Locates0
<1> HIDE DEF home
<1>8. Does(b, home) /\ Fine(home) /\ InMemory(b.s, home.s, b.w) /\ Fixed(b.w, home.w)
  BY <1>6, <1>7, DoesTwice DEF Does
<1>9. e = [home EXCEPT !.w = [home.w EXCEPT !.doscroll = TRUE, !.direct = FALSE]]
  <2>1. home \in Pairs /\ home.w \in Wins
    BY <1>8, FineFields
  <2>2. [home.w EXCEPT !.doscroll = TRUE] = [home.w EXCEPT !.doscroll = TRUE, !.direct = FALSE]
    <3>1. home.w.direct = FALSE
      BY <1>2, <1>8, <2>1, WinFields DEF Fixed
    <3> QED BY <2>1, <3>1 DEF Wins
  <2>3. e = [home EXCEPT !.w = [home.w EXCEPT !.doscroll = TRUE]]
    BY <2>1 DEF Pairs
  <2> QED BY <2>2, <2>3
<1> HIDE DEF e
<1> DEFINE v == [home.w EXCEPT !.doscroll = TRUE, !.direct = FALSE]
<1>10. /\ Fine(e) /\ e.s = home.s /\ e.w = v /\ v.y1 = home.w.y1 /\ v.y2 = home.w.y2 /\ v.sy1 = home.w.sy1
       /\ v.sy2 = home.w.sy2 /\ v.wrap = home.w.wrap /\ v.doscroll = TRUE
  BY <1>8, <1>9, WithFlags
<1> HIDE DEF v
<1>11. RedrawDone(e, q)
  BY <1>10, Wredraw
<1> HIDE DEF q
<1>12. q.w = [v EXCEPT !.direct = TRUE] /\ v \in Wins
  BY <1>10, <1>11, FineFields DEF RedrawDone
<1>13. Fixed(r.w, q.w)
  <2>1. q.w.y1 = v.y1 /\ q.w.y2 = v.y2 /\ q.w.sy1 = v.sy1 /\ q.w.sy2 = v.sy2 /\ q.w.wrap = v.wrap
        /\ q.w.direct = TRUE /\ q.w.doscroll = v.doscroll
    BY <1>12 DEF Wins
  <2>2. r.w.direct = TRUE /\ r.w.doscroll = TRUE
    BY FineFields
  <2> QED BY <1>2, <1>8, <1>10, <2>1, <2>2 DEF Fixed
<1>14. Kept(r.s, q.s) /\ Kept(r.s, e.s)
  BY <1>2, <1>8, <1>10, <1>11 DEF Does, Kept, RedrawDone
<1>15. Does(r, q)
  BY <1>11, <1>13, <1>14 DEF Does, RedrawDone
<1>16. ASSUME Shows(r), ~LostColumn(r) PROVE Shows(q)
  <2>1. InMemory(r.s, e.s, r.w) /\ e.w.y1 = r.w.y1 /\ e.w.y2 = r.w.y2
    BY <1>2, <1>8, <1>10 DEF InMemory, Fixed
  <2>2. Same(r.s) /\ r.s \in Ttys /\ e.s \in Ttys /\ r.w.y1 \in YS /\ e.s.on = r.s.on
    BY <1>14, <1>16, FineFields DEF Shows, Kept
  <2>3. e.s.on => \A p \in Cells : p[2] \notin e.w.y1 .. e.w.y2 => e.s.m[p] = e.s.g[p]
    BY <2>1, <2>2 DEF Same, InMemory
  <2> DEFINE g == gotoxy(e.s, 0, r.w.y1)
  <2>4. Sync(g)
    <3>1. CASE e.s.cx = 0 /\ e.s.cy = r.w.y1
      <4>1. g = e.s
        BY <2>2, <3>1, Gotoxy
      <4>2. e.s.cx = r.s.cx
        BY <1>16, <2>1, <3>1 DEF InMemory, LostColumn
      <4>3. Sync(e.s)
        BY <2>1, <2>2, <4>2 DEF Sync, Same, InMemory
      <4> QED BY <4>1, <4>3
    <3>2. CASE ~(e.s.cx = 0 /\ e.s.cy = r.w.y1)
      <4>1. g.cx = 0 /\ g.cy = r.w.y1 /\ g.on = e.s.on /\ (e.s.on => g.dx = 0 /\ g.dy = r.w.y1)
        BY <2>2, <3>2, Gotoxy
      <4> HIDE DEF g
      <4> QED BY <4>1 DEF Sync
    <3> QED BY <3>1, <3>2
  <2> QED BY <1>11, <2>1, <2>3, <2>4 DEF RedrawDone
<1> QED BY <1>1, <1>15, <1>16

-----------------------------------------------------------------------------
(* The specification of the window.                                        *)

(* A new window, with or without a row for a title.                        *)
LEMMA NewWindow ==
  ASSUME NEW ya \in YS, NEW yb \in YS, ya <= yb
  PROVE  LET s == NewTty(ya, yb)
             w == NewWin(ya, yb) IN
         /\ s \in Ttys /\ s.on /\ Titled(s, ya) /\ Same(s) /\ s.last[1] = COLS - 1
         /\ WinOk(w) /\ w \in Wins /\ w.y1 = ya /\ w.direct /\ w.doscroll /\ w.curx = 0 /\ w.cury = 0
<1> USE SizesOk
<1> DEFINE image == [p \in Cells |-> IF p[2] < ya THEN Title ELSE " "]
           s == NewTty(ya, yb)
           w == NewWin(ya, yb)
           sp == " "
<1>1. s = [g |-> image, cx |-> 0, cy |-> ya, last |-> <<COLS - 1, yb, sp>>,
           m |-> image, dx |-> 0, dy |-> ya, on |-> TRUE, saved |-> <<>>]
  BY Zenon DEF NewTty
<1>2. image \in [Cells -> Chars] /\ \A p \in Cells : p[2] < ya <=> image[p] = Title
  BY CharFacts
<1>3. image \in [Cells -> Shown]
  BY <1>2, CharFacts
<1>35. sp \in Chars
  BY CharFacts
<1> HIDE DEF image, s, sp
<1>4. 0 \in XS /\ COLS - 1 \in XS /\ ya \in Int /\ yb \in Int
  BY DEF XS, YS
<1>5. s \in Ttys
  BY <1>1, <1>2, <1>3, <1>35, <1>4 DEF Ttys
<1>6. s.g = image /\ s.m = image /\ s.cx = 0 /\ s.cy = ya /\ s.dx = 0 /\ s.dy = ya /\ s.on
      /\ s.last = <<COLS - 1, yb, sp>>
  BY <1>1
<1>7. Titled(s, ya) /\ Same(s) /\ s.last[1] = COLS - 1
  <2>1. Titled(s, ya)
    BY <1>2, <1>6 DEF Titled
  <2>2. Same(s)
    BY <1>6 DEF Same, Sync
  <2> QED BY <1>6, <2>1, <2>2
<1>8. w \in Wins /\ WinOk(w) /\ w.y1 = ya /\ w.direct /\ w.doscroll /\ w.curx = 0 /\ w.cury = 0
  <2>1. w = [y1 |-> ya, y2 |-> yb, sy1 |-> ya, sy2 |-> yb, curx |-> 0, cury |-> 0,
             wrap |-> TRUE, direct |-> TRUE, doscroll |-> TRUE]
    BY DEF NewWin
  <2> HIDE DEF w
  <2>2. 0 \in 0 .. COLS /\ 0 \in 0 .. LINES
    OBVIOUS
  <2>3. w \in Wins
    BY <1>4, <2>1, <2>2 DEF Wins
  <2>4. w.y1 = ya /\ w.y2 = yb /\ w.sy1 = ya /\ w.sy2 = yb /\ w.curx = 0 /\ w.cury = 0 /\ w.direct /\ w.doscroll
    BY <2>1
  <2>6. RegionOk(w)
    BY <1>4, <2>3, <2>4 DEF RegionOk
  <2>7. WinOk(w)
    BY <1>4, <2>4, <2>6 DEF WinOk
  <2> QED BY <2>3, <2>4, <2>7
<1> QED BY <1>5, <1>6, <1>7, <1>8 DEF s

LEMMA WindowInitInv == WindowInit => WindowInv
<1> USE SizesOk
<1> SUFFICES ASSUME WindowInit PROVE WindowInv
  OBVIOUS
<1>1. PICK y1 \in YS, y2 \in YS :
        y1 <= y2 /\ tty = NewTty(y1, y2) /\ win = NewWin(y1, y2) /\ redraw = FALSE /\ torn = FALSE /\ ncall = 0
  <2>1. PICK r \in {<<0, LINES - 1>>, <<1, LINES - 2>>} :
          /\ tty = NewTty(r[1], r[2]) /\ win = NewWin(r[1], r[2])
          /\ redraw = FALSE /\ torn = FALSE /\ ncall = 0
    BY Zenon DEF WindowInit
  <2>2. r[1] \in YS /\ r[2] \in YS /\ r[1] <= r[2]
    BY DEF YS
  <2> QED BY <2>1, <2>2
<1>2. /\ tty \in Ttys /\ tty.on /\ Titled(tty, y1) /\ Same(tty)
      /\ WinOk(win) /\ win.y1 = y1 /\ win.direct /\ win.doscroll /\ win.curx = 0
  BY <1>1, NewWindow
<1>3. Ready(tty, win.curx, win.y1 + win.cury)
  BY <1>2, ReadyFirst
<1> QED BY <1>1, <1>2, <1>3 DEF WindowInv

LEMMA NowOk ==
  ASSUME WindowInv
  PROVE  /\ Now.s = tty /\ Now.w = win /\ Fine(Now) /\ Now.w.direct /\ Now.w.doscroll
         /\ ~redraw /\ ~torn => Shows(Now)
<1>1. Now.s = tty /\ Now.w = win
  BY DEF Now
<1>2. Now \in Pairs
  BY DEF Now, Pairs, WindowInv, WinOk, RegionOk
<1> QED BY <1>1, <1>2 DEF WindowInv, Fine, Shows

(* A call of the process keeps the invariant.                              *)
LEMMA CallsInv ==
  ASSUME WindowInv, NEW q, NEW tears, Calls(q, tears), Fine(q), Kept(tty, q.s),
         q.w.direct, q.w.doscroll, ~redraw /\ ~torn /\ ~tears => Shows(q)
  PROVE  WindowInv'
<1>1. /\ tty' = q.s /\ win' = q.w /\ redraw' = redraw /\ ncall' = ncall + 1
      /\ torn' = (torn \/ tears)
  BY DEF Calls
<1>2. tty' \in Ttys /\ tty'.on = tty.on /\ tty'.saved = tty.saved
  BY <1>1 DEF Kept
<1>3. WinOk(win') /\ Titled(tty', win'.y1)
  BY <1>1, FineFields
<1>4. torn' \in BOOLEAN /\ redraw' \in BOOLEAN /\ ncall' \in Nat
  BY <1>1 DEF WindowInv
<1>5. ~redraw' /\ ~torn' => Same(tty') /\ Ready(tty', win'.curx, win'.y1 + win'.cury)
  BY <1>1 DEF Shows
<1>6. ~tty'.on => tty'.saved \in XS \X YS
  BY <1>2 DEF WindowInv
<1>7. win'.direct /\ win'.doscroll
  BY <1>1
<1> QED BY <1>2, <1>3, <1>4, <1>5, <1>6, <1>7 DEF WindowInv, WinOk, RegionOk, Titled, Same, Sync, Ready

(* ... as most of them do it: all but the cursor of the window stays.      *)
LEMMA DoesInv ==
  ASSUME WindowInv, NEW q, NEW tears, Calls(q, tears), Does(Now, q),
         ~tears /\ Shows(Now) => Shows(q)
  PROVE  WindowInv'
<1>1. Fine(q) /\ Kept(tty, q.s) /\ q.w.direct /\ q.w.doscroll
  BY NowOk DEF Does, Fixed
<1>2. ~redraw /\ ~torn /\ ~tears => Shows(q)
  BY NowOk
<1> QED BY <1>1, <1>2, CallsInv

LEMMA GoesInv ==
  ASSUME WindowInv, NEW q, Calls(q, FALSE), Goes(Now, q)
  PROVE  WindowInv'
<1>1. Does(Now, q) /\ (Shows(Now) => Shows(q))
  BY NowOk DEF Goes
<1> QED BY <1>1, DoesInv

LEMMA RegionInv ==
  ASSUME WindowInv, NEW a \in 0 .. Ys(win) - 1, NEW b \in 0 .. Ys(win) - 1, SetRegion(a, b)
  PROVE  WindowInv'
<1> DEFINE v == [win EXCEPT !.sy1 = win.y1 + a, !.sy2 = win.y1 + b]
           q == [Now EXCEPT !.w.sy1 = win.y1 + a, !.w.sy2 = win.y1 + b]
<1>0. Fine(Now) /\ Now.w = win /\ Now.s = tty
  BY NowOk
<1>1. win \in Wins /\ WinOk(win) /\ RegionOk(win) /\ win.y1 \in YS /\ win.y2 \in YS /\ Titled(tty, win.y1)
      /\ tty \in Ttys
  BY <1>0, FineFields
<1>2. win.y1 + a \in YS /\ win.y1 + b \in YS /\ win.y1 <= win.y1 + a /\ win.y1 + a <= win.y2
      /\ win.y1 <= win.y1 + b /\ win.y1 + b <= win.y2
  BY <1>1, SizesOk DEF YS, Ys
<1>3. q = [s |-> tty, w |-> v]
  <2> DEFINE ya == win.y1 + a
             yb == win.y1 + b
             u == [win EXCEPT !.sy1 = ya]
             o == [Now EXCEPT !.w.sy1 = ya]
  <2> HIDE DEF ya, yb
  <2>1. v = [u EXCEPT !.sy2 = yb]
    BY <1>1 DEF Wins, ya, yb
  <2>2. o = [s |-> tty, w |-> u]
    <3> HIDE DEF u
    <3> QED BY DEF Now, u
  <2>3. q = [o EXCEPT !.w.sy2 = yb]
    BY DEF ya, yb
  <2> HIDE DEF u, o, q, v
  <2> QED BY <2>1, <2>2, <2>3
<1>4. v \in Wins /\ v.y1 = win.y1 /\ v.y2 = win.y2 /\ v.sy1 = win.y1 + a /\ v.sy2 = win.y1 + b
      /\ v.curx = win.curx /\ v.cury = win.cury /\ v.direct = win.direct /\ v.doscroll = win.doscroll
  BY <1>1, <1>2 DEF Wins
<1> HIDE DEF v
<1>5. WinOk(v)
  BY <1>1, <1>2, <1>4 DEF WinOk, RegionOk
<1>6. Calls(q, FALSE)
  BY DEF SetRegion
<1> HIDE DEF q
<1>7. q.s = tty /\ q.w = v /\ Fine(q)
  BY <1>1, <1>3, <1>4, <1>5 DEF Fine, Pairs
<1>8. q.w.direct /\ q.w.doscroll /\ Kept(tty, q.s) /\ (~redraw /\ ~torn => Shows(q))
  BY <1>1, <1>4, <1>7 DEF WindowInv, Kept, Shows
<1> QED BY <1>6, <1>7, <1>8, CallsInv

LEMMA WrapInv ==
  ASSUME WindowInv, SetWrap
  PROVE  WindowInv'
<1> DEFINE v == [win EXCEPT !.wrap = ~win.wrap]
           q == [Now EXCEPT !.w.wrap = ~win.wrap]
<1>0. Fine(Now) /\ Now.w = win /\ Now.s = tty
  BY NowOk
<1>1. win \in Wins /\ WinOk(win) /\ Titled(tty, win.y1) /\ tty \in Ttys
  BY <1>0, FineFields
<1>2. q = [s |-> tty, w |-> v]
  BY DEF Now
<1>3. v \in Wins /\ v.y1 = win.y1 /\ v.y2 = win.y2 /\ v.sy1 = win.sy1 /\ v.sy2 = win.sy2
      /\ v.curx = win.curx /\ v.cury = win.cury /\ v.direct = win.direct /\ v.doscroll = win.doscroll
  BY <1>1 DEF Wins
<1> HIDE DEF v
<1>4. WinOk(v)
  BY <1>1, <1>3 DEF WinOk, RegionOk
<1>5. Calls(q, FALSE)
  BY DEF SetWrap
<1> HIDE DEF q
<1>6. q.s = tty /\ q.w = v /\ Fine(q)
  BY <1>1, <1>2, <1>3, <1>4 DEF Fine, Pairs
<1>7. q.w.direct /\ q.w.doscroll /\ Kept(tty, q.s) /\ (~redraw /\ ~torn => Shows(q))
  BY <1>1, <1>3, <1>6 DEF WindowInv, Kept, Shows
<1> QED BY <1>5, <1>6, <1>7, CallsInv

(* The console shows another screen, and comes back.                       *)
LEMMA SwitchAwayInv ==
  ASSUME WindowInv, SwitchAway
  PROVE  WindowInv'
<1>1. tty \in Ttys
  BY DEF WindowInv
<1>2. tty' = [tty EXCEPT !.on = FALSE, !.saved = <<tty.dx, tty.dy>>, !.m = Foreign]
      /\ win' = win /\ redraw' = redraw /\ torn' = torn /\ ncall' = ncall + 1
  BY DEF SwitchAway
<1>3. Foreign \in [Cells -> Shown] /\ <<tty.dx, tty.dy>> \in XS \X YS
  BY <1>1, CharFacts, TtyFields DEF Foreign
<1>4. tty' \in Ttys /\ tty'.g = tty.g /\ ~tty'.on /\ tty'.saved = <<tty.dx, tty.dy>>
  BY <1>1, <1>2, <1>3 DEF Ttys
<1>5. Same(tty') /\ Ready(tty', win'.curx, win'.y1 + win'.cury)
  BY <1>4 DEF Same, Sync, Ready
<1>6. Titled(tty', win'.y1)
  BY <1>2, <1>4 DEF Titled, WindowInv
<1>7. WinOk(win') /\ win'.direct /\ win'.doscroll /\ redraw' \in BOOLEAN /\ torn' \in BOOLEAN /\ ncall' \in Nat
  BY <1>2 DEF WindowInv
<1> QED BY <1>3, <1>4, <1>5, <1>6, <1>7 DEF WindowInv, WinOk, RegionOk, Titled, Same, Sync, Ready

LEMMA SwitchBackInv ==
  ASSUME WindowInv, SwitchBack
  PROVE  WindowInv'
<1>1. tty \in Ttys /\ (~tty.on => tty.saved \in XS \X YS)
  BY DEF WindowInv
<1>2. tty' = IF tty.on THEN tty
             ELSE [tty EXCEPT !.on = TRUE, !.dx = tty.saved[1], !.dy = tty.saved[2], !.saved = <<>>]
  BY DEF SwitchBack
<1>3. win' = win /\ redraw' = TRUE /\ torn' = torn /\ ncall' = ncall + 1
  BY DEF SwitchBack
<1>4. tty' \in Ttys /\ tty'.g = tty.g /\ tty'.on
  <2>1. CASE tty.on
    BY <1>1, <1>2, <2>1
  <2>2. CASE ~tty.on
    <3>1. tty.saved[1] \in XS /\ tty.saved[2] \in YS
      BY <1>1, <2>2
    <3> QED BY <1>1, <1>2, <2>2, <3>1 DEF Ttys
  <2> QED BY <2>1, <2>2
<1>5. Titled(tty', win'.y1)
  BY <1>3, <1>4 DEF Titled, WindowInv
<1>6. WinOk(win') /\ win'.direct /\ win'.doscroll /\ redraw' /\ redraw' \in BOOLEAN
      /\ torn' \in BOOLEAN /\ ncall' \in Nat
  BY <1>3 DEF WindowInv
<1> QED BY <1>4, <1>5, <1>6 DEF WindowInv, WinOk, RegionOk, Titled, Same, Sync, Ready

LEMMA RedrawInv ==
  ASSUME WindowInv, Redraw
  PROVE  WindowInv'
<1>1. tty \in Ttys
  BY DEF WindowInv
<1>2. tty' = vtty_wrestore(vga_putc(vga_goto(tty, 0, 0), "1")) /\ redraw' = FALSE
      /\ torn' = (tty.cx = 0 /\ tty.cy = 0) /\ win' = win /\ ncall' = ncall
  BY DEF Redraw
<1>3. RestoreDone(tty, tty')
  BY <1>1, <1>2, Wrestore
<1>4. tty' \in Ttys /\ tty'.g = tty.g /\ tty'.on = tty.on /\ tty'.saved = tty.saved
  BY <1>3 DEF RestoreDone, Kept
<1>5. ~redraw' /\ ~torn' => Same(tty') /\ Ready(tty', win'.curx, win'.y1 + win'.cury)
  BY <1>2, <1>3 DEF RestoreDone
<1>6. Titled(tty', win'.y1)
  BY <1>2, <1>4 DEF Titled, WindowInv
<1>7. WinOk(win') /\ win'.direct /\ win'.doscroll /\ redraw' \in BOOLEAN /\ torn' \in BOOLEAN /\ ncall' \in Nat
      /\ (~tty'.on => tty'.saved \in XS \X YS)
  BY <1>2, <1>4 DEF WindowInv
<1> QED BY <1>4, <1>5, <1>6, <1>7 DEF WindowInv, WinOk, RegionOk, Titled, Same, Sync, Ready

(* Clearing, scrolling, inserting and deleting.                            *)
LEMMA ClearInv ==
  ASSUME WindowInv, Clear
  PROVE  WindowInv'
<1>1. PICK q \in {vtty_wclrel(Now), vtty_wclreol(Now), vtty_wclrbol(Now), vtty_wclreos(Now),
                  vtty_wclrbos(Now), vtty_winclr(Now)} : Calls(q, FALSE)
  BY DEF Clear
<1>2. Fine(Now)
  BY NowOk
<1>3. Goes(Now, q)
  <2>1. CASE q = vtty_wclrel(Now)
    BY <1>2, <2>1, Wclrel, AnyGoes
  <2>2. CASE q = vtty_wclreol(Now)
    BY <1>2, <2>2, Wclreol
  <2>3. CASE q = vtty_wclrbol(Now)
    BY <1>2, <2>3, Wclrbol, AnyGoes
  <2>4. CASE q = vtty_wclreos(Now)
    BY <1>2, <2>4, Wclreos
  <2>5. CASE q = vtty_wclrbos(Now)
    BY <1>2, <2>5, Wclrbos, AnyGoes
  <2>6. CASE q = vtty_winclr(Now)
    BY <1>2, <2>6, Winclr, AnyGoes
  <2> QED BY <1>1, <2>1, <2>2, <2>3, <2>4, <2>5, <2>6
<1> QED BY <1>1, <1>3, GoesInv

LEMMA TopRow ==
  ASSUME WindowInv, ~RowShows
  PROVE  TopBlank(Now.s)
  BY NowOk DEF RowShows, TopBlank, XS

LEMMA ScrollInv ==
  ASSUME WindowInv, NEW dir \in {"up", "down"}, Scroll(dir)
  PROVE  WindowInv'
<1> DEFINE q == vtty_wscroll(Now, dir, FALSE)
           tears == dir = "down" /\ Physical(win) /\ RowShows
<1>1. Fine(Now) /\ Now.w = win /\ Now.w.direct /\ Now.s = tty
  BY NowOk
<1>2. Now \in Pairs /\ RegionOk(Now.w) /\ Titled(Now.s, Now.w.y1)
  BY <1>1, FineFields
<1>3. ScrollDone(Now, q, dir, FALSE)
  BY <1>2, Wscroll
<1>4. Calls(q, tears)
  BY DEF Scroll
<1> HIDE DEF q
<1>5. Does(Now, q)
  BY <1>3 DEF ScrollDone
<1>6. ~tears /\ Shows(Now) => Shows(q)
  BY <1>1, <1>3, TopRow DEF ScrollDone, Shows
<1> HIDE DEF tears
<1> QED BY <1>4, <1>5, <1>6, DoesInv

LEMMA InsertLineInv ==
  ASSUME WindowInv, InsertLine
  PROVE  WindowInv'
<1> DEFINE q == vtty_winsline(Now)
           tears == Physical(FromCursor(win)) /\ RowShows
<1>1. Fine(Now) /\ Now.w = win /\ Now.w.direct
  BY NowOk
<1>2. Does(Now, q) /\ (Now.w.direct /\ Same(Now.s) /\ (Physical(FromCursor(Now.w)) => TopBlank(Now.s)) => Shows(q))
  BY <1>1, Winsline
<1>3. Calls(q, tears)
  BY DEF InsertLine
<1> HIDE DEF q
<1>4. ~tears /\ Shows(Now) => Shows(q)
  BY <1>1, <1>2, TopRow DEF Shows
<1> HIDE DEF tears
<1> QED BY <1>2, <1>3, <1>4, DoesInv

LEMMA OtherCallsInv ==
  ASSUME WindowInv
  PROVE  /\ \A c \in Printable \cup Control : Put(c) => WindowInv'
         /\ \A x \in 0 .. COLS - 1, y \in 0 .. Ys(win) - 1 : Locate(x, y) => WindowInv'
         /\ \A n \in {1, 2} : ClearChars(n) => WindowInv'
         /\ DeleteLine \/ InsertChar \/ DeleteChar \/ Test => WindowInv'
<1>1. Fine(Now) /\ Now.w = win /\ Now.w.direct /\ Now.w.doscroll /\ Now.s = tty
  BY NowOk
<1>2. ASSUME NEW c \in Printable \cup Control, Put(c) PROVE WindowInv'
  <2> DEFINE q == vtty_wputc(Now, c)
             tears == c \in Printable /\ ~win.wrap /\ win.curx >= COLS
  <2>1. WputcDone(Now, q, c)
    BY <1>1, Wputc
  <2>2. Calls(q, tears) /\ (c = "HT" => win.wrap)
    BY <1>2 DEF Put
  <2> HIDE DEF q
  <2>3. Does(Now, q) /\ (~tears /\ Shows(Now) => Shows(q))
    BY <1>1, <2>1, <2>2 DEF WputcDone
  <2> HIDE DEF tears
  <2> QED BY <2>2, <2>3, DoesInv
<1>3. ASSUME NEW x \in 0 .. COLS - 1, NEW y \in 0 .. Ys(win) - 1, Locate(x, y) PROVE WindowInv'
  <2> DEFINE q == vtty_wlocate(Now, x, y)
  <2>1. Now \in Pairs /\ RegionOk(Now.w) /\ Titled(Now.s, Now.w.y1) /\ x \in Int /\ y \in Int
    BY <1>1, FineFields
  <2>2. Does(Now, q) /\ (Now.w.direct /\ Same(Now.s) => Shows(q))
    BY <2>1, Locates0
  <2>3. Calls(q, FALSE)
    BY <1>3 DEF Locate
  <2> HIDE DEF q
  <2>4. Goes(Now, q)
    BY <2>2, AnyGoes DEF GoesAny
  <2> QED BY <2>3, <2>4, GoesInv
<1>4. ASSUME NEW n \in {1, 2}, ClearChars(n) PROVE WindowInv'
  <2> DEFINE q == vtty_wclrch(Now, n)
  <2>1. Does(Now, q) /\ (Now.w.direct /\ Shows(Now) /\ ~AfterHigh(Now) => Shows(q))
    BY <1>1, Wclrch
  <2>2. Calls(q, AfterHigh(Now))
    BY <1>1, <1>4 DEF ClearChars, AfterHigh
  <2> HIDE DEF q
  <2> QED BY <1>1, <2>1, <2>2, DoesInv
<1>5. ASSUME DeleteLine PROVE WindowInv'
  <2>1. Goes(Now, vtty_wdelline(Now)) /\ Calls(vtty_wdelline(Now), FALSE)
    BY <1>1, <1>5, Wdelline, AnyGoes DEF DeleteLine
  <2> QED BY <2>1, GoesInv
<1>6. ASSUME InsertChar PROVE WindowInv'
  <2> DEFINE q == vtty_winschar2(Now, " ", FALSE)
             tears == ~win.wrap /\ win.curx >= COLS
  <2>1. Does(Now, q) /\ (Now.w.direct /\ Shows(Now) /\ ~(~Now.w.wrap /\ Now.w.curx >= COLS) => Shows(q))
    BY <1>1, CharFacts, Winschar
  <2>2. Calls(q, tears)
    BY <1>6 DEF InsertChar
  <2> HIDE DEF q
  <2>3. ~tears /\ Shows(Now) => Shows(q)
    BY <1>1, <2>1
  <2> HIDE DEF tears
  <2> QED BY <2>1, <2>2, <2>3, DoesInv
<1>7. ASSUME DeleteChar PROVE WindowInv'
  <2>1. Goes(Now, vtty_wdelchar(Now)) /\ Calls(vtty_wdelchar(Now), FALSE)
    BY <1>1, <1>7, Wdelchar DEF DeleteChar
  <2> QED BY <2>1, GoesInv
<1>8. ASSUME Test PROVE WindowInv'
  <2> DEFINE q == Selftest(Now)
  <2>1. Does(Now, q) /\ (Shows(Now) /\ ~LostColumn(Now) => Shows(q))
    BY <1>1, SelftestOk
  <2>2. Calls(q, LostColumn(Now))
    BY <1>1, <1>8 DEF Test, LostColumn
  <2> HIDE DEF q
  <2> QED BY <2>1, <2>2, DoesInv
<1> QED BY <1>2, <1>3, <1>4, <1>5, <1>6, <1>7, <1>8

LEMMA WindowNextInv ==
  ASSUME WindowInv, [WindowNext]_windowVars
  PROVE  WindowInv'
<1>1. CASE UNCHANGED windowVars
  <2>1. tty' = tty /\ win' = win /\ redraw' = redraw /\ torn' = torn /\ ncall' = ncall
    BY <1>1 DEF windowVars
  <2> QED BY <2>1 DEF WindowInv, WinOk, RegionOk, Titled, Same, Sync, Ready
<1>2. CASE WindowNext
  <2>1. CASE \E c \in Printable \cup Control : Put(c)
    BY <2>1, OtherCallsInv, Zenon
  <2>2. CASE \E x \in 0 .. COLS - 1, y \in 0 .. Ys(win) - 1 : Locate(x, y)
    BY <2>2, OtherCallsInv, Zenon
  <2>3. CASE \E n \in {1, 2} : ClearChars(n)
    BY <2>3, OtherCallsInv, Zenon
  <2>4. CASE Clear
    BY <2>4, ClearInv
  <2>5. CASE \E dir \in {"up", "down"} : Scroll(dir)
    BY <2>5, ScrollInv, Zenon
  <2>6. CASE InsertLine
    BY <2>6, InsertLineInv
  <2>7. CASE DeleteLine \/ InsertChar \/ DeleteChar \/ Test
    BY <2>7, OtherCallsInv, Zenon
  <2>8. CASE \E a, b \in 0 .. Ys(win) - 1 : a < b /\ SetRegion(a, b)
    BY <2>8, RegionInv, Zenon
  <2>9. CASE SetWrap
    BY <2>9, WrapInv
  <2>10. CASE SwitchAway
    BY <2>10, SwitchAwayInv
  <2>11. CASE SwitchBack
    BY <2>11, SwitchBackInv
  <2>12. CASE Redraw
    BY <2>12, RedrawInv
  <2> QED BY <1>2, <2>1, <2>2, <2>3, <2>4, <2>5, <2>6, <2>7, <2>8, <2>9, <2>10, <2>11, <2>12, Zenon
          DEF WindowNext
<1> QED BY <1>1, <1>2

(* The invariant is enough for what is promised of the window.             *)
LEMMA WindowInvSound == WindowInv => WindowSound
<1> SUFFICES ASSUME WindowInv PROVE WindowSound
  OBVIOUS
<1>1. ScreenShows
  BY DEF WindowInv, ScreenShows, Same
<1>2. TitleKept
  BY DEF WindowInv, TitleKept, Titled
<1> QED BY <1>1, <1>2 DEF WindowSound

-----------------------------------------------------------------------------
(* The emulator.                                                           *)

(* The window of the emulator, and a step of it that keeps the region.     *)
Screen(v) == WinOk(v) /\ v.y1 = 0 /\ v.y2 = LINES - 1 /\ v.direct /\ v.doscroll
Steps(v, u) == Screen(u) /\ u.sy1 = v.sy1 /\ u.sy2 = v.sy2

Modes == [om : BOOLEAN, addlf : BOOLEAN, addcr : BOOLEAN, wrap : BOOLEAN]

(* The region of the emulator is that of its window, and is not empty.     *)
RegionsInv == Screen(vw) /\ newy = <<vw.sy1, vw.sy2>> /\ vw.sy1 < vw.sy2
(* The parameters are clear in the states that read none.                  *)
ParmsInv == /\ esc \in 0..7 /\ ptr \in 0 .. PtrMax /\ parms \in [0 .. NParms - 1 -> Int]
            /\ cut \in BOOLEAN
            /\ esc \notin {2, 3} /\ ~cut => ptr = 0 /\ parms = NoParms
(* The types of the rest.                                                  *)
ModesInv == vmode \in Modes /\ vtabs \in SUBSET Nat /\ vsave \in Nat \X Nat
(* The emulator.                                                           *)
VtInv == RegionsInv /\ ParmsInv /\ ModesInv

LEMMA ScreenFields ==
  ASSUME NEW v, Screen(v)
  PROVE  /\ v \in Wins /\ v.curx \in Nat /\ v.cury \in Nat /\ v.sy1 \in YS /\ v.sy2 \in YS
         /\ v.y1 = 0 /\ v.y2 = LINES - 1 /\ v.wrap \in BOOLEAN /\ WinOk(v) /\ RegionOk(v)
<1>1. v \in Wins /\ WinOk(v) /\ RegionOk(v) /\ v.y1 = 0 /\ v.y2 = LINES - 1
  BY DEF Screen, WinOk, RegionOk
<1> QED BY <1>1, WinFields, SizesOk

LEMMA OnOk ==
  ASSUME NEW v, Screen(v)
  PROVE  Fine(On(v)) /\ On(v).w = v
<1> DEFINE s == NewTty(0, LINES - 1)
<1>1. 0 \in YS /\ LINES - 1 \in YS /\ 0 <= LINES - 1
  BY SizesOk DEF YS
<1>2. s \in Ttys /\ Titled(s, 0)
  BY <1>1, NewWindow
<1> HIDE DEF s
<1>3. On(v) = [s |-> s, w |-> v]
  BY DEF On, s
<1>4. On(v).s = s /\ On(v).w = v
  BY <1>3
<1>5. v \in Wins /\ WinOk(v) /\ v.y1 = 0
  BY ScreenFields
<1>6. On(v) \in Pairs
  BY <1>2, <1>3, <1>5 DEF Pairs
<1> QED BY <1>2, <1>4, <1>5, <1>6 DEF Fine

LEMMA DoesScreen ==
  ASSUME NEW v, Screen(v), NEW q, Does(On(v), q)
  PROVE  Steps(v, q.w)
<1>1. Fixed(v, q.w) /\ Fine(q)
  BY OnOk DEF Does
<1>2. WinOk(q.w)
  BY <1>1, FineFields
<1> QED BY <1>1, <1>2 DEF Fixed, Steps, Screen

LEMMA StepsTwice == \A v, u, z : Steps(v, u) /\ Steps(u, z) => Steps(v, z)
  BY DEF Steps

LEMMA StepsSelf == \A v : Screen(v) => Steps(v, v)
  BY DEF Steps

LEMMA LocatesOk ==
  ASSUME NEW v, Screen(v), NEW x \in Int, NEW y \in Int
  PROVE  Steps(v, Locates(v, x, y))
<1>1. Fine(On(v))
  BY OnOk
<1>2. On(v) \in Pairs /\ RegionOk(On(v).w) /\ Titled(On(v).s, On(v).w.y1)
  BY <1>1, FineFields
<1>3. Does(On(v), vtty_wlocate(On(v), x, y))
  BY <1>2, Locates0
<1> QED BY <1>3, DoesScreen DEF Locates

LEMMA PutsOk ==
  ASSUME NEW v, Screen(v), NEW c \in Printable \cup Control
  PROVE  Steps(v, Puts(v, c))
<1>1. WputcDone(On(v), vtty_wputc(On(v), c), c)
  BY OnOk, Wputc
<1>2. Does(On(v), vtty_wputc(On(v), c))
  BY <1>1 DEF WputcDone
<1> QED BY <1>2, DoesScreen DEF Puts

LEMMA WscrollStep ==
  ASSUME NEW v, Screen(v), NEW dir \in {"up", "down"}
  PROVE  Steps(v, vtty_wscroll(On(v), dir, FALSE).w)
<1>1. Fine(On(v))
  BY OnOk
<1>2. On(v) \in Pairs /\ RegionOk(On(v).w) /\ Titled(On(v).s, On(v).w.y1)
  BY <1>1, FineFields
<1>3. ScrollDone(On(v), vtty_wscroll(On(v), dir, FALSE), dir, FALSE)
  BY <1>2, Wscroll
<1> QED BY <1>3, DoesScreen DEF ScrollDone

LEMMA ClearSteps ==
  ASSUME NEW v, Screen(v)
  PROVE  /\ Steps(v, vtty_wclrel(On(v)).w) /\ Steps(v, vtty_winclr(On(v)).w)
         /\ Steps(v, Selftest(On(v)).w)
<1>1. Fine(On(v)) /\ On(v).w.direct /\ On(v).w.doscroll
  BY OnOk DEF Screen
<1>2. Does(On(v), vtty_wclrel(On(v)))
  BY <1>1, Wclrel DEF GoesAny
<1>3. Does(On(v), vtty_winclr(On(v)))
  BY <1>1, Winclr DEF GoesAny
<1>4. Does(On(v), Selftest(On(v)))
  BY <1>1, SelftestOk
<1> QED BY <1>2, <1>3, <1>4, DoesScreen

(* Lines and characters inserted or deleted, in a loop.                    *)
Edits == {"L", "M", "P", "@"}

LEMMA EditStep ==
  ASSUME NEW v, Screen(v), NEW b \in Edits
  PROVE  Steps(v, Edit(b, On(v)).w)
<1>1. Fine(On(v))
  BY OnOk
<1>2. Does(On(v), Edit(b, On(v)))
  <2>1. CASE b = "L"
    <3>1. Edit(b, On(v)) = vtty_winsline(On(v))
      BY <2>1 DEF Edit
    <3> QED BY <1>1, <3>1, Winsline
  <2>2. CASE b = "M"
    <3>1. Edit(b, On(v)) = vtty_wdelline(On(v))
      BY <2>2 DEF Edit
    <3> QED BY <1>1, <3>1, Wdelline DEF GoesAny
  <2>3. CASE b = "P"
    <3>1. Edit(b, On(v)) = vtty_wdelchar(On(v))
      BY <2>3 DEF Edit
    <3> QED BY <1>1, <3>1, Wdelchar DEF Goes
  <2>4. CASE b = "@"
    <3>1. Edit(b, On(v)) = vtty_winschar2(On(v), " ", FALSE)
      BY <2>4 DEF Edit
    <3> QED BY <1>1, <3>1, CharFacts, Winschar
  <2> QED BY <2>1, <2>2, <2>3, <2>4 DEF Edits
<1> QED BY <1>2, DoesScreen

LEMMA RepeatOk ==
  ASSUME NEW v, Screen(v), NEW b \in Edits, NEW n \in Nat
  PROVE  Steps(v, Repeat(v, b, n))
<1> DEFINE X == {u \in Wins : Steps(v, u)}
           Eq(a) == a = [i \in 0..n |-> IF i = 0 THEN v ELSE Edit(b, On(a[i - 1])).w]
           a == CHOOSE a : Eq(a)
           G == [z \in (1..n) \X X |-> Edit(b, On(z[2])).w]
<1>0. v \in X
  BY ScreenFields, StepsSelf
<1>1. ASSUME NEW t \in X PROVE Edit(b, On(t)).w \in X
  <2> DEFINE d == Edit(b, On(t)).w
  <2>1. Steps(v, t) /\ Screen(t)
    BY DEF Steps
  <2>2. Steps(t, d)
    BY <2>1, EditStep
  <2> HIDE DEF d
  <2>3. Steps(v, d)
    BY <2>1, <2>2, StepsTwice
  <2>4. d \in Wins
    BY <2>3, ScreenFields DEF Steps
  <2> QED BY <2>3, <2>4 DEF d
<1>2. Repeat(v, b, n) = a[n]
  BY Zenon DEF Repeat, Loop
<1> HIDE DEF X
<1>3. \A i \in 1..n, t \in X : G[<<i, t>>] = Edit(b, On(t)).w
  OBVIOUS
<1>4. PICK d : States(X, v, G, n, d)
  <2>1. G \in [(1..n) \X X -> X]
    BY <1>1
  <2> HIDE DEF G
  <2> QED BY <2>1, <1>0, LoopExists
<1>5. Eq(d)
  <2> HIDE DEF G
  <2>1. ASSUME NEW i \in 0..n PROVE d[i] = (IF i = 0 THEN v ELSE Edit(b, On(d[i - 1])).w)
    <3>2. CASE i = 0
      BY <1>4, <3>2 DEF States
    <3>3. CASE i # 0
      <4>1. i \in 1..n /\ i - 1 \in 0..n
        BY <3>3
      <4>2. d[i] = G[<<i, d[i - 1]>>] /\ d[i - 1] \in X
        BY <1>4, <4>1 DEF States
      <4> QED BY <1>3, <3>3, <4>1, <4>2
    <3> QED BY <3>2, <3>3
  <2> QED BY <1>4, <2>1 DEF States
<1>6. Eq(a)
  <2> HIDE DEF Eq
  <2> QED BY <1>5, Zenon
<1> HIDE DEF a
<1>7. a[0] = v /\ \A i \in 1..n : a[i] = Edit(b, On(a[i - 1])).w
  BY <1>6
<1>8. \A i \in 0..n : a[i] \in X
  <2>1. ASSUME NEW i \in 1..n, a[i - 1] \in X PROVE a[i] \in X
    BY <1>1, <1>7, <2>1
  <2> QED BY <1>0, <1>7, <2>1, LoopStays
<1> QED BY <1>2, <1>8 DEF X

(* An action that keeps the region, and one that leaves the parameters.    *)
LEMMA RegionKept ==
  ASSUME RegionsInv, Steps(vw, vw'), newy' = newy
  PROVE  RegionsInv'
  BY DEF RegionsInv, Steps, Screen, WinOk, RegionOk

LEMMA ParmsKept ==
  ASSUME ParmsInv, ptr' = ptr, parms' = parms, cut' = cut, esc' \in 0..7,
         esc' \notin {2, 3} => esc \notin {2, 3}
  PROVE  ParmsInv'
  BY DEF ParmsInv, NoParms

LEMMA ParmsEnded ==
  ASSUME ParmsInv, SequenceEnds
  PROVE  ParmsInv'
<1>1. NoParms \in [0 .. NParms - 1 -> Int] /\ 0 \in 0 .. PtrMax
  BY VtAssumption DEF NoParms
<1>2. esc' = 0 /\ ptr' = 0 /\ cut' = FALSE /\ parms' = NoParms
  BY DEF SequenceEnds
<1>3. NoParms' = NoParms
  BY DEF NoParms
<1>35. esc' \in 0..7
  BY <1>2
<1>4. esc' \in 0..7 /\ cut' \in BOOLEAN /\ ptr' \in 0 .. PtrMax /\ parms' \in [0 .. NParms - 1 -> Int]
  BY <1>1, <1>2, <1>35, Zenon
<1>5. ptr' = 0 /\ parms' = NoParms'
  BY <1>2, <1>3
<1> QED BY <1>4, <1>5, Zenon DEF ParmsInv

LEMMA ModesKept ==
  ASSUME ModesInv, vmode' = vmode, vtabs' = vtabs, vsave' = vsave
  PROVE  ModesInv'
  BY DEF ModesInv

(* What a variable of limited width holds is a number.                     *)
LEMMA WrappedOk ==
  ASSUME NEW n \in Int
  PROVE  Wrapped(n, IntHalf) \in Int /\ Short(n) \in Int /\ OrOne(n) \in Int
<1>1. ASSUME NEW half \in Nat \ {0} PROVE Wrapped(n, half) \in Int
  <2>1. 2 * half \in Nat \ {0} /\ n + half \in Int
    OBVIOUS
  <2>2. (n + half) % (2 * half) \in Int
    BY <2>1
  <2> QED BY <2>2 DEF Wrapped
<1>2. Wrapped(n, IntHalf) \in Int /\ Short(n) \in Int
  BY <1>1, VtAssumption DEF Short
<1> QED BY <1>2 DEF OrOne

LEMMA ParmOk ==
  ASSUME ParmsInv
  PROVE  parms[0] \in Int /\ parms[1] \in Int /\ OrOne(parms[0]) \in Int /\ OrOne(parms[1]) \in Int
<1>1. parms[0] \in Int /\ parms[1] \in Int
  BY VtAssumption DEF ParmsInv
<1> QED BY <1>1, WrappedOk

(* The next tabulator stop is a column.                                    *)
LEMMA NextTabOk ==
  ASSUME ModesInv, NEW v
  PROVE  NextTab(v) \in Int
<1> DEFINE later == {x \in vtabs : x > v.curx}
<1>1. later \in SUBSET Nat
  BY DEF ModesInv
<1>2. NextTab(v) = IF later = {} THEN COLS - 1 ELSE CHOOSE x \in later : \A y \in later : x <= y
  BY Zenon DEF NextTab
<1> HIDE DEF later
<1>3. CASE later = {}
  BY <1>2, <1>3, SizesOk
<1>4. CASE later # {}
  <2>1. \E x \in later : \A y \in later : x <= y
    BY <1>1, <1>4, LeastNumber
  <2>2. (CHOOSE x \in later : \A y \in later : x <= y) \in later
    BY <2>1, Zenon
  <2>3. NextTab(v) \in later
    BY <1>2, <1>4, <2>2, Zenon
  <2>4. NextTab(v) \in Nat
    BY <1>1, <2>3, Zenon
  <2> QED BY <2>4
<1> QED BY <1>3, <1>4

LEMMA VtControlInv ==
  ASSUME VtInv, NEW c \in Controls, VtControl(c)
  PROVE  VtInv'
<1>1. Screen(vw) /\ vw.curx \in Int /\ vw.cury \in Int /\ vw.cury - 1 \in Int /\ 0 \in Int
  BY ScreenFields DEF VtInv, RegionsInv
<1>2. "CR" \in Control /\ "NL" \in Control /\ "BS" \in Control
  BY DEF Control
<1>3. Steps(vw, ControlDone(c))
  <2>1. CASE c = "CR"
    <3>1. ControlDone(c) = IF vmode.addlf THEN Puts(Puts(vw, "CR"), "NL") ELSE Puts(vw, "CR")
      BY <2>1 DEF ControlDone
    <3>2. Steps(vw, Puts(vw, "CR"))
      BY <1>1, <1>2, PutsOk
    <3>3. Steps(Puts(vw, "CR"), Puts(Puts(vw, "CR"), "NL"))
      BY <1>2, <3>2, PutsOk DEF Steps
    <3> QED BY <3>1, <3>2, <3>3, StepsTwice
  <2>2. CASE c = "HT"
    <3>1. ControlDone(c) = Locates(vw, NextTab(vw), vw.cury)
      BY <2>2 DEF ControlDone
    <3>2. NextTab(vw) \in Int
      BY NextTabOk DEF VtInv
    <3> QED BY <1>1, <3>1, <3>2, LocatesOk
  <2>3. CASE c = "VT"
    <3>1. ControlDone(c) = Locates(vw, vw.curx, vw.cury - 1)
      BY <2>3 DEF ControlDone
    <3> QED BY <1>1, <3>1, LocatesOk
  <2>4. CASE c = "FF"
    <3> DEFINE u == vtty_winclr(On(vw)).w
    <3>1. ControlDone(c) = Locates(u, 0, 0)
      BY <2>4 DEF ControlDone
    <3>2. Steps(vw, u)
      BY <1>1, ClearSteps
    <3> HIDE DEF u
    <3>3. Steps(u, Locates(u, 0, 0))
      BY <1>1, <3>2, LocatesOk DEF Steps
    <3> QED BY <3>1, <3>2, <3>3, StepsTwice
  <2>5. CASE c = "NL"
    <3> DEFINE u == IF vmode.addcr THEN Puts(vw, "CR") ELSE vw
    <3>1. ControlDone(c) = Puts(u, "NL")
      BY <2>5 DEF ControlDone
    <3>2. Steps(vw, u)
      BY <1>1, <1>2, PutsOk, StepsSelf
    <3> HIDE DEF u
    <3>3. Steps(u, Puts(u, "NL"))
      BY <1>2, <3>2, PutsOk DEF Steps
    <3> QED BY <3>1, <3>2, <3>3, StepsTwice
  <2>6. CASE c = "BS"
    <3>1. ControlDone(c) = Puts(vw, "BS")
      BY <2>6 DEF ControlDone
    <3> QED BY <1>1, <1>2, <3>1, PutsOk
  <2> QED BY <2>2, <2>3, <2>4, <2>5, <2>6, <2>1 DEF Controls
<1>4. vw' = ControlDone(c) /\ newy' = newy /\ esc' = esc /\ ptr' = ptr /\ parms' = parms /\ cut' = cut
      /\ vmode' = vmode /\ vtabs' = vtabs /\ vsave' = vsave
  BY DEF VtControl
<1>5. RegionsInv' /\ ParmsInv' /\ ModesInv'
  BY <1>3, <1>4, RegionKept, ParmsKept, ModesKept DEF VtInv, ParmsInv
<1> QED BY <1>5 DEF VtInv

LEMMA VtBeginInv ==
  ASSUME VtInv, NEW c \in {"CAN", "ESC", "CSI"}, VtBegin(c)
  PROVE  VtInv'
<1>1. vw' = vw /\ newy' = newy /\ ptr' = ptr /\ parms' = parms /\ cut' = (cut \/ esc \in {2, 3})
      /\ vmode' = vmode /\ vtabs' = vtabs /\ vsave' = vsave
  BY DEF VtBegin
<1>2. esc' \in 0..2
  BY DEF VtBegin
<1>3. RegionsInv'
  BY <1>1, RegionKept, StepsSelf DEF VtInv, RegionsInv
<1>4. ModesInv'
  BY <1>1, ModesKept DEF VtInv
<1>5. ParmsInv'
  <2>1. NoParms' = NoParms
    BY DEF NoParms
  <2>2. esc' \in 0..7 /\ cut' \in BOOLEAN /\ ptr' \in 0 .. PtrMax /\ parms' \in [0 .. NParms - 1 -> Int]
    BY <1>1, <1>2 DEF ParmsInv, VtInv
  <2>3. ~cut' => ptr' = 0 /\ parms' = NoParms'
    BY <1>1, <2>1 DEF ParmsInv, VtInv
  <2> QED BY <2>2, <2>3, Zenon DEF ParmsInv
<1> QED BY <1>3, <1>4, <1>5 DEF VtInv

LEMMA VtCharInv ==
  ASSUME VtInv, VtChar
  PROVE  VtInv'
<1>1. vw' = Puts(vw, "a") /\ newy' = newy /\ esc' = esc /\ ptr' = ptr /\ parms' = parms /\ cut' = cut
      /\ vmode' = vmode /\ vtabs' = vtabs /\ vsave' = vsave
  BY DEF VtChar
<1>2. Steps(vw, vw')
  <2>1. "a" \in Printable \cup Control
    BY DEF Printable
  <2> QED BY <1>1, <2>1, PutsOk DEF VtInv, RegionsInv
<1>3. RegionsInv' /\ ParmsInv' /\ ModesInv'
  BY <1>1, <1>2, RegionKept, ParmsKept, ModesKept DEF VtInv, ParmsInv
<1> QED BY <1>3 DEF VtInv

(* After ESC.                                                              *)
EscBytes == DOMAIN Introducer \cup {"D", "M", "E", "7", "8", "H", "="}

LEMMA VtEscInv ==
  ASSUME VtInv, NEW b \in EscBytes, VtEsc(b)
  PROVE  VtInv'
<1>1. Screen(vw) /\ vw.curx \in Nat /\ vw.cury \in Nat /\ vsave[1] \in Int /\ vsave[2] \in Int
  BY ScreenFields DEF VtInv, RegionsInv, ModesInv
<1>2. Steps(vw, Index)
  <2>1. Steps(vw, vtty_wscroll(On(vw), "up", FALSE).w)
    BY <1>1, WscrollStep
  <2>2. Steps(vw, Locates(vw, vw.curx, vw.cury + 1))
    BY <1>1, LocatesOk
  <2> QED BY <2>1, <2>2 DEF Index
<1>3. Steps(vw, ReverseIndex)
  <2>1. Steps(vw, vtty_wscroll(On(vw), "down", FALSE).w)
    BY <1>1, WscrollStep
  <2>2. Steps(vw, Locates(vw, vw.curx, vw.cury - 1)) /\ Steps(vw, vw)
    BY <1>1, LocatesOk, StepsSelf
  <2> QED BY <2>1, <2>2 DEF ReverseIndex
<1>4. Steps(vw, Puts(Puts(vw, "CR"), "NL"))
  <2>1. "CR" \in Control /\ "NL" \in Control
    BY DEF Control
  <2>2. Steps(vw, Puts(vw, "CR"))
    BY <1>1, <2>1, PutsOk
  <2>3. Steps(Puts(vw, "CR"), Puts(Puts(vw, "CR"), "NL"))
    BY <2>1, <2>2, PutsOk DEF Steps
  <2> QED BY <2>2, <2>3, StepsTwice
<1>5. Steps(vw, Locates(vw, vsave[1], vsave[2])) /\ Steps(vw, vw)
  BY <1>1, LocatesOk, StepsSelf
<1>6. vw' = CASE b = "D" -> Index
              [] b = "M" -> ReverseIndex
              [] b = "E" -> Puts(Puts(vw, "CR"), "NL")
              [] b = "8" -> Locates(vw, vsave[1], vsave[2])
              [] OTHER -> vw
  BY DEF VtEsc
<1>7. Steps(vw, vw')
  BY <1>2, <1>3, <1>4, <1>5, <1>6
<1>8. newy' = newy /\ ptr' = ptr /\ parms' = parms /\ cut' = cut /\ vmode' = vmode /\ esc = 1
      /\ esc' = (IF b \in DOMAIN Introducer THEN Introducer[b] ELSE 0)
      /\ vsave' = (IF b = "7" THEN <<vw.curx, vw.cury>> ELSE vsave)
      /\ vtabs' = (IF b = "H" THEN vtabs \cup {vw.curx} ELSE vtabs)
  BY DEF VtEsc
<1>9. esc' \in 0..7
  <2>1. \A d \in DOMAIN Introducer : Introducer[d] \in 0..7
    BY DEF Introducer
  <2> QED BY <1>8, <2>1
<1>10. ParmsInv'
  BY <1>8, <1>9, ParmsKept DEF VtInv
<1>11. ModesInv'
  BY <1>1, <1>8 DEF VtInv, ModesInv
<1>12. RegionsInv'
  BY <1>7, <1>8, RegionKept DEF VtInv
<1> QED BY <1>10, <1>11, <1>12 DEF VtInv

(* ESC c, and the parameters.                                              *)
HasRegion(u, a, b) == Screen(u) /\ u.sy1 = a /\ u.sy2 = b

LEMMA NewRegion ==
  ASSUME NEW v, Screen(v), NEW a \in YS, NEW b \in YS, NEW wr \in BOOLEAN
  PROVE  HasRegion([v EXCEPT !.wrap = wr, !.sy1 = a, !.sy2 = b], a, b)
<1> DEFINE u == [v EXCEPT !.wrap = wr, !.sy1 = a, !.sy2 = b]
<1>1. v \in Wins /\ WinOk(v) /\ v.y1 = 0 /\ v.y2 = LINES - 1 /\ v.direct /\ v.doscroll
  BY ScreenFields DEF Screen
<1>2. u \in Wins /\ u.y1 = v.y1 /\ u.y2 = v.y2 /\ u.sy1 = a /\ u.sy2 = b /\ u.curx = v.curx /\ u.cury = v.cury
      /\ u.direct = v.direct /\ u.doscroll = v.doscroll
  BY <1>1 DEF Wins
<1> HIDE DEF u
<1>3. u.y1 <= u.sy1 /\ u.sy1 <= u.y2 /\ u.y1 <= u.sy2 /\ u.sy2 <= u.y2
  BY <1>1, <1>2, SizesOk DEF YS
<1>4. WinOk(u)
  BY <1>1, <1>2, <1>3 DEF WinOk, RegionOk
<1> QED BY <1>1, <1>2, <1>4 DEF HasRegion, Screen, u

LEMMA RegionSet ==
  ASSUME NEW u, Screen(u), Steps(u, vw'), newy' = <<u.sy1, u.sy2>>, u.sy1 < u.sy2
  PROVE  RegionsInv'
  BY DEF RegionsInv, Steps, Screen, WinOk, RegionOk

LEMMA WholeOk == 0 \in YS /\ LINES - 1 \in YS /\ 0 < LINES - 1 /\ Whole = <<0, LINES - 1>> /\ 0 \in Int
  BY SizesOk DEF YS, Whole

LEMMA TabsOk == Tabs0 \in SUBSET Nat
  BY SizesOk DEF Tabs0

LEMMA VtResetInv ==
  ASSUME VtInv, VtReset
  PROVE  VtInv'
<1> DEFINE u == [vw EXCEPT !.wrap = vmode.wrap, !.sy1 = 0, !.sy2 = LINES - 1]
<1>1. vw' = Locates(u, 0, 0) /\ newy' = Whole /\ esc' = 0 /\ ptr' = 0 /\ parms' = NoParms /\ cut' = FALSE
      /\ vmode' = [vmode EXCEPT !.om = FALSE, !.addlf = FALSE, !.addcr = FALSE]
      /\ vtabs' = Tabs0 /\ vsave' = vsave
  BY DEF VtReset
<1>2. Screen(vw) /\ vmode \in Modes /\ vsave \in Nat \X Nat
  BY DEF VtInv, RegionsInv, ModesInv
<1>3. vmode.wrap \in BOOLEAN
  BY <1>2 DEF Modes
<1>35. HasRegion(u, 0, LINES - 1)
  BY <1>2, <1>3, WholeOk, NewRegion, Zenon
<1> HIDE DEF u
<1>4. Screen(u) /\ u.sy1 = 0 /\ u.sy2 = LINES - 1
  BY <1>35 DEF HasRegion
<1>5. Steps(u, vw')
  BY <1>1, <1>4, WholeOk, LocatesOk
<1>6. RegionsInv'
  BY <1>1, <1>4, <1>5, WholeOk, RegionSet
<1>7. ParmsInv'
  BY <1>1, ParmsEnded DEF SequenceEnds, VtInv
<1>8. ModesInv'
  BY <1>1, <1>2, TabsOk DEF ModesInv, Modes
<1> QED BY <1>6, <1>7, <1>8 DEF VtInv

LEMMA VtParmsInv ==
  ASSUME VtInv
  PROVE  /\ \A d \in VtDigits : VtDigit(d) => VtInv'
         /\ VtSeparator \/ VtPrivate \/ VtIgnored => VtInv'
<1>0. Steps(vw, vw)
  BY StepsSelf DEF VtInv, RegionsInv
<1>1. ASSUME NEW d \in VtDigits, VtDigit(d) PROVE VtInv'
  <2>1. vw' = vw /\ newy' = newy /\ esc' = esc /\ ptr' = ptr /\ cut' = cut /\ vmode' = vmode
        /\ vtabs' = vtabs /\ vsave' = vsave /\ esc \in {2, 3}
        /\ \/ ptr < NParms /\ parms' = [parms EXCEPT ![ptr] = Wrapped(10 * parms[ptr] + d, IntHalf)]
           \/ parms' = parms
    BY <1>1 DEF VtDigit
  <2>2. RegionsInv' /\ ModesInv'
    BY <1>0, <2>1, RegionKept, ModesKept DEF VtInv
  <2>3. d \in Int /\ parms \in [0 .. NParms - 1 -> Int] /\ ptr \in Nat /\ NParms \in Nat
    BY VtAssumption DEF VtInv, ParmsInv
  <2>4. parms' \in [0 .. NParms - 1 -> Int]
    <3>1. CASE ptr < NParms /\ parms' = [parms EXCEPT ![ptr] = Wrapped(10 * parms[ptr] + d, IntHalf)]
      <4>1. ptr \in 0 .. NParms - 1
        BY <2>3, <3>1
      <4>2. 10 * parms[ptr] + d \in Int
        BY <2>3, <4>1
      <4>3. Wrapped(10 * parms[ptr] + d, IntHalf) \in Int
        BY <4>2, WrappedOk
      <4> QED BY <2>3, <3>1, <4>3
    <3> QED BY <2>1, <2>3, <3>1
  <2>5. esc' \in 0..7 /\ cut' \in BOOLEAN /\ ptr' \in 0 .. PtrMax /\ esc' \in {2, 3}
    BY <2>1 DEF VtInv, ParmsInv
  <2> QED BY <2>2, <2>4, <2>5 DEF VtInv, ParmsInv
<1>2. ASSUME VtSeparator PROVE VtInv'
  <2>1. vw' = vw /\ newy' = newy /\ esc' = esc /\ cut' = cut /\ vmode' = vmode /\ parms' = parms
        /\ vtabs' = vtabs /\ vsave' = vsave /\ esc = 2
        /\ ptr' = (IF ptr < PtrMax THEN ptr + 1 ELSE ptr)
    BY <1>2 DEF VtSeparator
  <2>2. RegionsInv' /\ ModesInv'
    BY <1>0, <2>1, RegionKept, ModesKept DEF VtInv
  <2>3. ParmsInv'
    BY <2>1, VtAssumption DEF VtInv, ParmsInv
  <2> QED BY <2>2, <2>3 DEF VtInv
<1>3. ASSUME VtPrivate PROVE VtInv'
  <2>1. vw' = vw /\ newy' = newy /\ esc' = 3 /\ cut' = cut /\ vmode' = vmode /\ parms' = parms
        /\ vtabs' = vtabs /\ vsave' = vsave /\ ptr' = ptr
    BY <1>3 DEF VtPrivate
  <2>2. RegionsInv' /\ ModesInv'
    BY <1>0, <2>1, RegionKept, ModesKept DEF VtInv
  <2>3. ParmsInv'
    BY <2>1 DEF VtInv, ParmsInv
  <2> QED BY <2>2, <2>3 DEF VtInv
<1>4. ASSUME VtIgnored PROVE VtInv'
  <2>1. vw' = vw /\ newy' = newy /\ vmode' = vmode /\ vtabs' = vtabs /\ vsave' = vsave /\ SequenceEnds
    BY <1>4 DEF VtIgnored
  <2>2. RegionsInv' /\ ModesInv' /\ ParmsInv'
    BY <1>0, <2>1, RegionKept, ModesKept, ParmsEnded DEF VtInv
  <2> QED BY <2>2 DEF VtInv
<1> QED BY <1>1, <1>2, <1>3, <1>4

(* The sequences of state2.                                                *)
LEMMA MotionOk ==
  ASSUME VtInv, NEW b
  PROVE  Steps(vw, Motion(b))
<1> DEFINE f == OrOne(parms[0])
           x == Clip(Short(vw.curx + (IF b = "C" THEN f ELSE IF b = "D" THEN -f ELSE 0)), COLS)
           down == Clip(Short(vw.cury + f), LINES)
           up == Clip(Short(vw.cury - f), LINES)
           y == CASE b = "B" -> IF down >= newy[2] + 1 THEN newy[2] ELSE down
                  [] b = "A" -> IF up <= newy[1] - 1 THEN newy[1] ELSE up
                  [] OTHER -> vw.cury
<1>1. Motion(b) = Locates(vw, x, y)
  BY Zenon DEF Motion
<1>2. f \in Int /\ vw.curx \in Nat /\ vw.cury \in Nat /\ newy[1] \in Int /\ newy[2] \in Int /\ Screen(vw)
  BY ParmOk, ScreenFields DEF VtInv, RegionsInv, YS
<1> HIDE DEF f
<1>3. Short(vw.curx + (IF b = "C" THEN f ELSE IF b = "D" THEN -f ELSE 0)) \in Int
  <2>1. vw.curx + (IF b = "C" THEN f ELSE IF b = "D" THEN -f ELSE 0) \in Int
    BY <1>2
  <2> QED BY <2>1, WrappedOk
<1>35. COLS \in Nat \ {0} /\ LINES \in Nat \ {0} /\ Short(vw.cury + f) \in Int /\ Short(vw.cury - f) \in Int
  <2>1. vw.cury + f \in Int /\ vw.cury - f \in Int
    BY <1>2
  <2> QED BY <2>1, WrappedOk, SizesOk
<1>4. x \in 0 .. COLS - 1 /\ down \in 0 .. LINES - 1 /\ up \in 0 .. LINES - 1
  BY <1>3, <1>35, ClipOk, Zenon
<1> HIDE DEF x, down, up
<1>5. x \in Int /\ down \in Int /\ up \in Int
  BY <1>4
<1>6. y \in Int
  BY <1>2, <1>5
<1> HIDE DEF y
<1> QED BY <1>1, <1>2, <1>5, <1>6, LocatesOk

LEMMA VtCsiInv ==
  ASSUME VtInv, NEW b \in Finals, VtCsi(b)
  PROVE  VtInv'
<1> DEFINE x == OrOne(parms[1]) - 1
           y == Short(OrOne(parms[0]) + (IF vmode.om THEN newy[1] ELSE 0)) - 1
           n == Times(OrOne(parms[0]))
<1>1. Screen(vw) /\ vw.curx \in Nat /\ vw.cury \in Nat /\ vsave[1] \in Int /\ vsave[2] \in Int /\ newy[1] \in Int
  BY ScreenFields DEF VtInv, RegionsInv, ModesInv, YS
<1>2. x \in Int /\ y \in Int /\ n \in Nat
  <2>1. OrOne(parms[0]) \in Int /\ OrOne(parms[1]) \in Int
    BY ParmOk DEF VtInv
  <2>2. OrOne(parms[0]) + (IF vmode.om THEN newy[1] ELSE 0) \in Int
    BY <1>1, <2>1
  <2>3. Short(OrOne(parms[0]) + (IF vmode.om THEN newy[1] ELSE 0)) \in Int
    BY <2>2, WrappedOk
  <2> QED BY <2>1, <2>3 DEF Times
<1>3. vw' = CASE b \in {"A", "B", "C", "D"} -> Motion(b)
              [] b \in {"X", "K", "J"} -> Erase(b)
              [] b = "H" -> Locates(vw, x, y)
              [] b \in Edits -> Repeat(vw, b, n)
              [] b = "u" -> Locates(vw, vsave[1], vsave[2])
              [] OTHER -> vw
  BY Zenon DEF VtCsi, Edits
<1> HIDE DEF x, y, n
<1>4. Steps(vw, Motion(b))
  BY MotionOk
<1>5. Steps(vw, Erase(b))
  BY <1>1, ClearSteps, StepsSelf DEF Erase
<1>6. Steps(vw, Locates(vw, x, y)) /\ Steps(vw, Locates(vw, vsave[1], vsave[2])) /\ Steps(vw, vw)
  BY <1>1, <1>2, LocatesOk, StepsSelf
<1>7. b \in Edits => Steps(vw, Repeat(vw, b, n))
  BY <1>1, <1>2, RepeatOk
<1>8. Steps(vw, vw')
  BY <1>3, <1>4, <1>5, <1>6, <1>7 DEF Edits
<1>9. newy' = newy /\ vmode' = vmode /\ SequenceEnds
      /\ vsave' = (IF b = "s" THEN <<vw.curx, vw.cury>> ELSE vsave)
      /\ vtabs' = (IF b = "g" /\ parms[0] = 0 THEN vtabs \ {vw.curx}
                   ELSE IF b = "g" /\ parms[0] = 3 THEN {} ELSE vtabs)
  BY DEF VtCsi
<1>10. RegionsInv' /\ ParmsInv'
  BY <1>8, <1>9, RegionKept, ParmsEnded DEF VtInv
<1>11. ModesInv'
  BY <1>1, <1>9 DEF VtInv, ModesInv
<1> QED BY <1>10, <1>11 DEF VtInv

(* ESC [ a ; b r.                                                          *)
LEMMA RegionOfOk ==
  ASSUME NEW p \in Int, NEW o \in Int
  PROVE  LET n == RegionOf(p, o) IN n = <<n[1], n[2]>> /\ n[1] \in YS /\ n[2] \in YS /\ n[1] < n[2]
<1> DEFINE a == Clip(Short(OrOne(p) - 1), LINES)
           b == Clip(Short((IF Short(o) = 0 THEN LINES ELSE Short(o)) - 1), LINES)
           n == RegionOf(p, o)
<1>1. n = IF a >= b THEN Whole ELSE <<a, b>>
  BY Zenon DEF RegionOf
<1>2. /\ LINES \in Nat \ {0} /\ Short(OrOne(p) - 1) \in Int
      /\ Short((IF Short(o) = 0 THEN LINES ELSE Short(o)) - 1) \in Int
  <2>1. OrOne(p) - 1 \in Int
    BY WrappedOk
  <2>2. (IF Short(o) = 0 THEN LINES ELSE Short(o)) - 1 \in Int
    BY SizesOk, WrappedOk
  <2> QED BY <2>1, <2>2, SizesOk, WrappedOk
<1>3. a \in 0 .. LINES - 1 /\ b \in 0 .. LINES - 1
  BY <1>2, ClipOk, Zenon
<1> HIDE DEF a, b, n
<1>4. CASE a >= b
  BY <1>1, <1>4, WholeOk DEF n
<1>5. CASE ~(a >= b)
  <2>1. n = <<a, b>> /\ a < b
    BY <1>1, <1>3, <1>5, SizesOk
  <2>2. n[1] = a /\ n[2] = b
    BY <2>1
  <2>3. n = <<n[1], n[2]>> /\ n[1] \in YS /\ n[2] \in YS /\ n[1] < n[2]
    BY <1>3, <2>1, <2>2 DEF YS
  <2> QED BY <2>3 DEF n
<1> QED BY <1>4, <1>5

LEMMA VtRegionInv ==
  ASSUME VtInv, VtRegion
  PROVE  VtInv'
<1> DEFINE n == RegionOf(parms[0], parms[1])
           v == [vw EXCEPT !.sy1 = n[1], !.sy2 = n[2]]
<1>1. newy' = n /\ vw' = Locates(v, 0, n[1]) /\ SequenceEnds
      /\ vmode' = vmode /\ vtabs' = vtabs /\ vsave' = vsave
  BY Zenon DEF VtRegion
<1>2. n = <<n[1], n[2]>> /\ n[1] \in YS /\ n[2] \in YS /\ n[1] < n[2]
  BY ParmOk, RegionOfOk DEF VtInv
<1> HIDE DEF n
<1>3. Screen(vw) /\ vw \in Wins /\ vw.wrap \in BOOLEAN
  BY ScreenFields DEF VtInv, RegionsInv
<1>4. v = [vw EXCEPT !.wrap = vw.wrap, !.sy1 = n[1], !.sy2 = n[2]]
  BY <1>3 DEF Wins
<1> HIDE DEF v
<1>5. HasRegion(v, n[1], n[2])
  BY <1>2, <1>3, <1>4, NewRegion, Zenon
<1>6. Screen(v) /\ v.sy1 = n[1] /\ v.sy2 = n[2] /\ n[1] \in Int /\ 0 \in Int
  BY <1>2, <1>5 DEF HasRegion, YS
<1>7. Steps(v, vw')
  BY <1>1, <1>6, LocatesOk
<1>8. RegionsInv'
  BY <1>1, <1>2, <1>6, <1>7, RegionSet
<1>9. ParmsInv' /\ ModesInv'
  BY <1>1, ParmsEnded, ModesKept DEF VtInv
<1> QED BY <1>8, <1>9 DEF VtInv

(* The modes.                                                              *)
LEMMA WrapStep ==
  ASSUME NEW v, Screen(v), NEW on \in BOOLEAN
  PROVE  Steps(v, [v EXCEPT !.wrap = on])
<1> DEFINE u == [v EXCEPT !.wrap = on]
<1>1. v \in Wins /\ v.sy1 \in YS /\ v.sy2 \in YS
  BY ScreenFields
<1>2. u = [v EXCEPT !.wrap = on, !.sy1 = v.sy1, !.sy2 = v.sy2]
  BY <1>1 DEF Wins
<1> HIDE DEF u
<1>3. HasRegion(u, v.sy1, v.sy2)
  BY <1>1, <1>2, NewRegion, Zenon
<1> QED BY <1>3 DEF HasRegion, Steps, u

LEMMA VtModeInv ==
  ASSUME VtInv, NEW on \in BOOLEAN, VtMode(on)
  PROVE  VtInv'
<1>1. newy' = newy /\ vtabs' = vtabs /\ vsave' = vsave /\ SequenceEnds
      /\ vmode' = (IF parms[0] = 6 THEN [vmode EXCEPT !.om = on] ELSE vmode)
  BY DEF VtMode
<1>2. vw' = CASE parms[0] = 6 -> Locates(vw, 0, newy[1])
              [] parms[0] = 7 -> [vw EXCEPT !.wrap = on]
              [] OTHER -> vw
  BY DEF VtMode
<1>3. Screen(vw) /\ newy[1] \in Int /\ 0 \in Int
  BY ScreenFields DEF VtInv, RegionsInv, YS
<1>4. Steps(vw, Locates(vw, 0, newy[1])) /\ Steps(vw, [vw EXCEPT !.wrap = on]) /\ Steps(vw, vw)
  BY <1>3, LocatesOk, WrapStep, StepsSelf
<1>5. Steps(vw, vw')
  <2>1. CASE parms[0] = 6
    BY <1>2, <1>4, <2>1
  <2>2. CASE parms[0] = 7
    BY <1>2, <1>4, <2>2
  <2>3. CASE parms[0] # 6 /\ parms[0] # 7
    BY <1>2, <1>4, <2>3
  <2> QED BY <2>1, <2>2, <2>3
<1>6. RegionsInv' /\ ParmsInv'
  BY <1>1, <1>5, RegionKept, ParmsEnded DEF VtInv
<1>7. ModesInv'
  <2>1. [vmode EXCEPT !.om = on] \in Modes /\ vmode \in Modes
    BY DEF VtInv, ModesInv, Modes
  <2> QED BY <1>1, <2>1 DEF VtInv, ModesInv
<1> QED BY <1>6, <1>7 DEF VtInv

LEMMA VtOneMoreInv ==
  ASSUME VtInv, NEW b \in {"8", "B"}, VtOneMore(b)
  PROVE  VtInv'
<1>1. newy' = newy /\ vtabs' = vtabs /\ vsave' = vsave /\ vmode' = vmode /\ ptr' = ptr /\ parms' = parms
      /\ cut' = cut /\ esc \in 4..7 /\ esc' = (IF esc = 7 THEN 7 ELSE 0)
      /\ vw' = (IF esc = 6 /\ b = "8" THEN Selftest(On(vw)).w ELSE vw)
  BY DEF VtOneMore
<1>2. Steps(vw, vw')
  BY <1>1, ClearSteps, StepsSelf DEF VtInv, RegionsInv
<1>3. ParmsInv'
  <2>1. esc' \in 0..7 /\ esc \notin {2, 3}
    BY <1>1
  <2> QED BY <1>1, <2>1, ParmsKept DEF VtInv
<1>4. RegionsInv' /\ ModesInv'
  BY <1>1, <1>2, RegionKept, ModesKept DEF VtInv
<1> QED BY <1>3, <1>4 DEF VtInv

LEMMA VtPinitInv ==
  ASSUME VtInv, VtPinit
  PROVE  VtInv'
<1> DEFINE v == [vw EXCEPT !.sy1 = vw.y1, !.sy2 = vw.y2]
<1>1. newy' = Whole /\ vw' = v /\ esc' = esc /\ ptr' = ptr /\ parms' = parms /\ cut' = cut
      /\ vmode' = vmode /\ vtabs' = vtabs /\ vsave' = vsave
  BY DEF VtPinit
<1>2. Screen(vw) /\ vw \in Wins /\ vw.wrap \in BOOLEAN /\ vw.y1 = 0 /\ vw.y2 = LINES - 1
  BY ScreenFields DEF VtInv, RegionsInv
<1>3. v = [vw EXCEPT !.wrap = vw.wrap, !.sy1 = 0, !.sy2 = LINES - 1]
  BY <1>2 DEF Wins
<1> HIDE DEF v
<1>4. HasRegion(v, 0, LINES - 1)
  BY <1>2, <1>3, WholeOk, NewRegion, Zenon
<1>5. Screen(v) /\ v.sy1 = 0 /\ v.sy2 = LINES - 1 /\ Steps(v, vw')
  BY <1>1, <1>4, StepsSelf DEF HasRegion
<1>6. RegionsInv'
  BY <1>1, <1>5, WholeOk, RegionSet
<1>7. ParmsInv' /\ ModesInv'
  BY <1>1, ParmsKept, ModesKept DEF VtInv, ParmsInv
<1> QED BY <1>6, <1>7 DEF VtInv

LEMMA VtSetInv ==
  ASSUME VtInv, NEW field \in {"addlf", "addcr", "wrap"}, NEW on \in BOOLEAN, VtSet(field, on)
  PROVE  VtInv'
<1>1. newy' = newy /\ esc' = esc /\ ptr' = ptr /\ parms' = parms /\ cut' = cut
      /\ vtabs' = vtabs /\ vsave' = vsave /\ vmode' = [vmode EXCEPT ![field] = on]
      /\ vw' = (IF field = "wrap" THEN [vw EXCEPT !.wrap = on] ELSE vw)
  BY DEF VtSet
<1>2. Steps(vw, vw')
  BY <1>1, WrapStep, StepsSelf DEF VtInv, RegionsInv
<1>3. vmode \in Modes
  BY DEF VtInv, ModesInv
<1>4. vmode' \in Modes
  <2>1. CASE field = "addlf"
    BY <1>1, <1>3, <2>1 DEF Modes
  <2>2. CASE field = "addcr"
    BY <1>1, <1>3, <2>2 DEF Modes
  <2>3. CASE field = "wrap"
    BY <1>1, <1>3, <2>3 DEF Modes
  <2> QED BY <2>1, <2>2, <2>3
<1>5. RegionsInv' /\ ParmsInv'
  BY <1>1, <1>2, RegionKept, ParmsKept DEF VtInv, ParmsInv
<1>6. ModesInv'
  BY <1>1, <1>4 DEF VtInv, ModesInv
<1> QED BY <1>5, <1>6 DEF VtInv

LEMMA VtInitInv == VtInit => VtInv
<1> SUFFICES ASSUME VtInit PROVE VtInv
  OBVIOUS
<1>1. vw = NewWin(0, LINES - 1) /\ newy = Whole /\ esc = 0 /\ ptr = 0 /\ parms = NoParms
      /\ vmode = [om |-> FALSE, addlf |-> TRUE, addcr |-> TRUE, wrap |-> TRUE]
      /\ vtabs = Tabs0 /\ vsave = <<0, 0>> /\ cut = FALSE
  BY DEF VtInit
<1>2. vw.y1 = 0 /\ vw.y2 = LINES - 1 /\ vw.sy1 = 0 /\ vw.sy2 = LINES - 1 /\ vw.direct /\ vw.doscroll
  BY <1>1 DEF NewWin
<1>3. WinOk(vw)
  <2>1. 0 <= LINES - 1
    BY SizesOk
  <2> QED BY <1>1, <2>1, WholeOk, NewWindow
<1>4. RegionsInv
  BY <1>1, <1>2, <1>3, WholeOk DEF RegionsInv, Screen
<1>5. ParmsInv
  <2>1. NoParms \in [0 .. NParms - 1 -> Int] /\ 0 \in 0 .. PtrMax /\ 0 \in 0..7
    BY VtAssumption DEF NoParms
  <2> QED BY <1>1, <2>1, Zenon DEF ParmsInv
<1>6. ModesInv
  BY <1>1, TabsOk DEF ModesInv, Modes
<1> QED BY <1>4, <1>5, <1>6 DEF VtInv

LEMMA VtNextInv ==
  ASSUME VtInv, [VtNext]_vtVars
  PROVE  VtInv'
<1>1. CASE UNCHANGED vtVars
  <2>1. vw' = vw /\ newy' = newy /\ esc' = esc /\ ptr' = ptr /\ parms' = parms /\ cut' = cut
        /\ vmode' = vmode /\ vtabs' = vtabs /\ vsave' = vsave
    BY <1>1 DEF vtVars
  <2>2. Steps(vw, vw')
    BY <2>1, StepsSelf DEF VtInv, RegionsInv
  <2>3. RegionsInv' /\ ParmsInv' /\ ModesInv'
    BY <2>1, <2>2, RegionKept, ParmsKept, ModesKept DEF VtInv, ParmsInv
  <2> QED BY <2>3 DEF VtInv
<1>2. CASE VtNext
  <2>1. CASE \E c \in Controls : VtControl(c)
    BY <2>1, VtControlInv, Zenon
  <2>2. CASE \E c \in {"CAN", "ESC", "CSI"} : VtBegin(c)
    BY <2>2, VtBeginInv, Zenon
  <2>3. CASE VtChar
    BY <2>3, VtCharInv
  <2>4. CASE \E b \in DOMAIN Introducer \cup {"D", "M", "E", "7", "8", "H", "="} : VtEsc(b)
    BY <2>4, VtEscInv, Zenon DEF EscBytes
  <2>5. CASE VtReset
    BY <2>5, VtResetInv
  <2>6. CASE \E d \in VtDigits : VtDigit(d)
    BY <2>6, VtParmsInv, Zenon
  <2>7. CASE VtSeparator \/ VtPrivate \/ VtIgnored
    BY <2>7, VtParmsInv, Zenon
  <2>8. CASE \E b \in Finals : VtCsi(b)
    BY <2>8, VtCsiInv, Zenon
  <2>9. CASE VtRegion
    BY <2>9, VtRegionInv
  <2>10. CASE \E on \in BOOLEAN : VtMode(on)
    BY <2>10, VtModeInv, Zenon
  <2>11. CASE \E b \in {"8", "B"} : VtOneMore(b)
    BY <2>11, VtOneMoreInv, Zenon
  <2>12. CASE VtPinit
    BY <2>12, VtPinitInv
  <2>13. CASE \E field \in {"addlf", "addcr", "wrap"}, on \in BOOLEAN : VtSet(field, on)
    BY <2>13, VtSetInv, Zenon
  <2> QED BY <1>2, <2>1, <2>2, <2>3, <2>4, <2>5, <2>6, <2>7, <2>8, <2>9, <2>10, <2>11, <2>12, <2>13, Zenon
          DEF VtNext, VtByte
<1> QED BY <1>1, <1>2

LEMMA VtInvSound == VtInv => RegionsAgree /\ ParmsFresh
<1> SUFFICES ASSUME VtInv PROVE RegionsAgree /\ ParmsFresh
  OBVIOUS
<1>1. Screen(vw) /\ newy = <<vw.sy1, vw.sy2>> /\ vw.sy1 < vw.sy2
  BY DEF VtInv, RegionsInv
<1>2. vw.y1 = 0 /\ vw.sy1 \in YS /\ vw.sy2 \in YS /\ vw.doscroll
  BY <1>1, ScreenFields DEF Screen
<1>3. RegionsAgree
  BY <1>1, <1>2, SizesOk DEF RegionsAgree, YS
<1>4. ParmsFresh
  BY DEF VtInv, ParmsInv, ParmsFresh
<1> QED BY <1>3, <1>4

(* The terminal library, for every size of the screen and every number of  *)
(* calls and bytes: the display shows the image that the library keeps,    *)
(* the title above the window stays, the emulator and its window agree on  *)
(* the scrolling region, and no sequence begins with parameters of an      *)
(* earlier one that ended, the last two until a sequence has more          *)
(* parameters than there are places (window.c, vt100.c).                   *)
THEOREM TerminalSoundCorrect == WindowSpec /\ VtSpec => []TerminalSound
<1>1. WindowInit => WindowInv
  BY WindowInitInv
<1>2. WindowInv /\ [WindowNext]_windowVars => WindowInv'
  BY WindowNextInv
<1>3. VtInit => VtInv
  BY VtInitInv
<1>4. VtInv /\ [VtNext]_vtVars => VtInv'
  BY VtNextInv
<1>5. WindowInv /\ VtInv => TerminalSound
  BY WindowInvSound, VtInvSound DEF TerminalSound
<1> QED BY <1>1, <1>2, <1>3, <1>4, <1>5, PTL DEF WindowSpec, VtSpec
=============================================================================

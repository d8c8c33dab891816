-------------------------------- MODULE Rump --------------------------------
(***************************************************************************)
(* The threads and locks that a rump kernel gets from its host:            *)
(* rump/librumpmrg/rumpuser.c, over the LWTs of libmrg.  One LWT runs at a *)
(* time and keeps the CPU until it sleeps, yields or ends, so an operation *)
(* is one step up to the point where it sleeps.                            *)
(*                                                                         *)
(* There is one mutex, one reader-writer lock and one condition variable   *)
(* over the mutex.  Threads are the first one (init_sched), those of       *)
(* rumpuser_thread_create, and the ASTs of rumpuser_bio, which call        *)
(* set_thread.  The scheduling of rump's one virtual CPU, by the           *)
(* hyp_backend functions, is released around every sleep and is left out.  *)
(***************************************************************************)
EXTENDS Integers, SequencesExt

CONSTANTS RInit,      \* the thread of init_sched
          RCreated,   \* threads of rumpuser_thread_create
          RBios,      \* ASTs of rumpuser_bio
          RNull,      \* NULL, or the process is in sys_wait
          RDeep       \* bound: how often a thread enters the mutex again

RThreads == {RInit} \cup RCreated \cup RBios

ASSUME RumpAssumption == RNull \notin RThreads /\ RDeep \in Nat

VARIABLES rcur,      \* the thread that runs
          ract,      \* __lwtq_active
          rpc,       \* where each thread stands
          rlist,     \* thread_list
          rexit,     \* exited_threads
          rflags,    \* [thread -> its THREAD_* flags]
          joinwq,    \* join waiters: <<who, wanted>>
          mtx,       \* struct rumpuser_mtx: [v, o, w]
          rwl,       \* struct rumpuser_rw: [v, o, rw, ww]
          cv,        \* struct rumpuser_cv: [n, w]
          rhold,     \* [thread -> what it has entered: [m, r]]
          ruse,      \* bound: the kind of lock that the threads use
          rbarged,   \* enter_nowrap has found the mutex busy
          rabort     \* an assertion has failed

rumpVars == <<rcur, ract, rpc, rlist, rexit, rflags, joinwq, mtx, rwl, cv, rhold, rbarged, rabort, ruse>>
locks == <<mtx, rwl, cv, rhold, rbarged, ruse>>
threads == <<rlist, rexit, rflags, joinwq>>

RumpInit ==
  /\ rcur = RInit /\ ract = <<>> /\ rlist = {RInit} /\ rexit = {} /\ joinwq = <<>>
  /\ rpc = [t \in RThreads |-> IF t = RInit THEN "run" ELSE "none"]
  /\ rflags = [t \in RThreads |-> {}]
  /\ mtx = [v |-> 0, o |-> RNull, w |-> <<>>]
  /\ rwl = [v |-> 0, o |-> RNull, rw |-> <<>>, ww |-> <<>>]
  /\ cv = [n |-> 0, w |-> <<>>]
  /\ rhold = [t \in RThreads |-> [m |-> 0, r |-> "no"]]
  /\ rbarged = FALSE /\ rabort = FALSE /\ ruse \in {"mutex", "rwlock"}

-----------------------------------------------------------------------------
(* The LWTs: wake() puts a thread at the end of the active queue, unless   *)
(* it is active, wakeup_all one after the other; an LWT that sleeps gives  *)
(* way to the first of q, or the process waits.                            *)
WakeOne(q, t) == IF t \in ToSet(q) THEN q ELSE Append(q, t)
Woken(q, ts) ==
  LET after[i \in 0..Len(ts)] == IF i = 0 THEN q ELSE WakeOne(after[i - 1], ts[i])
  IN  after[Len(ts)]
SleepTo(q) ==
  IF q = <<>> THEN rcur' = RNull /\ ract' = q
  ELSE rcur' = Head(q) /\ ract' = Tail(q)
StaysOn(q) == UNCHANGED rcur /\ ract' = q
At(t, pc) == rcur = t /\ rpc[t] = pc /\ ~rabort
RGoto(t, pc) == rpc' = [rpc EXCEPT ![t] = pc]
Abort == rabort' = TRUE /\ UNCHANGED <<rcur, ract, rpc, threads, locks>>

(* sys_wait has returned and an AST is in the queue.                       *)
RIdle ==
  /\ rcur = RNull /\ ract # <<>> /\ ~rabort
  /\ SleepTo(ract) /\ UNCHANGED <<rpc, threads, locks, rabort>>

-----------------------------------------------------------------------------
(* rumpuser_mutex_tryenter, the owner may enter again.                     *)
TryEnter(m, t) ==
  IF m.v > 0 /\ m.o # t THEN m ELSE [m EXCEPT !.v = @ + 1, !.o = t]
HoldsMore(t, n) == rhold' = [rhold EXCEPT ![t].m = @ + n]

(* rumpuser_mutex_enter, and its loop: a thread that was woken tries       *)
(* again, and waits at the tail when another was faster.                   *)
MutexEnter(t) ==
  /\ At(t, "run") \/ At(t, "mtx")
  /\ ruse = "mutex" /\ rhold[t].m < RDeep
  /\ LET m == TryEnter(mtx, t)
     IN  IF m # mtx
         THEN mtx' = m /\ RGoto(t, "run") /\ HoldsMore(t, 1) /\ StaysOn(ract)
         ELSE /\ mtx' = [mtx EXCEPT !.w = Append(@, t)]
              /\ RGoto(t, "mtx") /\ SleepTo(ract) /\ UNCHANGED rhold
  /\ UNCHANGED <<threads, rwl, cv, rbarged, rabort, ruse>>
MutexTryenter(t) ==
  /\ At(t, "run") /\ ruse = "mutex" /\ rhold[t].m < RDeep
  /\ mtx' = TryEnter(mtx, t)
  /\ rhold' = IF mtx' = mtx THEN rhold ELSE [rhold EXCEPT ![t].m = @ + 1]
  /\ UNCHANGED <<rcur, ract, rpc, threads, rwl, cv, rbarged, rabort, ruse>>

(* rumpuser_mutex_exit: the last exit wakes one waiter.                    *)
ExitedQuiet(m) ==                 \* mutant: nobody is woken
  LET last == m.v = 1
  IN  [m |-> IF last THEN [m EXCEPT !.v = 0, !.o = RNull] ELSE [m EXCEPT !.v = @ - 1], wake |-> <<>>]
Exited(m) ==
  LET last == m.v = 1
  IN  [m    |-> IF last THEN [v |-> 0, o |-> RNull, w |-> IF m.w = <<>> THEN <<>> ELSE Tail(m.w)]
                ELSE [m EXCEPT !.v = @ - 1],
       wake |-> IF last /\ m.w # <<>> THEN <<Head(m.w)>> ELSE <<>>]
MutexExit(t) ==
  /\ At(t, "run") /\ rhold[t].m > 0
  /\ IF mtx.v = 0 THEN Abort
     ELSE /\ mtx' = Exited(mtx).m /\ StaysOn(Woken(ract, Exited(mtx).wake))
          /\ HoldsMore(t, -1)
          /\ UNCHANGED <<rpc, threads, rwl, cv, rbarged, rabort, ruse>>

-----------------------------------------------------------------------------
(* rumpuser_cv_wait, _timedwait (which never times out) and _wait_nowrap:  *)
(* the mutex is left, the thread waits, and enters the mutex again with    *)
(* rumpuser_mutex_enter_nowrap, which does not wait for it.                *)
CvWait(t) ==
  /\ At(t, "run") /\ rhold[t].m = 1
  /\ IF mtx.v = 0 THEN Abort
     ELSE /\ mtx' = Exited(mtx).m /\ cv' = [n |-> cv.n + 1, w |-> Append(cv.w, t)]
          /\ SleepTo(Woken(ract, Exited(mtx).wake)) /\ RGoto(t, "cv") /\ HoldsMore(t, -1)
          /\ UNCHANGED <<threads, rwl, rbarged, rabort, ruse>>
CvResched(t) ==
  /\ At(t, "cv")
  /\ mtx' = TryEnter(mtx, t) /\ rbarged' = (rbarged \/ mtx' = mtx)
  /\ HoldsMore(t, 1) /\ cv' = [cv EXCEPT !.n = @ - 1] /\ RGoto(t, "run")
  /\ UNCHANGED <<rcur, ract, threads, rwl, rabort, ruse>>

(* rumpuser_cv_signal and _broadcast, by a thread that has the mutex or    *)
(* not.                                                                    *)
CvSignal(t) ==
  /\ At(t, "run") /\ cv.w # <<>>
  /\ cv' = [cv EXCEPT !.w = Tail(@)] /\ StaysOn(Woken(ract, <<Head(cv.w)>>))
  /\ UNCHANGED <<rpc, threads, mtx, rwl, rhold, rbarged, rabort, ruse>>
CvBroadcast(t) ==
  /\ At(t, "run") /\ cv.w # <<>>
  /\ cv' = [cv EXCEPT !.w = <<>>] /\ StaysOn(Woken(ract, cv.w))
  /\ UNCHANGED <<rpc, threads, mtx, rwl, rhold, rbarged, rabort, ruse>>

-----------------------------------------------------------------------------
(* rumpuser_rw_tryenter: a writer looks at the owner only; a reader also   *)
(* gives way to writers that wait.                                         *)
RwFree(l, k) == l.o = RNull /\ (k = "rd" => l.ww = <<>>)
RwTaken(l, k, t) == IF k = "wr" THEN [l EXCEPT !.o = t] ELSE [l EXCEPT !.v = @ + 1]
RwEnter(t, k) ==
  /\ At(t, "run") \/ At(t, k)
  /\ ruse = "rwlock" /\ rhold[t].r = "no"
  /\ IF RwFree(rwl, k)
     THEN /\ rwl' = RwTaken(rwl, k, t) /\ rhold' = [rhold EXCEPT ![t].r = k]
          /\ RGoto(t, "run") /\ StaysOn(ract)
     ELSE /\ rwl' = IF k = "wr" THEN [rwl EXCEPT !.ww = Append(@, t)]
                    ELSE [rwl EXCEPT !.rw = Append(@, t)]
          /\ RGoto(t, k) /\ SleepTo(ract) /\ UNCHANGED rhold
  /\ UNCHANGED <<threads, mtx, cv, rbarged, rabort, ruse>>
RwTryenter(t, k) ==
  /\ At(t, "run") /\ ruse = "rwlock" /\ rhold[t].r = "no" /\ RwFree(rwl, k)
  /\ rwl' = RwTaken(rwl, k, t) /\ rhold' = [rhold EXCEPT ![t].r = k]
  /\ UNCHANGED <<rcur, ract, rpc, threads, mtx, cv, rbarged, rabort, ruse>>

(* rumpuser_rw_exit: whoever exits, an owner is taken to be the one; then  *)
(* one writer is woken, or else all readers.                               *)
RwWakes(l) ==
  IF l.ww # <<>> THEN IF l.o = RNull THEN <<Head(l.ww)>> ELSE <<>>
  ELSE IF l.o = RNull THEN l.rw ELSE <<>>
RwLeft(l) ==
  IF l.o # RNull THEN l
  ELSE IF l.ww # <<>> THEN [l EXCEPT !.ww = Tail(@)] ELSE [l EXCEPT !.rw = <<>>]
RwExit(t) ==
  /\ At(t, "run") /\ rhold[t].r # "no"
  /\ LET l == IF rwl.o # RNull THEN [rwl EXCEPT !.o = RNull] ELSE [rwl EXCEPT !.v = @ - 1]
     IN  rwl' = RwLeft(l) /\ StaysOn(Woken(ract, RwWakes(l)))
  /\ rhold' = [rhold EXCEPT ![t].r = "no"]
  /\ UNCHANGED <<rpc, threads, mtx, cv, rbarged, rabort, ruse>>

(* rumpuser_rw_downgrade keeps the owner; _tryupgrade wants the -1 that    *)
(* only a downgrade leaves.                                                *)
RwDowngrade(t) ==
  /\ At(t, "run") /\ rhold[t].r = "wr"
  /\ IF rwl.o # t THEN Abort
     ELSE /\ rwl' = [rwl EXCEPT !.v = -1] /\ rhold' = [rhold EXCEPT ![t].r = "rd"]
          /\ UNCHANGED <<rcur, ract, rpc, threads, mtx, cv, rbarged, rabort, ruse>>
RwTryupgrade(t) ==
  /\ At(t, "run") /\ rhold[t].r = "rd" /\ rwl.v = -1
  /\ rwl' = [rwl EXCEPT !.v = 1, !.o = t] /\ rhold' = [rhold EXCEPT ![t].r = "wr"]
  /\ UNCHANGED <<rcur, ract, rpc, threads, mtx, cv, rbarged, rabort, ruse>>

-----------------------------------------------------------------------------
(* rumpuser_clock_sleep: lwt_yield, whatever the time.                     *)
ClockSleep(t) ==
  /\ At(t, "run") /\ ract # <<>>
  /\ SleepTo(Append(ract, t)) /\ UNCHANGED <<rpc, threads, locks, rabort>>

(* rumpuser_thread_create: a new LWT, which nothing puts into the active   *)
(* queue.                                                                  *)
ThreadCreate(t, n, joinable) ==
  /\ At(t, "run") /\ rpc[n] = "none"
  /\ rlist' = rlist \cup {n} /\ RGoto(n, "new")
  /\ rflags' = [rflags EXCEPT ![n] = IF joinable THEN {"MUSTJOIN"} ELSE {}]
  /\ UNCHANGED <<rcur, ract, rexit, joinwq, locks, rabort>>

(* join_thread: the wait for THREAD_JOINED, then the release of the thread *)
(* that waits in exit_thread.                                              *)
ThreadJoin(t, n) ==
  /\ At(t, "run") /\ rpc[n] # "none" /\ "MUSTJOIN" \in rflags[n]
  /\ \A i \in DOMAIN joinwq : joinwq[i][2] # n
  /\ IF "JOINED" \in rflags[n]
     THEN /\ rflags' = [rflags EXCEPT ![n] = @ \ {"MUSTJOIN"}]
          /\ StaysOn(Woken(ract, <<n>>)) /\ UNCHANGED <<joinwq, rpc>>
     ELSE /\ joinwq' = Append(joinwq, <<t, n>>)
          /\ RGoto(t, "join") /\ SleepTo(ract) /\ UNCHANGED rflags
  /\ UNCHANGED <<rlist, rexit, locks, rabort>>

(* exit_thread.  A thread that must be joined would tell its joiner and    *)
(* wait; the first thread, which has no flags, leaves at once.             *)
ThreadExit(t) ==
  /\ At(t, "run") /\ t \notin RBios /\ rhold[t] = [m |-> 0, r |-> "no"]
  /\ IF "MUSTJOIN" \in rflags[t]
     THEN /\ rflags' = [rflags EXCEPT ![t] = @ \cup {"JOINED"}]
          /\ LET jw == {i \in DOMAIN joinwq : joinwq[i][2] = t}
             IN  SleepTo(IF jw = {} THEN ract ELSE WakeOne(ract, joinwq[CHOOSE i \in jw : TRUE][1]))
          /\ UNCHANGED <<rpc, rlist, rexit>>
     ELSE /\ rlist' = rlist \ {t} /\ rexit' = rexit \cup {t}
          /\ RGoto(t, "gone") /\ SleepTo(ract) /\ UNCHANGED rflags
  /\ UNCHANGED <<joinwq, locks, rabort>>

(* rumpuser_bio: an event with an AST and a read; or a write, or a read    *)
(* that blk_read refuses, of which nobody will hear.                       *)
Bio(t, b, started) ==
  /\ At(t, "run") /\ rpc[b] = "none"
  /\ RGoto(b, IF started THEN "io" ELSE "never")
  /\ UNCHANGED <<rcur, ract, threads, locks, rabort>>
(* The block device sets the event, which starts _rumpmrg_bio_ast; its     *)
(* set_thread makes it a thread, biodone runs as one.                      *)
BioDone(b) ==
  /\ rpc[b] = "io" /\ ~rabort
  /\ RGoto(b, "ast") /\ StaysOn(Append(ract, b)) /\ UNCHANGED <<threads, locks, rabort>>
BioAst(b) ==
  /\ At(b, "ast")
  /\ rlist' = rlist \cup {b} /\ RGoto(b, "run")
  /\ UNCHANGED <<rcur, ract, rexit, rflags, joinwq, locks, rabort>>
BioAstEnd(b) ==
  /\ At(b, "run") /\ rhold[b] = [m |-> 0, r |-> "no"]
  /\ RGoto(b, "gone") /\ SleepTo(ract) /\ UNCHANGED <<threads, locks, rabort>>

RumpNext ==
  \/ RIdle
  \/ \E t \in RThreads :
       \/ MutexEnter(t) \/ MutexTryenter(t) \/ MutexExit(t)
       \/ CvWait(t) \/ CvResched(t) \/ CvSignal(t) \/ CvBroadcast(t)
       \/ \E k \in {"rd", "wr"} : RwEnter(t, k) \/ RwTryenter(t, k)
       \/ RwExit(t) \/ RwDowngrade(t) \/ RwTryupgrade(t)
       \/ ClockSleep(t) \/ ThreadExit(t)
       \/ \E n \in RCreated, j \in BOOLEAN : ThreadCreate(t, n, j)
       \/ \E n \in RCreated : ThreadJoin(t, n)
       \/ \E b \in RBios, started \in BOOLEAN : Bio(t, b, started)
  \/ \E b \in RBios : BioDone(b) \/ BioAst(b) \/ BioAstEnd(b)
RumpSpec == RumpInit /\ [][RumpNext]_rumpVars

-----------------------------------------------------------------------------
(* Type invariant.                                                         *)
RumpTypeOK ==
  /\ rcur \in RThreads \cup {RNull} /\ ToSet(ract) \subseteq RThreads
  /\ rpc \in [RThreads -> {"none", "new", "run", "mtx", "cv", "rd", "wr", "join",
                           "io", "never", "ast", "gone"}]
  /\ rlist \subseteq RThreads /\ rexit \subseteq RThreads
  /\ rflags \in [RThreads -> SUBSET {"MUSTJOIN", "JOINED"}]
  /\ mtx.v \in Nat /\ mtx.o \in RThreads \cup {RNull}
  /\ rwl.v \in Int /\ rwl.o \in RThreads \cup {RNull} /\ cv.n \in Nat
  /\ rhold \in [RThreads -> [m : Nat, r : {"no", "rd", "wr"}]]

(* The waiters of a lock are records on the stacks of their threads, and   *)
(* wait() does not take them off: a thread is on a list exactly while it   *)
(* sleeps in that wait, and on one list.  Otherwise wakeup_one would write *)
(* to a stack frame that is gone, or wake a thread out of another wait.    *)
WaitersSleep ==
  LET waits == mtx.w \o rwl.rw \o rwl.ww \o cv.w
  IN  /\ IsInjective(waits) /\ IsInjective(ract) /\ rcur \notin ToSet(ract)
      /\ ToSet(waits) \cap (ToSet(ract) \cup {rcur}) = {}
      /\ \A t \in RThreads : rpc[t] \in {"mtx", "rd", "wr", "cv"} =>
           t \in ToSet(waits) \/ t \in ToSet(ract) \/ t = rcur

(* No wake-up is lost: when the mutex is free and has waiters, or the      *)
(* reader-writer lock has no owner and has waiters, one of those that were *)
(* taken off the list is on its way to try again.                          *)
NoStrandedWaiter ==
  LET going(pcs) == \E t \in ToSet(ract) \cup {rcur} : t # RNull /\ rpc[t] \in pcs
  IN  /\ mtx.v = 0 /\ mtx.w # <<>> => going({"mtx"})
      /\ rwl.o = RNull /\ rwl.ww \o rwl.rw # <<>> => going({"rd", "wr"})

(* Until rumpuser_mutex_enter_nowrap has found the mutex busy, who has     *)
(* entered the mutex owns it, and so often; nobody else is inside.         *)
MutexExclusive ==
  ~rbarged =>
    \A t \in RThreads : IF mtx.o = t THEN rhold[t].m = mtx.v ELSE rhold[t].m = 0

(* The locks of the rump kernel are sound.                                 *)
RumpSound == WaitersSleep /\ NoStrandedWaiter /\ MutexExclusive
=============================================================================

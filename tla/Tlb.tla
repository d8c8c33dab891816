-------------------------------- MODULE Tlb --------------------------------
(***************************************************************************)
(* TLB shootdown: __flush_tlbs and __flush_tlbs_on_nmi of                  *)
(* ukern/i386/src/tlb.c, as pmap_commit calls them after a change of page  *)
(* tables.  A CPU asks the others by NMI and waits for one counter, which  *)
(* all the requests in the system share, to be zero.                       *)
(*                                                                         *)
(* A CPU has room for one NMI that it has not taken, so two of them may    *)
(* arrive as one.                                                          *)
(***************************************************************************)
EXTENDS Integers, FiniteSets, FiniteSetsExt

CONSTANTS TlbCpus,   \* numbers of the CPUs
          MaxFlush   \* bound: flushes asked for

ASSUME TlbAssumption == IsFiniteSet(TlbCpus) /\ TlbCpus \subseteq Nat /\ MaxFlush \in Nat

Kinds == {"normal", "global"}    \* TLBF_NORMAL, TLBF_GLOBAL

VARIABLES tlbop,     \* [cpu -> TLBF bits set in cpu_info]
          tlbcnt,    \* __tlbcnt
          nmi,       \* CPUs with an NMI pending
          innmi,     \* CPUs in the NMI handler that have still to count down
          flush,     \* [cpu -> the flush it asks for: its kind, the CPUs left
                     \* to ask and the step of __flush_tlbs it is at]
          stale,     \* <<asker, kind, cpu>>: cpu may hold a translation that
                     \* asker has changed
          flushes    \* flushes asked for

tlbVars == <<tlbop, tlbcnt, nmi, innmi, flush, stale, flushes>>

NoFlush == [kind |-> "normal", todo |-> {}, at |-> "none"]

TlbInit ==
  /\ tlbop = [c \in TlbCpus |-> {}]
  /\ tlbcnt = 0
  /\ nmi = {}
  /\ innmi = {}
  /\ flush = [c \in TlbCpus |-> NoFlush]
  /\ stale = {}
  /\ flushes = 0

(* What CPU c drops: all of its translations, or all but the global ones.  *)
FlushedNot(c, bits) ==           \* mutant: the bits are compared, not tested
  {s \in stale : s[3] = c /\ bits = {s[2]}}
Flushed(c, bits) ==
  {s \in stale : s[3] = c /\ ("global" \in bits \/ ("normal" \in bits /\ s[2] = "normal"))}

Target(c) == Min(flush[c].todo)  \* the CPU the loop of __flush_tlbs is at

Runs(c, at) == flush[c].at = at /\ c \notin innmi

-----------------------------------------------------------------------------
(* pmap_commit: page tables have changed.  A global mapping concerns every *)
(* CPU; another one those that have the page tables loaded, its own first. *)
PmapCommit(c, kind, cpus) ==
  /\ Runs(c, "none") /\ flushes < MaxFlush
  /\ c \in cpus /\ (kind = "global" => cpus = TlbCpus)
  /\ flushes' = flushes + 1
  /\ flush' = [flush EXCEPT ![c] = [kind |-> kind, todo |-> cpus \ {c}, at |-> "ask"]]
  /\ stale' = stale \cup {<<c, kind, d>> : d \in cpus}
  /\ UNCHANGED <<tlbop, tlbcnt, nmi, innmi>>

(* The loop of __flush_tlbs, for one CPU: the request is posted, ...       *)
FlushAsk(c) ==
  /\ Runs(c, "ask") /\ flush[c].todo # {}
  /\ tlbop' = [tlbop EXCEPT ![Target(c)] = @ \cup {flush[c].kind}]
  /\ flush' = [flush EXCEPT ![c].at = "count"]
  /\ UNCHANGED <<tlbcnt, nmi, innmi, stale, flushes>>

(* ... counted ...                                                         *)
FlushCount(c) ==
  /\ Runs(c, "count")
  /\ tlbcnt' = tlbcnt + 1
  /\ flush' = [flush EXCEPT ![c].at = "nmi"]
  /\ UNCHANGED <<tlbop, nmi, innmi, stale, flushes>>

(* ... and sent (cpu_nmi): an NMI that is already pending takes it in.     *)
FlushSend(c) ==
  /\ Runs(c, "nmi")
  /\ nmi' = nmi \cup {Target(c)}
  /\ flush' = [flush EXCEPT ![c].at = "ask", ![c].todo = @ \ {Target(c)}]
  /\ UNCHANGED <<tlbop, tlbcnt, innmi, stale, flushes>>

(* After the loop the CPU flushes its own TLB ...                          *)
FlushSelf(c) ==
  /\ Runs(c, "ask") /\ flush[c].todo = {}
  /\ stale' = stale \ Flushed(c, {flush[c].kind})
  /\ flush' = [flush EXCEPT ![c].at = "wait"]
  /\ UNCHANGED <<tlbop, tlbcnt, nmi, innmi, flushes>>

(* ... and waits for the counter.                                          *)
FlushDone(c) ==
  /\ Runs(c, "wait") /\ tlbcnt = 0
  /\ flush' = [flush EXCEPT ![c] = NoFlush]
  /\ UNCHANGED <<tlbop, tlbcnt, nmi, innmi, stale, flushes>>

(* __flush_tlbs_on_nmi: the requests are fetched and cleared and the TLB   *)
(* flushed, whatever the CPU was doing; an NMI is held back in its handler.*)
NmiEnter(c) ==
  /\ c \in nmi /\ c \notin innmi
  /\ nmi' = nmi \ {c} /\ innmi' = innmi \cup {c}
  /\ stale' = stale \ Flushed(c, tlbop[c])
  /\ tlbop' = [tlbop EXCEPT ![c] = {}]
  /\ UNCHANGED <<tlbcnt, flush, flushes>>
NmiLeave(c) ==
  /\ c \in innmi
  /\ innmi' = innmi \ {c}
  /\ tlbcnt' = tlbcnt - 1
  /\ UNCHANGED <<tlbop, nmi, flush, stale, flushes>>

TlbNext ==
  \E c \in TlbCpus :
    \/ \E kind \in Kinds, cpus \in SUBSET TlbCpus : PmapCommit(c, kind, cpus)
    \/ FlushAsk(c) \/ FlushCount(c) \/ FlushSend(c) \/ FlushSelf(c) \/ FlushDone(c)
    \/ NmiEnter(c) \/ NmiLeave(c)

TlbSpec == TlbInit /\ [][TlbNext]_tlbVars

-----------------------------------------------------------------------------
(* Type invariant.                                                         *)
TlbTypeOK ==
  /\ tlbop \in [TlbCpus -> SUBSET Kinds]
  /\ tlbcnt \in Nat
  /\ nmi \subseteq TlbCpus /\ innmi \subseteq TlbCpus
  /\ flush \in [TlbCpus -> [kind : Kinds, todo : SUBSET TlbCpus,
                            at : {"none", "ask", "count", "nmi", "wait"}]]
  /\ stale \subseteq TlbCpus \X Kinds \X TlbCpus
  /\ flushes \in 0..MaxFlush

(* When pmap_commit returns no CPU holds a translation that it changed,    *)
(* although one counter stands for the requests of all CPUs and a request  *)
(* may be served by the NMI of another one.                                *)
FlushReaches == \A s \in stale : flush[s[1]].at # "none"
=============================================================================

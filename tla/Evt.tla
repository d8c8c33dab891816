-------------------------------- MODULE Evt --------------------------------
(***************************************************************************)
(* The events of a process, lib/libmrg/evt.c: evtalloc and evtfree over    *)
(* the bit maps alloc_evts and set_evts, in words of EvtWord bits, and the *)
(* registrations in wait_evts.  Each user is an LWT or AST that has one    *)
(* event at a time, as mbr_scan and rumpuser_bio have.  evtfree leaves     *)
(* the registration and the bit in set_evts to evtalloc.                   *)
(*                                                                         *)
(* Two things in the code go wrong with many events: evtfree shifts an     *)
(* int, so that event IntBits - 1 of a word frees those above it, and      *)
(* those above it free one of the lower half; and evtalloc clears the      *)
(* registration in the first word whatever the word of the event.          *)
(***************************************************************************)
EXTENDS Integers

CONSTANTS EvtWord,    \* bits of a uint64_t: 64
          IntBits,    \* bits of an int: 32
          EvtWords,   \* MAXEVTQWORD: 3
          EvtUsers,   \* who has events
          NoUser,     \* NULL in wait_evts
          MaxLeak     \* bound: the events that get lost are below

ASSUME EvtAssumption ==
  /\ EvtWord \in Nat /\ IntBits \in Nat \ {0} /\ EvtWords \in Nat \ {0}
  /\ EvtWord = 2 * IntBits /\ NoUser \notin EvtUsers /\ MaxLeak \in Nat

MaxEvt == EvtWord * EvtWords
Events == 0..(MaxEvt - 1)
NoEvent == -1         \* of a user that has none

VARIABLES ealloc,     \* alloc_evts: events whose bit is set
          esets,      \* set_evts: events whose bit is set
          ewaits,     \* wait_evts: [event -> user or NoUser]
          eheld,      \* [user -> the event it got from evtalloc]
          eregs,      \* users that have registered for their event
          eraised,    \* users whose event was set since they got it
          eover       \* history: an event from IntBits - 1 on was handed out

evtVars == <<ealloc, esets, ewaits, eheld, eregs, eraised, eover>>

EvtInit ==
  /\ ealloc = {} /\ esets = {} /\ ewaits = [e \in Events |-> NoUser]
  /\ eheld = [u \in EvtUsers |-> NoEvent] /\ eregs = {} /\ eraised = {} /\ eover = FALSE

-----------------------------------------------------------------------------
(* ffs64 of the first word that is not full finds the lowest free event.   *)
FirstFree(e) == e \in Events \ ealloc /\ 0..(e - 1) \subseteq ealloc

(* evtalloc; the program stops when no event is left.                      *)
EvtAlloc(u) ==
  /\ eheld[u] = NoEvent
  /\ \E e \in Events :
       /\ FirstFree(e)
       /\ ealloc' = ealloc \cup {e} /\ esets' = esets \ {e}
       /\ ewaits' = [ewaits EXCEPT ![e % EvtWord] = NoUser]
       /\ eheld' = [eheld EXCEPT ![u] = e]
       /\ eover' = (eover \/ e >= IntBits - 1)
  /\ UNCHANGED <<eregs, eraised>>

(* The bits of its word that evtfree clears for bit j: the processor takes *)
(* the shift of an int modulo IntBits, and the complement of the int's     *)
(* sign bit has no bits above.                                             *)
Freed(j) ==
  IF j % IntBits = IntBits - 1 THEN (IntBits - 1)..(EvtWord - 1) ELSE {j % IntBits}

(* evtfree, by a user whose event has come (_rumpmrg_bio_ast) or who has   *)
(* waited for it (mbr_scan).                                               *)
EvtFree(u) ==
  /\ eheld[u] # NoEvent
  /\ ealloc' = ealloc \ {(eheld[u] \div EvtWord) * EvtWord + b : b \in Freed(eheld[u] % EvtWord)}
  /\ eheld' = [eheld EXCEPT ![u] = NoEvent]
  /\ eregs' = eregs \ {u} /\ eraised' = eraised \ {u}
  /\ UNCHANGED <<esets, ewaits, eover>>

(* mbr_scan returns without evtfree when it finds no disk or no table.     *)
EvtLeak(u) ==
  /\ eheld[u] # NoEvent /\ eheld[u] < MaxLeak /\ u \notin eregs
  /\ eheld' = [eheld EXCEPT ![u] = NoEvent] /\ eraised' = eraised \ {u}
  /\ UNCHANGED <<ealloc, esets, ewaits, eregs, eover>>

(* The user registers: evtwait, evtast, which assert that no one else has; *)
(* evtwait also takes it back.                                             *)
EvtRegister(u) ==
  /\ eheld[u] # NoEvent /\ u \notin eregs /\ ewaits[eheld[u]] = NoUser
  /\ ewaits' = [ewaits EXCEPT ![eheld[u]] = u]
  /\ eregs' = eregs \cup {u}
  /\ UNCHANGED <<ealloc, esets, eheld, eraised, eover>>
EvtUnregister(u) ==
  /\ u \in eregs
  /\ ewaits' = [ewaits EXCEPT ![eheld[u]] = NoUser]
  /\ eregs' = eregs \ {u}
  /\ UNCHANGED <<ealloc, esets, eheld, eraised, eover>>

(* The bits of set_evts: __evtset for what the user has asked for, and     *)
(* evtclear.                                                               *)
EvtRaise(u) ==
  /\ eheld[u] # NoEvent
  /\ esets' = esets \cup {eheld[u]} /\ eraised' = eraised \cup {u}
  /\ UNCHANGED <<ealloc, ewaits, eheld, eregs, eover>>
EvtReset(u) ==
  /\ eheld[u] # NoEvent
  /\ esets' = esets \ {eheld[u]}
  /\ UNCHANGED <<ealloc, ewaits, eheld, eregs, eraised, eover>>

EvtNext ==
  \E u \in EvtUsers :
    \/ EvtAlloc(u) \/ EvtFree(u) \/ EvtLeak(u)
    \/ EvtRegister(u) \/ EvtUnregister(u)
    \/ EvtRaise(u) \/ EvtReset(u)
EvtSpec == EvtInit /\ [][EvtNext]_evtVars

-----------------------------------------------------------------------------
(* Type invariant.                                                         *)
EvtTypeOK ==
  /\ ealloc \subseteq Events /\ esets \subseteq Events
  /\ ewaits \in [Events -> EvtUsers \cup {NoUser}] /\ eheld \in [EvtUsers -> Events \cup {NoEvent}]
  /\ eregs \subseteq EvtUsers /\ eraised \subseteq EvtUsers /\ eover \in BOOLEAN

(* As long as fewer than IntBits events were allocated at a time: each     *)
(* holder has an event of its own, allocated; wait_evts names it exactly   *)
(* while it has registered (evtwait and evtast assert that it finds no     *)
(* one there); and the event is set only if it was raised for this holder  *)
(* and not for one that has freed it.                                      *)
HolderOk(u) ==
  /\ eheld[u] \in ealloc
  /\ \A v \in EvtUsers \ {u} : eheld[v] # eheld[u]
  /\ ewaits[eheld[u]] = IF u \in eregs THEN u ELSE NoUser
  /\ eheld[u] \in esets => u \in eraised
EvtSound == ~eover => \A u \in EvtUsers : eheld[u] # NoEvent => HolderOk(u)
=============================================================================

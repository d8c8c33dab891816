------------------------------- MODULE Queue -------------------------------
(***************************************************************************)
(* The lists of ukern/lib/uk/queue.h that the kernel and the libraries are *)
(* built on: tail queues, doubly linked lists, simple queues and singly    *)
(* linked lists, by their pointers.                                        *)
(*                                                                         *)
(* The macros hold the addresses of "next" fields.  Such an address is     *)
(* named here by what contains the field: an element, or a head for its    *)
(* field "first".  The fields of an element outside the lists are left at  *)
(* NoElm: an insertion writes them before they are read.                   *)
(***************************************************************************)
EXTENDS Integers, SequencesExt

CONSTANTS QHeads,    \* heads of lists of one type
          QElms,     \* elements
          NoElm      \* NULL

ASSUME QueueAssumption == NoElm \notin QHeads \cup QElms /\ QHeads \cap QElms = {}

VARIABLES qkind,     \* which family of macros the lists are used with
          links      \* nxt: "next" and "first" fields; prv: *_prev fields;
                     \* last: *_last fields of the heads

queueVars == <<qkind, links>>
QKinds == {"tailq", "list", "simpleq", "slist"}

(* The elements that *_FOREACH meets from the cell c on.                   *)
Walk(s, c) ==
  LET from[x \in QHeads \cup QElms] ==
        IF s.nxt[x] = NoElm THEN <<>> ELSE <<s.nxt[x]>> \o from[s.nxt[x]]
  IN from[c]
On(h) == ToSet(Walk(links, h))
Unlinked == QElms \ UNION {On(h) : h \in QHeads}

(* The address held by element e becomes that of cell c (Back), or, when   *)
(* there is no such element, the "last" of the head does (LastTo).         *)
Back(s, e, c) == [x \in QElms |-> IF x = e THEN c ELSE s.prv[x]]
LastTo(s, h, e, c) == IF e = NoElm THEN [s.last EXCEPT ![h] = c] ELSE s.last
Forget(s, e) == [s EXCEPT !.nxt[e] = NoElm, !.prv[e] = NoElm]

-----------------------------------------------------------------------------
(* Tail queues.                                                            *)
TAILQ_INSERT_HEAD(s, h, e) ==
  LET f == s.nxt[h]
  IN  [nxt |-> [s.nxt EXCEPT ![e] = f, ![h] = e],
       prv |-> [Back(s, f, e) EXCEPT ![e] = h], last |-> LastTo(s, h, f, e)]
TAILQ_INSERT_TAIL(s, h, e) ==
  [nxt |-> [s.nxt EXCEPT ![e] = NoElm, ![s.last[h]] = e],
   prv |-> [s.prv EXCEPT ![e] = s.last[h]], last |-> [s.last EXCEPT ![h] = e]]
TAILQ_INSERT_AFTER(s, h, x, e) ==
  LET f == s.nxt[x]
  IN  [nxt |-> [s.nxt EXCEPT ![e] = f, ![x] = e],
       prv |-> [Back(s, f, e) EXCEPT ![e] = x], last |-> LastTo(s, h, f, e)]
TAILQ_INSERT_BEFORE(s, x, e) ==
  [nxt |-> [s.nxt EXCEPT ![e] = x, ![s.prv[x]] = e],
   prv |-> [s.prv EXCEPT ![e] = s.prv[x], ![x] = e], last |-> s.last]
TAILQ_REMOVE(s, h, e) ==
  Forget([nxt |-> [s.nxt EXCEPT ![s.prv[e]] = s.nxt[e]],
          prv |-> Back(s, s.nxt[e], s.prv[e]),
          last |-> LastTo(s, h, s.nxt[e], s.prv[e])], e)
TAILQ_REPLACE(s, h, e, e2) ==
  Forget([nxt |-> [s.nxt EXCEPT ![e2] = s.nxt[e], ![s.prv[e]] = e2],
          prv |-> [Back(s, s.nxt[e], e2) EXCEPT ![e2] = s.prv[e]],
          last |-> LastTo(s, h, s.nxt[e], e2)], e)
TAILQ_CONCAT(s, h, g) ==
  IF s.nxt[g] = NoElm THEN s
  ELSE [nxt |-> [s.nxt EXCEPT ![s.last[h]] = s.nxt[g], ![g] = NoElm],
        prv |-> [s.prv EXCEPT ![s.nxt[g]] = s.last[h]],
        last |-> [s.last EXCEPT ![h] = s.last[g], ![g] = g]]

(* A tqh_last or a tqe_prev is read as if it were a head: what follows the *)
(* field at that address is the tqe_prev of an element or the tqh_last of  *)
(* a head, and that is the address of the pointer wanted.                  *)
Before(s, c) == s.nxt[IF c \in QHeads THEN s.last[c] ELSE s.prv[c]]
TAILQ_LAST(s, h) == Before(s, s.last[h])
TAILQ_PREV(s, e) == Before(s, s.prv[e])

-----------------------------------------------------------------------------
(* Lists: no "last".                                                       *)
LIST_INSERT_HEAD(s, h, e) ==
  [s EXCEPT !.nxt = [@ EXCEPT ![e] = s.nxt[h], ![h] = e],
            !.prv = [Back(s, s.nxt[h], e) EXCEPT ![e] = h]]
LIST_INSERT_AFTER(s, x, e) ==
  [s EXCEPT !.nxt = [@ EXCEPT ![e] = s.nxt[x], ![x] = e],
            !.prv = [Back(s, s.nxt[x], e) EXCEPT ![e] = x]]
LIST_INSERT_BEFORE(s, x, e) ==
  [s EXCEPT !.nxt = [@ EXCEPT ![e] = x, ![s.prv[x]] = e],
            !.prv = [@ EXCEPT ![e] = s.prv[x], ![x] = e]]
LIST_REMOVE(s, e) ==
  Forget([s EXCEPT !.nxt[s.prv[e]] = s.nxt[e], !.prv = Back(s, s.nxt[e], s.prv[e])], e)
LIST_REPLACE(s, e, e2) ==
  Forget([s EXCEPT !.nxt = [@ EXCEPT ![e2] = s.nxt[e], ![s.prv[e]] = e2],
                   !.prv = [Back(s, s.nxt[e], e2) EXCEPT ![e2] = s.prv[e]]], e)

-----------------------------------------------------------------------------
(* Simple queues: no "prev".                                               *)
SIMPLEQ_INSERT_HEAD(s, h, e) ==
  [s EXCEPT !.nxt = [@ EXCEPT ![e] = s.nxt[h], ![h] = e], !.last = LastTo(s, h, s.nxt[h], e)]
SIMPLEQ_INSERT_TAIL(s, h, e) ==
  [s EXCEPT !.nxt = [@ EXCEPT ![e] = NoElm, ![s.last[h]] = e], !.last[h] = e]
SIMPLEQ_INSERT_AFTER(s, h, x, e) ==
  [s EXCEPT !.nxt = [@ EXCEPT ![e] = s.nxt[x], ![x] = e], !.last = LastTo(s, h, s.nxt[x], e)]
SIMPLEQ_REMOVE_AFTER(s, h, c) ==
  LET e == s.nxt[c]
  IN  Forget([s EXCEPT !.nxt[c] = s.nxt[e], !.last = LastTo(s, h, s.nxt[e], c)], e)
SIMPLEQ_REMOVE_HEAD(s, h) == SIMPLEQ_REMOVE_AFTER(s, h, h)
SIMPLEQ_REMOVE(s, h, e) ==
  IF s.nxt[h] = e THEN SIMPLEQ_REMOVE_HEAD(s, h)
  ELSE SIMPLEQ_REMOVE_AFTER(s, h, CHOOSE x \in QElms : s.nxt[x] = e)
SIMPLEQ_CONCAT(s, h, g) ==
  IF s.nxt[g] = NoElm THEN s
  ELSE [s EXCEPT !.nxt = [@ EXCEPT ![s.last[h]] = s.nxt[g], ![g] = NoElm],
                 !.last = [@ EXCEPT ![h] = s.last[g], ![g] = g]]
SIMPLEQ_LAST(s, h) == IF s.nxt[h] = NoElm THEN NoElm ELSE s.last[h]

(* Singly linked lists: "next" only.                                       *)
SLIST_INSERT_HEAD(s, h, e) == [s EXCEPT !.nxt = [@ EXCEPT ![e] = s.nxt[h], ![h] = e]]
SLIST_INSERT_AFTERCut(s, x, e) ==  \* mutant: the rest of the list is not linked
  [s EXCEPT !.nxt[x] = e]
SLIST_INSERT_AFTER(s, x, e) == [s EXCEPT !.nxt = [@ EXCEPT ![e] = s.nxt[x], ![x] = e]]
SLIST_REMOVE_AFTER(s, c) == Forget([s EXCEPT !.nxt[c] = s.nxt[s.nxt[c]]], s.nxt[c])
SLIST_REMOVE_HEAD(s, h) == SLIST_REMOVE_AFTER(s, h)
SLIST_REMOVE(s, h, e) ==
  IF s.nxt[h] = e THEN SLIST_REMOVE_HEAD(s, h)
  ELSE SLIST_REMOVE_AFTER(s, CHOOSE x \in QElms : s.nxt[x] = e)

-----------------------------------------------------------------------------
(* The *_INIT macros, for every head.                                      *)
QueueInit ==
  /\ qkind \in QKinds
  /\ links = [nxt |-> [c \in QHeads \cup QElms |-> NoElm], prv |-> [e \in QElms |-> NoElm],
          last |-> [h \in QHeads |-> h]]

Tailq(h) ==
  /\ qkind = "tailq"
  /\ \/ \E e \in Unlinked : \/ links' = TAILQ_INSERT_HEAD(links, h, e)
                            \/ links' = TAILQ_INSERT_TAIL(links, h, e)
     \/ \E x \in On(h), e \in Unlinked : \/ links' = TAILQ_INSERT_AFTER(links, h, x, e)
                                         \/ links' = TAILQ_INSERT_BEFORE(links, x, e)
                                         \/ links' = TAILQ_REPLACE(links, h, x, e)
     \/ \E e \in On(h) : links' = TAILQ_REMOVE(links, h, e)
     \/ \E g \in QHeads \ {h} : links' = TAILQ_CONCAT(links, h, g)
List(h) ==
  /\ qkind = "list"
  /\ \/ \E e \in Unlinked : links' = LIST_INSERT_HEAD(links, h, e)
     \/ \E x \in On(h), e \in Unlinked : \/ links' = LIST_INSERT_AFTER(links, x, e)
                                         \/ links' = LIST_INSERT_BEFORE(links, x, e)
                                         \/ links' = LIST_REPLACE(links, x, e)
     \/ \E e \in On(h) : links' = LIST_REMOVE(links, e)
Simpleq(h) ==
  /\ qkind = "simpleq"
  /\ \/ \E e \in Unlinked : \/ links' = SIMPLEQ_INSERT_HEAD(links, h, e)
                            \/ links' = SIMPLEQ_INSERT_TAIL(links, h, e)
     \/ \E x \in On(h), e \in Unlinked : links' = SIMPLEQ_INSERT_AFTER(links, h, x, e)
     \/ \E e \in On(h) : links' = SIMPLEQ_REMOVE(links, h, e)
     \/ \E x \in On(h) : links.nxt[x] # NoElm /\ links' = SIMPLEQ_REMOVE_AFTER(links, h, x)
     \/ \E g \in QHeads \ {h} : links' = SIMPLEQ_CONCAT(links, h, g)
Slist(h) ==
  /\ qkind = "slist"
  /\ \/ \E e \in Unlinked : links' = SLIST_INSERT_HEAD(links, h, e)
     \/ \E x \in On(h), e \in Unlinked : links' = SLIST_INSERT_AFTER(links, x, e)
     \/ \E e \in On(h) : links' = SLIST_REMOVE(links, h, e)
     \/ \E x \in On(h) : links.nxt[x] # NoElm /\ links' = SLIST_REMOVE_AFTER(links, x)

QueueNext == UNCHANGED qkind /\ \E h \in QHeads : Tailq(h) \/ List(h) \/ Simpleq(h) \/ Slist(h)
QueueSpec == QueueInit /\ [][QueueNext]_queueVars

-----------------------------------------------------------------------------
(* Type invariant.                                                         *)
QueueTypeOK ==
  /\ qkind \in QKinds
  /\ links.nxt \in [QHeads \cup QElms -> QElms \cup {NoElm}]
  /\ links.prv \in [QElms -> QHeads \cup QElms \cup {NoElm}]
  /\ links.last \in [QHeads -> QHeads \cup QElms]

(* The cell i of the list that begins at c.                                *)
Cell(c, w, i) == IF i = 0 THEN c ELSE w[i]

(* What QUEUEDEBUG_TAILQ_OP, QUEUEDEBUG_LIST_OP and the PREREMOVE checks   *)
(* would abort on never happens, however insertions, removals and          *)
(* concatenations of several lists follow one another: *_prev is the       *)
(* address of the pointer to the element, *_last that of the final NULL;   *)
(* and TAILQ_LAST, TAILQ_PREV and SIMPLEQ_LAST, which read a field as if   *)
(* it were a head, find the element they are after.                        *)
LinksBack ==
  \A h \in QHeads :
    LET s == Walk(links, h)
        Elm(i) == Cell(NoElm, s, i)
    IN  /\ qkind \in {"tailq", "simpleq"} => links.last[h] = Cell(h, s, Len(s))
        /\ qkind \in {"tailq", "list"} => \A i \in 1..Len(s) : links.prv[s[i]] = Cell(h, s, i - 1)
        /\ qkind = "tailq" => /\ TAILQ_LAST(links, h) = Elm(Len(s))
                              /\ \A i \in 1..Len(s) : TAILQ_PREV(links, s[i]) = Elm(i - 1)
        /\ qkind = "simpleq" => SIMPLEQ_LAST(links, h) = Elm(Len(s))

(* The linked lists implement sequences: every macro changes the lists it  *)
(* is applied to, at the place it is applied to, and no other; and they    *)
(* keep their back and tail pointers.                                      *)
QAbs == INSTANCE SeqQueue WITH Lists <- QHeads, Members <- QElms,
                               seqs <- [h \in QHeads |-> Walk(links, h)]
QueueIsSeq == QAbs!SQSpec /\ []LinksBack
=============================================================================

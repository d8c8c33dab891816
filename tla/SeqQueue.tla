------------------------------ MODULE SeqQueue ------------------------------
(***************************************************************************)
(* What the macros of queue.h promise: sequences of elements, each element *)
(* in one of them at most.                                                 *)
(***************************************************************************)
EXTENDS Integers, SequencesExt
CONSTANTS Lists, Members
VARIABLE seqs      \* [list -> sequence of members]

Queued(e) == \E l \in Lists : e \in ToSet(seqs[l])

SQInit == seqs = [l \in Lists |-> <<>>]

SQInsert(l, i, e) == ~Queued(e) /\ seqs' = [seqs EXCEPT ![l] = InsertAt(@, i, e)]
SQRemove(l, i) == seqs' = [seqs EXCEPT ![l] = RemoveAt(@, i)]
SQReplace(l, i, e) == ~Queued(e) /\ seqs' = [seqs EXCEPT ![l] = ReplaceAt(@, i, e)]
SQConcat(l, m) == l # m /\ seqs' = [seqs EXCEPT ![l] = @ \o seqs[m], ![m] = <<>>]

SQNext ==
  \E l \in Lists :
    \/ \E i \in 1..(Len(seqs[l]) + 1), e \in Members : SQInsert(l, i, e)
    \/ \E i \in 1..Len(seqs[l]) : SQRemove(l, i) \/ \E e \in Members : SQReplace(l, i, e)
    \/ \E m \in Lists : SQConcat(l, m)

SQSpec == SQInit /\ [][SQNext]_seqs
=============================================================================

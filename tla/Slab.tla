-------------------------------- MODULE Slab --------------------------------
(***************************************************************************)
(* A cache of the slab allocator, ukern/src/slab.c, as fixmem (a page cut  *)
(* into objects, the header outside it).  Slabs move between the queues of *)
(* empty, partly used and full slabs.  The cache is grown with its lock    *)
(* released, so CPUs that find it exhausted interleave.                    *)
(***************************************************************************)
EXTENDS Integers, Sequences, SequencesExt, FiniteSets

CONSTANTS SlabSize,   \* ___slabsize()
          HdrSize,    \* sizeof(struct slabhdr)
          ObjSize,    \* sc->objsize
          SlabMax,    \* bound: slabs; then the page allocator panics
          SlabTries,  \* bound: alloc_opq gives up when `tries++' exceeds it; 3 in the code
          SlabCpus    \* CPUs

ASSUME SlabAssumption == /\ {SlabSize, HdrSize, ObjSize} \subseteq Nat \ {0}
                         /\ 2 * ObjSize <= SlabSize
                         /\ {SlabMax, SlabTries} \subseteq Nat

VARIABLES emptyq, freeq, fullq,  \* queues of slabs
          cnt,     \* emptycnt, freecnt and fullcnt of the cache
          objs,    \* [slab -> sh->freeq, its free objects]
          sheld,   \* <<slab, object>> handed out
          tries,   \* [SlabCpus -> tries of the alloc_opq the CPU is in, 0 if none]
          growing  \* CPUs that have to call grow

slabVars == <<emptyq, freeq, fullq, cnt, objs, sheld, tries, growing>>

(* ___slabobjs of a fixmem, and max_objs of free, which are not the same.  *)
slabobjs == SlabSize \div ObjSize
max_objs == (SlabSize - HdrSize) \div ObjSize

Slabs == DOMAIN objs
freecnt(sh) == Len(objs[sh])
Counts(e, f, u) ==
  [empty |-> cnt.empty + e, free |-> cnt.free + f, full |-> cnt.full + u]

(* LIST_REMOVE of a slab that is in the queue.                             *)
Unlink(q, sh) == RemoveAt(q, CHOOSE i \in DOMAIN q : q[i] = sh)

(* register.                                                               *)
SlabInit ==
  /\ emptyq = <<>> /\ freeq = <<>> /\ fullq = <<>>
  /\ cnt = [empty |-> 0, free |-> 0, full |-> 0]
  /\ objs = <<>>
  /\ sheld = {}
  /\ tries = [c \in SlabCpus |-> 0]
  /\ growing = {}

-----------------------------------------------------------------------------
(* The queues after alloc_opq has taken from the first partly used slab,   *)
(* which is full when it had one object left, or from an empty one.        *)
TakeFreeStays == UNCHANGED <<emptyq, freeq, fullq, cnt>>  \* mutant: never full
TakeFree ==
  IF freecnt(Head(freeq)) = 1
  THEN /\ freeq' = Tail(freeq)
       /\ fullq' = <<Head(freeq)>> \o fullq
       /\ cnt' = Counts(0, -1, 1)
       /\ UNCHANGED emptyq
  ELSE UNCHANGED <<emptyq, freeq, fullq, cnt>>
TakeEmpty ==
  /\ emptyq' = Tail(emptyq)
  /\ freeq' = <<Head(emptyq)>> \o freeq
  /\ cnt' = Counts(-1, 1, 0)
  /\ UNCHANGED fullq

(* alloc_opq, under the lock, at the start or after grow.                  *)
SlabAlloc(c) ==
  LET sh == IF freeq # <<>> THEN Head(freeq) ELSE Head(emptyq) IN
  /\ c \notin growing
  /\ freeq \o emptyq # <<>>
  /\ IF freeq # <<>> THEN TakeFree ELSE TakeEmpty
  /\ objs' = [objs EXCEPT ![sh] = Tail(@)]
  /\ sheld' = sheld \cup {<<sh, Head(objs[sh])>>}
  /\ tries' = [tries EXCEPT ![c] = 0]
  /\ UNCHANGED growing

(* alloc_opq finds nothing and unlocks: it gives up after some tries.      *)
SlabExhausted(c) ==
  /\ c \notin growing
  /\ freeq = <<>> /\ emptyq = <<>>
  /\ IF tries[c] > SlabTries
     THEN tries' = [tries EXCEPT ![c] = 0] /\ UNCHANGED growing
     ELSE tries' = [tries EXCEPT ![c] = @ + 1] /\ growing' = growing \cup {c}
  /\ UNCHANGED <<emptyq, freeq, fullq, cnt, objs, sheld>>

(* grow.                                                                   *)
SlabGrow(c) ==
  LET sh == Len(objs) + 1 IN
  /\ c \in growing
  /\ Len(objs) < SlabMax
  /\ objs' = Append(objs, [i \in 1..slabobjs |-> slabobjs + 1 - i])
  /\ emptyq' = <<sh>> \o emptyq
  /\ cnt' = Counts(1, 0, 0)
  /\ growing' = growing \ {c}
  /\ UNCHANGED <<freeq, fullq, sheld, tries>>

(* free.  A slab with one free object was full; one with max_objs goes to  *)
(* emptyq, from wherever it is.                                            *)
SlabFree(c, o) ==
  LET sh == o[1] IN
  /\ c \notin growing /\ tries[c] = 0
  /\ objs' = [objs EXCEPT ![sh] = <<o[2]>> \o @]
  /\ sheld' = sheld \ {o}
  /\ IF freecnt(sh) + 1 = 1
     THEN /\ fullq' = Unlink(fullq, sh)
          /\ freeq' = <<sh>> \o freeq
          /\ cnt' = Counts(0, 1, -1)
          /\ UNCHANGED emptyq
     ELSE IF freecnt(sh) + 1 = max_objs
     THEN /\ freeq' = Unlink(freeq, sh)
          /\ emptyq' = <<sh>> \o emptyq
          /\ cnt' = Counts(1, -1, 0)
          /\ UNCHANGED fullq
     ELSE UNCHANGED <<emptyq, freeq, fullq, cnt>>
  /\ UNCHANGED <<tries, growing>>

SlabNext == \E c \in SlabCpus :
  SlabAlloc(c) \/ SlabExhausted(c) \/ SlabGrow(c) \/ \E o \in sheld : SlabFree(c, o)

SlabSpec == SlabInit /\ [][SlabNext]_slabVars

-----------------------------------------------------------------------------
(* Type invariant.                                                         *)
SlabTypeOK ==
  /\ {emptyq, freeq, fullq} \subseteq Seq(1..SlabMax)
  /\ cnt \in [empty : Int, free : Int, full : Int]
  /\ objs \in Seq(Seq(1..slabobjs))
  /\ sheld \subseteq (1..SlabMax) \X (1..slabobjs)
  /\ tries \in [SlabCpus -> 0 .. SlabTries + 1]
  /\ growing \subseteq SlabCpus

(* A slab is in one queue, the right one for alloc_opq never to take from  *)
(* an exhausted slab: full slabs have no free object and the others have;  *)
(* the counters are the lengths.  (An `empty' fixmem slab may have one     *)
(* object in use, for max_objs is too small.)                              *)
SlabQueues ==
  LET q == emptyq \o freeq \o fullq IN
  /\ IsInjective(q) /\ ToSet(q) = Slabs
  /\ \A sh \in ToSet(fullq) : freecnt(sh) = 0
  /\ \A sh \in ToSet(freeq) : freecnt(sh) > 0
  /\ \A sh \in ToSet(emptyq) : freecnt(sh) >= max_objs
  /\ cnt = [empty |-> Len(emptyq), free |-> Len(freeq), full |-> Len(fullq)]

(* Every object of every slab is either free, once, or in use.             *)
ObjectsOnce ==
  \A sh \in Slabs :
    /\ IsInjective(objs[sh])
    /\ ToSet(objs[sh]) \cap {o[2] : o \in {h \in sheld : h[1] = sh}} = {}
    /\ ToSet(objs[sh]) \cup {o[2] : o \in {h \in sheld : h[1] = sh}} = 1..slabobjs

(* The allocator is sound, whichever CPUs take, give back and grow.        *)
SlabSound == SlabQueues /\ ObjectsOnce
=============================================================================

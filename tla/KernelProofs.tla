---------------------------- MODULE KernelProofs ----------------------------
(***************************************************************************)
(* Proofs about parts of the kernel: the slab cache (Slab), the heap       *)
(* (Heap), the linked lists (Queue), the alarms of threads (Timer), TLB    *)
(* shootdown (Tlb) and interrupts (Irq), for any sizes and any number of   *)
(* CPUs, threads, drivers, lines, lists and elements.                      *)
(***************************************************************************)
EXTENDS Slab, Heap, Queue, Timer, Tlb, Irq, ListProofs, FiniteSetTheorems, TLAPS

-----------------------------------------------------------------------------
(* Slab: a slab cache, for any size of slab, header and object.            *)
(* Lists without duplicates.                                               *)

LEMMA UnlinkIs ==
  ASSUME NEW S, NEW q \in Seq(S), NEW x \in ToSet(q)
  PROVE  /\ Unlink(q, x) \in Seq(S) /\ Len(Unlink(q, x)) = Len(q) - 1
         /\ IsInjective(q) => /\ IsInjective(Unlink(q, x))
                              /\ ToSet(Unlink(q, x)) = ToSet(q) \ {x}
<1> DEFINE k == CHOOSE i \in DOMAIN q : q[i] = x
<1>1. k \in DOMAIN q /\ q[k] = x
  BY DEF ToSet
<1>2. Unlink(q, x) = RemoveAt(q, k)
  BY DEF Unlink
<1> HIDE DEF k
<1>3. QED
  BY <1>1, <1>2, RemoveIndex

-----------------------------------------------------------------------------
LEMMA SlabSizes == slabobjs \in Nat /\ slabobjs >= 2 /\ max_objs \in Int /\ max_objs <= slabobjs
BY SlabAssumption DEF slabobjs, max_objs

(* The inductive invariant, on the values of the variables.  Queues: no    *)
(* slab is in two places, and one that is in emptyq has two free objects   *)
(* at least, for alloc_opq puts it into freeq with one less.               *)
FreeEnough(e, f, u, ob) ==
  /\ \A sh \in ToSet(e) : Len(ob[sh]) >= max_objs /\ Len(ob[sh]) >= 2
  /\ \A sh \in ToSet(f) : Len(ob[sh]) > 0
  /\ \A sh \in ToSet(u) : Len(ob[sh]) = 0
QueuesInv(e, f, u, ob, c) ==
  /\ e \in Seq(1..SlabMax) /\ f \in Seq(1..SlabMax) /\ u \in Seq(1..SlabMax)
  /\ IsInjective(e) /\ IsInjective(f) /\ IsInjective(u)
  /\ ToSet(e) \cap ToSet(f) = {} /\ ToSet(e) \cap ToSet(u) = {} /\ ToSet(f) \cap ToSet(u) = {}
  /\ ToSet(e) \cup ToSet(f) \cup ToSet(u) = DOMAIN ob
  /\ FreeEnough(e, f, u, ob)
  /\ c = [empty |-> Len(e), free |-> Len(f), full |-> Len(u)]

(* Objects: in the list of a slab once, or handed out.                     *)
ObjectsInv(ob, held) ==
  /\ ob \in Seq(Seq(1..slabobjs)) /\ Len(ob) <= SlabMax
  /\ held \subseteq (DOMAIN ob) \X (1..slabobjs)
  /\ \A sh \in DOMAIN ob :
       /\ IsInjective(ob[sh])
       /\ \A j \in 1..slabobjs : j \in ToSet(ob[sh]) <=> <<sh, j>> \notin held

CpusInv == tries \in [SlabCpus -> 0 .. SlabTries + 1] /\ growing \subseteq SlabCpus

SlabInv ==
  /\ QueuesInv(emptyq, freeq, fullq, objs, cnt)
  /\ ObjectsInv(objs, sheld)
  /\ CpusInv

-----------------------------------------------------------------------------
LEMMA SetAt ==
  ASSUME NEW ob \in Seq(Seq(1..slabobjs)), NEW sh \in DOMAIN ob, NEW q \in Seq(1..slabobjs)
  PROVE  /\ [ob EXCEPT ![sh] = q] \in Seq(Seq(1..slabobjs))
         /\ Len([ob EXCEPT ![sh] = q]) = Len(ob) /\ DOMAIN [ob EXCEPT ![sh] = q] = DOMAIN ob
         /\ [ob EXCEPT ![sh] = q][sh] = q
         /\ \A x \in DOMAIN ob : x # sh => [ob EXCEPT ![sh] = q][x] = ob[x]
OBVIOUS

LEMMA ObjectTaken ==
  ASSUME NEW ob, NEW held, ObjectsInv(ob, held), NEW sh \in DOMAIN ob, ob[sh] # <<>>
  PROVE  /\ ObjectsInv([ob EXCEPT ![sh] = Tail(ob[sh])], held \cup {<<sh, Head(ob[sh])>>})
         /\ DOMAIN [ob EXCEPT ![sh] = Tail(ob[sh])] = DOMAIN ob
         /\ Len([ob EXCEPT ![sh] = Tail(ob[sh])][sh]) = Len(ob[sh]) - 1
         /\ \A x \in DOMAIN ob : x # sh => [ob EXCEPT ![sh] = Tail(ob[sh])][x] = ob[x]
<1> DEFINE q == Tail(ob[sh])
           h == Head(ob[sh])
           b == [ob EXCEPT ![sh] = q]
           g == held \cup {<<sh, h>>}
<1>0. ob \in Seq(Seq(1..slabobjs)) /\ ob[sh] \in Seq(1..slabobjs) /\ IsInjective(ob[sh])
  BY DEF ObjectsInv
<1>1. /\ q \in Seq(1..slabobjs) /\ Len(q) = Len(ob[sh]) - 1 /\ IsInjective(q)
      /\ h \in 1..slabobjs /\ h \in ToSet(ob[sh]) /\ ToSet(q) = ToSet(ob[sh]) \ {h}
  BY <1>0, PopFront
<1> HIDE DEF q, h
<1>2. /\ b \in Seq(Seq(1..slabobjs)) /\ Len(b) = Len(ob) /\ DOMAIN b = DOMAIN ob
      /\ b[sh] = q /\ \A x \in DOMAIN ob : x # sh => b[x] = ob[x]
  BY <1>0, <1>1, SetAt
<1> HIDE DEF b
<1>3. g \subseteq (DOMAIN ob) \X (1..slabobjs)
  BY <1>1 DEF ObjectsInv
<1>4. ASSUME NEW x \in DOMAIN ob
      PROVE  IsInjective(b[x]) /\ \A j \in 1..slabobjs : j \in ToSet(b[x]) <=> <<x, j>> \notin g
  <2>1. CASE x = sh
    <3>1. \A j \in 1..slabobjs : <<sh, j>> \in g <=> <<sh, j>> \in held \/ j = h
      OBVIOUS
    <3>2. \A j \in 1..slabobjs : j \in ToSet(ob[sh]) <=> <<sh, j>> \notin held
      BY DEF ObjectsInv
    <3>3. QED
      BY <1>1, <1>2, <2>1, <3>1, <3>2
  <2>2. CASE x # sh
    <3>1. \A j \in 1..slabobjs : <<x, j>> \in g <=> <<x, j>> \in held
      BY <2>2
    <3>2. QED
      BY <1>2, <2>2, <3>1 DEF ObjectsInv
  <2>3. QED
    BY <2>1, <2>2
<1>5. ObjectsInv(b, g)
  BY <1>2, <1>3, <1>4 DEF ObjectsInv
<1>6. QED
  BY <1>1, <1>2, <1>5 DEF b, q, h

LEMMA ObjectGiven ==
  ASSUME NEW ob, NEW held, ObjectsInv(ob, held), NEW sh, NEW x, <<sh, x>> \in held
  PROVE  /\ ObjectsInv([ob EXCEPT ![sh] = <<x>> \o ob[sh]], held \ {<<sh, x>>})
         /\ sh \in DOMAIN ob /\ DOMAIN [ob EXCEPT ![sh] = <<x>> \o ob[sh]] = DOMAIN ob
         /\ Len([ob EXCEPT ![sh] = <<x>> \o ob[sh]][sh]) = Len(ob[sh]) + 1
         /\ \A y \in DOMAIN ob : y # sh => [ob EXCEPT ![sh] = <<x>> \o ob[sh]][y] = ob[y]
<1> DEFINE q == <<x>> \o ob[sh]
           b == [ob EXCEPT ![sh] = q]
           g == held \ {<<sh, x>>}
<1>s. sh \in DOMAIN ob /\ x \in 1..slabobjs
  BY DEF ObjectsInv
<1>0. /\ ob \in Seq(Seq(1..slabobjs)) /\ ob[sh] \in Seq(1..slabobjs) /\ IsInjective(ob[sh])
      /\ x \notin ToSet(ob[sh])
  BY <1>s DEF ObjectsInv
<1>1. /\ q \in Seq(1..slabobjs) /\ Len(q) = Len(ob[sh]) + 1 /\ IsInjective(q)
      /\ ToSet(q) = ToSet(ob[sh]) \cup {x}
  BY <1>0, <1>s, PushFront, ZenonT(30)
<1> HIDE DEF q
<1>2. /\ b \in Seq(Seq(1..slabobjs)) /\ Len(b) = Len(ob) /\ DOMAIN b = DOMAIN ob
      /\ b[sh] = q /\ \A y \in DOMAIN ob : y # sh => b[y] = ob[y]
  BY <1>0, <1>1, <1>s, SetAt
<1> HIDE DEF b
<1>3. g \subseteq (DOMAIN ob) \X (1..slabobjs)
  BY DEF ObjectsInv
<1>4. ASSUME NEW y \in DOMAIN ob
      PROVE  IsInjective(b[y]) /\ \A j \in 1..slabobjs : j \in ToSet(b[y]) <=> <<y, j>> \notin g
  <2>1. CASE y = sh
    <3>1. \A j \in 1..slabobjs : <<sh, j>> \in g <=> <<sh, j>> \in held /\ j # x
      OBVIOUS
    <3>2. \A j \in 1..slabobjs : j \in ToSet(ob[sh]) <=> <<sh, j>> \notin held
      BY <1>s DEF ObjectsInv
    <3>3. QED
      BY <1>1, <1>2, <2>1, <3>1, <3>2
  <2>2. CASE y # sh
    <3>1. \A j \in 1..slabobjs : <<y, j>> \in g <=> <<y, j>> \in held
      BY <2>2
    <3>2. QED
      BY <1>2, <2>2, <3>1 DEF ObjectsInv
  <2>3. QED
    BY <2>1, <2>2
<1>5. ObjectsInv(b, g)
  BY <1>2, <1>3, <1>4 DEF ObjectsInv
<1>6. QED
  BY <1>1, <1>2, <1>5, <1>s DEF b, q

(* What the two invariants say of a slab.                                  *)
LEMMA SlabOf ==
  ASSUME SlabInv
  PROVE  /\ emptyq \in Seq(1..SlabMax) /\ freeq \in Seq(1..SlabMax) /\ fullq \in Seq(1..SlabMax)
         /\ ToSet(emptyq) \subseteq Slabs /\ ToSet(freeq) \subseteq Slabs
         /\ \A sh \in Slabs : objs[sh] \in Seq(1..slabobjs) /\ Len(objs[sh]) \in Nat
         /\ Slabs = 1..Len(objs) /\ Len(objs) \in Nat /\ Len(objs) <= SlabMax
         /\ cnt.empty = Len(emptyq) /\ cnt.free = Len(freeq) /\ cnt.full = Len(fullq)
         /\ cnt = [empty |-> Len(emptyq), free |-> Len(freeq), full |-> Len(fullq)]
         /\ Len(emptyq) \in Nat /\ Len(freeq) \in Nat /\ Len(fullq) \in Nat
<1>1. objs \in Seq(Seq(1..slabobjs)) /\ Len(objs) <= SlabMax
  BY DEF SlabInv, ObjectsInv
<1>2. QED
  BY <1>1 DEF SlabInv, QueuesInv, Slabs

(* A slab sh moves from the front of one queue, or out of the middle, to   *)
(* the front of another.                                                   *)
Moved(p, p1, q, q1, sh) ==
  /\ IsInjective(p1) /\ ToSet(p1) = ToSet(p) \ {sh}
  /\ IsInjective(q1) /\ ToSet(q1) = ToSet(q) \cup {sh}
  /\ p1 \in Seq(1..SlabMax) /\ Len(p1) = Len(p) - 1
  /\ q1 \in Seq(1..SlabMax) /\ Len(q1) = Len(q) + 1

LEMMA MoveHead ==
  ASSUME NEW p \in Seq(1..SlabMax), NEW q \in Seq(1..SlabMax), p # <<>>,
         IsInjective(p), IsInjective(q), ToSet(p) \cap ToSet(q) = {}
  PROVE  Moved(p, Tail(p), q, <<Head(p)>> \o q, Head(p))
<1>1. /\ Tail(p) \in Seq(1..SlabMax) /\ Len(Tail(p)) = Len(p) - 1
      /\ Head(p) \in 1..SlabMax /\ Head(p) \in ToSet(p)
      /\ IsInjective(Tail(p)) /\ ToSet(Tail(p)) = ToSet(p) \ {Head(p)}
  BY PopFront
<1>2. PICK h \in 1..SlabMax : h = Head(p)
  BY <1>1
<1>3. h \notin ToSet(q)
  BY <1>1, <1>2
<1>4. /\ <<h>> \o q \in Seq(1..SlabMax) /\ Len(<<h>> \o q) = Len(q) + 1
      /\ ToSet(<<h>> \o q) = ToSet(q) \cup {h} /\ IsInjective(<<h>> \o q)
  BY <1>3, PushFront, ZenonT(30)
<1>5. Moved(p, Tail(p), q, <<h>> \o q, h)
  BY <1>1, <1>2, <1>4 DEF Moved
<1>6. QED
  BY <1>2, <1>5

LEMMA MoveOut ==
  ASSUME NEW p \in Seq(1..SlabMax), NEW q \in Seq(1..SlabMax), NEW sh \in ToSet(p),
         IsInjective(p), IsInjective(q), ToSet(p) \cap ToSet(q) = {}
  PROVE  Moved(p, Unlink(p, sh), q, <<sh>> \o q, sh)
<1>1. /\ Unlink(p, sh) \in Seq(1..SlabMax) /\ Len(Unlink(p, sh)) = Len(p) - 1
      /\ IsInjective(Unlink(p, sh)) /\ ToSet(Unlink(p, sh)) = ToSet(p) \ {sh}
  BY UnlinkIs
<1>2. sh \in 1..SlabMax
  <2>1. PICK i \in DOMAIN p : p[i] = sh
    BY DEF ToSet
  <2>2. QED
    BY <2>1, SlabAssumption
<1>a. sh \notin ToSet(q)
  OBVIOUS
<1>3. /\ <<sh>> \o q \in Seq(1..SlabMax) /\ Len(<<sh>> \o q) = Len(q) + 1
      /\ ToSet(<<sh>> \o q) = ToSet(q) \cup {sh} /\ IsInjective(<<sh>> \o q)
  BY <1>2, <1>a, PushFront, SlabAssumption
<1>4. QED
  BY <1>1, <1>3 DEF Moved

(* alloc_opq.                                                              *)
LEMMA SlabAllocStep ==
  ASSUME SlabInv, NEW c \in SlabCpus, SlabAlloc(c)
  PROVE  SlabInv'
<1>0. QueuesInv(emptyq, freeq, fullq, objs, cnt) /\ ObjectsInv(objs, sheld) /\ CpusInv
  BY DEF SlabInv
<1>q. /\ IsInjective(emptyq) /\ IsInjective(freeq) /\ IsInjective(fullq)
      /\ ToSet(emptyq) \cap ToSet(freeq) = {} /\ ToSet(emptyq) \cap ToSet(fullq) = {}
      /\ ToSet(freeq) \cap ToSet(fullq) = {}
      /\ ToSet(emptyq) \cup ToSet(freeq) \cup ToSet(fullq) = Slabs
      /\ FreeEnough(emptyq, freeq, fullq, objs)
  BY <1>0 DEF QueuesInv, Slabs
<1>1. CpusInv'
  BY <1>0, SlabAssumption DEF SlabAlloc, CpusInv
<1>2. ASSUME NEW sh \in Slabs, objs[sh] # <<>>, objs' = [objs EXCEPT ![sh] = Tail(objs[sh])],
             sheld' = sheld \cup {<<sh, Head(objs[sh])>>}
      PROVE  /\ ObjectsInv(objs', sheld') /\ DOMAIN objs' = Slabs
             /\ Len(objs'[sh]) = Len(objs[sh]) - 1
             /\ \A x \in Slabs : x # sh => objs'[x] = objs[x]
  BY <1>0, <1>2, ObjectTaken DEF Slabs
<1>3. CASE freeq # <<>>
  <2>1. PICK sh \in Slabs : sh = Head(freeq) /\ sh \in ToSet(freeq)
    BY <1>3, SlabOf, PopFront
  <2>2. Len(objs[sh]) > 0 /\ objs[sh] # <<>> /\ Len(objs[sh]) \in Nat
    BY <1>q, <2>1, SlabOf DEF FreeEnough
  <2>3. objs' = [objs EXCEPT ![sh] = Tail(objs[sh])] /\ sheld' = sheld \cup {<<sh, Head(objs[sh])>>}
    BY <1>3, <2>1 DEF SlabAlloc
  <2>4. /\ ObjectsInv(objs', sheld') /\ DOMAIN objs' = Slabs
        /\ Len(objs'[sh]) = Len(objs[sh]) - 1
        /\ \A x \in Slabs : x # sh => objs'[x] = objs[x]
    BY <1>2, <2>2, <2>3
  <2>5. CASE Len(objs[sh]) = 1
    <3>1. /\ freeq' = Tail(freeq) /\ fullq' = <<Head(freeq)>> \o fullq
          /\ cnt' = Counts(0, -1, 1) /\ emptyq' = emptyq
      BY <1>3, <2>1, <2>5 DEF SlabAlloc, TakeFree, freecnt
    <3>2. Moved(freeq, freeq', fullq, fullq', sh)
      BY <1>3, <1>q, <2>1, <3>1, MoveHead, SlabOf
    <3>3. cnt' = [empty |-> Len(emptyq'), free |-> Len(freeq'), full |-> Len(fullq')]
      <4>1. cnt' = [empty |-> Len(emptyq) + 0, free |-> Len(freeq) + (-1), full |-> Len(fullq) + 1]
        BY <3>1, SlabOf DEF Counts
      <4>2. QED
        BY <3>1, <3>2, <4>1, SlabOf DEF Moved
    <3>4. FreeEnough(emptyq', freeq', fullq', objs')
      <4>1. \A y \in ToSet(emptyq) \cup ToSet(freeq) \cup ToSet(fullq) :
              y # sh => objs'[y] = objs[y]
        BY <1>q, <2>4
      <4>2. sh \notin ToSet(emptyq) /\ ToSet(freeq') = ToSet(freeq) \ {sh}
            /\ ToSet(fullq') = ToSet(fullq) \cup {sh}
        BY <1>q, <2>1, <3>2 DEF Moved
      <4>3. Len(objs'[sh]) = 0
        BY <2>4, <2>5
      <4>4. \A y \in ToSet(emptyq') : Len(objs'[y]) >= max_objs /\ Len(objs'[y]) >= 2
        BY <1>q, <3>1, <4>1, <4>2 DEF FreeEnough
      <4>5. \A y \in ToSet(freeq') : Len(objs'[y]) > 0
        BY <1>q, <4>1, <4>2 DEF FreeEnough
      <4>6. \A y \in ToSet(fullq') : Len(objs'[y]) = 0
        BY <1>q, <4>1, <4>2, <4>3 DEF FreeEnough
      <4>7. QED
        BY <4>4, <4>5, <4>6 DEF FreeEnough
    <3>5. QueuesInv(emptyq', freeq', fullq', objs', cnt')
      BY <1>q, <2>1, <2>4, <3>1, <3>2, <3>3, <3>4, SlabOf, ZenonT(30) DEF QueuesInv, Moved
    <3>6. QED
      BY <1>1, <2>4, <3>5 DEF SlabInv
  <2>6. CASE Len(objs[sh]) # 1
    <3>1. UNCHANGED <<emptyq, freeq, fullq, cnt>>
      BY <1>3, <2>1, <2>6 DEF SlabAlloc, TakeFree, freecnt
    <3>4. FreeEnough(emptyq, freeq, fullq, objs')
      <4>1. \A y \in ToSet(emptyq) : Len(objs'[y]) >= max_objs /\ Len(objs'[y]) >= 2
        BY <1>q, <2>1, <2>2, <2>4, <2>6 DEF FreeEnough
      <4>0. Len(objs[sh]) - 1 > 0
        <5> DEFINE l == Len(objs[sh])
        <5>1. l \in Nat /\ l > 0 /\ l # 1
          BY <2>2, <2>6
        <5> HIDE DEF l
        <5>2. l - 1 > 0
          BY <5>1
        <5>3. QED
          BY <5>2 DEF l
      <4>2. \A y \in ToSet(freeq) : Len(objs'[y]) > 0
        BY <1>q, <2>1, <2>4, <4>0 DEF FreeEnough
      <4>3. \A y \in ToSet(fullq) : Len(objs'[y]) = 0
        BY <1>q, <2>1, <2>2, <2>4, <2>6 DEF FreeEnough
      <4>4. QED
        BY <4>1, <4>2, <4>3 DEF FreeEnough
    <3>5. QueuesInv(emptyq', freeq', fullq', objs', cnt')
      BY <1>q, <2>4, <3>1, <3>4, SlabOf DEF QueuesInv
    <3>6. QED
      BY <1>1, <2>4, <3>5 DEF SlabInv
  <2>7. QED
    BY <2>5, <2>6
<1>4. CASE freeq = <<>>
  <2>0. emptyq # <<>>
    BY <1>4, SlabOf DEF SlabAlloc
  <2>1. PICK sh \in Slabs : sh = Head(emptyq) /\ sh \in ToSet(emptyq)
    BY <2>0, SlabOf, PopFront
  <2>2. Len(objs[sh]) >= 2 /\ objs[sh] # <<>> /\ Len(objs[sh]) \in Nat
    BY <1>q, <2>1, SlabOf DEF FreeEnough
  <2>3. objs' = [objs EXCEPT ![sh] = Tail(objs[sh])] /\ sheld' = sheld \cup {<<sh, Head(objs[sh])>>}
    BY <1>4, <2>1 DEF SlabAlloc
  <2>4. /\ ObjectsInv(objs', sheld') /\ DOMAIN objs' = Slabs
        /\ Len(objs'[sh]) = Len(objs[sh]) - 1
        /\ \A x \in Slabs : x # sh => objs'[x] = objs[x]
    BY <1>2, <2>2, <2>3
  <2>5. /\ emptyq' = Tail(emptyq) /\ freeq' = <<Head(emptyq)>> \o freeq
        /\ cnt' = Counts(-1, 1, 0) /\ fullq' = fullq
    BY <1>4 DEF SlabAlloc, TakeEmpty
  <2>6. Moved(emptyq, emptyq', freeq, freeq', sh)
    BY <1>q, <2>0, <2>1, <2>5, MoveHead, SlabOf
  <2>7. cnt' = [empty |-> Len(emptyq'), free |-> Len(freeq'), full |-> Len(fullq')]
    <3>1. cnt' = [empty |-> Len(emptyq) + (-1), free |-> Len(freeq) + 1, full |-> Len(fullq) + 0]
      BY <2>5, SlabOf DEF Counts
    <3>2. QED
      BY <2>5, <2>6, <3>1, SlabOf DEF Moved
  <2>8. FreeEnough(emptyq', freeq', fullq', objs')
    <3>1. \A y \in ToSet(emptyq') : Len(objs'[y]) >= max_objs /\ Len(objs'[y]) >= 2
      BY <1>q, <2>1, <2>2, <2>4, <2>5, <2>6 DEF FreeEnough, Moved
    <3>2. \A y \in ToSet(freeq') : Len(objs'[y]) > 0
      BY <1>q, <2>1, <2>2, <2>4, <2>5, <2>6, SMTT(30) DEF FreeEnough, Moved
    <3>3. \A y \in ToSet(fullq') : Len(objs'[y]) = 0
      BY <1>q, <2>1, <2>2, <2>4, <2>5, <2>6 DEF FreeEnough, Moved
    <3>4. QED
      BY <3>1, <3>2, <3>3 DEF FreeEnough
  <2>9. QueuesInv(emptyq', freeq', fullq', objs', cnt')
    BY <1>q, <2>1, <2>4, <2>5, <2>6, <2>7, <2>8, SlabOf, ZenonT(30) DEF QueuesInv, Moved
  <2>10. QED
    BY <1>1, <2>4, <2>9 DEF SlabInv
<1>5. QED
  BY <1>3, <1>4

(* free.                                                                   *)
LEMMA SlabFreeStep ==
  ASSUME SlabInv, NEW c \in SlabCpus, NEW o \in sheld, SlabFree(c, o)
  PROVE  SlabInv'
<1>0. QueuesInv(emptyq, freeq, fullq, objs, cnt) /\ ObjectsInv(objs, sheld) /\ CpusInv
  BY DEF SlabInv
<1>q. /\ IsInjective(emptyq) /\ IsInjective(freeq) /\ IsInjective(fullq)
      /\ ToSet(emptyq) \cap ToSet(freeq) = {} /\ ToSet(emptyq) \cap ToSet(fullq) = {}
      /\ ToSet(freeq) \cap ToSet(fullq) = {}
      /\ ToSet(emptyq) \cup ToSet(freeq) \cup ToSet(fullq) = Slabs
      /\ FreeEnough(emptyq, freeq, fullq, objs)
  BY <1>0 DEF QueuesInv, Slabs
<1>1. CpusInv'
  BY <1>0 DEF SlabFree, CpusInv
<1>p. PICK sh \in Slabs, x \in 1..slabobjs : o = <<sh, x>> /\ <<sh, x>> \in sheld
  <2>1. o \in Slabs \X (1..slabobjs)
    BY <1>0 DEF ObjectsInv, Slabs
  <2>2. QED
    BY <2>1
<1>2. /\ objs' = [objs EXCEPT ![sh] = <<x>> \o objs[sh]] /\ sheld' = sheld \ {<<sh, x>>}
  BY <1>p DEF SlabFree
<1>3. /\ ObjectsInv(objs', sheld') /\ DOMAIN objs' = Slabs /\ sh \in Slabs
      /\ Len(objs'[sh]) = Len(objs[sh]) + 1
      /\ \A y \in Slabs : y # sh => objs'[y] = objs[y]
  <2> DEFINE b == [objs EXCEPT ![sh] = <<x>> \o objs[sh]]
  <2>1. /\ ObjectsInv(b, sheld \ {<<sh, x>>})
        /\ sh \in DOMAIN objs /\ DOMAIN b = DOMAIN objs
        /\ Len(b[sh]) = Len(objs[sh]) + 1
        /\ \A y \in DOMAIN objs : y # sh => b[y] = objs[y]
    BY <1>0, <1>p, ObjectGiven, Zenon
  <2>2. objs' = b
    BY <1>2
  <2> HIDE DEF b
  <2>3. QED
    BY <1>2, <2>1, <2>2 DEF Slabs
<1>n. Len(objs[sh]) \in Nat
  BY <1>3, SlabOf
<1>4. CASE Len(objs[sh]) + 1 = 1
  <2>1. sh \in ToSet(fullq)
    BY <1>3, <1>4, <1>q, <1>n DEF FreeEnough
  <2>2. /\ fullq' = Unlink(fullq, sh) /\ freeq' = <<sh>> \o freeq
        /\ cnt' = Counts(0, 1, -1) /\ emptyq' = emptyq
    BY <1>4, <1>p DEF SlabFree, freecnt
  <2>3. Moved(fullq, fullq', freeq, freeq', sh)
    BY <1>q, <2>1, <2>2, MoveOut, SlabOf
  <2>4. cnt' = [empty |-> Len(emptyq'), free |-> Len(freeq'), full |-> Len(fullq')]
    <3>1. cnt' = [empty |-> Len(emptyq) + 0, free |-> Len(freeq) + 1, full |-> Len(fullq) + (-1)]
      BY <2>2, SlabOf DEF Counts
    <3>2. QED
      BY <2>2, <2>3, <3>1, SlabOf DEF Moved
  <2>5. FreeEnough(emptyq', freeq', fullq', objs')
    <3>1. \A y \in ToSet(emptyq') : Len(objs'[y]) >= max_objs /\ Len(objs'[y]) >= 2
      BY <1>3, <1>4, <1>n, <1>q, <2>1, <2>2, <2>3 DEF FreeEnough, Moved
    <3>2. \A y \in ToSet(freeq') : Len(objs'[y]) > 0
      BY <1>3, <1>4, <1>n, <1>q, <2>1, <2>2, <2>3 DEF FreeEnough, Moved
    <3>3. \A y \in ToSet(fullq') : Len(objs'[y]) = 0
      BY <1>3, <1>4, <1>n, <1>q, <2>1, <2>2, <2>3 DEF FreeEnough, Moved
    <3>4. QED
      BY <3>1, <3>2, <3>3 DEF FreeEnough
  <2>6. QueuesInv(emptyq', freeq', fullq', objs', cnt')
    BY <1>3, <1>q, <2>1, <2>2, <2>3, <2>4, <2>5, SlabOf, ZenonT(30) DEF QueuesInv, Moved
  <2>7. QED
    BY <1>1, <1>3, <2>6 DEF SlabInv
<1>5. CASE Len(objs[sh]) + 1 # 1 /\ Len(objs[sh]) + 1 = max_objs
  <2>1. sh \in ToSet(freeq)
    BY <1>3, <1>5, <1>q, <1>n, SlabSizes DEF FreeEnough
  <2>2. /\ freeq' = Unlink(freeq, sh) /\ emptyq' = <<sh>> \o emptyq
        /\ cnt' = Counts(1, -1, 0) /\ fullq' = fullq
    BY <1>5, <1>p DEF SlabFree, freecnt
  <2>3. Moved(freeq, freeq', emptyq, emptyq', sh)
    BY <1>q, <2>1, <2>2, MoveOut, SlabOf
  <2>4. cnt' = [empty |-> Len(emptyq'), free |-> Len(freeq'), full |-> Len(fullq')]
    <3>1. cnt' = [empty |-> Len(emptyq) + 1, free |-> Len(freeq) + (-1), full |-> Len(fullq) + 0]
      BY <2>2, SlabOf DEF Counts
    <3>2. QED
      BY <2>2, <2>3, <3>1, SlabOf DEF Moved
  <2>5. FreeEnough(emptyq', freeq', fullq', objs')
    <3>1. \A y \in ToSet(emptyq') : Len(objs'[y]) >= max_objs /\ Len(objs'[y]) >= 2
      BY <1>3, <1>5, <1>n, <1>q, <2>1, <2>2, <2>3 DEF FreeEnough, Moved
    <3>2. \A y \in ToSet(freeq') : Len(objs'[y]) > 0
      BY <1>3, <1>5, <1>n, <1>q, <2>1, <2>2, <2>3 DEF FreeEnough, Moved
    <3>3. \A y \in ToSet(fullq') : Len(objs'[y]) = 0
      BY <1>3, <1>5, <1>n, <1>q, <2>1, <2>2, <2>3 DEF FreeEnough, Moved
    <3>4. QED
      BY <3>1, <3>2, <3>3 DEF FreeEnough
  <2>6. QueuesInv(emptyq', freeq', fullq', objs', cnt')
    BY <1>3, <1>q, <2>1, <2>2, <2>3, <2>4, <2>5, SlabOf, ZenonT(30) DEF QueuesInv, Moved
  <2>7. QED
    BY <1>1, <1>3, <2>6 DEF SlabInv
<1>6. CASE Len(objs[sh]) + 1 # 1 /\ Len(objs[sh]) + 1 # max_objs
  <2>1. UNCHANGED <<emptyq, freeq, fullq, cnt>>
    BY <1>6, <1>p DEF SlabFree, freecnt
  <2>2. FreeEnough(emptyq, freeq, fullq, objs')
    BY <1>3, <1>6, <1>n, <1>q, SlabSizes DEF FreeEnough
  <2>3. QueuesInv(emptyq', freeq', fullq', objs', cnt')
    BY <1>3, <1>q, <2>1, <2>2, SlabOf DEF QueuesInv
  <2>4. QED
    BY <1>1, <1>3, <2>3 DEF SlabInv
<1>7. QED
  BY <1>4, <1>5, <1>6

(* alloc_opq finds the cache exhausted.                                    *)
LEMMA SlabExhaustedStep ==
  ASSUME SlabInv, NEW c \in SlabCpus, SlabExhausted(c)
  PROVE  SlabInv'
<1>1. UNCHANGED <<emptyq, freeq, fullq, cnt, objs, sheld>>
  BY DEF SlabExhausted
<1>2. CpusInv'
  <2>0. CpusInv /\ SlabTries \in Nat
    BY SlabAssumption DEF SlabInv
  <2>1. CASE tries[c] > SlabTries
    BY <2>0, <2>1 DEF SlabExhausted, CpusInv
  <2>2. CASE ~(tries[c] > SlabTries)
    <3>1. tries[c] + 1 \in 0 .. SlabTries + 1
      BY <2>0, <2>2 DEF CpusInv
    <3>2. QED
      BY <2>0, <2>2, <3>1 DEF SlabExhausted, CpusInv
  <2>3. QED
    BY <2>1, <2>2
<1>3. QED
  BY <1>1, <1>2 DEF SlabInv

(* The objects of a new slab.                                              *)
Fresh == [i \in 1..slabobjs |-> slabobjs + 1 - i]

LEMMA FreshIs ==
  /\ Fresh \in Seq(1..slabobjs) /\ Len(Fresh) = slabobjs /\ IsInjective(Fresh)
  /\ ToSet(Fresh) = 1..slabobjs
<1>0. slabobjs \in Nat
  BY SlabSizes
<1>1. /\ DOMAIN Fresh = 1..slabobjs
      /\ \A i \in 1..slabobjs : Fresh[i] = slabobjs + 1 - i /\ Fresh[i] \in 1..slabobjs
  BY <1>0 DEF Fresh
<1>2. Fresh \in Seq(1..slabobjs) /\ Len(Fresh) = slabobjs
  <2>1. Fresh \in [1..slabobjs -> 1..slabobjs]
    BY <1>0 DEF Fresh
  <2>2. QED
    BY <1>0, <2>1
<1>3. IsInjective(Fresh)
  BY <1>0, <1>1 DEF IsInjective
<1>4. ASSUME NEW j \in 1..slabobjs PROVE j \in ToSet(Fresh)
  <2>1. slabobjs + 1 - j \in 1..slabobjs /\ slabobjs + 1 - (slabobjs + 1 - j) = j
    BY <1>0
  <2>2. QED
    BY <1>1, <2>1 DEF ToSet
<1>5. QED
  BY <1>1, <1>2, <1>3, <1>4 DEF ToSet

(* grow.                                                                   *)
LEMMA SlabGrowStep ==
  ASSUME SlabInv, NEW c \in SlabCpus, SlabGrow(c)
  PROVE  SlabInv'
<1> DEFINE n == Len(objs)
           sh == n + 1
<1>0. QueuesInv(emptyq, freeq, fullq, objs, cnt) /\ ObjectsInv(objs, sheld) /\ CpusInv
  BY DEF SlabInv
<1>q. /\ IsInjective(emptyq) /\ IsInjective(freeq) /\ IsInjective(fullq)
      /\ ToSet(emptyq) \cap ToSet(freeq) = {} /\ ToSet(emptyq) \cap ToSet(fullq) = {}
      /\ ToSet(freeq) \cap ToSet(fullq) = {}
      /\ ToSet(emptyq) \cup ToSet(freeq) \cup ToSet(fullq) = 1..n
      /\ FreeEnough(emptyq, freeq, fullq, objs)
  BY <1>0, SlabOf DEF QueuesInv, Slabs
<1>n. n \in Nat /\ n < SlabMax /\ SlabMax \in Nat /\ objs \in Seq(Seq(1..slabobjs))
  BY <1>0, SlabOf, SlabAssumption DEF SlabGrow, ObjectsInv
<1>1. CpusInv'
  BY <1>0 DEF SlabGrow, CpusInv
<1>2. /\ objs' = Append(objs, Fresh) /\ emptyq' = <<sh>> \o emptyq
      /\ cnt' = Counts(1, 0, 0) /\ UNCHANGED <<freeq, fullq, sheld>>
  BY DEF SlabGrow, Fresh
<1>3. /\ objs' \in Seq(Seq(1..slabobjs)) /\ Len(objs') = sh /\ DOMAIN objs' = 1..sh
      /\ objs'[sh] = Fresh /\ \A x \in 1..n : objs'[x] = objs[x]
  BY <1>2, <1>n, FreshIs
<1> HIDE DEF n
<1>4. sh \in 1..SlabMax /\ sh \notin 1..n /\ \A x \in 1..sh : x = sh \/ x \in 1..n
  BY <1>n
<1>5. /\ emptyq' \in Seq(1..SlabMax) /\ Len(emptyq') = Len(emptyq) + 1
      /\ ToSet(emptyq') = ToSet(emptyq) \cup {sh} /\ IsInjective(emptyq')
  <2>1. sh \notin ToSet(emptyq)
    BY <1>4, <1>q
  <2>2. PICK x \in 1..SlabMax : x = sh
    BY <1>4
  <2>3. emptyq \in Seq(1..SlabMax) /\ x \notin ToSet(emptyq) /\ emptyq' = <<x>> \o emptyq
    BY <1>2, <2>1, <2>2, SlabOf
  <2>4. /\ <<x>> \o emptyq \in Seq(1..SlabMax) /\ Len(<<x>> \o emptyq) = Len(emptyq) + 1
        /\ ToSet(<<x>> \o emptyq) = ToSet(emptyq) \cup {x} /\ IsInjective(<<x>> \o emptyq)
    BY <1>q, <2>3, PushFront, SlabAssumption
  <2>5. QED
    BY <2>2, <2>3, <2>4
<1>6. FreeEnough(emptyq', freeq', fullq', objs')
  <2>1. \A y \in ToSet(emptyq') : Len(objs'[y]) >= max_objs /\ Len(objs'[y]) >= 2
    <3>1. Len(objs'[sh]) >= max_objs /\ Len(objs'[sh]) >= 2
      BY <1>3, FreshIs, SlabSizes
    <3>2. \A y \in ToSet(emptyq) : Len(objs'[y]) >= max_objs /\ Len(objs'[y]) >= 2
      BY <1>3, <1>q DEF FreeEnough
    <3>3. QED
      BY <1>5, <3>1, <3>2
  <2>2. (\A y \in ToSet(freeq') : Len(objs'[y]) > 0) /\ (\A y \in ToSet(fullq') : Len(objs'[y]) = 0)
    BY <1>2, <1>3, <1>q DEF FreeEnough
  <2>3. QED
    BY <2>1, <2>2 DEF FreeEnough
<1>7. cnt' = [empty |-> Len(emptyq'), free |-> Len(freeq'), full |-> Len(fullq')]
  <2>1. cnt' = [empty |-> Len(emptyq) + 1, free |-> Len(freeq) + 0, full |-> Len(fullq) + 0]
    BY <1>2, SlabOf DEF Counts
  <2>2. QED
    BY <1>2, <1>5, <2>1, SlabOf
<1>8. QueuesInv(emptyq', freeq', fullq', objs', cnt')
  <2>1. ToSet(emptyq') \cup ToSet(freeq') \cup ToSet(fullq') = DOMAIN objs'
    <3>1. 1..sh = (1..n) \cup {sh}
      BY <1>n
    <3>2. QED
      BY <1>2, <1>3, <1>5, <1>q, <3>1
  <2>2. /\ ToSet(emptyq') \cap ToSet(freeq') = {} /\ ToSet(emptyq') \cap ToSet(fullq') = {}
        /\ ToSet(freeq') \cap ToSet(fullq') = {}
    BY <1>2, <1>4, <1>5, <1>q
  <2>3. QED
    BY <1>2, <1>5, <1>6, <1>7, <1>q, <2>1, <2>2, SlabOf DEF QueuesInv
<1>9. ObjectsInv(objs', sheld')
  <2>1. sheld' \subseteq (1..n) \X (1..slabobjs)
    BY <1>0, <1>2, SlabOf DEF ObjectsInv, Slabs, n
  <2>2. sheld' \subseteq (DOMAIN objs') \X (1..slabobjs)
    BY <1>3, <1>n, <2>1
  <2>3. ASSUME NEW x \in 1..sh
        PROVE  /\ IsInjective(objs'[x])
               /\ \A j \in 1..slabobjs : j \in ToSet(objs'[x]) <=> <<x, j>> \notin sheld'
    <3>1. CASE x = sh
      <4>1. \A j : <<sh, j>> \notin sheld'
        BY <1>4, <2>1
      <4>2. QED
        BY <1>3, <3>1, <4>1, FreshIs
    <3>2. CASE x \in 1..n
      <4>1. x \in DOMAIN objs
        BY <3>2, SlabOf DEF Slabs, n
      <4>2. QED
        BY <1>0, <1>2, <1>3, <3>2, <4>1 DEF ObjectsInv
    <3>3. QED
      BY <1>4, <3>1, <3>2
  <2>4. Len(objs') <= SlabMax
    BY <1>3, <1>n
  <2>5. QED
    BY <1>3, <2>2, <2>3, <2>4 DEF ObjectsInv
<1>10. QED
  BY <1>1, <1>8, <1>9 DEF SlabInv

LEMMA SlabInitInv == SlabInit => SlabInv
<1> SUFFICES ASSUME SlabInit PROVE SlabInv
  OBVIOUS
<1>1. /\ emptyq = <<>> /\ freeq = <<>> /\ fullq = <<>> /\ objs = <<>> /\ sheld = {}
      /\ cnt = [empty |-> 0, free |-> 0, full |-> 0]
  BY DEF SlabInit
<1>2. ToSet(<<>>) = {} /\ IsInjective(<<>>) /\ Len(<<>>) = 0 /\ DOMAIN <<>> = {}
  BY DEF ToSet, IsInjective
<1>3. QueuesInv(emptyq, freeq, fullq, objs, cnt)
  BY <1>1, <1>2 DEF QueuesInv, FreeEnough
<1>4. ObjectsInv(objs, sheld)
  BY <1>1, SlabAssumption DEF ObjectsInv
<1>5. CpusInv
  BY SlabAssumption DEF SlabInit, CpusInv
<1>6. QED
  BY <1>3, <1>4, <1>5 DEF SlabInv

LEMMA SlabStep == SlabInv /\ [SlabNext]_slabVars => SlabInv'
<1> SUFFICES ASSUME SlabInv, [SlabNext]_slabVars PROVE SlabInv'
  OBVIOUS
<1>1. CASE UNCHANGED slabVars
  BY <1>1 DEF slabVars, SlabInv, CpusInv
<1>2. CASE SlabNext
  BY <1>2, SlabAllocStep, SlabExhaustedStep, SlabGrowStep, SlabFreeStep DEF SlabNext
<1>3. QED
  BY <1>1, <1>2

(* The queues and the objects of a cache stay within what SlabInv says.    *)
LEMMA SlabInvCorrect == SlabSpec => []SlabInv
<1>1. QED
  BY SlabInitInv, SlabStep, PTL DEF SlabSpec

LEMMA SlabInvMeans == SlabInv => SlabTypeOK /\ SlabSound
<1> SUFFICES ASSUME SlabInv PROVE SlabTypeOK /\ SlabSound
  OBVIOUS
<1>0. QueuesInv(emptyq, freeq, fullq, objs, cnt) /\ ObjectsInv(objs, sheld) /\ CpusInv
  BY DEF SlabInv
<1>1. SlabTypeOK
  <2>1. cnt \in [empty : Int, free : Int, full : Int]
    BY SlabOf
  <2>2. sheld \subseteq (1..SlabMax) \X (1..slabobjs)
    <3>1. sheld \subseteq Slabs \X (1..slabobjs)
      BY <1>0 DEF ObjectsInv, Slabs
    <3>2. Slabs \subseteq 1..SlabMax
      BY SlabOf, SlabAssumption
    <3>3. QED
      BY <3>1, <3>2
  <2>3. QED
    BY <1>0, <2>1, <2>2, SlabOf DEF SlabTypeOK, CpusInv, ObjectsInv
<1>2. SlabQueues
  <2> DEFINE p == emptyq \o freeq
             q == p \o fullq
  <2>1. /\ IsInjective(emptyq) /\ IsInjective(freeq) /\ IsInjective(fullq)
        /\ ToSet(emptyq) \cap ToSet(freeq) = {} /\ ToSet(emptyq) \cap ToSet(fullq) = {}
        /\ ToSet(freeq) \cap ToSet(fullq) = {}
        /\ ToSet(emptyq) \cup ToSet(freeq) \cup ToSet(fullq) = Slabs
        /\ FreeEnough(emptyq, freeq, fullq, objs)
    BY <1>0 DEF QueuesInv, Slabs
  <2>2. p \in Seq(1..SlabMax) /\ ToSet(p) = ToSet(emptyq) \cup ToSet(freeq) /\ IsInjective(p)
    BY <2>1, Concat, SlabOf
  <2> HIDE DEF p
  <2>3. ToSet(p) \cap ToSet(fullq) = {}
    BY <2>1, <2>2
  <2>4. ToSet(q) = ToSet(p) \cup ToSet(fullq) /\ IsInjective(q)
    BY <2>1, <2>2, <2>3, Concat, SlabOf
  <2>5. q = emptyq \o freeq \o fullq
    BY DEF p
  <2> HIDE DEF q
  <2>6. IsInjective(q) /\ ToSet(q) = Slabs
    BY <2>1, <2>2, <2>4
  <2>7. /\ \A sh \in ToSet(fullq) : freecnt(sh) = 0
        /\ \A sh \in ToSet(freeq) : freecnt(sh) > 0
        /\ \A sh \in ToSet(emptyq) : freecnt(sh) >= max_objs
    BY <2>1 DEF FreeEnough, freecnt
  <2>8. QED
    BY <2>5, <2>6, <2>7, SlabOf DEF SlabQueues
<1>3. ObjectsOnce
  <2>1. ASSUME NEW sh \in Slabs
        PROVE  /\ IsInjective(objs[sh])
               /\ ToSet(objs[sh]) \cap {o[2] : o \in {h \in sheld : h[1] = sh}} = {}
               /\ ToSet(objs[sh]) \cup {o[2] : o \in {h \in sheld : h[1] = sh}} = 1..slabobjs
    <3> DEFINE H == {o[2] : o \in {h \in sheld : h[1] = sh}}
    <3>1. \A j : j \in H <=> j \in 1..slabobjs /\ <<sh, j>> \in sheld
      <4>1. sheld \subseteq Slabs \X (1..slabobjs)
        BY <1>0 DEF ObjectsInv, Slabs
      <4>2. ASSUME NEW j \in H PROVE j \in 1..slabobjs /\ <<sh, j>> \in sheld
        <5>1. PICK o \in sheld : o[1] = sh /\ o[2] = j
          BY <4>2
        <5>2. o = <<o[1], o[2]>> /\ o[2] \in 1..slabobjs
          BY <4>1
        <5>3. QED
          BY <5>1, <5>2
      <4>3. ASSUME NEW j, <<sh, j>> \in sheld PROVE j \in H
        <5>1. <<sh, j>>[1] = sh /\ <<sh, j>>[2] = j
          OBVIOUS
        <5>2. QED
          BY <4>3, <5>1
      <4>4. QED
        BY <4>2, <4>3
    <3>2. /\ IsInjective(objs[sh])
          /\ \A j \in 1..slabobjs : j \in ToSet(objs[sh]) <=> <<sh, j>> \notin sheld
      BY <1>0 DEF ObjectsInv, Slabs
    <3>3. ToSet(objs[sh]) \subseteq 1..slabobjs
      <4>1. objs[sh] \in Seq(1..slabobjs)
        BY SlabOf
      <4>2. \A i \in DOMAIN objs[sh] : objs[sh][i] \in 1..slabobjs
        BY <4>1, SlabSizes
      <4>3. QED
        BY <4>2 DEF ToSet
    <3> HIDE DEF H
    <3>4. ToSet(objs[sh]) \cap H = {} /\ ToSet(objs[sh]) \cup H = 1..slabobjs
      BY <3>1, <3>2, <3>3
    <3>5. QED
      BY <3>2, <3>4 DEF H
  <2>2. QED
    BY <2>1 DEF ObjectsOnce
<1>4. QED
  BY <1>1, <1>2, <1>3 DEF SlabSound

(* However many CPUs take objects of a slab cache, give them back and grow *)
(* it with the lock released in between, no object is ever handed out      *)
(* twice or lost, every slab is in the one queue alloc_opq and free expect *)
(* it in, and the counters are right; for any slab, header and object      *)
(* size of which two objects fit.                                          *)
THEOREM SlabSoundCorrect == SlabSpec => []SlabSound
<1>1. SlabInv => SlabSound
  BY SlabInvMeans
<1>2. QED
  BY <1>1, SlabInvCorrect, PTL

-----------------------------------------------------------------------------
(* Timer: the alarms, for any number of threads.                           *)
(* The sum of the offsets of a set of threads, as MapThenSumSet takes it:  *)
(* one thread after another, in an order that CHOOSE gives.                *)
NextOne(s) == CHOOSE x \in s : TRUE
IsSum(g, v, S) ==
  g = [s \in SUBSET S |-> IF s = {} THEN 0 ELSE v[NextOne(s)].offset + g[s \ {NextOne(s)}]]
SumOf(v, S) == MapThenSumSet(LAMBDA th : v[th].offset, S)

LEMMA SumIs ==
  ASSUME NEW v, NEW S
  PROVE  SumOf(v, S) = (CHOOSE g : IsSum(g, v, S))[S]
BY DEF SumOf, MapThenSumSet, MapThenFoldSet, IsSum, NextOne

LEMMA NextOneIn ==
  ASSUME NEW S, IsFiniteSet(S), NEW s \in SUBSET S, s # {}
  PROVE  /\ NextOne(s) \in s /\ IsFiniteSet(s) /\ Cardinality(s) \in Nat \ {0}
         /\ \A x \in s : /\ s \ {x} \in SUBSET S /\ IsFiniteSet(s \ {x})
                         /\ Cardinality(s \ {x}) = Cardinality(s) - 1
<1>1. NextOne(s) \in s
  BY DEF NextOne
<1>2. IsFiniteSet(s)
  BY FS_Subset
<1>3. Cardinality(s) \in Nat /\ Cardinality(s) # 0
  BY <1>2, FS_CardinalityType, FS_EmptySet
<1>4. \A x \in s : IsFiniteSet(s \ {x}) /\ Cardinality(s \ {x}) = Cardinality(s) - 1
  BY <1>2, FS_RemoveElement
<1>5. QED
  BY <1>1, <1>2, <1>3, <1>4

(* There is such a function, by induction on the size of the sets.         *)
LEMMA SumExists ==
  ASSUME NEW S, IsFiniteSet(S), NEW v, \A x \in S : v[x].offset \in Int
  PROVE  \E g \in [SUBSET S -> Int] : IsSum(g, v, S)
<1> DEFINE N == Cardinality(S)
           Upto(m) == {s \in SUBSET S : Cardinality(s) <= m}
           Good(g, m) == \A s \in Upto(m) : g[s] = IF s = {} THEN 0 ELSE v[NextOne(s)].offset + g[s \ {NextOne(s)}]
           M == {m \in 0..N : \E g \in [Upto(m) -> Int] : Good(g, m)}
<1>0. N \in Nat /\ \A s \in SUBSET S : IsFiniteSet(s) /\ Cardinality(s) \in Nat /\ Cardinality(s) <= N
  BY FS_Subset, FS_CardinalityType
<1>1. 0 \in M
  <2>1. \A s \in Upto(0) : s = {}
    <3> TAKE s \in Upto(0)
    <3>1. IsFiniteSet(s) /\ Cardinality(s) = 0
      BY <1>0
    <3>2. QED
      BY <3>1, FS_EmptySet
  <2> DEFINE g == [s \in Upto(0) |-> 0]
  <2>2. g \in [Upto(0) -> Int] /\ Good(g, 0)
    BY <2>1
  <2> HIDE DEF g, Good, Upto
  <2>3. QED
    BY <1>0, <2>2
<1>2. \A m \in 0..N : m \in M /\ m < N => m + 1 \in M
  <2> SUFFICES ASSUME NEW m \in 0..N, m \in M, m < N PROVE m + 1 \in M
    OBVIOUS
  <2>0. m \in Nat /\ m + 1 \in 0..N
    BY <1>0
  <2>1. PICK f \in [Upto(m) -> Int] : Good(f, m)
    OBVIOUS
  <2> DEFINE g == [s \in Upto(m + 1) |-> IF s \in Upto(m) THEN f[s]
                                         ELSE v[NextOne(s)].offset + f[s \ {NextOne(s)}]]
  <2>2. \A s \in Upto(m + 1) : s # {} =>
          /\ NextOne(s) \in S /\ v[NextOne(s)].offset \in Int /\ s \ {NextOne(s)} \in Upto(m)
          /\ s \ {NextOne(s)} \in Upto(m + 1)
    <3> SUFFICES ASSUME NEW s \in Upto(m + 1), s # {}
                 PROVE  NextOne(s) \in S /\ s \ {NextOne(s)} \in Upto(m) /\ s \ {NextOne(s)} \in Upto(m + 1)
      OBVIOUS
    <3>1. s \in SUBSET S /\ Cardinality(s) <= m + 1
      OBVIOUS
    <3>2. /\ NextOne(s) \in s /\ s \ {NextOne(s)} \in SUBSET S /\ Cardinality(s) \in Nat
          /\ Cardinality(s \ {NextOne(s)}) = Cardinality(s) - 1
      BY <3>1, NextOneIn
    <3>3. QED
      BY <2>0, <3>1, <3>2
  <2>3. {} \in Upto(m) /\ Upto(m) \subseteq Upto(m + 1)
    <3>1. Cardinality({}) = 0
      BY FS_EmptySet
    <3>2. QED
      BY <1>0, <2>0, <3>1
  <2>4. g \in [Upto(m + 1) -> Int]
    <3> SUFFICES ASSUME NEW s \in Upto(m + 1), s \notin Upto(m)
                 PROVE  v[NextOne(s)].offset + f[s \ {NextOne(s)}] \in Int
      OBVIOUS
    <3>1. s # {}
      BY <2>3
    <3> HIDE DEF Upto
    <3>2. QED
      BY <3>1, <2>2
  <2>5. Good(g, m + 1)
    <3> SUFFICES ASSUME NEW s \in Upto(m + 1)
                 PROVE  g[s] = IF s = {} THEN 0 ELSE v[NextOne(s)].offset + g[s \ {NextOne(s)}]
      OBVIOUS
    <3> HIDE DEF Upto
    <3>1. CASE s = {}
      BY <2>1, <2>3, <3>1
    <3>2. CASE s # {}
      <4>1. s \ {NextOne(s)} \in Upto(m) /\ s \ {NextOne(s)} \in Upto(m + 1)
        BY <2>2, <3>2
      <4>2. g[s \ {NextOne(s)}] = f[s \ {NextOne(s)}]
        BY <4>1
      <4>3. CASE s \in Upto(m)
        BY <2>1, <3>2, <4>2, <4>3
      <4>4. CASE s \notin Upto(m)
        BY <3>2, <4>2, <4>4
      <4>5. QED
        BY <4>3, <4>4
    <3>3. QED
      BY <3>1, <3>2
  <2> HIDE DEF g, Good, Upto
  <2>6. QED
    BY <2>0, <2>4, <2>5
<1>3. N \in M
  <2> HIDE DEF M, N
  <2>1. \A m \in 0..N : m \in M
    BY <1>0, <1>1, <1>2, UpTo
  <2>2. QED
    BY <1>0, <2>1
<1>4. PICK g \in [Upto(N) -> Int] : Good(g, N)
  BY <1>3
<1>5. Upto(N) = SUBSET S
  BY <1>0
<1>6. QED
  BY <1>4, <1>5 DEF IsSum

(* Two of them agree on the sets on which they are about the same values.  *)
LEMMA SumsAgree ==
  ASSUME NEW S, IsFiniteSet(S), NEW T, S \subseteq T, NEW v, NEW w,
         \A x \in S : w[x].offset = v[x].offset,
         NEW g, IsSum(g, v, S), NEW h, IsSum(h, w, T)
  PROVE  \A s \in SUBSET S : g[s] = h[s]
<1> DEFINE B == {m \in Nat : \E s \in SUBSET S : Cardinality(s) = m /\ g[s] # h[s]}
<1> SUFFICES ASSUME B # {} PROVE FALSE
  <2>1. \A s \in SUBSET S : Cardinality(s) \in Nat
    BY FS_Subset, FS_CardinalityType
  <2>2. QED
    BY <2>1
<1>1. PICK m \in B : \A y \in B : m <= y
  <2>1. B \in SUBSET Nat
    OBVIOUS
  <2> HIDE DEF B
  <2>2. QED
    BY <2>1, LeastNumber
<1>2. PICK s \in SUBSET S : Cardinality(s) = m /\ g[s] # h[s]
  BY <1>1
<1>3. /\ g[s] = IF s = {} THEN 0 ELSE v[NextOne(s)].offset + g[s \ {NextOne(s)}]
      /\ h[s] = IF s = {} THEN 0 ELSE w[NextOne(s)].offset + h[s \ {NextOne(s)}]
  BY <1>2 DEF IsSum
<1>4. s # {}
  BY <1>2, <1>3
<1>5. /\ NextOne(s) \in s /\ s \ {NextOne(s)} \in SUBSET S /\ Cardinality(s) \in Nat \ {0}
      /\ Cardinality(s \ {NextOne(s)}) = Cardinality(s) - 1
  BY <1>4, NextOneIn
<1>6. g[s \ {NextOne(s)}] = h[s \ {NextOne(s)}]
  <2>1. Cardinality(s \ {NextOne(s)}) \in Nat /\ ~(m <= Cardinality(s \ {NextOne(s)}))
    BY <1>2, <1>5
  <2>2. Cardinality(s \ {NextOne(s)}) \notin B
    BY <1>1, <2>1
  <2>3. QED
    BY <1>5, <2>1, <2>2
<1>7. QED
  BY <1>2, <1>3, <1>4, <1>5, <1>6

(* The order does not matter: any thread can be taken out.                 *)
TakesOut(g, v, S) == \A s \in SUBSET S : \A x \in s : g[s] = v[x].offset + g[s \ {x}]
LEMMA SumTakeOut ==
  ASSUME NEW S, IsFiniteSet(S), NEW v, \A x \in S : v[x].offset \in Int,
         NEW g \in [SUBSET S -> Int], IsSum(g, v, S)
  PROVE  TakesOut(g, v, S)
<1> DEFINE B == {m \in Nat : \E s \in SUBSET S : Cardinality(s) = m
                               /\ \E x \in s : g[s] # v[x].offset + g[s \ {x}]}
<1> SUFFICES ASSUME B # {} PROVE FALSE
  <2>1. \A s \in SUBSET S : Cardinality(s) \in Nat
    BY FS_Subset, FS_CardinalityType
  <2>2. QED
    BY <2>1 DEF TakesOut
<1>1. PICK m \in B : \A y \in B : m <= y
  <2>1. B \in SUBSET Nat
    OBVIOUS
  <2> HIDE DEF B
  <2>2. QED
    BY <2>1, LeastNumber
<1>2a. PICK s \in SUBSET S : Cardinality(s) = m /\ \E x \in s : g[s] # v[x].offset + g[s \ {x}]
  BY <1>1
<1>2b. PICK x \in s : g[s] # v[x].offset + g[s \ {x}]
  BY <1>2a
<1>2. Cardinality(s) = m /\ x \in s /\ g[s] # v[x].offset + g[s \ {x}]
  BY <1>2a, <1>2b
<1> DEFINE c == NextOne(s)
<1>3. s # {}
  BY <1>2
<1>4. /\ c \in s /\ Cardinality(s) \in Nat \ {0}
      /\ \A y \in s : s \ {y} \in SUBSET S /\ Cardinality(s \ {y}) = Cardinality(s) - 1
  BY <1>3, NextOneIn
<1>5. g[s] = v[c].offset + g[s \ {c}]
  BY <1>2, <1>3 DEF IsSum
<1> HIDE DEF c
<1>6. c # x
  BY <1>2, <1>5
<1>7. \A y \in s : \A z \in s \ {y} : g[s \ {y}] = v[z].offset + g[(s \ {y}) \ {z}]
  <2> SUFFICES ASSUME NEW y \in s, NEW z \in s \ {y}, g[s \ {y}] # v[z].offset + g[(s \ {y}) \ {z}]
               PROVE  FALSE
    OBVIOUS
  <2>1. Cardinality(s \ {y}) \in Nat /\ ~(m <= Cardinality(s \ {y})) /\ s \ {y} \in SUBSET S
    BY <1>2, <1>4
  <2>2. Cardinality(s \ {y}) \in B
    BY <2>1
  <2>3. QED
    BY <1>1, <2>1, <2>2
<1>8. g[s \ {c}] = v[x].offset + g[(s \ {c}) \ {x}] /\ g[s \ {x}] = v[c].offset + g[(s \ {x}) \ {c}]
  BY <1>2, <1>4, <1>6, <1>7
<1>9. (s \ {c}) \ {x} = (s \ {x}) \ {c} /\ (s \ {c}) \ {x} \in SUBSET S
  BY <1>2
<1>10. v[x].offset \in Int /\ v[c].offset \in Int /\ g[(s \ {c}) \ {x}] \in Int
  BY <1>2, <1>4, <1>9
<1>11. /\ g[s] = v[c].offset + (v[x].offset + g[(s \ {c}) \ {x}])
       /\ g[s] # v[x].offset + (v[c].offset + g[(s \ {c}) \ {x}])
  BY <1>2, <1>5, <1>8, <1>9, Zenon
<1>12. \A i, j, k \in Int : i + (j + k) = j + (i + k)
  OBVIOUS
<1>13. QED
  BY <1>10, <1>11, <1>12, Zenon

-----------------------------------------------------------------------------
(* The inductive invariant.  The queue of timers by itself: the list holds *)
(* the valid timers, each once, and the hardware timer is for its head.    *)
QType(q) ==
  q \in [list : Seq(Timers), valid : SUBSET Timers, time : [Timers -> Nat], cmp : Nat, enb : BOOLEAN]
ListOk(q) == QType(q) /\ IsInjective(q.list) /\ ToSet(q.list) = q.valid
HwOk(q) == q.enb => q.list # <<>> /\ q.cmp = q.time[Head(q.list)]
QueueOk(q) == ListOk(q) /\ HwOk(q)

(* ... and the threads: the one that runs was given the CPU in the past.   *)
ThreadsOk ==
  /\ tnow \in 0..Horizon
  /\ tcur \in TThreads
  /\ vtt \in [TThreads -> [almdiff : Nat, offset : Nat, base : Nat]]
  /\ vtt[tcur].base <= tnow
BitsOk == {isr, lmask} \subseteq BOOLEAN /\ tmapped \subseteq Timers /\ fired \subseteq tmapped
Conserved(n, c, v) == n = (n - v[c].base + v[c].offset) + SumOf(v, TThreads \ {c})
TimerInv == BitsOk /\ ThreadsOk /\ QueueOk(tq) /\ VirtualOnlyRunning /\ Conserved(tnow, tcur, vtt)

-----------------------------------------------------------------------------
LEMMA SetHwOk ==
  ASSUME NEW q, ListOk(q)
  PROVE  QueueOk(SetHw(q)) /\ SetHw(q).valid = q.valid
<1>1. CASE q.list = <<>>
  BY <1>1 DEF SetHw, QueueOk, ListOk, HwOk, QType
<1>2. CASE q.list # <<>>
  <2>1. Head(q.list) \in Timers
    BY <1>2 DEF ListOk, QType
  <2>2. q.time[Head(q.list)] \in Nat
    BY <2>1 DEF ListOk, QType
  <2>3. QED
    BY <1>2, <2>2 DEF SetHw, QueueOk, ListOk, HwOk, QType
<1>3. QED
  BY <1>1, <1>2

LEMMA RemoveOk ==
  ASSUME NEW q, QueueOk(q), NEW t \in Timers
  PROVE  QueueOk(timer_remove(q, t)) /\ timer_remove(q, t).valid = q.valid \ {t}
<1>1. CASE t \notin q.valid
  BY <1>1 DEF timer_remove
<1>2. CASE t \in q.valid
  <2> DEFINE k == CHOOSE i \in DOMAIN q.list : q.list[i] = t
             l == Unlisted(q.list, t)
             r == Invalid(q, t)
  <2>1. k \in DOMAIN q.list /\ q.list[k] = t
    BY <1>2 DEF QueueOk, ListOk, ToSet
  <2>2. q.list \in Seq(Timers) /\ IsInjective(q.list) /\ ToSet(q.list) = q.valid /\ QType(q)
    BY DEF QueueOk, ListOk, QType
  <2>3. l = RemoveAt(q.list, k)
    BY DEF Unlisted
  <2> HIDE DEF k, l
  <2>4. l \in Seq(Timers) /\ IsInjective(l) /\ ToSet(l) = q.valid \ {t}
    BY <2>1, <2>2, <2>3, RemoveIndex
  <2>5. /\ r.list = l /\ r.valid = q.valid \ {t} /\ r.time = [q.time EXCEPT ![t] = 0]
        /\ r \in [list : {l}, valid : {q.valid \ {t}}, time : {[q.time EXCEPT ![t] = 0]},
                  cmp : Nat, enb : BOOLEAN]
    BY <2>2 DEF Invalid, QType, l
  <2> HIDE DEF r
  <2>6. [q.time EXCEPT ![t] = 0] \in [Timers -> Nat] /\ q.valid \ {t} \in SUBSET Timers
    BY <2>2 DEF QType
  <2>7. ListOk(r)
    BY <2>4, <2>5, <2>6 DEF ListOk, QType
  <2>8. timer_remove(q, t) = SetHw(r)
    BY <1>2 DEF timer_remove, r
  <2>9. QED
    BY <2>5, <2>7, <2>8, SetHwOk
<1>3. QED
  BY <1>1, <1>2

LEMMA RegisterOk ==
  ASSUME NEW q, QType(q), IsInjective(q.list), NEW t \in q.valid, ToSet(q.list) = q.valid \ {t}
  PROVE  QueueOk(timer_register(q, t)) /\ timer_register(q, t).valid = q.valid
<1> DEFINE later == {i \in DOMAIN q.list : q.time[q.list[i]] >= q.time[t]}
           pos == IF later = {} THEN Len(q.list) ELSE Min(later)
           l == InsertAt(q.list, pos + 1, t)
           r == [q EXCEPT !.list = l]
<1>1. q.list \in Seq(Timers) /\ Len(q.list) \in Nat /\ DOMAIN q.list = 1 .. Len(q.list) /\ t \in Timers
  BY DEF QType
<1>2. pos + 1 \in 1 .. Len(q.list) + 1
  <2>1. CASE later = {}
    BY <1>1, <2>1
  <2>2. CASE later # {}
    <3>1. later \in SUBSET Nat
      BY <1>1
    <3>2. \E x \in later : \A y \in later : x <= y
      BY <2>2, <3>1, LeastNumber
    <3>3. Min(later) \in later
      BY <3>2 DEF Min
    <3>4. QED
      BY <1>1, <2>2, <3>3
  <2>3. QED
    BY <2>1, <2>2
<1>3. timer_register(q, t) = SetHw(r)
  BY DEF timer_register
<1> HIDE DEF pos, later
<1>4. l \in Seq(Timers) /\ IsInjective(l) /\ ToSet(l) = q.valid
  <2>1. t \notin ToSet(q.list)
    OBVIOUS
  <2>2. l \in Seq(Timers) /\ IsInjective(l) /\ ToSet(l) = ToSet(q.list) \cup {t}
    BY <1>1, <1>2, <2>1, InsertIs
  <2> HIDE DEF l
  <2>3. QED
    BY <2>2
<1> HIDE DEF l
<1>5. ListOk(r) /\ r.valid = q.valid
  BY <1>4 DEF ListOk, QType
<1> HIDE DEF r
<1>6. QED
  BY <1>3, <1>5, SetHwOk

LEMMA ArmOk ==
  ASSUME NEW q, QueueOk(q), NEW t \in Timers, NEW d \in Nat, tnow \in Nat
  PROVE  QueueOk(Arm(q, t, d)) /\ Arm(q, t, d).valid = q.valid \cup {t}
<1> DEFINE p == timer_remove(q, t)
           r == [p EXCEPT !.time[t] = tnow + d, !.valid = @ \cup {t}]
<1>1. QueueOk(p) /\ p.valid = q.valid \ {t}
  BY RemoveOk
<1>2. Arm(q, t, d) = timer_register(r, t)
  BY DEF Arm
<1> HIDE DEF p
<1>3. QType(p) /\ IsInjective(p.list) /\ ToSet(p.list) = p.valid
  BY <1>1 DEF QueueOk, ListOk
<1>4. QType(r) /\ r.list = p.list /\ r.valid = q.valid \cup {t}
  <2>1. q.valid \cup {t} = p.valid \cup {t}
    BY <1>1
  <2>2. tnow + d \in Nat
    OBVIOUS
  <2>3. /\ r.list = p.list /\ r.valid = p.valid \cup {t}
        /\ r \in [list : {p.list}, valid : {p.valid \cup {t}}, time : {[p.time EXCEPT ![t] = tnow + d]},
                  cmp : {p.cmp}, enb : {p.enb}]
    BY <1>3 DEF QType
  <2>4. [p.time EXCEPT ![t] = tnow + d] \in [Timers -> Nat] /\ p.valid \cup {t} \in SUBSET Timers
    BY <1>3, <2>2 DEF QType
  <2>5. QType(r)
    BY <1>3, <2>3, <2>4 DEF QType
  <2>6. QED
    BY <2>1, <2>3, <2>5
<1> HIDE DEF r
<1>5. QED
  BY <1>1, <1>2, <1>3, <1>4, RegisterOk

LEMMA DoTimerOk ==
  ASSUME NEW q, QueueOk(q), tnow \in Nat
  PROVE  /\ QueueOk(do_timer(q).q)
         /\ do_timer(q).q.valid \subseteq q.valid /\ do_timer(q).raise \subseteq Timers
<1> DEFINE late == {i \in DOMAIN q.list : q.time[q.list[i]] > tnow}
           n == IF late = {} THEN Len(q.list) ELSE Min(late) - 1
           gone == {q.list[i] : i \in 1..n}
           l == SubSeq(q.list, n + 1, Len(q.list))
           tm == [t \in Timers |-> IF t \in gone THEN 0 ELSE q.time[t]]
           r == [q EXCEPT !.list = l, !.valid = @ \ gone, !.time = tm]
<1>0. QType(q) /\ IsInjective(q.list) /\ ToSet(q.list) = q.valid
  BY DEF QueueOk, ListOk
<1>1. q.list \in Seq(Timers) /\ Len(q.list) \in Nat /\ DOMAIN q.list = 1 .. Len(q.list)
  BY <1>0 DEF QType
<1>2. n \in 0 .. Len(q.list)
  <2>1. CASE late = {}
    BY <1>1, <2>1
  <2>2. CASE late # {}
    <3>1. late \in SUBSET Nat
      BY <1>1
    <3>2. \E x \in late : \A y \in late : x <= y
      BY <2>2, <3>1, LeastNumber
    <3>3. Min(late) \in late
      BY <3>2 DEF Min
    <3>4. QED
      BY <1>1, <2>2, <3>3
  <2>3. QED
    BY <2>1, <2>2
<1>3. do_timer(q) = [q |-> IF n = 0 THEN q ELSE SetHw(r), raise |-> gone]
  BY DEF do_timer
<1> HIDE DEF n, late
<1>4. gone \subseteq Timers
  BY <1>1, <1>2
<1>5. l \in Seq(Timers) /\ IsInjective(l) /\ ToSet(l) = q.valid \ gone
  <2>1. n + 1 \in 1 .. Len(q.list) + 1 /\ Len(q.list) \in 0 .. Len(q.list) /\ n + 1 <= Len(q.list) + 1
    BY <1>1, <1>2
  <2>2. l \in Seq(Timers) /\ IsInjective(l) /\ ToSet(l) = {q.list[i] : i \in n + 1 .. Len(q.list)}
    BY SMTT(30), <1>0, <1>1, <2>1, PartOf
  <2>3. \A i \in 1 .. n, j \in n + 1 .. Len(q.list) : q.list[i] # q.list[j]
    BY <1>0, <1>1, <1>2 DEF IsInjective
  <2>4. q.valid = {q.list[i] : i \in 1 .. n} \cup {q.list[i] : i \in n + 1 .. Len(q.list)}
    <3>1. 1 .. Len(q.list) = (1 .. n) \cup (n + 1 .. Len(q.list))
      BY <1>1, <1>2
    <3>2. QED
      BY <1>0, <1>1, <3>1 DEF ToSet
  <2> HIDE DEF l
  <2>5. QED
    BY <2>2, <2>3, <2>4
<1>6. tm \in [Timers -> Nat]
  BY <1>0 DEF QType
<1> HIDE DEF l, tm, gone
<1>7. ListOk(r) /\ r.valid = q.valid \ gone
  <2>1. r.valid = q.valid \ gone /\ r.list = l /\ QType(r)
    BY <1>0, <1>5, <1>6 DEF QType
  <2> HIDE DEF r
  <2>2. QED
    BY <1>5, <2>1 DEF ListOk
<1> HIDE DEF r
<1>8. QueueOk(SetHw(r)) /\ SetHw(r).valid = q.valid \ gone
  BY <1>7, SetHwOk
<1>9. QED
  BY <1>3, <1>4, <1>8

-----------------------------------------------------------------------------
(* The virtual times.                                                      *)
LEMMA SumChosen ==
  ASSUME NEW S, IsFiniteSet(S), NEW v, \A x \in S : v[x].offset \in Int
  PROVE  \E g \in [SUBSET S -> Int] : IsSum(g, v, S) /\ SumOf(v, S) = g[S]
<1> DEFINE g == CHOOSE g : IsSum(g, v, S)
<1>1. PICK f \in [SUBSET S -> Int] : IsSum(f, v, S)
  BY SumExists
<1>2. IsSum(g, v, S)
  BY <1>1
<1> HIDE DEF g
<1>3. \A s \in SUBSET S : g[s] = f[s]
  BY <1>1, <1>2, SumsAgree
<1>4. g \in [SUBSET S -> Int]
  <2>1. DOMAIN g = SUBSET S /\ g = [s \in DOMAIN g |-> g[s]]
    BY <1>2 DEF IsSum
  <2>2. QED
    BY <1>1, <1>3, <2>1
<1>5. SumOf(v, S) = g[S]
  BY SumIs DEF g
<1>6. QED
  BY <1>2, <1>4, <1>5

LEMMA SumSame ==
  ASSUME NEW S, IsFiniteSet(S), NEW v, NEW w, \A x \in S : v[x].offset \in Int /\ w[x].offset = v[x].offset
  PROVE  SumOf(w, S) = SumOf(v, S)
<1>1. PICK g \in [SUBSET S -> Int] : IsSum(g, v, S) /\ SumOf(v, S) = g[S]
  BY SumChosen
<1>2. PICK h \in [SUBSET S -> Int] : IsSum(h, w, S) /\ SumOf(w, S) = h[S]
  <2>1. \A x \in S : w[x].offset \in Int
    OBVIOUS
  <2>2. QED
    BY <2>1, SumChosen
<1>3. \A s \in SUBSET S : g[s] = h[s]
  BY <1>1, <1>2, SumsAgree
<1>4. QED
  BY <1>1, <1>2, <1>3

LEMMA SumSplit ==
  ASSUME NEW S, IsFiniteSet(S), NEW v, \A x \in S : v[x].offset \in Int, NEW y \in S
  PROVE  SumOf(v, S) = v[y].offset + SumOf(v, S \ {y}) /\ SumOf(v, S \ {y}) \in Int
<1> DEFINE R == S \ {y}
<1>1. PICK g \in [SUBSET S -> Int] : IsSum(g, v, S) /\ SumOf(v, S) = g[S]
  BY SumChosen
<1>2. IsFiniteSet(R) /\ R \subseteq S /\ R \in SUBSET S /\ R \in SUBSET R /\ S \in SUBSET S
  BY FS_Subset
<1>3. PICK h \in [SUBSET R -> Int] : IsSum(h, v, R) /\ SumOf(v, R) = h[R]
  <2>1. \A x \in R : v[x].offset \in Int
    OBVIOUS
  <2> HIDE DEF R
  <2>2. QED
    BY <1>2, <2>1, SumChosen
<1>4. \A s \in SUBSET R : h[s] = g[s]
  <2>1. \A x \in R : v[x].offset = v[x].offset
    OBVIOUS
  <2> HIDE DEF R
  <2>2. QED
    BY <1>1, <1>2, <1>3, <2>1, SumsAgree
<1>5. g[S] = v[y].offset + g[R]
  <2>1. TakesOut(g, v, S)
    BY <1>1, SumTakeOut
  <2>2. QED
    BY <1>2, <2>1 DEF TakesOut
<1> HIDE DEF R
<1>6. h[R] = g[R] /\ h[R] \in Int
  BY <1>2, <1>3, <1>4
<1>7. QED
  BY <1>1, <1>3, <1>5, <1>6 DEF R

(* Time is conserved when one thread gives the CPU to another.             *)
Charged(v, w, c, th) ==
  w[th].offset + SumOf(w, TThreads \ {th}) - w[c].offset = SumOf(v, TThreads \ {c})
LEMMA SumSwitch ==
  ASSUME NEW v \in [TThreads -> [almdiff : Nat, offset : Nat, base : Nat]],
         NEW w \in [TThreads -> [almdiff : Nat, offset : Nat, base : Nat]],
         NEW c \in TThreads, NEW th \in TThreads, th # c,
         \A x \in TThreads \ {c} : w[x].offset = v[x].offset
  PROVE  Charged(v, w, c, th)
<1> DEFINE T == TThreads \ {c}
           H == TThreads \ {th}
           R == T \ {th}
<1>1. IsFiniteSet(T) /\ IsFiniteSet(H) /\ IsFiniteSet(R) /\ R = H \ {c} /\ th \in T /\ c \in H
  BY TimerAssumption, FS_Subset
<1>2. (\A x \in T : v[x].offset \in Int) /\ (\A x \in H : w[x].offset \in Int)
  OBVIOUS
<1>3. \A x \in R : v[x].offset \in Int /\ w[x].offset = v[x].offset
  OBVIOUS
<1>4. w[c].offset \in Int /\ v[th].offset \in Int /\ w[th].offset = v[th].offset
  OBVIOUS
<1> HIDE DEF T, H, R
<1>5. SumOf(v, T) = v[th].offset + SumOf(v, R) /\ SumOf(v, R) \in Int
  BY <1>1, <1>2, SumSplit DEF R
<1>6. SumOf(w, H) = w[c].offset + SumOf(w, R)
  BY <1>1, <1>2, SumSplit
<1>7. SumOf(w, R) = SumOf(v, R)
  BY <1>1, <1>3, SumSame
<1>8. QED
  BY <1>4, <1>5, <1>6, <1>7 DEF T, H, Charged

LEMMA SumType ==
  ASSUME NEW v \in [TThreads -> [almdiff : Nat, offset : Nat, base : Nat]], NEW S \in SUBSET TThreads
  PROVE  SumOf(v, S) \in Int
<1>1. IsFiniteSet(S) /\ \A x \in S : v[x].offset \in Int
  BY TimerAssumption, FS_Subset
<1>2. PICK g \in [SUBSET S -> Int] : IsSum(g, v, S) /\ SumOf(v, S) = g[S]
  BY <1>1, SumChosen
<1>3. QED
  BY <1>2

(* With no time spent the sum is 0.                                        *)
LEMMA SumZero ==
  ASSUME NEW v, NEW S \in SUBSET TThreads, \A x \in TThreads : v[x].offset = 0
  PROVE  SumOf(v, S) = 0
<1>1. IsFiniteSet(S) /\ \A x \in S : v[x].offset \in Int
  BY TimerAssumption, FS_Subset
<1>2. PICK g \in [SUBSET S -> Int] : IsSum(g, v, S) /\ SumOf(v, S) = g[S]
  BY <1>1, SumChosen
<1> DEFINE z == [s \in SUBSET S |-> 0]
<1>3. IsSum(z, v, S)
  <2> SUFFICES ASSUME NEW s \in SUBSET S, s # {}
               PROVE  0 = v[NextOne(s)].offset + z[s \ {NextOne(s)}]
    BY DEF IsSum
  <2>1. NextOne(s) \in S /\ s \ {NextOne(s)} \in SUBSET S
    BY DEF NextOne
  <2>2. QED
    BY <2>1
<1> HIDE DEF z
<1>4. \A s \in SUBSET S : g[s] = z[s]
  BY <1>1, <1>2, <1>3, SumsAgree
<1>5. QED
  BY <1>2, <1>4 DEF z

-----------------------------------------------------------------------------
(* The operations.                                                         *)
LEMMA TimerFacts ==
  ASSUME TimerInv
  PROVE  /\ BitsOk /\ ThreadsOk /\ QueueOk(tq) /\ VirtualOnlyRunning /\ Conserved(tnow, tcur, vtt)
         /\ tnow \in Nat /\ tnow <= Horizon /\ Horizon \in Nat /\ tcur \in TThreads
         /\ vtt \in [TThreads -> [almdiff : Nat, offset : Nat, base : Nat]]
         /\ \A th \in TThreads : Rtt(th) \in Timers /\ Vtt(th) \in Timers
         /\ \A th, x \in TThreads : (Vtt(th) = Vtt(x) => th = x) /\ Rtt(th) # Vtt(x)
BY TimerAssumption DEF TimerInv, ThreadsOk, Rtt, Vtt, Timers

LEMMA InitTimerInv == TimerInit => TimerInv
<1> SUFFICES ASSUME TimerInit PROVE TimerInv
  OBVIOUS
<1>1. BitsOk
  BY DEF TimerInit, BitsOk
<1>2. ThreadsOk
  BY TimerAssumption DEF TimerInit, ThreadsOk
<1>3. QueueOk(tq)
  BY DEF TimerInit, QueueOk, ListOk, HwOk, QType, IsInjective, ToSet
<1>4. VirtualOnlyRunning
  BY DEF TimerInit, VirtualOnlyRunning
<1>5. Conserved(tnow, tcur, vtt)
  <2>1. \A x \in TThreads : vtt[x].offset = 0 /\ vtt[x].base = 0
    BY DEF TimerInit
  <2>2. SumOf(vtt, TThreads \ {tcur}) = 0
    BY <2>1, SumZero
  <2>3. QED
    BY <2>1, <2>2, TimerAssumption DEF TimerInit, Conserved
<1>6. QED
  BY <1>1, <1>2, <1>3, <1>4, <1>5 DEF TimerInv

LEMMA SysdevOutStep ==
  ASSUME TimerInv, NEW t \in Timers, NEW d \in Diffs, SysdevOut(t, d)
  PROVE  TimerInv'
<1> USE TimerFacts
<1>1. t \in {Rtt(tcur), Vtt(tcur)} /\ tq' = Arm(tq, t, d) /\ d \in Nat
      /\ UNCHANGED <<tnow, isr, lmask, tmapped, fired, tcur, vtt>>
  BY TimerAssumption DEF SysdevOut
<1>2. QueueOk(tq)' /\ tq'.valid = tq.valid \cup {t}
  <2>1. QueueOk(Arm(tq, t, d)) /\ Arm(tq, t, d).valid = tq.valid \cup {t}
    BY <1>1, ArmOk
  <2>2. QueueOk(tq')
    BY <1>1, <2>1
  <2>3. QED
    BY <1>1, <2>1, <2>2 DEF QueueOk, ListOk, QType, HwOk
<1>3. VirtualOnlyRunning'
  BY <1>1, <1>2 DEF VirtualOnlyRunning
<1>4. BitsOk' /\ ThreadsOk' /\ Conserved(tnow, tcur, vtt)'
  BY <1>1 DEF BitsOk, ThreadsOk, Conserved
<1>5. QED
  BY <1>2, <1>3, <1>4 DEF TimerInv

LEMMA SignalSteps ==
  ASSUME TimerInv, NEW t \in Timers, SysdevIrqmap(t) \/ AlarmSignal(t)
  PROVE  TimerInv'
<1> USE TimerFacts
<1>1. UNCHANGED <<tnow, tq, isr, lmask, tcur, vtt>>
      /\ tmapped' \subseteq Timers /\ fired' \subseteq tmapped'
  BY DEF SysdevIrqmap, AlarmSignal, BitsOk
<1>2. BitsOk' /\ ThreadsOk' /\ Conserved(tnow, tcur, vtt)'
  BY <1>1 DEF BitsOk, ThreadsOk, Conserved
<1>3. VirtualOnlyRunning' /\ QueueOk(tq)'
  BY <1>1 DEF VirtualOnlyRunning, QueueOk, ListOk, QType, HwOk
<1>4. QED
  BY <1>2, <1>3 DEF TimerInv

LEMMA ThSwitchStep ==
  ASSUME TimerInv, NEW th \in TThreads, ThSwitch(th)
  PROVE  TimerInv'
<1> USE TimerFacts
<1> DEFINE q == OffCpu(tq, tcur)
           left == tq.time[Vtt(tcur)] - tnow
           off == thvtt(tcur)
           dif == IF Vtt(tcur) \notin tq.valid THEN vtt[tcur].almdiff
                  ELSE IF left > 0 THEN left ELSE 1
<1>1. /\ th # tcur /\ tcur' = th /\ UNCHANGED <<tnow, isr, lmask, tmapped, fired>>
      /\ tq' = IF vtt[th].almdiff = 0 THEN q ELSE Arm(q, Vtt(th), vtt[th].almdiff)
      /\ vtt' = [vtt EXCEPT ![tcur].offset = off, ![tcur].almdiff = dif, ![tcur].base = 0,
                            ![th].base = tnow]
  BY DEF ThSwitch
<1>2. off = tnow - vtt[tcur].base + vtt[tcur].offset /\ off \in Nat
  BY DEF thvtt, ThreadsOk
<1>3. dif \in Nat
  <2>1. tq.time[Vtt(tcur)] \in Nat
    BY DEF QueueOk, ListOk, QType
  <2>2. left \in Int
    BY <2>1
  <2>3. vtt[tcur].almdiff \in Nat
    OBVIOUS
  <2> HIDE DEF left
  <2>4. QED
    BY <2>2, <2>3
<1> HIDE DEF off, dif
<1>4. /\ vtt' \in [TThreads -> [almdiff : Nat, offset : Nat, base : Nat]]
      /\ vtt'[tcur].offset = off /\ vtt'[th].base = tnow
      /\ \A x \in TThreads \ {tcur} : vtt'[x].offset = vtt[x].offset
  BY <1>1, <1>2, <1>3
<1>5. QueueOk(q) /\ q.valid = tq.valid \ {Vtt(tcur)}
  BY RemoveOk DEF OffCpu
<1> HIDE DEF q
<1>6. QueueOk(tq') /\ tq'.valid \subseteq q.valid \cup {Vtt(th)}
  <2>1. CASE vtt[th].almdiff = 0
    BY <1>1, <1>5, <2>1
  <2>2. CASE vtt[th].almdiff # 0
    <3>1. vtt[th].almdiff \in Nat
      OBVIOUS
    <3>2. QueueOk(Arm(q, Vtt(th), vtt[th].almdiff))
          /\ Arm(q, Vtt(th), vtt[th].almdiff).valid = q.valid \cup {Vtt(th)}
      BY <1>5, <3>1, ArmOk
    <3>3. QED
      BY <1>1, <2>2, <3>2
  <2>3. QED
    BY <2>1, <2>2
<1>7. VirtualOnlyRunning'
  <2> SUFFICES ASSUME NEW x \in TThreads, Vtt(x) \in tq'.valid PROVE x = th
    BY <1>1 DEF VirtualOnlyRunning, Vtt
  <2>1. Vtt(x) \in q.valid => x = tcur /\ Vtt(x) # Vtt(tcur)
    BY <1>5 DEF VirtualOnlyRunning
  <2>2. QED
    BY <1>6, <2>1
<1>8. BitsOk' /\ ThreadsOk'
  BY <1>1, <1>4 DEF BitsOk, ThreadsOk
<1>9. Conserved(tnow, tcur, vtt)'
  <2> DEFINE a == SumOf(vtt, TThreads \ {tcur})
             b == SumOf(vtt', TThreads \ {th})
  <2>1. tnow = off + a
    BY DEF Conserved, thvtt, off
  <2>2. vtt'[th].offset + b - vtt'[tcur].offset = a
    <3>1. Charged(vtt, vtt', tcur, th)
      BY <1>1, <1>4, SumSwitch
    <3>2. QED
      BY <3>1 DEF Charged
  <2>3. a \in Int /\ b \in Int
    BY <1>4, SumType
  <2>4. Conserved(tnow, tcur, vtt)' <=> tnow' = (tnow' - vtt'[tcur'].base + vtt'[tcur'].offset) + b
    BY <1>1 DEF Conserved
  <2>5. vtt'[th].offset \in Nat
    BY <1>4
  <2> HIDE DEF a, b
  <2>6. tnow = (tnow - tnow + vtt'[th].offset) + b
    BY <1>2, <1>4, <2>1, <2>2, <2>3, <2>5
  <2>7. QED
    BY <1>1, <1>4, <2>4, <2>6
<1>10. QueueOk(tq)'
  BY <1>6 DEF QueueOk, ListOk, QType, HwOk, Timers
<1>11. QED
  BY <1>7, <1>8, <1>9, <1>10 DEF TimerInv

LEMMA HpetTickStep ==
  ASSUME TimerInv, HpetTick
  PROVE  TimerInv'
<1> USE TimerFacts
<1>1. /\ tnow < Horizon /\ tnow' = tnow + 1 /\ isr' \in BOOLEAN
      /\ UNCHANGED <<tq, lmask, tmapped, fired, tcur, vtt>>
  BY DEF HpetTick
<1>2. BitsOk' /\ ThreadsOk'
  BY <1>1 DEF BitsOk, ThreadsOk
<1>3. Conserved(tnow, tcur, vtt)'
  <2> DEFINE a == SumOf(vtt, TThreads \ {tcur})
  <2>1. tnow = (tnow - vtt[tcur].base + vtt[tcur].offset) + a
    BY DEF Conserved
  <2>2. Conserved(tnow, tcur, vtt)' <=> tnow + 1 = (tnow + 1 - vtt[tcur].base + vtt[tcur].offset) + a
    BY <1>1 DEF Conserved
  <2>3. a \in Int /\ vtt[tcur].base \in Nat /\ vtt[tcur].offset \in Nat
    BY SumType
  <2> HIDE DEF a
  <2>4. QED
    BY <2>1, <2>2, <2>3
<1>4. VirtualOnlyRunning' /\ QueueOk(tq)'
  BY <1>1 DEF VirtualOnlyRunning, QueueOk, ListOk, QType, HwOk
<1>5. QED
  BY <1>2, <1>3, <1>4 DEF TimerInv

LEMMA HpetInterruptStep ==
  ASSUME TimerInv, HpetInterrupt
  PROVE  TimerInv'
<1> USE TimerFacts
<1> DEFINE q == [tq EXCEPT !.enb = FALSE]
           d == do_timer(q)
<1>1. /\ isr' = FALSE /\ lmask' = TRUE /\ tq' = d.q /\ fired' = fired \cup (d.raise \cap tmapped)
      /\ UNCHANGED <<tnow, tmapped, tcur, vtt>>
  BY DEF HpetInterrupt
<1>2. QueueOk(q) /\ q.valid = tq.valid
  BY DEF QueueOk, ListOk, QType, HwOk
<1> HIDE DEF q
<1>3. QueueOk(d.q) /\ d.q.valid \subseteq tq.valid
  BY <1>2, DoTimerOk
<1> HIDE DEF d
<1>4. BitsOk' /\ ThreadsOk' /\ Conserved(tnow, tcur, vtt)'
  BY <1>1 DEF BitsOk, ThreadsOk, Conserved
<1>5. VirtualOnlyRunning' /\ QueueOk(tq)'
  BY <1>1, <1>3 DEF VirtualOnlyRunning, QueueOk, ListOk, QType, HwOk
<1>6. QED
  BY <1>4, <1>5 DEF TimerInv

LEMMA TimerQuiet ==
  ASSUME TimerInv, UNCHANGED timerVars
  PROVE  TimerInv'
<1> USE TimerFacts
<1>1. BitsOk' /\ ThreadsOk' /\ Conserved(tnow, tcur, vtt)'
  BY DEF timerVars, BitsOk, ThreadsOk, Conserved
<1>2. VirtualOnlyRunning' /\ QueueOk(tq)'
  BY DEF timerVars, VirtualOnlyRunning, QueueOk, ListOk, QType, HwOk
<1>3. QED
  BY <1>1, <1>2 DEF TimerInv

LEMMA TimerInvCorrect == TimerSpec => []TimerInv
<1>1. TimerInv /\ [TimerNext]_timerVars => TimerInv'
  BY SysdevOutStep, SignalSteps, ThSwitchStep, HpetTickStep, HpetInterruptStep, TimerQuiet DEF TimerNext
<1>2. QED
  BY <1>1, InitTimerInv, PTL DEF TimerSpec

LEMMA TimersSoundOf ==
  ASSUME TimerInv
  PROVE  TimersSound
<1> USE TimerFacts
<1>1. TimersListed
  <2> SUFFICES ASSUME NEW t \in Timers
               PROVE  Cardinality({i \in DOMAIN tq.list : tq.list[i] = t}) = IF t \in tq.valid THEN 1 ELSE 0
    BY DEF TimersListed
  <2> DEFINE I == {i \in DOMAIN tq.list : tq.list[i] = t}
  <2>1. CASE t \in tq.valid
    <3>1. PICK k \in DOMAIN tq.list : tq.list[k] = t
      BY <2>1 DEF QueueOk, ListOk, ToSet
    <3>2. I = {k}
      BY <3>1 DEF QueueOk, ListOk, IsInjective
    <3>3. QED
      BY <2>1, <3>2, FS_Singleton
  <2>2. CASE t \notin tq.valid
    <3>1. I = {}
      BY <2>2 DEF QueueOk, ListOk, ToSet
    <3>2. QED
      BY <2>2, <3>1, FS_EmptySet
  <2>3. QED
    BY <2>1, <2>2
<1>2. AlarmFollowsHead
  BY DEF QueueOk, HwOk, AlarmFollowsHead
<1>3. TimeConserved
  BY DEF Conserved, TimeConserved, SumOf, thvtt
<1>4. QED
  BY <1>1, <1>2, <1>3 DEF TimersSound

(* The alarms of threads, for any number of threads and any delays: the    *)
(* list of timer_register, timer_remove and do_timer holds every valid     *)
(* timer once and no other, the HPET is programmed for its head, only the  *)
(* thread that runs has a virtual alarm in it, and schedule charges every  *)
(* tick of the clock to one thread.                                        *)
THEOREM TimersSoundCorrect == TimerSpec => []TimersSound
BY TimerInvCorrect, TimersSoundOf, PTL

-----------------------------------------------------------------------------
(* Tlb: the shootdown, for any number of CPUs and of flushes.              *)
LEMMA TargetAsked ==
  ASSUME TlbTypeOK, NEW c \in TlbCpus, flush[c].todo # {}
  PROVE  Target(c) \in flush[c].todo /\ Target(c) \in TlbCpus
<1>1. flush[c].todo \in SUBSET Nat /\ flush[c].todo \subseteq TlbCpus
  BY TlbAssumption DEF TlbTypeOK
<1>2. QED
  BY <1>1, LeastNatural DEF Target

-----------------------------------------------------------------------------
(* CPUs that have counted a request and not sent its NMI yet.              *)
Senders == {c \in TlbCpus : flush[c].at = "nmi"}

(* The counter covers every NMI that is still to be counted down, although *)
(* NMIs that meet are one.                                                 *)
CountCovers == Cardinality(nmi) + Cardinality(innmi) + Cardinality(Senders) <= tlbcnt

(* The loop of __flush_tlbs: a CPU does not ask itself, it asks one that   *)
(* is left to ask, and none is left when it waits.                         *)
LoopOk ==
  \A c \in TlbCpus :
    /\ c \notin flush[c].todo
    /\ flush[c].at \in {"count", "nmi"} => flush[c].todo # {}
    /\ flush[c].at \in {"none", "wait"} => flush[c].todo = {}

(* A translation that CPU d may still hold is one that the flush of CPU c  *)
(* is after: it is c's own turn to come, or d is still to be asked, or the *)
(* request is posted at d; and once c has gone past d, d has an NMI.       *)
StaleTracked ==
  \A c \in TlbCpus, kind \in Kinds, d \in TlbCpus :
    <<c, kind, d>> \in stale =>
      /\ flush[c].at # "none" /\ flush[c].kind = kind
      /\ d = c => flush[c].at # "wait"
      /\ d # c /\ d \notin flush[c].todo => kind \in tlbop[d] /\ d \in nmi
      /\ flush[c].at \in {"count", "nmi"} /\ d = Target(c) => kind \in tlbop[d]

TlbInv == TlbTypeOK /\ CountCovers /\ LoopOk /\ StaleTracked

-----------------------------------------------------------------------------
(* The sets that the counter is compared with are finite.                  *)
LEMMA Counted ==
  ASSUME NEW S \in SUBSET TlbCpus, NEW c
  PROVE  /\ IsFiniteSet(S) /\ Cardinality(S) \in Nat
         /\ c \notin S => Cardinality(S \cup {c}) = Cardinality(S) + 1
         /\ c \in S => Cardinality(S \ {c}) = Cardinality(S) - 1
         /\ Cardinality(S) = 0 => S = {}
<1>1. IsFiniteSet(S)
  BY TlbAssumption, FS_Subset
<1>2. QED
  BY <1>1, FS_CardinalityType, FS_AddElement, FS_RemoveElement, FS_EmptySet

LEMMA CountsType ==
  ASSUME TlbTypeOK
  PROVE  /\ Senders \in SUBSET TlbCpus /\ nmi \in SUBSET TlbCpus /\ innmi \in SUBSET TlbCpus
         /\ Cardinality(Senders) \in Nat /\ Cardinality(nmi) \in Nat
         /\ Cardinality(innmi) \in Nat /\ tlbcnt \in Nat
<1>1. Senders \in SUBSET TlbCpus /\ nmi \in SUBSET TlbCpus /\ innmi \in SUBSET TlbCpus
  BY DEF Senders, TlbTypeOK
<1>2. QED
  BY <1>1, Counted DEF TlbTypeOK

LEMMA InitInv == TlbInit => TlbInv
<1> SUFFICES ASSUME TlbInit PROVE TlbInv
  OBVIOUS
<1>1. TlbTypeOK
  BY TlbAssumption DEF TlbInit, TlbTypeOK, NoFlush, Kinds
<1>2. Senders = {}
  BY DEF TlbInit, Senders, NoFlush
<1>3. CountCovers
  BY <1>2, FS_EmptySet DEF TlbInit, CountCovers
<1>4. LoopOk /\ StaleTracked
  BY DEF TlbInit, LoopOk, StaleTracked, NoFlush
<1>5. QED
  BY <1>1, <1>3, <1>4 DEF TlbInv

-----------------------------------------------------------------------------
LEMMA CommitInv ==
  ASSUME TlbInv, NEW c \in TlbCpus, NEW kind \in Kinds, NEW cpus \in SUBSET TlbCpus,
         PmapCommit(c, kind, cpus)
  PROVE  TlbInv'
<1> USE DEF TlbInv
<1>1. TlbTypeOK'
  <2>1. flush' \in [TlbCpus -> [kind : Kinds, todo : SUBSET TlbCpus,
                              at : {"none", "ask", "count", "nmi", "wait"}]]
    BY DEF PmapCommit, TlbTypeOK
  <2>2. stale' \subseteq TlbCpus \X Kinds \X TlbCpus
    BY DEF PmapCommit, TlbTypeOK
  <2>3. flushes' \in 0..MaxFlush
    BY TlbAssumption DEF PmapCommit, TlbTypeOK
  <2>4. QED
    BY <2>1, <2>2, <2>3 DEF PmapCommit, TlbTypeOK
<1>2. CountCovers'
  <2>1. Senders' = Senders
    BY DEF PmapCommit, Runs, Senders, TlbTypeOK
  <2>2. QED
    BY <2>1 DEF PmapCommit, CountCovers
<1>3. LoopOk'
  BY DEF PmapCommit, LoopOk, TlbTypeOK
<1>4. StaleTracked'
  BY DEF PmapCommit, Runs, StaleTracked, TlbTypeOK, Target
<1>5. QED
  BY <1>1, <1>2, <1>3, <1>4

LEMMA AskInv ==
  ASSUME TlbInv, NEW c \in TlbCpus, FlushAsk(c)
  PROVE  TlbInv'
<1> USE DEF TlbInv
<1>0. Target(c) \in flush[c].todo /\ Target(c) \in TlbCpus
  BY TargetAsked DEF FlushAsk
<1>1. TlbTypeOK'
  BY <1>0 DEF FlushAsk, TlbTypeOK
<1>2. CountCovers'
  <2>1. Senders' = Senders
    BY DEF FlushAsk, Runs, Senders, TlbTypeOK
  <2>2. QED
    BY <2>1 DEF FlushAsk, CountCovers
<1>3. LoopOk'
  BY DEF FlushAsk, LoopOk, TlbTypeOK
<1>4. StaleTracked'
  <2>1. Target(c)' = Target(c)
    BY DEF FlushAsk, Target, TlbTypeOK
  <2>2. QED
    BY <1>0, <2>1 DEF FlushAsk, Runs, StaleTracked, TlbTypeOK, Target
<1>5. QED
  BY <1>1, <1>2, <1>3, <1>4

LEMMA CountInv ==
  ASSUME TlbInv, NEW c \in TlbCpus, FlushCount(c)
  PROVE  TlbInv'
<1> USE DEF TlbInv
<1>1. TlbTypeOK'
  BY DEF FlushCount, TlbTypeOK
<1>2. CountCovers'
  <2>1. Senders' = Senders \cup {c} /\ c \notin Senders
    BY DEF FlushCount, Runs, Senders, TlbTypeOK
  <2>3. Cardinality(Senders') = Cardinality(Senders) + 1
    BY <2>1, CountsType, Counted
  <2>4. QED
    BY <2>3, CountsType DEF FlushCount, CountCovers
<1>3. LoopOk'
  BY DEF FlushCount, Runs, LoopOk, TlbTypeOK
<1>4. StaleTracked'
  BY DEF FlushCount, Runs, StaleTracked, TlbTypeOK, Target
<1>5. QED
  BY <1>1, <1>2, <1>3, <1>4

LEMMA SendInv ==
  ASSUME TlbInv, NEW c \in TlbCpus, FlushSend(c)
  PROVE  TlbInv'
<1> USE DEF TlbInv
<1>0. Target(c) \in flush[c].todo /\ Target(c) \in TlbCpus
  BY TargetAsked DEF FlushSend, Runs, LoopOk
<1>1. TlbTypeOK'
  BY <1>0 DEF FlushSend, TlbTypeOK
<1>2. CountCovers'
  <2>1. Senders' = Senders \ {c} /\ c \in Senders
    BY DEF FlushSend, Runs, Senders, TlbTypeOK
  <2>3. Cardinality(Senders') = Cardinality(Senders) - 1
    BY <2>1, CountsType, Counted
  <2>4. Cardinality(nmi') <= Cardinality(nmi) + 1 /\ Cardinality(nmi') \in Nat
    <3>1. CASE Target(c) \in nmi
      <4>1. nmi' = nmi
        BY <3>1 DEF FlushSend
      <4>2. QED
        BY <4>1, CountsType
    <3>2. CASE Target(c) \notin nmi
      <4>1. Cardinality(nmi') = Cardinality(nmi) + 1
        BY <3>2, CountsType, Counted DEF FlushSend
      <4>2. QED
        BY <4>1, CountsType
    <3>3. QED
      BY <3>1, <3>2
  <2>5. QED
    BY <2>3, <2>4, CountsType DEF FlushSend, CountCovers
<1>3. LoopOk'
  BY DEF FlushSend, Runs, LoopOk, TlbTypeOK
<1>4. StaleTracked'
  BY <1>0 DEF FlushSend, Runs, StaleTracked, TlbTypeOK, Target
<1>5. QED
  BY <1>1, <1>2, <1>3, <1>4

LEMMA SelfInv ==
  ASSUME TlbInv, NEW c \in TlbCpus, FlushSelf(c)
  PROVE  TlbInv'
<1> USE DEF TlbInv
<1>1. TlbTypeOK'
  BY DEF FlushSelf, TlbTypeOK
<1>2. CountCovers'
  <2>1. Senders' = Senders
    BY DEF FlushSelf, Runs, Senders, TlbTypeOK
  <2>2. QED
    BY <2>1 DEF FlushSelf, CountCovers
<1>3. LoopOk'
  BY DEF FlushSelf, Runs, LoopOk, TlbTypeOK
<1>4. StaleTracked'
  <2>1. ASSUME NEW kind \in Kinds, <<c, kind, c>> \in stale
        PROVE  <<c, kind, c>> \notin stale'
    BY <2>1 DEF FlushSelf, Flushed, StaleTracked, Kinds
  <2>2. stale' \subseteq stale
    BY DEF FlushSelf
  <2>3. /\ \A b \in TlbCpus \ {c} : flush'[b] = flush[b]
        /\ flush'[c].kind = flush[c].kind /\ flush'[c].todo = flush[c].todo
        /\ flush'[c].at = "wait" /\ UNCHANGED <<tlbop, nmi>>
    BY DEF FlushSelf, TlbTypeOK
  <2>4. ASSUME NEW b \in TlbCpus \ {c}, NEW kind \in Kinds, NEW d \in TlbCpus,
               <<b, kind, d>> \in stale'
        PROVE  /\ flush'[b].at # "none" /\ flush'[b].kind = kind
               /\ d = b => flush'[b].at # "wait"
               /\ d # b /\ d \notin flush'[b].todo => kind \in tlbop'[d] /\ d \in nmi'
               /\ flush'[b].at \in {"count", "nmi"} /\ d = Target(b)' => kind \in tlbop'[d]
    BY <2>2, <2>3, <2>4 DEF StaleTracked, Target
  <2>5. ASSUME NEW kind \in Kinds, NEW d \in TlbCpus, <<c, kind, d>> \in stale'
        PROVE  /\ d # c /\ flush'[c].at = "wait" /\ flush'[c].kind = kind
               /\ d \notin flush'[c].todo => kind \in tlbop'[d] /\ d \in nmi'
    BY <2>1, <2>2, <2>3, <2>5 DEF StaleTracked
  <2>6. QED
    BY <2>4, <2>5 DEF StaleTracked
<1>5. QED
  BY <1>1, <1>2, <1>3, <1>4

(* The counter is zero only when no NMI is pending, so nothing is left of  *)
(* what this CPU has asked for.                                            *)
LEMMA DoneInv ==
  ASSUME TlbInv, NEW c \in TlbCpus, FlushDone(c)
  PROVE  TlbInv'
<1> USE DEF TlbInv
<1>1. TlbTypeOK'
  BY DEF FlushDone, TlbTypeOK, NoFlush, Kinds
<1>2. CountCovers'
  <2>1. Senders' = Senders
    BY DEF FlushDone, Runs, Senders, TlbTypeOK, NoFlush
  <2>2. QED
    BY <2>1 DEF FlushDone, CountCovers
<1>3. LoopOk'
  BY DEF FlushDone, LoopOk, TlbTypeOK, NoFlush
<1>4. nmi = {}
  <2>1. Cardinality(nmi) = 0
    BY CountsType DEF FlushDone, CountCovers
  <2>2. QED
    BY <2>1, CountsType, Counted
<1>5. \A kind \in Kinds, d \in TlbCpus : <<c, kind, d>> \notin stale
  BY <1>4 DEF FlushDone, Runs, StaleTracked, LoopOk
<1>6. StaleTracked'
  BY <1>5 DEF FlushDone, StaleTracked, TlbTypeOK, Target
<1>7. QED
  BY <1>1, <1>2, <1>3, <1>6

LEMMA NmiEnterInv ==
  ASSUME TlbInv, NEW c \in TlbCpus, NmiEnter(c)
  PROVE  TlbInv'
<1> USE DEF TlbInv
<1>1. TlbTypeOK'
  BY DEF NmiEnter, TlbTypeOK
<1>2. CountCovers'
  <2>1. Senders' = Senders
    BY DEF NmiEnter, Senders
  <2>3. Cardinality(nmi') = Cardinality(nmi) - 1 /\ Cardinality(innmi') = Cardinality(innmi) + 1
    BY CountsType, Counted DEF NmiEnter
  <2>4. QED
    BY <2>1, <2>3, CountsType DEF NmiEnter, CountCovers
<1>3. LoopOk'
  BY DEF NmiEnter, LoopOk
<1>4. StaleTracked'
  <2>1. ASSUME NEW b \in TlbCpus, NEW kind \in Kinds, <<b, kind, c>> \in stale, kind \in tlbop[c]
        PROVE  <<b, kind, c>> \notin stale'
    BY <2>1 DEF NmiEnter, Flushed, Kinds
  <2>2. stale' \subseteq stale
    BY DEF NmiEnter
  <2>3. QED
    BY <2>1, <2>2 DEF NmiEnter, StaleTracked, TlbTypeOK, Target
<1>5. QED
  BY <1>1, <1>2, <1>3, <1>4

LEMMA NmiLeaveInv ==
  ASSUME TlbInv, NEW c \in TlbCpus, NmiLeave(c)
  PROVE  TlbInv'
<1> USE DEF TlbInv
<1>2. Cardinality(innmi') = Cardinality(innmi) - 1 /\ Cardinality(innmi') \in Nat
  <2>1. innmi' \in SUBSET TlbCpus /\ c \in innmi /\ innmi' = innmi \ {c}
    BY CountsType DEF NmiLeave
  <2>2. QED
    BY <2>1, CountsType, Counted
<1>3. Senders' = Senders
  BY DEF NmiLeave, Senders
<1>4. CountCovers' /\ tlbcnt' \in Nat
  BY <1>2, <1>3, CountsType DEF NmiLeave, CountCovers
<1>5. TlbTypeOK'
  BY <1>4 DEF NmiLeave, TlbTypeOK
<1>6. LoopOk' /\ StaleTracked'
  BY DEF NmiLeave, LoopOk, StaleTracked, Target
<1>7. QED
  BY <1>4, <1>5, <1>6

-----------------------------------------------------------------------------
(* The shared counter, the loops of the CPUs that flush and the requests   *)
(* they have posted stay consistent (__flush_tlbs, __flush_tlbs_on_nmi).   *)
THEOREM TlbInvCorrect == TlbSpec => []TlbInv
<1>1. TlbInv /\ [TlbNext]_tlbVars => TlbInv'
  <2> SUFFICES ASSUME TlbInv, [TlbNext]_tlbVars PROVE TlbInv'
    OBVIOUS
  <2>1. CASE TlbNext
    BY <2>1, CommitInv, AskInv, CountInv, SendInv, SelfInv, DoneInv, NmiEnterInv,
       NmiLeaveInv DEF TlbNext
  <2>2. CASE UNCHANGED tlbVars
    BY <2>2 DEF tlbVars, TlbInv, TlbTypeOK, CountCovers, Senders, LoopOk, StaleTracked, Target
  <2>3. QED
    BY <2>1, <2>2
<1>2. QED
  BY <1>1, InitInv, PTL DEF TlbSpec

(* pmap_commit returns only when no CPU holds a translation that it has    *)
(* changed, for any number of CPUs that flush at the same time.            *)
THEOREM FlushReachesCorrect == TlbSpec => []FlushReaches
<1>1. TlbInv => FlushReaches
  BY DEF TlbInv, TlbTypeOK, StaleTracked, FlushReaches
<1>2. QED
  BY <1>1, TlbInvCorrect, PTL

-----------------------------------------------------------------------------
(* Irq: interrupts, for any number of drivers, lines and CPUs.             *)

(* No CPU is about to change line l.                                       *)
Quiet(l) == \A c \in IrqCpus : op[c].l # l \/ Free(c)

(* A driver is registered on the line of its device.                       *)
OwnLine == \A l \in Lines : \A d \in sigs[l] : LineOf(d) = l

(* An idle CPU has nothing to do; an edge-triggered line is not masked     *)
(* while an edge of it waits or is being signalled.                        *)
EdgesOpen ==
  /\ latched \cap masked = {}
  /\ \A c \in IrqCpus : /\ op[c].do = "none" => op[c] = None
                        /\ op[c].do = "signal" /\ ~gsi_is_level(op[c].l)
                             => op[c].l \notin masked

(* While a line is masked and nobody is about to unmask it, all of its     *)
(* drivers owe an acknowledgement, so that the death of one leaves the     *)
(* debt of the others.                                                     *)
AllOwe == \A l \in Lines : l \in masked /\ Quiet(l) => sigs[l] \subseteq eoi

IrqInv == IrqTypeOK /\ OwnLine /\ EdgesOpen /\ AllOwe

-----------------------------------------------------------------------------
LEMMA LinesType ==
  /\ \A d \in Drivers : LineOf(d) \in Lines
  /\ ShLine \in Lines /\ ShLine \notin EdgeDrv
  /\ \A l \in Lines : l \in EdgeDrv <=> ~gsi_is_level(l)
BY IrqAssumption DEF Lines, LineOf, gsi_is_level

LEMMA NoneType == None \in [do : {"none", "signal", "on"}, l : Lines]
BY LinesType DEF None

(* What CPU c is given to do, or has done, concerns one line.              *)
LEMMA OpStep ==
  ASSUME IrqInv, NEW c \in IrqCpus, NEW x \in [do : {"none", "signal", "on"}, l : Lines],
         op' = [op EXCEPT ![c] = x], NEW l \in Lines,
         Quiet(l)', l # op[c].l \/ Free(c)
  PROVE  Quiet(l) /\ (x = None \/ x.l # l)
BY DEF Quiet, Free, None, IrqInv, IrqTypeOK

LEMMA IrqInitInv == IrqInit => IrqInv
<1> SUFFICES ASSUME IrqInit PROVE IrqInv
  OBVIOUS
<1>1. IrqTypeOK
  BY NoneType, LinesType DEF IrqInit, IrqTypeOK, Lines
<1>2. OwnLine /\ EdgesOpen /\ AllOwe
  BY DEF IrqInit, OwnLine, EdgesOpen, AllOwe, None
<1>3. QED
  BY <1>1, <1>2 DEF IrqInv

-----------------------------------------------------------------------------
LEMMA HwAssertInv ==
  ASSUME IrqInv, NEW d \in Drivers, HwAssert(d)
  PROVE  IrqInv'
<1> USE DEF IrqInv
<1>1. IrqTypeOK'
  BY LinesType DEF HwAssert, IrqTypeOK
<1>2. OwnLine' /\ AllOwe'
  BY DEF HwAssert, OwnLine, AllOwe, Quiet, Free
<1>3. EdgesOpen'
  BY DEF HwAssert, EdgesOpen
<1>4. QED
  BY <1>1, <1>2, <1>3

(* Only a level-triggered line is masked here, and CPU 0 has its drivers   *)
(* still to signal.                                                        *)
LEMMA IntrEntryInv ==
  ASSUME IrqInv, NEW l \in Lines, IntrEntry(l)
  PROVE  IrqInv'
<1> USE DEF IrqInv
<1> DEFINE x == [do |-> "signal", l |-> l]
<1>0. 0 \in IrqCpus /\ x \in [do : {"none", "signal", "on"}, l : Lines] /\ x # None /\ x.l = l
  BY IrqAssumption DEF None
<1> HIDE DEF x
<1>1. op' = [op EXCEPT ![0] = x] /\ Free(0)
  BY DEF IntrEntry, x
<1>2. IrqTypeOK'
  BY <1>0, <1>1 DEF IntrEntry, IrqTypeOK
<1>3. OwnLine'
  BY DEF IntrEntry, OwnLine
<1>4. EdgesOpen'
  <2>1. latched' \cap masked' = {}
    BY LinesType DEF IntrEntry, EdgesOpen, IrqTypeOK, gsi_is_level
  <2>2. ~gsi_is_level(l) => l \notin masked'
    BY DEF IntrEntry, Delivers, EdgesOpen
  <2>3. ASSUME NEW b \in IrqCpus
        PROVE  /\ op'[b].do = "none" => op'[b] = None
               /\ op'[b].do = "signal" /\ ~gsi_is_level(op'[b].l) => op'[b].l \notin masked'
    <3>1. CASE b = 0
      BY <1>0, <1>1, <2>2, <3>1 DEF IrqTypeOK, x
    <3>2. CASE b # 0
      <4>1. op'[b] = op[b]
        BY <1>1, <3>2 DEF IrqTypeOK
      <4>2. QED
        BY <4>1 DEF IntrEntry, EdgesOpen, gsi_is_level
    <3>3. QED
      BY <3>1, <3>2
  <2>4. QED
    BY <2>1, <2>3 DEF EdgesOpen
<1>5. AllOwe'
  <2> SUFFICES ASSUME NEW m \in Lines, m \in masked', Quiet(m)'
               PROVE  sigs'[m] \subseteq eoi'
    BY DEF AllOwe
  <2>1. Quiet(m) /\ m # l
    BY <1>0, <1>1, OpStep
  <2>2. m \in masked
    BY <2>1 DEF IntrEntry
  <2>3. QED
    BY <2>1, <2>2 DEF IntrEntry, AllOwe
<1>6. QED
  BY <1>2, <1>3, <1>4, <1>5

(* irqsignal leaves every driver of a masked line in debt.                 *)
LEMMA IrqSignalInv ==
  ASSUME IrqInv, NEW c \in IrqCpus, IrqSignal(c)
  PROVE  IrqInv'
<1> USE DEF IrqInv
<1>0. op[c].l \in Lines /\ op' = [op EXCEPT ![c] = None] /\ op[c].do = "signal"
  BY DEF IrqSignal, IrqTypeOK
<1>1. sigs[op[c].l] \subseteq Drivers
  BY <1>0 DEF IrqTypeOK
<1>2. eoi' \subseteq Drivers /\ pend' \subseteq Drivers /\ eoi \subseteq eoi'
  BY <1>1 DEF IrqSignal, Owers, IrqTypeOK
<1>3. op' \in [IrqCpus -> [do : {"none", "signal", "on"}, l : Lines]]
  BY <1>0, NoneType DEF IrqTypeOK
<1>4. IrqTypeOK'
  BY <1>2, <1>3 DEF IrqSignal, IrqTypeOK
<1>5. OwnLine'
  BY DEF IrqSignal, OwnLine
<1>6. EdgesOpen'
  BY <1>0 DEF IrqSignal, EdgesOpen, IrqTypeOK, None
<1>7. AllOwe'
  <2> SUFFICES ASSUME NEW m \in Lines, m \in masked', Quiet(m)'
               PROVE  sigs'[m] \subseteq eoi'
    BY DEF AllOwe
  <2>1. m \in masked /\ sigs' = sigs
    BY DEF IrqSignal
  <2>2. CASE m = op[c].l
    BY <1>0, <2>1, <2>2 DEF IrqSignal, Owers, EdgesOpen
  <2>3. CASE m # op[c].l
    <3>1. Quiet(m)
      BY <1>0, <2>3, NoneType, OpStep
    <3>2. QED
      BY <1>2, <2>1, <3>1 DEF AllOwe
  <2>4. QED
    BY <2>2, <2>3
<1>8. QED
  BY <1>4, <1>5, <1>6, <1>7

LEMMA PlatformIrqOnInv ==
  ASSUME IrqInv, NEW c \in IrqCpus, PlatformIrqOn(c)
  PROVE  IrqInv'
<1> USE DEF IrqInv
<1>0. /\ op[c].l \in Lines /\ op' = [op EXCEPT ![c] = None]
      /\ masked' = masked \ {op[c].l} /\ UNCHANGED <<sigs, eoi, latched>>
  BY DEF PlatformIrqOn, IrqTypeOK, Unmask
<1>1. op' \in [IrqCpus -> [do : {"none", "signal", "on"}, l : Lines]]
  BY <1>0, NoneType DEF IrqTypeOK
<1>2. IrqTypeOK'
  BY <1>0, <1>1 DEF PlatformIrqOn, IrqTypeOK
<1>3. OwnLine'
  BY <1>0 DEF OwnLine
<1>4. EdgesOpen'
  BY <1>0 DEF EdgesOpen, IrqTypeOK, None
<1>5. AllOwe'
  <2> SUFFICES ASSUME NEW m \in Lines, m \in masked', Quiet(m)'
               PROVE  sigs'[m] \subseteq eoi'
    BY DEF AllOwe
  <2>1. m \in masked /\ m # op[c].l
    BY <1>0
  <2>2. Quiet(m)
    BY <1>0, <2>1, NoneType, OpStep
  <2>3. QED
    BY <1>0, <2>1, <2>2 DEF AllOwe
<1>6. QED
  BY <1>2, <1>3, <1>4, <1>5

-----------------------------------------------------------------------------
LEMMA HwdevOpenInv ==
  ASSUME IrqInv, NEW c \in IrqCpus, NEW d \in Drivers, HwdevOpen(c, d)
  PROVE  IrqInv'
BY DEF HwdevOpen, IrqInv, IrqTypeOK, OwnLine, EdgesOpen, AllOwe, Quiet, Free

LEMMA ServeInv ==
  ASSUME IrqInv, NEW d \in Drivers, Serve(d)
  PROVE  IrqInv'
BY DEF Serve, IrqInv, IrqTypeOK, OwnLine, EdgesOpen, AllOwe, Quiet, Free

(* A CPU that is to unmask line l.                                         *)
LEMMA OnStep ==
  ASSUME IrqInv, NEW c \in IrqCpus, NEW l \in Lines, Free(c),
         op' = [op EXCEPT ![c] = [do |-> "on", l |-> l]]
  PROVE  /\ op' \in [IrqCpus -> [do : {"none", "signal", "on"}, l : Lines]]
         /\ \A b \in IrqCpus : op'[b].do # "on" => op'[b] = op[b]
         /\ \A m \in Lines : Quiet(m)' => Quiet(m) /\ m # l
<1> DEFINE x == [do |-> "on", l |-> l]
<1>0. x \in [do : {"none", "signal", "on"}, l : Lines] /\ x # None /\ x.l = l
      /\ x.do = "on"
  BY DEF None
<1> HIDE DEF x
<1>1. op' = [op EXCEPT ![c] = x]
  BY DEF x
<1>2. op' \in [IrqCpus -> [do : {"none", "signal", "on"}, l : Lines]]
  BY <1>0, <1>1 DEF IrqInv, IrqTypeOK
<1>3. \A b \in IrqCpus : op'[b].do # "on" => op'[b] = op[b]
  BY <1>0, <1>1 DEF IrqInv, IrqTypeOK
<1>4. \A m \in Lines : Quiet(m)' => Quiet(m) /\ m # l
  BY <1>0, <1>1, OpStep
<1>5. QED
  BY <1>2, <1>3, <1>4

LEMMA HwdevIrqmapInv ==
  ASSUME IrqInv, NEW c \in IrqCpus, NEW d \in Drivers, HwdevIrqmap(c, d)
  PROVE  IrqInv'
<1> USE DEF IrqInv
<1> DEFINE l == LineOf(d)
<1>0. /\ l \in Lines /\ sigs' = [sigs EXCEPT ![l] = @ \cup {d}]
      /\ op' = [op EXCEPT ![c] = [do |-> "on", l |-> l]] /\ Free(c)
      /\ eoi \subseteq eoi' /\ eoi' \subseteq Drivers
      /\ UNCHANGED <<sess, masked, latched, want, pend, served>>
  BY LinesType DEF HwdevIrqmap, IrqTypeOK
<1> HIDE DEF l
<1>1. /\ op' \in [IrqCpus -> [do : {"none", "signal", "on"}, l : Lines]]
      /\ \A b \in IrqCpus : op'[b].do # "on" => op'[b] = op[b]
      /\ \A m \in Lines : Quiet(m)' => Quiet(m) /\ m # l
  BY <1>0, OnStep
<1>2. IrqTypeOK'
  BY <1>0, <1>1 DEF IrqTypeOK
<1>3. OwnLine'
  BY <1>0 DEF OwnLine, IrqTypeOK, l
<1>4. EdgesOpen'
  BY <1>0, <1>1 DEF EdgesOpen, IrqTypeOK
<1>5. AllOwe'
  BY <1>0, <1>1 DEF AllOwe, IrqTypeOK
<1>6. QED
  BY <1>2, <1>3, <1>4, <1>5

(* sys_eoi clears the debt of all the drivers of a line only when this CPU *)
(* is going to unmask it.                                                  *)
LEMMA HwdevEoiInv ==
  ASSUME IrqInv, NEW c \in IrqCpus, NEW d \in Drivers, HwdevEoi(c, d)
  PROVE  IrqInv'
<1> USE DEF IrqInv
<1> DEFINE l == LineOf(d)
<1>0. /\ l \in Lines /\ eoi' = eoi \ (eoi \cap sigs[l]) /\ Free(c)
      /\ UNCHANGED <<sess, sigs, masked, latched, want, pend>>
      /\ served' \subseteq Drivers
  BY LinesType DEF HwdevEoi, IrqTypeOK
<1>1. \/ op' = [op EXCEPT ![c] = [do |-> "on", l |-> l]]
      \/ op' = op /\ eoi \cap sigs[l] = {}
  BY DEF HwdevEoi
<1> HIDE DEF l
<1>2. OwnLine'
  BY <1>0 DEF OwnLine
<1>3. CASE op' = [op EXCEPT ![c] = [do |-> "on", l |-> l]]
  <2>1. /\ op' \in [IrqCpus -> [do : {"none", "signal", "on"}, l : Lines]]
        /\ \A b \in IrqCpus : op'[b].do # "on" => op'[b] = op[b]
        /\ \A m \in Lines : Quiet(m)' => Quiet(m) /\ m # l
    BY <1>0, <1>3, OnStep
  <2>2. IrqTypeOK'
    BY <1>0, <2>1 DEF IrqTypeOK
  <2>3. EdgesOpen'
    BY <1>0, <2>1 DEF EdgesOpen, IrqTypeOK
  <2>4. AllOwe'
    <3> SUFFICES ASSUME NEW m \in Lines, m \in masked', Quiet(m)'
                 PROVE  sigs'[m] \subseteq eoi'
      BY DEF AllOwe
    <3>1. sigs[m] \subseteq eoi /\ m # l
      BY <1>0, <2>1 DEF AllOwe
    <3>2. sigs[m] \cap sigs[l] = {}
      BY <1>0, <3>1 DEF OwnLine
    <3>3. QED
      BY <1>0, <3>1, <3>2
  <2>5. QED
    BY <1>2, <2>2, <2>3, <2>4
<1>4. CASE op' = op /\ eoi \cap sigs[l] = {}
  <2>1. eoi' = eoi
    BY <1>0, <1>4
  <2>2. QED
    BY <1>0, <1>2, <1>4, <2>1 DEF IrqTypeOK, EdgesOpen, AllOwe, Quiet, Free
<1>5. QED
  BY <1>1, <1>3, <1>4

LEMMA HwdevCloseInv ==
  ASSUME IrqInv, NEW c \in IrqCpus, NEW d \in Drivers, HwdevClose(c, d)
  PROVE  IrqInv'
<1> USE DEF IrqInv
<1>0. /\ LineOf(d) \in Lines /\ sigs' = [sigs EXCEPT ![LineOf(d)] = @ \ {d}]
      /\ eoi' = eoi \ {d} /\ UNCHANGED <<masked, latched, want, op>>
  BY LinesType DEF HwdevClose
<1>1. IrqTypeOK'
  BY <1>0 DEF HwdevClose, IrqTypeOK
<1>2. OwnLine'
  BY <1>0 DEF OwnLine, IrqTypeOK
<1>3. EdgesOpen'
  BY <1>0 DEF EdgesOpen
<1>4. AllOwe'
  <2> SUFFICES ASSUME NEW m \in Lines, m \in masked', Quiet(m)'
               PROVE  sigs'[m] \subseteq eoi'
    BY DEF AllOwe
  <2>1. sigs[m] \subseteq eoi
    BY <1>0 DEF AllOwe, Quiet, Free
  <2>2. sigs'[m] \subseteq sigs[m] /\ d \notin sigs'[m]
    BY <1>0 DEF OwnLine, IrqTypeOK
  <2>3. QED
    BY <1>0, <2>1, <2>2
<1>5. QED
  BY <1>1, <1>2, <1>3, <1>4

-----------------------------------------------------------------------------
(* A masked line with drivers is owed an acknowledgement by all of them,   *)
(* or a CPU is about to change it (irqsignal, irqeoi, irqregister).        *)
THEOREM IrqInvCorrect == IrqSpec => []IrqInv
<1>1. IrqInv /\ [IrqNext]_irqVars => IrqInv'
  <2> SUFFICES ASSUME IrqInv, [IrqNext]_irqVars PROVE IrqInv'
    OBVIOUS
  <2>1. CASE IrqNext
    BY <2>1, HwAssertInv, IntrEntryInv, IrqSignalInv, PlatformIrqOnInv, HwdevOpenInv, ServeInv,
       HwdevIrqmapInv, HwdevEoiInv, HwdevCloseInv DEF IrqNext, IrqKernel
  <2>2. CASE UNCHANGED irqVars
    BY <2>2 DEF irqVars, IrqInv, IrqTypeOK, OwnLine, EdgesOpen, AllOwe, Quiet, Free
  <2>3. QED
    BY <2>1, <2>2
<1>2. QED
  BY <1>1, IrqInitInv, PTL DEF IrqSpec

(* A line with drivers is never left masked with nobody to unmask it, even *)
(* when drivers die between the interrupt and their sys_eoi.               *)
THEOREM MaskedIsOwedCorrect == IrqSpec => []MaskedIsOwed
<1>1. IrqInv => MaskedIsOwed
  <2> SUFFICES ASSUME IrqInv, NEW l \in Lines, l \in masked, sigs[l] # {},
                      \A c \in IrqCpus : op[c].l # l \/ Free(c)
               PROVE  \E d \in eoi : LineOf(d) = l
    BY DEF MaskedIsOwed
  <2>1. sigs[l] \subseteq eoi
    BY DEF IrqInv, AllOwe, Quiet
  <2>2. QED
    BY <2>1 DEF IrqInv, OwnLine
<1>2. QED
  BY <1>1, IrqInvCorrect, PTL

-----------------------------------------------------------------------------
(* The kernel heap.  The blocks of a page do not overlap in the order of   *)
(* its list, and the free list has the free ones of them.                  *)
HUnits == 0..HeapUnits
HBlocks == [at : 0..HeapUnits, ulen : 1..HeapUnits, isfree : BOOLEAN]
HPages == [id : Nat, list : Seq(HBlocks), free_list : Seq(HUnits)]
BEnd(b) == b.at + b.ulen
InOrder(l) == /\ \A i, k \in DOMAIN l : i < k => BEnd(l[i]) <= l[k].at
              /\ \A i \in DOMAIN l : BEnd(l[i]) <= HeapUnits
Ats(l, f) == {l[k].at : k \in {m \in DOMAIN l : l[m].isfree = f}}
Whole(l) ==
  /\ l # <<>> /\ l[1].at = 0 /\ BEnd(l[Len(l)]) = HeapUnits
  /\ \A i \in 1 .. Len(l) - 1 : BEnd(l[i]) = l[i + 1].at /\ ~(l[i].isfree /\ l[i + 1].isfree)
PageOk(h, H) ==
  /\ h \in HPages /\ InOrder(h.list)
  /\ IsInjective(h.free_list) /\ ToSet(h.free_list) = Ats(h.list, TRUE)
  /\ H = Ats(h.list, FALSE)

(* What the list has after a splice.                                       *)
Spliced(l, i, j, mid, r) ==
  /\ Len(mid) \in Nat /\ Len(l) \in Nat
  /\ Len(r) = Len(l) - (j - i) + Len(mid)
  /\ DOMAIN r = 1 .. Len(l) - (j - i) + Len(mid)
  /\ \A k \in 1 .. i - 1 : r[k] = l[k]
  /\ \A k \in i .. i + Len(mid) - 1 : r[k] = mid[k - i + 1]
  /\ \A k \in i + Len(mid) .. Len(l) - (j - i) + Len(mid) : r[k] = l[k - Len(mid) + (j - i)]

LEMMA SpliceIs ==
  ASSUME NEW S, NEW l \in Seq(S), NEW i \in 1 .. Len(l), NEW j \in i .. Len(l) + 1, NEW mid \in Seq(S)
  PROVE  Splice(l, i, j, mid) \in Seq(S) /\ Spliced(l, i, j, mid, Splice(l, i, j, mid))
<1> DEFINE a == SubSeq(l, 1, i - 1)
           b == SubSeq(l, j, Len(l))
           m == Len(mid)
           am == a \o mid
           r == am \o b
<1>0. Len(l) \in Nat /\ i \in Nat /\ j \in Nat /\ i <= j /\ j <= Len(l) + 1 /\ 1 <= i /\ i <= Len(l) /\ m \in Nat
  OBVIOUS
<1>1. a \in Seq(S) /\ Len(a) = i - 1 /\ \A k \in 1 .. i - 1 : a[k] = l[k]
  BY <1>0
<1>2. b \in Seq(S) /\ Len(b) = Len(l) - j + 1 /\ \A k \in 1 .. Len(l) - j + 1 : b[k] = l[k + j - 1]
  BY <1>0
<1> HIDE DEF a, b
<1>3. /\ am \in Seq(S) /\ Len(am) = i - 1 + m
      /\ \A k \in 1 .. i - 1 : am[k] = a[k]
      /\ \A k \in i .. i - 1 + m : am[k] = mid[k - (i - 1)]
  <2>1. /\ a \o mid \in Seq(S) /\ Len(a \o mid) = Len(a) + Len(mid)
        /\ \A k \in 1 .. Len(a) : (a \o mid)[k] = a[k]
        /\ \A k \in Len(a) + 1 .. Len(a) + Len(mid) : (a \o mid)[k] = mid[k - Len(a)]
    BY <1>1, ConcatIs
  <2>2. Len(a) + 1 = i /\ Len(a) + Len(mid) = i - 1 + m /\ Len(a) = i - 1
    BY <1>0, <1>1
  <2> QED BY <2>1, <2>2
<1> HIDE DEF am
<1>4. /\ r \in Seq(S) /\ Len(r) = i - 1 + m + (Len(l) - j + 1)
      /\ DOMAIN r = 1 .. i - 1 + m + (Len(l) - j + 1)
      /\ \A k \in 1 .. i - 1 + m : r[k] = am[k]
      /\ \A k \in i + m .. i - 1 + m + (Len(l) - j + 1) : r[k] = b[k - (i - 1 + m)]
  <2>1. /\ am \o b \in Seq(S) /\ Len(am \o b) = Len(am) + Len(b) /\ DOMAIN (am \o b) = 1 .. Len(am) + Len(b)
        /\ \A k \in 1 .. Len(am) : (am \o b)[k] = am[k]
        /\ \A k \in Len(am) + 1 .. Len(am) + Len(b) : (am \o b)[k] = b[k - Len(am)]
    <3>1. am \in Seq(S) /\ b \in Seq(S)
      BY <1>2, <1>3
    <3> QED BY <3>1, ConcatIs
  <2>2. Len(am) + 1 = i + m /\ Len(am) + Len(b) = i - 1 + m + (Len(l) - j + 1) /\ Len(am) = i - 1 + m
    BY <1>0, <1>2, <1>3
  <2> QED BY <2>1, <2>2
<1> HIDE DEF r
<1>5. \A k \in 1 .. i - 1 : r[k] = l[k]
  BY <1>0, <1>1, <1>3, <1>4
<1>6. \A k \in i .. i + m - 1 : r[k] = mid[k - i + 1]
  BY SMTT(30), <1>0, <1>3, <1>4
<1>7. \A k \in i + m .. Len(l) - (j - i) + m : r[k] = l[k - m + (j - i)]
  <2> TAKE k \in i + m .. Len(l) - (j - i) + m
  <2>1. r[k] = b[k - (i - 1 + m)]
    BY <1>0, <1>4
  <2>2. k - (i - 1 + m) \in 1 .. Len(l) - j + 1 /\ k - (i - 1 + m) + j - 1 = k - m + (j - i)
    BY <1>0
  <2>3. b[k - (i - 1 + m)] = l[k - (i - 1 + m) + j - 1]
    BY <2>2, <1>2
  <2> QED BY <2>1, <2>2, <2>3
<1>8. Splice(l, i, j, mid) = r
  BY DEF r, am, a, b, Splice
<1>9. i - 1 + m + (Len(l) - j + 1) = Len(l) - (j - i) + Len(mid)
  BY <1>0
<1>10. Spliced(l, i, j, mid, r)
  BY <1>0, <1>4, <1>5, <1>6, <1>7, <1>9 DEF Spliced
<1> QED BY <1>4, <1>8, <1>10

(* The blocks of a list in order have different addresses.                 *)
LEMMA AtsApart ==
  ASSUME NEW l \in Seq(HBlocks), InOrder(l)
  PROVE  /\ \A k, m \in DOMAIN l : l[k].at = l[m].at => k = m
         /\ \A k \in DOMAIN l, f \in BOOLEAN : l[k].at \in Ats(l, f) <=> l[k].isfree = f
<1>1. \A k \in DOMAIN l : l[k].at \in Nat /\ l[k].ulen \in Nat \ {0} /\ k \in Nat /\ l[k].isfree \in BOOLEAN
  <2> TAKE k \in DOMAIN l
  <2>1. l[k] \in HBlocks /\ k \in Nat
    OBVIOUS
  <2> QED BY <2>1, HeapAssumption DEF HBlocks
<1>2. ASSUME NEW k \in DOMAIN l, NEW m \in DOMAIN l, k < m PROVE l[k].at < l[m].at
  BY <1>1, <1>2, SMTT(30) DEF InOrder, BEnd
<1>3. \A k, m \in DOMAIN l : l[k].at = l[m].at => k = m
  <2> TAKE k, m \in DOMAIN l
  <2>1. k \in Nat /\ m \in Nat /\ l[k].at \in Nat /\ l[m].at \in Nat
    BY <1>1
  <2>2. CASE k < m
    BY <1>2, <2>1, <2>2
  <2>3. CASE m < k
    BY <1>2, <2>1, <2>3
  <2> QED BY <2>1, <2>2, <2>3
<1>4. \A k \in DOMAIN l, f \in BOOLEAN : l[k].at \in Ats(l, f) <=> l[k].isfree = f
  BY <1>3, Zenon DEF Ats
<1> QED BY <1>3, <1>4

(* A splice puts the blocks of mid in the place of those that it takes.    *)
Gone(l, i, j) == {l[k].at : k \in i .. j - 1}
LEMMA SpliceAts ==
  ASSUME NEW l \in Seq(HBlocks), InOrder(l), NEW i \in 1 .. Len(l), NEW j \in i + 1 .. Len(l) + 1,
         NEW mid \in Seq(HBlocks), NEW r, Spliced(l, i, j, mid, r), NEW f \in BOOLEAN
  PROVE  Ats(r, f) = (Ats(l, f) \ Gone(l, i, j)) \cup Ats(mid, f)
<1> DEFINE n == Len(l)
           m == Len(mid)
<1>0. n \in Nat /\ m \in Nat /\ i \in Nat /\ j \in Nat /\ DOMAIN l = 1 .. n /\ DOMAIN mid = 1 .. m
  OBVIOUS
<1>1. ASSUME NEW x \in Ats(r, f) PROVE x \in (Ats(l, f) \ Gone(l, i, j)) \cup Ats(mid, f)
  <2>1. PICK k \in DOMAIN r : r[k].isfree = f /\ x = r[k].at
    BY <1>1 DEF Ats
  <2>2. k \in 1 .. n - (j - i) + m
    BY <2>1 DEF Spliced
  <2>3. CASE k < i
    <3>1. r[k] = l[k] /\ k \in DOMAIN l /\ k \notin i .. j - 1
      BY <1>0, <2>2, <2>3 DEF Spliced
    <3> QED BY <3>1, <2>1, AtsApart, <1>0, SMTT(30) DEF Ats, Gone
  <2>4. CASE i <= k /\ k < i + m
    <3>1. k \in i .. i + m - 1 /\ k - i + 1 \in DOMAIN mid
      BY <1>0, <2>2, <2>4
    <3>2. r[k] = mid[k - i + 1]
      BY <3>1 DEF Spliced
    <3> QED BY <3>1, <3>2, <2>1 DEF Ats
  <2>5. CASE i + m <= k
    <3> DEFINE q == k - m + (j - i)
    <3>1. k \in i + m .. n - (j - i) + m /\ q \in DOMAIN l /\ q \notin i .. j - 1
      BY <1>0, <2>2, <2>5
    <3>2. r[k] = l[q]
      BY <3>1 DEF Spliced
    <3> HIDE DEF q
    <3>3. x \in Ats(l, f)
      BY <3>1, <3>2, <2>1 DEF Ats
    <3>4. ASSUME NEW p \in i .. j - 1, x = l[p].at PROVE FALSE
      <4>1. p \in DOMAIN l
        BY <1>0
      <4>2. p = q
        BY <4>1, <3>1, <3>2, <3>4, <2>1, AtsApart
      <4> QED BY <4>2, <3>1
    <3> QED BY <3>3, <3>4 DEF Gone
  <2> QED BY <1>0, <2>2, <2>3, <2>4, <2>5
<1>2. ASSUME NEW x \in Ats(l, f), x \notin Gone(l, i, j) PROVE x \in Ats(r, f)
  <2>1. PICK k \in DOMAIN l : l[k].isfree = f /\ x = l[k].at
    BY <1>2 DEF Ats
  <2>2. k \in 1 .. n /\ k \notin i .. j - 1
    BY <2>1, <1>2, <1>0 DEF Gone
  <2>3. CASE k < i
    <3>1. r[k] = l[k] /\ k \in DOMAIN r
      BY <1>0, <2>2, <2>3, SMTT(30) DEF Spliced
    <3> QED BY <3>1, <2>1 DEF Ats
  <2>4. CASE j <= k
    <3> DEFINE q == k + m - (j - i)
    <3>1. q \in i + m .. n - (j - i) + m /\ q - m + (j - i) = k
      BY <1>0, <2>2, <2>4, SMTT(30)
    <3> HIDE DEF q
    <3>2. r[q] = l[k] /\ q \in DOMAIN r
      BY <3>1, <1>0 DEF Spliced
    <3> QED BY <3>2, <2>1 DEF Ats
  <2> QED BY <1>0, <2>2, <2>3, <2>4
<1>3. ASSUME NEW x \in Ats(mid, f) PROVE x \in Ats(r, f)
  <2>1. PICK k \in DOMAIN mid : mid[k].isfree = f /\ x = mid[k].at
    BY <1>3 DEF Ats
  <2> DEFINE q == k + i - 1
  <2>2. q \in i .. i + m - 1 /\ q - i + 1 = k /\ q \in 1 .. n - (j - i) + m
    BY <1>0, <2>1
  <2> HIDE DEF q
  <2>3. r[q] = mid[k] /\ q \in DOMAIN r
    BY <2>2 DEF Spliced
  <2> QED BY <2>3, <2>1 DEF Ats
<1> QED BY <1>1, <1>2, <1>3

(* Blocks that keep within those they replace keep the order.              *)
LEMMA SpliceInOrder ==
  ASSUME NEW l \in Seq(HBlocks), InOrder(l), NEW i \in 1 .. Len(l), NEW j \in i + 1 .. Len(l) + 1,
         NEW mid \in Seq(HBlocks), NEW r, Spliced(l, i, j, mid, r), InOrder(mid),
         \A k \in DOMAIN mid : l[i].at <= mid[k].at /\ BEnd(mid[k]) <= BEnd(l[j - 1])
  PROVE  InOrder(r)
<1> DEFINE n == Len(l)
           m == Len(mid)
<1>0. n \in Nat /\ m \in Nat /\ i \in Nat /\ j \in Nat /\ DOMAIN l = 1 .. n /\ DOMAIN mid = 1 .. m
      /\ DOMAIN r = 1 .. n - (j - i) + m
  BY DEF Spliced
<1>a. \A k \in DOMAIN l : l[k].at \in Nat /\ BEnd(l[k]) \in Nat /\ l[k].at <= BEnd(l[k])
  <2> TAKE k \in DOMAIN l
  <2>1. l[k] \in HBlocks
    OBVIOUS
  <2> QED BY <2>1, HeapAssumption DEF HBlocks, BEnd
<1>b. \A k \in DOMAIN mid : mid[k].at \in Nat /\ BEnd(mid[k]) \in Nat /\ mid[k].at <= BEnd(mid[k])
  <2> TAKE k \in DOMAIN mid
  <2>1. mid[k] \in HBlocks
    OBVIOUS
  <2> QED BY <2>1, HeapAssumption, SMTT(30) DEF HBlocks, BEnd
<1>c. i \in DOMAIN l /\ j - 1 \in DOMAIN l
  BY <1>0
<1> DEFINE Place(k) ==
             \/ k < i /\ k \in DOMAIN l /\ r[k] = l[k]
             \/ i <= k /\ k < i + m /\ k - i + 1 \in DOMAIN mid /\ r[k] = mid[k - i + 1]
             \/ i + m <= k /\ k - m + (j - i) \in DOMAIN l /\ k - m + (j - i) >= j
                /\ r[k] = l[k - m + (j - i)]
<1>1. \A k \in DOMAIN r : Place(k)
  <2> TAKE k \in DOMAIN r
  <2>0. k \in 1 .. n - (j - i) + m
    BY <1>0
  <2>1. CASE k < i
    <3>1. k \in 1 .. i - 1 /\ k \in DOMAIN l
      BY <2>0, <2>1, <1>0
    <3> QED BY <3>1, <2>1 DEF Spliced
  <2>2. CASE i <= k /\ k < i + m
    <3>1. k \in i .. i + m - 1 /\ k - i + 1 \in DOMAIN mid
      BY <2>0, <2>2, <1>0
    <3> QED BY <3>1, <2>2 DEF Spliced
  <2>3. CASE i + m <= k
    <3>1. k \in i + m .. n - (j - i) + m /\ k - m + (j - i) \in DOMAIN l /\ k - m + (j - i) >= j
      BY <2>0, <2>3, <1>0
    <3> QED BY <3>1, <2>3 DEF Spliced
  <2> QED BY <2>0, <2>1, <2>2, <2>3, <1>0
<1>2. \A k \in DOMAIN l : k < i => BEnd(l[k]) <= l[i].at
  BY <1>0, <1>c DEF InOrder
<1>3. \A k \in DOMAIN l : k >= j => BEnd(l[j - 1]) <= l[k].at
  BY <1>0, <1>c DEF InOrder
<1>4. ASSUME NEW k \in DOMAIN r PROVE BEnd(r[k]) <= HeapUnits
  <2>1. \A x \in DOMAIN l : BEnd(l[x]) <= HeapUnits
    BY DEF InOrder
  <2>2. \A x \in DOMAIN mid : BEnd(mid[x]) <= HeapUnits
    BY DEF InOrder
  <2> QED BY <1>1, <2>1, <2>2
<1>5. ASSUME NEW k \in DOMAIN r, NEW q \in DOMAIN r, k < q PROVE BEnd(r[k]) <= r[q].at
  <2>0. Place(k) /\ Place(q) /\ k \in Nat /\ q \in Nat
    BY <1>0, <1>1, SMTT(30)
  <2>1. \A x, y \in DOMAIN l : x < y => BEnd(l[x]) <= l[y].at
    BY DEF InOrder
  <2>2. \A x, y \in DOMAIN mid : x < y => BEnd(mid[x]) <= mid[y].at
    BY DEF InOrder
  <2>3. CASE k < i /\ q < i
    BY <2>0, <2>1, <2>3, <1>0, <1>5
  <2>4. CASE k < i /\ i <= q /\ q < i + m
    <3>1. k \in DOMAIN l /\ r[k] = l[k] /\ q - i + 1 \in DOMAIN mid /\ r[q] = mid[q - i + 1]
      BY <2>0, <2>4, <1>0
    <3>2. BEnd(l[k]) <= l[i].at /\ l[i].at <= mid[q - i + 1].at
      BY <3>1, <1>2, <2>4
    <3> QED BY SMTT(30), <3>1, <3>2, <1>a, <1>b, <1>c
  <2>5. CASE k < i /\ i + m <= q
    BY <2>0, <2>1, <2>5, <1>0
  <2>6. CASE i <= k /\ k < i + m /\ q < i + m
    BY <2>0, <2>2, <2>6, <1>0, <1>5
  <2>7. CASE i <= k /\ k < i + m /\ i + m <= q
    <3> DEFINE y == q - m + (j - i)
    <3>1. k - i + 1 \in DOMAIN mid /\ r[k] = mid[k - i + 1] /\ y \in DOMAIN l /\ y >= j /\ r[q] = l[y]
      BY <2>0, <2>7, <1>0
    <3> HIDE DEF y
    <3>2. BEnd(mid[k - i + 1]) <= BEnd(l[j - 1]) /\ BEnd(l[j - 1]) <= l[y].at
      BY <3>1, <1>3
    <3> QED BY <3>1, <3>2, <1>a, <1>b, <1>c
  <2>8. CASE i + m <= k /\ i + m <= q
    BY SMTT(30), <2>0, <2>1, <2>8, <1>0, <1>5
  <2> QED BY <2>0, <2>3, <2>4, <2>5, <2>6, <2>7, <2>8, <1>0, <1>5
<1> QED BY <1>4, <1>5 DEF InOrder

(* Blocks that fill the room of those they replace keep the page whole.    *)
LEMMA SpliceWhole ==
  ASSUME NEW l \in Seq(HBlocks), Whole(l), NEW i \in 1 .. Len(l), NEW j \in i + 1 .. Len(l) + 1,
         NEW mid \in Seq(HBlocks), NEW r \in Seq(HBlocks), Spliced(l, i, j, mid, r), mid # <<>>,
         mid[1].at = l[i].at, BEnd(mid[Len(mid)]) = BEnd(l[j - 1]),
         \A k \in 1 .. Len(mid) - 1 : BEnd(mid[k]) = mid[k + 1].at /\ ~(mid[k].isfree /\ mid[k + 1].isfree),
         i > 1 => ~(l[i - 1].isfree /\ mid[1].isfree),
         j <= Len(l) => ~(mid[Len(mid)].isfree /\ l[j].isfree)
  PROVE  Whole(r)
<1> DEFINE n == Len(l)
           m == Len(mid)
           N == n - (j - i) + m
           P(a, b) == BEnd(a) = b.at /\ ~(a.isfree /\ b.isfree)
<1>0. /\ n \in Nat /\ m \in Nat \ {0} /\ i \in Nat /\ j \in Nat /\ DOMAIN l = 1 .. n /\ DOMAIN mid = 1 .. m
      /\ DOMAIN r = 1 .. N /\ Len(r) = N /\ 1 <= i /\ i < j /\ j <= n + 1 /\ i <= n /\ N \in Nat
      /\ N = n - (j - i) + m
  <2>1. n \in Nat /\ m \in Nat \ {0} /\ DOMAIN l = 1 .. n /\ DOMAIN mid = 1 .. m
    OBVIOUS
  <2>2. DOMAIN r = 1 .. N /\ Len(r) = N
    BY DEF Spliced
  <2>3. i \in Nat /\ j \in Nat /\ 1 <= i /\ i < j /\ j <= n + 1 /\ i <= n
    BY <2>1
  <2>4. N \in Nat
    BY <2>1, <2>3
  <2> QED BY <2>1, <2>2, <2>3, <2>4
<1>1. /\ \A k \in 1 .. i - 1 : r[k] = l[k]
      /\ \A k \in i .. i + m - 1 : r[k] = mid[k - i + 1]
      /\ \A k \in i + m .. N : r[k] = l[k - m + (j - i)]
  BY DEF Spliced
<1>2. /\ l[1].at = 0 /\ BEnd(l[n]) = HeapUnits /\ \A k \in 1 .. n - 1 : P(l[k], l[k + 1])
  BY DEF Whole
<1>3. \A k \in 1 .. m - 1 : P(mid[k], mid[k + 1])
  OBVIOUS
<1>h. /\ mid[1].at = l[i].at /\ BEnd(mid[m]) = BEnd(l[j - 1])
      /\ i > 1 => ~(l[i - 1].isfree /\ mid[1].isfree)
      /\ j <= n => ~(mid[m].isfree /\ l[j].isfree)
  OBVIOUS
<1> HIDE DEF n, m, N
<1>4. r[1].at = 0
  <2>1. CASE i = 1
    BY <2>1, <1>0, <1>1, <1>2
  <2>2. CASE i > 1
    BY <2>2, <1>0, <1>1, <1>2
  <2> QED BY <2>1, <2>2, <1>0
<1>5. BEnd(r[N]) = HeapUnits
  <2>1. CASE j = n + 1
    <3>1. N = i + m - 1 /\ N - i + 1 = m /\ j - 1 = n
      BY <2>1, <1>0
    <3>0. N \in i .. i + m - 1
      BY <3>1, <1>0
    <3>2. r[N] = mid[m]
      BY <3>0, <3>1, <1>1
    <3> QED BY <3>1, <3>2, <1>2, <1>h
  <2>2. CASE j <= n
    <3>1. N \in i + m .. N /\ N - m + (j - i) = n
      BY <2>2, <1>0
    <3>2. r[N] = l[n]
      BY <3>1, <1>1
    <3> QED BY <3>2, <1>2
  <2>3. j = n + 1 \/ j <= n
    BY <1>0
  <2> QED BY <2>1, <2>2, <2>3
<1>6. ASSUME NEW k \in 1 .. N - 1 PROVE P(r[k], r[k + 1])
  <2>1. CASE k + 1 < i
    <3>1. k \in 1 .. i - 1 /\ k + 1 \in 1 .. i - 1 /\ k \in 1 .. n - 1
      BY <2>1, <1>0
    <3>2. r[k] = l[k] /\ r[k + 1] = l[k + 1] /\ P(l[k], l[k + 1])
      BY <3>1, <1>1, <1>2
    <3> QED BY <3>2
  <2>2. CASE k + 1 = i
    <3>1. r[k] = l[i - 1] /\ r[k + 1] = mid[1] /\ i - 1 \in 1 .. n - 1 /\ i - 1 + 1 = i /\ i > 1
      BY <2>2, <1>0, <1>1
    <3>2. P(l[i - 1], l[i])
      BY <3>1, <1>2
    <3> QED BY <3>1, <3>2, <1>h
  <2>3. CASE i <= k /\ k + 1 < i + m
    <3>1. r[k] = mid[k - i + 1] /\ r[k + 1] = mid[k - i + 2] /\ k - i + 1 \in 1 .. m - 1
      BY <2>3, <1>0, <1>1
    <3>2. P(mid[k - i + 1], mid[(k - i + 1) + 1])
      BY <3>1, <1>3
    <3>3. (k - i + 1) + 1 = k - i + 2
      BY <1>0
    <3> QED BY <3>1, <3>2, <3>3
  <2>4. CASE k + 1 = i + m
    <3>1. r[k] = mid[m] /\ r[k + 1] = l[j] /\ j - 1 \in 1 .. n - 1 /\ (j - 1) + 1 = j /\ j <= n
      <4>1. k \in i .. i + m - 1 /\ k - i + 1 = m
        BY <2>4, <1>0
      <4>2. k + 1 \in i + m .. N /\ (k + 1) - m + (j - i) = j
        BY <2>4, <1>0
      <4>3. j <= n
        BY <4>2, <1>0
      <4>4. r[k] = mid[m]
        BY <4>1, <1>1
      <4>5. r[k + 1] = l[j]
        BY <4>2, <1>1
      <4> QED BY SMTT(30), <4>3, <4>4, <4>5, <1>0
    <3>2. P(l[j - 1], l[j])
      BY <3>1, <1>2
    <3> QED BY <3>1, <3>2, <1>h
  <2>5. CASE k >= i + m
    <3> DEFINE y == k - m + (j - i)
    <3>1. y \in 1 .. n - 1 /\ k \in i + m .. N /\ k + 1 \in i + m .. N /\ (k + 1) - m + (j - i) = y + 1
      BY <2>5, <1>0
    <3>2. r[k] = l[y] /\ r[k + 1] = l[y + 1]
      BY <3>1, <1>1
    <3> HIDE DEF y
    <3> QED BY <3>1, <3>2, <1>2
  <2> QED BY <1>0, <2>2, <2>3, <2>4, <2>5, <2>1
<1>7. r # <<>>
  BY <1>0
<1> QED BY <1>0, <1>4, <1>5, <1>6, <1>7 DEF Whole, N
LEMMA BlockFound ==
  ASSUME NEW h \in HPages, NEW l \in Seq(HBlocks), l = h.list, InOrder(l),
         NEW f \in BOOLEAN, NEW at \in Ats(l, f)
  PROVE  /\ BlockAt(h, at) \in 1 .. Len(l)
         /\ l[BlockAt(h, at)].at = at /\ l[BlockAt(h, at)].isfree = f
<1>0. DOMAIN l = 1 .. Len(l)
  OBVIOUS
<1>1. PICK i \in DOMAIN l : l[i].at = at /\ l[i].isfree = f
  BY DEF Ats
<1>2. \A k \in DOMAIN l : l[k].at = at => k = i
  BY <1>1, AtsApart
<1>3. BlockAt(h, at) = i
  BY <1>1, <1>2 DEF BlockAt
<1> QED BY <1>0, <1>1, <1>3

LEMMA UnfreeIs ==
  ASSUME NEW S, NEW fl \in Seq(S), IsInjective(fl), NEW at \in ToSet(fl)
  PROVE  /\ Unfree(fl, at) \in Seq(S) /\ IsInjective(Unfree(fl, at))
         /\ ToSet(Unfree(fl, at)) = ToSet(fl) \ {at}
<1> DEFINE k == CHOOSE k \in DOMAIN fl : fl[k] = at
<1>1. k \in DOMAIN fl /\ fl[k] = at
  BY DEF ToSet
<1>2. Unfree(fl, at) = RemoveAt(fl, k)
  BY DEF Unfree
<1> HIDE DEF k
<1> QED BY <1>1, <1>2, RemoveIndex

LEMMA BlockIs ==
  ASSUME NEW at \in 0..HeapUnits, NEW u \in 1..HeapUnits, NEW f \in BOOLEAN
  PROVE  /\ Block(at, u, f) \in HBlocks /\ Block(at, u, f).at = at
         /\ Block(at, u, f).isfree = f /\ BEnd(Block(at, u, f)) = at + u
BY DEF Block, HBlocks, BEnd

LEMMA OneBlock ==
  ASSUME NEW b \in HBlocks, BEnd(b) <= HeapUnits
  PROVE  /\ <<b>> \in Seq(HBlocks) /\ Len(<<b>>) = 1 /\ <<b>>[1] = b /\ <<b>> # <<>> /\ DOMAIN <<b>> = {1}
         /\ InOrder(<<b>>) /\ \A f \in BOOLEAN : Ats(<<b>>, f) = IF b.isfree = f THEN {b.at} ELSE {}
<1>1. /\ <<b>> \in Seq(HBlocks) /\ Len(<<b>>) = 1 /\ <<b>>[1] = b /\ <<b>> # <<>> /\ DOMAIN <<b>> = {1}
  OBVIOUS
<1>2. InOrder(<<b>>)
  BY <1>1 DEF InOrder
<1>3. \A f \in BOOLEAN : Ats(<<b>>, f) = IF b.isfree = f THEN {b.at} ELSE {}
  BY <1>1 DEF Ats
<1> QED BY <1>1, <1>2, <1>3

LEMMA TwoBlocks ==
  ASSUME NEW b \in HBlocks, NEW c \in HBlocks, BEnd(b) <= c.at, BEnd(c) <= HeapUnits
  PROVE  /\ <<b, c>> \in Seq(HBlocks) /\ Len(<<b, c>>) = 2 /\ <<b, c>>[1] = b /\ <<b, c>>[2] = c
         /\ <<b, c>> # <<>> /\ DOMAIN <<b, c>> = {1, 2} /\ InOrder(<<b, c>>)
         /\ \A f \in BOOLEAN : Ats(<<b, c>>, f) = (IF b.isfree = f THEN {b.at} ELSE {})
                                                  \cup (IF c.isfree = f THEN {c.at} ELSE {})
<1> DEFINE q == <<b, c>>
<1>1. /\ q \in Seq(HBlocks) /\ Len(q) = 2 /\ q[1] = b /\ q[2] = c
      /\ q # <<>> /\ DOMAIN q = 1 .. 2 /\ 1 .. 2 = {1, 2}
  OBVIOUS
<1> HIDE DEF q
<1>2. InOrder(q)
  <2>1. BEnd(b) <= HeapUnits
    BY HeapAssumption DEF HBlocks, BEnd
  <2> QED BY <1>1, <2>1 DEF InOrder
<1>3. \A f \in BOOLEAN : Ats(q, f) = (IF b.isfree = f THEN {b.at} ELSE {})
                                                  \cup (IF c.isfree = f THEN {c.at} ELSE {})
  BY <1>1 DEF Ats
<1> QED BY <1>1, <1>2, <1>3 DEF q

(* A page after a splice.                                                  *)
SplicesTo(h, l, i, j, mid, fl, H, g) ==
  /\ h \in HPages /\ l \in Seq(HBlocks) /\ l = h.list /\ InOrder(l)
  /\ i \in 1 .. Len(l) /\ j \in i + 1 .. Len(l) + 1 /\ mid \in Seq(HBlocks) /\ InOrder(mid)
  /\ \A k \in DOMAIN mid : l[i].at <= mid[k].at /\ BEnd(mid[k]) <= BEnd(l[j - 1])
  /\ fl \in Seq(HUnits) /\ IsInjective(fl)
  /\ ToSet(fl) = (Ats(l, TRUE) \ Gone(l, i, j)) \cup Ats(mid, TRUE)
  /\ H = (Ats(l, FALSE) \ Gone(l, i, j)) \cup Ats(mid, FALSE)
  /\ g = [h EXCEPT !.list = Splice(l, i, j, mid), !.free_list = fl]
LEMMA SplicePage ==
  ASSUME NEW h, NEW l, NEW i, NEW j, NEW mid, NEW fl, NEW H, NEW g, SplicesTo(h, l, i, j, mid, fl, H, g)
  PROVE  /\ PageOk(g, H) /\ g.id = h.id
         /\ g.list \in Seq(HBlocks) /\ Spliced(l, i, j, mid, g.list)
<1> DEFINE r == Splice(l, i, j, mid)
<1>a. /\ h \in HPages /\ l \in Seq(HBlocks) /\ l = h.list /\ InOrder(l)
      /\ i \in 1 .. Len(l) /\ j \in i + 1 .. Len(l) + 1 /\ mid \in Seq(HBlocks) /\ InOrder(mid)
      /\ \A k \in DOMAIN mid : l[i].at <= mid[k].at /\ BEnd(mid[k]) <= BEnd(l[j - 1])
      /\ fl \in Seq(HUnits) /\ IsInjective(fl)
  BY DEF SplicesTo
<1>b. /\ ToSet(fl) = (Ats(l, TRUE) \ Gone(l, i, j)) \cup Ats(mid, TRUE)
      /\ H = (Ats(l, FALSE) \ Gone(l, i, j)) \cup Ats(mid, FALSE)
      /\ g = [h EXCEPT !.list = Splice(l, i, j, mid), !.free_list = fl]
  BY DEF SplicesTo
<1>0. Len(l) \in Nat /\ j \in i .. Len(l) + 1
  BY <1>a
<1>1. r \in Seq(HBlocks) /\ Spliced(l, i, j, mid, r)
  BY <1>a, <1>0, SpliceIs
<1> HIDE DEF r
<1>2. InOrder(r)
  BY <1>a, <1>1, SpliceInOrder
<1>3. \A f \in BOOLEAN : Ats(r, f) = (Ats(l, f) \ Gone(l, i, j)) \cup Ats(mid, f)
  <2> TAKE f \in BOOLEAN
  <2> QED BY <1>a, <1>1, SpliceAts, SMTT(30)
<1>4. g \in HPages /\ g.list = r /\ g.free_list = fl /\ g.id = h.id
  BY <1>1, <1>a, <1>b DEF HPages, r
<1> QED BY <1>a, <1>b, <1>1, <1>2, <1>3, <1>4 DEF PageOk

LEMMA AllocKeeps ==
  ASSUME NEW h, NEW H, PageOk(h, H), NEW u \in 1..HeapUnits, Fitting(h, u) # {}
  PROVE  /\ PageOk(kheap_alloc(h, u), H \cup {FirstFit(h, u)})
         /\ kheap_alloc(h, u).id = h.id /\ FirstFit(h, u) \in 0..HeapUnits
         /\ Whole(h.list) => Whole(kheap_alloc(h, u).list)
<1> DEFINE l == h.list
           at == FirstFit(h, u)
           i == BlockAt(h, at)
           rest == l[i].ulen - u
           fl == Unfree(h.free_list, at)
           B == Block(at, u, FALSE)
           C == Block(at + u, rest, TRUE)
           g == kheap_alloc(h, u)
<1>0. /\ h \in HPages /\ InOrder(l) /\ l \in Seq(HBlocks) /\ Len(l) \in Nat /\ DOMAIN l = 1 .. Len(l)
      /\ h.free_list \in Seq(HUnits) /\ IsInjective(h.free_list)
      /\ ToSet(h.free_list) = Ats(l, TRUE) /\ H = Ats(l, FALSE) /\ l = h.list
  BY DEF PageOk, HPages
<1> HIDE DEF l
<1>1. at \in ToSet(h.free_list) /\ at \in 0..HeapUnits /\ l[i].ulen >= u
  <2>1. Fitting(h, u) \in SUBSET Nat
    BY <1>0 DEF Fitting
  <2>2. Min(Fitting(h, u)) \in Fitting(h, u)
    BY <2>1, LeastNatural
  <2> DEFINE k == Min(Fitting(h, u))
  <2>3. k \in DOMAIN h.free_list /\ h.list[BlockAt(h, h.free_list[k])].ulen >= u
    BY <2>2 DEF Fitting
  <2>4. at = h.free_list[k]
    BY DEF FirstFit
  <2> HIDE DEF k, at
  <2>5. h.free_list[k] \in HUnits /\ h.free_list[k] \in ToSet(h.free_list)
    <3>1. h.free_list[k] \in ToSet(h.free_list)
      BY <2>3, InToSet
    <3>2. ASSUME NEW q \in Seq(HUnits), NEW x \in DOMAIN q PROVE q[x] \in HUnits
      OBVIOUS
    <3> QED BY <3>1, <3>2, <2>3, <1>0
  <2> QED BY <2>3, <2>4, <2>5, <1>0 DEF HUnits
<1>2. /\ i \in 1 .. Len(l) /\ l[i].at = at /\ l[i].isfree = TRUE
  <2>1. at \in Ats(l, TRUE)
    BY <1>0, <1>1
  <2> HIDE DEF at
  <2>2. \A f \in BOOLEAN : at \in Ats(l, f) => i \in 1 .. Len(l) /\ l[i].at = at /\ l[i].isfree = f
    BY <1>0, BlockFound
  <2> QED BY <2>1, <2>2
<1>3. fl \in Seq(HUnits) /\ IsInjective(fl) /\ ToSet(fl) = Ats(l, TRUE) \ {at}
  <2> DEFINE q == h.free_list
  <2>1. q \in Seq(HUnits) /\ IsInjective(q) /\ at \in ToSet(q) /\ ToSet(q) = Ats(l, TRUE)
    BY <1>0, <1>1
  <2> HIDE DEF at, q
  <2>2. Unfree(q, at) \in Seq(HUnits) /\ IsInjective(Unfree(q, at)) /\ ToSet(Unfree(q, at)) = ToSet(q) \ {at}
    BY <2>1, UnfreeIs
  <2> QED BY <2>1, <2>2 DEF q
<1>4. g = [h EXCEPT !.list = Splice(l, i, i + 1, IF rest = 0 THEN <<B>> ELSE <<B, C>>),
                    !.free_list = IF rest = 0 THEN fl ELSE <<at + u>> \o fl]
  BY DEF kheap_alloc, l
<1> HIDE DEF at, i, fl, g
<1>5. /\ l[i] \in HBlocks /\ at \in Nat /\ u \in Nat \ {0} /\ l[i].ulen \in Nat /\ rest \in Nat
      /\ l[i].ulen = u + rest /\ BEnd(l[i]) = at + u + rest /\ at + u + rest <= HeapUnits /\ HeapUnits \in Nat
      /\ i \in Nat /\ i \in DOMAIN l
  <2>1. l[i] \in HBlocks /\ i \in DOMAIN l /\ i \in Nat
    BY <1>0, <1>2
  <2>2. l[i].ulen \in 1..HeapUnits /\ HeapUnits \in Nat
    BY <2>1, HeapAssumption DEF HBlocks
  <2>3. BEnd(l[i]) <= HeapUnits /\ BEnd(l[i]) = at + l[i].ulen
    BY <2>1, <1>0, <1>2 DEF InOrder, BEnd
  <2> QED BY <2>1, <2>2, <2>3, <1>1
<1>6. B \in HBlocks /\ B.at = at /\ B.isfree = FALSE /\ BEnd(B) = at + u /\ BEnd(B) <= HeapUnits
  <2>1. FALSE \in BOOLEAN /\ at + u <= HeapUnits
    BY <1>5
  <2>2. B \in HBlocks /\ B.at = at /\ B.isfree = FALSE /\ BEnd(B) = at + u
    BY <1>1, <2>1, BlockIs
  <2> QED BY <2>1, <2>2
<1>7. Gone(l, i, i + 1) = {at}
  BY <1>5, <1>2, SMTT(30) DEF Gone
<1>8. /\ i + 1 \in i + 1 .. Len(l) + 1 /\ (i + 1) - 1 = i
      /\ H \cup {at} = (H \ {at}) \cup {at}
  <2>1. H \cup {at} = (H \ {at}) \cup {at}
    BY Zenon
  <2>2. i + 1 \in i + 1 .. Len(l) + 1 /\ (i + 1) - 1 = i
    BY <1>0, <1>2
  <2> QED BY <2>1, <2>2
<1>9. CASE rest = 0
  <2> DEFINE mid == <<B>>
  <2>1. /\ mid \in Seq(HBlocks) /\ Len(mid) = 1 /\ mid[1] = B /\ mid # <<>> /\ DOMAIN mid = {1} /\ InOrder(mid)
        /\ Ats(mid, TRUE) = {} /\ Ats(mid, FALSE) = {at}
    BY <1>6, OneBlock
  <2>2. g = [h EXCEPT !.list = Splice(l, i, i + 1, mid), !.free_list = fl]
    BY <1>4, <1>9
  <2> HIDE DEF mid, B
  <2>3. \A k \in DOMAIN mid : l[i].at <= mid[k].at /\ BEnd(mid[k]) <= BEnd(l[(i + 1) - 1])
    <3>1. BEnd(B) = BEnd(l[(i + 1) - 1]) /\ l[i].at = B.at
      BY <1>5, <1>6, <1>8, <1>2, <1>9
    <3>2. BEnd(B) \in Nat /\ B.at \in Nat
      BY <1>5, <1>6
    <3> QED BY <3>1, <3>2, <2>1
  <2>4. /\ ToSet(fl) = (Ats(l, TRUE) \ Gone(l, i, i + 1)) \cup Ats(mid, TRUE)
        /\ H \cup {at} = (Ats(l, FALSE) \ Gone(l, i, i + 1)) \cup Ats(mid, FALSE)
    BY <2>1, <1>3, <1>7, <1>8, <1>0
  <2>5. /\ PageOk(g, H \cup {at}) /\ g.id = h.id
        /\ g.list \in Seq(HBlocks) /\ Spliced(l, i, i + 1, mid, g.list)
    <3>1. SplicesTo(h, l, i, i + 1, mid, fl, H \cup {at}, g)
      BY <2>1, <2>2, <2>3, <2>4, <1>0, <1>2, <1>3, <1>8 DEF SplicesTo
    <3> QED BY <3>1, SplicePage
  <2>6. ASSUME Whole(l) PROVE Whole(g.list)
    <3>1. /\ mid[1].at = l[i].at /\ BEnd(mid[Len(mid)]) = BEnd(l[(i + 1) - 1])
          /\ ~mid[1].isfree /\ ~mid[Len(mid)].isfree
      BY <2>1, <1>2, <1>5, <1>6, <1>8, <1>9
    <3>2. \A k \in 1 .. Len(mid) - 1 : BEnd(mid[k]) = mid[k + 1].at /\ ~(mid[k].isfree /\ mid[k + 1].isfree)
      BY <2>1
    <3> QED BY <3>1, <3>2, <2>1, <2>5, <2>6, <1>0, <1>2, <1>8, SpliceWhole
  <2> QED BY <2>5, <2>6, <1>1 DEF g, l, at
<1>10. CASE rest # 0
  <2> DEFINE mid == <<B, C>>
             nl == <<at + u>> \o fl
  <2>0. C \in HBlocks /\ C.at = at + u /\ C.isfree = TRUE /\ BEnd(C) = at + u + rest /\ BEnd(C) <= HeapUnits
    <3>1. at + u \in 0..HeapUnits /\ rest \in 1..HeapUnits
      BY <1>5, <1>10
    <3> QED BY <3>1, <1>5, BlockIs
  <2>1. /\ mid \in Seq(HBlocks) /\ Len(mid) = 2 /\ mid[1] = B /\ mid[2] = C /\ mid # <<>> /\ DOMAIN mid = {1, 2}
        /\ InOrder(mid) /\ Ats(mid, TRUE) = {at + u} /\ Ats(mid, FALSE) = {at}
    <3> HIDE DEF B, C
    <3>1. BEnd(B) <= C.at
      BY <1>6, <2>0, <1>5
    <3>2. /\ mid \in Seq(HBlocks) /\ Len(mid) = 2 /\ mid[1] = B /\ mid[2] = C /\ mid # <<>> /\ DOMAIN mid = {1, 2}
          /\ InOrder(mid)
          /\ \A f \in BOOLEAN : Ats(mid, f) = (IF B.isfree = f THEN {B.at} ELSE {})
                                                \cup (IF C.isfree = f THEN {C.at} ELSE {})
      BY <3>1, <1>6, <2>0, TwoBlocks
    <3> HIDE DEF mid
    <3> QED BY <3>2, <1>6, <2>0
  <2>2. g = [h EXCEPT !.list = Splice(l, i, i + 1, mid), !.free_list = nl]
    BY <1>4, <1>10
  <2> HIDE DEF mid, B, C
  <2>3. \A k \in DOMAIN mid : l[i].at <= mid[k].at /\ BEnd(mid[k]) <= BEnd(l[(i + 1) - 1])
    BY <2>0, <2>1, <1>5, <1>6, <1>8, <1>2, SMTT(30)
  <2>4. at + u \notin ToSet(fl)
    <3>1. ASSUME at + u \in Ats(l, TRUE) PROVE FALSE
      <4>1. PICK k \in DOMAIN l : l[k].at = at + u
        BY <3>1 DEF Ats
      <4>2. l[k] \in HBlocks /\ k \in Nat
        BY <1>0
      <4>3. l[k].at \in Nat /\ l[k].ulen \in Nat \ {0} /\ BEnd(l[k]) = l[k].at + l[k].ulen
        BY <4>2, HeapAssumption DEF HBlocks, BEnd
      <4>4. k # i
        BY <4>1, <1>2, <1>5
      <4>5. \/ k < i /\ BEnd(l[k]) <= l[i].at
            \/ i < k /\ BEnd(l[i]) <= l[k].at
        <5>0. k \in Nat /\ i \in Nat
          BY <4>2, <1>5
        <5>1. k < i \/ i < k
          BY <5>0, <4>4
        <5>2. \A x, y \in DOMAIN l : x < y => BEnd(l[x]) <= l[y].at
          BY <1>0 DEF InOrder
        <5> QED BY <5>1, <5>2, <1>5
      <4>6. rest > 0
        BY <1>5, <1>10
      <4> QED BY <4>1, <4>3, <4>5, <4>6, <1>2, <1>5, SMTT(30)
    <3> QED BY <3>1, <1>3
  <2>5. nl \in Seq(HUnits) /\ IsInjective(nl) /\ ToSet(nl) = ToSet(fl) \cup {at + u}
    <3>1. at + u \in HUnits
      BY <1>5 DEF HUnits
    <3> QED BY <3>1, <2>4, <1>3, PushFront
  <2> HIDE DEF nl
  <2>6. /\ ToSet(nl) = (Ats(l, TRUE) \ Gone(l, i, i + 1)) \cup Ats(mid, TRUE)
        /\ H \cup {at} = (Ats(l, FALSE) \ Gone(l, i, i + 1)) \cup Ats(mid, FALSE)
    BY <2>1, <2>5, <1>3, <1>7, <1>8, <1>0
  <2>7. /\ PageOk(g, H \cup {at}) /\ g.id = h.id
        /\ g.list \in Seq(HBlocks) /\ Spliced(l, i, i + 1, mid, g.list)
    <3>1. SplicesTo(h, l, i, i + 1, mid, nl, H \cup {at}, g)
      BY <2>1, <2>2, <2>3, <2>5, <2>6, <1>0, <1>2, <1>8 DEF SplicesTo
    <3> QED BY <3>1, SplicePage
  <2>8. ASSUME Whole(l) PROVE Whole(g.list)
    <3>1. /\ mid[1].at = l[i].at /\ BEnd(mid[Len(mid)]) = BEnd(l[(i + 1) - 1]) /\ ~mid[1].isfree
      BY <2>0, <2>1, <1>2, <1>5, <1>6, <1>8
    <3>2. \A k \in 1 .. Len(mid) - 1 : BEnd(mid[k]) = mid[k + 1].at /\ ~(mid[k].isfree /\ mid[k + 1].isfree)
      <4>1. BEnd(mid[1]) = mid[2].at
        BY <2>0, <2>1, <1>6
      <4>2. 1 .. Len(mid) - 1 = {1}
        BY <2>1
      <4>3. BEnd(mid[1]) = mid[1 + 1].at /\ ~(mid[1].isfree /\ mid[1 + 1].isfree)
        BY <4>1, <3>1
      <4> QED BY <4>2, <4>3
    <3>3. i + 1 <= Len(l) => ~l[i + 1].isfree
      <4> SUFFICES ASSUME i + 1 <= Len(l) PROVE ~l[i + 1].isfree
        OBVIOUS
      <4>1. i \in 1 .. Len(l) - 1
        BY <1>0, <1>2
      <4>2. ~(l[i].isfree /\ l[i + 1].isfree)
        BY <4>1, <2>8 DEF Whole
      <4> QED BY <4>2, <1>2
    <3> QED BY <3>1, <3>2, <3>3, <2>1, <2>7, <2>8, <1>0, <1>2, <1>8, SpliceWhole
  <2> QED BY <2>7, <2>8, <1>1 DEF g, l, at
<1> QED BY <1>9, <1>10

(* The block at `at' of the list l with the free block behind it, if there *)
(* is one, when the free list loses that one.                              *)
Behind(l, H, at, i, j, ulen, fl) ==
  /\ i \in 1 .. Len(l) /\ l[i].at = at /\ l[i].isfree = FALSE
  /\ j \in i + 1 .. Len(l) + 1 /\ ulen \in 1..HeapUnits /\ at + ulen <= BEnd(l[j - 1])
  /\ fl \in Seq(HUnits) /\ IsInjective(fl)
  /\ ToSet(fl) = Ats(l, TRUE) \ Gone(l, i, j)
  /\ H \ {at} = H \ Gone(l, i, j) /\ at \in Gone(l, i, j)
  /\ Whole(l) => at + ulen = BEnd(l[j - 1]) /\ (j <= Len(l) => ~l[j].isfree)

LEMMA BlockBounds ==
  ASSUME NEW l \in Seq(HBlocks), InOrder(l), NEW i \in 1 .. Len(l)
  PROVE  /\ l[i].at \in 0..HeapUnits /\ l[i].ulen \in 1..HeapUnits /\ l[i].isfree \in BOOLEAN
         /\ BEnd(l[i]) = l[i].at + l[i].ulen /\ BEnd(l[i]) <= HeapUnits
         /\ \A k \in 1 .. Len(l) : i < k => BEnd(l[i]) <= l[k].at
<1>1. i \in DOMAIN l /\ l[i] \in HBlocks /\ DOMAIN l = 1 .. Len(l)
  OBVIOUS
<1>2. /\ l[i].at \in 0..HeapUnits /\ l[i].ulen \in 1..HeapUnits /\ l[i].isfree \in BOOLEAN
      /\ BEnd(l[i]) = l[i].at + l[i].ulen
  BY <1>1 DEF HBlocks, BEnd
<1> QED BY <1>1, <1>2 DEF InOrder

LEMMA BehindIs ==
  ASSUME NEW h, NEW H, PageOk(h, H), NEW at \in H, NEW l, l = h.list, NEW i, i = BlockAt(h, at),
         NEW nfree \in BOOLEAN, nfree <=> (i < Len(l) /\ l[i + 1].isfree)
  PROVE  Behind(l, H, at, i, IF nfree THEN i + 2 ELSE i + 1,
                l[i].ulen + (IF nfree THEN l[i + 1].ulen ELSE 0),
                IF nfree THEN Unfree(h.free_list, l[i + 1].at) ELSE h.free_list)
<1>0. /\ h \in HPages /\ InOrder(l) /\ l \in Seq(HBlocks) /\ Len(l) \in Nat /\ DOMAIN l = 1 .. Len(l)
      /\ h.free_list \in Seq(HUnits) /\ IsInjective(h.free_list)
      /\ ToSet(h.free_list) = Ats(l, TRUE) /\ H = Ats(l, FALSE)
  BY DEF PageOk, HPages
<1>1. i \in 1 .. Len(l) /\ l[i].at = at /\ l[i].isfree = FALSE
  <2>1. \A f \in BOOLEAN : at \in Ats(l, f) => i \in 1 .. Len(l) /\ l[i].at = at /\ l[i].isfree = f
    BY <1>0, BlockFound
  <2>2. at \in Ats(l, FALSE)
    BY <1>0
  <2> QED BY <2>1, <2>2
<1>2. /\ at \in 0..HeapUnits /\ l[i].ulen \in 1..HeapUnits /\ BEnd(l[i]) = at + l[i].ulen
      /\ BEnd(l[i]) <= HeapUnits /\ i \in Nat /\ HeapUnits \in Nat
  BY <1>0, <1>1, BlockBounds, HeapAssumption
<1>3. \A k \in DOMAIN l, f \in BOOLEAN : l[k].at \in Ats(l, f) <=> l[k].isfree = f
  BY <1>0, AtsApart
<1>4. CASE ~nfree
  <2>1. Gone(l, i, i + 1) = {at}
    <3>1. i .. (i + 1) - 1 = {i}
      BY <1>2
    <3> QED BY <3>1, <1>1 DEF Gone
  <2>2. at \notin Ats(l, TRUE)
    <3>1. i \in DOMAIN l
      BY <1>0, <1>1
    <3> QED BY <3>1, <1>1, <1>3
  <2>3. i + 1 <= Len(l) => ~l[i + 1].isfree
    <3>1. i + 1 <= Len(l) => i < Len(l)
      BY <1>0, <1>2
    <3> QED BY <3>1, <1>4
  <2>4. /\ i + 1 \in i + 1 .. Len(l) + 1 /\ (i + 1) - 1 = i /\ l[i].ulen + 0 = l[i].ulen
    BY <1>0, <1>1, <1>2
  <2>5. /\ ToSet(h.free_list) = Ats(l, TRUE) \ Gone(l, i, i + 1)
        /\ H \ {at} = H \ Gone(l, i, i + 1) /\ at \in Gone(l, i, i + 1)
    BY <2>1, <2>2, <1>0
  <2>7. BEnd(l[(i + 1) - 1]) = at + l[i].ulen /\ at + l[i].ulen <= BEnd(l[(i + 1) - 1])
    BY <2>4, <1>2
  <2>6. Behind(l, H, at, i, i + 1, l[i].ulen, h.free_list)
    BY <2>3, <2>4, <2>5, <2>7, <1>0, <1>1, <1>2 DEF Behind
  <2> QED BY <1>4, <2>4, <2>6
<1>5. CASE nfree
  <2> DEFINE n == l[i + 1]
             fl == Unfree(h.free_list, n.at)
  <2>1. i + 1 \in 1 .. Len(l) /\ n.isfree
    <3>1. i < Len(l) /\ l[i + 1].isfree
      BY <1>5
    <3> QED BY <3>1, <1>0, <1>2
  <2>2. /\ n.at \in 0..HeapUnits /\ n.ulen \in 1..HeapUnits /\ BEnd(n) = n.at + n.ulen /\ BEnd(n) <= HeapUnits
        /\ BEnd(l[i]) <= n.at /\ n.isfree = TRUE
    <3>1. i < i + 1
      BY <1>2
    <3> QED BY <2>1, <3>1, <1>0, <1>1, BlockBounds
  <2>3. n.at \in Ats(l, TRUE) /\ n.at \notin Ats(l, FALSE) /\ at \notin Ats(l, TRUE)
    <3>1. i \in DOMAIN l /\ i + 1 \in DOMAIN l
      BY <1>0, <1>1, <2>1
    <3> QED BY <3>1, <1>1, <2>2, <1>3
  <2> HIDE DEF n
  <2>4. Gone(l, i, i + 2) = {at, n.at}
    <3>1. i .. (i + 2) - 1 = {i, i + 1}
      BY <1>2
    <3> QED BY <3>1, <1>1 DEF Gone, n
  <2>5. fl \in Seq(HUnits) /\ IsInjective(fl) /\ ToSet(fl) = Ats(l, TRUE) \ {n.at}
    <3> DEFINE q == h.free_list
    <3>1. q \in Seq(HUnits) /\ IsInjective(q) /\ n.at \in ToSet(q) /\ ToSet(q) = Ats(l, TRUE)
      BY <1>0, <2>3
    <3> HIDE DEF q
    <3>2. \A x \in ToSet(q) : Unfree(q, x) \in Seq(HUnits) /\ IsInjective(Unfree(q, x)) /\ ToSet(Unfree(q, x)) = ToSet(q) \ {x}
      BY <3>1, UnfreeIs
    <3> QED BY <3>1, <3>2 DEF q
  <2> HIDE DEF fl
  <2>6. /\ i + 2 \in i + 1 .. Len(l) + 1 /\ (i + 2) - 1 = i + 1
        /\ l[i].ulen + n.ulen \in 1..HeapUnits /\ at + (l[i].ulen + n.ulen) <= BEnd(n)
    <3>1. i + 2 \in i + 1 .. Len(l) + 1 /\ (i + 2) - 1 = i + 1
      BY <1>0, <1>2, <2>1
    <3> DEFINE u == l[i].ulen
               v == n.ulen
               w == n.at
               e == BEnd(n)
    <3>2. /\ u \in 1..HeapUnits /\ v \in 1..HeapUnits /\ w \in 0..HeapUnits /\ e = w + v /\ e <= HeapUnits
          /\ at + u <= w /\ at \in 0..HeapUnits /\ HeapUnits \in Nat
      BY <1>2, <2>2
    <3> HIDE DEF u, v, w, e
    <3>3. u + v \in 1..HeapUnits /\ at + (u + v) <= e
      BY <3>2
    <3> QED BY <3>1, <3>3 DEF u, v, w, e
  <2>7. ASSUME Whole(l) PROVE at + (l[i].ulen + n.ulen) = BEnd(n) /\ (i + 2 <= Len(l) => ~l[i + 2].isfree)
    <3>1. BEnd(l[i]) = n.at
      <4>1. i \in 1 .. Len(l) - 1
        BY <2>1, <1>0, <1>1
      <4> QED BY <4>1, <2>7 DEF Whole, n
    <3>2. i + 2 <= Len(l) => ~l[i + 2].isfree
      <4> SUFFICES ASSUME i + 2 <= Len(l) PROVE ~l[i + 2].isfree
        OBVIOUS
      <4>1. i + 1 \in 1 .. Len(l) - 1 /\ (i + 1) + 1 = i + 2
        BY <2>1, <1>0, <1>1
      <4>2. ~(l[i + 1].isfree /\ l[(i + 1) + 1].isfree)
        BY <4>1, <2>7 DEF Whole
      <4> QED BY <4>1, <4>2, <2>1 DEF n
    <3>3. at + (l[i].ulen + n.ulen) = BEnd(n)
      <4> DEFINE u == l[i].ulen
                 v == n.ulen
      <4>1. u \in Int /\ v \in Int /\ at \in Int /\ at + u = n.at /\ BEnd(n) = n.at + v
        <5>1. u \in 1..HeapUnits /\ v \in 1..HeapUnits /\ at \in 0..HeapUnits /\ HeapUnits \in Nat
          BY <1>2, <2>2
        <5>2. at + u = n.at /\ BEnd(n) = n.at + v
          BY <3>1, <1>2, <2>2
        <5> HIDE DEF u, v
        <5> QED BY <5>1, <5>2
      <4> HIDE DEF u, v
      <4>2. at + (u + v) = BEnd(n)
        BY <4>1
      <4> QED BY <4>2 DEF u, v
    <3> QED BY <3>2, <3>3
  <2>8. /\ ToSet(fl) = Ats(l, TRUE) \ Gone(l, i, i + 2)
        /\ H \ {at} = H \ Gone(l, i, i + 2) /\ at \in Gone(l, i, i + 2)
    BY <2>3, <2>4, <2>5, <1>0
  <2>9. Behind(l, H, at, i, i + 2, l[i].ulen + n.ulen, fl)
    BY <2>5, <2>6, <2>7, <2>8, <1>1 DEF Behind, n
  <2> QED BY <1>5, <2>9 DEF n, fl
<1> QED BY <1>4, <1>5

LEMMA FreeKeeps ==
  ASSUME NEW h, NEW H, PageOk(h, H), NEW at \in H, NEW last \in BOOLEAN
  PROVE  /\ PageOk(kheap_free(h, at, last), H \ {at})
         /\ kheap_free(h, at, last).id = h.id
         /\ last /\ Whole(h.list) => Whole(kheap_free(h, at, last).list)
<1> DEFINE l == h.list
           i == BlockAt(h, at)
           nfree == i < Len(l) /\ l[i + 1].isfree
           ulen == l[i].ulen + IF nfree THEN l[i + 1].ulen ELSE 0
           j == IF nfree THEN i + 2 ELSE i + 1
           fl == IF nfree THEN Unfree(h.free_list, l[i + 1].at) ELSE h.free_list
           pfree == IF i = 1 THEN ~last ELSE l[i - 1].isfree
           p == l[i - 1]
           g == kheap_free(h, at, last)
           B == Block(at, ulen, TRUE)
           C == Block(p.at, p.ulen + ulen, TRUE)
<1>0. /\ h \in HPages /\ InOrder(l) /\ l \in Seq(HBlocks) /\ Len(l) \in Nat /\ DOMAIN l = 1 .. Len(l)
      /\ H = Ats(l, FALSE) /\ l = h.list
  BY DEF PageOk, HPages
<1>1. Behind(l, H, at, i, j, ulen, fl)
  BY BehindIs
<1>2. g = IF ~pfree
          THEN [h EXCEPT !.list = Splice(l, i, j, <<B>>), !.free_list = <<at>> \o fl]
          ELSE IF i = 1
          THEN [h EXCEPT !.list = Splice(l, 1, j, <<>>), !.free_list = fl]
          ELSE [h EXCEPT !.list = Splice(l, i - 1, j, <<C>>), !.free_list = fl]
  BY DEF kheap_free
<1> HIDE DEF l, i, nfree, ulen, j, fl, g
<1>3. /\ i \in 1 .. Len(l) /\ l[i].at = at /\ l[i].isfree = FALSE
      /\ j \in i + 1 .. Len(l) + 1 /\ ulen \in 1..HeapUnits /\ at + ulen <= BEnd(l[j - 1])
      /\ fl \in Seq(HUnits) /\ IsInjective(fl)
      /\ ToSet(fl) = Ats(l, TRUE) \ Gone(l, i, j)
      /\ H \ {at} = H \ Gone(l, i, j) /\ at \in Gone(l, i, j)
      /\ Whole(l) => at + ulen = BEnd(l[j - 1]) /\ (j <= Len(l) => ~l[j].isfree)
  BY <1>1 DEF Behind
<1>4. /\ at \in 0..HeapUnits /\ BEnd(l[j - 1]) <= HeapUnits /\ BEnd(l[j - 1]) \in Nat /\ HeapUnits \in Nat
      /\ i \in Nat /\ j \in Nat /\ j - 1 \in 1 .. Len(l) /\ i <= j - 1 /\ ulen \in Nat
  <2>1. i \in Nat /\ j \in Nat /\ j - 1 \in 1 .. Len(l) /\ i <= j - 1 /\ HeapUnits \in Nat /\ ulen \in Nat
    BY <1>0, <1>3, HeapAssumption
  <2>2. l[i].at \in 0..HeapUnits
    BY <1>0, <1>3, BlockBounds
  <2>3. /\ BEnd(l[j - 1]) = l[j - 1].at + l[j - 1].ulen /\ BEnd(l[j - 1]) <= HeapUnits
        /\ l[j - 1].at \in 0..HeapUnits /\ l[j - 1].ulen \in 1..HeapUnits
    BY <1>0, <2>1, BlockBounds
  <2> QED BY <2>1, <2>2, <2>3, <1>3, SMTT(30)
<1>5. CASE ~pfree
  <2>1. B \in HBlocks /\ B.at = at /\ B.isfree = TRUE /\ BEnd(B) = at + ulen /\ BEnd(B) <= HeapUnits
    <3>1. B \in HBlocks /\ B.at = at /\ B.isfree = TRUE /\ BEnd(B) = at + ulen
      BY <1>3, <1>4, BlockIs
    <3>2. at + ulen <= HeapUnits
      BY <1>3, <1>4
    <3> QED BY <3>1, <3>2
  <2> DEFINE mid == <<B>>
             nl == <<at>> \o fl
  <2> HIDE DEF B
  <2>2. /\ mid \in Seq(HBlocks) /\ Len(mid) = 1 /\ mid[1] = B /\ mid # <<>> /\ DOMAIN mid = {1} /\ InOrder(mid)
        /\ Ats(mid, TRUE) = {at} /\ Ats(mid, FALSE) = {}
    BY <2>1, OneBlock
  <2>3. g = [h EXCEPT !.list = Splice(l, i, j, mid), !.free_list = nl]
    BY <1>2, <1>5
  <2> HIDE DEF mid
  <2>4. nl \in Seq(HUnits) /\ IsInjective(nl) /\ ToSet(nl) = ToSet(fl) \cup {at}
    <3>1. at \in HUnits /\ at \notin ToSet(fl)
      BY <1>3, <1>4 DEF HUnits
    <3>2. fl \in Seq(HUnits) /\ IsInjective(fl)
      BY <1>3
    <3> QED BY <3>1, <3>2, PushFront
  <2> HIDE DEF nl
  <2>5. \A k \in DOMAIN mid : l[i].at <= mid[k].at /\ BEnd(mid[k]) <= BEnd(l[j - 1])
    BY <2>1, <2>2, <1>3, <1>4
  <2>6. /\ ToSet(nl) = (Ats(l, TRUE) \ Gone(l, i, j)) \cup Ats(mid, TRUE)
        /\ H \ {at} = (Ats(l, FALSE) \ Gone(l, i, j)) \cup Ats(mid, FALSE)
    BY <2>2, <2>4, <1>0, <1>3
  <2>7. /\ PageOk(g, H \ {at}) /\ g.id = h.id
        /\ g.list \in Seq(HBlocks) /\ Spliced(l, i, j, mid, g.list)
    <3>1. SplicesTo(h, l, i, j, mid, nl, H \ {at}, g)
      BY <2>2, <2>3, <2>4, <2>5, <2>6, <1>0, <1>3 DEF SplicesTo
    <3> QED BY <3>1, SplicePage
  <2>8. ASSUME Whole(l) PROVE Whole(g.list)
    <3>1. mid[1].at = l[i].at /\ BEnd(mid[Len(mid)]) = BEnd(l[j - 1])
      BY <2>1, <2>2, <2>8, <1>3
    <3>2. \A k \in 1 .. Len(mid) - 1 : BEnd(mid[k]) = mid[k + 1].at /\ ~(mid[k].isfree /\ mid[k + 1].isfree)
      BY <2>2
    <3>3. i > 1 => ~l[i - 1].isfree
      BY <1>5, <1>4
    <3>4. j <= Len(l) => ~l[j].isfree
      BY <1>3, <2>8
    <3> QED BY <3>1, <3>2, <3>3, <3>4, <2>2, <2>7, <2>8, <1>0, <1>3, SpliceWhole
  <2> QED BY <2>7, <2>8 DEF g, l
<1>6. CASE pfree /\ i = 1
  <2> DEFINE mid == <<>>
  <2>1. /\ mid \in Seq(HBlocks) /\ DOMAIN mid = {} /\ InOrder(mid)
        /\ Ats(mid, TRUE) = {} /\ Ats(mid, FALSE) = {}
    <3>1. mid \in Seq(HBlocks) /\ DOMAIN mid = {}
      OBVIOUS
    <3> HIDE DEF mid
    <3> QED BY <3>1 DEF InOrder, Ats
  <2>2. g = [h EXCEPT !.list = Splice(l, i, j, mid), !.free_list = fl]
    BY <1>2, <1>6
  <2> HIDE DEF mid
  <2>3. /\ ToSet(fl) = (Ats(l, TRUE) \ Gone(l, i, j)) \cup Ats(mid, TRUE)
        /\ H \ {at} = (Ats(l, FALSE) \ Gone(l, i, j)) \cup Ats(mid, FALSE)
    BY <2>1, <1>0, <1>3
  <2>4. SplicesTo(h, l, i, j, mid, fl, H \ {at}, g)
    BY <2>1, <2>2, <2>3, <1>0, <1>3 DEF SplicesTo
  <2>5. PageOk(g, H \ {at}) /\ g.id = h.id
    BY <2>4, SplicePage
  <2>6. ~last
    BY <1>6
  <2> QED BY <2>5, <2>6 DEF g
<1>7. CASE pfree /\ i # 1
  <2>0. /\ i - 1 \in 1 .. Len(l) /\ p.isfree /\ i > 1 /\ i - 1 \in Nat /\ (i - 1) + 1 = i
        /\ j \in (i - 1) + 1 .. Len(l) + 1
    BY <1>7, <1>3, <1>4, <1>0
  <2>1. /\ p.at \in 0..HeapUnits /\ p.ulen \in 1..HeapUnits /\ BEnd(p) = p.at + p.ulen /\ BEnd(p) <= at
        /\ p.isfree = TRUE
    <3>1. i - 1 < i
      BY <1>4
    <3> QED BY <3>1, <2>0, <1>0, <1>3, BlockBounds
  <2>2. /\ p.ulen + ulen \in 1..HeapUnits /\ p.at + (p.ulen + ulen) <= BEnd(l[j - 1])
        /\ p.at + (p.ulen + ulen) <= HeapUnits
    <3> DEFINE x == p.at
               y == p.ulen
               e == BEnd(l[j - 1])
    <3>1. /\ x \in 0..HeapUnits /\ y \in 1..HeapUnits /\ x + y <= at /\ at \in 0..HeapUnits
          /\ ulen \in 1..HeapUnits /\ at + ulen <= e /\ e <= HeapUnits /\ e \in Nat /\ HeapUnits \in Nat
      BY <2>1, <1>3, <1>4
    <3> HIDE DEF x, y, e
    <3>2. y + ulen \in 1..HeapUnits /\ x + (y + ulen) <= e /\ x + (y + ulen) <= HeapUnits
      BY <3>1
    <3> QED BY <3>2 DEF x, y, e
  <2>3. /\ C \in HBlocks /\ C.at = p.at /\ C.isfree = TRUE /\ BEnd(C) = p.at + (p.ulen + ulen)
        /\ BEnd(C) <= HeapUnits
    <3>1. C \in HBlocks /\ C.at = p.at /\ C.isfree = TRUE /\ BEnd(C) = p.at + (p.ulen + ulen)
      BY <2>1, <2>2, BlockIs
    <3> QED BY <3>1, <2>2
  <2> DEFINE mid == <<C>>
  <2> HIDE DEF C
  <2>4. /\ mid \in Seq(HBlocks) /\ Len(mid) = 1 /\ mid[1] = C /\ mid # <<>> /\ DOMAIN mid = {1} /\ InOrder(mid)
        /\ Ats(mid, TRUE) = {p.at} /\ Ats(mid, FALSE) = {}
    BY <2>3, OneBlock
  <2>5. g = [h EXCEPT !.list = Splice(l, i - 1, j, mid), !.free_list = fl]
    BY <1>2, <1>7
  <2> HIDE DEF mid
  <2>6. \A k \in DOMAIN mid : l[i - 1].at <= mid[k].at /\ BEnd(mid[k]) <= BEnd(l[j - 1])
    BY <2>1, <2>2, <2>3, <2>4
  <2>7. Gone(l, i - 1, j) = Gone(l, i, j) \cup {p.at}
    <3>1. (i - 1) .. j - 1 = (i .. j - 1) \cup {i - 1}
      BY <1>4, <2>0
    <3> QED BY <3>1 DEF Gone
  <2>8. p.at \in Ats(l, TRUE) /\ p.at \notin Ats(l, FALSE)
    <3>1. \A k \in DOMAIN l, f \in BOOLEAN : l[k].at \in Ats(l, f) <=> l[k].isfree = f
      BY <1>0, AtsApart
    <3>2. i - 1 \in DOMAIN l
      BY <1>0, <2>0
    <3> QED BY <3>1, <3>2, <2>1
  <2>9. p.at \notin Gone(l, i, j)
    <3>1. ASSUME NEW k \in i .. j - 1, p.at = l[k].at PROVE FALSE
      <4>1. k \in DOMAIN l /\ i - 1 \in DOMAIN l /\ k # i - 1
        BY SMTT(30), <1>0, <1>3, <1>4, <2>0
      <4> QED BY <4>1, <3>1, <1>0, AtsApart
    <3> QED BY <3>1 DEF Gone
  <2>10. /\ ToSet(fl) = (Ats(l, TRUE) \ Gone(l, i - 1, j)) \cup Ats(mid, TRUE)
         /\ H \ {at} = (Ats(l, FALSE) \ Gone(l, i - 1, j)) \cup Ats(mid, FALSE)
    <3> DEFINE x == p.at
               G == Gone(l, i, j)
    <3>1. /\ Ats(mid, TRUE) = {x} /\ Ats(mid, FALSE) = {} /\ Gone(l, i - 1, j) = G \cup {x}
          /\ x \in Ats(l, TRUE) /\ x \notin Ats(l, FALSE) /\ x \notin G
          /\ ToSet(fl) = Ats(l, TRUE) \ G /\ H \ {at} = Ats(l, FALSE) \ G
      BY <2>4, <2>7, <2>8, <2>9, <1>0, <1>3
    <3> HIDE DEF x, G
    <3>2. ToSet(fl) = (Ats(l, TRUE) \ (G \cup {x})) \cup {x}
      BY <3>1
    <3>3. H \ {at} = (Ats(l, FALSE) \ (G \cup {x})) \cup {}
      BY <3>1
    <3> QED BY <3>1, <3>2, <3>3
  <2>11. /\ PageOk(g, H \ {at}) /\ g.id = h.id
         /\ g.list \in Seq(HBlocks) /\ Spliced(l, i - 1, j, mid, g.list)
    <3>1. SplicesTo(h, l, i - 1, j, mid, fl, H \ {at}, g)
      BY <2>0, <2>4, <2>5, <2>6, <2>10, <1>0, <1>3 DEF SplicesTo
    <3> QED BY <3>1, SplicePage
  <2>12. ASSUME Whole(l) PROVE Whole(g.list)
    <3>0. BEnd(p) = at
      <4>1. i - 1 \in 1 .. Len(l) - 1
        BY <2>0, <1>0, <1>3
      <4> QED BY <4>1, <2>0, <2>12, <1>3 DEF Whole
    <3>1. mid[1].at = l[i - 1].at /\ BEnd(mid[Len(mid)]) = BEnd(l[j - 1])
      BY <3>0, <2>1, <2>3, <2>4, <2>12, <1>3, <1>4, SMTT(30)
    <3>2. \A k \in 1 .. Len(mid) - 1 : BEnd(mid[k]) = mid[k + 1].at /\ ~(mid[k].isfree /\ mid[k + 1].isfree)
      BY <2>4
    <3>3. i - 1 > 1 => ~l[(i - 1) - 1].isfree
      <4> SUFFICES ASSUME i - 1 > 1 PROVE ~l[(i - 1) - 1].isfree
        OBVIOUS
      <4>1. (i - 1) - 1 \in 1 .. Len(l) - 1 /\ ((i - 1) - 1) + 1 = i - 1
        BY SMTT(30), <2>0, <1>0, <1>3
      <4>2. ~(l[(i - 1) - 1].isfree /\ l[((i - 1) - 1) + 1].isfree)
        BY <4>1, <2>12 DEF Whole
      <4> QED BY <4>1, <4>2, <2>1
    <3>4. j <= Len(l) => ~l[j].isfree
      BY <1>3, <2>12
    <3> QED BY <3>1, <3>2, <3>3, <3>4, <2>0, <2>4, <2>11, <2>12, <1>0, SpliceWhole
  <2> QED BY <2>11, <2>12 DEF g, l
<1> QED BY <1>5, <1>6, <1>7

(* The pages, newest first, are numbered from the oldest; the held blocks  *)
(* of a page are its blocks that are not free; the oldest page is whole.   *)
Held(hh, id) == {b[2] : b \in {x \in hh : x[1] = id}}
HeapInv ==
  /\ kheaps \in Seq(HPages)
  /\ \A b \in hheld : b \in Nat \X HUnits /\ b[1] < Len(kheaps)
  /\ \A j \in DOMAIN kheaps : kheaps[j].id = Len(kheaps) - j /\ PageOk(kheaps[j], Held(hheld, kheaps[j].id))
  /\ kheaps # <<>> => Whole(kheaps[Len(kheaps)].list)

LEMMA HeldMore ==
  ASSUME NEW hh, NEW b
  PROVE  /\ Held(hh \cup {b}, b[1]) = Held(hh, b[1]) \cup {b[2]}
         /\ \A o : o # b[1] => Held(hh \cup {b}, o) = Held(hh, o)
<1>1. Held(hh \cup {b}, b[1]) = Held(hh, b[1]) \cup {b[2]}
  BY DEF Held
<1>2. \A o : o # b[1] => Held(hh \cup {b}, o) = Held(hh, o)
  BY DEF Held
<1> QED BY <1>1, <1>2

LEMMA HeldLess ==
  ASSUME NEW hh, \A x \in hh : x \in Nat \X HUnits, NEW b \in hh
  PROVE  /\ Held(hh \ {b}, b[1]) = Held(hh, b[1]) \ {b[2]} /\ b[2] \in Held(hh, b[1])
         /\ \A o : o # b[1] => Held(hh \ {b}, o) = Held(hh, o)
<1>1. \A x \in hh : x[1] = b[1] /\ x[2] = b[2] => x = b
  OBVIOUS
<1>2. Held(hh \ {b}, b[1]) = Held(hh, b[1]) \ {b[2]}
  BY <1>1 DEF Held
<1>3. b[2] \in Held(hh, b[1])
  BY DEF Held
<1>4. \A o : o # b[1] => Held(hh \ {b}, o) = Held(hh, o)
  BY DEF Held
<1> QED BY <1>2, <1>3, <1>4

(* A page of the heap changes with what is held of it, and no other.       *)
LEMMA PageChanges ==
  ASSUME HeapInv, NEW j \in DOMAIN kheaps, NEW g, g.id = kheaps[j].id,
         kheaps' = [kheaps EXCEPT ![j] = g], PageOk(g, Held(hheld', g.id)),
         \A o : o # g.id => Held(hheld', o) = Held(hheld, o),
         \A b \in hheld' : b \in Nat \X HUnits /\ b[1] < Len(kheaps),
         j = Len(kheaps) /\ Whole(kheaps[j].list) => Whole(g.list)
  PROVE  HeapInv'
<1>1. /\ kheaps \in Seq(HPages) /\ Len(kheaps) \in Nat /\ DOMAIN kheaps = 1 .. Len(kheaps)
      /\ \A k \in DOMAIN kheaps : kheaps[k].id = Len(kheaps) - k /\ PageOk(kheaps[k], Held(hheld, kheaps[k].id))
      /\ kheaps # <<>> => Whole(kheaps[Len(kheaps)].list)
  BY DEF HeapInv
<1>2. g \in HPages
  BY DEF PageOk
<1>3. kheaps' \in Seq(HPages) /\ Len(kheaps') = Len(kheaps) /\ DOMAIN kheaps' = DOMAIN kheaps
  BY <1>1, <1>2
<1>4. kheaps'[j] = g /\ \A k \in DOMAIN kheaps : k # j => kheaps'[k] = kheaps[k]
  BY <1>1
<1>5. ASSUME NEW k \in DOMAIN kheaps
      PROVE  kheaps'[k].id = Len(kheaps) - k /\ PageOk(kheaps'[k], Held(hheld', kheaps'[k].id))
  <2>1. CASE k = j
    BY <2>1, <1>1, <1>4
  <2>2. CASE k # j
    <3>1. kheaps[k].id # g.id
      BY <2>2, <1>1
    <3> QED BY <2>2, <3>1, <1>1, <1>4
  <2> QED BY <2>1, <2>2
<1>6. Whole(kheaps'[Len(kheaps)].list)
  <2>1. kheaps # <<>> /\ Len(kheaps) \in DOMAIN kheaps
    BY <1>1
  <2> QED BY <2>1, <1>1, <1>4
<1> QED BY <1>3, <1>5, <1>6 DEF HeapInv

LEMMA NewPage ==
  ASSUME NEW id \in Nat, NEW u \in 1..HeapUnits
  PROVE  /\ PageOk(kheap_add(id), {}) /\ kheap_add(id).id = id /\ Whole(kheap_add(id).list)
         /\ Fitting(kheap_add(id), u) # {} /\ FirstFit(kheap_add(id), u) = 0
<1> DEFINE h == kheap_add(id)
           B == Block(0, HeapUnits, TRUE)
<1>0. HeapUnits \in Nat \ {0} /\ 0 \in 0..HeapUnits /\ HeapUnits \in 1..HeapUnits
  BY HeapAssumption
<1>1. B \in HBlocks /\ B.at = 0 /\ B.isfree = TRUE /\ BEnd(B) = HeapUnits /\ B.ulen = HeapUnits
  BY <1>0 DEF Block, HBlocks, BEnd
<1>2. h.id = id /\ h.list = <<B>> /\ h.free_list = <<0>> /\ h = [id |-> id, list |-> <<B>>, free_list |-> <<0>>]
  BY DEF kheap_add
<1> HIDE DEF h, B
<1>3. /\ <<B>> \in Seq(HBlocks) /\ Len(<<B>>) = 1 /\ <<B>>[1] = B /\ <<B>> # <<>> /\ DOMAIN <<B>> = {1}
      /\ InOrder(<<B>>) /\ Ats(<<B>>, TRUE) = {0} /\ Ats(<<B>>, FALSE) = {}
  <2>1. BEnd(B) <= HeapUnits
    BY <1>0, <1>1
  <2>2. /\ <<B>> \in Seq(HBlocks) /\ Len(<<B>>) = 1 /\ <<B>>[1] = B /\ <<B>> # <<>> /\ DOMAIN <<B>> = {1}
        /\ InOrder(<<B>>) /\ \A f \in BOOLEAN : Ats(<<B>>, f) = IF B.isfree = f THEN {B.at} ELSE {}
    BY <2>1, <1>1, OneBlock
  <2> QED BY <2>2, <1>1
<1>4. /\ <<0>> \in Seq(HUnits) /\ IsInjective(<<0>>) /\ ToSet(<<0>>) = {0} /\ DOMAIN <<0>> = {1} /\ <<0>>[1] = 0
  BY <1>0 DEF HUnits, IsInjective, ToSet
<1>5. PageOk(h, {})
  BY <1>2, <1>3, <1>4 DEF PageOk, HPages
<1>6. Whole(h.list)
  <2>1. 1 .. Len(<<B>>) - 1 = {}
    BY <1>3
  <2> QED BY <2>1, <1>1, <1>2, <1>3 DEF Whole
<1>7. BlockAt(h, 0) = 1
  BY <1>1, <1>2, <1>3 DEF BlockAt
<1>8. Fitting(h, u) = {1}
  <2>1. HeapUnits >= u
    BY <1>0
  <2>2. h.list[BlockAt(h, h.free_list[1])].ulen = HeapUnits /\ DOMAIN h.free_list = {1}
    BY <1>1, <1>2, <1>3, <1>4, <1>7
  <2> QED BY <2>1, <2>2 DEF Fitting
<1>9. FirstFit(h, u) = 0
  <2>1. {1} \in SUBSET Nat /\ {1} # {}
    OBVIOUS
  <2>2. Min(Fitting(h, u)) \in {1}
    BY <1>8, <2>1, LeastNatural
  <2> QED BY <2>2, <1>2, <1>4 DEF FirstFit
<1> QED BY <1>2, <1>5, <1>6, <1>8, <1>9 DEF h

LEMMA HeapAllocKeeps ==
  ASSUME HeapInv, NEW size \in HeapSizes, HeapAlloc(size)
  PROVE  HeapInv'
<1> DEFINE u == size + 1
           fit == {j \in DOMAIN kheaps : Fitting(kheaps[j], u) # {}}
           m == CHOOSE j \in fit : \A l \in fit : j <= l
           h == kheap_add(Len(kheaps))
<1>0. u \in 1..HeapUnits
  BY HeapAssumption
<1>1. /\ kheaps \in Seq(HPages) /\ Len(kheaps) \in Nat /\ DOMAIN kheaps = 1 .. Len(kheaps)
      /\ \A b \in hheld : b \in Nat \X HUnits /\ b[1] < Len(kheaps)
      /\ \A k \in DOMAIN kheaps : kheaps[k].id = Len(kheaps) - k /\ PageOk(kheaps[k], Held(hheld, kheaps[k].id))
      /\ kheaps # <<>> => Whole(kheaps[Len(kheaps)].list)
  BY DEF HeapInv
<1>2. CASE fit # {}
  <2>1. m \in fit
    <3>1. fit \in SUBSET Nat
      BY <1>1
    <3> HIDE DEF fit
    <3>2. \E x \in fit : \A y \in fit : x <= y
      BY <3>1, <1>2, LeastNumber
    <3> QED BY <3>2
  <2> DEFINE p == kheaps[m]
             f == FirstFit(p, u)
             g == kheap_alloc(p, u)
  <2>2. /\ kheaps' = [kheaps EXCEPT ![m] = g] /\ hheld' = hheld \cup {<<p.id, f>>}
        /\ m \in DOMAIN kheaps /\ Fitting(p, u) # {}
    BY <1>2, <2>1 DEF HeapAlloc
  <2> HIDE DEF u, fit, m
  <2>3. PageOk(p, Held(hheld, p.id)) /\ p.id \in Nat /\ p.id < Len(kheaps)
    BY <2>2, <1>1
  <2> HIDE DEF p
  <2>4. /\ PageOk(g, Held(hheld, p.id) \cup {f}) /\ g.id = p.id /\ f \in HUnits /\ (Whole(p.list) => Whole(g.list))
    BY <2>2, <2>3, <1>0, AllocKeeps DEF HUnits
  <2> HIDE DEF f, g
  <2>5. /\ Held(hheld', p.id) = Held(hheld, p.id) \cup {f}
        /\ \A o : o # p.id => Held(hheld', o) = Held(hheld, o)
    <3> DEFINE b == <<p.id, f>>
    <3>1. b[1] = p.id /\ b[2] = f
      OBVIOUS
    <3>2. hheld' = hheld \cup {b}
      BY <2>2
    <3> HIDE DEF b
    <3>3. /\ Held(hheld \cup {b}, b[1]) = Held(hheld, b[1]) \cup {b[2]}
          /\ \A o : o # b[1] => Held(hheld \cup {b}, o) = Held(hheld, o)
      BY HeldMore, Zenon
    <3> QED BY <3>1, <3>2, <3>3
  <2>6. \A b \in hheld' : b \in Nat \X HUnits /\ b[1] < Len(kheaps)
    <3>1. <<p.id, f>> \in Nat \X HUnits /\ <<p.id, f>>[1] = p.id
      BY <2>3, <2>4
    <3> QED BY <3>1, <2>2, <2>3, <1>1
  <2>7. p = kheaps[m]
    BY DEF p
  <2> QED BY <2>2, <2>4, <2>5, <2>6, <2>7, PageChanges
<1>3. CASE fit = {}
  <2> DEFINE g == kheap_alloc(h, u)
             n == Len(kheaps)
  <2>1. kheaps' = <<g>> \o kheaps /\ hheld' = hheld \cup {<<h.id, 0>>}
    BY <1>3 DEF HeapAlloc
  <2>2. /\ PageOk(h, {}) /\ h.id = n /\ Whole(h.list) /\ Fitting(h, u) # {} /\ FirstFit(h, u) = 0
    BY <1>0, <1>1, NewPage
  <2> HIDE DEF u, fit, h
  <2>3. PageOk(g, {} \cup {0}) /\ g.id = n /\ Whole(g.list)
    BY <2>2, <1>0, AllocKeeps
  <2> HIDE DEF g
  <2>4. /\ Held(hheld', n) = Held(hheld, n) \cup {0}
        /\ \A o : o # n => Held(hheld', o) = Held(hheld, o)
    <3> DEFINE b == <<n, 0>>
    <3>1. b[1] = n /\ b[2] = 0
      OBVIOUS
    <3>2. hheld' = hheld \cup {b}
      BY <2>1, <2>2
    <3> HIDE DEF b
    <3>3. /\ Held(hheld \cup {b}, b[1]) = Held(hheld, b[1]) \cup {b[2]}
          /\ \A o : o # b[1] => Held(hheld \cup {b}, o) = Held(hheld, o)
      BY HeldMore, Zenon
    <3> QED BY <3>1, <3>2, <3>3
  <2>5. Held(hheld, n) = {}
    <3>1. \A b \in hheld : b[1] # n
      BY <1>1
    <3> QED BY <3>1 DEF Held
  <2>6. /\ kheaps' \in Seq(HPages) /\ Len(kheaps') = n + 1 /\ DOMAIN kheaps' = 1 .. n + 1
        /\ kheaps'[1] = g /\ \A k \in 2 .. n + 1 : kheaps'[k] = kheaps[k - 1] /\ k - 1 \in DOMAIN kheaps
    <3>1. g \in HPages
      BY <2>3 DEF PageOk
    <3>2. <<g>> \in Seq(HPages) /\ Len(<<g>>) = 1 /\ <<g>>[1] = g
      BY <3>1
    <3> DEFINE G == <<g>>
    <3> HIDE DEF G
    <3>3. G \in Seq(HPages) /\ Len(G) = 1 /\ G[1] = g
      BY <3>2 DEF G
    <3>4. /\ G \o kheaps \in Seq(HPages) /\ Len(G \o kheaps) = 1 + n /\ DOMAIN (G \o kheaps) = 1 .. 1 + n
          /\ \A i \in 1 .. 1 : (G \o kheaps)[i] = G[i]
          /\ \A i \in 1 + 1 .. 1 + n : (G \o kheaps)[i] = kheaps[i - 1]
      <4>1. /\ G \o kheaps \in Seq(HPages) /\ Len(G \o kheaps) = Len(G) + Len(kheaps)
            /\ DOMAIN (G \o kheaps) = 1 .. Len(G) + Len(kheaps)
            /\ \A i \in 1 .. Len(G) : (G \o kheaps)[i] = G[i]
            /\ \A i \in Len(G) + 1 .. Len(G) + Len(kheaps) : (G \o kheaps)[i] = kheaps[i - Len(G)]
        BY <3>3, <1>1, ConcatIs, ZenonT(30)
      <4> QED BY <4>1, <3>3
    <3>5. 1 + n = n + 1 /\ 1 \in 1 .. 1 /\ 1 + 1 = 2 /\ \A k \in 2 .. n + 1 : k - 1 \in 1 .. n
      BY <1>1
    <3>6. kheaps' = G \o kheaps
      BY <2>1 DEF G
    <3> QED BY <3>3, <3>4, <3>5, <3>6, <1>1
  <2>7. \A b \in hheld' : b \in Nat \X HUnits /\ b[1] < n + 1
    <3>1. <<n, 0>> \in Nat \X HUnits /\ <<n, 0>>[1] = n
      BY <1>1, HeapAssumption DEF HUnits
    <3>2. \A b \in hheld : b[1] < n + 1
      <4> TAKE b \in hheld
      <4>1. b \in Nat \X HUnits /\ b[1] < n
        BY <1>1
      <4> QED BY <4>1, <1>1
    <3>3. n < n + 1
      BY <1>1
    <3> QED BY <3>1, <3>2, <3>3, <2>1, <2>2, <1>1
  <2>8. ASSUME NEW k \in 1 .. n + 1
        PROVE  kheaps'[k].id = (n + 1) - k /\ PageOk(kheaps'[k], Held(hheld', kheaps'[k].id))
    <3>1. CASE k = 1
      <4>1. kheaps'[k] = g /\ n = (n + 1) - k
        BY <3>1, <2>6, <1>1
      <4>2. Held(hheld', n) = {} \cup {0}
        BY <2>4, <2>5
      <4> QED BY <4>1, <4>2, <2>3
    <3>2. CASE k # 1
      <4>1. k \in 2 .. n + 1
        BY <3>2, <1>1
      <4>2. kheaps'[k] = kheaps[k - 1] /\ k - 1 \in DOMAIN kheaps
        BY <4>1, <2>6
      <4>3. kheaps[k - 1].id = n - (k - 1) /\ PageOk(kheaps[k - 1], Held(hheld, kheaps[k - 1].id))
        BY <4>2, <1>1
      <4>4. n - (k - 1) = (n + 1) - k /\ n - (k - 1) # n
        BY <4>1, <1>1
      <4> QED BY <4>2, <4>3, <4>4, <2>4
    <3> QED BY <3>1, <3>2
  <2>9. Whole(kheaps'[n + 1].list)
    <3>1. CASE n = 0
      BY <3>1, <2>3, <2>6, <1>1
    <3>2. CASE n # 0
      <4>1. n + 1 \in 2 .. n + 1 /\ (n + 1) - 1 = n /\ kheaps # <<>>
        BY <3>2, <1>1
      <4> QED BY <4>1, <2>6, <1>1
    <3> QED BY <3>1, <3>2
  <2> HIDE DEF n
  <2> QED BY <2>6, <2>7, <2>8, <2>9 DEF HeapInv
<1> QED BY <1>2, <1>3

LEMMA HeapFreeKeeps ==
  ASSUME HeapInv, NEW b \in hheld, HeapFree(b)
  PROVE  HeapInv'
<1> DEFINE j == CHOOSE j \in DOMAIN kheaps : kheaps[j].id = b[1]
           p == kheaps[j]
           last == j = Len(kheaps)
           g == kheap_free(p, b[2], last)
<1>1. /\ kheaps \in Seq(HPages) /\ Len(kheaps) \in Nat /\ DOMAIN kheaps = 1 .. Len(kheaps)
      /\ \A x \in hheld : x \in Nat \X HUnits /\ x[1] < Len(kheaps)
      /\ \A k \in DOMAIN kheaps : kheaps[k].id = Len(kheaps) - k /\ PageOk(kheaps[k], Held(hheld, kheaps[k].id))
  BY DEF HeapInv
<1>2. j \in DOMAIN kheaps /\ p.id = b[1]
  <2>1. b[1] \in Nat /\ b[1] < Len(kheaps)
    BY <1>1
  <2>2. Len(kheaps) - b[1] \in DOMAIN kheaps /\ Len(kheaps) - (Len(kheaps) - b[1]) = b[1]
    BY <2>1, <1>1
  <2>3. kheaps[Len(kheaps) - b[1]].id = b[1]
    BY <2>2, <1>1
  <2> QED BY <2>2, <2>3
<1>3. kheaps' = [kheaps EXCEPT ![j] = g] /\ hheld' = hheld \ {b}
  BY <1>2 DEF HeapFree
<1>p. p = kheaps[j] /\ last = (j = Len(kheaps)) /\ last \in BOOLEAN
  OBVIOUS
<1> HIDE DEF j, p, last
<1>4. /\ Held(hheld', b[1]) = Held(hheld, b[1]) \ {b[2]} /\ b[2] \in Held(hheld, b[1])
      /\ \A o : o # b[1] => Held(hheld', o) = Held(hheld, o)
  BY <1>1, <1>3, HeldLess, ZenonT(30)
<1>5. PageOk(p, Held(hheld, b[1]))
  BY <1>1, <1>2, <1>p
<1>6. /\ PageOk(g, Held(hheld, b[1]) \ {b[2]}) /\ g.id = p.id /\ (last /\ Whole(p.list) => Whole(g.list))
  BY <1>4, <1>5, <1>p, FreeKeeps
<1> HIDE DEF g
<1>7. j = Len(kheaps) /\ Whole(kheaps[j].list) => Whole(g.list)
  BY <1>6, <1>p
<1>8. \A x \in hheld' : x \in Nat \X HUnits /\ x[1] < Len(kheaps)
  BY <1>1, <1>3
<1> QED BY <1>2, <1>3, <1>4, <1>6, <1>7, <1>8, <1>p, PageChanges

LEMMA HeapInvImplies ==
  ASSUME HeapInv
  PROVE  HeapSound
<1>1. /\ kheaps \in Seq(HPages) /\ Len(kheaps) \in Nat /\ DOMAIN kheaps = 1 .. Len(kheaps)
      /\ \A k \in DOMAIN kheaps : PageOk(kheaps[k], Held(hheld, kheaps[k].id))
      /\ kheaps # <<>> => Whole(kheaps[Len(kheaps)].list)
  BY DEF HeapInv
<1>2. ASSUME NEW j \in DOMAIN kheaps
      PROVE  LET h == kheaps[j] IN
             /\ \A i \in 1 .. Len(h.list) - 1 : h.list[i].at + h.list[i].ulen <= h.list[i + 1].at
             /\ IsInjective(h.free_list)
             /\ ToSet(h.free_list) = {h.list[i].at : i \in {l \in DOMAIN h.list : h.list[l].isfree}}
             /\ {b[2] : b \in {x \in hheld : x[1] = h.id}}
                  = {h.list[i].at : i \in {l \in DOMAIN h.list : ~h.list[l].isfree}}
  <2> DEFINE h == kheaps[j]
             l == h.list
  <2>1. /\ h \in HPages /\ l \in Seq(HBlocks) /\ InOrder(l) /\ IsInjective(h.free_list)
        /\ ToSet(h.free_list) = Ats(l, TRUE) /\ Held(hheld, h.id) = Ats(l, FALSE)
    BY <1>1, <1>2 DEF PageOk, HPages
  <2> HIDE DEF h
  <2>2. \A k \in DOMAIN l : l[k].isfree \in BOOLEAN
    <3> TAKE k \in DOMAIN l
    <3>1. l[k] \in HBlocks
      BY <2>1
    <3> QED BY <3>1 DEF HBlocks
  <2>3. Ats(l, TRUE) = {l[i].at : i \in {k \in DOMAIN l : l[k].isfree}}
    BY <2>2 DEF Ats
  <2>4. Ats(l, FALSE) = {l[i].at : i \in {k \in DOMAIN l : ~l[k].isfree}}
    BY <2>2 DEF Ats
  <2>5. \A i \in 1 .. Len(l) - 1 : l[i].at + l[i].ulen <= l[i + 1].at
    <3> TAKE i \in 1 .. Len(l) - 1
    <3>1. i \in DOMAIN l /\ i + 1 \in DOMAIN l /\ i < i + 1
      BY <2>1
    <3> QED BY <3>1, <2>1 DEF InOrder, BEnd
  <2> QED BY <2>1, <2>3, <2>4, <2>5 DEF h, Held
<1>3. BlocksAgree
  BY <1>2, Zenon DEF BlocksAgree
<1>4. FirstHeapWhole
  BY <1>1 DEF FirstHeapWhole, Whole, BEnd
<1> QED BY <1>3, <1>4 DEF HeapSound

(* kheap_alloc and kheap_free keep the two lists of every page in step     *)
(* with each other and with what is handed out, no block overlaps another, *)
(* and the oldest page stays a chain of blocks without gaps, whatever      *)
(* sizes are asked for and in whatever order the blocks come back.         *)
THEOREM HeapSoundCorrect == HeapSpec => []HeapSound
<1>1. HeapInit => HeapInv
  <2> SUFFICES ASSUME HeapInit PROVE HeapInv
    OBVIOUS
  <2>1. kheaps = <<>> /\ hheld = {}
    BY DEF HeapInit
  <2>2. <<>> \in Seq(HPages) /\ DOMAIN <<>> = {}
    OBVIOUS
  <2> QED BY <2>1, <2>2 DEF HeapInv
<1>2. HeapInv /\ [HeapNext]_heapVars => HeapInv'
  <2> SUFFICES ASSUME HeapInv, [HeapNext]_heapVars PROVE HeapInv'
    OBVIOUS
  <2>1. CASE \E size \in HeapSizes : HeapAlloc(size)
    BY <2>1, HeapAllocKeeps
  <2>2. CASE \E b \in hheld : HeapFree(b)
    BY <2>2, HeapFreeKeeps
  <2>3. CASE UNCHANGED heapVars
    BY <2>3 DEF heapVars, HeapInv
  <2> QED BY <2>1, <2>2, <2>3 DEF HeapNext
<1>3. HeapInv => HeapSound
  BY HeapInvImplies
<1> QED BY <1>1, <1>2, <1>3, PTL DEF HeapSpec

-----------------------------------------------------------------------------
(* The lists of queue.h.  What InsertAt and RemoveAt give, place by place. *)
IsInsertion(r, v, i, x) ==
  /\ Len(r) = Len(v) + 1 /\ r[i + 1] = x
  /\ \A k \in 1 .. i : r[k] = v[k]
  /\ \A k \in i + 2 .. Len(v) + 1 : r[k] = v[k - 1]
LEMMA InsertPlaces ==
  ASSUME NEW S, NEW v \in Seq(S), NEW i \in 0 .. Len(v), NEW x \in S
  PROVE  IsInsertion(InsertAt(v, i + 1, x), v, i, x)
<1> DEFINE a == SubSeq(v, 1, i)
           b == SubSeq(v, i + 1, Len(v))
           o == <<x>>
           ao == a \o o
           r == ao \o b
           n == Len(v)
<1>0. n \in Nat /\ i \in Nat /\ i <= n /\ (i + 1) - 1 = i
  OBVIOUS
<1>1. a \in Seq(S) /\ Len(a) = i /\ \A k \in 1 .. i : a[k] = v[k]
  BY <1>0
<1>2. b \in Seq(S) /\ Len(b) = n - i /\ \A k \in 1 .. n - i : b[k] = v[k + i]
  BY <1>0
<1>3. o \in Seq(S) /\ Len(o) = 1 /\ o[1] = x
  OBVIOUS
<1> HIDE DEF a, b, o
<1>4. /\ ao \in Seq(S) /\ Len(ao) = i + 1 /\ ao[i + 1] = x /\ \A k \in 1 .. i : ao[k] = v[k]
  <2>1. /\ ao \in Seq(S) /\ Len(ao) = Len(a) + Len(o)
        /\ \A k \in 1 .. Len(a) : ao[k] = a[k]
        /\ \A k \in Len(a) + 1 .. Len(a) + Len(o) : ao[k] = o[k - Len(a)]
    BY <1>1, <1>3, ConcatIs
  <2>2. Len(a) + 1 \in Len(a) + 1 .. Len(a) + Len(o) /\ (Len(a) + 1) - Len(a) = 1
    BY <1>0, <1>1, <1>3
  <2> HIDE DEF ao
  <2> QED BY <2>1, <2>2, <1>1, <1>3
<1> HIDE DEF ao
<1>5. /\ r \in Seq(S) /\ Len(r) = n + 1
      /\ \A k \in 1 .. i + 1 : r[k] = ao[k]
      /\ \A k \in i + 2 .. n + 1 : r[k] = b[k - (i + 1)]
  <2>1. /\ r \in Seq(S) /\ Len(r) = Len(ao) + Len(b)
        /\ \A k \in 1 .. Len(ao) : r[k] = ao[k]
        /\ \A k \in Len(ao) + 1 .. Len(ao) + Len(b) : r[k] = b[k - Len(ao)]
    <3>1. ao \in Seq(S) /\ b \in Seq(S)
      BY <1>2, <1>4
    <3> QED BY <3>1, ConcatIs
  <2>2. Len(ao) = i + 1 /\ Len(ao) + 1 = i + 2 /\ Len(ao) + Len(b) = n + 1
    BY <1>0, <1>2, <1>4
  <2> HIDE DEF r
  <2> QED BY <2>1, <2>2
<1> HIDE DEF r
<1>6. \A k \in i + 2 .. n + 1 : r[k] = v[k - 1]
  <2> TAKE k \in i + 2 .. n + 1
  <2>1. k - (i + 1) \in 1 .. n - i /\ (k - (i + 1)) + i = k - 1
    BY <1>0
  <2>2. b[k - (i + 1)] = v[(k - (i + 1)) + i]
    BY <2>1, <1>2
  <2> QED BY <2>1, <2>2, <1>5
<1>7. \A k \in 1 .. i : r[k] = v[k]
  <2> TAKE k \in 1 .. i
  <2>1. k \in 1 .. i + 1
    BY <1>0
  <2> QED BY <2>1, <1>4, <1>5
<1>8. r[i + 1] = x
  <2>1. i + 1 \in 1 .. i + 1
    BY <1>0
  <2> QED BY <2>1, <1>4, <1>5
<1>9. InsertAt(v, i + 1, x) = r
  BY <1>0 DEF InsertAt, r, ao, a, b, o
<1> HIDE DEF n
<1> QED BY <1>5, <1>6, <1>7, <1>8, <1>9 DEF n, IsInsertion

IsRemoval(r, v, i) ==
  /\ Len(r) = Len(v) - 1
  /\ \A k \in 1 .. i - 1 : r[k] = v[k]
  /\ \A k \in i .. Len(v) - 1 : r[k] = v[k + 1]
LEMMA RemovePlaces ==
  ASSUME NEW S, NEW v \in Seq(S), NEW i \in 1 .. Len(v)
  PROVE  IsRemoval(RemoveAt(v, i), v, i)
<1> DEFINE a == SubSeq(v, 1, i - 1)
           b == SubSeq(v, i + 1, Len(v))
           r == a \o b
           n == Len(v)
<1>0. n \in Nat /\ i \in Nat /\ 1 <= i /\ i <= n
  OBVIOUS
<1>1. a \in Seq(S) /\ Len(a) = i - 1 /\ \A k \in 1 .. i - 1 : a[k] = v[k]
  BY <1>0
<1>2. b \in Seq(S) /\ Len(b) = n - i /\ \A k \in 1 .. n - i : b[k] = v[k + i]
  BY <1>0
<1> HIDE DEF a, b
<1>3. /\ r \in Seq(S) /\ Len(r) = n - 1
      /\ \A k \in 1 .. i - 1 : r[k] = a[k]
      /\ \A k \in i .. n - 1 : r[k] = b[k - (i - 1)]
  <2>1. /\ r \in Seq(S) /\ Len(r) = Len(a) + Len(b)
        /\ \A k \in 1 .. Len(a) : r[k] = a[k]
        /\ \A k \in Len(a) + 1 .. Len(a) + Len(b) : r[k] = b[k - Len(a)]
    BY <1>1, <1>2, ConcatIs
  <2>2. Len(a) = i - 1 /\ Len(a) + 1 = i /\ Len(a) + Len(b) = n - 1
    BY <1>0, <1>1, <1>2
  <2> HIDE DEF r
  <2> QED BY <2>1, <2>2
<1> HIDE DEF r
<1>4. \A k \in i .. n - 1 : r[k] = v[k + 1]
  <2> TAKE k \in i .. n - 1
  <2>1. k - (i - 1) \in 1 .. n - i /\ (k - (i - 1)) + i = k + 1
    BY <1>0
  <2>2. b[k - (i - 1)] = v[(k - (i - 1)) + i]
    BY <2>1, <1>2
  <2> QED BY <2>1, <2>2, <1>3
<1>5. RemoveAt(v, i) = r
  BY DEF RemoveAt, r, a, b
<1> HIDE DEF n
<1> QED BY <1>1, <1>3, <1>4, <1>5 DEF n, IsRemoval

(* The lists as sequences: which element follows a cell, which elements    *)
(* are in no list, and, in the families that have them, what the *_last    *)
(* and the *_prev fields hold.                                             *)
QCells == QHeads \cup QElms
LinkStates == [nxt : [QCells -> QElms \cup {NoElm}], prv : [QElms -> QCells \cup {NoElm}],
               last : [QHeads -> QCells]]
Layouts ==
  {W \in [QHeads -> Seq(QElms)] :
     /\ \A h \in QHeads : IsInjective(W[h])
     /\ \A h, g \in QHeads : h # g => ToSet(W[h]) \cap ToSet(W[g]) = {}}
InLists(W) == UNION {ToSet(W[h]) : h \in QHeads}
After(w, i) == IF i = Len(w) THEN NoElm ELSE w[i + 1]
NextOk(s, W) ==
  /\ \A h \in QHeads : \A i \in 0 .. Len(W[h]) : s.nxt[Cell(h, W[h], i)] = After(W[h], i)
  /\ \A e \in QElms \ InLists(W) : s.nxt[e] = NoElm
LastOk(s, W) == \A h \in QHeads : s.last[h] = Cell(h, W[h], Len(W[h]))
PrevOk(s, W) == \A h \in QHeads : \A i \in 1 .. Len(W[h]) : s.prv[W[h][i]] = Cell(h, W[h], i - 1)
HasLast(kind) == kind \in {"tailq", "simpleq"}
HasPrev(kind) == kind \in {"tailq", "list"}
Rep(s, kind, W) ==
  /\ s \in LinkStates /\ W \in Layouts /\ NextOk(s, W)
  /\ HasLast(kind) => LastOk(s, W)
  /\ HasPrev(kind) => PrevOk(s, W)

LEMMA LayoutIs ==
  ASSUME NEW W \in Layouts, NEW h \in QHeads
  PROVE  /\ W[h] \in Seq(QElms) /\ Len(W[h]) \in Nat /\ DOMAIN W[h] = 1 .. Len(W[h])
         /\ \A i \in 1 .. Len(W[h]) : W[h][i] \in QElms /\ W[h][i] \in InLists(W) /\ W[h][i] \in ToSet(W[h])
         /\ \A i, k \in 1 .. Len(W[h]) : W[h][i] = W[h][k] => i = k
         /\ \A g \in QHeads : \A i \in 1 .. Len(W[h]), k \in 1 .. Len(W[g]) : W[h][i] = W[g][k] => h = g
<1>1. /\ W \in [QHeads -> Seq(QElms)] /\ \A g \in QHeads : IsInjective(W[g])
      /\ \A f, g \in QHeads : f # g => ToSet(W[f]) \cap ToSet(W[g]) = {}
  BY DEF Layouts
<1>2. \A g \in QHeads : W[g] \in Seq(QElms) /\ Len(W[g]) \in Nat /\ DOMAIN W[g] = 1 .. Len(W[g])
  BY <1>1
<1>3. \A g \in QHeads : \A i \in 1 .. Len(W[g]) : W[g][i] \in QElms /\ W[g][i] \in ToSet(W[g])
  BY <1>2, InToSet
<1>4. \A i \in 1 .. Len(W[h]) : W[h][i] \in InLists(W)
  BY <1>3 DEF InLists
<1>5. \A i, k \in 1 .. Len(W[h]) : W[h][i] = W[h][k] => i = k
  BY <1>1, <1>2 DEF IsInjective
<1>6. \A g \in QHeads : \A i \in 1 .. Len(W[h]), k \in 1 .. Len(W[g]) : W[h][i] = W[g][k] => h = g
  BY <1>1, <1>3
<1> QED BY <1>2, <1>3, <1>4, <1>5, <1>6

(* No cell is at two places.                                               *)
LEMMA CellsApart ==
  ASSUME NEW W \in Layouts, NEW h \in QHeads, NEW i \in 0 .. Len(W[h])
  PROVE  /\ Cell(h, W[h], i) \in QCells /\ Cell(h, W[h], i) # NoElm
         /\ \A e \in QElms \ InLists(W) : Cell(h, W[h], i) # e
         /\ \A g \in QHeads : \A k \in 0 .. Len(W[g]) :
              Cell(h, W[h], i) = Cell(g, W[g], k) => h = g /\ i = k
<1>1. Len(W[h]) \in Nat /\ (i = 0 \/ i \in 1 .. Len(W[h]))
  BY LayoutIs
<1>2. QHeads \cap QElms = {} /\ NoElm \notin QHeads /\ NoElm \notin QElms
  BY QueueAssumption
<1>3. Cell(h, W[h], i) \in QCells /\ Cell(h, W[h], i) # NoElm
  BY <1>1, <1>2, LayoutIs DEF Cell, QCells
<1>4. \A e \in QElms \ InLists(W) : Cell(h, W[h], i) # e
  BY <1>1, <1>2, LayoutIs DEF Cell
<1>5. ASSUME NEW g \in QHeads, NEW k \in 0 .. Len(W[g]), Cell(h, W[h], i) = Cell(g, W[g], k)
      PROVE  h = g /\ i = k
  <2>1. Len(W[g]) \in Nat /\ (k = 0 \/ k \in 1 .. Len(W[g]))
    BY LayoutIs
  <2>2. CASE i = 0 /\ k = 0
    BY <2>2, <1>5 DEF Cell
  <2>3. CASE i = 0 /\ k \in 1 .. Len(W[g])
    <3>1. k # 0 /\ W[g][k] \in QElms
      BY <2>3, LayoutIs
    <3> QED BY <3>1, <2>3, <1>5, <1>2 DEF Cell
  <2>4. CASE i \in 1 .. Len(W[h]) /\ k = 0
    <3>1. i # 0 /\ W[h][i] \in QElms
      BY <2>4, LayoutIs
    <3> QED BY <3>1, <2>4, <1>5, <1>2 DEF Cell
  <2>5. CASE i \in 1 .. Len(W[h]) /\ k \in 1 .. Len(W[g])
    <3>1. i # 0 /\ k # 0
      BY <2>5
    <3>2. W[h][i] = W[g][k]
      BY <3>1, <1>5 DEF Cell
    <3>3. h = g
      BY <3>2, <2>5, LayoutIs
    <3> QED BY <3>2, <3>3, <2>5, LayoutIs
  <2> QED BY <1>1, <2>1, <2>2, <2>3, <2>4, <2>5
<1> QED BY <1>3, <1>4, <1>5

LEMMA SameSeq ==
  ASSUME NEW S, NEW a \in Seq(S), NEW b \in Seq(S), Len(a) = Len(b), \A k \in 1 .. Len(a) : a[k] = b[k]
  PROVE  a = b
OBVIOUS

(* What is left of a sequence after k of its elements.                     *)
Tails(v, k) == SubSeq(v, k + 1, Len(v))
LEMMA TailsAre ==
  ASSUME NEW S, NEW v \in Seq(S)
  PROVE  /\ Tails(v, 0) = v /\ Tails(v, Len(v)) = <<>>
         /\ \A k \in 0 .. Len(v) - 1 : Tails(v, k) = <<v[k + 1]>> \o Tails(v, k + 1)
<1> DEFINE n == Len(v)
<1>0. n \in Nat
  OBVIOUS
<1>1. \A k \in 0 .. n : /\ Tails(v, k) \in Seq(S) /\ Len(Tails(v, k)) = n - k
                        /\ \A i \in 1 .. n - k : Tails(v, k)[i] = v[k + i]
  BY <1>0 DEF Tails
<1>2. Tails(v, 0) = v
  <2>1. Tails(v, 0) \in Seq(S) /\ Len(Tails(v, 0)) = n /\ \A i \in 1 .. n : Tails(v, 0)[i] = v[i]
    BY <1>0, <1>1
  <2> QED BY <2>1, SameSeq
<1>3. Tails(v, n) = <<>>
  <2>1. Tails(v, n) \in Seq(S) /\ Len(Tails(v, n)) = 0
    BY <1>0, <1>1
  <2> QED BY <2>1
<1>4. ASSUME NEW k \in 0 .. n - 1 PROVE Tails(v, k) = <<v[k + 1]>> \o Tails(v, k + 1)
  <2> DEFINE a == Tails(v, k)
             b == Tails(v, k + 1)
             o == <<v[k + 1]>>
             r == o \o b
  <2>0. k \in 0 .. n /\ k + 1 \in 0 .. n /\ k + 1 \in 1 .. n /\ k \in Nat
    BY <1>0
  <2>1. /\ a \in Seq(S) /\ Len(a) = n - k /\ \A i \in 1 .. n - k : a[i] = v[k + i]
    BY <1>1, <2>0
  <2>2. /\ b \in Seq(S) /\ Len(b) = n - (k + 1) /\ \A i \in 1 .. n - (k + 1) : b[i] = v[(k + 1) + i]
    BY <1>1, <2>0
  <2>3. o \in Seq(S) /\ Len(o) = 1 /\ o[1] = v[k + 1]
    BY <2>0
  <2> HIDE DEF a, b, o
  <2>4. /\ r \in Seq(S) /\ Len(r) = Len(o) + Len(b)
        /\ \A i \in 1 .. Len(o) : r[i] = o[i]
        /\ \A i \in Len(o) + 1 .. Len(o) + Len(b) : r[i] = b[i - Len(o)]
    <3>1. o \in Seq(S) /\ b \in Seq(S)
      BY <2>2, <2>3
    <3> QED BY <3>1, ConcatIs
  <2> HIDE DEF r
  <2>5. Len(r) = n - k
    BY <2>0, <2>2, <2>3, <2>4, <1>0
  <2>6. ASSUME NEW i \in 1 .. n - k PROVE a[i] = r[i]
    <3>1. CASE i = 1
      <4>1. 1 \in 1 .. Len(o) /\ k + i = k + 1
        BY <2>3, <3>1
      <4> QED BY <4>1, <3>1, <2>1, <2>3, <2>4
    <3>2. CASE i # 1
      <4>1. i \in Len(o) + 1 .. Len(o) + Len(b) /\ i - Len(o) = i - 1 /\ i - 1 \in 1 .. n - (k + 1)
            /\ (k + 1) + (i - 1) = k + i
        BY <3>2, <2>0, <2>2, <2>3, <1>0
      <4>2. r[i] = b[i - 1] /\ b[i - 1] = v[(k + 1) + (i - 1)]
        BY <4>1, <2>2, <2>4
      <4> QED BY <4>1, <4>2, <2>1
    <3> QED BY <3>1, <3>2
  <2>7. a = r
    BY <2>1, <2>4, <2>5, <2>6, SameSeq
  <2> QED BY <2>7 DEF a, b, o, r
<1> QED BY <1>2, <1>3, <1>4

(* The walk from a head meets the elements of its list.                    *)
IsWalk(f, s) ==
  f = [x \in QHeads \cup QElms |-> IF s.nxt[x] = NoElm THEN <<>> ELSE <<s.nxt[x]>> \o f[s.nxt[x]]]
Holder(W, x, g, k) == g \in QHeads /\ k \in 0 .. Len(W[g]) /\ x = Cell(g, W[g], k)
LEMMA WalkExists ==
  ASSUME NEW s, NEW W, s \in LinkStates, W \in Layouts, NextOk(s, W)
  PROVE  \E f : IsWalk(f, s)
<1> DEFINE Rest(x) == CHOOSE w : \E g, k : Holder(W, x, g, k) /\ w = Tails(W[g], k)
           f == [x \in QCells |-> IF x \in QElms \ InLists(W) THEN <<>> ELSE Rest(x)]
<1>1. ASSUME NEW x, NEW g, NEW k, Holder(W, x, g, k)
      PROVE  x \in QCells /\ x \notin QElms \ InLists(W) /\ f[x] = Tails(W[g], k)
  <2>1. x \in QCells /\ x \notin QElms \ InLists(W)
    BY <1>1, CellsApart DEF Holder
  <2>2. \A g2, k2 : Holder(W, x, g2, k2) => g2 = g /\ k2 = k
    BY <1>1, CellsApart DEF Holder
  <2>3. Rest(x) = Tails(W[g], k)
    BY <1>1, <2>2
  <2> HIDE DEF Rest
  <2> QED BY <2>1, <2>3
<1>f. \A x \in QElms \ InLists(W) : f[x] = <<>>
  BY DEF QCells
<1>s. f = [x \in QCells |-> f[x]]
  OBVIOUS
<1> HIDE DEF f
<1>2. ASSUME NEW x \in QCells, x \notin QElms \ InLists(W)
      PROVE  \E g, k : Holder(W, x, g, k)
  <2>1. CASE x \in QHeads
    <3>1. 0 \in 0 .. Len(W[x])
      BY <2>1, LayoutIs
    <3>2. Holder(W, x, x, 0)
      BY <3>1, <2>1 DEF Holder, Cell
    <3> QED BY <3>2
  <2>2. CASE x \in QElms /\ x \in InLists(W)
    <3>1. PICK g \in QHeads : x \in ToSet(W[g])
      BY <2>2 DEF InLists
    <3>2. PICK k \in DOMAIN W[g] : x = W[g][k]
      BY <3>1 DEF ToSet
    <3>3. k \in 0 .. Len(W[g]) /\ k # 0
      BY <3>2, LayoutIs
    <3>4. Holder(W, x, g, k)
      BY <3>2, <3>3 DEF Holder, Cell
    <3> QED BY <3>4
  <2> QED BY <1>2, <2>1, <2>2 DEF QCells
<1>3. ASSUME NEW x \in QCells
      PROVE  f[x] = IF s.nxt[x] = NoElm THEN <<>> ELSE <<s.nxt[x]>> \o f[s.nxt[x]]
  <2>1. CASE x \in QElms \ InLists(W)
    BY <2>1, <1>f DEF NextOk
  <2>2. CASE x \notin QElms \ InLists(W)
    <3>1. PICK g, k : Holder(W, x, g, k)
      BY <1>2, <2>2
    <3> DEFINE v == W[g]
    <3>2. v \in Seq(QElms) /\ Len(v) \in Nat /\ k \in 0 .. Len(v) /\ g \in QHeads /\ x = Cell(g, v, k)
      BY <3>1, LayoutIs DEF Holder
    <3>3. f[x] = Tails(v, k)
      BY <3>1, <1>1
    <3>4. s.nxt[x] = After(v, k)
      BY <3>2 DEF NextOk
    <3>5. CASE k = Len(v)
      <4>1. s.nxt[x] = NoElm
        BY <3>4, <3>5 DEF After
      <4>2. Tails(v, k) = <<>>
        BY <3>2, <3>5, TailsAre
      <4> QED BY <4>1, <4>2, <3>3
    <3>6. CASE k # Len(v)
      <4>1. k \in 0 .. Len(v) - 1 /\ k + 1 \in 1 .. Len(v) /\ k + 1 \in 0 .. Len(v) /\ k + 1 # 0
        BY <3>2, <3>6
      <4>2. s.nxt[x] = v[k + 1] /\ v[k + 1] \in QElms
        BY <3>4, <3>6, <4>1, LayoutIs, <3>2 DEF After
      <4>3. Holder(W, v[k + 1], g, k + 1)
        BY <4>1, <3>2 DEF Holder, Cell
      <4>4. f[v[k + 1]] = Tails(v, k + 1)
        BY <4>3, <1>1
      <4>5. Tails(v, k) = <<v[k + 1]>> \o Tails(v, k + 1)
        BY <4>1, <3>2, TailsAre
      <4>6. v[k + 1] # NoElm
        BY <4>2, QueueAssumption
      <4> HIDE DEF v
      <4> QED BY <4>2, <4>4, <4>5, <4>6, <3>3
    <3> QED BY <3>5, <3>6
  <2> QED BY <2>1, <2>2
<1>5. IsWalk(f, s)
  BY <1>3, <1>s DEF IsWalk, QCells
<1> QED BY <1>5

LEMMA WalkIs ==
  ASSUME NEW s, NEW W, s \in LinkStates, W \in Layouts, NextOk(s, W), NEW h \in QHeads
  PROVE  Walk(s, h) = W[h]
<1> DEFINE f == CHOOSE f : IsWalk(f, s)
           v == W[h]
           n == Len(v)
           M == {k \in 0 .. n : f[Cell(h, v, n - k)] = Tails(v, n - k)}
<1>1. Walk(s, h) = f[h]
  BY DEF Walk, IsWalk
<1>2. IsWalk(f, s)
  BY WalkExists
<1> HIDE DEF f
<1>3. \A x \in QCells : f[x] = IF s.nxt[x] = NoElm THEN <<>> ELSE <<s.nxt[x]>> \o f[s.nxt[x]]
  BY <1>2 DEF IsWalk, QCells
<1>4. v \in Seq(QElms) /\ n \in Nat
  BY LayoutIs
<1>5. \A k \in 0 .. n : Cell(h, v, k) \in QCells /\ s.nxt[Cell(h, v, k)] = After(v, k)
  BY CellsApart DEF NextOk
<1>6. 0 \in M
  <2>1. n - 0 = n /\ n \in 0 .. n /\ 0 \in 0 .. n
    BY <1>4
  <2>2. s.nxt[Cell(h, v, n)] = NoElm
    BY <2>1, <1>5 DEF After
  <2>3. f[Cell(h, v, n)] = <<>> /\ Tails(v, n) = <<>>
    BY <2>1, <2>2, <1>3, <1>4, <1>5, TailsAre
  <2> QED BY <2>1, <2>3
<1>7. \A k \in 0 .. n : k \in M /\ k < n => k + 1 \in M
  <2> SUFFICES ASSUME NEW k \in 0 .. n, k \in M, k < n PROVE k + 1 \in M
    OBVIOUS
  <2> DEFINE j == n - (k + 1)
  <2>1. /\ j \in 0 .. n - 1 /\ j \in 0 .. n /\ j + 1 \in 1 .. n /\ j + 1 # 0 /\ j # n /\ n - k = j + 1
        /\ k + 1 \in 0 .. n
    BY <1>4
  <2>2. f[Cell(h, v, j + 1)] = Tails(v, j + 1)
    BY <2>1
  <2> HIDE DEF j
  <2>3. Cell(h, v, j + 1) = v[j + 1] /\ v[j + 1] \in QElms
    BY <2>1, LayoutIs DEF Cell
  <2>4. s.nxt[Cell(h, v, j)] = v[j + 1] /\ Cell(h, v, j) \in QCells
    BY <2>1, <1>5 DEF After
  <2>5. v[j + 1] # NoElm
    BY <2>3, QueueAssumption
  <2>6. f[Cell(h, v, j)] = <<v[j + 1]>> \o f[v[j + 1]]
    BY <2>4, <2>5, <1>3
  <2>7. Tails(v, j) = <<v[j + 1]>> \o Tails(v, j + 1)
    BY <2>1, <1>4, TailsAre
  <2>8. f[Cell(h, v, j)] = Tails(v, j)
    BY <2>2, <2>3, <2>6, <2>7
  <2> QED BY <2>1, <2>8 DEF j
<1>8. n \in M
  <2> HIDE DEF M, n
  <2>1. \A k \in 0 .. n : k \in M
    BY <1>4, <1>6, <1>7, UpTo
  <2> QED BY <1>4, <2>1
<1>9. n - n = 0
  BY <1>4
<1>10. f[h] = Tails(v, 0)
  BY <1>8, <1>9 DEF Cell
<1> QED BY <1>1, <1>4, <1>10, TailsAre

(* The element e enters the list of h after the cell c.                    *)
Inserted(s, s2, kind, h, c, e) ==
  /\ s2 \in LinkStates
  /\ s2.nxt = [s.nxt EXCEPT ![e] = s.nxt[c], ![c] = e]
  /\ HasPrev(kind) =>
       s2.prv = [x \in QElms |-> IF x = e THEN c ELSE IF x = s.nxt[c] THEN e ELSE s.prv[x]]
  /\ HasLast(kind) => s2.last = LastTo(s, h, s.nxt[c], e)

(* The element e, which follows the cell c, leaves the list of h.          *)
Removed(s, s2, kind, h, c, e) ==
  /\ s2 \in LinkStates
  /\ s2.nxt = [s.nxt EXCEPT ![c] = s.nxt[e], ![e] = NoElm]
  /\ HasPrev(kind) =>
       \A x \in QElms \ {e} : s2.prv[x] = IF x = s.nxt[e] THEN c ELSE s.prv[x]
  /\ HasLast(kind) => s2.last = LastTo(s, h, s.nxt[e], c)

InsertIn(W, h, i, e) == [W EXCEPT ![h] = InsertAt(W[h], i + 1, e)]
RemoveIn(W, h, i) == [W EXCEPT ![h] = RemoveAt(W[h], i)]

LEMMA InsertLayout ==
  ASSUME NEW W \in Layouts, NEW h \in QHeads, NEW i \in 0 .. Len(W[h]), NEW e \in QElms \ InLists(W)
  PROVE  /\ InsertIn(W, h, i, e) \in Layouts
         /\ InLists(InsertIn(W, h, i, e)) = InLists(W) \cup {e}
<1> DEFINE V == InsertIn(W, h, i, e)
           r == InsertAt(W[h], i + 1, e)
<1>1. /\ W \in [QHeads -> Seq(QElms)] /\ \A g \in QHeads : IsInjective(W[g])
      /\ \A f, g \in QHeads : f # g => ToSet(W[f]) \cap ToSet(W[g]) = {}
  BY DEF Layouts
<1>2. \A g \in QHeads : e \notin ToSet(W[g])
  BY DEF InLists
<1>3. W[h] \in Seq(QElms) /\ i + 1 \in 1 .. Len(W[h]) + 1
  BY <1>1
<1>4. r \in Seq(QElms) /\ IsInjective(r) /\ ToSet(r) = ToSet(W[h]) \cup {e}
  BY <1>1, <1>2, <1>3, InsertIs
<1> HIDE DEF r
<1>5. V \in [QHeads -> Seq(QElms)] /\ V[h] = r /\ \A g \in QHeads : g # h => V[g] = W[g]
  BY <1>1, <1>4 DEF InsertIn, r
<1> HIDE DEF V
<1>6. \A g \in QHeads : IsInjective(V[g])
  BY <1>1, <1>4, <1>5
<1>7. ASSUME NEW f \in QHeads, NEW g \in QHeads, f # g PROVE ToSet(V[f]) \cap ToSet(V[g]) = {}
  <2>1. ToSet(W[f]) \cap ToSet(W[g]) = {} /\ e \notin ToSet(W[f]) /\ e \notin ToSet(W[g])
    BY <1>1, <1>2, <1>7
  <2>2. CASE f = h
    BY <2>1, <2>2, <1>4, <1>5, <1>7
  <2>3. CASE g = h
    BY <2>1, <2>3, <1>4, <1>5, <1>7
  <2>4. CASE f # h /\ g # h
    BY <2>1, <2>4, <1>5
  <2> QED BY <2>2, <2>3, <2>4
<1>8. V \in Layouts
  BY <1>5, <1>6, <1>7 DEF Layouts
<1>9. InLists(V) = InLists(W) \cup {e}
  <2>1. ASSUME NEW x \in InLists(V) PROVE x \in InLists(W) \cup {e}
    <3>1. PICK g \in QHeads : x \in ToSet(V[g])
      BY <2>1 DEF InLists
    <3>2. x \in ToSet(W[g]) \/ x = e
      BY <3>1, <1>4, <1>5
    <3> QED BY <3>2 DEF InLists
  <2>2. ASSUME NEW x \in InLists(W) PROVE x \in InLists(V)
    <3>1. PICK g \in QHeads : x \in ToSet(W[g])
      BY <2>2 DEF InLists
    <3>2. x \in ToSet(V[g])
      BY <3>1, <1>4, <1>5
    <3> QED BY <3>2 DEF InLists
  <2>3. e \in InLists(V)
    BY <1>4, <1>5 DEF InLists
  <2> QED BY <2>1, <2>2, <2>3
<1> QED BY <1>8, <1>9 DEF V

(* Which cell is where after an insertion, and what follows it.            *)
LEMMA InsertCells ==
  ASSUME NEW W \in Layouts, NEW h \in QHeads, NEW i \in 0 .. Len(W[h]), NEW e \in QElms \ InLists(W)
  PROVE  LET v == W[h]
             r == InsertIn(W, h, i, e)[h] IN
         /\ Len(r) = Len(v) + 1
         /\ \A g \in QHeads : g # h => InsertIn(W, h, i, e)[g] = W[g]
         /\ \A k \in 0 .. i : Cell(h, r, k) = Cell(h, v, k)
         /\ Cell(h, r, i + 1) = e
         /\ \A k \in i + 1 .. Len(v) : Cell(h, r, k + 1) = Cell(h, v, k)
         /\ \A k \in 0 .. i : k # i => After(r, k) = After(v, k)
         /\ After(r, i) = e
         /\ \A k \in i .. Len(v) : After(r, k + 1) = After(v, k)
<1> DEFINE v == W[h]
           r == InsertAt(v, i + 1, e)
           n == Len(v)
<1>0. v \in Seq(QElms) /\ n \in Nat /\ i \in Nat /\ i <= n
  BY LayoutIs
<1>1. /\ Len(r) = n + 1 /\ r[i + 1] = e
      /\ \A k \in 1 .. i : r[k] = v[k]
      /\ \A k \in i + 2 .. n + 1 : r[k] = v[k - 1]
  <2>1. v \in Seq(QElms) /\ i \in 0 .. Len(v) /\ e \in QElms
    BY <1>0
  <2> HIDE DEF v
  <2>2. IsInsertion(r, v, i, e)
    BY <2>1, InsertPlaces
  <2> HIDE DEF r
  <2> QED BY <2>2 DEF IsInsertion
<1>2. InsertIn(W, h, i, e)[h] = r /\ \A g \in QHeads : g # h => InsertIn(W, h, i, e)[g] = W[g]
  BY DEF InsertIn, Layouts
<1> HIDE DEF r, v, n
<1>3. \A k \in 0 .. i : Cell(h, r, k) = Cell(h, v, k)
  BY <1>0, <1>1 DEF Cell
<1>4. Cell(h, r, i + 1) = e
  BY <1>0, <1>1 DEF Cell
<1>5. \A k \in i + 1 .. n : Cell(h, r, k + 1) = Cell(h, v, k)
  <2> TAKE k \in i + 1 .. n
  <2>1. k + 1 \in i + 2 .. n + 1 /\ (k + 1) - 1 = k /\ k # 0 /\ k + 1 # 0
    BY <1>0
  <2> QED BY <2>1, <1>1 DEF Cell
<1>6. \A k \in 0 .. i : k # i => After(r, k) = After(v, k)
  <2> TAKE k \in 0 .. i
  <2> HAVE k # i
  <2>1. k + 1 \in 1 .. i /\ k # n /\ k # n + 1
    BY <1>0
  <2> QED BY <2>1, <1>1 DEF After, n
<1>7. After(r, i) = e
  BY <1>0, <1>1 DEF After
<1>8. \A k \in i .. n : After(r, k + 1) = After(v, k)
  <2> TAKE k \in i .. n
  <2>1. CASE k = n
    BY <2>1, <1>1 DEF After, n
  <2>2. CASE k # n
    <3>1. (k + 1) + 1 \in i + 2 .. n + 1 /\ ((k + 1) + 1) - 1 = k + 1 /\ k + 1 # n + 1
      BY <2>2, <1>0
    <3> QED BY <3>1, <2>2, <1>1 DEF After, n
  <2> QED BY <2>1, <2>2
<1> QED BY <1>1, <1>2, <1>3, <1>4, <1>5, <1>6, <1>7, <1>8 DEF v, n

(* An element follows one cell, the one before it in its list.             *)
LEMMA FollowsOne ==
  ASSUME NEW s, NEW W \in Layouts, NextOk(s, W), NEW h \in QHeads, NEW i \in 0 .. Len(W[h])
  PROVE  /\ s.nxt[Cell(h, W[h], i)] = After(W[h], i)
         /\ i = Len(W[h]) <=> s.nxt[Cell(h, W[h], i)] = NoElm
         /\ i # Len(W[h]) => i + 1 \in 1 .. Len(W[h]) /\ s.nxt[Cell(h, W[h], i)] = W[h][i + 1]
         /\ \A g \in QHeads : \A k \in 1 .. Len(W[g]) :
              W[g][k] = s.nxt[Cell(h, W[h], i)] <=> g = h /\ k = i + 1
<1>1. s.nxt[Cell(h, W[h], i)] = After(W[h], i) /\ Len(W[h]) \in Nat /\ i \in Nat /\ i <= Len(W[h])
  BY LayoutIs DEF NextOk
<1>2. i # Len(W[h]) => i + 1 \in 1 .. Len(W[h])
  BY <1>1
<1>3. i # Len(W[h]) => s.nxt[Cell(h, W[h], i)] = W[h][i + 1] /\ W[h][i + 1] \in QElms
  BY <1>1, <1>2, LayoutIs DEF After
<1>4. i = Len(W[h]) => s.nxt[Cell(h, W[h], i)] = NoElm
  BY <1>1 DEF After
<1>5. NoElm \notin QElms
  BY QueueAssumption
<1>6. ASSUME NEW g \in QHeads, NEW k \in 1 .. Len(W[g])
      PROVE  W[g][k] = s.nxt[Cell(h, W[h], i)] <=> g = h /\ k = i + 1
  <2>1. W[g][k] \in QElms
    BY LayoutIs
  <2>2. CASE i = Len(W[h])
    <3>1. ~ (g = h /\ k = i + 1)
      BY <2>2, <1>1
    <3> QED BY <2>1, <2>2, <3>1, <1>4, <1>5
  <2>3. CASE i # Len(W[h])
    <3>1. W[g][k] = W[h][i + 1] => g = h
      BY <2>3, <1>2, LayoutIs
    <3>2. g = h /\ W[g][k] = W[h][i + 1] => k = i + 1
      BY <2>3, <1>2, LayoutIs
    <3> QED BY <3>1, <3>2, <2>3, <1>3
  <2> QED BY <2>2, <2>3
<1> QED BY <1>1, <1>2, <1>3, <1>4, <1>5, <1>6

LEMMA InsertNext ==
  ASSUME NEW s, NEW s2, NEW kind, NEW W, Rep(s, kind, W), NEW h \in QHeads, NEW i \in 0 .. Len(W[h]),
         NEW e \in QElms \ InLists(W), Inserted(s, s2, kind, h, Cell(h, W[h], i), e)
  PROVE  NextOk(s2, InsertIn(W, h, i, e))
<1> DEFINE V == InsertIn(W, h, i, e)
           v == W[h]
           r == V[h]
           n == Len(v)
           c == Cell(h, v, i)
<1>0. W \in Layouts /\ s \in LinkStates /\ NextOk(s, W)
  BY DEF Rep
<1>1. v \in Seq(QElms) /\ n \in Nat /\ i \in Nat /\ i <= n
  BY <1>0, LayoutIs
<1>2. V \in Layouts /\ InLists(V) = InLists(W) \cup {e}
  BY <1>0, InsertLayout
<1>3. /\ Len(r) = n + 1
      /\ \A g \in QHeads : g # h => V[g] = W[g]
      /\ \A k \in 0 .. i : Cell(h, r, k) = Cell(h, v, k)
      /\ Cell(h, r, i + 1) = e
      /\ \A k \in i + 1 .. n : Cell(h, r, k + 1) = Cell(h, v, k)
      /\ \A k \in 0 .. i : k # i => After(r, k) = After(v, k)
      /\ After(r, i) = e
      /\ \A k \in i .. n : After(r, k + 1) = After(v, k)
  BY <1>0, InsertCells
<1>4. c \in QCells /\ e \in QCells /\ c # e /\ s.nxt[c] = After(v, i)
  BY <1>0, CellsApart, FollowsOne DEF QCells
<1>5. /\ s2.nxt[e] = s.nxt[c] /\ s2.nxt[c] = e
      /\ \A x \in QCells : x # c /\ x # e => s2.nxt[x] = s.nxt[x]
  BY <1>0, <1>4 DEF Inserted, LinkStates
<1>6. \A g \in QHeads : \A k \in 0 .. Len(W[g]) :
        /\ s.nxt[Cell(g, W[g], k)] = After(W[g], k) /\ Cell(g, W[g], k) \in QCells
        /\ Cell(g, W[g], k) # e /\ (Cell(g, W[g], k) = c => g = h /\ k = i)
  <2> TAKE g \in QHeads
  <2> TAKE k \in 0 .. Len(W[g])
  <2>1. s.nxt[Cell(g, W[g], k)] = After(W[g], k)
    BY <1>0, FollowsOne
  <2>2. Cell(g, W[g], k) \in QCells /\ Cell(g, W[g], k) # e
    BY <1>0, CellsApart
  <2>3. Cell(g, W[g], k) = Cell(h, W[h], i) => g = h /\ k = i
    BY <1>0, CellsApart
  <2> QED BY <2>1, <2>2, <2>3
<1> HIDE DEF V, c, r, n, v
<1>7. ASSUME NEW g \in QHeads, g # h, NEW k \in 0 .. Len(V[g])
      PROVE  s2.nxt[Cell(g, V[g], k)] = After(V[g], k)
  BY <1>3, <1>5, <1>6, <1>7
<1>8. ASSUME NEW k \in 0 .. n + 1
      PROVE  s2.nxt[Cell(h, r, k)] = After(r, k)
  <2>1. CASE k < i
    <3>1. k \in 0 .. i /\ k \in 0 .. n /\ k # i
      BY <2>1, <1>1
    <3>2. Cell(h, v, k) \in QCells /\ Cell(h, v, k) # c /\ Cell(h, v, k) # e /\ s.nxt[Cell(h, v, k)] = After(v, k)
      BY <3>1, <1>6 DEF v, n
    <3> QED BY <3>1, <3>2, <1>3, <1>5
  <2>2. CASE k = i
    <3>1. i \in 0 .. i /\ Cell(h, r, i) = c
      BY <1>1, <1>3 DEF c
    <3> QED BY <2>2, <3>1, <1>3, <1>5
  <2>3. CASE k = i + 1
    <3>1. i \in i .. n
      BY <1>1
    <3> QED BY <2>3, <3>1, <1>3, <1>4, <1>5
  <2>4. CASE i + 1 < k
    <3> DEFINE j == k - 1
    <3>1. j \in i + 1 .. n /\ j \in i .. n /\ j \in 0 .. n /\ j # i /\ j + 1 = k
      BY <2>4, <1>1
    <3> HIDE DEF j
    <3>2. Cell(h, v, j) \in QCells /\ Cell(h, v, j) # c /\ Cell(h, v, j) # e /\ s.nxt[Cell(h, v, j)] = After(v, j)
      BY <3>1, <1>6 DEF v, n
    <3> QED BY <3>1, <3>2, <1>3, <1>5
  <2>5. k < i \/ k = i \/ k = i + 1 \/ i + 1 < k
    BY <1>1
  <2> QED BY <2>2, <2>3, <2>4, <2>5, <2>1
<1>9. ASSUME NEW x \in QElms \ InLists(V) PROVE s2.nxt[x] = NoElm
  <2>1. x \in QElms \ InLists(W) /\ x # e /\ x \in QCells
    BY <1>2 DEF QCells
  <2>2. x # c
    BY <2>1, <1>0, CellsApart DEF c, v
  <2> QED BY <2>1, <2>2, <1>0, <1>5 DEF NextOk
<1>10. \A g \in QHeads : \A k \in 0 .. Len(V[g]) : s2.nxt[Cell(g, V[g], k)] = After(V[g], k)
  BY <1>3, <1>7, <1>8 DEF r
<1>11. NextOk(s2, V)
  BY <1>9, <1>10 DEF NextOk
<1> QED BY <1>11 DEF V

LEMMA InsertLast ==
  ASSUME NEW s, NEW s2, NEW kind, NEW W, Rep(s, kind, W), NEW h \in QHeads, NEW i \in 0 .. Len(W[h]),
         NEW e \in QElms \ InLists(W), Inserted(s, s2, kind, h, Cell(h, W[h], i), e), HasLast(kind)
  PROVE  LastOk(s2, InsertIn(W, h, i, e))
<1> DEFINE V == InsertIn(W, h, i, e)
           v == W[h]
           r == V[h]
           n == Len(v)
           c == Cell(h, v, i)
<1>0. W \in Layouts /\ s \in LinkStates /\ NextOk(s, W) /\ LastOk(s, W)
  BY DEF Rep
<1>1. v \in Seq(QElms) /\ n \in Nat /\ i \in Nat /\ i <= n
  BY <1>0, LayoutIs
<1>2. /\ Len(r) = n + 1
      /\ \A g \in QHeads : g # h => V[g] = W[g]
      /\ Cell(h, r, i + 1) = e
      /\ \A k \in i + 1 .. n : Cell(h, r, k + 1) = Cell(h, v, k)
  BY <1>0, InsertCells
<1>3. (i = n <=> s.nxt[c] = NoElm) /\ s2.last = LastTo(s, h, s.nxt[c], e)
  BY <1>0, FollowsOne DEF Inserted
<1>4. s.last[h] = Cell(h, v, n) /\ \A g \in QHeads : s.last[g] = Cell(g, W[g], Len(W[g]))
  BY <1>0 DEF LastOk
<1> HIDE DEF V, c, r, n, v
<1>5. \A g \in QHeads : g # h => s2.last[g] = s.last[g]
  BY <1>0, <1>3 DEF LastTo, LinkStates
<1>6. s2.last[h] = Cell(h, r, n + 1)
  <2>1. CASE i = n
    BY <2>1, <1>0, <1>2, <1>3 DEF LastTo, LinkStates
  <2>2. CASE i # n
    <3>1. n \in i + 1 .. n
      BY <2>2, <1>1
    <3> QED BY <2>2, <3>1, <1>2, <1>3, <1>4 DEF LastTo
  <2> QED BY <2>1, <2>2
<1>7. \A g \in QHeads : s2.last[g] = Cell(g, V[g], Len(V[g]))
  BY <1>2, <1>4, <1>5, <1>6 DEF r
<1> QED BY <1>7 DEF V, LastOk

LEMMA InsertPrev ==
  ASSUME NEW s, NEW s2, NEW kind, NEW W, Rep(s, kind, W), NEW h \in QHeads, NEW i \in 0 .. Len(W[h]),
         NEW e \in QElms \ InLists(W), Inserted(s, s2, kind, h, Cell(h, W[h], i), e), HasPrev(kind)
  PROVE  PrevOk(s2, InsertIn(W, h, i, e))
<1> DEFINE V == InsertIn(W, h, i, e)
           v == W[h]
           r == V[h]
           n == Len(v)
           c == Cell(h, v, i)
<1>0. W \in Layouts /\ s \in LinkStates /\ NextOk(s, W) /\ PrevOk(s, W)
  BY DEF Rep
<1>1. v \in Seq(QElms) /\ n \in Nat /\ i \in Nat /\ i <= n
  BY <1>0, LayoutIs
<1>2. /\ Len(r) = n + 1
      /\ \A g \in QHeads : g # h => V[g] = W[g]
      /\ \A k \in 0 .. i : Cell(h, r, k) = Cell(h, v, k)
      /\ Cell(h, r, i + 1) = e
      /\ \A k \in i + 1 .. n : Cell(h, r, k + 1) = Cell(h, v, k)
  BY <1>0, InsertCells
<1>3. \A x \in QElms : s2.prv[x] = IF x = e THEN c ELSE IF x = s.nxt[c] THEN e ELSE s.prv[x]
  BY DEF Inserted
<1>4. \A g \in QHeads : \A k \in 1 .. Len(W[g]) :
        /\ s.prv[W[g][k]] = Cell(g, W[g], k - 1) /\ W[g][k] \in QElms /\ W[g][k] # e
        /\ (W[g][k] = s.nxt[c] <=> g = h /\ k = i + 1)
  BY <1>0, LayoutIs, FollowsOne DEF PrevOk
<1>5. \A k \in 1 .. n : /\ s.prv[v[k]] = Cell(h, v, k - 1) /\ v[k] \in QElms /\ v[k] # e
                        /\ (v[k] = s.nxt[c] <=> k = i + 1)
  BY <1>4
<1> HIDE DEF V, c, r, n, v
<1>6. ASSUME NEW g \in QHeads, g # h, NEW k \in 1 .. Len(V[g])
      PROVE  s2.prv[V[g][k]] = Cell(g, V[g], k - 1)
  BY <1>2, <1>3, <1>4, <1>6
<1>7. ASSUME NEW k \in 1 .. n + 1
      PROVE  s2.prv[r[k]] = Cell(h, r, k - 1)
  <2>0. r[k] = Cell(h, r, k)
    BY DEF Cell
  <2>1. CASE k <= i
    <3>1. k \in 0 .. i /\ k - 1 \in 0 .. i /\ k \in 1 .. n /\ k # i + 1 /\ k # 0
      BY <2>1, <1>1
    <3>2. r[k] = v[k]
      BY <3>1, <2>0, <1>2 DEF Cell
    <3> QED BY <3>1, <3>2, <1>2, <1>3, <1>5
  <2>2. CASE k = i + 1
    <3>1. k - 1 = i /\ i \in 0 .. i
      BY <2>2, <1>1
    <3>2. r[k] = e
      BY <2>0, <2>2, <1>2
    <3> QED BY <3>1, <3>2, <1>2, <1>3 DEF c
  <2>3. CASE k = i + 2
    <3>1. i + 1 \in i + 1 .. n /\ i + 1 \in 1 .. n /\ (i + 1) + 1 = k /\ k - 1 = i + 1 /\ i + 1 # 0
      BY <2>3, <1>1
    <3>2. r[k] = v[i + 1]
      BY <3>1, <2>0, <1>2 DEF Cell
    <3> QED BY <3>1, <3>2, <1>2, <1>3, <1>5
  <2>4. CASE i + 2 < k
    <3> DEFINE j == k - 2
    <3>1. /\ j \in i + 1 .. n /\ j + 1 \in i + 1 .. n /\ j + 1 \in 1 .. n /\ (j + 1) + 1 = k
          /\ k - 1 = j + 1 /\ (j + 1) - 1 = j /\ j + 1 # 0 /\ j + 1 # i + 1
      BY <2>4, <1>1
    <3> HIDE DEF j
    <3>2. r[k] = v[j + 1]
      BY <3>1, <2>0, <1>2 DEF Cell
    <3>3. s2.prv[r[k]] = Cell(h, v, j)
      BY <3>1, <3>2, <1>3, <1>5
    <3>4. Cell(h, r, j + 1) = Cell(h, v, j)
      BY <3>1, <1>2
    <3> QED BY <3>1, <3>3, <3>4
  <2>5. k <= i \/ k = i + 1 \/ k = i + 2 \/ i + 2 < k
    BY <1>1
  <2> QED BY <2>2, <2>3, <2>4, <2>5, <2>1
<1>8. \A g \in QHeads : \A k \in 1 .. Len(V[g]) : s2.prv[V[g][k]] = Cell(g, V[g], k - 1)
  BY <1>2, <1>6, <1>7 DEF r
<1> QED BY <1>8 DEF V, PrevOk

(* An insertion in the pointers is one in the sequence.                    *)
LEMMA InsertRep ==
  ASSUME NEW s, NEW s2, NEW kind, NEW W, Rep(s, kind, W), NEW h \in QHeads, NEW i \in 0 .. Len(W[h]),
         NEW e \in QElms \ InLists(W), Inserted(s, s2, kind, h, Cell(h, W[h], i), e)
  PROVE  Rep(s2, kind, InsertIn(W, h, i, e))
<1>1. W \in Layouts
  BY DEF Rep
<1>2. InsertIn(W, h, i, e) \in Layouts
  BY <1>1, InsertLayout
<1>3. s2 \in LinkStates
  BY DEF Inserted
<1>4. NextOk(s2, InsertIn(W, h, i, e))
  BY InsertNext
<1>5. HasLast(kind) => LastOk(s2, InsertIn(W, h, i, e))
  BY InsertLast
<1>6. HasPrev(kind) => PrevOk(s2, InsertIn(W, h, i, e))
  BY InsertPrev
<1> QED BY <1>2, <1>3, <1>4, <1>5, <1>6 DEF Rep

LEMMA RemoveLayout ==
  ASSUME NEW W \in Layouts, NEW h \in QHeads, NEW i \in 1 .. Len(W[h])
  PROVE  /\ RemoveIn(W, h, i) \in Layouts
         /\ InLists(RemoveIn(W, h, i)) = InLists(W) \ {W[h][i]}
<1> DEFINE V == RemoveIn(W, h, i)
           e == W[h][i]
           r == RemoveAt(W[h], i)
<1>1. /\ W \in [QHeads -> Seq(QElms)] /\ \A g \in QHeads : IsInjective(W[g])
      /\ \A f, g \in QHeads : f # g => ToSet(W[f]) \cap ToSet(W[g]) = {}
  BY DEF Layouts
<1>2. W[h] \in Seq(QElms) /\ i \in DOMAIN W[h] /\ IsInjective(W[h]) /\ e \in ToSet(W[h])
  BY <1>1, LayoutIs
<1>3. r \in Seq(QElms) /\ IsInjective(r) /\ ToSet(r) = ToSet(W[h]) \ {e}
  BY <1>2, RemoveIndex
<1> HIDE DEF r, e
<1>5. V \in [QHeads -> Seq(QElms)] /\ V[h] = r /\ \A g \in QHeads : g # h => V[g] = W[g]
  BY <1>1, <1>3 DEF RemoveIn, r
<1> HIDE DEF V
<1>6. \A g \in QHeads : IsInjective(V[g])
  BY <1>1, <1>3, <1>5
<1>4. \A g \in QHeads : ToSet(V[g]) \subseteq ToSet(W[g])
  BY <1>3, <1>5
<1>7. ASSUME NEW f \in QHeads, NEW g \in QHeads, f # g PROVE ToSet(V[f]) \cap ToSet(V[g]) = {}
  <2>1. ToSet(W[f]) \cap ToSet(W[g]) = {}
    BY <1>1, <1>7
  <2> QED BY <2>1, <1>4
<1>8. V \in Layouts
  BY <1>5, <1>6, <1>7 DEF Layouts
<1>9. InLists(V) = InLists(W) \ {e}
  <2>1. ASSUME NEW x \in InLists(V) PROVE x \in InLists(W) \ {e}
    <3>1. PICK g \in QHeads : x \in ToSet(V[g])
      BY <2>1 DEF InLists
    <3>2. x \in ToSet(W[g])
      BY <3>1, <1>4
    <3>3. x # e
      <4>1. CASE g = h
        BY <4>1, <3>1, <1>3, <1>5
      <4>2. CASE g # h
        <5>1. ToSet(W[g]) \cap ToSet(W[h]) = {}
          BY <4>2, <1>1
        <5> QED BY <5>1, <3>2, <1>2
      <4> QED BY <4>1, <4>2
    <3> QED BY <3>2, <3>3 DEF InLists
  <2>2. ASSUME NEW x \in InLists(W), x # e PROVE x \in InLists(V)
    <3>1. PICK g \in QHeads : x \in ToSet(W[g])
      BY <2>2 DEF InLists
    <3>2. x \in ToSet(V[g])
      BY <3>1, <2>2, <1>3, <1>5
    <3> QED BY <3>2 DEF InLists
  <2> QED BY <2>1, <2>2
<1> QED BY <1>8, <1>9 DEF V, e

LEMMA RemoveCells ==
  ASSUME NEW W \in Layouts, NEW h \in QHeads, NEW i \in 1 .. Len(W[h])
  PROVE  LET v == W[h]
             r == RemoveIn(W, h, i)[h] IN
         /\ Len(r) = Len(v) - 1
         /\ \A g \in QHeads : g # h => RemoveIn(W, h, i)[g] = W[g]
         /\ \A k \in 0 .. i - 1 : Cell(h, r, k) = Cell(h, v, k)
         /\ \A k \in i .. Len(v) - 1 : Cell(h, r, k) = Cell(h, v, k + 1)
         /\ \A k \in 0 .. i - 2 : After(r, k) = After(v, k)
         /\ \A k \in i - 1 .. Len(v) - 1 : After(r, k) = After(v, k + 1)
<1> DEFINE v == W[h]
           r == RemoveAt(v, i)
           n == Len(v)
<1>0. v \in Seq(QElms) /\ n \in Nat /\ i \in Nat /\ 1 <= i /\ i <= n
  BY LayoutIs
<1>1. /\ Len(r) = n - 1
      /\ \A k \in 1 .. i - 1 : r[k] = v[k]
      /\ \A k \in i .. n - 1 : r[k] = v[k + 1]
  <2>1. v \in Seq(QElms) /\ i \in 1 .. Len(v)
    BY <1>0
  <2> HIDE DEF v
  <2>2. IsRemoval(r, v, i)
    BY <2>1, RemovePlaces
  <2> HIDE DEF r
  <2> QED BY <2>2 DEF IsRemoval
<1>2. RemoveIn(W, h, i)[h] = r /\ \A g \in QHeads : g # h => RemoveIn(W, h, i)[g] = W[g]
  BY DEF RemoveIn, Layouts
<1> HIDE DEF r, v, n
<1>3. \A k \in 0 .. i - 1 : Cell(h, r, k) = Cell(h, v, k)
  BY <1>0, <1>1 DEF Cell
<1>4. \A k \in i .. n - 1 : Cell(h, r, k) = Cell(h, v, k + 1)
  <2> TAKE k \in i .. n - 1
  <2>1. k # 0 /\ k + 1 # 0
    BY <1>0
  <2> QED BY <2>1, <1>1 DEF Cell
<1>5. \A k \in 0 .. i - 2 : After(r, k) = After(v, k)
  <2> TAKE k \in 0 .. i - 2
  <2>1. k + 1 \in 1 .. i - 1 /\ k # n /\ k # n - 1
    BY <1>0
  <2> QED BY <2>1, <1>1 DEF After, n
<1>6. \A k \in i - 1 .. n - 1 : After(r, k) = After(v, k + 1)
  <2> TAKE k \in i - 1 .. n - 1
  <2>1. CASE k = n - 1
    <3>1. k + 1 = n
      BY <2>1, <1>0
    <3> QED BY <2>1, <3>1, <1>1 DEF After, n
  <2>2. CASE k # n - 1
    <3>1. k + 1 \in i .. n - 1 /\ k + 1 # n
      BY <2>2, <1>0
    <3> QED BY <3>1, <2>2, <1>1 DEF After, n
  <2> QED BY <2>1, <2>2
<1> QED BY <1>1, <1>2, <1>3, <1>4, <1>5, <1>6 DEF v, n

LEMMA RemoveNext ==
  ASSUME NEW s, NEW s2, NEW kind, NEW W, Rep(s, kind, W), NEW h \in QHeads, NEW i \in 1 .. Len(W[h]),
         Removed(s, s2, kind, h, Cell(h, W[h], i - 1), W[h][i])
  PROVE  NextOk(s2, RemoveIn(W, h, i))
<1> DEFINE V == RemoveIn(W, h, i)
           v == W[h]
           r == V[h]
           n == Len(v)
           c == Cell(h, v, i - 1)
           e == v[i]
<1>0. W \in Layouts /\ s \in LinkStates /\ NextOk(s, W)
  BY DEF Rep
<1>1. /\ v \in Seq(QElms) /\ n \in Nat /\ i \in Nat /\ 1 <= i /\ i <= n
      /\ i \in 0 .. n /\ i - 1 \in 0 .. n /\ i # 0
  BY <1>0, LayoutIs
<1>2. V \in Layouts /\ InLists(V) = InLists(W) \ {e}
  BY <1>0, RemoveLayout
<1>3. /\ Len(r) = n - 1
      /\ \A g \in QHeads : g # h => V[g] = W[g]
      /\ \A k \in 0 .. i - 1 : Cell(h, r, k) = Cell(h, v, k)
      /\ \A k \in i .. n - 1 : Cell(h, r, k) = Cell(h, v, k + 1)
      /\ \A k \in 0 .. i - 2 : After(r, k) = After(v, k)
      /\ \A k \in i - 1 .. n - 1 : After(r, k) = After(v, k + 1)
  BY <1>0, RemoveCells
<1>4. e = Cell(h, v, i)
  BY <1>1 DEF Cell
<1>5. \A g \in QHeads : \A k \in 0 .. Len(W[g]) :
        /\ s.nxt[Cell(g, W[g], k)] = After(W[g], k) /\ Cell(g, W[g], k) \in QCells
        /\ (Cell(g, W[g], k) = e => g = h /\ k = i) /\ (Cell(g, W[g], k) = c => g = h /\ k = i - 1)
  <2> TAKE g \in QHeads
  <2> TAKE k \in 0 .. Len(W[g])
  <2>1. s.nxt[Cell(g, W[g], k)] = After(W[g], k)
    BY <1>0, FollowsOne
  <2>2. Cell(g, W[g], k) \in QCells
    BY <1>0, CellsApart
  <2>3. Cell(g, W[g], k) = Cell(h, W[h], i) => g = h /\ k = i
    BY <1>0, <1>1, CellsApart
  <2>4. Cell(g, W[g], k) = Cell(h, W[h], i - 1) => g = h /\ k = i - 1
    BY <1>0, <1>1, CellsApart
  <2> QED BY <2>1, <2>2, <2>3, <2>4, <1>4
<1>6. \A k \in 0 .. n :
        /\ s.nxt[Cell(h, v, k)] = After(v, k) /\ Cell(h, v, k) \in QCells
        /\ (Cell(h, v, k) = e => k = i) /\ (Cell(h, v, k) = c => k = i - 1)
  BY <1>5
<1> HIDE DEF V, c, r, n, v, e
<1>7. c \in QCells /\ e \in QCells /\ c # e /\ s.nxt[e] = After(v, i)
  <2>1. i # i - 1
    BY <1>1
  <2> QED BY <2>1, <1>1, <1>4, <1>6 DEF c
<1>8. /\ s2.nxt[c] = s.nxt[e] /\ s2.nxt[e] = NoElm
      /\ \A x \in QCells : x # c /\ x # e => s2.nxt[x] = s.nxt[x]
  BY <1>0, <1>7 DEF Removed, LinkStates, c, e, v
<1>9. ASSUME NEW g \in QHeads, g # h, NEW k \in 0 .. Len(V[g])
      PROVE  s2.nxt[Cell(g, V[g], k)] = After(V[g], k)
  BY <1>3, <1>5, <1>8, <1>9
<1>10. ASSUME NEW k \in 0 .. n - 1
       PROVE  s2.nxt[Cell(h, r, k)] = After(r, k)
  <2>1. CASE k < i - 1
    <3>1. k \in 0 .. i - 1 /\ k \in 0 .. i - 2 /\ k \in 0 .. n /\ k # i /\ k # i - 1
      BY <2>1, <1>1
    <3>2. Cell(h, v, k) \in QCells /\ Cell(h, v, k) # c /\ Cell(h, v, k) # e /\ s.nxt[Cell(h, v, k)] = After(v, k)
      BY <3>1, <1>6
    <3> QED BY <3>1, <3>2, <1>3, <1>8
  <2>2. CASE k = i - 1
    <3>1. i - 1 \in 0 .. i - 1 /\ i - 1 \in i - 1 .. n - 1 /\ (i - 1) + 1 = i
      BY <1>1
    <3>2. Cell(h, r, i - 1) = c /\ After(r, i - 1) = After(v, i)
      BY <3>1, <1>3 DEF c
    <3> QED BY <2>2, <3>2, <1>7, <1>8
  <2>3. CASE i <= k
    <3> DEFINE j == k + 1
    <3>1. k \in i .. n - 1 /\ k \in i - 1 .. n - 1 /\ j \in 0 .. n /\ j # i /\ j # i - 1
      BY <2>3, <1>1
    <3>2. Cell(h, r, k) = Cell(h, v, j) /\ After(r, k) = After(v, j)
      BY <3>1, <1>3
    <3> HIDE DEF j
    <3>3. Cell(h, v, j) \in QCells /\ Cell(h, v, j) # c /\ Cell(h, v, j) # e /\ s.nxt[Cell(h, v, j)] = After(v, j)
      BY <3>1, <1>6
    <3> QED BY <3>2, <3>3, <1>8
  <2>4. k < i - 1 \/ k = i - 1 \/ i <= k
    BY <1>1
  <2> QED BY <2>1, <2>2, <2>3, <2>4
<1>11. ASSUME NEW x \in QElms \ InLists(V) PROVE s2.nxt[x] = NoElm
  <2>1. CASE x = e
    BY <2>1, <1>8
  <2>2. CASE x # e
    <3>1. x \in QElms \ InLists(W) /\ x \in QCells
      BY <2>2, <1>2 DEF QCells
    <3>2. x # c
      BY <3>1, <1>0, <1>1, CellsApart DEF c, v, n
    <3> QED BY <2>2, <3>1, <3>2, <1>0, <1>8 DEF NextOk
  <2> QED BY <2>1, <2>2
<1>12. \A g \in QHeads : \A k \in 0 .. Len(V[g]) : s2.nxt[Cell(g, V[g], k)] = After(V[g], k)
  BY <1>3, <1>9, <1>10 DEF r
<1>13. NextOk(s2, V)
  BY <1>11, <1>12 DEF NextOk
<1> QED BY <1>13 DEF V

LEMMA RemoveLast ==
  ASSUME NEW s, NEW s2, NEW kind, NEW W, Rep(s, kind, W), NEW h \in QHeads, NEW i \in 1 .. Len(W[h]),
         Removed(s, s2, kind, h, Cell(h, W[h], i - 1), W[h][i]), HasLast(kind)
  PROVE  LastOk(s2, RemoveIn(W, h, i))
<1> DEFINE V == RemoveIn(W, h, i)
           v == W[h]
           r == V[h]
           n == Len(v)
           c == Cell(h, v, i - 1)
           e == v[i]
<1>0. W \in Layouts /\ s \in LinkStates /\ NextOk(s, W) /\ LastOk(s, W)
  BY DEF Rep
<1>1. v \in Seq(QElms) /\ n \in Nat /\ i \in Nat /\ 1 <= i /\ i <= n /\ i \in 0 .. n /\ i # 0
  BY <1>0, LayoutIs
<1>2. /\ Len(r) = n - 1
      /\ \A g \in QHeads : g # h => V[g] = W[g]
      /\ \A k \in 0 .. i - 1 : Cell(h, r, k) = Cell(h, v, k)
      /\ \A k \in i .. n - 1 : Cell(h, r, k) = Cell(h, v, k + 1)
  BY <1>0, RemoveCells
<1>3. (i = n <=> s.nxt[Cell(h, v, i)] = NoElm) /\ e = Cell(h, v, i) /\ s2.last = LastTo(s, h, s.nxt[e], c)
  BY <1>0, <1>1, FollowsOne DEF Removed, Cell
<1>4. s.last[h] = Cell(h, v, n) /\ \A g \in QHeads : s.last[g] = Cell(g, W[g], Len(W[g]))
  BY <1>0 DEF LastOk
<1> HIDE DEF V, c, r, n, v, e
<1>5. \A g \in QHeads : g # h => s2.last[g] = s.last[g]
  BY <1>0, <1>3 DEF LastTo, LinkStates
<1>6. s2.last[h] = Cell(h, r, n - 1)
  <2>1. CASE i = n
    <3>1. i - 1 \in 0 .. i - 1
      BY <1>1
    <3>2. Cell(h, r, n - 1) = c
      BY <2>1, <3>1, <1>2 DEF c
    <3> QED BY <2>1, <3>2, <1>0, <1>3 DEF LastTo, LinkStates
  <2>2. CASE i # n
    <3>1. n - 1 \in i .. n - 1 /\ (n - 1) + 1 = n
      BY <2>2, <1>1
    <3>2. Cell(h, r, n - 1) = Cell(h, v, n)
      BY <3>1, <1>2
    <3> QED BY <2>2, <3>2, <1>3, <1>4 DEF LastTo
  <2> QED BY <2>1, <2>2
<1>7. \A g \in QHeads : s2.last[g] = Cell(g, V[g], Len(V[g]))
  BY <1>2, <1>4, <1>5, <1>6 DEF r
<1> QED BY <1>7 DEF V, LastOk

LEMMA RemovePrev ==
  ASSUME NEW s, NEW s2, NEW kind, NEW W, Rep(s, kind, W), NEW h \in QHeads, NEW i \in 1 .. Len(W[h]),
         Removed(s, s2, kind, h, Cell(h, W[h], i - 1), W[h][i]), HasPrev(kind)
  PROVE  PrevOk(s2, RemoveIn(W, h, i))
<1> DEFINE V == RemoveIn(W, h, i)
           v == W[h]
           r == V[h]
           n == Len(v)
           c == Cell(h, v, i - 1)
           e == v[i]
<1>0. W \in Layouts /\ s \in LinkStates /\ NextOk(s, W) /\ PrevOk(s, W)
  BY DEF Rep
<1>1. v \in Seq(QElms) /\ n \in Nat /\ i \in Nat /\ 1 <= i /\ i <= n /\ i \in 0 .. n /\ i # 0
  BY <1>0, LayoutIs
<1>2. /\ Len(r) = n - 1
      /\ \A g \in QHeads : g # h => V[g] = W[g]
      /\ \A k \in 0 .. i - 1 : Cell(h, r, k) = Cell(h, v, k)
      /\ \A k \in i .. n - 1 : Cell(h, r, k) = Cell(h, v, k + 1)
  BY <1>0, RemoveCells
<1>3. \A x \in QElms \ {e} : s2.prv[x] = IF x = s.nxt[e] THEN c ELSE s.prv[x]
  BY DEF Removed
<1>e. e = Cell(h, v, i)
  BY <1>1 DEF Cell
<1>4. \A g \in QHeads : \A k \in 1 .. Len(W[g]) :
        /\ s.prv[W[g][k]] = Cell(g, W[g], k - 1) /\ W[g][k] \in QElms
        /\ (W[g][k] = e => g = h /\ k = i)
        /\ (W[g][k] = s.nxt[e] <=> g = h /\ k = i + 1)
  <2> TAKE g \in QHeads
  <2> TAKE k \in 1 .. Len(W[g])
  <2>1. s.prv[W[g][k]] = Cell(g, W[g], k - 1) /\ W[g][k] \in QElms
    BY <1>0, LayoutIs DEF PrevOk
  <2>2. W[g][k] = e => g = h /\ k = i
    BY <1>0, LayoutIs
  <2>3. W[g][k] = s.nxt[Cell(h, W[h], i)] <=> g = h /\ k = i + 1
    BY <1>0, <1>1, FollowsOne
  <2> QED BY <2>1, <2>2, <2>3, <1>e
<1>5. \A k \in 1 .. n : /\ s.prv[v[k]] = Cell(h, v, k - 1) /\ v[k] \in QElms /\ (v[k] = e => k = i)
                        /\ (v[k] = s.nxt[e] <=> k = i + 1)
  BY <1>4
<1> HIDE DEF V, c, r, n, v, e
<1>6. ASSUME NEW g \in QHeads, g # h, NEW k \in 1 .. Len(V[g])
      PROVE  s2.prv[V[g][k]] = Cell(g, V[g], k - 1)
  <2>1. V[g] = W[g] /\ k \in 1 .. Len(W[g])
    BY <1>2, <1>6
  <2>2. /\ s.prv[W[g][k]] = Cell(g, W[g], k - 1) /\ W[g][k] \in QElms \ {e}
        /\ W[g][k] # s.nxt[e]
    BY <2>1, <1>4, <1>6
  <2> QED BY <2>1, <2>2, <1>3
<1>7. ASSUME NEW k \in 1 .. n - 1
      PROVE  s2.prv[r[k]] = Cell(h, r, k - 1)
  <2>0. r[k] = Cell(h, r, k)
    BY DEF Cell
  <2>1. CASE k < i
    <3>1. k \in 0 .. i - 1 /\ k - 1 \in 0 .. i - 1 /\ k \in 1 .. n /\ k # i + 1 /\ k # i /\ k # 0
      BY <2>1, <1>1
    <3>2. r[k] = v[k]
      BY <3>1, <2>0, <1>2 DEF Cell
    <3>3. s2.prv[v[k]] = Cell(h, v, k - 1)
      BY <3>1, <1>3, <1>5
    <3> QED BY <3>1, <3>2, <3>3, <1>2
  <2>2. CASE k = i
    <3>1. i - 1 \in 0 .. i - 1 /\ i \in i .. n - 1 /\ i + 1 \in 1 .. n /\ i + 1 # i /\ i + 1 # 0
      BY <2>2, <1>1
    <3>2. r[i] = v[i + 1]
      BY <2>0, <2>2, <3>1, <1>2 DEF Cell
    <3>3. s2.prv[v[i + 1]] = c
      BY <3>1, <1>3, <1>5
    <3> QED BY <2>2, <3>1, <3>2, <3>3, <1>2 DEF c
  <2>3. CASE i < k
    <3>1. k \in i .. n - 1 /\ k - 1 \in i .. n - 1 /\ k + 1 \in 1 .. n /\ k + 1 # i /\ k + 1 # i + 1
          /\ (k - 1) + 1 = k /\ (k + 1) - 1 = k /\ k # 0 /\ k + 1 # 0
      BY <2>3, <1>1
    <3>2. r[k] = v[k + 1]
      BY <3>1, <2>0, <1>2 DEF Cell
    <3>3. s2.prv[v[k + 1]] = Cell(h, v, k)
      BY <3>1, <1>3, <1>5
    <3>4. Cell(h, r, k - 1) = Cell(h, v, k)
      BY <3>1, <1>2
    <3> QED BY <3>2, <3>3, <3>4
  <2>4. k < i \/ k = i \/ i < k
    BY <1>1
  <2> QED BY <2>1, <2>2, <2>3, <2>4
<1>8. \A g \in QHeads : \A k \in 1 .. Len(V[g]) : s2.prv[V[g][k]] = Cell(g, V[g], k - 1)
  BY <1>2, <1>6, <1>7 DEF r
<1> QED BY <1>8 DEF V, PrevOk

(* A removal in the pointers is one in the sequence.                       *)
LEMMA RemoveRep ==
  ASSUME NEW s, NEW s2, NEW kind, NEW W, Rep(s, kind, W), NEW h \in QHeads, NEW i \in 1 .. Len(W[h]),
         Removed(s, s2, kind, h, Cell(h, W[h], i - 1), W[h][i])
  PROVE  Rep(s2, kind, RemoveIn(W, h, i))
<1>1. W \in Layouts
  BY DEF Rep
<1>2. RemoveIn(W, h, i) \in Layouts
  BY <1>1, RemoveLayout
<1>3. s2 \in LinkStates
  BY DEF Removed
<1>4. NextOk(s2, RemoveIn(W, h, i))
  BY RemoveNext
<1>5. HasLast(kind) => LastOk(s2, RemoveIn(W, h, i))
  BY RemoveLast
<1>6. HasPrev(kind) => PrevOk(s2, RemoveIn(W, h, i))
  BY RemovePrev
<1> QED BY <1>2, <1>3, <1>4, <1>5, <1>6 DEF Rep

(* An element that takes the place of another is put where the other was   *)
(* taken out.                                                              *)
LEMMA ReplaceIs ==
  ASSUME NEW W \in Layouts, NEW h \in QHeads, NEW i \in 1 .. Len(W[h]), NEW e \in QElms \ InLists(W)
  PROVE  /\ e \in QElms \ InLists(RemoveIn(W, h, i)) /\ i - 1 \in 0 .. Len(RemoveIn(W, h, i)[h])
         /\ RemoveIn(W, h, i) \in Layouts
         /\ Cell(h, RemoveIn(W, h, i)[h], i - 1) = Cell(h, W[h], i - 1)
         /\ InsertIn(RemoveIn(W, h, i), h, i - 1, e) = [W EXCEPT ![h] = ReplaceAt(W[h], i, e)]
<1> DEFINE v == W[h]
           n == Len(v)
           R == RemoveIn(W, h, i)
           r == RemoveAt(v, i)
           a == InsertAt(r, i, e)
           b == ReplaceAt(v, i, e)
<1>0. v \in Seq(QElms) /\ n \in Nat /\ i \in Nat /\ 1 <= i /\ i <= n /\ i - 1 \in 0 .. i - 1 /\ (i - 1) + 1 = i
  BY LayoutIs
<1>1. R \in Layouts /\ InLists(R) = InLists(W) \ {v[i]}
  BY RemoveLayout
<1>2. Len(R[h]) = n - 1 /\ Cell(h, R[h], i - 1) = Cell(h, v, i - 1)
  BY <1>0, RemoveCells
<1>3. R = [W EXCEPT ![h] = r] /\ R[h] = r /\ W \in [QHeads -> Seq(QElms)]
  BY DEF RemoveIn, Layouts
<1> HIDE DEF R
<1>4. r \in Seq(QElms) /\ Len(r) = n - 1
  BY <1>1, <1>2, <1>3, LayoutIs
<1>5. /\ \A k \in 1 .. i - 1 : r[k] = v[k]
      /\ \A k \in i .. n - 1 : r[k] = v[k + 1]
  <2>1. v \in Seq(QElms) /\ i \in 1 .. Len(v)
    BY <1>0
  <2> HIDE DEF v
  <2>2. IsRemoval(r, v, i)
    BY <2>1, RemovePlaces
  <2> HIDE DEF r
  <2> QED BY <2>2 DEF IsRemoval
<1> HIDE DEF r, v
<1>6. /\ Len(a) = n /\ a[i] = e
      /\ \A k \in 1 .. i - 1 : a[k] = r[k]
      /\ \A k \in i + 1 .. n : a[k] = r[k - 1]
  <2>1. r \in Seq(QElms) /\ i - 1 \in 0 .. Len(r) /\ e \in QElms
    BY <1>0, <1>4
  <2>2. IsInsertion(InsertAt(r, (i - 1) + 1, e), r, i - 1, e)
    BY <2>1, InsertPlaces
  <2>3. IsInsertion(a, r, i - 1, e)
    BY <2>2, <1>0
  <2>4. Len(r) + 1 = n /\ (i - 1) + 2 = i + 1
    BY <1>0, <1>4
  <2> HIDE DEF a
  <2> QED BY <2>3, <2>4, <1>0 DEF IsInsertion
<1>7. a \in Seq(QElms)
  <2>1. e \in QElms \ InLists(R) /\ i - 1 \in 0 .. Len(R[h])
    BY <1>0, <1>1, <1>2
  <2>2. InsertIn(R, h, i - 1, e) \in Layouts
    BY <2>1, <1>1, InsertLayout
  <2>3. InsertIn(R, h, i - 1, e)[h] \in Seq(QElms)
    BY <2>2, LayoutIs
  <2>4. InsertIn(R, h, i - 1, e)[h] = a
    BY <1>0, <1>3, <1>1 DEF InsertIn, Layouts
  <2> QED BY <2>3, <2>4
<1>8. b \in Seq(QElms) /\ Len(b) = n /\ b[i] = e /\ \A k \in 1 .. n : k # i => b[k] = v[k]
  BY <1>0 DEF ReplaceAt
<1> HIDE DEF a, b
<1>9. \A k \in 1 .. n : a[k] = b[k]
  <2> TAKE k \in 1 .. n
  <2>1. CASE k < i
    <3>1. k \in 1 .. i - 1 /\ k # i
      BY <2>1, <1>0
    <3> QED BY <3>1, <1>5, <1>6, <1>8
  <2>2. CASE k = i
    BY <2>2, <1>6, <1>8
  <2>3. CASE i < k
    <3>1. k \in i + 1 .. n /\ k - 1 \in i .. n - 1 /\ (k - 1) + 1 = k /\ k # i
      BY <2>3, <1>0
    <3>2. a[k] = r[k - 1] /\ r[k - 1] = v[(k - 1) + 1]
      BY <3>1, <1>5, <1>6
    <3> QED BY <3>1, <3>2, <1>8
  <2>4. k < i \/ k = i \/ i < k
    BY <1>0
  <2> QED BY <2>1, <2>2, <2>3, <2>4
<1>10. a = b
  BY <1>6, <1>7, <1>8, <1>9, SameSeq
<1>11. InsertIn(R, h, i - 1, e) = [R EXCEPT ![h] = a]
  BY <1>0, <1>3 DEF InsertIn, a
<1>12. [R EXCEPT ![h] = a] = [W EXCEPT ![h] = b]
  BY <1>3, <1>10
<1>13. e \in QElms \ InLists(R) /\ i - 1 \in 0 .. Len(R[h])
  BY <1>0, <1>1, <1>2
<1> QED BY <1>1, <1>2, <1>11, <1>12, <1>13 DEF R, v, b

(* The list of g is put at the end of that of h.                           *)
Joined(s, s2, kind, h, g) ==
  /\ s2 \in LinkStates
  /\ s2.nxt = [s.nxt EXCEPT ![s.last[h]] = s.nxt[g], ![g] = NoElm]
  /\ HasPrev(kind) => s2.prv = [s.prv EXCEPT ![s.nxt[g]] = s.last[h]]
  /\ s2.last = [s.last EXCEPT ![h] = s.last[g], ![g] = g]
JoinIn(W, h, g) == [W EXCEPT ![h] = W[h] \o W[g], ![g] = <<>>]

LEMMA JoinLayout ==
  ASSUME NEW W \in Layouts, NEW h \in QHeads, NEW g \in QHeads \ {h}
  PROVE  /\ JoinIn(W, h, g) \in Layouts /\ InLists(JoinIn(W, h, g)) = InLists(W)
         /\ JoinIn(W, h, g)[h] = W[h] \o W[g] /\ JoinIn(W, h, g)[g] = <<>>
         /\ \A f \in QHeads \ {g, h} : JoinIn(W, h, g)[f] = W[f]
<1> DEFINE V == JoinIn(W, h, g)
           r == W[h] \o W[g]
<1>1. /\ W \in [QHeads -> Seq(QElms)] /\ \A f \in QHeads : IsInjective(W[f])
      /\ \A f1, f2 \in QHeads : f1 # f2 => ToSet(W[f1]) \cap ToSet(W[f2]) = {}
  BY DEF Layouts
<1>2. r \in Seq(QElms) /\ IsInjective(r) /\ ToSet(r) = ToSet(W[h]) \cup ToSet(W[g])
  <2>1. /\ W[h] \in Seq(QElms) /\ W[g] \in Seq(QElms) /\ IsInjective(W[h]) /\ IsInjective(W[g])
        /\ ToSet(W[h]) \cap ToSet(W[g]) = {}
    BY <1>1
  <2> QED BY <2>1, Concat
<1>3. <<>> \in Seq(QElms) /\ IsInjective(<<>>) /\ ToSet(<<>>) = {}
  BY DEF IsInjective, ToSet
<1> HIDE DEF r
<1>4. /\ V \in [QHeads -> Seq(QElms)] /\ V[h] = r /\ V[g] = <<>>
      /\ \A f \in QHeads \ {g, h} : V[f] = W[f]
  BY <1>1, <1>2, <1>3 DEF JoinIn, r
<1> HIDE DEF V
<1>5. \A f \in QHeads : IsInjective(V[f])
  BY <1>1, <1>2, <1>3, <1>4
<1>6. ASSUME NEW f1 \in QHeads, NEW f2 \in QHeads, f1 # f2 PROVE ToSet(V[f1]) \cap ToSet(V[f2]) = {}
  <2>0. \A f \in QHeads \ {g, h} : ToSet(W[f]) \cap ToSet(W[g]) = {} /\ ToSet(W[f]) \cap ToSet(W[h]) = {}
    BY <1>1
  <2>1. CASE f1 = g \/ f2 = g
    BY <2>1, <1>3, <1>4
  <2>2. CASE f1 = h /\ f2 # g
    BY <2>0, <2>2, <1>2, <1>4, <1>6
  <2>3. CASE f2 = h /\ f1 # g
    BY <2>0, <2>3, <1>2, <1>4, <1>6
  <2>4. CASE f1 \in QHeads \ {g, h} /\ f2 \in QHeads \ {g, h}
    BY <2>4, <1>1, <1>4, <1>6
  <2> QED BY <2>1, <2>2, <2>3, <2>4
<1>7. V \in Layouts
  BY <1>4, <1>5, <1>6 DEF Layouts
<1>8. InLists(V) = InLists(W)
  <2>1. ASSUME NEW x \in InLists(V) PROVE x \in InLists(W)
    <3>1. PICK f \in QHeads : x \in ToSet(V[f])
      BY <2>1 DEF InLists
    <3>2. \E f2 \in QHeads : x \in ToSet(W[f2])
      <4>1. CASE f = g
        BY <4>1, <3>1, <1>3, <1>4
      <4>2. CASE f = h
        BY <4>2, <3>1, <1>2, <1>4
      <4>3. CASE f \in QHeads \ {g, h}
        BY <4>3, <3>1, <1>4
      <4> QED BY <4>1, <4>2, <4>3
    <3> QED BY <3>2 DEF InLists
  <2>2. ASSUME NEW x \in InLists(W) PROVE x \in InLists(V)
    <3>1. PICK f \in QHeads : x \in ToSet(W[f])
      BY <2>2 DEF InLists
    <3>2. \E f2 \in QHeads : x \in ToSet(V[f2])
      <4>1. CASE f = g \/ f = h
        BY <4>1, <3>1, <1>2, <1>4
      <4>2. CASE f \in QHeads \ {g, h}
        BY <4>2, <3>1, <1>4
      <4> QED BY <4>1, <4>2
    <3> QED BY <3>2 DEF InLists
  <2> QED BY <2>1, <2>2
<1> QED BY <1>4, <1>7, <1>8 DEF V, r

JoinsCells(h, g, v, u, r, n, m) ==
  /\ n \in Nat /\ m \in Nat /\ 1 <= m /\ Len(r) = n + m
  /\ \A k \in 0 .. n : Cell(h, r, k) = Cell(h, v, k)
  /\ \A k \in 1 .. m : Cell(h, r, n + k) = Cell(g, u, k) /\ r[n + k] = u[k]
  /\ \A k \in 0 .. n - 1 : After(r, k) = After(v, k)
  /\ After(r, n) = u[1] /\ After(u, 0) = u[1]
  /\ \A k \in 1 .. m : After(r, n + k) = After(u, k)
LEMMA JoinCells ==
  ASSUME NEW v \in Seq(QElms), NEW u \in Seq(QElms), u # <<>>, NEW h, NEW g
  PROVE  JoinsCells(h, g, v, u, v \o u, Len(v), Len(u))
<1> DEFINE n == Len(v)
           m == Len(u)
           r == v \o u
<1>0. n \in Nat /\ m \in Nat /\ 1 <= m
  OBVIOUS
<1>1. /\ Len(r) = n + m
      /\ \A k \in 1 .. n : r[k] = v[k]
      /\ \A k \in n + 1 .. n + m : r[k] = u[k - n]
  BY ConcatIs
<1> HIDE DEF r, n, m
<1>2. \A k \in 1 .. m : r[n + k] = u[k]
  <2> TAKE k \in 1 .. m
  <2>1. n + k \in n + 1 .. n + m /\ (n + k) - n = k
    BY <1>0
  <2> QED BY <2>1, <1>1
<1>3. \A k \in 0 .. n : Cell(h, r, k) = Cell(h, v, k)
  BY <1>0, <1>1 DEF Cell
<1>4. \A k \in 1 .. m : Cell(h, r, n + k) = Cell(g, u, k)
  <2> TAKE k \in 1 .. m
  <2>1. n + k # 0 /\ k # 0
    BY <1>0
  <2> QED BY <2>1, <1>2 DEF Cell
<1>5. \A k \in 0 .. n - 1 : After(r, k) = After(v, k)
  <2> TAKE k \in 0 .. n - 1
  <2>1. k # n /\ k # n + m /\ k + 1 \in 1 .. n
    BY <1>0
  <2> QED BY <2>1, <1>1 DEF After, n
<1>6. After(r, n) = u[1] /\ After(u, 0) = u[1]
  <2>1. n # n + m /\ 1 \in 1 .. m /\ 0 # m /\ 0 + 1 = 1
    BY <1>0
  <2> QED BY <2>1, <1>1, <1>2 DEF After, m
<1>7. \A k \in 1 .. m : After(r, n + k) = After(u, k)
  <2> TAKE k \in 1 .. m
  <2>1. CASE k = m
    BY <2>1, <1>1 DEF After, m
  <2>2. CASE k # m
    <3>1. n + k # n + m /\ (n + k) + 1 = n + (k + 1) /\ k + 1 \in 1 .. m
      BY <2>2, <1>0
    <3>2. r[(n + k) + 1] = u[k + 1]
      BY <3>1, <1>2
    <3> QED BY <3>1, <3>2, <2>2, <1>1 DEF After, m
  <2> QED BY <2>1, <2>2
<1>8. JoinsCells(h, g, v, u, r, n, m)
  BY <1>0, <1>1, <1>2, <1>3, <1>4, <1>5, <1>6, <1>7 DEF JoinsCells
<1> QED BY <1>8 DEF r, n, m

(* A concatenation in the pointers is one of the sequences.                *)
LEMMA JoinRep ==
  ASSUME NEW s, NEW s2, NEW kind, NEW W, Rep(s, kind, W), HasLast(kind),
         NEW h \in QHeads, NEW g \in QHeads \ {h}, s.nxt[g] # NoElm, Joined(s, s2, kind, h, g)
  PROVE  Rep(s2, kind, JoinIn(W, h, g))
<1> DEFINE V == JoinIn(W, h, g)
           v == W[h]
           u == W[g]
           r == v \o u
           n == Len(v)
           m == Len(u)
           c == Cell(h, v, n)
<1>0. W \in Layouts /\ s \in LinkStates /\ NextOk(s, W) /\ LastOk(s, W) /\ s2 \in LinkStates
  BY DEF Rep, Joined
<1>1. v \in Seq(QElms) /\ u \in Seq(QElms)
  BY <1>0, LayoutIs
<1>2. u # <<>>
  <2>1. 0 \in 0 .. m /\ Cell(g, u, 0) = g
    BY <1>0, LayoutIs DEF Cell
  <2>2. 0 # m
    BY <2>1, <1>0, FollowsOne
  <2> QED BY <2>2
<1>3. V \in Layouts /\ InLists(V) = InLists(W) /\ V[h] = r /\ V[g] = <<>> /\ \A f \in QHeads \ {g, h} : V[f] = W[f]
  BY <1>0, JoinLayout
<1>4. /\ n \in Nat /\ m \in Nat /\ 1 <= m /\ Len(r) = n + m
      /\ \A k \in 0 .. n : Cell(h, r, k) = Cell(h, v, k)
      /\ \A k \in 1 .. m : Cell(h, r, n + k) = Cell(g, u, k) /\ r[n + k] = u[k]
      /\ \A k \in 0 .. n - 1 : After(r, k) = After(v, k)
      /\ After(r, n) = u[1] /\ After(u, 0) = u[1]
      /\ \A k \in 1 .. m : After(r, n + k) = After(u, k)
  <2> HIDE DEF v, u
  <2>1. JoinsCells(h, g, v, u, r, n, m)
    BY <1>1, <1>2, JoinCells
  <2> HIDE DEF r, n, m
  <2> QED BY <2>1 DEF JoinsCells
<1>5. \A f \in QHeads : \A k \in 0 .. Len(W[f]) :
        /\ s.nxt[Cell(f, W[f], k)] = After(W[f], k) /\ Cell(f, W[f], k) \in QCells
        /\ (Cell(f, W[f], k) = c => f = h /\ k = n) /\ (Cell(f, W[f], k) = g => f = g /\ k = 0)
  <2> TAKE f \in QHeads
  <2> TAKE k \in 0 .. Len(W[f])
  <2>1. s.nxt[Cell(f, W[f], k)] = After(W[f], k)
    BY <1>0, FollowsOne
  <2>2. Cell(f, W[f], k) \in QCells
    BY <1>0, CellsApart
  <2>3. Cell(f, W[f], k) = Cell(h, W[h], n) => f = h /\ k = n
    <3>1. n \in 0 .. Len(W[h])
      BY <1>4
    <3> QED BY <3>1, <1>0, CellsApart
  <2>4. Cell(f, W[f], k) = Cell(g, W[g], 0) => f = g /\ k = 0
    <3>1. 0 \in 0 .. Len(W[g])
      BY <1>4
    <3> QED BY <3>1, <1>0, CellsApart
  <2>5. Cell(g, W[g], 0) = g
    BY DEF Cell
  <2> QED BY <2>2, <2>3, <2>4, <2>5, <2>1
<1>6. /\ \A k \in 0 .. n : /\ s.nxt[Cell(h, v, k)] = After(v, k) /\ Cell(h, v, k) \in QCells
                           /\ (Cell(h, v, k) = c => k = n) /\ Cell(h, v, k) # g
      /\ \A k \in 1 .. m : /\ s.nxt[Cell(g, u, k)] = After(u, k) /\ Cell(g, u, k) \in QCells
                           /\ Cell(g, u, k) # c /\ Cell(g, u, k) # g
  BY <1>4, <1>5
<1>7. s.last[h] = c /\ s.last[g] = Cell(g, u, m) /\ \A f \in QHeads : s.last[f] = Cell(f, W[f], Len(W[f]))
  BY <1>0 DEF LastOk
<1>8. s.nxt[g] = u[1]
  <2>1. 0 \in 0 .. m /\ Cell(g, u, 0) = g
    BY <1>4 DEF Cell
  <2> QED BY <2>1, <1>4, <1>5
<1> HIDE DEF V, c, r, n, m, v, u
<1>9. g \in QCells /\ c \in QCells /\ c # g
  BY <1>4, <1>6 DEF c, QCells
<1>10. /\ s2.nxt[c] = u[1] /\ s2.nxt[g] = NoElm
       /\ \A x \in QCells : x # c /\ x # g => s2.nxt[x] = s.nxt[x]
  BY <1>0, <1>7, <1>8, <1>9 DEF Joined, LinkStates
<1>11. NextOk(s2, V)
  <2>1. ASSUME NEW f \in QHeads \ {g, h}, NEW k \in 0 .. Len(V[f])
        PROVE  s2.nxt[Cell(f, V[f], k)] = After(V[f], k)
    BY <1>3, <1>5, <1>10
  <2>2. ASSUME NEW k \in 0 .. n + m PROVE s2.nxt[Cell(h, r, k)] = After(r, k)
    <3>1. CASE k < n
      <4>1. k \in 0 .. n /\ k \in 0 .. n - 1 /\ k # n
        BY <3>1, <1>4
      <4> QED BY <4>1, <1>4, <1>6, <1>10
    <3>2. CASE k = n
      <4>1. n \in 0 .. n
        BY <1>4
      <4> QED BY <3>2, <4>1, <1>4, <1>10 DEF c
    <3>3. CASE n < k
      <4> DEFINE j == k - n
      <4>1. j \in 1 .. m /\ n + j = k
        BY <3>3, <1>4
      <4> HIDE DEF j
      <4>2. Cell(h, r, k) = Cell(g, u, j) /\ After(r, k) = After(u, j)
        BY <4>1, <1>4
      <4> QED BY <4>1, <4>2, <1>6, <1>10
    <3>4. k < n \/ k = n \/ n < k
      BY <1>4
    <3> QED BY <3>1, <3>2, <3>3, <3>4
  <2>3. ASSUME NEW k \in 0 .. Len(V[g]) PROVE s2.nxt[Cell(g, V[g], k)] = After(V[g], k)
    <3>1. Len(V[g]) = 0 /\ k = 0
      BY <1>3
    <3> QED BY <3>1, <1>10 DEF Cell, After
  <2>4. ASSUME NEW x \in QElms \ InLists(V) PROVE s2.nxt[x] = NoElm
    <3>1. x \in QElms \ InLists(W) /\ x \in QCells /\ x # g
      BY <1>3, QueueAssumption DEF QCells
    <3>2. x # c
      <4>1. n \in 0 .. Len(W[h])
        BY <1>4 DEF n, v
      <4> QED BY <4>1, <3>1, <1>0, CellsApart DEF c, v
    <3> QED BY <3>1, <3>2, <1>0, <1>10 DEF NextOk
  <2>5. \A f \in QHeads : \A k \in 0 .. Len(V[f]) : s2.nxt[Cell(f, V[f], k)] = After(V[f], k)
    BY <1>3, <1>4, <2>1, <2>2, <2>3
  <2> QED BY <2>4, <2>5 DEF NextOk
<1>12. LastOk(s2, V)
  <2>1. s2.last[h] = Cell(g, u, m) /\ s2.last[g] = g /\ \A f \in QHeads \ {g, h} : s2.last[f] = s.last[f]
    BY <1>0, <1>7 DEF Joined, LinkStates
  <2>2. Cell(h, r, n + m) = Cell(g, u, m)
    <3>1. m \in 1 .. m
      BY <1>4
    <3> QED BY <3>1, <1>4
  <2>3. Cell(g, V[g], Len(V[g])) = g
    BY <1>3 DEF Cell
  <2>4. ASSUME NEW f \in QHeads PROVE s2.last[f] = Cell(f, V[f], Len(V[f]))
    BY <2>1, <2>2, <2>3, <1>3, <1>4, <1>7
  <2> QED BY <2>4 DEF LastOk
<1>13. ASSUME HasPrev(kind) PROVE PrevOk(s2, V)
  <2>0. PrevOk(s, W)
    BY <1>13 DEF Rep
  <2>1. \A f \in QHeads : \A k \in 1 .. Len(W[f]) :
          /\ s.prv[W[f][k]] = Cell(f, W[f], k - 1) /\ W[f][k] \in QElms
          /\ (W[f][k] = u[1] => f = g /\ k = 1)
    <3> TAKE f \in QHeads
    <3> TAKE k \in 1 .. Len(W[f])
    <3>1. s.prv[W[f][k]] = Cell(f, W[f], k - 1) /\ W[f][k] \in QElms
      BY <2>0, <1>0, LayoutIs DEF PrevOk
    <3>2. 1 \in 1 .. Len(W[g])
      BY <1>4 DEF m, u
    <3>3. W[f][k] = W[g][1] => f = g /\ k = 1
      <4>1. W[f][k] = W[g][1] => f = g
        BY <3>2, <1>0, LayoutIs
      <4>2. f = g /\ W[f][k] = W[g][1] => k = 1
        BY <3>2, <1>0, LayoutIs
      <4> QED BY <4>1, <4>2
    <3> QED BY <3>1, <3>3 DEF u
  <2>2. /\ \A k \in 1 .. n : s.prv[v[k]] = Cell(h, v, k - 1) /\ v[k] \in QElms /\ v[k] # u[1]
        /\ \A k \in 1 .. m : s.prv[u[k]] = Cell(g, u, k - 1) /\ u[k] \in QElms /\ (u[k] = u[1] => k = 1)
    BY <2>1 DEF v, u, n, m
  <2>3. u[1] \in QElms
    <3>1. 1 \in 1 .. m
      BY <1>4
    <3> QED BY <3>1, <2>2
  <2>4. s2.prv[u[1]] = c /\ \A x \in QElms : x # u[1] => s2.prv[x] = s.prv[x]
    BY <2>3, <1>0, <1>7, <1>8, <1>13 DEF Joined, LinkStates
  <2>5. ASSUME NEW f \in QHeads \ {g, h}, NEW k \in 1 .. Len(V[f])
        PROVE  s2.prv[V[f][k]] = Cell(f, V[f], k - 1)
    <3>1. V[f] = W[f] /\ W[f][k] \in QElms /\ W[f][k] # u[1] /\ s.prv[W[f][k]] = Cell(f, W[f], k - 1)
      BY <2>1, <1>3
    <3> QED BY <3>1, <2>4
  <2>6. ASSUME NEW k \in 1 .. n + m PROVE s2.prv[r[k]] = Cell(h, r, k - 1)
    <3>1. CASE k <= n
      <4>1. k \in 0 .. n /\ k - 1 \in 0 .. n /\ k \in 1 .. n /\ k # 0
        BY <3>1, <1>4
      <4>2. r[k] = v[k] /\ Cell(h, r, k - 1) = Cell(h, v, k - 1)
        <5>1. Cell(h, r, k) = Cell(h, v, k)
          BY <4>1, <1>4
        <5> QED BY <5>1, <4>1, <1>4 DEF Cell
      <4> QED BY <4>1, <4>2, <2>2, <2>4
    <3>2. CASE k = n + 1
      <4>1. 1 \in 1 .. m /\ k - 1 = n /\ n \in 0 .. n
        BY <3>2, <1>4
      <4>2. r[n + 1] = u[1] /\ Cell(h, r, n) = c
        BY <4>1, <1>4 DEF c
      <4> QED BY <3>2, <4>1, <4>2, <2>4
    <3>3. CASE n + 1 < k
      <4> DEFINE j == k - n
      <4>1. j \in 1 .. m /\ j # 1 /\ n + j = k /\ j - 1 \in 1 .. m /\ n + (j - 1) = k - 1
        BY <3>3, <1>4
      <4> HIDE DEF j
      <4>2. r[k] = u[j] /\ Cell(h, r, k - 1) = Cell(g, u, j - 1)
        BY <4>1, <1>4
      <4> QED BY <4>1, <4>2, <2>2, <2>4
    <3>4. k <= n \/ k = n + 1 \/ n + 1 < k
      BY <1>4
    <3> QED BY <3>1, <3>2, <3>3, <3>4
  <2>7. Len(V[g]) = 0
    BY <1>3
  <2>8. ASSUME NEW f \in QHeads, NEW k \in 1 .. Len(V[f]) PROVE s2.prv[V[f][k]] = Cell(f, V[f], k - 1)
    <3>1. CASE f = g
      BY <3>1, <2>7
    <3>2. CASE f = h
      BY <3>2, <2>6, <1>3, <1>4
    <3> QED BY <3>1, <3>2, <2>5
  <2> QED BY <2>8 DEF PrevOk
<1>14. Rep(s2, kind, V)
  BY <1>0, <1>3, <1>11, <1>12, <1>13 DEF Rep
<1> QED BY <1>14 DEF V

(* The fields that the macros write.                                       *)
LEMMA LinkRecord ==
  ASSUME NEW s \in LinkStates
  PROVE  /\ s.nxt \in [QCells -> QElms \cup {NoElm}] /\ s.prv \in [QElms -> QCells \cup {NoElm}]
         /\ s.last \in [QHeads -> QCells]
         /\ \A N, P, L : /\ [s EXCEPT !.nxt = N] = [nxt |-> N, prv |-> s.prv, last |-> s.last]
                         /\ [s EXCEPT !.nxt = N, !.prv = P] = [nxt |-> N, prv |-> P, last |-> s.last]
                         /\ [s EXCEPT !.nxt = N, !.last = L] = [nxt |-> N, prv |-> s.prv, last |-> L]
<1>1. /\ s.nxt \in [QCells -> QElms \cup {NoElm}] /\ s.prv \in [QElms -> QCells \cup {NoElm}]
      /\ s.last \in [QHeads -> QCells]
  BY DEF LinkStates
<1>2. ASSUME NEW N, NEW P, NEW L
      PROVE  /\ [s EXCEPT !.nxt = N] = [nxt |-> N, prv |-> s.prv, last |-> s.last]
             /\ [s EXCEPT !.nxt = N, !.prv = P] = [nxt |-> N, prv |-> P, last |-> s.last]
             /\ [s EXCEPT !.nxt = N, !.last = L] = [nxt |-> N, prv |-> s.prv, last |-> L]
  <2>1. [s EXCEPT !.nxt = N] \in [nxt : {N}, prv : {s.prv}, last : {s.last}]
    BY DEF LinkStates
  <2>2. [s EXCEPT !.nxt = N, !.prv = P] \in [nxt : {N}, prv : {P}, last : {s.last}]
    BY DEF LinkStates
  <2>3. [s EXCEPT !.nxt = N, !.last = L] \in [nxt : {N}, prv : {s.prv}, last : {L}]
    BY DEF LinkStates
  <2>4. \A a, b, c : \A r \in [nxt : {a}, prv : {b}, last : {c}] : r = [nxt |-> a, prv |-> b, last |-> c]
    OBVIOUS
  <2> QED BY <2>1, <2>2, <2>3, <2>4
<1> QED BY <1>1, <1>2

LEMMA MadeLinks ==
  ASSUME NEW N \in [QCells -> QElms \cup {NoElm}], NEW P \in [QElms -> QCells \cup {NoElm}],
         NEW L \in [QHeads -> QCells]
  PROVE  [nxt |-> N, prv |-> P, last |-> L] \in LinkStates
BY DEF LinkStates

LEMMA Forgets ==
  ASSUME NEW N, NEW P, NEW L, NEW e
  PROVE  Forget([nxt |-> N, prv |-> P, last |-> L], e)
           = [nxt |-> [N EXCEPT ![e] = NoElm], prv |-> [P EXCEPT ![e] = NoElm], last |-> L]
<1> DEFINE r == [nxt |-> N, prv |-> P, last |-> L]
           N2 == [N EXCEPT ![e] = NoElm]
           P2 == [P EXCEPT ![e] = NoElm]
<1>1. r.nxt = N /\ r.prv = P /\ r \in [nxt : {N}, prv : {P}, last : {L}]
  OBVIOUS
<1> HIDE DEF r
<1>2. Forget(r, e) = [r EXCEPT !.nxt = N2, !.prv = P2]
  BY <1>1 DEF Forget
<1> HIDE DEF N2, P2
<1>3. [r EXCEPT !.nxt = N2, !.prv = P2] \in [nxt : {N2}, prv : {P2}, last : {L}]
  BY <1>1
<1>4. [r EXCEPT !.nxt = N2, !.prv = P2] = [nxt |-> N2, prv |-> P2, last |-> L]
  <2>1. \A a, b, c : \A x \in [nxt : {a}, prv : {b}, last : {c}] : x = [nxt |-> a, prv |-> b, last |-> c]
    OBVIOUS
  <2> QED BY <1>3, <2>1
<1> QED BY <1>2, <1>4 DEF r, N2, P2

(* What is known where a macro inserts or removes an element.              *)
LEMMA AtPlace ==
  ASSUME NEW s, NEW kind, NEW W, Rep(s, kind, W), NEW h \in QHeads, NEW i \in 0 .. Len(W[h])
  PROVE  LET c == Cell(h, W[h], i) IN
         /\ s \in LinkStates /\ W \in Layouts /\ c \in QCells
         /\ s.nxt[c] \in QElms \cup {NoElm} /\ (i = Len(W[h]) <=> s.nxt[c] = NoElm)
         /\ \A e \in QElms \ InLists(W) : e # c /\ e # s.nxt[c]
<1> DEFINE c == Cell(h, W[h], i)
<1>1. s \in LinkStates /\ W \in Layouts /\ NextOk(s, W)
  BY DEF Rep
<1>2. s.nxt \in [QCells -> QElms \cup {NoElm}]
  BY <1>1, LinkRecord
<1>3. c \in QCells /\ \A e \in QElms \ InLists(W) : e # c
  BY <1>1, CellsApart
<1>4. /\ (i = Len(W[h]) <=> s.nxt[c] = NoElm)
      /\ i # Len(W[h]) => i + 1 \in 1 .. Len(W[h]) /\ s.nxt[c] = W[h][i + 1]
  BY <1>1, FollowsOne
<1>5. \A e \in QElms \ InLists(W) : e # s.nxt[c]
  <2>1. CASE i = Len(W[h])
    BY <2>1, <1>4, QueueAssumption
  <2>2. CASE i # Len(W[h])
    BY <2>2, <1>1, <1>4, LayoutIs
  <2> QED BY <2>1, <2>2
<1> QED BY <1>1, <1>2, <1>3, <1>4, <1>5

(* The four families write next, and prev and last where they have them.   *)
LEMMA Insertion ==
  ASSUME NEW s \in LinkStates, NEW h \in QHeads, NEW c \in QCells, NEW e \in QElms,
         s.nxt[c] \in QElms \cup {NoElm}
  PROVE  /\ Inserted(s, TAILQ_INSERT_AFTER(s, h, c, e), "tailq", h, c, e)
         /\ Inserted(s, LIST_INSERT_AFTER(s, c, e), "list", h, c, e)
         /\ Inserted(s, SIMPLEQ_INSERT_AFTER(s, h, c, e), "simpleq", h, c, e)
         /\ Inserted(s, SLIST_INSERT_AFTER(s, c, e), "slist", h, c, e)
<1> DEFINE f == s.nxt[c]
           N == [s.nxt EXCEPT ![e] = f, ![c] = e]
           P == [Back(s, f, e) EXCEPT ![e] = c]
           L == LastTo(s, h, f, e)
<1>1. e \in QCells /\ s.nxt \in [QCells -> QElms \cup {NoElm}]
  BY LinkRecord DEF QCells
<1>3. s.prv \in [QElms -> QCells \cup {NoElm}] /\ s.last \in [QHeads -> QCells]
  BY LinkRecord
<1>2. /\ N \in [QCells -> QElms \cup {NoElm}] /\ L \in [QHeads -> QCells]
      /\ P = [y \in QElms |-> IF y = e THEN c ELSE IF y = f THEN e ELSE s.prv[y]]
      /\ P \in [QElms -> QCells \cup {NoElm}]
  <2>1. N \in [QCells -> QElms \cup {NoElm}]
    BY <1>1
  <2>2. L \in [QHeads -> QCells]
    BY <1>1, <1>3 DEF LastTo
  <2>3. P = [y \in QElms |-> IF y = e THEN c ELSE IF y = f THEN e ELSE s.prv[y]]
    BY DEF Back
  <2>4. P \in [QElms -> QCells \cup {NoElm}]
    BY <2>3, <1>1, <1>3
  <2> QED BY <2>1, <2>2, <2>3, <2>4
<1>a. TAILQ_INSERT_AFTER(s, h, c, e) = [nxt |-> N, prv |-> P, last |-> L]
  BY DEF TAILQ_INSERT_AFTER
<1>b. LIST_INSERT_AFTER(s, c, e) = [s EXCEPT !.nxt = N, !.prv = P]
  BY DEF LIST_INSERT_AFTER
<1>c. SIMPLEQ_INSERT_AFTER(s, h, c, e) = [s EXCEPT !.nxt = N, !.last = L]
  BY DEF SIMPLEQ_INSERT_AFTER
<1>d. SLIST_INSERT_AFTER(s, c, e) = [s EXCEPT !.nxt = N]
  BY DEF SLIST_INSERT_AFTER
<1> HIDE DEF N, P, L
<1>4. ASSUME NEW kind, NEW p \in {P, s.prv}, NEW l \in {L, s.last}, HasPrev(kind) => p = P, HasLast(kind) => l = L
      PROVE  Inserted(s, [nxt |-> N, prv |-> p, last |-> l], kind, h, c, e)
  <2>1. [nxt |-> N, prv |-> p, last |-> l] \in LinkStates
    BY <1>2, <1>3, MadeLinks
  <2> QED BY <2>1, <1>2, <1>4 DEF Inserted, N, L
<1>5. Inserted(s, TAILQ_INSERT_AFTER(s, h, c, e), "tailq", h, c, e)
  BY <1>4, <1>a
<1>6. Inserted(s, LIST_INSERT_AFTER(s, c, e), "list", h, c, e)
  <2>1. LIST_INSERT_AFTER(s, c, e) = [nxt |-> N, prv |-> P, last |-> s.last]
    BY ZenonT(40), <1>b, LinkRecord
  <2>2. ~ HasLast("list")
    BY DEF HasLast
  <2> QED BY <2>1, <2>2, <1>4
<1>7. Inserted(s, SIMPLEQ_INSERT_AFTER(s, h, c, e), "simpleq", h, c, e)
  <2>1. SIMPLEQ_INSERT_AFTER(s, h, c, e) = [nxt |-> N, prv |-> s.prv, last |-> L]
    BY ZenonT(40), <1>c, LinkRecord
  <2>2. ~ HasPrev("simpleq")
    BY DEF HasPrev
  <2> QED BY <2>1, <2>2, <1>4
<1>8. Inserted(s, SLIST_INSERT_AFTER(s, c, e), "slist", h, c, e)
  <2>1. SLIST_INSERT_AFTER(s, c, e) = [nxt |-> N, prv |-> s.prv, last |-> s.last]
    BY <1>d, LinkRecord
  <2>2. ~ HasPrev("slist") /\ ~ HasLast("slist")
    BY DEF HasPrev, HasLast
  <2> QED BY <2>1, <2>2, <1>4
<1> QED BY <1>5, <1>6, <1>7, <1>8

LEMMA Removal ==
  ASSUME NEW s \in LinkStates, NEW h \in QHeads, NEW c \in QCells, NEW e \in QElms,
         s.nxt[e] \in QElms \cup {NoElm}
  PROVE  /\ s.prv[e] = c => /\ Removed(s, TAILQ_REMOVE(s, h, e), "tailq", h, c, e)
                            /\ Removed(s, LIST_REMOVE(s, e), "list", h, c, e)
         /\ s.nxt[c] = e => /\ Removed(s, SIMPLEQ_REMOVE_AFTER(s, h, c), "simpleq", h, c, e)
                            /\ Removed(s, SLIST_REMOVE_AFTER(s, c), "slist", h, c, e)
<1> DEFINE f == s.nxt[e]
           N == [s.nxt EXCEPT ![c] = f]
           P == Back(s, f, c)
           L == LastTo(s, h, f, c)
<1>1. e \in QCells /\ s.nxt \in [QCells -> QElms \cup {NoElm}]
  BY LinkRecord DEF QCells
<1>3. s.prv \in [QElms -> QCells \cup {NoElm}] /\ s.last \in [QHeads -> QCells]
  BY LinkRecord
<1>2. /\ [N EXCEPT ![e] = NoElm] = [s.nxt EXCEPT ![c] = f, ![e] = NoElm]
      /\ [N EXCEPT ![e] = NoElm] \in [QCells -> QElms \cup {NoElm}] /\ L \in [QHeads -> QCells]
      /\ [P EXCEPT ![e] = NoElm] \in [QElms -> QCells \cup {NoElm}]
      /\ \A y \in QElms \ {e} : [P EXCEPT ![e] = NoElm][y] = IF y = f THEN c ELSE s.prv[y]
      /\ [s.prv EXCEPT ![e] = NoElm] \in [QElms -> QCells \cup {NoElm}]
  <2>1. N \in [QCells -> QElms \cup {NoElm}]
    BY <1>1
  <2>2. [N EXCEPT ![e] = NoElm] = [s.nxt EXCEPT ![c] = f, ![e] = NoElm]
    BY <1>1
  <2>3. L \in [QHeads -> QCells]
    BY <1>1, <1>3 DEF LastTo
  <2>4. P \in [QElms -> QCells \cup {NoElm}] /\ \A y \in QElms : P[y] = IF y = f THEN c ELSE s.prv[y]
    BY <1>1, <1>3 DEF Back
  <2> HIDE DEF N, P, L
  <2>5. [N EXCEPT ![e] = NoElm] \in [QCells -> QElms \cup {NoElm}]
    BY <2>1
  <2>6. /\ [P EXCEPT ![e] = NoElm] \in [QElms -> QCells \cup {NoElm}]
        /\ \A y \in QElms \ {e} : [P EXCEPT ![e] = NoElm][y] = IF y = f THEN c ELSE s.prv[y]
    BY <2>4
  <2>7. [s.prv EXCEPT ![e] = NoElm] \in [QElms -> QCells \cup {NoElm}]
    BY <1>3
  <2> QED BY <2>2, <2>3, <2>5, <2>6, <2>7
<1>a. s.prv[e] = c => TAILQ_REMOVE(s, h, e) = Forget([nxt |-> N, prv |-> P, last |-> L], e)
  BY DEF TAILQ_REMOVE
<1>b. s.prv[e] = c => LIST_REMOVE(s, e) = Forget([s EXCEPT !.nxt = N, !.prv = P], e)
  BY DEF LIST_REMOVE
<1>c. s.nxt[c] = e => SIMPLEQ_REMOVE_AFTER(s, h, c) = Forget([s EXCEPT !.nxt = N, !.last = L], e)
  BY DEF SIMPLEQ_REMOVE_AFTER
<1>d. s.nxt[c] = e => SLIST_REMOVE_AFTER(s, c) = Forget([s EXCEPT !.nxt = N], e)
  BY DEF SLIST_REMOVE_AFTER
<1> HIDE DEF N, P, L
<1>4. ASSUME NEW kind, NEW p \in {P, s.prv}, NEW l \in {L, s.last}, HasPrev(kind) => p = P, HasLast(kind) => l = L
      PROVE  Removed(s, Forget([nxt |-> N, prv |-> p, last |-> l], e), kind, h, c, e)
  <2>1. Forget([nxt |-> N, prv |-> p, last |-> l], e)
          = [nxt |-> [N EXCEPT ![e] = NoElm], prv |-> [p EXCEPT ![e] = NoElm], last |-> l]
    BY Forgets
  <2>2. [p EXCEPT ![e] = NoElm] \in [QElms -> QCells \cup {NoElm}]
    BY <1>2
  <2>3. [nxt |-> [N EXCEPT ![e] = NoElm], prv |-> [p EXCEPT ![e] = NoElm], last |-> l] \in LinkStates
    BY <2>2, <1>2, <1>3, MadeLinks
  <2>4. HasPrev(kind) => \A y \in QElms \ {e} : [p EXCEPT ![e] = NoElm][y] = IF y = f THEN c ELSE s.prv[y]
    BY <1>2, <1>4
  <2> DEFINE p2 == [p EXCEPT ![e] = NoElm]
             n2 == [N EXCEPT ![e] = NoElm]
             r == [nxt |-> n2, prv |-> p2, last |-> l]
  <2>5. n2 = [s.nxt EXCEPT ![c] = s.nxt[e], ![e] = NoElm]
    BY <1>2
  <2> HIDE DEF p2, n2
  <2>6. r.nxt = n2 /\ r.prv = p2 /\ r.last = l
    OBVIOUS
  <2> HIDE DEF r
  <2>7. Removed(s, r, kind, h, c, e)
    <3>1. r \in LinkStates
      BY <2>3 DEF r, p2, n2
    <3>2. HasPrev(kind) => \A x \in QElms \ {e} : r.prv[x] = IF x = s.nxt[e] THEN c ELSE s.prv[x]
      BY <2>4, <2>6 DEF p2
    <3> QED BY <3>1, <3>2, <2>5, <2>6, <1>4 DEF Removed, L
  <2> QED BY <2>1, <2>7 DEF r, p2, n2
<1>5. s.prv[e] = c => Removed(s, TAILQ_REMOVE(s, h, e), "tailq", h, c, e)
  BY <1>4, <1>a
<1>6. s.prv[e] = c => Removed(s, LIST_REMOVE(s, e), "list", h, c, e)
  <2>1. [s EXCEPT !.nxt = N, !.prv = P] = [nxt |-> N, prv |-> P, last |-> s.last]
    <3>1. [s EXCEPT !.nxt = N, !.prv = P] \in [nxt : {N}, prv : {P}, last : {s.last}]
      BY DEF LinkStates
    <3>2. \A x1, x2, x3 : \A r \in [nxt : {x1}, prv : {x2}, last : {x3}] : r = [nxt |-> x1, prv |-> x2, last |-> x3]
      OBVIOUS
    <3> QED BY <3>1, <3>2
  <2>2. ~ HasLast("list")
    BY DEF HasLast
  <2> QED BY <2>1, <2>2, <1>4, <1>b
<1>7. s.nxt[c] = e => Removed(s, SIMPLEQ_REMOVE_AFTER(s, h, c), "simpleq", h, c, e)
  <2>1. [s EXCEPT !.nxt = N, !.last = L] = [nxt |-> N, prv |-> s.prv, last |-> L]
    <3>1. [s EXCEPT !.nxt = N, !.last = L] \in [nxt : {N}, prv : {s.prv}, last : {L}]
      BY DEF LinkStates
    <3>2. \A x1, x2, x3 : \A r \in [nxt : {x1}, prv : {x2}, last : {x3}] : r = [nxt |-> x1, prv |-> x2, last |-> x3]
      OBVIOUS
    <3> QED BY <3>1, <3>2
  <2>2. ~ HasPrev("simpleq")
    BY DEF HasPrev
  <2> QED BY <2>1, <2>2, <1>4, <1>c
<1>8. s.nxt[c] = e => Removed(s, SLIST_REMOVE_AFTER(s, c), "slist", h, c, e)
  <2>1. [s EXCEPT !.nxt = N] = [nxt |-> N, prv |-> s.prv, last |-> s.last]
    BY LinkRecord
  <2>2. ~ HasPrev("slist") /\ ~ HasLast("slist")
    BY DEF HasPrev, HasLast
  <2> QED BY <2>1, <2>2, <1>4, <1>d
<1> QED BY <1>5, <1>6, <1>7, <1>8

(* The macros that insert after a cell, at every place of a list.          *)
LEMMA InsertsAfter ==
  ASSUME NEW s, NEW W, NEW h \in QHeads, NEW i \in 0 .. Len(W[h]), NEW e \in QElms \ InLists(W), NEW c,
         c = Cell(h, W[h], i)
  PROVE  /\ Rep(s, "tailq", W) => Rep(TAILQ_INSERT_AFTER(s, h, c, e), "tailq", InsertIn(W, h, i, e))
         /\ Rep(s, "list", W) => Rep(LIST_INSERT_AFTER(s, c, e), "list", InsertIn(W, h, i, e))
         /\ Rep(s, "simpleq", W) => Rep(SIMPLEQ_INSERT_AFTER(s, h, c, e), "simpleq", InsertIn(W, h, i, e))
         /\ Rep(s, "slist", W) => Rep(SLIST_INSERT_AFTER(s, c, e), "slist", InsertIn(W, h, i, e))
<1>1. ASSUME NEW kind, Rep(s, kind, W)
      PROVE  s \in LinkStates /\ c \in QCells /\ e \in QElms /\ s.nxt[c] \in QElms \cup {NoElm}
  BY <1>1, AtPlace
<1>2. Rep(s, "tailq", W) => Rep(TAILQ_INSERT_AFTER(s, h, c, e), "tailq", InsertIn(W, h, i, e))
  <2> HAVE Rep(s, "tailq", W)
  <2>1. Inserted(s, TAILQ_INSERT_AFTER(s, h, c, e), "tailq", h, c, e)
    BY <1>1, Insertion
  <2> QED BY <2>1, InsertRep
<1>3. Rep(s, "list", W) => Rep(LIST_INSERT_AFTER(s, c, e), "list", InsertIn(W, h, i, e))
  <2> HAVE Rep(s, "list", W)
  <2>1. Inserted(s, LIST_INSERT_AFTER(s, c, e), "list", h, c, e)
    BY <1>1, Insertion
  <2> QED BY <2>1, InsertRep
<1>4. Rep(s, "simpleq", W) => Rep(SIMPLEQ_INSERT_AFTER(s, h, c, e), "simpleq", InsertIn(W, h, i, e))
  <2> HAVE Rep(s, "simpleq", W)
  <2>1. Inserted(s, SIMPLEQ_INSERT_AFTER(s, h, c, e), "simpleq", h, c, e)
    BY <1>1, Insertion
  <2> QED BY <2>1, InsertRep
<1>5. Rep(s, "slist", W) => Rep(SLIST_INSERT_AFTER(s, c, e), "slist", InsertIn(W, h, i, e))
  <2> HAVE Rep(s, "slist", W)
  <2>1. Inserted(s, SLIST_INSERT_AFTER(s, c, e), "slist", h, c, e)
    BY <1>1, Insertion
  <2> QED BY <2>1, InsertRep
<1> QED BY <1>2, <1>3, <1>4, <1>5

(* What is known of an element of a list and of the cell before it.        *)
LEMMA AtElement ==
  ASSUME NEW s, NEW kind, NEW W, Rep(s, kind, W), NEW h \in QHeads, NEW i \in 1 .. Len(W[h]), NEW c, NEW e,
         c = Cell(h, W[h], i - 1), e = W[h][i]
  PROVE  /\ s \in LinkStates /\ c \in QCells /\ e \in QElms /\ c # e
         /\ s.nxt[e] \in QElms \cup {NoElm} /\ s.nxt[e] # e /\ s.nxt[c] = e
         /\ HasPrev(kind) => s.prv[e] = c
         /\ \A x \in QElms \ InLists(W) : x # c /\ x # e /\ x # s.nxt[e]
<1>0. s \in LinkStates /\ W \in Layouts /\ NextOk(s, W)
  BY DEF Rep
<1>1. i \in 0 .. Len(W[h]) /\ i - 1 \in 0 .. Len(W[h]) /\ i # 0 /\ i - 1 # i /\ i - 1 # Len(W[h]) /\ (i - 1) + 1 = i
  BY <1>0, LayoutIs
<1>2. e = Cell(h, W[h], i)
  BY <1>1 DEF Cell
<1>3. c \in QCells /\ c # e
  BY <1>0, <1>1, <1>2, CellsApart
<1>4. s.nxt[c] = e
  BY <1>0, <1>1, FollowsOne
<1>5. s.nxt[e] # e
  <2>1. W[h][i] = s.nxt[Cell(h, W[h], i)] <=> h = h /\ i = i + 1
    BY <1>0, <1>1, FollowsOne
  <2>2. i # i + 1
    BY <1>1
  <2> QED BY <2>1, <2>2, <1>2
<1>6. s.nxt[e] \in QElms \cup {NoElm} /\ \A x \in QElms \ InLists(W) : x # e /\ x # s.nxt[e]
  BY <1>1, <1>2, AtPlace
<1>7. \A x \in QElms \ InLists(W) : x # c
  BY <1>1, AtPlace
<1>8. HasPrev(kind) => s.prv[e] = c
  BY DEF Rep, PrevOk
<1>9. e \in QElms
  BY <1>0, LayoutIs
<1> QED BY <1>0, <1>3, <1>4, <1>5, <1>6, <1>7, <1>8, <1>9

(* The macros that remove an element.                                      *)
LEMMA Removes ==
  ASSUME NEW s, NEW W, NEW h \in QHeads, NEW i \in 1 .. Len(W[h]), NEW c, NEW e,
         c = Cell(h, W[h], i - 1), e = W[h][i]
  PROVE  /\ Rep(s, "tailq", W) => Rep(TAILQ_REMOVE(s, h, e), "tailq", RemoveIn(W, h, i))
         /\ Rep(s, "list", W) => Rep(LIST_REMOVE(s, e), "list", RemoveIn(W, h, i))
         /\ Rep(s, "simpleq", W) => Rep(SIMPLEQ_REMOVE_AFTER(s, h, c), "simpleq", RemoveIn(W, h, i))
         /\ Rep(s, "slist", W) => Rep(SLIST_REMOVE_AFTER(s, c), "slist", RemoveIn(W, h, i))
<1>1. ASSUME NEW kind, Rep(s, kind, W)
      PROVE  /\ s \in LinkStates /\ c \in QCells /\ e \in QElms /\ s.nxt[e] \in QElms \cup {NoElm}
             /\ s.nxt[c] = e /\ (HasPrev(kind) => s.prv[e] = c)
  BY <1>1, AtElement
<1>2. Rep(s, "tailq", W) => Rep(TAILQ_REMOVE(s, h, e), "tailq", RemoveIn(W, h, i))
  <2> HAVE Rep(s, "tailq", W)
  <2>0. s.prv[e] = c
    BY <1>1 DEF HasPrev
  <2>1. Removed(s, TAILQ_REMOVE(s, h, e), "tailq", h, c, e)
    BY <1>1, <2>0, Removal
  <2> QED BY <2>1, RemoveRep
<1>3. Rep(s, "list", W) => Rep(LIST_REMOVE(s, e), "list", RemoveIn(W, h, i))
  <2> HAVE Rep(s, "list", W)
  <2>0. s.prv[e] = c
    BY <1>1 DEF HasPrev
  <2>1. Removed(s, LIST_REMOVE(s, e), "list", h, c, e)
    BY <1>1, <2>0, Removal
  <2> QED BY <2>1, RemoveRep
<1>4. Rep(s, "simpleq", W) => Rep(SIMPLEQ_REMOVE_AFTER(s, h, c), "simpleq", RemoveIn(W, h, i))
  <2> HAVE Rep(s, "simpleq", W)
  <2>1. Removed(s, SIMPLEQ_REMOVE_AFTER(s, h, c), "simpleq", h, c, e)
    BY <1>1, Removal
  <2> QED BY <2>1, RemoveRep
<1>5. Rep(s, "slist", W) => Rep(SLIST_REMOVE_AFTER(s, c), "slist", RemoveIn(W, h, i))
  <2> HAVE Rep(s, "slist", W)
  <2>1. Removed(s, SLIST_REMOVE_AFTER(s, c), "slist", h, c, e)
    BY <1>1, Removal
  <2> QED BY <2>1, RemoveRep
<1> QED BY <1>2, <1>3, <1>4, <1>5

(* The other insertions are insertions after a cell: the head, the end of  *)
(* the list, or the cell before the element.                               *)
LEMMA InsertForms ==
  ASSUME NEW s \in LinkStates, NEW h \in QHeads, NEW e \in QElms
  PROVE  /\ TAILQ_INSERT_HEAD(s, h, e) = TAILQ_INSERT_AFTER(s, h, h, e)
         /\ LIST_INSERT_HEAD(s, h, e) = LIST_INSERT_AFTER(s, h, e)
         /\ SIMPLEQ_INSERT_HEAD(s, h, e) = SIMPLEQ_INSERT_AFTER(s, h, h, e)
         /\ SLIST_INSERT_HEAD(s, h, e) = SLIST_INSERT_AFTER(s, h, e)
         /\ s.nxt[s.last[h]] = NoElm =>
              /\ TAILQ_INSERT_TAIL(s, h, e) = TAILQ_INSERT_AFTER(s, h, s.last[h], e)
              /\ SIMPLEQ_INSERT_TAIL(s, h, e) = SIMPLEQ_INSERT_AFTER(s, h, s.last[h], e)
         /\ \A x \in QElms \ {e} : s.nxt[s.prv[x]] = x =>
              /\ TAILQ_INSERT_BEFORE(s, x, e) = TAILQ_INSERT_AFTER(s, h, s.prv[x], e)
              /\ LIST_INSERT_BEFORE(s, x, e) = LIST_INSERT_AFTER(s, s.prv[x], e)
<1>0. /\ s.nxt \in [QCells -> QElms \cup {NoElm}] /\ s.prv \in [QElms -> QCells \cup {NoElm}]
      /\ s.last \in [QHeads -> QCells] /\ NoElm \notin QElms
  BY LinkRecord, QueueAssumption
<1>1. TAILQ_INSERT_HEAD(s, h, e) = TAILQ_INSERT_AFTER(s, h, h, e)
  BY DEF TAILQ_INSERT_HEAD, TAILQ_INSERT_AFTER
<1>2. LIST_INSERT_HEAD(s, h, e) = LIST_INSERT_AFTER(s, h, e)
  BY DEF LIST_INSERT_HEAD, LIST_INSERT_AFTER
<1>3. SIMPLEQ_INSERT_HEAD(s, h, e) = SIMPLEQ_INSERT_AFTER(s, h, h, e)
  BY DEF SIMPLEQ_INSERT_HEAD, SIMPLEQ_INSERT_AFTER
<1>4. SLIST_INSERT_HEAD(s, h, e) = SLIST_INSERT_AFTER(s, h, e)
  BY DEF SLIST_INSERT_HEAD, SLIST_INSERT_AFTER
<1>5. ASSUME s.nxt[s.last[h]] = NoElm
      PROVE  /\ TAILQ_INSERT_TAIL(s, h, e) = TAILQ_INSERT_AFTER(s, h, s.last[h], e)
             /\ SIMPLEQ_INSERT_TAIL(s, h, e) = SIMPLEQ_INSERT_AFTER(s, h, s.last[h], e)
  <2> DEFINE c == s.last[h]
  <2>1. [Back(s, s.nxt[c], e) EXCEPT ![e] = c] = [s.prv EXCEPT ![e] = c]
    BY <1>0, <1>5 DEF Back
  <2>2. LastTo(s, h, s.nxt[c], e) = [s.last EXCEPT ![h] = e]
    BY <1>5 DEF LastTo
  <2>3. TAILQ_INSERT_TAIL(s, h, e) = TAILQ_INSERT_AFTER(s, h, c, e)
    BY <2>1, <2>2, <1>5 DEF TAILQ_INSERT_TAIL, TAILQ_INSERT_AFTER
  <2>4. SIMPLEQ_INSERT_TAIL(s, h, e) = SIMPLEQ_INSERT_AFTER(s, h, c, e)
    BY <2>2, <1>5 DEF SIMPLEQ_INSERT_TAIL, SIMPLEQ_INSERT_AFTER
  <2> QED BY <2>3, <2>4
<1>6. ASSUME NEW x \in QElms \ {e}, s.nxt[s.prv[x]] = x
      PROVE  /\ TAILQ_INSERT_BEFORE(s, x, e) = TAILQ_INSERT_AFTER(s, h, s.prv[x], e)
             /\ LIST_INSERT_BEFORE(s, x, e) = LIST_INSERT_AFTER(s, s.prv[x], e)
  <2> DEFINE c == s.prv[x]
  <2>1. [Back(s, s.nxt[c], e) EXCEPT ![e] = c] = [s.prv EXCEPT ![e] = c, ![x] = e]
    BY <1>0, <1>6 DEF Back
  <2>2. LastTo(s, h, s.nxt[c], e) = s.last
    BY <1>0, <1>6 DEF LastTo
  <2>3. TAILQ_INSERT_BEFORE(s, x, e) = TAILQ_INSERT_AFTER(s, h, c, e)
    BY <2>1, <2>2, <1>6 DEF TAILQ_INSERT_BEFORE, TAILQ_INSERT_AFTER
  <2>4. LIST_INSERT_BEFORE(s, x, e) = LIST_INSERT_AFTER(s, c, e)
    BY <2>1, <1>6 DEF LIST_INSERT_BEFORE, LIST_INSERT_AFTER
  <2> QED BY <2>3, <2>4
<1> QED BY <1>1, <1>2, <1>3, <1>4, <1>5, <1>6

(* A replacement is a removal and an insertion after the same cell.        *)
LEMMA ReplaceForms ==
  ASSUME NEW s \in LinkStates, NEW h \in QHeads, NEW c \in QCells, NEW x \in QElms, NEW e \in QElms,
         s.prv[x] = c, c # x, e # x, e # c, s.nxt[x] \in QElms \cup {NoElm}, s.nxt[x] # x
  PROVE  /\ TAILQ_REPLACE(s, h, x, e) = TAILQ_INSERT_AFTER(TAILQ_REMOVE(s, h, x), h, c, e)
         /\ LIST_REPLACE(s, x, e) = LIST_INSERT_AFTER(LIST_REMOVE(s, x), c, e)
<1> DEFINE f == s.nxt[x]
           N1 == [s.nxt EXCEPT ![c] = f]
           P1 == Back(s, f, c)
           L1 == LastTo(s, h, f, c)
           N2 == [N1 EXCEPT ![x] = NoElm]
           P2 == [P1 EXCEPT ![x] = NoElm]
           N3 == [s.nxt EXCEPT ![e] = f, ![c] = e]
           P3 == [Back(s, f, e) EXCEPT ![e] = c]
           L3 == LastTo(s, h, f, e)
           N4 == [N3 EXCEPT ![x] = NoElm]
           P4 == [P3 EXCEPT ![x] = NoElm]
<1>0. /\ s.nxt \in [QCells -> QElms \cup {NoElm}] /\ s.prv \in [QElms -> QCells \cup {NoElm}]
      /\ s.last \in [QHeads -> QCells] /\ NoElm \notin QElms /\ x \in QCells /\ e \in QCells
  BY LinkRecord, QueueAssumption DEF QCells
<1>1. TAILQ_REMOVE(s, h, x) = Forget([nxt |-> N1, prv |-> P1, last |-> L1], x)
  BY DEF TAILQ_REMOVE
<1>2. LIST_REMOVE(s, x) = Forget([s EXCEPT !.nxt = N1, !.prv = P1], x)
  BY DEF LIST_REMOVE
<1>3. TAILQ_REPLACE(s, h, x, e) = Forget([nxt |-> N3, prv |-> P3, last |-> L3], x)
  BY DEF TAILQ_REPLACE
<1>4. LIST_REPLACE(s, x, e) = Forget([s EXCEPT !.nxt = N3, !.prv = P3], x)
  BY DEF LIST_REPLACE
<1>5. N2[c] = f
  BY <1>0
<1>6. N4 = [N2 EXCEPT ![e] = f, ![c] = e]
  BY <1>0
<1>7. P4 = [y \in QElms |-> IF y = x THEN NoElm ELSE IF y = e THEN c ELSE IF y = f THEN e ELSE s.prv[y]]
  BY <1>0 DEF Back
<1>8. P2 = [y \in QElms |-> IF y = x THEN NoElm ELSE IF y = f THEN c ELSE s.prv[y]]
  BY <1>0 DEF Back
<1>9. ASSUME NEW r, r.prv = P2 PROVE [Back(r, f, e) EXCEPT ![e] = c] = P4
  <2>1. Back(r, f, e) = [y \in QElms |-> IF y = f THEN e ELSE P2[y]]
    BY <1>9 DEF Back
  <2>2. Back(r, f, e) = [y \in QElms |-> IF y = f THEN e ELSE IF y = x THEN NoElm ELSE s.prv[y]]
    BY <2>1, <1>8
  <2> HIDE DEF P4, P2
  <2> QED BY <2>2, <1>7
<1>10. ASSUME NEW r, r.last = L1 PROVE LastTo(r, h, f, e) = L3
  BY <1>0, <1>10 DEF LastTo
<1> HIDE DEF N1, P1, L1, N3, P3, L3
<1>11. TAILQ_REPLACE(s, h, x, e) = TAILQ_INSERT_AFTER(TAILQ_REMOVE(s, h, x), h, c, e)
  <2> DEFINE r == [nxt |-> N2, prv |-> P2, last |-> L1]
  <2>1. TAILQ_REMOVE(s, h, x) = r
    BY <1>1, Forgets
  <2>2. TAILQ_REPLACE(s, h, x, e) = [nxt |-> N4, prv |-> P4, last |-> L3]
    BY <1>3, Forgets
  <2>3. r.nxt = N2 /\ r.prv = P2 /\ r.last = L1
    OBVIOUS
  <2> HIDE DEF r, N2, P2, N4, P4, f
  <2>4. TAILQ_INSERT_AFTER(r, h, c, e) = [nxt |-> N4, prv |-> P4, last |-> L3]
    <3>1. /\ [r.nxt EXCEPT ![e] = r.nxt[c], ![c] = e] = N4 /\ LastTo(r, h, r.nxt[c], e) = L3
          /\ [Back(r, r.nxt[c], e) EXCEPT ![e] = c] = P4
      BY <2>3, <1>5, <1>6, <1>9, <1>10
    <3> QED BY <3>1 DEF TAILQ_INSERT_AFTER
  <2> QED BY <2>1, <2>2, <2>4
<1>12. LIST_REPLACE(s, x, e) = LIST_INSERT_AFTER(LIST_REMOVE(s, x), c, e)
  <2> DEFINE r == [nxt |-> N2, prv |-> P2, last |-> s.last]
  <2>0. \A x1, x2, x3 : \A y \in [nxt : {x1}, prv : {x2}, last : {x3}] : y = [nxt |-> x1, prv |-> x2, last |-> x3]
    OBVIOUS
  <2>a. [s EXCEPT !.nxt = N1, !.prv = P1] = [nxt |-> N1, prv |-> P1, last |-> s.last]
    <3>1. [s EXCEPT !.nxt = N1, !.prv = P1] \in [nxt : {N1}, prv : {P1}, last : {s.last}]
      BY DEF LinkStates
    <3> QED BY <3>1, <2>0
  <2>b. [s EXCEPT !.nxt = N3, !.prv = P3] = [nxt |-> N3, prv |-> P3, last |-> s.last]
    <3>1. [s EXCEPT !.nxt = N3, !.prv = P3] \in [nxt : {N3}, prv : {P3}, last : {s.last}]
      BY DEF LinkStates
    <3> QED BY <3>1, <2>0
  <2>1. LIST_REMOVE(s, x) = r
    BY <1>2, <2>a, Forgets
  <2>2. LIST_REPLACE(s, x, e) = [nxt |-> N4, prv |-> P4, last |-> s.last]
    BY <1>4, <2>b, Forgets
  <2>3. r.nxt = N2 /\ r.prv = P2 /\ r.last = s.last /\ r \in [nxt : {N2}, prv : {P2}, last : {s.last}]
    OBVIOUS
  <2> HIDE DEF r, N2, P2, N4, P4, f
  <2>4. LIST_INSERT_AFTER(r, c, e) = [nxt |-> N4, prv |-> P4, last |-> s.last]
    <3>1. /\ [r.nxt EXCEPT ![e] = r.nxt[c], ![c] = e] = N4
          /\ [Back(r, r.nxt[c], e) EXCEPT ![e] = c] = P4
      BY <2>3, <1>5, <1>6, <1>9
    <3>2. LIST_INSERT_AFTER(r, c, e) = [r EXCEPT !.nxt = N4, !.prv = P4]
      BY <3>1 DEF LIST_INSERT_AFTER
    <3>3. [r EXCEPT !.nxt = N4, !.prv = P4] \in [nxt : {N4}, prv : {P4}, last : {s.last}]
      BY <2>3
    <3> QED BY <3>2, <3>3, <2>0
  <2> QED BY <2>1, <2>2, <2>4
<1> QED BY <1>11, <1>12

ReplaceIn(W, h, i, e) == [W EXCEPT ![h] = ReplaceAt(W[h], i, e)]
LEMMA Replaces ==
  ASSUME NEW s, NEW W, NEW h \in QHeads, NEW i \in 1 .. Len(W[h]), NEW x, x = W[h][i],
         NEW e \in QElms \ InLists(W)
  PROVE  /\ Rep(s, "tailq", W) => Rep(TAILQ_REPLACE(s, h, x, e), "tailq", ReplaceIn(W, h, i, e))
         /\ Rep(s, "list", W) => Rep(LIST_REPLACE(s, x, e), "list", ReplaceIn(W, h, i, e))
<1> DEFINE c == Cell(h, W[h], i - 1)
           R == RemoveIn(W, h, i)
<1>1. ASSUME NEW kind, Rep(s, kind, W), HasPrev(kind)
      PROVE  /\ s \in LinkStates /\ c \in QCells /\ x \in QElms /\ s.prv[x] = c /\ c # x /\ e # x /\ e # c
             /\ s.nxt[x] \in QElms \cup {NoElm} /\ s.nxt[x] # x /\ W \in Layouts
  BY <1>1, AtElement DEF Rep
<1>2. ASSUME W \in Layouts
      PROVE  /\ e \in QElms \ InLists(R) /\ i - 1 \in 0 .. Len(R[h]) /\ Cell(h, R[h], i - 1) = c
             /\ InsertIn(R, h, i - 1, e) = ReplaceIn(W, h, i, e)
  BY <1>2, ReplaceIs DEF ReplaceIn
<1> HIDE DEF c, R
<1>3. Rep(s, "tailq", W) => Rep(TAILQ_REPLACE(s, h, x, e), "tailq", ReplaceIn(W, h, i, e))
  <2> HAVE Rep(s, "tailq", W)
  <2>1. HasPrev("tailq")
    BY DEF HasPrev
  <2>2. Rep(TAILQ_REMOVE(s, h, x), "tailq", R)
    BY Removes DEF R
  <2>3. Rep(TAILQ_INSERT_AFTER(TAILQ_REMOVE(s, h, x), h, c, e), "tailq", InsertIn(R, h, i - 1, e))
    BY <2>1, <2>2, <1>1, <1>2, InsertsAfter
  <2>4. TAILQ_REPLACE(s, h, x, e) = TAILQ_INSERT_AFTER(TAILQ_REMOVE(s, h, x), h, c, e)
    BY <2>1, <1>1, ReplaceForms
  <2> QED BY <2>1, <2>3, <2>4, <1>1, <1>2
<1>4. Rep(s, "list", W) => Rep(LIST_REPLACE(s, x, e), "list", ReplaceIn(W, h, i, e))
  <2> HAVE Rep(s, "list", W)
  <2>1. HasPrev("list")
    BY DEF HasPrev
  <2>2. Rep(LIST_REMOVE(s, x), "list", R)
    BY Removes DEF R
  <2>3. Rep(LIST_INSERT_AFTER(LIST_REMOVE(s, x), c, e), "list", InsertIn(R, h, i - 1, e))
    BY <2>1, <2>2, <1>1, <1>2, InsertsAfter
  <2>4. LIST_REPLACE(s, x, e) = LIST_INSERT_AFTER(LIST_REMOVE(s, x), c, e)
    BY <2>1, <1>1, ReplaceForms
  <2> QED BY <2>1, <2>3, <2>4, <1>1, <1>2
<1> QED BY <1>3, <1>4

(* SIMPLEQ_REMOVE and SLIST_REMOVE find the cell before the element.       *)
LEMMA FindsBefore ==
  ASSUME NEW s, NEW kind, NEW W, Rep(s, kind, W), NEW h \in QHeads, NEW i \in 1 .. Len(W[h]), NEW e, e = W[h][i]
  PROVE  /\ i = 1 => s.nxt[h] = e /\ Cell(h, W[h], i - 1) = h
         /\ i # 1 => s.nxt[h] # e /\ (CHOOSE x \in QElms : s.nxt[x] = e) = Cell(h, W[h], i - 1)
<1>0. s \in LinkStates /\ W \in Layouts /\ NextOk(s, W) /\ NoElm \notin QElms
  BY QueueAssumption DEF Rep
<1>1. Len(W[h]) \in Nat /\ i \in Nat /\ 1 <= i /\ i <= Len(W[h]) /\ 0 \in 0 .. Len(W[h]) /\ Cell(h, W[h], 0) = h
  BY <1>0, LayoutIs DEF Cell
<1>2. \A g \in QHeads : \A k \in 0 .. Len(W[g]) : s.nxt[Cell(g, W[g], k)] = e <=> g = h /\ i = k + 1
  <2> TAKE g \in QHeads
  <2> TAKE k \in 0 .. Len(W[g])
  <2>1. W[h][i] = s.nxt[Cell(g, W[g], k)] <=> h = g /\ i = k + 1
    BY <1>0, FollowsOne
  <2> QED BY <2>1
<1>3. i = 1 => s.nxt[h] = e /\ Cell(h, W[h], i - 1) = h
  <2>1. i = 1 => i = 0 + 1 /\ i - 1 = 0
    BY <1>1
  <2> QED BY <2>1, <1>1, <1>2
<1>4. ASSUME i # 1 PROVE s.nxt[h] # e /\ (CHOOSE x \in QElms : s.nxt[x] = e) = Cell(h, W[h], i - 1)
  <2> DEFINE c == Cell(h, W[h], i - 1)
  <2>0. i # 0 + 1 /\ i - 1 \in 1 .. Len(W[h]) /\ i - 1 \in 0 .. Len(W[h]) /\ i - 1 # 0 /\ i = (i - 1) + 1
    BY <1>1, <1>4
  <2>1. s.nxt[h] # e
    BY <2>0, <1>1, <1>2
  <2>2. c \in QElms
    BY <2>0, <1>0, LayoutIs DEF Cell
  <2>3. s.nxt[c] = e
    BY <2>0, <1>2
  <2>4. ASSUME NEW x \in QElms, s.nxt[x] = e PROVE x = c
    <3>1. e \in QElms
      BY <1>0, LayoutIs
    <3>2. x \in InLists(W)
      BY <2>4, <3>1, <1>0 DEF NextOk
    <3>3. PICK g \in QHeads : x \in ToSet(W[g])
      BY <3>2 DEF InLists
    <3>4. PICK k \in DOMAIN W[g] : x = W[g][k]
      BY <3>3 DEF ToSet
    <3>5. k \in 0 .. Len(W[g]) /\ k # 0 /\ k \in Nat
      BY <3>4, <1>0, LayoutIs
    <3>6. x = Cell(g, W[g], k)
      BY <3>4, <3>5 DEF Cell
    <3>7. g = h /\ i = k + 1
      BY <3>5, <3>6, <2>4, <1>2
    <3>8. i - 1 = k
      BY <3>5, <3>7
    <3> QED BY <3>6, <3>7, <3>8
  <2> HIDE DEF c
  <2>5. (CHOOSE x \in QElms : s.nxt[x] = e) = c
    BY <2>2, <2>3, <2>4
  <2> QED BY <2>1, <2>5 DEF c
<1> QED BY <1>3, <1>4

LEMMA FindsAndRemoves ==
  ASSUME NEW s, NEW W, NEW h \in QHeads, NEW i \in 1 .. Len(W[h]), NEW e, e = W[h][i]
  PROVE  /\ Rep(s, "simpleq", W) => Rep(SIMPLEQ_REMOVE(s, h, e), "simpleq", RemoveIn(W, h, i))
         /\ Rep(s, "slist", W) => Rep(SLIST_REMOVE(s, h, e), "slist", RemoveIn(W, h, i))
<1> DEFINE c == Cell(h, W[h], i - 1)
<1>1. ASSUME NEW kind, Rep(s, kind, W)
      PROVE  /\ SIMPLEQ_REMOVE(s, h, e) = SIMPLEQ_REMOVE_AFTER(s, h, c)
             /\ SLIST_REMOVE(s, h, e) = SLIST_REMOVE_AFTER(s, c)
  <2>1. CASE i = 1
    BY <1>1, <2>1, FindsBefore DEF SIMPLEQ_REMOVE, SIMPLEQ_REMOVE_HEAD, SLIST_REMOVE, SLIST_REMOVE_HEAD
  <2>2. CASE i # 1
    <3>1. s.nxt[h] # e /\ (CHOOSE x \in QElms : s.nxt[x] = e) = c
      BY <1>1, <2>2, FindsBefore
    <3> HIDE DEF c
    <3> QED BY <3>1 DEF SIMPLEQ_REMOVE, SLIST_REMOVE
  <2> QED BY <2>1, <2>2
<1> HIDE DEF c
<1>2. Rep(s, "simpleq", W) => Rep(SIMPLEQ_REMOVE_AFTER(s, h, c), "simpleq", RemoveIn(W, h, i))
  BY Removes DEF c
<1>3. Rep(s, "slist", W) => Rep(SLIST_REMOVE_AFTER(s, c), "slist", RemoveIn(W, h, i))
  BY Removes DEF c
<1> QED BY <1>1, <1>2, <1>3

(* Concatenation.                                                          *)
LEMMA Joins ==
  ASSUME NEW s, NEW W, NEW h \in QHeads, NEW g \in QHeads \ {h}, s.nxt[g] # NoElm
  PROVE  /\ Rep(s, "tailq", W) => Rep(TAILQ_CONCAT(s, h, g), "tailq", JoinIn(W, h, g))
         /\ Rep(s, "simpleq", W) => Rep(SIMPLEQ_CONCAT(s, h, g), "simpleq", JoinIn(W, h, g))
<1> DEFINE N == [s.nxt EXCEPT ![s.last[h]] = s.nxt[g], ![g] = NoElm]
           P == [s.prv EXCEPT ![s.nxt[g]] = s.last[h]]
           L == [s.last EXCEPT ![h] = s.last[g], ![g] = g]
<1>1. TAILQ_CONCAT(s, h, g) = [nxt |-> N, prv |-> P, last |-> L]
  BY DEF TAILQ_CONCAT
<1>2. SIMPLEQ_CONCAT(s, h, g) = [s EXCEPT !.nxt = N, !.last = L]
  BY DEF SIMPLEQ_CONCAT
<1>3. ASSUME s \in LinkStates
      PROVE  /\ N \in [QCells -> QElms \cup {NoElm}] /\ P \in [QElms -> QCells \cup {NoElm}]
             /\ L \in [QHeads -> QCells] /\ s.prv \in [QElms -> QCells \cup {NoElm}]
  <2>1. /\ s.nxt \in [QCells -> QElms \cup {NoElm}] /\ s.prv \in [QElms -> QCells \cup {NoElm}]
        /\ s.last \in [QHeads -> QCells] /\ g \in QCells
    BY <1>3, LinkRecord DEF QCells
  <2> QED BY <2>1 DEF QCells
<1> HIDE DEF N, P, L
<1>4. Rep(s, "tailq", W) => Rep(TAILQ_CONCAT(s, h, g), "tailq", JoinIn(W, h, g))
  <2> HAVE Rep(s, "tailq", W)
  <2>0. s \in LinkStates /\ HasLast("tailq")
    BY DEF Rep, HasLast
  <2>1. [nxt |-> N, prv |-> P, last |-> L] \in LinkStates
    BY <2>0, <1>3, MadeLinks
  <2>2. Joined(s, [nxt |-> N, prv |-> P, last |-> L], "tailq", h, g)
    BY <2>1 DEF Joined, N, P, L
  <2> QED BY <2>0, <2>2, <1>1, JoinRep
<1>5. Rep(s, "simpleq", W) => Rep(SIMPLEQ_CONCAT(s, h, g), "simpleq", JoinIn(W, h, g))
  <2> HAVE Rep(s, "simpleq", W)
  <2>0. s \in LinkStates /\ HasLast("simpleq") /\ ~ HasPrev("simpleq")
    BY DEF Rep, HasLast, HasPrev
  <2>1. [nxt |-> N, prv |-> s.prv, last |-> L] \in LinkStates
    BY <2>0, <1>3, MadeLinks
  <2>2. Joined(s, [nxt |-> N, prv |-> s.prv, last |-> L], "simpleq", h, g)
    BY <2>0, <2>1 DEF Joined, N, L
  <2>3. SIMPLEQ_CONCAT(s, h, g) = [nxt |-> N, prv |-> s.prv, last |-> L]
    BY ZenonT(40), <2>0, <1>2, LinkRecord
  <2> QED BY <2>0, <2>2, <2>3, JoinRep
<1> QED BY <1>4, <1>5

(* The sequences that the links stand for, and the inductive invariant:    *)
(* the links are those of the sequences that the walks meet.               *)
WalksOf(s) == [h \in QHeads |-> Walk(s, h)]
QInv == qkind \in QKinds /\ Rep(links, qkind, WalksOf(links))
LEMMA RepWalks ==
  ASSUME NEW s, NEW kind, NEW W, Rep(s, kind, W)
  PROVE  WalksOf(s) = W
<1>1. W \in [QHeads -> Seq(QElms)] /\ s \in LinkStates /\ W \in Layouts /\ NextOk(s, W)
  BY DEF Rep, Layouts
<1>2. \A h \in QHeads : Walk(s, h) = W[h]
  BY <1>1, WalkIs
<1> QED BY <1>1, <1>2 DEF WalksOf

QStep(W, V) ==
  \/ V = W
  \/ \E h \in QHeads :
       \/ \E i \in 0 .. Len(W[h]), e \in QElms \ InLists(W) : V = InsertIn(W, h, i, e)
       \/ \E i \in 1 .. Len(W[h]) :
            V = RemoveIn(W, h, i) \/ \E e \in QElms \ InLists(W) : V = ReplaceIn(W, h, i, e)
       \/ \E g \in QHeads \ {h} : V = JoinIn(W, h, g)

LEMMA ListsAre ==
  ASSUME QInv
  PROVE  LET W == WalksOf(links) IN
         /\ Rep(links, qkind, W) /\ W \in Layouts /\ links \in LinkStates
         /\ Unlinked = QElms \ InLists(W)
         /\ \A h \in QHeads : 0 \in 0 .. Len(W[h]) /\ Len(W[h]) \in 0 .. Len(W[h]) /\ Cell(h, W[h], 0) = h
         /\ \A h \in QHeads : \A x \in On(h) : \E i \in 1 .. Len(W[h]) : x = W[h][i] /\ x = Cell(h, W[h], i)
<1> DEFINE W == WalksOf(links)
<1>1. Rep(links, qkind, W) /\ W \in Layouts /\ links \in LinkStates
  BY DEF QInv, Rep
<1>2. \A h \in QHeads : W[h] = Walk(links, h)
  BY DEF WalksOf
<1> HIDE DEF W
<1>3. Unlinked = QElms \ InLists(W)
  <2>1. \A h \in QHeads : On(h) = ToSet(W[h])
    BY <1>2 DEF On
  <2>2. ASSUME NEW x PROVE x \in UNION {On(h) : h \in QHeads} <=> x \in InLists(W)
    BY <2>1 DEF InLists
  <2> QED BY <2>2 DEF Unlinked
<1>4. \A h \in QHeads : 0 \in 0 .. Len(W[h]) /\ Len(W[h]) \in 0 .. Len(W[h]) /\ Cell(h, W[h], 0) = h
  BY <1>1, LayoutIs DEF Cell
<1>5. ASSUME NEW h \in QHeads, NEW x \in On(h) PROVE \E i \in 1 .. Len(W[h]) : x = W[h][i] /\ x = Cell(h, W[h], i)
  <2>1. PICK i \in DOMAIN W[h] : x = W[h][i]
    BY <1>2 DEF On, ToSet
  <2>2. i \in 1 .. Len(W[h]) /\ i # 0
    BY <1>1, LayoutIs
  <2> QED BY <2>1, <2>2 DEF Cell
<1> QED BY <1>1, <1>3, <1>4, <1>5 DEF W

LEMMA TailqSteps ==
  ASSUME QInv, NEW h \in QHeads, Tailq(h)
  PROVE  \E V : QStep(WalksOf(links), V) /\ Rep(links', qkind, V)
<1> DEFINE W == WalksOf(links)
           n == Len(W[h])
<1>0. /\ Rep(links, "tailq", W) /\ W \in Layouts /\ links \in LinkStates /\ qkind = "tailq"
      /\ Unlinked = QElms \ InLists(W)
      /\ 0 \in 0 .. n /\ n \in 0 .. n /\ Cell(h, W[h], 0) = h
      /\ \A x \in On(h) : \E i \in 1 .. n : x = W[h][i] /\ x = Cell(h, W[h], i)
  BY ListsAre DEF Tailq
<1> HIDE DEF W
<1>1. ASSUME NEW e \in Unlinked, links' = TAILQ_INSERT_HEAD(links, h, e)
      PROVE  \E V : QStep(W, V) /\ Rep(links', qkind, V)
  <2>1. Rep(TAILQ_INSERT_AFTER(links, h, h, e), "tailq", InsertIn(W, h, 0, e))
    BY <1>0, <1>1, InsertsAfter
  <2>2. links' = TAILQ_INSERT_AFTER(links, h, h, e)
    BY <1>0, <1>1, InsertForms
  <2>3. QStep(W, InsertIn(W, h, 0, e))
    BY <1>0, <1>1 DEF QStep
  <2> QED BY <2>1, <2>2, <2>3, <1>0
<1>2. ASSUME NEW e \in Unlinked, links' = TAILQ_INSERT_TAIL(links, h, e)
      PROVE  \E V : QStep(W, V) /\ Rep(links', qkind, V)
  <2> DEFINE c == Cell(h, W[h], n)
  <2>0. links.last[h] = c /\ links.nxt[c] = NoElm
    <3>1. links.last[h] = c
      BY <1>0 DEF Rep, HasLast, LastOk
    <3> QED BY <3>1, <1>0, AtPlace
  <2>1. Rep(TAILQ_INSERT_AFTER(links, h, c, e), "tailq", InsertIn(W, h, n, e))
    BY <1>0, <1>2, InsertsAfter
  <2>2. links' = TAILQ_INSERT_AFTER(links, h, c, e)
    <3> HIDE DEF c
    <3> QED BY <1>0, <1>2, <2>0, InsertForms
  <2>3. QStep(W, InsertIn(W, h, n, e))
    BY <1>0, <1>2 DEF QStep
  <2> QED BY <2>1, <2>2, <2>3, <1>0
<1>3. ASSUME NEW x \in On(h), NEW e \in Unlinked, links' = TAILQ_INSERT_AFTER(links, h, x, e)
      PROVE  \E V : QStep(W, V) /\ Rep(links', qkind, V)
  <2>0. PICK i \in 1 .. n : x = Cell(h, W[h], i)
    BY <1>0
  <2>a. i \in 0 .. n
    BY <1>0
  <2>1. Rep(TAILQ_INSERT_AFTER(links, h, x, e), "tailq", InsertIn(W, h, i, e))
    BY <2>0, <2>a, <1>0, <1>3, InsertsAfter
  <2>3. QStep(W, InsertIn(W, h, i, e))
    BY <2>a, <1>0, <1>3 DEF QStep
  <2> QED BY <2>1, <2>3, <1>0, <1>3
<1>4. ASSUME NEW x \in On(h), NEW e \in Unlinked, links' = TAILQ_INSERT_BEFORE(links, x, e)
      PROVE  \E V : QStep(W, V) /\ Rep(links', qkind, V)
  <2>0. PICK i \in 1 .. n : x = W[h][i]
    BY <1>0
  <2> DEFINE c == Cell(h, W[h], i - 1)
  <2>a. i - 1 \in 0 .. n
    BY <1>0
  <2>b. links.nxt[c] = x /\ links.prv[x] = c /\ x \in QElms \ {e}
    <3>1. HasPrev("tailq")
      BY DEF HasPrev
    <3> QED BY <3>1, <2>0, <1>0, <1>4, AtElement
  <2>1. Rep(TAILQ_INSERT_AFTER(links, h, c, e), "tailq", InsertIn(W, h, i - 1, e))
    BY <2>a, <1>0, <1>4, InsertsAfter
  <2>2. links' = TAILQ_INSERT_AFTER(links, h, c, e)
    <3> HIDE DEF c
    <3> QED BY <1>0, <1>4, <2>b, InsertForms
  <2>3. QStep(W, InsertIn(W, h, i - 1, e))
    BY <2>a, <1>0, <1>4 DEF QStep
  <2> QED BY <2>1, <2>2, <2>3, <1>0
<1>5. ASSUME NEW x \in On(h), NEW e \in Unlinked, links' = TAILQ_REPLACE(links, h, x, e)
      PROVE  \E V : QStep(W, V) /\ Rep(links', qkind, V)
  <2>0. PICK i \in 1 .. n : x = W[h][i]
    BY <1>0
  <2>1. Rep(TAILQ_REPLACE(links, h, x, e), "tailq", ReplaceIn(W, h, i, e))
    BY <2>0, <1>0, <1>5, Replaces
  <2>3. QStep(W, ReplaceIn(W, h, i, e))
    BY <1>0, <1>5 DEF QStep
  <2> QED BY <2>1, <2>3, <1>0, <1>5
<1>6. ASSUME NEW e \in On(h), links' = TAILQ_REMOVE(links, h, e)
      PROVE  \E V : QStep(W, V) /\ Rep(links', qkind, V)
  <2>0. PICK i \in 1 .. n : e = W[h][i]
    BY <1>0
  <2>1. Rep(TAILQ_REMOVE(links, h, e), "tailq", RemoveIn(W, h, i))
    BY <2>0, <1>0, Removes
  <2>3. QStep(W, RemoveIn(W, h, i))
    BY <1>0 DEF QStep
  <2> QED BY <2>1, <2>3, <1>0, <1>6
<1>7. ASSUME NEW g \in QHeads \ {h}, links' = TAILQ_CONCAT(links, h, g)
      PROVE  \E V : QStep(W, V) /\ Rep(links', qkind, V)
  <2>1. CASE links.nxt[g] = NoElm
    <3>1. links' = links /\ QStep(W, W)
      BY <2>1, <1>7 DEF TAILQ_CONCAT, QStep
    <3> QED BY <3>1, <1>0
  <2>2. CASE links.nxt[g] # NoElm
    <3>1. Rep(TAILQ_CONCAT(links, h, g), "tailq", JoinIn(W, h, g))
      BY <2>2, <1>0, Joins
    <3>2. QStep(W, JoinIn(W, h, g))
      BY DEF QStep
    <3> QED BY <3>1, <3>2, <1>0, <1>7
  <2> QED BY <2>1, <2>2
<1>8. \/ \E e \in Unlinked : \/ links' = TAILQ_INSERT_HEAD(links, h, e)
                             \/ links' = TAILQ_INSERT_TAIL(links, h, e)
      \/ \E x \in On(h), e \in Unlinked : \/ links' = TAILQ_INSERT_AFTER(links, h, x, e)
                                          \/ links' = TAILQ_INSERT_BEFORE(links, x, e)
                                          \/ links' = TAILQ_REPLACE(links, h, x, e)
      \/ \E e \in On(h) : links' = TAILQ_REMOVE(links, h, e)
      \/ \E g \in QHeads \ {h} : links' = TAILQ_CONCAT(links, h, g)
  BY DEF Tailq
<1>9. \E V : QStep(W, V) /\ Rep(links', qkind, V)
  BY <1>1, <1>2, <1>3, <1>4, <1>5, <1>6, <1>7, <1>8, Zenon
<1> QED BY <1>9 DEF W

LEMMA ListSteps ==
  ASSUME QInv, NEW h \in QHeads, List(h)
  PROVE  \E V : QStep(WalksOf(links), V) /\ Rep(links', qkind, V)
<1> DEFINE W == WalksOf(links)
           n == Len(W[h])
<1>0. /\ Rep(links, "list", W) /\ W \in Layouts /\ links \in LinkStates /\ qkind = "list"
      /\ Unlinked = QElms \ InLists(W)
      /\ 0 \in 0 .. n /\ n \in 0 .. n /\ Cell(h, W[h], 0) = h
      /\ \A x \in On(h) : \E i \in 1 .. n : x = W[h][i] /\ x = Cell(h, W[h], i)
  BY ListsAre DEF List
<1> HIDE DEF W
<1>1. ASSUME NEW e \in Unlinked, links' = LIST_INSERT_HEAD(links, h, e)
      PROVE  \E V : QStep(W, V) /\ Rep(links', qkind, V)
  <2>1. Rep(LIST_INSERT_AFTER(links, h, e), "list", InsertIn(W, h, 0, e))
    BY <1>0, <1>1, InsertsAfter
  <2>2. links' = LIST_INSERT_AFTER(links, h, e)
    BY <1>0, <1>1, InsertForms
  <2>3. QStep(W, InsertIn(W, h, 0, e))
    BY <1>0, <1>1 DEF QStep
  <2> QED BY <2>1, <2>2, <2>3, <1>0
<1>3. ASSUME NEW x \in On(h), NEW e \in Unlinked, links' = LIST_INSERT_AFTER(links, x, e)
      PROVE  \E V : QStep(W, V) /\ Rep(links', qkind, V)
  <2>0. PICK i \in 1 .. n : x = Cell(h, W[h], i)
    BY <1>0
  <2>a. i \in 0 .. n
    BY <1>0
  <2>1. Rep(LIST_INSERT_AFTER(links, x, e), "list", InsertIn(W, h, i, e))
    BY <2>0, <2>a, <1>0, <1>3, InsertsAfter
  <2>3. QStep(W, InsertIn(W, h, i, e))
    BY <2>a, <1>0, <1>3 DEF QStep
  <2> QED BY <2>1, <2>3, <1>0, <1>3
<1>4. ASSUME NEW x \in On(h), NEW e \in Unlinked, links' = LIST_INSERT_BEFORE(links, x, e)
      PROVE  \E V : QStep(W, V) /\ Rep(links', qkind, V)
  <2>0. PICK i \in 1 .. n : x = W[h][i]
    BY <1>0
  <2> DEFINE c == Cell(h, W[h], i - 1)
  <2>a. i - 1 \in 0 .. n
    BY <1>0
  <2>b. links.nxt[c] = x /\ links.prv[x] = c /\ x \in QElms \ {e}
    <3>1. HasPrev("list")
      BY DEF HasPrev
    <3> QED BY <3>1, <2>0, <1>0, <1>4, AtElement
  <2>1. Rep(LIST_INSERT_AFTER(links, c, e), "list", InsertIn(W, h, i - 1, e))
    BY <2>a, <1>0, <1>4, InsertsAfter
  <2>2. links' = LIST_INSERT_AFTER(links, c, e)
    <3> HIDE DEF c
    <3> QED BY <1>0, <1>4, <2>b, InsertForms
  <2>3. QStep(W, InsertIn(W, h, i - 1, e))
    BY <2>a, <1>0, <1>4 DEF QStep
  <2> QED BY <2>1, <2>2, <2>3, <1>0
<1>5. ASSUME NEW x \in On(h), NEW e \in Unlinked, links' = LIST_REPLACE(links, x, e)
      PROVE  \E V : QStep(W, V) /\ Rep(links', qkind, V)
  <2>0. PICK i \in 1 .. n : x = W[h][i]
    BY <1>0
  <2>1. Rep(LIST_REPLACE(links, x, e), "list", ReplaceIn(W, h, i, e))
    BY <2>0, <1>0, <1>5, Replaces
  <2>3. QStep(W, ReplaceIn(W, h, i, e))
    BY <1>0, <1>5 DEF QStep
  <2> QED BY <2>1, <2>3, <1>0, <1>5
<1>6. ASSUME NEW e \in On(h), links' = LIST_REMOVE(links, e)
      PROVE  \E V : QStep(W, V) /\ Rep(links', qkind, V)
  <2>0. PICK i \in 1 .. n : e = W[h][i]
    BY <1>0
  <2>1. Rep(LIST_REMOVE(links, e), "list", RemoveIn(W, h, i))
    BY <2>0, <1>0, Removes
  <2>3. QStep(W, RemoveIn(W, h, i))
    BY <1>0 DEF QStep
  <2> QED BY <2>1, <2>3, <1>0, <1>6
<1>8. \/ \E e \in Unlinked : links' = LIST_INSERT_HEAD(links, h, e)
      \/ \E x \in On(h), e \in Unlinked : \/ links' = LIST_INSERT_AFTER(links, x, e)
                                          \/ links' = LIST_INSERT_BEFORE(links, x, e)
                                          \/ links' = LIST_REPLACE(links, x, e)
      \/ \E e \in On(h) : links' = LIST_REMOVE(links, e)
  BY DEF List
<1>9. \E V : QStep(W, V) /\ Rep(links', qkind, V)
  BY <1>1, <1>3, <1>4, <1>5, <1>6, <1>8, Zenon
<1> QED BY <1>9 DEF W

(* The cell after which SIMPLEQ_REMOVE_AFTER and SLIST_REMOVE_AFTER take   *)
(* an element out.                                                         *)
LEMMA FollowedBy ==
  ASSUME NEW s, NEW kind, NEW W, Rep(s, kind, W), NEW h \in QHeads, NEW i \in 1 .. Len(W[h]),
         s.nxt[Cell(h, W[h], i)] # NoElm
  PROVE  i + 1 \in 1 .. Len(W[h]) /\ Cell(h, W[h], (i + 1) - 1) = Cell(h, W[h], i)
<1>1. W \in Layouts /\ NextOk(s, W)
  BY DEF Rep
<1>2. i \in 0 .. Len(W[h]) /\ (i + 1) - 1 = i
  BY <1>1, LayoutIs
<1>3. i + 1 \in 1 .. Len(W[h])
  BY <1>1, <1>2, FollowsOne
<1> QED BY <1>2, <1>3

LEMMA SimpleqSteps ==
  ASSUME QInv, NEW h \in QHeads, Simpleq(h)
  PROVE  \E V : QStep(WalksOf(links), V) /\ Rep(links', qkind, V)
<1> DEFINE W == WalksOf(links)
           n == Len(W[h])
<1>0. /\ Rep(links, "simpleq", W) /\ W \in Layouts /\ links \in LinkStates /\ qkind = "simpleq"
      /\ Unlinked = QElms \ InLists(W)
      /\ 0 \in 0 .. n /\ n \in 0 .. n /\ Cell(h, W[h], 0) = h
      /\ \A x \in On(h) : \E i \in 1 .. n : x = W[h][i] /\ x = Cell(h, W[h], i)
  BY ListsAre DEF Simpleq
<1> HIDE DEF W
<1>1. ASSUME NEW e \in Unlinked, links' = SIMPLEQ_INSERT_HEAD(links, h, e)
      PROVE  \E V : QStep(W, V) /\ Rep(links', qkind, V)
  <2>1. Rep(SIMPLEQ_INSERT_AFTER(links, h, h, e), "simpleq", InsertIn(W, h, 0, e))
    BY <1>0, <1>1, InsertsAfter
  <2>2. links' = SIMPLEQ_INSERT_AFTER(links, h, h, e)
    BY <1>0, <1>1, InsertForms
  <2>3. QStep(W, InsertIn(W, h, 0, e))
    BY <1>0, <1>1 DEF QStep
  <2> QED BY <2>1, <2>2, <2>3, <1>0
<1>2. ASSUME NEW e \in Unlinked, links' = SIMPLEQ_INSERT_TAIL(links, h, e)
      PROVE  \E V : QStep(W, V) /\ Rep(links', qkind, V)
  <2> DEFINE c == Cell(h, W[h], n)
  <2>0. links.last[h] = c /\ links.nxt[c] = NoElm
    <3>1. links.last[h] = c
      BY <1>0 DEF Rep, HasLast, LastOk
    <3> QED BY <3>1, <1>0, AtPlace
  <2>1. Rep(SIMPLEQ_INSERT_AFTER(links, h, c, e), "simpleq", InsertIn(W, h, n, e))
    BY <1>0, <1>2, InsertsAfter
  <2>2. links' = SIMPLEQ_INSERT_AFTER(links, h, c, e)
    <3> HIDE DEF c
    <3> QED BY <1>0, <1>2, <2>0, InsertForms
  <2>3. QStep(W, InsertIn(W, h, n, e))
    BY <1>0, <1>2 DEF QStep
  <2> QED BY <2>1, <2>2, <2>3, <1>0
<1>3. ASSUME NEW x \in On(h), NEW e \in Unlinked, links' = SIMPLEQ_INSERT_AFTER(links, h, x, e)
      PROVE  \E V : QStep(W, V) /\ Rep(links', qkind, V)
  <2>0. PICK i \in 1 .. n : x = Cell(h, W[h], i)
    BY <1>0
  <2>a. i \in 0 .. n
    BY <1>0
  <2>1. Rep(SIMPLEQ_INSERT_AFTER(links, h, x, e), "simpleq", InsertIn(W, h, i, e))
    BY <2>0, <2>a, <1>0, <1>3, InsertsAfter
  <2>3. QStep(W, InsertIn(W, h, i, e))
    BY <2>a, <1>0, <1>3 DEF QStep
  <2> QED BY <2>1, <2>3, <1>0, <1>3
<1>4. ASSUME NEW e \in On(h), links' = SIMPLEQ_REMOVE(links, h, e)
      PROVE  \E V : QStep(W, V) /\ Rep(links', qkind, V)
  <2>0. PICK i \in 1 .. n : e = W[h][i]
    BY <1>0
  <2>1. Rep(SIMPLEQ_REMOVE(links, h, e), "simpleq", RemoveIn(W, h, i))
    BY <2>0, <1>0, FindsAndRemoves
  <2>3. QStep(W, RemoveIn(W, h, i))
    BY <1>0 DEF QStep
  <2> QED BY <2>1, <2>3, <1>0, <1>4
<1>5. ASSUME NEW x \in On(h), links.nxt[x] # NoElm, links' = SIMPLEQ_REMOVE_AFTER(links, h, x)
      PROVE  \E V : QStep(W, V) /\ Rep(links', qkind, V)
  <2>0. PICK i \in 1 .. n : x = Cell(h, W[h], i)
    BY <1>0
  <2>a. i + 1 \in 1 .. n /\ x = Cell(h, W[h], (i + 1) - 1)
    BY <2>0, <1>0, <1>5, FollowedBy
  <2>1. Rep(SIMPLEQ_REMOVE_AFTER(links, h, x), "simpleq", RemoveIn(W, h, i + 1))
    BY <2>a, <1>0, Removes
  <2>3. QStep(W, RemoveIn(W, h, i + 1))
    BY <2>a, <1>0 DEF QStep
  <2> QED BY <2>1, <2>3, <1>0, <1>5
<1>7. ASSUME NEW g \in QHeads \ {h}, links' = SIMPLEQ_CONCAT(links, h, g)
      PROVE  \E V : QStep(W, V) /\ Rep(links', qkind, V)
  <2>1. CASE links.nxt[g] = NoElm
    <3>1. links' = links /\ QStep(W, W)
      BY <2>1, <1>7 DEF SIMPLEQ_CONCAT, QStep
    <3> QED BY <3>1, <1>0
  <2>2. CASE links.nxt[g] # NoElm
    <3>1. Rep(SIMPLEQ_CONCAT(links, h, g), "simpleq", JoinIn(W, h, g))
      BY <2>2, <1>0, Joins
    <3>2. QStep(W, JoinIn(W, h, g))
      BY DEF QStep
    <3> QED BY <3>1, <3>2, <1>0, <1>7
  <2> QED BY <2>1, <2>2
<1>8. \/ \E e \in Unlinked : \/ links' = SIMPLEQ_INSERT_HEAD(links, h, e)
                             \/ links' = SIMPLEQ_INSERT_TAIL(links, h, e)
      \/ \E x \in On(h), e \in Unlinked : links' = SIMPLEQ_INSERT_AFTER(links, h, x, e)
      \/ \E e \in On(h) : links' = SIMPLEQ_REMOVE(links, h, e)
      \/ \E x \in On(h) : links.nxt[x] # NoElm /\ links' = SIMPLEQ_REMOVE_AFTER(links, h, x)
      \/ \E g \in QHeads \ {h} : links' = SIMPLEQ_CONCAT(links, h, g)
  BY DEF Simpleq
<1>9. \E V : QStep(W, V) /\ Rep(links', qkind, V)
  BY <1>1, <1>2, <1>3, <1>4, <1>5, <1>7, <1>8, Zenon
<1> QED BY <1>9 DEF W

LEMMA SlistSteps ==
  ASSUME QInv, NEW h \in QHeads, Slist(h)
  PROVE  \E V : QStep(WalksOf(links), V) /\ Rep(links', qkind, V)
<1> DEFINE W == WalksOf(links)
           n == Len(W[h])
<1>0. /\ Rep(links, "slist", W) /\ W \in Layouts /\ links \in LinkStates /\ qkind = "slist"
      /\ Unlinked = QElms \ InLists(W)
      /\ 0 \in 0 .. n /\ Cell(h, W[h], 0) = h
      /\ \A x \in On(h) : \E i \in 1 .. n : x = W[h][i] /\ x = Cell(h, W[h], i)
  BY ListsAre DEF Slist
<1> HIDE DEF W
<1>1. ASSUME NEW e \in Unlinked, links' = SLIST_INSERT_HEAD(links, h, e)
      PROVE  \E V : QStep(W, V) /\ Rep(links', qkind, V)
  <2>1. Rep(SLIST_INSERT_AFTER(links, h, e), "slist", InsertIn(W, h, 0, e))
    BY <1>0, <1>1, InsertsAfter
  <2>2. links' = SLIST_INSERT_AFTER(links, h, e)
    BY <1>0, <1>1, InsertForms
  <2>3. QStep(W, InsertIn(W, h, 0, e))
    BY <1>0, <1>1 DEF QStep
  <2> QED BY <2>1, <2>2, <2>3, <1>0
<1>3. ASSUME NEW x \in On(h), NEW e \in Unlinked, links' = SLIST_INSERT_AFTER(links, x, e)
      PROVE  \E V : QStep(W, V) /\ Rep(links', qkind, V)
  <2>0. PICK i \in 1 .. n : x = Cell(h, W[h], i)
    BY <1>0
  <2>a. i \in 0 .. n
    BY <1>0
  <2>1. Rep(SLIST_INSERT_AFTER(links, x, e), "slist", InsertIn(W, h, i, e))
    BY <2>0, <2>a, <1>0, <1>3, InsertsAfter
  <2>3. QStep(W, InsertIn(W, h, i, e))
    BY <2>a, <1>0, <1>3 DEF QStep
  <2> QED BY <2>1, <2>3, <1>0, <1>3
<1>4. ASSUME NEW e \in On(h), links' = SLIST_REMOVE(links, h, e)
      PROVE  \E V : QStep(W, V) /\ Rep(links', qkind, V)
  <2>0. PICK i \in 1 .. n : e = W[h][i]
    BY <1>0
  <2>1. Rep(SLIST_REMOVE(links, h, e), "slist", RemoveIn(W, h, i))
    BY <2>0, <1>0, FindsAndRemoves
  <2>3. QStep(W, RemoveIn(W, h, i))
    BY <1>0 DEF QStep
  <2> QED BY <2>1, <2>3, <1>0, <1>4
<1>5. ASSUME NEW x \in On(h), links.nxt[x] # NoElm, links' = SLIST_REMOVE_AFTER(links, x)
      PROVE  \E V : QStep(W, V) /\ Rep(links', qkind, V)
  <2>0. PICK i \in 1 .. n : x = Cell(h, W[h], i)
    BY <1>0
  <2>a. i + 1 \in 1 .. n /\ x = Cell(h, W[h], (i + 1) - 1)
    BY <2>0, <1>0, <1>5, FollowedBy
  <2>1. Rep(SLIST_REMOVE_AFTER(links, x), "slist", RemoveIn(W, h, i + 1))
    BY <2>a, <1>0, Removes
  <2>3. QStep(W, RemoveIn(W, h, i + 1))
    BY <2>a, <1>0 DEF QStep
  <2> QED BY <2>1, <2>3, <1>0, <1>5
<1>8. \/ \E e \in Unlinked : links' = SLIST_INSERT_HEAD(links, h, e)
      \/ \E x \in On(h), e \in Unlinked : links' = SLIST_INSERT_AFTER(links, x, e)
      \/ \E e \in On(h) : links' = SLIST_REMOVE(links, h, e)
      \/ \E x \in On(h) : links.nxt[x] # NoElm /\ links' = SLIST_REMOVE_AFTER(links, x)
  BY DEF Slist
<1>9. \E V : QStep(W, V) /\ Rep(links', qkind, V)
  BY <1>1, <1>3, <1>4, <1>5, <1>8, Zenon
<1> QED BY <1>9 DEF W

(* TAILQ_LAST and TAILQ_PREV find the element before the cell.             *)
LEMMA BeforeIs ==
  ASSUME NEW s, NEW W, Rep(s, "tailq", W), NEW h \in QHeads, NEW k \in 0 .. Len(W[h])
  PROVE  Before(s, Cell(h, W[h], k)) = Cell(NoElm, W[h], k)
<1>0. s \in LinkStates /\ W \in Layouts /\ NextOk(s, W) /\ LastOk(s, W) /\ PrevOk(s, W)
  BY DEF Rep, HasLast, HasPrev
<1>1. Len(W[h]) \in 0 .. Len(W[h])
  BY <1>0, LayoutIs
<1>2. CASE k = 0
  <2>1. s.nxt[s.last[h]] = NoElm
    BY <1>0, <1>1, FollowsOne DEF LastOk
  <2> QED BY <1>2, <2>1 DEF Before, Cell
<1>3. CASE k # 0
  <2>1. k \in 1 .. Len(W[h])
    BY <1>3, <1>0, LayoutIs
  <2>2. W[h][k] \in QElms /\ W[h][k] \notin QHeads
    BY <2>1, <1>0, LayoutIs, QueueAssumption
  <2>3. s.nxt[s.prv[W[h][k]]] = W[h][k]
    <3>1. HasPrev("tailq")
      BY DEF HasPrev
    <3> QED BY <2>1, <3>1, AtElement
  <2> QED BY <1>3, <2>2, <2>3 DEF Before, Cell
<1> QED BY <1>2, <1>3

LEMMA RepLinksBack ==
  ASSUME QInv
  PROVE  LinksBack
<1> DEFINE W == WalksOf(links)
<1>0. Rep(links, qkind, W) /\ W \in Layouts /\ links \in LinkStates /\ NextOk(links, W)
  BY ListsAre DEF Rep
<1>1. \A h \in QHeads : W[h] = Walk(links, h)
  BY DEF WalksOf
<1> HIDE DEF W
<1>2. ASSUME NEW h \in QHeads
      PROVE  LET s == W[h] IN
             /\ qkind \in {"tailq", "simpleq"} => links.last[h] = Cell(h, s, Len(s))
             /\ qkind \in {"tailq", "list"} => \A i \in 1..Len(s) : links.prv[s[i]] = Cell(h, s, i - 1)
             /\ qkind = "tailq" => /\ TAILQ_LAST(links, h) = Cell(NoElm, s, Len(s))
                                   /\ \A i \in 1..Len(s) : TAILQ_PREV(links, s[i]) = Cell(NoElm, s, i - 1)
             /\ qkind = "simpleq" => SIMPLEQ_LAST(links, h) = Cell(NoElm, s, Len(s))
  <2> DEFINE s == W[h]
             n == Len(s)
  <2>0. n \in Nat /\ n \in 0 .. n /\ 0 \in 0 .. n /\ Cell(h, s, 0) = h
    BY <1>0, LayoutIs DEF Cell
  <2>1. qkind \in {"tailq", "simpleq"} => links.last[h] = Cell(h, s, n)
    BY <1>0 DEF Rep, HasLast, LastOk
  <2>2. qkind \in {"tailq", "list"} => \A i \in 1 .. n : links.prv[s[i]] = Cell(h, s, i - 1)
    BY <1>0 DEF Rep, HasPrev, PrevOk
  <2>3. ASSUME qkind = "tailq"
        PROVE  /\ TAILQ_LAST(links, h) = Cell(NoElm, s, n)
               /\ \A i \in 1 .. n : TAILQ_PREV(links, s[i]) = Cell(NoElm, s, i - 1)
    <3>1. \A k \in 0 .. n : Before(links, Cell(h, s, k)) = Cell(NoElm, s, k)
      BY <2>3, <1>0, BeforeIs
    <3>2. \A i \in 1 .. n : i - 1 \in 0 .. n
      BY <2>0
    <3> QED BY <2>0, <2>1, <2>2, <2>3, <3>1, <3>2 DEF TAILQ_LAST, TAILQ_PREV
  <2>4. ASSUME qkind = "simpleq" PROVE SIMPLEQ_LAST(links, h) = Cell(NoElm, s, n)
    <3>1. 0 = n <=> links.nxt[h] = NoElm
      BY <2>0, <1>0, FollowsOne
    <3> QED BY <2>1, <2>4, <3>1 DEF SIMPLEQ_LAST, Cell
  <2> QED BY <2>1, <2>2, <2>3, <2>4
<1> QED BY <1>1, <1>2 DEF LinksBack

LEMMA QueueStarts ==
  ASSUME QueueInit
  PROVE  QInv /\ WalksOf(links) = [h \in QHeads |-> <<>>]
<1> DEFINE W == [h \in QHeads |-> <<>>]
<1>1. links \in LinkStates
  BY DEF QueueInit, LinkStates, QCells
<1>2. W \in Layouts /\ InLists(W) = {}
  BY DEF Layouts, InLists, ToSet, IsInjective
<1>3. \A h \in QHeads : W[h] = <<>> /\ Len(W[h]) = 0
  OBVIOUS
<1> HIDE DEF W
<1>4. NextOk(links, W)
  <2>1. ASSUME NEW h \in QHeads, NEW i \in 0 .. Len(W[h]) PROVE links.nxt[Cell(h, W[h], i)] = After(W[h], i)
    <3>1. i = 0
      BY <1>3
    <3> QED BY <3>1, <1>3 DEF QueueInit, Cell, After
  <2>2. \A e \in QElms : links.nxt[e] = NoElm
    BY DEF QueueInit
  <2> QED BY <2>1, <2>2 DEF NextOk
<1>5. LastOk(links, W)
  BY <1>3 DEF QueueInit, LastOk, Cell
<1>6. PrevOk(links, W)
  BY <1>3 DEF PrevOk
<1>7. Rep(links, qkind, W)
  BY <1>1, <1>2, <1>4, <1>5, <1>6 DEF Rep
<1>8. WalksOf(links) = W
  BY <1>7, RepWalks
<1> QED BY <1>7, <1>8 DEF QInv, QueueInit, W

LEMMA QueueSteps ==
  ASSUME QInv, [QueueNext]_queueVars
  PROVE  QInv' /\ QStep(WalksOf(links), WalksOf(links'))
<1>1. CASE UNCHANGED queueVars
  BY <1>1 DEF QInv, queueVars, QStep
<1>2. ASSUME QueueNext PROVE QInv' /\ QStep(WalksOf(links), WalksOf(links'))
  <2>1. PICK h \in QHeads : Tailq(h) \/ List(h) \/ Simpleq(h) \/ Slist(h)
    BY <1>2 DEF QueueNext
  <2>2. qkind' = qkind
    BY <1>2 DEF QueueNext
  <2>3. PICK V : QStep(WalksOf(links), V) /\ Rep(links', qkind, V)
    BY <2>1, TailqSteps, ListSteps, SimpleqSteps, SlistSteps
  <2>4. WalksOf(links') = V
    BY <2>3, RepWalks
  <2>5. QInv'
    BY <2>2, <2>3, <2>4 DEF QInv
  <2> QED BY <2>3, <2>4, <2>5
<1> QED BY <1>1, <1>2

(* The operators on sequences that the abstract specification takes from   *)
(* the library are those of this module.                                   *)
LEMMA SameOperators ==
  /\ \A v : QAbs!ToSet(v) = ToSet(v)
  /\ \A v, i : QAbs!RemoveAt(v, i) = RemoveAt(v, i)
  /\ \A v, i, e : QAbs!InsertAt(v, i, e) = InsertAt(v, i, e) /\ QAbs!ReplaceAt(v, i, e) = ReplaceAt(v, i, e)
<1>1. \A v : QAbs!ToSet(v) = ToSet(v)
  BY DEF QAbs!ToSet, ToSet
<1>2. \A v, i : QAbs!RemoveAt(v, i) = RemoveAt(v, i)
  BY DEF QAbs!RemoveAt, RemoveAt
<1>3. \A v, i, e : QAbs!InsertAt(v, i, e) = InsertAt(v, i, e)
  BY DEF QAbs!InsertAt, InsertAt
<1>4. \A v, i, e : QAbs!ReplaceAt(v, i, e) = ReplaceAt(v, i, e)
  BY DEF QAbs!ReplaceAt, ReplaceAt
<1> QED BY <1>1, <1>2, <1>3, <1>4

LEMMA QueueStepAbstract ==
  ASSUME QInv, QStep(WalksOf(links), WalksOf(links'))
  PROVE  [QAbs!SQNext]_(WalksOf(links))
<1> DEFINE W == WalksOf(links)
<1>1. W \in Layouts /\ \A h \in QHeads : Len(W[h]) \in Nat
  BY ListsAre, LayoutIs
<1>2. \A e \in QElms \ InLists(W) : ~ QAbs!Queued(e)
  <2>1. ASSUME NEW e, QAbs!Queued(e) PROVE e \in InLists(W)
    <3>1. \E l \in QHeads : e \in ToSet(W[l])
      BY <2>1, SameOperators DEF QAbs!Queued, WalksOf
    <3> HIDE DEF W
    <3> QED BY <3>1 DEF InLists
  <2> QED BY <2>1
<1>3. W = [h \in QHeads |-> Walk(links, h)] /\ WalksOf(links') = [h \in QHeads |-> Walk(links', h)]
  BY DEF WalksOf
<1>4. ASSUME NEW h \in QHeads, NEW i \in 0 .. Len(W[h]), NEW e \in QElms \ InLists(W),
             WalksOf(links') = InsertIn(W, h, i, e)
      PROVE  QAbs!SQNext
  <2>1. i + 1 \in 1 .. Len(W[h]) + 1
    BY <1>1
  <2>2. QAbs!SQInsert(h, i + 1, e)
    BY <1>2, <1>3, <1>4, SameOperators DEF QAbs!SQInsert, InsertIn
  <2> QED BY <2>1, <2>2, <1>3 DEF QAbs!SQNext
<1>5. ASSUME NEW h \in QHeads, NEW i \in 1 .. Len(W[h]), WalksOf(links') = RemoveIn(W, h, i)
      PROVE  QAbs!SQNext
  <2>1. QAbs!SQRemove(h, i)
    BY <1>3, <1>5, SameOperators DEF QAbs!SQRemove, RemoveIn
  <2> QED BY <2>1, <1>3 DEF QAbs!SQNext
<1>6. ASSUME NEW h \in QHeads, NEW i \in 1 .. Len(W[h]), NEW e \in QElms \ InLists(W),
             WalksOf(links') = ReplaceIn(W, h, i, e)
      PROVE  QAbs!SQNext
  <2>1. QAbs!SQReplace(h, i, e)
    BY <1>2, <1>3, <1>6, SameOperators DEF QAbs!SQReplace, ReplaceIn
  <2> QED BY <2>1, <1>3 DEF QAbs!SQNext
<1>7. ASSUME NEW h \in QHeads, NEW g \in QHeads \ {h}, WalksOf(links') = JoinIn(W, h, g)
      PROVE  QAbs!SQNext
  <2>1. QAbs!SQConcat(h, g)
    BY <1>3, <1>7 DEF QAbs!SQConcat, JoinIn
  <2> QED BY <2>1 DEF QAbs!SQNext
<1>8. CASE WalksOf(links') = W
  BY <1>8
<1>9. CASE WalksOf(links') # W
  <2>1. QAbs!SQNext
    BY <1>4, <1>5, <1>6, <1>7, <1>9 DEF QStep
  <2> QED BY <2>1
<1> QED BY <1>8, <1>9

(* The macros of queue.h (insertion at either end or next to an element,   *)
(* removal, replacement and concatenation), which work on pointers and on  *)
(* pointers to pointers, do to the elements that a walk along the next     *)
(* fields meets what the operations on sequences do, for any number of     *)
(* heads and elements.                                                     *)
THEOREM QueueIsSeqCorrect == QueueSpec => QueueIsSeq
<1>1. QueueInit => QInv /\ QAbs!SQInit
  BY QueueStarts DEF QAbs!SQInit, WalksOf
<1>2. QInv /\ [QueueNext]_queueVars => QInv' /\ [QAbs!SQNext]_(WalksOf(links))
  BY QueueSteps, QueueStepAbstract
<1>3. QInv => LinksBack
  BY RepLinksBack
<1> QED BY <1>1, <1>2, <1>3, PTL DEF QueueSpec, QueueIsSeq, QAbs!SQSpec, WalksOf
=============================================================================

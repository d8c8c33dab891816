-------------------------------- MODULE Heap --------------------------------
(***************************************************************************)
(* The kernel heap of ukern/src/heap.c: pages cut into blocks, a list of   *)
(* all blocks of a page in address order, a list of the free ones, and     *)
(* first fit.  Sizes are in units of a block header.                       *)
(*                                                                         *)
(* kheap_free reads the block before through LIST_PREV.  For the first     *)
(* block of a page that is the list head itself: what it takes for         *)
(* `isfree' is then the link of the page to the next page of kheaps, which *)
(* is not zero unless the page is the last one.                            *)
(***************************************************************************)
EXTENDS Integers, Sequences, SequencesExt, FiniteSetsExt

CONSTANTS HeapUnits,  \* UNITS(PAGE_SIZE)
          HeapMax,    \* bound: pages of heap; the page allocator then panics
          HeapSizes   \* sizes asked for, in units

ASSUME HeapAssumption == /\ HeapUnits \in Nat \ {0}
                         /\ HeapMax \in Nat
                         /\ HeapSizes \subseteq 1 .. HeapUnits - 2

VARIABLES kheaps,   \* pages, newest first: [id, list, free_list]
          hheld     \* <<page, block>> handed out

heapVars == <<kheaps, hheld>>

Block(at, ulen, isfree) == [at |-> at, ulen |-> ulen, isfree |-> isfree]

(* kheap_add.                                                              *)
kheap_add(id) == [id |-> id, list |-> <<Block(0, HeapUnits, TRUE)>>, free_list |-> <<0>>]

BlockAt(h, at) == CHOOSE i \in DOMAIN h.list : h.list[i].at = at

(* The blocks i .. j - 1 of a list replaced by those of mid.               *)
Splice(list, i, j, mid) == SubSeq(list, 1, i - 1) \o mid \o SubSeq(list, j, Len(list))

(* LIST_REMOVE from the free list.                                         *)
Unfree(fl, at) == RemoveAt(fl, CHOOSE k \in DOMAIN fl : fl[k] = at)

(* The places in the free list of the blocks that have `units', and the    *)
(* block that the search stops at.                                         *)
Fitting(h, units) ==
  {k \in DOMAIN h.free_list : h.list[BlockAt(h, h.free_list[k])].ulen >= units}
FirstFit(h, units) == h.free_list[Min(Fitting(h, units))]

(* kheap_alloc of a block of at least `units'; what is left of it is a new *)
(* free block behind it.                                                   *)
kheap_alloc(h, units) ==
  LET at == FirstFit(h, units)
      i == BlockAt(h, at)
      rest == h.list[i].ulen - units
      fl == Unfree(h.free_list, at)
  IN [h EXCEPT !.list = Splice(@, i, i + 1, IF rest = 0 THEN <<Block(at, units, FALSE)>>
                                 ELSE <<Block(at, units, FALSE), Block(at + units, rest, TRUE)>>),
               !.free_list = IF rest = 0 THEN fl ELSE <<at + units>> \o fl]

(* kheap_free: the free block behind is merged, then the free block        *)
(* before takes this one over; otherwise this one is free.  `islast': the  *)
(* page is the last of kheaps.                                             *)
kheap_freeKeep(h, at, islast) ==     \* mutant: the merged block stays in free_list
  LET i == BlockAt(h, at)
      nfree == i < Len(h.list) /\ h.list[i + 1].isfree
      ulen == h.list[i].ulen + IF nfree THEN h.list[i + 1].ulen ELSE 0
  IN [h EXCEPT !.list = Splice(@, i, IF nfree THEN i + 2 ELSE i + 1, <<Block(at, ulen, TRUE)>>),
               !.free_list = <<at>> \o @]
kheap_free(h, at, islast) ==
  LET i == BlockAt(h, at)
      nfree == i < Len(h.list) /\ h.list[i + 1].isfree
      ulen == h.list[i].ulen + IF nfree THEN h.list[i + 1].ulen ELSE 0
      j == IF nfree THEN i + 2 ELSE i + 1
      fl == IF nfree THEN Unfree(h.free_list, h.list[i + 1].at) ELSE h.free_list
      pfree == IF i = 1 THEN ~islast ELSE h.list[i - 1].isfree
      p == h.list[i - 1]
  IN IF ~pfree
     THEN [h EXCEPT !.list = Splice(@, i, j, <<Block(at, ulen, TRUE)>>), !.free_list = <<at>> \o fl]
     ELSE IF i = 1                        \* the block is lost
     THEN [h EXCEPT !.list = Splice(@, 1, j, <<>>), !.free_list = fl]
     ELSE [h EXCEPT !.list = Splice(@, i - 1, j, <<Block(p.at, p.ulen + ulen, TRUE)>>),
                    !.free_list = fl]

-----------------------------------------------------------------------------
HeapInit == kheaps = <<>> /\ hheld = {}

(* heap_alloc: the first page with a block that fits (one more unit for    *)
(* the header), else a new page, which goes to the head of kheaps.         *)
HeapAlloc(size) ==
  LET units == size + 1
      fit == {j \in DOMAIN kheaps : Fitting(kheaps[j], units) # {}}
      j == CHOOSE j \in fit : \A l \in fit : j <= l
      h == kheap_add(Len(kheaps)) IN
  IF fit # {}
  THEN /\ kheaps' = [kheaps EXCEPT ![j] = kheap_alloc(@, units)]
       /\ hheld' = hheld \cup {<<kheaps[j].id, FirstFit(kheaps[j], units)>>}
  ELSE /\ Len(kheaps) < HeapMax
       /\ kheaps' = <<kheap_alloc(h, units)>> \o kheaps
       /\ hheld' = hheld \cup {<<h.id, 0>>}

(* heap_free.                                                              *)
HeapFree(b) ==
  LET j == CHOOSE j \in DOMAIN kheaps : kheaps[j].id = b[1] IN
  /\ kheaps' = [kheaps EXCEPT ![j] = kheap_free(@, b[2], j = Len(kheaps))]
  /\ hheld' = hheld \ {b}

HeapNext == (\E size \in HeapSizes : HeapAlloc(size)) \/ (\E b \in hheld : HeapFree(b))

HeapSpec == HeapInit /\ [][HeapNext]_heapVars

-----------------------------------------------------------------------------
(* Type invariant.                                                         *)
HeapTypeOK ==
  /\ \A j \in DOMAIN kheaps :
       /\ kheaps[j].list \in Seq([at : 0..HeapUnits, ulen : 1..HeapUnits, isfree : BOOLEAN])
       /\ kheaps[j].free_list \in Seq(0..HeapUnits)
  /\ hheld \subseteq (0 .. HeapMax) \X (0..HeapUnits)

(* The two lists of a page agree and the blocks do not overlap, whatever   *)
(* was merged or lost before: a block handed out stays out of the free     *)
(* list until it is freed, and no block reaches into another.              *)
BlocksAgree ==
  \A j \in DOMAIN kheaps : LET h == kheaps[j] IN
    /\ \A i \in 1 .. Len(h.list) - 1 : h.list[i].at + h.list[i].ulen <= h.list[i + 1].at
    /\ IsInjective(h.free_list)
    /\ ToSet(h.free_list) = {h.list[i].at : i \in {l \in DOMAIN h.list : h.list[l].isfree}}
    /\ {b[2] : b \in {x \in hheld : x[1] = h.id}}
         = {h.list[i].at : i \in {l \in DOMAIN h.list : ~h.list[l].isfree}}

(* The first page of the heap, which LIST_PREV handles right, loses        *)
(* nothing and keeps no two free blocks side by side: its blocks tile it.  *)
FirstHeapWhole ==
  kheaps # <<>> => LET h == kheaps[Len(kheaps)]
                       n == Len(h.list) IN
    /\ h.list[1].at = 0 /\ h.list[n].at + h.list[n].ulen = HeapUnits
    /\ \A i \in 1 .. n - 1 : /\ h.list[i].at + h.list[i].ulen = h.list[i + 1].at
                             /\ ~(h.list[i].isfree /\ h.list[i + 1].isfree)

(* heap_alloc and heap_free keep the heap sound.                           *)
HeapSound == BlocksAgree /\ FirstHeapWhole
=============================================================================

-------------------------------- MODULE Zone --------------------------------
(***************************************************************************)
(* The zone allocator of ukern/src/alloc.c, from which pages, kernel       *)
(* virtual addresses and, in lib/libmrg, the addresses of a process are    *)
(* taken.  Free ranges (entries) are kept in one list per order of size,   *)
(* with a bitmap of the lists that are not empty; neighbours are merged.   *)
(*                                                                         *)
(* `s' is the state of all the zones of an allocator, `z' one of them:     *)
(* s.zlist[<<z, o>>] is the list of order o, s.bmap[z] the bitmap, s.nfree[z]  *)
(* the free amount.  Including the file for another type of entry gives    *)
(* another allocator: PgAlloc and Vmap.                                    *)
(***************************************************************************)
EXTENDS Integers, Sequences, SequencesExt, FiniteSetsExt

CONSTANT ORDMAX      \* the orders of size: 32 in the code

ASSUME ZoneAssumption == ORDMAX \in Nat \ {0}

Entry(addr, size) == [addr |-> addr, size |-> size]
NoEntry == Entry(0, 0)               \* NULL
End(e) == e.addr + e.size
Ranges(e) == e.addr .. End(e) - 1

Orders == 0 .. ORDMAX - 1
Bit[o \in 0 .. ORDMAX] == IF o = 0 THEN 1 ELSE 2 * Bit[o - 1]         \* 1 << o
msbit(n) == CHOOSE o \in Orders : Bit[o] <= n /\ n < Bit[o + 1]
Sizes == 1 .. Bit[ORDMAX] - 1        \* what a size_t other than 0 can be

(* zone_init.                                                              *)
ZoneInit(zs) == [zlist |-> [k \in zs \X Orders |-> <<>>],
                 bmap |-> [z \in zs |-> {}],
                 nfree |-> [z \in zs |-> 0]]

(* zone_detachentry.  LIST_REMOVE takes the entry out of the list it is    *)
(* in; the bit cleared and the amount are those of zone z.                 *)
Delisted(l, e) ==
  IF e \in ToSet(l) THEN RemoveAt(l, CHOOSE i \in DOMAIN l : l[i] = e) ELSE l
zone_detachentry(s, z, e) ==
  LET o == msbit(e.size)
      l == [k \in DOMAIN s.zlist |-> Delisted(s.zlist[k], e)]
  IN [zlist |-> l,
      bmap |-> [s.bmap EXCEPT ![z] = IF l[<<z, o>>] = <<>> THEN @ \ {o} ELSE @],
      nfree |-> [s.nfree EXCEPT ![z] = @ - e.size]]

zone_attachentry(s, z, e) ==
  LET o == msbit(e.size)
  IN [zlist |-> [s.zlist EXCEPT ![<<z, o>>] = <<e>> \o @],
      bmap |-> [s.bmap EXCEPT ![z] = @ \cup {o}],
      nfree |-> [s.nfree EXCEPT ![z] = @ + e.size]]

(* zone_findfree: the first entry of the smallest order all of whose       *)
(* entries are large enough.                                               *)
zone_findfree(s, z, size) ==
  LET minbit == IF size = Bit[msbit(size)] THEN msbit(size) ELSE msbit(size) + 1
      fit == {o \in s.bmap[z] : o >= minbit}
  IN IF fit = {} \/ s.zlist[<<z, Min(fit)>>] = <<>> THEN NoEntry ELSE Head(s.zlist[<<z, Min(fit)>>])

(* zone_create, with the free neighbours that ___get_neighbors has found   *)
(* and ___mkptr's entry for the merged range.                              *)
Merged(addr, size, pze, nze) ==
  LET first == IF pze = NoEntry THEN addr ELSE pze.addr
      last == IF nze = NoEntry THEN addr + size ELSE End(nze)
  IN Entry(first, last - first)
zone_create(s, z, addr, size, pze, nze) ==
  LET s1 == IF pze = NoEntry THEN s ELSE zone_detachentry(s, z, pze)
      s2 == IF nze = NoEntry THEN s1 ELSE zone_detachentry(s1, z, nze)
  IN zone_attachentry(s2, z, Merged(addr, size, pze, nze))

-----------------------------------------------------------------------------
Entries(s) == UNION {ToSet(s.zlist[k]) : k \in DOMAIN s.zlist}

(* Lists, bitmap and amount of a zone agree: an entry is once in the list  *)
(* of its order, a bit is set where there is a list to take from, and the  *)
(* amount is the number of pages in the zone's entries.                    *)
Pages(es) == UNION {Ranges(e) : e \in es}
EntriesIn(s, z) == UNION {ToSet(s.zlist[<<z, o>>]) : o \in Orders}
ZoneConsistent(s, z) ==
  /\ \A o \in Orders : /\ IsInjective(s.zlist[<<z, o>>])
                       /\ \A e \in ToSet(s.zlist[<<z, o>>]) : msbit(e.size) = o
  /\ s.bmap[z] = {o \in Orders : s.zlist[<<z, o>>] # <<>>}
  /\ s.nfree[z] = Cardinality(Pages(EntriesIn(s, z)))

(* The free entries and the ranges that are held are disjoint and together *)
(* are the whole space: nothing is handed out twice, nothing is lost.      *)
ZonePartition(s, held, space) ==
  /\ Entries(s) \cap held = {}
  /\ \A e, f \in Entries(s) \cup held : e # f => Ranges(e) \cap Ranges(f) = {}
  /\ Pages(Entries(s) \cup held) = space
=============================================================================

------------------------------ MODULE PgAlloc ------------------------------
(***************************************************************************)
(* The page allocator: ukern/src/pgalloc.c over the page types of          *)
(* ukern/src/pfndb.c.  The entry of a free range lives in the database     *)
(* slots of its first and last page, whose types are the boundary tags     *)
(* that a neighbour reads when it is freed.                                *)
(*                                                                         *)
(* An allocation is two steps: the zone is locked while the range is       *)
(* taken, and the types of the pages are set after it is unlocked.         *)
(***************************************************************************)
EXTENDS Zone

CONSTANTS NPages,    \* pfndb_max
          KernEnd,   \* HIGHSTRT and KMEMEND, in pages: the end of the 1:1 memory
          Lim32,     \* the pages below 4 Gb
          RamPages,  \* pages that the boot loader's map gives as memory
          PgSizes,   \* sizes that are asked for
          PgCpus     \* CPUs

ASSUME PgAssumption == /\ {NPages, KernEnd, Lim32} \subseteq Nat \ {0} /\ NPages - 1 \in Sizes
                       /\ RamPages \subseteq 1 .. NPages - 1
                       /\ PgSizes \subseteq Sizes

Zones == {0, 2, 3}       \* KERN32, HIGH32, HIGH; KERN is empty below 4 Gb
PFNZ_TYPE(p) == IF p < KernEnd THEN 0
                ELSE IF p < Lim32 /\ p < NPages THEN 2
                ELSE 3

GFP_KERN == {0}
GFP_HIGH == {0, 2, 3}
GFP_MEM32 == {0, 2}

VARIABLES pz,     \* the zones, as in Zone
          ptype,  \* [page -> pfndb type]
          ptag,   \* [page -> the entry stored in the page's slot]
          pheld,  \* ranges handed out, with the flags they were asked with
          pset,   \* [PgCpus -> range whose types the CPU has still to set]
          poom    \* panic("OOM")

pgVars == <<pz, ptype, ptag, pheld, pset, poom>>
NoRange == [r |-> NoEntry, gfp |-> {}]

is_pgzterm(t) == t \in {"LONE", "TERM"}
is_pgzstart(t) == t \in {"LONE", "STRT"}

(* ___get_neighbors: the entries that end before the range and begin after *)
(* it.  A neighbour is not merged across a zone boundary; after the range  *)
(* the test is on the page after the first one, not after the last.        *)
PgPrev(g, addr) ==
  IF addr # 0 /\ PFNZ_TYPE(addr) = PFNZ_TYPE(addr - 1) /\ is_pgzterm(g.ptype[addr - 1])
  THEN g.ptag[addr - g.ptag[addr - 1].size] ELSE NoEntry
PgNext(g, addr, size) ==
  IF PFNZ_TYPE(addr) = PFNZ_TYPE(addr + 1) /\ is_pgzstart(g.ptype[addr + size])
  THEN g.ptag[addr + size] ELSE NoEntry

(* ___mkptr: the entry is written to the first and the last slot, and all  *)
(* the types are set.                                                      *)
PgMkptrNoTerm(g, e) ==               \* mutant: the last page is not tagged
  [ptype |-> [p \in DOMAIN g.ptype |->
                IF p \notin Ranges(e) THEN g.ptype[p]
                ELSE IF e.size = 1 THEN "LONE" ELSE IF p = e.addr THEN "STRT" ELSE "FREE"],
   ptag |-> [p \in DOMAIN g.ptag |-> IF p \in {e.addr, End(e) - 1} THEN e ELSE g.ptag[p]]]
PgMkptr(g, e) ==
  [ptype |-> [p \in DOMAIN g.ptype |->
                IF p \notin Ranges(e) THEN g.ptype[p]
                ELSE IF e.size = 1 THEN "LONE"
                ELSE IF p = e.addr THEN "STRT"
                ELSE IF p = End(e) - 1 THEN "TERM" ELSE "FREE"],
   ptag |-> [p \in DOMAIN g.ptag |-> IF p \in {e.addr, End(e) - 1} THEN e ELSE g.ptag[p]]]

(* pgzone_free: zone_create with this file's neighbours and entries.       *)
pgzone_free(g, z, addr, size) ==
  LET p == PgPrev(g, addr)
      n == PgNext(g, addr, size)
      m == PgMkptr(g, Merged(addr, size, p, n))
  IN [pz |-> zone_create(g.pz, z, addr, size, p, n), ptype |-> m.ptype, ptag |-> m.ptag]

(* pgzone_alloc of an entry that zone_findfree has returned.               *)
pgzone_alloc(g, z, e, size) ==
  LET g1 == [g EXCEPT !.pz = zone_detachentry(@, z, e)]
  IN IF e.size = size THEN g1 ELSE pgzone_free(g1, z, e.addr + size, e.size - size)

(* pginit: the runs of free pages, cut where the memory type changes.      *)
PgBoot == [pz |-> ZoneInit(Zones),
           ptype |-> [p \in 0..NPages |-> IF p \in RamPages THEN "FREE" ELSE "SYSTEM"],
           ptag |-> [p \in 0..NPages |-> NoEntry]]
RunEnds(i) == i - 1 \in RamPages /\ (i \notin RamPages \/ PFNZ_TYPE(i) # PFNZ_TYPE(i - 1))
RunStart(i) == Min({j \in 1 .. i - 1 : \A p \in j .. i - 1 :
                      p \in RamPages /\ PFNZ_TYPE(p) = PFNZ_TYPE(i - 1)})
Scan(g, i) == IF RunEnds(i)
              THEN pgzone_free(g, PFNZ_TYPE(RunStart(i)), RunStart(i), i - RunStart(i))
              ELSE g
Scanned[i \in 0 .. NPages] == IF i = 0 THEN PgBoot ELSE Scan(Scanned[i - 1], i)
pginit == Scanned[NPages]

PgInit ==
  /\ pz = pginit.pz
  /\ ptype = pginit.ptype
  /\ ptag = pginit.ptag
  /\ pheld = {}
  /\ pset = [c \in PgCpus |-> NoRange]
  /\ poom = FALSE

PgState == [pz |-> pz, ptype |-> ptype, ptag |-> ptag]
SetPg(g) == pz' = g.pz /\ ptype' = g.ptype /\ ptag' = g.ptag

-----------------------------------------------------------------------------
(* pgalloc, under the locks of the zones it tries: HIGH first, then        *)
(* HIGH32, KERN and KERN32, as far as the flags allow.                     *)
PgAllocTake(c, size, gfp) ==
  LET can == {z \in gfp : zone_findfree(pz, z, size) # NoEntry}
      e == zone_findfree(pz, Max(can), size) IN
  /\ ~poom /\ pset[c] = NoRange
  /\ IF can = {}
     THEN poom' = TRUE /\ UNCHANGED <<pz, ptype, ptag, pheld, pset>>
     ELSE /\ SetPg(pgzone_alloc(PgState, Max(can), e, size))
          /\ pset' = [pset EXCEPT ![c] = [r |-> Entry(e.addr, size), gfp |-> gfp]]
          /\ UNCHANGED <<pheld, poom>>

(* The rest of pgalloc, unlocked: the types of the pages are set and the   *)
(* caller has the range.                                                   *)
PgAllocSetType(c) ==
  /\ ~poom /\ pset[c] # NoRange
  /\ ptype' = [p \in DOMAIN ptype |-> IF p \in Ranges(pset[c].r) THEN "USER" ELSE ptype[p]]
  /\ pheld' = pheld \cup {pset[c]}
  /\ pset' = [pset EXCEPT ![c] = NoRange]
  /\ UNCHANGED <<pz, ptag, poom>>

(* pgfree.                                                                 *)
PgFree(c, h) ==
  /\ ~poom /\ pset[c] = NoRange
  /\ SetPg(pgzone_free(PgState, PFNZ_TYPE(h.r.addr), h.r.addr, h.r.size))
  /\ pheld' = pheld \ {h}
  /\ UNCHANGED <<pset, poom>>

PgNextStep ==
  \E c \in PgCpus :
    \/ \E size \in PgSizes, gfp \in {GFP_KERN, GFP_HIGH, GFP_MEM32} : PgAllocTake(c, size, gfp)
    \/ PgAllocSetType(c)
    \/ \E h \in pheld : PgFree(c, h)

PgSpec == PgInit /\ [][PgNextStep]_pgVars

-----------------------------------------------------------------------------
(* Type invariant.                                                         *)
PgTypeOK ==
  /\ ptype \in [0..NPages -> {"FREE", "LONE", "STRT", "TERM", "USER", "SYSTEM"}]
  /\ DOMAIN ptag = 0..NPages
  /\ \A h \in pheld : h.r.addr \in Nat /\ h.r.size \in PgSizes
  /\ DOMAIN pset = PgCpus
  /\ poom \in BOOLEAN

(* No page is in two ranges, be they free or handed out, none is lost, and *)
(* the lists, bitmaps and amounts of the zones agree: coalescing by        *)
(* boundary tags never swallows a page in use or leaves a stale tag        *)
(* behind.                                                                 *)
PagesDisjoint ==
  /\ \A g, h \in pheld \cup {pset[c] : c \in PgCpus} : g.r.addr = h.r.addr => g = h
  /\ ZonePartition(pz, {h.r : h \in pheld} \cup ({pset[c].r : c \in PgCpus} \ {NoEntry}), RamPages)
  /\ \A z \in Zones : ZoneConsistent(pz, z)

(* Freed ranges are merged: two free ranges of a zone are never adjacent.  *)
PagesCoalesced ==
  \A e, f \in Entries(pz) : End(e) = f.addr => PFNZ_TYPE(e.addr) # PFNZ_TYPE(f.addr)

(* pgalloc and pgfree keep the pages sound.                                *)
PagesSound == PagesDisjoint /\ PagesCoalesced

(* pginit: "If we're crossing a memory type boundary, close the pgzone".   *)
(* A range asked for in the 1:1 memory (GFP_KERN) is in it: the kernel     *)
(* uses it at ptova(pfn).                                                  *)
KernelPagesDirect ==
  \A h \in pheld : h.gfp = GFP_KERN => \A p \in Ranges(h.r) : p < KernEnd
=============================================================================

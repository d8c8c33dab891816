----------------------------- MODULE PmapProofs -----------------------------
(***************************************************************************)
(* Proofs about Pmap, for any number of processes, pages and frames.       *)
(***************************************************************************)
EXTENDS Pmap, FiniteSetTheorems, FunctionTheorems, TLAPS

-----------------------------------------------------------------------------
(* The sets that are counted are finite.                                   *)

LEMMA VasFinite == IsFiniteSet(Vas)
BY VaAssumption, FS_AddElement, FS_Singleton, FS_Union DEF Vas

LEMMA MappingsFinite == IsFiniteSet(Procs \X Vas)
BY ProcsAssumption, VasFinite, FS_Product

(* The mappings of a frame are a finite set.                               *)
LEMMA MapsFinite ==
  ASSUME NEW p
  PROVE  IsFiniteSet(Maps(p)) /\ Cardinality(Maps(p)) \in Nat
<1>1. Maps(p) \subseteq Procs \X Vas
  BY DEF Maps
<1>2. QED
  BY <1>1, MappingsFinite, FS_Subset, FS_CardinalityType

LEMMA VasOfFinite ==
  ASSUME NEW tbl, NEW V \in SUBSET Vas, NEW T, NEW p
  PROVE  /\ IsFiniteSet(VasOf(tbl, V, T, p))
         /\ Cardinality(VasOf(tbl, V, T, p)) \in Nat
<1>1. VasOf(tbl, V, T, p) \subseteq Vas
  BY DEF VasOf
<1>2. QED
  BY <1>1, VasFinite, FS_Subset, FS_CardinalityType

(* The number of export records of a frame is a natural number.            *)
LEMMA RecordsType ==
  ASSUME NEW pr, NEW p
  PROVE  Records(pr, p) \in Nat
<1> DEFINE S == {r \in Vas \X (1 .. MaxDma) : r[2] <= dma[pr][<<r[1], p>>]}
<1>1. IsFiniteSet(1 .. MaxDma)
  BY CountAssumption, FS_Interval
<1>2. IsFiniteSet(Vas \X (1 .. MaxDma))
  BY <1>1, VasFinite, FS_Product
<1>3. IsFiniteSet(S)
  BY <1>2, FS_Subset
<1>4. Cardinality(S) \in Nat
  BY <1>3, FS_CardinalityType
<1>5. QED
  BY <1>4 DEF Records

(* The entries that the calls write.                                       *)
LEMMA EntryType ==
  /\ None \in Entry
  /\ \A p \in Pfns, w \in BOOLEAN : [t |-> "normal", pfn |-> p, w |-> w] \in Entry
  /\ \A m \in Mmio : [t |-> "iomap", pfn |-> m, w |-> TRUE] \in Entry
  /\ \A e \in Entry :
       Counted(e) => /\ e.pfn \in Pfns
                     /\ l1e_mknormal(e) \in Entry
                     /\ l1e_mkwired(e) \in Entry
                     /\ l1e_mkcow(e) \in Entry
                     /\ \A w \in BOOLEAN :
                          [t |-> "normal", pfn |-> e.pfn, w |-> w] \in Entry
BY DEF Entry, None, Counted, l1e_mknormal, l1e_mkwired, l1e_mkcow

(* Releasing a replaced entry keeps the counts and the allocated set typed. *)
LEMMA DropType ==
  ASSUME NEW r \in [Pfns -> Int], NEW u \in SUBSET Pfns, NEW e \in Entry
  PROVE  DropRef(r, e) \in [Pfns -> Int] /\ FreeOld(u, e) \in SUBSET Pfns
<1>1. CASE e.t = "normal"
  <2>1. e.pfn \in Pfns
    BY <1>1, EntryType DEF Counted
  <2>2. [r EXCEPT ![e.pfn] = @ - 1] \in [Pfns -> Int]
    BY <2>1
  <2>3. QED
    BY <1>1, <2>2 DEF DropRef, FreeOld
<1>2. CASE e.t # "normal"
  BY <1>2 DEF DropRef, FreeOld
<1>3. QED
  BY <1>1, <1>2

(* Writing one entry.                                                      *)
LEMMA SetEntryType ==
  ASSUME TypeOK, NEW pr \in Procs, NEW va \in Vas, NEW f \in Entry
  PROVE  [pte EXCEPT ![pr][va] = f] \in [Procs -> [Vas -> Entry]]
BY DEF TypeOK

(* Adding or dropping one export record.                                   *)
LEMMA DmaType ==
  ASSUME TypeOK, NEW pr \in Procs, NEW r \in Vas \X Pfns
  PROVE  /\ [dma EXCEPT ![pr][r] = @ + 1] \in [Procs -> [Vas \X Pfns -> Int]]
         /\ [dma EXCEPT ![pr][r] = @ - 1] \in [Procs -> [Vas \X Pfns -> Int]]
<1> DEFINE R == Vas \X Pfns
<1>1. dma \in [Procs -> [R -> Int]] /\ r \in R
  BY DEF TypeOK
<1> HIDE DEF R
<1>2. /\ [dma EXCEPT ![pr][r] = @ + 1] \in [Procs -> [R -> Int]]
      /\ [dma EXCEPT ![pr][r] = @ - 1] \in [Procs -> [R -> Int]]
  BY <1>1
<1>3. QED
  BY <1>2 DEF R

(* Closing the device turns an entry into an entry.                        *)
LEMMA ClosedEntryType ==
  ASSUME TypeOK, NEW pr \in Procs, NEW va \in Vas
  PROVE  ClosedEntry(pr, va) \in Entry
<1> DEFINE e == pte[pr][va]
<1>1. e \in Entry
  BY DEF TypeOK
<1>2. QED
  BY <1>1, EntryType DEF ClosedEntry, Counted

-----------------------------------------------------------------------------
(* Every process state, page-table entry, count and record keeps its type, *)
(* whatever system calls are made.                                         *)
THEOREM TypeCorrect == Spec => []TypeOK
<1>1. Init => TypeOK
  BY ProcsAssumption DEF Init, TypeOK, Entry, None
<1>2. TypeOK /\ [Next]_vars => TypeOK'
  <2> SUFFICES ASSUME TypeOK, [Next]_vars
               PROVE  TypeOK'
    OBVIOUS
  <2>0. /\ \A pr \in Procs, va \in Vas : pte[pr][va] \in Entry
        /\ ref \in [Pfns -> Int]
        /\ used \in SUBSET Pfns
    BY DEF TypeOK
  <2>1. ASSUME NEW pr \in Procs, NEW va \in Vas, NEW w \in BOOLEAN, VmMap(pr, va, w)
        PROVE  TypeOK'
    <3>1. PICK p \in Pfns \ used :
            /\ pte' = [pte EXCEPT ![pr][va] = [t |-> "normal", pfn |-> p, w |-> w]]
            /\ ref' = DropRef([ref EXCEPT ![p] = 1], pte[pr][va])
            /\ used' = FreeOld(used \cup {p}, pte[pr][va])
            /\ wir' = [wir EXCEPT ![p] = 0]
            /\ cowed' = cowed \ {p}
            /\ cowexp' = cowexp \ {p}
      BY <2>1 DEF VmMap
    <3>2. [ref EXCEPT ![p] = 1] \in [Pfns -> Int] /\ used \cup {p} \in SUBSET Pfns
      BY <2>0
    <3>3. ref' \in [Pfns -> Int] /\ used' \in SUBSET Pfns
      BY <2>0, <3>1, <3>2, DropType
    <3>4. pte' \in [Procs -> [Vas -> Entry]]
      BY <3>1, EntryType, SetEntryType
    <3>5. wir' \in [Pfns -> Int] /\ cowed' \subseteq Pfns /\ cowexp' \subseteq Pfns
      BY <3>1 DEF TypeOK
    <3>6. UNCHANGED <<st, dma, hwmap, halt>>
      BY <2>1 DEF VmMap
    <3>7. QED
      BY <3>3, <3>4, <3>5, <3>6 DEF TypeOK
  <2>2. ASSUME NEW pr \in Procs, NEW va \in Vas, NEW w \in BOOLEAN, VmChprot(pr, va, w)
        PROVE  TypeOK'
    <3>1. [t |-> "normal", pfn |-> pte[pr][va].pfn, w |-> w] \in Entry
      BY <2>0, <2>2, EntryType DEF VmChprot, MayChprot, Counted
    <3>2. pte' \in [Procs -> [Vas -> Entry]]
      BY <2>2, <3>1, SetEntryType DEF VmChprot
    <3>3. QED
      BY <2>2, <3>2 DEF VmChprot, TypeOK
  <2>3. ASSUME NEW pr \in Procs, NEW va \in Vas, VmUnmap(pr, va)
        PROVE  TypeOK'
    <3>1. pte' \in [Procs -> [Vas -> Entry]]
      BY <2>3, EntryType, SetEntryType DEF VmUnmap
    <3>2. ref' \in [Pfns -> Int] /\ used' \in SUBSET Pfns
      BY <2>0, <2>3, DropType DEF VmUnmap
    <3>3. QED
      BY <2>3, <3>1, <3>2 DEF VmUnmap, TypeOK
  <2>4. ASSUME NEW pr \in Procs, NEW va \in Vas, VmChprotCow(pr, va)
        PROVE  TypeOK'
    BY <2>4 DEF VmChprotCow, Halt, TypeOK
  <2>5. ASSUME NEW pr \in Procs, NEW va \in Vas, PmapFault(pr, va)
        PROVE  TypeOK'
    <3>1. l1e_mknormal(pte[pr][va]) \in Entry
      BY <2>0, <2>5, EntryType DEF PmapFault, Counted
    <3>2. pte' \in [Procs -> [Vas -> Entry]]
      BY <2>5, <3>1, SetEntryType DEF PmapFault
    <3>3. QED
      BY <2>5, <3>2 DEF PmapFault, TypeOK
  <2>6. ASSUME NEW pr \in Procs, NEW va \in Vas, Export(pr, va)
        PROVE  TypeOK'
    <3>1. pte[pr][va].pfn \in Pfns /\ l1e_mkwired(pte[pr][va]) \in Entry
      BY <2>0, <2>6, EntryType DEF Export
    <3>2. pte' \in [Procs -> [Vas -> Entry]]
      BY <2>6, <3>1, SetEntryType DEF Export
    <3>3. wir' \in [Pfns -> Int]
      BY <2>6, <3>1 DEF Export, TypeOK
    <3>4. dma' \in [Procs -> [Vas \X Pfns -> Int]]
      <4>1. <<va, pte[pr][va].pfn>> \in Vas \X Pfns
        BY <3>1
      <4>2. QED
        BY <2>6, <4>1, DmaType DEF Export
    <3>5. cowexp' \subseteq Pfns
      BY <2>6, <3>1 DEF Export, TypeOK
    <3>6. QED
      BY <2>6, <3>2, <3>3, <3>4, <3>5 DEF Export, TypeOK
  <2>7. ASSUME NEW pr \in Procs, NEW va \in Vas, ExportAbsent(pr, va)
        PROVE  TypeOK'
    BY <2>7 DEF ExportAbsent, Halt, TypeOK
  <2>8. ASSUME NEW pr \in Procs, NEW va \in Vas, Unexport(pr, va)
        PROVE  TypeOK'
    <3>1. CASE pte[pr][va].t # "wired"
      BY <2>8, <3>1 DEF Unexport, Halt, TypeOK
    <3>2. CASE pte[pr][va].t = "wired"
      <4>1. pte[pr][va].pfn \in Pfns /\ l1e_mknormal(pte[pr][va]) \in Entry
        BY <2>0, <3>2, EntryType DEF Counted
      <4>2. pte' \in [Procs -> [Vas -> Entry]]
        <5>1. \/ pte' = pte
              \/ pte' = [pte EXCEPT ![pr][va] = l1e_mknormal(pte[pr][va])]
          BY <2>8, <3>2 DEF Unexport
        <5>2. pte \in [Procs -> [Vas -> Entry]]
          BY DEF TypeOK
        <5>3. [pte EXCEPT ![pr][va] = l1e_mknormal(pte[pr][va])]
                \in [Procs -> [Vas -> Entry]]
          BY <4>1, SetEntryType
        <5>4. QED
          BY <5>1, <5>2, <5>3
      <4>3. wir' \in [Pfns -> Int]
        BY <2>8, <3>2, <4>1 DEF Unexport, TypeOK
      <4>4. dma' \in [Procs -> [Vas \X Pfns -> Int]]
        <5>1. PICK p \in Pfns : dma' = [dma EXCEPT ![pr][<<va, p>>] = @ - 1]
          BY <2>8, <3>2 DEF Unexport
        <5>2. <<va, p>> \in Vas \X Pfns
          OBVIOUS
        <5>3. QED
          BY <5>1, <5>2, DmaType
      <4>5. QED
        BY <2>8, <3>2, <4>2, <4>3, <4>4 DEF Unexport, TypeOK
    <3>3. QED
      BY <3>1, <3>2
  <2>9. ASSUME NEW pr \in Procs, NEW va \in Vas, IoUnmap(pr, va)
        PROVE  TypeOK'
    <3>1. pte' \in [Procs -> [Vas -> Entry]]
      BY <2>9, EntryType, SetEntryType DEF IoUnmap, TypeOK
    <3>2. QED
      BY <2>9, <3>1 DEF IoUnmap, TypeOK
  <2>10. ASSUME NEW pr \in Procs, NEW va \in Vas, NEW m \in Mmio, IoMap(pr, va, m)
         PROVE  TypeOK'
    <3>1. pte' \in [Procs -> [Vas -> Entry]]
      BY <2>10, EntryType, SetEntryType DEF IoMap
    <3>2. ref' \in [Pfns -> Int] /\ used' \in SUBSET Pfns
      BY <2>0, <2>10, DropType DEF IoMap
    <3>3. QED
      BY <2>10, <3>1, <3>2 DEF IoMap, TypeOK
  <2>11. ASSUME NEW pr \in Procs, NEW dst \in Vas, NEW src \in Vas, VmMove(pr, dst, src)
         PROVE  TypeOK'
    <3>1. pte' \in [Procs -> [Vas -> Entry]]
      BY <2>11, EntryType DEF VmMove, TypeOK
    <3>2. ref' \in [Pfns -> Int] /\ used' \in SUBSET Pfns
      BY <2>0, <2>11, DropType DEF VmMove
    <3>3. QED
      BY <2>11, <3>1, <3>2 DEF VmMove, TypeOK
  <2>12. ASSUME NEW pr \in Procs, NEW n \in Procs, Fork(pr, n)
         PROVE  TypeOK'
    <3>1. ForkRef(pr) \in [Pfns -> Int]
      <4>1. CowVas \in SUBSET Vas
        BY DEF Vas
      <4>2. \A p \in Pfns :
               Cardinality(VasOf(pte[pr], CowVas, {"normal", "cow"}, p)) \in Nat
        BY <4>1, VasOfFinite
      <4>3. QED
        BY <4>2 DEF ForkRef, TypeOK
    <3>2. ParentTable(pr) \in [Vas -> Entry]
      <4>1. \A va \in Vas : Shared(pte[pr][va]) => l1e_mkcow(pte[pr][va]) \in Entry
        BY <2>0, EntryType DEF Shared, Counted
      <4>2. QED
        BY <2>0, <4>1 DEF ParentTable
    <3>3. ASSUME NEW z \in Entry
          PROVE  ChildTable(pr, z) \in [Vas -> Entry]
      <4>1. \A va \in Vas : Shared(pte[pr][va]) => l1e_mkcow(pte[pr][va]) \in Entry
        BY <2>0, EntryType DEF Shared, Counted
      <4>2. QED
        BY <4>1, EntryType DEF ChildTable
    <3>4. PICK q \in Pfns \ used, g \in {0, StaleWir}, z \in Entry :
            /\ pte' = [pte EXCEPT ![pr] = ParentTable(pr), ![n] = ChildTable(pr, z)]
            /\ ref' = [ForkRef(pr) EXCEPT ![q] = 1] \/ ref' = ForkRef(pr)
            /\ used' = used \cup {q} \/ used' = used
            /\ wir' = [wir EXCEPT ![q] = g] \/ wir' = wir
            /\ cowed' = (cowed \ {q}) \cup
                 {p \in Pfns : VasOf(pte[pr], CowVas, {"normal", "cow"}, p) # {}}
            /\ cowexp' = cowexp \ {q}
      BY <2>12, EntryType DEF Fork
    <3>5. pte' \in [Procs -> [Vas -> Entry]]
      BY <3>2, <3>3, <3>4 DEF TypeOK
    <3>6. ref' \in [Pfns -> Int]
      BY <3>1, <3>4
    <3>7. wir' \in [Pfns -> Int]
      BY <3>4, CountAssumption DEF TypeOK
    <3>8. QED
      BY <2>12, <3>4, <3>5, <3>6, <3>7 DEF Fork, TypeOK
  <2>13. ASSUME NEW pr \in Procs, OutOfMemory(pr)
         PROVE  TypeOK'
    BY <2>13 DEF OutOfMemory, Halt, TypeOK
  <2>14. ASSUME NEW pr \in Procs, Exit(pr)
         PROVE  TypeOK'
    <3> DEFINE closed == [va \in Vas |-> ClosedEntry(pr, va)]
               dropped(p) == Cardinality(VasOf(closed, Vas, {"normal"}, p))
    <3>1. closed \in [Vas -> Entry]
      BY ClosedEntryType
    <3>2. \A p \in Pfns : dropped(p) \in Nat
      BY VasOfFinite
    <3>3. ClosedWir(pr) \in [Pfns -> Int]
      BY RecordsType DEF ClosedWir, TypeOK
    <3>4. pte' \in [Procs -> [Vas -> Entry]]
      BY <2>14, <3>1 DEF Exit, TypeOK, Entry, None
    <3>5. ref' \in [Pfns -> Int]
      BY <2>14, <3>2 DEF Exit, TypeOK
    <3>6. QED
      BY <2>14, <3>3, <3>4, <3>5 DEF Exit, TypeOK
  <2>15. ASSUME NEW pr \in Procs, Reap(pr)
         PROVE  TypeOK'
    BY <2>15 DEF Reap, TypeOK, Entry, None
  <2>16. CASE UNCHANGED vars
    BY <2>16 DEF vars, TypeOK
  <2>17. QED
    BY <2>1, <2>2, <2>3, <2>4, <2>5, <2>6, <2>7, <2>8, <2>9, <2>10, <2>11,
       <2>12, <2>13, <2>14, <2>15, <2>16 DEF Next, Halted
<1>3. QED
  BY <1>1, <1>2, PTL DEF Spec

-----------------------------------------------------------------------------
(* Pairing a fixed element with every element of a set keeps its size.     *)
LEMMA PairImage ==
  ASSUME NEW a, NEW S, IsFiniteSet(S)
  PROVE  /\ IsFiniteSet({<<a, x>> : x \in S})
         /\ Cardinality({<<a, x>> : x \in S}) = Cardinality(S)
<1> DEFINE T == {<<a, x>> : x \in S}
           F == [x \in S |-> <<a, x>>]
<1>1. F \in [S -> T] /\ \A x, y \in S : F[x] = F[y] => x = y
  OBVIOUS
<1>2. \A t \in T : \E x \in S : F[x] = t
  OBVIOUS
<1> HIDE DEF T, F
<1>3. F \in Bijection(S, T)
  BY <1>1, <1>2, Fun_IsBij
<1>4. ExistsBijection(S, T)
  BY <1>3 DEF ExistsBijection
<1>5. IsFiniteSet(T) /\ Cardinality(T) = Cardinality(S)
  BY <1>4, FS_Bijection
<1>6. QED
  BY <1>5 DEF T

(* A smaller finite set.                                                   *)
LEMMA SubsetCard ==
  ASSUME NEW S, NEW T, IsFiniteSet(S), T \subseteq S
  PROVE  /\ IsFiniteSet(T)
         /\ Cardinality(T) \in Nat
         /\ Cardinality(S) \in Nat
         /\ Cardinality(T) <= Cardinality(S)
         /\ T # {} => Cardinality(S) >= 1
<1>1. IsFiniteSet(T) /\ Cardinality(T) <= Cardinality(S)
  BY FS_Subset
<1>2. Cardinality(T) \in Nat /\ Cardinality(S) \in Nat
  BY <1>1, FS_CardinalityType
<1>3. T # {} => Cardinality(S) # 0
  BY FS_EmptySet
<1>4. QED
  BY <1>1, <1>2, <1>3

(* What one written entry does to the mappings of a frame.                 *)
LEMMA OneEntry ==
  ASSUME TypeOK, NEW pr \in Procs, NEW va \in Vas, NEW f \in Entry,
         pte' = [pte EXCEPT ![pr][va] = f], NEW p \in Pfns
  PROVE  /\ Maps(p)' \subseteq Maps(p) \cup {<<pr, va>>}
         /\ ~(Counted(f) /\ f.pfn = p) => Maps(p)' \subseteq Maps(p) \ {<<pr, va>>}
<1>1. pte \in [Procs -> [Vas -> Entry]]
  BY DEF TypeOK
<1>2. pte'[pr][va] = f
  BY <1>1
<1>3. \A m \in Procs \X Vas :
        m # <<pr, va>> => pte'[m[1]][m[2]] = pte[m[1]][m[2]]
  BY <1>1
<1>4. QED
  BY <1>2, <1>3 DEF Maps

(* A step that adds no mapping and leaves the counts alone.                *)
LEMMA Shrink ==
  ASSUME TypeOK, RefCovers, ref' = ref, used' = used,
         \A p \in Pfns : Maps(p)' \subseteq Maps(p)
  PROVE  RefCovers'
<1> SUFFICES ASSUME NEW p \in Pfns
             PROVE  /\ Maps(p)' # {} => p \in used
                    /\ p \in used => Cardinality(Maps(p)') <= ref[p]
  BY DEF RefCovers
<1>1. /\ IsFiniteSet(Maps(p))
      /\ Maps(p)' \subseteq Maps(p)
  BY MapsFinite
<1>2. /\ Cardinality(Maps(p)') \in Nat
      /\ Cardinality(Maps(p)) \in Nat
      /\ Cardinality(Maps(p)') <= Cardinality(Maps(p))
  BY <1>1, SubsetCard
<1>3. /\ Maps(p) # {} => p \in used
      /\ p \in used => Cardinality(Maps(p)) <= ref[p]
      /\ ref[p] \in Int
  BY DEF RefCovers, TypeOK
<1>4. QED
  BY <1>1, <1>2, <1>3

(* Rewriting an entry so that it still uses the same frame.                *)
LEMMA SameFrame ==
  ASSUME TypeOK, NEW pr \in Procs, NEW va \in Vas, NEW f \in Entry,
         Counted(pte[pr][va]), f.pfn = pte[pr][va].pfn,
         pte' = [pte EXCEPT ![pr][va] = f], NEW p \in Pfns
  PROVE  Maps(p)' \subseteq Maps(p)
<1>1. pte[pr][va].pfn = p => <<pr, va>> \in Maps(p)
  BY DEF Maps
<1>2. QED
  BY <1>1, OneEntry

(* Giving up the entry at va of process pr: the counts still cover the     *)
(* mappings that are left.                                                 *)
LEMMA Release ==
  ASSUME TypeOK, RefCovers, NEW pr \in Procs, NEW va \in Vas, NEW p \in Pfns,
         NEW M, M \subseteq Maps(p) \ {<<pr, va>>}
  PROVE  /\ M # {} => p \in FreeOld(used, pte[pr][va])
         /\ p \in FreeOld(used, pte[pr][va]) =>
              Cardinality(M) <= DropRef(ref, pte[pr][va])[p]
<1> DEFINE e == pte[pr][va]
           K == Maps(p) \ {<<pr, va>>}
<1>1. /\ IsFiniteSet(Maps(p))
      /\ Cardinality(Maps(p)) \in Nat
  BY MapsFinite
<1>2. /\ IsFiniteSet(K)
      /\ Cardinality(K) = IF <<pr, va>> \in Maps(p)
                          THEN Cardinality(Maps(p)) - 1 ELSE Cardinality(Maps(p))
  BY <1>1, FS_RemoveElement
<1>3. /\ Cardinality(M) \in Nat /\ Cardinality(K) \in Nat
      /\ Cardinality(M) <= Cardinality(K)
      /\ M # {} => Cardinality(K) >= 1
  <2> HIDE DEF K
  <2>1. M \subseteq K
    BY DEF K
  <2>2. QED
    BY <1>2, <2>1, SubsetCard
<1>4. /\ Maps(p) # {} => p \in used
      /\ p \in used => Cardinality(Maps(p)) <= ref[p]
      /\ ref \in [Pfns -> Int]
      /\ M # {} => Maps(p) # {}
  BY DEF RefCovers, TypeOK
<1>5. CASE e.t = "normal" /\ e.pfn = p
  <2>1. <<pr, va>> \in Maps(p)
    BY <1>5 DEF Maps, Counted
  <2>2. DropRef(ref, e)[p] = ref[p] - 1
    BY <1>4, <1>5 DEF DropRef
  <2>3. p \in FreeOld(used, e) <=> p \in used /\ ref[p] # 1
    BY <1>5 DEF FreeOld
  <2> HIDE DEF e, K
  <2>4. QED
    BY <1>1, <1>2, <1>3, <1>4, <2>1, <2>2, <2>3 DEF e
<1>6. CASE ~(e.t = "normal" /\ e.pfn = p)
  <2>1. DropRef(ref, e)[p] = ref[p]
    <3>1. CASE e.t = "normal"
      BY <1>4, <1>6, <3>1 DEF DropRef
    <3>2. CASE e.t # "normal"
      BY <3>2 DEF DropRef
    <3>3. QED
      BY <3>1, <3>2
  <2>2. p \in FreeOld(used, e) <=> p \in used
    BY <1>6 DEF FreeOld
  <2> HIDE DEF e, K
  <2>4. QED
    BY <1>1, <1>2, <1>3, <1>4, <2>1, <2>2 DEF e
<1>7. QED
  BY <1>5, <1>6
-----------------------------------------------------------------------------
(* sys_map with a new frame.                                               *)
LEMMA VmMapCovers ==
  ASSUME TypeOK, RefCovers,
         NEW pr \in Procs, NEW va \in Vas, NEW w \in BOOLEAN, VmMap(pr, va, w)
  PROVE  RefCovers'
<1> DEFINE e == pte[pr][va]
<1>1. PICK q \in Pfns \ used :
        /\ pte' = [pte EXCEPT ![pr][va] = [t |-> "normal", pfn |-> q, w |-> w]]
        /\ ref' = DropRef([ref EXCEPT ![q] = 1], e)
        /\ used' = FreeOld(used \cup {q}, e)
  BY DEF VmMap
<1> DEFINE f == [t |-> "normal", pfn |-> q, w |-> w]
<1>2. f \in Entry
  BY EntryType
<1>3. Maps(q) = {} /\ ~(e.t = "normal" /\ e.pfn = q)
  <2>1. Maps(q) = {}
    BY DEF RefCovers
  <2>2. ASSUME e.t = "normal", e.pfn = q
        PROVE  <<pr, va>> \in Maps(q)
    BY <2>2 DEF Maps, Counted
  <2>3. QED
    BY <2>1, <2>2
<1>4. e \in Entry /\ ref \in [Pfns -> Int] /\ used \in SUBSET Pfns
  BY DEF TypeOK
<1> SUFFICES ASSUME NEW p \in Pfns
             PROVE  /\ Maps(p)' # {} => p \in used'
                    /\ p \in used' => Cardinality(Maps(p)') <= ref'[p]
  BY DEF RefCovers
<1>5. CASE p = q
  <2>1. Maps(p)' \subseteq {<<pr, va>>}
    <3>1. pte' = [pte EXCEPT ![pr][va] = f]
      BY <1>1
    <3>2. Maps(p)' \subseteq Maps(p) \cup {<<pr, va>>}
      BY <1>2, <3>1, OneEntry
    <3>3. QED
      BY <1>3, <1>5, <3>2
  <2>2. Cardinality(Maps(p)') <= 1
    <3>1. IsFiniteSet({<<pr, va>>}) /\ Cardinality({<<pr, va>>}) = 1
      BY FS_Singleton
    <3>2. Cardinality(Maps(p)') <= Cardinality({<<pr, va>>})
      BY <2>1, <3>1, SubsetCard
    <3>3. QED
      BY <3>1, <3>2
  <2>3. p \in used' /\ ref'[p] = 1
    <3>1. p \in used'
      BY <1>1, <1>3, <1>5 DEF FreeOld
    <3>2. CASE e.t = "normal"
      <4>1. e.pfn \in Pfns /\ e.pfn # q
        BY <1>3, <1>4, <3>2, EntryType DEF Counted
      <4>2. QED
        BY <1>1, <1>4, <1>5, <3>1, <3>2, <4>1 DEF DropRef
    <3>3. CASE e.t # "normal"
      BY <1>1, <1>4, <1>5, <3>1, <3>3 DEF DropRef
    <3>4. QED
      BY <3>2, <3>3
  <2>4. QED
    BY <2>2, <2>3
<1>6. CASE p # q
  <2>1. Maps(p)' \subseteq Maps(p) \ {<<pr, va>>}
    <3>1. pte' = [pte EXCEPT ![pr][va] = f]
      BY <1>1
    <3>2. ~(Counted(f) /\ f.pfn = p)
      BY <1>6
    <3>3. QED
      BY <1>2, <3>1, <3>2, OneEntry
  <2>2. p \in used' <=> p \in FreeOld(used, e)
    BY <1>1, <1>6 DEF FreeOld
  <2>3. ref'[p] = DropRef(ref, e)[p]
    <3>1. CASE e.t = "normal"
      <4>1. e.pfn \in Pfns /\ e.pfn # q
        BY <1>3, <1>4, <3>1, EntryType DEF Counted
      <4>2. QED
        BY <1>1, <1>4, <1>6, <3>1, <4>1 DEF DropRef
    <3>2. CASE e.t # "normal"
      BY <1>1, <1>4, <1>6, <3>2 DEF DropRef
    <3>3. QED
      BY <3>1, <3>2
  <2>4. QED
    BY <2>1, <2>2, <2>3, Release
<1>7. QED
  BY <1>5, <1>6

(* sys_map with MAP_NONE and sys_iomap: the new entry uses no user frame.  *)
LEMMA ReplaceCovers ==
  ASSUME TypeOK, RefCovers, NEW pr \in Procs, NEW va \in Vas,
         NEW f \in Entry, ~Counted(f),
         pte' = [pte EXCEPT ![pr][va] = f],
         ref' = DropRef(ref, pte[pr][va]),
         used' = FreeOld(used, pte[pr][va])
  PROVE  RefCovers'
<1> SUFFICES ASSUME NEW p \in Pfns
             PROVE  /\ Maps(p)' # {} => p \in used'
                    /\ p \in used' => Cardinality(Maps(p)') <= ref'[p]
  BY DEF RefCovers
<1>1. Maps(p)' \subseteq Maps(p) \ {<<pr, va>>}
  BY OneEntry
<1>2. QED
  BY <1>1, Release

(* sys_move between two different pages: the mapping of the source becomes *)
(* the mapping of the destination.                                         *)
LEMMA VmMoveCovers ==
  ASSUME TypeOK, RefCovers, ~SelfMove,
         NEW pr \in Procs, NEW dst \in Vas, NEW src \in Vas, VmMove(pr, dst, src)
  PROVE  RefCovers'
<1> DEFINE e == pte[pr][src]
<1>1. /\ dst # src
      /\ pte' = [pte EXCEPT ![pr] = [@ EXCEPT ![src] = None, ![dst] = e]]
      /\ ref' = DropRef(ref, pte[pr][dst])
      /\ used' = FreeOld(used, pte[pr][dst])
  BY DEF VmMove
<1>2. pte \in [Procs -> [Vas -> Entry]]
  BY DEF TypeOK
<1>3. /\ pte'[pr][src] = None
      /\ pte'[pr][dst] = e
      /\ \A m \in Procs \X Vas : m \notin {<<pr, src>>, <<pr, dst>>} =>
           pte'[m[1]][m[2]] = pte[m[1]][m[2]]
  BY <1>1, <1>2
<1> SUFFICES ASSUME NEW p \in Pfns
             PROVE  /\ Maps(p)' # {} => p \in used'
                    /\ p \in used' => Cardinality(Maps(p)') <= ref'[p]
  BY DEF RefCovers
<1> DEFINE M == Maps(p) \ {<<pr, dst>>}
           s == <<pr, src>>
           d == <<pr, dst>>
<1>4. /\ M # {} => p \in used'
      /\ p \in used' => Cardinality(M) <= ref'[p]
  BY <1>1, Release
<1>5. IsFiniteSet(M) /\ Cardinality(M) \in Nat
  BY MapsFinite, SubsetCard
<1>6. /\ Maps(p)' # {} => M # {}
      /\ Cardinality(Maps(p)') <= Cardinality(M)
  <2>1. CASE Counted(e) /\ e.pfn = p
    <3>1. s \in M /\ s # d /\ d \notin M
      BY <1>1, <2>1 DEF Maps
    <3>2. Maps(p)' \subseteq (M \ {s}) \cup {d}
      <4> SUFFICES ASSUME NEW m \in Maps(p)', m # d
                   PROVE  m \in Maps(p) /\ m # s
        OBVIOUS
      <4>1. m \in Procs \X Vas /\ Counted(pte'[m[1]][m[2]]) /\ pte'[m[1]][m[2]].pfn = p
        BY DEF Maps
      <4>2. m # s
        BY <1>3, <4>1 DEF None, Counted
      <4>3. QED
        BY <1>3, <4>1, <4>2 DEF Maps
    <3> HIDE DEF M, s, d
    <3>3. IsFiniteSet(M \ {s}) /\ Cardinality(M \ {s}) = Cardinality(M) - 1
      BY <1>5, <3>1, FS_RemoveElement
    <3>4. /\ IsFiniteSet((M \ {s}) \cup {d})
          /\ Cardinality((M \ {s}) \cup {d}) = Cardinality(M)
      <4>1. d \notin M \ {s}
        BY <3>1
      <4>2. /\ IsFiniteSet((M \ {s}) \cup {d})
            /\ Cardinality((M \ {s}) \cup {d}) = Cardinality(M \ {s}) + 1
        BY <3>3, <4>1, FS_AddElement
      <4>3. QED
        BY <1>5, <3>3, <4>2
    <3>5. QED
      BY <3>1, <3>2, <3>4, SubsetCard
  <2>2. CASE ~(Counted(e) /\ e.pfn = p)
    <3>1. Maps(p)' \subseteq M
      <4> SUFFICES ASSUME NEW m \in Maps(p)'
                   PROVE  m \in Maps(p) /\ m # d
        OBVIOUS
      <4>1. m \in Procs \X Vas /\ Counted(pte'[m[1]][m[2]]) /\ pte'[m[1]][m[2]].pfn = p
        BY DEF Maps
      <4>2. m # s /\ m # d
        BY <1>3, <2>2, <4>1 DEF None, Counted
      <4>3. QED
        BY <1>3, <4>1, <4>2 DEF Maps
    <3> HIDE DEF M
    <3>2. QED
      BY <1>5, <3>1, SubsetCard
  <2>3. QED
    BY <2>1, <2>2
<1>7. /\ ref'[p] \in Int
      /\ Cardinality(Maps(p)') \in Nat
  <2>1. ref' \in [Pfns -> Int]
    <3>1. pte[pr][dst] \in Entry /\ ref \in [Pfns -> Int] /\ used \in SUBSET Pfns
      BY <1>2 DEF TypeOK
    <3>2. QED
      BY <1>1, <3>1, DropType
  <2>2. Maps(p)' \subseteq Procs \X Vas
    BY DEF Maps
  <2>3. QED
    BY <2>1, <2>2, MappingsFinite, SubsetCard
<1> HIDE DEF M
<1>8. QED
  BY <1>4, <1>5, <1>6, <1>7

(* sys_fork: every entry the child inherits is paid for by one reference,  *)
(* and the copied page has a frame of its own.                             *)
LEMMA ForkCovers ==
  ASSUME TypeOK, RefCovers, NEW pr \in Procs, NEW n \in Procs, Fork(pr, n)
  PROVE  RefCovers'
<1> DEFINE T == {"normal", "cow"}
           S(p) == VasOf(pte[pr], CowVas, T, p)
           N(p) == {<<n, va>> : va \in S(p)}
           copied == pte[pr][ZVa].t # "none"
<1>1. PICK q \in Pfns \ used :
        LET z == IF copied THEN [t |-> "normal", pfn |-> q, w |-> TRUE] ELSE None IN
        /\ pte' = [pte EXCEPT ![pr] = ParentTable(pr), ![n] = ChildTable(pr, z)]
        /\ ref' = IF copied THEN [ForkRef(pr) EXCEPT ![q] = 1] ELSE ForkRef(pr)
        /\ used' = IF copied THEN used \cup {q} ELSE used
  BY DEF Fork
<1> DEFINE z == IF copied THEN [t |-> "normal", pfn |-> q, w |-> TRUE] ELSE None
<1>2. pr # n
  BY DEF Fork, Running
<1>3. pte \in [Procs -> [Vas -> Entry]] /\ ref \in [Pfns -> Int] /\ used \in SUBSET Pfns
  BY DEF TypeOK
<1>4. /\ pte'[pr] = ParentTable(pr)
      /\ pte'[n] = ChildTable(pr, z)
      /\ \A k \in Procs : k # pr /\ k # n => pte'[k] = pte[k]
  BY <1>1, <1>2, <1>3
<1>5. CowVas \in SUBSET Vas /\ ZVa \in Vas /\ ZVa \notin CowVas
  BY VaAssumption DEF Vas
<1>6. \A p \in Pfns :
        /\ IsFiniteSet(S(p)) /\ Cardinality(S(p)) \in Nat
        /\ ForkRef(pr)[p] = ref[p] + Cardinality(S(p))
  BY <1>5, VasOfFinite DEF ForkRef
<1> SUFFICES ASSUME NEW p \in Pfns
             PROVE  /\ Maps(p)' # {} => p \in used'
                    /\ p \in used' => Cardinality(Maps(p)') <= ref'[p]
  BY DEF RefCovers
<1>7. Maps(p)' \subseteq Maps(p) \cup N(p) \cup
                         (IF copied /\ p = q THEN {<<n, ZVa>>} ELSE {})
  <2> SUFFICES ASSUME NEW k \in Procs, NEW va \in Vas, <<k, va>> \in Maps(p)'
               PROVE  \/ <<k, va>> \in Maps(p)
                      \/ k = n /\ va \in S(p)
                      \/ copied /\ p = q /\ k = n /\ va = ZVa
    BY DEF Maps
  <2>1. Counted(pte'[k][va]) /\ pte'[k][va].pfn = p
    BY DEF Maps
  <2>2. CASE k = n
    <3>1. CASE va = ZVa
      <4>1. pte'[k][va] = z
        BY <1>4, <1>5, <2>2, <3>1 DEF ChildTable
      <4>2. QED
        BY <2>1, <2>2, <3>1, <4>1 DEF None, Counted
    <3>2. CASE va # ZVa
      <4>1. pte'[k][va] = IF Shared(pte[pr][va]) THEN l1e_mkcow(pte[pr][va]) ELSE None
        BY <1>4, <2>2, <3>2 DEF ChildTable
      <4>2. Shared(pte[pr][va]) /\ pte[pr][va].pfn = p
        BY <2>1, <4>1 DEF None, Counted, l1e_mkcow
      <4>3. va \in CowVas
        BY <3>2 DEF Vas
      <4>4. QED
        BY <2>2, <4>2, <4>3 DEF VasOf, Shared
    <3>3. QED
      BY <3>1, <3>2
  <2>3. CASE k = pr
    <3>1. pte'[k][va] = IF va \in CowVas /\ Shared(pte[pr][va])
                        THEN l1e_mkcow(pte[pr][va]) ELSE pte[pr][va]
      BY <1>4, <2>3 DEF ParentTable
    <3>2. Counted(pte[pr][va]) /\ pte[pr][va].pfn = p
      BY <2>1, <3>1 DEF Shared, Counted, l1e_mkcow
    <3>3. QED
      BY <2>3, <3>2 DEF Maps
  <2>4. CASE k # n /\ k # pr
    BY <1>4, <2>1, <2>4 DEF Maps
  <2>5. QED
    BY <2>2, <2>3, <2>4
<1>8. \A va \in S(p) : <<pr, va>> \in Maps(p)
  BY <1>5 DEF VasOf, Maps, Counted
<1>9. /\ Maps(p) # {} => p \in used
      /\ p \in used => Cardinality(Maps(p)) <= ref[p]
  BY DEF RefCovers
<1>10. IsFiniteSet(Maps(p)) /\ Cardinality(Maps(p)) \in Nat
  BY MapsFinite
<1>11. IsFiniteSet(N(p)) /\ Cardinality(N(p)) = Cardinality(S(p))
  BY <1>6, PairImage
<1>12. CASE copied /\ p = q
  <2>1. S(p) = {} /\ Maps(p) = {}
    BY <1>8, <1>9, <1>12
  <2>2. Maps(p)' \subseteq {<<n, ZVa>>}
    BY <1>7, <2>1
  <2>3. IsFiniteSet({<<n, ZVa>>}) /\ Cardinality({<<n, ZVa>>}) = 1
    BY FS_Singleton
  <2>4. Cardinality(Maps(p)') <= Cardinality({<<n, ZVa>>})
    BY <2>2, <2>3, SubsetCard
  <2>5. ForkRef(pr) \in [Pfns -> Int]
    BY <1>3, <1>6 DEF ForkRef
  <2>6. p \in used' /\ ref'[p] = 1
    BY <1>1, <1>12, <2>5
  <2>7. QED
    BY <2>3, <2>4, <2>6
<1>13. CASE ~(copied /\ p = q)
  <2>1. /\ p \in used' <=> p \in used
        /\ ref'[p] = ref[p] + Cardinality(S(p))
    <3>1. ForkRef(pr) \in [Pfns -> Int]
      BY <1>3, <1>6 DEF ForkRef
    <3>2. QED
      BY <1>1, <1>6, <1>13, <3>1
  <2>2. Maps(p)' \subseteq Maps(p) \cup N(p)
    BY <1>7, <1>13
  <2>3. Maps(p)' # {} => p \in used
    BY <1>8, <1>9, <2>2
  <2> HIDE DEF S, N
  <2>4. /\ IsFiniteSet(Maps(p) \cup N(p))
        /\ Cardinality(Maps(p) \cup N(p)) =
             Cardinality(Maps(p)) + Cardinality(N(p)) - Cardinality(Maps(p) \cap N(p))
    BY <1>10, <1>11, FS_Union
  <2>5. Cardinality(Maps(p) \cap N(p)) \in Nat
    <3>1. Maps(p) \cap N(p) \subseteq Maps(p)
      OBVIOUS
    <3>2. QED
      BY <1>10, <3>1, SubsetCard
  <2>6. /\ Cardinality(Maps(p)') \in Nat
        /\ Cardinality(Maps(p)') <= Cardinality(Maps(p) \cup N(p))
        /\ Cardinality(Maps(p) \cup N(p)) \in Nat
    BY <2>2, <2>4, SubsetCard
  <2>7. Cardinality(S(p)) \in Nat /\ ref[p] \in Int
    BY <1>3, <1>6
  <2>8. QED
    BY <1>9, <1>10, <1>11, <2>1, <2>3, <2>4, <2>5, <2>6, <2>7
<1>14. QED
  BY <1>12, <1>13

(* Exit: the references that vmclear gives up are those of mappings that   *)
(* are gone.                                                               *)
LEMMA ExitCovers ==
  ASSUME TypeOK, RefCovers, NEW pr \in Procs, Exit(pr)
  PROVE  RefCovers'
<1> DEFINE closed == [va \in Vas |-> ClosedEntry(pr, va)]
           D(p) == VasOf(closed, Vas, {"normal"}, p)
           G(p) == {<<pr, va>> : va \in D(p)}
<1>1. /\ pte' = [pte EXCEPT ![pr] = [va \in Vas |-> IF l1e_external(closed[va])
                                                   THEN closed[va] ELSE None]]
      /\ ref' = [p \in Pfns |-> ref[p] - Cardinality(D(p))]
      /\ used' = {p \in used : Cardinality(D(p)) = 0 \/ ref[p] # Cardinality(D(p))}
  BY DEF Exit
<1>2. pte \in [Procs -> [Vas -> Entry]] /\ ref \in [Pfns -> Int] /\ used \in SUBSET Pfns
  BY DEF TypeOK
<1>3. /\ \A va \in Vas : pte'[pr][va] = IF l1e_external(ClosedEntry(pr, va))
                                        THEN ClosedEntry(pr, va) ELSE None
      /\ \A k \in Procs : k # pr => pte'[k] = pte[k]
  BY <1>1, <1>2
<1>4. ASSUME NEW va \in Vas
      PROVE  LET c == ClosedEntry(pr, va) IN
             Counted(c) => Counted(pte[pr][va]) /\ pte[pr][va].pfn = c.pfn
  BY DEF ClosedEntry, None, Counted, l1e_mknormal
<1> SUFFICES ASSUME NEW p \in Pfns
             PROVE  /\ Maps(p)' # {} => p \in used'
                    /\ p \in used' => Cardinality(Maps(p)') <= ref'[p]
  BY DEF RefCovers
<1>0. \A va : va \in D(p) <=> /\ va \in Vas
                              /\ ClosedEntry(pr, va).t = "normal"
                              /\ ClosedEntry(pr, va).pfn = p
  BY DEF VasOf
<1>5. G(p) \subseteq Maps(p)
  <2> SUFFICES ASSUME NEW va \in D(p) PROVE <<pr, va>> \in Maps(p)
    OBVIOUS
  <2>1. va \in Vas /\ Counted(pte[pr][va]) /\ pte[pr][va].pfn = p
    BY <1>0, <1>4 DEF Counted
  <2>2. QED
    BY <2>1 DEF Maps
<1>6. Maps(p)' \subseteq Maps(p) \ G(p)
  <2> HIDE DEF D
  <2> SUFFICES ASSUME NEW k \in Procs, NEW va \in Vas, <<k, va>> \in Maps(p)'
               PROVE  /\ <<k, va>> \in Maps(p)
                      /\ k = pr => va \notin D(p)
    BY DEF Maps
  <2>1. Counted(pte'[k][va]) /\ pte'[k][va].pfn = p
    BY DEF Maps
  <2>2. CASE k = pr
    <3>1. l1e_external(ClosedEntry(pr, va)) /\ pte'[k][va] = ClosedEntry(pr, va)
      BY <1>3, <2>1, <2>2 DEF None, Counted
    <3>2. Counted(pte[k][va]) /\ pte[k][va].pfn = p
      BY <1>4, <2>1, <2>2, <3>1
    <3>3. va \notin D(p)
      BY <1>0, <3>1 DEF l1e_external
    <3>4. QED
      BY <3>2, <3>3 DEF Maps
  <2>3. CASE k # pr
    BY <1>3, <2>1, <2>3 DEF Maps
  <2>4. QED
    BY <2>2, <2>3
<1>7. IsFiniteSet(D(p)) /\ Cardinality(D(p)) \in Nat
  BY VasOfFinite
<1>8. IsFiniteSet(G(p)) /\ Cardinality(G(p)) = Cardinality(D(p))
  BY <1>7, PairImage
<1>9. IsFiniteSet(Maps(p)) /\ Cardinality(Maps(p)) \in Nat
  BY MapsFinite
<1>10. /\ Maps(p) # {} => p \in used
       /\ p \in used => Cardinality(Maps(p)) <= ref[p]
       /\ ref[p] \in Int
  BY <1>2 DEF RefCovers
<1>11. /\ ref'[p] = ref[p] - Cardinality(D(p))
       /\ p \in used' <=> p \in used /\ (Cardinality(D(p)) = 0 \/ ref[p] # Cardinality(D(p)))
  BY <1>1
<1> HIDE DEF D, G
<1>12. /\ IsFiniteSet(Maps(p) \ G(p))
       /\ Cardinality(Maps(p) \ G(p)) = Cardinality(Maps(p)) - Cardinality(G(p))
  <2>1. Maps(p) \cap G(p) = G(p)
    BY <1>5
  <2>2. QED
    BY <1>9, <2>1, FS_Difference
<1>13. /\ Cardinality(Maps(p)') \in Nat
       /\ Cardinality(Maps(p)') <= Cardinality(Maps(p) \ G(p))
       /\ Maps(p)' # {} => Cardinality(Maps(p) \ G(p)) >= 1
  BY <1>6, <1>12, SubsetCard
<1>14. Maps(p)' # {} => p \in used
  BY <1>6, <1>10
<1>15. QED
  BY <1>7, <1>8, <1>9, <1>10, <1>11, <1>12, <1>13, <1>14

-----------------------------------------------------------------------------
(* As long as processes do not move a page onto itself, a frame that any   *)
(* address space maps is allocated and its reference count covers all its  *)
(* mappings: no system call gives a mapped frame back to the allocator.    *)
THEOREM RefCoversCorrect == ASSUME ~SelfMove PROVE Spec => []RefCovers
<1>1. Init => RefCovers
  <2> SUFFICES ASSUME Init PROVE RefCovers
    OBVIOUS
  <2>1. \A p \in Pfns : Maps(p) = {}
    BY DEF Init, Maps, None, Counted
  <2>2. QED
    BY <2>1 DEF Init, RefCovers
<1>2. TypeOK /\ RefCovers /\ [Next]_vars => RefCovers'
  <2> SUFFICES ASSUME TypeOK, RefCovers, [Next]_vars
               PROVE  RefCovers'
    OBVIOUS
  <2>0. \A pr \in Procs, va \in Vas : pte[pr][va] \in Entry
    BY DEF TypeOK
  <2>1. ASSUME NEW pr \in Procs, NEW va \in Vas, NEW w \in BOOLEAN, VmMap(pr, va, w)
        PROVE  RefCovers'
    BY <2>1, VmMapCovers
  <2>2. ASSUME NEW pr \in Procs, NEW va \in Vas, NEW w \in BOOLEAN, VmChprot(pr, va, w)
        PROVE  RefCovers'
    <3> DEFINE f == [t |-> "normal", pfn |-> pte[pr][va].pfn, w |-> w]
    <3>1. Counted(pte[pr][va]) /\ f \in Entry
      BY <2>0, <2>2, EntryType DEF VmChprot, MayChprot, Counted
    <3>2. pte' = [pte EXCEPT ![pr][va] = f] /\ ref' = ref /\ used' = used
      BY <2>2 DEF VmChprot
    <3>3. \A p \in Pfns : Maps(p)' \subseteq Maps(p)
      BY <3>1, <3>2, SameFrame
    <3>4. QED
      BY <3>2, <3>3, Shrink
  <2>3. ASSUME NEW pr \in Procs, NEW va \in Vas, VmUnmap(pr, va)
        PROVE  RefCovers'
    <3>1. None \in Entry /\ ~Counted(None)
      BY EntryType DEF None, Counted
    <3>2. QED
      BY <2>3, <3>1, ReplaceCovers DEF VmUnmap
  <2>4. ASSUME NEW why, Halt(why)
        PROVE  RefCovers'
    BY <2>4 DEF Halt, RefCovers, Maps
  <2>5. ASSUME NEW pr \in Procs, NEW va \in Vas, PmapFault(pr, va)
        PROVE  RefCovers'
    <3> DEFINE f == l1e_mknormal(pte[pr][va])
    <3>1. Counted(pte[pr][va]) /\ f \in Entry /\ f.pfn = pte[pr][va].pfn
      BY <2>0, <2>5, EntryType DEF PmapFault, Counted, l1e_mknormal
    <3>2. pte' = [pte EXCEPT ![pr][va] = f] /\ ref' = ref /\ used' = used
      BY <2>5 DEF PmapFault
    <3> HIDE DEF f
    <3>3. \A p \in Pfns : Maps(p)' \subseteq Maps(p)
      BY <3>1, <3>2, SameFrame
    <3>4. QED
      BY <3>2, <3>3, Shrink
  <2>6. ASSUME NEW pr \in Procs, NEW va \in Vas, Export(pr, va)
        PROVE  RefCovers'
    <3> DEFINE f == l1e_mkwired(pte[pr][va])
    <3>1. Counted(pte[pr][va]) /\ f \in Entry /\ f.pfn = pte[pr][va].pfn
      BY <2>0, <2>6, EntryType DEF Export, l1e_mkwired
    <3>2. pte' = [pte EXCEPT ![pr][va] = f] /\ ref' = ref /\ used' = used
      BY <2>6 DEF Export
    <3> HIDE DEF f
    <3>3. \A p \in Pfns : Maps(p)' \subseteq Maps(p)
      BY <3>1, <3>2, SameFrame
    <3>4. QED
      BY <3>2, <3>3, Shrink
  <2>7. ASSUME NEW pr \in Procs, NEW va \in Vas, Unexport(pr, va)
        PROVE  RefCovers'
    <3> DEFINE f == l1e_mknormal(pte[pr][va])
    <3>1. CASE pte[pr][va].t # "wired"
      BY <2>4, <2>7, <3>1 DEF Unexport
    <3>2. CASE pte[pr][va].t = "wired"
      <4>1. Counted(pte[pr][va]) /\ f \in Entry /\ f.pfn = pte[pr][va].pfn
        BY <2>0, <3>2, EntryType DEF Counted, l1e_mknormal
      <4>2. /\ pte' = pte \/ pte' = [pte EXCEPT ![pr][va] = f]
            /\ ref' = ref /\ used' = used
        BY <2>7, <3>2 DEF Unexport
      <4> HIDE DEF f
      <4>3. CASE pte' = pte
        BY <4>2, <4>3 DEF RefCovers, Maps
      <4>4. CASE pte' = [pte EXCEPT ![pr][va] = f]
        <5>1. \A p \in Pfns : Maps(p)' \subseteq Maps(p)
          BY <4>1, <4>4, SameFrame
        <5>2. QED
          BY <4>2, <5>1, Shrink
      <4>5. QED
        BY <4>2, <4>3, <4>4
    <3>3. QED
      BY <3>1, <3>2
  <2>8. ASSUME NEW pr \in Procs, NEW va \in Vas, IoUnmap(pr, va)
        PROVE  RefCovers'
    <3>1. ref' = ref /\ used' = used /\ (pte' = pte \/ pte' = [pte EXCEPT ![pr][va] = None])
      BY <2>8 DEF IoUnmap
    <3>2. None \in Entry /\ ~Counted(None)
      BY EntryType DEF None, Counted
    <3>3. CASE pte' = pte
      BY <3>1, <3>3 DEF RefCovers, Maps
    <3>4. CASE pte' = [pte EXCEPT ![pr][va] = None]
      <4>1. \A p \in Pfns : Maps(p)' \subseteq Maps(p)
        BY <3>2, <3>4, OneEntry
      <4>2. QED
        BY <3>1, <4>1, Shrink
    <3>5. QED
      BY <3>1, <3>3, <3>4
  <2>9. ASSUME NEW pr \in Procs, NEW va \in Vas, NEW m \in Mmio, IoMap(pr, va, m)
        PROVE  RefCovers'
    <3> DEFINE f == [t |-> "iomap", pfn |-> m, w |-> TRUE]
    <3>1. f \in Entry /\ ~Counted(f)
      BY EntryType DEF Counted
    <3>2. /\ pte' = [pte EXCEPT ![pr][va] = f]
          /\ ref' = DropRef(ref, pte[pr][va])
          /\ used' = FreeOld(used, pte[pr][va])
      BY <2>9 DEF IoMap
    <3> HIDE DEF f
    <3>3. QED
      BY <3>1, <3>2, ReplaceCovers
  <2>10. ASSUME NEW pr \in Procs, NEW dst \in Vas, NEW src \in Vas, VmMove(pr, dst, src)
         PROVE  RefCovers'
    BY <2>10, VmMoveCovers
  <2>11. ASSUME NEW pr \in Procs, NEW n \in Procs, Fork(pr, n)
         PROVE  RefCovers'
    BY <2>11, ForkCovers
  <2>12. ASSUME NEW pr \in Procs, Exit(pr)
         PROVE  RefCovers'
    BY <2>12, ExitCovers
  <2>13. ASSUME NEW pr \in Procs, Reap(pr)
         PROVE  RefCovers'
    <3>1. /\ ref' = ref /\ used' = used
          /\ \A va \in Vas : pte'[pr][va] = None
          /\ \A k \in Procs : k # pr => pte'[k] = pte[k]
      BY <2>13 DEF Reap, TypeOK
    <3>2. \A p \in Pfns : Maps(p)' \subseteq Maps(p)
      BY <3>1 DEF Maps, None, Counted
    <3>3. QED
      BY <3>1, <3>2, Shrink
  <2>14. CASE UNCHANGED vars
    BY <2>14 DEF vars, RefCovers, Maps
  <2>15. QED
    BY <2>1, <2>2, <2>3, <2>4, <2>5, <2>6, <2>7, <2>8, <2>9, <2>10, <2>11,
       <2>12, <2>13, <2>14
    DEF Next, Halted, OutOfMemory, VmChprotCow, ExportAbsent
<1>3. QED
  BY <1>1, <1>2, TypeCorrect, PTL DEF Spec

-----------------------------------------------------------------------------
(* On top of the reference counts: DMA pinning, copy-on-write sharing and  *)
(* exact counts of unshared frames.  The inductive invariants:             *)

(* Two entries that use one frame are both COW entries, unless a COW entry *)
(* of the frame was exported, and a COW entry is read-only.                *)
CowPairs ==
  \A k1, k2 \in Procs, v1, v2 \in Vas :
    /\ Counted(pte[k1][v1]) /\ Counted(pte[k2][v2])
    /\ pte[k1][v1].pfn = pte[k2][v2].pfn
    /\ pte[k1][v1].pfn \notin cowexp
    /\ k1 # k2 \/ v1 # v2
    => pte[k1][v1].t = "cow"
CowReadOnly == \A k \in Procs, v \in Vas : pte[k][v].t = "cow" => ~pte[k][v].w
ShareInv == CowPairs /\ CowReadOnly

(* The export records of frame p in every process: the n-th record of page *)
(* va of process k is <<k, <<va, n>>>>.                                    *)
RecordsOf(k, p) == {r \in Vas \X (1 .. MaxDma) : r[2] <= dma[k][<<r[1], p>>]}
AllRecords(p) == {x \in Procs \X (Vas \X (1 .. MaxDma)) : x[2] \in RecordsOf(x[1], p)}

DmaRange == \A k \in Procs, v \in Vas, p \in Pfns : dma[k][<<v, p>>] \in 0 .. MaxDma
DmaWired == \A k \in Procs, v \in Vas, p \in Pfns :
              dma[k][<<v, p>>] > 0 => pte[k][v].t = "wired" /\ pte[k][v].pfn = p
DmaLive == \A k \in Procs, v \in Vas, p \in Pfns :
              st[k] # "live" => dma[k][<<v, p>>] = 0
WirCovers == \A p \in Pfns : Cardinality(AllRecords(p)) <= wir[p]
DmaInv == halt # "unwire" /\ DmaRange /\ DmaWired /\ DmaLive /\ WirCovers

(* A frame that fork never shared has one reference, and unless its wiring *)
(* count is not zero it is mapped by an entry that will release it.  Only  *)
(* external entries survive the exit of their process.                     *)
DeadUnmapped == \A k \in Procs, v \in Vas :
                  st[k] # "live" => pte[k][v].t \notin {"normal", "cow"}
CowMarked == \A k \in Procs, v \in Vas : pte[k][v].t = "cow" => pte[k][v].pfn \in cowed
OneRef == \A p \in used \ cowed : ref[p] = 1
KeptMapped ==
  \A p \in used \ cowed :
    wir[p] = 0 => \E k \in Procs, v \in Vas :
                    pte[k][v].t \in {"normal", "cow"} /\ pte[k][v].pfn = p
ExactInv == DeadUnmapped /\ CowMarked /\ OneRef /\ KeptMapped

-----------------------------------------------------------------------------
(* What the reference counts say about single entries.                     *)

LEMMA Mapped ==
  ASSUME TypeOK, RefCovers, NEW k \in Procs, NEW v \in Vas, Counted(pte[k][v])
  PROVE  pte[k][v].pfn \in Pfns /\ pte[k][v].pfn \in used
<1>1. pte[k][v].pfn \in Pfns
  BY EntryType DEF TypeOK
<1>2. <<k, v>> \in Maps(pte[k][v].pfn)
  BY DEF Maps
<1>3. QED
  BY <1>1, <1>2 DEF RefCovers

(* A frame with one reference has one mapping.                             *)
LEMMA Sole ==
  ASSUME TypeOK, RefCovers,
         NEW k1 \in Procs, NEW k2 \in Procs, NEW v1 \in Vas, NEW v2 \in Vas,
         Counted(pte[k1][v1]), Counted(pte[k2][v2]),
         pte[k1][v1].pfn = pte[k2][v2].pfn, ref[pte[k1][v1].pfn] = 1
  PROVE  k1 = k2 /\ v1 = v2
<1> DEFINE p == pte[k1][v1].pfn
           S == {<<k1, v1>>, <<k2, v2>>}
<1>1. p \in Pfns /\ p \in used
  BY Mapped
<1>2. S \subseteq Maps(p)
  BY DEF Maps
<1>3. IsFiniteSet(Maps(p)) /\ Cardinality(Maps(p)) <= 1
  BY <1>1, MapsFinite DEF RefCovers
<1>4. Cardinality(S) \in Nat /\ Cardinality(S) <= Cardinality(Maps(p))
      /\ Cardinality(Maps(p)) \in Nat
  BY <1>2, <1>3, SubsetCard
<1>5. ASSUME <<k1, v1>> # <<k2, v2>> PROVE FALSE
  <2> DEFINE U == {<<k2, v2>>}
             x == <<k1, v1>>
  <2>1. IsFiniteSet(U) /\ Cardinality(U) = 1
    BY FS_Singleton
  <2>2. S = U \cup {x} /\ x \notin U
    BY <1>5
  <2> HIDE DEF S, U, x
  <2>3. Cardinality(S) = 2
    <3>1. Cardinality(U \cup {x}) = Cardinality(U) + 1
      BY <2>1, <2>2, FS_AddElement
    <3>2. QED
      BY <2>1, <2>2, <3>1
  <2>4. QED
    BY <1>3, <1>4, <2>3
<1>6. QED
  BY <1>5

-----------------------------------------------------------------------------
(* What each kind of call does to the tables, entry by entry.              *)

LEMMA MoveTable ==
  ASSUME TypeOK, ~SelfMove, NEW pr \in Procs, NEW dst \in Vas, NEW src \in Vas,
         VmMove(pr, dst, src)
  PROVE  /\ dst # src
         /\ pte'[pr][dst] = pte[pr][src]
         /\ pte'[pr][src] = None
         /\ \A k \in Procs, v \in Vas :
              k # pr \/ (v # dst /\ v # src) => pte'[k][v] = pte[k][v]
BY DEF TypeOK, VmMove

(* Fork: the shared entries become COW in parent and child, the child has  *)
(* no others but its own copy of the page of the no-COW area.              *)
LEMMA ForkTable ==
  ASSUME TypeOK, NEW pr \in Procs, NEW n \in Procs, Fork(pr, n)
  PROVE  /\ pr # n
         /\ \E q \in Pfns \ used :
              /\ pte'[n][ZVa] \in {None, [t |-> "normal", pfn |-> q, w |-> TRUE]}
              /\ pte'[n][ZVa] # None => ref'[q] = 1
              /\ used' = IF pte'[n][ZVa] = None THEN used ELSE used \cup {q}
              /\ \A p \in Pfns : wir'[p] = wir[p] \/ (p = q /\ wir'[p] >= 0)
              /\ cowexp' = cowexp \ {q}
              /\ cowed' = (cowed \ {q}) \cup
                   {p \in Pfns : VasOf(pte[pr], CowVas, {"normal", "cow"}, p) # {}}
              /\ \A p \in Pfns : p # q \/ pte'[n][ZVa] = None =>
                   /\ ref'[p] = ForkRef(pr)[p]
                   /\ wir'[p] = wir[p]
         /\ \A v \in Vas : pte'[pr][v] = IF v \in CowVas /\ Shared(pte[pr][v])
                                         THEN l1e_mkcow(pte[pr][v]) ELSE pte[pr][v]
         /\ \A v \in CowVas : pte'[n][v] = IF Shared(pte[pr][v])
                                           THEN l1e_mkcow(pte[pr][v]) ELSE None
         /\ \A k \in Procs \ {pr, n} : pte'[k] = pte[k]
<1> DEFINE copied == pte[pr][ZVa].t # "none"
           nrm(q) == [t |-> "normal", pfn |-> q, w |-> TRUE]
           zof(q) == IF copied THEN nrm(q) ELSE None
<1>1. PICK q \in Pfns \ used, g \in {0, StaleWir} :
        /\ pte' = [pte EXCEPT ![pr] = ParentTable(pr), ![n] = ChildTable(pr, zof(q))]
        /\ ref' = IF copied THEN [ForkRef(pr) EXCEPT ![q] = 1] ELSE ForkRef(pr)
        /\ used' = IF copied THEN used \cup {q} ELSE used
        /\ wir' = IF copied THEN [wir EXCEPT ![q] = g] ELSE wir
        /\ cowed' = (cowed \ {q}) \cup
                    {p \in Pfns : VasOf(pte[pr], CowVas, {"normal", "cow"}, p) # {}}
        /\ cowexp' = cowexp \ {q}
  BY DEF Fork
<1>2. pr # n
  BY DEF Fork, Running
<1>3. pte \in [Procs -> [Vas -> Entry]] /\ wir \in [Pfns -> Int]
  BY DEF TypeOK
<1>4. /\ pte'[pr] = ParentTable(pr)
      /\ pte'[n] = ChildTable(pr, zof(q))
      /\ \A k \in Procs : k # pr /\ k # n => pte'[k] = pte[k]
  BY <1>1, <1>2, <1>3
<1>5. CowVas \in SUBSET Vas /\ ZVa \in Vas /\ ZVa \notin CowVas
  BY VaAssumption DEF Vas
<1>6. pte'[n][ZVa] = zof(q)
  BY <1>4, <1>5 DEF ChildTable
<1>7. nrm(q) # None
  BY DEF None
<1>8. (pte'[n][ZVa] = None <=> ~copied) /\ pte'[n][ZVa] \in {None, nrm(q)}
  BY <1>6, <1>7
<1>9. /\ \A v \in Vas : pte'[pr][v] = IF v \in CowVas /\ Shared(pte[pr][v])
                                      THEN l1e_mkcow(pte[pr][v]) ELSE pte[pr][v]
      /\ \A v \in CowVas : pte'[n][v] = IF Shared(pte[pr][v])
                                        THEN l1e_mkcow(pte[pr][v]) ELSE None
  BY <1>4, <1>5 DEF ParentTable, ChildTable
<1> HIDE DEF copied, nrm, zof
<1>10. /\ copied => ref'[q] = 1
       /\ \A p \in Pfns : p # q \/ ~copied => ref'[p] = ForkRef(pr)[p]
  <2>1. ForkRef(pr) = [p \in Pfns |-> ForkRef(pr)[p]]
    BY DEF ForkRef
  <2>2. QED
    BY <1>1, <2>1
<1>11. /\ \A p \in Pfns : wir'[p] = wir[p] \/ (p = q /\ wir'[p] >= 0)
       /\ \A p \in Pfns : p # q \/ ~copied => wir'[p] = wir[p]
  BY <1>1, <1>3, CountAssumption
<1>12. QED
  <2>1. /\ pte'[n][ZVa] # None => ref'[q] = 1
        /\ used' = IF pte'[n][ZVa] = None THEN used ELSE used \cup {q}
        /\ \A p \in Pfns : p # q \/ pte'[n][ZVa] = None =>
             ref'[p] = ForkRef(pr)[p] /\ wir'[p] = wir[p]
    BY <1>1, <1>8, <1>10, <1>11
  <2>2. \A k \in Procs \ {pr, n} : pte'[k] = pte[k]
    BY <1>4
  <2>3. pte'[n][ZVa] \in {None, [t |-> "normal", pfn |-> q, w |-> TRUE]}
    BY <1>8 DEF nrm
  <2>4. QED
    BY <1>1, <1>2, <1>9, <1>11, <2>1, <2>2, <2>3

(* Exit: what stays in the table is external and as it was.                *)
LEMMA ExitTable ==
  ASSUME TypeOK, NEW pr \in Procs, Exit(pr)
  PROVE  /\ \A v \in Vas : \/ pte'[pr][v] = None
                           \/ pte'[pr][v] = pte[pr][v] /\ l1e_external(pte[pr][v])
         /\ \A k \in Procs \ {pr} : pte'[k] = pte[k]
<1> DEFINE closed == [va \in Vas |-> ClosedEntry(pr, va)]
<1>1. pte' = [pte EXCEPT ![pr] = [va \in Vas |-> IF l1e_external(closed[va])
                                                 THEN closed[va] ELSE None]]
  BY DEF Exit
<1>2. pte \in [Procs -> [Vas -> Entry]]
  BY DEF TypeOK
<1>3. /\ \A v \in Vas : pte'[pr][v] = IF l1e_external(ClosedEntry(pr, v))
                                      THEN ClosedEntry(pr, v) ELSE None
      /\ \A k \in Procs \ {pr} : pte'[k] = pte[k]
  BY <1>1, <1>2
<1>4. ASSUME NEW v \in Vas, l1e_external(ClosedEntry(pr, v))
      PROVE  ClosedEntry(pr, v) = pte[pr][v]
  BY <1>4 DEF ClosedEntry, l1e_external, l1e_mknormal, None
<1>5. QED
  BY <1>3, <1>4

-----------------------------------------------------------------------------
(* Copy on write.                                                          *)

(* Writing an entry that is not a COW entry, when no other entry uses its  *)
(* frame or a COW entry of that frame was exported.                        *)
LEMMA WriteShares ==
  ASSUME TypeOK, RefCovers, ShareInv,
         NEW pr \in Procs, NEW va \in Vas, NEW f \in Entry,
         pte' = [pte EXCEPT ![pr][va] = f], f.t # "cow",
         \A p \in Pfns : p \in cowexp /\ p \notin cowexp' => p \notin used,
         Counted(f) /\ f.pfn \notin cowexp' =>
           \A k \in Procs, v \in Vas :
             Counted(pte[k][v]) /\ pte[k][v].pfn = f.pfn => k = pr /\ v = va
  PROVE  ShareInv'
<1>1. /\ pte'[pr][va] = f
      /\ \A k \in Procs, v \in Vas : k # pr \/ v # va => pte'[k][v] = pte[k][v]
  BY DEF TypeOK
<1>2. CowReadOnly'
  BY <1>1 DEF ShareInv, CowReadOnly
<1>3. CowPairs'
  <2> SUFFICES ASSUME NEW k1 \in Procs, NEW k2 \in Procs, NEW v1 \in Vas, NEW v2 \in Vas,
                      Counted(pte'[k1][v1]), Counted(pte'[k2][v2]),
                      pte'[k1][v1].pfn = pte'[k2][v2].pfn,
                      pte'[k1][v1].pfn \notin cowexp', k1 # k2 \/ v1 # v2
               PROVE  pte'[k1][v1].t = "cow"
    BY DEF CowPairs, Counted
  <2>1. CASE (k1 = pr /\ v1 = va) \/ (k2 = pr /\ v2 = va)
    BY <1>1, <2>1
  <2>2. CASE (k1 # pr \/ v1 # va) /\ (k2 # pr \/ v2 # va)
    <3>1. pte'[k1][v1] = pte[k1][v1] /\ pte'[k2][v2] = pte[k2][v2]
      BY <1>1, <2>2
    <3>2. pte[k1][v1].pfn \notin cowexp
      BY <3>1, Mapped
    <3>3. QED
      BY <3>1, <3>2 DEF ShareInv, CowPairs
  <2>3. QED
    BY <2>1, <2>2
<1>4. QED
  BY <1>2, <1>3 DEF ShareInv

(* An entry that is not a COW entry is the only one of its frame.          *)
LEMMA NotShared ==
  ASSUME ShareInv, NEW pr \in Procs, NEW va \in Vas, Counted(pte[pr][va]),
         pte[pr][va].t # "cow", pte[pr][va].pfn \notin cowexp
  PROVE  \A k \in Procs, v \in Vas :
           Counted(pte[k][v]) /\ pte[k][v].pfn = pte[pr][va].pfn => k = pr /\ v = va
BY DEF ShareInv, CowPairs

(* Entries that are cleared or stay as they are.                           *)
LEMMA ClearShares ==
  ASSUME ShareInv, cowexp' = cowexp,
         \A k \in Procs, v \in Vas : pte'[k][v] = pte[k][v] \/ ~Counted(pte'[k][v])
  PROVE  ShareInv'
<1>1. CowPairs'
  <2> SUFFICES ASSUME NEW k1 \in Procs, NEW k2 \in Procs, NEW v1 \in Vas, NEW v2 \in Vas,
                      Counted(pte'[k1][v1]), Counted(pte'[k2][v2]),
                      pte'[k1][v1].pfn = pte'[k2][v2].pfn,
                      pte'[k1][v1].pfn \notin cowexp', k1 # k2 \/ v1 # v2
               PROVE  pte'[k1][v1].t = "cow"
    BY DEF CowPairs, Counted
  <2>1. pte'[k1][v1] = pte[k1][v1] /\ pte'[k2][v2] = pte[k2][v2]
    OBVIOUS
  <2>2. QED
    BY <2>1 DEF ShareInv, CowPairs
<1>2. CowReadOnly'
  BY DEF ShareInv, CowReadOnly, Counted
<1>3. QED
  BY <1>1, <1>2 DEF ShareInv

LEMMA MoveShares ==
  ASSUME TypeOK, ~SelfMove, ShareInv, NEW pr \in Procs, NEW dst \in Vas, NEW src \in Vas,
         VmMove(pr, dst, src)
  PROVE  ShareInv'
<1>1. /\ dst # src /\ cowexp' = cowexp
      /\ pte'[pr][dst] = pte[pr][src]
      /\ pte'[pr][src] = None
      /\ \A k \in Procs, v \in Vas :
           k # pr \/ (v # dst /\ v # src) => pte'[k][v] = pte[k][v]
  BY MoveTable DEF VmMove
<1>2. CowReadOnly'
  BY <1>1 DEF ShareInv, CowReadOnly, None
<1>3. CowPairs'
  <2> SUFFICES ASSUME NEW k1 \in Procs, NEW k2 \in Procs, NEW v1 \in Vas, NEW v2 \in Vas,
                      Counted(pte'[k1][v1]), Counted(pte'[k2][v2]),
                      pte'[k1][v1].pfn = pte'[k2][v2].pfn,
                      pte'[k1][v1].pfn \notin cowexp', k1 # k2 \/ v1 # v2
               PROVE  pte'[k1][v1].t = "cow"
    BY DEF CowPairs, Counted
  <2> DEFINE old(k, v) == IF k = pr /\ v = dst THEN src ELSE v
  <2>0. ~Counted(None)
    BY DEF None, Counted
  <2>1. ~(k1 = pr /\ v1 = src) /\ ~(k2 = pr /\ v2 = src)
    BY <1>1, <2>0
  <2>2. /\ old(k1, v1) \in Vas /\ old(k2, v2) \in Vas
        /\ pte'[k1][v1] = pte[k1][old(k1, v1)]
        /\ pte'[k2][v2] = pte[k2][old(k2, v2)]
        /\ k1 # k2 \/ old(k1, v1) # old(k2, v2)
    BY <1>1, <2>1
  <2> HIDE DEF old
  <2>3. QED
    BY <1>1, <2>2 DEF ShareInv, CowPairs
<1>4. QED
  BY <1>2, <1>3 DEF ShareInv

(* Fork: an entry of the new tables that is not COW was there before and   *)
(* was not COW, so it was alone; the entry that another one was copied     *)
(* from has become COW too.                                                *)
LEMMA ForkShares ==
  ASSUME TypeOK, RefCovers, ShareInv, NEW pr \in Procs, NEW n \in Procs, Fork(pr, n)
  PROVE  ShareInv'
<1>1. PICK q \in Pfns \ used :
         /\ pte'[n][ZVa] \in {None, [t |-> "normal", pfn |-> q, w |-> TRUE]}
         /\ cowexp' = cowexp \ {q}
  BY ForkTable
<1>2. /\ pr # n
      /\ \A v \in Vas : pte'[pr][v] = IF v \in CowVas /\ Shared(pte[pr][v])
                                      THEN l1e_mkcow(pte[pr][v]) ELSE pte[pr][v]
      /\ \A v \in CowVas : pte'[n][v] = IF Shared(pte[pr][v])
                                        THEN l1e_mkcow(pte[pr][v]) ELSE None
      /\ \A k \in Procs \ {pr, n} : pte'[k] = pte[k]
  BY ForkTable
<1>3. /\ ~Counted(None) /\ None.t # "cow"
      /\ \A e : /\ l1e_mkcow(e).t = "cow" /\ ~l1e_mkcow(e).w /\ l1e_mkcow(e).pfn = e.pfn
                /\ Shared(e) => Counted(e)
  BY DEF None, Counted, Shared, l1e_mkcow
<1>4. CowReadOnly'
  <2> SUFFICES ASSUME NEW k \in Procs, NEW v \in Vas, pte'[k][v].t = "cow"
               PROVE  ~pte'[k][v].w
    BY DEF CowReadOnly
  <2>1. CASE k = n /\ v = ZVa
    BY <1>1, <1>3, <2>1
  <2>2. CASE k = n /\ v # ZVa
    BY <1>2, <1>3, <2>2 DEF Vas
  <2>3. CASE k = pr
    BY <1>2, <1>3, <2>3 DEF ShareInv, CowReadOnly
  <2>4. CASE k # n /\ k # pr
    BY <1>2, <2>4 DEF ShareInv, CowReadOnly
  <2>5. QED
    BY <2>1, <2>2, <2>3, <2>4
<1>5. ASSUME NEW k \in Procs, NEW v \in Vas, Counted(pte'[k][v])
      PROVE  \/ /\ k = n /\ v = ZVa /\ pte'[k][v].pfn = q
             \/ /\ pte'[k][v].pfn # q
                /\ k = n /\ v \in CowVas /\ Counted(pte[pr][v])
                /\ pte'[pr][v].t = "cow"
                /\ pte'[k][v].t = "cow" /\ pte'[k][v].pfn = pte[pr][v].pfn
             \/ /\ pte'[k][v].pfn # q
                /\ k # n /\ Counted(pte[k][v])
                /\ pte'[k][v].pfn = pte[k][v].pfn
                /\ pte'[k][v].t = "cow" \/ pte'[k][v] = pte[k][v]
  <2>1. CASE k = n /\ v = ZVa
    BY <1>1, <1>3, <1>5, <2>1
  <2>2. CASE k = n /\ v # ZVa
    <3>1. v \in CowVas /\ Shared(pte[pr][v]) /\ pte'[n][v] = l1e_mkcow(pte[pr][v])
      BY <1>2, <1>3, <1>5, <2>2 DEF Vas
    <3>2. pte[pr][v].pfn \in used /\ pte'[pr][v] = l1e_mkcow(pte[pr][v])
      BY <1>2, <1>3, <3>1, Mapped
    <3>3. QED
      BY <1>1, <1>3, <2>2, <3>1, <3>2
  <2>3. CASE k # n
    <3>1. /\ Counted(pte[k][v])
          /\ pte'[k][v].pfn = pte[k][v].pfn
          /\ pte'[k][v].t = "cow" \/ pte'[k][v] = pte[k][v]
      BY <1>2, <1>3, <1>5, <2>3
    <3>2. pte[k][v].pfn \in used
      BY <3>1, Mapped
    <3>3. QED
      BY <1>1, <2>3, <3>1, <3>2
  <2>4. QED
    BY <2>1, <2>2, <2>3
<1>6. CowPairs'
  <2> SUFFICES ASSUME NEW k1 \in Procs, NEW k2 \in Procs, NEW v1 \in Vas, NEW v2 \in Vas,
                      Counted(pte'[k1][v1]), Counted(pte'[k2][v2]),
                      pte'[k1][v1].pfn = pte'[k2][v2].pfn,
                      pte'[k1][v1].pfn \notin cowexp', k1 # k2 \/ v1 # v2,
                      pte'[k1][v1].t # "cow"
               PROVE  FALSE
    BY DEF CowPairs, Counted
  <2>1. pte'[k1][v1].pfn # q
    BY <1>5
  <2>2. /\ k1 # n /\ Counted(pte[k1][v1])
        /\ pte'[k1][v1] = pte[k1][v1] /\ pte[k1][v1].pfn \notin cowexp
    BY <1>1, <1>5, <2>1
  <2>3. CASE k2 = n
    <3>1. /\ Counted(pte[pr][v2]) /\ pte'[pr][v2].t = "cow"
          /\ pte'[k2][v2].pfn = pte[pr][v2].pfn
      BY <1>5, <2>1, <2>3
    <3>2. k1 # pr \/ v1 # v2
      BY <3>1
    <3>3. QED
      BY <2>2, <3>1, <3>2 DEF ShareInv, CowPairs
  <2>4. CASE k2 # n
    <3>1. Counted(pte[k2][v2]) /\ pte'[k2][v2].pfn = pte[k2][v2].pfn
      BY <1>5, <2>1, <2>4
    <3>2. QED
      BY <2>2, <3>1 DEF ShareInv, CowPairs
  <2>5. QED
    BY <2>3, <2>4
<1>7. QED
  BY <1>4, <1>6 DEF ShareInv

LEMMA NextShares ==
  ASSUME TypeOK, RefCovers, ShareInv, ~SelfMove, [Next]_vars
  PROVE  ShareInv'
<1>0. /\ \A pr \in Procs, va \in Vas : pte[pr][va] \in Entry
      /\ ~Counted(None) /\ None \in Entry /\ None.t # "cow"
  BY EntryType DEF TypeOK, None, Counted
<1>1. ASSUME NEW pr \in Procs, NEW va \in Vas, NEW w \in BOOLEAN, VmMap(pr, va, w)
      PROVE  ShareInv'
  <2>1. PICK p \in Pfns \ used :
          /\ pte' = [pte EXCEPT ![pr][va] = [t |-> "normal", pfn |-> p, w |-> w]]
          /\ cowexp' = cowexp \ {p}
    BY <1>1 DEF VmMap
  <2> DEFINE f == [t |-> "normal", pfn |-> p, w |-> w]
  <2>2. f \in Entry /\ f.t # "cow" /\ f.pfn = p
    BY EntryType
  <2>3. \A k \in Procs, v \in Vas : ~(Counted(pte[k][v]) /\ pte[k][v].pfn = p)
    BY Mapped
  <2>4. pte' = [pte EXCEPT ![pr][va] = f]
    BY <2>1
  <2>5. \A x \in Pfns : x \in cowexp /\ x \notin cowexp' => x \notin used
    BY <2>1
  <2>6. \A k \in Procs, v \in Vas :
          Counted(pte[k][v]) /\ pte[k][v].pfn = f.pfn => k = pr /\ v = va
    BY <2>2, <2>3
  <2> HIDE DEF f
  <2>7. QED
    BY <2>2, <2>4, <2>5, <2>6, WriteShares
<1>2. ASSUME NEW pr \in Procs, NEW va \in Vas, NEW f,
             Counted(pte[pr][va]), f.t # "cow", f.pfn = pte[pr][va].pfn,
             pte' = [pte EXCEPT ![pr][va] = f], f \in Entry, cowexp \subseteq cowexp',
             pte[pr][va].t = "cow" => pte[pr][va].pfn \in cowexp' \/ ref[pte[pr][va].pfn] = 1
      PROVE  ShareInv'
  <2>1. ASSUME f.pfn \notin cowexp', NEW k \in Procs, NEW v \in Vas,
               Counted(pte[k][v]), pte[k][v].pfn = f.pfn
        PROVE  k = pr /\ v = va
    <3>1. CASE pte[pr][va].t = "cow"
      BY <1>2, <2>1, <3>1, Sole
    <3>2. CASE pte[pr][va].t # "cow"
      <4>1. pte[pr][va].pfn \notin cowexp
        BY <1>2, <2>1
      <4>2. QED
        BY <1>2, <2>1, <3>2, <4>1, NotShared
    <3>3. QED
      BY <3>1, <3>2
  <2>2. QED
    BY <1>2, <2>1, WriteShares
<1>3. ASSUME NEW pr \in Procs, NEW va \in Vas, NEW w \in BOOLEAN, VmChprot(pr, va, w)
      PROVE  ShareInv'
  <2> DEFINE f == [t |-> "normal", pfn |-> pte[pr][va].pfn, w |-> w]
  <2>1. Counted(pte[pr][va]) /\ f \in Entry /\ f.t # "cow" /\ f.pfn = pte[pr][va].pfn
    BY <1>0, <1>3, EntryType DEF VmChprot, MayChprot, Counted
  <2>2. pte' = [pte EXCEPT ![pr][va] = f] /\ cowexp' = cowexp /\ pte[pr][va].t # "cow"
    BY <1>3 DEF VmChprot, MayChprot
  <2> HIDE DEF f
  <2>3. QED
    BY <1>2, <2>1, <2>2
<1>4. ASSUME NEW pr \in Procs, NEW va \in Vas, PmapFault(pr, va)
      PROVE  ShareInv'
  <2> DEFINE f == l1e_mknormal(pte[pr][va])
  <2>1. Counted(pte[pr][va]) /\ f \in Entry /\ f.t # "cow" /\ f.pfn = pte[pr][va].pfn
    BY <1>0, <1>4, EntryType DEF PmapFault, Counted, l1e_mknormal
  <2>2. pte' = [pte EXCEPT ![pr][va] = f] /\ cowexp' = cowexp /\ ref[pte[pr][va].pfn] = 1
    BY <1>4 DEF PmapFault
  <2> HIDE DEF f
  <2>3. QED
    BY <1>2, <2>1, <2>2
<1>5. ASSUME NEW pr \in Procs, NEW va \in Vas, Export(pr, va)
      PROVE  ShareInv'
  <2> DEFINE f == l1e_mkwired(pte[pr][va])
  <2>1. Counted(pte[pr][va]) /\ f \in Entry /\ f.t # "cow" /\ f.pfn = pte[pr][va].pfn
    BY <1>0, <1>5, EntryType DEF Export, l1e_mkwired
  <2>2. /\ pte' = [pte EXCEPT ![pr][va] = f] /\ cowexp \subseteq cowexp'
        /\ pte[pr][va].t = "cow" => pte[pr][va].pfn \in cowexp'
    BY <1>5 DEF Export
  <2> HIDE DEF f
  <2>3. QED
    BY <1>2, <2>1, <2>2
<1>6. ASSUME UNCHANGED <<pte, cowexp>>
      PROVE  ShareInv'
  BY <1>6 DEF ShareInv, CowPairs, CowReadOnly
<1>7. ASSUME NEW pr \in Procs, NEW va \in Vas, Unexport(pr, va)
      PROVE  ShareInv'
  <2> DEFINE f == l1e_mknormal(pte[pr][va])
  <2>1. cowexp' = cowexp
    BY <1>7 DEF Unexport, Halt
  <2>2. CASE pte' = pte
    BY <1>6, <2>1, <2>2
  <2>3. CASE pte' # pte
    <3>1. pte[pr][va].t = "wired" /\ pte' = [pte EXCEPT ![pr][va] = f]
      BY <1>7, <2>3 DEF Unexport, Halt
    <3>2. Counted(pte[pr][va]) /\ f \in Entry /\ f.t # "cow" /\ f.pfn = pte[pr][va].pfn
      BY <1>0, <3>1, EntryType DEF Counted, l1e_mknormal
    <3> HIDE DEF f
    <3>3. QED
      BY <1>2, <2>1, <3>1, <3>2
  <2>4. QED
    BY <2>2, <2>3
<1>8. ASSUME NEW pr \in Procs, NEW va \in Vas, NEW f, ~Counted(f), cowexp' = cowexp,
             pte' = pte \/ pte' = [pte EXCEPT ![pr][va] = f]
      PROVE  ShareInv'
  <2>1. \A k \in Procs, v \in Vas : pte'[k][v] = pte[k][v] \/ ~Counted(pte'[k][v])
    BY <1>8 DEF TypeOK
  <2>2. QED
    BY <1>8, <2>1, ClearShares
<1>9. ASSUME NEW pr \in Procs, NEW va \in Vas, VmUnmap(pr, va) \/ IoUnmap(pr, va)
      PROVE  ShareInv'
  BY <1>0, <1>8, <1>9 DEF VmUnmap, IoUnmap
<1>10. ASSUME NEW pr \in Procs, NEW va \in Vas, NEW m \in Mmio, IoMap(pr, va, m)
       PROVE  ShareInv'
  <2> DEFINE f == [t |-> "iomap", pfn |-> m, w |-> TRUE]
  <2>1. ~Counted(f)
    BY DEF Counted
  <2>2. pte' = [pte EXCEPT ![pr][va] = f] /\ cowexp' = cowexp
    BY <1>10 DEF IoMap
  <2> HIDE DEF f
  <2>3. QED
    BY <1>8, <2>1, <2>2
<1>11. ASSUME NEW pr \in Procs, Exit(pr)
       PROVE  ShareInv'
  <2>1. \A k \in Procs, v \in Vas : pte'[k][v] = pte[k][v] \/ ~Counted(pte'[k][v])
    BY <1>0, <1>11, ExitTable
  <2>2. QED
    BY <1>11, <2>1, ClearShares DEF Exit
<1>12. ASSUME NEW pr \in Procs, Reap(pr)
       PROVE  ShareInv'
  <2>1. \A k \in Procs, v \in Vas : pte'[k][v] = pte[k][v] \/ ~Counted(pte'[k][v])
    BY <1>0, <1>12 DEF Reap, TypeOK
  <2>2. QED
    BY <1>12, <2>1, ClearShares DEF Reap
<1>13. ASSUME NEW why, Halt(why)
       PROVE  ShareInv'
  BY <1>6, <1>13 DEF Halt
<1>14. CASE UNCHANGED vars
  BY <1>6, <1>14 DEF vars
<1>15. QED
  BY <1>1, <1>3, <1>4, <1>5, <1>7, <1>9, <1>10, <1>11, <1>12, <1>13, <1>14,
     MoveShares, ForkShares
  DEF Next, Halted, OutOfMemory, VmChprotCow, ExportAbsent

(* Copy on write, whatever the processes do: a frame with several users,   *)
(* none of whose COW entries was ever exported to a device, is writable    *)
(* through no entry, so a child never sees a write its parent makes after  *)
(* the fork (pmap_copy, pmap_fault, pmap_uchprot).                         *)
THEOREM SharedReadOnlyCorrect == ASSUME ~SelfMove PROVE Spec => []SharedReadOnly
<1>1. Init => ShareInv
  BY DEF Init, ShareInv, CowPairs, CowReadOnly, None, Counted
<1>2. TypeOK /\ RefCovers /\ ShareInv /\ [Next]_vars => ShareInv'
  BY NextShares
<1>3. TypeOK /\ RefCovers /\ ShareInv => SharedReadOnly
  <2> SUFFICES ASSUME TypeOK, ShareInv, NEW p \in used \ cowexp,
                      Cardinality(Maps(p)) > 1, NEW m \in Maps(p)
               PROVE  ~pte[m[1]][m[2]].w
    BY DEF SharedReadOnly
  <2>1. IsFiniteSet({m}) /\ Cardinality({m}) = 1
    BY FS_Singleton
  <2>2. ASSUME Maps(p) \subseteq {m} PROVE FALSE
    BY <2>1, <2>2, SubsetCard
  <2>3. PICK x \in Maps(p) : x # m
    BY <2>2
  <2>4. /\ m \in Procs \X Vas /\ Counted(pte[m[1]][m[2]]) /\ pte[m[1]][m[2]].pfn = p
        /\ x \in Procs \X Vas /\ Counted(pte[x[1]][x[2]]) /\ pte[x[1]][x[2]].pfn = p
    BY DEF Maps
  <2>5. x[1] # m[1] \/ x[2] # m[2]
    BY <2>3, <2>4
  <2>6. pte[m[1]][m[2]].t = "cow"
    BY <2>4, <2>5 DEF ShareInv, CowPairs
  <2>7. QED
    BY <2>4, <2>6 DEF ShareInv, CowReadOnly
<1>4. QED
  BY <1>1, <1>2, <1>3, TypeCorrect, RefCoversCorrect, PTL DEF Spec

-----------------------------------------------------------------------------
(* Export records and wiring counts.                                       *)

LEMMA RecordsFinite ==
  ASSUME NEW k, NEW p
  PROVE  /\ IsFiniteSet(RecordsOf(k, p)) /\ Cardinality(RecordsOf(k, p)) \in Nat
         /\ IsFiniteSet(AllRecords(p)) /\ Cardinality(AllRecords(p)) \in Nat
<1>1. IsFiniteSet(1 .. MaxDma)
  BY CountAssumption, FS_Interval
<1>2. IsFiniteSet(Vas \X (1 .. MaxDma))
  BY <1>1, VasFinite, FS_Product
<1>3. IsFiniteSet(Procs \X (Vas \X (1 .. MaxDma)))
  BY <1>2, ProcsAssumption, FS_Product
<1>4. RecordsOf(k, p) \subseteq Vas \X (1 .. MaxDma)
  BY DEF RecordsOf
<1>5. AllRecords(p) \subseteq Procs \X (Vas \X (1 .. MaxDma))
  BY DEF AllRecords
<1>6. QED
  BY <1>2, <1>3, <1>4, <1>5, SubsetCard

(* Membership, one record at a time.                                       *)
LEMMA RecordIn ==
  ASSUME NEW p, NEW k, NEW v, NEW i
  PROVE  <<k, <<v, i>>>> \in AllRecords(p) <=>
           k \in Procs /\ v \in Vas /\ i \in 1 .. MaxDma /\ i <= dma[k][<<v, p>>]
BY DEF AllRecords, RecordsOf

LEMMA RecordShape ==
  ASSUME NEW p, NEW x \in AllRecords(p)
  PROVE  \E k \in Procs, v \in Vas, i \in 1 .. MaxDma : x = <<k, <<v, i>>>>
BY DEF AllRecords

(* A free frame has no records: they would wire a mapping of it.           *)
LEMMA FreeNoRecords ==
  ASSUME TypeOK, RefCovers, DmaInv, NEW p \in Pfns, p \notin used
  PROVE  AllRecords(p) = {}
<1> SUFFICES ASSUME NEW k \in Procs, NEW v \in Vas, NEW i \in 1 .. MaxDma,
                    <<k, <<v, i>>>> \in AllRecords(p)
             PROVE  FALSE
  BY RecordShape
<1>1. dma[k][<<v, p>>] \in 0 .. MaxDma /\ i <= dma[k][<<v, p>>]
  BY RecordIn DEF DmaInv, DmaRange
<1>2. dma[k][<<v, p>>] > 0
  BY <1>1, CountAssumption
<1>3. pte[k][v].t = "wired" /\ pte[k][v].pfn = p
  BY <1>2 DEF DmaInv, DmaWired
<1>4. QED
  BY <1>3, Mapped DEF Counted

(* A call that leaves the records, and the wired entries of live           *)
(* processes, alone.                                                       *)
LEMMA KeepDma ==
  ASSUME DmaInv, dma' = dma, halt' # "unwire",
         \A k \in Procs : st[k] = "live" => st'[k] = "live",
         \A p \in Pfns : wir'[p] = wir[p] \/ (AllRecords(p) = {} /\ wir'[p] >= 0),
         \A k \in Procs, v \in Vas :
           st[k] = "live" /\ pte[k][v].t = "wired" => pte'[k][v] = pte[k][v]
  PROVE  DmaInv'
<1>1. DmaRange'
  BY DEF DmaInv, DmaRange
<1>2. DmaLive'
  BY DEF DmaInv, DmaLive
<1>3. DmaWired'
  <2> SUFFICES ASSUME NEW k \in Procs, NEW v \in Vas, NEW p \in Pfns, dma[k][<<v, p>>] > 0
               PROVE  pte'[k][v].t = "wired" /\ pte'[k][v].pfn = p
    BY DEF DmaWired
  <2>1. st[k] = "live"
    BY DEF DmaInv, DmaLive
  <2>2. QED
    BY <2>1 DEF DmaInv, DmaWired
<1>4. WirCovers'
  <2> SUFFICES ASSUME NEW p \in Pfns
               PROVE  Cardinality(AllRecords(p)') <= wir'[p]
    BY DEF WirCovers
  <2>1. AllRecords(p)' = AllRecords(p)
    BY DEF AllRecords, RecordsOf
  <2>2. CASE wir'[p] = wir[p]
    BY <2>1, <2>2 DEF DmaInv, WirCovers
  <2>3. CASE AllRecords(p) = {} /\ wir'[p] >= 0
    BY <2>1, <2>3, FS_EmptySet
  <2>4. QED
    BY <2>2, <2>3
<1>5. QED
  BY <1>1, <1>2, <1>3, <1>4 DEF DmaInv

(* sys_export: one more record, one more wiring.                           *)
LEMMA ExportDma ==
  ASSUME TypeOK, DmaInv, NEW pr \in Procs, NEW va \in Vas, Export(pr, va)
  PROVE  DmaInv'
<1> DEFINE e == pte[pr][va]
           d == dma[pr][<<va, e.pfn>>]
<1>1. e.pfn \in Pfns /\ Counted(e)
  BY EntryType DEF Export, TypeOK
<1>2. /\ st[pr] = "live" /\ halt = "no" /\ d < MaxDma
      /\ pte' = [pte EXCEPT ![pr][va] = l1e_mkwired(e)]
      /\ wir' = [wir EXCEPT ![e.pfn] = @ + 1]
      /\ dma' = [dma EXCEPT ![pr][<<va, e.pfn>>] = @ + 1]
      /\ st' = st /\ halt' = halt
  BY DEF Export, Running
<1>3. d \in 0 .. MaxDma /\ d + 1 \in 1 .. MaxDma
  BY <1>1, <1>2, CountAssumption DEF DmaInv, DmaRange
<1>4. /\ dma'[pr][<<va, e.pfn>>] = d + 1
      /\ \A k \in Procs, v \in Vas, p \in Pfns :
           k # pr \/ v # va \/ p # e.pfn => dma'[k][<<v, p>>] = dma[k][<<v, p>>]
  <2>1. <<va, e.pfn>> \in Vas \X Pfns
    BY <1>1
  <2>2. dma \in [Procs -> [Vas \X Pfns -> Int]]
    BY DEF TypeOK
  <2>3. dma'[pr][<<va, e.pfn>>] = d + 1
    BY <1>2, <2>1, <2>2
  <2>4. ASSUME NEW k \in Procs, NEW v \in Vas, NEW p \in Pfns,
               k # pr \/ <<v, p>> # <<va, e.pfn>>
        PROVE  dma'[k][<<v, p>>] = dma[k][<<v, p>>]
    BY <1>2, <2>1, <2>2, <2>4
  <2>5. QED
    BY <2>3, <2>4
<1>5. /\ pte'[pr][va].t = "wired" /\ pte'[pr][va].pfn = e.pfn
      /\ \A k \in Procs, v \in Vas : k # pr \/ v # va => pte'[k][v] = pte[k][v]
  BY <1>2 DEF TypeOK, l1e_mkwired
<1>6. \A p \in Pfns : wir'[p] = (IF p = e.pfn THEN wir[p] + 1 ELSE wir[p]) /\ wir[p] \in Int
  BY <1>2 DEF TypeOK
<1> HIDE DEF e, d
<1>7. DmaRange'
  <2> SUFFICES ASSUME NEW k \in Procs, NEW v \in Vas, NEW p \in Pfns
               PROVE  dma'[k][<<v, p>>] \in 0 .. MaxDma
    BY DEF DmaRange
  <2>1. CASE k = pr /\ v = va /\ p = e.pfn
    <3>1. dma'[k][<<v, p>>] = d + 1
      BY <1>4, <2>1
    <3>2. QED
      BY <1>3, <3>1, CountAssumption
  <2>2. CASE ~(k = pr /\ v = va /\ p = e.pfn)
    BY <1>4, <2>2 DEF DmaInv, DmaRange
  <2>3. QED
    BY <2>1, <2>2
<1>8. DmaLive'
  BY <1>2, <1>4 DEF DmaInv, DmaLive
<1>9. DmaWired'
  <2> SUFFICES ASSUME NEW k \in Procs, NEW v \in Vas, NEW p \in Pfns, dma'[k][<<v, p>>] > 0
               PROVE  pte'[k][v].t = "wired" /\ pte'[k][v].pfn = p
    BY DEF DmaWired
  <2>1. CASE k = pr /\ v = va /\ p = e.pfn
    BY <1>5, <2>1
  <2>2. CASE ~(k = pr /\ v = va /\ p = e.pfn)
    <3>1. pte[k][v].t = "wired" /\ pte[k][v].pfn = p
      BY <1>4, <2>2 DEF DmaInv, DmaWired
    <3>2. QED
      BY <1>5, <2>2, <3>1 DEF e
  <2>3. QED
    BY <2>1, <2>2
<1>10. WirCovers'
  <2> SUFFICES ASSUME NEW p \in Pfns
               PROVE  Cardinality(AllRecords(p)') <= wir'[p]
    BY DEF WirCovers
  <2> DEFINE A == AllRecords(p)
             x == <<pr, <<va, d + 1>>>>
  <2>0. /\ IsFiniteSet(A) /\ Cardinality(A) \in Nat /\ Cardinality(A) <= wir[p]
    BY RecordsFinite DEF DmaInv, WirCovers
  <2>1. CASE p # e.pfn
    <3>1. \A k \in Procs, v \in Vas : dma'[k][<<v, p>>] = dma[k][<<v, p>>]
      BY <1>4, <2>1
    <3>2. A' = A
      BY <3>1 DEF AllRecords, RecordsOf
    <3>3. QED
      BY <1>6, <2>0, <2>1, <3>2
  <2>2. CASE p = e.pfn
    <3>1. A' \subseteq A \cup {x}
      <4> SUFFICES ASSUME NEW k \in Procs, NEW v \in Vas, NEW i \in 1 .. MaxDma,
                          i <= dma'[k][<<v, p>>]
                   PROVE  (k = pr /\ v = va /\ i = d + 1) \/ i <= dma[k][<<v, p>>]
        BY RecordIn DEF AllRecords, RecordsOf
      <4>1. CASE k = pr /\ v = va
        BY <1>3, <1>4, <2>2, <4>1 DEF d
      <4>2. CASE k # pr \/ v # va
        BY <1>4, <4>2
      <4>3. QED
        BY <4>1, <4>2
    <3> HIDE DEF A, x
    <3>2. IsFiniteSet(A \cup {x}) /\ Cardinality(A \cup {x}) <= Cardinality(A) + 1
      <4>1. IsFiniteSet(A \cup {x})
        BY <2>0, FS_AddElement
      <4>2. \/ Cardinality(A \cup {x}) = Cardinality(A)
            \/ Cardinality(A \cup {x}) = Cardinality(A) + 1
        BY <2>0, FS_AddElement
      <4>3. QED
        BY <2>0, <4>1, <4>2
    <3>3. /\ Cardinality(A') \in Nat /\ Cardinality(A') <= Cardinality(A \cup {x})
          /\ Cardinality(A \cup {x}) \in Nat
      BY <3>1, <3>2, SubsetCard
    <3>4. Cardinality(A') <= wir[p] + 1
      BY <1>6, <2>0, <3>2, <3>3
    <3>5. QED
      BY <1>6, <2>2, <3>4 DEF A
  <2>3. QED
    BY <2>1, <2>2
<1>11. QED
  BY <1>2, <1>7, <1>8, <1>9, <1>10 DEF DmaInv

(* sys_unexport: one record and one wiring less.  The entry loses its      *)
(* wired mark only when no other record of the frame is left.              *)
LEMMA UnexportDma ==
  ASSUME TypeOK, DmaInv, NEW pr \in Procs, NEW va \in Vas, Unexport(pr, va)
  PROVE  DmaInv'
<1>1. PICK p \in Pfns :
        /\ dma[pr][<<va, p>>] > 0
        /\ IF pte[pr][va].t # "wired"
           THEN Halt("unwire")
           ELSE /\ dma' = [dma EXCEPT ![pr][<<va, p>>] = @ - 1]
                /\ wir' = [wir EXCEPT ![pte[pr][va].pfn] = @ - 1]
                /\ pte' = IF wir[pte[pr][va].pfn] = 1
                          THEN [pte EXCEPT ![pr][va] = l1e_mknormal(@)]
                          ELSE pte
                /\ UNCHANGED <<st, used, ref, hwmap, halt, cowed, cowexp>>
  BY DEF Unexport
<1> DEFINE d == dma[pr][<<va, p>>]
           A(f) == AllRecords(f)
           x == <<pr, <<va, d>>>>
<1>2. pte[pr][va].t = "wired" /\ pte[pr][va].pfn = p
  BY <1>1 DEF DmaInv, DmaWired
<1>3. /\ dma' = [dma EXCEPT ![pr][<<va, p>>] = @ - 1]
      /\ wir' = [wir EXCEPT ![p] = @ - 1]
      /\ \/ pte' = pte /\ wir[p] # 1
         \/ pte' = [pte EXCEPT ![pr][va] = l1e_mknormal(pte[pr][va])] /\ wir[p] = 1
      /\ UNCHANGED <<st, halt>>
  BY <1>1, <1>2
<1>4. d \in 1 .. MaxDma
  BY <1>1, CountAssumption DEF DmaInv, DmaRange
<1>5. /\ dma'[pr][<<va, p>>] = d - 1
      /\ \A k \in Procs, v \in Vas, f \in Pfns :
           k # pr \/ v # va \/ f # p => dma'[k][<<v, f>>] = dma[k][<<v, f>>]
  <2>1. <<va, p>> \in Vas \X Pfns
    OBVIOUS
  <2>2. dma \in [Procs -> [Vas \X Pfns -> Int]]
    BY DEF TypeOK
  <2>3. dma'[pr][<<va, p>>] = d - 1
    BY <1>3, <2>1, <2>2
  <2>4. ASSUME NEW k \in Procs, NEW v \in Vas, NEW f \in Pfns,
               k # pr \/ <<v, f>> # <<va, p>>
        PROVE  dma'[k][<<v, f>>] = dma[k][<<v, f>>]
    BY <1>3, <2>1, <2>2, <2>4
  <2>5. QED
    BY <2>3, <2>4
<1>6. /\ \A f \in Pfns : f # p => wir'[f] = wir[f]
      /\ wir'[p] = wir[p] - 1 /\ wir[p] \in Int
  BY <1>3 DEF TypeOK
<1>7. \A f \in Pfns : IsFiniteSet(A(f)) /\ Cardinality(A(f)) \in Nat /\ Cardinality(A(f)) <= wir[f]
  BY RecordsFinite DEF DmaInv, WirCovers
<1> HIDE DEF d
<1>8. A(p)' = A(p) \ {x} /\ x \in A(p)
  <2>1. x \in A(p)
    BY <1>4, RecordIn DEF d
  <2>2. ASSUME NEW k \in Procs, NEW v \in Vas, NEW i \in 1 .. MaxDma
        PROVE  i <= dma'[k][<<v, p>>] <=>
                 i <= dma[k][<<v, p>>] /\ ~(k = pr /\ v = va /\ i = d)
    <3>1. CASE k = pr /\ v = va
      BY <1>4, <1>5, <3>1 DEF d
    <3>2. CASE k # pr \/ v # va
      BY <1>5, <3>2
    <3>3. QED
      BY <3>1, <3>2
  <2>3. QED
    BY <2>1, <2>2 DEF AllRecords, RecordsOf
<1>9. \A f \in Pfns : f # p => A(f)' = A(f)
  <2> SUFFICES ASSUME NEW f \in Pfns, f # p
               PROVE  A(f)' = A(f)
    OBVIOUS
  <2>1. \A k \in Procs, v \in Vas : dma'[k][<<v, f>>] = dma[k][<<v, f>>]
    BY <1>5
  <2>2. QED
    BY <2>1 DEF AllRecords, RecordsOf
<1> HIDE DEF A, x
<1>10. Cardinality(A(p)') = Cardinality(A(p)) - 1 /\ IsFiniteSet(A(p)')
  BY <1>7, <1>8, FS_RemoveElement
<1>11. WirCovers'
  <2> SUFFICES ASSUME NEW f \in Pfns
               PROVE  Cardinality(A(f)') <= wir'[f]
    BY DEF WirCovers, A
  <2>1. CASE f = p
    BY <1>6, <1>7, <1>10, <2>1
  <2>2. CASE f # p
    BY <1>6, <1>7, <1>9, <2>2
  <2>3. QED
    BY <2>1, <2>2
<1>12. wir[p] = 1 => d = 1
  <2> SUFFICES ASSUME wir[p] = 1, d # 1 PROVE FALSE
    OBVIOUS
  <2>1. 1 \in 1 .. MaxDma /\ 1 <= d
    BY <1>4, CountAssumption
  <2>2. <<pr, <<va, 1>>>> \in A(p)
    BY <2>1, RecordIn DEF A, d
  <2>3. <<pr, <<va, 1>>>> # x
    BY DEF x
  <2>4. <<pr, <<va, 1>>>> \in A(p)'
    BY <1>8, <2>2, <2>3
  <2>5. Cardinality(A(p)') # 0
    BY <1>10, <2>4, FS_EmptySet
  <2>6. Cardinality(A(p)') \in Nat
    BY <1>10, FS_CardinalityType
  <2>7. QED
    BY <1>7, <1>10, <2>5, <2>6
<1>13. DmaRange'
  <2> SUFFICES ASSUME NEW k \in Procs, NEW v \in Vas, NEW f \in Pfns
               PROVE  dma'[k][<<v, f>>] \in 0 .. MaxDma
    BY DEF DmaRange
  <2>1. CASE k = pr /\ v = va /\ f = p
    <3>1. dma'[k][<<v, f>>] = d - 1
      BY <1>5, <2>1
    <3>2. QED
      BY <1>4, <3>1, CountAssumption
  <2>2. CASE ~(k = pr /\ v = va /\ f = p)
    BY <1>5, <2>2 DEF DmaInv, DmaRange
  <2>3. QED
    BY <2>1, <2>2
<1>14. DmaLive'
  <2>1. st[pr] = "live" /\ st' = st
    BY <1>3 DEF Unexport, Running
  <2>2. QED
    BY <1>5, <2>1 DEF DmaInv, DmaLive
<1>15. DmaWired'
  <2> SUFFICES ASSUME NEW k \in Procs, NEW v \in Vas, NEW f \in Pfns, dma'[k][<<v, f>>] > 0
               PROVE  pte'[k][v].t = "wired" /\ pte'[k][v].pfn = f
    BY DEF DmaWired
  <2>1. pte[k][v].t = "wired" /\ pte[k][v].pfn = f
    <3>1. CASE k = pr /\ v = va /\ f = p
      BY <1>2, <3>1
    <3>2. CASE ~(k = pr /\ v = va /\ f = p)
      BY <1>5, <3>2 DEF DmaInv, DmaWired
    <3>3. QED
      BY <3>1, <3>2
  <2>2. k = pr /\ v = va => wir[p] # 1
    <3> SUFFICES ASSUME k = pr, v = va, wir[p] = 1 PROVE FALSE
      OBVIOUS
    <3>1. f = p
      BY <1>2, <2>1
    <3>2. dma'[k][<<v, f>>] = 0
      BY <1>5, <1>12, <3>1
    <3>3. QED
      BY <3>2
  <2>3. pte'[k][v] = pte[k][v]
    BY <1>3, <2>2 DEF TypeOK
  <2>4. QED
    BY <2>1, <2>3
<1>16. QED
  BY <1>3, <1>11, <1>13, <1>14, <1>15 DEF DmaInv

(* Exit: _hwdev_close drops all the records of the process, and as many    *)
(* wirings.                                                                *)
LEMMA ExitDma ==
  ASSUME TypeOK, DmaInv, NEW pr \in Procs, Exit(pr)
  PROVE  DmaInv'
<1>1. /\ halt = "no"
      /\ wir' = ClosedWir(pr)
      /\ dma' = [dma EXCEPT ![pr] = [r \in Vas \X Pfns |-> 0]]
      /\ st' = [st EXCEPT ![pr] = "zombie"]
      /\ halt' = IF \E r \in Vas \X Pfns : dma[pr][r] > 0 /\ pte[pr][r[1]].t # "wired"
                 THEN "unwire" ELSE halt
  BY DEF Exit, Running
<1>2. /\ \A v \in Vas, p \in Pfns : dma'[pr][<<v, p>>] = 0
      /\ \A k \in Procs \ {pr} : dma'[k] = dma[k] /\ st'[k] = st[k]
  BY <1>1 DEF TypeOK
<1>3. halt' # "unwire"
  <2> SUFFICES ASSUME NEW r \in Vas \X Pfns, dma[pr][r] > 0, pte[pr][r[1]].t # "wired"
               PROVE  FALSE
    BY <1>1
  <2>1. r[1] \in Vas /\ r[2] \in Pfns /\ r = <<r[1], r[2]>>
    OBVIOUS
  <2>2. QED
    BY <2>1 DEF DmaInv, DmaWired
<1>4. DmaRange'
  <2> SUFFICES ASSUME NEW k \in Procs, NEW v \in Vas, NEW p \in Pfns
               PROVE  dma'[k][<<v, p>>] \in 0 .. MaxDma
    BY DEF DmaRange
  <2>1. CASE k = pr
    BY <1>2, <2>1, CountAssumption
  <2>2. CASE k # pr
    BY <1>2, <2>2 DEF DmaInv, DmaRange
  <2>3. QED
    BY <2>1, <2>2
<1>5. DmaLive'
  BY <1>2 DEF DmaInv, DmaLive
<1>6. DmaWired'
  <2>1. \A k \in Procs \ {pr} : pte'[k] = pte[k]
    BY ExitTable
  <2>2. QED
    BY <1>2, <2>1 DEF DmaInv, DmaWired
<1>7. WirCovers'
  <2> SUFFICES ASSUME NEW p \in Pfns
               PROVE  Cardinality(AllRecords(p)') <= wir'[p]
    BY DEF WirCovers
  <2> DEFINE A == AllRecords(p)
             R == RecordsOf(pr, p)
             G == {<<pr, r>> : r \in R}
  <2>1. /\ IsFiniteSet(A) /\ Cardinality(A) \in Nat /\ Cardinality(A) <= wir[p]
        /\ IsFiniteSet(R) /\ Cardinality(R) \in Nat
    BY RecordsFinite DEF DmaInv, WirCovers
  <2>2. IsFiniteSet(G) /\ Cardinality(G) = Cardinality(R)
    BY <2>1, PairImage
  <2>3. wir'[p] = wir[p] - Cardinality(R) /\ wir[p] \in Int
    BY <1>1 DEF ClosedWir, Records, RecordsOf, TypeOK
  <2>4. G \subseteq A
    <3> SUFFICES ASSUME NEW r \in R PROVE <<pr, r>> \in A
      OBVIOUS
    <3>1. r \in Vas \X (1 .. MaxDma)
      BY DEF RecordsOf
    <3>2. <<pr, r>> \in Procs \X (Vas \X (1 .. MaxDma))
      BY <3>1
    <3>3. QED
      BY <3>2 DEF AllRecords
  <2>5. A' \subseteq A \ G
    <3> SUFFICES ASSUME NEW k \in Procs, NEW v \in Vas, NEW i \in 1 .. MaxDma,
                        <<k, <<v, i>>>> \in A'
                 PROVE  <<k, <<v, i>>>> \in A /\ k # pr
      BY DEF AllRecords
    <3>1. i <= dma'[k][<<v, p>>]
      BY DEF AllRecords, RecordsOf
    <3>2. k # pr
      BY <1>2, <3>1
    <3>3. QED
      BY <1>2, <3>1, <3>2, RecordIn
  <2> HIDE DEF A, R, G
  <2>6. IsFiniteSet(A \ G) /\ Cardinality(A \ G) = Cardinality(A) - Cardinality(G)
    <3>1. A \cap G = G
      BY <2>4
    <3>2. QED
      BY <2>1, <3>1, FS_Difference
  <2>7. Cardinality(A') <= Cardinality(A \ G) /\ Cardinality(A') \in Nat
    BY <2>5, <2>6, SubsetCard
  <2>8. Cardinality(A') <= wir'[p]
    BY <2>1, <2>2, <2>3, <2>6, <2>7
  <2>9. QED
    BY <2>8 DEF A
<1>8. QED
  BY <1>3, <1>4, <1>5, <1>6, <1>7 DEF DmaInv

LEMMA NextDma ==
  ASSUME TypeOK, RefCovers, DmaInv, ~SelfMove, [Next]_vars
  PROVE  DmaInv'
<1>0. /\ pte \in [Procs -> [Vas -> Entry]] /\ wir \in [Pfns -> Int]
      /\ \A e : l1e_external(e) \/ e.t # "wired"
  BY DEF TypeOK, l1e_external
<1>1. ASSUME NEW pr \in Procs, NEW va \in Vas, NEW w \in BOOLEAN, VmMap(pr, va, w)
      PROVE  DmaInv'
  <2>1. PICK p \in Pfns \ used :
          /\ pte' = [pte EXCEPT ![pr][va] = [t |-> "normal", pfn |-> p, w |-> w]]
          /\ wir' = [wir EXCEPT ![p] = 0]
    BY <1>1 DEF VmMap
  <2>2. \A f \in Pfns : wir'[f] = wir[f] \/ (AllRecords(f) = {} /\ wir'[f] >= 0)
    BY <1>0, <2>1, FreeNoRecords
  <2>3. \A k \in Procs, v \in Vas : pte[k][v].t = "wired" => pte'[k][v] = pte[k][v]
    BY <1>0, <1>1, <2>1 DEF VmMap
  <2>4. dma' = dma /\ st' = st /\ halt' = halt
    BY <1>1 DEF VmMap
  <2>5. QED
    BY <2>2, <2>3, <2>4, KeepDma DEF DmaInv
<1>2. ASSUME UNCHANGED <<st, dma, wir>>, halt' # "unwire",
             \A k \in Procs, v \in Vas : pte[k][v].t = "wired" => pte'[k][v] = pte[k][v]
      PROVE  DmaInv'
  BY <1>2, KeepDma
<1>3. ASSUME NEW pr \in Procs, NEW va \in Vas, NEW f, UNCHANGED <<st, dma, wir, halt>>,
             pte[pr][va].t # "wired", pte' = pte \/ pte' = [pte EXCEPT ![pr][va] = f]
      PROVE  DmaInv'
  <2>1. \A k \in Procs, v \in Vas : pte[k][v].t = "wired" => pte'[k][v] = pte[k][v]
    BY <1>0, <1>3
  <2>2. QED
    BY <1>2, <1>3, <2>1 DEF DmaInv
<1>4. ASSUME NEW pr \in Procs, NEW va \in Vas, NEW w, VmChprot(pr, va, w)
      PROVE  DmaInv'
  BY <1>3, <1>4 DEF VmChprot, MayChprot
<1>5. ASSUME NEW pr \in Procs, NEW va \in Vas, VmUnmap(pr, va)
      PROVE  DmaInv'
  BY <1>0, <1>3, <1>5 DEF VmUnmap
<1>6. ASSUME NEW pr \in Procs, NEW va \in Vas, PmapFault(pr, va)
      PROVE  DmaInv'
  BY <1>3, <1>6 DEF PmapFault
<1>7. ASSUME NEW pr \in Procs, NEW va \in Vas, IoUnmap(pr, va)
      PROVE  DmaInv'
  <2>1. CASE pte[pr][va].t = "iomap"
    BY <1>3, <1>7, <2>1 DEF IoUnmap
  <2>2. CASE pte[pr][va].t # "iomap"
    <3>1. UNCHANGED <<pte, st, dma, wir, halt>>
      BY <1>7, <2>2 DEF IoUnmap
    <3>2. QED
      BY <1>2, <3>1 DEF DmaInv
  <2>3. QED
    BY <2>1, <2>2
<1>8. ASSUME NEW pr \in Procs, NEW va \in Vas, NEW m \in Mmio, IoMap(pr, va, m)
      PROVE  DmaInv'
  BY <1>0, <1>3, <1>8 DEF IoMap
<1>9. ASSUME NEW pr \in Procs, NEW dst \in Vas, NEW src \in Vas, VmMove(pr, dst, src)
      PROVE  DmaInv'
  <2>1. \A k \in Procs, v \in Vas : pte[k][v].t = "wired" => pte'[k][v] = pte[k][v]
    BY <1>0, <1>9, MoveTable DEF VmMove
  <2>2. QED
    BY <1>2, <1>9, <2>1 DEF VmMove, DmaInv
<1>10. ASSUME NEW pr \in Procs, NEW n \in Procs, Fork(pr, n)
       PROVE  DmaInv'
  <2>1. PICK q \in Pfns \ used :
          \A p \in Pfns : wir'[p] = wir[p] \/ (p = q /\ wir'[p] >= 0)
    BY <1>10, ForkTable
  <2>2. \A p \in Pfns : wir'[p] = wir[p] \/ (AllRecords(p) = {} /\ wir'[p] >= 0)
    BY <2>1, FreeNoRecords
  <2>3. \A k \in Procs, v \in Vas :
          st[k] = "live" /\ pte[k][v].t = "wired" => pte'[k][v] = pte[k][v]
    <3> SUFFICES ASSUME NEW k \in Procs, NEW v \in Vas, st[k] = "live", pte[k][v].t = "wired"
                 PROVE  pte'[k][v] = pte[k][v]
      OBVIOUS
    <3>1. k # n
      BY <1>10 DEF Fork
    <3>2. CASE k = pr
      BY <1>10, <3>2, ForkTable DEF Shared
    <3>3. CASE k # pr
      BY <1>10, <3>1, <3>3, ForkTable
    <3>4. QED
      BY <3>2, <3>3
  <2>4. dma' = dma /\ halt' = halt /\ \A k \in Procs : st[k] = "live" => st'[k] = "live"
    BY <1>10 DEF Fork, TypeOK
  <2>5. QED
    BY <2>2, <2>3, <2>4, KeepDma DEF DmaInv
<1>11. ASSUME NEW pr \in Procs, Reap(pr)
       PROVE  DmaInv'
  <2>1. \A k \in Procs, v \in Vas :
          st[k] = "live" /\ pte[k][v].t = "wired" => pte'[k][v] = pte[k][v]
    BY <1>0, <1>11 DEF Reap
  <2>2. /\ dma' = dma /\ wir' = wir /\ halt' = halt
        /\ \A k \in Procs : st[k] = "live" => st'[k] = "live"
    BY <1>11 DEF Reap, TypeOK
  <2>3. QED
    BY <2>1, <2>2, KeepDma DEF DmaInv
<1>12. ASSUME NEW why, Halt(why), why # "unwire"
       PROVE  DmaInv'
  BY <1>2, <1>12 DEF Halt
<1>13. ASSUME NEW pr \in Procs, OutOfMemory(pr) \/ \E va \in Vas :
                                VmChprotCow(pr, va) \/ ExportAbsent(pr, va)
       PROVE  DmaInv'
  BY <1>12, <1>13 DEF OutOfMemory, VmChprotCow, ExportAbsent
<1>14. CASE UNCHANGED vars
  BY <1>2, <1>14 DEF vars, DmaInv
<1>15. QED
  BY <1>1, <1>4, <1>5, <1>6, <1>7, <1>8, <1>9, <1>10, <1>11, <1>13, <1>14,
     ExportDma, UnexportDma, ExitDma
  DEF Next, Halted

(* DMA safety, whatever the processes do: as long as a device may still    *)
(* write to an exported page, the page stays wired at the frame the device *)
(* was given, the frame stays out of the allocator, and neither            *)
(* _hwdev_unexport nor _hwdev_close meets an entry it cannot unwire.       *)
THEOREM DmaPinnedCorrect == ASSUME ~SelfMove PROVE Spec => [](DmaInv /\ DmaPinned)
<1>1. Init => DmaInv
  <2> SUFFICES ASSUME Init PROVE DmaInv
    OBVIOUS
  <2>1. \A k \in Procs, v \in Vas, p \in Pfns : dma[k][<<v, p>>] = 0
    BY DEF Init
  <2>2. \A p \in Pfns : AllRecords(p) = {}
    <3> SUFFICES ASSUME NEW p \in Pfns, NEW x \in AllRecords(p) PROVE FALSE
      OBVIOUS
    <3>1. PICK k \in Procs, v \in Vas, i \in 1 .. MaxDma : x = <<k, <<v, i>>>>
      BY RecordShape
    <3>2. i <= dma[k][<<v, p>>]
      BY <3>1, RecordIn
    <3>3. QED
      BY <2>1, <3>2
  <2>3. WirCovers
    <3>1. \A p \in Pfns : wir[p] = 0 /\ Cardinality(AllRecords(p)) = 0
      BY <2>2, FS_EmptySet DEF Init
    <3>2. QED
      BY <3>1 DEF WirCovers
  <2>4. QED
    BY <2>1, <2>3, CountAssumption DEF Init, DmaInv, DmaRange, DmaWired, DmaLive
<1>2. TypeOK /\ RefCovers /\ DmaInv /\ [Next]_vars => DmaInv'
  BY NextDma
<1>3. TypeOK /\ RefCovers /\ DmaInv => DmaPinned
  BY Mapped DEF DmaInv, DmaWired, DmaPinned, Counted
<1>4. QED
  BY <1>1, <1>2, <1>3, TypeCorrect, RefCoversCorrect, PTL DEF Spec

-----------------------------------------------------------------------------
(* Exact counts of the frames that fork never shared.                      *)

(* A call that changes no count: the entry at <<pr, va>> keeps its frame,  *)
(* or a device mapping is put there or taken away.                         *)
LEMMA ChangeExact ==
  ASSUME ExactInv, NEW pr \in Procs, NEW va \in Vas, NEW f,
         UNCHANGED <<st, used, ref, cowed>>, st[pr] = "live", f.t # "cow",
         pte'[pr][va] = f,
         \A k \in Procs, v \in Vas : k # pr \/ v # va => pte'[k][v] = pte[k][v],
         \A p \in used \ cowed :
           /\ wir'[p] = 0 => wir[p] = 0 \/ (f.t = "normal" /\ f.pfn = p)
           /\ wir'[p] = 0 /\ pte[pr][va].t \in {"normal", "cow"} /\ pte[pr][va].pfn = p
                => f.t = "normal" /\ f.pfn = p
  PROVE  ExactInv'
<1>1. DeadUnmapped' /\ CowMarked' /\ OneRef'
  BY DEF ExactInv, DeadUnmapped, CowMarked, OneRef
<1>2. KeptMapped'
  <2> SUFFICES ASSUME NEW p \in used \ cowed, wir'[p] = 0
               PROVE  \E k \in Procs, v \in Vas :
                        pte'[k][v].t \in {"normal", "cow"} /\ pte'[k][v].pfn = p
    BY DEF KeptMapped
  <2>1. CASE f.t = "normal" /\ f.pfn = p
    BY <2>1
  <2>2. CASE ~(f.t = "normal" /\ f.pfn = p)
    <3>1. PICK k \in Procs, v \in Vas :
            pte[k][v].t \in {"normal", "cow"} /\ pte[k][v].pfn = p
      BY <2>2 DEF ExactInv, KeptMapped
    <3>2. k # pr \/ v # va
      BY <2>2, <3>1
    <3>3. QED
      BY <3>1, <3>2
  <2>3. QED
    BY <2>1, <2>2
<1>3. QED
  BY <1>1, <1>2 DEF ExactInv

(* Dropping a replaced entry frees an unshared frame and touches no other. *)
LEMMA DropExact ==
  ASSUME TypeOK, RefCovers, ExactInv, NEW pr \in Procs, NEW va \in Vas,
         NEW r \in [Pfns -> Int], NEW p \in Pfns, NEW u,
         p \in FreeOld(u, pte[pr][va]), p \notin cowed,
         p \in used => r[p] = ref[p]
  PROVE  /\ p \in u
         /\ DropRef(r, pte[pr][va])[p] = r[p]
         /\ p \in used => ~(pte[pr][va].t \in {"normal", "cow"} /\ pte[pr][va].pfn = p)
<1>1. p \in u
  BY DEF FreeOld
<1>2. ~(pte[pr][va].t = "normal" /\ pte[pr][va].pfn = p)
  <2> SUFFICES ASSUME pte[pr][va].t = "normal", pte[pr][va].pfn = p PROVE FALSE
    OBVIOUS
  <2>1. p \in used
    BY Mapped DEF Counted
  <2>2. ref[p] = 1
    BY <2>1 DEF ExactInv, OneRef
  <2>3. QED
    BY <2>2 DEF FreeOld
<1>3. pte[pr][va].t = "cow" => pte[pr][va].pfn # p
  BY DEF ExactInv, CowMarked
<1>4. DropRef(r, pte[pr][va])[p] = r[p]
  BY <1>2 DEF DropRef
<1>5. QED
  BY <1>1, <1>2, <1>3, <1>4

(* sys_map with MAP_NONE, sys_iomap.                                       *)
LEMMA ReplaceExact ==
  ASSUME TypeOK, RefCovers, ExactInv, NEW pr \in Procs, NEW va \in Vas,
         st[pr] = "live", pte'[pr][va].t \in {"none", "iomap"},
         \A k \in Procs, v \in Vas : k # pr \/ v # va => pte'[k][v] = pte[k][v],
         ref' = DropRef(ref, pte[pr][va]), used' = FreeOld(used, pte[pr][va]),
         st' = st, wir' = wir, cowed' = cowed
  PROVE  ExactInv'
<1>2. DeadUnmapped' /\ CowMarked'
  BY DEF ExactInv, DeadUnmapped, CowMarked
<1>3. ref \in [Pfns -> Int] /\ used \subseteq Pfns
  BY DEF TypeOK
<1>4. ASSUME NEW p \in used' \ cowed'
      PROVE  /\ p \in used /\ p \in Pfns /\ ref'[p] = ref[p]
             /\ ~(pte[pr][va].t \in {"normal", "cow"} /\ pte[pr][va].pfn = p)
  <2>1. p \in used
    BY DEF FreeOld
  <2>2. QED
    BY <1>3, <2>1, DropExact
<1>5. OneRef'
  BY <1>4 DEF ExactInv, OneRef
<1>6. KeptMapped'
  <2> SUFFICES ASSUME NEW p \in used' \ cowed', wir'[p] = 0
               PROVE  \E k \in Procs, v \in Vas :
                        pte'[k][v].t \in {"normal", "cow"} /\ pte'[k][v].pfn = p
    BY DEF KeptMapped
  <2>1. PICK k \in Procs, v \in Vas :
          pte[k][v].t \in {"normal", "cow"} /\ pte[k][v].pfn = p
    BY <1>4 DEF ExactInv, KeptMapped
  <2>2. k # pr \/ v # va
    BY <1>4, <2>1
  <2>3. QED
    BY <2>1, <2>2
<1>7. QED
  BY <1>2, <1>5, <1>6 DEF ExactInv

(* sys_map with MAP_NEW: the new frame has one reference and one mapping.  *)
LEMMA MapExact ==
  ASSUME TypeOK, RefCovers, ExactInv, NEW pr \in Procs, NEW va \in Vas, NEW w \in BOOLEAN,
         VmMap(pr, va, w)
  PROVE  ExactInv'
<1>1. PICK q \in Pfns \ used :
        /\ pte' = [pte EXCEPT ![pr][va] = [t |-> "normal", pfn |-> q, w |-> w]]
        /\ ref' = DropRef([ref EXCEPT ![q] = 1], pte[pr][va])
        /\ used' = FreeOld(used \cup {q}, pte[pr][va])
        /\ wir' = [wir EXCEPT ![q] = 0]
        /\ cowed' = cowed \ {q}
  BY DEF VmMap
<1> DEFINE f == [t |-> "normal", pfn |-> q, w |-> w]
           r == [ref EXCEPT ![q] = 1]
<1>2. /\ pte'[pr][va] = f
      /\ \A k \in Procs, v \in Vas : k # pr \/ v # va => pte'[k][v] = pte[k][v]
  BY <1>1 DEF TypeOK
<1>3. st' = st /\ st[pr] = "live"
  BY DEF VmMap, Running
<1>4. DeadUnmapped'
  BY <1>2, <1>3 DEF ExactInv, DeadUnmapped
<1>5. CowMarked'
  <2> SUFFICES ASSUME NEW k \in Procs, NEW v \in Vas, pte'[k][v].t = "cow"
               PROVE  pte'[k][v].pfn \in cowed \ {q}
    BY <1>1 DEF CowMarked
  <2>1. k # pr \/ v # va
    BY <1>2
  <2>2. pte'[k][v] = pte[k][v] /\ pte[k][v].pfn \in cowed
    BY <1>2, <2>1 DEF ExactInv, CowMarked
  <2>3. pte[k][v].pfn \in used
    BY <2>2, Mapped DEF Counted
  <2>4. QED
    BY <2>2, <2>3
<1>6. /\ r \in [Pfns -> Int] /\ r[q] = 1 /\ used \subseteq Pfns
      /\ \A p \in used : r[p] = ref[p] /\ wir'[p] = wir[p]
  BY <1>1 DEF TypeOK
<1> HIDE DEF r
<1>7. ASSUME NEW p \in used' \ cowed', p # q
      PROVE  /\ p \in used \ cowed /\ ref'[p] = ref[p]
             /\ ~(pte[pr][va].t \in {"normal", "cow"} /\ pte[pr][va].pfn = p)
  <2>1. p \in used \ cowed
    BY <1>1, <1>7 DEF FreeOld
  <2>2. p \in Pfns /\ p \in FreeOld(used \cup {q}, pte[pr][va])
    BY <1>1, <1>6, <2>1
  <2>3. p \in used /\ p \notin cowed /\ r[p] = ref[p]
    BY <1>6, <2>1
  <2>4. ref' = DropRef(r, pte[pr][va])
    BY <1>1 DEF r
  <2>5. /\ DropRef(r, pte[pr][va])[p] = r[p]
        /\ ~(pte[pr][va].t \in {"normal", "cow"} /\ pte[pr][va].pfn = p)
    BY <1>6, <2>2, <2>3, DropExact, SMTT(30)
  <2>6. QED
    BY <2>1, <2>3, <2>4, <2>5
<1>8. ref'[q] = 1
  <2>1. pte[pr][va].t = "normal" => pte[pr][va].pfn \in used
    BY Mapped DEF Counted
  <2>2. pte[pr][va].t = "normal" => pte[pr][va].pfn # q
    BY <2>1
  <2>3. ref' = DropRef(r, pte[pr][va])
    BY <1>1 DEF r
  <2>4. QED
    BY <1>6, <2>2, <2>3 DEF DropRef
<1>9. OneRef'
  BY <1>7, <1>8 DEF ExactInv, OneRef
<1>10. KeptMapped'
  <2> SUFFICES ASSUME NEW p \in used' \ cowed', wir'[p] = 0
               PROVE  \E k \in Procs, v \in Vas :
                        pte'[k][v].t \in {"normal", "cow"} /\ pte'[k][v].pfn = p
    BY DEF KeptMapped
  <2>1. CASE p = q
    BY <1>2, <2>1
  <2>2. CASE p # q
    <3>1. PICK k \in Procs, v \in Vas :
            pte[k][v].t \in {"normal", "cow"} /\ pte[k][v].pfn = p
      BY <1>6, <1>7, <2>2 DEF ExactInv, KeptMapped
    <3>2. k # pr \/ v # va
      BY <1>7, <2>2, <3>1
    <3>3. QED
      BY <1>2, <3>1, <3>2
  <2>3. QED
    BY <2>1, <2>2
<1>11. QED
  BY <1>4, <1>5, <1>9, <1>10 DEF ExactInv

(* sys_move: the moved entry is now at the destination.                    *)
LEMMA MoveExact ==
  ASSUME TypeOK, RefCovers, ExactInv, ~SelfMove,
         NEW pr \in Procs, NEW dst \in Vas, NEW src \in Vas, VmMove(pr, dst, src)
  PROVE  ExactInv'
<1>1. /\ dst # src
      /\ pte'[pr][dst] = pte[pr][src]
      /\ pte'[pr][src] = None
      /\ \A k \in Procs, v \in Vas :
           k # pr \/ (v # dst /\ v # src) => pte'[k][v] = pte[k][v]
  BY MoveTable
<1>2. /\ ref' = DropRef(ref, pte[pr][dst]) /\ used' = FreeOld(used, pte[pr][dst])
      /\ UNCHANGED <<st, wir, cowed>> /\ st[pr] = "live"
  BY DEF VmMove, Running
<1>3. DeadUnmapped' /\ CowMarked'
  <2>1. DeadUnmapped'
    BY <1>1, <1>2 DEF ExactInv, DeadUnmapped
  <2>2. ASSUME NEW k \in Procs, NEW v \in Vas, pte'[k][v].t = "cow"
        PROVE  pte'[k][v].pfn \in cowed
    <3>1. CASE k = pr /\ v = dst
      BY <1>1, <2>2, <3>1 DEF ExactInv, CowMarked
    <3>2. CASE k = pr /\ v = src
      BY <1>1, <2>2, <3>2 DEF None
    <3>3. CASE k # pr \/ (v # dst /\ v # src)
      BY <1>1, <2>2, <3>3 DEF ExactInv, CowMarked
    <3>4. QED
      BY <3>1, <3>2, <3>3
  <2>3. QED
    BY <1>2, <2>1, <2>2 DEF CowMarked
<1>4. ref \in [Pfns -> Int] /\ used \subseteq Pfns
  BY DEF TypeOK
<1>5. ASSUME NEW p \in used' \ cowed'
      PROVE  /\ p \in used /\ p \in Pfns /\ ref'[p] = ref[p]
             /\ ~(pte[pr][dst].t \in {"normal", "cow"} /\ pte[pr][dst].pfn = p)
  <2>1. p \in used
    BY <1>2 DEF FreeOld
  <2>2. QED
    BY <1>2, <1>4, <2>1, DropExact
<1>6. OneRef'
  BY <1>2, <1>5 DEF ExactInv, OneRef
<1>7. KeptMapped'
  <2> SUFFICES ASSUME NEW p \in used' \ cowed', wir'[p] = 0
               PROVE  \E k \in Procs, v \in Vas :
                        pte'[k][v].t \in {"normal", "cow"} /\ pte'[k][v].pfn = p
    BY DEF KeptMapped
  <2>1. PICK k \in Procs, v \in Vas :
          pte[k][v].t \in {"normal", "cow"} /\ pte[k][v].pfn = p
    BY <1>2, <1>5 DEF ExactInv, KeptMapped
  <2>2. k # pr \/ v # dst
    BY <1>5, <2>1
  <2>3. CASE k = pr /\ v = src
    BY <1>1, <2>1, <2>3
  <2>4. CASE k # pr \/ v # src
    BY <1>1, <2>1, <2>2, <2>4
  <2>5. QED
    BY <2>3, <2>4
<1>8. QED
  BY <1>3, <1>6, <1>7 DEF ExactInv

(* Fork: a frame that stays unshared loses no entry, and the copied page   *)
(* has a frame of its own.                                                 *)
LEMMA ForkExact ==
  ASSUME TypeOK, RefCovers, ExactInv, NEW pr \in Procs, NEW n \in Procs, Fork(pr, n)
  PROVE  ExactInv'
<1> DEFINE V(p) == VasOf(pte[pr], CowVas, {"normal", "cow"}, p)
<1>1. PICK q \in Pfns \ used :
        /\ pte'[n][ZVa] \in {None, [t |-> "normal", pfn |-> q, w |-> TRUE]}
        /\ pte'[n][ZVa] # None => ref'[q] = 1
        /\ used' = IF pte'[n][ZVa] = None THEN used ELSE used \cup {q}
        /\ cowed' = (cowed \ {q}) \cup {p \in Pfns : V(p) # {}}
        /\ \A p \in Pfns : p # q \/ pte'[n][ZVa] = None =>
             ref'[p] = ForkRef(pr)[p] /\ wir'[p] = wir[p]
  BY ForkTable
<1>2. /\ pr # n
      /\ \A v \in Vas : pte'[pr][v] = IF v \in CowVas /\ Shared(pte[pr][v])
                                      THEN l1e_mkcow(pte[pr][v]) ELSE pte[pr][v]
      /\ \A v \in CowVas : pte'[n][v] = IF Shared(pte[pr][v])
                                        THEN l1e_mkcow(pte[pr][v]) ELSE None
      /\ \A k \in Procs \ {pr, n} : pte'[k] = pte[k]
  BY ForkTable
<1>3. /\ st[pr] = "live" /\ st[n] = "free" /\ st'[n] = "live"
      /\ \A k \in Procs \ {n} : st'[k] = st[k]
  BY DEF Fork, Running, TypeOK
<1>4. None.t = "none" /\ \A e : l1e_mkcow(e).pfn = e.pfn /\ l1e_mkcow(e).t = "cow"
  BY DEF None, l1e_mkcow
<1>5. CowVas \in SUBSET Vas /\ ZVa \in Vas /\ used \subseteq Pfns /\ ref \in [Pfns -> Int]
  BY DEF Vas, TypeOK
<1>6. ASSUME NEW v \in CowVas, Shared(pte[pr][v])
      PROVE  pte[pr][v].pfn \in cowed'
  <2>1. v \in V(pte[pr][v].pfn) /\ pte[pr][v].pfn \in Pfns
    BY <1>5, <1>6, Mapped DEF VasOf, Shared, Counted
  <2>2. QED
    BY <1>1, <2>1
<1>7. ASSUME NEW k \in Procs, NEW v \in Vas, pte[k][v].t = "cow"
      PROVE  pte[k][v].pfn \in cowed'
  <2>1. pte[k][v].pfn \in used /\ pte[k][v].pfn \in cowed
    BY <1>7, Mapped DEF Counted, ExactInv, CowMarked
  <2>2. QED
    BY <1>1, <2>1
<1>8. CowMarked'
  <2> SUFFICES ASSUME NEW k \in Procs, NEW v \in Vas, pte'[k][v].t = "cow"
               PROVE  pte'[k][v].pfn \in cowed'
    BY DEF CowMarked
  <2>1. CASE k = n /\ v = ZVa
    BY <1>1, <1>4, <2>1
  <2>2. CASE k = n /\ v # ZVa
    <3>1. v \in CowVas
      BY <2>2 DEF Vas
    <3>2. QED
      BY <1>2, <1>4, <1>6, <2>2, <3>1
  <2>3. CASE k = pr
    <3>1. CASE v \in CowVas /\ Shared(pte[pr][v])
      BY <1>2, <1>4, <1>6, <2>3, <3>1
    <3>2. CASE ~(v \in CowVas /\ Shared(pte[pr][v]))
      BY <1>2, <1>7, <2>3, <3>2
    <3>3. QED
      BY <3>1, <3>2
  <2>4. CASE k # pr /\ k # n
    BY <1>2, <1>7, <2>4
  <2>5. QED
    BY <2>1, <2>2, <2>3, <2>4
<1>9. DeadUnmapped'
  <2> SUFFICES ASSUME NEW k \in Procs, NEW v \in Vas, st'[k] # "live"
               PROVE  pte'[k][v].t \notin {"normal", "cow"}
    BY DEF DeadUnmapped
  <2>1. k # n /\ k # pr
    BY <1>3
  <2>2. QED
    BY <1>2, <1>3, <2>1 DEF ExactInv, DeadUnmapped
<1>10. ASSUME NEW p \in used' \ cowed', ~(p = q /\ pte'[n][ZVa] # None)
       PROVE  /\ p \in used \ cowed /\ V(p) = {}
              /\ ref'[p] = 1 /\ wir'[p] = wir[p]
  <2>1. p \in used \ cowed
    BY <1>1, <1>10
  <2>2. V(p) = {} /\ p \in Pfns
    BY <1>1, <1>5, <2>1
  <2>3. ForkRef(pr)[p] = ref[p] + Cardinality(V(p)) /\ ref[p] = 1
    BY <2>1, <2>2 DEF ForkRef, ExactInv, OneRef
  <2>4. Cardinality(V(p)) = 0
    BY <2>2, FS_EmptySet
  <2>5. ForkRef(pr)[p] = 1
    BY <2>3, <2>4
  <2>6. QED
    BY <1>1, <1>10, <2>1, <2>2, <2>5
<1>11. OneRef'
  BY <1>1, <1>10 DEF OneRef
<1>12. KeptMapped'
  <2> SUFFICES ASSUME NEW p \in used' \ cowed', wir'[p] = 0
               PROVE  \E k \in Procs, v \in Vas :
                        pte'[k][v].t \in {"normal", "cow"} /\ pte'[k][v].pfn = p
    BY DEF KeptMapped
  <2>1. CASE p = q /\ pte'[n][ZVa] # None
    BY <1>1, <1>5, <2>1
  <2>2. CASE ~(p = q /\ pte'[n][ZVa] # None)
    <3>1. PICK k \in Procs, v \in Vas :
            pte[k][v].t \in {"normal", "cow"} /\ pte[k][v].pfn = p
      BY <1>10, <2>2 DEF ExactInv, KeptMapped
    <3>2. k # n
      BY <1>3, <3>1 DEF ExactInv, DeadUnmapped
    <3>3. CASE k = pr
      <4>1. v \notin CowVas
        BY <1>10, <2>2, <3>1, <3>3 DEF VasOf
      <4>2. QED
        BY <1>2, <3>1, <3>3, <4>1
    <3>4. CASE k # pr
      BY <1>2, <3>1, <3>2, <3>4
    <3>5. QED
      BY <3>3, <3>4
  <2>3. QED
    BY <2>1, <2>2
<1>13. QED
  BY <1>8, <1>9, <1>11, <1>12 DEF ExactInv

(* Exit: an unshared frame that stays allocated is one the process did not *)
(* map, or whose last wiring is not its own.                               *)
LEMMA ExitExact ==
  ASSUME TypeOK, RefCovers, RefCovers', DmaInv, ExactInv, NEW pr \in Procs, Exit(pr)
  PROVE  ExactInv'
<1> DEFINE closed == [va \in Vas |-> ClosedEntry(pr, va)]
           D(p) == VasOf(closed, Vas, {"normal"}, p)
<1>1. /\ ref' = [p \in Pfns |-> ref[p] - Cardinality(D(p))]
      /\ used' = {p \in used : Cardinality(D(p)) = 0 \/ ref[p] # Cardinality(D(p))}
      /\ wir' = ClosedWir(pr) /\ cowed' = cowed
      /\ st[pr] = "live"
  BY DEF Exit, Running
<1>2. /\ \A v \in Vas : \/ pte'[pr][v] = None
                        \/ pte'[pr][v] = pte[pr][v] /\ l1e_external(pte[pr][v])
      /\ \A k \in Procs \ {pr} : pte'[k] = pte[k] /\ st'[k] = st[k]
  BY ExitTable DEF Exit, TypeOK
<1>3. \A v \in Vas : pte'[pr][v].t \notin {"normal", "cow"}
  BY <1>2 DEF l1e_external, None
<1>4. DeadUnmapped'
  BY <1>2, <1>3 DEF ExactInv, DeadUnmapped
<1>5. CowMarked'
  <2> SUFFICES ASSUME NEW k \in Procs, NEW v \in Vas, pte'[k][v].t = "cow"
               PROVE  pte'[k][v].pfn \in cowed
    BY <1>1 DEF CowMarked
  <2>1. k # pr
    BY <1>3
  <2>2. QED
    BY <1>2, <2>1 DEF ExactInv, CowMarked
<1>6. ref \in [Pfns -> Int] /\ used \subseteq Pfns
  BY DEF TypeOK
<1>7. \A p \in Pfns : /\ IsFiniteSet(D(p)) /\ Cardinality(D(p)) \in Nat
                      /\ Cardinality(D(p)) = 0 => D(p) = {}
  <2>1. \A p \in Pfns : IsFiniteSet(D(p)) /\ Cardinality(D(p)) \in Nat
    BY VasOfFinite
  <2> HIDE DEF D
  <2>2. QED
    BY <2>1, FS_EmptySet
<1>8. \A p \in Pfns, v \in Vas :
        ClosedEntry(pr, v).t = "normal" /\ ClosedEntry(pr, v).pfn = p => v \in D(p)
  BY DEF VasOf
<1> HIDE DEF D
<1>9. ASSUME NEW p \in used' \ cowed'
      PROVE  p \in used \ cowed /\ p \in Pfns /\ ref[p] = 1 /\ ref'[p] = 1 /\ D(p) = {}
  <2>1. p \in used \ cowed /\ p \in Pfns /\ ref[p] = 1
    BY <1>1, <1>6 DEF ExactInv, OneRef
  <2>2. Cardinality(D(p)) = 0 \/ Cardinality(D(p)) # 1
    BY <1>1, <2>1
  <2>3. Cardinality(Maps(p)') <= ref'[p]
    BY <2>1 DEF RefCovers
  <2>4. Cardinality(Maps(p)') \in Nat
    <3>1. Maps(p)' \subseteq Procs \X Vas
      BY DEF Maps
    <3>2. QED
      BY <3>1, MappingsFinite, SubsetCard
  <2>5. ref'[p] = ref[p] - Cardinality(D(p))
    BY <1>1, <2>1
  <2>6. Cardinality(D(p)) \in Nat
    BY <1>7, <2>1
  <2>7. Cardinality(D(p)) = 0
    BY <2>1, <2>2, <2>3, <2>4, <2>5, <2>6
  <2>8. QED
    BY <1>7, <2>1, <2>5, <2>7
<1>10. OneRef'
  BY <1>9 DEF OneRef
<1>11. KeptMapped'
  <2> SUFFICES ASSUME NEW p \in used' \ cowed', wir'[p] = 0
               PROVE  \E k \in Procs, v \in Vas :
                        pte'[k][v].t \in {"normal", "cow"} /\ pte'[k][v].pfn = p
    BY DEF KeptMapped
  <2>1. p \in used \ cowed /\ p \in Pfns /\ D(p) = {}
    BY <1>9
  <2>2. RecordsOf(pr, p) = {}
    <3> SUFFICES ASSUME NEW v \in Vas, NEW i \in 1 .. MaxDma, i <= dma[pr][<<v, p>>]
                 PROVE  FALSE
      BY DEF RecordsOf
    <3>1. dma[pr][<<v, p>>] \in 0 .. MaxDma
      BY <2>1 DEF DmaInv, DmaRange
    <3>2. dma[pr][<<v, p>>] > 0
      BY <3>1, CountAssumption
    <3>3. pte[pr][v].t = "wired" /\ pte[pr][v].pfn = p
      BY <2>1, <3>2 DEF DmaInv, DmaWired
    <3>4. ClosedWir(pr)[p] = 0
      BY <1>1
    <3>5. ClosedEntry(pr, v) = l1e_mknormal(pte[pr][v])
      BY <3>2, <3>3, <3>4 DEF ClosedEntry
    <3>6. v \in D(p)
      BY <1>8, <2>1, <3>3, <3>5 DEF l1e_mknormal
    <3>7. QED
      BY <2>1, <3>6
  <2>3. Cardinality(RecordsOf(pr, p)) = 0
    BY <2>2, FS_EmptySet
  <2>4. wir'[p] = wir[p] - Cardinality(RecordsOf(pr, p)) /\ wir[p] \in Int
    BY <1>1, <2>1 DEF ClosedWir, Records, RecordsOf, TypeOK
  <2>5. wir[p] = 0
    BY <2>3, <2>4
  <2>6. PICK k \in Procs, v \in Vas :
          pte[k][v].t \in {"normal", "cow"} /\ pte[k][v].pfn = p
    BY <2>1, <2>5 DEF ExactInv, KeptMapped
  <2>7. pte[k][v].t = "normal"
    BY <2>1, <2>6 DEF ExactInv, CowMarked
  <2>8. k # pr
    <3> SUFFICES ASSUME k = pr PROVE FALSE
      OBVIOUS
    <3>1. ClosedEntry(pr, v) = pte[pr][v]
      BY <2>7 DEF ClosedEntry
    <3>2. QED
      BY <1>8, <2>1, <2>6, <2>7, <3>1
  <2>9. QED
    BY <1>2, <2>6, <2>8
<1>12. QED
  BY <1>4, <1>5, <1>10, <1>11 DEF ExactInv

LEMMA NextExact ==
  ASSUME TypeOK, RefCovers, RefCovers', DmaInv, ExactInv, ~SelfMove, [Next]_vars
  PROVE  ExactInv'
<1>0. /\ pte \in [Procs -> [Vas -> Entry]] /\ wir \in [Pfns -> Int] /\ used \subseteq Pfns
      /\ None.t = "none"
  BY DEF TypeOK, None
<1>1. ASSUME UNCHANGED <<st, pte, used, ref, wir, cowed>>
      PROVE  ExactInv'
  BY <1>1 DEF ExactInv, DeadUnmapped, CowMarked, OneRef, KeptMapped
<1>2. ASSUME NEW pr \in Procs, NEW va \in Vas, NEW w \in BOOLEAN, VmChprot(pr, va, w)
      PROVE  ExactInv'
  <2> DEFINE f == [t |-> "normal", pfn |-> pte[pr][va].pfn, w |-> w]
  <2>1. /\ pte' = [pte EXCEPT ![pr][va] = f] /\ f.t = "normal" /\ f.pfn = pte[pr][va].pfn
        /\ UNCHANGED <<st, used, ref, wir, cowed>> /\ st[pr] = "live"
    BY <1>2 DEF VmChprot, Running
  <2> HIDE DEF f
  <2>2. /\ pte'[pr][va] = f
        /\ \A k \in Procs, v \in Vas : k # pr \/ v # va => pte'[k][v] = pte[k][v]
    BY <1>0, <2>1
  <2>3. QED
    BY <2>1, <2>2, ChangeExact
<1>3. ASSUME NEW pr \in Procs, NEW va \in Vas, PmapFault(pr, va)
      PROVE  ExactInv'
  <2> DEFINE f == l1e_mknormal(pte[pr][va])
  <2>1. /\ pte' = [pte EXCEPT ![pr][va] = f] /\ f.t = "normal" /\ f.pfn = pte[pr][va].pfn
        /\ UNCHANGED <<st, used, ref, wir, cowed>> /\ st[pr] = "live"
    BY <1>3 DEF PmapFault, Running, l1e_mknormal
  <2> HIDE DEF f
  <2>2. /\ pte'[pr][va] = f
        /\ \A k \in Procs, v \in Vas : k # pr \/ v # va => pte'[k][v] = pte[k][v]
    BY <1>0, <2>1
  <2>3. QED
    BY <2>1, <2>2, ChangeExact
<1>4. ASSUME NEW pr \in Procs, NEW va \in Vas, Export(pr, va)
      PROVE  ExactInv'
  <2> DEFINE f == l1e_mkwired(pte[pr][va])
             p0 == pte[pr][va].pfn
  <2>1. /\ pte' = [pte EXCEPT ![pr][va] = f] /\ f.t = "wired"
        /\ wir' = [wir EXCEPT ![p0] = @ + 1]
        /\ UNCHANGED <<st, used, ref, cowed>> /\ st[pr] = "live" /\ Counted(pte[pr][va])
    BY <1>4 DEF Export, Running, l1e_mkwired
  <2>2. /\ pte'[pr][va] = f
        /\ \A k \in Procs, v \in Vas : k # pr \/ v # va => pte'[k][v] = pte[k][v]
    BY <1>0, <2>1
  <2>3. p0 \in Pfns
    BY <2>1, Mapped
  <2>4. wir[p0] >= 0
    <3>1. Cardinality(AllRecords(p0)) \in Nat /\ Cardinality(AllRecords(p0)) <= wir[p0]
      BY <2>3, RecordsFinite DEF DmaInv, WirCovers
    <3>2. QED
      BY <1>0, <2>3, <3>1
  <2>5. wir'[p0] # 0 /\ \A p \in Pfns : p # p0 => wir'[p] = wir[p]
    BY <1>0, <2>1, <2>3, <2>4
  <2> HIDE DEF f
  <2>6. \A p \in used \ cowed :
           /\ wir'[p] = 0 => wir[p] = 0
           /\ wir'[p] = 0 => pte[pr][va].pfn # p
    BY <1>0, <2>5
  <2>7. QED
    BY <2>1, <2>2, <2>6, ChangeExact
<1>5. ASSUME NEW pr \in Procs, NEW va \in Vas, Unexport(pr, va)
      PROVE  ExactInv'
  <2>1. CASE pte[pr][va].t # "wired"
    BY <1>1, <1>5, <2>1 DEF Unexport, Halt
  <2>2. CASE pte[pr][va].t = "wired"
    <3> DEFINE p0 == pte[pr][va].pfn
    <3>1. /\ wir' = [wir EXCEPT ![p0] = @ - 1]
          /\ pte' = IF wir[p0] = 1
                    THEN [pte EXCEPT ![pr][va] = l1e_mknormal(pte[pr][va])] ELSE pte
          /\ UNCHANGED <<st, used, ref, cowed>> /\ st[pr] = "live"
      BY <1>5, <2>2 DEF Unexport, Running
    <3>2. p0 \in Pfns
      BY <2>2, Mapped DEF Counted
    <3>3. wir'[p0] = wir[p0] - 1 /\ \A p \in Pfns : p # p0 => wir'[p] = wir[p]
      BY <1>0, <3>1, <3>2
    <3>4. /\ \A k \in Procs, v \in Vas : k # pr \/ v # va => pte'[k][v] = pte[k][v]
          /\ wir[p0] = 1 => pte'[pr][va] = l1e_mknormal(pte[pr][va])
          /\ wir[p0] # 1 => pte'[pr][va] = pte[pr][va]
      BY <1>0, <3>1
    <3>5. /\ pte'[pr][va].t # "cow"
          /\ wir'[p0] = 0 => pte'[pr][va].t = "normal" /\ pte'[pr][va].pfn = p0
      BY <1>0, <2>2, <3>2, <3>3, <3>4 DEF l1e_mknormal
    <3>6. \A p \in used \ cowed :
            wir'[p] = 0 => wir[p] = 0 \/ (pte'[pr][va].t = "normal" /\ pte'[pr][va].pfn = p)
      BY <1>0, <3>3, <3>5
    <3> HIDE DEF p0
    <3>7. QED
      BY <2>2, <3>1, <3>4, <3>5, <3>6, ChangeExact
  <2>3. QED
    BY <2>1, <2>2
<1>6. ASSUME NEW pr \in Procs, NEW va \in Vas, IoUnmap(pr, va)
      PROVE  ExactInv'
  <2>1. /\ UNCHANGED <<st, used, ref, wir, cowed>> /\ st[pr] = "live"
        /\ pte' = IF pte[pr][va].t = "iomap"
                  THEN [pte EXCEPT ![pr][va] = None] ELSE pte
    BY <1>6 DEF IoUnmap, Running
  <2>2. CASE pte[pr][va].t # "iomap"
    BY <1>1, <2>1, <2>2
  <2>3. CASE pte[pr][va].t = "iomap"
    <3>1. /\ pte'[pr][va] = None
          /\ \A k \in Procs, v \in Vas : k # pr \/ v # va => pte'[k][v] = pte[k][v]
      BY <1>0, <2>1, <2>3
    <3>2. QED
      BY <1>0, <2>1, <2>3, <3>1, ChangeExact
  <2>4. QED
    BY <2>2, <2>3
<1>7. ASSUME NEW pr \in Procs, NEW va \in Vas, VmUnmap(pr, va)
      PROVE  ExactInv'
  <2>1. /\ None.t \in {"none", "iomap"} /\ pte' = [pte EXCEPT ![pr][va] = None]
        /\ ref' = DropRef(ref, pte[pr][va]) /\ used' = FreeOld(used, pte[pr][va])
        /\ st' = st /\ wir' = wir /\ cowed' = cowed /\ st[pr] = "live"
    BY <1>0, <1>7 DEF VmUnmap, Running
  <2>2. /\ pte'[pr][va].t \in {"none", "iomap"}
        /\ \A k \in Procs, v \in Vas : k # pr \/ v # va => pte'[k][v] = pte[k][v]
    BY <1>0, <2>1
  <2>3. QED
    BY <2>1, <2>2, ReplaceExact
<1>8. ASSUME NEW pr \in Procs, NEW va \in Vas, NEW m \in Mmio, IoMap(pr, va, m)
      PROVE  ExactInv'
  <2> DEFINE f == [t |-> "iomap", pfn |-> m, w |-> TRUE]
  <2>1. /\ f.t \in {"none", "iomap"} /\ pte' = [pte EXCEPT ![pr][va] = f]
        /\ ref' = DropRef(ref, pte[pr][va]) /\ used' = FreeOld(used, pte[pr][va])
        /\ st' = st /\ wir' = wir /\ cowed' = cowed /\ st[pr] = "live"
    BY <1>8 DEF IoMap, Running
  <2> HIDE DEF f
  <2>2. /\ pte'[pr][va].t \in {"none", "iomap"}
        /\ \A k \in Procs, v \in Vas : k # pr \/ v # va => pte'[k][v] = pte[k][v]
    BY <1>0, <2>1
  <2>3. QED
    BY <2>1, <2>2, ReplaceExact
<1>9. ASSUME NEW pr \in Procs, Reap(pr)
      PROVE  ExactInv'
  <2>1. /\ UNCHANGED <<used, ref, wir, cowed>> /\ st[pr] = "zombie"
        /\ \A v \in Vas : pte'[pr][v] = None
        /\ \A k \in Procs \ {pr} : pte'[k] = pte[k] /\ st'[k] = st[k]
    BY <1>9 DEF Reap, TypeOK
  <2>2. DeadUnmapped' /\ OneRef'
    BY <1>0, <2>1 DEF ExactInv, DeadUnmapped, OneRef
  <2>3. CowMarked'
    BY <1>0, <2>1 DEF ExactInv, CowMarked
  <2>4. KeptMapped'
    <3> SUFFICES ASSUME NEW p \in used \ cowed, wir[p] = 0
                 PROVE  \E k \in Procs, v \in Vas :
                          pte'[k][v].t \in {"normal", "cow"} /\ pte'[k][v].pfn = p
      BY <2>1 DEF KeptMapped
    <3>1. PICK k \in Procs, v \in Vas :
            pte[k][v].t \in {"normal", "cow"} /\ pte[k][v].pfn = p
      BY DEF ExactInv, KeptMapped
    <3>2. k # pr
      BY <2>1, <3>1 DEF ExactInv, DeadUnmapped
    <3>3. QED
      BY <2>1, <3>1, <3>2
  <2>5. QED
    BY <2>2, <2>3, <2>4 DEF ExactInv
<1>10. ASSUME NEW why, Halt(why)
       PROVE  ExactInv'
  BY <1>1, <1>10 DEF Halt
<1>11. CASE UNCHANGED vars
  BY <1>1, <1>11 DEF vars
<1>12. QED
  BY <1>2, <1>3, <1>4, <1>5, <1>6, <1>7, <1>8, <1>9, <1>10, <1>11,
     MapExact, MoveExact, ForkExact, ExitExact
  DEF Next, Halted, OutOfMemory, VmChprotCow, ExportAbsent

(* No leak of what fork never shared: an allocated frame without wirings   *)
(* that was never shared has exactly as many references as mappings, and   *)
(* at least one, so its last user gives it back (vmunmap, vmclear,         *)
(* pmap_uunwire, _hwdev_close).                                            *)
THEOREM RefExactCorrect == ASSUME ~SelfMove PROVE Spec => []RefExact
<1>1. Init => ExactInv
  BY DEF Init, ExactInv, DeadUnmapped, CowMarked, OneRef, KeptMapped, None
<1>2. TypeOK /\ RefCovers /\ RefCovers' /\ DmaInv /\ ExactInv /\ [Next]_vars => ExactInv'
  BY NextExact
<1>3. TypeOK /\ RefCovers /\ ExactInv => RefExact
  <2> SUFFICES ASSUME TypeOK, RefCovers, ExactInv, NEW p \in used \ cowed, wir[p] = 0
               PROVE  Cardinality(Maps(p)) = ref[p] /\ ref[p] > 0
    BY DEF RefExact
  <2>1. p \in Pfns /\ ref[p] = 1
    BY DEF TypeOK, ExactInv, OneRef
  <2>2. PICK k \in Procs, v \in Vas :
          pte[k][v].t \in {"normal", "cow"} /\ pte[k][v].pfn = p
    BY DEF ExactInv, KeptMapped
  <2>3. <<k, v>> \in Maps(p)
    BY <2>2 DEF Maps, Counted
  <2>4. IsFiniteSet(Maps(p)) /\ Cardinality(Maps(p)) \in Nat /\ Cardinality(Maps(p)) <= 1
    BY <2>1, MapsFinite DEF RefCovers
  <2>5. Cardinality(Maps(p)) # 0
    BY <2>3, <2>4, FS_EmptySet
  <2>6. QED
    BY <2>1, <2>4, <2>5
<1>4. Spec => []DmaInv
  BY DmaPinnedCorrect, PTL
<1>5. QED
  BY <1>1, <1>2, <1>3, <1>4, TypeCorrect, RefCoversCorrect, PTL DEF Spec
=============================================================================

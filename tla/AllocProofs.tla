---------------------------- MODULE AllocProofs ----------------------------
(***************************************************************************)
(* Proofs about the allocators that are built on the zones of alloc.c: the *)
(* kernel's and a process's virtual addresses (Vmap), and the pages of     *)
(* memory (PgAlloc), for any size of the address spaces and of memory and  *)
(* any number of orders.                                                   *)
(***************************************************************************)
EXTENDS Vmap, PgAlloc, ListProofs, FiniteSetTheorems, TLAPS

-----------------------------------------------------------------------------
(* Orders.  1 << o, the sizes of order o, and the highest bit of a size.   *)
IsBits(f, n) == f[0] = 1 /\ \A i \in 0 .. n : i < n => f[i + 1] = 2 * f[i]

LEMMA BitsExist == \E f \in [0 .. ORDMAX -> Nat \ {0}] : IsBits(f, ORDMAX)
<1> DEFINE M == {m \in 0 .. ORDMAX : \E f \in [0 .. m -> Nat \ {0}] : IsBits(f, m)}
<1>0. ORDMAX \in Nat \ {0}
  BY ZoneAssumption
<1>1. 0 \in M
  <2> DEFINE f == [i \in 0 .. 0 |-> 1]
  <2>1. f \in [0 .. 0 -> Nat \ {0}] /\ IsBits(f, 0)
    BY DEF IsBits
  <2> HIDE DEF f
  <2>2. QED
    BY <1>0, <2>1
<1>2. \A m \in 0 .. ORDMAX : m \in M /\ m < ORDMAX => m + 1 \in M
  <2> SUFFICES ASSUME NEW m \in 0 .. ORDMAX, m \in M, m < ORDMAX PROVE m + 1 \in M
    OBVIOUS
  <2>1. PICK f \in [0 .. m -> Nat \ {0}] : IsBits(f, m)
    OBVIOUS
  <2> DEFINE g == [i \in 0 .. m + 1 |-> IF i <= m THEN f[i] ELSE 2 * f[m]]
  <2>2. m \in Nat /\ f[m] \in Nat \ {0}
    BY <1>0
  <2>3. g \in [0 .. m + 1 -> Nat \ {0}]
    BY <2>2
  <2>4. IsBits(g, m + 1)
    <3>1. g[0] = 1
      BY <2>1, <2>2 DEF IsBits
    <3>2. ASSUME NEW i \in 0 .. m + 1, i < m + 1 PROVE g[i + 1] = 2 * g[i]
      BY <2>1, <2>2, <3>2 DEF IsBits
    <3>3. QED
      BY <3>1, <3>2 DEF IsBits
  <2> HIDE DEF g
  <2>5. m + 1 \in 0 .. ORDMAX
    BY <1>0, <2>2
  <2>6. QED
    BY <2>3, <2>4, <2>5
<1>3. ORDMAX \in M
  <2> HIDE DEF M
  <2>1. \A m \in 0 .. ORDMAX : m \in M
    BY <1>0, <1>1, <1>2, UpTo
  <2>2. QED
    BY <1>0, <2>1
<1>4. QED
  BY <1>3

LEMMA BitIs ==
  /\ ORDMAX \in Nat \ {0} /\ Bit \in [0 .. ORDMAX -> Nat \ {0}]
  /\ Bit[0] = 1 /\ \A i \in Orders : Bit[i + 1] = 2 * Bit[i]
<1> DEFINE Rec(f) == f = [o \in 0 .. ORDMAX |-> IF o = 0 THEN 1 ELSE 2 * f[o - 1]]
<1>0. ORDMAX \in Nat \ {0}
  BY ZoneAssumption
<1>1. PICK f \in [0 .. ORDMAX -> Nat \ {0}] : IsBits(f, ORDMAX)
  BY BitsExist
<1>2. Rec(f)
  <2>1. \A o \in 0 .. ORDMAX : f[o] = IF o = 0 THEN 1 ELSE 2 * f[o - 1]
    <3> SUFFICES ASSUME NEW o \in 0 .. ORDMAX, o # 0 PROVE f[o] = 2 * f[o - 1]
      BY <1>1 DEF IsBits
    <3>1. o - 1 \in 0 .. ORDMAX /\ o - 1 < ORDMAX /\ o - 1 + 1 = o
      BY <1>0
    <3>2. QED
      BY <1>1, <3>1 DEF IsBits
  <2>2. QED
    BY <2>1
<1>3. Bit = CHOOSE g : Rec(g)
  BY DEF Bit
<1>4. Rec(Bit)
  BY <1>2, <1>3
<1>5. Bit[0] = 1 /\ \A i \in Orders : Bit[i + 1] = 2 * Bit[i]
  <2>0. \A o \in 0 .. ORDMAX : Bit[o] = IF o = 0 THEN 1 ELSE 2 * Bit[o - 1]
    BY <1>4
  <2>1. 0 \in 0 .. ORDMAX
    BY <1>0
  <2>2. Bit[0] = 1
    BY <1>4, <2>1
  <2>3. ASSUME NEW i \in Orders PROVE Bit[i + 1] = 2 * Bit[i]
    <3>1. PICK o \in 0 .. ORDMAX : o = i + 1
      BY <1>0 DEF Orders
    <3>2. o # 0 /\ o - 1 = i
      BY <1>0, <3>1 DEF Orders
    <3>3. Bit[o] = 2 * Bit[o - 1]
      BY <2>0, <3>2
    <3>4. QED
      BY <3>1, <3>2, <3>3
  <2>4. QED
    BY <2>2, <2>3
<1>6. Bit \in [0 .. ORDMAX -> Nat \ {0}]
  <2> DEFINE S == {i \in 0 .. ORDMAX : Bit[i] \in Nat \ {0}}
  <2>1. 0 \in S
    BY <1>0, <1>5
  <2>2. \A k \in 0 .. ORDMAX : k \in S /\ k < ORDMAX => k + 1 \in S
    BY <1>0, <1>5 DEF Orders
  <2>3. \A k \in 0 .. ORDMAX : k \in S
    <3> HIDE DEF S
    <3>1. QED
      BY <1>0, <2>1, <2>2, UpTo
  <2>4. DOMAIN Bit = 0 .. ORDMAX /\ Bit = [o \in DOMAIN Bit |-> Bit[o]]
    BY <1>4
  <2>5. QED
    BY <2>3, <2>4
<1>7. QED
  BY <1>0, <1>5, <1>6

LEMMA BitGrows ==
  ASSUME NEW i \in 0 .. ORDMAX, NEW j \in 0 .. ORDMAX, i <= j
  PROVE  Bit[i] <= Bit[j]
<1> DEFINE S == {k \in 0 .. ORDMAX : i <= k => Bit[i] <= Bit[k]}
<1>0. i \in Nat /\ ORDMAX \in Nat /\ \A k \in 0 .. ORDMAX : Bit[k] \in Nat
  BY BitIs
<1>1. 0 \in S
  BY <1>0
<1>2. \A k \in 0 .. ORDMAX : k \in S /\ k < ORDMAX => k + 1 \in S
  <2> SUFFICES ASSUME NEW k \in 0 .. ORDMAX, k \in S, k < ORDMAX, i <= k + 1
               PROVE  Bit[i] <= Bit[k + 1]
    BY <1>0
  <2>1. k \in Orders /\ k \in Nat /\ Bit[k] \in Nat /\ Bit[k + 1] = 2 * Bit[k]
    BY <1>0, BitIs DEF Orders
  <2>2. QED
    BY <1>0, <2>1
<1>3. \A k \in 0 .. ORDMAX : k \in S
  <2> HIDE DEF S
  <2>1. QED
    BY <1>0, <1>1, <1>2, UpTo
<1>4. QED
  BY <1>3

LEMMA MsbitIs ==
  ASSUME NEW n \in Sizes
  PROVE  msbit(n) \in Orders /\ Bit[msbit(n)] <= n /\ n < Bit[msbit(n) + 1]
<1> DEFINE B == {o \in 0 .. ORDMAX : n < Bit[o]}
<1>0. n \in Nat /\ n >= 1 /\ ORDMAX \in Nat /\ n < Bit[ORDMAX] /\ Bit[0] = 1
  BY BitIs DEF Sizes
<1>1. PICK x \in B : \A y \in B : x <= y
  <2>1. B \in SUBSET Nat /\ B # {}
    BY <1>0
  <2> HIDE DEF B
  <2>2. QED
    BY <2>1, LeastNumber
<1>2. x \in Nat /\ x # 0 /\ x \in 0 .. ORDMAX /\ n < Bit[x]
  BY <1>0, <1>1
<1>3. x - 1 \in Orders /\ x - 1 \in 0 .. ORDMAX /\ x - 1 + 1 = x
  BY <1>0, <1>2 DEF Orders
<1>4. Bit[x - 1] <= n
  BY <1>0, <1>1, <1>3, BitIs
<1>5. \E o \in Orders : Bit[o] <= n /\ n < Bit[o + 1]
  BY <1>2, <1>3, <1>4
<1>6. QED
  BY <1>5 DEF msbit

-----------------------------------------------------------------------------
(* A zone allocator s whose zones z have the entries F[z]: each of them is *)
(* once in the list of its order, and bitmap and amount are right.         *)
ZEntry == [addr : Nat, size : Sizes]
OfOrder(F, o) == {e \in F : msbit(e.size) = o}
Lists(l, S) == l \in Seq(ZEntry) /\ IsInjective(l) /\ ToSet(l) = S
ZLists(s, F) == \A z \in DOMAIN F : \A o \in Orders : Lists(s.zlist[<<z, o>>], OfOrder(F[z], o))
ZBits(s, F) == \A z \in DOMAIN F : s.bmap[z] = {o \in Orders : OfOrder(F[z], o) # {}}
ZFree(s, F) == \A z \in DOMAIN F : s.nfree[z] = Cardinality(Pages(F[z]))
ZType(s, F) ==
  /\ s.zlist = [k \in (DOMAIN F) \X Orders |-> s.zlist[k]]
  /\ s.bmap = [z \in DOMAIN F |-> s.bmap[z]] /\ s.nfree = [z \in DOMAIN F |-> s.nfree[z]]
FType(F) ==
  /\ F = [z \in DOMAIN F |-> F[z]]
  /\ \A z \in DOMAIN F : F[z] \subseteq ZEntry /\ IsFiniteSet(Pages(F[z]))
  /\ \A y, z \in DOMAIN F : y # z => F[y] \cap F[z] = {}
ZRep(s, F) == ZType(s, F) /\ FType(F) /\ ZLists(s, F) /\ ZBits(s, F) /\ ZFree(s, F)

(* Two ranges are apart.                                                   *)
Apart(e, f) == End(e) <= f.addr \/ End(f) <= e.addr

LEMMA EntryFacts ==
  ASSUME NEW e \in ZEntry
  PROVE  /\ e.addr \in Nat /\ e.size \in Nat /\ e.size >= 1 /\ e.size \in Sizes
         /\ End(e) \in Nat /\ End(e) = e.addr + e.size /\ e.addr < End(e)
         /\ e # NoEntry /\ e = Entry(e.addr, e.size)
         /\ IsFiniteSet(Ranges(e)) /\ Cardinality(Ranges(e)) = e.size
         /\ Ranges(e) = {p \in Nat : e.addr <= p /\ p < End(e)}
         /\ e.addr \in Ranges(e) /\ End(e) - 1 \in Ranges(e)
<1>1. e.addr \in Nat /\ e.size \in Nat /\ e.size >= 1 /\ e.size \in Sizes
  BY BitIs DEF ZEntry, Sizes
<1>2. End(e) \in Nat /\ End(e) = e.addr + e.size /\ e.addr < End(e)
  BY <1>1 DEF End
<1>3. e # NoEntry /\ e = Entry(e.addr, e.size)
  BY <1>1 DEF NoEntry, Entry, ZEntry
<1>4. IsFiniteSet(Ranges(e)) /\ Cardinality(Ranges(e)) = e.size
  <2>1. e.addr \in Int /\ End(e) - 1 \in Int /\ ~ (e.addr > End(e) - 1) /\ End(e) - 1 - e.addr + 1 = e.size
    BY <1>1, <1>2
  <2>2. QED
    BY <2>1, FS_Interval DEF Ranges
<1>5. Ranges(e) = {p \in Nat : e.addr <= p /\ p < End(e)}
  BY <1>1, <1>2 DEF Ranges
<1>6. QED
  BY <1>1, <1>2, <1>3, <1>4, <1>5

LEMMA ApartRanges ==
  ASSUME NEW e \in ZEntry, NEW f \in ZEntry
  PROVE  Apart(e, f) <=> Ranges(e) \cap Ranges(f) = {}
<1>1. ASSUME Apart(e, f) PROVE Ranges(e) \cap Ranges(f) = {}
  BY <1>1, EntryFacts DEF Apart
<1>2. ASSUME ~ Apart(e, f) PROVE Ranges(e) \cap Ranges(f) # {}
  <2>1. CASE e.addr <= f.addr
    BY <1>2, <2>1, EntryFacts DEF Apart
  <2>2. CASE ~ (e.addr <= f.addr)
    BY <1>2, <2>2, EntryFacts DEF Apart
  <2>3. QED
    BY <2>1, <2>2
<1>3. QED
  BY <1>1, <1>2

(* The pages of a set of entries with one more, apart from the others.     *)
LEMMA PagesMore ==
  ASSUME NEW S \in SUBSET ZEntry, NEW e \in ZEntry, IsFiniteSet(Pages(S)),
         \A f \in S : Apart(e, f)
  PROVE  /\ IsFiniteSet(Pages(S \cup {e})) /\ Cardinality(Pages(S)) \in Nat
         /\ Cardinality(Pages(S \cup {e})) = Cardinality(Pages(S)) + e.size
<1>1. Pages(S \cup {e}) = Pages(S) \cup Ranges(e)
  BY DEF Pages
<1>2. Pages(S) \cap Ranges(e) = {}
  BY ApartRanges DEF Pages
<1>3. IsFiniteSet(Ranges(e)) /\ Cardinality(Ranges(e)) = e.size /\ e.size \in Nat
  BY EntryFacts
<1>4. Cardinality(Pages(S)) \in Nat
  BY FS_CardinalityType
<1>5. /\ IsFiniteSet(Pages(S) \cup Ranges(e))
      /\ Cardinality(Pages(S) \cup Ranges(e))
           = Cardinality(Pages(S)) + Cardinality(Ranges(e)) - Cardinality(Pages(S) \cap Ranges(e))
  BY <1>3, FS_Union
<1>6. Cardinality(Pages(S) \cap Ranges(e)) = 0
  BY <1>2, FS_EmptySet
<1>7. Cardinality(Pages(S) \cup Ranges(e)) = Cardinality(Pages(S)) + e.size
  BY <1>3, <1>4, <1>5, <1>6
<1>8. QED
  BY <1>1, <1>4, <1>5, <1>7

LEMMA DelistedIs ==
  ASSUME NEW l, NEW S, Lists(l, S), NEW e
  PROVE  Lists(Delisted(l, e), S \ {e})
<1>1. CASE e \in ToSet(l)
  <2> DEFINE k == CHOOSE i \in DOMAIN l : l[i] = e
  <2>1. k \in DOMAIN l /\ l[k] = e
    BY <1>1 DEF ToSet
  <2>2. Delisted(l, e) = RemoveAt(l, k)
    BY <1>1 DEF Delisted
  <2> HIDE DEF k
  <2>3. l \in Seq(ZEntry) /\ IsInjective(l) /\ ToSet(l) = S
    BY DEF Lists
  <2>4. QED
    BY <2>1, <2>2, <2>3, RemoveIndex DEF Lists
<1>2. CASE e \notin ToSet(l)
  BY <1>2 DEF Delisted, Lists
<1>3. QED
  BY <1>1, <1>2

LEMMA EmptyList ==
  ASSUME NEW S, NEW q \in Seq(S)
  PROVE  ToSet(q) = {} <=> q = <<>>
<1>1. q # <<>> => 1 \in DOMAIN q
  OBVIOUS
<1>2. q = <<>> => ToSet(q) = {}
  BY DEF ToSet
<1>3. QED
  BY <1>1, <1>2 DEF ToSet

LEMMA DetachIs ==
  ASSUME NEW s, NEW F, ZRep(s, F), NEW z \in DOMAIN F, NEW e \in F[z],
         \A f \in F[z] : f # e => Apart(e, f)
  PROVE  ZRep(zone_detachentry(s, z, e), [F EXCEPT ![z] = @ \ {e}])
<1> DEFINE t == zone_detachentry(s, z, e)
           G == [F EXCEPT ![z] = @ \ {e}]
           o == msbit(e.size)
           l == [k \in DOMAIN s.zlist |-> Delisted(s.zlist[k], e)]
<1>0. ZType(s, F) /\ FType(F) /\ ZLists(s, F) /\ ZBits(s, F) /\ ZFree(s, F)
  BY DEF ZRep
<1>1. /\ DOMAIN G = DOMAIN F /\ G[z] = F[z] \ {e} /\ \A y \in DOMAIN F : y # z => G[y] = F[y]
      /\ G = [y \in DOMAIN G |-> G[y]]
  BY <1>0 DEF FType
<1>2. e \in ZEntry /\ o \in Orders
  <2>1. e \in ZEntry
    BY <1>0 DEF FType
  <2>2. QED
    BY <2>1, EntryFacts, MsbitIs
<1>3. t.zlist = l /\ t.bmap = [s.bmap EXCEPT ![z] = IF l[<<z, o>>] = <<>> THEN @ \ {o} ELSE @]
      /\ t.nfree = [s.nfree EXCEPT ![z] = @ - e.size]
  BY DEF zone_detachentry
<1> HIDE DEF t, G
<1>4. DOMAIN l = (DOMAIN F) \X Orders /\ \A k \in (DOMAIN F) \X Orders : l[k] = Delisted(s.zlist[k], e)
  BY <1>0 DEF ZType
<1> HIDE DEF l
<1>5. ZLists(t, G)
  <2> SUFFICES ASSUME NEW y \in DOMAIN F, NEW n \in Orders
               PROVE  Lists(l[<<y, n>>], OfOrder(G[y], n))
    BY <1>1, <1>3 DEF ZLists
  <2>1. l[<<y, n>>] = Delisted(s.zlist[<<y, n>>], e)
    BY <1>4
  <2>2. Lists(l[<<y, n>>], OfOrder(F[y], n) \ {e})
    BY <1>0, <2>1, DelistedIs DEF ZLists
  <2>3. OfOrder(F[y], n) \ {e} = OfOrder(G[y], n)
    <3>1. CASE y = z
      BY <1>1, <3>1 DEF OfOrder
    <3>2. CASE y # z
      <4>1. e \notin F[y]
        BY <1>0, <3>2 DEF FType
      <4>2. QED
        BY <1>1, <3>2, <4>1 DEF OfOrder
    <3>3. QED
      BY <3>1, <3>2
  <2>4. QED
    BY <2>2, <2>3
<1>6. ZBits(t, G)
  <2> SUFFICES ASSUME NEW y \in DOMAIN F
               PROVE  t.bmap[y] = {n \in Orders : OfOrder(G[y], n) # {}}
    BY <1>1 DEF ZBits
  <2>1. CASE y # z
    BY <1>0, <1>1, <1>3, <2>1 DEF ZBits, ZType
  <2>2. CASE y = z
    <3>1. t.bmap[z] = IF l[<<z, o>>] = <<>> THEN s.bmap[z] \ {o} ELSE s.bmap[z]
      BY <1>0, <1>3 DEF ZType
    <3>2. l[<<z, o>>] = <<>> <=> OfOrder(G[z], o) = {}
      <4>1. Lists(l[<<z, o>>], OfOrder(G[z], o))
        BY <1>1, <1>2, <1>3, <1>5 DEF ZLists
      <4>2. l[<<z, o>>] \in Seq(ZEntry) /\ ToSet(l[<<z, o>>]) = OfOrder(G[z], o)
        BY <4>1 DEF Lists
      <4>3. ToSet(l[<<z, o>>]) = {} <=> l[<<z, o>>] = <<>>
        BY <4>2, EmptyList
      <4>4. QED
        BY <4>2, <4>3
    <3>3. s.bmap[z] = {n \in Orders : OfOrder(F[z], n) # {}}
      BY <1>0 DEF ZBits
    <3>4. \A n \in Orders : n # o => OfOrder(G[z], n) = OfOrder(F[z], n)
      BY <1>1 DEF OfOrder
    <3>5. OfOrder(F[z], o) # {}
      BY DEF OfOrder
    <3>6. QED
      BY <1>2, <2>2, <3>1, <3>2, <3>3, <3>4, <3>5
  <2>3. QED
    BY <2>1, <2>2
<1>7. IsFiniteSet(Pages(G[z])) /\ Cardinality(Pages(G[z])) = Cardinality(Pages(F[z])) - e.size
  <2>1. F[z] \subseteq ZEntry /\ IsFiniteSet(Pages(F[z]))
    BY <1>0 DEF FType
  <2>2. IsFiniteSet(Pages(G[z]))
    <3>1. Pages(G[z]) \in SUBSET Pages(F[z])
      BY <1>1 DEF Pages
    <3>2. QED
      BY <2>1, <3>1, FS_Subset
  <2>3. /\ Cardinality(Pages(G[z] \cup {e})) = Cardinality(Pages(G[z])) + e.size
        /\ Cardinality(Pages(G[z])) \in Nat
    <3>1. G[z] \in SUBSET ZEntry /\ \A f \in G[z] : Apart(e, f)
      BY <1>1, <2>1
    <3>2. QED
      BY <1>2, <2>2, <3>1, PagesMore
  <2>4. Cardinality(Pages(F[z])) = Cardinality(Pages(G[z])) + e.size
    <3>1. G[z] \cup {e} = F[z]
      BY <1>1
    <3>2. QED
      BY <2>3, <3>1
  <2>5. e.size \in Nat
    BY <1>2, EntryFacts
  <2>6. QED
    BY <2>2, <2>3, <2>4, <2>5
<1>8. ZFree(t, G)
  BY <1>0, <1>1, <1>3, <1>7 DEF ZFree, ZType
<1>9. FType(G)
  <2>1. ASSUME NEW y \in DOMAIN G PROVE G[y] \subseteq ZEntry /\ IsFiniteSet(Pages(G[y]))
    BY <1>0, <1>1, <1>7 DEF FType
  <2>2. ASSUME NEW x \in DOMAIN G, NEW y \in DOMAIN G, x # y PROVE G[x] \cap G[y] = {}
    <3>1. G[x] \subseteq F[x] /\ G[y] \subseteq F[y] /\ F[x] \cap F[y] = {}
      BY <1>0, <1>1, <2>2 DEF FType
    <3>2. QED
      BY <3>1
  <2>3. QED
    BY <1>1, <2>1, <2>2 DEF FType
<1>10. ZType(t, G)
  <2>1. l = [k \in (DOMAIN F) \X Orders |-> l[k]]
    BY <1>4 DEF l
  <2>2. s.bmap = [y \in DOMAIN F |-> s.bmap[y]] /\ s.nfree = [y \in DOMAIN F |-> s.nfree[y]]
    BY <1>0 DEF ZType
  <2>3. t.bmap = [y \in DOMAIN F |-> t.bmap[y]] /\ t.nfree = [y \in DOMAIN F |-> t.nfree[y]]
    BY <1>3, <2>2
  <2>4. QED
    BY <1>1, <1>3, <2>1, <2>3 DEF ZType
<1>11. QED
  BY <1>5, <1>6, <1>8, <1>9, <1>10 DEF ZRep, t, G

LEMMA AttachIs ==
  ASSUME NEW s, NEW F, ZRep(s, F), NEW z \in DOMAIN F, NEW e \in ZEntry,
         \A y \in DOMAIN F : e \notin F[y], \A f \in F[z] : Apart(e, f)
  PROVE  ZRep(zone_attachentry(s, z, e), [F EXCEPT ![z] = @ \cup {e}])
<1> DEFINE t == zone_attachentry(s, z, e)
           G == [F EXCEPT ![z] = @ \cup {e}]
           o == msbit(e.size)
<1>0. ZType(s, F) /\ FType(F) /\ ZLists(s, F) /\ ZBits(s, F) /\ ZFree(s, F)
  BY DEF ZRep
<1>1. /\ DOMAIN G = DOMAIN F /\ G[z] = F[z] \cup {e} /\ \A y \in DOMAIN F : y # z => G[y] = F[y]
      /\ G = [y \in DOMAIN G |-> G[y]]
  BY <1>0 DEF FType
<1>2. o \in Orders
  BY EntryFacts, MsbitIs
<1>3. /\ t.zlist = [s.zlist EXCEPT ![<<z, o>>] = <<e>> \o @]
      /\ t.bmap = [s.bmap EXCEPT ![z] = @ \cup {o}]
      /\ t.nfree = [s.nfree EXCEPT ![z] = @ + e.size]
  BY DEF zone_attachentry
<1> HIDE DEF t, G, o
<1>4. ZLists(t, G)
  <2> SUFFICES ASSUME NEW y \in DOMAIN F, NEW n \in Orders
               PROVE  Lists(t.zlist[<<y, n>>], OfOrder(G[y], n))
    BY <1>1 DEF ZLists
  <2>0. Lists(s.zlist[<<y, n>>], OfOrder(F[y], n)) /\ <<y, n>> \in (DOMAIN F) \X Orders
    BY <1>0 DEF ZLists
  <2>1. CASE y = z /\ n = o
    <3>1. t.zlist[<<y, n>>] = <<e>> \o s.zlist[<<y, n>>]
      BY <1>0, <1>3, <2>0, <2>1 DEF ZType
    <3>2. s.zlist[<<y, n>>] \in Seq(ZEntry) /\ IsInjective(s.zlist[<<y, n>>])
          /\ ToSet(s.zlist[<<y, n>>]) = OfOrder(F[y], n)
      BY <2>0 DEF Lists
    <3>3. e \notin OfOrder(F[y], n)
      BY DEF OfOrder
    <3>4. OfOrder(G[y], n) = OfOrder(F[y], n) \cup {e}
      BY <1>1, <2>1 DEF OfOrder, o
    <3>5. /\ <<e>> \o s.zlist[<<y, n>>] \in Seq(ZEntry) /\ IsInjective(<<e>> \o s.zlist[<<y, n>>])
          /\ ToSet(<<e>> \o s.zlist[<<y, n>>]) = ToSet(s.zlist[<<y, n>>]) \cup {e}
      BY <3>2, <3>3, PushFront
    <3>6. QED
      BY <3>1, <3>2, <3>4, <3>5 DEF Lists
  <2>2. CASE ~ (y = z /\ n = o)
    <3>1. t.zlist[<<y, n>>] = s.zlist[<<y, n>>]
      <4>1. <<y, n>> # <<z, o>>
        BY <2>2
      <4>2. QED
        BY <1>0, <1>3, <2>0, <4>1 DEF ZType
    <3>2. OfOrder(G[y], n) = OfOrder(F[y], n)
      BY <1>1, <2>2 DEF OfOrder, o
    <3>3. QED
      BY <2>0, <3>1, <3>2
  <2>3. QED
    BY <2>1, <2>2
<1>5. ZBits(t, G)
  <2> SUFFICES ASSUME NEW y \in DOMAIN F
               PROVE  t.bmap[y] = {n \in Orders : OfOrder(G[y], n) # {}}
    BY <1>1 DEF ZBits
  <2>1. CASE y # z
    BY <1>0, <1>1, <1>3, <2>1 DEF ZBits, ZType
  <2>2. CASE y = z
    <3>1. t.bmap[z] = s.bmap[z] \cup {o}
      BY <1>0, <1>3 DEF ZType
    <3>2. s.bmap[z] = {n \in Orders : OfOrder(F[z], n) # {}}
      BY <1>0 DEF ZBits
    <3>3. \A n \in Orders : n # o => OfOrder(G[z], n) = OfOrder(F[z], n)
      BY <1>1 DEF OfOrder, o
    <3>4. OfOrder(G[z], o) # {}
      BY <1>1 DEF OfOrder, o
    <3>5. QED
      BY <1>2, <2>2, <3>1, <3>2, <3>3, <3>4
  <2>3. QED
    BY <2>1, <2>2
<1>6. IsFiniteSet(Pages(G[z])) /\ Cardinality(Pages(G[z])) = Cardinality(Pages(F[z])) + e.size
  <2>1. F[z] \in SUBSET ZEntry /\ IsFiniteSet(Pages(F[z]))
    BY <1>0 DEF FType
  <2>2. QED
    BY <1>1, <2>1, PagesMore
<1>7. ZFree(t, G)
  BY <1>0, <1>1, <1>3, <1>6 DEF ZFree, ZType
<1>8. FType(G)
  <2>1. ASSUME NEW y \in DOMAIN G PROVE G[y] \subseteq ZEntry /\ IsFiniteSet(Pages(G[y]))
    BY <1>0, <1>1, <1>6 DEF FType
  <2>2. ASSUME NEW x \in DOMAIN G, NEW y \in DOMAIN G, x # y PROVE G[x] \cap G[y] = {}
    <3>1. F[x] \cap F[y] = {} /\ e \notin F[x] /\ e \notin F[y]
      BY <1>0, <1>1, <2>2 DEF FType
    <3>2. QED
      BY <1>1, <2>2, <3>1
  <2>3. QED
    BY <1>1, <2>1, <2>2 DEF FType
<1>9. ZType(t, G)
  BY <1>0, <1>1, <1>3 DEF ZType
<1>10. QED
  BY <1>4, <1>5, <1>7, <1>8, <1>9 DEF ZRep, t, G

(* zone_findfree returns an entry of the zone that is large enough.        *)
LEMMA FindIs ==
  ASSUME NEW s, NEW F, ZRep(s, F), NEW z \in DOMAIN F, NEW size \in Sizes,
         zone_findfree(s, z, size) # NoEntry
  PROVE  LET e == zone_findfree(s, z, size) IN e \in F[z] /\ e \in ZEntry /\ e.size >= size
<1> DEFINE m == msbit(size)
           minbit == IF size = Bit[m] THEN m ELSE m + 1
           fit == {o \in s.bmap[z] : o >= minbit}
           k == Min(fit)
           e == zone_findfree(s, z, size)
<1>0. ZType(s, F) /\ FType(F) /\ ZLists(s, F) /\ ZBits(s, F) /\ ZFree(s, F)
  BY DEF ZRep
<1>1. fit # {} /\ s.zlist[<<z, k>>] # <<>> /\ e = Head(s.zlist[<<z, k>>])
  BY DEF zone_findfree
<1>2. m \in Orders /\ Bit[m] <= size /\ size < Bit[m + 1] /\ size \in Nat /\ ORDMAX \in Nat
  BY MsbitIs, BitIs DEF Sizes
<1>3. k \in fit
  <2>1. fit \in SUBSET Nat
    BY <1>0, <1>2 DEF ZBits, Orders
  <2> HIDE DEF fit
  <2>2. QED
    BY <1>1, <2>1, LeastNatural
<1>4. k \in Orders /\ k >= minbit
  BY <1>0, <1>3 DEF ZBits
<1>5. e \in OfOrder(F[z], k)
  <2>1. Lists(s.zlist[<<z, k>>], OfOrder(F[z], k))
    BY <1>0, <1>4 DEF ZLists
  <2>2. s.zlist[<<z, k>>] \in Seq(ZEntry) /\ ToSet(s.zlist[<<z, k>>]) = OfOrder(F[z], k)
    BY <2>1 DEF Lists
  <2> HIDE DEF k, e
  <2>3. QED
    BY <1>1, <2>2, PopFront
<1> HIDE DEF e, k
<1>6. e \in F[z] /\ msbit(e.size) = k /\ e \in ZEntry
  BY <1>0, <1>5 DEF OfOrder, FType
<1>7. Bit[k] <= e.size
  BY <1>6, EntryFacts, MsbitIs
<1>8. minbit \in 0 .. ORDMAX /\ size <= Bit[minbit] /\ k \in 0 .. ORDMAX
  <2>1. m + 1 \in 0 .. ORDMAX /\ m \in 0 .. ORDMAX /\ Bit[m + 1] \in Nat
    BY SMTT(30), <1>2, BitIs DEF Orders
  <2>2. QED
    BY <1>2, <1>4, <2>1 DEF Orders
<1> HIDE DEF minbit
<1>9. Bit[minbit] <= Bit[k]
  BY <1>4, <1>8, BitGrows
<1>10. size <= e.size
  <2>1. Bit[minbit] \in Nat /\ Bit[k] \in Nat /\ e.size \in Nat
    BY <1>6, <1>8, BitIs, EntryFacts
  <2>2. QED
    BY <1>2, <1>7, <1>8, <1>9, <2>1
<1>11. QED
  BY <1>6, <1>10, <1>2, EntryFacts DEF e

-----------------------------------------------------------------------------
(* The entries F, free, and H, handed out, are a partition of lo .. hi - 1 *)
(* in which no two free entries are adjacent.                              *)
Space(lo, hi) == lo \in Nat \ {0} /\ hi \in Nat /\ hi - lo \in Sizes
Tiled(F, H, lo, hi) ==
  /\ F \subseteq ZEntry /\ H \subseteq ZEntry /\ F \cap H = {}
  /\ \A e, f \in F \cup H : e # f => Apart(e, f)
  /\ \A e \in F \cup H : lo <= e.addr /\ End(e) <= hi
  /\ \A p \in lo .. hi - 1 : \E e \in F \cup H : p \in Ranges(e)
Coalesced(F) == \A e, f \in F : End(e) # f.addr

(* The neighbours of a range that begins at a or ends before b.            *)
IsPrev(p, F, a) == IF p = NoEntry THEN \A e \in F : End(e) # a ELSE p \in F /\ End(p) = a
IsNext(n, F, b) == IF n = NoEntry THEN \A e \in F : e.addr # b ELSE n \in F /\ n.addr = b

(* A range r that comes back grows by its neighbours.                      *)
LEMMA MergedIs ==
  ASSUME NEW lo, NEW hi, Space(lo, hi), NEW F, NEW H, NEW r \in ZEntry, r \notin H,
         Tiled(F, H \cup {r}, lo, hi), Coalesced(F),
         NEW p, IsPrev(p, F, r.addr), NEW n, IsNext(n, F, End(r))
  PROVE  LET m == Merged(r.addr, r.size, p, n) IN
         /\ m \in ZEntry /\ lo <= m.addr /\ End(m) <= hi /\ (p = n => p = NoEntry)
         /\ m.addr = IF p = NoEntry THEN r.addr ELSE p.addr
         /\ End(m) = IF n = NoEntry THEN End(r) ELSE End(n)
         /\ m.addr <= r.addr /\ End(r) <= End(m)
<1> DEFINE m == Merged(r.addr, r.size, p, n)
           a == IF p = NoEntry THEN r.addr ELSE p.addr
           b == IF n = NoEntry THEN End(r) ELSE End(n)
<1>1. m = Entry(a, b - a)
  BY DEF Merged, End
<1>2. /\ r.addr \in Nat /\ End(r) \in Nat /\ r.addr < End(r) /\ lo <= r.addr /\ End(r) <= hi
      /\ lo \in Nat /\ hi \in Nat /\ hi - lo \in Sizes
  BY EntryFacts DEF Tiled, Space
<1>3. p # NoEntry => /\ p \in ZEntry /\ p \in F /\ lo <= p.addr /\ End(p) = r.addr
                     /\ p.addr \in Nat /\ p.addr < End(p)
  BY EntryFacts DEF IsPrev, Tiled
<1>4. n # NoEntry => /\ n \in ZEntry /\ n \in F /\ End(n) <= hi /\ n.addr = End(r)
                     /\ End(n) \in Nat /\ n.addr < End(n)
  BY EntryFacts DEF IsNext, Tiled
<1>5. /\ a \in Nat /\ b \in Nat /\ lo <= a /\ b <= hi /\ a <= r.addr /\ End(r) <= b /\ a < b
  <2>1. a \in Nat /\ lo <= a /\ a <= r.addr
    BY <1>2, <1>3
  <2>2. b \in Nat /\ b <= hi /\ End(r) <= b
    BY <1>2, <1>4
  <2> HIDE DEF a, b
  <2>3. QED
    BY <1>2, <2>1, <2>2
<1>6. p = n => p = NoEntry
  BY <1>2, <1>3, <1>4
<1> HIDE DEF a, b
<1>7. b - a \in Sizes
  BY <1>2, <1>5, BitIs DEF Sizes
<1>8. m.addr = a /\ m.size = b - a /\ End(m) = b /\ m \in ZEntry
  BY <1>1, <1>5, <1>7 DEF Entry, ZEntry, End
<1>9. QED
  BY <1>5, <1>6, <1>8 DEF a, b

LEMMA FreeTiles ==
  ASSUME NEW lo, NEW hi, Space(lo, hi), NEW F, NEW H, NEW r \in ZEntry, r \notin H,
         Tiled(F, H \cup {r}, lo, hi), Coalesced(F),
         NEW p, IsPrev(p, F, r.addr), NEW n, IsNext(n, F, End(r))
  PROVE  LET m == Merged(r.addr, r.size, p, n)
             G == (F \ {p, n}) \cup {m} IN
         /\ m \in ZEntry /\ m \notin F /\ \A f \in (F \ {p, n}) \cup H : Apart(m, f)
         /\ Tiled(G, H, lo, hi) /\ Coalesced(G)
<1> DEFINE m == Merged(r.addr, r.size, p, n)
           R == F \ {p, n}
           G == R \cup {m}
<1>1. /\ m \in ZEntry /\ lo <= m.addr /\ End(m) <= hi
      /\ m.addr = IF p = NoEntry THEN r.addr ELSE p.addr
      /\ End(m) = IF n = NoEntry THEN End(r) ELSE End(n)
      /\ m.addr <= r.addr /\ End(r) <= End(m)
  BY MergedIs
<1> HIDE DEF m
<1>2. /\ F \subseteq ZEntry /\ H \subseteq ZEntry /\ F \cap H = {} /\ r \notin F
      /\ \A e, f \in F \cup (H \cup {r}) : e # f => Apart(e, f)
      /\ \A e \in F \cup (H \cup {r}) : lo <= e.addr /\ End(e) <= hi
      /\ \A x \in lo .. hi - 1 : \E e \in F \cup (H \cup {r}) : x \in Ranges(e)
  BY DEF Tiled
<1>3. p # NoEntry => p \in F /\ End(p) = r.addr
  BY DEF IsPrev
<1>4. n # NoEntry => n \in F /\ n.addr = End(r)
  BY DEF IsNext
<1>5. \A f \in R \cup H : Apart(m, f)
  <2> SUFFICES ASSUME NEW f \in R \cup H PROVE Apart(m, f)
    OBVIOUS
  <2>1. f \in ZEntry /\ f # r /\ f \in F \cup (H \cup {r}) /\ Apart(r, f)
    BY <1>2
  <2>2. p # NoEntry => Apart(p, f) /\ p \in ZEntry
    BY <1>2, <1>3, <2>1
  <2>3. n # NoEntry => Apart(n, f) /\ n \in ZEntry
    BY <1>2, <1>4, <2>1
  <2>4. /\ f.addr \in Nat /\ End(f) \in Nat /\ f.addr < End(f) /\ m.addr \in Nat /\ End(m) \in Nat
        /\ r.addr \in Nat /\ End(r) \in Nat /\ r.addr < End(r)
    BY <1>1, <2>1, EntryFacts
  <2>5. p # NoEntry => p.addr \in Nat /\ End(p) \in Nat /\ p.addr < End(p)
    BY <2>2, EntryFacts
  <2>6. n # NoEntry => n.addr \in Nat /\ End(n) \in Nat /\ n.addr < End(n)
    BY <2>3, EntryFacts
  <2>7. End(f) <= m.addr \/ r.addr <= f.addr
    BY <1>1, <1>3, <2>1, <2>2, <2>4, <2>5 DEF Apart
  <2>8. End(m) <= f.addr \/ End(f) <= End(r)
    BY <1>1, <1>4, <2>1, <2>3, <2>4, <2>6 DEF Apart
  <2>9. QED
    BY <2>1, <2>4, <2>7, <2>8 DEF Apart
<1>6. m \notin F \cup H
  <2> SUFFICES ASSUME m \in F \cup H PROVE FALSE
    OBVIOUS
  <2>1. Apart(m, r) /\ m.addr \in Nat /\ End(m) \in Nat
    BY <1>1, <1>2, EntryFacts
  <2>2. r.addr \in Nat /\ End(r) \in Nat /\ r.addr < End(r)
    BY EntryFacts
  <2>3. QED
    BY <1>1, <2>1, <2>2 DEF Apart
<1>7. Tiled(G, H, lo, hi)
  <2>1. G \subseteq ZEntry /\ H \subseteq ZEntry /\ G \cap H = {}
    BY <1>1, <1>2, <1>6
  <2>2. ASSUME NEW e \in G \cup H, NEW f \in G \cup H, e # f PROVE Apart(e, f)
    <3>1. CASE e # m /\ f # m
      BY <1>2, <2>2, <3>1
    <3>2. CASE e = m
      BY <1>5, <2>2, <3>2
    <3>3. CASE f = m
      BY <1>5, <2>2, <3>3 DEF Apart
    <3>4. QED
      BY <3>1, <3>2, <3>3
  <2>3. ASSUME NEW e \in G \cup H PROVE lo <= e.addr /\ End(e) <= hi
    BY <1>1, <1>2
  <2>4. ASSUME NEW x \in lo .. hi - 1 PROVE \E e \in G \cup H : x \in Ranges(e)
    <3>1. PICK e \in F \cup (H \cup {r}) : x \in Ranges(e)
      BY <1>2
    <3>2. CASE e \in R \cup H
      BY <3>1, <3>2
    <3>3. CASE e \in {p, n, r}
      <4>0. e \in ZEntry /\ e # NoEntry
        BY <1>2, <3>1, EntryFacts
      <4>1. m.addr <= e.addr /\ End(e) <= End(m)
        <5>1. e.addr \in Nat /\ End(e) \in Nat /\ e.addr < End(e) /\ r.addr \in Nat /\ End(r) \in Nat
              /\ r.addr < End(r) /\ m.addr \in Nat /\ End(m) \in Nat
          BY <1>1, <4>0, EntryFacts
        <5>2. QED
          BY <1>1, <1>3, <1>4, <3>3, <4>0, <5>1
      <4>2. x \in Nat /\ e.addr <= x /\ x < End(e)
        BY <3>1, <4>0, EntryFacts
      <4>3. e.addr \in Nat /\ End(e) \in Nat /\ m.addr \in Nat /\ End(m) \in Nat
        BY <1>1, <4>0, EntryFacts
      <4>4. x \in Ranges(m)
        BY <1>1, <4>1, <4>2, <4>3, EntryFacts
      <4>5. QED
        BY <4>4
    <3>4. QED
      BY <3>1, <3>2, <3>3
  <2>5. QED
    BY <2>1, <2>2, <2>3, <2>4 DEF Tiled
<1>8. Coalesced(G)
  <2>1. ASSUME NEW e \in R PROVE End(e) # m.addr
    <3>1. CASE p = NoEntry
      BY <1>1, <3>1 DEF IsPrev
    <3>2. CASE p # NoEntry
      BY <1>1, <1>3, <3>2 DEF Coalesced
    <3>3. QED
      BY <3>1, <3>2
  <2>2. ASSUME NEW f \in R PROVE End(m) # f.addr
    <3>1. CASE n = NoEntry
      BY <1>1, <3>1 DEF IsNext
    <3>2. CASE n # NoEntry
      BY <1>1, <1>4, <3>2 DEF Coalesced
    <3>3. QED
      BY <3>1, <3>2
  <2>3. End(m) # m.addr
    BY <1>1, EntryFacts
  <2>4. QED
    BY <2>1, <2>2, <2>3 DEF Coalesced
<1>9. QED
  BY <1>1, <1>5, <1>6, <1>7, <1>8 DEF m

(* zone_create takes the neighbours out of the zone and puts the merged    *)
(* range in.                                                               *)
LEMMA CreateIs ==
  ASSUME NEW s, NEW F, ZRep(s, F), NEW z \in DOMAIN F,
         \A e, f \in F[z] : e # f => Apart(e, f),
         NEW p, p # NoEntry => p \in F[z], NEW n, n # NoEntry => n \in F[z],
         p = n => p = NoEntry, NEW addr, NEW size,
         Merged(addr, size, p, n) \in ZEntry,
         \A y \in DOMAIN F : Merged(addr, size, p, n) \notin F[y],
         \A f \in F[z] \ {p, n} : Apart(Merged(addr, size, p, n), f)
  PROVE  ZRep(zone_create(s, z, addr, size, p, n),
              [F EXCEPT ![z] = (@ \ {p, n}) \cup {Merged(addr, size, p, n)}])
<1> DEFINE m == Merged(addr, size, p, n)
           s1 == IF p = NoEntry THEN s ELSE zone_detachentry(s, z, p)
           s2 == IF n = NoEntry THEN s1 ELSE zone_detachentry(s1, z, n)
           F1 == [F EXCEPT ![z] = @ \ {p}]
           F2 == [F1 EXCEPT ![z] = @ \ {n}]
           G == [F2 EXCEPT ![z] = @ \cup {m}]
<1>0. F = [y \in DOMAIN F |-> F[y]] /\ F[z] \subseteq ZEntry
  BY DEF ZRep, FType
<1>1. NoEntry \notin F[z]
  BY <1>0, EntryFacts
<1>2. /\ DOMAIN F1 = DOMAIN F /\ F1[z] = F[z] \ {p} /\ \A y \in DOMAIN F : y # z => F1[y] = F[y]
      /\ F1 = [y \in DOMAIN F |-> F1[y]]
  BY <1>0
<1>3. ZRep(s1, F1)
  <2>1. CASE p = NoEntry
    <3>1. F1 = F
      BY <1>0, <1>1, <2>1
    <3>2. QED
      BY <2>1, <3>1
  <2>2. CASE p # NoEntry
    BY <2>2, DetachIs
  <2>3. QED
    BY <2>1, <2>2
<1> HIDE DEF s1, F1
<1>4. /\ DOMAIN F2 = DOMAIN F /\ F2[z] = F[z] \ {p, n} /\ \A y \in DOMAIN F : y # z => F2[y] = F[y]
  BY <1>2
<1>5. ZRep(s2, F2)
  <2>1. CASE n = NoEntry
    <3>1. F2 = F1
      BY <1>1, <1>2, <2>1
    <3>2. QED
      BY <1>3, <2>1, <3>1
  <2>2. CASE n # NoEntry
    <3>1. n \in F1[z] /\ \A f \in F1[z] : f # n => Apart(n, f)
      BY <1>2, <2>2
    <3>2. ZRep(zone_detachentry(s1, z, n), F2)
      BY <1>2, <1>3, <3>1, DetachIs
    <3>3. QED
      BY <2>2, <3>2
  <2>3. QED
    BY <2>1, <2>2
<1> HIDE DEF s2, F2, m
<1>6. ZRep(zone_attachentry(s2, z, m), G)
  <2>1. m \in ZEntry /\ \A y \in DOMAIN F2 : m \notin F2[y]
    BY <1>4 DEF m
  <2>2. \A f \in F2[z] : Apart(m, f)
    BY <1>4 DEF m
  <2>3. QED
    BY <1>4, <1>5, <2>1, <2>2, AttachIs
<1>7. G = [F EXCEPT ![z] = (@ \ {p, n}) \cup {m}]
  BY <1>0, <1>4 DEF F1, F2
<1>8. zone_create(s, z, addr, size, p, n) = zone_attachentry(s2, z, m)
  BY DEF zone_create, s1, s2, m
<1>9. QED
  BY <1>6, <1>7, <1>8 DEF m

-----------------------------------------------------------------------------
(* An allocator of addresses: the tree has the free entries F and the      *)
(* nodes U of those in use, the zone has F, and F and H are a partition.   *)
FreeNodes(F) == {Node(e, "FREE") : e \in F}
InUse(U) == \A n \in U : n.type # "FREE"
Single(F) == [z \in {0} |-> F]
VIs(v, F, U, H, lo, hi) ==
  /\ v = [tree |-> v.tree, z |-> v.z]
  /\ v.tree = FreeNodes(F) \cup U /\ InUse(U)
  /\ ZRep(v.z, Single(F))
  /\ Tiled(F, H, lo, hi) /\ Coalesced(F)

LEMMA NodeFacts ==
  ASSUME NEW e \in ZEntry, NEW t
  PROVE  EntryOf(Node(e, t)) = e /\ Node(e, t).type = t /\ Node(e, t).addr = e.addr /\ Node(e, t).size = e.size
BY EntryFacts DEF EntryOf, Node, Entry, ZEntry

(* FreeAt is the free entry that has the page, if there is one.            *)
LEMMA FreeAtIs ==
  ASSUME NEW F \in SUBSET ZEntry, NEW U, InUse(U), NEW x
  PROVE  LET e == FreeAt(FreeNodes(F) \cup U, x) IN
         IF e = NoEntry THEN \A f \in F : x \notin Ranges(f) ELSE e \in F /\ x \in Ranges(e)
<1> DEFINE T == FreeNodes(F) \cup U
           S == {n \in vmap_find(T, x) : n.type = "FREE"}
           c == CHOOSE n \in S : TRUE
<1>1. S = {n \in FreeNodes(F) : x \in Ranges(EntryOf(n))}
  <2>1. \A n \in FreeNodes(F) : n.type = "FREE"
    BY NodeFacts DEF FreeNodes
  <2>2. QED
    BY <2>1 DEF vmap_find, InUse
<1>2. FreeAt(T, x) = IF S = {} THEN NoEntry ELSE EntryOf(c)
  BY DEF FreeAt
<1> HIDE DEF S, c
<1>3. CASE S = {}
  <2>1. ASSUME NEW f \in F, x \in Ranges(f) PROVE FALSE
    <3>1. Node(f, "FREE") \in FreeNodes(F) /\ EntryOf(Node(f, "FREE")) = f
      BY NodeFacts DEF FreeNodes
    <3>2. QED
      BY <1>1, <1>3, <2>1, <3>1
  <2>2. QED
    BY <1>2, <1>3, <2>1
<1>4. CASE S # {}
  <2>1. c \in S
    BY <1>4 DEF c
  <2>2. PICK f \in F : c = Node(f, "FREE") /\ x \in Ranges(EntryOf(c))
    BY <1>1, <2>1 DEF FreeNodes
  <2>3. EntryOf(c) = f /\ f # NoEntry
    BY <2>2, NodeFacts, EntryFacts
  <2>4. QED
    BY <1>2, <1>4, <2>2, <2>3
<1>5. QED
  BY <1>3, <1>4

(* vmapzone_free gives a range r back.                                     *)
LEMMA VFreeIs ==
  ASSUME NEW lo, NEW hi, Space(lo, hi), NEW v, NEW F, NEW U, NEW H, NEW r \in ZEntry, r \notin H,
         VIs(v, F, U, H \cup {r}, lo, hi)
  PROVE  \E G : VIs(vmapzone_free(v, r.addr, r.size), G, U, H, lo, hi)
<1> DEFINE nb == VNeighbors(v, r.addr, r.size)
           p == nb.p
           n == nb.n
           m == Merged(r.addr, r.size, p, n)
           gone == {Node(p, "FREE"), Node(n, "FREE")}
           G == (F \ {p, n}) \cup {m}
           w == vmapzone_free(v, r.addr, r.size)
<1>0. /\ v.tree = FreeNodes(F) \cup U /\ InUse(U) /\ ZRep(v.z, Single(F))
      /\ Tiled(F, H \cup {r}, lo, hi) /\ Coalesced(F)
  BY DEF VIs
<1>1. /\ F \in SUBSET ZEntry /\ \A f \in F : Apart(f, r)
      /\ \A e, f \in F : e # f => Apart(e, f)
  BY <1>0 DEF Tiled
<1>2. p = FreeAt(v.tree, r.addr - 1) /\ n = FreeAt(v.tree, End(r))
  BY DEF VNeighbors, End
<1>3. w = [tree |-> (v.tree \ gone) \cup {Node(m, "FREE")}, z |-> zone_create(v.z, 0, r.addr, r.size, p, n)]
  BY DEF vmapzone_free
<1>p. IF p = NoEntry THEN \A f \in F : r.addr - 1 \notin Ranges(f) ELSE p \in F /\ r.addr - 1 \in Ranges(p)
  BY <1>0, <1>1, <1>2, FreeAtIs
<1>n. IF n = NoEntry THEN \A f \in F : End(r) \notin Ranges(f) ELSE n \in F /\ End(r) \in Ranges(n)
  BY <1>0, <1>1, <1>2, FreeAtIs
<1> HIDE DEF nb, w
<1>4. IsPrev(p, F, r.addr)
  <2>1. r.addr \in Nat /\ End(r) \in Nat /\ r.addr < End(r)
    BY EntryFacts
  <2>2. CASE p = NoEntry
    <3>1. ASSUME NEW e \in F, End(e) = r.addr PROVE FALSE
      <4>1. e \in ZEntry
        BY <1>1
      <4>2. r.addr - 1 \in Ranges(e)
        BY <3>1, <4>1, EntryFacts
      <4>3. QED
        BY <1>p, <2>2, <4>2
    <3>2. QED
      BY <2>2, <3>1 DEF IsPrev
  <2>3. CASE p # NoEntry
    <3>1. p \in F /\ r.addr - 1 \in Ranges(p)
      BY <1>p, <2>3
    <3>2. p \in ZEntry /\ Apart(p, r)
      BY <1>1, <3>1
    <3>3. p.addr \in Nat /\ End(p) \in Nat /\ p.addr <= r.addr - 1 /\ r.addr - 1 < End(p)
      BY <3>1, <3>2, EntryFacts
    <3>4. QED
      BY <2>1, <2>3, <3>1, <3>2, <3>3 DEF IsPrev, Apart
  <2>4. QED
    BY <2>2, <2>3
<1>5. IsNext(n, F, End(r))
  <2>1. r.addr \in Nat /\ End(r) \in Nat /\ r.addr < End(r)
    BY EntryFacts
  <2>2. CASE n = NoEntry
    <3>1. ASSUME NEW e \in F, e.addr = End(r) PROVE FALSE
      <4>1. e \in ZEntry
        BY <1>1
      <4>2. End(r) \in Ranges(e)
        BY <3>1, <4>1, EntryFacts
      <4>3. QED
        BY <1>n, <2>2, <4>2
    <3>2. QED
      BY <2>2, <3>1 DEF IsNext
  <2>3. CASE n # NoEntry
    <3>1. n \in F /\ End(r) \in Ranges(n)
      BY <1>n, <2>3
    <3>2. n \in ZEntry /\ Apart(n, r)
      BY <1>1, <3>1
    <3>3. n.addr \in Nat /\ End(n) \in Nat /\ n.addr <= End(r) /\ End(r) < End(n)
      BY <3>1, <3>2, EntryFacts
    <3>4. QED
      BY <2>1, <2>3, <3>1, <3>2, <3>3 DEF IsNext, Apart
  <2>4. QED
    BY <2>2, <2>3
<1> HIDE DEF p, n
<1>6. /\ m \in ZEntry /\ m \notin F /\ \A f \in (F \ {p, n}) \cup H : Apart(m, f)
      /\ Tiled(G, H, lo, hi) /\ Coalesced(G)
  BY <1>0, <1>4, <1>5, FreeTiles
<1>7. p = n => p = NoEntry
  BY <1>0, <1>4, <1>5, MergedIs
<1>8. /\ p # NoEntry => p \in F
      /\ n # NoEntry => n \in F
  BY <1>4, <1>5 DEF IsPrev, IsNext
<1> HIDE DEF m
<1>9. ZRep(w.z, Single(G))
  <2>1. DOMAIN Single(F) = {0} /\ Single(F)[0] = F
    BY DEF Single
  <2>2. ZRep(zone_create(v.z, 0, r.addr, r.size, p, n),
             [Single(F) EXCEPT ![0] = (@ \ {p, n}) \cup {m}])
    <3>1. \A y \in DOMAIN Single(F) : m \notin Single(F)[y]
      BY <1>6, <2>1
    <3>2. 0 \in DOMAIN Single(F)
      BY <2>1
    <3>3. \A f \in Single(F)[0] \ {p, n} : Apart(m, f)
      BY <1>6, <2>1
    <3>4. QED
      BY <1>0, <1>1, <1>6, <1>7, <1>8, <2>1, <3>1, <3>2, <3>3, CreateIs DEF m
  <2>3. [Single(F) EXCEPT ![0] = (@ \ {p, n}) \cup {m}] = Single(G)
    BY DEF Single
  <2>4. QED
    BY <1>3, <2>2, <2>3
<1>10. w.tree = FreeNodes(G) \cup U
  <2>1. \A e \in F \cup {p, n} : \A f \in F : Node(e, "FREE") = Node(f, "FREE") => e = f
    <3> SUFFICES ASSUME NEW e \in F \cup {p, n}, NEW f \in F, Node(e, "FREE") = Node(f, "FREE")
                 PROVE  e = f
      OBVIOUS
    <3>1. e.addr = f.addr /\ e.size = f.size
      BY DEF Node
    <3>2. e \in F \/ e = NoEntry
      BY <1>8
    <3>3. e # NoEntry
      <4>1. f.size \in Nat /\ f.size >= 1
        BY <1>1, EntryFacts
      <4>2. NoEntry.size = 0
        BY DEF NoEntry, Entry
      <4>3. QED
        BY <3>1, <4>1, <4>2
    <3>4. e \in ZEntry /\ f \in ZEntry
      BY <1>1, <3>2, <3>3
    <3>5. e = Entry(e.addr, e.size) /\ f = Entry(f.addr, f.size)
      BY <3>4, EntryFacts
    <3>6. QED
      BY <3>1, <3>5
  <2>2. U \cap gone = {}
    BY <1>0 DEF InUse, Node
  <2>3. FreeNodes(F) \ gone = FreeNodes(F \ {p, n})
    BY <2>1 DEF FreeNodes
  <2>4. FreeNodes(G) = FreeNodes(F \ {p, n}) \cup {Node(m, "FREE")}
    BY DEF FreeNodes
  <2>5. w.tree = ((FreeNodes(F) \cup U) \ gone) \cup {Node(m, "FREE")}
    BY <1>0, <1>3
  <2> HIDE DEF gone, G
  <2>6. QED
    BY <2>2, <2>3, <2>4, <2>5
<1>11. VIs(w, G, U, H, lo, hi)
  BY <1>0, <1>3, <1>6, <1>9, <1>10 DEF VIs
<1>12. QED
  BY <1>11 DEF w

(* vmapzone_alloc takes the first part of a free entry.                    *)
LEMMA VAllocIs ==
  ASSUME NEW lo, NEW hi, Space(lo, hi), NEW v, NEW F, NEW U, NEW H, VIs(v, F, U, H, lo, hi),
         NEW e \in F, NEW size \in Sizes, size <= e.size
  PROVE  LET t == Entry(e.addr, size) IN
         /\ t \in ZEntry /\ t \notin H /\ \A h \in H : Apart(t, h)
         /\ lo <= t.addr /\ End(t) <= hi
         /\ \E G : VIs(vmapzone_alloc(v, e, size), G, U, H \cup {t}, lo, hi)
<1> DEFINE t == Entry(e.addr, size)
           r == Entry(e.addr + size, e.size - size)
           v1 == [tree |-> v.tree \ {Node(e, "FREE")}, z |-> zone_detachentry(v.z, 0, e)]
           F1 == F \ {e}
<1>0. /\ v.tree = FreeNodes(F) \cup U /\ InUse(U) /\ ZRep(v.z, Single(F))
      /\ Tiled(F, H, lo, hi) /\ Coalesced(F)
  BY DEF VIs
<1>1. /\ F \in SUBSET ZEntry /\ H \in SUBSET ZEntry /\ F \cap H = {} /\ e \in ZEntry
      /\ \A f, g \in F \cup H : f # g => Apart(f, g)
      /\ lo <= e.addr /\ End(e) <= hi
  BY <1>0 DEF Tiled
<1>2. /\ e.addr \in Nat /\ e.size \in Nat /\ End(e) = e.addr + e.size /\ size \in Nat /\ size >= 1
      /\ End(e) \in Nat /\ lo \in Nat /\ hi \in Nat
  BY <1>1, EntryFacts, BitIs DEF Sizes, Space
<1>3. t \in ZEntry /\ t.addr = e.addr /\ End(t) = e.addr + size /\ t.size = size
  BY <1>2 DEF ZEntry, Entry, End
<1>4. t \notin H /\ \A h \in H : Apart(t, h)
  <2>1. ASSUME NEW h \in H PROVE Apart(t, h) /\ t # h
    <3>1. Apart(e, h) /\ h \in ZEntry
      BY <1>1
    <3>2. h.addr \in Nat /\ End(h) \in Nat /\ h.addr < End(h)
      BY <3>1, EntryFacts
    <3>3. QED
      BY <1>2, <1>3, <3>1, <3>2 DEF Apart
  <2>2. QED
    BY <2>1
<1>5. lo <= t.addr /\ End(t) <= hi
  BY <1>1, <1>2, <1>3
<1>6. ZRep(v1.z, Single(F1))
  <2>1. DOMAIN Single(F) = {0} /\ Single(F)[0] = F
    BY DEF Single
  <2>2. ZRep(zone_detachentry(v.z, 0, e), [Single(F) EXCEPT ![0] = @ \ {e}])
    <3>1. 0 \in DOMAIN Single(F) /\ e \in Single(F)[0] /\ \A f \in Single(F)[0] : f # e => Apart(e, f)
      BY <1>1, <2>1
    <3>2. QED
      BY <1>0, <3>1, DetachIs
  <2>3. [Single(F) EXCEPT ![0] = @ \ {e}] = Single(F1)
    BY DEF Single
  <2>4. QED
    BY <2>2, <2>3
<1>7. v1.tree = FreeNodes(F1) \cup U
  <2>1. \A f \in F : Node(f, "FREE") = Node(e, "FREE") => f = e
    <3> SUFFICES ASSUME NEW f \in F, Node(f, "FREE") = Node(e, "FREE") PROVE f = e
      OBVIOUS
    <3>1. f \in ZEntry
      BY <1>1
    <3>2. EntryOf(Node(f, "FREE")) = f /\ EntryOf(Node(e, "FREE")) = e
      BY <1>1, <3>1, NodeFacts
    <3>3. QED
      BY <3>2
  <2>2. Node(e, "FREE") \notin U
    BY <1>0 DEF InUse, Node
  <2>3. FreeNodes(F) \ {Node(e, "FREE")} = FreeNodes(F1)
    BY <2>1 DEF FreeNodes
  <2>4. QED
    BY <1>0, <2>2, <2>3
<1>8. Coalesced(F1)
  BY <1>0 DEF Coalesced
<1>v. v1 = [tree |-> v1.tree, z |-> v1.z]
  OBVIOUS
<1> HIDE DEF v1
<1>9. CASE e.size = size
  <2>1. t = e
    BY <1>1, <1>9, EntryFacts
  <2>2. Tiled(F1, H \cup {t}, lo, hi)
    <3>1. F1 \cup (H \cup {t}) = F \cup H /\ F1 \cap (H \cup {t}) = {}
      BY <1>1, <2>1
    <3>2. QED
      BY <1>0, <1>3, <3>1 DEF Tiled
  <2>3. VIs(v1, F1, U, H \cup {t}, lo, hi)
    BY <1>0, <1>6, <1>7, <1>8, <1>v, <2>2 DEF VIs
  <2>4. vmapzone_alloc(v, e, size) = v1
    BY <1>9 DEF vmapzone_alloc, v1
  <2>5. QED
    BY <1>3, <1>4, <1>5, <2>3, <2>4
<1>10. CASE e.size # size
  <2>1. /\ r.size = e.size - size /\ r.addr = e.addr + size /\ End(r) = End(e)
        /\ e.size - size \in Nat /\ e.size - size >= 1
    BY <1>2, <1>10 DEF Entry, End
  <2>2. r \in ZEntry
    <3>1. e.size \in Sizes /\ Bit[ORDMAX] \in Nat
      BY <1>1, EntryFacts, BitIs
    <3>2. e.size - size \in Sizes
      BY <1>2, <2>1, <3>1 DEF Sizes
    <3>3. QED
      BY <1>2, <3>2 DEF ZEntry, Entry
  <2>3. r # t /\ Apart(r, t) /\ Apart(t, r)
    BY <1>2, <1>3, <2>1 DEF Apart
  <2> HIDE DEF r, t
  <2>4. ASSUME NEW f \in (F \cup H) \ {e} PROVE Apart(r, f) /\ Apart(t, f) /\ f # r /\ f # t
    <3>1. f \in ZEntry /\ Apart(e, f)
      BY <1>1
    <3>2. f.addr \in Nat /\ End(f) \in Nat /\ f.addr < End(f)
      BY <3>1, EntryFacts
    <3>3. QED
      BY <1>2, <1>3, <2>1, <3>1, <3>2 DEF Apart
  <2>5. Tiled(F1, (H \cup {t}) \cup {r}, lo, hi)
    <3> DEFINE A == F1 \cup ((H \cup {t}) \cup {r})
    <3>1. F1 \subseteq ZEntry /\ (H \cup {t}) \cup {r} \subseteq ZEntry /\ F1 \cap ((H \cup {t}) \cup {r}) = {}
      BY <1>1, <1>3, <2>2, <2>4
    <3>2. ASSUME NEW f \in A, NEW g \in A, f # g PROVE Apart(f, g)
      <4>0. e \notin H
        BY <1>1
      <4>1. CASE f \in {r, t}
        BY <2>3, <2>4, <3>2, <4>0, <4>1 DEF Apart
      <4>2. CASE g \in {r, t}
        BY <2>3, <2>4, <3>2, <4>0, <4>2 DEF Apart
      <4>3. CASE f \notin {r, t} /\ g \notin {r, t}
        BY <1>1, <3>2, <4>3
      <4>4. QED
        BY <4>1, <4>2, <4>3
    <3>3. ASSUME NEW f \in A PROVE lo <= f.addr /\ End(f) <= hi
      <4>1. CASE f = r
        BY <1>1, <1>2, <2>1, <4>1
      <4>2. CASE f = t
        BY <1>5, <4>2
      <4>3. CASE f \in F \cup H
        BY <1>0, <4>3 DEF Tiled
      <4>4. QED
        BY <4>1, <4>2, <4>3
    <3>4. ASSUME NEW x \in lo .. hi - 1 PROVE \E f \in A : x \in Ranges(f)
      <4>1. PICK f \in F \cup H : x \in Ranges(f)
        BY <1>0 DEF Tiled
      <4>2. CASE f # e
        BY <4>1, <4>2
      <4>3. CASE f = e
        <5>1. x \in Nat /\ e.addr <= x /\ x < End(e)
          BY <1>1, <4>1, <4>3, EntryFacts
        <5>2. CASE x < e.addr + size
          BY <1>2, <1>3, <5>1, <5>2, EntryFacts
        <5>3. CASE ~ (x < e.addr + size)
          BY <1>2, <2>1, <2>2, <5>1, <5>3, EntryFacts
        <5>4. QED
          BY <5>2, <5>3
      <4>4. QED
        BY <4>2, <4>3
    <3> HIDE DEF A
    <3>5. QED
      BY <3>1, <3>2, <3>3, <3>4 DEF Tiled, A
  <2>6. VIs(v1, F1, U, (H \cup {t}) \cup {r}, lo, hi)
    BY <1>0, <1>6, <1>7, <1>8, <1>v, <2>5 DEF VIs
  <2>7. r \notin H \cup {t}
    <3>1. \A h \in H : h \in (F \cup H) \ {e}
      BY <1>1
    <3>2. QED
      BY <2>3, <2>4, <3>1
  <2>8. \E G : VIs(vmapzone_free(v1, r.addr, r.size), G, U, H \cup {t}, lo, hi)
    BY <2>2, <2>6, <2>7, VFreeIs
  <2>9. vmapzone_alloc(v, e, size) = vmapzone_free(v1, r.addr, r.size)
    BY <1>10, <2>1 DEF vmapzone_alloc, v1
  <2>10. QED
    BY <1>3, <1>4, <1>5, <2>8, <2>9 DEF t
<1>11. QED
  BY <1>9, <1>10

(* vmap_init: the whole range is free.                                     *)
LEMMA ZoneInitIs ==
  ASSUME NEW zs
  PROVE  ZRep(ZoneInit(zs), [z \in zs |-> {}])
<1> DEFINE s == ZoneInit(zs)
           N == [z \in zs |-> {}]
<1>1. /\ s.zlist = [k \in zs \X Orders |-> <<>>]
      /\ s.bmap = [z \in zs |-> {}] /\ s.nfree = [z \in zs |-> 0]
  BY DEF ZoneInit
<1>2. DOMAIN N = zs /\ \A z \in zs : N[z] = {}
  OBVIOUS
<1>3. Pages({}) = {} /\ IsFiniteSet(Pages({})) /\ Cardinality(Pages({})) = 0
  BY FS_EmptySet DEF Pages
<1>4. \A o : OfOrder({}, o) = {}
  BY DEF OfOrder
<1>5. Lists(<<>>, {})
  BY DEF Lists, ToSet, IsInjective
<1>6. ZType(s, N)
  BY <1>1, <1>2 DEF ZType
<1>7. FType(N)
  BY <1>2, <1>3 DEF FType
<1>8. ZLists(s, N)
  BY <1>1, <1>2, <1>4, <1>5 DEF ZLists
<1>9. ZBits(s, N) /\ ZFree(s, N)
  BY <1>1, <1>2, <1>3, <1>4 DEF ZBits, ZFree
<1>10. QED
  BY <1>6, <1>7, <1>8, <1>9 DEF ZRep

LEMMA AllFreeIs ==
  ASSUME NEW lo, NEW hi, Space(lo, hi)
  PROVE  \E G : VIs(AllFree(lo, hi), G, {}, {}, lo, hi)
<1> DEFINE r == Entry(lo, hi - lo)
           s == ZoneInit({0})
           v == [tree |-> {}, z |-> s]
<1>1. lo \in Nat /\ hi \in Nat /\ hi - lo \in Sizes /\ hi - lo \in Nat /\ hi - lo >= 1
  BY BitIs DEF Space, Sizes
<1>2. r \in ZEntry /\ r.addr = lo /\ r.size = hi - lo /\ End(r) = hi
  BY <1>1 DEF ZEntry, Entry, End
<1> HIDE DEF r
<1>3. ZRep(s, Single({}))
  BY ZoneInitIs DEF Single
<1>4. Tiled({}, {} \cup {r}, lo, hi)
  <2>1. \A x \in lo .. hi - 1 : x \in Ranges(r)
    BY <1>1, <1>2, EntryFacts
  <2>2. QED
    BY <1>1, <1>2, <2>1 DEF Tiled
<1>5. VIs(v, {}, {}, {} \cup {r}, lo, hi)
  <2>1. v.tree = {} /\ v.z = s /\ v = [tree |-> v.tree, z |-> v.z]
    OBVIOUS
  <2> HIDE DEF v, s
  <2>2. v.tree = FreeNodes({}) \cup {}
    BY <2>1 DEF FreeNodes
  <2>3. QED
    BY <1>3, <1>4, <2>1, <2>2 DEF VIs, InUse, Coalesced
<1> HIDE DEF v
<1>6. \E G : VIs(vmapzone_free(v, r.addr, r.size), G, {}, {}, lo, hi)
  BY <1>2, <1>5, VFreeIs
<1>7. AllFree(lo, hi) = vmapzone_free(v, r.addr, r.size)
  BY <1>2 DEF AllFree, v
<1>8. QED
  BY <1>6, <1>7

(* libmrg's vmap_alloc and vmap_free, which keep a node for what is in     *)
(* use.                                                                    *)
LEMMA UAllocIs ==
  ASSUME NEW lo, NEW hi, Space(lo, hi), NEW v, NEW F, NEW U, NEW H, VIs(v, F, U, H, lo, hi),
         NEW e \in F, NEW n \in Sizes, n <= e.size, NEW type, type # "FREE"
  PROVE  LET t == Entry(e.addr, n) IN
         /\ t \in ZEntry /\ t \notin H /\ \A h \in H : Apart(t, h)
         /\ lo <= t.addr /\ End(t) <= hi
         /\ \E G : VIs(uvmap_alloc(v, e, n, type), G, U \cup {Node(t, type)}, H \cup {t}, lo, hi)
<1> DEFINE t == Entry(e.addr, n)
           v1 == vmapzone_alloc(v, e, n)
           w == uvmap_alloc(v, e, n, type)
<1>1. /\ t \in ZEntry /\ t \notin H /\ \A h \in H : Apart(t, h)
      /\ lo <= t.addr /\ End(t) <= hi
      /\ \E G : VIs(v1, G, U, H \cup {t}, lo, hi)
  BY VAllocIs
<1>2. PICK G : VIs(v1, G, U, H \cup {t}, lo, hi)
  BY <1>1
<1>3. w = [v1 EXCEPT !.tree = @ \cup {Node(t, type)}]
  BY DEF uvmap_alloc
<1> HIDE DEF v1, t, w
<1>4. v1 = [tree |-> v1.tree, z |-> v1.z] /\ v1.tree = FreeNodes(G) \cup U
  BY <1>2 DEF VIs
<1>5. w = [tree |-> v1.tree \cup {Node(t, type)}, z |-> v1.z]
  BY <1>3, <1>4
<1>6. InUse(U \cup {Node(t, type)})
  BY <1>2 DEF VIs, InUse, Node
<1>7. w.tree = FreeNodes(G) \cup (U \cup {Node(t, type)}) /\ w.z = v1.z /\ w = [tree |-> w.tree, z |-> w.z]
  BY <1>4, <1>5
<1>8. VIs(w, G, U \cup {Node(t, type)}, H \cup {t}, lo, hi)
  BY <1>2, <1>6, <1>7 DEF VIs
<1>9. QED
  BY <1>1, <1>8 DEF t, w

LEMMA UFreeIs ==
  ASSUME NEW lo, NEW hi, Space(lo, hi), NEW v, NEW F, NEW U, NEW H, NEW r \in ZEntry, r \notin H,
         VIs(v, F, U, H \cup {r}, lo, hi), NEW n \in U, n.addr = r.addr, n.size = r.size
  PROVE  \E G : VIs(uvmap_free(v, n), G, U \ {n}, H, lo, hi)
<1> DEFINE v1 == [v EXCEPT !.tree = @ \ {n}]
<1>1. v = [tree |-> v.tree, z |-> v.z] /\ v.tree = FreeNodes(F) \cup U /\ InUse(U)
  BY DEF VIs
<1>2. v1 = [tree |-> v.tree \ {n}, z |-> v.z]
  BY <1>1
<1>3. n \notin FreeNodes(F)
  BY <1>1 DEF InUse, FreeNodes, Node
<1> HIDE DEF v1
<1>4. v1.tree = FreeNodes(F) \cup (U \ {n}) /\ v1.z = v.z /\ v1 = [tree |-> v1.tree, z |-> v1.z]
  BY <1>1, <1>2, <1>3
<1>5. InUse(U \ {n})
  BY <1>1 DEF InUse
<1>6. VIs(v1, F, U \ {n}, H \cup {r}, lo, hi)
  BY <1>4, <1>5 DEF VIs
<1>7. \E G : VIs(vmapzone_free(v1, r.addr, r.size), G, U \ {n}, H, lo, hi)
  BY <1>6, VFreeIs
<1>8. uvmap_free(v, n) = vmapzone_free(v1, r.addr, r.size)
  BY DEF uvmap_free, v1
<1>9. QED
  BY <1>7, <1>8

(* What the lists of the zone say of its entries.                          *)
LEMMA ZoneOf ==
  ASSUME NEW s, NEW F, ZRep(s, F)
  PROVE  /\ Entries(s) = UNION {F[z] : z \in DOMAIN F}
         /\ \A z \in DOMAIN F : ZoneConsistent(s, z)
<1> DEFINE L(z, o) == s.zlist[<<z, o>>]
           K == (DOMAIN F) \X Orders
<1>1. /\ DOMAIN s.zlist = K
      /\ \A z \in DOMAIN F : /\ F[z] \subseteq ZEntry
                             /\ \A o \in Orders : Lists(L(z, o), OfOrder(F[z], o))
                             /\ s.bmap[z] = {o \in Orders : OfOrder(F[z], o) # {}}
                             /\ s.nfree[z] = Cardinality(Pages(F[z]))
  BY DEF ZRep, ZType, FType, ZLists, ZBits, ZFree
<1>2. \A z \in DOMAIN F : \A o \in Orders :
        L(z, o) \in Seq(ZEntry) /\ IsInjective(L(z, o)) /\ ToSet(L(z, o)) = OfOrder(F[z], o)
  BY <1>1 DEF Lists
<1>3. ASSUME NEW z \in DOMAIN F PROVE UNION {OfOrder(F[z], o) : o \in Orders} = F[z]
  <2>1. \A e \in F[z] : msbit(e.size) \in Orders
    BY <1>1, EntryFacts, MsbitIs
  <2>2. QED
    BY <2>1 DEF OfOrder
<1>4. ASSUME NEW z \in DOMAIN F PROVE EntriesIn(s, z) = F[z]
  <2>1. {ToSet(s.zlist[<<z, o>>]) : o \in Orders} = {OfOrder(F[z], o) : o \in Orders}
    BY <1>2
  <2>2. QED
    BY <1>3, <2>1 DEF EntriesIn
<1>5. Entries(s) = UNION {F[z] : z \in DOMAIN F}
  <2>1. \A e : e \in Entries(s) <=> \E k \in K : e \in ToSet(s.zlist[k])
    BY <1>1 DEF Entries
  <2>2. \A e : \A z \in DOMAIN F : e \in F[z] <=> \E o \in Orders : e \in ToSet(s.zlist[<<z, o>>])
    BY <1>4 DEF EntriesIn
  <2>3. ASSUME NEW e \in Entries(s) PROVE \E z \in DOMAIN F : e \in F[z]
    <3>1. PICK k \in K : e \in ToSet(s.zlist[k])
      BY <2>1
    <3>2. k[1] \in DOMAIN F /\ k[2] \in Orders /\ k = <<k[1], k[2]>>
      OBVIOUS
    <3>3. QED
      BY <2>2, <3>1, <3>2
  <2>4. ASSUME NEW z \in DOMAIN F, NEW e \in F[z] PROVE e \in Entries(s)
    <3>1. PICK o \in Orders : e \in ToSet(s.zlist[<<z, o>>])
      BY <2>2
    <3>2. <<z, o>> \in K
      OBVIOUS
    <3>3. QED
      BY <2>1, <3>1, <3>2
  <2>5. QED
    BY <2>3, <2>4
<1>6. ASSUME NEW z \in DOMAIN F PROVE ZoneConsistent(s, z)
  <2>1. \A o \in Orders : IsInjective(L(z, o)) /\ \A e \in ToSet(L(z, o)) : msbit(e.size) = o
    BY <1>2 DEF OfOrder
  <2>2. s.bmap[z] = {o \in Orders : L(z, o) # <<>>}
    <3>1. \A o \in Orders : L(z, o) # <<>> <=> OfOrder(F[z], o) # {}
      BY <1>2, EmptyList
    <3>2. QED
      BY <1>1, <3>1
  <2>3. s.nfree[z] = Cardinality(Pages(EntriesIn(s, z)))
    BY <1>1, <1>4
  <2>4. QED
    BY <2>1, <2>2, <2>3 DEF ZoneConsistent
<1>7. QED
  BY <1>5, <1>6

LEMMA PartitionOf ==
  ASSUME NEW lo, NEW hi, Space(lo, hi), NEW v, NEW F, NEW U, NEW H, VIs(v, F, U, H, lo, hi)
  PROVE  /\ ZonePartition(v.z, H, lo .. hi - 1) /\ ZoneConsistent(v.z, 0)
         /\ {EntryOf(n) : n \in {f \in v.tree : f.type = "FREE"}} = Entries(v.z)
         /\ \A e, f \in Entries(v.z) : End(e) # f.addr
<1>0. /\ v.tree = FreeNodes(F) \cup U /\ InUse(U) /\ ZRep(v.z, Single(F))
      /\ Tiled(F, H, lo, hi) /\ Coalesced(F) /\ lo \in Nat /\ hi \in Nat
  BY DEF VIs, Space
<1>1. Entries(v.z) = F /\ ZoneConsistent(v.z, 0)
  <2>1. DOMAIN Single(F) = {0} /\ UNION {Single(F)[z] : z \in {0}} = F
    BY DEF Single
  <2>2. QED
    BY <1>0, <2>1, ZoneOf
<1>2. F \subseteq ZEntry /\ H \subseteq ZEntry /\ F \cap H = {}
  BY <1>0 DEF Tiled
<1>3. \A e, f \in F \cup H : e # f => Ranges(e) \cap Ranges(f) = {}
  BY <1>0, <1>2, ApartRanges DEF Tiled
<1>4. Pages(F \cup H) = lo .. hi - 1
  <2>1. ASSUME NEW e \in F \cup H, NEW x \in Ranges(e) PROVE x \in lo .. hi - 1
    <3>1. e \in ZEntry /\ lo <= e.addr /\ End(e) <= hi
      BY <1>0, <1>2 DEF Tiled
    <3>2. QED
      BY <1>0, <3>1, EntryFacts
  <2>2. \A x \in lo .. hi - 1 : \E e \in F \cup H : x \in Ranges(e)
    BY <1>0 DEF Tiled
  <2>3. QED
    BY <2>1, <2>2 DEF Pages
<1>5. {EntryOf(n) : n \in {f \in v.tree : f.type = "FREE"}} = F
  <2>1. {f \in v.tree : f.type = "FREE"} = FreeNodes(F)
    BY <1>0 DEF InUse, FreeNodes, Node
  <2>2. \A e \in F : EntryOf(Node(e, "FREE")) = e
    BY <1>2, NodeFacts
  <2>3. {EntryOf(n) : n \in FreeNodes(F)} = F
    BY <2>2 DEF FreeNodes
  <2>4. QED
    BY <2>1, <2>3
<1>6. QED
  BY <1>0, <1>1, <1>2, <1>3, <1>4, <1>5 DEF ZonePartition, Coalesced

-----------------------------------------------------------------------------
(* The inductive invariant: the kernel's addresses with the mappings of    *)
(* kvmap, which differ in where they are, and those of a process with the  *)
(* ranges in use.                                                          *)
KEntry(m) == Entry(m.va, PagesOf(m.lob, m.len))
KHeld(hs) == {KEntry(m) : m \in hs}
KRanges(hs) == UNION {Ranges(KEntry(m)) : m \in hs}
UHeld(hs) == {EntryOf(r) : r \in hs}
KInv(v, hs, pte) ==
  /\ \E F : VIs(v, F, {}, KHeld(hs), KVA_SVMAP, KVA_EVMAP)
  /\ hs \subseteq [va : Nat, lob : 0 .. Low - 1, len : KvLens]
  /\ \A m, n \in hs : m # n => KEntry(m) # KEntry(n)
  /\ pte = KRanges(hs)
UInv(v, hs) ==
  /\ \E F : VIs(v, F, hs, UHeld(hs), VM_MINMMAP_ADDRESS, VM_MAXMMAP_ADDRESS)
  /\ hs \subseteq [addr : Nat, size : Sizes, type : {"MEM32", "MMIO"}]
  /\ \A r, s \in hs : r # s => EntryOf(r) # EntryOf(s)
VmapInv == KInv(kv, kheld, kpte) /\ UInv(uv, uheld)

LEMMA Spaces == Space(KVA_SVMAP, KVA_EVMAP) /\ Space(VM_MINMMAP_ADDRESS, VM_MAXMMAP_ADDRESS)
BY VmapAssumption DEF Space

(* The pages from one address on.                                          *)
LEMMA RangeIs ==
  ASSUME NEW e \in ZEntry, NEW a, NEW n, e.addr = a, e.size = n
  PROVE  Ranges(e) = a .. a + n - 1
<1>1. a \in Nat /\ n \in Nat
  BY EntryFacts
<1>2. End(e) - 1 = a + n - 1
  BY <1>1 DEF End
<1>3. QED
  BY <1>2 DEF Ranges

LEMMA KEntryIs ==
  ASSUME NEW m \in [va : Nat, lob : 0 .. Low - 1, len : KvLens]
  PROVE  /\ KEntry(m) \in ZEntry /\ KEntry(m).addr = m.va /\ KEntry(m).size = PagesOf(m.lob, m.len)
         /\ PagesOf(m.lob, m.len) \in Sizes
<1>1. m.va \in Nat /\ m.lob \in 0 .. Low - 1 /\ m.len \in KvLens
  OBVIOUS
<1>2. PagesOf(m.lob, m.len) \in Sizes
  BY <1>1, VmapAssumption
<1>3. QED
  BY <1>1, <1>2 DEF KEntry, Entry, ZEntry

LEMMA UEntryIs ==
  ASSUME NEW r \in [addr : Nat, size : Sizes, type : {"MEM32", "MMIO"}]
  PROVE  /\ EntryOf(r) \in ZEntry /\ EntryOf(r).addr = r.addr /\ EntryOf(r).size = r.size
         /\ r.type # "FREE" /\ r = Node(EntryOf(r), r.type)
<1>1. /\ r.addr \in Nat /\ r.size \in Sizes /\ r.type \in {"MEM32", "MMIO"}
      /\ r = [addr |-> r.addr, size |-> r.size, type |-> r.type]
  OBVIOUS
<1>2. EntryOf(r) = [addr |-> r.addr, size |-> r.size]
  BY DEF EntryOf, Entry
<1>3. r.type # "FREE"
  BY <1>1
<1>4. QED
  BY <1>1, <1>2, <1>3 DEF ZEntry, Node

LEMMA VmapInitInv == VmapInit => VmapInv
<1> SUFFICES ASSUME VmapInit PROVE VmapInv
  OBVIOUS
<1>1. KHeld({}) = {} /\ UHeld({}) = {} /\ KRanges({}) = {}
  BY DEF KHeld, UHeld, KRanges
<1>2. \E F : VIs(kv, F, {}, {}, KVA_SVMAP, KVA_EVMAP)
  BY Spaces, AllFreeIs DEF VmapInit
<1>3. \E F : VIs(uv, F, {}, {}, VM_MINMMAP_ADDRESS, VM_MAXMMAP_ADDRESS)
  BY Spaces, AllFreeIs DEF VmapInit
<1>4. kheld = {} /\ kpte = {} /\ uheld = {}
  BY DEF VmapInit
<1>5. KInv(kv, kheld, kpte)
  BY <1>1, <1>2, <1>4 DEF KInv
<1>6. UInv(uv, uheld)
  BY <1>1, <1>3, <1>4 DEF UInv
<1>7. QED
  BY <1>5, <1>6 DEF VmapInv

(* An entry of the kernel's zone is found and taken.                       *)
LEMMA KvmapInv ==
  ASSUME VmapInv, NEW lob \in 0 .. Low - 1, NEW len \in KvLens, kvmap(lob, len)
  PROVE  VmapInv'
<1> DEFINE n == PagesOf(lob, len)
           e == zone_findfree(kv.z, 0, n)
           x == [va |-> e.addr, lob |-> lob, len |-> len]
           t == Entry(e.addr, n)
<1>1. /\ e # NoEntry /\ kv' = vmapzone_alloc(kv, e, n) /\ kpte' = kpte \cup (e.addr .. e.addr + n - 1)
      /\ kheld' = kheld \cup {x} /\ uv' = uv /\ uheld' = uheld
  BY DEF kvmap, uvVars
<1>2. n \in Sizes
  BY VmapAssumption
<1>3. PICK F : VIs(kv, F, {}, KHeld(kheld), KVA_SVMAP, KVA_EVMAP)
  BY DEF VmapInv, KInv
<1>4. e \in F /\ e \in ZEntry /\ e.size >= n
  <2>1. ZRep(kv.z, Single(F)) /\ 0 \in DOMAIN Single(F) /\ Single(F)[0] = F
    BY <1>3 DEF VIs, Single
  <2>2. QED
    BY <1>1, <1>2, <2>1, FindIs
<1> HIDE DEF e, n
<1>5. n <= e.size
  <2>1. n \in Nat /\ e.size \in Nat
    BY <1>2, <1>4, EntryFacts, BitIs DEF Sizes
  <2>2. QED
    BY <1>4, <2>1
<1>6. /\ t \in ZEntry /\ t \notin KHeld(kheld)
      /\ \E G : VIs(kv', G, {}, KHeld(kheld) \cup {t}, KVA_SVMAP, KVA_EVMAP)
  <2>1. Space(KVA_SVMAP, KVA_EVMAP)
    BY Spaces
  <2>2. /\ t \in ZEntry /\ t \notin KHeld(kheld)
        /\ \E G : VIs(vmapzone_alloc(kv, e, n), G, {}, KHeld(kheld) \cup {t}, KVA_SVMAP, KVA_EVMAP)
    BY <1>2, <1>3, <1>4, <1>5, <2>1, VAllocIs
  <2>3. QED
    BY <1>1, <2>2
<1>7. x \in [va : Nat, lob : 0 .. Low - 1, len : KvLens] /\ KEntry(x) = t
  <2>1. e.addr \in Nat
    BY <1>4, EntryFacts
  <2>2. QED
    BY <2>1 DEF KEntry, n
<1> HIDE DEF x, t
<1>8. KHeld(kheld') = KHeld(kheld) \cup {t}
  BY <1>1, <1>7 DEF KHeld
<1>9. \A m, k \in kheld' : m # k => KEntry(m) # KEntry(k)
  <2>1. \A m \in kheld : KEntry(m) # t
    BY <1>6 DEF KHeld
  <2>2. QED
    BY <1>1, <1>7, <2>1 DEF VmapInv, KInv
<1>10. kpte' = KRanges(kheld')
  <2>1. Ranges(KEntry(x)) = e.addr .. e.addr + n - 1
    <3>1. t.addr = e.addr /\ t.size = n
      BY DEF t, Entry
    <3>2. QED
      BY <1>6, <1>7, <3>1, RangeIs
  <2>2. KRanges(kheld') = KRanges(kheld) \cup Ranges(KEntry(x))
    BY <1>1 DEF KRanges
  <2>3. QED
    BY <1>1, <2>1, <2>2 DEF VmapInv, KInv
<1>11. kheld' \subseteq [va : Nat, lob : 0 .. Low - 1, len : KvLens]
  BY <1>1, <1>7 DEF VmapInv, KInv
<1>12. QED
  BY <1>1, <1>6, <1>8, <1>9, <1>10, <1>11 DEF VmapInv, KInv, UInv

LEMMA KvunmapInv ==
  ASSUME VmapInv, NEW m \in kheld, kvunmap(m)
  PROVE  VmapInv'
<1> DEFINE r == KEntry(m)
           R == kheld \ {m}
<1>1. /\ kpte' = kpte \ (m.va .. m.va + PagesOf(m.lob, m.len) - 1)
      /\ kv' = vmapzone_free(kv, m.va, PagesOf(m.lob, m.len))
      /\ kheld' = R /\ uv' = uv /\ uheld' = uheld
  BY DEF kvunmap, uvVars, KvEnd, PagesOf
<1>2. kheld \subseteq [va : Nat, lob : 0 .. Low - 1, len : KvLens]
  BY DEF VmapInv, KInv
<1>3. r \in ZEntry /\ r.addr = m.va /\ r.size = PagesOf(m.lob, m.len)
  BY <1>2, KEntryIs
<1>4. r \notin KHeld(R) /\ KHeld(R) \cup {r} = KHeld(kheld)
  <2>1. \A k \in R : KEntry(k) # r
    BY DEF VmapInv, KInv
  <2>2. QED
    BY <2>1 DEF KHeld
<1>5. PICK F : VIs(kv, F, {}, KHeld(kheld), KVA_SVMAP, KVA_EVMAP)
  BY DEF VmapInv, KInv
<1>6. \E G : VIs(kv', G, {}, KHeld(R), KVA_SVMAP, KVA_EVMAP)
  <2> HIDE DEF r, R
  <2>1. VIs(kv, F, {}, KHeld(R) \cup {r}, KVA_SVMAP, KVA_EVMAP)
    BY <1>4, <1>5
  <2>2. \E G : VIs(vmapzone_free(kv, r.addr, r.size), G, {}, KHeld(R), KVA_SVMAP, KVA_EVMAP)
    BY <1>3, <1>4, <2>1, Spaces, VFreeIs
  <2>3. QED
    BY <1>1, <1>3, <2>2
<1>7. kpte' = KRanges(R)
  <2>1. Ranges(r) = m.va .. m.va + PagesOf(m.lob, m.len) - 1
    BY <1>3, RangeIs
  <2>2. \A k \in R : Ranges(KEntry(k)) \cap Ranges(r) = {}
    <3> SUFFICES ASSUME NEW k \in R PROVE Ranges(KEntry(k)) \cap Ranges(r) = {}
      OBVIOUS
    <3>1. KEntry(k) \in KHeld(kheld) /\ r \in KHeld(kheld) /\ KEntry(k) # r
      BY <1>4 DEF KHeld
    <3>2. Apart(KEntry(k), r)
      BY <1>5, <3>1 DEF VIs, Tiled
    <3>3. KEntry(k) \in ZEntry
      BY <1>2, KEntryIs
    <3>4. QED
      BY <1>3, <3>2, <3>3, ApartRanges
  <2>3. KRanges(kheld) = KRanges(R) \cup Ranges(r)
    BY DEF KRanges
  <2>4. KRanges(R) \cap Ranges(r) = {}
    BY <2>2 DEF KRanges
  <2>5. QED
    BY <1>1, <2>1, <2>3, <2>4 DEF VmapInv, KInv
<1>8. QED
  BY <1>1, <1>2, <1>6, <1>7 DEF VmapInv, KInv, UInv

(* A range of the process is taken for memory or a device.                 *)
LEMMA UTaken ==
  ASSUME UInv(uv, uheld), NEW n \in Sizes, NEW type \in {"MEM32", "MMIO"},
         zone_findfree(uv.z, 0, n) # NoEntry
  PROVE  LET e == zone_findfree(uv.z, 0, n)
             r == Node(Entry(e.addr, n), type) IN
         UInv(uvmap_alloc(uv, e, n, type), uheld \cup {r}) /\ r \notin uheld
<1> DEFINE e == zone_findfree(uv.z, 0, n)
           t == Entry(e.addr, n)
           r == Node(t, type)
<1>1. PICK F : VIs(uv, F, uheld, UHeld(uheld), VM_MINMMAP_ADDRESS, VM_MAXMMAP_ADDRESS)
  BY DEF UInv
<1>2. e \in F /\ e \in ZEntry /\ e.size >= n
  <2>1. ZRep(uv.z, Single(F)) /\ 0 \in DOMAIN Single(F) /\ Single(F)[0] = F
    BY <1>1 DEF VIs, Single
  <2>2. QED
    BY <2>1, FindIs
<1> HIDE DEF e
<1>3. n <= e.size
  <2>1. n \in Nat /\ e.size \in Nat
    BY <1>2, EntryFacts, BitIs DEF Sizes
  <2>2. QED
    BY <1>2, <2>1
<1>4. /\ t \in ZEntry /\ t \notin UHeld(uheld)
      /\ \E G : VIs(uvmap_alloc(uv, e, n, type), G, uheld \cup {r}, UHeld(uheld) \cup {t},
                    VM_MINMMAP_ADDRESS, VM_MAXMMAP_ADDRESS)
  <2>1. Space(VM_MINMMAP_ADDRESS, VM_MAXMMAP_ADDRESS) /\ type # "FREE"
    BY Spaces
  <2>2. QED
    BY ZenonT(40), <1>1, <1>2, <1>3, <2>1, UAllocIs
<1>5. r \in [addr : Nat, size : Sizes, type : {"MEM32", "MMIO"}] /\ EntryOf(r) = t
  <2>1. e.addr \in Nat
    BY <1>2, EntryFacts
  <2>2. QED
    BY <2>1 DEF Node, Entry, EntryOf
<1> HIDE DEF r, t
<1>6. UHeld(uheld \cup {r}) = UHeld(uheld) \cup {t}
  BY <1>5 DEF UHeld
<1>7. \A a \in uheld : EntryOf(a) # t
  BY <1>4 DEF UHeld
<1>8. UInv(uvmap_alloc(uv, e, n, type), uheld \cup {r})
  <2>1. \A a, b \in uheld \cup {r} : a # b => EntryOf(a) # EntryOf(b)
    BY <1>5, <1>7 DEF UInv
  <2>2. uheld \cup {r} \subseteq [addr : Nat, size : Sizes, type : {"MEM32", "MMIO"}]
    BY <1>5 DEF UInv
  <2>3. QED
    BY <1>4, <1>6, <2>1, <2>2 DEF UInv
<1>9. QED
  BY <1>5, <1>7, <1>8 DEF e, r, t

LEMMA UGiven ==
  ASSUME NEW v, NEW hs, UInv(v, hs), NEW r \in hs
  PROVE  UInv(uvmap_free(v, r), hs \ {r})
<1> DEFINE t == EntryOf(r)
           R == hs \ {r}
<1>1. PICK F : VIs(v, F, hs, UHeld(hs), VM_MINMMAP_ADDRESS, VM_MAXMMAP_ADDRESS)
  BY DEF UInv
<1>2. hs \subseteq [addr : Nat, size : Sizes, type : {"MEM32", "MMIO"}]
  BY DEF UInv
<1>3. t \in ZEntry /\ t.addr = r.addr /\ t.size = r.size
  BY <1>2, UEntryIs
<1>4. t \notin UHeld(R) /\ UHeld(R) \cup {t} = UHeld(hs)
  <2>1. \A k \in R : EntryOf(k) # t
    BY DEF UInv
  <2>2. QED
    BY <2>1 DEF UHeld
<1> HIDE DEF t
<1>5. \E G : VIs(uvmap_free(v, r), G, R, UHeld(R), VM_MINMMAP_ADDRESS, VM_MAXMMAP_ADDRESS)
  <2>1. VIs(v, F, hs, UHeld(R) \cup {t}, VM_MINMMAP_ADDRESS, VM_MAXMMAP_ADDRESS)
    BY <1>1, <1>4
  <2>2. QED
    BY <1>3, <1>4, <2>1, Spaces, UFreeIs
<1>6. QED
  BY <1>2, <1>5 DEF UInv

LEMMA VmapStep ==
  ASSUME VmapInv, [VmapNext]_vmapVars
  PROVE  VmapInv'
<1>1. ASSUME NEW n \in DmaPages, dma32_alloc(n) PROVE VmapInv'
  <2> DEFINE e == zone_findfree(uv.z, 0, n)
             r == Node(Entry(e.addr, n), "MEM32")
             v == uvmap_alloc(uv, e, n, "MEM32")
  <2>1. e # NoEntry /\ kv' = kv /\ kheld' = kheld /\ kpte' = kpte
    BY <1>1 DEF dma32_alloc, kvVars
  <2>2. UInv(v, uheld \cup {r}) /\ r \notin uheld
    <3>1. n \in Sizes
      BY VmapAssumption
    <3>2. QED
      BY <2>1, <3>1, UTaken DEF VmapInv
  <2>3. CASE uv' = v /\ uheld' = uheld \cup {r}
    BY <2>1, <2>2, <2>3 DEF VmapInv
  <2>4. CASE uv' = uvmap_free(v, r) /\ uheld' = uheld
    <3> HIDE DEF v, r
    <3>1. UInv(uvmap_free(v, r), (uheld \cup {r}) \ {r})
      BY <2>2, UGiven
    <3>2. (uheld \cup {r}) \ {r} = uheld
      BY <2>2
    <3>3. QED
      BY <2>1, <2>4, <3>1, <3>2 DEF VmapInv
  <2>5. QED
    BY <1>1, <2>3, <2>4 DEF dma32_alloc
<1>2. ASSUME NEW n \in DmaPages, diomap(n) PROVE VmapInv'
  <2> DEFINE e == zone_findfree(uv.z, 0, n)
             r == Node(Entry(e.addr, n), "MMIO")
  <2>1. /\ e # NoEntry /\ kv' = kv /\ kheld' = kheld /\ kpte' = kpte
        /\ uv' = uvmap_alloc(uv, e, n, "MMIO") /\ uheld' = uheld \cup {r}
    BY <1>2 DEF diomap, kvVars
  <2>2. UInv(uvmap_alloc(uv, e, n, "MMIO"), uheld \cup {r})
    <3>1. n \in Sizes
      BY VmapAssumption
    <3>2. QED
      BY <2>1, <3>1, UTaken DEF VmapInv
  <2>3. QED
    BY <2>1, <2>2 DEF VmapInv
<1>3. ASSUME NEW r \in uheld, dma32_free(r) PROVE VmapInv'
  <2>1. kv' = kv /\ kheld' = kheld /\ kpte' = kpte /\ uv' = uvmap_free(uv, r) /\ uheld' = uheld \ {r}
    BY <1>3 DEF dma32_free, kvVars
  <2>2. UInv(uvmap_free(uv, r), uheld \ {r})
    BY UGiven DEF VmapInv
  <2>3. QED
    BY <2>1, <2>2 DEF VmapInv
<1>4. CASE UNCHANGED vmapVars
  BY <1>4 DEF vmapVars, VmapInv, KInv, UInv
<1>5. QED
  BY <1>1, <1>2, <1>3, <1>4, KvmapInv, KvunmapInv DEF VmapNext, KvNext, UvNext

LEMMA VmapSoundOf == VmapInv => VmapSound
<1> SUFFICES ASSUME VmapInv PROVE VmapSound
  OBVIOUS
<1>1. PICK F : VIs(kv, F, {}, KHeld(kheld), KVA_SVMAP, KVA_EVMAP)
  BY DEF VmapInv, KInv
<1>2. PICK G : VIs(uv, G, uheld, UHeld(uheld), VM_MINMMAP_ADDRESS, VM_MAXMMAP_ADDRESS)
  BY DEF VmapInv, UInv
<1>3. /\ ZonePartition(kv.z, KHeld(kheld), KvaPages) /\ ZoneConsistent(kv.z, 0)
      /\ {EntryOf(n) : n \in {f \in kv.tree : f.type = "FREE"}} = Entries(kv.z)
      /\ \A e, f \in Entries(kv.z) : End(e) # f.addr
  BY <1>1, Spaces, PartitionOf DEF KvaPages
<1>4. /\ ZonePartition(uv.z, UHeld(uheld), MmapPages) /\ ZoneConsistent(uv.z, 0)
      /\ {EntryOf(n) : n \in {f \in uv.tree : f.type = "FREE"}} = Entries(uv.z)
      /\ \A e, f \in Entries(uv.z) : End(e) # f.addr
  BY <1>2, Spaces, PartitionOf DEF MmapPages
<1>5. ASSUME NEW m \in kheld, NEW n \in kheld, m.va = n.va PROVE m = n
  <2> SUFFICES ASSUME m # n PROVE FALSE
    OBVIOUS
  <2>1. KEntry(m) \in ZEntry /\ KEntry(n) \in ZEntry /\ KEntry(m).addr = KEntry(n).addr
    BY <1>5, KEntryIs DEF VmapInv, KInv
  <2>2. KEntry(m) # KEntry(n) /\ KEntry(m) \in KHeld(kheld) /\ KEntry(n) \in KHeld(kheld)
    BY DEF VmapInv, KInv, KHeld
  <2>3. Apart(KEntry(m), KEntry(n))
    BY <1>1, <2>2 DEF VIs, Tiled
  <2>4. QED
    BY <2>1, <2>3, EntryFacts DEF Apart
<1>6. ASSUME NEW r \in uheld, NEW s \in uheld, r.addr = s.addr PROVE r = s
  <2> SUFFICES ASSUME r # s PROVE FALSE
    OBVIOUS
  <2>1. EntryOf(r) \in ZEntry /\ EntryOf(s) \in ZEntry /\ EntryOf(r).addr = EntryOf(s).addr
    BY <1>6, UEntryIs DEF VmapInv, UInv
  <2>2. EntryOf(r) # EntryOf(s) /\ EntryOf(r) \in UHeld(uheld) /\ EntryOf(s) \in UHeld(uheld)
    BY DEF VmapInv, UInv, UHeld
  <2>3. Apart(EntryOf(r), EntryOf(s))
    BY <1>2, <2>2 DEF VIs, Tiled
  <2>4. QED
    BY <2>1, <2>3, EntryFacts DEF Apart
<1>7. VmapPartition
  <2>1. KHeld(kheld) = {Entry(m.va, PagesOf(m.lob, m.len)) : m \in kheld}
        /\ UHeld(uheld) = {EntryOf(r) : r \in uheld}
    BY DEF KHeld, UHeld, KEntry
  <2>2. QED
    BY <1>3, <1>4, <1>5, <1>6, <2>1 DEF VmapPartition
<1>8. KvMapsExact
  <2>1. \A m \in kheld : Ranges(KEntry(m)) = m.va .. m.va + PagesOf(m.lob, m.len) - 1
    <3> SUFFICES ASSUME NEW m \in kheld
                 PROVE  Ranges(KEntry(m)) = m.va .. m.va + PagesOf(m.lob, m.len) - 1
      OBVIOUS
    <3>1. KEntry(m) \in ZEntry /\ KEntry(m).addr = m.va /\ KEntry(m).size = PagesOf(m.lob, m.len)
      BY KEntryIs DEF VmapInv, KInv
    <3>2. QED
      BY <3>1, RangeIs
  <2>2. KRanges(kheld) = UNION {m.va .. m.va + PagesOf(m.lob, m.len) - 1 : m \in kheld}
    BY <2>1 DEF KRanges
  <2>3. QED
    BY <2>2 DEF KvMapsExact, VmapInv, KInv
<1>9. QED
  BY <1>7, <1>8 DEF VmapSound

(* The virtual addresses of the kernel (kvmap, kvunmap) and of a process   *)
(* (dma32_alloc, dma32_free, diomap): whatever is asked for and in         *)
(* whatever order it comes back, no address is given out twice or lost,    *)
(* tree, lists, bitmap and amount of the zone agree, free ranges are       *)
(* merged, and exactly the live mappings of kvmap have page table entries. *)
(* For address spaces of any size and any number of orders.                *)
THEOREM VmapSoundCorrect == VmapSpec => []VmapSound
<1>1. VmapInit => VmapInv
  BY VmapInitInv
<1>2. VmapInv /\ [VmapNext]_vmapVars => VmapInv'
  BY VmapStep
<1>3. VmapInv => VmapSound
  BY VmapSoundOf
<1>4. QED
  BY <1>1, <1>2, <1>3, PTL DEF VmapSpec

-----------------------------------------------------------------------------
(* Pages.  F has the free entries of each zone, H the ranges in use (those *)
(* that are no memory, or that pginit has not come to, as single pages);   *)
(* an entry is tagged at its first and last page, and outside L, the pages *)
(* whose types are still to be set, every tag is that of a free entry.     *)
Free(F) == UNION {F[z] : z \in Zones}
OneZone(e) == \A p \in Ranges(e) : p \in RamPages /\ PFNZ_TYPE(p) = PFNZ_TYPE(e.addr)
InZones(F) ==
  \A z \in Zones : \A e \in F[z] : \A p \in Ranges(e) : p \in RamPages /\ PFNZ_TYPE(p) = z
Tagged(g, e) ==
  /\ g.ptag[e.addr] = e /\ g.ptag[End(e) - 1] = e
  /\ is_pgzstart(g.ptype[e.addr]) /\ is_pgzterm(g.ptype[End(e) - 1])
Tags(g, A, L) ==
  \A p \in 0 .. NPages : p \notin L =>
    /\ is_pgzterm(g.ptype[p]) => \E e \in A : End(e) - 1 = p
    /\ is_pgzstart(g.ptype[p]) => \E e \in A : e.addr = p
PgRec(g) ==
  /\ g = [pz |-> g.pz, ptype |-> g.ptype, ptag |-> g.ptag]
  /\ g.ptype = [p \in 0 .. NPages |-> g.ptype[p]] /\ g.ptag = [p \in 0 .. NPages |-> g.ptag[p]]
PIs(g, F, H, L) ==
  /\ PgRec(g) /\ ZRep(g.pz, F) /\ DOMAIN F = Zones /\ InZones(F)
  /\ Tiled(Free(F), H, 1, NPages)
  /\ \A z \in Zones : Coalesced(F[z])
  /\ \A e \in Free(F) : Tagged(g, e)
  /\ Tags(g, Free(F), L)

(* Where two zones touch, the memory of the lower one ends in a run of one *)
(* page: the test of ___get_neighbors on the page after the first one is   *)
(* then one on the page after the last.  Zones that do not touch, or       *)
(* memory in one zone only, are the usual case of it.                      *)
ZonesApart ==
  \A p \in RamPages :
    p + 1 \in RamPages /\ PFNZ_TYPE(p) # PFNZ_TYPE(p + 1)
    => p - 1 \notin RamPages \/ PFNZ_TYPE(p - 1) # PFNZ_TYPE(p)

LEMMA PageSpace ==
  /\ Space(1, NPages) /\ NPages \in Nat /\ RamPages \subseteq 1 .. NPages - 1
  /\ PgSizes \subseteq Sizes /\ \A p : PFNZ_TYPE(p) \in Zones
BY PgAssumption DEF Space, PFNZ_TYPE, Zones

LEMMA Retile ==
  ASSUME NEW A, NEW B, NEW C, NEW D, NEW lo, NEW hi, Tiled(A, B, lo, hi),
         A \cup B = C \cup D, C \cap D = {}
  PROVE  Tiled(C, D, lo, hi)
BY DEF Tiled

(* The neighbours that the tags give.                                      *)
LEMMA PgNeighbours ==
  ASSUME ZonesApart, NEW g, NEW F, NEW H, NEW L, NEW r \in ZEntry, r \notin H,
         PIs(g, F, H \cup {r}, L), OneZone(r), End(r) \notin L,
         ~ (r.addr - 1 \in L /\ is_pgzterm(g.ptype[r.addr - 1]))
  PROVE  LET z == PFNZ_TYPE(r.addr) IN
         /\ IsPrev(PgPrev(g, r.addr), F[z], r.addr)
         /\ IsNext(PgNext(g, r.addr, r.size), F[z], End(r))
<1> DEFINE a == r.addr
           b == End(r)
           z == PFNZ_TYPE(a)
           A == Free(F)
<1>0. /\ InZones(F) /\ Tiled(A, H \cup {r}, 1, NPages) /\ \A e \in A : Tagged(g, e)
      /\ Tags(g, A, L)
  BY DEF PIs
<1>1. /\ a \in Nat /\ b \in Nat /\ a < b /\ b = a + r.size /\ r.size \in Nat /\ r.size >= 1
      /\ 1 <= a /\ b <= NPages /\ NPages \in Nat
      /\ \A p : p \in Ranges(r) <=> p \in Nat /\ a <= p /\ p < b
  <2>1. 1 <= r.addr /\ End(r) <= NPages
    BY <1>0 DEF Tiled
  <2>2. QED
    BY <2>1, EntryFacts, PageSpace
<1>2. /\ a - 1 \in 0 .. NPages /\ b \in 0 .. NPages /\ a # 0 /\ b - 1 \in Ranges(r) /\ a \in Ranges(r)
  BY <1>1
<1>3. z \in Zones /\ \A p \in Ranges(r) : p \in RamPages /\ PFNZ_TYPE(p) = z
  BY PageSpace DEF OneZone
<1>4. ASSUME NEW e \in A
      PROVE  /\ e \in ZEntry /\ e.addr \in Nat /\ End(e) \in Nat /\ e.addr < End(e) /\ End(e) = e.addr + e.size
             /\ e.size \in Nat /\ e.addr \in Ranges(e) /\ End(e) - 1 \in Ranges(e)
             /\ \A y \in Zones : e \in F[y] <=> PFNZ_TYPE(e.addr) = y
             /\ PFNZ_TYPE(End(e) - 1) = PFNZ_TYPE(e.addr) /\ e.addr \in RamPages /\ e # NoEntry
             /\ g.ptag[e.addr] = e /\ g.ptag[End(e) - 1] = e
             /\ is_pgzstart(g.ptype[e.addr]) /\ is_pgzterm(g.ptype[End(e) - 1])
  <2>1. e \in ZEntry
    BY <1>0 DEF Tiled
  <2>2. e.addr \in Ranges(e) /\ End(e) - 1 \in Ranges(e)
    BY <2>1, EntryFacts
  <2>3. PICK y \in Zones : e \in F[y]
    BY DEF Free
  <2>4. \A x \in Zones : e \in F[x] => PFNZ_TYPE(e.addr) = x /\ PFNZ_TYPE(End(e) - 1) = x /\ e.addr \in RamPages
    BY <1>0, <2>2 DEF InZones
  <2>5. Tagged(g, e)
    BY <1>0
  <2>6. QED
    BY <2>1, <2>2, <2>3, <2>4, <2>5, EntryFacts DEF Tagged
<1>5. F[z] \subseteq A
  BY <1>3 DEF Free
<1> HIDE DEF z, A
<1>6. IsPrev(PgPrev(g, a), F[z], a)
  <2> DEFINE c == PFNZ_TYPE(a) = PFNZ_TYPE(a - 1) /\ is_pgzterm(g.ptype[a - 1])
  <2>0. PgPrev(g, a) = IF c THEN g.ptag[a - g.ptag[a - 1].size] ELSE NoEntry
    BY <1>2 DEF PgPrev
  <2>1. CASE c
    <3>1. a - 1 \notin L
      BY <2>1
    <3>2. PICK e \in A : End(e) - 1 = a - 1
      BY <1>0, <1>2, <2>1, <3>1 DEF Tags
    <3>3. End(e) = a /\ a - e.size = e.addr
      BY <1>1, <1>4, <3>2
    <3>4. g.ptag[a - 1] = e /\ PgPrev(g, a) = e
      BY <1>4, <2>0, <2>1, <3>2, <3>3
    <3>5. e \in F[z]
      BY <1>3, <1>4, <2>1, <3>2 DEF z
    <3>6. QED
      BY <1>4, <3>3, <3>4, <3>5 DEF IsPrev
  <2>2. CASE ~c
    <3>1. ASSUME NEW e \in F[z], End(e) = a PROVE FALSE
      <4>1. e \in A /\ End(e) - 1 = a - 1
        BY <1>5, <3>1
      <4>2. PFNZ_TYPE(a - 1) = z
        BY <1>3, <1>4, <4>1
      <4>3. QED
        BY <1>4, <2>2, <4>1, <4>2 DEF z
    <3>2. QED
      BY <2>0, <2>2, <3>1 DEF IsPrev
  <2>3. QED
    BY <2>1, <2>2
<1>7. IsNext(PgNext(g, a, r.size), F[z], b)
  <2> DEFINE c == PFNZ_TYPE(a) = PFNZ_TYPE(a + 1) /\ is_pgzstart(g.ptype[b])
  <2>0. PgNext(g, a, r.size) = IF c THEN g.ptag[b] ELSE NoEntry
    BY <1>1 DEF PgNext
  <2>1. CASE c
    <3>1. PICK e \in A : e.addr = b
      BY <1>0, <1>2, <2>1 DEF Tags
    <3>2. PgNext(g, a, r.size) = e
      BY <1>4, <2>0, <2>1, <3>1
    <3>3. PFNZ_TYPE(b) = z
      <4> SUFFICES ASSUME PFNZ_TYPE(b) # z PROVE FALSE
        OBVIOUS
      <4>1. b - 1 \in RamPages /\ PFNZ_TYPE(b - 1) = z /\ b \in RamPages /\ (b - 1) + 1 = b /\ (b - 1) - 1 = b - 2
        BY <1>1, <1>2, <1>3, <1>4, <3>1
      <4>2. b - 2 \notin RamPages \/ PFNZ_TYPE(b - 2) # z
        BY <4>1 DEF ZonesApart
      <4>3. b - 2 \notin Ranges(r)
        BY <1>3, <4>2
      <4>4. a + 1 = b
        BY <1>1, <4>3
      <4>5. QED
        BY <2>1, <4>4 DEF z
    <3>4. e \in F[z]
      BY <1>3, <1>4, <3>1, <3>3
    <3>5. QED
      BY <1>4, <3>1, <3>2, <3>4 DEF IsNext
  <2>2. CASE ~c
    <3>1. ASSUME NEW e \in F[z], e.addr = b PROVE FALSE
      <4>1. e \in A
        BY <1>5
      <4>2. PFNZ_TYPE(b) = z /\ is_pgzstart(g.ptype[b])
        BY <1>3, <1>4, <3>1, <4>1
      <4>3. PFNZ_TYPE(a + 1) = z
        <5>1. a + 1 = b \/ a + 1 \in Ranges(r)
          BY <1>1
        <5>2. QED
          BY <1>3, <4>2, <5>1
      <4>4. QED
        BY <2>2, <4>2, <4>3 DEF z
    <3>2. QED
      BY <2>0, <2>2, <3>1 DEF IsNext
  <2>3. QED
    BY <2>1, <2>2
<1>8. QED
  BY <1>6, <1>7 DEF z

(* What the merged range covers.                                           *)
LEMMA MergedRanges ==
  ASSUME NEW lo, NEW hi, Space(lo, hi), NEW F, NEW H, NEW r \in ZEntry, r \notin H,
         Tiled(F, H \cup {r}, lo, hi), Coalesced(F),
         NEW p, IsPrev(p, F, r.addr), NEW n, IsNext(n, F, End(r))
  PROVE  LET m == Merged(r.addr, r.size, p, n) IN
         /\ Ranges(r) \subseteq Ranges(m)
         /\ p # NoEntry => Ranges(p) \subseteq Ranges(m)
         /\ n # NoEntry => Ranges(n) \subseteq Ranges(m)
         /\ \A x \in Ranges(m) : \/ x \in Ranges(r)
                                 \/ p # NoEntry /\ x \in Ranges(p)
                                 \/ n # NoEntry /\ x \in Ranges(n)
<1> DEFINE m == Merged(r.addr, r.size, p, n)
<1>1. /\ m \in ZEntry
      /\ m.addr = IF p = NoEntry THEN r.addr ELSE p.addr
      /\ End(m) = IF n = NoEntry THEN End(r) ELSE End(n)
      /\ m.addr <= r.addr /\ End(r) <= End(m)
  BY MergedIs
<1> HIDE DEF m
<1>2. /\ r.addr \in Nat /\ End(r) \in Nat /\ r.addr < End(r) /\ m.addr \in Nat /\ End(m) \in Nat
      /\ Ranges(r) = {x \in Nat : r.addr <= x /\ x < End(r)}
      /\ Ranges(m) = {x \in Nat : m.addr <= x /\ x < End(m)}
  BY <1>1, EntryFacts
<1>3. p # NoEntry => /\ p.addr \in Nat /\ End(p) = r.addr /\ p.addr < End(p)
                     /\ Ranges(p) = {x \in Nat : p.addr <= x /\ x < End(p)}
  BY EntryFacts DEF IsPrev, Tiled
<1>4. n # NoEntry => /\ End(n) \in Nat /\ n.addr = End(r) /\ n.addr < End(n)
                     /\ Ranges(n) = {x \in Nat : n.addr <= x /\ x < End(n)}
  BY EntryFacts DEF IsNext, Tiled
<1>5. Ranges(r) \subseteq Ranges(m)
  BY <1>1, <1>2
<1>6. p # NoEntry => Ranges(p) \subseteq Ranges(m)
  BY <1>1, <1>2, <1>3
<1>7. n # NoEntry => Ranges(n) \subseteq Ranges(m)
  BY <1>1, <1>2, <1>4
<1>8. ASSUME NEW x \in Ranges(m), x \notin Ranges(r)
      PROVE  (p # NoEntry /\ x \in Ranges(p)) \/ (n # NoEntry /\ x \in Ranges(n))
  <2>1. x \in Nat /\ m.addr <= x /\ x < End(m) /\ (x < r.addr \/ End(r) <= x)
    BY <1>2, <1>8
  <2>2. CASE x < r.addr
    <3>1. p # NoEntry
      BY <1>1, <1>2, <2>1, <2>2
    <3>2. QED
      BY <1>1, <1>3, <2>1, <2>2, <3>1
  <2>3. CASE End(r) <= x
    <3>1. n # NoEntry
      BY <1>1, <1>2, <2>1, <2>3
    <3>2. QED
      BY <1>1, <1>4, <2>1, <2>3, <3>1
  <2>4. QED
    BY <2>1, <2>2, <2>3
<1>9. QED
  BY <1>5, <1>6, <1>7, <1>8 DEF m

(* ___mkptr tags the entry and touches nothing outside it.                 *)
LEMMA MkptrIs ==
  ASSUME NEW g, PgRec(g), NEW m \in ZEntry, End(m) <= NPages
  PROVE  LET w == PgMkptr(g, m) IN
         /\ w.ptype = [p \in 0 .. NPages |-> w.ptype[p]] /\ w.ptag = [p \in 0 .. NPages |-> w.ptag[p]]
         /\ Tagged(w, m)
         /\ \A p \in 0 .. NPages : p \notin Ranges(m) =>
              w.ptype[p] = g.ptype[p] /\ w.ptag[p] = g.ptag[p]
         /\ \A p \in Ranges(m) : /\ is_pgzterm(w.ptype[p]) => End(m) - 1 = p
                                 /\ is_pgzstart(w.ptype[p]) => m.addr = p
<1> DEFINE w == PgMkptr(g, m)
           t(p) == IF m.size = 1 THEN "LONE"
                   ELSE IF p = m.addr THEN "STRT"
                   ELSE IF p = End(m) - 1 THEN "TERM" ELSE "FREE"
<1>1. DOMAIN g.ptype = 0 .. NPages /\ DOMAIN g.ptag = 0 .. NPages
  BY DEF PgRec
<1>2. /\ w.ptype = [p \in 0 .. NPages |-> IF p \notin Ranges(m) THEN g.ptype[p] ELSE t(p)]
      /\ w.ptag = [p \in 0 .. NPages |-> IF p \in {m.addr, End(m) - 1} THEN m ELSE g.ptag[p]]
  BY <1>1 DEF PgMkptr
<1>3. /\ m.addr \in Nat /\ m.size \in Nat /\ End(m) = m.addr + m.size /\ m.size >= 1 /\ End(m) \in Nat
      /\ m.addr \in Ranges(m) /\ End(m) - 1 \in Ranges(m) /\ NPages \in Nat
      /\ Ranges(m) = {p \in Nat : m.addr <= p /\ p < End(m)}
  BY EntryFacts, PageSpace
<1>4. Ranges(m) \subseteq 0 .. NPages
  BY <1>3
<1> HIDE DEF w
<1>5. \A p \in Ranges(m) : w.ptype[p] = t(p)
  BY <1>2, <1>4
<1>6. m.size = 1 <=> m.addr = End(m) - 1
  BY <1>3
<1>7. Tagged(w, m)
  <2>1. w.ptag[m.addr] = m /\ w.ptag[End(m) - 1] = m
    BY <1>2, <1>3, <1>4
  <2>2. is_pgzstart(w.ptype[m.addr])
    BY <1>3, <1>5 DEF is_pgzstart
  <2>3. is_pgzterm(w.ptype[End(m) - 1])
    BY <1>3, <1>5, <1>6 DEF is_pgzterm
  <2>4. QED
    BY <2>1, <2>2, <2>3 DEF Tagged
<1>8. ASSUME NEW p \in Ranges(m)
      PROVE  /\ is_pgzterm(w.ptype[p]) => End(m) - 1 = p
             /\ is_pgzstart(w.ptype[p]) => m.addr = p
  <2>1. m.size = 1 => p = m.addr /\ p = End(m) - 1
    BY <1>3
  <2>2. QED
    BY <1>5, <2>1 DEF is_pgzterm, is_pgzstart
<1>9. ASSUME NEW p \in 0 .. NPages, p \notin Ranges(m)
      PROVE  w.ptype[p] = g.ptype[p] /\ w.ptag[p] = g.ptag[p]
  BY <1>2, <1>3, <1>9
<1>10. w.ptype = [p \in 0 .. NPages |-> w.ptype[p]] /\ w.ptag = [p \in 0 .. NPages |-> w.ptag[p]]
  BY <1>2
<1>11. QED
  BY <1>7, <1>8, <1>9, <1>10 DEF w

(* pgzone_free gives a range r back to its zone.                           *)
LEMMA PFreeIs ==
  ASSUME ZonesApart, NEW g, NEW F, NEW H, NEW L, NEW r \in ZEntry, r \notin H,
         PIs(g, F, H \cup {r}, L), OneZone(r), End(r) \notin L,
         ~ (r.addr - 1 \in L /\ is_pgzterm(g.ptype[r.addr - 1]))
  PROVE  \E G : PIs(pgzone_free(g, PFNZ_TYPE(r.addr), r.addr, r.size), G, H, L \ Ranges(r))
<1> DEFINE z == PFNZ_TYPE(r.addr)
           p == PgPrev(g, r.addr)
           n == PgNext(g, r.addr, r.size)
           m == Merged(r.addr, r.size, p, n)
           k == PgMkptr(g, m)
           w == pgzone_free(g, z, r.addr, r.size)
           A == Free(F)
           O == A \ F[z]
           B == (F[z] \ {p, n}) \cup {m}
           G == [F EXCEPT ![z] = B]
           C == O \cup B
<1>0. /\ PgRec(g) /\ ZRep(g.pz, F) /\ DOMAIN F = Zones /\ InZones(F)
      /\ Tiled(A, H \cup {r}, 1, NPages) /\ \A y \in Zones : Coalesced(F[y])
      /\ \A e \in A : Tagged(g, e)
      /\ Tags(g, A, L)
  BY DEF PIs
<1>1. z \in Zones /\ Space(1, NPages) /\ NPages \in Nat
  BY PageSpace
<1>2. IsPrev(p, F[z], r.addr) /\ IsNext(n, F[z], End(r))
  BY PgNeighbours
<1>3. w = [pz |-> zone_create(g.pz, z, r.addr, r.size, p, n), ptype |-> k.ptype, ptag |-> k.ptag]
  BY DEF pgzone_free
<1> HIDE DEF p, n, w, z
<1>4. F = [y \in Zones |-> F[y]] /\ \A x, y \in Zones : x # y => F[x] \cap F[y] = {}
  BY <1>0 DEF ZRep, FType
<1>5. F[z] \subseteq A /\ \A y \in Zones : y # z => F[y] \subseteq O
  BY <1>1, <1>4 DEF Free
<1>6. r \notin A /\ A \cap H = {} /\ A \subseteq ZEntry /\ H \subseteq ZEntry
  BY <1>0 DEF Tiled
<1>7. Tiled(F[z], (O \cup H) \cup {r}, 1, NPages)
  <2>1. F[z] \cup ((O \cup H) \cup {r}) = A \cup (H \cup {r}) /\ F[z] \cap ((O \cup H) \cup {r}) = {}
    BY <1>5, <1>6
  <2>2. QED
    BY <1>0, <2>1, Retile
<1>8. r \notin O \cup H /\ Coalesced(F[z])
  BY <1>0, <1>1, <1>6
<1> HIDE DEF O
<1>9. /\ m \in ZEntry /\ m \notin F[z] /\ \A f \in (F[z] \ {p, n}) \cup (O \cup H) : Apart(m, f)
      /\ Tiled(B, O \cup H, 1, NPages) /\ Coalesced(B)
  <2> DEFINE Z == F[z]
             U == O \cup H
  <2>1. /\ r \notin U /\ Tiled(Z, U \cup {r}, 1, NPages) /\ Coalesced(Z)
        /\ IsPrev(p, Z, r.addr) /\ IsNext(n, Z, End(r))
    BY <1>2, <1>7, <1>8
  <2> HIDE DEF Z, U
  <2>2. /\ m \in ZEntry /\ m \notin Z /\ \A f \in (Z \ {p, n}) \cup U : Apart(m, f)
        /\ Tiled((Z \ {p, n}) \cup {m}, U, 1, NPages) /\ Coalesced((Z \ {p, n}) \cup {m})
    BY <1>1, <2>1, FreeTiles
  <2>3. QED
    BY <2>2 DEF Z, U
<1>10. 1 <= m.addr /\ End(m) <= NPages /\ (p = n => p = NoEntry)
  <2>1. /\ m \in ZEntry /\ 1 <= m.addr /\ End(m) <= NPages /\ (p = n => p = NoEntry)
        /\ m.addr = IF p = NoEntry THEN r.addr ELSE p.addr
        /\ End(m) = IF n = NoEntry THEN End(r) ELSE End(n)
        /\ m.addr <= r.addr /\ End(r) <= End(m)
    BY ZenonT(40), <1>1, <1>2, <1>7, <1>8, MergedIs
  <2>2. QED
    BY <2>1
<1>11. /\ Ranges(r) \subseteq Ranges(m)
       /\ p # NoEntry => Ranges(p) \subseteq Ranges(m)
       /\ n # NoEntry => Ranges(n) \subseteq Ranges(m)
       /\ \A x \in Ranges(m) : \/ x \in Ranges(r)
                               \/ p # NoEntry /\ x \in Ranges(p)
                               \/ n # NoEntry /\ x \in Ranges(n)
  BY ZenonT(40), <1>1, <1>2, <1>7, <1>8, MergedRanges
<1>12. p # NoEntry => p \in F[z]
  BY <1>2 DEF IsPrev
<1>13. n # NoEntry => n \in F[z]
  BY <1>2 DEF IsNext
<1>14. ASSUME NEW f \in ZEntry, Apart(m, f) PROVE f # m /\ f.addr \notin Ranges(m) /\ End(f) - 1 \notin Ranges(m)
  <2>1. /\ f.addr \in Nat /\ End(f) \in Nat /\ f.addr < End(f)
        /\ m.addr \in Nat /\ End(m) \in Nat /\ m.addr < End(m)
        /\ Ranges(m) = {x \in Nat : m.addr <= x /\ x < End(m)}
    BY <1>9, EntryFacts
  <2>2. QED
    BY <1>14, <2>1 DEF Apart
<1>15. \A y \in Zones : m \notin F[y]
  <2>1. \A f \in O : f # m
    BY <1>6, <1>9, <1>14 DEF O
  <2>2. QED
    BY <1>5, <1>9, <2>1
<1>16. PgRec(w) /\ w.pz = zone_create(g.pz, z, r.addr, r.size, p, n) /\ w.ptype = k.ptype /\ w.ptag = k.ptag
  <2>1. k.ptype = [x \in 0 .. NPages |-> k.ptype[x]] /\ k.ptag = [x \in 0 .. NPages |-> k.ptag[x]]
    BY <1>0, <1>9, <1>10, MkptrIs
  <2> HIDE DEF k
  <2>2. QED
    BY <1>3, <2>1 DEF PgRec
<1>17. /\ Tagged(w, m)
       /\ \A x \in 0 .. NPages : x \notin Ranges(m) => w.ptype[x] = g.ptype[x] /\ w.ptag[x] = g.ptag[x]
       /\ \A x \in Ranges(m) : /\ is_pgzterm(w.ptype[x]) => End(m) - 1 = x
                               /\ is_pgzstart(w.ptype[x]) => m.addr = x
  <2>1. /\ Tagged(k, m)
        /\ \A x \in 0 .. NPages : x \notin Ranges(m) => k.ptype[x] = g.ptype[x] /\ k.ptag[x] = g.ptag[x]
        /\ \A x \in Ranges(m) : /\ is_pgzterm(k.ptype[x]) => End(m) - 1 = x
                                /\ is_pgzstart(k.ptype[x]) => m.addr = x
    BY <1>0, <1>9, <1>10, MkptrIs
  <2> HIDE DEF k
  <2>2. QED
    BY <1>16, <2>1 DEF Tagged
<1> HIDE DEF m, k
<1>18. ZRep(w.pz, G)
  <2>1. \A e, f \in F[z] : e # f => Apart(e, f)
    BY <1>7 DEF Tiled
  <2>2. z \in DOMAIN F /\ \A y \in DOMAIN F : m \notin F[y]
    BY <1>0, <1>1, <1>15
  <2>3. \A f \in F[z] \ {p, n} : Apart(m, f)
    BY <1>9
  <2>4. ZRep(zone_create(g.pz, z, r.addr, r.size, p, n),
             [F EXCEPT ![z] = (@ \ {p, n}) \cup {m}])
    BY <1>0, <1>9, <1>10, <1>12, <1>13, <2>1, <2>2, <2>3, CreateIs DEF m
  <2>5. QED
    BY <1>16, <2>4
<1>19. DOMAIN G = Zones /\ G[z] = B /\ \A y \in Zones : y # z => G[y] = F[y]
  BY <1>0, <1>1, <1>4
<1> HIDE DEF G
<1>20. Free(G) = C
  <2>1. \A e \in O : \E y \in Zones : y # z /\ e \in F[y]
    BY DEF O, Free
  <2>2. QED
    BY <1>1, <1>5, <1>19, <2>1 DEF Free
<1>21. InZones(G)
  <2>1. ASSUME NEW x \in Ranges(m) PROVE x \in RamPages /\ PFNZ_TYPE(x) = z
    BY <1>0, <1>1, <1>11, <1>12, <1>13 DEF InZones, OneZone, z
  <2>2. QED
    BY <1>0, <1>19, <2>1 DEF InZones
<1>22. Tiled(C, H, 1, NPages)
  <2>1. C \cap H = {}
    <3>1. B \cap (O \cup H) = {}
      BY <1>9 DEF Tiled
    <3>2. O \cap H = {}
      BY <1>6 DEF O
    <3> HIDE DEF B
    <3>3. QED
      BY <3>1, <3>2
  <2>2. B \cup (O \cup H) = C \cup H
    OBVIOUS
  <2> HIDE DEF B, C
  <2>3. QED
    BY <1>9, <2>1, <2>2, Retile
<1>23. \A y \in Zones : Coalesced(G[y])
  BY <1>0, <1>9, <1>19
<1>24. ASSUME NEW e \in C, e # m
       PROVE  e \in A /\ e \in ZEntry /\ Apart(m, e) /\ e.addr \in 0 .. NPages /\ End(e) - 1 \in 0 .. NPages
  <2>1. e \in (F[z] \ {p, n}) \cup (O \cup H) /\ e \in A
    BY <1>5, <1>24 DEF O
  <2>2. e \in ZEntry /\ 1 <= e.addr /\ End(e) <= NPages
    BY <1>0, <1>6, <2>1 DEF Tiled
  <2>3. e.addr \in 0 .. NPages /\ End(e) - 1 \in 0 .. NPages
    BY <1>1, <2>2, EntryFacts
  <2>4. QED
    BY <1>9, <2>1, <2>2, <2>3
<1>25. \A e \in C : Tagged(w, e)
  <2>1. ASSUME NEW e \in C, e # m PROVE Tagged(w, e)
    <3>1. /\ e \in A /\ e \in ZEntry /\ Apart(m, e) /\ e.addr \in 0 .. NPages /\ End(e) - 1 \in 0 .. NPages
          /\ e.addr \notin Ranges(m) /\ End(e) - 1 \notin Ranges(m)
      BY <1>14, <1>24, <2>1
    <3>2. Tagged(g, e)
      BY <1>0, <3>1
    <3>3. QED
      BY <1>17, <3>1, <3>2 DEF Tagged
  <2>2. QED
    BY <1>17, <2>1
<1>26. Tags(w, C, L \ Ranges(r))
  <2> SUFFICES ASSUME NEW x \in 0 .. NPages, x \notin L \ Ranges(r)
               PROVE  /\ is_pgzterm(w.ptype[x]) => \E e \in C : End(e) - 1 = x
                      /\ is_pgzstart(w.ptype[x]) => \E e \in C : e.addr = x
    BY DEF Tags
  <2>1. CASE x \in Ranges(m)
    BY <1>17, <2>1
  <2>2. CASE x \notin Ranges(m)
    <3>1. x \notin L /\ w.ptype[x] = g.ptype[x]
      BY <1>11, <1>17, <2>2
    <3>2. ASSUME NEW e \in A, x \in {End(e) - 1, e.addr} PROVE e \in C
      <4>1. x \in Ranges(e) /\ e # NoEntry
        BY <1>6, <3>2, EntryFacts
      <4>2. e # p /\ e # n
        BY <1>11, <2>2, <4>1
      <4>3. QED
        BY <4>2 DEF O
    <3>3. /\ is_pgzterm(g.ptype[x]) => \E e \in A : End(e) - 1 = x
          /\ is_pgzstart(g.ptype[x]) => \E e \in A : e.addr = x
      BY <1>0, <3>1 DEF Tags
    <3>4. QED
      BY <3>1, <3>2, <3>3
  <2>3. QED
    BY <2>1, <2>2
<1> HIDE DEF C
<1>27. PIs(w, G, H, L \ Ranges(r))
  BY <1>16, <1>18, <1>19, <1>20, <1>21, <1>22, <1>23, <1>25, <1>26 DEF PIs
<1>28. QED
  BY <1>27 DEF w, z

(* A range is cut in two.                                                  *)
LEMMA CutTiles ==
  ASSUME NEW A, NEW H, NEW e \in ZEntry, e \notin H, NEW lo, NEW hi, lo \in Nat, hi \in Nat,
         Tiled(A, H \cup {e}, lo, hi), NEW size \in Sizes, size < e.size
  PROVE  LET t == Entry(e.addr, size)
             r == Entry(e.addr + size, e.size - size) IN
         /\ t \in ZEntry /\ r \in ZEntry /\ t # r /\ t \notin A \cup H /\ r \notin A \cup H
         /\ End(t) = r.addr /\ End(r) = End(e) /\ t.addr = e.addr
         /\ \A x : x \in Ranges(e) <=> x \in Ranges(t) \/ x \in Ranges(r)
         /\ Ranges(t) \cap Ranges(r) = {}
         /\ Tiled(A, (H \cup {t}) \cup {r}, lo, hi)
<1> DEFINE t == Entry(e.addr, size)
           r == Entry(e.addr + size, e.size - size)
           K == (H \cup {t}) \cup {r}
<1>1. /\ e.addr \in Nat /\ e.size \in Nat /\ End(e) = e.addr + e.size /\ size \in Nat /\ size >= 1
      /\ End(e) \in Nat /\ e.size \in Sizes /\ Ranges(e) = {x \in Nat : e.addr <= x /\ x < End(e)}
  BY EntryFacts, BitIs DEF Sizes
<1>2. e.size - size \in Sizes
  BY <1>1, BitIs DEF Sizes
<1>3. /\ t \in ZEntry /\ r \in ZEntry /\ t.addr = e.addr /\ r.addr = e.addr + size
      /\ t.size = size /\ r.size = e.size - size
  BY <1>1, <1>2 DEF Entry, ZEntry
<1> HIDE DEF t, r
<1>4. /\ End(t) = r.addr /\ End(r) = End(e) /\ r.addr \in Nat /\ t.addr < r.addr /\ r.addr < End(e)
  BY <1>1, <1>3 DEF End
<1>5. /\ Ranges(t) = {x \in Nat : t.addr <= x /\ x < End(t)}
      /\ Ranges(r) = {x \in Nat : r.addr <= x /\ x < End(r)}
  BY <1>3, EntryFacts
<1>6. \A x : x \in Ranges(e) <=> x \in Ranges(t) \/ x \in Ranges(r)
  BY <1>1, <1>3, <1>4, <1>5
<1>7. Ranges(t) \cap Ranges(r) = {} /\ t # r
  BY <1>1, <1>3, <1>4, <1>5
<1>8. /\ A \subseteq ZEntry /\ H \subseteq ZEntry /\ A \cap (H \cup {e}) = {}
      /\ \A f, h \in A \cup (H \cup {e}) : f # h => Apart(f, h)
      /\ \A f \in A \cup (H \cup {e}) : lo <= f.addr /\ End(f) <= hi
      /\ \A x \in lo .. hi - 1 : \E f \in A \cup (H \cup {e}) : x \in Ranges(f)
  BY DEF Tiled
<1>9. ASSUME NEW f \in A \cup H
      PROVE  Apart(t, f) /\ Apart(r, f) /\ Apart(f, t) /\ Apart(f, r) /\ f # t /\ f # r
  <2>1. f \in ZEntry /\ f # e /\ Apart(e, f)
    BY <1>8
  <2>2. f.addr \in Nat /\ End(f) \in Nat /\ f.addr < End(f)
    BY <2>1, EntryFacts
  <2>3. QED
    BY <1>1, <1>3, <1>4, <2>1, <2>2 DEF Apart
<1>10. Apart(t, r) /\ Apart(r, t)
  BY <1>1, <1>3, <1>4 DEF Apart
<1>11. Tiled(A, K, lo, hi)
  <2>1. A \subseteq ZEntry /\ K \subseteq ZEntry /\ A \cap K = {}
    BY <1>3, <1>8, <1>9
  <2>2. ASSUME NEW f \in A \cup K, NEW h \in A \cup K, f # h PROVE Apart(f, h)
    <3>1. CASE f \in A \cup H /\ h \in A \cup H
      BY <1>8, <2>2, <3>1
    <3>2. CASE f \in {t, r} \/ h \in {t, r}
      BY <1>9, <1>10, <2>2, <3>2
    <3>3. QED
      BY <3>1, <3>2
  <2>3. ASSUME NEW f \in A \cup K PROVE lo <= f.addr /\ End(f) <= hi
    <3>1. CASE f \in A \cup H
      BY <1>8, <3>1
    <3>2. CASE f \in {t, r}
      <4>1. lo <= e.addr /\ End(e) <= hi
        BY <1>8
      <4>2. QED
        BY <1>1, <1>3, <1>4, <3>2, <4>1
    <3>3. QED
      BY <3>1, <3>2
  <2>4. ASSUME NEW x \in lo .. hi - 1 PROVE \E f \in A \cup K : x \in Ranges(f)
    <3>1. PICK f \in A \cup (H \cup {e}) : x \in Ranges(f)
      BY <1>8
    <3>2. QED
      BY <1>6, <3>1
  <2> HIDE DEF K
  <2>5. QED
    BY <2>1, <2>2, <2>3, <2>4 DEF Tiled
<1>12. t \notin A \cup H /\ r \notin A \cup H
  BY <1>9
<1>13. QED
  BY <1>3, <1>4, <1>6, <1>7, <1>11, <1>12 DEF t, r

(* pgzone_alloc takes the first part of a free entry.  The types of its    *)
(* pages are stale.                                                        *)
LEMMA PAllocIs ==
  ASSUME ZonesApart, NEW g, NEW F, NEW H, PIs(g, F, H, {}), NEW z \in Zones, NEW e \in F[z],
         NEW size \in Sizes, size <= e.size
  PROVE  LET t == Entry(e.addr, size) IN
         /\ t \in ZEntry /\ t \notin H /\ OneZone(t)
         /\ \E G : PIs(pgzone_alloc(g, z, e, size), G, H \cup {t}, Ranges(t))
<1> DEFINE t == Entry(e.addr, size)
           r == Entry(e.addr + size, e.size - size)
           g1 == [g EXCEPT !.pz = zone_detachentry(@, z, e)]
           A == Free(F)
           F1 == [F EXCEPT ![z] = @ \ {e}]
           L == Ranges(e)
<1>0. /\ PgRec(g) /\ ZRep(g.pz, F) /\ DOMAIN F = Zones /\ InZones(F)
      /\ Tiled(A, H, 1, NPages) /\ \A y \in Zones : Coalesced(F[y])
      /\ \A f \in A : Tagged(g, f)
      /\ Tags(g, A, {})
  BY DEF PIs
<1>1. F = [y \in Zones |-> F[y]] /\ \A x, y \in Zones : x # y => F[x] \cap F[y] = {}
  BY <1>0 DEF ZRep, FType
<1>2. /\ e \in A /\ e \in ZEntry /\ e \notin H /\ NPages \in Nat /\ F[z] \subseteq A
      /\ \A f, h \in A : f # h => Apart(f, h)
  <2>1. F[z] \subseteq A /\ e \in A
    BY DEF Free
  <2>2. A \subseteq ZEntry /\ A \cap H = {} /\ \A f, h \in A : f # h => Apart(f, h)
    <3> HIDE DEF A
    <3>1. QED
      BY <1>0 DEF Tiled
  <2>3. QED
    BY <2>1, <2>2, PageSpace
<1>3. OneZone(e) /\ PFNZ_TYPE(e.addr) = z
  <2>1. \A p \in Ranges(e) : p \in RamPages /\ PFNZ_TYPE(p) = z
    BY <1>0 DEF InZones
  <2>2. e.addr \in Ranges(e)
    BY <1>2, EntryFacts
  <2>3. QED
    BY <2>1, <2>2 DEF OneZone
<1>4. /\ g1.pz = zone_detachentry(g.pz, z, e) /\ g1.ptype = g.ptype /\ g1.ptag = g.ptag
      /\ g1 = [pz |-> g1.pz, ptype |-> g1.ptype, ptag |-> g1.ptag]
  BY <1>0 DEF PgRec
<1> HIDE DEF g1
<1>5. DOMAIN F1 = Zones /\ F1[z] = F[z] \ {e} /\ \A y \in Zones : y # z => F1[y] = F[y]
  BY <1>1
<1>6. ZRep(g1.pz, F1)
  <2>1. \A f \in F[z] : f # e => Apart(e, f)
    BY <1>2
  <2>2. z \in DOMAIN F
    BY <1>0
  <2>3. ZRep(zone_detachentry(g.pz, z, e), F1)
    BY <1>0, <2>1, <2>2, DetachIs
  <2>4. QED
    BY <1>4, <2>3
<1> HIDE DEF F1
<1>7. Free(F1) = A \ {e}
  <2>1. \A y \in Zones : y # z => e \notin F[y]
    BY <1>1
  <2>2. QED
    BY <1>5, <2>1 DEF Free
<1>8. PIs(g1, F1, H \cup {e}, L)
  <2>1. PgRec(g1)
    BY <1>0, <1>4 DEF PgRec
  <2>2. InZones(F1)
    BY <1>0, <1>5 DEF InZones
  <2>3. Tiled(A \ {e}, H \cup {e}, 1, NPages)
    <3>1. A \cap H = {}
      BY <1>0 DEF Tiled
    <3>2. (A \ {e}) \cup (H \cup {e}) = A \cup H /\ (A \ {e}) \cap (H \cup {e}) = {}
      BY <1>2, <3>1
    <3>3. QED
      BY <1>0, <3>2, Retile
  <2>4. \A y \in Zones : Coalesced(F1[y])
    BY <1>0, <1>5 DEF Coalesced
  <2>5. \A f \in A \ {e} : Tagged(g1, f)
    BY <1>0, <1>4 DEF Tagged
  <2>6. Tags(g1, A \ {e}, L)
    <3> SUFFICES ASSUME NEW x \in 0 .. NPages, x \notin L
                 PROVE  /\ is_pgzterm(g.ptype[x]) => \E f \in A \ {e} : End(f) - 1 = x
                        /\ is_pgzstart(g.ptype[x]) => \E f \in A \ {e} : f.addr = x
      BY <1>4 DEF Tags
    <3>1. x # End(e) - 1 /\ x # e.addr
      BY <1>2, EntryFacts
    <3>2. QED
      BY <1>0, <3>1 DEF Tags
  <2>7. QED
    BY <1>5, <1>6, <1>7, <2>1, <2>2, <2>3, <2>4, <2>5, <2>6 DEF PIs
<1>9. CASE e.size = size
  <2>1. t = e
    BY <1>2, <1>9, EntryFacts
  <2>2. pgzone_alloc(g, z, e, size) = g1
    BY <1>9 DEF pgzone_alloc, g1
  <2>3. PIs(pgzone_alloc(g, z, e, size), F1, H \cup {t}, Ranges(t))
    BY <1>8, <2>1, <2>2
  <2>4. t \in ZEntry /\ t \notin H /\ OneZone(t)
    BY <1>2, <1>3, <2>1
  <2>5. QED
    BY <2>3, <2>4
<1>10. CASE e.size # size
  <2>1. size < e.size
    <3>1. size \in Nat /\ e.size \in Nat
      BY <1>2, EntryFacts, BitIs DEF Sizes
    <3>2. QED
      BY <1>10, <3>1
  <2>2. /\ t \in ZEntry /\ r \in ZEntry /\ t # r /\ t \notin Free(F1) \cup H /\ r \notin Free(F1) \cup H
        /\ End(t) = r.addr /\ End(r) = End(e) /\ t.addr = e.addr
        /\ \A x : x \in Ranges(e) <=> x \in Ranges(t) \/ x \in Ranges(r)
        /\ Ranges(t) \cap Ranges(r) = {}
        /\ Tiled(Free(F1), (H \cup {t}) \cup {r}, 1, NPages)
    <3>1. Tiled(Free(F1), H \cup {e}, 1, NPages) /\ 1 \in Nat
      BY <1>8 DEF PIs
    <3>2. QED
      BY <1>2, <2>1, <3>1, CutTiles
  <2>3. r.addr = e.addr + size /\ r.size = e.size - size
    BY DEF Entry
  <2>4. pgzone_alloc(g, z, e, size) = pgzone_free(g1, z, r.addr, r.size)
    BY <1>10, <2>3 DEF pgzone_alloc, g1
  <2> HIDE DEF t, r
  <2>5. PIs(g1, F1, (H \cup {t}) \cup {r}, L)
    BY <1>8, <2>2 DEF PIs
  <2>6. /\ r.addr \in Ranges(r) /\ t.addr \in Ranges(t) /\ End(e) \in Nat /\ r.addr \in Nat
        /\ r.addr < End(r) /\ t.addr \in Nat /\ t.addr < End(t)
        /\ Ranges(e) = {x \in Nat : e.addr <= x /\ x < End(e)}
    BY <1>2, <2>2, EntryFacts
  <2>7. OneZone(t) /\ OneZone(r) /\ PFNZ_TYPE(r.addr) = z
    BY <1>3, <2>2, <2>6 DEF OneZone
  <2>8. End(r) \notin L
    BY <2>2, <2>6
  <2>9. ~ is_pgzterm(g1.ptype[r.addr - 1])
    <3> SUFFICES ASSUME is_pgzterm(g.ptype[r.addr - 1]) PROVE FALSE
      BY <1>4
    <3>1. r.addr - 1 \in Ranges(e) /\ r.addr - 1 # End(e) - 1
      BY <2>2, <2>6
    <3>2. r.addr - 1 \in 0 .. NPages
      <4>1. End(e) <= NPages
        BY <1>0, <1>2 DEF Tiled
      <4>2. QED
        BY <1>2, <2>6, <3>1, <4>1
    <3>3. PICK f \in A : End(f) - 1 = r.addr - 1
      BY <1>0, <3>2 DEF Tags
    <3>4. f \in ZEntry /\ End(f) - 1 \in Ranges(f) /\ f # e
      BY <1>0, <3>1, <3>3, EntryFacts DEF Tiled
    <3>5. Ranges(e) \cap Ranges(f) = {}
      BY <1>2, <3>4, ApartRanges
    <3>6. QED
      BY <3>1, <3>3, <3>4, <3>5
  <2>10. \E G : PIs(pgzone_free(g1, PFNZ_TYPE(r.addr), r.addr, r.size), G, H \cup {t}, L \ Ranges(r))
    <3>1. r \notin H \cup {t}
      BY <2>2
    <3>2. QED
      BY <2>2, <2>5, <2>7, <2>8, <2>9, <3>1, PFreeIs
  <2>11. L \ Ranges(r) = Ranges(t)
    BY <2>2
  <2>12. QED
    BY <2>2, <2>4, <2>7, <2>10, <2>11 DEF t
<1>11. QED
  BY <1>9, <1>10

(* pgalloc sets the types of a range.                                      *)
LEMMA PSetIs ==
  ASSUME NEW g, NEW F, NEW H, NEW t \in H, NEW h, PIs(g, F, H, Ranges(t)), PgRec(h), h.pz = g.pz, h.ptag = g.ptag,
         h.ptype = [p \in DOMAIN g.ptype |-> IF p \in Ranges(t) THEN "USER" ELSE g.ptype[p]]
  PROVE  PIs(h, F, H, {})
<1>0. /\ PgRec(g) /\ ZRep(g.pz, F) /\ DOMAIN F = Zones /\ InZones(F)
      /\ Tiled(Free(F), H, 1, NPages) /\ \A y \in Zones : Coalesced(F[y])
      /\ \A f \in Free(F) : Tagged(g, f)
      /\ Tags(g, Free(F), Ranges(t))
  BY DEF PIs
<1>1. \A p \in 0 .. NPages : h.ptype[p] = IF p \in Ranges(t) THEN "USER" ELSE g.ptype[p]
  BY <1>0 DEF PgRec
<1>2. ASSUME NEW f \in Free(F) PROVE Tagged(h, f)
  <2>1. f \in ZEntry /\ t \in ZEntry /\ f # t /\ Apart(f, t) /\ 1 <= f.addr /\ End(f) <= NPages
    BY <1>0 DEF Tiled
  <2>2. f.addr \in Ranges(f) /\ End(f) - 1 \in Ranges(f) /\ Ranges(f) \cap Ranges(t) = {}
    BY <2>1, EntryFacts, ApartRanges
  <2>3. f.addr \in 0 .. NPages /\ End(f) - 1 \in 0 .. NPages
    BY <2>1, EntryFacts, PageSpace
  <2>4. h.ptype[f.addr] = g.ptype[f.addr] /\ h.ptype[End(f) - 1] = g.ptype[End(f) - 1]
    BY <1>1, <2>2, <2>3
  <2>5. QED
    BY <1>0, <2>4 DEF Tagged
<1>3. Tags(h, Free(F), {})
  <2> SUFFICES ASSUME NEW x \in 0 .. NPages
               PROVE  /\ is_pgzterm(h.ptype[x]) => \E f \in Free(F) : End(f) - 1 = x
                      /\ is_pgzstart(h.ptype[x]) => \E f \in Free(F) : f.addr = x
    BY DEF Tags
  <2>1. CASE x \in Ranges(t)
    BY <1>1, <2>1 DEF is_pgzterm, is_pgzstart
  <2>2. CASE x \notin Ranges(t)
    BY <1>0, <1>1, <2>2 DEF Tags
  <2>3. QED
    BY <2>1, <2>2
<1>4. QED
  BY <1>0, <1>2, <1>3 DEF PIs

-----------------------------------------------------------------------------
(* pginit.  Before page i the pages that are in no zone yet are those that *)
(* are no memory, those from i on, and the run that goes on at i.          *)
Singles(S) == {Entry(p, 1) : p \in S}
SameRun(p, i) == \A q \in p .. i : q \in RamPages /\ PFNZ_TYPE(q) = PFNZ_TYPE(i)
Left(i) == {p \in 1 .. NPages - 1 : p \notin RamPages \/ p >= i \/ SameRun(p, i)}

LEMMA SingleFacts ==
  ASSUME NEW p \in Nat
  PROVE  /\ Entry(p, 1) \in ZEntry /\ Ranges(Entry(p, 1)) = {p} /\ Entry(p, 1).addr = p
         /\ End(Entry(p, 1)) = p + 1
<1>1. 1 \in Sizes
  BY PgAssumption, BitIs DEF Sizes
<1>2. Entry(p, 1) \in ZEntry /\ Entry(p, 1).addr = p /\ Entry(p, 1).size = 1
  BY <1>1 DEF ZEntry, Entry
<1>3. QED
  BY <1>2, EntryFacts DEF End

LEMMA JoinTiles ==
  ASSUME NEW A, NEW H, NEW r \in ZEntry, NEW lo \in Nat, NEW hi \in Nat,
         Tiled(A, H \cup Singles(Ranges(r)), lo, hi), H \cap Singles(Ranges(r)) = {}
  PROVE  Tiled(A, H \cup {r}, lo, hi) /\ r \notin H
<1> DEFINE R == Singles(Ranges(r))
           K == H \cup {r}
<1>1. /\ A \subseteq ZEntry /\ H \subseteq ZEntry /\ A \cap (H \cup R) = {}
      /\ \A f, h \in A \cup (H \cup R) : f # h => Apart(f, h)
      /\ \A f \in A \cup (H \cup R) : lo <= f.addr /\ End(f) <= hi
      /\ \A x \in lo .. hi - 1 : \E f \in A \cup (H \cup R) : x \in Ranges(f)
  BY DEF Tiled
<1>2. /\ r.addr \in Nat /\ End(r) \in Nat /\ r.addr \in Ranges(r) /\ End(r) - 1 \in Ranges(r)
      /\ r.addr < End(r) /\ Ranges(r) \subseteq Nat
  BY EntryFacts
<1>3. \A p \in Ranges(r) : /\ Entry(p, 1) \in R /\ Entry(p, 1) \in ZEntry /\ Ranges(Entry(p, 1)) = {p}
                           /\ Entry(p, 1).addr = p /\ End(Entry(p, 1)) = p + 1
  BY <1>2, SingleFacts DEF Singles
<1>4. ASSUME NEW f \in A \cup H PROVE Apart(f, r) /\ Apart(r, f) /\ f # r
  <2>1. f \in ZEntry /\ f \notin R
    BY <1>1
  <2>2. \A p \in Ranges(r) : p \notin Ranges(f)
    <3> SUFFICES ASSUME NEW p \in Ranges(r) PROVE p \notin Ranges(f)
      OBVIOUS
    <3>1. Entry(p, 1) \in R /\ Entry(p, 1) \in ZEntry /\ Ranges(Entry(p, 1)) = {p} /\ f # Entry(p, 1)
      BY <1>3, <2>1
    <3>2. Apart(f, Entry(p, 1))
      BY <1>1, <3>1
    <3>3. QED
      BY <2>1, <3>1, <3>2, ApartRanges
  <2>3. Ranges(f) \cap Ranges(r) = {}
    BY <2>2
  <2>4. Apart(f, r)
    BY <2>1, <2>3, ApartRanges
  <2>5. QED
    BY <1>2, <2>2, <2>4 DEF Apart
<1>5. lo <= r.addr /\ End(r) <= hi
  <2>1. lo <= r.addr /\ (End(r) - 1) + 1 <= hi
    BY <1>1, <1>2, <1>3
  <2>2. QED
    BY <1>2, <2>1
<1>6. ASSUME NEW x \in lo .. hi - 1 PROVE \E f \in A \cup K : x \in Ranges(f)
  <2>1. PICK f \in A \cup (H \cup R) : x \in Ranges(f)
    BY <1>1
  <2>2. CASE f \in R
    <3>1. PICK p \in Ranges(r) : f = Entry(p, 1)
      BY <2>2 DEF Singles
    <3>2. x = p
      BY <1>3, <2>1, <3>1
    <3>3. QED
      BY <3>2
  <2>3. CASE f \notin R
    BY <2>1, <2>3
  <2>4. QED
    BY <2>2, <2>3
<1>7. ASSUME NEW f \in A \cup K, NEW h \in A \cup K, f # h PROVE Apart(f, h)
  <2>1. CASE f \in A \cup H /\ h \in A \cup H
    BY <1>1, <1>7, <2>1
  <2>2. CASE f = r \/ h = r
    BY <1>4, <1>7, <2>2
  <2>3. QED
    BY <2>1, <2>2
<1>8. r \notin A \cup H
  BY <1>4
<1>9. QED
  BY <1>1, <1>5, <1>6, <1>7, <1>8 DEF Tiled

(* The run that ends before page i.                                        *)
LEMMA RunIs ==
  ASSUME NEW i \in 1 .. NPages, RunEnds(i)
  PROVE  LET r == Entry(RunStart(i), i - RunStart(i)) IN
         /\ r \in ZEntry /\ OneZone(r) /\ r.addr = RunStart(i) /\ r.size = i - RunStart(i)
         /\ Left(i - 1) = Left(i) \cup Ranges(r) /\ Left(i) \cap Ranges(r) = {}
<1> DEFINE R == {j \in 1 .. i - 1 : SameRun(j, i - 1)}
           s == RunStart(i)
           r == Entry(s, i - s)
<1>0. /\ NPages \in Nat /\ i \in Nat /\ i - 1 \in RamPages /\ i - 1 \in Nat /\ RamPages \subseteq 1 .. NPages - 1
      /\ (i \notin RamPages \/ PFNZ_TYPE(i) # PFNZ_TYPE(i - 1))
  BY PageSpace DEF RunEnds
<1>1. s = Min(R)
  BY DEF RunStart, SameRun
<1>2. i - 1 \in R
  <2>1. i - 1 \in 1 .. i - 1
    BY <1>0
  <2>2. (i - 1) .. (i - 1) = {i - 1}
    BY <1>0
  <2>3. QED
    BY <1>0, <2>1, <2>2 DEF SameRun
<1>3. s \in R /\ \A j \in R : s <= j
  <2>1. R \subseteq Nat
    BY <1>0
  <2> HIDE DEF R
  <2>2. PICK x \in R : \A y \in R : x <= y
    BY <1>2, <2>1, LeastNumber
  <2>3. QED
    BY <1>1, <2>1, <2>2 DEF Min
<1> HIDE DEF s
<1>4. s \in Nat /\ 1 <= s /\ s <= i - 1 /\ SameRun(s, i - 1)
  BY <1>0, <1>3
<1>5. \A j \in Nat : j \in R <=> s <= j /\ j <= i - 1
  <2> SUFFICES ASSUME NEW j \in Nat PROVE j \in R <=> s <= j /\ j <= i - 1
    OBVIOUS
  <2>1. s <= j /\ j <= i - 1 => j .. i - 1 \subseteq s .. i - 1
    BY <1>0, <1>4
  <2>2. s <= j /\ j <= i - 1 => SameRun(j, i - 1) /\ j \in 1 .. i - 1
    BY <1>0, <1>4, <2>1 DEF SameRun
  <2>3. QED
    BY <1>0, <1>3, <2>2
<1>6. i - s \in Sizes
  <2>1. i - s \in Nat /\ i - s >= 1 /\ i - s <= NPages - 1
    BY <1>0, <1>4
  <2>2. QED
    BY <2>1, PgAssumption, BitIs DEF Sizes
<1>7. r \in ZEntry /\ r.addr = s /\ r.size = i - s
  BY <1>4, <1>6 DEF ZEntry, Entry
<1> HIDE DEF r
<1>8. End(r) = i
  BY <1>0, <1>4, <1>7 DEF End
<1>9. Ranges(r) = {p \in Nat : s <= p /\ p <= i - 1}
  <2>1. Ranges(r) = {p \in Nat : s <= p /\ p < i}
    BY <1>7, <1>8, EntryFacts
  <2>2. QED
    BY <1>0, <2>1
<1>10. Ranges(r) = R
  BY <1>0, <1>5, <1>9
<1>11. OneZone(r)
  <2>1. \A q \in s .. i - 1 : q \in RamPages /\ PFNZ_TYPE(q) = PFNZ_TYPE(i - 1)
    BY <1>4 DEF SameRun
  <2>2. \A q \in Ranges(r) : q \in s .. i - 1
    BY <1>0, <1>4, <1>9
  <2>3. s \in s .. i - 1
    BY <1>0, <1>4
  <2>4. QED
    BY <1>7, <2>1, <2>2, <2>3 DEF OneZone
<1>12. ASSUME NEW p \in 1 .. NPages - 1, p < i, SameRun(p, i) PROVE FALSE
  <2>1. i - 1 \in p .. i /\ i \in p .. i
    BY <1>0, <1>12
  <2>2. QED
    BY <1>0, <1>12, <2>1 DEF SameRun
<1>13. \A p \in 1 .. NPages - 1 : p \in Left(i) <=> p \notin RamPages \/ p >= i
  <2> SUFFICES ASSUME NEW p \in 1 .. NPages - 1, SameRun(p, i) PROVE p >= i
    BY DEF Left
  <2>1. QED
    BY <1>0, <1>12
<1>14. \A p \in 1 .. NPages - 1 : p \in Left(i - 1) <=> p \notin RamPages \/ p >= i \/ p \in R
  <2> SUFFICES ASSUME NEW p \in 1 .. NPages - 1
               PROVE  p >= i - 1 \/ SameRun(p, i - 1) <=> p >= i \/ p \in R
    BY DEF Left
  <2>1. p >= i => p >= i - 1
    BY <1>0
  <2>2. p = i - 1 \/ p >= i \/ p \in 1 .. i - 1
    BY <1>0
  <2>3. p >= i - 1 <=> p = i - 1 \/ p >= i
    BY <1>0
  <2>4. QED
    BY <1>2, <2>1, <2>2, <2>3
<1>15. R \subseteq 1 .. NPages - 1 /\ \A p \in R : p \in RamPages /\ ~ (p >= i)
  <2>1. ASSUME NEW p \in R PROVE p \in RamPages /\ ~ (p >= i)
    <3>1. p \in p .. i - 1 /\ ~ (p >= i)
      BY <1>0
    <3>2. QED
      BY <3>1 DEF SameRun
  <2>2. QED
    BY <1>0, <2>1
<1> HIDE DEF R
<1>16. /\ Left(i - 1) = Left(i) \cup R /\ Left(i) \cap R = {}
  <2>1. Left(i - 1) \subseteq 1 .. NPages - 1 /\ Left(i) \subseteq 1 .. NPages - 1
    BY DEF Left
  <2>2. QED
    BY <1>13, <1>14, <1>15, <2>1
<1>17. QED
  BY <1>7, <1>10, <1>11, <1>16 DEF r, s

(* Where no run ends, nothing changes.                                     *)
LEMMA NoRunIs ==
  ASSUME NEW i \in 1 .. NPages, ~ RunEnds(i)
  PROVE  Left(i - 1) = Left(i)
<1>0. /\ NPages \in Nat /\ i \in Nat /\ i - 1 \in Nat
      /\ (i - 1 \notin RamPages \/ (i \in RamPages /\ PFNZ_TYPE(i) = PFNZ_TYPE(i - 1)))
  BY PageSpace DEF RunEnds
<1> SUFFICES ASSUME NEW p \in 1 .. NPages - 1
             PROVE  (p \notin RamPages \/ p >= i - 1 \/ SameRun(p, i - 1)) <=> (p \notin RamPages \/ p >= i \/ SameRun(p, i))
  BY DEF Left
<1>1. CASE p >= i
  BY <1>0, <1>1
<1>2. CASE p < i /\ i - 1 \notin RamPages
  <2>1. i - 1 \in p .. i /\ i - 1 \in p .. i - 1 /\ (p >= i - 1 => p = i - 1)
    BY <1>0, <1>2
  <2>2. QED
    BY <1>0, <1>2, <2>1 DEF SameRun
<1>3. CASE p < i /\ i - 1 \in RamPages
  <2>1. i \in RamPages /\ PFNZ_TYPE(i) = PFNZ_TYPE(i - 1)
    BY <1>0, <1>3
  <2>2. \A q : q \in p .. i <=> q \in p .. i - 1 \/ q = i
    BY <1>0, <1>3
  <2>3. SameRun(p, i) <=> SameRun(p, i - 1)
    BY <2>1, <2>2 DEF SameRun
  <2>4. p >= i - 1 => SameRun(p, i - 1)
    <3>1. p >= i - 1 => p = i - 1 /\ p .. i - 1 = {i - 1}
      BY <1>0, <1>3
    <3>2. QED
      BY <1>3, <3>1 DEF SameRun
  <2>5. ~ (p >= i)
    BY <1>0, <1>3
  <2>6. QED
    BY <2>3, <2>4, <2>5
<1>4. QED
  BY <1>0, <1>1, <1>2, <1>3

LEMMA ScanStep ==
  ASSUME ZonesApart, NEW i \in 1 .. NPages, NEW g, NEW F, PIs(g, F, Singles(Left(i - 1)), {})
  PROVE  \E G : PIs(Scan(g, i), G, Singles(Left(i)), {})
<1>1. CASE ~ RunEnds(i)
  <2>1. Scan(g, i) = g
    BY <1>1 DEF Scan
  <2>2. Left(i - 1) = Left(i)
    BY <1>1, NoRunIs
  <2>3. QED
    BY <2>1, <2>2
<1>2. CASE RunEnds(i)
  <2> DEFINE r == Entry(RunStart(i), i - RunStart(i))
  <2>1. /\ r \in ZEntry /\ OneZone(r) /\ r.addr = RunStart(i) /\ r.size = i - RunStart(i)
        /\ Left(i - 1) = Left(i) \cup Ranges(r) /\ Left(i) \cap Ranges(r) = {}
    BY <1>2, RunIs
  <2>2. Scan(g, i) = pgzone_free(g, PFNZ_TYPE(r.addr), r.addr, r.size)
    BY <1>2, <2>1 DEF Scan
  <2> HIDE DEF r
  <2>3. Singles(Left(i - 1)) = Singles(Left(i)) \cup Singles(Ranges(r))
    BY <2>1 DEF Singles
  <2>4. Singles(Left(i)) \cap Singles(Ranges(r)) = {}
    <3>1. \A p, q : Entry(p, 1) = Entry(q, 1) => p = q
      BY DEF Entry
    <3>2. QED
      BY <2>1, <3>1 DEF Singles
  <2>5. Tiled(Free(F), Singles(Left(i)) \cup {r}, 1, NPages) /\ r \notin Singles(Left(i))
    <3>1. Tiled(Free(F), Singles(Left(i)) \cup Singles(Ranges(r)), 1, NPages)
      BY <2>3 DEF PIs
    <3>2. 1 \in Nat /\ NPages \in Nat
      BY PageSpace
    <3>3. QED
      BY <2>1, <2>4, <3>1, <3>2, JoinTiles
  <2>6. PIs(g, F, Singles(Left(i)) \cup {r}, {})
    BY <2>5 DEF PIs
  <2>7. \E G : PIs(pgzone_free(g, PFNZ_TYPE(r.addr), r.addr, r.size), G, Singles(Left(i)), {} \ Ranges(r))
    BY <2>1, <2>5, <2>6, PFreeIs
  <2>8. {} \ Ranges(r) = {}
    OBVIOUS
  <2>9. QED
    BY <2>2, <2>7, <2>8
<1>3. QED
  BY <1>1, <1>2

LEMMA BootIs == \E F : PIs(PgBoot, F, Singles(Left(0)), {})
<1> DEFINE N == [z \in Zones |-> {}]
           H == Singles(Left(0))
<1>0. NPages \in Nat /\ RamPages \subseteq 1 .. NPages - 1
  BY PageSpace
<1>1. Left(0) = 1 .. NPages - 1
  BY <1>0 DEF Left
<1>2. \A p \in 1 .. NPages - 1 : /\ Entry(p, 1) \in ZEntry /\ Ranges(Entry(p, 1)) = {p} /\ Entry(p, 1).addr = p
                                 /\ End(Entry(p, 1)) = p + 1 /\ Entry(p, 1) \in H
  BY <1>0, <1>1, SingleFacts DEF Singles
<1>3. \A e \in H : \E p \in 1 .. NPages - 1 : e = Entry(p, 1)
  BY <1>1 DEF Singles
<1> HIDE DEF H
<1>4. Tiled({}, H, 1, NPages)
  <2>1. ASSUME NEW e \in H, NEW f \in H, e # f PROVE Apart(e, f)
    <3>1. PICK p \in 1 .. NPages - 1 : e = Entry(p, 1)
      BY <1>3
    <3>2. PICK q \in 1 .. NPages - 1 : f = Entry(q, 1)
      BY <1>3
    <3>3. p # q /\ e \in ZEntry /\ f \in ZEntry /\ Ranges(e) = {p} /\ Ranges(f) = {q}
      BY <1>2, <2>1, <3>1, <3>2
    <3>4. QED
      BY <3>3, ApartRanges
  <2>2. H \subseteq ZEntry
    BY <1>2, <1>3
  <2>3. ASSUME NEW e \in H PROVE 1 <= e.addr /\ End(e) <= NPages
    <3>1. PICK p \in 1 .. NPages - 1 : e = Entry(p, 1)
      BY <1>3
    <3>2. QED
      BY <1>0, <1>2, <3>1
  <2>4. \A x \in 1 .. NPages - 1 : \E e \in H : x \in Ranges(e)
    BY <1>2
  <2>5. QED
    BY <2>1, <2>2, <2>3, <2>4 DEF Tiled
<1>5. ZRep(PgBoot.pz, N) /\ PgRec(PgBoot)
  BY ZoneInitIs DEF PgBoot, PgRec
<1>6. DOMAIN N = Zones /\ Free(N) = {} /\ InZones(N) /\ \A z \in Zones : Coalesced(N[z])
  BY DEF Free, InZones, Coalesced
<1>7. Tags(PgBoot, {}, {})
  BY DEF Tags, PgBoot, is_pgzterm, is_pgzstart
<1> HIDE DEF N
<1>8. PIs(PgBoot, N, H, {})
  BY <1>4, <1>5, <1>6, <1>7 DEF PIs
<1>9. QED
  BY <1>8 DEF H

(* The loop of pginit is the function it is meant to be.                   *)
IsScan(f, n) ==
  /\ f = [i \in 0 .. n |-> f[i]] /\ f[0] = PgBoot
  /\ \A i \in 0 .. n : i < n => f[i + 1] = Scan(f[i], i + 1)

LEMMA ScanExists == \E f : IsScan(f, NPages)
<1> DEFINE M == {m \in 0 .. NPages : \E f : IsScan(f, m)}
<1>0. NPages \in Nat
  BY PageSpace
<1>1. 0 \in M
  <2> DEFINE f == [i \in 0 .. 0 |-> PgBoot]
  <2>1. IsScan(f, 0)
    <3>1. f = [i \in 0 .. 0 |-> f[i]] /\ f[0] = PgBoot
      OBVIOUS
    <3>2. QED
      BY <3>1 DEF IsScan
  <2> HIDE DEF f
  <2>2. QED
    BY <1>0, <2>1
<1>2. \A m \in 0 .. NPages : m \in M /\ m < NPages => m + 1 \in M
  <2> SUFFICES ASSUME NEW m \in 0 .. NPages, m \in M, m < NPages PROVE m + 1 \in M
    OBVIOUS
  <2>1. PICK f : IsScan(f, m)
    OBVIOUS
  <2> DEFINE g == [i \in 0 .. m + 1 |-> IF i <= m THEN f[i] ELSE Scan(f[m], m + 1)]
  <2>2. m \in Nat
    BY <1>0
  <2>3. IsScan(g, m + 1)
    <3>1. g = [i \in 0 .. m + 1 |-> g[i]]
      OBVIOUS
    <3>2. g[0] = PgBoot
      BY <2>1, <2>2 DEF IsScan
    <3>3. ASSUME NEW i \in 0 .. m + 1, i < m + 1 PROVE g[i + 1] = Scan(g[i], i + 1)
      <4>1. i \in 0 .. m /\ i + 1 \in 0 .. m + 1 /\ g[i] = f[i]
        BY <2>2, <3>3
      <4>2. CASE i < m
        <5>1. i + 1 <= m /\ g[i + 1] = f[i + 1]
          BY <2>2, <4>1, <4>2
        <5>2. f[i + 1] = Scan(f[i], i + 1)
          BY <2>1, <4>1, <4>2 DEF IsScan
        <5>3. QED
          BY <4>1, <5>1, <5>2
      <4>3. CASE i = m
        <5>1. g[m + 1] = Scan(f[m], m + 1)
          BY <2>2
        <5> HIDE DEF g
        <5>2. QED
          BY <4>1, <4>3, <5>1
      <4>4. QED
        BY <2>2, <4>1, <4>2, <4>3
    <3> HIDE DEF g
    <3>4. QED
      BY <3>1, <3>2, <3>3 DEF IsScan
  <2> HIDE DEF g
  <2>4. m + 1 \in 0 .. NPages
    BY <1>0, <2>2
  <2>5. QED
    BY <2>3, <2>4
<1>3. NPages \in M
  <2> HIDE DEF M
  <2>1. \A m \in 0 .. NPages : m \in M
    BY <1>0, <1>1, <1>2, UpTo
  <2>2. QED
    BY <1>0, <2>1
<1>4. QED
  BY <1>3

LEMMA ScannedIs ==
  Scanned[0] = PgBoot /\ \A i \in 1 .. NPages : Scanned[i] = Scan(Scanned[i - 1], i)
<1> DEFINE Rec(f) == f = [i \in 0 .. NPages |-> IF i = 0 THEN PgBoot ELSE Scan(f[i - 1], i)]
<1>0. NPages \in Nat
  BY PageSpace
<1>1. PICK f : IsScan(f, NPages)
  BY ScanExists
<1>2. Rec(f)
  <2>1. \A i \in 0 .. NPages : f[i] = IF i = 0 THEN PgBoot ELSE Scan(f[i - 1], i)
    <3> SUFFICES ASSUME NEW i \in 0 .. NPages, i # 0 PROVE f[i] = Scan(f[i - 1], i)
      BY <1>1 DEF IsScan
    <3>1. PICK j \in 0 .. NPages : j < NPages /\ j + 1 = i /\ j = i - 1
      BY <1>0
    <3>2. f[j + 1] = Scan(f[j], j + 1)
      BY <1>1, <3>1 DEF IsScan
    <3>3. QED
      BY <3>1, <3>2
  <2>2. f = [i \in 0 .. NPages |-> f[i]]
    BY <1>1 DEF IsScan
  <2>3. QED
    BY <2>1, <2>2
<1>3. Scanned = CHOOSE g : Rec(g)
  BY DEF Scanned
<1>4. Rec(Scanned)
  BY <1>2, <1>3
<1>5. \A i \in 0 .. NPages : Scanned[i] = IF i = 0 THEN PgBoot ELSE Scan(Scanned[i - 1], i)
  BY <1>4
<1> HIDE DEF Rec
<1>6. 0 \in 0 .. NPages /\ \A i \in 1 .. NPages : i \in 0 .. NPages /\ i # 0
  BY <1>0
<1>7. QED
  BY <1>5, <1>6

LEMMA PginitIs ==
  ASSUME ZonesApart
  PROVE  \E F : PIs(pginit, F, Singles(Left(NPages)), {})
<1> DEFINE M == {i \in 0 .. NPages : \E F : PIs(Scanned[i], F, Singles(Left(i)), {})}
<1>0. NPages \in Nat
  BY PageSpace
<1>1. 0 \in M
  BY <1>0, BootIs, ScannedIs
<1>2. ASSUME NEW k \in 0 .. NPages, k \in M, k < NPages PROVE k + 1 \in M
  <2>1. PICK F : PIs(Scanned[k], F, Singles(Left(k)), {})
    BY <1>2
  <2>2. PICK i \in 1 .. NPages : i = k + 1 /\ i - 1 = k
    BY <1>0, <1>2
  <2>3. \E G : PIs(Scan(Scanned[i - 1], i), G, Singles(Left(i)), {})
    BY <2>1, <2>2, ScanStep
  <2>4. Scanned[i] = Scan(Scanned[i - 1], i) /\ i \in 0 .. NPages
    BY <1>0, ScannedIs
  <2>5. QED
    BY <2>2, <2>3, <2>4
<1>3. NPages \in M
  <2> HIDE DEF M
  <2>1. \A m \in 0 .. NPages : m \in M
    BY <1>0, <1>1, <1>2, UpTo
  <2>2. QED
    BY <1>0, <2>1
<1>4. QED
  BY <1>3 DEF pginit

-----------------------------------------------------------------------------
(* The inductive invariant.  The ranges handed out differ and each lies in *)
(* one zone; the types of the range that is being handed out are stale.    *)
NotRam == (1 .. NPages - 1) \ RamPages
IsRange(x) == x = [r |-> x.r, gfp |-> x.gfp] /\ x.r \in ZEntry /\ OneZone(x.r)
RangesOf(hs) == {h.r : h \in hs}
BeingSet == {pset[c].r : c \in PgCpus} \ {NoEntry}
Stale == UNION {Ranges(pset[c].r) : c \in PgCpus}
PgInv ==
  /\ \E F : PIs(PgState, F, (RangesOf(pheld) \cup BeingSet) \cup Singles(NotRam), Stale)
  /\ pset = [c \in PgCpus |-> pset[c]]
  /\ \A c \in PgCpus : pset[c] = NoRange \/ IsRange(pset[c])
  /\ \A h \in pheld : IsRange(h)
  /\ \A g, h \in pheld : g # h => g.r # h.r
  /\ \A h \in pheld : \A c \in PgCpus : pset[c].r # h.r

OnePgCpu == \A c, d \in PgCpus : c = d

LEMMA NoRangeFacts == NoRange.r = NoEntry /\ Ranges(NoEntry) = {} /\ NoEntry \notin ZEntry /\ NoEntry.addr = 0
<1>1. NoRange.r = NoEntry /\ NoEntry.addr = 0 /\ NoEntry.size = 0
  BY DEF NoRange, NoEntry, Entry
<1>2. End(NoEntry) = 0
  BY <1>1 DEF End
<1>3. Ranges(NoEntry) = {}
  BY <1>1, <1>2 DEF Ranges
<1>4. NoEntry \notin ZEntry
  BY <1>1, EntryFacts
<1>5. QED
  BY <1>1, <1>3, <1>4

LEMMA PgIdle ==
  ASSUME PgInv, OnePgCpu, NEW c \in PgCpus, pset[c] = NoRange
  PROVE  /\ BeingSet = {} /\ Stale = {} /\ \A d \in PgCpus : d = c /\ pset[d] = NoRange
         /\ \E F : PIs(PgState, F, RangesOf(pheld) \cup Singles(NotRam), {})
<1>1. \A d \in PgCpus : d = c /\ pset[d] = NoRange
  BY DEF OnePgCpu
<1>2. BeingSet = {} /\ Stale = {}
  BY <1>1, NoRangeFacts DEF BeingSet, Stale
<1>3. (RangesOf(pheld) \cup {}) \cup Singles(NotRam) = RangesOf(pheld) \cup Singles(NotRam)
  OBVIOUS
<1>4. QED
  BY <1>1, <1>2, <1>3 DEF PgInv

LEMMA SetPgIs ==
  ASSUME NEW g, NEW F, NEW H, NEW L, PIs(g, F, H, L), SetPg(g)
  PROVE  PgState' = g
BY DEF PIs, PgRec, SetPg, PgState

LEMMA RamRange ==
  ASSUME NEW e \in ZEntry, OneZone(e)
  PROVE  e \notin Singles(NotRam) /\ Ranges(e) \subseteq RamPages /\ e.addr >= 1
<1>1. e.addr \in Ranges(e) /\ Ranges(e) \subseteq RamPages
  BY EntryFacts DEF OneZone
<1>2. ASSUME e \in Singles(NotRam) PROVE FALSE
  <2>1. PICK p \in NotRam : e = Entry(p, 1)
    BY <1>2 DEF Singles
  <2>2. e.addr = p
    BY <2>1 DEF Entry
  <2>3. QED
    BY <1>1, <2>2 DEF NotRam
<1>3. NPages \in Nat /\ e.addr \in 1 .. NPages - 1
  BY <1>1, PageSpace
<1>4. e.addr >= 1
  BY <1>3
<1>5. QED
  BY <1>1, <1>2, <1>4

LEMMA PgInitInv ==
  ASSUME ZonesApart, PgInit
  PROVE  PgInv
<1>1. PICK F : PIs(pginit, F, Singles(Left(NPages)), {})
  BY PginitIs
<1>2. Left(NPages) = NotRam
  <2>0. NPages \in Nat /\ RamPages \subseteq 1 .. NPages - 1
    BY PageSpace
  <2>1. ASSUME NEW p \in 1 .. NPages - 1 PROVE ~ SameRun(p, NPages) /\ ~ (p >= NPages)
    <3>1. NPages \in p .. NPages /\ NPages \notin RamPages /\ ~ (p >= NPages)
      BY <2>0
    <3>2. QED
      BY <3>1 DEF SameRun
  <2>2. QED
    BY <2>1 DEF Left, NotRam
<1>3. PgState = pginit
  BY <1>1 DEF PIs, PgRec, PgState, PgInit
<1>4. pheld = {} /\ pset = [c \in PgCpus |-> NoRange] /\ RangesOf({}) = {}
  BY DEF PgInit, RangesOf
<1>5. BeingSet = {} /\ Stale = {}
  BY <1>4, NoRangeFacts DEF BeingSet, Stale
<1>6. (RangesOf(pheld) \cup BeingSet) \cup Singles(NotRam) = Singles(NotRam)
  BY <1>4, <1>5
<1>7. QED
  BY <1>1, <1>2, <1>3, <1>4, <1>5, <1>6 DEF PgInv

LEMMA TakeInv ==
  ASSUME ZonesApart, OnePgCpu, PgInv, NEW c \in PgCpus, NEW size \in PgSizes,
         NEW gfp \in {GFP_KERN, GFP_HIGH, GFP_MEM32}, PgAllocTake(c, size, gfp)
  PROVE  PgInv'
<1> DEFINE can == {z \in gfp : zone_findfree(pz, z, size) # NoEntry}
           z == Max(can)
           e == zone_findfree(pz, z, size)
           t == Entry(e.addr, size)
           x == [r |-> t, gfp |-> gfp]
           H == RangesOf(pheld) \cup Singles(NotRam)
           w == pgzone_alloc(PgState, z, e, size)
<1>1. pset[c] = NoRange
  BY DEF PgAllocTake
<1>2. CASE can = {}
  <2>1. pz' = pz /\ ptype' = ptype /\ ptag' = ptag /\ pheld' = pheld /\ pset' = pset
    BY <1>2 DEF PgAllocTake
  <2>2. PgState' = PgState /\ BeingSet' = BeingSet /\ Stale' = Stale
    BY <2>1 DEF PgState, BeingSet, Stale
  <2>3. QED
    BY <2>1, <2>2 DEF PgInv
<1>3. CASE can # {}
  <2>1. SetPg(w) /\ pset' = [pset EXCEPT ![c] = x] /\ pheld' = pheld
    BY <1>3 DEF PgAllocTake
  <2>2. gfp \subseteq Zones
    BY DEF GFP_KERN, GFP_HIGH, GFP_MEM32, Zones
  <2>3. z \in can
    <3>1. \E a \in can : \A b \in can : a >= b
      <4>1. can \subseteq {0, 2, 3}
        BY <2>2 DEF Zones
      <4> HIDE DEF can
      <4>2. CASE 3 \in can
        BY <4>1, <4>2
      <4>3. CASE 3 \notin can /\ 2 \in can
        BY <4>1, <4>3
      <4>4. CASE 3 \notin can /\ 2 \notin can
        <5>1. \A b \in can : b = 0
          BY <4>1, <4>4
        <5>2. 0 \in can
          BY <1>3, <5>1
        <5>3. QED
          BY <5>1, <5>2
      <4>5. QED
        BY <4>2, <4>3, <4>4
    <3> HIDE DEF can
    <3>2. QED
      BY <3>1 DEF Max
  <2>4. z \in Zones /\ e # NoEntry /\ size \in Sizes
    BY <2>2, <2>3, PageSpace
  <2> HIDE DEF z
  <2>5. /\ BeingSet = {} /\ Stale = {} /\ \A d \in PgCpus : d = c /\ pset[d] = NoRange
        /\ \E F : PIs(PgState, F, H, {})
    BY <1>1, PgIdle
  <2>6. PICK F : PIs(PgState, F, H, {})
    BY <2>5
  <2>7. e \in F[z] /\ e \in ZEntry /\ e.size >= size
    <3>1. ZRep(pz, F) /\ z \in DOMAIN F
      BY <2>4, <2>6 DEF PIs, PgState
    <3>2. QED
      BY <2>4, <3>1, FindIs
  <2> HIDE DEF e
  <2>8. size <= e.size
    <3>1. size \in Nat /\ e.size \in Nat
      BY <2>4, <2>7, EntryFacts, BitIs DEF Sizes
    <3>2. QED
      BY <2>7, <3>1
  <2>9. /\ t \in ZEntry /\ t \notin H /\ OneZone(t)
        /\ \E G : PIs(w, G, H \cup {t}, Ranges(t))
    <3> HIDE DEF H
    <3>1. QED
      BY <2>4, <2>6, <2>7, <2>8, PAllocIs
  <2>10. PICK G : PIs(w, G, H \cup {t}, Ranges(t))
    BY <2>9
  <2> HIDE DEF w, t
  <2>11. PgState' = w
    BY <2>1, <2>10, SetPgIs
  <2>12. pset' = [d \in PgCpus |-> x] /\ \A d \in PgCpus : pset'[d] = x
    BY <2>1, <2>5 DEF PgInv
  <2>13. x.r = t /\ IsRange(x) /\ t # NoEntry
    BY <2>9, NoRangeFacts DEF IsRange
  <2> HIDE DEF x
  <2>14. BeingSet' = {t} /\ Stale' = Ranges(t)
    BY <2>12, <2>13 DEF BeingSet, Stale
  <2>15. (RangesOf(pheld) \cup {t}) \cup Singles(NotRam) = H \cup {t}
    OBVIOUS
  <2>16. RangesOf(pheld)' = RangesOf(pheld)
    BY <2>1 DEF RangesOf
  <2>17. \A h \in pheld : h.r # t
    BY <2>9 DEF RangesOf
  <2>18. \E K : PIs(PgState', K, (RangesOf(pheld)' \cup BeingSet') \cup Singles(NotRam), Stale')
    BY <2>10, <2>11, <2>14, <2>15, <2>16
  <2>19. QED
    BY <2>1, <2>12, <2>13, <2>17, <2>18 DEF PgInv
<1>4. QED
  BY <1>2, <1>3

LEMMA SetTypeInv ==
  ASSUME OnePgCpu, PgInv, NEW c \in PgCpus, PgAllocSetType(c)
  PROVE  PgInv'
<1> DEFINE x == pset[c]
           H == (RangesOf(pheld) \cup {x.r}) \cup Singles(NotRam)
<1>1. /\ x # NoRange /\ pheld' = pheld \cup {x} /\ pset' = [pset EXCEPT ![c] = NoRange]
      /\ ptype' = [p \in DOMAIN ptype |-> IF p \in Ranges(x.r) THEN "USER" ELSE ptype[p]]
      /\ pz' = pz /\ ptag' = ptag
  BY DEF PgAllocSetType
<1>2. /\ IsRange(x) /\ \A d \in PgCpus : d = c
      /\ \A h \in pheld : h.r # x.r
  BY <1>1 DEF PgInv, OnePgCpu
<1>3. x.r \in ZEntry /\ x.r # NoEntry
  BY <1>2, NoRangeFacts DEF IsRange
<1>4. BeingSet = {x.r} /\ Stale = Ranges(x.r)
  BY <1>2, <1>3 DEF BeingSet, Stale
<1>5. PICK F : PIs(PgState, F, H, Ranges(x.r))
  BY <1>4 DEF PgInv
<1>6. pset' = [d \in PgCpus |-> NoRange]
  BY <1>1, <1>2 DEF PgInv
<1>7. BeingSet' = {} /\ Stale' = {}
  BY <1>6, NoRangeFacts DEF BeingSet, Stale
<1>8. RangesOf(pheld)' = RangesOf(pheld) \cup {x.r}
  BY <1>1 DEF RangesOf
<1> HIDE DEF x
<1>9. PIs(PgState', F, H, {})
  <2>1. /\ PgState'.pz = PgState.pz /\ PgState'.ptag = PgState.ptag
        /\ PgState'.ptype = [p \in DOMAIN PgState.ptype |-> IF p \in Ranges(x.r) THEN "USER" ELSE PgState.ptype[p]]
    BY <1>1 DEF PgState
  <2>2. PgRec(PgState)
    BY <1>5 DEF PIs
  <2>3. PgRec(PgState')
    <3>1. PgState' = [pz |-> PgState'.pz, ptype |-> PgState'.ptype, ptag |-> PgState'.ptag]
      BY DEF PgState
    <3>2. DOMAIN PgState.ptype = 0 .. NPages
      BY <2>2 DEF PgRec
    <3>3. QED
      BY <2>1, <2>2, <3>1, <3>2 DEF PgRec
  <2>4. x.r \in H
    OBVIOUS
  <2> HIDE DEF H
  <2>5. QED
    BY <1>5, <2>1, <2>3, <2>4, PSetIs
<1>10. (RangesOf(pheld)' \cup BeingSet') \cup Singles(NotRam) = H
  BY <1>7, <1>8
<1>11. \A d \in PgCpus : pset'[d] = NoRange /\ pset'[d].r = NoEntry
  BY <1>6, NoRangeFacts
<1>12. \A h \in pheld' : IsRange(h) /\ h.r # NoEntry
  <2>1. \A h \in pheld' : IsRange(h)
    BY <1>1, <1>2 DEF PgInv
  <2>2. QED
    BY <2>1, NoRangeFacts DEF IsRange
<1>13. \A g, h \in pheld' : g # h => g.r # h.r
  BY <1>1, <1>2 DEF PgInv
<1> HIDE DEF H
<1>14. \E K : PIs(PgState', K, (RangesOf(pheld)' \cup BeingSet') \cup Singles(NotRam), Stale')
  BY <1>7, <1>9, <1>10
<1>15. QED
  BY <1>6, <1>11, <1>12, <1>13, <1>14 DEF PgInv

LEMMA FreeInv ==
  ASSUME ZonesApart, OnePgCpu, PgInv, NEW c \in PgCpus, NEW h \in pheld, PgFree(c, h)
  PROVE  PgInv'
<1> DEFINE r == h.r
           R == pheld \ {h}
           H == RangesOf(R) \cup Singles(NotRam)
           w == pgzone_free(PgState, PFNZ_TYPE(r.addr), r.addr, r.size)
<1>1. pset[c] = NoRange /\ SetPg(w) /\ pheld' = R /\ pset' = pset
  BY DEF PgFree
<1>2. /\ BeingSet = {} /\ Stale = {} /\ \A d \in PgCpus : d = c /\ pset[d] = NoRange
      /\ \E F : PIs(PgState, F, RangesOf(pheld) \cup Singles(NotRam), {})
  BY <1>1, PgIdle
<1>3. r \in ZEntry /\ OneZone(r) /\ r \notin RangesOf(R)
  BY DEF PgInv, IsRange, RangesOf
<1>4. r \notin H /\ RangesOf(pheld) \cup Singles(NotRam) = H \cup {r}
  <2>1. RangesOf(pheld) = RangesOf(R) \cup {r}
    BY DEF RangesOf
  <2>2. QED
    BY <1>3, <2>1, RamRange
<1>5. PICK F : PIs(PgState, F, H \cup {r}, {})
  BY <1>2, <1>4
<1> HIDE DEF r, H
<1>6. \E G : PIs(w, G, H, {} \ Ranges(r))
  BY <1>3, <1>4, <1>5, PFreeIs
<1>7. {} \ Ranges(r) = {}
  OBVIOUS
<1>8. PICK G : PIs(w, G, H, {})
  BY <1>6, <1>7
<1> HIDE DEF w
<1>9. PgState' = w
  BY <1>1, <1>8, SetPgIs
<1>10. BeingSet' = {} /\ Stale' = {}
  BY <1>1, <1>2 DEF BeingSet, Stale
<1>11. (RangesOf(pheld)' \cup BeingSet') \cup Singles(NotRam) = H
  BY <1>1, <1>10 DEF H, RangesOf
<1>12. \E K : PIs(PgState', K, (RangesOf(pheld)' \cup BeingSet') \cup Singles(NotRam), Stale')
  BY <1>8, <1>9, <1>10, <1>11
<1>13. QED
  BY <1>1, <1>12 DEF PgInv

LEMMA PagesSoundOf == ASSUME OnePgCpu PROVE PgInv => PagesSound
<1> SUFFICES ASSUME PgInv PROVE PagesSound
  OBVIOUS
<1> DEFINE K == RangesOf(pheld) \cup BeingSet
<1>1. PICK F : PIs(PgState, F, K \cup Singles(NotRam), Stale)
  BY DEF PgInv
<1>2. /\ ZRep(pz, F) /\ DOMAIN F = Zones /\ InZones(F)
      /\ Tiled(Free(F), K \cup Singles(NotRam), 1, NPages) /\ \A z \in Zones : Coalesced(F[z])
  BY <1>1 DEF PIs, PgState
<1>3. Entries(pz) = Free(F) /\ \A z \in Zones : ZoneConsistent(pz, z)
  BY <1>2, ZoneOf DEF Free
<1>4. \A e \in K : e \in ZEntry /\ OneZone(e)
  <2>1. \A h \in pheld : h.r \in ZEntry /\ OneZone(h.r)
    BY DEF PgInv, IsRange
  <2>2. \A c \in PgCpus : pset[c].r = NoEntry \/ (pset[c].r \in ZEntry /\ OneZone(pset[c].r))
    BY NoRangeFacts DEF PgInv, IsRange
  <2>3. QED
    BY <2>1, <2>2 DEF RangesOf, BeingSet
<1>5. \A e \in Free(F) : e \in ZEntry /\ Ranges(e) \subseteq RamPages
  BY <1>2 DEF Free, InZones, Tiled
<1>6. /\ Free(F) \cap K = {}
      /\ \A e, f \in Free(F) \cup K : e # f => Ranges(e) \cap Ranges(f) = {}
  <2>1. /\ Free(F) \cap K = {} /\ \A e, f \in Free(F) \cup K : e # f => Apart(e, f)
    BY <1>2 DEF Tiled
  <2>2. QED
    BY <1>4, <1>5, <2>1, ApartRanges
<1>7. Pages(Free(F) \cup K) = RamPages
  <2>1. \A e \in Free(F) \cup K : Ranges(e) \subseteq RamPages
    BY <1>4, <1>5, RamRange
  <2>2. ASSUME NEW x \in RamPages PROVE \E e \in Free(F) \cup K : x \in Ranges(e)
    <3>1. x \in 1 .. NPages - 1
      BY PageSpace
    <3>2. PICK e \in Free(F) \cup (K \cup Singles(NotRam)) : x \in Ranges(e)
      BY <1>2, <3>1 DEF Tiled
    <3>3. ASSUME e \in Singles(NotRam) PROVE FALSE
      <4>1. PICK p \in NotRam : e = Entry(p, 1)
        BY <3>3 DEF Singles
      <4>2. p \in Nat
        BY PageSpace DEF NotRam
      <4>3. Ranges(e) = {p}
        BY <4>1, <4>2, SingleFacts
      <4>4. QED
        BY <3>2, <4>3 DEF NotRam
    <3>4. QED
      BY <3>2, <3>3
  <2>3. QED
    BY <2>1, <2>2 DEF Pages
<1>8. ZonePartition(pz, K, RamPages)
  BY <1>3, <1>6, <1>7 DEF ZonePartition
<1>9. K = {h.r : h \in pheld} \cup ({pset[c].r : c \in PgCpus} \ {NoEntry})
  BY DEF RangesOf, BeingSet
<1>10. ASSUME NEW e \in K, NEW f \in K, e.addr = f.addr PROVE e = f
  <2>1. e \in ZEntry /\ f \in ZEntry
    BY <1>4
  <2>2. e.addr \in Ranges(e) /\ f.addr \in Ranges(f)
    BY <2>1, EntryFacts
  <2>3. QED
    BY <1>6, <1>10, <2>2
<1>11. ASSUME NEW g \in pheld \cup {pset[c] : c \in PgCpus}, NEW h \in pheld \cup {pset[c] : c \in PgCpus},
              g.r.addr = h.r.addr
       PROVE  g = h
  <2>1. ASSUME NEW x \in pheld \cup {pset[c] : c \in PgCpus}
        PROVE  /\ x = NoRange \/ (x.r \in K /\ IsRange(x))
               /\ x # NoRange => x.r.addr >= 1
               /\ x = NoRange => x.r.addr = 0
    <3>1. x = NoRange \/ IsRange(x)
      BY DEF PgInv
    <3>2. IsRange(x) => x.r.addr >= 1 /\ x.r # NoEntry
      BY NoRangeFacts, RamRange DEF IsRange
    <3>3. IsRange(x) => x.r \in K
      BY <3>2 DEF RangesOf, BeingSet
    <3>4. QED
      BY <3>1, <3>2, <3>3, NoRangeFacts
  <2>2. CASE g = NoRange \/ h = NoRange
    BY <1>11, <2>1, <2>2
  <2>3. CASE g # NoRange /\ h # NoRange
    <3>1. g.r = h.r
      BY <1>10, <1>11, <2>1, <2>3
    <3>2. CASE g \in pheld /\ h \in pheld
      BY <3>1, <3>2 DEF PgInv
    <3>3. CASE g \notin pheld /\ h \notin pheld
      BY <3>3 DEF OnePgCpu
    <3>4. CASE g \in pheld /\ h \notin pheld
      BY <3>1, <3>4 DEF PgInv
    <3>5. CASE g \notin pheld /\ h \in pheld
      BY <3>1, <3>5 DEF PgInv
    <3>6. QED
      BY <3>2, <3>3, <3>4, <3>5
  <2>4. QED
    BY <2>2, <2>3
<1>12. PagesDisjoint
  BY <1>3, <1>8, <1>9, <1>11 DEF PagesDisjoint
<1>13. PagesCoalesced
  <2> SUFFICES ASSUME NEW e \in Free(F), NEW f \in Free(F), End(e) = f.addr,
                      PFNZ_TYPE(e.addr) = PFNZ_TYPE(f.addr)
               PROVE  FALSE
    BY <1>3 DEF PagesCoalesced
  <2>1. PICK y \in Zones : e \in F[y]
    BY DEF Free
  <2>2. PICK z \in Zones : f \in F[z]
    BY DEF Free
  <2>3. e.addr \in Ranges(e) /\ f.addr \in Ranges(f)
    BY <1>5, EntryFacts
  <2>4. PFNZ_TYPE(e.addr) = y /\ PFNZ_TYPE(f.addr) = z
    BY <1>2, <2>1, <2>2, <2>3 DEF InZones
  <2>5. QED
    BY <1>2, <2>1, <2>2, <2>4 DEF Coalesced
<1>14. QED
  BY <1>12, <1>13 DEF PagesSound

(* The page allocator: whatever pgalloc is asked for and in whatever order *)
(* pgfree gets it back, no page is given out twice or lost, free ranges    *)
(* are merged, and lists, bitmaps and amounts of the zones agree, from the *)
(* scan of memory in pginit on.  For any memory in which the runs before   *)
(* the boundaries of zones are at most one page long, and one CPU: another *)
(* one reads the types before pgalloc has set them.                        *)
THEOREM PagesSoundCorrect ==
  ASSUME ZonesApart, OnePgCpu
  PROVE  PgSpec => []PagesSound
<1>1. PgInit => PgInv
  BY PgInitInv
<1>2. PgInv /\ [PgNextStep]_pgVars => PgInv'
  <2> SUFFICES ASSUME PgInv, [PgNextStep]_pgVars PROVE PgInv'
    OBVIOUS
  <2>1. CASE UNCHANGED pgVars
    <3>1. pz' = pz /\ ptype' = ptype /\ ptag' = ptag /\ pheld' = pheld /\ pset' = pset
      BY <2>1 DEF pgVars
    <3>2. PgState' = PgState /\ BeingSet' = BeingSet /\ Stale' = Stale
      BY <3>1 DEF PgState, BeingSet, Stale
    <3>3. QED
      BY <3>1, <3>2 DEF PgInv
  <2>2. ASSUME NEW c \in PgCpus, NEW size \in PgSizes, NEW gfp \in {GFP_KERN, GFP_HIGH, GFP_MEM32},
               PgAllocTake(c, size, gfp)
        PROVE  PgInv'
    BY <2>2, TakeInv
  <2>3. ASSUME NEW c \in PgCpus, PgAllocSetType(c) PROVE PgInv'
    BY <2>3, SetTypeInv
  <2>4. ASSUME NEW c \in PgCpus, NEW h \in pheld, PgFree(c, h) PROVE PgInv'
    BY <2>4, FreeInv
  <2>5. QED
    BY <2>1, <2>2, <2>3, <2>4 DEF PgNextStep
<1>3. PgInv => PagesSound
  BY PagesSoundOf
<1>4. QED
  BY <1>1, <1>2, <1>3, PTL DEF PgSpec
=============================================================================

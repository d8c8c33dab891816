-------------------------------- MODULE Vmap --------------------------------
(***************************************************************************)
(* Virtual addresses: ukern/src/vmap.c for the kernel, with kvmap and      *)
(* kvunmap, and lib/libmrg/vmap.c for a process, with its callers          *)
(* dma32_alloc, dma32_free (lib/libmrg/dma32.c) and diomap                 *)
(* (lib/libmrg/dio.c).  Both include the zone allocator; its entries are   *)
(* the nodes of a search tree.  The kernel's tree has the free ranges      *)
(* only; that of a process also has those in use, with their type.         *)
(*                                                                         *)
(* A page is an address divided by PAGE_SIZE; the low bits of an address,  *)
(* where they matter, are 0 .. Low - 1.                                    *)
(***************************************************************************)
EXTENDS Zone

CONSTANTS KVA_SVMAP, KVA_EVMAP,  \* the kernel's addresses, in pages
          VM_MINMMAP_ADDRESS,    \* those of a process, in pages
          VM_MAXMMAP_ADDRESS,
          Low,        \* addresses per page
          KvLens,     \* lengths, in addresses, that kvmap is called with
          DmaPages    \* sizes, in pages, that a process asks for

round_page(x) == (x + Low - 1) \div Low
PagesOf(lob, len) == round_page(lob + len)

ASSUME VmapAssumption ==
  /\ Low \in Nat \ {0} /\ KvLens \subseteq Nat \ {0} /\ DmaPages \subseteq Sizes
  /\ {KVA_SVMAP, KVA_EVMAP, VM_MINMMAP_ADDRESS, VM_MAXMMAP_ADDRESS} \subseteq Nat \ {0}
  /\ {KVA_EVMAP - KVA_SVMAP, VM_MAXMMAP_ADDRESS - VM_MINMMAP_ADDRESS} \subseteq Sizes
  /\ \A lob \in 0 .. Low - 1, len \in KvLens : PagesOf(lob, len) \in Sizes

KvaPages == KVA_SVMAP .. KVA_EVMAP - 1
MmapPages == VM_MINMMAP_ADDRESS .. VM_MAXMMAP_ADDRESS - 1

VARIABLES kv,     \* kernel: [tree, z]: nodes of the tree and the zone
          kheld,  \* mappings that kvmap has returned: [va, lob, len]
          kpte,   \* kernel pages with a page table entry
          uv,     \* process: [tree, z]
          uheld   \* ranges of the process in use

kvVars == <<kv, kheld, kpte>>
uvVars == <<uv, uheld>>
vmapVars == <<kv, kheld, kpte, uv, uheld>>

Node(e, type) == [addr |-> e.addr, size |-> e.size, type |-> type]
EntryOf(n) == Entry(n.addr, n.size)

(* vmap_find: the node that holds the page.                                *)
vmap_find(tree, p) == {n \in tree : p \in Ranges(EntryOf(n))}
FreeAt(tree, p) == LET f == {n \in vmap_find(tree, p) : n.type = "FREE"}
                   IN IF f = {} THEN NoEntry ELSE EntryOf(CHOOSE n \in f : TRUE)

(* vmapzone_free: ___get_neighbors looks both sides up, ___freeptr and     *)
(* ___mkptr take the merged nodes out and put the new one in.              *)
VNeighborNot(v, addr, size) == [p |-> NoEntry, n |-> FreeAt(v.tree, addr)] \* mutant: off by one
VNeighbors(v, addr, size) == [p |-> FreeAt(v.tree, addr - 1), n |-> FreeAt(v.tree, addr + size)]
vmapzone_free(v, addr, size) ==
  LET nb == VNeighbors(v, addr, size)
      gone == {Node(nb.p, "FREE"), Node(nb.n, "FREE")}
  IN [tree |-> (v.tree \ gone) \cup {Node(Merged(addr, size, nb.p, nb.n), "FREE")},
      z |-> zone_create(v.z, 0, addr, size, nb.p, nb.n)]

(* vmapzone_alloc of an entry that zone_findfree has returned.             *)
vmapzone_alloc(v, e, size) ==
  LET v1 == [tree |-> v.tree \ {Node(e, "FREE")}, z |-> zone_detachentry(v.z, 0, e)]
  IN IF e.size = size THEN v1 ELSE vmapzone_free(v1, e.addr + size, e.size - size)

(* vmap_init and the first vmap_free: the whole range is free.             *)
AllFree(start, end) ==
  vmapzone_free([tree |-> {}, z |-> ZoneInit({0})], start, end - start)

VmapInit ==
  /\ kv = AllFree(KVA_SVMAP, KVA_EVMAP)
  /\ kheld = {}
  /\ kpte = {}
  /\ uv = AllFree(VM_MINMMAP_ADDRESS, VM_MAXMMAP_ADDRESS)
  /\ uheld = {}

-----------------------------------------------------------------------------
(* kvmap: the address is rounded down and the end up, a range is taken,    *)
(* every page is entered and the low bits are put back.  No range: panic.  *)
kvmap(lob, len) ==
  LET n == PagesOf(lob, len)
      e == zone_findfree(kv.z, 0, n) IN
  /\ e # NoEntry
  /\ kv' = vmapzone_alloc(kv, e, n)
  /\ kpte' = kpte \cup (e.addr .. e.addr + n - 1)
  /\ kheld' = kheld \cup {[va |-> e.addr, lob |-> lob, len |-> len]}
  /\ UNCHANGED uvVars

(* kvunmap of an address and a length that kvmap was called with.          *)
KvEnd(m) == round_page(m.lob + m.len)
kvunmap(m) ==
  /\ kpte' = kpte \ (m.va .. m.va + KvEnd(m) - 1)
  /\ kv' = vmapzone_free(kv, m.va, KvEnd(m))
  /\ kheld' = kheld \ {m}
  /\ UNCHANGED uvVars

(* libmrg's vmap_alloc also records the range in use; vmap_free checks it. *)
uvmap_alloc(v, e, n, type) ==
  LET v1 == vmapzone_alloc(v, e, n)
  IN [v1 EXCEPT !.tree = @ \cup {Node(Entry(e.addr, n), type)}]
uvmap_free(v, n) == vmapzone_free([v EXCEPT !.tree = @ \ {n}], n.addr, n.size)

(* dma32_alloc: if a page cannot be mapped the range is given back.        *)
dma32_alloc(n) ==
  LET e == zone_findfree(uv.z, 0, n)
      v == uvmap_alloc(uv, e, n, "MEM32")
      r == Node(Entry(e.addr, n), "MEM32") IN
  /\ e # NoEntry
  /\ \/ uv' = v /\ uheld' = uheld \cup {r}
     \/ uv' = uvmap_free(v, r) /\ UNCHANGED uheld
  /\ UNCHANGED kvVars

(* dma32_free.  (How many pages it unmaps hangs on an uninitialised        *)
(* variable; the range is given back in any case.)                         *)
dma32_free(r) ==
  /\ r.type = "MEM32"
  /\ vmap_find(uv.tree, r.addr) = {r}       \* assertions of vmap_free
  /\ uv' = uvmap_free(uv, r)
  /\ uheld' = uheld \ {r}
  /\ UNCHANGED kvVars

(* diomap: the range stays taken whether or not the device could be mapped. *)
diomap(n) ==
  LET e == zone_findfree(uv.z, 0, n) IN
  /\ e # NoEntry
  /\ uv' = uvmap_alloc(uv, e, n, "MMIO")
  /\ uheld' = uheld \cup {Node(Entry(e.addr, n), "MMIO")}
  /\ UNCHANGED kvVars

KvNext ==
  \/ \E lob \in 0 .. Low - 1, len \in KvLens : kvmap(lob, len)
  \/ \E m \in kheld : kvunmap(m)
UvNext ==
  \/ \E n \in DmaPages : dma32_alloc(n) \/ diomap(n)
  \/ \E r \in uheld : dma32_free(r)
VmapNext == KvNext \/ UvNext

VmapSpec == VmapInit /\ [][VmapNext]_vmapVars

-----------------------------------------------------------------------------
(* Type invariant.                                                         *)
VmapTypeOK ==
  /\ \A n \in kv.tree : n.type = "FREE"
  /\ \A n \in uv.tree : n.type \in {"FREE", "MEM32", "MMIO"}
  /\ \A m \in kheld : m.va \in KvaPages /\ m.lob \in 0 .. Low - 1 /\ m.len \in KvLens
  /\ kpte \subseteq KvaPages
  /\ uheld \subseteq {n \in uv.tree : n.type # "FREE"}

(* What is free and what is in use are a partition of the addresses, the   *)
(* tree and the lists name the same free ranges, and no two of them are    *)
(* adjacent: an address is never given out twice.                          *)
VmapPartition ==
  /\ ZonePartition(kv.z, {Entry(m.va, PagesOf(m.lob, m.len)) : m \in kheld}, KvaPages)
  /\ ZonePartition(uv.z, {EntryOf(r) : r \in uheld}, MmapPages)
  /\ \A m, n \in kheld : m.va = n.va => m = n
  /\ \A r, s \in uheld : r.addr = s.addr => r = s
  /\ \A v \in {kv, uv} :
       /\ ZoneConsistent(v.z, 0)
       /\ {EntryOf(n) : n \in {f \in v.tree : f.type = "FREE"}} = Entries(v.z)
       /\ \A e, f \in Entries(v.z) : End(e) # f.addr

(* kvunmap finds the pages that kvmap mapped from an address and a length  *)
(* that need not be aligned: exactly the live mappings have entries.       *)
KvMapsExact == kpte = UNION {m.va .. m.va + PagesOf(m.lob, m.len) - 1 : m \in kheld}

(* The two address allocators, and the kernel's page table under one.      *)
VmapSound == VmapPartition /\ KvMapsExact
=============================================================================

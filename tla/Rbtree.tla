------------------------------- MODULE Rbtree -------------------------------
(***************************************************************************)
(* The red-black tree of ukern/lib/gen/rb.c, which holds the devices of    *)
(* the bus, the zones of vmap and the disks of blk.  An object is its key. *)
(*                                                                         *)
(* A tree is the record of its pointers.  Its head is a node whose left    *)
(* son is the root, by the trick that rb_tree_insert_node explains.        *)
(* The fields of a node outside the tree are Blank: the caller frees it or *)
(* inserts it again, which writes all of them.                             *)
(***************************************************************************)
EXTENDS Integers, FiniteSets, SequencesExt

CONSTANT RbKeys                  \* keys of the objects
ASSUME RbAssumption == IsFiniteSet(RbKeys) /\ RbKeys \subseteq Nat \ {0}

Top == 0                        \* (struct rb_node *)&rbt->rbt_root
Nil  == -1                       \* RB_SENTINEL_NODE
Dirs == {0, 1}                   \* RB_DIR_LEFT, RB_DIR_RIGHT
Other(d) == 1 - d

VARIABLES rbt,     \* ch, fa, pos, red: sons, father and flags of the nodes;
                   \* mm: rbt_minmax
          rbret    \* answer of the last operation

rbVars == <<rbt, rbret>>

Leaf == [d \in Dirs |-> Nil]

(* rb_tree_init.                                                           *)
rb_tree_init ==
  [ch |-> [n \in RbKeys \cup {Top} |-> Leaf], fa |-> [n \in RbKeys |-> Nil],
   pos |-> [n \in RbKeys |-> 0], red |-> [n \in RbKeys |-> FALSE], mm |-> Leaf]

Root(t) == t.ch[Top][0]
Red(t, n) == n # Nil /\ t.red[n]
Black(t, n) == ~Red(t, n)
Childless(t, n) == n = Nil \/ t.ch[n] = Leaf
TwoChildren(t, n) == n # Nil /\ \A d \in Dirs : t.ch[n][d] # Nil

Mark(t, ns, red) == [t EXCEPT !.red = [n \in RbKeys |-> IF n \in ns THEN red ELSE @[n]]]
Blank(t, n) == [t EXCEPT !.ch[n] = Leaf, !.fa[n] = Nil, !.pos[n] = 0, !.red[n] = FALSE]

-----------------------------------------------------------------------------
(* rb_tree_find_node, rb_tree_find_node_geq, rb_tree_find_node_leq: down   *)
(* from the root, remembering the last node above or below the key.        *)
RECURSIVE Descend(_, _, _, _, _)
Descend(t, n, key, dirs, last) ==
  CASE n = Nil -> last
    [] n = key -> n
    [] OTHER -> LET d == IF n < key THEN 1 ELSE 0
                IN  Descend(t, t.ch[n][d], key, dirs, IF d \in dirs THEN n ELSE last)
rb_tree_find_node(t, key) == Descend(t, Root(t), key, {}, Nil)
rb_tree_find_node_geq(t, key) == Descend(t, Root(t), key, {0}, Nil)
rb_tree_find_node_leq(t, key) == Descend(t, Root(t), key, {1}, Nil)

(* rb_tree_iterate: the object next to one in a direction; that of Nil is  *)
(* the first one from the other end.                                       *)
RECURSIVE Climb(_, _, _)
Climb(t, n, dir) ==
  CASE n = Root(t) -> Nil
    [] t.pos[n] = Other(dir) -> t.fa[n]
    [] OTHER -> Climb(t, t.fa[n], dir)
RECURSIVE Far(_, _, _)
Far(t, n, dir) == IF t.ch[n][dir] = Nil THEN n ELSE Far(t, t.ch[n][dir], dir)
rb_tree_iterate(t, n, dir) ==
  CASE n = Nil -> IF Root(t) = Nil THEN Nil ELSE t.mm[dir]
    [] t.ch[n][dir] = Nil -> Climb(t, n, dir)
    [] OTHER -> Far(t, t.ch[n][dir], Other(dir))

-----------------------------------------------------------------------------
(* rb_tree_reparent_nodes: a father and its son change places and colours. *)
rb_tree_reparent_nodes(t, old, which) ==
  LET other == Other(which)
      gp    == t.fa[old]
      son   == t.ch[old][which]
      grand == t.ch[son][other]
  IN  [t EXCEPT
        !.ch = [@ EXCEPT ![gp][t.pos[old]] = son, ![old][which] = grand, ![son][other] = old],
        !.fa = [n \in RbKeys |-> CASE n = son -> gp [] n = old -> son [] n = grand -> old
                                   [] OTHER -> @[n]],
        !.pos = [n \in RbKeys |-> CASE n = son -> @[old] [] n = old -> other
                                    [] n = grand -> which [] OTHER -> @[n]],
        !.red = [@ EXCEPT ![son] = t.red[old], ![old] = t.red[son]]]

(* rb_tree_insert_rebalance: self and its father are red.                  *)
RECURSIVE rb_tree_insert_rebalance(_, _)
rb_tree_insert_rebalance(t, self) ==
  LET father == t.fa[self]
      gp     == t.fa[father]
      which  == IF father = t.ch[gp][1] THEN 1 ELSE 0
      other  == Other(which)
      uncle  == t.ch[gp][other]
      up     == Mark(t, {uncle, father}, FALSE)
      turned == IF self = t.ch[father][other]
                THEN rb_tree_reparent_nodes(t, father, other) ELSE t
      done   == rb_tree_reparent_nodes(turned, gp, which)
  IN  CASE Black(t, uncle) -> Mark(done, {Root(done)}, FALSE)
        [] Red(t, uncle) /\ gp = Root(t) -> up
        [] Red(t, uncle) /\ gp # Root(t) /\ Black(t, t.fa[gp]) -> Mark(up, {gp}, TRUE)
        [] OTHER -> rb_tree_insert_rebalance(Mark(up, {gp}, TRUE), gp)

(* rb_tree_insert_node.  Place: the father of a new node.                  *)
RECURSIVE Place(_, _, _)
Place(t, n, key) ==
  LET d == IF n < key THEN 1 ELSE 0
  IN  IF t.ch[n][d] = Nil THEN n ELSE Place(t, t.ch[n][d], key)
rb_tree_insert_node(t, self) ==
  IF Root(t) = Nil
  THEN [t EXCEPT !.ch[Top][0] = self, !.fa[self] = Top, !.mm = [d \in Dirs |-> self]]
  ELSE LET parent == Place(t, Root(t), self)
           d  == IF parent < self THEN 1 ELSE 0
           t1 == [t EXCEPT !.fa[self] = parent, !.pos[self] = d, !.red[self] = TRUE,
                           !.ch[parent][d] = self,
                           !.mm[d] = IF @ = parent THEN self ELSE @]
       IN  IF Red(t, parent) THEN rb_tree_insert_rebalance(t1, self) ELSE t1

-----------------------------------------------------------------------------
(* rb_tree_removal_rebalance: the subtree of parent on one side lacks a    *)
(* black node.                                                             *)
RECURSIVE rb_tree_removal_rebalance(_, _, _)
rb_tree_removal_rebalance(t, parent, which) ==
  LET other   == Other(which)
      bro     == t.ch[parent][other]
      Nephews(x, b) == \A d \in Dirs : Black(x, x.ch[b][d])
      \* case 1: a red brother gives way to its near son
      t1      == IF Black(t, parent) /\ Nephews(t, bro)
                 THEN rb_tree_reparent_nodes(t, parent, other) ELSE t
      b1      == t1.ch[parent][other]
      \* case 3: the near nephew takes the place of the brother
      t2      == IF Black(t1, t1.ch[b1][other])
                 THEN rb_tree_reparent_nodes(t1, b1, which) ELSE t1
      b2      == t2.ch[parent][other]
      t3      == Mark(t2, {t2.ch[b2][other]}, FALSE)
  IN  CASE Red(t, t.ch[parent][which]) -> t
        [] Black(t, parent) /\ Black(t, bro) /\ Nephews(t, bro) /\ Black(t, t.ch[parent][which]) ->
             LET up == Mark(t, {bro}, TRUE)
             IN  IF parent = Root(t) THEN up
                 ELSE rb_tree_removal_rebalance(up, t.fa[parent], t.pos[parent])
        [] OTHER ->
             IF Red(t1, parent) /\ Black(t1, b1) /\ Nephews(t1, b1)
             THEN Mark(Mark(t1, {parent}, FALSE), {b1}, TRUE)
             ELSE rb_tree_reparent_nodes(t3, parent, other)

(* rb_tree_prune_node: a node without sons.                                *)
rb_tree_prune_node(t, self, rebalance) ==
  LET father == t.fa[self]
      which  == t.pos[self]
      root   == Root(t) = self
      t1     == Blank([t EXCEPT !.ch[father][which] = Nil,
                                !.mm = [d \in Dirs |->
                                  IF t.mm[which] = self /\ (d = which \/ (root /\ d = 1))
                                  THEN father ELSE @[d]]], self)
  IN  IF rebalance THEN rb_tree_removal_rebalance(t1, father, which) ELSE t1

(* rb_tree_prune_blackred_branch: a black node with a red son only.        *)
rb_tree_prune_blackred_branch(t, self, which) ==
  LET father == t.fa[self]
      son    == t.ch[self][which]
      side   == IF Root(t) = self THEN Other(which) ELSE t.pos[self]
  IN  Blank([t EXCEPT !.pos[son] = t.pos[self], !.red[son] = t.red[self],
                      !.ch[father][t.pos[self]] = son, !.fa[son] = father,
                      !.mm[side] = IF Root(t) = self \/ @ = self THEN son ELSE @], self)

(* rb_tree_swap_prune_and_rebalance: standin, the neighbour of self in the *)
(* order, takes the place of a node with two sons, which is neither the    *)
(* least nor the greatest.                                                 *)
rb_tree_swap_prune_and_rebalance(t, self, standin) ==
  LET which  == t.pos[standin]
      other  == Other(which)
      child  == t.fa[standin] = self
      father == IF child THEN standin ELSE t.fa[standin]
      son    == t.ch[standin][IF child THEN which ELSE other]
      moved  == IF child THEN {other} ELSE Dirs      \* sides where self's sons are adopted
      t1     == [t EXCEPT
                  !.ch = [n \in RbKeys \cup {Top} |->
                    CASE n = standin -> [d \in Dirs |-> IF d \in moved /\ t.ch[self][d] # standin
                                                        THEN t.ch[self][d] ELSE @[n][d]]
                      [] n = father /\ ~child -> [@[n] EXCEPT ![which] = son]
                      [] OTHER -> @[n]],
                  !.fa = [n \in RbKeys |->
                    CASE n = standin -> @[self]
                      [] n = son -> father
                      [] \E d \in moved : n = t.ch[self][d] -> standin
                      [] OTHER -> @[n]],
                  !.pos = [n \in RbKeys |-> CASE n = standin -> @[self] [] n = son -> which
                                              [] OTHER -> @[n]],
                  !.red = [n \in RbKeys |-> CASE n = standin -> @[self] [] n = son -> FALSE
                                              [] OTHER -> @[n]]]
      t2     == Blank([t1 EXCEPT !.ch[t.fa[self]][t.pos[self]] = standin], self)
  IN  IF Black(t, standin) /\ son = Nil THEN rb_tree_removal_rebalance(t2, father, which) ELSE t2

(* rb_tree_remove_node.                                                    *)
rb_tree_remove_node(t, self) ==
  CASE Childless(t, self) ->
         rb_tree_prune_node(t, self, Black(t, self) /\ Root(t) # self)
    [] TwoChildren(t, self) ->
         rb_tree_swap_prune_and_rebalance(t, self, rb_tree_iterate(t, self, Other(t.pos[self])))
    [] OTHER ->
         rb_tree_prune_blackred_branch(t, self, IF t.ch[self][0] = Nil THEN 1 ELSE 0)

-----------------------------------------------------------------------------
RbInit == rbt = rb_tree_init /\ rbret = "out"

RbInsertMine(k) ==               \* mutant: answers with the object it was given
  /\ rbret' = "in"
  /\ rbt' = IF rb_tree_find_node(rbt, k) = k THEN rbt ELSE rb_tree_insert_node(rbt, k)
RbInsert(k) ==
  /\ rbret' = IF rb_tree_find_node(rbt, k) = k THEN "there" ELSE "in"
  /\ rbt' = IF rb_tree_find_node(rbt, k) = k THEN rbt ELSE rb_tree_insert_node(rbt, k)

(* The callers remove an object that they have found.                      *)
RbRemove(k) ==
  /\ rb_tree_find_node(rbt, k) = k
  /\ rbt' = rb_tree_remove_node(rbt, k)
  /\ rbret' = "out"

RbNext == \E k \in RbKeys : RbInsert(k) \/ RbRemove(k)
RbSpec == RbInit /\ [][RbNext]_rbVars

-----------------------------------------------------------------------------
RECURSIVE InOrder(_, _)
InOrder(t, n) ==
  IF n = Nil THEN <<>> ELSE InOrder(t, t.ch[n][0]) \o <<n>> \o InOrder(t, t.ch[n][1])
RECURSIVE rb_tree_count_black(_, _)
rb_tree_count_black(t, n) ==     \* -1 where two branches differ
  IF n = Nil THEN 0
  ELSE LET l == rb_tree_count_black(t, t.ch[n][0])
           r == rb_tree_count_black(t, t.ch[n][1])
       IN  IF l = r /\ l # -1 THEN l + (IF Black(t, n) THEN 1 ELSE 0) ELSE -1
RbSeq == InOrder(rbt, Root(rbt))
RbSet == ToSet(RbSeq)

(* Type invariant.                                                         *)
RbTypeOK ==
  LET ptr == RbKeys \cup {Top, Nil}
  IN  /\ rbt.ch \in [RbKeys \cup {Top} -> [Dirs -> ptr \ {Top}]]
      /\ rbt.fa \in [RbKeys -> ptr]
      /\ rbt.pos \in [RbKeys -> Dirs]
      /\ rbt.red \in [RbKeys -> BOOLEAN]
      /\ rbt.mm \in [Dirs -> ptr]
      /\ rbret \in {"in", "there", "out"}

(* What rb_tree_check_node asserts in a debugging build of every node,     *)
(* after any sequence of insertions and removals: father, side and son     *)
(* agree, a red node is not the root and has black sons, and every path    *)
(* has the same number of black nodes.                                     *)
RbBalanced ==
  /\ Black(rbt, Root(rbt)) /\ rb_tree_count_black(rbt, Root(rbt)) # -1
  /\ \A n \in RbSet :
       /\ rbt.ch[rbt.fa[n]][rbt.pos[n]] = n
       /\ Red(rbt, n) => n # Root(rbt) /\ \A d \in Dirs : Black(rbt, rbt.ch[n][d])

(* Every lookup answers what it would on the sorted sequence of the keys:  *)
(* the object, the first one above or below a key that is not there, and   *)
(* the neighbours that RB_TREE_FOREACH and blk_iterate walk, which start   *)
(* at the cached rbt_minmax.                                               *)
RbLookups ==
  LET Pick(S, d) == IF S = {} THEN Nil ELSE IF d = 0 THEN Max(S) ELSE Min(S)
      Above(k) == {n \in RbSet : n > k}
      Below(k) == {n \in RbSet : n < k}
  IN  /\ \A i, j \in 1..Len(RbSeq) : i < j => RbSeq[i] < RbSeq[j]
      /\ \A k \in RbKeys :
           /\ rb_tree_find_node(rbt, k) = IF k \in RbSet THEN k ELSE Nil
           /\ rb_tree_find_node_geq(rbt, k) = Pick(Above(k - 1), 1)
           /\ rb_tree_find_node_leq(rbt, k) = Pick(Below(k + 1), 0)
      /\ \A k \in RbSet : /\ rb_tree_iterate(rbt, k, 0) = Pick(Below(k), 0)
                          /\ rb_tree_iterate(rbt, k, 1) = Pick(Above(k), 1)
      /\ rb_tree_iterate(rbt, Nil, 0) = Pick(RbSet, 1)
      /\ rb_tree_iterate(rbt, Nil, 1) = Pick(RbSet, 0)

(* Balance and lookups, after any sequence of insertions and removals.     *)
RbSound == RbBalanced /\ RbLookups

(* The tree implements the set of keys that its users take it for: a       *)
(* removal takes out its own object and no other, an insertion of a key    *)
(* that is there changes nothing and says so.  In between, RbSound holds.  *)
RbAbs == INSTANCE OrdSet WITH Elems <- RbKeys, set <- RbSet, last <- rbret
RbIsSet == RbAbs!OSSpec /\ []RbSound
=============================================================================

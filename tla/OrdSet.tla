------------------------------- MODULE OrdSet -------------------------------
(***************************************************************************)
(* What the kernel and libmrg expect of a tree of rbtree.h: a set of keys. *)
(* rb_tree_insert_node answers with the object that is in the tree for the *)
(* key afterwards, which is another one when the key was there before.     *)
(***************************************************************************)
CONSTANT Elems
VARIABLES set,     \* keys in the tree
          last     \* answer of the last operation: "in", "there" or "out"

OSInit == set = {} /\ last = "out"

OSInsert(k) ==
  /\ last' = IF k \in set THEN "there" ELSE "in"
  /\ set' = set \cup {k}
OSRemove(k) == k \in set /\ set' = set \ {k} /\ last' = "out"

OSSpec == OSInit /\ [][\E k \in Elems : OSInsert(k) \/ OSRemove(k)]_<<set, last>>
=============================================================================

--------------------------------- MODULE Blk ---------------------------------
(***************************************************************************)
(* The block devices of a process: the registry of lib/libmrg/blk.c, the   *)
(* partitions of lib/libpart/part.c, the scan for them in bootstrap.c and  *)
(* the file descriptors of rumpuser.c.                                     *)
(*                                                                         *)
(* A struct blkdisk is an object with a number, in the order of creation;  *)
(* a partition is one whose struct part holds an open base.  The scan      *)
(* waits for the disk, and the rest of the process runs meanwhile.         *)
(***************************************************************************)
EXTENDS Integers, SequencesExt, FiniteSetsExt

CONSTANTS BNames,    \* names of block devices: positive numbers
          BlkMax,    \* bound: objects
          FdMax,     \* size of fildes: 256
          DiskLen    \* blocks of a disk

ASSUME BlkAssumption ==
  BNames \subseteq Nat \ {0} /\ {BlkMax, FdMax, DiskLen} \subseteq Nat

VARIABLES bobj,      \* the objects: [name, base, start, len, ref, invalid, freed]
          btree,     \* numbers of those in blk_rbtree
          bfd,       \* fildes, up to next: numbers, or 0
          bscan,     \* part_scan: [at, cur, obj]
          bleak,     \* numbers that mbr_scan has opened and not closed
          bio        \* the last read that reached a disk: [via, from, n]

blkVars == <<bobj, btree, bfd, bscan, bleak, bio>>
NoIo == [via |-> 0, from |-> 0, n |-> 0]

BlkInit ==
  /\ bobj = <<>> /\ btree = {} /\ bfd = <<>> /\ bleak = <<>>
  /\ bscan = [at |-> "iter", cur |-> 0, obj |-> 0] /\ bio = NoIo

-----------------------------------------------------------------------------
(* rb_tree_find_node, and rb_tree_insert_node, which leaves out an object  *)
(* whose name is there already.                                            *)
Find(n) == {o \in btree : bobj[o].name = n}
Added(objs, tree, n, base, start, len) ==
  [objs |-> Append(objs, [name |-> n, base |-> base, start |-> start, len |-> len,
                          ref |-> 0, invalid |-> FALSE, freed |-> FALSE]),
   tree |-> IF \E o \in tree : objs[o].name = n THEN tree ELSE tree \cup {Len(objs) + 1}]

(* blk_open and blk_close.                                                 *)
Opened(objs, o) == [objs EXCEPT ![o].ref = @ + 1]
ClosedAlways(objs, o) ==         \* mutant: frees at the first close
  [objs EXCEPT ![o].ref = @ - 1, ![o].freed = objs[o].invalid]
Closed(objs, o) ==
  [objs EXCEPT ![o].ref = @ - 1,
               ![o].freed = objs[o].invalid /\ objs[o].ref = 1]

(* blk_add by a driver, and blk_del.                                       *)
BlkAdd(n) ==
  /\ Len(bobj) < BlkMax
  /\ LET a == Added(bobj, btree, n, 0, 0, DiskLen) IN bobj' = a.objs /\ btree' = a.tree
  /\ UNCHANGED <<bfd, bscan, bleak, bio>>
BlkDel(n) ==
  \E o \in Find(n) :
    /\ bobj' = [bobj EXCEPT ![o].invalid = TRUE, ![o].freed = bobj[o].ref = 0]
    /\ btree' = btree \ {o}
    /\ UNCHANGED <<bfd, bscan, bleak, bio>>

(* blk_read of n blocks at b: through the partitions, each of which checks *)
(* its own bounds, to the disk, where it starts at from, or to an error.   *)
PartRefuses(p, b, n) == b >= p.len \/ b + n >= p.len
Up(up, n) ==                          \* from an object and a block in it to its base
  LET p == bobj[up.obj]
  IN  IF up.obj = 0 \/ p.invalid \/ (p.base # 0 /\ PartRefuses(p, up.from, n))
      THEN [obj |-> 0, from |-> -1]
      ELSE IF p.base = 0 THEN up
      ELSE [obj |-> p.base, from |-> p.start + up.from]
Reaches(o, b, n) ==
  LET at[k \in 0..Len(bobj)] ==
        IF k = 0 THEN [obj |-> o, from |-> b] ELSE Up(at[k - 1], n)
  IN  at[Len(bobj)].from

-----------------------------------------------------------------------------
(* rumpuser_open, _close, _getfileinfo, and the read of rumpuser_bio.  A   *)
(* descriptor is never used again.                                         *)
RumpOpen(n) ==
  \E o \in Find(n) :
    /\ IF Len(bfd) < FdMax THEN bobj' = Opened(bobj, o) /\ bfd' = Append(bfd, o)
       ELSE bobj' = Closed(Opened(bobj, o), o) /\ UNCHANGED bfd
    /\ UNCHANGED <<btree, bscan, bleak, bio>>
RumpClose(fd) ==
  /\ fd \in DOMAIN bfd /\ bfd[fd] # 0
  /\ bobj' = Closed(bobj, bfd[fd]) /\ bfd' = [bfd EXCEPT ![fd] = 0]
  /\ UNCHANGED <<btree, bscan, bleak, bio>>
RumpRead(fd, b, n) ==
  /\ fd \in DOMAIN bfd /\ bfd[fd] # 0
  /\ LET from == Reaches(bfd[fd], b, n)
     IN  bio' = IF from < 0 THEN NoIo ELSE [via |-> bfd[fd], from |-> from, n |-> n]
  /\ UNCHANGED <<bobj, btree, bfd, bscan, bleak>>

-----------------------------------------------------------------------------
(* The loop of bootstrap.c over blk_iter: the next name, which is opened   *)
(* by mbr_scan and whose first block is read.                              *)
IterNext == {o \in btree : bobj[o].name > bscan.cur}
ScanOpen ==
  /\ bscan.at = "iter" /\ IterNext # {}
  /\ bscan.cur # 0 => Find(bscan.cur) # {}
  /\ LET o == CHOOSE x \in IterNext : \A y \in IterNext : bobj[x].name <= bobj[y].name
         ok == Reaches(o, 0, 1) >= 0
     IN  /\ bobj' = Opened(bobj, o)
         /\ bscan' = [at |-> IF ok THEN "read" ELSE "iter", cur |-> bobj[o].name, obj |-> o]
         /\ bleak' = IF ok THEN bleak ELSE Append(bleak, o)
  /\ UNCHANGED <<btree, bfd, bio>>

(* After evtwait: an error, or no MBR, and mbr_scan returns with the disk  *)
(* open, ...                                                               *)
ScanLeaves ==
  /\ bscan.at = "read"
  /\ bscan' = [bscan EXCEPT !.at = "iter"] /\ bleak' = Append(bleak, bscan.obj)
  /\ UNCHANGED <<bobj, btree, bfd, bio>>

(* ... or a partition, by partadd, which opens the disk by its name, for   *)
(* itself, ...                                                             *)
ScanPart(n, start, len) ==
  /\ bscan.at = "read" /\ Len(bobj) < BlkMax
  /\ \E o \in Find(bscan.cur) :
       LET a == Added(Opened(bobj, o), btree, n, o, start, len)
       IN  bobj' = a.objs /\ btree' = a.tree
  /\ UNCHANGED <<bfd, bscan, bleak, bio>>

(* ... and in the end blk_close.                                           *)
ScanClose ==
  /\ bscan.at = "read"
  /\ bobj' = Closed(bobj, bscan.obj) /\ bscan' = [bscan EXCEPT !.at = "iter"]
  /\ UNCHANGED <<btree, bfd, bleak, bio>>

BlkNext ==
  \/ \E n \in BNames : BlkAdd(n) \/ BlkDel(n) \/ RumpOpen(n)
                       \/ \E s, l \in 0..DiskLen : ScanPart(n, s, l)
  \/ \E fd \in 1..FdMax : RumpClose(fd) \/ \E b \in 0..DiskLen, n \in 1..DiskLen : RumpRead(fd, b, n)
  \/ ScanOpen \/ ScanLeaves \/ ScanClose
BlkSpec == BlkInit /\ [][BlkNext]_blkVars

-----------------------------------------------------------------------------
(* Type invariant.                                                         *)
BlkTypeOK ==
  /\ \A o \in DOMAIN bobj : bobj[o].ref \in Nat /\ bobj[o].base \in 0..(o - 1)
  /\ btree \subseteq DOMAIN bobj /\ ToSet(bfd) \subseteq 0..Len(bobj)

(* The references of an object are its holders: descriptors, partitions,   *)
(* the scan that waits for it and those that left it open.  An object is   *)
(* freed exactly when it was deleted and the last of them is gone, so no   *)
(* holder reads freed memory, whenever blk_del comes.                      *)
Holders(o) ==
  Cardinality({fd \in DOMAIN bfd : bfd[fd] = o}) + Cardinality({p \in DOMAIN bobj : bobj[p].base = o})
  + Cardinality({k \in DOMAIN bleak : bleak[k] = o})
  + (IF bscan.at = "read" /\ bscan.obj = o THEN 1 ELSE 0)
BlkRefs ==
  \A o \in DOMAIN bobj :
    /\ bobj[o].ref = Holders(o)
    /\ bobj[o].freed <=> bobj[o].invalid /\ bobj[o].ref = 0
    /\ o \in btree => ~bobj[o].invalid

(* A read through a partition reaches no block outside of it, also when it *)
(* lies in another one.                                                    *)
DiskStart(objs) ==                    \* where the objects start on their disks
  LET start[o \in 0..Len(objs)] == IF o = 0 THEN 0 ELSE objs[o].start + start[objs[o].base]
  IN  start
PartInside ==
  bio.via # 0 /\ bobj[bio.via].base # 0 =>
    LET lo == DiskStart(bobj)[bio.via]
    IN  bio.from >= lo /\ bio.from + bio.n <= lo + bobj[bio.via].len

(* Block devices are neither freed in use nor read beyond their ends.      *)
BlkSound == BlkRefs /\ PartInside
=============================================================================

------------------------------ MODULE Ufsdisk ------------------------------
(***************************************************************************)
(* ufsdisk.c: virtual block stores, one per inode, on one store below.   *)
(* The store below holds a superblock, the inode blocks, the free-bitmap *)
(* blocks and the data blocks, in this order (ufsdisk_create).  An inode *)
(* has NDirect direct references and one single, one double and one      *)
(* triple indirect reference; an indirect block holds RefsPerBlock       *)
(* references.  Bit g of the free bitmap stands for data block End + g. *)
(*                                                                         *)
(* The code is sequential: every call of the block interface (write,     *)
(* setsize; read and nblocks change nothing) runs to completion, so each *)
(* is one action.  The superblock and the inode table are kept as the    *)
(* layout constants and the variable inode; the bitmap bytes as one bit  *)
(* per data block; a data block holds one value of Vals.  The loops over *)
(* the levels of indirection, and the recursion of recurse_helper, are   *)
(* RECURSIVE operators that thread the store through every block write   *)
(* in the order the code makes them.  A read of an uninitialized value  *)
(* (the block number write_next_free_block leaves unset when no bit is  *)
(* free), a data block taken for an indirect block and an index past an  *)
(* indirect block's references end the behaviour in a fault.              *)
(***************************************************************************)
EXTENDS Integers, FiniteSets, FiniteSetsExt

CONSTANTS
  NBlocks,         \* (*below->nblocks)(below): blocks of the store below
  NInodes,         \* n_inodes given to ufsdisk_create
  InodesPerBlock,  \* INODES_PER_BLOCK
  BlockSize,       \* BLOCK_SIZE in bytes: a bitmap block has 8 * BlockSize bits
  NDirect,         \* REFS_PER_INODE - 3: the direct references of an inode
  RefsPerBlock,    \* REFS_PER_BLOCK
  Inodes,          \* the inode numbers opened with ufsdisk_init
  Offsets,         \* the block offsets the clients write and read
  Sizes,           \* the sizes the clients pass to setsize
  Vals             \* the data the clients write

RefsPerInode == NDirect + 3
Slots == 0 .. RefsPerBlock - 1

(* The layout ufsdisk_create and setup_freebitmapblocks give the store.   *)
NInodeBlocks == (NInodes + InodesPerBlock - 1) \div InodesPerBlock
Start == NInodeBlocks + 1
NFreeBitmapBlocks == (NBlocks - Start) \div (1 + BlockSize * 8)
End == Start + NFreeBitmapBlocks
NBits == NFreeBitmapBlocks * BlockSize * 8
Bits == 0 .. NBits - 1
DataArea == End .. NBlocks - 1
BlockOfFromEnd(g) == End + g + 1
BlockOf(g) == End + g
BitOf(b) == b - End

ASSUME NBlocks >= NInodeBlocks + 2
(* ufsdisk_init(below, i) opens inode i when the snapshot of it can be    *)
(* taken: i is below n_inodeblocks * INODES_PER_BLOCK.                       *)
ufsdisk_init(i) == i < NInodeBlocks * InodesPerBlock
ASSUME \A i \in Inodes : ufsdisk_init(i)
ASSUME Offsets \subseteq Nat /\ Sizes \subseteq Nat

Ref == {0} \cup DataArea
NullBlock == [type |-> "null"]
DataBlock(v) == [type |-> "data", val |-> v]
IndirBlock(r) == [type |-> "indir", refs |-> r]
ZeroRefs == [j \in Slots |-> 0]
Content == {NullBlock} \cup [type : {"data"}, val : Vals]
             \cup [type : {"indir"}, refs : [Slots -> Ref]]
(* A block read into a struct ufs_indirblock; a null block has no refs.   *)
RefsOf(c) == IF c.type = "indir" THEN c.refs ELSE ZeroRefs

Faults == {"none", "no_free_block", "data_as_indirect", "ref_out_of_bounds"}

VARIABLES
  inode,   \* the inode table: nblocks and refs of every opened inode
  bitmap,  \* the free bitmap: bitmap[g] is bit g, TRUE when block End + g is in use
  disk,    \* the contents of the data blocks
  fault    \* "none", or the undefined behaviour the last call ran into

vars == <<inode, bitmap, disk, fault>>

(* The reference of the inode an offset starts from, the levels of       *)
(* indirection below it and the index left for them, as ufsdisk_read and *)
(* ufsdisk_write compute them; the triple indirect case subtracts        *)
(* REFS_PER_INODE - 3 + REFS_PER_BLOCK * REFS_PER_BLOCK as the code does.  *)
Route(o) ==
  CASE o < NDirect ->
         [ref |-> o, nlevels |-> 0, index |-> o]
    [] o - NDirect < RefsPerBlock ->
         [ref |-> NDirect, nlevels |-> 1, index |-> o - NDirect]
    [] o - NDirect - RefsPerBlock < RefsPerBlock * RefsPerBlock ->
         [ref |-> NDirect + 1, nlevels |-> 2, index |-> o - (NDirect + RefsPerBlock)]
    [] OTHER ->
         [ref |-> NDirect + 2, nlevels |-> 3,
          index |-> o - (NDirect + RefsPerBlock * RefsPerBlock)]

(* RefsPerBlock ^ nlevels, the divider of the traversal loops.             *)
Divider(nlevels) == RefsPerBlock ^ nlevels

ReadError == [type |-> "error"]
Garbage == [type |-> "garbage"]

(* The traversal loop of ufsdisk_read from block b with nlevels levels of *)
(* indirection left: a hole reads as zeroes.                               *)
RECURSIVE ReadWalk(_, _, _, _)
ReadWalk(dk, b, nlevels, index) ==
  LET div == Divider(nlevels - 1)
  IN CASE b = 0 -> NullBlock
       [] nlevels = 0 -> dk[b]
       [] dk[b].type = "data" \/ index \div div \notin Slots -> Garbage
       [] OTHER -> ReadWalk(dk, RefsOf(dk[b])[index \div div], nlevels - 1, index % div)

(* ufsdisk_read(bi, offset, block): what the call returns in *block, on   *)
(* the inode table ino and the data blocks dk.                            *)
ReadIn(ino, dk, i, o) ==
  IF o > ino[i].nblocks THEN ReadError
  ELSE LET r == Route(o) IN ReadWalk(dk, ino[i].refs[r.ref], r.nlevels, r.index)
Read(i, o) == ReadIn(inode, disk, i, o)

(* The state a call threads through its writes to the store below.         *)
Fresh(refs) == [disk |-> disk, bitmap |-> bitmap, refs |-> refs, fault |-> "none",
                fb |-> 0, n |-> 0, b |-> 0, refb |-> 0, prev |-> 0, index |-> 0,
                nlevels |-> 0, indir |-> ZeroRefs]
Failed(st) == st.fault # "none"
(* A call that runs into undefined behaviour: what it does from there on  *)
(* is not modelled, and the behaviour ends.                                *)
Fail(st) == fault' = st.fault /\ UNCHANGED <<inode, bitmap, disk>>

(* write_next_free_block(bi, c, &fb): the first clear bit, block by block, *)
(* byte by byte, most significant bit first, is set and c written to the  *)
(* block it stands for; with no clear bit fb is left unset.               *)
AllocNoMark(st, c) ==
  LET free == {g \in Bits : ~st.bitmap[g]}
  IN IF free = {} THEN [st EXCEPT !.fault = "no_free_block"]
     ELSE LET g == Min(free)
          IN [st EXCEPT !.disk[BlockOf(g)] = c, !.fb = BlockOf(g)]
Alloc(st, c) ==
  LET free == {g \in Bits : ~st.bitmap[g]}
  IN IF free = {} THEN [st EXCEPT !.fault = "no_free_block"]
     ELSE LET g == Min(free)
          IN [st EXCEPT !.bitmap[g] = TRUE, !.disk[BlockOf(g)] = c, !.fb = BlockOf(g)]

(* The while (nlevels) loop of ufsdisk_write: a missing indirect block is *)
(* allocated and linked from the previous one, then indexed.               *)
RECURSIVE WriteLoop(_)
WriteLoop(st) ==
  IF Failed(st) \/ st.nlevels = 0 THEN st
  ELSE LET lv == st.nlevels - 1
           div == Divider(lv)
           s1 == IF st.b = 0
                 THEN LET a == Alloc(st, NullBlock)
                      IN IF Failed(a) THEN a
                         ELSE [a EXCEPT !.disk[st.refb] =
                                          IndirBlock([st.indir EXCEPT ![st.prev] = a.fb]),
                                        !.indir = ZeroRefs, !.b = a.fb]
                 ELSE IF st.disk[st.b].type = "data"
                      THEN [st EXCEPT !.fault = "data_as_indirect"]
                      ELSE [st EXCEPT !.indir = RefsOf(st.disk[st.b])]
       IN IF Failed(s1) THEN s1
          ELSE IF st.index \div div \notin Slots
               THEN [s1 EXCEPT !.fault = "ref_out_of_bounds"]
               ELSE WriteLoop([s1 EXCEPT !.nlevels = lv, !.refb = s1.b,
                                         !.b = s1.indir[st.index \div div],
                                         !.prev = st.index \div div,
                                         !.index = st.index % div])

(* The size ufsdisk_write gives the inode: offset + 1 when it allocated  *)
(* the data block past the old size.                                      *)
GrownToOffset(nb, o, new) == IF new /\ o > nb THEN o ELSE nb
Grown(nb, o, new) == IF new /\ o + 1 > nb THEN o + 1 ELSE nb

(* ufsdisk_write(bi, o, block) with block holding v.                        *)
ufsdisk_write(i, o, v) ==
  LET r == Route(o)
      s0 == [Fresh(inode[i].refs) EXCEPT !.b = inode[i].refs[r.ref], !.refb = r.ref,
                                         !.prev = r.index, !.index = r.index,
                                         !.nlevels = r.nlevels]
      s1 == IF s0.b = 0 /\ r.nlevels > 0
            THEN LET a == Alloc(s0, NullBlock)
                 IN IF Failed(a) THEN a ELSE [a EXCEPT !.refs[r.ref] = a.fb, !.b = a.fb]
            ELSE s0
      s2 == WriteLoop(s1)
      new == ~Failed(s2) /\ s2.b = 0
      s3 == IF Failed(s2) THEN s2
            ELSE IF s2.b # 0 THEN [s2 EXCEPT !.disk[s2.b] = DataBlock(v)]
            ELSE LET a == Alloc(s2, DataBlock(v))
                 IN IF Failed(a) THEN a
                    ELSE IF o < NDirect THEN [a EXCEPT !.refs[o] = a.fb]
                    ELSE [a EXCEPT !.disk[s2.refb] =
                                     IndirBlock([s2.indir EXCEPT ![s2.prev] = a.fb])]
  IN IF Failed(s3) THEN Fail(s3)
     ELSE /\ inode' = [inode EXCEPT ![i] =
                         [refs |-> s3.refs,
                          nblocks |-> Grown(@.nblocks, o, new)]]
          /\ disk' = s3.disk
          /\ bitmap' = s3.bitmap
          /\ fault' = "none"

(* set_block_free(bi, b): the bit of b is flipped (^=), not cleared.        *)
Release(b, st) ==
  [st EXCEPT !.disk[b] = NullBlock, !.bitmap[BitOf(b)] = ~@]

(* recurse_helper(bi, b, nlevels, &n_blocks) and its loop over the refs of *)
(* an indirect block; st.n is *n_blocks.                                   *)
RECURSIVE FreeTree(_, _, _), FreeSlots(_, _, _, _)
FreeTree(b, nlevels, st) ==
  IF Failed(st) \/ st.n = 0 THEN st
  ELSE IF nlevels = 0 THEN [Release(b, st) EXCEPT !.n = @ - 1]
  ELSE IF st.disk[b].type = "data" THEN [st EXCEPT !.fault = "data_as_indirect"]
  ELSE LET after == FreeSlots(RefsOf(st.disk[b]), nlevels - 1, 0, st)
       IN IF Failed(after) THEN after ELSE Release(b, after)
FreeSlots(r, lv, j, st) ==
  IF j > RefsPerBlock - 1 THEN st
  ELSE FreeSlots(r, lv, j + 1,
                 IF r[j] # 0 THEN FreeTree(r[j], lv, st) ELSE [st EXCEPT !.n = @ - 1])

(* The levels below reference index of an inode, and what ufsdisk_setsize *)
(* takes off n_blocks for a null one (the triple case decrements nblocks, *)
(* the argument, instead).                                                  *)
Level(index) == IF index < NDirect THEN 0 ELSE index - NDirect + 1
Skip(index) == CASE Level(index) = 0 -> 1
                 [] Level(index) = 1 -> RefsPerBlock
                 [] Level(index) = 2 -> RefsPerBlock * RefsPerBlock
                 [] OTHER -> 0

(* The for loop of ufsdisk_setsize over the references of the inode.       *)
RECURSIVE FreeRefs(_, _, _)
FreeRefs(refs, index, st) ==
  IF index > RefsPerInode - 1 THEN st
  ELSE FreeRefs(refs, index + 1,
                IF refs[index] = 0 THEN [st EXCEPT !.n = @ - Skip(index)]
                ELSE FreeTree(refs[index], Level(index), st))

(* ufsdisk_setsize(bi, n): every block of the inode is freed and nblocks  *)
(* set to 0 whatever n is; the refs of the inode are left as they were.   *)
ufsdisk_setsize(i, n) ==
  /\ n # inode[i].nblocks
  /\ LET st == FreeRefs(inode[i].refs, 0, [Fresh(inode[i].refs) EXCEPT !.n = inode[i].nblocks])
     IN IF Failed(st) THEN Fail(st)
        ELSE /\ disk' = st.disk
             /\ bitmap' = st.bitmap
             /\ fault' = "none"
             /\ inode' = [inode EXCEPT ![i].nblocks = 0]

(* ufsdisk_create on a store below that has not been used.                 *)
Init ==
  /\ inode = [i \in Inodes |-> [nblocks |-> 0, refs |-> [x \in 0 .. RefsPerInode - 1 |-> 0]]]
  /\ bitmap = [g \in Bits |-> FALSE]
  /\ disk = [b \in DataArea |-> NullBlock]
  /\ fault = "none"

Write == \E i \in Inodes, o \in Offsets, v \in Vals : ufsdisk_write(i, o, v)
Setsize == \E i \in Inodes, n \in Sizes : ufsdisk_setsize(i, n)

Next == fault = "none" /\ (Write \/ Setsize)

Spec == Init /\ [][Next]_vars

(* The same clients on a store that is written and read, never truncated. *)
WriteSpec == Init /\ [][fault = "none" /\ Write]_vars

TypeOK ==
  /\ inode \in [Inodes -> [nblocks : Nat, refs : [0 .. RefsPerInode - 1 -> Ref]]]
  /\ bitmap \in [Bits -> BOOLEAN]
  /\ disk \in [DataArea -> Content]
  /\ fault \in Faults

(* The blocks ufsdisk_read walks, indirect blocks and the data block, for  *)
(* offset o of inode i.                                                    *)
RECURSIVE PathFrom(_, _, _)
PathFrom(b, nlevels, index) ==
  LET div == Divider(nlevels - 1)
  IN IF b = 0 THEN {}
     ELSE IF nlevels = 0 \/ disk[b].type # "indir" \/ index \div div \notin Slots THEN {b}
     ELSE {b} \cup PathFrom(disk[b].refs[index \div div], nlevels - 1, index % div)
Path(i, o) == LET r == Route(o) IN PathFrom(inode[i].refs[r.ref], r.nlevels, r.index)

(* The blocks of inode i: those on the path of an offset below its size.   *)
Owned(i) == UNION {Path(i, o) : o \in 0 .. inode[i].nblocks - 1}

(* The free bitmap marks exactly the blocks the files own, and no block is *)
(* owned by two files: write_next_free_block hands out a block no file     *)
(* holds, ufsdisk_write links every block it takes, and set_block_free    *)
(* clears the bits of the blocks recurse_helper walks.                     *)
BitmapExact ==
  /\ \A g \in Bits : bitmap[g] <=> \E i \in Inodes : BlockOf(g) \in Owned(i)
  /\ \A i, j \in Inodes : i # j => Owned(i) \cap Owned(j) = {}

(* No call runs into undefined behaviour: write_next_free_block always   *)
(* finds a clear bit before its block number is used, no data block is   *)
(* taken for an indirect block, and the index into an indirect block stays *)
(* below REFS_PER_BLOCK for every offset the file system can address.      *)
NoUndefinedBehaviour == fault = "none"

(* What the client reads: the value of a data block, zeroes for a hole or  *)
(* an offset past the size, and anything else for an indirect block or    *)
(* garbage read as data.                                                    *)
Zero == "zero"
Junk == "junk"
ValueOf(c) == CASE c.type = "data" -> c.val
                [] c.type = "null" -> Zero
                [] OTHER -> Junk

(* ufsdisk_nblocks(bi)                                                      *)
NBlocksOf(i) == inode[i].nblocks

UFS == INSTANCE UfsSpec WITH
         size <- [i \in Inodes |-> NBlocksOf(i)],
         data <- [i \in Inodes |-> [o \in Offsets |->
                    IF o < inode[i].nblocks THEN ValueOf(Read(i, o)) ELSE Zero]]

(* Every virtual block store behaves as the block interface promises      *)
(* (UfsSpec): each ufsdisk_write and ufsdisk_setsize is a step of its file *)
(* alone, and ufsdisk_read returns the last block written at an offset     *)
(* below the size, or zeroes.                                              *)
UfsRefinement == UFS!Spec

====

------------------------------ MODULE UfsSpec ------------------------------
(***************************************************************************)
(* What a virtual block store promises its client (block_if: nblocks,    *)
(* read, write, setsize), one per inode: a size, and the blocks below    *)
(* it.  A write at offset o stores its block and makes the size at least *)
(* o + 1; setsize(n) makes the size n and drops the blocks from n on; a  *)
(* block that was never written, or was dropped, reads as zeroes.        *)
(***************************************************************************)
EXTENDS Naturals

CONSTANTS Inodes, Offsets, Sizes, Vals, Zero

VARIABLES size, data

Init ==
  /\ size = [i \in Inodes |-> 0]
  /\ data = [i \in Inodes |-> [o \in Offsets |-> Zero]]

Write(i, o, v) ==
  /\ data' = [data EXCEPT ![i][o] = v]
  /\ size' = [size EXCEPT ![i] = IF o + 1 > @ THEN o + 1 ELSE @]

Setsize(i, n) ==
  /\ size' = [size EXCEPT ![i] = n]
  /\ data' = [data EXCEPT ![i] = [o \in Offsets |-> IF o < n THEN @[o] ELSE Zero]]

Next ==
  \/ \E i \in Inodes, o \in Offsets, v \in Vals : Write(i, o, v)
  \/ \E i \in Inodes, n \in Sizes : Setsize(i, n)

Spec == Init /\ [][Next]_<<size, data>>

====

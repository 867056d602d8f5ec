---------------------------- MODULE MCBufferCache ----------------------------
(***************************************************************************)
(* A cache smaller than the disk, so that blocks are evicted and two tasks *)
(* compete for the buffers that are left.                                  *)
(***************************************************************************)
EXTENDS BufferCache, TLC

MCQueues == Buffers \cup {buffer_wait}
MCSymmetry == Permutations(Tasks) \cup Permutations(Blocks)
=============================================================================

------------------------------ MODULE MCHeap ------------------------------
(***************************************************************************)
(* A small heap for TLC: a 2-byte header in an address space that the heap *)
(* fills to its last address, so that any sum that could pass 2^32 in the  *)
(* code would pass Word here.                                              *)
(***************************************************************************)
EXTENDS Heap

(* Zero, small sizes that leave no room, exactly one byte or more behind   *)
(* the block, and the largest sizes a size_t holds.                        *)
MCRequests == {0, 1, 3, 4, Word - Header - 1, Word - 1}
=============================================================================

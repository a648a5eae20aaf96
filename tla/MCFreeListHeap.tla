----------------------------- MODULE MCFreeListHeap -----------------------------
(***************************************************************************)
(* Requests that fit the 8-byte grid and requests that do not, as the      *)
(* 12-byte records of the loader do not, at the alignment of the system    *)
(* heap and at a larger one.  U16 is short enough for a block to be longer *)
(* than blockSize can say.                                                 *)
(***************************************************************************)
EXTENDS FreeListHeap

MCRequests == [size : {8, 12, 24}, align : {8, 16}]
=============================================================================

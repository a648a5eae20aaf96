-------------------------- MODULE MCFreeListAllocator --------------------------
(***************************************************************************)
(* The allocator on its own, with the 8-byte alignment of the system heap. *)
(***************************************************************************)
EXTENDS FreeListAllocator

EightRequests == [size : {8, 16}, align : {8}]
=============================================================================

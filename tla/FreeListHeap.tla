----------------------------- MODULE FreeListHeap -----------------------------
(***************************************************************************)
(* mem::FreeListHeap (src/source/FallbackAllocator/free_list_heap.hxx),    *)
(* the allocator as the callers of the Heap interface see it, for requests *)
(* of any size and alignment the allocator admits, and the invariant that  *)
(* its promises follow from.                                               *)
(***************************************************************************)
EXTENDS FreeListAllocator

\* The heap hands out the buffer it was constructed on.
Memory == Base .. Base + HeapSize - 1

\* The caller's view of the allocator.
Held == {[addr |-> Data(b), request |-> b.request] : b \in live}

H == INSTANCE Heap WITH blocks <- Held

\* Every step from an intact list is one that the Heap interface promises: memory
\* aligned as asked that no other caller holds, or memory given back.
ImplementsHeap == H!Init /\ [][~corrupt => H!Next]_Held

-----------------------------------------------------------------------------
NodeSet == [addr : Nat, size : Nat]

\* A node in the buffer, with room for the Node written at its start.
Good(n) ==
  /\ n \in NodeSet
  /\ n.size >= NodeSize
  /\ n.addr .. n.addr + n.size - 1 \subseteq Memory

GoodList(list) ==
  /\ list \in Seq(NodeSet)
  /\ \A i \in 1 .. Len(list) : Good(list[i])
  /\ \A i, j \in 1 .. Len(list) :
       i # j => Off(list[i], list[j].addr, list[j].addr + list[j].size)

\* No node of the list has a byte of [a, b).
Clear(list, a, b) == \A i \in 1 .. Len(list) : Off(list[i], a, b)

BlockSet ==
  [header : Nat, blockSize : Nat, padding : Nat,
   start : Nat, end : Nat, request : Requests]

\* A block in the buffer whose data, aligned as asked, ends where the block does
\* and lies behind its header, and the header behind the padding.
GoodBlock(b) ==
  /\ b \in BlockSet
  /\ b.start <= b.header
  /\ b.end = Data(b) + b.request.size
  /\ Data(b) % b.request.align = 0
  /\ b.start .. b.end - 1 \subseteq Memory

\* NoOverlap is not inductive by itself: Allocate needs whole nodes that lie in the
\* buffer (GoodList) and the caller the data of whole blocks (GoodBlock).
Intact ==
  /\ GoodList(freeList)
  /\ \A b \in live : Clear(freeList, b.start, b.end)
  /\ \A b \in live : GoodBlock(b)
  /\ BlocksApart

IInv ==
  /\ ~corrupt => Intact
  /\ TypeOK
=============================================================================

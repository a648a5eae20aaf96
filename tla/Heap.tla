--------------------------------- MODULE Heap ---------------------------------
(***************************************************************************)
(* What kuribo::mem::Heap (src/source/Common/memory/heap.hxx) promises its *)
(* callers, whoever implements it: alloc returns memory of the heap,       *)
(* aligned as asked, that no other caller holds; free gives it back.       *)
(***************************************************************************)
EXTENDS Integers

CONSTANTS
  Memory,    \* the addresses the heap hands out
  Requests   \* the [size, align] pairs callers ask for

VARIABLE blocks  \* set of [addr, request]: what callers hold

Bytes(a, r) == a .. a + r.size - 1

Init == blocks = {}

Alloc(r) ==
  \E a \in Memory :
    /\ a % r.align = 0
    /\ Bytes(a, r) \subseteq Memory
    /\ \A b \in blocks : Bytes(a, r) \cap Bytes(b.addr, b.request) = {}
    /\ blocks' = blocks \cup {[addr |-> a, request |-> r]}

Free(b) == blocks' = blocks \ {b}

Next ==
  \/ \E r \in Requests : Alloc(r)
  \/ \E b \in blocks : Free(b)

Spec == Init /\ [][Next]_blocks
=============================================================================

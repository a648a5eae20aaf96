--------------------------- MODULE FreeListAllocator ---------------------------
(***************************************************************************)
(* xalloc::FreeListAllocator (src/source/FallbackAllocator/xalloc), the    *)
(* first-fit allocator behind the kernel's 1 KB system heap, the module    *)
(* heap of the desktop build and the heap of the GeckoJIT module.          *)
(*                                                                         *)
(* The intrusive singly linked list is a sequence of nodes in list order;  *)
(* addresses and sizes are bytes.  A block in use keeps the three fields   *)
(* the code can read back from its header (address, blockSize, padding)    *)
(* and, as history, the bytes the allocation really took.                  *)
(*                                                                         *)
(* Two steps of the code write the list into memory that is not the list's *)
(* (corrupt): a split that leaves less than a Node, and a Free that makes  *)
(* other bytes free than the block took, because of its padding or because *)
(* blockSize was cut.  What the allocator does afterwards depends on whose *)
(* words it reads, and the model ends there.                               *)
(***************************************************************************)
EXTENDS Integers, Sequences, SequencesExt

CONSTANTS
  Base,      \* address of the buffer handed to the constructor
  HeapSize,  \* m_totalSize
  Requests,  \* the [size, align] pairs callers ask for
  U8, U16, USize \* 2^8, 2^16 and 2^32: widths of padding, blockSize and size_t

NodeSize   == 8   \* sizeof(Node), 32-bit target
HeaderSize == 8   \* sizeof(AllocationHeader)

ASSUME HeapAssumption ==
  /\ Base \in Nat
  /\ HeapSize \in Nat /\ HeapSize >= NodeSize
  /\ U8 \in Nat \ {0} /\ U16 \in Nat \ {0}
  /\ USize \in Nat /\ USize > Base + HeapSize

\* The two assertions at the top of Allocate.
ASSUME RequestAssumption ==
  \A r \in Requests :
    /\ r \in [size : Nat, align : Nat]
    /\ r.size >= NodeSize /\ r.align >= 8

VARIABLES
  freeList,  \* m_freeList, from head to the last node: Seq([addr, size])
  live,      \* the blocks handed out and not yet freed
  used,      \* m_used
  peak,      \* m_peak
  halted,    \* KURIBO_ASSERT(affectedNode != nullptr) has stopped the program
  corrupt    \* history: the list was written into memory it does not own

vars == <<freeList, live, used, peak, halted, corrupt>>

Node(a, n) == [addr |-> a, size |-> n]

-----------------------------------------------------------------------------
\* Utils.h.  The padding is never zero: an aligned base is padded by a whole
\* alignment.
CalculatePadding(base, align) == (base \div align + 1) * align - base

CalculatePaddingWithHeader(base, align) ==
  LET padding == CalculatePadding(base, align)
      needed  == HeaderSize - padding
  IN  IF needed <= 0 THEN padding
      ELSE padding + align * (IF needed % align > 0 THEN 1 + needed \div align
                                                    ELSE needed \div align)

\* Bytes that a request takes when it is placed at the start of a node.
Required(addr, r) == r.size + CalculatePaddingWithHeader(addr, r.align)

\* Mutant: the fit is decided without the header and the padding.
FitsWithoutHeader(node, r) == node.size >= r.size

Fits(node, r) == node.size >= Required(node.addr, r)

Fitting(r) == {i \in DOMAIN freeList : Fits(freeList[i], r)}

\* FindFirst: the nearest fitting node to the head.
FindFirst(r, i) == i \in Fitting(r) /\ \A j \in Fitting(r) : i <= j

-----------------------------------------------------------------------------
Contiguous(left, right) == left.addr + left.size = right.addr

\* Mutant: a merge that counts the header of the swallowed node twice.
MergeAtCountingHeader(list, i) ==
  IF i \in 1 .. Len(list) - 1 /\ Contiguous(list[i], list[i + 1])
  THEN [RemoveAt(list, i + 1) EXCEPT
          ![i] = Node(list[i].addr, list[i].size + list[i + 1].size + NodeSize)]
  ELSE list

\* Either half of Coalescence: the i-th node swallows the one after it.
MergeAt(list, i) ==
  IF i \in 1 .. Len(list) - 1 /\ Contiguous(list[i], list[i + 1])
  THEN [RemoveAt(list, i + 1) EXCEPT
          ![i] = Node(list[i].addr, list[i].size + list[i + 1].size)]
  ELSE list

\* Mutant: only the successor is merged.
CoalescenceForwardOnly(list, i) == MergeAt(list, i)

\* Coalescence of the i-th node, first with its successor, then its predecessor.
Coalescence(list, i) == MergeAt(MergeAt(list, i), i - 1)

-----------------------------------------------------------------------------
WholeHeap == <<Node(Base, HeapSize)>>

\* The constructor, which ends with Reset.
Init ==
  /\ freeList = WholeHeap
  /\ live = {}
  /\ used = 0 /\ peak = 0
  /\ halted = FALSE /\ corrupt = FALSE

Running == ~halted /\ ~corrupt

\* What Allocate writes in the header, and the block it stands for.
Block(node, r) ==
  LET alignmentPadding == CalculatePaddingWithHeader(node.addr, r.align) - HeaderSize
      requiredSize     == Required(node.addr, r)
  IN  [header    |-> node.addr + alignmentPadding,
       blockSize |-> requiredSize % U16,
       padding   |-> alignmentPadding % U8,
       start     |-> node.addr,
       end       |-> node.addr + requiredSize,
       request   |-> r]

\* The address Allocate returns.
Data(b) == b.header + HeaderSize

\* Mutant: an exact fit leaves a node of size 0.
AllocateLeavingEmptyNode(r) ==
  \E i \in DOMAIN freeList :
    /\ Running
    /\ FindFirst(r, i)
    /\ LET node == freeList[i]
           b    == Block(node, r)
       IN  /\ freeList' = [freeList EXCEPT ![i] = Node(b.end, node.size - (b.end - b.start))]
           /\ live' = live \cup {b}
           /\ used' = (used + (b.end - b.start)) % USize
           /\ peak' = IF used' > peak THEN used' ELSE peak
    /\ UNCHANGED <<halted, corrupt>>

\* Allocate: the node found gives way to the node of what is left of it, however
\* little that is, or to nothing when the fit is exact.  A Node written into less
\* than its size runs over what lies behind.
Allocate(r) ==
  \E i \in DOMAIN freeList :
    /\ Running
    /\ FindFirst(r, i)
    /\ LET node == freeList[i]
           b    == Block(node, r)
           rest == node.size - (b.end - b.start)
       IN  /\ freeList' = IF rest > 0 THEN [freeList EXCEPT ![i] = Node(b.end, rest)]
                                      ELSE RemoveAt(freeList, i)
           /\ live' = live \cup {b}
           /\ used' = (used + (b.end - b.start)) % USize
           /\ peak' = IF used' > peak THEN used' ELSE peak
           /\ corrupt' = (rest > 0 /\ rest < NodeSize)
    /\ UNCHANGED halted

\* No node is found: the assertion stops the program.
AllocateFails(r) ==
  /\ Running
  /\ Fitting(r) = {}
  /\ halted' = TRUE
  /\ UNCHANGED <<freeList, live, used, peak, corrupt>>

\* Mutant: the node Free makes leaves the header out.
FreeNodeOfRequestSize(b) == Node(b.header, b.request.size)

\* The node Free makes of a block: at its header, not at its start.
FreeNode(b) == Node(b.header, b.blockSize + b.padding)

\* The header says where the block starts and how long it is.
Recorded(b) == b.header = b.start /\ b.blockSize + b.padding = b.end - b.start

\* Nodes the insertion loop of Free would stop at.
Above(b) == {i \in DOMAIN freeList : Data(b) < freeList[i].addr}

\* Free, when a node lies above the block: insert before the first such node.
FreeInsert(b, i) ==
  /\ i \in Above(b) /\ \A j \in Above(b) : i <= j
  /\ freeList' = Coalescence(InsertAt(freeList, i, FreeNode(b)), i)

\* Free, when none does: the loop ends without inserting, and the block is kept
\* only if Coalescence can add it to the last node.
FreeAtEnd(b) ==
  LET n == Len(freeList)
  IN  /\ Above(b) = {}
      /\ freeList' = IF n > 0 /\ Contiguous(freeList[n], FreeNode(b))
                     THEN MergeAt(Append(freeList, FreeNode(b)), n)
                     ELSE freeList

\* Mutant: m_used is reduced by the size asked for.
FreeUncountingRequest(b) ==
  /\ Running
  /\ (\E i \in DOMAIN freeList : FreeInsert(b, i)) \/ FreeAtEnd(b)
  /\ live' = live \ {b}
  /\ used' = (used - b.request.size) % USize
  /\ corrupt' = ~Recorded(b)
  /\ UNCHANGED <<peak, halted>>

\* Free: the node of the block goes back to the list, and m_used down by its size.
Free(b) ==
  /\ Running
  /\ (\E i \in DOMAIN freeList : FreeInsert(b, i)) \/ FreeAtEnd(b)
  /\ live' = live \ {b}
  /\ used' = (used - FreeNode(b).size) % USize
  /\ corrupt' = ~Recorded(b)
  /\ UNCHANGED <<peak, halted>>

Next ==
  \/ \E r \in Requests : Allocate(r) \/ AllocateFails(r)
  \/ \E b \in live : Free(b)

Spec == Init /\ [][Next]_vars

-----------------------------------------------------------------------------
\* Types.  On an intact list no node is too small for the Node it holds, and none
\* is empty, which would stay on the list for ever: Allocate must leave neither.
TypeOK ==
  /\ freeList \in Seq([addr : Nat, size : Nat])
  /\ ~corrupt => \A i \in DOMAIN freeList : freeList[i].size >= NodeSize
  /\ \A b \in live :
       /\ b \in [header : Nat, blockSize : Nat, padding : Nat,
                 start : Nat, end : Nat, request : Requests]
       /\ b.start < b.end
  /\ used \in Nat /\ peak \in Nat
  /\ halted \in BOOLEAN /\ corrupt \in BOOLEAN

Apart(a, b, c, d) == b <= c \/ d <= a  \* the ranges [a, b) and [c, d)

\* Nothing of the node lies in [a, b).
Off(node, a, b) == Apart(node.addr, node.addr + node.size, a, b)

NodesApart ==
  \A i, j \in DOMAIN freeList :
    i # j => Off(freeList[i], freeList[j].addr, freeList[j].addr + freeList[j].size)

BlocksApart ==
  \A b, c \in live : b # c => Apart(b.start, b.end, c.start, c.end)

NodesApartFromBlocks ==
  \A i \in DOMAIN freeList, b \in live : Off(freeList[i], b.start, b.end)

\* No byte is at once in two blocks in use, in two free nodes, or in a block in
\* use and a free node: what any sequence of Allocate and Free (split and both
\* merges of Coalescence included) must keep, as long as no split left less than
\* a Node and no block was freed whose header misstates it.
NoOverlap == ~corrupt => NodesApart /\ BlocksApart /\ NodesApartFromBlocks

\* The nodes run upwards and no two neighbours touch.
Sorted(list) ==
  \A i \in 1 .. Len(list) - 1 : list[i].addr + list[i].size < list[i + 1].addr

\* An intact list runs upwards and no two neighbours touch: the sorted insertion
\* and the two merges of Free leave nothing to merge.
SortedAndCoalesced == ~corrupt => Sorted(freeList)

\* The bytes of the blocks in use, headers and padding included.
Taken == UNION {b.start .. b.end - 1 : b \in live}

\* m_used counts the bytes that the blocks in use take, headers and padding
\* included, until a block is freed whose header misstates it.
UsedIsLive == ~corrupt => used = Cardinality(Taken)

Covered(a, b, list) ==
  \E i \in DOMAIN list : list[i].addr <= a /\ b <= list[i].addr + list[i].size

\* Free returns the bytes of a block to the list when its header records it, unless
\* no node lies above the block (the one case the insertion loop does not provide for).
LossOnlyAboveLastNode ==
  [][\A b \in live \ live' :
       Recorded(b) /\ Above(b) # {} => Covered(b.start, b.end, freeList')]_vars

\* Free's own comment: "Insert it in a sorted position by the address number".
\* The bytes of a freed block are on the free list afterwards.
FreedIsInserted ==
  [][\A b \in live \ live' :
       Free(b) => Covered(b.start, b.end, freeList')]_vars
=============================================================================

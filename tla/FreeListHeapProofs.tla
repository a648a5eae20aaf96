-------------------------- MODULE FreeListHeapProofs --------------------------
(***************************************************************************)
(* The allocator never overlaps two blocks, and keeps the promises of      *)
(* Heap, for every buffer and every set of requests, until it splits off   *)
(* less than a Node or frees a block whose header misstates it; and it     *)
(* does neither when every request fits the grid of 8 bytes.               *)
(***************************************************************************)
EXTENDS FreeListHeap, ListLemmas, FiniteSetTheorems

-----------------------------------------------------------------------------
\* A number below the modulus is its own remainder.
LEMMA ModSmall ==
  ASSUME NEW x \in Nat, NEW m \in Nat, x < m
  PROVE  x % m = x
OBVIOUS

\* A multiple has no remainder.
LEMMA MultipleMod ==
  ASSUME NEW k \in Nat, NEW m \in Nat, m > 0
  PROVE  (k * m) % m = 0
<1> DEFINE x == k * m
           q == x \div m
           t == x % m
<1>1. x \in Nat
  OBVIOUS
<1>2. q \in Int /\ t \in 0 .. m - 1 /\ x = m * q + t
  BY <1>1
<1>3. t = m * (k - q)
  BY <1>2
<1> HIDE DEF q, t
<1>4. k - q = 0
  <2>1. CASE k - q >= 1
    <3>1. m * (k - q) >= m
      BY <1>2, <2>1
    <3> QED BY <1>2, <1>3, <3>1
  <2>2. CASE k - q <= -1
    <3>1. m * (k - q) <= -m
      BY <1>2, <2>2
    <3> QED BY <1>2, <1>3, <3>1
  <2> QED BY <1>2, <2>1, <2>2
<1>5. t = 0
  BY <1>3, <1>4
<1> QED BY <1>5 DEF t

\* Utils.h: the padding holds the header and ends on a multiple of the alignment.
LEMMA PaddingHoldsHeader ==
  ASSUME NEW a \in Nat, NEW m \in Nat, m >= 8
  PROVE  /\ CalculatePaddingWithHeader(a, m) \in Nat
         /\ CalculatePaddingWithHeader(a, m) >= 8
         /\ (a + CalculatePaddingWithHeader(a, m)) % m = 0
<1> DEFINE q == a \div m
           p == CalculatePadding(a, m)
           t == a % m
<1>1. q \in Nat /\ t \in 0 .. m - 1 /\ a = m * q + t
  OBVIOUS
<1>2. p = (q + 1) * m - a
  BY DEF CalculatePadding
<1> HIDE DEF q, t
<1>3. p \in Nat /\ p > 0 /\ p <= m /\ a + p = (q + 1) * m
  <2>1. (q + 1) * m = m * q + m
    BY <1>1
  <2>2. p = m - t
    BY <1>1, <1>2, <2>1
  <2> QED BY <1>1, <1>2, <2>2
<1> HIDE DEF p
<1>4. CASE p >= 8
  <2>1. CalculatePaddingWithHeader(a, m) = p
    BY <1>3, <1>4 DEF CalculatePaddingWithHeader, HeaderSize, p
  <2>2. ((q + 1) * m) % m = 0
    BY <1>1, MultipleMod
  <2> QED BY <1>3, <1>4, <2>1, <2>2
<1>5. CASE p < 8
  <2> DEFINE needed == HeaderSize - p
  <2>1. needed \in Nat /\ needed > 0 /\ needed < m
    BY <1>3, <1>5 DEF HeaderSize
  <2>2. needed % m = needed /\ needed \div m = 0
    BY <2>1
  <2>3. CalculatePaddingWithHeader(a, m) = p + m * (1 + 0)
    BY <1>3, <2>1, <2>2 DEF CalculatePaddingWithHeader, p
  <2>4. CalculatePaddingWithHeader(a, m) = p + m
    BY <1>3, <2>3
  <2>5. a + (p + m) = (q + 2) * m
    BY <1>1, <1>3
  <2>6. ((q + 2) * m) % m = 0
    BY <1>1, MultipleMod
  <2> QED BY <1>3, <2>4, <2>5, <2>6
<1> QED BY <1>3, <1>4, <1>5

\* What Allocate takes of a good node: the request behind padding that holds a
\* header, aligned as asked.
LEMMA BlockOfNode ==
  ASSUME NEW n, Good(n), NEW r \in Requests
  PROVE  /\ Required(n.addr, r) \in Nat /\ Required(n.addr, r) >= 16
         /\ Block(n, r) \in BlockSet
         /\ Block(n, r).start = n.addr /\ Block(n, r).request = r
         /\ Block(n, r).end = n.addr + Required(n.addr, r)
         /\ Block(n, r).start <= Block(n, r).header
         /\ Block(n, r).end = Data(Block(n, r)) + r.size
         /\ Data(Block(n, r)) % r.align = 0
<1> DEFINE p == CalculatePaddingWithHeader(n.addr, r.align)
<1>1. /\ n.addr \in Nat /\ r.size \in Nat /\ r.size >= 8
      /\ r.align \in Nat /\ r.align >= 8
  BY RequestAssumption DEF Good, NodeSet, NodeSize
<1>2. p \in Nat /\ p >= 8 /\ (n.addr + p) % r.align = 0
  BY <1>1, PaddingHoldsHeader
<1>3. Required(n.addr, r) = r.size + p
  BY DEF Required
<1> HIDE DEF p
<1>4. Required(n.addr, r) \in Nat /\ Required(n.addr, r) >= 16
  BY <1>1, <1>2, <1>3
<1>5. Block(n, r) = [header |-> n.addr + (p - 8), blockSize |-> Required(n.addr, r) % U16,
                     padding |-> (p - 8) % U8, start |-> n.addr,
                     end |-> n.addr + Required(n.addr, r), request |-> r]
  BY DEF Block, p, HeaderSize
<1>6. /\ p - 8 \in Nat /\ Required(n.addr, r) % U16 \in Nat /\ (p - 8) % U8 \in Nat
      /\ n.addr + (p - 8) \in Nat /\ n.addr + Required(n.addr, r) \in Nat
  <2>1. p - 8 \in Nat
    BY <1>2
  <2>2. U8 \in Nat \ {0} /\ U16 \in Nat \ {0}
    BY HeapAssumption
  <2> QED BY <1>1, <1>4, <2>1, <2>2
<1>7. Block(n, r) \in BlockSet
  BY <1>1, <1>5, <1>6 DEF BlockSet
<1>8. Block(n, r).header = n.addr + (p - 8) /\ Data(Block(n, r)) = n.addr + p
  BY <1>1, <1>2, <1>5 DEF Data, HeaderSize
<1> QED BY <1>1, <1>2, <1>3, <1>4, <1>5, <1>7, <1>8

-----------------------------------------------------------------------------
\* Removing a node leaves a good list, and what the list kept off it keeps off.
LEMMA RemoveGood ==
  ASSUME NEW list, GoodList(list), NEW i \in 1 .. Len(list)
  PROVE  /\ GoodList(RemoveAt(list, i))
         /\ Len(RemoveAt(list, i)) = Len(list) - 1
         /\ \A a, b : Clear(list, a, b) => Clear(RemoveAt(list, i), a, b)
         /\ Clear(RemoveAt(list, i), list[i].addr, list[i].addr + list[i].size)
<1> DEFINE new == RemoveAt(list, i)
<1>1. list \in Seq(NodeSet) /\ Len(list) \in Nat
  BY LenProperties DEF GoodList
<1>2. /\ new \in Seq(NodeSet) /\ Len(new) = Len(list) - 1
      /\ \A j \in 1 .. i - 1 : new[j] = list[j]
      /\ \A j \in i .. Len(list) - 1 : new[j] = list[j + 1]
  BY <1>1, RemoveAtProperties
<1> HIDE DEF new
<1> DEFINE old(j) == IF j < i THEN j ELSE j + 1
<1>3. ASSUME NEW j \in 1 .. Len(new)
      PROVE  old(j) \in 1 .. Len(list) /\ old(j) # i /\ new[j] = list[old(j)]
  BY <1>1, <1>2
<1>4. \A j, k \in 1 .. Len(new) : j # k => old(j) # old(k)
  BY <1>1, <1>2
<1> HIDE DEF old
<1>5. GoodList(new)
  BY <1>2, <1>3, <1>4 DEF GoodList
<1>6. \A a, b : Clear(list, a, b) => Clear(new, a, b)
  BY <1>3 DEF Clear
<1>7. Clear(new, list[i].addr, list[i].addr + list[i].size)
  BY <1>3 DEF Clear, GoodList
<1> QED BY <1>2, <1>5, <1>6, <1>7 DEF new

\* Inserting a good node where the list is clear leaves a good list.
LEMMA InsertGood ==
  ASSUME NEW list, GoodList(list), NEW i \in 1 .. Len(list) + 1,
         NEW n, Good(n), Clear(list, n.addr, n.addr + n.size)
  PROVE  /\ GoodList(InsertAt(list, i, n))
         /\ Len(InsertAt(list, i, n)) = Len(list) + 1
         /\ \A a, b : Clear(list, a, b) /\ Off(n, a, b) => Clear(InsertAt(list, i, n), a, b)
<1> DEFINE new == InsertAt(list, i, n)
<1>1. list \in Seq(NodeSet) /\ Len(list) \in Nat /\ n \in NodeSet
  BY LenProperties DEF GoodList, Good
<1>2. /\ new \in Seq(NodeSet) /\ Len(new) = Len(list) + 1
      /\ \A j \in 1 .. i - 1 : new[j] = list[j]
      /\ new[i] = n
      /\ \A j \in i + 1 .. Len(list) + 1 : new[j] = list[j - 1]
  BY <1>1, InsertAtProperties
<1> HIDE DEF new
<1> DEFINE old(j) == IF j < i THEN j ELSE j - 1
<1>3. ASSUME NEW j \in 1 .. Len(new), j # i
      PROVE  old(j) \in 1 .. Len(list) /\ new[j] = list[old(j)]
  <2>1. CASE j < i
    BY <1>1, <1>2, <2>1
  <2>2. CASE j > i
    BY <1>1, <1>2, <2>2
  <2> QED BY <1>1, <1>3, <2>1, <2>2
<1>4. \A j, k \in 1 .. Len(new) : j # k /\ j # i /\ k # i => old(j) # old(k)
  BY <1>1, <1>2
<1> HIDE DEF old
<1>5. \A j \in 1 .. Len(new) : Good(new[j])
  BY <1>2, <1>3 DEF GoodList
<1>6. ASSUME NEW j \in 1 .. Len(new), NEW k \in 1 .. Len(new), j # k
      PROVE  Off(new[j], new[k].addr, new[k].addr + new[k].size)
  <2>1. CASE j = i
    <3>1. Off(new[k], n.addr, n.addr + n.size)
      BY <1>3, <1>6, <2>1 DEF Clear
    <3> QED BY <1>2, <1>6, <2>1, <3>1 DEF Off, Apart
  <2>2. CASE k = i
    BY <1>2, <1>3, <1>6, <2>2 DEF Clear
  <2>3. CASE j # i /\ k # i
    BY <1>3, <1>4, <1>6, <2>3 DEF GoodList
  <2> QED BY <2>1, <2>2, <2>3
<1>7. \A a, b : Clear(list, a, b) /\ Off(n, a, b) => Clear(new, a, b)
  BY <1>2, <1>3 DEF Clear
<1> QED BY <1>2, <1>5, <1>6, <1>7 DEF new, GoodList

\* Putting in the i-th place a good node that the others are clear of.
LEMMA ReplaceGood ==
  ASSUME NEW list, GoodList(list), NEW i \in 1 .. Len(list), NEW n, Good(n),
         \A j \in 1 .. Len(list) : j # i => Off(list[j], n.addr, n.addr + n.size)
  PROVE  /\ GoodList([list EXCEPT ![i] = n])
         /\ \A a, b : Clear(list, a, b) /\ Off(n, a, b) => Clear([list EXCEPT ![i] = n], a, b)
<1> DEFINE new == [list EXCEPT ![i] = n]
<1>1. list \in Seq(NodeSet) /\ Len(list) \in Nat /\ n \in NodeSet
  BY LenProperties DEF GoodList, Good
<1>2. /\ new \in Seq(NodeSet) /\ Len(new) = Len(list)
      /\ \A j \in 1 .. Len(list) : j # i => new[j] = list[j]
      /\ new[i] = n
  BY <1>1, ExceptSeq
<1> HIDE DEF new
<1>3. \A j \in 1 .. Len(new) : Good(new[j])
  BY <1>2 DEF GoodList
<1>4. ASSUME NEW j \in 1 .. Len(new), NEW k \in 1 .. Len(new), j # k
      PROVE  Off(new[j], new[k].addr, new[k].addr + new[k].size)
  <2>1. CASE j = i
    <3>1. Off(new[k], n.addr, n.addr + n.size)
      BY <1>2, <1>4, <2>1
    <3> QED BY <1>2, <1>4, <2>1, <3>1 DEF Off, Apart
  <2>2. CASE k = i
    BY <1>2, <1>4, <2>2
  <2>3. CASE j # i /\ k # i
    BY <1>2, <1>4, <2>3 DEF GoodList
  <2> QED BY <2>1, <2>2, <2>3
<1>5. \A a, b : Clear(list, a, b) /\ Off(n, a, b) => Clear(new, a, b)
  BY <1>2 DEF Clear
<1> QED BY <1>2, <1>3, <1>4, <1>5 DEF new, GoodList

\* Coalescing two touching nodes of a good list leaves a good list, off every
\* range the list was off.
LEMMA MergeGood ==
  ASSUME NEW list, GoodList(list), NEW i \in Int
  PROVE  /\ GoodList(MergeAt(list, i))
         /\ \A a, b \in Int : a < b /\ Clear(list, a, b) => Clear(MergeAt(list, i), a, b)
<1>1. CASE ~(i \in 1 .. Len(list) - 1 /\ Contiguous(list[i], list[i + 1]))
  BY <1>1 DEF MergeAt
<1>2. CASE i \in 1 .. Len(list) - 1 /\ Contiguous(list[i], list[i + 1])
  <2> DEFINE left  == list[i]
             right == list[i + 1]
             short == RemoveAt(list, i + 1)
             n     == Node(left.addr, left.size + right.size)
  <2>1. /\ list \in Seq(NodeSet) /\ Len(list) \in Nat
        /\ i \in 1 .. Len(list) /\ i + 1 \in 1 .. Len(list)
    BY <1>2, LenProperties DEF GoodList
  <2>2. Good(left) /\ Good(right) /\ left.addr + left.size = right.addr
    BY <1>2, <2>1 DEF GoodList, Contiguous
  <2>3. /\ GoodList(short) /\ Len(short) = Len(list) - 1
        /\ Clear(short, right.addr, right.addr + right.size)
        /\ \A a, b : Clear(list, a, b) => Clear(short, a, b)
    BY <2>1, RemoveGood
  <2>4. i \in 1 .. Len(short) /\ short[i] = left
    <3>1. \A j \in 1 .. i : short[j] = list[j]
      BY <2>1, RemoveAtProperties
    <3> QED BY <2>1, <2>3, <3>1
  <2>5. MergeAt(list, i) = [short EXCEPT ![i] = n]
    BY <1>2 DEF MergeAt
  <2> HIDE DEF left, right, short
  <2>6. /\ n \in NodeSet /\ n.addr = left.addr /\ n.size = left.size + right.size
        /\ n.addr \in Nat /\ left.size \in Nat /\ right.size \in Nat
        /\ left.size > 0 /\ right.size > 0
        /\ left.addr \in Nat /\ right.addr \in Nat
    BY <2>2 DEF Good, NodeSet, Node, NodeSize
  <2> HIDE DEF n
  <2>7. Good(n)
    <3>1. n.size >= NodeSize
      BY <2>2, <2>6 DEF Good, NodeSize
    <3>2. ASSUME NEW x \in n.addr .. n.addr + n.size - 1 PROVE x \in Memory
      <4>1. \/ x \in left.addr .. left.addr + left.size - 1
            \/ x \in right.addr .. right.addr + right.size - 1
        BY <2>2, <2>6
      <4> QED BY <2>2, <4>1 DEF Good
    <3> QED BY <2>6, <3>1, <3>2 DEF Good
  <2>8. ASSUME NEW j \in 1 .. Len(short), j # i
        PROVE  Off(short[j], n.addr, n.addr + n.size)
    <3>1. Off(short[j], left.addr, left.addr + left.size)
      BY <2>3, <2>4, <2>8 DEF GoodList
    <3>2. Off(short[j], right.addr, right.addr + right.size)
      BY <2>3 DEF Clear
    <3>0. Good(short[j])
      BY <2>3 DEF GoodList
    <3>3. short[j].addr \in Nat /\ short[j].size \in Nat /\ short[j].size > 0
      BY <3>0 DEF Good, NodeSet, NodeSize
    <3> QED BY <2>2, <2>6, <3>1, <3>2, <3>3 DEF Off, Apart
  <2>9. ASSUME NEW a \in Int, NEW b \in Int, a < b, Clear(list, a, b)
        PROVE  Off(n, a, b)
    <3>1. Off(left, a, b) /\ Off(right, a, b)
      BY <2>1, <2>9 DEF Clear, left, right
    <3> QED BY <2>2, <2>6, <2>9, <3>1 DEF Off, Apart
  <2>10. /\ GoodList([short EXCEPT ![i] = n])
         /\ \A a, b : Clear(short, a, b) /\ Off(n, a, b) => Clear([short EXCEPT ![i] = n], a, b)
    BY <2>3, <2>4, <2>7, <2>8, ReplaceGood
  <2> QED BY <2>3, <2>5, <2>9, <2>10
<1> QED BY <1>1, <1>2

\* Both merges of Coalescence.
LEMMA CoalescenceGood ==
  ASSUME NEW list, GoodList(list), NEW i \in Int
  PROVE  /\ GoodList(Coalescence(list, i))
         /\ \A a, b \in Int : a < b /\ Clear(list, a, b) => Clear(Coalescence(list, i), a, b)
<1>1. /\ GoodList(MergeAt(list, i))
      /\ \A a, b \in Int : a < b /\ Clear(list, a, b) => Clear(MergeAt(list, i), a, b)
  BY MergeGood
<1>2. i - 1 \in Int
  OBVIOUS
<1> DEFINE half == MergeAt(list, i)
<1> HIDE DEF half
<1>3. GoodList(half) => /\ GoodList(MergeAt(half, i - 1))
                        /\ \A a, b \in Int : a < b /\ Clear(half, a, b)
                                               => Clear(MergeAt(half, i - 1), a, b)
  BY <1>2, MergeGood
<1> QED BY <1>1, <1>3 DEF half, Coalescence

-----------------------------------------------------------------------------
\* A good block is a range of addresses that holds its header and the request.
LEMMA BlockBounds ==
  ASSUME NEW b, GoodBlock(b)
  PROVE  /\ b.start \in Nat /\ b.end \in Nat /\ b.start < b.end /\ b.end - b.start >= 16
         /\ b.request \in Requests /\ b.request.size \in Nat /\ b.request.size >= 8
         /\ b.header \in Nat /\ Data(b) = b.header + 8 /\ b.start <= b.header
         /\ b.end = Data(b) + b.request.size
<1>1. /\ b.start \in Nat /\ b.end \in Nat /\ b.header \in Nat /\ b.request \in Requests
      /\ b.start <= b.header /\ b.end = Data(b) + b.request.size
  BY DEF GoodBlock, BlockSet
<1>2. b.request.size \in Nat /\ b.request.size >= 8
  BY <1>1, RequestAssumption DEF NodeSize
<1> QED BY <1>1, <1>2 DEF Data, HeaderSize

\* What is whole has its types, whatever is counted.
LEMMA IntactTypes ==
  ASSUME Intact, used \in Nat, peak \in Nat, halted \in BOOLEAN, corrupt \in BOOLEAN
  PROVE  TypeOK
<1>1. freeList \in Seq([addr : Nat, size : Nat])
  BY DEF Intact, GoodList, NodeSet
<1>2. ASSUME NEW i \in DOMAIN freeList PROVE freeList[i].size >= NodeSize
  <2>1. i \in 1 .. Len(freeList)
    BY <1>1, <1>2, LenProperties
  <2> QED BY <2>1 DEF Intact, GoodList, Good
<1>3. ASSUME NEW b \in live
      PROVE  /\ b \in [header : Nat, blockSize : Nat, padding : Nat,
                       start : Nat, end : Nat, request : Requests]
             /\ b.start < b.end
  <2>1. GoodBlock(b)
    BY <1>3 DEF Intact
  <2> QED BY <2>1, BlockBounds DEF GoodBlock, BlockSet
<1> QED BY <1>1, <1>2, <1>3 DEF TypeOK

\* The whole buffer is one good node.
LEMMA InitIInv == Init => IInv
<1> SUFFICES ASSUME Init PROVE IInv
  OBVIOUS
<1> USE DEF Init
<1> DEFINE n == Node(Base, HeapSize)
<1>1. /\ n \in NodeSet /\ n.addr = Base /\ n.size = HeapSize
      /\ Base \in Nat /\ HeapSize \in Nat /\ HeapSize >= NodeSize
  BY HeapAssumption DEF Node, NodeSet
<1>2. freeList = <<n>>
  BY DEF WholeHeap
<1> HIDE DEF n
<1>3. freeList \in Seq(NodeSet) /\ Len(freeList) = 1 /\ freeList[1] = n
  BY <1>1, <1>2
<1>4. Good(n)
  BY <1>1 DEF Good, Memory
<1>5. GoodList(freeList)
  BY <1>3, <1>4 DEF GoodList
<1>6. Intact
  BY <1>5 DEF Intact, BlocksApart
<1> QED BY <1>6, IntactTypes DEF IInv

\* The step of Allocate, and the block it adds: a good one, apart from all others.
\* What is left of the node keeps the list whole unless it is less than a Node.
LEMMA AllocateIInv ==
  ASSUME Intact, TypeOK, NEW r \in Requests, Allocate(r)
  PROVE  /\ IInv'
         /\ \E b : /\ live' = live \cup {b} /\ GoodBlock(b) /\ b.request = r
                   /\ used' = (used + (b.end - b.start)) % USize
                   /\ \A c \in live : Apart(b.start, b.end, c.start, c.end)
<1>1. PICK i \in DOMAIN freeList :
        /\ FindFirst(r, i)
        /\ LET node == freeList[i]
               b    == Block(node, r)
               rest == node.size - (b.end - b.start)
           IN  /\ freeList' = IF rest > 0 THEN [freeList EXCEPT ![i] = Node(b.end, rest)]
                                          ELSE RemoveAt(freeList, i)
               /\ live' = live \cup {b}
               /\ used' = (used + (b.end - b.start)) % USize
               /\ peak' = IF used' > peak THEN used' ELSE peak
               /\ corrupt' = (rest > 0 /\ rest < NodeSize)
  BY DEF Allocate
<1>2. /\ freeList \in Seq(NodeSet) /\ Len(freeList) \in Nat
      /\ i \in 1 .. Len(freeList) /\ GoodList(freeList)
  BY LenProperties DEF Intact, GoodList
<1> DEFINE node == freeList[i]
           b    == Block(node, r)
           rest == node.size - (b.end - b.start)
           left == Node(b.end, rest)
<1>3. Good(node)
  BY <1>2 DEF GoodList
<1>4. node.size >= Required(node.addr, r)
  BY <1>1 DEF FindFirst, Fitting, Fits
<1>5. /\ Required(node.addr, r) \in Nat /\ Required(node.addr, r) >= 16
      /\ b \in BlockSet
      /\ b.start = node.addr /\ b.request = r
      /\ b.end = node.addr + Required(node.addr, r)
      /\ b.start <= b.header
      /\ b.end = Data(b) + r.size
      /\ Data(b) % r.align = 0
  BY <1>3, BlockOfNode
<1>8. /\ freeList' = IF rest > 0 THEN [freeList EXCEPT ![i] = left] ELSE RemoveAt(freeList, i)
      /\ live' = live \cup {b}
      /\ used' = (used + (b.end - b.start)) % USize
      /\ peak' = IF used' > peak THEN used' ELSE peak
      /\ corrupt' = (rest > 0 /\ rest < NodeSize)
      /\ halted' = halted
  BY <1>1 DEF Allocate
<1> HIDE DEF node, b
<1>6. /\ node.addr \in Nat /\ node.size \in Nat
      /\ node.addr .. node.addr + node.size - 1 \subseteq Memory
  BY <1>3 DEF Good, NodeSet
<1>7. /\ b.end \in Nat /\ b.end <= node.addr + node.size /\ b.start < b.end
      /\ rest \in Nat /\ b.end + rest = node.addr + node.size
  BY <1>4, <1>5, <1>6
<1>9. left.addr = b.end /\ left.size = rest /\ left \in NodeSet
  BY <1>7 DEF Node, NodeSet
<1> HIDE DEF rest, left
<1>a. /\ node.addr \in Nat /\ node.size \in Nat
      /\ b.start = node.addr /\ b.end \in Nat
      /\ b.start < b.end /\ b.end <= node.addr + node.size
      /\ left.addr = b.end /\ left.size \in Nat
      /\ left.addr + left.size = node.addr + node.size
  BY <1>5, <1>6, <1>7, <1>9
\* A range that the chosen node keeps off, both halves of the node keep off.
<1>10. ASSUME NEW x \in Int, NEW y \in Int, Off(node, x, y)
       PROVE  Off(left, x, y) /\ Apart(b.start, b.end, x, y)
  BY <1>a, <1>10 DEF Off, Apart
<1>b. freeList' \in Seq(NodeSet)
  <2>1. [freeList EXCEPT ![i] = left] \in Seq(NodeSet)
    BY <1>2, <1>9, ExceptSeq
  <2>2. RemoveAt(freeList, i) \in Seq(NodeSet)
    BY <1>2, RemoveAtProperties
  <2> QED BY <1>8, <2>1, <2>2
<1>11. ASSUME ~corrupt'
       PROVE  /\ GoodList(freeList')
              /\ Clear(freeList', b.start, b.end)
              /\ \A x, y \in Int : Clear(freeList, x, y) => Clear(freeList', x, y)
  <2>1. CASE rest > 0
    <3>1. Good(left)
      <4>0. ~(rest < NodeSize)
        BY <1>8, <1>11, <2>1, Zenon
      <4>1. left.size >= NodeSize
        BY <1>7, <1>9, <4>0 DEF NodeSize
      <4>2. left.addr .. left.addr + left.size - 1 \subseteq Memory
        BY <1>6, <1>a
      <4> QED BY <1>9, <4>1, <4>2 DEF Good
    <3>2. ASSUME NEW j \in 1 .. Len(freeList), j # i
          PROVE  /\ Off(freeList[j], left.addr, left.addr + left.size)
                 /\ Off(freeList[j], b.start, b.end)
      <4>1. Off(freeList[j], node.addr, node.addr + node.size)
        BY <1>2, <3>2 DEF GoodList, node
      <4>2. Good(freeList[j])
        BY <1>2 DEF GoodList
      <4>3. freeList[j].addr \in Nat /\ freeList[j].size \in Nat
        BY <4>2 DEF Good, NodeSet
      <4> QED BY <1>a, <4>1, <4>3 DEF Off, Apart
    <3>3. /\ GoodList([freeList EXCEPT ![i] = left])
          /\ \A x, y : Clear(freeList, x, y) /\ Off(left, x, y)
                         => Clear([freeList EXCEPT ![i] = left], x, y)
      BY <1>2, <3>1, <3>2, ReplaceGood
    <3>4. freeList' = [freeList EXCEPT ![i] = left]
      BY <1>8, <2>1
    <3>5. Clear(freeList', b.start, b.end)
      <4>1. Off(left, b.start, b.end)
        BY <1>7, <1>9 DEF Off, Apart
      <4> QED BY <1>2, <1>9, <3>2, <3>4, <4>1 DEF Clear
    <3>6. ASSUME NEW x \in Int, NEW y \in Int, Clear(freeList, x, y)
          PROVE  Clear(freeList', x, y)
      <4>1. Off(left, x, y)
        BY <1>2, <1>10, <3>6 DEF Clear, node
      <4> QED BY <3>3, <3>4, <3>6, <4>1
    <3> QED BY <3>3, <3>4, <3>5, <3>6
  <2>2. CASE ~(rest > 0)
    <3>1. freeList' = RemoveAt(freeList, i) /\ b.end = node.addr + node.size
      BY <1>7, <1>8, <2>2 DEF rest
    <3>2. /\ GoodList(RemoveAt(freeList, i))
          /\ \A x, y : Clear(freeList, x, y) => Clear(RemoveAt(freeList, i), x, y)
          /\ Clear(RemoveAt(freeList, i), node.addr, node.addr + node.size)
      BY <1>2, RemoveGood DEF node
    <3> QED BY <1>a, <3>1, <3>2
  <2> QED BY <2>1, <2>2
<1>12. \A c \in live : Apart(b.start, b.end, c.start, c.end)
  <2> TAKE c \in live
  <2>1. Clear(freeList, c.start, c.end) /\ c.start \in Int /\ c.end \in Int
    BY DEF Intact, GoodBlock, BlockSet
  <2>2. Off(node, c.start, c.end)
    BY <1>2, <2>1 DEF Clear, node
  <2> QED BY <1>10, <2>1, <2>2
<1>13. ASSUME ~corrupt', NEW c \in live PROVE Clear(freeList', c.start, c.end)
  <2>1. Clear(freeList, c.start, c.end) /\ c.start \in Int /\ c.end \in Int
    BY DEF Intact, GoodBlock, BlockSet
  <2> QED BY <1>11, <1>13, <2>1
<1>14. GoodBlock(b)
  <2>1. b.start .. b.end - 1 \subseteq Memory
    BY <1>6, <1>a
  <2> QED BY <1>5, <2>1 DEF GoodBlock
<1>15. BlocksApart'
  <2> SUFFICES ASSUME NEW c \in live', NEW d \in live', c # d
               PROVE  Apart(c.start, c.end, d.start, d.end)
    BY DEF BlocksApart
  <2>1. CASE c \in live /\ d \in live
    BY <2>1 DEF Intact, BlocksApart
  <2>2. CASE c = b /\ d \in live
    BY <1>12, <2>2
  <2>3. CASE c \in live /\ d = b
    BY <1>12, <2>3 DEF Apart
  <2> QED BY <1>8, <2>1, <2>2, <2>3
<1>16. used' \in Nat /\ peak' \in Nat /\ corrupt' \in BOOLEAN /\ halted' \in BOOLEAN
  <2>1. b.end - b.start \in Nat /\ USize \in Nat \ {0} /\ used \in Nat /\ peak \in Nat
    BY <1>a, HeapAssumption DEF TypeOK
  <2>2. used' \in Nat
    BY <1>8, <2>1
  <2> QED BY <1>8, <2>1, <2>2 DEF TypeOK
<1>17. ~corrupt' => Intact'
  <2> SUFFICES ASSUME ~corrupt' PROVE Intact'
    OBVIOUS
  <2>1. \A c \in live' : Clear(freeList', c.start, c.end) /\ GoodBlock(c)
    BY <1>8, <1>11, <1>13, <1>14 DEF Intact
  <2> QED BY <1>11, <1>15, <2>1 DEF Intact
<1>18. TypeOK'
  <2>1. ASSUME ~corrupt', NEW j \in DOMAIN freeList' PROVE freeList'[j].size >= NodeSize
    <3>1. j \in 1 .. Len(freeList')
      BY <1>b, <2>1, LenProperties
    <3> QED BY <1>11, <2>1, <3>1 DEF GoodList, Good
  <2>2. ASSUME NEW c \in live'
        PROVE  /\ c \in [header : Nat, blockSize : Nat, padding : Nat,
                         start : Nat, end : Nat, request : Requests]
               /\ c.start < c.end
    <3>1. GoodBlock(c)
      BY <1>8, <1>14, <2>2 DEF Intact
    <3> QED BY <3>1, BlockBounds DEF GoodBlock, BlockSet
  <2> QED BY <1>b, <1>16, <2>1, <2>2 DEF TypeOK, NodeSet
<1>19. IInv'
  BY <1>17, <1>18 DEF IInv
<1> QED BY <1>5, <1>8, <1>12, <1>14, <1>19

\* Appending is inserting after the last node.
LEMMA AppendGood ==
  ASSUME NEW list, GoodList(list), NEW n, Good(n),
         Clear(list, n.addr, n.addr + n.size)
  PROVE  /\ GoodList(Append(list, n))
         /\ \A a, b : Clear(list, a, b) /\ Off(n, a, b) => Clear(Append(list, n), a, b)
<1> DEFINE k == Len(list) + 1
<1>1. /\ list \in Seq(NodeSet) /\ Len(list) \in Nat /\ n \in NodeSet
      /\ k \in 1 .. Len(list) + 1 /\ k = Len(list) + 1
  BY LenProperties DEF GoodList, Good
<1> HIDE DEF k
<1>2. /\ InsertAt(list, k, n) \in Seq(NodeSet)
      /\ Len(InsertAt(list, k, n)) = Len(list) + 1
      /\ \A j \in 1 .. k - 1 : InsertAt(list, k, n)[j] = list[j]
      /\ InsertAt(list, k, n)[k] = n
  BY <1>1, InsertAtProperties
<1>3. /\ Append(list, n) \in Seq(NodeSet)
      /\ Len(Append(list, n)) = Len(list) + 1
      /\ \A j \in 1 .. Len(list) : Append(list, n)[j] = list[j]
      /\ Append(list, n)[Len(list) + 1] = n
  BY <1>1, AppendProperties
<1>4. Append(list, n) = InsertAt(list, k, n)
  <2>1. \A j \in 1 .. Len(Append(list, n)) : Append(list, n)[j] = InsertAt(list, k, n)[j]
    BY <1>1, <1>2, <1>3
  <2> QED BY <1>1, <1>2, <1>3, <2>1, SeqEqual
<1> QED BY <1>1, <1>4, InsertGood

\* The node Free makes of a block whose header is right is the block again, and
\* the list is clear of it.
LEMMA FreeNodeGood ==
  ASSUME Intact, NEW b \in live, Recorded(b)
  PROVE  /\ Good(FreeNode(b)) /\ FreeNode(b) \in NodeSet /\ FreeNode(b).size >= 16
         /\ FreeNode(b).addr = b.start /\ FreeNode(b).addr + FreeNode(b).size = b.end
         /\ Data(b) = FreeNode(b).addr + 8
         /\ Clear(freeList, FreeNode(b).addr, FreeNode(b).addr + FreeNode(b).size)
<1> DEFINE n == FreeNode(b)
<1>1. /\ GoodBlock(b) /\ Clear(freeList, b.start, b.end)
  BY DEF Intact
<1>2. /\ b.start \in Nat /\ b.end \in Nat /\ b.end - b.start >= 16
      /\ Data(b) = b.header + 8 /\ b.start .. b.end - 1 \subseteq Memory
  BY <1>1, BlockBounds DEF GoodBlock
<1>3. n.addr = b.start /\ n.size = b.end - b.start
  BY DEF FreeNode, Node, Recorded
<1>4. n \in NodeSet
  BY <1>2, <1>3 DEF FreeNode, Node, NodeSet, Recorded
<1>5. Data(b) = n.addr + 8
  BY <1>2, <1>3 DEF Recorded
<1> HIDE DEF n
<1>6. n.addr + n.size = b.end /\ n.size >= 16
  BY <1>2, <1>3
<1>7. Good(n)
  BY <1>2, <1>3, <1>4, <1>6 DEF Good, NodeSize
<1> QED BY <1>1, <1>3, <1>4, <1>5, <1>6, <1>7 DEF n

\* The node Free makes of a good block is good and off everything else, so putting
\* it back, merged or not, keeps the invariant.
LEMMA FreeWhole ==
  ASSUME Intact, NEW b \in live, Free(b), Recorded(b)
  PROVE  Intact'
<1> DEFINE n == FreeNode(b)
<1>1. /\ live' = live \ {b}
      /\ (\E i \in DOMAIN freeList : FreeInsert(b, i)) \/ FreeAtEnd(b)
  BY DEF Free
<1>2. /\ freeList \in Seq(NodeSet) /\ Len(freeList) \in Nat
      /\ DOMAIN freeList = 1 .. Len(freeList)
      /\ GoodList(freeList)
  BY LenProperties DEF Intact, GoodList
<1>6. /\ Good(n) /\ n.addr = b.start /\ n.addr + n.size = b.end
      /\ Clear(freeList, n.addr, n.addr + n.size)
  BY FreeNodeGood
<1> HIDE DEF n
<1>8. /\ GoodList(freeList')
      /\ \A x, y \in Int : x < y /\ Clear(freeList, x, y) /\ Off(n, x, y)
                             => Clear(freeList', x, y)
  <2>1. ASSUME NEW i \in DOMAIN freeList, FreeInsert(b, i)
        PROVE  /\ GoodList(freeList')
               /\ \A x, y \in Int : x < y /\ Clear(freeList, x, y) /\ Off(n, x, y)
                                      => Clear(freeList', x, y)
    <3> DEFINE longer == InsertAt(freeList, i, n)
    <3>1. freeList' = Coalescence(longer, i)
      BY <2>1 DEF FreeInsert, n
    <3>2. i \in 1 .. Len(freeList) + 1 /\ i \in Int
      BY <1>2
    <3>3. /\ GoodList(longer)
          /\ \A x, y : Clear(freeList, x, y) /\ Off(n, x, y) => Clear(longer, x, y)
      BY <1>2, <1>6, <3>2, InsertGood
    <3> HIDE DEF longer
    <3>4. /\ GoodList(Coalescence(longer, i))
          /\ \A x, y \in Int : x < y /\ Clear(longer, x, y)
                                 => Clear(Coalescence(longer, i), x, y)
      BY <3>2, <3>3, CoalescenceGood
    <3> QED BY <3>1, <3>3, <3>4
  <2>2. ASSUME FreeAtEnd(b)
        PROVE  /\ GoodList(freeList')
               /\ \A x, y \in Int : x < y /\ Clear(freeList, x, y) /\ Off(n, x, y)
                                      => Clear(freeList', x, y)
    <3> DEFINE longer == Append(freeList, n)
    <3>1. \/ freeList' = MergeAt(longer, Len(freeList))
          \/ freeList' = freeList
      BY <2>2 DEF FreeAtEnd, n
    <3>2. /\ GoodList(longer)
          /\ \A x, y : Clear(freeList, x, y) /\ Off(n, x, y) => Clear(longer, x, y)
      BY <1>2, <1>6, AppendGood
    <3> HIDE DEF longer
    <3>3. Len(freeList) \in Int
      BY <1>2
    <3>4. /\ GoodList(MergeAt(longer, Len(freeList)))
          /\ \A x, y \in Int : x < y /\ Clear(longer, x, y)
                                 => Clear(MergeAt(longer, Len(freeList)), x, y)
      BY <3>2, <3>3, MergeGood
    <3>5. CASE freeList' = MergeAt(longer, Len(freeList))
      BY <3>2, <3>4, <3>5
    <3>6. CASE freeList' = freeList
      BY <1>2, <3>6
    <3> QED BY <3>1, <3>5, <3>6
  <2> QED BY <1>1, <2>1, <2>2
<1>9. \A c \in live' : Clear(freeList', c.start, c.end)
  <2> TAKE c \in live'
  <2>1. c \in live /\ c # b
    BY <1>1
  <2>2. GoodBlock(c) /\ Clear(freeList, c.start, c.end) /\ Apart(b.start, b.end, c.start, c.end)
    BY <2>1 DEF Intact, BlocksApart
  <2>3. c.start \in Int /\ c.end \in Int /\ c.start < c.end
    BY <2>2, BlockBounds
  <2>4. Off(n, c.start, c.end)
    BY <1>6, <2>2 DEF Off
  <2> QED BY <1>8, <2>2, <2>3, <2>4
<1>10. BlocksApart'
  BY <1>1 DEF Intact, BlocksApart
<1> QED BY <1>1, <1>8, <1>9, <1>10 DEF Intact

\* A merge makes nodes of nodes.
LEMMA MergeTyped ==
  ASSUME NEW list \in Seq(NodeSet), NEW i
  PROVE  MergeAt(list, i) \in Seq(NodeSet)
<1>1. CASE ~(i \in 1 .. Len(list) - 1 /\ Contiguous(list[i], list[i + 1]))
  BY <1>1 DEF MergeAt
<1>2. CASE i \in 1 .. Len(list) - 1 /\ Contiguous(list[i], list[i + 1])
  <2> DEFINE n == Node(list[i].addr, list[i].size + list[i + 1].size)
             k == i + 1
  <2>1. Len(list) \in Nat /\ i \in 1 .. Len(list) /\ k \in 1 .. Len(list)
    BY <1>2, LenProperties
  <2>2. list[i] \in NodeSet /\ list[k] \in NodeSet
    BY <2>1, ElementOfSeq
  <2>3. n \in NodeSet
    BY <2>2 DEF Node, NodeSet
  <2> HIDE DEF n
  <2>4. MergeAt(list, i) = [RemoveAt(list, k) EXCEPT ![i] = n]
    BY <1>2 DEF MergeAt, n
  <2> HIDE DEF k
  <2>5. RemoveAt(list, k) \in Seq(NodeSet) /\ Len(RemoveAt(list, k)) = Len(list) - 1
    BY <2>1, RemoveAtProperties
  <2>6. i \in 1 .. Len(RemoveAt(list, k))
    BY <1>2, <2>5
  <2> QED BY <2>3, <2>4, <2>5, <2>6, ExceptSeq
<1> QED BY <1>1, <1>2

\* Putting a node in the list, merged or not, leaves a list of nodes: also when the
\* header of the block misstates it.
LEMMA FreeTyped ==
  ASSUME TypeOK, NEW b \in live, Free(b)
  PROVE  /\ freeList' \in Seq(NodeSet)
         /\ used' \in Nat /\ peak' \in Nat /\ halted' \in BOOLEAN /\ corrupt' \in BOOLEAN
         /\ \A c \in live' : /\ c \in [header : Nat, blockSize : Nat, padding : Nat,
                                       start : Nat, end : Nat, request : Requests]
                             /\ c.start < c.end
<1> DEFINE n == FreeNode(b)
<1>1. /\ live' = live \ {b} /\ peak' = peak /\ halted' = halted
      /\ used' = (used - n.size) % USize
      /\ corrupt' = ~Recorded(b)
      /\ (\E i \in DOMAIN freeList : FreeInsert(b, i)) \/ FreeAtEnd(b)
  BY DEF Free
<1>2. /\ freeList \in Seq(NodeSet) /\ Len(freeList) \in Nat
      /\ DOMAIN freeList = 1 .. Len(freeList)
  BY LenProperties DEF TypeOK, NodeSet
<1>3. n \in NodeSet /\ n.size \in Nat
  <2>1. b.header \in Nat /\ b.blockSize \in Nat /\ b.padding \in Nat
    BY DEF TypeOK
  <2> QED BY <2>1 DEF FreeNode, Node, NodeSet
<1>4. freeList' \in Seq(NodeSet)
  <2>1. ASSUME NEW i \in DOMAIN freeList, FreeInsert(b, i) PROVE freeList' \in Seq(NodeSet)
    <3>1. freeList' = Coalescence(InsertAt(freeList, i, n), i)
      BY <2>1 DEF FreeInsert
    <3> HIDE DEF n
    <3>2. InsertAt(freeList, i, n) \in Seq(NodeSet)
      BY <1>2, <1>3, InsertAtProperties
    <3> QED BY <3>1, <3>2, MergeTyped DEF Coalescence
  <2>2. ASSUME FreeAtEnd(b) PROVE freeList' \in Seq(NodeSet)
    <3>1. freeList' = MergeAt(Append(freeList, n), Len(freeList)) \/ freeList' = freeList
      BY <2>2 DEF FreeAtEnd
    <3> HIDE DEF n
    <3>2. Append(freeList, n) \in Seq(NodeSet)
      BY <1>2, <1>3, AppendProperties
    <3> QED BY <1>2, <3>1, <3>2, MergeTyped
  <2> QED BY <1>1, <2>1, <2>2
<1>5. used' \in Nat
  <2>1. used \in Nat /\ USize \in Nat \ {0}
    BY HeapAssumption DEF TypeOK
  <2>2. used - n.size \in Int
    BY <1>3, <2>1
  <2> QED BY <1>1, <2>1, <2>2
<1>6. corrupt' \in BOOLEAN
  BY <1>1 DEF Recorded
<1> QED BY <1>1, <1>4, <1>5, <1>6 DEF TypeOK

\* Free of a block keeps the invariant: a block whose header misstates it is the end
\* of the intact list.
LEMMA FreeIInv ==
  ASSUME Intact, TypeOK, NEW b \in live, Free(b)
  PROVE  IInv'
<1>1. corrupt' = ~Recorded(b)
  BY DEF Free
<1>2. ~corrupt' => Intact'
  BY <1>1, FreeWhole DEF Recorded
<1>3. ASSUME ~corrupt', NEW j \in DOMAIN freeList' PROVE freeList'[j].size >= NodeSize
  <2>1. freeList' \in Seq(NodeSet)
    BY FreeTyped
  <2>2. j \in 1 .. Len(freeList')
    BY <1>3, <2>1, LenProperties
  <2>3. GoodList(freeList')
    BY <1>2, <1>3 DEF Intact
  <2> QED BY <2>2, <2>3 DEF GoodList, Good
<1>4. TypeOK'
  BY <1>3, FreeTyped DEF TypeOK, NodeSet
<1> QED BY <1>2, <1>4 DEF IInv

-----------------------------------------------------------------------------
\* IInv holds in every reachable state of the allocator, whatever the buffer and
\* the requests: the list stays whole until it is written where it has no memory.
THEOREM Invariance == Spec => []IInv
<1>1. Init => IInv
  BY InitIInv
<1>2. IInv /\ [Next]_vars => IInv'
  <2> SUFFICES ASSUME IInv, [Next]_vars PROVE IInv'
    OBVIOUS
  <2>1. CASE \E r \in Requests : Allocate(r)
    BY <2>1, AllocateIInv DEF Allocate, Running, IInv
  <2>2. CASE \E r \in Requests : AllocateFails(r)
    BY <2>2 DEF AllocateFails, IInv, TypeOK, Intact, BlocksApart
  <2>3. CASE \E b \in live : Free(b)
    BY <2>3, FreeIInv DEF Free, Running, IInv
  <2>4. CASE UNCHANGED vars
    BY <2>4 DEF vars, IInv, TypeOK, Intact, BlocksApart
  <2> QED BY <2>1, <2>2, <2>3, <2>4 DEF Next
<1> QED BY <1>1, <1>2, PTL DEF Spec

\* No sequence of Allocate and Free makes two blocks, two free nodes, or a block and
\* a free node share a byte, unless it split off less than a Node or freed a block
\* whose header misstates it.
THEOREM Separation == Spec => []NoOverlap
<1>1. IInv => NoOverlap
  <2> SUFFICES ASSUME Intact PROVE NodesApart /\ BlocksApart /\ NodesApartFromBlocks
    BY DEF IInv, NoOverlap
  <2>1. DOMAIN freeList = 1 .. Len(freeList)
    BY LenProperties DEF Intact, GoodList
  <2> QED BY <2>1 DEF Intact, GoodList, Clear, NodesApart, BlocksApart, NodesApartFromBlocks
<1> QED BY <1>1, Invariance, PTL

\* The allocator's variables keep their types; in particular no node of an intact
\* list is too small for the Node in it.
THEOREM TypeCorrect == Spec => []TypeOK
<1>1. IInv => TypeOK
  BY DEF IInv
<1> QED BY <1>1, Invariance, PTL

-----------------------------------------------------------------------------
\* What the caller of a good block holds lies inside it.
LEMMA DataOfGoodBlock ==
  ASSUME NEW b, GoodBlock(b)
  PROVE  /\ Data(b) \in Nat /\ b.start + 8 <= Data(b)
         /\ b.end = Data(b) + b.request.size
         /\ Data(b) % b.request.align = 0
         /\ Data(b) .. Data(b) + b.request.size - 1 \subseteq Memory
<1>1. /\ b.start \in Nat /\ b.end \in Nat /\ b.header \in Nat /\ Data(b) = b.header + 8
      /\ b.start <= b.header /\ b.end = Data(b) + b.request.size /\ b.request.size \in Nat
  BY BlockBounds
<1>2. Data(b) % b.request.align = 0 /\ b.start .. b.end - 1 \subseteq Memory
  BY DEF GoodBlock
<1>3. ASSUME NEW x \in Data(b) .. Data(b) + b.request.size - 1 PROVE x \in Memory
  <2>1. x \in b.start .. b.end - 1
    BY <1>1
  <2> QED BY <1>2, <2>1
<1> QED BY <1>1, <1>2, <1>3

\* Two good blocks that are apart give their callers disjoint bytes.
LEMMA ApartBytes ==
  ASSUME NEW b, NEW c, GoodBlock(b), GoodBlock(c), Apart(b.start, b.end, c.start, c.end)
  PROVE  /\ H!Bytes(Data(b), b.request) \cap H!Bytes(Data(c), c.request) = {}
         /\ Data(b) # Data(c)
<1>1. /\ b.start + 8 <= Data(b) /\ b.start \in Nat /\ b.request.size \in Nat
      /\ Data(b) \in Nat /\ b.request.size >= 8 /\ b.end = Data(b) + b.request.size
      /\ c.start + 8 <= Data(c) /\ c.start \in Nat /\ c.request.size \in Nat
      /\ Data(c) \in Nat /\ c.request.size >= 8 /\ c.end = Data(c) + c.request.size
  BY DataOfGoodBlock, BlockBounds
<1> QED BY <1>1 DEF H!Bytes, Apart

\* Allocate hands its caller bytes of the heap that no other caller holds.
LEMMA AllocateRefines ==
  ASSUME Intact, TypeOK, NEW r \in Requests, Allocate(r)
  PROVE  H!Alloc(r)
<1>1. PICK b : /\ live' = live \cup {b} /\ GoodBlock(b) /\ b.request = r
               /\ \A c \in live : Apart(b.start, b.end, c.start, c.end)
  BY AllocateIInv
<1> DEFINE a == Data(b)
<1>2. /\ a % r.align = 0 /\ H!Bytes(a, r) \subseteq Memory /\ a \in Memory
  <2>1. /\ a % r.align = 0 /\ a .. a + r.size - 1 \subseteq Memory
        /\ a \in Nat /\ r.size \in Nat /\ r.size >= 8
    BY <1>1, DataOfGoodBlock, BlockBounds
  <2>2. a \in a .. a + r.size - 1
    BY <2>1
  <2> QED BY <2>1, <2>2 DEF H!Bytes
<1>3. ASSUME NEW h \in Held
      PROVE  H!Bytes(a, r) \cap H!Bytes(h.addr, h.request) = {}
  <2>1. PICK c \in live : h = [addr |-> Data(c), request |-> c.request]
    BY <1>3 DEF Held
  <2>2. GoodBlock(c) /\ Apart(b.start, b.end, c.start, c.end)
    BY <1>1 DEF Intact
  <2>3. H!Bytes(Data(b), b.request) \cap H!Bytes(Data(c), c.request) = {}
    BY <1>1, <2>2, ApartBytes
  <2> QED BY <1>1, <2>1, <2>3
<1>4. Held' = Held \cup {[addr |-> a, request |-> r]}
  BY <1>1 DEF Held
<1> QED BY <1>2, <1>3, <1>4 DEF H!Alloc

\* Free takes exactly the caller's block away from what is held.
LEMMA FreeRefines ==
  ASSUME Intact, NEW b \in live, Free(b)
  PROVE  \E h \in Held : H!Free(h)
<1> DEFINE view(c) == [addr |-> Data(c), request |-> c.request]
<1>1. live' = live \ {b} /\ view(b) \in Held
  BY DEF Free, Held
<1>2. ASSUME NEW c \in live, c # b PROVE view(c) # view(b)
  <2>1. GoodBlock(b) /\ GoodBlock(c) /\ Apart(b.start, b.end, c.start, c.end)
    BY <1>2 DEF Intact, BlocksApart
  <2>2. Data(b) # Data(c)
    BY <2>1, ApartBytes
  <2> QED BY <2>2
<1>3. Held = {view(c) : c \in live} /\ Held' = {view(c) : c \in live'}
  BY DEF Held, Data
<1> HIDE DEF view
<1>4. Held' = Held \ {view(b)}
  BY <1>1, <1>2, <1>3
<1> QED BY <1>1, <1>4 DEF H!Free

\* From an intact list, every step is one of the Heap interface: memory handed out
\* is aligned, inside the heap, and held by no other caller.
THEOREM Implementation == Spec => ImplementsHeap
<1>1. Init => H!Init
  BY DEF Init, H!Init, Held
<1>2. IInv /\ [Next]_vars => [~corrupt => H!Next]_Held
  <2> SUFFICES ASSUME IInv, [Next]_vars, ~corrupt PROVE H!Next \/ UNCHANGED Held
    OBVIOUS
  <2>0. Intact /\ TypeOK
    BY DEF IInv
  <2>1. CASE \E r \in Requests : Allocate(r)
    BY <2>0, <2>1, AllocateRefines DEF H!Next
  <2>2. CASE \E r \in Requests : AllocateFails(r)
    BY <2>2 DEF AllocateFails, Held, Data
  <2>3. CASE \E b \in live : Free(b)
    BY <2>0, <2>3, FreeRefines DEF H!Next
  <2>4. CASE UNCHANGED vars
    BY <2>4 DEF vars, Held, Data
  <2> QED BY <2>1, <2>2, <2>3, <2>4 DEF Next
<1> QED BY <1>1, <1>2, Invariance, PTL DEF Spec, ImplementsHeap

-----------------------------------------------------------------------------
\* The node before the i-th place meets it at most.
Meets(list, i) == list[i].addr + list[i].size <= list[i + 1].addr
Gap(list, i) == list[i].addr + list[i].size < list[i + 1].addr

\* The list after a merge: the i-th node ends where the one it swallowed ended.
LEMMA MergedNodes ==
  ASSUME NEW list, GoodList(list), NEW i \in 1 .. Len(list) - 1,
         Contiguous(list[i], list[i + 1])
  PROVE  /\ Len(MergeAt(list, i)) = Len(list) - 1
         /\ \A j \in 1 .. i - 1 : MergeAt(list, i)[j] = list[j]
         /\ MergeAt(list, i)[i].addr = list[i].addr
         /\ MergeAt(list, i)[i].addr + MergeAt(list, i)[i].size
              = list[i + 1].addr + list[i + 1].size
         /\ \A j \in i + 1 .. Len(list) - 1 : MergeAt(list, i)[j] = list[j + 1]
<1> DEFINE short == RemoveAt(list, i + 1)
           n     == Node(list[i].addr, list[i].size + list[i + 1].size)
           new   == MergeAt(list, i)
<1>0. list \in Seq(NodeSet) /\ Len(list) \in Nat
  BY LenProperties DEF GoodList
<1>1. new = [short EXCEPT ![i] = n]
  BY DEF MergeAt
<1>2. i + 1 \in 1 .. Len(list) /\ i \in 1 .. Len(list)
  BY <1>0
<1>3. /\ list[i].addr \in Nat /\ list[i].size \in Nat
      /\ list[i + 1].addr \in Nat /\ list[i + 1].size \in Nat
  <2>1. Good(list[i]) /\ Good(list[i + 1])
    BY <1>2 DEF GoodList
  <2> QED BY <2>1 DEF Good, NodeSet
<1>4. /\ short \in Seq(NodeSet) /\ Len(short) = Len(list) - 1
      /\ \A j \in 1 .. i : short[j] = list[j]
      /\ \A j \in i + 1 .. Len(list) - 1 : short[j] = list[j + 1]
  <2> DEFINE k == i + 1
  <2>1. k \in 1 .. Len(list) /\ k - 1 = i
    BY <1>2
  <2> HIDE DEF k
  <2>2. /\ RemoveAt(list, k) \in Seq(NodeSet) /\ Len(RemoveAt(list, k)) = Len(list) - 1
        /\ \A j \in 1 .. k - 1 : RemoveAt(list, k)[j] = list[j]
        /\ \A j \in k .. Len(list) - 1 : RemoveAt(list, k)[j] = list[j + 1]
    BY <1>0, <2>1, RemoveAtProperties
  <2>3. short = RemoveAt(list, k)
    BY DEF k
  <2> HIDE DEF short
  <2> QED BY <2>1, <2>2, <2>3 DEF k
<1>5. /\ n \in NodeSet /\ n.addr = list[i].addr
      /\ n.addr + n.size = list[i + 1].addr + list[i + 1].size
  BY <1>3 DEF Node, NodeSet, Contiguous
<1> HIDE DEF short, n
<1>6. /\ Len([short EXCEPT ![i] = n]) = Len(short)
      /\ \A j \in 1 .. Len(short) : j # i => [short EXCEPT ![i] = n][j] = short[j]
      /\ [short EXCEPT ![i] = n][i] = n
  BY <1>0, <1>4, <1>5, ExceptSeq
<1>7. /\ Len(new) = Len(list) - 1
      /\ \A j \in 1 .. i - 1 : new[j] = list[j]
      /\ new[i] = n
      /\ \A j \in i + 1 .. Len(list) - 1 : new[j] = list[j + 1]
  BY <1>0, <1>1, <1>4, <1>6
<1> HIDE DEF new
<1>8. /\ new[i].addr = list[i].addr
      /\ new[i].addr + new[i].size = list[i + 1].addr + list[i + 1].size
  BY <1>5, <1>7
<1> QED BY <1>7, <1>8 DEF new

\* Merging the i-th node with the next closes the one place they may touch at.
LEMMA MergeSorts ==
  ASSUME NEW list, GoodList(list), NEW i \in Int, NEW k \in Int, k < i,
         \A j \in 1 .. Len(list) - 1 : Meets(list, j),
         \A j \in 1 .. Len(list) - 1 : j # i /\ j # k => Gap(list, j)
  PROVE  /\ \A j \in 1 .. Len(MergeAt(list, i)) - 1 : Meets(MergeAt(list, i), j)
         /\ \A j \in 1 .. Len(MergeAt(list, i)) - 1 : j # k => Gap(MergeAt(list, i), j)
<1>0. /\ list \in Seq(NodeSet) /\ Len(list) \in Nat
      /\ \A j \in 1 .. Len(list) : list[j].addr \in Nat /\ list[j].size \in Nat
  <2>1. list \in Seq(NodeSet) /\ Len(list) \in Nat /\ \A j \in 1 .. Len(list) : Good(list[j])
    BY LenProperties DEF GoodList
  <2> QED BY <2>1 DEF Good, NodeSet
<1>1. CASE ~(i \in 1 .. Len(list) - 1 /\ Contiguous(list[i], list[i + 1]))
  <2>1. MergeAt(list, i) = list
    BY <1>1 DEF MergeAt
  <2>2. ASSUME NEW j \in 1 .. Len(list) - 1, j # k PROVE Gap(list, j)
    <3>1. CASE j = i
      <4> DEFINE end  == list[j].addr + list[j].size
                 next == list[j + 1].addr
      <4>1. end <= next
        BY DEF Meets
      <4>2. end # next
        BY <1>1, <3>1 DEF Contiguous
      <4>3. j \in 1 .. Len(list) /\ j + 1 \in 1 .. Len(list)
        BY <1>0
      <4>4. end \in Nat /\ next \in Nat
        BY <1>0, <4>3
      <4> HIDE DEF end, next
      <4>5. end < next
        BY <4>1, <4>2, <4>4
      <4> QED BY <4>5 DEF Gap, end, next
    <3> QED BY <2>2, <3>1
  <2> QED BY <2>1, <2>2
<1>2. CASE i \in 1 .. Len(list) - 1 /\ Contiguous(list[i], list[i + 1])
  <2> DEFINE new == MergeAt(list, i)
             n   == new[i]
  <2>1. /\ n.addr = list[i].addr
        /\ n.addr + n.size = list[i + 1].addr + list[i + 1].size
        /\ Len(new) = Len(list) - 1
        /\ \A j \in 1 .. i - 1 : new[j] = list[j]
        /\ \A j \in i + 1 .. Len(list) - 1 : new[j] = list[j + 1]
    BY <1>2, MergedNodes
  <2> HIDE DEF new
  <2>2. ASSUME NEW j \in 1 .. Len(new) - 1
        PROVE  /\ j < i => (Meets(list, j) <=> Meets(new, j)) /\ (Gap(list, j) <=> Gap(new, j))
               /\ j >= i => /\ j + 1 \in 1 .. Len(list) - 1
                            /\ Meets(list, j + 1) <=> Meets(new, j)
                            /\ Gap(list, j + 1) <=> Gap(new, j)
    <3>1. CASE j < i - 1
      <4>0. j \in 1 .. i - 1 /\ j + 1 \in 1 .. i - 1
        BY <1>0, <1>2, <3>1
      <4>1. new[j] = list[j] /\ new[j + 1] = list[j + 1]
        BY <2>1, <4>0
      <4> QED BY <3>1, <4>1 DEF Meets, Gap
    <3>2. CASE j = i - 1
      <4>1. new[j] = list[j] /\ new[j + 1] = n
        BY <1>0, <1>2, <2>1, <3>2
      <4>2. j + 1 = i
        BY <1>2, <3>2
      <4> QED BY <2>1, <3>2, <4>1, <4>2 DEF Meets, Gap
    <3>3. CASE j = i
      <4> DEFINE m == j + 1
      <4>1. m \in i + 1 .. Len(list) - 1 /\ m \in 1 .. Len(list) - 1 /\ m = i + 1
        BY <1>0, <1>2, <2>1, <3>3
      <4> HIDE DEF m
      <4>2. new[j] = n /\ new[m] = list[m + 1]
        BY <2>1, <3>3, <4>1
      <4>3. n.addr + n.size = list[m].addr + list[m].size
        BY <2>1, <4>1
      <4>4. /\ Meets(list, m) <=> Meets(new, j)
            /\ Gap(list, m) <=> Gap(new, j)
        BY <4>2, <4>3 DEF Meets, Gap, m
      <4> QED BY <1>2, <3>3, <4>1, <4>4 DEF m
    <3>4. CASE j > i
      <4> DEFINE m == j + 1
      <4>1. /\ m \in i + 1 .. Len(list) - 1 /\ m \in 1 .. Len(list) - 1
            /\ j \in i + 1 .. Len(list) - 1 /\ ~(j < i)
        BY <1>0, <1>2, <2>1, <3>4
      <4>2. new[j] = list[m]
        BY <2>1, <4>1
      <4> HIDE DEF m
      <4>3. new[m] = list[m + 1]
        BY <2>1, <4>1
      <4>4. /\ Meets(list, m) <=> Meets(new, j)
            /\ Gap(list, m) <=> Gap(new, j)
        BY <4>2, <4>3 DEF Meets, Gap, m
      <4> QED BY <4>1, <4>4 DEF m
    <3> QED BY <1>2, <3>1, <3>2, <3>3, <3>4
  <2>3. ASSUME NEW j \in 1 .. Len(new) - 1
        PROVE  Meets(new, j) /\ (j # k => Gap(new, j))
    <3>1. CASE j < i
      <4>1. j \in 1 .. Len(list) - 1
        BY <1>0, <2>1
      <4> QED BY <2>2, <3>1, <4>1
    <3>2. CASE j >= i
      <4> DEFINE m == j + 1
      <4>1. /\ m \in 1 .. Len(list) - 1
            /\ Meets(list, m) <=> Meets(new, j)
            /\ Gap(list, m) <=> Gap(new, j)
        BY <2>2, <3>2
      <4>2. m # i /\ m # k
        BY <1>2, <3>2
      <4> HIDE DEF m
      <4> QED BY <4>1, <4>2
    <3> QED BY <1>2, <3>1, <3>2
  <2> QED BY <2>3 DEF new
<1> QED BY <1>1, <1>2

\* Coalescence of the one node that may touch its neighbours.
LEMMA CoalescenceSorts ==
  ASSUME NEW list, GoodList(list), NEW i \in Nat \ {0},
         \A j \in 1 .. Len(list) - 1 : Meets(list, j),
         \A j \in 1 .. Len(list) - 1 : j # i /\ j # i - 1 => Gap(list, j)
  PROVE  Sorted(Coalescence(list, i))
<1> DEFINE half == MergeAt(list, i)
           k    == i - 1
           none == -1
<1>1. k \in Int /\ k < i /\ none \in Int /\ none < k /\ none < 1 /\ k = i - 1 /\ i \in Int
  OBVIOUS
<1> HIDE DEF k, none
<1>2. /\ GoodList(half)
      /\ \A j \in 1 .. Len(half) - 1 : Meets(half, j)
      /\ \A j \in 1 .. Len(half) - 1 : j # k => Gap(half, j)
  BY <1>1, MergeGood, MergeSorts
<1> HIDE DEF half
<1>3. \A j \in 1 .. Len(MergeAt(half, k)) - 1 : j # none => Gap(MergeAt(half, k), j)
  BY <1>1, <1>2, MergeSorts
<1>4. Coalescence(list, i) = MergeAt(half, k)
  BY <1>1 DEF Coalescence, half
<1> QED BY <1>1, <1>3, <1>4 DEF Sorted, Gap

\* Where the loop of Free stops, the block lies above the nodes passed and below
\* the one it stopped at: the list with its node inserted still runs upwards.
LEMMA InsertionMeets ==
  ASSUME NEW list, GoodList(list), Sorted(list), NEW i \in 1 .. Len(list) + 1,
         NEW n, Good(n), Clear(list, n.addr, n.addr + n.size), n.size >= 16,
         \A j \in 1 .. i - 1 : list[j].addr <= n.addr + 8,
         i <= Len(list) => n.addr + 8 < list[i].addr
  PROVE  /\ \A j \in 1 .. Len(InsertAt(list, i, n)) - 1 : Meets(InsertAt(list, i, n), j)
         /\ \A j \in 1 .. Len(InsertAt(list, i, n)) - 1 :
              j # i /\ j # i - 1 => Gap(InsertAt(list, i, n), j)
<1> DEFINE new == InsertAt(list, i, n)
<1>0. /\ list \in Seq(NodeSet) /\ Len(list) \in Nat /\ n \in NodeSet
      /\ n.addr \in Nat /\ n.size \in Nat
      /\ \A j \in 1 .. Len(list) : /\ list[j].addr \in Nat /\ list[j].size \in Nat
                                   /\ list[j].size >= 8
  <2>1. list \in Seq(NodeSet) /\ Len(list) \in Nat /\ \A j \in 1 .. Len(list) : Good(list[j])
    BY LenProperties DEF GoodList
  <2> QED BY <2>1 DEF Good, NodeSet, NodeSize
<1>1. /\ Len(new) = Len(list) + 1
      /\ \A j \in 1 .. i - 1 : new[j] = list[j]
      /\ new[i] = n
      /\ \A j \in i + 1 .. Len(list) + 1 : new[j] = list[j - 1]
  BY <1>0, InsertAtProperties
<1> HIDE DEF new
<1>2. ASSUME NEW j \in 1 .. i - 1
      PROVE  list[j].addr + list[j].size <= n.addr
  <2>1. j \in 1 .. Len(list) /\ list[j].addr <= n.addr + 8
    BY <1>0
  <2>2. Off(list[j], n.addr, n.addr + n.size)
    BY <2>1 DEF Clear
  <2> QED BY <1>0, <2>1, <2>2 DEF Off, Apart
<1>3. ASSUME i <= Len(list)
      PROVE  n.addr + n.size <= list[i].addr
  <2>1. i \in 1 .. Len(list) /\ n.addr + 8 < list[i].addr
    BY <1>0, <1>3
  <2>2. Off(list[i], n.addr, n.addr + n.size)
    BY <2>1 DEF Clear
  <2> QED BY <1>0, <2>1, <2>2 DEF Off, Apart
<1>4. ASSUME NEW j \in 1 .. Len(new) - 1
      PROVE  Meets(new, j) /\ (j # i /\ j # i - 1 => Gap(new, j))
  <2>1. CASE j < i - 1
    <3>1. new[j] = list[j] /\ new[j + 1] = list[j + 1] /\ j \in 1 .. Len(list) - 1
      BY <1>0, <1>1, <2>1, SMTT(30)
    <3>2. list[j].addr + list[j].size < list[j + 1].addr
      BY <3>1 DEF Sorted
    <3>3. j \in 1 .. Len(list) /\ j + 1 \in 1 .. Len(list)
      BY <1>0, <3>1
    <3> QED BY <1>0, <3>1, <3>2, <3>3, SMTT(30) DEF Meets, Gap
  <2>2. CASE j = i - 1
    <3>1. new[j] = list[j] /\ new[j + 1] = n /\ j \in 1 .. i - 1
      BY <1>0, <1>1, <2>2
    <3> QED BY <1>2, <2>2, <3>1 DEF Meets
  <2>3. CASE j = i
    <3>1. new[j] = n /\ new[j + 1] = list[i] /\ i <= Len(list)
      BY <1>0, <1>1, <2>3
    <3> QED BY <1>3, <2>3, <3>1 DEF Meets
  <2>4. CASE j > i
    <3> DEFINE m == j - 1
    <3>1. /\ new[j] = list[m] /\ new[j + 1] = list[m + 1]
          /\ m \in 1 .. Len(list) - 1 /\ m \in 1 .. Len(list) /\ m + 1 \in 1 .. Len(list)
      BY <1>0, <1>1, <2>4, SMTT(30)
    <3> HIDE DEF m
    <3>2. list[m].addr + list[m].size < list[m + 1].addr
      BY <3>1 DEF Sorted
    <3> QED BY <1>0, <3>1, <3>2, SMTT(30) DEF Meets, Gap
  <2> QED BY <1>1, <2>1, <2>2, <2>3, <2>4
<1> QED BY <1>4 DEF new

\* The node found gives way to its upper part or to nothing.
LEMMA AllocateSorts ==
  ASSUME Intact, Sorted(freeList), NEW r \in Requests, Allocate(r)
  PROVE  Sorted(freeList')
<1>1. PICK i \in DOMAIN freeList :
        /\ FindFirst(r, i)
        /\ LET node == freeList[i]
               b    == Block(node, r)
               rest == node.size - (b.end - b.start)
           IN  freeList' = IF rest > 0 THEN [freeList EXCEPT ![i] = Node(b.end, rest)]
                                       ELSE RemoveAt(freeList, i)
  BY DEF Allocate
<1>2. /\ freeList \in Seq(NodeSet) /\ Len(freeList) \in Nat
      /\ i \in 1 .. Len(freeList) /\ GoodList(freeList)
  BY LenProperties DEF Intact, GoodList
<1>3. \A j \in 1 .. Len(freeList) : freeList[j].addr \in Nat /\ freeList[j].size \in Nat
  <2>1. \A j \in 1 .. Len(freeList) : Good(freeList[j])
    BY <1>2 DEF GoodList
  <2> QED BY <2>1 DEF Good, NodeSet
<1>4. \A j \in 1 .. Len(freeList) - 1 :
        freeList[j].addr + freeList[j].size < freeList[j + 1].addr
  BY DEF Sorted
<1> DEFINE node == freeList[i]
           b    == Block(node, r)
           rest == node.size - (b.end - b.start)
           left == Node(b.end, rest)
<1>5. /\ freeList' = IF rest > 0 THEN [freeList EXCEPT ![i] = left] ELSE RemoveAt(freeList, i)
      /\ b.start = node.addr /\ b.end = node.addr + Required(node.addr, r)
      /\ Required(node.addr, r) \in Nat
  <2>1. Good(node)
    BY <1>2 DEF GoodList
  <2> QED BY <1>1, <2>1, BlockOfNode
<1> HIDE DEF b
<1>6. CASE rest > 0
  <2>1. /\ left \in NodeSet /\ left.addr >= node.addr /\ left.addr \in Nat
        /\ left.addr + left.size = node.addr + node.size
    <3>0. left.addr = b.end /\ left.size = rest
      BY DEF Node
    <3>1. node.addr \in Nat /\ node.size \in Nat
      BY <1>2, <1>3
    <3>2. b.start \in Nat /\ b.end \in Nat /\ rest \in Nat
      BY <1>5, <1>6, <3>1
    <3>3. left \in NodeSet
      BY <3>2 DEF Node, NodeSet
    <3> QED BY <1>5, <3>0, <3>1, <3>2, <3>3
  <2> HIDE DEF left
  <2>2. /\ Len(freeList') = Len(freeList) /\ freeList'[i] = left
        /\ \A j \in 1 .. Len(freeList) : j # i => freeList'[j] = freeList[j]
    BY <1>2, <1>5, <1>6, <2>1, ExceptSeq
  <2>3. ASSUME NEW j \in 1 .. Len(freeList) - 1
        PROVE  freeList'[j].addr + freeList'[j].size < freeList'[j + 1].addr
    <3>1. j \in 1 .. Len(freeList) /\ j + 1 \in 1 .. Len(freeList) /\ j # j + 1
      BY <1>2
    <3>a. freeList[j].addr + freeList[j].size < freeList[j + 1].addr
      BY <1>4
    <3>2. CASE j = i
      <4>1. freeList'[j] = left /\ freeList'[j + 1] = freeList[j + 1]
        BY <2>2, <3>1, <3>2
      <4> QED BY <2>1, <3>a, <3>2, <4>1
    <3>3. CASE j + 1 = i
      <4>1. freeList'[j] = freeList[j] /\ freeList'[j + 1] = left
        BY <2>2, <3>1, <3>3
      <4> QED BY <1>3, <2>1, <3>a, <3>1, <3>3, <4>1
    <3>4. CASE j # i /\ j + 1 # i
      BY <1>4, <2>2, <3>1, <3>4
    <3> QED BY <3>2, <3>3, <3>4
  <2> QED BY <2>2, <2>3 DEF Sorted
<1>7. CASE ~(rest > 0)
  <2>1. /\ Len(freeList') = Len(freeList) - 1
        /\ \A j \in 1 .. i - 1 : freeList'[j] = freeList[j]
        /\ \A j \in i .. Len(freeList) - 1 : freeList'[j] = freeList[j + 1]
    BY <1>2, <1>5, <1>7, RemoveAtProperties
  <2>2. ASSUME NEW j \in 1 .. Len(freeList') - 1
        PROVE  freeList'[j].addr + freeList'[j].size < freeList'[j + 1].addr
    <3>1. /\ j \in 1 .. Len(freeList) - 1 /\ j + 1 \in 1 .. Len(freeList) - 1
          /\ j \in 1 .. Len(freeList) /\ j + 1 \in 1 .. Len(freeList)
          /\ (j + 1) + 1 \in 1 .. Len(freeList)
      BY <1>2, <2>1
    <3> DEFINE m == j + 1
    <3>a. /\ freeList[j].addr + freeList[j].size < freeList[m].addr
          /\ freeList[m].addr + freeList[m].size < freeList[m + 1].addr
      BY <1>4, <3>1
    <3>2. CASE j + 1 < i
      <4>1. freeList'[j] = freeList[j] /\ freeList'[j + 1] = freeList[j + 1]
        BY <1>2, <2>1, <3>2
      <4> QED BY <1>4, <3>1, <4>1
    <3>3. CASE m = i
      <4>1. m \in i .. Len(freeList) - 1 /\ j \in 1 .. i - 1
        BY <1>2, <3>1, <3>3
      <4> HIDE DEF m
      <4>2. freeList'[j] = freeList[j] /\ freeList'[m] = freeList[m + 1]
        BY <2>1, <4>1
      <4>3. /\ freeList[j].addr \in Nat /\ freeList[j].size \in Nat
            /\ freeList[m].addr \in Nat /\ freeList[m].size \in Nat
            /\ freeList[m + 1].addr \in Nat
        BY <1>3, <3>1 DEF m
      <4> DEFINE upto  == freeList[j].addr + freeList[j].size
                 from  == freeList[m].addr
                 size  == freeList[m].size
                 above == freeList[m + 1].addr
      <4>4. upto \in Nat /\ from \in Nat /\ size \in Nat /\ above \in Nat
        BY <4>3
      <4>5. upto < from /\ from + size < above
        BY <3>a DEF m
      <4> HIDE DEF upto, from, size, above
      <4>6. upto < above
        BY <4>4, <4>5
      <4>7. freeList'[j].addr + freeList'[j].size < freeList'[m].addr
        BY <4>2, <4>6 DEF upto, above
      <4> QED BY <4>7 DEF m
    <3>4. CASE m > i
      <4>1. m \in i .. Len(freeList) - 1 /\ j \in i .. Len(freeList) - 1
        BY <1>2, <3>1, <3>4
      <4>2. freeList'[j] = freeList[m]
        BY <2>1, <4>1
      <4> HIDE DEF m
      <4>3. freeList'[m] = freeList[m + 1]
        BY <2>1, <4>1
      <4>4. freeList'[j].addr + freeList'[j].size < freeList'[m].addr
        BY <3>a, <4>2, <4>3
      <4> QED BY <4>4 DEF m
    <3> QED BY <1>2, <3>1, <3>2, <3>3, <3>4
  <2> QED BY <2>2 DEF Sorted
<1> QED BY <1>6, <1>7

\* The sorted insertion, and the two merges after it, leave nothing to merge.
LEMMA FreeSorts ==
  ASSUME Intact, Sorted(freeList), NEW b \in live, Free(b), Recorded(b)
  PROVE  Sorted(freeList')
<1> DEFINE n == FreeNode(b)
<1>1. /\ freeList \in Seq(NodeSet) /\ Len(freeList) \in Nat
      /\ DOMAIN freeList = 1 .. Len(freeList) /\ GoodList(freeList)
  BY LenProperties DEF Intact, GoodList
<1>2. /\ Good(n) /\ n.size >= 16 /\ Data(b) = n.addr + 8
      /\ Clear(freeList, n.addr, n.addr + n.size) /\ n \in NodeSet
      /\ n.addr \in Nat
  BY FreeNodeGood DEF NodeSet
<1>a. \A j \in 1 .. Len(freeList) : freeList[j].addr \in Nat
  <2>1. \A j \in 1 .. Len(freeList) : Good(freeList[j])
    BY <1>1 DEF GoodList
  <2> QED BY <2>1 DEF Good, NodeSet
<1>3. CASE \E i \in DOMAIN freeList : FreeInsert(b, i)
  <2>1. PICK i \in 1 .. Len(freeList) : FreeInsert(b, i)
    BY <1>1, <1>3
  <2>2. /\ i \in Above(b) /\ \A j \in Above(b) : i <= j
        /\ freeList' = Coalescence(InsertAt(freeList, i, n), i)
    BY <2>1 DEF FreeInsert
  <2> HIDE DEF n
  <2>3. n.addr + 8 < freeList[i].addr
    BY <1>2, <2>2 DEF Above
  <2>4. ASSUME NEW j \in 1 .. i - 1 PROVE freeList[j].addr <= n.addr + 8
    <3>1. j \in 1 .. Len(freeList) /\ j \in DOMAIN freeList /\ ~(i <= j)
      BY <1>1
    <3>2. ~(n.addr + 8 < freeList[j].addr)
      BY <1>2, <2>2, <3>1 DEF Above
    <3> QED BY <1>2, <1>a, <3>1, <3>2
  <2> DEFINE new == InsertAt(freeList, i, n)
  <2>5. i \in 1 .. Len(freeList) + 1 /\ i \in Nat \ {0}
    BY <1>1
  <2>6. /\ \A j \in 1 .. Len(new) - 1 : Meets(new, j)
        /\ \A j \in 1 .. Len(new) - 1 : j # i /\ j # i - 1 => Gap(new, j)
    BY <1>1, <1>2, <2>3, <2>4, <2>5, InsertionMeets
  <2>7. GoodList(new)
    BY <1>1, <1>2, <2>5, InsertGood
  <2> HIDE DEF new
  <2>8. Sorted(Coalescence(new, i))
    BY <2>5, <2>6, <2>7, CoalescenceSorts
  <2> QED BY <2>2, <2>8 DEF new
<1>4. CASE FreeAtEnd(b)
  <2> DEFINE k    == Len(freeList)
             new  == Append(freeList, n)
             none == -1
  <2>1. CASE ~(k > 0 /\ Contiguous(freeList[k], n))
    BY <1>4, <2>1 DEF FreeAtEnd
  <2>2. CASE k > 0 /\ Contiguous(freeList[k], n)
    <3>1. freeList' = MergeAt(new, k)
      BY <1>4, <2>2 DEF FreeAtEnd
    <3> HIDE DEF n
    <3>2. /\ Len(new) = k + 1 /\ new[k + 1] = n
          /\ \A j \in 1 .. k : new[j] = freeList[j]
      BY <1>1, <1>2, AppendProperties
    <3>3. GoodList(new)
      BY <1>1, <1>2, AppendGood
    <3> HIDE DEF new
    <3>4. \A j \in 1 .. Len(new) : new[j].addr \in Nat /\ new[j].size \in Nat
      <4>1. \A j \in 1 .. Len(new) : Good(new[j])
        BY <3>3 DEF GoodList
      <4> QED BY <4>1 DEF Good, NodeSet
    <3>5. ASSUME NEW j \in 1 .. Len(new) - 1
          PROVE  Meets(new, j) /\ (j # k /\ j # none => Gap(new, j))
      <4>1. CASE j = k
        <5>1. new[j].addr + new[j].size = new[j + 1].addr
          BY <1>1, <2>2, <3>2, <4>1 DEF Contiguous
        <5>2. j \in 1 .. Len(new) /\ j + 1 \in 1 .. Len(new)
          BY <1>1, <3>2
        <5> QED BY <3>4, <4>1, <5>1, <5>2 DEF Meets
      <4>2. CASE j # k
        <5>0. /\ j \in 1 .. k - 1 /\ j \in 1 .. k /\ j + 1 \in 1 .. k
              /\ j \in 1 .. Len(new) /\ j + 1 \in 1 .. Len(new)
          <6>1. k \in Nat /\ j \in 1 .. k /\ Len(new) = k + 1
            BY <1>1, <3>2
          <6> HIDE DEF k
          <6> QED BY <4>2, <6>1
        <5>1. /\ j \in 1 .. k - 1 /\ new[j] = freeList[j] /\ new[j + 1] = freeList[j + 1]
              /\ j \in 1 .. Len(new) /\ j + 1 \in 1 .. Len(new)
          BY <3>2, <5>0
        <5>2. freeList[j].addr + freeList[j].size < freeList[j + 1].addr
          BY <5>1 DEF Sorted
        <5> QED BY <3>4, <5>1, <5>2 DEF Meets, Gap
      <4> QED BY <4>1, <4>2
    <3>6. k \in Int /\ none \in Int /\ none < k /\ none < 1
      BY <1>1
    <3> HIDE DEF k, none
    <3>7. \A j \in 1 .. Len(MergeAt(new, k)) - 1 : j # none => Gap(MergeAt(new, k), j)
      BY <3>3, <3>5, <3>6, MergeSorts
    <3> QED BY <3>1, <3>6, <3>7 DEF Sorted, Gap
  <2> QED BY <2>1, <2>2
<1> QED BY <1>3, <1>4 DEF Free

\* The intact free list is sorted by address and two nodes that touch are one: what
\* Free's insertion and Coalescence are for.
THEOREM Sortedness == Spec => []SortedAndCoalesced
<1>1. Init => SortedAndCoalesced
  <2> SUFFICES ASSUME Init PROVE SortedAndCoalesced
    OBVIOUS
  <2>1. Len(freeList) = 1
    BY DEF Init, WholeHeap
  <2> QED BY <2>1 DEF SortedAndCoalesced, Sorted
<1>2. IInv /\ SortedAndCoalesced /\ [Next]_vars => SortedAndCoalesced'
  <2> SUFFICES ASSUME IInv, SortedAndCoalesced, [Next]_vars, ~corrupt'
               PROVE  Sorted(freeList')
    BY DEF SortedAndCoalesced, Sorted
  <2>1. CASE \E r \in Requests : Allocate(r)
    <3>1. PICK r \in Requests : Allocate(r)
      BY <2>1
    <3>2. Intact /\ Sorted(freeList)
      BY <3>1 DEF Allocate, Running, IInv, SortedAndCoalesced
    <3> QED BY <3>1, <3>2, AllocateSorts
  <2>2. CASE \E r \in Requests : AllocateFails(r)
    BY <2>2 DEF AllocateFails, SortedAndCoalesced, Sorted
  <2>3. CASE \E b \in live : Free(b)
    <3>1. PICK b \in live : Free(b)
      BY <2>3
    <3>2. Intact /\ Sorted(freeList) /\ Recorded(b)
      BY <3>1 DEF Free, Running, IInv, SortedAndCoalesced, Recorded
    <3> QED BY <3>1, <3>2, FreeSorts
  <2>4. CASE UNCHANGED vars
    BY <2>4 DEF vars, SortedAndCoalesced, Sorted
  <2> QED BY <2>1, <2>2, <2>3, <2>4 DEF Next
<1> QED BY <1>1, <1>2, Invariance, PTL DEF Spec

\* A merge keeps every byte the list held.
LEMMA MergeCovers ==
  ASSUME NEW list, GoodList(list), NEW i \in Int, NEW a \in Int, NEW b \in Int,
         Covered(a, b, list)
  PROVE  Covered(a, b, MergeAt(list, i))
<1>0. /\ Len(list) \in Nat /\ DOMAIN list = 1 .. Len(list)
      /\ \A j \in 1 .. Len(list) : list[j].addr \in Nat /\ list[j].size \in Nat
  <2>1. list \in Seq(NodeSet) /\ \A j \in 1 .. Len(list) : Good(list[j])
    BY DEF GoodList
  <2> QED BY <2>1, LenProperties DEF Good, NodeSet
<1>1. CASE ~(i \in 1 .. Len(list) - 1 /\ Contiguous(list[i], list[i + 1]))
  BY <1>1 DEF MergeAt
<1>2. CASE i \in 1 .. Len(list) - 1 /\ Contiguous(list[i], list[i + 1])
  <2> DEFINE new == MergeAt(list, i)
  <2>1. /\ Len(new) = Len(list) - 1
        /\ \A j \in 1 .. i - 1 : new[j] = list[j]
        /\ new[i].addr = list[i].addr
        /\ new[i].addr + new[i].size = list[i + 1].addr + list[i + 1].size
        /\ \A j \in i + 1 .. Len(list) - 1 : new[j] = list[j + 1]
    BY <1>2, MergedNodes
  <2>2. DOMAIN new = 1 .. Len(new)
    <3>1. GoodList(new)
      BY MergeGood
    <3> QED BY <3>1, LenProperties DEF GoodList
  <2> HIDE DEF new
  <2>3. PICK j \in 1 .. Len(list) : list[j].addr <= a /\ b <= list[j].addr + list[j].size
    BY <1>0 DEF Covered
  <2>4. CASE j < i
    <3>1. j \in 1 .. i - 1 /\ j \in 1 .. Len(new)
      BY <1>0, <1>2, <2>1, <2>4
    <3> QED BY <2>1, <2>2, <2>3, <3>1 DEF Covered, new
  <2>5. CASE j = i
    <3>1. list[i].addr + list[i].size = list[i + 1].addr
      BY <1>2 DEF Contiguous
    <3>2. i \in 1 .. Len(list) /\ i + 1 \in 1 .. Len(list) /\ i \in 1 .. Len(new)
      BY <1>0, <1>2, <2>1
    <3>3. new[i].addr <= a /\ b <= new[i].addr + new[i].size
      BY <1>0, <2>1, <2>3, <2>5, <3>1, <3>2
    <3> QED BY <2>2, <3>2, <3>3 DEF Covered, new
  <2>6. CASE j = i + 1
    <3>1. list[i].addr + list[i].size = list[j].addr
      BY <1>2, <2>6 DEF Contiguous
    <3>2. i \in 1 .. Len(list) /\ i \in 1 .. Len(new)
      BY <1>0, <1>2, <2>1
    <3>3. new[i].addr <= a /\ b <= new[i].addr + new[i].size
      BY <1>0, <2>1, <2>3, <2>6, <3>1, <3>2
    <3> QED BY <2>2, <3>2, <3>3 DEF Covered, new
  <2>7. CASE j > i + 1
    <3> DEFINE m == j - 1
    <3>1. /\ m \in i + 1 .. Len(list) - 1 /\ m \in 1 .. Len(new) /\ m + 1 = j
      BY <1>0, <1>2, <2>1, <2>7
    <3> HIDE DEF m
    <3>2. new[m] = list[j]
      BY <2>1, <3>1
    <3> QED BY <2>2, <2>3, <3>1, <3>2 DEF Covered, new
  <2> QED BY <1>2, <2>4, <2>5, <2>6, <2>7
<1> QED BY <1>1, <1>2

\* When a node lies above the block, Free puts the block's bytes on the list.
LEMMA FreeCovers ==
  ASSUME Intact, NEW b \in live, Free(b), Recorded(b), Above(b) # {}
  PROVE  Covered(b.start, b.end, freeList')
<1> DEFINE n == FreeNode(b)
<1>1. PICK i \in DOMAIN freeList :
        freeList' = Coalescence(InsertAt(freeList, i, n), i)
  BY DEF Free, FreeInsert, FreeAtEnd
<1>2. /\ Good(n) /\ n.addr = b.start /\ n.addr + n.size = b.end
      /\ Clear(freeList, n.addr, n.addr + n.size)
  BY FreeNodeGood
<1>3. n \in NodeSet /\ b.start \in Int /\ b.end \in Int
  BY FreeNodeGood, BlockBounds DEF Intact
<1> HIDE DEF n
<1>4. /\ freeList \in Seq(NodeSet) /\ GoodList(freeList)
      /\ i \in 1 .. Len(freeList) + 1 /\ i \in Int
  BY LenProperties DEF Intact, GoodList
<1> DEFINE new  == InsertAt(freeList, i, n)
           half == MergeAt(new, i)
           k    == i - 1
<1>5. GoodList(new) /\ Len(new) = Len(freeList) + 1 /\ new[i] = n
  BY <1>2, <1>3, <1>4, InsertGood, InsertAtProperties
<1> HIDE DEF new
<1>6. Covered(b.start, b.end, new)
  <2>1. i \in DOMAIN new
    BY <1>4, <1>5, LenProperties DEF GoodList
  <2> QED BY <1>2, <1>3, <1>5, <2>1 DEF Covered, Good, NodeSet
<1>7. GoodList(half) /\ Covered(b.start, b.end, half)
  BY <1>3, <1>4, <1>5, <1>6, MergeGood, MergeCovers
<1> HIDE DEF half
<1>8. k \in Int
  BY <1>4
<1> HIDE DEF k
<1>9. Covered(b.start, b.end, MergeAt(half, k))
  BY <1>3, <1>7, <1>8, MergeCovers
<1> QED BY <1>1, <1>9 DEF Coalescence, half, new, k

\* No byte of a freed block whose header records it is lost when a free node lies
\* above it; without one, Free's loop ends without inserting.
THEOREM NothingElseIsLost == Spec => LossOnlyAboveLastNode
<1>1. IInv /\ [Next]_vars
        => [\A b \in live \ live' :
              Recorded(b) /\ Above(b) # {} => Covered(b.start, b.end, freeList')]_vars
  <2> SUFFICES ASSUME IInv, Next, NEW b \in live \ live', Recorded(b), Above(b) # {}
               PROVE  Covered(b.start, b.end, freeList')
    OBVIOUS
  <2>1. PICK c \in live : Free(c)
    BY DEF Next, Allocate, AllocateFails
  <2>2. b = c /\ Intact
    BY <2>1 DEF Free, Running, IInv
  <2> QED BY <2>1, <2>2, FreeCovers
<1> QED BY <1>1, Invariance, PTL DEF Spec, LossOnlyAboveLastNode

-----------------------------------------------------------------------------
\* Every byte of the heap has an address below the last one of the address space.
LEMMA MemoryBounded ==
  /\ USize \in Nat
  /\ Memory \subseteq 0 .. USize - 2
<1>1. /\ Base \in Nat /\ HeapSize \in Nat /\ USize \in Nat /\ Base + HeapSize < USize
  BY HeapAssumption
<1> QED BY <1>1 DEF Memory

\* A set of bytes of the heap is finite and smaller than the address space.
LEMMA BytesCount ==
  ASSUME NEW S \in SUBSET Memory
  PROVE  IsFiniteSet(S) /\ Cardinality(S) \in Nat /\ Cardinality(S) < USize
<1> DEFINE all == 0 .. USize - 2
<1>1. USize \in Nat /\ USize > 0 /\ S \in SUBSET all
  BY MemoryBounded, HeapAssumption
<1>2. IsFiniteSet(all) /\ Cardinality(all) = IF 0 > USize - 2 THEN 0 ELSE USize - 2 - 0 + 1
  BY <1>1, FS_Interval
<1> HIDE DEF all
<1>3. IsFiniteSet(S) /\ Cardinality(S) <= Cardinality(all)
  BY <1>1, <1>2, FS_Subset
<1> QED BY <1>1, <1>2, <1>3, FS_CardinalityType

\* A good block adds its length to bytes that are not its own.
LEMMA BlockCounts ==
  ASSUME NEW b, GoodBlock(b), NEW S \in SUBSET Memory, NEW T,
         T = S \cup (b.start .. b.end - 1), S \cap (b.start .. b.end - 1) = {}
  PROVE  /\ T \in SUBSET Memory
         /\ Cardinality(T) = Cardinality(S) + (b.end - b.start)
<1> DEFINE own == b.start .. b.end - 1
<1>1. /\ b.start \in Nat /\ b.end \in Nat /\ b.start < b.end /\ own \subseteq Memory
  BY BlockBounds DEF GoodBlock
<1>2. b.end - 1 \in Int /\ b.start \in Int /\ ~(b.start > b.end - 1)
  BY <1>1
<1>3. IsFiniteSet(own) /\ Cardinality(own) = b.end - 1 - b.start + 1
  BY <1>2, FS_Interval
<1>4. Cardinality(own) = b.end - b.start
  BY <1>1, <1>3
<1>5. IsFiniteSet(S) /\ Cardinality(S) \in Nat
  BY BytesCount
<1>6. S \cap own = {} /\ T = S \cup own
  OBVIOUS
<1> HIDE DEF own
<1>7. Cardinality(S \cup own) = Cardinality(S) + Cardinality(own) - Cardinality(S \cap own)
  BY <1>3, <1>5, FS_Union
<1>8. Cardinality(S \cap own) = 0
  BY <1>6, FS_EmptySet
<1>9. Cardinality(own) \in Nat
  BY <1>3, FS_CardinalityType
<1>10. T \in SUBSET Memory
  BY <1>1, <1>6
<1>11. Cardinality(T) = Cardinality(S) + Cardinality(own)
  <2>1. Cardinality(T) = Cardinality(S \cup own)
    BY <1>6, Zenon
  <2> DEFINE both == Cardinality(S \cup own)
             s    == Cardinality(S)
             o    == Cardinality(own)
  <2>2. s \in Nat /\ o \in Nat /\ both = s + o - 0
    BY <1>5, <1>7, <1>8, <1>9, Zenon
  <2>3. Cardinality(T) = both
    BY <2>1
  <2> HIDE DEF both, s, o
  <2>4. Cardinality(T) = s + o
    BY <2>2, <2>3
  <2> QED BY <2>4 DEF s, o
<1> QED BY <1>4, <1>10, <1>11

\* Two blocks apart share no byte.
LEMMA ApartIntervals ==
  ASSUME NEW a \in Int, NEW b \in Int, NEW c \in Int, NEW d \in Int, Apart(a, b, c, d)
  PROVE  (a .. b - 1) \cap (c .. d - 1) = {}
BY DEF Apart

\* Until the list goes astray, m_used is what the blocks in use take: Allocate and
\* Free count the same bytes, and the count never wraps.
THEOREM UsedCounts == Spec => []UsedIsLive
<1>1. Init => UsedIsLive
  <2> SUFFICES ASSUME Init PROVE UsedIsLive
    OBVIOUS
  <2>1. Taken = {}
    BY DEF Init, Taken
  <2> QED BY <2>1, FS_EmptySet DEF Init, UsedIsLive
<1>2. Intact => Taken \in SUBSET Memory
  BY DEF Intact, GoodBlock, Taken
<1>3. IInv /\ UsedIsLive /\ [Next]_vars => UsedIsLive'
  <2> SUFFICES ASSUME IInv, UsedIsLive, [Next]_vars, ~corrupt' PROVE used' = Cardinality(Taken')
    BY DEF UsedIsLive
  <2>a. ASSUME ~corrupt
        PROVE  /\ Intact /\ TypeOK
               /\ Taken \in SUBSET Memory /\ used = Cardinality(Taken)
               /\ used \in Nat /\ used < USize /\ USize \in Nat
    BY <1>2, <2>a, BytesCount, HeapAssumption DEF UsedIsLive, IInv
  <2>1. CASE \E r \in Requests : Allocate(r)
    <3>1. PICK r \in Requests : Allocate(r)
      BY <2>1
    <3>0. /\ Intact /\ TypeOK
          /\ Taken \in SUBSET Memory /\ used = Cardinality(Taken)
          /\ used \in Nat /\ used < USize /\ USize \in Nat
      BY <2>a, <3>1 DEF Allocate, Running
    <3>2. PICK b : /\ live' = live \cup {b} /\ GoodBlock(b)
                   /\ used' = (used + (b.end - b.start)) % USize
                   /\ \A c \in live : Apart(b.start, b.end, c.start, c.end)
      BY <3>0, <3>1, AllocateIInv
    <3> DEFINE own == b.start .. b.end - 1
    <3>3. Taken' = Taken \cup own
      BY <3>2 DEF Taken
    <3>4. Taken \cap own = {}
      <4> SUFFICES ASSUME NEW c \in live PROVE (b.start .. b.end - 1) \cap (c.start .. c.end - 1) = {}
        BY DEF Taken
      <4>1. GoodBlock(c) /\ Apart(b.start, b.end, c.start, c.end)
        BY <3>0, <3>2 DEF Intact
      <4>2. b.start \in Int /\ b.end \in Int /\ c.start \in Int /\ c.end \in Int
        BY <3>2, <4>1, BlockBounds
      <4> QED BY <4>1, <4>2, ApartIntervals
    <3>5. Taken' \in SUBSET Memory /\ Cardinality(Taken') = used + (b.end - b.start)
      <4> DEFINE T == Taken'
      <4>1. T = Taken \cup own
        BY <3>3
      <4> HIDE DEF T
      <4>2. T \in SUBSET Memory /\ Cardinality(T) = Cardinality(Taken) + (b.end - b.start)
        BY <3>0, <3>2, <3>4, <4>1, BlockCounts
      <4> QED BY <3>0, <4>2 DEF T
    <3>6. Cardinality(Taken') \in Nat /\ Cardinality(Taken') < USize
      BY <3>5, BytesCount
    <3> QED BY <3>0, <3>2, <3>5, <3>6, ModSmall
  <2>2. CASE \E r \in Requests : AllocateFails(r)
    BY <2>2, <2>a DEF AllocateFails, Running, Taken
  <2>3. CASE \E b \in live : Free(b)
    <3>1. PICK b \in live : Free(b)
      BY <2>3
    <3>0. /\ Intact /\ TypeOK /\ Recorded(b)
          /\ Taken \in SUBSET Memory /\ used = Cardinality(Taken)
          /\ used \in Nat /\ used < USize /\ USize \in Nat
      BY <2>a, <3>1 DEF Free, Running, Recorded
    <3> DEFINE own == b.start .. b.end - 1
    <3>2. live' = live \ {b} /\ used' = (used - FreeNode(b).size) % USize
      BY <3>1 DEF Free
    <3>3. GoodBlock(b) /\ FreeNode(b).addr = b.start /\ FreeNode(b).addr + FreeNode(b).size = b.end
      BY <3>0, FreeNodeGood DEF Intact
    <3>4. b.start \in Nat /\ b.end \in Nat /\ FreeNode(b).size = b.end - b.start
      <4>1. FreeNode(b).size \in Nat /\ b.start \in Nat /\ b.end \in Nat
        BY <3>0, <3>3, FreeNodeGood, BlockBounds DEF NodeSet
      <4> QED BY <3>3, <4>1
    <3>5. Taken = Taken' \cup own
      BY <3>2 DEF Taken
    <3>6. Taken' \cap own = {}
      <4> SUFFICES ASSUME NEW c \in live, c # b
                   PROVE  (b.start .. b.end - 1) \cap (c.start .. c.end - 1) = {}
        BY <3>2 DEF Taken
      <4>1. GoodBlock(c) /\ Apart(b.start, b.end, c.start, c.end)
        BY <3>0 DEF Intact, BlocksApart
      <4>2. b.start \in Int /\ b.end \in Int /\ c.start \in Int /\ c.end \in Int
        BY <3>3, <4>1, BlockBounds
      <4> QED BY <4>1, <4>2, ApartIntervals
    <3>7. Taken' \in SUBSET Memory
      BY <3>0, <3>5
    <3>8. used = Cardinality(Taken') + (b.end - b.start)
      BY <3>0, <3>3, <3>5, <3>6, <3>7, BlockCounts
    <3>9. Cardinality(Taken') \in Nat /\ Cardinality(Taken') < USize
      BY <3>7, BytesCount
    <3>10. used - FreeNode(b).size = Cardinality(Taken')
      BY <3>0, <3>4, <3>8, <3>9
    <3> QED BY <3>0, <3>2, <3>9, <3>10, ModSmall
  <2>4. CASE UNCHANGED vars
    BY <2>4 DEF vars, UsedIsLive, Taken
  <2> QED BY <2>1, <2>2, <2>3, <2>4 DEF Next
<1> QED BY <1>1, <1>3, Invariance, PTL DEF Spec

-----------------------------------------------------------------------------
\* What goes wrong with padding, exactly: the node that Free makes of a padded block
\* ends twice the padding behind the block, and m_used goes down by the padding more
\* than Allocate added.
THEOREM PaddedBlocksComeBackLonger ==
  ASSUME NEW n, Good(n), NEW r \in Requests,
         Block(n, r).header - n.addr < U8, Required(n.addr, r) < U16
  PROVE  LET b    == Block(n, r)
             node == FreeNode(b)
         IN  /\ b.padding = b.header - b.start
             /\ node.addr + node.size = b.end + 2 * b.padding
             /\ node.size = (b.end - b.start) + b.padding
<1> DEFINE b   == Block(n, r)
           pad == CalculatePaddingWithHeader(n.addr, r.align) - HeaderSize
<1>1. /\ n.addr \in Nat /\ r.align \in Nat /\ r.align >= 8
      /\ Required(n.addr, r) \in Nat /\ U8 \in Nat \ {0} /\ U16 \in Nat \ {0}
  BY BlockOfNode, RequestAssumption, HeapAssumption DEF Good, NodeSet
<1>2. pad \in Nat
  <2> DEFINE p == CalculatePaddingWithHeader(n.addr, r.align)
  <2>1. p \in Nat /\ p >= 8
    BY <1>1, PaddingHoldsHeader
  <2> HIDE DEF p
  <2>2. p - HeaderSize \in Nat
    BY <2>1 DEF HeaderSize
  <2> QED BY <2>2 DEF p
<1>3. /\ b.header = n.addr + pad /\ b.blockSize = Required(n.addr, r) % U16
      /\ b.padding = pad % U8 /\ b.start = n.addr
      /\ b.end = n.addr + Required(n.addr, r)
  BY DEF Block
<1> HIDE DEF pad, b
<1>4. pad < U8
  BY <1>1, <1>2, <1>3 DEF b
<1>5. b.padding = pad /\ b.blockSize = Required(n.addr, r)
  BY <1>1, <1>2, <1>3, <1>4, ModSmall
<1> QED BY <1>1, <1>2, <1>3, <1>5 DEF FreeNode, Node, b

-----------------------------------------------------------------------------
\* Buffer and requests on a grid of 8 bytes, and short enough for blockSize.
OnGrid ==
  /\ Base % 8 = 0 /\ HeapSize % 8 = 0
  /\ \A r \in Requests : r.align = 8 /\ r.size % 8 = 0 /\ r.size + HeaderSize < U16

GridNode(n) == n.addr % 8 = 0 /\ n.size % 8 = 0

GridList(list) == \A i \in 1 .. Len(list) : GridNode(list[i])

\* What keeps the list from going astray on the grid.
GInv ==
  /\ ~corrupt
  /\ GridList(freeList)
  /\ \A b \in live : Recorded(b) /\ b.start % 8 = 0 /\ b.end % 8 = 0

\* On the grid nothing is padded, and header and block are where the node was.
LEMMA BlockOnGrid ==
  ASSUME OnGrid, NEW n, Good(n), GridNode(n), NEW r \in Requests
  PROVE  LET b == Block(n, r)
         IN  Recorded(b) /\ b.start = n.addr /\ b.end % 8 = 0
             /\ b.end = n.addr + Required(n.addr, r)
<1> DEFINE b == Block(n, r)
<1>1. /\ n.addr \in Nat /\ n.addr % 8 = 0 /\ r.size \in Nat /\ r.size % 8 = 0 /\ r.align = 8
      /\ r.size + 8 < U16 /\ U16 \in Nat \ {0} /\ U8 \in Nat \ {0}
  BY RequestAssumption, HeapAssumption DEF OnGrid, Good, GridNode, NodeSet, HeaderSize
<1>2. CalculatePadding(n.addr, 8) = 8
  BY <1>1 DEF CalculatePadding
<1>3. CalculatePaddingWithHeader(n.addr, r.align) = 8
  BY <1>1, <1>2 DEF CalculatePaddingWithHeader, HeaderSize
<1>4. Required(n.addr, r) = r.size + 8
  BY <1>1, <1>3 DEF Required
<1>5. (r.size + 8) % U16 = r.size + 8 /\ 0 % U8 = 0
  BY <1>1, ModSmall
<1>6. /\ b.header = n.addr + 0 /\ b.blockSize = r.size + 8 /\ b.padding = 0
      /\ b.start = n.addr /\ b.end = n.addr + (r.size + 8)
  <2>1. CalculatePaddingWithHeader(n.addr, r.align) - HeaderSize = 0
    BY <1>3 DEF HeaderSize
  <2> QED BY <1>4, <1>5, <2>1, Zenon DEF Block
<1> HIDE DEF b
<1>7. Recorded(b)
  BY <1>1, <1>6 DEF Recorded
<1>8. b.end % 8 = 0
  <2> DEFINE a == n.addr
             x == r.size
  <2>1. a \in Nat /\ a % 8 = 0 /\ x \in Nat /\ x % 8 = 0
    BY <1>1
  <2> HIDE DEF a, x
  <2>2. (a + (x + 8)) % 8 = 0
    BY <2>1
  <2> QED BY <1>6, <2>2 DEF a, x
<1> QED BY <1>4, <1>6, <1>7, <1>8 DEF b

\* A merge of nodes on the grid is on the grid.
LEMMA MergeOnGrid ==
  ASSUME NEW list, GoodList(list), GridList(list), NEW i \in Int
  PROVE  GridList(MergeAt(list, i))
<1>1. CASE ~(i \in 1 .. Len(list) - 1 /\ Contiguous(list[i], list[i + 1]))
  BY <1>1 DEF MergeAt
<1>2. CASE i \in 1 .. Len(list) - 1 /\ Contiguous(list[i], list[i + 1])
  <2> DEFINE new == MergeAt(list, i)
             k   == i + 1
  <2>0. /\ list \in Seq(NodeSet) /\ Len(list) \in Nat
        /\ i \in 1 .. Len(list) /\ k \in 1 .. Len(list)
    BY <1>2, LenProperties DEF GoodList
  <2>1. /\ Len(new) = Len(list) - 1
        /\ \A j \in 1 .. i - 1 : new[j] = list[j]
        /\ new[i].addr = list[i].addr
        /\ new[i].addr + new[i].size = list[k].addr + list[k].size
        /\ \A j \in i + 1 .. Len(list) - 1 : new[j] = list[j + 1]
    BY <1>2, MergedNodes
  <2>2. GoodList(new)
    BY MergeGood
  <2> HIDE DEF new, k
  <2>3. GridNode(new[i])
    <3>1. Good(list[i]) /\ Good(list[k]) /\ Good(new[i])
      BY <1>2, <2>0, <2>1, <2>2 DEF GoodList
    <3>2. GridNode(list[i]) /\ GridNode(list[k])
      BY <2>0 DEF GridList
    <3> DEFINE left  == list[i].addr
               right == list[k].addr
               last  == list[k].size
               size  == new[i].size
    <3>3. /\ left \in Nat /\ right \in Nat /\ last \in Nat /\ size \in Nat
          /\ left % 8 = 0 /\ right % 8 = 0 /\ last % 8 = 0
          /\ left + size = right + last
      BY <2>1, <3>1, <3>2 DEF Good, NodeSet, GridNode
    <3>4. new[i].addr = left
      BY <2>1
    <3> HIDE DEF left, right, last, size
    <3>5. size % 8 = 0
      BY <3>3
    <3> QED BY <3>3, <3>4, <3>5 DEF GridNode, size
  <2>4. ASSUME NEW j \in 1 .. Len(new) PROVE GridNode(new[j])
    <3>1. CASE j < i
      <4>1. j \in 1 .. i - 1 /\ j \in 1 .. Len(list)
        BY <2>0, <3>1
      <4> QED BY <2>1, <4>1 DEF GridList
    <3>2. CASE j > i
      <4>1. j \in i + 1 .. Len(list) - 1 /\ j + 1 \in 1 .. Len(list)
        BY <2>0, <2>1, <3>2
      <4> QED BY <2>1, <4>1 DEF GridList
    <3> QED BY <2>0, <2>3, <3>1, <3>2
  <2> QED BY <2>4 DEF GridList, new
<1> QED BY <1>1, <1>2

\* Allocate keeps to the grid, and never leaves less than a Node.
LEMMA AllocateOnGrid ==
  ASSUME OnGrid, Intact, GInv, NEW r \in Requests, Allocate(r)
  PROVE  GInv'
<1>1. PICK i \in DOMAIN freeList :
        /\ FindFirst(r, i)
        /\ LET node == freeList[i]
               b    == Block(node, r)
               rest == node.size - (b.end - b.start)
           IN  /\ freeList' = IF rest > 0 THEN [freeList EXCEPT ![i] = Node(b.end, rest)]
                                          ELSE RemoveAt(freeList, i)
               /\ live' = live \cup {b}
               /\ corrupt' = (rest > 0 /\ rest < NodeSize)
  BY DEF Allocate
<1>2. /\ freeList \in Seq(NodeSet) /\ Len(freeList) \in Nat
      /\ i \in 1 .. Len(freeList) /\ GoodList(freeList)
  BY LenProperties DEF Intact, GoodList
<1> DEFINE node == freeList[i]
           b    == Block(node, r)
           rest == node.size - (b.end - b.start)
           left == Node(b.end, rest)
<1>3. Good(node) /\ GridNode(node)
  BY <1>2 DEF GoodList, GInv, GridList
<1>4. node.size >= Required(node.addr, r)
  BY <1>1 DEF FindFirst, Fitting, Fits
<1>5. /\ Recorded(b) /\ b.start = node.addr /\ b.end % 8 = 0
      /\ b.end = node.addr + Required(node.addr, r)
      /\ Required(node.addr, r) \in Nat
  BY <1>3, BlockOnGrid, BlockOfNode
<1>6. /\ freeList' = IF rest > 0 THEN [freeList EXCEPT ![i] = left] ELSE RemoveAt(freeList, i)
      /\ live' = live \cup {b}
      /\ corrupt' = (rest > 0 /\ rest < NodeSize)
  BY <1>1
<1> HIDE DEF node, b
<1>7. /\ node.addr \in Nat /\ node.size \in Nat /\ node.addr % 8 = 0 /\ node.size % 8 = 0
  BY <1>3 DEF Good, NodeSet, GridNode
<1>8. rest \in Nat /\ rest % 8 = 0 /\ b.end \in Nat /\ b.start % 8 = 0
  BY <1>4, <1>5, <1>7
<1>9. left \in NodeSet /\ GridNode(left)
  BY <1>5, <1>8 DEF Node, NodeSet, GridNode
<1> HIDE DEF rest, left
<1>10. ~corrupt'
  <2>1. ~(rest > 0 /\ rest < NodeSize)
    BY <1>8 DEF NodeSize
  <2> QED BY <1>6, <2>1, Zenon
<1>11. GridList(freeList')
  <2>1. CASE rest > 0
    <3>1. /\ Len([freeList EXCEPT ![i] = left]) = Len(freeList)
          /\ [freeList EXCEPT ![i] = left][i] = left
          /\ \A j \in 1 .. Len(freeList) : j # i => [freeList EXCEPT ![i] = left][j] = freeList[j]
      BY <1>2, <1>9, ExceptSeq
    <3>2. freeList' = [freeList EXCEPT ![i] = left]
      BY <1>6, <2>1
    <3> QED BY <1>9, <3>1, <3>2 DEF GInv, GridList
  <2>2. CASE ~(rest > 0)
    <3>1. /\ Len(RemoveAt(freeList, i)) = Len(freeList) - 1
          /\ \A j \in 1 .. i - 1 : RemoveAt(freeList, i)[j] = freeList[j]
          /\ \A j \in i .. Len(freeList) - 1 : RemoveAt(freeList, i)[j] = freeList[j + 1]
      BY <1>2, RemoveAtProperties
    <3>2. freeList' = RemoveAt(freeList, i)
      BY <1>6, <2>2
    <3>3. ASSUME NEW j \in 1 .. Len(freeList')
          PROVE  \E k \in 1 .. Len(freeList) : freeList'[j] = freeList[k]
      <4>1. CASE j < i
        <5>1. j \in 1 .. i - 1 /\ j \in 1 .. Len(freeList)
          BY <1>2, <4>1
        <5> QED BY <3>1, <3>2, <5>1
      <4>2. CASE j >= i
        <5>1. j \in i .. Len(freeList) - 1 /\ j + 1 \in 1 .. Len(freeList)
          BY <1>2, <3>1, <3>2, <4>2
        <5> QED BY <3>1, <3>2, <5>1
      <4> QED BY <1>2, <4>1, <4>2
    <3> QED BY <3>3 DEF GInv, GridList
  <2> QED BY <2>1, <2>2
<1>12. ASSUME NEW c \in live' PROVE Recorded(c) /\ c.start % 8 = 0 /\ c.end % 8 = 0
  BY <1>5, <1>6, <1>8 DEF GInv
<1> QED BY <1>10, <1>11, <1>12 DEF GInv, Recorded

\* So does Free.
LEMMA FreeOnGrid ==
  ASSUME Intact, GInv, NEW b \in live, Free(b)
  PROVE  GInv'
<1> DEFINE n == FreeNode(b)
<1>1. /\ freeList \in Seq(NodeSet) /\ Len(freeList) \in Nat
      /\ DOMAIN freeList = 1 .. Len(freeList) /\ GoodList(freeList)
  BY LenProperties DEF Intact, GoodList
<1>2. Recorded(b) /\ b.start % 8 = 0 /\ b.end % 8 = 0
  BY DEF GInv
<1>3. /\ Good(n) /\ n \in NodeSet /\ Clear(freeList, n.addr, n.addr + n.size)
      /\ n.addr = b.start /\ n.addr + n.size = b.end
  BY <1>2, FreeNodeGood
<1> HIDE DEF n
<1>4. GridNode(n)
  BY <1>2, <1>3 DEF NodeSet, GridNode
<1>5. GridList(freeList')
  <2>1. ASSUME NEW i \in DOMAIN freeList, FreeInsert(b, i) PROVE GridList(freeList')
    <3> DEFINE new  == InsertAt(freeList, i, n)
               half == MergeAt(new, i)
               k    == i - 1
    <3>0. i \in 1 .. Len(freeList) + 1 /\ i \in Int /\ k \in Int
      BY <1>1
    <3>1. GoodList(new)
      BY <1>1, <1>3, <3>0, InsertGood
    <3>2. /\ Len(new) = Len(freeList) + 1 /\ new[i] = n
          /\ \A j \in 1 .. i - 1 : new[j] = freeList[j]
          /\ \A j \in i + 1 .. Len(freeList) + 1 : new[j] = freeList[j - 1]
      <4>1. freeList \in Seq(NodeSet) /\ n \in NodeSet /\ i \in 1 .. Len(freeList) + 1
        BY <1>1, <1>3, <3>0
      <4> QED BY <4>1, InsertAtProperties
    <3>3. freeList' = MergeAt(half, k)
      BY <2>1 DEF FreeInsert, Coalescence, n
    <3> HIDE DEF new, k
    <3>4. ASSUME NEW j \in 1 .. Len(new) PROVE GridNode(new[j])
      <4>1. CASE j < i
        <5>1. j \in 1 .. i - 1 /\ j \in 1 .. Len(freeList)
          BY <1>1, <3>0, <4>1
        <5> QED BY <3>2, <5>1 DEF GInv, GridList
      <4>2. CASE j > i
        <5>1. j \in i + 1 .. Len(freeList) + 1 /\ j - 1 \in 1 .. Len(freeList)
          BY <1>1, <3>0, <3>2, <4>2
        <5> QED BY <3>2, <5>1 DEF GInv, GridList
      <4> QED BY <1>4, <3>0, <3>2, <4>1, <4>2
    <3>5. GoodList(half) /\ GridList(half)
      BY <3>0, <3>1, <3>4, MergeGood, MergeOnGrid DEF GridList
    <3> HIDE DEF half
    <3> QED BY <3>0, <3>3, <3>5, MergeOnGrid
  <2>2. ASSUME FreeAtEnd(b) PROVE GridList(freeList')
    <3> DEFINE new == Append(freeList, n)
    <3>1. freeList' = MergeAt(new, Len(freeList)) \/ freeList' = freeList
      BY <2>2 DEF FreeAtEnd, n
    <3>2. GoodList(new)
      BY <1>1, <1>3, AppendGood
    <3>3. /\ Len(new) = Len(freeList) + 1 /\ new[Len(freeList) + 1] = n
          /\ \A j \in 1 .. Len(freeList) : new[j] = freeList[j]
      BY <1>1, <1>3, AppendProperties
    <3> HIDE DEF new
    <3>4. GridList(new)
      BY <1>1, <1>4, <3>3 DEF GInv, GridList
    <3>5. Len(freeList) \in Int
      BY <1>1
    <3>6. GridList(MergeAt(new, Len(freeList)))
      BY <3>2, <3>4, <3>5, MergeOnGrid
    <3> QED BY <3>1, <3>6 DEF GInv
  <2> QED BY <2>1, <2>2 DEF Free
<1>6. ~corrupt' /\ live' = live \ {b}
  BY <1>2 DEF Free
<1> QED BY <1>5, <1>6 DEF GInv, Recorded

\* On a grid of 8 bytes the list never goes astray: there NoOverlap, UsedIsLive,
\* SortedAndCoalesced and ImplementsHeap hold without their condition.
THEOREM GridKeepsListIntact ==
  ASSUME OnGrid
  PROVE  Spec => []~corrupt
<1>1. Init => GInv
  <2> SUFFICES ASSUME Init PROVE GInv
    OBVIOUS
  <2>1. Len(freeList) = 1 /\ freeList[1].addr = Base /\ freeList[1].size = HeapSize
    BY DEF Init, WholeHeap, Node
  <2>2. GridList(freeList)
    BY <2>1 DEF OnGrid, GridList, GridNode
  <2> QED BY <2>2 DEF GInv, Init
<1>2. IInv /\ GInv /\ [Next]_vars => GInv'
  <2> SUFFICES ASSUME IInv, GInv, [Next]_vars PROVE GInv'
    OBVIOUS
  <2>0. Intact
    BY DEF IInv, GInv
  <2>1. CASE \E r \in Requests : Allocate(r)
    BY <2>0, <2>1, AllocateOnGrid
  <2>2. CASE \E r \in Requests : AllocateFails(r)
    BY <2>2 DEF AllocateFails, GInv, GridList, Recorded
  <2>3. CASE \E b \in live : Free(b)
    BY <2>0, <2>3, FreeOnGrid
  <2>4. CASE UNCHANGED vars
    BY <2>4 DEF vars, GInv, GridList, Recorded
  <2> QED BY <2>1, <2>2, <2>3, <2>4 DEF Next
<1>3. GInv => ~corrupt
  BY DEF GInv
<1> QED BY <1>1, <1>2, <1>3, Invariance, PTL DEF Spec
=============================================================================

----------------------------- MODULE GeckoCompiler -----------------------------
(***************************************************************************)
(* The Gecko JIT (GeckoJIT/engine/compiler.cxx): one pass over a list of   *)
(* codes emits a function at the low end of the caller's memory and puts   *)
(* arrays and routines at its high end.  The compiler remembers what r14   *)
(* and r15 hold, to leave out loads, and keeps the open conditional blocks *)
(* on a stack, to fill in their branches when they are closed.             *)
(***************************************************************************)
EXTENDS GeckoCodes, SequencesExt

CONSTANTS
  Lists,       \* the code lists that may be compiled
  MemoryBegin, \* the caller's memory
  MemorySize,
  CopyInline,  \* the longest array that is written without memcpy: 32 * 4
  BranchReach, \* instructions a conditional branch reaches: 0x8000 / 4
  BranchSpan,  \* values of the displacement of the other branches: 0x4000000
  Memories     \* contents of the game's memory that compiled functions meet

\* Routines are hooked to instructions, which are words.
ASSUME CompilerAssumption ==
  /\ Lists \subseteq Seq(GeckoCode)
  /\ \A codes \in Lists : \A n \in DOMAIN codes :
       codes[n].op = "inject" => codes[n].address % 4 = 0
  /\ MemoryBegin \in Nat /\ MemorySize \in Nat /\ (MemoryBegin + MemorySize) % 4 = 0
  /\ CopyInline \in Nat /\ BranchReach \in Nat \ {0} /\ BranchSpan \in Nat \ {0}

VARIABLES
  list,  \* the list being compiled
  pos,   \* how many of its codes are done
  phase, \* "begin", "compiling", "done"; "rejected", "halted" or "wild"
  text,  \* the function so far: ExecuteEveryFrame
  known, \* the registers whose values are known, with them
  open,  \* openIfStatements: where the branches of open blocks are
  data,  \* the blocks at the high end, by address: ExecuteOnDemand
  tail,  \* the bytes the blocks take
  game,  \* the branches written into the game, by address, with the block copied for it
  dirty  \* whether the caller's memory held anything but zeroes

vars == <<list, pos, phase, text, known, open, data, tail, game, dirty>>

Code == list[pos + 1]
Down == MemoryBegin + MemorySize - tail  \* down_it

\* f with v at a, where there may have been nothing.
With(f, a, v) == [x \in DOMAIN f \cup {a} |-> IF x = a THEN v ELSE f[x]]

-----------------------------------------------------------------------------
(* Emitting.  e is the function so far with what is known at its end.      *)

Here == [text |-> text, known |-> known]
Emit(e, instructions) == [e EXCEPT !.text = @ \o instructions]

\* Where a branch leads: the displacement is cut to the bits of its field, which has
\* a sign.
BranchTo(from, to) ==
  LET half == BranchSpan \div 2
  IN  (from + ((to - from + half) % BranchSpan) - half) % Full

\* The bl that comes next in the function.
Bl(e, to) == [op |-> "bl", target |-> BranchTo(MemoryBegin + 4 * Len(e.text), to)]

IsKnown(e, r) == r \in DOMAIN e.known
Remember(e, r, v) == IF r \in {14, 15} THEN [e EXCEPT !.known = With(@, r, v)] ELSE e
Forget(e, r) == [e EXCEPT !.known = [q \in DOMAIN @ \ {r} |-> @[q]]]

\* Mutant: the field takes more than its 16 bits.
ImmediateUncut(op, d, a, value) == [op |-> op, d |-> d, a |-> a, imm |-> value]

Immediate(op, d, a, value) == [op |-> op, d |-> d, a |-> a, imm |-> value % Half]
StoreTo(d, a, displacement, size, update) ==
  [op |-> "store", d |-> d, a |-> a, imm |-> displacement % Half, size |-> size,
   update |-> update]

\* li, or lis with ori when there is a low half.
Constant(r, value) ==
  IF value < (Half \div 2) - 1 THEN <<Immediate("addi", r, 0, value)>>
  ELSE <<Immediate("addis", r, 0, value \div Half)>>
       \o (IF value % Half # 0 THEN <<Immediate("ori", r, r, value)>> ELSE <<>>)

\* Nothing when the register holds the value already, an addi when it is near.
ImmediateLoad(e, r, value) ==
  LET delta == IF IsKnown(e, r) THEN SignedWord((value - e.known[r]) % Full) ELSE 0
  IN  CASE IsKnown(e, r) /\ delta = 0 -> e
        [] IsKnown(e, r) /\ delta # 0 /\ delta \in 2 - (Half \div 2) .. (Half \div 2) - 2 ->
             Emit(Remember(e, r, value), <<Immediate("addi", r, r, delta)>>)
        [] OTHER -> Emit(Remember(e, r, value), Constant(r, value))

\* The high half of the address, one more when the low half is negative.
MemoryLoad(e, r, address, size) ==
  LET near == IF address % Half >= Half \div 2 THEN address + Half ELSE address
      high == ImmediateLoad(e, r, (near - (near % Half)) % Full)
  IN  Forget(Emit(high, <<[op |-> "load", d |-> r, a |-> r, imm |-> near % Half,
                           size |-> size]>>), r)

\* CMPW leaves AltID as it was in the caller's memory.
Compare(e, r, value) ==
  IF value < Half \div 2 THEN Emit(e, <<[op |-> "cmpwi", a |-> r, imm |-> value]>>)
  ELSE Emit(ImmediateLoad(e, 15, value),
            <<[op |-> "cmpw", a |-> r, b |-> 15, altId |-> IF dirty THEN 1 ELSE 0]>>)

Mask(e, r, maskRegister, mask) ==
  IF mask < Half \div 2 THEN Emit(e, <<Immediate("andi", r, r, mask)>>)
  ELSE Forget(Emit(ImmediateLoad(e, maskRegister, mask),
                   <<[op |-> "and", d |-> r, a |-> r, b |-> maskRegister]>>), r)

\* The address is reached from the one in r14 when the displacement fits, which
\* leaves the new address in r14.
Store(e, address, value, size) ==
  LET loaded == ImmediateLoad(e, 15, value)
      delta  == IF IsKnown(loaded, 14) THEN SignedWord((address - loaded.known[14]) % Full)
                                       ELSE Full
  IN  IF delta \in -(Half \div 2) .. (Half \div 2) - 1
      THEN Emit(Remember(loaded, 14, address), <<StoreTo(15, 14, delta, size, TRUE)>>)
      ELSE Emit(ImmediateLoad(loaded, 14, address), <<StoreTo(15, 14, 0, size, FALSE)>>)

\* r3, r4 and r5, which are never known, and the call.
CallWith(e, dst, src, size, call) ==
  Emit(ImmediateLoad(ImmediateLoad(ImmediateLoad(e, 3, dst), 4, src), 5, size), <<call>>)

\* The words of an array, as long as there are whole ones.
ArrayWords(e, address, bytes) ==
  LET stored[n \in 0 .. Len(bytes) \div 4] ==
        IF n = 0 THEN e
        ELSE Store(stored[n - 1], (address + 4 * (n - 1)) % Full,
                   ValueAt(bytes, 4 * n - 3, 4), 4)
  IN  stored[Len(bytes) \div 4]

\* Words, then a halfword, as the code has it: twice the offset behind the start.
\* The test for a last byte is never true.
ArrayInline(e, address, bytes) ==
  LET words  == ArrayWords(e, address, bytes)
      offset == Len(bytes) - (Len(bytes) % 4)
  IN  IF Len(bytes) % 4 < 2 THEN words
      ELSE Store(words, (address + offset * 2) % Full, ValueAt(bytes, offset + 1, 2), 2)

SerialWrite(e, c) ==
  LET stored[n \in 0 .. c.count] ==
        IF n = 0 THEN e
        ELSE Store(stored[n - 1], (c.address + (n - 1) * c.step) % Full,
                   (c.value + (n - 1) * c.increment) % Full, Width(c.bits))
  IN  stored[c.count]

\* stwu r1, mflr r0, and three stores; the loads, mtlr r0, addi r1, and blr.
Prologue ==
  <<StoreTo(1, 1, -32, 4, TRUE), [op |-> "mflr", d |-> 0], StoreTo(0, 1, 8, 4, FALSE),
    StoreTo(14, 1, 12, 4, FALSE), StoreTo(15, 1, 16, 4, FALSE)>>
Epilogue ==
  LET reload(d, at) == [op |-> "load", d |-> d, a |-> 1, imm |-> at, size |-> 4]
  IN  <<reload(15, 16), reload(14, 12), reload(0, 8), [op |-> "mtlr", d |-> 0],
        Immediate("addi", 1, 1, 32), [op |-> "blr"]>>

-----------------------------------------------------------------------------
(* Memory.  FrameAllocator checks each end against the whole, never against *)
(* the other end, and only debug builds check at all.                       *)

FitsAlone(e, blocks) == 4 * Len(e.text) < MemorySize /\ blocks < MemorySize
Apart == 4 * Len(text) + tail <= MemorySize

\* Go on with e: the function, what is known, and the size of the blocks.
Proceed(e, blocks) ==
  /\ text' = e.text /\ known' = e.known /\ tail' = blocks
  /\ phase' \in IF FitsAlone(e, blocks) THEN {"compiling"} ELSE {"compiling", "halted"}

Compiling(ops) ==
  /\ phase = "compiling" /\ pos < Len(list) /\ Code.op \in ops
  /\ pos' = pos + 1

Init ==
  /\ list \in Lists /\ dirty \in BOOLEAN
  /\ pos = 0 /\ phase = "begin" /\ text = <<>> /\ known = <<>> /\ open = <<>>
  /\ data = <<>> /\ tail = 0 /\ game = <<>>

BeginCodeList ==
  /\ phase = "begin"
  /\ Proceed(Emit(Here, Prologue), 0)
  /\ UNCHANGED <<list, pos, open, data, game, dirty>>

\* 00 and 02: a call of memset or __memset2.
Handle0002 ==
  /\ Compiling({"fill"})
  /\ Proceed(CallWith(Here, Code.address, Code.value % Values(Code.size), Code.count,
                      [op |-> "memset", size |-> Code.size]), tail)
  /\ UNCHANGED <<list, open, data, game, dirty>>

Handle04 ==
  /\ Compiling({"write"})
  /\ Proceed(Store(Here, Code.address, Code.value, 4), tail)
  /\ UNCHANGED <<list, open, data, game, dirty>>

\* 06: an array that is long is copied behind the function's back and written with
\* memcpy.
Handle06 ==
  LET n == Len(Code.bytes)
  IN  /\ Compiling({"copy"})
      /\ IF n > CopyInline
         THEN /\ data' = With(data, Down - n, [size |-> n, bytes |-> Code.bytes])
              /\ Proceed(CallWith(Here, Code.address, Down - n, n, [op |-> "memcpy"]),
                         tail + n)
         ELSE /\ Proceed(ArrayInline(Here, Code.address, Code.bytes), tail)
              /\ UNCHANGED data
      /\ UNCHANGED <<list, open, game, dirty>>

Handle08 ==
  /\ Compiling({"serial"})
  /\ Proceed(SerialWrite(Here, Code), tail)
  /\ UNCHANGED <<list, open, data, game, dirty>>

\* 20 and 28: the load and the comparison, and room for a branch that is not known
\* yet.
Handle2028 ==
  LET word == MemoryLoad(Here, 14, Code.address, 4)
      half == Mask(MemoryLoad(Here, 14, Code.address, 2), 14, 15, Half - 1 - Code.mask)
      test == Compare(IF Code.op = "if" THEN word ELSE half, 14, Code.value)
  IN  /\ Compiling(Conditional)
      /\ Proceed(Emit(test, <<Garbage>>), tail)
      /\ open' = Append(open, Len(test.text) + 1)
      /\ UNCHANGED <<list, data, game, dirty>>

Routine(r) == [size |-> 8 * r.lines, address |-> r.address, value |-> r.value, back |-> 0]

\* Mutant: room for the words of the routine instead of its bytes.
HandleC0OfWords ==
  LET size   == 2 * Code.routine.lines
      at     == Down - size
      loaded == ImmediateLoad(Here, 15, at % Full)
  IN  /\ Compiling({"execute"})
      /\ data' = With(data, at, Routine(Code.routine))
      /\ Proceed(Emit(loaded, <<Bl(loaded, at)>>), tail + size)
      /\ UNCHANGED <<list, open, game, dirty>>

\* C0: the routine is called with its address in r15.
HandleC0 ==
  LET size   == 8 * Code.routine.lines
      at     == Down - size
      loaded == ImmediateLoad(Here, 15, at % Full)
  IN  /\ Compiling({"execute"})
      /\ data' = With(data, at, Routine(Code.routine))
      /\ Proceed(Emit(loaded, <<Bl(loaded, at)>>), tail + size)
      /\ UNCHANGED <<list, open, game, dirty>>

\* The target of a branch directBranchEx writes: the distance is cut to words too.
Clipped(from, to) == BranchTo(from, from + ((to - from) \div 4) * 4)

\* Mutant: the way back leads to the hooked instruction itself.
HandleC2ToItself ==
  LET size == 8 * Code.routine.lines
      at   == Down - size
      back == Clipped(at + size - 4, Code.address + (IF Code.link THEN 1 ELSE 0))
  IN  /\ Compiling({"inject"})
      /\ data' = With(data, at, [Routine(Code.routine) EXCEPT !.back = back])
      /\ game' = With(game, Code.address, [target |-> Clipped(Code.address, at), link |-> Code.link,
                                           inject |-> TRUE, routine |-> at])
      /\ Proceed(Here, tail + size)
      /\ UNCHANGED <<list, open, dirty>>

\* C2 and C4: the game's instruction becomes a branch to the routine, whose last
\* word becomes a branch to the instruction after.  For C4 the lowest bit of the
\* address says that the branch links.
HandleC2 ==
  LET size == 8 * Code.routine.lines
      at   == Down - size
      back == Clipped(at + size - 4, Code.address + (IF Code.link THEN 1 ELSE 0) + 4)
  IN  /\ Compiling({"inject"})
      /\ data' = With(data, at, [Routine(Code.routine) EXCEPT !.back = back])
      /\ game' = With(game, Code.address, [target |-> Clipped(Code.address, at), link |-> Code.link,
                                           inject |-> TRUE, routine |-> at])
      /\ Proceed(Here, tail + size)
      /\ UNCHANGED <<list, open, dirty>>

\* C6 and C8.
HandleC6 ==
  /\ Compiling({"branch"})
  /\ game' = With(game, Code.address, [target |-> Clipped(Code.address, Code.target),
                                       link |-> Code.link, inject |-> FALSE])
  /\ Proceed(Here, tail)
  /\ UNCHANGED <<list, open, data, dirty>>

\* A bne over `by` instructions, as far as its field holds it.
Bne(by) == [op |-> "bne", by |-> ((by + BranchReach) % (2 * BranchReach)) - BranchReach]

\* Mutant: what is known inside the block is taken to hold behind it.
HandleE0Remembering ==
  LET placed == Append(text, [op |-> "nop"])
      paired == Last(open)
  IN  /\ Compiling({"endif"}) /\ open # <<>>
      /\ Proceed([text |-> [placed EXCEPT ![paired] = Bne(Len(placed) - paired)],
                  known |-> known], tail)
      /\ open' = Front(open)
      /\ UNCHANGED <<list, data, game, dirty>>

\* Mutant: blocks are closed in the order they were opened.
HandleE0OfFirst ==
  LET placed == Append(text, [op |-> "nop"])
      paired == Head(open)
  IN  /\ Compiling({"endif"}) /\ open # <<>>
      /\ Proceed([text |-> [placed EXCEPT ![paired] = Bne(Len(placed) - paired)],
                  known |-> <<>>], tail)
      /\ open' = Front(open)
      /\ UNCHANGED <<list, data, game, dirty>>

\* E0 closes the innermost block: its branch leads to a nop put here, behind which
\* nothing is known of the registers.
HandleE0 ==
  LET placed == Append(text, [op |-> "nop"])
      paired == Last(open)
  IN  /\ Compiling({"endif"}) /\ open # <<>>
      /\ Proceed([text |-> [placed EXCEPT ![paired] = Bne(Len(placed) - paired)],
                  known |-> <<>>], tail)
      /\ open' = Front(open)
      /\ UNCHANGED <<list, data, game, dirty>>

\* An E0 without a block reads and pops an empty deque and writes a branch to
\* wherever that points.
Unmatched ==
  /\ Compiling({"endif"}) /\ open = <<>>
  /\ phase' = "wild"
  /\ UNCHANGED <<list, text, known, open, data, tail, game, dirty>>

\* A code that is not known: NULL is returned, but what was hooked stays.
Unknown ==
  /\ Compiling({"unknown"})
  /\ phase' = "rejected"
  /\ UNCHANGED <<list, text, known, open, data, tail, game, dirty>>

EndCodeList ==
  /\ phase = "compiling" /\ pos = Len(list)
  /\ text' = text \o Epilogue
  /\ phase' \in IF FitsAlone([text |-> text'], tail) THEN {"done"} ELSE {"done", "halted"}
  /\ UNCHANGED <<list, pos, known, open, data, tail, game, dirty>>

Next ==
  \/ BeginCodeList \/ Handle0002 \/ Handle04 \/ Handle06 \/ Handle08 \/ Handle2028
  \/ HandleC0 \/ HandleC2 \/ HandleC6 \/ HandleE0 \/ Unmatched \/ Unknown \/ EndCodeList

Spec == Init /\ [][Next]_vars

-----------------------------------------------------------------------------
\* Types.  The ends of the memory and the number of codes done agree with what is
\* stored, every instruction's operands fit its fields, and what is known of a register
\* fits it.
TypeOK ==
  /\ list \in Lists /\ dirty \in BOOLEAN /\ pos \in 0 .. Len(list)
  /\ phase \in {"begin", "compiling", "done", "rejected", "halted", "wild"}
  /\ DOMAIN known \subseteq {14, 15} /\ \A r \in DOMAIN known : known[r] \in Word
  /\ text \in Seq(Instruction \cup {Garbage})
  /\ \A i \in DOMAIN open : open[i] \in DOMAIN text
  /\ \A a \in DOMAIN data : data[a].size > 0 /\ a >= Down

\* The arrays that compileArrayCopy writes whole, and those that leave the blocks
\* after them word-aligned.
WholeArrays == \A n \in DOMAIN list :
  list[n].op = "copy" => Len(list[n].bytes) % 4 = 0 \/ Len(list[n].bytes) > CopyInline
AlignedArrays == \A n \in DOMAIN list :
  list[n].op = "copy" => Len(list[n].bytes) % 4 = 0 \/ Len(list[n].bytes) <= CopyInline

\* The caller's memory was zero where the compiler leaves a field of CMPW as it is.
Comparable == dirty => \A n \in DOMAIN list :
  list[n].op \in Conditional => list[n].value < Half \div 2

\* A function that was compiled does to every memory what the list says, returns,
\* and gives its caller its registers back: whatever loads were left out for values
\* the registers were known to hold, on whichever way through the blocks.
CompiledMeansList ==
  (/\ phase = "done" /\ Balanced(list) /\ Apart /\ Len(text) <= BranchReach
   /\ WholeArrays /\ AlignedArrays /\ Comparable) =>
  \A m \in Memories :
    Observed(Run(text, data, m), m) =
      [Observed(Machine(m), m) EXCEPT !.memory = Meaning(list, m)]

\* The branches yet to be filled in are those of the blocks that are open.
PlaceholdersAreOpen ==
  phase \in {"compiling", "done"} =>
    {i \in DOMAIN text : text[i] = Garbage} = Range(open)

\* What lies this far is reached by a branch.
InReach(from, to) == to - from \in -(BranchSpan \div 2) .. (BranchSpan \div 2) - 1

\* A hook leads to the first instruction of the routine that was copied for it, and
\* the routine back behind the hooked instruction, however many blocks came before:
\* each when it is in the reach of a branch, which is not checked, and when no array
\* of odd length has put the routine between two words.
HooksReturn ==
  \A a \in DOMAIN game : game[a].inject =>
    LET at   == game[a].routine
        last == at + data[at].size - 4
    IN  at % 4 = 0 =>
          /\ InReach(a, at) => game[a].target = at % Full
          /\ InReach(last, a + 4) => data[at].back = (a + 4) % Full

\* Blocks take disjoint memory at the high end.
BlocksApart ==
  \A a, b \in DOMAIN data : a < b => a + data[a].size <= b

\* compileArrayCopy: "Generates an array write".  Compiled functions write arrays of
\* every length as the list has them.
ArraysWritten ==
  (phase = "done" /\ \A n \in DOMAIN list : list[n].op = "copy") =>
    \A m \in Memories : Run(text, data, m).memory = Meaning(list, m) @@ Run(text, data, m).memory
=============================================================================

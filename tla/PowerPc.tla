-------------------------------- MODULE PowerPc --------------------------------
(***************************************************************************)
(* What the processor does with the instructions the Gecko compiler emits. *)
(* It is the external world of the JIT: the instruction set, memory by     *)
(* bytes, the most significant one first, and the routines that compiled   *)
(* code calls.  A byte has Byte values, so that small ones keep the signs, *)
(* carries and truncations of the real widths.                             *)
(***************************************************************************)
EXTENDS Integers, Sequences, TLC

CONSTANTS
  Byte,  \* values of a byte: 256
  Cells, \* the addresses of the game's memory that are observed
  Stack  \* where the stack pointer is when the compiled function is called

\* Displacements in a stack frame fit their fields.
ASSUME MachineAssumption ==
  /\ Byte \in Nat /\ Byte >= 16
  /\ Cells \subseteq Nat /\ Stack \in Nat /\ Stack > 32

Half == Byte * Byte  \* values of a halfword
Full == Half * Half  \* values of a word
Word == 0 .. Full - 1

\* A halfword or a word as the signed number it is to the processor.
SignedHalf(h) == IF h >= Half \div 2 THEN h - Half ELSE h
SignedWord(w) == IF w >= Full \div 2 THEN w - Full ELSE w

\* The bits that two numbers share, and all their bits.
Shared[b \in Nat] ==
  IF b = 0 THEN [a \in Nat |-> 0]
  ELSE [a \in Nat |-> (a % 2) * (b % 2) + 2 * Shared[b \div 2][a \div 2]]
And(a, b) == Shared[b][a]
Or(a, b) == a + b - And(a, b)

\* The lowest `size` bytes of a value, of which a word has four.
BytesOf(value, size) ==
  LET shifted == <<value \div (Byte * Half), value \div Half, value \div Byte, value>>
  IN  [i \in 1 .. size |-> shifted[4 - size + i] % Byte]

\* The value of the one, two or four bytes of f from position a on.
ValueAt(f, a, size) ==
  LET byte(n) == IF a + n \in DOMAIN f THEN f[a + n] ELSE 0
      half(n) == byte(n) * Byte + byte(n + 1)
  IN  CASE size = 1 -> byte(0) [] size = 2 -> half(0) [] size = 4 -> half(0) * Half + half(2)

Poke(memory, a, bytes) ==
  [c \in DOMAIN memory |->
     IF c \in a .. a + Len(bytes) - 1 THEN bytes[c - a + 1] ELSE memory[c]]

Repeated(value, size, count) ==
  [i \in 1 .. size * count |-> BytesOf(value, size)[((i - 1) % size) + 1]]

\* Registers r0, the stack pointer r1, r3 to r5, r14, r15, and the link register.
Lr == 32
Volatile == {0, 3, 4, 5, Lr}
Frame == (Stack - 32) .. Stack - 1

\* A word of memory that nobody wrote: whatever instruction it happens to be.
Garbage == [op |-> "garbage"]

\* The instructions, with the fields each has.  d is a destination, or the register
\* that is stored; a and b are sources.
Register == {0, 1, 3, 4, 5, 14, 15}
Field == 0 .. Half - 1
Instruction ==
  [op : {"addi", "addis", "ori", "andi"}, d : Register, a : Register, imm : Field]
  \cup [op : {"and"}, d : Register, a : Register, b : Register]
  \cup [op : {"load"}, d : Register, a : Register, imm : Field, size : {1, 2, 4}]
  \cup [op : {"store"}, d : Register, a : Register, imm : Field, size : {1, 2, 4},
        update : BOOLEAN]
  \cup [op : {"cmpwi"}, a : Register, imm : Field]
  \cup [op : {"cmpw"}, a : Register, b : Register, altId : {0, 1}]
  \cup [op : {"bne"}, by : Int]
  \cup [op : {"mflr", "mtlr"}, d : Register]
  \cup [op : {"bl"}, target : Int]
  \cup [op : {"memset"}, size : {1, 2}]
  \cup [op : {"memcpy", "nop", "blr"}]

Machine(memory) ==
  [memory |-> [c \in DOMAIN memory \cup Frame |-> IF c \in DOMAIN memory THEN memory[c] ELSE 0],
   reg |-> [r \in {0, 1, 3, 4, 5, 14, 15, Lr} |-> IF r = 1 THEN Stack ELSE Half + r],
   equal |-> FALSE, skip |-> 0, ok |-> TRUE]

Set(s, r, v) == [s EXCEPT !.reg[r] = v % Full]
Checked(s, fine) == [s EXCEPT !.ok = @ /\ fine]
Base(s, r) == IF r = 0 THEN 0 ELSE s.reg[r]
Address(s, i) == (Base(s, i.a) + SignedHalf(i.imm)) % Full

\* After a call the volatile registers may hold anything.
Returned(s) == [s EXCEPT !.reg = [r \in DOMAIN @ |-> IF r \in Volatile THEN Full - 1 ELSE @[r]]]

\* A call of memcpy or of a memset that fills with values of i.size bytes.
CallLibrary(s, i, data) ==
  LET dst == s.reg[3]  src == s.reg[4]  n == s.reg[5]
      to(bytes) == Returned([s EXCEPT !.memory = Poke(@, dst, bytes)])
  IN  CASE i.op = "memset" -> to(Repeated(src, i.size, n))
        [] i.op = "memcpy" /\ src \in DOMAIN data -> to(SubSeq(data[src].bytes, 1, n))
        [] OTHER -> [s EXCEPT !.ok = FALSE]

\* A call of a routine in `data`, which stores a word.  It relies on its alignment,
\* and on r15 for where it is.
CallRoutine(s, target, data) ==
  IF target % 4 = 0 /\ s.reg[15] = target
  THEN Returned([s EXCEPT !.memory =
         Poke(@, data[target].address, BytesOf(data[target].value, 4))])
  ELSE [s EXCEPT !.ok = FALSE]

\* One instruction.
Execute(s, i, data) ==
  IF s.skip > 0 THEN [s EXCEPT !.skip = @ - 1] ELSE
  CASE i.op = "addi"  -> Set(s, i.d, Address(s, i))
    [] i.op = "addis" -> Set(s, i.d, Base(s, i.a) + i.imm * Half)
    [] i.op = "ori"   -> Set(s, i.d, Or(s.reg[i.a], i.imm))
    [] i.op = "andi"  -> Set(s, i.d, And(s.reg[i.a], i.imm))
    [] i.op = "and"   -> Set(s, i.d, And(s.reg[i.a], s.reg[i.b]))
    [] i.op = "load"  -> Set(s, i.d, ValueAt(s.memory, Address(s, i), i.size))
    [] i.op = "store" ->
         LET stored == [s EXCEPT !.memory =
                          Poke(@, Address(s, i), BytesOf(s.reg[i.d], i.size))]
         IN  IF i.update THEN Set(stored, i.a, Address(s, i)) ELSE stored
    [] i.op = "cmpwi" -> [s EXCEPT !.equal = SignedWord(s.reg[i.a]) = SignedHalf(i.imm)]
    [] i.op = "cmpw"  -> [Checked(s, i.altId = 0) EXCEPT !.equal = s.reg[i.a] = s.reg[i.b]]
    [] i.op = "bne"   -> IF s.equal THEN s
                         ELSE [Checked(s, i.by > 0) EXCEPT !.skip = i.by - 1]
    [] i.op = "mflr"  -> Set(s, i.d, s.reg[Lr])
    [] i.op = "mtlr"  -> Set(s, Lr, s.reg[i.d])
    [] i.op = "bl"    -> CallRoutine(s, i.target, data)
    [] i.op \in {"memset", "memcpy"} -> CallLibrary(s, i, data)
    [] i.op = "nop"   -> s
    [] i.op = "blr"   -> Checked(s, s.reg[Lr] = Half + Lr)
    [] OTHER          -> [s EXCEPT !.ok = FALSE]

\* The machine after the whole function.
Run(text, data, memory) ==
  LET after[n \in 0 .. Len(text)] ==
        IF n = 0 THEN Machine(memory) ELSE Execute(after[n - 1], text[n], data)
  IN  after[Len(text)]

\* What the caller of a function sees: the function returned, what is in memory, and
\* the registers that belong to the caller.
Observed(s, memory) ==
  [returned |-> s.ok, memory |-> [c \in DOMAIN memory |-> s.memory[c]],
   reg |-> [r \in {1, 14, 15} |-> s.reg[r]]]
=============================================================================

------------------------------- MODULE GeckoCodes -------------------------------
(***************************************************************************)
(* What a list of Gecko codes asks for, one code after the other: the      *)
(* reference that the compiler is checked against.  A code is a record     *)
(* with its op and its operands; the words it is packed into are left out. *)
(***************************************************************************)
EXTENDS PowerPc

\* Codes that change the game's memory each time the list is run, codes that
\* patch the game once, and codes that open a conditional block.
Writing == {"fill", "write", "copy", "serial", "execute"}
Patching == {"inject", "branch"}
Conditional == {"if", "ifMasked"}

\* The codes there are, with the operands their words have room for.
RoutineCode == [lines : Nat \ {0}, address : Word, value : Word]
GeckoCode ==
  [op : {"fill"}, address : Word, value : Word, size : {1, 2}, count : Nat]
  \cup [op : {"write", "if"}, address : Word, value : Word]
  \cup [op : {"copy"}, address : Word, bytes : Seq(0 .. Byte - 1)]
  \cup [op : {"serial"}, address : Word, value : Word, bits : 0 .. 3, count : Nat,
        step : Nat, increment : Word]
  \cup [op : {"ifMasked"}, address : Word, mask : Field, value : Field]
  \cup [op : {"execute"}, routine : RoutineCode]
  \cup [op : {"inject"}, address : Word, link : BOOLEAN, routine : RoutineCode]
  \cup [op : {"branch"}, address : Word, link : BOOLEAN, target : Word]
  \cup [op : {"endif", "unknown"}]

\* The values that `size` bytes have.
Values(size) == IF size = 1 THEN Byte ELSE Half

\* The size of the values that 08 writes.  Nothing in the repository says what its
\* two bits mean; this is how compileStore takes them.
Width(bits) == IF bits \in {1, 2} THEN bits ELSE 4

\* 28 compares the bits that are not in its mask.
Holds(memory, c) ==
  IF c.op = "if" THEN ValueAt(memory, c.address, 4) = c.value
  ELSE And(ValueAt(memory, c.address, 2), Half - 1 - c.mask) = c.value

Written(memory, c) ==
  CASE c.op = "fill"    -> Poke(memory, c.address, Repeated(c.value % Values(c.size), c.size, c.count))
    [] c.op = "write"   -> Poke(memory, c.address, BytesOf(c.value, 4))
    [] c.op = "copy"    -> Poke(memory, c.address, c.bytes)
    [] c.op = "execute" -> Poke(memory, c.routine.address, BytesOf(c.routine.value, 4))
    [] c.op = "serial"  ->
         LET upTo[n \in 0 .. c.count] ==
               IF n = 0 THEN memory
               ELSE Poke(upTo[n - 1], c.address + (n - 1) * c.step,
                         BytesOf((c.value + (n - 1) * c.increment) % Full, Width(c.bits)))
         IN  upTo[c.count]

\* s.skipped counts the open blocks from the first one whose condition is false.
Interpret(s, c) ==
  CASE c.op = "endif" -> [s EXCEPT !.skipped = IF @ > 0 THEN @ - 1 ELSE 0]
    [] c.op \in Conditional ->
         IF s.skipped > 0 THEN [s EXCEPT !.skipped = @ + 1]
         ELSE IF Holds(s.memory, c) THEN s ELSE [s EXCEPT !.skipped = 1]
    [] c.op \in Writing /\ s.skipped = 0 -> [s EXCEPT !.memory = Written(@, c)]
    [] OTHER -> s

Meaning(list, memory) ==
  LET after[n \in 0 .. Len(list)] ==
        IF n = 0 THEN [memory |-> memory, skipped |-> 0]
        ELSE Interpret(after[n - 1], list[n])
  IN  after[Len(list)].memory

\* The number of blocks open after the first n codes; negative when more were
\* closed than opened.
Depth(list, n) ==
  LET upTo[i \in 0 .. n] ==
        IF i = 0 THEN 0
        ELSE upTo[i - 1] + (IF list[i].op \in Conditional THEN 1
                            ELSE IF list[i].op = "endif" THEN -1 ELSE 0)
  IN  upTo[n]

Balanced(list) == (\A n \in DOMAIN list : Depth(list, n) >= 0) /\ Depth(list, Len(list)) = 0
=============================================================================

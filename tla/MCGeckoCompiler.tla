---------------------------- MODULE MCGeckoCompiler ----------------------------
(***************************************************************************)
(* Code lists on bytes of 16 values: addresses whose low halves are        *)
(* positive and negative as displacements, near one another and far; values *)
(* on both sides of every bound on immediates; conditions of each kind that *)
(* hold in some memories.                                                  *)
(***************************************************************************)
EXTENDS GeckoCompiler

A == 32768 + 16   \* a positive low half
B == 32768 + 132  \* a negative one, reached from A by a displacement
C == 33788        \* out of reach of either
Far == 1024       \* where no branch from the caller's memory leads

MCCells == (A .. A + 19) \cup (B .. B + 11) \cup (C .. C + 7)
Zeroes == [c \in MCCells |-> 0]
MCMemories ==
  {Zeroes,
   Poke(Poke(Zeroes, A, BytesOf(5, 4)), B, BytesOf(40000, 4)),
   Poke(Poke(Zeroes, A, BytesOf(200, 4)), B, BytesOf(127, 4))}

Write(a, v) == [op |-> "write", address |-> a, value |-> v]
If(a, v) == [op |-> "if", address |-> a, value |-> v]
IfMasked(a, mask, v) == [op |-> "ifMasked", address |-> a, mask |-> mask, value |-> v]
Copy(a, n) == [op |-> "copy", address |-> a, bytes |-> [i \in 1 .. n |-> i % Byte]]
Serial(a, v, bits) ==
  [op |-> "serial", address |-> a, value |-> v, bits |-> bits, count |-> 3, step |-> 4,
   increment |-> 126]
Fill(a, v, size) == [op |-> "fill", address |-> a, value |-> v, size |-> size, count |-> 3]
Poker == [lines |-> 2, address |-> B + 4, value |-> 777]
Execute1 == [op |-> "execute", routine |-> Poker]
Inject(a, link) == [op |-> "inject", address |-> a, link |-> link, routine |-> Poker]
Hook == [op |-> "branch", address |-> C, link |-> TRUE, target |-> B]
EndIf == [op |-> "endif"]

Writes == {Write(A, 5), Write(A + 4, 127), Write(B, 40000), Write(C, A)}
Conditions == {If(A, 5), If(B, 40000), IfMasked(A + 2, 0, 200), IfMasked(B + 2, 128, 127)}
Others == {Serial(A, 65500, 0), Serial(B, 100, 2), Serial(A, 7, 1), Fill(A, 300, 1),
           Fill(B, 300, 2), Copy(A, 8), Copy(B, 12), Execute1}
Rest == {Inject(A, FALSE), Inject(C, TRUE), Inject(Far, FALSE), Hook, EndIf,
         [op |-> "unknown"], Copy(A, 10)}

Codes == Writes \cup Conditions \cup Others \cup Rest

Few == {Write(A, 5), Write(C, A), Serial(A, 65500, 0), Execute1, Copy(A, 10),
        Inject(A, FALSE), If(A, 5), EndIf}

\* Any two codes, any three of a few; a block with something before, in and after
\* it; blocks in blocks.
MCLists ==
  {<<x, y>> : x \in Codes, y \in Codes} \cup {<<x, y, z>> : x \in Few, y \in Few, z \in Few}
  \cup {<<x, c, y, EndIf, z>> :
          x \in Writes \cup Others, c \in Conditions, y \in Writes \cup {Execute1},
          z \in Writes}
  \cup {<<c, x, d, y, EndIf, z, EndIf, y>> :
          c \in Conditions, d \in Conditions, x \in Writes, y \in Writes,
          z \in {Write(A, 5), Write(C, A)}}

ArrayLists == {<<Copy(A, n)>> : n \in 0 .. 8}
=============================================================================

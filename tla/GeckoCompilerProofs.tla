-------------------------- MODULE GeckoCompilerProofs --------------------------
(***************************************************************************)
(* Where the compiler puts blocks and where its hooks lead, whatever the   *)
(* list.                                                                   *)
(***************************************************************************)
EXTENDS GeckoCompiler, ListLemmas

-----------------------------------------------------------------------------
(* Widths.                                                                 *)

\* Every width has values.
LEMMA WidthsPositive == Byte \in Nat \ {0} /\ Half \in Nat \ {0} /\ Full \in Nat \ {0}
<1>1. Byte \in Nat /\ Byte > 1
  BY MachineAssumption
<1>2. ASSUME NEW x \in Nat \ {0} PROVE x * x \in Nat \ {0}
  BY SMT
<1>3. Half \in Nat \ {0}
  BY <1>1, <1>2 DEF Half
<1> QED BY <1>1, <1>2, <1>3 DEF Full

\* What is cut to a field or a word fits it.
LEMMA CutFits ==
  ASSUME NEW v \in Int
  PROVE  v % Half \in Field /\ v % Full \in Word /\ v \div Half \in Int
<1>1. ASSUME NEW n \in Nat \ {0} PROVE v % n \in 0 .. n - 1 /\ v \div n \in Int
  BY SMT
<1> QED BY <1>1, WidthsPositive DEF Field, Word

\* A branch to what is in its reach leads there, and any branch leads to some word.
LEMMA BranchReaches ==
  ASSUME NEW from \in Int, NEW to \in Int
  PROVE  BranchTo(from, to) \in Word /\ (InReach(from, to) => BranchTo(from, to) = to % Full)
<1> DEFINE half == BranchSpan \div 2
           moved == (to - from + half) % BranchSpan
<1>1. BranchSpan \in Nat \ {0} /\ half \in Nat /\ 2 * half <= BranchSpan
  BY CompilerAssumption
<1>2. moved \in Int
  <2>1. ASSUME NEW n \in Nat \ {0}, NEW x \in Int PROVE x % n \in Int
    BY SMT
  <2>2. to - from + half \in Int
    BY <1>1
  <2> QED BY <1>1, <2>1, <2>2
<1>3. InReach(from, to) => moved = to - from + half
  <2>1. ASSUME NEW n \in Nat \ {0}, NEW x \in 0 .. n - 1 PROVE x % n = x
    BY SMT
  <2>2. InReach(from, to) => to - from + half \in 0 .. BranchSpan - 1
    BY <1>1 DEF InReach
  <2> QED BY <1>1, <2>1, <2>2
<1>4. BranchTo(from, to) = (from + moved - half) % Full
  BY DEF BranchTo
<1> HIDE DEF moved, half
<1>5. from + moved - half \in Int
  BY <1>1, <1>2
<1>6. InReach(from, to) => from + moved - half = to
  BY <1>1, <1>3
<1> QED BY <1>4, <1>5, <1>6, CutFits

\* A digit more is a factor more.
LEMMA DigitMore ==
  ASSUME NEW p \in Nat, NEW q \in Nat, NEW x \in Nat, x < p, NEW b \in Nat, b < q
  PROVE  x * q + b \in Nat /\ x * q + b < p * q
<1>1. x * q \in Nat /\ p * q \in Nat /\ (p - 1) * q \in Int
  BY SMT
<1>2. x * q <= (p - 1) * q
  <2>1. p - 1 - x \in Nat
    OBVIOUS
  <2>2. (p - 1 - x) * q \in Nat
    BY <2>1, SMT
  <2>3. (p - 1 - x) * q = (p - 1) * q - x * q
    BY SMT
  <2> QED BY <1>1, <2>2, <2>3
<1>3. (p - 1) * q = p * q - q
  BY SMT
<1> QED BY <1>1, <1>2, <1>3

\* One, two or four bytes have a byte's, a halfword's or a word's value.
LEMMA ValuesFit ==
  ASSUME NEW f, \A x \in DOMAIN f : f[x] \in 0 .. Byte - 1, NEW a \in Int
  PROVE  /\ ValueAt(f, a, 1) \in 0 .. Byte - 1
         /\ ValueAt(f, a, 2) \in Field /\ ValueAt(f, a, 4) \in Word
<1> DEFINE byte(n) == IF a + n \in DOMAIN f THEN f[a + n] ELSE 0
           half(n) == byte(n) * Byte + byte(n + 1)
<1>1. Byte \in Nat \ {0} /\ Half \in Nat \ {0}
  BY WidthsPositive
<1>2. ASSUME NEW n \in Int PROVE byte(n) \in Nat /\ byte(n) < Byte
  BY <1>1
<1>3. /\ ValueAt(f, a, 1) = byte(0) /\ ValueAt(f, a, 2) = half(0)
      /\ ValueAt(f, a, 4) = half(0) * Half + half(2)
  BY DEF ValueAt
<1> HIDE DEF byte
<1>4. ASSUME NEW n \in Int PROVE half(n) \in Nat /\ half(n) < Half
  BY <1>1, <1>2, DigitMore DEF Half
<1> HIDE DEF half
<1>5. half(0) * Half + half(2) \in Nat /\ half(0) * Half + half(2) < Full
  BY <1>1, <1>4, DigitMore DEF Full
<1>6. byte(0) \in 0 .. Byte - 1 /\ half(0) \in Field
  BY <1>1, <1>2, <1>4 DEF Field
<1> QED BY <1>3, <1>5, <1>6, WidthsPositive DEF Word

\* The bytes of an array.
LEMMA BytesValues ==
  ASSUME NEW bytes \in Seq(0 .. Byte - 1), NEW a \in Int
  PROVE  ValueAt(bytes, a, 2) \in Field /\ ValueAt(bytes, a, 4) \in Word
<1> DEFINE B == 0 .. Byte - 1
<1>1. bytes \in Seq(B)
  OBVIOUS
<1> HIDE DEF B
<1>2. bytes \in [1 .. Len(bytes) -> B]
  BY <1>1, LenProperties
<1>3. \A x \in DOMAIN bytes : bytes[x] \in B
  BY <1>2
<1> QED BY <1>3, ValuesFit DEF B

-----------------------------------------------------------------------------
(* What is emitted.                                                        *)

\* What may be known, the lines of a function, and what is emitted with what is known.
Knowledge == UNION {[D -> Word] : D \in SUBSET {14, 15}}
Line == Instruction \cup {Garbage}
Emission == [text : Seq(Line), known : Knowledge]

\* What instructions may make of e.
Extensions(e) ==
  {s \in Emission : \E more \in Seq(Instruction) : s.text = e.text \o more}

\* An instruction is no placeholder.
LEMMA Instructions ==
  /\ \A i \in Instruction : i # Garbage
  /\ \A is \in Seq(Instruction) : is \in Seq(Line)
  /\ \A i \in Instruction : <<i>> \in Seq(Instruction)
<1>1. \A i \in Instruction : i.op # "garbage"
  BY DEF Instruction
<1>2. \A i \in Instruction : i # Garbage
  BY <1>1 DEF Garbage
<1> QED BY <1>2 DEF Line

\* Emitting is associative.
LEMMA PartsAdd ==
  ASSUME NEW S, NEW x \in Seq(S), NEW y \in Seq(S), NEW z \in Seq(S), NEW xy, xy = x \o y
  PROVE  xy \o z = x \o (y \o z)
BY ConcatAssociative

\* Emitting nothing.
LEMMA ExtendsItself ==
  ASSUME NEW e \in Emission
  PROVE  e \in Extensions(e)
<1>1. e.text \in Seq(Line)
  BY DEF Emission
<1>2. e.text = e.text \o <<>> /\ <<>> \in Seq(Instruction)
  BY <1>1, ConcatEmptySeq
<1> QED BY <1>2 DEF Extensions

\* Some instructions more.
LEMMA ExtendsFurther ==
  ASSUME NEW e \in Emission, NEW s \in Extensions(e), NEW ins \in Seq(Instruction),
         NEW t \in Emission, t.text = s.text \o ins
  PROVE  t \in Extensions(e) /\ t \in Extensions(s)
<1>1. PICK more \in Seq(Instruction) : s.text = e.text \o more
  BY DEF Extensions
<1>2. s \in Emission /\ e.text \in Seq(Line)
      /\ s.text \in Seq(Line)
  BY DEF Extensions, Emission
<1>3. more \o ins \in Seq(Instruction)
  BY ConcatProperties
<1>4. t.text = e.text \o (more \o ins)
  <2>1. more \in Seq(Line) /\ ins \in Seq(Line)
    BY Instructions
  <2> DEFINE x == e.text
             xy == s.text
  <2>2. x \in Seq(Line) /\ xy = x \o more
    BY <1>1, <1>2
  <2>3. t.text = xy \o ins
    OBVIOUS
  <2> HIDE DEF x, xy
  <2>4. xy \o ins = x \o (more \o ins)
    BY <2>1, <2>2, PartsAdd
  <2> QED BY <2>3, <2>4 DEF x
<1> QED BY <1>3, <1>4 DEF Extensions

\* Whatever extends an extension extends what was there first.
LEMMA ExtensionsNest ==
  ASSUME NEW e \in Emission, NEW s \in Extensions(e), NEW t \in Extensions(s)
  PROVE  t \in Extensions(e)
<1>1. t \in Emission /\ s \in Emission
  BY DEF Extensions
<1>2. PICK ins \in Seq(Instruction) : t.text = s.text \o ins
  BY DEF Extensions
<1> QED BY <1>1, <1>2, ExtendsFurther

\* Emit.
LEMMA Emitting ==
  ASSUME NEW e \in Emission, NEW s \in Extensions(e), NEW ins \in Seq(Instruction)
  PROVE  Emit(s, ins) \in Extensions(e) /\ Emit(s, ins).known = s.known
<1> DEFINE t == Emit(s, ins)
<1>1. s \in Emission
  BY DEF Extensions
<1>2. s.text \in Seq(Line) /\ s.known \in Knowledge
  BY <1>1 DEF Emission
<1>3. s.text \o ins \in Seq(Line)
  BY <1>2, Instructions, ConcatProperties
<1>4. t.text = s.text \o ins /\ t.known = s.known /\ t \in Emission
  BY <1>1, <1>3 DEF Emit, Emission
<1> HIDE DEF t
<1> QED BY <1>4, ExtendsFurther DEF t

\* To remember or forget a register changes no instruction.
LEMMA OnlyKnowledge ==
  ASSUME NEW e \in Emission, NEW s \in Extensions(e), NEW k \in Knowledge
  PROVE  [s EXCEPT !.known = k] \in Extensions(e)
<1>1. s \in Emission
  BY DEF Extensions
<1>2. [s EXCEPT !.known = k] \in Emission /\ [s EXCEPT !.known = k].text = s.text
  BY <1>1 DEF Emission
<1> QED BY <1>2 DEF Extensions

\* What is known of a register is a word.
LEMMA KnowledgeOf ==
  ASSUME NEW e \in Emission
  PROVE  /\ DOMAIN e.known \subseteq {14, 15}
         /\ \A r \in DOMAIN e.known : e.known[r] \in Word
BY DEF Emission, Knowledge

\* Remember, of a word.
LEMMA Remembering ==
  ASSUME NEW e \in Emission, NEW s \in Extensions(e), NEW r, NEW v,
         r \in {14, 15} => v \in Word
  PROVE  Remember(s, r, v) \in Extensions(e)
<1>1. CASE r \in {14, 15}
  <2> DEFINE k == With(s.known, r, v)
  <2>1. s \in Emission
    BY DEF Extensions
  <2>2. /\ DOMAIN s.known \cup {r} \subseteq {14, 15}
        /\ \A x \in DOMAIN s.known : s.known[x] \in Word
    BY <1>1, <2>1, KnowledgeOf
  <2>3. k \in [DOMAIN s.known \cup {r} -> Word]
    BY <1>1, <2>2 DEF With
  <2>4. k \in Knowledge
    BY <2>2, <2>3 DEF Knowledge
  <2>5. Remember(s, r, v) = [s EXCEPT !.known = k]
    BY <1>1 DEF Remember
  <2> HIDE DEF k
  <2> QED BY <2>4, <2>5, OnlyKnowledge
<1>2. CASE r \notin {14, 15}
  BY <1>2 DEF Remember
<1> QED BY <1>1, <1>2

\* Forget.
LEMMA Forgetting ==
  ASSUME NEW e \in Emission, NEW s \in Extensions(e), NEW r
  PROVE  Forget(s, r) \in Extensions(e)
<1> DEFINE k == [q \in DOMAIN s.known \ {r} |-> s.known[q]]
<1>1. s \in Emission
  BY DEF Extensions
<1>2. /\ DOMAIN s.known \ {r} \subseteq {14, 15}
      /\ \A x \in DOMAIN s.known : s.known[x] \in Word
  BY <1>1, KnowledgeOf
<1>3. k \in [DOMAIN s.known \ {r} -> Word]
  BY <1>2
<1>4. k \in Knowledge
  BY <1>2, <1>3 DEF Knowledge
<1>5. Forget(s, r) = [s EXCEPT !.known = k]
  BY DEF Forget
<1> HIDE DEF k
<1> QED BY <1>4, <1>5, OnlyKnowledge

\* Immediate's operand fits its field, whatever it was.
LEMMA ImmediateTyped ==
  ASSUME NEW op \in {"addi", "addis", "ori", "andi"}, NEW d \in Register,
         NEW a \in Register, NEW v \in Int
  PROVE  Immediate(op, d, a, v) \in Instruction
<1>1. v % Half \in Field
  BY CutFits
<1> QED BY <1>1 DEF Immediate, Instruction

\* li, lis and ori.
LEMMA ConstantTyped ==
  ASSUME NEW r \in Register, NEW v \in Int
  PROVE  Constant(r, v) \in Seq(Instruction)
<1>1. v \div Half \in Int /\ 0 \in Register
  BY CutFits DEF Register
<1>2. /\ Immediate("addi", r, 0, v) \in Instruction
      /\ Immediate("addis", r, 0, v \div Half) \in Instruction
      /\ Immediate("ori", r, r, v) \in Instruction
  BY <1>1, ImmediateTyped
<1>3. /\ <<Immediate("addi", r, 0, v)>> \in Seq(Instruction)
      /\ <<Immediate("addis", r, 0, v \div Half)>> \in Seq(Instruction)
      /\ <<Immediate("ori", r, r, v)>> \in Seq(Instruction)
  BY <1>2, Instructions
<1>4. \A x, y \in Seq(Instruction) : x \o y \in Seq(Instruction)
  BY ConcatProperties
<1>5. <<>> \in Seq(Instruction)
  OBVIOUS
<1> QED BY <1>3, <1>4, <1>5 DEF Constant

\* A load of a register adds instructions, and what is known then is a word.
LEMMA Loading ==
  ASSUME NEW e \in Emission, NEW s \in Extensions(e), NEW r \in Register, NEW v \in Int,
         r \in {14, 15} => v \in Word
  PROVE  ImmediateLoad(s, r, v) \in Extensions(e)
<1> DEFINE delta == IF IsKnown(s, r) THEN SignedWord((v - s.known[r]) % Full) ELSE 0
           near  == delta \in 2 - (Half \div 2) .. (Half \div 2) - 2
           added == Emit(Remember(s, r, v), <<Immediate("addi", r, r, delta)>>)
           fresh == Emit(Remember(s, r, v), Constant(r, v))
<1>1. \/ ImmediateLoad(s, r, v) = s
      \/ near /\ ImmediateLoad(s, r, v) = added
      \/ ImmediateLoad(s, r, v) = fresh
  <2> HIDE DEF delta
  <2>1. ImmediateLoad(s, r, v)
          = CASE IsKnown(s, r) /\ delta = 0 -> s
              [] IsKnown(s, r) /\ delta # 0 /\ near -> added
              [] OTHER -> fresh
    BY DEF ImmediateLoad, delta
  <2> HIDE DEF added, fresh, near
  <2> QED BY <2>1
<1>2. near => delta \in Int
  <2>1. Half \div 2 \in Int
    BY WidthsPositive
  <2> HIDE DEF delta
  <2> QED BY <2>1
<1> HIDE DEF delta, near
<1>3. Remember(s, r, v) \in Extensions(e)
  BY Remembering
<1>4. near => added \in Extensions(e)
  <2> HAVE near
  <2>1. <<Immediate("addi", r, r, delta)>> \in Seq(Instruction)
    BY <1>2, ImmediateTyped, Instructions
  <2> QED BY <1>3, <2>1, Emitting
<1>5. fresh \in Extensions(e)
  BY <1>3, ConstantTyped, Emitting
<1> QED BY <1>1, <1>4, <1>5

\* MemoryLoad, of any address.
LEMMA MemoryLoading ==
  ASSUME NEW e \in Emission, NEW s \in Extensions(e), NEW r \in Register,
         NEW address \in Int, NEW size \in {1, 2, 4}
  PROVE  MemoryLoad(s, r, address, size) \in Extensions(e)
<1> DEFINE near == IF address % Half >= Half \div 2 THEN address + Half ELSE address
           base == (near - (near % Half)) % Full
           load == [op |-> "load", d |-> r, a |-> r, imm |-> near % Half, size |-> size]
<1>1. near \in Int
  BY WidthsPositive
<1> HIDE DEF near
<1>2. near % Half \in Field /\ near % Half \in Int
  BY <1>1, CutFits, WidthsPositive DEF Field
<1>3. base \in Word /\ base \in Int
  <2>1. near - (near % Half) \in Int
    BY <1>1, <1>2
  <2>2. base \in Word
    BY <2>1, CutFits
  <2> QED BY <2>2, WidthsPositive DEF Word
<1>4. <<load>> \in Seq(Instruction)
  <2>1. load \in Instruction
    BY <1>2 DEF Instruction
  <2> HIDE DEF load
  <2> QED BY <2>1, Instructions
<1> HIDE DEF base, load
<1>5. ImmediateLoad(s, r, base) \in Extensions(e)
  BY <1>3, Loading
<1>6. Emit(ImmediateLoad(s, r, base), <<load>>) \in Extensions(e)
  BY <1>4, <1>5, Emitting
<1>7. MemoryLoad(s, r, address, size) = Forget(Emit(ImmediateLoad(s, r, base), <<load>>), r)
  BY DEF MemoryLoad, near, base, load
<1> QED BY <1>6, <1>7, Forgetting

\* Compare, with a value that cmpwi takes or one that needs a register.
LEMMA Comparing ==
  ASSUME NEW e \in Emission, NEW s \in Extensions(e), NEW r \in Register,
         NEW value \in Word
  PROVE  Compare(s, r, value) \in Extensions(e)
<1>1. value \in Nat /\ 15 \in Register
  BY WidthsPositive DEF Word, Register
<1>2. CASE value < Half \div 2
  <2> DEFINE test == [op |-> "cmpwi", a |-> r, imm |-> value]
  <2>1. value \in Field
    BY <1>1, <1>2, WidthsPositive DEF Field
  <2>2. test \in Instruction
    BY <2>1 DEF Instruction
  <2>3. Compare(s, r, value) = Emit(s, <<test>>)
    BY <1>2 DEF Compare
  <2> HIDE DEF test
  <2> QED BY <2>2, <2>3, Instructions, Emitting
<1>3. CASE ~ (value < Half \div 2)
  <2> DEFINE test == [op |-> "cmpw", a |-> r, b |-> 15, altId |-> IF dirty THEN 1 ELSE 0]
  <2>1. test \in Instruction
    BY <1>1 DEF Instruction
  <2>2. Compare(s, r, value) = Emit(ImmediateLoad(s, 15, value), <<test>>)
    BY <1>3 DEF Compare
  <2>3. ImmediateLoad(s, 15, value) \in Extensions(e)
    BY <1>1, Loading
  <2> HIDE DEF test
  <2> QED BY <2>1, <2>2, <2>3, Instructions, Emitting
<1> QED BY <1>2, <1>3

\* Mask, with andi or with a register.
LEMMA Masking ==
  ASSUME NEW e \in Emission, NEW s \in Extensions(e), NEW r \in Register,
         NEW q \in Register, NEW mask \in Word
  PROVE  Mask(s, r, q, mask) \in Extensions(e)
<1>1. mask \in Int
  BY WidthsPositive DEF Word
<1>2. CASE mask < Half \div 2
  <2>1. <<Immediate("andi", r, r, mask)>> \in Seq(Instruction)
    BY <1>1, ImmediateTyped, Instructions
  <2>2. Mask(s, r, q, mask) = Emit(s, <<Immediate("andi", r, r, mask)>>)
    BY <1>2 DEF Mask
  <2> QED BY <2>1, <2>2, Emitting
<1>3. CASE ~ (mask < Half \div 2)
  <2> DEFINE and == [op |-> "and", d |-> r, a |-> r, b |-> q]
  <2>1. and \in Instruction
    BY DEF Instruction
  <2>2. Mask(s, r, q, mask) = Forget(Emit(ImmediateLoad(s, q, mask), <<and>>), r)
    BY <1>3 DEF Mask
  <2>3. ImmediateLoad(s, q, mask) \in Extensions(e)
    BY <1>1, Loading
  <2> HIDE DEF and
  <2>4. Emit(ImmediateLoad(s, q, mask), <<and>>) \in Extensions(e)
    BY <2>1, <2>3, Instructions, Emitting
  <2> QED BY <2>2, <2>4, Forgetting
<1> QED BY <1>2, <1>3

\* A displacement fits its field.
LEMMA StoreTyped ==
  ASSUME NEW d \in Register, NEW a \in Register, NEW displacement \in Int,
         NEW size \in {1, 2, 4}, NEW update \in BOOLEAN
  PROVE  <<StoreTo(d, a, displacement, size, update)>> \in Seq(Instruction)
<1>1. displacement % Half \in Field
  BY CutFits
<1>2. StoreTo(d, a, displacement, size, update) \in Instruction
  BY <1>1 DEF StoreTo, Instruction
<1> QED BY <1>2, Instructions

\* Store, whichever way it reaches its address.
LEMMA Storing ==
  ASSUME NEW e \in Emission, NEW s \in Extensions(e), NEW address \in Word,
         NEW value \in Word, NEW size \in {1, 2, 4}
  PROVE  Store(s, address, value, size) \in Extensions(e)
<1> DEFINE loaded == ImmediateLoad(s, 15, value)
           delta  == IF IsKnown(loaded, 14)
                     THEN SignedWord((address - loaded.known[14]) % Full) ELSE Full
           near   == delta \in -(Half \div 2) .. (Half \div 2) - 1
           update == Emit(Remember(loaded, 14, address), <<StoreTo(15, 14, delta, size, TRUE)>>)
           store  == Emit(ImmediateLoad(loaded, 14, address), <<StoreTo(15, 14, 0, size, FALSE)>>)
<1>1. 14 \in Register /\ 15 \in Register /\ address \in Int /\ value \in Int
      /\ Half \div 2 \in Int
  BY WidthsPositive DEF Register, Word
<1>2. loaded \in Extensions(e)
  BY <1>1, Loading
<1>3. Store(s, address, value, size) = IF near THEN update ELSE store
  BY DEF Store
<1>4. near => delta \in Int
  <2> HIDE DEF delta
  <2> QED BY <1>1
<1> HIDE DEF loaded, delta, near
<1>5. near => update \in Extensions(e)
  <2> HAVE near
  <2>1. Remember(loaded, 14, address) \in Extensions(e)
    BY <1>2, Remembering
  <2>2. <<StoreTo(15, 14, delta, size, TRUE)>> \in Seq(Instruction)
    BY <1>1, <1>4, StoreTyped
  <2> QED BY <2>1, <2>2, Emitting
<1>6. store \in Extensions(e)
  <2>1. ImmediateLoad(loaded, 14, address) \in Extensions(e)
    BY <1>1, <1>2, Loading
  <2>2. <<StoreTo(15, 14, 0, size, FALSE)>> \in Seq(Instruction)
    <3> DEFINE none == 0
    <3>1. none \in Int /\ FALSE \in BOOLEAN
      OBVIOUS
    <3> HIDE DEF none
    <3>2. <<StoreTo(15, 14, none, size, FALSE)>> \in Seq(Instruction)
      BY <1>1, <3>1, StoreTyped
    <3> QED BY <3>2 DEF none
  <2> QED BY <2>1, <2>2, Emitting
<1> QED BY <1>3, <1>5, <1>6

\* CallWith.
LEMMA Calling ==
  ASSUME NEW e \in Emission, NEW s \in Extensions(e), NEW dst \in Int, NEW src \in Int,
         NEW size \in Int, NEW call \in Instruction
  PROVE  CallWith(s, dst, src, size, call) \in Extensions(e)
<1>1. 3 \in Register /\ 4 \in Register /\ 5 \in Register
  BY DEF Register
<1>2. ImmediateLoad(s, 3, dst) \in Extensions(e)
  BY <1>1, Loading
<1>3. ImmediateLoad(ImmediateLoad(s, 3, dst), 4, src) \in Extensions(e)
  BY <1>1, <1>2, Loading
<1>4. ImmediateLoad(ImmediateLoad(ImmediateLoad(s, 3, dst), 4, src), 5, size) \in Extensions(e)
  BY <1>1, <1>3, Loading
<1>5. <<call>> \in Seq(Instruction)
  BY Instructions
<1> QED BY <1>4, <1>5, Emitting DEF CallWith

\* A loop of n stores, whatever it stores.
StoreLoop(f, e, n, at, value, size) ==
  f = [i \in 0 .. n |-> IF i = 0 THEN e ELSE Store(f[i - 1], at[i], value[i], size)]

\* The loop there is, and that it emits instructions.
LEMMA StoringEach ==
  ASSUME NEW e \in Emission, NEW n \in Nat, NEW at \in [1 .. n -> Word],
         NEW value \in [1 .. n -> Word], NEW size \in {1, 2, 4}
  PROVE  /\ \E f : StoreLoop(f, e, n, at, value, size)
         /\ \A f : StoreLoop(f, e, n, at, value, size) => f[n] \in Extensions(e)
<1> DEFINE S == Extensions(e)
           step == [i \in 1 .. n |-> [s \in S |-> Store(s, at[i], value[i], size)]]
<1>1. ASSUME NEW i \in 1 .. n, NEW s \in S
      PROVE  Store(s, at[i], value[i], size) \in S
  BY Storing
<1>2. e \in S
  BY ExtendsItself
<1> HIDE DEF S
<1>3. step \in Steps(S, n)
  BY <1>1 DEF Steps
<1> HIDE DEF step
<1>4. PICK g : Iterates(g, S, e, n, step)
  BY <1>2, <1>3, Iteration
<1>5. StoreLoop(g, e, n, at, value, size)
  <2>1. g \in [0 .. n -> S]
        /\ g = [i \in 0 .. n |-> IF i = 0 THEN e ELSE step[i][g[i - 1]]]
    BY <1>4 DEF Iterates
  <2>2. ASSUME NEW i \in 0 .. n, i # 0
        PROVE  step[i][g[i - 1]] = Store(g[i - 1], at[i], value[i], size)
    <3>1. i \in 1 .. n /\ i - 1 \in 0 .. n
      BY <2>2
    <3>2. g[i - 1] \in S
      BY <2>1, <3>1
    <3> QED BY <3>1, <3>2 DEF step
  <2> QED BY <2>1, <2>2 DEF StoreLoop
<1>6. ASSUME NEW f, StoreLoop(f, e, n, at, value, size)
      PROVE  f[n] \in S
  <2>1. f = [i \in 0 .. n |-> IF i = 0 THEN e ELSE Store(f[i - 1], at[i], value[i], size)]
    BY <1>6 DEF StoreLoop
  <2>2. 0 \in 0 .. n /\ n \in 0 .. n
    OBVIOUS
  <2>3. f[0] \in S
    BY <1>2, <2>1, <2>2
  <2>4. ASSUME NEW i \in 1 .. n, f[i - 1] \in S
        PROVE  f[i] \in S
    <3>1. i \in 0 .. n /\ i # 0
      OBVIOUS
    <3>2. f[i] = Store(f[i - 1], at[i], value[i], size)
      BY <2>1, <3>1
    <3> QED BY <1>1, <2>4, <3>2
  <2> QED BY <2>2, <2>3, <2>4, HandedOn
<1> QED BY <1>5, <1>6 DEF S

\* The whole words of an array.
LEMMA WritingWords ==
  ASSUME NEW e \in Emission, NEW address \in Word, NEW bytes \in Seq(0 .. Byte - 1)
  PROVE  ArrayWords(e, address, bytes) \in Extensions(e)
<1> DEFINE n == Len(bytes) \div 4
           at == [i \in 1 .. n |-> (address + 4 * (i - 1)) % Full]
           value == [i \in 1 .. n |-> ValueAt(bytes, 4 * i - 3, 4)]
           size == 4
           loop(f) == f = [i \in 0 .. n |->
             IF i = 0 THEN e
             ELSE Store(f[i - 1], (address + 4 * (i - 1)) % Full,
                        ValueAt(bytes, 4 * i - 3, 4), 4)]
           u == CHOOSE f : loop(f)
<1>1. n \in Nat
  BY LenProperties
<1>2. at \in [1 .. n -> Word]
  <2>1. ASSUME NEW i \in 1 .. n PROVE (address + 4 * (i - 1)) % Full \in Word
    <3>1. address + 4 * (i - 1) \in Int
      BY WidthsPositive DEF Word
    <3> QED BY <3>1, CutFits
  <2> HIDE DEF n
  <2> QED BY <2>1
<1>3. value \in [1 .. n -> Word]
  <2>1. ASSUME NEW i \in 1 .. n PROVE ValueAt(bytes, 4 * i - 3, 4) \in Word
    <3>1. 4 * i - 3 \in Int
      OBVIOUS
    <3> QED BY <3>1, BytesValues
  <2> HIDE DEF n
  <2> QED BY <2>1
<1>4. ArrayWords(e, address, bytes) = u[n]
  BY DEF ArrayWords
<1>5. \A f : loop(f) <=> StoreLoop(f, e, n, at, value, size)
  <2> HIDE DEF n
  <2>1. \A i \in 0 .. n : i # 0 => i \in 1 .. n
    BY <1>1
  <2> QED BY <2>1 DEF StoreLoop
<1>6. size \in {1, 2, 4}
  OBVIOUS
<1> HIDE DEF n, at, value, size, loop
<1>7. /\ \E f : StoreLoop(f, e, n, at, value, size)
      /\ \A f : StoreLoop(f, e, n, at, value, size) => f[n] \in Extensions(e)
  BY <1>1, <1>2, <1>3, <1>6, StoringEach
<1>8. loop(u)
  BY <1>5, <1>7
<1> HIDE DEF u
<1> QED BY <1>4, <1>5, <1>7, <1>8

\* An array that is written in place.
LEMMA WritingArray ==
  ASSUME NEW e \in Emission, NEW address \in Word, NEW bytes \in Seq(0 .. Byte - 1)
  PROVE  ArrayInline(e, address, bytes) \in Extensions(e)
<1> DEFINE words == ArrayWords(e, address, bytes)
           offset == Len(bytes) - (Len(bytes) % 4)
           half == Store(words, (address + offset * 2) % Full,
                         ValueAt(bytes, offset + 1, 2), 2)
<1>1. words \in Extensions(e)
  BY WritingWords
<1>2. offset \in Int /\ address \in Int
  BY LenProperties, WidthsPositive DEF Word
<1>3. ArrayInline(e, address, bytes) \in {words, half}
  BY DEF ArrayInline
<1> HIDE DEF words, offset
<1>4. (address + offset * 2) % Full \in Word /\ offset + 1 \in Int
  <2>1. address + offset * 2 \in Int
    BY <1>2
  <2> QED BY <1>2, <2>1, CutFits
<1>5. ValueAt(bytes, offset + 1, 2) \in Word
  <2>1. ValueAt(bytes, offset + 1, 2) \in Field
    BY <1>4, BytesValues
  <2>2. Field \subseteq Word
    <3>1. ASSUME NEW h \in Nat \ {0} PROVE h <= h * h
      BY SMT
    <3> QED BY <3>1, WidthsPositive DEF Field, Word, Full
  <2> QED BY <2>1, <2>2
<1>6. half \in Extensions(e)
  BY <1>1, <1>4, <1>5, Storing
<1> QED BY <1>1, <1>3, <1>6

\* An 08 code, however many stores it is.
LEMMA WritingSerially ==
  ASSUME NEW e \in Emission, NEW c, c.address \in Word, c.value \in Word, c.count \in Nat,
         c.step \in Nat, c.increment \in Word
  PROVE  SerialWrite(e, c) \in Extensions(e)
<1> DEFINE n == c.count
           at == [i \in 1 .. n |-> (c.address + (i - 1) * c.step) % Full]
           value == [i \in 1 .. n |-> (c.value + (i - 1) * c.increment) % Full]
           size == Width(c.bits)
           loop(f) == f = [i \in 0 .. n |->
             IF i = 0 THEN e
             ELSE Store(f[i - 1], (c.address + (i - 1) * c.step) % Full,
                        (c.value + (i - 1) * c.increment) % Full, size)]
           u == CHOOSE f : loop(f)
<1>1. n \in Nat
  OBVIOUS
<1>2. ASSUME NEW i \in Int, NEW x \in Int, NEW y \in Int
      PROVE  (x + (i - 1) * y) % Full \in Word
  <2>1. x + (i - 1) * y \in Int
    BY SMT
  <2> QED BY <2>1, CutFits
<1>3. c.address \in Int /\ c.value \in Int /\ c.step \in Int /\ c.increment \in Int
  BY WidthsPositive DEF Word
<1>4. at \in [1 .. n -> Word] /\ value \in [1 .. n -> Word]
  <2>1. ASSUME NEW i \in 1 .. n
        PROVE  /\ (c.address + (i - 1) * c.step) % Full \in Word
               /\ (c.value + (i - 1) * c.increment) % Full \in Word
    <3>1. i \in Int
      OBVIOUS
    <3> QED BY <1>2, <1>3, <3>1
  <2> HIDE DEF n
  <2> QED BY <2>1
<1>5. SerialWrite(e, c) = u[n]
  BY DEF SerialWrite
<1>6. size \in {1, 2, 4}
  BY DEF Width
<1> HIDE DEF size
<1>7. \A f : loop(f) <=> StoreLoop(f, e, n, at, value, size)
  <2> HIDE DEF n
  <2>1. \A i \in 0 .. n : i # 0 => i \in 1 .. n
    BY <1>1
  <2> QED BY <2>1 DEF StoreLoop
<1> HIDE DEF n, at, value, loop
<1>8. /\ \E f : StoreLoop(f, e, n, at, value, size)
      /\ \A f : StoreLoop(f, e, n, at, value, size) => f[n] \in Extensions(e)
  BY <1>1, <1>4, <1>6, StoringEach
<1>9. loop(u)
  BY <1>7, <1>8
<1> HIDE DEF u
<1> QED BY <1>5, <1>7, <1>8, <1>9

-----------------------------------------------------------------------------
(* The function.                                                           *)

Phases == {"begin", "compiling", "done", "rejected", "halted", "wild"}

\* PlaceholdersAreOpen and TypeOK hold step by step only with this: that the stack of
\* open blocks names no branch twice, or closing a block would fill in the branch of
\* another; and that everything emitted is an instruction, and so no placeholder.
TextInv ==
  /\ list \in Lists /\ dirty \in BOOLEAN /\ pos \in 0 .. Len(list) /\ phase \in Phases
  /\ Here \in Emission
  /\ open \in Seq(DOMAIN text)
  /\ \A j, k \in DOMAIN open : open[j] = open[k] => j = k
  /\ \A i \in DOMAIN text : text[i] = Garbage <=> \E k \in DOMAIN open : open[k] = i

\* The operands that the handlers use.
LEMMA OperandsTyped ==
  ASSUME NEW c \in GeckoCode
  PROVE  /\ c.op = "fill" => /\ c.address \in Word /\ c.value \in Word
                             /\ c.size \in {1, 2} /\ c.count \in Nat
         /\ c.op \in {"write", "if"} => c.address \in Word /\ c.value \in Word
         /\ c.op = "copy" => c.address \in Word /\ c.bytes \in Seq(0 .. Byte - 1)
         /\ c.op = "serial" => /\ c.address \in Word /\ c.value \in Word /\ c.count \in Nat
                               /\ c.step \in Nat /\ c.increment \in Word
         /\ c.op = "ifMasked" => c.address \in Word /\ c.mask \in Field /\ c.value \in Field
         /\ c.op \in {"execute", "inject"} => c.routine.lines \in Nat \ {0}
         /\ c.op = "inject" => c.address \in Word /\ c.link \in BOOLEAN
BY DEF GeckoCode, RoutineCode

\* The code a handler is called for.
LEMMA CodeTyped ==
  ASSUME list \in Lists, pos \in 0 .. Len(list), NEW ops, Compiling(ops)
  PROVE  /\ Code \in GeckoCode /\ Code.op \in ops /\ pos + 1 \in DOMAIN list
         /\ pos' \in 0 .. Len(list)
<1>1. list \in Seq(GeckoCode)
  BY CompilerAssumption
<1>2. Len(list) \in Nat /\ DOMAIN list = 1 .. Len(list)
      /\ \A n \in DOMAIN list : list[n] \in GeckoCode
  BY <1>1, LenProperties
<1>3. pos < Len(list) /\ pos' = pos + 1 /\ Code.op \in ops
  BY DEF Compiling
<1>4. pos + 1 \in DOMAIN list /\ pos' \in 0 .. Len(list)
  BY <1>2, <1>3
<1> QED BY <1>2, <1>3, <1>4 DEF Code

\* A step that emits more instructions, and opens and closes no block.
LEMMA TextGrows ==
  ASSUME TextInv, NEW s \in Extensions(Here), text' = s.text, known' = s.known,
         UNCHANGED <<list, open, dirty>>, pos' \in 0 .. Len(list), phase' \in Phases
  PROVE  TextInv'
<1>1. Here \in Emission /\ s \in Emission /\ Here.text = text
  BY DEF TextInv, Extensions, Here
<1>2. Here' = s
  BY <1>1 DEF Here, Emission
<1>3. PICK more \in Seq(Instruction) : text' = text \o more
  BY <1>1 DEF Extensions
<1>4. text \in Seq(Line) /\ more \in Seq(Line)
  BY <1>1, Instructions DEF Emission
<1>5. /\ Len(text) \in Nat /\ DOMAIN text = 1 .. Len(text)
      /\ Len(more) \in Nat /\ \A i \in 1 .. Len(more) : more[i] \in Instruction
      /\ DOMAIN text' = 1 .. Len(text) + Len(more)
      /\ \A i \in 1 .. Len(text) + Len(more) :
           text'[i] = IF i <= Len(text) THEN text[i] ELSE more[i - Len(text)]
  BY <1>3, <1>4, LenProperties, ConcatProperties
<1>6. DOMAIN text \subseteq DOMAIN text' /\ \A i \in DOMAIN text : text'[i] = text[i]
  BY <1>5
<1>7. \A i \in DOMAIN text' \ DOMAIN text : text'[i] # Garbage
  <2>1. ASSUME NEW i \in DOMAIN text' \ DOMAIN text PROVE text'[i] \in Instruction
    BY <1>5
  <2> QED BY <2>1, Instructions
<1>8. open' \in Seq(DOMAIN text')
  BY <1>6 DEF TextInv
<1>9. \A k \in DOMAIN open : open[k] \in DOMAIN text
  BY DEF TextInv
<1>10. \A i \in DOMAIN text' : text'[i] = Garbage <=> \E k \in DOMAIN open' : open'[k] = i
  BY <1>6, <1>7, <1>9 DEF TextInv
<1> QED BY <1>1, <1>2, <1>8, <1>10 DEF TextInv

\* Proceed goes on to a phase there is.
LEMMA ProceedTyped ==
  ASSUME NEW e, NEW blocks, Proceed(e, blocks)
  PROVE  text' = e.text /\ known' = e.known /\ phase' \in Phases
BY DEF Proceed, Phases

\* 20 and 28 leave room for a branch and put it on the stack.
LEMMA OpeningKeepsText ==
  ASSUME TextInv, Handle2028
  PROVE  TextInv'
<1> DEFINE word == MemoryLoad(Here, 14, Code.address, 4)
           half == Mask(MemoryLoad(Here, 14, Code.address, 2), 14, 15, Half - 1 - Code.mask)
           test == Compare(IF Code.op = "if" THEN word ELSE half, 14, Code.value)
<1>1. /\ Compiling(Conditional) /\ Proceed(Emit(test, <<Garbage>>), tail)
      /\ open' = Append(open, Len(test.text) + 1) /\ UNCHANGED <<list, dirty>>
  BY DEF Handle2028
<1>2. Code \in GeckoCode /\ Code.op \in {"if", "ifMasked"} /\ pos' \in 0 .. Len(list)
  BY <1>1, CodeTyped DEF TextInv, Conditional
<1>3. Here \in Emission /\ Here \in Extensions(Here) /\ 14 \in Register /\ 15 \in Register
  BY ExtendsItself DEF TextInv, Register
<1>4. Field \subseteq Word /\ Word \subseteq Int /\ Field \subseteq Int
  <2>1. ASSUME NEW h \in Nat \ {0} PROVE h <= h * h
    BY SMT
  <2> QED BY <2>1, WidthsPositive DEF Field, Word, Full
<1>5. Code.address \in Int /\ Code.value \in Word
  BY <1>2, <1>4, OperandsTyped
<1>6. word \in Extensions(Here)
  BY <1>3, <1>5, MemoryLoading
<1>7. Code.op = "ifMasked" => half \in Extensions(Here)
  <2> SUFFICES ASSUME Code.op = "ifMasked" PROVE half \in Extensions(Here)
    OBVIOUS
  <2>1. Half - 1 - Code.mask \in Word
    <3>1. Code.mask \in Field
      BY <1>2, OperandsTyped
    <3>2. Half - 1 - Code.mask \in Field
      BY <3>1, WidthsPositive DEF Field
    <3> QED BY <1>4, <3>2
  <2>2. MemoryLoad(Here, 14, Code.address, 2) \in Extensions(Here)
    BY <1>3, <1>5, MemoryLoading
  <2> QED BY <1>3, <2>1, <2>2, Masking
<1>8. (IF Code.op = "if" THEN word ELSE half) \in Extensions(Here)
  BY <1>2, <1>6, <1>7
<1> HIDE DEF word, half
<1>9. test \in Extensions(Here)
  BY <1>3, <1>5, <1>8, Comparing
<1> HIDE DEF test
<1>10. PICK more \in Seq(Instruction) : test.text = text \o more
  BY <1>9 DEF Extensions, Here
<1>11. test \in Emission /\ test.text \in Seq(Line) /\ text \in Seq(Line)
       /\ test.known \in Knowledge
  <2>1. test \in Emission
    BY <1>9 DEF Extensions
  <2>2. \A e \in Emission : e.text \in Seq(Line) /\ e.known \in Knowledge
    BY DEF Emission
  <2>3. Here.text = text
    BY DEF Here
  <2> QED BY <1>3, <2>1, <2>2, <2>3
<1>12. text' = test.text \o <<Garbage>> /\ known' = test.known /\ phase' \in Phases
  <2> DEFINE out == Emit(test, <<Garbage>>)
  <2>1. out.text = test.text \o <<Garbage>> /\ out.known = test.known
    BY <1>11 DEF Emit, Emission
  <2>2. Proceed(out, tail)
    BY <1>1
  <2> HIDE DEF out
  <2> QED BY <2>1, <2>2, ProceedTyped
<1> DEFINE at == Len(test.text) + 1
<1>13. /\ Len(text) \in Nat /\ DOMAIN text = 1 .. Len(text)
       /\ Len(more) \in Nat /\ \A i \in 1 .. Len(more) : more[i] \in Instruction
       /\ Len(test.text) = Len(text) + Len(more)
       /\ \A i \in 1 .. Len(text) + Len(more) :
            test.text[i] = IF i <= Len(text) THEN text[i] ELSE more[i - Len(text)]
  BY <1>10, <1>11, Instructions, LenProperties, ConcatProperties
<1>14. /\ text' \in Seq(Line) /\ DOMAIN text' = 1 .. at /\ text'[at] = Garbage
       /\ \A i \in 1 .. at - 1 : text'[i] = test.text[i]
  <2>1. Garbage \in Line
    BY DEF Line
  <2>2. text' = Append(test.text, Garbage)
    BY <1>11, <1>12, <2>1, AppendIsConcat
  <2>3. Len(test.text) \in Nat
    BY <1>11, LenProperties
  <2> QED BY <1>11, <2>1, <2>2, <2>3, AppendProperties, LenProperties
<1> HIDE DEF at
<1>15. at \in Nat /\ at = Len(text) + Len(more) + 1
  BY <1>13 DEF at
<1>16. /\ DOMAIN text \subseteq DOMAIN text' /\ \A i \in DOMAIN text : text'[i] = text[i]
       /\ at \in DOMAIN text' /\ at \notin DOMAIN text
       /\ \A i \in DOMAIN text' : \/ i \in DOMAIN text
                                  \/ i = at
                                  \/ text'[i] \in Instruction
  <2>1. \A i \in DOMAIN text : i \in 1 .. at - 1 /\ test.text[i] = text[i]
    BY <1>13, <1>15
  <2>2. /\ DOMAIN text \subseteq DOMAIN text' /\ \A i \in DOMAIN text : text'[i] = text[i]
        /\ at \in DOMAIN text' /\ at \notin DOMAIN text
    BY <1>13, <1>14, <1>15, <2>1
  <2>3. ASSUME NEW i \in DOMAIN text', i \notin DOMAIN text, i # at
        PROVE  text'[i] \in Instruction
    <3>1. /\ i \in 1 .. at - 1 /\ i \in 1 .. Len(text) + Len(more) /\ ~ (i <= Len(text))
          /\ i - Len(text) \in 1 .. Len(more)
      BY <1>13, <1>14, <1>15, <2>3
    <3> QED BY <1>13, <1>14, <3>1
  <2> QED BY <2>2, <2>3
<1>17. /\ open \in Seq(DOMAIN text) /\ \A k \in DOMAIN open : open[k] \in DOMAIN text
       /\ Len(open) \in Nat /\ DOMAIN open = 1 .. Len(open)
  BY LenProperties DEF TextInv
<1>18. /\ open' \in Seq(DOMAIN text') /\ DOMAIN open' = 1 .. Len(open) + 1
       /\ \A k \in DOMAIN open : open'[k] = open[k]
       /\ open'[Len(open) + 1] = at
  <2>1. open \in Seq(DOMAIN text') /\ open' = Append(open, at)
    BY <1>1, <1>16, <1>17 DEF at
  <2> QED BY <1>16, <1>17, <2>1, AppendProperties, LenProperties
<1>19. \A k \in DOMAIN open' : k \in DOMAIN open \/ k = Len(open) + 1
  BY <1>17, <1>18
<1>20. \A j, k \in DOMAIN open' : open'[j] = open'[k] => j = k
  BY <1>16, <1>17, <1>18, <1>19 DEF TextInv
<1>21. \A i \in DOMAIN text' : text'[i] = Garbage <=> \E k \in DOMAIN open' : open'[k] = i
  <2>1. \A i \in DOMAIN text : text'[i] = Garbage <=> \E k \in DOMAIN open : open[k] = i
    BY <1>16 DEF TextInv
  <2>2. Len(open) + 1 \in DOMAIN open' /\ DOMAIN open \subseteq DOMAIN open'
    BY <1>17, <1>18
  <2>3. ASSUME NEW i \in DOMAIN text'
        PROVE  text'[i] = Garbage <=> \E k \in DOMAIN open' : open'[k] = i
    <3>1. CASE i \in DOMAIN text
      BY <1>16, <1>18, <1>19, <2>1, <2>2, <3>1
    <3>2. CASE i = at
      BY <1>14, <1>18, <2>2, <3>2
    <3>3. CASE i \notin DOMAIN text /\ i # at
      <4>1. text'[i] # Garbage
        BY <1>16, <3>3, Instructions
      <4> QED BY <1>17, <1>18, <1>19, <3>3, <4>1
    <3> QED BY <3>1, <3>2, <3>3
  <2> QED BY <2>3
<1>22. Here' \in Emission
  BY <1>11, <1>12, <1>14 DEF Here, Emission
<1> QED BY <1>1, <1>2, <1>12, <1>18, <1>20, <1>21, <1>22 DEF TextInv

\* Behind a block nothing is known.
LEMMA NothingKnown == <<>> \in Knowledge
<1>1. <<>> \in Seq(Word) /\ Len(<<>>) = 0
  OBVIOUS
<1>2. <<>> \in [1 .. Len(<<>>) -> Word] /\ DOMAIN <<>> = 1 .. Len(<<>>)
  BY <1>1, LenProperties
<1>3. DOMAIN <<>> \subseteq {14, 15}
  BY <1>1, <1>2
<1>4. <<>> \in [DOMAIN <<>> -> Word]
  BY <1>2
<1> QED BY <1>3, <1>4 DEF Knowledge

\* E0 fills in the last branch, and takes it from the stack.
LEMMA ClosingKeepsText ==
  ASSUME TextInv, HandleE0
  PROVE  TextInv'
<1> DEFINE nop == [op |-> "nop"]
           placed == Append(text, nop)
           paired == Last(open)
           bne == Bne(Len(placed) - paired)
           n == Len(text)
           m == Len(open)
<1>1. /\ Compiling({"endif"}) /\ open # <<>> /\ open' = Front(open)
      /\ Proceed([text |-> [placed EXCEPT ![paired] = bne], known |-> <<>>], tail)
      /\ UNCHANGED <<list, dirty>>
  BY DEF HandleE0
<1>2. /\ text' = [placed EXCEPT ![paired] = bne] /\ known' = <<>> /\ phase' \in Phases
      /\ pos' \in 0 .. Len(list)
  BY <1>1, ProceedTyped, CodeTyped DEF TextInv
<1>3. /\ text \in Seq(Line) /\ n \in Nat /\ DOMAIN text = 1 .. n
      /\ \A i \in 1 .. n : text[i] \in Line
  <2>1. text \in Seq(Line)
    BY DEF TextInv, Here, Emission
  <2> QED BY <2>1, LenProperties
<1>4. /\ m \in Nat \ {0} /\ DOMAIN open = 1 .. m
      /\ \A k \in 1 .. m : open[k] \in DOMAIN text
  <2>1. open \in Seq(DOMAIN text) /\ open # <<>>
    BY <1>1 DEF TextInv
  <2>2. Len(open) \in Nat /\ Len(open) # 0 /\ DOMAIN open = 1 .. Len(open)
        /\ \A k \in 1 .. Len(open) : open[k] \in DOMAIN text
    BY <2>1, LenProperties, EmptySeq
  <2> QED BY <2>2
<1>5. paired = open[m] /\ paired \in 1 .. n /\ m \in 1 .. m
  BY <1>3, <1>4 DEF Last
<1>6. nop \in Instruction /\ bne \in Instruction
  <2>1. Len(placed) = n + 1
    <3>1. nop \in Line
      BY DEF Line, Instruction
    <3> QED BY <1>3, <3>1, AppendProperties
  <2>2. Len(placed) - paired \in Int
    BY <1>3, <1>5, <2>1
  <2>3. ASSUME NEW by \in Int
        PROVE  ((by + BranchReach) % (2 * BranchReach)) - BranchReach \in Int
    <3>1. BranchReach \in Nat \ {0}
      BY CompilerAssumption
    <3>2. 2 * BranchReach \in Nat \ {0}
      BY <3>1
    <3>3. (by + BranchReach) % (2 * BranchReach) \in Int
      BY <3>1, <3>2
    <3> QED BY <3>1, <3>3
  <2> QED BY <2>2, <2>3 DEF Bne, Instruction
<1>7. nop # Garbage /\ bne # Garbage /\ nop \in Line /\ bne \in Line
  BY <1>6, Instructions DEF Line
<1> HIDE DEF nop, bne, paired, m
<1>8. /\ placed \in Seq(Line) /\ Len(placed) = n + 1 /\ DOMAIN placed = 1 .. n + 1
      /\ \A i \in 1 .. n : placed[i] = text[i]
      /\ placed[n + 1] = nop
  BY <1>3, <1>7, AppendProperties, LenProperties
<1> HIDE DEF placed, n
<1>9. /\ text' \in Seq(Line) /\ DOMAIN text' = 1 .. n + 1
      /\ text'[paired] = bne
      /\ \A i \in 1 .. n + 1 : i # paired => text'[i] = placed[i]
  <2>1. paired \in 1 .. Len(placed)
    BY <1>3, <1>5, <1>8
  <2>2. text' \in Seq(Line) /\ Len(text') = n + 1
    BY <1>2, <1>7, <1>8, <2>1, ExceptSeq
  <2>3. DOMAIN text' = 1 .. n + 1 /\ paired \in DOMAIN placed
    BY <1>8, <2>1, <2>2, LenProperties
  <2> QED BY <1>2, <1>8, <2>2, <2>3
<1>10. /\ DOMAIN open' = 1 .. m - 1 /\ \A k \in 1 .. m - 1 : open'[k] = open[k]
       /\ open' \in Seq(DOMAIN text')
  <2>1. open' = SubSeq(open, 1, m - 1)
    BY <1>1 DEF Front, m
  <2>2. \A k \in 1 .. m - 1 : k \in 1 .. m /\ open[k] \in DOMAIN text'
    BY <1>3, <1>4, <1>9
  <2>3. 1 \in Int /\ m - 1 \in Int /\ m - 1 >= 0
    BY <1>4
  <2>4. /\ open' \in Seq(DOMAIN text')
        /\ Len(open') = IF 1 <= m - 1 THEN m - 1 - 1 + 1 ELSE 0
        /\ \A k \in 1 .. m - 1 - 1 + 1 : open'[k] = open[1 + k - 1]
    BY <2>1, <2>2, <2>3, SubSeqProperties
  <2>5. Len(open') = m - 1
    BY <2>3, <2>4
  <2>6. DOMAIN open' = 1 .. m - 1
    BY <2>4, <2>5, LenProperties
  <2>7. \A k \in 1 .. m - 1 : k \in 1 .. m - 1 - 1 + 1 /\ 1 + k - 1 = k
    BY <2>3
  <2> QED BY <2>4, <2>6, <2>7
<1>11. \A k \in 1 .. m - 1 : k \in DOMAIN open /\ k # m /\ open[k] # paired
  <2>1. \A k \in 1 .. m - 1 : k \in DOMAIN open /\ m \in DOMAIN open /\ k # m
    BY <1>4
  <2> QED BY <1>5, <2>1 DEF TextInv
<1>12. \A j, k \in DOMAIN open' : open'[j] = open'[k] => j = k
  BY <1>10, <1>11 DEF TextInv
<1>13. ASSUME NEW i \in DOMAIN text'
       PROVE  text'[i] = Garbage <=> \E k \in DOMAIN open' : open'[k] = i
  <2>1. CASE i = paired
    BY <1>7, <1>9, <1>10, <1>11, <2>1
  <2>2. CASE i = n + 1
    <3>1. n + 1 # paired /\ n + 1 \notin DOMAIN text
      BY <1>3, <1>5
    <3>2. text'[i] # Garbage
      BY <1>7, <1>8, <1>9, <2>2, <3>1
    <3>3. \A k \in DOMAIN open' : open'[k] \in DOMAIN text
      BY <1>4, <1>10, <1>11
    <3> QED BY <2>2, <3>1, <3>2, <3>3
  <2>3. CASE i # paired /\ i # n + 1
    <3>1. i \in 1 .. n /\ i \in DOMAIN text
      BY <1>3, <1>9, <2>3
    <3>2. text'[i] = text[i]
      BY <1>8, <1>9, <2>3, <3>1
    <3>3. text[i] = Garbage <=> \E k \in DOMAIN open : open[k] = i
      BY <3>1 DEF TextInv
    <3>4. \A k \in DOMAIN open : k \in 1 .. m - 1 \/ k = m
      BY <1>4
    <3> QED BY <1>5, <1>10, <1>11, <2>3, <3>2, <3>3, <3>4
  <2> QED BY <2>1, <2>2, <2>3
<1>14. Here' \in Emission
  BY <1>2, <1>9, NothingKnown DEF Here, Emission
<1> QED BY <1>1, <1>2, <1>10, <1>12, <1>13, <1>14 DEF TextInv

\* Where the registers are saved is within reach of the stack pointer.
LEMMA FrameFits == \A at \in {8, 12, 16} : at \in Field
<1>1. ASSUME NEW x \in Nat, x >= 16 PROVE x * x > 16
  <2>1. x - 16 \in Nat /\ \A a, b \in Nat : a * b \in Nat
    BY <1>1
  <2>2. (x - 16) * x \in Nat
    BY <2>1
  <2>3. (x - 16) * x = x * x - 16 * x /\ x * x \in Int
    OBVIOUS
  <2> QED BY <1>1, <2>2, <2>3
<1>2. Half > 16
  BY <1>1, MachineAssumption DEF Half
<1> QED BY <1>2, WidthsPositive DEF Field

\* What the function begins and ends with.
LEMMA StackLines ==
  /\ \A at \in {8, 12, 16} : \A d \in {0, 14, 15} :
       /\ StoreTo(d, 1, at, 4, FALSE) \in Instruction
       /\ [op |-> "load", d |-> d, a |-> 1, imm |-> at, size |-> 4] \in Instruction
  /\ StoreTo(1, 1, -32, 4, TRUE) \in Instruction
  /\ Immediate("addi", 1, 1, 32) \in Instruction
  /\ \A op \in {"mflr", "mtlr"} : [op |-> op, d |-> 0] \in Instruction
  /\ [op |-> "blr"] \in Instruction
<1>1. 1 \in Register /\ {0, 14, 15} \subseteq Register
  BY DEF Register
<1>2. ASSUME NEW d \in Register, NEW a \in Register, NEW v \in Int, NEW update \in BOOLEAN
      PROVE  StoreTo(d, a, v, 4, update) \in Instruction
  BY <1>2, CutFits DEF StoreTo, Instruction
<1>3. /\ StoreTo(1, 1, -32, 4, TRUE) \in Instruction
      /\ Immediate("addi", 1, 1, 32) \in Instruction
  <2>1. -32 \in Int /\ TRUE \in BOOLEAN
    OBVIOUS
  <2>2. StoreTo(1, 1, -32, 4, TRUE) \in Instruction
    BY <1>1, <1>2, <2>1
  <2>3. Immediate("addi", 1, 1, 32) \in Instruction
    <3>1. "addi" \in {"addi", "addis", "ori", "andi"} /\ 32 \in Int
      OBVIOUS
    <3> QED BY <1>1, <3>1, ImmediateTyped
  <2> QED BY <2>2, <2>3
<1>4. ASSUME NEW at \in {8, 12, 16}, NEW d \in {0, 14, 15}
      PROVE  /\ StoreTo(d, 1, at, 4, FALSE) \in Instruction
             /\ [op |-> "load", d |-> d, a |-> 1, imm |-> at, size |-> 4] \in Instruction
  <2>1. at \in Int /\ FALSE \in BOOLEAN /\ d \in Register /\ at \in Field
    BY <1>1, FrameFits
  <2>2. StoreTo(d, 1, at, 4, FALSE) \in Instruction
    BY <1>1, <1>2, <2>1
  <2>3. [op |-> "load", d |-> d, a |-> 1, imm |-> at, size |-> 4] \in Instruction
    BY <1>1, <2>1 DEF Instruction
  <2> QED BY <2>2, <2>3
<1>5. \A op \in {"mflr", "mtlr"} : [op |-> op, d |-> 0] \in Instruction
  BY <1>1 DEF Instruction
<1>6. [op |-> "blr"] \in Instruction
  BY DEF Instruction
<1> QED BY <1>3, <1>4, <1>5, <1>6

\* As many lines as the prologue has.
LEMMA FiveLines ==
  ASSUME NEW a \in Instruction, NEW b \in Instruction, NEW c \in Instruction,
         NEW d \in Instruction, NEW e \in Instruction
  PROVE  <<a, b, c, d, e>> \in Seq(Instruction)
OBVIOUS

\* As many lines as the epilogue has.
LEMMA SixLines ==
  ASSUME NEW a \in Instruction, NEW b \in Instruction, NEW c \in Instruction,
         NEW d \in Instruction, NEW e \in Instruction, NEW f \in Instruction
  PROVE  <<a, b, c, d, e, f>> \in Seq(Instruction)
OBVIOUS

\* The prologue and the epilogue are instructions.
LEMMA ProloguesTyped == Prologue \in Seq(Instruction) /\ Epilogue \in Seq(Instruction)
<1>1. Prologue \in Seq(Instruction)
  <2> DEFINE i1 == StoreTo(1, 1, -32, 4, TRUE)
             i2 == [op |-> "mflr", d |-> 0]
             i3 == StoreTo(0, 1, 8, 4, FALSE)
             i4 == StoreTo(14, 1, 12, 4, FALSE)
             i5 == StoreTo(15, 1, 16, 4, FALSE)
  <2>1. Prologue = <<i1, i2, i3, i4, i5>>
    BY DEF Prologue
  <2>2. /\ i1 \in Instruction /\ i2 \in Instruction /\ i3 \in Instruction
        /\ i4 \in Instruction /\ i5 \in Instruction
    BY StackLines
  <2> HIDE DEF i1, i2, i3, i4, i5
  <2> QED BY <2>1, <2>2, FiveLines
<1>2. Epilogue \in Seq(Instruction)
  <2> DEFINE i1 == [op |-> "load", d |-> 15, a |-> 1, imm |-> 16, size |-> 4]
             i2 == [op |-> "load", d |-> 14, a |-> 1, imm |-> 12, size |-> 4]
             i3 == [op |-> "load", d |-> 0, a |-> 1, imm |-> 8, size |-> 4]
             i4 == [op |-> "mtlr", d |-> 0]
             i5 == Immediate("addi", 1, 1, 32)
             i6 == [op |-> "blr"]
  <2>1. Epilogue = <<i1, i2, i3, i4, i5, i6>>
    BY DEF Epilogue
  <2>2. /\ i1 \in Instruction /\ i2 \in Instruction /\ i3 \in Instruction
        /\ i4 \in Instruction /\ i5 \in Instruction /\ i6 \in Instruction
    BY StackLines
  <2> HIDE DEF i1, i2, i3, i4, i5, i6
  <2> QED BY <2>1, <2>2, SixLines
<1> QED BY <1>1, <1>2

\* A handler that goes on with more instructions, and with the blocks that are open.
LEMMA HandlerKeepsText ==
  ASSUME TextInv, NEW s \in Extensions(Here), NEW blocks, Proceed(s, blocks),
         UNCHANGED <<list, open, dirty>>, pos' \in 0 .. Len(list)
  PROVE  TextInv'
BY ProceedTyped, TextGrows

\* Words and fields are numbers.
LEMMA Cuts ==
  /\ Word \subseteq Int /\ Field \subseteq Int
  /\ \A x \in Int : \A size : x % Values(size) \in Int
<1>1. ASSUME NEW x \in Int, NEW n \in Nat \ {0} PROVE x % n \in Int
  BY SMT
<1> QED BY <1>1, WidthsPositive DEF Word, Field, Values

\* 00 and 02.
LEMMA FillKeepsText ==
  ASSUME TextInv, Handle0002
  PROVE  TextInv'
<1> DEFINE call == [op |-> "memset", size |-> Code.size]
           s == CallWith(Here, Code.address, Code.value % Values(Code.size), Code.count, call)
<1>1. /\ Compiling({"fill"}) /\ Proceed(s, tail) /\ UNCHANGED <<list, open, dirty>>
  BY DEF Handle0002
<1>2. Code \in GeckoCode /\ Code.op = "fill" /\ pos' \in 0 .. Len(list)
  BY <1>1, CodeTyped DEF TextInv
<1>3. /\ Code.address \in Int /\ Code.value \in Int /\ Code.size \in {1, 2}
      /\ Code.count \in Int
  <2>1. /\ Code.address \in Word /\ Code.value \in Word /\ Code.size \in {1, 2}
        /\ Code.count \in Nat
    BY <1>2, OperandsTyped
  <2>2. \A n \in Nat : n \in Int
    OBVIOUS
  <2> QED BY <2>1, <2>2, Cuts, Zenon
<1>4. call \in Instruction
  BY <1>3 DEF Instruction
<1>5. Code.value % Values(Code.size) \in Int
  BY <1>3, Cuts
<1>6. Here \in Emission /\ Here \in Extensions(Here)
  BY ExtendsItself DEF TextInv
<1> HIDE DEF call
<1>7. s \in Extensions(Here)
  BY <1>3, <1>4, <1>5, <1>6, Calling
<1> HIDE DEF s
<1> QED BY <1>1, <1>2, <1>7, HandlerKeepsText

\* 06, of a long array and of a short one.
LEMMA CopyKeepsText ==
  ASSUME TextInv, Handle06, tail \in Nat
  PROVE  TextInv'
<1> DEFINE n == Len(Code.bytes)
           call == [op |-> "memcpy"]
           long == CallWith(Here, Code.address, Down - n, n, call)
           short == ArrayInline(Here, Code.address, Code.bytes)
<1>1. Compiling({"copy"}) /\ UNCHANGED <<list, open, dirty>>
  BY DEF Handle06
<1>2. Code \in GeckoCode /\ Code.op = "copy" /\ pos' \in 0 .. Len(list)
  BY <1>1, CodeTyped DEF TextInv
<1>3. Code.address \in Word /\ Code.address \in Int /\ Code.bytes \in Seq(0 .. Byte - 1)
  BY <1>2, OperandsTyped, Cuts
<1>4. n \in Int /\ Down - n \in Int
  BY <1>3, LenProperties, CompilerAssumption DEF Down
<1>5. call \in Instruction
  BY DEF Instruction
<1>6. Here \in Emission /\ Here \in Extensions(Here)
  BY ExtendsItself DEF TextInv
<1>7. \/ Proceed(long, tail + n)
      \/ Proceed(short, tail)
  BY DEF Handle06
<1> HIDE DEF call, n
<1>8. long \in Extensions(Here) /\ short \in Extensions(Here)
  BY <1>3, <1>4, <1>5, <1>6, Calling, WritingArray
<1> HIDE DEF long, short
<1> QED BY <1>1, <1>2, <1>7, <1>8, HandlerKeepsText

\* A bl is an instruction.
LEMMA BlTyped ==
  ASSUME NEW e \in Emission, NEW to \in Int
  PROVE  Bl(e, to) \in Instruction /\ MemoryBegin + 4 * Len(e.text) \in Int
<1>1. Len(e.text) \in Nat
  <2>1. e.text \in Seq(Line)
    BY DEF Emission
  <2> QED BY <2>1, LenProperties
<1>2. MemoryBegin + 4 * Len(e.text) \in Int
  BY <1>1, CompilerAssumption
<1>3. BranchTo(MemoryBegin + 4 * Len(e.text), to) \in Int
  BY <1>2, BranchReaches, Cuts
<1> QED BY <1>2, <1>3 DEF Bl, Instruction

\* C0.
LEMMA ExecuteKeepsText ==
  ASSUME TextInv, HandleC0, tail \in Nat
  PROVE  TextInv'
<1> DEFINE size == 8 * Code.routine.lines
           at == Down - size
           loaded == ImmediateLoad(Here, 15, at % Full)
           bl == Bl(loaded, at)
           s == Emit(loaded, <<bl>>)
<1>1. Compiling({"execute"}) /\ Proceed(s, tail + size) /\ UNCHANGED <<list, open, dirty>>
  BY DEF HandleC0
<1>2. Code \in GeckoCode /\ Code.op = "execute" /\ pos' \in 0 .. Len(list)
  BY <1>1, CodeTyped DEF TextInv
<1>3. Code.routine.lines \in Nat
  BY <1>2, OperandsTyped
<1>4. at \in Int
  BY <1>3, CompilerAssumption DEF Down
<1> HIDE DEF at
<1>5. at % Full \in Word /\ at % Full \in Int /\ 15 \in Register
  BY <1>4, CutFits, Cuts DEF Register
<1>6. Here \in Emission /\ Here \in Extensions(Here)
  BY ExtendsItself DEF TextInv
<1>7. loaded \in Extensions(Here)
  BY <1>5, <1>6, Loading
<1> HIDE DEF loaded
<1>8. bl \in Instruction
  <2>1. loaded \in Emission
    BY <1>7 DEF Extensions
  <2> QED BY <1>4, <2>1, BlTyped
<1> HIDE DEF bl
<1>9. s \in Extensions(Here)
  BY <1>6, <1>7, <1>8, Instructions, Emitting
<1> HIDE DEF s
<1> QED BY <1>1, <1>2, <1>9, HandlerKeepsText

\* Every step keeps the function in order.
LEMMA StepKeepsText ==
  ASSUME TextInv, tail \in Nat, [Next]_vars
  PROVE  TextInv'
<1>1. Here \in Emission /\ Here \in Extensions(Here) /\ Len(list) \in Nat
      /\ list \in Lists /\ pos \in 0 .. Len(list)
  <2>1. list \in Seq(GeckoCode)
    BY CompilerAssumption DEF TextInv
  <2> QED BY <2>1, ExtendsItself, LenProperties DEF TextInv
<1>2. CASE BeginCodeList
  <2>1. /\ Proceed(Emit(Here, Prologue), 0) /\ pos' \in 0 .. Len(list)
        /\ UNCHANGED <<list, open, dirty>>
    BY <1>1, <1>2 DEF BeginCodeList
  <2>2. Emit(Here, Prologue) \in Extensions(Here)
    BY <1>1, ProloguesTyped, Emitting
  <2> QED BY <2>1, <2>2, HandlerKeepsText
<1>3. CASE Handle0002
  BY <1>3, FillKeepsText
<1>4. CASE Handle04
  <2>1. /\ Compiling({"write"}) /\ Proceed(Store(Here, Code.address, Code.value, 4), tail)
        /\ UNCHANGED <<list, open, dirty>>
    BY <1>4 DEF Handle04
  <2>2. Code \in GeckoCode /\ Code.op = "write" /\ pos' \in 0 .. Len(list)
    BY <1>1, <2>1, CodeTyped
  <2>3. Code.address \in Word /\ Code.value \in Word
    BY <2>2, OperandsTyped
  <2>4. Store(Here, Code.address, Code.value, 4) \in Extensions(Here)
    BY <1>1, <2>3, Storing
  <2> QED BY <2>1, <2>2, <2>4, HandlerKeepsText
<1>5. CASE Handle06
  BY <1>5, CopyKeepsText
<1>6. CASE Handle08
  <2>1. /\ Compiling({"serial"}) /\ Proceed(SerialWrite(Here, Code), tail)
        /\ UNCHANGED <<list, open, dirty>>
    BY <1>6 DEF Handle08
  <2>2. Code \in GeckoCode /\ Code.op = "serial" /\ pos' \in 0 .. Len(list)
    BY <1>1, <2>1, CodeTyped
  <2>3. /\ Code.address \in Word /\ Code.value \in Word /\ Code.count \in Nat
        /\ Code.step \in Nat /\ Code.increment \in Word
    BY <2>2, OperandsTyped
  <2>4. SerialWrite(Here, Code) \in Extensions(Here)
    BY <1>1, <2>3, WritingSerially
  <2> QED BY <2>1, <2>2, <2>4, HandlerKeepsText
<1>7. CASE Handle2028
  BY <1>7, OpeningKeepsText
<1>8. CASE HandleC0
  BY <1>8, ExecuteKeepsText
<1>9. CASE HandleC2 \/ HandleC6
  <2>1. /\ \E ops : Compiling(ops)
        /\ \E blocks : Proceed(Here, blocks)
        /\ UNCHANGED <<list, open, dirty>>
    BY <1>9 DEF HandleC2, HandleC6
  <2>2. pos' \in 0 .. Len(list)
    BY <1>1, <2>1, CodeTyped
  <2> QED BY <1>1, <2>1, <2>2, HandlerKeepsText
<1>10. CASE HandleE0
  BY <1>10, ClosingKeepsText
<1>11. CASE Unmatched \/ Unknown
  <2>1. /\ \E ops : Compiling(ops)
        /\ text' = Here.text /\ known' = Here.known /\ phase' \in Phases
        /\ UNCHANGED <<list, open, dirty>>
    BY <1>11 DEF Unmatched, Unknown, Here, Phases
  <2>2. pos' \in 0 .. Len(list)
    BY <1>1, <2>1, CodeTyped
  <2> QED BY <1>1, <2>1, <2>2, TextGrows
<1>12. CASE EndCodeList
  <2> DEFINE s == Emit(Here, Epilogue)
  <2>1. s \in Extensions(Here) /\ s.known = Here.known
    BY <1>1, ProloguesTyped, Emitting
  <2>2. s.text = text \o Epilogue
    BY <1>1 DEF Emit, Here
  <2>3. /\ text' = s.text /\ known' = s.known /\ phase' \in Phases
        /\ pos' \in 0 .. Len(list) /\ UNCHANGED <<list, open, dirty>>
    BY <1>1, <1>12, <2>1, <2>2 DEF EndCodeList, Here, Phases
  <2> HIDE DEF s
  <2> QED BY <2>1, <2>3, TextGrows
<1>13. CASE UNCHANGED vars
  <2>1. /\ text' = Here.text /\ known' = Here.known /\ phase' \in Phases
        /\ pos' \in 0 .. Len(list) /\ UNCHANGED <<list, open, dirty>>
    BY <1>1, <1>13 DEF vars, Here, TextInv
  <2> QED BY <1>1, <2>1, TextGrows
<1> QED BY <1>2, <1>3, <1>4, <1>5, <1>6, <1>7, <1>8, <1>9, <1>10, <1>11, <1>12, <1>13 DEF Next

\* A compiler that has emitted nothing has nothing open.
LEMMA InitText == Init => TextInv
<1> SUFFICES ASSUME Init PROVE TextInv
  OBVIOUS
<1>1. list \in Seq(GeckoCode)
  BY CompilerAssumption DEF Init
<1>2. Len(list) \in Nat
  BY <1>1, LenProperties
<1>3. text = <<>> /\ known = <<>> /\ open = <<>> /\ DOMAIN text = {} /\ DOMAIN open = {}
  BY DEF Init
<1>4. Here \in Emission
  BY <1>3, NothingKnown DEF Here, Emission
<1>5. open \in Seq(DOMAIN text)
  BY <1>3
<1> QED BY <1>2, <1>3, <1>4, <1>5 DEF Init, TextInv, Phases

-----------------------------------------------------------------------------
(* The blocks and the hooks.                                               *)

\* The routines of the hooks are among the blocks.
HooksHaveBlocks == \A a \in DOMAIN game : game[a].inject => game[a].routine \in DOMAIN data

\* Neither property is inductive: a new block misses the old ones because those lie
\* above the end of the memory that is still free, and a hook's block is one of them
\* to which nothing happens any more.
BlockInv ==
  /\ list \in Lists /\ pos \in Nat /\ tail \in Nat
  /\ \A a \in DOMAIN data : a \in Int /\ data[a].size \in Nat \ {0} /\ Down <= a
  /\ BlocksApart
  /\ AlignedArrays => tail % 4 = 0
  /\ HooksReturn /\ HooksHaveBlocks
  /\ phase = "begin" => tail = 0

\* A branch over a whole number of words that are not too many leads where it is meant
\* to, without the lowest bit of its target.
LEMMA ClippedExact ==
  ASSUME NEW from \in Int, NEW to \in Int, NEW bit \in {0, 1}, (to - from) % 4 = 0,
         InReach(from, to)
  PROVE  Clipped(from, to + bit) = to % Full
<1>1. (to + bit - from) \div 4 = (to - from) \div 4
  OBVIOUS
<1>2. ((to - from) \div 4) * 4 = to - from
  OBVIOUS
<1>3. Clipped(from, to + bit) = BranchTo(from, from + (to - from))
  BY <1>1, <1>2 DEF Clipped
<1>4. from + (to - from) = to
  OBVIOUS
<1> QED BY <1>3, <1>4, BranchReaches

\* The code a handler is called for, with what lists hold of it.
LEMMA CodeOfList ==
  ASSUME BlockInv, NEW ops, Compiling(ops)
  PROVE  /\ pos' \in Nat /\ Code.op \in ops /\ pos + 1 \in DOMAIN list
         /\ Code.op \in {"execute", "inject"} => Code.routine.lines \in Nat \ {0}
         /\ Code.op = "inject" =>
              /\ Code.address \in Nat /\ Code.address % 4 = 0
              /\ Code.link \in BOOLEAN
         /\ Code.op = "copy" => Len(Code.bytes) \in Nat
<1>1. list \in Lists /\ list \in Seq(GeckoCode) /\ pos \in Nat /\ pos < Len(list)
      /\ pos' = pos + 1 /\ Code.op \in ops
  BY CompilerAssumption DEF BlockInv, Compiling
<1>2. Len(list) \in Nat /\ pos \in 0 .. Len(list) /\ pos' \in Nat
  BY <1>1, LenProperties
<1>3. Code \in GeckoCode /\ pos + 1 \in DOMAIN list
  BY <1>1, <1>2, CodeTyped
<1>4. /\ Code.op \in {"execute", "inject"} => Code.routine.lines \in Nat \ {0}
      /\ Code.op = "inject" => Code.address \in Word /\ Code.link \in BOOLEAN
      /\ Code.op = "copy" => Code.bytes \in Seq(0 .. Byte - 1)
  BY <1>3, OperandsTyped
<1>5. Code.op = "inject" => Code.address \in Nat /\ Code.address % 4 = 0
  <2>1. Code.address \in Word => Code.address \in Nat
    BY WidthsPositive DEF Word
  <2>2. Code.op = "inject" => Code.address % 4 = 0
    BY <1>1, <1>3, CompilerAssumption DEF Code
  <2> QED BY <1>4, <2>1, <2>2
<1>6. Code.op = "copy" => Len(Code.bytes) \in Nat
  <2> DEFINE bytes == Code.bytes
  <2>1. bytes \in Seq(0 .. Byte - 1) => Len(bytes) \in Nat
    BY LenProperties
  <2> QED BY <1>4, <2>1
<1> QED BY <1>1, <1>2, <1>3, <1>4, <1>5, <1>6

\* The memory's end is fixed: taking `size` bytes moves the free end down by them.
LEMMA DownMoves ==
  ASSUME NEW size \in Nat, tail \in Nat, tail' = tail + size
  PROVE  Down \in Int /\ Down' = Down - size
<1>1. MemoryBegin \in Nat /\ MemorySize \in Nat
  BY CompilerAssumption
<1> QED BY <1>1 DEF Down

\* A block of any positive size put at the end of the free memory is apart from all
\* blocks that are there, and moves none of them.
LEMMA PlacingKeepsApart ==
  ASSUME BlockInv, NEW size \in Nat \ {0}, NEW block, block.size = size,
         tail' = tail + size, data' = With(data, Down - size, block)
  PROVE  /\ Down - size \in Int /\ Down' = Down - size
         /\ Down - size \notin DOMAIN data
         /\ DOMAIN data' = DOMAIN data \cup {Down - size}
         /\ data'[Down - size] = block
         /\ \A a \in DOMAIN data : data'[a] = data[a]
         /\ \A a \in DOMAIN data' : a \in Int /\ data'[a].size \in Nat \ {0} /\ Down' <= a
         /\ BlocksApart'
<1>1. Down \in Int /\ Down' = Down - size
  BY DownMoves DEF BlockInv
<1> DEFINE at == Down - size
<1>2. at \in Int /\ at < Down /\ at + size = Down /\ Down' = at
  BY <1>1
<1>3. at \notin DOMAIN data
  BY <1>1, <1>2 DEF BlockInv
<1>4. /\ DOMAIN data' = DOMAIN data \cup {at} /\ data'[at] = block
      /\ \A a \in DOMAIN data : data'[a] = data[a]
  BY <1>3 DEF With
<1>5. \A a \in DOMAIN data : a \in Int /\ data[a].size \in Nat \ {0} /\ Down <= a
  BY DEF BlockInv
<1>6. \A a, b \in DOMAIN data : a < b => a + data[a].size <= b
  BY DEF BlockInv, BlocksApart
<1> HIDE DEF at
<1>7. ASSUME NEW a \in DOMAIN data'
      PROVE  a \in Int /\ data'[a].size \in Nat \ {0} /\ at <= a
  BY <1>1, <1>2, <1>4, <1>5
<1>8. ASSUME NEW a \in DOMAIN data', NEW b \in DOMAIN data', a < b
      PROVE  a + data'[a].size <= b
  <2>1. CASE a = at
    <3>1. b \in DOMAIN data
      BY <1>2, <1>4, <1>8, <2>1
    <3>2. b \in Int /\ Down <= b
      BY <1>5, <3>1
    <3> QED BY <1>1, <1>2, <1>4, <2>1, <3>2
  <2>2. CASE a # at
    <3>1. a \in DOMAIN data /\ b \in Int /\ a \in Int /\ Down <= a
      BY <1>4, <1>5, <1>7, <2>2
    <3>2. b \in DOMAIN data
      BY <1>1, <1>2, <1>4, <1>8, <3>1
    <3> QED BY <1>4, <1>6, <1>8, <3>1, <3>2
  <2> QED BY <2>1, <2>2
<1> QED BY <1>2, <1>3, <1>4, <1>7, <1>8 DEF BlocksApart, at

\* A step that takes no memory and hooks nothing new disturbs neither property.
LEMMA BlocksUndisturbed ==
  ASSUME BlockInv, UNCHANGED <<list, tail, data, game>>, pos' \in Nat,
         phase' = "begin" => phase = "begin"
  PROVE  BlockInv'
<1>1. Down' = Down /\ (AlignedArrays' <=> AlignedArrays)
  BY DEF Down, AlignedArrays
<1>2. BlocksApart' /\ HooksReturn' /\ HooksHaveBlocks'
  BY DEF BlockInv, BlocksApart, HooksReturn, HooksHaveBlocks
<1> QED BY <1>1, <1>2 DEF BlockInv

\* What HooksReturn asks of a hook at a whose branch leads to `target` and whose block
\* is at `at` and has `size` bytes and the branch to `back`.
Leads(a, target, at, size, back) ==
  at % 4 = 0 => /\ InReach(a, at) => target = at % Full
                /\ InReach(at + size - 4, a + 4) => back = (a + 4) % Full

\* Hooks placed earlier still return when a block is added.
LEMMA OldHooksReturn ==
  ASSUME HooksReturn, HooksHaveBlocks, NEW a \in DOMAIN game, game[a].inject,
         DOMAIN data \subseteq DOMAIN data', \A b \in DOMAIN data : data'[b] = data[b]
  PROVE  /\ game[a].routine \in DOMAIN data'
         /\ Leads(a, game[a].target, game[a].routine, data'[game[a].routine].size,
                  data'[game[a].routine].back)
<1>1. game[a].routine \in DOMAIN data
  BY DEF HooksHaveBlocks
<1>2. data'[game[a].routine] = data[game[a].routine]
  BY <1>1
<1> QED BY <1>1, <1>2 DEF HooksReturn, Leads

\* An array that is copied, or a routine that is called.
LEMMA BlockOnly ==
  ASSUME BlockInv, NEW size \in Nat \ {0}, NEW block, block.size = size,
         tail' = tail + size, data' = With(data, Down - size, block),
         UNCHANGED <<list, game>>, pos' \in Nat, phase' # "begin",
         AlignedArrays => size % 4 = 0
  PROVE  BlockInv'
<1>1. AlignedArrays' <=> AlignedArrays
  BY DEF AlignedArrays
<1>2. /\ \A a \in DOMAIN data' : a \in Int /\ data'[a].size \in Nat \ {0} /\ Down' <= a
      /\ BlocksApart'
      /\ DOMAIN data \subseteq DOMAIN data' /\ \A a \in DOMAIN data : data'[a] = data[a]
  BY PlacingKeepsApart
<1>3. tail' \in Nat /\ (AlignedArrays => tail' % 4 = 0)
  BY DEF BlockInv
<1>4. HooksReturn' /\ HooksHaveBlocks'
  <2>1. ASSUME NEW a \in DOMAIN game, game[a].inject
        PROVE  /\ game[a].routine \in DOMAIN data'
               /\ Leads(a, game[a].target, game[a].routine, data'[game[a].routine].size,
                        data'[game[a].routine].back)
    BY <1>2, <2>1, OldHooksReturn DEF BlockInv
  <2> QED BY <2>1 DEF HooksReturn, HooksHaveBlocks, Leads
<1> QED BY <1>1, <1>2, <1>3, <1>4 DEF BlockInv

\* A routine that is hooked: the way there and the way back are whole words, when the
\* end of the free memory is aligned, and the link bit is cut off.
LEMMA HookKeepsBlocks ==
  ASSUME BlockInv, HandleC2
  PROVE  BlockInv'
<1> DEFINE size == 8 * Code.routine.lines
           at   == Down - size
           link == IF Code.link THEN 1 ELSE 0
           back == Clipped(at + size - 4, Code.address + link + 4)
           block == [Routine(Code.routine) EXCEPT !.back = back]
           hook == [target |-> Clipped(Code.address, at), link |-> Code.link,
                    inject |-> TRUE, routine |-> at]
<1>1. /\ Compiling({"inject"}) /\ data' = With(data, at, block)
      /\ game' = With(game, Code.address, hook)
      /\ tail' = tail + size /\ UNCHANGED list /\ phase' # "begin"
  BY DEF HandleC2, Proceed
<1>2. /\ pos' \in Nat /\ Code.routine.lines \in Nat \ {0}
      /\ Code.address \in Nat /\ Code.address % 4 = 0
  BY <1>1, CodeOfList
<1>3. size \in Nat \ {0} /\ size % 4 = 0
  BY <1>2
<1>4. block.size = size /\ block.back = back
  BY DEF Routine
<1>5. link \in {0, 1}
  OBVIOUS
<1>6. /\ MemoryBegin \in Nat /\ MemorySize \in Nat /\ (MemoryBegin + MemorySize) % 4 = 0
      /\ tail \in Nat /\ (AlignedArrays => tail % 4 = 0)
  BY CompilerAssumption DEF BlockInv
<1>7. AlignedArrays' <=> AlignedArrays
  BY <1>1 DEF AlignedArrays
<1> HIDE DEF size, link, block
<1> DEFINE top == MemoryBegin + MemorySize
<1>8. /\ top \in Int /\ top % 4 = 0
      /\ at = top - tail - size
  BY <1>3, <1>6 DEF Down
<1> HIDE DEF top
<1>9. /\ \A a \in DOMAIN data' : a \in Int /\ data'[a].size \in Nat \ {0} /\ Down' <= a
      /\ BlocksApart' /\ at \in Int
      /\ DOMAIN data \subseteq DOMAIN data' /\ \A a \in DOMAIN data : data'[a] = data[a]
      /\ at \in DOMAIN data' /\ data'[at] = block
  BY <1>1, <1>3, <1>4, PlacingKeepsApart
<1>10. tail' \in Nat /\ (AlignedArrays => tail' % 4 = 0)
  BY <1>1, <1>3, <1>6
<1> HIDE DEF at
<1>11. Leads(Code.address, hook.target, at, size, back)
  <2> SUFFICES ASSUME at % 4 = 0
               PROVE  /\ InReach(Code.address, at) => hook.target = at % Full
                      /\ InReach(at + size - 4, Code.address + 4) =>
                           back = (Code.address + 4) % Full
    BY DEF Leads
  <2>2. InReach(Code.address, at) => Clipped(Code.address, at + 0) = at % Full
    <3> DEFINE from == Code.address
    <3>1. from \in Int /\ at \in Int /\ (at - from) % 4 = 0 /\ 0 \in {0, 1}
      BY <1>2, <1>9
    <3> HIDE DEF from
    <3>2. InReach(from, at) => Clipped(from, at + 0) = at % Full
      BY <3>1, ClippedExact, Zenon
    <3> QED BY <3>2 DEF from
  <2>3. (at + size - 4) \in Int /\ (at + size - 4) % 4 = 0
    BY <1>3, <1>9
  <2>4. (Code.address + 4) \in Int /\ (Code.address + 4) % 4 = 0
    BY <1>2
  <2>5. InReach(at + size - 4, Code.address + 4) =>
          Clipped(at + size - 4, Code.address + 4 + link) = (Code.address + 4) % Full
    <3>1. ((Code.address + 4) - (at + size - 4)) % 4 = 0
      BY <2>3, <2>4
    <3> QED BY <1>5, <2>3, <2>4, <3>1, ClippedExact
  <2>6. Code.address + link + 4 = Code.address + 4 + link /\ at + 0 = at
    BY <1>2, <1>5, <1>9
  <2> QED BY <2>2, <2>5, <2>6
<1>12. hook.routine = at /\ hook.inject
  OBVIOUS
<1> HIDE DEF hook, back
<1>13. HooksReturn' /\ HooksHaveBlocks'
  <2>3. ASSUME NEW a \in DOMAIN game', game'[a].inject
        PROVE  /\ game'[a].routine \in DOMAIN data'
               /\ Leads(a, game'[a].target, game'[a].routine, data'[game'[a].routine].size,
                        data'[game'[a].routine].back)
    <3>1. CASE a = Code.address
      <4>1. game'[a] = hook
        BY <1>1, <3>1 DEF With
      <4> QED BY <1>4, <1>9, <1>11, <1>12, <3>1, <4>1
    <3>2. CASE a # Code.address
      <4>1. a \in DOMAIN game /\ game'[a] = game[a]
        BY <1>1, <2>3, <3>2 DEF With
      <4> QED BY <1>9, <2>3, <4>1, OldHooksReturn DEF BlockInv
    <3> QED BY <3>1, <3>2
  <2> QED BY <2>3 DEF HooksReturn, HooksHaveBlocks, Leads
<1> QED BY <1>1, <1>2, <1>7, <1>9, <1>10, <1>13 DEF BlockInv

\* An array that is long goes behind the function's back.
LEMMA CopyKeepsBlocks ==
  ASSUME BlockInv, Handle06
  PROVE  BlockInv'
<1> DEFINE n == Len(Code.bytes)
           block == [size |-> n, bytes |-> Code.bytes]
<1>1. Compiling({"copy"}) /\ UNCHANGED <<list, game>> /\ phase' # "begin"
  BY DEF Handle06, Proceed
<1>2. pos' \in Nat /\ Code.op = "copy" /\ n \in Nat /\ pos + 1 \in DOMAIN list
  BY <1>1, CodeOfList
<1>3. CASE n > CopyInline
  <2>1. data' = With(data, Down - n, block) /\ tail' = tail + n
    BY <1>3 DEF Handle06, Proceed
  <2> HIDE DEF n
  <2>2. AlignedArrays => n % 4 = 0
    <3>1. AlignedArrays => n % 4 = 0 \/ n <= CopyInline
      BY <1>2 DEF AlignedArrays, Code, n
    <3> QED BY <1>2, <1>3, <3>1, CompilerAssumption
  <2>3. n \in Nat \ {0}
    BY <1>2, <1>3, CompilerAssumption
  <2>4. block.size = n
    OBVIOUS
  <2> HIDE DEF block
  <2> QED BY <1>1, <1>2, <2>1, <2>2, <2>3, <2>4, BlockOnly
<1>4. CASE ~ (n > CopyInline)
  <2>1. UNCHANGED <<data, tail>>
    BY <1>4 DEF Handle06, Proceed
  <2> QED BY <1>1, <1>2, <2>1, BlocksUndisturbed
<1> QED BY <1>3, <1>4

\* A routine that is called.
LEMMA ExecuteKeepsBlocks ==
  ASSUME BlockInv, HandleC0
  PROVE  BlockInv'
<1> DEFINE size == 8 * Code.routine.lines
           block == Routine(Code.routine)
<1>1. /\ Compiling({"execute"}) /\ UNCHANGED <<list, game>>
      /\ data' = With(data, Down - size, block) /\ tail' = tail + size
      /\ phase' # "begin"
  BY DEF HandleC0, Proceed
<1>2. pos' \in Nat /\ Code.routine.lines \in Nat \ {0}
  BY <1>1, CodeOfList
<1>3. size \in Nat \ {0} /\ size % 4 = 0 /\ block.size = size
  BY <1>2 DEF Routine
<1> HIDE DEF size, block
<1> QED BY <1>1, <1>2, <1>3, BlockOnly

\* Every step preserves the invariant.  A branch that C6 or C8 writes is not one to a
\* routine, but it may replace one.
LEMMA StepKeepsBlocks ==
  ASSUME BlockInv, [Next]_vars
  PROVE  BlockInv'
<1>1. CASE BeginCodeList
  <2>1. UNCHANGED <<list, pos, tail, data, game>> /\ phase' # "begin"
    BY <1>1 DEF BeginCodeList, Proceed, BlockInv
  <2> QED BY <2>1, BlocksUndisturbed DEF BlockInv
<1>2. CASE Handle0002 \/ Handle04 \/ Handle08 \/ Handle2028
  <2>1. UNCHANGED <<list, tail, data, game>> /\ phase' # "begin"
    BY <1>2 DEF Handle0002, Handle04, Handle08, Handle2028, Proceed
  <2>2. pos' \in Nat
    BY <1>2, CodeOfList DEF Handle0002, Handle04, Handle08, Handle2028
  <2> QED BY <2>1, <2>2, BlocksUndisturbed
<1>3. CASE Handle06
  BY <1>3, CopyKeepsBlocks
<1>4. CASE HandleC0
  BY <1>4, ExecuteKeepsBlocks
<1>5. CASE HandleC2
  BY <1>5, HookKeepsBlocks
<1>6. CASE HandleC6
  <2> DEFINE branch == [target |-> Clipped(Code.address, Code.target), link |-> Code.link,
                        inject |-> FALSE]
  <2>1. /\ UNCHANGED <<list, tail, data>> /\ phase' # "begin"
        /\ game' = With(game, Code.address, branch) /\ Compiling({"branch"})
    BY <1>6 DEF HandleC6, Proceed
  <2>2. pos' \in Nat
    BY <2>1, CodeOfList
  <2>3. ~ branch.inject
    OBVIOUS
  <2> HIDE DEF branch
  <2>4. \A a \in DOMAIN game' : game'[a].inject => a \in DOMAIN game /\ game'[a] = game[a]
    BY <2>1, <2>3 DEF With
  <2>5. Down' = Down /\ (AlignedArrays' <=> AlignedArrays)
    BY <2>1 DEF Down, AlignedArrays
  <2>6. BlocksApart' /\ HooksReturn' /\ HooksHaveBlocks'
    BY <2>1, <2>4, <2>5 DEF BlockInv, BlocksApart, HooksReturn, HooksHaveBlocks
  <2> QED BY <2>1, <2>2, <2>5, <2>6 DEF BlockInv
<1>7. CASE HandleE0 \/ Unmatched
  <2>1. UNCHANGED <<list, tail, data, game>> /\ phase' # "begin"
    BY <1>7 DEF HandleE0, Unmatched, Proceed
  <2>2. pos' \in Nat
    BY <1>7, CodeOfList DEF HandleE0, Unmatched
  <2> QED BY <2>1, <2>2, BlocksUndisturbed
<1>8. CASE Unknown
  <2>1. UNCHANGED <<list, tail, data, game>> /\ phase' # "begin" /\ pos' \in Nat
    BY <1>8, CodeOfList DEF Unknown
  <2> QED BY <2>1, BlocksUndisturbed
<1>9. CASE EndCodeList
  <2>1. UNCHANGED <<list, pos, tail, data, game>> /\ phase' # "begin"
    BY <1>9 DEF EndCodeList
  <2> QED BY <2>1, BlocksUndisturbed DEF BlockInv
<1>10. CASE UNCHANGED vars
  BY <1>10, BlocksUndisturbed DEF vars, BlockInv
<1> QED BY <1>1, <1>2, <1>3, <1>4, <1>5, <1>6, <1>7, <1>8, <1>9, <1>10 DEF Next

\* Nothing is placed or hooked when a list is begun.
LEMMA InitBlocks == Init => BlockInv
BY DEF Init, BlockInv, BlocksApart, HooksReturn, HooksHaveBlocks

\* However long the list, the arrays and routines it leaves behind the function do not
\* share a byte (GeckoCompiler!BlocksApart).
THEOREM BlocksNeverOverlap == Spec => []BlocksApart
<1>1. BlockInv => BlocksApart
  BY DEF BlockInv
<1> QED BY <1>1, InitBlocks, StepKeepsBlocks, PTL DEF Spec

\* Every hook in the game leads to its routine, and the routine back behind the hooked
\* instruction, each when the way is in the reach of a branch and the routine begins
\* at a word (GeckoCompiler!HooksReturn).
THEOREM HooksAlwaysReturn == Spec => []HooksReturn
<1>1. BlockInv => HooksReturn
  BY DEF BlockInv
<1> QED BY <1>1, InitBlocks, StepKeepsBlocks, PTL DEF Spec

\* The blocks that are open are those whose branches have not been filled in, in every
\* state of the compilation of every list (GeckoCompiler!PlaceholdersAreOpen): no
\* block's branch is left as it was found in memory, none is filled in twice.
THEOREM PlaceholdersNameOpenBlocks == Spec => []PlaceholdersAreOpen
<1>1. TextInv => PlaceholdersAreOpen
  BY DEF TextInv, PlaceholdersAreOpen, Range
<1>2. TextInv /\ BlockInv /\ [Next]_vars => TextInv'
  BY StepKeepsText DEF BlockInv
<1> QED BY <1>1, <1>2, InitText, InitBlocks, StepKeepsBlocks, PTL DEF Spec

\* The types of the compiler's state, above all that every operand fits the field of
\* its instruction and every value that is known of a register fits it
\* (GeckoCompiler!TypeOK).
THEOREM TypeCorrect == Spec => []TypeOK
<1>1. TextInv /\ BlockInv => TypeOK
  <2> SUFFICES ASSUME TextInv, BlockInv PROVE TypeOK
    OBVIOUS
  <2>1. text \in Seq(Line) /\ known \in Knowledge
    BY DEF TextInv, Emission, Here
  <2>2. DOMAIN known \subseteq {14, 15} /\ \A r \in DOMAIN known : known[r] \in Word
    BY <2>1 DEF Knowledge
  <2>3. \A i \in DOMAIN open : open[i] \in DOMAIN text
    BY LenProperties DEF TextInv
  <2>4. tail \in Nat /\ MemoryBegin \in Nat /\ MemorySize \in Nat
    BY CompilerAssumption DEF BlockInv
  <2>5. \A a \in DOMAIN data : data[a].size > 0 /\ a >= Down
    BY <2>4 DEF BlockInv, Down
  <2> QED BY <2>1, <2>2, <2>3, <2>5 DEF TypeOK, TextInv, Line, Phases
<1>2. TextInv /\ BlockInv /\ [Next]_vars => TextInv'
  BY StepKeepsText DEF BlockInv
<1> QED BY <1>1, <1>2, InitText, InitBlocks, StepKeepsBlocks, PTL DEF Spec

-----------------------------------------------------------------------------
(* Bits.                                                                   *)

-----------------------------------------------------------------------------
(* The processor.                                                          *)

\* One bit after the other.
LEMMA BitByBit ==
  /\ \A a \in Nat : And(a, 0) = 0
  /\ \A a \in Nat, b \in Nat \ {0} :
       And(a, b) = (a % 2) * (b % 2) + 2 * And(a \div 2, b \div 2)
  /\ \A a, b \in Nat : And(a, b) \in Nat
<1> DEFINE S == [Nat -> Nat]
           none == [a \in Nat |-> 0]
           bits(b, g) == [a \in Nat |-> (a % 2) * (b % 2) + 2 * g[a \div 2]]
           step == [b \in Nat |-> [g \in S |-> bits(b, g)]]
           next == [b \in Nat |-> b \div 2]
           whole(f) == f = [b \in Nat |-> IF b = 0 THEN none ELSE bits(b, f[b \div 2])]
<1>1. ASSUME NEW n \in Nat
      PROVE  n % 2 \in {0, 1} /\ n \div 2 \in Nat /\ (n # 0 => n \div 2 < n)
  BY SMT
<1>2. ASSUME NEW b \in Nat, NEW g \in S PROVE bits(b, g) \in S
  <2>1. ASSUME NEW a \in Nat PROVE (a % 2) * (b % 2) + 2 * g[a \div 2] \in Nat
    <3>1. a \div 2 \in Nat /\ a % 2 \in {0, 1} /\ b % 2 \in {0, 1} /\ g[a \div 2] \in Nat
      BY <1>1
    <3>2. (a % 2) * (b % 2) \in Nat
      BY <3>1
    <3> QED BY <3>1, <3>2
  <2> QED BY <2>1
<1>3. none \in S
  OBVIOUS
<1>4. step \in [Nat -> [S -> S]] /\ next \in [Nat -> Nat] /\ \A b \in Nat \ {0} : next[b] < b
  <2>1. step \in [Nat -> [S -> S]]
    <3> HIDE DEF S, bits
    <3> QED BY <1>2
  <2> QED BY <1>1, <2>1
<1> HIDE DEF S, bits, none
<1>5. PICK f : Descends(f, S, none, step, next)
  <2> HIDE DEF step, next
  <2> QED BY <1>3, <1>4, Descending
<1>6. f \in [Nat -> S] /\ f = [b \in Nat |-> IF b = 0 THEN none ELSE step[b][f[next[b]]]]
  BY <1>5 DEF Descends
<1>7. ASSUME NEW b \in Nat PROVE step[b][f[next[b]]] = bits(b, f[b \div 2])
  <2>1. b \div 2 \in Nat /\ f[b \div 2] \in S
    BY <1>1, <1>6
  <2> QED BY <2>1
<1> HIDE DEF step, next
<1>8. whole(f)
  BY <1>6, <1>7
<1>9. Shared = CHOOSE g : whole(g)
  BY DEF Shared, bits, none
<1>10. whole(Shared)
  BY <1>8, <1>9
<1>11. ASSUME NEW b \in Nat PROVE Shared[b] \in S
  <2> DEFINE Bad == {n \in Nat : Shared[n] \notin S}
  <2>1. Bad = {}
    <3> SUFFICES ASSUME Bad # {} PROVE FALSE
      OBVIOUS
    <3>1. PICK n \in Bad : \A j \in Bad : n <= j
      BY LeastNumber
    <3>2. n # 0
      BY <1>3, <1>10, <3>1
    <3>3. n \in Nat /\ n \div 2 \in Nat /\ ~ (n <= n \div 2)
      BY <1>1, <3>1, <3>2
    <3>4. Shared[n \div 2] \in S
      BY <3>1, <3>3
    <3>5. Shared[n] = bits(n, Shared[n \div 2])
      BY <1>10, <3>2, <3>3
    <3> QED BY <1>2, <3>1, <3>3, <3>4, <3>5
  <2> QED BY <2>1
<1>12. \A a \in Nat : And(a, 0) = 0
  BY <1>10 DEF And, none
<1>13. ASSUME NEW a \in Nat, NEW b \in Nat \ {0}
       PROVE  And(a, b) = (a % 2) * (b % 2) + 2 * And(a \div 2, b \div 2)
  <2>1. Shared[b] = bits(b, Shared[b \div 2])
    BY <1>10
  <2> QED BY <2>1 DEF And, bits
<1>14. \A a, b \in Nat : And(a, b) \in Nat
  BY <1>11 DEF And, S
<1> QED BY <1>12, <1>13, <1>14

\* What two numbers share is no more than either has.
LEMMA SharedFits ==
  ASSUME NEW a \in Nat, NEW b \in Nat
  PROVE  And(a, b) \in Nat /\ And(a, b) <= a
<1> DEFINE Bad == {n \in Nat : \E m \in Nat : ~ And(m, n) <= m}
<1>1. Bad = {}
  <2> SUFFICES ASSUME Bad # {} PROVE FALSE
    OBVIOUS
  <2>1. PICK n \in Bad : \A j \in Bad : n <= j
    BY LeastNumber
  <2>2. PICK m \in Nat : ~ And(m, n) <= m
    BY <2>1
  <2>3. n # 0
    BY <2>2, BitByBit
  <2>4. n \in Nat \ {0} /\ n \div 2 \in Nat /\ m \div 2 \in Nat /\ ~ (n <= n \div 2)
    BY <2>1, <2>3, SMT
  <2>5. And(m \div 2, n \div 2) <= m \div 2
    BY <2>1, <2>4
  <2>6. And(m, n) = (m % 2) * (n % 2) + 2 * And(m \div 2, n \div 2)
        /\ And(m \div 2, n \div 2) \in Nat
    BY <2>4, BitByBit
  <2>7. n % 2 \in {0, 1} /\ m % 2 \in {0, 1} /\ m = 2 * (m \div 2) + (m % 2)
    BY <2>4, SMT
  <2>8. (m % 2) * (n % 2) <= m % 2 /\ (m % 2) * (n % 2) \in Nat
    BY <2>7
  <2> QED BY <2>2, <2>4, <2>5, <2>6, <2>7, <2>8
<1> QED BY <1>1, BitByBit

\* A halfword and a multiple of the halfwords share nothing.
LEMMA HalvesShareNothing ==
  ASSUME NEW h \in Nat, NEW l \in Nat, l < 65536
  PROVE  And(h * 65536, l) = 0
<1> DEFINE Apart2(p) == \A x \in Nat : x < p => And(h * p, x) = 0
<1>1. ASSUME NEW p \in Nat, Apart2(p)
      PROVE  Apart2(2 * p)
  <2> SUFFICES ASSUME NEW x \in Nat, x < 2 * p PROVE And(h * (2 * p), x) = 0
    OBVIOUS
  <2> DEFINE y == h * p
  <2>1. y \in Nat /\ h * (2 * p) = 2 * y
    BY SMT
  <2> HIDE DEF y
  <2>2. (2 * y) % 2 = 0 /\ (2 * y) \div 2 = y /\ x \div 2 \in Nat /\ x \div 2 < p /\ 2 * y \in Nat
        /\ x % 2 \in Int
    BY <2>1, SMT
  <2>3. And(y, x \div 2) = 0
    BY <1>1, <2>2 DEF y
  <2>4. CASE x = 0
    BY <2>1, <2>2, <2>4, BitByBit
  <2>5. CASE x # 0
    <3>1. And(2 * y, x) = ((2 * y) % 2) * (x % 2) + 2 * And((2 * y) \div 2, x \div 2)
      BY <2>2, <2>5, BitByBit
    <3> QED BY <2>1, <2>2, <2>3, <3>1
  <2> QED BY <2>4, <2>5
<1>2. Apart2(1)
  <2>1. \A x \in Nat : x < 1 => x = 0
    OBVIOUS
  <2>2. h * 1 \in Nat
    OBVIOUS
  <2> QED BY <2>1, <2>2, BitByBit
<1> HIDE DEF Apart2
<1>3. Apart2(2) /\ Apart2(4) /\ Apart2(8) /\ Apart2(16)
  <2>1. Apart2(2 * 1)
    BY <1>1, <1>2
  <2>2. Apart2(2 * 2)
    BY <1>1, <2>1
  <2>3. Apart2(2 * 4)
    BY <1>1, <2>2
  <2>4. Apart2(2 * 8)
    BY <1>1, <2>3
  <2> QED BY <2>1, <2>2, <2>3, <2>4
<1>4. Apart2(32) /\ Apart2(64) /\ Apart2(128) /\ Apart2(256)
  <2>1. Apart2(2 * 16)
    BY <1>1, <1>3
  <2>2. Apart2(2 * 32)
    BY <1>1, <2>1
  <2>3. Apart2(2 * 64)
    BY <1>1, <2>2
  <2>4. Apart2(2 * 128)
    BY <1>1, <2>3
  <2> QED BY <2>1, <2>2, <2>3, <2>4
<1>5. Apart2(512) /\ Apart2(1024) /\ Apart2(2048) /\ Apart2(4096)
  <2>1. Apart2(2 * 256)
    BY <1>1, <1>4
  <2>2. Apart2(2 * 512)
    BY <1>1, <2>1
  <2>3. Apart2(2 * 1024)
    BY <1>1, <2>2
  <2>4. Apart2(2 * 2048)
    BY <1>1, <2>3
  <2> QED BY <2>1, <2>2, <2>3, <2>4
<1>6. Apart2(8192) /\ Apart2(16384) /\ Apart2(32768) /\ Apart2(65536)
  <2>1. Apart2(2 * 4096)
    BY <1>1, <1>5
  <2>2. Apart2(2 * 8192)
    BY <1>1, <2>1
  <2>3. Apart2(2 * 16384)
    BY <1>1, <2>2
  <2>4. Apart2(2 * 32768)
    BY <1>1, <2>3
  <2> QED BY <2>1, <2>2, <2>3, <2>4
<1> QED BY <1>6 DEF Apart2

-----------------------------------------------------------------------------
(* Machines, and the instructions that take one machine to another.        *)

\* The widths as they are.
RealBytes == Byte = 256

\* The widths and bounds as numbers.
LEMMA RealWords ==
  ASSUME RealBytes
  PROVE  /\ Half = 65536 /\ Full = 65536 * 65536 /\ Half \div 2 = 32768
         /\ Full \div 2 = 32768 * 65536
         /\ \A v : v \in Word <=> v \in Nat /\ v < 65536 * 65536
         /\ \A v : v \in Field <=> v \in Nat /\ v < 65536
<1>1. Half = 65536 /\ Full = 65536 * 65536
  BY SMT DEF RealBytes, Half, Full
<1>2. Half \div 2 = 32768 /\ Full \div 2 = 32768 * 65536
  BY <1>1, SMT
<1>3. \A n \in Nat \ {0} : \A v : v \in 0 .. n - 1 <=> v \in Nat /\ v < n
  OBVIOUS
<1>4. Full \in Nat \ {0} /\ Half \in Nat \ {0}
  BY WidthsPositive
<1>5. /\ \A v : v \in Word <=> v \in Nat /\ v < Full
      /\ \A v : v \in Field <=> v \in Nat /\ v < Half
  BY <1>3, <1>4 DEF Word, Field
<1> QED BY <1>1, <1>2, <1>5

\* A machine that runs: nothing is skipped, and nothing has gone wrong.  A is where it
\* has memory.
Registers == {0, 1, 3, 4, 5, 14, 15, Lr}
Machines(A) ==
  [memory : [A -> 0 .. Byte - 1], reg : [Registers -> Word], equal : BOOLEAN, skip : {0},
   ok : {TRUE}]

\* The instructions of F behind the first i take the machine from s to t in j.
Reaches(F, D, i, s, j, t) ==
  \E R : R[i] = s /\ R[j] = t /\ \A n \in i + 1 .. j : R[n] = Execute(R[n - 1], F[n], D)

\* No instruction at all.
LEMMA Staying ==
  ASSUME NEW F, NEW D, NEW i \in Int, NEW s
  PROVE  Reaches(F, D, i, s, i, s)
<1> DEFINE R == [n \in {i} |-> s]
<1>1. R[i] = s /\ i + 1 .. i = {}
  OBVIOUS
<1> QED BY <1>1 DEF Reaches

\* One instruction.
LEMMA OneMore ==
  ASSUME NEW F, NEW D, NEW i \in Int, NEW s
  PROVE  Reaches(F, D, i, s, i + 1, Execute(s, F[i + 1], D))
<1> DEFINE t == Execute(s, F[i + 1], D)
           R == [n \in {i, i + 1} |-> IF n = i THEN s ELSE t]
<1> HIDE DEF t
<1>1. R[i] = s /\ R[i + 1] = t
  OBVIOUS
<1>2. \A n \in i + 1 .. i + 1 : n = i + 1 /\ n - 1 = i
  OBVIOUS
<1> HIDE DEF R
<1>3. \A n \in i + 1 .. i + 1 : R[n] = Execute(R[n - 1], F[n], D)
  BY <1>1, <1>2 DEF t
<1> QED BY <1>1, <1>3 DEF Reaches, t

\* Instructions, and those behind them.
LEMMA Onward ==
  ASSUME NEW F, NEW D, NEW i \in Int, NEW j \in Int, NEW k \in Int, i <= j, j <= k,
         NEW s, NEW t, NEW u, Reaches(F, D, i, s, j, t), Reaches(F, D, j, t, k, u)
  PROVE  Reaches(F, D, i, s, k, u)
<1>1. PICK P : P[i] = s /\ P[j] = t /\ \A n \in i + 1 .. j : P[n] = Execute(P[n - 1], F[n], D)
  BY DEF Reaches
<1>2. PICK Q : Q[j] = t /\ Q[k] = u /\ \A n \in j + 1 .. k : Q[n] = Execute(Q[n - 1], F[n], D)
  BY DEF Reaches
<1> DEFINE R == [n \in i .. k |-> IF n <= j THEN P[n] ELSE Q[n]]
<1>3. R[i] = s /\ R[k] = u
  <2>1. i \in i .. k /\ k \in i .. k
    OBVIOUS
  <2>2. CASE k <= j
    <3>1. k = j
      BY <2>2
    <3> QED BY <1>1, <1>2, <2>1, <3>1
  <2> QED BY <1>1, <1>2, <2>1, <2>2
<1>4. ASSUME NEW n \in i + 1 .. k PROVE R[n] = Execute(R[n - 1], F[n], D)
  <2>1. n \in i .. k /\ n - 1 \in i .. k /\ n \in Int
    OBVIOUS
  <2>2. CASE n <= j
    <3>1. n \in i + 1 .. j /\ n - 1 <= j
      BY <2>1, <2>2
    <3>2. R[n] = P[n] /\ R[n - 1] = P[n - 1]
      BY <2>1, <2>2, <3>1
    <3> QED BY <1>1, <3>1, <3>2
  <2>3. CASE ~ n <= j
    <3>1. n \in j + 1 .. k /\ R[n] = Q[n]
      BY <2>1, <2>3
    <3>2. R[n - 1] = Q[n - 1]
      <4>1. CASE n - 1 <= j
        <5>1. n - 1 = j
          BY <2>1, <2>3, <4>1
        <5> QED BY <1>1, <1>2, <2>1, <5>1
      <4>2. CASE ~ n - 1 <= j
        BY <2>1, <4>2
      <4> QED BY <4>1, <4>2
    <3> QED BY <1>2, <3>1, <3>2
  <2> QED BY <2>2, <2>3
<1> HIDE DEF R
<1> QED BY <1>3, <1>4 DEF Reaches

\* F goes on behind e as s does.
Within(F, e, s) == \A n \in Len(e.text) + 1 .. Len(s.text) : F[n] = s.text[n]

\* What goes on as t does goes on as the part of t up to s, and from there.
LEMMA WithinParts ==
  ASSUME NEW F, NEW e \in Emission, NEW s \in Extensions(e), NEW t \in Extensions(s),
         Within(F, e, t)
  PROVE  /\ Len(e.text) \in Nat /\ Len(s.text) \in Nat /\ Len(t.text) \in Nat
         /\ Len(e.text) <= Len(s.text) /\ Len(s.text) <= Len(t.text)
         /\ Within(F, e, s) /\ Within(F, s, t)
<1>1. s \in Emission /\ t \in Emission
  BY DEF Extensions
<1>2. e.text \in Seq(Line) /\ s.text \in Seq(Line) /\ t.text \in Seq(Line)
  BY <1>1 DEF Emission
<1>3. PICK more \in Seq(Instruction) : s.text = e.text \o more
  BY DEF Extensions
<1>4. PICK last \in Seq(Instruction) : t.text = s.text \o last
  BY DEF Extensions
<1>5. Len(e.text) \in Nat /\ Len(s.text) \in Nat /\ Len(more) \in Nat /\ Len(last) \in Nat
  BY <1>2, LenProperties
<1>6. Len(s.text) = Len(e.text) + Len(more) /\ Len(t.text) = Len(s.text) + Len(last)
  BY <1>2, <1>3, <1>4, ConcatProperties, Instructions
<1>7. \A n \in 1 .. Len(s.text) : t.text[n] = s.text[n]
  BY <1>2, <1>4, ConcatProperties, Instructions
<1> QED BY <1>5, <1>6, <1>7 DEF Within

-----------------------------------------------------------------------------
(* Loads: what adding, and the two halves of a value, come to.             *)

\* t is s with v in register r.
Loaded(A, s, t, r, v) ==
  /\ t \in Machines(A) /\ t.memory = s.memory /\ t.equal = s.equal
  /\ t.reg[r] = v /\ \A q \in Registers \ {r} : t.reg[q] = s.reg[q]

\* Set loads a register.
LEMMA Setting ==
  ASSUME NEW A, NEW s \in Machines(A), NEW r \in Registers, NEW v \in Int
  PROVE  Loaded(A, s, Set(s, r, v), r, v % Full)
<1> DEFINE w == v % Full
<1>1. w \in Word
  BY CutFits
<1>2. Set(s, r, v) = [s EXCEPT !.reg[r] = w]
  BY DEF Set
<1> HIDE DEF w
<1>3. s = [memory |-> s.memory, reg |-> s.reg, equal |-> s.equal, skip |-> s.skip, ok |-> s.ok]
      /\ s.reg \in [Registers -> Word]
  BY DEF Machines
<1>4. [s.reg EXCEPT ![r] = w] \in [Registers -> Word]
  BY <1>1, <1>3
<1> DEFINE g == [s.reg EXCEPT ![r] = w]
           t == [memory |-> s.memory, reg |-> g, equal |-> s.equal, skip |-> s.skip, ok |-> s.ok]
<1>5. Set(s, r, v) = t
  BY <1>2, <1>3
<1>6. g[r] = w /\ \A q \in Registers \ {r} : g[q] = s.reg[q]
  BY <1>3
<1> HIDE DEF g
<1>7. t \in Machines(A)
  <2>1. s.memory \in [A -> 0 .. Byte - 1] /\ s.equal \in BOOLEAN /\ s.skip = 0 /\ s.ok = TRUE
    BY DEF Machines
  <2> QED BY <1>4, <2>1 DEF Machines, g
<1>8. t.memory = s.memory /\ t.equal = s.equal /\ t.reg = g
  OBVIOUS
<1> HIDE DEF t
<1> QED BY <1>5, <1>6, <1>7, <1>8 DEF Loaded, w

\* What an instruction that is not skipped does.
LEMMA Executing ==
  ASSUME NEW s, s.skip = 0, NEW i, NEW D
  PROVE  /\ i.op = "addi" => Execute(s, i, D) = Set(s, i.d, Address(s, i))
         /\ i.op = "addis" => Execute(s, i, D) = Set(s, i.d, Base(s, i.a) + i.imm * Half)
         /\ i.op = "ori" => Execute(s, i, D) = Set(s, i.d, Or(s.reg[i.a], i.imm))
         /\ i.op = "andi" => Execute(s, i, D) = Set(s, i.d, And(s.reg[i.a], i.imm))
         /\ i.op = "and" => Execute(s, i, D) = Set(s, i.d, And(s.reg[i.a], s.reg[i.b]))
         /\ i.op = "load" =>
              Execute(s, i, D) = Set(s, i.d, ValueAt(s.memory, Address(s, i), i.size))
<1>1. ~ s.skip > 0
  OBVIOUS
<1> QED BY <1>1 DEF Execute

\* Signed numbers, by cases.
LEMMA SignedNumbers ==
  ASSUME RealBytes
  PROVE  /\ \A x \in Int : SignedWord(x) = IF x >= 2147483648 THEN x - 4294967296 ELSE x
         /\ \A x \in Int : SignedHalf(x) = IF x >= 32768 THEN x - 65536 ELSE x
         /\ \A x \in Int : x % Full = x % 4294967296 /\ x % Half = x % 65536
         /\ \A x \in Int : x \in -(Half \div 2) .. (Half \div 2) - 1 <=> -32768 <= x /\ x < 32768
<1>1. Half = 65536 /\ Full = 65536 * 65536 /\ Half \div 2 = 32768
      /\ Full \div 2 = 32768 * 65536
  BY RealWords
<1>2. 65536 * 65536 = 4294967296 /\ 32768 * 65536 = 2147483648
  BY SMT
<1>3. Half = 65536 /\ Full = 4294967296 /\ Half \div 2 = 32768 /\ Full \div 2 = 2147483648
  BY <1>1, <1>2
<1>4. ASSUME NEW x \in Int
      PROVE  x \in -(Half \div 2) .. (Half \div 2) - 1 <=> -32768 <= x /\ x < 32768
  <2> DEFINE h == Half \div 2
  <2>1. h = 32768
    BY <1>3
  <2> HIDE DEF h
  <2>2. x \in -h .. h - 1 <=> -h <= x /\ x <= h - 1
    <3>1. h \in Int
      BY <2>1, SMT
    <3> QED BY <3>1, SMT
  <2>3. x \in -h .. h - 1 <=> -32768 <= x /\ x < 32768
    <3>1. -h = -32768 /\ h - 1 = 32767
      BY <2>1, SMT
    <3>2. x <= 32767 <=> x < 32768
      BY SMT
    <3> QED BY <2>2, <3>1, <3>2
  <2> QED BY <2>3 DEF h
<1>5. ASSUME NEW x \in Int PROVE x % Full = x % 4294967296 /\ x % Half = x % 65536
  BY <1>3, SMT
<1>6. ASSUME NEW x \in Int PROVE SignedWord(x) = IF x >= 2147483648 THEN x - 4294967296 ELSE x
  BY <1>3, SMT DEF SignedWord
<1>7. ASSUME NEW x \in Int PROVE SignedHalf(x) = IF x >= 32768 THEN x - 65536 ELSE x
  BY <1>3, SMT DEF SignedHalf
<1>8. \A x \in Int : SignedWord(x) = IF x >= 2147483648 THEN x - 4294967296 ELSE x
  BY <1>6
<1>9. \A x \in Int : SignedHalf(x) = IF x >= 32768 THEN x - 65536 ELSE x
  BY <1>7
<1>10. \A x \in Int : x % Full = x % 4294967296 /\ x % Half = x % 65536
  BY <1>5
<1>11. \A x \in Int : x \in -(Half \div 2) .. (Half \div 2) - 1 <=> -32768 <= x /\ x < 32768
  BY <1>4
<1> QED BY <1>8, <1>9, <1>10, <1>11

\* A value that is near is reached by what is added.
LEMMA NearAdds ==
  ASSUME RealBytes, NEW k \in Word, NEW v \in Word, NEW delta,
         delta = SignedWord((v - k) % Full),
         delta \in -(Half \div 2) .. (Half \div 2) - 1
  PROVE  (k + SignedHalf(delta % Half)) % Full = v /\ delta \in Int
<1>1. k \in Nat /\ k < 4294967296 /\ v \in Nat /\ v < 4294967296
  <2>1. 65536 * 65536 = 4294967296
    BY SMT
  <2> QED BY <2>1, RealWords
<1> DEFINE g == (v - k) % 4294967296
<1>2. g = IF v >= k THEN v - k ELSE v - k + 4294967296
  BY <1>1, SMT
<1>3. v - k \in Int /\ g \in Int
  BY <1>1, <1>2
<1>4. delta = IF g >= 2147483648 THEN g - 4294967296 ELSE g
  <2>1. (v - k) % Full = g
    BY <1>3, SignedNumbers
  <2> HIDE DEF g
  <2> QED BY <1>3, <2>1, SignedNumbers
<1> HIDE DEF g
<1>5. delta \in Int
  BY <1>3, <1>4
<1>6. -32768 <= delta /\ delta < 32768
  BY <1>5, SignedNumbers
<1>7. SignedHalf(delta % Half) = delta
  <2> DEFINE m == delta % 65536
  <2>1. m = IF delta >= 0 THEN delta ELSE delta + 65536
    BY <1>5, <1>6, SMT
  <2>2. m \in Int /\ delta % Half = m
    BY <1>5, <2>1, SignedNumbers
  <2> HIDE DEF m
  <2>3. SignedHalf(m) = IF m >= 32768 THEN m - 65536 ELSE m
    BY <2>2, SignedNumbers
  <2> QED BY <1>5, <1>6, <2>1, <2>2, <2>3
<1>8. (k + delta) % Full = v
  <2>1. (k + delta) % 4294967296 = v
    BY <1>1, <1>2, <1>4, <1>5, SMT
  <2>2. k + delta \in Int
    BY <1>1, <1>5
  <2> QED BY <2>1, <2>2, SignedNumbers
<1> QED BY <1>5, <1>7, <1>8

\* li of a value that it takes.
LEMMA SmallConstants ==
  ASSUME RealBytes, NEW v \in Word, v < (Half \div 2) - 1
  PROVE  (0 + SignedHalf(v % Half)) % Full = v
<1>1. v \in Nat /\ v < 32767 /\ Half = 65536 /\ Full = 65536 * 65536 /\ Half \div 2 = 32768
  BY RealWords
<1>2. SignedHalf(v % Half) = v
  BY <1>1, SMT DEF SignedHalf
<1> QED BY <1>1, <1>2, SMT

\* lis and ori come to the value, whatever its halves.
LEMMA LargeConstants ==
  ASSUME RealBytes, NEW v \in Word
  PROVE  LET high == (0 + (((v \div Half) % Half) * Half)) % Full
         IN  /\ high \in Word
             /\ v % Half = 0 => high = v
             /\ Or(high, (v % Half) % Half) % Full = v
             /\ Or(high, (v % Half) % Half) \in Int
<1> DEFINE h == v \div 65536
           l == v % 65536
<1>1. v \in Nat /\ v < 65536 * 65536 /\ Half = 65536 /\ Full = 65536 * 65536
  BY RealWords
<1>2. h \in Nat /\ h < 65536 /\ l \in Nat /\ l < 65536 /\ v = h * 65536 + l
  BY <1>1, SMT
<1>3. (v \div Half) % Half = h /\ (v % Half) % Half = l
  BY <1>1, <1>2, SMT
<1> HIDE DEF h, l
<1>4. (0 + (((v \div Half) % Half) * Half)) % Full = h * 65536
  BY <1>1, <1>2, <1>3, SMT
<1>5. Or(h * 65536, l) = v
  <2>1. And(h * 65536, l) = 0
    BY <1>2, HalvesShareNothing
  <2> QED BY <1>2, <2>1 DEF Or
<1>6. h * 65536 \in Word
  <2>1. h * 65536 \in Nat /\ h * 65536 < 65536 * 65536
    BY <1>2
  <2> QED BY <2>1, RealWords
<1>7. v % Half = 0 => h * 65536 = v
  BY <1>1, <1>2 DEF l
<1>8. v % Full = v
  BY <1>1, SMT
<1> QED BY <1>1, <1>3, <1>4, <1>5, <1>6, <1>7, <1>8

\* What is known at the end of e is what the machine has.
Agrees(e, s) == \A r \in DOMAIN e.known : s.reg[r] = e.known[r]

\* One instruction more, and two.
LEMMA LineRuns ==
  ASSUME NEW F, NEW D, NEW e \in Emission, NEW l, NEW i \in Line, l.text = e.text \o <<i>>,
         Within(F, e, l), NEW s
  PROVE  /\ Len(e.text) \in Nat /\ Len(l.text) = Len(e.text) + 1 /\ F[Len(e.text) + 1] = i
         /\ Reaches(F, D, Len(e.text), s, Len(l.text), Execute(s, i, D))
<1>1. e.text \in Seq(Line)
  BY DEF Emission
<1>2. l.text = Append(e.text, i)
  BY <1>1, AppendIsConcat
<1>3. Len(e.text) \in Nat /\ Len(l.text) = Len(e.text) + 1 /\ l.text[Len(e.text) + 1] = i
  BY <1>1, <1>2, AppendProperties, LenProperties
<1> DEFINE n == Len(e.text)
<1>4. n + 1 \in n + 1 .. n + 1 /\ n \in Int
  BY <1>3
<1>5. F[n + 1] = i
  BY <1>3, <1>4 DEF Within
<1> HIDE DEF n
<1>6. Reaches(F, D, n, s, n + 1, Execute(s, F[n + 1], D))
  BY <1>4, OneMore
<1> QED BY <1>3, <1>5, <1>6 DEF n

\* Two instructions.
LEMMA LinesRun ==
  ASSUME NEW F, NEW D, NEW e \in Emission, NEW l, NEW i \in Instruction,
         NEW j \in Instruction, l.text = e.text \o (<<i>> \o <<j>>), Within(F, e, l), NEW s
  PROVE  Reaches(F, D, Len(e.text), s, Len(l.text), Execute(Execute(s, i, D), j, D))
<1> DEFINE m == Emit(e, <<i>>)
           x == e.text
           f == <<i>>
           g == <<j>>
<1>1. x \in Seq(Line) /\ f \in Seq(Instruction) /\ g \in Seq(Instruction)
      /\ f \in Seq(Line) /\ g \in Seq(Line)
  <2>1. f \in Seq(Instruction) /\ g \in Seq(Instruction)
    BY Instructions
  <2> HIDE DEF f, g
  <2> QED BY <2>1, Instructions DEF Emission
<1>2. e \in Extensions(e)
  BY ExtendsItself
<1> HIDE DEF f, g
<1>3. Emit(e, f) \in Extensions(e) /\ Emit(e, f) \in Emission /\ Emit(e, f).text = x \o f
  <2>1. Emit(e, f) \in Extensions(e)
    BY <1>1, <1>2, Emitting
  <2> QED BY <2>1 DEF Extensions, Emit, Emission
<1>4. m \in Emission /\ m.text = x \o f
  BY <1>3 DEF f
<1> HIDE DEF m
<1>5. l.text = m.text \o g
  <2> DEFINE y == m.text
  <2>1. l.text = x \o (f \o g)
    BY DEF f, g
  <2>2. y = x \o f
    BY <1>4
  <2> HIDE DEF x, y
  <2>3. y \o g = x \o (f \o g)
    BY <1>1, <2>2, PartsAdd
  <2> QED BY <2>1, <2>3 DEF y
<1>6. /\ Len(x) \in Nat /\ Len(m.text) \in Nat /\ Len(x) <= Len(m.text)
      /\ \A n \in 1 .. Len(m.text) : l.text[n] = m.text[n]
      /\ Len(l.text) >= Len(m.text) /\ Len(l.text) \in Nat
  <2>1. m.text \in Seq(Line) /\ Len(g) \in Nat /\ Len(f) \in Nat /\ Len(x) \in Nat
    BY <1>1, <1>4, LenProperties DEF Emission
  <2>2. Len(m.text) = Len(x) + Len(f)
    BY <1>1, <1>4, ConcatProperties
  <2>3. Len(l.text) = Len(m.text) + Len(g) /\ \A n \in 1 .. Len(m.text) : l.text[n] = m.text[n]
    <3> DEFINE y == m.text
    <3>1. y \in Seq(Line) /\ l.text = y \o g
      BY <1>5, <2>1
    <3> HIDE DEF y
    <3>2. Len(l.text) = Len(y) + Len(g) /\ \A n \in 1 .. Len(y) + Len(g) :
            l.text[n] = IF n <= Len(y) THEN y[n] ELSE g[n - Len(y)]
      <4>1. g \in Seq(Line)
        BY <1>1
      <4>2. Len(y \o g) = Len(y) + Len(g) /\ \A n \in 1 .. Len(y) + Len(g) :
              (y \o g)[n] = IF n <= Len(y) THEN y[n] ELSE g[n - Len(y)]
        BY <3>1, <4>1, ConcatProperties
      <4> QED BY <3>1, <4>2
    <3>3. Len(y) \in Nat /\ Len(g) \in Nat
      BY <1>1, <3>1, LenProperties
    <3> DEFINE a == Len(y)
               b == Len(g)
               lt == l.text
    <3>4. ASSUME NEW n \in 1 .. a PROVE lt[n] = y[n]
      <4>1. a \in Nat /\ b \in Nat
        BY <3>3
      <4>2. \A p \in 1 .. a + b : lt[p] = IF p <= a THEN y[p] ELSE g[p - a]
        BY <3>2
      <4> HIDE DEF a, b, lt
      <4>3. n \in 1 .. a + b /\ n <= a
        BY <4>1
      <4> QED BY <4>2, <4>3
    <3> QED BY <3>2, <3>4 DEF y
  <2>4. \A a, b \in Nat : a + b \in Nat /\ a <= a + b
    OBVIOUS
  <2>5. Len(m.text) \in Nat /\ Len(x) <= Len(m.text)
    <3> HIDE DEF x
    <3> QED BY <2>1, <2>2, <2>4, Zenon
  <2>6. Len(l.text) \in Nat /\ Len(m.text) <= Len(l.text)
    BY <2>1, <2>3, <2>4, <2>5, Zenon
  <2>7. Len(l.text) >= Len(m.text)
    BY <2>5, <2>6
  <2> QED BY <2>1, <2>3, <2>5, <2>6, <2>7, Zenon
<1>7. Within(F, e, m) /\ Within(F, m, l)
  <2>1. \A n \in Len(x) + 1 .. Len(m.text) : n \in Len(x) + 1 .. Len(l.text) /\ n \in 1 .. Len(m.text)
    BY <1>6
  <2>2. \A n \in Len(m.text) + 1 .. Len(l.text) : n \in Len(x) + 1 .. Len(l.text)
    BY <1>6
  <2> QED BY <1>6, <2>1, <2>2 DEF Within
<1>8. Reaches(F, D, Len(x), s, Len(m.text), Execute(s, i, D))
  BY <1>4, <1>7, LineRuns DEF f, Line
<1>9. Reaches(F, D, Len(m.text), Execute(s, i, D), Len(l.text), Execute(Execute(s, i, D), j, D))
  BY <1>4, <1>5, <1>7, LineRuns DEF g, Line
<1>10. Len(x) \in Int /\ Len(m.text) \in Int /\ Len(l.text) \in Int
       /\ Len(x) <= Len(m.text) /\ Len(m.text) <= Len(l.text)
  BY <1>6
<1>11. Reaches(F, D, Len(x), s, Len(l.text), Execute(Execute(s, i, D), j, D))
  <2> DEFINE t == Execute(s, i, D)
             u == Execute(t, j, D)
             a == Len(x)
             b == Len(m.text)
             c == Len(l.text)
  <2>1. a \in Int /\ b \in Int /\ c \in Int /\ a <= b /\ b <= c
        /\ Reaches(F, D, a, s, b, t) /\ Reaches(F, D, b, t, c, u)
    BY <1>8, <1>9, <1>10
  <2> HIDE DEF t, u, a, b, c
  <2>2. Reaches(F, D, a, s, c, u)
    BY <2>1, Onward
  <2> QED BY <2>2 DEF t, u, a, c
<1> QED BY <1>11

\* What is remembered and what is forgotten.
LEMMA Reminded ==
  ASSUME NEW e \in Emission, NEW s, NEW t, Agrees(e, s), NEW r \in Registers, NEW v,
         t.reg[r] = v, \A q \in Registers \ {r} : t.reg[q] = s.reg[q]
  PROVE  Agrees(Remember(e, r, v), t) /\ Agrees(Forget(e, r), t)
<1>1. DOMAIN e.known \subseteq {14, 15} /\ {14, 15} \subseteq Registers
  BY KnowledgeOf DEF Registers
<1>2. \A q \in DOMAIN e.known \ {r} : t.reg[q] = e.known[q]
  BY <1>1 DEF Agrees
<1>3. t.reg[r] = v
  OBVIOUS
<1>4. Agrees(Remember(e, r, v), t)
  <2>1. CASE r \in {14, 15}
    <3> DEFINE k == With(e.known, r, v)
    <3>1. Remember(e, r, v) = [e EXCEPT !.known = k]
      BY <2>1 DEF Remember
    <3>2. [e EXCEPT !.known = k].known = k
      BY DEF Emission
    <3>3. \A q \in DOMAIN k : t.reg[q] = k[q]
      BY <1>2, <1>3 DEF With
    <3> HIDE DEF k
    <3> QED BY <3>1, <3>2, <3>3 DEF Agrees
  <2>2. CASE r \notin {14, 15}
    <3>1. Remember(e, r, v) = e
      BY <2>2 DEF Remember
    <3> QED BY <1>1, <1>2, <2>2, <3>1 DEF Agrees
  <2> QED BY <2>1, <2>2
<1>5. Agrees(Forget(e, r), t)
  <2> DEFINE k == [q \in DOMAIN e.known \ {r} |-> e.known[q]]
  <2>1. Forget(e, r) = [e EXCEPT !.known = k]
    BY DEF Forget
  <2>2. [e EXCEPT !.known = k].known = k
    BY DEF Emission
  <2>3. \A q \in DOMAIN k : t.reg[q] = k[q]
    BY <1>2
  <2> HIDE DEF k
  <2> QED BY <2>1, <2>2, <2>3 DEF Agrees
<1> QED BY <1>4, <1>5

\* A register that differs by nothing has the value.
LEMMA NothingToAdd ==
  ASSUME RealBytes, NEW k \in Word, NEW v \in Word, SignedWord((v - k) % Full) = 0
  PROVE  k = v
<1>1. k \in Nat /\ k < 4294967296 /\ v \in Nat /\ v < 4294967296
  <2>1. 65536 * 65536 = 4294967296
    BY SMT
  <2> QED BY <2>1, RealWords
<1> DEFINE g == (v - k) % 4294967296
<1>2. g = IF v >= k THEN v - k ELSE v - k + 4294967296
  BY <1>1, SMT
<1>3. v - k \in Int /\ g \in Int
  BY <1>1, <1>2
<1>4. (v - k) % Full = g
  BY <1>3, SignedNumbers
<1> HIDE DEF g
<1>5. SignedWord(g) = IF g >= 2147483648 THEN g - 4294967296 ELSE g
  BY <1>3, SignedNumbers
<1> QED BY <1>1, <1>2, <1>3, <1>4, <1>5

\* Nothing but one register: twice.
LEMMA LoadedTwice ==
  ASSUME NEW A, NEW s, NEW t, NEW u, NEW r, NEW v, NEW w, Loaded(A, s, t, r, v),
         Loaded(A, t, u, r, w)
  PROVE  Loaded(A, s, u, r, w)
BY DEF Loaded

\* A word is not cut.
LEMMA CutWord ==
  ASSUME NEW v \in Word
  PROVE  v % Full = v /\ v \in Int /\ v \in Nat
<1>1. ASSUME NEW n \in Nat \ {0}, NEW x \in 0 .. n - 1 PROVE x % n = x
  BY SMT
<1> QED BY <1>1, WidthsPositive DEF Word

\* What the instructions with immediates compute.
LEMMA Immediates ==
  ASSUME NEW A, NEW s \in Machines(A), NEW d, NEW a, NEW v, NEW D
  PROVE  /\ Execute(s, Immediate("addi", d, a, v), D)
              = Set(s, d, (Base(s, a) + SignedHalf(v % Half)) % Full)
         /\ Execute(s, Immediate("addis", d, a, v), D) = Set(s, d, Base(s, a) + (v % Half) * Half)
         /\ Execute(s, Immediate("ori", d, a, v), D) = Set(s, d, Or(s.reg[a], v % Half))
         /\ Execute(s, Immediate("andi", d, a, v), D) = Set(s, d, And(s.reg[a], v % Half))
<1> DEFINE i(op) == Immediate(op, d, a, v)
<1>1. s.skip = 0
  BY DEF Machines
<1>2. \A op : i(op).op = op /\ i(op).d = d /\ i(op).a = a /\ i(op).imm = v % Half
  BY DEF Immediate
<1> HIDE DEF i
<1>3. Execute(s, i("addi"), D) = Set(s, d, (Base(s, a) + SignedHalf(v % Half)) % Full)
  <2>1. Execute(s, i("addi"), D) = Set(s, i("addi").d, Address(s, i("addi")))
    BY <1>1, <1>2, Executing
  <2> QED BY <1>2, <2>1 DEF Address
<1>4. Execute(s, i("addis"), D) = Set(s, d, Base(s, a) + (v % Half) * Half)
  <2>1. Execute(s, i("addis"), D) = Set(s, i("addis").d, Base(s, i("addis").a) + i("addis").imm * Half)
    BY <1>1, <1>2, Executing
  <2> QED BY <1>2, <2>1
<1>5. Execute(s, i("ori"), D) = Set(s, d, Or(s.reg[a], v % Half))
  <2>1. Execute(s, i("ori"), D) = Set(s, i("ori").d, Or(s.reg[i("ori").a], i("ori").imm))
    BY <1>1, <1>2, Executing
  <2> QED BY <1>2, <2>1
<1>6. Execute(s, i("andi"), D) = Set(s, d, And(s.reg[a], v % Half))
  <2>1. Execute(s, i("andi"), D) = Set(s, i("andi").d, And(s.reg[i("andi").a], i("andi").imm))
    BY <1>1, <1>2, Executing
  <2> QED BY <1>2, <2>1
<1> QED BY <1>3, <1>4, <1>5, <1>6 DEF i

\* li, or lis with ori: the register has the value.
LEMMA ConstantRuns ==
  ASSUME RealBytes, NEW A, NEW s \in Machines(A), NEW r \in Register \ {0}, NEW v \in Word,
         NEW F, NEW D, NEW e \in Emission, NEW l, l.text = e.text \o Constant(r, v),
         Within(F, e, l)
  PROVE  \E t : Reaches(F, D, Len(e.text), s, Len(l.text), t) /\ Loaded(A, s, t, r, v)
<1>1. r \in Registers /\ r \in Register /\ r # 0 /\ 0 \in Register
  BY DEF Register, Registers
<1>2. v \in Int /\ v % Full = v /\ v \div Half \in Int
  BY CutWord, CutFits
<1>3. CASE v < (Half \div 2) - 1
  <2> DEFINE i == Immediate("addi", r, 0, v)
             t == Execute(s, i, D)
             x == (0 + SignedHalf(v % Half)) % Full
  <2>1. i \in Instruction
    BY <1>1, <1>2, ImmediateTyped
  <2>2. Constant(r, v) = <<i>>
    BY <1>3 DEF Constant
  <2>3. t = Set(s, r, x)
    <3>1. t = Set(s, r, (Base(s, 0) + SignedHalf(v % Half)) % Full)
      BY Immediates
    <3>2. Base(s, 0) = 0
      BY DEF Base
    <3> QED BY <3>1, <3>2
  <2>4. x = v
    BY <1>3, SmallConstants
  <2> HIDE DEF i, x
  <2>5. Reaches(F, D, Len(e.text), s, Len(l.text), t)
    BY <2>1, <2>2, LineRuns DEF Line
  <2> HIDE DEF t
  <2>6. Loaded(A, s, t, r, v % Full)
    BY <1>1, <1>2, <2>3, <2>4, Setting
  <2> QED BY <1>2, <2>5, <2>6
<1>4. CASE ~ v < (Half \div 2) - 1
  <2> DEFINE i == Immediate("addis", r, 0, v \div Half)
             j == Immediate("ori", r, r, v)
             t == Execute(s, i, D)
             u == Execute(t, j, D)
             x == 0 + (((v \div Half) % Half) * Half)
             high == x % Full
             y == Or(high, v % Half)
  <2>1. i \in Instruction /\ j \in Instruction
    BY <1>1, <1>2, ImmediateTyped
  <2>2. Constant(r, v) = IF v % Half # 0 THEN <<i>> \o <<j>> ELSE <<i>> \o <<>>
    BY <1>4 DEF Constant
  <2>3. t = Set(s, r, x)
    <3>1. t = Set(s, r, Base(s, 0) + ((v \div Half) % Half) * Half)
      BY Immediates
    <3>2. Base(s, 0) = 0
      BY DEF Base
    <3> QED BY <3>1, <3>2
  <2>4. x \in Int
    <3>1. (v \div Half) % Half \in Int /\ Half \in Int
      BY <1>2, CutFits, WidthsPositive DEF Field
    <3> QED BY <3>1
  <2>5. high \in Word /\ (v % Half = 0 => high = v)
        /\ Or(high, (v % Half) % Half) % Full = v /\ Or(high, (v % Half) % Half) \in Int
    BY LargeConstants
  <2>6. (v % Half) % Half = v % Half
    <3>1. ASSUME NEW n \in Nat \ {0}, NEW w \in 0 .. n - 1 PROVE w % n = w
      BY SMT
    <3>2. v % Half \in 0 .. Half - 1
      BY <1>2, CutFits DEF Field
    <3> QED BY <3>1, <3>2, WidthsPositive
  <2> HIDE DEF x
  <2>7. Loaded(A, s, t, r, high)
    <3> HIDE DEF t
    <3> QED BY <1>1, <2>3, <2>4, Setting
  <2>8. t \in Machines(A) /\ t.reg[r] = high
    BY <2>7 DEF Loaded
  <2> HIDE DEF high
  <2>9. y % Full = v /\ y \in Int
    BY <2>5, <2>6
  <2>10. CASE v % Half = 0
    <3>1. <<i>> \o <<>> = <<i>>
      <4>1. <<i>> \in Seq(Instruction)
        BY <2>1, Instructions
      <4> DEFINE q == <<i>>
      <4> HIDE DEF i, q
      <4>2. q \in Seq(Instruction) => q \o <<>> = q
        BY ConcatEmptySeq
      <4> QED BY <4>1, <4>2 DEF q
    <3>2. l.text = e.text \o <<i>>
      BY <2>2, <2>10, <3>1
    <3> HIDE DEF i, t
    <3>3. Reaches(F, D, Len(e.text), s, Len(l.text), Execute(s, i, D))
      BY <2>1, <3>2, LineRuns DEF Line
    <3> QED BY <2>5, <2>7, <2>10, <3>3 DEF t
  <2>11. CASE v % Half # 0
    <3>1. l.text = e.text \o (<<i>> \o <<j>>)
      BY <2>2, <2>11
    <3>2. u = Set(t, r, Or(t.reg[r], v % Half))
      <4> HIDE DEF t
      <4> QED BY <2>8, Immediates
    <3>3. u = Set(t, r, y)
      BY <2>8, <3>2
    <3> HIDE DEF y, i, j, t, u
    <3>4. Loaded(A, t, u, r, v)
      <4>1. Loaded(A, t, u, r, y % Full)
        BY <1>1, <2>8, <2>9, <3>3, Setting
      <4> QED BY <2>9, <4>1
    <3>5. Loaded(A, s, u, r, v)
      BY <2>7, <3>4, LoadedTwice
    <3>6. Reaches(F, D, Len(e.text), s, Len(l.text), Execute(Execute(s, i, D), j, D))
      BY <2>1, <3>1, LinesRun
    <3> QED BY <3>5, <3>6 DEF t, u
  <2> QED BY <2>10, <2>11
<1> QED BY <1>3, <1>4

\* A load leaves the value in the register, and what is known is what the machine has.
LEMMA LoadRuns ==
  ASSUME RealBytes, NEW A, NEW s \in Machines(A), NEW r \in Register \ {0}, NEW v \in Word,
         NEW F, NEW D, NEW e \in Emission, Agrees(e, s), Within(F, e, ImmediateLoad(e, r, v))
  PROVE  \E t : /\ Reaches(F, D, Len(e.text), s, Len(ImmediateLoad(e, r, v).text), t)
                /\ Loaded(A, s, t, r, v) /\ Agrees(ImmediateLoad(e, r, v), t)
<1> DEFINE delta == IF IsKnown(e, r) THEN SignedWord((v - e.known[r]) % Full) ELSE 0
           near  == delta \in 2 - (Half \div 2) .. (Half \div 2) - 2
           i     == Immediate("addi", r, r, delta)
           added == Emit(Remember(e, r, v), <<i>>)
           fresh == Emit(Remember(e, r, v), Constant(r, v))
           l     == ImmediateLoad(e, r, v)
<1>1. \/ IsKnown(e, r) /\ delta = 0 /\ l = e
      \/ IsKnown(e, r) /\ near /\ l = added
      \/ l = fresh
  <2> HIDE DEF delta
  <2>1. l = CASE IsKnown(e, r) /\ delta = 0 -> e
              [] IsKnown(e, r) /\ delta # 0 /\ near -> added
              [] OTHER -> fresh
    BY DEF ImmediateLoad, delta
  <2> HIDE DEF added, fresh, near, l
  <2> QED BY <2>1
<1>2. r \in Register /\ r \in Registers /\ r # 0
  BY DEF Register, Registers
<1>3. IsKnown(e, r) => /\ e.known[r] \in Word /\ s.reg[r] = e.known[r]
                       /\ delta = SignedWord((v - e.known[r]) % Full)
  BY KnowledgeOf DEF IsKnown, Agrees
<1>4. Len(e.text) \in Nat
  BY LenProperties DEF Emission
<1>5. /\ added.text = e.text \o <<i>> /\ added.known = Remember(e, r, v).known
      /\ fresh.text = e.text \o Constant(r, v) /\ fresh.known = Remember(e, r, v).known
  <2>1. Remember(e, r, v).text = e.text /\ Remember(e, r, v) \in Emission
    <3>1. e \in Extensions(e)
      BY ExtendsItself
    <3>2. Remember(e, r, v) \in Extensions(e)
      BY <3>1, Remembering
    <3> QED BY <3>2 DEF Remember, Emission, Extensions
  <2> DEFINE m == Remember(e, r, v)
             c == Constant(r, v)
  <2> HIDE DEF m, i, c
  <2>2. \A is : Emit(m, is).text = m.text \o is /\ Emit(m, is).known = m.known
    <3>1. m \in Emission
      BY <2>1 DEF m
    <3> QED BY <3>1 DEF Emit, Emission
  <2> QED BY <2>1, <2>2 DEF m, c
<1>6. CASE IsKnown(e, r) /\ delta = 0 /\ l = e
  <2>1. s.reg[r] = v
    BY <1>3, <1>6, NothingToAdd
  <2>2. Loaded(A, s, s, r, v)
    BY <2>1 DEF Loaded
  <2>3. Reaches(F, D, Len(e.text), s, Len(e.text), s)
    BY <1>4, Staying
  <2> HIDE DEF l
  <2> QED BY <1>6, <2>2, <2>3 DEF l
<1>7. CASE IsKnown(e, r) /\ near /\ l = added
  <2> DEFINE k == s.reg[r]
             t == Execute(s, i, D)
  <2>1. k \in Word /\ delta = SignedWord((v - k) % Full)
    BY <1>3, <1>7
  <2>2. delta \in -(Half \div 2) .. (Half \div 2) - 1 /\ delta \in Int
    <3>1. Half \div 2 \in Int
      BY WidthsPositive
    <3> HIDE DEF delta
    <3> QED BY <1>7, <3>1
  <2> HIDE DEF delta, k
  <2>3. (k + SignedHalf(delta % Half)) % Full = v
    BY <2>1, <2>2, NearAdds
  <2>4. t = Set(s, r, (k + SignedHalf(delta % Half)) % Full)
    <3>1. t = Set(s, r, (Base(s, r) + SignedHalf(delta % Half)) % Full)
      BY Immediates
    <3>2. Base(s, r) = k
      BY <1>2 DEF Base, k
    <3> QED BY <3>1, <3>2
  <2>5. i \in Instruction
    BY <1>2, <2>2, ImmediateTyped
  <2>6. v % Full = v /\ v \in Int
    BY CutWord
  <2> HIDE DEF t
  <2>7. Loaded(A, s, t, r, v)
    <3>1. t = Set(s, r, v)
      BY <2>3, <2>4
    <3>2. Loaded(A, s, t, r, v % Full)
      BY <1>2, <2>6, <3>1, Setting
    <3> QED BY <2>6, <3>2
  <2> HIDE DEF i
  <2>8. Reaches(F, D, Len(e.text), s, Len(added.text), t)
    <3> DEFINE x == added
    <3>1. x.text = e.text \o <<i>> /\ Within(F, e, x) /\ i \in Line
      BY <1>5, <1>7, <2>5 DEF Line
    <3> HIDE DEF x
    <3>2. Reaches(F, D, Len(e.text), s, Len(x.text), Execute(s, i, D))
      BY <3>1, LineRuns
    <3> QED BY <3>2 DEF x, t
  <2>9. Agrees(added, t)
    <3>1. Agrees(Remember(e, r, v), t)
      BY <1>2, <2>7, Reminded DEF Loaded
    <3> HIDE DEF added
    <3> QED BY <1>5, <3>1 DEF Agrees
  <2> HIDE DEF added, l
  <2> QED BY <1>7, <2>7, <2>8, <2>9 DEF l
<1>8. CASE l = fresh
  <2> HIDE DEF fresh, l
  <2>1. Within(F, e, fresh)
    BY <1>8 DEF l
  <2>2. PICK t : Reaches(F, D, Len(e.text), s, Len(fresh.text), t) /\ Loaded(A, s, t, r, v)
    BY <1>5, <2>1, ConstantRuns
  <2>3. Agrees(Remember(e, r, v), t)
    <3>1. t.reg[r] = v /\ \A q \in Registers \ {r} : t.reg[q] = s.reg[q]
      BY <2>2 DEF Loaded
    <3> QED BY <1>2, <3>1, Reminded
  <2>4. Agrees(fresh, t)
    BY <1>5, <2>3 DEF Agrees
  <2> QED BY <1>8, <2>2, <2>4 DEF l
<1> HIDE DEF l, near, added, fresh, delta
<1> QED BY <1>1, <1>6, <1>7, <1>8

-----------------------------------------------------------------------------
(* Stores.                                                                 *)

Bytes == 0 .. Byte - 1

\* Values are cut to as many bytes as are asked for.
LEMMA BytesFit ==
  ASSUME NEW v \in Int, NEW size \in {1, 2, 4}
  PROVE  /\ BytesOf(v, size) \in Seq(Bytes) /\ Len(BytesOf(v, size)) = size
         /\ \A i \in 1 .. size : BytesOf(v, size)[i] \in Bytes
<1> DEFINE q == <<v \div (Byte * Half), v \div Half, v \div Byte, v>>
           g == [i \in 1 .. size |-> q[4 - size + i] % Byte]
<1>1. \A j \in 1 .. 4 : q[j] \in Int
  <2>1. Byte \in Nat \ {0} /\ Half \in Nat \ {0} /\ Byte * Half \in Nat \ {0}
    <3>1. ASSUME NEW x \in Nat \ {0}, NEW y \in Nat \ {0} PROVE x * y \in Nat \ {0}
      BY SMT
    <3> QED BY <3>1, WidthsPositive
  <2>2. ASSUME NEW n \in Nat \ {0} PROVE v \div n \in Int
    BY SMT
  <2>3. v \div (Byte * Half) \in Int /\ v \div Half \in Int /\ v \div Byte \in Int
    BY <2>1, <2>2
  <2> QED BY <2>3
<1> HIDE DEF q
<1>2. ASSUME NEW i \in 1 .. size PROVE q[4 - size + i] % Byte \in Bytes
  <2>1. 4 - size + i \in 1 .. 4
    OBVIOUS
  <2>2. q[4 - size + i] \in Int
    BY <1>1, <2>1
  <2>3. ASSUME NEW n \in Nat \ {0}, NEW x \in Int PROVE x % n \in 0 .. n - 1
    BY SMT
  <2> QED BY <2>2, <2>3, WidthsPositive DEF Bytes
<1>3. g \in [1 .. size -> Bytes]
  BY <1>2
<1>4. BytesOf(v, size) = g
  BY DEF BytesOf, q
<1> HIDE DEF g
<1>5. g \in Seq(Bytes) /\ DOMAIN g = 1 .. size
  <2>1. size \in Nat
    OBVIOUS
  <2> QED BY <1>3, <2>1, SeqDef
<1>6. Len(g) = size
  <2>1. Len(g) \in Nat /\ DOMAIN g = 1 .. Len(g)
    BY <1>5, LenProperties
  <2> QED BY <1>5, <2>1
<1> QED BY <1>3, <1>4, <1>5, <1>6

\* Memory stays memory.
LEMMA PokeFits ==
  ASSUME NEW A, NEW mem \in [A -> Bytes], NEW a \in Int, NEW bytes \in Seq(Bytes)
  PROVE  Poke(mem, a, bytes) \in [A -> Bytes]
<1>1. Len(bytes) \in Nat /\ \A i \in 1 .. Len(bytes) : bytes[i] \in Bytes
  BY LenProperties
<1>2. ASSUME NEW c \in A
      PROVE  (IF c \in a .. a + Len(bytes) - 1 THEN bytes[c - a + 1] ELSE mem[c]) \in Bytes
  <2>1. CASE c \in a .. a + Len(bytes) - 1
    <3>1. c - a + 1 \in 1 .. Len(bytes)
      BY <1>1, <2>1
    <3> QED BY <1>1, <2>1, <3>1
  <2>2. CASE c \notin a .. a + Len(bytes) - 1
    BY <2>2
  <2> QED BY <2>1, <2>2
<1>3. DOMAIN mem = A
  OBVIOUS
<1> QED BY <1>2, <1>3 DEF Poke

\* t is s with bytes written at a, and its stack pointer.
Wrote(A, s, t, a, bytes) ==
  /\ t \in Machines(A) /\ t.memory = Poke(s.memory, a, bytes) /\ t.reg[1] = s.reg[1]

\* A machine of which only the memory changes.
LEMMA Poking ==
  ASSUME NEW A, NEW s \in Machines(A), NEW a \in Int, NEW bytes \in Seq(Bytes)
  PROVE  LET t == [s EXCEPT !.memory = Poke(@, a, bytes)]
         IN  t \in Machines(A) /\ t.memory = Poke(s.memory, a, bytes) /\ t.reg = s.reg
             /\ t.equal = s.equal /\ t.skip = 0
<1> DEFINE p == Poke(s.memory, a, bytes)
<1>1. /\ s.memory \in [A -> Bytes] /\ s.equal \in BOOLEAN /\ s.skip = 0 /\ s.ok = TRUE
      /\ s.reg \in [Registers -> Word]
  BY DEF Machines, Bytes
<1>2. p \in [A -> Bytes]
  BY <1>1, PokeFits
<1> HIDE DEF p
<1>3. s = [memory |-> s.memory, reg |-> s.reg, equal |-> s.equal, skip |-> s.skip, ok |-> s.ok]
  BY DEF Machines
<1> DEFINE t == [memory |-> p, reg |-> s.reg, equal |-> s.equal, skip |-> s.skip, ok |-> s.ok]
<1>4. [s EXCEPT !.memory = p] = t
  BY <1>3
<1>5. t \in Machines(A)
  BY <1>1, <1>2 DEF Machines, Bytes
<1>6. t.memory = p /\ t.reg = s.reg /\ t.equal = s.equal /\ t.skip = 0
  BY <1>1
<1> QED BY <1>4, <1>5, <1>6 DEF p

\* A store, with and without its update.
LEMMA StoreExecutes ==
  ASSUME NEW A, NEW s \in Machines(A), NEW d \in Registers, NEW delta, NEW size \in {1, 2, 4},
         NEW a \in Word, NEW b \in Registers \ {0},
         (s.reg[b] + SignedHalf(delta % Half)) % Full = a, NEW update \in BOOLEAN, NEW D,
         NEW t, t = Execute(s, StoreTo(d, b, delta, size, update), D)
  PROVE  /\ t \in Machines(A) /\ t.equal = s.equal
         /\ t.memory = Poke(s.memory, a, BytesOf(s.reg[d], size))
         /\ t.reg[b] = (IF update THEN a ELSE s.reg[b])
         /\ \A q \in Registers \ {b} : t.reg[q] = s.reg[q]
<1> DEFINE i == StoreTo(d, b, delta, size, update)
           bytes == BytesOf(s.reg[d], size)
           stored == [s EXCEPT !.memory = Poke(@, a, bytes)]
<1>1. i.op = "store" /\ i.d = d /\ i.a = b /\ i.imm = delta % Half /\ i.size = size
      /\ i.update = update
  BY DEF StoreTo
<1>2. t = Execute(s, i, D)
  OBVIOUS
<1> HIDE DEF i
<1>3. Address(s, i) = a
  <2>1. Base(s, b) = s.reg[b]
    BY DEF Base
  <2> QED BY <1>1, <2>1 DEF Address
<1>4. bytes \in Seq(Bytes) /\ a \in Int
  <2>1. s.reg[d] \in Word
    BY DEF Machines
  <2>2. s.reg[d] \in Int /\ a \in Int
    BY <2>1, CutWord
  <2> QED BY <2>2, BytesFit
<1>5. t = IF update THEN Set(stored, b, a) ELSE stored
  <2>1. ~ s.skip > 0
    BY DEF Machines
  <2>2. t = IF i.update
             THEN Set([s EXCEPT !.memory =
                         Poke(@, Address(s, i), BytesOf(s.reg[i.d], i.size))],
                      i.a, Address(s, i))
             ELSE [s EXCEPT !.memory =
                         Poke(@, Address(s, i), BytesOf(s.reg[i.d], i.size))]
    BY <1>2, <1>1, <2>1 DEF Execute
  <2> QED BY <1>1, <1>3, <2>2
<1> HIDE DEF bytes
<1>6. stored \in Machines(A) /\ stored.memory = Poke(s.memory, a, bytes) /\ stored.reg = s.reg
      /\ stored.equal = s.equal
  BY <1>4, Poking
<1> HIDE DEF stored
<1>7. CASE update
  <2>1. Loaded(A, stored, t, b, a)
    <3>1. Loaded(A, stored, Set(stored, b, a), b, a % Full)
      BY <1>4, <1>6, Setting
    <3> QED BY <1>5, <1>7, <3>1, CutWord
  <2> QED BY <1>6, <1>7, <2>1 DEF Loaded, bytes
<1>8. CASE ~ update
  <2>1. t = stored
    BY <1>5, <1>8
  <2> QED BY <1>6, <1>8, <2>1 DEF bytes
<1> QED BY <1>7, <1>8

\* Emitting, alone and with something remembered.
LEMMA Emitted ==
  ASSUME NEW e \in Emission, NEW ins \in Seq(Instruction)
  PROVE  /\ Emit(e, ins) \in Extensions(e) /\ Emit(e, ins) \in Emission
         /\ Emit(e, ins).text = e.text \o ins /\ Emit(e, ins).known = e.known
<1>1. e \in Extensions(e)
  BY ExtendsItself
<1>2. Emit(e, ins) \in Extensions(e) /\ Emit(e, ins).known = e.known
  BY <1>1, Emitting
<1>3. Emit(e, ins) \in Emission
  BY <1>2 DEF Extensions
<1>4. Emit(e, ins).text = e.text \o ins
  BY DEF Emit, Emission
<1> QED BY <1>2, <1>3, <1>4

\* Emitting, with and without remembering first.
LEMMA Extended ==
  ASSUME NEW e \in Emission, NEW ins \in Seq(Instruction), NEW r, NEW v,
         r \in {14, 15} => v \in Word
  PROVE  /\ Remember(e, r, v) \in Emission /\ Remember(e, r, v).text = e.text
         /\ Emit(e, ins) \in Extensions(e) /\ Emit(e, ins).text = e.text \o ins
         /\ Emit(e, ins).known = e.known
         /\ Emit(Remember(e, r, v), ins) \in Extensions(e)
         /\ Emit(Remember(e, r, v), ins).text = e.text \o ins
         /\ Emit(Remember(e, r, v), ins).known = Remember(e, r, v).known
<1>1. e \in Extensions(e)
  BY ExtendsItself
<1>2. Remember(e, r, v) \in Extensions(e)
  BY <1>1, Remembering
<1>3. Remember(e, r, v) \in Emission /\ Remember(e, r, v).text = e.text
  BY <1>2 DEF Remember, Emission, Extensions
<1>4. Emit(e, ins) \in Extensions(e) /\ Emit(Remember(e, r, v), ins) \in Extensions(e)
  BY <1>1, <1>2, Emitting
<1>5. ASSUME NEW m \in Emission PROVE Emit(m, ins).text = m.text \o ins /\ Emit(m, ins).known = m.known
  BY DEF Emit, Emission
<1> QED BY <1>3, <1>4, <1>5

\* A value is stored at its address, and what is known is what the machine has.
LEMMA StoreRuns ==
  ASSUME RealBytes, NEW A, NEW s \in Machines(A), NEW address \in Word, NEW value \in Word,
         NEW size \in {1, 2, 4}, NEW F, NEW D, NEW e \in Emission, Agrees(e, s),
         Within(F, e, Store(e, address, value, size))
  PROVE  \E t : /\ Reaches(F, D, Len(e.text), s, Len(Store(e, address, value, size).text), t)
                /\ Wrote(A, s, t, address, BytesOf(value, size))
                /\ Agrees(Store(e, address, value, size), t)
<1> DEFINE loaded == ImmediateLoad(e, 15, value)
           delta  == IF IsKnown(loaded, 14)
                     THEN SignedWord((address - loaded.known[14]) % Full) ELSE Full
           near   == delta \in -(Half \div 2) .. (Half \div 2) - 1
           i      == StoreTo(15, 14, delta, size, TRUE)
           update == Emit(Remember(loaded, 14, address), <<i>>)
           moved  == ImmediateLoad(loaded, 14, address)
           j      == StoreTo(15, 14, 0, size, FALSE)
           store  == Emit(moved, <<j>>)
           l      == Store(e, address, value, size)
           bytes  == BytesOf(value, size)
<1>1. l = IF near THEN update ELSE store
  BY DEF Store
<1>2. /\ 14 \in Register \ {0} /\ 15 \in Register \ {0} /\ 14 \in Registers /\ 15 \in Registers
      /\ 1 \in Registers /\ 14 \in Register /\ 15 \in Register
      /\ 14 \in Registers \ {0}
  BY DEF Register, Registers, Lr
<1>3. address \in Int /\ value \in Int /\ Half \div 2 \in Int
  BY CutWord, WidthsPositive
<1>4. e \in Extensions(e)
  BY ExtendsItself
<1>5. loaded \in Extensions(e) /\ loaded \in Emission
  <2>1. loaded \in Extensions(e)
    BY <1>2, <1>3, <1>4, Loading
  <2> QED BY <2>1 DEF Extensions
<1> HIDE DEF loaded
<1>6. moved \in Extensions(loaded) /\ moved \in Emission
  <2>1. moved \in Extensions(loaded)
    BY <1>2, <1>3, <1>5, ExtendsItself, Loading
  <2> QED BY <2>1 DEF Extensions
<1>7. near => delta \in Int
  <2> HIDE DEF delta
  <2> QED BY <1>3
<1>8. near => IsKnown(loaded, 14) /\ delta = SignedWord((address - loaded.known[14]) % Full)
              /\ loaded.known[14] \in Word
  <2>1. ASSUME near, ~ IsKnown(loaded, 14) PROVE FALSE
    <3>1. delta = Full
      BY <2>1
    <3>2. Half = 65536 /\ Full = 65536 * 65536 /\ Half \div 2 = 32768
      BY RealWords
    <3> HIDE DEF delta
    <3> QED BY <2>1, <3>1, <3>2
  <2> QED BY <1>5, <2>1, KnowledgeOf DEF IsKnown
<1> HIDE DEF delta, moved
<1>9. near => update \in Extensions(loaded) /\ update.text = loaded.text \o <<i>>
               /\ update.known = Remember(loaded, 14, address).known /\ i \in Instruction
  <2> HAVE near
  <2>1. i \in Instruction /\ <<i>> \in Seq(Instruction)
    <3>1. i \in Instruction
      BY <1>2, <1>7, CutFits DEF StoreTo, Instruction
    <3> HIDE DEF i
    <3> QED BY <3>1, Instructions
  <2> DEFINE ins == <<i>>
  <2>2. ins \in Seq(Instruction) /\ (14 \in {14, 15} => address \in Word)
    BY <2>1
  <2> HIDE DEF i, ins
  <2>3. /\ Emit(Remember(loaded, 14, address), ins) \in Extensions(loaded)
        /\ Emit(Remember(loaded, 14, address), ins).text = loaded.text \o ins
        /\ Emit(Remember(loaded, 14, address), ins).known = Remember(loaded, 14, address).known
    BY <1>5, <2>2, Extended
  <2> QED BY <2>1, <2>3 DEF ins
<1>10. store \in Extensions(moved) /\ store.text = moved.text \o <<j>>
       /\ store.known = moved.known /\ j \in Instruction
  <2>1. j \in Instruction /\ <<j>> \in Seq(Instruction)
    <3> DEFINE z == 0
    <3>1. z \in Int
      OBVIOUS
    <3> HIDE DEF z
    <3>2. StoreTo(15, 14, z, size, FALSE) \in Instruction
      BY <1>2, <3>1, CutFits DEF StoreTo, Instruction
    <3>3. j \in Instruction
      BY <3>2 DEF z
    <3> HIDE DEF j
    <3> QED BY <3>3, Instructions
  <2> HIDE DEF j
  <2> QED BY <1>6, <2>1, Extended
<1>11. l \in Extensions(loaded)
  <2>1. store \in Extensions(loaded)
    BY <1>5, <1>6, <1>10, ExtensionsNest
  <2> HIDE DEF near, update, store, l
  <2> QED BY <1>1, <1>9, <2>1
<1> HIDE DEF i, j, update, store
<1>12. /\ Len(e.text) \in Nat /\ Len(loaded.text) \in Nat /\ Len(l.text) \in Nat
       /\ Len(e.text) <= Len(loaded.text) /\ Len(loaded.text) <= Len(l.text)
       /\ Within(F, e, loaded) /\ Within(F, loaded, l)
  <2>1. Within(F, e, l)
    OBVIOUS
  <2> HIDE DEF l
  <2> QED BY <1>5, <1>11, <2>1, WithinParts
<1>13. PICK s1 : /\ Reaches(F, D, Len(e.text), s, Len(loaded.text), s1)
                 /\ Loaded(A, s, s1, 15, value) /\ Agrees(loaded, s1)
  <2> HIDE DEF l
  <2> QED BY <1>2, <1>12, LoadRuns DEF loaded
<1>14. /\ s1 \in Machines(A) /\ s1.memory = s.memory /\ s1.reg[15] = value
       /\ s1.reg[1] = s.reg[1]
  BY <1>2, <1>13 DEF Loaded
<1> HIDE DEF l, bytes
<1>15. ASSUME NEW t, Reaches(F, D, Len(loaded.text), s1, Len(l.text), t),
              t \in Machines(A), t.memory = Poke(s1.memory, address, bytes),
              t.reg[1] = s1.reg[1], Agrees(l, t)
       PROVE  \E u : /\ Reaches(F, D, Len(e.text), s, Len(l.text), u)
                     /\ Wrote(A, s, u, address, bytes) /\ Agrees(l, u)
  <2>1. Wrote(A, s, t, address, bytes)
    BY <1>14, <1>15 DEF Wrote
  <2>2. Len(e.text) \in Int /\ Len(loaded.text) \in Int /\ Len(l.text) \in Int
    BY <1>12
  <2>3. Reaches(F, D, Len(e.text), s, Len(l.text), t)
    BY <1>12, <1>13, <1>15, <2>2, Onward
  <2> QED BY <1>15, <2>1, <2>3
<1>16. CASE near
  <2> DEFINE k == loaded.known[14]
             t == Execute(s1, i, D)
  <2>1. k = s1.reg[14] /\ k \in Word /\ delta = SignedWord((address - k) % Full)
    BY <1>8, <1>13, <1>16 DEF Agrees, IsKnown
  <2>2. (s1.reg[14] + SignedHalf(delta % Half)) % Full = address
    <3> HIDE DEF k
    <3>1. (k + SignedHalf(delta % Half)) % Full = address
      BY <1>16, <2>1, NearAdds
    <3> QED BY <2>1, <3>1
  <2>3. /\ t \in Machines(A) /\ t.equal = s1.equal
        /\ t.memory = Poke(s1.memory, address, BytesOf(s1.reg[15], size))
        /\ t.reg[14] = address
        /\ \A q \in Registers \ {14} : t.reg[q] = s1.reg[q]
    <3> DEFINE up == TRUE
    <3>1. up \in BOOLEAN /\ t = Execute(s1, StoreTo(15, 14, delta, size, up), D)
      BY DEF i
    <3> HIDE DEF t, up
    <3>2. t.reg[14] = IF up THEN address ELSE s1.reg[14]
      BY <1>2, <1>14, <2>2, <3>1, StoreExecutes
    <3>3. /\ t \in Machines(A) /\ t.equal = s1.equal
          /\ t.memory = Poke(s1.memory, address, BytesOf(s1.reg[15], size))
          /\ \A q \in Registers \ {14} : t.reg[q] = s1.reg[q]
      BY <1>2, <1>14, <2>2, <3>1, StoreExecutes
    <3> QED BY <3>2, <3>3 DEF up
  <2>4. l = update
    BY <1>1, <1>16
  <2>5. Reaches(F, D, Len(loaded.text), s1, Len(l.text), t)
    BY <1>5, <1>9, <1>12, <1>16, <2>4, LineRuns DEF Line
  <2> HIDE DEF t
  <2>6. Agrees(l, t)
    <3>1. Agrees(Remember(loaded, 14, address), t)
      BY <1>2, <1>5, <1>13, <2>3, Reminded
    <3> QED BY <1>9, <1>16, <2>4, <3>1 DEF Agrees
  <2>7. t.memory = Poke(s1.memory, address, bytes) /\ t.reg[1] = s1.reg[1]
    BY <1>2, <1>14, <2>3 DEF bytes
  <2> QED BY <1>15, <2>3, <2>5, <2>6, <2>7 DEF l, bytes
<1>17. CASE ~ near
  <2>1. l = store
    BY <1>1, <1>17
  <2>2. /\ Len(loaded.text) \in Int /\ Len(moved.text) \in Int /\ Len(l.text) \in Int
        /\ Len(loaded.text) <= Len(moved.text) /\ Len(moved.text) <= Len(l.text)
        /\ Within(F, loaded, moved) /\ Within(F, moved, l)
    <3>1. l \in Extensions(moved)
      BY <1>10, <2>1
    <3>2. /\ Len(loaded.text) \in Nat /\ Len(moved.text) \in Nat /\ Len(l.text) \in Nat
          /\ Len(loaded.text) <= Len(moved.text) /\ Len(moved.text) <= Len(l.text)
          /\ Within(F, loaded, moved) /\ Within(F, moved, l)
      BY <1>5, <1>6, <1>12, <3>1, WithinParts
    <3> QED BY <3>2
  <2>3. PICK s2 : /\ Reaches(F, D, Len(loaded.text), s1, Len(moved.text), s2)
                  /\ Loaded(A, s1, s2, 14, address) /\ Agrees(moved, s2)
    BY <1>2, <1>5, <1>13, <1>14, <2>2, LoadRuns DEF moved
  <2> DEFINE t == Execute(s2, j, D)
  <2>4. /\ s2 \in Machines(A) /\ s2.memory = s1.memory /\ s2.reg[14] = address
        /\ s2.reg[15] = value /\ s2.reg[1] = s1.reg[1]
    BY <1>2, <1>14, <2>3 DEF Loaded
  <2>5. (s2.reg[14] + SignedHalf(0 % Half)) % Full = address
    <3>1. 0 % Half = 0
      BY RealWords, SMT
    <3>2. SignedHalf(0) = 0
      BY RealWords DEF SignedHalf
    <3>3. (address + 0) % Full = address
      BY <1>3, CutWord
    <3> QED BY <2>4, <3>1, <3>2, <3>3
  <2>6. /\ t \in Machines(A) /\ t.equal = s2.equal
        /\ t.memory = Poke(s2.memory, address, BytesOf(s2.reg[15], size))
        /\ t.reg[14] = s2.reg[14]
        /\ \A q \in Registers \ {14} : t.reg[q] = s2.reg[q]
    <3> DEFINE z == 0
               up == FALSE
    <3>1. up \in BOOLEAN /\ (s2.reg[14] + SignedHalf(z % Half)) % Full = address
      BY <2>5
    <3>2. t = Execute(s2, StoreTo(15, 14, z, size, up), D)
      BY DEF j
    <3> HIDE DEF t, z, up
    <3>3. t.reg[14] = IF up THEN address ELSE s2.reg[14]
      BY <1>2, <2>4, <3>1, <3>2, StoreExecutes
    <3>4. /\ t \in Machines(A) /\ t.equal = s2.equal
          /\ t.memory = Poke(s2.memory, address, BytesOf(s2.reg[15], size))
          /\ \A q \in Registers \ {14} : t.reg[q] = s2.reg[q]
      BY <1>2, <2>4, <3>1, <3>2, StoreExecutes
    <3> QED BY <3>3, <3>4 DEF up
  <2>7. Reaches(F, D, Len(moved.text), s2, Len(l.text), t)
    BY <1>6, <1>10, <2>1, <2>2, LineRuns DEF Line
  <2> HIDE DEF t
  <2>8. Agrees(l, t)
    <3>1. \A q \in Registers : t.reg[q] = s2.reg[q]
      BY <2>6
    <3>2. DOMAIN moved.known \subseteq Registers
      BY <1>2, <1>6, KnowledgeOf
    <3> QED BY <1>10, <2>1, <2>3, <3>1, <3>2 DEF Agrees
  <2>9. t.memory = Poke(s1.memory, address, bytes) /\ t.reg[1] = s1.reg[1]
    BY <1>2, <2>4, <2>6 DEF bytes
  <2>10. Reaches(F, D, Len(loaded.text), s1, Len(l.text), t)
    BY <2>2, <2>3, <2>7, Onward
  <2> QED BY <1>15, <2>6, <2>8, <2>9, <2>10 DEF l, bytes
<1> QED BY <1>16, <1>17

-----------------------------------------------------------------------------
(* Tests.                                                                  *)

\* The high half that an address is reached from.
LEMMA HighHalf ==
  ASSUME RealBytes, NEW address \in Word, NEW near,
         near = IF address % Half >= Half \div 2 THEN address + Half ELSE address,
         NEW base, base = (near - (near % Half)) % Full
  PROVE  base \in Word /\ near % Half \in Int /\ (base + SignedHalf(near % Half)) % Full = address
<1> DEFINE low == address % 65536
           high == address \div 65536
           bit == IF low >= 32768 THEN 1 ELSE 0
<1>1. address \in Nat /\ address < 4294967296 /\ Half = 65536 /\ Half \div 2 = 32768
  <2>1. 65536 * 65536 = 4294967296
    BY SMT
  <2> QED BY <2>1, RealWords
<1>2. /\ low \in Nat /\ low < 65536 /\ high \in Nat /\ high < 65536
      /\ address = high * 65536 + low
  BY <1>1, SMT
<1>3. near = (high + bit) * 65536 + low /\ bit \in {0, 1}
  BY <1>1, <1>2, SMT
<1> HIDE DEF low, high
<1>4. near \in Int /\ near % 65536 = low /\ near - low = (high + bit) * 65536
  BY <1>2, <1>3, SMT
<1>5. near % Half = low
  BY <1>1, <1>4
<1>6. base = (near - low) % 4294967296
  <2>1. base = (near - low) % Full /\ near - low \in Int
    BY <1>2, <1>4, <1>5
  <2> QED BY <2>1, SignedNumbers
<1>7. SignedHalf(low) = IF low >= 32768 THEN low - 65536 ELSE low
  BY <1>2, SignedNumbers
<1>8. base \in Nat /\ base < 4294967296
      /\ (base + (IF low >= 32768 THEN low - 65536 ELSE low)) % 4294967296 = address
  BY <1>1, <1>2, <1>3, <1>4, <1>6, SMT
<1>9. base + SignedHalf(low) \in Int
  BY <1>2, <1>7, <1>8
<1>10. (base + SignedHalf(low)) % Full = address
  BY <1>7, <1>8, <1>9, SignedNumbers
<1>11. base \in Word
  <2>1. 65536 * 65536 = 4294967296
    BY SMT
  <2> QED BY <1>8, <2>1, RealWords
<1> QED BY <1>2, <1>5, <1>10, <1>11

\* The value of a field or a word in memory.
LEMMA MemoryValues ==
  ASSUME NEW A, NEW s \in Machines(A), NEW a \in Word, NEW size \in {1, 2, 4}
  PROVE  ValueAt(s.memory, a, size) \in Word
<1> DEFINE f == s.memory
<1>1. f \in [A -> 0 .. Byte - 1]
  BY DEF Machines
<1>2. a \in Int
  BY CutWord
<1>3. \A x \in DOMAIN f : f[x] \in 0 .. Byte - 1
  <2> HIDE DEF f
  <2> QED BY <1>1
<1> HIDE DEF f
<1>4. /\ ValueAt(f, a, 1) \in 0 .. Byte - 1
      /\ ValueAt(f, a, 2) \in Field /\ ValueAt(f, a, 4) \in Word
  BY <1>2, <1>3, ValuesFit
<1>5. Field \subseteq Word /\ 0 .. Byte - 1 \subseteq Word
  <2>1. ASSUME NEW h \in Nat \ {0} PROVE h <= h * h
    BY SMT
  <2>2. Byte <= Half /\ Half <= Full
    BY <2>1, WidthsPositive DEF Half, Full
  <2> QED BY <2>2, WidthsPositive DEF Field, Word
<1>6. CASE size = 1
  BY <1>4, <1>5, <1>6 DEF f
<1>7. CASE size = 2
  BY <1>4, <1>5, <1>7 DEF f
<1>8. CASE size = 4
  BY <1>4, <1>8 DEF f
<1> QED BY <1>6, <1>7, <1>8

\* A value is loaded, and what is known is what the machine has.
LEMMA MemoryLoadRuns ==
  ASSUME RealBytes, NEW A, NEW s \in Machines(A), NEW r \in Register \ {0}, NEW address \in Word,
         NEW size \in {1, 2, 4}, NEW F, NEW D, NEW e \in Emission, Agrees(e, s),
         Within(F, e, MemoryLoad(e, r, address, size))
  PROVE  \E t : /\ Reaches(F, D, Len(e.text), s, Len(MemoryLoad(e, r, address, size).text), t)
                /\ Loaded(A, s, t, r, ValueAt(s.memory, address, size))
                /\ Agrees(MemoryLoad(e, r, address, size), t)
                /\ ~ IsKnown(MemoryLoad(e, r, address, size), r)
<1> DEFINE near == IF address % Half >= Half \div 2 THEN address + Half ELSE address
           base == (near - (near % Half)) % Full
           i == [op |-> "load", d |-> r, a |-> r, imm |-> near % Half, size |-> size]
           high == ImmediateLoad(e, r, base)
           m == Emit(high, <<i>>)
           l == MemoryLoad(e, r, address, size)
           v == ValueAt(s.memory, address, size)
<1>1. l = Forget(m, r)
  BY DEF MemoryLoad
<1>2. base \in Word /\ (base + SignedHalf(near % Half)) % Full = address
  <2> HIDE DEF near
  <2>1. near = IF address % Half >= Half \div 2 THEN address + Half ELSE address
    BY DEF near
  <2> DEFINE b == base
  <2>2. b = (near - (near % Half)) % Full
    OBVIOUS
  <2> HIDE DEF b
  <2>3. b \in Word /\ (b + SignedHalf(near % Half)) % Full = address
    BY <2>1, <2>2, HighHalf
  <2> QED BY <2>3 DEF b
<1>3. address \in Int /\ r \in Register /\ r # 0 /\ r \in Registers
  BY CutWord DEF Register, Registers
<1>4. near \in Int
  BY <1>3, WidthsPositive
<1> HIDE DEF near
<1>5. near % Half \in Field
  BY <1>4, CutFits
<1> HIDE DEF base
<1>6. i \in Instruction
  BY <1>3, <1>5 DEF Instruction
<1>7. high \in Emission /\ high \in Extensions(e)
  <2>1. high \in Extensions(e)
    BY <1>2, <1>3, CutWord, ExtendsItself, Loading
  <2> QED BY <2>1 DEF Extensions
<1> HIDE DEF high
<1>8. m \in Extensions(high) /\ m.text = high.text \o <<i>> /\ m.known = high.known
  <2> DEFINE ins == <<i>>
  <2> HIDE DEF i
  <2>1. ins \in Seq(Instruction)
    BY <1>6, Instructions
  <2> HIDE DEF ins
  <2>2. Emit(high, ins) \in Extensions(high) /\ Emit(high, ins).text = high.text \o ins
        /\ Emit(high, ins).known = high.known
    BY <1>7, <2>1, Emitted
  <2> QED BY <2>2 DEF ins
<1>9. m \in Emission
  BY <1>8 DEF Extensions
<1> HIDE DEF m
<1>10. l \in Extensions(high) /\ l.text = m.text
  <2>1. l \in Extensions(high)
    BY <1>1, <1>7, <1>8, Forgetting
  <2> QED BY <1>1, <1>9, <2>1 DEF Forget, Emission
<1>11. ~ IsKnown(l, r)
  <2>1. l.known = [q \in DOMAIN m.known \ {r} |-> m.known[q]]
    BY <1>1, <1>9 DEF Forget, Emission
  <2> HIDE DEF l
  <2> QED BY <2>1 DEF IsKnown
<1> HIDE DEF l
<1>12. /\ Len(e.text) \in Nat /\ Len(high.text) \in Nat /\ Len(l.text) \in Nat
       /\ Len(e.text) <= Len(high.text) /\ Len(high.text) <= Len(l.text)
       /\ Within(F, e, high) /\ Within(F, high, l)
  <2>1. Within(F, e, l)
    BY DEF l
  <2> QED BY <1>7, <1>10, <2>1, WithinParts
<1>13. PICK t : /\ Reaches(F, D, Len(e.text), s, Len(high.text), t)
                /\ Loaded(A, s, t, r, base) /\ Agrees(high, t)
  BY <1>2, <1>3, <1>12, LoadRuns DEF high
<1>14. t \in Machines(A) /\ t.memory = s.memory /\ t.reg[r] = base /\ t.skip = 0
  BY <1>13 DEF Loaded, Machines
<1> DEFINE u == Execute(t, i, D)
<1>15. u = Set(t, r, v)
  <2>1. i.op = "load" /\ i.d = r /\ i.a = r /\ i.imm = near % Half /\ i.size = size
    OBVIOUS
  <2> HIDE DEF i
  <2>2. u = Set(t, i.d, ValueAt(t.memory, Address(t, i), i.size))
    BY <1>14, <2>1, Executing
  <2>3. Address(t, i) = address
    <3>1. Base(t, r) = base
      BY <1>3, <1>14 DEF Base
    <3> QED BY <1>2, <2>1, <3>1 DEF Address
  <2> QED BY <1>14, <2>1, <2>2, <2>3
<1>16. v \in Word
  BY MemoryValues
<1> HIDE DEF v, u
<1>17. Loaded(A, t, u, r, v)
  <2>1. Loaded(A, t, u, r, v % Full)
    BY <1>3, <1>14, <1>15, <1>16, CutWord, Setting
  <2> QED BY <1>16, <2>1, CutWord
<1>18. Loaded(A, s, u, r, v)
  BY <1>13, <1>17, LoadedTwice
<1>19. Agrees(l, u)
  <2>1. u.reg[r] = v /\ \A q \in Registers \ {r} : u.reg[q] = t.reg[q]
    BY <1>17 DEF Loaded
  <2>2. Agrees(m, t)
    BY <1>8, <1>13 DEF Agrees
  <2> QED BY <1>1, <1>3, <1>9, <2>1, <2>2, Reminded
<1>20. Reaches(F, D, Len(high.text), t, Len(l.text), u)
  <2>1. l.text = high.text \o <<i>> /\ i \in Line
    BY <1>6, <1>8, <1>10 DEF Line
  <2> HIDE DEF i
  <2> QED BY <1>7, <1>12, <2>1, LineRuns DEF u
<1>21. Reaches(F, D, Len(e.text), s, Len(l.text), u)
  <2>1. Len(e.text) \in Int /\ Len(high.text) \in Int /\ Len(l.text) \in Int
    BY <1>12
  <2> QED BY <1>12, <1>13, <1>20, <2>1, Onward
<1> QED BY <1>11, <1>18, <1>19, <1>21 DEF l, v

\* t is s as far as memory and the stack pointer go.
Calm(A, s, t) == t \in Machines(A) /\ t.memory = s.memory /\ t.reg[1] = s.reg[1]

\* A machine that has compared.
LEMMA Judged ==
  ASSUME NEW A, NEW s \in Machines(A), NEW b, b \in BOOLEAN
  PROVE  LET t == [s EXCEPT !.equal = b]
         IN  t \in Machines(A) /\ t.memory = s.memory /\ t.reg = s.reg /\ t.equal = b
<1>1. /\ s.memory \in [A -> 0 .. Byte - 1] /\ s.skip = 0 /\ s.ok = TRUE
      /\ s.reg \in [Registers -> Word]
  BY DEF Machines
<1>2. s = [memory |-> s.memory, reg |-> s.reg, equal |-> s.equal, skip |-> s.skip, ok |-> s.ok]
  BY DEF Machines
<1> DEFINE u == [memory |-> s.memory, reg |-> s.reg, equal |-> b, skip |-> s.skip, ok |-> s.ok]
<1>3. [s EXCEPT !.equal = b] = u
  BY <1>2
<1>4. u \in Machines(A)
  BY <1>1 DEF Machines
<1> QED BY <1>3, <1>4

\* A machine of which nothing is wrong.
LEMMA NothingWrong ==
  ASSUME NEW A, NEW s \in Machines(A), NEW fine, fine = TRUE
  PROVE  Checked(s, fine) = s
<1>1. s.ok = TRUE
  BY DEF Machines
<1>2. s = [memory |-> s.memory, reg |-> s.reg, equal |-> s.equal, skip |-> s.skip, ok |-> s.ok]
  BY DEF Machines
<1>3. [s EXCEPT !.ok = s.ok]
        = [memory |-> s.memory, reg |-> s.reg, equal |-> s.equal, skip |-> s.skip, ok |-> s.ok]
  BY <1>2
<1>4. Checked(s, fine) = [s EXCEPT !.ok = s.ok]
  <2>1. (s.ok /\ fine) = s.ok
    BY <1>1
  <2> QED BY <2>1 DEF Checked
<1> QED BY <1>2, <1>3, <1>4

\* The two comparisons, of a machine that skips nothing.
LEMMA Comparisons ==
  ASSUME NEW s, s.skip = 0, NEW i, NEW D
  PROVE  /\ i.op = "cmpwi" =>
              \E b \in BOOLEAN : /\ b <=> SignedWord(s.reg[i.a]) = SignedHalf(i.imm)
                               /\ Execute(s, i, D) = [s EXCEPT !.equal = b]
         /\ i.op = "cmpw" =>
              \E b \in BOOLEAN : /\ b <=> s.reg[i.a] = s.reg[i.b]
                               /\ Execute(s, i, D) = [Checked(s, i.altId = 0) EXCEPT !.equal = b]
<1>1. ~ s.skip > 0
  OBVIOUS
<1>2. ASSUME i.op = "cmpwi"
      PROVE  Execute(s, i, D) = [s EXCEPT !.equal = SignedWord(s.reg[i.a]) = SignedHalf(i.imm)]
  BY <1>1, <1>2 DEF Execute
<1>3. ASSUME i.op = "cmpw"
      PROVE  Execute(s, i, D) = [Checked(s, i.altId = 0) EXCEPT !.equal = s.reg[i.a] = s.reg[i.b]]
  BY <1>1, <1>3 DEF Execute
<1> DEFINE same == SignedWord(s.reg[i.a]) = SignedHalf(i.imm)
           equal == s.reg[i.a] = s.reg[i.b]
<1>4. same \in BOOLEAN /\ (same <=> SignedWord(s.reg[i.a]) = SignedHalf(i.imm))
      /\ equal \in BOOLEAN /\ (equal <=> s.reg[i.a] = s.reg[i.b])
  OBVIOUS
<1>5. /\ i.op = "cmpwi" => Execute(s, i, D) = [s EXCEPT !.equal = same]
      /\ i.op = "cmpw" => Execute(s, i, D) = [Checked(s, i.altId = 0) EXCEPT !.equal = equal]
  BY <1>2, <1>3, Zenon
<1> HIDE DEF same, equal
<1> QED BY <1>4, <1>5, Zenon

\* A small value is the same signed and unsigned.
LEMMA SmallSame ==
  ASSUME RealBytes, NEW x \in Word, NEW value \in Word, value < Half \div 2
  PROVE  SignedWord(x) = SignedHalf(value) <=> x = value
<1>1. x \in Nat /\ x < 4294967296 /\ value \in Nat /\ value < 32768
  <2>1. 65536 * 65536 = 4294967296
    BY SMT
  <2> QED BY <2>1, RealWords
<1>2. SignedWord(x) = IF x >= 2147483648 THEN x - 4294967296 ELSE x
  BY <1>1, SignedNumbers
<1>3. SignedHalf(value) = value
  BY <1>1, SignedNumbers
<1> QED BY <1>1, <1>2, <1>3

\* The comparison.
LEMMA CompareRuns ==
  ASSUME RealBytes, NEW A, NEW s \in Machines(A), NEW value \in Word,
         dirty => value < Half \div 2, NEW F, NEW D, NEW e \in Emission, Agrees(e, s),
         Within(F, e, Compare(e, 14, value))
  PROVE  \E t : /\ Reaches(F, D, Len(e.text), s, Len(Compare(e, 14, value).text), t)
                /\ Calm(A, s, t) /\ (t.equal <=> s.reg[14] = value)
                /\ Agrees(Compare(e, 14, value), t)
<1> DEFINE l == Compare(e, 14, value)
<1>1. 14 \in Register /\ 15 \in Register \ {0} /\ 15 \in Register /\ 14 \in Registers
      /\ 15 \in Registers /\ 1 \in Registers
  BY DEF Register, Registers
<1>2. value \in Nat /\ value \in Int
  BY CutWord
<1>3. ASSUME NEW x \in Machines(A) PROVE x.skip = 0 /\ x.ok = TRUE /\ x.reg[14] \in Word
  BY <1>1 DEF Machines
<1>4. CASE value < Half \div 2
  <2> DEFINE i == [op |-> "cmpwi", a |-> 14, imm |-> value]
             t == Execute(s, i, D)
  <2>1. l = Emit(e, <<i>>)
    BY <1>4 DEF Compare
  <2>2. i \in Instruction
    <3>1. value \in Field
      BY <1>2, <1>4, WidthsPositive DEF Field
    <3> QED BY <1>1, <3>1 DEF Instruction
  <2>3. PICK b \in BOOLEAN : (b <=> s.reg[14] = value) /\ t = [s EXCEPT !.equal = b]
    <3>1. i.op = "cmpwi" /\ i.a = 14 /\ i.imm = value
      OBVIOUS
    <3> HIDE DEF i
    <3>2. s.skip = 0 /\ s.reg[14] \in Word
      BY <1>3
    <3>3. PICK b \in BOOLEAN : /\ b <=> SignedWord(s.reg[i.a]) = SignedHalf(i.imm)
                              /\ Execute(s, i, D) = [s EXCEPT !.equal = b]
      BY <3>1, <3>2, Comparisons
    <3>4. b <=> SignedWord(s.reg[14]) = SignedHalf(value)
      BY <3>1, <3>3, Zenon
    <3>5. b <=> s.reg[14] = value
      BY <1>4, <3>2, <3>4, SmallSame
    <3> QED BY <3>3, <3>5, Zenon DEF t
  <2>4. <<i>> \in Seq(Instruction)
    <3> HIDE DEF i
    <3> QED BY <2>2, Instructions
  <2> DEFINE ins == <<i>>
  <2>5. l = Emit(e, ins) /\ ins \in Seq(Instruction)
    BY <2>1, <2>4
  <2> HIDE DEF i, t, l, ins
  <2>6. l.text = e.text \o ins /\ l.known = e.known
    BY <2>5, Emitted
  <2>7. t \in Machines(A) /\ t.memory = s.memory /\ t.reg = s.reg /\ t.equal = b
    BY <2>3, Judged, Zenon
  <2>8. Reaches(F, D, Len(e.text), s, Len(l.text), t)
    <3>1. l.text = e.text \o <<i>> /\ i \in Line /\ Within(F, e, l)
      BY <2>2, <2>6 DEF ins, Line, l
    <3> QED BY <3>1, LineRuns DEF t
  <2>9. Agrees(l, t) /\ Calm(A, s, t)
    BY <2>6, <2>7 DEF Agrees, Calm
  <2> QED BY <2>3, <2>7, <2>8, <2>9 DEF l
<1>5. CASE ~ (value < Half \div 2)
  <2> DEFINE i == [op |-> "cmpw", a |-> 14, b |-> 15, altId |-> 0]
             ins == <<i>>
             m == ImmediateLoad(e, 15, value)
  <2>1. l = Emit(m, ins)
    BY <1>5 DEF Compare
  <2>2. i \in Instruction
    BY <1>1 DEF Instruction
  <2>3. ins \in Seq(Instruction)
    <3> HIDE DEF i
    <3> QED BY <2>2, Instructions
  <2>4. m \in Extensions(e) /\ m \in Emission
    <3>1. m \in Extensions(e)
      BY <1>1, <1>2, ExtendsItself, Loading
    <3> QED BY <3>1 DEF Extensions
  <2>5. i.op = "cmpw" /\ i.a = 14 /\ i.b = 15 /\ i.altId = 0
    OBVIOUS
  <2> HIDE DEF m, i, ins, l
  <2>6. l \in Extensions(m) /\ l.text = m.text \o ins /\ l.known = m.known
    BY <2>1, <2>3, <2>4, Emitted
  <2>7. /\ Len(e.text) \in Nat /\ Len(m.text) \in Nat /\ Len(l.text) \in Nat
        /\ Len(e.text) <= Len(m.text) /\ Len(m.text) <= Len(l.text)
        /\ Within(F, e, m) /\ Within(F, m, l)
    <3>1. Within(F, e, l)
      BY DEF l
    <3> QED BY <2>4, <2>6, <3>1, WithinParts
  <2>8. PICK s1 : /\ Reaches(F, D, Len(e.text), s, Len(m.text), s1)
                  /\ Loaded(A, s, s1, 15, value) /\ Agrees(m, s1)
    BY <1>1, <2>7, LoadRuns DEF m
  <2>9. s1 \in Machines(A) /\ s1.memory = s.memory /\ s1.reg[15] = value
        /\ s1.reg[14] = s.reg[14] /\ s1.reg[1] = s.reg[1]
    BY <1>1, <2>8 DEF Loaded
  <2> DEFINE t == Execute(s1, i, D)
  <2>10. PICK b \in BOOLEAN : (b <=> s1.reg[14] = value) /\ t = [s1 EXCEPT !.equal = b]
    <3>1. s1.skip = 0
      BY <1>3, <2>9
    <3>2. PICK b \in BOOLEAN : /\ b <=> s1.reg[i.a] = s1.reg[i.b]
                              /\ Execute(s1, i, D) = [Checked(s1, i.altId = 0) EXCEPT !.equal = b]
      BY <2>5, <3>1, Comparisons
    <3>3. Checked(s1, i.altId = 0) = s1
      <4>1. (i.altId = 0) = TRUE
        BY <2>5
      <4> QED BY <2>9, <4>1, NothingWrong
    <3>4. b <=> s1.reg[14] = value
      BY <2>5, <2>9, <3>2, Zenon
    <3> QED BY <3>2, <3>3, <3>4, Zenon DEF t
  <2> HIDE DEF t
  <2>11. t \in Machines(A) /\ t.memory = s1.memory /\ t.reg = s1.reg /\ t.equal = b
    BY <2>9, <2>10, Judged, Zenon
  <2>12. Reaches(F, D, Len(m.text), s1, Len(l.text), t)
    <3>1. l.text = m.text \o <<i>> /\ i \in Line
      BY <2>2, <2>6 DEF ins, Line
    <3> QED BY <2>4, <2>7, <3>1, LineRuns DEF t
  <2>13. Agrees(l, t) /\ Calm(A, s, t)
    BY <2>6, <2>8, <2>9, <2>11 DEF Agrees, Calm
  <2>14. Reaches(F, D, Len(e.text), s, Len(l.text), t)
    <3>1. Len(e.text) \in Int /\ Len(m.text) \in Int /\ Len(l.text) \in Int
      BY <2>7
    <3> QED BY <2>7, <2>8, <2>12, <3>1, Onward
  <2> QED BY <2>9, <2>10, <2>11, <2>13, <2>14 DEF l
<1> QED BY <1>4, <1>5

\* What a word shares with anything is a word.
LEMMA SharedWord ==
  ASSUME NEW x \in Word, NEW y \in Nat
  PROVE  And(x, y) \in Word
<1>1. x \in Nat /\ And(x, y) \in Nat /\ And(x, y) <= x
  BY CutWord, SharedFits
<1>2. x < Full
  BY WidthsPositive DEF Word
<1> QED BY <1>1, <1>2, WidthsPositive DEF Word

\* The mask.
LEMMA MaskRuns ==
  ASSUME RealBytes, NEW A, NEW s \in Machines(A), NEW mask \in Field, NEW F, NEW D,
         NEW e \in Emission, Agrees(e, s), ~ IsKnown(e, 14), Within(F, e, Mask(e, 14, 15, mask))
  PROVE  \E t : /\ Reaches(F, D, Len(e.text), s, Len(Mask(e, 14, 15, mask).text), t)
                /\ Calm(A, s, t) /\ t.reg[14] = And(s.reg[14], mask)
                /\ Agrees(Mask(e, 14, 15, mask), t)
<1> DEFINE l == Mask(e, 14, 15, mask)
           v == And(s.reg[14], mask)
<1>1. 14 \in Register /\ 15 \in Register \ {0} /\ 15 \in Register /\ 14 \in Registers
      /\ 15 \in Registers /\ 1 \in Registers
  BY DEF Register, Registers
<1>2. mask \in Nat /\ mask < Half /\ mask \in Word /\ mask \in Int /\ mask % Half = mask
  <2>1. mask \in Nat /\ mask < Half
    BY WidthsPositive DEF Field
  <2>2. mask \in Word
    <3>1. ASSUME NEW h \in Nat \ {0} PROVE h <= h * h
      BY SMT
    <3> QED BY <2>1, <3>1, WidthsPositive DEF Word, Full
  <2>3. ASSUME NEW n \in Nat \ {0}, NEW x \in 0 .. n - 1 PROVE x % n = x
    BY SMT
  <2> QED BY <2>1, <2>2, <2>3, WidthsPositive DEF Field
<1>3. ASSUME NEW x \in Machines(A) PROVE x.skip = 0 /\ x.reg[14] \in Word
  BY <1>1 DEF Machines
<1>4. v \in Word
  BY <1>2, <1>3, SharedWord
<1>5. CASE mask < Half \div 2
  <2> DEFINE i == Immediate("andi", 14, 14, mask)
             ins == <<i>>
             t == Execute(s, i, D)
  <2>1. l = Emit(e, ins)
    BY <1>5 DEF Mask
  <2>2. i \in Instruction
    BY <1>1, <1>2, ImmediateTyped
  <2>3. t = Set(s, 14, v)
    <3>1. t = Set(s, 14, And(s.reg[14], mask % Half))
      BY Immediates
    <3> QED BY <1>2, <3>1
  <2> HIDE DEF i, l
  <2>4. ins \in Seq(Instruction)
    BY <2>2, Instructions
  <2> HIDE DEF ins, t, v
  <2>5. l.text = e.text \o ins /\ l.known = e.known
    BY <2>1, <2>4, Emitted
  <2>6. Loaded(A, s, t, 14, v)
    <3>1. Loaded(A, s, t, 14, v % Full)
      BY <1>1, <1>4, <2>3, CutWord, Setting
    <3> QED BY <1>4, <3>1, CutWord
  <2>7. Agrees(l, t)
    <3>1. \A q \in DOMAIN e.known : q \in Registers \ {14}
      BY <1>1, KnowledgeOf DEF IsKnown
    <3> QED BY <2>5, <2>6, <3>1 DEF Agrees, Loaded
  <2>8. Calm(A, s, t) /\ t.reg[14] = v
    BY <1>1, <2>6 DEF Loaded, Calm
  <2>9. Reaches(F, D, Len(e.text), s, Len(l.text), t)
    <3>1. l.text = e.text \o <<i>> /\ i \in Line /\ Within(F, e, l)
      BY <2>2, <2>5 DEF ins, Line, l
    <3> QED BY <3>1, LineRuns DEF t
  <2> QED BY <2>7, <2>8, <2>9 DEF l, v
<1>6. CASE ~ (mask < Half \div 2)
  <2> DEFINE i == [op |-> "and", d |-> 14, a |-> 14, b |-> 15]
             ins == <<i>>
             m == ImmediateLoad(e, 15, mask)
             n == Emit(m, ins)
  <2>1. l = Forget(n, 14)
    BY <1>6 DEF Mask
  <2>2. i \in Instruction
    BY <1>1 DEF Instruction
  <2>3. ins \in Seq(Instruction)
    <3> HIDE DEF i
    <3> QED BY <2>2, Instructions
  <2>4. m \in Extensions(e) /\ m \in Emission
    <3>1. m \in Extensions(e)
      BY <1>1, <1>2, ExtendsItself, Loading
    <3> QED BY <3>1 DEF Extensions
  <2>5. i.op = "and" /\ i.d = 14 /\ i.a = 14 /\ i.b = 15
    OBVIOUS
  <2> HIDE DEF m, i, ins
  <2>6. n \in Extensions(m) /\ n.text = m.text \o ins /\ n.known = m.known /\ n \in Emission
    BY <2>3, <2>4, Emitted
  <2> HIDE DEF n, l
  <2>7. l \in Extensions(m) /\ l.text = n.text
    <3>1. l \in Extensions(m)
      BY <2>1, <2>4, <2>6, Forgetting
    <3> QED BY <2>1, <2>6, <3>1 DEF Forget, Emission
  <2>8. /\ Len(e.text) \in Nat /\ Len(m.text) \in Nat /\ Len(l.text) \in Nat
        /\ Len(e.text) <= Len(m.text) /\ Len(m.text) <= Len(l.text)
        /\ Within(F, e, m) /\ Within(F, m, l)
    <3>1. Within(F, e, l)
      BY DEF l
    <3> QED BY <2>4, <2>7, <3>1, WithinParts
  <2>9. PICK s1 : /\ Reaches(F, D, Len(e.text), s, Len(m.text), s1)
                  /\ Loaded(A, s, s1, 15, mask) /\ Agrees(m, s1)
    BY <1>1, <1>2, <2>8, LoadRuns DEF m
  <2>10. s1 \in Machines(A) /\ s1.memory = s.memory /\ s1.reg[15] = mask
        /\ s1.reg[14] = s.reg[14] /\ s1.reg[1] = s.reg[1]
    BY <1>1, <2>9 DEF Loaded
  <2> DEFINE t == Execute(s1, i, D)
  <2>11. t = Set(s1, 14, v)
    <3>1. t = Set(s1, i.d, And(s1.reg[i.a], s1.reg[i.b]))
      BY <1>3, <2>5, <2>10, Executing
    <3> HIDE DEF t
    <3> QED BY <2>5, <2>10, <3>1
  <2> HIDE DEF t, v
  <2>12. Loaded(A, s1, t, 14, v)
    <3>1. Loaded(A, s1, t, 14, v % Full)
      BY <1>1, <1>4, <2>10, <2>11, CutWord, Setting
    <3> QED BY <1>4, <3>1, CutWord
  <2>13. Agrees(l, t)
    <3>1. t.reg[14] = v /\ \A q \in Registers \ {14} : t.reg[q] = s1.reg[q]
      BY <2>12 DEF Loaded
    <3>2. Agrees(n, s1)
      BY <2>6, <2>9 DEF Agrees
    <3>3. Agrees(Remember(n, 14, v), t) /\ Agrees(Forget(n, 14), t)
      BY <1>1, <2>6, <3>1, <3>2, Reminded
    <3> QED BY <2>1, <3>3
  <2>14. Reaches(F, D, Len(m.text), s1, Len(l.text), t)
    <3>1. l.text = m.text \o <<i>> /\ i \in Line
      BY <2>2, <2>6, <2>7 DEF ins, Line
    <3> QED BY <2>4, <2>8, <3>1, LineRuns DEF t
  <2>15. Calm(A, s, t) /\ t.reg[14] = v
    BY <1>1, <2>10, <2>12 DEF Loaded, Calm
  <2>16. Reaches(F, D, Len(e.text), s, Len(l.text), t)
    <3>1. Len(e.text) \in Int /\ Len(m.text) \in Int /\ Len(l.text) \in Int
      BY <2>8
    <3> QED BY <2>8, <2>9, <2>14, <3>1, Onward
  <2> QED BY <2>13, <2>15, <2>16 DEF l, v
<1> QED BY <1>5, <1>6

-----------------------------------------------------------------------------
(* Loops of stores.                                                        *)

\* What was emitted from e to l takes s to where its memory is `memory`, with the stack
\* pointer where it was and in the registers what is known of them.
Leaves(F, D, A, e, s, l, memory) ==
  \E t : /\ Reaches(F, D, Len(e.text), s, Len(l.text), t)
         /\ t \in Machines(A) /\ t.memory = memory /\ t.reg[1] = s.reg[1] /\ Agrees(l, t)

\* What n stores do to memory.
PokeLoop(upTo, memory, n, at, value, size) ==
  /\ upTo[0] = memory
  /\ \A i \in 1 .. n : upTo[i] = Poke(upTo[i - 1], at[i], BytesOf(value[i], size))

\* Stores one after the other.
LEMMA StoresRun ==
  ASSUME RealBytes, NEW A, NEW s \in Machines(A), NEW n \in Nat, NEW at \in [1 .. n -> Word],
         NEW value \in [1 .. n -> Word], NEW size \in {1, 2, 4}, NEW F, NEW D,
         NEW e \in Emission, Agrees(e, s), NEW f, StoreLoop(f, e, n, at, value, size),
         Within(F, e, f[n]), NEW upTo, PokeLoop(upTo, s.memory, n, at, value, size)
  PROVE  Leaves(F, D, A, e, s, f[n], upTo[n]) /\ f[n] \in Extensions(e)
<1> DEFINE fine(i) == /\ f[i] \in Extensions(e)
                      /\ Within(F, e, f[i]) => Leaves(F, D, A, e, s, f[i], upTo[i])
           S == {i \in 0 .. n : fine(i)}
           id == [i \in 0 .. n |-> i]
<1>1. f = [i \in 0 .. n |-> IF i = 0 THEN e ELSE Store(f[i - 1], at[i], value[i], size)]
  BY DEF StoreLoop
<1>2. 0 \in 0 .. n /\ n \in 0 .. n
  OBVIOUS
<1>3. f[0] = e
  BY <1>1, <1>2
<1>4. ASSUME NEW i \in 1 .. n
      PROVE  i \in 0 .. n /\ i - 1 \in 0 .. n /\ f[i] = Store(f[i - 1], at[i], value[i], size)
  <2>1. i \in 0 .. n /\ i - 1 \in 0 .. n /\ i # 0
    OBVIOUS
  <2> QED BY <1>1, <2>1
<1>5. fine(0)
  <2>1. Len(e.text) \in Int
    <3>1. e.text \in Seq(Line)
      BY DEF Emission
    <3> QED BY <3>1, LenProperties
  <2>2. Reaches(F, D, Len(e.text), s, Len(e.text), s)
    BY <2>1, Staying
  <2>3. Leaves(F, D, A, e, s, e, upTo[0])
    BY <2>2 DEF Leaves, PokeLoop
  <2> QED BY <1>3, <2>3, ExtendsItself
<1>6. ASSUME NEW i \in 1 .. n, fine(i - 1) PROVE fine(i)
  <2> DEFINE p == f[i - 1]
             q == f[i]
             a == at[i]
             v == value[i]
  <2>1. p \in Extensions(e) /\ p \in Emission /\ q = Store(p, a, v, size) /\ a \in Word /\ v \in Word
    BY <1>4, <1>6 DEF Extensions
  <2>2. Within(F, e, p) => Leaves(F, D, A, e, s, p, upTo[i - 1])
    BY <1>6
  <2>3. upTo[i] = Poke(upTo[i - 1], a, BytesOf(v, size))
    BY DEF PokeLoop
  <2> HIDE DEF p, q, a, v
  <2>4. q \in Extensions(p)
    BY <2>1, ExtendsItself, Storing
  <2>5. q \in Extensions(e)
    BY <2>1, <2>4, ExtensionsNest
  <2>6. ASSUME Within(F, e, q) PROVE Leaves(F, D, A, e, s, q, upTo[i])
    <3>1. /\ Len(e.text) \in Nat /\ Len(p.text) \in Nat /\ Len(q.text) \in Nat
          /\ Len(e.text) <= Len(p.text) /\ Len(p.text) <= Len(q.text)
          /\ Within(F, e, p) /\ Within(F, p, q)
      BY <2>1, <2>4, <2>6, WithinParts
    <3>2. PICK t : /\ Reaches(F, D, Len(e.text), s, Len(p.text), t)
                   /\ t \in Machines(A) /\ t.memory = upTo[i - 1] /\ t.reg[1] = s.reg[1]
                   /\ Agrees(p, t)
      BY <2>2, <3>1 DEF Leaves
    <3>3. PICK u : /\ Reaches(F, D, Len(p.text), t, Len(q.text), u)
                   /\ Wrote(A, t, u, a, BytesOf(v, size)) /\ Agrees(q, u)
      BY <2>1, <3>1, <3>2, StoreRuns
    <3>4. Len(e.text) \in Int /\ Len(p.text) \in Int /\ Len(q.text) \in Int
      BY <3>1
    <3>5. Reaches(F, D, Len(e.text), s, Len(q.text), u)
      BY <3>1, <3>2, <3>3, <3>4, Onward
    <3>6. u \in Machines(A) /\ u.memory = upTo[i] /\ u.reg[1] = s.reg[1]
      BY <2>3, <3>2, <3>3 DEF Wrote
    <3> QED BY <3>3, <3>5, <3>6 DEF Leaves
  <2> QED BY <2>5, <2>6 DEF q
<1> HIDE DEF fine
<1>7. id[0] \in S /\ \A i \in 1 .. n : id[i - 1] \in S => id[i] \in S
  BY <1>2, <1>4, <1>5, <1>6
<1> HIDE DEF S
<1>8. \A i \in 0 .. n : id[i] \in S
  <2> HIDE DEF id
  <2> QED BY <1>7, HandedOn
<1>9. n \in S
  BY <1>2, <1>8
<1>10. fine(n)
  BY <1>9 DEF S
<1> QED BY <1>10 DEF fine

\* n stores, after which there is l, that put `final` where `memory` was.
Stored(e, n, size, memory, l, final) ==
  \E f, at, value, upTo :
    /\ at \in [1 .. n -> Word] /\ value \in [1 .. n -> Word]
    /\ StoreLoop(f, e, n, at, value, size) /\ f[n] = l
    /\ PokeLoop(upTo, memory, n, at, value, size) /\ upTo[n] = final

\* Stores in a loop leave what they say they leave.
LEMMA LoopRuns ==
  ASSUME RealBytes, NEW A, NEW s \in Machines(A), NEW n \in Nat, NEW size \in {1, 2, 4},
         NEW F, NEW D, NEW e \in Emission, Agrees(e, s), NEW l, NEW final,
         Stored(e, n, size, s.memory, l, final), Within(F, e, l)
  PROVE  Leaves(F, D, A, e, s, l, final) /\ l \in Extensions(e)
<1>1. PICK f, at, value, upTo :
        /\ at \in [1 .. n -> Word] /\ value \in [1 .. n -> Word]
        /\ StoreLoop(f, e, n, at, value, size) /\ f[n] = l
        /\ PokeLoop(upTo, s.memory, n, at, value, size) /\ upTo[n] = final
  BY DEF Stored
<1>2. Within(F, e, f[n])
  BY <1>1
<1>3. Leaves(F, D, A, e, s, f[n], upTo[n]) /\ f[n] \in Extensions(e)
  BY <1>1, <1>2, StoresRun
<1> QED BY <1>1, <1>3

\* What an 08 code means, one value after the other.
LEMMA SerialMeaning ==
  ASSUME NEW A, NEW memory \in [A -> Bytes], NEW c, c.op = "serial", c.address \in Int,
         c.value \in Int, c.count \in Nat, c.step \in Int, c.increment \in Int
  PROVE  \E upTo :
           /\ upTo[0] = memory /\ upTo[c.count] = Written(memory, c)
           /\ \A i \in 0 .. c.count : upTo[i] \in [A -> Bytes]
           /\ \A i \in 1 .. c.count :
                upTo[i] = Poke(upTo[i - 1], c.address + (i - 1) * c.step,
                               BytesOf((c.value + (i - 1) * c.increment) % Full, Width(c.bits)))
<1> DEFINE n == c.count
           at(i) == c.address + (i - 1) * c.step
           bytes(i) == BytesOf((c.value + (i - 1) * c.increment) % Full, Width(c.bits))
           S == [A -> Bytes]
           step == [i \in 1 .. n |-> [g \in S |-> Poke(g, at(i), bytes(i))]]
           loop(f) == f = [i \in 0 .. n |-> IF i = 0 THEN memory ELSE Poke(f[i - 1], at(i), bytes(i))]
           u == CHOOSE f : loop(f)
<1>1. ASSUME NEW i \in 1 .. n PROVE at(i) \in Int /\ bytes(i) \in Seq(Bytes)
  <2>1. ASSUME NEW j \in Int, NEW x \in Int, NEW y \in Int PROVE x + (j - 1) * y \in Int
    BY SMT
  <2>2. i \in Int
    OBVIOUS
  <2>3. at(i) \in Int /\ c.value + (i - 1) * c.increment \in Int
    BY <2>1, <2>2
  <2>4. (c.value + (i - 1) * c.increment) % Full \in Int
    <3>1. (c.value + (i - 1) * c.increment) % Full \in Word
      BY <2>3, CutFits
    <3> QED BY <3>1, CutWord
  <2>5. Width(c.bits) \in {1, 2, 4}
    BY DEF Width
  <2>6. bytes(i) \in Seq(Bytes)
    BY <2>4, <2>5, BytesFit
  <2> QED BY <2>3, <2>6
<1>2. Written(memory, c) = u[n]
  BY DEF Written
<1> HIDE DEF at, bytes
<1>3. ASSUME NEW i \in 1 .. n, NEW g \in S PROVE Poke(g, at(i), bytes(i)) \in S
  BY <1>1, PokeFits
<1> HIDE DEF S
<1>4. step \in Steps(S, n)
  BY <1>3 DEF Steps
<1>5. memory \in S /\ n \in Nat
  BY DEF S
<1> HIDE DEF step, n
<1>6. PICK g : Iterates(g, S, memory, n, step)
  BY <1>4, <1>5, Iteration
<1>7. g \in [0 .. n -> S] /\ g = [i \in 0 .. n |-> IF i = 0 THEN memory ELSE step[i][g[i - 1]]]
  BY <1>6 DEF Iterates
<1>8. loop(g)
  <2>1. ASSUME NEW i \in 0 .. n, i # 0 PROVE step[i][g[i - 1]] = Poke(g[i - 1], at(i), bytes(i))
    <3>1. i \in 1 .. n /\ i - 1 \in 0 .. n
      BY <1>5, <2>1
    <3>2. g[i - 1] \in S
      BY <1>7, <3>1
    <3> QED BY <3>1, <3>2 DEF step
  <2> QED BY <1>7, <2>1
<1>9. u = [i \in 0 .. n |-> IF i = 0 THEN memory ELSE Poke(u[i - 1], at(i), bytes(i))]
  <2>1. loop(u)
    <3> HIDE DEF loop
    <3> QED BY <1>8
  <2> HIDE DEF u
  <2> QED BY <2>1
<1> HIDE DEF u
<1>10. 0 \in 0 .. n /\ \A i \in 1 .. n : i \in 0 .. n /\ i - 1 \in 0 .. n /\ i # 0
  BY <1>5
<1>11. u[0] = memory /\ \A i \in 1 .. n : u[i] = Poke(u[i - 1], at(i), bytes(i))
  BY <1>9, <1>10
<1>12. \A i \in 0 .. n : u[i] \in S
  <2>1. u[0] \in S /\ \A i \in 1 .. n : u[i - 1] \in S => u[i] \in S
    BY <1>3, <1>5, <1>11
  <2> QED BY <1>5, <2>1, HandedOn
<1> QED BY <1>2, <1>11, <1>12 DEF S, n, at, bytes

\* An 08 code whose addresses do not wrap around.
LEMMA SerialRuns ==
  ASSUME RealBytes, NEW A, NEW s \in Machines(A), NEW c, c.op = "serial", c.address \in Word,
         c.value \in Word, c.count \in Nat, c.step \in Nat, c.increment \in Word,
         \A i \in 1 .. c.count : c.address + (i - 1) * c.step \in Word,
         NEW F, NEW D, NEW e \in Emission, Agrees(e, s), Within(F, e, SerialWrite(e, c))
  PROVE  Leaves(F, D, A, e, s, SerialWrite(e, c), Written(s.memory, c))
<1> DEFINE n == c.count
           at == [i \in 1 .. n |-> (c.address + (i - 1) * c.step) % Full]
           value == [i \in 1 .. n |-> (c.value + (i - 1) * c.increment) % Full]
           size == Width(c.bits)
           loop(f) == f = [i \in 0 .. n |->
             IF i = 0 THEN e
             ELSE Store(f[i - 1], (c.address + (i - 1) * c.step) % Full,
                        (c.value + (i - 1) * c.increment) % Full, size)]
           u == CHOOSE f : loop(f)
<1>1. n \in Nat
  OBVIOUS
<1>2. ASSUME NEW i \in Int, NEW x \in Int, NEW y \in Int
      PROVE  (x + (i - 1) * y) % Full \in Word
  <2>1. x + (i - 1) * y \in Int
    BY SMT
  <2> QED BY <2>1, CutFits
<1>3. c.address \in Int /\ c.value \in Int /\ c.step \in Int /\ c.increment \in Int
  BY WidthsPositive DEF Word
<1>4. at \in [1 .. n -> Word] /\ value \in [1 .. n -> Word]
  <2>1. ASSUME NEW i \in 1 .. n
        PROVE  /\ (c.address + (i - 1) * c.step) % Full \in Word
               /\ (c.value + (i - 1) * c.increment) % Full \in Word
    <3>1. i \in Int
      OBVIOUS
    <3> QED BY <1>2, <1>3, <3>1
  <2> HIDE DEF n
  <2> QED BY <2>1
<1>5. SerialWrite(e, c) = u[n]
  BY DEF SerialWrite
<1>6. size \in {1, 2, 4}
  BY DEF Width
<1>7. PICK upTo :
        /\ upTo[0] = s.memory /\ upTo[n] = Written(s.memory, c)
        /\ \A i \in 1 .. n :
             upTo[i] = Poke(upTo[i - 1], c.address + (i - 1) * c.step,
                            BytesOf((c.value + (i - 1) * c.increment) % Full, Width(c.bits)))
  <2>1. s.memory \in [A -> Bytes]
    BY DEF Machines, Bytes
  <2> QED BY <1>3, <2>1, SerialMeaning
<1>8. PokeLoop(upTo, s.memory, n, at, value, size)
  <2>1. ASSUME NEW i \in 1 .. n PROVE at[i] = c.address + (i - 1) * c.step
    <3>1. (c.address + (i - 1) * c.step) % Full = c.address + (i - 1) * c.step
      BY CutWord
    <3> QED BY <3>1
  <2> QED BY <1>7, <2>1 DEF PokeLoop
<1> HIDE DEF size
<1>9. \A f : loop(f) <=> StoreLoop(f, e, n, at, value, size)
  <2> HIDE DEF n
  <2>1. \A i \in 0 .. n : i # 0 => i \in 1 .. n
    BY <1>1
  <2> QED BY <2>1 DEF StoreLoop
<1> HIDE DEF n, at, value, loop
<1>10. \E f : StoreLoop(f, e, n, at, value, size)
  BY <1>1, <1>4, <1>6, StoringEach
<1>11. loop(u)
  BY <1>9, <1>10
<1> HIDE DEF u
<1>12. StoreLoop(u, e, n, at, value, size)
  BY <1>9, <1>11
<1>13. upTo[n] = Written(s.memory, c)
  BY <1>7
<1>14. Stored(e, n, size, s.memory, SerialWrite(e, c), Written(s.memory, c))
  BY <1>4, <1>5, <1>8, <1>12, <1>13 DEF Stored
<1> QED BY <1>1, <1>6, <1>14, LoopRuns

-----------------------------------------------------------------------------
(* Words and bytes.                                                        *)

\* The four bytes of a word.
LEMMA FourBytes ==
  ASSUME NEW v \in Int
  PROVE  /\ BytesOf(v, 4)[1] = (v \div (Byte * Half)) % Byte
         /\ BytesOf(v, 4)[2] = (v \div Half) % Byte
         /\ BytesOf(v, 4)[3] = (v \div Byte) % Byte
         /\ BytesOf(v, 4)[4] = v % Byte
<1> DEFINE q == <<v \div (Byte * Half), v \div Half, v \div Byte, v>>
           g(n) == [i \in 1 .. n |-> q[4 - n + i] % Byte]
           k == 4
<1>1. BytesOf(v, k) = g(k)
  BY DEF BytesOf
<1>2. k = 4 /\ 1 \in 1 .. k /\ 2 \in 1 .. k /\ 3 \in 1 .. k /\ 4 \in 1 .. k
  OBVIOUS
<1>3. q[1] = v \div (Byte * Half) /\ q[2] = v \div Half /\ q[3] = v \div Byte /\ q[4] = v
  OBVIOUS
<1> HIDE DEF q, k
<1>4. g(k)[1] = q[1] % Byte /\ g(k)[2] = q[2] % Byte /\ g(k)[3] = q[3] % Byte /\ g(k)[4] = q[4] % Byte
  BY <1>2
<1> HIDE DEF g
<1> QED BY <1>1, <1>3, <1>4 DEF k

\* They are the digits of its number.
LEMMA WordOfBytes ==
  ASSUME RealBytes, NEW b1 \in Bytes, NEW b2 \in Bytes, NEW b3 \in Bytes, NEW b4 \in Bytes,
         NEW v, v = (b1 * Byte + b2) * Half + (b3 * Byte + b4)
  PROVE  /\ BytesOf(v, 4)[1] = b1 /\ BytesOf(v, 4)[2] = b2
         /\ BytesOf(v, 4)[3] = b3 /\ BytesOf(v, 4)[4] = b4
<1>1. Byte = 256 /\ Half = 65536
  BY RealWords DEF RealBytes
<1>2. /\ b1 \in Nat /\ b1 < 256 /\ b2 \in Nat /\ b2 < 256
      /\ b3 \in Nat /\ b3 < 256 /\ b4 \in Nat /\ b4 < 256
  BY <1>1, SMT DEF Bytes
<1>3. v = b1 * 16777216 + b2 * 65536 + b3 * 256 + b4
  BY <1>1, <1>2, SMT
<1>4. v \in Int
  BY <1>2, <1>3, SMT
<1>5. (v \div (Byte * Half)) % Byte = b1
  BY <1>1, <1>2, <1>3, SMT
<1>6. (v \div Half) % Byte = b2
  BY <1>1, <1>2, <1>3, SMT
<1>7. (v \div Byte) % Byte = b3
  BY <1>1, <1>2, <1>3, SMT
<1>8. v % Byte = b4
  BY <1>1, <1>2, <1>3, SMT
<1> QED BY <1>4, <1>5, <1>6, <1>7, <1>8, FourBytes

\* The bytes of a word make it up again.
LEMMA BytesOfWord ==
  ASSUME RealBytes, NEW v \in Word
  PROVE  (BytesOf(v, 4)[1] * Byte + BytesOf(v, 4)[2]) * Half
           + (BytesOf(v, 4)[3] * Byte + BytesOf(v, 4)[4]) = v
<1>1. Byte = 256 /\ Half = 65536
  BY RealWords DEF RealBytes
<1>2. v \in Nat /\ v < 65536 * 65536 /\ v \in Int
  BY RealWords
<1> DEFINE q1 == v \div (Byte * Half)
           q2 == v \div Half
           q3 == v \div Byte
           d1 == q1 % Byte
           d2 == q2 % Byte
           d3 == q3 % Byte
           d4 == v % Byte
<1>3. v = 256 * q3 + d4 /\ q3 = 256 * q2 + d3 /\ q2 = 256 * q1 + d2 /\ q1 = d1
  <2>1. v = 256 * q3 + d4
    BY <1>1, <1>2, SMT
  <2>2. q3 = 256 * q2 + d3
    BY <1>1, <1>2, SMT
  <2>3. q2 = 256 * q1 + d2
    BY <1>1, <1>2, SMT
  <2>4. q1 = d1
    BY <1>1, <1>2, SMT
  <2> QED BY <2>1, <2>2, <2>3, <2>4
<1>4. q1 \in Int /\ q2 \in Int /\ q3 \in Int /\ d1 \in Int /\ d2 \in Int /\ d3 \in Int
      /\ d4 \in Int
  BY <1>1, <1>2, SMT
<1>5. /\ BytesOf(v, 4)[1] = d1 /\ BytesOf(v, 4)[2] = d2
      /\ BytesOf(v, 4)[3] = d3 /\ BytesOf(v, 4)[4] = d4
  BY <1>2, FourBytes
<1> HIDE DEF q1, q2, q3, d1, d2, d3, d4
<1>6. (d1 * 256 + d2) * 65536 + (d3 * 256 + d4) = v
  BY <1>3, <1>4, SMT
<1>7. (d1 * Byte + d2) * Half + (d3 * Byte + d4) = v
  BY <1>1, <1>6
<1> QED BY <1>5, <1>7

\* What is read from memory.
ByteAt(f, x) == IF x \in DOMAIN f THEN f[x] ELSE 0

\* ValueAt, by its bytes.
LEMMA Reading ==
  ASSUME NEW f, NEW a \in Int
  PROVE  /\ ValueAt(f, a, 1) = ByteAt(f, a)
         /\ ValueAt(f, a, 2) = ByteAt(f, a) * Byte + ByteAt(f, a + 1)
         /\ ValueAt(f, a, 4) = (ByteAt(f, a) * Byte + ByteAt(f, a + 1)) * Half
                                 + (ByteAt(f, a + 2) * Byte + ByteAt(f, a + 3))
<1> DEFINE byte(n) == IF a + n \in DOMAIN f THEN f[a + n] ELSE 0
           half(n) == byte(n) * Byte + byte(n + 1)
           one == byte(0)
           two == half(0)
           four == half(0) * Half + half(2)
<1>1. ASSUME NEW size
      PROVE  ValueAt(f, a, size) = CASE size = 1 -> one [] size = 2 -> two [] size = 4 -> four
  BY DEF ValueAt
<1>2. /\ byte(0) = ByteAt(f, a) /\ byte(0 + 1) = ByteAt(f, a + 1)
      /\ byte(2) = ByteAt(f, a + 2) /\ byte(2 + 1) = ByteAt(f, a + 3)
  <2>1. a + 0 = a /\ 0 + 1 = 1 /\ 2 + 1 = 3
    OBVIOUS
  <2> QED BY <2>1 DEF ByteAt
<1> HIDE DEF byte
<1>3. one = ByteAt(f, a) /\ two = ByteAt(f, a) * Byte + ByteAt(f, a + 1)
      /\ four = (ByteAt(f, a) * Byte + ByteAt(f, a + 1)) * Half
                  + (ByteAt(f, a + 2) * Byte + ByteAt(f, a + 3))
  BY <1>2
<1> HIDE DEF one, two, four
<1>4. ValueAt(f, a, 1) = one /\ ValueAt(f, a, 2) = two /\ ValueAt(f, a, 4) = four
  BY <1>1
<1> QED BY <1>3, <1>4

\* What has the same bytes has the same value.
LEMMA SameReads ==
  ASSUME NEW f, NEW g, NEW a \in Int, NEW size \in {1, 2, 4},
         \A x \in a .. a + size - 1 : ByteAt(f, x) = ByteAt(g, x)
  PROVE  ValueAt(f, a, size) = ValueAt(g, a, size)
<1>1. CASE size = 1
  <2>1. a \in a .. a + size - 1
    BY <1>1
  <2>2. ByteAt(f, a) = ByteAt(g, a)
    BY <2>1
  <2> QED BY <1>1, <2>2, Reading
<1>2. CASE size = 2
  <2>1. a \in a .. a + size - 1 /\ a + 1 \in a .. a + size - 1
    BY <1>2
  <2>2. ByteAt(f, a) = ByteAt(g, a) /\ ByteAt(f, a + 1) = ByteAt(g, a + 1)
    BY <2>1
  <2> QED BY <1>2, <2>2, Reading
<1>3. CASE size = 4
  <2>1. /\ a \in a .. a + size - 1 /\ a + 1 \in a .. a + size - 1
        /\ a + 2 \in a .. a + size - 1 /\ a + 3 \in a .. a + size - 1
    BY <1>3
  <2>2. /\ ByteAt(f, a) = ByteAt(g, a) /\ ByteAt(f, a + 1) = ByteAt(g, a + 1)
        /\ ByteAt(f, a + 2) = ByteAt(g, a + 2) /\ ByteAt(f, a + 3) = ByteAt(g, a + 3)
    BY <2>1
  <2> QED BY <1>3, <2>2, Reading
<1> QED BY <1>1, <1>2, <1>3

\* A byte of memory that was written, and one that was not.
LEMMA Poked ==
  ASSUME NEW memory, NEW a \in Int, NEW bytes
  PROVE  /\ DOMAIN Poke(memory, a, bytes) = DOMAIN memory
         /\ \A c \in DOMAIN memory :
              /\ c \in a .. a + Len(bytes) - 1 => Poke(memory, a, bytes)[c] = bytes[c - a + 1]
              /\ c \notin a .. a + Len(bytes) - 1 => Poke(memory, a, bytes)[c] = memory[c]
BY DEF Poke

\* A word that was written is read again.
LEMMA PokedWord ==
  ASSUME RealBytes, NEW A, NEW memory \in [A -> Bytes], NEW a \in Int, a .. a + 3 \subseteq A,
         NEW v \in Word
  PROVE  ValueAt(Poke(memory, a, BytesOf(v, 4)), a, 4) = v
<1> DEFINE k == 4
           bytes == BytesOf(v, k)
           g == Poke(memory, a, bytes)
<1>1. Len(bytes) = 4 /\ k = 4
  <2>1. k \in {1, 2, 4} /\ v \in Int
    BY CutWord
  <2> HIDE DEF k
  <2>2. Len(BytesOf(v, k)) = k
    BY <2>1, BytesFit
  <2> QED BY <2>2 DEF k
<1>2. /\ \A c \in DOMAIN memory : c \in a .. a + Len(bytes) - 1 => g[c] = bytes[c - a + 1]
      /\ DOMAIN g = DOMAIN memory
  <2> HIDE DEF bytes
  <2> QED BY Poked
<1>3. DOMAIN memory = A
  OBVIOUS
<1> HIDE DEF bytes, g
<1>4. \A i \in 0 .. 3 : a + i \in DOMAIN g /\ g[a + i] = bytes[i + 1]
  <2> TAKE i \in 0 .. 3
  <2>1. a + i \in a .. a + 3 /\ a + i \in a .. a + Len(bytes) - 1 /\ a + i - a + 1 = i + 1
    BY <1>1
  <2>2. a + i \in A
    BY <2>1
  <2> DEFINE x == a + i
  <2>3. x \in a .. a + Len(bytes) - 1 /\ x - a + 1 = i + 1 /\ x \in DOMAIN memory
    BY <1>3, <2>1, <2>2
  <2> HIDE DEF x
  <2>4. x \in DOMAIN g /\ g[x] = bytes[x - a + 1]
    BY <1>2, <2>3
  <2> QED BY <2>3, <2>4 DEF x
<1>5. /\ ByteAt(g, a) = bytes[1] /\ ByteAt(g, a + 1) = bytes[2]
      /\ ByteAt(g, a + 2) = bytes[3] /\ ByteAt(g, a + 3) = bytes[4]
  <2>1. 0 \in 0 .. 3 /\ 1 \in 0 .. 3 /\ 2 \in 0 .. 3 /\ 3 \in 0 .. 3
        /\ a + 0 = a /\ 0 + 1 = 1 /\ 1 + 1 = 2 /\ 2 + 1 = 3 /\ 3 + 1 = 4
    OBVIOUS
  <2>2. ByteAt(g, a) = bytes[1]
    BY <1>4, <2>1 DEF ByteAt
  <2>3. ByteAt(g, a + 1) = bytes[2]
    BY <1>4, <2>1 DEF ByteAt
  <2>4. ByteAt(g, a + 2) = bytes[3]
    BY <1>4, <2>1 DEF ByteAt
  <2>5. ByteAt(g, a + 3) = bytes[4]
    BY <1>4, <2>1 DEF ByteAt
  <2> QED BY <2>2, <2>3, <2>4, <2>5
<1>6. ValueAt(g, a, 4) = (bytes[1] * Byte + bytes[2]) * Half + (bytes[3] * Byte + bytes[4])
  BY <1>5, Reading
<1>7. (bytes[1] * Byte + bytes[2]) * Half + (bytes[3] * Byte + bytes[4]) = v
  BY BytesOfWord DEF bytes, k
<1> QED BY <1>6, <1>7 DEF g, bytes, k

\* What is read from elsewhere is not changed.
LEMMA ReadsElsewhere ==
  ASSUME NEW memory, NEW b \in Int, NEW bytes, NEW a \in Int, NEW size \in {1, 2, 4},
         \A x \in a .. a + size - 1 : x \notin b .. b + Len(bytes) - 1
  PROVE  ValueAt(Poke(memory, b, bytes), a, size) = ValueAt(memory, a, size)
<1> DEFINE g == Poke(memory, b, bytes)
<1>1. /\ DOMAIN g = DOMAIN memory
      /\ \A c \in DOMAIN memory : c \notin b .. b + Len(bytes) - 1 => g[c] = memory[c]
  BY Poked
<1> HIDE DEF g
<1>2. \A x \in a .. a + size - 1 : ByteAt(g, x) = ByteAt(memory, x)
  BY <1>1 DEF ByteAt
<1>3. ValueAt(g, a, size) = ValueAt(memory, a, size)
  BY <1>2, SameReads
<1> QED BY <1>3 DEF g

\* The bytes of the word that an array has at p.
LEMMA WordOfArray ==
  ASSUME RealBytes, NEW bytes \in Seq(Bytes), NEW p \in Int, p .. p + 3 \subseteq DOMAIN bytes
  PROVE  \A i \in 1 .. 4 : BytesOf(ValueAt(bytes, p, 4), 4)[i] = bytes[p + i - 1]
<1> DEFINE b1 == bytes[p]
           b2 == bytes[p + 1]
           b3 == bytes[p + 2]
           b4 == bytes[p + 3]
           v == ValueAt(bytes, p, 4)
<1>1. \A x \in DOMAIN bytes : bytes[x] \in Bytes
  BY LenProperties
<1>2. p \in DOMAIN bytes /\ p + 1 \in DOMAIN bytes /\ p + 2 \in DOMAIN bytes /\ p + 3 \in DOMAIN bytes
  <2>1. p \in p .. p + 3 /\ p + 1 \in p .. p + 3 /\ p + 2 \in p .. p + 3 /\ p + 3 \in p .. p + 3
    OBVIOUS
  <2> QED BY <2>1
<1>3. b1 \in Bytes /\ b2 \in Bytes /\ b3 \in Bytes /\ b4 \in Bytes
  BY <1>1, <1>2
<1>4. v = (b1 * Byte + b2) * Half + (b3 * Byte + b4)
  <2>1. ByteAt(bytes, p) = b1 /\ ByteAt(bytes, p + 1) = b2
        /\ ByteAt(bytes, p + 2) = b3 /\ ByteAt(bytes, p + 3) = b4
    BY <1>2 DEF ByteAt
  <2> HIDE DEF b1, b2, b3, b4
  <2> QED BY <2>1, Reading
<1> HIDE DEF b1, b2, b3, b4, v
<1>5. /\ BytesOf(v, 4)[1] = b1 /\ BytesOf(v, 4)[2] = b2
      /\ BytesOf(v, 4)[3] = b3 /\ BytesOf(v, 4)[4] = b4
  BY <1>3, <1>4, WordOfBytes
<1>6. p + 1 - 1 = p /\ p + 2 - 1 = p + 1 /\ p + 3 - 1 = p + 2 /\ p + 4 - 1 = p + 3
      /\ \A i \in 1 .. 4 : i = 1 \/ i = 2 \/ i = 3 \/ i = 4
  OBVIOUS
<1>7. \A i \in 1 .. 4 : BytesOf(v, 4)[i] = bytes[p + i - 1]
  <2> DEFINE g == BytesOf(v, 4)
  <2>1. g[1] = bytes[p] /\ g[2] = bytes[p + 1] /\ g[3] = bytes[p + 2] /\ g[4] = bytes[p + 3]
    BY <1>5 DEF b1, b2, b3, b4
  <2> HIDE DEF g
  <2>2. \A i \in 1 .. 4 : g[i] = bytes[p + i - 1]
    BY <1>6, <2>1
  <2> QED BY <2>2 DEF g
<1> QED BY <1>7 DEF v

\* Addresses are numbers.
Numbers(A) == A \subseteq Int

\* Some bytes of an array in memory, and four more.
Partly(A, memory, a, bytes, i) ==
  [c \in A |-> IF c \in a .. a + 4 * i - 1 THEN bytes[c - a + 1] ELSE memory[c]]

\* The four bytes that an array has at p.
HasAt(bytes, p, four) == Len(four) = 4 /\ \A j \in 1 .. 4 : four[j] = bytes[p + j - 1]

\* Four more bytes are one more word.
LEMMA FourMore ==
  ASSUME NEW A, Numbers(A), NEW memory, NEW a \in Int, NEW bytes, NEW i \in Nat \ {0},
         NEW k, k = i - 1, NEW at, at = a + 4 * k, NEW four, HasAt(bytes, 4 * k + 1, four)
  PROVE  Partly(A, memory, a, bytes, i) = Poke(Partly(A, memory, a, bytes, k), at, four)
<1> DEFINE p == Partly(A, memory, a, bytes, k)
           q == Partly(A, memory, a, bytes, i)
           r == Poke(p, at, four)
<1>1. r = [c \in DOMAIN p |-> IF c \in at .. at + Len(four) - 1 THEN four[c - at + 1] ELSE p[c]]
  BY DEF Poke
<1>2. DOMAIN p = A /\ DOMAIN q = A
      /\ \A c \in A : /\ p[c] = IF c \in a .. a + 4 * k - 1 THEN bytes[c - a + 1] ELSE memory[c]
                      /\ q[c] = IF c \in a .. a + 4 * i - 1 THEN bytes[c - a + 1] ELSE memory[c]
                      /\ r[c] = IF c \in at .. at + 3 THEN four[c - at + 1] ELSE p[c]
  <2>1. DOMAIN p = A /\ DOMAIN q = A
    BY DEF Partly
  <2>2. at + Len(four) - 1 = at + 3
    BY SMT DEF HasAt
  <2>3. ASSUME NEW c \in A
        PROVE  /\ p[c] = IF c \in a .. a + 4 * k - 1 THEN bytes[c - a + 1] ELSE memory[c]
               /\ q[c] = IF c \in a .. a + 4 * i - 1 THEN bytes[c - a + 1] ELSE memory[c]
    BY DEF Partly
  <2> HIDE DEF p, q
  <2> QED BY <1>1, <2>1, <2>2, <2>3
<1>3. ASSUME NEW c \in A PROVE q[c] = r[c]
  <2>1. c \in Int /\ i \in Int /\ a \in Int
    BY DEF Numbers
  <2>2. CASE c \in at .. at + 3
    <3>1. c \in a .. a + 4 * i - 1 /\ c - at + 1 \in 1 .. 4
          /\ 4 * k + 1 + (c - at + 1) - 1 = c - a + 1
      BY <2>1, <2>2, SMT
    <3>2. four[c - at + 1] = bytes[4 * k + 1 + (c - at + 1) - 1]
      <4> DEFINE j == c - at + 1
      <4>1. j \in 1 .. 4
        BY <3>1
      <4> HIDE DEF j
      <4>2. four[j] = bytes[4 * k + 1 + j - 1]
        BY <4>1 DEF HasAt
      <4> QED BY <4>2 DEF j
    <3> HIDE DEF p, q, r
    <3> QED BY <1>2, <2>2, <3>1, <3>2
  <2>3. CASE c \notin at .. at + 3
    <3>1. c \in a .. a + 4 * i - 1 <=> c \in a .. a + 4 * k - 1
      BY <2>1, <2>3, SMT
    <3> HIDE DEF p, q, r
    <3> QED BY <1>2, <2>3, <3>1
  <2> QED BY <2>2, <2>3
<1>4. q = [c \in A |-> q[c]] /\ r = [c \in A |-> r[c]]
  <2>1. q = [c \in A |-> q[c]]
    BY DEF Partly
  <2>2. r = [c \in A |-> r[c]]
    BY <1>1, <1>2
  <2> QED BY <2>1, <2>2
<1> HIDE DEF p, q, r
<1>5. q = r
  BY <1>3, <1>4
<1> QED BY <1>5 DEF p, q, r

\* The whole words of an array that does not wrap around.
LEMMA WordsRun ==
  ASSUME RealBytes, NEW A, Numbers(A), NEW s \in Machines(A), NEW address \in Word,
         NEW bytes \in Seq(Bytes), Len(bytes) % 4 = 0, address + Len(bytes) <= Full,
         NEW F, NEW D, NEW e \in Emission, Agrees(e, s), Within(F, e, ArrayWords(e, address, bytes))
  PROVE  Leaves(F, D, A, e, s, ArrayWords(e, address, bytes), Poke(s.memory, address, bytes))
<1> DEFINE n == Len(bytes) \div 4
           at == [i \in 1 .. n |-> (address + 4 * (i - 1)) % Full]
           value == [i \in 1 .. n |-> ValueAt(bytes, 4 * i - 3, 4)]
           size == 4
           memory == s.memory
           upTo == [i \in 0 .. n |-> Partly(A, memory, address, bytes, i)]
           loop(f) == f = [i \in 0 .. n |->
             IF i = 0 THEN e
             ELSE Store(f[i - 1], (address + 4 * (i - 1)) % Full,
                        ValueAt(bytes, 4 * i - 3, 4), 4)]
           u == CHOOSE f : loop(f)
<1>1. n \in Nat /\ Len(bytes) = 4 * n /\ Len(bytes) \in Nat
  <2>1. Len(bytes) \in Nat
    BY LenProperties
  <2> QED BY <2>1, SMT
<1>2. ASSUME NEW i \in 1 .. n
      PROVE  /\ address + 4 * (i - 1) \in Word
             /\ (address + 4 * (i - 1)) % Full = address + 4 * (i - 1)
             /\ ValueAt(bytes, 4 * i - 3, 4) \in Word
             /\ (4 * i - 3) .. (4 * i - 3) + 3 \subseteq DOMAIN bytes /\ i \in Nat \ {0}
  <2>1. address \in Nat /\ i \in Int /\ i >= 1 /\ i <= n /\ Full \in Int
    BY <1>1, CutWord, WidthsPositive
  <2> HIDE DEF n
  <2>2. address + 4 * (i - 1) \in Word
    <3>1. address + 4 * (i - 1) >= 0 /\ address + 4 * (i - 1) <= Full - 1
      BY <1>1, <2>1
    <3> QED BY <2>1, <3>1 DEF Word
  <2>3. ValueAt(bytes, 4 * i - 3, 4) \in Word
    <3>1. 4 * i - 3 \in Int
      OBVIOUS
    <3>2. bytes \in Seq(0 .. Byte - 1)
      BY DEF Bytes
    <3> QED BY <3>1, <3>2, BytesValues
  <2>4. (4 * i - 3) .. (4 * i - 3) + 3 \subseteq DOMAIN bytes
    <3>1. DOMAIN bytes = 1 .. 4 * n
      BY <1>1, LenProperties
    <3> QED BY <1>1, <2>1, <3>1
  <2> QED BY <2>1, <2>2, <2>3, <2>4, CutWord
<1>3. at \in [1 .. n -> Word] /\ value \in [1 .. n -> Word]
  <2> HIDE DEF n
  <2> QED BY <1>2
<1>4. ArrayWords(e, address, bytes) = u[n]
  BY DEF ArrayWords
<1>5. \A f : loop(f) <=> StoreLoop(f, e, n, at, value, size)
  <2> HIDE DEF n
  <2>1. \A i \in 0 .. n : i # 0 => i \in 1 .. n
    BY <1>1
  <2> QED BY <2>1 DEF StoreLoop
<1>6. memory \in [A -> Bytes] /\ address \in Int
  BY CutWord DEF Machines, Bytes
<1>7. PokeLoop(upTo, memory, n, at, value, size)
  <2> HIDE DEF n, memory, loop, u
  <2>1. upTo[0] = memory
    <3>1. Partly(A, memory, address, bytes, 0) = [c \in A |-> memory[c]]
      <4>1. \A c \in A : c \notin address .. address + 4 * 0 - 1
        BY <1>6
      <4> QED BY <4>1 DEF Partly
    <3>2. memory = [c \in A |-> memory[c]]
      BY <1>6
    <3>3. 0 \in 0 .. n
      BY <1>1
    <3> QED BY <3>1, <3>2, <3>3
  <2>2. ASSUME NEW i \in 1 .. n
        PROVE  upTo[i] = Poke(upTo[i - 1], at[i], BytesOf(value[i], size))
    <3> DEFINE four == BytesOf(ValueAt(bytes, 4 * i - 3, 4), size)
    <3>1. i \in 0 .. n /\ i - 1 \in 0 .. n /\ i \in Nat \ {0} /\ 4 * i - 3 \in Int
      BY <1>1
    <3>2. Len(four) = 4
      <4>1. size \in {1, 2, 4} /\ ValueAt(bytes, 4 * i - 3, 4) \in Int /\ size = 4
        BY <1>2, CutWord
      <4> HIDE DEF size
      <4> QED BY <4>1, BytesFit
    <3>3. \A j \in 1 .. 4 : four[j] = bytes[4 * i - 3 + j - 1]
      <4> DEFINE p == 4 * i - 3
      <4>1. p \in Int /\ p .. p + 3 \subseteq DOMAIN bytes
        BY <1>2, <3>1
      <4> HIDE DEF p
      <4>2. \A j \in 1 .. 4 : BytesOf(ValueAt(bytes, p, 4), 4)[j] = bytes[p + j - 1]
        BY <4>1, WordOfArray
      <4> QED BY <4>2 DEF p
    <3>4. upTo[i] = Partly(A, memory, address, bytes, i)
          /\ upTo[i - 1] = Partly(A, memory, address, bytes, i - 1)
      BY <3>1
    <3>5. at[i] = address + (4 * (i - 1)) /\ BytesOf(value[i], size) = four
      BY <1>2
    <3> DEFINE k == i - 1
    <3>6. k = i - 1 /\ at[i] = address + 4 * k /\ 4 * i - 3 = 4 * k + 1
      BY <3>1, <3>5
    <3>7. HasAt(bytes, 4 * k + 1, four)
      <4> HIDE DEF four, k
      <4> QED BY <3>2, <3>3, <3>6 DEF HasAt
    <3> HIDE DEF four, upTo, at, value, size, k
    <3>8. Partly(A, memory, address, bytes, i) = Poke(Partly(A, memory, address, bytes, k), at[i], four)
      <4>1. address \in Int /\ i \in Nat \ {0}
        BY <1>6, <3>1
      <4>2. k = i - 1 /\ at[i] = address + 4 * k
        BY <3>6
      <4> DEFINE x == at[i]
      <4>3. x = address + 4 * k
        BY <4>2
      <4> HIDE DEF x
      <4>4. Partly(A, memory, address, bytes, i) = Poke(Partly(A, memory, address, bytes, k), x, four)
        BY <4>1, <4>2, <4>3, <3>7, FourMore
      <4> QED BY <4>4 DEF x
    <3> QED BY <3>4, <3>5, <3>6, <3>8
  <2> QED BY <2>1, <2>2 DEF PokeLoop
<1>8. upTo[n] = Poke(memory, address, bytes)
  <2> HIDE DEF n, memory, loop, u
  <2>1. upTo[n] = Partly(A, memory, address, bytes, n)
    BY <1>1
  <2>2. DOMAIN memory = A /\ 4 * n = Len(bytes)
    BY <1>1, <1>6
  <2> HIDE DEF upTo
  <2> QED BY <2>1, <2>2 DEF Partly, Poke
<1>9. size \in {1, 2, 4}
  OBVIOUS
<1> HIDE DEF n, at, value, size, loop, upTo
<1>10. \E f : StoreLoop(f, e, n, at, value, size)
  BY <1>1, <1>3, <1>9, StoringEach
<1>11. loop(u)
  BY <1>5, <1>10
<1> HIDE DEF u
<1>12. StoreLoop(u, e, n, at, value, size)
  BY <1>5, <1>11
<1>13. Stored(e, n, size, s.memory, ArrayWords(e, address, bytes), Poke(s.memory, address, bytes))
  BY <1>3, <1>4, <1>7, <1>8, <1>12 DEF Stored, memory
<1> QED BY <1>1, <1>9, <1>13, LoopRuns

\* An array of whole words.
LEMMA ArrayRuns ==
  ASSUME RealBytes, NEW A, Numbers(A), NEW s \in Machines(A), NEW address \in Word,
         NEW bytes \in Seq(Bytes), Len(bytes) % 4 = 0, address + Len(bytes) <= Full,
         NEW F, NEW D, NEW e \in Emission, Agrees(e, s), Within(F, e, ArrayInline(e, address, bytes))
  PROVE  Leaves(F, D, A, e, s, ArrayInline(e, address, bytes), Poke(s.memory, address, bytes))
<1>1. ArrayInline(e, address, bytes) = ArrayWords(e, address, bytes)
  BY DEF ArrayInline
<1> QED BY <1>1, WordsRun

-----------------------------------------------------------------------------
(* Calls.                                                                  *)

\* What a call leaves of a machine.
LEMMA Returning ==
  ASSUME NEW A, NEW s \in Machines(A)
  PROVE  /\ Returned(s) \in Machines(A) /\ Returned(s).memory = s.memory
         /\ Returned(s).reg[1] = s.reg[1] /\ Returned(s).reg[14] = s.reg[14]
         /\ Returned(s).reg[15] = s.reg[15]
<1> DEFINE g == [r \in DOMAIN s.reg |-> IF r \in Volatile THEN Full - 1 ELSE s.reg[r]]
           t == [memory |-> s.memory, reg |-> g, equal |-> s.equal, skip |-> s.skip, ok |-> s.ok]
<1>1. s = [memory |-> s.memory, reg |-> s.reg, equal |-> s.equal, skip |-> s.skip, ok |-> s.ok]
      /\ s.reg \in [Registers -> Word]
  BY DEF Machines
<1>2. Full - 1 \in Word
  BY WidthsPositive DEF Word
<1>3. g \in [Registers -> Word]
  BY <1>1, <1>2
<1>4. 1 \in Registers /\ 14 \in Registers /\ 15 \in Registers
      /\ 1 \notin Volatile /\ 14 \notin Volatile /\ 15 \notin Volatile
  BY DEF Registers, Volatile, Lr
<1>5. g[1] = s.reg[1] /\ g[14] = s.reg[14] /\ g[15] = s.reg[15]
  BY <1>1, <1>4
<1>6. Returned(s) = [s EXCEPT !.reg = g]
  BY DEF Returned
<1> HIDE DEF g
<1>7. Returned(s) = t
  BY <1>1, <1>6
<1>8. t \in Machines(A)
  <2>1. s.memory \in [A -> 0 .. Byte - 1] /\ s.equal \in BOOLEAN /\ s.skip = 0 /\ s.ok = TRUE
    BY DEF Machines
  <2> QED BY <1>3, <2>1 DEF Machines
<1>9. t.memory = s.memory /\ t.reg = g
  OBVIOUS
<1> HIDE DEF t
<1> QED BY <1>5, <1>7, <1>8, <1>9

\* A call that wrote bytes at a.
LEMMA CallLeaves ==
  ASSUME NEW A, NEW s \in Machines(A), NEW a \in Int, NEW bytes \in Seq(Bytes),
         NEW t, t = Returned([s EXCEPT !.memory = Poke(@, a, bytes)])
  PROVE  /\ t \in Machines(A) /\ t.memory = Poke(s.memory, a, bytes)
         /\ t.reg[1] = s.reg[1] /\ t.reg[14] = s.reg[14] /\ t.reg[15] = s.reg[15]
<1> DEFINE u == [s EXCEPT !.memory = Poke(@, a, bytes)]
<1>1. u \in Machines(A) /\ u.memory = Poke(s.memory, a, bytes) /\ u.reg = s.reg
  BY Poking
<1>2. t = Returned(u)
  OBVIOUS
<1> HIDE DEF u
<1> QED BY <1>1, <1>2, Returning

\* The three operands and what comes behind them.
LEMMA OperandsRun ==
  ASSUME RealBytes, NEW A, NEW s \in Machines(A), NEW dst \in Word, NEW src \in Word,
         NEW n \in Word, NEW F, NEW D, NEW e \in Emission, Agrees(e, s), NEW l,
         l = ImmediateLoad(ImmediateLoad(ImmediateLoad(e, 3, dst), 4, src), 5, n),
         Within(F, e, l)
  PROVE  /\ l \in Extensions(e) /\ l \in Emission
         /\ \E t : /\ Reaches(F, D, Len(e.text), s, Len(l.text), t) /\ t \in Machines(A)
                   /\ t.memory = s.memory /\ t.reg[1] = s.reg[1] /\ t.reg[3] = dst
                   /\ t.reg[4] = src /\ t.reg[5] = n /\ Agrees(l, t)
<1> DEFINE p == ImmediateLoad(e, 3, dst)
           q == ImmediateLoad(p, 4, src)
<1>1. /\ 3 \in Register \ {0} /\ 4 \in Register \ {0} /\ 5 \in Register \ {0}
      /\ 1 \in Registers /\ 3 \in Registers /\ 4 \in Registers /\ 5 \in Registers
      /\ 3 \in Register /\ 4 \in Register /\ 5 \in Register
      /\ dst \in Int /\ src \in Int /\ n \in Int
  BY CutWord DEF Register, Registers
<1>2. p \in Extensions(e) /\ p \in Emission
  <2>1. p \in Extensions(e)
    BY <1>1, ExtendsItself, Loading
  <2> QED BY <2>1 DEF Extensions
<1>3. l = ImmediateLoad(q, 5, n)
  OBVIOUS
<1> HIDE DEF p
<1>4. q \in Extensions(p) /\ q \in Emission
  <2>1. q \in Extensions(p)
    BY <1>1, <1>2, ExtendsItself, Loading
  <2> QED BY <2>1 DEF Extensions
<1> HIDE DEF q
<1>5. l \in Extensions(q) /\ l \in Emission
  <2>1. l \in Extensions(q)
    BY <1>1, <1>3, <1>4, ExtendsItself, Loading
  <2> QED BY <2>1 DEF Extensions
<1>6. l \in Extensions(p)
  BY <1>2, <1>4, <1>5, ExtensionsNest
<1>7. l \in Extensions(e)
  BY <1>2, <1>6, ExtensionsNest
<1>8. /\ Len(e.text) \in Nat /\ Len(p.text) \in Nat /\ Len(q.text) \in Nat /\ Len(l.text) \in Nat
      /\ Len(e.text) <= Len(p.text) /\ Len(p.text) <= Len(q.text) /\ Len(q.text) <= Len(l.text)
      /\ Within(F, e, p) /\ Within(F, p, q) /\ Within(F, q, l)
  <2>1. /\ Len(e.text) \in Nat /\ Len(p.text) \in Nat /\ Len(l.text) \in Nat
        /\ Len(e.text) <= Len(p.text) /\ Len(p.text) <= Len(l.text)
        /\ Within(F, e, p) /\ Within(F, p, l)
    BY <1>2, <1>6, WithinParts, SMTT(30)
  <2>2. /\ Len(p.text) \in Nat /\ Len(q.text) \in Nat /\ Len(l.text) \in Nat
        /\ Len(p.text) <= Len(q.text) /\ Len(q.text) <= Len(l.text)
        /\ Within(F, p, q) /\ Within(F, q, l)
    BY <1>2, <1>4, <1>5, <2>1, WithinParts
  <2> QED BY <2>1, <2>2
<1>9. PICK s1 : /\ Reaches(F, D, Len(e.text), s, Len(p.text), s1)
                /\ Loaded(A, s, s1, 3, dst) /\ Agrees(p, s1)
  BY <1>1, <1>8, LoadRuns DEF p
<1>10. s1 \in Machines(A) /\ s1.memory = s.memory /\ s1.reg[1] = s.reg[1] /\ s1.reg[3] = dst
  BY <1>1, <1>9 DEF Loaded
<1>11. PICK s2 : /\ Reaches(F, D, Len(p.text), s1, Len(q.text), s2)
                 /\ Loaded(A, s1, s2, 4, src) /\ Agrees(q, s2)
  BY <1>1, <1>2, <1>8, <1>9, <1>10, LoadRuns DEF q
<1>12. /\ s2 \in Machines(A) /\ s2.memory = s.memory /\ s2.reg[1] = s.reg[1]
       /\ s2.reg[3] = dst /\ s2.reg[4] = src
  BY <1>1, <1>10, <1>11 DEF Loaded
<1>13. PICK s3 : /\ Reaches(F, D, Len(q.text), s2, Len(l.text), s3)
                 /\ Loaded(A, s2, s3, 5, n) /\ Agrees(l, s3)
  <2>1. Within(F, q, ImmediateLoad(q, 5, n))
    BY <1>3, <1>8
  <2>2. PICK s3 : /\ Reaches(F, D, Len(q.text), s2, Len(ImmediateLoad(q, 5, n).text), s3)
                  /\ Loaded(A, s2, s3, 5, n) /\ Agrees(ImmediateLoad(q, 5, n), s3)
    BY <1>1, <1>4, <1>11, <1>12, <2>1, LoadRuns
  <2> QED BY <1>3, <2>2
<1>14. /\ s3 \in Machines(A) /\ s3.memory = s.memory /\ s3.reg[1] = s.reg[1]
       /\ s3.reg[3] = dst /\ s3.reg[4] = src /\ s3.reg[5] = n
  BY <1>1, <1>12, <1>13 DEF Loaded
<1>15. Len(e.text) \in Int /\ Len(p.text) \in Int /\ Len(q.text) \in Int /\ Len(l.text) \in Int
       /\ Len(e.text) <= Len(q.text)
  BY <1>8
<1>16. Reaches(F, D, Len(e.text), s, Len(q.text), s2)
  BY <1>8, <1>9, <1>11, <1>15, Onward
<1>17. Reaches(F, D, Len(e.text), s, Len(l.text), s3)
  BY <1>8, <1>13, <1>15, <1>16, Onward
<1> QED BY <1>5, <1>7, <1>13, <1>14, <1>17

\* After a call that wrote bytes at a.
Called(s, a, bytes) == Returned([s EXCEPT !.memory = Poke(@, a, bytes)])

\* A call behind what was emitted.
LEMMA OneCall ==
  ASSUME NEW A, NEW F, NEW D, NEW e \in Emission, NEW s, NEW q \in Extensions(e),
         NEW call \in Instruction, NEW l, l = Emit(q, <<call>>), Within(F, e, l),
         NEW t \in Machines(A), Reaches(F, D, Len(e.text), s, Len(q.text), t),
         t.reg[1] = s.reg[1], Agrees(q, t), NEW a \in Int, NEW bytes \in Seq(Bytes),
         Execute(t, call, D) = Called(t, a, bytes)
  PROVE  Leaves(F, D, A, e, s, l, Poke(t.memory, a, bytes))
<1> DEFINE is == <<call>>
           u == Execute(t, call, D)
<1>1. q \in Emission /\ is \in Seq(Instruction) /\ call \in Line
  BY Instructions DEF Extensions, Line
<1> HIDE DEF is
<1>2. l \in Extensions(q) /\ l.text = q.text \o is /\ l.known = q.known
  BY <1>1, Emitted DEF is
<1>3. /\ Len(e.text) \in Nat /\ Len(q.text) \in Nat /\ Len(l.text) \in Nat
      /\ Len(e.text) <= Len(q.text) /\ Len(q.text) <= Len(l.text) /\ Within(F, q, l)
  BY <1>2, WithinParts
<1>4. Reaches(F, D, Len(q.text), t, Len(l.text), u)
  BY <1>1, <1>2, <1>3, LineRuns DEF is
<1>5. /\ u \in Machines(A) /\ u.memory = Poke(t.memory, a, bytes)
      /\ u.reg[1] = t.reg[1] /\ u.reg[14] = t.reg[14] /\ u.reg[15] = t.reg[15]
  <2> HIDE DEF u
  <2>1. u = Called(t, a, bytes)
    BY DEF u
  <2> QED BY <2>1, CallLeaves DEF Called
<1> HIDE DEF u
<1>6. Len(e.text) \in Int /\ Len(q.text) \in Int /\ Len(l.text) \in Int
  BY <1>3
<1>7. Reaches(F, D, Len(e.text), s, Len(l.text), u)
  BY <1>3, <1>4, <1>6, Onward
<1>8. Agrees(l, u)
  <2>1. DOMAIN q.known \subseteq {14, 15}
    BY <1>1, KnowledgeOf
  <2> QED BY <1>2, <1>5, <2>1 DEF Agrees
<1> QED BY <1>5, <1>7, <1>8 DEF Leaves

\* A routine of the library that is called with dst, src and n writes bytes at dst.
Calls(A, D, call, dst, src, n, bytes) ==
  \A t \in Machines(A) :
    t.reg[3] = dst /\ t.reg[4] = src /\ t.reg[5] = n =>
      Execute(t, call, D) = Called(t, dst, bytes)

\* Three loads and a call.
LEMMA CallRuns ==
  ASSUME RealBytes, NEW A, NEW s \in Machines(A), NEW dst \in Word, NEW src \in Word,
         NEW n \in Word, NEW call \in Instruction, NEW F, NEW D, NEW e \in Emission, Agrees(e, s),
         Within(F, e, CallWith(e, dst, src, n, call)), NEW bytes \in Seq(Bytes),
         Calls(A, D, call, dst, src, n, bytes)
  PROVE  Leaves(F, D, A, e, s, CallWith(e, dst, src, n, call), Poke(s.memory, dst, bytes))
<1> DEFINE p == ImmediateLoad(ImmediateLoad(e, 3, dst), 4, src)
           q == ImmediateLoad(p, 5, n)
           is == <<call>>
           l == CallWith(e, dst, src, n, call)
<1>1. l = Emit(q, is)
  BY DEF CallWith
<1>2. is \in Seq(Instruction)
  BY Instructions
<1>3. q \in Extensions(e) /\ q \in Emission
  <2>1. 3 \in Register /\ 4 \in Register /\ 5 \in Register
        /\ dst \in Int /\ src \in Int /\ n \in Int
    BY CutWord DEF Register
  <2>2. ImmediateLoad(e, 3, dst) \in Extensions(e)
    BY <2>1, ExtendsItself, Loading
  <2>3. p \in Extensions(e)
    BY <2>1, <2>2, Loading
  <2> HIDE DEF p
  <2>4. q \in Extensions(e)
    BY <2>1, <2>3, Loading
  <2> QED BY <2>4 DEF Extensions
<1>4. q = ImmediateLoad(ImmediateLoad(ImmediateLoad(e, 3, dst), 4, src), 5, n)
  OBVIOUS
<1> HIDE DEF p, q, is, l
<1>5. l \in Extensions(q)
  BY <1>1, <1>2, <1>3, Emitted
<1>6. Within(F, e, q)
  BY <1>3, <1>5, WithinParts DEF l
<1>7. PICK t : /\ Reaches(F, D, Len(e.text), s, Len(q.text), t) /\ t \in Machines(A)
               /\ t.memory = s.memory /\ t.reg[1] = s.reg[1] /\ t.reg[3] = dst
               /\ t.reg[4] = src /\ t.reg[5] = n /\ Agrees(q, t)
  BY <1>4, <1>6, OperandsRun
<1>8. Execute(t, call, D) = Called(t, dst, bytes)
  BY <1>7 DEF Calls
<1>9. dst \in Int /\ l = Emit(q, <<call>>) /\ Within(F, e, l)
  BY <1>1, CutWord DEF is, l
<1>10. Leaves(F, D, A, e, s, l, Poke(t.memory, dst, bytes))
  BY <1>3, <1>7, <1>8, <1>9, OneCall
<1> QED BY <1>7, <1>10 DEF l

\* What the library's routines and a routine of the list's do.
LEMMA Filling ==
  ASSUME NEW s, s.skip = 0, NEW i, i.op = "memset", NEW D
  PROVE  Execute(s, i, D) =
           Called(s, s.reg[3], Repeated(s.reg[4], i.size, s.reg[5]))
<1>1. ~ s.skip > 0
  OBVIOUS
<1>2. Execute(s, i, D) = CallLibrary(s, i, D)
  BY <1>1 DEF Execute
<1> QED BY <1>2 DEF CallLibrary, Called

\* memcpy, of an array that is among the blocks.
LEMMA Copying ==
  ASSUME NEW s, s.skip = 0, NEW i, i.op = "memcpy", NEW D, NEW a, NEW src,
         s.reg[3] = a, s.reg[4] = src, src \in DOMAIN D,
         NEW bytes \in Seq(Bytes), D[src].bytes = bytes, s.reg[5] = Len(bytes)
  PROVE  Execute(s, i, D) = Called(s, a, bytes)
<1>1. ~ s.skip > 0
  OBVIOUS
<1>2. Execute(s, i, D) = CallLibrary(s, i, D)
  BY <1>1 DEF Execute
<1>3. SubSeq(bytes, 1, Len(bytes)) = bytes
  BY SubSeqFull
<1> QED BY <1>2, <1>3 DEF CallLibrary, Called

\* A routine that is called where it is, with its address in r15.
LEMMA CallingRoutine ==
  ASSUME NEW s, s.skip = 0, NEW i, i.op = "bl", NEW D, NEW at, i.target = at, at % 4 = 0,
         s.reg[15] = at, NEW a, a = D[at].address, NEW bytes, bytes = BytesOf(D[at].value, 4)
  PROVE  Execute(s, i, D) = Called(s, a, bytes)
<1>1. ~ s.skip > 0
  OBVIOUS
<1>2. Execute(s, i, D) = CallRoutine(s, i.target, D)
  BY <1>1 DEF Execute
<1> QED BY <1>2 DEF CallRoutine, Called

\* What a fill writes are bytes.
LEMMA RepeatedFits ==
  ASSUME NEW v \in Int, NEW size \in {1, 2}, NEW n \in Nat
  PROVE  Repeated(v, size, n) \in Seq(Bytes)
<1> DEFINE b == BytesOf(v, size)
           g == [i \in 1 .. size * n |-> b[((i - 1) % size) + 1]]
<1>1. \A i \in 1 .. size : b[i] \in Bytes
  <2>1. size \in {1, 2, 4}
    OBVIOUS
  <2> QED BY <2>1, BytesFit
<1>2. Repeated(v, size, n) = g
  BY DEF Repeated
<1> HIDE DEF b
<1>3. size * n \in Nat
  OBVIOUS
<1>4. ASSUME NEW i \in 1 .. size * n PROVE b[((i - 1) % size) + 1] \in Bytes
  <2>1. i - 1 \in Int
    OBVIOUS
  <2>2. ((i - 1) % size) + 1 \in 1 .. size
    BY <2>1, SMT
  <2> QED BY <1>1, <2>2
<1>5. g \in [1 .. size * n -> Bytes]
  BY <1>4
<1> HIDE DEF g
<1> DEFINE m == size * n
<1>6. m \in Nat /\ g \in [1 .. m -> Bytes]
  BY <1>3, <1>5
<1> HIDE DEF m
<1> QED BY <1>2, <1>6

\* 00 and 02.
LEMMA FillRuns ==
  ASSUME RealBytes, NEW A, NEW s \in Machines(A), NEW address \in Word, NEW value \in Word,
         NEW size \in {1, 2}, NEW n \in Word, NEW F, NEW D, NEW e \in Emission, Agrees(e, s),
         NEW l, l = CallWith(e, address, value % Values(size), n, [op |-> "memset", size |-> size]),
         Within(F, e, l)
  PROVE  Leaves(F, D, A, e, s, l,
                Poke(s.memory, address, Repeated(value % Values(size), size, n)))
<1> DEFINE v == value % Values(size)
           call == [op |-> "memset", size |-> size]
           bytes == Repeated(v, size, n)
<1>1. v \in Word /\ v \in Int
  <2>1. Values(size) \in Nat \ {0}
    BY WidthsPositive DEF Values
  <2>2. value \in Nat
    BY CutWord
  <2>3. v \in Nat /\ v <= value
    <3>1. ASSUME NEW x \in Nat, NEW k \in Nat \ {0} PROVE x % k \in Nat /\ x % k <= x
      BY SMT
    <3> QED BY <2>1, <2>2, <3>1
  <2> HIDE DEF v
  <2>4. v \in Word
    BY <2>2, <2>3, WidthsPositive DEF Word
  <2> QED BY <2>3, <2>4
<1>2. call \in Instruction
  BY DEF Instruction
<1>3. call.op = "memset" /\ call.size = size
  OBVIOUS
<1> HIDE DEF v, call
<1>4. n \in Nat
  BY CutWord
<1>5. bytes \in Seq(Bytes)
  BY <1>1, <1>4, RepeatedFits
<1>6. Calls(A, D, call, address, v, n, bytes)
  <2> SUFFICES ASSUME NEW t \in Machines(A), t.reg[3] = address, t.reg[4] = v, t.reg[5] = n
               PROVE  Execute(t, call, D) = Called(t, address, bytes)
    BY DEF Calls
  <2>1. t.skip = 0
    BY DEF Machines
  <2>2. Execute(t, call, D) =
          Called(t, t.reg[3], Repeated(t.reg[4], call.size, t.reg[5]))
    BY <1>3, <2>1, Filling
  <2> QED BY <1>3, <2>2
<1> HIDE DEF bytes
<1>7. l = CallWith(e, address, v, n, call)
  BY DEF v, call
<1>8. Within(F, e, CallWith(e, address, v, n, call))
  BY <1>7
<1>9. Leaves(F, D, A, e, s, CallWith(e, address, v, n, call), Poke(s.memory, address, bytes))
  BY <1>1, <1>2, <1>5, <1>6, <1>8, CallRuns
<1> QED BY <1>7, <1>9 DEF bytes, v

\* 06, of an array that was copied behind the function.
LEMMA CopyRuns ==
  ASSUME RealBytes, NEW A, NEW s \in Machines(A), NEW address \in Word, NEW bytes \in Seq(Bytes),
         NEW n \in Word, n = Len(bytes), NEW src \in Word, NEW F, NEW D, src \in DOMAIN D,
         D[src].bytes = bytes, NEW e \in Emission, Agrees(e, s),
         NEW l, l = CallWith(e, address, src, n, [op |-> "memcpy"]), Within(F, e, l)
  PROVE  Leaves(F, D, A, e, s, l, Poke(s.memory, address, bytes))
<1> DEFINE call == [op |-> "memcpy"]
<1>1. call \in Instruction /\ call.op = "memcpy"
  BY DEF Instruction
<1> HIDE DEF call
<1>2. Calls(A, D, call, address, src, n, bytes)
  <2> SUFFICES ASSUME NEW t \in Machines(A), t.reg[3] = address, t.reg[4] = src, t.reg[5] = n
               PROVE  Execute(t, call, D) = Called(t, address, bytes)
    BY DEF Calls
  <2>1. t.skip = 0
    BY DEF Machines
  <2> QED BY <1>1, <2>1, Copying
<1>3. l = CallWith(e, address, src, n, call)
  BY DEF call
<1>4. Within(F, e, CallWith(e, address, src, n, call))
  BY <1>3
<1> QED BY <1>1, <1>2, <1>3, <1>4, CallRuns

\* C0.
LEMMA ExecuteRuns ==
  ASSUME RealBytes, NEW A, NEW s \in Machines(A), NEW at \in Word, at % 4 = 0, NEW F, NEW D,
         NEW address \in Word, NEW value \in Word, D[at].address = address, D[at].value = value,
         NEW e \in Emission, Agrees(e, s),
         NEW l, l = Emit(ImmediateLoad(e, 15, at), <<[op |-> "bl", target |-> at]>>), Within(F, e, l)
  PROVE  Leaves(F, D, A, e, s, l, Poke(s.memory, address, BytesOf(value, 4)))
<1> DEFINE q == ImmediateLoad(e, 15, at)
           call == [op |-> "bl", target |-> at]
           is == <<call>>
           k == 4
           bytes == BytesOf(value, k)
<1>1. at \in Int /\ address \in Int /\ value \in Int /\ k \in {1, 2, 4}
      /\ 15 \in Register /\ 15 \in Register \ {0} /\ 15 \in Registers /\ 1 \in Registers
  BY CutWord DEF Register, Registers
<1>2. call \in Instruction /\ call.op = "bl" /\ call.target = at
  BY <1>1 DEF Instruction
<1> HIDE DEF call, k
<1>3. is \in Seq(Instruction) /\ bytes \in Seq(Bytes)
  BY <1>1, <1>2, Instructions, BytesFit
<1>4. q \in Extensions(e) /\ q \in Emission
  <2>1. q \in Extensions(e)
    BY <1>1, ExtendsItself, Loading
  <2> QED BY <2>1 DEF Extensions
<1>5. l = Emit(q, is)
  BY DEF call
<1>6. q = ImmediateLoad(e, 15, at)
  OBVIOUS
<1> HIDE DEF q, is, bytes
<1>7. l \in Extensions(q)
  BY <1>3, <1>4, <1>5, Emitted
<1>8. Within(F, e, ImmediateLoad(e, 15, at))
  <2>1. Within(F, e, q)
    BY <1>4, <1>7, WithinParts
  <2> QED BY <1>6, <2>1
<1>9. PICK t : /\ Reaches(F, D, Len(e.text), s, Len(q.text), t)
               /\ Loaded(A, s, t, 15, at) /\ Agrees(q, t)
  BY <1>1, <1>6, <1>8, LoadRuns
<1>10. t \in Machines(A) /\ t.memory = s.memory /\ t.reg[15] = at /\ t.reg[1] = s.reg[1]
  BY <1>1, <1>9 DEF Loaded
<1>11. Execute(t, call, D) = Called(t, address, bytes)
  <2>1. t.skip = 0
    BY <1>10 DEF Machines
  <2>2. address = D[at].address /\ bytes = BytesOf(D[at].value, 4)
    BY DEF bytes, k
  <2> QED BY <1>2, <1>10, <2>1, <2>2, CallingRoutine
<1>12. l = Emit(q, <<call>>)
  BY <1>5 DEF is
<1>13. Leaves(F, D, A, e, s, l, Poke(t.memory, address, bytes))
  BY <1>1, <1>2, <1>3, <1>4, <1>9, <1>10, <1>11, <1>12, OneCall
<1> QED BY <1>10, <1>13 DEF bytes, k

-----------------------------------------------------------------------------
(* What is tested.                                                         *)

\* What 20 and 28 emit before the branch.
Test(e, c) ==
  Compare(IF c.op = "if" THEN MemoryLoad(e, 14, c.address, 4)
          ELSE Mask(MemoryLoad(e, 14, c.address, 2), 14, 15, Half - 1 - c.mask), 14, c.value)

\* The part from e to l puts v in r14 and disturbs nothing that is known.
Gets(F, D, A, e, s, l, v) ==
  \E t : /\ Reaches(F, D, Len(e.text), s, Len(l.text), t)
         /\ Calm(A, s, t) /\ t.reg[14] = v /\ Agrees(l, t)

\* The part from e to l tells whether v is value, and disturbs nothing that is known.
Tells(F, D, A, e, s, l, v, value) ==
  \E t : /\ Reaches(F, D, Len(e.text), s, Len(l.text), t)
         /\ Calm(A, s, t) /\ (t.equal <=> v = value) /\ Agrees(l, t)

\* A comparison behind what loaded the register.
LEMMA CompareBehind ==
  ASSUME RealBytes, NEW A, NEW s \in Machines(A), NEW value \in Word, dirty => value < Half \div 2,
         NEW F, NEW D, NEW e \in Emission, NEW q \in Extensions(e), NEW v,
         Within(F, e, q) => Gets(F, D, A, e, s, q, v), NEW l, l = Compare(q, 14, value)
  PROVE  /\ l \in Extensions(e)
         /\ Within(F, e, l) => Tells(F, D, A, e, s, l, v, value)
<1>1. q \in Emission /\ 14 \in Register /\ value \in Int
  BY CutWord DEF Extensions, Register
<1>2. l \in Extensions(q)
  <2>1. Compare(q, 14, value) \in Extensions(q)
    BY <1>1, ExtendsItself, Comparing
  <2> QED BY <2>1
<1>3. l \in Extensions(e)
  BY <1>1, <1>2, ExtensionsNest
<1>4. ASSUME Within(F, e, l)
      PROVE  Tells(F, D, A, e, s, l, v, value)
  <2>1. /\ Len(e.text) \in Nat /\ Len(q.text) \in Nat /\ Len(l.text) \in Nat
        /\ Len(e.text) <= Len(q.text) /\ Len(q.text) <= Len(l.text)
        /\ Within(F, e, q) /\ Within(F, q, l)
    BY <1>2, <1>4, WithinParts
  <2>2. PICK t : /\ Reaches(F, D, Len(e.text), s, Len(q.text), t)
                 /\ Calm(A, s, t) /\ t.reg[14] = v /\ Agrees(q, t)
    BY <2>1 DEF Gets
  <2>3. t \in Machines(A) /\ t.memory = s.memory /\ t.reg[1] = s.reg[1]
    BY <2>2 DEF Calm
  <2>4. Within(F, q, Compare(q, 14, value))
    BY <2>1
  <2>5. PICK u : /\ Reaches(F, D, Len(q.text), t, Len(Compare(q, 14, value).text), u)
                 /\ Calm(A, t, u) /\ (u.equal <=> t.reg[14] = value)
                 /\ Agrees(Compare(q, 14, value), u)
    BY <1>1, <2>2, <2>3, <2>4, CompareRuns
  <2>6. Len(e.text) \in Int /\ Len(q.text) \in Int /\ Len(l.text) \in Int
        /\ Reaches(F, D, Len(q.text), t, Len(l.text), u)
    BY <2>1, <2>5
  <2>7. Reaches(F, D, Len(e.text), s, Len(l.text), u)
    BY <2>1, <2>2, <2>6, Onward
  <2>8. Calm(A, s, u) /\ (u.equal <=> v = value) /\ Agrees(l, u)
    BY <2>2, <2>3, <2>5 DEF Calm
  <2> QED BY <2>7, <2>8 DEF Tells
<1> QED BY <1>3, <1>4

\* 20 and 28: the machine finds equal what the code asks for.
LEMMA TestRuns ==
  ASSUME RealBytes, NEW A, NEW s \in Machines(A), NEW c, c.op \in Conditional, c.address \in Word,
         c.value \in Word, c.op = "ifMasked" => c.mask \in Field,
         dirty => c.value < Half \div 2, NEW F, NEW D, NEW e \in Emission, Agrees(e, s)
  PROVE  /\ Test(e, c) \in Extensions(e)
         /\ Within(F, e, Test(e, c)) =>
              \E t : /\ Reaches(F, D, Len(e.text), s, Len(Test(e, c).text), t)
                     /\ Calm(A, s, t) /\ (t.equal <=> Holds(s.memory, c))
                     /\ Agrees(Test(e, c), t)
<1> DEFINE value == c.value
           address == c.address
<1>1. /\ address \in Word /\ address \in Int /\ value \in Word /\ 14 \in Register /\ 15 \in Register
      /\ 14 \in Register \ {0} /\ 14 \in Registers /\ 1 \in Registers /\ 2 \in {1, 2, 4}
      /\ 4 \in {1, 2, 4} /\ c.op \in {"if", "ifMasked"}
  BY CutWord DEF Register, Registers, Conditional
<1>2. \A size \in {1, 2, 4} :
        /\ MemoryLoad(e, 14, address, size) \in Extensions(e)
        /\ Within(F, e, MemoryLoad(e, 14, address, size)) =>
             /\ Gets(F, D, A, e, s, MemoryLoad(e, 14, address, size), ValueAt(s.memory, address, size))
             /\ ~ IsKnown(MemoryLoad(e, 14, address, size), 14)
  <2> TAKE size \in {1, 2, 4}
  <2> DEFINE l == MemoryLoad(e, 14, address, size)
  <2>1. l \in Extensions(e)
    BY <1>1, ExtendsItself, MemoryLoading
  <2>2. ASSUME Within(F, e, l)
        PROVE  Gets(F, D, A, e, s, l, ValueAt(s.memory, address, size)) /\ ~ IsKnown(l, 14)
    <3>1. PICK t : /\ Reaches(F, D, Len(e.text), s, Len(l.text), t)
                   /\ Loaded(A, s, t, 14, ValueAt(s.memory, address, size))
                   /\ Agrees(l, t) /\ ~ IsKnown(l, 14)
      BY <1>1, <2>2, MemoryLoadRuns
    <3> HIDE DEF l
    <3>2. Calm(A, s, t) /\ t.reg[14] = ValueAt(s.memory, address, size)
      BY <1>1, <3>1 DEF Loaded, Calm
    <3> QED BY <3>1, <3>2 DEF Gets
  <2> QED BY <2>1, <2>2
<1>3. CASE c.op = "if"
  <2> DEFINE size == 4
             q == MemoryLoad(e, 14, address, size)
             v == ValueAt(s.memory, address, size)
             l == Compare(q, 14, value)
  <2>1. Test(e, c) = l /\ (Holds(s.memory, c) <=> v = value)
    BY <1>3 DEF Test, Holds
  <2>2. q \in Extensions(e) /\ (Within(F, e, q) => Gets(F, D, A, e, s, q, v))
    BY <1>1, <1>2
  <2> HIDE DEF q, v, value
  <2>3. /\ l \in Extensions(e)
        /\ Within(F, e, l) => Tells(F, D, A, e, s, l, v, value)
    <3>1. dirty => value < Half \div 2
      BY DEF value
    <3>2. l = Compare(q, 14, value) /\ value \in Word
      BY <1>1 DEF value
    <3> HIDE DEF l
    <3> QED BY <2>2, <3>1, <3>2, CompareBehind
  <2> HIDE DEF l
  <2> QED BY <2>1, <2>3 DEF Tells
<1>4. CASE c.op = "ifMasked"
  <2> DEFINE size == 2
             p == MemoryLoad(e, 14, address, size)
             mask == Half - 1 - c.mask
             q == Mask(p, 14, 15, mask)
             w == ValueAt(s.memory, address, size)
             v == And(w, mask)
             l == Compare(q, 14, value)
  <2>1. Test(e, c) = l /\ (Holds(s.memory, c) <=> v = value)
    BY <1>4 DEF Test, Holds
  <2>2. /\ p \in Extensions(e)
        /\ Within(F, e, p) => Gets(F, D, A, e, s, p, w) /\ ~ IsKnown(p, 14)
    BY <1>1, <1>2
  <2>3. mask \in Field /\ mask \in Word
    <3>1. c.mask \in Field
      BY <1>4
    <3>2. Half - 1 - c.mask \in Field
      BY <3>1, WidthsPositive DEF Field
    <3>3. ASSUME NEW h \in Nat \ {0} PROVE h <= h * h
      BY SMT
    <3>4. \A x \in Field : x \in Word
      BY <3>3, WidthsPositive DEF Field, Word, Full
    <3> QED BY <3>2, <3>4
  <2> HIDE DEF p, w, mask
  <2>4. p \in Emission
    BY <2>2 DEF Extensions
  <2>5. q \in Extensions(p)
    BY <1>1, <2>3, <2>4, ExtendsItself, Masking
  <2>6. q \in Extensions(e)
    BY <2>2, <2>5, ExtensionsNest
  <2>7. ASSUME Within(F, e, q) PROVE Gets(F, D, A, e, s, q, v)
    <3>1. /\ Len(e.text) \in Nat /\ Len(p.text) \in Nat /\ Len(q.text) \in Nat
          /\ Len(e.text) <= Len(p.text) /\ Len(p.text) <= Len(q.text)
          /\ Within(F, e, p) /\ Within(F, p, q)
      BY <2>2, <2>5, <2>7, WithinParts
    <3>2. ~ IsKnown(p, 14) /\ Gets(F, D, A, e, s, p, w)
      BY <2>2, <3>1
    <3>3. PICK t : /\ Reaches(F, D, Len(e.text), s, Len(p.text), t)
                   /\ Calm(A, s, t) /\ t.reg[14] = w /\ Agrees(p, t)
      BY <3>2 DEF Gets
    <3>4. t \in Machines(A)
      BY <3>3 DEF Calm
    <3>5. PICK u : /\ Reaches(F, D, Len(p.text), t, Len(q.text), u)
                   /\ Calm(A, t, u) /\ u.reg[14] = And(t.reg[14], mask) /\ Agrees(q, u)
      BY <2>3, <2>4, <3>1, <3>2, <3>3, <3>4, MaskRuns
    <3> HIDE DEF q
    <3>6. Len(e.text) \in Int /\ Len(p.text) \in Int /\ Len(q.text) \in Int
      BY <3>1
    <3>7. Reaches(F, D, Len(e.text), s, Len(q.text), u)
      BY <3>1, <3>3, <3>5, <3>6, Onward
    <3>8. Calm(A, s, u) /\ u.reg[14] = v
      BY <3>3, <3>5 DEF Calm
    <3> QED BY <3>5, <3>7, <3>8 DEF Gets
  <2> HIDE DEF q, v, value
  <2>8. /\ l \in Extensions(e)
        /\ Within(F, e, l) => Tells(F, D, A, e, s, l, v, value)
    <3>1. dirty => value < Half \div 2
      BY DEF value
    <3>2. l = Compare(q, 14, value) /\ value \in Word
      BY <1>1 DEF value
    <3> HIDE DEF l
    <3> QED BY <2>6, <2>7, <3>1, <3>2, CompareBehind
  <2> HIDE DEF l
  <2> QED BY <2>1, <2>8 DEF Tells
<1> QED BY <1>1, <1>3, <1>4

-----------------------------------------------------------------------------
(* The stack frame.                                                        *)

\* The memory that a compiled function has: the game's and its own stack frame.
Addresses == Cells \cup Frame

\* What the proof takes the machine to be: it has the real widths, the frame is in its
\* memory and apart from the memory that codes work on, and so is the caller's memory,
\* in which branches reach one another.
RealMachine ==
  /\ RealBytes /\ Stack < Full /\ MemoryBegin + MemorySize <= Full
  /\ MemorySize < BranchSpan \div 2
  /\ Cells \cap Frame = {} /\ Memories \subseteq [Cells -> Bytes]

\* Where register r is saved, and what the caller's registers hold.
Slot(r) == CASE r = 0 -> Stack - 24 [] r = 14 -> Stack - 20 [] r = 15 -> Stack - 16
Kept(memory) ==
  /\ ValueAt(memory, Slot(0), 4) = Half + Lr
  /\ ValueAt(memory, Slot(14), 4) = Half + 14
  /\ ValueAt(memory, Slot(15), 4) = Half + 15

\* Where the slots are: in the frame, and apart from one another.
LEMMA Slots ==
  ASSUME RealMachine
  PROVE  /\ Stack - 32 \in Word /\ Stack \in Word /\ Numbers(Addresses)
         /\ Slot(0) = Stack - 24 /\ Slot(14) = Stack - 20 /\ Slot(15) = Stack - 16
         /\ \A r \in {0, 14, 15} :
              /\ Slot(r) \in Word /\ Slot(r) \in Int
              /\ Slot(r) .. Slot(r) + 3 \subseteq Frame
              /\ \A q \in {0, 14, 15} \ {r} :
                   \A x \in Slot(r) .. Slot(r) + 3 : x \notin Slot(q) .. Slot(q) + 3
<1>1. Stack \in Nat /\ Stack > 32 /\ Stack <= Full - 1 /\ Full \in Int
  <2>1. Stack < Full /\ Stack \in Nat /\ Stack > 32 /\ Full \in Int
    BY MachineAssumption, WidthsPositive DEF RealMachine
  <2> QED BY <2>1
<1>2. Slot(0) = Stack - 24 /\ Slot(14) = Stack - 20 /\ Slot(15) = Stack - 16
  BY DEF Slot
<1>3. Stack - 32 \in Word /\ Stack \in Word
  BY <1>1 DEF Word
<1>4. Numbers(Addresses)
  <2>1. \A c \in Frame : c \in Int
    BY <1>1 DEF Frame
  <2>2. \A c \in Cells : c \in Int
    BY MachineAssumption
  <2> QED BY <2>1, <2>2 DEF Numbers, Addresses
<1>5. ASSUME NEW r \in {0, 14, 15}
      PROVE  /\ Slot(r) \in Word /\ Slot(r) \in Int
             /\ Slot(r) .. Slot(r) + 3 \subseteq Frame
             /\ \A q \in {0, 14, 15} \ {r} :
                  \A x \in Slot(r) .. Slot(r) + 3 : x \notin Slot(q) .. Slot(q) + 3
  <2>1. Slot(r) \in Int /\ Slot(r) >= 0 /\ Slot(r) <= Full - 1
        /\ Slot(r) >= Stack - 32 /\ Slot(r) + 3 <= Stack - 1
    BY <1>1, <1>2
  <2>2. Slot(r) \in Word
    BY <1>1, <2>1 DEF Word
  <2>3. Slot(r) .. Slot(r) + 3 \subseteq Frame
    BY <1>1, <2>1 DEF Frame
  <2>4. \A q \in {0, 14, 15} \ {r} :
          \A x \in Slot(r) .. Slot(r) + 3 : x \notin Slot(q) .. Slot(q) + 3
    BY <1>1, <1>2
  <2> QED BY <2>1, <2>2, <2>3, <2>4
<1> QED BY <1>2, <1>3, <1>4, <1>5

\* Apart from the frame.
Clear(a, n) == \A x \in a .. a + n - 1 : x \notin Frame

\* Writing elsewhere keeps what is saved.
LEMMA FrameKept ==
  ASSUME RealMachine, NEW memory, Kept(memory), NEW a \in Int, NEW bytes, Clear(a, Len(bytes))
  PROVE  Kept(Poke(memory, a, bytes))
<1>1. ASSUME NEW r \in {0, 14, 15}
      PROVE  ValueAt(Poke(memory, a, bytes), Slot(r), 4) = ValueAt(memory, Slot(r), 4)
  <2> DEFINE k == 4
  <2>1. k \in {1, 2, 4} /\ k = 4
    OBVIOUS
  <2> DEFINE b == Slot(r)
  <2>2. b \in Int /\ b .. b + 3 \subseteq Frame
    BY Slots
  <2> HIDE DEF b, k
  <2>3. \A x \in b .. b + k - 1 : x \notin a .. a + Len(bytes) - 1
    BY <2>1, <2>2 DEF Clear
  <2>4. ValueAt(Poke(memory, a, bytes), b, k) = ValueAt(memory, b, k)
    BY <2>1, <2>2, <2>3, ReadsElsewhere
  <2> QED BY <2>4 DEF b, k
<1> QED BY <1>1 DEF Kept

\* The game's memory, as it is in a larger one.
Same(g, memory) == \A c \in Cells : g[c] = memory[c]

\* What is written to both stays the same in both.
LEMMA PokedAlike ==
  ASSUME NEW g \in [Addresses -> Bytes], NEW memory \in [Cells -> Bytes], Same(g, memory),
         NEW a \in Int, NEW bytes
  PROVE  Same(Poke(g, a, bytes), Poke(memory, a, bytes))
<1>1. DOMAIN g = Addresses /\ DOMAIN memory = Cells
  OBVIOUS
<1>2. ASSUME NEW c \in Cells PROVE Poke(g, a, bytes)[c] = Poke(memory, a, bytes)[c]
  <2>1. c \in DOMAIN g /\ c \in DOMAIN memory /\ g[c] = memory[c]
    BY <1>1 DEF Addresses, Same
  <2>2. CASE c \in a .. a + Len(bytes) - 1
    <3>1. Poke(g, a, bytes)[c] = bytes[c - a + 1]
      BY <2>1, <2>2, Poked
    <3>2. Poke(memory, a, bytes)[c] = bytes[c - a + 1]
      BY <2>1, <2>2, Poked
    <3> QED BY <3>1, <3>2
  <2>3. CASE c \notin a .. a + Len(bytes) - 1
    <3>1. Poke(g, a, bytes)[c] = g[c]
      BY <2>1, <2>3, Poked
    <3>2. Poke(memory, a, bytes)[c] = memory[c]
      BY <2>1, <2>3, Poked
    <3> QED BY <2>1, <3>1, <3>2
  <2> QED BY <2>2, <2>3
<1> QED BY <1>2 DEF Same

\* What is written to the frame is not the game's.
LEMMA PokedApart ==
  ASSUME RealMachine, NEW g \in [Addresses -> Bytes], NEW memory \in [Cells -> Bytes],
         Same(g, memory), NEW a \in Int, NEW bytes,
         \A x \in a .. a + Len(bytes) - 1 : x \in Frame
  PROVE  Same(Poke(g, a, bytes), memory)
<1> SUFFICES ASSUME NEW c \in Cells PROVE Poke(g, a, bytes)[c] = memory[c]
  BY DEF Same
<1>1. DOMAIN g = Addresses /\ g[c] = memory[c]
  BY DEF Same
<1>2. c \in Addresses /\ c \notin a .. a + Len(bytes) - 1
  BY DEF Addresses, RealMachine
<1>3. Poke(g, a, bytes)[c] = g[c]
  BY <1>1, <1>2, Poked
<1> QED BY <1>1, <1>3

\* The machine that a function is called on.
LEMMA Started ==
  ASSUME RealMachine, NEW m \in [Cells -> Bytes]
  PROVE  /\ Machine(m) \in Machines(Addresses) /\ Same(Machine(m).memory, m)
         /\ Machine(m).reg[1] = Stack /\ Machine(m).reg[14] = Half + 14
         /\ Machine(m).reg[15] = Half + 15 /\ Machine(m).reg[Lr] = Half + Lr
<1> DEFINE mem == [c \in DOMAIN m \cup Frame |-> IF c \in DOMAIN m THEN m[c] ELSE 0]
           g == [r \in {0, 1, 3, 4, 5, 14, 15, Lr} |-> IF r = 1 THEN Stack ELSE Half + r]
           t == [memory |-> mem, reg |-> g, equal |-> FALSE, skip |-> 0, ok |-> TRUE]
<1>1. Machine(m) = t
  BY DEF Machine
<1>2. mem \in [Addresses -> 0 .. Byte - 1] /\ Same(mem, m)
  <2>1. DOMAIN m = Cells /\ 0 \in 0 .. Byte - 1
    BY WidthsPositive
  <2>2. mem \in [Addresses -> 0 .. Byte - 1]
    BY <2>1 DEF Addresses, Bytes
  <2>3. \A c \in Cells : mem[c] = m[c]
    BY <2>1
  <2> QED BY <2>2, <2>3 DEF Same
<1>3. Stack \in Word
  BY Slots
<1>4. \A r \in Registers : Half + r \in Word
  <2>1. RealBytes /\ Half = 65536 /\ \A v : v \in Word <=> v \in Nat /\ v < 65536 * 65536
    BY RealWords DEF RealMachine
  <2>2. ASSUME NEW r \in Registers PROVE 65536 + r \in Nat /\ 65536 + r < 65536 * 65536
    BY SMT DEF Registers, Lr
  <2> QED BY <2>1, <2>2
<1>5. g \in [Registers -> Word]
  BY <1>3, <1>4 DEF Registers
<1>6. g[1] = Stack /\ g[14] = Half + 14 /\ g[15] = Half + 15 /\ g[Lr] = Half + Lr
  BY DEF Lr
<1> HIDE DEF mem, g
<1>7. t \in Machines(Addresses)
  BY <1>2, <1>5 DEF Machines
<1>8. t.memory = mem /\ t.reg = g
  OBVIOUS
<1> HIDE DEF t
<1> QED BY <1>1, <1>2, <1>6, <1>7, <1>8

\* stw: register r is stored at an offset from the stack pointer.
Saves(r, at) == StoreTo(r, 1, at, 4, FALSE)

\* t is s with register r stored in its slot.
Puts(s, r, t) ==
  /\ t \in Machines(Addresses) /\ \A q \in Registers : t.reg[q] = s.reg[q]
  /\ ValueAt(t.memory, Slot(r), 4) = s.reg[r]
  /\ \A q \in {0, 14, 15} \ {r} :
       ValueAt(t.memory, Slot(q), 4) = ValueAt(s.memory, Slot(q), 4)
  /\ \A m \in [Cells -> Bytes] : Same(s.memory, m) => Same(t.memory, m)

\* One of the prologue's stores.
LEMMA SlotStored ==
  ASSUME RealMachine, NEW s \in Machines(Addresses), s.reg[1] = Stack - 32,
         NEW r \in {0, 14, 15}, NEW at \in Nat, Slot(r) = Stack - 32 + at, at < 32, NEW D
  PROVE  \E t : t = Execute(s, Saves(r, at), D) /\ Puts(s, r, t)
<1> DEFINE a == Slot(r)
           k == 4
           b == 1
           update == FALSE
           t == Execute(s, StoreTo(r, b, at, k, update), D)
           v == s.reg[r]
           bytes == BytesOf(v, k)
<1>1. t = Execute(s, StoreTo(r, b, at, k, update), D) /\ update \in BOOLEAN /\ b = 1
  OBVIOUS
<1>2. (IF update THEN a ELSE s.reg[b]) = s.reg[b]
  OBVIOUS
<1> HIDE DEF b, update, t
<1>3. a \in Word /\ a \in Int /\ a .. a + 3 \subseteq Frame /\ a .. a + 3 \subseteq Addresses
  BY Slots DEF Addresses
<1>4. r \in Registers /\ 1 \in Registers \ {0} /\ v \in Word /\ k \in {1, 2, 4} /\ k = 4
      /\ s.memory \in [Addresses -> Bytes] /\ 1 \in Registers /\ RealBytes /\ v \in Int
  BY CutWord DEF Registers, Machines, RealMachine, Bytes
<1>5. (s.reg[1] + SignedHalf(at % Half)) % Full = a
  <2>1. Half = 65536 /\ Half \div 2 = 32768
    BY <1>4, RealWords
  <2>2. SignedHalf(at % Half) = at
    BY <2>1, SMT DEF SignedHalf
  <2>3. s.reg[1] + SignedHalf(at % Half) = a
    BY <2>2
  <2>4. a % Full = a
    BY <1>3, CutWord
  <2> QED BY <2>3, <2>4
<1> HIDE DEF a, k
<1>6. /\ t \in Machines(Addresses) /\ t.memory = Poke(s.memory, a, bytes)
      /\ t.reg[1] = s.reg[1] /\ \A q \in Registers \ {1} : t.reg[q] = s.reg[q]
  <2>1. b \in Registers \ {0} /\ (s.reg[b] + SignedHalf(at % Half)) % Full = a
    BY <1>4, <1>5, <1>1
  <2>2. t.reg[b] = IF update THEN a ELSE s.reg[b]
    BY <1>3, <1>4, <1>1, <2>1, StoreExecutes
  <2>3. /\ t \in Machines(Addresses) /\ t.memory = Poke(s.memory, a, BytesOf(s.reg[r], k))
        /\ \A q \in Registers \ {b} : t.reg[q] = s.reg[q]
    BY <1>3, <1>4, <1>1, <2>1, StoreExecutes
  <2> QED BY <1>1, <1>2, <2>2, <2>3
<1>7. \A q \in Registers : t.reg[q] = s.reg[q]
  BY <1>6
<1>8. Len(bytes) = 4
  BY <1>4, BytesFit
<1>9. ValueAt(t.memory, a, 4) = v
  <2> HIDE DEF v
  <2>1. ValueAt(Poke(s.memory, a, BytesOf(v, 4)), a, 4) = v
    BY <1>3, <1>4, PokedWord
  <2> QED BY <1>4, <1>6, <2>1
<1> HIDE DEF bytes
<1>10. ASSUME NEW q \in {0, 14, 15} \ {r}
      PROVE  ValueAt(t.memory, Slot(q), 4) = ValueAt(s.memory, Slot(q), 4)
  <2> DEFINE c == Slot(q)
  <2>1. c \in Int /\ \A x \in c .. c + 3 : x \notin a .. a + 3
    BY Slots DEF a
  <2> HIDE DEF c
  <2>2. \A x \in c .. c + k - 1 : x \notin a .. a + Len(bytes) - 1
    BY <1>3, <1>4, <1>8, <2>1
  <2>3. ValueAt(Poke(s.memory, a, bytes), c, k) = ValueAt(s.memory, c, k)
    BY <1>3, <1>4, <2>1, <2>2, ReadsElsewhere
  <2> QED BY <1>4, <1>6, <2>3 DEF c
<1>11. ASSUME NEW m \in [Cells -> Bytes], Same(s.memory, m) PROVE Same(t.memory, m)
  <2>1. \A x \in a .. a + Len(bytes) - 1 : x \in Frame
    BY <1>3, <1>8
  <2> QED BY <1>3, <1>4, <1>6, <1>11, <2>1, PokedApart
<1>12. Puts(s, r, t)
  BY <1>6, <1>7, <1>9, <1>10, <1>11 DEF Puts, a, v
<1>13. t = Execute(s, Saves(r, at), D)
  BY DEF Saves, t, b, k, update
<1> QED BY <1>12, <1>13

\* A word of two registers' sum.
LEMMA StackMoves ==
  ASSUME RealMachine
  PROVE  /\ (Stack + SignedHalf((-32) % Half)) % Full = Stack - 32
         /\ (Stack - 32 + SignedHalf(32 % Half)) % Full = Stack
         /\ \A at \in {8, 12, 16} : SignedHalf(at) = at
<1>1. Half = 65536 /\ Half \div 2 = 32768
  BY RealWords DEF RealMachine
<1>2. SignedHalf((-32) % Half) = -32 /\ SignedHalf(32 % Half) = 32
  BY <1>1, SMT DEF SignedHalf
<1>3. \A at \in {8, 12, 16} : SignedHalf(at) = at
  BY <1>1, SMT DEF SignedHalf
<1>4. Stack - 32 \in Word /\ Stack \in Word /\ Stack \in Int
  BY Slots, MachineAssumption
<1>5. Stack + SignedHalf((-32) % Half) = Stack - 32 /\ Stack - 32 + SignedHalf(32 % Half) = Stack
  BY <1>2, <1>4
<1>6. (Stack - 32) % Full = Stack - 32 /\ Stack % Full = Stack
  BY <1>4, CutWord
<1> QED BY <1>3, <1>5, <1>6

\* stwu and mflr.
LEMMA FrameOpened ==
  ASSUME RealMachine, NEW m \in [Cells -> Bytes], NEW D
  PROVE  \E t : /\ t = Execute(Execute(Machine(m), StoreTo(1, 1, -32, 4, TRUE), D),
                               [op |-> "mflr", d |-> 0], D)
                /\ t \in Machines(Addresses) /\ t.reg[1] = Stack - 32 /\ t.reg[0] = Half + Lr
                /\ t.reg[14] = Half + 14 /\ t.reg[15] = Half + 15 /\ Same(t.memory, m)
<1> DEFINE s0 == Machine(m)
           a == Stack - 32
           k == 4
           b == 1
           delta == -32
           update == TRUE
           store == StoreTo(1, b, delta, k, update)
           i == [op |-> "mflr", d |-> 0]
           s == Execute(s0, store, D)
           t == Execute(s, i, D)
           bytes == BytesOf(s0.reg[1], k)
<1>1. /\ s0 \in Machines(Addresses) /\ Same(s0.memory, m) /\ s0.reg[1] = Stack
      /\ s0.reg[14] = Half + 14 /\ s0.reg[15] = Half + 15 /\ s0.reg[Lr] = Half + Lr
  BY Started
<1>2. a \in Word /\ a \in Int /\ k \in {1, 2, 4} /\ k = 4 /\ b = 1 /\ b \in Registers \ {0}
      /\ 1 \in Registers /\ 14 \in Registers /\ 15 \in Registers /\ Lr \in Registers
      /\ 0 \in Registers /\ Lr # 1 /\ Lr # 0
  BY Slots, CutWord DEF Registers, Lr
<1>3. (s0.reg[b] + SignedHalf(delta % Half)) % Full = a
  BY <1>1, StackMoves
<1>4. s = Execute(s0, StoreTo(1, b, delta, k, update), D) /\ update \in BOOLEAN
  OBVIOUS
<1>5. t = Execute(s, i, D) /\ i.op = "mflr" /\ i.d = 0
  OBVIOUS
<1>6. (IF update THEN a ELSE s0.reg[b]) = a
  OBVIOUS
<1> HIDE DEF s0, a, k, b, delta, update, store, i, s, t
<1>7. s.reg[b] = IF update THEN a ELSE s0.reg[b]
  BY <1>1, <1>2, <1>3, <1>4, StoreExecutes
<1>8. /\ s \in Machines(Addresses) /\ s.memory = Poke(s0.memory, a, bytes)
      /\ \A q \in Registers \ {b} : s.reg[q] = s0.reg[q]
  BY <1>1, <1>2, <1>3, <1>4, StoreExecutes
<1>9. s.reg[1] = a /\ s.reg[14] = Half + 14 /\ s.reg[15] = Half + 15 /\ s.reg[Lr] = Half + Lr
  BY <1>1, <1>2, <1>7, <1>8, <1>6
<1>10. Same(s.memory, m)
  <2>1. s0.memory \in [Addresses -> Bytes] /\ s0.reg[1] \in Int
    <3>1. s0.reg[1] \in Word
      BY <1>1, Slots
    <3> QED BY <1>1, <3>1, CutWord DEF Machines, Bytes
  <2>2. Len(bytes) = 4
    BY <1>2, <2>1, BytesFit
  <2> HIDE DEF bytes
  <2>3. \A x \in a .. a + Len(bytes) - 1 : x \in Frame
    BY <2>2, MachineAssumption DEF a, Frame
  <2> QED BY <1>1, <1>2, <1>8, <2>1, <2>3, PokedApart
<1>11. s.skip = 0
  BY <1>8 DEF Machines
<1>12. t = Set(s, 0, s.reg[Lr])
  <2>1. ~ s.skip > 0
    BY <1>11
  <2>2. Execute(s, i, D) = Set(s, i.d, s.reg[Lr])
    BY <1>5, <2>1 DEF Execute
  <2> QED BY <1>5, <2>2
<1> DEFINE v == s.reg[Lr]
<1>13. v \in Word /\ v % Full = v /\ v \in Int
  <2>1. v \in Word
    BY <1>2, <1>8 DEF Machines
  <2> QED BY <2>1, CutWord
<1> HIDE DEF v
<1>14. Loaded(Addresses, s, t, 0, v)
  <2>1. t = Set(s, 0, v)
    BY <1>12 DEF v
  <2>2. Loaded(Addresses, s, Set(s, 0, v), 0, v % Full)
    BY <1>2, <1>8, <1>13, Setting
  <2> QED BY <1>13, <2>1, <2>2
<1>15. /\ t \in Machines(Addresses) /\ t.memory = s.memory /\ t.reg[0] = v
       /\ t.reg[1] = s.reg[1] /\ t.reg[14] = s.reg[14] /\ t.reg[15] = s.reg[15]
  BY <1>2, <1>14 DEF Loaded
<1> QED BY <1>9, <1>10, <1>15 DEF a, v, t, s, s0, store, update, delta, b, k, i

\* Where a function ends up whose first n lines have run.
LEMMA NextLine ==
  ASSUME NEW F, NEW D, NEW n \in Nat, NEW s0, NEW s, Reaches(F, D, 0, s0, n, s),
         NEW k, k = n + 1, NEW i, F[k] = i, NEW t, t = Execute(s, i, D)
  PROVE  Reaches(F, D, 0, s0, k, t)
<1>1. n \in Int /\ 0 \in Int /\ k \in Int /\ 0 <= n /\ n <= k
  OBVIOUS
<1>2. Reaches(F, D, n, s, n + 1, Execute(s, F[n + 1], D))
  BY <1>1, OneMore
<1>3. Reaches(F, D, n, s, k, t)
  BY <1>2
<1> DEFINE z == 0
<1>4. z \in Int /\ z <= n /\ Reaches(F, D, z, s0, n, s)
  BY <1>1
<1> HIDE DEF z
<1>5. Reaches(F, D, z, s0, k, t)
  BY <1>1, <1>3, <1>4, Onward
<1> QED BY <1>5 DEF z

\* The five lines of the prologue save the caller's registers.
LEMMA PrologueRuns ==
  ASSUME RealMachine, NEW m \in [Cells -> Bytes], NEW F, NEW D,
         \A n \in 1 .. 5 : F[n] = Prologue[n]
  PROVE  \E u \in Machines(Addresses) :
           /\ Reaches(F, D, 0, Machine(m), 5, u)
           /\ u.reg[1] = Stack - 32 /\ Kept(u.memory) /\ Same(u.memory, m)
<1> DEFINE i1 == StoreTo(1, 1, -32, 4, TRUE)
           i2 == [op |-> "mflr", d |-> 0]
           i3 == Saves(0, 8)
           i4 == Saves(14, 12)
           i5 == Saves(15, 16)
           s0 == Machine(m)
           s1 == Execute(s0, i1, D)
<1>1. F[1] = i1 /\ F[2] = i2 /\ F[3] = i3 /\ F[4] = i4 /\ F[5] = i5
  <2>1. Prologue = <<i1, i2, i3, i4, i5>>
    BY DEF Prologue, Saves
  <2>2. 1 \in 1 .. 5 /\ 2 \in 1 .. 5 /\ 3 \in 1 .. 5 /\ 4 \in 1 .. 5 /\ 5 \in 1 .. 5
    OBVIOUS
  <2> HIDE DEF i1, i2, i3, i4, i5
  <2>3. /\ Prologue[1] = i1 /\ Prologue[2] = i2 /\ Prologue[3] = i3
        /\ Prologue[4] = i4 /\ Prologue[5] = i5
    BY <2>1
  <2> QED BY <2>2, <2>3
<1>2. PICK s2 : /\ s2 = Execute(s1, i2, D) /\ s2 \in Machines(Addresses)
                /\ s2.reg[1] = Stack - 32 /\ s2.reg[0] = Half + Lr /\ s2.reg[14] = Half + 14
                /\ s2.reg[15] = Half + 15 /\ Same(s2.memory, m)
  BY FrameOpened
<1> HIDE DEF i1, i2, s0, s1
<1>3. 0 \in Registers /\ 1 \in Registers /\ 14 \in Registers /\ 15 \in Registers
  BY DEF Registers
<1>4. PICK s3 : s3 = Execute(s2, i3, D) /\ Puts(s2, 0, s3)
  <2> DEFINE r == 0
             at == 8
  <2>1. /\ r \in {0, 14, 15} /\ at \in Nat /\ Slot(r) = Stack - 32 + at /\ at < 32
        /\ s2 \in Machines(Addresses) /\ s2.reg[1] = Stack - 32
    BY <1>2, Slots, MachineAssumption
  <2> HIDE DEF r, at
  <2>2. \E t : t = Execute(s2, Saves(r, at), D) /\ Puts(s2, r, t)
    BY <2>1, SlotStored
  <2> QED BY <2>2 DEF r, at
<1>5. /\ s3 \in Machines(Addresses) /\ s3.reg[1] = Stack - 32
      /\ s3.reg[14] = Half + 14 /\ s3.reg[15] = Half + 15
  BY <1>2, <1>4, <1>3 DEF Puts
<1>6. PICK s4 : s4 = Execute(s3, i4, D) /\ Puts(s3, 14, s4)
  <2> DEFINE r == 14
             at == 12
  <2>1. /\ r \in {0, 14, 15} /\ at \in Nat /\ Slot(r) = Stack - 32 + at /\ at < 32
        /\ s3 \in Machines(Addresses) /\ s3.reg[1] = Stack - 32
    BY <1>5, Slots, MachineAssumption
  <2> HIDE DEF r, at
  <2>2. \E t : t = Execute(s3, Saves(r, at), D) /\ Puts(s3, r, t)
    BY <2>1, SlotStored
  <2> QED BY <2>2 DEF r, at
<1>7. s4 \in Machines(Addresses) /\ s4.reg[1] = Stack - 32 /\ s4.reg[15] = Half + 15
  BY <1>5, <1>6, <1>3 DEF Puts
<1>8. PICK s5 : s5 = Execute(s4, i5, D) /\ Puts(s4, 15, s5)
  <2> DEFINE r == 15
             at == 16
  <2>1. /\ r \in {0, 14, 15} /\ at \in Nat /\ Slot(r) = Stack - 32 + at /\ at < 32
        /\ s4 \in Machines(Addresses) /\ s4.reg[1] = Stack - 32
    BY <1>7, Slots, MachineAssumption
  <2> HIDE DEF r, at
  <2>2. \E t : t = Execute(s4, Saves(r, at), D) /\ Puts(s4, r, t)
    BY <2>1, SlotStored
  <2> QED BY <2>2 DEF r, at
<1>9. s5 \in Machines(Addresses) /\ s5.reg[1] = Stack - 32
  BY <1>7, <1>8, <1>3 DEF Puts
<1>10. Kept(s5.memory)
  <2>1. /\ 0 \in {0, 14, 15} \ {14} /\ 0 \in {0, 14, 15} \ {15} /\ 14 \in {0, 14, 15} \ {15}
    OBVIOUS
  <2>2. ValueAt(s5.memory, Slot(15), 4) = Half + 15
    BY <1>7, <1>8 DEF Puts
  <2>3. ValueAt(s5.memory, Slot(14), 4) = Half + 14
    <3>1. ValueAt(s4.memory, Slot(14), 4) = Half + 14
      BY <1>5, <1>6 DEF Puts
    <3>2. ValueAt(s5.memory, Slot(14), 4) = ValueAt(s4.memory, Slot(14), 4)
      BY <1>8, <2>1 DEF Puts
    <3> QED BY <3>1, <3>2
  <2>4. ValueAt(s5.memory, Slot(0), 4) = Half + Lr
    <3>1. ValueAt(s3.memory, Slot(0), 4) = Half + Lr
      BY <1>2, <1>4 DEF Puts
    <3>2. ValueAt(s4.memory, Slot(0), 4) = ValueAt(s3.memory, Slot(0), 4)
      BY <1>6, <2>1 DEF Puts
    <3>3. ValueAt(s5.memory, Slot(0), 4) = ValueAt(s4.memory, Slot(0), 4)
      BY <1>8, <2>1 DEF Puts
    <3> QED BY <3>1, <3>2, <3>3
  <2> QED BY <2>2, <2>3, <2>4 DEF Kept
<1>11. Same(s5.memory, m)
  BY <1>2, <1>4, <1>6, <1>8 DEF Puts
<1> HIDE DEF i3, i4, i5
<1>12. Reaches(F, D, 0, s0, 5, s5)
  <2>1. Reaches(F, D, 0, s0, 0, s0)
    BY Staying
  <2>2. s1 = Execute(s0, i1, D)
    BY DEF s1
  <2>3. 0 \in Nat /\ 1 = 0 + 1 /\ 1 \in Nat /\ 2 = 1 + 1 /\ 2 \in Nat /\ 3 = 2 + 1 /\ 3 \in Nat
        /\ 4 = 3 + 1 /\ 4 \in Nat /\ 5 = 4 + 1
    OBVIOUS
  <2>4. Reaches(F, D, 0, s0, 1, s1)
    BY <1>1, <2>1, <2>2, <2>3, NextLine
  <2>5. Reaches(F, D, 0, s0, 2, s2)
    BY <1>1, <1>2, <2>3, <2>4, NextLine
  <2>6. Reaches(F, D, 0, s0, 3, s3)
    BY <1>1, <1>4, <2>3, <2>5, NextLine
  <2>7. Reaches(F, D, 0, s0, 4, s4)
    BY <1>1, <1>6, <2>3, <2>6, NextLine
  <2> QED BY <1>1, <1>8, <2>3, <2>7, NextLine
<1> QED BY <1>9, <1>10, <1>11, <1>12 DEF s0

\* lwz: register r is loaded from an offset from the stack pointer.
Reloads(r, at) == [op |-> "load", d |-> r, a |-> 1, imm |-> at, size |-> 4]

\* One of the epilogue's loads.
LEMMA SlotLoaded ==
  ASSUME RealMachine, NEW s \in Machines(Addresses), s.reg[1] = Stack - 32,
         NEW r \in {0, 14, 15}, NEW at \in {8, 12, 16}, Slot(r) = Stack - 32 + at, NEW D
  PROVE  Loaded(Addresses, s, Execute(s, Reloads(r, at), D), r, ValueAt(s.memory, Slot(r), 4))
<1> DEFINE i == Reloads(r, at)
           k == 4
           a == Slot(r)
           v == ValueAt(s.memory, a, k)
<1>1. i.op = "load" /\ i.d = r /\ i.a = 1 /\ i.imm = at /\ i.size = k
  BY DEF Reloads
<1>2. a \in Word /\ k \in {1, 2, 4} /\ r \in Registers /\ a % Full = a
  BY Slots, CutWord DEF Registers
<1>3. Address(s, i) = a
  <2>1. Base(s, 1) = Stack - 32
    BY DEF Base
  <2>2. SignedHalf(at) = at
    BY StackMoves
  <2> HIDE DEF i
  <2> QED BY <1>1, <1>2, <2>1, <2>2 DEF Address
<1> HIDE DEF i, k, a
<1>4. s.skip = 0
  BY DEF Machines
<1>5. Execute(s, i, D) = Set(s, r, v)
  <2>1. Execute(s, i, D) = Set(s, i.d, ValueAt(s.memory, Address(s, i), i.size))
    BY <1>1, <1>4, Executing
  <2> QED BY <1>1, <1>3, <2>1
<1>6. v \in Word
  BY <1>2, MemoryValues
<1> HIDE DEF v
<1>7. v % Full = v /\ v \in Int
  BY <1>6, CutWord
<1>8. Loaded(Addresses, s, Set(s, r, v), r, v % Full)
  BY <1>2, <1>7, Setting
<1>9. Loaded(Addresses, s, Execute(s, i, D), r, v)
  BY <1>5, <1>7, <1>8
<1> QED BY <1>9 DEF i, v, a, k

\* F has the epilogue behind its first n lines.
Closes(F, n) == \A k \in 1 .. 6 : F[n + k] = Epilogue[k]

\* The six lines of the epilogue give the caller its registers back, and return.
LEMMA EpilogueRuns ==
  ASSUME RealMachine, NEW u \in Machines(Addresses), u.reg[1] = Stack - 32, Kept(u.memory),
         NEW F, NEW D, NEW n \in Nat, NEW s0, Reaches(F, D, 0, s0, n, u),
         Closes(F, n)
  PROVE  \E t \in Machines(Addresses) :
           /\ Reaches(F, D, 0, s0, n + 6, t) /\ t.memory = u.memory
           /\ t.reg[1] = Stack /\ t.reg[14] = Half + 14 /\ t.reg[15] = Half + 15
<1> DEFINE i1 == Reloads(15, 16)
           i2 == Reloads(14, 12)
           i3 == Reloads(0, 8)
           i4 == [op |-> "mtlr", d |-> 0]
           i5 == Immediate("addi", 1, 1, 32)
           i6 == [op |-> "blr"]
           s1 == Execute(u, i1, D)
           s2 == Execute(s1, i2, D)
           s3 == Execute(s2, i3, D)
           s4 == Execute(s3, i4, D)
           s5 == Execute(s4, i5, D)
           s6 == Execute(s5, i6, D)
<1>1. /\ F[n + 1] = i1 /\ F[n + 2] = i2 /\ F[n + 3] = i3 /\ F[n + 4] = i4 /\ F[n + 5] = i5
      /\ F[n + 6] = i6
  <2>1. Epilogue = <<i1, i2, i3, i4, i5, i6>>
    BY DEF Epilogue, Reloads
  <2> HIDE DEF i1, i2, i3, i4, i5, i6
  <2>2. /\ Epilogue[1] = i1 /\ Epilogue[2] = i2 /\ Epilogue[3] = i3
        /\ Epilogue[4] = i4 /\ Epilogue[5] = i5 /\ Epilogue[6] = i6
    BY <2>1
  <2>3. /\ 1 \in 1 .. 6 /\ 2 \in 1 .. 6 /\ 3 \in 1 .. 6 /\ 4 \in 1 .. 6 /\ 5 \in 1 .. 6
        /\ 6 \in 1 .. 6
    OBVIOUS
  <2> QED BY <2>2, <2>3 DEF Closes
<1>2. /\ i4.op = "mtlr" /\ i4.d = 0 /\ i6.op = "blr"
      /\ i5 = Immediate("addi", 1, 1, 32)
  OBVIOUS
<1>3. /\ 0 \in Registers /\ 1 \in Registers /\ 14 \in Registers /\ 15 \in Registers
      /\ Lr \in Registers /\ Lr \notin {0, 1, 14, 15}
  BY DEF Registers, Lr
<1>4. s1 = Execute(u, i1, D) /\ s2 = Execute(s1, i2, D) /\ s3 = Execute(s2, i3, D)
      /\ s4 = Execute(s3, i4, D) /\ s5 = Execute(s4, i5, D) /\ s6 = Execute(s5, i6, D)
  OBVIOUS
<1> HIDE DEF i4, i5, i6, s1, s2, s3, s4, s5, s6
<1>5. /\ s1 \in Machines(Addresses) /\ s1.memory = u.memory /\ s1.reg[1] = Stack - 32
      /\ s1.reg[15] = Half + 15
  <2> DEFINE r == 15
             at == 16
  <2>1. r \in {0, 14, 15} /\ at \in {8, 12, 16} /\ Slot(r) = Stack - 32 + at
    BY Slots, MachineAssumption
  <2> HIDE DEF r, at
  <2>2. Loaded(Addresses, u, Execute(u, Reloads(r, at), D), r, ValueAt(u.memory, Slot(r), 4))
    BY <2>1, SlotLoaded
  <2> QED BY <1>3, <1>4, <2>2 DEF Loaded, Kept, r, at
<1>6. /\ s2 \in Machines(Addresses) /\ s2.memory = u.memory /\ s2.reg[1] = Stack - 32
      /\ s2.reg[15] = Half + 15 /\ s2.reg[14] = Half + 14
  <2> DEFINE r == 14
             at == 12
  <2>1. r \in {0, 14, 15} /\ at \in {8, 12, 16} /\ Slot(r) = Stack - 32 + at
    BY Slots, MachineAssumption
  <2> HIDE DEF r, at
  <2>2. Loaded(Addresses, s1, Execute(s1, Reloads(r, at), D), r, ValueAt(s1.memory, Slot(r), 4))
    BY <1>5, <2>1, SlotLoaded
  <2> QED BY <1>3, <1>4, <1>5, <2>2 DEF Loaded, Kept, r, at
<1>7. /\ s3 \in Machines(Addresses) /\ s3.memory = u.memory /\ s3.reg[1] = Stack - 32
      /\ s3.reg[15] = Half + 15 /\ s3.reg[14] = Half + 14 /\ s3.reg[0] = Half + Lr
  <2> DEFINE r == 0
             at == 8
  <2>1. r \in {0, 14, 15} /\ at \in {8, 12, 16} /\ Slot(r) = Stack - 32 + at
    BY Slots, MachineAssumption
  <2> HIDE DEF r, at
  <2>2. Loaded(Addresses, s2, Execute(s2, Reloads(r, at), D), r, ValueAt(s2.memory, Slot(r), 4))
    BY <1>6, <2>1, SlotLoaded
  <2> QED BY <1>3, <1>4, <1>6, <2>2 DEF Loaded, Kept, r, at
<1>8. /\ s4 \in Machines(Addresses) /\ s4.memory = u.memory /\ s4.reg[1] = Stack - 32
      /\ s4.reg[15] = Half + 15 /\ s4.reg[14] = Half + 14 /\ s4.reg[Lr] = Half + Lr
  <2> DEFINE v == s3.reg[0]
  <2>1. ~ s3.skip > 0
    BY <1>7 DEF Machines
  <2>2. Execute(s3, i4, D) = Set(s3, Lr, s3.reg[i4.d])
    BY <1>2, <2>1 DEF Execute
  <2>3. s4 = Set(s3, Lr, v)
    BY <1>2, <1>4, <2>2
  <2>4. v \in Word
    BY <1>3, <1>7 DEF Machines
  <2> HIDE DEF v
  <2>5. v % Full = v /\ v \in Int
    BY <2>4, CutWord
  <2>6. Loaded(Addresses, s3, Set(s3, Lr, v), Lr, v % Full)
    BY <1>3, <1>7, <2>5, Setting
  <2>7. Loaded(Addresses, s3, s4, Lr, v)
    BY <2>3, <2>5, <2>6
  <2> QED BY <1>3, <1>7, <2>7 DEF Loaded, v
<1>9. /\ s5 \in Machines(Addresses) /\ s5.memory = u.memory /\ s5.reg[1] = Stack
      /\ s5.reg[15] = Half + 15 /\ s5.reg[14] = Half + 14 /\ s5.reg[Lr] = Half + Lr
  <2> DEFINE z == 32
             b == 1
             v == (Base(s4, b) + SignedHalf(z % Half)) % Full
  <2>1. i5 = Immediate("addi", b, b, z)
    BY <1>2
  <2>2. v = Stack
    <3>1. Base(s4, 1) = Stack - 32
      BY <1>8 DEF Base
    <3> QED BY <3>1, StackMoves
  <2>3. b = 1
    OBVIOUS
  <2> HIDE DEF z, b
  <2>4. s5 = Set(s4, b, v)
    <3>1. Execute(s4, Immediate("addi", b, b, z), D) = Set(s4, b, v)
      BY <1>8, Immediates
    <3> QED BY <1>4, <2>1, <3>1
  <2> HIDE DEF v
  <2>5. v % Full = v /\ v \in Int
    BY <2>2, Slots, CutWord
  <2>6. Loaded(Addresses, s4, Set(s4, b, v), b, v % Full)
    BY <1>3, <1>8, <2>3, <2>5, Setting
  <2>7. Loaded(Addresses, s4, s5, 1, Stack)
    BY <2>2, <2>3, <2>4, <2>5, <2>6
  <2> QED BY <1>3, <1>8, <2>7 DEF Loaded
<1>10. s6 = s5
  <2> DEFINE fine == s5.reg[Lr] = Half + Lr
  <2>1. ~ s5.skip > 0
    BY <1>9 DEF Machines
  <2>2. fine = TRUE
    BY <1>9
  <2>3. Execute(s5, i6, D) = Checked(s5, fine)
    BY <1>2, <2>1 DEF Execute
  <2> HIDE DEF fine
  <2>4. Checked(s5, fine) = s5
    BY <1>9, <2>2, NothingWrong
  <2> QED BY <1>4, <2>3, <2>4
<1> HIDE DEF i1, i2, i3
<1>11. Reaches(F, D, 0, s0, n + 6, s6)
  <2>1. /\ n + 1 \in Nat /\ n + 2 = (n + 1) + 1 /\ n + 2 \in Nat /\ n + 3 = (n + 2) + 1
        /\ n + 3 \in Nat /\ n + 4 = (n + 3) + 1 /\ n + 4 \in Nat /\ n + 5 = (n + 4) + 1
        /\ n + 5 \in Nat /\ n + 6 = (n + 5) + 1
    OBVIOUS
  <2> DEFINE n1 == n + 1
             n2 == n + 2
             n3 == n + 3
             n4 == n + 4
             n5 == n + 5
             n6 == n + 6
  <2>2. /\ n1 \in Nat /\ n1 = n + 1 /\ n2 \in Nat /\ n2 = n1 + 1 /\ n3 \in Nat /\ n3 = n2 + 1
        /\ n4 \in Nat /\ n4 = n3 + 1 /\ n5 \in Nat /\ n5 = n4 + 1 /\ n6 = n5 + 1
        /\ F[n1] = i1 /\ F[n2] = i2 /\ F[n3] = i3 /\ F[n4] = i4 /\ F[n5] = i5 /\ F[n6] = i6
    BY <1>1, <2>1
  <2> HIDE DEF n1, n2, n3, n4, n5, n6
  <2>3. Reaches(F, D, 0, s0, n1, s1)
    BY <1>4, <2>2, NextLine
  <2>4. Reaches(F, D, 0, s0, n2, s2)
    BY <1>4, <2>2, <2>3, NextLine
  <2>5. Reaches(F, D, 0, s0, n3, s3)
    BY <1>4, <2>2, <2>4, NextLine
  <2>6. Reaches(F, D, 0, s0, n4, s4)
    BY <1>4, <2>2, <2>5, NextLine
  <2>7. Reaches(F, D, 0, s0, n5, s5)
    BY <1>4, <2>2, <2>6, NextLine
  <2>8. Reaches(F, D, 0, s0, n6, s6)
    BY <1>4, <2>2, <2>7, NextLine
  <2> QED BY <2>8 DEF n6
<1> QED BY <1>9, <1>10, <1>11

-----------------------------------------------------------------------------
(* What codes touch.                                                       *)

\* The addresses that a code reads or writes.
Touches(c) ==
  CASE c.op \in {"write", "if"} -> c.address .. c.address + 3
    [] c.op = "ifMasked" -> c.address .. c.address + 1
    [] c.op = "fill" -> c.address .. c.address + c.size * c.count - 1
    [] c.op = "copy" -> c.address .. c.address + Len(c.bytes) - 1
    [] c.op = "execute" -> c.routine.address .. c.routine.address + 3
    [] c.op = "serial" ->
         UNION {c.address + (i - 1) * c.step ..
                  c.address + (i - 1) * c.step + Width(c.bits) - 1 : i \in 1 .. c.count}
    [] OTHER -> {}

\* A code works on memory that there is, and not on the stack of the function that it
\* is compiled into.
Behaves(c) == Touches(c) \subseteq Word \ Frame

\* Bytes in a row that are words' addresses and not the frame's.
LEMMA Stretch ==
  ASSUME RealMachine, NEW a \in Word, NEW n \in Nat,
         \A x \in a .. a + n - 1 : x \in Word /\ x \notin Frame
  PROVE  a \in Int /\ n \in Word /\ a + n <= Full /\ Clear(a, n)
<1>1. a \in Int /\ a >= 0 /\ a <= Full - 1 /\ Full \in Nat \ {0}
  BY WidthsPositive DEF Word
<1>2. a + n <= Full
  <2>1. CASE n = 0
    BY <1>1, <2>1
  <2>2. CASE n > 0
    <3>1. a + n - 1 \in a .. a + n - 1
      BY <1>1, <2>2
    <3>2. a + n - 1 \in Word
      BY <3>1
    <3> QED BY <1>1, <3>2 DEF Word
  <2> QED BY <2>1, <2>2
<1>3. n < Full
  <2> SUFFICES ASSUME n >= Full PROVE FALSE
    BY <1>1
  <2>1. Stack - 1 \in Int /\ Stack - 1 \in Frame /\ 0 <= Stack - 1 /\ Stack - 1 <= Full - 1
    BY <1>1, MachineAssumption DEF RealMachine, Frame
  <2>2. a = 0 /\ Stack - 1 \in a .. a + n - 1
    BY <1>1, <1>2, <2>1
  <2> QED BY <2>1, <2>2
<1>4. n \in Word
  BY <1>1, <1>3 DEF Word
<1> QED BY <1>1, <1>2, <1>4 DEF Clear

\* A code that writes a single array of bytes.
Once(c) ==
  \E a \in Int, bytes \in Seq(Bytes) :
    Clear(a, Len(bytes)) /\ \A memory : Written(memory, c) = Poke(memory, a, bytes)

\* Every code that writes, but for 08, writes one array.
LEMMA WritesOnce ==
  ASSUME RealMachine, NEW c \in GeckoCode, c.op \in Writing \ {"serial"}, Behaves(c)
  PROVE  Once(c)
<1>1. CASE c.op = "write"
  <2> DEFINE n == 4
             a == c.address
             bytes == BytesOf(c.value, n)
  <2>1. a \in Word /\ c.value \in Int
    BY <1>1, OperandsTyped, CutWord
  <2>2. Touches(c) = a .. a + n - 1
    <3>1. a \in Int
      BY <2>1, CutWord
    <3>2. Touches(c) = c.address .. c.address + 3
      BY <1>1 DEF Touches
    <3> QED BY <3>1, <3>2
  <2>3. n \in Nat /\ n \in {1, 2, 4}
    OBVIOUS
  <2>4. \A memory : Written(memory, c) = Poke(memory, a, bytes)
    BY <1>1 DEF Written
  <2> HIDE DEF n, a
  <2>5. a \in Int /\ Clear(a, n)
    BY <2>1, <2>2, <2>3, Stretch DEF Behaves
  <2>6. bytes \in Seq(Bytes) /\ Len(bytes) = n
    BY <2>1, <2>3, BytesFit
  <2> HIDE DEF bytes
  <2> QED BY <2>4, <2>5, <2>6 DEF Once
<1>2. CASE c.op = "fill"
  <2> DEFINE n == c.size * c.count
             a == c.address
             v == c.value % Values(c.size)
             bytes == Repeated(v, c.size, c.count)
  <2>1. a \in Word /\ v \in Int /\ c.size \in {1, 2} /\ c.count \in Nat
    <3>1. a \in Word /\ c.value \in Word /\ c.size \in {1, 2} /\ c.count \in Nat
      BY <1>2, OperandsTyped
    <3>2. c.value \in Int
      BY <3>1, CutWord
    <3> QED BY <3>1, <3>2, Cuts
  <2>2. Touches(c) = a .. a + n - 1
    BY <1>2 DEF Touches
  <2>3. n \in Nat
    BY <2>1
  <2>4. \A memory : Written(memory, c) = Poke(memory, a, bytes)
    BY <1>2 DEF Written
  <2> HIDE DEF a, v
  <2>5. bytes \in Seq(Bytes)
    BY <2>1, RepeatedFits
  <2>6. Len(bytes) = n
    BY <2>3 DEF Repeated
  <2> HIDE DEF n
  <2>7. a \in Int /\ Clear(a, n)
    BY <2>1, <2>2, <2>3, Stretch DEF Behaves
  <2> HIDE DEF bytes
  <2> QED BY <2>4, <2>5, <2>6, <2>7 DEF Once
<1>3. CASE c.op = "copy"
  <2> DEFINE a == c.address
             bytes == c.bytes
             n == Len(bytes)
  <2>1. a \in Word /\ bytes \in Seq(Bytes)
    BY <1>3, OperandsTyped DEF Bytes
  <2>2. Touches(c) = a .. a + n - 1
    BY <1>3 DEF Touches
  <2>3. \A memory : Written(memory, c) = Poke(memory, a, bytes)
    BY <1>3 DEF Written
  <2> HIDE DEF a, bytes
  <2>4. n \in Nat
    BY <2>1, LenProperties
  <2> HIDE DEF n
  <2>5. a \in Int /\ Clear(a, n)
    BY <2>1, <2>2, <2>4, Stretch DEF Behaves
  <2> QED BY <2>1, <2>3, <2>5 DEF Once, n
<1>4. CASE c.op = "execute"
  <2> DEFINE n == 4
             a == c.routine.address
             bytes == BytesOf(c.routine.value, n)
  <2>1. a \in Word /\ c.routine.value \in Int
    <3>1. c.routine \in RoutineCode
      BY <1>4 DEF GeckoCode
    <3>2. a \in Word /\ c.routine.value \in Word
      BY <3>1 DEF RoutineCode
    <3> QED BY <3>2, CutWord
  <2>2. Touches(c) = a .. a + n - 1
    <3>1. a \in Int
      BY <2>1, CutWord
    <3>2. Touches(c) = c.routine.address .. c.routine.address + 3
      BY <1>4 DEF Touches
    <3> QED BY <3>1, <3>2
  <2>3. n \in Nat /\ n \in {1, 2, 4}
    OBVIOUS
  <2>4. \A memory : Written(memory, c) = Poke(memory, a, bytes)
    BY <1>4 DEF Written
  <2> HIDE DEF n, a
  <2>5. a \in Int /\ Clear(a, n)
    BY <2>1, <2>2, <2>3, Stretch DEF Behaves
  <2>6. bytes \in Seq(Bytes) /\ Len(bytes) = n
    BY <2>1, <2>3, BytesFit
  <2> HIDE DEF bytes
  <2> QED BY <2>4, <2>5, <2>6 DEF Once
<1> QED BY <1>1, <1>2, <1>3, <1>4 DEF Writing

\* The addresses of an 08 code.
LEMMA SerialSpans ==
  ASSUME RealMachine, NEW c \in GeckoCode, c.op = "serial", Behaves(c), NEW i \in 1 .. c.count
  PROVE  /\ c.address + (i - 1) * c.step \in Word /\ c.address + (i - 1) * c.step \in Int
         /\ Clear(c.address + (i - 1) * c.step, Width(c.bits))
<1> DEFINE at == c.address + (i - 1) * c.step
           n == Width(c.bits)
<1>1. n \in {1, 2, 4}
  BY DEF Width
<1>2. at \in Int
  <2>1. c.address \in Int /\ c.step \in Int
    BY OperandsTyped, CutWord
  <2> QED BY <2>1, SMT
<1>3. at .. at + n - 1 \subseteq Touches(c)
  <2>1. Touches(c) = UNION {c.address + (j - 1) * c.step ..
                              c.address + (j - 1) * c.step + Width(c.bits) - 1 : j \in 1 .. c.count}
    BY DEF Touches
  <2> QED BY <2>1
<1> HIDE DEF at, n
<1>4. at \in at .. at + n - 1
  BY <1>1, <1>2
<1>5. at \in Word /\ n \in Nat
  BY <1>1, <1>3, <1>4 DEF Behaves
<1>6. Clear(at, n)
  BY <1>3, <1>5, Stretch DEF Behaves
<1> QED BY <1>2, <1>5, <1>6 DEF at, n

\* g is the game's memory with the function's frame, in which the caller's registers are.
Alike(g, memory) ==
  /\ g \in [Addresses -> Bytes] /\ memory \in [Cells -> Bytes]
  /\ Same(g, memory) /\ Kept(g)

\* An array apart from the frame.
LEMMA PokesAlike ==
  ASSUME RealMachine, NEW g, NEW memory, Alike(g, memory), NEW a \in Int, NEW bytes \in Seq(Bytes),
         Clear(a, Len(bytes))
  PROVE  Alike(Poke(g, a, bytes), Poke(memory, a, bytes))
<1>1. /\ g \in [Addresses -> Bytes] /\ memory \in [Cells -> Bytes] /\ Same(g, memory) /\ Kept(g)
  BY DEF Alike
<1>2. Poke(g, a, bytes) \in [Addresses -> Bytes] /\ Poke(memory, a, bytes) \in [Cells -> Bytes]
  BY <1>1, PokeFits
<1>3. Same(Poke(g, a, bytes), Poke(memory, a, bytes))
  BY <1>1, PokedAlike
<1>4. Kept(Poke(g, a, bytes))
  BY <1>1, FrameKept
<1> QED BY <1>2, <1>3, <1>4 DEF Alike

\* One array after the other.
LEMMA SerialAlike ==
  ASSUME RealMachine, NEW c \in GeckoCode, c.op = "serial", Behaves(c), NEW g, NEW memory,
         Alike(g, memory)
  PROVE  Alike(Written(g, c), Written(memory, c))
<1> DEFINE n == c.count
           at(i) == c.address + (i - 1) * c.step
           bytes(i) == BytesOf((c.value + (i - 1) * c.increment) % Full, Width(c.bits))
<1>1. /\ c.address \in Int /\ c.value \in Int /\ n \in Nat /\ c.step \in Int
      /\ c.increment \in Int
  <2>1. c.address \in Word /\ c.value \in Word /\ n \in Nat /\ c.step \in Nat /\ c.increment \in Word
    BY OperandsTyped
  <2> QED BY <2>1, CutWord
<1>2. g \in [Addresses -> Bytes] /\ memory \in [Cells -> Bytes]
  BY DEF Alike
<1>3. PICK f : /\ f[0] = g /\ f[n] = Written(g, c)
               /\ \A i \in 1 .. n : f[i] = Poke(f[i - 1], at(i), bytes(i))
  BY <1>1, <1>2, SerialMeaning
<1>4. PICK h : /\ h[0] = memory /\ h[n] = Written(memory, c)
               /\ \A i \in 1 .. n : h[i] = Poke(h[i - 1], at(i), bytes(i))
  BY <1>1, <1>2, SerialMeaning
<1>5. \A i \in 1 .. n : /\ at(i) \in Int /\ bytes(i) \in Seq(Bytes)
                        /\ Clear(at(i), Len(bytes(i)))
  <2> TAKE i \in 1 .. n
  <2> DEFINE v == (c.value + (i - 1) * c.increment) % Full
             k == Width(c.bits)
  <2>1. v \in Int
    <3>1. c.value + (i - 1) * c.increment \in Int
      BY <1>1, SMT
    <3> QED BY <3>1, CutFits, CutWord
  <2>2. k \in {1, 2, 4}
    BY DEF Width
  <2>3. at(i) \in Int /\ Clear(at(i), k)
    BY SerialSpans
  <2> HIDE DEF v, k
  <2>4. BytesOf(v, k) \in Seq(Bytes) /\ Len(BytesOf(v, k)) = k
    BY <2>1, <2>2, BytesFit
  <2> QED BY <2>3, <2>4 DEF v, k
<1> HIDE DEF at, bytes
<1> DEFINE S == {i \in 0 .. n : Alike(f[i], h[i])}
           id == [i \in 0 .. n |-> i]
<1>6. id[0] \in S
  BY <1>1, <1>3, <1>4
<1>7. \A i \in 1 .. n : id[i - 1] \in S => id[i] \in S
  <2> TAKE i \in 1 .. n
  <2> SUFFICES ASSUME id[i - 1] \in S PROVE id[i] \in S
    OBVIOUS
  <2>1. i \in 0 .. n /\ i - 1 \in 0 .. n
    BY <1>1
  <2>2. Alike(f[i - 1], h[i - 1])
    BY <2>1
  <2>3. at(i) \in Int /\ bytes(i) \in Seq(Bytes) /\ Clear(at(i), Len(bytes(i)))
    BY <1>5
  <2>4. Alike(Poke(f[i - 1], at(i), bytes(i)), Poke(h[i - 1], at(i), bytes(i)))
    BY <2>2, <2>3, PokesAlike
  <2>5. f[i] = Poke(f[i - 1], at(i), bytes(i)) /\ h[i] = Poke(h[i - 1], at(i), bytes(i))
    BY <1>3, <1>4
  <2> QED BY <2>1, <2>4, <2>5
<1> HIDE DEF S, n
<1>8. \A i \in 0 .. n : id[i] \in S
  <2> HIDE DEF id
  <2> QED BY <1>1, <1>6, <1>7, HandedOn
<1>9. n \in 0 .. n /\ id[n] = n
  BY <1>1
<1>10. Alike(f[n], h[n])
  <2>1. n \in S
    BY <1>8, <1>9
  <2> QED BY <2>1 DEF S
<1> QED BY <1>3, <1>4, <1>10

\* What a code writes it writes to both.
LEMMA WrittenAlike ==
  ASSUME RealMachine, NEW c \in GeckoCode, c.op \in Writing, Behaves(c), NEW g, NEW memory,
         Alike(g, memory)
  PROVE  Alike(Written(g, c), Written(memory, c))
<1>1. CASE c.op = "serial"
  BY <1>1, SerialAlike
<1>2. CASE c.op # "serial"
  <2>1. Once(c)
    BY <1>2, WritesOnce
  <2>2. PICK a \in Int, bytes \in Seq(Bytes) :
          Clear(a, Len(bytes)) /\ \A mem : Written(mem, c) = Poke(mem, a, bytes)
    BY <2>1 DEF Once
  <2>3. Alike(Poke(g, a, bytes), Poke(memory, a, bytes))
    BY <2>2, PokesAlike
  <2>4. Written(g, c) = Poke(g, a, bytes) /\ Written(memory, c) = Poke(memory, a, bytes)
    BY <2>2
  <2> QED BY <2>3, <2>4
<1> QED BY <1>1, <1>2

\* What a code tests is the same in both.
LEMMA HoldsAlike ==
  ASSUME RealMachine, NEW c \in GeckoCode, c.op \in Conditional, Behaves(c), NEW g, NEW memory,
         Alike(g, memory)
  PROVE  Holds(g, c) <=> Holds(memory, c)
<1> DEFINE a == c.address
<1>1. ASSUME NEW n \in {1, 2, 4}, a \in Int, Touches(c) = a .. a + n - 1
      PROVE  ValueAt(g, a, n) = ValueAt(memory, a, n)
  <2> HIDE DEF a
  <2>1. \A x \in a .. a + n - 1 : x \notin Frame
    BY <1>1 DEF Behaves
  <2>2. DOMAIN g = Cells \cup Frame /\ DOMAIN memory = Cells /\ \A x \in Cells : g[x] = memory[x]
    BY DEF Alike, Addresses, Same
  <2>3. \A x \in a .. a + n - 1 : ByteAt(g, x) = ByteAt(memory, x)
    BY <2>1, <2>2 DEF ByteAt
  <2> QED BY <1>1, <2>3, SameReads
<1>2. CASE c.op = "if"
  <2> DEFINE n == 4
  <2>1. a \in Int
    BY <1>2, OperandsTyped, CutWord
  <2>2. Touches(c) = a .. a + n - 1
    BY <1>2, <2>1 DEF Touches
  <2>3. n \in {1, 2, 4}
    OBVIOUS
  <2>4. Holds(g, c) <=> ValueAt(g, a, n) = c.value
    BY <1>2 DEF Holds
  <2>5. Holds(memory, c) <=> ValueAt(memory, a, n) = c.value
    BY <1>2 DEF Holds
  <2> HIDE DEF a, n
  <2> QED BY <1>1, <2>1, <2>2, <2>3, <2>4, <2>5
<1>3. CASE c.op = "ifMasked"
  <2> DEFINE n == 2
             mask == Half - 1 - c.mask
  <2>1. a \in Int
    BY <1>3, OperandsTyped, CutWord
  <2>2. Touches(c) = a .. a + n - 1
    BY <1>3, <2>1 DEF Touches
  <2>3. n \in {1, 2, 4}
    OBVIOUS
  <2>4. Holds(g, c) <=> And(ValueAt(g, a, n), mask) = c.value
    BY <1>3 DEF Holds
  <2>5. Holds(memory, c) <=> And(ValueAt(memory, a, n), mask) = c.value
    BY <1>3 DEF Holds
  <2> HIDE DEF a, n, mask
  <2> QED BY <1>1, <2>1, <2>2, <2>3, <2>4, <2>5
<1> QED BY <1>2, <1>3 DEF Conditional

\* What is emitted for a code that writes does what the code asks for.
LEMMA FillDone ==
  ASSUME RealMachine, NEW c \in GeckoCode, c.op = "fill", Behaves(c),
         NEW s \in Machines(Addresses), NEW F, NEW D, NEW e \in Emission, Agrees(e, s), NEW l,
         l = CallWith(e, c.address, c.value % Values(c.size), c.count,
                      [op |-> "memset", size |-> c.size]), Within(F, e, l)
  PROVE  Leaves(F, D, Addresses, e, s, l, Written(s.memory, c))
<1> DEFINE a == c.address
           v == c.value
           size == c.size
           n == c.count
           A == Addresses
<1>1. a \in Word /\ v \in Word /\ size \in {1, 2} /\ n \in Nat
  BY OperandsTyped
<1>2. n \in Word
  <2> DEFINE all == size * n
  <2>1. Touches(c) = a .. a + all - 1
    BY DEF Touches
  <2>2. all \in Nat /\ n <= all
    BY <1>1
  <2> HIDE DEF a, all
  <2>3. all \in Word
    BY <1>1, <2>1, <2>2, Stretch DEF Behaves
  <2> QED BY <1>1, <2>2, <2>3, WidthsPositive DEF Word
<1>3. Written(s.memory, c) = Poke(s.memory, a, Repeated(v % Values(size), size, n))
  BY DEF Written
<1>4. l = CallWith(e, a, v % Values(size), n, [op |-> "memset", size |-> size])
  OBVIOUS
<1>5. s \in Machines(A) /\ RealBytes
  BY DEF RealMachine
<1> HIDE DEF a, v, size, n, A
<1>6. Leaves(F, D, A, e, s, l, Poke(s.memory, a, Repeated(v % Values(size), size, n)))
  BY <1>1, <1>2, <1>4, <1>5, FillRuns
<1> QED BY <1>3, <1>6 DEF A

\* 04.
LEMMA WriteDone ==
  ASSUME RealMachine, NEW c \in GeckoCode, c.op = "write",
         NEW s \in Machines(Addresses), NEW F, NEW D, NEW e \in Emission, Agrees(e, s), NEW l,
         l = Store(e, c.address, c.value, 4), Within(F, e, l)
  PROVE  Leaves(F, D, Addresses, e, s, l, Written(s.memory, c))
<1> DEFINE a == c.address
           v == c.value
           size == 4
           A == Addresses
<1>1. a \in Word /\ v \in Word /\ size \in {1, 2, 4}
  BY OperandsTyped
<1>2. Written(s.memory, c) = Poke(s.memory, a, BytesOf(v, size))
  BY DEF Written
<1>3. l = Store(e, a, v, size) /\ RealBytes /\ s \in Machines(A)
  BY DEF RealMachine
<1> HIDE DEF a, v, size, A
<1>4. Within(F, e, Store(e, a, v, size))
  BY <1>3
<1>5. PICK t : /\ Reaches(F, D, Len(e.text), s, Len(Store(e, a, v, size).text), t)
               /\ Wrote(A, s, t, a, BytesOf(v, size)) /\ Agrees(Store(e, a, v, size), t)
  BY <1>1, <1>3, <1>4, StoreRuns
<1> QED BY <1>2, <1>3, <1>5 DEF Wrote, Leaves, A

\* 08.
LEMMA SerialDone ==
  ASSUME RealMachine, NEW c \in GeckoCode, c.op = "serial", Behaves(c),
         NEW s \in Machines(Addresses), NEW F, NEW D, NEW e \in Emission, Agrees(e, s), NEW l,
         l = SerialWrite(e, c), Within(F, e, l)
  PROVE  Leaves(F, D, Addresses, e, s, l, Written(s.memory, c))
<1> DEFINE A == Addresses
<1>1. /\ c.address \in Word /\ c.value \in Word /\ c.count \in Nat /\ c.step \in Nat
      /\ c.increment \in Word
  BY OperandsTyped
<1>2. \A i \in 1 .. c.count : c.address + (i - 1) * c.step \in Word
  BY SerialSpans
<1>3. RealBytes /\ s \in Machines(A) /\ Within(F, e, SerialWrite(e, c))
  BY DEF RealMachine
<1> HIDE DEF A
<1>4. Leaves(F, D, A, e, s, SerialWrite(e, c), Written(s.memory, c))
  BY <1>1, <1>2, <1>3, SerialRuns
<1> QED BY <1>4 DEF A

\* 06 of a short array of whole words.
LEMMA ShortCopyDone ==
  ASSUME RealMachine, NEW c \in GeckoCode, c.op = "copy", Behaves(c), Len(c.bytes) % 4 = 0,
         NEW s \in Machines(Addresses), NEW F, NEW D, NEW e \in Emission, Agrees(e, s), NEW l,
         l = ArrayInline(e, c.address, c.bytes), Within(F, e, l)
  PROVE  Leaves(F, D, Addresses, e, s, l, Written(s.memory, c))
<1> DEFINE a == c.address
           bytes == c.bytes
           n == Len(bytes)
           A == Addresses
<1>1. a \in Word /\ bytes \in Seq(Bytes) /\ n % 4 = 0
  BY OperandsTyped DEF Bytes
<1>2. Touches(c) = a .. a + n - 1
  BY DEF Touches
<1>3. Written(s.memory, c) = Poke(s.memory, a, bytes)
  BY DEF Written
<1>4. l = ArrayInline(e, a, bytes) /\ RealBytes /\ s \in Machines(A) /\ Numbers(A)
  BY Slots DEF RealMachine
<1> HIDE DEF a, bytes, A
<1>5. n \in Nat
  BY <1>1, LenProperties
<1> HIDE DEF n
<1>6. a + n <= Full
  BY <1>1, <1>2, <1>5, Stretch DEF Behaves
<1>7. Within(F, e, ArrayInline(e, a, bytes))
  BY <1>4
<1>8. Leaves(F, D, A, e, s, ArrayInline(e, a, bytes), Poke(s.memory, a, bytes))
  BY <1>1, <1>4, <1>6, <1>7, ArrayRuns DEF n
<1> QED BY <1>3, <1>4, <1>8 DEF A

\* 06 of a long array.
LEMMA LongCopyDone ==
  ASSUME RealMachine, NEW c \in GeckoCode, c.op = "copy", Behaves(c), NEW src \in Word,
         NEW s \in Machines(Addresses), NEW F, NEW D, src \in DOMAIN D, D[src].bytes = c.bytes,
         NEW e \in Emission, Agrees(e, s), NEW l,
         l = CallWith(e, c.address, src, Len(c.bytes), [op |-> "memcpy"]), Within(F, e, l)
  PROVE  Leaves(F, D, Addresses, e, s, l, Written(s.memory, c))
<1> DEFINE a == c.address
           bytes == c.bytes
           n == Len(bytes)
           A == Addresses
<1>1. a \in Word /\ bytes \in Seq(Bytes)
  BY OperandsTyped DEF Bytes
<1>2. Touches(c) = a .. a + n - 1
  BY DEF Touches
<1>3. Written(s.memory, c) = Poke(s.memory, a, bytes)
  BY DEF Written
<1>4. /\ l = CallWith(e, a, src, n, [op |-> "memcpy"]) /\ RealBytes /\ s \in Machines(A)
      /\ D[src].bytes = bytes /\ n = Len(bytes)
  BY DEF RealMachine
<1> HIDE DEF a, bytes, A
<1>5. n \in Nat
  BY <1>1, LenProperties
<1> HIDE DEF n
<1>6. n \in Word
  BY <1>1, <1>2, <1>5, Stretch DEF Behaves
<1>7. Leaves(F, D, A, e, s, l, Poke(s.memory, a, bytes))
  BY <1>1, <1>4, <1>6, CopyRuns
<1> QED BY <1>3, <1>7 DEF A

\* C0.
LEMMA ExecuteDone ==
  ASSUME RealMachine, NEW c \in GeckoCode, c.op = "execute", NEW at \in Word, at % 4 = 0,
         NEW s \in Machines(Addresses), NEW F, NEW D, D[at] = Routine(c.routine),
         NEW e \in Emission, Agrees(e, s), NEW l,
         l = Emit(ImmediateLoad(e, 15, at), <<[op |-> "bl", target |-> at]>>), Within(F, e, l)
  PROVE  Leaves(F, D, Addresses, e, s, l, Written(s.memory, c))
<1> DEFINE a == c.routine.address
           v == c.routine.value
           A == Addresses
<1>1. a \in Word /\ v \in Word
  <2>1. c.routine \in RoutineCode
    BY DEF GeckoCode
  <2> QED BY <2>1 DEF RoutineCode
<1>2. Written(s.memory, c) = Poke(s.memory, a, BytesOf(v, 4))
  BY DEF Written
<1>3. D[at].address = a /\ D[at].value = v /\ RealBytes /\ s \in Machines(A)
  BY DEF RealMachine, Routine
<1> HIDE DEF a, v, A
<1>4. Leaves(F, D, A, e, s, l, Poke(s.memory, a, BytesOf(v, 4)))
  BY <1>1, <1>3, ExecuteRuns
<1> QED BY <1>2, <1>4 DEF A

-----------------------------------------------------------------------------
(* Skipping.                                                               *)

\* The machine u that skips k instructions before it goes on.
Skipping(u, k) == [u EXCEPT !.skip = k]

\* Of one instruction it skips, of one that it takes, and of a branch.
LEMMA SkipsOne ==
  ASSUME NEW A, NEW u \in Machines(A)
  PROVE  /\ Skipping(u, 0) = u
         /\ \A k \in Nat \ {0} : \A i, D : Execute(Skipping(u, k), i, D) = Skipping(u, k - 1)
<1>1. u.skip = 0 /\ DOMAIN u = {"memory", "reg", "equal", "skip", "ok"}
  BY DEF Machines
<1>2. Skipping(u, 0) = u
  <2> DEFINE none == 0
  <2>1. none = u.skip
    BY <1>1
  <2> HIDE DEF none
  <2>2. [u EXCEPT !.skip = none] = u
    BY <2>1 DEF Machines
  <2> QED BY <2>2 DEF Skipping, none
<1>3. ASSUME NEW k \in Nat \ {0}, NEW i, NEW D
      PROVE  Execute(Skipping(u, k), i, D) = Skipping(u, k - 1)
  <2> DEFINE s == Skipping(u, k)
  <2>1. s.skip = k
    BY <1>1 DEF Skipping
  <2>2. Execute(s, i, D) = [s EXCEPT !.skip = @ - 1]
    <3> HIDE DEF s
    <3>1. s.skip > 0
      BY <2>1
    <3> QED BY <3>1 DEF Execute
  <2>3. [s EXCEPT !.skip = @ - 1] = [u EXCEPT !.skip = k - 1]
    BY <2>1, <1>1 DEF Skipping, Machines
  <2> QED BY <2>2, <2>3 DEF Skipping
<1> QED BY <1>2, <1>3

\* Several instructions that are skipped.
LEMMA SkipsOn ==
  ASSUME NEW A, NEW u \in Machines(A), NEW F, NEW D, NEW i \in Nat, NEW j \in Nat, i <= j,
         NEW k \in Nat, j - i <= k
  PROVE  Reaches(F, D, i, Skipping(u, k), j, Skipping(u, k - (j - i)))
<1> DEFINE R == [n \in i .. j |-> Skipping(u, k - (n - i))]
<1>1. i \in i .. j /\ j \in i .. j /\ k - (i - i) = k
  OBVIOUS
<1>2. R[i] = Skipping(u, k) /\ R[j] = Skipping(u, k - (j - i))
  BY <1>1
<1>3. ASSUME NEW n \in i + 1 .. j
      PROVE  R[n] = Execute(R[n - 1], F[n], D)
  <2> DEFINE q == k - (n - 1 - i)
  <2>1. /\ n \in i .. j /\ n - 1 \in i .. j /\ q \in Nat \ {0} /\ k - (n - i) = q - 1
    OBVIOUS
  <2>2. R[n] = Skipping(u, q - 1) /\ R[n - 1] = Skipping(u, q)
    BY <2>1
  <2> HIDE DEF q, R
  <2> QED BY <2>1, <2>2, SkipsOne
<1> HIDE DEF R
<1> QED BY <1>2, <1>3 DEF Reaches

\* bne.
LEMMA Branching ==
  ASSUME NEW A, NEW u \in Machines(A), NEW i, NEW D, i.op = "bne", i.by \in Nat \ {0}
  PROVE  /\ u.equal => Execute(u, i, D) = u
         /\ ~ u.equal => Execute(u, i, D) = Skipping(u, i.by - 1)
<1>1. ~ u.skip > 0
  BY DEF Machines
<1>2. u.equal => Execute(u, i, D) = u
  BY <1>1 DEF Execute
<1>3. ASSUME ~ u.equal PROVE Execute(u, i, D) = Skipping(u, i.by - 1)
  <2> DEFINE fine == i.by > 0
  <2>1. Execute(u, i, D) = [Checked(u, fine) EXCEPT !.skip = i.by - 1]
    BY <1>1, <1>3 DEF Execute
  <2>2. fine = TRUE
    OBVIOUS
  <2> HIDE DEF fine
  <2>3. Checked(u, fine) = u
    BY <2>2, NothingWrong
  <2> QED BY <2>1, <2>3 DEF Skipping
<1> QED BY <1>2, <1>3

\* nop.
LEMMA Nothing ==
  ASSUME NEW A, NEW u \in Machines(A), NEW i, NEW D, i.op = "nop"
  PROVE  Execute(u, i, D) = u
<1>1. ~ u.skip > 0
  BY DEF Machines
<1> QED BY <1>1 DEF Execute

-----------------------------------------------------------------------------
(* Functions and lists, to their ends.                                     *)

\* Two sequences of the same beginning, of which each value is made of the one before.
LEMMA GoAlike ==
  ASSUME NEW n \in Nat, NEW f, NEW g, f[0] = g[0],
         \A i \in 1 .. n : f[i - 1] = g[i - 1] => f[i] = g[i]
  PROVE  f[n] = g[n]
<1> DEFINE S == {i \in 0 .. n : f[i] = g[i]}
           id == [i \in 0 .. n |-> i]
<1>1. id[0] \in S
  OBVIOUS
<1>2. \A i \in 1 .. n : id[i - 1] \in S => id[i] \in S
  <2> TAKE i \in 1 .. n
  <2>1. i \in 0 .. n /\ i - 1 \in 0 .. n
    OBVIOUS
  <2> QED BY <2>1
<1>3. n \in 0 .. n /\ id[n] = n
  OBVIOUS
<1>4. \A i \in 0 .. n : id[i] \in S
  <2> HIDE DEF S, id
  <2> QED BY <1>1, <1>2, HandedOn
<1> QED BY <1>3, <1>4

\* Where a function ends up whose lines have run.
LEMMA RunEnds ==
  ASSUME NEW F, Len(F) \in Nat, NEW D, NEW m, NEW t, Reaches(F, D, 0, Machine(m), Len(F), t)
  PROVE  Run(F, D, m) = t
<1> DEFINE N == Len(F)
           s == Machine(m)
           loop(f) == f = [n \in 0 .. N |-> IF n = 0 THEN s ELSE Execute(f[n - 1], F[n], D)]
           u == CHOOSE f : loop(f)
<1>1. Run(F, D, m) = u[N]
  BY DEF Run
<1>2. PICK R : R[0] = s /\ R[N] = t /\ \A n \in 1 .. N : R[n] = Execute(R[n - 1], F[n], D)
  BY DEF Reaches
<1>3. N \in Nat
  OBVIOUS
<1> HIDE DEF N, s
<1> DEFINE g == [n \in 0 .. N |-> R[n]]
<1>4. loop(g)
  <2>1. ASSUME NEW n \in 0 .. N
        PROVE  R[n] = IF n = 0 THEN s ELSE Execute(g[n - 1], F[n], D)
    <3>1. CASE n = 0
      BY <1>2, <3>1
    <3>2. CASE n # 0
      <4>1. n \in 1 .. N /\ n - 1 \in 0 .. N
        BY <1>3, <3>2
      <4>2. g[n - 1] = R[n - 1]
        BY <4>1
      <4> QED BY <1>2, <3>2, <4>1, <4>2
    <3> QED BY <3>1, <3>2
  <2> QED BY <2>1
<1>5. loop(u)
  BY <1>4
<1> HIDE DEF u
<1>6. u[0] = R[0]
  <2>1. 0 \in 0 .. N
    BY <1>3
  <2> QED BY <1>2, <1>5, <2>1
<1>7. \A n \in 1 .. N : u[n - 1] = R[n - 1] => u[n] = R[n]
  <2> TAKE n \in 1 .. N
  <2>1. n \in 0 .. N /\ n # 0
    BY <1>3
  <2>2. u[n] = Execute(u[n - 1], F[n], D)
    BY <1>5, <2>1
  <2> QED BY <1>2, <2>2
<1> HIDE DEF loop
<1>8. u[N] = R[N]
  BY <1>3, <1>6, <1>7, GoAlike
<1> QED BY <1>1, <1>2, <1>8

\* v is what the first j codes make of m.
Means(codes, m, j, v) ==
  \E V : /\ V[0] = [memory |-> m, skipped |-> 0] /\ V[j] = v
         /\ \A n \in 1 .. j : V[n] = Interpret(V[n - 1], codes[n])

\* No code.
LEMMA MeansNothing ==
  ASSUME NEW codes, NEW m
  PROVE  Means(codes, m, 0, [memory |-> m, skipped |-> 0])
<1> DEFINE v == [memory |-> m, skipped |-> 0]
           V == [n \in {0} |-> v]
<1>1. V[0] = v /\ \A n \in 1 .. 0 : V[n] = Interpret(V[n - 1], codes[n])
  OBVIOUS
<1> HIDE DEF V
<1> QED BY <1>1 DEF Means

\* One code more.
LEMMA MeansMore ==
  ASSUME NEW codes, NEW m, NEW j \in Nat, NEW v, Means(codes, m, j, v)
  PROVE  Means(codes, m, j + 1, Interpret(v, codes[j + 1]))
<1>1. PICK V : /\ V[0] = [memory |-> m, skipped |-> 0] /\ V[j] = v
               /\ \A n \in 1 .. j : V[n] = Interpret(V[n - 1], codes[n])
  BY DEF Means
<1> DEFINE w == Interpret(v, codes[j + 1])
           W == [n \in 0 .. j + 1 |-> IF n = j + 1 THEN w ELSE V[n]]
<1>2. W[0] = V[0] /\ W[j + 1] = w /\ W[j] = V[j]
  OBVIOUS
<1>3. ASSUME NEW n \in 1 .. j + 1
      PROVE  W[n] = Interpret(W[n - 1], codes[n])
  <2>1. CASE n = j + 1
    BY <1>1, <1>2, <2>1
  <2>2. CASE n # j + 1
    <3>1. n \in 1 .. j /\ n - 1 # j + 1 /\ n \in 0 .. j + 1 /\ n - 1 \in 0 .. j + 1
      BY <2>2
    <3>2. W[n] = V[n] /\ W[n - 1] = V[n - 1]
      BY <3>1
    <3> HIDE DEF W
    <3> QED BY <1>1, <3>1, <3>2
  <2> QED BY <2>1, <2>2
<1> HIDE DEF W
<1>4. Means(codes, m, j + 1, w)
  BY <1>1, <1>2, <1>3 DEF Means
<1> QED BY <1>4

\* All codes: what the list means.
LEMMA MeansAll ==
  ASSUME NEW codes, Len(codes) \in Nat, NEW m, NEW v, Means(codes, m, Len(codes), v)
  PROVE  Meaning(codes, m) = v.memory
<1> DEFINE N == Len(codes)
           s == [memory |-> m, skipped |-> 0]
           loop(f) == f = [n \in 0 .. N |-> IF n = 0 THEN s ELSE Interpret(f[n - 1], codes[n])]
           u == CHOOSE f : loop(f)
<1>1. Meaning(codes, m) = u[N].memory
  BY DEF Meaning
<1>2. PICK V : V[0] = s /\ V[N] = v /\ \A n \in 1 .. N : V[n] = Interpret(V[n - 1], codes[n])
  BY DEF Means
<1>3. N \in Nat
  OBVIOUS
<1> HIDE DEF N, s
<1> DEFINE g == [n \in 0 .. N |-> V[n]]
<1>4. loop(g)
  <2>1. ASSUME NEW n \in 0 .. N
        PROVE  V[n] = IF n = 0 THEN s ELSE Interpret(g[n - 1], codes[n])
    <3>1. CASE n = 0
      BY <1>2, <3>1
    <3>2. CASE n # 0
      <4>1. n \in 1 .. N /\ n - 1 \in 0 .. N
        BY <1>3, <3>2
      <4>2. g[n - 1] = V[n - 1]
        BY <4>1
      <4> QED BY <1>2, <3>2, <4>1, <4>2
    <3> QED BY <3>1, <3>2
  <2> QED BY <2>1
<1>5. loop(u)
  BY <1>4
<1> HIDE DEF u
<1>6. u[0] = V[0]
  <2>1. 0 \in 0 .. N
    BY <1>3
  <2> QED BY <1>2, <1>5, <2>1
<1>7. \A n \in 1 .. N : u[n - 1] = V[n - 1] => u[n] = V[n]
  <2> TAKE n \in 1 .. N
  <2>1. n \in 0 .. N /\ n # 0
    BY <1>3
  <2>2. u[n] = Interpret(u[n - 1], codes[n])
    BY <1>5, <2>1
  <2> QED BY <1>2, <2>2
<1> HIDE DEF loop
<1>8. u[N] = V[N]
  BY <1>3, <1>6, <1>7, GoAlike
<1> QED BY <1>1, <1>2, <1>8

\* d blocks are open after the first j codes.
Change(c) == IF c.op \in Conditional THEN 1 ELSE IF c.op = "endif" THEN -1 ELSE 0
Deep(codes, j, d) ==
  \E U : U[0] = 0 /\ U[j] = d /\ \A n \in 1 .. j : U[n] = U[n - 1] + Change(codes[n])

\* One code more.
LEMMA DeepMore ==
  ASSUME NEW codes, NEW j \in Nat, NEW d, Deep(codes, j, d)
  PROVE  Deep(codes, j + 1, d + Change(codes[j + 1]))
<1>1. PICK V : V[0] = 0 /\ V[j] = d /\ \A n \in 1 .. j : V[n] = V[n - 1] + Change(codes[n])
  BY DEF Deep
<1> DEFINE w == d + Change(codes[j + 1])
           W == [n \in 0 .. j + 1 |-> IF n = j + 1 THEN w ELSE V[n]]
<1>2. W[0] = V[0] /\ W[j + 1] = w /\ W[j] = V[j]
  OBVIOUS
<1>3. ASSUME NEW n \in 1 .. j + 1
      PROVE  W[n] = W[n - 1] + Change(codes[n])
  <2>1. CASE n = j + 1
    BY <1>1, <1>2, <2>1
  <2>2. CASE n # j + 1
    <3>1. n \in 1 .. j /\ n - 1 # j + 1 /\ n \in 0 .. j + 1 /\ n - 1 \in 0 .. j + 1
      BY <2>2
    <3>2. W[n] = V[n] /\ W[n - 1] = V[n - 1]
      BY <3>1
    <3> HIDE DEF W
    <3> QED BY <1>1, <3>1, <3>2
  <2> QED BY <2>1, <2>2
<1> HIDE DEF W
<1>4. Deep(codes, j + 1, w)
  BY <1>1, <1>2, <1>3 DEF Deep
<1> QED BY <1>4

\* All codes: how many blocks are open at last.
LEMMA DeepAll ==
  ASSUME NEW codes, NEW N \in Nat, NEW d, Deep(codes, N, d)
  PROVE  Depth(codes, N) = d
<1> DEFINE loop(f) == f = [n \in 0 .. N |-> IF n = 0 THEN 0 ELSE f[n - 1] + Change(codes[n])]
           u == CHOOSE f : loop(f)
<1>1. Depth(codes, N) = u[N]
  BY DEF Depth, Change
<1>2. PICK V : V[0] = 0 /\ V[N] = d /\ \A n \in 1 .. N : V[n] = V[n - 1] + Change(codes[n])
  BY DEF Deep
<1> DEFINE g == [n \in 0 .. N |-> V[n]]
<1>3. loop(g)
  <2>1. ASSUME NEW n \in 0 .. N
        PROVE  V[n] = IF n = 0 THEN 0 ELSE g[n - 1] + Change(codes[n])
    <3>1. CASE n = 0
      BY <1>2, <3>1
    <3>2. CASE n # 0
      <4>1. n \in 1 .. N /\ n - 1 \in 0 .. N
        BY <3>2
      <4>2. g[n - 1] = V[n - 1]
        BY <4>1
      <4> QED BY <1>2, <3>2, <4>1, <4>2
    <3> QED BY <3>1, <3>2
  <2> QED BY <2>1
<1>4. loop(u)
  BY <1>3
<1> HIDE DEF u
<1>5. u[0] = V[0]
  <2>1. 0 \in 0 .. N
    OBVIOUS
  <2> QED BY <1>2, <1>4, <2>1
<1>6. \A n \in 1 .. N : u[n - 1] = V[n - 1] => u[n] = V[n]
  <2> TAKE n \in 1 .. N
  <2>1. n \in 0 .. N /\ n # 0
    OBVIOUS
  <2>2. u[n] = u[n - 1] + Change(codes[n])
    BY <1>4, <2>1
  <2> QED BY <1>2, <2>2
<1> HIDE DEF loop
<1>7. u[N] = V[N]
  BY <1>5, <1>6, GoAlike
<1> QED BY <1>1, <1>2, <1>7

-----------------------------------------------------------------------------
(* The machine follows the list.                                           *)

\* Every code of every list works on memory of its own.
CodesBehave == \A codes \in Lists : \A n \in DOMAIN codes : Behaves(codes[n])

\* The last instruction that a branch at p skips.
Target(F, p) == p + F[p].by - 1

\* F is what the function may become: the branches of the blocks that are open lead to
\* somewhere behind what there is.
Completes(F) ==
  /\ \A n \in DOMAIN text : text[n] # Garbage => F[n] = text[n]
  /\ \A x \in DOMAIN open :
       F[open[x]].op = "bne" /\ F[open[x]].by \in Int /\ Len(text) <= Target(F, open[x])

\* D is what the blocks may become.
Keeps(D, blocks) == \A a \in DOMAIN blocks : a \in DOMAIN D /\ D[a] = blocks[a]

\* What CompiledMeansList assumes of a list.
Sound ==
  /\ Apart /\ Len(text) <= BranchReach
  /\ WholeArrays /\ AlignedArrays /\ Comparable

\* Where the machine and the list are after the same codes: while the list skips blocks,
\* the machine skips up to where the branch of the outermost of these leads.
States == [memory : [Cells -> Bytes], skipped : Nat]
Level(F, u, k, v) ==
  /\ v \in States /\ u \in Machines(Addresses) /\ k \in Nat
  /\ u.reg[1] = Stack - 32 /\ Alike(u.memory, v.memory)
  /\ v.skipped = 0 => k = 0 /\ Agrees(Here, u)
  /\ v.skipped > 0 =>
       /\ v.skipped <= Len(open)
       /\ k = Target(F, open[Len(open) - v.skipped + 1]) - Len(text)
Follows(F, D, m) ==
  \E u, k, v : /\ Level(F, u, k, v) /\ Means(list, m, pos, v)
               /\ Reaches(F, D, 0, Machine(m), Len(text), Skipping(u, k))

\* The lengths, and what they are the lengths of.
LEMMA Lengths ==
  ASSUME TextInv
  PROVE  /\ Here.text = text /\ Here.known = known /\ Here \in Emission /\ text \in Seq(Line)
         /\ Len(text) \in Nat /\ DOMAIN text = 1 .. Len(text)
         /\ Len(open) \in Nat /\ DOMAIN open = 1 .. Len(open)
         /\ \A x \in DOMAIN open : open[x] \in 1 .. Len(text)
         /\ list \in Lists /\ list \in Seq(GeckoCode) /\ Len(list) \in Nat
         /\ DOMAIN list = 1 .. Len(list)
<1>1. Here.text = text /\ Here.known = known /\ Here \in Emission
  BY DEF TextInv, Here
<1>2. text \in Seq(Line)
  BY <1>1 DEF Emission
<1>3. list \in Lists /\ list \in Seq(GeckoCode) /\ open \in Seq(DOMAIN text)
  BY CompilerAssumption DEF TextInv
<1>4. Len(text) \in Nat /\ DOMAIN text = 1 .. Len(text)
  BY <1>2, LenProperties
<1>5. Len(list) \in Nat /\ DOMAIN list = 1 .. Len(list)
  BY <1>3, LenProperties
<1>6. Len(open) \in Nat /\ DOMAIN open = 1 .. Len(open)
      /\ \A x \in DOMAIN open : open[x] \in 1 .. Len(text)
  BY <1>3, <1>4, LenProperties
<1> QED BY <1>1, <1>2, <1>3, <1>4, <1>5, <1>6

\* What completes more completes what there was.
LEMMA CompletesBefore ==
  ASSUME TextInv, NEW l \in Extensions(Here), text' = l.text, UNCHANGED open, NEW F,
         Completes(F)'
  PROVE  /\ Completes(F) /\ Within(F, Here, l)
         /\ Len(text') \in Nat /\ Len(text) <= Len(text')
         /\ \A x \in DOMAIN open : Len(text') <= Target(F, open[x])
<1>1. PICK more \in Seq(Instruction) : text' = text \o more
  BY Lengths DEF Extensions
<1>2. text \in Seq(Line) /\ more \in Seq(Line)
  BY Lengths, Instructions
<1>3. /\ Len(text) \in Nat /\ DOMAIN text = 1 .. Len(text)
      /\ Len(more) \in Nat /\ \A i \in 1 .. Len(more) : more[i] \in Instruction
      /\ Len(text') = Len(text) + Len(more)
      /\ DOMAIN text' = 1 .. Len(text) + Len(more)
      /\ \A i \in 1 .. Len(text) + Len(more) :
           text'[i] = IF i <= Len(text) THEN text[i] ELSE more[i - Len(text)]
  BY <1>1, <1>2, LenProperties, ConcatProperties
<1>4. /\ \A n \in DOMAIN text' : text'[n] # Garbage => F[n] = text'[n]
      /\ \A x \in DOMAIN open :
           F[open[x]].op = "bne" /\ F[open[x]].by \in Int /\ Len(text') <= Target(F, open[x])
  BY DEF Completes
<1>5. \A n \in DOMAIN text : text[n] # Garbage => F[n] = text[n]
  BY <1>3, <1>4
<1>6. ASSUME NEW x \in DOMAIN open PROVE Len(text) <= Target(F, open[x])
  <2>1. open[x] \in Int /\ F[open[x]].by \in Int /\ Len(text') <= Target(F, open[x])
    BY <1>4, Lengths
  <2>2. Target(F, open[x]) \in Int
    BY <2>1 DEF Target
  <2> QED BY <1>3, <2>1, <2>2
<1>7. ASSUME NEW n \in Len(text) + 1 .. Len(text') PROVE F[n] = text'[n]
  <2>1. n \in DOMAIN text' /\ n - Len(text) \in 1 .. Len(more) /\ ~ n <= Len(text)
        /\ n \in 1 .. Len(text) + Len(more)
    BY <1>3
  <2>2. text'[n] \in Instruction
    BY <1>3, <2>1
  <2> QED BY <1>4, <2>1, <2>2, Instructions
<1>8. Within(F, Here, l)
  BY <1>7, Lengths DEF Within
<1> QED BY <1>3, <1>4, <1>5, <1>6, <1>8 DEF Completes

\* What holds of a longer function held of it before.
LEMMA SoundBefore ==
  ASSUME Len(text) \in Nat, Len(text') \in Nat, Len(text) <= Len(text'), tail \in Nat,
         tail' \in Nat, tail <= tail', UNCHANGED <<list, dirty>>, Sound'
  PROVE  Sound
<1>1. MemorySize \in Nat /\ BranchReach \in Nat
  BY CompilerAssumption
<1>2. Apart
  <2>1. 4 * Len(text') + tail' <= MemorySize
    BY DEF Sound, Apart
  <2> QED BY <1>1, <2>1 DEF Apart
<1>3. Len(text) <= BranchReach
  <2>1. Len(text') <= BranchReach
    BY DEF Sound
  <2> QED BY <1>1, <2>1
<1>4. WholeArrays /\ AlignedArrays /\ Comparable
  BY DEF Sound, WholeArrays, AlignedArrays, Comparable
<1> QED BY <1>2, <1>3, <1>4 DEF Sound

\* Skipped, the machine goes on skipping.
LEMMA SkippedOn ==
  ASSUME NEW F, NEW D, NEW m, NEW u \in Machines(Addresses), NEW i \in Nat, NEW j \in Nat, i <= j,
         NEW k \in Nat, NEW g \in Nat, g = k - (j - i),
         Reaches(F, D, 0, Machine(m), i, Skipping(u, k))
  PROVE  Reaches(F, D, 0, Machine(m), j, Skipping(u, g))
<1>1. j - i <= k /\ 0 \in Int /\ i \in Int /\ j \in Int /\ 0 <= i
  OBVIOUS
<1>2. Reaches(F, D, i, Skipping(u, k), j, Skipping(u, k - (j - i)))
  BY <1>1, SkipsOn
<1>3. Reaches(F, D, i, Skipping(u, k), j, Skipping(u, g))
  BY <1>2
<1> QED BY <1>1, <1>3, Onward

\* What was emitted up to l does what the code asks for.
Does(F, D, l) ==
  \A s \in Machines(Addresses) :
    Agrees(Here, s) => Leaves(F, D, Addresses, Here, s, l, Written(s.memory, Code))

\* A code that writes.
LEMMA WritesOrSkips ==
  ASSUME NEW v \in States, NEW c, c.op \in Writing
  PROVE  /\ v.skipped = 0 => /\ Interpret(v, c).memory = Written(v.memory, c)
                             /\ Interpret(v, c).skipped = 0
                             /\ Written(v.memory, c) \in [Cells -> Bytes] => Interpret(v, c) \in States
         /\ v.skipped > 0 => Interpret(v, c) = v
<1>1. c.op # "endif" /\ c.op \notin Conditional
  BY DEF Writing, Conditional
<1>2. Interpret(v, c) = IF v.skipped = 0 THEN [v EXCEPT !.memory = Written(@, c)] ELSE v
  BY <1>1 DEF Interpret
<1>3. v.skipped \in Nat
  BY DEF States
<1> QED BY <1>2, <1>3 DEF States

\* A code that writes: the machine does what the list does, or skips it as the list does.
LEMMA WritingOn ==
  ASSUME RealMachine, CodesBehave, TextInv, NEW ops, Compiling(ops), Code.op \in Writing,
         NEW l \in Extensions(Here), text' = l.text, known' = l.known, UNCHANGED <<list, open>>,
         NEW m, NEW F, NEW D, Completes(F)', Does(F, D, l), Follows(F, D, m)
  PROVE  Follows(F, D, m)'
<1> DEFINE n == Len(text)
           n1 == Len(text')
           c == Code
<1>1. PICK u, k, v : /\ Level(F, u, k, v) /\ Means(list, m, pos, v)
                     /\ Reaches(F, D, 0, Machine(m), Len(text), Skipping(u, k))
  BY DEF Follows
<1>2. /\ v \in States /\ u \in Machines(Addresses) /\ k \in Nat
      /\ u.reg[1] = Stack - 32 /\ Alike(u.memory, v.memory) /\ v.skipped \in Nat
  BY <1>1 DEF Level, States
<1>3. /\ c \in GeckoCode /\ pos \in Nat /\ pos' = pos + 1 /\ Behaves(c) /\ c = list[pos + 1]
      /\ list' = list /\ open' = open
  <2>1. c \in GeckoCode /\ pos + 1 \in DOMAIN list /\ pos' = pos + 1
    BY CodeTyped DEF TextInv, Compiling
  <2> QED BY <2>1, Lengths DEF TextInv, CodesBehave, Code
<1>4. PICK w : w = Interpret(v, c) /\ Means(list', m, pos', w)
  <2>1. Means(list', m, pos', Interpret(v, c))
    BY <1>1, <1>3, MeansMore
  <2> QED BY <2>1
<1>5. /\ n \in Nat /\ n1 \in Nat /\ n <= n1 /\ Within(F, Here, l)
      /\ \A x \in DOMAIN open : n1 <= Target(F, open[x])
      /\ n1 = Len(l.text) /\ n = Len(Here.text)
  BY CompletesBefore, Lengths
<1>6. Here' = [text |-> l.text, known |-> l.known]
  BY DEF Here
<1> HIDE DEF n, n1, c
<1>7. CASE v.skipped = 0
  <2>1. k = 0 /\ Agrees(Here, u) /\ Skipping(u, k) = u
    BY <1>1, <1>2, <1>7, SkipsOne DEF Level
  <2>2. Leaves(F, D, Addresses, Here, u, l, Written(u.memory, c))
    BY <1>2, <2>1 DEF Does, c
  <2>3. PICK t : /\ Reaches(F, D, n, u, n1, t) /\ t \in Machines(Addresses)
                 /\ t.memory = Written(u.memory, c) /\ t.reg[1] = u.reg[1] /\ Agrees(l, t)
    BY <1>5, <2>2 DEF Leaves
  <2>4. Reaches(F, D, 0, Machine(m), n, u)
    BY <1>1, <2>1 DEF n
  <2>5. Reaches(F, D, 0, Machine(m), n1, Skipping(t, 0))
    <3>1. 0 \in Int /\ n \in Int /\ n1 \in Int /\ 0 <= n
      BY <1>5
    <3>2. Reaches(F, D, 0, Machine(m), n1, t)
      BY <1>5, <2>3, <2>4, <3>1, Onward
    <3> QED BY <2>3, <3>2, SkipsOne
  <2>6. Alike(Written(u.memory, c), Written(v.memory, c))
    BY <1>2, <1>3, WrittenAlike DEF c
  <2>7. w.memory = Written(v.memory, c) /\ w.skipped = 0 /\ w \in States
    <3>1. Written(v.memory, c) \in [Cells -> Bytes]
      BY <2>6 DEF Alike
    <3> QED BY <1>2, <1>4, <1>7, <3>1, WritesOrSkips DEF c
  <2>8. Agrees(Here', t)
    BY <1>6, <2>3 DEF Agrees
  <2>9. Level(F, t, 0, w)'
    BY <1>2, <2>3, <2>6, <2>7, <2>8 DEF Level
  <2> QED BY <1>4, <2>5, <2>9 DEF Follows, n1
<1>8. CASE v.skipped > 0
  <2> DEFINE x == Len(open) - v.skipped + 1
  <2>1. v.skipped <= Len(open) /\ k = Target(F, open[x]) - n
    BY <1>1, <1>8 DEF Level, n
  <2>2. x \in DOMAIN open
    BY <1>2, <1>8, <2>1, Lengths
  <2> DEFINE y == Target(F, open[x])
  <2>3. n1 <= y /\ y \in Int
    <3>1. open[x] \in Int /\ F[open[x]].by \in Int
      BY <2>2, CompletesBefore, Lengths DEF Completes
    <3> QED BY <1>5, <2>2, <3>1 DEF Target
  <2> HIDE DEF y
  <2>4. PICK g \in Nat : g = y - n1 /\ g = k - (n1 - n)
    <3>1. k = y - n
      BY <2>1 DEF y
    <3>2. y - n1 \in Nat /\ y - n1 = k - (n1 - n)
      BY <1>5, <2>3, <3>1
    <3> QED BY <3>2
  <2>5. Reaches(F, D, 0, Machine(m), n1, Skipping(u, g))
    BY <1>1, <1>2, <1>5, <2>4, SkippedOn DEF n
  <2>6. w = v
    BY <1>2, <1>4, <1>8, WritesOrSkips DEF c
  <2>7. Level(F, u, g, v)'
    <3>1. open' = open /\ Len(text') = n1 /\ ~ v.skipped = 0
      BY <1>2, <1>3, <1>8 DEF n1
    <3>2. g = Target(F, open'[Len(open') - v.skipped + 1]) - Len(text')
      BY <2>4, <3>1 DEF x, y
    <3> QED BY <1>2, <2>1, <2>4, <3>1, <3>2 DEF Level
  <2> QED BY <1>4, <2>5, <2>6, <2>7 DEF Follows, n1
<1>9. v.skipped = 0 \/ v.skipped > 0
  BY <1>2
<1> QED BY <1>7, <1>8, <1>9

\* A code that patches the game does nothing when the list is run.
LEMMA PatchingOn ==
  ASSUME TextInv, NEW ops, Compiling(ops), Code.op \in Patching,
         UNCHANGED <<list, text, known, open>>, NEW m, NEW F, NEW D, Follows(F, D, m)
  PROVE  Follows(F, D, m)'
<1>1. PICK u, k, v : /\ Level(F, u, k, v) /\ Means(list, m, pos, v)
                     /\ Reaches(F, D, 0, Machine(m), Len(text), Skipping(u, k))
  BY DEF Follows
<1>2. pos \in Nat /\ pos' = pos + 1 /\ Code = list[pos + 1]
  BY DEF TextInv, Compiling, Code
<1>3. Interpret(v, Code) = v
  BY DEF Interpret, Patching, Writing, Conditional
<1>4. Means(list', m, pos', v)
  <2>1. Means(list, m, pos + 1, Interpret(v, list[pos + 1]))
    BY <1>1, <1>2, MeansMore
  <2> QED BY <1>2, <1>3, <2>1
<1>5. Level(F, u, k, v)' /\ Len(text') = Len(text)
  BY <1>1 DEF Level, Agrees, Here
<1> QED BY <1>1, <1>4, <1>5 DEF Follows

\* 20 and 28 of a list that skips, and of one that does not.
LEMMA OpensOrSkips ==
  ASSUME NEW v \in States, NEW c, c.op \in Conditional
  PROVE  /\ v.skipped = 0 /\ Holds(v.memory, c) => Interpret(v, c) = v
         /\ v.skipped = 0 /\ ~ Holds(v.memory, c) =>
              /\ Interpret(v, c).memory = v.memory /\ Interpret(v, c).skipped = 1
              /\ Interpret(v, c) \in States
         /\ v.skipped > 0 =>
              /\ Interpret(v, c).memory = v.memory
              /\ Interpret(v, c).skipped = v.skipped + 1 /\ Interpret(v, c) \in States
<1>1. c.op # "endif" /\ c.op \notin Writing /\ v.skipped \in Nat
  BY DEF Conditional, States, Writing
<1>2. Interpret(v, c) = IF v.skipped > 0 THEN [v EXCEPT !.skipped = @ + 1]
                        ELSE IF Holds(v.memory, c) THEN v ELSE [v EXCEPT !.skipped = 1]
  BY <1>1 DEF Interpret
<1>3. ASSUME NEW j \in Nat
      PROVE  /\ [v EXCEPT !.skipped = j].memory = v.memory
             /\ [v EXCEPT !.skipped = j].skipped = j /\ [v EXCEPT !.skipped = j] \in States
  BY DEF States
<1>4. v.skipped + 1 \in Nat /\ 1 \in Nat
  BY <1>1
<1> QED BY <1>1, <1>2, <1>3, <1>4

\* What 20 and 28 emit, by its parts.
LEMMA OpeningLines ==
  ASSUME TextInv, Handle2028
  PROVE  /\ Compiling(Conditional) /\ UNCHANGED list
         /\ Test(Here, Code) \in Extensions(Here)
         /\ Len(Test(Here, Code).text) \in Nat /\ Len(text) <= Len(Test(Here, Code).text)
         /\ text' = Append(Test(Here, Code).text, Garbage) /\ known' = Test(Here, Code).known
         /\ Len(text') = Len(Test(Here, Code).text) + 1
         /\ open' = Append(open, Len(text')) /\ Len(open') = Len(open) + 1
         /\ open'[Len(open) + 1] = Len(text') /\ \A x \in DOMAIN open : open'[x] = open[x]
         /\ \A n \in 1 .. Len(Test(Here, Code).text) : text'[n] = Test(Here, Code).text[n]
<1> DEFINE test == Test(Here, Code)
<1>1. /\ Compiling(Conditional) /\ Proceed(Emit(test, <<Garbage>>), tail)
      /\ open' = Append(open, Len(test.text) + 1) /\ UNCHANGED list
  BY DEF Handle2028, Test
<1>2. Here \in Emission
  BY Lengths
<1>3. test \in Extensions(Here)
  <2>1. Code \in GeckoCode /\ Code.op \in {"if", "ifMasked"}
    BY <1>1, CodeTyped DEF TextInv, Conditional
  <2>2. 14 \in Register /\ 15 \in Register
    BY DEF Register
  <2>3. Field \subseteq Word
    <3>1. ASSUME NEW h \in Nat \ {0} PROVE h <= h * h
      BY SMT
    <3> QED BY <3>1, WidthsPositive DEF Field, Word, Full
  <2>4. Code.address \in Int /\ Code.value \in Word
    BY <2>1, <2>3, OperandsTyped, CutWord
  <2>5. MemoryLoad(Here, 14, Code.address, 4) \in Extensions(Here)
    BY <1>2, <2>2, <2>4, ExtendsItself, MemoryLoading
  <2>6. CASE Code.op = "if"
    <3>1. test = Compare(MemoryLoad(Here, 14, Code.address, 4), 14, Code.value)
      BY <2>6 DEF Test
    <3> HIDE DEF test
    <3> QED BY <1>2, <2>2, <2>4, <2>5, <3>1, Comparing
  <2>7. CASE Code.op = "ifMasked"
    <3> DEFINE mask == Half - 1 - Code.mask
               half == Mask(MemoryLoad(Here, 14, Code.address, 2), 14, 15, mask)
    <3>1. test = Compare(half, 14, Code.value)
      BY <2>7 DEF Test
    <3>2. mask \in Word
      <4>1. Code.mask \in Field
        BY <2>1, <2>7, OperandsTyped
      <4>2. mask \in Field
        BY <4>1, WidthsPositive DEF Field
      <4> QED BY <2>3, <4>2
    <3>3. MemoryLoad(Here, 14, Code.address, 2) \in Extensions(Here)
      BY <1>2, <2>2, <2>4, ExtendsItself, MemoryLoading
    <3> HIDE DEF test, mask
    <3>4. half \in Extensions(Here)
      BY <1>2, <2>2, <3>2, <3>3, Masking
    <3> HIDE DEF half
    <3> QED BY <1>2, <2>2, <2>4, <3>1, <3>4, Comparing
  <2> QED BY <2>1, <2>6, <2>7
<1> HIDE DEF test
<1>4. /\ test \in Emission /\ test.text \in Seq(Line)
      /\ \E more \in Seq(Instruction) : test.text = text \o more
  <2>1. test \in Emission
    BY <1>3 DEF Extensions
  <2> QED BY <1>3, <2>1, Lengths DEF Extensions, Emission
<1>5. Len(test.text) \in Nat /\ Len(text) <= Len(test.text)
  <2>1. PICK more \in Seq(Instruction) : test.text = text \o more
    BY <1>4
  <2>2. more \in Seq(Line) /\ text \in Seq(Line)
    BY Lengths, Instructions
  <2>3. Len(text) \in Nat /\ Len(more) \in Nat
    BY <2>2, LenProperties
  <2>4. Len(text \o more) = Len(text) + Len(more)
    BY <2>2, ConcatProperties
  <2> QED BY <2>1, <2>3, <2>4
<1>6. text' = Append(test.text, Garbage) /\ known' = test.known
  <2>1. Garbage \in Line
    BY DEF Line
  <2>2. Emit(test, <<Garbage>>).text = test.text \o <<Garbage>>
        /\ Emit(test, <<Garbage>>).known = test.known
    BY <1>4 DEF Emit, Emission
  <2>3. text' = test.text \o <<Garbage>> /\ known' = test.known
    BY <1>1, <2>2 DEF Proceed
  <2> QED BY <1>4, <2>1, <2>3, AppendIsConcat
<1>7. Len(text') = Len(test.text) + 1
      /\ \A n \in 1 .. Len(test.text) : text'[n] = test.text[n]
  <2>1. Garbage \in Line
    BY DEF Line
  <2> QED BY <1>4, <1>6, <2>1, AppendProperties
<1>8. open' = Append(open, Len(text'))
  BY <1>1, <1>7
<1>9. /\ Len(open') = Len(open) + 1 /\ open'[Len(open) + 1] = Len(text')
      /\ \A x \in DOMAIN open : open'[x] = open[x]
  <2>1. \A x \in 1 .. Len(text) : x \in Nat
    BY Lengths
  <2>2. open \in Seq(Nat)
    <3>1. open \in Seq(DOMAIN text) /\ \A x \in DOMAIN text : x \in Nat
      BY <2>1, Lengths DEF TextInv
    <3> QED BY <3>1
  <2>3. Len(text') \in Nat
    BY <1>5, <1>7
  <2> QED BY <1>8, <2>2, <2>3, Lengths, AppendProperties
<1> QED BY <1>1, <1>3, <1>5, <1>6, <1>7, <1>8, <1>9 DEF test

\* What completes the function with a block more completes it without.
LEMMA OpeningCompletes ==
  ASSUME TextInv, Handle2028, NEW F, Completes(F)'
  PROVE  /\ Completes(F) /\ Within(F, Here, Test(Here, Code))
         /\ F[Len(text')].op = "bne" /\ F[Len(text')].by \in Nat \ {0}
         /\ \A x \in DOMAIN open : Len(text') <= Target(F, open[x]) /\ Target(F, open[x]) \in Int
<1> DEFINE test == Test(Here, Code)
           p == Len(text')
<1>1. /\ test \in Extensions(Here) /\ Len(test.text) \in Nat /\ Len(text) <= Len(test.text)
      /\ p = Len(test.text) + 1 /\ Len(open') = Len(open) + 1
      /\ open'[Len(open) + 1] = p /\ \A x \in DOMAIN open : open'[x] = open[x]
      /\ \A n \in 1 .. Len(test.text) : text'[n] = test.text[n]
  BY OpeningLines
<1>2. TextInv'
  BY OpeningKeepsText
<1>3. DOMAIN text' = 1 .. p /\ DOMAIN open' = 1 .. Len(open')
  <2>1. text' \in Seq(Line) /\ open' \in Seq(DOMAIN text')
    BY <1>2 DEF TextInv, Here, Emission
  <2> QED BY <2>1, LenProperties
<1>4. /\ Len(text) \in Nat /\ DOMAIN text = 1 .. Len(text) /\ text \in Seq(Line)
      /\ Len(open) \in Nat /\ DOMAIN open = 1 .. Len(open)
      /\ \A x \in DOMAIN open : open[x] \in 1 .. Len(text)
      /\ Here.text = text
  BY Lengths
<1>5. PICK more \in Seq(Instruction) : test.text = text \o more
  BY <1>1, <1>4 DEF Extensions
<1>6. /\ Len(more) \in Nat /\ \A i \in 1 .. Len(more) : more[i] \in Instruction
      /\ Len(test.text) = Len(text) + Len(more)
      /\ \A i \in 1 .. Len(text) + Len(more) :
           test.text[i] = IF i <= Len(text) THEN text[i] ELSE more[i - Len(text)]
  <2>1. more \in Seq(Line)
    BY Instructions
  <2> QED BY <1>4, <1>5, <2>1, LenProperties, ConcatProperties
<1> HIDE DEF test, p
<1>7. /\ \A n \in DOMAIN text' : text'[n] # Garbage => F[n] = text'[n]
      /\ \A x \in DOMAIN open' :
           F[open'[x]].op = "bne" /\ F[open'[x]].by \in Int /\ p <= Target(F, open'[x])
  BY DEF Completes, p
<1>8. \A n \in DOMAIN text : text[n] # Garbage => F[n] = text[n]
  <2> TAKE n \in DOMAIN text
  <2>1. n \in 1 .. Len(test.text) /\ n \in DOMAIN text' /\ n <= Len(text)
        /\ n \in 1 .. Len(text) + Len(more)
    BY <1>1, <1>3, <1>4, <1>6
  <2>2. text'[n] = text[n]
    BY <1>1, <1>6, <2>1
  <2> QED BY <1>7, <2>1, <2>2
<1>9. ASSUME NEW x \in DOMAIN open
      PROVE  /\ F[open[x]].op = "bne" /\ F[open[x]].by \in Int /\ Len(text) <= Target(F, open[x])
             /\ p <= Target(F, open[x]) /\ Target(F, open[x]) \in Int
  <2>1. x \in DOMAIN open' /\ open'[x] = open[x] /\ open[x] \in Int
    BY <1>1, <1>3, <1>4
  <2>2. F[open[x]].op = "bne" /\ F[open[x]].by \in Int /\ p <= Target(F, open[x])
    BY <1>7, <2>1
  <2>3. Target(F, open[x]) \in Int
    BY <2>1, <2>2 DEF Target
  <2> QED BY <1>1, <1>4, <2>2, <2>3
<1>10. Within(F, Here, test)
  <2>1. ASSUME NEW n \in Len(text) + 1 .. Len(test.text) PROVE F[n] = test.text[n]
    <3>1. n \in 1 .. Len(test.text) /\ n \in DOMAIN text' /\ ~ n <= Len(text)
          /\ n - Len(text) \in 1 .. Len(more) /\ n \in 1 .. Len(text) + Len(more)
      BY <1>1, <1>3, <1>4, <1>6
    <3>2. text'[n] = test.text[n] /\ test.text[n] \in Instruction
      BY <1>1, <1>6, <3>1
    <3> QED BY <1>7, <3>1, <3>2, Instructions
  <2> QED BY <1>4, <2>1 DEF Within
<1>11. F[p].op = "bne" /\ F[p].by \in Nat \ {0}
  <2>1. Len(open) + 1 \in DOMAIN open'
    BY <1>1, <1>3, <1>4
  <2>2. F[p].op = "bne" /\ F[p].by \in Int /\ p <= p + F[p].by - 1
    BY <1>1, <1>7, <2>1 DEF Target
  <2> QED BY <1>1, <2>2
<1>12. Completes(F)
  BY <1>8, <1>9 DEF Completes
<1> QED BY <1>9, <1>10, <1>11, <1>12 DEF p, test

\* A block that is opened: the machine takes the branch when the list begins to skip, and
\* one that skips goes on.
LEMMA OpeningOn ==
  ASSUME RealMachine, CodesBehave, TextInv, Handle2028, Sound, NEW m, NEW F, NEW D,
         Completes(F)', Follows(F, D, m)
  PROVE  Follows(F, D, m)'
<1> DEFINE n == Len(text)
           n1 == Len(text')
           c == Code
           test == Test(Here, Code)
           q == Len(test.text)
<1>1. PICK u, k, v : /\ Level(F, u, k, v) /\ Means(list, m, pos, v)
                     /\ Reaches(F, D, 0, Machine(m), Len(text), Skipping(u, k))
  BY DEF Follows
<1>2. /\ v \in States /\ u \in Machines(Addresses) /\ k \in Nat
      /\ u.reg[1] = Stack - 32 /\ Alike(u.memory, v.memory) /\ v.skipped \in Nat
  BY <1>1 DEF Level, States
<1>3. /\ Compiling(Conditional) /\ list' = list /\ known' = test.known
      /\ q \in Nat /\ n <= q /\ n1 = q + 1 /\ Len(open') = Len(open) + 1
      /\ open'[Len(open) + 1] = n1 /\ \A x \in DOMAIN open : open'[x] = open[x]
  BY OpeningLines
<1>4. /\ c \in GeckoCode /\ c.op \in Conditional /\ pos \in Nat /\ pos' = pos + 1 /\ Behaves(c)
      /\ c = list[pos + 1] /\ (dirty => c.value < Half \div 2)
  <2>1. c \in GeckoCode /\ c.op \in Conditional /\ pos + 1 \in DOMAIN list /\ pos' = pos + 1
    BY <1>3, CodeTyped DEF TextInv, Compiling
  <2>2. dirty => c.value < Half \div 2
    BY <2>1 DEF Sound, Comparable, Code
  <2> QED BY <2>1, <2>2, Lengths DEF TextInv, CodesBehave, Code
<1>5. PICK w : w = Interpret(v, c) /\ Means(list', m, pos', w)
  <2>1. Means(list', m, pos', Interpret(v, c))
    BY <1>1, <1>3, <1>4, MeansMore
  <2> QED BY <2>1
<1>6. /\ Within(F, Here, test) /\ F[n1].op = "bne" /\ F[n1].by \in Nat \ {0}
      /\ \A x \in DOMAIN open : n1 <= Target(F, open[x]) /\ Target(F, open[x]) \in Int
  BY OpeningCompletes
<1>7. n \in Nat /\ Len(open) \in Nat /\ DOMAIN open = 1 .. Len(open) /\ Here.text = text
      /\ Here \in Emission
  BY Lengths
<1>8. Here'.known = test.known
  BY <1>3 DEF Here
<1> HIDE DEF n, n1, c, test, q
<1>9. CASE v.skipped = 0
  <2>1. k = 0 /\ Agrees(Here, u) /\ Skipping(u, k) = u
    BY <1>1, <1>2, <1>9, SkipsOne DEF Level
  <2>2. /\ c.address \in Word /\ c.value \in Word /\ (c.op = "ifMasked" => c.mask \in Field)
    <3>1. Field \subseteq Word
      <4>1. ASSUME NEW h \in Nat \ {0} PROVE h <= h * h
        BY SMT
      <4> QED BY <4>1, WidthsPositive DEF Field, Word, Full
    <3> QED BY <1>4, <3>1, OperandsTyped DEF Conditional
  <2>3. PICK t : /\ Reaches(F, D, Len(Here.text), u, Len(test.text), t)
                 /\ Calm(Addresses, u, t) /\ (t.equal <=> Holds(u.memory, c)) /\ Agrees(test, t)
    <3>1. Within(F, Here, Test(Here, c))
      BY <1>6 DEF test, c
    <3>2. RealBytes
      BY DEF RealMachine
    <3>3. \E t : /\ Reaches(F, D, Len(Here.text), u, Len(Test(Here, c).text), t)
                 /\ Calm(Addresses, u, t) /\ (t.equal <=> Holds(u.memory, c))
                 /\ Agrees(Test(Here, c), t)
      BY <1>2, <1>4, <1>7, <2>1, <2>2, <3>1, <3>2, TestRuns
    <3> QED BY <3>3 DEF test, c
  <2>4. t \in Machines(Addresses) /\ t.memory = u.memory /\ t.reg[1] = Stack - 32
        /\ (t.equal <=> Holds(v.memory, c))
    <3>1. Holds(u.memory, c) <=> Holds(v.memory, c)
      BY <1>2, <1>4, HoldsAlike
    <3> QED BY <1>2, <2>3, <3>1 DEF Calm
  <2>5. Reaches(F, D, 0, Machine(m), q, t)
    <3>1. 0 \in Int /\ n \in Int /\ q \in Int /\ 0 <= n /\ n <= q
      BY <1>3, <1>7
    <3>2. Reaches(F, D, 0, Machine(m), n, u) /\ Reaches(F, D, n, u, q, t)
      BY <1>1, <1>7, <2>1, <2>3 DEF n, q
    <3> QED BY <3>1, <3>2, Onward
  <2>6. Reaches(F, D, 0, Machine(m), n1, Execute(t, F[n1], D))
    BY <1>3, <2>5, NextLine
  <2>7. CASE Holds(v.memory, c)
    <3>1. w = v
      BY <1>2, <1>4, <1>5, <1>9, <2>7, OpensOrSkips
    <3>2. Execute(t, F[n1], D) = Skipping(t, 0)
      BY <1>6, <2>4, <2>7, Branching, SkipsOne
    <3>3. Agrees(Here', t)
      BY <1>8, <2>3 DEF Agrees
    <3>4. Level(F, t, 0, w)'
      BY <1>2, <1>9, <2>4, <3>1, <3>3 DEF Level
    <3> QED BY <1>5, <2>6, <3>2, <3>4 DEF Follows, n1
  <2>8. CASE ~ Holds(v.memory, c)
    <3>1. w.memory = v.memory /\ w.skipped = 1 /\ w \in States
      BY <1>2, <1>4, <1>5, <1>9, <2>8, OpensOrSkips
    <3>2. PICK g \in Nat : g = F[n1].by - 1 /\ g = Target(F, n1) - n1
      <4>1. F[n1].by - 1 \in Nat /\ F[n1].by - 1 = Target(F, n1) - n1
        BY <1>3, <1>6 DEF Target
      <4> QED BY <4>1
    <3>3. Execute(t, F[n1], D) = Skipping(t, g)
      BY <1>6, <2>4, <2>8, <3>2, Branching
    <3>4. 1 <= Len(open') /\ g = Target(F, open'[Len(open') - 1 + 1]) - Len(text')
      <4>1. Len(open') - 1 + 1 = Len(open) + 1 /\ 1 <= Len(open')
        BY <1>3, <1>7
      <4>2. open'[Len(open') - 1 + 1] = n1
        BY <1>3, <4>1
      <4> QED BY <3>2, <4>1, <4>2 DEF n1
    <3>5. Level(F, t, g, w)'
      <4>1. ~ w.skipped = 0
        BY <3>1
      <4> QED BY <1>2, <2>4, <3>1, <3>2, <3>4, <4>1 DEF Level
    <3> QED BY <1>5, <2>6, <3>3, <3>5 DEF Follows, n1
  <2> QED BY <2>7, <2>8
<1>10. CASE v.skipped > 0
  <2> DEFINE x == Len(open) - v.skipped + 1
             y == Target(F, open[x])
  <2>1. v.skipped <= Len(open) /\ k = y - n
    BY <1>1, <1>10 DEF Level, n
  <2>2. x \in DOMAIN open
    BY <1>2, <1>7, <1>10, <2>1
  <2>3. n1 <= y /\ y \in Int
    BY <1>6, <2>2
  <2>4. PICK g \in Nat : g = y - n1 /\ g = k - (n1 - n)
    <3> HIDE DEF y
    <3>1. y - n1 \in Nat /\ y - n1 = k - (n1 - n)
      BY <1>3, <1>7, <2>1, <2>3
    <3> QED BY <3>1
  <2>5. Reaches(F, D, 0, Machine(m), n1, Skipping(u, g))
    <3>1. n1 \in Nat /\ n <= n1
      BY <1>3, <1>7
    <3> QED BY <1>1, <1>2, <1>7, <2>4, <3>1, SkippedOn DEF n
  <2>6. w.memory = v.memory /\ w.skipped = v.skipped + 1 /\ w \in States
    BY <1>2, <1>4, <1>5, <1>10, OpensOrSkips
  <2>7. w.skipped <= Len(open') /\ ~ w.skipped = 0 /\ Len(open') - w.skipped + 1 = x
    BY <1>2, <1>3, <1>7, <2>1, <2>6
  <2>8. g = Target(F, open'[Len(open') - w.skipped + 1]) - Len(text')
    <3>1. open'[x] = open[x]
      BY <1>3, <2>2
    <3> HIDE DEF x
    <3> QED BY <2>4, <2>7, <3>1 DEF n1
  <2>9. Level(F, u, g, w)'
    BY <1>2, <2>4, <2>6, <2>7, <2>8 DEF Level
  <2> QED BY <1>5, <2>5, <2>9 DEF Follows, n1
<1>11. v.skipped = 0 \/ v.skipped > 0
  BY <1>2
<1> QED BY <1>9, <1>10, <1>11

\* What E0 emits and fills in.
LEMMA ClosingLines ==
  ASSUME TextInv, HandleE0
  PROVE  /\ Compiling({"endif"}) /\ UNCHANGED list /\ known' = <<>>
         /\ Len(open) \in Nat \ {0} /\ open[Len(open)] \in 1 .. Len(text)
         /\ Len(text') = Len(text) + 1 /\ text'[Len(text) + 1] = [op |-> "nop"]
         /\ text'[open[Len(open)]] = Bne(Len(text) + 1 - open[Len(open)])
         /\ \A i \in 1 .. Len(text) : i # open[Len(open)] => text'[i] = text[i]
         /\ Len(open') = Len(open) - 1 /\ \A x \in 1 .. Len(open) - 1 : open'[x] = open[x]
<1> DEFINE n == Len(text)
           j == Len(open)
           nop == [op |-> "nop"]
           placed == Append(text, nop)
           paired == Last(open)
           bne == Bne(Len(placed) - paired)
<1>1. /\ Compiling({"endif"}) /\ UNCHANGED list /\ open # <<>> /\ open' = Front(open)
      /\ text' = [placed EXCEPT ![paired] = bne] /\ known' = <<>>
  BY DEF HandleE0, Proceed
<1>2. /\ n \in Nat /\ j \in Nat /\ DOMAIN open = 1 .. j /\ text \in Seq(Line)
      /\ \A x \in DOMAIN open : open[x] \in 1 .. n
  BY Lengths
<1>3. j \in Nat \ {0} /\ open \in Seq(1 .. n)
  <2>1. open \in Seq(1 .. n)
    BY Lengths DEF TextInv
  <2> QED BY <1>1, <1>2, <2>1, EmptySeq
<1>4. paired = open[j] /\ paired \in 1 .. n
  BY <1>2, <1>3 DEF Last
<1>5. nop \in Line
  BY DEF Line, Instruction
<1> HIDE DEF nop
<1>6. /\ placed \in Seq(Line) /\ Len(placed) = n + 1 /\ DOMAIN placed = 1 .. n + 1
      /\ placed[n + 1] = nop /\ \A i \in 1 .. n : placed[i] = text[i]
  BY <1>2, <1>5, AppendProperties, LenProperties
<1>7. bne = Bne(n + 1 - paired)
  <2>1. Len(placed) - paired = n + 1 - paired
    <3> HIDE DEF placed, paired, n
    <3> QED BY <1>2, <1>4, <1>6
  <2>2. bne = Bne(Len(placed) - paired)
    OBVIOUS
  <2> HIDE DEF bne
  <2> QED BY <2>1, <2>2
<1> HIDE DEF placed, paired, bne
<1>8. Len(text') = n + 1 /\ text'[paired] = bne
      /\ \A i \in 1 .. n + 1 : i # paired => text'[i] = placed[i]
  <2>1. DOMAIN text' = DOMAIN placed /\ paired \in DOMAIN placed
    BY <1>1, <1>2, <1>4, <1>6
  <2>2. text' \in [1 .. n + 1 -> Line \cup {bne}]
    BY <1>1, <1>6, LenProperties
  <2>3. Len(text') = n + 1
    <3> DEFINE S == Line \cup {bne}
               z == n + 1
    <3>1. z \in Nat /\ text' \in [1 .. z -> S]
      BY <1>2, <2>2
    <3> HIDE DEF S, z
    <3>2. text' \in Seq(S)
      BY <3>1, SeqDef
    <3>3. DOMAIN text' = 1 .. Len(text') /\ Len(text') \in Nat /\ DOMAIN text' = 1 .. z
      BY <3>1, <3>2, LenProperties
    <3>4. Len(text') = z
      BY <3>1, <3>3
    <3> QED BY <3>4 DEF z
  <2> QED BY <1>1, <1>6, <2>1, <2>3
<1>9. Len(open') = j - 1 /\ \A x \in 1 .. j - 1 : open'[x] = open[x]
  <2>1. open' = SubSeq(open, 1, j - 1)
    BY <1>1 DEF Front
  <2>2. \A x \in 1 .. j - 1 : open[x] \in 1 .. n
    BY <1>2
  <2>3. 1 \in Int /\ j - 1 \in Int /\ j - 1 >= 0
    BY <1>3
  <2>4. /\ Len(open') = IF 1 <= j - 1 THEN j - 1 - 1 + 1 ELSE 0
        /\ \A x \in 1 .. j - 1 - 1 + 1 : open'[x] = open[1 + x - 1]
    BY <2>1, <2>2, <2>3, SubSeqProperties
  <2>5. \A x \in 1 .. j - 1 : x \in 1 .. j - 1 - 1 + 1 /\ 1 + x - 1 = x
    BY <2>3
  <2> HIDE DEF j
  <2>6. CASE j = 1
    <3>1. Len(open') = 0
      BY <2>4, <2>6
    <3> QED BY <2>4, <2>5, <2>6, <3>1
  <2>7. CASE j # 1
    <3>1. 1 <= j - 1 /\ j - 1 - 1 + 1 = j - 1
      BY <1>3, <2>7
    <3>2. Len(open') = j - 1
      BY <2>4, <3>1
    <3> QED BY <2>4, <2>5, <3>2
  <2> QED BY <2>6, <2>7
<1>10. \A i \in 1 .. n : i # paired => text'[i] = text[i]
  BY <1>2, <1>6, <1>8
<1>11. text'[n + 1] = nop
  BY <1>2, <1>4, <1>6, <1>8
<1> QED BY <1>1, <1>3, <1>4, <1>7, <1>8, <1>9, <1>10, <1>11 DEF nop

\* A branch over what it can reach.
LEMMA BneReaches ==
  ASSUME NEW by \in Nat, by < BranchReach
  PROVE  Bne(by).op = "bne" /\ Bne(by).by = by /\ Bne(by) # Garbage
<1> DEFINE x == by + BranchReach
           y == 2 * BranchReach
<1>1. x \in Nat /\ y \in Nat \ {0} /\ x < y /\ x - BranchReach = by
  BY CompilerAssumption
<1>2. Bne(by).by = (x % y) - BranchReach /\ Bne(by).op = "bne"
  BY DEF Bne
<1> HIDE DEF x, y
<1>3. x % y = x
  BY <1>1
<1> QED BY <1>1, <1>2, <1>3 DEF Garbage

\* What completes the function with a block less completes it with the block.
LEMMA ClosingCompletes ==
  ASSUME TextInv, HandleE0, NEW F, Completes(F)', Len(text') <= BranchReach
  PROVE  /\ Completes(F) /\ F[Len(text')] = [op |-> "nop"]
         /\ Target(F, open[Len(open)]) = Len(text)
         /\ \A x \in 1 .. Len(open) - 1 :
              Len(text') <= Target(F, open[x]) /\ Target(F, open[x]) \in Int
<1> DEFINE n == Len(text)
           n1 == Len(text')
           j == Len(open)
           p == open[j]
<1>1. /\ j \in Nat \ {0} /\ p \in 1 .. n
      /\ n1 = n + 1 /\ text'[n1] = [op |-> "nop"] /\ text'[p] = Bne(n1 - p)
      /\ \A i \in 1 .. n : i # p => text'[i] = text[i]
      /\ Len(open') = j - 1 /\ \A x \in 1 .. j - 1 : open'[x] = open[x]
  BY ClosingLines
<1>2. /\ n \in Nat /\ DOMAIN text = 1 .. n /\ DOMAIN open = 1 .. j
      /\ \A x \in DOMAIN open : open[x] \in 1 .. n
  BY Lengths
<1>3. DOMAIN text' = 1 .. n1 /\ DOMAIN open' = 1 .. j - 1
  <2>1. TextInv'
    BY ClosingKeepsText
  <2>2. text' \in Seq(Line) /\ open' \in Seq(DOMAIN text')
    BY <2>1 DEF TextInv, Here, Emission
  <2> QED BY <1>1, <2>2, LenProperties
<1>4. text[p] = Garbage
  <2>1. j \in DOMAIN open /\ p \in DOMAIN text
    BY <1>1, <1>2
  <2> QED BY <2>1 DEF TextInv
<1>5. n1 <= BranchReach /\ BranchReach \in Nat
  BY CompilerAssumption
<1> HIDE DEF n, n1, p
<1>6. /\ \A i \in DOMAIN text' : text'[i] # Garbage => F[i] = text'[i]
      /\ \A x \in DOMAIN open' :
           F[open'[x]].op = "bne" /\ F[open'[x]].by \in Int /\ n1 <= Target(F, open'[x])
  BY DEF Completes, n1
<1>7. \A i \in DOMAIN text : text[i] # Garbage => F[i] = text[i]
  <2> TAKE i \in DOMAIN text
  <2> SUFFICES ASSUME text[i] # Garbage PROVE F[i] = text[i]
    OBVIOUS
  <2>1. i # p /\ i \in 1 .. n /\ i \in DOMAIN text'
    BY <1>1, <1>2, <1>3, <1>4
  <2> QED BY <1>1, <1>6, <2>1
<1>8. F[p].op = "bne" /\ F[p].by \in Int /\ Target(F, p) = n
  <2> DEFINE by == n1 - p
  <2>1. by \in Nat /\ by < BranchReach /\ p + by - 1 = n
    BY <1>1, <1>2, <1>5
  <2> HIDE DEF by
  <2>2. Bne(by).op = "bne" /\ Bne(by).by = by /\ Bne(by) # Garbage
    BY <2>1, BneReaches
  <2>3. p \in DOMAIN text'
    BY <1>1, <1>2, <1>3
  <2>4. F[p] = Bne(by)
    BY <1>1, <1>6, <2>2, <2>3 DEF by
  <2> QED BY <2>1, <2>2, <2>4 DEF Target
<1>9. ASSUME NEW x \in 1 .. j - 1
      PROVE  /\ F[open[x]].op = "bne" /\ F[open[x]].by \in Int
             /\ n1 <= Target(F, open[x]) /\ Target(F, open[x]) \in Int
  <2>1. x \in DOMAIN open' /\ open'[x] = open[x] /\ open[x] \in Int
    BY <1>1, <1>2, <1>3
  <2>2. F[open[x]].op = "bne" /\ F[open[x]].by \in Int /\ n1 <= Target(F, open[x])
    BY <1>6, <2>1
  <2> QED BY <2>1, <2>2 DEF Target
<1>10. ASSUME NEW x \in DOMAIN open
       PROVE  F[open[x]].op = "bne" /\ F[open[x]].by \in Int /\ n <= Target(F, open[x])
  <2>1. CASE x = j
    BY <1>2, <1>8, <2>1 DEF p
  <2>2. CASE x # j
    <3>1. x \in 1 .. j - 1
      BY <1>1, <1>2, <2>2
    <3> QED BY <1>1, <1>2, <1>9, <3>1
  <2> QED BY <2>1, <2>2
<1>11. Completes(F)
  BY <1>7, <1>10 DEF Completes, n
<1>12. F[n1] = [op |-> "nop"]
  <2>1. n1 \in DOMAIN text'
    BY <1>1, <1>2, <1>3
  <2>2. text'[n1] # Garbage
    BY <1>1 DEF Garbage
  <2> QED BY <1>1, <1>6, <2>1, <2>2
<1> QED BY <1>8, <1>9, <1>11, <1>12 DEF n, n1, p

\* E0 of a list that skips, and of one that does not.
LEMMA ClosesOne ==
  ASSUME NEW v \in States, NEW c, c.op = "endif"
  PROVE  /\ Interpret(v, c).memory = v.memory /\ Interpret(v, c) \in States
         /\ v.skipped = 0 => Interpret(v, c).skipped = 0
         /\ v.skipped > 0 => Interpret(v, c).skipped = v.skipped - 1
<1> DEFINE j == IF v.skipped > 0 THEN v.skipped - 1 ELSE 0
<1>1. v.skipped \in Nat
  BY DEF States
<1>2. j \in Nat
  BY <1>1
<1>3. Interpret(v, c) = [v EXCEPT !.skipped = j]
  <2>1. c.op \notin Conditional /\ c.op \notin Writing
    BY DEF Conditional, Writing
  <2> QED BY <2>1 DEF Interpret
<1>4. Interpret(v, c).memory = v.memory /\ Interpret(v, c).skipped = j /\ Interpret(v, c) \in States
  <2> HIDE DEF j
  <2> QED BY <1>2, <1>3 DEF States
<1> QED BY <1>1, <1>4

\* A block that is closed: the machine is at the end of the block that the list skips, or goes
\* on to the end of the one around it.
LEMMA ClosingOn ==
  ASSUME RealMachine, TextInv, HandleE0, Len(text') <= BranchReach, NEW m, NEW F, NEW D,
         Completes(F)', Follows(F, D, m)
  PROVE  Follows(F, D, m)'
<1> DEFINE n == Len(text)
           n1 == Len(text')
           j == Len(open)
           c == Code
<1>1. PICK u, k, v : /\ Level(F, u, k, v) /\ Means(list, m, pos, v)
                     /\ Reaches(F, D, 0, Machine(m), Len(text), Skipping(u, k))
  BY DEF Follows
<1>2. /\ v \in States /\ u \in Machines(Addresses) /\ k \in Nat
      /\ u.reg[1] = Stack - 32 /\ Alike(u.memory, v.memory) /\ v.skipped \in Nat
  BY <1>1 DEF Level, States
<1>3. /\ Compiling({"endif"}) /\ list' = list /\ known' = <<>> /\ j \in Nat \ {0} /\ n1 = n + 1
      /\ Len(open') = j - 1 /\ \A x \in 1 .. j - 1 : open'[x] = open[x]
  BY ClosingLines
<1>4. c.op = "endif" /\ pos \in Nat /\ pos' = pos + 1 /\ c = list[pos + 1] /\ n \in Nat
  BY <1>3, Lengths DEF TextInv, Compiling, Code
<1>5. PICK w : w = Interpret(v, c) /\ Means(list', m, pos', w)
  <2>1. Means(list', m, pos', Interpret(v, c))
    BY <1>1, <1>3, <1>4, MeansMore
  <2> QED BY <2>1
<1>6. /\ F[n1] = [op |-> "nop"] /\ Target(F, open[j]) = n
      /\ \A x \in 1 .. j - 1 : n1 <= Target(F, open[x]) /\ Target(F, open[x]) \in Int
  BY ClosingCompletes
<1>7. Agrees(Here', u)
  <2>1. Here'.known = <<>>
    BY <1>3 DEF Here
  <2> QED BY <2>1 DEF Agrees
<1>8. /\ w.memory = v.memory /\ w \in States
      /\ (v.skipped = 0 => w.skipped = 0) /\ (v.skipped > 0 => w.skipped = v.skipped - 1)
  BY <1>2, <1>4, <1>5, ClosesOne
<1> HIDE DEF n, n1, j, c
\* The machine takes the nop.
<1>9. ASSUME k = 0, w.skipped = 0 PROVE Follows(F, D, m)'
  <2>1. Skipping(u, k) = u /\ Skipping(u, 0) = u
    BY <1>2, <1>9, SkipsOne
  <2>2. F[n1].op = "nop"
    BY <1>6
  <2>3. Execute(u, F[n1], D) = Skipping(u, 0)
    BY <1>2, <2>1, <2>2, Nothing
  <2>4. Reaches(F, D, 0, Machine(m), n, u)
    BY <1>1, <2>1 DEF n
  <2>5. Reaches(F, D, 0, Machine(m), n1, Skipping(u, 0))
    BY <1>3, <1>4, <2>3, <2>4, NextLine
  <2>6. Level(F, u, 0, w)'
    BY <1>2, <1>7, <1>8, <1>9 DEF Level
  <2> QED BY <1>5, <2>5, <2>6 DEF Follows, n1
<1>10. CASE v.skipped = 0
  <2>1. k = 0 /\ w.skipped = 0
    BY <1>1, <1>8, <1>10 DEF Level
  <2> QED BY <1>9, <2>1
<1>11. CASE v.skipped = 1
  <2>1. k = Target(F, open[Len(open) - v.skipped + 1]) - n
    BY <1>1, <1>11 DEF Level, n
  <2>2. Len(open) - v.skipped + 1 = j
    BY <1>3, <1>11 DEF j
  <2>3. k = n - n
    BY <1>6, <2>1, <2>2
  <2>4. k = 0 /\ w.skipped = 0
    BY <1>4, <1>8, <1>11, <2>3
  <2> QED BY <1>9, <2>4
<1>12. CASE v.skipped > 1
  <2> DEFINE x == j - v.skipped + 1
             y == Target(F, open[x])
  <2>1. v.skipped <= j /\ k = y - n
    BY <1>1, <1>2, <1>12 DEF Level, n, j
  <2>2. x \in 1 .. j - 1
    BY <1>2, <1>3, <1>12, <2>1
  <2>3. n1 <= y /\ y \in Int
    BY <1>6, <2>2
  <2>4. PICK g \in Nat : g = y - n1 /\ g = k - (n1 - n)
    <3> HIDE DEF y
    <3>1. y - n1 \in Nat /\ y - n1 = k - (n1 - n)
      BY <1>3, <1>4, <2>1, <2>3
    <3> QED BY <3>1
  <2>5. Reaches(F, D, 0, Machine(m), n1, Skipping(u, g))
    <3>1. n1 \in Nat /\ n <= n1
      BY <1>3, <1>4
    <3> QED BY <1>1, <1>2, <1>4, <2>4, <3>1, SkippedOn DEF n
  <2>6. w.skipped = v.skipped - 1
    BY <1>2, <1>8, <1>12
  <2>7. w.skipped <= Len(open') /\ ~ w.skipped = 0 /\ Len(open') - w.skipped + 1 = x
    BY <1>2, <1>3, <1>12, <2>1, <2>6
  <2>8. g = Target(F, open'[Len(open') - w.skipped + 1]) - Len(text')
    <3>1. open'[x] = open[x]
      BY <1>3, <2>2
    <3> HIDE DEF x
    <3> QED BY <2>4, <2>7, <3>1 DEF n1
  <2>9. Level(F, u, g, w)'
    BY <1>2, <1>8, <2>4, <2>7, <2>8 DEF Level
  <2> QED BY <1>5, <2>5, <2>9 DEF Follows, n1
<1>13. v.skipped = 0 \/ v.skipped = 1 \/ v.skipped > 1
  BY <1>2
<1> QED BY <1>10, <1>11, <1>12, <1>13

-----------------------------------------------------------------------------
(* The steps of the compiler.                                              *)

\* However the function is completed, the machine follows the list.
Right ==
  \A m \in Memories : \A F, D : Completes(F) /\ Keeps(D, data) => Follows(F, D, m)

\* l is the function so far with what one code becomes.
DoesCode(l) ==
  Sound' => \A F, D : Within(F, Here, l) /\ Keeps(D, data') => Does(F, D, l)

\* A code's step goes on with the function.
GoesOn == Len(text) <= Len(text') /\ (Sound' /\ Right => Right')

\* A code that writes, whichever it is.
LEMMA RightOn ==
  ASSUME RealMachine, CodesBehave, TextInv, NEW ops, Compiling(ops), Code.op \in Writing,
         NEW l \in Extensions(Here), text' = l.text, known' = l.known, UNCHANGED <<list, open>>,
         Keeps(data', data), DoesCode(l)
  PROVE  GoesOn
<1>1. Len(text) <= Len(text')
  <2>1. PICK more \in Seq(Instruction) : text' = text \o more
    BY Lengths DEF Extensions
  <2>2. text \in Seq(Line) /\ more \in Seq(Line)
    BY Lengths, Instructions
  <2>3. Len(text) \in Nat /\ Len(more) \in Nat /\ Len(text') = Len(text) + Len(more)
    BY <2>1, <2>2, LenProperties, ConcatProperties
  <2> QED BY <2>3
<1> SUFFICES ASSUME Sound', Right, NEW m \in Memories, NEW F, NEW D, Completes(F)',
                    Keeps(D, data')
             PROVE  Follows(F, D, m)'
  BY <1>1 DEF Right, GoesOn
<1>2. Completes(F) /\ Within(F, Here, l)
  BY CompletesBefore
<1>3. Keeps(D, data)
  BY DEF Keeps
<1>4. Follows(F, D, m)
  BY <1>2, <1>3 DEF Right
<1>5. Does(F, D, l)
  BY <1>2 DEF DoesCode
<1> QED BY <1>4, <1>5, WritingOn

\* What a code's handler may take from the list.
LEMMA CodeHere ==
  ASSUME CodesBehave, TextInv, NEW ops, Compiling(ops)
  PROVE  /\ Code \in GeckoCode /\ Code.op \in ops /\ Behaves(Code) /\ pos + 1 \in DOMAIN list
         /\ Here \in Emission /\ Here \in Extensions(Here) /\ Keeps(data, data)
<1>1. Code \in GeckoCode /\ Code.op \in ops /\ pos + 1 \in DOMAIN list
  BY CodeTyped DEF TextInv
<1> QED BY <1>1, Lengths, ExtendsItself DEF CodesBehave, Code, Keeps

\* 00 and 02.
LEMMA FillOn ==
  ASSUME RealMachine, CodesBehave, TextInv, Handle0002
  PROVE  GoesOn
<1> DEFINE c == Code
           call == [op |-> "memset", size |-> c.size]
           l == CallWith(Here, c.address, c.value % Values(c.size), c.count, call)
<1>1. Compiling({"fill"}) /\ Proceed(l, tail) /\ UNCHANGED <<list, open, data>>
  BY DEF Handle0002
<1>2. /\ c \in GeckoCode /\ c.op = "fill" /\ Behaves(c) /\ Here \in Emission
      /\ Here \in Extensions(Here) /\ Keeps(data, data)
  BY <1>1, CodeHere
<1>3. /\ c.address \in Int /\ c.value \in Int /\ c.size \in {1, 2} /\ c.count \in Int
  <2>1. /\ c.address \in Word /\ c.value \in Word /\ c.size \in {1, 2} /\ c.count \in Nat
    BY <1>2, OperandsTyped
  <2>2. \A n \in Nat : n \in Int
    OBVIOUS
  <2> QED BY <2>1, <2>2, Cuts, Zenon
<1>4. call \in Instruction /\ c.value % Values(c.size) \in Int
  <2>1. call \in Instruction
    BY <1>3 DEF Instruction
  <2> QED BY <1>3, <2>1, Cuts
<1>5. l \in Extensions(Here)
  <2> HIDE DEF call
  <2> QED BY <1>2, <1>3, <1>4, Calling
<1>6. DoesCode(l)
  <2> SUFFICES ASSUME NEW F, NEW D, Within(F, Here, l), NEW s \in Machines(Addresses),
                      Agrees(Here, s)
               PROVE  Leaves(F, D, Addresses, Here, s, l, Written(s.memory, c))
    BY DEF DoesCode, Does
  <2>1. l = CallWith(Here, c.address, c.value % Values(c.size), c.count,
                     [op |-> "memset", size |-> c.size])
    OBVIOUS
  <2> HIDE DEF l, c
  <2> QED BY <1>2, <2>1, FillDone
<1> HIDE DEF l
<1> QED BY <1>1, <1>2, <1>5, <1>6, RightOn DEF Writing, Proceed, c

\* 04.
LEMMA WriteOn ==
  ASSUME RealMachine, CodesBehave, TextInv, Handle04
  PROVE  GoesOn
<1> DEFINE c == Code
           l == Store(Here, c.address, c.value, 4)
<1>1. Compiling({"write"}) /\ Proceed(l, tail) /\ UNCHANGED <<list, open, data>>
  BY DEF Handle04
<1>2. /\ c \in GeckoCode /\ c.op = "write" /\ Here \in Emission
      /\ Here \in Extensions(Here) /\ Keeps(data, data)
  BY <1>1, CodeHere
<1>3. l \in Extensions(Here)
  <2>1. c.address \in Word /\ c.value \in Word
    BY <1>2, OperandsTyped
  <2> QED BY <1>2, <2>1, Storing
<1>4. DoesCode(l)
  <2> SUFFICES ASSUME NEW F, NEW D, Within(F, Here, l), NEW s \in Machines(Addresses),
                      Agrees(Here, s)
               PROVE  Leaves(F, D, Addresses, Here, s, l, Written(s.memory, c))
    BY DEF DoesCode, Does
  <2>1. l = Store(Here, c.address, c.value, 4)
    OBVIOUS
  <2> HIDE DEF l, c
  <2> QED BY <1>2, <2>1, WriteDone
<1> HIDE DEF l
<1> QED BY <1>1, <1>2, <1>3, <1>4, RightOn DEF Writing, Proceed, c

\* 08.
LEMMA SerialOn ==
  ASSUME RealMachine, CodesBehave, TextInv, Handle08
  PROVE  GoesOn
<1> DEFINE c == Code
           l == SerialWrite(Here, c)
<1>1. Compiling({"serial"}) /\ Proceed(l, tail) /\ UNCHANGED <<list, open, data>>
  BY DEF Handle08
<1>2. /\ c \in GeckoCode /\ c.op = "serial" /\ Behaves(c) /\ Here \in Emission
      /\ Here \in Extensions(Here) /\ Keeps(data, data)
  BY <1>1, CodeHere
<1>3. l \in Extensions(Here)
  <2>1. /\ c.address \in Word /\ c.value \in Word /\ c.count \in Nat /\ c.step \in Nat
        /\ c.increment \in Word
    BY <1>2, OperandsTyped
  <2> QED BY <1>2, <2>1, WritingSerially
<1>4. DoesCode(l)
  <2> SUFFICES ASSUME NEW F, NEW D, Within(F, Here, l), NEW s \in Machines(Addresses),
                      Agrees(Here, s)
               PROVE  Leaves(F, D, Addresses, Here, s, l, Written(s.memory, c))
    BY DEF DoesCode, Does
  <2>1. l = SerialWrite(Here, c)
    OBVIOUS
  <2> HIDE DEF l, c
  <2> QED BY <1>2, <2>1, SerialDone
<1> HIDE DEF l
<1> QED BY <1>1, <1>2, <1>3, <1>4, RightOn DEF Writing, Proceed, c

\* As long as function and blocks are apart, a new block has a word for its address.
LEMMA BlockPlaced ==
  ASSUME RealMachine, TextInv', BlockInv, UNCHANGED list, NEW size \in Nat \ {0}, NEW block,
         block.size = size, tail' = tail + size, data' = With(data, Down - size, block)
  PROVE  /\ Keeps(data', data) /\ Down - size \in DOMAIN data' /\ data'[Down - size] = block
         /\ Down - size \in Int
         /\ Sound' => /\ Down - size \in Word /\ (Down - size) % Full = Down - size
                      /\ size % 4 = 0 => (Down - size) % 4 = 0
<1> DEFINE at == Down - size
           top == MemoryBegin + MemorySize
<1>1. Keeps(data', data) /\ at \in DOMAIN data' /\ data'[at] = block /\ at \in Int
  BY PlacingKeepsApart DEF Keeps
<1> SUFFICES ASSUME Sound'
             PROVE  at \in Word /\ at % Full = at /\ (size % 4 = 0 => at % 4 = 0)
  BY <1>1
<1>2. /\ MemoryBegin \in Nat /\ MemorySize \in Nat /\ top % 4 = 0 /\ tail \in Nat
      /\ tail % 4 = 0 /\ top \in Int /\ top <= Full /\ Full \in Nat
  <2>1. AlignedArrays
    BY DEF Sound, AlignedArrays
  <2>2. tail \in Nat /\ tail % 4 = 0
    BY <2>1 DEF BlockInv
  <2> QED BY <2>2, CompilerAssumption, WidthsPositive DEF RealMachine
<1>3. at = MemoryBegin + (MemorySize - tail') /\ at = top - tail - size
  BY <1>2 DEF Down
<1>4. Len(text') \in Nat /\ 4 * Len(text') + tail' <= MemorySize
  <2>1. text' \in Seq(Line)
    BY DEF TextInv, Here, Emission
  <2> QED BY <2>1, LenProperties DEF Sound, Apart
<1> HIDE DEF at, top
<1>5. at \in Word
  <2>1. tail' \in Nat /\ tail' <= MemorySize
    BY <1>2, <1>4
  <2>2. 0 <= at
    BY <1>2, <1>3, <2>1
  <2>3. at < Full
    BY <1>1, <1>2, <1>3
  <2> QED BY <1>1, <1>2, <2>2, <2>3 DEF Word
<1>6. at % Full = at
  BY <1>5, CutWord
<1>7. size % 4 = 0 => at % 4 = 0
  <2>1. top \in Int
    BY <1>2 DEF top
  <2> QED BY <1>2, <1>3, <2>1
<1> QED BY <1>5, <1>6, <1>7

\* 06, of a short array and of a long one.
LEMMA CopyOn ==
  ASSUME RealMachine, CodesBehave, TextInv, TextInv', BlockInv, Handle06
  PROVE  GoesOn
<1> DEFINE c == Code
           n == Len(c.bytes)
           at == Down - n
           call == [op |-> "memcpy"]
           long == CallWith(Here, c.address, at, n, call)
           short == ArrayInline(Here, c.address, c.bytes)
<1>1. Compiling({"copy"}) /\ UNCHANGED <<list, open>>
  BY DEF Handle06
<1>2. /\ c \in GeckoCode /\ c.op = "copy" /\ Behaves(c) /\ pos + 1 \in DOMAIN list
      /\ Here \in Emission /\ Here \in Extensions(Here) /\ Keeps(data, data)
  BY <1>1, CodeHere
<1>3. c.address \in Word /\ c.address \in Int /\ c.bytes \in Seq(0 .. Byte - 1)
  BY <1>2, OperandsTyped, Cuts
<1>4. n \in Nat /\ CopyInline \in Nat
  BY <1>3, LenProperties, CompilerAssumption
<1>5. Sound' => n % 4 = 0 \/ n > CopyInline
  BY <1>1, <1>2 DEF Sound, WholeArrays, Code
<1>6. CASE n > CopyInline
  <2> DEFINE block == [size |-> n, bytes |-> c.bytes]
  <2>1. data' = With(data, Down - n, block) /\ Proceed(long, tail + n)
    BY <1>6 DEF Handle06
  <2>2. tail' = tail + n /\ block.size = n /\ block.bytes = c.bytes /\ n \in Nat \ {0}
    <3>1. tail' = tail + n
      BY <2>1 DEF Proceed
    <3> QED BY <1>4, <1>6, <3>1
  <2> HIDE DEF block, n
  <2>3. /\ Keeps(data', data) /\ at \in DOMAIN data' /\ data'[at] = block
        /\ at \in Int /\ (Sound' => at \in Word)
    BY <1>1, <2>1, <2>2, BlockPlaced
  <2> HIDE DEF at
  <2>4. call \in Instruction
    BY DEF Instruction
  <2>5. long \in Extensions(Here)
    <3> HIDE DEF call
    <3> QED BY <1>2, <1>3, <1>4, <2>3, <2>4, Calling
  <2>6. DoesCode(long)
    <3> SUFFICES ASSUME Sound', NEW F, NEW D, Within(F, Here, long), Keeps(D, data'),
                        NEW s \in Machines(Addresses), Agrees(Here, s)
                 PROVE  Leaves(F, D, Addresses, Here, s, long, Written(s.memory, c))
      BY DEF DoesCode, Does
    <3>1. long = CallWith(Here, c.address, at, Len(c.bytes), [op |-> "memcpy"])
      BY DEF n
    <3>2. at \in DOMAIN D /\ D[at].bytes = c.bytes
      BY <2>2, <2>3 DEF Keeps
    <3> HIDE DEF long, c
    <3> QED BY <1>2, <2>3, <3>1, <3>2, LongCopyDone
  <2> HIDE DEF long
  <2> QED BY <1>1, <1>2, <2>1, <2>3, <2>5, <2>6, RightOn DEF Writing, Proceed, c
<1>7. CASE ~ (n > CopyInline)
  <2>1. Proceed(short, tail) /\ UNCHANGED data
    BY <1>7 DEF Handle06
  <2>2. short \in Extensions(Here)
    BY <1>2, <1>3, WritingArray
  <2>3. DoesCode(short)
    <3> SUFFICES ASSUME Sound', NEW F, NEW D, Within(F, Here, short),
                        NEW s \in Machines(Addresses), Agrees(Here, s)
                 PROVE  Leaves(F, D, Addresses, Here, s, short, Written(s.memory, c))
      BY DEF DoesCode, Does
    <3>1. short = ArrayInline(Here, c.address, c.bytes) /\ Len(c.bytes) % 4 = 0
      BY <1>5, <1>7
    <3> HIDE DEF short, c
    <3> QED BY <1>2, <3>1, ShortCopyDone
  <2> HIDE DEF short
  <2> QED BY <1>1, <1>2, <2>1, <2>2, <2>3, RightOn DEF Writing, Proceed, c
<1> QED BY <1>6, <1>7

\* C0.
LEMMA ExecuteOn ==
  ASSUME RealMachine, CodesBehave, TextInv, TextInv', BlockInv, HandleC0
  PROVE  GoesOn
<1> DEFINE c == Code
           size == 8 * c.routine.lines
           at == Down - size
           q == ImmediateLoad(Here, 15, at % Full)
           bl == Bl(q, at)
           l == Emit(q, <<bl>>)
           block == Routine(c.routine)
<1>1. /\ Compiling({"execute"}) /\ UNCHANGED <<list, open>> /\ Proceed(l, tail + size)
      /\ data' = With(data, Down - size, block)
  BY DEF HandleC0
<1>2. /\ c \in GeckoCode /\ c.op = "execute" /\ Here \in Emission
      /\ Here \in Extensions(Here)
  BY <1>1, CodeHere
<1>3. /\ c.routine.lines \in Nat \ {0} /\ size \in Nat \ {0} /\ size % 4 = 0 /\ block.size = size
      /\ tail' = tail + size
  <2>1. c.routine.lines \in Nat \ {0}
    BY <1>2, OperandsTyped
  <2> QED BY <1>1, <2>1 DEF Routine, Proceed
<1> HIDE DEF size, block
<1>4. /\ Keeps(data', data) /\ at \in DOMAIN data' /\ data'[at] = block
      /\ at \in Int /\ (Sound' => at \in Word /\ at % Full = at /\ at % 4 = 0)
  BY <1>1, <1>3, BlockPlaced
<1>5. at % Full \in Word /\ at % Full \in Int /\ 15 \in Register
  BY <1>4, CutFits, Cuts DEF Register
<1>6. q \in Extensions(Here) /\ q \in Emission
  <2>1. q \in Extensions(Here)
    BY <1>2, <1>5, Loading
  <2> QED BY <2>1 DEF Extensions
<1>7. Sound' => q = ImmediateLoad(Here, 15, at)
  BY <1>4
<1> HIDE DEF q
<1>8. bl \in Instruction
  BY <1>4, <1>6, BlTyped
<1>9. Sound' => bl = [op |-> "bl", target |-> at]
  <2> SUFFICES ASSUME Sound' PROVE bl = [op |-> "bl", target |-> at]
    OBVIOUS
  <2> DEFINE from == MemoryBegin + 4 * Len(q.text)
  <2>1. text' = q.text \o <<bl>> /\ q.text \in Seq(Line)
    BY <1>1, <1>6 DEF Proceed, Emit, Emission
  <2>2. Len(text') = Len(q.text) + 1 /\ Len(q.text) \in Nat
    <3>1. <<bl>> \in Seq(Line)
      BY <1>8, Instructions
    <3>2. Len(q.text \o <<bl>>) = Len(q.text) + Len(<<bl>>)
      BY <2>1, <3>1, ConcatProperties
    <3>3. Len(q.text) \in Nat /\ Len(<<bl>>) = 1
      BY <2>1, LenProperties
    <3> QED BY <2>1, <3>2, <3>3
  <2>3. 4 * Len(text') + tail' <= MemorySize
    BY DEF Sound, Apart
  <2>4. /\ MemoryBegin \in Nat /\ MemorySize \in Nat /\ tail \in Nat /\ tail' \in Nat
        /\ MemorySize < BranchSpan \div 2 /\ BranchSpan \in Nat
        /\ at = MemoryBegin + MemorySize - tail'
    BY <1>3, CompilerAssumption DEF BlockInv, RealMachine, at, Down
  <2>5. from \in Int /\ InReach(from, at)
    <3> DEFINE half == BranchSpan \div 2
    <3>1. half \in Int
      BY <2>4
    <3>2. from \in Int /\ at \in Int /\ 0 <= at - from /\ at - from <= MemorySize
      BY <2>2, <2>3, <2>4
    <3>3. InReach(from, at) <=> at - from \in -half .. half - 1
      BY DEF InReach
    <3> HIDE DEF half, from
    <3>4. MemorySize < half
      BY <2>4 DEF half
    <3> QED BY <2>4, <3>1, <3>2, <3>3, <3>4
  <2>6. BranchTo(from, at) = at
    BY <1>4, <2>5, BranchReaches
  <2> QED BY <2>6 DEF bl, Bl
<1> HIDE DEF at
<1> HIDE DEF bl
<1>10. l \in Extensions(Here)
  BY <1>2, <1>8, <1>6, Instructions, Emitting
<1>11. Sound' => l = Emit(ImmediateLoad(Here, 15, at), <<[op |-> "bl", target |-> at]>>)
  BY <1>7, <1>9
<1> HIDE DEF l
<1>12. DoesCode(l)
  <2> SUFFICES ASSUME Sound', NEW F, NEW D, Within(F, Here, l), Keeps(D, data'),
                      NEW s \in Machines(Addresses), Agrees(Here, s)
               PROVE  Leaves(F, D, Addresses, Here, s, l, Written(s.memory, c))
    BY DEF DoesCode, Does
  <2>1. D[at] = Routine(c.routine)
    BY <1>4 DEF Keeps, block
  <2> HIDE DEF c
  <2> QED BY <1>2, <1>4, <1>11, <2>1, ExecuteDone
<1> QED BY <1>1, <1>2, <1>4, <1>10, <1>12, RightOn DEF Writing, Proceed, c

\* 20 and 28.
LEMMA TestOn ==
  ASSUME RealMachine, CodesBehave, TextInv, Sound, Right, Handle2028
  PROVE  Right'
<1> SUFFICES ASSUME NEW m \in Memories, NEW F, NEW D, Completes(F)', Keeps(D, data')
             PROVE  Follows(F, D, m)'
  BY DEF Right
<1>1. Completes(F)
  BY OpeningCompletes
<1>2. Keeps(D, data)
  BY DEF Handle2028
<1>3. Follows(F, D, m)
  BY <1>1, <1>2 DEF Right
<1> QED BY <1>3, OpeningOn

\* E0.
LEMMA EndOn ==
  ASSUME RealMachine, TextInv, Sound', Right, HandleE0
  PROVE  Right'
<1> SUFFICES ASSUME NEW m \in Memories, NEW F, NEW D, Completes(F)', Keeps(D, data')
             PROVE  Follows(F, D, m)'
  BY DEF Right
<1>1. Len(text') <= BranchReach
  BY DEF Sound
<1>2. Completes(F)
  BY <1>1, ClosingCompletes
<1>3. Keeps(D, data)
  BY DEF HandleE0
<1>4. Follows(F, D, m)
  BY <1>2, <1>3 DEF Right
<1> QED BY <1>1, <1>4, ClosingOn

\* A step that leaves the function and its blocks, or adds a routine.
LEMMA PatchOn ==
  ASSUME TextInv, Right, NEW ops, Compiling(ops), Code.op \in Patching,
         UNCHANGED <<list, text, known, open>>, Keeps(data', data)
  PROVE  Right'
<1> SUFFICES ASSUME NEW m \in Memories, NEW F, NEW D, Completes(F)', Keeps(D, data')
             PROVE  Follows(F, D, m)'
  BY DEF Right
<1>1. Completes(F)
  BY DEF Completes, Target
<1>2. Keeps(D, data)
  BY DEF Keeps
<1>3. Follows(F, D, m)
  BY <1>1, <1>2 DEF Right
<1> QED BY <1>3, PatchingOn

\* The prologue, before which nothing has been emitted.
LEMMA BeginOn ==
  ASSUME RealMachine, TextInv, TextInv', BeginCodeList, text = <<>>, known = <<>>, open = <<>>, pos = 0
  PROVE  Right'
<1>1. Prologue \in Seq(Instruction) /\ Prologue \in Seq(Line) /\ Len(Prologue) = 5
  <2>1. Len(Prologue) = 5
    BY DEF Prologue
  <2> QED BY <2>1, ProloguesTyped, Instructions
<1>2. text' = Prologue /\ known' = <<>> /\ UNCHANGED <<list, pos, open>>
  <2>1. /\ text' = Emit(Here, Prologue).text /\ known' = Emit(Here, Prologue).known
        /\ UNCHANGED <<list, pos, open>>
    BY DEF BeginCodeList, Proceed
  <2>2. Emit(Here, Prologue).text = text \o Prologue /\ Emit(Here, Prologue).known = known
    BY DEF Emit, Here
  <2>3. <<>> \o Prologue = Prologue
    BY <1>1, ConcatEmptySeq
  <2> QED BY <2>1, <2>2, <2>3
<1> SUFFICES ASSUME NEW m \in Memories, NEW F, NEW D, Completes(F)', Keeps(D, data')
             PROVE  Follows(F, D, m)'
  BY DEF Right
<1>3. \A n \in 1 .. 5 : F[n] = Prologue[n]
  <2> TAKE n \in 1 .. 5
  <2>1. n \in DOMAIN text' /\ text'[n] = Prologue[n] /\ Prologue[n] \in Instruction
    BY <1>1, <1>2, LenProperties
  <2>2. text'[n] # Garbage
    BY <2>1, Instructions
  <2> QED BY <2>1, <2>2 DEF Completes
<1>4. m \in [Cells -> Bytes]
  BY DEF RealMachine
<1>5. PICK u \in Machines(Addresses) :
        /\ Reaches(F, D, 0, Machine(m), 5, u)
        /\ u.reg[1] = Stack - 32 /\ Kept(u.memory) /\ Same(u.memory, m)
  BY <1>3, <1>4, PrologueRuns
<1>6. PICK v : v = [memory |-> m, skipped |-> 0]
  OBVIOUS
<1>7. Means(list', m, pos', v)
  BY <1>2, <1>6, MeansNothing
<1>8. v \in States /\ v.memory = m /\ v.skipped = 0
  BY <1>4, <1>6 DEF States
<1>9. Alike(u.memory, v.memory)
  <2>1. u.memory \in [Addresses -> Bytes]
    BY DEF Machines, Bytes
  <2> QED BY <1>4, <1>5, <1>8, <2>1 DEF Alike
<1>10. Agrees(Here', u)
  BY <1>2 DEF Here, Agrees
<1>11. Level(F, u, 0, v)'
  BY <1>5, <1>8, <1>9, <1>10 DEF Level
<1>12. Reaches(F, D, 0, Machine(m), Len(text'), Skipping(u, 0))
  BY <1>1, <1>2, <1>5, SkipsOne
<1> QED BY <1>7, <1>11, <1>12 DEF Follows

\* Blocks are opened and closed as the list has it.
LEMMA DeepOn ==
  ASSUME TextInv, NEW ops, Compiling(ops), list' = list, Deep(list, pos, Len(open)),
         Len(open') = Len(open) + Change(Code)
  PROVE  Deep(list', pos', Len(open'))
<1>1. pos \in Nat /\ pos' = pos + 1 /\ Code = list[pos + 1]
  BY DEF TextInv, Compiling, Code
<1>2. Deep(list, pos + 1, Len(open) + Change(list[pos + 1]))
  BY <1>1, DeepMore
<1> QED BY <1>1, <1>2

\* What the caller sees of a machine that is in order.
LEMMA Sees ==
  ASSUME NEW s \in Machines(Addresses), NEW m \in [Cells -> Bytes], NEW g, Same(s.memory, g),
         g \in [Cells -> Bytes]
  PROVE  Observed(s, m) = [returned |-> TRUE, memory |-> g,
                           reg |-> [r \in {1, 14, 15} |-> s.reg[r]]]
<1>1. s.ok = TRUE
  BY DEF Machines
<1>2. [c \in DOMAIN m |-> s.memory[c]] = g
  <2>1. DOMAIN m = Cells /\ DOMAIN g = Cells
    OBVIOUS
  <2>2. \A c \in Cells : [x \in DOMAIN m |-> s.memory[x]][c] = g[c]
    BY <2>1 DEF Same
  <2> DEFINE f == [c \in DOMAIN m |-> s.memory[c]]
  <2>3. f = [c \in Cells |-> f[c]] /\ g = [c \in Cells |-> g[c]]
    BY <2>1
  <2>4. [c \in Cells |-> f[c]] = [c \in Cells |-> g[c]]
    BY <2>2
  <2> QED BY <2>3, <2>4
<1> QED BY <1>1, <1>2 DEF Observed

\* With the epilogue the function is complete, and does what the list says.
LEMMA CompletedMeansList ==
  ASSUME RealMachine, TextInv, EndCodeList, Deep(list, pos, Len(open)), Right, Balanced(list),
         NEW m \in Memories
  PROVE  Observed(Run(text', data', m), m) =
           [Observed(Machine(m), m) EXCEPT !.memory = Meaning(list', m)]
<1>1. /\ pos = Len(list) /\ text' = text \o Epilogue /\ list' = list /\ data' = data
      /\ Len(list) \in Nat
  BY Lengths DEF EndCodeList
<1>2. Len(open) = 0 /\ DOMAIN open = {}
  <2>1. Depth(list, Len(list)) = Len(open)
    BY <1>1, DeepAll
  <2>2. Len(open) = 0
    BY <2>1 DEF Balanced
  <2> QED BY <2>2, Lengths
<1>3. PICK F, D : F = text' /\ D = data
  OBVIOUS
<1> DEFINE n == Len(text)
<1>4. /\ n \in Nat /\ DOMAIN text = 1 .. n /\ Len(F) = n + 6 /\ \A i \in 1 .. n : F[i] = text[i]
      /\ \A i \in 1 .. 6 : F[n + i] = Epilogue[i]
  <2>1. Epilogue \in Seq(Line) /\ text \in Seq(Line)
    BY ProloguesTyped, Instructions, Lengths
  <2>2. Len(Epilogue) = 6
    BY DEF Epilogue
  <2>3. n \in Nat /\ DOMAIN text = 1 .. n
    BY Lengths
  <2> HIDE DEF n
  <2>4. /\ Len(F) = n + 6
        /\ \A i \in 1 .. n + 6 : F[i] = IF i <= n THEN text[i] ELSE Epilogue[i - n]
    <3>1. F = text \o Epilogue
      BY <1>1, <1>3
    <3>2. /\ Len(F) = n + Len(Epilogue)
          /\ \A i \in 1 .. n + Len(Epilogue) : F[i] = IF i <= n THEN text[i] ELSE Epilogue[i - n]
      BY <2>1, <3>1, ConcatProperties DEF n
    <3> QED BY <2>2, <3>2
  <2>5. \A i \in 1 .. n : i \in 1 .. n + 6 /\ i <= n
    BY <2>3
  <2>6. \A i \in 1 .. 6 : n + i \in 1 .. n + 6 /\ ~ n + i <= n /\ n + i - n = i
    BY <2>3
  <2> QED BY <2>3, <2>4, <2>5, <2>6
<1>5. Completes(F) /\ Keeps(D, data)
  BY <1>2, <1>3, <1>4 DEF Completes, Keeps
<1>6. PICK u, k, v : /\ Level(F, u, k, v) /\ Means(list, m, pos, v)
                     /\ Reaches(F, D, 0, Machine(m), Len(text), Skipping(u, k))
  BY <1>5 DEF Right, Follows
<1>7. /\ u \in Machines(Addresses) /\ u.reg[1] = Stack - 32 /\ Alike(u.memory, v.memory)
      /\ v \in States /\ k = 0
  <2>1. v.skipped \in Nat /\ (v.skipped > 0 => v.skipped <= Len(open))
    BY <1>6 DEF Level, States
  <2>2. v.skipped = 0
    BY <1>2, <2>1
  <2> QED BY <1>6, <2>2 DEF Level
<1> HIDE DEF n
<1>8. PICK t \in Machines(Addresses) :
        /\ Reaches(F, D, 0, Machine(m), n + 6, t) /\ t.memory = u.memory
        /\ t.reg[1] = Stack /\ t.reg[14] = Half + 14 /\ t.reg[15] = Half + 15
  <2>1. Reaches(F, D, 0, Machine(m), n, u)
    BY <1>6, <1>7, SkipsOne DEF n
  <2>2. Kept(u.memory)
    BY <1>7 DEF Alike
  <2>3. n \in Nat /\ Closes(F, n)
    BY <1>4 DEF Closes
  <2>4. u \in Machines(Addresses) /\ u.reg[1] = Stack - 32
    BY <1>7
  <2> QED BY <2>1, <2>2, <2>3, <2>4, EpilogueRuns
<1>9. Run(F, D, m) = t
  <2>1. Len(F) \in Nat /\ Reaches(F, D, 0, Machine(m), Len(F), t)
    BY <1>4, <1>8
  <2> QED BY <2>1, RunEnds
<1>10. Meaning(list, m) = v.memory
  BY <1>1, <1>6, MeansAll
<1>11. m \in [Cells -> Bytes] /\ v.memory \in [Cells -> Bytes] /\ Same(t.memory, v.memory)
  BY <1>7, <1>8 DEF RealMachine, Alike
<1>12. /\ Machine(m) \in Machines(Addresses) /\ Same(Machine(m).memory, m)
       /\ Machine(m).reg[1] = Stack /\ Machine(m).reg[14] = Half + 14
       /\ Machine(m).reg[15] = Half + 15
  BY <1>11, Started
<1>13. PICK s, regs : s = Machine(m) /\ regs = [r \in {1, 14, 15} |-> t.reg[r]]
  OBVIOUS
<1>14. [r \in {1, 14, 15} |-> s.reg[r]] = regs
  BY <1>8, <1>12, <1>13
<1>15. Observed(t, m) = [returned |-> TRUE, memory |-> v.memory, reg |-> regs]
  BY <1>11, <1>13, Sees
<1>16. Observed(s, m) = [returned |-> TRUE, memory |-> m, reg |-> regs]
  BY <1>11, <1>12, <1>13, <1>14, Sees
<1>17. [Observed(s, m) EXCEPT !.memory = v.memory] = Observed(t, m)
  <2>1. PICK b : b = TRUE
    OBVIOUS
  <2>2. ASSUME NEW x, NEW y
        PROVE  [[returned |-> b, memory |-> x, reg |-> regs] EXCEPT !.memory = y]
                 = [returned |-> b, memory |-> y, reg |-> regs]
    OBVIOUS
  <2>3. [Observed(s, m) EXCEPT !.memory = v.memory]
          = [[returned |-> b, memory |-> m, reg |-> regs] EXCEPT !.memory = v.memory]
    BY <1>16, <2>1
  <2>4. Observed(t, m) = [returned |-> b, memory |-> v.memory, reg |-> regs]
    BY <1>15, <2>1
  <2>5. [[returned |-> b, memory |-> m, reg |-> regs] EXCEPT !.memory = v.memory]
          = [returned |-> b, memory |-> v.memory, reg |-> regs]
    BY <2>2
  <2> QED BY <2>3, <2>4, <2>5
<1> QED BY <1>1, <1>3, <1>9, <1>10, <1>13, <1>17

\* CompiledMeansList says nothing before a function is done.  What holds until then is
\* that every way to complete the function makes the machine follow the list as far as it
\* has been compiled: at the same memory, with the registers holding what the compiler
\* knows of them, or skipping up to the end of the block that the list skips.
MeansInv ==
  /\ phase = "begin" => text = <<>> /\ known = <<>> /\ open = <<>> /\ pos = 0
  /\ phase = "compiling" => Deep(list, pos, Len(open))
  /\ phase = "compiling" /\ Sound => Right
  /\ CompiledMeansList

\* Nothing has been opened or closed before the first code.
LEMMA DeepNothing ==
  ASSUME NEW codes
  PROVE  Deep(codes, 0, 0)
<1> DEFINE U == [n \in {0} |-> 0]
<1>1. U[0] = 0 /\ \A n \in 1 .. 0 : U[n] = U[n - 1] + Change(codes[n])
  OBVIOUS
<1> HIDE DEF U
<1> QED BY <1>1 DEF Deep

\* A handler's step: what the invariant has to say of it.
LEMMA StepMeans ==
  ASSUME TextInv, TextInv', BlockInv, tail' \in Nat, tail <= tail', MeansInv,
         UNCHANGED <<list, dirty>>, NEW ops, Compiling(ops), phase' # "begin", phase' # "done",
         Len(open') = Len(open) + Change(Code), GoesOn
  PROVE  MeansInv'
<1>1. phase = "compiling"
  BY DEF Compiling
<1>2. Deep(list', pos', Len(open'))
  BY <1>1, DeepOn DEF MeansInv
<1>3. Sound' => Right'
  <2>1. Len(text) \in Nat /\ Len(text') \in Nat
    BY LenProperties DEF TextInv, Here, Emission
  <2>2. Sound' => Sound
    BY <2>1, SoundBefore DEF BlockInv, GoesOn
  <2> QED BY <1>1, <2>2 DEF MeansInv, GoesOn
<1>4. CompiledMeansList'
  BY DEF CompiledMeansList
<1> QED BY <1>2, <1>3, <1>4 DEF MeansInv

\* Every step keeps the machine at the list's heels.
LEMMA StepKeepsMeaning ==
  ASSUME RealMachine, CodesBehave, TextInv, TextInv', BlockInv, BlockInv', MeansInv, [Next]_vars
  PROVE  MeansInv'
<1>1. tail \in Nat /\ tail' \in Nat /\ Len(open) \in Nat /\ Len(text) \in Nat
  BY Lengths DEF BlockInv
<1>2. CASE BeginCodeList
  <2>1. text = <<>> /\ known = <<>> /\ open = <<>> /\ pos = 0 /\ UNCHANGED <<list, open, pos>>
        /\ phase' # "begin" /\ phase' # "done"
    BY <1>2 DEF MeansInv, BeginCodeList, Proceed
  <2>2. Right'
    BY <1>2, <2>1, BeginOn
  <2>3. Deep(list', pos', Len(open'))
    <3>1. Len(open') = 0
      BY <2>1
    <3> QED BY <2>1, <3>1, DeepNothing
  <2> QED BY <2>1, <2>2, <2>3 DEF MeansInv, CompiledMeansList
\* Codes that write.
<1>3. ASSUME NEW ops \in SUBSET Writing, Compiling(ops), GoesOn, tail <= tail',
             UNCHANGED <<list, dirty, open>>, phase' # "begin", phase' # "done"
      PROVE  MeansInv'
  <2>1. Code.op \in Writing
    BY <1>3 DEF Compiling
  <2>2. Len(open') = Len(open) + Change(Code)
    BY <1>1, <1>3, <2>1 DEF Change, Writing, Conditional
  <2> QED BY <1>1, <1>3, <2>2, StepMeans
<1>4. CASE Handle0002
  <2>1. Compiling({"fill"}) /\ tail' = tail /\ UNCHANGED <<list, dirty, open>>
        /\ phase' # "begin" /\ phase' # "done"
    BY <1>4 DEF Handle0002, Proceed
  <2> QED BY <1>1, <1>3, <1>4, <2>1, FillOn DEF Writing
<1>5. CASE Handle04
  <2>1. Compiling({"write"}) /\ tail' = tail /\ UNCHANGED <<list, dirty, open>>
        /\ phase' # "begin" /\ phase' # "done"
    BY <1>5 DEF Handle04, Proceed
  <2> QED BY <1>1, <1>3, <1>5, <2>1, WriteOn DEF Writing
<1>6. CASE Handle06
  <2>1. Compiling({"copy"}) /\ UNCHANGED <<list, dirty, open>>
        /\ phase' # "begin" /\ phase' # "done"
        /\ (tail' = tail \/ tail' = tail + Len(Code.bytes))
    BY <1>6 DEF Handle06, Proceed
  <2>2. Len(Code.bytes) \in Nat
    BY <2>1, CodeOfList
  <2>3. tail <= tail'
    BY <1>1, <2>1, <2>2
  <2> QED BY <1>3, <1>6, <2>1, <2>3, CopyOn DEF Writing
<1>7. CASE Handle08
  <2>1. Compiling({"serial"}) /\ tail' = tail /\ UNCHANGED <<list, dirty, open>>
        /\ phase' # "begin" /\ phase' # "done"
    BY <1>7 DEF Handle08, Proceed
  <2> QED BY <1>1, <1>3, <1>7, <2>1, SerialOn DEF Writing
<1>8. CASE Handle2028
  <2>1. Compiling(Conditional) /\ tail' = tail /\ UNCHANGED <<list, dirty>>
        /\ phase' # "begin" /\ phase' # "done"
    BY <1>8 DEF Handle2028, Proceed
  <2>2. Len(open') = Len(open) + 1 /\ Len(text) <= Len(text')
    BY <1>1, <1>8, OpeningLines
  <2>3. Change(Code) = 1
    BY <2>1 DEF Compiling, Change
  <2>4. GoesOn
    <3>1. Sound' => Sound
      <4>1. Len(text') \in Nat
        BY LenProperties DEF TextInv, Here, Emission
      <4> QED BY <1>1, <2>1, <2>2, <4>1, SoundBefore
    <3> QED BY <1>8, <2>2, <3>1, TestOn DEF GoesOn
  <2> QED BY <1>1, <2>1, <2>2, <2>3, <2>4, StepMeans
<1>9. CASE HandleC0
  <2>1. Compiling({"execute"}) /\ UNCHANGED <<list, dirty, open>>
        /\ phase' # "begin" /\ phase' # "done" /\ tail' = tail + 8 * Code.routine.lines
    BY <1>9 DEF HandleC0, Proceed
  <2>2. Code.routine.lines \in Nat
    BY <2>1, CodeOfList
  <2>3. tail <= tail'
    BY <1>1, <2>1, <2>2
  <2> QED BY <1>3, <1>9, <2>1, <2>3, ExecuteOn DEF Writing
\* Codes that patch.
<1>10. ASSUME NEW ops \in SUBSET Patching, Compiling(ops), Keeps(data', data), tail <= tail',
              UNCHANGED <<list, text, known, open, dirty>>, phase' # "begin", phase' # "done"
       PROVE  MeansInv'
  <2>1. Code.op \in Patching
    BY <1>10 DEF Compiling
  <2>2. Len(open') = Len(open) + Change(Code)
    BY <1>1, <1>10, <2>1 DEF Change, Patching, Conditional
  <2>3. GoesOn
    BY <1>1, <1>10, <2>1, PatchOn DEF GoesOn
  <2> QED BY <1>1, <1>10, <2>2, <2>3, StepMeans
<1>11. CASE HandleC2
  <2> DEFINE size == 8 * Code.routine.lines
  <2>1. PICK back : data' = With(data, Down - size, [Routine(Code.routine) EXCEPT !.back = back])
    BY <1>11 DEF HandleC2
  <2>2. Compiling({"inject"}) /\ UNCHANGED <<list, text, known, open, dirty>>
        /\ phase' # "begin" /\ phase' # "done" /\ tail' = tail + size
    BY <1>11 DEF HandleC2, Proceed, Here
  <2>3. size \in Nat \ {0}
    BY <2>2, CodeOfList
  <2> DEFINE block == [Routine(Code.routine) EXCEPT !.back = back]
  <2>4. block.size = size
    BY DEF Routine
  <2> HIDE DEF block, size
  <2>5. Keeps(data', data)
    BY <2>1, <2>2, <2>3, <2>4, PlacingKeepsApart DEF Keeps, block
  <2>6. tail <= tail'
    BY <1>1, <2>2, <2>3
  <2> QED BY <1>10, <2>2, <2>5, <2>6 DEF Patching
<1>12. CASE HandleC6
  <2>1. Compiling({"branch"}) /\ UNCHANGED <<list, text, known, open, dirty, data>>
        /\ phase' # "begin" /\ phase' # "done" /\ tail' = tail
    BY <1>12 DEF HandleC6, Proceed, Here
  <2> QED BY <1>1, <1>10, <2>1 DEF Patching, Keeps
<1>13. CASE HandleE0
  <2>1. Compiling({"endif"}) /\ tail' = tail /\ UNCHANGED <<list, dirty>>
        /\ phase' # "begin" /\ phase' # "done"
    BY <1>13 DEF HandleE0, Proceed
  <2>2. Len(open') = Len(open) - 1 /\ Len(text) <= Len(text')
    BY <1>1, <1>13, ClosingLines
  <2>3. Change(Code) = -1
    BY <2>1 DEF Compiling, Change, Conditional
  <2>4. GoesOn
    BY <1>13, <2>2, EndOn DEF GoesOn
  <2> QED BY <1>1, <2>1, <2>2, <2>3, <2>4, StepMeans
<1>14. CASE Unmatched \/ Unknown
  <2>1. phase' # "begin" /\ phase' # "compiling" /\ phase' # "done"
    BY <1>14 DEF Unmatched, Unknown
  <2> QED BY <2>1 DEF MeansInv, CompiledMeansList
<1>15. CASE EndCodeList
  <2>1. phase = "compiling" /\ phase' # "begin" /\ phase' # "compiling"
        /\ UNCHANGED <<list, dirty, tail>> /\ text' = text \o Epilogue
    BY <1>15 DEF EndCodeList
  <2>2. Len(text') \in Nat /\ Len(text) <= Len(text')
    <3>1. text \in Seq(Line) /\ Epilogue \in Seq(Line) /\ text' \in Seq(Line)
      BY Lengths, ProloguesTyped, Instructions DEF TextInv, Here, Emission
    <3>2. Len(text') = Len(text) + Len(Epilogue) /\ Len(Epilogue) \in Nat /\ Len(text') \in Nat
      BY <2>1, <3>1, ConcatProperties, LenProperties
    <3> QED BY <1>1, <3>2
  <2>3. CompiledMeansList'
    <3> SUFFICES ASSUME Balanced(list'), Sound', NEW m \in Memories
                 PROVE  Observed(Run(text', data', m), m) =
                          [Observed(Machine(m), m) EXCEPT !.memory = Meaning(list', m)]
      BY DEF CompiledMeansList, Sound
    <3>1. Sound
      BY <1>1, <2>1, <2>2, SoundBefore
    <3>2. Right /\ Deep(list, pos, Len(open)) /\ Balanced(list)
      BY <2>1, <3>1 DEF MeansInv
    <3> QED BY <1>15, <3>2, CompletedMeansList
  <2> QED BY <2>1, <2>3 DEF MeansInv
<1>16. CASE UNCHANGED vars
  <2>1. /\ UNCHANGED <<list, pos, phase, text, known, open, data, tail, dirty>>
        /\ Len(text') = Len(text) /\ Here' = Here
    BY <1>16 DEF vars, Here
  <2>2. Sound' <=> Sound
    BY <2>1 DEF Sound, Apart, WholeArrays, AlignedArrays, Comparable
  <2>3. ASSUME NEW F, NEW D, NEW m, Completes(F) => Follows(F, D, m)
        PROVE  Completes(F)' => Follows(F, D, m)'
    <3>1. Completes(F)' => Completes(F)
      BY <2>1 DEF Completes
    <3>2. ASSUME NEW u, NEW k, NEW v, Level(F, u, k, v) PROVE Level(F, u, k, v)'
      BY <2>1, <3>2 DEF Level
    <3> QED BY <2>1, <2>3, <3>1, <3>2 DEF Follows
  <2>4. Right => Right'
    BY <2>1, <2>3 DEF Right
  <2>5. CompiledMeansList'
    BY <2>1, <2>2 DEF MeansInv, CompiledMeansList, Sound
  <2> QED BY <2>1, <2>2, <2>4, <2>5 DEF MeansInv
<1> QED BY <1>2, <1>4, <1>5, <1>6, <1>7, <1>8, <1>9, <1>11, <1>12, <1>13, <1>14, <1>15, <1>16 DEF Next

\* Before the prologue there is nothing to say.
LEMMA InitMeans == Init => MeansInv
BY DEF Init, MeansInv, CompiledMeansList

\* The compiler is correct (GeckoCompiler!CompiledMeansList): for every list, every memory,
\* every place of the function and either filling of it, when the function has been compiled
\* and the list is one of those that the property is about, running it does to the memory
\* what the codes say, one after the other, returns, and gives the caller its registers back.
\* Of the machine it takes that it has the real widths, and of the codes that they work on
\* memory other than the function's stack frame.
THEOREM CompilerCorrect ==
  ASSUME RealMachine, CodesBehave
  PROVE  Spec => []CompiledMeansList
<1>1. MeansInv => CompiledMeansList
  BY DEF MeansInv
<1>2. TextInv /\ BlockInv /\ [Next]_vars => TextInv'
  BY StepKeepsText DEF BlockInv
<1>3. TextInv /\ TextInv' /\ BlockInv /\ BlockInv' /\ MeansInv /\ [Next]_vars => MeansInv'
  BY StepKeepsMeaning
<1> QED BY <1>1, <1>2, <1>3, InitText, InitBlocks, InitMeans, StepKeepsBlocks, PTL DEF Spec
=============================================================================

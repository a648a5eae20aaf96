------------------------------- MODULE KxeProofs -------------------------------
(***************************************************************************)
(* A module on its way from the ELF object to the console's memory.  The   *)
(* loader, whatever the files: first the relocations it applies, on the    *)
(* real widths and for every address; then what it holds of the module     *)
(* heap, and what it has linked.  Behind it the converter, whatever the    *)
(* object, together with the loading of what it wrote.                     *)
(***************************************************************************)
EXTENDS KxeLoader, Converter, ListLemmas, FiniteSetTheorems, TLAPS

\* A word is its high half and its low half.
LEMMA Halves ==
  ASSUME Half = 65536, NEW s \in Nat, s < 65536 * 65536
  PROVE  /\ s \div Half \in Nat /\ s \div Half < 65536
         /\ s % Half \in Nat /\ s % Half < 65536
         /\ s = (s \div Half) * 65536 + (s % Half)
BY SMT

\* R_PPC_ADDR16_HA with R_PPC_ADDR16_LO: loading the adjusted high half and adding
\* the signed low half gives back the address, the carry out of the high half and
\* the wrap-around at the top of memory included.
THEOREM HighAdjustedIsRight ==
  ASSUME Half = 65536, NEW s \in Nat, s < 65536 * 65536
  PROVE  Displaced(HighAdjusted(s), s % Half) = s
<1> DEFINE h == s \div Half
           l == s % Half
<1>1. h \in Nat /\ h < 65536 /\ l \in Nat /\ l < 65536 /\ s = h * 65536 + l
  BY Halves
<1>2. Full = (65536 * 65536)
  BY DEF Full
<1>3. HighAdjusted(s) = (h + (IF l >= 32768 THEN 1 ELSE 0)) % 65536
  BY DEF HighAdjusted
<1>4. Signed(l, Half) = IF l >= 32768 THEN l - 65536 ELSE l
  BY DEF Signed
<1> HIDE DEF h, l
<1>5. CASE l < 32768
  <2>1. HighAdjusted(s) = h /\ Signed(l, Half) = l
    BY <1>1, <1>3, <1>4, <1>5
  <2>2. Displaced(HighAdjusted(s), l) = (h * 65536 + l) % (65536 * 65536)
    BY <1>2, <2>1 DEF Displaced
  <2> QED BY <1>1, <2>2 DEF l
<1>6. CASE l >= 32768 /\ h < 65535
  <2>1. HighAdjusted(s) = h + 1 /\ Signed(l, Half) = l - 65536
    BY <1>1, <1>3, <1>4, <1>6
  <2>2. Displaced(HighAdjusted(s), l) = ((h + 1) * 65536 + (l - 65536)) % (65536 * 65536)
    BY <1>2, <2>1 DEF Displaced
  <2> QED BY <1>1, <2>2 DEF l
<1>7. CASE l >= 32768 /\ h = 65535
  <2>1. HighAdjusted(s) = 0 /\ Signed(l, Half) = l - 65536
    BY <1>1, <1>3, <1>4, <1>7
  <2>2. Displaced(HighAdjusted(s), l) = (0 * 65536 + (l - 65536)) % (65536 * 65536)
    BY <1>2, <2>1 DEF Displaced
  <2> QED BY <1>1, <1>7, <2>2 DEF l
<1> QED BY <1>1, <1>5, <1>6, <1>7

\* The trampoline of an EMB_SDA21 relocation loads the plain high half: it is right
\* for the addresses whose low half is not negative, and for no others.
THEOREM TrampolineOnlyLowHalf ==
  ASSUME Half = 65536, NEW s \in Nat, s < 65536 * 65536, NEW affected, NEW pad
  PROVE  LET t == Trampoline(s, affected, pad)
         IN  Displaced(t.lis, t.displacement) = s
               <=> s % Half < 32768
<1> DEFINE h == s \div Half
           l == s % Half
<1>1. h \in Nat /\ h < 65536 /\ l \in Nat /\ l < 65536 /\ s = h * 65536 + l
  BY Halves
<1>2. Full = (65536 * 65536)
  BY DEF Full
<1>3. /\ Trampoline(s, affected, pad).lis = h
      /\ Trampoline(s, affected, pad).displacement = l
  BY DEF Trampoline
<1>4. Signed(l, Half) = IF l >= 32768 THEN l - 65536 ELSE l
  BY DEF Signed
<1> HIDE DEF h, l
<1>5. Displaced(h, l) = (h * 65536 + Signed(l, Half)) % (65536 * 65536)
  BY <1>2 DEF Displaced
<1>6. CASE l < 32768
  <2>1. (h * 65536 + l) % (65536 * 65536) = s
    BY <1>1
  <2> QED BY <1>1, <1>3, <1>4, <1>5, <1>6, <2>1 DEF l
<1>7. CASE l >= 32768
  <2>1. (h * 65536 + (l - 65536)) % (65536 * 65536) # s
    BY <1>1, <1>7
  <2> QED BY <1>1, <1>3, <1>4, <1>5, <1>7, <2>1 DEF l
<1> QED BY <1>1, <1>6, <1>7

\* The widths of the processor, as they are in the code.
RealWidths == Half = 65536 /\ Reach = 1024 * 65536 /\ Branch = 18432 * 65536

IsWord(w) == w \in Nat /\ w < 65536 * 65536

-----------------------------------------------------------------------------
\* A branch field takes the word-aligned part of the value, and leaves the opcode
\* above it and the two lowest bits alone: the 24-bit field of an I-form branch ...
LEMMA LongField ==
  ASSUME RealWidths, NEW w, IsWord(w), NEW v \in Int
  PROVE  /\ IsWord(Field(w, v, Reach))
         /\ Field(w, v, Reach) % 4 = w % 4
         /\ Field(w, v, Reach) \div Reach = w \div Reach
         /\ v % 4 = 0 => (Field(w, v, Reach) % Reach) - (w % 4) = v % Reach
<1> DEFINE h == w \div (1024 * 65536)
           b == w % 4
           g == v % (1024 * 65536)
           f == g \div 4
           n == h * (1024 * 65536) + f * 4 + b
<1>1. Reach = 1024 * 65536 /\ Field(w, v, Reach) = n
  BY SMT DEF RealWidths, Field
<1>2. h \in Nat /\ h < 64
  BY SMT DEF IsWord
<1>3. b \in Nat /\ b < 4
  BY SMT DEF IsWord
<1>4. f \in Nat /\ f < 1024 * 16384
  BY SMT
<1>5. v % 4 = 0 => f * 4 = g
  BY SMT
<1>6. g \in Nat
  BY SMT
<1> HIDE DEF h, b, f, g
<1>7. /\ n \in Nat /\ n < 65536 * 65536 /\ n % 4 = b
      /\ n % (1024 * 65536) = f * 4 + b /\ n \div (1024 * 65536) = h
  BY <1>2, <1>3, <1>4, SMT
<1> HIDE DEF n
<1>8. (f * 4 + b) - b = f * 4
  BY <1>3, <1>4, SMT
<1>9. /\ IsWord(n) /\ n % 4 = b /\ n \div (1024 * 65536) = h
      /\ v % 4 = 0 => (n % (1024 * 65536)) - b = g
  BY <1>2, <1>3, <1>4, <1>5, <1>6, <1>7, <1>8, SMT DEF IsWord
<1> QED BY <1>1, <1>9 DEF h, b, g

\* ... and the 14-bit field of a conditional one.
LEMMA ShortField ==
  ASSUME RealWidths, NEW w, IsWord(w), NEW v \in Int
  PROVE  /\ IsWord(Field(w, v, Half))
         /\ Field(w, v, Half) % 4 = w % 4
         /\ Field(w, v, Half) \div Half = w \div Half
         /\ v % 4 = 0 => (Field(w, v, Half) % Half) - (w % 4) = v % Half
<1> DEFINE h == w \div 65536
           b == w % 4
           g == v % 65536
           f == g \div 4
           n == h * 65536 + f * 4 + b
<1>1. Half = 65536 /\ Field(w, v, Half) = n
  BY SMT DEF RealWidths, Field
<1>2. h \in Nat /\ h < 65536
  BY SMT DEF IsWord
<1>3. b \in Nat /\ b < 4
  BY SMT DEF IsWord
<1>4. f \in Nat /\ f < 16384
  BY SMT
<1>5. v % 4 = 0 => f * 4 = g
  BY SMT
<1>6. g \in Nat
  BY SMT
<1> HIDE DEF h, b, f, g
<1>7. /\ n \in Nat /\ n < 65536 * 65536 /\ n % 4 = b
      /\ n % 65536 = f * 4 + b /\ n \div 65536 = h
  BY <1>2, <1>3, <1>4, SMT
<1> HIDE DEF n
<1>8. (f * 4 + b) - b = f * 4
  BY <1>3, <1>4, SMT
<1>9. /\ IsWord(n) /\ n % 4 = b /\ n \div 65536 = h
      /\ v % 4 = 0 => (n % 65536) - b = g
  BY <1>2, <1>3, <1>4, <1>5, <1>6, <1>7, <1>8, SMT DEF IsWord
<1> QED BY <1>1, <1>9 DEF h, b, g

\* Two halfwords make a word, and a word two halfwords.
LEMMA WordOfHalves ==
  ASSUME RealWidths, NEW x \in Nat, x < Half, NEW y \in Nat, y < Half
  PROVE  IsWord(x * Half + y)
<1>1. x * 65536 + y \in Nat /\ x * 65536 + y < 65536 * 65536
  BY SMT DEF RealWidths
<1> QED BY <1>1, SMT DEF IsWord, RealWidths

\* The halves of a word make it up again.
LEMMA HalvesOfWord ==
  ASSUME RealWidths, NEW w, IsWord(w)
  PROVE  /\ (w \div Half) % Half \in Nat /\ (w \div Half) % Half < Half
         /\ w % Half \in Nat /\ w % Half < Half
         /\ ((w \div Half) % Half) * Half + (w % Half) = w
<1> DEFINE a == w \div 65536
           b == w % 65536
<1>1. a \in Nat /\ a < 65536 /\ b \in Nat /\ b < 65536 /\ a * 65536 + b = w
  BY SMT DEF IsWord
<1>2. w \div Half = a /\ w % Half = b /\ Half = 65536
  BY SMT DEF RealWidths
<1> HIDE DEF a, b
<1>3. (w \div Half) % Half = a
  <2>1. a % 65536 = a
    BY <1>1, SMT
  <2> QED BY <1>2, <2>1
<1>4. a < Half /\ b < Half /\ a * Half + b = w
  BY <1>1, <1>2
<1> QED BY <1>1, <1>2, <1>3, <1>4

\* A branch of any length is a word.
LEMMA BranchIsWord ==
  ASSUME RealWidths, NEW d \in Int
  PROVE  IsWord(Branch + (d % Reach))
BY SMT DEF IsWord, RealWidths

\* Halfwords make words.
LEMMA HalfwordsTyped ==
  ASSUME RealWidths, NEW D, NEW img \in [D -> 0 .. Half - 1], NEW at \in Nat,
         at \div 2 \in D, (at \div 2) + 1 \in D
  PROVE  IsWord(WordAt(img, at))
<1> DEFINE i == at \div 2
           x == img[i]
           y == img[i + 1]
<1>1. i \in D /\ i + 1 \in D
  BY SMT
<1>2. x \in 0 .. Half - 1 /\ y \in 0 .. Half - 1 /\ WordAt(img, at) = x * Half + y
  BY <1>1, Zenon DEF WordAt
<1> HIDE DEF x, y
<1>3. x \in Nat /\ x < Half /\ y \in Nat /\ y < Half
  BY <1>2, WidthAssumption
<1> QED BY <1>2, <1>3, WordOfHalves

\* The word that was put is the word that is read, and no other halfword changed.
LEMMA PutThenRead ==
  ASSUME RealWidths, NEW D, NEW img \in [D -> 0 .. Half - 1], NEW at \in Nat,
         at \div 2 \in D, (at \div 2) + 1 \in D, NEW w, IsWord(w)
  PROVE  /\ PutWord(img, at, w) \in [D -> 0 .. Half - 1]
         /\ WordAt(PutWord(img, at, w), at) = w
         /\ \A n \in D \ {at \div 2, (at \div 2) + 1} : PutWord(img, at, w)[n] = img[n]
<1> DEFINE i == at \div 2
           high == (w \div Half) % Half
           low == w % Half
           c == PutWord(img, at, w)
<1>2. high \in 0 .. Half - 1 /\ low \in 0 .. Half - 1 /\ high * Half + low = w
  <2>1. high \in Nat /\ high < Half /\ low \in Nat /\ low < Half /\ high * Half + low = w
    BY HalvesOfWord
  <2> QED BY <2>1, WidthAssumption
<1>3. c = [img EXCEPT ![i] = high, ![i + 1] = low]
  BY DEF PutWord
<1>4. i # i + 1 /\ i \in D /\ i + 1 \in D
  BY SMT
<1> HIDE DEF high, low, i, c
<1>5. c \in [D -> 0 .. Half - 1] /\ c[i] = high /\ c[i + 1] = low
      /\ \A n \in D \ {i, i + 1} : c[n] = img[n]
  BY <1>2, <1>3, <1>4, Zenon
<1>6. WordAt(c, at) = (c[i] * Half) + c[i + 1]
  BY Zenon DEF WordAt, i
<1> QED BY <1>2, <1>5, <1>6, Zenon DEF c, i

\* The widths that follow from these.
LEMMA Widths ==
  ASSUME RealWidths
  PROVE  /\ Full = 65536 * 65536
         /\ Reach = 1024 * 65536 /\ Reach \div 2 = 512 * 65536
         /\ Half = 65536 /\ Half \div 2 = 32768
BY SMT DEF RealWidths, Full

\* A branch field holds the displacement to a source that is near enough: of 24 bits ...
LEMMA LongBranch ==
  ASSUME RealWidths, NEW s, IsWord(s), s % 4 = 0, NEW a \in Nat, a % 4 = 0,
         NEW d \in Int, -(Reach \div 2) <= d, d < Reach \div 2, (a + d) % Full = s,
         NEW low, low = (s - a) % Full
  PROVE  low \in Int /\ low % 4 = 0 /\ Signed(low % Reach, Reach) = d
<1>1. Full = 65536 * 65536 /\ Reach = 1024 * 65536 /\ Reach \div 2 = 512 * 65536
  BY Widths, SMT
<1>2. -(512 * 65536) <= d /\ d < 512 * 65536
  BY <1>1, SMT
<1>3. (a + d) % (65536 * 65536) = s /\ low = (s - a) % (65536 * 65536)
  BY <1>1, SMT
<1>4. low = d % (65536 * 65536) /\ low \in Int /\ low % 4 = 0
  BY <1>3, SMT DEF IsWord
<1>5. low % (1024 * 65536) = d % (1024 * 65536)
  BY <1>4, SMT
<1>6. (IF d % (1024 * 65536) >= 512 * 65536
       THEN (d % (1024 * 65536)) - 1024 * 65536 ELSE d % (1024 * 65536)) = d
  BY <1>2, SMT
<1>7. low % Reach = d % (1024 * 65536)
  BY <1>1, <1>5, SMT
<1>8. Signed(low % Reach, Reach) = d
  BY <1>1, <1>6, <1>7, SMT DEF Signed
<1> QED BY <1>4, <1>8, SMT

\* ... and of 14 bits.
LEMMA ShortBranch ==
  ASSUME RealWidths, NEW s, IsWord(s), s % 4 = 0, NEW a \in Nat, a % 4 = 0,
         NEW d \in Int, -(Half \div 2) <= d, d < Half \div 2, (a + d) % Full = s,
         NEW low, low = (s - a) % Full
  PROVE  low \in Int /\ low % 4 = 0 /\ Signed(low % Half, Half) = d
<1>1. Full = 65536 * 65536 /\ Half = 65536 /\ Half \div 2 = 32768
  BY Widths, SMT
<1>2. -(32768) <= d /\ d < 32768
  BY <1>1, SMT
<1>3. (a + d) % (65536 * 65536) = s /\ low = (s - a) % (65536 * 65536)
  BY <1>1, SMT
<1>4. low = d % (65536 * 65536) /\ low \in Int /\ low % 4 = 0
  BY <1>3, SMT DEF IsWord
<1>5. low % (65536) = d % (65536)
  BY <1>4, SMT
<1>6. (IF d % 65536 >= 32768 THEN (d % 65536) - 65536 ELSE d % 65536) = d
  BY <1>2, SMT
<1>7. low % Half = d % (65536)
  BY <1>1, <1>5, SMT
<1>8. Signed(low % Half, Half) = d
  BY <1>1, <1>6, <1>7, SMT DEF Signed
<1> QED BY <1>4, <1>8, SMT

-----------------------------------------------------------------------------
\* What is written is a word, and of a branch still the same instruction.
LEMMA WordWritten ==
  ASSUME RealWidths, NEW w, IsWord(w), NEW type \in BranchType \cup DataType,
         NEW s, IsWord(s), NEW a \in Nat,
         NEW n, n = NewWord(type, w, s, a)
  PROVE  /\ IsWord(n)
         /\ type \in {"ADDR24", "REL24"} => n \div Reach = w \div Reach
         /\ type \in {"ADDR14", "REL14"} => n \div Half = w \div Half
         /\ type \in BranchType => n % 4 = w % 4
<1> DEFINE low == (s - a) % Full
<1>1. s \in Int /\ low = (s - a) % (65536 * 65536)
  BY Widths, SMT DEF IsWord
<1>2. IsWord(low) /\ low \in Int
  BY <1>1, SMT DEF IsWord
<1> HIDE DEF low
<1>3. n = CASE type = "ADDR32" -> s
            [] type = "ADDR24" -> Field(w, s, Reach)
            [] type = "ADDR14" -> Field(w, s, Half)
            [] type = "REL24"  -> Field(w, low, Reach)
            [] type = "REL14"  -> Field(w, low, Half)
            [] type = "REL32"  -> low
  BY DEF NewWord, low
<1>4. CASE type \in {"ADDR24", "REL24"}
  <2> PICK v \in Int : n = Field(w, v, Reach)
    BY <1>1, <1>2, <1>3, <1>4
  <2> QED BY <1>4, LongField
<1>5. CASE type \in {"ADDR14", "REL14"}
  <2> PICK v \in Int : n = Field(w, v, Half)
    BY <1>1, <1>2, <1>3, <1>5
  <2> QED BY <1>5, ShortField
<1>6. CASE type \in {"ADDR32", "REL32"}
  <2>1. n = s \/ n = low
    BY <1>3, <1>6
  <2> QED BY <1>2, <1>6, <2>1 DEF BranchType
<1> QED BY <1>4, <1>5, <1>6 DEF BranchType, DataType

\* The words that are written: each denotes the source of its relocation.
LEMMA WordDenotes ==
  ASSUME RealWidths, NEW w, IsWord(w), NEW type \in BranchType \cup DataType,
         NEW s, IsWord(s), NEW a \in Nat, type \in BranchType => a % 4 = 0,
         Expressible(type, a, s),
         NEW n, n = NewWord(type, w, s, a)
  PROVE  /\ IsWord(n)
         /\ type = "ADDR32" => n = s
         /\ type = "REL32" => (a + n) % Full = s
         /\ type = "ADDR24" => Signed((n % Reach) - (n % 4), Reach) % Full = s
         /\ type = "ADDR14" => Signed((n % Half) - (n % 4), Half) % Full = s
         /\ type = "REL24" => Goes(n, a, Reach) = s
         /\ type = "REL14" => Goes(n, a, Half) = s
<1> DEFINE low == (s - a) % Full
<1>1. Full = 65536 * 65536 /\ s \in Int
  BY SMT DEF Full, RealWidths, IsWord
<1>2. low = (s - a) % (65536 * 65536)
  BY <1>1
<1>3. low \in Nat /\ low < 65536 * 65536
  BY <1>2, SMT DEF IsWord
<1> HIDE DEF low
<1>4. type \in BranchType => s % 4 = 0
  BY DEF Expressible
<1>5. CASE type = "ADDR32"
  BY <1>5 DEF NewWord, BranchType
<1>6. CASE type = "REL32"
  <2>1. n = low /\ IsWord(n)
    BY <1>3, <1>6 DEF NewWord, IsWord, low
  <2>2. (a + n) % (65536 * 65536) = s
    <3>1. n = (s - a) % (65536 * 65536)
      BY <1>2, <2>1
    <3> QED BY <3>1, SMT DEF IsWord
  <2> QED BY <1>1, <1>6, <2>1, <2>2
<1>7. CASE type = "ADDR24"
  <2>1. n = Field(w, s, Reach) /\ s % 4 = 0
    BY <1>4, <1>7 DEF NewWord, BranchType
  <2>2. /\ IsWord(n) /\ n % 4 = w % 4 /\ n \div Reach = w \div Reach
        /\ (n % Reach) - (w % 4) = s % Reach
    BY <1>1, <2>1, LongField
  <2>3. Signed(s % Reach, Reach) % Full = s
    BY <1>7 DEF Expressible
  <2> QED BY <1>7, <2>2, <2>3
<1>8. CASE type = "ADDR14"
  <2>1. n = Field(w, s, Half) /\ s % 4 = 0
    BY <1>4, <1>8 DEF NewWord, BranchType
  <2>2. /\ IsWord(n) /\ n % 4 = w % 4 /\ n \div Half = w \div Half
        /\ (n % Half) - (w % 4) = s % Half
    BY <1>1, <2>1, ShortField
  <2>3. Signed(s % Half, Half) % Full = s
    BY <1>8 DEF Expressible
  <2> QED BY <1>8, <2>2, <2>3
<1>9. CASE type = "REL24"
  <2>1. n = Field(w, low, Reach) /\ s % 4 = 0 /\ a % 4 = 0
    BY <1>4, <1>9 DEF NewWord, BranchType, low
  <2>2. PICK d \in -(Reach \div 2) .. Reach \div 2 - 1 : (a + d) % Full = s
    BY <1>9 DEF Expressible
  <2>6. d \in Int /\ -(Reach \div 2) <= d /\ d < Reach \div 2
    <3>1. Reach \div 2 \in Int
      BY WidthAssumption
    <3> QED BY <3>1
  <2>3. low \in Int /\ low % 4 = 0 /\ Signed(low % Reach, Reach) = d
    BY <2>1, <2>2, <2>6, LongBranch, SMT DEF low
  <2>4. /\ IsWord(n) /\ n % 4 = w % 4 /\ n \div Reach = w \div Reach
        /\ (n % Reach) - (w % 4) = low % Reach
    BY <2>1, <2>3, LongField, SMTT(30)
  <2>5. Goes(n, a, Reach) = s
    BY <2>2, <2>3, <2>4, SMT DEF Goes
  <2> QED BY <1>9, <2>4, <2>5, SMT
<1>10. CASE type = "REL14"
  <2>1. n = Field(w, low, Half) /\ s % 4 = 0 /\ a % 4 = 0
    BY <1>4, <1>10 DEF NewWord, BranchType, low
  <2>2. PICK d \in -(Half \div 2) .. Half \div 2 - 1 : (a + d) % Full = s
    BY <1>10 DEF Expressible
  <2>6. d \in Int /\ -(Half \div 2) <= d /\ d < Half \div 2
    <3>1. Half \div 2 \in Int
      BY WidthAssumption
    <3> QED BY <3>1
  <2>3. low \in Int /\ low % 4 = 0 /\ Signed(low % Half, Half) = d
    BY <2>1, <2>2, <2>6, ShortBranch, SMT DEF low
  <2>4. /\ IsWord(n) /\ n % 4 = w % 4 /\ n \div Half = w \div Half
        /\ (n % Half) - (w % 4) = low % Half
    BY <2>1, <2>3, ShortField, SMTT(30)
  <2>5. Goes(n, a, Half) = s
    BY <2>2, <2>3, <2>4, SMT DEF Goes
  <2> QED BY <1>10, <2>4, <2>5, SMT
<1> QED BY <1>5, <1>6, <1>7, <1>8, <1>9, <1>10 DEF BranchType, DataType

-----------------------------------------------------------------------------
\* A halfword that is written fits a halfword, and denotes its source.
LEMMA HalfwordDenotes ==
  ASSUME RealWidths, NEW s, IsWord(s), NEW type \in HalfwordType,
         NEW h, h = Halfword(type, s)
  PROVE  /\ h \in 0 .. Half - 1
         /\ type \in {"ADDR16", "ADDR16_LO"} => ((s \div Half) * Half) + h = s
         /\ type = "ADDR16_HI" => (h * Half) + (s % Half) = s
         /\ type = "ADDR16_HA" => Displaced(h, s % Half) = s
<1>1. Half = 65536 /\ s \in Nat /\ s < 65536 * 65536
  BY SMT DEF RealWidths, IsWord
<1>2. /\ s \div Half \in Nat /\ s \div Half < 65536
      /\ s % Half \in Nat /\ s % Half < 65536
      /\ s = (s \div Half) * 65536 + (s % Half)
  BY <1>1, Halves
<1>3. HighAdjusted(s) \in Nat /\ HighAdjusted(s) < 65536
  BY <1>1, <1>2, SMT DEF HighAdjusted
<1>4. Displaced(HighAdjusted(s), s % Half) = s
  BY <1>1, HighAdjustedIsRight
<1>5. /\ type \in {"ADDR16", "ADDR16_LO"} => h = s % Half
      /\ type = "ADDR16_HI" => h = s \div Half
      /\ type = "ADDR16_HA" => h = HighAdjusted(s)
  BY DEF Halfword, HalfwordType
<1>6. h \in Nat /\ h < Half
  BY <1>1, <1>2, <1>3, <1>5, SMT DEF HalfwordType
<1>7. h \in 0 .. Half - 1
  BY <1>6, WidthAssumption
<1>8. ((s \div Half) * Half) + (s % Half) = s
  BY <1>1, <1>2, SMT
<1> QED BY <1>4, <1>5, <1>7, <1>8, Zenon

\* Code d is code c, halfwords indexed by D, but for the places P.
SameBut(P, D, c, d) ==
  /\ d \in [D -> 0 .. Half - 1]
  /\ \A n \in D \ P : d[n] = c[n]

\* A relocation writes halfwords, and those at its place only.
LEMMA ApplyTouches ==
  ASSUME RealWidths, NEW D, NEW img \in [D -> 0 .. Half - 1], NEW type \in Types,
         NEW at \in Nat, Places(type, at) \subseteq D, NEW a \in Nat,
         NEW s, IsWord(s), NEW pad \in Nat,
         NEW c, c = Apply(img, type, at, a, s, pad)
  PROVE  SameBut(Places(type, at), D, img, c)
<1> USE DEF SameBut
<1>1. CASE type = "NONE"
  BY <1>1 DEF Apply, HalfwordType, SdaType
<1>2. CASE type \in HalfwordType
  <2>1. Halfword(type, s) \in 0 .. Half - 1
    BY <1>2, HalfwordDenotes
  <2>2. Apply(img, type, at, a, s, pad) = [img EXCEPT ![at \div 2] = Halfword(type, s)]
    BY <1>2, Zenon DEF Apply, HalfwordType, SdaType
  <2>3. Places(type, at) = {at \div 2}
    BY <1>2, Zenon DEF Places, HalfwordType, BranchType, DataType, SdaType
  <2> QED BY <2>1, <2>2, <2>3, Zenon
<1>3. CASE type \in BranchType \cup DataType \cup {SdaType}
  <2>1. Places(type, at) = {at \div 2, (at \div 2) + 1}
    BY <1>3, Zenon DEF Places, HalfwordType, BranchType, DataType, SdaType
  <2>2. at \div 2 \in D /\ (at \div 2) + 1 \in D
    BY <2>1, Zenon
  <2>3. PICK w : IsWord(w) /\ Apply(img, type, at, a, s, pad) = PutWord(img, at, w)
    <3>1. CASE type = SdaType
      <4>1. Apply(img, type, at, a, s, pad)
              = PutWord(img, at, Branch + ((pad - a) % Reach))
        BY <3>1, Zenon DEF Apply, HalfwordType, SdaType
      <4>2. IsWord(Branch + ((pad - a) % Reach))
        BY BranchIsWord
      <4> QED BY <4>1, <4>2, Zenon
    <3>2. CASE type # SdaType
      <4>1. Apply(img, type, at, a, s, pad)
              = PutWord(img, at, NewWord(type, WordAt(img, at), s, a))
        BY <1>3, <3>2, Zenon DEF Apply, HalfwordType, BranchType, DataType, SdaType
      <4>2. IsWord(WordAt(img, at))
        BY <2>2, HalfwordsTyped
      <4>3. IsWord(NewWord(type, WordAt(img, at), s, a))
        BY <1>3, <3>2, <4>2, WordWritten
      <4> QED BY <4>1, <4>3, Zenon
    <3> QED BY <3>1, <3>2, Zenon
  <2>4. /\ PutWord(img, at, w) \in [D -> 0 .. Half - 1]
        /\ \A n \in D \ {at \div 2, (at \div 2) + 1} : PutWord(img, at, w)[n] = img[n]
    BY <2>2, <2>3, PutThenRead
  <2> QED BY <2>1, <2>3, <2>4, Zenon
<1> QED BY <1>1, <1>2, <1>3, Zenon DEF Types

\* Where a relocation of any linked type was applied, whatever the code was before,
\* the processor finds the address the relocation names, for every address that the
\* type can express; and a branch is still the same instruction.
THEOREM RelocationDenotes ==
  ASSUME RealWidths, NEW D, NEW img \in [D -> 0 .. Half - 1],
         NEW type \in HalfwordType \cup BranchType \cup DataType,
         NEW at \in Nat, Places(type, at) \subseteq D,
         NEW a \in Nat, type \in BranchType => a % 4 = 0,
         NEW s, IsWord(s), NEW pad,
         NEW c, c = Apply(img, type, at, a, s, pad)
  PROVE  /\ Expressible(type, a, s) => Denoted(c, type, at, a, s) = s
         /\ type \in {"ADDR24", "REL24"} =>
              WordAt(c, at) \div Reach = WordAt(img, at) \div Reach
         /\ type \in {"ADDR14", "REL14"} =>
              WordAt(c, at) \div Half = WordAt(img, at) \div Half
         /\ type \in BranchType => WordAt(c, at) % 4 = WordAt(img, at) % 4
<1>1. CASE type \in HalfwordType
  <2>1. c = [img EXCEPT ![at \div 2] = Halfword(type, s)]
    BY <1>1, Zenon DEF Apply, HalfwordType, SdaType
  <2>2. at \div 2 \in D
    BY <1>1, Zenon DEF Places, HalfwordType, BranchType, DataType, SdaType
  <2>3. c[at \div 2] = Halfword(type, s)
    BY <2>1, <2>2, Zenon
  <2>4. Denoted(c, type, at, a, s) = s
    BY <1>1, <2>3, HalfwordDenotes, Zenon DEF Denoted, HalfwordType
  <2> QED BY <1>1, <2>4, Zenon DEF HalfwordType, BranchType
<1>2. CASE type \in BranchType \cup DataType
  <2>1. at \div 2 \in D /\ (at \div 2) + 1 \in D
    BY <1>2, Zenon DEF Places, HalfwordType, BranchType, DataType, SdaType
  <2> DEFINE w == WordAt(img, at)
             n == NewWord(type, w, s, a)
  <2>2. c = PutWord(img, at, n)
    BY <1>2, Zenon DEF Apply, HalfwordType, BranchType, DataType, SdaType
  <2>3. IsWord(w)
    BY <2>1, HalfwordsTyped
  <2>4. /\ IsWord(n)
        /\ type \in {"ADDR24", "REL24"} => n \div Reach = w \div Reach
        /\ type \in {"ADDR14", "REL14"} => n \div Half = w \div Half
        /\ type \in BranchType => n % 4 = w % 4
    BY <1>2, <2>3, WordWritten
  <2>5. WordAt(c, at) = n
    BY <2>1, <2>2, <2>4, PutThenRead
  <2>6. ASSUME Expressible(type, a, s)
        PROVE  Denoted(c, type, at, a, s) = s
    <3>1. /\ type = "ADDR32" => n = s
          /\ type = "REL32" => (a + n) % Full = s
          /\ type = "ADDR24" => Signed((n % Reach) - (n % 4), Reach) % Full = s
          /\ type = "ADDR14" => Signed((n % Half) - (n % 4), Half) % Full = s
          /\ type = "REL24" => Goes(n, a, Reach) = s
          /\ type = "REL14" => Goes(n, a, Half) = s
      BY <1>2, <2>3, <2>6, WordDenotes
    <3> HIDE DEF n
    <3> QED BY <1>2, <2>5, <3>1, Zenon DEF Denoted, BranchType, DataType
  <2> QED BY <2>4, <2>5, <2>6, Zenon
<1> QED BY <1>1, <1>2

\* A branch that is laid reaches what is near enough.
LEMMA BranchReaches ==
  ASSUME RealWidths, NEW a \in Nat, NEW t \in Nat, t < Full, (t - a) % 4 = 0,
         -(Reach \div 2) <= t - a, t - a < Reach \div 2,
         NEW w, w = Branch + ((t - a) % Reach)
  PROVE  IsWord(w) /\ Goes(w, a, Reach) = t
<1>1. /\ Full = 65536 * 65536 /\ Reach = 1024 * 65536 /\ Reach \div 2 = 512 * 65536
      /\ Branch = 18432 * 65536
  BY Widths, SMT DEF RealWidths
<1> DEFINE d == t - a
           g == d % (1024 * 65536)
<1>2. d \in Int /\ d % 4 = 0 /\ -(512 * 65536) <= d /\ d < 512 * 65536 /\ a + d = t
  BY <1>1, SMT
<1>3. w = 18432 * 65536 + g
  BY <1>1, SMT
<1> HIDE DEF d
<1>4. g \in Nat /\ g < 1024 * 65536 /\ g % 4 = 0
  BY <1>2, SMT
<1>5. (IF g >= 512 * 65536 THEN g - 1024 * 65536 ELSE g) = d
  BY <1>2, SMT
<1> HIDE DEF g
<1>6. w \in Nat /\ w < 65536 * 65536 /\ w % (1024 * 65536) = g /\ w % 4 = 0
  BY <1>3, <1>4, SMT
<1>7. (w % Reach) - (w % 4) = g
  BY <1>1, <1>4, <1>6, SMT
<1>8. Signed(g, Reach) = d
  BY <1>1, <1>4, <1>5, SMT DEF Signed
<1>9. (a + d) % Full = t
  BY <1>1, <1>2, SMT
<1> QED BY <1>6, <1>7, <1>8, <1>9, SMT DEF Goes, IsWord
--------------------------------------------------------------------------------

\* Who owns which block, and where Load has reached with its pointers.
Owned ==
  /\ taken = ({ptr[p] : p \in Pointers} \ {Null})
               \cup {modules[m].data : m \in DOMAIN modules}
  /\ \A p, q \in Pointers : p # q /\ ptr[p] = ptr[q] => ptr[p] = Null
  /\ \A m \in DOMAIN modules :
       /\ \A p \in Pointers : modules[m].data # ptr[p]
       /\ \A n \in DOMAIN modules : modules[m].data = modules[n].data => m = n
  /\ ptr \in [Pointers -> Blocks \cup {Null}]
  /\ \A m \in DOMAIN modules : modules[m].data \in Blocks

ModulesListed == modules \in Seq({modules[m] : m \in DOMAIN modules})

OwnersInv ==
  /\ Owned /\ ModulesListed
  /\ pc = "idle" => \A p \in Pointers : ptr[p] = Null
  /\ pc \in {"fatal", "loaded"} => \A p \in Pointers \ {"kxmodule"} : ptr[p] = Null
  /\ pc \in {"relocations", "imports", "move imports", "trampolines", "relocate"} =>
       ptr["pCode"] # Null

\* A block that was free gets one owner, when the pointer to it held none.
LEMMA NewKeeps ==
  ASSUME Owned, NEW p \in Pointers, ptr[p] = Null, New(p), UNCHANGED modules
  PROVE  Owned' /\ \A q \in Pointers \ {p} : ptr'[q] = ptr[q]
<1>1. PICK b \in Blocks \ taken : taken' = taken \cup {b} /\ ptr' = [ptr EXCEPT ![p] = b]
  BY DEF New
<1>2. ptr' \in [Pointers -> Blocks \cup {Null}]
  BY <1>1 DEF Owned
<1>3. ptr'[p] = b /\ \A q \in Pointers \ {p} : ptr'[q] = ptr[q]
  BY <1>1 DEF Owned
<1>4. b # Null /\ b \notin {modules[m].data : m \in DOMAIN modules}
      /\ \A q \in Pointers : ptr[q] # b
  BY <1>1, MemoryAssumption DEF Owned
<1>5. taken' = ({ptr'[q] : q \in Pointers} \ {Null})
                 \cup {modules[m].data : m \in DOMAIN modules}
  BY <1>1, <1>3, <1>4 DEF Owned
<1>6. \A q, r \in Pointers : q # r /\ ptr'[q] = ptr'[r] => ptr'[q] = Null
  BY <1>3, <1>4 DEF Owned
<1>7. \A m \in DOMAIN modules : \A q \in Pointers : modules[m].data # ptr'[q]
  BY <1>3, <1>4 DEF Owned
<1> QED BY <1>2, <1>3, <1>5, <1>6, <1>7 DEF Owned

\* Destroying pointers frees what they own and nothing else.
LEMMA DestroyKeeps ==
  ASSUME Owned, NEW S \in SUBSET Pointers, Destroy(S), UNCHANGED modules
  PROVE  Owned' /\ \A p \in Pointers : ptr'[p] = IF p \in S THEN Null ELSE ptr[p]
<1>1. \A p \in Pointers : ptr'[p] = IF p \in S THEN Null ELSE ptr[p]
  BY DEF Destroy
<1>2. ptr' \in [Pointers -> Blocks \cup {Null}]
  BY DEF Destroy, Owned
<1>3. taken' = taken \ {ptr[p] : p \in S}
  BY DEF Destroy
<1>4. taken' = ({ptr'[q] : q \in Pointers} \ {Null})
                 \cup {modules[m].data : m \in DOMAIN modules}
  <2>1. \A q \in Pointers \ S : ptr[q] # Null => ptr[q] \notin {ptr[p] : p \in S}
    BY DEF Owned
  <2>2. \A m \in DOMAIN modules : modules[m].data \notin {ptr[p] : p \in S}
    BY DEF Owned
  <2> QED BY <1>1, <1>3, <2>1, <2>2 DEF Owned
<1>5. \A q, r \in Pointers : q # r /\ ptr'[q] = ptr'[r] => ptr'[q] = Null
  BY <1>1 DEF Owned
<1>6. \A m \in DOMAIN modules : \A q \in Pointers : modules[m].data # ptr'[q]
  BY <1>1, MemoryAssumption DEF Owned
<1> QED BY <1>1, <1>2, <1>4, <1>5, <1>6 DEF Owned

\* A move hands the block on, and frees the one that the other pointer held.
LEMMA MoveKeeps ==
  ASSUME Owned, NEW from \in Pointers, NEW to \in Pointers \ {from},
         Move(from, to), UNCHANGED modules
  PROVE  /\ Owned' /\ ptr'[to] = ptr[from] /\ ptr'[from] = Null
         /\ \A p \in Pointers \ {from, to} : ptr'[p] = ptr[p]
<1>1. /\ ptr'[to] = ptr[from] /\ ptr'[from] = Null
      /\ \A p \in Pointers \ {from, to} : ptr'[p] = ptr[p]
  BY DEF Move, Owned
<1>2. ptr' \in [Pointers -> Blocks \cup {Null}]
  BY DEF Move, Owned
<1>3. taken' = taken \ {ptr[to]}
  BY DEF Move
<1>4. taken' = ({ptr'[q] : q \in Pointers} \ {Null})
                 \cup {modules[m].data : m \in DOMAIN modules}
  <2>1. \A q \in Pointers \ {to} : ptr[q] # Null => ptr[q] # ptr[to]
    BY DEF Owned
  <2>2. \A m \in DOMAIN modules : modules[m].data # ptr[to]
    BY DEF Owned
  <2>3. {ptr'[q] : q \in Pointers} \ {Null} = {ptr[q] : q \in Pointers \ {to}} \ {Null}
    BY <1>1
  <2>4. taken = ({ptr[q] : q \in Pointers} \ {Null})
                  \cup {modules[m].data : m \in DOMAIN modules}
    BY DEF Owned
  <2>5. {ptr[q] : q \in Pointers} = {ptr[q] : q \in Pointers \ {to}} \cup {ptr[to]}
    OBVIOUS
  <2>6. Null \notin {modules[m].data : m \in DOMAIN modules}
    BY MemoryAssumption DEF Owned
  <2>7. {modules[m].data : m \in DOMAIN modules}' = {modules[m].data : m \in DOMAIN modules}
    OBVIOUS
  <2> QED BY <1>3, <2>1, <2>2, <2>3, <2>4, <2>5, <2>6, <2>7
<1>5. \A q, r \in Pointers : q # r /\ ptr'[q] = ptr'[r] => ptr'[q] = Null
  BY <1>1 DEF Owned
<1>6. \A m \in DOMAIN modules : \A q \in Pointers : modules[m].data # ptr'[q]
  BY <1>1, MemoryAssumption DEF Owned
<1> QED BY <1>1, <1>2, <1>4, <1>5, <1>6 DEF Owned

\* The block of the code gets the loaded module for its owner.
LEMMA PublishKeeps ==
  ASSUME OwnersInv, Publish
  PROVE  OwnersInv'
<1> DEFINE new == [file |-> file, code |-> code, pads |-> pads, data |-> ptr["pCode"]]
           S == {modules[m] : m \in DOMAIN modules}
<1>1. /\ pc = "relocate" /\ pc' = "return" /\ taken' = taken
      /\ modules' = Append(modules, new) /\ ptr' = [ptr EXCEPT !["pCode"] = Null]
  BY DEF Publish
<1>16. Owned
  BY DEF OwnersInv
<1>2. "pCode" \in Pointers /\ ptr["pCode"] # Null /\ ptr["pCode"] \in Blocks
  BY <1>1, <1>16 DEF OwnersInv, Owned, Pointers
<1>3. ptr'["pCode"] = Null /\ \A p \in Pointers \ {"pCode"} : ptr'[p] = ptr[p]
  BY <1>1, <1>2, <1>16 DEF Owned
<1>4. modules \in Seq(S)
  BY DEF OwnersInv, ModulesListed
<1>5. new.data = ptr["pCode"]
  OBVIOUS
<1> HIDE DEF new, S
<1>6. /\ DOMAIN modules = 1 .. Len(modules) /\ Len(modules) \in Nat
      /\ DOMAIN modules' = 1 .. Len(modules) + 1
      /\ modules'[Len(modules) + 1] = new
      /\ \A m \in DOMAIN modules : modules'[m] = modules[m]
      /\ modules' \in Seq(S \cup {new})
  BY <1>1, <1>4
<1>7. /\ DOMAIN modules' = DOMAIN modules \cup {Len(modules) + 1}
      /\ Len(modules) + 1 \notin DOMAIN modules
  BY <1>6
<1>8. modules' \in Seq({modules'[m] : m \in DOMAIN modules'})
  BY <1>6
<1>9. \A m \in DOMAIN modules' : modules'[m].data \in Blocks
  BY <1>2, <1>5, <1>6, <1>7, <1>16 DEF Owned
<1>10. taken' = ({ptr'[p] : p \in Pointers} \ {Null})
                  \cup {modules'[m].data : m \in DOMAIN modules'}
  <2>1. {modules'[m].data : m \in DOMAIN modules'}
          = {modules[m].data : m \in DOMAIN modules} \cup {ptr["pCode"]}
    BY <1>5, <1>6, <1>7
  <2>2. {ptr[p] : p \in Pointers} \ {Null}
          = ({ptr'[p] : p \in Pointers} \ {Null}) \cup {ptr["pCode"]}
    BY <1>2, <1>3
  <2> QED BY <1>1, <1>16, <2>1, <2>2 DEF Owned
<1>11. \A p, q \in Pointers : p # q /\ ptr'[p] = ptr'[q] => ptr'[p] = Null
  BY <1>3, <1>16 DEF Owned
<1>12. \A m \in DOMAIN modules' : \A p \in Pointers : modules'[m].data # ptr'[p]
  BY <1>2, <1>3, <1>5, <1>6, <1>7, <1>9, <1>16, MemoryAssumption DEF Owned
<1>13. \A m, n \in DOMAIN modules' : modules'[m].data = modules'[n].data => m = n
  BY <1>2, <1>5, <1>6, <1>7, <1>16 DEF Owned
<1>14. ptr' \in [Pointers -> Blocks \cup {Null}]
  BY <1>1, <1>16 DEF Owned
<1>15. Owned'
  BY <1>8, <1>9, <1>10, <1>11, <1>12, <1>13, <1>14 DEF Owned
<1> QED BY <1>1, <1>8, <1>15 DEF OwnersInv, ModulesListed

\* Every step of loading keeps the owners.
LEMMA StepKeepsOwners ==
  ASSUME OwnersInv, [Next]_vars
  PROVE  OwnersInv'
<1> USE DEF OwnersInv
<1>0. "kxmodule" \in Pointers /\ "pBuf" \in Pointers /\ "pCode" \in Pointers
  BY DEF Pointers
<1>18. UNCHANGED modules => ModulesListed'
  BY Zenon DEF ModulesListed
<1>19. UNCHANGED <<taken, ptr, modules>> => Owned'
  <2> SUFFICES ASSUME taken' = taken, ptr' = ptr, modules' = modules
               PROVE  Owned'
    OBVIOUS
  <2>1. taken' = ({ptr'[p] : p \in Pointers} \ {Null})
                   \cup {modules'[m].data : m \in DOMAIN modules'}
    <3>1. {ptr'[p] : p \in Pointers} = {ptr[p] : p \in Pointers}
      OBVIOUS
    <3>2. {modules'[m].data : m \in DOMAIN modules'} = {modules[m].data : m \in DOMAIN modules}
      OBVIOUS
    <3>3. taken = ({ptr[p] : p \in Pointers} \ {Null})
                    \cup {modules[m].data : m \in DOMAIN modules}
      BY DEF Owned
    <3> QED BY <3>1, <3>2, <3>3
  <2>2. \A p, q \in Pointers : p # q /\ ptr'[p] = ptr'[q] => ptr'[p] = Null
    BY DEF Owned
  <2>3. \A m \in DOMAIN modules' :
          /\ \A p \in Pointers : modules'[m].data # ptr'[p]
          /\ \A n \in DOMAIN modules' : modules'[m].data = modules'[n].data => m = n
    BY Zenon DEF Owned
  <2>4. ptr' \in [Pointers -> Blocks \cup {Null}]
    BY DEF Owned
  <2>5. \A m \in DOMAIN modules' : modules'[m].data \in Blocks
    BY Zenon DEF Owned
  <2> QED BY <2>1, <2>2, <2>3, <2>4, <2>5, Zenon DEF Owned
<1>1. CASE ReadFile
  BY <1>0, <1>1, <1>18, NewKeeps DEF ReadFile
<1>2. CASE UNCHANGED <<pc, taken, ptr, modules>>
  BY <1>2, <1>18, <1>19
<1>3. CASE CheckHeader
  BY <1>3, <1>18, <1>19 DEF CheckHeader, Fail
<1>4. ASSUME NEW here \in {"code", "relocations", "imports"}, Allocate(here)
      PROVE  OwnersInv'
  <2>1. pc = here /\ ptr["pBuf"] = Null /\ UNCHANGED modules
    BY <1>4 DEF Allocate
  <2>2. CASE New("pBuf") /\ UNCHANGED pc
    <3>1. Owned' /\ \A q \in Pointers \ {"pBuf"} : ptr'[q] = ptr[q]
      BY <1>0, <2>1, <2>2, NewKeeps
    <3> QED BY <1>0, <1>4, <1>18, <2>1, <2>2, <3>1
  <2>3. CASE Fail("InvalidFile") /\ UNCHANGED <<taken, ptr>>
    BY <1>18, <1>19, <2>1, <2>3 DEF Fail
  <2> QED BY <1>4, <2>2, <2>3 DEF Allocate
<1>5. ASSUME NEW here \in {"code", "relocations", "imports"},
             NEW to \in Pointers \ {"pBuf"},
             NEW then \in {"relocations", "imports", "move imports"},
             here = "code" <=> to = "pCode", Copy(here, to, then)
      PROVE  OwnersInv'
  <2>1. pc = here /\ ptr["pBuf"] # Null /\ UNCHANGED modules
    BY <1>5 DEF Copy
  <2>2. CASE Destroy({"pBuf"}) /\ Fail("InvalidFile")
    <3>1. Owned'
      BY <1>0, <2>1, <2>2, DestroyKeeps
    <3> QED BY <1>18, <2>1, <2>2, <3>1 DEF Fail
  <2>3. CASE Move("pBuf", to) /\ pc' = then
    <3>1. /\ Owned' /\ ptr'[to] = ptr["pBuf"]
          /\ \A p \in Pointers \ {"pBuf", to} : ptr'[p] = ptr[p]
      BY <1>0, <2>1, <2>3, MoveKeeps
    <3>2. ptr'["pCode"] # Null
      BY <1>0, <1>5, <2>1, <3>1
    <3> QED BY <1>18, <2>1, <2>3, <3>1, <3>2
  <2> QED BY <1>5, <2>2, <2>3 DEF Copy
<1>6. CASE MoveImports
  <2>1. "_imports" \in Pointers /\ "pImports" \in Pointers \ {"_imports"}
    BY DEF Pointers
  <2>2. /\ pc = "move imports" /\ pc' = "trampolines" /\ UNCHANGED modules
        /\ Move("_imports", "pImports")
    BY <1>6 DEF MoveImports
  <2>3. Owned' /\ \A p \in Pointers \ {"_imports", "pImports"} : ptr'[p] = ptr[p]
    BY <2>1, <2>2, MoveKeeps
  <2>4. ptr'["pCode"] # Null
    BY <1>0, <2>2, <2>3
  <2> QED BY <1>18, <2>2, <2>3, <2>4
<1>7. CASE NoImports
  BY <1>7, <1>18, <1>19 DEF NoImports
<1>8. CASE AllocateTrampolines
  <2>1. /\ pc = "trampolines" /\ pc' \in {"relocate", "halted"}
        /\ UNCHANGED <<taken, ptr, modules>>
    BY <1>8 DEF AllocateTrampolines
  <2> QED BY <1>18, <1>19, <2>1
<1>9. CASE Relocate
  <2>1. /\ pc = "relocate" /\ pc' \in {"relocate", "return"}
        /\ UNCHANGED <<taken, ptr, modules>>
    BY <1>9 DEF Relocate, Fail
  <2> QED BY <1>18, <1>19, <2>1
<1>10. CASE Publish
  BY <1>10, PublishKeeps
<1>11. CASE Return
  <2>1. Destroy(Pointers \ {"kxmodule"}) /\ UNCHANGED modules
        /\ pc' \in {"loaded", "fatal"}
    BY <1>11 DEF Return
  <2>2. Owned' /\ \A p \in Pointers \ {"kxmodule"} : ptr'[p] = Null
    BY <2>1, DestroyKeeps
  <2> QED BY <1>18, <2>1, <2>2
<1>12. CASE EndOfBody
  <2>1. pc = "loaded" /\ Destroy({"kxmodule"}) /\ UNCHANGED modules /\ pc' = "idle"
    BY <1>12 DEF EndOfBody
  <2>2. Owned' /\ \A p \in Pointers : ptr'[p] = Null
    BY <1>0, <2>1, DestroyKeeps
  <2> QED BY <1>18, <2>1, <2>2
<1>13. CASE Unload
  <2>1. /\ pc = "idle" /\ modules' = <<>> /\ UNCHANGED <<pc, ptr>>
        /\ taken' = taken \ {modules[m].data : m \in DOMAIN modules}
    BY <1>13 DEF Unload
  <2>2. \A p \in Pointers : ptr[p] = Null
    BY <2>1
  <2>3. taken' = {}
    BY <2>1, <2>2 DEF Owned
  <2>4. {ptr[p] : p \in Pointers} \ {Null} = {}
    BY <2>2
  <2>5. DOMAIN modules' = {} /\ modules' \in Seq({})
    BY <2>1
  <2>6. Owned'
    BY <2>1, <2>3, <2>4, <2>5 DEF Owned
  <2>7. ModulesListed'
    BY <2>5 DEF ModulesListed
  <2> QED BY <2>1, <2>2, <2>6, <2>7
<1>14. CASE SkipFile
  BY <1>14, <1>18, <1>19 DEF SkipFile
<1>15. CASE UNCHANGED vars
  BY <1>2, <1>15 DEF vars
<1>16. CASE \/ Copy("code", "pCode", "relocations")
            \/ Copy("relocations", "pRelocs", "imports")
            \/ Copy("imports", "_imports", "move imports")
  BY <1>5, <1>16 DEF Pointers
<1>17. CASE Allocate("code") \/ Allocate("relocations") \/ Allocate("imports")
  BY <1>4, <1>17
<1> QED BY <1>1, <1>3, <1>6, <1>7, <1>8, <1>9, <1>10, <1>11, <1>12, <1>13, <1>14, <1>15,
          <1>16, <1>17, Zenon DEF Next

\* Whatever the files and wherever loading fails, every block of the module heap has
\* one owner, and between two files these are the loaded modules.
THEOREM NothingLeftInHeap == Spec => []HeapBalanced
<1>1. Init => OwnersInv
  <2> SUFFICES ASSUME Init PROVE OwnersInv
    OBVIOUS
  <2>1. \A p \in Pointers : ptr[p] = Null
    BY DEF Init
  <2>2. {ptr[p] : p \in Pointers} \ {Null} = {}
    BY <2>1
  <2>3. pc = "idle" /\ taken = {} /\ modules = <<>> /\ ptr \in [Pointers -> Blocks \cup {Null}]
    BY DEF Init
  <2>4. DOMAIN modules = {} /\ modules \in Seq({})
    BY <2>3
  <2>5. Owned
    BY <2>1, <2>2, <2>3, <2>4 DEF Owned
  <2>6. ModulesListed
    BY <2>4 DEF ModulesListed
  <2> QED BY <2>1, <2>3, <2>5, <2>6 DEF OwnersInv
<1>2. OwnersInv /\ [Next]_vars => OwnersInv'
  BY StepKeepsOwners
<1>3. OwnersInv => HeapBalanced
  BY DEF OwnersInv, Owned, HeapBalanced
<1> QED BY <1>1, <1>2, <1>3, PTL DEF Spec

-----------------------------------------------------------------------------
\* What is loaded is linked.  While the relocations are applied, those that the loop
\* has passed are linked, the trampolines are those of the EMB_SDA21 among them, and
\* the places of the others still hold what was compiled.
Relocated(c, p, f, n) ==
  /\ c \in [DOMAIN f.words -> 0 .. Half - 1]
  /\ p \in Seq(PadType)
  /\ Len(p) = Cardinality({j \in SdaRelocs(f) : j < n})
  /\ \A i \in DOMAIN f.relocs :
       IF i < n
       THEN /\ f.relocs[i].type \in Types /\ Linked(c, f, i)
            /\ PadsInReach /\ i \in SdaRelocs(f) => Returns(c, p, f, i)
       ELSE \A x \in Places(f.relocs[i].type, f.relocs[i].at) : c[x] = f.words[x]

Loaded ==
  [file : Files, code : UNION {[DOMAIN f.words -> 0 .. Half - 1] : f \in Files},
   pads : Seq(PadType), data : Blocks \cup {Null}]

LoadInv ==
  /\ TypeOK
  /\ pads \in Seq(PadType)
  /\ pc # "idle" => pos \in DOMAIN disc
  /\ pc \in {"header", "code", "relocations", "imports", "move imports", "trampolines"} =>
       k = 1 /\ pads = <<>>
  /\ pc \in {"relocations", "imports", "move imports", "trampolines"} => code = file.words
  /\ pc = "relocate" =>
       k \in 1 .. Len(file.relocs) + 1 /\ Relocated(code, pads, file, k)
  /\ modules \in Seq(Loaded)
  /\ \A m \in DOMAIN modules :
       Relocated(modules[m].code, modules[m].pads, modules[m].file,
                 Len(modules[m].file.relocs) + 1)

-----------------------------------------------------------------------------
\* A file's relocations are a sequence, finitely many of them for EMB_SDA21.
LEMMA RelocsTyped ==
  ASSUME NEW f \in Files
  PROVE  /\ Len(f.relocs) \in Nat /\ DOMAIN f.relocs = 1 .. Len(f.relocs)
         /\ \A n : IsFiniteSet({j \in SdaRelocs(f) : j < n})
         /\ \A n : IsFiniteSet({j \in SdaRelocs(f) : j <= n})
<1>1. f.relocs \in Seq({f.relocs[i] : i \in DOMAIN f.relocs})
  BY FileAssumption
<1>2. Len(f.relocs) \in Nat /\ DOMAIN f.relocs = 1 .. Len(f.relocs)
  BY <1>1
<1>3. IsFiniteSet(1 .. Len(f.relocs))
  BY <1>2, FS_Interval
<1>4. SdaRelocs(f) \subseteq 1 .. Len(f.relocs)
  BY <1>2 DEF SdaRelocs
<1>5. ASSUME NEW S, S \subseteq SdaRelocs(f)
      PROVE  IsFiniteSet(S)
  BY <1>3, <1>4, <1>5, FS_Subset
<1> QED BY <1>2, <1>5

\* The address a relocation names is a word, and only one when it is determined.
LEMMA SourcesTyped ==
  ASSUME RealWidths, NEW f \in Files, NEW i \in DOMAIN f.relocs,
         NEW s \in Sources(f.relocs[i])
  PROVE  /\ IsWord(s)
         /\ Determined(f.relocs[i]) => \A t \in Sources(f.relocs[i]) : t = s
<1> DEFINE r == f.relocs[i]
<1>1. /\ r.section \in {"code", "raw", "import", "other"}
      /\ r.offset \in Int /\ r.addend \in Int /\ r.symbol \in DOMAIN Table
  BY FileAssumption
<1>2. Full \in Nat /\ Full > 0
  BY WidthAssumption DEF Full
<1>3. Table[r.symbol] \in Int /\ CodeBase \in Int
  BY <1>1, <1>2, MemoryAssumption, AddressAssumption
<1>4. \/ r.section # "other" /\ \E x \in Int : Sources(r) = {x % Full}
      \/ r.section = "other" /\ Sources(r) = 0 .. Full - 1
  <2>1. PICK x : /\ x = CASE r.section = "code"   -> CodeBase + r.offset + r.addend
                          [] r.section = "raw"    -> r.offset + r.addend
                          [] r.section = "import" -> Table[r.symbol] + r.addend
                          [] r.section = "other"  -> 0
    BY Zenon
  <2>2. x \in Int
    BY <1>1, <1>3, <2>1
  <2>3. CASE r.section = "code"
    BY <2>1, <2>2, <2>3, Zenon DEF Sources
  <2>4. CASE r.section = "raw"
    BY <2>1, <2>2, <2>4, Zenon DEF Sources
  <2>5. CASE r.section = "import"
    BY <2>1, <2>2, <2>5, Zenon DEF Sources
  <2>6. CASE r.section = "other"
    BY <2>6, Zenon DEF Sources
  <2> QED BY <1>1, <2>3, <2>4, <2>5, <2>6, Zenon
<1>5. s \in Nat /\ s < Full
  BY <1>2, <1>4
<1>6. IsWord(s)
  BY <1>5, Widths, SMT DEF IsWord
<1>7. Determined(r) => \A t \in Sources(r) : t = s
  BY <1>4 DEF Determined
<1> QED BY <1>6, <1>7

\* Whether a relocation is linked depends on its place only.
LEMMA LinkedLocally ==
  ASSUME NEW f \in Files, NEW i \in DOMAIN f.relocs,
         NEW c, NEW d,
         \A x \in Places(f.relocs[i].type, f.relocs[i].at) : d[x] = c[x],
         f.relocs[i].type \in Types
  PROVE  /\ Linked(c, f, i) => Linked(d, f, i)
         /\ f.relocs[i].type # "NONE" /\ f.relocs[i].type \notin HalfwordType =>
              WordAt(d, f.relocs[i].at) = WordAt(c, f.relocs[i].at)
<1> DEFINE r == f.relocs[i]
           h == r.at \div 2
<1>1. CASE r.type = "NONE"
  BY <1>1, Zenon DEF Linked
<1>2. CASE r.type \in HalfwordType
  <2>1. d[h] = c[h]
    BY <1>2, Zenon DEF Places, HalfwordType
  <2>2. \A a, s : Denoted(d, r.type, r.at, a, s) = Denoted(c, r.type, r.at, a, s)
    BY <1>2, <2>1, Zenon DEF Denoted, HalfwordType
  <2>3. r.type \notin BranchType
    BY <1>2, Zenon DEF HalfwordType, BranchType
  <2> QED BY <1>2, <2>2, <2>3, Zenon DEF Linked
<1>3. CASE r.type \in BranchType \cup DataType \cup {SdaType}
  <2>1. d[h] = c[h] /\ d[h + 1] = c[h + 1]
    BY <1>3, Zenon DEF Places, HalfwordType, BranchType, DataType, SdaType
  <2>2. WordAt(d, r.at) = WordAt(c, r.at)
    BY <2>1, Zenon DEF WordAt
  <2>3. CASE r.type = SdaType
    BY <2>2, <2>3, Zenon DEF Linked
  <2>4. CASE r.type # SdaType
    <3>1. \A a, s : Denoted(d, r.type, r.at, a, s) = Denoted(c, r.type, r.at, a, s)
      BY <1>3, <2>2, <2>4, Zenon DEF Denoted, BranchType, DataType
    <3>2. Instruction(d, r.type, r.at) = Instruction(c, r.type, r.at)
      BY <2>2, Zenon DEF Instruction
    <3> QED BY <2>2, <3>1, <3>2, Zenon DEF Linked
  <2> QED BY <2>3, <2>4
<1> QED BY <1>1, <1>2, <1>3, Zenon DEF Types

\* A relocation that is applied to the words as they were compiled is linked.
LEMMA RelocationLinks ==
  ASSUME RealWidths, FilesFit, NEW f \in Files, NEW i \in DOMAIN f.relocs,
         f.relocs[i].type \in Types,
         NEW c \in [DOMAIN f.words -> 0 .. Half - 1],
         \A x \in Places(f.relocs[i].type, f.relocs[i].at) : c[x] = f.words[x],
         NEW s \in Sources(f.relocs[i]), NEW pad,
         NEW d, d = Apply(c, f.relocs[i].type, f.relocs[i].at,
                          CodeBase + f.relocs[i].at, s, pad)
  PROVE  Linked(d, f, i)
<1> DEFINE r == f.relocs[i]
           D == DOMAIN f.words
           a == CodeBase + r.at
<1> SUFFICES ASSUME Determined(r), r.type \notin {"NONE", SdaType}
             PROVE  /\ \A t \in Sources(r) : Expressible(r.type, a, t) =>
                         Denoted(d, r.type, r.at, a, t) = t
                    /\ r.type \in BranchType =>
                         Instruction(d, r.type, r.at) = Instruction(f.words, r.type, r.at)
  BY Zenon DEF Linked
<1>1. r.type \in HalfwordType \cup BranchType \cup DataType
  BY Zenon DEF Types
<1>2. /\ Places(r.type, r.at) \subseteq D
      /\ r.type \in BranchType => a % 4 = 0
  BY Zenon DEF FilesFit
<1>3. r.at \in Nat /\ a \in Nat
  <2>1. r.at \in Nat
    BY FileAssumption, Zenon
  <2> QED BY <2>1, MemoryAssumption, AddressAssumption
<1>4. IsWord(s) /\ \A t \in Sources(r) : t = s
  BY SourcesTyped
<1>5. /\ Expressible(r.type, a, s) => Denoted(d, r.type, r.at, a, s) = s
      /\ r.type \in {"ADDR24", "REL24"} =>
           WordAt(d, r.at) \div Reach = WordAt(c, r.at) \div Reach
      /\ r.type \in {"ADDR14", "REL14"} =>
           WordAt(d, r.at) \div Half = WordAt(c, r.at) \div Half
      /\ r.type \in BranchType => WordAt(d, r.at) % 4 = WordAt(c, r.at) % 4
  BY <1>1, <1>2, <1>3, <1>4, RelocationDenotes
<1>6. ASSUME r.type \in BranchType
      PROVE  Instruction(d, r.type, r.at) = Instruction(f.words, r.type, r.at)
  <2>1. r.type \notin HalfwordType
    BY <1>6, Zenon DEF BranchType, HalfwordType
  <2>2. WordAt(c, r.at) = WordAt(f.words, r.at)
    BY <2>1, LinkedLocally
  <2>3. CASE r.type \in {"ADDR24", "REL24"}
    BY <1>5, <1>6, <2>2, <2>3, Zenon DEF Instruction
  <2>4. CASE r.type \in {"ADDR14", "REL14"}
    BY <1>5, <1>6, <2>2, <2>4, Zenon DEF Instruction
  <2> QED BY <1>6, <2>3, <2>4, Zenon DEF BranchType
<1> QED BY <1>4, <1>5, <1>6, Zenon

\* A relocation changes the code at its place only.
LEMMA RelocationTouches ==
  ASSUME RealWidths, FilesFit, NEW f \in Files, NEW i \in DOMAIN f.relocs,
         f.relocs[i].type \in Types, NEW c \in [DOMAIN f.words -> 0 .. Half - 1],
         NEW s \in Sources(f.relocs[i]), NEW pad \in Nat,
         NEW d, d = Apply(c, f.relocs[i].type, f.relocs[i].at,
                          CodeBase + f.relocs[i].at, s, pad)
  PROVE  SameBut(Places(f.relocs[i].type, f.relocs[i].at), DOMAIN f.words, c, d)
<1>1. f.relocs[i].at \in Nat
  BY FileAssumption, Zenon
<1>2. CodeBase + f.relocs[i].at \in Nat
  BY <1>1, MemoryAssumption, AddressAssumption
<1>3. Places(f.relocs[i].type, f.relocs[i].at) \subseteq DOMAIN f.words
  BY Zenon DEF FilesFit
<1>4. IsWord(s)
  BY SourcesTyped
<1> QED BY <1>1, <1>2, <1>3, <1>4, ApplyTouches

\* The trampolines are counted in the order of the relocations.
LEMMA PadsCounted ==
  ASSUME NEW f \in Files, NEW n \in DOMAIN f.relocs,
         NEW L, L = Cardinality({j \in SdaRelocs(f) : j < n})
  PROVE  /\ L \in Nat
         /\ n \in SdaRelocs(f) => PadIndex(f, n) = L + 1
         /\ Cardinality({j \in SdaRelocs(f) : j < n + 1})
              = IF n \in SdaRelocs(f) THEN L + 1 ELSE L
         /\ \A i \in SdaRelocs(f) : i < n => PadIndex(f, i) \in 1 .. L
<1> DEFINE Below == {j \in SdaRelocs(f) : j < n}
           UpTo(i) == {j \in SdaRelocs(f) : j <= i}
<1>1. n \in Nat /\ \A j \in SdaRelocs(f) : j \in Nat
  BY RelocsTyped DEF SdaRelocs
<1>2. IsFiniteSet(Below) /\ \A i : IsFiniteSet(UpTo(i))
  BY RelocsTyped
<1>3. L \in Nat
  BY <1>2, FS_CardinalityType
<1>4. n \in SdaRelocs(f) => UpTo(n) = Below \cup {n}
  BY <1>1
<1>5. {j \in SdaRelocs(f) : j < n + 1} = UpTo(n)
  BY <1>1
<1>6. n \notin SdaRelocs(f) => UpTo(n) = Below
  BY <1>1
<1>7. n \notin Below
  BY <1>1
<1>8. n \in SdaRelocs(f) => Cardinality(UpTo(n)) = L + 1
  BY <1>2, <1>4, <1>7, FS_AddElement
<1>9. ASSUME NEW i \in SdaRelocs(f), i < n
      PROVE  PadIndex(f, i) \in 1 .. L
  <2>1. UpTo(i) \subseteq Below /\ i \in UpTo(i)
    BY <1>1, <1>9
  <2>2. Cardinality(UpTo(i)) \in Nat /\ Cardinality(UpTo(i)) <= L
    BY <1>2, <2>1, FS_Subset, FS_CardinalityType
  <2>3. Cardinality(UpTo(i)) # 0
    BY <1>2, <2>1, FS_EmptySet
  <2> QED BY <1>3, <2>2, <2>3 DEF PadIndex
<1> QED BY <1>3, <1>5, <1>6, <1>8, <1>9, Zenon DEF PadIndex

\* A trampoline's fields are in range, and it leads where it should.
LEMMA TrampolineRight ==
  ASSUME RealWidths, NEW s, IsWord(s), NEW a \in Nat, NEW pad \in Nat,
         NEW t, t = Trampoline(s, a, pad)
  PROVE  /\ t \in PadType
         /\ s % Half < Half \div 2 => Displaced(t.lis, t.displacement) = s
         /\ (/\ a % 4 = 0 /\ pad % 4 = 0 /\ a + 4 < Full /\ pad < Full
             /\ -(Reach \div 2) <= pad - a /\ pad - a <= (Reach \div 2) - 4)
            => /\ Goes(t.back, pad + 8, Reach) = a + 4
               /\ Goes(Branch + ((pad - a) % Reach), a, Reach) = pad
<1> DEFINE back == Branch + (((a + 4) - (pad + 8)) % Reach)
<1>1. t = [lis |-> s \div Half, displacement |-> s % Half, back |-> back]
  BY DEF Trampoline
<1>2. s \div Half \in 0 .. Half - 1 /\ s % Half \in 0 .. Half - 1
  <2>1. /\ s \div Half \in Nat /\ s \div Half < Half
        /\ s % Half \in Nat /\ s % Half < Half
    BY Halves, SMT DEF RealWidths, IsWord
  <2> QED BY <2>1, WidthAssumption
<1>3. back \in 0 .. Full - 1
  <2>1. back \in Nat /\ back < Full
    <3>1. ((a + 4) - (pad + 8)) % (1024 * 65536) \in Nat
          /\ ((a + 4) - (pad + 8)) % (1024 * 65536) < 1024 * 65536
      BY SMT
    <3> QED BY <3>1, Widths, SMT DEF RealWidths
  <2>2. Full \in Int
    BY WidthAssumption DEF Full
  <2> QED BY <2>1, <2>2
<1>4. t \in PadType
  <2> HIDE DEF back
  <2> QED BY <1>1, <1>2, <1>3 DEF PadType
<1>5. ASSUME s % Half < Half \div 2
      PROVE  Displaced(t.lis, t.displacement) = s
  <2>1. Half = 65536 /\ s \in Nat /\ s < 65536 * 65536 /\ s % Half < 32768
    BY <1>5, Widths, SMT DEF IsWord
  <2>2. Displaced(Trampoline(s, a, pad).lis, Trampoline(s, a, pad).displacement) = s
          <=> s % Half < 32768
    BY <2>1, TrampolineOnlyLowHalf, SMT
  <2> QED BY <2>1, <2>2, SMT
<1>6. ASSUME a % 4 = 0, pad % 4 = 0, a + 4 < Full, pad < Full,
             -(Reach \div 2) <= pad - a, pad - a <= (Reach \div 2) - 4
      PROVE  /\ Goes(back, pad + 8, Reach) = a + 4
             /\ Goes(Branch + ((pad - a) % Reach), a, Reach) = pad
  <2>1. (pad - a) % 4 = 0 /\ ((a + 4) - (pad + 8)) % 4 = 0
    BY <1>6, SMT
  <2>2. /\ pad - a < Reach \div 2
        /\ -(Reach \div 2) <= (a + 4) - (pad + 8) /\ (a + 4) - (pad + 8) < Reach \div 2
    BY <1>6, Widths, SMT
  <2>3. a + 4 \in Nat /\ pad + 8 \in Nat
    OBVIOUS
  <2>4. Goes(back, pad + 8, Reach) = a + 4
    BY <1>6, <2>1, <2>2, <2>3, BranchReaches
  <2>5. Goes(Branch + ((pad - a) % Reach), a, Reach) = pad
    BY <1>6, <2>1, <2>2, BranchReaches
  <2> QED BY <2>4, <2>5
<1>7. t.back = back
  BY <1>1
<1> QED BY <1>4, <1>5, <1>6, <1>7, Zenon

\* One turn of the relocation loop.
LEMMA RelocatedNext ==
  ASSUME RealWidths, FilesFit, NEW f \in Files, NEW n \in DOMAIN f.relocs,
         NEW c, NEW p, Relocated(c, p, f, n), f.relocs[n].type \in Types,
         NEW s \in Sources(f.relocs[n]),
         NEW pad, pad = Pads + 12 * Len(p),
         NEW d, d = Apply(c, f.relocs[n].type, f.relocs[n].at,
                          CodeBase + f.relocs[n].at, s, pad),
         NEW q, q = IF f.relocs[n].type = SdaType
                    THEN Append(p, Trampoline(s, CodeBase + f.relocs[n].at, pad)) ELSE p
  PROVE  Relocated(d, q, f, n + 1)
<1> DEFINE r == f.relocs[n]
           D == DOMAIN f.words
           a == CodeBase + r.at
           t == Trampoline(s, a, pad)
           place(i) == Places(f.relocs[i].type, f.relocs[i].at)
<1>1. n \in Nat /\ \A i \in DOMAIN f.relocs : i \in Nat
  BY RelocsTyped
<1>2. /\ c \in [D -> 0 .. Half - 1] /\ p \in Seq(PadType)
      /\ Len(p) = Cardinality({j \in SdaRelocs(f) : j < n})
  BY Zenon DEF Relocated
<1>3. r.at \in Nat /\ a \in Nat /\ pad \in Nat
  <2>1. r.at \in Nat
    BY FileAssumption, Zenon
  <2>2. Len(p) \in Nat
    BY <1>2
  <2> QED BY <2>1, <2>2, MemoryAssumption, AddressAssumption
<1>4. IsWord(s) /\ (Determined(r) => \A x \in Sources(r) : x = s)
  BY SourcesTyped
<1>5. /\ place(n) \subseteq D /\ (r.type = SdaType => a % 4 = 0)
      /\ \A i \in DOMAIN f.relocs : i # n => place(i) \cap place(n) = {}
      /\ \A i \in DOMAIN f.relocs : place(i) \subseteq D
  BY Zenon DEF FilesFit
<1>6. d \in [D -> 0 .. Half - 1] /\ \A x \in D \ place(n) : d[x] = c[x]
  <2>1. SameBut(Places(r.type, r.at), D, c, d)
    BY <1>2, <1>3, RelocationTouches
  <2> QED BY <2>1, Zenon DEF SameBut
<1>7. \A i \in DOMAIN f.relocs : i # n => \A x \in place(i) : d[x] = c[x]
  BY <1>5, <1>6, Zenon
<1>8. t \in PadType
  BY <1>3, <1>4, TrampolineRight
<1>9. q \in Seq(PadType) /\ Len(p) \in Nat
  BY <1>2, <1>8
<1>10. n \in SdaRelocs(f) <=> r.type = SdaType
  BY Zenon DEF SdaRelocs
<1>11. Len(q) = Cardinality({j \in SdaRelocs(f) : j < n + 1})
  <2>1. Cardinality({j \in SdaRelocs(f) : j < n + 1})
          = IF n \in SdaRelocs(f) THEN Len(p) + 1 ELSE Len(p)
    BY <1>2, PadsCounted
  <2>2. r.type = SdaType => Len(q) = Len(p) + 1
    BY <1>2, <1>8
  <2> QED BY <1>10, <2>1, <2>2
<1>12. ASSUME NEW i \in DOMAIN f.relocs, i < n
       PROVE  /\ f.relocs[i].type \in Types /\ Linked(d, f, i)
              /\ PadsInReach /\ i \in SdaRelocs(f) => Returns(d, q, f, i)
  <2>1. /\ f.relocs[i].type \in Types /\ Linked(c, f, i)
        /\ PadsInReach /\ i \in SdaRelocs(f) => Returns(c, p, f, i)
    BY <1>12, Zenon DEF Relocated
  <2>2. i # n
    BY <1>1, <1>12
  <2>3. \A x \in place(i) : d[x] = c[x]
    BY <1>7, <2>2, Zenon
  <2>4. /\ Linked(d, f, i)
        /\ i \in SdaRelocs(f) => WordAt(d, f.relocs[i].at) = WordAt(c, f.relocs[i].at)
    <3>1. i \in SdaRelocs(f) =>
            f.relocs[i].type # "NONE" /\ f.relocs[i].type \notin HalfwordType
      BY Zenon DEF SdaRelocs, SdaType, HalfwordType
    <3> QED BY <2>1, <2>3, <3>1, LinkedLocally, Zenon
  <2>5. ASSUME PadsInReach, i \in SdaRelocs(f)
        PROVE  Returns(d, q, f, i)
    <3>1. PadIndex(f, i) \in 1 .. Len(p)
      BY <1>2, <1>12, <2>5, PadsCounted, Zenon
    <3>2. q[PadIndex(f, i)] = p[PadIndex(f, i)]
      BY <1>2, <1>8, <3>1
    <3> QED BY <2>1, <2>4, <2>5, <3>2, Zenon DEF Returns
  <2> QED BY <2>1, <2>4, <2>5, Zenon
<1>13. Linked(d, f, n)
  <2>1. \A x \in place(n) : c[x] = f.words[x]
    <3>1. ~(n < n)
      BY <1>1
    <3> QED BY <3>1, Zenon DEF Relocated
  <2> QED BY <1>2, <2>1, RelocationLinks, Zenon
<1>14. ASSUME PadsInReach, n \in SdaRelocs(f)
       PROVE  Returns(d, q, f, n)
  <2>1. PadIndex(f, n) = Len(p) + 1 /\ PadAt(f, n) = pad
    <3>1. PadIndex(f, n) = Len(p) + 1
      BY <1>2, <1>14, PadsCounted
    <3> QED BY <1>9, <3>1 DEF PadAt
  <2>2. q[PadIndex(f, n)] = t
    BY <1>2, <1>8, <1>10, <1>14, <2>1
  <2>3. /\ a % 4 = 0 /\ pad % 4 = 0 /\ a + 4 < Full /\ pad < Full
        /\ -(Reach \div 2) <= pad - a /\ pad - a <= (Reach \div 2) - 4
    <3>1. Pads % 4 = 0
      BY <1>14, Zenon DEF PadsInReach
    <3>2. (Pads + 12 * Len(p)) % 4 = 0
      BY <1>9, <3>1, MemoryAssumption, AddressAssumption, SMT
    <3>3. /\ a + 4 < Full /\ pad < Full
          /\ -(Reach \div 2) <= pad - a /\ pad - a <= (Reach \div 2) - 4
      BY <1>14, <2>1, Zenon DEF PadsInReach
    <3> QED BY <1>5, <1>10, <1>14, <3>2, <3>3, Zenon
  <2>4. /\ s % Half < Half \div 2 => Displaced(t.lis, t.displacement) = s
        /\ Goes(t.back, pad + 8, Reach) = a + 4
        /\ Goes(Branch + ((pad - a) % Reach), a, Reach) = pad
    BY <1>3, <1>4, <2>3, TrampolineRight, SMTT(30)
  <2>5. WordAt(d, r.at) = Branch + ((pad - a) % Reach)
    <3>1. d = PutWord(c, r.at, Branch + ((pad - a) % Reach))
      BY <1>10, <1>14, Zenon DEF Apply, HalfwordType, SdaType
    <3>2. r.at \div 2 \in D /\ (r.at \div 2) + 1 \in D
      BY <1>5, <1>10, <1>14, Zenon DEF Places, HalfwordType, BranchType, DataType, SdaType
    <3>3. IsWord(Branch + ((pad - a) % Reach))
      BY <1>3, BranchIsWord
    <3> QED BY <1>2, <1>3, <3>1, <3>2, <3>3, PutThenRead, SMTT(30)
  <2> HIDE DEF a, t
  <2>6. Determined(r) =>
          \A x \in Sources(r) : x % Half < Half \div 2 => Displaced(t.lis, t.displacement) = x
    BY <1>4, <2>4, Zenon
  <2> QED BY <2>1, <2>2, <2>4, <2>5, <2>6, Zenon DEF Returns, a
<1>15. ASSUME NEW i \in DOMAIN f.relocs, ~(i < n + 1), NEW x \in place(i)
       PROVE  d[x] = f.words[x]
  <2>1. i # n /\ ~(i < n)
    BY <1>1, <1>15
  <2>2. c[x] = f.words[x]
    BY <2>1, Zenon DEF Relocated
  <2> QED BY <1>7, <2>1, <2>2, Zenon
<1>16. \A i \in DOMAIN f.relocs : i < n + 1 <=> i < n \/ i = n
  BY <1>1
<1> QED BY <1>6, <1>9, <1>11, <1>12, <1>13, <1>14, <1>15, <1>16, Zenon DEF Relocated

\* The file that is being loaded is one of those of the disc.
LEMMA FileTyped ==
  ASSUME disc \in Discs
  PROVE  /\ Len(disc) \in Nat /\ DOMAIN disc = 1 .. Len(disc)
         /\ pos \in DOMAIN disc => file \in Files
<1>1. disc \in Seq(Files)
  BY FileAssumption
<1>2. pos \in DOMAIN disc => file \in Files
  BY <1>1 DEF file
<1> QED BY <1>1, <1>2

\* A file is relocated whole when the loop has passed its last relocation.
LEMMA LoadInvNext ==
  ASSUME RealWidths, FilesFit, LoadInv, [Next]_vars
  PROVE  LoadInv'
<1> DEFINE TypePart ==
             /\ disc \in Discs /\ pos \in 0 .. Len(disc)
             /\ code \in [DOMAIN code -> 0 .. Half - 1]
             /\ leaked \in 0 .. SystemRoom
           PointersTyped == taken \subseteq Blocks /\ ptr \in [Pointers -> Blocks \cup {Null}]
           ModulesPart ==
             /\ modules \in Seq(Loaded)
             /\ \A m \in DOMAIN modules :
                  Relocated(modules[m].code, modules[m].pads, modules[m].file,
                            Len(modules[m].file.relocs) + 1)
<1>0. /\ Len(disc) \in Nat /\ DOMAIN disc = 1 .. Len(disc)
      /\ pc # "idle" => file \in Files
  BY FileTyped DEF LoadInv, TypeOK
<1>15. \A p \in Pointers : New(p) => PointersTyped'
  BY DEF LoadInv, TypeOK, New
<1>16. \A S \in SUBSET Pointers : Destroy(S) => PointersTyped'
  BY DEF LoadInv, TypeOK, Destroy
<1>17. \A from, to \in Pointers : Move(from, to) => PointersTyped'
  BY DEF LoadInv, TypeOK, Move
<1>18. "kxmodule" \in Pointers /\ "pBuf" \in Pointers /\ "pCode" \in Pointers
  BY DEF Pointers
<1>19. PointersTyped /\ (UNCHANGED <<taken, ptr>> => PointersTyped')
  BY DEF LoadInv, TypeOK
<1> HIDE DEF PointersTyped
<1>1. CASE ReadFile
  <2>1. New("kxmodule")
    BY <1>1 DEF ReadFile
  <2>2. PointersTyped'
    BY <1>15, <1>18, <2>1
  <2> QED BY <1>0, <1>1, <2>2 DEF ReadFile, LoadInv, TypeOK, PointersTyped
<1>2. CASE SkipFile
  BY <1>0, <1>2 DEF SkipFile, LoadInv, TypeOK
<1>3. CASE CheckHeader
  BY <1>3 DEF CheckHeader, Fail, LoadInv, TypeOK, file
<1>4. ASSUME NEW here \in {"code", "relocations", "imports"}, Allocate(here)
      PROVE  LoadInv'
  <2>1. pc = here /\ UNCHANGED <<disc, pos, modules, leaked>>
    BY <1>4 DEF Allocate
  <2>2. CASE New("pBuf") /\ UNCHANGED <<pc, code, k, pads, result>>
    <3>1. PointersTyped'
      BY <1>15, <1>18, <2>2
    <3> QED BY <1>4, <2>1, <2>2, <3>1 DEF LoadInv, TypeOK, file, PointersTyped
  <2>3. CASE Fail("InvalidFile") /\ UNCHANGED <<taken, ptr>>
    BY <1>4, <2>1, <2>3 DEF Fail, LoadInv, TypeOK, file
  <2> QED BY <1>4, <2>2, <2>3 DEF Allocate
<1>20. ASSUME NEW here \in {"code", "relocations", "imports"}, NEW to \in Pointers,
              NEW then \in {"relocations", "imports", "move imports"},
              Copy(here, to, then)
       PROVE  LoadInv'
  <2>1. pc = here /\ UNCHANGED <<disc, pos, modules, leaked>>
    BY <1>20 DEF Copy
  <2>2. CASE Destroy({"pBuf"}) /\ Fail("InvalidFile")
    <3>1. PointersTyped'
      BY <1>16, <1>18, <2>2
    <3> QED BY <1>20, <2>1, <2>2, <3>1 DEF Fail, LoadInv, TypeOK, file, PointersTyped
  <2>3. CASE /\ Move("pBuf", to) /\ pc' = then
             /\ code' = IF here = "code" THEN file.words ELSE code
             /\ UNCHANGED <<k, pads, result>>
    <3>1. PointersTyped'
      BY <1>17, <1>18, <2>3
    <3>2. file.words \in [DOMAIN file.words -> 0 .. Half - 1]
      BY <1>0, <2>1, <1>20, FileAssumption
    <3>3. /\ code' \in [DOMAIN code' -> 0 .. Half - 1]
          /\ code' = file.words
      BY <1>20, <2>1, <2>3, <3>2 DEF LoadInv
    <3> QED BY <1>20, <2>1, <2>3, <3>1, <3>3 DEF LoadInv, TypeOK, file, PointersTyped
  <2> QED BY <1>20, <2>2, <2>3 DEF Copy
<1>21. CASE MoveImports
  <2>1. /\ pc = "move imports" /\ pc' = "trampolines" /\ Move("_imports", "pImports")
        /\ UNCHANGED <<disc, pos, code, k, pads, result, modules, leaked>>
    BY <1>21 DEF MoveImports
  <2>2. PointersTyped'
    BY <1>17, <2>1 DEF Pointers
  <2> QED BY <2>1, <2>2 DEF LoadInv, TypeOK, file, PointersTyped
<1>5. CASE NoImports
  BY <1>5 DEF NoImports, LoadInv, TypeOK, file
<1>6. CASE AllocateTrampolines
  <2>1. pc = "trampolines" /\ UNCHANGED <<disc, pos, taken, ptr, code, k, pads, result, modules>>
    BY <1>6 DEF AllocateTrampolines
  <2>2. PICK n : n = Cardinality({i \in DOMAIN file.relocs : file.relocs[i].type = SdaType})
    OBVIOUS
  <2>3. n \in Nat
    <3>1. \A i \in SdaRelocs(file) : i <= Len(file.relocs)
      BY <1>0, <2>1, RelocsTyped DEF SdaRelocs
    <3>2. {j \in SdaRelocs(file) : j <= Len(file.relocs)} = SdaRelocs(file)
      BY <3>1
    <3>3. IsFiniteSet(SdaRelocs(file))
      BY <1>0, <2>1, <3>2, RelocsTyped
    <3>4. n = Cardinality(SdaRelocs(file))
      BY <2>2, Zenon DEF SdaRelocs
    <3> QED BY <3>3, <3>4, FS_CardinalityType
  <2>4. /\ pc' \in {"relocate", "halted"}
        /\ leaked' \in 0 .. SystemRoom
    BY <1>6, <2>2, <2>3, MemoryAssumption, AddressAssumption DEF AllocateTrampolines, LoadInv, TypeOK
  <2>5. k = 1 /\ pads = <<>> /\ code = file.words
    BY <2>1 DEF LoadInv
  <2>6. Relocated(file.words, <<>>, file, 1)
    <3>1. file.words \in [DOMAIN file.words -> 0 .. Half - 1]
      BY <1>0, <2>1, FileAssumption
    <3>2. {j \in SdaRelocs(file) : j < 1} = {}
      BY <1>0, <2>1, RelocsTyped DEF SdaRelocs
    <3>3. Len(<<>>) = Cardinality({j \in SdaRelocs(file) : j < 1})
      BY <3>2, FS_EmptySet
    <3>4. \A i \in DOMAIN file.relocs : ~(i < 1)
      BY <1>0, <2>1, RelocsTyped
    <3> QED BY <3>1, <3>3, <3>4 DEF Relocated
  <2>7. 1 \in 1 .. Len(file.relocs) + 1
    BY <1>0, <2>1, RelocsTyped
  <2> QED BY <2>1, <2>4, <2>5, <2>6, <2>7 DEF LoadInv, TypeOK, file
<1>7. CASE Relocate
  <2> DEFINE r == file.relocs[k]
  <2>1. /\ pc = "relocate" /\ k <= Len(file.relocs)
        /\ UNCHANGED <<disc, pos, taken, ptr, modules, leaked>>
        /\ \/ Refused(r) /\ Fail("BadReloc")
           \/ /\ ~Refused(r)
              /\ \E source \in Sources(r) :
                   /\ code' = Apply(code, r.type, r.at, CodeBase + r.at, source, NextPad)
                   /\ pads' = IF r.type = SdaType
                              THEN Append(pads, Trampoline(source, CodeBase + r.at, NextPad))
                              ELSE pads
              /\ k' = k + 1 /\ UNCHANGED <<pc, result>>
    BY <1>7, Zenon DEF Relocate
  <2>2. CASE Refused(r) /\ Fail("BadReloc")
    BY <2>1, <2>2 DEF Fail, LoadInv, TypeOK, file
  <2>3. CASE ~Refused(r)
    <3>1. PICK source \in Sources(r) :
            /\ code' = Apply(code, r.type, r.at, CodeBase + r.at, source, NextPad)
            /\ pads' = IF r.type = SdaType
                       THEN Append(pads, Trampoline(source, CodeBase + r.at, NextPad))
                       ELSE pads
      BY <2>1, <2>3, Zenon
    <3>2. k' = k + 1 /\ UNCHANGED <<pc, result>>
      BY <2>1, <2>3, Zenon
    <3>3. k \in 1 .. Len(file.relocs) + 1 /\ Relocated(code, pads, file, k)
      BY <2>1 DEF LoadInv
    <3>4. file \in Files /\ Len(file.relocs) \in Nat /\ k \in DOMAIN file.relocs
      BY <1>0, <2>1, <3>3, RelocsTyped
    <3>5. r.type \in Types
      BY <2>3, Zenon DEF Refused
    <3>6. NextPad = Pads + 12 * Len(pads)
      BY DEF NextPad
    <3>7. Relocated(code', pads', file, k + 1)
      BY <3>1, <3>3, <3>4, <3>5, <3>6, RelocatedNext, Zenon
    <3>8. file' = file
      BY <2>1 DEF file
    <3>9. /\ code' \in [DOMAIN file.words -> 0 .. Half - 1] /\ pads' \in Seq(PadType)
      BY <3>7, Zenon DEF Relocated
    <3>10. code' \in [DOMAIN code' -> 0 .. Half - 1]
      BY <3>9
    <3>11. k + 1 \in 1 .. Len(file.relocs) + 1
      BY <2>1, <3>3, <3>4
    <3> QED BY <2>1, <3>2, <3>7, <3>8, <3>9, <3>10, <3>11 DEF LoadInv, TypeOK
  <2> QED BY <2>1, <2>2, <2>3
<1>8. CASE Publish
  <2> DEFINE new == [file |-> file, code |-> code, pads |-> pads, data |-> ptr["pCode"]]
  <2>1. /\ pc = "relocate" /\ pc' = "return" /\ k > Len(file.relocs)
        /\ modules' = Append(modules, new) /\ ptr' = [ptr EXCEPT !["pCode"] = Null]
        /\ UNCHANGED <<disc, pos, taken, code, k, pads, leaked>>
    BY <1>8 DEF Publish
  <2>8. PointersTyped' /\ ptr["pCode"] \in Blocks \cup {Null}
    BY <1>18, <1>19, <2>1 DEF PointersTyped
  <2>2. /\ k \in 1 .. Len(file.relocs) + 1 /\ Relocated(code, pads, file, k)
        /\ file \in Files /\ Len(file.relocs) \in Nat
    BY <1>0, <2>1, RelocsTyped DEF LoadInv
  <2>3. k = Len(file.relocs) + 1
    BY <2>1, <2>2
  <2>4. new \in Loaded
    BY <2>2, <2>8, Zenon DEF Loaded, Relocated
  <2>5. /\ modules \in Seq(Loaded)
        /\ \A m \in DOMAIN modules :
             Relocated(modules[m].code, modules[m].pads, modules[m].file,
                       Len(modules[m].file.relocs) + 1)
    BY DEF LoadInv
  <2>6. /\ modules' \in Seq(Loaded)
        /\ \A m \in DOMAIN modules' : \/ m \in DOMAIN modules /\ modules'[m] = modules[m]
                                      \/ modules'[m] = new
    BY <2>1, <2>4, <2>5
  <2>7. \A m \in DOMAIN modules' :
          Relocated(modules'[m].code, modules'[m].pads, modules'[m].file,
                    Len(modules'[m].file.relocs) + 1)
    <3>1. new.file = file /\ new.code = code /\ new.pads = pads
      OBVIOUS
    <3> HIDE DEF new
    <3> QED BY <2>2, <2>3, <2>5, <2>6, <3>1, Zenon
  <2> QED BY <2>1, <2>6, <2>7, <2>8 DEF LoadInv, TypeOK, PointersTyped
<1>9. CASE Return
  <2>1. /\ pc = "return" /\ pc' \in {"loaded", "fatal"} /\ Destroy(Pointers \ {"kxmodule"})
        /\ UNCHANGED <<disc, pos, code, k, pads, result, modules, leaked>>
    BY <1>9 DEF Return
  <2>2. PointersTyped'
    BY <1>16, <2>1
  <2> QED BY <2>1, <2>2 DEF LoadInv, TypeOK, file, PointersTyped
<1>22. CASE EndOfBody
  <2>1. /\ pc = "loaded" /\ pc' = "idle" /\ Destroy({"kxmodule"})
        /\ UNCHANGED <<disc, pos, code, k, pads, result, modules, leaked>>
    BY <1>22 DEF EndOfBody
  <2>2. PointersTyped'
    BY <1>16, <1>18, <2>1
  <2> QED BY <2>1, <2>2 DEF LoadInv, TypeOK, file, PointersTyped
<1>23. CASE Unload
  <2>1. /\ pc = "idle" /\ modules' = <<>>
        /\ taken' = taken \ {modules[m].data : m \in DOMAIN modules}
        /\ UNCHANGED <<disc, pos, pc, ptr, code, k, pads, result, leaked>>
    BY <1>23 DEF Unload
  <2>2. PointersTyped'
    BY <1>19, <2>1 DEF PointersTyped
  <2>3. modules' \in Seq(Loaded) /\ DOMAIN modules' = {}
    BY <2>1
  <2> QED BY <2>1, <2>2, <2>3 DEF LoadInv, TypeOK, file, PointersTyped
<1>10. CASE UNCHANGED vars
  BY <1>10 DEF vars, LoadInv, TypeOK, file
<1>24. CASE \/ Copy("code", "pCode", "relocations")
            \/ Copy("relocations", "pRelocs", "imports")
            \/ Copy("imports", "_imports", "move imports")
  BY <1>20, <1>24 DEF Pointers
<1>25. CASE Allocate("code") \/ Allocate("relocations") \/ Allocate("imports")
  BY <1>4, <1>25
<1> QED BY <1>1, <1>2, <1>3, <1>5, <1>6, <1>7, <1>8, <1>9, <1>10, <1>21, <1>22, <1>23,
          <1>24, <1>25, Zenon DEF Next

\* The invariant of loading.
LEMMA LoadInvariance ==
  ASSUME RealWidths, FilesFit
  PROVE  Spec => []LoadInv
<1>1. Init => LoadInv
  <2> SUFFICES ASSUME Init PROVE LoadInv
    OBVIOUS
  <2>1. Len(disc) \in Nat /\ SystemRoom \in Nat
    BY FileTyped, MemoryAssumption, AddressAssumption DEF Init
  <2> QED BY <2>1 DEF Init, LoadInv, TypeOK
<1>2. LoadInv /\ [Next]_vars => LoadInv'
  BY LoadInvNext
<1> QED BY <1>1, <1>2, PTL DEF Spec

\* Every halfword, trampoline and index that loading produces is in its range.
THEOREM TypeCorrect ==
  ASSUME RealWidths, FilesFit
  PROVE  Spec => []TypeOK
<1>1. LoadInv => TypeOK
  BY DEF LoadInv
<1> QED BY <1>1, LoadInvariance, PTL

\* What is loaded is linked: the code of every loaded module denotes at each of its
\* relocations the address that the relocation names, whatever the order of the
\* relocations and whatever failed before.
THEOREM CodeIsLinked ==
  ASSUME RealWidths, FilesFit
  PROVE  Spec => []LoadedIsLinked
<1>1. LoadInv => LoadedIsLinked
  <2> SUFFICES ASSUME LoadInv, NEW m \in DOMAIN modules, NEW i \in DOMAIN modules[m].file.relocs
               PROVE  Linked(modules[m].code, modules[m].file, i)
    BY Zenon DEF LoadedIsLinked
  <2>1. modules[m].file \in Files
    <3>1. modules[m] \in Loaded
      <4>1. modules \in Seq(Loaded)
        BY Zenon DEF LoadInv
      <4> QED BY <4>1, LenProperties
    <3> QED BY <3>1, Zenon DEF Loaded
  <2>2. i < Len(modules[m].file.relocs) + 1
    BY <2>1, RelocsTyped
  <2> QED BY <2>2, Zenon DEF LoadInv, Relocated
<1> QED BY <1>1, LoadInvariance, PTL

\* Every EMB_SDA21 relocation of a loaded module leads to its own trampoline and
\* back behind itself, however many there are and in whatever order.
THEOREM TrampolinesReturn ==
  ASSUME RealWidths, FilesFit, PadsInReach
  PROVE  Spec => []TrampolineReturns
<1>1. LoadInv => TrampolineReturns
  <2> SUFFICES ASSUME LoadInv, NEW m \in DOMAIN modules, NEW i \in SdaRelocs(modules[m].file)
               PROVE  Returns(modules[m].code, modules[m].pads, modules[m].file, i)
    BY Zenon DEF TrampolineReturns
  <2>1. modules[m].file \in Files
    <3>1. modules[m] \in Loaded
      <4>1. modules \in Seq(Loaded)
        BY Zenon DEF LoadInv
      <4> QED BY <4>1, LenProperties
    <3> QED BY <3>1, Zenon DEF Loaded
  <2>2. i \in DOMAIN modules[m].file.relocs
    BY DEF SdaRelocs
  <2>3. i < Len(modules[m].file.relocs) + 1
    BY <2>1, <2>2, RelocsTyped
  <2> QED BY <2>2, <2>3, Zenon DEF LoadInv, Relocated
<1> QED BY <1>1, LoadInvariance, PTL

-----------------------------------------------------------------------------
\* The converter.  Arithmetic of alignment, what it is given, and images.

\* Division with remainder.
LEMMA Division ==
  ASSUME NEW a \in Int, NEW n \in Nat \ {0}
  PROVE  /\ a \div n \in Int /\ a % n \in 0 .. n - 1
         /\ a = (a \div n) * n + (a % n)
BY SMT

\* Products of integers are integers.
LEMMA ProductInt ==
  ASSUME NEW q \in Int, NEW n \in Int
  PROVE  q * n \in Int
BY SMT

\* What is a multiple has no remainder.
LEMMA Multiple ==
  ASSUME NEW q \in Int, NEW n \in Nat \ {0}
  PROVE  (q * n) % n = 0
<1> DEFINE a == q * n
           p == a \div n
           r == a % n
<1>0. a \in Int
  BY ProductInt
<1>1. p \in Int /\ r \in 0 .. n - 1 /\ a = p * n + r
  <2> HIDE DEF a
  <2> QED BY <1>0, Division
<1>2. (q - p) * n = r
  <2>1. q * n = p * n + r
    BY <1>1 DEF a
  <2>2. (q - p) * n = q * n - p * n
    <3> HIDE DEF p, r, a
    <3> QED BY <1>1, SMT
  <2> HIDE DEF p, r, a
  <2>3. p * n \in Int /\ q * n \in Int
    BY <1>1, ProductInt
  <2> QED BY <1>1, <2>1, <2>2, <2>3
<1> HIDE DEF p, r
<1>3. q - p <= 0
  <2> SUFFICES ASSUME q - p >= 1 PROVE FALSE
    BY <1>1
  <2>1. (q - p) * n >= n
    BY <1>1, SMT
  <2> QED BY <1>1, <1>2, <2>1
<1>4. q - p >= 0
  <2> SUFFICES ASSUME q - p <= -1 PROVE FALSE
    BY <1>1
  <2>1. (q - p) * n <= -n
    BY <1>1, SMT
  <2> QED BY <1>1, <1>2, <2>1
<1>5. q - p = 0
  BY <1>1, <1>3, <1>4
<1>6. r = 0
  BY <1>1, <1>2, <1>5
<1> QED BY <1>6 DEF r

\* Divisibility: sums, multiples of multiples, and what is left after cutting.
LEMMA Divides ==
  ASSUME NEW n \in Nat \ {0}, NEW a \in Int, a % n = 0
  PROVE  /\ \A b \in Int : b % n = 0 => (a + b) % n = 0 /\ (a - b) % n = 0
         /\ \A m \in Nat \ {0} : n % m = 0 => a % m = 0
         /\ \A b \in Nat \ {0} : b % n = 0 => (a % b) % n = 0
<1>1. PICK q \in Int : a = q * n
  <2>1. a = (a \div n) * n + (a % n) /\ a \div n \in Int
    BY Division
  <2> DEFINE q == a \div n
  <2>2. q \in Int /\ q * n \in Int
    BY <2>1, ProductInt
  <2>3. a = q * n
    BY <2>1, <2>2
  <2> QED BY <2>2, <2>3
<1>2. ASSUME NEW b \in Int, b % n = 0 PROVE \E p \in Int : b = p * n
  <2>1. b = (b \div n) * n + (b % n) /\ b \div n \in Int
    BY Division
  <2> DEFINE p == b \div n
  <2>2. p \in Int /\ p * n \in Int
    BY <2>1, ProductInt
  <2>3. b = p * n
    BY <1>2, <2>1, <2>2
  <2> QED BY <2>2, <2>3
<1>3. ASSUME NEW b \in Int, b % n = 0
      PROVE  (a + b) % n = 0 /\ (a - b) % n = 0
  <2>1. PICK p \in Int : b = p * n
    BY <1>2, <1>3
  <2>2. a + b = (q + p) * n /\ a - b = (q - p) * n /\ q + p \in Int /\ q - p \in Int
    BY <1>1, <2>1, SMT
  <2>3. ((q + p) * n) % n = 0 /\ ((q - p) * n) % n = 0
    BY <2>2, Multiple
  <2> QED BY <2>2, <2>3
<1>4. ASSUME NEW m \in Nat \ {0}, n % m = 0
      PROVE  a % m = 0
  <2>1. n = (n \div m) * m + (n % m) /\ n \div m \in Int
    BY Division
  <2> DEFINE z == n \div m
  <2>2. z \in Int /\ n = z * m
    <3>1. z * m \in Int
      BY <2>1, ProductInt
    <3> QED BY <1>4, <2>1, <3>1
  <2> HIDE DEF z
  <2>3. a = (q * z) * m /\ q * z \in Int
    <3>1. q * (z * m) = (q * z) * m
      BY <2>2, SMT
    <3> QED BY <1>1, <2>2, <3>1, ProductInt
  <2>4. ((q * z) * m) % m = 0
    BY <2>3, Multiple
  <2> QED BY <2>3, <2>4
<1>5. ASSUME NEW b \in Nat \ {0}, b % n = 0
      PROVE  (a % b) % n = 0
  <2>1. PICK p \in Int : b = p * n
    BY <1>2, <1>5
  <2> DEFINE z == a \div b
  <2>2. z \in Int /\ a % b \in Int /\ a = z * b + (a % b)
    BY Division
  <2> HIDE DEF z
  <2>3. z * b = (z * p) * n /\ z * p \in Int
    <3>1. z * (p * n) = (z * p) * n
      BY <2>2, SMT
    <3> QED BY <2>1, <2>2, <3>1, ProductInt
  <2>4. a % b = (q - z * p) * n
    <3>1. (q - z * p) * n = q * n - (z * p) * n
      BY <2>3, SMT
    <3>2. (z * p) * n \in Int /\ q * n \in Int
      BY <2>3, ProductInt
    <3> DEFINE x == (z * p) * n
               y == q * n
               r == a % b
    <3>3. x \in Int /\ y \in Int /\ r \in Int /\ y = x + r
      BY <1>1, <2>2, <2>3, <3>2
    <3>4. (q - z * p) * n = y - x
      BY <3>1
    <3> HIDE DEF x, y
    <3> QED BY <3>3, <3>4
  <2>5. ((q - z * p) * n) % n = 0
    <3>1. q - z * p \in Int
      BY <2>3
    <3> QED BY <3>1, Multiple
  <2> QED BY <2>4, <2>5
<1> QED BY <1>3, <1>4, <1>5

\* Rounding up: to a multiple, not below, and even when the alignment is.
LEMMA RoundsUp ==
  ASSUME NEW size \in Nat, NEW align \in Nat
  PROVE  /\ roundUp(size, align) \in Nat /\ size <= roundUp(size, align)
         /\ align > 0 => roundUp(size, align) % align = 0
         /\ (size % 2 = 0 /\ (align > 1 => align % 2 = 0)) => roundUp(size, align) % 2 = 0
<1>1. CASE align = 0
  BY <1>1 DEF roundUp
<1>2. CASE align # 0
  <2> DEFINE a == size + align - 1
             q == a \div align
  <2>1. a \in Nat /\ q \in Int /\ a % align \in 0 .. align - 1 /\ a = q * align + (a % align)
    <3>1. a \in Nat
      BY <1>2
    <3> HIDE DEF a
    <3> QED BY <1>2, <3>1, Division
  <2>2. roundUp(size, align) = q * align
    BY <1>2 DEF roundUp
  <2>3. q * align \in Int
    BY <2>1, ProductInt
  <2> DEFINE p == q * align
  <2>4. size <= p
    <3>1. p \in Int /\ a \in Int /\ a % align \in 0 .. align - 1 /\ a = p + (a % align)
      BY <2>1, <2>3
    <3> HIDE DEF p
    <3> QED BY <1>2, <3>1
  <2>5. p % align = 0
    BY <1>2, <2>1, Multiple
  <2>6. CASE align = 1
    <3>1. q = size /\ p = q
      BY <2>6
    <3> QED BY <2>2, <2>3, <2>4, <2>5, <2>6, <3>1
  <2>7. CASE align # 1
    <3>1. align % 2 = 0 => p % 2 = 0
      <4>1. p \in Int /\ align \in Nat \ {0}
        BY <1>2, <2>3
      <4> HIDE DEF p
      <4>2. \A m \in Nat \ {0} : align % m = 0 => p % m = 0
        BY <2>5, <4>1, Divides
      <4>3. 2 \in Nat \ {0}
        OBVIOUS
      <4> QED BY <4>2, <4>3, Zenon
    <3> HIDE DEF p
    <3>2. roundUp(size, align) = p /\ p \in Nat
      BY <2>2, <2>3, <2>4 DEF p
    <3> QED BY <1>2, <2>4, <2>5, <2>7, <3>1, <3>2
  <2> QED BY <2>6, <2>7
<1> QED BY <1>1, <1>2

\* What the converter is given, section by section.
LEMMA InputTyped ==
  ASSUME NEW object \in Inputs
  PROVE  /\ Cardinality(Sections(object)) \in Nat /\ 0 \in Sections(object)
         /\ Sections(object) = 0 .. Cardinality(Sections(object)) - 1
         /\ \A i \in Sections(object) :
              /\ object.sections[i].words \in Seq(0 .. Half - 1)
              /\ object.sections[i].align \in Nat
              /\ object.sections[i].align > 1 => object.sections[i].align % 2 = 0
              /\ object.sections[i].align \in 1 .. FileAlign =>
                   FileAlign % object.sections[i].align = 0
         /\ object.symbols \in Seq(Range(object.symbols))
         /\ \A z \in DOMAIN object.symbols :
              /\ object.symbols[z].name \in DOMAIN Table
              /\ object.symbols[z].section \in Sections(object) \cup {SHN_ABS}
              /\ object.symbols[z].value \in 0 .. Full - 1
         /\ object.length \in [DOMAIN Table -> Nat]
<1> DEFINE card == Cardinality(Sections(object))
           S == [name : SymbolNames(object), section : Sections(object) \cup {SHN_ABS},
                 value : 0 .. Full - 1]
<1>1. /\ IsFiniteSet(Sections(object)) /\ 0 \in Sections(object)
      /\ Sections(object) = 0 .. Cardinality(Sections(object)) - 1
      /\ object.symbols \in Seq(S)
      /\ SymbolNames(object) \subseteq DOMAIN Table
      /\ object.length \in [DOMAIN Table -> Nat]
  BY InputAssumption
<1>2. card \in Nat
  BY <1>1, FS_CardinalityType
<1>3. \A i \in Sections(object) :
              /\ object.sections[i].words \in Seq(0 .. Half - 1)
              /\ object.sections[i].align \in Nat
              /\ object.sections[i].align > 1 => object.sections[i].align % 2 = 0
              /\ object.sections[i].align \in 1 .. FileAlign =>
                   FileAlign % object.sections[i].align = 0
  <2> TAKE i \in Sections(object)
  <2> DEFINE s == object.sections[i]
  <2>1. /\ s.words \in Seq(0 .. Half - 1) /\ s.align \in Nat
        /\ s.align > 1 => s.align % 2 = 0
        /\ s.align \in 1 .. FileAlign => FileAlign % s.align = 0
    BY InputAssumption
  <2> QED BY <2>1
<1>4. \A z \in DOMAIN object.symbols : object.symbols[z] \in S
  <2> HIDE DEF S
  <2> QED BY <1>1, LenProperties
<1>5. object.symbols \in Seq(Range(object.symbols))
  <2>1. \A z \in 1 .. Len(object.symbols) : object.symbols[z] \in Range(object.symbols)
    <3> HIDE DEF S
    <3> QED BY <1>1, LenProperties DEF Range
  <2> HIDE DEF S
  <2> QED BY <1>1, <2>1, SeqOfElements
<1>6. \A z \in DOMAIN object.symbols :
              /\ object.symbols[z].name \in DOMAIN Table
              /\ object.symbols[z].section \in Sections(object) \cup {SHN_ABS}
              /\ object.symbols[z].value \in 0 .. Full - 1
  BY <1>1, <1>4
<1> QED BY <1>1, <1>2, <1>3, <1>5, <1>6

\* The relocations of the kept and of all other sections.
LEMMA EntriesTyped ==
  ASSUME NEW object \in Inputs
  PROVE  /\ EntriesOf(object) \in Seq(Range(EntriesOf(object)))
         /\ \A z \in DOMAIN EntriesOf(object) :
              LET e == EntriesOf(object)[z]
              IN  /\ e.section \in Sections(object) /\ e.offset \in Nat
                  /\ e.symbol \in Nat /\ e.addend \in Int
<1> DEFINE card == Cardinality(Sections(object))
           entries(i) == object.sections[i].entries
           T(i) == {entries(i)[j].type : j \in DOMAIN entries(i)}
           R(t) == [type : t, section : Sections(object), offset : Nat, symbol : Nat,
                    addend : Int]
           All == UNION {T(i) : i \in Sections(object)}
           S == Seq(R(All))
           of(s) == IF s.type = "RELA" /\ s.name # ".rela.eh_frame" THEN s.entries ELSE <<>>
           step == [i \in 1 .. card |-> [u \in S |-> u \o of(object.sections[i - 1])]]
           loop(f) == f = [i \in 0 .. card |->
                             IF i = 0 THEN <<>> ELSE f[i - 1] \o of(object.sections[i - 1])]
           upTo == CHOOSE f : loop(f)
<1>1. card \in Nat /\ Sections(object) = 0 .. card - 1
  BY InputTyped
<1>2. ASSUME NEW i \in Sections(object) PROVE entries(i) \in S
  <2>1. entries(i) \in Seq(R(T(i)))
    BY InputAssumption
  <2>2. R(T(i)) \subseteq R(All)
    OBVIOUS
  <2> HIDE DEF R, T, All, entries
  <2>3. \A j \in 1 .. Len(entries(i)) : entries(i)[j] \in R(All)
    BY <2>1, <2>2, LenProperties
  <2> QED BY <2>1, <2>3, SeqOfElements
<1>3. ASSUME NEW i \in 1 .. card, NEW u \in S
      PROVE  u \o of(object.sections[i - 1]) \in S
  <2>1. i - 1 \in Sections(object)
    BY <1>1
  <2>2. of(object.sections[i - 1]) \in S
    <3>1. <<>> \in S
      OBVIOUS
    <3> HIDE DEF S
    <3> QED BY <1>2, <2>1, <3>1
  <2> HIDE DEF of, R
  <2> QED BY <2>2, ConcatProperties
<1>4. EntriesOf(object) = upTo[card]
  BY DEF EntriesOf
<1>5. <<>> \in S
  OBVIOUS
<1> HIDE DEF S, of
<1>6. step \in Steps(S, card)
  BY <1>3 DEF Steps
<1> HIDE DEF step
<1>7. PICK g : Iterates(g, S, <<>>, card, step)
  <2> HIDE DEF card
  <2> QED BY <1>1, <1>5, <1>6, Iteration
<1>8. loop(g)
  <2>1. g \in [0 .. card -> S] /\ \A i \in 1 .. card : i - 1 \in 0 .. card
    BY <1>1, <1>7 DEF Iterates
  <2>2. \A i \in 1 .. card : step[i][g[i - 1]] = g[i - 1] \o of(object.sections[i - 1])
    BY <2>1 DEF step
  <2>3. g = [i \in 0 .. card |-> IF i = 0 THEN <<>> ELSE step[i][g[i - 1]]]
    BY <1>7 DEF Iterates
  <2>4. \A i \in 0 .. card : i # 0 => i \in 1 .. card
    BY <1>1
  <2> QED BY <2>2, <2>3, <2>4
<1>9. loop(upTo)
  <2> HIDE DEF loop
  <2> QED BY <1>8
<1> HIDE DEF upTo
<1>10. upTo[card] \in S
  <2>1. upTo[0] \in S /\ card \in 0 .. card
    BY <1>1, <1>5, <1>9
  <2>2. ASSUME NEW i \in 1 .. card, upTo[i - 1] \in S PROVE upTo[i] \in S
    <3>1. i \in 0 .. card /\ i # 0
      BY <1>1
    <3>2. upTo[i] = upTo[i - 1] \o of(object.sections[i - 1])
      BY <1>9, <3>1
    <3> QED BY <1>3, <2>2, <3>2
  <2> HIDE DEF loop, card
  <2> QED BY <1>1, <2>1, <2>2, HandedOn
<1>11. EntriesOf(object) \in Seq(R(All))
  BY <1>4, <1>10 DEF S
<1> HIDE DEF R, All
<1>12. \A z \in 1 .. Len(EntriesOf(object)) : EntriesOf(object)[z] \in Range(EntriesOf(object))
  BY <1>11, LenProperties DEF Range
<1>13. EntriesOf(object) \in Seq(Range(EntriesOf(object)))
  BY <1>11, <1>12, SeqOfElements
<1>14. \A z \in DOMAIN EntriesOf(object) : EntriesOf(object)[z] \in R(All)
  BY <1>11, LenProperties
<1> QED BY <1>13, <1>14 DEF R

\* Halfwords from 0 up to, but not including, index size.
Image(img, size) == size \in Nat /\ img \in [0 .. size - 1 -> 0 .. Half - 1]

\* So many bytes of a file they are, behind the header.
LEMMA SizeOfImage ==
  ASSUME NEW size \in Nat, NEW img, DOMAIN img = 0 .. size - 1
  PROVE  Cardinality(DOMAIN img) = size /\ FileSize(img) = HeaderSize + 2 * size
<1>1. Cardinality(0 .. size - 1) = size
  BY FS_Interval
<1> QED BY <1>1 DEF FileSize

\* As many zeros as halfwords are in the bytes.
LEMMA ZerosAre ==
  ASSUME NEW bytes \in Nat
  PROVE  /\ Zeros(bytes) \in Seq(0 .. Half - 1) /\ Len(Zeros(bytes)) = bytes \div 2
         /\ \A i \in 1 .. bytes \div 2 : Zeros(bytes)[i] = 0
<1>1. bytes \div 2 \in Nat /\ 0 \in 0 .. Half - 1
  BY WidthAssumption
<1> DEFINE m == bytes \div 2
<1>2. Zeros(bytes) = [i \in 1 .. m |-> 0] /\ m \in Nat
  BY <1>1 DEF Zeros
<1> HIDE DEF m
<1>3. [i \in 1 .. m |-> 0] \in Seq(0 .. Half - 1)
  BY <1>1, <1>2
<1>4. Len([i \in 1 .. m |-> 0]) = m
  BY <1>2
<1> QED BY <1>2, <1>3, <1>4 DEF m

\* What is appended stands behind what was there.
LEMMA ExtendedIs ==
  ASSUME NEW size, NEW img, Image(img, size), NEW words \in Seq(0 .. Half - 1)
  PROVE  /\ Image(Extended(img, words), size + Len(words))
         /\ \A i \in 0 .. size - 1 : Extended(img, words)[i] = img[i]
         /\ \A j \in 1 .. Len(words) : Extended(img, words)[size + j - 1] = words[j]
<1>1. size \in Nat /\ DOMAIN img = 0 .. size - 1 /\ Len(words) \in Nat
      /\ Cardinality(DOMAIN img) = size /\ size + Len(words) \in Nat
  BY SizeOfImage, LenProperties DEF Image
<1>2. Extended(img, words)
        = [i \in 0 .. size + Len(words) - 1 |-> IF i < size THEN img[i] ELSE words[i - size + 1]]
  BY <1>1 DEF Extended
<1>3. ASSUME NEW i \in 0 .. size + Len(words) - 1
      PROVE  (IF i < size THEN img[i] ELSE words[i - size + 1]) \in 0 .. Half - 1
  <2>1. CASE i < size
    <3>1. i \in 0 .. size - 1
      BY <1>1, <2>1
    <3> QED BY <2>1, <3>1 DEF Image
  <2>2. CASE ~(i < size)
    <3>1. i - size + 1 \in 1 .. Len(words)
      BY <1>1, <2>2
    <3>2. words[i - size + 1] \in 0 .. Half - 1
      BY <3>1, LenProperties
    <3> QED BY <2>2, <3>2
  <2> QED BY <2>1, <2>2
<1>4. Image(Extended(img, words), size + Len(words))
  BY <1>1, <1>2, <1>3 DEF Image
<1>5. ASSUME NEW i \in 0 .. size - 1 PROVE Extended(img, words)[i] = img[i]
  BY <1>1, <1>2
<1>6. ASSUME NEW j \in 1 .. Len(words) PROVE Extended(img, words)[size + j - 1] = words[j]
  <2>1. size + j - 1 \in 0 .. size + Len(words) - 1 /\ ~(size + j - 1 < size)
        /\ (size + j - 1) - size + 1 = j
    BY <1>1
  <2> QED BY <1>2, <2>1
<1> QED BY <1>4, <1>5, <1>6

\* An even size of the header.
LEMMA HeaderEven == HeaderSize \in Nat /\ HeaderSize % 2 = 0 /\ HeaderSize % 4 = 0
<1>1. HeaderSize \in Nat /\ FileAlign \in Nat \ {0} /\ HeaderSize % FileAlign = 0
      /\ FileAlign % 4 = 0
  BY AlignmentAssumption
<1>2. 4 \in Nat \ {0}
  OBVIOUS
<1>3. HeaderSize % 4 = 0
  <2>1. HeaderSize \in Int /\ FileAlign \in Nat \ {0}
    BY <1>1
  <2>2. \A m \in Nat \ {0} : FileAlign % m = 0 => HeaderSize % m = 0
    BY <1>1, <2>1, Divides, Zenon
  <2> QED BY <1>1, <1>2, <2>2, Zenon
<1> QED BY <1>1, <1>3, SMT

\* Zeros up to the next multiple of the alignment.
LEMMA AlignedIs ==
  ASSUME NEW size, NEW img, Image(img, size), NEW align \in Nat,
         align > 1 => align % 2 = 0
  PROVE  \E next \in Nat :
           /\ size <= next /\ Image(Aligned(img, align), next)
           /\ \A i \in 0 .. size - 1 : Aligned(img, align)[i] = img[i]
           /\ align > 0 => (HeaderSize + 2 * next) % align = 0
<1> DEFINE old == HeaderSize + 2 * size
           new == roundUp(old, align)
           gap == new - old
<1>1. size \in Nat /\ DOMAIN img = 0 .. size - 1
  BY DEF Image
<1>2. FileSize(img) = old /\ old \in Nat /\ old % 2 = 0
  BY <1>1, SizeOfImage, HeaderEven
<1>3. new \in Nat /\ old <= new /\ (align > 0 => new % align = 0) /\ new % 2 = 0
  <2> HIDE DEF old
  <2> QED BY <1>2, RoundsUp
<1>4. gap \in Nat /\ gap \div 2 \in Nat /\ new = old + 2 * (gap \div 2)
  <2> HIDE DEF old, new
  <2> QED BY <1>2, <1>3
<1>5. Aligned(img, align) = Extended(img, Zeros(gap))
  BY <1>2 DEF Aligned
<1> HIDE DEF gap, new
<1>6. Zeros(gap) \in Seq(0 .. Half - 1) /\ Len(Zeros(gap)) = gap \div 2
  BY <1>4, ZerosAre
<1>7. /\ Image(Aligned(img, align), size + (gap \div 2))
      /\ \A i \in 0 .. size - 1 : Aligned(img, align)[i] = img[i]
  BY <1>5, <1>6, ExtendedIs
<1>8. size + (gap \div 2) \in Nat /\ size <= size + (gap \div 2)
      /\ HeaderSize + 2 * (size + (gap \div 2)) = new
  BY <1>1, <1>4, HeaderEven
<1> QED BY <1>3, <1>7, <1>8

-----------------------------------------------------------------------------
\* The invariant: the layout, what is left to relocate, and the code.

ImageSize == Cardinality(DOMAIN image)

\* Where in the image section i is, in halfwords.
Start(i) == (offsets[i + 1] - HeaderSize) \div 2
End(i) == Start(i) + Len(input.sections[i].words)

\* The sections that were kept are where section_offsets says, one behind the other.
OffsetsRight(size) ==
  /\ offsets \in Seq(Int) /\ Len(offsets) <= Cardinality(Sections(input))
  /\ \A i \in 0 .. Len(offsets) - 1 :
       offsets[i + 1] # Dropped <=> keep_section(input.sections[i])
  /\ \A i \in Kept : LET s == input.sections[i] IN
       /\ IsSectionTypeCodeData(s) \/ IsSectionTypeBss(s)
       /\ Start(i) \in Nat /\ offsets[i + 1] = HeaderSize + 2 * Start(i) /\ End(i) <= size
       /\ s.align > 0 => offsets[i + 1] % s.align = 0
  /\ \A i, j \in Kept : i < j => End(i) <= Start(j)

\* Their bytes are there.
ContentsRight ==
  \A i \in Kept : \A w \in 1 .. Len(input.sections[i].words) :
    image[Start(i) + w - 1] = SectionBytes(input.sections[i])[w]

\* The two symbols of the constructors enclose the last section of them.
SymbolsRight ==
  \A i \in CtorSections : (\A j \in CtorSections : j <= i) =>
    explicit["__ctor_loc"] = 2 * Start(i) /\ explicit["__ctor_end"] = 2 * End(i)

LaidOut == {"extract", "write", "written", "loaded", "refused"}

LayoutInv ==
  /\ input \in Inputs
  /\ stage \in LaidOut \cup {"arguments", "collect", "crashed", "failed"}
  /\ explicit \in [DOMAIN explicit -> Nat] /\ {"__ctor_loc", "__ctor_end"} \subseteq DOMAIN explicit
  /\ stage \notin LaidOut \ {"extract"} => Image(image, ImageSize)
  /\ stage \in {"arguments", "collect", "extract"} =>
       OffsetsRight(ImageSize) /\ ContentsRight /\ SymbolsRight
  /\ stage \in {"arguments", "collect"} => relocs = <<>> /\ imports = <<>>
  /\ stage = "arguments" => offsets = <<>> /\ reached = 0
  /\ stage = "collect" => reached = Len(offsets)
  /\ stage = "extract" => header.code[2] = FileSize(image)
  /\ stage \in LaidOut => SymbolsRight /\ Len(offsets) = Cardinality(Sections(input))
  /\ stage # "loaded" => memory = <<>>

\* An entry of the ELF file that leads to a relocation.
Wanted(e) ==
  /\ e.type # "NONE" /\ e.section \in Kept /\ e.symbol \in DOMAIN input.symbols
  /\ LET sym == input.symbols[e.symbol]
     IN  sym.section = SHN_ABS \/ IsExtern(sym) \/ sym.section \in Kept

\* What the loader will make of a source.
Target(source) ==
  CASE source.section = "code"             -> CodeBase + source.offset
    [] source.section \in {"static", "raw"} -> source.offset
    [] source.section = "import"           -> Table[imports[source.offset + 1]]

\* A relocation that says what entry e of the ELF file does.
Stands(r, e) ==
  LET sym == input.symbols[e.symbol]
  IN  /\ Wanted(e)
      /\ r = [type |-> r.type, at |-> r.at, addend |-> r.addend,
              source |-> [section |-> r.source.section, offset |-> r.source.offset]]
      /\ r.type = e.type /\ r.at = InCode(e.section, e.offset) /\ r.addend = e.addend
      /\ r.source.section \in {"code", "static", "raw", "import"}
      /\ r.source.section = "import" =>
           /\ IsImport(sym) /\ r.source.offset \in 0 .. Len(imports) - 1
           /\ imports[r.source.offset + 1] = sym.name
      /\ Target(r.source) = Meaning(sym)

RelocsInv ==
  stage \in LaidOut =>
    /\ imports \in Seq(DOMAIN Table) /\ relocs \in Seq(Range(relocs)) /\ reached \in Nat
    /\ \A j \in DOMAIN relocs : \E n \in DOMAIN Entries : Stands(relocs[j], Entries[n])
    /\ \A n \in DOMAIN Entries : (stage = "extract" => n < reached) =>
         LET e == Entries[n]
         IN  /\ e.type # "NONE" => e.symbol \in DOMAIN input.symbols
             /\ Wanted(e) => \/ \E j \in DOMAIN relocs : Stands(relocs[j], e)
                             \/ stage # "extract" /\ e.type \in StaticTypes
    /\ IF stage = "extract" THEN reached \in Nat \ {0}
       ELSE \A j \in DOMAIN relocs : ~IsStatic(relocs[j])
    /\ RefusedOnlyUnknown

\* The address that entry e is to lead to.
Leads(e) == (Meaning(input.symbols[e.symbol]) + e.addend) % Full

\* In img the processor finds it.
DoneIn(img, e) ==
  LET at == InCode(e.section, e.offset)
  IN  (/\ InAddressSpace /\ e.type \in Types \ {"NONE", SdaType}
       /\ Expressible(e.type, CodeBase + at, Leads(e))) =>
         Denoted(img, e.type, at, CodeBase + at, Leads(e)) = Leads(e)

\* Halfwords of a section that no relocation is for are as they were.
Untouched(img) ==
  InAddressSpace => \A i \in Kept : \A w \in 1 .. Len(input.sections[i].words) :
    (\A e \in Range(Entries) : e.section = i => w - 1 \notin Places(e.type, e.offset)) =>
      img[Start(i) + w - 1] = SectionBytes(input.sections[i])[w]

CodeInv ==
  /\ stage \in LaidOut \ {"extract"} =>
       Image(image, ImageSize) /\ OffsetsRight(ImageSize)
  /\ stage = "write" => header.code[2] = FileSize(image)
  /\ stage \in {"write", "written"} =>
       /\ Untouched(image)
       /\ \A e \in Range(Entries) : Wanted(e) =>
            DoneIn(image, e) \/ \E j \in DOMAIN relocs : Stands(relocs[j], e)
  /\ stage = "loaded" =>
       /\ Image(memory, ImageSize) /\ Untouched(memory)
       /\ \A e \in Range(Entries) : Wanted(e) => DoneIn(memory, e)
  /\ FileIsReadable

-----------------------------------------------------------------------------
\* The layout is kept by every step.

\* Before any section was met.
LEMMA NoneKept ==
  ASSUME input \in Inputs, offsets = <<>>
  PROVE  Len(offsets) = 0 /\ Kept = {} /\ CtorSections = {}
<1>1. Len(offsets) = 0
  OBVIOUS
<1>2. \A i \in DOMAIN input.sections : i \in Nat
  BY InputTyped DEF Sections
<1>3. Kept = {}
  BY <1>1, <1>2 DEF Kept
<1> QED BY <1>1, <1>3 DEF CtorSections

\* Nothing is laid out at first.
LEMMA InitLayout == ConverterInit => LayoutInv
<1> SUFFICES ASSUME ConverterInit PROVE LayoutInv
  OBVIOUS
<1>1. /\ input \in Inputs /\ stage = "arguments" /\ reached = 0 /\ offsets = <<>>
      /\ image = <<>> /\ relocs = <<>> /\ imports = <<>> /\ memory = <<>>
      /\ explicit = [s \in {"__ctor_loc", "__ctor_end"} |-> 0]
  BY DEF ConverterInit
<1>2. DOMAIN <<>> = 0 .. 0 - 1 /\ image \in [0 .. 0 - 1 -> 0 .. Half - 1]
  BY <1>1
<1>3. ImageSize = 0
  BY <1>1, <1>2, SizeOfImage DEF ImageSize
<1>4. Image(image, ImageSize)
  BY <1>2, <1>3 DEF Image
<1>5. Len(offsets) = 0 /\ Kept = {} /\ CtorSections = {}
  BY <1>1, NoneKept
<1>6. Cardinality(Sections(input)) \in Nat
  BY <1>1, InputTyped
<1>7. OffsetsRight(ImageSize)
  BY <1>1, <1>5, <1>6 DEF OffsetsRight
<1>8. ContentsRight /\ SymbolsRight
  BY <1>5 DEF ContentsRight, SymbolsRight
<1>9. explicit \in [DOMAIN explicit -> Nat] /\ {"__ctor_loc", "__ctor_end"} \subseteq DOMAIN explicit
  BY <1>1
<1> QED BY <1>1, <1>4, <1>5, <1>7, <1>8, <1>9 DEF LayoutInv, LaidOut

\* What stays with the sections, the image and the symbols.
LEMMA LayoutStays ==
  ASSUME LayoutInv, UNCHANGED <<input, explicit, offsets>>
  PROVE  /\ UNCHANGED <<Kept, CtorSections>> /\ SymbolsRight' = SymbolsRight
         /\ \A i : Start(i)' = Start(i) /\ End(i)' = End(i)
         /\ \A size : OffsetsRight(size)' = OffsetsRight(size)
         /\ image' = image => ContentsRight' = ContentsRight /\ ImageSize' = ImageSize
<1>1. UNCHANGED <<Kept, CtorSections>>
  BY DEF Kept, CtorSections
<1>2. \A i : Start(i)' = Start(i) /\ End(i)' = End(i)
  BY DEF Start, End
<1>3. SymbolsRight' = SymbolsRight
  BY <1>1, <1>2 DEF SymbolsRight
<1>4. \A size : OffsetsRight(size)' = OffsetsRight(size)
  BY <1>1, <1>2 DEF OffsetsRight
<1>5. image' = image => ContentsRight' = ContentsRight /\ ImageSize' = ImageSize
  BY <1>1, <1>2 DEF ContentsRight, ImageSize
<1> QED BY <1>1, <1>2, <1>3, <1>4, <1>5

\* Without a symbol file.
LEMMA ArgumentLayout ==
  ASSUME LayoutInv, NullArgument
  PROVE  LayoutInv'
<1>1. /\ stage = "arguments" /\ stage' = "crashed"
      /\ UNCHANGED <<input, explicit, offsets, image, memory>>
  BY DEF NullArgument, Stop
<1>2. ImageSize' = ImageSize
  BY <1>1 DEF ImageSize
<1> QED BY <1>1, <1>2 DEF LayoutInv, LaidOut, Image

\* The symbol file leaves the two symbols of the constructors in the map.
LEMMA SymbolsLayout ==
  ASSUME LayoutInv, readSymbols
  PROVE  LayoutInv'
<1> DEFINE lines == IF input.arguments = 3 THEN input.lines ELSE <<>>
           names == DOMAIN explicit \cup {lines[i].symbol : i \in DOMAIN lines}
           S == UNION {[D -> Nat] : D \in {x \in SUBSET names : {"__ctor_loc", "__ctor_end"} \subseteq x}}
           read(old, i) == IF lines[i].length > 3
                        THEN [s \in DOMAIN old \cup {lines[i].symbol} |->
                               IF s = lines[i].symbol THEN lines[i].value ELSE old[s]]
                        ELSE old
           step == [i \in 1 .. Len(lines) |-> [u \in S |-> read(u, i)]]
           loop(f) == f = [i \in 0 .. Len(lines) |->
             IF i = 0 THEN explicit
             ELSE IF lines[i].length > 3
             THEN [s \in DOMAIN f[i - 1] \cup {lines[i].symbol} |->
                     IF s = lines[i].symbol THEN lines[i].value ELSE f[i - 1][s]]
             ELSE f[i - 1]]
           after == CHOOSE f : loop(f)
<1>1. /\ stage = "arguments" /\ stage' \in {"collect", "failed"} /\ explicit' = after[Len(lines)]
      /\ UNCHANGED <<input, offsets, image, memory, reached, relocs, imports>>
  BY DEF readSymbols
<1>2. /\ input \in Inputs /\ explicit \in [DOMAIN explicit -> Nat]
      /\ {"__ctor_loc", "__ctor_end"} \subseteq DOMAIN explicit
      /\ Image(image, ImageSize) /\ OffsetsRight(ImageSize) /\ offsets = <<>> /\ reached = 0
      /\ relocs = <<>> /\ imports = <<>> /\ memory = <<>> /\ ContentsRight
  BY <1>1 DEF LayoutInv, LaidOut
<1>3. /\ Len(lines) \in Nat /\ DOMAIN lines = 1 .. Len(lines)
      /\ \A i \in 1 .. Len(lines) : lines[i].value \in Nat
  <2>1. CASE input.arguments = 3
    <3> DEFINE names3 == {input.lines[i].symbol : i \in DOMAIN input.lines}
               L == [symbol : names3, length : Nat, value : 0 .. Full - 1]
    <3>1. input.lines \in Seq(L)
      BY <1>2, InputAssumption
    <3>2. \A x \in L : x.value \in Nat
      OBVIOUS
    <3> HIDE DEF L
    <3> QED BY <2>1, <3>1, <3>2, LenProperties
  <2>2. CASE input.arguments # 3
    BY <2>2
  <2> QED BY <2>1, <2>2
<1>4. explicit \in S
  BY <1>2
<1>5. ASSUME NEW i \in 1 .. Len(lines), NEW u \in S PROVE read(u, i) \in S
  <2>1. PICK D \in SUBSET names : {"__ctor_loc", "__ctor_end"} \subseteq D /\ u \in [D -> Nat]
    OBVIOUS
  <2>2. CASE lines[i].length > 3
    <3>1. lines[i].symbol \in names /\ lines[i].value \in Nat
      BY <1>3
    <3> DEFINE E == D \cup {lines[i].symbol}
    <3>2. E \in SUBSET names /\ {"__ctor_loc", "__ctor_end"} \subseteq E
      BY <2>1, <3>1
    <3>3. read(u, i) = [s \in E |-> IF s = lines[i].symbol THEN lines[i].value ELSE u[s]]
      BY <2>1, <2>2
    <3>4. read(u, i) \in [E -> Nat]
      <4> HIDE DEF lines, read
      <4> QED BY <2>1, <3>1, <3>3
    <3> HIDE DEF names, E, lines, read
    <3> QED BY <3>2, <3>4
  <2>3. CASE ~(lines[i].length > 3)
    BY <2>3
  <2> QED BY <2>2, <2>3
<1> HIDE DEF lines, S
<1>6. step \in Steps(S, Len(lines))
  <2> HIDE DEF read
  <2> QED BY <1>5 DEF Steps
<1> HIDE DEF step
<1>7. PICK g : Iterates(g, S, explicit, Len(lines), step)
  BY <1>3, <1>4, <1>6, Iteration
<1>8. loop(g)
  <2>1. g \in [0 .. Len(lines) -> S] /\ \A i \in 1 .. Len(lines) : i - 1 \in 0 .. Len(lines)
    BY <1>3, <1>7 DEF Iterates
  <2>2. \A i \in 1 .. Len(lines) : step[i][g[i - 1]] = read(g[i - 1], i)
    <3> HIDE DEF read
    <3> QED BY <2>1 DEF step
  <2>3. g = [i \in 0 .. Len(lines) |-> IF i = 0 THEN explicit ELSE step[i][g[i - 1]]]
    BY <1>7 DEF Iterates
  <2>4. \A i \in 0 .. Len(lines) : i # 0 => i \in 1 .. Len(lines)
    BY <1>3
  <2>5. g = [i \in 0 .. Len(lines) |-> IF i = 0 THEN explicit ELSE read(g[i - 1], i)]
    <3> HIDE DEF read
    <3> QED BY <2>2, <2>3, <2>4
  <2> QED BY <2>5
<1>9. loop(after)
  <2> HIDE DEF loop
  <2> QED BY <1>8
<1> HIDE DEF after
<1>10. after[Len(lines)] \in S
  <2>1. after[0] \in S /\ Len(lines) \in 0 .. Len(lines)
    BY <1>3, <1>4, <1>9
  <2>2. ASSUME NEW i \in 1 .. Len(lines), after[i - 1] \in S PROVE after[i] \in S
    <3>1. i \in 0 .. Len(lines) /\ i # 0
      BY <1>3
    <3>2. after[i] = read(after[i - 1], i)
      BY <1>9, <3>1
    <3> HIDE DEF read
    <3> QED BY <1>5, <2>2, <3>2
  <2> HIDE DEF loop
  <2> QED BY <1>3, <2>1, <2>2, HandedOn
<1>11. explicit' \in [DOMAIN explicit' -> Nat] /\ {"__ctor_loc", "__ctor_end"} \subseteq DOMAIN explicit'
  <2>1. explicit' \in S
    BY <1>1, <1>10
  <2> HIDE DEF names
  <2> QED BY <2>1 DEF S
<1>12. Kept = {} /\ CtorSections = {} /\ Kept' = {} /\ CtorSections' = {} /\ ImageSize' = ImageSize
  <2>1. Kept = {} /\ CtorSections = {}
    BY <1>2, NoneKept
  <2>2. Kept' = Kept
    BY <1>1 DEF Kept
  <2> QED BY <1>1, <2>1, <2>2 DEF CtorSections, ImageSize
<1>13. OffsetsRight(ImageSize)' /\ ContentsRight' /\ SymbolsRight'
  <2>1. OffsetsRight(ImageSize)'
    BY <1>1, <1>2, <1>12 DEF OffsetsRight
  <2> QED BY <2>1, <1>12 DEF ContentsRight, SymbolsRight
<1>14. Image(image, ImageSize)'
  BY <1>1, <1>2, <1>12 DEF Image
<1> HIDE DEF after, loop
<1> QED BY <1>1, <1>2, <1>11, <1>13, <1>14 DEF LayoutInv, LaidOut

\* As many halfwords as the section has.
LEMMA SectionBytesAre ==
  ASSUME NEW s, s.words \in Seq(0 .. Half - 1)
  PROVE  SectionBytes(s) \in Seq(0 .. Half - 1) /\ Len(SectionBytes(s)) = Len(s.words)
<1>1. Len(s.words) \in Nat
  BY LenProperties
<1> DEFINE m == Len(s.words)
<1>2. 2 * m \in Nat /\ (2 * m) \div 2 = m
  <2> HIDE DEF m
  <2>1. \A z \in Nat : 2 * z \in Nat /\ (2 * z) \div 2 = z
    BY SMT
  <2>2. m \in Nat
    BY <1>1 DEF m
  <2> QED BY <2>1, <2>2
<1>3. Zeros(2 * m) \in Seq(0 .. Half - 1) /\ Len(Zeros(2 * m)) = m
  BY <1>2, ZerosAre
<1> QED BY <1>3 DEF SectionBytes

\* The next section is kept or dropped.
LEMMA OneSectionMore ==
  ASSUME LayoutInv, stage = "collect", NEW x \in Int, offsets' = Append(offsets, x),
         reached \in DOMAIN input.sections, input' = input
  PROVE  /\ offsets' \in Seq(Int) /\ Len(offsets') = reached + 1 /\ offsets'[reached + 1] = x
         /\ Len(offsets') <= Cardinality(Sections(input)) /\ reached \in Nat
         /\ \A i \in 0 .. reached - 1 : offsets'[i + 1] = offsets[i + 1]
         /\ Kept' = IF x = Dropped THEN Kept ELSE Kept \cup {reached}
         /\ \A i \in Kept : i \in 0 .. reached - 1 /\ Start(i)' = Start(i) /\ End(i)' = End(i)
<1>1. /\ input \in Inputs /\ reached = Len(offsets) /\ offsets \in Seq(Int)
      /\ OffsetsRight(ImageSize)
  BY DEF LayoutInv, LaidOut, OffsetsRight
<1>2. /\ Cardinality(Sections(input)) \in Nat
      /\ DOMAIN input.sections = 0 .. Cardinality(Sections(input)) - 1
  BY <1>1, InputTyped DEF Sections
<1>3. reached \in Nat /\ Len(offsets) \in Nat
  BY <1>1, LenProperties
<1>4. /\ offsets' \in Seq(Int) /\ Len(offsets') = Len(offsets) + 1
      /\ offsets'[Len(offsets) + 1] = x
      /\ \A z \in 1 .. Len(offsets) : offsets'[z] = offsets[z]
  BY <1>1, AppendProperties
<1>5. ASSUME NEW i \in 0 .. reached - 1 PROVE offsets'[i + 1] = offsets[i + 1]
  <2>1. i + 1 \in 1 .. Len(offsets)
    BY <1>1, <1>3
  <2> QED BY <1>4, <2>1
<1>6. \A i \in Kept : i \in 0 .. reached - 1
  BY <1>1, <1>2, <1>3 DEF Kept
<1>7. \A i \in Kept : Start(i)' = Start(i) /\ End(i)' = End(i)
  BY <1>5, <1>6 DEF Start, End
<1>8. ASSUME NEW i \in DOMAIN input.sections
      PROVE  i \in Kept' <=> IF i = reached THEN x # Dropped ELSE i \in Kept
  <2>1. CASE i = reached
    BY <1>1, <1>3, <1>4, <2>1 DEF Kept
  <2>2. CASE i < reached
    BY <1>1, <1>2, <1>3, <1>4, <1>5, <2>2 DEF Kept
  <2>3. CASE i > reached
    BY <1>1, <1>2, <1>3, <1>4, <2>3 DEF Kept
  <2> QED BY <1>2, <1>3, <2>1, <2>2, <2>3
<1>9. Kept' \subseteq DOMAIN input.sections /\ Kept \subseteq DOMAIN input.sections
  BY DEF Kept
<1>10. reached \notin Kept
  BY <1>3, <1>6
<1>11. Kept' = IF x = Dropped THEN Kept ELSE Kept \cup {reached}
  BY <1>8, <1>9, <1>10
<1> QED BY <1>1, <1>2, <1>3, <1>4, <1>5, <1>6, <1>7, <1>11

\* A section that is passed over.
LEMMA DroppedLayout ==
  ASSUME LayoutInv, stage = "collect", offsets' = Append(offsets, Dropped),
         reached \in DOMAIN input.sections, ~keep_section(input.sections[reached]),
         reached' = reached + 1,
         UNCHANGED <<input, stage, explicit, image, relocs, imports, memory, header>>
  PROVE  LayoutInv'
<1>1. Dropped \in Int
  BY DEF Dropped
<1>2. /\ offsets' \in Seq(Int) /\ Len(offsets') = reached + 1 /\ offsets'[reached + 1] = Dropped
      /\ Len(offsets') <= Cardinality(Sections(input)) /\ reached \in Nat
      /\ \A i \in 0 .. reached - 1 : offsets'[i + 1] = offsets[i + 1]
      /\ Kept' = Kept
      /\ \A i \in Kept : i \in 0 .. reached - 1 /\ Start(i)' = Start(i) /\ End(i)' = End(i)
  BY <1>1, OneSectionMore
<1>3. OffsetsRight(ImageSize) /\ ContentsRight /\ SymbolsRight /\ reached = Len(offsets)
      /\ ImageSize' = ImageSize
  BY DEF LayoutInv, LaidOut, ImageSize
<1>4. \A i \in 0 .. reached : i \in 0 .. reached - 1 \/ i = reached
  BY <1>2
<1>5. OffsetsRight(ImageSize)'
  <2>1. \A i \in 0 .. Len(offsets)' - 1 :
          offsets'[i + 1] # Dropped <=> keep_section(input.sections[i])
    <3>1. Len(offsets)' - 1 = reached
      BY <1>2
    <3>2. \A i \in 0 .. reached - 1 : offsets[i + 1] # Dropped <=> keep_section(input.sections[i])
      BY <1>3 DEF OffsetsRight
    <3> QED BY <1>2, <1>4, <3>1, <3>2
  <2>2. \A i \in Kept : offsets'[i + 1] = offsets[i + 1]
    BY <1>2
  <2> QED BY <1>2, <1>3, <2>1, <2>2 DEF OffsetsRight
<1>6. ContentsRight'
  BY <1>2, <1>3 DEF ContentsRight
<1>7. CtorSections' = CtorSections
  BY <1>2 DEF CtorSections
<1>8. SymbolsRight'
  <2>1. \A i \in CtorSections : i \in Kept
    BY DEF CtorSections
  <2> QED BY <1>2, <1>3, <1>7, <2>1 DEF SymbolsRight
<1>9. Image(image, ImageSize)'
  BY <1>3 DEF LayoutInv, LaidOut, Image
<1> QED BY <1>2, <1>3, <1>5, <1>6, <1>8, <1>9 DEF LayoutInv, LaidOut

\* A section behind the others, at the next place that is aligned for it.
LEMMA KeptLayout ==
  ASSUME LayoutInv, stage = "collect", reached \in DOMAIN input.sections,
         NEW s, s = input.sections[reached], keep_section(s),
         IsSectionTypeCodeData(s) \/ IsSectionTypeBss(s),
         offsets' = Append(offsets, FileSize(Place(s))),
         image' = Extended(Place(s), SectionBytes(s)),
         explicit' = IF ~IsSectionNameCtors(s) THEN explicit
                     ELSE [explicit EXCEPT !["__ctor_loc"] = CtorsFrom(s),
                                           !["__ctor_end"] = FileSize(image') - HeaderSize],
         reached' = reached + 1,
         UNCHANGED <<input, stage, relocs, imports, memory, header>>
  PROVE  LayoutInv'
<1> DEFINE size == ImageSize
           len == Len(s.words)
<1>1. /\ input \in Inputs /\ Image(image, size) /\ OffsetsRight(size) /\ ContentsRight
      /\ SymbolsRight /\ reached = Len(offsets) /\ relocs = <<>> /\ imports = <<>>
      /\ memory = <<>> /\ explicit \in [DOMAIN explicit -> Nat]
      /\ {"__ctor_loc", "__ctor_end"} \subseteq DOMAIN explicit
  BY DEF LayoutInv, LaidOut
<1>2. /\ s.words \in Seq(0 .. Half - 1) /\ s.align \in Nat
      /\ s.align > 1 => s.align % 2 = 0
  BY <1>1, InputTyped DEF Sections
<1>3. len \in Nat
  BY <1>2, LenProperties
<1>4. PICK next \in Nat :
        /\ size <= next /\ Image(Place(s), next)
        /\ \A i \in 0 .. size - 1 : Place(s)[i] = image[i]
        /\ s.align > 0 => (HeaderSize + 2 * next) % s.align = 0
  BY <1>1, <1>2, AlignedIs DEF Place
<1>5. SectionBytes(s) \in Seq(0 .. Half - 1) /\ Len(SectionBytes(s)) = len
  BY <1>2, SectionBytesAre
<1>6. /\ Image(image', next + len)
      /\ \A i \in 0 .. next - 1 : image'[i] = Place(s)[i]
      /\ \A j \in 1 .. len : image'[next + j - 1] = SectionBytes(s)[j]
  <2> DEFINE p == Place(s)
             b == SectionBytes(s)
  <2>1. Image(p, next) /\ b \in Seq(0 .. Half - 1) /\ Len(b) = len /\ image' = Extended(p, b)
    BY <1>4, <1>5
  <2> HIDE DEF p, b, len
  <2>2. /\ Image(Extended(p, b), next + Len(b))
        /\ \A i \in 0 .. next - 1 : Extended(p, b)[i] = p[i]
        /\ \A j \in 1 .. Len(b) : Extended(p, b)[next + j - 1] = b[j]
    BY <2>1, ExtendedIs
  <2> QED BY <2>1, <2>2 DEF p, b
<1>7. /\ FileSize(Place(s)) = HeaderSize + 2 * next /\ HeaderSize \in Nat
      /\ FileSize(image') = HeaderSize + 2 * (next + len) /\ ImageSize' = next + len
  <2>1. /\ DOMAIN Place(s) = 0 .. next - 1 /\ DOMAIN image' = 0 .. next + len - 1
        /\ next + len \in Nat
    BY <1>3, <1>4, <1>6 DEF Image
  <2> DEFINE p == Place(s)
  <2>2. FileSize(p) = HeaderSize + 2 * next
    <3> HIDE DEF p
    <3> QED BY <2>1, SizeOfImage DEF p
  <2> DEFINE new == image'
             total == next + len
  <2>3. FileSize(new) = HeaderSize + 2 * total /\ Cardinality(DOMAIN new) = total
    <3>1. total \in Nat /\ DOMAIN new = 0 .. total - 1
      BY <2>1
    <3> HIDE DEF new, total
    <3> QED BY <3>1, SizeOfImage
  <2> QED BY <2>2, <2>3, HeaderEven DEF ImageSize
<1> DEFINE x == FileSize(Place(s))
<1>8. x \in Int /\ x # Dropped /\ (x - HeaderSize) \div 2 = next
  <2>1. HeaderSize + 2 * next \in Nat
    BY <1>7
  <2>2. ((HeaderSize + 2 * next) - HeaderSize) \div 2 = next
    BY <1>7
  <2> QED BY <1>7, <2>1, <2>2 DEF Dropped
<1>9. /\ offsets' \in Seq(Int) /\ Len(offsets') = reached + 1 /\ offsets'[reached + 1] = x
      /\ Len(offsets') <= Cardinality(Sections(input)) /\ reached \in Nat
      /\ \A i \in 0 .. reached - 1 : offsets'[i + 1] = offsets[i + 1]
      /\ Kept' = Kept \cup {reached}
      /\ \A i \in Kept : i \in 0 .. reached - 1 /\ Start(i)' = Start(i) /\ End(i)' = End(i)
  <2> HIDE DEF x
  <2>1. offsets' = Append(offsets, x)
    BY DEF x
  <2> QED BY <1>8, <2>1, OneSectionMore
<1> PICK r \in Nat : r = reached
  BY <1>9
<1>10. Start(r)' = next /\ End(r)' = next + len
  BY <1>8, <1>9 DEF Start, End
<1>11. \A i \in 0 .. reached : i \in 0 .. reached - 1 \/ i = reached
  BY <1>9
<1>12. ASSUME NEW i \in Kept
       PROVE  /\ Start(i) \in Nat /\ End(i) \in Nat /\ End(i) <= next /\ i < reached
              /\ Len(input.sections[i].words) \in Nat
  <2>1. Start(i) \in Nat /\ End(i) <= size
    BY <1>1 DEF OffsetsRight
  <2>2. Len(input.sections[i].words) \in Nat
    <3>1. input.sections[i].words \in Seq(0 .. Half - 1)
      BY <1>1, InputTyped DEF Kept, Sections
    <3> QED BY <3>1, LenProperties
  <2>3. size \in Nat /\ i \in 0 .. reached - 1
    BY <1>1, <1>9 DEF Image
  <2>4. End(i) = Start(i) + Len(input.sections[i].words)
    BY DEF End
  <2> DEFINE a == Start(i)
             b == End(i)
             c == Len(input.sections[i].words)
  <2>5. a \in Nat /\ c \in Nat /\ b = a + c /\ b <= size /\ size \in Nat /\ i \in 0 .. reached - 1
    BY <2>1, <2>2, <2>3, <2>4
  <2> HIDE DEF size, a, b, c
  <2>6. a \in Nat /\ b \in Nat /\ b <= next /\ i < reached /\ c \in Nat
    BY <1>4, <1>9, <2>5
  <2> QED BY <2>6 DEF a, b, c
<1>13. OffsetsRight(ImageSize)'
  <2>1. \A i \in 0 .. Len(offsets)' - 1 :
          offsets'[i + 1] # Dropped <=> keep_section(input.sections[i])
    <3>1. Len(offsets)' - 1 = reached
      BY <1>9
    <3>2. \A i \in 0 .. reached - 1 : offsets[i + 1] # Dropped <=> keep_section(input.sections[i])
      BY <1>1 DEF OffsetsRight
    <3> QED BY <1>8, <1>9, <1>11, <3>1, <3>2
  <2>2. ASSUME NEW i \in Kept'
        PROVE  LET t == input.sections[i] IN
               /\ IsSectionTypeCodeData(t) \/ IsSectionTypeBss(t)
               /\ Start(i)' \in Nat /\ offsets'[i + 1] = HeaderSize + 2 * Start(i)'
               /\ End(i)' <= ImageSize'
               /\ t.align > 0 => offsets'[i + 1] % t.align = 0
    <3>1. CASE i \in Kept
      <4>1. offsets'[i + 1] = offsets[i + 1] /\ Start(i)' = Start(i) /\ End(i)' = End(i)
        BY <1>9, <3>1
      <4>2. End(i) <= ImageSize'
        BY <1>3, <1>4, <1>7, <1>12, <3>1
      <4> QED BY <1>1, <3>1, <4>1, <4>2 DEF OffsetsRight
    <3>2. CASE i = reached
      <4>1. End(i)' <= ImageSize'
        BY <1>3, <1>4, <1>7, <1>10, <3>2
      <4>2. offsets'[i + 1] = HeaderSize + 2 * next
        BY <1>7, <1>9, <3>2
      <4> QED BY <1>4, <1>10, <3>2, <4>1, <4>2
    <3> QED BY <1>9, <3>1, <3>2
  <2>3. ASSUME NEW i \in Kept', NEW j \in Kept', i < j
        PROVE  End(i)' <= Start(j)'
    <3>1. CASE i \in Kept /\ j \in Kept
      BY <1>1, <1>9, <2>3, <3>1 DEF OffsetsRight
    <3>2. CASE i \in Kept /\ j = reached
      BY <1>9, <1>10, <1>12, <3>2
    <3>3. CASE i = reached
      <4>1. j = reached \/ j < reached
        BY <1>9, <1>12
      <4> QED BY <1>9, <2>3, <3>3, <4>1
    <3> QED BY <1>9, <3>1, <3>2, <3>3
  <2> QED BY <1>9, <2>1, <2>2, <2>3 DEF OffsetsRight
<1>14. ContentsRight'
  <2> SUFFICES ASSUME NEW i \in Kept', NEW w \in 1 .. Len(input.sections[i].words)
               PROVE  image'[Start(i)' + w - 1] = SectionBytes(input.sections[i])[w]
    BY DEF ContentsRight, SectionBytes
  <2>1. CASE i \in Kept
    <3>1. Start(i)' = Start(i) /\ image[Start(i) + w - 1] = SectionBytes(input.sections[i])[w]
      BY <1>1, <1>9, <2>1 DEF ContentsRight
    <3> DEFINE a == Start(i) + w - 1
    <3>2. a \in 0 .. size - 1 /\ a \in 0 .. next - 1
      <4>1. End(i) <= size /\ size \in Nat
        BY <1>1, <2>1 DEF OffsetsRight, Image
      <4> HIDE DEF size
      <4> QED BY <1>4, <1>12, <2>1, <4>1 DEF End
    <3> HIDE DEF a, size
    <3>3. image'[a] = image[a]
      BY <1>4, <1>6, <3>2
    <3> QED BY <3>1, <3>3 DEF a
  <2>2. CASE i = reached
    BY <1>6, <1>10, <2>2
  <2> QED BY <1>9, <2>1, <2>2
<1>15. explicit' \in [DOMAIN explicit' -> Nat] /\ {"__ctor_loc", "__ctor_end"} \subseteq DOMAIN explicit'
  <2> DEFINE y == FileSize(image')
  <2>1. CtorsFrom(s) \in Nat /\ y - HeaderSize \in Nat
    <3>1. x = HeaderSize + 2 * next /\ y = HeaderSize + 2 * (next + len) /\ len \in Nat
      BY <1>3, <1>7
    <3> HIDE DEF x, y, len
    <3>2. x - HeaderSize \in Nat /\ y - HeaderSize \in Nat
      BY <1>7, <3>1
    <3> QED BY <3>2 DEF CtorsFrom, x
  <2> QED BY <1>1, <2>1
<1>16. SymbolsRight'
  <2>1. CASE IsSectionNameCtors(s)
    <3>1. explicit'["__ctor_loc"] = 2 * next /\ explicit'["__ctor_end"] = 2 * (next + len)
      BY <1>1, <1>3, <1>7, <2>1 DEF CtorsFrom
    <3>2. reached \in CtorSections'
      BY <1>9, <2>1 DEF CtorSections
    <3>3. ASSUME NEW i \in CtorSections', \A j \in CtorSections' : j <= i PROVE i = reached
      <4>1. reached <= i /\ i \in Kept'
        BY <3>2, <3>3 DEF CtorSections
      <4> QED BY <1>9, <1>12, <4>1
    <3> QED BY <1>10, <3>1, <3>3 DEF SymbolsRight
  <2>2. CASE ~IsSectionNameCtors(s)
    <3>1. CtorSections' = CtorSections
      BY <1>9, <2>2 DEF CtorSections
    <3>2. \A i \in CtorSections : i \in Kept
      BY DEF CtorSections
    <3>3. explicit' = explicit
      BY <2>2
    <3> QED BY <1>1, <1>9, <3>1, <3>2, <3>3 DEF SymbolsRight
  <2> QED BY <2>1, <2>2
<1>17. Image(image', ImageSize')
  BY <1>6, <1>7
<1> HIDE DEF x
<1> QED BY <1>1, <1>9, <1>13, <1>14, <1>15, <1>16, <1>17 DEF LayoutInv, LaidOut, Image

\* A kept section is one of the file.
LEMMA KeptTyped ==
  ASSUME input \in Inputs, NEW i \in Kept
  PROVE  /\ input.sections[i].words \in Seq(0 .. Half - 1) /\ input.sections[i].align \in Nat
         /\ Len(input.sections[i].words) \in Nat /\ i \in Nat /\ i \in Sections(input)
<1>1. i \in Sections(input)
  BY DEF Kept, Sections
<1>2. /\ input.sections[i].words \in Seq(0 .. Half - 1) /\ input.sections[i].align \in Nat
      /\ i \in Nat
  BY <1>1, InputTyped
<1> QED BY <1>1, <1>2, LenProperties

\* A turn of collectSections keeps the layout.
LEMMA CollectLayout ==
  ASSUME LayoutInv, CollectSection
  PROVE  LayoutInv'
<1> DEFINE s == input.sections[reached]
<1>1. /\ stage = "collect" /\ reached \in DOMAIN input.sections
      /\ UNCHANGED <<input, header, relocs, imports, memory>>
  BY DEF CollectSection
<1>2. CASE /\ ~keep_section(s) /\ offsets' = Append(offsets, Dropped)
           /\ reached' = reached + 1 /\ UNCHANGED <<stage, explicit, image, maxAlign>>
  BY <1>1, <1>2, DroppedLayout
<1>3. CASE /\ keep_section(s) /\ (IsSectionTypeCodeData(s) \/ IsSectionTypeBss(s))
           /\ offsets' = Append(offsets, FileSize(Place(s)))
           /\ image' = Extended(Place(s), SectionBytes(s))
           /\ explicit' = IF ~IsSectionNameCtors(s) THEN explicit
                          ELSE [explicit EXCEPT !["__ctor_loc"] = CtorsFrom(s),
                                                !["__ctor_end"] = FileSize(image') - HeaderSize]
           /\ reached' = reached + 1 /\ UNCHANGED stage
  <2> HIDE DEF s
  <2>1. s = input.sections[reached]
    BY DEF s
  <2> QED BY <1>1, <1>3, <2>1, KeptLayout
<1>4. CASE stage' = "failed" /\ UNCHANGED <<reached, offsets, explicit, image, maxAlign>>
  <2>1. ImageSize' = ImageSize
    BY <1>4 DEF ImageSize
  <2> QED BY <1>1, <1>4, <2>1 DEF LayoutInv, LaidOut, Image
<1> QED BY <1>2, <1>3, <1>4 DEF CollectSection

\* The padding up to the next section of the file moves nothing.
LEMMA FillInLayout ==
  ASSUME LayoutInv, FillInCodeSection
  PROVE  LayoutInv' /\ RelocsInv'
<1> DEFINE size == ImageSize
<1>1. /\ input \in Inputs /\ Image(image, size) /\ OffsetsRight(size) /\ ContentsRight
      /\ SymbolsRight /\ reached = Len(offsets) /\ relocs = <<>> /\ imports = <<>>
      /\ memory = <<>> /\ explicit \in [DOMAIN explicit -> Nat]
      /\ {"__ctor_loc", "__ctor_end"} \subseteq DOMAIN explicit
  BY DEF LayoutInv, LaidOut, FillInCodeSection
<1>2. /\ stage = "collect" /\ stage' \in {"extract", "failed"} /\ reached \notin DOMAIN input.sections
      /\ image' = Aligned(image, FileAlign) /\ reached' = 1
      /\ \E entry : header' = [code |-> <<HeaderSize, FileSize(image')>>,
                               alignment |-> maxAlign, entry |-> entry]
      /\ UNCHANGED <<input, explicit, offsets, relocs, imports, memory>>
  BY DEF FillInCodeSection
<1>3. /\ Kept' = Kept /\ CtorSections' = CtorSections /\ SymbolsRight'
      /\ \A i : Start(i)' = Start(i) /\ End(i)' = End(i)
      /\ \A z : OffsetsRight(z)' = OffsetsRight(z)
  BY <1>1, <1>2, LayoutStays
<1>4. FileAlign \in Nat /\ FileAlign % 2 = 0
  BY AlignmentAssumption, SMT
<1>5. PICK next \in Nat :
        /\ size <= next /\ Image(image', next)
        /\ \A i \in 0 .. size - 1 : image'[i] = image[i]
  <2> HIDE DEF size
  <2> QED BY <1>1, <1>2, <1>4, AlignedIs
<1>6. ImageSize' = next /\ size \in Nat
  <2> DEFINE img == image'
  <2>1. DOMAIN img = 0 .. next - 1
    BY <1>5 DEF Image
  <2> HIDE DEF img
  <2>2. Cardinality(DOMAIN img) = next
    BY <2>1, SizeOfImage
  <2> QED BY <1>1, <2>2 DEF img, ImageSize, Image
<1>7. OffsetsRight(ImageSize)'
  <2>1. OffsetsRight(next)
    <3> HIDE DEF size
    <3>1. \A i \in Kept : Start(i) \in Nat /\ End(i) <= size /\ End(i) \in Int
      <4> TAKE i \in Kept
      <4>1. Start(i) \in Nat /\ End(i) <= size
        BY <1>1 DEF OffsetsRight
      <4>2. Len(input.sections[i].words) \in Nat
        BY <1>1, KeptTyped
      <4> QED BY <4>1, <4>2 DEF End
    <3>2. \A i \in Kept : End(i) <= next
      BY <1>5, <1>6, <3>1
    <3> QED BY <1>1, <3>2 DEF OffsetsRight
  <2> QED BY <1>1, <1>2, <1>3, <1>6, <2>1 DEF OffsetsRight
<1>8. ContentsRight'
  <2> SUFFICES ASSUME NEW i \in Kept, NEW w \in 1 .. Len(input.sections[i].words)
               PROVE  image'[Start(i) + w - 1] = SectionBytes(input.sections[i])[w]
    BY <1>2, <1>3 DEF ContentsRight, SectionBytes
  <2> DEFINE a == Start(i) + w - 1
  <2>1. a \in 0 .. size - 1
    <3>1. Start(i) \in Nat /\ End(i) <= size
      BY <1>1 DEF OffsetsRight
    <3>2. Len(input.sections[i].words) \in Nat
      BY <1>1, KeptTyped
    <3> HIDE DEF size
    <3> QED BY <1>6, <3>1, <3>2 DEF End
  <2>2. image[a] = SectionBytes(input.sections[i])[w]
    BY <1>1 DEF ContentsRight
  <2> HIDE DEF a, size
  <2>3. image'[a] = image[a]
    BY <1>5, <2>1
  <2> QED BY <2>2, <2>3 DEF a
<1>9. Len(offsets) = Cardinality(Sections(input))
  <2>1. /\ Cardinality(Sections(input)) \in Nat
        /\ DOMAIN input.sections = 0 .. Cardinality(Sections(input)) - 1
    BY <1>1, InputTyped DEF Sections
  <2>2. Len(offsets) \in Nat /\ Len(offsets) <= Cardinality(Sections(input))
    BY <1>1, LenProperties DEF OffsetsRight
  <2> QED BY <1>1, <1>2, <2>1, <2>2
<1>10. Image(image, ImageSize)'
  BY <1>5, <1>6 DEF Image
<1>11. header'.code[2] = FileSize(image)'
  BY <1>2 DEF FileSize
<1>12. LayoutInv'
  BY <1>1, <1>2, <1>3, <1>7, <1>8, <1>9, <1>10, <1>11 DEF LayoutInv, LaidOut
<1>13. RelocsInv'
  <2>1. relocs' = <<>> /\ imports' = <<>> /\ relocs' \in Seq(Range(relocs')) /\ imports' \in Seq(DOMAIN Table)
    BY <1>1, <1>2
  <2>2. DOMAIN relocs' = {}
    BY <2>1
  <2>3. \A z \in DOMAIN Entries' : ~(z < reached')
    <3>1. Entries' = Entries
      BY <1>2 DEF Entries
    <3>2. EntriesOf(input) \in Seq(Range(EntriesOf(input)))
      BY <1>1, EntriesTyped
    <3>3. \A z \in DOMAIN Entries : z \in Nat /\ z >= 1
      BY <3>2, LenProperties DEF Entries
    <3> QED BY <1>2, <3>1, <3>3
  <2> QED BY <1>2, <2>1, <2>2, <2>3 DEF RelocsInv, LaidOut, RefusedOnlyUnknown
<1> QED BY <1>12, <1>13

\* Relocations are extracted, applied and written without a section moving.
LEMMA LayoutNext ==
  ASSUME LayoutInv, [ConverterNext]_converterVars
  PROVE  LayoutInv'
<1>1. ASSUME UNCHANGED <<input, explicit, offsets, image, memory>>,
             \/ /\ stage = "extract" /\ stage' \in {"extract", "failed"} /\ header' = header
             \/ stage = "write" /\ stage' = "written"
      PROVE  LayoutInv'
  <2>1. /\ UNCHANGED <<Kept, CtorSections>> /\ SymbolsRight' = SymbolsRight
        /\ OffsetsRight(ImageSize)' = OffsetsRight(ImageSize)
        /\ ContentsRight' = ContentsRight /\ ImageSize' = ImageSize
        /\ Image(image, ImageSize)' = Image(image, ImageSize)
    <3>1. /\ UNCHANGED <<Kept, CtorSections>> /\ SymbolsRight' = SymbolsRight
          /\ \A i : Start(i)' = Start(i) /\ End(i)' = End(i)
          /\ ContentsRight' = ContentsRight /\ ImageSize' = ImageSize
      BY <1>1, LayoutStays
    <3>2. Image(image, ImageSize)' = Image(image, ImageSize)
      BY <1>1, <3>1 DEF Image
    <3>3. OffsetsRight(ImageSize)' = OffsetsRight(ImageSize)
      BY <1>1, <3>1 DEF OffsetsRight
    <3> QED BY <3>1, <3>2, <3>3
  <2>2. FileSize(image)' = FileSize(image)
    BY <1>1 DEF FileSize
  <2> QED BY <1>1, <2>1, <2>2 DEF LayoutInv, LaidOut
<1>2. CASE NullArgument
  BY <1>2, ArgumentLayout
<1>3. CASE readSymbols
  BY <1>3, SymbolsLayout
<1>4. CASE CollectSection
  BY <1>4, CollectLayout
<1>5. CASE FillInCodeSection
  BY <1>5, FillInLayout
<1>6. CASE ExtractRelocation
  <2>1. /\ stage = "extract" /\ stage' \in {"extract", "failed"}
        /\ UNCHANGED <<input, explicit, image, offsets, header, memory>>
    BY <1>6 DEF ExtractRelocation
  <2> QED BY <1>1, <2>1 DEF LaidOut
<1>7. CASE ApplyExternRelocs
  <2>1. stage = "extract" /\ stage' = "write" /\ UNCHANGED <<input, explicit, offsets, memory>>
    BY <1>7 DEF ApplyExternRelocs
  <2>2. SymbolsRight' = SymbolsRight
    BY <2>1, LayoutStays
  <2> QED BY <2>1, <2>2 DEF LayoutInv, LaidOut
<1>8. CASE WriteSections
  <2>1. /\ stage = "write" /\ stage' = "written"
        /\ UNCHANGED <<input, explicit, offsets, image, memory>>
    BY <1>8 DEF WriteSections
  <2> QED BY <1>1, <2>1 DEF LaidOut
<1>9. CASE Load
  <2>1. /\ stage = "written" /\ UNCHANGED <<input, explicit, offsets, image>>
        /\ (stage' = "refused" /\ memory' = memory) \/ stage' = "loaded"
    BY <1>9 DEF Load
  <2>2. SymbolsRight' = SymbolsRight
    BY <2>1, LayoutStays
  <2> QED BY <2>1, <2>2 DEF LayoutInv, LaidOut
<1>10. CASE UNCHANGED converterVars
  <2>1. UNCHANGED <<input, explicit, offsets, image, memory, stage, header, relocs, imports, reached>>
    BY <1>10 DEF converterVars
  <2>2. /\ SymbolsRight' = SymbolsRight /\ ContentsRight' = ContentsRight
        /\ ImageSize' = ImageSize /\ \A i : Start(i)' = Start(i) /\ End(i)' = End(i)
        /\ Kept' = Kept
    BY <2>1, LayoutStays
  <2>3. OffsetsRight(ImageSize)' = OffsetsRight(ImageSize)
    BY <2>1, <2>2 DEF OffsetsRight
  <2>4. FileSize(image)' = FileSize(image)
    BY <2>1 DEF FileSize
  <2> QED BY <2>1, <2>2, <2>3, <2>4 DEF LayoutInv, LaidOut, Image
<1> QED BY <1>2, <1>3, <1>4, <1>5, <1>6, <1>7, <1>8, <1>9, <1>10 DEF ConverterNext

\* What is a multiple of the alignment in the file is one in the console's memory.
LEMMA AlignedInMemory ==
  ASSUME NEW o \in Int, NEW align \in 1 .. FileAlign, FileAlign % align = 0, o % align = 0
  PROVE  (CodeBase + ((o - HeaderSize + 0) % Full)) % align = 0
<1> DEFINE h == o - HeaderSize
<1>1. /\ HeaderSize \in Int /\ FileAlign \in Int /\ CodeBase \in Int /\ Full \in Int
      /\ align \in Nat \ {0} /\ FileAlign \in Nat \ {0} /\ Full \in Nat \ {0}
      /\ HeaderSize % FileAlign = 0 /\ CodeBase % FileAlign = 0 /\ Full % FileAlign = 0
  <2>1. Full \in Nat \ {0}
    BY WidthAssumption, SMT DEF Full
  <2> QED BY <2>1, AlignmentAssumption, AddressAssumption
<1>2. ASSUME NEW x \in Int, x % FileAlign = 0 PROVE x % align = 0
  <2>1. \A m \in Nat \ {0} : FileAlign % m = 0 => x % m = 0
    BY <1>1, <1>2, Divides, Zenon
  <2> QED BY <1>1, <2>1
<1>3. HeaderSize % align = 0 /\ CodeBase % align = 0 /\ Full % align = 0
  BY <1>1, <1>2
<1>4. h \in Int /\ h + 0 = h /\ h % align = 0
  <2>1. \A b \in Int : b % align = 0 => (o + b) % align = 0 /\ (o - b) % align = 0
    BY <1>1, Divides, Zenon
  <2>2. (o - HeaderSize) % align = 0
    BY <1>1, <1>3, <2>1, Zenon
  <2> QED BY <1>1, <2>2
<1> HIDE DEF h
<1>5. (h % Full) % align = 0 /\ h % Full \in Int
  <2>1. \A b \in Nat \ {0} : b % align = 0 => (h % b) % align = 0
    BY <1>1, <1>4, Divides, Zenon
  <2>2. h % Full \in Int
    BY <1>1, <1>4, Division
  <2> QED BY <1>1, <1>3, <2>1, <2>2
<1>6. \A b \in Int : b % align = 0 => (CodeBase + b) % align = 0
  BY <1>1, <1>3, Divides, Zenon
<1>7. (CodeBase + (h % Full)) % align = 0
  BY <1>5, <1>6
<1> QED BY <1>4, <1>7 DEF h

\* Every section that is kept is in the image unharmed, and aligned as it asked.
THEOREM SectionsAreLaidOut == ConverterSpec => []SectionsLaidOut
<1>1. LayoutInv => SectionsLaidOut
  <2> SUFFICES ASSUME LayoutInv, stage \in {"collect", "extract"}, NEW i \in Kept
               PROVE  LET s == input.sections[i] IN
                      /\ InImage(i, image) = SectionBytes(s)
                      /\ s.align \in 1 .. FileAlign => (CodeBase + InCode(i, 0)) % s.align = 0
    BY DEF SectionsLaidOut
  <2> DEFINE s == input.sections[i]
             m == Len(s.words)
  <2>1. input \in Inputs /\ OffsetsRight(ImageSize) /\ ContentsRight
    BY DEF LayoutInv, LaidOut
  <2>2. s.words \in Seq(0 .. Half - 1) /\ m \in Nat
    BY <2>1, KeptTyped
  <2>3. SectionBytes(s) \in Seq(0 .. Half - 1) /\ Len(SectionBytes(s)) = m
    BY <2>2, SectionBytesAre
  <2>4. SectionBytes(s) = [w \in 1 .. m |-> SectionBytes(s)[w]]
    BY <2>3, LenProperties
  <2>5. \A w \in 1 .. m : image[Start(i) + w - 1] = SectionBytes(s)[w]
    BY <2>1 DEF ContentsRight
  <2>6. InImage(i, image) = [w \in 1 .. m |-> image[Start(i) + w - 1]]
    BY <2>2, LenProperties DEF InImage, Start
  <2>7. InImage(i, image) = SectionBytes(s)
    BY <2>4, <2>5, <2>6
  <2>8. ASSUME s.align \in 1 .. FileAlign PROVE (CodeBase + InCode(i, 0)) % s.align = 0
    <3>1. offsets[i + 1] % s.align = 0 /\ offsets[i + 1] \in Int
      <4>1. s.align > 0 => offsets[i + 1] % s.align = 0
        BY <2>1 DEF OffsetsRight
      <4>2. Start(i) \in Nat /\ offsets[i + 1] = HeaderSize + 2 * Start(i)
        BY <2>1 DEF OffsetsRight
      <4>3. FileAlign \in Nat
        BY AlignmentAssumption
      <4> QED BY <2>8, <4>1, <4>2, <4>3, HeaderEven
    <3>2. FileAlign % s.align = 0
      BY <2>1, <2>8, InputTyped DEF Kept, Sections
    <3> DEFINE a == s.align
               o == offsets[i + 1]
    <3>3. (CodeBase + ((o - HeaderSize + 0) % Full)) % a = 0
      <4>1. o \in Int /\ a \in 1 .. FileAlign /\ FileAlign % a = 0 /\ o % a = 0
        BY <2>8, <3>1, <3>2
      <4> HIDE DEF a, o
      <4> QED BY <4>1, AlignedInMemory
    <3> QED BY <3>3 DEF InCode
  <2> QED BY <2>7, <2>8
<1>2. ConverterSpec => []LayoutInv
  BY InitLayout, LayoutNext, PTL DEF ConverterSpec
<1> QED BY <1>1, <1>2, PTL

-----------------------------------------------------------------------------
\* Every entry of the ELF file stands in a relocation until it is applied.

\* The place of a name among the imports, once it is there.
LEMMA ImportIndexIs ==
  ASSUME NEW D, imports \in Seq(D), NEW name
  PROVE  /\ Contains(imports, name) => /\ ImportIndex(name) \in 0 .. Len(imports) - 1
                                       /\ imports[ImportIndex(name) + 1] = name
         /\ ~Contains(imports, name) => ImportIndex(name) = Len(imports)
         /\ Len(imports) \in Nat
<1>0. Len(imports) \in Nat
  BY LenProperties
<1>1. ASSUME Contains(imports, name)
      PROVE  /\ ImportIndex(name) \in 0 .. Len(imports) - 1
             /\ imports[ImportIndex(name) + 1] = name
  <2> DEFINE I == {i \in 1 .. Len(imports) : imports[i] = name}
  <2>1. I # {} /\ I \in SUBSET Nat
    BY <1>1 DEF Contains
  <2>2. \E i \in I : \A j \in I : i <= j
    BY <2>1, LeastNumber
  <2>3. ImportIndex(name) = Min(I) - 1
    BY <1>1, <2>1 DEF ImportIndex, SelectInSeq
  <2>4. Min(I) \in I
    <3> HIDE DEF I
    <3> QED BY <2>2 DEF Min
  <2> QED BY <1>0, <2>3, <2>4
<1>2. ~Contains(imports, name) => ImportIndex(name) = Len(imports)
  BY DEF ImportIndex
<1> QED BY <1>0, <1>1, <1>2

\* What an entry is about does not change once the sections are laid out.
LEMMA MeaningStays ==
  ASSUME UNCHANGED <<input, explicit, offsets>>
  PROVE  /\ Entries' = Entries /\ Kept' = Kept
         /\ \A e : Wanted(e)' = Wanted(e)
         /\ \A e : InCode(e.section, e.offset)' = InCode(e.section, e.offset)
         /\ \A sym : Meaning(sym)' = Meaning(sym) /\ IsImport(sym)' = IsImport(sym)
<1>1. Kept' = Kept /\ Entries' = Entries
  BY DEF Kept, Entries
<1>2. \A sym : IsImport(sym)' = IsImport(sym) /\ IsExtern(sym)' = IsExtern(sym)
  BY DEF IsImport, IsExtern
<1>3. \A e : InCode(e.section, e.offset)' = InCode(e.section, e.offset)
  BY DEF InCode
<1>4. \A e : Wanted(e)' = Wanted(e)
  BY <1>1, <1>2 DEF Wanted
<1>5. \A sym : Meaning(sym)' = Meaning(sym)
  BY <1>2 DEF Meaning, InCode
<1> QED BY <1>1, <1>2, <1>3, <1>4, <1>5

\* A relocation goes on standing for its entry while names are added.
LEMMA StandsStays ==
  ASSUME UNCHANGED <<input, explicit, offsets>>, NEW D, imports \in Seq(D), imports' \in Seq(D),
         Len(imports) <= Len(imports)', \A i \in 1 .. Len(imports) : imports'[i] = imports[i],
         NEW r, NEW e, Stands(r, e)
  PROVE  Stands(r, e)'
<1> DEFINE sym == input.symbols[e.symbol]
<1>1. /\ Wanted(e)' /\ InCode(e.section, e.offset)' = InCode(e.section, e.offset)
      /\ Meaning(sym)' = Meaning(sym) /\ IsImport(sym)' = IsImport(sym)
  BY MeaningStays DEF Stands
<1>2. Len(imports) \in Nat /\ Len(imports)' \in Nat
  BY LenProperties
<1>3. /\ r.source.section \in {"code", "static", "raw", "import"}
      /\ r.source.section = "import" =>
           /\ IsImport(sym) /\ r.source.offset \in 0 .. Len(imports) - 1
           /\ imports[r.source.offset + 1] = sym.name
      /\ Target(r.source) = Meaning(sym)
      /\ r.type = e.type /\ r.at = InCode(e.section, e.offset) /\ r.addend = e.addend
      /\ r = [type |-> r.type, at |-> r.at, addend |-> r.addend,
              source |-> [section |-> r.source.section, offset |-> r.source.offset]]
  BY DEF Stands
<1>4. r.source.section = "import" =>
        /\ r.source.offset \in 0 .. Len(imports)' - 1
        /\ imports'[r.source.offset + 1] = imports[r.source.offset + 1]
  BY <1>2, <1>3
<1>5. Target(r.source)' = Target(r.source)
  BY <1>3, <1>4 DEF Target
<1> QED BY <1>1, <1>3, <1>4, <1>5 DEF Stands

\* The relocation made of an entry stands for it, and there is one if it is wanted.
LEMMA SourceIs ==
  ASSUME LayoutInv, stage = "extract", imports \in Seq(DOMAIN Table),
         NEW e, e.section \in Sections(input), e.symbol \in DOMAIN input.symbols, e.type # "NONE",
         NEW sym, sym = input.symbols[e.symbol],
         UNCHANGED <<input, explicit, offsets>>,
         imports' = IF IsImport(sym) /\ ~Contains(imports, sym.name)
                    THEN Append(imports, sym.name) ELSE imports
  PROVE  /\ imports' \in Seq(DOMAIN Table) /\ Len(imports) <= Len(imports)'
         /\ \A i \in 1 .. Len(imports) : imports'[i] = imports[i]
         /\ Wanted(e) <=> Source(sym) # Nothing /\ offsets[e.section + 1] # Dropped
         /\ \A r : (/\ Wanted(e)
                    /\ r = [type |-> e.type, at |-> InCode(e.section, e.offset),
                            source |-> Source(sym), addend |-> e.addend]) => Stands(r, e)'
<1>1. /\ input \in Inputs /\ Len(offsets) = Cardinality(Sections(input))
      /\ Cardinality(Sections(input)) \in Nat
      /\ Sections(input) = 0 .. Cardinality(Sections(input)) - 1
      /\ sym.name \in DOMAIN Table /\ sym.section \in Sections(input) \cup {SHN_ABS}
  BY InputTyped DEF LayoutInv, LaidOut
<1>2. \A i \in Sections(input) : i \in Kept <=> offsets[i + 1] # Dropped
  BY <1>1 DEF Kept, Sections
<1>3. /\ imports' \in Seq(DOMAIN Table) /\ Len(imports) <= Len(imports)' /\ Len(imports) \in Nat
      /\ Len(imports)' \in Nat
      /\ \A i \in 1 .. Len(imports) : imports'[i] = imports[i]
      /\ IsImport(sym) => /\ ImportIndex(sym.name) \in 0 .. Len(imports)' - 1
                          /\ imports'[ImportIndex(sym.name) + 1] = sym.name
  <2>1. /\ Contains(imports, sym.name) => /\ ImportIndex(sym.name) \in 0 .. Len(imports) - 1
                                          /\ imports[ImportIndex(sym.name) + 1] = sym.name
        /\ ~Contains(imports, sym.name) => ImportIndex(sym.name) = Len(imports)
        /\ Len(imports) \in Nat
    BY ImportIndexIs
  <2>2. CASE IsImport(sym) /\ ~Contains(imports, sym.name)
    <3>1. /\ imports' \in Seq(DOMAIN Table) /\ Len(imports') = Len(imports) + 1
          /\ imports'[Len(imports) + 1] = sym.name
          /\ \A i \in 1 .. Len(imports) : imports'[i] = imports[i]
      BY <1>1, <2>2, AppendProperties
    <3> QED BY <2>1, <2>2, <3>1
  <2>3. CASE ~(IsImport(sym) /\ ~Contains(imports, sym.name))
    <3>1. imports' = imports
      BY <2>3
    <3> QED BY <2>1, <2>3, <3>1
  <2> QED BY <2>2, <2>3
<1>4. sym.section # SHN_ABS => sym.section \in Sections(input)
  BY <1>1
<1>5. /\ "static" # "nothing" /\ "import" # "nothing" /\ "code" # "nothing"
      /\ Nothing.section = "nothing"
  BY DEF Nothing
<1>6. Source(sym) # Nothing
        <=> (sym.section = SHN_ABS \/ IsExtern(sym) \/ sym.section \in Kept)
  <2>1. CASE sym.section = SHN_ABS
    <3>1. Source(sym).section = "static"
      BY <2>1 DEF Source
    <3> QED BY <1>5, <2>1, <3>1
  <2>2. CASE sym.section # SHN_ABS /\ IsImport(sym)
    <3>1. Source(sym).section = "import"
      BY <2>2 DEF Source
    <3> QED BY <1>5, <2>2, <3>1 DEF IsImport
  <2>3. CASE sym.section # SHN_ABS /\ ~IsImport(sym) /\ IsExtern(sym)
    <3>1. Source(sym).section = "static"
      BY <2>3 DEF Source
    <3> QED BY <1>5, <2>3, <3>1
  <2>4. CASE sym.section # SHN_ABS /\ ~IsExtern(sym)
    <3>1. ~IsImport(sym)
      BY <2>4 DEF IsImport
    <3>2. Source(sym) = IF offsets[sym.section + 1] = Dropped THEN Nothing
                        ELSE [section |-> "code", offset |-> InCode(sym.section, sym.value)]
      BY <2>4, <3>1 DEF Source
    <3>3. sym.section \in Kept <=> offsets[sym.section + 1] # Dropped
      BY <1>2, <1>4, <2>4
    <3> QED BY <1>5, <2>4, <3>2, <3>3
  <2> QED BY <2>1, <2>2, <2>3, <2>4
<1>7. Wanted(e) <=> Source(sym) # Nothing /\ offsets[e.section + 1] # Dropped
  BY <1>2, <1>6 DEF Wanted
<1>8. ASSUME NEW r, Wanted(e),
             r = [type |-> e.type, at |-> InCode(e.section, e.offset),
                  source |-> Source(sym), addend |-> e.addend]
      PROVE  Stands(r, e)'
  <2> DEFINE source == Source(sym)
  <2>1. /\ Wanted(e)' /\ InCode(e.section, e.offset)' = InCode(e.section, e.offset)
        /\ Meaning(sym)' = Meaning(sym) /\ IsImport(sym)' = IsImport(sym)
    BY <1>8, MeaningStays
  <2>2. /\ source.section \in {"code", "static", "raw", "import"}
        /\ source.section = "import" =>
             /\ IsImport(sym) /\ source.offset \in 0 .. Len(imports)' - 1
             /\ imports'[source.offset + 1] = sym.name
        /\ (CASE source.section = "code"             -> CodeBase + source.offset
              [] source.section \in {"static", "raw"} -> source.offset
              [] source.section = "import"           -> Table[imports'[source.offset + 1]])
             = Meaning(sym)
        /\ source = [section |-> source.section, offset |-> source.offset]
    <3>1. CASE sym.section = SHN_ABS
      <4>1. source = [section |-> "static", offset |-> sym.value] /\ Meaning(sym) = sym.value
        BY <3>1 DEF Source, Meaning
      <4> HIDE DEF source
      <4> QED BY <4>1
    <3>2. CASE sym.section # SHN_ABS /\ IsImport(sym)
      <4>1. source = [section |-> "import", offset |-> ImportIndex(sym.name)]
            /\ Meaning(sym) = Table[sym.name]
        BY <3>2 DEF Source, Meaning
      <4> HIDE DEF source
      <4> QED BY <1>3, <3>2, <4>1
    <3>3. CASE sym.section # SHN_ABS /\ ~IsImport(sym) /\ IsExtern(sym)
      <4>1. source = [section |-> "static", offset |-> explicit[sym.name]]
            /\ Meaning(sym) = explicit[sym.name]
        BY <3>3 DEF Source, Meaning
      <4> HIDE DEF source
      <4> QED BY <4>1
    <3>4. CASE sym.section # SHN_ABS /\ ~IsExtern(sym)
      <4>1. source = [section |-> "code", offset |-> InCode(sym.section, sym.value)]
            /\ Meaning(sym) = CodeBase + InCode(sym.section, sym.value)
        <5>1. offsets[sym.section + 1] # Dropped
          BY <1>2, <1>4, <1>8, <3>4 DEF Wanted
        <5> QED BY <3>4, <5>1 DEF Source, Meaning, IsImport
      <4> HIDE DEF source
      <4> QED BY <4>1
    <3> QED BY <3>1, <3>2, <3>3, <3>4
  <2>3. r.type = e.type /\ r.at = InCode(e.section, e.offset) /\ r.addend = e.addend
        /\ r.source = source
        /\ r = [type |-> r.type, at |-> r.at, addend |-> r.addend, source |-> r.source]
    BY <1>8
  <2> HIDE DEF source
  <2> QED BY <2>1, <2>2, <2>3 DEF Stands, Target
<1> QED BY <1>3, <1>7, <1>8

\* The entries of the input, by their places among them.
LEMMA EntriesAre ==
  ASSUME input \in Inputs
  PROVE  /\ Len(Entries) \in Nat /\ DOMAIN Entries = 1 .. Len(Entries)
         /\ \A z \in DOMAIN Entries :
              /\ Entries[z] \in Range(Entries) /\ Entries[z].section \in Sections(input)
              /\ Entries[z].offset \in Nat /\ Entries[z].addend \in Int
<1>1. /\ EntriesOf(input) \in Seq(Range(EntriesOf(input)))
      /\ \A z \in DOMAIN EntriesOf(input) :
           LET e == EntriesOf(input)[z]
           IN  /\ e.section \in Sections(input) /\ e.offset \in Nat
               /\ e.symbol \in Nat /\ e.addend \in Int
  BY EntriesTyped
<1> QED BY <1>1, LenProperties DEF Entries, Range

\* An index of eight bits tells the sections of every object apart.
IndicesFit == \A object \in Inputs : FewSections(object)

\* Cutting the index of a section then changes nothing.
LEMMA NothingCut ==
  ASSUME input \in Inputs, FewSections(input)
  PROVE  /\ \A n \in DOMAIN input.symbols : Seen(input.symbols[n]) = input.symbols[n]
         /\ \A z \in DOMAIN Entries : Entries[z].section % U8 = Entries[z].section
<1>1. Cardinality(Sections(input)) \in Nat /\ Cardinality(Sections(input)) <= U8
      /\ Sections(input) = 0 .. Cardinality(Sections(input)) - 1
  BY InputTyped DEF FewSections
<1>2. \A i \in Sections(input) : i % U8 = i
  BY <1>1, AlignmentAssumption
<1>3. ASSUME NEW n \in DOMAIN input.symbols
      PROVE  Seen(input.symbols[n]) = input.symbols[n]
  <2> DEFINE sym == input.symbols[n]
           S == [name : SymbolNames(input), section : Sections(input) \cup {SHN_ABS},
                 value : 0 .. Full - 1]
  <2>0. input.symbols \in Seq(S)
    BY InputAssumption
  <2> HIDE DEF S
  <2>9. sym \in S
    BY <2>0, LenProperties
  <2> HIDE DEF sym
  <2>1. /\ sym.section \in Sections(input) \cup {SHN_ABS}
        /\ sym = [name |-> sym.name, section |-> sym.section, value |-> sym.value]
    BY <2>9 DEF S
  <2>2. CASE sym.section = SHN_ABS
    BY <2>2 DEF Seen, sym
  <2>3. CASE sym.section # SHN_ABS
    <3>1. sym.section % U8 = sym.section
      BY <1>2, <2>1, <2>3
    <3>2. Seen(sym) = [sym EXCEPT !.section = @ % U8]
      BY <2>3 DEF Seen
    <3>3. Seen(sym) = sym
      BY <2>1, <3>1, <3>2
    <3> QED BY <3>3 DEF sym
  <2> QED BY <2>2, <2>3
<1>4. \A z \in DOMAIN Entries : Entries[z].section % U8 = Entries[z].section
  <2>1. \A z \in DOMAIN Entries : Entries[z].section \in Sections(input)
    BY EntriesAre
  <2> QED BY <1>2, <2>1
<1> QED BY <1>3, <1>4

\* One entry more is taken over.
LEMMA ExtractRelocs ==
  ASSUME FewSections(input), LayoutInv, RelocsInv, ExtractRelocation
  PROVE  RelocsInv'
<1> DEFINE e0 == Entries[reached]
           sym == input.symbols[e0.symbol]
<1>1. /\ stage = "extract" /\ reached <= Len(Entries)
      /\ UNCHANGED <<input, explicit, offsets>>
  BY Zenon DEF ExtractRelocation
<1>2. /\ imports \in Seq(DOMAIN Table) /\ relocs \in Seq(Range(relocs))
      /\ reached \in Nat \ {0}
      /\ \A j \in DOMAIN relocs : \E z \in DOMAIN Entries : Stands(relocs[j], Entries[z])
      /\ \A z \in DOMAIN Entries : z < reached =>
           /\ Entries[z].type # "NONE" => Entries[z].symbol \in DOMAIN input.symbols
           /\ Wanted(Entries[z]) => \E j \in DOMAIN relocs : Stands(relocs[j], Entries[z])
  BY <1>1 DEF RelocsInv, LaidOut
<1>3. /\ input \in Inputs /\ Len(Entries) \in Nat /\ DOMAIN Entries = 1 .. Len(Entries)
      /\ \A z \in DOMAIN Entries : Entries[z].section \in Sections(input)
  BY EntriesAre DEF LayoutInv
<1>4. Entries' = Entries /\ \A e : Wanted(e)' = Wanted(e)
  BY <1>1, MeaningStays
<1>5. CASE stage' = "failed"
  BY <1>5 DEF RelocsInv, LaidOut
<1>6. ASSUME stage' = "extract", reached' = reached + 1,
             imports' \in Seq(DOMAIN Table), Len(imports) <= Len(imports)',
             \A i \in 1 .. Len(imports) : imports'[i] = imports[i],
             e0.type # "NONE" => e0.symbol \in DOMAIN input.symbols,
             NEW r0, NEW e1, e1 = e0, Wanted(e1) => Stands(r0, e1)',
             relocs' = IF Wanted(e0) THEN Append(relocs, r0) ELSE relocs
      PROVE  RelocsInv'
  <2>1. ASSUME NEW r, NEW e, Stands(r, e) PROVE Stands(r, e)'
    BY <1>1, <1>2, <1>6, <2>1, StandsStays
  <2>2. /\ Len(relocs) \in Nat /\ DOMAIN relocs = 1 .. Len(relocs)
        /\ DOMAIN relocs' = IF Wanted(e0) THEN 1 .. Len(relocs) + 1 ELSE 1 .. Len(relocs)
        /\ \A j \in 1 .. Len(relocs) : relocs'[j] = relocs[j]
        /\ Wanted(e0) => relocs'[Len(relocs) + 1] = r0
        /\ relocs' \in Seq(Range(relocs'))
    <3> DEFINE R == Range(relocs) \cup {r0}
    <3>1. Len(relocs) \in Nat /\ DOMAIN relocs = 1 .. Len(relocs) /\ relocs \in Seq(R)
      <4>1. \A j \in 1 .. Len(relocs) : relocs[j] \in R
        BY <1>2, LenProperties
      <4> HIDE DEF R
      <4> QED BY <1>2, <4>1, SeqOfElements, LenProperties
    <3>2. CASE Wanted(e0)
      <4> HIDE DEF R
      <4>1. r0 \in R
        BY DEF R
      <4>2. /\ relocs' \in Seq(R) /\ Len(relocs') = Len(relocs) + 1
            /\ relocs'[Len(relocs) + 1] = r0
            /\ \A j \in 1 .. Len(relocs) : relocs'[j] = relocs[j]
        BY <1>6, <3>1, <3>2, <4>1, AppendProperties
      <4>3. DOMAIN relocs' = 1 .. Len(relocs) + 1 /\ relocs' \in Seq(Range(relocs'))
        <5> DEFINE q == relocs'
        <5>1. q \in Seq(R)
          BY <4>2
        <5> HIDE DEF q
        <5>2. DOMAIN q = 1 .. Len(q) /\ \A j \in 1 .. Len(q) : q[j] \in Range(q)
          BY <5>1, LenProperties DEF Range
        <5>3. q \in Seq(Range(q))
          BY <5>1, <5>2, SeqOfElements
        <5> QED BY <4>2, <5>2, <5>3 DEF q
      <4> QED BY <3>1, <3>2, <4>2, <4>3
    <3>3. CASE ~Wanted(e0)
      <4>1. relocs' = relocs
        BY <1>6, <3>3
      <4> QED BY <1>2, <3>1, <3>3, <4>1
    <3> QED BY <3>2, <3>3
  <2>3. \A z \in DOMAIN Entries : z < reached + 1 => z < reached \/ z = reached
    BY <1>2, <1>3
  <2>4. ASSUME NEW z \in DOMAIN Entries, z < reached + 1
        PROVE  /\ Entries[z].type # "NONE" => Entries[z].symbol \in DOMAIN input.symbols
               /\ Wanted(Entries[z]) => \E j \in DOMAIN relocs' : Stands(relocs[j], Entries[z])'
    <3>1. CASE z < reached
      <4>1. Entries[z].type # "NONE" => Entries[z].symbol \in DOMAIN input.symbols
        BY <1>2, <3>1
      <4>2. ASSUME Wanted(Entries[z])
            PROVE  \E j \in DOMAIN relocs' : Stands(relocs[j], Entries[z])'
        <5>1. PICK j \in DOMAIN relocs : Stands(relocs[j], Entries[z])
          BY <1>2, <3>1, <4>2
        <5>2. PICK r, e : r = relocs[j] /\ e = Entries[z]
          OBVIOUS
        <5>3. Stands(r, e)'
          BY <2>1, <5>1, <5>2
        <5>4. j \in DOMAIN relocs' /\ relocs'[j] = r /\ Entries'[z] = e
          BY <1>4, <2>2, <5>2
        <5> QED BY <5>3, <5>4
      <4> QED BY <4>1, <4>2
    <3>2. CASE z = reached
      <4>1. ASSUME Wanted(e0)
            PROVE  \E j \in DOMAIN relocs' : Stands(relocs[j], Entries[z])'
        <5>1. PICK j : j = Len(relocs) + 1
          OBVIOUS
        <5>2. j \in DOMAIN relocs' /\ relocs'[j] = r0 /\ Entries'[z] = e1 /\ Stands(r0, e1)'
          BY <1>4, <1>6, <2>2, <3>2, <4>1, <5>1
        <5> QED BY <5>2
      <4> QED BY <1>6, <3>2, <4>1
    <3> QED BY <2>3, <2>4, <3>1, <3>2
  <2>5. ASSUME NEW j \in DOMAIN relocs'
        PROVE  \E z \in DOMAIN Entries : Stands(relocs[j], Entries[z])'
    <3>1. CASE j \in DOMAIN relocs
      <4>1. PICK z \in DOMAIN Entries : Stands(relocs[j], Entries[z])
        BY <1>2, <3>1
      <4>2. PICK r, e : r = relocs[j] /\ e = Entries[z]
        OBVIOUS
      <4>3. Stands(r, e)'
        BY <2>1, <4>1, <4>2
      <4>4. relocs'[j] = r /\ Entries'[z] = e
        BY <1>4, <2>2, <3>1, <4>2
      <4> QED BY <4>3, <4>4
    <3>2. CASE j \notin DOMAIN relocs
      <4>1. Wanted(e0) /\ j = Len(relocs) + 1
        BY <2>2, <3>2
      <4>2. PICK z : z = reached
        OBVIOUS
      <4>3. z \in DOMAIN Entries /\ relocs'[j] = r0 /\ Entries'[z] = e1 /\ Stands(r0, e1)'
        <5>1. z \in DOMAIN Entries
          BY <1>1, <1>2, <1>3, <4>2
        <5> QED BY <1>4, <1>6, <2>2, <4>1, <4>2, <5>1
      <4> QED BY <4>3
    <3> QED BY <3>1, <3>2
  <2>6. \A z \in DOMAIN Entries' : z < reached' =>
          /\ Entries'[z].type # "NONE" => Entries'[z].symbol \in DOMAIN input'.symbols
          /\ Wanted(Entries[z])' => \E j \in DOMAIN relocs' : Stands(relocs[j], Entries[z])'
    <3> SUFFICES ASSUME NEW z \in DOMAIN Entries, z < reached + 1
                 PROVE  /\ Entries[z].type # "NONE" => Entries[z].symbol \in DOMAIN input.symbols
                        /\ Wanted(Entries[z])' => \E j \in DOMAIN relocs' : Stands(relocs[j], Entries[z])'
      BY <1>1, <1>4, <1>6
    <3>1. PICK e : e = Entries[z] /\ e = Entries'[z]
      BY <1>4
    <3>2. Wanted(e)' = Wanted(e)
      BY <1>4
    <3> QED BY <2>4, <3>1, <3>2
  <2>7. \A j \in DOMAIN relocs' : \E z \in DOMAIN Entries' : Stands(relocs[j], Entries[z])'
    BY <1>4, <2>5
  <2>8. imports' \in Seq(DOMAIN Table) /\ relocs' \in Seq(Range(relocs)') /\ reached' \in Nat \ {0}
    BY <1>2, <1>6, <2>2
  <2> QED BY <1>6, <2>6, <2>7, <2>8 DEF RelocsInv, RefusedOnlyUnknown
<1>7. CASE e0.type = "NONE" /\ UNCHANGED <<stage, relocs, imports>> /\ reached' = reached + 1
  <2>1. Len(imports) \in Nat
    BY <1>2, LenProperties
  <2>2. ~Wanted(e0)
    BY <1>7 DEF Wanted
  <2> QED BY <1>1, <1>2, <1>6, <1>7, <2>1, <2>2
<1>8. CASE /\ e0.type # "NONE" /\ e0.symbol \in DOMAIN input.symbols
           /\ imports' = IF IsImport(sym) /\ ~Contains(imports, sym.name)
                         THEN Append(imports, sym.name) ELSE imports
           /\ relocs' = IF ~(Source(sym) # Nothing /\ offsets[e0.section + 1] # Dropped)
                        THEN relocs
                        ELSE Append(relocs, [type |-> e0.type, at |-> InCode(e0.section, e0.offset),
                                             source |-> Source(sym), addend |-> e0.addend])
           /\ reached' = reached + 1 /\ UNCHANGED stage
  <2>1. PICK e, s0, r0 : /\ e = e0 /\ s0 = sym
                         /\ r0 = [type |-> e.type, at |-> InCode(e.section, e.offset),
                                  source |-> Source(s0), addend |-> e.addend]
    OBVIOUS
  <2>2. e.section \in Sections(input)
    BY <1>1, <1>2, <1>3, <2>1
  <2>3. /\ imports' \in Seq(DOMAIN Table) /\ Len(imports) <= Len(imports)'
        /\ \A i \in 1 .. Len(imports) : imports'[i] = imports[i]
        /\ Wanted(e) <=> Source(s0) # Nothing /\ offsets[e.section + 1] # Dropped
        /\ \A r : (/\ Wanted(e)
                   /\ r = [type |-> e.type, at |-> InCode(e.section, e.offset),
                           source |-> Source(s0), addend |-> e.addend]) => Stands(r, e)'
    BY <1>1, <1>2, <1>8, <2>1, <2>2, SourceIs
  <2>4. Wanted(e) => Stands(r0, e)'
    BY <2>1, <2>3
  <2>5. relocs' = IF Wanted(e) THEN Append(relocs, r0) ELSE relocs
    BY <1>8, <2>1, <2>3
  <2> QED BY <1>1, <1>6, <1>8, <2>1, <2>3, <2>4, <2>5
<1>9. ASSUME e0.type # "NONE", e0.symbol \in DOMAIN input.symbols
      PROVE  Seen(sym) = sym
  BY <1>3, <1>9, NothingCut
<1>10. e0.section % U8 = e0.section
  BY <1>1, <1>2, <1>3, NothingCut
<1>11. \/ e0.type = "NONE" /\ UNCHANGED <<stage, relocs, imports>> /\ reached' = reached + 1
       \/ stage' = "failed"
       \/ /\ e0.type # "NONE" /\ e0.symbol \in DOMAIN input.symbols
          /\ imports' = IF IsImport(Seen(sym)) /\ ~Contains(imports, Seen(sym).name)
                        THEN Append(imports, Seen(sym).name) ELSE imports
          /\ relocs' = IF ~(Source(Seen(sym)) # Nothing /\ offsets[(e0.section % U8) + 1] # Dropped)
                       THEN relocs
                       ELSE Append(relocs, [type |-> e0.type,
                                            at |-> InCode(e0.section % U8, e0.offset),
                                            source |-> Source(Seen(sym)), addend |-> e0.addend])
          /\ reached' = reached + 1 /\ UNCHANGED stage
  BY Zenon DEF ExtractRelocation
<1>12. e0.type # "NONE" /\ e0.symbol \in DOMAIN input.symbols => Seen(sym) = sym
  BY <1>9
<1> HIDE DEF e0, sym
<1> QED BY Zenon, <1>5, <1>7, <1>8, <1>10, <1>11, <1>12

\* A static relocation is left to the loader as an address.
Dynamic(r) == IF IsStatic(r) THEN [r EXCEPT !.source.section = "raw"] ELSE r

\* What is left is what was not applied, and all of it.
LEMMA DeferredIs ==
  ASSUME relocs \in Seq(Range(relocs))
  PROVE  /\ Deferred \in Seq(Range(Deferred))
         /\ \A m \in DOMAIN Deferred : \E j \in DOMAIN relocs :
              ~AppliedHere(relocs[j]) /\ Deferred[m] = Dynamic(relocs[j])
         /\ \A j \in DOMAIN relocs : ~AppliedHere(relocs[j]) =>
              \E m \in DOMAIN Deferred : Deferred[m] = Dynamic(relocs[j])
<1> DEFINE size == Len(relocs)
           left(j) == Dynamic(relocs[j])
           D == {left(j) : j \in {i \in 1 .. size : ~AppliedHere(relocs[i])}}
           S == Seq(D)
           next(old, i) == IF AppliedHere(relocs[i]) THEN old ELSE Append(old, left(i))
           step == [i \in 1 .. size |-> [u \in S |-> next(u, i)]]
           loop(f) == f = [i \in 0 .. size |-> IF i = 0 THEN <<>> ELSE next(f[i - 1], i)]
           upTo == CHOOSE f : loop(f)
<1>1. size \in Nat /\ DOMAIN relocs = 1 .. size
  BY LenProperties
<1>2. Deferred = upTo[size]
  BY Zenon DEF Deferred, Dynamic
<1> HIDE DEF size, left
<1>3. \A i \in 1 .. size : ~AppliedHere(relocs[i]) => left(i) \in D
  OBVIOUS
<1>4. \A u \in D : \E j \in 1 .. size : ~AppliedHere(relocs[j]) /\ u = left(j)
  OBVIOUS
<1> HIDE DEF D
<1>5. ASSUME NEW i \in 1 .. size, NEW u \in S
      PROVE  next(u, i) \in S
  BY <1>3, AppendProperties
<1>6. <<>> \in S
  OBVIOUS
<1> HIDE DEF S, next
<1>7. step \in Steps(S, size)
  BY <1>5 DEF Steps
<1> HIDE DEF step
<1>8. PICK g : Iterates(g, S, <<>>, size, step)
  BY <1>1, <1>6, <1>7, Iteration
<1>9. loop(g)
  <2>1. g \in [0 .. size -> S] /\ \A i \in 1 .. size : i - 1 \in 0 .. size
    BY <1>1, <1>8 DEF Iterates
  <2>2. \A i \in 1 .. size : step[i][g[i - 1]] = next(g[i - 1], i)
    BY <2>1 DEF step
  <2>3. g = [i \in 0 .. size |-> IF i = 0 THEN <<>> ELSE step[i][g[i - 1]]]
    BY <1>8 DEF Iterates
  <2>4. \A i \in 0 .. size : i # 0 => i \in 1 .. size
    BY <1>1
  <2> QED BY <2>2, <2>3, <2>4
<1>10. loop(upTo)
  <2> HIDE DEF loop
  <2> QED BY <1>9
<1> HIDE DEF upTo
<1> DEFINE Good(i) == /\ upTo[i] \in S
                      /\ \A j \in 1 .. i : ~AppliedHere(relocs[j]) =>
                           \E m \in 1 .. Len(upTo[i]) : upTo[i][m] = left(j)
           G == {i \in 0 .. size : Good(i)}
           id == [i \in 0 .. size |-> i]
<1>11. id[0] \in G /\ size \in 0 .. size
  BY <1>1, <1>6, <1>10
<1>12. ASSUME NEW i \in 1 .. size, id[i - 1] \in G PROVE id[i] \in G
  <2>1. i - 1 \in 0 .. size /\ i \in 0 .. size /\ i # 0 /\ i - 1 \in Nat
    BY <1>1
  <2>2. Good(i - 1) /\ upTo[i] = next(upTo[i - 1], i)
    BY <1>10, <1>12, <2>1
  <2>3. upTo[i] \in S
    BY <1>5, <2>2
  <2> DEFINE old == upTo[i - 1]
             new == upTo[i]
  <2>4. /\ Len(old) \in Nat /\ Len(new) \in Nat /\ Len(old) <= Len(new)
        /\ \A m \in 1 .. Len(old) : new[m] = old[m]
        /\ ~AppliedHere(relocs[i]) => new[Len(old) + 1] = left(i) /\ Len(new) = Len(old) + 1
    <3>1. old \in S /\ new = IF AppliedHere(relocs[i]) THEN old ELSE Append(old, left(i))
      BY <2>2 DEF next
    <3> HIDE DEF old, new
    <3>2. CASE AppliedHere(relocs[i])
      BY <3>1, <3>2, LenProperties DEF S
    <3>3. CASE ~AppliedHere(relocs[i])
      <4>1. left(i) \in D
        BY <1>3, <3>3
      <4> QED BY <3>1, <3>3, <4>1, AppendProperties, LenProperties DEF S
    <3> QED BY <3>2, <3>3
  <2>5. ASSUME NEW j \in 1 .. i, ~AppliedHere(relocs[j])
        PROVE  \E m \in 1 .. Len(new) : new[m] = left(j)
    <3>1. CASE j = i
      <4> HIDE DEF old, new
      <4>1. Len(old) + 1 \in 1 .. Len(new) /\ new[Len(old) + 1] = left(j)
        BY <2>4, <2>5, <3>1
      <4> QED BY <4>1
    <3>2. CASE j # i
      <4>1. j \in 1 .. i - 1
        BY <2>1, <3>2
      <4>2. PICK m \in 1 .. Len(old) : old[m] = left(j)
        BY <2>2, <2>5, <4>1
      <4>3. m \in 1 .. Len(new) /\ new[m] = left(j)
        BY <2>4, <4>2
      <4> QED BY <4>3
    <3> QED BY <3>1, <3>2
  <2>6. Good(i)
    BY <2>3, <2>5
  <2> HIDE DEF Good
  <2> QED BY <2>1, <2>6
<1>13. Good(size)
  <2> HIDE DEF Good
  <2>1. \A i \in 0 .. size : id[i] \in G
    <3> HIDE DEF id, G
    <3> QED BY <1>1, <1>11, <1>12, HandedOn
  <2> QED BY <1>11, <2>1
<1>14. /\ Deferred \in Seq(D)
       /\ \A j \in 1 .. size : ~AppliedHere(relocs[j]) =>
            \E m \in 1 .. Len(Deferred) : Deferred[m] = left(j)
  BY <1>2, <1>13 DEF S
<1>15. DOMAIN Deferred = 1 .. Len(Deferred) /\ \A m \in 1 .. Len(Deferred) : Deferred[m] \in D
  BY <1>14, LenProperties
<1>16. Deferred \in Seq(Range(Deferred))
  <2>1. \A m \in 1 .. Len(Deferred) : Deferred[m] \in Range(Deferred)
    BY <1>15 DEF Range
  <2> QED BY <1>14, <2>1, SeqOfElements
<1> QED BY <1>1, <1>4, <1>14, <1>15, <1>16 DEF left

\* What is left to the loader goes on standing for its entry.
LEMMA DynamicStands ==
  ASSUME NEW r, NEW e, Stands(r, e)
  PROVE  Stands(Dynamic(r), e) /\ ~IsStatic(Dynamic(r))
<1> DEFINE d == Dynamic(r)
<1>1. CASE IsStatic(r)
  <2>1. d = [r EXCEPT !.source.section = "raw"]
    BY <1>1 DEF Dynamic
  <2> DEFINE source == [section |-> r.source.section, offset |-> r.source.offset]
  <2> r = [type |-> r.type, at |-> r.at, addend |-> r.addend, source |-> source]
    BY DEF Stands
  <2> d = [type |-> r.type, at |-> r.at, addend |-> r.addend,
           source |-> [section |-> "raw", offset |-> r.source.offset]]
    BY <2>1
  <2>2. /\ d.source.section = "raw" /\ d.source.offset = r.source.offset
        /\ d.type = r.type /\ d.at = r.at /\ d.addend = r.addend
        /\ d = [type |-> d.type, at |-> d.at, addend |-> d.addend,
                source |-> [section |-> d.source.section, offset |-> d.source.offset]]
    OBVIOUS
  <2> HIDE DEF d
  <2>3. "raw" # "static" /\ "raw" # "import" /\ "raw" # "code"
    OBVIOUS
  <2>4. Target(d.source) = Target(r.source)
    BY <1>1, <2>2 DEF Target, IsStatic
  <2>5. /\ Wanted(e) /\ Target(r.source) = Meaning(input.symbols[e.symbol])
        /\ r.type = e.type /\ r.at = InCode(e.section, e.offset) /\ r.addend = e.addend
    BY DEF Stands
  <2>6. ~IsStatic(d) /\ d.source.section \in {"code", "static", "raw", "import"}
    BY <2>2 DEF IsStatic
  <2>7. Stands(d, e)
    BY <2>2, <2>3, <2>4, <2>5, <2>6 DEF Stands
  <2> QED BY <2>6, <2>7 DEF d
<1>2. CASE ~IsStatic(r)
  BY <1>2 DEF Dynamic
<1> QED BY <1>1, <1>2

\* What is not left was of a kind that is applied.
LEMMA ApplyRelocs ==
  ASSUME LayoutInv, RelocsInv, ApplyExternRelocs
  PROVE  RelocsInv'
<1>1. /\ stage = "extract" /\ stage' = "write" /\ reached > Len(Entries) /\ relocs' = Deferred
      /\ UNCHANGED <<input, explicit, offsets, imports, reached>>
  BY DEF ApplyExternRelocs
<1>2. /\ imports \in Seq(DOMAIN Table) /\ relocs \in Seq(Range(relocs))
      /\ reached \in Nat \ {0}
      /\ \A j \in DOMAIN relocs : \E z \in DOMAIN Entries : Stands(relocs[j], Entries[z])
      /\ \A z \in DOMAIN Entries : z < reached =>
           /\ Entries[z].type # "NONE" => Entries[z].symbol \in DOMAIN input.symbols
           /\ Wanted(Entries[z]) => \E j \in DOMAIN relocs : Stands(relocs[j], Entries[z])
  BY <1>1 DEF RelocsInv, LaidOut
<1>3. /\ input \in Inputs /\ Len(Entries) \in Nat /\ DOMAIN Entries = 1 .. Len(Entries)
  BY EntriesAre DEF LayoutInv
<1>4. Entries' = Entries /\ \A e : Wanted(e)' = Wanted(e)
  BY <1>1, MeaningStays
<1>5. ASSUME NEW r, NEW e, Stands(r, e) PROVE Stands(r, e)'
  <2>1. Len(imports) \in Nat
    BY <1>2, LenProperties
  <2> QED BY <1>1, <1>2, <1>5, <2>1, StandsStays
<1>6. /\ Deferred \in Seq(Range(Deferred))
      /\ \A m \in DOMAIN Deferred : \E j \in DOMAIN relocs :
           ~AppliedHere(relocs[j]) /\ Deferred[m] = Dynamic(relocs[j])
      /\ \A j \in DOMAIN relocs : ~AppliedHere(relocs[j]) =>
           \E m \in DOMAIN Deferred : Deferred[m] = Dynamic(relocs[j])
  BY <1>2, DeferredIs
<1>7. ASSUME NEW m \in DOMAIN relocs'
      PROVE  /\ \E z \in DOMAIN Entries : Stands(relocs[m], Entries[z])'
             /\ ~IsStatic(relocs'[m])
  <2>1. PICK j \in DOMAIN relocs : relocs'[m] = Dynamic(relocs[j])
    BY <1>1, <1>6
  <2>2. PICK z \in DOMAIN Entries : Stands(relocs[j], Entries[z])
    BY <1>2
  <2>3. PICK r, e : r = Dynamic(relocs[j]) /\ e = Entries[z]
    OBVIOUS
  <2>4. Stands(r, e) /\ ~IsStatic(r)
    BY <2>2, <2>3, DynamicStands
  <2>5. Stands(r, e)'
    BY <1>5, <2>4
  <2> QED BY <1>4, <2>1, <2>3, <2>4, <2>5
<1>8. ASSUME NEW z \in DOMAIN Entries
      PROVE  /\ Entries[z].type # "NONE" => Entries[z].symbol \in DOMAIN input.symbols
             /\ Wanted(Entries[z]) =>
                  \/ \E m \in DOMAIN relocs' : Stands(relocs[m], Entries[z])'
                  \/ Entries[z].type \in StaticTypes
  <2>1. z < reached
    BY <1>1, <1>2, <1>3
  <2>2. Entries[z].type # "NONE" => Entries[z].symbol \in DOMAIN input.symbols
    BY <1>2, <2>1
  <2>3. ASSUME Wanted(Entries[z]), ~(Entries[z].type \in StaticTypes)
        PROVE  \E m \in DOMAIN relocs' : Stands(relocs[m], Entries[z])'
    <3>1. PICK j \in DOMAIN relocs : Stands(relocs[j], Entries[z])
      BY <1>2, <2>1, <2>3
    <3>2. ~AppliedHere(relocs[j])
      BY <2>3, <3>1 DEF AppliedHere, Stands
    <3>3. PICK m \in DOMAIN relocs' : relocs'[m] = Dynamic(relocs[j])
      BY <1>1, <1>6, <3>2
    <3>4. PICK r, e : r = Dynamic(relocs[j]) /\ e = Entries[z]
      OBVIOUS
    <3>5. Stands(r, e)
      BY <3>1, <3>4, DynamicStands
    <3>6. Stands(r, e)'
      BY <1>5, <3>5
    <3> QED BY <1>4, <3>3, <3>4, <3>6
  <2> QED BY <2>2, <2>3
<1>9. \A z \in DOMAIN Entries' :
        /\ Entries'[z].type # "NONE" => Entries'[z].symbol \in DOMAIN input'.symbols
        /\ Wanted(Entries[z])' => \/ \E j \in DOMAIN relocs' : Stands(relocs[j], Entries[z])'
                                  \/ Entries'[z].type \in StaticTypes
  <2> SUFFICES ASSUME NEW z \in DOMAIN Entries
               PROVE  /\ Entries[z].type # "NONE" => Entries[z].symbol \in DOMAIN input.symbols
                      /\ Wanted(Entries[z])' =>
                           \/ \E j \in DOMAIN relocs' : Stands(relocs[j], Entries[z])'
                           \/ Entries[z].type \in StaticTypes
    BY <1>1, <1>4
  <2>1. PICK e : e = Entries[z] /\ e = Entries'[z]
    BY <1>4
  <2>2. Wanted(e)' = Wanted(e)
    BY <1>4
  <2> QED BY <1>8, <2>1, <2>2
<1>10. \A j \in DOMAIN relocs' : \E z \in DOMAIN Entries' : Stands(relocs[j], Entries[z])'
  BY <1>4, <1>7
<1>11. \A j \in DOMAIN relocs' : ~IsStatic(relocs'[j])
  BY <1>7
<1>12. /\ imports' \in Seq(DOMAIN Table) /\ relocs' \in Seq(Range(relocs)') /\ reached' \in Nat
  <2>1. Range(relocs)' = Range(Deferred)
    BY <1>1 DEF Range
  <2> QED BY <1>1, <1>2, <1>6, <2>1
<1> QED BY <1>1, <1>9, <1>10, <1>11, <1>12 DEF RelocsInv, RefusedOnlyUnknown, LaidOut

\* The relocations stay as they are when nothing that they are about changes.
LEMMA RelocsStay ==
  ASSUME RelocsInv, UNCHANGED <<input, explicit, offsets, relocs, imports, reached>>,
         stage \in LaidOut, stage = "extract" <=> stage' = "extract", RefusedOnlyUnknown'
  PROVE  RelocsInv'
<1>1. Entries' = Entries /\ \A e : Wanted(e)' = Wanted(e)
  BY MeaningStays
<1>2. /\ imports \in Seq(DOMAIN Table) /\ relocs \in Seq(Range(relocs)) /\ reached \in Nat
      /\ \A j \in DOMAIN relocs : \E z \in DOMAIN Entries : Stands(relocs[j], Entries[z])
      /\ \A z \in DOMAIN Entries : (stage = "extract" => z < reached) =>
           /\ Entries[z].type # "NONE" => Entries[z].symbol \in DOMAIN input.symbols
           /\ Wanted(Entries[z]) => \/ \E j \in DOMAIN relocs : Stands(relocs[j], Entries[z])
                                    \/ stage # "extract" /\ Entries[z].type \in StaticTypes
      /\ IF stage = "extract" THEN reached \in Nat \ {0}
         ELSE \A j \in DOMAIN relocs : ~IsStatic(relocs[j])
  BY DEF RelocsInv, LaidOut
<1>3. ASSUME NEW r, NEW e, Stands(r, e) PROVE Stands(r, e)'
  <2>1. Len(imports) \in Nat
    BY <1>2, LenProperties
  <2> QED BY <1>2, <1>3, <2>1, StandsStays
<1>4. \A r, e : Stands(r, e) => Stands(r, e)'
  BY <1>3
<1>5. \A z \in DOMAIN Entries' : (stage' = "extract" => z < reached') =>
        /\ Entries'[z].type # "NONE" => Entries'[z].symbol \in DOMAIN input'.symbols
        /\ Wanted(Entries[z])' => \/ \E j \in DOMAIN relocs' : Stands(relocs[j], Entries[z])'
                                  \/ stage' # "extract" /\ Entries'[z].type \in StaticTypes
  <2> SUFFICES ASSUME NEW z \in DOMAIN Entries, stage = "extract" => z < reached
               PROVE  /\ Entries[z].type # "NONE" => Entries[z].symbol \in DOMAIN input.symbols
                      /\ Wanted(Entries[z])' =>
                           \/ \E j \in DOMAIN relocs : Stands(relocs[j], Entries[z])'
                           \/ stage # "extract" /\ Entries[z].type \in StaticTypes
    BY <1>1
  <2>1. PICK e : e = Entries[z] /\ e = Entries'[z]
    BY <1>1
  <2>2. Wanted(e)' = Wanted(e)
    BY <1>1
  <2>3. ASSUME NEW j \in DOMAIN relocs, Stands(relocs[j], e)
        PROVE  Stands(relocs[j], Entries[z])'
    <3>1. PICK r : r = relocs[j] /\ r = relocs'[j]
      OBVIOUS
    <3>2. Stands(r, e)'
      BY <1>3, <2>3, <3>1
    <3> QED BY <2>1, <3>1, <3>2
  <2> QED BY <1>2, <2>1, <2>2, <2>3
<1>6. \A j \in DOMAIN relocs' : \E z \in DOMAIN Entries' : Stands(relocs[j], Entries[z])'
  <2> SUFFICES ASSUME NEW j \in DOMAIN relocs
               PROVE  \E z \in DOMAIN Entries : Stands(relocs[j], Entries[z])'
    BY <1>1
  <2>1. PICK z \in DOMAIN Entries : Stands(relocs[j], Entries[z])
    BY <1>2
  <2>2. PICK r, e : r = relocs[j] /\ r = relocs'[j] /\ e = Entries[z] /\ e = Entries'[z]
    BY <1>1
  <2>3. Stands(r, e)'
    BY <1>3, <2>1, <2>2
  <2> QED BY <2>2, <2>3
<1>7. /\ imports' \in Seq(DOMAIN Table) /\ relocs' \in Seq(Range(relocs)') /\ reached' \in Nat
      /\ IF stage' = "extract" THEN reached' \in Nat \ {0}
         ELSE \A j \in DOMAIN relocs' : ~IsStatic(relocs'[j])
  <2>1. Range(relocs)' = Range(relocs)
    BY DEF Range
  <2> QED BY <1>2, <2>1
<1> QED BY <1>5, <1>6, <1>7 DEF RelocsInv

\* The loader refuses for one of the relocations, hence for one of the entries.
LEMMA LoadRelocs ==
  ASSUME LayoutInv, RelocsInv, Load
  PROVE  RelocsInv'
<1>1. /\ stage = "written" /\ stage' \in {"refused", "loaded"}
      /\ UNCHANGED <<input, explicit, offsets, relocs, imports, reached>>
      /\ stage' = "refused" => \E j \in DOMAIN relocs : RefusedAtLoad(relocs[j])
  BY DEF Load
<1>2. stage \in LaidOut /\ (stage = "extract" <=> stage' = "extract")
  BY <1>1 DEF LaidOut
<1>3. ASSUME stage' = "refused"
      PROVE  \E z \in DOMAIN Entries :
               /\ Entries[z].section \in Kept
               /\ \/ Entries[z].type \notin Types
                  \/ /\ IsImport(input.symbols[Entries[z].symbol])
                     /\ Table[input.symbols[Entries[z].symbol].name] = 0
                  \/ InCode(Entries[z].section, Entries[z].offset) >= Full \div 2
  <2>1. PICK j \in DOMAIN relocs : RefusedAtLoad(relocs[j])
    BY <1>1, <1>3
  <2>2. PICK z \in DOMAIN Entries : Stands(relocs[j], Entries[z])
    BY <1>2 DEF RelocsInv
  <2> DEFINE r == relocs[j]
             e == Entries[z]
  <2>3. e.section \in Kept
    BY <2>2 DEF Stands, Wanted
  <2>4. CASE r.type \notin Types
    BY <2>2, <2>3, <2>4 DEF Stands
  <2>5. CASE r.source.section = "import" /\ (r.source.offset \notin 0 .. Len(imports) - 1
                                     \/ Table[imports[r.source.offset + 1]] = 0)
    BY <2>2, <2>3, <2>5 DEF Stands
  <2>6. CASE r.at >= Full \div 2
    BY <2>2, <2>3, <2>6 DEF Stands
  <2> QED BY <2>1, <2>4, <2>5, <2>6 DEF RefusedAtLoad
<1>4. RefusedOnlyUnknown'
  <2>1. /\ Entries' = Entries /\ Kept' = Kept
        /\ \A sym : IsImport(sym)' = IsImport(sym)
    BY <1>1, MeaningStays
  <2>2. ASSUME stage' = "refused"
        PROVE  \E z \in DOMAIN Entries' :
               /\ Entries'[z].section \in Kept'
               /\ \/ Entries'[z].type \notin Types
                  \/ /\ IsImport(input.symbols[Entries[z].symbol])'
                     /\ Table[input'.symbols[Entries'[z].symbol].name] = 0
                  \/ InCode(Entries[z].section, Entries[z].offset)' >= Full \div 2
    <3>1. PICK z \in DOMAIN Entries :
               /\ Entries[z].section \in Kept
               /\ \/ Entries[z].type \notin Types
                  \/ /\ IsImport(input.symbols[Entries[z].symbol])
                     /\ Table[input.symbols[Entries[z].symbol].name] = 0
                  \/ InCode(Entries[z].section, Entries[z].offset) >= Full \div 2
      BY <1>3, <2>2
    <3>2. PICK sym : /\ sym = input.symbols[Entries[z].symbol]
                     /\ sym = input'.symbols[Entries'[z].symbol]
      BY <1>1, <2>1
    <3>3. IsImport(sym)' = IsImport(sym)
      BY <2>1
    <3>4. InCode(Entries[z].section, Entries[z].offset)'
            = InCode(Entries[z].section, Entries[z].offset)
      BY <1>1, <2>1 DEF InCode
    <3> QED BY <2>1, <3>1, <3>2, <3>3, <3>4
  <2> QED BY <2>2 DEF RefusedOnlyUnknown
<1> QED BY <1>1, <1>2, <1>4, RelocsStay

\* Every step keeps what the relocations say.
LEMMA RelocsNext ==
  ASSUME IndicesFit, LayoutInv, RelocsInv, [ConverterNext]_converterVars
  PROVE  RelocsInv'
<1>1. CASE stage' \notin LaidOut
  BY <1>1 DEF RelocsInv
<1>2. CASE FillInCodeSection
  BY <1>2, FillInLayout
<1>3. CASE ExtractRelocation
  <2>1. FewSections(input)
    BY DEF IndicesFit, LayoutInv
  <2> QED BY <1>3, <2>1, ExtractRelocs
<1>4. CASE ApplyExternRelocs
  BY <1>4, ApplyRelocs
<1>5. CASE WriteSections
  <2>1. /\ stage = "write" /\ stage' = "written"
        /\ UNCHANGED <<input, explicit, offsets, relocs, imports, reached>>
    BY <1>5 DEF WriteSections
  <2>2. RefusedOnlyUnknown'
    BY <2>1 DEF RefusedOnlyUnknown
  <2> QED BY <2>1, <2>2, RelocsStay DEF LaidOut
<1>6. CASE Load
  BY <1>6, LoadRelocs
<1>7. CASE UNCHANGED converterVars /\ stage' \in LaidOut
  <2>1. UNCHANGED <<input, explicit, offsets, relocs, imports, reached, stage>>
    BY <1>7 DEF converterVars
  <2>2. RefusedOnlyUnknown => RefusedOnlyUnknown'
    <3>1. Entries' = Entries /\ Kept' = Kept
      BY <2>1, MeaningStays
    <3>2. \A sym : IsImport(sym)' = IsImport(sym)
      BY <2>1, MeaningStays
    <3>3. \A e : InCode(e.section, e.offset)' = InCode(e.section, e.offset)
      BY <2>1, MeaningStays
    <3>4. ASSUME NEW z \in DOMAIN Entries,
                 NEW e, e = Entries[z], NEW sym, sym = input.symbols[e.symbol],
                 e.section \in Kept,
                 \/ e.type \notin Types
                 \/ IsImport(sym) /\ Table[sym.name] = 0
                 \/ InCode(e.section, e.offset) >= Full \div 2
          PROVE  \E y \in DOMAIN Entries' :
                   /\ Entries'[y].section \in Kept'
                   /\ \/ Entries'[y].type \notin Types
                      \/ /\ IsImport(input.symbols[Entries[y].symbol])'
                         /\ Table[input'.symbols[Entries'[y].symbol].name] = 0
                      \/ InCode(Entries[y].section, Entries[y].offset)' >= Full \div 2
      <4>1. e = Entries'[z] /\ sym = input'.symbols[Entries'[z].symbol]
        BY <2>1, <3>1, <3>4
      <4>2. IsImport(sym)' = IsImport(sym)
        BY <3>2
      <4>3. InCode(e.section, e.offset)' = InCode(e.section, e.offset)
        BY <3>3
      <4> QED BY <3>1, <3>4, <4>1, <4>2, <4>3
    <3> SUFFICES ASSUME RefusedOnlyUnknown, stage' = "refused", FewSections(input)'
                 PROVE  \E y \in DOMAIN Entries' :
                          /\ Entries'[y].section \in Kept'
                          /\ \/ Entries'[y].type \notin Types
                             \/ /\ IsImport(input.symbols[Entries[y].symbol])'
                                /\ Table[input'.symbols[Entries'[y].symbol].name] = 0
                             \/ InCode(Entries[y].section, Entries[y].offset)' >= Full \div 2
      BY Zenon DEF RefusedOnlyUnknown
    <3>5. stage = "refused" /\ FewSections(input)
      BY <2>1
    <3>6. PICK z \in DOMAIN Entries :
               /\ Entries[z].section \in Kept
               /\ \/ Entries[z].type \notin Types
                  \/ /\ IsImport(input.symbols[Entries[z].symbol])
                     /\ Table[input.symbols[Entries[z].symbol].name] = 0
                  \/ InCode(Entries[z].section, Entries[z].offset) >= Full \div 2
      BY <3>5, Zenon DEF RefusedOnlyUnknown
    <3> QED BY <3>4, <3>6
  <2>3. RefusedOnlyUnknown'
    BY <1>7, <2>1, <2>2 DEF RelocsInv
  <2> QED BY <1>7, <2>1, <2>3, RelocsStay
<1>8. CASE NullArgument \/ readSymbols \/ CollectSection
  <2>1. stage' \notin LaidOut
    BY <1>8 DEF NullArgument, Stop, readSymbols, CollectSection, LaidOut
  <2> QED BY <1>1, <2>1
<1> QED BY <1>1, <1>2, <1>3, <1>4, <1>5, <1>6, <1>7, <1>8 DEF ConverterNext

\* What the loader refuses is what it does not know or is out of its reach, in code or
\* data that is kept, when eight bits tell the sections of every object apart: the
\* relocations stand for entries of the ELF file, those that processing postponed and
\* those that the symbol file rewrote too (Load, ExtractRelocation).
THEOREM RefusedOnlyForUnknown ==
  ASSUME IndicesFit
  PROVE  ConverterSpec => []RefusedOnlyUnknown
<1>1. ConverterInit => RelocsInv
  BY DEF ConverterInit, RelocsInv, LaidOut
<1>2. LayoutInv /\ RelocsInv /\ [ConverterNext]_converterVars => (LayoutInv /\ RelocsInv)'
  BY LayoutNext, RelocsNext
<1>3. RelocsInv => RefusedOnlyUnknown
  BY DEF RelocsInv, RefusedOnlyUnknown, LaidOut
<1> QED BY <1>1, <1>2, <1>3, InitLayout, PTL DEF ConverterSpec

-----------------------------------------------------------------------------
\* Applying a relocation, which leaves all others as they are, and all of a
\* sequence of them.

\* A relocation is inside the image, at its place in its section, and the branches
\* are where branches are.
LEMMA PlaceOf ==
  ASSUME ObjectsFit, input \in Inputs, NEW size \in Nat, OffsetsRight(size),
         NEW e \in Range(Entries), e.section \in Kept, e.type \in Types \ {"NONE"},
         NEW at, at = InCode(e.section, e.offset)
  PROVE  /\ at \in Nat /\ Places(e.type, at) \subseteq 0 .. size - 1
         /\ e.type \in BranchType => (CodeBase + at) % 4 = 0
         /\ 2 * size <= Full => at \div 2 = Start(e.section) + (e.offset \div 2)
         /\ e.offset \div 2 \in Nat
         /\ \A f \in Range(Entries) : e.section = f.section /\ e # f =>
              Places(e.type, e.offset) \cap Places(f.type, f.offset) = {}
         /\ Places(e.type, e.offset) \subseteq 0 .. Len(input.sections[e.section].words) - 1
<1> DEFINE i == e.section
           s == input.sections[i]
           m == Len(s.words)
           p == e.offset \div 2
<1>1. /\ i \in Sections(input) /\ s.words \in Seq(0 .. Half - 1) /\ m \in Nat /\ s.align \in Nat
  BY KeptTyped, InputTyped DEF Kept, Sections
<1>2. /\ offsets[i + 1] # Dropped /\ keep_section(s)
      /\ Start(i) \in Nat /\ offsets[i + 1] = HeaderSize + 2 * Start(i) /\ End(i) <= size
      /\ s.align > 0 => offsets[i + 1] % s.align = 0
  <2>1. i \in 0 .. Len(offsets) - 1 /\ offsets[i + 1] # Dropped
    <3>1. Len(offsets) \in Nat /\ i \in Nat
      BY <1>1, InputTyped, LenProperties DEF OffsetsRight
    <3> QED BY <3>1 DEF Kept
  <2> QED BY <2>1 DEF OffsetsRight
<1>3. e.offset \in Nat
  BY EntriesAre DEF Range
<1>4. /\ Places(e.type, e.offset) \subseteq 0 .. m - 1
      /\ e.type \in BranchType => e.offset % 4 = 0 /\ s.align > 0 /\ s.align % 4 = 0
      /\ \A f \in Range(Entries) : e.section = f.section /\ e # f =>
           Places(e.type, e.offset) \cap Places(f.type, f.offset) = {}
  BY <1>2 DEF ObjectsFit, Entries
<1>5. p \in Nat /\ 2 * p <= e.offset /\ e.offset < 2 * p + 2
  BY <1>3
<1>6. Full \in Nat /\ Full > 0 /\ Full % 2 = 0 /\ Full % 4 = 0
  <2>1. Half \in Nat /\ Half % 8 = 0 /\ Half > 0
    BY WidthAssumption
  <2>2. PICK h \in Nat : Half = 8 * h /\ h > 0
    <3>1. Half \div 8 \in Nat /\ Half = 8 * (Half \div 8) /\ Half \div 8 > 0
      BY <2>1
    <3> QED BY <3>1
  <2> DEFINE g == 16 * h * h
  <2>3. g \in Nat /\ g > 0
    BY <2>2
  <2>4. Full = 4 * g
    BY <2>2 DEF Full
  <2> HIDE DEF g
  <2> QED BY <2>3, <2>4
<1>7. at = (2 * Start(i) + e.offset) % Full
  BY <1>2, <1>3, HeaderEven DEF InCode
<1> DEFINE x == 2 * Start(i) + e.offset
<1>8. x \in Nat /\ x \div 2 = Start(i) + p
  BY <1>2, <1>3
<1>9. at \in Nat /\ at <= x /\ at < Full
  <2> HIDE DEF x
  <2> QED BY <1>6, <1>7, <1>8 DEF x
<1>10. at \div 2 \in Nat /\ at \div 2 <= Start(i) + p
  <2> HIDE DEF x
  <2> QED BY <1>8, <1>9
<1>11. /\ e.type \in HalfwordType => p < m /\ Places(e.type, at) = {at \div 2}
       /\ e.type \notin HalfwordType => p + 1 < m /\ Places(e.type, at) = {at \div 2, (at \div 2) + 1}
  <2>1. CASE e.type \in HalfwordType
    <3>1. Places(e.type, e.offset) = {p} /\ Places(e.type, at) = {at \div 2}
      BY <2>1, Zenon DEF Places, HalfwordType, BranchType, DataType, SdaType
    <3> HIDE DEF p, m
    <3> QED BY <1>1, <1>4, <1>5, <2>1, <3>1
  <2>2. CASE e.type \notin HalfwordType
    <3>1. /\ Places(e.type, e.offset) = {p, p + 1}
          /\ Places(e.type, at) = {at \div 2, (at \div 2) + 1}
      BY <2>2, Zenon DEF Places, Types
    <3> HIDE DEF p, m
    <3> QED BY <1>1, <1>4, <1>5, <2>2, <3>1
  <2> QED BY <2>1, <2>2
<1>12. Start(i) + m <= size
  BY <1>1, <1>2 DEF End
<1>13. Places(e.type, at) \subseteq 0 .. size - 1
  <2> DEFINE q == at \div 2
  <2>1. q \in Nat /\ q <= Start(i) + p
    BY <1>10
  <2> HIDE DEF q, p, m
  <2>2. CASE e.type \in HalfwordType
    <3>1. p < m /\ Places(e.type, at) = {q}
      BY <1>11, <2>2 DEF q
    <3> QED BY <1>1, <1>2, <1>5, <1>12, <2>1, <3>1
  <2>3. CASE e.type \notin HalfwordType
    <3>1. p + 1 < m /\ Places(e.type, at) = {q, q + 1}
      BY <1>11, <2>3 DEF q
    <3> QED BY <1>1, <1>2, <1>5, <1>12, <2>1, <3>1
  <2> QED BY <2>2, <2>3
<1>14. ASSUME 2 * size <= Full PROVE at \div 2 = Start(i) + p
  <2>1. p < m
    BY <1>1, <1>5, <1>11
  <2>2. x < 2 * size
    <3> DEFINE n == Start(i)
               b == e.offset
    <3>1. /\ b \in Nat /\ b < 2 * p + 2 /\ p < m /\ n + m <= size /\ n \in Nat /\ m \in Nat /\ p \in Nat
          /\ x = 2 * n + b
      BY <1>1, <1>2, <1>3, <1>5, <1>12, <2>1
    <3> HIDE DEF p, m, n, b, x
    <3> QED BY <3>1
  <2>3. at = x
    <3> HIDE DEF x
    <3> QED BY <1>6, <1>7, <1>8, <1>14, <2>2 DEF x
  <2> QED BY <1>8, <2>3
<1>15. ASSUME e.type \in BranchType PROVE (CodeBase + at) % 4 = 0
  <2>1. CodeBase \in Nat /\ CodeBase % 4 = 0
    <3>1. CodeBase \in Nat /\ CodeBase % FileAlign = 0 /\ FileAlign \in Nat \ {0} /\ FileAlign % 4 = 0
      BY AlignmentAssumption, AddressAssumption, Zenon
    <3>2. CodeBase \in Int
      BY <3>1
    <3>3. \A n \in Nat \ {0} : FileAlign % n = 0 => CodeBase % n = 0
      BY <3>1, <3>2, Divides, Zenon
    <3>4. 4 \in Nat \ {0}
      OBVIOUS
    <3> QED BY <3>1, <3>3, <3>4, Zenon
  <2> DEFINE o == offsets[i + 1]
             a == s.align
  <2>2. o % 4 = 0 /\ o \in Nat
    <3>1. a \in Nat \ {0} /\ a % 4 = 0 /\ o % a = 0 /\ o \in Nat
      BY <1>1, <1>2, <1>4, <1>15, HeaderEven
    <3> HIDE DEF o, a
    <3>2. o \in Int
      BY <3>1
    <3>3. \A n \in Nat \ {0} : a % n = 0 => o % n = 0
      BY <3>1, <3>2, Divides, Zenon
    <3>4. 4 \in Nat \ {0}
      OBVIOUS
    <3> QED BY <3>1, <3>3, <3>4, Zenon
  <2>3. x % 4 = 0
    <3>1. o = HeaderSize + 2 * Start(i) /\ e.offset % 4 = 0
      BY <1>2, <1>4, <1>15
    <3> HIDE DEF o
    <3> QED BY <1>2, <1>3, <2>2, <3>1, HeaderEven
  <2>4. at % 4 = 0
    <3> HIDE DEF x
    <3>1. x \in Int /\ 4 \in Nat \ {0}
      BY <1>8
    <3>2. \A b \in Nat \ {0} : b % 4 = 0 => (x % b) % 4 = 0
      BY <2>3, <3>1, Divides, Zenon
    <3>3. at = x % Full
      BY <1>7 DEF x
    <3> QED BY <1>6, <3>2, <3>3
  <2> QED BY <1>9, <2>1, <2>4
<1> QED BY <1>4, <1>5, <1>9, <1>13, <1>14, <1>15

\* What a relocation writes is in its section, where its entry says.
LEMMA AtPlaces ==
  ASSUME ObjectsFit, input \in Inputs, NEW size \in Nat, OffsetsRight(size), 2 * size <= Full,
         NEW e \in Range(Entries), e.section \in Kept, e.type \in Types \ {"NONE"},
         NEW n \in Places(e.type, InCode(e.section, e.offset))
  PROVE  /\ n \in Nat /\ Start(e.section) <= n /\ n < End(e.section)
         /\ n - Start(e.section) \in Places(e.type, e.offset)
<1> DEFINE at == InCode(e.section, e.offset)
           first == Start(e.section)
           p == e.offset \div 2
           m == Len(input.sections[e.section].words)
<1>1. /\ at \div 2 = first + p /\ p \in Nat
      /\ Places(e.type, e.offset) \subseteq 0 .. m - 1
  <2> HIDE DEF at
  <2> QED BY PlaceOf DEF at
<1>2. first \in Nat /\ End(e.section) = first + m /\ m \in Nat
  BY KeptTyped DEF OffsetsRight, End
<1>3. \/ n = first + p /\ p \in Places(e.type, e.offset)
      \/ n = first + p + 1 /\ p + 1 \in Places(e.type, e.offset)
  <2>1. CASE e.type \in HalfwordType
    <3>1. Places(e.type, e.offset) = {p} /\ Places(e.type, at) = {at \div 2}
      BY <2>1, Zenon DEF Places, HalfwordType, BranchType, DataType, SdaType
    <3>2. n = at \div 2
      BY <3>1
    <3> HIDE DEF p, at, first
    <3> QED BY <1>1, <3>1, <3>2
  <2>2. CASE e.type \notin HalfwordType
    <3>1. /\ Places(e.type, e.offset) = {p, p + 1}
          /\ Places(e.type, at) = {at \div 2, (at \div 2) + 1}
      BY <2>2, Zenon DEF Places, Types
    <3> HIDE DEF p, at, first
    <3> QED BY <1>1, <3>1 DEF at
  <2> QED BY <2>1, <2>2
<1> HIDE DEF at, first, p, m
<1>4. n \in Nat /\ first <= n /\ n < first + m /\ n - first \in Places(e.type, e.offset)
  <2>1. PICK q \in Places(e.type, e.offset) : n = first + q
    BY <1>1, <1>2, <1>3
  <2>2. q \in Nat /\ q < m
    BY <1>1, <1>2, <2>1
  <2> QED BY <1>2, <2>1, <2>2
<1> QED BY <1>2, <1>4 DEF first

\* Sections have no halfword in common, and different relocations have none.
LEMMA SectionsApart ==
  ASSUME input \in Inputs, NEW size \in Nat, OffsetsRight(size), NEW i \in Kept, NEW j \in Kept,
         NEW n \in Nat, Start(i) <= n, n < End(i), Start(j) <= n, n < End(j)
  PROVE  i = j
<1>1. i \in Nat /\ j \in Nat
  BY KeptTyped
<1>2. ASSUME NEW a \in Kept, NEW b \in Kept, a < b PROVE End(a) <= Start(b)
  BY <1>2 DEF OffsetsRight
<1>3. ASSUME NEW a \in Kept PROVE Start(a) \in Nat /\ End(a) \in Nat
  <2>1. Start(a) \in Nat /\ Len(input.sections[a].words) \in Nat
    BY KeptTyped DEF OffsetsRight
  <2>2. End(a) = Start(a) + Len(input.sections[a].words)
    BY DEF End
  <2> QED BY <2>1, <2>2
<1>4. /\ Start(i) \in Nat /\ Start(j) \in Nat /\ End(i) \in Nat /\ End(j) \in Nat
      /\ i < j => End(i) <= Start(j)
      /\ j < i => End(j) <= Start(i)
  BY <1>2, <1>3
<1> QED BY <1>1, <1>4

\* Different relocations have no halfword of the image in common.
LEMMA PlacesApart ==
  ASSUME ObjectsFit, input \in Inputs, NEW size \in Nat, OffsetsRight(size), 2 * size <= Full,
         NEW e \in Range(Entries), e.section \in Kept, e.type \in Types \ {"NONE"},
         NEW f \in Range(Entries), f.section \in Kept, f.type \in Types \ {"NONE"}, e # f,
         NEW n \in Places(e.type, InCode(e.section, e.offset))
  PROVE  n \notin Places(f.type, InCode(f.section, f.offset))
<1> SUFFICES ASSUME n \in Places(f.type, InCode(f.section, f.offset)) PROVE FALSE
  OBVIOUS
<1>1. /\ n \in Nat /\ Start(e.section) <= n /\ n < End(e.section)
      /\ n - Start(e.section) \in Places(e.type, e.offset)
  BY AtPlaces
<1>2. /\ Start(f.section) <= n /\ n < End(f.section)
      /\ n - Start(f.section) \in Places(f.type, f.offset)
  BY AtPlaces
<1>3. e.section = f.section
  BY <1>1, <1>2, SectionsApart
<1>4. Places(e.type, e.offset) \cap Places(f.type, f.offset) = {}
  <2>1. PICK at : at = InCode(e.section, e.offset)
    OBVIOUS
  <2> QED BY <1>3, <2>1, PlaceOf
<1> QED BY <1>1, <1>2, <1>3, <1>4

\* What the processor makes of the places of a relocation depends on nothing else.
LEMMA DenotedLocal ==
  ASSUME NEW D, NEW b, NEW c, NEW type \in Types \ {"NONE", SdaType}, NEW at, NEW a, NEW s,
         \A n \in Places(type, at) : c[n] = b[n]
  PROVE  Denoted(c, type, at, a, s) = Denoted(b, type, at, a, s)
<1>1. CASE type \in HalfwordType
  <2>1. c[at \div 2] = b[at \div 2]
    BY <1>1, Zenon DEF Places, HalfwordType, BranchType, DataType, SdaType
  <2> QED BY <1>1, <2>1, Zenon DEF Denoted, HalfwordType
<1>2. CASE type \in BranchType \cup DataType
  <2>1. c[at \div 2] = b[at \div 2] /\ c[(at \div 2) + 1] = b[(at \div 2) + 1]
    BY <1>2, Zenon DEF Places, HalfwordType, BranchType, DataType, SdaType
  <2>2. WordAt(c, at) = WordAt(b, at)
    BY <2>1, Zenon DEF WordAt
  <2> QED BY <1>2, <2>2, Zenon DEF Denoted, BranchType, DataType
<1> QED BY <1>1, <1>2, Zenon DEF Types

\* Where relocations can be applied.
Ready ==
  /\ RealWidths /\ ObjectsFit /\ input \in Inputs
  /\ explicit \in [DOMAIN explicit -> Nat]
  /\ ImageSize \in Nat /\ OffsetsRight(ImageSize)

\* Entries lead to addresses.
LEMMA LeadsTyped ==
  ASSUME Ready, NEW e \in Range(Entries), Wanted(e)
  PROVE  IsWord(Leads(e))
<1> DEFINE sym == input.symbols[e.symbol]
<1>1. /\ sym.name \in DOMAIN Table /\ sym.section \in Sections(input) \cup {SHN_ABS}
      /\ sym.value \in 0 .. Full - 1 /\ e.addend \in Int
  BY InputTyped, EntriesAre DEF Ready, Wanted, Range
<1>2. Full = 65536 * 65536
  BY Widths DEF Ready
<1>3. Meaning(sym) \in Int
  <2> HIDE DEF sym
  <2>0. sym.value \in Int
    <3> DEFINE v == sym.value
    <3>1. v \in 0 .. Full - 1
      BY <1>1
    <3> HIDE DEF v
    <3> QED BY <3>1 DEF v
  <2>1. CASE sym.section = SHN_ABS
    BY <2>0, <2>1 DEF Meaning
  <2>2. CASE sym.section # SHN_ABS /\ IsImport(sym)
    <3>1. Table \in [DOMAIN Table -> 0 .. Full - 1]
      BY AddressAssumption
    <3>2. Table[sym.name] \in Int
      <4> DEFINE v == Table[sym.name]
      <4>1. v \in 0 .. Full - 1
        BY <1>1, <3>1
      <4> HIDE DEF v
      <4> QED BY <4>1 DEF v
    <3> QED BY <2>2, <3>2 DEF Meaning
  <2>3. CASE sym.section # SHN_ABS /\ ~IsImport(sym) /\ IsExtern(sym)
    <3>1. sym.name \in DOMAIN explicit
      BY <2>3 DEF IsImport
    <3>2. explicit[sym.name] \in Int
      BY <3>1 DEF Ready
    <3> QED BY <2>3, <3>2 DEF Meaning
  <2>4. CASE sym.section # SHN_ABS /\ ~IsExtern(sym)
    <3>1. sym.section \in Kept
      BY <2>4 DEF Wanted, sym
    <3>2. offsets[sym.section + 1] \in Int
      <4>1. offsets[sym.section + 1] = HeaderSize + 2 * Start(sym.section) /\ Start(sym.section) \in Nat
        BY <3>1 DEF Ready, OffsetsRight
      <4> QED BY <4>1, HeaderEven
    <3>3. InCode(sym.section, sym.value) \in Int
      <4> DEFINE x == offsets[sym.section + 1] - HeaderSize + sym.value
      <4>1. x \in Int
        BY <2>0, <3>2, HeaderEven
      <4> HIDE DEF x
      <4>2. x % Full \in Int
        BY <1>2, <4>1
      <4> QED BY <4>2 DEF InCode, x
    <3>4. CodeBase \in Int
      BY AddressAssumption
    <3>5. Meaning(sym) = CodeBase + InCode(sym.section, sym.value)
      BY <2>4 DEF Meaning, IsImport
    <3> HIDE DEF sym
    <3> QED BY <3>3, <3>4, <3>5
  <2> QED BY <2>1, <2>2, <2>3, <2>4
<1>4. Leads(e) = (Meaning(sym) + e.addend) % Full
  BY DEF Leads
<1> DEFINE m == Meaning(sym) + e.addend
<1>5. m \in Int
  BY <1>1, <1>3
<1> HIDE DEF m
<1> QED BY <1>2, <1>4, <1>5 DEF IsWord, m

\* The address that a relocation says.
Value(r) == (Target(r.source) + r.addend) % Full

\* It is where the entry leads to, and what the loader computes for what is left to it.
LEMMA ValueIs ==
  ASSUME NEW r, NEW e, Stands(r, e)
  PROVE  Value(r) = Leads(e) /\ (~IsStatic(r) => AtLoad(r) = Leads(e))
<1>1. Value(r) = Leads(e)
  BY DEF Stands, Value, Leads
<1>2. ASSUME ~IsStatic(r) PROVE AtLoad(r) = Value(r)
  <2>1. r.source.section \in {"code", "raw", "import"}
    BY <1>2 DEF Stands, IsStatic
  <2>2. CASE r.source.section = "code"
    BY <2>2 DEF AtLoad, Value, Target
  <2>3. CASE r.source.section = "raw"
    BY <2>3 DEF AtLoad, Value, Target
  <2>4. CASE r.source.section = "import"
    BY <2>4 DEF AtLoad, Value, Target
  <2> QED BY <2>1, <2>2, <2>3, <2>4
<1> QED BY <1>1, <1>2

\* The converter applies a relocation as the loader does.
LEMMA PutIsApply ==
  ASSUME NEW img, NEW r, AppliedHere(r)
  PROVE  Put(img, r) = Apply(img, r.type, r.at, CodeBase + r.at, Value(r), 0)
<1>1. IsStatic(r) /\ r.type \in StaticTypes
  BY DEF AppliedHere
<1>2. Value(r) = (r.source.offset + r.addend) % Full
  BY <1>1 DEF Value, Target, IsStatic
<1> DEFINE source == (r.source.offset + r.addend) % Full
<1> HIDE DEF source
<1>3. Value(r) = source
  BY <1>2 DEF source
<1>4. CASE r.type \in HalfwordType
  <2>1. Apply(img, r.type, r.at, CodeBase + r.at, source, 0)
          = [img EXCEPT ![r.at \div 2] = Halfword(r.type, source)]
    BY <1>4, Zenon DEF Apply, HalfwordType, SdaType
  <2>2. CASE r.type \in {"ADDR16", "ADDR16_LO"}
    <3>1. Put(img, r) = [img EXCEPT ![r.at \div 2] = source % Half]
      BY <2>2, Zenon DEF Put, source
    <3> QED BY <1>3, <2>1, <2>2, <3>1, Zenon DEF Halfword
  <2>3. CASE r.type = "ADDR16_HI"
    <3>1. Put(img, r) = [img EXCEPT ![r.at \div 2] = source \div Half]
      BY <2>3, Zenon DEF Put, source
    <3> QED BY <1>3, <2>1, <2>3, <3>1, Zenon DEF Halfword
  <2>4. CASE r.type = "ADDR16_HA"
    <3>1. Put(img, r) = [img EXCEPT ![r.at \div 2] = HighAdjusted(source)]
      BY <2>4, Zenon DEF Put, source
    <3> QED BY <1>3, <2>1, <2>4, <3>1, Zenon DEF Halfword
  <2> QED BY <1>4, <2>2, <2>3, <2>4 DEF HalfwordType
<1>5. CASE r.type \in {"ADDR32", "ADDR24", "ADDR14"}
  <2> DEFINE w == WordAt(img, r.at)
  <2>1. Apply(img, r.type, r.at, CodeBase + r.at, source, 0)
          = PutWord(img, r.at, NewWord(r.type, w, source, CodeBase + r.at))
    BY <1>5, Zenon DEF Apply, HalfwordType, SdaType
  <2>2. CASE r.type = "ADDR32"
    <3>1. Put(img, r) = PutWord(img, r.at, source)
      BY <2>2, Zenon DEF Put, source
    <3> QED BY <1>3, <2>1, <2>2, <3>1, Zenon DEF NewWord
  <2>3. CASE r.type = "ADDR24"
    <3>1. Put(img, r) = PutWord(img, r.at, Field(w, source, Reach))
      BY <2>3, Zenon DEF Put, source
    <3> QED BY <1>3, <2>1, <2>3, <3>1, Zenon DEF NewWord
  <2>4. CASE r.type = "ADDR14"
    <3>1. Put(img, r) = PutWord(img, r.at, Field(w, source, Half))
      BY <2>4, Zenon DEF Put, source
    <3> QED BY <1>3, <2>1, <2>4, <3>1, Zenon DEF NewWord
  <2> QED BY <1>5, <2>2, <2>3, <2>4
<1> QED BY <1>1, <1>4, <1>5 DEF StaticTypes, HalfwordType

\* Applying one relocation leads its entry to its address, and no other away from it.
LEMMA ApplyStep ==
  ASSUME Ready, NEW e0 \in Range(Entries), Wanted(e0), e0.type \in Types,
         NEW b, Image(b, ImageSize), NEW at, at = InCode(e0.section, e0.offset),
         NEW c, c = Apply(b, e0.type, at, CodeBase + at, Leads(e0), 0)
  PROVE  /\ Image(c, ImageSize) /\ DoneIn(c, e0)
         /\ Untouched(b) => Untouched(c)
         /\ \A e \in Range(Entries) : Wanted(e) /\ DoneIn(b, e) => DoneIn(c, e)
<1> DEFINE D == 0 .. ImageSize - 1
           P == Places(e0.type, at)
           s == Leads(e0)
<1>1. /\ ImageSize \in Nat /\ b \in [D -> 0 .. Half - 1] /\ RealWidths /\ ObjectsFit
      /\ input \in Inputs /\ OffsetsRight(ImageSize)
  BY DEF Image, Ready
<1>2. e0.section \in Kept /\ e0.type \in Types \ {"NONE"}
  BY DEF Wanted
<1>3. at \in Nat /\ P \subseteq D /\ (e0.type \in BranchType => (CodeBase + at) % 4 = 0)
  BY <1>1, <1>2, PlaceOf
<1>4. IsWord(s) /\ CodeBase + at \in Nat
  BY <1>3, LeadsTyped, AddressAssumption
<1>5. SameBut(P, D, b, c)
  <2> HIDE DEF s, D
  <2> QED BY <1>1, <1>3, <1>4, ApplyTouches DEF s
<1>6. Image(c, ImageSize) /\ \A n \in D \ P : c[n] = b[n]
  BY <1>1, <1>5 DEF SameBut, Image
<1>7. DoneIn(c, e0)
  <2> SUFFICES ASSUME e0.type \in Types \ {"NONE", SdaType}, Expressible(e0.type, CodeBase + at, s)
               PROVE  Denoted(c, e0.type, at, CodeBase + at, s) = s
    BY DEF DoneIn
  <2>1. e0.type \in HalfwordType \cup BranchType \cup DataType
    BY DEF Types
  <2> HIDE DEF s, D
  <2>2. c = Apply(b, e0.type, at, CodeBase + at, s, 0)
    BY DEF s
  <2> QED BY <1>1, <1>3, <1>4, <2>1, <2>2, RelocationDenotes
<1>8. ASSUME NEW e \in Range(Entries), Wanted(e), DoneIn(b, e)
      PROVE  DoneIn(c, e)
  <2>1. CASE e = e0
    BY <1>7, <2>1
  <2>2. CASE e # e0
    <3> DEFINE place == InCode(e.section, e.offset)
               to == Leads(e)
    <3> SUFFICES ASSUME InAddressSpace, e.type \in Types \ {"NONE", SdaType},
                        Expressible(e.type, CodeBase + place, to)
                 PROVE  Denoted(c, e.type, place, CodeBase + place, to) = to
      BY DEF DoneIn
    <3>1. Denoted(b, e.type, place, CodeBase + place, to) = to
      BY <1>8 DEF DoneIn
    <3>2. e.section \in Kept /\ 2 * ImageSize <= Full
      BY <1>8 DEF Wanted, InAddressSpace, ImageSize
    <3>3. \A n \in Places(e.type, place) : c[n] = b[n]
      <4> SUFFICES ASSUME NEW n \in Places(e.type, place) PROVE c[n] = b[n]
        OBVIOUS
      <4>1. n \notin P
        BY <1>1, <1>2, <2>2, <3>2, PlacesApart
      <4>2. n \in D
        <5>1. Places(e.type, place) \subseteq D
          <6> HIDE DEF place
          <6> QED BY <1>1, <3>2, PlaceOf DEF place
        <5> QED BY <5>1
      <4> QED BY <1>6, <4>1, <4>2
    <3> HIDE DEF place, to
    <3>4. Denoted(c, e.type, place, CodeBase + place, to)
            = Denoted(b, e.type, place, CodeBase + place, to)
      BY <3>3, DenotedLocal
    <3> QED BY <3>1, <3>4
  <2> QED BY <2>1, <2>2
<1>9. ASSUME Untouched(b) PROVE Untouched(c)
  <2> SUFFICES ASSUME InAddressSpace, NEW i \in Kept, NEW w \in 1 .. Len(input.sections[i].words),
                      \A e \in Range(Entries) : e.section = i => w - 1 \notin Places(e.type, e.offset)
               PROVE  c[Start(i) + w - 1] = SectionBytes(input.sections[i])[w]
    BY DEF Untouched
  <2> DEFINE n == Start(i) + w - 1
  <2>1. b[n] = SectionBytes(input.sections[i])[w]
    BY <1>9 DEF Untouched
  <2>2. 2 * ImageSize <= Full
    BY DEF InAddressSpace, ImageSize
  <2>3. n \in D /\ n \in Nat /\ Start(i) <= n /\ n < End(i) /\ n - Start(i) = w - 1
    <3>1. /\ Start(i) \in Nat /\ End(i) <= ImageSize
          /\ Len(input.sections[i].words) \in Nat
      BY <1>1, KeptTyped DEF OffsetsRight
    <3>2. End(i) = Start(i) + Len(input.sections[i].words)
      BY DEF End
    <3> QED BY <1>1, <3>1, <3>2
  <2>4. n \notin P
    <3> SUFFICES ASSUME n \in P PROVE FALSE
      OBVIOUS
    <3> HIDE DEF n
    <3>1. /\ Start(e0.section) <= n /\ n < End(e0.section)
          /\ n - Start(e0.section) \in Places(e0.type, e0.offset)
      BY <1>1, <1>2, <2>2, AtPlaces
    <3>2. e0.section = i
      BY <1>1, <1>2, <2>3, <3>1, SectionsApart
    <3> QED BY <2>3, <3>1, <3>2
  <2> HIDE DEF n
  <2> QED BY <1>6, <2>1, <2>3, <2>4 DEF n
<1> QED BY <1>6, <1>7, <1>8, <1>9

\* Relocation r applied to the code.
Applied(img, r) == Apply(img, r.type, r.at, CodeBase + r.at, Value(r), 0)

\* Applying the relocations C one after the other.
Applies(f, C, b) ==
  f = [i \in 0 .. Len(relocs) |->
        IF i = 0 THEN b ELSE IF i \in C THEN Applied(f[i - 1], relocs[i]) ELSE f[i - 1]]

\* All of them stand for entries of a type that is known.
Applicable(C) ==
  /\ Len(relocs) \in Nat /\ C \subseteq 1 .. Len(relocs)
  /\ \A j \in C : \E e \in Range(Entries) : Stands(relocs[j], e) /\ e.type \in Types

\* One relocation of the sequence: its entry is done.
LEMMA AppliedStep ==
  ASSUME Ready, NEW r, NEW e \in Range(Entries), Stands(r, e), e.type \in Types,
         NEW b, Image(b, ImageSize)
  PROVE  /\ Image(Applied(b, r), ImageSize) /\ DoneIn(Applied(b, r), e)
         /\ Untouched(b) => Untouched(Applied(b, r))
         /\ \A f \in Range(Entries) : Wanted(f) /\ DoneIn(b, f) => DoneIn(Applied(b, r), f)
<1>1. Wanted(e) /\ r.type = e.type /\ r.at = InCode(e.section, e.offset)
  BY DEF Stands
<1>2. Value(r) = Leads(e)
  BY ValueIs
<1>3. Applied(b, r) = Apply(b, e.type, r.at, CodeBase + r.at, Leads(e), 0)
  BY <1>1, <1>2 DEF Applied
<1> QED BY <1>1, <1>3, ApplyStep

\* The sequence can be applied.
LEMMA ApplyingExists ==
  ASSUME Ready, NEW C, Applicable(C), NEW b, Image(b, ImageSize)
  PROVE  \E f : Applies(f, C, b)
<1> DEFINE size == Len(relocs)
           S == [0 .. ImageSize - 1 -> 0 .. Half - 1]
           next(old, i) == IF i \in C THEN Applied(old, relocs[i]) ELSE old
           step == [i \in 1 .. size |-> [u \in S |-> next(u, i)]]
<1>1. size \in Nat /\ b \in S /\ ImageSize \in Nat
  BY DEF Applicable, Image
<1>2. ASSUME NEW i \in 1 .. size, NEW u \in S PROVE next(u, i) \in S
  <2>1. CASE i \in C
    <3>1. PICK e \in Range(Entries) : Stands(relocs[i], e) /\ e.type \in Types
      BY <2>1 DEF Applicable
    <3>2. Image(u, ImageSize)
      BY <1>1, <1>2 DEF Image
    <3>3. Image(Applied(u, relocs[i]), ImageSize)
      BY <3>1, <3>2, AppliedStep
    <3> QED BY <2>1, <3>3 DEF Image
  <2>2. CASE i \notin C
    BY <1>2, <2>2
  <2> QED BY <2>1, <2>2
<1> HIDE DEF size, S, next
<1>3. step \in Steps(S, size)
  BY <1>2 DEF Steps
<1> HIDE DEF step
<1>4. PICK g : Iterates(g, S, b, size, step)
  BY <1>1, <1>3, Iteration
<1>5. g = [i \in 0 .. size |-> IF i = 0 THEN b ELSE next(g[i - 1], i)]
  <2>1. g \in [0 .. size -> S] /\ \A i \in 1 .. size : i - 1 \in 0 .. size
    BY <1>1, <1>4 DEF Iterates
  <2>2. \A i \in 1 .. size : step[i][g[i - 1]] = next(g[i - 1], i)
    BY <2>1 DEF step
  <2>3. g = [i \in 0 .. size |-> IF i = 0 THEN b ELSE step[i][g[i - 1]]]
    BY <1>4 DEF Iterates
  <2>4. \A i \in 0 .. size : i # 0 => i \in 1 .. size
    BY <1>1
  <2> QED BY <2>2, <2>3, <2>4
<1>6. Applies(g, C, b)
  BY <1>5, Zenon DEF Applies, next, size
<1> QED BY <1>6

\* When they have all been applied, each of their entries leads to its address.
LEMMA AllApplied ==
  ASSUME Ready, NEW C, Applicable(C), NEW b, Image(b, ImageSize), NEW f, Applies(f, C, b),
         NEW c, c = f[Len(relocs)]
  PROVE  /\ Image(c, ImageSize)
         /\ Untouched(b) => Untouched(c)
         /\ \A e \in Range(Entries) :
              Wanted(e) /\ (DoneIn(b, e) \/ \E j \in C : Stands(relocs[j], e)) => DoneIn(c, e)
<1> DEFINE size == Len(relocs)
           Good(i) == /\ Image(f[i], ImageSize)
                      /\ Untouched(b) => Untouched(f[i])
                      /\ \A e \in Range(Entries) :
                           Wanted(e) /\ (DoneIn(b, e) \/ \E j \in C : j <= i /\ Stands(relocs[j], e))
                             => DoneIn(f[i], e)
           G == {i \in 0 .. size : Good(i)}
           id == [i \in 0 .. size |-> i]
<1>1. size \in Nat /\ C \subseteq 1 .. size
  BY DEF Applicable
<1> HIDE DEF size
<1>2. f[0] = b /\ \A i \in 1 .. size :
        f[i] = IF i \in C THEN Applied(f[i - 1], relocs[i]) ELSE f[i - 1]
  <2>1. f = [i \in 0 .. size |->
          IF i = 0 THEN b ELSE IF i \in C THEN Applied(f[i - 1], relocs[i]) ELSE f[i - 1]]
    BY Zenon DEF Applies, size
  <2>2. \A i \in 1 .. size : i \in 0 .. size /\ i # 0
    BY <1>1
  <2>3. 0 \in 0 .. size
    BY <1>1
  <2> QED BY <2>1, <2>2, <2>3, Zenon
<1>3. id[0] \in G
  <2>1. \A j \in C : ~(j <= 0)
    BY <1>1
  <2>2. Good(0)
    BY <1>2, <2>1
  <2> HIDE DEF Good
  <2> QED BY <1>1, <2>2
<1>4. ASSUME NEW i \in 1 .. size, id[i - 1] \in G PROVE id[i] \in G
  <2>1. i - 1 \in 0 .. size /\ i \in 0 .. size
    BY <1>1
  <2>2. Good(i - 1)
    <3> HIDE DEF Good
    <3> QED BY <1>4, <2>1
  <2> DEFINE old == f[i - 1]
             new == f[i]
  <2>3. /\ Image(old, ImageSize) /\ (Untouched(b) => Untouched(old))
        /\ \A e \in Range(Entries) :
             Wanted(e) /\ (DoneIn(b, e) \/ \E j \in C : j <= i - 1 /\ Stands(relocs[j], e))
               => DoneIn(old, e)
    BY <2>2
  <2>4. new = IF i \in C THEN Applied(old, relocs[i]) ELSE old
    BY <1>2
  <2>5. \A j \in C : j <= i => j <= i - 1 \/ j = i
    BY <1>1
  <2> HIDE DEF old, new
  <2>6. /\ Image(new, ImageSize) /\ (Untouched(b) => Untouched(new))
        /\ \A e \in Range(Entries) :
             Wanted(e) /\ (DoneIn(b, e) \/ \E j \in C : j <= i /\ Stands(relocs[j], e))
               => DoneIn(new, e)
    <3>1. CASE i \notin C
      BY <2>3, <2>4, <2>5, <3>1
    <3>2. CASE i \in C
      <4>1. PICK e0 \in Range(Entries) : Stands(relocs[i], e0) /\ e0.type \in Types
        BY <3>2 DEF Applicable
      <4>2. new = Applied(old, relocs[i])
        BY <2>4, <3>2
      <4>3. /\ Image(new, ImageSize) /\ (Untouched(old) => Untouched(new))
            /\ \A e \in Range(Entries) : Wanted(e) /\ DoneIn(old, e) => DoneIn(new, e)
        BY <2>3, <4>1, <4>2, AppliedStep
      <4>4. ASSUME NEW e \in Range(Entries), Stands(relocs[i], e) PROVE DoneIn(new, e)
        <5>1. e.type \in Types
          BY <4>1, <4>4 DEF Stands
        <5> QED BY <2>3, <4>2, <4>4, <5>1, AppliedStep
      <4> QED BY <2>3, <2>5, <4>3, <4>4
    <3> QED BY <3>1, <3>2
  <2>7. Good(i)
    BY <2>6 DEF new
  <2> HIDE DEF Good
  <2> QED BY <2>1, <2>7
<1>5. Good(size)
  <2> HIDE DEF Good
  <2>1. \A i \in 0 .. size : id[i] \in G
    <3> HIDE DEF id, G
    <3> QED BY <1>1, <1>3, <1>4, HandedOn
  <2>2. size \in 0 .. size
    BY <1>1
  <2> QED BY <2>1, <2>2
<1>6. \A j \in C : j <= size
  BY <1>1
<1>7. c = f[size]
  BY DEF size
<1> QED BY <1>5, <1>6, <1>7

-----------------------------------------------------------------------------
\* The strings of the file.

\* The bytes before each string, which grow.
LEMMA CharactersAre ==
  ASSUME input \in Inputs, imports \in Seq(DOMAIN Table)
  PROVE  /\ \A i \in 0 .. Len(imports) : Characters(i) \in Nat
         /\ \A i \in 1 .. Len(imports) :
              Characters(i - 1) + input.length[imports[i]] < Characters(Len(imports))
         /\ Len(imports) \in Nat
<1> DEFINE n == Len(imports)
           long(j) == input.length[imports[j]]
           step == [j \in 1 .. n |-> [u \in Nat |-> u + long(j) + 1]]
<1>1. n \in Nat /\ \A j \in 1 .. n : long(j) \in Nat
  <2>1. n \in Nat /\ \A j \in 1 .. n : imports[j] \in DOMAIN Table
    BY LenProperties
  <2>2. input.length \in [DOMAIN Table -> Nat]
    BY InputTyped
  <2> QED BY <2>1, <2>2
<1> HIDE DEF n, long
<1>2. step \in Steps(Nat, n)
  <2>1. \A j \in 1 .. n : \A u \in Nat : u + long(j) + 1 \in Nat
    BY <1>1
  <2> QED BY <2>1 DEF Steps
<1>3. PICK g : Iterates(g, Nat, 0, n, step)
  BY <1>1, <1>2, Iteration
<1>4. g \in [0 .. n -> Nat] /\ g[0] = 0 /\ \A j \in 1 .. n : g[j] = g[j - 1] + long(j) + 1
  <2>1. g \in [0 .. n -> Nat] /\ g = [i \in 0 .. n |-> IF i = 0 THEN 0 ELSE step[i][g[i - 1]]]
    BY <1>3 DEF Iterates
  <2>2. \A j \in 1 .. n : j - 1 \in 0 .. n /\ j \in 0 .. n /\ j # 0
    BY <1>1
  <2>3. \A j \in 1 .. n : g[j - 1] \in Nat
    BY <2>1, <2>2
  <2>4. \A j \in 1 .. n : step[j][g[j - 1]] = g[j - 1] + long(j) + 1
    BY <2>3
  <2>5. 0 \in 0 .. n
    BY <1>1
  <2> HIDE DEF step
  <2> QED BY <2>1, <2>2, <2>4, <2>5
<1>5. ASSUME NEW i \in 0 .. n PROVE Characters(i) = g[i]
  <2> DEFINE loop(f) == f = [j \in 0 .. i |-> IF j = 0 THEN 0 ELSE f[j - 1] + long(j) + 1]
             sum == CHOOSE f : loop(f)
             h == [j \in 0 .. i |-> g[j]]
  <2>1. loop(h)
    <3>1. \A j \in 0 .. i : j # 0 => j - 1 \in 0 .. i /\ j \in 1 .. n
      BY <1>1
    <3>2. \A j \in 0 .. i : g[j] = IF j = 0 THEN 0 ELSE g[j - 1] + long(j) + 1
      BY <1>4, <3>1
    <3>3. \A j \in 0 .. i : j # 0 => h[j - 1] = g[j - 1]
      BY <3>1
    <3> QED BY <3>2, <3>3
  <2>2. loop(sum)
    <3> HIDE DEF loop
    <3> QED BY <2>1
  <2>3. Characters(i) = sum[i]
    BY Zenon DEF Characters, long
  <2> HIDE DEF sum, h
  <2>4. i \in Nat /\ sum[0] = 0 /\ \A j \in 1 .. i : sum[j] = sum[j - 1] + long(j) + 1
    <3>1. i \in Nat /\ \A j \in 1 .. i : j \in 0 .. i /\ j # 0
      BY <1>1
    <3> QED BY <2>2, <3>1
  <2> HIDE DEF loop
  <2> DEFINE G == {j \in 0 .. i : sum[j] = g[j]}
             id == [j \in 0 .. i |-> j]
  <2>5. id[0] \in G
    BY <1>4, <2>4
  <2>6. ASSUME NEW j \in 1 .. i, id[j - 1] \in G PROVE id[j] \in G
    <3>1. j - 1 \in 0 .. i /\ j \in 0 .. i /\ j \in 1 .. n
      BY <1>1, <2>4
    <3> QED BY <1>4, <2>4, <2>6, <3>1
  <2>7. \A j \in 0 .. i : id[j] \in G
    <3> HIDE DEF id, G
    <3> QED BY <2>4, <2>5, <2>6, HandedOn
  <2>8. id[i] \in G /\ id[i] = i
    BY <2>4, <2>7
  <2> QED BY <2>3, <2>8
<1>6. ASSUME NEW i \in 0 .. n PROVE g[i] <= g[n]
  <2> DEFINE up == [j \in 0 .. n - i |-> g[i + j]]
             S == {x \in Nat : g[i] <= x}
  <2>1. n - i \in Nat /\ up[0] \in S
    BY <1>1, <1>4
  <2>2. ASSUME NEW j \in 1 .. n - i, up[j - 1] \in S PROVE up[j] \in S
    <3>1. /\ i + j \in 1 .. n /\ j \in 0 .. n - i /\ j - 1 \in 0 .. n - i /\ i + j - 1 \in 0 .. n
          /\ i + (j - 1) = i + j - 1
      BY <1>1
    <3>2. g[i + j] = g[i + j - 1] + long(i + j) + 1 /\ long(i + j) \in Nat /\ g[i + j - 1] \in Nat
          /\ g[i] \in Nat
      BY <1>1, <1>4, <3>1
    <3>3. g[i + j - 1] \in S
      BY <2>2, <3>1
    <3> QED BY <3>1, <3>2, <3>3
  <2>3. \A j \in 0 .. n - i : up[j] \in S
    <3> HIDE DEF up, S
    <3> QED BY <2>1, <2>2, HandedOn
  <2>4. n - i \in 0 .. n - i /\ i + (n - i) = n
    BY <1>1
  <2> QED BY <2>3, <2>4
<1>7. n \in 0 .. n /\ \A i \in 1 .. n : i - 1 \in 0 .. n /\ i \in 0 .. n
  BY <1>1
<1>8. ASSUME NEW i \in 1 .. n
      PROVE  Characters(i - 1) + long(i) < Characters(n)
  <2>1. Characters(i - 1) = g[i - 1] /\ Characters(n) = g[n]
    BY <1>5, <1>7
  <2>2. g[i] = g[i - 1] + long(i) + 1 /\ g[i] <= g[n] /\ long(i) \in Nat
        /\ g[i - 1] \in Nat /\ g[i] \in Nat /\ g[n] \in Nat
    BY <1>1, <1>4, <1>6, <1>7
  <2> QED BY <2>1, <2>2
<1>9. \A i \in 0 .. n : Characters(i) \in Nat
  BY <1>4, <1>5
<1> QED BY <1>1, <1>8, <1>9 DEF n, long

\* The file that is written can be read.
LEMMA WrittenReadable ==
  ASSUME input \in Inputs, imports \in Seq(DOMAIN Table), Len(relocs) \in Nat,
         ImageSize \in Nat, header.code[2] = FileSize(image), WriteSections
  PROVE  FileIsReadable'
<1> DEFINE relocStart == roundUp(FileSize(image), FileAlign)
           relocEnd == relocStart + 16 * Len(relocs)
           start == roundUp(relocEnd, FileAlign)
           n == Len(imports)
           pool == start + 12 * n
<1>1. /\ n \in Nat /\ DOMAIN imports = 1 .. n /\ Cardinality(DOMAIN imports) = n
      /\ \A i \in 0 .. n : Characters(i) \in Nat
      /\ \A i \in 1 .. n : Characters(i - 1) + input.length[imports[i]] < Characters(n)
  <2>1. n \in Nat /\ DOMAIN imports = 1 .. n
    BY LenProperties
  <2>2. Cardinality(1 .. n) = n
    <3> HIDE DEF n
    <3> QED BY <2>1, FS_Interval
  <2> QED BY <2>1, <2>2, CharactersAre
<1>2. FileSize(image) \in Nat /\ FileAlign \in Nat
  BY HeaderEven, AlignmentAssumption DEF FileSize, ImageSize
<1>3. relocStart \in Nat /\ FileSize(image) <= relocStart
  BY <1>2, RoundsUp
<1>4. relocEnd \in Nat
  <2> HIDE DEF relocStart
  <2> QED BY <1>3
<1>5. start \in Nat /\ relocEnd <= start
  <2> HIDE DEF relocEnd
  <2> QED BY <1>2, <1>4, RoundsUp
<1>6. /\ header' = [code |-> header.code, alignment |-> header.alignment, entry |-> header.entry,
                    relocations |-> <<relocStart, relocEnd>>,
                    imports |-> <<start, pool + Characters(n)>>]
      /\ strings' = [i \in DOMAIN imports |->
                       [said |-> SaidAt(start, i), is |-> pool + Characters(i - 1)]]
      /\ UNCHANGED <<input, imports>>
  BY <1>1, Zenon DEF WriteSections
<1> HIDE DEF start, relocEnd, relocStart
<1>7. /\ header'.code = header.code
      /\ header'.relocations = <<relocStart, relocEnd>>
      /\ header'.imports = <<start, pool + Characters(n)>>
  BY <1>6
<1>8. header'.code[2] <= header'.relocations[1] /\ header'.relocations[2] <= header'.imports[1]
  BY <1>3, <1>5, <1>7
<1>9. calcTableSize' = 12 * n
  BY <1>6 DEF calcTableSize
<1>10. ASSUME NEW i \in DOMAIN imports
       PROVE  /\ strings'[i].said = strings'[i].is
              /\ strings'[i].is + input.length[imports[i]] < header'.imports[2]
              /\ 12 * n <= strings'[i].is - header'.imports[1]
  <2>1. /\ strings'[i].said = start + 12 * n + Characters(i - 1)
        /\ strings'[i].is = pool + Characters(i - 1)
    BY <1>6 DEF SaidAt, calcTableSize
  <2>2. /\ Characters(i - 1) \in Nat /\ Characters(n) \in Nat
        /\ Characters(i - 1) + input.length[imports[i]] < Characters(n)
        /\ input.length[imports[i]] \in Nat
    <3>1. i \in 1 .. n /\ i - 1 \in 0 .. n /\ n \in 0 .. n
      BY <1>1
    <3>2. imports[i] \in DOMAIN Table
      BY <1>1, LenProperties
    <3>3. input.length \in [DOMAIN Table -> Nat]
      BY InputTyped
    <3> QED BY <1>1, <3>1, <3>2, <3>3
  <2> QED BY <1>1, <1>5, <1>7, <2>1, <2>2
<1>11. DOMAIN strings' = DOMAIN imports
  BY <1>6
<1> QED BY <1>6, <1>8, <1>9, <1>10, <1>11 DEF FileIsReadable

-----------------------------------------------------------------------------
\* The code is kept by every step.

\* The code is judged by the entries and the layout only.
LEMMA CodeStays ==
  ASSUME UNCHANGED <<input, explicit, offsets>>, ImageSize' = ImageSize
  PROVE  /\ Entries' = Entries /\ Range(Entries)' = Range(Entries)
         /\ \A e : Wanted(e)' = Wanted(e) /\ Leads(e)' = Leads(e)
         /\ \A img, e : DoneIn(img, e)' = DoneIn(img, e)
         /\ \A img : Untouched(img)' = Untouched(img)
         /\ OffsetsRight(ImageSize)' = OffsetsRight(ImageSize)
<1>1. /\ Entries' = Entries /\ Kept' = Kept /\ \A e : Wanted(e)' = Wanted(e)
      /\ \A e : InCode(e.section, e.offset)' = InCode(e.section, e.offset)
      /\ \A sym : Meaning(sym)' = Meaning(sym)
  BY MeaningStays
<1>2. \A e : Leads(e)' = Leads(e)
  BY <1>1 DEF Leads
<1>3. InAddressSpace' = InAddressSpace
  BY DEF InAddressSpace, ImageSize
<1>4. \A i : Start(i)' = Start(i) /\ End(i)' = End(i)
  BY DEF Start, End
<1>5. Range(Entries)' = Range(Entries)
  BY <1>1 DEF Range
<1>6. \A img, e : DoneIn(img, e)' = DoneIn(img, e)
  BY <1>1, <1>2, <1>3 DEF DoneIn
<1>7. \A img : Untouched(img)' = Untouched(img)
  BY <1>1, <1>3, <1>4, <1>5 DEF Untouched
<1>8. OffsetsRight(ImageSize)' = OffsetsRight(ImageSize)
  BY <1>1, <1>4 DEF OffsetsRight
<1> QED BY <1>1, <1>2, <1>5, <1>6, <1>7, <1>8

\* From the extraction on relocations can be applied.
LEMMA ReadyToApply ==
  ASSUME RealWidths, ObjectsFit, LayoutInv, RelocsInv, CodeInv, stage \in LaidOut
  PROVE  /\ Ready /\ Image(image, ImageSize) /\ Len(relocs) \in Nat /\ DOMAIN relocs = 1 .. Len(relocs)
         /\ \A j \in DOMAIN relocs : \E e \in Range(Entries) : Stands(relocs[j], e)
<1>1. Image(image, ImageSize) /\ OffsetsRight(ImageSize)
  BY DEF LayoutInv, CodeInv, LaidOut
<1>2. input \in Inputs /\ explicit \in [DOMAIN explicit -> Nat]
  BY DEF LayoutInv
<1>3. /\ relocs \in Seq(Range(relocs))
      /\ \A j \in DOMAIN relocs : \E z \in DOMAIN Entries : Stands(relocs[j], Entries[z])
  BY DEF RelocsInv
<1>4. \A z \in DOMAIN Entries : Entries[z] \in Range(Entries)
  BY DEF Range
<1> QED BY <1>1, <1>2, <1>3, <1>4, LenProperties DEF Ready, Image

\* What the converter applies, it applies for good ...
LEMMA ApplyCode ==
  ASSUME RealWidths, ObjectsFit, LayoutInv, RelocsInv, CodeInv, ApplyExternRelocs
  PROVE  CodeInv'
<1> DEFINE C == {j \in 1 .. Len(relocs) : AppliedHere(relocs[j])}
           loop(f) == f = [i \in 0 .. Len(relocs) |->
             IF i = 0 THEN image
             ELSE IF AppliedHere(relocs[i]) THEN Put(f[i - 1], relocs[i]) ELSE f[i - 1]]
           after == CHOOSE f : loop(f)
<1>1. /\ stage = "extract" /\ stage' = "write" /\ reached > Len(Entries) /\ relocs' = Deferred
      /\ UNCHANGED <<input, explicit, offsets, imports, reached, header>>
      /\ image' = after[Len(relocs)]
  BY Zenon DEF ApplyExternRelocs
<1>2. stage \in LaidOut
  BY <1>1 DEF LaidOut
<1>3. /\ Ready /\ Image(image, ImageSize) /\ Len(relocs) \in Nat /\ DOMAIN relocs = 1 .. Len(relocs)
      /\ \A j \in DOMAIN relocs : \E e \in Range(Entries) : Stands(relocs[j], e)
  BY <1>2, ReadyToApply
<1>4. Applicable(C)
  <2>1. \A j \in C : relocs[j].type \in Types
    BY DEF AppliedHere, StaticTypes, Types, HalfwordType, BranchType, DataType
  <2>2. \A j \in C : \E e \in Range(Entries) : Stands(relocs[j], e) /\ e.type \in Types
    BY <1>3, <2>1 DEF Stands
  <2> QED BY <1>3, <2>2 DEF Applicable
<1>5. \A f : loop(f) <=> Applies(f, C, image)
  <2> SUFFICES ASSUME NEW f PROVE loop(f) <=> Applies(f, C, image)
    OBVIOUS
  <2>1. \A i \in 0 .. Len(relocs) :
          (IF i = 0 THEN image
           ELSE IF AppliedHere(relocs[i]) THEN Put(f[i - 1], relocs[i]) ELSE f[i - 1])
          = IF i = 0 THEN image ELSE IF i \in C THEN Applied(f[i - 1], relocs[i]) ELSE f[i - 1]
    <3> SUFFICES ASSUME NEW i \in 0 .. Len(relocs), i # 0
                 PROVE (IF AppliedHere(relocs[i]) THEN Put(f[i - 1], relocs[i]) ELSE f[i - 1])
                         = IF i \in C THEN Applied(f[i - 1], relocs[i]) ELSE f[i - 1]
      OBVIOUS
    <3>1. i \in 1 .. Len(relocs)
      BY <1>3
    <3>2. i \in C <=> AppliedHere(relocs[i])
      BY <3>1
    <3>3. AppliedHere(relocs[i]) => Put(f[i - 1], relocs[i]) = Applied(f[i - 1], relocs[i])
      BY PutIsApply DEF Applied
    <3> HIDE DEF C
    <3> QED BY <3>2, <3>3
  <2> HIDE DEF C
  <2> QED BY <2>1, Zenon DEF Applies
<1> HIDE DEF C
<1>6. Applies(after, C, image)
  <2>1. PICK f : Applies(f, C, image)
    BY <1>3, <1>4, ApplyingExists
  <2>2. loop(f)
    BY <1>5, <2>1
  <2>3. loop(after)
    <3> HIDE DEF loop
    <3> QED BY <2>2
  <2> HIDE DEF loop, after
  <2> QED BY <1>5, <2>3
<1> HIDE DEF after, loop
<1>7. /\ Image(image', ImageSize) /\ (Untouched(image) => Untouched(image'))
      /\ \A e \in Range(Entries) :
           Wanted(e) /\ (DoneIn(image, e) \/ \E j \in C : Stands(relocs[j], e)) => DoneIn(image', e)
  <2> DEFINE c == image'
  <2>1. c = after[Len(relocs)]
    BY <1>1
  <2> HIDE DEF c
  <2>2. /\ Image(c, ImageSize) /\ (Untouched(image) => Untouched(c))
        /\ \A e \in Range(Entries) :
             Wanted(e) /\ (DoneIn(image, e) \/ \E j \in C : Stands(relocs[j], e)) => DoneIn(c, e)
    BY <1>3, <1>4, <1>6, <2>1, AllApplied
  <2> QED BY <2>2 DEF c
<1>8. Untouched(image)
  BY <1>1 DEF LayoutInv, ContentsRight, Untouched
<1>9. PICK c : c = image'
  OBVIOUS
<1>10. ImageSize' = ImageSize /\ Image(image, ImageSize)' /\ FileSize(image)' = FileSize(image)
  <2>1. DOMAIN image' = DOMAIN image
    BY <1>3, <1>7 DEF Image
  <2>2. ImageSize' = ImageSize /\ FileSize(image)' = FileSize(image)
    BY <2>1 DEF ImageSize, FileSize
  <2> QED BY <1>7, <2>2 DEF Image
<1>11. /\ Entries' = Entries /\ Range(Entries)' = Range(Entries)
       /\ \A e : Wanted(e)' = Wanted(e)
       /\ \A e : DoneIn(c, e)' = DoneIn(c, e)
       /\ Untouched(c)' = Untouched(c)
       /\ OffsetsRight(ImageSize)' = OffsetsRight(ImageSize)
  BY <1>1, <1>10, CodeStays
<1>12. Untouched(image)'
  <2>1. Untouched(c)'
    BY <1>7, <1>8, <1>9, <1>11
  <2> QED BY <1>9, <2>1 DEF Untouched
<1>13. ASSUME NEW e \in Range(Entries), Wanted(e)
       PROVE  DoneIn(image, e)' \/ \E j \in DOMAIN relocs' : Stands(relocs[j], e)'
  <2>1. PICK z \in DOMAIN Entries : e = Entries[z]
    BY DEF Range
  <2>2. PICK j \in DOMAIN relocs : Stands(relocs[j], e)
    <3>1. z < reached
      BY <1>1, <1>2, EntriesAre DEF RelocsInv, LayoutInv
    <3> QED BY <1>1, <1>2, <1>13, <2>1, <3>1 DEF RelocsInv
  <2>3. CASE AppliedHere(relocs[j])
    <3>1. j \in C
      BY <1>3, <2>3 DEF C
    <3>2. DoneIn(c, e)'
      BY <1>7, <1>9, <1>11, <1>13, <2>2, <3>1
    <3> QED BY <1>9, <3>2 DEF DoneIn
  <2>4. CASE ~AppliedHere(relocs[j])
    <3>1. PICK m \in DOMAIN Deferred : Deferred[m] = Dynamic(relocs[j])
      BY <1>2, <2>4, DeferredIs DEF RelocsInv
    <3>2. PICK r : r = Dynamic(relocs[j])
      OBVIOUS
    <3>3. Stands(r, e)
      BY <2>2, <3>2, DynamicStands
    <3>4. imports \in Seq(DOMAIN Table) /\ Len(imports) \in Nat
      BY <1>2, LenProperties DEF RelocsInv
    <3>5. Stands(r, e)'
      BY <1>1, <3>3, <3>4, StandsStays
    <3> QED BY <1>1, <3>1, <3>2, <3>5
  <2> QED BY <2>3, <2>4
<1>14. header.code[2] = FileSize(image)
  BY <1>1 DEF LayoutInv
<1>15. \A e \in Range(Entries)' : Wanted(e)' =>
         DoneIn(image, e)' \/ \E j \in DOMAIN relocs' : Stands(relocs[j], e)'
  BY <1>11, <1>13
<1>16. OffsetsRight(ImageSize)'
  BY <1>3, <1>11 DEF Ready
<1> QED BY <1>1, <1>10, <1>12, <1>14, <1>15, <1>16 DEF CodeInv, FileIsReadable

\* ... and what is left, the loader.
LEMMA LoadCode ==
  ASSUME RealWidths, ObjectsFit, LayoutInv, RelocsInv, CodeInv, Load
  PROVE  CodeInv'
<1> DEFINE C == 1 .. Len(relocs)
           loop(f) == f = [i \in 0 .. Len(relocs) |->
             IF i = 0 THEN image
             ELSE Apply(f[i - 1], relocs[i].type, relocs[i].at, CodeBase + relocs[i].at,
                        AtLoad(relocs[i]), 0)]
           after == CHOOSE f : loop(f)
<1>1. /\ stage = "written" /\ stage' \in {"refused", "loaded"}
      /\ UNCHANGED <<input, explicit, offsets, image, relocs, imports, reached>>
      /\ stage' = "loaded" =>
           memory' = after[Len(relocs)] /\ \A j \in DOMAIN relocs : ~RefusedAtLoad(relocs[j])
  BY Zenon DEF Load
<1>2. stage \in LaidOut
  BY <1>1 DEF LaidOut
<1>3. /\ Ready /\ Image(image, ImageSize) /\ Len(relocs) \in Nat /\ DOMAIN relocs = 1 .. Len(relocs)
      /\ \A j \in DOMAIN relocs : \E e \in Range(Entries) : Stands(relocs[j], e)
  BY <1>2, ReadyToApply
<1>4. /\ Untouched(image)
      /\ \A e \in Range(Entries) : Wanted(e) =>
           DoneIn(image, e) \/ \E j \in DOMAIN relocs : Stands(relocs[j], e)
      /\ \A j \in DOMAIN relocs : ~IsStatic(relocs[j])
  BY <1>1, <1>2 DEF CodeInv, RelocsInv
<1>5. /\ ImageSize' = ImageSize /\ Image(image, ImageSize)' = Image(image, ImageSize)
  BY <1>1 DEF ImageSize, Image
<1>6. PICK c : c = memory'
  OBVIOUS
<1>7. /\ Range(Entries)' = Range(Entries)
      /\ \A e : Wanted(e)' = Wanted(e)
      /\ \A e : DoneIn(c, e)' = DoneIn(c, e)
      /\ Untouched(c)' = Untouched(c)
      /\ OffsetsRight(ImageSize)' = OffsetsRight(ImageSize)
  BY <1>1, <1>5, CodeStays
<1>8. OffsetsRight(ImageSize)' /\ Image(image, ImageSize)'
  BY <1>3, <1>5, <1>7 DEF Ready
<1>9. CASE stage' = "refused"
  BY <1>8, <1>9 DEF CodeInv, FileIsReadable
<1>10. CASE stage' = "loaded"
  <2>1. memory' = after[Len(relocs)] /\ \A j \in DOMAIN relocs : relocs[j].type \in Types
    BY <1>1, <1>10 DEF RefusedAtLoad
  <2>2. Applicable(C)
    <3>1. \A j \in C : \E e \in Range(Entries) : Stands(relocs[j], e) /\ e.type \in Types
      BY <1>3, <2>1 DEF Stands
    <3> QED BY <1>3, <3>1 DEF Applicable
  <2>3. \A f : loop(f) <=> Applies(f, C, image)
    <3> SUFFICES ASSUME NEW f PROVE loop(f) <=> Applies(f, C, image)
      OBVIOUS
    <3>1. ASSUME NEW i \in 0 .. Len(relocs)
          PROVE  (IF i = 0 THEN image
                  ELSE Apply(f[i - 1], relocs[i].type, relocs[i].at, CodeBase + relocs[i].at,
                             AtLoad(relocs[i]), 0))
                 = IF i = 0 THEN image ELSE IF i \in C THEN Applied(f[i - 1], relocs[i]) ELSE f[i - 1]
      <4>1. CASE i = 0
        BY <4>1
      <4>2. CASE i # 0
        <5>1. i \in C /\ i \in DOMAIN relocs
          BY <1>3, <4>2
        <5>2. AtLoad(relocs[i]) = Value(relocs[i])
          BY <1>3, <1>4, <5>1, ValueIs
        <5> HIDE DEF C
        <5> QED BY <4>2, <5>1, <5>2 DEF Applied
      <4> QED BY <4>1, <4>2
    <3> HIDE DEF C
    <3> QED BY <3>1, Zenon DEF Applies
  <2> HIDE DEF C
  <2>4. Applies(after, C, image)
    <3>1. PICK f : Applies(f, C, image)
      BY <1>3, <2>2, ApplyingExists
    <3>2. loop(f)
      BY <2>3, <3>1
    <3>3. loop(after)
      <4> HIDE DEF loop
      <4> QED BY <3>2
    <3> HIDE DEF loop, after
    <3> QED BY <2>3, <3>3
  <2> HIDE DEF after, loop
  <2>5. /\ Image(c, ImageSize) /\ Untouched(c)
        /\ \A e \in Range(Entries) :
             Wanted(e) /\ (DoneIn(image, e) \/ \E j \in C : Stands(relocs[j], e)) => DoneIn(c, e)
    BY <1>3, <1>4, <1>6, <2>1, <2>2, <2>4, AllApplied
  <2>6. ASSUME NEW e \in Range(Entries), Wanted(e) PROVE DoneIn(memory, e)'
    <3>1. DoneIn(c, e)
      BY <1>3, <1>4, <2>5, <2>6 DEF C
    <3>2. DoneIn(c, e)'
      BY <1>7, <3>1
    <3> QED BY <1>6, <3>2 DEF DoneIn
  <2>7. \A e \in Range(Entries)' : Wanted(e)' => DoneIn(memory, e)'
    BY <1>7, <2>6
  <2>8. Untouched(memory)'
    <3>1. Untouched(c)'
      BY <1>7, <2>5
    <3> QED BY <1>6, <3>1 DEF Untouched
  <2>9. Image(memory, ImageSize)'
    BY <1>5, <1>6, <2>5 DEF Image
  <2> QED BY <1>8, <1>10, <2>7, <2>8, <2>9 DEF CodeInv, FileIsReadable
<1> QED BY <1>1, <1>9, <1>10

\* Where nothing that the code is judged by changes.
LEMMA CodeKept ==
  ASSUME LayoutInv, RelocsInv, CodeInv,
         UNCHANGED <<input, explicit, offsets, image, relocs, imports, memory>>,
         \/ stage' = stage /\ header' = header
         \/ stage = "write" /\ stage' = "written",
         FileIsReadable'
  PROVE  CodeInv'
<1>1. CASE stage \notin LaidOut \ {"extract"}
  BY <1>1 DEF CodeInv, LaidOut
<1>2. CASE stage \in LaidOut \ {"extract"}
  <2>1. /\ ImageSize' = ImageSize /\ Image(image, ImageSize)' = Image(image, ImageSize)
        /\ Image(memory, ImageSize)' = Image(memory, ImageSize)
        /\ FileSize(image)' = FileSize(image)
    BY DEF ImageSize, Image, FileSize
  <2>2. PICK c, d : c = image /\ d = memory
    OBVIOUS
  <2>3. /\ Range(Entries)' = Range(Entries)
        /\ \A e : Wanted(e)' = Wanted(e)
        /\ \A e : DoneIn(c, e)' = DoneIn(c, e) /\ DoneIn(d, e)' = DoneIn(d, e)
        /\ Untouched(c)' = Untouched(c) /\ Untouched(d)' = Untouched(d)
        /\ OffsetsRight(ImageSize)' = OffsetsRight(ImageSize)
    BY <2>1, CodeStays
  <2>4. /\ \A e : DoneIn(image, e)' = DoneIn(c, e)' /\ DoneIn(memory, e)' = DoneIn(d, e)'
        /\ Untouched(image)' = Untouched(c)' /\ Untouched(memory)' = Untouched(d)'
    BY <2>2 DEF DoneIn, Untouched
  <2>5. \A e : (\E j \in DOMAIN relocs : Stands(relocs[j], e))
                 => \E j \in DOMAIN relocs' : Stands(relocs[j], e)'
    <3> SUFFICES ASSUME NEW e, NEW j \in DOMAIN relocs, Stands(relocs[j], e)
                 PROVE  Stands(relocs[j], e)'
      OBVIOUS
    <3>1. PICK r : r = relocs[j]
      OBVIOUS
    <3>2. imports \in Seq(DOMAIN Table) /\ Len(imports) \in Nat
      BY <1>2, LenProperties DEF RelocsInv
    <3>3. Stands(r, e)'
      BY <3>1, <3>2, StandsStays
    <3> QED BY <3>1, <3>3
  <2>6. Image(image, ImageSize)' /\ OffsetsRight(ImageSize)'
    BY <1>2, <2>1, <2>3 DEF CodeInv
  <2>7. CASE stage \in {"write", "written"}
    <3>1. /\ Untouched(image)
          /\ \A e \in Range(Entries) : Wanted(e) =>
               DoneIn(image, e) \/ \E j \in DOMAIN relocs : Stands(relocs[j], e)
      BY <2>7 DEF CodeInv
    <3>2. Untouched(image)'
      BY <2>2, <2>3, <2>4, <3>1
    <3>3. ASSUME NEW e \in Range(Entries), Wanted(e)
          PROVE  DoneIn(image, e)' \/ \E j \in DOMAIN relocs' : Stands(relocs[j], e)'
      <4>1. CASE DoneIn(image, e)
        BY <2>2, <2>3, <2>4, <4>1
      <4>2. CASE \E j \in DOMAIN relocs : Stands(relocs[j], e)
        BY <2>5, <4>2
      <4> QED BY <3>1, <3>3, <4>1, <4>2
    <3>4. \A e \in Range(Entries)' : Wanted(e)' =>
            DoneIn(image, e)' \/ \E j \in DOMAIN relocs' : Stands(relocs[j], e)'
      BY <2>3, <3>3
    <3>5. stage' = "write" => header'.code[2] = FileSize(image)'
      BY <2>1 DEF CodeInv
    <3>6. stage' \in {"write", "written"}
      BY <2>7
    <3> QED BY <2>6, <3>2, <3>4, <3>5, <3>6 DEF CodeInv
  <2>8. CASE stage = "loaded"
    <3>1. /\ Image(memory, ImageSize) /\ Untouched(memory)
          /\ \A e \in Range(Entries) : Wanted(e) => DoneIn(memory, e)
      BY <2>8 DEF CodeInv
    <3>2. ASSUME NEW e \in Range(Entries), Wanted(e) PROVE DoneIn(memory, e)'
      BY <2>2, <2>3, <2>4, <3>1, <3>2
    <3>3. \A e \in Range(Entries)' : Wanted(e)' => DoneIn(memory, e)'
      BY <2>3, <3>2
    <3>4. Image(memory, ImageSize)' /\ Untouched(memory)'
      BY <2>1, <2>2, <2>3, <2>4, <3>1
    <3> QED BY <2>6, <2>8, <3>3, <3>4 DEF CodeInv
  <2>9. CASE stage = "refused"
    BY <2>6, <2>9 DEF CodeInv
  <2> QED BY <1>2, <2>7, <2>8, <2>9 DEF LaidOut
<1> QED BY <1>1, <1>2

\* Every step keeps the code.
LEMMA CodeNext ==
  ASSUME RealWidths, ObjectsFit, LayoutInv, RelocsInv, CodeInv, [ConverterNext]_converterVars
  PROVE  CodeInv'
<1>1. CASE stage' \notin LaidOut \ {"extract"}
  BY <1>1 DEF CodeInv, FileIsReadable, LaidOut
<1>2. CASE ApplyExternRelocs
  BY <1>2, ApplyCode
<1>3. CASE WriteSections
  <2>1. /\ stage = "write" /\ stage' = "written"
        /\ UNCHANGED <<input, explicit, offsets, image, relocs, imports, memory>>
    BY <1>3 DEF WriteSections
  <2>2. /\ input \in Inputs /\ imports \in Seq(DOMAIN Table) /\ Len(relocs) \in Nat
        /\ ImageSize \in Nat /\ header.code[2] = FileSize(image)
    BY <2>1, LenProperties DEF LayoutInv, RelocsInv, CodeInv, LaidOut, Image
  <2>3. FileIsReadable'
    BY <1>3, <2>2, WrittenReadable
  <2> QED BY <2>1, <2>3, CodeKept
<1>4. CASE Load
  BY <1>4, LoadCode
<1>5. CASE UNCHANGED converterVars
  <2>1. UNCHANGED <<input, explicit, offsets, image, relocs, imports, memory, stage, header, strings>>
    BY <1>5 DEF converterVars
  <2>2. FileIsReadable'
    BY <2>1 DEF CodeInv, FileIsReadable, calcTableSize
  <2> QED BY <2>1, <2>2, CodeKept
<1>6. CASE NullArgument \/ readSymbols \/ CollectSection \/ FillInCodeSection \/ ExtractRelocation
  <2>1. stage' \notin LaidOut \ {"extract"}
    BY <1>6 DEF NullArgument, Stop, readSymbols, CollectSection, FillInCodeSection,
                ExtractRelocation, LaidOut
  <2> QED BY <1>1, <2>1
<1> QED BY <1>2, <1>3, <1>4, <1>5, <1>6 DEF ConverterNext

-----------------------------------------------------------------------------
\* The constructors.

\* What the two symbols enclose, once the module is loaded.
LEMMA CtorsInMemory ==
  ASSUME RealWidths, ObjectsFit, CtorsListed, LayoutInv, RelocsInv, CodeInv, stage = "loaded",
         InAddressSpace, NEW i \in CtorSections, CtorSections = {i},
         \A e \in Range(Entries) : e.section = i => Leads(e) # 0
  PROVE  \E m \in Nat :
           /\ DOMAIN Attached = 1 .. m
           /\ {e.offset : e \in {f \in Range(Entries) : f.section = i}} = {4 * j : j \in 0 .. m - 1}
           /\ \A e \in Range(Entries) : e.section = i =>
                /\ (e.offset \div 4) + 1 \in 1 .. m
                /\ Attached[(e.offset \div 4) + 1] = Leads(e)
<1> DEFINE s == input.sections[i]
           words == Len(s.words)
           first == Start(i)
           listed == {e \in Range(Entries) : e.section = i}
<1>1. /\ Ready /\ Image(image, ImageSize) /\ Image(memory, ImageSize) /\ Untouched(memory)
      /\ \A e \in Range(Entries) : Wanted(e) => DoneIn(memory, e)
      /\ input \in Inputs /\ OffsetsRight(ImageSize)
      /\ Len(offsets) = Cardinality(Sections(input)) /\ SymbolsRight
      /\ ImageSize \in Nat /\ 2 * ImageSize <= Full
  BY ReadyToApply DEF LaidOut, CodeInv, LayoutInv, Ready, InAddressSpace, ImageSize
<1>2. /\ i \in Kept /\ IsSectionNameCtors(s) /\ i \in Sections(input) /\ i \in Nat
      /\ words \in Nat /\ first \in Nat /\ End(i) = first + words /\ End(i) <= ImageSize
      /\ keep_section(s)
  <2>1. i \in Kept /\ IsSectionNameCtors(s)
    BY DEF CtorSections
  <2>2. i \in 0 .. Len(offsets) - 1 /\ offsets[i + 1] # Dropped
    <3>1. Len(offsets) \in Nat /\ i \in Nat
      BY <1>1, <2>1, KeptTyped, LenProperties DEF OffsetsRight
    <3> QED BY <2>1, <3>1 DEF Kept
  <2> QED BY <1>1, <2>1, <2>2, KeptTyped DEF OffsetsRight, End
<1>3. explicit["__ctor_loc"] = 2 * first /\ explicit["__ctor_end"] = 2 * (first + words)
  BY <1>1, <1>2 DEF SymbolsRight
<1>4. /\ \A e \in listed :
           /\ e.type = "ADDR32" /\ e.symbol \in DOMAIN input.symbols
           /\ LET sym == input.symbols[e.symbol]
              IN  sym.section \in Sections(input) =>
                    \/ input.sections[sym.section].type = "NULL"
                    \/ keep_section(input.sections[sym.section])
      /\ \E m \in 0 .. words \div 2 :
           /\ {e.offset : e \in listed} = {4 * j : j \in 0 .. m - 1}
           /\ \/ words = 2 * m
              \/ /\ words >= 2 * m + 2
                 /\ SectionBytes(s)[2 * m + 1] = 0 /\ SectionBytes(s)[2 * m + 2] = 0
  <2>1. listed = {e \in Range(EntriesOf(input)) : e.section = i}
    BY DEF Entries
  <2> HIDE DEF listed
  <2> QED BY <1>1, <1>2, <2>1, Zenon DEF CtorsListed
<1>5. PICK m \in 0 .. words \div 2 :
           /\ {e.offset : e \in listed} = {4 * j : j \in 0 .. m - 1}
           /\ \/ words = 2 * m
              \/ /\ words >= 2 * m + 2
                 /\ SectionBytes(s)[2 * m + 1] = 0 /\ SectionBytes(s)[2 * m + 2] = 0
  BY <1>4
<1>6. m \in Nat /\ 2 * m <= words
  BY <1>2, <1>5
\* Each address is in its place.
<1>7. ASSUME NEW e \in listed
      PROVE  /\ e \in Range(Entries) /\ e.section = i
             /\ Wanted(e) /\ e.type = "ADDR32"
             /\ WordAt(memory, 2 * first + e.offset) = Leads(e)
             /\ e.offset \in Nat
             /\ Places(e.type, e.offset) = {e.offset \div 2, (e.offset \div 2) + 1}
  <2> DEFINE sym == input.symbols[e.symbol]
             at == InCode(i, e.offset)
  <2>1. e \in Range(Entries) /\ e.section = i /\ e.type = "ADDR32" /\ e.symbol \in DOMAIN input.symbols
    BY <1>4
  <2>2. sym.section = SHN_ABS \/ IsExtern(sym) \/ sym.section \in Kept
    <3>1. /\ sym.section \in Sections(input) \cup {SHN_ABS}
          /\ Sections(input) = 0 .. Cardinality(Sections(input)) - 1
          /\ Cardinality(Sections(input)) \in Nat
      BY <1>1, <2>1, InputTyped
    <3>2. CASE sym.section \in Sections(input)
      <4>1. \/ input.sections[sym.section].type = "NULL"
            \/ keep_section(input.sections[sym.section])
        BY <1>4, <3>2
      <4>2. CASE input.sections[sym.section].type = "NULL"
        BY <3>2, <4>2 DEF IsExtern, Sections
      <4>3. CASE keep_section(input.sections[sym.section])
        <5> HIDE DEF sym
        <5>1. sym.section \in 0 .. Len(offsets) - 1
          BY <1>1, <3>1, <3>2
        <5>2. offsets[sym.section + 1] # Dropped
          BY <1>1, <4>3, <5>1 DEF OffsetsRight
        <5>3. sym.section \in Kept
          BY <3>1, <3>2, <5>1, <5>2 DEF Kept, Sections
        <5> QED BY <5>3
      <4> QED BY <4>1, <4>2, <4>3
    <3> QED BY <3>1, <3>2
  <2>3. Wanted(e)
    BY <1>2, <2>1, <2>2 DEF Wanted
  <2>4. e.type \in Types \ {"NONE", SdaType} /\ e.type \notin BranchType
    BY <2>1 DEF Types, DataType, SdaType, BranchType
  <2>5. /\ at \in Nat /\ at \div 2 = first + (e.offset \div 2)
        /\ e.offset \div 2 \in Nat
    <3>1. at = InCode(e.section, e.offset)
      BY <2>1
    <3> HIDE DEF at
    <3> QED BY <1>1, <1>2, <2>1, <2>4, <3>1, PlaceOf DEF Ready
  <2>6. Expressible(e.type, CodeBase + at, Leads(e))
    <3>1. e.type = "ADDR32"
      BY <2>1
    <3> QED BY <3>1, Zenon DEF Expressible, BranchType
  <2>7. WordAt(memory, at) = Leads(e)
    <3>1. DoneIn(memory, e)
      BY <1>1, <2>1, <2>3
    <3>2. Denoted(memory, e.type, at, CodeBase + at, Leads(e)) = Leads(e)
      BY <2>1, <2>4, <2>6, <3>1 DEF DoneIn
    <3>3. Denoted(memory, e.type, at, CodeBase + at, Leads(e)) = WordAt(memory, at)
      <4> HIDE DEF at
      <4> QED BY <2>1, Zenon DEF Denoted
    <3> QED BY <3>2, <3>3
  <2>8. e.offset \in Nat
    BY <1>1, <2>1, EntriesAre DEF Range
  <2>9. (2 * first + e.offset) \div 2 = first + (e.offset \div 2)
    BY <1>2, <2>8
  <2>10. WordAt(memory, 2 * first + e.offset) = WordAt(memory, at)
    <3> HIDE DEF at, first
    <3> QED BY <2>5, <2>9 DEF WordAt
  <2>11. Places(e.type, e.offset) = {e.offset \div 2, (e.offset \div 2) + 1}
    BY <2>1, Zenon DEF Places, HalfwordType, BranchType, DataType, SdaType
  <2> QED BY <2>1, <2>3, <2>7, <2>8, <2>10, <2>11
<1> DEFINE from == 2 * first
           stop == 2 * (first + words)
           at(j) == from + (4 * j)
           ends(j) == at(j) >= stop \/ WordAt(memory, at(j)) = 0
           count == CHOOSE j \in 0 .. stop : ends(j) /\ \A n \in 0 .. j - 1 : ~ends(n)
<1>8. ASSUME NEW j \in 0 .. m - 1 PROVE ~ends(j)
  <2>1. PICK e \in listed : e.offset = 4 * j
    BY <1>5
  <2>2. WordAt(memory, at(j)) # 0
    <3>1. WordAt(memory, 2 * first + e.offset) # 0
      BY <1>7
    <3> HIDE DEF first
    <3> QED BY <2>1, <3>1
  <2>3. at(j) < stop
    <3>1. j \in Nat /\ j < m
      BY <1>6
    <3> HIDE DEF first, words
    <3> QED BY <1>2, <1>6, <3>1
  <2>4. at(j) \in Nat /\ stop \in Nat
    <3>1. j \in Nat
      BY <1>6
    <3> HIDE DEF first, words
    <3> QED BY <1>2, <3>1
  <2> HIDE DEF at, stop
  <2> QED BY <2>2, <2>3, <2>4
\* Behind the last is the end of the section, or the null.
<1>9. ends(m)
  <2>1. CASE words = 2 * m
    <3> HIDE DEF first, words
    <3> QED BY <1>2, <1>6, <2>1
  <2>2. CASE /\ words >= 2 * m + 2
             /\ SectionBytes(s)[2 * m + 1] = 0 /\ SectionBytes(s)[2 * m + 2] = 0
    <3>1. ASSUME NEW w \in {2 * m + 1, 2 * m + 2}
          PROVE  memory[first + w - 1] = 0
      <4>1. w \in 1 .. words /\ w - 1 \in Nat /\ w - 1 >= 2 * m
        <5> HIDE DEF words
        <5> QED BY <1>2, <1>6, <2>2
      <4>2. ASSUME NEW e \in Range(Entries), e.section = i
            PROVE  w - 1 \notin Places(e.type, e.offset)
        <5>1. e \in listed
          BY <4>2
        <5>2. PICK j \in 0 .. m - 1 : e.offset = 4 * j
          BY <1>5, <5>1
        <5>3. j \in Nat /\ j < m /\ e.offset \div 2 = 2 * j
          BY <1>6, <5>2
        <5>4. Places(e.type, e.offset) = {e.offset \div 2, (e.offset \div 2) + 1}
          BY <1>7, <5>1
        <5> QED BY <1>6, <4>1, <5>3, <5>4
      <4>3. memory[first + w - 1] = SectionBytes(s)[w]
        <5>1. InAddressSpace => \A w1 \in 1 .. words :
                (\A e \in Range(Entries) : e.section = i => w1 - 1 \notin Places(e.type, e.offset)) =>
                  memory[first + w1 - 1] = SectionBytes(s)[w1]
          BY <1>1, <1>2, Zenon DEF Untouched
        <5> QED BY <4>1, <4>2, <5>1
      <4> QED BY <2>2, <4>3
    <3>2. memory[first + 2 * m] = 0 /\ memory[first + 2 * m + 1] = 0
      <4>1. memory[first + (2 * m + 1) - 1] = 0 /\ memory[first + (2 * m + 2) - 1] = 0
        BY <3>1
      <4>2. first + (2 * m + 1) - 1 = first + 2 * m /\ first + (2 * m + 2) - 1 = first + 2 * m + 1
        <5> HIDE DEF first
        <5> QED BY <1>2, <1>6
      <4> QED BY <4>1, <4>2
    <3>3. at(m) \div 2 = first + 2 * m
      <4> HIDE DEF first
      <4> QED BY <1>2, <1>6
    <3>4. WordAt(memory, at(m)) = 0
      <4>1. WordAt(memory, at(m)) = memory[first + 2 * m] * Half + memory[first + 2 * m + 1]
        <5> HIDE DEF at, first
        <5> QED BY <3>3 DEF WordAt
      <4>2. 0 * Half + 0 = 0
        BY WidthAssumption
      <4> QED BY <3>2, <4>1, <4>2
    <3> HIDE DEF at, stop
    <3> QED BY <3>4
  <2> QED BY <1>5, <2>1, <2>2
<1>10. m \in 0 .. stop
  <2> HIDE DEF first, words
  <2> QED BY <1>2, <1>6
<1>11. Attached = [j \in 1 .. count |-> WordAt(memory, at(j - 1))]
  BY <1>3, Zenon DEF Attached
<1>12. count = m
  <2> HIDE DEF ends, stop
  <2> DEFINE Q(j) == ends(j) /\ \A n \in 0 .. j - 1 : ~ends(n)
  <2>1. Q(m)
    BY <1>8, <1>9
  <2>2. count \in 0 .. stop /\ Q(count)
    BY <1>10, <2>1
  <2> HIDE DEF count
  <2>3. count \in Nat
    BY <2>2
  <2>4. ~(count < m)
    BY <1>6, <1>8, <2>2, <2>3
  <2>5. ~(m < count)
    BY <1>6, <2>1, <2>2, <2>3
  <2> QED BY <1>6, <2>3, <2>4, <2>5
<1>13. Attached = [j \in 1 .. m |-> WordAt(memory, at(j - 1))]
  <2> HIDE DEF at, count
  <2> QED BY <1>11, <1>12
<1>14. ASSUME NEW e \in Range(Entries), e.section = i
       PROVE  /\ (e.offset \div 4) + 1 \in 1 .. m
              /\ Attached[(e.offset \div 4) + 1] = Leads(e)
  <2>1. e \in listed
    BY <1>14
  <2>2. PICK j \in 0 .. m - 1 : e.offset = 4 * j
    BY <1>5, <2>1
  <2>3. e.offset \div 4 = j /\ j + 1 \in 1 .. m /\ (j + 1) - 1 = j
    BY <1>6, <2>2
  <2>4. Attached[j + 1] = WordAt(memory, at(j))
    <3> HIDE DEF at
    <3> QED BY <1>13, <2>3
  <2>5. WordAt(memory, at(j)) = Leads(e)
    <3>1. WordAt(memory, 2 * first + e.offset) = Leads(e)
      BY <1>7, <2>1
    <3> HIDE DEF first
    <3> QED BY <2>2, <3>1
  <2> QED BY <2>3, <2>4, <2>5
<1> HIDE DEF at
<1> QED BY <1>5, <1>6, <1>13, <1>14

-----------------------------------------------------------------------------
\* What follows.

\* The invariant of the converter.
ConverterInv == LayoutInv /\ RelocsInv /\ CodeInv

\* It holds of every state.
LEMMA ConverterInvariant ==
  ASSUME RealWidths, ObjectsFit, IndicesFit
  PROVE  ConverterSpec => []ConverterInv
<1>1. ConverterInit => ConverterInv
  <2>1. ConverterInit => stage = "arguments"
    BY DEF ConverterInit
  <2> QED BY <2>1, InitLayout
           DEF ConverterInv, RelocsInv, CodeInv, FileIsReadable, LaidOut
<1>2. ConverterInv /\ [ConverterNext]_converterVars => ConverterInv'
  BY LayoutNext, RelocsNext, CodeNext DEF ConverterInv
<1> QED BY <1>1, <1>2, PTL DEF ConverterSpec

\* Where the sources of the relocations can be.
SourcesKnown ==
  \A i \in DOMAIN relocs : relocs[i].source.section \in {"code", "static", "raw", "import"}

\* Extraction adds only sources that it knows; ApplyExternRelocs renames one.
LEMMA SourcesStayKnown ==
  ASSUME SourcesKnown, RelocsInv', [ConverterNext]_converterVars
  PROVE  SourcesKnown'
<1>1. CASE stage' \in LaidOut
  <2>1. \A j \in DOMAIN relocs' : \E z \in DOMAIN Entries' : Stands(relocs[j], Entries[z])'
    BY <1>1 DEF RelocsInv
  <2> QED BY <2>1 DEF Stands, SourcesKnown
<1>2. CASE stage' \notin LaidOut
  <2>1. relocs' = relocs
    BY <1>2 DEF LaidOut, ConverterNext, NullArgument, Stop, readSymbols, CollectSection,
                FillInCodeSection, ExtractRelocation, ApplyExternRelocs, WriteSections, Load,
                converterVars
  <2> QED BY <2>1 DEF SourcesKnown
<1> QED BY <1>1, <1>2

\* What was loaded has only types that the loader knows.
TypesKnown == stage = "loaded" => \A j \in DOMAIN relocs : relocs[j].type \in Types

\* Load refuses the others.
LEMMA TypesStayKnown ==
  ASSUME TypesKnown, [ConverterNext]_converterVars
  PROVE  TypesKnown'
<1>1. CASE Load
  <2>1. stage' = "loaded" => \A j \in DOMAIN relocs : ~RefusedAtLoad(relocs[j])
    BY <1>1 DEF Load
  <2>2. relocs' = relocs
    BY <1>1 DEF Load
  <2> QED BY <2>1, <2>2 DEF TypesKnown, RefusedAtLoad
<1>2. CASE UNCHANGED converterVars
  BY <1>2 DEF TypesKnown, converterVars
<1>3. CASE ~Load /\ ConverterNext
  <2>1. stage' # "loaded" \/ (stage' = stage /\ stage # "loaded")
    BY <1>3 DEF ConverterNext, NullArgument, Stop, readSymbols, CollectSection,
                FillInCodeSection, ExtractRelocation, ApplyExternRelocs, WriteSections
  <2> QED BY <2>1 DEF TypesKnown
<1> QED BY <1>1, <1>2, <1>3

\* Types: whatever is laid out, relocated and loaded stays made of halfwords, and a
\* relocation whose source is static, which the loader does not know, is not left
\* to it (ApplyExternRelocs).
THEOREM ConverterTypeCorrect ==
  ASSUME RealWidths, ObjectsFit, IndicesFit
  PROVE  ConverterSpec => []ConverterTypeOK
<1>1. ConverterInit => SourcesKnown
  BY DEF ConverterInit, SourcesKnown
<1>2. SourcesKnown /\ ConverterInv' /\ [ConverterNext]_converterVars => SourcesKnown'
  BY SourcesStayKnown DEF ConverterInv
<1>3. ConverterInv /\ SourcesKnown => ConverterTypeOK
  <2> SUFFICES ASSUME ConverterInv, SourcesKnown PROVE ConverterTypeOK
    OBVIOUS
  <2>1. /\ input \in Inputs
        /\ stage \in LaidOut \cup {"arguments", "collect", "crashed", "failed"}
    BY DEF ConverterInv, LayoutInv
  <2>2. Image(image, ImageSize)
    BY <2>1 DEF ConverterInv, LayoutInv, CodeInv, LaidOut
  <2>3. image \in [DOMAIN image -> 0 .. Half - 1]
    BY <2>2 DEF Image
  <2>4. memory \in [DOMAIN memory -> 0 .. Half - 1]
    <3>1. CASE stage = "loaded"
      BY <3>1 DEF ConverterInv, CodeInv, Image
    <3>2. CASE stage # "loaded"
      BY <3>2 DEF ConverterInv, LayoutInv
    <3> QED BY <3>1, <3>2
  <2>5. stage \in {"write", "written", "loaded", "refused"} =>
          \A i \in DOMAIN relocs : ~IsStatic(relocs[i])
    BY DEF ConverterInv, RelocsInv, LaidOut
  <2> QED BY <2>1, <2>3, <2>4, <2>5 DEF ConverterTypeOK, SourcesKnown, LaidOut
<1> QED BY <1>1, <1>2, <1>3, ConverterInvariant, PTL DEF ConverterSpec

\* Every string of the imports section is where its entry says, inside the section,
\* and the sections of the file follow one another (writeStringTable,
\* writeRelocationsSection, writeImportsSection).
THEOREM FilesAreReadable ==
  ASSUME RealWidths, ObjectsFit, IndicesFit
  PROVE  ConverterSpec => []FileIsReadable
<1>1. ConverterInv => FileIsReadable
  BY DEF ConverterInv, CodeInv
<1> QED BY <1>1, ConverterInvariant, PTL

\* What the converter applied and what the loader applied behind it, in one code
\* section, denotes at each relocation the address of its symbol, for every object
\* that fits, every symbol table and every place of the code: no relocation undoes
\* another one, no section is moved, and no name is taken for another.
THEOREM LoadedMeansCompiled ==
  ASSUME RealWidths, ObjectsFit, IndicesFit
  PROVE  ConverterSpec => []LoadedAsCompiled
<1>1. ConverterInit => TypesKnown
  BY DEF ConverterInit, TypesKnown
<1>2. ConverterInv /\ TypesKnown => LoadedAsCompiled
  <2> SUFFICES ASSUME ConverterInv, TypesKnown, stage = "loaded", FewSections(input),
                      NEW i \in DOMAIN Entries,
                      NEW e, e = Entries[i], NEW sym, sym = input.symbols[e.symbol],
                      NEW at, at = InCode(e.section, e.offset),
                      NEW to, to = (Meaning(sym) + e.addend) % Full,
                      InAddressSpace, e.type \notin {"NONE", SdaType}, e.section \in Kept,
                      sym.section = SHN_ABS \/ IsExtern(sym) \/ sym.section \in Kept,
                      Expressible(e.type, CodeBase + at, to)
               PROVE  Denoted(memory, e.type, at, CodeBase + at, to) = to
    BY Zenon DEF LoadedAsCompiled
  <2>1. stage \in LaidOut /\ stage # "extract"
    BY DEF LaidOut
  <2>2. e.symbol \in DOMAIN input.symbols
    BY <2>1 DEF ConverterInv, RelocsInv
  <2>3. Wanted(e) /\ e \in Range(Entries)
    BY <2>2 DEF Wanted, Range
  <2>4. DoneIn(memory, e)
    BY <2>3 DEF ConverterInv, CodeInv
  <2>5. to = Leads(e)
    BY DEF Leads
  <2>6. (\E j \in DOMAIN relocs : Stands(relocs[j], e)) \/ e.type \in StaticTypes
    <3>1. Wanted(Entries[i]) => \/ \E j \in DOMAIN relocs : Stands(relocs[j], Entries[i])
                                \/ Entries[i].type \in StaticTypes
      BY <2>1 DEF ConverterInv, RelocsInv
    <3> QED BY <2>3, <3>1
  <2>7. e.type \in Types
    <3>1. ASSUME NEW j \in DOMAIN relocs, Stands(relocs[j], e) PROVE e.type \in Types
      <4>1. relocs[j].type \in Types
        BY DEF TypesKnown
      <4> QED BY <3>1, <4>1 DEF Stands
    <3>2. StaticTypes \subseteq Types
      BY DEF StaticTypes, Types, HalfwordType, BranchType, DataType
    <3> QED BY <2>6, <3>1, <3>2
  <2> QED BY <2>4, <2>5, <2>7 DEF DoneIn
<1> QED BY <1>1, <1>2, TypesStayKnown, ConverterInvariant, PTL DEF ConverterSpec

\* When a module is attached, exactly the constructors it lists are called, in the
\* order of their places: the two symbols of the converter, applied as addresses by
\* it or by the loader, enclose them (collectSections, __kuribo_on_attach).
THEOREM ConstructorsAreRun ==
  ASSUME RealWidths, ObjectsFit, IndicesFit, CtorsListed
  PROVE  ConverterSpec => []ConstructorsRun
<1>1. ConverterInv => ConstructorsRun
  <2> SUFFICES ASSUME ConverterInv, stage = "loaded", FewSections(input), NEW i \in CtorSections,
                      CtorSections = {i}, InAddressSpace,
                      NEW listed, listed = {j \in DOMAIN Entries : Entries[j].section = i},
                      \A j \in listed :
                        (Meaning(input.symbols[Entries[j].symbol]) + Entries[j].addend) % Full # 0
               PROVE  /\ DOMAIN Attached = {(Entries[j].offset \div 4) + 1 : j \in listed}
                      /\ \A j \in listed :
                           Attached[(Entries[j].offset \div 4) + 1]
                             = (Meaning(input.symbols[Entries[j].symbol]) + Entries[j].addend) % Full
    BY Zenon DEF ConstructorsRun
  <2>1. \A j \in listed : Leads(Entries[j]) # 0
    BY DEF Leads
  <2>2. \A e \in Range(Entries) : e.section = i => \E j \in listed : Entries[j] = e
    BY DEF Range
  <2>3. \A j \in listed : Entries[j] \in Range(Entries) /\ Entries[j].section = i
    BY DEF Range
  <2>4. \A e \in Range(Entries) : e.section = i => Leads(e) # 0
    BY <2>1, <2>2
  <2>5. PICK m \in Nat :
           /\ DOMAIN Attached = 1 .. m
           /\ {e.offset : e \in {f \in Range(Entries) : f.section = i}} = {4 * j : j \in 0 .. m - 1}
           /\ \A e \in Range(Entries) : e.section = i =>
                /\ (e.offset \div 4) + 1 \in 1 .. m
                /\ Attached[(e.offset \div 4) + 1] = Leads(e)
    BY <2>4, CtorsInMemory DEF ConverterInv
  <2>6. \A j \in listed : /\ (Entries[j].offset \div 4) + 1 \in 1 .. m
                          /\ Attached[(Entries[j].offset \div 4) + 1] = Leads(Entries[j])
    BY <2>3, <2>5
  <2>7. ASSUME NEW w \in 1 .. m PROVE \E j \in listed : w = (Entries[j].offset \div 4) + 1
    <3>1. w - 1 \in 0 .. m - 1
      BY <2>5
    <3>2. PICK e \in Range(Entries) : e.section = i /\ e.offset = 4 * (w - 1)
      BY <2>5, <3>1
    <3>3. PICK j \in listed : Entries[j] = e
      BY <2>2, <3>2
    <3>4. (4 * (w - 1)) \div 4 = w - 1
      BY <2>5
    <3> QED BY <2>5, <3>2, <3>3, <3>4
  <2>8. DOMAIN Attached = {(Entries[j].offset \div 4) + 1 : j \in listed}
    BY <2>5, <2>6, <2>7
  <2> QED BY <2>6, <2>8 DEF Leads
<1> QED BY <1>1, ConverterInvariant, PTL
================================================================================

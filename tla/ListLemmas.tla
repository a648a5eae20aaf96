------------------------------- MODULE ListLemmas -------------------------------
(***************************************************************************)
(* What SequencesExt's InsertAt and RemoveAt do, index by index: the       *)
(* effect of SinglyLinkedList::insert and ::remove on the list order.  And *)
(* what goes along a list from its start: the first entry of a kind, and   *)
(* recursive functions over positions.                                     *)
(***************************************************************************)
EXTENDS Integers, Sequences, SequencesExt, SequenceTheorems, NaturalsInduction,
  WellFoundedInduction, TLAPS

\* Inserting e as the i-th element keeps what precedes it and moves the rest up.
LEMMA InsertAtProperties ==
  ASSUME NEW S, NEW s \in Seq(S), NEW i \in 1 .. Len(s) + 1, NEW e \in S
  PROVE  /\ InsertAt(s, i, e) \in Seq(S)
         /\ Len(InsertAt(s, i, e)) = Len(s) + 1
         /\ \A j \in 1 .. i - 1 : InsertAt(s, i, e)[j] = s[j]
         /\ InsertAt(s, i, e)[i] = e
         /\ \A j \in i + 1 .. Len(s) + 1 : InsertAt(s, i, e)[j] = s[j - 1]
<1> DEFINE Left  == SubSeq(s, 1, i - 1)
           Right == SubSeq(s, i, Len(s))
           Upto  == Left \o <<e>>
<1>1. Len(s) \in Nat /\ i \in Int
  BY LenProperties
<1>2. /\ Left \in Seq(S) /\ Len(Left) = i - 1
      /\ \A j \in 1 .. i - 1 : Left[j] = s[j]
  BY SubSeqProperties
<1>3. /\ Right \in Seq(S) /\ Len(Right) = Len(s) - i + 1
      /\ \A j \in 1 .. Len(s) - i + 1 : Right[j] = s[i + j - 1]
  BY SubSeqProperties
<1>4. InsertAt(s, i, e) = Upto \o Right
  BY DEF InsertAt
<1> HIDE DEF Left, Right
<1>5. /\ Upto \in Seq(S) /\ Len(Upto) = i
      /\ \A j \in 1 .. i - 1 : Upto[j] = s[j]
      /\ Upto[i] = e
  <2> DEFINE One == <<e>>
  <2>1. One \in Seq(S) /\ Len(One) = 1 /\ One[1] = e
    OBVIOUS
  <2> HIDE DEF One
  <2>2. /\ (Left \o One) \in Seq(S)
        /\ Len(Left \o One) = Len(Left) + Len(One)
        /\ \A j \in 1 .. Len(Left) + Len(One) :
             (Left \o One)[j] = IF j <= Len(Left) THEN Left[j] ELSE One[j - Len(Left)]
    BY <1>2, <2>1, ConcatProperties
  <2>3. Upto = Left \o One
    BY DEF One
  <2> HIDE DEF Upto
  <2> QED BY <2>1, <2>2, <2>3, <1>1, <1>2
<1> HIDE DEF Upto
<1>6. /\ Upto \o Right \in Seq(S)
      /\ Len(Upto \o Right) = Len(Upto) + Len(Right)
      /\ \A j \in 1 .. Len(Upto) + Len(Right) :
           (Upto \o Right)[j] = IF j <= Len(Upto) THEN Upto[j] ELSE Right[j - Len(Upto)]
  BY <1>3, <1>5, ConcatProperties
<1>7. ASSUME NEW j \in i + 1 .. Len(s) + 1
      PROVE  (Upto \o Right)[j] = s[j - 1]
  <2>1. j - Len(Upto) \in 1 .. Len(s) - i + 1 /\ i + (j - Len(Upto)) - 1 = j - 1
    BY <1>1, <1>5
  <2>2. (Upto \o Right)[j] = Right[j - Len(Upto)]
    BY <1>1, <1>3, <1>5, <1>6
  <2> QED BY <1>3, <2>1, <2>2
<1> QED BY <1>1, <1>3, <1>4, <1>5, <1>6, <1>7

\* Removing the i-th element keeps what precedes it and moves the rest down.
LEMMA RemoveAtProperties ==
  ASSUME NEW S, NEW s \in Seq(S), NEW i \in 1 .. Len(s)
  PROVE  /\ RemoveAt(s, i) \in Seq(S)
         /\ Len(RemoveAt(s, i)) = Len(s) - 1
         /\ \A j \in 1 .. i - 1 : RemoveAt(s, i)[j] = s[j]
         /\ \A j \in i .. Len(s) - 1 : RemoveAt(s, i)[j] = s[j + 1]
<1>0. Len(s) \in Nat /\ i \in Int
  BY LenProperties
<1> DEFINE Left  == SubSeq(s, 1, i - 1)
           Right == SubSeq(s, i + 1, Len(s))
<1>1. /\ Left \in Seq(S) /\ Len(Left) = i - 1
      /\ \A j \in 1 .. i - 1 : Left[j] = s[j]
  BY SubSeqProperties
<1>2. /\ Right \in Seq(S) /\ Len(Right) = Len(s) - i
      /\ \A j \in 1 .. Len(s) - i : Right[j] = s[i + j]
  BY SubSeqProperties
<1>3. RemoveAt(s, i) = Left \o Right
  BY DEF RemoveAt
<1> HIDE DEF Left, Right
<1>4. /\ Left \o Right \in Seq(S)
      /\ Len(Left \o Right) = Len(Left) + Len(Right)
      /\ \A j \in 1 .. Len(Left) + Len(Right) :
           (Left \o Right)[j] = IF j <= Len(Left) THEN Left[j] ELSE Right[j - Len(Left)]
  BY <1>1, <1>2, ConcatProperties
<1>5. ASSUME NEW j \in i .. Len(s) - 1
      PROVE  (Left \o Right)[j] = s[j + 1]
  <2>1. j - Len(Left) \in 1 .. Len(s) - i /\ i + (j - Len(Left)) = j + 1
    BY <1>0, <1>1
  <2>2. (Left \o Right)[j] = Right[j - Len(Left)]
    BY <1>0, <1>1, <1>2, <1>4
  <2> QED BY <1>2, <2>1, <2>2
<1> QED BY <1>0, <1>1, <1>2, <1>3, <1>4, <1>5

\* A sequence belongs to Seq(T) when each of its elements is in T.
LEMMA SeqOfElements ==
  ASSUME NEW S, NEW T, NEW s \in Seq(S), \A i \in 1 .. Len(s) : s[i] \in T
  PROVE  s \in Seq(T)
<1>1. Len(s) \in Nat /\ s \in [1 .. Len(s) -> S]
  BY LenProperties
<1>2. s \in [1 .. Len(s) -> T]
  BY <1>1
<1> QED BY <1>1, <1>2, SeqDef

-----------------------------------------------------------------------------
\* A set of natural numbers that is not empty has a least element.
LEMMA LeastNumber ==
  ASSUME NEW S \in SUBSET Nat, S # {}
  PROVE  \E i \in S : \A j \in S : i <= j
<1> DEFINE R == OpToRel(<, Nat)
<1>1. IsWellFoundedOn(R, Nat)
  BY NatLessThanWellFounded
<1>2. ASSUME NEW i \in Nat, NEW j \in Nat, ~ <<j, i>> \in R
      PROVE  ~ j < i
  BY <1>2 DEF OpToRel
<1> HIDE DEF R
<1>3. PICK i \in S : \A j \in S : ~ <<j, i>> \in R
  BY <1>1, WFMin
<1>4. ASSUME NEW j \in S
      PROVE  i <= j
  <2>1. i \in Nat /\ j \in Nat /\ ~ <<j, i>> \in R
    BY <1>3
  <2>2. ~ j < i
    BY <1>2, <2>1
  <2> QED BY <2>1, <2>2
<1> QED BY <1>4

\* What holds at 0 and is handed on holds everywhere.
LEMMA HandedOn ==
  ASSUME NEW S, NEW n \in Nat, NEW f, f[0] \in S,
         \A i \in 1 .. n : f[i - 1] \in S => f[i] \in S
  PROVE  \A i \in 0 .. n : f[i] \in S
<1> DEFINE Bad == {i \in 0 .. n : f[i] \notin S}
<1> SUFFICES ASSUME Bad # {} PROVE FALSE
  OBVIOUS
<1>1. Bad \in SUBSET Nat
  OBVIOUS
<1>2. PICK i \in Bad : \A j \in Bad : i <= j
  BY <1>1, LeastNumber
<1>3. i \in 0 .. n /\ f[i] \notin S /\ i # 0
  BY <1>2
<1>4. i - 1 \in 0 .. n /\ i \in 1 .. n /\ ~ (i <= i - 1)
  BY <1>3
<1>5. f[i - 1] \in S
  BY <1>2, <1>4
<1> QED BY <1>3, <1>4, <1>5

\* n steps from x, as a recursive function has them.
Steps(S, n) == [1 .. n -> [S -> S]]
Iterates(f, S, x, n, step) ==
  /\ f \in [0 .. n -> S]
  /\ f = [i \in 0 .. n |-> IF i = 0 THEN x ELSE step[i][f[i - 1]]]

\* A function is defined by its first value and by what makes each value of the one
\* before.
LEMMA Iteration ==
  ASSUME NEW S, NEW x \in S, NEW n \in Nat, NEW step \in Steps(S, n)
  PROVE  \E f : Iterates(f, S, x, n, step)
<1>0. step \in [1 .. n -> [S -> S]]
  BY DEF Steps
<1> DEFINE Until(m, f) == \A i \in 0 .. m : f[i] = IF i = 0 THEN x ELSE step[i][f[i - 1]]
           Missing == {m \in 0 .. n : ~ \E f \in [0 .. m -> S] : Until(m, f)}
<1>1. Missing = {}
  <2> SUFFICES ASSUME Missing # {} PROVE FALSE
    OBVIOUS
  <2>1. Missing \in SUBSET Nat
    OBVIOUS
  <2>2. PICK m \in Missing : \A j \in Missing : m <= j
    BY <2>1, LeastNumber
  <2>3. m \in 0 .. n /\ ~ \E f \in [0 .. m -> S] : Until(m, f)
    BY <2>2
  <2>4. CASE m <= 0
    <3>1. \A i \in 0 .. m : i = 0
      BY <2>4
    <3>2. [i \in 0 .. m |-> x] \in [0 .. m -> S]
      OBVIOUS
    <3>3. Until(m, [i \in 0 .. m |-> x])
      BY <3>1
    <3> QED BY <2>3, <3>2, <3>3
  <2>5. CASE m > 0
    <3>1. m - 1 \in 0 .. n /\ ~ (m <= m - 1) /\ m \in 1 .. n
      BY <2>3, <2>5
    <3>2. m - 1 \notin Missing
      BY <2>2, <3>1
    <3>3. PICK g \in [0 .. m - 1 -> S] : Until(m - 1, g)
      BY <3>1, <3>2
    <3>4. m - 1 \in 0 .. m - 1
      BY <3>1
    <3> DEFINE f == [i \in 0 .. m |-> IF i = m THEN step[m][g[m - 1]] ELSE g[i]]
    <3>5. step[m][g[m - 1]] \in S
      BY <1>0, <3>1, <3>3, <3>4
    <3>6. \A i \in 0 .. m : i = m \/ i \in 0 .. m - 1
      BY <3>1
    <3>7. f \in [0 .. m -> S]
      BY <3>3, <3>5, <3>6
    <3>8. ASSUME NEW i \in 0 .. m
          PROVE  f[i] = IF i = 0 THEN x ELSE step[i][f[i - 1]]
      <4>1. CASE i = m
        <5>1. m # 0 /\ m - 1 \in 0 .. m /\ m - 1 # m
          BY <3>1
        <5>2. f[m] = step[m][g[m - 1]] /\ f[m - 1] = g[m - 1]
          BY <4>1, <5>1
        <5> QED BY <4>1, <5>1, <5>2
      <4>2. CASE i # m /\ i = 0
        <5>1. f[i] = g[i] /\ i \in 0 .. m - 1
          BY <3>6, <4>2
        <5> QED BY <3>3, <4>2, <5>1
      <4>3. CASE i # m /\ i # 0
        <5>1. i \in 0 .. m - 1 /\ i - 1 \in 0 .. m /\ i - 1 # m
          BY <3>1, <4>3
        <5>2. f[i] = g[i] /\ f[i - 1] = g[i - 1]
          BY <4>3, <5>1
        <5> QED BY <3>3, <4>3, <5>1, <5>2
      <4> QED BY <4>1, <4>2, <4>3
    <3> HIDE DEF f
    <3>9. Until(m, f)
      BY <3>8
    <3> QED BY <2>3, <3>7, <3>9
  <2> QED BY <2>3, <2>4, <2>5
<1>2. n \in 0 .. n /\ n \notin Missing
  BY <1>1
<1>3. PICK f \in [0 .. n -> S] : Until(n, f)
  BY <1>2
<1>4. f = [i \in 0 .. n |-> f[i]]
  OBVIOUS
<1>5. f = [i \in 0 .. n |-> IF i = 0 THEN x ELSE step[i][f[i - 1]]]
  BY <1>3, <1>4
<1> QED BY <1>3, <1>5 DEF Iterates

\* Where one ends up who goes from i to next[i] until there is a stop.
Jumps(f, n, stops, value, next) ==
  f = [i \in 0 .. n |-> IF i \in stops THEN value[i] ELSE f[next[i]]]

\* Whoever only jumps ahead ends up somewhere.
LEMMA Jumping ==
  ASSUME NEW S, NEW n \in Nat, NEW stops \in SUBSET (0 .. n), n \in stops,
         NEW value \in [0 .. n -> S], NEW next \in [0 .. n -> Nat],
         \A i \in (0 .. n) \ stops : next[i] \in i + 1 .. n
  PROVE  /\ \E f : Jumps(f, n, stops, value, next)
         /\ \A f : Jumps(f, n, stops, value, next) => \A i \in 0 .. n : f[i] \in S
<1> DEFINE Value(f, i) == IF i \in stops THEN value[i] ELSE f[next[i]]
           Missing == {m \in 0 .. n : ~ \E f : \A i \in n - m .. n : f[i] = Value(f, i)}
<1>1. ASSUME NEW i \in (0 .. n) \ stops
      PROVE  i \in 0 .. n - 1 /\ next[i] \in 0 .. n /\ i < next[i]
  BY <1>1
<1>2. Missing = {}
  <2> SUFFICES ASSUME Missing # {} PROVE FALSE
    OBVIOUS
  <2>1. Missing \in SUBSET Nat
    OBVIOUS
  <2>2. PICK m \in Missing : \A j \in Missing : m <= j
    BY <2>1, LeastNumber
  <2>3. m \in 0 .. n /\ ~ \E f : \A i \in n - m .. n : f[i] = Value(f, i)
    BY <2>2
  <2>4. CASE m = 0
    <3> DEFINE f == [i \in {n} |-> value[n]]
    <3>1. \A i \in n - m .. n : i = n
      BY <2>4
    <3>2. f[n] = Value(f, n)
      OBVIOUS
    <3> HIDE DEF f
    <3> QED BY <2>3, <3>1, <3>2
  <2>5. CASE m # 0
    <3>1. m - 1 \in 0 .. n /\ ~ (m <= m - 1)
      BY <2>3, <2>5
    <3>2. m - 1 \notin Missing
      BY <2>2, <3>1
    <3>3. PICK g : \A i \in n - (m - 1) .. n : g[i] = Value(g, i)
      BY <3>1, <3>2
    <3> DEFINE k == n - m
               f == [i \in 0 .. n |-> IF i = k THEN Value(g, k) ELSE g[i]]
    <3>4. k \in 0 .. n /\ \A i \in k .. n : i \in 0 .. n /\ (i = k \/ (i # k /\ i \in n - (m - 1) .. n))
      BY <2>3, <3>1
    <3>5. ASSUME NEW i \in k .. n PROVE f[i] = Value(f, i)
      <4>1. f[i] = Value(g, i)
        <5>1. CASE i = k
          BY <3>4, <5>1
        <5>2. CASE i # k
          <6>1. f[i] = g[i] /\ g[i] = Value(g, i)
            BY <3>3, <3>4, <5>2
          <6> QED BY <6>1
        <5> QED BY <5>1, <5>2
      <4>2. CASE i \in stops
        <5> HIDE DEF f
        <5> QED BY <4>1, <4>2
      <4>3. CASE i \notin stops
        <5>1. i \in (0 .. n) \ stops
          BY <3>4, <4>3
        <5>2. next[i] \in 0 .. n /\ i < next[i]
          BY <1>1, <5>1
        <5>3. next[i] # k
          BY <3>4, <5>2
        <5>4. f[next[i]] = g[next[i]]
          BY <5>2, <5>3
        <5> HIDE DEF f
        <5> QED BY <4>1, <4>3, <5>4
      <4> QED BY <4>2, <4>3
    <3> HIDE DEF f
    <3> QED BY <2>3, <3>5
  <2> QED BY <2>4, <2>5
<1>3. PICK g : \A i \in 0 .. n : g[i] = Value(g, i)
  <2>1. n \in 0 .. n /\ n \notin Missing /\ n - n = 0
    BY <1>2
  <2> QED BY <2>1
<1> DEFINE f == [i \in 0 .. n |-> g[i]]
<1>4. Jumps(f, n, stops, value, next)
  <2>1. ASSUME NEW i \in 0 .. n PROVE f[i] = Value(f, i)
    <3>1. CASE i \in stops
      BY <1>3, <3>1
    <3>2. CASE i \notin stops
      <4>1. next[i] \in 0 .. n
        BY <1>1, <3>2
      <4>2. f[next[i]] = g[next[i]] /\ f[i] = g[i] /\ g[i] = Value(g, i)
        BY <1>3, <4>1
      <4> QED BY <3>2, <4>2
    <3> QED BY <3>1, <3>2
  <2>2. f = [i \in 0 .. n |-> f[i]]
    OBVIOUS
  <2> HIDE DEF f
  <2>3. f = [i \in 0 .. n |-> Value(f, i)]
    BY <2>1, <2>2
  <2> QED BY <2>3 DEF Jumps
<1>5. ASSUME NEW h, Jumps(h, n, stops, value, next), NEW i0 \in 0 .. n
      PROVE  h[i0] \in S
  <2>1. \A i \in 0 .. n : h[i] = Value(h, i)
    BY <1>5 DEF Jumps
  <2> DEFINE Bad == {m \in 0 .. n : h[n - m] \notin S}
  <2>2. Bad = {}
    <3> SUFFICES ASSUME Bad # {} PROVE FALSE
      OBVIOUS
    <3>1. Bad \in SUBSET Nat
      OBVIOUS
    <3>2. PICK m \in Bad : \A j \in Bad : m <= j
      BY <3>1, LeastNumber
    <3> DEFINE i == n - m
    <3>3. m \in 0 .. n /\ i \in 0 .. n /\ h[i] \notin S
      BY <3>2
    <3>4. i \notin stops
      BY <2>1, <3>3
    <3>5. next[i] \in 0 .. n /\ i < next[i] /\ h[i] = h[next[i]]
      BY <1>1, <2>1, <3>3, <3>4
    <3> DEFINE j == n - next[i]
    <3>6. j \in 0 .. n /\ ~ (m <= j) /\ n - j = next[i]
      BY <3>3, <3>5
    <3>7. j \notin Bad
      BY <3>2, <3>6
    <3>8. h[next[i]] \in S
      BY <3>6, <3>7
    <3> QED BY <3>3, <3>5, <3>8
  <2>3. n - i0 \in 0 .. n /\ n - (n - i0) = i0
    OBVIOUS
  <2> QED BY <2>2, <2>3
<1> QED BY <1>4, <1>5

\* What everything below n has is reached from 0, however many steps at a time.
Descends(f, S, x, step, next) ==
  /\ f \in [Nat -> S]
  /\ f = [i \in Nat |-> IF i = 0 THEN x ELSE step[i][f[next[i]]]]

\* A function on the numbers is defined by its value at 0 and by what makes each other
\* value of one at a smaller number.
LEMMA Descending ==
  ASSUME NEW S, NEW x \in S, NEW step \in [Nat -> [S -> S]], NEW next \in [Nat -> Nat],
         \A i \in Nat \ {0} : next[i] < i
  PROVE  \E f : Descends(f, S, x, step, next)
<1> DEFINE Value(f, i) == IF i = 0 THEN x ELSE step[i][f[next[i]]]
           Until(m, f) == \A i \in 0 .. m : f[i] = Value(f, i)
           Missing == {m \in Nat : ~ \E f \in [Nat -> S] : Until(m, f)}
<1>1. ASSUME NEW f \in [Nat -> S], NEW i \in Nat PROVE Value(f, i) \in S
  BY <1>1
<1>2. Missing = {}
  <2> SUFFICES ASSUME Missing # {} PROVE FALSE
    OBVIOUS
  <2>1. PICK m \in Missing : \A j \in Missing : m <= j
    BY LeastNumber
  <2>2. m \in Nat /\ ~ \E f \in [Nat -> S] : Until(m, f)
    BY <2>1
  <2>3. \E g \in [Nat -> S] : \A i \in 0 .. m - 1 : g[i] = Value(g, i)
    <3>1. CASE m = 0
      <4>1. [i \in Nat |-> x] \in [Nat -> S] /\ 0 .. m - 1 = {}
        BY <3>1
      <4> QED BY <4>1
    <3>2. CASE m # 0
      <4>1. m - 1 \in Nat /\ ~ (m <= m - 1)
        BY <2>2, <3>2
      <4>2. m - 1 \notin Missing
        BY <2>1, <4>1
      <4> QED BY <4>1, <4>2
    <3> QED BY <3>1, <3>2
  <2>4. PICK g \in [Nat -> S] : \A i \in 0 .. m - 1 : g[i] = Value(g, i)
    BY <2>3
  <2> DEFINE f == [g EXCEPT ![m] = Value(g, m)]
  <2>5. f \in [Nat -> S] /\ f[m] = Value(g, m) /\ \A i \in Nat \ {m} : f[i] = g[i]
    BY <1>1, <2>2
  <2> HIDE DEF f
  <2>6. ASSUME NEW i \in 0 .. m PROVE f[i] = Value(f, i)
    <3>1. f[i] = Value(g, i)
      <4>1. CASE i = m
        BY <2>5, <4>1
      <4>2. CASE i # m
        <5>1. i \in 0 .. m - 1 /\ i \in Nat \ {m}
          BY <2>2, <4>2
        <5>2. f[i] = g[i] /\ g[i] = Value(g, i)
          BY <2>4, <2>5, <5>1
        <5> QED BY <5>2
      <4> QED BY <4>1, <4>2
    <3>2. CASE i = 0
      BY <3>1, <3>2
    <3>3. CASE i # 0
      <4>1. i \in Nat \ {0} /\ next[i] \in Nat /\ next[i] < i
        BY <2>2, <3>3
      <4>2. next[i] # m
        BY <2>2, <4>1
      <4>3. f[next[i]] = g[next[i]]
        BY <2>5, <4>1, <4>2
      <4> QED BY <3>1, <3>3, <4>3
    <3> QED BY <3>2, <3>3
  <2> QED BY <2>2, <2>5, <2>6
<1>3. ASSUME NEW m \in Nat, NEW k \in Nat, NEW f, NEW g, Until(m, f), Until(k, g)
      PROVE  \A i \in 0 .. m : i <= k => f[i] = g[i]
  <2> DEFINE Bad == {i \in 0 .. m : i <= k /\ f[i] # g[i]}
  <2> SUFFICES ASSUME Bad # {} PROVE FALSE
    OBVIOUS
  <2>1. Bad \in SUBSET Nat
    OBVIOUS
  <2>2. PICK i \in Bad : \A j \in Bad : i <= j
    BY <2>1, LeastNumber
  <2>3. i \in 0 .. m /\ i \in 0 .. k /\ f[i] # g[i]
    BY <2>2
  <2>4. f[i] = Value(f, i) /\ g[i] = Value(g, i)
    BY <1>3, <2>3
  <2>5. i # 0
    BY <2>3, <2>4
  <2>6. i \in Nat \ {0} /\ next[i] \in Nat /\ next[i] < i
    BY <2>3, <2>5
  <2>7. next[i] \in 0 .. m /\ next[i] <= k /\ ~ (i <= next[i])
    BY <2>3, <2>6
  <2>8. next[i] \notin Bad
    BY <2>2, <2>7
  <2>9. f[next[i]] = g[next[i]]
    BY <2>7, <2>8
  <2> QED BY <2>3, <2>4, <2>5, <2>9
<1> DEFINE upTo(m) == CHOOSE f \in [Nat -> S] : Until(m, f)
           h == [i \in Nat |-> upTo(i)[i]]
<1>4. ASSUME NEW m \in Nat PROVE upTo(m) \in [Nat -> S] /\ Until(m, upTo(m))
  <2>1. \E f \in [Nat -> S] : Until(m, f)
    BY <1>2
  <2> HIDE DEF Until
  <2> QED BY <2>1
<1> HIDE DEF upTo
<1>5. h \in [Nat -> S]
  BY <1>4
<1>6. ASSUME NEW i \in Nat PROVE h[i] = Value(h, i)
  <2>1. i \in 0 .. i /\ h[i] = upTo(i)[i] /\ Until(i, upTo(i))
    BY <1>4
  <2>2. h[i] = Value(upTo(i), i)
    BY <2>1
  <2>3. CASE i = 0
    BY <2>2, <2>3
  <2>4. CASE i # 0
    <3>1. next[i] \in Nat /\ next[i] \in 0 .. i /\ next[i] <= next[i]
      BY <2>4
    <3> DEFINE n == next[i]
    <3>2. n \in Nat /\ n \in 0 .. i /\ n <= n /\ Until(n, upTo(n))
      BY <1>4, <3>1
    <3> HIDE DEF n, Until
    <3>3. upTo(i)[n] = upTo(n)[n]
      BY <1>3, <2>1, <3>2
    <3>4. h[n] = upTo(i)[n]
      BY <3>2, <3>3
    <3> QED BY <2>2, <2>4, <3>4 DEF n
  <2> QED BY <2>3, <2>4
<1> HIDE DEF h
<1>7. h = [i \in Nat |-> h[i]]
  BY <1>5
<1>8. h = [i \in Nat |-> Value(h, i)]
  BY <1>6, <1>7
<1> QED BY <1>5, <1>8 DEF Descends
=============================================================================

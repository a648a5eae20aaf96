-------------------------- MODULE DiscFileSystemProofs --------------------------
(***************************************************************************)
(* Walking the table of a disc agrees with the tree it stands for, for     *)
(* every disc and every path.                                              *)
(***************************************************************************)
EXTENDS DiscFileSystem, ListLemmas

-----------------------------------------------------------------------------
(* The tree.                                                               *)

\* Sets of indices have a greatest element, and Max and Min are what they say.
LEMMA Extremes ==
  ASSUME NEW n \in Int, NEW S \in SUBSET (0 .. n), S # {}
  PROVE  /\ Max(S) \in S /\ \A j \in S : j <= Max(S)
         /\ Min(S) \in S /\ \A j \in S : Min(S) <= j
<1>1. \E i \in S : \A j \in S : i <= j
  <2>1. S \in SUBSET Nat
    OBVIOUS
  <2> QED BY <2>1, LeastNumber
<1>2. \E i \in S : \A j \in S : j <= i
  <2> DEFINE T == {n - j : j \in S}
  <2>1. T \in SUBSET Nat /\ T # {}
    <3>1. \A j \in S : n - j \in Nat
      OBVIOUS
    <3> QED BY <3>1, Zenon
  <2>2. PICK k \in T : \A j \in T : k <= j
    BY <2>1, LeastNumber
  <2>3. PICK i \in S : k = n - i
    BY <2>2
  <2>4. ASSUME NEW j \in S PROVE j <= i
    <3>1. n - j \in T /\ i \in Int /\ j \in Int
      OBVIOUS
    <3>2. n - i <= n - j
      BY <2>2, <2>3, <3>1
    <3> QED BY <3>1, <3>2
  <2> QED BY <2>3, <2>4
<1>3. Max(S) \in S /\ \A j \in S : Max(S) >= j
  BY <1>2 DEF Max
<1>4. Min(S) \in S /\ \A j \in S : Min(S) <= j
  BY <1>1 DEF Min
<1> QED BY <1>3, <1>4

\* The folders whose ranges index i is in.
Around(t, i) == {d \in Folders(t) : d < i /\ i < t[d].sibling_next}

\* What tables are like.
LEMMA TableTyped ==
  ASSUME NEW t \in Tables
  PROVE  /\ NumEntries(t) \in Nat \ {0} /\ DOMAIN t = 0 .. NumEntries(t) - 1
         /\ 0 \in Folders(t) /\ Folders(t) \subseteq DOMAIN t
         /\ \A i \in DOMAIN t : i \in Nat /\ t[i].name \in Seq(Nat)
                                /\ t[i].parent \in Nat /\ t[i].sibling_next \in Nat
         /\ \A d \in Folders(t) :
              /\ d < t[d].sibling_next /\ t[d].sibling_next <= NumEntries(t)
              /\ t[d].parent = Enclosing(t, d)
         /\ \A c, d \in Folders(t) :
              d < c /\ c < t[d].sibling_next => t[c].sibling_next <= t[d].sibling_next
<1>1. /\ DOMAIN t = 0 .. NumEntries(t) - 1 /\ 0 \in Folders(t)
      /\ \A i \in DOMAIN t : /\ t[i].name \in Seq(Nat)
                             /\ t[i].parent \in Nat /\ t[i].sibling_next \in Nat
      /\ \A d \in Folders(t) :
           /\ d < t[d].sibling_next /\ t[d].parent = Enclosing(t, d)
           /\ \A c \in Folders(t) :
                d < c /\ c < t[d].sibling_next => t[c].sibling_next <= t[d].sibling_next
  BY TableAssumption
<1>2. Folders(t) \subseteq DOMAIN t
  BY DEF Folders
<1>3. NumEntries(t) \in Nat \ {0}
  <2>1. 0 \in DOMAIN t
    BY <1>1, <1>2
  <2>2. t[0].sibling_next \in Nat /\ 0 < t[0].sibling_next
    BY <1>1, <2>1
  <2> QED BY <2>2 DEF NumEntries
<1>4. \A i \in DOMAIN t : i \in Nat /\ i < NumEntries(t)
  BY <1>1, <1>3
<1>5. ASSUME NEW d \in Folders(t) PROVE t[d].sibling_next <= NumEntries(t)
  <2>1. CASE d = 0
    <3>1. t[d].sibling_next = NumEntries(t)
      BY <2>1 DEF NumEntries
    <3> QED BY <1>3, <3>1
  <2>2. CASE d # 0
    <3>1. d \in Nat /\ 0 < d /\ d < t[0].sibling_next
      BY <1>2, <1>4, <2>2 DEF NumEntries
    <3> QED BY <1>1, <3>1 DEF NumEntries
  <2> QED BY <2>1, <2>2
<1> QED BY <1>1, <1>2, <1>3, <1>4, <1>5

\* The folder that encloses a node is the nearest of those around it.
LEMMA EnclosingIsNearest ==
  ASSUME NEW t \in Tables, NEW i \in DOMAIN t
  PROVE  /\ Enclosing(t, i) \in Folders(t)
         /\ i # 0 => /\ Enclosing(t, i) \in Around(t, i)
                     /\ \A d \in Around(t, i) : d <= Enclosing(t, i)
<1>1. CASE i = 0
  BY <1>1, TableTyped DEF Enclosing
<1>2. CASE i # 0
  <2> DEFINE S == Around(t, i)
  <2>1. Enclosing(t, i) = Max(S)
    BY <1>2 DEF Enclosing, Around
  <2>2. 0 \in S
    <3>1. 0 < i /\ i < NumEntries(t)
      BY <1>2, TableTyped
    <3> QED BY <3>1, TableTyped DEF Around, NumEntries
  <2>3. S \in SUBSET (0 .. NumEntries(t) - 1) /\ NumEntries(t) - 1 \in Int
    BY TableTyped DEF Around
  <2>4. S \subseteq Folders(t)
    BY DEF Around
  <2> HIDE DEF S
  <2>5. Max(S) \in S /\ \A j \in S : j <= Max(S)
    BY <2>2, <2>3, Extremes
  <2> QED BY <2>1, <2>4, <2>5 DEF S
<1> QED BY <1>1, <1>2

\* Below a folder is what its range holds, which is what the iterator of a folder walks
\* over.
LEMMA BelowIsRange ==
  ASSUME NEW t \in Tables, NEW d \in Folders(t)
  PROVE  Below(t, d) = d + 1 .. t[d].sibling_next - 1
<1> DEFINE R == d + 1 .. t[d].sibling_next - 1
<1>1. /\ d \in Nat /\ t[d].sibling_next \in Nat /\ t[d].sibling_next <= NumEntries(t)
      /\ R \subseteq DOMAIN t /\ NumEntries(t) \in Nat
  BY TableTyped
<1>2. Complete(t, d, R)
  <2>1. ASSUME NEW i \in Entries(t, d) PROVE i \in R
    <3>1. i \in DOMAIN t /\ i # 0 /\ Enclosing(t, i) = d
      BY DEF Entries
    <3>2. d \in Around(t, i)
      BY <3>1, EnclosingIsNearest
    <3>3. d < i /\ i < t[d].sibling_next /\ i \in Nat
      BY <3>1, <3>2, TableTyped DEF Around
    <3> QED BY <1>1, <3>3
  <2>2. ASSUME NEW c \in R, NEW i \in Entries(t, c) PROVE i \in R
    <3>1. i \in DOMAIN t /\ i # 0 /\ Enclosing(t, i) = c
      BY DEF Entries
    <3>2. c \in Around(t, i)
      BY <3>1, EnclosingIsNearest
    <3>3. c \in Folders(t) /\ c < i /\ i < t[c].sibling_next /\ i \in Nat
      BY <3>1, <3>2, TableTyped DEF Around
    <3>4. d < c /\ c < t[d].sibling_next /\ c \in Nat /\ t[c].sibling_next \in Nat
      BY <1>1, <3>3, TableTyped
    <3>5. t[c].sibling_next <= t[d].sibling_next
      BY <3>3, <3>4, TableTyped
    <3> QED BY <1>1, <3>3, <3>4, <3>5
  <2> QED BY <2>1, <2>2 DEF Complete
<1>3. ASSUME NEW S \in SUBSET DOMAIN t, Complete(t, d, S) PROVE R \subseteq S
  <2> DEFINE Left == R \ S
  <2> SUFFICES ASSUME Left # {} PROVE FALSE
    OBVIOUS
  <2>1. Left \in SUBSET Nat
    BY <1>1
  <2>2. PICK i \in Left : \A j \in Left : i <= j
    BY <2>1, LeastNumber
  <2>3. i \in DOMAIN t /\ i \in Nat /\ i # 0 /\ d < i /\ i < t[d].sibling_next /\ i \notin S
    BY <1>1, <2>2
  <2> DEFINE e == Enclosing(t, i)
  <2>4. e \in Around(t, i) /\ d <= e
    <3>1. d \in Around(t, i)
      BY <2>3 DEF Around
    <3> QED BY <2>3, <3>1, EnclosingIsNearest
  <2>5. e \in Nat /\ e < i
    BY <2>4, TableTyped DEF Around
  <2>6. i \in Entries(t, e)
    BY <2>3 DEF Entries
  <2> HIDE DEF e
  <2>7. CASE e = d
    BY <1>3, <2>3, <2>6, <2>7 DEF Complete
  <2>8. CASE e # d
    <3>1. e \in R /\ ~ (i <= e)
      BY <1>1, <2>3, <2>4, <2>5, <2>8
    <3>2. e \in S
      BY <2>2, <3>1
    <3> QED BY <1>3, <2>3, <2>6, <3>2 DEF Complete
  <2> QED BY <2>7, <2>8
<1> QED BY <1>1, <1>2, <1>3 DEF Below

\* Only one number is the least of a set.
LEMMA MinIs ==
  ASSUME NEW n \in Int, NEW S \in SUBSET (0 .. n), NEW i \in S, \A j \in S : i <= j
  PROVE  Min(S) = i
<1>1. Min(S) \in S /\ Min(S) <= i /\ i <= Min(S)
  BY Extremes
<1>2. Min(S) \in Int /\ i \in Int
  <2>1. \A j \in S : j \in Int
    OBVIOUS
  <2> QED BY <1>1, <2>1, Zenon
<1> DEFINE m == Min(S)
<1> HIDE DEF m
<1>3. m \in Int /\ m <= i /\ i <= m
  BY <1>1, <1>2 DEF m
<1>4. m = i
  BY <1>2, <1>3
<1> QED BY <1>4 DEF m

-----------------------------------------------------------------------------
(* The loops over the entries of a folder.                                 *)

\* The entry a loop looks at after i.
After(t, i) == IF t[i].is_folder THEN t[i].sibling_next ELSE i + 1

\* A folder begins with an entry of its own, and the loop goes from each of its entries
\* to the next one, over whatever is in between.
LEMMA EntriesInTurn ==
  ASSUME NEW t \in Tables, NEW d \in Folders(t)
  PROVE  /\ d + 1 < t[d].sibling_next => d + 1 \in Entries(t, d)
         /\ \A j \in Entries(t, d) : j \in DOMAIN t /\ d < j /\ j < t[d].sibling_next
         /\ \A i \in Entries(t, d) :
              /\ i < After(t, i) /\ After(t, i) <= NumEntries(t)
              /\ After(t, i) < t[d].sibling_next => After(t, i) \in Entries(t, d)
              /\ \A j \in Entries(t, d) : i < j => After(t, i) <= j
<1>1. /\ d \in Nat /\ t[d].sibling_next \in Nat /\ t[d].sibling_next <= NumEntries(t)
      /\ NumEntries(t) \in Nat /\ d \in DOMAIN t
      /\ \A i \in Nat : i < NumEntries(t) => i \in DOMAIN t
  BY TableTyped
<1>2. ASSUME NEW j \in Entries(t, d)
      PROVE  /\ j \in DOMAIN t /\ j \in Nat /\ d < j /\ j < t[d].sibling_next
             /\ \A c \in Around(t, j) : c <= d
  <2>1. j \in DOMAIN t /\ j # 0 /\ Enclosing(t, j) = d
    BY DEF Entries
  <2>2. d \in Around(t, j) /\ \A c \in Around(t, j) : c <= d
    BY <2>1, EnclosingIsNearest
  <2> QED BY <2>1, <2>2, TableTyped DEF Around
<1>3. ASSUME NEW i \in Nat, d < i, i < t[d].sibling_next, \A c \in Around(t, i) : c <= d
      PROVE  i \in Entries(t, d)
  <2>1. i \in DOMAIN t /\ i # 0
    BY <1>1, <1>3
  <2>2. d \in Around(t, i)
    BY <1>3 DEF Around
  <2>3. Enclosing(t, i) \in Around(t, i) /\ d <= Enclosing(t, i)
    BY <2>1, <2>2, EnclosingIsNearest
  <2>4. Enclosing(t, i) \in Nat
    BY <2>1, EnclosingIsNearest, TableTyped
  <2>5. Enclosing(t, i) = d
    BY <1>1, <1>3, <2>3, <2>4
  <2> QED BY <2>1, <2>5 DEF Entries
<1>4. \A c \in Folders(t) : c \in Nat /\ c < t[c].sibling_next /\ t[c].sibling_next \in Nat
                            /\ t[c].sibling_next <= NumEntries(t)
  BY TableTyped
<1>5. d + 1 < t[d].sibling_next => d + 1 \in Entries(t, d)
  <2>1. \A c \in Around(t, d + 1) : c <= d
    BY <1>1, <1>4 DEF Around
  <2> QED BY <1>1, <1>3, <2>1
<1>6. ASSUME NEW i \in Entries(t, d)
      PROVE  /\ i < After(t, i) /\ After(t, i) <= NumEntries(t)
             /\ After(t, i) < t[d].sibling_next => After(t, i) \in Entries(t, d)
             /\ \A j \in Entries(t, d) : i < j => After(t, i) <= j
  <2> DEFINE k == After(t, i)
  <2>0. i \in Nat /\ i \in DOMAIN t /\ d < i /\ i < t[d].sibling_next
    BY <1>2
  <2>1. k \in Nat /\ i < k /\ k <= NumEntries(t)
    <3>1. CASE i \in Folders(t)
      <4>1. k = t[i].sibling_next
        BY <3>1 DEF Folders, After
      <4> QED BY <1>4, <3>1, <4>1
    <3>2. CASE i \notin Folders(t)
      <4>1. k = i + 1
        BY <2>0, <3>2 DEF Folders, After
      <4> QED BY <1>1, <2>0, <4>1
    <3> QED BY <3>1, <3>2
  <2>2. ASSUME NEW c \in Around(t, k), c > i PROVE FALSE
    <3>1. c \in Folders(t) /\ c \in Nat /\ c < k /\ k < t[c].sibling_next
      BY <1>4 DEF Around
    <3>2. CASE i \in Folders(t)
      <4>1. k = t[i].sibling_next
        BY <3>2 DEF Folders, After
      <4>2. t[c].sibling_next <= k
        BY <2>2, <3>1, <3>2, <4>1, TableTyped
      <4> QED BY <1>4, <2>1, <3>1, <4>2
    <3>3. CASE i \notin Folders(t)
      <4>1. k = i + 1
        BY <2>0, <3>3 DEF Folders, After
      <4> QED BY <2>0, <2>2, <3>1, <4>1
    <3> QED BY <3>2, <3>3
  <2>3. ASSUME i \in Around(t, k) PROVE FALSE
    <3>1. i \in Folders(t) /\ k < t[i].sibling_next
      BY <2>3 DEF Around
    <3>2. k = t[i].sibling_next
      BY <3>1 DEF Folders, After
    <3> QED BY <2>1, <3>1, <3>2
  <2>4. ASSUME NEW c \in Around(t, k), c < i PROVE c <= d
    <3>1. c \in Folders(t) /\ c \in Nat /\ k < t[c].sibling_next /\ t[c].sibling_next \in Nat
      BY <1>4 DEF Around
    <3>2. c \in Around(t, i)
      BY <2>0, <2>1, <2>4, <3>1 DEF Around
    <3> QED BY <1>2, <3>2
  <2>5. \A c \in Around(t, k) : c \in Nat
    BY <1>4 DEF Around
  <2>6. \A c \in Around(t, k) : c <= d
    BY <2>0, <2>2, <2>3, <2>4, <2>5
  <2>7. k < t[d].sibling_next => k \in Entries(t, d)
    BY <1>1, <1>3, <2>0, <2>1, <2>6
  <2>8. ASSUME NEW j \in Entries(t, d), i < j PROVE k <= j
    <3>1. j \in Nat /\ \A c \in Around(t, j) : c <= d
      BY <1>2
    <3>2. CASE i \in Folders(t)
      <4>1. k = t[i].sibling_next
        BY <3>2 DEF Folders, After
      <4>2. j < k => i \in Around(t, j)
        BY <2>8, <3>2, <4>1 DEF Around
      <4> QED BY <1>1, <2>0, <2>1, <3>1, <4>2
    <3>3. CASE i \notin Folders(t)
      <4>1. k = i + 1
        BY <2>0, <3>3 DEF Folders, After
      <4> QED BY <2>0, <2>8, <3>1, <4>1
    <3> QED BY <3>2, <3>3
  <2> QED BY <2>1, <2>7, <2>8
<1> QED BY <1>2, <1>5, <1>6

\* Where a path may lead, and what the loop does at i: `look` is where it ends from
\* each index.
Place == Nat \cup {None, Wild}
Looking(look, t, d, path, last) ==
  look = [i \in 0 .. NumEntries(t) |->
    IF ~IsEntryValid(t, i) THEN Wild
    ELSE IF (t[i].is_folder \/ last) /\ t[i].name = Dot THEN look[i + 1]
    ELSE IF (t[i].is_folder \/ last) /\ pathCompare(path, t[i].name) THEN i
    ELSE IF After(t, i) < t[d].sibling_next THEN look[After(t, i)] ELSE None]

\* The loop is a function: at each index it stops or jumps ahead.
LEMMA LookingEnds ==
  ASSUME NEW t \in Tables, NEW d \in DOMAIN t, NEW path, NEW last
  PROVE  /\ \E look : Looking(look, t, d, path, last)
         /\ \A look : Looking(look, t, d, path, last) =>
              \A i \in 0 .. NumEntries(t) : look[i] \in DOMAIN t \cup {None, Wild}
<1> DEFINE n == NumEntries(t)
           considered(i) == t[i].is_folder \/ last
           dots == {i \in DOMAIN t : considered(i) /\ t[i].name = Dot}
           hits == {i \in DOMAIN t \ dots : considered(i) /\ pathCompare(path, t[i].name)}
           ends == {i \in DOMAIN t \ (dots \cup hits) : ~ After(t, i) < t[d].sibling_next}
           stops == {n} \cup hits \cup ends
           value == [i \in 0 .. n |-> IF i = n THEN Wild ELSE IF i \in hits THEN i ELSE None]
           next == [i \in 0 .. n |-> IF i \in dots THEN i + 1 ELSE IF i = n THEN n ELSE After(t, i)]
<1>1. /\ n \in Nat \ {0} /\ DOMAIN t = 0 .. n - 1
      /\ \A i \in DOMAIN t : t[i].sibling_next \in Nat
      /\ \A c \in Folders(t) : c < t[c].sibling_next /\ t[c].sibling_next <= n
  BY TableTyped
<1>2. \A i \in 0 .. n : i \in DOMAIN t \/ i = n
  BY <1>1
<1>3. ASSUME NEW i \in DOMAIN t
      PROVE  /\ After(t, i) \in Nat /\ After(t, i) \in i + 1 .. n /\ i + 1 \in i + 1 .. n
             /\ i # n /\ IsEntryValid(t, i) /\ i \in Nat
  <2>1. i \in Nat /\ i < n /\ t[i].sibling_next \in Nat
    BY <1>1
  <2>2. CASE i \in Folders(t)
    <3>1. After(t, i) = t[i].sibling_next
      BY <2>2 DEF After, Folders
    <3> QED BY <1>1, <2>1, <2>2, <3>1 DEF IsEntryValid
  <2>3. CASE i \notin Folders(t)
    <3>1. After(t, i) = i + 1
      BY <2>3 DEF After, Folders
    <3> QED BY <1>1, <2>1, <3>1 DEF IsEntryValid
  <2> QED BY <2>2, <2>3
<1>4. ~ IsEntryValid(t, n)
  BY <1>1 DEF IsEntryValid
<1>5. stops \in SUBSET (0 .. n) /\ n \in stops
  BY <1>1
<1> DEFINE Ends == DOMAIN t \cup {None, Wild}
<1>6. value \in [0 .. n -> Ends]
  <2>1. hits \subseteq DOMAIN t
    OBVIOUS
  <2> HIDE DEF hits, n
  <2> QED BY <2>1
<1>7. next \in [0 .. n -> Nat]
  <2>1. \A i \in 0 .. n : i = n \/ (i + 1 \in Nat /\ After(t, i) \in Nat)
    BY <1>2, <1>3
  <2>2. n \in Nat /\ \A i \in dots : i + 1 \in Nat
    BY <1>1
  <2> HIDE DEF dots, n
  <2> QED BY <2>1, <2>2
<1>8. \A i \in (0 .. n) \ stops : next[i] \in i + 1 .. n
  <2> SUFFICES ASSUME NEW i \in (0 .. n) \ stops PROVE next[i] \in i + 1 .. n
    OBVIOUS
  <2>1. i \in DOMAIN t /\ i # n
    BY <1>2
  <2>2. next[i] = i + 1 \/ next[i] = After(t, i)
    BY <2>1
  <2> HIDE DEF next
  <2> QED BY <1>3, <2>1, <2>2
<1>9. ASSUME NEW look
      PROVE  Looking(look, t, d, path, last) <=> Jumps(look, n, stops, value, next)
  <2>1. ASSUME NEW i \in 0 .. n
        PROVE  (IF ~IsEntryValid(t, i) THEN Wild
                ELSE IF considered(i) /\ t[i].name = Dot THEN look[i + 1]
                ELSE IF considered(i) /\ pathCompare(path, t[i].name) THEN i
                ELSE IF After(t, i) < t[d].sibling_next THEN look[After(t, i)] ELSE None)
               = (IF i \in stops THEN value[i] ELSE look[next[i]])
    <3>1. CASE i = n
      BY <1>4, <3>1
    <3>2. CASE i \in dots
      <4>1. i \in DOMAIN t /\ i \notin stops /\ next[i] = i + 1
        BY <1>3, <3>2
      <4> QED BY <1>3, <3>2, <4>1
    <3>3. CASE i \in hits
      <4>1. i \in DOMAIN t /\ i \in stops /\ i # n /\ i \notin dots
        BY <1>3, <3>3
      <4>2. value[i] = i
        BY <3>3, <4>1
      <4> QED BY <1>3, <3>3, <4>1, <4>2
    <3>4. CASE i # n /\ i \notin dots /\ i \notin hits
      <4>1. i \in DOMAIN t /\ IsEntryValid(t, i)
        BY <1>2, <1>3, <3>4
      <4>2. /\ ~ (considered(i) /\ t[i].name = Dot)
            /\ ~ (considered(i) /\ pathCompare(path, t[i].name))
        BY <3>4, <4>1
      <4>3. value[i] = None /\ next[i] = After(t, i)
        BY <3>4
      <4>4. i \in stops <=> ~ After(t, i) < t[d].sibling_next
        BY <3>4, <4>1
      <4> HIDE DEF stops, value, next, considered
      <4> QED BY <4>1, <4>2, <4>3, <4>4
    <3> QED BY <3>1, <3>2, <3>3, <3>4
  <2> HIDE DEF stops, value, next
  <2> QED BY <2>1 DEF Looking, Jumps
<1> HIDE DEF stops, value, next, n, Ends
<1>10. /\ \E look : Jumps(look, n, stops, value, next)
       /\ \A look : Jumps(look, n, stops, value, next) => \A i \in 0 .. n : look[i] \in Ends
  <2>1. n \in Nat
    BY <1>1
  <2> QED BY <1>5, <1>6, <1>7, <1>8, <2>1, Jumping
<1> QED BY <1>9, <1>10 DEF n, Ends

\* Search in terms of its loop.
LEMMA SearchLooks ==
  ASSUME NEW t \in Tables, NEW d \in DOMAIN t, NEW path, NEW last
  PROVE  \E look : /\ Looking(look, t, d, path, last)
                   /\ Search(t, d, path, last) =
                        IF d + 1 < t[d].sibling_next THEN look[d + 1] ELSE None
<1> DEFINE u == CHOOSE look : Looking(look, t, d, path, last)
<1>1. Looking(u, t, d, path, last)
  BY LookingEnds
<1>2. Search(t, d, path, last) = IF d + 1 < t[d].sibling_next THEN u[d + 1] ELSE None
  BY DEF Search, Looking, After
<1> HIDE DEF u
<1> QED BY <1>1, <1>2

\* The entries of a folder that the loop would stop at.
Met(t, d, path, last) ==
  {i \in Entries(t, d) : pathCompare(path, t[i].name) /\ (last \/ t[i].is_folder)}

\* The loop over a folder finds the first of them: it meets the entries of the
\* folder, all of them, and nothing that is further down.
LEMMA SearchFindsFirst ==
  ASSUME NEW t \in Tables, ~HasDots(t), NEW d \in Folders(t), NEW path,
         NEW last \in BOOLEAN
  PROVE  Search(t, d, path, last) = First(Met(t, d, path, last))
<1> DEFINE N == Met(t, d, path, last)
           Behind(i) == {j \in N : i <= j}
           E == Entries(t, d)
           stop == t[d].sibling_next
<1>1. d \in DOMAIN t /\ d \in Nat /\ stop \in Nat /\ stop <= NumEntries(t)
      /\ NumEntries(t) \in Nat
  BY TableTyped
<1>2. PICK look : /\ Looking(look, t, d, path, last)
                  /\ Search(t, d, path, last) = IF d + 1 < stop THEN look[d + 1] ELSE None
  BY <1>1, SearchLooks
<1>3. \A j \in E : j \in DOMAIN t /\ j \in Nat /\ d < j /\ j < stop /\ j # 0
  BY EntriesInTurn, TableTyped DEF Entries
<1>4. N \subseteq E
  BY DEF Met
<1>5. ASSUME NEW i \in E
      PROVE  look[i] = IF i \in N THEN i
                       ELSE IF After(t, i) < stop THEN look[After(t, i)] ELSE None
  <2>1. i \in 0 .. NumEntries(t) /\ IsEntryValid(t, i) /\ i \in DOMAIN t
    BY <1>1, <1>3 DEF IsEntryValid
  <2>2. t[i].name # Dot
    BY <1>3 DEF HasDots
  <2>3. i \in N <=> (t[i].is_folder \/ last) /\ pathCompare(path, t[i].name)
    BY DEF Met
  <2>4. look[i] = IF ~IsEntryValid(t, i) THEN Wild
                  ELSE IF (t[i].is_folder \/ last) /\ t[i].name = Dot THEN look[i + 1]
                  ELSE IF (t[i].is_folder \/ last) /\ pathCompare(path, t[i].name) THEN i
                  ELSE IF After(t, i) < stop THEN look[After(t, i)] ELSE None
    BY <1>2, <2>1 DEF Looking
  <2> HIDE DEF N
  <2> QED BY <2>1, <2>2, <2>3, <2>4
<1>6. \A i \in E : /\ i < After(t, i) /\ After(t, i) <= NumEntries(t)
                   /\ After(t, i) < stop => After(t, i) \in E
                   /\ \A j \in E : i < j => After(t, i) <= j
  BY EntriesInTurn
<1> HIDE DEF N, E, stop
<1>7. \A S \in SUBSET E : \A i \in S : (\A j \in S : i <= j) => First(S) = i
  <2> SUFFICES ASSUME NEW S \in SUBSET E, NEW i \in S, \A j \in S : i <= j
               PROVE  First(S) = i
    OBVIOUS
  <2>1. S \in SUBSET (0 .. NumEntries(t))
    BY <1>1, <1>3
  <2>2. Min(S) = i /\ S # {}
    <3>1. NumEntries(t) \in Int
      BY <1>1
    <3> QED BY <2>1, <3>1, MinIs, Zenon
  <2> QED BY <2>2 DEF First
<1> DEFINE Bad == {i \in E : look[i] # First(Behind(i))}
<1>8. Bad = {}
  <2> SUFFICES ASSUME Bad # {} PROVE FALSE
    OBVIOUS
  <2>1. Bad \in SUBSET (0 .. NumEntries(t))
    BY <1>1, <1>3
  <2>2. PICK i \in Bad : \A j \in Bad : j <= i
    <3> HIDE DEF Bad
    <3>1. NumEntries(t) \in Int
      BY <1>1
    <3>2. Max(Bad) \in Bad /\ \A j \in Bad : j <= Max(Bad)
      BY <2>1, <3>1, Extremes
    <3> QED BY <3>2
  <2>3. i \in E /\ look[i] # First(Behind(i)) /\ i \in Nat
    BY <1>3, <2>2
  <2> DEFINE k == After(t, i)
  <2>4. i < k /\ k <= NumEntries(t) /\ (k < stop => k \in E) /\ \A j \in E : i < j => k <= j
    BY <1>6, <2>3
  <2>5. CASE i \in N
    <3>1. Behind(i) \in SUBSET E /\ i \in Behind(i) /\ \A j \in Behind(i) : i <= j
      <4>1. i <= i
        BY <2>3
      <4> QED BY <1>4, <2>5, <4>1, Zenon
    <3>2. First(Behind(i)) = i
      BY <1>7, <3>1
    <3> QED BY <1>5, <2>3, <2>5, <3>2
  <2>6. CASE i \notin N /\ k < stop
    <3>1. k \in E /\ k \in Nat /\ k \notin Bad
      <4>1. k \in E /\ k \in Nat
        BY <1>3, <2>4, <2>6
      <4> QED BY <2>2, <2>3, <2>4, <4>1
    <3>2. ASSUME NEW j \in N PROVE i <= j <=> k <= j
      <4>1. j \in E /\ j \in Nat /\ j # i
        BY <1>3, <1>4, <2>6
      <4>2. i <= j => i < j
        BY <2>3, <4>1
      <4>3. k <= j => i <= j
        BY <2>3, <2>4, <3>1, <4>1
      <4> QED BY <2>4, <4>1, <4>2, <4>3
    <3>3. Behind(i) = Behind(k)
      BY <3>2
    <3>4. look[i] = look[k]
      BY <1>5, <2>3, <2>6
    <3> QED BY <2>3, <3>1, <3>3, <3>4
  <2>7. CASE i \notin N /\ ~ (k < stop)
    <3>1. ASSUME NEW j \in Behind(i) PROVE FALSE
      <4>1. j \in E /\ j \in Nat /\ j # i /\ i <= j /\ j < stop
        BY <1>3, <1>4, <2>7
      <4>2. i < j
        BY <2>3, <4>1
      <4>3. k <= j /\ k \in Int
        <5>1. k \in Int
          BY <2>3, <1>3, TableTyped DEF After
        <5> QED BY <2>4, <4>1, <4>2, <5>1
      <4> QED BY <1>1, <2>7, <4>1, <4>3 DEF stop
    <3>2. First(Behind(i)) = None
      BY <3>1 DEF First
    <3>3. look[i] = None
      BY <1>5, <2>3, <2>7
    <3> QED BY <2>3, <3>2, <3>3
  <2> QED BY <2>5, <2>6, <2>7
<1>9. CASE d + 1 < stop
  <2>1. d + 1 \in E
    BY <1>9, EntriesInTurn DEF E, stop
  <2>2. look[d + 1] = First(Behind(d + 1))
    BY <1>8, <2>1
  <2>3. Behind(d + 1) = N
    BY <1>1, <1>3, <1>4
  <2> QED BY <1>2, <1>9, <2>2, <2>3 DEF N
<1>10. CASE ~ (d + 1 < stop)
  <2>1. N = {}
    BY <1>1, <1>3, <1>4, <1>10 DEF stop
  <2> QED BY <1>2, <1>10, <2>1 DEF N, First
<1> QED BY <1>9, <1>10

-----------------------------------------------------------------------------
(* Paths.                                                                  *)

\* What is left of a path once it is cut.
LEMMA Cut ==
  ASSUME NEW path \in Seq(Nat), NEW k \in Nat \ {0}
  PROVE  /\ From(path, k) \in Seq(Nat)
         /\ k <= Len(path) + 1 =>
              /\ Len(From(path, k)) = Len(path) - k + 1
              /\ \A n \in 1 .. Len(path) - k + 1 : From(path, k)[n] = path[k + n - 1]
         /\ k > Len(path) => From(path, k) = <<>>
<1>1. /\ Len(path) \in Nat /\ \A i \in k .. Len(path) : path[i] \in Nat
      /\ k \in Int /\ Len(path) \in Int
  BY LenProperties
<1>2. /\ From(path, k) \in Seq(Nat)
      /\ Len(From(path, k)) = IF k <= Len(path) THEN Len(path) - k + 1 ELSE 0
      /\ \A n \in 1 .. Len(path) - k + 1 : From(path, k)[n] = path[k + n - 1]
  BY <1>1, SubSeqProperties DEF From
<1> QED BY <1>1, <1>2, EmptySeq

\* The loop of resolvePath is at a node with something left of the path, or returns.
Spots == {s \in [it : Place, path : Seq(Nat)] : s.it \in {None, Wild} => s.path = <<>>}

LEMMA GoingOn ==
  ASSUME NEW it \in Place, NEW path \in Seq(Nat)
  PROVE  GoOn(it, path) \in Spots /\ Return(it) \in Spots
BY DEF GoOn, Return, Spots

\* A turn of the loop leads somewhere, from whatever place.
LEMMA TurnTyped ==
  ASSUME NEW t \in Tables, NEW s \in Spots
  PROVE  Turn(t, s) \in Spots
<1> DEFINE path == s.path
           it == s.it
           parent == IF IsEntryValid(t, it) THEN t[it].parent ELSE Wild
<1>1. path \in Seq(Nat) /\ it \in Place
  BY DEF Spots
<1>2. CASE path = <<>>
  BY <1>2 DEF Turn
<1>3. CASE path # <<>>
  <2>1. it \in Nat
    BY <1>3 DEF Spots, Place
  <2>2. IsEntryValid(t, it) => it \in DOMAIN t
    BY <2>1, TableTyped DEF IsEntryValid
  <2>3. parent \in Place /\ 0 \in Place /\ None \in Place /\ Wild \in Place
    BY <2>2, TableTyped DEF Place
  <2>4. /\ From(path, 2) \in Seq(Nat) /\ From(path, 3) \in Seq(Nat)
        /\ From(path, 4) \in Seq(Nat)
    <3>1. \A k \in Nat \ {0} : From(path, k) \in Seq(Nat)
      BY <1>1, Cut
    <3> QED BY <3>1
  <2>5. Compare(t, it, path) \in Spots
    <3> DEFINE last == ~Delimited(path)
               found == IF IsEntryValid(t, it) THEN Search(t, it, path, last) ELSE Wild
               size == Len(t[found].name)
    <3>1. found \in DOMAIN t \cup {None, Wild}
      <4>1. CASE ~IsEntryValid(t, it)
        BY <4>1
      <4>2. CASE IsEntryValid(t, it)
        <5>1. it + 1 \in 0 .. NumEntries(t)
          BY <2>1, <2>2, <4>2, TableTyped DEF IsEntryValid
        <5>2. PICK look : /\ Looking(look, t, it, path, last)
                          /\ Search(t, it, path, last) =
                               IF it + 1 < t[it].sibling_next THEN look[it + 1] ELSE None
          BY <2>2, <4>2, SearchLooks
        <5>3. look[it + 1] \in DOMAIN t \cup {None, Wild}
          BY <2>2, <4>2, <5>1, <5>2, LookingEnds
        <5> QED BY <4>2, <5>2, <5>3
      <4> QED BY <4>1, <4>2
    <3>2. found \notin {None, Wild} => size \in Nat
      <4>1. \A i \in DOMAIN t : t[i].name \in Seq(Nat)
        BY TableTyped
      <4>2. \A i \in DOMAIN t : Len(t[i].name) \in Nat
        BY <4>1, LenProperties
      <4> QED BY <3>1, <4>2
    <3> HIDE DEF found, size
    <3>3. found \notin {None, Wild} => From(path, size + 2) \in Seq(Nat)
      <4>1. \A k \in Nat \ {0} : From(path, k) \in Seq(Nat)
        BY <1>1, Cut
      <4> QED BY <3>2, <4>1
    <3>4. Compare(t, it, path) =
            IF found \in {None, Wild} \/ ~Delimited(path) THEN Return(found)
            ELSE IF size = Len(path) THEN Return(Wild)
            ELSE GoOn(found, From(path, size + 2))
      BY DEF Compare, found, size
    <3>5. found \in Place
      BY <3>1, TableTyped DEF Place
    <3> QED BY <1>1, <2>3, <3>3, <3>4, <3>5, GoingOn
  <2>6. /\ GoOn(0, From(path, 2)) \in Spots /\ GoOn(it, From(path, 3)) \in Spots
        /\ Return(it) \in Spots /\ GoOn(parent, From(path, 4)) \in Spots
        /\ Return(parent) \in Spots
    BY <1>1, <2>3, <2>4, GoingOn
  <2> HIDE DEF parent
  <2> QED BY <1>3, <2>5, <2>6 DEF Turn, parent
<1> QED BY <1>2, <1>3

\* Where resolvePath is after each turn.
Leads(f, t, path, from) ==
  f = [n \in 0 .. Len(path) |-> IF n = 0 THEN GoOn(from, path) ELSE Turn(t, f[n - 1])]

\* resolvePath is a loop that ends somewhere.
LEMMA Resolving ==
  ASSUME NEW t \in Tables, NEW path \in Seq(Nat), NEW from \in Place
  PROVE  \E f : /\ Leads(f, t, path, from) /\ f[Len(path)] \in Spots
                /\ resolvePath(t, path, from) = f[Len(path)].it
<1> DEFINE n == Len(path)
           s0 == GoOn(from, path)
           turn == [s \in Spots |-> Turn(t, s)]
           step == [i \in 1 .. n |-> turn]
           u == CHOOSE f : Leads(f, t, path, from)
<1>1. n \in Nat /\ s0 \in Spots
  BY LenProperties, GoingOn
<1>2. turn \in [Spots -> Spots]
  BY TurnTyped
<1>3. \A s \in Spots : turn[s] = Turn(t, s)
  OBVIOUS
<1> HIDE DEF turn, s0
<1>4. step \in Steps(Spots, n) /\ \A i \in 1 .. n : step[i] = turn
  BY <1>2 DEF Steps
<1> HIDE DEF step
<1>5. PICK g : Iterates(g, Spots, s0, n, step)
  BY <1>1, <1>4, Iteration
<1>6. Leads(g, t, path, from)
  <2>1. g \in [0 .. n -> Spots]
        /\ g = [i \in 0 .. n |-> IF i = 0 THEN s0 ELSE step[i][g[i - 1]]]
    BY <1>5 DEF Iterates
  <2>2. ASSUME NEW i \in 0 .. n, i # 0
        PROVE  step[i][g[i - 1]] = Turn(t, g[i - 1])
    <3>1. i \in 1 .. n /\ i - 1 \in 0 .. n
      BY <1>1, <2>2
    <3>2. g[i - 1] \in Spots
      BY <2>1, <3>1
    <3> QED BY <1>3, <1>4, <3>1, <3>2
  <2>3. g = [i \in 0 .. n |-> IF i = 0 THEN s0 ELSE Turn(t, g[i - 1])]
    BY <2>1, <2>2
  <2> QED BY <2>3 DEF Leads, s0
<1>7. Leads(u, t, path, from)
  BY <1>6
<1>8. resolvePath(t, path, from) = u[n].it
  BY DEF resolvePath, Leads
<1> HIDE DEF u
<1>9. u[n] \in Spots
  <2>1. u = [i \in 0 .. n |-> IF i = 0 THEN s0 ELSE Turn(t, u[i - 1])]
    BY <1>7 DEF Leads, s0
  <2>2. 0 \in 0 .. n /\ n \in 0 .. n
    BY <1>1
  <2>3. u[0] \in Spots
    BY <1>1, <2>1, <2>2
  <2>4. ASSUME NEW i \in 1 .. n, u[i - 1] \in Spots PROVE u[i] \in Spots
    <3>1. i \in 0 .. n /\ i # 0
      BY <1>1
    <3>2. u[i] = Turn(t, u[i - 1])
      BY <2>1, <3>1
    <3> QED BY <2>4, <3>2, TurnTyped
  <2> QED BY <1>1, <2>2, <2>3, <2>4, HandedOn
<1> QED BY <1>7, <1>8, <1>9 DEF n

-----------------------------------------------------------------------------
(* The parts of a path.                                                    *)

\* The first part ends where the path does or before its first slash.
LEMMA FirstPart ==
  ASSUME NEW path \in Seq(Nat)
  PROVE  LET size == PartSize(path)
             part == SubSeq(path, 1, size)
         IN  /\ size \in 0 .. Len(path) /\ Len(path) \in Nat
             /\ size # Len(path) <=> Delimited(path)
             /\ size # Len(path) => path[size + 1] = Slash
             /\ \A k \in 1 .. size : path[k] # Slash
             /\ part \in Seq(Nat) /\ Len(part) = size
             /\ \A k \in 1 .. size : part[k] = path[k]
<1> DEFINE n == Len(path)
           S == Slashes(path)
           size == PartSize(path)
<1>1. /\ n \in Nat /\ DOMAIN path = 1 .. n /\ S \in SUBSET (0 .. n) /\ n \in Int
      /\ \A k \in 1 .. n : path[k] = Slash <=> k \in S
      /\ \A k \in S : k \in 1 .. n
      /\ \A k \in 1 .. n : path[k] \in Nat
  BY LenProperties DEF Slashes
<1>2. Delimited(path) <=> S # {}
  BY DEF Delimited, Slashes
<1> HIDE DEF n, S
<1>3. /\ size \in 0 .. n /\ (size # n <=> S # {}) /\ (size # n => path[size + 1] = Slash)
      /\ \A k \in 1 .. size : path[k] # Slash
  <2>1. CASE S = {}
    <3>1. size = n
      BY <2>1 DEF PartSize, S, n
    <3> HIDE DEF size
    <3> QED BY <1>1, <2>1, <3>1
  <2>2. CASE S # {}
    <3> DEFINE m == Min(S)
    <3>1. m \in S /\ \A k \in S : m <= k
      BY <1>1, <2>2, Extremes
    <3>2. size = m - 1
      BY <2>2 DEF PartSize, S
    <3> HIDE DEF size, m
    <3>3. m \in 1 .. n /\ path[m] = Slash /\ size + 1 = m /\ size \in 0 .. n /\ size # n
      BY <1>1, <3>1, <3>2
    <3>4. ASSUME NEW k \in 1 .. size, path[k] = Slash PROVE FALSE
      <4>1. k \in 1 .. n /\ ~ m <= k
        BY <1>1, <3>2, <3>3
      <4> QED BY <1>1, <3>1, <3>4, <4>1
    <3> QED BY <2>2, <3>3, <3>4
  <2> QED BY <2>1, <2>2
<1> HIDE DEF size
<1>4. /\ 1 \in Int /\ size \in Int /\ \A k \in 1 .. size : path[k] \in Nat
  BY <1>1, <1>3
<1> DEFINE part == SubSeq(path, 1, size)
<1>5. /\ part \in Seq(Nat) /\ Len(part) = (IF 1 <= size THEN size - 1 + 1 ELSE 0)
      /\ \A k \in 1 .. size - 1 + 1 : part[k] = path[1 + k - 1]
  BY <1>4, SubSeqProperties
<1> HIDE DEF part
<1>6. Len(part) = size /\ \A k \in 1 .. size : part[k] = path[k]
  <2>1. size - 1 + 1 = size /\ \A k \in 1 .. size : 1 + k - 1 = k
    BY <1>3, <1>1
  <2> QED BY <1>1, <1>3, <1>5, <2>1
<1> QED BY <1>1, <1>2, <1>3, <1>5, <1>6 DEF n, size, part

\* Dots are told by their length.
LEMMA Dots ==
  ASSUME NEW part \in Seq(Nat)
  PROVE  /\ part = <<>> <=> Len(part) = 0
         /\ part = Dot <=> Len(part) = 1 /\ part[1] = Period
         /\ part = DotDot <=> Len(part) = 2 /\ part[1] = Period /\ part[2] = Period
<1>1. Dot \in Seq(Nat) /\ Len(Dot) = 1 /\ Dot[1] = Period
  BY DEF Dot, Period
<1>2. DotDot \in Seq(Nat) /\ Len(DotDot) = 2 /\ DotDot[1] = Period /\ DotDot[2] = Period
  BY DEF DotDot, Period
<1>3. part = <<>> <=> Len(part) = 0
  BY EmptySeq, LenProperties
<1>4. Len(part) = 1 /\ part[1] = Period => part = Dot
  <2> SUFFICES ASSUME Len(part) = 1, part[1] = Period PROVE part = Dot
    OBVIOUS
  <2>1. Len(part) = Len(Dot) /\ \A i \in 1 .. Len(part) : part[i] = Dot[i]
    BY <1>1
  <2> QED BY <1>1, <2>1, SeqEqual
<1>5. Len(part) = 2 /\ part[1] = Period /\ part[2] = Period => part = DotDot
  <2> SUFFICES ASSUME Len(part) = 2, part[1] = Period, part[2] = Period PROVE part = DotDot
    OBVIOUS
  <2>1. Len(part) = Len(DotDot) /\ \A i \in 1 .. Len(part) : part[i] = DotDot[i]
    <3>1. \A i \in 1 .. Len(part) : i = 1 \/ i = 2
      OBVIOUS
    <3> QED BY <1>2, <3>1
  <2> QED BY <1>2, <2>1, SeqEqual
<1> QED BY <1>1, <1>2, <1>3, <1>4, <1>5

\* A name that the code does not take for several parts of the path is met when it is what
\* the path's first part names.
LEMMA Compared ==
  ASSUME NEW path \in Seq(Nat), path # <<>>, NEW name \in Seq(Nat),
         pathCompare(path, name) => \A k \in DOMAIN name : path[k] # Slash
  PROVE  LET size == PartSize(path)
         IN  /\ pathCompare(path, name) <=> SameName(SubSeq(path, 1, size), name)
             /\ pathCompare(path, name) => Len(name) = size
<1> DEFINE n == Len(path)
           l == Len(name)
           size == PartSize(path)
           part == SubSeq(path, 1, size)
<1>1. /\ n \in Nat /\ l \in Nat /\ DOMAIN name = 1 .. l /\ size \in 0 .. n
      /\ (size # n => path[size + 1] = Slash) /\ \A k \in 1 .. size : path[k] # Slash
      /\ part \in Seq(Nat) /\ Len(part) = size /\ \A k \in 1 .. size : part[k] = path[k]
  BY FirstPart, LenProperties
<1>2. DOMAIN part = 1 .. size
  BY <1>1, LenProperties
<1>3. pathCompare(path, name) <=>
        /\ l <= n /\ \A k \in 1 .. l : equalsIgnoreCase(path[k], name[k])
        /\ l = n \/ Char(path, l + 1) = Slash
  BY <1>1 DEF pathCompare
<1>4. SameName(part, name) <=>
        size = l /\ \A k \in 1 .. size : equalsIgnoreCase(part[k], name[k])
  BY <1>1, <1>2 DEF SameName
<1>5. Char(path, l + 1) = Slash <=> l + 1 <= n /\ path[l + 1] = Slash
  BY DEF Char, Slash
<1> HIDE DEF n, l, size, part
<1>6. ASSUME pathCompare(path, name) PROVE l = size
  <2>1. l <= n /\ (l = n \/ path[l + 1] = Slash) /\ \A k \in 1 .. l : path[k] # Slash
    BY <1>1, <1>3, <1>5, <1>6
  <2>2. CASE l < size
    <3>1. l + 1 \in 1 .. size /\ l # n
      BY <1>1, <2>2
    <3> QED BY <1>1, <2>1, <3>1
  <2>3. CASE size < l
    <3>1. size + 1 \in 1 .. l /\ size # n
      BY <1>1, <2>1, <2>3
    <3> QED BY <1>1, <2>1, <3>1
  <2> QED BY <1>1, <2>2, <2>3
<1>7. ASSUME pathCompare(path, name) PROVE SameName(part, name)
  <2>1. l = size
    BY <1>6, <1>7
  <2> QED BY <1>1, <1>3, <1>4, <1>7, <2>1
<1>8. ASSUME SameName(part, name) PROVE pathCompare(path, name)
  <2>1. size = l /\ \A k \in 1 .. size : equalsIgnoreCase(path[k], name[k])
    BY <1>1, <1>4, <1>8
  <2>2. l <= n /\ (l = n \/ (l + 1 <= n /\ path[l + 1] = Slash))
    BY <1>1, <2>1
  <2> QED BY <1>3, <1>5, <2>1, <2>2
<1> QED BY <1>6, <1>7, <1>8 DEF l, size, part

\* A path with nothing ambiguous in it has none behind a slash.
LEMMA Inherited ==
  ASSUME NEW t \in Tables, NEW path \in Seq(Nat), ~Ambiguous(t, path),
         NEW m \in 1 .. Len(path), path[m] = Slash
  PROVE  ~Ambiguous(t, From(path, m + 1))
<1> DEFINE rest == From(path, m + 1)
<1>1. /\ Len(path) \in Nat /\ DOMAIN path = 1 .. Len(path) /\ m \in Nat
      /\ rest \in Seq(Nat) /\ Len(rest) = Len(path) - m
      /\ \A k \in 1 .. Len(path) - m : rest[k] = path[m + k]
  <2>1. Len(path) \in Nat /\ DOMAIN path = 1 .. Len(path) /\ m \in Nat
    BY LenProperties
  <2>2. m + 1 \in Nat \ {0} /\ m + 1 <= Len(path) + 1
    BY <2>1
  <2>3. /\ rest \in Seq(Nat) /\ Len(rest) = Len(path) - (m + 1) + 1
        /\ \A k \in 1 .. Len(path) - (m + 1) + 1 : rest[k] = path[m + 1 + k - 1]
    BY <2>2, Cut
  <2> HIDE DEF rest
  <2>4. Len(path) - (m + 1) + 1 = Len(path) - m
    BY <2>1
  <2>5. ASSUME NEW k \in 1 .. Len(path) - m PROVE rest[k] = path[m + k]
    <3>1. k \in 1 .. Len(path) - (m + 1) + 1 /\ m + 1 + k - 1 = m + k
      BY <2>1
    <3> QED BY <2>3, <3>1
  <2> QED BY <2>1, <2>3, <2>4, <2>5
<1> HIDE DEF rest
<1>2. DOMAIN rest = 1 .. Len(path) - m
  BY <1>1, LenProperties
<1>3. ASSUME NEW k \in DOMAIN rest, Begins(rest, k), NEW q \in Nat, q = m + k
      PROVE  q \in DOMAIN path /\ Begins(path, q) /\ From(path, q) = From(rest, k)
  <2>1. k \in 1 .. Len(path) - m /\ q \in 1 .. Len(path) /\ k \in Nat
    BY <1>1, <1>2, <1>3
  <2>2. rest[k] = path[q]
    BY <1>1, <1>3, <2>1
  <2>3. Begins(path, q)
    <3>1. CASE k = 1
      <4>1. q - 1 = m
        BY <1>1, <1>3, <3>1
      <4> QED BY <1>3, <2>2, <4>1 DEF Begins
    <3>2. CASE k # 1
      <4> DEFINE n == Len(path)
      <4>1. n \in Nat /\ m \in Nat /\ k \in 1 .. n - m /\ k \in Nat /\ q = m + k
        BY <1>1, <1>3, <2>1
      <4> HIDE DEF n
      <4>2. k - 1 \in 1 .. n - m
        BY <3>2, <4>1
      <4>3. m + (k - 1) = q - 1
        BY <4>1
      <4>4. k - 1 \in 1 .. Len(path) - m /\ m + (k - 1) = q - 1
        BY <4>2, <4>3 DEF n
      <4>5. rest[k - 1] = path[q - 1]
        BY <1>1, <4>4
      <4> QED BY <1>3, <2>2, <3>2, <4>5 DEF Begins
    <3> QED BY <3>1, <3>2
  <2>4. From(path, q) = From(rest, k)
    <3> DEFINE p == From(path, q)
               r == From(rest, k)
    <3>1. /\ p \in Seq(Nat) /\ Len(p) = Len(path) - q + 1
          /\ \A j \in 1 .. Len(path) - q + 1 : p[j] = path[q + j - 1]
      <4>1. q \in Nat \ {0} /\ q <= Len(path) + 1
        BY <1>1, <2>1
      <4> QED BY <4>1, Cut
    <3>2. /\ r \in Seq(Nat) /\ Len(r) = Len(rest) - k + 1
          /\ \A j \in 1 .. Len(rest) - k + 1 : r[j] = rest[k + j - 1]
      <4>1. rest \in Seq(Nat) /\ k \in Nat \ {0} /\ k <= Len(rest) + 1
        BY <1>1, <2>1
      <4> QED BY <4>1, Cut
    <3> HIDE DEF p, r
    <3>3. /\ Len(p) = Len(r) /\ Len(p) = Len(path) - q + 1 /\ Len(r) = Len(rest) - k + 1
          /\ Len(rest) = Len(path) - m /\ q = m + k /\ Len(path) \in Nat /\ m \in Nat
      BY <1>1, <1>3, <2>1, <3>1, <3>2
    <3>4. ASSUME NEW j \in 1 .. Len(p) PROVE p[j] = r[j]
      <4> DEFINE n == Len(path)
                 i == k + j - 1
      <4>1. /\ n \in Nat /\ m \in Nat /\ k \in 1 .. n - m /\ k \in Nat /\ q = m + k
            /\ j \in 1 .. n - q + 1
        BY <2>1, <3>3
      <4> HIDE DEF n
      <4>2. j \in Int /\ 1 <= j /\ j <= n - q + 1 /\ 1 <= k /\ k \in Int /\ q \in Int
        BY <4>1
      <4>3. i \in 1 .. n - m /\ m + i = q + j - 1
        <5>1. i \in Int /\ 1 <= i
          BY <4>2
        <5>2. i <= n - m
          BY <4>1, <4>2
        <5>3. m + i = q + j - 1
          BY <4>1, <4>2
        <5> QED BY <4>1, <5>1, <5>2, <5>3
      <4>4. j \in 1 .. Len(path) - q + 1 /\ j \in 1 .. Len(rest) - k + 1
        BY <3>3
      <4>5. /\ j \in 1 .. Len(path) - q + 1 /\ j \in 1 .. Len(rest) - k + 1
            /\ k + j - 1 \in 1 .. Len(path) - m /\ m + (k + j - 1) = q + j - 1
        BY <4>3, <4>4 DEF n
      <4>6. p[j] = path[q + j - 1] /\ r[j] = rest[k + j - 1]
        BY <3>1, <3>2, <4>5
      <4>7. rest[k + j - 1] = path[m + (k + j - 1)]
        BY <1>1, <4>5
      <4> QED BY <4>5, <4>6, <4>7
    <3>5. p = r
      BY <3>1, <3>2, <3>3, <3>4, SeqEqual
    <3> QED BY <3>5 DEF p, r
  <2> QED BY <1>2, <2>1, <2>3, <2>4, <1>1
<1>4. \A k \in DOMAIN rest : m + k \in Nat
  BY <1>1, <1>2
<1>5. ASSUME NEW i \in DOMAIN t, NEW k \in DOMAIN rest, Begins(rest, k),
             pathCompare(From(rest, k), t[i].name)
      PROVE  \A n \in DOMAIN t[i].name : From(rest, k)[n] # Slash
  <2>1. PICK q \in Nat : q = m + k
    BY <1>4
  <2>2. q \in DOMAIN path /\ Begins(path, q) /\ From(path, q) = From(rest, k)
    BY <1>3, <1>5, <2>1
  <2> QED BY <1>5, <2>2 DEF Ambiguous
<1> QED BY <1>5 DEF Ambiguous, rest

\* Behind the first part the search finds what the tree has.
LEMMA CompareFollows ==
  ASSUME NEW t \in Tables, ~HasDots(t), NEW d \in Folders(t), NEW path \in Seq(Nat),
         path # <<>>, path[1] # Slash, ~Ambiguous(t, path)
  PROVE  LET size == PartSize(path)
             to == First(Named(t, d, SubSeq(path, 1, size), size = Len(path)))
         IN  /\ Compare(t, d, path) = GoOn(to, From(path, size + 2))
             /\ to \in DOMAIN t \cup {None}
             /\ size # Len(path) => to \in Folders(t) \cup {None}
<1> DEFINE size == PartSize(path)
           n == Len(path)
           last == ~Delimited(path)
           N == Named(t, d, SubSeq(path, 1, size), size = n)
           to == First(N)
<1>1. /\ n \in Nat /\ size \in 0 .. n /\ (last <=> size = n) /\ d \in DOMAIN t
      /\ DOMAIN path = 1 .. n /\ n # 0
  BY FirstPart, LenProperties, TableTyped, EmptySeq
<1>2. ASSUME NEW i \in DOMAIN t
      PROVE  /\ t[i].name \in Seq(Nat)
             /\ pathCompare(path, t[i].name) => \A k \in DOMAIN t[i].name : path[k] # Slash
  <2>1. 1 \in DOMAIN path /\ Begins(path, 1)
    BY <1>1 DEF Begins
  <2>2. From(path, 1) = path
    <3>1. /\ From(path, 1) \in Seq(Nat) /\ Len(From(path, 1)) = n - 1 + 1
          /\ \A k \in 1 .. n - 1 + 1 : From(path, 1)[k] = path[1 + k - 1]
      <4>1. 1 \in Nat \ {0} /\ 1 <= Len(path) + 1
        BY <1>1
      <4> QED BY <4>1, Cut
    <3>2. n - 1 + 1 = n /\ \A k \in 1 .. n : 1 + k - 1 = k
      BY <1>1
    <3>3. Len(From(path, 1)) = n /\ \A k \in 1 .. n : From(path, 1)[k] = path[k]
      BY <3>1, <3>2
    <3> QED BY <3>1, <3>3, SeqEqual
  <2>3. t[i].name \in Seq(Nat)
    BY TableTyped
  <2> QED BY <2>1, <2>2, <2>3 DEF Ambiguous
<1>3. ASSUME NEW i \in DOMAIN t
      PROVE  /\ pathCompare(path, t[i].name) <=> SameName(SubSeq(path, 1, size), t[i].name)
             /\ pathCompare(path, t[i].name) => Len(t[i].name) = size
  BY <1>2, Compared
<1>4. Met(t, d, path, last) = N
  <2>1. \A i \in Entries(t, d) : i \in DOMAIN t
    BY DEF Entries
  <2> QED BY <1>1, <1>3, <2>1 DEF Met, Named
<1>5. Search(t, d, path, last) = to
  <2>1. last \in BOOLEAN
    OBVIOUS
  <2>2. Search(t, d, path, last) = First(Met(t, d, path, last))
    BY <2>1, SearchFindsFirst
  <2> HIDE DEF last, N
  <2> QED BY <1>4, <2>2
<1>6. /\ N # {} => to \in N
      /\ N = {} => to = None
      /\ N \subseteq DOMAIN t /\ (size # n => N \subseteq Folders(t))
  <2>1. N \in SUBSET (0 .. NumEntries(t) - 1) /\ NumEntries(t) - 1 \in Int
        /\ N \subseteq DOMAIN t /\ (size # n => N \subseteq Folders(t))
    BY TableTyped DEF Named, Entries, Folders
  <2> HIDE DEF N
  <2>2. N # {} => Min(N) \in N
    BY <2>1, Extremes
  <2> QED BY <2>1, <2>2 DEF First
<1>7. \A i \in N : Len(t[i].name) = size
  <2>1. ASSUME NEW i \in N PROVE Len(t[i].name) = size
    <3>1. i \in DOMAIN t /\ SameName(SubSeq(path, 1, size), t[i].name)
      BY DEF Named, Entries
    <3> QED BY <1>3, <3>1
  <2> QED BY <2>1
<1>8. IsEntryValid(t, d) /\ \A i \in DOMAIN t : i \notin {None, Wild}
  BY TableTyped DEF IsEntryValid, None, Wild
<1>9. Compare(t, d, path) = IF to \in {None, Wild} \/ last THEN Return(to)
                            ELSE IF Len(t[to].name) = n THEN Return(Wild)
                            ELSE GoOn(to, From(path, Len(t[to].name) + 2))
  BY <1>5, <1>8 DEF Compare
<1> HIDE DEF size, n, last, N, to
<1>10. Compare(t, d, path) = GoOn(to, From(path, size + 2))
  <2>1. CASE N = {}
    BY <1>6, <1>9, <2>1 DEF GoOn
  <2>2. CASE N # {} /\ last
    <3>1. From(path, size + 2) = <<>>
      <4>1. size + 2 \in Nat \ {0} /\ size + 2 > Len(path)
        BY <1>1, <2>2 DEF n
      <4> QED BY <4>1, Cut
    <3> QED BY <1>6, <1>8, <1>9, <2>2, <3>1 DEF GoOn, Return
  <2>3. CASE N # {} /\ ~last
    <3>1. to \in DOMAIN t /\ Len(t[to].name) = size /\ size # n
      BY <1>1, <1>6, <1>7, <2>3
    <3> QED BY <1>8, <1>9, <2>3, <3>1
  <2> QED BY <2>1, <2>2, <2>3
<1>11. to \in DOMAIN t \cup {None} /\ (size # n => to \in Folders(t) \cup {None})
  BY <1>6
<1> QED BY <1>10, <1>11 DEF size, n, N, to

-----------------------------------------------------------------------------
(* The table leads where the tree has it.                                  *)

\* As long as there is something left of the path, the node is a folder and nothing is
\* ambiguous.
Regular(t) ==
  {s \in [it : Place, path : Seq(Nat)] :
     s.path = <<>> \/ (s.it \in Folders(t) /\ ~Ambiguous(t, s.path))}

\* Where a part leads in the tree.
LEMMA DenotationTyped ==
  ASSUME NEW t \in Tables, ~HasDots(t), NEW d \in Folders(t), NEW path \in Seq(Nat),
         path # <<>>, ~Ambiguous(t, path)
  PROVE  LET size == PartSize(path)
             to == Denotation(t, d, SubSeq(path, 1, size), size = Len(path))
         IN  /\ to \in DOMAIN t \cup {None}
             /\ size # Len(path) => to \in Folders(t) \cup {None}
<1> DEFINE size == PartSize(path)
           part == SubSeq(path, 1, size)
<1>1. Folders(t) \subseteq DOMAIN t /\ 0 \in Folders(t) /\ Enclosing(t, d) \in Folders(t)
  BY TableTyped, EnclosingIsNearest
<1>2. CASE part \in {<<>>, Dot, DotDot}
  <2>1. Denotation(t, d, part, size = Len(path)) \in {0, d, Enclosing(t, d)}
    <3>1. Dot # <<>> /\ DotDot # <<>> /\ Dot # DotDot
      BY DEF Dot, DotDot
    <3> HIDE DEF part, size
    <3> QED BY <1>2, <3>1 DEF Denotation
  <2> QED BY <1>1, <2>1
<1>3. CASE part \notin {<<>>, Dot, DotDot}
  <2>1. path[1] # Slash
    <3>1. path[1] = Slash => size = 0
      <4>1. size \in 0 .. Len(path) /\ Len(path) \in Nat /\ \A k \in 1 .. size : path[k] # Slash
        BY FirstPart
      <4>2. size # 0 => 1 \in 1 .. size
        BY <4>1
      <4> QED BY <4>1, <4>2
    <3>2. part \in Seq(Nat) /\ Len(part) = size
      BY FirstPart
    <3> QED BY <1>3, <3>1, <3>2, Dots
  <2>2. Denotation(t, d, part, size = Len(path)) = First(Named(t, d, part, size = Len(path)))
    BY <1>3 DEF Denotation
  <2> QED BY <2>1, <2>2, CompareFollows
<1> QED BY <1>2, <1>3

\* A turn of the loop follows the first part of the path.
LEMMA TurnFollows ==
  ASSUME NEW t \in Tables, ~HasDots(t), NEW s \in Regular(t)
  PROVE  Turn(t, s) = Follow(t, s) /\ Turn(t, s) \in Regular(t)
<1>1. CASE s.path = <<>>
  BY <1>1 DEF Turn, Follow
<1>2. CASE s.path # <<>>
  <2> DEFINE path == s.path
             d == s.it
             n == Len(path)
             size == PartSize(path)
             part == SubSeq(path, 1, size)
             to == Denotation(t, d, part, size = n)
  <2>1. d \in Folders(t) /\ path \in Seq(Nat) /\ path # <<>> /\ ~Ambiguous(t, path)
    BY <1>2 DEF Regular
  <2>2. /\ n \in Nat /\ n # 0 /\ size \in 0 .. n /\ (size # n => path[size + 1] = Slash)
        /\ (\A k \in 1 .. size : path[k] # Slash)
        /\ part \in Seq(Nat) /\ Len(part) = size /\ \A k \in 1 .. size : part[k] = path[k]
    <3>1. n # 0
      BY <2>1, EmptySeq
    <3> QED BY <2>1, <3>1, FirstPart
  <2>3. Follow(t, s) = GoOn(to, From(path, size + 2))
    BY <1>2 DEF Follow
  <2>4. GoOn(to, From(path, size + 2)) \in Regular(t)
    <3>1. to \in DOMAIN t \cup {None} /\ (size # n => to \in Folders(t) \cup {None})
      BY <2>1, DenotationTyped
    <3>2. to \in Place
      BY <3>1, TableTyped DEF Place
    <3> HIDE DEF to, n, size
    <3>3. size + 2 \in Nat \ {0}
      BY <2>2
    <3>4. /\ From(path, size + 2) \in Seq(Nat)
          /\ size = n => From(path, size + 2) = <<>>
      <4>1. size = n => size + 2 > Len(path)
        BY <2>2 DEF n
      <4>2. path \in Seq(Nat)
        BY <2>1
      <4> HIDE DEF path
      <4> QED BY <3>3, <4>1, <4>2, Cut
    <3>5. size # n => ~Ambiguous(t, From(path, size + 2))
      <4> SUFFICES ASSUME size # n PROVE ~Ambiguous(t, From(path, size + 2))
        OBVIOUS
      <4>1. size + 1 \in 1 .. Len(path) /\ path[size + 1] = Slash /\ (size + 1) + 1 = size + 2
        BY <2>2 DEF n
      <4>2. ~Ambiguous(t, From(path, (size + 1) + 1))
        BY <2>1, <4>1, Inherited
      <4> QED BY <4>1, <4>2
    <3> QED BY <3>1, <3>2, <3>4, <3>5 DEF Regular, GoOn, Return
  <2>5. /\ Char(path, 1) = path[1]
        /\ Char(path, 2) = IF 2 <= n THEN path[2] ELSE 0
        /\ Char(path, 3) = IF 3 <= n THEN path[3] ELSE 0
    BY <2>2 DEF Char
  <2> DEFINE parent == IF IsEntryValid(t, d) THEN t[d].parent ELSE Wild
             dot == Char(path, 1) = Period /\ Char(path, 2) # Period
             dots == Char(path, 1) = Period /\ Char(path, 2) = Period
  <2>6. parent = Enclosing(t, d)
    BY <2>1, TableTyped DEF IsEntryValid
  <2>7. Turn(t, s) =
          CASE Char(path, 1) = Slash         -> GoOn(0, From(path, 2))
            [] dot /\ Char(path, 2) = Slash  -> GoOn(d, From(path, 3))
            [] dot /\ Len(path) = 1          -> Return(d)
            [] dots /\ Char(path, 3) = Slash -> GoOn(parent, From(path, 4))
            [] dots /\ Len(path) = 2         -> Return(parent)
            [] OTHER                         -> Compare(t, d, path)
    BY <1>2 DEF Turn
  <2>8. /\ part = <<>> <=> size = 0
        /\ part = Dot <=> size = 1 /\ part[1] = Period
        /\ part = DotDot <=> size = 2 /\ part[1] = Period /\ part[2] = Period
    BY <2>2, Dots
  <2>9. \A it : size = n => GoOn(it, From(path, size + 2)) = Return(it)
    <3>1. size = n => size + 2 \in Nat \ {0} /\ size + 2 > Len(path)
      BY <2>2
    <3>2. size = n => From(path, size + 2) = <<>>
      BY <2>1, <3>1, Cut
    <3> HIDE DEF size, n
    <3> QED BY <3>2 DEF GoOn, Return
  <2>10. Slash # Period /\ Slash # 0 /\ Period # 0 /\ Dot # DotDot /\ Dot # <<>> /\ DotDot # <<>>
    BY DEF Slash, Period, Dot, DotDot
  <2> HIDE DEF path, d, n, size, part, parent
  <2>11. CASE path[1] = Slash
    <3>1. size = 0
      <4>1. size # 0 => 1 \in 1 .. size
        BY <2>2
      <4> QED BY <2>2, <2>11, <4>1
    <3>2. to = 0 /\ size + 2 = 2
      BY <2>8, <3>1 DEF Denotation
    <3>3. Turn(t, s) = GoOn(0, From(path, 2))
      BY <2>5, <2>7, <2>10, <2>11
    <3> QED BY <2>3, <2>4, <3>2, <3>3
  <2>12. CASE path[1] = Period /\ 2 <= n /\ path[2] = Slash
    <3>1. size = 1 /\ part[1] = Period
      BY <2>2, <2>10, <2>12
    <3>2. to = d /\ size + 2 = 3
      BY <2>8, <2>10, <3>1 DEF Denotation
    <3>3. Turn(t, s) = GoOn(d, From(path, 3))
      <4>1. Char(path, 1) = Period /\ Char(path, 2) = Slash /\ dot /\ n # 1
        BY <2>5, <2>10, <2>12
      <4> QED BY <2>7, <2>10, <4>1 DEF n
    <3> QED BY <2>3, <2>4, <3>2, <3>3
  <2>13. CASE path[1] = Period /\ n = 1
    <3>1. size = 1 /\ part[1] = Period
      BY <2>2, <2>10, <2>13
    <3>2. to = d
      BY <2>8, <2>10, <3>1 DEF Denotation
    <3>3. Turn(t, s) = Return(d)
      <4>1. Char(path, 1) = Period /\ Char(path, 2) = 0 /\ dot
        BY <2>5, <2>10, <2>13
      <4> QED BY <2>7, <2>10, <2>13, <4>1 DEF n
    <3> QED BY <2>3, <2>4, <2>9, <2>13, <3>1, <3>2, <3>3
  <2>14. CASE path[1] = Period /\ path[2] = Period /\ 3 <= n /\ path[3] = Slash
    <3>1. size = 2 /\ part[1] = Period /\ part[2] = Period
      BY <2>2, <2>10, <2>14
    <3>2. to = parent /\ size + 2 = 4
      BY <2>6, <2>8, <2>10, <3>1 DEF Denotation
    <3>3. Turn(t, s) = GoOn(parent, From(path, 4))
      <4>1. Char(path, 1) = Period /\ Char(path, 2) = Period /\ Char(path, 3) = Slash /\ dots /\ n # 2
        BY <2>2, <2>5, <2>10, <2>14
      <4> QED BY <2>7, <2>10, <4>1 DEF n
    <3> QED BY <2>3, <2>4, <3>2, <3>3
  <2>15. CASE path[1] = Period /\ path[2] = Period /\ n = 2
    <3>1. size = 2 /\ part[1] = Period /\ part[2] = Period
      BY <2>2, <2>10, <2>15
    <3>2. to = parent
      BY <2>6, <2>8, <2>10, <3>1 DEF Denotation
    <3>3. Turn(t, s) = Return(parent)
      <4>1. Char(path, 1) = Period /\ Char(path, 2) = Period /\ Char(path, 3) = 0 /\ dots
        BY <2>2, <2>5, <2>10, <2>15
      <4> QED BY <2>7, <2>10, <2>15, <4>1 DEF n
    <3> QED BY <2>3, <2>4, <2>9, <2>15, <3>1, <3>2, <3>3
  <2>16. CASE /\ path[1] # Slash
              /\ ~ (path[1] = Period /\ 2 <= n /\ path[2] = Slash)
              /\ ~ (path[1] = Period /\ n = 1)
              /\ ~ (path[1] = Period /\ path[2] = Period /\ 3 <= n /\ path[3] = Slash)
              /\ ~ (path[1] = Period /\ path[2] = Period /\ n = 2)
    <3>1. part # <<>> /\ part # Dot /\ part # DotDot
      <4>1. size # 0
        BY <2>2, <2>16
      <4>2. ~ (size = 1 /\ part[1] = Period)
        <5> SUFFICES ASSUME size = 1, part[1] = Period PROVE FALSE
          OBVIOUS
        <5>1. path[1] = Period /\ n # 1
          BY <2>2, <2>16
        <5>2. 2 <= n /\ path[2] = Slash
          BY <2>2, <5>1
        <5> QED BY <2>16, <5>1, <5>2
      <4>3. ~ (size = 2 /\ part[1] = Period /\ part[2] = Period)
        <5> SUFFICES ASSUME size = 2, part[1] = Period, part[2] = Period PROVE FALSE
          OBVIOUS
        <5>1. path[1] = Period /\ path[2] = Period /\ n # 2
          <6>1. 1 \in 1 .. size /\ 2 \in 1 .. size
            OBVIOUS
          <6>2. path[1] = Period /\ path[2] = Period
            BY <2>2, <6>1
          <6> QED BY <2>16, <6>2
        <5>2. 3 <= n /\ path[3] = Slash
          <6>1. size + 1 = 3 /\ size # n
            BY <5>1
          <6> QED BY <2>2, <6>1
        <5> QED BY <2>16, <5>1, <5>2
      <4> QED BY <2>8, <4>1, <4>2, <4>3
    <3>2. to = First(Named(t, d, part, size = n))
      BY <3>1 DEF Denotation
    <3>3. Turn(t, s) = Compare(t, d, path)
      <4>1. /\ Char(path, 1) # Slash
            /\ ~ (dot /\ Char(path, 2) = Slash) /\ ~ (dot /\ Len(path) = 1)
            /\ ~ (dots /\ Char(path, 3) = Slash) /\ ~ (dots /\ Len(path) = 2)
        <5>1. Char(path, 2) = Slash => 2 <= n /\ path[2] = Slash
          BY <2>5, <2>10
        <5>2. Char(path, 2) = Period => path[2] = Period
          BY <2>5, <2>10
        <5>3. Char(path, 3) = Slash => 3 <= n /\ path[3] = Slash
          BY <2>5, <2>10
        <5> QED BY <2>5, <2>16, <5>1, <5>2, <5>3 DEF n
      <4> HIDE DEF dot, dots
      <4> QED BY <2>7, <4>1
    <3>4. Compare(t, d, path) = GoOn(to, From(path, size + 2))
      <4>1. Compare(t, d, path) = GoOn(First(Named(t, d, part, size = n)), From(path, size + 2))
        BY <2>1, <2>16, CompareFollows DEF size, part, n
      <4> QED BY <3>2, <4>1
    <3> QED BY <2>3, <2>4, <3>3, <3>4
  <2> QED BY <2>11, <2>12, <2>13, <2>14, <2>15, <2>16
<1> QED BY <1>1, <1>2

\* Where a path leads in the tree, part by part.
Denotes(f, t, d, path) ==
  f = [n \in 0 .. Len(path) |-> IF n = 0 THEN GoOn(d, path) ELSE Follow(t, f[n - 1])]

\* And so does the whole loop: part by part the table leads where the tree has it.
LEMMA PathsAgree ==
  ASSUME NEW t \in Tables, ~HasDots(t), NEW d \in Folders(t), NEW path \in Seq(Nat),
         ~Ambiguous(t, path)
  PROVE  resolvePath(t, path, d) = Denoted(t, d, path)
<1> DEFINE n == Len(path)
           g == CHOOSE f : Denotes(f, t, d, path)
<1>1. n \in Nat /\ d \in Place /\ d \notin {None, Wild}
  BY LenProperties, TableTyped DEF Place, None, Wild
<1>2. PICK f : Leads(f, t, path, d) /\ resolvePath(t, path, d) = f[n].it
  BY <1>1, Resolving
<1>3. f = [i \in 0 .. n |-> IF i = 0 THEN GoOn(d, path) ELSE Turn(t, f[i - 1])]
  BY <1>2 DEF Leads
<1> HIDE DEF n
<1>4. \A i \in 0 .. n : f[i] \in Regular(t)
  <2>1. f[0] \in Regular(t)
    <3>1. f[0] = GoOn(d, path)
      BY <1>1, <1>3
    <3> QED BY <1>1, <3>1 DEF GoOn, Regular
  <2>2. ASSUME NEW i \in 1 .. n, f[i - 1] \in Regular(t) PROVE f[i] \in Regular(t)
    <3>1. f[i] = Turn(t, f[i - 1])
      BY <1>1, <1>3
    <3> QED BY <2>2, <3>1, TurnFollows
  <2> QED BY <1>1, <2>1, <2>2, HandedOn
<1>5. ASSUME NEW i \in 0 .. n, i # 0 PROVE Turn(t, f[i - 1]) = Follow(t, f[i - 1])
  <2>1. i - 1 \in 0 .. n
    BY <1>1, <1>5
  <2> QED BY <1>4, <2>1, TurnFollows
<1>6. Denotes(f, t, d, path)
  <2>1. f = [i \in 0 .. n |-> IF i = 0 THEN GoOn(d, path) ELSE Follow(t, f[i - 1])]
    BY <1>3, <1>5
  <2> QED BY <2>1 DEF Denotes, n
<1>7. Denotes(g, t, d, path)
  BY <1>6
<1>8. Denoted(t, d, path) = g[n].it
  BY DEF Denoted, Denotes, n
<1> HIDE DEF g
<1>9. f[n] = g[n]
  <2> DEFINE Bad == {i \in 0 .. n : f[i] # g[i]}
  <2> SUFFICES ASSUME Bad # {} PROVE FALSE
    BY <1>1
  <2>1. /\ \A i \in 0 .. n : f[i] = IF i = 0 THEN GoOn(d, path) ELSE Follow(t, f[i - 1])
        /\ \A i \in 0 .. n : g[i] = IF i = 0 THEN GoOn(d, path) ELSE Follow(t, g[i - 1])
    BY <1>6, <1>7 DEF Denotes, n
  <2>2. Bad \in SUBSET Nat
    OBVIOUS
  <2>3. PICK i \in Bad : \A j \in Bad : i <= j
    BY <2>2, LeastNumber
  <2>4. i \in 0 .. n /\ f[i] # g[i] /\ i # 0
    BY <2>1, <2>3
  <2>5. i - 1 \in 0 .. n /\ ~ (i <= i - 1)
    BY <1>1, <2>4
  <2>6. f[i - 1] = g[i - 1]
    BY <2>3, <2>5
  <2> QED BY <2>1, <2>4, <2>6
<1> QED BY <1>2, <1>8, <1>9 DEF n

-----------------------------------------------------------------------------
(* Parents.                                                                *)

\* getParentNode gives a node, and where a folder lists its files before its folders it
\* gives the one the tree has.
LEMMA ParentIsEnclosing ==
  ASSUME NEW t \in Tables, NEW n \in DOMAIN t
  PROVE  /\ getParentNode(t, n) \in DOMAIN t
         /\ FilesFirst(t) => getParentNode(t, n) = Enclosing(t, n)
<1>0. n \in Nat /\ n # None
  BY TableTyped DEF None
<1>1. CASE n \in Folders(t)
  <2>1. getParentNode(t, n) = Enclosing(t, n)
    BY <1>0, <1>1, TableTyped DEF getParentNode, Folders
  <2> QED BY <2>1, EnclosingIsNearest, TableTyped
<1>2. CASE n \notin Folders(t)
  <2> DEFINE S == {i \in 0 .. n : t[i].is_folder}
             f == Max(S)
             e == Enclosing(t, n)
  <2>1. getParentNode(t, n) = f
    BY <1>0, <1>2 DEF getParentNode, Folders
  <2>2. S = {i \in Folders(t) : i <= n} /\ S \in SUBSET (0 .. n) /\ 0 \in S
    <3>1. \A i \in 0 .. n : i \in DOMAIN t
      BY <1>0, TableTyped
    <3>2. \A i \in Folders(t) : i <= n => i \in 0 .. n
      BY <1>0, TableTyped
    <3>3. 0 \in Folders(t) /\ 0 <= n
      BY <1>0, TableTyped
    <3> QED BY <3>1, <3>2, <3>3 DEF Folders
  <2> HIDE DEF S
  <2>3. f \in S /\ \A j \in S : j <= f
    <3>1. n \in Int /\ S # {}
      BY <1>0, <2>2
    <3> QED BY <2>2, <3>1, Extremes
  <2> HIDE DEF f
  <2>4. f \in Folders(t) /\ f \in Nat /\ f < n /\ n # 0
    <3>1. f \in Folders(t) /\ f <= n /\ f # n
      BY <1>2, <2>2, <2>3
    <3> QED BY <1>0, <3>1, TableTyped
  <2>5. e \in Around(t, n) /\ \A d \in Around(t, n) : d <= e
    BY <2>4, EnclosingIsNearest
  <2>6. e \in Folders(t) /\ e \in Nat /\ e < n /\ n < t[e].sibling_next /\ e <= f
    <3>1. e \in Folders(t) /\ e < n /\ n < t[e].sibling_next /\ e \in Nat
      BY <2>5, TableTyped DEF Around
    <3> QED BY <1>0, <2>2, <2>3, <3>1
  <2> HIDE DEF e
  <2>7. ASSUME FilesFirst(t), e # f PROVE FALSE
    \* The outermost folder in e that f is in, or is.
    <3> DEFINE C == {c \in Folders(t) : e < c /\ (c = f \/ (c < f /\ f < t[c].sibling_next))}
               g == Min(C)
    <3>1. C \in SUBSET (0 .. f) /\ f \in C
      BY <2>4, <2>6, <2>7, TableTyped
    <3>2. g \in C /\ \A c \in C : g <= c
      <4> HIDE DEF C
      <4>1. f \in Int /\ C # {}
        BY <2>4, <3>1
      <4> QED BY <3>1, <4>1, Extremes
    <3> HIDE DEF g
    <3>3. g \in Folders(t) /\ g \in Nat /\ e < g /\ g <= f /\ f < t[g].sibling_next
          /\ t[g].sibling_next \in Nat
      BY <2>4, <3>2, TableTyped
    <3>4. e \in Around(t, g)
      <4>1. g < t[e].sibling_next
        BY <1>0, <2>4, <2>6, <3>3, TableTyped
      <4> QED BY <2>6, <3>3, <4>1 DEF Around
    <3>5. ASSUME NEW c \in Around(t, g), e < c PROVE FALSE
      <4>1. c \in Folders(t) /\ c \in Nat /\ c < g /\ g < t[c].sibling_next
            /\ t[c].sibling_next \in Nat
        BY TableTyped DEF Around
      <4>2. t[g].sibling_next <= t[c].sibling_next
        BY <3>3, <4>1, TableTyped
      <4>3. c < f /\ f < t[c].sibling_next
        BY <2>4, <3>3, <4>1, <4>2
      <4>4. c \in C
        BY <3>5, <4>1, <4>3
      <4> QED BY <3>2, <3>3, <4>1, <4>4
    <3>6. g \in DOMAIN t /\ g # 0
      BY <2>6, <3>3, TableTyped
    <3>7. Enclosing(t, g) \in Around(t, g) /\ e <= Enclosing(t, g)
      BY <3>4, <3>6, EnclosingIsNearest
    <3>8. Enclosing(t, g) \in Nat
      BY <3>7, TableTyped DEF Around
    <3>9. Enclosing(t, g) = e
      BY <2>6, <3>5, <3>7, <3>8
    <3>10. g \in Entries(t, e) /\ n \in Entries(t, e)
      BY <2>4, <3>6, <3>9 DEF Entries, e
    <3>11. t[g].is_folder /\ ~t[n].is_folder
      BY <1>2, <3>3 DEF Folders
    <3>12. n < g
      BY <2>6, <2>7, <3>10, <3>11 DEF FilesFirst
    <3> QED BY <1>0, <2>4, <3>3, <3>12
  <2>8. f \in DOMAIN t
    BY <2>4, TableTyped
  <2> QED BY <2>1, <2>7, <2>8 DEF e
<1> QED BY <1>1, <1>2

-----------------------------------------------------------------------------
(* The state.                                                              *)

\* What VisitsEverythingBelow says of the end of a loop comes from what holds in every
\* turn: the loop has been given the nodes from behind its path's to where it is.
WalkInv ==
  /\ nodes \in Tables /\ asserts \in BOOLEAN
  /\ pc \in {"path", "walk", "halted", "wild"}
  /\ node \in DOMAIN nodes \cup {None}
  /\ pc # "walk" => at = 0 /\ end = 0 /\ seen = <<>>
  /\ pc = "walk" =>
       /\ node \in DOMAIN nodes /\ end = End(node)
       /\ at \in Nat /\ node < at /\ at <= end
       /\ seen \in Seq(Nat) /\ Len(seen) = at - (node + 1)
       /\ \A n \in DOMAIN seen : seen[n] = node + n

\* Where a loop ends.
LEMMA EndInTable ==
  ASSUME nodes \in Tables, NEW n \in DOMAIN nodes
  PROVE  n \in Nat /\ End(n) \in Nat /\ n + 1 <= End(n) /\ End(n) <= NumEntries(nodes)
         /\ NumEntries(nodes) \in Nat
<1>1. n \in Nat /\ n < NumEntries(nodes) /\ NumEntries(nodes) \in Nat
  BY TableTyped
<1>2. CASE n \in Folders(nodes)
  <2>1. End(n) = nodes[n].sibling_next
    BY <1>2 DEF End, Folders
  <2> QED BY <1>1, <1>2, <2>1, TableTyped
<1>3. CASE n \notin Folders(nodes)
  <2>1. End(n) = n + 1
    BY <1>3 DEF End, Folders
  <2> QED BY <1>1, <2>1
<1> QED BY <1>2, <1>3

\* A path that was found is one of the table's nodes, or the program stops.
LEMMA MakingPath ==
  ASSUME WalkInv, pc = "path", NEW path \in Paths, NEW from \in DOMAIN nodes \cup {None},
         MakePath(Found(path, from)), UNCHANGED <<nodes, asserts, at, end, seen>>
  PROVE  WalkInv'
<1> DEFINE r == Found(path, from)
<1>1. nodes \in Tables /\ path \in Seq(Nat)
  BY PathAssumption DEF WalkInv
<1>2. (IF from = None THEN 0 ELSE from) \in Place
  BY <1>1, TableTyped DEF Place
<1>3. r \in Place
  BY <1>1, <1>2, Resolving DEF Found, Spots
<1>4. MakePath(r)
  OBVIOUS
<1> HIDE DEF r
<1>5. /\ pc' \in {"path", "halted", "wild"}
      /\ node' = node \/ node' = None \/ node' \in DOMAIN nodes
  <2>1. r = Wild \/ r = None \/ r \in Nat
    BY <1>3 DEF Place
  <2>2. r \in Nat /\ IsEntryValid(nodes, r) => r \in DOMAIN nodes
    BY <1>1, TableTyped DEF IsEntryValid
  <2> QED BY <1>4, <2>1, <2>2 DEF MakePath
<1> QED BY <1>5 DEF WalkInv

\* Every step preserves the invariant.
LEMMA StepWalks ==
  ASSUME WalkInv, [Next]_vars
  PROVE  WalkInv'
<1>0. /\ nodes \in Tables /\ node \in DOMAIN nodes \cup {None}
      /\ getParentNode(nodes, node) \in DOMAIN nodes \cup {None}
  <2>1. nodes \in Tables /\ node \in DOMAIN nodes \cup {None}
    BY DEF WalkInv
  <2>2. node = None => getParentNode(nodes, node) = None
    BY DEF getParentNode
  <2> QED BY <2>1, <2>2, ParentIsEnclosing
<1>1. ASSUME NEW path \in Paths, append(path) PROVE WalkInv'
  BY <1>0, <1>1, MakingPath DEF append
<1>2. ASSUME NEW path \in Paths, replaceFilename(path) PROVE WalkInv'
  BY <1>0, <1>2, MakingPath DEF replaceFilename
<1>3. CASE removeFilename
  BY <1>0, <1>3 DEF removeFilename, WalkInv
<1>4. CASE clear
  BY <1>4 DEF clear, WalkInv
<1>5. CASE Walk
  <2>1. CASE pc' = "halted" /\ UNCHANGED <<at, end, seen>>
    BY <1>5, <2>1 DEF Walk, WalkInv
  <2>2. CASE pc' = "walk" /\ at' = node + 1 /\ end' = End(node) /\ seen' = <<>>
    <3>1. node \in DOMAIN nodes /\ UNCHANGED <<nodes, asserts, node>>
      BY <1>0, <1>5 DEF Walk
    <3>2. node \in Nat /\ End(node) \in Nat /\ node + 1 <= End(node)
      BY <1>0, <3>1, EndInTable
    <3>3. End(node)' = End(node)
      BY <3>1 DEF End
    <3>4. seen' \in Seq(Nat) /\ Len(seen') = 0 /\ DOMAIN seen' = {}
      BY <2>2
    <3>5. at' \in Nat /\ node < at' /\ Len(seen') = at' - (node + 1)
      BY <2>2, <3>2, <3>4
    <3> QED BY <2>2, <3>1, <3>2, <3>3, <3>4, <3>5 DEF WalkInv
  <2> QED BY <1>5, <2>1, <2>2 DEF Walk
<1>6. CASE Visit
  <2>1. /\ pc = "walk" /\ at # end /\ seen' = Append(seen, at) /\ at' = at + 1
        /\ UNCHANGED <<nodes, asserts, pc, node, end>>
    BY <1>6 DEF Visit
  <2>2. /\ node \in DOMAIN nodes /\ end = End(node)
        /\ at \in Nat /\ node < at /\ at <= end
        /\ seen \in Seq(Nat) /\ Len(seen) = at - (node + 1)
        /\ \A n \in DOMAIN seen : seen[n] = node + n
    BY <2>1 DEF WalkInv
  <2>3. node \in Nat /\ end \in Nat
    BY <1>0, <2>2, EndInTable
  <2>4. /\ seen' \in Seq(Nat) /\ Len(seen') = Len(seen) + 1
        /\ \A n \in 1 .. Len(seen) : seen'[n] = seen[n]
        /\ seen'[Len(seen) + 1] = at
    BY <2>1, <2>2, AppendProperties
  <2>5. /\ DOMAIN seen = 1 .. Len(seen) /\ DOMAIN seen' = 1 .. Len(seen) + 1
        /\ Len(seen) \in Nat
    BY <2>2, <2>4, LenProperties
  <2>6. at' \in Nat /\ node < at' /\ at' <= end /\ Len(seen') = at' - (node + 1)
    BY <2>1, <2>2, <2>3, <2>4
  <2>7. ASSUME NEW n \in DOMAIN seen' PROVE seen'[n] = node + n
    <3>1. n \in DOMAIN seen \/ n = Len(seen) + 1
      BY <2>5
    <3>2. node + (Len(seen) + 1) = at
      BY <2>2, <2>3
    <3> QED BY <2>2, <2>4, <2>5, <3>1, <3>2
  <2>8. End(node)' = End(node)
    BY <2>1 DEF End
  <2> QED BY <2>1, <2>2, <2>4, <2>6, <2>7, <2>8 DEF WalkInv
<1>7. CASE Finish
  BY <1>7 DEF Finish, WalkInv
<1>8. CASE UNCHANGED vars
  BY <1>8 DEF vars, WalkInv, End
<1> QED BY <1>1, <1>2, <1>3, <1>4, <1>5, <1>6, <1>7, <1>8 DEF Next

\* A path begins at the root.
LEMMA InitWalks == Init => WalkInv
BY TableTyped DEF Init, WalkInv

\* Whatever paths are resolved and walked, on whatever disc, a path is at an entry of the
\* table and so is everything a loop is given (DiscFileSystem!TypeOK).
THEOREM TypeCorrect == Spec => []TypeOK
<1>1. WalkInv => TypeOK
  <2> SUFFICES ASSUME WalkInv PROVE TypeOK
    OBVIOUS
  <2>1. nodes \in Tables /\ NumEntries(nodes) \in Nat
        /\ \A n \in Nat : n < NumEntries(nodes) => n \in DOMAIN nodes
    BY TableTyped DEF WalkInv
  <2>2. CASE pc # "walk"
    <3>1. at = 0 /\ end = 0 /\ DOMAIN seen = {}
      BY <2>2 DEF WalkInv
    <3> QED BY <2>1, <3>1 DEF WalkInv, TypeOK
  <2>3. CASE pc = "walk"
    <3>1. /\ node \in DOMAIN nodes /\ end = End(node) /\ at \in Nat /\ node < at /\ at <= end
          /\ seen \in Seq(Nat) /\ Len(seen) = at - (node + 1)
          /\ \A n \in DOMAIN seen : seen[n] = node + n
      BY <2>3 DEF WalkInv
    <3>2. node \in Nat /\ end \in Nat /\ end <= NumEntries(nodes)
      BY <2>1, <3>1, EndInTable
    <3>3. DOMAIN seen = 1 .. at - (node + 1)
      BY <3>1, LenProperties
    <3>4. \A n \in DOMAIN seen : seen[n] \in Nat /\ seen[n] < NumEntries(nodes)
      BY <2>1, <3>1, <3>2, <3>3
    <3>5. at \in 0 .. NumEntries(nodes) /\ end \in 0 .. NumEntries(nodes)
      BY <2>1, <3>1, <3>2
    <3> QED BY <2>1, <3>4, <3>5 DEF WalkInv, TypeOK
  <2> QED BY <2>2, <2>3
<1> QED BY <1>1, InitWalks, StepWalks, PTL DEF Spec

\* On every disc without entries called ".", every path from every folder leads to what it
\* denotes in the tree, or to nothing when it denotes nothing, unless the code takes a name
\* on the disc for several parts of the path (DiscFileSystem!ResolvesLikeTree).
THEOREM PathsLeadWhereTheyShould == Spec => []ResolvesLikeTree
<1>1. WalkInv => ResolvesLikeTree
  <2> SUFFICES ASSUME WalkInv, ~HasDots(nodes), NEW d \in Folders(nodes), NEW path \in Paths,
                      ~Ambiguous(nodes, path)
               PROVE  resolvePath(nodes, path, d) = Denoted(nodes, d, path)
    BY DEF ResolvesLikeTree
  <2>1. nodes \in Tables /\ path \in Seq(Nat)
    BY PathAssumption DEF WalkInv
  <2> QED BY <2>1, PathsAgree
<1> QED BY <1>1, InitWalks, StepWalks, PTL DEF Spec

\* A loop over a folder of any disc is given everything below it, however deep, in order,
\* and nothing else; of a file nothing (DiscFileSystem!VisitsEverythingBelow).
THEOREM LoopsVisitAll == Spec => []VisitsEverythingBelow
<1>1. WalkInv => VisitsEverythingBelow
  <2> SUFFICES ASSUME WalkInv, pc = "walk", at = end
               PROVE  /\ {seen[n] : n \in DOMAIN seen}
                           = IF nodes[node].is_folder THEN Below(nodes, node) ELSE {}
                      /\ \A m, n \in DOMAIN seen : m < n => seen[m] < seen[n]
    BY DEF VisitsEverythingBelow
  <2>1. /\ nodes \in Tables /\ node \in DOMAIN nodes /\ end = End(node) /\ node < end
        /\ seen \in Seq(Nat) /\ Len(seen) = end - (node + 1)
        /\ \A n \in DOMAIN seen : seen[n] = node + n
    BY DEF WalkInv
  <2>2. node \in Nat /\ end \in Nat
    BY <2>1, EndInTable
  <2>3. DOMAIN seen = 1 .. end - (node + 1)
    BY <2>1, LenProperties
  <2>4. {seen[n] : n \in DOMAIN seen} = node + 1 .. end - 1
    <3>1. ASSUME NEW n \in DOMAIN seen PROVE seen[n] \in node + 1 .. end - 1
      BY <2>1, <2>2, <2>3
    <3>2. ASSUME NEW i \in node + 1 .. end - 1 PROVE \E n \in DOMAIN seen : seen[n] = i
      <4>1. i - node \in DOMAIN seen /\ node + (i - node) = i
        BY <2>2, <2>3
      <4> QED BY <2>1, <4>1
    <3> QED BY <3>1, <3>2
  <2>5. CASE nodes[node].is_folder
    <3>1. node \in Folders(nodes) /\ end = nodes[node].sibling_next
      BY <2>1, <2>5 DEF Folders, End
    <3>2. Below(nodes, node) = node + 1 .. end - 1
      BY <2>1, <3>1, BelowIsRange
    <3> QED BY <2>1, <2>2, <2>3, <2>4, <2>5, <3>2
  <2>6. CASE ~ nodes[node].is_folder
    <3>1. end = node + 1
      BY <2>1, <2>6 DEF End
    <3>2. node + 1 .. end - 1 = {} /\ DOMAIN seen = {}
      BY <2>2, <2>3, <3>1
    <3> QED BY <2>4, <2>6, <3>2
  <2> QED BY <2>5, <2>6
<1> QED BY <1>1, InitWalks, StepWalks, PTL DEF Spec

\* On every disc whose folders list their files first, removing the file name from a path
\* leads to the folder it was in (DiscFileSystem!ParentEncloses).
THEOREM ParentsAreFound == Spec => ParentEncloses
<1>1. WalkInv => (removeFilename /\ FilesFirst(nodes) /\ node # None
                    => node' = Enclosing(nodes, node))
  <2> SUFFICES ASSUME WalkInv, removeFilename, FilesFirst(nodes), node # None
               PROVE  node' = Enclosing(nodes, node)
    OBVIOUS
  <2>1. nodes \in Tables /\ node \in DOMAIN nodes /\ node' = getParentNode(nodes, node)
    BY DEF WalkInv, removeFilename
  <2> QED BY <2>1, ParentIsEnclosing
<1> QED BY <1>1, InitWalks, StepWalks, PTL DEF Spec, ParentEncloses
=============================================================================

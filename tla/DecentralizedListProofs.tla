------------------------ MODULE DecentralizedListProofs ------------------------
(***************************************************************************)
(* The rings of DecentralizedList stay rings, over any storage and any     *)
(* sequence of constructions, appends, prepends and moves.                 *)
(***************************************************************************)
EXTENDS DecentralizedList, TLAPS

\* Linking an orphan behind a ring's element, or behind another orphan, keeps
\* every conjunct of the invariant.
LEMMA LinkAfterIInv ==
  ASSUME IInv, NEW left \in alive, NEW right \in alive, left # right,
         Orphan(right), Orphan(left) \/ Attached(left),
         LinkAfter(left, right), UNCHANGED <<alive, halted>>
  PROVE  IInv'
<1> DEFINE head == IF Orphan(left) THEN left ELSE next[left]
<1>1. /\ left \in Places /\ right \in Places /\ head \in Places /\ head # right
      /\ head # Null /\ left # Null /\ right # Null
  BY NullAssumption DEF IInv, TypeOK, NextPermutes, Members, Orphan, Attached
<1>2. /\ next' = [next EXCEPT ![right] = head, ![left] = right]
      /\ last' = [last EXCEPT ![right] = left, ![head] = right]
  BY DEF LinkAfter
<1>3. head = left \/ (next[left] = head /\ left \in Members /\ head \in Members)
  BY <1>1 DEF IInv, NextPermutes, Members
<1>4. head = left => next[left] = Null
  BY <1>1 DEF IInv, Orphan
<1> HIDE DEF head
<1>5. TypeOK'
  BY <1>1, <1>2 DEF IInv, TypeOK
<1>6. /\ next'[right] = head /\ next'[left] = right
      /\ \A p \in Places \ {left, right} : next'[p] = next[p]
  BY <1>1, <1>2 DEF IInv, TypeOK
<1>7. /\ last'[right] = left /\ last'[head] = right
      /\ \A p \in Places \ {head, right} : last'[p] = last[p]
  BY <1>1, <1>2 DEF IInv, TypeOK
<1>8. Members' = Members \cup {left, right}
  BY <1>1, <1>6 DEF Members
<1>9. NextPermutes'
  <2>1. Members' \subseteq alive' /\ \A p \in Members' : next'[p] \in Members'
    BY <1>1, <1>3, <1>6, <1>8 DEF IInv, NextPermutes, Members
  <2>2. ASSUME NEW p \in Members', NEW q \in Members', next'[p] = next'[q]
        PROVE  p = q
    BY <1>1, <1>3, <1>4, <1>6, <1>8, <2>2 DEF IInv, NextPermutes, Members, Orphan
  <2> QED BY <2>1, <2>2 DEF NextPermutes
<1>10. \A p \in Places : next'[p] = Null <=> last'[p] = Null
  BY <1>1, <1>3, <1>6, <1>7 DEF IInv, Members
<1>11. \A p \in Places : next'[p] # p
  BY <1>1, <1>6 DEF IInv
<1> QED BY <1>5, <1>9, <1>10, <1>11 DEF IInv

\* Moving an element to a fresh place puts that place where the element was.
LEMMA MoveIInv ==
  ASSUME IInv, NEW dest \in Places, NEW source \in Places, Move(dest, source)
  PROVE  IInv'
<1> DEFINE p == last[source]
<1>1. CASE p # Null /\ next[p] # source
  BY <1>1 DEF Move, IInv, TypeOK, NextPermutes, Members
<1>2. CASE p = Null \/ next[p] = source
  <2>1. /\ source \in alive /\ dest \notin alive /\ dest # source
        /\ next' = [q \in Places |-> CASE q = source -> Null
                                       [] q = dest   -> next[source]
                                       [] q = p      -> dest
                                       [] OTHER      -> next[q]]
        /\ last' = [last EXCEPT ![dest] = p, ![source] = Null]
        /\ alive' = alive \cup {dest} /\ halted' = halted
    BY <1>2 DEF Move
  <2>2. p \in Places \cup {Null} /\ (p = Null <=> next[source] = Null)
    BY DEF IInv, TypeOK
  <2>3. dest \notin Members /\ next[dest] = Null /\ last[dest] = Null
    BY <2>1 DEF IInv, NextPermutes, Members
  <2>4. p # source /\ p # dest
    BY <1>2, <2>1, <2>2, <2>3, NullAssumption DEF IInv
  <2> HIDE DEF p
  <2>5. /\ next'[source] = Null /\ next'[dest] = next[source]
        /\ p # Null => next'[p] = dest
        /\ \A q \in Places \ {source, dest, p} : next'[q] = next[q]
    BY <2>1, <2>2, <2>4
  <2>6. /\ last'[source] = Null /\ last'[dest] = p
        /\ \A q \in Places \ {source, dest} : last'[q] = last[q]
    BY <2>1 DEF IInv, TypeOK
  <2>7. TypeOK'
    BY <2>1, <2>2 DEF IInv, TypeOK
  <2>8. CASE p = Null
    <3>1. \A q \in Places : next'[q] = next[q]
      <4>1. next[source] = Null /\ next'[source] = Null /\ next'[dest] = Null
        BY <2>2, <2>5, <2>8
      <4>2. \A q \in Places \ {source, dest} : next'[q] = next[q]
        BY <2>5, <2>8, NullAssumption
      <4> QED BY <2>3, <4>1, <4>2
    <3>2. Members' = Members /\ \A q \in Members : next'[q] = next[q]
      BY <3>1 DEF Members
    <3>3. NextPermutes'
      BY <2>1, <3>2 DEF IInv, NextPermutes
    <3>4. \A q \in Places : next'[q] = Null <=> last'[q] = Null
      BY <2>2, <2>3, <2>6, <2>8, <3>1 DEF IInv
    <3> QED BY <2>7, <3>1, <3>3, <3>4 DEF IInv
  <2>9. CASE p # Null
    <3>1. p \in Members /\ source \in Members /\ next[p] = source
      BY <1>2, <2>2, <2>9, NullAssumption DEF Members, p
    <3>2. Members' = (Members \ {source}) \cup {dest}
      BY <2>2, <2>4, <2>5, <2>9, <3>1, NullAssumption DEF Members
    <3>3. \A q \in Members : next[q] = source => q = p
      BY <3>1 DEF IInv, NextPermutes
    <3>4. next[source] \in Members /\ next[source] # source
      BY <3>1 DEF IInv, NextPermutes
    <3>5. \A q \in Members' : next'[q] \in Members'
      BY <2>3, <2>5, <2>9, <3>1, <3>2, <3>3, <3>4 DEF IInv, NextPermutes, Members
    <3>6. ASSUME NEW q \in Members', NEW r \in Members', next'[q] = next'[r]
          PROVE  q = r
      <4>1. \A s \in Members \ {source, p} : next'[s] = next[s] /\ s # dest
        BY <2>3, <2>5 DEF Members
      <4>2. \A s \in Members \ {source, p} : next[s] # next[source] /\ next[s] # dest
        BY <2>3, <3>1 DEF IInv, NextPermutes
      <4>3. next[source] # dest
        BY <2>3, <3>4
      <4> QED BY <2>5, <2>9, <3>1, <3>2, <3>6, <4>1, <4>2, <4>3 DEF IInv, NextPermutes
    <3>7. NextPermutes'
      BY <2>1, <3>2, <3>5, <3>6 DEF IInv, NextPermutes
    <3>8. \A q \in Places : next'[q] = Null <=> last'[q] = Null
      BY <2>2, <2>3, <2>5, <2>6, <2>9, <3>1, NullAssumption DEF IInv, Members
    <3>9. \A q \in Places : next'[q] # q
      BY <2>2, <2>3, <2>4, <2>5, <3>4, NullAssumption DEF IInv
    <3> QED BY <2>7, <3>7, <3>8, <3>9 DEF IInv
  <2> QED BY <2>8, <2>9
<1> QED BY <1>1, <1>2

\* The invariant of the pointers holds whatever is constructed, appended, prepended
\* and moved.
THEOREM Invariance == Spec => []IInv
<1>1. Init => IInv
  BY NullAssumption DEF Init, IInv, TypeOK, NextPermutes, Members
<1>2. ASSUME IInv, [Next]_vars PROVE IInv'
  <2>1. ASSUME NEW p \in Places, Construct(p) PROVE IInv'
    <3>1. next[p] = Null /\ last[p] = Null
      BY <1>2, <2>1 DEF Construct, IInv, NextPermutes, Members
    <3>2. next' = next /\ last' = last
      BY <1>2, <2>1, <3>1 DEF Construct, IInv, TypeOK
    <3> QED BY <1>2, <2>1, <3>2 DEF Construct, IInv, TypeOK, NextPermutes, Members
  <2>2. ASSUME NEW p \in Places, NEW q \in Places, Append(p, q) PROVE IInv'
    <3>1. CASE Orphan(q)
      <4>1. Orphan(p) \/ Attached(p)
        BY <1>2 DEF IInv, Orphan, Attached
      <4> QED BY <1>2, <2>2, <3>1, <4>1, LinkAfterIInv DEF Append
    <3>2. CASE ~Orphan(q)
      BY <1>2, <2>2, <3>2 DEF Append, IInv, TypeOK, NextPermutes, Members
    <3> QED BY <3>1, <3>2
  <2>3. ASSUME NEW p \in Places, NEW q \in Places, Prepend(p, q) PROVE IInv'
    <3> DEFINE before == IF Orphan(p) THEN p ELSE last[p]
    <3>1. CASE Orphan(q) /\ (Orphan(p) \/ Attached(before))
      <4>1. /\ {p, q} \subseteq alive /\ p # q /\ UNCHANGED <<alive, halted>>
            /\ LinkAfter(before, q)
        BY <2>3, <3>1 DEF Prepend
      <4>2. before \in alive /\ before # q /\ (Orphan(before) \/ Attached(before))
        BY <1>2, <3>1, <4>1 DEF IInv, TypeOK, NextPermutes, Members, Orphan, Attached
      <4> HIDE DEF before
      <4> QED BY <1>2, <3>1, <4>1, <4>2, LinkAfterIInv
    <3>2. CASE ~(Orphan(q) /\ (Orphan(p) \/ Attached(before)))
      BY <1>2, <2>3, <3>2 DEF Prepend, IInv, TypeOK, NextPermutes, Members
    <3> QED BY <3>1, <3>2
  <2>4. ASSUME NEW p \in Places, NEW q \in Places, Move(p, q) PROVE IInv'
    BY <1>2, <2>4, MoveIInv
  <2>5. CASE UNCHANGED vars
    BY <1>2, <2>5 DEF vars, IInv, TypeOK, NextPermutes, Members
  <2> QED BY <1>2, <2>1, <2>2, <2>3, <2>4, <2>5 DEF Next
<1> QED BY <1>1, <1>2, PTL DEF Spec

\* Whatever is constructed, appended, prepended and moved, walking next pointers
\* stays within one ring of objects that are alive.
THEOREM RingsStayRings == Spec => []NextPermutes
<1>1. IInv => NextPermutes
  BY DEF IInv
<1> QED BY <1>1, Invariance, PTL

-----------------------------------------------------------------------------
\* A link made behind left leads both ways, and disturbs no other pair.
LEMMA LinkAfterBothWays ==
  ASSUME IInv, NEW left \in alive, NEW right \in alive, left # right,
         Orphan(right), Orphan(left) \/ Attached(left), LinkAfter(left, right),
         \A p \in Members : last[next[p]] = p
  PROVE  \A p \in Members' : last'[next'[p]] = p
<1> DEFINE head == IF Orphan(left) THEN left ELSE next[left]
<1>1. /\ left \in Places /\ right \in Places /\ head \in Places /\ head # right
      /\ head # Null /\ left # Null /\ right # Null
  BY NullAssumption DEF IInv, TypeOK, NextPermutes, Members, Orphan, Attached
<1>2. /\ next' = [next EXCEPT ![right] = head, ![left] = right]
      /\ last' = [last EXCEPT ![right] = left, ![head] = right]
  BY DEF LinkAfter
<1>3. head = left \/ (next[left] = head /\ left \in Members)
  BY <1>1 DEF IInv, NextPermutes, Members
<1>4. head = left => next[left] = Null
  BY <1>1 DEF IInv, Orphan
<1> HIDE DEF head
<1>5. /\ next'[right] = head /\ next'[left] = right
      /\ \A p \in Places \ {left, right} : next'[p] = next[p]
  BY <1>1, <1>2 DEF IInv, TypeOK
<1>6. /\ last'[right] = left /\ last'[head] = right
      /\ \A p \in Places \ {head, right} : last'[p] = last[p]
  BY <1>1, <1>2 DEF IInv, TypeOK
<1> SUFFICES ASSUME NEW p \in Members' PROVE last'[next'[p]] = p
  OBVIOUS
<1>7. CASE p = left \/ p = right
  BY <1>5, <1>6, <1>7
<1>8. CASE p # left /\ p # right
  <2>1. p \in Members /\ next'[p] = next[p] /\ next[p] \in Members
    BY <1>5, <1>8 DEF Members, IInv, NextPermutes
  <2>2. next[p] # right
    BY <2>1 DEF Members, Orphan
  <2>3. next[p] # head
    BY <1>3, <1>4, <1>8, <2>1 DEF IInv, NextPermutes, Members
  <2>4. last'[next[p]] = last[next[p]]
    BY <1>6, <2>1, <2>2, <2>3 DEF Members
  <2> QED BY <2>1, <2>4
<1> QED BY <1>7, <1>8

\* Each element of a ring has one before it, which its last pointer leads to.
LEMMA LastIsBefore ==
  ASSUME IInv, RingInv, NEW r \in peers, NEW p \in r, Attached(p),
         \A q \in Members : last[next[q]] = q
  PROVE  last[p] \in r /\ next[last[p]] = p
<1>1. p \in Members /\ next[p] \in r /\ next[p] # p
  BY DEF RingInv, IInv, TypeOK, Members, Attached, Closed
<1>2. PICK q \in r : next[q] = p
  <2>1. SUFFICES ASSUME \A q \in r : next[q] # p PROVE FALSE
    OBVIOUS
  <2>2. r \ {p} \in SUBSET r /\ r \ {p} # {} /\ Closed(r \ {p})
    BY <1>1, <2>1 DEF RingInv, Closed
  <2> QED BY <2>2 DEF RingInv
<1>3. p # Null /\ q \in Members
  BY <1>1, <1>2, NullAssumption DEF RingInv, Members, IInv, TypeOK
<1> QED BY <1>2, <1>3

\* Before the first move of a ring's element, and through any step that moves none,
\* the last pointers undo the next pointers.
LEMMA StepBothWays ==
  ASSUME IInv, RingInv, \A p \in Members : last[next[p]] = p, [Next]_vars, ~moved'
  PROVE  \A p \in Members' : last'[next'[p]] = p
<1>1. ASSUME NEW p \in Places, Construct(p) PROVE \A q \in Members' : last'[next'[q]] = q
  <2>1. next[p] = Null /\ last[p] = Null
    BY <1>1 DEF Construct, IInv, NextPermutes, Members
  <2>2. next' = next /\ last' = last
    BY <1>1, <2>1 DEF Construct, IInv, TypeOK
  <2> QED BY <2>2 DEF Members
<1>2. ASSUME NEW p \in Places, NEW q \in Places, Append(p, q)
      PROVE  \A s \in Members' : last'[next'[s]] = s
  <2>1. CASE Orphan(q)
    <3>1. Orphan(p) \/ Attached(p)
      BY DEF IInv, Orphan, Attached
    <3> QED BY <1>2, <2>1, <3>1, LinkAfterBothWays DEF Append
  <2>2. CASE ~Orphan(q)
    BY <1>2, <2>2 DEF Append, Members
  <2> QED BY <2>1, <2>2
<1>3. ASSUME NEW p \in Places, NEW q \in Places, Prepend(p, q)
      PROVE  \A s \in Members' : last'[next'[s]] = s
  <2> DEFINE before == IF Orphan(p) THEN p ELSE last[p]
  <2>1. CASE Orphan(q) /\ (Orphan(p) \/ Attached(before))
    <3>1. {p, q} \subseteq alive /\ p # q /\ LinkAfter(before, q)
      BY <1>3, <2>1 DEF Prepend
    <3>2. before \in alive /\ before # q /\ (Orphan(before) \/ Attached(before))
      BY <2>1, <3>1 DEF IInv, TypeOK, NextPermutes, Members, Orphan, Attached
    <3> HIDE DEF before
    <3> QED BY <2>1, <3>1, <3>2, LinkAfterBothWays
  <2>2. CASE ~(Orphan(q) /\ (Orphan(p) \/ Attached(before)))
    BY <1>3, <2>2 DEF Prepend, Members
  <2> QED BY <2>1, <2>2
<1>4. ASSUME NEW p \in Places, NEW q \in Places, Move(p, q)
      PROVE  \A s \in Members' : last'[next'[s]] = s
  <2>1. CASE last[q] # Null /\ next[last[q]] # q
    BY <1>4, <2>1 DEF Move, Members
  <2>2. CASE ~(last[q] # Null /\ next[last[q]] # q)
    <3>1. last[q] = Null /\ next[q] = Null
      BY <1>4, <2>2 DEF Move, Attached, IInv
    <3>2. next[p] = Null /\ last[p] = Null
      BY <1>4 DEF Move, IInv, NextPermutes, Members
    <3>3. next' = next
      BY <1>4, <2>2, <3>1, <3>2, NullAssumption DEF Move, IInv, TypeOK
    <3>4. last' = last
      BY <1>4, <2>2, <3>1, <3>2 DEF Move, IInv, TypeOK
    <3> QED BY <3>3, <3>4 DEF Members
  <2> QED BY <2>1, <2>2
<1>5. CASE UNCHANGED vars
  BY <1>5 DEF vars, Members
<1> QED BY <1>1, <1>2, <1>3, <1>4, <1>5 DEF Next

-----------------------------------------------------------------------------
\* The ring that an object was put in is the only one with it.
LEMMA RingOf ==
  ASSUME RingInv, NEW p \in alive
  PROVE  Ring(p) \in peers /\ p \in Ring(p) /\ \A r \in peers : p \in r => r = Ring(p)
<1>1. \E r \in peers : p \in r
  BY DEF RingInv
<1>2. Ring(p) \in peers /\ p \in Ring(p)
  BY <1>1 DEF Ring
<1> QED BY <1>2 DEF RingInv

\* An orphan is a ring of its own.
LEMMA OrphanRing ==
  ASSUME RingInv, NEW p \in alive, Orphan(p)
  PROVE  Ring(p) = {p}
<1>1. Ring(p) \in peers /\ p \in Ring(p)
  BY RingOf
<1>2. {p} \in SUBSET Ring(p) /\ Closed({p})
  BY <1>1 DEF Closed, Orphan
<1> QED BY <1>1, <1>2 DEF RingInv

\* Linking an orphan behind an element of a ring makes one cycle of the two.
LEMMA LinkAfterRings ==
  ASSUME IInv, RingInv, NEW left \in alive, NEW right \in alive, left # right,
         Orphan(right), Orphan(left) \/ Attached(left), LinkAfter(left, right),
         alive' = alive,
         peers' = (peers \ {Ring(left), Ring(right)}) \cup {Ring(left) \cup Ring(right)}
  PROVE  RingInv'
<1>0. PICK r : r = Ring(left)
  OBVIOUS
<1> DEFINE head == IF Orphan(left) THEN left ELSE next[left]
           new  == r \cup {right}
<1>1. /\ left \in Places /\ right \in Places /\ head \in Places /\ head # right
      /\ head # Null /\ left # Null /\ right # Null
  BY NullAssumption DEF IInv, TypeOK, NextPermutes, Members, Orphan, Attached
<1>2. next' = [next EXCEPT ![right] = head, ![left] = right]
  BY DEF LinkAfter
<1>3. head = left \/ next[left] = head
  BY DEF Orphan
<1>4. head = left => next[left] = Null
  BY <1>1 DEF IInv, Orphan
<1> HIDE DEF head
<1>5. /\ next'[right] = head /\ next'[left] = right
      /\ \A p \in Places \ {left, right} : next'[p] = next[p]
  BY <1>1, <1>2 DEF IInv, TypeOK
<1>6. /\ r \in peers /\ left \in r /\ r \subseteq alive /\ r \subseteq Places
      /\ \A s \in peers : s # r => s \cap r = {}
  BY <1>0, RingOf DEF RingInv, IInv, TypeOK
<1>7. /\ Ring(right) = {right} /\ {right} \in peers
      /\ \A s \in peers : right \in s => s = {right}
  <2>1. Ring(right) = {right}
    BY OrphanRing
  <2>2. Ring(right) \in peers /\ \A s \in peers : right \in s => s = Ring(right)
    BY RingOf
  <2> QED BY <2>1, <2>2
<1>8. right \notin r /\ head \in r
  BY <1>1, <1>3, <1>6, <1>7 DEF RingInv, Closed
<1>9. peers' = (peers \ {r, {right}}) \cup {new}
  BY <1>0, <1>7
<1>10. ASSUME NEW p \in Places PROVE next[p] # right
  BY <1>1 DEF IInv, NextPermutes, Members, Orphan
<1>11. /\ new # {} /\ new \subseteq alive' /\ Closed(new)'
       /\ \A S \in SUBSET new : S # {} /\ Closed(S)' => S = new
  <2>1. new # {} /\ new \subseteq alive'
    BY <1>6
  <2>2. Closed(new)'
    <3> SUFFICES ASSUME NEW p \in new PROVE next'[p] \in new \cup {Null}
      BY DEF Closed
    <3>1. CASE p = left \/ p = right
      BY <1>5, <1>8, <3>1
    <3>2. CASE p # left /\ p # right
      <4>1. p \in r /\ next'[p] = next[p]
        BY <1>5, <1>6, <3>2
      <4> QED BY <1>6, <4>1 DEF RingInv, Closed
    <3> QED BY <3>1, <3>2
  <2>3. ASSUME NEW S \in SUBSET new, S # {}, Closed(S)' PROVE S = new
    <3>0. \A p \in S : next'[p] \in S \cup {Null}
      BY <2>3 DEF Closed
    <3>1. CASE right \notin S
      <4>1. left \notin S /\ S \subseteq r
        BY <1>1, <1>5, <3>0, <3>1
      <4>2. Closed(S)
        BY <1>5, <1>6, <3>0, <3>1, <4>1 DEF Closed
      <4>3. S = r
        BY <1>6, <2>3, <4>1, <4>2 DEF RingInv
      <4> QED BY <1>6, <4>1, <4>3
    <3>2. CASE right \in S
      <4> DEFINE T == S \ {right}
      <4>1. head \in S
        BY <1>1, <1>5, <3>0, <3>2
      <4>2. T \in SUBSET r /\ T # {}
        BY <1>1, <4>1
      <4>3. Closed(T)
        <5> SUFFICES ASSUME NEW p \in T PROVE next[p] \in T \cup {Null}
          BY DEF Closed
        <5>1. CASE p = left
          BY <1>1, <1>3, <1>4, <4>1, <5>1
        <5>2. CASE p # left
          <6>1. p \in Places /\ next'[p] = next[p] /\ p \in S
            BY <1>5, <1>6, <4>2, <5>2
          <6> QED BY <1>10, <3>0, <6>1
        <5> QED BY <5>1, <5>2
      <4>4. T = r
        BY <1>6, <4>2, <4>3 DEF RingInv
      <4> QED BY <3>2, <4>4
    <3> QED BY <3>1, <3>2
  <2> QED BY <2>1, <2>2, <2>3
<1> HIDE DEF new
<1>12. ASSUME NEW s \in peers, s # r, s # {right}
       PROVE  /\ s # {} /\ s \subseteq alive' /\ Closed(s)'
              /\ \A S \in SUBSET s : S # {} /\ Closed(S)' => S = s
  <2>1. s # {} /\ s \subseteq alive /\ Closed(s) /\ s \subseteq Places
    BY DEF RingInv, IInv, TypeOK
  <2>2. left \notin s /\ right \notin s
    BY <1>6, <1>7, <1>12
  <2>3. \A p \in s : next'[p] = next[p]
    BY <1>5, <2>1, <2>2
  <2>4. \A S \in SUBSET s : Closed(S)' => Closed(S)
    BY <2>3 DEF Closed
  <2>5. Closed(s)'
    BY <2>1, <2>3 DEF Closed
  <2> QED BY <2>1, <2>4, <2>5 DEF RingInv
<1>13. \A s \in peers' : /\ s # {} /\ s \subseteq alive' /\ Closed(s)'
                         /\ \A S \in SUBSET s : S # {} /\ Closed(S)' => S = s
  BY <1>9, <1>11, <1>12
<1>14. ASSUME NEW p \in alive' PROVE \E s \in peers' : p \in s
  <2>1. PICK s \in peers : p \in s
    BY DEF RingInv
  <2>2. CASE s = r \/ s = {right}
    BY <1>9, <2>1, <2>2, ZenonT(60) DEF new
  <2> QED BY <1>9, <2>1, <2>2
<1>15. \A s, t \in peers' : s \cap t # {} => s = t
  <2>1. \A s \in peers \ {r, {right}} : s \cap new = {}
    BY <1>6, <1>7 DEF new
  <2> QED BY <1>9, <2>1 DEF RingInv
<1> QED BY <1>13, <1>14, <1>15 DEF RingInv

\* An object that nothing links to, in a place of its own, is a ring of its own.
LEMMA FreshRing ==
  ASSUME IInv, RingInv, NEW p \in Places, p \notin alive, next' = next,
         alive' = alive \cup {p}, peers' = peers \cup {{p}}
  PROVE  RingInv'
<1>1. next[p] = Null
  BY DEF IInv, NextPermutes, Members
<1>2. \A S : Closed(S)' <=> Closed(S)
  BY DEF Closed
<1>3. Closed({p})
  BY <1>1 DEF Closed
<1>4. \A r \in peers : p \notin r
  BY DEF RingInv
<1>5. ASSUME NEW r \in peers'
      PROVE  /\ r # {} /\ r \subseteq alive' /\ Closed(r)'
             /\ \A S \in SUBSET r : S # {} /\ Closed(S)' => S = r
  <2>1. CASE r \in peers
    <3>1. /\ r # {} /\ r \subseteq alive /\ Closed(r)
          /\ \A S \in SUBSET r : S # {} /\ Closed(S) => S = r
      BY <2>1 DEF RingInv
    <3> QED BY <1>2, <3>1
  <2>2. CASE r = {p}
    BY <1>2, <1>3, <2>2
  <2> QED BY <2>1, <2>2
<1>6. ASSUME NEW q \in alive' PROVE \E r \in peers' : q \in r
  <2>1. CASE q = p
    BY <2>1
  <2>2. CASE q \in alive
    BY <2>2 DEF RingInv
  <2> QED BY <2>1, <2>2
<1>7. ASSUME NEW r \in peers', NEW s \in peers', r \cap s # {} PROVE r = s
  <2>1. CASE r \in peers /\ s \in peers
    BY <1>7, <2>1 DEF RingInv
  <2> QED BY <1>4, <1>7, <2>1
<1> QED BY <1>5, <1>6, <1>7 DEF RingInv

\* The rings are the cycles of next as long as no element of a ring was moved.
LEMMA StepRings ==
  ASSUME IInv, RingInv, \A p \in Members : last[next[p]] = p, [Next]_vars, ~moved'
  PROVE  RingInv'
<1>1. ASSUME NEW p \in Places, Construct(p) PROVE RingInv'
  <2>1. next[p] = Null /\ next' = next
    BY <1>1 DEF Construct, IInv, TypeOK, NextPermutes, Members
  <2> QED BY <1>1, <2>1, FreshRing DEF Construct
<1>2. ASSUME NEW p \in Places, NEW q \in Places, Append(p, q) PROVE RingInv'
  <2>1. CASE Orphan(q)
    <3>1. Orphan(p) \/ Attached(p)
      BY DEF IInv, Orphan, Attached
    <3> QED BY <1>2, <2>1, <3>1, LinkAfterRings DEF Append, Join
  <2>2. CASE ~Orphan(q)
    BY <1>2, <2>2 DEF Append, RingInv, Closed
  <2> QED BY <2>1, <2>2
<1>3. ASSUME NEW p \in Places, NEW q \in Places, Prepend(p, q) PROVE RingInv'
  <2> DEFINE before == IF Orphan(p) THEN p ELSE last[p]
  <2>1. CASE Orphan(q) /\ (Orphan(p) \/ Attached(before))
    <3>1. /\ {p, q} \subseteq alive /\ p # q /\ alive' = alive
          /\ LinkAfter(before, q) /\ Join(p, q)
      BY <1>3, <2>1 DEF Prepend
    <3>2. before \in alive /\ before # q /\ (Orphan(before) \/ Attached(before))
      BY <2>1, <3>1 DEF IInv, TypeOK, NextPermutes, Members, Orphan, Attached
    <3>3. Ring(before) = Ring(p)
      <4>1. Ring(p) \in peers /\ p \in Ring(p)
        BY <3>1, RingOf
      <4>2. CASE Orphan(p)
        BY <4>2
      <4>3. CASE ~Orphan(p)
        <5>1. Attached(p)
          BY <4>3 DEF IInv, Orphan, Attached
        <5>2. before \in Ring(p)
          BY <4>1, <4>3, <5>1, LastIsBefore
        <5> QED BY <3>2, <4>1, <5>2, RingOf
      <4> QED BY <4>2, <4>3
    <3> HIDE DEF before
    <3> QED BY <2>1, <3>1, <3>2, <3>3, LinkAfterRings DEF Join
  <2>2. CASE ~(Orphan(q) /\ (Orphan(p) \/ Attached(before)))
    BY <1>3, <2>2 DEF Prepend, RingInv, Closed
  <2> QED BY <2>1, <2>2
<1>4. ASSUME NEW p \in Places, NEW q \in Places, Move(p, q) PROVE RingInv'
  <2>1. CASE last[q] # Null /\ next[last[q]] # q
    BY <1>4, <2>1 DEF Move, RingInv, Closed
  <2>2. CASE ~(last[q] # Null /\ next[last[q]] # q)
    <3>1. last[q] = Null /\ next[q] = Null /\ Orphan(q) /\ q \in alive /\ p \notin alive
      BY <1>4, <2>2 DEF Move, Attached, IInv, Orphan
    <3>2. next[p] = Null /\ last[p] = Null
      BY <1>4 DEF Move, IInv, NextPermutes, Members
    <3>3. next' = next
      BY <1>4, <2>2, <3>1, <3>2, NullAssumption DEF Move, IInv, TypeOK
    <3>4. Ring(q) = {q} /\ {q} \in peers
      BY <3>1, OrphanRing, RingOf
    <3>5. /\ alive' = alive \cup {p}
          /\ peers' = (peers \ {Ring(q)}) \cup {(Ring(q) \ {q}) \cup {p}, {q}}
      BY <1>4, <2>2 DEF Move
    <3>6. peers' = peers \cup {{p}}
      BY <3>4, <3>5
    <3> QED BY <3>1, <3>3, <3>5, <3>6, FreshRing
  <2> QED BY <2>1, <2>2
<1>5. CASE UNCHANGED vars
  BY <1>5 DEF vars, RingInv, Closed
<1> QED BY <1>1, <1>2, <1>3, <1>4, <1>5 DEF Next

\* Both halves together: the rings and the last pointers, before the first move of an
\* element of a ring.
THEOREM RingInvariance == Spec => [](~moved => RingInv /\ LinkedBothWays)
<1> DEFINE Inv == ~moved => RingInv /\ LinkedBothWays
<1>1. Init => Inv
  BY DEF Init, RingInv, LinkedBothWays, Members
<1>2. IInv /\ Inv /\ [Next]_vars => Inv'
  <2> SUFFICES ASSUME IInv, Inv, [Next]_vars, ~moved' PROVE RingInv' /\ LinkedBothWays'
    OBVIOUS
  <2>1. ~moved
    BY DEF Next, Construct, Append, Prepend, Move, vars
  <2>2. RingInv /\ \A p \in Members : last[next[p]] = p
    BY <2>1 DEF LinkedBothWays
  <2>3. RingInv' /\ \A p \in Members' : last'[next'[p]] = p
    BY <2>2, StepRings, StepBothWays
  <2> QED BY <2>3 DEF LinkedBothWays
<1> QED BY <1>1, <1>2, Invariance, PTL DEF Spec

\* Going on and back again ends at the start: append and prepend keep both pointers
\* of every pair of neighbours in step.
THEOREM BackIsBack == Spec => []LinkedBothWays
<1>1. (~moved => RingInv /\ LinkedBothWays) => LinkedBothWays
  BY DEF LinkedBothWays
<1> QED BY <1>1, RingInvariance, PTL

\* Iterating from any object visits exactly the objects it was appended or prepended
\* to, directly or through others.
THEOREM NeighboursVisited == Spec => []NeighboursAreReachable
<1>1. IInv /\ (~moved => RingInv /\ LinkedBothWays) => NeighboursAreReachable
  <2> SUFFICES ASSUME IInv, RingInv, NEW p \in alive PROVE Visited(p) = Ring(p)
    BY DEF NeighboursAreReachable
  <2>1. /\ Ring(p) \in peers /\ p \in Ring(p) /\ Ring(p) \subseteq Places
        /\ Closed(Ring(p))
    BY RingOf DEF RingInv, IInv, TypeOK
  <2>2. Visited(p) \subseteq Ring(p)
    BY <2>1 DEF Visited
  <2>3. ASSUME NEW S \in SUBSET Places, p \in S, Closed(S) PROVE Ring(p) \subseteq S
    <3>1. /\ S \cap Ring(p) \in SUBSET Ring(p) /\ S \cap Ring(p) # {}
          /\ Closed(S \cap Ring(p))
      BY <2>1, <2>3 DEF Closed
    <3>2. S \cap Ring(p) = Ring(p)
      BY <2>1, <3>1 DEF RingInv
    <3> QED BY <3>2
  <2> QED BY <2>1, <2>2, <2>3 DEF Visited
<1> QED BY <1>1, Invariance, RingInvariance, PTL
=============================================================================

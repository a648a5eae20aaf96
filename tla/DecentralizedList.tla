--------------------------- MODULE DecentralizedList ---------------------------
(***************************************************************************)
(* kuribo::DLink (src/source/Common/util/list.hxx): an intrusive cyclic    *)
(* list without head or tail.  Places are the storage an object can live   *)
(* in; a Link is the next and the last pointer at a place, both Null for   *)
(* an orphan.                                                              *)
(***************************************************************************)
EXTENDS FiniteSets, Functions

CONSTANTS Places, Null

ASSUME NullAssumption == Null \notin Places

VARIABLES
  next, last, \* the pointers of the Link at each place
  alive,      \* places that hold an object
  peers,      \* history: the rings that append and prepend were asked to form
  moved,      \* history: some object that was in a ring has been moved
  halted      \* a KURIBO_ASSERT has stopped the program

vars == <<next, last, alive, peers, moved, halted>>

\* CyclicClassify; Link pointers that are not both null or both set are Corrupt.
Attached(p) == next[p] # Null /\ last[p] # Null
Orphan(p) == next[p] = Null /\ last[p] = Null

Ring(p) == CHOOSE r \in peers : p \in r

Init ==
  /\ next = [p \in Places |-> Null] /\ last = [p \in Places |-> Null]
  /\ alive = {} /\ peers = {} /\ moved = FALSE /\ halted = FALSE

\* DLink(): an object of its own.
Construct(p) ==
  /\ ~halted /\ p \notin alive
  /\ alive' = alive \cup {p} /\ peers' = peers \cup {{p}}
  /\ next' = [next EXCEPT ![p] = Null] /\ last' = [last EXCEPT ![p] = Null]
  /\ UNCHANGED <<moved, halted>>

\* Mutant: head->last is left alone.
LinkAfterWithoutBackLink(left, right) ==
  LET head == IF Orphan(left) THEN left ELSE next[left]
  IN  /\ next' = [next EXCEPT ![right] = head, ![left] = right]
      /\ last' = [last EXCEPT ![right] = left, ![left] = IF head = left THEN right ELSE last[left]]

\* Mutant: a new element always closes the ring with left.
LinkAfterOrphanOnly(left, right) ==
  /\ next' = [next EXCEPT ![right] = left, ![left] = right]
  /\ last' = [last EXCEPT ![right] = left, ![left] = right]

\* CyclicAppendToOrphan and CyclicAppendToNonOrphan behind left.
LinkAfter(left, right) ==
  LET head == IF Orphan(left) THEN left ELSE next[left]
  IN  /\ next' = [next EXCEPT ![right] = head, ![left] = right]
      /\ last' = [last EXCEPT ![right] = left, ![head] = right]

Join(left, right) ==
  peers' = (peers \ {Ring(left), Ring(right)}) \cup {Ring(left) \cup Ring(right)}

\* append: right must be an orphan, or an assertion fails.
Append(left, right) ==
  /\ ~halted /\ {left, right} \subseteq alive /\ left # right
  /\ IF Orphan(right)
     THEN LinkAfter(left, right) /\ Join(left, right) /\ UNCHANGED halted
     ELSE halted' = TRUE /\ UNCHANGED <<next, last, peers>>
  /\ UNCHANGED <<alive, moved>>

\* prepend: append behind whatever left.last points to.
Prepend(left, right) ==
  LET before == IF Orphan(left) THEN left ELSE last[left]
  IN  /\ ~halted /\ {left, right} \subseteq alive /\ left # right
      /\ IF Orphan(right) /\ (Orphan(left) \/ Attached(before))
         THEN LinkAfter(before, right) /\ Join(left, right) /\ UNCHANGED halted
         ELSE halted' = TRUE /\ UNCHANGED <<next, last, peers>>
      /\ UNCHANGED <<alive, moved>>

\* Mutant: the predecessor keeps pointing to the place moved from, which moves
\* on as an orphan.
MoveLeavingPredecessor(dest, source) ==
  /\ ~halted /\ source \in alive /\ dest \notin alive
  /\ next' = [next EXCEPT ![dest] = next[source], ![source] = Null]
  /\ last' = [last EXCEPT ![dest] = last[source], ![source] = Null]
  /\ alive' = alive \cup {dest}
  /\ peers' = (peers \ {Ring(source)})
                \cup {(Ring(source) \ {source}) \cup {dest}, {source}}
  /\ moved' = (moved \/ Attached(source))
  /\ UNCHANGED halted

\* CylicMove by the move constructor: dest takes the place of source in the ring
\* as its predecessor sees it; the object left behind is an orphan.
Move(dest, source) ==
  LET p == last[source]
  IN  /\ ~halted /\ source \in alive /\ dest \notin alive
      /\ IF p # Null /\ next[p] # source
         THEN halted' = TRUE /\ UNCHANGED <<next, last, alive, peers, moved>>
         ELSE /\ next' = [q \in Places |->
                            CASE q = source -> Null
                              [] q = dest   -> next[source]
                              [] q = p      -> dest
                              [] OTHER      -> next[q]]
              /\ last' = [last EXCEPT ![dest] = p, ![source] = Null]
              /\ alive' = alive \cup {dest}
              /\ peers' = (peers \ {Ring(source)})
                            \cup {(Ring(source) \ {source}) \cup {dest}, {source}}
              /\ moved' = (moved \/ Attached(source))
              /\ UNCHANGED halted

Next ==
  \/ \E p \in Places : Construct(p)
  \/ \E p, q \in Places : Append(p, q) \/ Prepend(p, q) \/ Move(p, q)

Spec == Init /\ [][Next]_vars

-----------------------------------------------------------------------------
\* Types of the pointers; peers and moved are history, no pointer depends on them.
TypeOK ==
  /\ next \in [Places -> Places \cup {Null}] /\ last \in [Places -> Places \cup {Null}]
  /\ alive \subseteq Places /\ halted \in BOOLEAN

Members == {p \in Places : next[p] # Null}

\* Walking next pointers never leaves the objects alive and never merges into
\* another walk: `next` permutes the members of the rings, so iterating over
\* AllNeighborsIncludingSelf comes back to where it began.
NextPermutes ==
  /\ Members \subseteq alive
  /\ \A p \in Members : next[p] \in Members
  /\ \A p, q \in Members : next[p] = next[q] => p = q

\* NextPermutes is inductive only because no Link is ever Corrupt (Append and
\* Prepend decide by Orphan) and no object is its own neighbour (a Move of one
\* that is would leave its new place pointing to the old).
IInv ==
  /\ TypeOK /\ NextPermutes
  /\ \A p \in Places : next[p] = Null <=> last[p] = Null
  /\ \A p \in Places : next[p] # p

\* A set that no next pointer leads out of.
Closed(S) == \A p \in S : next[p] \in S \cup {Null}

\* What AllNeighborsIncludingSelf visits, following next from p until it is back:
\* the least set with p that no next pointer leads out of.
Visited(p) == {q \in Places : \A S \in SUBSET Places : p \in S /\ Closed(S) => q \in S}

\* From any element, the iteration visits exactly those it was put in a ring with,
\* as long as no element of a ring has been moved.
NeighboursAreReachable == ~moved => \A p \in alive : Visited(p) = Ring(p)

\* Going one element on and one back ends at the start, whatever is appended or
\* prepended where.
LinkedBothWays == ~moved => \A p \in Members : last[next[p]] = p

\* Each ring that was asked for is one cycle of next pointers: nothing leads out of
\* it or out of a part of it.
RingInv ==
  /\ \A p \in alive : \E r \in peers : p \in r
  /\ \A r, s \in peers : r \cap s # {} => r = s
  /\ \A r \in peers :
       /\ r # {} /\ r \subseteq alive /\ Closed(r)
       /\ \A S \in SUBSET r : S # {} /\ Closed(S) => S = r
=============================================================================

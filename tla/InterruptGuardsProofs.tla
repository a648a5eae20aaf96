------------------------- MODULE InterruptGuardsProofs -------------------------
(***************************************************************************)
(* Sections are never interrupted and the interrupts come back, for any    *)
(* number of contexts and static variables, nested as deep as may be.      *)
(***************************************************************************)
EXTENDS InterruptGuards, SequenceTheorems, TLAPS

-----------------------------------------------------------------------------
\* What leaving a section restores, of the states r that the objects hold.
Saved(r, scope) == IF scope.keeper \in Objects THEN r[scope.keeper] ELSE scope.last

\* The strengthening.  An interrupt finds no section open, so all that are open
\* belong to who is running.  A handler reads "disabled" only, and so does whoever
\* enters a section within another; only what is outermost may enable them again,
\* and in the main program it does.  What the main program has read while nothing
\* was open is still right after an interrupt.
Inner ==
  /\ \A i \in 2 .. Len(open) : Saved(restore, open[i]) = FALSE
  /\ begin["main"] # NotBegun /\ open # <<>> /\ running = "main"
       => begin["main"].last = FALSE

InHandler ==
  /\ running = "handler" =>
       /\ ee = FALSE
       /\ begin["handler"] # NotBegun => begin["handler"].last = FALSE
       /\ \A i \in 1 .. Len(open) : Saved(restore, open[i]) = FALSE
  /\ running = "main" => begin["handler"] = NotBegun

Outermost ==
  reused = FALSE =>
    /\ begin["main"] # NotBegun /\ (running = "handler" \/ open = <<>>)
         => begin["main"].last = TRUE
    /\ running = "main" /\ open = <<>> => ee = TRUE
    /\ running = "main" /\ open # <<>> => Saved(restore, open[1]) = TRUE

Disabled == open # <<>> => ee = FALSE

IInv == TypeOK /\ Disabled /\ Inner /\ InHandler /\ Outermost

LEMMA InitIInv == Init => IInv
<1> SUFFICES ASSUME Init PROVE IInv
  OBVIOUS
<1> USE DEF Init, NotBegun
<1>1. TypeOK
  <2>1. open \in Seq(Scopes) /\ restore \in [Objects -> BOOLEAN] /\ begun \in Nat
    OBVIOUS
  <2>2. begin \in [{"main", "handler"} -> {NotBegun} \cup Scopes]
    OBVIOUS
  <2> QED
    BY <2>1, <2>2 DEF TypeOK
<1>2. Len(open) = 0 /\ open = <<>>
  OBVIOUS
<1>3. Disabled /\ Inner
  BY <1>2 DEF Disabled, Inner
<1>4. InHandler /\ Outermost
  BY DEF InHandler, Outermost
<1> QED
  BY <1>1, <1>3, <1>4 DEF IInv

\* What leaving an open section restores is a Boolean.
LEMMA RestoredType ==
  ASSUME TypeOK, NEW i \in 1 .. Len(open)
  PROVE  open[i] \in Scopes /\ Saved(restore, open[i]) \in BOOLEAN
<1>1. open[i] \in Scopes
  BY DEF TypeOK
<1>2. open[i].keeper \in Keepers /\ open[i].last \in BOOLEAN
  BY <1>1 DEF Scopes
<1> QED
  BY <1>1, <1>2 DEF TypeOK, Saved, Objects

LEMMA ReadKeeps ==
  ASSUME IInv, NEW keeper \in Keepers, ReadState(keeper)
  PROVE  IInv'
<1> USE DEF IInv
<1> DEFINE new == [keeper |-> keeper, last |-> ee]
<1>1. new \in Scopes /\ new.last = ee
  BY DEF TypeOK, Scopes
<1>2. running \in {"main", "handler"} /\ begin[running] = NotBegun /\ begun \in Nat
  BY DEF ReadState, TypeOK
<1>3. /\ begin' = [begin EXCEPT ![running] = new] /\ begun' = begun + 1
      /\ UNCHANGED <<ee, running, open, restore, pending, reused>>
  BY DEF ReadState
<1>4. begin' \in [{"main", "handler"} -> {NotBegun} \cup Scopes]
  BY <1>1, <1>2, <1>3 DEF TypeOK
<1>5. TypeOK'
  BY <1>2, <1>3, <1>4 DEF TypeOK
<1>6. /\ begin'[running] = new
      /\ \A who \in {"main", "handler"} : who # running => begin'[who] = begin[who]
  BY <1>2, <1>3 DEF TypeOK
<1>8. Disabled'
  BY <1>3 DEF Disabled
<1>9. Inner'
  BY <1>1, <1>2, <1>3, <1>6 DEF Inner, Disabled
<1>10. InHandler'
  BY <1>1, <1>2, <1>3, <1>6 DEF InHandler
<1>11. Outermost'
  BY <1>1, <1>2, <1>3, <1>6 DEF Outermost
<1> QED
  BY <1>5, <1>8, <1>9, <1>10, <1>11

\* What has been read becomes what the new innermost section restores; a section of
\* a context that is in use already restores that too, then.
LEMMA EnterKeeps ==
  ASSUME IInv, Enter
  PROVE  IInv'
<1> USE DEF IInv
<1> DEFINE b == begin[running]
           new == [keeper |-> b.keeper, last |-> b.last]
<1>1. running \in {"main", "handler"} /\ b # NotBegun
  BY DEF Enter, TypeOK
<1>2. b \in Scopes /\ b.keeper \in Keepers /\ b.last \in BOOLEAN /\ new \in Scopes
  BY <1>1 DEF TypeOK, Scopes
<1>3. /\ ee' = FALSE /\ open' = Append(open, new)
      /\ restore' = IF b.keeper \in Objects THEN [restore EXCEPT ![b.keeper] = b.last] ELSE restore
      /\ reused' = (reused \/ (b.keeper \in Objects /\ InUse(b.keeper)))
      /\ begin' = [begin EXCEPT ![running] = NotBegun]
      /\ UNCHANGED <<running, pending, begun>>
  BY DEF Enter
<1>4. restore' \in [Objects -> BOOLEAN]
  BY <1>2, <1>3 DEF TypeOK
<1>5. begin' \in [{"main", "handler"} -> {NotBegun} \cup Scopes]
  BY <1>1, <1>3 DEF TypeOK
<1>6. open' \in Seq(Scopes) /\ Len(open) \in Nat /\ Len(open') = Len(open) + 1
  BY <1>2, <1>3 DEF TypeOK
<1>7. reused' \in BOOLEAN
  BY <1>3 DEF TypeOK
<1>8. TypeOK'
  BY <1>3, <1>4, <1>5, <1>6, <1>7 DEF TypeOK
<1>9. /\ open'[Len(open) + 1] = new
      /\ \A i \in 1 .. Len(open) : open'[i] = open[i]
      /\ open' # <<>>
  BY <1>2, <1>3, <1>6 DEF TypeOK
<1>10. /\ begin'[running] = NotBegun
       /\ \A who \in {"main", "handler"} : who # running => begin'[who] = begin[who]
  BY <1>1, <1>3 DEF TypeOK
<1>11. Saved(restore', new) = b.last
  BY <1>2, <1>3 DEF TypeOK, Saved
<1>12. \A i \in 1 .. Len(open) :
         Saved(restore', open'[i]) = IF open[i].keeper = b.keeper /\ b.keeper \in Objects
                               THEN b.last ELSE Saved(restore, open[i])
  BY <1>2, <1>3, <1>9 DEF TypeOK, Saved
<1>13. open # <<>> => b.last = FALSE
  BY <1>1, <1>2 DEF Inner, InHandler, NotBegun
<1>14. Disabled'
  BY <1>3 DEF Disabled
<1>15. Inner'
  <2>1. ASSUME NEW i \in 2 .. Len(open')
        PROVE  Saved(restore', open'[i]) = FALSE
    <3>1. open # <<>> /\ b.last = FALSE
      BY <1>6, <1>13
    <3>2. CASE i = Len(open) + 1
      BY <1>9, <1>11, <3>1, <3>2
    <3>3. CASE i # Len(open) + 1
      <4>1. i \in 2 .. Len(open)
        BY <1>6, <3>3
      <4> QED
        BY <1>6, <1>12, <3>1, <4>1 DEF Inner
    <3> QED
      BY <3>2, <3>3
  <2> QED
    BY <2>1, <1>3, <1>10 DEF Inner
<1>16. InHandler'
  <2>1. ASSUME running = "handler", NEW i \in 1 .. Len(open')
        PROVE  Saved(restore', open'[i]) = FALSE
    <3>1. b.last = FALSE
      BY <1>1, <2>1 DEF InHandler
    <3>2. CASE i = Len(open) + 1
      BY <1>9, <1>11, <3>1, <3>2
    <3>3. CASE i # Len(open) + 1
      <4>1. i \in 1 .. Len(open)
        BY <1>6, <3>3
      <4> QED
        BY <1>12, <2>1, <3>1, <4>1 DEF InHandler
    <3> QED
      BY <3>2, <3>3
  <2> QED
    BY <2>1, <1>1, <1>3, <1>10 DEF InHandler
<1>17. Outermost'
  <2> SUFFICES ASSUME reused' = FALSE PROVE Outermost'
    BY DEF Outermost
  <2>1. reused = FALSE /\ (b.keeper \in Objects => ~InUse(b.keeper))
    BY <1>3 DEF TypeOK
  <2>2. running = "main" => Saved(restore', open'[1]) = TRUE
    <3>1. CASE open = <<>>
      BY <1>1, <1>9, <1>11, <2>1, <3>1 DEF Outermost
    <3>2. CASE open # <<>>
      <4>1. 1 \in 1 .. Len(open) /\ 1 \in DOMAIN open
        BY <3>2 DEF TypeOK
      <4> QED
        BY <1>12, <2>1, <3>2, <4>1 DEF Outermost, InUse
    <3> QED
      BY <3>1, <3>2
  <2> QED
    BY <1>1, <1>3, <1>9, <1>10, <2>1, <2>2 DEF Outermost
<1> QED
  BY <1>8, <1>14, <1>15, <1>16, <1>17

\* Only the outermost section of the main program enables the interrupts.
LEMMA LeaveKeeps ==
  ASSUME IInv, Leave
  PROVE  IInv'
<1> USE DEF IInv
<1> DEFINE n == Len(open)
<1>0. Len(open) \in Nat
  BY DEF TypeOK
<1>1. open \in Seq(Scopes) /\ n \in Nat /\ n > 0 /\ running \in {"main", "handler"}
  BY <1>0 DEF Leave, TypeOK
<1>2. /\ ee' = Saved(restore, open[n]) /\ open' = SubSeq(open, 1, n - 1)
      /\ begin[running] = NotBegun
      /\ UNCHANGED <<running, begin, restore, pending, begun, reused>>
  BY DEF Leave, Restored, Saved
<1>3. ee' \in BOOLEAN
  BY <1>1, <1>2, RestoredType
<1>4. /\ open' \in Seq(Scopes) /\ Len(open') = n - 1
      /\ \A i \in 1 .. n - 1 : open'[i] = open[i]
  <2> HIDE DEF n
  <2>1. \A i \in 1 .. n - 1 : open[i] \in Scopes
    BY <1>1 DEF n
  <2>2. n - 1 \in Int /\ 1 \in Int
    BY <1>1
  <2>3. /\ SubSeq(open, 1, n - 1) \in Seq(Scopes)
        /\ Len(SubSeq(open, 1, n - 1)) = IF 1 <= n - 1 THEN (n - 1) - 1 + 1 ELSE 0
        /\ \A i \in 1 .. (n - 1) - 1 + 1 : SubSeq(open, 1, n - 1)[i] = open[1 + i - 1]
    BY <2>1, <2>2, SubSeqProperties
  <2> QED
    BY <1>1, <1>2, <2>3
<1>5. TypeOK'
  BY <1>2, <1>3, <1>4 DEF TypeOK
<1>6. \A i \in 1 .. n - 1 : Saved(restore', open'[i]) = Saved(restore, open[i])
  BY <1>2, <1>4 DEF Saved
<1>7. open' = <<>> <=> n = 1
  BY <1>1, <1>4
<1>8. n # 1 => ee' = FALSE
  <2>1. n \in Nat /\ n > 0
    BY <1>1
  <2>2. n # 1 => n \in 2 .. n
    <3> HIDE DEF n
    <3> QED
      BY <2>1
  <2> QED
    BY <1>2, <2>2 DEF Inner
<1>9. Disabled'
  BY <1>7, <1>8 DEF Disabled
<1>10. Inner'
  BY <1>1, <1>2, <1>4, <1>6, <1>7 DEF Inner
<1>11. InHandler'
  BY <1>1, <1>2, <1>4, <1>6 DEF InHandler
<1>12. Outermost'
  BY <1>1, <1>2, <1>4, <1>6, <1>7 DEF Outermost
<1> QED
  BY <1>5, <1>9, <1>10, <1>11, <1>12

LEMMA RaiseKeeps ==
  ASSUME IInv, Raise
  PROVE  IInv'
<1> USE DEF IInv, Raise
<1>1. TypeOK'
  BY DEF TypeOK
<1> QED
  BY <1>1 DEF Disabled, Inner, InHandler, Outermost

\* No section is open when the handler starts, nor when it returns.
LEMMA InterruptKeeps ==
  ASSUME IInv, Interrupt
  PROVE  IInv'
<1> USE DEF IInv, Interrupt
<1>1. TypeOK'
  BY DEF TypeOK
<1>2. open = <<>> /\ open' = <<>> /\ Len(open') = 0
  BY DEF Disabled
<1> QED
  BY <1>1, <1>2 DEF Disabled, Inner, InHandler, Outermost

LEMMA ReturnKeeps ==
  ASSUME IInv, Return
  PROVE  IInv'
<1> USE DEF IInv, Return
<1>1. TypeOK'
  BY DEF TypeOK
<1>2. open' = <<>> /\ Len(open') = 0
  OBVIOUS
<1> QED
  BY <1>1, <1>2 DEF Disabled, Inner, InHandler, Outermost

\* The strengthened invariant holds in every reachable state.
THEOREM GuardsInvariance == Spec => []IInv
<1>1. IInv /\ [Next]_vars => IInv'
  <2> SUFFICES ASSUME IInv, [Next]_vars PROVE IInv'
    OBVIOUS
  <2>1. CASE UNCHANGED vars
    BY <2>1 DEF IInv, TypeOK, Disabled, Inner, InHandler, Outermost, vars
  <2>2. CASE Next
    BY <2>2, ReadKeeps, EnterKeeps, LeaveKeeps, RaiseKeeps, InterruptKeeps, ReturnKeeps
       DEF Next
  <2> QED
    BY <2>1, <2>2
<1> QED
  BY <1>1, InitIInv, PTL DEF Spec

\* The types.
THEOREM GuardsTyped == Spec => []TypeOK
<1>1. IInv => TypeOK
  BY DEF IInv
<1> QED
  BY <1>1, GuardsInvariance, PTL

\* No interrupt comes while a section of any kind is open (Critical,
\* CriticalContext::lock, __cxa_guard_acquire), however sections nest.
THEOREM NeverInterrupted == Spec => []SectionsUninterrupted
<1>1. IInv => SectionsUninterrupted
  BY DEF IInv, Disabled, SectionsUninterrupted
<1> QED
  BY <1>1, GuardsInvariance, PTL

\* As long as no context or guard is taken again while in use, the interrupts are
\* enabled again behind the outermost section, an interrupt between the reading of
\* the mask and its writing included.
THEOREM InterruptsComeBack == Spec => []MaskRestored
<1>1. IInv => MaskRestored
  BY DEF IInv, TypeOK, Outermost, MaskRestored
<1> QED
  BY <1>1, GuardsInvariance, PTL
=============================================================================

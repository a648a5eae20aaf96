---------------------------- MODULE InterruptGuards ----------------------------
(***************************************************************************)
(* Sections that run with interrupts disabled (core/sync.hxx) and the      *)
(* guards of static variables that the kernel offers to modules            *)
(* (Kernel/source/test.cxx).  The processor and an interrupt handler that  *)
(* uses the same sections are external.                                    *)
(*                                                                         *)
(* Entering a section is two steps, reading the machine state and writing  *)
(* it, between which an interrupt may come.                                *)
(***************************************************************************)
EXTENDS Naturals, Sequences

CONSTANTS
  Contexts,   \* CriticalContext objects
  Statics,    \* static variables with a guard
  MaxDepth,   \* sections that may be open at a time
  MaxSections \* sections that may be entered at all

ASSUME GuardAssumption ==
  /\ Contexts \cap Statics = {}
  /\ MaxDepth \in Nat /\ MaxSections \in Nat

\* What keeps the state to restore: a Critical of its own, on the stack, or one of
\* the objects that may be used again while in use.
CONSTANT Critical
ASSUME CriticalAssumption == Critical \notin Contexts \cup Statics

Objects == Contexts \cup Statics
Keepers == Objects \cup {Critical}

VARIABLES
  ee,      \* whether external interrupts are enabled
  running, \* "main" or "handler"
  begin,   \* of each of them, the section it is about to enter, and what it read
  open,    \* the open sections, the innermost last
  restore, \* of the contexts and guards, the state they restore
  pending, \* whether a device asks for an interrupt
  begun,   \* sections entered so far
  reused   \* whether a context or guard was taken again while it was in use

vars == <<ee, running, begin, open, restore, pending, begun, reused>>

NotBegun == <<>>

Init ==
  /\ ee = TRUE /\ running = "main" /\ pending = FALSE
  /\ begin = [who \in {"main", "handler"} |-> NotBegun]
  /\ open = <<>> /\ restore = [o \in Objects |-> FALSE]
  /\ begun = 0 /\ reused = FALSE

InUse(o) == \E i \in DOMAIN open : open[i].keeper = o

\* `last = getMachineState()`, or mfmsr in __cxa_guard_acquire.
ReadState(keeper) ==
  /\ begin[running] = NotBegun /\ Len(open) < MaxDepth /\ begun < MaxSections
  /\ begin' = [begin EXCEPT ![running] = [keeper |-> keeper, last |-> ee]]
  /\ begun' = begun + 1
  /\ UNCHANGED <<ee, running, open, restore, pending, reused>>

\* Mutant: the guard is taken with the interrupts as they are.
EnterWithoutDisabling ==
  LET b == begin[running] IN
  /\ b # NotBegun
  /\ ee' = IF b.keeper \in Statics THEN ee ELSE FALSE
  /\ open' = Append(open, [keeper |-> b.keeper, last |-> b.last])
  /\ restore' = IF b.keeper \in Objects THEN [restore EXCEPT ![b.keeper] = b.last] ELSE restore
  /\ reused' = (reused \/ (b.keeper \in Objects /\ InUse(b.keeper)))
  /\ begin' = [begin EXCEPT ![running] = NotBegun]
  /\ UNCHANGED <<running, pending, begun>>

\* The interrupts are disabled and what was read is kept: the constructor of
\* Critical, CriticalContext::lock, __cxa_guard_acquire.  The is_init that the last
\* of them clears is never set.
Enter ==
  LET b == begin[running] IN
  /\ b # NotBegun
  /\ ee' = FALSE
  /\ open' = Append(open, [keeper |-> b.keeper, last |-> b.last])
  /\ restore' = IF b.keeper \in Objects THEN [restore EXCEPT ![b.keeper] = b.last] ELSE restore
  /\ reused' = (reused \/ (b.keeper \in Objects /\ InUse(b.keeper)))
  /\ begin' = [begin EXCEPT ![running] = NotBegun]
  /\ UNCHANGED <<running, pending, begun>>

\* Mutant: the interrupts are enabled behind every section.
RestoredEnabling(scope) == TRUE

\* Mutant: a guard does not restore what it saved.
RestoredOnlyByContexts(scope) ==
  IF scope.keeper \in Objects THEN restore[scope.keeper] /\ scope.keeper \in Contexts ELSE scope.last

\* What leaving a section sets the interrupts to.
Restored(scope) == IF scope.keeper \in Objects THEN restore[scope.keeper] ELSE scope.last

\* The innermost section ends: the destructor of Critical, unlock,
\* __cxa_guard_release.
Leave ==
  /\ begin[running] = NotBegun /\ open # <<>>
  /\ ee' = Restored(open[Len(open)])
  /\ open' = SubSeq(open, 1, Len(open) - 1)
  /\ UNCHANGED <<running, begin, restore, pending, begun, reused>>

Raise ==
  /\ ~pending /\ pending' = TRUE
  /\ UNCHANGED <<ee, running, begin, open, restore, begun, reused>>

\* The processor takes an interrupt only when they are enabled, disables them,
\* and enables them when the handler returns.
Interrupt ==
  /\ pending /\ ee /\ running = "main"
  /\ running' = "handler" /\ ee' = FALSE /\ pending' = FALSE
  /\ UNCHANGED <<begin, open, restore, begun, reused>>

Return ==
  /\ running = "handler" /\ begin["handler"] = NotBegun /\ open = <<>>
  /\ running' = "main" /\ ee' = TRUE
  /\ UNCHANGED <<begin, open, restore, pending, begun, reused>>

Next ==
  \/ \E keeper \in Keepers : ReadState(keeper)
  \/ Enter \/ Leave \/ Raise \/ Interrupt \/ Return

\* What has begun goes on; the processor takes an interrupt that stays possible.
Spec ==
  /\ Init /\ [][Next]_vars
  /\ WF_vars(Enter) /\ WF_vars(Leave) /\ WF_vars(Interrupt) /\ WF_vars(Return)

-----------------------------------------------------------------------------
Scopes == [keeper : Keepers, last : BOOLEAN]

\* Types.
TypeOK ==
  /\ ee \in BOOLEAN /\ running \in {"main", "handler"}
  /\ begin \in [{"main", "handler"} -> {NotBegun} \cup Scopes]
  /\ open \in Seq(Scopes) /\ restore \in [Objects -> BOOLEAN]
  /\ pending \in BOOLEAN /\ begun \in Nat /\ reused \in BOOLEAN

\* No interrupt comes as long as any section is open: an inner section that ends,
\* of whatever kind, does not enable them for the outer one.
SectionsUninterrupted == open # <<>> => ~ee

\* When every section has ended the interrupts are enabled as they were before
\* the first, unless a context or a guard was taken again while in use.
MaskRestored == open = <<>> /\ running = "main" /\ ~reused => ee

\* What a device asks for is served in the end.
InterruptsServed == ([]~reused) => (pending ~> ~pending)
=============================================================================

-------------------------------- MODULE Overlay --------------------------------
(***************************************************************************)
(* What kx::auto_patch and KURIBO_PATCH_* (src/sdk/kuribo_sdk.h) promise,  *)
(* whoever keeps the words they overwrite: modules come and go, their      *)
(* patches lie over the game's own words, and a word is always the image   *)
(* of the topmost patch of its address that is switched on, worked out     *)
(* anew from the patches and never from words kept aside.                  *)
(***************************************************************************)
EXTENDS Integers

CONSTANTS
  Modules, Sites,
  Patches,
  Owner, Site, Level, Image,  \* functions on Patches; Level orders those of one site
  Original                    \* the game's own word

VARIABLES
  running,  \* the kernel has not given up
  present,  \* modules that may have patches switched on
  on,       \* the patches that are
  word      \* the words at Sites

vars == <<running, present, on, word>>

\* No patch of S lies over p.
Uppermost(p, S) == \A q \in S \ {p} : Site[q] = Site[p] => Level[q] < Level[p]

\* The word at a while the patches in S are switched on.
Shown(S, a) ==
  IF \E p \in S : Site[p] = a
  THEN Image[CHOOSE p \in S : Site[p] = a /\ Uppermost(p, S)]
  ELSE Original

Init == running = TRUE /\ present = {} /\ on = {} /\ word = [a \in Sites |-> Original]

\* From here on the patches in S are switched on.
Switch(S) ==
  /\ on' = S /\ word' = [a \in Sites |-> Shown(S, a)]
  /\ UNCHANGED <<running, present>>

\* A patch is switched on over those of its site, and off before those below it.
SwitchOn(p) ==
  /\ Owner[p] \in present /\ p \notin on /\ Uppermost(p, on)
  /\ Switch(on \cup {p})

SwitchOff(p) == p \in on /\ Uppermost(p, on) /\ Switch(on \ {p})

Enter(m) ==
  /\ m \notin present
  /\ present' = present \cup {m}
  /\ UNCHANGED <<running, on, word>>

\* A module is unloaded when none of its patches is left.
Leave(m) ==
  /\ m \in present /\ \A p \in on : Owner[p] # m
  /\ present' = present \ {m}
  /\ UNCHANGED <<running, on, word>>

\* OSFatal: memory stays as it is, and nobody is left to switch anything.
Halt ==
  /\ running' = FALSE /\ present' = {} /\ on' = {}
  /\ UNCHANGED word

Next ==
  /\ running
  /\ \/ \E p \in Patches : SwitchOn(p) \/ SwitchOff(p)
     \/ \E m \in Modules : Enter(m) \/ Leave(m)
     \/ Halt

Spec == Init /\ [][Next]_vars
=============================================================================

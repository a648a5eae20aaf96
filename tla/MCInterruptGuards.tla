-------------------------- MODULE MCInterruptGuards --------------------------
(***************************************************************************)
(* A context, a static variable, and sections three deep.                  *)
(***************************************************************************)
EXTENDS InterruptGuards
=============================================================================

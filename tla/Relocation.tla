------------------------------ MODULE Relocation ------------------------------
(***************************************************************************)
(* handleRelocation of the KXE loader (kxer/Loader.cxx): what a relocation *)
(* writes into the code, and, as the reference to check it against, which  *)
(* address the PowerPC makes of what was written.                          *)
(*                                                                         *)
(* A code section is a function from halfword indices to halfwords, high   *)
(* half first.  Widths are constants so that small ones can be enumerated. *)
(***************************************************************************)
EXTENDS Integers

CONSTANTS
  Half,    \* values of a halfword: 2^16
  Reach,   \* values of a 24-bit branch field and its two low bits: 2^26
  Branch,  \* the opcode of an unconditional branch: 0x48000000
  Table,   \* the symbol table as getProcedure sees it: symbol -> address, 0 when absent
  CodeBase \* where the loader puts the code

ASSUME WidthAssumption ==
  /\ Half \in Nat /\ Half % 8 = 0 /\ Half > 0
  /\ Reach \in Nat /\ Reach % Half = 0 /\ Reach > 0 /\ (Half * Half) % Reach = 0
  /\ Branch \in Nat /\ Branch % Reach = 0 /\ Branch < Half * Half

Full == Half * Half  \* values of a word

ASSUME AddressAssumption == Table \in [DOMAIN Table -> 0 .. Full - 1] /\ CodeBase \in Nat

HalfwordType == {"ADDR16", "ADDR16_LO", "ADDR16_HI", "ADDR16_HA"}
BranchType == {"ADDR24", "ADDR14", "REL24", "REL14"}
DataType == {"ADDR32", "REL32"}
SdaType == "EMB_SDA21"  \* 109
Types == HalfwordType \cup BranchType \cup DataType \cup {SdaType, "NONE"}

WordAt(code, at) == (code[at \div 2] * Half) + code[(at \div 2) + 1]

PutWord(code, at, w) ==
  [code EXCEPT ![at \div 2] = (w \div Half) % Half, ![(at \div 2) + 1] = w % Half]

\* Put the word-aligned part of v in the low bits of w up to m, sparing the two
\* lowest: (w & ~mask) | (v & mask).
Field(w, v, m) == (w \div m) * m + ((v % m) \div 4) * 4 + (w % 4)

\* Mutant: the high half as it is, without the carry of a negative low half.
HighAdjustedWithoutCarry(source) == source \div Half

\* Mutant: the carry is not cut to 16 bits.
HighAdjustedUnwrapped(source) ==
  (source \div Half) + (IF source % Half >= Half \div 2 THEN 1 ELSE 0)

\* R_PPC_ADDR16_HA: the high half that makes up for a negative low half.
HighAdjusted(source) ==
  ((source \div Half) + (IF source % Half >= Half \div 2 THEN 1 ELSE 0)) % Half

Halfword(type, source) ==
  CASE type \in {"ADDR16", "ADDR16_LO"} -> source % Half
    [] type = "ADDR16_HI"               -> source \div Half
    [] type = "ADDR16_HA"               -> HighAdjusted(source)

NewWord(type, w, source, affected) ==
  LET low == (source - affected) % Full
  IN  CASE type = "ADDR32" -> source
        [] type = "ADDR24" -> Field(w, source, Reach)
        [] type = "ADDR14" -> Field(w, source, Half)
        [] type = "REL24"  -> Field(w, low, Reach)
        [] type = "REL14"  -> Field(w, low, Half)
        [] type = "REL32"  -> low

\* Mutant: the way back leads to the relocated instruction itself.
TrampolineToAffected(source, affected, pad) ==
  [lis |-> source \div Half, displacement |-> source % Half,
   back |-> Branch + ((affected - (pad + 8)) % Reach)]

\* The trampoline at `pad` of an EMB_SDA21 relocation: `lis r12` with the high half
\* of the source, the instruction with r12 as its base and the low half as its
\* displacement, and a branch back behind the relocated instruction.
Trampoline(source, affected, pad) ==
  [lis |-> source \div Half, displacement |-> source % Half,
   back |-> Branch + (((affected + 4) - (pad + 8)) % Reach)]

\* What the relocation at `affected` does to the code; `pad` is where the next
\* trampoline goes.
Apply(code, type, at, affected, source, pad) ==
  CASE type = "NONE"            -> code
    [] type \in HalfwordType    -> [code EXCEPT ![at \div 2] = Halfword(type, source)]
    [] type = SdaType           -> PutWord(code, at, Branch + ((pad - affected) % Reach))
    [] OTHER -> PutWord(code, at, NewWord(type, WordAt(code, at), source, affected))

\* The halfwords that it writes.
Places(type, at) ==
  CASE type \in HalfwordType -> {at \div 2}
    [] type \in BranchType \cup DataType \cup {SdaType} -> {at \div 2, (at \div 2) + 1}
    [] OTHER -> {}

-----------------------------------------------------------------------------
\* The reference.  A displacement is a signed halfword, a branch field is signed.
Signed(v, m) == IF v >= m \div 2 THEN v - m ELSE v

Displaced(high, low) == ((high * Half) + Signed(low, Half)) % Full

\* Where a relative branch in word w at `affected` goes.
Goes(w, affected, m) == (affected + Signed((w % m) - (w % 4), m)) % Full

\* The address that the code denotes where the relocation was applied.  An
\* ADDR16_HA halfword is meant to be displaced by the low half of its source.
Denoted(code, type, at, affected, source) ==
  LET w == WordAt(code, at)
  IN  CASE type \in {"ADDR16", "ADDR16_LO"} -> ((source \div Half) * Half) + code[at \div 2]
        [] type = "ADDR16_HI" -> (code[at \div 2] * Half) + (source % Half)
        [] type = "ADDR16_HA" -> Displaced(code[at \div 2], source % Half)
        [] type = "ADDR32"    -> w
        [] type = "REL32"     -> (affected + w) % Full
        [] type = "ADDR24"    -> Signed((w % Reach) - (w % 4), Reach) % Full
        [] type = "ADDR14"    -> Signed((w % Half) - (w % 4), Half) % Full
        [] type = "REL24"     -> Goes(w, affected, Reach)
        [] type = "REL14"     -> Goes(w, affected, Half)

\* The addresses that a branch can express: word-aligned and, for a relative one,
\* near enough; an absolute one is a signed field.
Expressible(type, affected, source) ==
  LET near(m) == \E d \in -(m \div 2) .. m \div 2 - 1 : (affected + d) % Full = source
  IN  /\ type \in BranchType => source % 4 = 0
      /\ type = "REL24" => near(Reach)
      /\ type = "REL14" => near(Half)
      /\ type = "ADDR24" => Signed(source % Reach, Reach) % Full = source
      /\ type = "ADDR14" => Signed(source % Half, Half) % Full = source
=============================================================================

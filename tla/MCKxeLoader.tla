------------------------------ MODULE MCKxeLoader ------------------------------
(***************************************************************************)
(* Files for the loader: 4-bit halfwords, branch fields of 6 bits, a code  *)
(* section of three words at an address whose low half is negative as a    *)
(* displacement.                                                           *)
(***************************************************************************)
EXTENDS KxeLoader, TLC

Symmetry == Permutations(Blocks)

Good == [empty |-> FALSE, inside |-> TRUE, szs |-> FALSE]
None == [empty |-> TRUE, inside |-> TRUE, szs |-> FALSE]
\* With the addend 4: a low half that is positive, one that is negative, and one
\* whose carry leaves the high half.
MCTable == [f |-> 160, g |-> 148, edge |-> 244, missing |-> 0]

Reloc(t, at, section, offset) ==
  [type |-> t, at |-> at, section |-> section, offset |-> offset,
   symbol |-> "missing", addend |-> 4, inCode |-> TRUE]
Import(t, at, s) == [Reloc(t, at, "import", 0) EXCEPT !.symbol = s]

File(imports, relocs) ==
  [header |-> "ok", kmxe |-> 0, kernel |-> 0, code |-> Good, relocations |-> Good,
   imports |-> imports, words |-> [i \in 0 .. 5 |-> 1], relocs |-> relocs]

Plain == File(None, <<>>)

\* A high and a low half, a call and a branch in one file.
Linking(s) ==
  File(Good, <<Import("ADDR16_HA", 0, s), Import("REL24", 4, s),
               Import("ADDR16_LO", 2, s), Reloc("REL14", 8, "code", 0)>>)

Broken ==
  {[Plain EXCEPT !.header = "short"], [Plain EXCEPT !.header = "foreign"],
   [Plain EXCEPT !.kernel = 1], [Plain EXCEPT !.kmxe = 1],
   [Plain EXCEPT !.code.inside = FALSE], [Plain EXCEPT !.relocations.szs = TRUE],
   File([Good EXCEPT !.inside = FALSE], <<>>),
   File(None, <<Import("ADDR32", 0, "f")>>),
   File(Good, <<Reloc("REL32", 0, "code", 0), Reloc("NONE", 0, "raw", 0),
                Reloc("UNKNOWN", 0, "raw", 0)>>),
   File(Good, <<[Reloc("ADDR32", 0, "raw", 0) EXCEPT !.inCode = FALSE]>>)}

Sda == File(None, <<Reloc(SdaType, 0, "raw", 40), Reloc(SdaType, 8, "raw", 33)>>)

\* Every way to load one file after the other.
LoadFiles == Broken \cup {Plain, Sda} \cup {Linking(s) : s \in {"f", "g", "edge", "missing"}}

\* One relocation of each type to an address.
LinkedTypes == <<"ADDR16", "ADDR16_LO", "ADDR16_HI", "ADDR16_HA", "ADDR24", "ADDR14",
                 "REL24", "REL14", "ADDR32", "REL32">>
EachType(a) ==
  [File(Good, [i \in DOMAIN LinkedTypes |-> Reloc(LinkedTypes[i], 4 * i, "raw", a)])
     EXCEPT !.words = [i \in 0 .. 21 |-> 1]]

\* Any two files, or one that names some address of the memory in every way.
LoadDiscs == (LoadFiles \X LoadFiles) \cup {<<EachType(a)>> : a \in 0 .. Full - 1}

\* The files are such as the loader takes for granted.
ASSUME FitAssumption == Discs = LoadDiscs => FilesFit /\ PadsInReach
=============================================================================

------------------------------ MODULE MCConverter ------------------------------
(***************************************************************************)
(* Object files for the converter, in the 8-bit memory of MCKxeLoader: the *)
(* header is 40 bytes and files are aligned to 8.                          *)
(***************************************************************************)
EXTENDS Converter

S(name, type, align, words) ==
  [name |-> name, type |-> type, align |-> align, words |-> words, entries |-> <<>>]
Rela(name, entries) == [S(name, "RELA", 4, <<>>) EXCEPT !.entries = entries]

Null == S("", "NULL", 0, <<>>)
Text(size) == S(".text", "PROGBITS", 4, [i \in 1 .. size |-> 1])
Symtab == S(".symtab", "SYMTAB", 4, <<>>)

\* What may stand behind the code: data that is aligned in every way, zeros, and
\* what is left out.
Seconds ==
  {S(".data", "PROGBITS", align, <<2, 3>>) : align \in {0, 1, 8, 16}}
    \cup {S(".bss", "NOBITS", 8, <<0, 0>>), S(".eh_frame", "PROGBITS", 4, <<4, 4>>),
          S(".fini_array", "FINI_ARRAY", 4, <<5, 5>>)}
Thirds == {S(".rodata", "PROGBITS", 8, <<6, 7, 8, 9>>), S(".comment", "PROGBITS", 1, <<9>>)}

Sym(name, section, value) == [name |-> name, section |-> section, value |-> value]
Symbols ==
  <<Sym("here", 1, 4), Sym("there", 2, 0), Sym("beyond", 3, 4), Sym("fixed", SHN_ABS, 84),
    Sym("f", 0, 0), Sym("edge", 0, 0), Sym("u", 0, 0), Sym("gone", 0, 0), Sym("_start", 1, 4)>>

Names == {Symbols[i].name : i \in DOMAIN Symbols} \cup {"next", "__ctor_loc"}

MCTable == [s \in Names |-> CASE s = "f" -> 160 [] s = "edge" -> 244 [] OTHER -> 0]

Entry(type, offset, symbol, addend) ==
  [type |-> type, section |-> 1, offset |-> offset, symbol |-> symbol, addend |-> addend]

Input(sections, symbols) ==
  [arguments |-> 3, elf |-> TRUE,
   sections |-> [i \in 0 .. Len(sections) - 1 |-> sections[i + 1]],
   symbols |-> symbols,
   lines |-> <<[symbol |-> "u", length |-> 4, value |-> 152],
               [symbol |-> "f", length |-> 3, value |-> 0]>>,
   length |-> [s \in DOMAIN MCTable |-> IF s = "f" THEN 1 ELSE 4]]

Object(second, third, entries) ==
  Input(<<Null, Text(6), second, third, Rela(".rela.text", entries), Symtab>>, Symbols)

EachType ==
  {Object(second, S(".rodata", "PROGBITS", 8, <<6, 7, 8, 9>>),
          <<Entry(type, 4, symbol, addend)>>) :
     second \in Seconds,
     type \in Types \ {SdaType, "NONE"}, symbol \in 1 .. 7, addend \in {0, 4}}

\* Several relocations: the halves of an address, names that come again, one that
\* the kernel does not know, one against what was left out.
Halves(s) == <<Entry("ADDR16_HA", 0, s, 4), Entry("ADDR16_LO", 2, s, 4)>>
Several ==
  {Object(second, third, more \o Halves(s) \o more) :
     second \in {x \in Seconds : x.align # 16}, third \in Thirds, s \in 1 .. 8,
     more \in {<<Entry("REL24", 8, t, 0)>> : t \in 1 .. 8}
                \cup {<<Entry("NONE", 8, 1, 0)>>, <<Entry("ADDR32", 8, 10, 0)>>,
                      <<Entry("UNKNOWN", 8, 1, 0)>>}}

\* Constructors.
Ctors ==
  {Input(<<Null, Text(size), ctors, S(".data", "PROGBITS", 4, <<2, 2>>), Symtab,
           Rela(".rela.ctors", <<[Entry("ADDR32", 0, a, 0) EXCEPT !.section = 2],
                                 [Entry("ADDR32", 4, b, 4) EXCEPT !.section = 2]>>),
           Rela(".rela.text", <<Entry("ADDR16_HA", 0, 3, 0), Entry("ADDR16_LO", 2, 3, 0)>>),
           Rela(".rela.eh_frame", <<[Entry("ADDR32", 0, 1, 0) EXCEPT !.section = 3]>>)>>,
         <<Sym("here", 1, 0), Sym("next", 1, 4), Sym("__ctor_loc", 0, 0)>>) :
     size \in 2 .. 5, a \in 1 .. 2, b \in 1 .. 2,
     ctors \in {S(".ctors", "PROGBITS", 4, <<0, 0, 0, 0, 0, 0>>),
                S(".init_array", "INIT_ARRAY", 4, <<0, 0, 0, 0>>)}}

Called ==
  LET object == Object(Text(2), Text(2), Halves(5))
  IN  {[object EXCEPT !.arguments = k, !.elf = elf] : k \in 1 .. 3, elf \in BOOLEAN}
        \cup {Input(<<Null, Text(2)>>, <<>>),
              Input(<<Null, S(".init_array", "STRTAB", 4, <<>>), Symtab>>, <<>>),
              Input(<<Null, Text(2), Symtab>>, <<Sym("_start", SHN_ABS, 4)>>),
              Object(Text(2), Text(2), Halves(4) \o <<Entry("ADDR32", 8, 10, 0)>>)}

\* Code that reaches into the upper half of the memory, and more sections than an
\* index tells apart: what is in or about the last of them is taken for the first.
Large ==
  {Input(<<Null, Text(68), Rela(".rela.text", <<Entry("ADDR32", offset, 1, 0)>>), Symtab>>,
         Symbols) : offset \in {124, 128}}
Numerous ==
  {Input(<<Null, Text(6), Text(2), Text(2), Text(2), Text(2), Symtab,
           Rela(".rela.text", <<Entry("ADDR32", 0, a, 0),
                                [Entry("ADDR32", 0, 1, 0) EXCEPT !.section = section]>>),
           Text(2), Text(2)>>,
         <<Sym("here", 8, 0), Sym("next", 9, 0), Sym("f", 9, 0)>>) :
     a \in 1 .. 3, section \in 8 .. 9}

MCInputs == EachType \cup Several \cup Ctors \cup Called \cup Large \cup Numerous

\* The objects are such as the converter takes for granted.
ASSUME FitAssumption == Inputs = MCInputs => ObjectsFit /\ CtorsListed
=============================================================================

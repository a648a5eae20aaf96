------------------------------- MODULE Converter -------------------------------
(***************************************************************************)
(* KuriboConverter: an ELF object becomes a KXE file.  The sections are    *)
(* laid out in one code section, the relocations are rewritten against it, *)
(* those whose address is known are applied, the others are left to the    *)
(* loader.  The loader and the start-up code of the SDK are composed with  *)
(* it, so that what is checked is what the console runs.                   *)
(*                                                                         *)
(* Sections hold halfwords; offsets and sizes are in bytes.  What the      *)
(* loader has too (a state, a type invariant, ...) is named for the        *)
(* converter here, so that theorems can be about both.                     *)
(***************************************************************************)
EXTENDS Relocation, Sequences, FiniteSets, SequencesExt

CONSTANTS
  Inputs,     \* what the converter may be called with
  HeaderSize, \* the size of the KXE header, rounded up: 160
  FileAlign,  \* 32
  U8          \* 256: what a section index is cut to

SHN_ABS == 65521  \* the section index of an absolute symbol

SectionTypes ==
  {"NULL", "PROGBITS", "NOBITS", "INIT_ARRAY", "FINI_ARRAY", "SYMTAB", "RELA", "STRTAB"}

\* The header and the code in memory are aligned as the file is.
ASSUME AlignmentAssumption ==
  /\ HeaderSize \in Nat /\ FileAlign \in Nat \ {0} /\ FileAlign % 4 = 0
  /\ U8 \in Nat \ {0}
  /\ HeaderSize % FileAlign = 0 /\ CodeBase % FileAlign = 0 /\ Full % FileAlign = 0

Sections(object) == DOMAIN object.sections
SymbolNames(object) == {object.symbols[i].name : i \in DOMAIN object.symbols}

ASSUME InputAssumption ==
  \A object \in Inputs :
    /\ object.arguments \in 1 .. 3
    /\ object.elf \in BOOLEAN  \* whether the source is a 32-bit ELF file
    /\ IsFiniteSet(Sections(object)) /\ 0 \in Sections(object)
    /\ Sections(object) = 0 .. Cardinality(Sections(object)) - 1
    /\ object.sections[0].type = "NULL"
    /\ \A i \in Sections(object) : LET s == object.sections[i] IN
         /\ s.type \in SectionTypes /\ s.words \in Seq(0 .. Half - 1)
         /\ s.align \in Nat
         /\ s.align > 1 => s.align % 2 = 0
         /\ s.align \in 1 .. FileAlign => FileAlign % s.align = 0
         /\ s.entries \in Seq([type : {s.entries[j].type : j \in DOMAIN s.entries},
                               section : Sections(object), offset : Nat, symbol : Nat,
                               addend : Int])
    /\ object.symbols \in Seq([name : SymbolNames(object),
                               section : Sections(object) \cup {SHN_ABS},
                               value : 0 .. Full - 1])
    /\ SymbolNames(object) \subseteq DOMAIN Table
    /\ object.length \in [DOMAIN Table -> Nat]
    /\ object.lines \in Seq([symbol : {object.lines[i].symbol : i \in DOMAIN object.lines},
                             length : Nat, value : 0 .. Full - 1])

VARIABLES
  input,    \* the arguments, the ELF file, the lines of the symbol file
  stage,    \* the statement reached, or how it ended
  reached,  \* the section or relocation it is at
  explicit, \* mExplicitSymbols
  image,    \* the output behind the header: halfword index -> halfword
  offsets,  \* section_offsets: where in the file a section went, or Dropped
  maxAlign,
  header,
  relocs,
  imports,
  strings,  \* the imports section: for each entry where its string is said to be,
            \* and where it is
  memory    \* the code section in the console's memory

converterVars == <<input, stage, reached, explicit, image, offsets, maxAlign, header, relocs,
                  imports, strings, memory>>

Dropped == -1
Nothing == [section |-> "nothing", offset |-> 0]

roundUp(size, align) ==
  IF align = 0 THEN size ELSE ((size + align - 1) \div align) * align

\* buf.size()
FileSize(img) == HeaderSize + 2 * Cardinality(DOMAIN img)

\* buf.insert(buf.end(), words): a resize inserts zeros.
Extended(img, words) ==
  LET size == Cardinality(DOMAIN img)
  IN  [i \in 0 .. size + Len(words) - 1 |-> IF i < size THEN img[i] ELSE words[i - size + 1]]

Zeros(bytes) == [i \in 1 .. bytes \div 2 |-> 0]
Aligned(img, align) == Extended(img, Zeros(roundUp(FileSize(img), align) - FileSize(img)))

ConverterInit ==
  /\ input \in Inputs
  /\ stage = "arguments" /\ reached = 0
  /\ explicit = [s \in {"__ctor_loc", "__ctor_end"} |-> 0]
  /\ image = <<>> /\ offsets = <<>> /\ maxAlign = FileAlign
  /\ header = [code |-> <<0, 0>>, alignment |-> FileAlign, entry |-> 0]
  /\ relocs = <<>> /\ imports = <<>> /\ strings = <<>> /\ memory = <<>>

Stop(how) ==
  /\ stage' = how
  /\ UNCHANGED <<input, reached, explicit, image, offsets, maxAlign, header, relocs, imports,
                 strings, memory>>

\* Without a symbol file there is no argv[3] to read, yet one argument less is
\* enough to try: a string is made of a null pointer.
NullArgument == stage = "arguments" /\ input.arguments = 2 /\ Stop("crashed")

\* readSymbols.  A line counts when more than "=0x" follows the symbol.
readSymbols ==
  /\ stage = "arguments" /\ input.arguments # 2
  /\ LET lines == IF input.arguments = 3 THEN input.lines ELSE <<>>
         after[i \in 0 .. Len(lines)] ==
           IF i = 0 THEN explicit
           ELSE IF lines[i].length > 3
           THEN [s \in DOMAIN after[i - 1] \cup {lines[i].symbol} |->
                   IF s = lines[i].symbol THEN lines[i].value ELSE after[i - 1][s]]
           ELSE after[i - 1]
     IN  explicit' = after[Len(lines)]
  /\ stage' = IF input.elf THEN "collect" ELSE "failed"
  /\ UNCHANGED <<input, reached, image, offsets, maxAlign, header, relocs, imports, strings, memory>>

-----------------------------------------------------------------------------
\* Layout.
keep_section(s) ==
  /\ s.name \notin {".eh_frame", ".comment"}
  /\ s.name = ".init_array" \/ s.type \in {"PROGBITS", "NOBITS"}

IsSectionTypeCodeData(s) == s.type \in {"PROGBITS", "INIT_ARRAY", "FINI_ARRAY"}
IsSectionTypeBss(s) == s.type = "NOBITS"
IsSectionNameCtors(s) == s.name \in {".ctors", ".init_array"}

\* AppendSectionBytes
SectionBytes(s) == IF IsSectionTypeCodeData(s) THEN s.words ELSE Zeros(2 * Len(s.words))

\* Mutant: a section starts where the one before it ends.
PlaceUnaligned(s) == image

\* The image up to where the section goes.
Place(s) == Aligned(image, s.align)

\* Mutant: the constructors are said to start where the padding before them does.
CtorsFromPadding(s) == FileSize(image) - HeaderSize

CtorsFrom(s) == FileSize(Place(s)) - HeaderSize

\* One turn of collectSections.
CollectSection ==
  LET s == input.sections[reached]
  IN  /\ stage = "collect" /\ reached \in DOMAIN input.sections
      /\ \/ /\ ~keep_section(s)
            /\ offsets' = Append(offsets, Dropped)
            /\ reached' = reached + 1 /\ UNCHANGED <<stage, explicit, image, maxAlign>>
         \/ /\ keep_section(s) /\ (IsSectionTypeCodeData(s) \/ IsSectionTypeBss(s))
            /\ maxAlign' = IF s.align > maxAlign THEN s.align ELSE maxAlign
            /\ offsets' = Append(offsets, FileSize(Place(s)))
            /\ image' = Extended(Place(s), SectionBytes(s))
            /\ explicit' = IF ~IsSectionNameCtors(s) THEN explicit
                           ELSE [explicit EXCEPT !["__ctor_loc"] = CtorsFrom(s),
                                                 !["__ctor_end"] = FileSize(image') - HeaderSize]
            /\ reached' = reached + 1 /\ UNCHANGED stage
         \/ /\ keep_section(s) /\ ~IsSectionTypeCodeData(s) /\ ~IsSectionTypeBss(s)
            /\ stage' = "failed" /\ UNCHANGED <<reached, offsets, explicit, image, maxAlign>>
      /\ UNCHANGED <<input, header, relocs, imports, strings, memory>>

\* Where in the code section offset `value` of section i is.
InCode(i, value) == (offsets[i + 1] - HeaderSize + value) % Full

HasSymbolTable == \E i \in DOMAIN input.sections : input.sections[i].type = "SYMTAB"

\* The first symbol of the name.
Named(name) == SelectInSeq(input.symbols, LAMBDA s : s.name = name)

lookup(name) == IF HasSymbolTable THEN Named(name) ELSE 0

\* fillInCodeSection, the entry point and the search for the symbol table.  The
\* alignment has 8 bits; only values below that are enumerated.  An entry point
\* that is missing leaves 0; one that no section defines indexes section_offsets
\* with what is not a kept section.
FillInCodeSection ==
  LET start == IF lookup("_start") # 0 THEN lookup("_start") ELSE lookup("__start")
      sym   == input.symbols[start]
  IN  /\ stage = "collect" /\ reached \notin DOMAIN input.sections
      /\ image' = Aligned(image, FileAlign)
      /\ \E entry \in IF start = 0 THEN {header.entry}
                      ELSE IF sym.section = SHN_ABS THEN 0 .. Full - 1
                      ELSE {InCode(sym.section, sym.value)} :
           header' = [code |-> <<HeaderSize, FileSize(image')>>,
                      alignment |-> maxAlign, entry |-> entry]
      /\ reached' = 1
      /\ stage' = IF HasSymbolTable THEN "extract" ELSE "failed"
      /\ UNCHANGED <<input, explicit, offsets, maxAlign, relocs, imports, strings, memory>>

-----------------------------------------------------------------------------
\* Relocations.  All of them, in the order of the sections they are in, without
\* those of the frames.
EntriesOf(object) ==
  LET of(s) == IF s.type = "RELA" /\ s.name # ".rela.eh_frame" THEN s.entries ELSE <<>>
      upTo[i \in 0 .. Cardinality(Sections(object))] ==
        IF i = 0 THEN <<>> ELSE upTo[i - 1] \o of(object.sections[i - 1])
  IN  upTo[Cardinality(Sections(object))]

Entries == EntriesOf(input)

\* Mutant: a name that is known already is taken for the one added last.
ImportIndexOfLast(name) == IF Contains(imports, name) THEN Len(imports) - 1 ELSE Len(imports)

\* Mutant: a name is found by the position behind it.
ImportIndexFromOne(name) ==
  IF Contains(imports, name) THEN SelectInSeq(imports, LAMBDA s : s = name) ELSE Len(imports)

\* addExtern: the index of a name among the imports, where it is then.
ImportIndex(name) ==
  IF Contains(imports, name) THEN SelectInSeq(imports, LAMBDA s : s = name) - 1 ELSE Len(imports)

IsExtern(sym) == sym.section \in DOMAIN input.sections /\ input.sections[sym.section].type = "NULL"
IsImport(sym) == IsExtern(sym) /\ sym.name \notin DOMAIN explicit

\* The remapper, and before it the case of an absolute symbol.
Source(sym) ==
  IF sym.section = SHN_ABS THEN [section |-> "static", offset |-> sym.value]
  ELSE IF IsImport(sym) THEN [section |-> "import", offset |-> ImportIndex(sym.name)]
  ELSE IF IsExtern(sym) THEN [section |-> "static", offset |-> explicit[sym.name]]
  ELSE IF offsets[sym.section + 1] = Dropped THEN Nothing
  ELSE [section |-> "code", offset |-> InCode(sym.section, sym.value)]

\* A symbol as it is looked at: the index of its section is cut to 8 bits, unless it
\* is absolute.
Seen(sym) ==
  IF sym.section = SHN_ABS THEN sym ELSE [sym EXCEPT !.section = @ % U8]

\* One turn of processRelocationSection.  The index of the section that the
\* relocation is in is cut as well.  The name of an extern is added before the place
\* of the relocation is looked at.
ExtractRelocation ==
  LET e   == Entries[reached]
      sym == Seen(input.symbols[e.symbol])
      section == e.section % U8
      kept == Source(sym) # Nothing /\ offsets[section + 1] # Dropped
  IN  /\ stage = "extract" /\ reached <= Len(Entries)
      /\ \/ /\ e.type = "NONE" /\ reached' = reached + 1 /\ UNCHANGED <<stage, relocs, imports>>
         \/ /\ e.type # "NONE" /\ e.symbol \notin DOMAIN input.symbols
            /\ stage' = "failed" /\ UNCHANGED <<reached, relocs, imports>>
         \/ /\ e.type # "NONE" /\ e.symbol \in DOMAIN input.symbols
            /\ imports' = IF IsImport(sym) /\ ~Contains(imports, sym.name)
                          THEN Append(imports, sym.name) ELSE imports
            /\ relocs' = IF ~kept THEN relocs
                         ELSE Append(relocs, [type |-> e.type, at |-> InCode(section, e.offset),
                                              source |-> Source(sym), addend |-> e.addend])
            /\ reached' = reached + 1 /\ UNCHANGED stage
      /\ UNCHANGED <<input, explicit, image, offsets, maxAlign, header, strings, memory>>

StaticTypes == {"ADDR32", "ADDR24", "ADDR16", "ADDR16_LO", "ADDR16_HI", "ADDR16_HA", "ADDR14"}
IsStatic(r) == r.source.section = "static"
AppliedHere(r) == IsStatic(r) /\ r.type \in StaticTypes

Put(img, r) ==
  LET source == (r.source.offset + r.addend) % Full
      half(h) == [img EXCEPT ![r.at \div 2] = h]
      field(m) == PutWord(img, r.at, Field(WordAt(img, r.at), source, m))
  IN  CASE r.type = "ADDR32"                 -> PutWord(img, r.at, source)
        [] r.type = "ADDR24"                 -> field(Reach)
        [] r.type \in {"ADDR16", "ADDR16_LO"} -> half(source % Half)
        [] r.type = "ADDR16_HI"              -> half(source \div Half)
        [] r.type = "ADDR16_HA"              -> half(HighAdjusted(source))
        [] r.type = "ADDR14"                 -> field(Half)

\* Mutant: what is left keeps a section the loader does not know.
DeferredUnmarked == SelectSeq(relocs, LAMBDA r : ~AppliedHere(r))

\* What is left to the loader.
Deferred ==
  LET dynamic(r) == IF IsStatic(r) THEN [r EXCEPT !.source.section = "raw"] ELSE r
      upTo[i \in 0 .. Len(relocs)] ==
        IF i = 0 THEN <<>>
        ELSE IF AppliedHere(relocs[i]) THEN upTo[i - 1]
        ELSE Append(upTo[i - 1], dynamic(relocs[i]))
  IN  upTo[Len(relocs)]

ApplyExternRelocs ==
  LET after[i \in 0 .. Len(relocs)] ==
        IF i = 0 THEN image
        ELSE IF AppliedHere(relocs[i]) THEN Put(after[i - 1], relocs[i]) ELSE after[i - 1]
  IN  /\ stage = "extract" /\ reached > Len(Entries)
      /\ image' = after[Len(relocs)] /\ relocs' = Deferred
      /\ stage' = "write"
      /\ UNCHANGED <<input, reached, explicit, offsets, maxAlign, header, imports, strings, memory>>

-----------------------------------------------------------------------------
\* The file.
calcTableSize == 12 * Len(imports)

\* The bytes of the first i strings, each with its end.
Characters(i) ==
  LET sum[j \in 0 .. i] == IF j = 0 THEN 0 ELSE sum[j - 1] + input.length[imports[j]] + 1
  IN  sum[i]

\* Mutant: the ends of the strings are not counted.
SaidAtWithoutEnds(start, i) ==
  start + calcTableSize + Characters(i - 1) - (i - 1)

\* writeStringTable: where the table says the string is.
SaidAt(start, i) == start + calcTableSize + Characters(i - 1)

\* writeRelocationsSection and writeImportsSection.  A relocation is 16 bytes;
\* the strings are written behind the table one after the other.
WriteSections ==
  LET relocStart == roundUp(FileSize(image), FileAlign)
      relocEnd   == relocStart + 16 * Len(relocs)
      start      == roundUp(relocEnd, FileAlign)
      pool       == start + 12 * Cardinality(DOMAIN imports)
  IN  /\ stage = "write"
      /\ header' = [code |-> header.code, alignment |-> header.alignment, entry |-> header.entry,
                    relocations |-> <<relocStart, relocEnd>>,
                    imports |-> <<start, pool + Characters(Len(imports))>>]
      /\ strings' = [i \in DOMAIN imports |->
                       [said |-> SaidAt(start, i), is |-> pool + Characters(i - 1)]]
      /\ stage' = "written"
      /\ UNCHANGED <<input, reached, explicit, image, offsets, maxAlign, relocs, imports, memory>>

-----------------------------------------------------------------------------
\* The loader, to which an import is the entry of the string table at its index.
\* A name that the kernel does not know is refused, as is a type, and a place whose
\* offset has the sign bit.
AtLoad(r) ==
  CASE r.source.section = "code"   -> (CodeBase + r.source.offset + r.addend) % Full
    [] r.source.section = "raw"    -> (r.source.offset + r.addend) % Full
    [] r.source.section = "import" -> (Table[imports[r.source.offset + 1]] + r.addend) % Full

RefusedAtLoad(r) ==
  \/ r.type \notin Types
  \/ r.at >= Full \div 2
  \/ r.source.section = "import" /\ (r.source.offset \notin 0 .. Len(imports) - 1
                                     \/ Table[imports[r.source.offset + 1]] = 0)

Load ==
  LET after[i \in 0 .. Len(relocs)] ==
        IF i = 0 THEN image
        ELSE Apply(after[i - 1], relocs[i].type, relocs[i].at, CodeBase + relocs[i].at,
                   AtLoad(relocs[i]), 0)
  IN  /\ stage = "written"
      /\ IF \E i \in DOMAIN relocs : RefusedAtLoad(relocs[i])
         THEN stage' = "refused" /\ UNCHANGED memory
         ELSE stage' = "loaded" /\ memory' = after[Len(relocs)]
      /\ UNCHANGED <<input, reached, explicit, image, offsets, maxAlign, header, relocs, imports, strings>>

\* __kuribo_on_attach: the words from __ctor_loc up to __ctor_end or a null, each
\* called.  The two symbols are relative; start_addr is where the code is.
Attached ==
  LET from == explicit["__ctor_loc"]
      stop == explicit["__ctor_end"]
      at(j) == from + (4 * j)
      ends(j) == at(j) >= stop \/ WordAt(memory, at(j)) = 0
      count == CHOOSE j \in 0 .. stop : ends(j) /\ \A i \in 0 .. j - 1 : ~ends(i)
  IN  [j \in 1 .. count |-> WordAt(memory, at(j - 1))]

ConverterNext ==
  \/ NullArgument \/ readSymbols \/ CollectSection \/ FillInCodeSection
  \/ ExtractRelocation \/ ApplyExternRelocs \/ WriteSections \/ Load

ConverterSpec == ConverterInit /\ [][ConverterNext]_converterVars

-----------------------------------------------------------------------------
Kept == {i \in DOMAIN input.sections : i < Len(offsets) /\ offsets[i + 1] # Dropped}

\* Types.
ConverterTypeOK ==
  /\ input \in Inputs
  /\ stage \in {"arguments", "crashed", "failed", "collect", "extract", "write", "written",
             "loaded", "refused"}
  /\ image \in [DOMAIN image -> 0 .. Half - 1] /\ memory \in [DOMAIN memory -> 0 .. Half - 1]
  /\ \A i \in DOMAIN relocs :
       /\ relocs[i].source.section \in {"code", "static", "raw", "import"}
       /\ stage \in {"write", "written", "loaded", "refused"} => ~IsStatic(relocs[i])

\* The words of section i as they are in the image.
InImage(i, img) ==
  [w \in DOMAIN input.sections[i].words |-> img[((offsets[i + 1] - HeaderSize) \div 2) + w - 1]]

\* Every section that is kept is in the image unharmed, whatever was laid out
\* after it, and up to the alignment of the file its address in the console's
\* memory is aligned as it asked (collectSections, AppendSectionBytes).
SectionsLaidOut ==
  stage \in {"collect", "extract"} =>
    \A i \in Kept : LET s == input.sections[i] IN
      /\ InImage(i, image) = SectionBytes(s)
      /\ s.align \in 1 .. FileAlign => (CodeBase + InCode(i, 0)) % s.align = 0

\* What symbol `sym` means to the compiler: where its section came to be, the
\* address the symbol file gives, or the kernel's.
Meaning(sym) ==
  IF sym.section = SHN_ABS THEN sym.value
  ELSE IF IsImport(sym) THEN Table[sym.name]
  ELSE IF IsExtern(sym) THEN explicit[sym.name]
  ELSE CodeBase + InCode(sym.section, sym.value)

\* An 8-bit index tells the sections apart.
FewSections(object) == Cardinality(Sections(object)) <= U8

\* Offsets in the code are words.
InAddressSpace == 2 * Cardinality(DOMAIN image) <= Full

\* The code of the loaded module denotes, at each relocation of the ELF file
\* against something that was kept, the address of its symbol: no matter which
\* relocations the converter applied and which the loader, and in which order, as
\* long as an 8-bit index tells the sections apart.
\* (An EMB_SDA21 relocation is the loader's alone; KxeLoader says what it leads to.)
LoadedAsCompiled ==
  stage = "loaded" /\ FewSections(input) =>
    \A i \in DOMAIN Entries :
      LET e   == Entries[i]
          sym == input.symbols[e.symbol]
          at  == InCode(e.section, e.offset)
          to  == (Meaning(sym) + e.addend) % Full
      IN  (/\ InAddressSpace /\ e.type \notin {"NONE", SdaType} /\ e.section \in Kept
           /\ sym.section = SHN_ABS \/ IsExtern(sym) \/ sym.section \in Kept
           /\ Expressible(e.type, CodeBase + at, to)) =>
             Denoted(memory, e.type, at, CodeBase + at, to) = to

\* A module with no more sections than that is refused only for a name that the
\* kernel does not have, a kind of relocation that the loader does not, or a place in
\* the upper half of the address space, and only when it is in code or data that is
\* kept.
RefusedOnlyUnknown ==
  stage = "refused" /\ FewSections(input) =>
    \E i \in DOMAIN Entries :
      LET e   == Entries[i]
          sym == input.symbols[e.symbol]
      IN  /\ e.section \in Kept
          /\ \/ e.type \notin Types
             \/ IsImport(sym) /\ Table[sym.name] = 0
             \/ InCode(e.section, e.offset) >= Full \div 2

\* The sections of the file follow one another, and every entry of the string
\* table leads to its own string, inside the imports section, which is what
\* resolveBinaryString relies on.
FileIsReadable ==
  stage = "written" =>
    /\ header.code[2] <= header.relocations[1] /\ header.relocations[2] <= header.imports[1]
    /\ \A i \in DOMAIN strings :
         /\ strings[i].said = strings[i].is
         /\ strings[i].is + input.length[imports[i]] < header.imports[2]
         /\ calcTableSize <= strings[i].is - header.imports[1]

\* Sections of constructors, one of which a module has with either compiler.
CtorSections == {i \in Kept : IsSectionNameCtors(input.sections[i])}

\* When a module is attached, the start-up code of the SDK calls the constructors
\* that the module lists, in the order of their places, and nothing else: the two
\* symbols made up by the converter, applied as absolute addresses, enclose them.
ConstructorsRun ==
  stage = "loaded" /\ FewSections(input) =>
    \A i \in CtorSections :
      LET listed == {j \in DOMAIN Entries : Entries[j].section = i}
          to(j) == (Meaning(input.symbols[Entries[j].symbol]) + Entries[j].addend) % Full
          word(j) == (Entries[j].offset \div 4) + 1
      IN  (/\ CtorSections = {i} /\ InAddressSpace
           /\ \A j \in listed : to(j) # 0) =>
             /\ DOMAIN Attached = {word(j) : j \in listed}
             /\ \A j \in listed : Attached[word(j)] = to(j)

-----------------------------------------------------------------------------
\* What the converter relies on and does not check.  The place of a relocation is
\* inside its section, different relocations have no halfword in common, branches
\* are aligned, and a section keeps its alignment in the file ...
ObjectsFit ==
  \A object \in Inputs :
    LET entries == Range(EntriesOf(object))
        section(e) == object.sections[e.section]
    IN  /\ \A e \in entries : keep_section(section(e)) =>
             /\ Places(e.type, e.offset) \subseteq 0 .. Len(section(e).words) - 1
             /\ e.type \in BranchType =>
                  e.offset % 4 = 0 /\ section(e).align > 0 /\ section(e).align % 4 = 0
        /\ \A e, f \in entries : e.section = f.section /\ e # f /\ keep_section(section(e)) =>
             Places(e.type, e.offset) \cap Places(f.type, f.offset) = {}

\* ... and a section of constructors is one address after the other, up to its end
\* or a null.
CtorsListed ==
  \A object \in Inputs : \A i \in Sections(object) :
    LET s == object.sections[i]
        listed == {e \in Range(EntriesOf(object)) : e.section = i}
    IN  IsSectionNameCtors(s) /\ keep_section(s) =>
          /\ \A e \in listed :
               /\ e.type = "ADDR32" /\ e.symbol \in DOMAIN object.symbols
               /\ LET sym == object.symbols[e.symbol]
                  IN  sym.section \in Sections(object) =>
                        \/ object.sections[sym.section].type = "NULL"
                        \/ keep_section(object.sections[sym.section])
          /\ \E m \in 0 .. Len(s.words) \div 2 :
               /\ {e.offset : e \in listed} = {4 * j : j \in 0 .. m - 1}
               /\ \/ Len(s.words) = 2 * m
                  \/ /\ Len(s.words) >= 2 * m + 2
                     /\ SectionBytes(s)[2 * m + 1] = 0 /\ SectionBytes(s)[2 * m + 2] = 0
=============================================================================

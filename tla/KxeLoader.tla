------------------------------- MODULE KxeLoader -------------------------------
(***************************************************************************)
(* Reading and loading a KXE file (LoadModulesOffDisc, kxer::tryLoad and   *)
(* kxer::Load): the checks of the header, the sections copied into the     *)
(* module heap one after the other, any of which may fail, the relocations *)
(* in file order, and the unique_ptrs that own the blocks on the way.      *)
(***************************************************************************)
EXTENDS Relocation, Sequences, FiniteSets

CONSTANTS
  Discs,     \* what the Mods folder may hold: a set of sequences of files
  Blocks,    \* the blocks that the module heap can give
  Null,
  SystemRoom,\* bytes the system heap can give
  Pads,      \* where the trampolines are
  CoreVersion

\* A section is described by whether it is empty, lies inside the file, and is
\* compressed.
Section == [empty : BOOLEAN, inside : BOOLEAN, szs : BOOLEAN]

Files == UNION {{disc[n] : n \in DOMAIN disc} : disc \in Discs}

ASSUME FileAssumption ==
  /\ Discs \subseteq Seq(Files)
  /\ \A f \in Files :
       /\ f.header \in {"short", "foreign", "ok"} \* too short, no 'KXER', neither
       /\ f.kmxe \in Nat /\ f.kernel \in Nat
       /\ {f.code, f.relocations, f.imports} \subseteq Section
       /\ f.words \in [DOMAIN f.words -> 0 .. Half - 1]
       /\ f.relocs \in Seq({f.relocs[i] : i \in DOMAIN f.relocs})
       /\ \A i \in DOMAIN f.relocs :
            LET r == f.relocs[i]
            IN  /\ r.section \in {"code", "raw", "import", "other"}
                /\ r.at \in Nat /\ r.offset \in Int /\ r.addend \in Int
                /\ r.symbol \in DOMAIN Table /\ r.inCode \in BOOLEAN

ASSUME MemoryAssumption == Pads \in Nat /\ SystemRoom \in Nat /\ Null \notin Blocks

\* The unique_ptrs: the file buffer of LoadModulesOffDisc, the one that
\* decompressSection returns, and the locals of Load.
Pointers == {"kxmodule", "pBuf", "pCode", "pRelocs", "_imports", "pImports"}

VARIABLES
  disc,      \* the files in the order the directory iterator meets them
  pos,       \* the file it has reached
  pc,        \* the statement Load has reached
  taken,     \* the blocks of the module heap that are allocated
  ptr,       \* the block that each pointer holds
  code,      \* the copied code section
  k,         \* the relocation loop
  pads,      \* the trampolines written for this file
  result,    \* the LoadResult
  modules,   \* the LoadedKXE entries, each with the block its data points to
  leaked     \* bytes of the system heap taken for trampolines

vars == <<disc, pos, pc, taken, ptr, code, k, pads, result, modules, leaked>>

file == disc[pos]

Init ==
  /\ disc \in Discs /\ pos = 0 /\ pc = "idle"
  /\ taken = {} /\ ptr = [p \in Pointers |-> Null]
  /\ code = <<>> /\ k = 1 /\ pads = <<>>
  /\ result = "Success" /\ modules = <<>> /\ leaked = 0

HeapFull == Blocks \subseteq taken

\* A block of the heap goes to pointer p.
New(p) == \E b \in Blocks \ taken : taken' = taken \cup {b} /\ ptr' = [ptr EXCEPT ![p] = b]

\* Pointers go out of scope: what they hold is freed.
Destroy(S) ==
  /\ taken' = taken \ {ptr[p] : p \in S}
  /\ ptr' = [p \in Pointers |-> IF p \in S THEN Null ELSE ptr[p]]

\* Mutant: the pointer that was moved from still holds the block.
MoveKeepingSource(from, to) ==
  /\ taken' = taken \ {ptr[to]}
  /\ ptr' = [ptr EXCEPT ![to] = ptr[from]]

\* Moving one pointer into another frees what the other held and empties the first.
Move(from, to) ==
  /\ taken' = taken \ {ptr[to]}
  /\ ptr' = [ptr EXCEPT ![to] = ptr[from], ![from] = Null]

Fail(r) == result' = r /\ pc' = "return" /\ UNCHANGED <<code, k, pads>>

\* dvd::loadFile into a buffer of the module heap.
ReadFile ==
  /\ pc = "idle" /\ pos < Len(disc) /\ ~HeapFull
  /\ pos' = pos + 1 /\ New("kxmodule") /\ pc' = "header"
  /\ k' = 1 /\ pads' = <<>>
  /\ UNCHANGED <<disc, code, result, modules, leaked>>

\* A file that cannot be read, or for which there is no memory, is passed over.
SkipFile ==
  /\ pc = "idle" /\ pos < Len(disc)
  /\ pos' = pos + 1
  /\ UNCHANGED <<disc, pc, taken, ptr, code, k, pads, result, modules, leaked>>

CheckHeader ==
  /\ pc = "header"
  /\ \/ file.header = "short" /\ Fail("MalformedRequest")
     \/ file.header = "foreign" /\ Fail("InvalidFileType")
     \/ /\ file.header = "ok" /\ (file.kmxe # 0 \/ file.kernel > CoreVersion)
        /\ Fail("InvalidVersion")
     \/ /\ file.header = "ok" /\ file.kmxe = 0 /\ file.kernel <= CoreVersion
        /\ pc' = "code" /\ UNCHANGED <<code, k, pads, result>>
  /\ UNCHANGED <<disc, pos, taken, ptr, modules, leaked>>

\* decompressSection fails when the section exceeds the file or the heap is full,
\* and Load reports an invalid file ...
Allocate(here) ==
  /\ pc = here /\ ptr["pBuf"] = Null
  /\ here = "imports" => ~file.imports.empty
  /\ \/ /\ file[here].inside /\ New("pBuf")
        /\ UNCHANGED <<pc, code, k, pads, result>>
     \/ /\ ~file[here].inside \/ HeapFull
        /\ Fail("InvalidFile") /\ UNCHANGED <<taken, ptr>>
  /\ UNCHANGED <<disc, pos, modules, leaked>>

\* ... and when the section is compressed; otherwise its copy is returned.
Copy(here, to, then) ==
  /\ pc = here /\ ptr["pBuf"] # Null
  /\ \/ file[here].szs /\ Destroy({"pBuf"}) /\ Fail("InvalidFile")
     \/ /\ ~file[here].szs /\ Move("pBuf", to) /\ pc' = then
        /\ code' = IF here = "code" THEN file.words ELSE code
        /\ UNCHANGED <<k, pads, result>>
  /\ UNCHANGED <<disc, pos, modules, leaked>>

MoveImports ==
  /\ pc = "move imports" /\ Move("_imports", "pImports") /\ pc' = "trampolines"
  /\ UNCHANGED <<disc, pos, code, k, pads, result, modules, leaked>>

\* A file without imports has no imports section to copy.
NoImports ==
  /\ pc = "imports" /\ file.imports.empty
  /\ pc' = "trampolines"
  /\ UNCHANGED <<disc, pos, taken, ptr, code, k, pads, result, modules, leaked>>

\* new EvilReloc[n] from the system heap: 12 bytes each, 8 at least, and the
\* header.  Nothing ever frees them; when there is no room, the allocator stops.
AllocateTrampolines ==
  LET n    == Cardinality({i \in DOMAIN file.relocs : file.relocs[i].type = SdaType})
      size == 8 + IF 12 * n > 8 THEN 12 * n ELSE 8
  IN  /\ pc = "trampolines"
      /\ IF leaked + size <= SystemRoom
         THEN pc' = "relocate" /\ leaked' = leaked + size
         ELSE pc' = "halted" /\ UNCHANGED leaked
      /\ UNCHANGED <<disc, pos, taken, ptr, code, k, pads, result, modules>>

\* The addresses a relocation's source may turn out to be.  For a section other
\* than 0, 0xFD and 0xFF nothing assigns the variable.
Sources(r) ==
  CASE r.section = "code"   -> {(CodeBase + r.offset + r.addend) % Full}
    [] r.section = "raw"    -> {(r.offset + r.addend) % Full}
    [] r.section = "import" -> {(Table[r.symbol] + r.addend) % Full}
    [] r.section = "other"  -> 0 .. Full - 1

\* What handleRelocation refuses: an offset that is negative or in another
\* section than the code, an import without imports or not in the table, a type
\* it does not know.
Refused(r) ==
  \/ ~r.inCode
  \/ r.section = "import" /\ (file.imports.empty \/ Table[r.symbol] = 0)
  \/ r.type \notin Types

NextPad == Pads + 12 * Len(pads)

Relocate ==
  /\ pc = "relocate" /\ k <= Len(file.relocs)
  /\ LET r == file.relocs[k]
     IN  \/ Refused(r) /\ Fail("BadReloc")
         \/ /\ ~Refused(r)
            /\ \E source \in Sources(r) :
                 /\ code' = Apply(code, r.type, r.at, CodeBase + r.at, source, NextPad)
                 /\ pads' = IF r.type = SdaType
                            THEN Append(pads, Trampoline(source, CodeBase + r.at, NextPad))
                            ELSE pads
            /\ k' = k + 1 /\ UNCHANGED <<pc, result>>
  /\ UNCHANGED <<disc, pos, taken, ptr, modules, leaked>>

\* The code block moves into the data of the LoadedKXE.
Publish ==
  /\ pc = "relocate" /\ k > Len(file.relocs)
  /\ result' = "Success" /\ pc' = "return"
  /\ modules' = Append(modules, [file |-> file, code |-> code, pads |-> pads,
                                 data |-> ptr["pCode"]])
  /\ ptr' = [ptr EXCEPT !["pCode"] = Null]
  /\ UNCHANGED <<disc, pos, taken, code, k, pads, leaked>>

\* Load's pointers go out of scope.  Unless it was a success, OSFatal then ends the
\* program.
Return ==
  /\ pc = "return" /\ Destroy(Pointers \ {"kxmodule"})
  /\ pc' = IF result = "Success" THEN "loaded" ELSE "fatal"
  /\ UNCHANGED <<disc, pos, code, k, pads, result, modules, leaked>>

\* The file buffer goes out of scope at the end of the loop's body.
EndOfBody ==
  /\ pc = "loaded" /\ Destroy({"kxmodule"}) /\ pc' = "idle"
  /\ UNCHANGED <<disc, pos, code, k, pads, result, modules, leaked>>

\* Reload destroys the entries, and each frees its data.
Unload ==
  /\ pc = "idle" /\ pos = Len(disc)
  /\ taken' = taken \ {modules[m].data : m \in DOMAIN modules} /\ modules' = <<>>
  /\ UNCHANGED <<disc, pos, pc, ptr, code, k, pads, result, leaked>>

Next ==
  \/ ReadFile \/ SkipFile \/ CheckHeader
  \/ Allocate("code") \/ Copy("code", "pCode", "relocations")
  \/ Allocate("relocations") \/ Copy("relocations", "pRelocs", "imports")
  \/ Allocate("imports") \/ Copy("imports", "_imports", "move imports")
  \/ MoveImports \/ NoImports
  \/ AllocateTrampolines \/ Relocate \/ Publish \/ Return \/ EndOfBody \/ Unload

Spec == Init /\ [][Next]_vars

-----------------------------------------------------------------------------
PadType ==
  [lis : 0 .. Half - 1, displacement : 0 .. Half - 1, back : 0 .. Full - 1]

\* Types.  Every halfword written fits a halfword.
TypeOK ==
  /\ pc \in {"idle", "header", "code", "relocations", "imports", "move imports",
             "trampolines", "relocate", "return", "loaded", "fatal", "halted"}
  /\ disc \in Discs /\ pos \in 0 .. Len(disc)
  /\ taken \subseteq Blocks /\ ptr \in [Pointers -> Blocks \cup {Null}]
  /\ code \in [DOMAIN code -> 0 .. Half - 1]
  /\ \A i \in DOMAIN pads : pads[i] \in PadType
  /\ leaked \in 0 .. SystemRoom

\* Every block that is allocated has one owner, a pointer or a loaded module, and
\* nothing owns a block that was freed.  Between two files only loaded modules own
\* blocks; after a failure, besides, the pointer to the file that the error message is
\* about.
HeapBalanced ==
  /\ taken = ({ptr[p] : p \in Pointers} \ {Null})
               \cup {modules[m].data : m \in DOMAIN modules}
  /\ \A p, q \in Pointers : p # q /\ ptr[p] = ptr[q] => ptr[p] = Null
  /\ \A m \in DOMAIN modules :
       /\ \A p \in Pointers : modules[m].data # ptr[p]
       /\ \A n \in DOMAIN modules : modules[m].data = modules[n].data => m = n
  /\ pc = "idle" => \A p \in Pointers : ptr[p] = Null
  /\ pc = "fatal" => \A p \in Pointers \ {"kxmodule"} : ptr[p] = Null

Determined(r) == r.section # "other"

\* Opcode, AA and LK of the branch at `at`.
Instruction(c, type, at) ==
  LET w == WordAt(c, at)
  IN  <<w \div (IF type \in {"REL24", "ADDR24"} THEN Reach ELSE Half), w % 4>>

\* In code c of file f, relocation i denotes the address it names, and a branch is
\* still the same instruction.
Linked(c, f, i) ==
  LET r == f.relocs[i]
  IN  (Determined(r) /\ r.type \notin {"NONE", SdaType}) =>
        /\ \A source \in Sources(r) : Expressible(r.type, CodeBase + r.at, source) =>
             Denoted(c, r.type, r.at, CodeBase + r.at, source) = source
        /\ r.type \in BranchType =>
             Instruction(c, r.type, r.at) = Instruction(f.words, r.type, r.at)

\* The code of a loaded module denotes, at each of its relocations, the address
\* the relocation names, and a branch is still the same instruction, however the
\* relocations before and after it went.
LoadedIsLinked ==
  \A m \in DOMAIN modules : LET f == modules[m].file
    IN  \A i \in DOMAIN f.relocs : Linked(modules[m].code, f, i)

SdaRelocs(f) == {i \in DOMAIN f.relocs : f.relocs[i].type = SdaType}

\* Trampolines are handed out in the order of the relocations.
PadIndex(f, i) == Cardinality({j \in SdaRelocs(f) : j <= i})
PadAt(f, i) == Pads + 12 * (PadIndex(f, i) - 1)

\* Code c goes from EMB_SDA21 relocation i of file f to that relocation's own
\* trampoline among p, and from there to the instruction after.
Returns(c, p, f, i) ==
  LET trampoline == p[PadIndex(f, i)]
      affected == CodeBase + f.relocs[i].at
  IN  /\ Goes(WordAt(c, f.relocs[i].at), affected, Reach) = PadAt(f, i)
      /\ Determined(f.relocs[i]) =>
           \A source \in Sources(f.relocs[i]) : source % Half < Half \div 2 =>
             Displaced(trampoline.lis, trampoline.displacement) = source
      /\ Goes(trampoline.back, PadAt(f, i) + 8, Reach) = affected + 4

\* The code goes from each EMB_SDA21 relocation to that relocation's own
\* trampoline, which reaches the address the relocation names when the low half is
\* not negative as a displacement (the high half is not adjusted), and from there to
\* the instruction after.
TrampolineReturns ==
  \A m \in DOMAIN modules : LET f == modules[m].file
    IN  \A i \in SdaRelocs(f) : Returns(modules[m].code, modules[m].pads, f, i)

-----------------------------------------------------------------------------
\* What the loader relies on and does not check: the place of a relocation is inside
\* the code, no two have a halfword in common, branches are aligned ...
FilesFit ==
  \A f \in Files :
    LET place(i) == Places(f.relocs[i].type, f.relocs[i].at)
    IN  /\ \A i \in DOMAIN f.relocs :
             /\ place(i) \subseteq DOMAIN f.words
             /\ f.relocs[i].type \in BranchType \cup {SdaType} =>
                  (CodeBase + f.relocs[i].at) % 4 = 0
        /\ \A i, j \in DOMAIN f.relocs : i # j => place(i) \cap place(j) = {}

\* ... and the trampolines are aligned and as near to the code as a branch reaches.
PadsInReach ==
  /\ Pads % 4 = 0
  /\ \A f \in Files : \A i \in SdaRelocs(f) :
       LET affected == CodeBase + f.relocs[i].at
       IN  /\ affected + 4 < Full /\ PadAt(f, i) < Full
           /\ -(Reach \div 2) <= PadAt(f, i) - affected
           /\ PadAt(f, i) - affected <= (Reach \div 2) - 4
=============================================================================

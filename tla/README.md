# A verification project for Kuribo

Kuribo loads modules ("KXE" files) into a running GameCube or Wii game: a kernel
reads every file of the disc's `Kuribo!/Mods` folder, relocates and links it
against a table of symbols, and calls its entry point, which patches the game's
code, exports functions and runs initialisers. The game can later ask for a
reload, which undoes all of that. This directory holds TLA+ models of the parts
of that program whose correctness depends on order, on arithmetic at a boundary
or on long sequences of legal calls, the TLC configurations that check them, and
proofs that TLAPS checks. All paths below are relative to the repository.

## The system and its parts

| Part | State it keeps | Operations | What makes it correct |
|---|---|---|---|
| `FreeListAllocator`, `FreeListHeap` (`source/FallbackAllocator`) | a free list inside the buffer, headers in front of blocks, `m_used`, `m_peak` | `Allocate`, `Free` with `Coalescence` | no byte has two owners; what is freed can be used again; the list is sorted and merged; the count agrees with the blocks |
| Kernel (`source/Kernel/source/test.cxx`, `module.hxx`) | `spLoadedModules`, `sReloadPending`, the words of the game it and its modules overwrote | boot, load, attach, `QueueReload`, `HandleReload`, `Reload`, printing | nothing in the game leads into freed code; patches are undone; a reload asked for happens |
| SDK (`sdk/`) | per module: patch objects and their saved words, the copied context, the list of destructors | patches, exports, `on_load`, `on_unload`, switches | declarations take effect in order and are undone in the opposite order |
| `SymbolManager` (`source/LibKuribo/modules`) | an array of `[hash, value]` | register, look up the first | every importer of a name gets the same provider |
| KXE loader (`source/LibKuribo/modules/kxer`) | buffers in the module heap, the code being relocated | header checks, copies, relocations, trampolines | what is accepted is linked; every way out gives back what it took |
| `DLink` (`source/Common/util/list.hxx`) | a next and a last pointer in each object | append, prepend, move, iterate | from any element exactly its ring is reached |
| `mem::Heap`, kernel memory (`source/Common/memory`, `source/Kernel/source/system`) | which heap is the default | `Alloc`, `Free`, `operator new` | memory that overlaps nothing another caller holds |
| GeckoJIT (`source/GeckoJIT`) | a frame filled from both ends, open blocks of the code list | compile a list of Gecko codes | balanced blocks, no overlap of the two ends, branches that reach |
| Filesystem (`source/LibKuribo/filesystem.*`) | the node a path stands for, the place of an iterator in the disc's table | resolve, append, remove or replace a name, iterate a directory | agrees with the directory tree; iterations end |
| YAZ0 (`source/LibKuribo/compr.cxx`) | none | decode (exported to modules; the kernel does not call it) | agrees with the format |
| Guards (`source/Common/core/sync.hxx`, `__cxa_guard_*` in `Kernel/source/test.cxx`) | the saved interrupt mask, in an object or on the stack | enter, leave | no interrupt in a section; masks are restored in nested order |
| Converter (`Converter`) | the image being built, where each section went, symbols, imports, relocations | read symbols, lay out sections, extract and apply relocations, write a KXE | what is loaded means what was compiled; the file can be read |
| Rest | - | CRC32, canary, logging, platform code, tests, vendored EASTL, elfio, smol_json, libc | - |

How they interact. The kernel calls the loader, which takes memory from the module heap
(`Heap`) and from the system heap (a `FreeListHeap` of 1 KB) and asks the
`SymbolManager` for imports. The kernel then calls the module's `_start`, generated by
the SDK's macros, which calls back into `SymbolManager` and writes into the game's code.
The game in turn runs the modules' code, and through one hooked branch the kernel's
`HandleReload`. The files of the Mods folder are found by `Path` and
`RecursiveDirectoryIterator`, and were written by the converter, whose sections and
relocations are what the loader takes apart again. There is one thread, which interrupt
handlers may interrupt outside of guarded sections; what is hard is the order in which
modules, their declarations, the game and the kernel take turns, what is left after a
step that fails, and arithmetic in the allocator, the tables and the relocations.
Nothing is persisted, no messages are sent.

`PROJECT.json` lists every component, the hazards at their lines, the runs, the
mutants, the lines each definition models, the findings and the theorems.

## The modules

**`FreeListAllocator`** models `Allocate` (with `FIND_FIRST`), `Free` and
`Coalescence` on addresses, for requests of any size from 8 and any alignment from 8,
which is what the assertions of `Allocate` ask for. `freeList` is the linked
list as a sequence of nodes `[addr, size]`; `live` is the set of blocks in use,
each with what its header says (`header`, `blockSize` cut to 16 bits, `padding`
cut to 8) and, as history, the bytes it really takes (`start`, `end`) and the
request. A failed assertion is `halted`. `Reset` is the end of the constructor, its
only caller; nothing calls `AddFreeRegion`.

Nodes and headers live in the memory they describe. Two steps of the code write the
list into memory that is not the list's, and the model records this (`corrupt`) and
ends there, since what comes next depends on whose words the allocator reads: a split
that leaves less than a `Node`, and a `Free` that makes other bytes free than the block
took (`~Recorded`), because of its padding or because `blockSize` was cut. Both come
of requests the program makes. Take a heap at address 32, a request of 12 bytes (one
`EvilReloc`, `Loader.cxx:196`) and two of 8, all at alignment 8: the blocks are
[32, 52), [52, 72) with 4 bytes of padding, and [72, 88). Freeing the second makes the
node [56, 80), which covers the header of the third, and takes 24 off `m_used`, to
which 20 were added. In a heap of 64 bytes, requests of 12, 8 and 12 leave a rest of 4
bytes, into which a `Node` of 8 is written. The properties say what holds until then,
and that nothing else goes wrong.

**`FreeListHeap`** is the allocator as its callers see it, with the refinement to
**`Heap`**, the abstract interface (`heap.hxx`): memory that overlaps nothing another
caller holds. It also holds the inductive invariant.

**`Kernel`** models boot, loading, linking, attaching, the running game, reload
requests and unloading. What a module does is data (`Statics`, `Block`,
`Imports`); the actions interpret it as `_start` does, one declaration per step.
`mem` has one word per patched address, and a word is the game's own, the kernel's
hook, or the module and declaration that wrote it. `Stale` is the nondeterministic
content of pointers that `Inspect` and `Disable` leave uninitialised.

**`Overlay`** is what the SDK promises about patches, without the words the patches
save: modules enter and leave, their patches are switched one at a time, always the
uppermost of its address, a word is worked out from the patches that are on, and a
module leaves when none of its patches is. `Kernel` implements it (`ImplementsOverlay`):
`present` are the modules loaded and not disabled yet, `on` the declarations attached,
not detached, and not switched off (`On`), and `word` is memory without the hooked word.
What is attached and detached in between, and all of linking, exporting and requesting,
are steps of the kernel that `Overlay` does not see. When the kernel gives up (`OSFatal`)
memory stays as it is and there are no modules any more.

**`Relocation`** and **`KxeLoader`** model the loader: `Relocation` has what each
relocation type writes, on halfwords of a width given by constants, where code and the
kernel's procedures are, and a reference that says which address the processor makes of
what was written; `KxeLoader` has the statements of `Load` as actions, any of which may
fail. `taken` are the blocks of the module heap that are allocated, and `ptr` has the
block each `unique_ptr` on the way owns (`kxmodule` of the caller, `pBuf` of
`decompressSection`, the four of `Load`). They change as the class does: `Destroy` frees
what pointers hold when they go out of scope, `Move` empties the pointer moved from and
frees what the other held. What a loaded module owns is in its entry, and `Unload`
destroys the entries. The code sections of successive files lie at one address, which no
property compares across files.

**`DecentralizedList`** models `DLink` with its pointers, and as history the rings its
users asked for. What holds only until an element of a ring is moved (`BackIsBack`,
`RingInvariance`, `NeighboursVisited`) is stated under `~moved`.

**`GeckoCompiler`** models the Gecko JIT with one action per handler of a code:
`text` is the function being emitted, as instructions; `known` what the compiler
remembers of r14 and r15; `open` its stack of conditional blocks; `data` and `tail`
the high end of the frame, the low end being the length of `text`; `game` the
branches it writes into the game. **`GeckoCodes`** says what a list asks for, by
interpreting it code by code, and **`PowerPc`** what the emitted instructions do,
on bytes of `Byte` values. `PowerPc` is external to the repository, and so is the
behaviour of routines, which are taken to leave r14 and r15 to their caller as the
calling convention has it. Branches have the range of their displacement: `BranchTo` cuts
it to 26 bits, as `compileBranch` and `directBranchEx` do, which does not check whether
the target is in reach (`Clipped`, of hooks and of the ways back, cuts it to words too).
`dirty` says that the caller's memory was used before,
which matters where the compiler leaves a field unwritten. Two things the repository
does not say are taken from the code: the two bits of 08 give the size as
`compileStore` takes them, though it documents 1, 2 and 4; and hooks are installed
while compiling, whatever block they stand in. The packing of codes into words is left
out.

**`DiscFileSystem`** models the table of the disc as a function from indices to nodes,
in which a file's offset and size share their fields with a folder's parent and
`sibling_next`, as they do in memory. Paths and names are sequences of characters, with
a NUL behind a path. `pathCompare`, `Search`, `Compare` and `Turn` are the parts of the
loop of `resolvePath`, and `resolvePath` takes as many turns as the path has characters
at most; a `Path` is the index of its node, and the actions are its operations and the
`for` loop of `LoadModulesOffDisc` over an iterator. What reads behind the table is
`Wild`; where the build has assertions, `getChild` halts. The reference is the tree that
the table stands for (`Enclosing`, `Below`) and, for paths, `Denoted`, which splits them
at their slashes and follows them part by part; both are defined by ranges and minima
and not by the walk. Where the code takes a name for several parts of a path
(`Ambiguous`: an `O` counts as a slash), `ResolvesLikeTree` says nothing. Tables are
taken to be well nested, as the disc's mastering tools write them; nothing in `src/`
checks a table, and what a path behind it reads is `Wild`, as is what it reads when it
was cut behind its own end.

**`Converter`** models KuriboConverter from its arguments to the file, with one
action for each step: `readSymbols`, a turn of `collectSections`, `FillInCodeSection`,
a turn of `processRelocationSection`, `ApplyExternRelocs`, `WriteSections`. It shares
`Relocation` with the loader, and composes with it (`Load`) and with the SDK's
start-up code (`Attached`): the properties are about what the console runs. Sections
are halfwords, names and lengths are data of the input. Indices of sections are cut to 8
bits as the extractor cuts them (`Seen`, `U8`). `ObjectsFit` and `CtorsListed`
are what it relies on in an object and does not check. Its state and properties have
names of their own, not those of the loader, so that one module can prove about both.

**`InterruptGuards`** models `Critical`, `CriticalContext` and the `__cxa_guard`
functions, in the main program and in an interrupt handler, nested in any way.
Entering is two steps, the reading and the writing of the machine state, with room
for an interrupt between them, which the comment at `test.cxx:144` is worried about.
`reused` is history: a `CriticalContext` or guard was entered while in use.

The `MC*` modules give the constants their values; `ListLemmas` has the facts on
sequences, least numbers and recursive functions the proofs cite; `*Proofs` hold the
theorems.

## The runs

| Run | Checks | Bound |
|---|---|---|
| `FreeListHeap` | until the list is written into foreign memory: types, no overlap, nodes large enough, sorted and merged list, `m_used`, the refinement; what `Free` may lose | a buffer of 96 bytes, requests of 8, 12 and 24 at alignments of 8 and 16: up to six blocks, so that every split, merge with either neighbour and with both, and a full heap occur, with padding and without; `blockSize` short enough (below 40) that the longest blocks are cut |
| `KernelReload` | patches never dangle and are in effect, the kernel implements `Overlay` (so stacked ones are undone), imports agree, requests survive, reloads are served | three modules: two patch objects on one address, exports of one name by two modules and over a kernel name, a refusing module, two `OnUnload` functions that ask for another reload; `Capacity` is exactly the entries needed |
| `ListRings` | rings | six places under symmetry: two rings of three, or a ring and a place to move to |
| `DiscPaths` | paths agree with the tree, loops meet everything below a folder and end, parents enclose where files come first | every table of two entries with four names that differ in case, are confused (`1` and `Q`) or are `.`, and with five more, of which some begin with periods and one is `aOb`; of three with two names; of four with two alternating names; 35 paths of up to three parts with `.`, `..`, `.a`, `..a`, double and trailing slashes, and `a/b`, which `aOb` passes for |
| `Converting` | sections are unharmed and aligned, the loaded code means what was compiled, refusals, string table, constructors | objects of up to nine sections, and some of ten where an index tells nine apart: every relocation type against eight kinds of symbols with seven sections behind the code, five relocations with imports that come again, a type that the loader does not know, a symbol that is not in the table, constructors of both compilers behind code of every length, code that reaches into the upper half of the memory; the 8-bit memory of `KxeLoading` |
| `Guards` | sections are not interrupted, masks come back, devices are served | a context, a static variable and plain sections, three deep, five in all, before, in and after a handler; two of the three kinds nested in themselves |
| `KxeLoading` | every block has one owner, links, trampolines | any two of sixteen files; a module heap of four blocks, so that the second file finds it full half-way; 40 bytes of system heap; besides, one file with every relocation type for each of the 256 addresses that 4-bit halfwords make, with 6-bit branch fields |
| `GeckoCompiling` | compiled functions mean what their lists say, open blocks and hooks are right, blocks are apart | 2513 lists of up to eight codes: every two of 23, every three of 8, blocks with something before, in and after them, blocks in blocks; three memories, so that every condition holds in one and fails in another; bytes of 16 values, and addresses and values on both sides of each bound on an immediate; a frame that long lists overfill; branches of 14 bits, and a hook that they do not reach |

Deadlock is not checked (`CHECK_DEADLOCK FALSE`): every one of these programs
really stops, after a failed assertion, `OSFatal`, or when the bound on modules or
objects is reached.

The properties of `FreeListHeap` but `LossOnlyAboveLastNode` are about states that are
not `corrupt`. `HeapBalanced` says that the allocated blocks are those some pointer or
loaded module owns, each owned once: a block that is lost, freed twice or kept by two
violates it. `LoadedAsCompiled`, `RefusedOnlyUnknown` and `ConstructorsRun` are about
objects whose sections an 8-bit index tells apart. `HooksReturn` demands each of the two
ways that a branch reaches, of routines that begin at a word.

`CompiledMeansList` compares the whole effect of a function (memory, the registers it
owes its caller, whether it returns) with the interpretation of its list. It asks
nothing of lists that do not balance, of functions whose blocks have met them or that
are out of reach of a branch, of arrays `gecko_array` shows to be cut short, of arrays
that leave later blocks unaligned, and of comparisons with large values in dirty
memory; each of these is in the model and listed below or among the hazards.

Bounds the models add: the number of `Places` and of `Blocks`, and the widths `Half`,
`Reach`, `BranchSpan`, `U8`, `U16`, `USize`, `Byte`. In `fla_leak` the allocator's widths
are the real ones except `USize`, in `FreeListHeap` `U16` is small too; in the loader's,
the converter's and the compiler's runs they are small so that addresses, lengths and
indices can be enumerated, and every carry, cut and wrap-around of the real widths has
its counterpart.

Fairness. `DiscFileSystem` has it for the turns of a loop, which is straight-line
code. `InterruptGuards` has it for entering and leaving sections, for the return from
a handler, and for the processor taking an interrupt that stays possible; that whoever
holds a section leaves it is what every user in the repository does, on the way out of
a scope. `InterruptsServed` is about behaviours without `reused`. `Kernel` states
`WF_vars(Boot)` and `WF_vars(Reload)`. Booting
and unloading are straight-line code on one thread, and the hook is a branch in the
game's main loop, which the game runs in every frame. Nothing is assumed of the
modules: whether one ever asks for a reload is its own business. `ReloadServed`
holds because `GameCall` cannot run while modules are being unloaded and because
there are no modules left to make calls afterwards.

Runs that fail on purpose, each a place where the code does not do what a comment
or document of the repository says:

| Run | Shows | Said by |
|---|---|---|
| `fla_leak` | freeing a block above every free node loses it | "Insert it in a sorted position by the address number" |
| `kernel_example` | the SDK header's own example patches an address twice in its block, which runs top to bottom on unload too: a stale word is left | "Automatically reverted when the module is unloaded." |
| `gecko_array` | the last byte of an array of odd length is not written, a last halfword goes elsewhere | "Generates an array write" |
| `fs_parent` | the parent of a file listed behind a folder is that folder | "foo/bar -> foo/" |

More disagreements have no run of their own. The node made of a freed block with padding
reaches past the block, and `m_used` falls by the padding too much
(`FreeListAllocator.cxx:146`); a rest smaller than a `Node` is written into all the same
(`:42`); a block of 64 KB or more is freed as a short one (`:55`), in a heap of 646 KB
in the desktop build (`platform.cxx:45`). A moved element's successor still points to
the old place (`list.hxx:139`, "Prevent stale pointesr"). A relocation against a section
other than code is applied with a source nothing assigned (`Loader.cxx:72`; `Binary.hxx`
says "0 - code, 1 - data, 2 - bss"). A trampoline misses addresses with a negative low
half (`Loader.cxx:159`, and `TrampolineOnlyLowHalf` below). Two modules that patch one
address are disabled in load order (`test.cxx:102`), which leaves a word of the first
module as in `kernel_example`. Printing the modules copies a context with uninitialised
pointers over theirs (`module.hxx:14`; `Inspect` in `Kernel`), where `kuribo_sdk`'s API
says "kxGetProcedure, if available". A full module heap is reported as an invalid file,
and no path returns `BadAlloc` (`Loader.cxx:249`). The Gecko compiler returns a function
whose blocks overwrite it when the memory is too small, where `kuribo_jit.h` promises
NULL (`frame.hpp:41`); it leaves a field of CMPW as memory that is used again has it
(`compiler.cxx:161`, whose comment says "cmplw r14, r15"); a long array whose length is
not a multiple of four puts the routines after it at addresses that are no word's
(`compiler.cxx:288`); 28 tests the bits outside its mask, as Gecko codes do, where the
comment says "if ((*address & mask) == value)" (`compiler.cxx:471`); an unknown code
ends compilation with NULL and leaves the hooks installed so far, into memory the caller
takes to be free (`compiler.cxx:580`). With two arguments the converter makes a string
of a null pointer, though its usage text has `[symbols.txt]` in brackets
(`KuriboConverter.cpp:41`; `NullArgument`). Sections that ask for more than 32-byte
alignment are aligned in the file, where a header of 160 bytes comes first, and not in
the code (`Converter.cpp:298`). `keep_section` leaves `.fini_array` out (`:380`), though
`IsSectionTypeCodeData` provides for it (`:246`). The iterator's `end()` of a folder
that ends the table fails the assertion of `getChild` in builds that have assertions
(`filesystem.hxx:176`; `Walk`). `equalsIgnoreCase` takes any two characters 32 apart for
the same letter, and `pathCompare` looks at slashes as at any character: the folder
`aOb` is found for the path `a/b`, which is then cut behind its own end
(`filesystem.cxx:154`). A hook that is further than 32 MB from its routine leads
elsewhere (`patch.hxx:52`), though the code logs only distances that are no words. The
converter takes what is in or about the 257th section for the first
(`RelocationExtractor.cpp:59`). The guards of static variables never say that a variable
is built (`test.cxx:151`): it is built on every call. The YAZ0 decoder starts at the
header of its input instead of behind it (`compr.cxx:39`), compares where a run is
copied from with the start of the input and not of the output (`:63`), and returns ""
where `compr.hxx:93` says "returns nullptr if OK".

## What is proved

Every theorem is proved from `Spec` and the named assumptions of the module's
constants; where it needs more it says so in its hypotheses, which are listed here.

**`FreeListHeapProofs`**, for every buffer and every set of requests, of any size and
alignment, that satisfy the assertions of `Allocate` (`HeapAssumption`,
`RequestAssumption`), at every width of the header's fields.

- `TypeCorrect` (`[]TypeOK`), `Separation` (`[]NoOverlap`), `Implementation`
  (`Spec => ImplementsHeap`). `NoOverlap` is not inductive: `Allocate` writes a node into
  what is left of another, so nodes must lie in the buffer and hold their header
  (`GoodList`), and callers hold the data of blocks, so these must lie in them, aligned as
  asked (`GoodBlock`). `Invariance` proves that stronger `IInv`, which says `Intact` of
  every state that is not `corrupt`, one lemma per action. The refinement maps a block to
  the address and request its caller knows.
- `Sortedness` (`[]SortedAndCoalesced`), on top of `IInv`: `Free` inserts before the
  first node above the block, and since no two nodes shared a byte and none touched, only
  the new node can touch its neighbours, which are the two that `Coalescence` looks at.
- `NothingElseIsLost` (`Spec => LossOnlyAboveLastNode`): the bytes of a block that its
  header records are on the list again unless no node lies above the block. Inserting
  covers them and merging keeps them covered.
- `UsedCounts` (`[]UsedIsLive`): `m_used` is the number of bytes in live blocks. The sum
  is stated as the cardinality of the set of those bytes, so that one block more or less
  is a disjoint union, and the buffer's size bounds it, so that it never wraps.
- What ends these guarantees, and what keeps them. `PaddedBlocksComeBackLonger`: the node
  made of a padded block reaches past the block by twice the padding, and `m_used` is
  reduced by the padding more than it was raised. `GridKeepsListIntact`: with a buffer and
  requests that are multiples of 8, at alignment 8 and short enough for `blockSize`
  (`OnGrid`), the list is never `corrupt`, so that all of the above holds without
  condition. The invariant `GInv` says that nodes and blocks stay on the grid, where no
  block is padded. The loader's 12-byte records are not on it.

**`DecentralizedListProofs`**, for any set of places.

- `RingsStayRings` (`[]NextPermutes`), moves included: `next` permutes the members of
  the rings. The strengthening adds that both pointers of an object are null or neither
  is, and that no object is its own neighbour.
- `BackIsBack` (`[]LinkedBothWays`) and `NeighboursVisited`
  (`[]NeighboursAreReachable`), both until the first move: `last` inverts `next`, and
  iterating from an object visits exactly what it was linked with. What an iteration
  visits is stated without recursion, as the least set closed under `next` (`Visited`);
  the strengthening `RingInv` says that the rings the users asked for are closed under
  `next` and have no smaller closed part. Linking takes a ring apart at one place and
  puts an orphan there, so a closed part of the new ring gives one of the old.

**`InterruptGuardsProofs`**, for any set of objects and any depth: `NeverInterrupted`
(`[]SectionsUninterrupted`), `InterruptsComeBack` (`[]MaskRestored`) and the types. The
strengthening follows what each open section would restore: an inner one "disabled",
because its reader found it so (`Inner`); in a handler all of them (`InHandler`); the
outermost of the main program "enabled", and so what the main program has read but not
yet written when an interrupt comes (`Outermost`), since a handler returns with nothing
open.

**`KxeProofs`**: the loader, for every set of files.

- On the real widths (`RealWidths`: halfwords of 16 bits, branch fields of 26, opcode
  0x48000000), for all 2^32 addresses: `HighAdjustedIsRight`, the halves written by
  `R_PPC_ADDR16_HA` and `_LO` load the address; `TrampolineOnlyLowHalf`, a trampoline is
  right exactly when the low half is below 0x8000; and `RelocationDenotes`: where any of
  the ten relocation types was applied, over whatever the code was before, the processor
  finds the address that was named, as far as the type can express it.
- `NothingLeftInHeap` (`[]HeapBalanced`). The strengthening `OwnersInv` says at each
  statement of `Load` which pointers may own a block, and that `pCode` owns one from its
  copy until it moves into the module's entry.
- `TypeCorrect`, `CodeIsLinked` (`[]LoadedIsLinked`) under `RealWidths` and `FilesFit`,
  and `TrampolinesReturn` (`[]TrampolineReturns`) under `PadsInReach` too. The
  strengthening `LoadInv` follows the loop over the relocations: those already applied
  are linked, and stay so because relocations of one file lie at disjoint places, and
  each `EMB_SDA21` met so far has its own trampoline. `FilesFit` says that the places of
  relocations are inside the code and do not overlap, and that relocated branches are
  aligned; `PadsInReach`, that trampolines are aligned and within a branch of their code,
  as two blocks in the console's 24 MB of memory are. The loader checks none of this.

**`KxeProofs`** also: the converter, for every set of ELF objects and symbol files, every
symbol table of the kernel and every aligned place of the code (`InputAssumption`,
`AlignmentAssumption`, `AddressAssumption`).

- `SectionsAreLaidOut` (`[]SectionsLaidOut`). The strengthening `LayoutInv` says where
  each section lies (`OffsetsRight`: one behind the other, aligned in the file), that
  its bytes are there (`ContentsRight`), and that the symbols of the constructors
  enclose the last section of them (`SymbolsRight`).
- `RefusedOnlyForUnknown` (`[]RefusedOnlyUnknown`), for objects of at most 256 sections
  (`IndicesFit`), whose indices the 8 bits hold. The strengthening `RelocsInv` ties the
  relocations of the module to the entries of the ELF file, in both directions: each
  relocation stands for an entry (`Stands`: same type and place, and a source that the
  loader will take for what the symbol means), and each entry that is wanted (`Wanted`)
  has one, until the converter applies it. An import that comes again has the index it
  was given first (`ImportIndexIs`), and keeps it when others are added (`StandsStays`).
- `LoadedMeansCompiled` (`[]LoadedAsCompiled`), `ConverterTypeCorrect`
  (`[]ConverterTypeOK`) and `FilesAreReadable` (`[]FileIsReadable`), under `RealWidths`,
  `ObjectsFit` and `IndicesFit`. The strengthening `CodeInv` says of each entry that the
  code denotes its address already (`DoneIn`) or that a relocation for it is left, and
  that halfwords for which there is no entry are as they were compiled (`Untouched`).
  The converter's own switch writes what the loader's would (`PutIsApply`), so one lemma
  (`AllApplied`) is about both loops: applying a relocation does its entry
  (`RelocationDenotes`, the theorem about the loader) and undoes no other, because the
  places of relocations of one section are disjoint and sections do not meet
  (`PlacesApart`). `SourcesKnown` and `TypesKnown` are invariants of their own.
- `ConstructorsAreRun` (`[]ConstructorsRun`), under these and `CtorsListed`, from
  `LoadedMeansCompiled`'s invariant: each listed address is in its place, none is null,
  and behind the last is the end of the section or the null that `Untouched` preserves.

`ObjectsFit` says that the place of a relocation is inside its section, that different
relocations of a section share no halfword, and that branches are aligned, in sections
that ask for it. `CtorsListed` says that a section of constructors is one address after
the other from its start, up to its end or a null. Compilers and linkers write such
objects, the converter checks none of it; the inputs of `Converting` satisfy both
(`FitAssumption` of `MCConverter`). `LoadedAsCompiled` and `ConstructorsRun` are about
code of at most 2^32 bytes (`InAddressSpace`), since offsets are words, and about every
type but `EMB_SDA21`, for which `TrampolinesReturn` is.

**`KernelProofs`**, for every disc that holds a file once, all imports and all
declarations of modules.

- `LinkingIsStable` (`[]LinksAgree`). The strengthening says why modules agree: each
  import is bound to the first entry of the table under its name, which an entry
  registered later never displaces, and while modules are being loaded every entry is
  the kernel's or that of a module in the list.
- `RequestsSurvive` (`Spec => RequestOutlivesReload`) needs no invariant: of all steps
  only the hook of the main loop takes a request down, and it does not run while modules
  are unloaded.
- `NoPatchDangles`, `LastPatchRules`, `UnloadingReverts` (`[]NoDanglingPatch`,
  `[]PatchesInEffect`, `[]RevertedOnUnload`) under `PatchesNest`: several patches at one
  address are static objects of one module, of which only the last is switched while the
  game runs, and nothing patches the hooked word. The kernel does not check this, and
  `kernel_example` shows that without it the properties are false; TLC checks in
  `KernelReload` that the modules of the run satisfy it. The strengthening `PatchInv` is
  that the patches in effect at an address form a stack (`Stack`): the word in memory is
  the top one's, and each has saved the word of the one below, the lowest the game's.
  `RevertedOnUnload` is no property of `KernelReload`: `ImplementsOverlay` is, and a
  kernel of which all modules have left shows the game's words.
- `PatchesAreOverlays` (`Spec => ImplementsOverlay`), under the same premise and from
  the same invariant. The lemmas about the actions say what each does to the set of
  patches that are on (`Pushed`, `Popped`, or nothing) and to the modules that are there
  (`LoadModuleEnters`, `DisabledLeaves`, `ActiveStays`); `Stack` makes memory what
  `Overlay` works out (`MemoryShown`) before and after every step, so each action is
  `SwitchOn`, `SwitchOff`, `Enter`, `Leave`, `Halt` or a stutter (`StepRefines`).
- `TypeCorrect` (`[]TypeOK`) under `TableFits`: the modules export no more than
  `mEntries` has room for, which `registerProcedure` does not check.

That the kernel registers finitely many procedures is an assumption.

**`DiscFileSystemProofs`**, for every disc whose table is well nested
(`TableAssumption`: the ranges of folders nest, and a folder's parent is the folder
around it) and every path.

- `TypeCorrect` (`[]TypeOK`): what `resolvePath` leads to is an entry of the table,
  nothing, or behind the table, which `MakePath` tells apart. The strengthening
  `WalkInv` ties the iterator to the path: `seen` is the entries from the path's to
  `at`.
- `PathsLeadWhereTheyShould` (`[]ResolvesLikeTree`). A walk steps from an entry to the
  next of the same folder, and these are exactly the tree's, in the order of the table
  (`EntriesInTurn`); so the first that it stops at is the tree's first
  (`SearchFindsFirst`). Where no name passes for several parts, comparing a name with
  the rest of the path is comparing it with the first part (`Compared`), and cutting the
  path keeps this so (`Inherited`); so a turn of the loop does what the first part
  denotes (`TurnFollows`), and the whole loop what the path does (`PathsAgree`). The
  loop over the entries jumps forward, over whole folders, which `Jumping` of
  `ListLemmas` is about; the loop of `resolvePath` counts, for which there is
  `Iteration`.
- `LoopsVisitAll` (`[]VisitsEverythingBelow`). What is below a folder is the least set
  that holds its entries and theirs (`Below`), and this is the range of the folder
  (`BelowIsRange`), which the flat iterator goes through.
- `ParentsAreFound` (`Spec => ParentEncloses`): the nearest folder before a file is the
  one it is in, where folders list their files first. `fs_parent` shows the other case.

**`GeckoCompilerProofs`**, for every code list and memory size.

- `CompilerCorrect` (`[]CompiledMeansList`): running a finished function does to memory
  what its codes say, returns, and gives the caller its registers back. See below.
- `BlocksNeverOverlap` (`[]BlocksApart`) and `HooksAlwaysReturn` (`[]HooksReturn`). A new
  block misses the others because they lie above the end of the free memory, and a hook
  leads to its block when the block is at a word and the branch reaches it, since a cut to
  26 bits changes nothing then; `BlockInv` says both.
- `PlaceholdersNameOpenBlocks` (`[]PlaceholdersAreOpen`): the branches not yet filled in
  are those of the open blocks. The strengthening `TextInv` adds that the stack of open
  blocks names no branch twice, or closing a block would leave one that another still
  names, and that whatever a handler emits behind the function consists of instructions,
  so that no other word passes for a placeholder. The latter goes through every emitting
  function of the compiler, one lemma each; the loops of `compileArrayCopy` and
  `compileSerialWrite` go through `Iteration` of `ListLemmas`, which gives recursive
  functions over numbers their defining equation.
- `TypeCorrect` (`[]TypeOK`): operands fit their fields and what is remembered of r14 and
  r15 are words, for all addresses and values.

`CompilerCorrect` is a proof of compiler correctness in the usual way, with the emitted
instructions simulating the list. `CompiledMeansList` says nothing before a function is
done, so its strengthening `MeansInv` speaks of every way in which a function may be
completed (`Completes`: what has been emitted stays, and the branches of the open blocks
lead somewhere behind it; `Keeps`: so do the blocks). Under each of them the machine
follows the list as far as it has been compiled (`Follows`, `Level`). Either both run:
memory is the same but for the frame, in which the caller's registers are saved
(`Alike`), and r14 and r15 hold what the compiler knows of them (`Agrees`). Or the list
skips blocks, and the machine skips up to where the branch of the outermost of them
leads. There is a lemma for every function that emits instructions (`LoadRuns`,
`StoreRuns`, `TestRuns`, `CallRuns`, `SerialRuns`, ...: what the instructions do, split
by the ranges in which the compiler chooses one immediate or another) and one for every
code. Skipped codes keep the simulation because whatever they emit lies before the end of
the block, and `endif` because it fills in the branch of its own block, which `TextInv`
says, and forgets what is known of r14 and r15 in a block that may have been skipped.

Two hypotheses stand in `CompilerCorrect`, besides the premises of `CompiledMeansList`:

- `RealMachine`: a byte has 256 values, the stack frame has words for addresses and is
  apart from the observed memory, the memory of the compiler ends below 2^32 and is less
  than 32 MB long, so that calls of routines in it are in reach. Calls of `memset` and
  `memcpy`, which are in the kernel, are taken to be.
- `CodesBehave`: what a code reads or writes has words for addresses and is not in the
  frame of the function itself. Nothing in the repository checks this, and a code that
  writes to the frame may overwrite the saved link register.

TLC cannot evaluate `MeansInv`, which is about all completions; it checks
`CompiledMeansList` itself, on bytes of 16 values and lists that satisfy `CodesBehave`.

Assumed of the lists: operands fit the words of the codes, a routine has at least one
line, and a hooked instruction is aligned. Addresses are not bounded: that blocks and
function do not meet is what `FrameAllocator` fails to check (hence `Apart` in
`CompiledMeansList`).

Only model-checked: liveness (`ReloadServed`, `WalksEnd`, `InterruptsServed`), which
the prover does not reach. Every other property of a passing run is stated by a theorem.

## What is not modelled, and why

- `FIND_BEST`, which nothing selects and whose predecessor bookkeeping needs a model
  of `next` pointers, and `AddFreeRegion`, which nothing calls. What the allocator does
  once its list is `corrupt`.
- What is built under a `__cxa_guard`, `scoped_guard` beyond the switching it does,
  and the module's metadata.
- The YAZ0 decoder, which keeps no state: the kernel does not call it
  (`decompressSection` refuses compressed sections), and only exports it to modules
  (`test.cxx:183`), of which `examples/yaz0` calls it.
- The CRCs the converter writes, which nothing reads but for imports, where names
  stand for them; the byte order of what it writes.
- Collisions of CRC32 names in the symbol table: names stand for their hash.
- Data, bss and export sections of a KXE, which the loader ignores; the data
  relocations that overlap one another.
- The search for the video hook (`engine.cxx`) and the save states of the frame, which
  nothing calls.
- The wording of messages, logging, the instruction cache.
- The vendored libraries, tests, examples, build files and the Gecko code that loads
  the kernel.
- The parts planned below.

## Plan

Done: the allocator and its interface, the kernel with the SDK and the symbol table,
the loader, the intrusive list, the Gecko compiler, the disc's file system, the
converter composed with the loader, the interrupt guards, the kernel's patches as
overlays. Next: a pointer-level allocator with `FIND_BEST`, implementing
`FreeListAllocator`.

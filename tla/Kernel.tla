-------------------------------- MODULE Kernel --------------------------------
(***************************************************************************)
(* The life of modules in the Kuribo kernel (src/source/Kernel/source,     *)
(* src/source/LibKuribo/modules, src/sdk): comet_app_install loads every   *)
(* file of the Mods folder, links it against the symbol table and attaches *)
(* it; the game then runs with the patches in memory; HandleReload, hooked *)
(* into the game's main loop, detaches every module and frees its code.    *)
(*                                                                         *)
(* What a module does is data: its imports, its static objects in          *)
(* construction order, and the statements of its module block, both lists  *)
(* of the SDK's declarations (see Op).  Memory is one word per patched     *)
(* address.                                                                *)
(***************************************************************************)
EXTENDS Integers, Sequences, SequencesExt, FiniteSets

CONSTANTS
  Modules, Symbols, Addresses,
  Disc,           \* the modules in the order the directory iterator meets them
  Imports,        \* Imports[m]: symbols the relocations of m refer to
  Statics,        \* Statics[m]: static objects of m, in construction order
  Block,          \* Block[m]: statements of its KURIBO_MODULE_BEGIN block
  Refusing,       \* modules built for another core version: _start fails
  KernelSymbols,  \* what ExposeSdk and ExposeModules register
  Capacity,       \* mEntryCapacity
  HandlerAddress, \* where the game's main loop is hooked
  GameCalls,      \* kernel APIs that modules call while the game runs
  Kernel, Game, Unsaved, HandlerBranch \* model values

Apis == {"reload", "print", "install"}

\* PatchB, Patch32, KURIBO_PATCH_*: "patch"; one the module also toggles while
\* the game runs: "toggle"; OnLoad and KURIBO_EXECUTE_ON_LOAD: "load"; OnUnload
\* and KURIBO_EXECUTE_ON_UNLOAD: "unload".
Op ==
  [kind : {"patch", "toggle"}, addr : Addresses] \cup
  [kind : {"export"}, sym : Symbols] \cup
  [kind : {"load", "unload"}, api : Apis]

Exports(ops) == {i \in DOMAIN ops : ops[i].kind = "export"}

\* A directory holds a file once.
ASSUME ModuleAssumption ==
  /\ Disc \in Seq(Modules) /\ \A j, k \in DOMAIN Disc : Disc[j] = Disc[k] => j = k
  /\ Imports \in [Modules -> SUBSET Symbols]
  /\ \A m \in Modules :
       /\ Statics[m] \in Seq(Op) /\ Block[m] \in Seq(Op)
       /\ \A i \in DOMAIN Block[m] : Block[m][i].kind # "toggle"
  /\ Refusing \subseteq Modules
  /\ KernelSymbols \subseteq Symbols /\ IsFiniteSet(KernelSymbols)
  /\ HandlerAddress \in Addresses /\ GameCalls \subseteq Apis /\ Capacity \in Nat

VARIABLES
  phase,    \* what the kernel is doing
  file,     \* position of the directory iterator in Disc
  loaded,   \* spLoadedModules
  cur,      \* position of Reload's loop in loaded
  pc,       \* position of the module's _start in its declarations
  mem,      \* the words at Addresses
  saved,    \* mSave of a patch object, or the save word of a KURIBO_PATCH
  applied,  \* the <<m, i>> whose patch object has mApplied set
  table,    \* the symbol table: a sequence of [hash, value] entries
  linked,   \* linked[m][s]: the provider that relocating m bound s to
  ctx,      \* what get_procedure and register_procedure of __kuribo_ctx hold
  pending   \* sReloadPending

vars == <<phase, file, loaded, cur, pc, mem, saved, applied, table, linked, ctx, pending>>

\* A word of the stack that Inspect and Disable leave uninitialised in the
\* context they pass: still the kernel's pointer, zero, or anything else.
Stale == {"kernel", "null", "wild"}

-----------------------------------------------------------------------------
\* SymbolManager.  Nothing is ever removed, and the first entry wins.
Matches(s) == {i \in DOMAIN table : table[i].hash = s}

Known(s) == Matches(s) # {}

\* Mutant: the entry registered last wins.
ProcedureLast(s) == table[CHOOSE i \in Matches(s) : \A j \in Matches(s) : i >= j].value

Procedure(s) == table[CHOOSE i \in Matches(s) : \A j \in Matches(s) : i <= j].value

RegisterProcedure(s, provider) ==
  table' = Append(table, [hash |-> s, value |-> provider])

-----------------------------------------------------------------------------
Ops(m) == Statics[m] \o Block[m]
IsStatic(m, i) == i <= Len(Statics[m])
IsPatch(m, i) == Ops(m)[i].kind \in {"patch", "toggle"}

\* Mutant: static objects are destroyed in the order of their construction.
DetachOrderOfConstruction(m, i) == i

\* __kuribo_on_detach walks the list of static objects from the last one
\* registered; the block then runs from its top, as it did on load.
DetachOrder(m, i) == IF IsStatic(m, i) THEN Len(Statics[m]) + 1 - i ELSE i

\* The patches of the modules that _start does not refuse, as <<m, i>>.
PatchSites ==
  UNION {{<<m, i>> : i \in {j \in DOMAIN Ops(m) : IsPatch(m, j)}} : m \in Modules \ Refusing}

At(p) == Ops(p[1])[p[2]].addr

\* What the kernel asks of modules without checking it: no patch where the main loop
\* is hooked; several patches at one address are static objects of one module, and
\* of those only the last is switched while the game runs.
PatchesNest ==
  /\ \A p \in PatchSites : At(p) # HandlerAddress
  /\ \A p, q \in PatchSites :
       p # q /\ At(p) = At(q) =>
         /\ p[1] = q[1] /\ IsStatic(p[1], p[2]) /\ IsStatic(q[1], q[2])
         /\ p[2] < q[2] => Ops(p[1])[p[2]].kind = "patch"

\* The exports of the files that _start does not refuse, as <<position on the disc, i>>.
ExportSites ==
  UNION {{<<j, i>> : i \in Exports(Ops(Disc[j]))} :
           j \in {k \in DOMAIN Disc : Disc[k] \notin Refusing}}

\* Nor does it check that the symbol table has room for all of them.
TableFits == Cardinality(KernelSymbols) + Cardinality(ExportSites) <= Capacity

Word(m, i) == [mod |-> m, op |-> i]

\* Mutant: the word is saved after it was overwritten.
EnableSavingLate(m, i) ==
  /\ saved' = [saved EXCEPT ![m][i] = Word(m, i)]
  /\ mem' = [mem EXCEPT ![Ops(m)[i].addr] = Word(m, i)]
  /\ applied' = IF IsStatic(m, i) THEN applied \cup {<<m, i>>} ELSE applied

\* EnablePatch, and __kuribo_multipatch_write on attach.
Enable(m, i) ==
  LET a == Ops(m)[i].addr
  IN  /\ saved' = [saved EXCEPT ![m][i] = mem[a]]
      /\ mem' = [mem EXCEPT ![a] = Word(m, i)]
      /\ applied' = IF IsStatic(m, i) THEN applied \cup {<<m, i>>} ELSE applied

\* DisablePatch of a patch that is applied, and __kuribo_multipatch_write on
\* detach, which has no such guard.
Disable(m, i) ==
  IF IsStatic(m, i) /\ <<m, i>> \notin applied THEN UNCHANGED <<mem, saved, applied>>
  ELSE /\ mem' = [mem EXCEPT ![Ops(m)[i].addr] = saved[m][i]]
       /\ saved' = IF IsStatic(m, i) THEN [saved EXCEPT ![m][i] = Unsaved] ELSE saved
       /\ applied' = applied \ {<<m, i>>}

\* Inspect hands every loaded module a context with uninitialised pointers, and
\* _start copies it before it looks at the reason.
InspectAll ==
  \E g \in Stale :
    ctx' = [m \in Modules |-> IF m \in Range(loaded) \ Refusing THEN g ELSE ctx[m]]

\* QueueReload, PrintLoadedModules and SetEventHandlerAddress.
Call(api) ==
  \/ api = "reload" /\ pending' = TRUE /\ UNCHANGED <<mem, ctx>>
  \/ api = "print" /\ InspectAll /\ UNCHANGED <<mem, pending>>
  \/ /\ api = "install"
     /\ mem' = [mem EXCEPT ![HandlerAddress] = HandlerBranch]
     /\ UNCHANGED <<ctx, pending>>

-----------------------------------------------------------------------------
\* comet_app_install up to LoadModulesOffDisc.
Init ==
  /\ phase = "load" /\ file = 1
  /\ loaded = <<>> /\ cur = 1 /\ pc = 1
  /\ mem = [a \in Addresses |-> Game]
  /\ saved = [m \in Modules |-> [i \in DOMAIN Ops(m) |-> Unsaved]]
  /\ applied = {}
  /\ table = [i \in 1 .. Cardinality(KernelSymbols) |->
                [hash |-> SetToSeq(KernelSymbols)[i], value |-> Kernel]]
  /\ linked = [m \in Modules |-> [s \in Imports[m] |-> Unsaved]]
  /\ ctx = [m \in Modules |-> "null"]
  /\ pending = FALSE

\* The Mods folder does not exist: OSFatal.
NoModsFolder ==
  /\ phase = "load" /\ file = 1
  /\ phase' = "fatal"
  /\ UNCHANGED <<file, loaded, cur, pc, mem, saved, applied, table, linked, ctx, pending>>

\* dvd::loadFile returned nothing: the file is passed over.
SkipFile ==
  /\ phase = "load" /\ file <= Len(Disc)
  /\ file' = file + 1
  /\ UNCHANGED <<phase, loaded, cur, pc, mem, saved, applied, table, linked, ctx, pending>>

\* LoadModuleFile: emplace_back, Load with its relocations, DumpInfo, and the
\* call of _start that a module built for another core version refuses.
LoadModule(m) ==
  /\ phase = "load" /\ file <= Len(Disc) /\ m = Disc[file]
  /\ \A s \in Imports[m] : Known(s)
  /\ loaded' = Append(loaded, m)
  /\ linked' = [linked EXCEPT ![m] = [s \in Imports[m] |-> Procedure(s)]]
  /\ IF m \in Refusing THEN file' = file + 1 /\ UNCHANGED <<phase, pc, ctx>>
     ELSE /\ phase' = "attach" /\ pc' = 1
          /\ ctx' = [ctx EXCEPT ![m] = "kernel"]
          /\ UNCHANGED file
  /\ UNCHANGED <<cur, mem, saved, applied, table, pending>>

\* An unresolved import, or any other LoadResult than Success: OSFatal.  The
\* entry of emplace_back stays behind.
LoadFails(m) ==
  /\ phase = "load" /\ file <= Len(Disc) /\ m = Disc[file]
  /\ phase' = "fatal"
  /\ loaded' = Append(loaded, m)
  /\ UNCHANGED <<file, cur, pc, mem, saved, applied, table, linked, ctx, pending>>

StartGame ==
  /\ phase = "load" /\ file > Len(Disc)
  /\ phase' = "game"
  /\ UNCHANGED <<file, loaded, cur, pc, mem, saved, applied, table, linked, ctx, pending>>

-----------------------------------------------------------------------------
\* One declaration of the module being attached, in order: __kuribo_on_attach
\* and then the block.
Attaching(m, kinds) ==
  /\ phase = "attach" /\ m = Last(loaded)
  /\ pc <= Len(Ops(m)) /\ Ops(m)[pc].kind \in kinds
  /\ pc' = pc + 1
  /\ UNCHANGED <<file, loaded, cur, linked>>

AttachPatch(m) ==
  /\ Attaching(m, {"patch", "toggle"})
  /\ Enable(m, pc)
  /\ UNCHANGED <<phase, table, ctx, pending>>

\* export_as goes through the module's copy of the context, KURIBO_EXPORT_AS
\* through the one it was handed.
AttachExport(m) ==
  /\ Attaching(m, {"export"})
  /\ \/ /\ ~IsStatic(m, pc) \/ ctx[m] = "kernel"
        /\ RegisterProcedure(Ops(m)[pc].sym, m)
        /\ UNCHANGED phase
     \/ IsStatic(m, pc) /\ ctx[m] = "null" /\ UNCHANGED <<table, phase>>
     \/ IsStatic(m, pc) /\ ctx[m] = "wild" /\ phase' = "fatal" /\ UNCHANGED table
  /\ UNCHANGED <<mem, saved, applied, ctx, pending>>

AttachCall(m) ==
  /\ Attaching(m, {"load", "unload"})
  /\ IF Ops(m)[pc].kind = "load" THEN Call(Ops(m)[pc].api)
                                 ELSE UNCHANGED <<mem, ctx, pending>>
  /\ UNCHANGED <<phase, saved, applied, table>>

\* Mutant: the last declaration is left out.
AttachedEarly ==
  /\ phase = "attach" /\ pc >= Len(Ops(Last(loaded)))
  /\ phase' = "load" /\ file' = file + 1
  /\ UNCHANGED <<loaded, cur, pc, mem, saved, applied, table, linked, ctx, pending>>

Attached ==
  /\ phase = "attach" /\ pc > Len(Ops(Last(loaded)))
  /\ phase' = "load" /\ file' = file + 1
  /\ UNCHANGED <<loaded, cur, pc, mem, saved, applied, table, linked, ctx, pending>>

-----------------------------------------------------------------------------
\* Code of a loaded module runs as part of the game: it calls the kernel ...
GameCall(api) ==
  /\ phase = "game" /\ api \in GameCalls
  /\ Range(loaded) \ Refusing # {}
  /\ Call(api)
  /\ UNCHANGED <<phase, file, loaded, cur, pc, saved, applied, table, linked>>

\* ... or flips one of its patches, by set_enabled or a scoped_guard.
Toggle(m, i) ==
  /\ phase = "game" /\ m \in Range(loaded) \ Refusing
  /\ i \in DOMAIN Ops(m) /\ Ops(m)[i].kind = "toggle"
  /\ IF <<m, i>> \in applied THEN Disable(m, i) ELSE Enable(m, i)
  /\ UNCHANGED <<phase, file, loaded, cur, pc, table, linked, ctx, pending>>

Installed == mem[HandlerAddress] = HandlerBranch

\* Mutant: nothing clears the flag.
HandleReloadForever ==
  /\ phase = "game" /\ Installed /\ pending
  /\ phase' = "detach" /\ cur' = 1 /\ pc' = 0
  /\ UNCHANGED <<file, loaded, mem, saved, applied, table, linked, ctx, pending>>

\* The main loop runs into the hook.  The flag is cleared before Reload.
HandleReload ==
  /\ phase = "game" /\ Installed /\ pending
  /\ pending' = FALSE
  /\ phase' = "detach" /\ cur' = 1 /\ pc' = 0
  /\ UNCHANGED <<file, loaded, mem, saved, applied, table, linked, ctx>>

-----------------------------------------------------------------------------
\* Reload: modules::Disable of each module in the order of loading.
Disabling(m) == phase = "detach" /\ cur <= Len(loaded) /\ m = loaded[cur]

\* _start copies the context of Disable, or refuses.
BeginDisable(m) ==
  /\ Disabling(m) /\ pc = 0
  /\ IF m \in Refusing THEN cur' = cur + 1 /\ UNCHANGED <<pc, ctx>>
     ELSE /\ \E g \in Stale : ctx' = [ctx EXCEPT ![m] = g]
          /\ pc' = 1 /\ UNCHANGED cur
  /\ UNCHANGED <<phase, file, loaded, mem, saved, applied, table, linked, pending>>

Detaching(m, kinds) ==
  /\ Disabling(m) /\ pc \in DOMAIN Ops(m)
  /\ Ops(m)[DetachOrder(m, pc)].kind \in kinds
  /\ pc' = pc + 1
  /\ UNCHANGED <<phase, file, loaded, cur, linked>>

DetachPatch(m) ==
  /\ Detaching(m, {"patch", "toggle"})
  /\ Disable(m, DetachOrder(m, pc))
  /\ UNCHANGED <<table, ctx, pending>>

\* Mutant: KURIBO_EXPORT_AS without its test of __kuribo_attach.
DetachExportRegistering(m) ==
  /\ Detaching(m, {"export"})
  /\ RegisterProcedure(Ops(m)[DetachOrder(m, pc)].sym, m)
  /\ UNCHANGED <<mem, saved, applied, ctx, pending>>

\* ~export_as does nothing, and KURIBO_EXPORT_AS is for loading only.
DetachExport(m) ==
  /\ Detaching(m, {"export"})
  /\ UNCHANGED <<mem, saved, applied, table, ctx, pending>>

DetachCall(m) ==
  /\ Detaching(m, {"load", "unload"})
  /\ LET o == Ops(m)[DetachOrder(m, pc)]
     IN  IF o.kind = "unload" THEN Call(o.api) ELSE UNCHANGED <<mem, ctx, pending>>
  /\ UNCHANGED <<saved, applied, table>>

Disabled(m) ==
  /\ Disabling(m) /\ pc > Len(Ops(m))
  /\ cur' = cur + 1 /\ pc' = 0
  /\ UNCHANGED <<phase, file, loaded, mem, saved, applied, table, linked, ctx, pending>>

\* Mutant: the flag is cleared after Reload instead of before it.
ClearModulesAndRequest ==
  /\ phase = "detach" /\ cur > Len(loaded)
  /\ loaded' = <<>> /\ phase' = "game" /\ cur' = 1 /\ pc' = 1
  /\ pending' = FALSE
  /\ UNCHANGED <<file, mem, saved, applied, table, linked, ctx>>

\* spLoadedModules->clear() frees the code; loading again is commented out.
ClearModules ==
  /\ phase = "detach" /\ cur > Len(loaded)
  /\ loaded' = <<>> /\ phase' = "game" /\ cur' = 1 /\ pc' = 1
  /\ UNCHANGED <<file, mem, saved, applied, table, linked, ctx, pending>>

-----------------------------------------------------------------------------
Boot ==
  \/ NoModsFolder \/ SkipFile \/ StartGame \/ Attached
  \/ \E m \in Modules :
       LoadModule(m) \/ LoadFails(m) \/ AttachPatch(m) \/ AttachExport(m) \/ AttachCall(m)

Reload ==
  \/ HandleReload \/ ClearModules
  \/ \E m \in Modules :
       BeginDisable(m) \/ DetachPatch(m) \/ DetachExport(m) \/ DetachCall(m) \/ Disabled(m)

Next ==
  \/ Boot \/ Reload
  \/ \E api \in GameCalls : GameCall(api)
  \/ \E m \in Modules : \E i \in DOMAIN Ops(m) : Toggle(m, i)

Spec == Init /\ [][Next]_vars

\* Booting and unloading run to completion on the one thread they are on, and
\* the game's main loop comes back to the hook in every frame.
FairSpec == Spec /\ WF_vars(Boot) /\ WF_vars(Reload)

-----------------------------------------------------------------------------
Words == [mod : Modules, op : Nat] \cup {Game, HandlerBranch}

\* Types, and the one bound the code relies on without checking it: entries of
\* the symbol table stay inside mEntries.
TypeOK ==
  /\ phase \in {"load", "attach", "game", "detach", "fatal"}
  /\ loaded \in Seq(Modules) /\ applied \subseteq Modules \X Nat
  /\ file \in 1 .. Len(Disc) + 1 /\ cur \in 1 .. Len(loaded) + 1 /\ pc \in Nat
  /\ mem \in [Addresses -> Words]
  /\ \A m \in Modules : saved[m] \in [DOMAIN Ops(m) -> Words \cup {Unsaved}]
  /\ table \in Seq([hash : Symbols, value : Modules \cup {Kernel}])
  /\ Len(table) <= Capacity
  /\ \A m \in Modules : linked[m] \in [Imports[m] -> Modules \cup {Kernel, Unsaved}]
  /\ ctx \in [Modules -> Stale] /\ pending \in BOOLEAN

\* The modules whose patches may be in memory: those loaded and, while Reload
\* runs, not disabled yet.
Active ==
  {loaded[i] : i \in {j \in DOMAIN loaded : phase = "detach" => j >= cur}} \ Refusing

\* No word of the game's memory leads into a module that has been disabled or
\* freed.
NoDanglingPatch ==
  \A a \in Addresses : mem[a] \notin {Game, HandlerBranch} => mem[a].mod \in Active

\* The patches at address a that are switched on: <<position in loaded, op>>.
OnAt(a) ==
  UNION {{<<k, i>> : i \in {j \in DOMAIN Ops(loaded[k]) :
             /\ loaded[k] \notin Refusing
             /\ IsPatch(loaded[k], j) /\ Ops(loaded[k])[j].addr = a
             /\ IsStatic(loaded[k], j) => <<loaded[k], j>> \in applied}} : k \in DOMAIN loaded}

\* While the game runs, memory holds the last declared of the patches of an address
\* that their modules did not switch off.
PatchesInEffect ==
  phase = "game" =>
    \A a \in Addresses : OnAt(a) # {} =>
      \E p \in OnAt(a) :
        /\ mem[a] = Word(loaded[p[1]], p[2])
        /\ \A q \in OnAt(a) : q[1] < p[1] \/ (q[1] = p[1] /\ q[2] <= p[2])

\* A module's imports are bound to the kernel or to modules loaded before it,
\* and modules that import the same symbol share one provider, whatever was
\* exported under that name between their loads.
LinksAgree ==
  phase # "fatal" =>
    \A i \in DOMAIN loaded : \A s \in Imports[loaded[i]] :
      LET provider == linked[loaded[i]][s]
      IN  /\ provider = Kernel \/ \E j \in 1 .. i - 1 : provider = loaded[j]
          /\ \A k \in DOMAIN loaded :
               s \in Imports[loaded[k]] => linked[loaded[k]][s] = provider

\* A reload requested while modules are being unloaded (by an OnUnload function)
\* is still pending when the main loop next runs into the hook.
RequestOutlivesReload == [][phase = "detach" /\ pending => pending']_vars

\* Once a reload is requested and the hook is in place, every module is
\* eventually unloaded, requests made on the way included, for good.
ReloadServed == (pending /\ Installed /\ phase = "game") ~> [](loaded = <<>> /\ ~pending)

\* The SDK: a patch is "Automatically reverted when the module is unloaded".
\* With every module unloaded the game's own words are back.
RevertedOnUnload ==
  phase = "game" /\ loaded = <<>> => \A a \in Addresses : mem[a] \in {Game, HandlerBranch}

-----------------------------------------------------------------------------
\* The position of m among the loaded modules, with declaration i of m attached and
\* not detached again.
InEffect(m, i) ==
  \E k \in DOMAIN loaded :
    /\ loaded[k] = m
    /\ phase = "attach" /\ k = Len(loaded) => i < pc
    /\ phase = "detach" => k > cur \/ (k = cur /\ DetachOrder(m, i) >= pc)

\* The patches that are switched on.
On == {p \in PatchSites : InEffect(p[1], p[2]) /\ (IsStatic(p[1], p[2]) => p \in applied)}

Running == phase # "fatal"

O == INSTANCE Overlay WITH
  Sites <- Addresses \ {HandlerAddress},
  Patches <- PatchSites,
  Owner <- [p \in PatchSites |-> p[1]],
  Site <- [p \in PatchSites |-> At(p)],
  Level <- [p \in PatchSites |-> p[2]],
  Image <- [p \in PatchSites |-> Word(p[1], p[2])],
  Original <- Game,
  running <- Running,
  present <- IF Running THEN Active ELSE {},
  on <- IF Running THEN On ELSE {},
  word <- [a \in Addresses \ {HandlerAddress} |-> mem[a]]

\* A patch that is switched on, or off, in whatever way and whenever that is, changes
\* its word alone, to its image or to what lies below it now, not to what was saved
\* from there at some time; and a module is gone only when all its patches are off.
ImplementsOverlay == O!Spec
=============================================================================

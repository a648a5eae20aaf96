----------------------------- MODULE KernelProofs -----------------------------
(***************************************************************************)
(* What linking modules against the symbol table guarantees, whatever the  *)
(* modules on the disc, that no request to reload is lost, that the words  *)
(* the patches save make up overlays (Overlay), and the types.             *)
(***************************************************************************)
EXTENDS Kernel, ListLemmas, FiniteSetTheorems

Entry == [hash : Symbols, value : Modules \cup {Kernel}]

Linking == phase \in {"load", "attach"}

\* The provider of s is one that the module at position i can call: the kernel or
\* a module loaded before it.
Available(s, i) == Procedure(s) = Kernel \/ \E j \in 1 .. i - 1 : Procedure(s) = loaded[j]

\* LinksAgree does not say why modules share a provider: they are all bound to the
\* first entry of the table, which stays the first, and while modules are still
\* being loaded every entry is the kernel's or a loaded module's.
LinkInv ==
  /\ loaded \in Seq(Modules) /\ table \in Seq(Entry)
  /\ DOMAIN linked = Modules
  /\ phase = "attach" => loaded # <<>> /\ pc \in Nat \ {0}
  /\ Linking => \A i \in DOMAIN table : table[i].value \in Range(loaded) \cup {Kernel}
  /\ phase # "fatal" =>
       \A i \in DOMAIN loaded : \A s \in Imports[loaded[i]] :
         Known(s) /\ linked[loaded[i]][s] = Procedure(s) /\ Available(s, i)

-----------------------------------------------------------------------------
\* What getProcedure finds for a symbol of the table: the value of its first entry.
LEMMA ProcedureIsFirst ==
  ASSUME table \in Seq(Entry), NEW s, Known(s)
  PROVE  \E i \in Matches(s) : /\ \A j \in Matches(s) : i <= j
                               /\ Procedure(s) = table[i].value
<1>1. Matches(s) \in SUBSET Nat /\ Matches(s) # {}
  BY LenProperties DEF Matches, Known
<1>2. \E i \in Matches(s) : \A j \in Matches(s) : i <= j
  BY <1>1, LeastNumber
<1> QED BY <1>2 DEF Procedure

\* Registering a procedure changes what no known symbol resolves to.
LEMMA FirstEntryStays ==
  ASSUME table \in Seq(Entry), NEW e \in Entry, table' = Append(table, e),
         NEW s, Known(s)
  PROVE  Known(s)' /\ Procedure(s)' = Procedure(s)
<1>1. table' \in Seq(Entry) /\ Len(table') = Len(table) + 1
      /\ \A i \in 1 .. Len(table) : table'[i] = table[i]
  BY AppendProperties
<1>2. DOMAIN table = 1 .. Len(table) /\ DOMAIN table' = 1 .. Len(table) + 1
      /\ Len(table) \in Nat
  BY <1>1, LenProperties
<1>3. PICK i \in Matches(s) : /\ \A j \in Matches(s) : i <= j
                              /\ Procedure(s) = table[i].value
  BY ProcedureIsFirst
<1>4. Matches(s) \subseteq Matches(s)' /\ Matches(s)' \subseteq Matches(s) \cup {Len(table) + 1}
  BY <1>1, <1>2 DEF Matches
<1>5. i \in 1 .. Len(table) /\ table'[i] = table[i]
  BY <1>1, <1>2, <1>3 DEF Matches
<1>6. i \in Matches(s)' /\ \A j \in Matches(s)' : i <= j
  <2>1. i \in Matches(s)' /\ i \in Int /\ i <= Len(table) + 1
    BY <1>2, <1>3, <1>4, <1>5
  <2>2. ASSUME NEW j \in Matches(s)'
        PROVE  i <= j
    BY <1>3, <1>4, <2>1
  <2> QED BY <2>1, <2>2
<1>7. Known(s)'
  BY <1>6 DEF Known
<1>8. \E k \in Matches(s)' : /\ \A j \in Matches(s)' : k <= j
                             /\ Procedure(s)' = table'[k].value
  <2>1. \E k \in Matches(s)' : \A j \in Matches(s)' : k <= j
    BY <1>6
  <2> QED BY <2>1 DEF Procedure
<1>9. Matches(s)' \subseteq Nat
  BY <1>2 DEF Matches
<1>10. PICK k \in Matches(s)' : /\ \A j \in Matches(s)' : k <= j
                                /\ Procedure(s)' = table'[k].value
  BY <1>8
<1>11. k = i
  BY <1>6, <1>9, <1>10
<1> QED BY <1>3, <1>5, <1>7, <1>10, <1>11
-----------------------------------------------------------------------------
\* Before the first module is loaded the table holds the kernel's own procedures.
LEMMA InitLinks == Init => LinkInv
<1> SUFFICES ASSUME Init PROVE LinkInv
  OBVIOUS
<1> DEFINE n == Cardinality(KernelSymbols)
           names == SetToSeq(KernelSymbols)
<1>1. KernelSymbols \subseteq Symbols /\ IsFiniteSet(KernelSymbols)
  BY ModuleAssumption
<1>2. n \in Nat /\ ExistsBijection(1 .. n, KernelSymbols)
  BY <1>1, FS_CardinalityType
<1>3. \E f \in [1 .. n -> KernelSymbols] : IsInjective(f)
  BY <1>2 DEF ExistsBijection, Bijection, Injection
<1>4. names \in [1 .. n -> KernelSymbols]
  BY <1>3 DEF SetToSeq
<1>5. table = [i \in 1 .. n |-> [hash |-> names[i], value |-> Kernel]]
  BY DEF Init
<1> HIDE DEF n, names
<1>6. table \in [1 .. n -> Entry]
  BY <1>1, <1>4, <1>5 DEF Entry
<1>7. table \in Seq(Entry)
  BY <1>2, <1>6, IsASeq
<1>8. \A i \in DOMAIN table : table[i].value = Kernel
  BY <1>5
<1>9. /\ phase = "load" /\ loaded = <<>>
      /\ linked = [m \in Modules |-> [s \in Imports[m] |-> Unsaved]]
  BY DEF Init
<1>10. loaded \in Seq(Modules) /\ DOMAIN loaded = {}
  BY <1>9
<1> QED BY <1>7, <1>8, <1>9, <1>10 DEF LinkInv

\* A step that leaves the modules, the table and the links alone keeps them so.
LEMMA LinksUndisturbed ==
  ASSUME LinkInv, UNCHANGED <<loaded, table, linked>>, pc' \in {pc, pc + 1, 0, 1},
         phase' = "attach" => pc' \in {pc, pc + 1},
         phase' \in {phase, "load", "game", "detach", "fatal"},
         phase = "fatal" => phase' = "fatal",
         phase' = "load" => Linking
  PROVE  LinkInv'
<1>1. Linking' => Linking
  BY DEF Linking
<1>2. \A s : Known(s)' = Known(s) /\ Procedure(s)' = Procedure(s)
  BY DEF Known, Procedure, Matches
<1>3. \A s, i : Available(s, i)' = Available(s, i)
  BY <1>2 DEF Available
<1> QED BY <1>1, <1>2, <1>3 DEF LinkInv

\* Loading a module binds its imports to entries that are there, of the kernel or
\* of modules before it, and rebinds none of a module loaded earlier.
LEMMA LoadModuleLinks ==
  ASSUME LinkInv, NEW m \in Modules, LoadModule(m)
  PROVE  LinkInv'
<1>1. /\ Linking /\ phase # "fatal" /\ phase' \in {"load", "attach"}
      /\ \A s \in Imports[m] : Known(s)
      /\ loaded' = Append(loaded, m) /\ table' = table
      /\ linked' = [linked EXCEPT ![m] = [s \in Imports[m] |-> Procedure(s)]]
  BY DEF LoadModule, Linking
<1>2. /\ loaded' \in Seq(Modules) /\ loaded' # <<>>
      /\ Len(loaded') = Len(loaded) + 1 /\ loaded'[Len(loaded) + 1] = m
      /\ \A i \in 1 .. Len(loaded) : loaded'[i] = loaded[i]
  BY <1>1, AppendProperties DEF LinkInv
<1>3. /\ DOMAIN loaded = 1 .. Len(loaded) /\ DOMAIN loaded' = 1 .. Len(loaded) + 1
      /\ Len(loaded) \in Nat
  BY <1>2, LenProperties DEF LinkInv
<1>4. Range(loaded) \subseteq Range(loaded')
  BY <1>2, <1>3 DEF Range
<1>5. \A s : Known(s)' = Known(s) /\ Procedure(s)' = Procedure(s)
  BY <1>1 DEF Known, Procedure, Matches
<1>6. DOMAIN linked' = Modules /\ linked'[m] = [s \in Imports[m] |-> Procedure(s)]
      /\ \A k \in Modules \ {m} : linked'[k] = linked[k]
  BY <1>1 DEF LinkInv
<1>7. ASSUME NEW i \in DOMAIN loaded, NEW s, Available(s, i)
      PROVE  Available(s, i)'
  <2>1. \A j \in 1 .. i - 1 : loaded'[j] = loaded[j]
    BY <1>2, <1>3
  <2> QED BY <1>5, <1>7, <2>1 DEF Available
<1>8. ASSUME NEW s, Known(s), NEW p, p = Len(loaded) + 1
      PROVE  Available(s, p)'
  <2>1. PICK i \in Matches(s) : Procedure(s) = table[i].value
    BY <1>8, ProcedureIsFirst DEF LinkInv
  <2>2. Procedure(s) \in Range(loaded) \cup {Kernel}
    BY <1>1, <2>1 DEF LinkInv, Matches
  <2>3. CASE Procedure(s) = Kernel
    BY <1>5, <2>3 DEF Available
  <2>4. CASE Procedure(s) \in Range(loaded)
    <3>1. PICK j \in 1 .. Len(loaded) : Procedure(s) = loaded[j]
      BY <1>3, <2>4 DEF Range
    <3>2. j \in 1 .. p - 1 /\ loaded'[j] = loaded[j]
      BY <1>2, <1>3, <1>8
    <3> QED BY <1>5, <3>1, <3>2 DEF Available
  <2> QED BY <2>2, <2>3, <2>4
<1>9. ASSUME NEW i \in DOMAIN loaded', NEW s \in Imports[loaded'[i]]
      PROVE  Known(s)' /\ linked'[loaded'[i]][s] = Procedure(s)' /\ Available(s, i)'
  <2>1. CASE i \in DOMAIN loaded
    <3>1. loaded'[i] = loaded[i] /\ loaded[i] \in Modules
      BY <1>2, <1>3, <2>1, ElementOfSeq DEF LinkInv
    <3>2. Known(s) /\ linked[loaded[i]][s] = Procedure(s) /\ Available(s, i)
      BY <1>1, <2>1, <3>1 DEF LinkInv
    <3>3. linked'[loaded[i]][s] = Procedure(s)
      BY <1>6, <3>1, <3>2
    <3> QED BY <1>5, <1>7, <2>1, <3>1, <3>2, <3>3
  <2>2. CASE i = Len(loaded) + 1
    <3>1. loaded'[i] = m /\ Known(s) /\ linked'[m][s] = Procedure(s)
      BY <1>1, <1>2, <1>6, <2>2
    <3>2. Available(s, i)'
      BY <1>8, <2>2, <3>1
    <3> QED BY <1>5, <3>1, <3>2
  <2> QED BY <1>3, <2>1, <2>2
<1>10. \A i \in DOMAIN table' : table'[i].value \in Range(loaded') \cup {Kernel}
  BY <1>1, <1>4 DEF LinkInv
<1>11. phase' = "attach" => pc' = 1
  BY DEF LoadModule
<1>12. table' \in Seq(Entry)
  BY <1>1 DEF LinkInv
<1>13. phase' = "attach" => pc' \in Nat \ {0}
  BY <1>11
<1> QED BY <1>2, <1>6, <1>9, <1>10, <1>12, <1>13 DEF LinkInv

\* The declarations of a module are records of Op.
LEMMA DeclarationsTyped ==
  ASSUME NEW m \in Modules
  PROVE  Ops(m) \in Seq(Op)
<1>1. Statics[m] \in Seq(Op) /\ Block[m] \in Seq(Op)
  BY ModuleAssumption
<1> QED BY <1>1, ConcatProperties DEF Ops

\* What a module exports follows whatever is in the table, and is the module's own.
LEMMA AttachExportLinks ==
  ASSUME LinkInv, NEW m \in Modules, AttachExport(m)
  PROVE  LinkInv'
<1>1. /\ phase = "attach" /\ m = Last(loaded) /\ pc <= Len(Ops(m))
      /\ Ops(m)[pc].kind \in {"export"} /\ pc' = pc + 1
      /\ phase' \in {"attach", "fatal"} /\ UNCHANGED <<loaded, linked>>
  BY DEF AttachExport, Attaching
<1>2. table' = table \/ RegisterProcedure(Ops(m)[pc].sym, m)
  BY DEF AttachExport
<1>3. CASE table' = table
  BY <1>1, <1>3, LinksUndisturbed
<1>4. CASE RegisterProcedure(Ops(m)[pc].sym, m)
  <2> DEFINE e == [hash |-> Ops(m)[pc].sym, value |-> m]
  <2>1. pc \in 1 .. Len(Ops(m)) /\ Ops(m)[pc] \in Op
    BY <1>1, DeclarationsTyped, ElementOfSeq, LenProperties DEF LinkInv
  <2>2. e \in Entry /\ table' = Append(table, e) /\ e.value = m
    BY <1>1, <1>4, <2>1 DEF Op, Entry, RegisterProcedure
  <2> HIDE DEF e
  <2>3. /\ table' \in Seq(Entry) /\ Len(table') = Len(table) + 1
        /\ table'[Len(table) + 1] = e
        /\ \A i \in 1 .. Len(table) : table'[i] = table[i]
    BY <2>2, AppendProperties DEF LinkInv
  <2>4. /\ DOMAIN table = 1 .. Len(table) /\ DOMAIN table' = 1 .. Len(table) + 1
        /\ Len(table) \in Nat
    BY <2>3, LenProperties DEF LinkInv
  <2>5. m \in Range(loaded)
    <3>1. Len(loaded) \in DOMAIN loaded
      BY <1>1, EmptySeq, LenProperties DEF LinkInv
    <3> QED BY <1>1, <3>1 DEF Last, Range
  <2>6. \A i \in DOMAIN table' : table'[i].value \in Range(loaded) \cup {Kernel}
    <3> SUFFICES ASSUME NEW i \in DOMAIN table'
                 PROVE  table'[i].value \in Range(loaded) \cup {Kernel}
      OBVIOUS
    <3>1. CASE i \in 1 .. Len(table)
      BY <1>1, <2>3, <2>4, <3>1 DEF LinkInv, Linking
    <3>2. CASE i = Len(table) + 1
      BY <2>2, <2>3, <2>5, <3>2
    <3> QED BY <2>4, <3>1, <3>2
  <2>7. ASSUME NEW i \in DOMAIN loaded, NEW s \in Imports[loaded[i]]
        PROVE  Known(s)' /\ linked[loaded[i]][s] = Procedure(s)' /\ Available(s, i)'
    <3>1. Known(s) /\ linked[loaded[i]][s] = Procedure(s) /\ Available(s, i)
      BY <1>1 DEF LinkInv
    <3>2. Known(s)' /\ Procedure(s)' = Procedure(s)
      BY <2>2, <3>1, FirstEntryStays DEF LinkInv
    <3>3. Available(s, i)'
      BY <1>1, <3>1, <3>2 DEF Available
    <3> QED BY <3>1, <3>2, <3>3
  <2>8. pc' \in Nat \ {0}
    BY <1>1, <2>1
  <2> QED BY <1>1, <2>3, <2>6, <2>7, <2>8 DEF LinkInv
<1> QED BY <1>2, <1>3, <1>4

\* Reload leaves no module, and none is loaded after it; a load that fails stops
\* the program.
LEMMA ClearedOrFatal ==
  ASSUME LinkInv, UNCHANGED <<table, linked>>,
         \/ loaded' = <<>> /\ phase' = "game"
         \/ loaded' \in Seq(Modules) /\ phase' = "fatal"
  PROVE  LinkInv'
<1>1. CASE loaded' = <<>> /\ phase' = "game"
  <2>1. loaded' \in Seq(Modules) /\ DOMAIN loaded' = {}
    BY <1>1
  <2> QED BY <1>1, <2>1 DEF LinkInv, Linking
<1>2. CASE loaded' \in Seq(Modules) /\ phase' = "fatal"
  BY <1>2 DEF LinkInv, Linking
<1> QED BY <1>1, <1>2

\* Every step preserves the invariant: only loading and exporting touch the links.
LEMMA StepKeepsLinks ==
  ASSUME LinkInv, [Next]_vars
  PROVE  LinkInv'
<1>1. CASE NoModsFolder
  BY <1>1, LinksUndisturbed DEF NoModsFolder
<1>2. CASE SkipFile
  BY <1>2, LinksUndisturbed DEF SkipFile, Linking
<1>3. CASE StartGame
  BY <1>3, LinksUndisturbed DEF StartGame
<1>4. CASE Attached
  BY <1>4, LinksUndisturbed DEF Attached, Linking
<1>5. ASSUME NEW m \in Modules, LoadModule(m)
      PROVE  LinkInv'
  BY <1>5, LoadModuleLinks
<1>6. ASSUME NEW m \in Modules, LoadFails(m)
      PROVE  LinkInv'
  <2>1. loaded' \in Seq(Modules) /\ phase' = "fatal" /\ UNCHANGED <<table, linked>>
    BY <1>6, AppendProperties DEF LoadFails, LinkInv
  <2> QED BY <2>1, ClearedOrFatal
<1>7. ASSUME NEW m \in Modules, AttachPatch(m) \/ AttachCall(m)
      PROVE  LinkInv'
  <2>1. /\ phase = "attach" /\ phase' = phase /\ pc' = pc + 1
        /\ UNCHANGED <<loaded, table, linked>>
    BY <1>7 DEF AttachPatch, AttachCall, Attaching
  <2> QED BY <2>1, LinksUndisturbed DEF Linking
<1>8. ASSUME NEW m \in Modules, AttachExport(m)
      PROVE  LinkInv'
  BY <1>8, AttachExportLinks
<1>9. CASE HandleReload
  BY <1>9, LinksUndisturbed DEF HandleReload
<1>10. CASE ClearModules
  BY <1>10, ClearedOrFatal DEF ClearModules
<1>11. ASSUME NEW m \in Modules,
              BeginDisable(m) \/ DetachPatch(m) \/ DetachExport(m) \/ DetachCall(m) \/ Disabled(m)
       PROVE  LinkInv'
  <2>1. /\ phase = "detach" /\ phase' = phase /\ pc' \in {pc, pc + 1, 0, 1}
        /\ UNCHANGED <<loaded, table, linked>>
    BY <1>11 DEF BeginDisable, DetachPatch, DetachExport, DetachCall, Disabled,
                 Detaching, Disabling
  <2> QED BY <2>1, LinksUndisturbed
<1>12. ASSUME NEW api \in GameCalls, GameCall(api)
       PROVE  LinkInv'
  BY <1>12, LinksUndisturbed DEF GameCall
<1>13. ASSUME NEW m \in Modules, NEW i \in DOMAIN Ops(m), Toggle(m, i)
       PROVE  LinkInv'
  BY <1>13, LinksUndisturbed DEF Toggle
<1>14. CASE UNCHANGED vars
  BY <1>14, LinksUndisturbed DEF vars, Linking
<1> QED BY <1>1, <1>2, <1>3, <1>4, <1>5, <1>6, <1>7, <1>8, <1>9, <1>10, <1>11,
           <1>12, <1>13, <1>14 DEF Next, Boot, Reload

\* Whatever the modules import and export, a loaded module's imports are bound to
\* the kernel or to modules loaded before it, and modules share the provider of a
\* symbol both import (Kernel!LinksAgree).
THEOREM LinkingIsStable == Spec => []LinksAgree
<1>1. LinkInv => LinksAgree
  BY DEF LinkInv, LinksAgree, Available
<1> QED BY <1>1, InitLinks, StepKeepsLinks, PTL DEF Spec

\* Only the main loop's hook takes a request down, and it cannot run while modules
\* are being unloaded: a request made by their functions survives the unloading.
THEOREM RequestsSurvive == Spec => RequestOutlivesReload
<1>1. ASSUME [Next]_vars
      PROVE  [phase = "detach" /\ pending => pending']_vars
  <2> SUFFICES ASSUME Next, phase = "detach", pending
               PROVE  pending'
    BY <1>1
  <2>1. CASE Boot
    BY <2>1 DEF Boot, NoModsFolder, SkipFile, StartGame, Attached, LoadModule, LoadFails,
                AttachPatch, AttachExport, AttachCall, Attaching
  <2>2. CASE Reload
    BY <2>2 DEF Reload, HandleReload, ClearModules, BeginDisable, DetachPatch, DetachExport,
                DetachCall, Disabled, Call, InspectAll
  <2>3. CASE \E api \in GameCalls : GameCall(api)
    BY <2>3 DEF GameCall
  <2>4. CASE \E m \in Modules : \E i \in DOMAIN Ops(m) : Toggle(m, i)
    BY <2>4 DEF Toggle
  <2> QED BY <2>1, <2>2, <2>3, <2>4 DEF Next
<1> QED BY <1>1, PTL DEF Spec, RequestOutlivesReload


-----------------------------------------------------------------------------
\* w is the word of the last declared patch of S, or the game's own if there is none.
TopWord(w, S) ==
  \/ S = {} /\ w = Game
  \/ \E q \in S : w = Word(q[1], q[2]) /\ \A r \in S : r[2] <= q[2]

\* The patches of each address form a stack: memory holds the topmost, and each
\* has saved the one below it.
Stack(on, memory, kept) ==
  /\ \A a \in Addresses \ {HandlerAddress} : TopWord(memory[a], {q \in on : At(q) = a})
  /\ \A p \in on : TopWord(kept[p[1]][p[2]], {q \in on : At(q) = At(p) /\ q[2] < p[2]})

\* No module is loaded twice, those still on the disc are not loaded yet, and none
\* that refuses is attached or detached.
Once ==
  /\ loaded \in Seq(Modules) /\ file \in Nat \ {0}
  /\ \A j, k \in DOMAIN loaded : loaded[j] = loaded[k] => j = k
  /\ phase = "load" =>
       \A k \in DOMAIN loaded : \A j \in DOMAIN Disc : j >= file => loaded[k] # Disc[j]
  /\ phase = "attach" =>
       /\ loaded # <<>> /\ loaded[Len(loaded)] \notin Refusing /\ pc \in Nat \ {0}
       /\ \A k \in DOMAIN loaded : \A j \in DOMAIN Disc : j > file => loaded[k] # Disc[j]
  /\ phase = "detach" =>
       /\ cur \in Nat \ {0} /\ pc \in Nat
       /\ cur \in DOMAIN loaded /\ pc # 0 => loaded[cur] \notin Refusing

Word0 == Words \cup {Unsaved}

\* One word per address, one saved word per declaration.
Shapes ==
  /\ mem \in [Addresses -> Word0]
  /\ DOMAIN saved = Modules /\ \A m \in Modules : saved[m] \in [DOMAIN Ops(m) -> Word0]

\* NoDanglingPatch says nothing of what the patches have saved, which is what memory
\* will hold next.
PatchInv ==
  /\ Shapes /\ Once
  /\ mem[HandlerAddress] \in {Game, HandlerBranch}
  /\ phase # "fatal" => Stack(On, mem, saved)
  /\ phase = "fatal" => NoDanglingPatch

-----------------------------------------------------------------------------
\* A patch has a module that does not refuse, a place in it and an address.
LEMMA SiteTyped ==
  ASSUME NEW p \in PatchSites
  PROVE  /\ p = <<p[1], p[2]>> /\ p[1] \in Modules /\ p[1] \notin Refusing
         /\ p[2] \in DOMAIN Ops(p[1]) /\ p[2] \in Nat \ {0}
         /\ IsPatch(p[1], p[2]) /\ At(p) \in Addresses
<1>0. PICK m \in Modules \ Refusing : p \in {<<m, i>> : i \in {j \in DOMAIN Ops(m) : IsPatch(m, j)}}
  BY DEF PatchSites
<1>1. PICK i \in DOMAIN Ops(m) : p = <<m, i>> /\ IsPatch(m, i)
  BY <1>0
<1>2. Ops(m) \in Seq(Op) /\ DOMAIN Ops(m) = 1 .. Len(Ops(m)) /\ Len(Ops(m)) \in Nat
  BY DeclarationsTyped, LenProperties
<1>3. Ops(m)[i] \in Op /\ Ops(m)[i].kind \in {"patch", "toggle"}
  BY <1>1, <1>2, ElementOfSeq DEF IsPatch
<1>4. Ops(m)[i].addr \in Addresses
  BY <1>3 DEF Op
<1> QED BY <1>1, <1>2, <1>4 DEF At

\* A declaration that is a patch is one of the sites.
LEMMA SiteOf ==
  ASSUME NEW m \in Modules, m \notin Refusing, NEW i \in DOMAIN Ops(m), IsPatch(m, i)
  PROVE  <<m, i>> \in PatchSites
BY DEF PatchSites

\* What DetachOrder leads to is a declaration that it leads back from.
LEMMA DetachOrderBack ==
  ASSUME NEW m \in Modules, NEW i \in DOMAIN Ops(m)
  PROVE  /\ DetachOrder(m, i) \in DOMAIN Ops(m)
         /\ DetachOrder(m, DetachOrder(m, i)) = i
         /\ DetachOrder(m, i) \in 1 .. Len(Ops(m)) /\ i \in 1 .. Len(Ops(m))
         /\ Len(Ops(m)) \in Nat
<1>1. Statics[m] \in Seq(Op) /\ Block[m] \in Seq(Op)
  BY ModuleAssumption
<1>2. Ops(m) \in Seq(Op) /\ Len(Ops(m)) = Len(Statics[m]) + Len(Block[m])
  BY <1>1, ConcatProperties DEF Ops
<1>3. DOMAIN Ops(m) = 1 .. Len(Ops(m)) /\ Len(Statics[m]) \in Nat /\ Len(Block[m]) \in Nat
  BY <1>1, <1>2, LenProperties
<1> DEFINE s == Len(Statics[m])
           o == DetachOrder(m, i)
<1>4. s \in Nat /\ i \in 1 .. s + Len(Block[m])
  BY <1>2, <1>3
<1> HIDE DEF s
<1>5. o = IF i <= s THEN s + 1 - i ELSE i
  BY DEF DetachOrder, IsStatic, s
<1>6. DetachOrder(m, o) = IF o <= s THEN s + 1 - o ELSE o
  BY DEF DetachOrder, IsStatic, s
<1> HIDE DEF o
<1>7. o \in 1 .. s + Len(Block[m]) /\ DetachOrder(m, o) = i
  <2>1. CASE i <= s
    BY <1>3, <1>4, <1>5, <1>6, <2>1
  <2>2. CASE ~(i <= s)
    BY <1>3, <1>4, <1>5, <1>6, <2>2
  <2> QED BY <2>1, <2>2
<1>8. o \in 1 .. Len(Ops(m)) /\ Len(Ops(m)) \in Nat
  <2>1. Len(Ops(m)) = s + Len(Block[m])
    BY <1>2 DEF s
  <2> QED BY <1>3, <1>4, <1>7, <2>1
<1>9. o \in DOMAIN Ops(m) /\ i \in 1 .. Len(Ops(m))
  BY <1>3, <1>8
<1> QED BY <1>7, <1>8, <1>9 DEF o

-----------------------------------------------------------------------------
\* Putting a patch on top of the others of its address.
LEMMA Push ==
  ASSUME NEW on \in SUBSET PatchSites, NEW memory, NEW kept, Stack(on, memory, kept),
         NEW p \in PatchSites, At(p) # HandlerAddress,
         \A q \in on : At(q) = At(p) => q[2] < p[2],
         NEW memory2, NEW kept2,
         memory2[At(p)] = Word(p[1], p[2]),
         \A a \in Addresses \ {At(p)} : memory2[a] = memory[a],
         kept2[p[1]][p[2]] = memory[At(p)],
         \A q \in on : kept2[q[1]][q[2]] = kept[q[1]][q[2]]
  PROVE  Stack(on \cup {p}, memory2, kept2)
<1> DEFINE new == on \cup {p}
<1>1. p[2] \in Nat /\ At(p) \in Addresses /\ p \notin on
  BY SiteTyped
<1>2. \A q \in on : q[2] \in Nat /\ At(q) \in Addresses
  BY SiteTyped
<1>3. ASSUME NEW a \in Addresses \ {HandlerAddress}
      PROVE  TopWord(memory2[a], {q \in new : At(q) = a})
  <2>1. CASE a = At(p)
    <3>1. p \in {q \in new : At(q) = a} /\ memory2[a] = Word(p[1], p[2])
      BY <2>1
    <3>2. \A r \in {q \in new : At(q) = a} : r[2] <= p[2]
      BY <1>1, <1>2, <2>1
    <3> QED BY <3>1, <3>2 DEF TopWord
  <2>2. CASE a # At(p)
    <3>1. {q \in new : At(q) = a} = {q \in on : At(q) = a} /\ memory2[a] = memory[a]
      BY <2>2
    <3>2. TopWord(memory[a], {q \in on : At(q) = a})
      BY DEF Stack
    <3> QED BY <3>1, <3>2
  <2> QED BY <2>1, <2>2
<1>4. ASSUME NEW r \in new
      PROVE  TopWord(kept2[r[1]][r[2]], {q \in new : At(q) = At(r) /\ q[2] < r[2]})
  <2>1. CASE r = p
    <3>1. {q \in new : At(q) = At(r) /\ q[2] < r[2]} = {q \in on : At(q) = At(p)}
      BY <1>1, <2>1
    <3>2. TopWord(memory[At(p)], {q \in on : At(q) = At(p)})
      BY <1>1 DEF Stack
    <3> QED BY <2>1, <3>1, <3>2
  <2>2. CASE r \in on
    <3>1. ~(At(p) = At(r) /\ p[2] < r[2])
      BY <1>1, <1>2, <2>2
    <3>2. {q \in new : At(q) = At(r) /\ q[2] < r[2]} = {q \in on : At(q) = At(r) /\ q[2] < r[2]}
      BY <3>1
    <3>3. TopWord(kept[r[1]][r[2]], {q \in on : At(q) = At(r) /\ q[2] < r[2]})
      BY <2>2 DEF Stack
    <3> QED BY <2>2, <3>2, <3>3
  <2> QED BY <2>1, <2>2
<1> QED BY <1>3, <1>4 DEF Stack

\* Taking off the patch on top of the others of its address.
LEMMA Pop ==
  ASSUME NEW on \in SUBSET PatchSites, NEW memory, NEW kept, Stack(on, memory, kept),
         NEW p \in on,
         \A q \in on \ {p} : At(q) = At(p) => q[2] < p[2],
         NEW memory2, NEW kept2,
         memory2[At(p)] = kept[p[1]][p[2]],
         \A a \in Addresses \ {At(p)} : memory2[a] = memory[a],
         \A q \in on \ {p} : kept2[q[1]][q[2]] = kept[q[1]][q[2]]
  PROVE  Stack(on \ {p}, memory2, kept2)
<1> DEFINE new == on \ {p}
<1>1. p[2] \in Nat /\ At(p) \in Addresses
  BY SiteTyped
<1>2. \A q \in on : q[2] \in Nat /\ At(q) \in Addresses
  BY SiteTyped
<1>3. ASSUME NEW a \in Addresses \ {HandlerAddress}
      PROVE  TopWord(memory2[a], {q \in new : At(q) = a})
  <2>1. CASE a = At(p)
    <3>1. {q \in new : At(q) = a} = {q \in on : At(q) = At(p) /\ q[2] < p[2]}
      BY <1>1, <2>1
    <3>2. TopWord(kept[p[1]][p[2]], {q \in on : At(q) = At(p) /\ q[2] < p[2]})
      BY DEF Stack
    <3> QED BY <2>1, <3>1, <3>2
  <2>2. CASE a # At(p)
    <3>1. {q \in new : At(q) = a} = {q \in on : At(q) = a} /\ memory2[a] = memory[a]
      BY <2>2
    <3>2. TopWord(memory[a], {q \in on : At(q) = a})
      BY DEF Stack
    <3> QED BY <3>1, <3>2
  <2> QED BY <2>1, <2>2
<1>4. ASSUME NEW r \in new
      PROVE  TopWord(kept2[r[1]][r[2]], {q \in new : At(q) = At(r) /\ q[2] < r[2]})
  <2>1. ~(At(p) = At(r) /\ p[2] < r[2])
    BY <1>1, <1>2
  <2>2. {q \in new : At(q) = At(r) /\ q[2] < r[2]} = {q \in on : At(q) = At(r) /\ q[2] < r[2]}
    BY <2>1
  <2>3. TopWord(kept[r[1]][r[2]], {q \in on : At(q) = At(r) /\ q[2] < r[2]})
    BY DEF Stack
  <2> QED BY <2>2, <2>3
<1> QED BY <1>3, <1>4 DEF Stack

-----------------------------------------------------------------------------
\* Words are words, also those of memory.
LEMMA WordTyped ==
  ASSUME NEW m \in Modules, NEW i \in Nat
  PROVE  Word(m, i) \in Word0 /\ Word(m, i).mod = m
BY DEF Word, Word0, Words

\* Enabling a patch writes its word, and saves the one that was there.
LEMMA EnableWrites ==
  ASSUME Shapes, NEW m \in Modules, m \notin Refusing, NEW i \in DOMAIN Ops(m), IsPatch(m, i),
         Enable(m, i),
         NEW p, p = <<m, i>>
  PROVE  /\ Shapes'
         /\ mem'[At(p)] = Word(m, i) /\ saved'[m][i] = mem[At(p)]
         /\ \A a \in Addresses \ {At(p)} : mem'[a] = mem[a]
         /\ \A q \in PatchSites \ {p} : saved'[q[1]][q[2]] = saved[q[1]][q[2]]
<1> DEFINE a == At(p)
<1>1. p \in PatchSites /\ p[1] = m /\ p[2] = i
  BY SiteOf
<1>2. a \in Addresses /\ i \in Nat /\ a = Ops(m)[i].addr
  BY <1>1, SiteTyped DEF At
<1>3. /\ saved' = [saved EXCEPT ![m][i] = mem[a]]
      /\ mem' = [mem EXCEPT ![a] = Word(m, i)]
  BY <1>2 DEF Enable
<1>4. /\ mem \in [Addresses -> Word0] /\ DOMAIN saved = Modules
      /\ \A n \in Modules : saved[n] \in [DOMAIN Ops(n) -> Word0]
  BY DEF Shapes
<1>5. Word(m, i) \in Word0 /\ mem[a] \in Word0
  BY <1>2, <1>4, WordTyped
<1> HIDE DEF a
<1>6. /\ mem' \in [Addresses -> Word0] /\ mem'[a] = Word(m, i)
      /\ \A b \in Addresses \ {a} : mem'[b] = mem[b]
  BY <1>2, <1>3, <1>4, <1>5
<1>7. /\ DOMAIN saved' = Modules /\ saved'[m] = [saved[m] EXCEPT ![i] = mem[a]]
      /\ \A n \in Modules \ {m} : saved'[n] = saved[n]
  BY <1>3, <1>4
<1>8. /\ saved'[m] \in [DOMAIN Ops(m) -> Word0] /\ saved'[m][i] = mem[a]
      /\ \A j \in DOMAIN Ops(m) \ {i} : saved'[m][j] = saved[m][j]
  BY <1>4, <1>5, <1>7
<1>9. Shapes'
  <2>1. \A n \in Modules : saved'[n] \in [DOMAIN Ops(n) -> Word0]
    BY <1>4, <1>7, <1>8
  <2> QED BY <1>6, <1>7, <2>1 DEF Shapes
<1>10. ASSUME NEW q \in PatchSites \ {p}
       PROVE  saved'[q[1]][q[2]] = saved[q[1]][q[2]]
  <2>1. q = <<q[1], q[2]>> /\ q[1] \in Modules /\ q[2] \in DOMAIN Ops(q[1])
    BY SiteTyped
  <2>2. CASE q[1] = m
    <3>1. q[2] # i
      BY <2>1, <2>2, <1>10
    <3> QED BY <1>8, <2>1, <2>2, <3>1
  <2>3. CASE q[1] # m
    BY <1>7, <2>1, <2>3
  <2> QED BY <2>2, <2>3
<1> QED BY <1>6, <1>8, <1>9, <1>10 DEF a

\* Disabling a patch that is switched on restores the word it has saved.
LEMMA DisableRestores ==
  ASSUME Shapes, NEW m \in Modules, m \notin Refusing, NEW i \in DOMAIN Ops(m), IsPatch(m, i),
         Disable(m, i), IsStatic(m, i) => <<m, i>> \in applied,
         NEW p, p = <<m, i>>
  PROVE  /\ Shapes' /\ applied' = applied \ {p}
         /\ mem'[At(p)] = saved[m][i]
         /\ \A a \in Addresses \ {At(p)} : mem'[a] = mem[a]
         /\ \A q \in PatchSites \ {p} : saved'[q[1]][q[2]] = saved[q[1]][q[2]]
<1> DEFINE a == At(p)
<1>1. p \in PatchSites /\ p[1] = m /\ p[2] = i
  BY SiteOf
<1>2. a \in Addresses /\ i \in Nat /\ a = Ops(m)[i].addr
  BY <1>1, SiteTyped DEF At
<1>3. /\ mem' = [mem EXCEPT ![a] = saved[m][i]] /\ applied' = applied \ {p}
      /\ saved' = saved \/ saved' = [saved EXCEPT ![m][i] = Unsaved]
  BY <1>2 DEF Disable
<1>4. /\ mem \in [Addresses -> Word0] /\ DOMAIN saved = Modules
      /\ \A n \in Modules : saved[n] \in [DOMAIN Ops(n) -> Word0]
  BY DEF Shapes
<1>5. saved[m][i] \in Word0 /\ Unsaved \in Word0
  BY <1>4 DEF Word0
<1> HIDE DEF a
<1>6. /\ mem' \in [Addresses -> Word0] /\ mem'[a] = saved[m][i]
      /\ \A b \in Addresses \ {a} : mem'[b] = mem[b]
  BY <1>2, <1>3, <1>4, <1>5
<1>7. /\ DOMAIN saved' = Modules
      /\ saved'[m] = saved[m] \/ saved'[m] = [saved[m] EXCEPT ![i] = Unsaved]
      /\ \A n \in Modules \ {m} : saved'[n] = saved[n]
  BY <1>3, <1>4
<1>8. /\ saved'[m] \in [DOMAIN Ops(m) -> Word0]
      /\ \A j \in DOMAIN Ops(m) \ {i} : saved'[m][j] = saved[m][j]
  BY <1>4, <1>5, <1>7
<1>9. Shapes'
  <2>1. \A n \in Modules : saved'[n] \in [DOMAIN Ops(n) -> Word0]
    BY <1>4, <1>7, <1>8
  <2> QED BY <1>6, <1>7, <2>1 DEF Shapes
<1>10. ASSUME NEW q \in PatchSites \ {p}
       PROVE  saved'[q[1]][q[2]] = saved[q[1]][q[2]]
  <2>1. q = <<q[1], q[2]>> /\ q[1] \in Modules /\ q[2] \in DOMAIN Ops(q[1])
    BY SiteTyped
  <2>2. CASE q[1] = m
    <3>1. q[2] # i
      BY <2>1, <2>2, <1>10
    <3> QED BY <1>8, <2>1, <2>2, <3>1
  <2>3. CASE q[1] # m
    BY <1>7, <2>1, <2>3
  <2> QED BY <2>2, <2>3
<1> QED BY <1>3, <1>6, <1>9, <1>10 DEF a

-----------------------------------------------------------------------------
\* What is in effect after one more declaration was attached.
LEMMA AttachedOneMore ==
  ASSUME Once, phase = "attach", phase' = "attach", pc' = pc + 1, loaded' = loaded,
         NEW m, NEW i \in Nat
  PROVE  /\ InEffect(m, i)' <=> InEffect(m, i) \/ (loaded[Len(loaded)] = m /\ i = pc)
         /\ loaded[Len(loaded)] = m => (InEffect(m, i) <=> i < pc)
<1>1. /\ DOMAIN loaded = 1 .. Len(loaded) /\ Len(loaded) \in DOMAIN loaded /\ pc \in Nat
      /\ \A j, k \in DOMAIN loaded : loaded[j] = loaded[k] => j = k
  BY LenProperties, EmptySeq DEF Once
<1>2. InEffect(m, i) <=> \E k \in DOMAIN loaded : loaded[k] = m /\ (k = Len(loaded) => i < pc)
  BY DEF InEffect
<1>3. InEffect(m, i)' <=> \E k \in DOMAIN loaded : loaded[k] = m /\ (k = Len(loaded) => i < pc + 1)
  BY DEF InEffect
<1>4. i < pc + 1 <=> i < pc \/ i = pc
  BY <1>1
<1> QED BY <1>1, <1>2, <1>3, <1>4

\* What is in effect after one more declaration was detached.
LEMMA DetachedOneMore ==
  ASSUME Once, phase = "detach", phase' = "detach", pc' = pc + 1, UNCHANGED <<cur, loaded>>,
         cur <= Len(loaded), NEW m \in Modules, NEW i \in DOMAIN Ops(m)
  PROVE  /\ InEffect(m, i)' <=> InEffect(m, i) /\ ~(loaded[cur] = m /\ DetachOrder(m, i) = pc)
         /\ loaded[cur] = m => (InEffect(m, i) <=> DetachOrder(m, i) >= pc)
<1>1. /\ DOMAIN loaded = 1 .. Len(loaded) /\ pc \in Nat /\ Len(loaded) \in Nat /\ cur \in Nat \ {0}
      /\ \A j, k \in DOMAIN loaded : loaded[j] = loaded[k] => j = k
  BY LenProperties DEF Once
<1>2. cur \in DOMAIN loaded
  BY <1>1
<1> DEFINE o == DetachOrder(m, i)
<1>3. o \in Nat
  BY DetachOrderBack
<1>4. InEffect(m, i) <=> \E k \in DOMAIN loaded : loaded[k] = m /\ (k > cur \/ (k = cur /\ o >= pc))
  BY DEF InEffect
<1>5. InEffect(m, i)' <=> \E k \in DOMAIN loaded : loaded[k] = m /\ (k > cur \/ (k = cur /\ o >= pc + 1))
  BY DEF InEffect
<1> HIDE DEF o
<1>6. o >= pc + 1 <=> o >= pc /\ o # pc
  BY <1>1, <1>3
<1>7. \A k \in DOMAIN loaded : k > cur => k # cur
  BY <1>1
<1> QED BY <1>1, <1>2, <1>4, <1>5, <1>6, <1>7 DEF o

-----------------------------------------------------------------------------
\* Loading a module that is on the disc once, and of which the directory iterator has
\* not come to the second copy there cannot be.
LEMMA LoadedOnce ==
  ASSUME Once, phase = "load", NEW m \in Modules, file <= Len(Disc), m = Disc[file],
         loaded' = Append(loaded, m)
  PROVE  /\ loaded' \in Seq(Modules) /\ loaded' # <<>>
         /\ \A j, k \in DOMAIN loaded' : loaded'[j] = loaded'[k] => j = k
         /\ \A k \in DOMAIN loaded' : \A j \in DOMAIN Disc : j >= file + 1 => loaded'[k] # Disc[j]
         /\ Len(loaded') = Len(loaded) + 1 /\ loaded'[Len(loaded')] = m
         /\ DOMAIN loaded = 1 .. Len(loaded) /\ DOMAIN loaded' = 1 .. Len(loaded) + 1
         /\ \A k \in DOMAIN loaded : loaded'[k] = loaded[k]
         /\ Len(loaded) \in Nat
<1>1. /\ loaded' \in Seq(Modules) /\ loaded' # <<>>
      /\ Len(loaded') = Len(loaded) + 1 /\ loaded'[Len(loaded) + 1] = m
      /\ \A i \in 1 .. Len(loaded) : loaded'[i] = loaded[i]
  BY AppendProperties DEF Once
<1>2. /\ DOMAIN loaded = 1 .. Len(loaded) /\ DOMAIN loaded' = 1 .. Len(loaded) + 1
      /\ Len(loaded) \in Nat
  BY <1>1, LenProperties DEF Once
<1>3. /\ DOMAIN Disc = 1 .. Len(Disc) /\ Len(Disc) \in Nat /\ file \in Nat \ {0}
      /\ \A j, k \in DOMAIN Disc : Disc[j] = Disc[k] => j = k
  BY ModuleAssumption, LenProperties DEF Once
<1>4. file \in DOMAIN Disc
  BY <1>3
<1>5. \A k \in DOMAIN loaded : \A j \in DOMAIN Disc : j >= file => loaded[k] # Disc[j]
  BY DEF Once
<1>6. \A k \in DOMAIN loaded : loaded[k] # m
  BY <1>3, <1>4, <1>5
<1>7. \A k \in DOMAIN loaded' : (k \in DOMAIN loaded /\ loaded'[k] = loaded[k]) \/ k = Len(loaded) + 1
  BY <1>1, <1>2
<1>8. \A j, k \in DOMAIN loaded' : loaded'[j] = loaded'[k] => j = k
  BY <1>1, <1>6, <1>7 DEF Once
<1>9. ASSUME NEW k \in DOMAIN loaded', NEW j \in DOMAIN Disc, j >= file + 1
      PROVE  loaded'[k] # Disc[j]
  <2>1. j \in Nat /\ j >= file /\ j # file
    BY <1>3, <1>9
  <2>2. CASE k \in DOMAIN loaded /\ loaded'[k] = loaded[k]
    BY <1>5, <2>1, <2>2
  <2>3. CASE k = Len(loaded) + 1
    BY <1>1, <1>3, <1>4, <2>1, <2>3
  <2> QED BY <1>7, <2>2, <2>3
<1>10. \A k \in DOMAIN loaded : loaded'[k] = loaded[k]
  BY <1>1, <1>2
<1> QED BY <1>1, <1>2, <1>8, <1>9, <1>10

\* No step loads a module twice.
LEMMA StepOnce ==
  ASSUME Once, [Next]_vars
  PROVE  Once'
<1> USE DEF Once
<1>1. CASE NoModsFolder \/ StartGame \/ HandleReload
  BY <1>1 DEF NoModsFolder, StartGame, HandleReload
<1>2. CASE SkipFile
  <2>1. file' = file + 1 /\ file' \in Nat \ {0} /\ phase = "load" /\ UNCHANGED <<phase, loaded>>
    BY <1>2 DEF SkipFile
  <2>2. \A j \in DOMAIN Disc : j \in Nat
    BY ModuleAssumption, LenProperties
  <2>3. \A j \in DOMAIN Disc : j >= file + 1 => j >= file
    BY <2>2
  <2> QED BY <2>1, <2>3
<1>3. CASE Attached
  <2>1. file' = file + 1 /\ file' \in Nat \ {0} /\ phase = "attach" /\ phase' = "load" /\ loaded' = loaded
    BY <1>3 DEF Attached
  <2>2. \A j \in DOMAIN Disc : j \in Nat
    BY ModuleAssumption, LenProperties
  <2>3. \A j \in DOMAIN Disc : j >= file + 1 => j > file
    BY <2>2
  <2> QED BY <2>1, <2>3
<1>4. ASSUME NEW m \in Modules, LoadModule(m)
      PROVE  Once'
  <2>1. /\ phase = "load" /\ file <= Len(Disc) /\ m = Disc[file] /\ loaded' = Append(loaded, m)
        /\ file \in Nat \ {0} /\ file + 1 \in Nat \ {0}
    BY <1>4 DEF LoadModule
  <2>2. /\ loaded' \in Seq(Modules) /\ loaded' # <<>> /\ loaded'[Len(loaded')] = m
        /\ \A j, k \in DOMAIN loaded' : loaded'[j] = loaded'[k] => j = k
        /\ \A k \in DOMAIN loaded' : \A j \in DOMAIN Disc : j >= file + 1 => loaded'[k] # Disc[j]
    BY <2>1, LoadedOnce
  <2>3. \A j \in DOMAIN Disc : j \in Nat
    BY ModuleAssumption, LenProperties
  <2>4. \A j \in DOMAIN Disc : j > file => j >= file + 1
    BY <2>1, <2>3
  <2>5. CASE m \in Refusing
    <3>1. phase' = "load" /\ file' = file + 1
      BY <1>4, <2>1, <2>5 DEF LoadModule
    <3> QED BY <2>1, <2>2, <3>1
  <2>6. CASE m \notin Refusing
    <3>1. phase' = "attach" /\ file' = file /\ pc' = 1
      BY <1>4, <2>6 DEF LoadModule
    <3> QED BY <2>1, <2>2, <2>4, <2>6, <3>1
  <2> QED BY <2>5, <2>6
<1>5. ASSUME NEW m \in Modules, LoadFails(m)
      PROVE  Once'
  <2>1. /\ phase = "load" /\ file <= Len(Disc) /\ m = Disc[file] /\ loaded' = Append(loaded, m)
        /\ phase' = "fatal" /\ file' = file
    BY <1>5 DEF LoadFails
  <2>2. /\ loaded' \in Seq(Modules)
        /\ \A j, k \in DOMAIN loaded' : loaded'[j] = loaded'[k] => j = k
    BY <2>1, LoadedOnce
  <2> QED BY <2>1, <2>2
<1>6. ASSUME NEW m \in Modules, AttachPatch(m) \/ AttachExport(m) \/ AttachCall(m)
      PROVE  Once'
  <2>1. /\ phase = "attach" /\ phase' \in {"attach", "fatal"} /\ pc' = pc + 1
        /\ UNCHANGED <<file, loaded>>
    BY <1>6 DEF AttachPatch, AttachExport, AttachCall, Attaching
  <2> QED BY <2>1
<1>7. CASE ClearModules
  BY <1>7 DEF ClearModules
<1>8. ASSUME NEW m \in Modules, BeginDisable(m)
      PROVE  Once'
  <2>1. /\ phase = "detach" /\ UNCHANGED <<phase, file, loaded>> /\ m = loaded[cur] /\ pc = 0
        /\ \/ cur' = cur + 1 /\ pc' = 0
           \/ m \notin Refusing /\ pc' = 1 /\ cur' = cur
    BY <1>8 DEF BeginDisable, Disabling
  <2> QED BY <2>1
<1>9. ASSUME NEW m \in Modules, DetachPatch(m) \/ DetachExport(m) \/ DetachCall(m)
      PROVE  Once'
  <2>1. /\ phase = "detach" /\ UNCHANGED <<phase, file, loaded, cur>> /\ pc' = pc + 1
        /\ pc \in DOMAIN Ops(m)
    BY <1>9 DEF DetachPatch, DetachExport, DetachCall, Detaching, Disabling
  <2>2. pc # 0
    BY <2>1, DeclarationsTyped, LenProperties
  <2> QED BY <2>1, <2>2
<1>10. ASSUME NEW m \in Modules, Disabled(m)
       PROVE  Once'
  BY <1>10 DEF Disabled, Disabling
<1>11. ASSUME NEW api \in GameCalls, GameCall(api)
       PROVE  Once'
  BY <1>11 DEF GameCall
<1>12. ASSUME NEW m \in Modules, NEW i \in DOMAIN Ops(m), Toggle(m, i)
       PROVE  Once'
  BY <1>12 DEF Toggle
<1>13. CASE UNCHANGED vars
  BY <1>13 DEF vars
<1> QED BY <1>1, <1>2, <1>3, <1>4, <1>5, <1>6, <1>7, <1>8, <1>9, <1>10, <1>11, <1>12, <1>13
        DEF Next, Boot, Reload

-----------------------------------------------------------------------------
\* Memory that is a stack leads nowhere but into modules that are not disabled.
LEMMA StackIsSafe ==
  ASSUME Stack(On, mem, saved), Once, mem[HandlerAddress] \in {Game, HandlerBranch}
  PROVE  NoDanglingPatch
<1> SUFFICES ASSUME NEW a \in Addresses, mem[a] \notin {Game, HandlerBranch}
             PROVE  mem[a].mod \in Active
  BY DEF NoDanglingPatch
<1>1. TopWord(mem[a], {q \in On : At(q) = a})
  BY DEF Stack
<1>2. PICK q \in On : mem[a] = Word(q[1], q[2])
  BY <1>1 DEF TopWord
<1>3. q[1] \notin Refusing /\ InEffect(q[1], q[2]) /\ mem[a].mod = q[1]
  BY <1>2, SiteTyped DEF On, Word
<1>4. PICK k \in DOMAIN loaded : loaded[k] = q[1] /\ (phase = "detach" => k > cur \/ k = cur)
  BY <1>3 DEF InEffect
<1>5. phase = "detach" => k >= cur
  <2>1. k \in Nat /\ (phase = "detach" => cur \in Nat)
    BY LenProperties DEF Once
  <2> QED BY <1>4, <2>1
<1> QED BY <1>3, <1>4, <1>5 DEF Active

\* A step that switches no patch and writes at most the hook of the main loop.
LEMMA StackKept ==
  ASSUME PatchInv, Once', phase # "fatal", phase' # "fatal",
         saved' = saved, applied' = applied,
         \/ mem' = mem
         \/ mem' = [mem EXCEPT ![HandlerAddress] = HandlerBranch],
         \A p \in PatchSites : InEffect(p[1], p[2])' <=> InEffect(p[1], p[2])
  PROVE  PatchInv' /\ On' = On
<1>1. On' = On
  BY DEF On
<1>2. /\ Shapes' /\ \A a \in Addresses \ {HandlerAddress} : mem'[a] = mem[a]
      /\ mem'[HandlerAddress] \in {Game, HandlerBranch}
  BY ModuleAssumption DEF PatchInv, Shapes, Word0, Words
<1>3. Stack(On, mem', saved)
  BY <1>2 DEF PatchInv, Stack
<1> QED BY <1>1, <1>2, <1>3 DEF PatchInv

\* Calls into the kernel switch no patch.
LEMMA CallWrites ==
  ASSUME NEW api, Call(api)
  PROVE  mem' = mem \/ mem' = [mem EXCEPT ![HandlerAddress] = HandlerBranch]
BY DEF Call, InspectAll

\* Attaching or detaching what is no patch.
LEMMA OtherDeclaration ==
  ASSUME PatchInv, Once', NEW m \in Modules, pc' = pc + 1, UNCHANGED <<cur, loaded, saved, applied>>,
         phase' = phase,
         \/ mem' = mem
         \/ mem' = [mem EXCEPT ![HandlerAddress] = HandlerBranch],
         \/ phase = "attach" /\ m = Last(loaded) /\ pc \in DOMAIN Ops(m) /\ ~IsPatch(m, pc)
         \/ /\ Disabling(m) /\ pc \in DOMAIN Ops(m) /\ ~IsPatch(m, DetachOrder(m, pc))
  PROVE  PatchInv' /\ On' = On
<1>1. Once /\ phase # "fatal"
  BY DEF PatchInv, Disabling
<1>2. ASSUME NEW p \in PatchSites
      PROVE  InEffect(p[1], p[2])' <=> InEffect(p[1], p[2])
  <2>1. p[1] \in Modules /\ p[2] \in Nat /\ p[2] \in DOMAIN Ops(p[1]) /\ IsPatch(p[1], p[2])
    BY SiteTyped
  <2>2. CASE phase = "attach" /\ m = Last(loaded) /\ pc \in DOMAIN Ops(m) /\ ~IsPatch(m, pc)
    <3>1. ~(loaded[Len(loaded)] = p[1] /\ p[2] = pc)
      BY <2>1, <2>2 DEF Last
    <3> QED BY <1>1, <2>1, <2>2, <3>1, AttachedOneMore
  <2>3. CASE /\ Disabling(m) /\ pc \in DOMAIN Ops(m) /\ ~IsPatch(m, DetachOrder(m, pc))
    <3>1. phase = "detach" /\ cur <= Len(loaded) /\ m = loaded[cur]
      BY <2>3 DEF Disabling
    <3>2. ~(loaded[cur] = p[1] /\ DetachOrder(p[1], p[2]) = pc)
      BY <2>1, <2>3, <3>1, DetachOrderBack
    <3> QED BY <1>1, <2>1, <3>1, <3>2, DetachedOneMore
  <2> QED BY <2>2, <2>3
<1> QED BY <1>1, <1>2, StackKept

-----------------------------------------------------------------------------
\* Two patches of one address are static objects of one module, and only the later
\* one can be switched.
LEMMA Nested ==
  ASSUME PatchesNest, NEW p \in PatchSites, NEW q \in PatchSites, p # q, At(p) = At(q)
  PROVE  /\ p[1] = q[1] /\ p[2] # q[2] /\ IsStatic(p[1], p[2]) /\ IsStatic(q[1], q[2])
         /\ p[2] < q[2] => Ops(p[1])[p[2]].kind = "patch"
<1>1. p = <<p[1], p[2]>> /\ q = <<q[1], q[2]>>
  BY SiteTyped
<1>2. p[1] = q[1]
  BY DEF PatchesNest
<1>3. p[2] # q[2]
  BY <1>1, <1>2
<1> QED BY <1>2, <1>3 DEF PatchesNest

\* A patch is switched on on top of the others of its address, or off from there.
Pushed(p) == p \notin On /\ On' = On \cup {p} /\ \A q \in On : At(q) = At(p) => q[2] < p[2]
Popped(p) == p \in On /\ On' = On \ {p} /\ \A q \in On \ {p} : At(q) = At(p) => q[2] < p[2]

\* Enabling puts the patch on top of the stack of its address.
LEMMA EnablePushes ==
  ASSUME PatchesNest, PatchInv, Once', phase # "fatal", phase' # "fatal",
         NEW m \in Modules, m \notin Refusing, NEW i \in DOMAIN Ops(m), IsPatch(m, i),
         Enable(m, i), InEffect(m, i)',
         \A q \in PatchSites : q # <<m, i>> => (InEffect(q[1], q[2])' <=> InEffect(q[1], q[2])),
         \A q \in On : At(q) = At(<<m, i>>) => q[2] < i
  PROVE  PatchInv' /\ Pushed(<<m, i>>)
<1> DEFINE p == <<m, i>>
<1>1. p \in PatchSites /\ p[1] = m /\ p[2] = i /\ At(p) # HandlerAddress
  BY SiteOf DEF PatchesNest
<1>2. applied' = IF IsStatic(m, i) THEN applied \cup {p} ELSE applied
  BY DEF Enable
<1>3. On' = On \cup {p}
  <2>1. ASSUME NEW q \in PatchSites
        PROVE  q \in On' <=> q \in On \cup {p}
    <3>1. q \in On' <=> InEffect(q[1], q[2])' /\ (IsStatic(q[1], q[2]) => q \in applied')
      BY DEF On
    <3>2. CASE q = p
      BY <1>1, <1>2, <3>1, <3>2
    <3>3. CASE q # p
      <4>1. q \in On <=> InEffect(q[1], q[2]) /\ (IsStatic(q[1], q[2]) => q \in applied)
        BY DEF On
      <4>2. q \in applied' <=> q \in applied
        BY <1>2, <3>3
      <4> QED BY <3>1, <3>3, <4>1, <4>2
    <3> QED BY <3>2, <3>3
  <2>2. On' \subseteq PatchSites /\ On \subseteq PatchSites
    BY DEF On
  <2> QED BY <1>1, <2>1, <2>2
<1>4. /\ Shapes'
      /\ mem'[At(p)] = Word(m, i) /\ saved'[m][i] = mem[At(p)]
      /\ \A a \in Addresses \ {At(p)} : mem'[a] = mem[a]
      /\ \A q \in PatchSites \ {p} : saved'[q[1]][q[2]] = saved[q[1]][q[2]]
  BY EnableWrites DEF PatchInv
<1>5. \A q \in On : At(q) = At(p) => q[2] < p[2]
  BY <1>1
<1>6. i \in Nat
  BY <1>1, SiteTyped
<1>7. p \notin On
  BY <1>1, <1>5, <1>6
<1> HIDE DEF p
<1>8. \A q \in On : saved'[q[1]][q[2]] = saved[q[1]][q[2]]
  BY <1>4, <1>7 DEF On
<1>9. On \in SUBSET PatchSites /\ Stack(On, mem, saved)
  BY DEF On, PatchInv
<1>10. Stack(On \cup {p}, mem', saved')
  BY <1>1, <1>4, <1>5, <1>8, <1>9, Push
<1>11. mem'[HandlerAddress] \in {Game, HandlerBranch}
  BY <1>1, <1>4, ModuleAssumption DEF PatchInv
<1>12. PatchInv'
  BY <1>3, <1>4, <1>10, <1>11 DEF PatchInv
<1>13. Pushed(p)
  BY <1>3, <1>5, <1>7 DEF Pushed
<1> QED BY <1>12, <1>13 DEF p

\* Disabling takes the patch off the top of the stack of its address.
LEMMA DisablePops ==
  ASSUME PatchesNest, PatchInv, Once', phase # "fatal", phase' # "fatal",
         NEW m \in Modules, m \notin Refusing, NEW i \in DOMAIN Ops(m), IsPatch(m, i),
         Disable(m, i), <<m, i>> \in On, InEffect(m, i)' => IsStatic(m, i),
         \A q \in PatchSites : q # <<m, i>> => (InEffect(q[1], q[2])' <=> InEffect(q[1], q[2])),
         \A q \in On : q # <<m, i>> /\ At(q) = At(<<m, i>>) => q[2] < i
  PROVE  PatchInv' /\ Popped(<<m, i>>)
<1> DEFINE p == <<m, i>>
<1>1. p \in PatchSites /\ p[1] = m /\ p[2] = i /\ At(p) # HandlerAddress /\ p \in On
  BY SiteOf DEF PatchesNest
<1>2. IsStatic(m, i) => p \in applied
  BY <1>1 DEF On
<1>3. /\ Shapes' /\ applied' = applied \ {p}
      /\ mem'[At(p)] = saved[m][i]
      /\ \A a \in Addresses \ {At(p)} : mem'[a] = mem[a]
      /\ \A q \in PatchSites \ {p} : saved'[q[1]][q[2]] = saved[q[1]][q[2]]
  BY <1>2, DisableRestores DEF PatchInv
<1>4. On' = On \ {p}
  <2>1. ASSUME NEW q \in PatchSites
        PROVE  q \in On' <=> q \in On \ {p}
    <3>1. q \in On' <=> InEffect(q[1], q[2])' /\ (IsStatic(q[1], q[2]) => q \in applied')
      BY DEF On
    <3>2. CASE q = p
      BY <1>1, <1>3, <3>1, <3>2
    <3>3. CASE q # p
      <4>1. q \in On <=> InEffect(q[1], q[2]) /\ (IsStatic(q[1], q[2]) => q \in applied)
        BY DEF On
      <4>2. q \in applied' <=> q \in applied
        BY <1>3, <3>3
      <4> QED BY <3>1, <3>3, <4>1, <4>2
    <3> QED BY <3>2, <3>3
  <2>2. On' \subseteq PatchSites /\ On \subseteq PatchSites
    BY DEF On
  <2> QED BY <1>1, <2>1, <2>2
<1>5. \A q \in On \ {p} : At(q) = At(p) => q[2] < p[2]
  BY <1>1
<1>6. \A q \in On \ {p} : saved'[q[1]][q[2]] = saved[q[1]][q[2]]
  BY <1>3 DEF On
<1>7. On \in SUBSET PatchSites /\ Stack(On, mem, saved)
  BY DEF On, PatchInv
<1> HIDE DEF p
<1>8. Stack(On \ {p}, mem', saved')
  BY <1>1, <1>3, <1>5, <1>6, <1>7, Pop
<1>9. mem'[HandlerAddress] \in {Game, HandlerBranch}
  BY <1>1, <1>3, ModuleAssumption DEF PatchInv
<1>10. PatchInv'
  BY <1>3, <1>4, <1>8, <1>9 DEF PatchInv
<1>11. Popped(p)
  BY <1>1, <1>4, <1>5 DEF Popped
<1> QED BY <1>10, <1>11 DEF p

-----------------------------------------------------------------------------
\* A patch that is attached is the last declared one of its address so far.
LEMMA AttachPatchStacks ==
  ASSUME PatchesNest, PatchInv, Once', NEW m \in Modules, AttachPatch(m)
  PROVE  PatchInv' /\ Pushed(<<m, pc>>)
<1> PICK i : i = pc
  OBVIOUS
<1>1. /\ phase = "attach" /\ phase' = "attach" /\ m = Last(loaded) /\ i <= Len(Ops(m))
      /\ Ops(m)[i].kind \in {"patch", "toggle"} /\ pc' = pc + 1 /\ loaded' = loaded
      /\ Enable(m, i)
  BY DEF AttachPatch, Attaching
<1>2. Once /\ i \in Nat \ {0} /\ m \notin Refusing /\ loaded[Len(loaded)] = m
  BY <1>1 DEF PatchInv, Once, Last
<1>3. i \in DOMAIN Ops(m) /\ IsPatch(m, i)
  BY <1>1, <1>2, DeclarationsTyped, LenProperties DEF IsPatch
<1>4. InEffect(m, i)'
  BY <1>1, <1>2, AttachedOneMore
<1>5. ASSUME NEW q \in PatchSites, q # <<m, i>>
      PROVE  InEffect(q[1], q[2])' <=> InEffect(q[1], q[2])
  <2>1. q[2] \in Nat /\ ~(q[1] = m /\ q[2] = i)
    BY <1>5, SiteTyped
  <2> QED BY <1>1, <1>2, <2>1, AttachedOneMore
<1>6. ASSUME NEW q \in On, At(q) = At(<<m, i>>)
      PROVE  q[2] < i
  <2>1. q \in PatchSites /\ q[2] \in Nat /\ InEffect(q[1], q[2])
    BY SiteTyped DEF On
  <2>2. q[1] = m
    <3>1. <<m, i>> \in PatchSites
      BY <1>2, <1>3, SiteOf
    <3> QED BY <1>6, <2>1, <3>1, Nested
  <2> QED BY <1>1, <1>2, <2>1, <2>2, AttachedOneMore
<1> QED BY <1>1, <1>2, <1>3, <1>4, <1>5, <1>6, EnablePushes

\* Static objects are destroyed in the reverse order of their construction: what is
\* detached lies on top.
LEMMA DetachPatchUnstacks ==
  ASSUME PatchesNest, PatchInv, Once', NEW m \in Modules, DetachPatch(m)
  PROVE  PatchInv' /\ (On' = On \/ Popped(<<m, DetachOrder(m, pc)>>))
<1> PICK d : d = pc
  OBVIOUS
<1> PICK i : i = DetachOrder(m, d)
  OBVIOUS
<1>1. /\ phase = "detach" /\ phase' = "detach" /\ cur <= Len(loaded) /\ m = loaded[cur]
      /\ d \in DOMAIN Ops(m) /\ Ops(m)[i].kind \in {"patch", "toggle"}
      /\ pc' = pc + 1 /\ UNCHANGED <<cur, loaded>> /\ Disable(m, i)
  BY DEF DetachPatch, Detaching, Disabling
<1>2. i \in DOMAIN Ops(m) /\ DetachOrder(m, i) = d /\ d \in Nat \ {0} /\ i \in Nat
  BY <1>1, DetachOrderBack
<1>3. Once /\ cur \in DOMAIN loaded /\ m \notin Refusing /\ IsPatch(m, i)
  <2>1. Once /\ DOMAIN loaded = 1 .. Len(loaded) /\ cur \in Nat \ {0} /\ Len(loaded) \in Nat
    BY <1>1, LenProperties DEF PatchInv, Once
  <2>2. cur \in DOMAIN loaded
    BY <1>1, <2>1
  <2> QED BY <1>1, <1>2, <2>1, <2>2 DEF Once, IsPatch
<1>4. InEffect(m, i) /\ ~InEffect(m, i)'
  BY <1>1, <1>2, <1>3, DetachedOneMore
<1>5. ASSUME NEW q \in PatchSites, q # <<m, i>>
      PROVE  InEffect(q[1], q[2])' <=> InEffect(q[1], q[2])
  <2>1. q[1] \in Modules /\ q[2] \in DOMAIN Ops(q[1]) /\ ~(q[1] = m /\ q[2] = i)
    BY <1>5, SiteTyped
  <2>2. ~(q[1] = m /\ DetachOrder(q[1], q[2]) = d)
    BY <2>1, DetachOrderBack
  <2> QED BY <1>1, <1>3, <2>1, <2>2, DetachedOneMore
<1>6. <<m, i>> \in PatchSites
  BY <1>2, <1>3, SiteOf
<1>7. CASE IsStatic(m, i) /\ <<m, i>> \notin applied
  <2>1. UNCHANGED <<mem, saved, applied>>
    BY <1>1, <1>7 DEF Disable
  <2>2. On' = On
    <3>1. ASSUME NEW q \in PatchSites
          PROVE  q \in On' <=> q \in On
      <4>1. q \in On' <=> InEffect(q[1], q[2])' /\ (IsStatic(q[1], q[2]) => q \in applied)
        BY <2>1 DEF On
      <4>2. q \in On <=> InEffect(q[1], q[2]) /\ (IsStatic(q[1], q[2]) => q \in applied)
        BY DEF On
      <4> QED BY <1>5, <1>7, <4>1, <4>2
    <3>2. On' \subseteq PatchSites /\ On \subseteq PatchSites
      BY DEF On
    <3> QED BY <3>1, <3>2
  <2>3. Shapes' /\ mem'[HandlerAddress] \in {Game, HandlerBranch}
    BY <2>1 DEF PatchInv, Shapes
  <2>4. Stack(On', mem', saved')
    BY <1>1, <2>1, <2>2 DEF PatchInv
  <2> QED BY <1>1, <2>2, <2>3, <2>4 DEF PatchInv
<1>8. CASE IsStatic(m, i) => <<m, i>> \in applied
  <2>1. <<m, i>> \in On
    BY <1>4, <1>6, <1>8 DEF On
  <2>2. ASSUME NEW q \in On, q # <<m, i>>, At(q) = At(<<m, i>>)
        PROVE  q[2] < i
    <3>1. q \in PatchSites /\ q[2] \in DOMAIN Ops(q[1]) /\ InEffect(q[1], q[2]) /\ q[1] \in Modules
      BY SiteTyped DEF On
    <3>2. q[1] = m /\ IsStatic(m, i) /\ IsStatic(m, q[2]) /\ q[2] # i
      BY <1>6, <2>2, <3>1, Nested
    <3>3. DetachOrder(m, q[2]) >= d
      BY <1>1, <1>3, <3>1, <3>2, DetachedOneMore
    <3> DEFINE s == Len(Statics[m])
               j == q[2]
    <3>4. DetachOrder(m, j) = s + 1 - j /\ d = s + 1 - i
      BY <1>2, <3>2 DEF DetachOrder
    <3>5. j \in Nat /\ s \in Nat
      BY <3>1, SiteTyped, ModuleAssumption, LenProperties
    <3> HIDE DEF s, j
    <3>6. j <= i
      BY <1>2, <3>3, <3>4, <3>5 DEF j
    <3> QED BY <1>2, <3>2, <3>5, <3>6 DEF j
  <2> QED BY <1>1, <1>2, <1>3, <1>4, <1>5, <2>1, <2>2, DisablePops
<1> QED BY <1>7, <1>8

\* A patch that a module toggles is a static object.
LEMMA TogglesAreStatic ==
  ASSUME NEW m \in Modules, NEW i \in DOMAIN Ops(m), Ops(m)[i].kind = "toggle"
  PROVE  IsStatic(m, i)
<1>1. Statics[m] \in Seq(Op) /\ Block[m] \in Seq(Op)
      /\ \A j \in DOMAIN Block[m] : Block[m][j].kind # "toggle"
  BY ModuleAssumption
<1>2. /\ Len(Ops(m)) = Len(Statics[m]) + Len(Block[m])
      /\ ~(i <= Len(Statics[m])) => Ops(m)[i] = Block[m][i - Len(Statics[m])]
  BY <1>1, DeclarationsTyped, LenProperties, ConcatProperties DEF Ops
<1>3. /\ i \in 1 .. Len(Ops(m)) /\ Len(Statics[m]) \in Nat /\ Len(Block[m]) \in Nat
      /\ DOMAIN Block[m] = 1 .. Len(Block[m])
  BY <1>1, DeclarationsTyped, LenProperties
<1> SUFFICES ASSUME ~(i <= Len(Statics[m])) PROVE FALSE
  BY DEF IsStatic
<1> DEFINE s == Len(Statics[m])
           b == Len(Block[m])
<1>4. s \in Nat /\ b \in Nat /\ i \in 1 .. s + b /\ ~(i <= s)
  BY <1>2, <1>3
<1>5. Ops(m)[i] = Block[m][i - s] /\ DOMAIN Block[m] = 1 .. b
  BY <1>2, <1>3, <1>4
<1> HIDE DEF s, b
<1>6. i - s \in 1 .. b
  BY <1>4
<1> QED BY <1>1, <1>5, <1>6

\* Only the last patch of an address is switched while the game runs.
LEMMA ToggleStacks ==
  ASSUME PatchesNest, PatchInv, Once', NEW m \in Modules, NEW i \in DOMAIN Ops(m), Toggle(m, i)
  PROVE  PatchInv' /\ (Pushed(<<m, i>>) \/ Popped(<<m, i>>))
<1>1. /\ phase = "game" /\ phase' = "game" /\ loaded' = loaded
      /\ m \in Range(loaded) /\ m \notin Refusing /\ Ops(m)[i].kind = "toggle"
      /\ IF <<m, i>> \in applied THEN Disable(m, i) ELSE Enable(m, i)
  BY DEF Toggle
<1>2. IsPatch(m, i) /\ <<m, i>> \in PatchSites
  BY <1>1, SiteOf DEF IsPatch
<1>3. IsStatic(m, i)
  BY <1>1, TogglesAreStatic
<1>4. InEffect(m, i) /\ \A n, j : InEffect(n, j)' <=> InEffect(n, j)
  BY <1>1 DEF InEffect, Range
<1>5. ASSUME NEW q \in On, q # <<m, i>>, At(q) = At(<<m, i>>)
      PROVE  q[2] < i
  <2>1. q \in PatchSites /\ q[2] \in Nat /\ i \in Nat
    BY <1>2, SiteTyped DEF On
  <2>2. q[2] # i /\ (i < q[2] => Ops(m)[i].kind = "patch")
    BY <1>2, <1>5, <2>1, Nested
  <2> QED BY <1>1, <2>1, <2>2
<1>6. phase # "fatal" /\ phase' # "fatal"
  BY <1>1
<1>7. CASE <<m, i>> \in applied
  <2>1. Disable(m, i) /\ <<m, i>> \in On
    BY <1>1, <1>2, <1>4, <1>7 DEF On
  <2> QED BY <1>1, <1>2, <1>3, <1>4, <1>5, <1>6, <2>1, DisablePops
<1>8. CASE <<m, i>> \notin applied
  <2>1. Enable(m, i) /\ <<m, i>> \notin On
    BY <1>1, <1>2, <1>3, <1>8 DEF On
  <2> QED BY <1>1, <1>2, <1>4, <1>5, <1>6, <2>1, EnablePushes
<1> QED BY <1>7, <1>8

-----------------------------------------------------------------------------
\* Loading adds a module of which nothing is attached yet.
LEMMA LoadModuleStacks ==
  ASSUME PatchInv, Once', NEW m \in Modules, LoadModule(m)
  PROVE  PatchInv' /\ On' = On
<1>1. /\ phase = "load" /\ file <= Len(Disc) /\ m = Disc[file] /\ loaded' = Append(loaded, m)
      /\ UNCHANGED <<cur, mem, saved, applied>>
      /\ IF m \in Refusing THEN phase' = "load" ELSE phase' = "attach" /\ pc' = 1
  BY DEF LoadModule
<1>2. Once
  BY DEF PatchInv
<1>3. /\ Len(loaded') = Len(loaded) + 1 /\ loaded'[Len(loaded')] = m /\ Len(loaded) \in Nat
      /\ DOMAIN loaded = 1 .. Len(loaded) /\ DOMAIN loaded' = 1 .. Len(loaded) + 1
      /\ \A k \in DOMAIN loaded : loaded'[k] = loaded[k]
  BY <1>1, <1>2, LoadedOnce
<1>4. \A k \in DOMAIN loaded : k \in DOMAIN loaded' /\ k # Len(loaded')
  BY <1>3
<1>5. \A k \in DOMAIN loaded' : k \in DOMAIN loaded \/ k = Len(loaded')
  BY <1>3
<1>6. ASSUME NEW p \in PatchSites
      PROVE  InEffect(p[1], p[2])' <=> InEffect(p[1], p[2])
  <2>1. p[1] \notin Refusing /\ p[2] \in Nat \ {0}
    BY SiteTyped
  <2>2. InEffect(p[1], p[2]) <=> \E k \in DOMAIN loaded : loaded[k] = p[1]
    BY <1>1 DEF InEffect
  <2>3. InEffect(p[1], p[2])' <=>
          \E k \in DOMAIN loaded' :
            loaded'[k] = p[1] /\ (m \notin Refusing /\ k = Len(loaded') => p[2] < 1)
    BY <1>1 DEF InEffect
  <2>4. ~(p[2] < 1)
    BY <2>1
  <2> QED BY <1>3, <1>4, <1>5, <2>1, <2>2, <2>3, <2>4
<1>7. phase # "fatal" /\ phase' # "fatal"
  BY <1>1
<1> QED BY <1>1, <1>6, <1>7, StackKept

\* Where the attaching and the detaching of a module begin and end nothing is switched.
LEMMA BoundaryStacks ==
  ASSUME PatchInv, Once',
         SkipFile \/ StartGame \/ Attached \/ HandleReload \/ ClearModules
           \/ \E m \in Modules : BeginDisable(m) \/ Disabled(m)
  PROVE  PatchInv' /\ On' = On
<1>1. Once /\ DOMAIN loaded = 1 .. Len(loaded) /\ Len(loaded) \in Nat
  BY LenProperties DEF PatchInv, Once
<1>2. \A p \in PatchSites : \E o \in 1 .. Len(Ops(p[1])) :
         o = DetachOrder(p[1], p[2]) /\ p[2] \in 1 .. Len(Ops(p[1])) /\ Len(Ops(p[1])) \in Nat
  BY SiteTyped, DetachOrderBack
<1>3. CASE SkipFile \/ StartGame
  <2>1. /\ phase = "load" /\ phase' \in {"load", "game"} /\ UNCHANGED <<loaded, mem, saved, applied>>
    BY <1>3 DEF SkipFile, StartGame
  <2>2. \A m, i : InEffect(m, i)' <=> InEffect(m, i)
    BY <2>1 DEF InEffect
  <2> QED BY <2>1, <2>2, StackKept
<1>4. CASE Attached
  <2>1. /\ phase = "attach" /\ phase' = "load" /\ UNCHANGED <<loaded, mem, saved, applied>>
        /\ pc > Len(Ops(Last(loaded))) /\ pc \in Nat
    BY <1>1, <1>4 DEF Attached, Once
  <2>2. ASSUME NEW p \in PatchSites
        PROVE  InEffect(p[1], p[2])' <=> InEffect(p[1], p[2])
    <3>1. loaded[Len(loaded)] = p[1] => p[2] < pc
      BY <1>2, <2>1 DEF Last
    <3> QED BY <2>1, <3>1 DEF InEffect
  <2> QED BY <2>1, <2>2, StackKept
<1>5. CASE HandleReload
  <2>1. /\ phase = "game" /\ phase' = "detach" /\ UNCHANGED <<loaded, mem, saved, applied>>
        /\ cur' = 1 /\ pc' = 0
    BY <1>5 DEF HandleReload
  <2>2. ASSUME NEW p \in PatchSites
        PROVE  InEffect(p[1], p[2])' <=> InEffect(p[1], p[2])
    <3>1. DetachOrder(p[1], p[2]) >= 0
      BY <1>2
    <3>2. \A k \in DOMAIN loaded : k > 1 \/ k = 1
      BY <1>1
    <3> QED BY <2>1, <3>1, <3>2 DEF InEffect
  <2> QED BY <2>1, <2>2, StackKept
<1>6. CASE ClearModules
  <2>1. /\ phase = "detach" /\ phase' = "game" /\ loaded' = <<>> /\ UNCHANGED <<mem, saved, applied>>
        /\ cur > Len(loaded) /\ cur \in Nat
    BY <1>1, <1>6 DEF ClearModules, Once
  <2>2. \A k \in DOMAIN loaded : ~(k > cur) /\ k # cur
    BY <1>1, <2>1
  <2>3. \A m, i : ~InEffect(m, i) /\ ~InEffect(m, i)'
    BY <2>1, <2>2 DEF InEffect
  <2> QED BY <2>1, <2>3, StackKept
<1>7. ASSUME NEW m \in Modules, BeginDisable(m)
      PROVE  PatchInv' /\ On' = On
  <2>1. /\ phase = "detach" /\ phase' = "detach" /\ UNCHANGED <<loaded, mem, saved, applied>>
        /\ cur <= Len(loaded) /\ m = loaded[cur] /\ pc = 0 /\ cur \in Nat
        /\ IF m \in Refusing THEN cur' = cur + 1 /\ pc' = 0 ELSE pc' = 1 /\ cur' = cur
    BY <1>1, <1>7 DEF BeginDisable, Disabling, Once
  <2>2. ASSUME NEW p \in PatchSites
        PROVE  InEffect(p[1], p[2])' <=> InEffect(p[1], p[2])
    <3> DEFINE o == DetachOrder(p[1], p[2])
    <3>1. p[1] \notin Refusing /\ o \in Nat /\ o >= 0 /\ o >= 1
      BY <1>2, SiteTyped
    <3>2. InEffect(p[1], p[2]) <=> \E k \in DOMAIN loaded : loaded[k] = p[1] /\ (k > cur \/ k = cur)
      BY <2>1, <3>1 DEF InEffect
    <3>3. CASE m \in Refusing
      <4>1. InEffect(p[1], p[2])' <=>
              \E k \in DOMAIN loaded : loaded[k] = p[1] /\ (k > cur + 1 \/ k = cur + 1)
        BY <2>1, <3>1, <3>3 DEF InEffect
      <4>2. \A k \in DOMAIN loaded : (k > cur + 1 \/ k = cur + 1) <=> k > cur
        BY <1>1, <2>1
      <4> QED BY <2>1, <3>1, <3>2, <3>3, <4>1, <4>2
    <3>4. CASE m \notin Refusing
      BY <2>1, <3>1, <3>2, <3>4 DEF InEffect
    <3> QED BY <3>3, <3>4
  <2> QED BY <2>1, <2>2, StackKept
<1>8. ASSUME NEW m \in Modules, Disabled(m)
      PROVE  PatchInv' /\ On' = On
  <2>1. /\ phase = "detach" /\ phase' = "detach" /\ UNCHANGED <<loaded, mem, saved, applied>>
        /\ m = loaded[cur] /\ pc > Len(Ops(m)) /\ cur \in Nat /\ pc \in Nat
        /\ cur' = cur + 1 /\ pc' = 0
    BY <1>1, <1>8 DEF Disabled, Disabling, Once
  <2>2. ASSUME NEW p \in PatchSites
        PROVE  InEffect(p[1], p[2])' <=> InEffect(p[1], p[2])
    <3> DEFINE o == DetachOrder(p[1], p[2])
    <3>1. o >= 0 /\ (p[1] = m => ~(o >= pc))
      BY <1>2, <2>1
    <3>2. InEffect(p[1], p[2]) <=>
            \E k \in DOMAIN loaded : loaded[k] = p[1] /\ (k > cur \/ (k = cur /\ o >= pc))
      BY <2>1 DEF InEffect
    <3>3. InEffect(p[1], p[2])' <=>
            \E k \in DOMAIN loaded : loaded[k] = p[1] /\ (k > cur + 1 \/ k = cur + 1)
      BY <2>1, <3>1 DEF InEffect
    <3>4. \A k \in DOMAIN loaded : (k > cur + 1 \/ k = cur + 1) <=> k > cur
      BY <1>1, <2>1
    <3> QED BY <2>1, <3>1, <3>2, <3>3, <3>4
  <2> QED BY <2>1, <2>2, StackKept
<1> QED BY <1>3, <1>4, <1>5, <1>6, <1>7, <1>8

\* A step that stops the program leaves memory alone and takes no module away.
LEMMA FatalStaysSafe ==
  ASSUME PatchInv, Once', phase # "detach", phase # "fatal", phase' = "fatal",
         UNCHANGED <<mem, saved>>,
         \/ loaded' = loaded
         \/ \E m \in Modules : loaded' = Append(loaded, m)
  PROVE  PatchInv'
<1>1. Once /\ NoDanglingPatch
  BY StackIsSafe DEF PatchInv
<1>2. \A k \in DOMAIN loaded : k \in DOMAIN loaded' /\ loaded'[k] = loaded[k]
  <2>1. ASSUME NEW m \in Modules, loaded' = Append(loaded, m)
        PROVE  \A k \in DOMAIN loaded : k \in DOMAIN loaded' /\ loaded'[k] = loaded[k]
    <3>1. /\ loaded \in Seq(Modules) /\ loaded' \in Seq(Modules) /\ Len(loaded') = Len(loaded) + 1
          /\ \A i \in 1 .. Len(loaded) : loaded'[i] = loaded[i]
      BY <1>1, <2>1, AppendProperties DEF Once
    <3>2. DOMAIN loaded = 1 .. Len(loaded) /\ DOMAIN loaded' = 1 .. Len(loaded) + 1
          /\ Len(loaded) \in Nat
      BY <3>1, LenProperties
    <3> QED BY <3>1, <3>2
  <2> QED BY <2>1
<1>3. Active \subseteq Active'
  <2>1. Active = {loaded[i] : i \in DOMAIN loaded} \ Refusing
    BY DEF Active
  <2>2. Active' = {loaded'[i] : i \in DOMAIN loaded'} \ Refusing
    BY DEF Active
  <2> QED BY <1>2, <2>1, <2>2
<1>4. NoDanglingPatch'
  BY <1>1, <1>3 DEF NoDanglingPatch
<1> QED BY <1>4 DEF PatchInv, Shapes

\* Every step keeps the patches of each address a stack.
LEMMA StepKeepsStacks ==
  ASSUME PatchesNest, PatchInv, [Next]_vars
  PROVE  PatchInv'
<1>1. Once'
  BY StepOnce DEF PatchInv
<1>2. CASE NoModsFolder
  BY <1>1, <1>2, FatalStaysSafe DEF NoModsFolder
<1>3. ASSUME NEW m \in Modules, LoadFails(m)
      PROVE  PatchInv'
  BY <1>1, <1>3, FatalStaysSafe DEF LoadFails
<1>4. CASE SkipFile \/ StartGame \/ Attached \/ HandleReload \/ ClearModules
  BY <1>1, <1>4, BoundaryStacks
<1>5. ASSUME NEW m \in Modules, BeginDisable(m) \/ Disabled(m)
      PROVE  PatchInv'
  BY <1>1, <1>5, BoundaryStacks
<1>6. ASSUME NEW m \in Modules, LoadModule(m)
      PROVE  PatchInv'
  BY <1>1, <1>6, LoadModuleStacks
<1>7. ASSUME NEW m \in Modules, AttachPatch(m)
      PROVE  PatchInv'
  BY <1>1, <1>7, AttachPatchStacks
<1>8. ASSUME NEW m \in Modules, DetachPatch(m)
      PROVE  PatchInv'
  BY <1>1, <1>8, DetachPatchUnstacks
<1>9. ASSUME NEW m \in Modules, NEW i \in DOMAIN Ops(m), Toggle(m, i)
      PROVE  PatchInv'
  BY <1>1, <1>9, ToggleStacks
<1>10. ASSUME NEW m \in Modules, AttachExport(m) \/ AttachCall(m)
       PROVE  PatchInv'
  <2>1. /\ phase = "attach" /\ m = Last(loaded) /\ pc <= Len(Ops(m)) /\ pc' = pc + 1
        /\ Ops(m)[pc].kind \in {"export", "load", "unload"} /\ phase' \in {"attach", "fatal"}
        /\ phase' = "fatal" => mem' = mem
        /\ UNCHANGED <<cur, loaded, saved, applied>>
    BY <1>10 DEF AttachExport, AttachCall, Attaching
  <2>2. mem' = mem \/ mem' = [mem EXCEPT ![HandlerAddress] = HandlerBranch]
    BY <1>10, CallWrites DEF AttachExport, AttachCall
  <2>3. pc \in DOMAIN Ops(m) /\ ~IsPatch(m, pc)
    <3>1. pc \in Nat \ {0}
      BY <2>1 DEF PatchInv, Once
    <3> QED BY <2>1, <3>1, DeclarationsTyped, LenProperties DEF IsPatch
  <2>4. CASE phase' = "fatal"
    BY <1>1, <2>1, <2>4, FatalStaysSafe
  <2>5. CASE phase' = "attach"
    BY <1>1, <2>1, <2>2, <2>3, <2>5, OtherDeclaration
  <2> QED BY <2>1, <2>4, <2>5
<1>11. ASSUME NEW m \in Modules, DetachExport(m) \/ DetachCall(m)
       PROVE  PatchInv'
  <2>1. /\ Disabling(m) /\ pc \in DOMAIN Ops(m) /\ pc' = pc + 1
        /\ Ops(m)[DetachOrder(m, pc)].kind \in {"export", "load", "unload"}
        /\ UNCHANGED <<phase, cur, loaded, saved, applied>>
    BY <1>11 DEF DetachExport, DetachCall, Detaching
  <2>2. mem' = mem \/ mem' = [mem EXCEPT ![HandlerAddress] = HandlerBranch]
    BY <1>11, CallWrites DEF DetachExport, DetachCall
  <2>3. ~IsPatch(m, DetachOrder(m, pc))
    BY <2>1 DEF IsPatch
  <2> QED BY <1>1, <2>1, <2>2, <2>3, OtherDeclaration
<1>12. ASSUME NEW api \in GameCalls, GameCall(api)
       PROVE  PatchInv'
  <2>1. phase = "game" /\ UNCHANGED <<phase, loaded, saved, applied>>
    BY <1>12 DEF GameCall
  <2>2. mem' = mem \/ mem' = [mem EXCEPT ![HandlerAddress] = HandlerBranch]
    BY <1>12, CallWrites DEF GameCall
  <2>3. \A m, i : InEffect(m, i)' <=> InEffect(m, i)
    BY <2>1 DEF InEffect
  <2> QED BY <1>1, <2>1, <2>2, <2>3, StackKept
<1>13. CASE UNCHANGED vars
  <2>1. On' = On /\ (NoDanglingPatch => NoDanglingPatch')
    BY <1>13 DEF vars, On, InEffect, NoDanglingPatch, Active
  <2> QED BY <1>1, <1>13, <2>1 DEF vars, PatchInv, Shapes
<1> QED BY <1>2, <1>3, <1>4, <1>5, <1>6, <1>7, <1>8, <1>9, <1>10, <1>11, <1>12, <1>13
        DEF Next, Boot, Reload

\* Before the first module is loaded memory holds the game's own words.
LEMMA InitStacks == Init => PatchInv
<1> SUFFICES ASSUME Init PROVE PatchInv
  OBVIOUS
<1>1. /\ phase = "load" /\ file = 1 /\ loaded = <<>> /\ mem = [a \in Addresses |-> Game]
      /\ saved = [m \in Modules |-> [i \in DOMAIN Ops(m) |-> Unsaved]]
  BY DEF Init
<1>2. loaded \in Seq(Modules) /\ DOMAIN loaded = {}
  BY <1>1
<1>3. Once
  BY <1>1, <1>2 DEF Once
<1>4. Shapes /\ mem[HandlerAddress] = Game
  BY <1>1, ModuleAssumption DEF Shapes, Word0, Words
<1>5. On = {}
  BY <1>2 DEF On, InEffect
<1>6. Stack(On, mem, saved)
  BY <1>1, <1>5 DEF Stack, TopWord
<1> QED BY <1>1, <1>3, <1>4, <1>6 DEF PatchInv

\* While the patches nest, no word of memory leads into a module that was disabled or
\* freed (Kernel!NoDanglingPatch).
THEOREM NoPatchDangles ==
  ASSUME PatchesNest
  PROVE  Spec => []NoDanglingPatch
<1>1. PatchInv => NoDanglingPatch
  BY StackIsSafe DEF PatchInv
<1>2. PatchInv /\ [Next]_vars => PatchInv'
  BY StepKeepsStacks
<1> QED BY <1>1, <1>2, InitStacks, PTL DEF Spec

\* While the patches nest, memory holds the last declared patch of each address that
\* was not switched off (Kernel!PatchesInEffect).
THEOREM LastPatchRules ==
  ASSUME PatchesNest
  PROVE  Spec => []PatchesInEffect
<1>1. ASSUME PatchInv
      PROVE  PatchesInEffect
  <2> SUFFICES ASSUME phase = "game", NEW a \in Addresses, OnAt(a) # {}
               PROVE  \E p \in OnAt(a) :
                        /\ mem[a] = Word(loaded[p[1]], p[2])
                        /\ \A q \in OnAt(a) : q[1] < p[1] \/ (q[1] = p[1] /\ q[2] <= p[2])
    BY DEF PatchesInEffect
  <2>1. /\ loaded \in Seq(Modules) /\ DOMAIN loaded = 1 .. Len(loaded)
        /\ \A j, k \in DOMAIN loaded : loaded[j] = loaded[k] => j = k
    BY <1>1, LenProperties DEF PatchInv, Once
  <2>2. ASSUME NEW q \in OnAt(a)
        PROVE  /\ q[1] \in DOMAIN loaded /\ <<loaded[q[1]], q[2]>> \in On
               /\ At(<<loaded[q[1]], q[2]>>) = a
    <3>1. PICK k \in DOMAIN loaded : q \in {<<k, i>> : i \in {j \in DOMAIN Ops(loaded[k]) :
             /\ loaded[k] \notin Refusing
             /\ IsPatch(loaded[k], j) /\ Ops(loaded[k])[j].addr = a
             /\ IsStatic(loaded[k], j) => <<loaded[k], j>> \in applied}}
      BY DEF OnAt
    <3>2. PICK i \in DOMAIN Ops(loaded[k]) :
             /\ q = <<k, i>> /\ loaded[k] \notin Refusing
             /\ IsPatch(loaded[k], i) /\ Ops(loaded[k])[i].addr = a
             /\ IsStatic(loaded[k], i) => <<loaded[k], i>> \in applied
      BY <3>1
    <3>3. <<loaded[k], i>> \in PatchSites
      BY <2>1, <3>2, SiteOf, ElementOfSeq
    <3>4. InEffect(loaded[k], i)
      BY DEF InEffect
    <3> QED BY <3>2, <3>3, <3>4 DEF On, At
  <2>3. PICK s \in OnAt(a) : TRUE
    OBVIOUS
  <2>4. a # HandlerAddress /\ <<loaded[s[1]], s[2]>> \in {r \in On : At(r) = a}
    BY <2>2 DEF PatchesNest, On
  <2>5. PICK q \in On : /\ At(q) = a /\ mem[a] = Word(q[1], q[2])
                        /\ \A r \in {r \in On : At(r) = a} : r[2] <= q[2]
    BY <1>1, <2>4 DEF PatchInv, Stack, TopWord
  <2>6. /\ q \in PatchSites /\ q[1] \notin Refusing /\ q[2] \in DOMAIN Ops(q[1])
        /\ IsPatch(q[1], q[2]) /\ q = <<q[1], q[2]>>
        /\ InEffect(q[1], q[2]) /\ (IsStatic(q[1], q[2]) => q \in applied)
    BY SiteTyped DEF On
  <2>7. PICK k \in DOMAIN loaded : loaded[k] = q[1]
    BY <2>6 DEF InEffect
  <2>8. <<k, q[2]>> \in OnAt(a)
    BY <2>5, <2>6, <2>7 DEF OnAt, At
  <2>9. ASSUME NEW r \in OnAt(a)
        PROVE  r[1] = k /\ r[2] <= q[2]
    <3>1. r[1] \in DOMAIN loaded /\ <<loaded[r[1]], r[2]>> \in {u \in On : At(u) = a}
      BY <2>2
    <3>2. r[2] <= q[2]
      BY <2>5, <3>1
    <3>3. loaded[r[1]] = q[1]
      <4>1. <<loaded[r[1]], r[2]>> \in PatchSites
        BY <3>1 DEF On
      <4> QED BY <2>5, <2>6, <3>1, <4>1, Nested
    <3> QED BY <2>1, <2>7, <3>1, <3>2, <3>3
  <2> QED BY <2>5, <2>7, <2>8, <2>9
<1>2. PatchInv /\ [Next]_vars => PatchInv'
  BY StepKeepsStacks
<1> QED BY <1>1, <1>2, InitStacks, PTL DEF Spec

\* While the patches nest, unloading every module brings the game's words back
\* (Kernel!RevertedOnUnload).
THEOREM UnloadingReverts ==
  ASSUME PatchesNest
  PROVE  Spec => []RevertedOnUnload
<1>1. ASSUME PatchInv
      PROVE  RevertedOnUnload
  <2> SUFFICES ASSUME phase = "game", loaded = <<>>, NEW a \in Addresses, a # HandlerAddress
               PROVE  mem[a] = Game
    BY <1>1 DEF RevertedOnUnload, PatchInv
  <2>1. On = {}
    BY DEF On, InEffect
  <2> QED BY <1>1, <2>1 DEF PatchInv, Stack, TopWord
<1>2. PatchInv /\ [Next]_vars => PatchInv'
  BY StepKeepsStacks
<1> QED BY <1>1, <1>2, InitStacks, PTL DEF Spec

-----------------------------------------------------------------------------
\* The word of the topmost patch is the one that Overlay works out.
LEMMA ShownIsTop ==
  ASSUME PatchesNest, NEW S \in SUBSET PatchSites, NEW a, NEW w,
         TopWord(w, {q \in S : At(q) = a})
  PROVE  w = O!Shown(S, a)
<1> DEFINE Highest(p) == At(p) = a /\ \A q \in S \ {p} : At(q) = At(p) => q[2] < p[2]
<1>1. O!Shown(S, a) =
        IF \E p \in S : At(p) = a
        THEN [p \in PatchSites |-> Word(p[1], p[2])][CHOOSE p \in S : Highest(p)]
        ELSE Game
  <2>1. \A p \in S : /\ [q \in PatchSites |-> At(q)][p] = At(p)
                     /\ [q \in PatchSites |-> q[2]][p] = p[2]
    OBVIOUS
  <2>2. \A p \in S : /\ ([q \in PatchSites |-> At(q)][p] = a /\ O!Uppermost(p, S)) <=> Highest(p)
    BY <2>1 DEF O!Uppermost
  <2> DEFINE c == CHOOSE p \in S : [q \in PatchSites |-> At(q)][p] = a /\ O!Uppermost(p, S)
             W == [p \in PatchSites |-> Word(p[1], p[2])]
             There == \E p \in S : [q \in PatchSites |-> At(q)][p] = a
  <2>3. O!Shown(S, a) = IF There THEN W[c] ELSE Game
    BY DEF O!Shown
  <2>4. c = CHOOSE p \in S : Highest(p)
    BY <2>2
  <2>5. There <=> \E p \in S : At(p) = a
    BY <2>1
  <2> HIDE DEF c, There, Highest
  <2> QED BY <2>3, <2>4, <2>5
<1>2. CASE {q \in S : At(q) = a} = {}
  BY <1>1, <1>2 DEF TopWord
<1>3. CASE {q \in S : At(q) = a} # {}
  <2>1. PICK q \in S : /\ At(q) = a /\ w = Word(q[1], q[2])
                       /\ \A r \in {r \in S : At(r) = a} : r[2] <= q[2]
    BY <1>3 DEF TopWord
  <2>2. Highest(q)
    <3> SUFFICES ASSUME NEW r \in S \ {q}, At(r) = At(q) PROVE r[2] < q[2]
      BY <2>1
    <3>1. r[2] # q[2] /\ r[2] \in Nat /\ q[2] \in Nat /\ r[2] <= q[2]
      BY <2>1, Nested, SiteTyped
    <3> QED BY <3>1
  <2>3. ASSUME NEW p \in S, Highest(p)
        PROVE  p = q
    <3> SUFFICES ASSUME p # q PROVE FALSE
      OBVIOUS
    <3>1. p[2] < q[2] /\ q[2] < p[2] /\ p[2] \in Nat /\ q[2] \in Nat
      BY <2>1, <2>2, <2>3, SiteTyped
    <3> QED BY <3>1
  <2> HIDE DEF Highest
  <2>4. (CHOOSE p \in S : Highest(p)) = q
    BY <2>2, <2>3
  <2> QED BY <1>1, <2>1, <2>4
<1> QED BY <1>2, <1>3

\* Outside the hook, memory shows the patches that are on.
LEMMA MemoryShown ==
  ASSUME PatchesNest, NEW S \in SUBSET PatchSites, NEW memory, NEW kept, Stack(S, memory, kept)
  PROVE  [a \in Addresses \ {HandlerAddress} |-> memory[a]] =
           [a \in Addresses \ {HandlerAddress} |-> O!Shown(S, a)]
<1>1. \A a \in Addresses \ {HandlerAddress} : memory[a] = O!Shown(S, a)
  BY ShownIsTop DEF Stack
<1> QED BY <1>1

\* Loading adds a module to those whose patches may be on.
LEMMA LoadModuleEnters ==
  ASSUME Once, NEW m \in Modules, LoadModule(m)
  PROVE  /\ m \notin Active
         /\ Active' = IF m \in Refusing THEN Active ELSE Active \cup {m}
<1>1. /\ phase = "load" /\ phase' # "detach" /\ file <= Len(Disc) /\ m = Disc[file]
      /\ loaded' = Append(loaded, m)
  BY DEF LoadModule
<1>2. /\ \A j, k \in DOMAIN loaded' : loaded'[j] = loaded'[k] => j = k
      /\ loaded'[Len(loaded) + 1] = m /\ Len(loaded) \in Nat
      /\ DOMAIN loaded = 1 .. Len(loaded) /\ DOMAIN loaded' = 1 .. Len(loaded) + 1
      /\ \A k \in DOMAIN loaded : loaded'[k] = loaded[k]
  BY <1>1, LoadedOnce
<1>3. /\ \A k \in DOMAIN loaded : k \in DOMAIN loaded' /\ k # Len(loaded) + 1
      /\ \A k \in DOMAIN loaded' : k \in DOMAIN loaded \/ k = Len(loaded) + 1
      /\ Len(loaded) + 1 \in DOMAIN loaded'
  BY <1>2
<1>4. \A k \in DOMAIN loaded : loaded[k] # m
  BY <1>2, <1>3
<1>5. Active = {loaded[k] : k \in DOMAIN loaded} \ Refusing
  BY <1>1 DEF Active
<1>6. Active' = {loaded'[k] : k \in DOMAIN loaded'} \ Refusing
  BY <1>1 DEF Active
<1>7. {loaded'[k] : k \in DOMAIN loaded'} = {loaded[k] : k \in DOMAIN loaded} \cup {m}
  BY <1>2, <1>3
<1> QED BY <1>4, <1>5, <1>6, <1>7

\* A module that was disabled has no patch left, and is the one that goes.
LEMMA DisabledLeaves ==
  ASSUME Once, NEW m \in Modules, Disabled(m)
  PROVE  /\ m \in Active /\ Active' = Active \ {m}
         /\ \A p \in On : p[1] # m
<1>1. /\ phase = "detach" /\ phase' = "detach" /\ loaded' = loaded /\ cur' = cur + 1
      /\ cur <= Len(loaded) /\ m = loaded[cur] /\ pc > Len(Ops(m))
  BY DEF Disabled, Disabling
<1>2. /\ DOMAIN loaded = 1 .. Len(loaded) /\ Len(loaded) \in Nat /\ cur \in Nat \ {0} /\ pc \in Nat
      /\ \A j, k \in DOMAIN loaded : loaded[j] = loaded[k] => j = k
  BY <1>1, LenProperties DEF Once
<1>3. cur \in DOMAIN loaded
  BY <1>1, <1>2
<1>4. Ops(m) \in Seq(Op) /\ Len(Ops(m)) \in Nat
  BY DeclarationsTyped, LenProperties
<1>5. m \notin Refusing
  <2>1. pc # 0
    BY <1>1, <1>2, <1>4
  <2> QED BY <1>1, <1>3, <2>1 DEF Once
<1>6. \A k \in DOMAIN loaded : (k >= cur <=> k >= cur + 1 \/ k = cur) /\ (k >= cur + 1 => k # cur)
  BY <1>2
<1>7. Active = {loaded[k] : k \in {j \in DOMAIN loaded : j >= cur}} \ Refusing
  BY <1>1 DEF Active
<1>8. Active' = {loaded[k] : k \in {j \in DOMAIN loaded : j >= cur + 1}} \ Refusing
  BY <1>1 DEF Active
<1>9. {loaded[k] : k \in {j \in DOMAIN loaded : j >= cur + 1}} =
        {loaded[k] : k \in {j \in DOMAIN loaded : j >= cur}} \ {m}
  BY <1>1, <1>2, <1>3, <1>6
<1>10. m \in Active /\ Active' = Active \ {m}
  BY <1>1, <1>3, <1>5, <1>6, <1>7, <1>8, <1>9
<1>11. ASSUME NEW p \in On, p[1] = m
       PROVE  FALSE
  <2>1. /\ p[2] \in DOMAIN Ops(m) /\ InEffect(m, p[2])
    BY <1>11, SiteTyped DEF On
  <2>2. PICK k \in DOMAIN loaded :
          loaded[k] = m /\ (k > cur \/ (k = cur /\ DetachOrder(m, p[2]) >= pc))
    BY <1>1, <2>1 DEF InEffect
  <2>3. k = cur
    BY <1>1, <1>2, <1>3, <2>2
  <2>4. DetachOrder(m, p[2]) \in 1 .. Len(Ops(m))
    BY <2>1, DetachOrderBack
  <2> QED BY <1>1, <1>2, <1>4, <2>2, <2>3, <2>4
<1> QED BY <1>10, <1>11

\* No other step moves a module in or out.
LEMMA ActiveStays ==
  ASSUME Once, phase' # "fatal",
         \/ SkipFile \/ StartGame \/ Attached \/ HandleReload \/ ClearModules
         \/ \E m \in Modules :
              \/ AttachPatch(m) \/ AttachExport(m) \/ AttachCall(m)
              \/ BeginDisable(m) \/ DetachPatch(m) \/ DetachExport(m) \/ DetachCall(m)
         \/ \E api \in GameCalls : GameCall(api)
         \/ \E m \in Modules : \E i \in DOMAIN Ops(m) : Toggle(m, i)
  PROVE  Active' = Active
<1>1. DOMAIN loaded = 1 .. Len(loaded) /\ Len(loaded) \in Nat
  BY LenProperties DEF Once
<1>2. ASSUME phase # "detach", phase' # "detach", loaded' = loaded
      PROVE  Active' = Active
  BY <1>2 DEF Active
<1>3. ASSUME phase = "detach", phase' = "detach", UNCHANGED <<loaded, cur>>
      PROVE  Active' = Active
  BY <1>3 DEF Active
<1>4. CASE SkipFile \/ StartGame \/ Attached
  BY <1>2, <1>4 DEF SkipFile, StartGame, Attached
<1>5. CASE \E m \in Modules : AttachPatch(m) \/ AttachExport(m) \/ AttachCall(m)
  BY <1>2, <1>5 DEF AttachPatch, AttachExport, AttachCall, Attaching
<1>6. CASE (\E api \in GameCalls : GameCall(api))
             \/ \E m \in Modules : \E i \in DOMAIN Ops(m) : Toggle(m, i)
  BY <1>2, <1>6 DEF GameCall, Toggle
<1>7. CASE \E m \in Modules : DetachPatch(m) \/ DetachExport(m) \/ DetachCall(m)
  BY <1>3, <1>7 DEF DetachPatch, DetachExport, DetachCall, Detaching, Disabling
<1>8. CASE HandleReload
  <2>1. phase = "game" /\ phase' = "detach" /\ cur' = 1 /\ loaded' = loaded
    BY <1>8 DEF HandleReload
  <2>2. \A j \in DOMAIN loaded : j >= 1
    BY <1>1
  <2> QED BY <2>1, <2>2 DEF Active
<1>9. CASE ClearModules
  <2>1. /\ phase = "detach" /\ phase' = "game" /\ loaded' = <<>> /\ cur > Len(loaded) /\ cur \in Nat
    BY <1>9 DEF ClearModules, Once
  <2>2. \A j \in DOMAIN loaded : ~(j >= cur)
    BY <1>1, <2>1
  <2>3. Active = {} /\ Active' = {}
    BY <2>1, <2>2 DEF Active
  <2> QED BY <2>3
<1>10. ASSUME NEW m \in Modules, BeginDisable(m)
       PROVE  Active' = Active
  <2>1. /\ phase = "detach" /\ phase' = "detach" /\ loaded' = loaded /\ cur \in Nat
        /\ m = loaded[cur] /\ (cur' = cur \/ (m \in Refusing /\ cur' = cur + 1))
    BY <1>10 DEF BeginDisable, Disabling, Once
  <2>2. CASE cur' = cur
    BY <1>3, <2>1, <2>2
  <2>3. CASE m \in Refusing /\ cur' = cur + 1
    <3>1. \A j \in DOMAIN loaded : j >= cur <=> j >= cur + 1 \/ j = cur
      BY <1>1, <2>1
    <3>2. Active = {loaded[k] : k \in {j \in DOMAIN loaded : j >= cur}} \ Refusing
      BY <2>1 DEF Active
    <3>3. Active' = {loaded[k] : k \in {j \in DOMAIN loaded : j >= cur + 1}} \ Refusing
      BY <2>1, <2>3 DEF Active
    <3> QED BY <2>1, <2>3, <3>1, <3>2, <3>3
  <2> QED BY <2>1, <2>2, <2>3
<1> QED BY <1>4, <1>5, <1>6, <1>7, <1>8, <1>9, <1>10

-----------------------------------------------------------------------------
\* Only patches are switched on.
LEMMA OnlySites == On \in SUBSET PatchSites /\ On' \in SUBSET PatchSites
BY DEF On

\* While the kernel runs memory shows the patches that are on, after a step as well.
LEMMA OnShown ==
  ASSUME PatchesNest, PatchInv', Running'
  PROVE  [a \in Addresses \ {HandlerAddress} |-> mem'[a]] =
           [a \in Addresses \ {HandlerAddress} |-> O!Shown(On', a)]
<1>1. Stack(On', mem', saved') /\ On' \in SUBSET PatchSites
  BY OnlySites DEF PatchInv, Running
<1> QED BY <1>1, MemoryShown

\* A step that switches nothing does not change what memory shows.
LEMMA NothingShown ==
  ASSUME PatchesNest, PatchInv, PatchInv', Running, Running', On' = On
  PROVE  [a \in Addresses \ {HandlerAddress} |-> mem'[a]] =
           [a \in Addresses \ {HandlerAddress} |-> mem[a]]
<1>1. Stack(On, mem, saved) /\ Stack(On, mem', saved') /\ On \in SUBSET PatchSites
  BY OnlySites DEF PatchInv, Running
<1> QED BY <1>1, MemoryShown

\* Switching a patch on the top of its address is what Overlay does.
LEMMA PushRefines ==
  ASSUME PatchesNest, PatchInv', Running, Running', Active' = Active,
         NEW p \in PatchSites, p[1] \in Active, Pushed(p)
  PROVE  O!Next
<1>1. On' = On \cup {p} /\ p \notin On
  BY DEF Pushed
<1>2. [a \in Addresses \ {HandlerAddress} |-> mem'[a]] =
        [a \in Addresses \ {HandlerAddress} |-> O!Shown(On \cup {p}, a)]
  BY <1>1, OnShown
<1>3. O!Uppermost(p, On)
  BY OnlySites DEF O!Uppermost, Pushed
<1>4. [q \in PatchSites |-> q[1]][p] \in Active
  OBVIOUS
<1>5. O!SwitchOn(p)
  BY <1>1, <1>2, <1>3, <1>4 DEF O!SwitchOn, O!Switch
<1> QED BY <1>5 DEF O!Next

\* And so is switching one off from there.
LEMMA PopRefines ==
  ASSUME PatchesNest, PatchInv', Running, Running', Active' = Active,
         NEW p \in PatchSites, Popped(p)
  PROVE  O!Next
<1>1. On' = On \ {p} /\ p \in On
  BY DEF Popped
<1>2. [a \in Addresses \ {HandlerAddress} |-> mem'[a]] =
        [a \in Addresses \ {HandlerAddress} |-> O!Shown(On \ {p}, a)]
  BY <1>1, OnShown
<1>3. O!Uppermost(p, On)
  BY OnlySites DEF O!Uppermost, Popped
<1>4. O!SwitchOff(p)
  BY <1>1, <1>2, <1>3 DEF O!SwitchOff, O!Switch
<1> QED BY <1>4 DEF O!Next

\* A step that switches nothing and moves no module is none of Overlay's.
LEMMA OtherStutters ==
  ASSUME PatchesNest, PatchInv, PatchInv', Running, Running', On' = On, Active' = Active
  PROVE  UNCHANGED O!vars
BY NothingShown DEF O!vars

\* Every step is one of Overlay's or none.
LEMMA StepRefines ==
  ASSUME PatchesNest, PatchInv, [Next]_vars
  PROVE  [O!Next]_O!vars
<1>1. Once /\ PatchInv'
  BY StepKeepsStacks DEF PatchInv
<1>2. CASE UNCHANGED vars
  BY <1>2 DEF vars, O!vars, Running, Active, On, InEffect
<1>3. ASSUME phase # "fatal", phase' = "fatal", mem' = mem
      PROVE  O!Next
  BY <1>3 DEF O!Next, O!Halt, Running
<1>4. CASE NoModsFolder
  BY <1>3, <1>4 DEF NoModsFolder
<1>5. ASSUME NEW m \in Modules, LoadFails(m)
      PROVE  O!Next
  BY <1>3, <1>5 DEF LoadFails
<1>6. CASE SkipFile \/ StartGame \/ Attached \/ HandleReload \/ ClearModules
  <2>1. Running /\ Running'
    BY <1>6 DEF SkipFile, StartGame, Attached, HandleReload, ClearModules, Running
  <2>2. On' = On /\ Active' = Active
    BY <1>1, <1>6, <2>1, BoundaryStacks, ActiveStays, StepOnce DEF Running, PatchInv
  <2> QED BY <1>1, <2>1, <2>2, OtherStutters
<1>7. ASSUME NEW m \in Modules, BeginDisable(m)
      PROVE  UNCHANGED O!vars
  <2>1. Running /\ Running'
    BY <1>7 DEF BeginDisable, Disabling, Running
  <2>2. On' = On /\ Active' = Active
    BY <1>1, <1>7, <2>1, BoundaryStacks, ActiveStays DEF Running, PatchInv
  <2> QED BY <1>1, <2>1, <2>2, OtherStutters
<1>8. ASSUME NEW m \in Modules, Disabled(m)
      PROVE  O!Next
  <2>1. Running /\ Running'
    BY <1>8 DEF Disabled, Disabling, Running
  <2>2. On' = On
    BY <1>1, <1>8, BoundaryStacks DEF PatchInv
  <2>3. m \in Active /\ Active' = Active \ {m} /\ \A p \in On : p[1] # m
    BY <1>1, <1>8, DisabledLeaves
  <2>4. [a \in Addresses \ {HandlerAddress} |-> mem'[a]] =
          [a \in Addresses \ {HandlerAddress} |-> mem[a]]
    BY <1>1, <2>1, <2>2, NothingShown
  <2>5. \A p \in On : [q \in PatchSites |-> q[1]][p] # m
    BY <2>3, OnlySites
  <2>6. O!Leave(m)
    BY <2>1, <2>2, <2>3, <2>4, <2>5 DEF O!Leave
  <2> QED BY <2>1, <2>6 DEF O!Next
<1>9. ASSUME NEW m \in Modules, LoadModule(m)
      PROVE  [O!Next]_O!vars
  <2>1. Running /\ Running'
    BY <1>9 DEF LoadModule, Running
  <2>2. On' = On
    BY <1>1, <1>9, LoadModuleStacks DEF PatchInv
  <2>3. m \notin Active /\ Active' = IF m \in Refusing THEN Active ELSE Active \cup {m}
    BY <1>1, <1>9, LoadModuleEnters
  <2>4. CASE m \in Refusing
    BY <1>1, <2>1, <2>2, <2>3, <2>4, OtherStutters
  <2>5. CASE m \notin Refusing
    <3>1. [a \in Addresses \ {HandlerAddress} |-> mem'[a]] =
            [a \in Addresses \ {HandlerAddress} |-> mem[a]]
      BY <1>1, <2>1, <2>2, NothingShown
    <3>2. O!Enter(m)
      BY <2>1, <2>2, <2>3, <2>5, <3>1 DEF O!Enter
    <3> QED BY <2>1, <3>2 DEF O!Next
  <2> QED BY <2>4, <2>5
<1>10. ASSUME NEW m \in Modules, AttachPatch(m)
       PROVE  O!Next
  <2>1. /\ phase = "attach" /\ Running /\ Running' /\ m = Last(loaded)
        /\ pc <= Len(Ops(m)) /\ Ops(m)[pc].kind \in {"patch", "toggle"}
    BY <1>10 DEF AttachPatch, Attaching, Running
  <2>2. Pushed(<<m, pc>>) /\ Active' = Active
    BY <1>1, <1>10, <2>1, AttachPatchStacks, ActiveStays DEF PatchInv, Running
  <2>3. m \in Active /\ m \notin Refusing
    <3>1. /\ loaded # <<>> /\ loaded[Len(loaded)] = m /\ m \notin Refusing
          /\ DOMAIN loaded = 1 .. Len(loaded) /\ Len(loaded) \in Nat
      BY <1>1, <2>1, LenProperties DEF Once, Last
    <3>2. Len(loaded) \in DOMAIN loaded
      BY <1>1, <3>1, EmptySeq DEF Once
    <3> QED BY <2>1, <3>1, <3>2 DEF Active
  <2>4. pc \in DOMAIN Ops(m) /\ IsPatch(m, pc)
    BY <1>1, <2>1, DeclarationsTyped, LenProperties DEF Once, IsPatch
  <2>5. <<m, pc>> \in PatchSites
    BY <2>3, <2>4, SiteOf
  <2> QED BY <1>1, <2>1, <2>2, <2>3, <2>5, PushRefines
<1>11. ASSUME NEW m \in Modules, DetachPatch(m)
       PROVE  [O!Next]_O!vars
  <2>1. Running /\ Running'
    BY <1>11 DEF DetachPatch, Detaching, Disabling, Running
  <2>2. Active' = Active
    BY <1>1, <1>11, <2>1, ActiveStays DEF Running
  <2>3. On' = On \/ Popped(<<m, DetachOrder(m, pc)>>)
    BY <1>1, <1>11, DetachPatchUnstacks DEF PatchInv
  <2>4. ASSUME NEW p, Popped(p)
        PROVE  O!Next
    <3>1. p \in PatchSites
      BY <2>4, OnlySites DEF Popped
    <3> QED BY <1>1, <2>1, <2>2, <2>4, <3>1, PopRefines
  <2>5. CASE On' = On
    BY <1>1, <2>1, <2>2, <2>5, OtherStutters
  <2> QED BY <2>3, <2>4, <2>5
<1>12. ASSUME NEW m \in Modules, NEW i \in DOMAIN Ops(m), Toggle(m, i)
       PROVE  O!Next
  <2>1. /\ phase = "game" /\ Running /\ Running' /\ m \in Range(loaded) \ Refusing
        /\ Ops(m)[i].kind = "toggle"
    BY <1>12 DEF Toggle, Running
  <2>2. Active' = Active
    BY <1>1, <1>12, <2>1, ActiveStays DEF Running
  <2>3. m \in Active
    BY <2>1 DEF Active, Range
  <2>4. <<m, i>> \in PatchSites
    BY <2>1, SiteOf DEF IsPatch
  <2>5. Pushed(<<m, i>>) \/ Popped(<<m, i>>)
    BY <1>1, <1>12, ToggleStacks DEF PatchInv
  <2> QED BY <1>1, <2>1, <2>2, <2>3, <2>4, <2>5, PushRefines, PopRefines
<1>13. ASSUME NEW m \in Modules, AttachExport(m) \/ AttachCall(m)
       PROVE  [O!Next]_O!vars
  <2>1. /\ phase = "attach" /\ m = Last(loaded) /\ pc <= Len(Ops(m)) /\ pc' = pc + 1
        /\ Ops(m)[pc].kind \in {"export", "load", "unload"} /\ phase' \in {"attach", "fatal"}
        /\ phase' = "fatal" => mem' = mem
        /\ UNCHANGED <<cur, loaded, saved, applied>>
    BY <1>13 DEF AttachExport, AttachCall, Attaching
  <2>2. mem' = mem \/ mem' = [mem EXCEPT ![HandlerAddress] = HandlerBranch]
    BY <1>13, CallWrites DEF AttachExport, AttachCall
  <2>3. pc \in DOMAIN Ops(m) /\ ~IsPatch(m, pc)
    BY <1>1, <2>1, DeclarationsTyped, LenProperties DEF Once, IsPatch
  <2>4. CASE phase' = "fatal"
    BY <1>3, <2>1, <2>4
  <2>5. CASE phase' = "attach"
    <3>1. Running /\ Running'
      BY <2>1, <2>5 DEF Running
    <3>2. On' = On
      BY <1>1, <2>1, <2>2, <2>3, <2>5, OtherDeclaration DEF PatchInv
    <3>3. Active' = Active
      BY <1>1, <1>13, <2>5, ActiveStays
    <3> QED BY <1>1, <3>1, <3>2, <3>3, OtherStutters
  <2> QED BY <2>1, <2>4, <2>5
<1>14. ASSUME NEW m \in Modules, DetachExport(m) \/ DetachCall(m)
       PROVE  UNCHANGED O!vars
  <2>1. /\ Disabling(m) /\ pc \in DOMAIN Ops(m) /\ pc' = pc + 1
        /\ Ops(m)[DetachOrder(m, pc)].kind \in {"export", "load", "unload"}
        /\ UNCHANGED <<phase, cur, loaded, saved, applied>>
    BY <1>14 DEF DetachExport, DetachCall, Detaching
  <2>2. mem' = mem \/ mem' = [mem EXCEPT ![HandlerAddress] = HandlerBranch]
    BY <1>14, CallWrites DEF DetachExport, DetachCall
  <2>3. ~IsPatch(m, DetachOrder(m, pc))
    BY <2>1 DEF IsPatch
  <2>4. Running /\ Running'
    BY <2>1 DEF Disabling, Running
  <2>5. On' = On
    BY <1>1, <2>1, <2>2, <2>3, OtherDeclaration DEF PatchInv
  <2>6. Active' = Active
    BY <1>1, <1>14, <2>4, ActiveStays DEF Running
  <2> QED BY <1>1, <2>4, <2>5, <2>6, OtherStutters
<1>15. ASSUME NEW api \in GameCalls, GameCall(api)
       PROVE  UNCHANGED O!vars
  <2>1. phase = "game" /\ UNCHANGED <<phase, loaded, saved, applied>>
    BY <1>15 DEF GameCall
  <2>2. mem' = mem \/ mem' = [mem EXCEPT ![HandlerAddress] = HandlerBranch]
    BY <1>15, CallWrites DEF GameCall
  <2>3. Running /\ Running'
    BY <2>1 DEF Running
  <2>4. \A m, i : InEffect(m, i)' <=> InEffect(m, i)
    BY <2>1 DEF InEffect
  <2>5. On' = On
    BY <1>1, <2>1, <2>2, <2>4, StackKept DEF PatchInv
  <2>6. Active' = Active
    BY <1>1, <1>15, <2>3, ActiveStays DEF Running
  <2> QED BY <1>1, <2>3, <2>5, <2>6, OtherStutters
<1> QED BY <1>2, <1>4, <1>5, <1>6, <1>7, <1>8, <1>9, <1>10, <1>11, <1>12, <1>13, <1>14, <1>15
        DEF Next, Boot, Reload

\* While the patches nest, saving the word of an address and putting it back amounts to
\* laying patches over the game's own words: every step switches at most one of them,
\* changes its word alone, and no module goes while one of its patches is on
\* (Kernel!ImplementsOverlay).
THEOREM PatchesAreOverlays ==
  ASSUME PatchesNest
  PROVE  Spec => ImplementsOverlay
<1>1. Init => O!Init
  <2> SUFFICES ASSUME Init PROVE O!Init
    OBVIOUS
  <2>1. phase = "load" /\ loaded = <<>> /\ mem = [a \in Addresses |-> Game]
    BY DEF Init
  <2>2. Running /\ Active = {} /\ On = {}
    BY <2>1 DEF Running, Active, On, InEffect
  <2> QED BY <2>1, <2>2 DEF O!Init
<1>2. PatchInv /\ [Next]_vars => PatchInv'
  BY StepKeepsStacks
<1>3. PatchInv /\ [Next]_vars => [O!Next]_O!vars
  BY StepRefines
<1> QED BY <1>1, <1>2, <1>3, InitStacks, PTL DEF Spec, ImplementsOverlay, O!Spec

-----------------------------------------------------------------------------
\* The exports made so far.
Exported ==
  {e \in ExportSites :
     e[1] < file \/ (phase = "attach" /\ e[1] = file /\ e[2] < pc)}

\* The entries of the table are the kernel's and those of the exports made so far.
TableBounded ==
  /\ Linking => Len(table) <= Cardinality(KernelSymbols) + Cardinality(Exported)
  /\ Len(table) <= Capacity
  /\ phase = "attach" => file \in DOMAIN Disc /\ Last(loaded) = Disc[file]

\* Declaration i of m was attached since m was loaded.
Ran(m, i) ==
  \E k \in DOMAIN loaded : loaded[k] = m /\ (phase = "attach" /\ k = Len(loaded) => i < pc)

\* What a patch object that is applied has saved is a word of memory, and so is what
\* a patch of a block has saved once the block ran; memory holds nothing but words.
SavedTyped ==
  /\ mem \in [Addresses -> Words] /\ applied \subseteq Modules \X Nat
  /\ DOMAIN saved = Modules
  /\ \A m \in Modules : saved[m] \in [DOMAIN Ops(m) -> Words \cup {Unsaved}]
  /\ \A m \in Modules : \A i \in DOMAIN Ops(m) :
       IsStatic(m, i) /\ <<m, i>> \in applied => saved[m][i] \in Words

WordsTyped ==
  /\ SavedTyped
  /\ phase # "fatal" =>
       \A p \in PatchSites :
         ~IsStatic(p[1], p[2]) /\ Ran(p[1], p[2]) => saved[p[1]][p[2]] \in Words

ControlTyped ==
  /\ phase \in {"load", "attach", "game", "detach", "fatal"}
  /\ file \in 1 .. Len(Disc) + 1 /\ cur \in 1 .. Len(loaded) + 1 /\ pc \in Nat
  /\ DOMAIN linked = Modules
  /\ \A m \in Modules : linked[m] \in [Imports[m] -> Modules \cup {Kernel, Unsaved}]
  /\ ctx \in [Modules -> Stale] /\ pending \in BOOLEAN

TypeInv == Once /\ LinkInv /\ ControlTyped /\ WordsTyped /\ TableBounded

-----------------------------------------------------------------------------
\* A disc has finitely many exports.
LEMMA ExportSitesFinite == IsFiniteSet(ExportSites)
<1> DEFINE J == {k \in DOMAIN Disc : Disc[k] \notin Refusing}
           sites(j) == {<<j, i>> : i \in Exports(Ops(Disc[j]))}
           S == {sites(j) : j \in J}
<1>1. Disc \in Seq(Modules) /\ DOMAIN Disc = 1 .. Len(Disc) /\ Len(Disc) \in Nat
  BY ModuleAssumption, LenProperties
<1>2. IsFiniteSet(J)
  <2>1. J \in SUBSET (1 .. Len(Disc)) /\ Len(Disc) \in Int /\ 1 \in Int
    BY <1>1
  <2> HIDE DEF J
  <2> QED BY <2>1, FS_Interval, FS_Subset
<1>3. IsFiniteSet(S)
  <2> DEFINE h == [j \in J |-> sites(j)]
  <2>1. h \in Surjection(J, S)
    BY DEF Surjection
  <2> HIDE DEF h, S, J
  <2> QED BY <1>2, <2>1, FS_Surjection
<1>4. ASSUME NEW T \in S
      PROVE  IsFiniteSet(T)
  <2>1. PICK j \in J : T = sites(j)
    OBVIOUS
  <2> DEFINE E == Exports(Ops(Disc[j]))
             h == [i \in E |-> <<j, i>>]
  <2>2. IsFiniteSet(E)
    <3>1. Disc[j] \in Modules
      BY <1>1, ElementOfSeq
    <3>2. DOMAIN Ops(Disc[j]) = 1 .. Len(Ops(Disc[j])) /\ Len(Ops(Disc[j])) \in Nat
      BY <3>1, DeclarationsTyped, LenProperties
    <3>3. E \in SUBSET (1 .. Len(Ops(Disc[j]))) /\ Len(Ops(Disc[j])) \in Int /\ 1 \in Int
      BY <3>2 DEF Exports
    <3> HIDE DEF E
    <3> QED BY <3>3, FS_Interval, FS_Subset
  <2>3. h \in Surjection(E, T)
    BY <2>1 DEF Surjection
  <2> HIDE DEF h, E
  <2> QED BY <2>2, <2>3, FS_Surjection
<1>5. ExportSites = UNION S
  BY DEF ExportSites
<1> HIDE DEF S
<1> QED BY <1>3, <1>4, <1>5, FS_UNION

\* The exports made so far are some of them.
LEMMA ExportedCounted ==
  /\ IsFiniteSet(Exported) /\ Cardinality(Exported) \in Nat
  /\ TableFits => Cardinality(KernelSymbols) + Cardinality(Exported) <= Capacity
<1>1. Exported \in SUBSET ExportSites
  BY DEF Exported
<1>2. /\ IsFiniteSet(Exported) /\ Cardinality(Exported) <= Cardinality(ExportSites)
  BY <1>1, ExportSitesFinite, FS_Subset
<1>3. /\ Cardinality(Exported) \in Nat /\ Cardinality(ExportSites) \in Nat
      /\ Cardinality(KernelSymbols) \in Nat
  BY <1>2, ExportSitesFinite, FS_CardinalityType, ModuleAssumption
<1> QED BY <1>2, <1>3, ModuleAssumption DEF TableFits

-----------------------------------------------------------------------------
\* A step that appends at most the export it makes stays inside the table.
LEMMA TableStays ==
  ASSUME TableBounded, TableFits, table \in Seq(Entry), phase' = "attach" => phase = "attach",
         UNCHANGED <<table, loaded>>, Linking' => Exported \subseteq Exported' /\ Linking,
         phase' = "attach" => file' = file
  PROVE  TableBounded'
<1>1. Cardinality(Exported) \in Nat /\ Len(table) \in Nat /\ Cardinality(KernelSymbols) \in Nat
  BY ExportedCounted, LenProperties, FS_CardinalityType, ModuleAssumption
<1>2. ASSUME Linking'
      PROVE  Len(table) <= Cardinality(KernelSymbols) + Cardinality(Exported')
  <2>1. Exported' \subseteq ExportSites
    BY DEF Exported, ExportSites
  <2>2. IsFiniteSet(Exported')
    BY <2>1, ExportSitesFinite, FS_Subset
  <2>3. Cardinality(Exported) <= Cardinality(Exported')
    BY <1>2, <2>2, FS_Subset
  <2>4. Cardinality(Exported') \in Nat
    BY <2>2, FS_CardinalityType
  <2>5. Len(table) <= Cardinality(KernelSymbols) + Cardinality(Exported)
    BY <1>2 DEF TableBounded
  <2> QED BY <1>1, <2>3, <2>4, <2>5
<1>3. Len(table)' <= Capacity
  BY DEF TableBounded
<1> QED BY <1>2, <1>3 DEF TableBounded

\* Exporting appends one entry and makes one export more.
LEMMA ExportFits ==
  ASSUME TypeInv, TableFits, NEW m \in Modules, AttachExport(m)
  PROVE  TableBounded'
<1> PICK i : i = pc
  OBVIOUS
<1> PICK j : j = file
  OBVIOUS
<1>1. /\ phase = "attach" /\ phase' \in {"attach", "fatal"} /\ m = Last(loaded)
      /\ i <= Len(Ops(m)) /\ Ops(m)[i].kind = "export"
      /\ pc' = i + 1 /\ UNCHANGED <<file, loaded>>
      /\ table' = table \/ RegisterProcedure(Ops(m)[i].sym, m)
  BY DEF AttachExport, Attaching
<1>2. /\ i \in Nat \ {0} /\ j \in DOMAIN Disc /\ Disc[j] = m /\ m \notin Refusing /\ j \in Nat
      /\ table \in Seq(Entry) /\ Len(table) \in Nat
  <2>1. j \in DOMAIN Disc /\ Disc[j] = m /\ m \notin Refusing
    BY <1>1 DEF TypeInv, TableBounded, Once, Last
  <2>2. table \in Seq(Entry) /\ i \in Nat \ {0}
    BY <1>1 DEF TypeInv, LinkInv
  <2> QED BY <2>1, <2>2, LenProperties, ModuleAssumption
<1>3. i \in Exports(Ops(Disc[j]))
  BY <1>1, <1>2, DeclarationsTyped, LenProperties DEF Exports
<1> DEFINE e == <<j, i>>
<1>4. e \in ExportSites
  BY <1>2, <1>3 DEF ExportSites
<1>5. e \notin Exported /\ e[1] = j /\ e[2] = i
  BY <1>2 DEF Exported
<1>6. ASSUME phase' = "attach"
      PROVE  Exported \cup {e} \subseteq Exported'
  <2>1. ASSUME NEW d \in Exported \cup {e}
        PROVE  d \in Exported'
    <3>1. d \in ExportSites /\ (d[1] < j \/ (d[1] = j /\ d[2] < i) \/ d = e)
      BY <1>1, <1>4 DEF Exported
    <3>2. d[1] = j /\ d[2] < i => d[2] < i + 1
      <4>1. d[2] \in Nat
        <5>1. PICK k \in {k \in DOMAIN Disc : Disc[k] \notin Refusing} :
                 d \in {<<k, n>> : n \in Exports(Ops(Disc[k]))}
          BY <3>1 DEF ExportSites
        <5>2. d[2] \in DOMAIN Ops(Disc[k]) /\ Disc[k] \in Modules
          BY <5>1, ModuleAssumption, ElementOfSeq, LenProperties DEF Exports
        <5> QED BY <5>2, DeclarationsTyped, LenProperties
      <4> QED BY <1>2, <4>1
    <3>3. i < i + 1
      BY <1>2
    <3> QED BY <1>1, <1>5, <1>6, <3>1, <3>2, <3>3 DEF Exported
  <2> QED BY <2>1
<1>7. /\ IsFiniteSet(Exported \cup {e}) /\ Cardinality(Exported \cup {e}) = Cardinality(Exported) + 1
      /\ Cardinality(Exported) \in Nat /\ Exported \cup {e} \subseteq ExportSites
  <2>1. IsFiniteSet(Exported) /\ Cardinality(Exported) \in Nat
    BY ExportedCounted
  <2>2. Exported \cup {e} \subseteq ExportSites
    BY <1>4 DEF Exported
  <2> HIDE DEF e
  <2> QED BY <1>5, <2>1, <2>2, FS_AddElement
<1> HIDE DEF e
<1>8. Len(table') <= Cardinality(KernelSymbols) + Cardinality(Exported \cup {e})
      /\ Len(table') \in Nat /\ Cardinality(KernelSymbols) \in Nat
  <2>1. Len(table) <= Cardinality(KernelSymbols) + Cardinality(Exported)
    BY <1>1 DEF TypeInv, TableBounded, Linking
  <2>2. Cardinality(KernelSymbols) \in Nat
    BY FS_CardinalityType, ModuleAssumption
  <2>3. Len(table') = Len(table) \/ Len(table') = Len(table) + 1
    <3>1. CASE table' = table
      BY <3>1
    <3>2. CASE RegisterProcedure(Ops(m)[i].sym, m)
      <4>1. Ops(m)[i] \in Op
        BY <1>1, <1>2, DeclarationsTyped, ElementOfSeq, LenProperties
      <4>2. [hash |-> Ops(m)[i].sym, value |-> m] \in Entry
        BY <1>1, <4>1 DEF Op, Entry
      <4> QED BY <1>2, <3>2, <4>2, AppendProperties DEF RegisterProcedure
    <3> QED BY <1>1, <3>1, <3>2
  <2> QED BY <1>2, <1>7, <2>1, <2>2, <2>3
<1>9. Len(table') <= Capacity
  <2>1. /\ Cardinality(Exported \cup {e}) <= Cardinality(ExportSites)
        /\ Cardinality(ExportSites) \in Nat
    BY <1>7, ExportSitesFinite, FS_Subset, FS_CardinalityType
  <2> QED BY <1>7, <1>8, <2>1, ModuleAssumption DEF TableFits
<1>10. ASSUME phase' = "attach"
       PROVE  Len(table') <= Cardinality(KernelSymbols) + Cardinality(Exported')
  <2>1. Exported' \subseteq ExportSites
    BY DEF Exported, ExportSites
  <2>2. IsFiniteSet(Exported')
    BY <2>1, ExportSitesFinite, FS_Subset
  <2>3. Cardinality(Exported \cup {e}) <= Cardinality(Exported')
    BY <1>6, <1>10, <2>2, FS_Subset
  <2>4. Cardinality(Exported') \in Nat
    BY <2>2, FS_CardinalityType
  <2> QED BY <1>7, <1>8, <2>3, <2>4
<1>11. Linking' => phase' = "attach"
  BY <1>1 DEF Linking
<1> QED BY <1>1, <1>2, <1>9, <1>10, <1>11 DEF TableBounded

\* Every step keeps the table inside its bound.
LEMMA StepKeepsTable ==
  ASSUME TypeInv, TableFits, [Next]_vars
  PROVE  TableBounded'
<1>1. table \in Seq(Entry) /\ TableBounded
  BY DEF TypeInv, LinkInv
<1>2. \A d \in ExportSites : d[1] \in Nat /\ d[2] \in Nat
                             /\ d[1] \in DOMAIN Disc /\ d[2] \in DOMAIN Ops(Disc[d[1]])
  <2> SUFFICES ASSUME NEW d \in ExportSites
               PROVE  d[1] \in Nat /\ d[2] \in Nat
                      /\ d[1] \in DOMAIN Disc /\ d[2] \in DOMAIN Ops(Disc[d[1]])
    OBVIOUS
  <2>1. PICK k \in {k \in DOMAIN Disc : Disc[k] \notin Refusing} :
           d \in {<<k, n>> : n \in Exports(Ops(Disc[k]))}
    BY DEF ExportSites
  <2>2. d[1] = k /\ d[2] \in DOMAIN Ops(Disc[k]) /\ Disc[k] \in Modules /\ k \in Nat
    BY <2>1, ModuleAssumption, ElementOfSeq, LenProperties DEF Exports
  <2> QED BY <2>2, DeclarationsTyped, LenProperties
<1>3. CASE NoModsFolder
  BY <1>1, <1>3, TableStays DEF NoModsFolder, Linking
<1>4. CASE SkipFile
  <2>1. phase = "load" /\ phase' = "load" /\ file' = file + 1 /\ UNCHANGED <<table, loaded>>
        /\ file \in Nat
    BY <1>4 DEF SkipFile, TypeInv, Once
  <2>2. Exported \subseteq Exported'
    BY <1>2, <2>1 DEF Exported
  <2> QED BY <1>1, <2>1, <2>2, TableStays DEF Linking
<1>5. CASE StartGame \/ HandleReload
  BY <1>1, <1>5, TableStays DEF StartGame, HandleReload, Linking
<1>6. CASE Attached
  <2>1. phase = "attach" /\ phase' = "load" /\ file' = file + 1 /\ UNCHANGED <<table, loaded>>
        /\ file \in Nat
    BY <1>6 DEF Attached, TypeInv, Once
  <2>2. Exported \subseteq Exported'
    BY <1>2, <2>1 DEF Exported
  <2> QED BY <1>1, <2>1, <2>2, TableStays DEF Linking
<1>7. ASSUME NEW m \in Modules, LoadModule(m)
      PROVE  TableBounded'
  <2>1. /\ phase = "load" /\ m = Disc[file] /\ loaded' = Append(loaded, m) /\ table' = table
        /\ file <= Len(Disc) /\ file \in Nat \ {0}
        /\ \/ phase' = "load" /\ file' = file + 1
           \/ phase' = "attach" /\ pc' = 1 /\ file' = file
    BY <1>7 DEF LoadModule, TypeInv, Once
  <2>2. Exported \subseteq Exported'
    BY <1>2, <2>1 DEF Exported
  <2>3. Exported' \subseteq ExportSites /\ Cardinality(KernelSymbols) \in Nat
    BY FS_CardinalityType, ModuleAssumption DEF Exported, ExportSites
  <2>4. Cardinality(Exported) <= Cardinality(Exported') /\ Cardinality(Exported') \in Nat
        /\ Cardinality(Exported) \in Nat
    BY <2>2, <2>3, ExportSitesFinite, FS_Subset, FS_CardinalityType
  <2>5. Len(table) <= Cardinality(KernelSymbols) + Cardinality(Exported) /\ Len(table) \in Nat
    BY <1>1, <2>1, LenProperties DEF TableBounded, Linking
  <2>6. Len(table') <= Cardinality(KernelSymbols) + Cardinality(Exported')
    BY <2>1, <2>3, <2>4, <2>5
  <2>7. file \in DOMAIN Disc /\ Last(loaded') = m
    <3>1. file \in DOMAIN Disc
      BY <2>1, ModuleAssumption, LenProperties
    <3>2. Once
      BY DEF TypeInv
    <3> QED BY <2>1, <3>1, <3>2, LoadedOnce DEF Last
  <2> QED BY <1>1, <2>1, <2>6, <2>7 DEF TableBounded
<1>8. ASSUME NEW m \in Modules, LoadFails(m)
      PROVE  TableBounded'
  BY <1>1, <1>8 DEF LoadFails, TableBounded, Linking
<1>9. ASSUME NEW m \in Modules, AttachPatch(m) \/ AttachCall(m)
      PROVE  TableBounded'
  <2>1. /\ phase = "attach" /\ phase' = "attach" /\ pc' = pc + 1 /\ pc \in Nat
        /\ UNCHANGED <<file, loaded, table>>
    BY <1>9 DEF AttachPatch, AttachCall, Attaching, TypeInv, ControlTyped
  <2>2. Exported \subseteq Exported'
    BY <1>2, <2>1 DEF Exported
  <2> QED BY <1>1, <2>1, <2>2, TableStays DEF Linking
<1>10. ASSUME NEW m \in Modules, AttachExport(m)
       PROVE  TableBounded'
  BY <1>10, ExportFits
<1>11. CASE ClearModules
  BY <1>1, <1>11 DEF ClearModules, TableBounded, Linking
<1>12. ASSUME NEW m \in Modules,
              BeginDisable(m) \/ DetachPatch(m) \/ DetachExport(m) \/ DetachCall(m) \/ Disabled(m)
       PROVE  TableBounded'
  <2>1. phase = "detach" /\ phase' = "detach" /\ UNCHANGED <<loaded, table>>
    BY <1>12 DEF BeginDisable, DetachPatch, DetachExport, DetachCall, Disabled,
                 Detaching, Disabling
  <2> QED BY <1>1, <2>1, TableStays DEF Linking
<1>13. ASSUME NEW api \in GameCalls, GameCall(api)
       PROVE  TableBounded'
  BY <1>1, <1>13, TableStays DEF GameCall, Linking
<1>14. ASSUME NEW m \in Modules, NEW i \in DOMAIN Ops(m), Toggle(m, i)
       PROVE  TableBounded'
  BY <1>1, <1>14, TableStays DEF Toggle, Linking
<1>15. CASE UNCHANGED vars
  <2>1. Exported' = Exported /\ UNCHANGED <<table, loaded, phase, file>>
    BY <1>15 DEF vars, Exported
  <2> QED BY <1>1, <2>1, TableStays DEF Linking
<1> QED BY <1>3, <1>4, <1>5, <1>6, <1>7, <1>8, <1>9, <1>10, <1>11, <1>12, <1>13, <1>14, <1>15
        DEF Next, Boot, Reload

-----------------------------------------------------------------------------
\* Every step keeps what steers the kernel typed.
LEMMA StepKeepsControl ==
  ASSUME TypeInv, [Next]_vars
  PROVE  ControlTyped'
<1>1. /\ ControlTyped /\ loaded \in Seq(Modules) /\ Len(loaded) \in Nat /\ table \in Seq(Entry)
      /\ Len(Disc) \in Nat /\ DOMAIN Disc = 1 .. Len(Disc)
  BY LenProperties, ModuleAssumption DEF TypeInv, Once, LinkInv
<1>2. \A api : Call(api) => ctx' \in [Modules -> Stale] /\ pending' \in BOOLEAN
  BY <1>1 DEF Call, InspectAll, ControlTyped
<1>3. CASE NoModsFolder \/ SkipFile \/ StartGame
  BY <1>1, <1>3 DEF NoModsFolder, SkipFile, StartGame, ControlTyped
<1>4. CASE Attached
  <2>1. file \in DOMAIN Disc
    BY <1>4 DEF Attached, TypeInv, TableBounded
  <2> QED BY <1>1, <1>4, <2>1 DEF Attached, ControlTyped
<1>5. ASSUME NEW m \in Modules, LoadModule(m)
      PROVE  ControlTyped'
  <2>1. /\ phase = "load" /\ file <= Len(Disc) /\ \A s \in Imports[m] : Known(s)
        /\ loaded' = Append(loaded, m) /\ UNCHANGED <<cur, pending>>
        /\ linked' = [linked EXCEPT ![m] = [s \in Imports[m] |-> Procedure(s)]]
        /\ phase' \in {"load", "attach"} /\ file' \in {file, file + 1} /\ pc' \in {pc, 1}
        /\ ctx' = ctx \/ ctx' = [ctx EXCEPT ![m] = "kernel"]
    BY <1>5 DEF LoadModule
  <2>2. Len(loaded') = Len(loaded) + 1
    BY <1>1, <2>1, AppendProperties
  <2>3. \A s \in Imports[m] : Procedure(s) \in Modules \cup {Kernel, Unsaved}
    <3>1. ASSUME NEW s \in Imports[m]
          PROVE  Procedure(s) \in Modules \cup {Kernel, Unsaved}
      <4>1. PICK i \in Matches(s) : Procedure(s) = table[i].value
        BY <1>1, <2>1, ProcedureIsFirst
      <4>2. table[i] \in Entry
        BY <1>1, <4>1, ElementOfSeq, LenProperties DEF Matches
      <4> QED BY <4>1, <4>2 DEF Entry
    <3> QED BY <3>1
  <2>4. [s \in Imports[m] |-> Procedure(s)] \in [Imports[m] -> Modules \cup {Kernel, Unsaved}]
    BY <2>3
  <2>5. /\ DOMAIN linked' = Modules
        /\ \A n \in Modules : linked'[n] \in [Imports[n] -> Modules \cup {Kernel, Unsaved}]
    BY <1>1, <2>1, <2>4 DEF ControlTyped
  <2>6. ctx' \in [Modules -> Stale]
    BY <1>1, <2>1 DEF ControlTyped, Stale
  <2>7. file' \in 1 .. Len(Disc) + 1 /\ cur' \in 1 .. Len(loaded') + 1 /\ pc' \in Nat
    <3>1. file \in Nat \ {0} /\ cur \in Nat \ {0} /\ cur <= Len(loaded) + 1 /\ pc \in Nat
      BY <1>1 DEF ControlTyped
    <3>2. file' \in 1 .. Len(Disc) + 1
      BY <1>1, <2>1, <3>1
    <3>3. cur' \in 1 .. Len(loaded') + 1
      BY <1>1, <2>1, <2>2, <3>1
    <3>4. pc' \in Nat
      BY <2>1, <3>1
    <3> QED BY <3>2, <3>3, <3>4
  <2> QED BY <1>1, <2>1, <2>5, <2>6, <2>7 DEF ControlTyped
<1>6. ASSUME NEW m \in Modules, LoadFails(m)
      PROVE  ControlTyped'
  <2>1. Len(loaded') = Len(loaded) + 1
    BY <1>1, <1>6, AppendProperties DEF LoadFails
  <2> QED BY <1>1, <1>6, <2>1 DEF LoadFails, ControlTyped
<1>7. ASSUME NEW m \in Modules, AttachPatch(m) \/ AttachExport(m) \/ AttachCall(m)
      PROVE  ControlTyped'
  <2>1. ctx' \in [Modules -> Stale] /\ pending' \in BOOLEAN
    BY <1>1, <1>2, <1>7 DEF AttachPatch, AttachExport, AttachCall, ControlTyped
  <2> QED BY <1>1, <1>7, <2>1 DEF AttachPatch, AttachExport, AttachCall, Attaching, ControlTyped
<1>8. CASE HandleReload
  <2>1. /\ cur' = 1 /\ pc' = 0 /\ pending' = FALSE /\ phase' = "detach"
        /\ UNCHANGED <<file, loaded, linked, ctx>>
    BY <1>8 DEF HandleReload
  <2>2. 1 \in 1 .. Len(loaded) + 1
    BY <1>1
  <2> QED BY <1>1, <2>1, <2>2 DEF ControlTyped
<1>9. CASE ClearModules
  BY <1>1, <1>9 DEF ClearModules, ControlTyped
<1>10. ASSUME NEW m \in Modules, BeginDisable(m)
       PROVE  ControlTyped'
  BY <1>1, <1>10, SMTT(30) DEF BeginDisable, Disabling, ControlTyped
<1>11. ASSUME NEW m \in Modules, DetachPatch(m) \/ DetachExport(m) \/ DetachCall(m)
       PROVE  ControlTyped'
  <2>1. ctx' \in [Modules -> Stale] /\ pending' \in BOOLEAN
    BY <1>1, <1>2, <1>11 DEF DetachPatch, DetachExport, DetachCall, ControlTyped
  <2> QED BY <1>1, <1>11, <2>1 DEF DetachPatch, DetachExport, DetachCall, Detaching, ControlTyped
<1>12. ASSUME NEW m \in Modules, Disabled(m)
       PROVE  ControlTyped'
  BY <1>1, <1>12 DEF Disabled, Disabling, ControlTyped
<1>13. ASSUME NEW api \in GameCalls, GameCall(api)
       PROVE  ControlTyped'
  <2>1. ctx' \in [Modules -> Stale] /\ pending' \in BOOLEAN
    BY <1>2, <1>13 DEF GameCall
  <2> QED BY <1>1, <1>13, <2>1 DEF GameCall, ControlTyped
<1>14. ASSUME NEW m \in Modules, NEW i \in DOMAIN Ops(m), Toggle(m, i)
       PROVE  ControlTyped'
  BY <1>1, <1>14 DEF Toggle, ControlTyped
<1>15. CASE UNCHANGED vars
  BY <1>1, <1>15 DEF vars, ControlTyped
<1> QED BY <1>3, <1>4, <1>5, <1>6, <1>7, <1>8, <1>9, <1>10, <1>11, <1>12, <1>13, <1>14, <1>15
        DEF Next, Boot, Reload

-----------------------------------------------------------------------------
\* A step that switches no patch.
LEMMA WordsKept ==
  ASSUME WordsTyped, UNCHANGED <<saved, applied>>,
         \/ mem' = mem
         \/ mem' = [mem EXCEPT ![HandlerAddress] = HandlerBranch],
         phase' # "fatal" =>
           phase # "fatal" /\ \A p \in PatchSites : Ran(p[1], p[2])' => Ran(p[1], p[2])
  PROVE  WordsTyped'
<1>1. HandlerBranch \in Words
  BY DEF Words
<1>2. SavedTyped'
  BY <1>1, ModuleAssumption DEF WordsTyped, SavedTyped
<1> QED BY <1>2 DEF WordsTyped

\* Enabling saves a word of memory and writes a word.
LEMMA EnableTyped ==
  ASSUME SavedTyped, NEW m \in Modules, m \notin Refusing, NEW i \in DOMAIN Ops(m), IsPatch(m, i),
         Enable(m, i)
  PROVE  /\ SavedTyped' /\ saved'[m][i] \in Words
         /\ \A n \in Modules : \A j \in DOMAIN Ops(n) :
              <<n, j>> # <<m, i>> => saved'[n][j] = saved[n][j]
<1> DEFINE a == Ops(m)[i].addr
<1>1. <<m, i>> \in PatchSites
  BY SiteOf
<1>2. a \in Addresses /\ i \in Nat
  BY <1>1, SiteTyped DEF At
<1>3. /\ saved' = [saved EXCEPT ![m][i] = mem[a]]
      /\ mem' = [mem EXCEPT ![a] = Word(m, i)]
      /\ applied' = IF IsStatic(m, i) THEN applied \cup {<<m, i>>} ELSE applied
  BY DEF Enable
<1>4. mem[a] \in Words /\ Word(m, i) \in Words
  BY <1>2 DEF SavedTyped, Word, Words
<1> HIDE DEF a
<1>5. mem' \in [Addresses -> Words] /\ applied' \subseteq Modules \X Nat
  BY <1>2, <1>3, <1>4 DEF SavedTyped
<1>6. /\ DOMAIN saved' = Modules /\ saved'[m] = [saved[m] EXCEPT ![i] = mem[a]]
      /\ \A n \in Modules \ {m} : saved'[n] = saved[n]
  BY <1>3 DEF SavedTyped
<1>7. /\ saved'[m] \in [DOMAIN Ops(m) -> Words \cup {Unsaved}] /\ saved'[m][i] = mem[a]
      /\ \A j \in DOMAIN Ops(m) \ {i} : saved'[m][j] = saved[m][j]
  BY <1>4, <1>6 DEF SavedTyped
<1>8. ASSUME NEW n \in Modules, NEW j \in DOMAIN Ops(n), <<n, j>> # <<m, i>>
      PROVE  saved'[n][j] = saved[n][j]
  BY <1>6, <1>7, <1>8
<1>9. \A n \in Modules : saved'[n] \in [DOMAIN Ops(n) -> Words \cup {Unsaved}]
  BY <1>6, <1>7 DEF SavedTyped
<1>10. ASSUME NEW n \in Modules, NEW j \in DOMAIN Ops(n), IsStatic(n, j), <<n, j>> \in applied'
       PROVE  saved'[n][j] \in Words
  <2>1. CASE <<n, j>> = <<m, i>>
    BY <1>4, <1>7, <2>1
  <2>2. CASE <<n, j>> # <<m, i>>
    BY <1>3, <1>8, <1>10, <2>2 DEF SavedTyped
  <2> QED BY <2>1, <2>2
<1>11. SavedTyped'
  BY <1>5, <1>6, <1>9, <1>10 DEF SavedTyped
<1> QED BY <1>4, <1>7, <1>8, <1>11

\* Disabling a patch that has saved a word, or does nothing, restores a word.
LEMMA DisableTyped ==
  ASSUME SavedTyped, NEW m \in Modules, m \notin Refusing, NEW i \in DOMAIN Ops(m), IsPatch(m, i),
         Disable(m, i), ~IsStatic(m, i) => saved[m][i] \in Words
  PROVE  /\ SavedTyped'
         /\ \A n \in Modules : \A j \in DOMAIN Ops(n) :
              ~IsStatic(n, j) => saved'[n][j] = saved[n][j]
<1>1. CASE UNCHANGED <<mem, saved, applied>>
  BY <1>1 DEF SavedTyped
<1>2. CASE ~UNCHANGED <<mem, saved, applied>>
  <2> DEFINE a == Ops(m)[i].addr
  <2>1. <<m, i>> \in PatchSites
    BY SiteOf
  <2>2. a \in Addresses
    BY <2>1, SiteTyped DEF At
  <2>3. /\ IsStatic(m, i) => <<m, i>> \in applied
        /\ mem' = [mem EXCEPT ![a] = saved[m][i]]
        /\ saved' = IF IsStatic(m, i) THEN [saved EXCEPT ![m][i] = Unsaved] ELSE saved
        /\ applied' = applied \ {<<m, i>>}
    BY <1>2 DEF Disable
  <2>4. saved[m][i] \in Words
    BY <2>3 DEF SavedTyped
  <2> HIDE DEF a
  <2>5. mem' \in [Addresses -> Words] /\ applied' \subseteq Modules \X Nat
    BY <2>2, <2>3, <2>4 DEF SavedTyped
  <2>6. CASE ~IsStatic(m, i)
    BY <2>3, <2>5, <2>6 DEF SavedTyped
  <2>7. CASE IsStatic(m, i)
    <3>1. /\ DOMAIN saved' = Modules /\ saved'[m] = [saved[m] EXCEPT ![i] = Unsaved]
          /\ \A n \in Modules \ {m} : saved'[n] = saved[n]
      BY <2>3, <2>7 DEF SavedTyped
    <3>2. /\ saved'[m] \in [DOMAIN Ops(m) -> Words \cup {Unsaved}]
          /\ \A j \in DOMAIN Ops(m) \ {i} : saved'[m][j] = saved[m][j]
      BY <3>1 DEF SavedTyped
    <3>3. ASSUME NEW n \in Modules, NEW j \in DOMAIN Ops(n), <<n, j>> # <<m, i>>
          PROVE  saved'[n][j] = saved[n][j]
      BY <3>1, <3>2, <3>3
    <3>4. \A n \in Modules : saved'[n] \in [DOMAIN Ops(n) -> Words \cup {Unsaved}]
      BY <3>1, <3>2 DEF SavedTyped
    <3>5. ASSUME NEW n \in Modules, NEW j \in DOMAIN Ops(n), IsStatic(n, j), <<n, j>> \in applied'
          PROVE  saved'[n][j] \in Words
      BY <2>3, <3>3, <3>5 DEF SavedTyped
    <3>6. SavedTyped'
      BY <2>5, <3>1, <3>4, <3>5 DEF SavedTyped
    <3>7. \A n \in Modules : \A j \in DOMAIN Ops(n) : ~IsStatic(n, j) => saved'[n][j] = saved[n][j]
      BY <2>7, <3>3
    <3> QED BY <3>6, <3>7
  <2> QED BY <2>6, <2>7
<1> QED BY <1>1, <1>2

\* Every step keeps memory a memory of words.
LEMMA StepKeepsWords ==
  ASSUME TypeInv, [Next]_vars
  PROVE  WordsTyped'
<1>1. /\ WordsTyped /\ SavedTyped /\ Once /\ pc \in Nat
      /\ loaded \in Seq(Modules) /\ DOMAIN loaded = 1 .. Len(loaded) /\ Len(loaded) \in Nat
  BY LenProperties DEF TypeInv, WordsTyped, Once, ControlTyped
<1>2. \A m \in Modules : \A i \in DOMAIN Ops(m) : i \in Nat /\ i <= Len(Ops(m))
  BY DeclarationsTyped, LenProperties
<1>3. CASE NoModsFolder \/ StartGame \/ SkipFile
  BY <1>1, <1>3, WordsKept DEF NoModsFolder, StartGame, SkipFile, Ran
<1>4. CASE HandleReload
  BY <1>1, <1>4, WordsKept DEF HandleReload, Ran
<1>5. CASE ClearModules
  BY <1>1, <1>5, WordsKept DEF ClearModules, Ran
<1>6. CASE Attached
  <2>1. /\ phase = "attach" /\ phase' = "load" /\ UNCHANGED <<loaded, mem, saved, applied>>
        /\ pc > Len(Ops(loaded[Len(loaded)]))
    BY <1>6 DEF Attached, Last
  <2>2. ASSUME NEW p \in PatchSites, Ran(p[1], p[2])'
        PROVE  Ran(p[1], p[2])
    <3>1. p[2] \in Nat /\ p[2] <= Len(Ops(p[1])) /\ p[1] \in Modules /\ Len(Ops(p[1])) \in Nat
      BY <1>2, SiteTyped, DeclarationsTyped, LenProperties
    <3>2. PICK k \in DOMAIN loaded : loaded[k] = p[1]
      BY <2>1, <2>2 DEF Ran
    <3>3. k = Len(loaded) => p[2] < pc
      BY <1>1, <2>1, <3>1, <3>2
    <3> QED BY <2>1, <3>2, <3>3 DEF Ran
  <2> QED BY <1>1, <2>1, <2>2, WordsKept
<1>7. ASSUME NEW m \in Modules, LoadModule(m)
      PROVE  WordsTyped'
  <2>1. /\ phase = "load" /\ loaded' = Append(loaded, m) /\ m = Disc[file] /\ file <= Len(Disc)
        /\ UNCHANGED <<mem, saved, applied>>
        /\ IF m \in Refusing THEN phase' = "load" ELSE phase' = "attach" /\ pc' = 1
    BY <1>7 DEF LoadModule
  <2>2. /\ Len(loaded') = Len(loaded) + 1 /\ loaded'[Len(loaded')] = m
        /\ DOMAIN loaded' = 1 .. Len(loaded) + 1
        /\ \A k \in DOMAIN loaded : loaded'[k] = loaded[k]
    BY <1>1, <2>1, LoadedOnce
  <2>3. ASSUME NEW p \in PatchSites, Ran(p[1], p[2])'
        PROVE  Ran(p[1], p[2])
    <3>1. p[2] \in Nat \ {0} /\ p[1] \notin Refusing
      BY SiteTyped
    <3>2. PICK k \in DOMAIN loaded' : loaded'[k] = p[1] /\ (phase' = "attach" /\ k = Len(loaded') => p[2] < pc')
      BY <2>3 DEF Ran
    <3>3. k # Len(loaded')
      <4>1. SUFFICES ASSUME k = Len(loaded') PROVE FALSE
        OBVIOUS
      <4>2. p[1] = m /\ phase' = "attach" /\ pc' = 1
        BY <2>1, <2>2, <3>1, <3>2, <4>1
      <4> QED BY <3>1, <3>2, <4>1, <4>2
    <3>4. k \in DOMAIN loaded /\ loaded[k] = p[1]
      <4>1. k \in DOMAIN loaded
        BY <1>1, <2>2, <3>3
      <4> QED BY <2>2, <3>2, <4>1
    <3> QED BY <2>1, <3>4 DEF Ran
  <2> QED BY <1>1, <2>1, <2>3, WordsKept
<1>8. ASSUME NEW m \in Modules, LoadFails(m)
      PROVE  WordsTyped'
  BY <1>1, <1>8, WordsKept DEF LoadFails
<1>9. ASSUME NEW m \in Modules, AttachPatch(m)
      PROVE  WordsTyped'
  <2> PICK i : i = pc
    OBVIOUS
  <2>1. /\ phase = "attach" /\ phase' = "attach" /\ m = Last(loaded) /\ i <= Len(Ops(m))
        /\ Ops(m)[i].kind \in {"patch", "toggle"} /\ pc' = pc + 1 /\ loaded' = loaded
        /\ Enable(m, i)
    BY <1>9 DEF AttachPatch, Attaching
  <2>2. i \in Nat \ {0} /\ m \notin Refusing /\ loaded[Len(loaded)] = m
    BY <1>1, <2>1 DEF Once, Last
  <2>3. i \in DOMAIN Ops(m) /\ IsPatch(m, i)
    BY <2>1, <2>2, DeclarationsTyped, LenProperties DEF IsPatch
  <2>4. /\ SavedTyped' /\ saved'[m][i] \in Words
        /\ \A n \in Modules : \A j \in DOMAIN Ops(n) :
             <<n, j>> # <<m, i>> => saved'[n][j] = saved[n][j]
    BY <1>1, <2>1, <2>2, <2>3, EnableTyped
  <2>5. ASSUME NEW p \in PatchSites, ~IsStatic(p[1], p[2]), Ran(p[1], p[2])'
        PROVE  saved'[p[1]][p[2]] \in Words
    <3>1. p[1] \in Modules /\ p[2] \in DOMAIN Ops(p[1]) /\ p[2] \in Nat
      BY SiteTyped
    <3>2. CASE p[1] = m /\ p[2] = i
      BY <2>4, <3>2
    <3>3. CASE ~(p[1] = m /\ p[2] = i)
      <4>1. Ran(p[1], p[2])
        BY <2>1, <2>2, <2>5, <3>1, <3>3 DEF Ran
      <4>2. saved[p[1]][p[2]] \in Words
        BY <1>1, <2>1, <2>5, <4>1 DEF WordsTyped
      <4> QED BY <2>4, <3>1, <3>3, <4>2
    <3> QED BY <3>2, <3>3
  <2> QED BY <2>4, <2>5 DEF WordsTyped
<1>10. ASSUME NEW m \in Modules, AttachExport(m) \/ AttachCall(m)
       PROVE  WordsTyped'
  <2> PICK i : i = pc
    OBVIOUS
  <2>1. /\ phase = "attach" /\ m = Last(loaded) /\ i <= Len(Ops(m)) /\ pc' = pc + 1
        /\ Ops(m)[i].kind \in {"export", "load", "unload"} /\ phase' \in {"attach", "fatal"}
        /\ UNCHANGED <<loaded, saved, applied>>
    BY <1>10 DEF AttachExport, AttachCall, Attaching
  <2>2. mem' = mem \/ mem' = [mem EXCEPT ![HandlerAddress] = HandlerBranch]
    BY <1>10, CallWrites DEF AttachExport, AttachCall
  <2>3. ASSUME NEW p \in PatchSites, phase' = "attach", Ran(p[1], p[2])'
        PROVE  Ran(p[1], p[2])
    <3>1. p[2] \in Nat /\ IsPatch(p[1], p[2])
      BY SiteTyped
    <3>2. ~(p[1] = m /\ p[2] = i)
      BY <2>1, <3>1 DEF IsPatch
    <3> QED BY <1>1, <2>1, <2>3, <3>1, <3>2 DEF Ran, Last
  <2> QED BY <1>1, <2>1, <2>2, <2>3, WordsKept
<1>11. ASSUME NEW m \in Modules, BeginDisable(m) \/ DetachExport(m) \/ DetachCall(m) \/ Disabled(m)
       PROVE  WordsTyped'
  <2>1. phase = "detach" /\ phase' = "detach" /\ UNCHANGED <<loaded, saved, applied>>
    BY <1>11 DEF BeginDisable, DetachExport, DetachCall, Disabled, Detaching, Disabling
  <2>2. mem' = mem \/ mem' = [mem EXCEPT ![HandlerAddress] = HandlerBranch]
    BY <1>11, CallWrites DEF BeginDisable, DetachExport, DetachCall, Disabled
  <2>3. \A p \in PatchSites : Ran(p[1], p[2])' => Ran(p[1], p[2])
    BY <2>1 DEF Ran
  <2> QED BY <1>1, <2>1, <2>2, <2>3, WordsKept
<1>12. ASSUME NEW m \in Modules, DetachPatch(m)
       PROVE  WordsTyped'
  <2> PICK i : i = DetachOrder(m, pc)
    OBVIOUS
  <2>1. /\ phase = "detach" /\ phase' = "detach" /\ cur <= Len(loaded) /\ m = loaded[cur]
        /\ pc \in DOMAIN Ops(m) /\ Ops(m)[i].kind \in {"patch", "toggle"}
        /\ loaded' = loaded /\ Disable(m, i)
    BY <1>12 DEF DetachPatch, Detaching, Disabling
  <2>2. cur \in DOMAIN loaded /\ pc # 0
    <3>1. cur \in Nat \ {0} /\ pc \in Nat \ {0}
      BY <1>1, <1>2, <2>1, DeclarationsTyped, LenProperties DEF Once
    <3> QED BY <1>1, <2>1, <3>1
  <2>3. i \in DOMAIN Ops(m) /\ IsPatch(m, i) /\ m \notin Refusing
    BY <1>1, <2>1, <2>2, DetachOrderBack DEF IsPatch, Once
  <2>4. <<m, i>> \in PatchSites /\ Ran(m, i)
    BY <2>1, <2>2, <2>3, SiteOf DEF Ran
  <2>5. ~IsStatic(m, i) => saved[m][i] \in Words
    BY <1>1, <2>1, <2>4 DEF WordsTyped
  <2>6. /\ SavedTyped'
        /\ \A n \in Modules : \A j \in DOMAIN Ops(n) : ~IsStatic(n, j) => saved'[n][j] = saved[n][j]
    BY <1>1, <2>1, <2>3, <2>5, DisableTyped
  <2>7. \A p \in PatchSites : Ran(p[1], p[2])' => Ran(p[1], p[2])
    BY <2>1 DEF Ran
  <2>8. \A p \in PatchSites : p[1] \in Modules /\ p[2] \in DOMAIN Ops(p[1])
    BY SiteTyped
  <2> QED BY <1>1, <2>1, <2>6, <2>7, <2>8 DEF WordsTyped
<1>13. ASSUME NEW api \in GameCalls, GameCall(api)
       PROVE  WordsTyped'
  <2>1. phase = "game" /\ UNCHANGED <<phase, loaded, saved, applied>>
    BY <1>13 DEF GameCall
  <2>2. mem' = mem \/ mem' = [mem EXCEPT ![HandlerAddress] = HandlerBranch]
    BY <1>13, CallWrites DEF GameCall
  <2>3. \A p \in PatchSites : Ran(p[1], p[2])' => Ran(p[1], p[2])
    BY <2>1 DEF Ran
  <2> QED BY <1>1, <2>1, <2>2, <2>3, WordsKept
<1>14. ASSUME NEW m \in Modules, NEW i \in DOMAIN Ops(m), Toggle(m, i)
       PROVE  WordsTyped'
  <2>1. /\ phase = "game" /\ phase' = "game" /\ loaded' = loaded
        /\ m \notin Refusing /\ Ops(m)[i].kind = "toggle"
        /\ IF <<m, i>> \in applied THEN Disable(m, i) ELSE Enable(m, i)
    BY <1>14 DEF Toggle
  <2>2. IsPatch(m, i) /\ IsStatic(m, i)
    BY <2>1, TogglesAreStatic DEF IsPatch
  <2>3. SavedTyped'
        /\ \A n \in Modules : \A j \in DOMAIN Ops(n) : ~IsStatic(n, j) => saved'[n][j] = saved[n][j]
    <3>1. CASE Enable(m, i)
      BY <1>1, <2>1, <2>2, <3>1, EnableTyped
    <3>2. CASE Disable(m, i)
      BY <1>1, <2>1, <2>2, <3>2, DisableTyped
    <3> QED BY <2>1, <3>1, <3>2
  <2>4. \A p \in PatchSites : Ran(p[1], p[2])' => Ran(p[1], p[2])
    BY <2>1 DEF Ran
  <2>5. \A p \in PatchSites : p[1] \in Modules /\ p[2] \in DOMAIN Ops(p[1])
    BY SiteTyped
  <2> QED BY <1>1, <2>1, <2>3, <2>4, <2>5 DEF WordsTyped
<1>15. CASE UNCHANGED vars
  BY <1>1, <1>15 DEF vars, WordsTyped, SavedTyped, Ran
<1> QED BY <1>3, <1>4, <1>5, <1>6, <1>7, <1>8, <1>9, <1>10, <1>11, <1>12, <1>13, <1>14, <1>15
        DEF Next, Boot, Reload

\* At the start memory holds the game's words and the table the kernel's procedures.
LEMMA InitTyped == TableFits /\ Init => TypeInv
<1> SUFFICES ASSUME TableFits, Init PROVE TypeInv
  OBVIOUS
<1>1. /\ phase = "load" /\ file = 1 /\ loaded = <<>> /\ cur = 1 /\ pc = 1
      /\ mem = [a \in Addresses |-> Game] /\ applied = {}
      /\ saved = [m \in Modules |-> [i \in DOMAIN Ops(m) |-> Unsaved]]
      /\ table = [i \in 1 .. Cardinality(KernelSymbols) |->
                    [hash |-> SetToSeq(KernelSymbols)[i], value |-> Kernel]]
      /\ linked = [m \in Modules |-> [s \in Imports[m] |-> Unsaved]]
      /\ ctx = [m \in Modules |-> "null"] /\ pending = FALSE
  BY DEF Init
<1>2. PatchInv /\ LinkInv
  BY InitStacks, InitLinks
<1>3. Once /\ loaded \in Seq(Modules) /\ Len(loaded) = 0 /\ DOMAIN loaded = {}
  BY <1>1, <1>2 DEF PatchInv
<1>4. ControlTyped
  <2>1. 1 \in 1 .. Len(Disc) + 1 /\ 1 \in 1 .. Len(loaded) + 1
    BY <1>3, ModuleAssumption, LenProperties
  <2> QED BY <1>1, <2>1 DEF ControlTyped, Stale
<1>5. SavedTyped
  BY <1>1 DEF SavedTyped, Words
<1>6. WordsTyped
  BY <1>3, <1>5 DEF WordsTyped, Ran
<1>7. Cardinality(KernelSymbols) \in Nat /\ Cardinality(Exported) \in Nat
  BY ExportedCounted, FS_CardinalityType, ModuleAssumption
<1>8. Len(table) = Cardinality(KernelSymbols)
  <2> DEFINE n == Cardinality(KernelSymbols)
  <2>1. DOMAIN table = 1 .. n /\ table \in Seq(Entry)
    BY <1>1, <1>2 DEF LinkInv
  <2>2. DOMAIN table = 1 .. Len(table) /\ Len(table) \in Nat
    BY <2>1, LenProperties
  <2> HIDE DEF n
  <2>3. n \in Nat => Len(table) = n
    BY <2>1, <2>2
  <2> QED BY <1>7, <2>3 DEF n
<1>9. TableBounded
  <2>1. Cardinality(KernelSymbols) + Cardinality(Exported) <= Capacity
    BY ExportedCounted
  <2>2. Len(table) <= Capacity /\ Len(table) <= Cardinality(KernelSymbols) + Cardinality(Exported)
    BY <1>7, <1>8, <2>1, ModuleAssumption
  <2> QED BY <1>1, <2>2 DEF TableBounded
<1> QED BY <1>2, <1>3, <1>4, <1>6, <1>9 DEF TypeInv

\* Memory holds words of the game or of modules, never one that nothing was saved to,
\* and the symbol table keeps inside mEntries if the modules on the disc together
\* export no more than there is room for (Kernel!TypeOK).
THEOREM TypeCorrect ==
  ASSUME TableFits
  PROVE  Spec => []TypeOK
<1>1. TypeInv => TypeOK
  BY DEF TypeInv, Once, LinkInv, ControlTyped, WordsTyped, SavedTyped, TableBounded, TypeOK, Entry
<1>2. ASSUME TypeInv, [Next]_vars
      PROVE  TypeInv'
  BY <1>2, StepOnce, StepKeepsLinks, StepKeepsControl, StepKeepsWords, StepKeepsTable DEF TypeInv
<1> QED BY <1>1, <1>2, InitTyped, PTL DEF Spec
=============================================================================

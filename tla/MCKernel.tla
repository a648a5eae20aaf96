------------------------------- MODULE MCKernel -------------------------------
(***************************************************************************)
(* Discs for the kernel: what their modules import, declare and patch.     *)
(***************************************************************************)
EXTENDS Kernel

CONSTANTS A, B, C, x, y, z, hook, f, g, kx

Patch(a) == [kind |-> "patch", addr |-> a]
Switch(a) == [kind |-> "toggle", addr |-> a]
Export(s) == [kind |-> "export", sym |-> s]
OnLoad(api) == [kind |-> "load", api |-> api]
OnUnload(api) == [kind |-> "unload", api |-> api]

ModuleSet == {A, B, C}
DiscABC == <<A, B, C>>
DiscA == <<A>>

\* A stacks two patch objects on one address and exports the name of a kernel
\* function, B exports f a second time, C needs what A or B export; A and B ask for
\* another reload while they are unloaded, and B prints in its constructor
\* and switches a patch on top of another.
MCImports == (A :> {} @@ B :> {f, kx} @@ C :> {f, g, kx})
MCStatics ==
  (A :> <<Patch(x), Patch(x), Export(f), OnLoad("install"), Export(kx)>>
    @@ B :> <<OnLoad("print"), Export(f), Patch(y), Switch(y), OnUnload("reload")>>
    @@ C :> <<>>)
MCBlock ==
  (A :> <<OnUnload("reload")>> @@ B :> <<Export(g), Patch(z)>> @@ C :> <<Patch(z)>>)

NoImports == [m \in ModuleSet |-> {}]

\* The modules of KernelReload keep to what the theorems assume of them.
ASSUME NestingAssumption == Disc = DiscABC => PatchesNest /\ TableFits

\* The SDK's own example: one block patches one address twice.
ExampleStatics == (A :> <<OnLoad("install")>> @@ B :> <<>> @@ C :> <<>>)
ExampleBlock == (A :> <<Patch(x), Patch(x)>> @@ B :> <<>> @@ C :> <<>>)
EmptyBlock == [m \in ModuleSet |-> <<>>]
=============================================================================

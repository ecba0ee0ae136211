--------------------------- MODULE MCManagedPlugin ---------------------------
(***************************************************************************)
(* Small instances of ManagedPlugin: a package of two components and one   *)
(* of a single component, or two of a single component.                    *)
(***************************************************************************)
EXTENDS ManagedPlugin, TLC

CONSTANTS p1, p2, p3, kA, kB

SinglePackages == kA :> {p1} @@ kB :> {p2}
PairPackages == kA :> {p1, p2} @@ kB :> {p3}
RequestSymmetry == Permutations(Requests)
=============================================================================

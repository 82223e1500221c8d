----------------------------- MODULE MCLifecycle -----------------------------
(***************************************************************************)
(* Lifecycle for TLC: the codexes and launchers are interchangeable except *)
(* for PATH's first choice, which Init leaves open.                        *)
(***************************************************************************)
EXTENDS Lifecycle, TLC

Symmetry == Permutations(Codexes) \union Permutations(Launchers)
=============================================================================

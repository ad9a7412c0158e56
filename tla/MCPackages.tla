----------------------------- MODULE MCPackages -----------------------------
(* Small instances of Packages for TLC: two builds of one package. *)
EXTENDS Packages, TLC

CONSTANTS p1, p2, reference

Builds == {p1, p2}
OneKey == [p \in Builds |-> reference]
OtherWeights == p1 :> "w1" @@ p2 :> "w2"
OneContract == [p \in Builds |-> "c1"]
Interchangeable == Permutations(Installer)
=============================================================================

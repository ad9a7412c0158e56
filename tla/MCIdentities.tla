---------------------------- MODULE MCIdentities ----------------------------
(* Two images with a face each. *)
EXTENDS Identities, TLC
CONSTANTS f1, g1, one, two, i1, i2, i3, p1, p2
MCSourceOf == [f \in {f1, g1} |-> IF f = g1 THEN two ELSE one]
Symmetric == Permutations(Identities) \cup Permutations(People)
=============================================================================

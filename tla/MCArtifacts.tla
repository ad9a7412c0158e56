----------------------------- MODULE MCArtifacts -----------------------------
(* Small instances of Artifacts for TLC. *)
EXTENDS Artifacts, TLC

Interchangeable == Permutations(Artifact) \cup Permutations(Caller) \cup Permutations(Place)
=============================================================================

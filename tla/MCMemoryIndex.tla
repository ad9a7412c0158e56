---------------------------- MODULE MCMemoryIndex ----------------------------
(* Small instances of MemoryIndex for TLC. *)
EXTENDS MemoryIndex

Interchangeable == Permutations(Rep) \cup Permutations(Caller)

\* Bound: where files and writes may fail, one vector is accepted; where nothing
\* does, as many as there are.
FewWhereFaulty == faults => Cardinality({r \in Rep : rep[r] # "PENDING"}) <= 1
=============================================================================

---------------------------- MODULE MCRecognition ----------------------------
(* A small instance of Recognition for TLC: three grades of similarity. *)
EXTENDS Recognition, TLC

\* Two that accept, with grades between ceiling and threshold or a wide margin,
\* and the one that switches automatic acceptance off: no similarity reaches its
\* threshold.
ThreePolicies ==
    {[threshold |-> Top, margin |-> 1, ceiling |-> 1],
     [threshold |-> 1, margin |-> 2, ceiling |-> 1],
     [threshold |-> Top + 1, margin |-> 1, ceiling |-> Top]}
AnyIdentity == Permutations(Identities)
=============================================================================

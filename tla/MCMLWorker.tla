----------------------------- MODULE MCMLWorker -----------------------------
(* A search on a plan with a fallback and a processing run on a plan that  *)
(* is frozen to one variant.                                               *)
EXTENDS MLWorker
CONSTANTS i1, b1, cpu, gpu
MCPlanOf == [c \in {i1, b1} |-> IF c = b1 THEN cpu ELSE gpu]
MCVariantsOf == [p \in {cpu, gpu} |-> IF p = cpu THEN 1 ELSE 2]
MCMaxPings == [p \in {cpu, gpu} |-> IF p = cpu THEN 0 ELSE 1]
=============================================================================

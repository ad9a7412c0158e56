------------------------- MODULE ProcessingRefinement -------------------------
(* ProcessingRun implements AttemptLifecycle: what a reader of the tables can *)
(* tell about an attempt.                                                     *)
EXTENDS ProcessingRun

StageOf(state) ==
    CASE state = "ABSENT"                   -> "absent"
      [] state = "PENDING"                  -> "waiting"
      [] state \in {"RUNNING", "FINALIZING"} -> "working"
      [] state = "CANCELLING"               -> "stopping"
      [] state = "COMPLETED"                -> "published"
      [] state = "ERASED"                   -> "erased"
      [] OTHER                              -> "dropped"

Stages    == [a \in Attempt |-> StageOf(run[a])]
Visible   == {a \in Attempt : output[a] = "ACTIVE"}
Withdrawn == {s \in Source : source[s] \in {"DELETING", "DELETED"}}

Promise == INSTANCE AttemptLifecycle
             WITH stage <- Stages, visible <- Visible, withdrawn <- Withdrawn

\* Every behaviour of the program, with its threads, transactions and restarts,
\* is one of the abstract life cycle.
ImplementsLifecycle == Promise!Spec
=============================================================================

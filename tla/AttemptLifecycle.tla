--------------------------- MODULE AttemptLifecycle ---------------------------
(***************************************************************************)
(* What source processing promises, whatever threads, transactions and     *)
(* crashes lie underneath: an attempt is worked on, and either its result  *)
(* becomes visible at once and as a whole or it never does.  Asking it to  *)
(* stop rules the result out.  A dropped attempt may be retried, once, as  *)
(* a new attempt.  A withdrawn source loses every result for good.         *)
(***************************************************************************)
EXTENDS Naturals

CONSTANTS Source, Attempt, None

VARIABLES
    stage,      \* of each attempt
    sourceOf,   \* the source of each attempt
    previous,   \* the attempt it retries, or None
    visible,    \* the attempts whose result readers see
    current,    \* the result each source points at
    withdrawn   \* sources in permanent deletion

vars == <<stage, sourceOf, previous, visible, current, withdrawn>>

Stage == {"absent", "waiting", "working", "stopping", "published", "dropped",
          "erased"}

Init ==
    /\ stage = [a \in Attempt |-> "absent"]
    /\ sourceOf \in [Attempt -> Source]
    /\ previous = [a \in Attempt |-> None]
    /\ visible = {}
    /\ current = [s \in Source |-> None]
    /\ withdrawn = {}

\* A new attempt p # None retries, the first and only one to retry it.
Request(a, s, p) ==
    /\ stage[a] = "absent"
    /\ s \notin withdrawn
    /\ p # None => /\ stage[p] = "dropped"
                   /\ sourceOf[p] = s
                   /\ \A b \in Attempt : previous[b] # p
    /\ stage' = [stage EXCEPT ![a] = "waiting"]
    /\ sourceOf' = [sourceOf EXCEPT ![a] = s]
    /\ previous' = [previous EXCEPT ![a] = p]
    /\ UNCHANGED <<visible, current, withdrawn>>

Move(a, from, to) ==
    /\ stage[a] = from
    /\ stage' = [stage EXCEPT ![a] = to]
    /\ UNCHANGED <<sourceOf, previous, visible, current, withdrawn>>

Start(a) == Move(a, "waiting", "working")
Stop(a)  == Move(a, "working", "stopping")

\* The whole result becomes visible in one step.
Publish(a) ==
    /\ stage[a] = "working"
    /\ sourceOf[a] \notin withdrawn
    /\ stage' = [stage EXCEPT ![a] = "published"]
    /\ visible' = visible \cup {a}
    /\ current' = [current EXCEPT ![sourceOf[a]] = a]
    /\ UNCHANGED <<sourceOf, previous, withdrawn>>

\* One attempt ends, or a restart ends all that were under way.
Drop(ended) ==
    /\ ended # {}
    /\ \A a \in ended : stage[a] \in {"waiting", "working", "stopping"}
    /\ stage' = [a \in Attempt |-> IF a \in ended THEN "dropped" ELSE stage[a]]
    /\ UNCHANGED <<sourceOf, previous, visible, current, withdrawn>>

Withdraw(s) ==
    /\ s \notin withdrawn
    /\ \A a \in Attempt : sourceOf[a] = s =>
          stage[a] \notin {"waiting", "working", "stopping"}
    /\ withdrawn' = withdrawn \cup {s}
    /\ visible' = {a \in visible : sourceOf[a] # s}
    /\ UNCHANGED <<stage, sourceOf, previous, current>>

Erase(s) ==
    LET gone == {a \in Attempt : sourceOf[a] = s /\ stage[a] # "absent"}
    IN  /\ s \in withdrawn
        /\ stage' = [a \in Attempt |-> IF a \in gone THEN "erased" ELSE stage[a]]
        /\ previous' = [a \in Attempt |-> IF a \in gone THEN None ELSE previous[a]]
        /\ current' = [current EXCEPT ![s] = None]
        /\ UNCHANGED <<sourceOf, visible, withdrawn>>

Next ==
    \/ \E a \in Attempt :
          \/ \E s \in Source, p \in Attempt \cup {None} : Request(a, s, p)
          \/ Start(a)
          \/ Stop(a)
          \/ Publish(a)
    \/ \E ended \in SUBSET Attempt : Drop(ended)
    \/ \E s \in Source : Withdraw(s) \/ Erase(s)

Spec == Init /\ [][Next]_vars
=============================================================================

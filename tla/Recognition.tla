------------------------------ MODULE Recognition ------------------------------
(***************************************************************************)
(* Who a face is said to be: the shortlist of remembered faces             *)
(* (recognition/retrieval.py), its grouping by identity (assessment.py),   *)
(* the policy's decision (reasoner.py), the evidence the FINAL checkpoint  *)
(* keeps of it and what acceptance checks again from that evidence         *)
(* (processing/accept_run.py); and, over the same library, what a face     *)
(* search answers (recognition/face_query.py).                             *)
(*                                                                         *)
(* One face of one picture is decided, from a library that may be any.     *)
(* The remembered faces are numbered from the one most like it; face 0 is  *)
(* the face itself, a PENDING row of its run.  A similarity is a grade,    *)
(* and how an index orders equal grades is open.                           *)
(*                                                                         *)
(* What other transactions do meanwhile is Erase, Merge and Assign.  That  *)
(* an ADD is applied between the opening of the index and the decision is  *)
(* MemoryIndex's subject (DecisionIsComplete) and left out here.           *)
(***************************************************************************)
EXTENDS Integers, Sequences, FiniteSets

CONSTANTS
    Remembered,   \* how many faces of other pictures the library has had
    Identities,   \* ACTIVE identities, with or without a face
    None,         \* NULL
    K,            \* recognition_k
    SearchK,      \* the shortlist of a face search
    Top,          \* the grade of equal vectors
    Policies,     \* [threshold, margin, ceiling] in grades
    MaxChanges    \* bound: other transactions during one decision

ASSUME LibraryAssumption == Remembered \in Nat /\ Top \in Nat /\ MaxChanges \in Nat
ASSUME ShortlistAssumption == K \in Nat /\ SearchK \in Nat /\ K >= 2 /\ SearchK >= K
ASSUME PolicyAssumption ==
    \A p \in Policies :
        /\ {p.threshold, p.margin, p.ceiling} \subseteq Int
        /\ p.ceiling <= p.threshold /\ p.margin > 0
\* NULL is no identity and no number, and an erased face has neither.
ASSUME NullAssumption ==
    None \notin Identities /\ None # "GONE" /\ None \notin Int /\ "GONE" \notin Identities

Face == 1..Remembered
Itself == 0

VARIABLES
    similar,    \* face -> how similar it is to the one to be decided
    owner,      \* face -> its identity, None (abstained from), or "GONE"
    policy,     \* the frozen policy of the run
    lag,        \* an ADD is waiting or has failed
    opened,     \* the faces in the index the run has opened, or None
    decision,   \* what the run decided, with its evidence, or None
    verdict,    \* of acceptance
    answer,     \* what a face search of now answers, or None
    changes     \* transactions of others so far

vars == <<similar, owner, policy, lag, opened, decision, verdict, answer, changes>>
question == <<similar, policy, lag>>

Init ==
    /\ similar \in [Face \cup {Itself} -> 0..Top]
    /\ similar[Itself] = Top
    /\ \A f, g \in Face : f < g => similar[f] >= similar[g]
    /\ owner \in [Face -> Identities \cup {None, "GONE"}]
    /\ policy \in Policies
    /\ lag \in BOOLEAN
    /\ opened = None
    /\ decision = None
    /\ verdict = "none"
    /\ answer = None
    /\ changes = 0

-----------------------------------------------------------------------------
(* Retrieval                                                               *)

\* ACTIVE, and without an identity or of an ACTIVE one.
Eligible(f) == owner[f] # "GONE"

\* What a search for the n nearest of S may return.
Nearest(S, n) ==
    {T \in SUBSET S :
        /\ Cardinality(T) = IF Cardinality(S) < n THEN Cardinality(S) ELSE n
        /\ \A f \in T, g \in S \ T : similar[f] >= similar[g]}

\* Neither the face itself nor another face of its picture answers for it.
LeftOut == {Itself}

\* The pending faces of the run, rebuilt from the database.
RunLocal == {Itself}

\* A shortlist of at most k of what the index and the run have, and how many of
\* the index the database refused.  The index is asked for as many more as are
\* left out.
Retrievals(index, local, leftOut, k) ==
    UNION {LET kept == {f \in hits : Eligible(f)} IN
           {[members |-> T, dropped |-> Cardinality(hits \ kept)] :
               T \in Nearest((kept \cup local) \ leftOut, k)} :
           hits \in Nearest(index, k + Cardinality(leftOut))}

-----------------------------------------------------------------------------
(* Assessment                                                              *)

OwnerOf(f) == IF f = Itself THEN None ELSE owner[f]

\* The faces of one identity are one group; a face without one is its own.
GroupOf(f, T) ==
    IF OwnerOf(f) = None THEN {f} ELSE {g \in T : OwnerOf(g) = OwnerOf(f)}

MaxOf(S) == CHOOSE x \in S : \A y \in S : x >= y

\* By the best face, whatever their number.
BestFirst(G, H) == G.similarity >= H.similarity

Ranked(groups) ==
    {r \in [1..Cardinality(groups) -> groups] :
        /\ {r[n] : n \in DOMAIN r} = groups
        /\ \A m, n \in DOMAIN r : m < n => BestFirst(r[m], r[n])}

Groups(T) ==
    {[identity |-> OwnerOf(f), members |-> GroupOf(f, T),
      similarity |-> MaxOf({similar[g] : g \in GroupOf(f, T)})] : f \in T}

\* What the second group leaves of the lead; nothing without a second.
Margin(ranked) ==
    IF Len(ranked) < 2 THEN None ELSE ranked[1].similarity - ranked[2].similarity

\* Variant: an index that has caught up is enough.
NothingWaits(dropped, converged) == converged
Complete(dropped, converged) == dropped = 0 /\ converged

-----------------------------------------------------------------------------
(* The policy: the first rule that applies                                 *)

Abstain(reason) == [outcome |-> "ABSTAIN", reason |-> reason, identity |-> None]
Create(reason) == [outcome |-> "CREATE_NEW", reason |-> reason, identity |-> None]

\* Variant: the lead over the next candidate is not asked for.
MatchFirst(ranked) ==
    IF ranked[1].identity = None THEN Abstain("UNRESOLVED_NEIGHBOUR")
    ELSE [outcome |-> "MATCH_EXISTING", reason |-> "MATCHED", identity |-> ranked[1].identity]

Match(ranked) ==
    IF Margin(ranked) # None /\ Margin(ranked) < policy.margin
    THEN Abstain("AMBIGUOUS_CANDIDATES")
    ELSE MatchFirst(ranked)

Judged(good, complete, ranked) ==
    IF ~good THEN Abstain("LOW_QUALITY")
    ELSE IF ~complete THEN Abstain("RETRIEVAL_INCOMPLETE")
    ELSE IF ranked = <<>> THEN Create("NO_CANDIDATE")
    ELSE IF ranked[1].similarity >= policy.threshold THEN Match(ranked)
    ELSE IF ranked[1].similarity < policy.ceiling THEN Create("NOT_SIMILAR")
    ELSE Abstain("UNCERTAIN_SIMILARITY")

\* The decision with the evidence it is kept with; good is whether the detection
\* score passes the quality gate.
Evidence(good, retrieval, converged, ranked) ==
    LET complete == Complete(retrieval.dropped, converged) IN
    [proposal |-> Judged(good, complete, ranked), good |-> good, candidates |-> ranked,
     margin |-> Margin(ranked), requested |-> K, returned |-> Cardinality(retrieval.members),
     dropped |-> retrieval.dropped, converged |-> converged]

-----------------------------------------------------------------------------
(* The run                                                                 *)

Present == {f \in Face : Eligible(f)}

\* An index holds every eligible face whose ADD is not waiting, and perhaps
\* faces whose REMOVE is.
Indexes == IF lag THEN SUBSET Face ELSE {S \in SUBSET Face : Present \subseteq S}

OpenIndex ==
    /\ opened = None /\ decision = None
    /\ opened' \in Indexes
    /\ UNCHANGED <<question, owner, decision, verdict, answer, changes>>

\* One read transaction, after the index was opened.
Decide ==
    /\ opened # None
    /\ \E good \in BOOLEAN, retrieval \in Retrievals(opened, RunLocal, LeftOut, K) :
       \E converged \in (IF lag THEN {FALSE} ELSE BOOLEAN) :
       \E ranked \in Ranked(Groups(retrieval.members)) :
          decision' = Evidence(good, retrieval, converged, ranked)
    /\ opened' = None
    /\ UNCHANGED <<question, owner, verdict, answer, changes>>

-----------------------------------------------------------------------------
(* Acceptance reads the evidence back                                      *)

ReasonsOf(outcome) ==
    CASE outcome = "MATCH_EXISTING" -> {"MATCHED"}
      [] outcome = "CREATE_NEW" -> {"NO_CANDIDATE", "NOT_SIMILAR"}
      [] outcome = "ABSTAIN" -> {"LOW_QUALITY", "RETRIEVAL_INCOMPLETE", "AMBIGUOUS_CANDIDATES",
                                 "UNRESOLVED_NEIGHBOUR", "UNCERTAIN_SIMILARITY"}

\* No candidate is empty, scored by other than its best member, or there twice.
CandidatesAreSound(candidates) ==
    /\ \A n \in DOMAIN candidates :
          /\ candidates[n].members # {}
          /\ candidates[n].similarity = MaxOf({similar[f] : f \in candidates[n].members})
    /\ \A m, n \in DOMAIN candidates : m # n =>
          /\ candidates[m].members \cap candidates[n].members = {}
          /\ candidates[m].identity = None \/ candidates[m].identity # candidates[n].identity

\* Variant: a candidate is counted once, however many faces it has.
OnePerCandidate(e) == Len(e.candidates) = e.returned
CountsAgree(e) ==
    /\ e.requested >= 2 /\ e.returned <= e.requested
    /\ Len(e.candidates) <= e.returned
    /\ Cardinality(UNION {e.candidates[n].members : n \in DOMAIN e.candidates}) = e.returned

MarginAgrees(e) == e.margin = Margin(e.candidates)

\* Every cited face is what it was: ACTIVE, and of the identity it was cited for.
Authoritative(e) ==
    \A n \in DOMAIN e.candidates : \A f \in e.candidates[n].members :
        /\ f # Itself
        /\ owner[f] = e.candidates[n].identity

\* The decision follows from its evidence under the run's policy.
FollowsEvidence(e) ==
    /\ \A m, n \in DOMAIN e.candidates :
          m < n => BestFirst(e.candidates[m], e.candidates[n])
    /\ e.proposal = Judged(e.good, Complete(e.dropped, e.converged), e.candidates)

Accept ==
    /\ decision # None /\ verdict = "none"
    /\ verdict' = IF /\ decision.proposal.reason \in ReasonsOf(decision.proposal.outcome)
                     /\ CandidatesAreSound(decision.candidates)
                     /\ CountsAgree(decision) /\ MarginAgrees(decision)
                     /\ Authoritative(decision) /\ FollowsEvidence(decision)
                  THEN "accepted" ELSE "refused"
    /\ UNCHANGED <<question, owner, opened, decision, answer, changes>>

-----------------------------------------------------------------------------
(* A face search of the same picture, before the run decides: the index is *)
(* opened under the lock of every pass, in the transaction that answers.   *)
(* Its face passes the quality gate.                                       *)

\* Who it is, if the policy accepts a match, and who it might be.
Answer(complete, ranked) ==
    [complete |-> complete, identity |-> Judged(TRUE, complete, ranked).identity,
     people |-> {ranked[n].identity : n \in DOMAIN ranked} \ {None}]

SearchFace ==
    /\ opened # None /\ answer = None
    /\ \E index \in Indexes, converged \in (IF lag THEN {FALSE} ELSE BOOLEAN) :
       \E retrieval \in Retrievals(index, {}, {}, SearchK) :
       \E ranked \in Ranked(Groups(retrieval.members)) :
          answer' = Answer(Complete(retrieval.dropped, converged), ranked)
    /\ UNCHANGED <<question, owner, opened, decision, verdict, changes>>

-----------------------------------------------------------------------------
(* Other transactions                                                      *)

\* Before the index is opened the library may be any, and an answer is compared
\* with the run only over the library it was given for.
Change(new) ==
    /\ opened # None \/ decision # None
    /\ verdict = "none" /\ answer = None /\ changes < MaxChanges
    /\ owner' = new
    /\ changes' = changes + 1
    /\ UNCHANGED <<question, opened, decision, verdict, answer>>

Erase(f) == Eligible(f) /\ Change([owner EXCEPT ![f] = "GONE"])

Merge(i, j) ==
    /\ i # j
    /\ \E f \in Face : owner[f] = i
    /\ Change([f \in Face |-> IF owner[f] = i THEN j ELSE owner[f]])

\* A face is corrected, resolved or split off.
Assign(f, i) == Eligible(f) /\ owner[f] # i /\ Change([owner EXCEPT ![f] = i])

Next ==
    \/ OpenIndex \/ Decide \/ Accept \/ SearchFace
    \/ \E f \in Face : Erase(f)
    \/ \E i, j \in Identities : Merge(i, j)
    \/ \E f \in Face, i \in Identities : Assign(f, i)

Spec == Init /\ [][Next]_vars

-----------------------------------------------------------------------------
(* Properties                                                              *)

TypeOK ==
    /\ similar \in [Face \cup {Itself} -> 0..Top]
    /\ owner \in [Face -> Identities \cup {None, "GONE"}]
    /\ policy \in Policies /\ lag \in BOOLEAN
    /\ opened = None \/ opened \subseteq Face
    /\ verdict \in {"none", "accepted", "refused"}
    /\ changes \in 0..MaxChanges

\* A face of i is so much nearer than g that the policy may tell them apart; or
\* g was out of sight, behind a whole shortlist of i.
Separates(f, g, i) ==
    \/ similar[f] - similar[g] >= policy.margin
    \/ Cardinality({h \in Face : owner[h] = i /\ similar[h] >= similar[g]}) >= K

\* What acceptance publishes is true of the library as it is then, not only of
\* the shortlist it was decided from: a match has a face of its identity above
\* the threshold and ahead of every face that is not of that identity, and no
\* new identity is created while a face as near as the ceiling is remembered
\* (retrieval.py retrieve, reasoner.py decide, accept_run.py
\* _validate_reasoned_decision).
AcceptedIsTrue ==
    verdict = "accepted" =>
        CASE decision.proposal.outcome = "MATCH_EXISTING" ->
                 LET i == decision.proposal.identity IN
                 \E f \in Face :
                     /\ owner[f] = i /\ similar[f] >= policy.threshold
                     /\ \A g \in Present : owner[g] # i => Separates(f, g, i)
          [] decision.proposal.outcome = "CREATE_NEW" ->
                 \A g \in Present : similar[g] < policy.ceiling
          [] OTHER -> TRUE

\* The two halves agree: acceptance never refuses what the decision wrote as
\* evidence, unless a face it cites has left or changed its identity since
\* (reasoner.py evidence_payload, accept_run.py _decision, _evidence, _candidates).
RefusedForCause ==
    verdict = "refused" =>
        \E n \in DOMAIN decision.candidates :
            \E f \in decision.candidates[n].members : owner[f] # decision.candidates[n].identity

\* One of two people is exactly as near as the other.
Tied == \E f, g \in Present : owner[f] # owner[g] /\ similar[f] = similar[g]

\* A face search, which looks at more faces, does not contradict the run that
\* decided about the same face over the same library, when both could see
\* everything: who it names is who the run matches, whom the run matches is among
\* those it offers, and it names nobody for whom the run creates an identity
\* (face_query.py search, routes/face_search.py _answer).
SearchAgrees ==
    (/\ decision # None /\ answer # None /\ ~Tied
     /\ decision.good /\ answer.complete /\ Complete(decision.dropped, decision.converged)) =>
        LET run == decision.proposal IN
        /\ answer.identity # None => run.identity = answer.identity
        /\ run.identity # None =>
              run.identity \in answer.people /\ answer.identity \in {None, run.identity}
=============================================================================

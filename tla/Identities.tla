----------------------------- MODULE Identities -----------------------------
(***************************************************************************)
(* Who the faces of a library belong to: what recognition accepts          *)
(* (processing/execute_job.py, accept_run.py), what a user corrects        *)
(* (identities/use_cases.py, corrections.py, people/use_cases.py and their *)
(* routes), what is forgotten (identities/forget.py) and what goes with a  *)
(* permanently deleted source (sources/permanent_delete.py).               *)
(*                                                                         *)
(* Every action is one write transaction: the database has one writer at a *)
(* time.  A command that the code refuses changes nothing and is left out. *)
(* A face stands for the observation, its one representation, the          *)
(* occurrence made for it and its crop: every writer of these rows makes   *)
(* them one to one.  No code writes crops yet; a face has one here, which  *)
(* forgetting and deletion retire.  How vectors leave the index is left to *)
(* MemoryIndex:                                                            *)
(* here an erasure is queued, and some time later it is done.              *)
(***************************************************************************)
EXTENDS Naturals, FiniteSets

CONSTANTS
    Faces,        \* faces that may be detected
    Sources,      \* images
    SourceOf,     \* [Faces -> Sources]
    Identities,   \* identifiers of identities
    People,       \* identifiers of people
    None          \* NULL: no identity, no face, no person

ASSUME SourceAssumption == SourceOf \in [Faces -> Sources]
ASSUME NoneAssumption == None \notin Faces \cup Identities \cup People
ASSUME FiniteAssumption == IsFiniteSet(Identities)

VARIABLES
    identity,   \* identity -> its row
    face,       \* face -> representation, owner, occurrence, crop, cited face
    link,       \* identity -> the person of its ACTIVE association
    people,     \* the people that exist
    run,        \* source -> the faces its run in flight has decided
    source,     \* source -> its state
    view        \* what one client saw of one identity, while its revision
                \* is still the one it saw

vars == <<identity, face, link, people, run, source, view>>

IdentityStates == {"FREE", "PENDING", "ACTIVE", "MERGED", "FORGOTTEN", "DELETED"}
Unborn == [state |-> "FREE", shows |-> None, mergedInto |-> None]
Unseen == [rep |-> "NONE", owner |-> None, occ |-> "NONE", occOwner |-> None,
           crop |-> "NONE", cites |-> None]

Of(s) == {f \in Faces : SourceOf[f] = s}
Active(i) == identity[i].state = "ACTIVE"
Free == {i \in Identities : identity[i].state = "FREE"}

(* An occurrence the identity owns; the evidence it rests on may move too. *)
OccurrencesOf(i) == {f \in Faces : face[f].occ = "ACTIVE" /\ face[f].occOwner = i}
Supported(f) ==
    face[f].rep = "ACTIVE" /\ face[f].owner # None /\ face[f].owner = face[f].occOwner

(* Optimistic locking: a revision only grows, so a revision sent back is    *)
(* the current one exactly if no write has touched the identity since.     *)
NoView == [of |-> None, faces |-> {}, person |-> None, current |-> FALSE]

(* The people who saw the receiving identity are not told. *)
TouchFirstOnly(I) ==
    view' = IF view.of \in {i \in I : identity[i].shows \in Faces}
            THEN [view EXCEPT !.current = FALSE] ELSE view

Touch(I) == view' = IF view.of \in I THEN [view EXCEPT !.current = FALSE] ELSE view
AsSeen(i) == view.of = i => view.current

(* The representative stays although its face has left. *)
RefreshedNever(i, moved) == {identity[i].shows}

(* A representative face that has just left is replaced by one that stayed. *)
Refreshed(i, moved) ==
    IF identity[i].shows \notin moved THEN {identity[i].shows}
    ELSE LET left == {f \in OccurrencesOf(i) \ moved :
                        face[f].rep = "ACTIVE" /\ face[f].owner = i}
         IN IF left = {} THEN {None} ELSE left

(* Only the identity itself, not those merged into it. *)
FamilyOfOne(i) == {i}

(* The identity and every identity merged into it, one generation at a time. *)
Family(i) ==
    LET found[n \in 0..Cardinality(Identities)] ==
          IF n = 0 THEN {i}
          ELSE found[n - 1] \cup
               {j \in Identities : identity[j].mergedInto \in found[n - 1]}
    IN found[Cardinality(Identities)]

(* Where a candidate of an older search leads: as far as the merges go.     *)
(* The candidate is dropped unless the identity found there is ACTIVE.     *)
EndOf(i) ==
    LET next(j) == IF identity[j].state = "MERGED" THEN identity[j].mergedInto ELSE j
        walk[n \in 0..Cardinality(Identities)] == IF n = 0 THEN i ELSE next(walk[n - 1])
    IN walk[Cardinality(Identities)]

Init ==
    /\ identity = [i \in Identities |-> Unborn]
    /\ face = [f \in Faces |-> Unseen]
    /\ link = [i \in Identities |-> None]
    /\ people = {}
    /\ run = [s \in Sources |-> {}]
    /\ source = [s \in Sources |-> "ACTIVE"]
    /\ view = NoView

-----------------------------------------------------------------------------
(* Recognition.                                                            *)

(* A face recognition may answer with: retrieval returns no other. *)
Candidate(m) == face[m].rep = "ACTIVE" /\ face[m].owner # None /\ Active(face[m].owner)

(* The decision about a face: create (a new identity), abstain, or match   *)
(* the owner of the face m.  It is private until the run is accepted; a    *)
(* match names an identity that is ACTIVE now.                             *)
Decide(s, D, born) ==
    /\ source[s] = "ACTIVE" /\ run[s] = {} /\ D # {}
    /\ \A f \in Of(s) : face[f].rep \in {"NONE", "PENDING", "ERASING", "ERASED"}
    /\ \A f \in Of(s) : face[f].occ = "NONE"
    /\ \A f \in D : face[f].rep = "NONE"
    /\ \E cited \in [D \ DOMAIN born -> {m \in Faces : Candidate(m)} \cup {None}] :
         face' = [f \in Faces |->
                    IF f \notin D THEN face[f]
                    ELSE [Unseen EXCEPT
                            !.rep = "PENDING", !.crop = "KEPT",
                            !.owner = IF f \in DOMAIN born THEN born[f]
                                      ELSE IF cited[f] = None THEN None
                                      ELSE face[cited[f]].owner,
                            !.cites = IF f \in DOMAIN born THEN None ELSE cited[f]]]
    /\ identity' = [i \in Identities |->
                      IF \E f \in DOMAIN born : born[f] = i
                      THEN [Unborn EXCEPT !.state = "PENDING",
                              !.shows = CHOOSE f \in DOMAIN born : born[f] = i]
                      ELSE identity[i]]
    /\ run' = [run EXCEPT ![s] = D]
    /\ UNCHANGED <<link, people, source, view>>

Created(f) == face[f].owner # None /\ face[f].cites = None
Matched(f) == face[f].cites # None

(* What acceptance checks again, after whatever happened since the decision. *)
StillValid(f) ==
    /\ face[f].rep = "PENDING"
    /\ Created(f) => identity[face[f].owner].state = "PENDING"
    /\ Matched(f) => /\ Active(face[f].owner)
                     /\ face[face[f].cites].rep = "ACTIVE"
                     /\ face[face[f].cites].owner = face[f].owner

(* A new identity becomes ACTIVE; a matched one is ACTIVE already. *)
Activated(row) == [row EXCEPT !.state = "ACTIVE"]

(* A face that has an owner gets its occurrence; one that recognition       *)
(* abstained from is only searchable.                                      *)
Assigned(row) ==
    IF row.owner = None THEN [row EXCEPT !.rep = "ACTIVE"]
    ELSE [row EXCEPT !.rep = "ACTIVE", !.occ = "ACTIVE", !.occOwner = row.owner]

Accept(s) ==
    LET owners == {face[f].owner : f \in run[s]} \ {None}
    IN /\ run[s] # {} /\ \A f \in run[s] : StillValid(f)
       /\ identity' = [i \in Identities |->
                         IF i \in owners THEN Activated(identity[i]) ELSE identity[i]]
       /\ face' = [f \in Faces |-> IF f \in run[s] THEN Assigned(face[f]) ELSE face[f]]
       /\ run' = [run EXCEPT ![s] = {}]
       /\ Touch(owners)
       /\ UNCHANGED <<link, people, source>>

(* The run fails or is cancelled: what it left private stays where it is. *)
RunEnds(s) ==
    /\ run[s] # {}
    /\ run' = [run EXCEPT ![s] = {}]
    /\ UNCHANGED <<identity, face, link, people, source, view>>

-----------------------------------------------------------------------------
(* Merge, split, corrections.                                              *)

(* The losing members' occurrences stay behind. *)
MergeIntoFaces(L, s) ==
    /\ link' = [i \in Identities |-> IF i \in L THEN None ELSE link[i]]
    /\ identity' = [i \in Identities |->
          IF i \in L THEN [identity[i] EXCEPT !.state = "MERGED", !.mergedInto = s]
          ELSE identity[i]]
    /\ face' = [f \in Faces |->
          IF face[f].owner \in L /\ face[f].rep = "ACTIVE"
          THEN [face[f] EXCEPT !.owner = s] ELSE face[f]]

(* What the survivor has wins; otherwise the first losing member that has  *)
(* one gives it.                                                           *)
Inherits(own, others) ==
    IF own # None \/ others \ {None} = {} THEN {own} ELSE others \ {None}

(* The person the survivor has afterwards: its own, or one carried over.    *)
Named(L, s) == Inherits(link[s], {link[l] : l \in L})

(* merge_identities for every losing member, in one transaction: what is   *)
(* ACTIVE moves, anything else stays on the losing row.                    *)
MergeInto(L, s) ==
    /\ \E p \in Named(L, s) :
         link' = [i \in Identities |-> IF i = s THEN p ELSE IF i \in L THEN None ELSE link[i]]
    /\ \E r \in Inherits(identity[s].shows, {identity[l].shows : l \in L}) :
         identity' = [i \in Identities |->
             IF i = s THEN [identity[s] EXCEPT !.shows = r]
             ELSE IF i \in L
             THEN [identity[i] EXCEPT !.state = "MERGED", !.mergedInto = s]
             ELSE identity[i]]
    /\ face' = [f \in Faces |->
         [face[f] EXCEPT
            !.owner = IF @ \in L /\ face[f].rep = "ACTIVE" THEN s ELSE @,
            !.occOwner = IF @ \in L /\ face[f].occ = "ACTIVE" THEN s ELSE @]]

(* The survivor is not asked whether it is still ACTIVE. *)
MergeIntoAny(L, s) ==
    /\ L # {} /\ s \notin L
    /\ \A i \in L : Active(i) /\ AsSeen(i)
    /\ MergeInto(L, s)
    /\ Touch(L \cup {s})
    /\ UNCHANGED <<people, run, source>>

Merge(L, s) ==
    /\ L # {} /\ s \notin L
    /\ \A i \in L \cup {s} : Active(i) /\ AsSeen(i)
    /\ MergeInto(L, s)
    /\ Touch(L \cup {s})
    /\ UNCHANGED <<people, run, source>>

(* Faces S of i, with all they rest on, become the new identity n. *)
SplitOff(i, S, n) ==
    /\ \E shows \in Refreshed(i, S), first \in S :
         identity' = [identity EXCEPT
            ![i].shows = shows,
            ![n] = [Unborn EXCEPT !.state = "ACTIVE", !.shows = first]]
    /\ face' = [f \in Faces |->
         IF f \in S THEN [face[f] EXCEPT !.owner = n, !.occOwner = n] ELSE face[f]]

Split(i, S, n) ==
    /\ Active(i) /\ AsSeen(i) /\ n \in Free
    /\ S # {} /\ S \subseteq OccurrencesOf(i) /\ \A f \in S : Supported(f)
    /\ SplitOff(i, S, n)
    /\ Touch({i})
    /\ UNCHANGED <<link, people, run, source>>

(* A face that can be corrected: it counts, and so does its identity. *)
InHand(f) == face[f].occ = "ACTIVE" /\ Active(face[f].occOwner)

(* The identity t that a face is moved to: a new one, or one that shows the *)
(* face if it showed none.                                                 *)
Receiving(t, f) ==
    IF t \in Free THEN [Unborn EXCEPT !.state = "ACTIVE", !.shows = f]
    ELSE [identity[t] EXCEPT !.shows = IF @ = None THEN f ELSE @]

(* One face moves to t, an ACTIVE identity or a new one. *)
Reassign(f, t) ==
    LET i == face[f].occOwner
    IN /\ InHand(f)
       /\ t # i /\ (t \in Free \/ Active(t))
       /\ face' = [face EXCEPT ![f].occOwner = t,
                               ![f].owner = IF Supported(f) THEN t ELSE @]
       /\ \E shows \in Refreshed(i, {f}) :
            identity' = [identity EXCEPT
               ![i].shows = shows,
               ![t] = Receiving(t, f)]
       /\ Touch({i, t})
       /\ UNCHANGED <<link, people, run, source>>

(* A face recognition abstained from, still without an occurrence. *)
Unresolved(f) ==
    /\ face[f].rep = "ACTIVE" /\ face[f].owner = None /\ face[f].occ # "ACTIVE"
    /\ source[SourceOf[f]] = "ACTIVE"

(* It gets an identity, and the occurrence that goes with it. *)
Resolve(f, t) ==
    /\ Unresolved(f)
    /\ t \in Free \/ Active(t)
    /\ face' = [face EXCEPT ![f].owner = t, ![f].occ = "ACTIVE", ![f].occOwner = t]
    /\ identity' = [identity EXCEPT ![t] = Receiving(t, f)]
    /\ Touch({t})
    /\ UNCHANGED <<link, people, run, source>>

-----------------------------------------------------------------------------
(* People.                                                                 *)

(* The link to p replaces the current one, whose row only ends. *)
Link(i, p) ==
    /\ link' = [link EXCEPT ![i] = p]
    /\ Touch({i})
    /\ UNCHANGED <<identity, face, run, source>>

AssignPerson(i, p) ==
    /\ Active(i) /\ p \in people /\ link[i] # p
    /\ Link(i, p) /\ UNCHANGED people

(* A person only comes to exist with the unnamed identity that prompts it. *)
NameIdentity(i, p) ==
    /\ Active(i) /\ link[i] = None /\ p \notin people
    /\ people' = people \cup {p} /\ Link(i, p)

RemovePerson(i) ==
    /\ Active(i) /\ link[i] # None
    /\ Link(i, None) /\ UNCHANGED people

-----------------------------------------------------------------------------
(* Forgetting.                                                             *)


(* The rows of faces whose vectors are queued for erasure. *)
Queued(row) ==
    IF row.rep \in {"PENDING", "ACTIVE"} THEN [row EXCEPT !.rep = "ERASING"] ELSE row

(* _retire_crops: the crops of the family's faces are theirs to delete. *)
Retired(row) == IF row.crop = "KEPT" THEN [row EXCEPT !.crop = "DELETING"] ELSE row

(* ForgetIdentityUseCase._one for each of the identities I, in one          *)
(* transaction: the family's faces lose vector and crop, the identity its  *)
(* occurrences and its person.                                             *)
ForgetAll(I) ==
    LET kin == UNION {Family(i) : i \in I}
    IN /\ \A i \in I : Active(i)
       /\ identity' = [i \in Identities |->
            IF i \in I
            THEN [identity[i] EXCEPT !.state = "FORGOTTEN", !.shows = None]
            ELSE IF i \in kin THEN [identity[i] EXCEPT !.shows = None] ELSE identity[i]]
       /\ link' = [i \in Identities |-> IF i \in I THEN None ELSE link[i]]
       /\ face' = [f \in Faces |->
            LET row == IF face[f].owner \in kin THEN Retired(Queued(face[f])) ELSE face[f]
            IN IF row.occ = "ACTIVE" /\ row.occOwner \in I
               THEN [row EXCEPT !.occ = "DELETED"] ELSE row]
       /\ Touch(I)
       /\ UNCHANGED <<people, run, source>>

Forget(i) == AsSeen(i) /\ ForgetAll({i})

ForgetPerson(p) ==
    LET linked == {i \in Identities : link[i] = p /\ Active(i)}
    IN p \in people /\ linked # {} /\ ForgetAll(linked)

(* RepresentationEraser's work for one face (MemoryIndex). *)
Erased(f) ==
    /\ face[f].rep = "ERASING"
    /\ face' = [face EXCEPT ![f].rep = "ERASED"]
    /\ UNCHANGED <<identity, link, people, run, source, view>>

-----------------------------------------------------------------------------
(* Permanent deletion of a source that is in the Recycle Bin.              *)

(* Everyone who relied on its faces sees a changed identity from now on. *)
BeginDeletion(s) ==
    LET losing == {face[f].occOwner : f \in Of(s)} \ {None}
    IN /\ source[s] = "ACTIVE" /\ run[s] = {}
       /\ source' = [source EXCEPT ![s] = "DELETING"]
       /\ face' = [f \in Faces |->
            IF f \notin Of(s) THEN face[f]
            ELSE LET row == Retired(Queued(face[f]))
                 IN IF row.occ = "ACTIVE" THEN [row EXCEPT !.occ = "DELETED"] ELSE row]
       /\ Touch({i \in losing : Active(i)})
       /\ UNCHANGED <<identity, link, people, run>>

(* The rows go; an identity that showed one of the faces shows none (the    *)
(* foreign key), and those that lost one get another face to show, or are  *)
(* deleted with it when nothing and nobody is left.                        *)
FinishDeletion(s) ==
    LET affected == ({face[f].occOwner : f \in Of(s)} \cup {face[f].owner : f \in Of(s)}) \ {None}
        kept(i) == OccurrencesOf(i) \ Of(s)
        shows(i) == IF identity[i].shows \in Of(s) THEN None ELSE identity[i].shows
        refilled(i) == i \in affected /\ Active(i) /\ shows(i) = None /\ kept(i) # {}
        ended(i) == i \in affected /\ Active(i) /\ kept(i) = {} /\ link[i] = None
    IN /\ source[s] = "DELETING"
       /\ \A f \in Of(s) : face[f].rep \in {"NONE", "ERASED"}
       /\ \E pick \in [{i \in Identities : refilled(i)} -> Faces] :
            /\ \A i \in DOMAIN pick : pick[i] \in kept(i)
            /\ identity' = [i \in Identities |->
                 IF refilled(i) THEN [identity[i] EXCEPT !.shows = pick[i]]
                 ELSE IF ended(i)
                 THEN [identity[i] EXCEPT !.state = "DELETED", !.shows = None]
                 ELSE [identity[i] EXCEPT !.shows = shows(i)]]
       /\ face' = [f \in Faces |-> IF f \in Of(s) THEN Unseen ELSE face[f]]
       /\ source' = [source EXCEPT ![s] = "DELETED"]
       /\ Touch({i \in Identities : refilled(i) \/ ended(i)})
       /\ UNCHANGED <<link, people, run>>

-----------------------------------------------------------------------------
(* A client reads an identity, and will send that revision later. *)
Look(i) ==
    /\ view = NoView /\ Active(i)
    /\ view' = [of |-> i, faces |-> OccurrencesOf(i), person |-> link[i],
                current |-> TRUE]
    /\ UNCHANGED <<identity, face, link, people, run, source>>

Correct ==
    \/ \E s \in Identities, L \in SUBSET Identities : Merge(L, s)
    \/ \E i \in Identities, S \in SUBSET Faces, n \in Identities : Split(i, S, n)
    \/ \E f \in Faces, t \in Identities : Reassign(f, t) \/ Resolve(f, t)
    \/ \E i \in Identities, p \in People : AssignPerson(i, p) \/ NameIdentity(i, p)
    \/ \E i \in Identities : RemovePerson(i)

Recognize ==
    \/ \E s \in Sources, D \in SUBSET Faces, B \in SUBSET Faces :
         /\ D \subseteq Of(s) /\ B \subseteq D
         /\ \E born \in [B -> Free] :
              (\A f, g \in B : born[f] = born[g] => f = g) /\ Decide(s, D, born)
    \/ \E s \in Sources : Accept(s) \/ RunEnds(s)

Remove ==
    \/ \E i \in Identities : Forget(i)
    \/ \E p \in People : ForgetPerson(p)
    \/ \E f \in Faces : Erased(f)
    \/ \E s \in Sources : BeginDeletion(s) \/ FinishDeletion(s)

Next == Recognize \/ Correct \/ Remove \/ \E i \in Identities : Look(i)

Spec == Init /\ [][Next]_vars

-----------------------------------------------------------------------------
(* Properties.                                                             *)

Rows == [state : IdentityStates,
         shows : Faces \cup {None}, mergedInto : Identities \cup {None}]
FaceRows == [rep : {"NONE", "PENDING", "ACTIVE", "ERASING", "ERASED"},
             owner : Identities \cup {None}, occ : {"NONE", "ACTIVE", "DELETED"},
             occOwner : Identities \cup {None}, crop : {"NONE", "KEPT", "DELETING"},
             cites : Faces \cup {None}]

(* Every variable holds rows of its table. *)
TypeOK ==
    /\ identity \in [Identities -> Rows] /\ face \in [Faces -> FaceRows]
    /\ link \in [Identities -> People \cup {None}] /\ people \subseteq People
    /\ run \in [Sources -> SUBSET Faces]
    /\ source \in [Sources -> {"ACTIVE", "DELETING", "DELETED"}]
    /\ view \in [of : Identities \cup {None}, faces : SUBSET Faces,
                person : People \cup {None}, current : BOOLEAN]

(* A face that counts (an ACTIVE occurrence or an ACTIVE owned              *)
(* representation) has one owner in both rows, and that owner is ACTIVE.   *)
OwnersAgree ==
    \A f \in Faces :
        face[f].occ = "ACTIVE" \/ (face[f].rep = "ACTIVE" /\ face[f].owner # None) =>
            /\ face[f].occ = "ACTIVE" /\ Supported(f) /\ Active(face[f].owner)

(* Only an ACTIVE identity has a person, and following the merges from any *)
(* identity ends, at one that was not merged.                              *)
MergesEnd ==
    /\ \A i \in Identities : link[i] # None => Active(i) /\ link[i] \in people
    /\ \A i \in Identities : identity[EndOf(i)].state # "MERGED"

(* The face an ACTIVE identity shows is its own, or one of a source that is *)
(* being deleted.                                                          *)
ShowsItsOwn ==
    \A i \in Identities : Active(i) /\ identity[i].shows # None =>
        LET f == identity[i].shows
        IN face[f].owner = i \/ source[SourceOf[f]] = "DELETING"

(* Of a forgotten identity and everyone merged into it no vector, crop or   *)
(* occurrence is left in use, and none of them shows a face.               *)
ForgottenLeavesNothing ==
    \A i \in Identities : identity[EndOf(i)].state = "FORGOTTEN" =>
        /\ \A f \in Faces : face[f].owner = i =>
              /\ face[f].rep \in {"ERASING", "ERASED"}
              /\ face[f].occ # "ACTIVE" /\ face[f].crop # "KEPT"
        /\ identity[i].shows = None

(* The revision a client read is still current only while the identity has *)
(* exactly the faces and the person it had then: a merge, split or forget  *)
(* that is let through never acts on anything its sender did not see,      *)
(* whichever route changed the identity in between.                        *)
CurrentViewsAreTrue ==
    view.current /\ Active(view.of) =>
        OccurrencesOf(view.of) = view.faces /\ link[view.of] = view.person

(* An identity that keeps a face has a face to show. *)
KeptFacesAreShown ==
    \A i \in Identities : Active(i) /\ OccurrencesOf(i) # {} => identity[i].shows # None
=============================================================================

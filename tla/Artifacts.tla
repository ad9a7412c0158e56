------------------------------ MODULE Artifacts ------------------------------
(***************************************************************************)
(* The bytes of the library and the rows that own them: an image is        *)
(* imported as a managed copy or as a reference to the user's file, found  *)
(* missing, rechecked, located again, and deleted with its source; what a  *)
(* crash leaves half done is settled at the next start.                    *)
(*                                                                         *)
(* No transaction is held across work on a file, so every call is a        *)
(* sequence of steps: a transaction, or one operation on one file.  Calls  *)
(* of several callers interleave at these steps, each of which may fail,   *)
(* and the process may stop between any two.  Main is the thread that      *)
(* opens the library, alone.                                               *)
(*                                                                         *)
(* Abstracted: an artifact stands for its source too (a source has one     *)
(* original and an original one source), and bytes are one of two images.  *)
(* Crops and thumbnails go through the same deletion.                      *)
(***************************************************************************)
EXTENDS FiniteSets

CONSTANTS
    Artifact,   \* rows that may be made (bound of a behaviour)
    Place,      \* places outside of the library where the user keeps files
    Caller,     \* requests that are served at the same time
    Main,       \* the thread that opens the library
    None

ASSUME DistinctNames ==
    /\ Artifact \cap Place = {}
    /\ None \notin Artifact \cup Place \cup {"MANAGED", "REFERENCED", "ORIGINAL", "OTHER"}

VARIABLES
    artifact,   \* the rows: state, mode, where the bytes are, recorded hash
    source,     \* artifact -> state of the source whose original it is
    vectors,    \* sources that have face vectors (in rows and index files)
    file,       \* managed key or place -> what the file there holds
    staged,     \* artifacts that have a staging file
    call,       \* caller -> what it is doing and what it has read
    phase,      \* of the process
    todo,       \* what the current step of recovery still has to visit
    left        \* what recovery reports as skipped, failed or left

vars == <<artifact, source, vectors, file, staged, call, phase, todo, left>>
rows == <<artifact, source, vectors>>
disk == <<file, staged>>
open == <<phase, todo, left>>

Image == {"ORIGINAL", "OTHER"}
NoBytes == {"ABSENT", "GONE"}       \* never there or removed; taken by the user
ArtifactState == {"PENDING", "AVAILABLE", "MISSING", "DELETING", "DELETE_FAILED", "DELETED"}
Deletable == {"AVAILABLE", "MISSING", "DELETE_FAILED"}
OnTheWay == {"DELETING", "DELETE_FAILED"}
Visible == {"ACTIVE", "RECYCLED"}

NoRow == [state |-> "FREE", mode |-> None, at |-> None, recorded |-> None]
Idle == [op |-> "none", step |-> "idle", on |-> None, saw |-> None, at |-> None,
         owing |-> FALSE]
Doing(op, step, a) == [op |-> op, step |-> step, on |-> a, saw |-> None, at |-> None,
                       owing |-> FALSE]

At(c, step) == call[c].step = step
GoTo(c, step) == call' = [call EXCEPT ![c].step = step]
Return(c) == call' = [call EXCEPT ![c] = Idle]
\* A guarded transition: one UPDATE that names the states it starts from.
Become(a, state) == artifact' = [artifact EXCEPT ![a].state = state]

Serving(c) == c \in Caller /\ phase = "open" /\ call[c] = Idle
Managed(a) == artifact[a].mode = "MANAGED"
Present(a) == file[artifact[a].at] \notin NoBytes

Init ==
    /\ artifact = [a \in Artifact |-> NoRow]
    /\ source = [a \in Artifact |-> "NONE"]
    /\ vectors = {}
    /\ file = [x \in Artifact \cup Place |-> IF x \in Place THEN "ORIGINAL" ELSE "ABSENT"]
    /\ staged = {}
    /\ call = [c \in Caller \cup {Main} |-> Idle]
    /\ phase = "down"
    /\ todo = {}
    /\ left = {}

-----------------------------------------------------------------------------
(* Writing a managed artifact, with a source (an import) or without        *)

Reserve(c, a) ==
    /\ Serving(c)
    /\ artifact[a].state = "FREE"
    /\ artifact' = [artifact EXCEPT
                       ![a] = [state |-> "PENDING", mode |-> "MANAGED", at |-> a,
                               recorded |-> None]]
    /\ \E op \in {"import", "create"} : call' = [call EXCEPT ![c] = Doing(op, "stage", a)]
    /\ UNCHANGED <<source, vectors, disk, open>>

\* Variant: the bytes are written where they will be, as they come.
StageInPlace(c) ==
    /\ At(c, "stage")
    /\ file' = [file EXCEPT ![call[c].on] = "OTHER"]
    /\ GoTo(c, "rename")
    /\ UNCHANGED <<rows, staged, open>>
Stage(c) ==
    /\ At(c, "stage")
    /\ staged' = staged \cup {call[c].on}
    /\ GoTo(c, "rename")
    /\ UNCHANGED <<rows, file, open>>

\* The name is new with the artifact, so nothing is there to refuse the rename.
Rename(c) ==
    /\ At(c, "rename")
    /\ file' = [file EXCEPT ![call[c].on] = "ORIGINAL"]
    /\ staged' = staged \ {call[c].on}
    /\ GoTo(c, "publish")
    /\ UNCHANGED <<rows, open>>

\* A failed write removes its staging file, if it can.
StoreFails(c) ==
    /\ call[c].step \in {"stage", "rename"}
    /\ staged' \in {staged, staged \cup {call[c].on}, staged \ {call[c].on}}
    /\ GoTo(c, "undo")
    /\ UNCHANGED <<rows, file, open>>

Publish(c) ==
    LET a == call[c].on IN
    /\ At(c, "publish")
    /\ artifact[a].state = "PENDING"
    /\ artifact' = [artifact EXCEPT ![a].state = "AVAILABLE", ![a].recorded = "ORIGINAL"]
    /\ IF call[c].op = "import"
       THEN source' = [source EXCEPT ![a] = "ACTIVE"] /\ vectors' = vectors \cup {a}
       ELSE UNCHANGED <<source, vectors>>
    /\ Return(c)
    /\ UNCHANGED <<disk, open>>

WriteNotCompleted(c) ==
    /\ At(c, "undo")
    /\ artifact[call[c].on].state = "PENDING"
    /\ Become(call[c].on, "MISSING")
    /\ Return(c)
    /\ UNCHANGED <<source, vectors, disk, open>>

-----------------------------------------------------------------------------
(* Referencing the user's file: inspected, then recorded with its source   *)

ImportReferenced(c, a, p) ==
    /\ Serving(c)
    /\ artifact[a].state = "FREE"
    /\ file[p] \in Image
    /\ artifact' = [artifact EXCEPT
                       ![a] = [state |-> "AVAILABLE", mode |-> "REFERENCED", at |-> p,
                               recorded |-> file[p]]]
    /\ source' = [source EXCEPT ![a] = "ACTIVE"]
    /\ vectors' = vectors \cup {a}
    /\ UNCHANGED <<disk, call, open>>

\* The user moves, replaces and brings back files, also the library's own copies.
UserChanges(x) ==
    /\ x \in Artifact => artifact[x].state \in {"AVAILABLE", "MISSING"} /\ artifact[x].recorded # None
    /\ \E content \in Image \cup {"GONE"} : file' = [file EXCEPT ![x] = content]
    /\ UNCHANGED <<rows, staged, call, open>>

-----------------------------------------------------------------------------
(* Bringing a missing original back                                        *)

\* recheck_original: the first read; an original without a hash is refused.
Recheck(c, a) ==
    /\ Serving(c)
    /\ source[a] \in Visible
    /\ artifact[a].state = "MISSING" /\ artifact[a].recorded # None
    /\ call' = [call EXCEPT ![c] = Doing("recheck", "reread", a)]
    /\ UNCHANGED <<rows, disk, open>>

\* The verifier reads again: by now another caller may have brought it back.
Reread(c) ==
    LET a == call[c].on
        verifiable == IF Managed(a) THEN {"MISSING"} ELSE {"AVAILABLE", "MISSING"} IN
    /\ At(c, "reread")
    /\ IF artifact[a].state \in verifiable
       THEN call' = [call EXCEPT ![c].step = "examine", ![c].saw = artifact[a].state,
                                 ![c].at = artifact[a].at]
       ELSE Return(c)
    /\ UNCHANGED <<rows, disk, open>>

\* The file is read outside of any transaction, where the row said it was.
Examine(c) ==
    LET verdict == IF file[call[c].at] = artifact[call[c].on].recorded
                   THEN "AVAILABLE" ELSE "MISSING" IN
    /\ At(c, "examine")
    /\ IF verdict = call[c].saw
       THEN Return(c)
       ELSE GoTo(c, IF verdict = "AVAILABLE" THEN "found" ELSE "lost")
    /\ UNCHANGED <<rows, disk, open>>

\* Variant: the verdict is written whatever the row says by now.
UnchangedSince(c) == TRUE
\* The verdict counts only if the row is still in the state it was read in.
StillAsSeen(c) == artifact[call[c].on].state = call[c].saw

Record(c) ==
    /\ call[c].step \in {"found", "lost"}
    /\ IF StillAsSeen(c)
       THEN Become(call[c].on, IF At(c, "found") THEN "AVAILABLE" ELSE "MISSING")
       ELSE UNCHANGED artifact
    /\ Return(c)
    /\ UNCHANGED <<source, vectors, disk, open>>

Locate(c, a) ==
    /\ Serving(c)
    /\ source[a] \in Visible
    /\ ~Managed(a) /\ artifact[a].state = "MISSING"
    /\ call' = [call EXCEPT ![c] = [Doing("relink", "inspect", a) EXCEPT !.saw = "MISSING"]]
    /\ UNCHANGED <<rows, disk, open>>

\* A file that is not the recorded image is refused.
Inspect(c, p) ==
    /\ At(c, "inspect")
    /\ IF file[p] = artifact[call[c].on].recorded
       THEN call' = [call EXCEPT ![c].step = "relink", ![c].at = p]
       ELSE Return(c)
    /\ UNCHANGED <<rows, disk, open>>

Relink(c) ==
    LET a == call[c].on IN
    /\ At(c, "relink")
    /\ artifact' = IF StillAsSeen(c)
                   THEN [artifact EXCEPT ![a].state = "AVAILABLE", ![a].at = call[c].at]
                   ELSE artifact
    /\ Return(c)
    /\ UNCHANGED <<source, vectors, disk, open>>

-----------------------------------------------------------------------------
(* The recycle bin and permanent deletion                                  *)

Recycle(c, a) ==
    /\ Serving(c)
    /\ \/ source[a] = "ACTIVE" /\ source' = [source EXCEPT ![a] = "RECYCLED"]
       \/ source[a] = "RECYCLED" /\ source' = [source EXCEPT ![a] = "ACTIVE"]
    /\ artifact[a].state \notin OnTheWay \cup {"DELETED"}
    /\ UNCHANGED <<artifact, vectors, disk, call, open>>

\* The user's file is forgotten; a managed one is owed a deletion, also if it is
\* missing, or its write never finished.
Intent(a) ==
    IF artifact[a].mode = "REFERENCED" THEN [artifact[a] EXCEPT !.state = "DELETED", !.at = None]
    ELSE IF artifact[a].state \in Deletable \cup {"PENDING"}
    THEN [artifact[a] EXCEPT !.state = "DELETING"]
    ELSE artifact[a]

BeginDelete(c, a) ==
    /\ Serving(c)
    /\ \/ /\ source[a] = "RECYCLED"
          /\ source' = [source EXCEPT ![a] = "DELETING"]
          /\ artifact' = [artifact EXCEPT ![a] = Intent(a)]
       \/ source[a] \in {"DELETING", "DELETED"} /\ UNCHANGED <<source, artifact>>
    /\ call' = [call EXCEPT ![c] = Doing("delete", "carry", a)]
    /\ UNCHANGED <<vectors, disk, open>>

\* What a call of Main does not finish is reported by recovery.
Leaves(c, a, failing) == left' = IF c = Main /\ failing THEN left \cup {a} ELSE left

\* What the call has to do, read at once.
Carry(c) ==
    LET a == call[c].on
        owed == Managed(a) /\ artifact[a].state \in OnTheWay IN
    /\ At(c, "carry")
    /\ IF source[a] = "DELETED"
       THEN Return(c)
       ELSE call' = [call EXCEPT ![c].step = IF owed THEN "intent" ELSE "erase",
                                 ![c].owing = ~owed /\ artifact[a].state # "DELETED"]
    /\ UNCHANGED <<rows, disk, open>>

ReadIntent(c) ==
    /\ At(c, "intent")
    /\ GoTo(c, IF artifact[call[c].on].state = "DELETED" THEN "erase" ELSE "unlink")
    /\ UNCHANGED <<rows, disk, open>>

\* Removing bytes that are not there is a success.
Unlink(c) ==
    /\ At(c, "unlink")
    /\ \/ file' = [file EXCEPT ![call[c].on] = "ABSENT"] /\ GoTo(c, "settle")
       \/ UNCHANGED file /\ GoTo(c, "unlink failed")
    /\ UNCHANGED <<rows, staged, open>>

\* Variant: a failure is recorded over what the other request did.
SettledOver(a, failed) == IF failed THEN "DELETE_FAILED" ELSE "DELETED"
\* What the row becomes; one that another request finished stays as it is.
Settled(a, failed) ==
    IF failed /\ artifact[a].state \in OnTheWay THEN "DELETE_FAILED"
    ELSE IF artifact[a].state \in OnTheWay THEN "DELETED"
    ELSE artifact[a].state

\* Only a failure that was recorded counts; then the call goes on.
Settle(c) ==
    LET a == call[c].on
        failed == At(c, "unlink failed") IN
    /\ call[c].step \in {"settle", "unlink failed"}
    /\ Become(a, Settled(a, failed))
    /\ IF call[c].op = "delete"
       THEN call' = [call EXCEPT ![c].step = "erase", ![c].owing = failed /\ artifact[a].state # "DELETED"]
       ELSE Return(c)
    /\ IF call[c].op = "recover"
       THEN todo' = todo \ {a} /\ Leaves(c, a, failed)
       ELSE UNCHANGED <<todo, left>>
    /\ UNCHANGED <<source, vectors, disk, phase>>

\* The staging file, if there is one, and the face vectors; both may be left.
Erase(c) ==
    LET a == call[c].on IN
    /\ At(c, "erase")
    /\ staged' \in {staged, staged \ {a}}
    /\ vectors' \in {vectors, vectors \ {a}}
    /\ call' = [call EXCEPT ![c].step = "finish",
                            ![c].owing = @ \/ a \in staged' \/ a \in vectors']
    /\ UNCHANGED <<artifact, source, file, open>>

\* The last transaction, unless something is owed.
Finish(c) ==
    LET a == call[c].on IN
    /\ At(c, "finish")
    /\ IF ~call[c].owing /\ source[a] = "DELETING" /\ a \notin vectors
       THEN source' = [source EXCEPT ![a] = "DELETED"]
       ELSE UNCHANGED source
    /\ Leaves(c, a, source'[a] # "DELETED")
    /\ Return(c)
    /\ UNCHANGED <<artifact, vectors, disk, phase, todo>>

-----------------------------------------------------------------------------
(* Cleanup of managed artifacts that nothing refers to                     *)

\* Variant: what is in the recycle bin is not in use.
UnreferencedOrRecycled(a) == source[a] \in {"NONE", "RECYCLED"}
\* No row in any table that has a foreign key to artifacts names it.
Unreferenced(a) == source[a] = "NONE"

Choose(c, a) ==
    /\ Serving(c)
    /\ Managed(a) /\ artifact[a].state = "AVAILABLE" /\ Unreferenced(a)
    /\ call' = [call EXCEPT ![c] = Doing("cleanup", "request", a)]
    /\ UNCHANGED <<rows, disk, open>>

RequestDeletion(c) ==
    LET a == call[c].on IN
    /\ At(c, "request")
    /\ IF artifact[a].state \in Deletable /\ Unreferenced(a)
       THEN Become(a, "DELETING") /\ GoTo(c, "unlink")
       ELSE Return(c) /\ UNCHANGED artifact
    /\ UNCHANGED <<source, vectors, disk, open>>

\* A transaction, or a read of a file, fails: the exception ends the call.
CallFails(c) ==
    /\ call[c].step \notin {"idle", "stage", "rename", "unlink"}
    /\ call[c].op # "recover"
    /\ Leaves(c, call[c].on, TRUE)
    /\ Return(c)
    /\ UNCHANGED <<rows, disk, phase, todo>>

-----------------------------------------------------------------------------
(* The process stops, and recovery at the next start                       *)

Crash ==
    /\ phase # "down"
    /\ phase' = "down" /\ todo' = {} /\ left' = {}
    /\ call' = [c \in Caller \cup {Main} |-> Idle]
    /\ UNCHANGED <<rows, disk>>

\* The steps of recovery, and what each of them visits.
StepAfter == [down |-> "pending", pending |-> "deleting", deleting |-> "staging",
              staging |-> "missing", missing |-> "resume", resume |-> "open"]
\* Variant: a deletion that failed once is not tried again.
VisitsOnce(step) ==
    CASE step = "pending"  -> {a \in Artifact : artifact[a].state = "PENDING"}
      [] step = "deleting" -> {a \in Artifact : artifact[a].state = "DELETING"}
      [] step = "staging"  -> staged
      [] step = "resume"   -> {a \in Artifact : source[a] = "DELETING"}
      [] OTHER             -> {}
Visits(step) ==
    CASE step = "pending"  -> {a \in Artifact : artifact[a].state = "PENDING"}
      [] step = "deleting" -> {a \in Artifact : Managed(a) /\ artifact[a].state \in OnTheWay}
      [] step = "staging"  -> staged
      [] step = "resume"   -> {a \in Artifact : source[a] = "DELETING"}
      [] OTHER             -> {}

NextStep ==
    /\ phase \in DOMAIN StepAfter \ {"missing"}
    /\ todo = {} /\ call[Main] = Idle
    /\ phase' = StepAfter[phase]
    /\ todo' = Visits(phase')
    /\ UNCHANGED <<rows, disk, call, left>>

\* Only a finished write is ever renamed to its key: a file there is complete.
Finalized(a) ==
    IF Present(a)
    THEN [artifact[a] EXCEPT !.state = "AVAILABLE", !.recorded = file[a]]
    ELSE [artifact[a] EXCEPT !.state = "MISSING"]

RecoverPending(a) ==
    /\ phase = "pending" /\ a \in todo
    /\ todo' = todo \ {a}
    /\ \/ artifact' = [artifact EXCEPT ![a] = Finalized(a)] /\ UNCHANGED left
       \/ UNCHANGED artifact /\ left' = left \cup {a}          \* unreadable
    /\ UNCHANGED <<source, vectors, disk, call, phase>>

RecoverDeletion(a) ==
    /\ phase = "deleting" /\ a \in todo /\ call[Main] = Idle
    /\ call' = [call EXCEPT ![Main] = Doing("recover", "unlink", a)]
    /\ UNCHANGED <<rows, disk, open>>

\* A staging file is removed once the write it belonged to is settled.
IsSettled(a) == artifact[a].state # "PENDING"

RecoverStaging(a) ==
    /\ phase = "staging" /\ a \in todo
    /\ todo' = todo \ {a}
    /\ \/ IsSettled(a) /\ staged' = staged \ {a} /\ UNCHANGED left
       \/ UNCHANGED staged /\ left' = left \cup {a}
    /\ UNCHANGED <<rows, file, call, phase>>

\* By existence alone; a file that cannot be examined is not gone.
Gone == {a \in Artifact : artifact[a].state = "AVAILABLE" /\ ~Present(a)}

MarkMissing ==
    /\ phase = "missing"
    /\ \E marked \in SUBSET Gone :
          artifact' = [a \in Artifact |->
                          IF a \in marked THEN [artifact[a] EXCEPT !.state = "MISSING"]
                          ELSE artifact[a]]
    /\ phase' = "resume"
    /\ todo' = Visits("resume")
    /\ UNCHANGED <<source, vectors, disk, call, left>>

ResumeDeletion(a) ==
    /\ phase = "resume" /\ a \in todo /\ call[Main] = Idle
    /\ todo' = todo \ {a}
    /\ call' = [call EXCEPT ![Main] = Doing("delete", "carry", a)]
    /\ UNCHANGED <<rows, disk, phase, left>>

-----------------------------------------------------------------------------
CallStep(c) ==
    \/ Stage(c) \/ Rename(c) \/ StoreFails(c) \/ Publish(c) \/ WriteNotCompleted(c)
    \/ Reread(c) \/ Examine(c) \/ Record(c) \/ (\E p \in Place : Inspect(c, p)) \/ Relink(c)
    \/ Carry(c) \/ ReadIntent(c) \/ Unlink(c) \/ Settle(c) \/ Erase(c) \/ Finish(c)
    \/ RequestDeletion(c) \/ CallFails(c)

Request(c) ==
    \E a \in Artifact :
        \/ Reserve(c, a) \/ (\E p \in Place : ImportReferenced(c, a, p))
        \/ Recheck(c, a) \/ Locate(c, a)
        \/ Recycle(c, a) \/ BeginDelete(c, a) \/ Choose(c, a)

Recovery ==
    \/ NextStep \/ MarkMissing
    \/ \E a \in Artifact :
          RecoverPending(a) \/ RecoverDeletion(a) \/ RecoverStaging(a) \/ ResumeDeletion(a)

Next ==
    \/ \E c \in Caller \cup {Main} : CallStep(c)
    \/ \E c \in Caller : Request(c)
    \/ \E x \in Artifact \cup Place : UserChanges(x)
    \/ Recovery
    \/ Crash

Spec == Init /\ [][Next]_vars

-----------------------------------------------------------------------------
(* Properties                                                              *)

TypeOK ==
    /\ artifact \in [Artifact -> [state : ArtifactState \cup {"FREE"},
                                  mode : {"MANAGED", "REFERENCED", None},
                                  at : Artifact \cup Place \cup {None},
                                  recorded : Image \cup {None}]]
    /\ source \in [Artifact -> {"NONE", "DELETING", "DELETED"} \cup Visible]
    /\ vectors \subseteq Artifact /\ staged \subseteq Artifact
    /\ file \in [Artifact \cup Place -> Image \cup NoBytes]
    /\ DOMAIN call = Caller \cup {Main}
    /\ todo \subseteq Artifact /\ left \subseteq Artifact

\* An image of the library keeps its original: whatever cleanups, deletions of
\* other images and recoveries run, a source in the library or in the recycle bin
\* names an original whose hash is known, and only the user ever removes its bytes.
OriginalIsKept ==
    \A a \in Artifact : source[a] \in Visible =>
        /\ artifact[a].state \in {"AVAILABLE", "MISSING"}
        /\ artifact[a].recorded # None
        /\ file[artifact[a].at] # "ABSENT"

\* A managed artifact is recorded with the hash of the image that was imported,
\* whether the import or recovery recorded it: a half-written file never is.
RecordedIsWhole ==
    \A a \in Artifact : Managed(a) /\ artifact[a].recorded # None =>
        artifact[a].recorded = "ORIGINAL"

\* A deletion that was begun can be finished: no recheck, location or cleanup that
\* was under way brings an artifact back behind it.
DeletionCanFinish ==
    \A a \in Artifact : source[a] \in {"DELETING", "DELETED"} =>
        artifact[a].state \in OnTheWay \cup {"DELETED"}

\* What is deleted is gone: no bytes at its key, and with the source no staging
\* file and no face vector, also when two requests and a recovery shared the work.
\* The user's own file is still where it was.
DeletedIsGone ==
    \A a \in Artifact :
        /\ artifact[a].state = "DELETED" /\ Managed(a) => file[a] \in NoBytes
        /\ source[a] = "DELETED" =>
              artifact[a].state = "DELETED" /\ a \notin staged \cup vectors
        /\ ~Managed(a) /\ artifact[a].at # None => file[artifact[a].at] # "ABSENT"

\* When the library opens, recovery has settled every interrupted write and
\* deletion and every staging file, or reports it as left.
RecoverySettles ==
    [][phase # "open" /\ phase' = "open" =>
          \A a \in Artifact \ left :
              /\ artifact[a].state \notin OnTheWay \cup {"PENDING"}
              /\ a \notin staged
              /\ source[a] # "DELETING"]_vars
=============================================================================

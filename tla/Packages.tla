------------------------------ MODULE Packages ------------------------------
(***************************************************************************)
(* Model packages on this machine and their records in the library: a      *)
(* package is installed by a process of its own, the backend settles at    *)
(* its start what installs left behind, lets its records follow the disk,  *)
(* registers what is there, and plans and runs models from it, while the   *)
(* user removes, damages and installs packages.                            *)
(*                                                                         *)
(* Nothing keeps an installer and the backend, or two installers, apart:   *)
(* every look at a directory, copy, removal and rename is a step of its    *)
(* own, and the removal of a directory may stop half-way.                  *)
(*                                                                         *)
(* Abstracted: a package has one model, the embedder; its file is at the   *)
(* same place in every package of a key.  The bytes of a manifest are the  *)
(* package, and a file is what the manifest declares or has other bytes.   *)
(***************************************************************************)
EXTENDS FiniteSets

CONSTANTS
    Package,     \* what can be installed
    Key,         \* names of package directories
    KeyOf,       \* package -> its key
    WeightsOf,   \* package -> the bytes of its model
    ContractOf,  \* package -> what it says of the component version of its model
    Installer,   \* processes that install (a staging directory each)
    None

ASSUME PackagesHaveKeys == KeyOf \in [Package -> Key]
ASSUME NoneAssumption == None \notin Package

VARIABLES
    published,   \* key -> the directory of that name, or None
    staging,     \* installer -> its staging directory, or None
    installing,  \* installer -> what it does next, with which package
    known,       \* key -> the package that is registered under it, or None
    record,      \* key -> states of its installation and of its model's
    artifact,    \* key -> states of the artifacts of these two files
    phase,       \* of the backend
    todo,        \* what this phase still has to visit
    settling,    \* the staging directory recovery is at, and what it does with it
    registered,  \* packages this process has registered
    plan, worker \* the package that was planned; what the worker has loaded

vars == <<published, staging, installing, known, record, artifact, phase,
          todo, settling, registered, plan, worker>>
disk == <<published, staging>>
rows == <<known, record, artifact>>
backend == <<phase, todo, settling, registered, plan, worker>>

File == {"manifest", "model", "other model", "marker"}
Recorded == {"manifest", "model"}     \* the files that have artifact rows

Spaces == {<<WeightsOf[p], ContractOf[p]>> : p \in Package}
SpaceOf(p) == <<WeightsOf[p], ContractOf[p]>>
Idle == [step |-> "idle", of |-> None]
NotSettling == [step |-> "none", of |-> None]

\* A marker that agrees with the manifest beside it: the payload is not read.
IsComplete(d) == d # None /\ {"manifest", "marker"} \subseteq d.files
\* The files are there with the declared bytes.
IsIntact(d) == d # None /\ {"manifest", "model"} \subseteq d.files
Holds(d, file) ==
    d # None /\ d.files \cap (IF file = "model" THEN {"model", "other model"} ELSE {file}) # {}

\* rmtree: the directory is gone, or some of its files are and it stopped there.
Removals(d) ==
    IF d = None THEN {None} ELSE {None} \cup {[d EXCEPT !.files = left] : left \in SUBSET d.files}

Init ==
    /\ published = [k \in Key |-> None]
    /\ staging = [i \in Installer |-> None]
    /\ installing = [i \in Installer |-> Idle]
    /\ known = [k \in Key |-> None]
    /\ record = [k \in Key |-> [f \in Recorded |-> "NONE"]]
    /\ artifact = [k \in Key |-> [f \in Recorded |-> "NONE"]]
    /\ phase = "down"
    /\ todo = {}
    /\ settling = NotSettling
    /\ registered = {}
    /\ plan = None
    /\ worker = None

-----------------------------------------------------------------------------
(* Installing                                                              *)

At(i, step) == installing[i].step = step
GoTo(i, step) == installing' = [installing EXCEPT ![i].step = step]
Ends(i) == installing' = [installing EXCEPT ![i] = Idle]

\* The source holds what its manifest says.  A complete package of this key is
\* returned, or it is another one and the install is refused: nothing changes.
Install(i, p) ==
    /\ At(i, "idle") /\ staging[i] = None
    /\ ~IsComplete(published[KeyOf[p]])
    /\ installing' = [installing EXCEPT
           ![i] = [step |-> IF published[KeyOf[p]] = None THEN "stage" ELSE "discard", of |-> p]]
    /\ UNCHANGED <<disk, rows, backend>>

\* What was found incomplete is removed, whatever it is by now.
DiscardIncomplete(i) ==
    LET k == KeyOf[installing[i].of] IN
    /\ At(i, "discard")
    /\ \E left \in Removals(published[k]) :
          /\ published' = [published EXCEPT ![k] = left]
          /\ IF left = None THEN GoTo(i, "stage") ELSE Ends(i)
    /\ UNCHANGED <<staging, rows, backend>>

MakeStage(i) ==
    /\ At(i, "stage")
    /\ staging' = [staging EXCEPT ![i] = [of |-> installing[i].of, files |-> {}]]
    /\ GoTo(i, "copy")
    /\ UNCHANGED <<published, rows, backend>>

\* The copy makes the directories it needs; the later files do not.
CopyVerified(i) ==
    /\ At(i, "copy")
    /\ staging' = [staging EXCEPT
           ![i] = [of |-> installing[i].of,
                   files |-> {"model"} \cup IF @ = None THEN {} ELSE @.files]]
    /\ GoTo(i, "manifest")
    /\ UNCHANGED <<published, rows, backend>>

WriteInto(i, file) == staging' = [staging EXCEPT ![i].files = @ \cup {file}]

WriteManifest(i) ==
    /\ At(i, "manifest") /\ staging[i] # None
    /\ WriteInto(i, "manifest")
    /\ GoTo(i, "marker")
    /\ UNCHANGED <<published, rows, backend>>

WriteMarker(i) ==
    /\ At(i, "marker") /\ staging[i] # None
    /\ WriteInto(i, "marker")
    /\ GoTo(i, "publish")
    /\ UNCHANGED <<published, rows, backend>>

\* The rename refuses a directory that is there; then its own is removed.
Publish(i) ==
    LET k == KeyOf[installing[i].of] IN
    /\ At(i, "publish") /\ staging[i] # None /\ published[k] = None
    /\ published' = [published EXCEPT ![k] = staging[i]]
    /\ staging' = [staging EXCEPT ![i] = None]
    /\ Ends(i)
    /\ UNCHANGED <<rows, backend>>

\* The source changed, a write or the rename failed, or the process was killed.
InstallFails(i) ==
    /\ installing[i].step \in {"stage", "copy", "manifest", "marker", "publish"}
    /\ \E left \in Removals(staging[i]) : staging' = [staging EXCEPT ![i] = left]
    /\ Ends(i)
    /\ UNCHANGED <<published, rows, backend>>

\* The user removes packages, and deletes or replaces a model file.
UserChanges(k) ==
    /\ published[k] # None
    /\ \E d \in {None} \cup {[published[k] EXCEPT !.files = (@ \ {"model"}) \cup other] :
                                other \in {{}, {"other model"}}} :
          published' = [published EXCEPT ![k] = d]
    /\ UNCHANGED <<staging, installing, rows, backend>>

-----------------------------------------------------------------------------
(* The start of the backend                                                *)

\* By existence alone, before anything is settled.
Start ==
    /\ phase = "down"
    /\ artifact' = [k \in Key |-> [f \in Recorded |->
                       IF artifact[k][f] = "AVAILABLE" /\ ~Holds(published[k], f)
                       THEN "MISSING" ELSE artifact[k][f]]]
    /\ phase' = "settle"
    /\ todo' = {i \in Installer : staging[i] # None}
    /\ UNCHANGED <<disk, installing, known, record, settling, registered, plan, worker>>

KeyAt(i) == KeyOf[staging[i].of]

\* A complete staged package is published if the published one is not complete.
Look(i) ==
    /\ phase = "settle" /\ i \in todo /\ settling = NotSettling
    /\ settling' = [step |-> IF IsComplete(staging[i]) /\ ~IsComplete(published[KeyAt(i)])
                             THEN "clear" ELSE "remove",
                    of |-> i]
    /\ todo' = todo \ {i}
    /\ UNCHANGED <<disk, installing, rows, phase, registered, plan, worker>>

Settled == settling' = NotSettling

ClearTheWay ==
    LET i == settling.of IN
    /\ settling.step = "clear"
    /\ IF staging[i] = None
       THEN Settled /\ UNCHANGED published
       ELSE \E left \in Removals(published[KeyAt(i)]) :
               /\ published' = [published EXCEPT ![KeyAt(i)] = left]
               /\ IF left = None THEN settling' = [settling EXCEPT !.step = "rename"] ELSE Settled
    /\ UNCHANGED <<staging, installing, rows, phase, todo, registered, plan, worker>>

PublishStaged ==
    LET i == settling.of IN
    /\ settling.step = "rename"
    /\ IF staging[i] # None /\ published[KeyAt(i)] = None
       THEN /\ published' = [published EXCEPT ![KeyAt(i)] = staging[i]]
            /\ staging' = [staging EXCEPT ![i] = None]
       ELSE UNCHANGED disk
    /\ Settled
    /\ UNCHANGED <<installing, rows, phase, todo, registered, plan, worker>>

RemoveStaged ==
    LET i == settling.of IN
    /\ settling.step = "remove"
    /\ \E left \in Removals(staging[i]) : staging' = [staging EXCEPT ![i] = left]
    /\ Settled
    /\ UNCHANGED <<published, installing, rows, phase, todo, registered, plan, worker>>

\* Variant: only the disk is asked, although the start has found the file gone.
DemotedByDisk(k, f) ==
    IF record[k][f] = "INSTALLED" /\ ~Holds(published[k], f) THEN "MISSING" ELSE record[k][f]
\* An artifact that is known not to be available needs no look at the disk.
Demoted(k, f) ==
    IF record[k][f] = "INSTALLED" /\ (artifact[k][f] # "AVAILABLE" \/ ~Holds(published[k], f))
    THEN "MISSING" ELSE record[k][f]

Installed == {published[k].of : k \in {k \in Key : IsComplete(published[k])}}

MarkMissingInstallations ==
    /\ phase = "settle" /\ todo = {} /\ settling = NotSettling
    /\ record' = [k \in Key |-> [f \in Recorded |-> Demoted(k, f)]]
    /\ phase' = "register"
    /\ todo' = Installed
    /\ registered' = {}
    /\ UNCHANGED <<disk, installing, known, artifact, settling, plan, worker>>

\* Catalog rows never change: a package that says something else is refused.
Conflicts(p) ==
    \/ known[KeyOf[p]] \notin {None, p}
    \/ \E k \in Key : known[k] # None /\ ContractOf[known[k]] # ContractOf[p]

\* What is recorded is what is on disk now.
Verified(p) ==
    LET d == published[KeyOf[p]] IN d # None /\ d.of = p /\ IsIntact(d)

\* A record that was MISSING, or is new, makes its artifact available.
Reinstated(k, f) == IF record[k][f] = "INSTALLED" THEN artifact[k][f] ELSE "AVAILABLE"

\* A refused package is passed over.
Register(p) ==
    LET k == KeyOf[p] IN
    /\ phase = "register" /\ p \in todo
    /\ todo' = todo \ {p}
    /\ IF Verified(p) /\ ~Conflicts(p)
       THEN /\ known' = [known EXCEPT ![k] = p]
            /\ record' = [record EXCEPT ![k] = [f \in Recorded |-> "INSTALLED"]]
            /\ artifact' = [artifact EXCEPT ![k] = [f \in Recorded |-> Reinstated(k, f)]]
            /\ registered' = registered \cup {p}
       ELSE UNCHANGED <<known, record, artifact, registered>>
    /\ UNCHANGED <<disk, installing, phase, settling, plan, worker>>

Open ==
    /\ phase = "register" /\ todo = {}
    /\ phase' = "open"
    /\ UNCHANGED <<disk, installing, rows, todo, settling, registered, plan, worker>>

Stop ==
    /\ phase # "down"
    /\ phase' = "down" /\ todo' = {} /\ settling' = NotSettling
    /\ registered' = {} /\ plan' = None /\ worker' = None
    /\ UNCHANGED <<disk, installing, rows>>

-----------------------------------------------------------------------------
(* Running models                                                          *)

\* What a directory says of its model is what its manifest declares.
Runs(k, s) ==
    /\ known[k] # None /\ SpaceOf(known[k]) = s
    /\ record[k]["model"] = "INSTALLED" /\ artifact[k]["model"] = "AVAILABLE"
    /\ IsComplete(published[k]) /\ IsIntact(published[k])
    /\ WeightsOf[published[k].of] = s[1]

Plan(k, s) ==
    /\ phase = "open" /\ plan = None
    /\ Runs(k, s)
    /\ plan' = [space |-> s, at |-> k]
    /\ UNCHANGED <<disk, installing, rows, phase, todo, settling, registered, worker>>

\* Variant: the worker takes the file that is there.
FileAt(at, weights) == Holds(published[at], "model")
\* The worker reads the file once and compares what it read with the plan.
IsThatModel(at, weights) ==
    published[at] # None /\ "model" \in published[at].files /\ WeightsOf[published[at].of] = weights

Load ==
    /\ plan # None
    /\ worker' = IF IsThatModel(plan.at, plan.space[1])
                 THEN [space |-> plan.space, weights |-> WeightsOf[published[plan.at].of]]
                 ELSE worker
    /\ plan' = None
    /\ UNCHANGED <<disk, installing, rows, phase, todo, settling, registered>>

-----------------------------------------------------------------------------
Next ==
    \/ \E i \in Installer :
          \/ \E p \in Package : Install(i, p)
          \/ DiscardIncomplete(i) \/ MakeStage(i) \/ CopyVerified(i) \/ WriteManifest(i)
          \/ WriteMarker(i) \/ Publish(i) \/ InstallFails(i) \/ Look(i)
    \/ \E k \in Key : UserChanges(k) \/ \E s \in Spaces : Plan(k, s)
    \/ Start \/ ClearTheWay \/ PublishStaged \/ RemoveStaged
    \/ MarkMissingInstallations \/ (\E p \in Package : Register(p)) \/ Open \/ Stop
    \/ Load

Spec == Init /\ [][Next]_vars

-----------------------------------------------------------------------------
(* Properties                                                              *)

\* The worker runs the weights of the space it makes vectors for, also when the
\* package was removed, damaged or replaced after it was planned: vectors of two
\* models never meet in one space (worker_config.py, onnx_session.py load_session).
LoadedIsPlanned == worker # None => worker.weights = worker.space[1]

\* A package this process has registered can be planned as soon as its files are
\* there: no record or artifact row is left MISSING by the start, which looks at
\* the disk three times while it changes (mark_missing, recover, register).
RegisteredCanRun ==
    phase = "open" =>
        \A p \in registered :
            IsComplete(published[KeyOf[p]]) /\ Verified(p) => Runs(KeyOf[p], SpaceOf(p))
=============================================================================

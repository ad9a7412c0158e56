----------------------------- MODULE PackagesProofs -----------------------------
(* Proofs, for any packages, keys and number of installers, that a worker runs *)
(* the weights of the space it serves, that whatever the start has registered  *)
(* can be planned once its files are there, and that the packages of the       *)
(* catalog agree on what they say.                                             *)
EXTENDS Packages, TLAPS

TypeInv ==
    /\ known \in [Key -> Package \cup {None}]
    /\ record \in [Key -> [Recorded -> {"NONE", "INSTALLED", "MISSING"}]]
    /\ artifact \in [Key -> [Recorded -> {"NONE", "AVAILABLE", "MISSING"}]]
    /\ registered \subseteq Package

\* Between the moment installations follow the disk and the end of the process no
\* installed record has an artifact that is not available.  The start before it may
\* break this, and only MarkMissingInstallations makes it true again.
RecordsFollowArtifacts ==
    phase \in {"register", "open"} =>
        \A k \in Key, f \in Recorded : record[k][f] = "INSTALLED" => artifact[k][f] = "AVAILABLE"

\* What this process has registered is what its key is known for.
RegisteredIsKnown ==
    phase \in {"register", "open"} =>
        \A p \in registered :
            known[KeyOf[p]] = p /\ \A f \in Recorded : record[KeyOf[p]][f] = "INSTALLED"

\* All registered packages say the same of the component version they share.
CatalogAgrees ==
    \A j, k \in Key :
        known[j] # None /\ known[k] # None => ContractOf[known[j]] = ContractOf[known[k]]

IInv ==
    /\ TypeInv
    /\ RecordsFollowArtifacts
    /\ RegisteredIsKnown
    /\ CatalogAgrees
    /\ LoadedIsPlanned

\* Installers, the user and the settling of staging directories touch only the disk.
DiskStep == UNCHANGED <<rows, phase, registered, plan, worker>>

LEMMA InitialState == Init => IInv
<1> SUFFICES ASSUME Init PROVE IInv
  OBVIOUS
<1>1. TypeInv
  BY DEF Init, TypeInv
<1>2. RecordsFollowArtifacts /\ RegisteredIsKnown /\ CatalogAgrees /\ LoadedIsPlanned
  BY DEF Init, RecordsFollowArtifacts, RegisteredIsKnown, CatalogAgrees, LoadedIsPlanned
<1> QED
  BY <1>1, <1>2 DEF IInv

LEMMA DiskStepsKeepInv == IInv /\ DiskStep => IInv'
  BY DEF DiskStep, rows, IInv, TypeInv, RecordsFollowArtifacts, RegisteredIsKnown,
         CatalogAgrees, LoadedIsPlanned

LEMMA StartKeepsInv == IInv /\ Start => IInv'
<1> SUFFICES ASSUME IInv, Start PROVE IInv'
  OBVIOUS
<1> USE DEF IInv, Start
<1>1. TypeInv'
  BY DEF TypeInv
<1>2. RecordsFollowArtifacts' /\ RegisteredIsKnown'
  BY DEF RecordsFollowArtifacts, RegisteredIsKnown
<1>3. CatalogAgrees' /\ LoadedIsPlanned'
  BY DEF CatalogAgrees, LoadedIsPlanned
<1> QED
  BY <1>1, <1>2, <1>3

LEMMA MarkMissingKeepsInv == IInv /\ MarkMissingInstallations => IInv'
<1> SUFFICES ASSUME IInv, MarkMissingInstallations PROVE IInv'
  OBVIOUS
<1> USE DEF IInv, MarkMissingInstallations
<1>1. TypeInv'
  BY DEF TypeInv, Demoted
<1>2. RecordsFollowArtifacts'
  <2> SUFFICES ASSUME NEW k \in Key, NEW f \in Recorded, record'[k][f] = "INSTALLED"
               PROVE  artifact'[k][f] = "AVAILABLE"
    BY DEF RecordsFollowArtifacts
  <2>1. record'[k][f] = Demoted(k, f)
    OBVIOUS
  <2> QED
    BY <2>1 DEF Demoted
<1>3. RegisteredIsKnown'
  BY DEF RegisteredIsKnown
<1>4. CatalogAgrees' /\ LoadedIsPlanned'
  BY DEF CatalogAgrees, LoadedIsPlanned
<1> QED
  BY <1>1, <1>2, <1>3, <1>4

\* The step that needs all of it: a package takes over the records of its key only
\* if the key was free or its own, and leaves the artifacts of installed records as
\* they are because they are available.
LEMMA RegisterKeepsInv ==
  ASSUME IInv, NEW p \in Package, Register(p)
  PROVE  IInv'
<1> DEFINE k == KeyOf[p]
<1>1. k \in Key
  BY PackagesHaveKeys
<1>2. CASE UNCHANGED <<known, record, artifact, registered>>
  BY <1>2, DiskStepsKeepInv DEF Register, DiskStep, rows
<1>3. CASE /\ Verified(p) /\ ~Conflicts(p)
           /\ known' = [known EXCEPT ![k] = p]
           /\ record' = [record EXCEPT ![k] = [f \in Recorded |-> "INSTALLED"]]
           /\ artifact' = [artifact EXCEPT ![k] = [f \in Recorded |-> Reinstated(k, f)]]
           /\ registered' = registered \cup {p}
  <2>1. phase = "register" /\ phase' = phase /\ worker' = worker
    BY DEF Register
  <2>2. /\ known[k] \in {None, p}
        /\ \A j \in Key : known[j] # None => ContractOf[known[j]] = ContractOf[p]
    BY <1>3 DEF Conflicts
  <2>3. \A f \in Recorded : Reinstated(k, f) = "AVAILABLE"
    BY <1>1, <2>1 DEF IInv, RecordsFollowArtifacts, Reinstated
  <2>4. TypeInv'
    BY <1>1, <1>3, <2>3 DEF IInv, TypeInv
  <2>5. RecordsFollowArtifacts'
    BY <1>1, <1>3, <2>1, <2>3 DEF IInv, TypeInv, RecordsFollowArtifacts
  <2>6. RegisteredIsKnown'
    <3> SUFFICES ASSUME NEW q \in registered \cup {p}
                 PROVE  /\ known'[KeyOf[q]] = q
                        /\ \A f \in Recorded : record'[KeyOf[q]][f] = "INSTALLED"
      BY <1>3 DEF RegisteredIsKnown
    <3>1. KeyOf[q] \in Key
      BY PackagesHaveKeys DEF IInv, TypeInv
    <3>2. CASE KeyOf[q] = k
      <4>1. q = p
        BY <2>1, <2>2, <3>2, NoneAssumption DEF IInv, TypeInv, RegisteredIsKnown
      <4> QED
        BY <1>1, <1>3, <4>1 DEF IInv, TypeInv
    <3>3. CASE KeyOf[q] # k
      BY <1>1, <1>3, <2>1, <3>1, <3>3 DEF IInv, TypeInv, RegisteredIsKnown
    <3> QED
      BY <3>2, <3>3
  <2>7. CatalogAgrees'
    <3>1. \A j \in Key : known'[j] # None => ContractOf[known'[j]] = ContractOf[p]
      BY <1>1, <1>3, <2>2 DEF IInv, TypeInv
    <3> QED
      BY <3>1 DEF CatalogAgrees
  <2>8. LoadedIsPlanned'
    BY <2>1 DEF IInv, LoadedIsPlanned
  <2> QED
    BY <2>4, <2>5, <2>6, <2>7, <2>8 DEF IInv
<1> QED
  BY <1>2, <1>3 DEF Register

LEMMA OpenKeepsInv == IInv /\ Open => IInv'
  BY DEF Open, rows, IInv, TypeInv, RecordsFollowArtifacts, RegisteredIsKnown, CatalogAgrees,
         LoadedIsPlanned

LEMMA StopKeepsInv == IInv /\ Stop => IInv'
  BY DEF Stop, rows, IInv, TypeInv, RecordsFollowArtifacts, RegisteredIsKnown, CatalogAgrees,
         LoadedIsPlanned

LEMMA PlanKeepsInv ==
  ASSUME IInv, NEW k \in Key, NEW s \in Spaces, Plan(k, s)
  PROVE  IInv'
  BY DEF Plan, rows, IInv, TypeInv, RecordsFollowArtifacts, RegisteredIsKnown, CatalogAgrees,
         LoadedIsPlanned

LEMMA LoadKeepsInv == IInv /\ Load => IInv'
<1> SUFFICES ASSUME IInv, Load PROVE IInv'
  OBVIOUS
<1>1. LoadedIsPlanned'
  BY DEF IInv, Load, IsThatModel, LoadedIsPlanned
<1>2. (TypeInv /\ RecordsFollowArtifacts /\ RegisteredIsKnown /\ CatalogAgrees)'
  BY DEF Load, rows, IInv, TypeInv, RecordsFollowArtifacts, RegisteredIsKnown, CatalogAgrees
<1> QED
  BY <1>1, <1>2 DEF IInv

LEMMA StepsKeepInv == IInv /\ [Next]_vars => IInv'
<1> SUFFICES ASSUME IInv, [Next]_vars PROVE IInv'
  OBVIOUS
<1>1. ASSUME NEW i \in Installer,
             \/ \E p \in Package : Install(i, p)
             \/ DiscardIncomplete(i) \/ MakeStage(i) \/ CopyVerified(i) \/ WriteManifest(i)
             \/ WriteMarker(i) \/ Publish(i) \/ InstallFails(i) \/ Look(i)
      PROVE  DiskStep
  BY <1>1 DEF Install, DiscardIncomplete, MakeStage, CopyVerified, WriteManifest, WriteMarker,
              Publish, InstallFails, Look, DiskStep, rows, backend
<1>2. ASSUME NEW k \in Key, UserChanges(k) PROVE DiskStep
  BY <1>2 DEF UserChanges, DiskStep, rows, backend
<1>3. ASSUME ClearTheWay \/ PublishStaged \/ RemoveStaged PROVE DiskStep
  BY <1>3 DEF ClearTheWay, PublishStaged, RemoveStaged, DiskStep, rows, backend
<1>4. CASE UNCHANGED vars
  BY <1>4, DiskStepsKeepInv DEF vars, DiskStep, rows
<1> QED
  BY <1>1, <1>2, <1>3, <1>4, DiskStepsKeepInv, StartKeepsInv, MarkMissingKeepsInv,
     RegisterKeepsInv, OpenKeepsInv, StopKeepsInv, PlanKeepsInv, LoadKeepsInv DEF Next

LEMMA InvHolds == Spec => []IInv
  BY InitialState, StepsKeepInv, PTL DEF Spec

-----------------------------------------------------------------------------
(* Results                                                                 *)

\* A worker runs the weights of the space it makes vectors for, whatever was
\* installed, replaced or damaged between its plan and its load
\* (onnx_session.py load_session).
THEOREM WorkerRunsWhatWasPlanned == Spec => []LoadedIsPlanned
<1>1. IInv => LoadedIsPlanned
  BY DEF IInv
<1> QED
  BY <1>1, InvHolds, PTL

\* Whatever the start has registered can be planned as soon as its files are there
\* (registration.py mark_missing_installations, register_package).
THEOREM WhatIsRegisteredCanRun == Spec => []RegisteredCanRun
<1>1. ASSUME IInv PROVE RegisteredCanRun
  <2> SUFFICES ASSUME phase = "open", NEW p \in registered,
                      IsComplete(published[KeyOf[p]]), Verified(p)
               PROVE  Runs(KeyOf[p], SpaceOf(p))
    BY DEF RegisteredCanRun
  <2>1. p \in Package /\ KeyOf[p] \in Key /\ p # None
    BY <1>1, PackagesHaveKeys, NoneAssumption DEF IInv, TypeInv
  <2>2. known[KeyOf[p]] = p /\ record[KeyOf[p]]["model"] = "INSTALLED"
    BY <1>1 DEF IInv, RegisteredIsKnown, Recorded
  <2>3. artifact[KeyOf[p]]["model"] = "AVAILABLE"
    BY <1>1, <2>1, <2>2 DEF IInv, RecordsFollowArtifacts, Recorded
  <2> QED
    BY <2>1, <2>2, <2>3 DEF Runs, SpaceOf, Verified
<1> QED
  BY <1>1, InvHolds, PTL

\* Packages of different keys never describe one component version differently
\* (registration.py register_package, its conflicts).
THEOREM CatalogStaysConsistent == Spec => []CatalogAgrees
<1>1. IInv => CatalogAgrees
  BY DEF IInv
<1> QED
  BY <1>1, InvHolds, PTL
=============================================================================

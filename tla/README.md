# Verification of FaceIdentify

FaceIdentify is a desktop application: a Tauri shell (`desktop/`, `frontend/`) starts a
Python backend (`backend/`) that keeps a library of images, finds faces with a
supervised ML worker process, and remembers people.  Everything durable is in one
SQLite database, a directory of managed files, and index files derived from the
database.  This directory models the backend's own logic in TLA+, checks it with
TLC and proves its main theorems with TLAPS.  Paths below are relative to
`backend/app/` unless they start with another directory of the repository.

## How the program works, as far as the models are concerned

Every write goes through `UnitOfWork.write` (`backend/infrastructure/db/unit_of_work.py`),
which runs the callback in one `BEGIN IMMEDIATE` transaction: writes are serialised
and atomic, so **one write callback is one action**.  Reads that decide what to do
next run in transactions of their own, so **every read that is used later is an
action of its own** and anything may commit in between.  File operations and calls
of the ML worker happen outside transactions.  The process may die between any two
of these steps; the next start runs `recover_on_startup` before anyone else may
write.  One operating-system lock per library (`library_lock.py`) keeps a second
process out, so the models have one process at a time.

Threads of that process: the *main* one runs startup and then, in a worker thread,
the scheduler's `run_once` again and again; requests of the API run concurrently in
threads of their own.

## Inventory

| part | state | operations | what is hard |
|---|---|---|---|
| processing (`processing/`) | `jobs`, `processing_runs`, `execution_segments`, `checkpoints`, observations, representations, occurrences | request, retry, cancel; claim, settle each stage, checkpoint, decide, finalize, accept, refuse, fail | a dozen transactions per run with commands, failures and crashes between any two |
| sources (`sources/lifecycle.py`, `permanent_delete.py`, `recheck.py`) | `sources.state`, original | recycle, restore, permanent deletion, recheck | must exclude running work; deletion takes several transactions |
| recovery (`recovery/startup.py`) | all of the above | accept FINALIZING, interrupt in-flight work, artifacts, indexes, erasure | a crash in recovery itself; order of its steps |
| memory index (`memory/index_coordinator.py`, `infrastructure/indexing/`) | `index_operations`, generation files, manifest, quarantine | pass, rebuild, purge, publish, retry, validate | files and rows cannot change together; retries |
| erasure (`memory/erasure.py`) | `representations.state`, `wal_truncation_owed`, write-ahead log | queue, drive, finalize, clear, truncate, resume | two callers and recovery over shared rows, files and log |
| recognition (`recognition/`) | none (reads the index, then a snapshot) | retrieve, assess, decide, face search | index and snapshot of different moments |
| artifacts and import (`sources/artifact_storage.py`, `import_source.py`, `storage_cleanup.py`) | `artifacts`, files, staging files | reserve, store, publish, delete, recover, reverify | file and row again; concurrent deletion |
| identities and people (`identities/`, `people/`) | identities, lineage, evidence, ownership of faces | merge, split, assign, correct, forget, link | long sequences of legal calls; stale revisions |
| ML worker (`backend/ml/supervisor/`, `ml/worker/`) | worker state, failure window, lease queues | execute, ping, restart, reset, close | fairness, crash loops, shutdown |
| host (`desktop/src-tauri/src/`, `backend/api/startup.py`, `backend/api/scheduler.py`) | sidecar, life-cycle state, library lock, wake flag | launch, handshake, open, serve, wake, drain, close, kill | shutdown in the middle of an open; a wake while running; two launches |
| packages and catalog (`runtime/`, `processing/configuration.py`) | package directories, installation records, catalog rows | install, recover, demote, register, plan, load | several processes over one directory; the disk changes between looks |
| event hub, workspaces, HTTP API, user interface | queues, directories, sessions | presentation | none of the core logic |

`PROJECT.json` lists these as components, with the hazards at their lines and the
properties that cover them.

## Modules

| module | what it is |
|---|---|
| `ProcessingRun` | processing of sources: commands, executor, acceptance, crash and recovery |
| `AttemptLifecycle` | what one attempt promises its user, abstractly |
| `ProcessingRefinement` | the mapping under which `ProcessingRun` implements it for each attempt |
| `ProcessingRunProofs` | theorems about `ProcessingRun`, and that it implements `AttemptLifecycle` |
| `MemoryIndex`, `MemoryIndexProofs` | index operations, coordinator passes, index files, erasure, search, startup; theorems |
| `MLWorker`, `MLWorkerProofs` | the lease, the supervisors, the worker's loop, the client and the shutdown of all of them; theorems |
| `Identities`, `IdentitiesProofs` | who the faces belong to: recognition's decisions, corrections, merge, split, people, forgetting, deletion; theorems |
| `Recognition`, `RecognitionProofs` | who a face is said to be: shortlist, assessment, policy, evidence, acceptance, face search; theorems |
| `Artifacts`, `ArtifactsProofs` | rows and bytes of originals: import, reference, loss, recheck, relink, cleanup, deletion, recovery; theorems |
| `Packages`, `PackagesProofs` | installation of model packages, their records, registration, planning, loading; theorems |
| `Host`, `HostProofs` | shell, sidecar, opening, lock, scheduler loop, requests, shutdown; theorems |
| `MC...` | instances for TLC: symmetry, small sets, bounds that only the runs have |

Definitions marked *Variant* are what a plausible bug would turn the next
definition into; they are used only to show that the properties notice.

How the modules divide the system: a *source* appears in four of them, each with the
part of its life that its rows take there.  `ProcessingRun` has the life of its
attempts and the commands that must exclude running work; `Artifacts` its original;
`MemoryIndex` its vectors in rows, files and log; `Identities` the owners of its
faces.  Permanent deletion is a step or two in each: its transactions are atomic, so
what one module needs of another's part of it is whether it has happened (`vectors`
in `Artifacts`, `ERASING`/`ERASED` in `Identities`, `FinishDeletion` in
`ProcessingRun`).  `Host` has the threads inside which all of these run; a call of
the scheduler is one `run_once` of `ProcessingRun`.  `Recognition` is what happens
inside one `Decide`/`Accept` of `ProcessingRun`, and `MLWorker` inside its detection
and representation steps.

### ProcessingRun

An *attempt* is a job with its run, its execution segments (*intervals*) and its
output; the program creates and ends them together.  The state of the job, the run
and the segments are the program's own enumerations.  Output is abstracted to how
far it got (nothing, detections, representations, decisions, a FINAL checkpoint) and
whether the identities that its decisions name have changed since.  The executor is
one thread with a program counter, one value per transaction of
`execute_job.py`/`runner.py`: read the input, detect, settle detections, represent,
settle representations, checkpoint, decide, persist, finalize, accept.  Before each
of them it reads the cancellation flag in a transaction of its own
(`CheckCancellation`), so a cancellation may land in between.  Each settlement
re-validates the attempt as the code does, and a refusal takes the failure path of
the code, which may itself be refused.  Commands of the API (`ProcessSource`,
`Retry`, `Cancel`, `RecycleSource`, `RestoreSource`, `BeginDeletion`,
`FinishDeletion`, `RecheckOriginal`, `ChangeCandidates`) are one action each and may
happen between any two steps.  `Crash` may happen anywhere; recovery accepts or
refuses what was FINALIZING, one run per transaction, then interrupts the rest in
one transaction, then opens the library.

`AttemptLifecycle` is what the user of one attempt is promised: it is requested, may
be claimed, may be cancelled, ends once, and its result is visible exactly if it was
accepted and its source is still there.  `ProcessingRefinement` maps each attempt of
`ProcessingRun` to it.

Left out because the code never makes use of them: `PAUSING`/`PAUSED` (nothing but
recovery's own move writes them), the lease columns (written at a claim, read by
nothing that decides), and the branch for a queued job whose run is not pending
(unreachable).  Processing a source again does not supersede earlier output in
the code (a known issue, #180 in `docs/plans/PROJECT_STATUS.md`), and does not here.

### MemoryIndex

A *representation* is a face vector: PENDING, ACTIVE after acceptance, ERASING,
ERASED.  Index operations are `<<representation, "ADD"|"REMOVE">>`; `queue` orders
those that are due, `backoff` holds those waiting after a failed attempt.  Index
files are sets of vectors: the `live` generation that the manifest names, the `stale`
ones (replaced generations and leftovers of interrupted writes) and the `quarantined`
ones.  `log` is the set of vectors the SQLite write-ahead log may hold, and `marker`
the durable note that a truncation is owed.  A pass of the coordinator is a sequence
of actions under its lock: claim, open (or quarantine), build, write, publish, apply
each operation, retire superseded files, settle.  Each thread of erasure walks the
steps of `_drive`: count, pass, finalize under the lock, clear, summarise, read the
marker, truncate, clear the marker, report.  Searches open the index under the lock;
the executor's recognition opens it without.

Abstractions: one representation space (spaces share only the lock and the marker);
the identity of a face counts as active (a merge moves faces to an active one, forgetting
erases them), and every stored vector as decodable;
the log is the worst case, i.e. it keeps a vector until a checkpoint succeeds;
a marker value (a fresh UUID in the code) is the number of vectors erased by then,
which no later erasure repeats; whether a failed operation of a pass concerns an
erasure is judged when it settles, where the code reads it a moment later.

### MLWorker

`waiting`, `holder`, `streak` and `closed` are the fields of `WorkerLease`; a caller
takes a ticket, has its turn, or is refused.  Each plan has a supervisor (`sup`: its
state, the recent failures, the frame it waits for) and at most one worker process
(`worker`: its side of the two pipes and the outputs it keeps until they are
released).  A step is what one thread does between two points where it may wait: the
lease's condition, a supervisor's lock, a frame.  Workers may hang, answer late,
answer for another request, refuse a provider, or die at any moment; time is a
choice (any wait may end, any number of the oldest failures may have left the
window).  The client tries the variants of its plan in order and releases every
output it was given; `pool` is the shutdown: close the lease, wait until idle, close
the supervisors.  `passed` is a history variable: how often an interactive request
went past the waiting background one.

### Identities

Every action is one write transaction.  A face stands for the observation, its
representation, its occurrence and its crop, which the writers keep one to one; so a
merge or split that divides the occurrences of one face between identities
(`SplitConflict`) has no counterpart.  Deciding and persisting are one action, since
acceptance re-checks what was decided (the gap is the subject of `ProcessingRun` and
`Recognition`).  No code writes face crops or thumbnails yet; forgetting and deletion
retire them (`_retire_crops`), and the model gives each face one to retire.  Lineage,
evidence and correction rows are append-only history that no decision reads.  `view`
is one client that read an identity at some moment and sends its revision back later.

### Recognition

One face of one picture is decided against a library that may be any, over an index
that may lag behind it.  Similarities are grades, ordered as an index would order
them, with ties open.  `Decide` is retrieval, assessment, `Reasoner.decide` and the
evidence payload; `Accept` reads that evidence as `accept_run.py` does; `SearchFace`
is the answer of a face search over the same library.  The run-local pool of the code
only ever holds faces of the same picture, which are left out of every comparison,
so it holds the face itself.  Left out: the limit on concurrent searches, the second
acceptance of a completed run, and the states of identities beyond whether they own
the face.

### Artifacts

An artifact stands for its source too: a source has one original and an original one
source.  `artifact` has the columns that decide (state, storage mode, place, recorded
hash), `file` what is on the disk there, `staged` the staging files.  No transaction is
held over file work, so every call is a sequence of transactions and file operations,
each of which may fail; the user changes and removes files; recovery walks its steps
(pending writes, deletions, staging files, missing files, permanent deletions) in its
order.  `cleanup_unreferenced_artifacts` and `create_managed_artifact` are called by
no route yet; they are modelled as requests.

### Packages

Installers are processes of their own, with nothing to keep them from the backend or
from each other; each look at a directory, copy, removal and rename is a step, and a
removal may stop half-way.  The start of the backend marks installations missing that
are not on the disk, recovers staging directories, registers what is there, and then
planning and loading go on while the user removes, replaces and damages packages.

### Host

Each launch has a shell and a backend: the start thread of the shell, its handshake
and its polls; the backend's main task, the task that opens the library, the
scheduler loop with its asyncio event, requests, and the callbacks posted to the
event loop.  Both processes may be killed anywhere and the application launched again
at once.  Here a job is queued, claimed, over.

## Runs

| run | instance | what it shows |
|---|---|---|
| `processing` | 1 source, 2 attempts, 2 priorities, fair | safety of processing with every command, failure, crash and recovery; the refinement; every call returns, queued work is served |
| `run_cancel` | violation | a cancellation that lands after the last check, or while a step fails, is left to the next start |
| `run_defect` | violation | an unexpected error after a provider fallback settles nothing |
| `index` | 2 vectors, 2 callers and startup, 2 tries | erased vectors are in no file; reports are true; the log is owed; searches are complete; recovery finishes |
| `index_decide` | violation | recognition may be told it is converged over an index that lacked a face |
| `ml_worker` | a search and a run, 2 plans of 1 and 2 variants, burst 1, 1 restart, 1 ping, fair | one request at a time, bounded overtaking, no answer taken for another's, no output leaked, every call comes back |
| `identities` | 2 images with a face each, 3 identities, 1 person, 1 client | owners agree in both rows; merges end; shown faces; nothing left of a forgotten identity; a current revision is a true view |
| `identities_shown` | violation | a merge during a deletion leaves a survivor without a face to show |
| `recognition` | 4 remembered faces, 2 identities, K = 2, search 3, 3 grades, 3 policies, 1 change | what acceptance publishes is true of the library; refusals have a cause; the search agrees |
| `artifacts` | 2 images, 1 place outside, 2 requests and recovery | originals are kept, recorded hashes whole, deletions finish and leave nothing, recovery settles |
| `packages` | 1 key, 2 builds, 2 installers | what is loaded is what was planned; what is registered can run |
| `host` | 2 launches, 2 requests, 1 job, fair | work only under the lock, no wake lost, no backend left behind |

Bounds and why they are enough.

* *processing*: all coupling between attempts goes through their source and through
  `previous_job_id`, so two attempts of one source show every pairwise interaction
  (claim against cancel, retry against recovery, two outputs of one source at its
  deletion).  `RetryChains` needs three attempts to show longer chains; it is proved
  for any number.  A run may fall back to another provider once per stage, as often as
  it has stages; crashes and commands are not bounded.
* *index*: one vector suffices for the protocol of a vector with its files, log and
  reports, with two callers and startup competing for it; two are needed where one
  call's work meets another's (a marker set again, a backlog in front of a removal, a
  batch).  `FewWhereFaulty` allows both vectors only where nothing outside the program
  fails.  Batches are of one operation, so that passes leave a remainder.
* *ml_worker*: two classes meet with one caller each, which call again and again; a
  burst of one and one forgiven restart reach their limits at once.
* *identities*: three identities make a chain of two merges; two images make a
  deletion that leaves the identity something.
* *recognition*: four faces of two identities give every shape of shortlist: none,
  one, several of one identity, several of two, one hidden behind K others.  Three
  grades are one below, at and above each boundary; the policies are one with a step
  between ceiling and threshold, one with a wide margin, and the one that never
  accepts.
* *artifacts*: two images, since cleanup and recovery visit sets; two callers for two
  requests over one image; crashes are not bounded.
* *packages*: two builds of one key are two packages that replace each other; that
  contracts of different keys agree needs more keys and is proved
  (`CatalogStaysConsistent`).
* *host*: the second launch is the one that meets what the first left.

Deadlock is checked except where the system may really stop: a host that has ended, a
decision that is over, a worker pool that is closed, a library whose faces were all
deleted.

Fairness.  `index`, `identities`, `recognition`, `artifacts` and `packages` assume
none.  `processing` assumes weak fairness of the executor's steps that do not fail
(`Progress`) and of the steps of recovery: one thread that the operating system
schedules, in which `SchedulerService._run` calls `run_once` without end.  No failure
is ever relied upon, and none is ruled out; nothing is assumed of commands and
crashes.  `ml_worker` assumes that a caller goes on when it can, that every wait for a
frame ends (with the frame or at its timeout; the code has a deadline on each), and
that the closing thread goes on; nothing of workers.  `host` assumes that tasks and
threads of a living backend are scheduled and that it notices when its shell's pipe is
closed; nothing of shells, users and requests to come.

Claims are served by priority: with finitely many attempts a stream of urgent work
ends, so the starvation of others by an endless one (which the code allows) is not
visible here.  `SearchAgrees` says nothing where two people are exactly as near as each
other, which an index may order either way, and `AcceptedIsTrue` has the exception
that the repository documents
(`docs/implementations/2026-10-15-enable-automatic-acceptance.md`): when the K nearest
faces are all of one identity, the next one is not seen.

## What is proved

All theorems hold for every value of the constants, under the assumptions named in
the component's module.

`ProcessingRunProofs` proves the inductive invariant `IInv` and from it each safety
property of `processing`, the type invariant, and the action properties
`CancellationIsKept` and `LiveRefusalIsAboutIdentities` (while the library is open,
acceptance refuses only because identities changed; not among the runs).

No part of `IInv` is inductive by itself.  That readers see only accepted output
needs that the executor, when it publishes, still owns the run it read about many
transactions earlier; that needs that nobody else moves a run out of the states the
executor expects, i.e. that cancellation only marks a running job, that recovery does
not run while the executor does, and that a job and its run agree; and that a source
cannot be recycled under it needs that in-flight work is visible to the guard of
recycling at each of those states.  `IInv` is the conjunction of the properties with
that bookkeeping (where the executor is, which states belong to it, what an attempt
nobody works on may look like).  There is one lemma per conjunct of
`IInv` (types: one per group of actions), and in each one step per action that can
disturb it.

The same module proves that `ProcessingRun` implements `AttemptLifecycle`: the initial
states map to initial states, and from a state of `IInv` every step maps to an abstract
step or to a stutter, with one lemma per action.  A crash, and each transaction that only
moves the executor, is a stutter; the sweep of recovery, which ends every attempt that was
in flight, is one abstract step (`Drop`).  `IInv` is needed because the mapping reads only
the tables: that a run which is published was being worked on a moment before, and that
its source is not being deleted, are facts about where the executor is.

`HostProofs` proves the type invariant, `OneWorker` and `NoWakeIsLost` for any number
of launches, requests and jobs.  The lock is only let go by a backend whose threads
have all left, or by the end of its process: the invariant says for every state of the
main task which of the other threads may still be at work, and for every state of the
scheduler loop whether a wake that was asked for is still on its way.

`PackagesProofs` proves `LoadedIsPlanned` and `RegisteredCanRun` for any packages, keys
and installers.  The invariant is that, from the moment installations follow the disk
to the end of the process, no installed record has an artifact that is not available,
and that what is registered is what its key is known for.  `CatalogStaysConsistent`,
for which the run is too small, says that known packages agree on the component
version they share.

`ArtifactsProofs` proves the type invariant, `OriginalIsKept`, `RecordedIsWhole`,
`DeletionCanFinish`, `DeletedIsGone` and `RecoverySettles` for any images, places and
callers.  The invariant has two
halves: `RowInv` relates a row to its source and to the bytes on the disk, and `Sound`
says for every step of a call what it may still rely on (a writer that its row is
PENDING, an unlink that its artifact is on its way out, the last transaction that
nothing is left unless it is owed).  What makes it inductive is `Moves`, which every
step on a row obeys: a mode never changes, a deletion that was begun is never undone,
and bytes and staging files never come back behind it; so whatever `Sound` says of a
call survives the steps of all others, and one lemma (`StepKeepsInv`) reduces each
action to what it does to its own row and its own call.
`RecoverySettles` is about a whole recovery, at the moment it opens the library.
`RecoveryInv` follows it there: recovery is alone while it runs, and each row is either
still before the step that deals with rows like it, or settled, or in what recovery
reports (`left`).  The order of its steps matters: what one step leaves may be the
work of a later one, never of an earlier one.

`MemoryIndexProofs` proves the type invariant, `ErasedIsGone`, `LogIsOwed`,
`CompleteReportIsTrue`, `IndexCoversMemory` and `SearchIsComplete` for any number of
vectors and callers, any batch and any number of tries.  The conjuncts of its `IInv`
follow the life of a vector.  `RowsInv`: what the state of a row implies about the
operations on it, and back (what has a `REMOVE` anywhere is on its way out; what is
ACTIVE has its `ADD` somewhere).  `FilesInv`: every file, and the memory of a pass, holds
only vectors that still have a key, and none whose removal is applied.  This is kept by
`PurgeInv`, which follows a claimed `REMOVE` through its pass: it may settle as applied
only after a rebuild from SQLite that was published and whose predecessors' files are
gone.  `ClearInv`: what is about to be cleared is in no file, the quarantine included.
`CoverInv` is the counterpart for `ADD`s, and `SearchInv` says the same of what a search
saw; that nothing settles meanwhile is `LockInv`: who may hold the lock, at which step,
in which phase.  `LogInv` says that a marker which was read before the log was truncated
is no longer the marker once another vector was erased, and `ReportInv` that what a call
has found out stays true until it reports it.  Most conjuncts speak of every call, so
two lemmas say what a step may do to a call that it may not belong to (`CallMoves`) and
what nothing undoes (`NothingComesBack`).  TLC checked each conjunct on the instance of
`index` before it was proved.

It also proves what an erasure achieves where nothing outside the program fails
(`NothingIsOwed`, `RecoveryFinishesErasures`).  Kills and concurrent callers are not
failures in this sense, so this is not the run of one undisturbed call, and a second
invariant, `CalmInv`, is needed beside `IInv`.  `RemovalsDue`: each removal that is
needed is in the queue, once, or applied, and never both.  `PassGoesOn`: whatever a pass
claimed it has applied or still has to do.  `Unvalidated`: the files that a kill left
behind are there only until startup has validated the index.  `Advances(t)` says how far
a call has come: the pass it is about to run takes up all the removals it waits for.
That one rests on the order of the queue, for another thread may append to it, or settle
a part of it, between the moment the call counts what is due (`EveryDue`) and the pass:
nothing is put in front of what was due, so the first n operations still hold what the
call waits for, or it was applied meanwhile.  With the ordinary batch instead of
`EveryDue` the proof fails at that step (`DriveAdvances`), as it should.
`StartAdvances` carries this through startup to the moment the library opens.
Filtering a queue is a recursive function (`Kept`); what it returns is proved by
induction on its length, as a least counterexample.

`IdentitiesProofs` proves the type invariant, `OwnersAgree`, `MergesEnd`, `ShowsItsOwn`,
`ForgottenLeavesNothing` and `CurrentViewsAreTrue` for any faces, sources and people, and
any finite set of identities.  Each action is first reduced to what it writes (`Decided`,
`Merged`, `Moved` for split and reassignment, ...), and each conjunct of `IInv` is then
proved over those.  The two properties that follow merges are about walks of any length
and are not inductive as they stand.  `MergesInv` says instead that every set of merged
identities has a member whose survivor lies outside it; a merge keeps this because its
survivor is ACTIVE, and the pigeonhole principle turns it into the end of every walk.
`LostInv` says that some set, closed under *was merged into*, holds every forgotten
identity and only identities of which nothing is in use; forgetting adds its family to
it.  That nothing comes back needs `OwnersAgree` (a face that counts has an ACTIVE
owner) and that acceptance checks again that its owners are PENDING or ACTIVE.
`KeptFacesAreShown`, which the code does not keep, is a finding.

`MLWorkerProofs` proves the type invariant, `OneRequestAtATime`, `BackgroundHasItsTurn`,
`OnlyTheAwaitedIsSaid`, `EveryOutputIsOwed` and `StateTellsTheTruth` for any callers and
plans, any burst, any number of restarts and pings.  `OneRequestAtATime` is inductive once
the queues of the lease are known to hold only who waits.  The bound on overtaking follows
from the count that the lease keeps (`TurnsInv`): the turns taken past a waiting background
request are among the interactive ones in a row.  `PipeInv` is the protocol of the two
pipes, i.e. what a wait of the supervisor says about the worker and both directions of its
pipe: the question is unread, or being worked on, or answered, or nobody is there any more.
It is proved message by message: each step is a move in the conversation of one plan and
leaves the others' alone (`Steady`, `Moves`).  `OwedInv` says for every output that a worker
keeps who will have it freed.

`RecognitionProofs` proves the type invariant, `AcceptedIsTrue`, `RefusedForCause` and
`SearchAgrees` for any library, any index, any grades and policies and any K.  Most of it is
about data rather than steps: that the shortlist is a ranking of the nearest (`RankedIsRanking`,
`NearestOfNearest`), that it has one best face per identity (`CandidatesDiffer`), that a
match chosen with a margin is ahead of everybody in the library and a new person far from
everybody (`MatchIsAhead`, `NewIsFar`), and that two indexes over the same library agree on
the best grade (`SameBest`, `SameLead`).  The invariant carries these facts from the
decision through the evidence to acceptance, which reads the evidence and not the library.
Its assumptions are what the code validates: a shortlist has room for two
(`recognition/assessment.py`), the thresholds of a policy are in order and its margin is
positive (`recognition/reasoner.py`).

Only model-checked: liveness, which is out of the prover's reach, with `ENABLED`.

## Findings

Four statements of the repository that the code does not keep; each has a run whose
counterexample is the scenario (`PROJECT.json`, `findings`, quotes the lines):

1. *A cancelled run is settled at the next safe boundary* (`processing/cancel.py`).
   A cancellation that commits between the executor's check and its next write makes
   that write fail, and the failure path then refuses to settle a cancelling job; it
   stays CANCELLING until the next start (`run_cancel`).
2. *A defect is settled FAILED* (`processing/runner.py`).  After a provider fallback
   the segment known to the claim is closed, and settling with it changes nothing
   (`run_defect`).
3. *What SQLite holds, the index holds* (`recognition/retrieval.py`, `index_converged`).
   True for face search; recognition during processing opens the index earlier and
   without the lock (`index_decide`).
4. *An identity that keeps other faces needs a face to show*
   (`sources/permanent_delete.py`).  A merge between the two transactions of a deletion
   hands over a face that is about to go, and the refill does not look at the survivor
   (`identities_shown`).

Noticed while modelling, without a property of their own:

* Index operations that stay PENDING after a pass are taken up at the next acceptance,
  erasure or start; nothing serves them in between, although `recovery/startup.py`
  (line 423) leaves them to the scheduler.
* A second installer of a key discards what it takes for an incomplete package, which
  another installer may have completed since it looked (`runtime/package_store.py`,
  line 160).  An interrupted removal of a staging directory may leave marker and
  manifest without the model, which recovery publishes (line 301).  Either way nothing
  wrong is loaded (`LoadedIsPlanned`), and the package has to be installed again.
* A launch right after a crashed shell, whose backend still holds the library, stays
  FAILED without trying again.
* The verdict of a recheck is guarded by the state of the row, not by the path it
  looked at (`sources/referenced_artifacts.py`, line 184); `Artifacts` has this, and a
  wrong verdict is corrected by the next recheck.
* A FINALIZING run whose acceptance fails for another reason than a refusal stays so
  until the next start; the code documents it (`processing/runner.py`).  An unusable
  index in `_decide` is not among the failures a step settles, so it takes the path of
  an unexpected error.

## Not modelled

* *Event hub*: `publish` numbers an event under its lock and offers it outside, so two
  events may arrive out of order; a client that sees a gap fetches everything again,
  so no order is promised.
* *Workspaces*: directories that recovery removes or keeps.
* *HTTP API*: parsing and presentation; each command calls one use case, which is an
  action of a module.  *User interface*: presentation.
* *Database engine and unit of work*: assumed, as said at the top.
* Calibration, the contents of models and vectors, `evaluation/`: arithmetic without
  steps.

## Plan

Done: the modules above, in that order, and the theorems about them.  Next, where it
would add most:

1. The frozen processing configuration between a request and the packages that are
   installed when it is claimed.

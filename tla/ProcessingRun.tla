---------------------------- MODULE ProcessingRun ----------------------------
(***************************************************************************)
(* Source processing, from the request to the published result.            *)
(*                                                                         *)
(* One attempt is a `jobs` row and the `processing_runs` row created with  *)
(* it; attempts are numbered in creation order.  Every write of the        *)
(* program is one BEGIN IMMEDIATE transaction of UnitOfWork.write, so each *)
(* write callback is one action; the reads that decide what to do next are *)
(* actions of their own, and any command of the user may commit between    *)
(* the two.  The actors are the commands (request, retry, cancel, recycle, *)
(* restore, delete, recheck), the one scheduler thread (`worker`), and     *)
(* startup recovery.  A crash may fall between any two transactions.       *)
(***************************************************************************)
EXTENDS Naturals, Sequences, FiniteSets

CONSTANTS
    Source,        \* the images of the library
    MaxAttempts,   \* bound: attempts ever created
    Rank           \* priority ranks of a request (jobs.priority_rank; 0 first)

ASSUME ProcessingAssumption ==
    /\ MaxAttempts \in Nat \ {0}
    /\ Rank \subseteq Nat
    /\ Rank # {}
    /\ Source # {}

VARIABLES
    job,         \* jobs.state of each attempt
    run,         \* processing_runs.state of each attempt
    sourceOf,    \* processing_runs.source_id
    rank,        \* jobs.priority_rank
    previous,    \* jobs.previous_job_id: the attempt this one retries
    segments,    \* execution_segments of the run, in ordinal order
    checkpoint,  \* the run's current checkpoint
    output,      \* how far the run's observations and decisions got
    stale,       \* attempts with a decision whose candidates changed since
    source,      \* sources.state
    original,    \* the state of the source's original artifact
    current,     \* sources.current_processing_run_id
    phase,       \* the process: closed, recovering, or open for commands
    worker,      \* the scheduler thread inside ProcessingRunner.run_once
    fault        \* worst defect of this process: none, error, lost

rows    == <<job, run, segments>>
birth   == <<sourceOf, rank, previous>>
results == <<checkpoint, output>>
library == <<source, original>>
vars    == <<job, run, sourceOf, rank, previous, segments, checkpoint, output,
             stale, source, original, current, phase, worker, fault>>

-----------------------------------------------------------------------------
(* Types *)

Attempt == 1..MaxAttempts
None    == 0

JobState == {"ABSENT", "QUEUED", "RUNNING", "CANCELLING", "CANCELLED",
             "COMPLETED", "FAILED", "INTERRUPTED", "ERASED"}
RunState == {"ABSENT", "PENDING", "RUNNING", "CANCELLING", "CANCELLED",
             "FINALIZING", "COMPLETED", "FAILED", "INTERRUPTED",
             "NOT_RESUMABLE", "ERASED"}
SegmentState == {"RUNNING", "COMPLETED", "FAILED", "INTERRUPTED"}
SourceState  == {"ACTIVE", "RECYCLED", "DELETING", "DELETED"}


\* sources/lifecycle.py IN_FLIGHT; PAUSING and PAUSED are never written by src/
InFlight == {"PENDING", "RUNNING", "CANCELLING", "FINALIZING"}

\* The steps of ExecuteProcessingJob.execute that _cancel_if_requested precedes
Guarded == {"read_input", "detect", "settle_detections", "represent",
            "settle_representations", "decide", "finalize"}
ExecuteSteps == Guarded \cup {"detector_fallback", "embedder_fallback",
                              "checkpoint", "persist", "cancel", "fail"}
Step == {"idle", "fail_claimed", "accept", "refuse"} \cup ExecuteSteps

Idle == [step |-> "idle", checked |-> FALSE, attempt |-> None, segment |-> 0]

TypeOK ==
    /\ job \in [Attempt -> JobState]
    /\ run \in [Attempt -> RunState]
    /\ sourceOf \in [Attempt -> Source]
    /\ rank \in [Attempt -> Rank]
    /\ previous \in [Attempt -> Attempt \cup {None}]
    /\ segments \in [Attempt -> Seq(SegmentState)]
    /\ checkpoint \in [Attempt -> {"NONE", "INTERMEDIATE", "FINAL"}]
    /\ output \in [Attempt -> {"NONE", "DETECTED", "REPRESENTED", "DECIDED",
                               "ACTIVE", "DELETED"}]
    /\ stale \subseteq Attempt
    /\ source \in [Source -> SourceState]
    /\ original \in [Source -> {"AVAILABLE", "MISSING", "DELETING", "DELETED"}]
    /\ current \in [Source -> Attempt \cup {None}]
    /\ phase \in {"closed", "finalizing", "open"}
    /\ worker \in [step : Step, checked : BOOLEAN,
                   attempt : Attempt \cup {None}, segment : Nat]
    /\ fault \in {"none", "error", "lost"}

Init ==
    /\ job = [a \in Attempt |-> "ABSENT"]
    /\ run = [a \in Attempt |-> "ABSENT"]
    /\ sourceOf = [a \in Attempt |-> CHOOSE s \in Source : TRUE]
    /\ rank = [a \in Attempt |-> CHOOSE r \in Rank : TRUE]
    /\ previous = [a \in Attempt |-> None]
    /\ segments = [a \in Attempt |-> << >>]
    /\ checkpoint = [a \in Attempt |-> "NONE"]
    /\ output = [a \in Attempt |-> "NONE"]
    /\ stale = {}
    /\ source = [s \in Source |-> "ACTIVE"]
    /\ original = [s \in Source |-> "AVAILABLE"]
    /\ current = [s \in Source |-> None]
    /\ phase = "open"
    /\ worker = Idle
    /\ fault = "none"

-----------------------------------------------------------------------------
(* Commands: one write transaction each, only once the library is open *)

HasWorkInFlight(s) == \E a \in Attempt : sourceOf[a] = s /\ run[a] \in InFlight

\* A definition under "Variant" holds a bug the code does not have: it shows that a
\* property can fail.  Variant: a recycled source is good enough for a retry.
HasOriginal(s) == original[s] = "AVAILABLE"
Processable(s) == source[s] = "ACTIVE" /\ original[s] = "AVAILABLE"

\* Insert the next PENDING run with its QUEUED job.
Create(s, r, p) ==
    \E a \in Attempt :
        /\ run[a] = "ABSENT"
        /\ \A b \in 1..(a - 1) : run[b] # "ABSENT"
        /\ job' = [job EXCEPT ![a] = "QUEUED"]
        /\ run' = [run EXCEPT ![a] = "PENDING"]
        /\ sourceOf' = [sourceOf EXCEPT ![a] = s]
        /\ rank' = [rank EXCEPT ![a] = r]
        /\ previous' = [previous EXCEPT ![a] = p]
        /\ UNCHANGED <<segments, results, stale, library, current, phase, worker,
                       fault>>

ProcessSource(s, r) ==
    /\ phase = "open"
    /\ Processable(s)
    /\ Create(s, r, None)

NeverRetried(a) == \A b \in Attempt : previous[b] # a

\* Variant: a cancelled attempt may be retried as well.
RetryEnded(a) ==
    /\ phase = "open"
    /\ run[a] \in {"INTERRUPTED", "FAILED", "CANCELLED", "NOT_RESUMABLE"}
    /\ NeverRetried(a)
    /\ Processable(sourceOf[a])
    /\ Create(sourceOf[a], rank[a], a)
\* A retry is a new job and a new run, once per finished-without-result job.
Retry(a) ==
    /\ phase = "open"
    /\ job[a] \in {"INTERRUPTED", "FAILED"}
    /\ run[a] \in {"INTERRUPTED", "FAILED", "NOT_RESUMABLE"}
    /\ NeverRetried(a)
    /\ Processable(sourceOf[a])
    /\ Create(sourceOf[a], rank[a], a)

\* A queued attempt is cancelled at once; a running one is asked to stop.
CancelTo(a) == IF job[a] = "QUEUED" THEN "CANCELLED" ELSE "CANCELLING"

\* A repeat, and a run that is finalizing or over, change nothing.
Cancel(a) ==
    /\ phase = "open"
    /\ run[a] \notin {"CANCELLING", "CANCELLED"}
    /\ job[a] = "QUEUED" \/ (run[a] = "RUNNING" /\ job[a] = "RUNNING")
    /\ job' = [job EXCEPT ![a] = CancelTo(a)]
    /\ run' = [run EXCEPT ![a] = CancelTo(a)]
    /\ UNCHANGED <<birth, segments, results, stale, library, current, phase, worker,
                   fault>>

RecycleSource(s) ==
    /\ phase = "open"
    /\ ~HasWorkInFlight(s)
    /\ source[s] = "ACTIVE"
    /\ original[s] \notin {"DELETING", "DELETED"}
    /\ source' = [source EXCEPT ![s] = "RECYCLED"]
    /\ UNCHANGED <<rows, birth, results, stale, original, current, phase, worker,
                   fault>>

RestoreSource(s) ==
    /\ phase = "open"
    /\ source[s] = "RECYCLED"
    /\ original[s] \notin {"DELETING", "DELETED"}
    /\ source' = [source EXCEPT ![s] = "ACTIVE"]
    /\ UNCHANGED <<rows, birth, results, stale, original, current, phase, worker,
                   fault>>

\* Variant: only the result the source points at is hidden.
CurrentHidden(s) == [a \in Attempt |-> IF a = current[s] THEN "DELETED" ELSE output[a]]
Hidden(s) == [a \in Attempt |-> IF sourceOf[a] = s /\ output[a] # "NONE"
                                THEN "DELETED" ELSE output[a]]

\* Permanent deletion, intent: every face of the source leaves every reader.
BeginDeletion(s) ==
    /\ phase = "open"
    /\ source[s] = "RECYCLED"
    /\ ~HasWorkInFlight(s)
    /\ source' = [source EXCEPT ![s] = "DELETING"]
    /\ original' = [original EXCEPT ![s] = "DELETING"]
    /\ output' = Hidden(s)
    /\ UNCHANGED <<rows, birth, checkpoint, stale, current, phase, worker, fault>>

\* Permanent deletion, finalization, once bytes and vectors are gone: the rows of
\* every attempt of the source go and the source stays as a tombstone.
FinishDeletion(s) ==
    LET gone == {a \in Attempt : sourceOf[a] = s /\ run[a] # "ABSENT"}
        Without(f, value) == [a \in Attempt |-> IF a \in gone THEN value ELSE f[a]]
    IN  /\ phase = "open"
        /\ source[s] = "DELETING"
        /\ source' = [source EXCEPT ![s] = "DELETED"]
        /\ original' = [original EXCEPT ![s] = "DELETED"]
        /\ current' = [current EXCEPT ![s] = None]
        /\ job' = Without(job, "ERASED")
        /\ run' = Without(run, "ERASED")
        /\ previous' = Without(previous, None)
        /\ segments' = Without(segments, << >>)
        /\ checkpoint' = Without(checkpoint, "NONE")
        /\ output' = Without(output, "NONE")
        /\ UNCHANGED <<sourceOf, rank, stale, phase, worker, fault>>

\* Recheck or relink: a missing original is found again.
RecheckOriginal(s) ==
    /\ phase = "open"
    /\ original[s] = "MISSING"
    /\ original' = [original EXCEPT ![s] = "AVAILABLE"]
    /\ UNCHANGED <<rows, birth, results, stale, source, current, phase, worker,
                   fault>>

\* The attempt holds decisions that name identities and candidate faces.
HoldsDecision(a) ==
    \/ output[a] = "DECIDED"
    \/ worker.step = "persist" /\ worker.attempt = a

\* Another use case (merge, split, correction, forget) moves a face or retires an
\* identity that a decision of `a` rests on, or puts it back.
ChangeCandidates(a) ==
    /\ phase = "open"
    /\ run[a] \in {"RUNNING", "CANCELLING", "FINALIZING"}
    /\ HoldsDecision(a)
    /\ stale' = IF a \in stale THEN stale \ {a} ELSE stale \cup {a}
    /\ UNCHANGED <<rows, birth, results, library, current, phase, worker, fault>>

-----------------------------------------------------------------------------
(* The scheduler thread: ProcessingRunner.run_once *)

\* The thread is at this step and has made the check that precedes it, if any.
At(step) ==
    /\ worker.step = step
    /\ step \in Guarded => worker.checked

GoTo(step) == worker' = [worker EXCEPT !.step = step, !.checked = FALSE]

\* Variant: among equals nobody is first.
StrictlyMostUrgent(a) ==
    \A b \in Attempt \ {a} : job[b] = "QUEUED" => rank[a] < rank[b]
MostUrgent(a) ==
    \A b \in Attempt \ {a} : job[b] = "QUEUED" =>
        rank[a] < rank[b] \/ (rank[a] = rank[b] /\ a < b)

\* The most urgent, then oldest, queued job becomes RUNNING with its run and a
\* first segment.  (A QUEUED job whose run is not PENDING would be FAILED here.)
Claim ==
    \E a \in Attempt :
        /\ phase = "open"
        /\ worker.step = "idle"
        /\ job[a] = "QUEUED"
        /\ MostUrgent(a)
        /\ IF run[a] = "PENDING"
           THEN /\ job' = [job EXCEPT ![a] = "RUNNING"]
                /\ run' = [run EXCEPT ![a] = "RUNNING"]
                /\ segments' = [segments EXCEPT ![a] = Append(@, "RUNNING")]
                /\ worker' = [step |-> "read_input", checked |-> FALSE,
                              attempt |-> a, segment |-> Len(segments[a]) + 1]
           ELSE /\ job' = [job EXCEPT ![a] = "FAILED"]
                /\ UNCHANGED <<run, segments, worker>>
        /\ UNCHANGED <<birth, results, stale, library, current, phase, fault>>

\* _cancel_if_requested: a read, in a transaction of its own.
CheckCancellation ==
    /\ worker.step \in Guarded
    /\ ~worker.checked
    /\ IF "CANCELLING" \in {job[worker.attempt], run[worker.attempt]}
       THEN GoTo("cancel")
       ELSE worker' = [worker EXCEPT !.checked = TRUE]
    /\ UNCHANGED <<rows, birth, results, stale, library, current, phase, fault>>

\* _input: what every later step is allowed to rely on.
InputHolds(allowed) ==
    LET a == worker.attempt
    IN  run[a] \in allowed /\ Processable(sourceOf[a])

\* Variant: a write goes on although a cancellation was acknowledged.
ContextHoldsOrStopping(allowed) ==
    /\ InputHolds(allowed \cup {"CANCELLING"})
    /\ segments[worker.attempt][worker.segment] = "RUNNING"

\* _revalidate_settlement_context: every mutable owner, reloaded before a write.
ContextHolds(allowed) ==
    LET a == worker.attempt
    IN  /\ InputHolds(allowed)
        /\ segments[a][worker.segment] = "RUNNING"
        /\ job[a] \in allowed

ReadInput ==
    /\ At("read_input")
    /\ GoTo(IF InputHolds({"RUNNING"}) THEN "detect" ELSE "fail")
    /\ UNCHANGED <<rows, birth, results, stale, library, current, phase, fault>>

\* Decode the original and ask the ML worker, outside any transaction.  A variant
\* after the first one may be what ran.
Detect ==
    /\ At("detect")
    /\ \E next \in {"settle_detections", "detector_fallback"} : GoTo(next)
    /\ UNCHANGED <<rows, birth, results, stale, library, current, phase, fault>>

Represent ==
    /\ At("represent")
    /\ \E next \in {"settle_representations", "embedder_fallback"} : GoTo(next)
    /\ UNCHANGED <<rows, birth, results, stale, library, current, phase, fault>>

\* Variant: the interval that ended stays open.
IntervalLeftOpen(s, i) == Append(s, "RUNNING")
NextInterval(s, i) == Append([s EXCEPT ![i] = "COMPLETED"], "RUNNING")

\* Close the interval of the provider variant that failed and open the next one.
RecordProviderFallback ==
    LET a == worker.attempt
        next == IF worker.step = "detector_fallback" THEN "settle_detections"
                ELSE "settle_representations"
    IN  /\ worker.step \in {"detector_fallback", "embedder_fallback"}
        /\ IF ContextHolds({"RUNNING", "CANCELLING"})
           THEN /\ segments' = [segments EXCEPT ![a] = NextInterval(@, worker.segment)]
                /\ worker' = [worker EXCEPT !.step = next, !.checked = FALSE,
                                            !.segment = Len(segments[a]) + 1]
           ELSE GoTo("fail") /\ UNCHANGED segments
        /\ UNCHANGED <<job, run, birth, results, stale, library, current, phase,
                       fault>>

\* Variant: a settlement that lost its context is tried again instead of failing.
SettleAgain(step, settled, next) ==
    /\ At(step)
    /\ ContextHolds({"RUNNING"})
    /\ GoTo(next)
    /\ output' = [output EXCEPT ![worker.attempt] = settled]
    /\ UNCHANGED <<rows, birth, checkpoint, stale, library, current, phase, fault>>

\* One settlement transaction of private output, or nothing and a failure.
Settle(step, settled, next) ==
    /\ At(step)
    /\ IF ContextHolds({"RUNNING"})
       THEN GoTo(next) /\ output' = [output EXCEPT ![worker.attempt] = settled]
       ELSE GoTo("fail") /\ UNCHANGED output
    /\ UNCHANGED <<rows, birth, checkpoint, stale, library, current, phase, fault>>

SettleDetections == Settle("settle_detections", "DETECTED", "represent")
SettleRepresentations ==
    Settle("settle_representations", "REPRESENTED", "checkpoint")

CheckpointPrivateOutput ==
    /\ At("checkpoint")
    /\ IF ContextHolds({"RUNNING"})
       THEN /\ GoTo("decide")
            /\ checkpoint' = [checkpoint EXCEPT ![worker.attempt] = "INTERMEDIATE"]
       ELSE GoTo("fail") /\ UNCHANGED checkpoint
    /\ UNCHANGED <<rows, birth, output, stale, library, current, phase, fault>>

\* Reason over the candidates as they are now: a read.
Decide ==
    /\ At("decide")
    /\ GoTo("persist")
    /\ stale' = stale \ {worker.attempt}
    /\ UNCHANGED <<rows, birth, results, library, current, phase, fault>>

PersistDecisions == Settle("persist", "DECIDED", "finalize")

\* The FINAL checkpoint, the end of the interval and FINALIZING, together.
Finalize ==
    LET a == worker.attempt
    IN  /\ At("finalize")
        /\ IF ContextHolds({"RUNNING"})
           THEN /\ checkpoint' = [checkpoint EXCEPT ![a] = "FINAL"]
                /\ segments' = [segments EXCEPT ![a][worker.segment] = "COMPLETED"]
                /\ run' = [run EXCEPT ![a] = "FINALIZING"]
                /\ GoTo("accept")
           ELSE GoTo("fail") /\ UNCHANGED <<checkpoint, segments, run>>
        /\ UNCHANGED <<job, birth, output, stale, library, current, phase, fault>>

\* One of SETTLED_FAILURES, whatever the rows say: unreadable bytes, a worker or
\* runtime that failed, output it may not store, a match that is no longer ACTIVE.
FailStep ==
    /\ \/ \E step \in {"detect", "settle_detections", "represent",
                       "settle_representations", "decide"} : At(step)
       \/ At("persist") /\ worker.attempt \in stale
    /\ GoTo("fail")
    /\ UNCHANGED <<rows, birth, results, stale, library, current, phase, fault>>

\* _cancel and _fail: close the segment this execution knows as the running one,
\* and then end run and job together; whoever does not hold them changes nothing.
EndWork(a, segment, from, closed, to) ==
    IF job[a] \in from /\ segments[a][segment] = "RUNNING"
    THEN /\ segments' = [segments EXCEPT ![a][segment] = closed]
         /\ run' = IF run[a] \in from THEN [run EXCEPT ![a] = to] ELSE run
         /\ job' = IF run[a] \in from THEN [job EXCEPT ![a] = to] ELSE job
    ELSE UNCHANGED rows

SettleCancellation ==
    /\ At("cancel")
    /\ EndWork(worker.attempt, worker.segment, {"RUNNING", "CANCELLING"},
               "COMPLETED", "CANCELLED")
    /\ worker' = Idle
    /\ UNCHANGED <<birth, results, stale, library, current, phase, fault>>

\* Variant: the interval settled is the one the execution started with.
SettleFirstInterval ==
    /\ At("fail")
    /\ EndWork(worker.attempt, 1, {"RUNNING"}, "FAILED", "FAILED")
    /\ worker' = Idle
    /\ UNCHANGED <<birth, results, stale, library, current, phase, fault>>

SettleFailure ==
    /\ At("fail")
    /\ EndWork(worker.attempt, worker.segment, {"RUNNING"}, "FAILED", "FAILED")
    /\ worker' = Idle
    /\ UNCHANGED <<birth, results, stale, library, current, phase, fault>>

\* A failure outside SETTLED_FAILURES (a busy database, a defect) leaves execute.
UnexpectedError ==
    /\ worker.step \in ExecuteSteps
    /\ GoTo("fail_claimed")
    /\ fault' = IF fault = "none" THEN "error" ELSE fault
    /\ UNCHANGED <<rows, birth, results, stale, library, current, phase>>

\* The runner settles it with the claim it started from: its first segment.
FailClaimed ==
    /\ At("fail_claimed")
    /\ EndWork(worker.attempt, 1, {"RUNNING"}, "FAILED", "FAILED")
    /\ worker' = Idle
    /\ UNCHANGED <<birth, results, stale, library, current, phase, fault>>

\* Acceptance revalidates everything the result rests on.
Acceptable(a) ==
    /\ run[a] = "FINALIZING"
    /\ job[a] = "RUNNING"
    /\ checkpoint[a] = "FINAL"
    /\ output[a] = "DECIDED"
    /\ Processable(sourceOf[a])
    /\ a \notin stale

Publish(a) ==
    /\ run' = [run EXCEPT ![a] = "COMPLETED"]
    /\ job' = [job EXCEPT ![a] = "COMPLETED"]
    /\ output' = [output EXCEPT ![a] = "ACTIVE"]
    /\ current' = [current EXCEPT ![sourceOf[a]] = a]

Accept ==
    /\ At("accept")
    /\ IF Acceptable(worker.attempt)
       THEN Publish(worker.attempt) /\ worker' = Idle
       ELSE GoTo("refuse") /\ UNCHANGED <<run, job, output, current>>
    /\ UNCHANGED <<birth, segments, checkpoint, stale, library, phase, fault>>

RefuseFinal ==
    LET a == worker.attempt
    IN  /\ At("refuse")
        /\ run' = IF run[a] = "FINALIZING"
                  THEN [run EXCEPT ![a] = "NOT_RESUMABLE"] ELSE run
        /\ job' = IF job[a] = "RUNNING" THEN [job EXCEPT ![a] = "FAILED"] ELSE job
        /\ worker' = Idle
        /\ UNCHANGED <<birth, segments, results, stale, library, current, phase,
                       fault>>

\* The last transaction of a call fails too: the thread goes on, the rows stay.
Abandon ==
    /\ worker.step \in {"fail_claimed", "accept", "refuse"}
    /\ worker' = Idle
    /\ fault' = "lost"
    /\ UNCHANGED <<rows, birth, results, stale, library, current, phase>>

\* What a thread does when nothing fails: no failure is ever relied upon.
Progress ==
    \/ Claim
    \/ CheckCancellation
    \/ ReadInput
    \/ Detect
    \/ RecordProviderFallback
    \/ SettleDetections
    \/ Represent
    \/ SettleRepresentations
    \/ CheckpointPrivateOutput
    \/ Decide
    \/ PersistDecisions
    \/ Finalize
    \/ SettleCancellation
    \/ SettleFailure
    \/ FailClaimed
    \/ Accept
    \/ RefuseFinal

WorkerStep == Progress \/ FailStep \/ UnexpectedError \/ Abandon

-----------------------------------------------------------------------------
(* The process: crash or exit, and recovery before anything else may write *)

Crash ==
    /\ phase # "closed"
    /\ phase' = "closed"
    /\ worker' = Idle
    /\ fault' = "none"
    /\ UNCHANGED <<rows, birth, results, stale, library, current>>

\* Startup scans the originals first: any of them may have gone missing.
StartRecovery ==
    /\ phase = "closed"
    /\ phase' = "finalizing"
    /\ \E lost \in SUBSET {s \in Source : original[s] = "AVAILABLE"} :
          original' = [s \in Source |-> IF s \in lost THEN "MISSING"
                                        ELSE original[s]]
    /\ UNCHANGED <<rows, birth, results, stale, source, current, worker, fault>>


\* accept_finalizing_runs: finish the acceptance, or refuse it for good.
AcceptFinalizing(a) ==
    /\ phase = "finalizing"
    /\ run[a] = "FINALIZING"
    /\ IF Acceptable(a)
       THEN Publish(a)
       ELSE /\ run' = [run EXCEPT ![a] = "NOT_RESUMABLE"]
            /\ UNCHANGED <<job, output, current>>
    /\ UNCHANGED <<birth, segments, checkpoint, stale, library, phase, worker, fault>>

\* Variant: a cancellation that the restart overtook counts as an interruption.
InterruptedOnly(state) ==
    IF state \in {"RUNNING", "CANCELLING"} THEN "INTERRUPTED" ELSE state

Interrupted(state) ==
    CASE state = "RUNNING"    -> "INTERRUPTED"
      [] state = "CANCELLING" -> "CANCELLED"
      [] OTHER                -> state

\* interrupt_in_flight_work: nobody works on anything now; then the library opens.
InterruptInFlight ==
    /\ phase = "finalizing"
    /\ \A a \in Attempt : run[a] # "FINALIZING"
    /\ job' = [a \in Attempt |-> Interrupted(job[a])]
    /\ run' = [a \in Attempt |-> Interrupted(run[a])]
    /\ segments' = [a \in Attempt |->
                      [i \in 1..Len(segments[a]) |-> Interrupted(segments[a][i])]]
    /\ phase' = "open"
    /\ UNCHANGED <<birth, results, stale, library, current, worker, fault>>

RecoveryStep == InterruptInFlight \/ \E a \in Attempt : AcceptFinalizing(a)

-----------------------------------------------------------------------------

Command ==
    \/ \E s \in Source, r \in Rank : ProcessSource(s, r)
    \/ \E a \in Attempt : Retry(a) \/ Cancel(a) \/ ChangeCandidates(a)
    \/ \E s \in Source : \/ RecycleSource(s)
                         \/ RestoreSource(s)
                         \/ BeginDeletion(s)
                         \/ FinishDeletion(s)
                         \/ RecheckOriginal(s)

Next == Command \/ WorkerStep \/ Crash \/ StartRecovery \/ RecoveryStep

Spec == Init /\ [][Next]_vars

\* The scheduler loop keeps calling run_once, and each ML request has a timeout;
\* recovery, once begun, is one sequence of statements.
FairSpec == Spec /\ WF_vars(Progress) /\ WF_vars(RecoveryStep)

-----------------------------------------------------------------------------
(* Properties *)

\* The pairs of job and run states that transactions leave behind.
Settled ==
    {<<"ABSENT", "ABSENT">>, <<"QUEUED", "PENDING">>, <<"RUNNING", "RUNNING">>,
     <<"RUNNING", "FINALIZING">>, <<"CANCELLING", "CANCELLING">>,
     <<"CANCELLED", "CANCELLED">>, <<"COMPLETED", "COMPLETED">>,
     <<"FAILED", "FAILED">>, <<"FAILED", "NOT_RESUMABLE">>,
     <<"INTERRUPTED", "INTERRUPTED">>, <<"INTERRUPTED", "NOT_RESUMABLE">>,
     <<"ERASED", "ERASED">>}

\* A job and its run never contradict each other, whoever wrote last and wherever
\* a crash fell.  Only recovery, between refusing a FINAL and interrupting its job,
\* shows a RUNNING job of a NOT_RESUMABLE run, and never to a command.
JobAndRunAgree ==
    \A a \in Attempt :
        \/ <<job[a], run[a]>> \in Settled
        \/ phase # "open" /\ <<job[a], run[a]>> = <<"RUNNING", "NOT_RESUMABLE">>

RunningSegments(a) == {i \in DOMAIN segments[a] : segments[a][i] = "RUNNING"}

\* Exactly a running or cancelling run has a running segment: one, and its last.
\* Provider fallbacks, failures, cancellations, crashes and recovery all keep it.
SegmentsFollowRun ==
    \A a \in Attempt :
        RunningSegments(a) = IF run[a] \in {"RUNNING", "CANCELLING"}
                             THEN {Len(segments[a])} ELSE {}

\* The rows of an attempt tell one story: its job, its run and its intervals
\* (jobs, processing_runs, execution_segments; every writer sets them together).
RowsAgree == JobAndRunAgree /\ SegmentsFollowRun

\* What a reader can see is exactly the output of completed runs whose source is
\* not being deleted, and the source points at one of its own completed runs.
OnlyAcceptedOutputIsVisible ==
    /\ \A a \in Attempt :
          output[a] = "ACTIVE" <=>
              run[a] = "COMPLETED" /\ source[sourceOf[a]] \in {"ACTIVE", "RECYCLED"}
    /\ \A a \in Attempt : run[a] = "COMPLETED" => checkpoint[a] = "FINAL"
    /\ \A s \in Source : current[s] # None =>
          run[current[s]] = "COMPLETED" /\ sourceOf[current[s]] = s

\* A source in the Recycle Bin, or being deleted, has no work in flight, so no
\* result can be attached to it later.
NoWorkOnLeavingSource ==
    \A s \in Source : source[s] # "ACTIVE" => ~HasWorkInFlight(s)

\* While the executor is inside an attempt, the rows it settles are its own: no
\* command and no other step can have ended the attempt or moved its segment on.
WorkerOwnsItsAttempt ==
    worker.step # "idle" =>
        LET a == worker.attempt
        IN  /\ phase = "open"
            /\ a \in Attempt
            /\ job[a] \in {"RUNNING", "CANCELLING"}
            /\ run[a] = "FINALIZING" <=> worker.step \in {"accept", "refuse"}
            /\ worker.segment = Len(segments[a])
            /\ worker.step \notin {"read_input", "fail", "cancel", "fail_claimed"} =>
                  Processable(sourceOf[a])

\* While the library is open and every call of the scheduler ended as it should,
\* an attempt that is running or being published is in the executor's hands.
NoStrandedWork ==
    phase = "open" /\ fault = "none" =>
        \A a \in Attempt :
            run[a] \in {"RUNNING", "FINALIZING"} =>
                worker.step # "idle" /\ worker.attempt = a

\* The executor and the attempts in progress name each other: what it writes is
\* its own, and what is in progress it has (execute_job.py, runner.py run_once).
WorkIsInHand == WorkerOwnsItsAttempt /\ NoStrandedWork

\* Retries form chains: an attempt is retried at most once, by a later attempt of
\* the same source, and one that was retried never produces a result.
RetryChains ==
    \A a \in Attempt : previous[a] # None =>
        LET p == previous[a]
        IN  /\ p < a
            /\ sourceOf[p] = sourceOf[a]
            /\ run[p] \in {"FAILED", "INTERRUPTED", "NOT_RESUMABLE"}
            /\ \A b \in Attempt \ {a} : previous[b] # p

\* What the properties above rest on besides each other.
Bookkeeping ==
    /\ \A a, b \in Attempt : a < b /\ run[a] = "ABSENT" => run[b] = "ABSENT"
    /\ \A a \in Attempt : run[a] = "ABSENT" => previous[a] = None
    /\ \A a \in Attempt : run[a] = "FINALIZING" =>
          checkpoint[a] = "FINAL" /\ output[a] = "DECIDED"
    /\ worker.step = "finalize" => output[worker.attempt] = "DECIDED"
    /\ worker.step = "fail_claimed" => fault # "none"

IInv ==
    /\ TypeOK
    /\ JobAndRunAgree
    /\ SegmentsFollowRun
    /\ OnlyAcceptedOutputIsVisible
    /\ NoWorkOnLeavingSource
    /\ WorkerOwnsItsAttempt
    /\ NoStrandedWork
    /\ RetryChains
    /\ Bookkeeping

\* A cancellation that was acknowledged is kept: the run can only become
\* CANCELLED, never a result, a failure or an interrupted run, through any crash.
CancellationIsKept ==
    [][\A a \in Attempt : run[a] \in {"CANCELLING", "CANCELLED"} =>
          run'[a] \in {run[a], "CANCELLED", "ERASED"}]_vars

\* A FINAL that acceptance refuses while the library is open was refused because
\* of the identities it names, never because of its source, job or checkpoint.
LiveRefusalIsAboutIdentities ==
    [][worker.step = "accept" /\ worker'.step = "refuse" =>
          worker.attempt \in stale]_vars

\* Every call of run_once comes back to the loop, and every recovery that has runs to
\* finish settles them and opens the library.
EveryCallReturns ==
    /\ worker.step # "idle" ~> worker.step = "idle"
    /\ phase = "finalizing" ~> phase # "finalizing"

\* A queued attempt is claimed or cancelled for as long as the library is open.
QueuedWorkIsServed ==
    \A a \in Attempt :
        job[a] = "QUEUED" /\ phase = "open" ~> job[a] # "QUEUED" \/ phase # "open"

\* cancel.py: the executor settles CANCELLED at its next safe boundary, so a
\* cancelling run is one that the executor still has in its hands.
CancellationIsInHand ==
    phase = "open" /\ fault = "none" =>
        \A a \in Attempt :
            run[a] = "CANCELLING" => worker.step # "idle" /\ worker.attempt = a

\* runner.py: the work claimed by a call that a defect ended is settled FAILED,
\* unless that settlement fails as well.
DefectIsSettled ==
    phase = "open" /\ fault # "lost" =>
        \A a \in Attempt :
            run[a] = "RUNNING" => worker.step # "idle" /\ worker.attempt = a
=============================================================================

-------------------------- MODULE ProcessingRunProofs --------------------------
(* Proofs, for every number of sources, attempts and ranks, that ProcessingRun *)
(* keeps its invariants and implements AttemptLifecycle: in the states of the  *)
(* inductive invariant, every step of the program is one step of the life      *)
(* cycle or none.                                                              *)
EXTENDS ProcessingRefinement, SequenceTheorems, TLAPS

\* The intervals of a run as a sequence: the positions still running.
RunningIn(s) == {i \in DOMAIN s : s[i] = "RUNNING"}

-----------------------------------------------------------------------------
(* Facts about the sequence of execution segments *)

\* Closing an interval keeps the length and takes that position out.
LEMMA CloseSegment ==
  ASSUME NEW s \in Seq(SegmentState), NEW i \in Nat, s[i] = "RUNNING",
         RunningIn(s) = {Len(s)}, i = Len(s) \/ i = 1, Len(s) >= 1,
         NEW c \in {"COMPLETED", "FAILED"}
  PROVE  /\ [s EXCEPT ![i] = c] \in Seq(SegmentState)
         /\ Len([s EXCEPT ![i] = c]) = Len(s)
         /\ RunningIn([s EXCEPT ![i] = c]) = {}
         /\ i = Len(s)
<1>1. i \in 1..Len(s)
  BY LenProperties
<1>2. DOMAIN s = 1..Len(s)
  BY LenProperties
<1>3. i = Len(s)
  BY <1>1, <1>2 DEF RunningIn
<1>4. /\ [s EXCEPT ![i] = c] \in Seq(SegmentState)
      /\ Len([s EXCEPT ![i] = c]) = Len(s)
      /\ \A j \in 1 .. Len(s) : [s EXCEPT ![i] = c][j] = IF j=i THEN c ELSE s[j]
  BY <1>1, ExceptSeq DEF SegmentState
<1>5. DOMAIN [s EXCEPT ![i] = c] = 1..Len(s)
  BY <1>2
<1> QED
  BY <1>2, <1>3, <1>4, <1>5 DEF RunningIn

\* A new interval is the only running one of a run that had none.
LEMMA AppendSegment ==
  ASSUME NEW s \in Seq(SegmentState), RunningIn(s) = {}
  PROVE  /\ Append(s, "RUNNING") \in Seq(SegmentState)
         /\ Len(Append(s, "RUNNING")) = Len(s) + 1
         /\ RunningIn(Append(s, "RUNNING")) = {Len(s) + 1}
<1>1. /\ Append(s, "RUNNING") \in Seq(SegmentState)
      /\ Len(Append(s, "RUNNING")) = Len(s) + 1
      /\ \A i \in 1..Len(s) : Append(s, "RUNNING")[i] = s[i]
      /\ Append(s, "RUNNING")[Len(s) + 1] = "RUNNING"
  BY AppendProperties DEF SegmentState
<1>2. /\ DOMAIN s = 1..Len(s)
      /\ DOMAIN Append(s, "RUNNING") = 1..(Len(s) + 1)
      /\ Len(s) \in Nat
  BY <1>1, LenProperties
<1> QED
  BY <1>1, <1>2 DEF RunningIn

\* Recovery leaves no interval running.
LEMMA InterruptSegments ==
  ASSUME NEW s \in Seq(SegmentState)
  PROVE  /\ [i \in 1..Len(s) |-> Interrupted(s[i])] \in Seq(SegmentState)
         /\ RunningIn([i \in 1..Len(s) |-> Interrupted(s[i])]) = {}
<1> DEFINE t == [i \in 1..Len(s) |-> Interrupted(s[i])]
<1>1. Len(s) \in Nat /\ \A i \in 1..Len(s) : s[i] \in SegmentState
  BY LenProperties, ElementOfSeq
<1>2. \A i \in 1..Len(s) : Interrupted(s[i]) \in SegmentState \ {"RUNNING"}
  BY <1>1 DEF Interrupted, SegmentState
<1>3. t \in [1..Len(s) -> SegmentState]
  BY <1>2
<1>4. t \in Seq(SegmentState)
  BY <1>1, <1>3, SeqDef
<1> QED
  BY <1>2, <1>4 DEF RunningIn

-----------------------------------------------------------------------------
(* What the executor may rely on, and what its settlements do to the rows *)

\* An execution holds an attempt of an active source whose job and run agree and
\* whose last interval is the running one until the run is finalizing.
LEMMA Busy ==
  ASSUME IInv, worker.step # "idle"
  PROVE  LET a == worker.attempt
         IN  /\ a \in Attempt
             /\ phase = "open"
             /\ sourceOf[a] \in Source
             /\ source[sourceOf[a]] = "ACTIVE"
             /\ segments[a] \in Seq(SegmentState)
             /\ worker.segment = Len(segments[a])
             /\ worker.segment \in Nat
             /\ worker.step \in {"accept", "refuse"} =>
                   /\ run[a] = "FINALIZING"
                   /\ job[a] = "RUNNING"
                   /\ RunningIn(segments[a]) = {}
             /\ worker.step \notin {"accept", "refuse"} =>
                   /\ run[a] = job[a]
                   /\ job[a] \in {"RUNNING", "CANCELLING"}
                   /\ RunningIn(segments[a]) = {Len(segments[a])}
                   /\ Len(segments[a]) >= 1
<1> DEFINE a == worker.attempt
<1>1. /\ a \in Attempt
      /\ phase = "open"
      /\ job[a] \in {"RUNNING", "CANCELLING"}
      /\ run[a] = "FINALIZING" <=> worker.step \in {"accept", "refuse"}
      /\ worker.segment = Len(segments[a])
  BY DEF IInv, WorkerOwnsItsAttempt
<1>2. <<job[a], run[a]>> \in Settled
  BY <1>1 DEF IInv, JobAndRunAgree
<1>3. run[a] = job[a] \/ (run[a] = "FINALIZING" /\ job[a] = "RUNNING")
  BY <1>1, <1>2 DEF Settled
<1>4. sourceOf[a] \in Source /\ segments[a] \in Seq(SegmentState)
  BY <1>1 DEF IInv, TypeOK
<1>5. source[sourceOf[a]] = "ACTIVE"
  BY <1>1, <1>3, <1>4 DEF IInv, NoWorkOnLeavingSource, HasWorkInFlight, InFlight
<1>6. RunningIn(segments[a]) =
         IF run[a] \in {"RUNNING", "CANCELLING"} THEN {Len(segments[a])} ELSE {}
  BY <1>1 DEF IInv, SegmentsFollowRun, RunningSegments, RunningIn
<1>7. DOMAIN segments[a] = 1..Len(segments[a]) /\ Len(segments[a]) \in Nat
  BY <1>4, LenProperties
<1>8. run[a] # "FINALIZING" => Len(segments[a]) \in DOMAIN segments[a]
  BY <1>1, <1>3, <1>6 DEF RunningIn
<1> HIDE DEF a
<1> QED
  BY <1>1, <1>3, <1>4, <1>5, <1>6, <1>7, <1>8 DEF a

\* The segments of `a`, and of no other run, change; `open` are those running now.
SegmentsBecome(a, open) ==
    /\ segments' = [segments EXCEPT ![a] = segments'[a]]
    /\ segments'[a] \in Seq(SegmentState)
    /\ RunningIn(segments'[a]) = open

\* Ending work is all or nothing, for the segment the caller names.
LEMMA EndWorkEffect ==
  ASSUME IInv, worker.step # "idle", worker.step \notin {"accept", "refuse"},
         NEW i \in {worker.segment, 1},
         NEW from \in {{"RUNNING"}, {"RUNNING", "CANCELLING"}},
         NEW c \in {"COMPLETED", "FAILED"}, NEW to,
         EndWork(worker.attempt, i, from, c, to)
  PROVE  \/ /\ job[worker.attempt] \in from
            /\ i = worker.segment
            /\ SegmentsBecome(worker.attempt, {})
            /\ run' = [run EXCEPT ![worker.attempt] = to]
            /\ job' = [job EXCEPT ![worker.attempt] = to]
         \/ /\ job[worker.attempt] \in from => i # worker.segment
            /\ UNCHANGED rows
<1> DEFINE a == worker.attempt
           s == segments[a]
<1>1. /\ a \in Attempt /\ s \in Seq(SegmentState) /\ run[a] = job[a]
      /\ RunningIn(s) = {Len(s)} /\ Len(s) >= 1 /\ worker.segment = Len(s)
      /\ worker.segment \in Nat
  BY Busy
<1>2. CASE job[a] \in from /\ s[i] = "RUNNING"
  <2> HIDE DEF s
  <2>0. i \in Nat /\ (i = Len(s) \/ i = 1)
    BY <1>1
  <2>1. /\ [s EXCEPT ![i] = c] \in Seq(SegmentState)
        /\ RunningIn([s EXCEPT ![i] = c]) = {}
        /\ i = Len(s)
    BY <1>1, <1>2, <2>0, CloseSegment
  <2> USE DEF s
  <2>2. /\ segments' = [segments EXCEPT ![a] = [s EXCEPT ![i] = c]]
        /\ run' = [run EXCEPT ![a] = to]
        /\ job' = [job EXCEPT ![a] = to]
    BY <1>1, <1>2 DEF EndWork
  <2>3. segments'[a] = [s EXCEPT ![i] = c]
    BY <1>1, <2>2 DEF IInv, TypeOK
  <2> QED
    BY <1>1, <1>2, <2>1, <2>2, <2>3 DEF SegmentsBecome
<1>3. CASE ~(job[a] \in from /\ s[i] = "RUNNING")
  <2>1. UNCHANGED rows
    BY <1>3 DEF EndWork
  <2>2. s[Len(s)] = "RUNNING"
    BY <1>1 DEF RunningIn
  <2> QED
    BY <1>1, <1>3, <2>1, <2>2
<1> QED
  BY <1>2, <1>3

\* Publishing a FINAL closes the last interval.
LEMMA FinalizeEffect ==
  ASSUME IInv, Finalize, ContextHolds({"RUNNING"})
  PROVE  /\ SegmentsBecome(worker.attempt, {})
         /\ Len(segments'[worker.attempt]) = Len(segments[worker.attempt])
<1> DEFINE a == worker.attempt
           s == segments[a]
<1>1. /\ a \in Attempt /\ s \in Seq(SegmentState) /\ worker.segment = Len(s)
      /\ worker.segment \in Nat /\ RunningIn(s) = {Len(s)} /\ Len(s) >= 1
  BY Busy DEF Finalize, At
<1>2. s[worker.segment] = "RUNNING"
  BY DEF ContextHolds
<1>3. /\ [s EXCEPT ![worker.segment] = "COMPLETED"] \in Seq(SegmentState)
      /\ RunningIn([s EXCEPT ![worker.segment] = "COMPLETED"]) = {}
      /\ Len([s EXCEPT ![worker.segment] = "COMPLETED"]) = Len(s)
  BY <1>1, <1>2, CloseSegment
<1>4. segments' = [segments EXCEPT ![a] = [s EXCEPT ![worker.segment] = "COMPLETED"]]
  BY DEF Finalize
<1> QED
  BY <1>1, <1>3, <1>4 DEF SegmentsBecome, IInv, TypeOK

\* A provider fallback closes the last interval and opens the next.
LEMMA FallbackEffect ==
  ASSUME IInv, RecordProviderFallback, ContextHolds({"RUNNING", "CANCELLING"})
  PROVE  /\ SegmentsBecome(worker.attempt, {Len(segments[worker.attempt]) + 1})
         /\ Len(segments'[worker.attempt]) = Len(segments[worker.attempt]) + 1
<1> DEFINE a == worker.attempt
           s == segments[a]
           t == [s EXCEPT ![worker.segment] = "COMPLETED"]
<1>1. /\ a \in Attempt /\ s \in Seq(SegmentState) /\ worker.segment = Len(s)
      /\ worker.segment \in Nat /\ RunningIn(s) = {Len(s)} /\ Len(s) >= 1
  BY Busy DEF RecordProviderFallback
<1>2. s[worker.segment] = "RUNNING"
  BY DEF ContextHolds
<1>3. t \in Seq(SegmentState) /\ Len(t) = Len(s) /\ RunningIn(t) = {}
  BY <1>1, <1>2, CloseSegment
<1>4. /\ Append(t, "RUNNING") \in Seq(SegmentState)
      /\ Len(Append(t, "RUNNING")) = Len(s) + 1
      /\ RunningIn(Append(t, "RUNNING")) = {Len(s) + 1}
  BY <1>3, AppendSegment
<1>5. segments' = [segments EXCEPT ![a] = Append(t, "RUNNING")]
  BY DEF RecordProviderFallback, NextInterval
<1> QED
  BY <1>1, <1>4, <1>5 DEF SegmentsBecome, IInv, TypeOK

\* A claim starts a run that had no running interval.
LEMMA ClaimEffect ==
  ASSUME IInv, Claim
  PROVE  \E a \in Attempt :
            /\ job[a] = "QUEUED" /\ run[a] = "PENDING" /\ phase = "open"
            /\ job' = [job EXCEPT ![a] = "RUNNING"]
            /\ run' = [run EXCEPT ![a] = "RUNNING"]
            /\ SegmentsBecome(a, {Len(segments[a]) + 1})
            /\ Len(segments'[a]) = Len(segments[a]) + 1
            /\ worker.step = "idle"
            /\ worker' = [step |-> "read_input", checked |-> FALSE,
                          attempt |-> a, segment |-> Len(segments[a]) + 1]
            /\ Len(segments[a]) \in Nat
<1>1. PICK a \in Attempt : Claim!(a)
  BY DEF Claim
<1>2. <<job[a], run[a]>> \in Settled
  BY <1>1 DEF IInv, JobAndRunAgree
<1>3. run[a] = "PENDING"
  BY <1>1, <1>2 DEF Settled
<1>4. segments[a] \in Seq(SegmentState) /\ RunningIn(segments[a]) = {}
  BY <1>3 DEF IInv, TypeOK, SegmentsFollowRun, RunningSegments, RunningIn
<1>5. /\ Append(segments[a], "RUNNING") \in Seq(SegmentState)
      /\ Len(Append(segments[a], "RUNNING")) = Len(segments[a]) + 1
      /\ RunningIn(Append(segments[a], "RUNNING")) = {Len(segments[a]) + 1}
  BY <1>4, AppendSegment
<1>6. Len(segments[a]) \in Nat
  BY <1>4, LenProperties
<1> QED
  BY <1>1, <1>3, <1>5, <1>6 DEF SegmentsBecome, IInv, TypeOK

-----------------------------------------------------------------------------
(* Types *)

\* A command of the API or of the source workflow keeps the types.
LEMMA TypeCommand ==
  ASSUME IInv, Command
  PROVE  TypeOK'
<1> USE ProcessingAssumption DEF IInv, TypeOK, Attempt, None, rows, birth, results, library
<1>1. ASSUME NEW s \in Source, NEW r \in Rank, ProcessSource(s, r)
      PROVE  TypeOK'
  BY <1>1 DEF ProcessSource, Create, JobState, RunState
<1>2. ASSUME NEW a \in Attempt, Retry(a)
      PROVE  TypeOK'
  BY <1>2 DEF Retry, Create, JobState, RunState
<1>3. ASSUME NEW a \in Attempt, Cancel(a)
      PROVE  TypeOK'
  BY <1>3 DEF Cancel, CancelTo, JobState, RunState
<1>4. ASSUME NEW a \in Attempt, ChangeCandidates(a)
      PROVE  TypeOK'
  BY <1>4 DEF ChangeCandidates
<1>5. ASSUME NEW s \in Source, RecycleSource(s) \/ RestoreSource(s) \/ RecheckOriginal(s)
      PROVE  TypeOK'
  <2>1. CASE RecycleSource(s) \/ RestoreSource(s)
    <3>1. UNCHANGED <<rows, birth, results, stale, original, current, phase, worker, fault>>
      BY <2>1 DEF RecycleSource, RestoreSource
    <3>2. \E state \in {"ACTIVE", "RECYCLED"} : source' = [source EXCEPT ![s] = state]
      BY <2>1 DEF RecycleSource, RestoreSource
    <3> QED
      BY <3>1, <3>2 DEF SourceState
  <2>2. CASE RecheckOriginal(s)
    BY <2>2 DEF RecheckOriginal
  <2> QED
    BY <1>5, <2>1, <2>2
<1>6. ASSUME NEW s \in Source, BeginDeletion(s)
      PROVE  TypeOK'
  BY <1>6 DEF BeginDeletion, Hidden, SourceState
<1>7. ASSUME NEW s \in Source, FinishDeletion(s)
      PROVE  TypeOK'
  BY <1>7, EmptySeq DEF FinishDeletion, SourceState, JobState, RunState
<1> QED
  BY <1>1, <1>2, <1>3, <1>4, <1>5, <1>6, <1>7 DEF Command

\* What TypeOK says of the worker.
WorkerState == [step : Step, checked : BOOLEAN,
                attempt : Attempt \cup {None}, segment : Nat]

\* Every place the worker can be sent is one of its steps.
LEMMA GuardedSteps ==
  {"cancel", "fail", "fail_claimed", "detect", "settle_detections", "detector_fallback",
   "represent", "settle_representations", "embedder_fallback", "checkpoint", "decide",
   "persist", "finalize", "accept", "refuse"} \subseteq Step
BY DEF Step, ExecuteSteps, Guarded

\* GoTo keeps the type of the worker.
LEMMA GoToType ==
  ASSUME TypeOK, NEW step \in Step, GoTo(step)
  PROVE  worker' \in WorkerState
BY DEF TypeOK, GoTo, WorkerState

\* A step that moves only the worker, and perhaps records a fault or finds a
\* decision fresh again, keeps the types.
LEMMA QuietType ==
  ASSUME TypeOK,
         UNCHANGED <<rows, birth, results, library, current, phase>>,
         stale' \subseteq stale, fault' \in {fault, "error"}, worker' \in WorkerState
  PROVE  TypeOK'
BY DEF TypeOK, WorkerState, rows, birth, results, library

\* A step of the worker that executes an attempt keeps the types.
LEMMA TypeWorker ==
  ASSUME IInv, WorkerStep
  PROVE  TypeOK'
<1> USE ProcessingAssumption DEF IInv, TypeOK, Attempt, None, rows, birth, results, library
<1>1. CASE Claim
  <2>1. UNCHANGED <<birth, results, stale, library, current, phase, fault>>
    BY <1>1 DEF Claim
  <2>2. PICK a \in Attempt :
          /\ job' = [job EXCEPT ![a] = "RUNNING"]
          /\ run' = [run EXCEPT ![a] = "RUNNING"]
          /\ SegmentsBecome(a, {Len(segments[a]) + 1})
          /\ worker' = [step |-> "read_input", checked |-> FALSE,
                        attempt |-> a, segment |-> Len(segments[a]) + 1]
          /\ Len(segments[a]) \in Nat
    BY <1>1, ClaimEffect
  <2>3. /\ segments' = [segments EXCEPT ![a] = segments'[a]]
        /\ segments'[a] \in Seq(SegmentState)
    BY <2>2 DEF SegmentsBecome
  <2>4. segments' \in [Attempt -> Seq(SegmentState)]
    BY <2>3
  <2>5. run' \in [Attempt -> RunState] /\ job' \in [Attempt -> JobState]
    BY <2>2 DEF RunState, JobState
  <2>6. worker' \in [step : Step, checked : BOOLEAN,
                     attempt : Attempt \cup {None}, segment : Nat]
    BY <2>2 DEF Step, ExecuteSteps, Guarded
  <2> QED
    BY <2>1, <2>4, <2>5, <2>6
<1>2. CASE CheckCancellation \/ ReadInput \/ Detect \/ Represent \/ Decide \/ FailStep
           \/ UnexpectedError
  <2>1. /\ UNCHANGED <<rows, birth, results, library, current, phase>>
        /\ stale' \subseteq stale
        /\ fault' \in {fault, "error"}
    BY <1>2, Zenon DEF CheckCancellation, ReadInput, Detect, Represent, Decide, FailStep,
                       UnexpectedError
  <2>2. \/ worker' = [worker EXCEPT !.checked = TRUE]
        \/ \E step \in Step : GoTo(step)
    BY <1>2, GuardedSteps DEF CheckCancellation, ReadInput, Detect, Represent, Decide,
                              FailStep, UnexpectedError
  <2>3. worker' \in WorkerState
    BY <2>2, GoToType DEF WorkerState
  <2> QED
    BY <2>1, <2>3, QuietType
<1>3. CASE SettleDetections \/ SettleRepresentations \/ PersistDecisions
           \/ CheckpointPrivateOutput
  <2>1. /\ UNCHANGED <<rows, birth, stale, library, current, phase, fault>>
        /\ \E step \in Step : GoTo(step)
    BY <1>3, GuardedSteps DEF SettleDetections, SettleRepresentations, PersistDecisions,
                              Settle, CheckpointPrivateOutput
  <2>2. worker' \in WorkerState
    BY <2>1, GoToType
  <2>3. \/ /\ UNCHANGED checkpoint
           /\ \/ UNCHANGED output
              \/ \E settled \in {"DETECTED", "REPRESENTED", "DECIDED"} :
                    output' = [output EXCEPT ![worker.attempt] = settled]
        \/ /\ UNCHANGED output
           /\ \/ UNCHANGED checkpoint
              \/ checkpoint' = [checkpoint EXCEPT ![worker.attempt] = "INTERMEDIATE"]
    BY <1>3 DEF SettleDetections, SettleRepresentations, PersistDecisions, Settle,
                CheckpointPrivateOutput
  <2>4. /\ output' \in [Attempt -> {"NONE", "DETECTED", "REPRESENTED", "DECIDED",
                                    "ACTIVE", "DELETED"}]
        /\ checkpoint' \in [Attempt -> {"NONE", "INTERMEDIATE", "FINAL"}]
    <3>1. CASE UNCHANGED checkpoint
      <4>1. \/ UNCHANGED output
            \/ \E settled \in {"DETECTED", "REPRESENTED", "DECIDED"} :
                  output' = [output EXCEPT ![worker.attempt] = settled]
        BY <2>3, Zenon
      <4>2. CASE UNCHANGED output
        BY <3>1, <4>2
      <4>3. ASSUME NEW settled \in {"DETECTED", "REPRESENTED", "DECIDED"},
                   output' = [output EXCEPT ![worker.attempt] = settled]
            PROVE  output' \in [Attempt -> {"NONE", "DETECTED", "REPRESENTED", "DECIDED",
                                           "ACTIVE", "DELETED"}]
        BY <4>3
      <4> QED
        BY <3>1, <4>1, <4>2, <4>3
    <3>2. CASE /\ UNCHANGED output
               /\ checkpoint' = [checkpoint EXCEPT ![worker.attempt] = "INTERMEDIATE"]
      BY <3>2
    <3> QED
      BY <2>3, <3>1, <3>2
  <2> QED
    BY <2>1, <2>2, <2>4 DEF WorkerState
<1>4. CASE RecordProviderFallback
  <2>1. CASE ContextHolds({"RUNNING", "CANCELLING"})
    <3>1. /\ segments' = [segments EXCEPT ![worker.attempt] = segments'[worker.attempt]]
          /\ segments'[worker.attempt] \in Seq(SegmentState)
      BY <1>4, <2>1, FallbackEffect DEF SegmentsBecome
    <3>2. worker.segment \in Nat /\ worker.segment = Len(segments[worker.attempt])
      BY <1>4, Busy DEF RecordProviderFallback
    <3>3. /\ UNCHANGED <<job, run, birth, results, stale, library, current, phase, fault>>
          /\ \E next \in {"settle_detections", "settle_representations"} :
                worker' = [worker EXCEPT !.step = next, !.checked = FALSE,
                                         !.segment = Len(segments[worker.attempt]) + 1]
      BY <1>4, <2>1 DEF RecordProviderFallback
    <3>4. segments' \in [Attempt -> Seq(SegmentState)]
      BY <3>1
    <3>5. worker' \in [step : Step, checked : BOOLEAN,
                       attempt : Attempt \cup {None}, segment : Nat]
      <4>1. PICK next \in {"settle_detections", "settle_representations"} :
              worker' = [worker EXCEPT !.step = next, !.checked = FALSE,
                                       !.segment = Len(segments[worker.attempt]) + 1]
        BY <3>3
      <4>2. next \in Step
        BY DEF Step, ExecuteSteps, Guarded
      <4>3. Len(segments[worker.attempt]) + 1 \in Nat
        BY <3>2
      <4> QED
        BY <4>1, <4>2, <4>3
    <3> QED
      BY <3>3, <3>4, <3>5
  <2>2. CASE ~ContextHolds({"RUNNING", "CANCELLING"})
    BY <1>4, <2>2 DEF RecordProviderFallback, GoTo, Step, ExecuteSteps
  <2> QED
    BY <2>1, <2>2
<1>5. CASE Finalize
  <2>1. CASE ContextHolds({"RUNNING"})
    <3>1. /\ checkpoint' = [checkpoint EXCEPT ![worker.attempt] = "FINAL"]
          /\ run' = [run EXCEPT ![worker.attempt] = "FINALIZING"]
          /\ GoTo("accept")
          /\ UNCHANGED <<job, birth, output, stale, library, current, phase, fault>>
      BY <1>5, <2>1 DEF Finalize
    <3>2. worker' \in WorkerState
      BY <3>1, GoToType, GuardedSteps
    <3>3. segments' \in [Attempt -> Seq(SegmentState)]
      BY <1>5, <2>1, FinalizeEffect DEF SegmentsBecome
    <3>4. /\ checkpoint' \in [Attempt -> {"NONE", "INTERMEDIATE", "FINAL"}]
          /\ run' \in [Attempt -> RunState]
      BY <3>1 DEF RunState
    <3> QED
      BY <3>1, <3>2, <3>3, <3>4 DEF WorkerState
  <2>2. CASE ~ContextHolds({"RUNNING"})
    BY <1>5, <2>2 DEF Finalize, GoTo, Step, ExecuteSteps
  <2> QED
    BY <2>1, <2>2
<1>6. CASE SettleCancellation \/ SettleFailure \/ FailClaimed
  <2>1. worker' = Idle /\ UNCHANGED <<birth, results, stale, library, current, phase, fault>>
    BY <1>6 DEF SettleCancellation, SettleFailure, FailClaimed
  <2>2. \/ UNCHANGED rows
        \/ /\ SegmentsBecome(worker.attempt, {})
           /\ \E to \in {"CANCELLED", "FAILED"} :
                /\ run' = [run EXCEPT ![worker.attempt] = to]
                /\ job' = [job EXCEPT ![worker.attempt] = to]
    BY <1>6, EndWorkEffect DEF SettleCancellation, SettleFailure, FailClaimed, At
  <2>3. segments' \in [Attempt -> Seq(SegmentState)]
    BY <2>2 DEF SegmentsBecome
  <2>4. ASSUME NEW to \in {"CANCELLED", "FAILED"}
        PROVE  /\ [run EXCEPT ![worker.attempt] = to] \in [Attempt -> RunState]
               /\ [job EXCEPT ![worker.attempt] = to] \in [Attempt -> JobState]
    BY DEF RunState, JobState
  <2>5. run' \in [Attempt -> RunState] /\ job' \in [Attempt -> JobState]
    <3>1. CASE UNCHANGED rows
      BY <3>1
    <3>2. ASSUME NEW to \in {"CANCELLED", "FAILED"},
                 run' = [run EXCEPT ![worker.attempt] = to],
                 job' = [job EXCEPT ![worker.attempt] = to]
          PROVE  run' \in [Attempt -> RunState] /\ job' \in [Attempt -> JobState]
      BY <2>4, <3>2
    <3> QED
      BY <2>2, <3>1, <3>2
  <2> QED
    BY <2>1, <2>3, <2>5 DEF Idle, Step
<1>7. CASE Accept \/ RefuseFinal \/ Abandon
  <2>1. worker.attempt \in Attempt /\ sourceOf[worker.attempt] \in Source
    BY <1>7, Busy DEF Accept, RefuseFinal, Abandon, At
  <2>2. run' \in [Attempt -> RunState] /\ job' \in [Attempt -> JobState]
    <3>1. \/ run' = run
          \/ \E state \in {"COMPLETED", "NOT_RESUMABLE"} :
                run' = [run EXCEPT ![worker.attempt] = state]
      BY <1>7 DEF Accept, RefuseFinal, Abandon, Publish
    <3>2. \/ job' = job
          \/ \E state \in {"COMPLETED", "FAILED"} :
                job' = [job EXCEPT ![worker.attempt] = state]
      BY <1>7 DEF Accept, RefuseFinal, Abandon, Publish
    <3>3. run' \in [Attempt -> RunState]
      BY <3>1 DEF RunState
    <3>4. job' \in [Attempt -> JobState]
      BY <3>2 DEF JobState
    <3> QED
      BY <3>3, <3>4
  <2>3. worker' \in [step : Step, checked : BOOLEAN,
                     attempt : Attempt \cup {None}, segment : Nat]
    <3>1. worker' = Idle \/ GoTo("refuse")
      BY <1>7 DEF Accept, RefuseFinal, Abandon
    <3>2. CASE worker' = Idle
      BY <3>2 DEF Step, Idle
    <3>3. CASE GoTo("refuse")
      BY <3>3 DEF GoTo, Step
    <3> QED
      BY <3>1, <3>2, <3>3
  <2>4. /\ output' \in [Attempt -> {"NONE", "DETECTED", "REPRESENTED", "DECIDED",
                                    "ACTIVE", "DELETED"}]
        /\ current' \in [Source -> Attempt \cup {None}]
    BY <1>7, <2>1 DEF Accept, RefuseFinal, Abandon, Publish
  <2> QED
    BY <1>7, <2>2, <2>3, <2>4 DEF Accept, RefuseFinal, Abandon
<1> QED
  BY <1>1, <1>2, <1>3, <1>4, <1>5, <1>6, <1>7 DEF WorkerStep, Progress

\* A crash, the start of recovery and its steps keep the types.
LEMMA TypeProcess ==
  ASSUME IInv, Crash \/ StartRecovery \/ RecoveryStep
  PROVE  TypeOK'
<1> USE ProcessingAssumption DEF IInv, TypeOK, Attempt, None, rows, birth, results, library
<1>1. CASE Crash
  BY <1>1 DEF Crash, Idle, Step
<1>2. CASE StartRecovery
  BY <1>2 DEF StartRecovery
<1>3. ASSUME NEW a \in Attempt, AcceptFinalizing(a)
      PROVE  TypeOK'
  <2>1. CASE Acceptable(a)
    <3>1. run' \in [Attempt -> RunState] /\ job' \in [Attempt -> JobState]
      <4>1. /\ run' = [run EXCEPT ![a] = "COMPLETED"]
            /\ job' = [job EXCEPT ![a] = "COMPLETED"]
        BY <1>3, <2>1 DEF AcceptFinalizing, Publish
      <4> QED
        BY <4>1 DEF RunState, JobState
    <3>2. /\ output' \in [Attempt -> {"NONE", "DETECTED", "REPRESENTED", "DECIDED",
                                      "ACTIVE", "DELETED"}]
          /\ current' \in [Source -> Attempt \cup {None}]
      <4>1. sourceOf[a] \in Source
        OBVIOUS
      <4>2. /\ output' = [output EXCEPT ![a] = "ACTIVE"]
            /\ current' = [current EXCEPT ![sourceOf[a]] = a]
        BY <1>3, <2>1 DEF AcceptFinalizing, Publish
      <4> QED
        BY <4>1, <4>2
    <3> QED
      BY <1>3, <3>1, <3>2 DEF AcceptFinalizing
  <2>2. CASE ~Acceptable(a)
    BY <1>3, <2>2 DEF AcceptFinalizing, RunState
  <2> QED
    BY <2>1, <2>2
<1>4. CASE InterruptInFlight
  <2>1. \A a \in Attempt : /\ Interrupted(job[a]) \in JobState
                           /\ Interrupted(run[a]) \in RunState
    BY DEF Interrupted, JobState, RunState
  <2>2. \A a \in Attempt :
           [i \in 1..Len(segments[a]) |-> Interrupted(segments[a][i])] \in Seq(SegmentState)
    BY InterruptSegments
  <2> QED
    BY <1>4, <2>1, <2>2 DEF InterruptInFlight
<1> QED
  BY <1>1, <1>2, <1>3, <1>4 DEF RecoveryStep

\* Every step keeps the types.
LEMMA TypeNext ==
  ASSUME IInv, [Next]_vars
  PROVE  TypeOK'
<1>1. CASE UNCHANGED vars
  BY <1>1 DEF vars, IInv, TypeOK
<1> QED
  BY <1>1, TypeCommand, TypeWorker, TypeProcess DEF Next

-----------------------------------------------------------------------------
(* Job and run *)

\* While commands and the executor may run, every pair is settled.
LEMMA OpenPairs ==
  ASSUME IInv, phase = "open", NEW a \in Attempt
  PROVE  <<job[a], run[a]>> \in Settled
BY DEF IInv, JobAndRunAgree

\* No step leaves a job and its run in contradiction.
LEMMA AgreeNext ==
  ASSUME IInv, [Next]_vars
  PROVE  JobAndRunAgree'
<1> USE DEF Attempt, rows
<1> DEFINE Fine(j, r) == <<j, r>> \in Settled
<1>0. job \in [Attempt -> JobState] /\ run \in [Attempt -> RunState]
  BY DEF IInv, TypeOK
<1>1. ASSUME UNCHANGED <<job, run, phase>>
      PROVE  JobAndRunAgree'
  BY <1>1 DEF IInv, JobAndRunAgree, Settled
<1>2. ASSUME NEW s, NEW r, NEW p, Create(s, r, p)
      PROVE  JobAndRunAgree'
  BY <1>0, <1>2 DEF Create, IInv, JobAndRunAgree, Settled
<1>3. ASSUME NEW a \in Attempt, Cancel(a)
      PROVE  JobAndRunAgree'
  <2>1. \A b \in Attempt : <<job[b], run[b]>> \in Settled
    BY <1>3, OpenPairs DEF Cancel, CancelTo
  <2> QED
    BY <1>0, <1>3, <2>1 DEF Cancel, CancelTo, JobAndRunAgree, Settled
<1>4. ASSUME NEW s \in Source, FinishDeletion(s)
      PROVE  JobAndRunAgree'
  BY <1>0, <1>4 DEF FinishDeletion, IInv, JobAndRunAgree, Settled
<1>5. CASE Claim
  BY <1>0, <1>5, ClaimEffect DEF Claim, IInv, JobAndRunAgree, Settled
<1>6. CASE SettleCancellation \/ SettleFailure \/ FailClaimed
  <2>1. \/ UNCHANGED <<job, run>>
        \/ \E to \in {"CANCELLED", "FAILED"} :
              /\ run' = [run EXCEPT ![worker.attempt] = to]
              /\ job' = [job EXCEPT ![worker.attempt] = to]
    BY <1>6, EndWorkEffect DEF SettleCancellation, SettleFailure, FailClaimed, At
  <2>2. UNCHANGED phase
    BY <1>6 DEF SettleCancellation, SettleFailure, FailClaimed
  <2> QED
    BY <1>0, <1>1, <2>1, <2>2 DEF IInv, JobAndRunAgree, Settled
<1>7. CASE Finalize
  <2>1. CASE ContextHolds({"RUNNING"})
    <3>1. worker.attempt \in Attempt /\ job[worker.attempt] = "RUNNING"
      BY <1>7, <2>1, Busy DEF Finalize, At, ContextHolds
    <3> QED
      BY <1>0, <1>7, <2>1, <3>1 DEF Finalize, IInv, JobAndRunAgree, Settled
  <2>2. CASE ~ContextHolds({"RUNNING"})
    BY <1>1, <1>7, <2>2 DEF Finalize
  <2> QED
    BY <2>1, <2>2
<1>8. CASE Accept \/ RefuseFinal
  <2>1. /\ worker.attempt \in Attempt
        /\ run[worker.attempt] = "FINALIZING"
        /\ job[worker.attempt] = "RUNNING"
    BY <1>8, Busy DEF Accept, RefuseFinal, At
  <2>2. CASE Accept
    BY <1>0, <2>1, <2>2 DEF Accept, Publish, IInv, JobAndRunAgree, Settled
  <2>3. CASE RefuseFinal
    BY <1>0, <2>1, <2>3 DEF RefuseFinal, IInv, JobAndRunAgree, Settled
  <2> QED
    BY <1>8, <2>2, <2>3
<1>9. CASE Crash \/ StartRecovery
  BY <1>9 DEF Crash, StartRecovery, IInv, JobAndRunAgree
<1>10. ASSUME NEW a \in Attempt, AcceptFinalizing(a)
       PROVE  JobAndRunAgree'
  BY <1>0, <1>10 DEF AcceptFinalizing, Acceptable, Publish, IInv, JobAndRunAgree, Settled
<1>11. CASE InterruptInFlight
  BY <1>0, <1>11 DEF InterruptInFlight, Interrupted, IInv, JobAndRunAgree, Settled
<1>12. CASE Command
  BY <1>1, <1>2, <1>3, <1>4, <1>12
     DEF Command, ProcessSource, Retry, RecycleSource, RestoreSource, BeginDeletion,
         RecheckOriginal, ChangeCandidates
<1>13. CASE WorkerStep
  BY <1>1, <1>5, <1>6, <1>7, <1>8, <1>13
     DEF WorkerStep, Progress, CheckCancellation, ReadInput, Detect, RecordProviderFallback,
         SettleDetections, SettleRepresentations, PersistDecisions, Settle, Represent,
         CheckpointPrivateOutput, Decide, FailStep, UnexpectedError, Abandon
<1> QED
  BY <1>1, <1>9, <1>10, <1>11, <1>12, <1>13 DEF Next, RecoveryStep, vars

-----------------------------------------------------------------------------
(* Segments *)

\* Every step leaves an open interval exactly where work is under way.
LEMMA SegmentsNext ==
  ASSUME IInv, [Next]_vars
  PROVE  SegmentsFollowRun'
<1> USE DEF Attempt, rows
<1> DEFINE Follows(a, r, s) ==
      RunningIn(s) = IF r \in {"RUNNING", "CANCELLING"} THEN {Len(s)} ELSE {}
<1>0. /\ job \in [Attempt -> JobState] /\ run \in [Attempt -> RunState]
      /\ segments \in [Attempt -> Seq(SegmentState)]
      /\ \A a \in Attempt : Follows(a, run[a], segments[a])
  BY DEF IInv, TypeOK, SegmentsFollowRun, RunningSegments, RunningIn
<1>a. SUFFICES \A a \in Attempt : Follows(a, run'[a], segments'[a])
  BY DEF SegmentsFollowRun, RunningSegments, RunningIn
<1> HIDE DEF Follows
<1>1. ASSUME UNCHANGED <<run, segments>>
      PROVE  \A a \in Attempt : Follows(a, run'[a], segments'[a])
  BY <1>0, <1>1
<1>2. ASSUME NEW s, NEW r, NEW p, Create(s, r, p)
      PROVE  \A a \in Attempt : Follows(a, run'[a], segments'[a])
  BY <1>0, <1>2 DEF Create, Follows
<1>3. ASSUME NEW a \in Attempt, Cancel(a)
      PROVE  \A b \in Attempt : Follows(b, run'[b], segments'[b])
  <2>1. <<job[a], run[a]>> \in Settled
    BY <1>3, OpenPairs DEF Cancel, CancelTo
  <2>2. \/ run[a] = "PENDING" /\ run' = [run EXCEPT ![a] = "CANCELLED"]
        \/ run[a] = "RUNNING" /\ run' = [run EXCEPT ![a] = "CANCELLING"]
    BY <1>3, <2>1 DEF Cancel, CancelTo, Settled
  <2> QED
    BY <1>0, <1>3, <2>2 DEF Cancel, CancelTo, Follows
<1>4. ASSUME NEW s \in Source, FinishDeletion(s)
      PROVE  \A a \in Attempt : Follows(a, run'[a], segments'[a])
  <2>1. RunningIn(<< >>) = {}
    BY DEF RunningIn
  <2>2. \A a \in Attempt : \/ run'[a] = "ERASED" /\ segments'[a] = << >>
                           \/ run'[a] = run[a] /\ segments'[a] = segments[a]
    BY <1>4 DEF FinishDeletion
  <2> QED
    BY <1>0, <2>1, <2>2 DEF Follows
<1>5. CASE Claim
  BY <1>0, <1>5, ClaimEffect DEF SegmentsBecome, Follows
<1>6. CASE SettleCancellation \/ SettleFailure \/ FailClaimed
  <2>1. \/ UNCHANGED <<run, segments>>
        \/ \E to \in {"CANCELLED", "FAILED"} :
              /\ run' = [run EXCEPT ![worker.attempt] = to]
              /\ SegmentsBecome(worker.attempt, {})
    BY <1>6, EndWorkEffect DEF SettleCancellation, SettleFailure, FailClaimed, At
  <2> QED
    BY <1>0, <1>1, <2>1 DEF SegmentsBecome, Follows
<1>7. CASE Finalize
  <2>1. CASE ContextHolds({"RUNNING"})
    BY <1>0, <1>7, <2>1, FinalizeEffect DEF Finalize, SegmentsBecome, Follows
  <2>2. CASE ~ContextHolds({"RUNNING"})
    BY <1>1, <1>7, <2>2 DEF Finalize
  <2> QED
    BY <2>1, <2>2
<1>8. CASE RecordProviderFallback
  <2>1. CASE ContextHolds({"RUNNING", "CANCELLING"})
    <3>1. UNCHANGED run /\ run[worker.attempt] \in {"RUNNING", "CANCELLING"}
      BY <1>8, <2>1 DEF RecordProviderFallback, ContextHolds, InputHolds
    <3> QED
      BY <1>0, <1>8, <2>1, <3>1, FallbackEffect DEF SegmentsBecome, Follows
  <2>2. CASE ~ContextHolds({"RUNNING", "CANCELLING"})
    BY <1>1, <1>8, <2>2 DEF RecordProviderFallback
  <2> QED
    BY <2>1, <2>2
<1>9. CASE Accept \/ RefuseFinal
  <2>1. worker.attempt \in Attempt /\ run[worker.attempt] = "FINALIZING"
    BY <1>9, Busy DEF Accept, RefuseFinal, At
  <2>2. \/ UNCHANGED run
        \/ \E to \in {"COMPLETED", "NOT_RESUMABLE"} :
              run' = [run EXCEPT ![worker.attempt] = to]
    BY <1>9 DEF Accept, RefuseFinal, Publish
  <2>3. UNCHANGED segments
    BY <1>9 DEF Accept, RefuseFinal
  <2> QED
    BY <1>0, <2>1, <2>2, <2>3 DEF Follows
<1>10. ASSUME NEW a \in Attempt, AcceptFinalizing(a)
       PROVE  \A b \in Attempt : Follows(b, run'[b], segments'[b])
  <2>1. \E to \in {"COMPLETED", "NOT_RESUMABLE"} : run' = [run EXCEPT ![a] = to]
    BY <1>10 DEF AcceptFinalizing, Publish
  <2> QED
    BY <1>0, <1>10, <2>1 DEF AcceptFinalizing, Follows
<1>11. CASE InterruptInFlight
  <2>1. \A a \in Attempt : RunningIn(segments'[a]) = {}
    BY <1>0, <1>11, InterruptSegments DEF InterruptInFlight
  <2>2. \A a \in Attempt : run'[a] \notin {"RUNNING", "CANCELLING"}
    BY <1>11 DEF InterruptInFlight, Interrupted
  <2> QED
    BY <2>1, <2>2 DEF Follows
<1>12. CASE Command
  BY <1>1, <1>2, <1>3, <1>4, <1>12
     DEF Command, ProcessSource, Retry, RecycleSource, RestoreSource, BeginDeletion,
         RecheckOriginal, ChangeCandidates
<1>13. CASE WorkerStep
  BY <1>1, <1>5, <1>6, <1>7, <1>8, <1>9, <1>13
     DEF WorkerStep, Progress, CheckCancellation, ReadInput, Detect,
         SettleDetections, SettleRepresentations, PersistDecisions, Settle, Represent,
         CheckpointPrivateOutput, Decide, FailStep, UnexpectedError, Abandon
<1> QED
  BY <1>1, <1>10, <1>11, <1>12, <1>13 DEF Next, RecoveryStep, Crash, StartRecovery, vars

-----------------------------------------------------------------------------
(* The life cycle of a run *)

\* Every change of a run's state, whoever makes it.
Edges ==
    {<<"ABSENT", "PENDING">>, <<"PENDING", "RUNNING">>, <<"PENDING", "CANCELLED">>,
     <<"RUNNING", "CANCELLING">>, <<"RUNNING", "CANCELLED">>,
     <<"RUNNING", "FINALIZING">>, <<"RUNNING", "FAILED">>,
     <<"RUNNING", "INTERRUPTED">>, <<"CANCELLING", "CANCELLED">>,
     <<"FINALIZING", "COMPLETED">>, <<"FINALIZING", "NOT_RESUMABLE">>}

\* A run is created by Create, erased by FinishDeletion, and otherwise follows the
\* edges without touching what it was created with.
LEMMA RunMoves ==
  ASSUME IInv, [Next]_vars
  PROVE  \/ \E s \in Source, r \in Rank, p \in Attempt \cup {None} :
               /\ Create(s, r, p)
               /\ Processable(s)
               /\ p # None => /\ run[p] \in {"INTERRUPTED", "FAILED", "NOT_RESUMABLE"}
                              /\ sourceOf[p] = s
                              /\ \A b \in Attempt : previous[b] # p
         \/ \E s \in Source : FinishDeletion(s)
         \/ /\ UNCHANGED <<sourceOf, previous>>
            /\ \A a \in Attempt : \/ run'[a] = run[a]
                                  \/ <<run[a], run'[a]>> \in Edges \ {<<"ABSENT", "PENDING">>}
<1> USE DEF Attempt, rows, birth
<1> DEFINE Quiet == /\ UNCHANGED <<sourceOf, previous>>
                    /\ \A a \in Attempt :
                          \/ run'[a] = run[a]
                          \/ <<run[a], run'[a]>> \in Edges \ {<<"ABSENT", "PENDING">>}
<1>0. run \in [Attempt -> RunState] /\ sourceOf \in [Attempt -> Source]
      /\ rank \in [Attempt -> Rank]
  BY DEF IInv, TypeOK
<1>1. ASSUME UNCHANGED <<run, sourceOf, previous>>
      PROVE  Quiet
  BY <1>1
<1>2. ASSUME NEW a \in Attempt, Cancel(a)
      PROVE  Quiet
  <2>1. <<job[a], run[a]>> \in Settled
    BY <1>2, OpenPairs DEF Cancel, CancelTo
  <2>2. \/ run[a] = "PENDING" /\ run' = [run EXCEPT ![a] = "CANCELLED"]
        \/ run[a] = "RUNNING" /\ run' = [run EXCEPT ![a] = "CANCELLING"]
    BY <1>2, <2>1 DEF Cancel, CancelTo, Settled
  <2> QED
    BY <1>0, <1>2, <2>2 DEF Cancel, CancelTo, Edges
<1>3. CASE Claim
  BY <1>0, <1>3, ClaimEffect DEF Claim, Edges
<1>4. CASE SettleCancellation \/ SettleFailure \/ FailClaimed
  <2>1. UNCHANGED <<sourceOf, previous>>
    BY <1>4 DEF SettleCancellation, SettleFailure, FailClaimed
  <2>2. worker.attempt \in Attempt /\ run[worker.attempt] = job[worker.attempt]
    BY <1>4, Busy DEF SettleCancellation, SettleFailure, FailClaimed, At
  <2>3. CASE SettleCancellation
    <3>1. \/ UNCHANGED run
          \/ /\ job[worker.attempt] \in {"RUNNING", "CANCELLING"}
             /\ run' = [run EXCEPT ![worker.attempt] = "CANCELLED"]
      BY <2>3, EndWorkEffect DEF SettleCancellation, At
    <3> QED
      BY <1>0, <2>1, <2>2, <3>1 DEF Edges
  <2>4. CASE SettleFailure \/ FailClaimed
    <3>1. \/ UNCHANGED run
          \/ /\ job[worker.attempt] \in {"RUNNING"}
             /\ run' = [run EXCEPT ![worker.attempt] = "FAILED"]
      BY <2>4, EndWorkEffect DEF SettleFailure, FailClaimed, At
    <3> QED
      BY <1>0, <2>1, <2>2, <3>1 DEF Edges
  <2> QED
    BY <1>4, <2>3, <2>4
<1>5. CASE Finalize
  <2>1. CASE ContextHolds({"RUNNING"})
    BY <1>0, <1>5, <2>1 DEF Finalize, ContextHolds, InputHolds, Edges
  <2>2. CASE ~ContextHolds({"RUNNING"})
    BY <1>1, <1>5, <2>2 DEF Finalize
  <2> QED
    BY <2>1, <2>2
<1>6. CASE Accept \/ RefuseFinal
  <2>1. worker.attempt \in Attempt /\ run[worker.attempt] = "FINALIZING"
    BY <1>6, Busy DEF Accept, RefuseFinal, At
  <2>2. \/ UNCHANGED run
        \/ \E to \in {"COMPLETED", "NOT_RESUMABLE"} :
              run' = [run EXCEPT ![worker.attempt] = to]
    BY <1>6 DEF Accept, RefuseFinal, Publish
  <2> QED
    BY <1>0, <1>6, <2>1, <2>2 DEF Accept, RefuseFinal, Edges
<1>7. ASSUME NEW a \in Attempt, AcceptFinalizing(a)
      PROVE  Quiet
  <2>1. \E to \in {"COMPLETED", "NOT_RESUMABLE"} : run' = [run EXCEPT ![a] = to]
    BY <1>7 DEF AcceptFinalizing, Publish
  <2> QED
    BY <1>0, <1>7, <2>1 DEF AcceptFinalizing, Edges
<1>8. CASE InterruptInFlight
  BY <1>0, <1>8 DEF InterruptInFlight, Interrupted, Edges
<1>9. ASSUME NEW s \in Source, NEW r \in Rank, ProcessSource(s, r)
      PROVE  Create(s, r, None) /\ Processable(s)
  BY <1>9 DEF ProcessSource
<1>10. ASSUME NEW a \in Attempt, Retry(a)
       PROVE  /\ Create(sourceOf[a], rank[a], a) /\ Processable(sourceOf[a])
              /\ run[a] \in {"INTERRUPTED", "FAILED", "NOT_RESUMABLE"}
              /\ \A b \in Attempt : previous[b] # a
              /\ sourceOf[a] \in Source /\ rank[a] \in Rank
  BY <1>0, <1>10 DEF Retry, NeverRetried
<1> HIDE DEF Quiet
<1>11. CASE Command
  <2>1. CASE \E s \in Source, r \in Rank : ProcessSource(s, r)
    BY <1>9, <2>1
  <2>2. CASE \E a \in Attempt : Retry(a)
    BY <1>10, <2>2
  <2>3. CASE \E a \in Attempt : Cancel(a) \/ ChangeCandidates(a)
    BY <1>1, <1>2, <2>3 DEF ChangeCandidates, Quiet
  <2>4. CASE \E s \in Source : RecycleSource(s) \/ RestoreSource(s) \/ BeginDeletion(s)
                               \/ RecheckOriginal(s)
    BY <1>1, <2>4 DEF RecycleSource, RestoreSource, BeginDeletion, RecheckOriginal, Quiet
  <2> QED
    BY <1>11, <2>1, <2>2, <2>3, <2>4 DEF Command
<1>12. CASE WorkerStep
  BY <1>1, <1>3, <1>4, <1>5, <1>6, <1>12
     DEF WorkerStep, Progress, CheckCancellation, ReadInput, Detect, RecordProviderFallback,
         SettleDetections, SettleRepresentations, PersistDecisions, Settle, Represent,
         CheckpointPrivateOutput, Decide, FailStep, UnexpectedError, Abandon, Quiet
<1>13. CASE Crash \/ StartRecovery \/ UNCHANGED vars
  BY <1>1, <1>13 DEF Crash, StartRecovery, vars, Quiet
<1> QED
  BY <1>7, <1>8, <1>11, <1>12, <1>13 DEF Next, RecoveryStep, Quiet

\* An acknowledged cancellation is never turned into anything else.
LEMMA CancellationStep ==
  ASSUME IInv, [Next]_vars, NEW a \in Attempt, run[a] \in {"CANCELLING", "CANCELLED"}
  PROVE  run'[a] \in {run[a], "CANCELLED", "ERASED"}
<1>0. run \in [Attempt -> RunState]
  BY DEF IInv, TypeOK
<1>1. ASSUME NEW s, NEW r, NEW p, Create(s, r, p)
      PROVE  run'[a] = run[a]
  BY <1>0, <1>1 DEF Create
<1>2. ASSUME NEW s \in Source, FinishDeletion(s)
      PROVE  run'[a] \in {run[a], "ERASED"}
  BY <1>2 DEF FinishDeletion
<1> QED
  BY <1>1, <1>2, RunMoves DEF Edges

-----------------------------------------------------------------------------
(* Retry chains, and work of a source that leaves the library *)

\* A retry chain stays a chain: later attempts only follow settled ones.
LEMMA RetryNext ==
  ASSUME IInv, [Next]_vars
  PROVE  RetryChains'
<1> USE DEF Attempt, None
<1>0. /\ run \in [Attempt -> RunState] /\ sourceOf \in [Attempt -> Source]
      /\ previous \in [Attempt -> Attempt \cup {None}]
  BY DEF IInv, TypeOK
<1>1. ASSUME NEW s \in Source, NEW r \in Rank, NEW p \in Attempt \cup {None},
             Create(s, r, p),
             p # None => /\ run[p] \in {"INTERRUPTED", "FAILED", "NOT_RESUMABLE"}
                         /\ sourceOf[p] = s
                         /\ \A b \in Attempt : previous[b] # p
      PROVE  RetryChains'
  <2>1. PICK a \in Attempt :
           /\ run[a] = "ABSENT"
           /\ \A b \in 1..(a - 1) : run[b] # "ABSENT"
           /\ run' = [run EXCEPT ![a] = "PENDING"]
           /\ sourceOf' = [sourceOf EXCEPT ![a] = s]
           /\ previous' = [previous EXCEPT ![a] = p]
    BY <1>1 DEF Create
  <2>2. p # None => p < a
    BY <1>1, <2>1 DEF IInv, Bookkeeping
  <2>3. \A b \in Attempt : previous[b] # a
    BY <2>1 DEF IInv, RetryChains
  <2> QED
    BY <1>0, <1>1, <2>1, <2>2, <2>3 DEF IInv, RetryChains
<1>2. ASSUME NEW s \in Source, FinishDeletion(s)
      PROVE  RetryChains'
  <2>1. \A a \in Attempt : previous[a] # None => run[a] # "ABSENT"
    BY DEF IInv, Bookkeeping
  <2> QED
    BY <1>0, <1>2, <2>1 DEF FinishDeletion, IInv, RetryChains
<1>3. ASSUME UNCHANGED <<sourceOf, previous>>,
             \A a \in Attempt : \/ run'[a] = run[a]
                                \/ <<run[a], run'[a]>> \in Edges
      PROVE  RetryChains'
  BY <1>0, <1>3 DEF IInv, RetryChains, Edges
<1> QED
  BY <1>1, <1>2, <1>3, RunMoves

\* No step starts or keeps work on a source that leaves the library.
LEMMA LeavingNext ==
  ASSUME IInv, [Next]_vars
  PROVE  NoWorkOnLeavingSource'
<1> USE DEF Attempt, InFlight, HasWorkInFlight
<1>0. /\ run \in [Attempt -> RunState] /\ sourceOf \in [Attempt -> Source]
      /\ source \in [Source -> SourceState]
  BY DEF IInv, TypeOK
<1>1. ASSUME NEW s \in Source, NEW r \in Rank, NEW p, Create(s, r, p), Processable(s)
      PROVE  NoWorkOnLeavingSource'
  BY <1>0, <1>1 DEF Create, Processable, library, IInv, NoWorkOnLeavingSource
<1>2. ASSUME NEW s \in Source, FinishDeletion(s)
      PROVE  NoWorkOnLeavingSource'
  BY <1>0, <1>2 DEF FinishDeletion, IInv, NoWorkOnLeavingSource
<1>3. ASSUME UNCHANGED <<sourceOf, previous>>,
             \A a \in Attempt : \/ run'[a] = run[a]
                                \/ <<run[a], run'[a]>> \in Edges \ {<<"ABSENT", "PENDING">>}
      PROVE  NoWorkOnLeavingSource'
  <2>1. \A s \in Source : HasWorkInFlight(s)' => HasWorkInFlight(s)
    BY <1>3 DEF Edges
  <2>2. ASSUME NEW s \in Source, RecycleSource(s) \/ RestoreSource(s) \/ BeginDeletion(s)
        PROVE  NoWorkOnLeavingSource'
    BY <1>0, <2>1, <2>2
       DEF RecycleSource, RestoreSource, BeginDeletion, IInv, NoWorkOnLeavingSource
  <2>3. CASE UNCHANGED source
    BY <2>1, <2>3 DEF IInv, NoWorkOnLeavingSource
  <2>4. \/ UNCHANGED source
        \/ \E s \in Source : RecycleSource(s) \/ RestoreSource(s) \/ BeginDeletion(s)
        \/ \E s \in Source : FinishDeletion(s)
    BY DEF Next, Command, WorkerStep, Progress, RecoveryStep, Crash, StartRecovery, InterruptInFlight,
           AcceptFinalizing, ProcessSource, Retry, Create, Cancel, RecheckOriginal,
           ChangeCandidates, Claim, CheckCancellation, ReadInput, Detect,
           RecordProviderFallback, SettleDetections, SettleRepresentations,
           PersistDecisions, Settle, Represent, CheckpointPrivateOutput, Decide, Finalize,
           FailStep, SettleCancellation, SettleFailure, UnexpectedError, FailClaimed,
           Accept, RefuseFinal, Abandon, library, vars
  <2> QED
    BY <1>2, <2>2, <2>3, <2>4
<1> QED
  BY <1>1, <1>2, <1>3, RunMoves

-----------------------------------------------------------------------------
(* What readers see *)

\* Every step leaves readers only the output of the accepted attempt.
LEMMA VisibleNext ==
  ASSUME IInv, [Next]_vars
  PROVE  OnlyAcceptedOutputIsVisible'
<1> USE DEF Attempt, None, rows, birth, results, library
<1>0. /\ run \in [Attempt -> RunState] /\ sourceOf \in [Attempt -> Source]
      /\ source \in [Source -> SourceState] /\ current \in [Source -> Attempt \cup {None}]
      /\ checkpoint \in [Attempt -> {"NONE", "INTERMEDIATE", "FINAL"}]
      /\ output \in [Attempt -> {"NONE", "DETECTED", "REPRESENTED", "DECIDED",
                                 "ACTIVE", "DELETED"}]
      /\ OnlyAcceptedOutputIsVisible
  BY DEF IInv, TypeOK
<1>1. ASSUME UNCHANGED <<output, checkpoint, current, source, sourceOf>>,
             \A a \in Attempt : run'[a] = "COMPLETED" <=> run[a] = "COMPLETED"
      PROVE  OnlyAcceptedOutputIsVisible'
  BY <1>0, <1>1 DEF OnlyAcceptedOutputIsVisible
<1>2. ASSUME NEW s \in Source, NEW r, NEW p, Create(s, r, p)
      PROVE  OnlyAcceptedOutputIsVisible'
  BY <1>0, <1>2 DEF Create, OnlyAcceptedOutputIsVisible
<1>3. ASSUME NEW a \in Attempt, Cancel(a)
      PROVE  OnlyAcceptedOutputIsVisible'
  <2>1. <<job[a], run[a]>> \in Settled
    BY <1>3, OpenPairs DEF Cancel, CancelTo
  <2>2. run[a] # "COMPLETED" /\ \E to \in {"CANCELLED", "CANCELLING"} :
           run' = [run EXCEPT ![a] = to]
    BY <1>3, <2>1 DEF Cancel, CancelTo, Settled
  <2> QED
    BY <1>0, <1>1, <1>3, <2>2 DEF Cancel, CancelTo
<1>4. ASSUME NEW s \in Source, RecycleSource(s) \/ RestoreSource(s)
      PROVE  OnlyAcceptedOutputIsVisible'
  <2>1. PICK to \in {"ACTIVE", "RECYCLED"} : source' = [source EXCEPT ![s] = to]
    BY <1>4 DEF RecycleSource, RestoreSource
  <2>2. source[s] \in {"ACTIVE", "RECYCLED"}
    BY <1>4 DEF RecycleSource, RestoreSource
  <2>3. UNCHANGED <<run, sourceOf, output, checkpoint, current>>
    BY <1>4 DEF RecycleSource, RestoreSource
  <2> QED
    BY <1>0, <2>1, <2>2, <2>3 DEF OnlyAcceptedOutputIsVisible
<1>5. ASSUME NEW s \in Source, BeginDeletion(s)
      PROVE  OnlyAcceptedOutputIsVisible'
  BY <1>0, <1>5 DEF BeginDeletion, Hidden, OnlyAcceptedOutputIsVisible
<1>6. ASSUME NEW s \in Source, FinishDeletion(s)
      PROVE  OnlyAcceptedOutputIsVisible'
  BY <1>0, <1>6 DEF FinishDeletion, OnlyAcceptedOutputIsVisible
<1>7. CASE Claim
  BY <1>0, <1>1, <1>7, ClaimEffect DEF Claim
<1>8. CASE SettleDetections \/ SettleRepresentations \/ PersistDecisions
           \/ CheckpointPrivateOutput
  <2>1. UNCHANGED <<run, current, source, sourceOf>>
    BY <1>8 DEF SettleDetections, SettleRepresentations, PersistDecisions, Settle,
                CheckpointPrivateOutput
  <2>2. \/ UNCHANGED <<output, checkpoint>>
        \/ /\ run[worker.attempt] = "RUNNING" /\ UNCHANGED checkpoint
           /\ \E settled \in {"DETECTED", "REPRESENTED", "DECIDED"} :
                 output' = [output EXCEPT ![worker.attempt] = settled]
        \/ /\ run[worker.attempt] = "RUNNING" /\ UNCHANGED output
           /\ checkpoint' = [checkpoint EXCEPT ![worker.attempt] = "INTERMEDIATE"]
    BY <1>8 DEF SettleDetections, SettleRepresentations, PersistDecisions, Settle,
                CheckpointPrivateOutput, ContextHolds, InputHolds
  <2>3. worker.attempt \in Attempt
    BY <1>8, Busy DEF SettleDetections, SettleRepresentations, PersistDecisions, Settle,
                      CheckpointPrivateOutput, At
  <2>4. CASE UNCHANGED <<output, checkpoint>>
    BY <1>1, <2>1, <2>4
  <2>5. ASSUME run[worker.attempt] = "RUNNING", UNCHANGED checkpoint,
               NEW settled \in {"DETECTED", "REPRESENTED", "DECIDED"},
               output' = [output EXCEPT ![worker.attempt] = settled]
        PROVE  OnlyAcceptedOutputIsVisible'
    BY <1>0, <2>1, <2>3, <2>5 DEF OnlyAcceptedOutputIsVisible
  <2>6. ASSUME run[worker.attempt] = "RUNNING", UNCHANGED output,
               checkpoint' = [checkpoint EXCEPT ![worker.attempt] = "INTERMEDIATE"]
        PROVE  OnlyAcceptedOutputIsVisible'
    BY <1>0, <2>1, <2>3, <2>6 DEF OnlyAcceptedOutputIsVisible
  <2> QED
    BY <2>2, <2>4, <2>5, <2>6
<1>9. CASE Finalize
  <2>1. worker.attempt \in Attempt
    BY <1>9, Busy DEF Finalize, At
  <2>2. UNCHANGED <<output, current, source, sourceOf>>
    BY <1>9 DEF Finalize
  <2>3. CASE ContextHolds({"RUNNING"})
    <3>1. /\ run[worker.attempt] = "RUNNING"
          /\ run' = [run EXCEPT ![worker.attempt] = "FINALIZING"]
          /\ checkpoint' = [checkpoint EXCEPT ![worker.attempt] = "FINAL"]
      BY <1>9, <2>3 DEF Finalize, ContextHolds, InputHolds
    <3> QED
      BY <1>0, <2>1, <2>2, <3>1 DEF OnlyAcceptedOutputIsVisible
  <2>4. CASE ~ContextHolds({"RUNNING"})
    BY <1>1, <1>9, <2>2, <2>4 DEF Finalize
  <2> QED
    BY <2>3, <2>4
<1>10. CASE SettleCancellation \/ SettleFailure \/ FailClaimed
  <2>1. UNCHANGED <<output, checkpoint, current, source, sourceOf>>
    BY <1>10 DEF SettleCancellation, SettleFailure, FailClaimed
  <2>2. \/ UNCHANGED run
        \/ \E to \in {"CANCELLED", "FAILED"} :
              run' = [run EXCEPT ![worker.attempt] = to]
    BY <1>10, EndWorkEffect DEF SettleCancellation, SettleFailure, FailClaimed, At
  <2>3. worker.attempt \in Attempt /\ run[worker.attempt] # "COMPLETED"
    BY <1>10, Busy DEF SettleCancellation, SettleFailure, FailClaimed, At
  <2> QED
    BY <1>0, <1>1, <2>1, <2>2, <2>3
<1>11. ASSUME NEW a \in Attempt, Acceptable(a), Publish(a),
              UNCHANGED <<checkpoint, source, sourceOf>>
       PROVE  OnlyAcceptedOutputIsVisible'
  BY <1>0, <1>11 DEF Acceptable, Processable, Publish, OnlyAcceptedOutputIsVisible
<1>12. ASSUME NEW a \in Attempt, run[a] = "FINALIZING",
              run' = run \/ run' = [run EXCEPT ![a] = "NOT_RESUMABLE"],
              UNCHANGED <<output, checkpoint, current, source, sourceOf>>
       PROVE  OnlyAcceptedOutputIsVisible'
  BY <1>0, <1>1, <1>12
<1>13. CASE Accept \/ RefuseFinal
  <2>1. worker.attempt \in Attempt /\ run[worker.attempt] = "FINALIZING"
    BY <1>13, Busy DEF Accept, RefuseFinal, At
  <2> QED
    BY <1>11, <1>12, <1>13, <2>1 DEF Accept, RefuseFinal
<1>14. ASSUME NEW a \in Attempt, AcceptFinalizing(a)
       PROVE  OnlyAcceptedOutputIsVisible'
  BY <1>11, <1>12, <1>14 DEF AcceptFinalizing
<1>15. CASE InterruptInFlight
  BY <1>1, <1>15 DEF InterruptInFlight, Interrupted
<1>16. CASE Command
  <2>1. CASE \E s \in Source, r \in Rank : ProcessSource(s, r)
    BY <1>2, <2>1 DEF ProcessSource
  <2>2. CASE \E a \in Attempt : Retry(a)
    BY <1>0, <1>2, <2>2 DEF Retry
  <2>3. CASE \E a \in Attempt : Cancel(a) \/ ChangeCandidates(a)
    BY <1>1, <1>3, <2>3 DEF ChangeCandidates
  <2>4. CASE \E s \in Source : RecheckOriginal(s)
    BY <1>1, <2>4 DEF RecheckOriginal
  <2> QED
    BY <1>4, <1>5, <1>6, <1>16, <2>1, <2>2, <2>3, <2>4 DEF Command
<1>17. CASE WorkerStep
  BY <1>1, <1>7, <1>8, <1>9, <1>10, <1>13, <1>17
     DEF WorkerStep, Progress, CheckCancellation, ReadInput, Detect, RecordProviderFallback,
         Represent, Decide, FailStep, UnexpectedError, Abandon
<1> QED
  BY <1>1, <1>14, <1>15, <1>16, <1>17 DEF Next, RecoveryStep, Crash, StartRecovery, vars

-----------------------------------------------------------------------------
(* The executor and its attempt *)

\* The executor keeps holding the attempt it claimed, and no other is held.
LEMMA WorkerNext ==
  ASSUME IInv, [Next]_vars
  PROVE  WorkerOwnsItsAttempt'
<1> USE DEF Attempt, None, rows, birth, results, library
<1> DEFINE a == worker.attempt
<1>0. /\ run \in [Attempt -> RunState] /\ job \in [Attempt -> JobState]
      /\ sourceOf \in [Attempt -> Source] /\ segments \in [Attempt -> Seq(SegmentState)]
      /\ source \in [Source -> SourceState]
      /\ original \in [Source -> {"AVAILABLE", "MISSING", "DELETING", "DELETED"}]
      /\ worker \in [step : Step, checked : BOOLEAN,
                     attempt : Attempt \cup {None}, segment : Nat]
      /\ WorkerOwnsItsAttempt
  BY DEF IInv, TypeOK
<1>1. CASE worker'.step = "idle"
  BY <1>1 DEF WorkerOwnsItsAttempt
\* An action that leaves the attempt's own rows and its source as they were.
<1>2. ASSUME worker.step # "idle", worker'.attempt = a, worker'.segment = worker.segment,
             phase' = "open",
             job'[a] \in {"RUNNING", "CANCELLING"},
             run'[a] = "FINALIZING" <=> worker'.step \in {"accept", "refuse"},
             Len(segments'[a]) = Len(segments[a]),
             worker'.step \notin {"read_input", "fail", "cancel", "fail_claimed"} =>
                Processable(sourceOf[a])',
             a \in Attempt
      PROVE  WorkerOwnsItsAttempt'
  BY <1>0, <1>2 DEF WorkerOwnsItsAttempt
<1>3. CASE Claim
  <2>1. PICK b \in Attempt :
          /\ run' = [run EXCEPT ![b] = "RUNNING"]
          /\ job' = [job EXCEPT ![b] = "RUNNING"]
          /\ Len(segments'[b]) = Len(segments[b]) + 1
          /\ phase = "open"
          /\ worker' = [step |-> "read_input", checked |-> FALSE,
                        attempt |-> b, segment |-> Len(segments[b]) + 1]
    BY <1>3, ClaimEffect
  <2>2. phase' = "open"
    BY <1>3, <2>1 DEF Claim
  <2> QED
    BY <1>0, <2>1, <2>2 DEF WorkerOwnsItsAttempt
<1>4. ASSUME worker.step # "idle", Command
      PROVE  WorkerOwnsItsAttempt'
  <2>1. /\ a \in Attempt /\ phase = "open" /\ source[sourceOf[a]] = "ACTIVE"
        /\ sourceOf[a] \in Source
        /\ run[a] \in InFlight \ {"PENDING"} /\ job[a] \in {"RUNNING", "CANCELLING"}
    BY <1>4, Busy DEF InFlight
  <2>2. UNCHANGED <<phase, worker>>
    BY <1>4 DEF Command, ProcessSource, Retry, Create, Cancel, RecycleSource, RestoreSource,
                BeginDeletion, FinishDeletion, RecheckOriginal, ChangeCandidates
  <2>3. ASSUME job'[a] \in {"RUNNING", "CANCELLING"},
               run'[a] = "FINALIZING" <=> run[a] = "FINALIZING",
               segments'[a] = segments[a], sourceOf'[a] = sourceOf[a],
               source'[sourceOf[a]] = source[sourceOf[a]],
               \/ original'[sourceOf[a]] = original[sourceOf[a]]
               \/ original'[sourceOf[a]] = "AVAILABLE"
        PROVE  WorkerOwnsItsAttempt'
    BY <1>0, <1>4, <2>1, <2>2, <2>3 DEF WorkerOwnsItsAttempt, Processable
  <2>4. ASSUME NEW s, NEW r, NEW p, Create(s, r, p)
        PROVE  WorkerOwnsItsAttempt'
    <3>1. PICK b \in Attempt : /\ run[b] = "ABSENT"
                               /\ job' = [job EXCEPT ![b] = "QUEUED"]
                               /\ run' = [run EXCEPT ![b] = "PENDING"]
                               /\ sourceOf' = [sourceOf EXCEPT ![b] = s]
      BY <2>4 DEF Create
    <3>2. b # a
      BY <2>1, <3>1 DEF InFlight
    <3> QED
      BY <1>0, <2>1, <2>3, <2>4, <3>1, <3>2 DEF Create
  <2>5. ASSUME NEW b \in Attempt, Cancel(b)
        PROVE  WorkerOwnsItsAttempt'
    <3>1. \/ b # a /\ run'[a] = run[a] /\ job'[a] = job[a]
          \/ run[a] = "RUNNING" /\ run'[a] = "CANCELLING" /\ job'[a] = "CANCELLING"
      BY <1>0, <2>1, <2>5 DEF Cancel, CancelTo
    <3> QED
      BY <2>1, <2>3, <2>5, <3>1 DEF Cancel, CancelTo
  <2>6. ASSUME NEW s \in Source, RecycleSource(s) \/ RestoreSource(s) \/ BeginDeletion(s)
        PROVE  WorkerOwnsItsAttempt'
    <3>1. s # sourceOf[a]
      BY <2>1, <2>6 DEF RecycleSource, RestoreSource, BeginDeletion, HasWorkInFlight
    <3> QED
      BY <1>0, <2>1, <2>3, <2>6, <3>1 DEF RecycleSource, RestoreSource, BeginDeletion
  <2>7. ASSUME NEW s \in Source, FinishDeletion(s)
        PROVE  WorkerOwnsItsAttempt'
    <3>1. s # sourceOf[a]
      BY <2>1, <2>7 DEF FinishDeletion
    <3> QED
      BY <1>0, <2>1, <2>3, <2>7, <3>1 DEF FinishDeletion
  <2>8. ASSUME NEW s \in Source, RecheckOriginal(s)
        PROVE  WorkerOwnsItsAttempt'
    BY <1>0, <2>1, <2>3, <2>8 DEF RecheckOriginal
  <2>9. ASSUME NEW b \in Attempt, ChangeCandidates(b)
        PROVE  WorkerOwnsItsAttempt'
    BY <2>1, <2>3, <2>9 DEF ChangeCandidates
  <2> QED
    BY <1>4, <2>4, <2>5, <2>6, <2>7, <2>8, <2>9 DEF Command, ProcessSource, Retry
<1>5. CASE CheckCancellation \/ ReadInput \/ Detect \/ Represent \/ Decide \/ FailStep
           \/ UnexpectedError \/ SettleDetections \/ SettleRepresentations
           \/ PersistDecisions \/ CheckpointPrivateOutput
  <2>1. worker.step \in ExecuteSteps /\ UNCHANGED <<rows, birth, library, phase>>
    BY <1>5 DEF CheckCancellation, ReadInput, Detect, Represent, Decide, FailStep,
                UnexpectedError, SettleDetections, SettleRepresentations, PersistDecisions,
                Settle, CheckpointPrivateOutput, At, ExecuteSteps, Guarded
  <2>2. PICK step \in ExecuteSteps \cup {"fail_claimed"}, checked \in BOOLEAN :
           /\ worker' = [worker EXCEPT !.step = step, !.checked = checked]
           /\ step \notin {"read_input", "fail", "cancel", "fail_claimed"} =>
                 worker.step \notin {"read_input", "fail", "cancel", "fail_claimed"}
                 \/ Processable(sourceOf[a])
    <3>1. ASSUME NEW step \in ExecuteSteps \cup {"fail_claimed"}, GoTo(step)
          PROVE  \E checked \in BOOLEAN :
                    worker' = [worker EXCEPT !.step = step, !.checked = checked]
      BY <3>1 DEF GoTo
    <3>2. CASE CheckCancellation
      <4>1. \/ GoTo("cancel")
            \/ worker' = [worker EXCEPT !.step = worker.step, !.checked = TRUE]
        BY <1>0, <3>2 DEF CheckCancellation
      <4> QED
        BY <2>1, <3>1, <4>1 DEF ExecuteSteps
    <3>3. CASE ReadInput
      BY <3>1, <3>3 DEF ReadInput, InputHolds, ExecuteSteps, Guarded
    <3>4. CASE Detect \/ Represent \/ Decide \/ FailStep
      <4>1. worker.step \in {"detect", "settle_detections", "represent",
                             "settle_representations", "decide", "persist"}
        BY <3>4, Zenon DEF Detect, Represent, Decide, FailStep, At
      <4>2. \E step \in {"settle_detections", "detector_fallback", "settle_representations",
                         "embedder_fallback", "persist", "fail"} : GoTo(step)
        BY <3>4, Zenon DEF Detect, Represent, Decide, FailStep
      <4>3. PICK step \in ExecuteSteps : GoTo(step)
        BY <4>2 DEF ExecuteSteps, Guarded
      <4> QED
        BY <3>1, <4>1, <4>3
    <3>5. CASE UnexpectedError
      BY <3>1, <3>5 DEF UnexpectedError
    <3>6. CASE SettleDetections \/ SettleRepresentations \/ PersistDecisions
               \/ CheckpointPrivateOutput
      <4>1. worker.step \in {"settle_detections", "settle_representations", "checkpoint",
                             "persist"}
        BY <3>6 DEF SettleDetections, SettleRepresentations, PersistDecisions, Settle,
                    CheckpointPrivateOutput, At
      <4>2. \E step \in {"represent", "checkpoint", "decide", "finalize", "fail"} : GoTo(step)
        BY <3>6 DEF SettleDetections, SettleRepresentations, PersistDecisions, Settle,
                    CheckpointPrivateOutput
      <4>3. PICK step \in ExecuteSteps : GoTo(step)
        BY <4>2 DEF ExecuteSteps, Guarded
      <4> QED
        BY <3>1, <4>1, <4>3
    <3> QED
      BY <1>5, <3>2, <3>3, <3>4, <3>5, <3>6
  <2>3. worker.step \notin {"idle", "accept", "refuse"} /\ step \notin {"accept", "refuse"}
    BY <2>1 DEF ExecuteSteps, Guarded
  <2> QED
    BY <1>0, <1>2, <2>1, <2>2, <2>3, Busy DEF WorkerOwnsItsAttempt, Processable
<1>6. CASE RecordProviderFallback
  <2>1. worker.step \in {"detector_fallback", "embedder_fallback"}
    BY <1>6 DEF RecordProviderFallback
  <2>2. CASE ContextHolds({"RUNNING", "CANCELLING"})
    <3>1. /\ UNCHANGED <<job, run, birth, library, phase>>
          /\ \E next \in {"settle_detections", "settle_representations"} :
                worker' = [worker EXCEPT !.step = next, !.checked = FALSE,
                                         !.segment = Len(segments[a]) + 1]
      BY <1>6, <2>2 DEF RecordProviderFallback
    <3>2. Len(segments'[a]) = Len(segments[a]) + 1
      BY <1>6, <2>2, FallbackEffect
    <3> QED
      BY <1>0, <2>1, <3>1, <3>2 DEF WorkerOwnsItsAttempt, Processable
  <2>3. CASE ~ContextHolds({"RUNNING", "CANCELLING"})
    BY <1>0, <1>2, <1>6, <2>1, <2>3
       DEF RecordProviderFallback, GoTo, WorkerOwnsItsAttempt
  <2> QED
    BY <2>2, <2>3
<1>7. CASE Finalize
  <2>1. worker.step = "finalize" /\ UNCHANGED <<job, birth, library, phase>>
    BY <1>7 DEF Finalize, At
  <2>2. CASE ContextHolds({"RUNNING"})
    <3>1. /\ run' = [run EXCEPT ![a] = "FINALIZING"]
          /\ worker' = [worker EXCEPT !.step = "accept", !.checked = FALSE]
      BY <1>7, <2>2 DEF Finalize, GoTo
    <3>2. Len(segments'[a]) = Len(segments[a])
      BY <1>7, <2>2, FinalizeEffect
    <3> QED
      BY <1>0, <2>1, <3>1, <3>2 DEF WorkerOwnsItsAttempt, Processable
  <2>3. CASE ~ContextHolds({"RUNNING"})
    BY <1>0, <1>2, <1>7, <2>1, <2>3 DEF Finalize, GoTo, WorkerOwnsItsAttempt
  <2> QED
    BY <2>2, <2>3
<1>8. CASE Accept
  <2>1. worker.step = "accept" /\ UNCHANGED <<birth, segments, library, phase>>
    BY <1>8 DEF Accept, At
  <2>2. CASE Acceptable(a)
    BY <1>1, <1>8, <2>2 DEF Accept, Idle
  <2>3. CASE ~Acceptable(a)
    BY <1>0, <1>2, <1>8, <2>1, <2>3 DEF Accept, GoTo, WorkerOwnsItsAttempt, Processable
  <2> QED
    BY <2>2, <2>3
<1>9. CASE SettleCancellation \/ SettleFailure \/ FailClaimed \/ RefuseFinal \/ Abandon
           \/ Crash
  BY <1>1, <1>9 DEF SettleCancellation, SettleFailure, FailClaimed, RefuseFinal, Abandon,
                    Crash, Idle
<1>10. CASE StartRecovery \/ RecoveryStep
  BY <1>0, <1>1, <1>10 DEF StartRecovery, RecoveryStep, AcceptFinalizing, InterruptInFlight,
                           WorkerOwnsItsAttempt
<1>11. CASE UNCHANGED vars
  BY <1>0, <1>11 DEF vars, WorkerOwnsItsAttempt, Processable
<1>12. CASE Command
  <2>1. CASE worker.step = "idle"
    <3>1. UNCHANGED worker
      BY <1>12 DEF Command, ProcessSource, Retry, Create, Cancel, RecycleSource,
                   RestoreSource, BeginDeletion, FinishDeletion, RecheckOriginal,
                   ChangeCandidates
    <3> QED
      BY <1>1, <2>1, <3>1
  <2> QED
    BY <1>4, <1>12, <2>1
<1> HIDE DEF a
<1> QED
  BY <1>3, <1>5, <1>6, <1>7, <1>8, <1>9, <1>10, <1>11, <1>12 DEF Next, WorkerStep, Progress

-----------------------------------------------------------------------------
(* No work without a worker *)

\* Every live step moves only the attempt the executor holds, or starts one with
\* an idle executor; what it gives up it has settled, or `fault` says otherwise.
LEMMA StrandedNext ==
  ASSUME IInv, [Next]_vars
  PROVE  NoStrandedWork'
<1> USE DEF Attempt, None, rows, birth, results, library
<1> DEFINE w == worker.attempt
           Held(a) == worker.step # "idle" /\ w = a
<1>0. /\ run \in [Attempt -> RunState] /\ job \in [Attempt -> JobState]
      /\ worker \in [step : Step, checked : BOOLEAN,
                     attempt : Attempt \cup {None}, segment : Nat]
      /\ phase = "open" /\ fault = "none" =>
            \A a \in Attempt : run[a] \in {"RUNNING", "FINALIZING"} => Held(a)
  BY DEF IInv, TypeOK, NoStrandedWork
<1>1. CASE phase' # "open" \/ fault' # "none"
  BY <1>1 DEF NoStrandedWork
\* The executor keeps what it holds and nothing else starts.
<1>2. ASSUME phase' = "open" /\ fault' = "none" => phase = "open" /\ fault = "none",
             worker'.step # "idle", worker'.attempt = w, worker.step # "idle",
             \A a \in Attempt \ {w} : run'[a] \in {"RUNNING", "FINALIZING"} => run'[a] = run[a]
      PROVE  NoStrandedWork'
  BY <1>0, <1>2 DEF NoStrandedWork
\* The executor lets go of an attempt that no longer runs.
<1>3. ASSUME phase' = "open" /\ fault' = "none" => phase = "open" /\ fault = "none",
             worker.step # "idle",
             w \in Attempt, run'[w] \notin {"RUNNING", "FINALIZING"},
             \A a \in Attempt \ {w} : run'[a] = run[a]
      PROVE  NoStrandedWork'
  BY <1>0, <1>3 DEF NoStrandedWork
<1>4. CASE Claim
  <2>1. PICK b \in Attempt :
          /\ run' = [run EXCEPT ![b] = "RUNNING"]
          /\ worker.step = "idle"
          /\ worker' = [step |-> "read_input", checked |-> FALSE,
                        attempt |-> b, segment |-> Len(segments[b]) + 1]
    BY <1>4, ClaimEffect
  <2>2. UNCHANGED <<phase, fault>>
    BY <1>4 DEF Claim
  <2> QED
    BY <1>0, <2>1, <2>2 DEF NoStrandedWork
<1>5. CASE CheckCancellation \/ ReadInput \/ Detect \/ Represent \/ Decide \/ FailStep
           \/ SettleDetections \/ SettleRepresentations \/ PersistDecisions
           \/ CheckpointPrivateOutput
  <2>1. worker.step # "idle" /\ UNCHANGED <<run, phase, fault>>
    BY <1>5 DEF CheckCancellation, ReadInput, Detect, Represent, Decide, FailStep,
                SettleDetections, SettleRepresentations, PersistDecisions, Settle,
                CheckpointPrivateOutput, At, ExecuteSteps, Guarded
  <2>2. PICK step \in ExecuteSteps, checked \in BOOLEAN :
           worker' = [worker EXCEPT !.step = step, !.checked = checked]
    <3>1. ASSUME NEW step \in ExecuteSteps, GoTo(step)
          PROVE  \E checked \in BOOLEAN :
                    worker' = [worker EXCEPT !.step = step, !.checked = checked]
      BY <3>1 DEF GoTo
    <3>2. CASE CheckCancellation
      <4>1. \/ GoTo("cancel")
            \/ /\ worker' = [worker EXCEPT !.step = worker.step, !.checked = TRUE]
               /\ worker.step \in ExecuteSteps
        BY <1>0, <3>2 DEF CheckCancellation, ExecuteSteps
      <4> QED
        BY <3>1, <4>1 DEF ExecuteSteps
    <3>3. CASE ReadInput \/ Detect \/ Represent \/ Decide \/ FailStep
      BY <3>1, <3>3 DEF ReadInput, Detect, Represent, Decide, FailStep, ExecuteSteps, Guarded
    <3>4. CASE SettleDetections \/ SettleRepresentations \/ PersistDecisions
               \/ CheckpointPrivateOutput
      BY <3>1, <3>4 DEF SettleDetections, SettleRepresentations, PersistDecisions, Settle,
                        CheckpointPrivateOutput, ExecuteSteps, Guarded
    <3> QED
      BY <1>5, <3>2, <3>3, <3>4
  <2>3. worker'.step # "idle" /\ worker'.attempt = w
    BY <1>0, <2>2 DEF ExecuteSteps, Guarded
  <2> QED
    BY <1>2, <2>1, <2>3
<1>6. CASE RecordProviderFallback
  <2>1. worker.step # "idle" /\ UNCHANGED <<run, phase, fault>>
    BY <1>6 DEF RecordProviderFallback
  <2>2. worker'.step # "idle" /\ worker'.attempt = w
    BY <1>0, <1>6 DEF RecordProviderFallback, GoTo
  <2> QED
    BY <1>2, <2>1, <2>2
<1>7. CASE Finalize
  <2>1. worker.step # "idle" /\ UNCHANGED <<phase, fault>>
    BY <1>7 DEF Finalize, At
  <2>2. worker'.step # "idle" /\ worker'.attempt = w
    BY <1>0, <1>7 DEF Finalize, GoTo
  <2>3. \A a \in Attempt \ {w} : run'[a] = run[a]
    BY <1>0, <1>7 DEF Finalize
  <2> QED
    BY <1>2, <2>1, <2>2, <2>3
<1>8. CASE SettleCancellation
  <2>1. /\ w \in Attempt /\ job[w] \in {"RUNNING", "CANCELLING"}
        /\ worker.step # "idle" /\ UNCHANGED <<phase, fault>>
    BY <1>8, Busy DEF SettleCancellation, At
  <2>2. run' = [run EXCEPT ![w] = "CANCELLED"]
    BY <1>8, <2>1, EndWorkEffect DEF SettleCancellation, At
  <2> QED
    BY <1>0, <1>3, <2>1, <2>2
<1>9. CASE SettleFailure
  <2>1. /\ w \in Attempt /\ run[w] = job[w] /\ job[w] \in {"RUNNING", "CANCELLING"}
        /\ worker.step # "idle" /\ UNCHANGED <<phase, fault>>
    BY <1>9, Busy DEF SettleFailure, At
  <2>2. \/ run' = [run EXCEPT ![w] = "FAILED"]
        \/ job[w] # "RUNNING" /\ run' = run
    BY <1>9, EndWorkEffect DEF SettleFailure, At
  <2> QED
    BY <1>0, <1>3, <2>1, <2>2
<1>10. CASE UnexpectedError \/ FailClaimed \/ Abandon
  BY <1>1, <1>10 DEF UnexpectedError, FailClaimed, Abandon, At, IInv, Bookkeeping
<1>11. CASE Accept
  <2>1. /\ w \in Attempt /\ run[w] = "FINALIZING"
        /\ worker.step # "idle" /\ UNCHANGED <<phase, fault>>
    BY <1>11, Busy DEF Accept, At
  <2>2. CASE Acceptable(w)
    BY <1>0, <1>3, <1>11, <2>1, <2>2 DEF Accept, Publish
  <2>3. CASE ~Acceptable(w)
    <3>1. UNCHANGED run /\ worker'.step # "idle" /\ worker'.attempt = w
      BY <1>0, <1>11, <2>3 DEF Accept, GoTo
    <3> QED
      BY <1>2, <2>1, <3>1
  <2> QED
    BY <2>2, <2>3
<1>12. CASE RefuseFinal
  <2>1. /\ w \in Attempt /\ run[w] = "FINALIZING"
        /\ worker.step # "idle" /\ UNCHANGED <<phase, fault>>
    BY <1>12, Busy DEF RefuseFinal, At
  <2>2. run' = [run EXCEPT ![w] = "NOT_RESUMABLE"]
    BY <1>12, <2>1 DEF RefuseFinal
  <2> QED
    BY <1>0, <1>3, <2>1, <2>2
<1>13. CASE Command
  <2>1. UNCHANGED <<phase, fault, worker>>
    BY <1>13 DEF Command, ProcessSource, Retry, Create, Cancel, RecycleSource,
                 RestoreSource, BeginDeletion, FinishDeletion, RecheckOriginal,
                 ChangeCandidates
  <2>2. \A a \in Attempt : run'[a] \in {"RUNNING", "FINALIZING"} => run'[a] = run[a]
    <3>1. ASSUME NEW s, NEW r, NEW p, Create(s, r, p)
          PROVE  \A a \in Attempt : run'[a] \in {"RUNNING", "FINALIZING"} => run'[a] = run[a]
      BY <1>0, <3>1 DEF Create
    <3>2. ASSUME NEW b \in Attempt, Cancel(b)
          PROVE  \A a \in Attempt : run'[a] \in {"RUNNING", "FINALIZING"} => run'[a] = run[a]
      BY <1>0, <3>2 DEF Cancel, CancelTo
    <3>3. ASSUME NEW s \in Source, FinishDeletion(s)
          PROVE  \A a \in Attempt : run'[a] \in {"RUNNING", "FINALIZING"} => run'[a] = run[a]
      BY <1>0, <3>3 DEF FinishDeletion
    <3> QED
      BY <1>13, <3>1, <3>2, <3>3 DEF Command, ProcessSource, Retry, RecycleSource,
            RestoreSource, BeginDeletion, RecheckOriginal, ChangeCandidates
  <2> QED
    BY <1>0, <2>1, <2>2 DEF NoStrandedWork
<1>14. CASE InterruptInFlight
  <2>1. \A a \in Attempt : run'[a] \notin {"RUNNING", "FINALIZING"}
    BY <1>14 DEF InterruptInFlight, Interrupted
  <2> QED
    BY <2>1 DEF NoStrandedWork
<1>15. CASE Crash \/ StartRecovery \/ \E a \in Attempt : AcceptFinalizing(a)
  BY <1>1, <1>15 DEF Crash, StartRecovery, AcceptFinalizing
<1>16. CASE UNCHANGED vars
  BY <1>0, <1>16 DEF vars, NoStrandedWork
<1> HIDE DEF w, Held
<1> QED
  BY <1>4, <1>5, <1>6, <1>7, <1>8, <1>9, <1>10, <1>11, <1>12, <1>13, <1>14, <1>15, <1>16
     DEF Next, WorkerStep, Progress, RecoveryStep

-----------------------------------------------------------------------------
(* The facts the invariants rest on *)

\* Every step keeps the facts the other invariants rest on.
LEMMA BookkeepingNext ==
  ASSUME IInv, [Next]_vars
  PROVE  Bookkeeping'
<1> USE DEF Attempt, None, rows, birth, results, library
<1>0. /\ run \in [Attempt -> RunState] /\ job \in [Attempt -> JobState]
      /\ previous \in [Attempt -> Attempt \cup {None}]
      /\ checkpoint \in [Attempt -> {"NONE", "INTERMEDIATE", "FINAL"}]
      /\ output \in [Attempt -> {"NONE", "DETECTED", "REPRESENTED", "DECIDED",
                                 "ACTIVE", "DELETED"}]
      /\ worker \in [step : Step, checked : BOOLEAN,
                     attempt : Attempt \cup {None}, segment : Nat]
  BY DEF IInv, TypeOK
<1>1. /\ \A b, c \in Attempt : b < c /\ run'[b] = "ABSENT" => run'[c] = "ABSENT"
      /\ \A b \in Attempt : run'[b] = "ABSENT" => previous'[b] = None
  <2>1. ASSUME NEW s, NEW r, NEW p \in Attempt \cup {None}, Create(s, r, p)
        PROVE  <1>1!1 /\ <1>1!2
    BY <1>0, <2>1 DEF Create, IInv, Bookkeeping
  <2>2. ASSUME NEW s \in Source, FinishDeletion(s)
        PROVE  <1>1!1 /\ <1>1!2
    BY <1>0, <2>2 DEF FinishDeletion, IInv, Bookkeeping
  <2>3. ASSUME UNCHANGED previous,
               \A b \in Attempt : run'[b] = "ABSENT" <=> run[b] = "ABSENT"
        PROVE  <1>1!1 /\ <1>1!2
    BY <1>0, <2>3 DEF IInv, Bookkeeping
  <2> QED
    BY <2>1, <2>2, <2>3, RunMoves DEF Edges
<1> DEFINE w == worker.attempt
           Published(a) == run[a] = "FINALIZING" => checkpoint[a] = "FINAL" /\ output[a] = "DECIDED"
           Decided == worker.step = "finalize" => output[worker.attempt] = "DECIDED"
           Faulted == worker.step = "fail_claimed" => fault # "none"
           Rest == (\A a \in Attempt : Published(a)) /\ Decided /\ Faulted
<1> SUFFICES Rest'
  BY <1>1 DEF Bookkeeping
<1>2. Rest
  BY DEF IInv, Bookkeeping
<1>3. ASSUME UNCHANGED <<checkpoint, output, worker, fault>>,
             \A a \in Attempt : run'[a] = "FINALIZING" => run[a] = "FINALIZING"
      PROVE  Rest'
  BY <1>2, <1>3
<1>4. ASSUME UNCHANGED <<run, checkpoint, output>>,
             worker'.step # "finalize", worker'.step = "fail_claimed" => fault' # "none"
      PROVE  Rest'
  BY <1>2, <1>4
<1>5. CASE Command
  <2>1. ASSUME NEW s, NEW r, NEW p, Create(s, r, p)
        PROVE  Rest'
    BY <1>0, <1>3, <2>1 DEF Create
  <2>2. ASSUME NEW a \in Attempt, Cancel(a)
        PROVE  Rest'
    BY <1>0, <1>3, <2>2 DEF Cancel, CancelTo
  <2>3. ASSUME NEW s \in Source, BeginDeletion(s)
        PROVE  Rest'
    <3>1. \A a \in Attempt : run[a] \in InFlight => output'[a] = output[a]
      BY <2>3 DEF BeginDeletion, Hidden, HasWorkInFlight
    <3>2. worker.step = "finalize" => w \in Attempt /\ run[w] \in InFlight
      BY Busy DEF InFlight
    <3> QED
      BY <1>2, <2>3, <3>1, <3>2 DEF BeginDeletion, Hidden, InFlight
  <2>4. ASSUME NEW s \in Source, FinishDeletion(s)
        PROVE  Rest'
    <3>1. \A a \in Attempt :
             \/ run'[a] = "ERASED" /\ sourceOf[a] = s
             \/ run'[a] = run[a] /\ checkpoint'[a] = checkpoint[a] /\ output'[a] = output[a]
      BY <1>0, <2>4 DEF FinishDeletion
    <3>2. worker.step = "finalize" => w \in Attempt /\ sourceOf[w] # s /\ run[w] # "ABSENT"
      BY <2>4, Busy DEF FinishDeletion
    <3>3. worker.step = "finalize" => output'[w] = output[w]
      BY <2>4, <3>2 DEF FinishDeletion
    <3> QED
      BY <1>2, <2>4, <3>1, <3>3 DEF FinishDeletion
  <2>5. ASSUME NEW s \in Source, RecycleSource(s) \/ RestoreSource(s) \/ RecheckOriginal(s)
        PROVE  Rest'
    BY <1>3, <2>5 DEF RecycleSource, RestoreSource, RecheckOriginal
  <2>6. ASSUME NEW a \in Attempt, ChangeCandidates(a)
        PROVE  Rest'
    BY <1>3, <2>6 DEF ChangeCandidates
  <2> HIDE DEF Rest
  <2> QED
    BY <1>5, <2>1, <2>2, <2>3, <2>4, <2>5, <2>6 DEF Command, ProcessSource, Retry
<1>6. CASE Claim
  <2>1. PICK a \in Attempt :
          /\ run' = [run EXCEPT ![a] = "RUNNING"]
          /\ worker' = [step |-> "read_input", checked |-> FALSE,
                        attempt |-> a, segment |-> Len(segments[a]) + 1]
    BY <1>6, ClaimEffect
  <2>2. UNCHANGED <<checkpoint, output>>
    BY <1>6 DEF Claim
  <2>3. worker'.step = "read_input"
    BY <2>1
  <2> QED
    BY <1>0, <1>2, <2>1, <2>2, <2>3
<1>7. CASE CheckCancellation \/ ReadInput \/ Detect \/ Represent \/ FailStep \/ Decide
           \/ RecordProviderFallback \/ UnexpectedError \/ Abandon
  <2>1. UNCHANGED <<run, checkpoint, output>>
    BY <1>7 DEF CheckCancellation, ReadInput, Detect, Represent, FailStep, Decide,
                RecordProviderFallback, UnexpectedError, Abandon
  <2>2. CASE CheckCancellation
    <3>1. \/ worker'.step = "cancel"
          \/ worker'.step = worker.step /\ worker'.attempt = w /\ worker.step \in Guarded
      BY <1>0, <2>2 DEF CheckCancellation, GoTo
    <3>2. worker'.step # "fail_claimed"
      BY <3>1 DEF Guarded
    <3> QED
      BY <1>2, <2>1, <3>1, <3>2
  <2>3. CASE UnexpectedError
    BY <1>0, <1>4, <2>1, <2>3 DEF UnexpectedError, GoTo
  <2>4. CASE Abandon
    BY <1>4, <2>1, <2>4 DEF Abandon, Idle
  <2>5. CASE ReadInput \/ Detect \/ Represent \/ FailStep \/ Decide \/ RecordProviderFallback
    <3>1. worker'.step \notin {"finalize", "fail_claimed"}
      BY <1>0, <2>5 DEF ReadInput, Detect, Represent, FailStep, Decide,
                        RecordProviderFallback, GoTo
    <3> QED
      BY <1>4, <2>1, <3>1
  <2> HIDE DEF Rest
  <2> QED
    BY <1>7, <2>2, <2>3, <2>4, <2>5
<1>8. CASE SettleDetections \/ SettleRepresentations \/ CheckpointPrivateOutput
  <2>1. w \in Attempt /\ run[w] # "FINALIZING"
    BY <1>8, Busy DEF SettleDetections, SettleRepresentations, Settle,
                      CheckpointPrivateOutput, At
  <2>2. UNCHANGED run /\ worker'.step \notin {"finalize", "fail_claimed"}
    BY <1>0, <1>8 DEF SettleDetections, SettleRepresentations, Settle,
                      CheckpointPrivateOutput, GoTo
  <2>3. \A a \in Attempt \ {w} : checkpoint'[a] = checkpoint[a] /\ output'[a] = output[a]
    BY <1>0, <1>8 DEF SettleDetections, SettleRepresentations, Settle,
                      CheckpointPrivateOutput
  <2> QED
    BY <1>2, <2>1, <2>2, <2>3
<1>9. CASE PersistDecisions
  <2>1. w \in Attempt /\ run[w] # "FINALIZING"
    BY <1>9, Busy DEF PersistDecisions, Settle, At
  <2>2. UNCHANGED <<run, checkpoint>>
    BY <1>9 DEF PersistDecisions, Settle
  <2>3. CASE ContextHolds({"RUNNING"})
    <3>1. /\ output' = [output EXCEPT ![w] = "DECIDED"]
          /\ worker'.attempt = w /\ worker'.step = "finalize"
      BY <1>0, <1>9, <2>3 DEF PersistDecisions, Settle, GoTo
    <3> QED
      BY <1>0, <1>2, <2>1, <2>2, <3>1
  <2>4. CASE ~ContextHolds({"RUNNING"})
    BY <1>0, <1>4, <1>9, <2>2, <2>4 DEF PersistDecisions, Settle, GoTo
  <2> QED
    BY <2>3, <2>4
<1>10. CASE Finalize
  <2>1. w \in Attempt /\ worker.step = "finalize"
    BY <1>10, Busy DEF Finalize, At
  <2>2. CASE ContextHolds({"RUNNING"})
    <3>1. /\ run' = [run EXCEPT ![w] = "FINALIZING"]
          /\ checkpoint' = [checkpoint EXCEPT ![w] = "FINAL"]
          /\ UNCHANGED output
          /\ worker'.step = "accept"
      BY <1>0, <1>10, <2>2 DEF Finalize, GoTo
    <3> QED
      BY <1>0, <1>2, <2>1, <3>1
  <2>3. CASE ~ContextHolds({"RUNNING"})
    BY <1>0, <1>4, <1>10, <2>3 DEF Finalize, GoTo
  <2> QED
    BY <2>2, <2>3
<1>11. CASE SettleCancellation \/ SettleFailure \/ FailClaimed
  <2>1. w \in Attempt /\ UNCHANGED <<checkpoint, output>> /\ worker'.step = "idle"
    BY <1>11, Busy DEF SettleCancellation, SettleFailure, FailClaimed, At, Idle
  <2>2. \/ UNCHANGED run
        \/ \E to \in {"CANCELLED", "FAILED"} :
              run' = [run EXCEPT ![worker.attempt] = to]
    BY <1>11, EndWorkEffect DEF SettleCancellation, SettleFailure, FailClaimed, At
  <2>3. \A a \in Attempt : run'[a] = "FINALIZING" => run[a] = "FINALIZING"
    BY <1>0, <2>1, <2>2
  <2> QED
    BY <1>2, <2>1, <2>3
<1>12. ASSUME NEW a \in Attempt, Publish(a), UNCHANGED checkpoint, run[a] = "FINALIZING",
              worker'.step = "idle"
       PROVE  Rest'
  BY <1>0, <1>2, <1>12 DEF Publish
<1>13. CASE Accept \/ RefuseFinal
  <2>1. w \in Attempt /\ run[w] = "FINALIZING"
    BY <1>13, Busy DEF Accept, RefuseFinal, At
  <2>2. CASE RefuseFinal
    BY <1>0, <1>2, <2>1, <2>2 DEF RefuseFinal, Idle
  <2>3. CASE Accept /\ Acceptable(w)
    BY <1>12, <2>1, <2>3 DEF Accept, Idle
  <2>4. CASE Accept /\ ~Acceptable(w)
    BY <1>0, <1>4, <2>4 DEF Accept, GoTo
  <2> QED
    BY <1>13, <2>2, <2>3, <2>4
<1>14. CASE Crash \/ UNCHANGED vars
  BY <1>2, <1>14 DEF Crash, Idle, vars
<1>15. CASE StartRecovery
  BY <1>3, <1>15 DEF StartRecovery
<1>16. CASE InterruptInFlight
  BY <1>3, <1>16 DEF InterruptInFlight, Interrupted
<1>17. ASSUME NEW a \in Attempt, AcceptFinalizing(a)
       PROVE  Rest'
  <2>1. worker.step = "idle" /\ UNCHANGED <<worker, fault, checkpoint>>
    BY <1>17 DEF AcceptFinalizing, IInv, WorkerOwnsItsAttempt
  <2>2. CASE Acceptable(a)
    BY <1>12, <1>17, <2>1, <2>2 DEF AcceptFinalizing
  <2>3. CASE ~Acceptable(a)
    BY <1>0, <1>3, <1>17, <2>1, <2>3 DEF AcceptFinalizing
  <2> QED
    BY <2>2, <2>3
<1> HIDE DEF Rest
<1> QED
  BY <1>5, <1>6, <1>7, <1>8, <1>9, <1>10, <1>11, <1>13, <1>14, <1>15, <1>16, <1>17
     DEF Next, WorkerStep, Progress, RecoveryStep

-----------------------------------------------------------------------------
(* The theorems *)

\* The inductive invariant holds of an empty library.
LEMMA InitInv == Init => IInv
<1> SUFFICES ASSUME Init
             PROVE  IInv
  OBVIOUS
<1> USE ProcessingAssumption DEF Init, Attempt, None, Idle
<1>1. TypeOK
  <2>1. (CHOOSE s \in Source : TRUE) \in Source /\ (CHOOSE r \in Rank : TRUE) \in Rank
    OBVIOUS
  <2> QED
    BY <2>1, EmptySeq DEF TypeOK, JobState, RunState, SourceState, Step, ExecuteSteps
<1>2. JobAndRunAgree
  BY DEF JobAndRunAgree, Settled
<1>3. SegmentsFollowRun
  BY DEF SegmentsFollowRun, RunningSegments
<1>4. OnlyAcceptedOutputIsVisible /\ NoWorkOnLeavingSource /\ RetryChains
  BY DEF OnlyAcceptedOutputIsVisible, NoWorkOnLeavingSource, RetryChains
<1>5. WorkerOwnsItsAttempt /\ NoStrandedWork /\ Bookkeeping
  BY DEF WorkerOwnsItsAttempt, NoStrandedWork, Bookkeeping
<1> QED
  BY <1>1, <1>2, <1>3, <1>4, <1>5 DEF IInv

\* The inductive invariant is preserved by every step.
LEMMA InvNext == IInv /\ [Next]_vars => IInv'
BY TypeNext, AgreeNext, SegmentsNext, VisibleNext, LeavingNext, WorkerNext, StrandedNext,
   RetryNext, BookkeepingNext DEF IInv

\* The inductive invariant: each part needs the others, because a settlement is
\* right only if the executor still owns the attempt whose rows it writes.
THEOREM Invariant == Spec => []IInv
BY InitInv, InvNext, PTL DEF Spec

\* Every state of every execution is one of the declared shape.
THEOREM TypeCorrect == Spec => []TypeOK
<1>1. IInv => TypeOK
  BY DEF IInv
<1> QED
  BY <1>1, Invariant, PTL

\* A job, its run and its intervals are settled together by every writer, across
\* crashes: only a running or cancelling run has a running interval, its last.
THEOREM RowsStayInStep == Spec => []RowsAgree
<1>1. IInv => RowsAgree
  BY DEF IInv, RowsAgree
<1> QED
  BY <1>1, Invariant, PTL

\* Readers see the output of accepted runs of remaining sources and nothing else.
THEOREM VisibleIsAccepted == Spec => []OnlyAcceptedOutputIsVisible
<1>1. IInv => OnlyAcceptedOutputIsVisible
  BY DEF IInv
<1> QED
  BY <1>1, Invariant, PTL

\* A source leaves the library only without work in flight, and gets none later.
THEOREM LeavingSourceIsIdle == Spec => []NoWorkOnLeavingSource
<1>1. IInv => NoWorkOnLeavingSource
  BY DEF IInv
<1> QED
  BY <1>1, Invariant, PTL

\* What the executor settles is the attempt it claimed, whatever commands commit
\* between its transactions; without a defect no attempt stays in progress that
\* nobody is working on.
THEOREM WorkStaysInHand == Spec => []WorkIsInHand
<1>1. IInv => WorkIsInHand
  BY DEF IInv, WorkIsInHand
<1> QED
  BY <1>1, Invariant, PTL

\* Retries form chains of attempts that never produced a result.
THEOREM RetriesFormChains == Spec => []RetryChains
<1>1. IInv => RetryChains
  BY DEF IInv
<1> QED
  BY <1>1, Invariant, PTL

\* An acknowledged cancellation survives everything but deletion.
THEOREM CancellationsAreKept == Spec => CancellationIsKept
<1>1. IInv /\ [Next]_vars =>
         [\A a \in Attempt : run[a] \in {"CANCELLING", "CANCELLED"} =>
             run'[a] \in {run[a], "CANCELLED", "ERASED"}]_vars
  BY CancellationStep
<1> QED
  BY <1>1, Invariant, PTL DEF Spec, CancellationIsKept

\* Between FINALIZING and acceptance no command can invalidate a result except one
\* that changes the identities its decisions name.
THEOREM RefusalsAreAboutIdentities == Spec => LiveRefusalIsAboutIdentities
<1>1. ASSUME IInv, Next, worker.step = "accept", worker'.step = "refuse"
      PROVE  worker.attempt \in stale
  <2>1. /\ worker.attempt \in Attempt
        /\ run[worker.attempt] = "FINALIZING"
        /\ job[worker.attempt] = "RUNNING"
        /\ Processable(sourceOf[worker.attempt])
    BY <1>1, Busy DEF IInv, WorkerOwnsItsAttempt
  <2>2. checkpoint[worker.attempt] = "FINAL" /\ output[worker.attempt] = "DECIDED"
    <3>1. \A a \in Attempt : run[a] = "FINALIZING" =>
             checkpoint[a] = "FINAL" /\ output[a] = "DECIDED"
      BY <1>1 DEF IInv, Bookkeeping
    <3> QED
      BY <2>1, <3>1
  <2>3. Accept \/ UNCHANGED worker \/ worker'.step \in {"idle", "fail_claimed"}
    <3>1. CASE Command
      BY <3>1 DEF Command, ProcessSource, Retry, Create, Cancel, RecycleSource,
                  RestoreSource, BeginDeletion, FinishDeletion, RecheckOriginal,
                  ChangeCandidates
    <3>2. CASE WorkerStep
      BY <1>1, <3>2
         DEF WorkerStep, Progress, Claim, CheckCancellation, ReadInput, Detect, RecordProviderFallback,
             SettleDetections, SettleRepresentations, PersistDecisions, Settle, Represent,
             CheckpointPrivateOutput, Decide, Finalize, FailStep, SettleCancellation,
             SettleFailure, UnexpectedError, FailClaimed, RefuseFinal, Abandon, At,
             ExecuteSteps, Guarded, Idle
    <3>3. CASE Crash \/ StartRecovery \/ RecoveryStep
      BY <3>3 DEF Crash, Idle, StartRecovery, RecoveryStep, InterruptInFlight,
                  AcceptFinalizing
    <3> QED
      BY <1>1, <3>1, <3>2, <3>3 DEF Next
  <2>4. Accept /\ ~Acceptable(worker.attempt)
    BY <1>1, <2>3 DEF Accept, Idle
  <2> QED
    BY <2>1, <2>2, <2>4 DEF Acceptable
<1>2. IInv /\ [Next]_vars =>
         [worker.step = "accept" /\ worker'.step = "refuse" =>
             worker.attempt \in stale]_vars
  BY <1>1
<1> QED
  BY <1>2, Invariant, PTL DEF Spec, LiveRefusalIsAboutIdentities

-----------------------------------------------------------------------------
(* What the refinement mapping shows of a step *)

\* What a step leaves alone when it shows nothing to a reader of the tables.
Unseen == <<sourceOf, previous, output, source, current>>

\* A step that moves no run and touches nothing a reader can see is a stutter.
LEMMA QuietStep ==
  ASSUME UNCHANGED <<run, Unseen>>
  PROVE  UNCHANGED Promise!vars
BY DEF Unseen, Promise!vars, Stages, Visible, Withdrawn

\* A change of state that leaves the stage of the attempt alone is a stutter.
LEMMA SameStage ==
  ASSUME TypeOK, NEW a \in Attempt, NEW state, run' = [run EXCEPT ![a] = state],
         StageOf(state) = StageOf(run[a]), UNCHANGED Unseen
  PROVE  UNCHANGED Promise!vars
<1>1. Stages' = Stages
  BY DEF Stages, TypeOK
<1>2. UNCHANGED <<sourceOf, previous, Visible, current, Withdrawn>>
  BY DEF Unseen, Visible, Withdrawn
<1> QED
  BY <1>1, <1>2 DEF Promise!vars

\* A change of state of one attempt, and of nothing else, moves its stage.
LEMMA StageMoves ==
  ASSUME TypeOK, NEW a \in Attempt, NEW state, run' = [run EXCEPT ![a] = state],
         UNCHANGED Unseen
  PROVE  /\ Stages[a] = StageOf(run[a])
         /\ Stages' = [Stages EXCEPT ![a] = StageOf(state)]
         /\ UNCHANGED <<sourceOf, previous, Visible, current, Withdrawn>>
<1>1. Stages' = [b \in Attempt |-> IF b = a THEN StageOf(state) ELSE StageOf(run[b])]
  BY DEF Stages, TypeOK
<1>2. Stages' = [Stages EXCEPT ![a] = StageOf(state)]
  BY <1>1 DEF Stages
<1>3. UNCHANGED <<sourceOf, previous, Visible, current, Withdrawn>>
  BY DEF Unseen, Visible, Withdrawn
<1> QED
  BY <1>2, <1>3 DEF Stages

\* An attempt that was under way ends without a result: the life cycle drops it.
LEMMA OneDropped ==
  ASSUME TypeOK, NEW a \in Attempt, NEW state, run' = [run EXCEPT ![a] = state],
         StageOf(run[a]) \in {"waiting", "working", "stopping"},
         StageOf(state) = "dropped", UNCHANGED Unseen
  PROVE  Promise!Next
<1>1. /\ Stages[a] = StageOf(run[a])
      /\ Stages' = [Stages EXCEPT ![a] = "dropped"]
      /\ UNCHANGED <<sourceOf, previous, Visible, current, Withdrawn>>
  BY StageMoves
<1>2. Stages' = [b \in Attempt |-> IF b \in {a} THEN "dropped" ELSE Stages[b]]
  BY <1>1 DEF Stages
<1>3. Promise!Drop({a})
  BY <1>1, <1>2 DEF Promise!Drop
<1> QED
  BY <1>3 DEF Promise!Next

-----------------------------------------------------------------------------
(* The commands *)

\* A request or a retry is the request of a new attempt.
LEMMA CreateIsRequest ==
  ASSUME IInv, NEW s \in Source, NEW r, NEW p \in Attempt \cup {None},
         Create(s, r, p), source[s] = "ACTIVE",
         p # None => /\ StageOf(run[p]) = "dropped"
                     /\ sourceOf[p] = s
                     /\ NeverRetried(p)
  PROVE  Promise!Next
<1>1. PICK a \in Attempt : Create(s, r, p)!(a)
  BY DEF Create
<1>2. /\ Stages[a] = "absent"
      /\ Stages' = [Stages EXCEPT ![a] = "waiting"]
  <2>1. Stages' = [b \in Attempt |-> IF b = a THEN "waiting" ELSE StageOf(run[b])]
    BY <1>1 DEF Stages, StageOf, IInv, TypeOK
  <2>2. Stages[a] = "absent"
    BY <1>1 DEF Stages, StageOf
  <2> QED
    BY <2>1, <2>2 DEF Stages
<1>3. s \notin Withdrawn
  BY DEF Withdrawn
<1>4. UNCHANGED <<Visible, current, Withdrawn>>
  BY <1>1 DEF Visible, Withdrawn, results, library
<1>5. p # None => /\ Stages[p] = "dropped"
                  /\ sourceOf[p] = s
                  /\ \A b \in Attempt : previous[b] # p
  BY DEF Stages, NeverRetried
<1>6. Promise!Request(a, s, p)
  BY <1>1, <1>2, <1>3, <1>4, <1>5 DEF Promise!Request
<1> QED
  BY <1>6 DEF Promise!Next

\* Cancelling drops a queued attempt and asks a running one to stop.
LEMMA CancelIsStop ==
  ASSUME IInv, NEW a \in Attempt, Cancel(a)
  PROVE  Promise!Next
<1>1. /\ run' = [run EXCEPT ![a] = CancelTo(a)]
      /\ UNCHANGED Unseen
  BY DEF Cancel, Unseen, birth, results, library
<1>2. CASE job[a] = "QUEUED"
  <2>1. <<job[a], run[a]>> \in Settled
    BY <1>2 DEF Cancel, IInv, JobAndRunAgree
  <2>2. run[a] = "PENDING" /\ CancelTo(a) = "CANCELLED"
    BY <1>2, <2>1 DEF Settled, CancelTo
  <2>3. StageOf(run[a]) = "waiting" /\ StageOf(CancelTo(a)) = "dropped"
    BY <2>2 DEF StageOf
  <2> QED
    BY <1>1, <2>3, OneDropped DEF IInv
<1>3. CASE run[a] = "RUNNING" /\ job[a] = "RUNNING"
  <2>1. StageOf(run[a]) = "working" /\ StageOf(CancelTo(a)) = "stopping"
    BY <1>3 DEF StageOf, CancelTo
  <2>2. /\ Stages[a] = "working"
        /\ Stages' = [Stages EXCEPT ![a] = "stopping"]
        /\ UNCHANGED <<sourceOf, previous, Visible, current, Withdrawn>>
    BY <1>1, <2>1, StageMoves DEF IInv
  <2>3. Promise!Stop(a)
    BY <2>2 DEF Promise!Stop, Promise!Move
  <2> QED
    BY <2>3 DEF Promise!Next
<1> QED
  BY <1>2, <1>3 DEF Cancel

\* The intent of a permanent deletion withdraws the source and its results at once.
LEMMA BeginIsWithdraw ==
  ASSUME IInv, NEW s \in Source, BeginDeletion(s)
  PROVE  Promise!Next
<1>1. UNCHANGED <<run, sourceOf, previous, current>>
  BY DEF BeginDeletion, rows, birth
<1>2. Stages' = Stages
  BY <1>1 DEF Stages
<1>3. s \notin Withdrawn /\ Withdrawn' = Withdrawn \cup {s}
  BY DEF BeginDeletion, Withdrawn, IInv, TypeOK
<1>4. \A a \in Attempt : sourceOf[a] = s =>
         Stages[a] \notin {"waiting", "working", "stopping"}
  <2>1. \A a \in Attempt : sourceOf[a] = s => run[a] \notin InFlight
    BY DEF BeginDeletion, HasWorkInFlight
  <2> QED
    BY <2>1 DEF Stages, StageOf, InFlight
<1>5. Visible' = {a \in Visible : sourceOf[a] # s}
  <2>1. \A a \in Attempt :
           output'[a] = "ACTIVE" <=> output[a] = "ACTIVE" /\ sourceOf[a] # s
    BY DEF BeginDeletion, Hidden
  <2> QED
    BY <2>1 DEF Visible
<1>6. Promise!Withdraw(s)
  BY <1>1, <1>2, <1>3, <1>4, <1>5 DEF Promise!Withdraw
<1> QED
  BY <1>6 DEF Promise!Next

\* The finalization of a permanent deletion erases what nobody could see any more.
LEMMA FinishIsErase ==
  ASSUME IInv, NEW s \in Source, FinishDeletion(s)
  PROVE  Promise!Next
<1> DEFINE gone == {a \in Attempt : sourceOf[a] = s /\ run[a] # "ABSENT"}
<1>1. /\ source[s] = "DELETING"
      /\ source' = [source EXCEPT ![s] = "DELETED"]
      /\ current' = [current EXCEPT ![s] = None]
      /\ run' = [a \in Attempt |-> IF a \in gone THEN "ERASED" ELSE run[a]]
      /\ previous' = [a \in Attempt |-> IF a \in gone THEN None ELSE previous[a]]
      /\ output' = [a \in Attempt |-> IF a \in gone THEN "NONE" ELSE output[a]]
      /\ UNCHANGED sourceOf
  BY DEF FinishDeletion
<1>2. gone = {a \in Attempt : sourceOf[a] = s /\ Stages[a] # "absent"}
  BY DEF Stages, StageOf
<1>3. Stages' = [a \in Attempt |-> IF a \in gone THEN "erased" ELSE Stages[a]]
  BY <1>1 DEF Stages, StageOf
<1>4. s \in Withdrawn /\ Withdrawn' = Withdrawn
  BY <1>1 DEF Withdrawn, IInv, TypeOK
<1>5. Visible' = Visible
  <2>1. \A a \in gone : output[a] # "ACTIVE"
    BY <1>1 DEF IInv, OnlyAcceptedOutputIsVisible
  <2> QED
    BY <1>1, <2>1 DEF Visible
<1>6. Promise!Erase(s)
  <2> HIDE DEF gone
  <2> QED
    BY <1>1, <1>2, <1>3, <1>4, <1>5 DEF Promise!Erase
<1> QED
  BY <1>6 DEF Promise!Next

\* Recycling and restoring withdraw nothing.
LEMMA LeavingIsQuiet ==
  ASSUME IInv, NEW s \in Source, RecycleSource(s) \/ RestoreSource(s)
  PROVE  UNCHANGED Promise!vars
<1>1. UNCHANGED <<run, sourceOf, previous, output, current>>
  BY DEF RecycleSource, RestoreSource, rows, birth, results
<1>2. \E state \in {"ACTIVE", "RECYCLED"} : source' = [source EXCEPT ![s] = state]
  BY DEF RecycleSource, RestoreSource
<1>3. source[s] \in {"ACTIVE", "RECYCLED"}
  BY DEF RecycleSource, RestoreSource
<1>4. Withdrawn' = Withdrawn
  BY <1>2, <1>3 DEF Withdrawn, IInv, TypeOK
<1> QED
  BY <1>1, <1>4 DEF Promise!vars, Stages, Visible

\* Every command is one step of the life cycle, or none.
LEMMA CommandStep ==
  ASSUME IInv, Command
  PROVE  [Promise!Next]_(Promise!vars)
<1>1. ASSUME NEW s \in Source, NEW r \in Rank, ProcessSource(s, r)
      PROVE  Promise!Next
  BY <1>1, CreateIsRequest DEF ProcessSource, Processable
<1>2. ASSUME NEW a \in Attempt, Retry(a)
      PROVE  Promise!Next
  <2>1. StageOf(run[a]) = "dropped" /\ NeverRetried(a)
    BY <1>2 DEF Retry, StageOf
  <2>2. sourceOf[a] \in Source /\ source[sourceOf[a]] = "ACTIVE"
    BY <1>2 DEF Retry, Processable, IInv, TypeOK
  <2> QED
    BY <1>2, <2>1, <2>2, CreateIsRequest DEF Retry
<1>3. ASSUME NEW a \in Attempt, Cancel(a)
      PROVE  Promise!Next
  BY <1>3, CancelIsStop
<1>4. ASSUME NEW a \in Attempt, ChangeCandidates(a)
      PROVE  UNCHANGED Promise!vars
  BY <1>4, QuietStep DEF ChangeCandidates, Unseen, rows, birth, results, library
<1>5. ASSUME NEW s \in Source, RecycleSource(s) \/ RestoreSource(s)
      PROVE  UNCHANGED Promise!vars
  BY <1>5, LeavingIsQuiet
<1>6. ASSUME NEW s \in Source, BeginDeletion(s)
      PROVE  Promise!Next
  BY <1>6, BeginIsWithdraw
<1>7. ASSUME NEW s \in Source, FinishDeletion(s)
      PROVE  Promise!Next
  BY <1>7, FinishIsErase
<1>8. ASSUME NEW s \in Source, RecheckOriginal(s)
      PROVE  UNCHANGED Promise!vars
  BY <1>8, QuietStep DEF RecheckOriginal, Unseen, rows, birth, results, library
<1> QED
  BY <1>1, <1>2, <1>3, <1>4, <1>5, <1>6, <1>7, <1>8 DEF Command
-----------------------------------------------------------------------------
(* The scheduler thread *)

\* While an execution is before its acceptance, its result is not visible.
LEMMA NotYetVisible ==
  ASSUME IInv, worker.step # "idle"
  PROVE  /\ worker.attempt \in Attempt
         /\ output[worker.attempt] # "ACTIVE"
BY Busy DEF IInv, OnlyAcceptedOutputIsVisible

\* Settling private output is not seen by anybody.
LEMMA SettleIsQuiet ==
  ASSUME IInv, NEW step, step # "idle", NEW settled \in {"DETECTED", "REPRESENTED", "DECIDED"},
         NEW next, Settle(step, settled, next)
  PROVE  UNCHANGED Promise!vars
<1> DEFINE a == worker.attempt
<1>1. /\ UNCHANGED <<run, sourceOf, previous, source, current>>
      /\ output' \in {output, [output EXCEPT ![a] = settled]}
  BY DEF Settle, rows, birth, library
<1>2. a \in Attempt /\ output[a] # "ACTIVE"
  BY NotYetVisible DEF Settle, At
<1>3. Visible' = Visible
  BY <1>1, <1>2 DEF Visible, IInv, TypeOK
<1> QED
  BY <1>1, <1>3 DEF Promise!vars, Stages, Withdrawn

\* Publishing an acceptable result shows the whole of it at once.
LEMMA PublishIsPublish ==
  ASSUME IInv, NEW a \in Attempt, Acceptable(a), Publish(a), UNCHANGED <<birth, library>>
  PROVE  Promise!Next
<1>1. Stages[a] = "working"
  BY DEF Acceptable, Stages, StageOf
<1>2. sourceOf[a] \in Source /\ sourceOf[a] \notin Withdrawn
  BY DEF Acceptable, Processable, Withdrawn, IInv, TypeOK
<1>3. Stages' = [Stages EXCEPT ![a] = "published"]
  <2>1. Stages' = [b \in Attempt |-> IF b = a THEN "published" ELSE StageOf(run[b])]
    BY DEF Publish, Stages, StageOf, IInv, TypeOK
  <2> QED
    BY <2>1 DEF Stages
<1>4. Visible' = Visible \cup {a}
  BY DEF Publish, Visible, IInv, TypeOK
<1>5. /\ current' = [current EXCEPT ![sourceOf[a]] = a]
      /\ UNCHANGED <<sourceOf, previous, Withdrawn>>
  BY DEF Publish, birth, library, Withdrawn
<1>6. Promise!Publish(a)
  BY <1>1, <1>2, <1>3, <1>4, <1>5 DEF Promise!Publish
<1> QED
  BY <1>6 DEF Promise!Next

\* Ending work drops the attempt, or finds that it has nothing to end.
LEMMA EndIsDrop ==
  ASSUME IInv, worker.step # "idle", worker.step \notin {"accept", "refuse"},
         NEW i \in {worker.segment, 1},
         NEW from \in {{"RUNNING"}, {"RUNNING", "CANCELLING"}},
         NEW c \in {"COMPLETED", "FAILED"}, NEW to \in {"CANCELLED", "FAILED"},
         EndWork(worker.attempt, i, from, c, to), UNCHANGED Unseen
  PROVE  [Promise!Next]_(Promise!vars)
<1> DEFINE a == worker.attempt
<1>1. CASE run' = [run EXCEPT ![a] = to]
  <2>1. a \in Attempt /\ run[a] \in {"RUNNING", "CANCELLING"}
    BY Busy
  <2>2. StageOf(run[a]) \in {"working", "stopping"} /\ StageOf(to) = "dropped"
    BY <2>1 DEF StageOf
  <2> QED
    BY <1>1, <2>1, <2>2, OneDropped DEF IInv
<1>2. CASE UNCHANGED rows
  BY <1>2, QuietStep DEF rows
<1> QED
  BY <1>1, <1>2, EndWorkEffect

\* A claim starts a waiting attempt.
LEMMA ClaimIsStart ==
  ASSUME IInv, Claim
  PROVE  Promise!Next
<1>1. PICK a \in Attempt : run[a] = "PENDING" /\ run' = [run EXCEPT ![a] = "RUNNING"]
  BY ClaimEffect
<1>2. StageOf(run[a]) = "waiting" /\ StageOf("RUNNING") = "working"
  BY <1>1 DEF StageOf
<1>3. UNCHANGED Unseen
  BY DEF Claim, Unseen, birth, results, library
<1>4. /\ Stages[a] = "waiting"
      /\ Stages' = [Stages EXCEPT ![a] = "working"]
      /\ UNCHANGED <<sourceOf, previous, Visible, current, Withdrawn>>
  BY <1>1, <1>2, <1>3, StageMoves DEF IInv
<1>5. Promise!Start(a)
  BY <1>4 DEF Promise!Start, Promise!Move
<1> QED
  BY <1>5 DEF Promise!Next

\* Publishing the FINAL is still work on the attempt.
LEMMA FinalizeIsQuiet ==
  ASSUME IInv, Finalize
  PROVE  UNCHANGED Promise!vars
<1> DEFINE a == worker.attempt
<1>1. UNCHANGED Unseen
  BY DEF Finalize, Unseen, birth, library
<1>2. CASE ContextHolds({"RUNNING"})
  <2>1. run' = [run EXCEPT ![a] = "FINALIZING"] /\ run[a] = "RUNNING"
    BY <1>2 DEF Finalize, ContextHolds, InputHolds
  <2>2. a \in Attempt
    BY NotYetVisible DEF Finalize, At
  <2>3. StageOf("FINALIZING") = StageOf(run[a])
    BY <2>1 DEF StageOf
  <2> QED
    BY <1>1, <2>1, <2>2, <2>3, SameStage DEF IInv
<1>3. CASE ~ContextHolds({"RUNNING"})
  <2>1. UNCHANGED run
    BY <1>3 DEF Finalize
  <2> QED
    BY <1>1, <2>1, QuietStep
<1> QED
  BY <1>2, <1>3

\* Acceptance publishes the attempt, or leaves it for the refusal.
LEMMA AcceptStep ==
  ASSUME IInv, Accept
  PROVE  [Promise!Next]_(Promise!vars)
<1>1. worker.attempt \in Attempt
  BY NotYetVisible DEF Accept, At
<1>2. CASE Acceptable(worker.attempt)
  <2>1. Publish(worker.attempt) /\ UNCHANGED <<birth, library>>
    BY <1>2 DEF Accept
  <2> QED
    BY <1>1, <1>2, <2>1, PublishIsPublish
<1>3. CASE ~Acceptable(worker.attempt)
  BY <1>3, QuietStep DEF Accept, Unseen, birth, library
<1> QED
  BY <1>2, <1>3

\* A refusal drops the attempt.
LEMMA RefuseIsDrop ==
  ASSUME IInv, RefuseFinal
  PROVE  Promise!Next
<1> DEFINE a == worker.attempt
<1>1. a \in Attempt /\ run[a] = "FINALIZING"
  BY Busy DEF RefuseFinal, At
<1>2. /\ run' = [run EXCEPT ![a] = "NOT_RESUMABLE"]
      /\ UNCHANGED Unseen
  BY <1>1 DEF RefuseFinal, Unseen, birth, results, library
<1>3. StageOf(run[a]) = "working" /\ StageOf("NOT_RESUMABLE") = "dropped"
  BY <1>1 DEF StageOf
<1> QED
  BY <1>1, <1>2, <1>3, OneDropped DEF IInv

\* Every step of the scheduler thread is one step of the life cycle, or none.
LEMMA WorkerImplements ==
  ASSUME IInv, WorkerStep
  PROVE  [Promise!Next]_(Promise!vars)
<1>1. CASE Claim
  BY <1>1, ClaimIsStart
<1>2. CASE CheckCancellation \/ ReadInput \/ Detect \/ Represent \/ Decide \/ FailStep
           \/ UnexpectedError \/ Abandon
  <2>1. UNCHANGED <<rows, birth, results, library, current>>
    BY <1>2, Zenon DEF CheckCancellation, ReadInput, Detect, Represent, Decide, FailStep,
                       UnexpectedError, Abandon
  <2> QED
    BY <2>1, QuietStep DEF Unseen, rows, birth, results, library
<1>3. CASE RecordProviderFallback
  <2>1. UNCHANGED <<run, birth, results, library, current>>
    BY <1>3 DEF RecordProviderFallback
  <2> QED
    BY <2>1, QuietStep DEF Unseen, birth, results, library
<1>4. CASE SettleDetections \/ SettleRepresentations \/ PersistDecisions
  BY <1>4, SettleIsQuiet DEF SettleDetections, SettleRepresentations, PersistDecisions
<1>5. CASE CheckpointPrivateOutput
  <2>1. UNCHANGED <<rows, birth, output, library, current>>
    BY <1>5 DEF CheckpointPrivateOutput
  <2> QED
    BY <2>1, QuietStep DEF Unseen, rows, birth, library
<1>6. CASE Finalize
  BY <1>6, FinalizeIsQuiet
<1>7. CASE SettleCancellation \/ SettleFailure \/ FailClaimed
  <2>1. worker.step \in {"cancel", "fail", "fail_claimed"}
    BY <1>7 DEF SettleCancellation, SettleFailure, FailClaimed, At
  <2>2. UNCHANGED Unseen
    BY <1>7 DEF SettleCancellation, SettleFailure, FailClaimed, Unseen, birth, results,
                library
  <2>3. CASE SettleCancellation
    <3>1. EndWork(worker.attempt, worker.segment, {"RUNNING", "CANCELLING"},
                  "COMPLETED", "CANCELLED")
      BY <2>3 DEF SettleCancellation
    <3> QED
      BY <2>1, <2>2, <3>1, EndIsDrop
  <2>4. CASE SettleFailure
    <3>1. EndWork(worker.attempt, worker.segment, {"RUNNING"}, "FAILED", "FAILED")
      BY <2>4 DEF SettleFailure
    <3> QED
      BY <2>1, <2>2, <3>1, EndIsDrop
  <2>5. CASE FailClaimed
    <3>1. EndWork(worker.attempt, 1, {"RUNNING"}, "FAILED", "FAILED")
      BY <2>5 DEF FailClaimed
    <3> QED
      BY <2>1, <2>2, <3>1, EndIsDrop
  <2> QED
    BY <1>7, <2>3, <2>4, <2>5
<1>8. CASE Accept
  BY <1>8, AcceptStep
<1>9. CASE RefuseFinal
  BY <1>9, RefuseIsDrop
<1> QED
  BY <1>1, <1>2, <1>3, <1>4, <1>5, <1>6, <1>7, <1>8, <1>9 DEF WorkerStep, Progress

-----------------------------------------------------------------------------
(* The process *)

\* A crash and the scan of the originals show nothing.
LEMMA RestartIsQuiet ==
  ASSUME Crash \/ StartRecovery
  PROVE  UNCHANGED Promise!vars
<1>1. UNCHANGED <<run, Unseen>>
  BY DEF Crash, StartRecovery, Unseen, rows, birth, results, library
<1> QED
  BY <1>1, QuietStep

\* Recovery finishes an acceptance or refuses it for good.
LEMMA AcceptFinalizingStep ==
  ASSUME IInv, NEW a \in Attempt, AcceptFinalizing(a)
  PROVE  Promise!Next
<1>1. CASE Acceptable(a)
  <2>1. Publish(a) /\ UNCHANGED <<birth, library>>
    BY <1>1 DEF AcceptFinalizing
  <2> QED
    BY <1>1, <2>1, PublishIsPublish
<1>2. CASE ~Acceptable(a)
  <2>1. /\ run' = [run EXCEPT ![a] = "NOT_RESUMABLE"]
        /\ UNCHANGED Unseen
    BY <1>2 DEF AcceptFinalizing, Unseen, birth, library
  <2>2. StageOf(run[a]) = "working" /\ StageOf("NOT_RESUMABLE") = "dropped"
    BY DEF AcceptFinalizing, StageOf
  <2> QED
    BY <2>1, <2>2, OneDropped DEF IInv
<1> QED
  BY <1>1, <1>2

\* Recovery drops, together, every attempt that was still being worked on.
LEMMA InterruptIsDrop ==
  ASSUME IInv, InterruptInFlight
  PROVE  [Promise!Next]_(Promise!vars)
<1> DEFINE ended == {a \in Attempt : run[a] \in {"RUNNING", "CANCELLING"}}
<1>1. /\ run' = [a \in Attempt |-> Interrupted(run[a])]
      /\ UNCHANGED Unseen
  BY DEF InterruptInFlight, Unseen, birth, results, library
<1>2. \A a \in ended : StageOf(run[a]) \in {"working", "stopping"}
  BY DEF StageOf
<1>3. \A a \in Attempt : StageOf(Interrupted(run[a])) =
         IF a \in ended THEN "dropped" ELSE StageOf(run[a])
  BY DEF StageOf, Interrupted
<1>4. Stages' = [a \in Attempt |-> IF a \in ended THEN "dropped" ELSE Stages[a]]
  BY <1>1, <1>3 DEF Stages
<1>5. UNCHANGED <<sourceOf, previous, Visible, current, Withdrawn>>
  BY <1>1 DEF Unseen, Visible, Withdrawn
<1>6. CASE ended = {}
  <2>1. Stages' = Stages
    BY <1>4, <1>6 DEF Stages
  <2> QED
    BY <1>5, <2>1 DEF Promise!vars
<1>7. CASE ended # {}
  <2>1. Promise!Drop(ended)
    <3>1. \A a \in ended : Stages[a] \in {"waiting", "working", "stopping"}
      BY <1>2 DEF Stages
    <3> QED
      BY <1>4, <1>5, <1>7, <3>1 DEF Promise!Drop
  <2>2. ended \in SUBSET Attempt
    OBVIOUS
  <2> QED
    BY <2>1, <2>2 DEF Promise!Next
<1> QED
  BY <1>6, <1>7

-----------------------------------------------------------------------------
(* The refinement *)

\* The empty library is an empty life cycle.
LEMMA InitImplements == Init => Promise!Init
<1> SUFFICES ASSUME Init PROVE Promise!Init
  OBVIOUS
<1>1. Stages = [a \in Attempt |-> "absent"]
  BY DEF Init, Stages, StageOf
<1>2. Visible = {} /\ Withdrawn = {}
  BY DEF Init, Visible, Withdrawn
<1>3. sourceOf \in [Attempt -> Source]
  BY ProcessingAssumption DEF Init
<1> QED
  BY <1>1, <1>2, <1>3 DEF Init, Promise!Init

\* Every step of the program is one step of the life cycle, or none.
LEMMA NextImplements == IInv /\ [Next]_vars => [Promise!Next]_(Promise!vars)
<1> SUFFICES ASSUME IInv, [Next]_vars PROVE [Promise!Next]_(Promise!vars)
  OBVIOUS
<1>1. CASE Command
  BY <1>1, CommandStep
<1>2. CASE WorkerStep
  BY <1>2, WorkerImplements
<1>3. CASE Crash \/ StartRecovery
  BY <1>3, RestartIsQuiet
<1>4. CASE InterruptInFlight
  BY <1>4, InterruptIsDrop
<1>5. ASSUME NEW a \in Attempt, AcceptFinalizing(a)
      PROVE  Promise!Next
  BY <1>5, AcceptFinalizingStep
<1>6. CASE UNCHANGED vars
  BY <1>6, QuietStep DEF vars, Unseen
<1> QED
  BY <1>1, <1>2, <1>3, <1>4, <1>5, <1>6 DEF Next, RecoveryStep

\* Whatever the threads, the transactions, the commands in between and the restarts
\* do (execute_job.py, runner.py, startup recovery), a reader of the tables sees an
\* attempt live as AttemptLifecycle says: published as a whole or never.
THEOREM Implements == Spec => ImplementsLifecycle
<1>1. Init => Promise!Init
  BY InitImplements
<1>2. IInv /\ [Next]_vars => [Promise!Next]_(Promise!vars)
  BY NextImplements
<1> QED
  BY <1>1, <1>2, Invariant, PTL DEF Spec, ImplementsLifecycle, Promise!Spec
================================================================================

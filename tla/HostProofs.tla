------------------------------- MODULE HostProofs -------------------------------
(* Proofs, for any number of launches, of requests and of jobs, that only one  *)
(* backend works in the library and that no wake of the scheduler is lost.     *)
EXTENDS Host, TLAPS

Opening == {"opening", "recovering", "preparing", "settled"}
Leaving == {"stopping", "closing", "ended"}

\* How far the main task is bounds what the task that opens the library has done.
MainAndBoot(l) ==
    /\ shell[l] = "off" => main[l] = "off"
    /\ main[l] \in {"off", "launched", "killed"} => boot[l] = "none"
    /\ main[l] \notin {"off", "launched", "killed"} => boot[l] # "none"
    /\ boot[l] \in Opening => main[l] \in {"starting", "serving", "draining", "settling"}
    /\ main[l] \in Leaving => boot[l] = "done" /\ state[l] = "SHUTTING_DOWN"
    /\ main[l] \in {"off", "launched"} \/ boot[l] \in {"opening", "recovering", "preparing"}
          => state[l] = "INITIALIZING"

\* Whoever has the library open, or works in it, holds its lock.
WorkerHoldsLock(l) ==
    /\ boot[l] \in {"recovering", "preparing"} => lock = l
    /\ state[l] = "READY" /\ boot[l] # "none" => lock = l
    /\ sched[l] \notin {"none", "done"} => lock = l
    /\ lock = l => Lives(l)

\* The scheduler runs between the open and the close, requests before the shutdown.
WorkIsInTime(l) ==
    /\ sched[l] # "none" => boot[l] = "done" /\ state[l] \in {"READY", "SHUTTING_DOWN"}
    /\ main[l] \in {"closing", "ended"} => sched[l] \in {"none", "done"}
    /\ request[l] # NoRequest => main[l] \in {"serving", "draining"} /\ state[l] = "READY"

\* Already when the loop has found nothing, before it waits.
WakeIsKept(l) ==
    sched[l] \in {"empty", "idle"} /\ ~wakeup[l] /\ ~posted[l] /\ queued > 0
        => \E q \in Request : request[l][q] = "committed"

LaunchInv(l) == MainAndBoot(l) /\ WorkerHoldsLock(l) /\ WorkIsInTime(l) /\ WakeIsKept(l)
IInv == TypeOK /\ \A l \in Launch : LaunchInv(l)

-----------------------------------------------------------------------------
(* A step of one launch and the others *)

SameFor(k) ==
    /\ shell'[k] = shell[k] /\ main'[k] = main[k] /\ boot'[k] = boot[k]
    /\ state'[k] = state[k] /\ sched'[k] = sched[k] /\ wakeup'[k] = wakeup[k]
    /\ posted'[k] = posted[k] /\ request'[k] = request[k]

\* A step of `l` changes nothing of another launch, takes only a free lock, frees
\* only its own, and queues only while it holds it.
StepOf(l) ==
    /\ \A k \in Launch \ {l} : SameFor(k)
    /\ lock' = lock \/ (lock \in {None, l} /\ lock' \in {None, l})
    /\ queued' <= queued \/ lock = l

LEMMA OthersKeepInv ==
  ASSUME IInv, TypeOK', NEW l \in Launch, NEW k \in Launch \ {l}, StepOf(l)
  PROVE  LaunchInv(k)'
<1>1. LaunchInv(k) /\ SameFor(k) /\ queued \in Nat /\ queued' \in Nat /\ k # None
  BY HostAssumption DEF IInv, StepOf, TypeOK
<1>2. MainAndBoot(k)'
  BY <1>1 DEF LaunchInv, MainAndBoot, SameFor
<1>3. WorkerHoldsLock(k)'
  BY <1>1, HostAssumption DEF LaunchInv, WorkerHoldsLock, SameFor, StepOf, Lives
<1>4. WorkIsInTime(k)'
  BY <1>1 DEF LaunchInv, WorkIsInTime, SameFor, NoRequest
<1>5. WakeIsKept(k)'
  <2>1. CASE sched[k] \in {"empty", "idle"}
    <3>1. lock = k
      BY <1>1, <2>1 DEF LaunchInv, WorkerHoldsLock
    <3>2. queued' <= queued
      BY <3>1 DEF StepOf
    <3>3. queued' > 0 => queued > 0
      BY <1>1, <3>2
    <3> QED
      BY <1>1, <3>3 DEF LaunchInv, WakeIsKept, SameFor
  <2>2. CASE sched[k] \notin {"empty", "idle"}
    BY <1>1, <2>2 DEF WakeIsKept, SameFor
  <2> QED
    BY <2>1, <2>2
<1> QED
  BY <1>2, <1>3, <1>4, <1>5 DEF LaunchInv

\* So a step keeps the invariant when it keeps the types and that of its launch.
LEMMA StepKeepsInv ==
  ASSUME IInv, TypeOK', NEW l \in Launch, StepOf(l), LaunchInv(l)'
  PROVE  IInv'
BY OthersKeepInv DEF IInv

-----------------------------------------------------------------------------
-----------------------------------------------------------------------------
(* The main task                                                           *)

LEMMA ServeStep ==
  ASSUME IInv, NEW l \in Launch, Serve(l)
  PROVE  IInv'
<1> USE HostAssumption DEF Serve, MainTo, opening, service, library, IInv, TypeOK,
      LaunchInv
<1>1. TypeOK'
  BY HostAssumption
<1>2. StepOf(l)
  BY DEF StepOf, SameFor
<1>3. MainAndBoot(l)'
  BY DEF MainAndBoot, Leaving
<1>4. WorkerHoldsLock(l)'
  BY DEF WorkerHoldsLock, Lives, Over, MainAndBoot
<1>5. WorkIsInTime(l)'
  BY DEF WorkIsInTime, MainAndBoot
<1>6. WakeIsKept(l)'
  BY DEF WakeIsKept
<1> QED
  BY <1>1, <1>2, <1>3, <1>4, <1>5, <1>6, StepKeepsInv

LEMMA HandshakeStep ==
  ASSUME IInv, NEW l \in Launch, Handshake(l)
  PROVE  IInv'
<1> USE HostAssumption DEF Handshake, MainTo, opening, service, library, IInv,
      TypeOK, LaunchInv
<1>1. TypeOK'
  BY HostAssumption
<1>2. StepOf(l)
  BY DEF StepOf, SameFor
<1>3. MainAndBoot(l)'
  BY DEF MainAndBoot, Leaving
<1>4. WorkerHoldsLock(l)'
  BY DEF WorkerHoldsLock, Lives, Over
<1>5. WorkIsInTime(l)' /\ WakeIsKept(l)'
  BY DEF WorkIsInTime, WakeIsKept
<1> QED
  BY <1>1, <1>2, <1>3, <1>4, <1>5, StepKeepsInv

LEMMA PollStep ==
  ASSUME IInv, NEW l \in Launch, Poll(l)
  PROVE  IInv'
<1> USE HostAssumption DEF Poll, LetGo, MainTo, opening, service, library, IInv,
      TypeOK, LaunchInv
<1>1. TypeOK'
  BY HostAssumption
<1>2. StepOf(l)
  BY DEF StepOf, SameFor
<1>3. MainAndBoot(l)'
  BY DEF MainAndBoot, Leaving
<1>4. WorkerHoldsLock(l)'
  BY DEF WorkerHoldsLock, Lives, Over
<1>5. WorkIsInTime(l)' /\ WakeIsKept(l)'
  BY DEF WorkIsInTime, WakeIsKept
<1> QED
  BY <1>1, <1>2, <1>3, <1>4, <1>5, StepKeepsInv

LEMMA DrainedStep ==
  ASSUME IInv, NEW l \in Launch, Drained(l)
  PROVE  IInv'
<1> USE HostAssumption DEF Drained, NoRequest, MainTo, opening, service, library,
      IInv, TypeOK, LaunchInv
<1>1. TypeOK'
  BY HostAssumption
<1>2. StepOf(l)
  BY DEF StepOf, SameFor
<1>3. MainAndBoot(l)'
  BY DEF MainAndBoot, Leaving
<1>4. WorkerHoldsLock(l)'
  BY DEF WorkerHoldsLock, Lives, Over
<1>5. WorkIsInTime(l)' /\ WakeIsKept(l)'
  BY DEF WorkIsInTime, WakeIsKept
<1> QED
  BY <1>1, <1>2, <1>3, <1>4, <1>5, StepKeepsInv

LEMMA ShutDownStep ==
  ASSUME IInv, NEW l \in Launch, ShutDown(l)
  PROVE  IInv'
<1> USE HostAssumption DEF ShutDown, BootIsOver, MainTo, library, IInv, TypeOK,
      LaunchInv
<1>1. TypeOK'
  BY HostAssumption
<1>2. StepOf(l)
  BY DEF StepOf, SameFor
<1>3. MainAndBoot(l)'
  BY DEF MainAndBoot, Opening
<1>4. WorkerHoldsLock(l)'
  BY DEF WorkerHoldsLock, Lives, Over
<1>5. WorkIsInTime(l)' /\ WakeIsKept(l)'
  BY DEF WorkIsInTime, WakeIsKept
<1> QED
  BY <1>1, <1>2, <1>3, <1>4, <1>5, StepKeepsInv

LEMMA SchedulerStoppedStep ==
  ASSUME IInv, NEW l \in Launch, SchedulerStopped(l)
  PROVE  IInv'
<1> USE HostAssumption DEF SchedulerStopped, MainTo, opening, service, library,
      IInv, TypeOK, LaunchInv
<1>1. TypeOK'
  BY HostAssumption
<1>2. StepOf(l)
  BY DEF StepOf, SameFor
<1>3. MainAndBoot(l)'
  BY DEF MainAndBoot, Leaving
<1>4. WorkerHoldsLock(l)'
  BY DEF WorkerHoldsLock, Lives, Over
<1>5. WorkIsInTime(l)' /\ WakeIsKept(l)'
  BY DEF WorkIsInTime, WakeIsKept
<1> QED
  BY <1>1, <1>2, <1>3, <1>4, <1>5, StepKeepsInv

LEMMA CloseStep ==
  ASSUME IInv, NEW l \in Launch, Close(l)
  PROVE  IInv'
<1> USE HostAssumption DEF Close, MainTo, opening, service, IInv, TypeOK, LaunchInv
<1>1. TypeOK'
  <2>1. main' = [main EXCEPT ![l] = "ended"] /\ "ended" \in Over /\ lock' \in Launch \cup {None}
    BY DEF Over
  <2> QED
    BY <2>1
<1>2. StepOf(l)
  BY DEF StepOf, SameFor
<1>3. MainAndBoot(l)'
  BY DEF MainAndBoot, Leaving
<1>4. WorkerHoldsLock(l)'
  BY DEF WorkerHoldsLock, Lives, Over, WorkIsInTime, MainAndBoot, Leaving
<1>5. WorkIsInTime(l)' /\ WakeIsKept(l)'
  BY DEF WorkIsInTime, WakeIsKept
<1> QED
  BY <1>1, <1>2, <1>3, <1>4, <1>5, StepKeepsInv

-----------------------------------------------------------------------------
(* The task that opens the library                                         *)

LEMMA TakeLockStep ==
  ASSUME IInv, NEW l \in Launch, TakeLock(l)
  PROVE  IInv'
<1> USE HostAssumption DEF TakeLock, opening, Refused, Settles, BootTo, service,
      IInv, TypeOK, LaunchInv
<1>1. TypeOK'
  BY HostAssumption
<1>2. StepOf(l)
  BY DEF StepOf, SameFor
<1>3. MainAndBoot(l)'
  BY DEF MainAndBoot, Opening
<1>4. WorkerHoldsLock(l)'
  BY DEF WorkerHoldsLock, Lives, Over, MainAndBoot, Opening
<1>5. WorkIsInTime(l)'
  BY DEF WorkIsInTime, MainAndBoot
<1>6. WakeIsKept(l)'
  BY DEF WakeIsKept
<1> QED
  BY <1>1, <1>2, <1>3, <1>4, <1>5, <1>6, StepKeepsInv

LEMMA RecoverStep ==
  ASSUME IInv, NEW l \in Launch, Recover(l)
  PROVE  IInv'
<1> USE HostAssumption DEF Recover, BootTo, service, library, IInv, TypeOK,
      LaunchInv
<1>1. TypeOK'
  BY HostAssumption
<1>2. StepOf(l)
  BY DEF StepOf, SameFor
<1>3. MainAndBoot(l)'
  BY DEF MainAndBoot, Opening
<1>4. WorkerHoldsLock(l)'
  BY DEF WorkerHoldsLock, Lives, Over
<1>5. WorkIsInTime(l)' /\ WakeIsKept(l)'
  BY DEF WorkIsInTime, WakeIsKept
<1> QED
  BY <1>1, <1>2, <1>3, <1>4, <1>5, StepKeepsInv

LEMMA OpenFailsStep ==
  ASSUME IInv, NEW l \in Launch, OpenFails(l)
  PROVE  IInv'
<1> USE HostAssumption DEF OpenFails, Settles, service, BootTo, IInv, TypeOK,
      LaunchInv
<1>1. TypeOK'
  BY HostAssumption
<1>2. StepOf(l)
  BY DEF StepOf, SameFor, MainAndBoot, WorkerHoldsLock
<1>3. MainAndBoot(l)'
  BY DEF MainAndBoot, Opening
<1>4. WorkerHoldsLock(l)'
  BY DEF WorkerHoldsLock, WorkIsInTime
<1>5. WorkIsInTime(l)'
  BY DEF WorkIsInTime, MainAndBoot
<1>6. WakeIsKept(l)'
  BY DEF WakeIsKept
<1> QED
  BY <1>1, <1>2, <1>3, <1>4, <1>5, <1>6, StepKeepsInv

LEMMA PrepareStep ==
  ASSUME IInv, NEW l \in Launch, Prepare(l)
  PROVE  IInv'
<1> USE HostAssumption DEF Prepare, Settles, service, library, BootTo, IInv, TypeOK,
      LaunchInv
<1>1. TypeOK'
  BY HostAssumption
<1>2. StepOf(l)
  BY DEF StepOf, SameFor
<1>3. MainAndBoot(l)'
  BY DEF MainAndBoot, Opening
<1>4. WorkerHoldsLock(l)'
  BY DEF WorkerHoldsLock, Lives, Over
<1>5. WorkIsInTime(l)'
  BY DEF WorkIsInTime, MainAndBoot
<1>6. WakeIsKept(l)'
  BY DEF WakeIsKept
<1> QED
  BY <1>1, <1>2, <1>3, <1>4, <1>5, <1>6, StepKeepsInv

LEMMA StartSchedulerStep ==
  ASSUME IInv, NEW l \in Launch, StartScheduler(l)
  PROVE  IInv'
<1> USE HostAssumption DEF StartScheduler, BootTo, library, IInv, TypeOK, LaunchInv
<1>1. TypeOK'
  BY HostAssumption
<1>2. StepOf(l)
  BY DEF StepOf, SameFor
<1>3. MainAndBoot(l)'
  BY DEF MainAndBoot, Opening
<1>4. WorkerHoldsLock(l)'
  BY DEF WorkerHoldsLock, Lives, Over
<1>5. WorkIsInTime(l)'
  BY DEF WorkIsInTime, MainAndBoot, Opening
<1>6. WakeIsKept(l)'
  BY DEF WakeIsKept
<1> QED
  BY <1>1, <1>2, <1>3, <1>4, <1>5, <1>6, StepKeepsInv

-----------------------------------------------------------------------------
(* The scheduler loop                                                      *)

LEMMA LookStep ==
  ASSUME IInv, NEW l \in Launch, Look(l)
  PROVE  IInv'
<1> USE HostAssumption DEF Look, SchedTo, opening, library, IInv, TypeOK, LaunchInv
<1>1. TypeOK'
  <2>1. CASE stopping[l]
    BY <2>1
  <2>2. CASE ~stopping[l]
    BY <2>2
  <2> QED
    BY <2>1, <2>2
<1>2. StepOf(l)
  BY DEF StepOf, SameFor
<1>3. WorkerHoldsLock(l)'
  BY DEF WorkerHoldsLock, Lives, Over
<1>4. MainAndBoot(l)' /\ WorkIsInTime(l)' /\ WakeIsKept(l)'
  BY DEF MainAndBoot, WorkIsInTime, WakeIsKept
<1> QED
  BY <1>1, <1>2, <1>3, <1>4, StepKeepsInv

LEMMA ClaimStep ==
  ASSUME IInv, NEW l \in Launch, Claim(l)
  PROVE  IInv'
<1> USE HostAssumption DEF Claim, SchedTo, opening, IInv, TypeOK, LaunchInv
<1>1. TypeOK'
  BY HostAssumption
<1>2. StepOf(l)
  BY DEF StepOf, SameFor
<1>3. WorkerHoldsLock(l)'
  BY DEF WorkerHoldsLock, Lives, Over
<1>4. MainAndBoot(l)' /\ WorkIsInTime(l)' /\ WakeIsKept(l)'
  BY DEF MainAndBoot, WorkIsInTime, WakeIsKept
<1> QED
  BY <1>1, <1>2, <1>3, <1>4, StepKeepsInv

LEMMA RunEndsStep ==
  ASSUME IInv, NEW l \in Launch, RunEnds(l)
  PROVE  IInv'
<1> USE HostAssumption DEF RunEnds, SchedTo, opening, library, IInv, TypeOK,
      LaunchInv
<1>1. TypeOK'
  BY HostAssumption
<1>2. StepOf(l)
  BY DEF StepOf, SameFor
<1>3. WorkerHoldsLock(l)'
  BY DEF WorkerHoldsLock, Lives, Over
<1>4. MainAndBoot(l)' /\ WorkIsInTime(l)' /\ WakeIsKept(l)'
  BY DEF MainAndBoot, WorkIsInTime, WakeIsKept
<1> QED
  BY <1>1, <1>2, <1>3, <1>4, StepKeepsInv

LEMMA AwaitStep ==
  ASSUME IInv, NEW l \in Launch, Await(l)
  PROVE  IInv'
<1> USE HostAssumption DEF Await, SchedTo, opening, library, IInv, TypeOK, LaunchInv
<1>1. TypeOK'
  BY HostAssumption
<1>2. StepOf(l)
  BY DEF StepOf, SameFor
<1>3. WorkerHoldsLock(l)'
  BY DEF WorkerHoldsLock, Lives, Over
<1>4. MainAndBoot(l)' /\ WorkIsInTime(l)' /\ WakeIsKept(l)'
  BY DEF MainAndBoot, WorkIsInTime, WakeIsKept
<1> QED
  BY <1>1, <1>2, <1>3, <1>4, StepKeepsInv

LEMMA ResumeStep ==
  ASSUME IInv, NEW l \in Launch, Resume(l)
  PROVE  IInv'
<1> USE HostAssumption DEF Resume, SchedTo, opening, library, IInv, TypeOK,
      LaunchInv
<1>1. TypeOK'
  BY HostAssumption
<1>2. StepOf(l)
  BY DEF StepOf, SameFor
<1>3. WorkerHoldsLock(l)'
  BY DEF WorkerHoldsLock, Lives, Over
<1>4. MainAndBoot(l)' /\ WorkIsInTime(l)' /\ WakeIsKept(l)'
  BY DEF MainAndBoot, WorkIsInTime, WakeIsKept
<1> QED
  BY <1>1, <1>2, <1>3, <1>4, StepKeepsInv

LEMMA RunPostedStep ==
  ASSUME IInv, NEW l \in Launch, RunPosted(l)
  PROVE  IInv'
<1> USE HostAssumption DEF RunPosted, Lives, opening, library, Over, IInv, TypeOK,
      LaunchInv
<1>1. TypeOK'
  BY HostAssumption
<1>2. StepOf(l)
  BY DEF StepOf, SameFor
<1>3. MainAndBoot(l)' /\ WorkerHoldsLock(l)' /\ WorkIsInTime(l)' /\ WakeIsKept(l)'
  BY DEF MainAndBoot, WorkerHoldsLock, WorkIsInTime, WakeIsKept
<1> QED
  BY <1>1, <1>2, <1>3, StepKeepsInv

-----------------------------------------------------------------------------
(* The requests                                                            *)

LEMMA BeginRequestStep ==
  ASSUME IInv, NEW l \in Launch, NEW q \in Request, BeginRequest(l, q)
  PROVE  IInv'
<1> USE HostAssumption DEF BeginRequest, RequestTo, opening, service, library, IInv,
      TypeOK, LaunchInv
<1>1. TypeOK'
  BY HostAssumption
<1>2. StepOf(l)
  BY DEF StepOf, SameFor
<1>3. WorkerHoldsLock(l)'
  BY DEF WorkerHoldsLock, Lives, Over
<1>4. MainAndBoot(l)' /\ WorkIsInTime(l)' /\ WakeIsKept(l)'
  BY DEF MainAndBoot, WorkIsInTime, WakeIsKept
<1> QED
  BY <1>1, <1>2, <1>3, <1>4, StepKeepsInv

LEMMA CommitStep ==
  ASSUME IInv, NEW l \in Launch, NEW q \in Request, Commit(l, q)
  PROVE  IInv'
<1> USE HostAssumption DEF Commit, RequestTo, opening, service, IInv, TypeOK,
      LaunchInv
<1>1. TypeOK'
  <2>1. queued' \in 0..MaxJobs
    OBVIOUS
  <2>2. PICK step \in {"none", "committed"} : request' = [request EXCEPT ![l][q] = step]
    OBVIOUS
  <2> QED
    BY <2>1, <2>2
<1>2. StepOf(l)
  BY DEF StepOf, SameFor, WorkIsInTime, WorkerHoldsLock, NoRequest, MainAndBoot
<1>3. WorkerHoldsLock(l)'
  BY DEF WorkerHoldsLock, Lives, Over
<1>4. WorkIsInTime(l)'
  BY DEF WorkIsInTime, NoRequest
<1>5. MainAndBoot(l)' /\ WakeIsKept(l)'
  BY DEF MainAndBoot, WakeIsKept
<1> QED
  BY <1>1, <1>2, <1>3, <1>4, <1>5, StepKeepsInv

LEMMA WakeStep ==
  ASSUME IInv, NEW l \in Launch, NEW q \in Request, Wake(l, q)
  PROVE  IInv'
<1> USE HostAssumption DEF Wake, RequestTo, opening, library, IInv, TypeOK,
      LaunchInv
<1>1. TypeOK'
  BY HostAssumption
<1>2. StepOf(l)
  BY DEF StepOf, SameFor
<1>3. WorkerHoldsLock(l)'
  BY DEF WorkerHoldsLock, Lives, Over
<1>4. WorkIsInTime(l)'
  BY DEF WorkIsInTime, NoRequest
<1>5. WakeIsKept(l)'
  BY DEF WakeIsKept
<1>6. MainAndBoot(l)'
  BY DEF MainAndBoot
<1> QED
  BY <1>1, <1>2, <1>3, <1>4, <1>5, <1>6, StepKeepsInv

-----------------------------------------------------------------------------
(* The shell                                                               *)

LEMMA StartBackendStep ==
  ASSUME IInv, NEW l \in Launch, StartBackend(l)
  PROVE  IInv'
<1> USE HostAssumption DEF StartBackend, ShellRuns, ShellTo, MainTo, opening,
      service, library, IInv, TypeOK, LaunchInv
<1>1. TypeOK'
  BY HostAssumption
<1>2. StepOf(l)
  BY DEF StepOf, SameFor
<1>3. MainAndBoot(l)'
  BY DEF MainAndBoot, Leaving
<1>4. WorkerHoldsLock(l)'
  BY DEF WorkerHoldsLock, Lives, Over
<1>5. WorkIsInTime(l)'
  BY DEF WorkIsInTime, MainAndBoot
<1>6. WakeIsKept(l)'
  BY DEF WakeIsKept
<1> QED
  BY <1>1, <1>2, <1>3, <1>4, <1>5, <1>6, StepKeepsInv
-----------------------------------------------------------------------------
(* The shell, and the end of processes                                     *)

ShellState == {"off", "starting", "announced", "ready", "failed", "stopping", "gone"}

\* A process that is killed leaves nothing behind that the invariant speaks of.
LEMMA KillKeepsInv ==
  ASSUME IInv, NEW l \in Launch, Killed(l),
         NEW s \in ShellState \ {"off"}, shell' = [shell EXCEPT ![l] = s]
  PROVE  IInv'
<1> USE HostAssumption DEF Killed, IInv, TypeOK, LaunchInv
<1>1. TypeOK'
  <2>1. "killed" \in Over /\ NoRequest \in [Request -> {"none", "begun", "committed"}]
    BY DEF Over, NoRequest
  <2>2. lock' \in Launch \cup {None}
    OBVIOUS
  <2>3. /\ main' = [main EXCEPT ![l] = "killed"]
        /\ boot' = [boot EXCEPT ![l] = "none"]
        /\ sched' = [sched EXCEPT ![l] = "none"]
        /\ request' = [request EXCEPT ![l] = NoRequest]
        /\ UNCHANGED <<state, wakeup, posted, stopping, queued>>
    OBVIOUS
  <2> QED
    BY <2>1, <2>2, <2>3 DEF ShellState
<1>2. StepOf(l)
  BY DEF StepOf, SameFor
<1>3. MainAndBoot(l)' /\ WakeIsKept(l)'
  BY DEF MainAndBoot, WakeIsKept, Leaving, Opening
<1>4. WorkerHoldsLock(l)' /\ WorkIsInTime(l)'
  BY DEF WorkerHoldsLock, WorkIsInTime
<1> QED
  BY <1>1, <1>2, <1>3, <1>4, StepKeepsInv

\* Nothing else of a launch depends on how far its shell is once that is started.
LEMMA ShellKeepsInv ==
  ASSUME IInv, NEW l \in Launch, UNCHANGED <<main, opening, service, request, library>>,
         NEW s \in ShellState \ {"off"}, shell' = [shell EXCEPT ![l] = s]
  PROVE  IInv'
<1> USE DEF opening, service, library, IInv, TypeOK, LaunchInv
<1>1. TypeOK'
  BY DEF ShellState
<1>2. StepOf(l)
  BY DEF StepOf, SameFor
<1>3. MainAndBoot(l)' /\ WorkerHoldsLock(l)' /\ WorkIsInTime(l)' /\ WakeIsKept(l)'
  BY DEF MainAndBoot, WorkerHoldsLock, WorkIsInTime, WakeIsKept, Lives
<1> QED
  BY <1>1, <1>2, <1>3, StepKeepsInv

LEMMA ShellStep ==
  ASSUME IInv, NEW l \in Launch,
         \/ ReadHandshake(l) \/ StoreSidecar(l) \/ GiveUp(l)
         \/ Exit(l) \/ Stopped(l) \/ ShellCrash(l) \/ Crash(l)
  PROVE  IInv'
<1> USE DEF ShellTo, ShellState
<1>1. CASE ReadHandshake(l)
  BY <1>1, ShellKeepsInv DEF ReadHandshake
<1>2. CASE StoreSidecar(l)
  BY <1>2, ShellKeepsInv DEF StoreSidecar
<1>3. CASE GiveUp(l)
  BY <1>3, ShellKeepsInv, KillKeepsInv DEF GiveUp
<1>4. CASE Exit(l)
  <2>1. PICK s \in {"stopping", "gone"} : shell' = [shell EXCEPT ![l] = s]
    BY <1>4 DEF Exit
  <2> QED
    BY <1>4, <2>1, ShellKeepsInv DEF Exit
<1>5. CASE Stopped(l)
  BY <1>5, ShellKeepsInv, KillKeepsInv DEF Stopped
<1>6. CASE ShellCrash(l)
  BY <1>6, ShellKeepsInv DEF ShellCrash
<1>7. CASE Crash(l)
  <2>1. shell[l] \in ShellState \ {"off"} /\ shell' = [shell EXCEPT ![l] = shell[l]]
    BY <1>7 DEF Crash, Lives, Over, IInv, TypeOK, LaunchInv, MainAndBoot
  <2> QED
    BY <1>7, <2>1, KillKeepsInv DEF Crash
<1> QED
  BY <1>1, <1>2, <1>3, <1>4, <1>5, <1>6, <1>7

-----------------------------------------------------------------------------
(* The theorems                                                            *)

LEMMA InitEstablishesInv == Init => IInv
<1> SUFFICES ASSUME Init PROVE IInv
  OBVIOUS
<1>1. TypeOK
  BY HostAssumption DEF Init, TypeOK, Over, NoRequest
<1>2. ASSUME NEW l \in Launch PROVE LaunchInv(l)
  BY HostAssumption DEF Init, LaunchInv, MainAndBoot, WorkerHoldsLock, WorkIsInTime,
     WakeIsKept, Opening, Leaving
<1> QED
  BY <1>1, <1>2 DEF IInv

LEMMA NextKeepsInv == IInv /\ [Next]_vars => IInv'
<1> SUFFICES ASSUME IInv, [Next]_vars PROVE IInv'
  OBVIOUS
<1>1. CASE UNCHANGED vars
  BY <1>1 DEF vars, IInv, TypeOK, LaunchInv, MainAndBoot, WorkerHoldsLock, WorkIsInTime,
     WakeIsKept, Lives
<1>2. CASE Next
  <2>1. PICK l \in Launch :
           \/ StartBackend(l) \/ ReadHandshake(l) \/ StoreSidecar(l) \/ GiveUp(l)
           \/ Exit(l) \/ Stopped(l) \/ ShellCrash(l) \/ Crash(l)
           \/ MainSteps(l) \/ BootSteps(l) \/ SchedSteps(l) \/ RunPosted(l)
           \/ \E q \in Request : BeginRequest(l, q) \/ RequestSteps(l, q)
    BY <1>2 DEF Next
  <2>2. CASE MainSteps(l)
    BY <2>2, ServeStep, HandshakeStep, PollStep, DrainedStep, ShutDownStep,
       SchedulerStoppedStep, CloseStep DEF MainSteps
  <2>3. CASE BootSteps(l)
    BY <2>3, TakeLockStep, RecoverStep, OpenFailsStep, PrepareStep, StartSchedulerStep
       DEF BootSteps
  <2>4. CASE SchedSteps(l) \/ RunPosted(l)
    BY <2>4, LookStep, ClaimStep, RunEndsStep, AwaitStep, ResumeStep, RunPostedStep
       DEF SchedSteps
  <2>5. CASE \E q \in Request : BeginRequest(l, q) \/ RequestSteps(l, q)
    BY <2>5, BeginRequestStep, CommitStep, WakeStep DEF RequestSteps
  <2> QED
    BY <2>1, <2>2, <2>3, <2>4, <2>5, StartBackendStep, ShellStep
<1> QED
  BY <1>1, <1>2

\* The open, the scheduler and the requests hold the lock for as long as they may work.
THEOREM Invariant == Spec => []IInv
BY InitEstablishesInv, NextKeepsInv, PTL DEF Spec

\* Every variable of the shell and the backend stays within the states the code names.
THEOREM TypesHold == Spec => []TypeOK
<1>1. IInv => TypeOK
  BY DEF IInv
<1> QED
  BY <1>1, Invariant, PTL

\* Whatever is killed and however launches overlap, threads work in the library only
\* in the one process that lives and holds its lock.
THEOREM OneBackendWorks == Spec => []OneWorker
<1>1. IInv => OneWorker
  <2> SUFFICES ASSUME IInv, NEW l \in Launch, Works(l) PROVE Lives(l) /\ lock = l
    BY DEF OneWorker
  <2>1. WorkerHoldsLock(l) /\ WorkIsInTime(l) /\ MainAndBoot(l)
    BY DEF IInv, LaunchInv
  <2>2. (\E q \in Request : request[l][q] # "none") => request[l] # NoRequest
    BY DEF NoRequest
  <2>3. request[l] # NoRequest => state[l] = "READY" /\ boot[l] # "none"
    BY <2>1 DEF WorkIsInTime, MainAndBoot
  <2>4. lock = l
    BY <2>1, <2>2, <2>3 DEF Works, WorkerHoldsLock
  <2> QED
    BY <2>1, <2>4 DEF WorkerHoldsLock
<1> QED
  BY <1>1, Invariant, PTL

\* A job queued at any moment of a look at the queue is not slept over.
THEOREM WakesAreKept == Spec => []NoWakeIsLost
<1>1. IInv => NoWakeIsLost
  BY DEF IInv, LaunchInv, WakeIsKept, NoWakeIsLost
<1> QED
  BY <1>1, Invariant, PTL
=============================================================================

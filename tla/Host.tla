--------------------------------- MODULE Host ---------------------------------
(***************************************************************************)
(* The processes around a library: the desktop shell starts a backend as   *)
(* its sidecar and stops it; the backend serves, opens the library in a    *)
(* thread, starts the scheduler loop and, once the shell lets go of it,    *)
(* drains and closes.  Shell and backend may be killed at any moment, and  *)
(* the user may start the application again at once, so the backend of an  *)
(* earlier launch may still be at work when the next one opens the library.*)
(*                                                                         *)
(* Inside a backend the main task, the thread that opens the library, the  *)
(* scheduler loop with its call, the requests and the callbacks of the     *)
(* event loop interleave.  What a call does to a run is ProcessingRun, and *)
(* what recovery does is there too: here a job is queued, claimed, over.   *)
(***************************************************************************)
EXTENDS Naturals

CONSTANTS
    Launch,    \* launches of the application, each with a shell and its backend
    Request,   \* threads that serve requests in a backend
    MaxJobs,   \* bound: queued jobs
    None

ASSUME HostAssumption == None \notin Launch /\ MaxJobs \in Nat

VARIABLES
    shell,     \* off, starting, announced, ready, failed, stopping, gone
    main,      \* the backend's main task
    boot,      \* the task that opens the library
    state,     \* LifecycleState, DEGRADED being READY
    sched,     \* the scheduler loop
    wakeup,    \* its asyncio event
    posted,    \* whether a callback that sets the event is on its way
    stopping,  \* SchedulerService._stopping
    request,   \* what each request has done
    lock,      \* the launch whose backend holds the library lock, or None
    queued     \* QUEUED jobs of the library

vars == <<shell, main, boot, state, sched, wakeup, posted, stopping, request,
          lock, queued>>
service == <<sched, wakeup, posted, stopping>>
opening == <<boot, state>>
library == <<lock, queued>>

NoRequest == [q \in Request |-> "none"]
Over == {"off", "ended", "killed"}
Lives(l) == main[l] \notin Over
ShellRuns(l) == shell[l] \notin {"off", "gone"}

TypeOK ==
    /\ shell \in [Launch -> {"off", "starting", "announced", "ready", "failed", "stopping", "gone"}]
    /\ main \in [Launch -> Over \cup {"launched", "starting", "serving", "draining",
                                      "settling", "stopping", "closing"}]
    /\ boot \in [Launch -> {"none", "opening", "recovering", "preparing", "settled", "done"}]
    /\ state \in [Launch -> {"INITIALIZING", "READY", "FAILED", "SHUTTING_DOWN"}]
    /\ sched \in [Launch -> {"none", "top", "calling", "running", "empty", "idle", "erred", "done"}]
    /\ wakeup \in [Launch -> BOOLEAN]
    /\ posted \in [Launch -> BOOLEAN]
    /\ stopping \in [Launch -> BOOLEAN]
    /\ request \in [Launch -> [Request -> {"none", "begun", "committed"}]]
    /\ lock \in Launch \cup {None}
    /\ queued \in 0..MaxJobs

Init ==
    /\ shell = [l \in Launch |-> "off"]
    /\ main = [l \in Launch |-> "off"]
    /\ boot = [l \in Launch |-> "none"]
    /\ state = [l \in Launch |-> "INITIALIZING"]
    /\ sched = [l \in Launch |-> "none"]
    /\ wakeup = [l \in Launch |-> FALSE]
    /\ posted = [l \in Launch |-> FALSE]
    /\ stopping = [l \in Launch |-> FALSE]
    /\ request = [l \in Launch |-> NoRequest]
    /\ lock = None
    /\ queued = 0

\* A process that is killed runs nothing any more, and the operating system frees
\* its lock.
Killed(l) ==
    /\ main' = [main EXCEPT ![l] = "killed"]
    /\ boot' = [boot EXCEPT ![l] = "none"]
    /\ sched' = [sched EXCEPT ![l] = "none"]
    /\ request' = [request EXCEPT ![l] = NoRequest]
    /\ lock' = IF lock = l THEN None ELSE lock
    /\ UNCHANGED <<state, wakeup, posted, stopping, queued>>

-----------------------------------------------------------------------------
(* The shell                                                               *)

ShellTo(l, step) == shell' = [shell EXCEPT ![l] = step]
MainTo(l, step) == main' = [main EXCEPT ![l] = step]

\* A second launch reaches the shell that runs; only when none does, one starts.
StartBackend(l) ==
    /\ shell[l] = "off" /\ \A k \in Launch : ~ShellRuns(k)
    /\ ShellTo(l, "starting")
    /\ MainTo(l, "launched")
    /\ UNCHANGED <<opening, service, request, library>>

\* The status is Ready before the sidecar is stored.
ReadHandshake(l) ==
    /\ shell[l] = "starting" /\ main[l] = "serving"
    /\ ShellTo(l, "announced")
    /\ UNCHANGED <<main, opening, service, request, library>>

StoreSidecar(l) ==
    /\ shell[l] = "announced"
    /\ ShellTo(l, "ready")
    /\ UNCHANGED <<main, opening, service, request, library>>

\* No handshake in time, or the host has ended: it is killed before start returns.
GiveUp(l) ==
    /\ shell[l] = "starting"
    /\ ShellTo(l, "failed")
    /\ IF Lives(l) THEN Killed(l) ELSE UNCHANGED <<main, opening, service, request, library>>

\* The window is closed: a stored sidecar is asked to stop (its pipe is closed);
\* one that is not stored yet is left to notice that the shell is gone.
Exit(l) ==
    /\ shell[l] \in {"starting", "announced", "ready", "failed"}
    /\ ShellTo(l, IF shell[l] = "ready" THEN "stopping" ELSE "gone")
    /\ UNCHANGED <<main, opening, service, request, library>>

\* It ended in time, or it is ended.
Stopped(l) ==
    /\ shell[l] = "stopping"
    /\ ShellTo(l, "gone")
    /\ IF Lives(l) THEN Killed(l) ELSE UNCHANGED <<main, opening, service, request, library>>

ShellCrash(l) ==
    /\ ShellRuns(l)
    /\ ShellTo(l, "gone")
    /\ UNCHANGED <<main, opening, service, request, library>>

-----------------------------------------------------------------------------
(* The main task of the backend                                            *)

Crash(l) ==
    /\ Lives(l)
    /\ Killed(l)
    /\ UNCHANGED shell

\* The lifespan starts the task that opens the library and does not wait for it.
Serve(l) ==
    /\ main[l] = "launched"
    /\ MainTo(l, "starting")
    /\ boot' = [boot EXCEPT ![l] = "opening"]
    /\ UNCHANGED <<shell, state, service, request, library>>

\* The line cannot be written when nobody holds the other end of the pipe.
Handshake(l) ==
    /\ main[l] = "starting"
    /\ MainTo(l, IF shell[l] = "gone" THEN "draining" ELSE "serving")
    /\ UNCHANGED <<shell, opening, service, request, library>>

\* Variant: only the shell's request to stop is noticed, not its end.
Asked(l) == shell[l] = "stopping"
\* The pipe on its standard input is closed, or the shell's process is gone.
LetGo(l) == shell[l] \in {"stopping", "gone"}

Poll(l) ==
    /\ main[l] = "serving" /\ LetGo(l)
    /\ MainTo(l, "draining")
    /\ UNCHANGED <<shell, opening, service, request, library>>

\* The server accepts nothing more and lets the requests in flight finish.
Drained(l) ==
    /\ main[l] = "draining" /\ request[l] = NoRequest
    /\ MainTo(l, "settling")
    /\ UNCHANGED <<shell, opening, service, request, library>>

\* Variant: the open is not waited for.
BootMayRun(l) == TRUE
\* A blocking open cannot be interrupted: the lifespan lets it finish.
BootIsOver(l) == boot[l] = "done"

ShutDown(l) ==
    /\ main[l] = "settling" /\ BootIsOver(l)
    /\ state' = [state EXCEPT ![l] = "SHUTTING_DOWN"]
    /\ IF sched[l] = "none"
       THEN MainTo(l, "closing") /\ UNCHANGED <<posted, stopping>>
       ELSE /\ MainTo(l, "stopping")
            /\ stopping' = [stopping EXCEPT ![l] = TRUE]
            /\ posted' = [posted EXCEPT ![l] = TRUE]
    /\ UNCHANGED <<shell, boot, sched, wakeup, request, library>>

\* stop awaits the task, so the call in flight finishes.
SchedulerStopped(l) ==
    /\ main[l] = "stopping" /\ sched[l] = "done"
    /\ MainTo(l, "closing")
    /\ UNCHANGED <<shell, opening, service, request, library>>

\* The workers stop, whatever that raises, and the library is closed if it was opened.
Close(l) ==
    /\ main[l] = "closing"
    /\ MainTo(l, "ended")
    /\ lock' = IF lock = l THEN None ELSE lock
    /\ UNCHANGED <<shell, opening, service, request, queued>>

-----------------------------------------------------------------------------
(* Opening the library                                                     *)

BootTo(l, step) == boot' = [boot EXCEPT ![l] = step]
Settles(l, to) == BootTo(l, "settled") /\ state' = [state EXCEPT ![l] = to]

\* A root of the library or of the local state cannot be used.
Refused(l) == Settles(l, "FAILED") /\ UNCHANGED lock

\* The lock is taken before anything is changed; a held one is not waited for.
TakeLock(l) ==
    /\ boot[l] = "opening"
    /\ \/ Refused(l)
       \/ lock # None /\ Settles(l, "FAILED") /\ UNCHANGED lock
       \/ lock = None /\ lock' = l /\ BootTo(l, "recovering") /\ UNCHANGED state
    /\ UNCHANGED <<shell, main, service, request, queued>>

\* Migrations, then recovery.
Recover(l) ==
    /\ boot[l] = "recovering"
    /\ BootTo(l, "preparing")
    /\ UNCHANGED <<shell, main, state, service, request, library>>

\* A step of the open raised: nothing of the library stays held.
OpenFails(l) ==
    /\ boot[l] = "recovering"
    /\ Settles(l, "FAILED")
    /\ lock' = None
    /\ UNCHANGED <<shell, main, service, request, queued>>

\* Profile, interrupted deletions, packages.  A failure leaves the library open.
Prepare(l) ==
    /\ boot[l] = "preparing"
    /\ \E to \in {"READY", "FAILED"} : Settles(l, to)
    /\ UNCHANGED <<shell, main, service, request, library>>

StartScheduler(l) ==
    /\ boot[l] = "settled"
    /\ BootTo(l, "done")
    /\ sched' = [sched EXCEPT ![l] = IF state[l] = "READY" THEN "top" ELSE @]
    /\ UNCHANGED <<shell, main, state, wakeup, posted, stopping, request, library>>

-----------------------------------------------------------------------------
(* The scheduler loop                                                      *)

SchedTo(l, step) == sched' = [sched EXCEPT ![l] = step]

\* The event is cleared before the call.
Look(l) ==
    /\ sched[l] = "top"
    /\ IF stopping[l]
       THEN SchedTo(l, "done") /\ UNCHANGED wakeup
       ELSE SchedTo(l, "calling") /\ wakeup' = [wakeup EXCEPT ![l] = FALSE]
    /\ UNCHANGED <<shell, main, opening, posted, stopping, request, library>>

Claim(l) ==
    /\ sched[l] = "calling"
    /\ \/ queued > 0 /\ queued' = queued - 1 /\ SchedTo(l, "running")
       \/ queued = 0 /\ SchedTo(l, "empty") /\ UNCHANGED queued
       \/ SchedTo(l, "erred") /\ UNCHANGED queued
    /\ UNCHANGED <<shell, main, opening, wakeup, posted, stopping, request, lock>>

\* The run is over, however it ended; after a defect the loop waits.
RunEnds(l) ==
    /\ sched[l] = "running"
    /\ \E next \in {"top", "erred"} : SchedTo(l, next)
    /\ UNCHANGED <<shell, main, opening, wakeup, posted, stopping, request, library>>

\* Variant: the event is cleared when there was nothing, before the wait.
AwaitAfresh(l) ==
    /\ sched[l] = "empty"
    /\ SchedTo(l, "idle")
    /\ wakeup' = [wakeup EXCEPT ![l] = FALSE]
    /\ UNCHANGED <<shell, main, opening, posted, stopping, request, library>>
\* The call has returned to the event loop, which waits for a wake or the interval.
Await(l) ==
    /\ sched[l] = "empty"
    /\ SchedTo(l, "idle")
    /\ UNCHANGED <<shell, main, opening, wakeup, posted, stopping, request, library>>

\* The interval may be over at any time.
Resume(l) ==
    /\ sched[l] \in {"idle", "erred"}
    /\ SchedTo(l, "top")
    /\ UNCHANGED <<shell, main, opening, wakeup, posted, stopping, request, library>>

\* call_soon_threadsafe: the event loop sets the event some time later.
RunPosted(l) ==
    /\ Lives(l) /\ posted[l]
    /\ posted' = [posted EXCEPT ![l] = FALSE]
    /\ wakeup' = [wakeup EXCEPT ![l] = TRUE]
    /\ UNCHANGED <<shell, main, opening, sched, stopping, request, library>>

-----------------------------------------------------------------------------
(* Requests                                                                *)

RequestTo(l, q, step) == request' = [request EXCEPT ![l][q] = step]

\* require_library: the library is asked for once, at the start.
BeginRequest(l, q) ==
    /\ main[l] = "serving" /\ state[l] = "READY" /\ request[l][q] = "none"
    /\ RequestTo(l, q, "begun")
    /\ UNCHANGED <<shell, main, opening, service, library>>

\* A request that queues a job, or one that does not.
Commit(l, q) ==
    /\ request[l][q] = "begun"
    /\ \/ queued < MaxJobs /\ queued' = queued + 1 /\ RequestTo(l, q, "committed")
       \/ RequestTo(l, q, "none") /\ UNCHANGED queued
    /\ UNCHANGED <<shell, main, opening, service, lock>>

\* Before the loop has started there is nothing to wake.
Wake(l, q) ==
    /\ request[l][q] = "committed"
    /\ posted' = [posted EXCEPT ![l] = @ \/ sched[l] # "none"]
    /\ RequestTo(l, q, "none")
    /\ UNCHANGED <<shell, main, opening, sched, wakeup, stopping, library>>

-----------------------------------------------------------------------------
MainSteps(l) == Serve(l) \/ Handshake(l) \/ Poll(l) \/ Drained(l) \/ ShutDown(l)
                \/ SchedulerStopped(l) \/ Close(l)
BootSteps(l) == TakeLock(l) \/ Recover(l) \/ OpenFails(l) \/ Prepare(l) \/ StartScheduler(l)
SchedSteps(l) == Look(l) \/ Claim(l) \/ RunEnds(l) \/ Await(l) \/ Resume(l)
RequestSteps(l, q) == Commit(l, q) \/ Wake(l, q)

Next ==
    \E l \in Launch :
       \/ StartBackend(l) \/ ReadHandshake(l) \/ StoreSidecar(l) \/ GiveUp(l)
       \/ Exit(l) \/ Stopped(l) \/ ShellCrash(l) \/ Crash(l)
       \/ MainSteps(l) \/ BootSteps(l) \/ SchedSteps(l) \/ RunPosted(l)
       \/ \E q \in Request : BeginRequest(l, q) \/ RequestSteps(l, q)

\* Tasks, threads and callbacks of a process run, and the grace of a stop ends.
\* Nothing makes the user close a window, and nothing makes a process crash.
Fairness ==
    \A l \in Launch :
       /\ WF_vars(MainSteps(l)) /\ WF_vars(BootSteps(l)) /\ WF_vars(SchedSteps(l))
       /\ WF_vars(RunPosted(l)) /\ WF_vars(Stopped(l))
       /\ \A q \in Request : WF_vars(RequestSteps(l, q))

Spec == Init /\ [][Next]_vars
FairSpec == Spec /\ Fairness

-----------------------------------------------------------------------------
(* Properties                                                              *)

\* Whoever works in the library.
Works(l) ==
    \/ boot[l] \in {"recovering", "preparing"}
    \/ sched[l] \in {"calling", "running"}
    \/ \E q \in Request : request[l][q] # "none"

\* Threads work in the library only while their process lives and holds its lock,
\* also when the backend is asked to stop in the middle of an open, a request or a
\* run: so recovery never meets live work of another launch, and a clean stop cuts
\* nothing off (startup.py backend_lifespan and _shutdown, scheduler.py stop).
OneWorker == \A l \in Launch : Works(l) => Lives(l) /\ lock = l

\* When the loop waits after it has found nothing, with no wake on its way, then no
\* job is queued that nobody is about to wake it for: work that is queued at any
\* moment of a look is looked at promptly (scheduler.py, "a wake is not lost").
NoWakeIsLost ==
    \A l \in Launch :
        sched[l] = "idle" /\ ~wakeup[l] /\ ~posted[l] /\ queued > 0
            => \E q \in Request : request[l][q] = "committed"

\* A backend ends when its shell lets go of it or is gone, wherever both are: no
\* backend is left behind that keeps the library from the next launch (host.py serve).
EveryBackendEnds ==
    \A l \in Launch : shell[l] \in {"stopping", "gone"} ~> main[l] \in {"ended", "killed"}
=============================================================================

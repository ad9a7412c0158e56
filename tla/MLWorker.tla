------------------------------ MODULE MLWorker ------------------------------
(***************************************************************************)
(* The one machine-learning worker and the callers that share it: the      *)
(* turn-taking lease (ml/supervisor/lease.py), the supervisors that start, *)
(* question, kill and stop worker processes (ml/supervisor/supervisor.py), *)
(* the worker's own loop at the other end of the pipe (ml/worker/loop.py), *)
(* the client that tries the planned variants and frees what it was given  *)
(* (app/runtime/perception_client.py) and the pool that closes it all      *)
(* (api/real.py).                                                          *)
(*                                                                         *)
(* A step is what one thread does between two points where it may wait: a  *)
(* condition, a supervisor's lock, a frame from the pipe.  Pixels, boxes   *)
(* and vectors are left out; of a message the model keeps its type, the    *)
(* request it belongs to and how it ended.  Time is a choice: whoever      *)
(* waits for a frame that is not there may stop waiting, and any number of *)
(* the oldest failures may have left the restart window.                   *)
(***************************************************************************)
EXTENDS Naturals, Sequences, FiniteSets, SequencesExt

CONSTANTS
    Interactive,   \* callers a person waits for: a search by face
    Background,    \* callers of processing runs
    Plans,         \* perception plans, each with a supervisor of its own
    PlanOf,        \* [Callers -> Plans]
    VariantsOf,    \* [Plans -> Nat]: how many variants a plan offers, best first
    Burst,         \* interactive turns in a row while a background one waits
    MaxRestarts,   \* failures inside the window that are still forgiven
    MaxPings,      \* [Plans -> Nat]: bound on the health checks of a supervisor
    None           \* no caller

Callers == Interactive \cup Background
Classes == {"interactive", "background"}
Class(c) == IF c \in Interactive THEN "interactive" ELSE "background"

ASSUME CallersAssumption == Interactive \cap Background = {} /\ None \notin Callers
ASSUME PlanAssumption == PlanOf \in [Callers -> Plans]
ASSUME BoundsAssumption ==
    /\ Burst \in Nat \ {0} /\ MaxRestarts \in Nat
    /\ MaxPings \in [Plans -> Nat] /\ VariantsOf \in [Plans -> Nat \ {0}]

Ops == {"detect", "represent"}
Results == {"success", "wrong", "no_provider", "error"}
FrameTypes == {"HELLO", "INITIALIZE", "READY", "EXECUTE", "RESPONSE",
               "RELEASE_OUTPUT", "PING", "PONG", "SHUTDOWN", "SHUTDOWN_ACK"}
Awaited == {"HELLO", "READY", "RESPONSE", "PONG", "SHUTDOWN_ACK"}

VARIABLES
    waiting,   \* the lease: class -> tickets in order of arrival
    holder,    \* the caller whose turn it is
    streak,    \* interactive turns since the last background one, up to Burst
    passed,    \* history: interactive turns taken past the background head,
               \* counted up to one more than Burst
    closed,    \* the lease refuses everyone
    call,      \* caller -> where its call stands, with operation and variant
    ruledOut,  \* caller -> variants its client has ruled out, during a call
    sup,       \* plan -> supervisor: state, failures, the frame it waits for
    worker,    \* plan -> worker process, its pipe and the outputs it keeps
    pool       \* how far the shutdown of the pool has come

lease == <<waiting, holder, streak, passed, closed>>
vars == <<lease, call, ruledOut, sup, worker, pool>>

-----------------------------------------------------------------------------
(* Messages.                                                               *)

Idle == [step |-> "idle", op |-> "detect", variant |-> 0]
RequestFor(c, v) == [caller |-> c, variant |-> v, op |-> call[c].op]
Request(c) == RequestFor(c, call[c].variant)
NoRequest == [caller |-> None, variant |-> 0, op |-> "detect"]
Frame(type, request, result) == [type |-> type, request |-> request, result |-> result]
Signal(type) == Frame(type, NoRequest, "success")
Execute(request) == Frame("EXECUTE", request, "success")
Response(request, result) == Frame("RESPONSE", request, result)

(* An answer counts only for the request it names. *)
Answers(frame, request) == frame.request = request

(* Only a representation comes back in segments the worker made; a handler  *)
(* that fails leaves nothing of what it made.                              *)
Made(request, result) ==
    IF request.op = "represent" /\ result \in {"success", "wrong"} THEN {request} ELSE {}

-----------------------------------------------------------------------------
(* The worker process as its supervisor holds it.                          *)

NoWorker == [phase |-> "none", job |-> NoRequest, todo |-> <<>>, said |-> <<>>,
             outputs |-> {}]
Spawned == [NoWorker EXCEPT !.phase = "loading"]
Gone(w) == [w EXCEPT !.phase = "gone", !.outputs = {}, !.todo = <<>>, !.job = NoRequest]
IsAlive(w) == w.phase \notin {"none", "gone"}
Told(w, frame) == IF IsAlive(w) THEN [w EXCEPT !.todo = Append(@, frame)] ELSE w
Says(w, frame) == [w EXCEPT !.said = Append(@, frame)]

Init ==
    /\ waiting = [k \in Classes |-> <<>>]
    /\ holder = None /\ streak = 0 /\ passed = 0 /\ closed = FALSE
    /\ call = [c \in Callers |-> Idle]
    /\ ruledOut = [c \in Callers |-> {}]
    /\ sup = [p \in Plans |-> [state |-> "STOPPED", failures |-> 0, pings |-> 0,
                             await |-> "none"]]
    /\ worker = [p \in Plans |-> NoWorker]
    /\ pool = "open"

-----------------------------------------------------------------------------
(* The lease.                                                              *)

(* A call begins: the client puts its image in a segment and asks for a    *)
(* turn; a closed lease refuses at once and the call is over.              *)
Enter(c, op) ==
    /\ call[c].step = "idle" /\ ~closed
    /\ call' = [call EXCEPT ![c] = [step |-> "queued", op |-> op, variant |-> 0]]
    /\ waiting' = [waiting EXCEPT ![Class(c)] = Append(@, c)]
    /\ UNCHANGED <<holder, streak, passed, closed, ruledOut, sup, worker, pool>>

(* Which class the next ticket comes from. *)
InteractiveAlways == waiting["interactive"] # <<>>   \* a burst without end
InteractiveNext ==
    /\ waiting["interactive"] # <<>>
    /\ waiting["background"] = <<>> \/ streak < Burst

IsNext(c) ==
    IF InteractiveNext THEN c = Head(waiting["interactive"])
    ELSE waiting["background"] # <<>> /\ c = Head(waiting["background"])

(* Nobody is past the lease. *)
FreeOrNot == TRUE   \* the turn is given without looking
Free == holder = None

(* The client of a call is new, or had earlier calls in which it ruled out *)
(* its first n variants; that is first read when its turn comes.           *)
Grant(c) ==
    /\ call[c].step = "queued" /\ ~closed
    /\ Free /\ IsNext(c)
    /\ waiting' = [waiting EXCEPT ![Class(c)] = Tail(@)]
    /\ holder' = c
    /\ IF c \in Interactive
       THEN /\ streak' = IF streak < Burst THEN streak + 1 ELSE Burst
            /\ passed' = IF waiting["background"] = <<>> THEN 0
                         ELSE IF passed > Burst THEN passed ELSE passed + 1
       ELSE streak' = 0 /\ passed' = 0
    /\ call' = [call EXCEPT ![c].step = "choose"]
    /\ \E n \in 0..VariantsOf[PlanOf[c]] : ruledOut' = [ruledOut EXCEPT ![c] = 1..n]
    /\ UNCHANGED <<closed, sup, worker, pool>>

(* A waiter that wakes to a closed lease takes its ticket with it. *)
Refuse(c) ==
    /\ call[c].step = "queued" /\ closed
    /\ waiting' = [waiting EXCEPT ![Class(c)] = RemoveFirst(@, c)]
    /\ call' = [call EXCEPT ![c] = Idle]
    /\ UNCHANGED <<holder, streak, passed, closed, ruledOut, sup, worker, pool>>

(* The end of the lease's body, by return or by exception. *)
Leave(c) ==
    /\ call[c].step = "leave"
    /\ holder' = None
    /\ call' = [call EXCEPT ![c] = Idle] /\ ruledOut' = [ruledOut EXCEPT ![c] = {}]
    /\ UNCHANGED <<waiting, streak, passed, closed, sup, worker, pool>>

-----------------------------------------------------------------------------
(* The supervisor.  Its lock is held from a request to the answer, so a    *)
(* supervisor that waits for a frame is closed to everybody else.          *)

Unlocked(p) == sup[p].await = "none"

(* A failure at the end of a window that still holds `kept` earlier ones. *)
Recorded(s, kept) ==
    [s EXCEPT !.state = IF kept + 1 > MaxRestarts THEN "FAILED" ELSE "UNAVAILABLE",
              !.failures = kept + 1, !.await = "none"]

(* Kill the worker and record why: its pipe, its frames and its outputs go *)
(* with it.                                                                *)
RecordFailureOnly(p) ==   \* the worker is left running
    /\ \E kept \in 0..sup[p].failures : sup' = [sup EXCEPT ![p] = Recorded(@, kept)]
    /\ UNCHANGED worker
RecordFailure(p) ==
    /\ \E kept \in 0..sup[p].failures : sup' = [sup EXCEPT ![p] = Recorded(@, kept)]
    /\ worker' = [worker EXCEPT ![p] = NoWorker]

(* Where a new process may be started. *)
MayLaunch(p) == sup[p].state \in {"STOPPED", "UNAVAILABLE"}

(* Start a process for caller c and wait for it to introduce itself; the   *)
(* operating system may refuse.                                            *)
Launch(c, v, failures) ==
    LET p == PlanOf[c] IN
    \/ /\ sup' = [sup EXCEPT ![p].state = "STARTING", ![p].failures = failures,
                             ![p].await = "HELLO"]
       /\ worker' = [worker EXCEPT ![p] = Spawned]
       /\ call' = [call EXCEPT ![c].step = "sent", ![c].variant = v]
    \/ /\ \E kept \in 0..failures : sup' = [sup EXCEPT ![p] = Recorded(@, kept)]
       /\ worker' = [worker EXCEPT ![p] = NoWorker]
       /\ call' = [call EXCEPT ![c].step = "leave"]

(* The first variant this client has not ruled out. *)
Candidate(c, v) == v \notin ruledOut[c] /\ \A u \in 1..(v - 1) : u \in ruledOut[c]

Ask(c) ==
    LET p == PlanOf[c] IN
    /\ call[c].step = "choose" /\ Unlocked(p)
    /\ \E v \in 1..VariantsOf[p] :
        /\ Candidate(c, v)
        /\ \/ /\ sup[p].state = "FAILED"
              /\ call' = [call EXCEPT ![c].step = "leave"]
              /\ UNCHANGED <<sup, worker>>
           \/ /\ sup[p].state = "READY" /\ IsAlive(worker[p])
              /\ call' = [call EXCEPT ![c].step = "sent", ![c].variant = v]
              /\ sup' = [sup EXCEPT ![p].state = "BUSY", ![p].await = "RESPONSE"]
              /\ worker' = [worker EXCEPT ![p] = Told(@, Execute(RequestFor(c, v)))]
           \/ /\ sup[p].state = "READY" /\ ~IsAlive(worker[p])
              /\ \E kept \in 0..sup[p].failures :
                    IF kept + 1 > MaxRestarts
                    THEN /\ sup' = [sup EXCEPT ![p] = Recorded(@, kept)]
                         /\ worker' = [worker EXCEPT ![p] = NoWorker]
                         /\ call' = [call EXCEPT ![c].step = "leave"]
                    ELSE Launch(c, v, kept + 1)
           \/ /\ MayLaunch(p)
              /\ Launch(c, v, sup[p].failures)
    /\ UNCHANGED <<lease, ruledOut, pool>>

(* Every variant is ruled out: there is no substitute. *)
NoneLeft(c) ==
    /\ call[c].step = "choose" /\ 1..VariantsOf[PlanOf[c]] \subseteq ruledOut[c]
    /\ call' = [call EXCEPT ![c].step = "leave"]
    /\ UNCHANGED <<lease, ruledOut, sup, worker, pool>>

-----------------------------------------------------------------------------
(* A frame is read.                                                        *)

FirstSaid(p) == Head(worker[p].said)
Read(w) == [w EXCEPT !.said = Tail(@)]

(* The waiting side reads a frame of the type it waits for; an answer must *)
(* be to the request it sent.  (A PONG repeats its PING's number, which is *)
(* left out: OnlyTheAwaitedIsSaid leaves no older PONG to mistake it for.) *)
Expected(p) ==
    /\ worker[p].said # <<>> /\ FirstSaid(p).type = sup[p].await
    /\ sup[p].await = "RESPONSE" => Answers(FirstSaid(p), Request(holder))

HearHello(p) ==
    /\ sup[p].await = "HELLO" /\ Expected(p)
    /\ sup' = [sup EXCEPT ![p].await = "READY"]
    /\ worker' = [worker EXCEPT ![p] = Told(Read(@), Signal("INITIALIZE"))]
    /\ UNCHANGED <<lease, call, ruledOut, pool>>

(* The handshake is over; the request that started it goes out. *)
HearReady(p) ==
    /\ sup[p].await = "READY" /\ Expected(p)
    /\ sup' = [sup EXCEPT ![p].state = "BUSY", ![p].await = "RESPONSE"]
    /\ worker' = [worker EXCEPT ![p] = Told(Read(@), Execute(Request(holder)))]
    /\ UNCHANGED <<lease, call, ruledOut, pool>>

(* The client's use of an answer: a provider that cannot run here is ruled *)
(* out and the next variant is asked; an answer that cannot be right, and  *)
(* one that was read, are given back to the worker; an error is raised.    *)
AfterAnswerKept(c, result) ==   \* an answer that is refused is not given back
    CASE result = "no_provider" -> "choose"
      [] result = "success" /\ call[c].op = "represent" -> "release"
      [] OTHER -> "leave"
AfterAnswer(c, result) ==
    CASE result = "no_provider" -> "choose"
      [] result = "wrong" -> "release"
      [] result = "success" /\ call[c].op = "represent" -> "release"
      [] OTHER -> "leave"

HearResponse(p) ==
    LET c == holder IN
    /\ sup[p].await = "RESPONSE" /\ Expected(p)
    /\ sup' = [sup EXCEPT ![p].state = "READY", ![p].await = "none"]
    /\ worker' = [worker EXCEPT ![p] = Read(@)]
    /\ call' = [call EXCEPT ![c].step = AfterAnswer(c, FirstSaid(p).result)]
    /\ ruledOut' = [ruledOut EXCEPT ![c] =
            IF FirstSaid(p).result = "no_provider" THEN @ \cup {call[c].variant} ELSE @]
    /\ UNCHANGED <<lease, pool>>

HearPong(p) ==
    /\ sup[p].await = "PONG" /\ Expected(p)
    /\ sup' = [sup EXCEPT ![p].await = "none"]
    /\ worker' = [worker EXCEPT ![p] = Read(@)]
    /\ UNCHANGED <<lease, call, ruledOut, pool>>

(* Nothing to read in time, the end of the pipe, or a frame that does not  *)
(* belong here: the worker is killed and the wait is over.  A worker that  *)
(* was asked to stop is simply gone then.                                  *)
Fail(p) ==
    /\ ~Unlocked(p) /\ sup[p].await # "SHUTDOWN_ACK"
    /\ ~Expected(p)
    /\ RecordFailure(p)
    /\ IF sup[p].await = "PONG" THEN UNCHANGED call
       ELSE call' = [call EXCEPT ![holder].step = "leave"]
    /\ UNCHANGED <<lease, ruledOut, pool>>

(* The client frees the output of its request; it does not wait for an     *)
(* answer, and a pipe that broke counts as a failure.                      *)
ReleaseOutput(c) ==
    LET p == PlanOf[c] IN
    /\ call[c].step = "release" /\ Unlocked(p)
    /\ call' = [call EXCEPT ![c].step = "leave"]
    /\ \/ /\ sup[p].state = "READY"
          /\ worker' = [worker EXCEPT ![p] =
                            Told(@, Frame("RELEASE_OUTPUT", Request(c), "success"))]
          /\ UNCHANGED sup
       \/ sup[p].state = "READY" /\ ~IsAlive(worker[p]) /\ RecordFailure(p)
       \/ sup[p].state # "READY" /\ UNCHANGED <<sup, worker>>
    /\ UNCHANGED <<lease, ruledOut, pool>>

(* A health check and a deliberate pardon, by whoever supervises. *)
Ping(p) ==
    /\ Unlocked(p) /\ sup[p].state = "READY" /\ sup[p].pings < MaxPings[p]
    /\ sup' = [sup EXCEPT ![p].await = "PONG", ![p].pings = @ + 1]
    /\ worker' = [worker EXCEPT ![p] = Told(@, Signal("PING"))]
    /\ UNCHANGED <<lease, call, ruledOut, pool>>

Reset(p) ==
    /\ Unlocked(p) /\ sup[p].failures > 0
    /\ sup' = [sup EXCEPT ![p].failures = 0,
                          ![p].state = IF @ = "FAILED" THEN "STOPPED" ELSE @]
    /\ UNCHANGED <<lease, call, ruledOut, worker, pool>>

-----------------------------------------------------------------------------
(* The worker's loop.                                                      *)

WorkerHello(p) ==
    /\ worker[p].phase = "loading"
    /\ worker' = [worker EXCEPT ![p] = [Says(@, Signal("HELLO")) EXCEPT !.phase = "greeted"]]
    /\ UNCHANGED <<lease, call, ruledOut, sup, pool>>

WorkerReceives(p, type) ==
    /\ worker[p].todo # <<>>
    /\ Head(worker[p].todo).type = type
    /\ UNCHANGED <<lease, call, ruledOut, sup, pool>>

Taken(w) == [w EXCEPT !.todo = Tail(@)]

WorkerInitialized(p) ==
    /\ worker[p].phase = "greeted" /\ WorkerReceives(p, "INITIALIZE")
    /\ worker' = [worker EXCEPT ![p] =
            [Says(Taken(@), Signal("READY")) EXCEPT !.phase = "serving"]]

WorkerExecutes(p) ==
    /\ worker[p].phase = "serving" /\ WorkerReceives(p, "EXECUTE")
    /\ worker' = [worker EXCEPT ![p] =
            [Taken(@) EXCEPT !.phase = "running", !.job = Head(worker[p].todo).request]]

(* Exactly one answer to a request: what a failed one made is freed before *)
(* it is answered, what a successful one made is kept under its name.      *)
WorkerAnswers(p, result) ==
    LET w == worker[p] IN
       /\ w.phase = "running"
       /\ worker' = [worker EXCEPT ![p] =
            [Says(w, Response(w.job, result)) EXCEPT
                !.phase = "serving", !.job = NoRequest, !.outputs = @ \cup Made(w.job, result)]]
       /\ UNCHANGED <<lease, call, ruledOut, sup, pool>>

WorkerReleases(p) ==
    /\ worker[p].phase = "serving" /\ WorkerReceives(p, "RELEASE_OUTPUT")
    /\ worker' = [worker EXCEPT ![p] =
            [Taken(worker[p]) EXCEPT !.outputs = @ \ {Head(worker[p].todo).request}]]

WorkerPongs(p) ==
    /\ worker[p].phase = "serving" /\ WorkerReceives(p, "PING")
    /\ worker' = [worker EXCEPT ![p] = Says(Taken(@), Signal("PONG"))]

WorkerShutsDown(p) ==
    /\ worker[p].phase = "serving" /\ WorkerReceives(p, "SHUTDOWN")
    /\ worker' = [worker EXCEPT ![p] = Gone(Says(@, Signal("SHUTDOWN_ACK")))]

(* A worker may die at any time; what it had said can still be read. *)
WorkerDies(p) ==
    /\ IsAlive(worker[p])
    /\ worker' = [worker EXCEPT ![p] = Gone(@)]
    /\ UNCHANGED <<lease, call, ruledOut, sup, pool>>

-----------------------------------------------------------------------------
(* Shutdown: refuse who waits, let who holds finish, then stop each worker.*)

CloseLease ==
    /\ pool = "open"
    /\ closed' = TRUE /\ pool' = "draining"
    /\ UNCHANGED <<waiting, holder, streak, passed, call, ruledOut, sup, worker>>

Drained ==
    /\ pool = "draining" /\ holder = None
    /\ pool' = "stopping"
    /\ UNCHANGED <<lease, call, ruledOut, sup, worker>>

StoppedWaiting(s) == [s EXCEPT !.await = "none"]   \* the state stays what it was
Stopped(s) == [s EXCEPT !.state = "STOPPED", !.await = "none"]

(* stop(): a worker that is ready and alive is asked to leave first. *)
AskToStop(p) ==
    /\ pool = "stopping" /\ Unlocked(p)
    /\ sup[p].state = "READY" /\ IsAlive(worker[p])
    /\ sup' = [sup EXCEPT ![p].state = "STOPPING", ![p].await = "SHUTDOWN_ACK"]
    /\ worker' = [worker EXCEPT ![p] = Told(@, Signal("SHUTDOWN"))]
    /\ UNCHANGED <<lease, call, ruledOut, pool>>

(* It is killed once it acknowledged, or did not in time; a dead one is    *)
(* only forgotten.                                                         *)
StopWorkerPolitely(p) ==   \* a worker that does not acknowledge is waited for
    /\ pool = "stopping" /\ worker[p] # NoWorker
    /\ \/ sup[p].await = "SHUTDOWN_ACK" /\ Expected(p)
       \/ Unlocked(p) /\ ~(sup[p].state = "READY" /\ IsAlive(worker[p]))
    /\ sup' = [sup EXCEPT ![p] = Stopped(@)]
    /\ worker' = [worker EXCEPT ![p] = NoWorker]
    /\ UNCHANGED <<lease, call, ruledOut, pool>>
StopWorker(p) ==
    /\ pool = "stopping" /\ worker[p] # NoWorker
    /\ \/ sup[p].await = "SHUTDOWN_ACK"
       \/ Unlocked(p) /\ ~(sup[p].state = "READY" /\ IsAlive(worker[p]))
    /\ sup' = [sup EXCEPT ![p] = Stopped(@)]
    /\ worker' = [worker EXCEPT ![p] = NoWorker]
    /\ UNCHANGED <<lease, call, ruledOut, pool>>

PoolClosed ==
    /\ pool = "stopping" /\ \A p \in Plans : Unlocked(p) /\ worker[p] = NoWorker
    /\ sup' = [p \in Plans |->
                 IF sup[p].state = "FAILED" THEN sup[p] ELSE Stopped(sup[p])]
    /\ pool' = "closed"
    /\ UNCHANGED <<lease, call, ruledOut, worker>>

-----------------------------------------------------------------------------
(* What a caller's thread goes on to do by itself once it asked for a turn. *)
CallerGoesOn(c) ==
    Grant(c) \/ Refuse(c) \/ Ask(c) \/ NoneLeft(c) \/ ReleaseOutput(c) \/ Leave(c)

(* Whoever waits for a frame of this worker. *)
WaitEnds(p) ==
    HearHello(p) \/ HearReady(p) \/ HearResponse(p) \/ HearPong(p) \/ Fail(p)

WorkerNext(p) ==
    \/ WorkerHello(p) \/ WorkerInitialized(p) \/ WorkerExecutes(p)
    \/ \E result \in Results : WorkerAnswers(p, result)
    \/ WorkerReleases(p) \/ WorkerPongs(p) \/ WorkerShutsDown(p) \/ WorkerDies(p)

CloserGoesOn ==
    Drained \/ PoolClosed \/ \E p \in Plans : AskToStop(p) \/ StopWorker(p)

Next ==
    \/ \E c \in Callers : \/ \E op \in Ops : Enter(c, op)
                          \/ CallerGoesOn(c)
    \/ \E p \in Plans : WaitEnds(p) \/ Ping(p) \/ Reset(p) \/ WorkerNext(p)
    \/ CloseLease \/ CloserGoesOn

(* Threads that can go on do go on, and a wait for a frame ends.  Nothing  *)
(* is assumed of the worker: it may hang or die for ever.                  *)
Fairness ==
    /\ \A c \in Callers : WF_vars(CallerGoesOn(c))
    /\ \A p \in Plans : WF_vars(WaitEnds(p))
    /\ WF_vars(CloserGoesOn)

Spec == Init /\ [][Next]_vars /\ Fairness


-----------------------------------------------------------------------------
Requests == [caller : Callers \cup {None}, variant : Nat, op : Ops]
Frames == [type : FrameTypes, request : Requests, result : Results]

TypeOK ==
    /\ waiting \in [Classes -> Seq(Callers)] /\ holder \in Callers \cup {None}
    /\ streak \in 0..Burst /\ passed \in 0..(Burst + 1) /\ closed \in BOOLEAN
    /\ call \in [Callers -> [step : {"idle", "queued", "choose", "sent", "release", "leave"},
                             op : Ops, variant : Nat]]
    /\ ruledOut \in [Callers -> SUBSET Nat]
    /\ sup \in [Plans -> [state : {"STOPPED", "STARTING", "READY", "BUSY", "STOPPING",
                                   "UNAVAILABLE", "FAILED"},
                          failures : 0..(MaxRestarts + 1), pings : Nat,
                          await : Awaited \cup {"none"}]]
    /\ worker \in [Plans -> [phase : {"none", "loading", "greeted", "serving", "running", "gone"},
                             job : Requests, todo : Seq(Frames), said : Seq(Frames),
                             outputs : SUBSET Requests]]
    /\ pool \in {"open", "draining", "stopping", "closed"}

(* At most one caller is past the lease, it is the holder, and a           *)
(* supervisor that waits for an answer waits for that caller: two plans    *)
(* have two processes but never two requests at a time                     *)
(* No worker is stopped under a request                                    *)
(* (ml/supervisor/lease.py held, api/real.py ClientPool, close).           *)
OneRequestAtATime ==
    /\ \A c \in Callers : call[c].step \in {"choose", "sent", "release", "leave"} <=> c = holder
    /\ \A p \in Plans : sup[p].await \in {"HELLO", "READY", "RESPONSE"}
                            <=> holder # None /\ call[holder].step = "sent" /\ PlanOf[holder] = p
    /\ pool \in {"stopping", "closed"} => holder = None

(* A background request at the head of its queue is overtaken by at most   *)
(* a burst of interactive ones (ml/supervisor/lease.py _next, BURST).      *)
BackgroundHasItsTurn == passed <= Burst

(* A worker that no fault hit is never taken for a broken one: what can be *)
(* read from the pipe is what the supervisor waits for, and nothing is     *)
(* left in it when the next request goes out, whatever timed out or was    *)
(* pinged before (ml/supervisor/supervisor.py _receive, _fail).            *)
OnlyTheAwaitedIsSaid ==
    \A p \in Plans :
        worker[p].said # <<>> => Len(worker[p].said) = 1 /\ Expected(p)

(* An output a live worker keeps is one its client still reads or has      *)
(* already asked the worker to free: a long-lived worker does not fill up  *)
(* with the vectors of failed, refused or forgotten answers                *)
(* (app/runtime/perception_client.py represent and                         *)
(* _check_it_was_that_variant, ml/worker/loop.py _execute).                *)
EveryOutputIsOwed ==
    \A p \in Plans : \A r \in worker[p].outputs :
        \/ r.caller = holder /\ call[holder].step \in {"sent", "release"} /\ r = Request(holder)
        \/ \E i \in DOMAIN worker[p].todo :
                worker[p].todo[i] = Frame("RELEASE_OUTPUT", r, "success")

(* The state a supervisor reports is the truth about its process, and      *)
(* FAILED is reported exactly when more failures than are forgiven were    *)
(* counted (ml/supervisor/supervisor.py _record_failure, stop).            *)
StateTellsTheTruth ==
    \A p \in Plans :
        /\ sup[p].state \in {"STARTING", "READY", "BUSY", "STOPPING"} <=> worker[p] # NoWorker
        /\ sup[p].state \in {"STARTING", "BUSY", "STOPPING"} => ~Unlocked(p)
        /\ sup[p].state = "FAILED" <=> sup[p].failures > MaxRestarts
        /\ pool = "closed" => worker[p] = NoWorker

(* A call that queues comes back, with an answer or an error, however      *)
(* often workers hang and die and whatever the other class does, and a     *)
(* shutdown that began ends, with every waiter gone                        *)
(* (ml/supervisor/lease.py held, ml/supervisor/supervisor.py _receive,     *)
(* api/real.py ClientPool.close).                                          *)
EveryCallComesBack ==
    /\ \A c \in Callers : call[c].step = "queued" ~> call[c].step = "idle"
    /\ pool = "draining" ~> pool = "closed" /\ \A c \in Callers : call[c].step = "idle"

=============================================================================

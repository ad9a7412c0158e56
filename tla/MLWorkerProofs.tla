----------------------------- MODULE MLWorkerProofs -----------------------------
(***************************************************************************)
(* Proofs about MLWorker: one request at a time whatever the plans, a turn *)
(* for who waits in the background, a state that tells the truth about the *)
(* process, a pipe that holds nothing but the awaited answer, and no       *)
(* output that nobody will free.  They hold for any callers, plans,        *)
(* variants and bounds, and whatever hangs, dies or times out.             *)
(*                                                                         *)
(* The inductive invariant IInv adds what the program relies on without    *)
(* looking: the turns taken past a waiting background request are among    *)
(* those the lease counts (TurnsInv), a lease is closed before it is       *)
(* drained (TurnInv), what each wait for a frame says about the state, the *)
(* worker and both directions of its pipe (PipeInv), and by whom each      *)
(* output will be freed (OwedInv).                                         *)
(***************************************************************************)
EXTENDS MLWorker, SequenceTheorems, WellFoundedInduction, TLAPS

-----------------------------------------------------------------------------
(* The inductive invariant *)

\* Each queue holds callers of its class, and no more turns went past a waiting
\* background request than there were interactive turns in a row.
TurnsInv ==
    /\ waiting["interactive"] \in Seq(Interactive)
    /\ waiting["background"] \in Seq(Background)
    /\ passed <= streak

\* A lease that is being drained refuses newcomers.
TurnInv ==
    /\ OneRequestAtATime
    /\ pool # "open" => closed

\* Frames the supervisor does not wait for an answer to.
Quiet(todo) == \A i \in DOMAIN todo : todo[i].type = "RELEASE_OUTPUT"

\* They may precede a question the worker has not read yet.
EndsWith(todo, question) ==
    /\ todo # <<>>
    /\ todo[Len(todo)] = question
    /\ \A i \in 1..(Len(todo) - 1) : todo[i].type = "RELEASE_OUTPUT"

\* The worker has yet to read the question, or to answer it.
Asked(s, w, request) ==
    \/ s.await = "HELLO"  /\ w.phase = "loading" /\ w.todo = <<>>
    \/ s.await = "READY"  /\ w.phase = "greeted" /\ w.todo = <<Signal("INITIALIZE")>>
    \/ s.await = "RESPONSE" /\ w.phase = "serving" /\ EndsWith(w.todo, Execute(request))
    \/ s.await = "RESPONSE" /\ w.phase = "running" /\ w.todo = <<>> /\ w.job = request
    \/ s.await = "PONG" /\ w.phase = "serving" /\ EndsWith(w.todo, Signal("PING"))
    \/ s.await = "SHUTDOWN_ACK" /\ w.phase = "serving"
                                /\ EndsWith(w.todo, Signal("SHUTDOWN"))

\* What the supervisor waits for.
IsAnswer(s, frame, request) ==
    /\ frame.type = s.await
    /\ s.await = "RESPONSE" => \E result \in Results : frame = Response(request, result)

\* Where the worker is once it has answered.
PhaseAfter(s) == IF s.await = "HELLO" THEN "greeted" ELSE "serving"

\* A supervisor that waits: the question is under way, or answered, or nobody is
\* there any more.
Waits(s, w, request) ==
    /\ s.state = CASE s.await \in {"HELLO", "READY"} -> "STARTING"
                   [] s.await = "RESPONSE"           -> "BUSY"
                   [] s.await = "PONG"               -> "READY"
                   [] OTHER                          -> "STOPPING"
    /\ \/ Asked(s, w, request) /\ w.said = <<>>
       \/ /\ w.phase \in {PhaseAfter(s), "gone"} /\ w.todo = <<>>
          /\ Len(w.said) = 1 /\ IsAnswer(s, Head(w.said), request)
       \/ w.phase = "gone" /\ w.todo = <<>> /\ w.said = <<>>

\* One that does not wait has no worker, or one it has nothing to hear from.
Rests(s, w) ==
    /\ s.state \in {"STOPPED", "READY", "UNAVAILABLE", "FAILED"}
    /\ IF s.state = "READY" THEN w.phase \in {"serving", "gone"} ELSE w = NoWorker
    /\ w.said = <<>> /\ Quiet(w.todo)
    /\ w.phase = "gone" => w.todo = <<>>

Conversation(s, w, request) ==
    /\ IF s.await = "none" THEN Rests(s, w) ELSE Waits(s, w, request)
    /\ s.state = "FAILED" <=> s.failures > MaxRestarts
    /\ w.phase \in {"none", "gone"} => w.outputs = {}

PipeInv ==
    /\ \A p \in Plans : Conversation(sup[p], worker[p], Request(holder))
    /\ pool = "closed" => \A p \in Plans : worker[p] = NoWorker

\* Somebody will free the output r of the worker of p: the worker was told to, or
\* the caller has still to read the answer or to have it freed.
WasToldToFree(w, r) == \E i \in DOMAIN w.todo : w.todo[i] = Frame("RELEASE_OUTPUT", r, "success")
HasYetToFree(p, r) ==
    /\ holder # None /\ r = Request(holder)
    /\ \/ call[holder].step = "release" /\ PlanOf[holder] = p
       \/ /\ sup[p].await = "RESPONSE" /\ r.op = "represent"
          /\ \E result \in {"success", "wrong"} : worker[p].said = <<Response(r, result)>>

OwedInv ==
    \A p \in Plans : \A r \in worker[p].outputs :
        WasToldToFree(worker[p], r) \/ HasYetToFree(p, r)

IInv == TypeOK /\ TurnsInv /\ TurnInv /\ PipeInv /\ OwedInv

-----------------------------------------------------------------------------
(* Sequences of frames *)

\* A set of numbers has a least one.
LEMMA LeastOf == ASSUME NEW S \in SUBSET Nat, S # {}
  PROVE Min(S) \in S
<1>1. \E x \in S : \A y \in S : ~ (<<y, x>> \in OpToRel(<,Nat))
  BY WFMin, NatLessThanWellFounded
<1>2. ASSUME NEW x \in S, NEW y \in S, <<y,x>> \notin OpToRel(<,Nat) PROVE x <= y
  BY <1>2 DEF OpToRel
<1>3. \E x \in S : \A y \in S : x =< y
  BY <1>1, <1>2
<1> QED BY <1>3 DEF Min

\* A queue that somebody leaves is still a queue.
LEMMA RemoveFirstType ==
  ASSUME NEW S, NEW s \in Seq(S), NEW e
  PROVE  RemoveFirst(s, e) \in Seq(S)
<1> DEFINE I == {i \in 1..Len(s) : s[i] = e}
<1>1. Len(s) \in Nat /\ \A i \in 1..Len(s) : s[i] \in S
  BY LenProperties, ElementOfSeq
<1>2. CASE I # {}
  <2>0. I \in SUBSET Nat
    BY <1>1
  <2>1. Min(I) \in I
    <3> HIDE DEF I
    <3> QED
      BY <1>2, <2>0, LeastOf
  <2>2. SelectInSeq(s, LAMBDA v : v = e) = Min(I)
    BY <1>2 DEF SelectInSeq
  <2> DEFINE i == Min(I)
  <2> HIDE DEF i
  <2>3. i \in 1..Len(s)
    BY <2>1 DEF i
  <2>4. \A j \in 1..(i - 1) : s[j] \in S
    BY <1>1, <2>3
  <2>5. \A j \in (i + 1)..Len(s) : s[j] \in S
    BY <1>1, <2>3
  <2>6. SubSeq(s, 1, i - 1) \in Seq(S)
    BY <1>1, <2>3, <2>4, SubSeqProperties
  <2>7. SubSeq(s, i + 1, Len(s)) \in Seq(S)
    BY <1>1, <2>3, <2>5, SubSeqProperties
  <2>8. RemoveAt(s, i) \in Seq(S)
    BY <2>6, <2>7, ConcatProperties DEF RemoveAt
  <2>9. RemoveFirst(s, e) = RemoveAt(s, i)
    BY <1>2, <2>2 DEF RemoveFirst, i
  <2> QED
    BY <2>8, <2>9
<1>3. CASE I = {}
  BY <1>3 DEF RemoveFirst
<1> QED
  BY <1>2, <1>3

\* An empty sequence is one of no length.
LEMMA EmptyIff ==
  ASSUME NEW t \in Seq(Frames)
  PROVE  Len(t) \in Nat /\ (t = <<>> <=> Len(t) = 0)
BY EmptySeq, LenProperties

\* Nothing is sent: nothing that is owed an answer is under way.
LEMMA NothingSent == Quiet(<<>>)
BY DEF Quiet

\* A question goes behind what needs no answer.
LEMMA AskBehind ==
  ASSUME NEW todo \in Seq(Frames), Quiet(todo), NEW f \in Frames
  PROVE  /\ EndsWith(Append(todo, f), f)
         /\ f.type = "RELEASE_OUTPUT" => Quiet(Append(todo, f))
<1> DEFINE t == Append(todo, f)
<1>1. /\ t \in Seq(Frames) /\ t # <<>> /\ Len(t) = Len(todo) + 1
      /\ \A i \in 1..Len(todo) : t[i] = todo[i]
      /\ t[Len(todo) + 1] = f
  BY AppendProperties
<1>2. /\ DOMAIN todo = 1..Len(todo) /\ DOMAIN t = 1..Len(t) /\ Len(todo) \in Nat
  BY <1>1, LenProperties
<1> HIDE DEF t
<1>3. EndsWith(t, f)
  BY <1>1, <1>2 DEF EndsWith, Quiet
<1>4. f.type = "RELEASE_OUTPUT" => Quiet(t)
  BY <1>1, <1>2 DEF Quiet
<1> QED
  BY <1>3, <1>4 DEF t

\* What the worker reads first when no question is under way.
LEMMA ReadQuiet ==
  ASSUME NEW todo \in Seq(Frames), Quiet(todo), todo # <<>>
  PROVE  Head(todo).type = "RELEASE_OUTPUT" /\ Quiet(Tail(todo))
<1>1. /\ Tail(todo) \in Seq(Frames) /\ Len(Tail(todo)) = Len(todo) - 1
      /\ \A i \in 1..Len(Tail(todo)) : Tail(todo)[i] = todo[i + 1]
  BY HeadTailProperties
<1>2. /\ DOMAIN todo = 1..Len(todo) /\ Len(todo) \in Nat \ {0}
      /\ DOMAIN Tail(todo) = 1..Len(Tail(todo))
  BY <1>1, LenProperties, EmptySeq
<1>3. Head(todo) = todo[1]
  OBVIOUS
<1> QED
  BY <1>1, <1>2, <1>3 DEF Quiet

\* What the worker reads first when one is: the question, or what precedes it.
LEMMA ReadQuestion ==
  ASSUME NEW todo \in Seq(Frames), NEW f, EndsWith(todo, f),
         f.type # "RELEASE_OUTPUT"
  PROVE  /\ todo # <<>>
         /\ \/ Head(todo) = f /\ Tail(todo) = <<>>
            \/ Head(todo).type = "RELEASE_OUTPUT" /\ EndsWith(Tail(todo), f)
<1>0. todo # <<>>
  BY DEF EndsWith
<1>1. /\ Tail(todo) \in Seq(Frames) /\ Len(Tail(todo)) = Len(todo) - 1
      /\ \A i \in 1..Len(Tail(todo)) : Tail(todo)[i] = todo[i + 1]
  BY <1>0, HeadTailProperties
<1>2. Head(todo) = todo[1]
  BY <1>0
<1>5. Len(todo) \in Nat \ {0}
  BY <1>0, EmptySeq
<1>3. CASE Len(todo) = 1
  <2>0. Len(Tail(todo)) = 0
    BY <1>1, <1>3
  <2>1. Tail(todo) = <<>>
    BY <1>1, <2>0, EmptyIff
  <2> QED
    BY <1>0, <1>2, <1>3, <1>5, <2>1 DEF EndsWith
<1>4. CASE Len(todo) # 1
  <2> DEFINE n == Len(todo)
  <2>4. n \in Nat \ {0} /\ n # 1
    BY <1>4, <1>5
  <2> HIDE DEF n
  <2>5. n - 1 # 0 /\ 1 \in 1..(n - 1)
    BY <2>4
  <2>0. Len(todo) - 1 # 0 /\ 1 \in 1..(Len(todo) - 1)
    BY <2>5 DEF n
  <2>1. Tail(todo) # <<>>
    BY <1>1, <2>0, EmptyIff
  <2>2. Head(todo).type = "RELEASE_OUTPUT"
    BY <1>2, <2>0 DEF EndsWith
  <2>3. EndsWith(Tail(todo), f)
    BY <1>1, <1>4, <1>5, <2>1 DEF EndsWith
  <2> QED
    BY <1>0, <2>2, <2>3
<1> QED
  BY <1>3, <1>4

\* A sequence of one frame, read.
LEMMA ReadOnly ==
  ASSUME NEW t \in Seq(Frames), Len(t) = 1
  PROVE  t # <<>> /\ Tail(t) = <<>> /\ t = <<Head(t)>>
<1>1. t # <<>>
  BY EmptySeq
<1>2. Tail(t) \in Seq(Frames) /\ Len(Tail(t)) = 0
  BY <1>1, HeadTailProperties
<1>3. Tail(t) = <<>>
  BY <1>2, EmptySeq
<1> QED
  BY <1>1, <1>3

\* One frame that is said to somebody who has nothing to read.
LEMMA SayOnly ==
  ASSUME NEW f \in Frames
  PROVE  /\ Append(<<>>, f) = <<f>>
         /\ <<f>> \in Seq(Frames) /\ Len(<<f>>) = 1 /\ Head(<<f>>) = f
         /\ <<f>> # <<>> /\ Tail(<<f>>) = <<>>
OBVIOUS

-----------------------------------------------------------------------------
(* Types *)

CallType == [step : {"idle", "queued", "choose", "sent", "release", "leave"},
             op : Ops, variant : Nat]
States == {"STOPPED", "STARTING", "READY", "BUSY", "STOPPING", "UNAVAILABLE", "FAILED"}
Counts == 0..(MaxRestarts + 1)
SupType == [state : States, failures : Counts, pings : Nat,
            await : Awaited \cup {"none"}]
WorkerType == [phase : {"none", "loading", "greeted", "serving", "running", "gone"},
               job : Requests, todo : Seq(Frames), said : Seq(Frames),
               outputs : SUBSET Requests]

\* The messages are well formed.
LEMMA FrameTypesHold ==
  /\ NoRequest \in Requests
  /\ \A t \in FrameTypes : Signal(t) \in Frames
  /\ \A r \in Requests : /\ Execute(r) \in Frames
                         /\ Frame("RELEASE_OUTPUT", r, "success") \in Frames
                         /\ \A result \in Results : Response(r, result) \in Frames
BY DEF NoRequest, Requests, Ops, Signal, Execute, Response, Frame, Frames, FrameTypes,
       Results

\* The request of a caller is one.
LEMMA RequestType ==
  ASSUME TypeOK, NEW c \in Callers
  PROVE  /\ Request(c) \in Requests
         /\ \A v \in Nat : RequestFor(c, v) \in Requests
BY DEF TypeOK, Request, RequestFor, Requests

\* Telling, saying, reading and dying leave a worker.
LEMMA WorkerOps ==
  ASSUME NEW w \in WorkerType, NEW f \in Frames
  PROVE  /\ Told(w, f) \in WorkerType
         /\ Says(w, f) \in WorkerType
         /\ w.said # <<>> => Read(w) \in WorkerType
         /\ w.todo # <<>> => Taken(w) \in WorkerType
         /\ Gone(w) \in WorkerType
         /\ NoWorker \in WorkerType /\ Spawned \in WorkerType
<1>1. /\ w.todo \in Seq(Frames) /\ w.said \in Seq(Frames)
  BY DEF WorkerType
<1>2. Append(w.todo, f) \in Seq(Frames) /\ Append(w.said, f) \in Seq(Frames)
  BY <1>1, AppendProperties
<1>3. /\ w.todo # <<>> => Tail(w.todo) \in Seq(Frames)
      /\ w.said # <<>> => Tail(w.said) \in Seq(Frames)
  BY <1>1, HeadTailProperties
<1>4. <<>> \in Seq(Frames)
  BY EmptySeq
<1>5. NoRequest \in Requests
  BY FrameTypesHold
<1>6. Told(w, f) \in WorkerType
  BY <1>2 DEF Told, WorkerType
<1>7. Says(w, f) \in WorkerType
  BY <1>2 DEF Says, WorkerType
<1>8. w.said # <<>> => Read(w) \in WorkerType
  BY <1>3 DEF Read, WorkerType
<1>9. w.todo # <<>> => Taken(w) \in WorkerType
  BY <1>3 DEF Taken, WorkerType
<1>10. Gone(w) \in WorkerType
  BY <1>4, <1>5 DEF Gone, WorkerType
<1>11. NoWorker \in WorkerType /\ Spawned \in WorkerType
  BY <1>4, <1>5 DEF NoWorker, Spawned, WorkerType
<1> QED
  BY <1>6, <1>7, <1>8, <1>9, <1>10, <1>11

-----------------------------------------------------------------------------
(* The conversation of one supervisor with one worker, message by message.  *)
(* s and w are the two sides before a step, r the request of the holder.    *)

Talks(s, w, r) == s \in SupType /\ w \in WorkerType /\ Conversation(s, w, r)

\* The holder's request matters only to who waits for its answer.
LEMMA OtherRequest ==
  ASSUME NEW s, NEW w, NEW r, NEW q, Conversation(s, w, r),
         s.await = "RESPONSE" => q = r
  PROVE  Conversation(s, w, q)
<1>1. CASE s.await = "RESPONSE"
  BY <1>1
<1>2. CASE s.await # "RESPONSE"
  BY <1>2 DEF Conversation, Waits, Asked, IsAnswer
<1> QED
  BY <1>1, <1>2

\* A worker that introduces itself.
LEMMA HelloSaid ==
  ASSUME NEW s, NEW w, NEW r, Talks(s, w, r), w.phase = "loading"
  PROVE  Talks(s, [Says(w, Signal("HELLO")) EXCEPT !.phase = "greeted"], r)
<1> DEFINE f == Signal("HELLO")
           v == [Says(w, f) EXCEPT !.phase = "greeted"]
<1>1. f \in Frames /\ f.type = "HELLO"
  BY FrameTypesHold DEF FrameTypes, Signal, Frame
<1>2. Says(w, f) \in WorkerType
  BY <1>1, WorkerOps DEF Talks
<1>3. s.await = "HELLO" /\ s.state = "STARTING" /\ w.said = <<>> /\ w.todo = <<>>
  BY DEF Talks, Conversation, Rests, Waits, Asked, PhaseAfter, NoWorker
<1>4. /\ v \in WorkerType /\ v.phase = "greeted" /\ v.todo = <<>> /\ v.said = <<f>>
      /\ v.outputs = w.outputs
  BY <1>1, <1>2, <1>3, SayOnly DEF Says, WorkerType, Talks
<1>5. IsAnswer(s, Head(v.said), r) /\ Len(v.said) = 1
  BY <1>1, <1>3, <1>4, SayOnly DEF IsAnswer
<1> HIDE DEF v
<1>6. Waits(s, v, r)
  BY <1>3, <1>4, <1>5 DEF Waits, PhaseAfter
<1> QED
  BY <1>3, <1>4, <1>6 DEF Talks, Conversation, v

\* What is read from the pipe is the awaited frame, and all there is.
LEMMA WhatIsHeard ==
  ASSUME NEW s, NEW w, NEW r, Talks(s, w, r), w.said # <<>>
  PROVE  /\ s.await # "none" /\ Read(w) \in WorkerType /\ Read(w).said = <<>>
         /\ Len(w.said) = 1 /\ IsAnswer(s, Head(w.said), r) /\ w.todo = <<>>
         /\ w.phase \in {PhaseAfter(s), "gone"}
         /\ Read(w).phase = w.phase /\ Read(w).todo = <<>> /\ Read(w).outputs = w.outputs
         /\ s.state = CASE s.await \in {"HELLO", "READY"} -> "STARTING"
                         [] s.await = "RESPONSE"           -> "BUSY"
                         [] s.await = "PONG"               -> "READY"
                         [] OTHER                          -> "STOPPING"
<1>1. s.await # "none"
  BY DEF Talks, Conversation, Rests
<1>2. Waits(s, w, r)
  BY <1>1 DEF Talks, Conversation
<1>3. /\ Len(w.said) = 1 /\ IsAnswer(s, Head(w.said), r) /\ w.todo = <<>>
      /\ w.phase \in {PhaseAfter(s), "gone"}
  BY <1>2 DEF Waits
<1>4. Tail(w.said) = <<>>
  BY <1>3, ReadOnly DEF Talks, WorkerType
<1>5. Read(w) \in WorkerType
  BY FrameTypesHold, WorkerOps DEF Talks
<1>6. Read(w) = [w EXCEPT !.said = <<>>]
  BY <1>4 DEF Read
<1> QED
  BY <1>1, <1>2, <1>3, <1>5, <1>6 DEF Waits, Talks, WorkerType

\* The introduction is heard and the worker is told how to run.
LEMMA HelloHeard ==
  ASSUME NEW s, NEW w, NEW r, Talks(s, w, r), s.await = "HELLO", w.said # <<>>
  PROVE  Talks([s EXCEPT !.await = "READY"], Told(Read(w), Signal("INITIALIZE")), r)
<1> DEFINE f == Signal("INITIALIZE")
           t == [s EXCEPT !.await = "READY"]
           v == Told(Read(w), f)
<1>1. f \in Frames
  BY FrameTypesHold DEF FrameTypes
<1>2. /\ Read(w) \in WorkerType /\ Read(w).said = <<>> /\ Read(w).todo = <<>>
      /\ Read(w).phase \in {"greeted", "gone"} /\ Read(w).outputs = w.outputs
      /\ Read(w).phase = w.phase /\ s.state = "STARTING"
  BY WhatIsHeard DEF PhaseAfter
<1>3. v \in WorkerType
  BY <1>1, <1>2, WorkerOps
<1>4. t \in SupType /\ t.await = "READY" /\ t.state = "STARTING" /\ t.failures = s.failures
  BY <1>2 DEF Talks, SupType, Awaited, States
<1>5. /\ v.said = <<>> /\ v.phase = w.phase /\ v.outputs = w.outputs
      /\ w.phase = "greeted" => v.todo = <<f>>
      /\ w.phase = "gone" => v.todo = <<>>
  BY <1>1, <1>2, SayOnly DEF Told, IsAlive, WorkerType
<1> HIDE DEF v, t
<1>6. Waits(t, v, r)
  BY <1>2, <1>4, <1>5 DEF Waits, Asked
<1> QED
  BY <1>3, <1>4, <1>5, <1>6 DEF Talks, Conversation, v, t
\* The handshake is over and the request of r goes out.
LEMMA ReadyHeard ==
  ASSUME NEW s, NEW w, NEW r, NEW q \in Requests, Talks(s, w, r), s.await = "READY",
         w.said # <<>>
  PROVE  Talks([s EXCEPT !.state = "BUSY", !.await = "RESPONSE"],
               Told(Read(w), Execute(q)), q)
<1> DEFINE f == Execute(q)
           t == [s EXCEPT !.state = "BUSY", !.await = "RESPONSE"]
           v == Told(Read(w), f)
<1>1. f \in Frames
  BY FrameTypesHold
<1>2. /\ Read(w) \in WorkerType /\ Read(w).said = <<>> /\ Read(w).todo = <<>>
      /\ Read(w).phase \in {"serving", "gone"} /\ Read(w).outputs = w.outputs
      /\ Read(w).phase = w.phase /\ s.state = "STARTING"
  BY WhatIsHeard DEF PhaseAfter
<1>3. v \in WorkerType
  BY <1>1, <1>2, WorkerOps
<1>4. t \in SupType /\ t.await = "RESPONSE" /\ t.state = "BUSY" /\ t.failures = s.failures
  BY <1>2 DEF Talks, SupType, Awaited, States
<1>5. /\ v.said = <<>> /\ v.phase = w.phase /\ v.outputs = w.outputs
      /\ w.phase = "serving" => EndsWith(v.todo, f)
      /\ w.phase = "gone" => v.todo = <<>>
  <2>1. Quiet(<<>>) /\ <<>> \in Seq(Frames)
    BY NothingSent, EmptySeq
  <2>2. EndsWith(Append(<<>>, f), f)
    BY <1>1, <2>1, AskBehind
  <2> HIDE DEF f
  <2> QED
    BY <1>1, <1>2, <2>2 DEF Told, IsAlive, WorkerType
<1> HIDE DEF v, t
<1>6. Waits(t, v, q)
  BY <1>2, <1>4, <1>5 DEF Waits, Asked
<1> QED
  BY <1>2, <1>3, <1>4, <1>5, <1>6 DEF Talks, Conversation, v, t

\* An answer, or the sign of life, is heard: the supervisor rests again.
LEMMA AnswerHeard ==
  ASSUME NEW s, NEW w, NEW r, NEW q, Talks(s, w, r), s.await \in {"RESPONSE", "PONG"},
         w.said # <<>>
  PROVE  Talks([s EXCEPT !.state = "READY", !.await = "none"], Read(w), q)
<1> DEFINE t == [s EXCEPT !.state = "READY", !.await = "none"]
           v == Read(w)
<1>2. /\ v \in WorkerType /\ v.said = <<>> /\ v.todo = <<>>
      /\ v.phase \in {"serving", "gone"} /\ v.outputs = w.outputs
      /\ v.phase = w.phase /\ s.state \in {"BUSY", "READY"}
  BY WhatIsHeard DEF PhaseAfter
<1>4. t \in SupType /\ t.await = "none" /\ t.state = "READY" /\ t.failures = s.failures
  BY <1>2 DEF Talks, SupType, States
<1> HIDE DEF v, t
<1>6. Rests(t, v)
  BY <1>2, <1>4, NothingSent DEF Rests
<1> QED
  BY <1>2, <1>4, <1>6 DEF Talks, Conversation, v, t

\* A supervisor that rests in READY asks a question: a request, a sign of life, an end.
LEMMA QuestionAsked ==
  ASSUME NEW s, NEW w, NEW r, NEW q, Talks(s, w, r), s.await = "none",
         s.state = "READY", NEW t, t \in SupType, t.failures = s.failures, NEW f,
         \/ t.await = "RESPONSE" /\ t.state = "BUSY" /\ f = Execute(q) /\ q \in Requests
         \/ t.await = "PONG" /\ t.state = "READY" /\ f = Signal("PING")
         \/ t.await = "SHUTDOWN_ACK" /\ t.state = "STOPPING" /\ f = Signal("SHUTDOWN")
  PROVE  Talks(t, Told(w, f), q)
<1> DEFINE v == Told(w, f)
<1>1. f \in Frames
  BY FrameTypesHold DEF FrameTypes
<1>2. /\ w.phase \in {"serving", "gone"} /\ w.said = <<>> /\ Quiet(w.todo)
      /\ w.phase = "gone" => w.todo = <<>>
      /\ w.todo \in Seq(Frames)
  BY DEF Talks, Conversation, Rests, WorkerType
<1>3. v \in WorkerType
  BY <1>1, WorkerOps DEF Talks
<1>4. EndsWith(Append(w.todo, f), f)
  BY <1>1, <1>2, AskBehind
<1>5. /\ v.said = <<>> /\ v.phase = w.phase /\ v.outputs = w.outputs
      /\ w.phase = "serving" => EndsWith(v.todo, f)
      /\ w.phase = "gone" => v.todo = <<>>
  BY <1>2, <1>4 DEF Told, IsAlive, Talks, WorkerType
<1> HIDE DEF v
<1>6. Waits(t, v, q)
  BY <1>2, <1>5 DEF Waits, Asked
<1>7. t.state = "FAILED" <=> t.failures > MaxRestarts
  BY DEF Talks, Conversation
<1> QED
  BY <1>2, <1>3, <1>5, <1>6, <1>7 DEF Talks, Conversation, v

\* It tells the worker to free an output and goes on without an answer.
LEMMA ReleaseTold ==
  ASSUME NEW s, NEW w, NEW r, NEW q \in Requests, Talks(s, w, r), s.await = "none",
         s.state = "READY"
  PROVE  Talks(s, Told(w, Frame("RELEASE_OUTPUT", q, "success")), r)
<1> DEFINE f == Frame("RELEASE_OUTPUT", q, "success")
           v == Told(w, f)
<1>1. f \in Frames /\ f.type = "RELEASE_OUTPUT"
  BY FrameTypesHold DEF Frame
<1>2. /\ w.phase \in {"serving", "gone"} /\ w.said = <<>> /\ Quiet(w.todo)
      /\ w.phase = "gone" => w.todo = <<>>
      /\ w.todo \in Seq(Frames)
  BY DEF Talks, Conversation, Rests, WorkerType
<1>3. v \in WorkerType
  BY <1>1, WorkerOps DEF Talks
<1>4. Quiet(Append(w.todo, f))
  BY <1>1, <1>2, AskBehind
<1>5. /\ v.said = <<>> /\ v.phase = w.phase /\ v.outputs = w.outputs
      /\ Quiet(v.todo)
      /\ w.phase = "gone" => v.todo = <<>>
  BY <1>2, <1>4 DEF Told, IsAlive, Talks, WorkerType
<1> HIDE DEF v
<1>6. Rests(s, v)
  BY <1>2, <1>5 DEF Rests
<1> QED
  BY <1>2, <1>3, <1>5, <1>6 DEF Talks, Conversation, v
\* What a worker that serves reads: an output to free, or the question it was asked.
LEMMA ServingReads ==
  ASSUME NEW s, NEW w, NEW r, Talks(s, w, r), w.phase = "serving", w.todo # <<>>
  PROVE  /\ w.said = <<>> /\ Taken(w) \in WorkerType
         /\ \/ Head(w.todo).type = "RELEASE_OUTPUT"
            \/ /\ Tail(w.todo) = <<>>
               /\ \/ s.await = "RESPONSE" /\ Head(w.todo) = Execute(r)
                  \/ s.await = "PONG" /\ Head(w.todo) = Signal("PING")
                  \/ s.await = "SHUTDOWN_ACK" /\ Head(w.todo) = Signal("SHUTDOWN")
<1>0. w.todo \in Seq(Frames)
  BY DEF Talks, WorkerType
<1>1. Taken(w) \in WorkerType
  BY FrameTypesHold, WorkerOps DEF Talks
<1>2. CASE s.await = "none"
  <2>1. Rests(s, w)
    BY <1>2 DEF Talks, Conversation
  <2>2. w.said = <<>> /\ Quiet(w.todo)
    BY <2>1 DEF Rests
  <2> QED
    BY <1>0, <1>1, <2>2, ReadQuiet
<1>3. CASE s.await # "none"
  <2>1. Waits(s, w, r)
    BY <1>3 DEF Talks, Conversation
  <2>2. Asked(s, w, r) /\ w.said = <<>>
    BY <2>1 DEF Waits
  <2>3. /\ Execute(r).type # "RELEASE_OUTPUT"
        /\ Signal("PING").type # "RELEASE_OUTPUT"
        /\ Signal("SHUTDOWN").type # "RELEASE_OUTPUT"
    BY DEF Execute, Signal, Frame
  <2>4. CASE s.await = "RESPONSE" /\ EndsWith(w.todo, Execute(r))
    BY <1>0, <1>1, <2>2, <2>3, <2>4, ReadQuestion
  <2>5. CASE s.await = "PONG" /\ EndsWith(w.todo, Signal("PING"))
    BY <1>0, <1>1, <2>2, <2>3, <2>5, ReadQuestion
  <2>6. CASE s.await = "SHUTDOWN_ACK" /\ EndsWith(w.todo, Signal("SHUTDOWN"))
    BY <1>0, <1>1, <2>2, <2>3, <2>6, ReadQuestion
  <2> QED
    BY <2>2, <2>4, <2>5, <2>6 DEF Asked
<1> QED
  BY <1>2, <1>3

\* It frees the output, and the rest is as before.
LEMMA OutputReleased ==
  ASSUME NEW s, NEW w, NEW r, Talks(s, w, r), w.phase = "serving", w.todo # <<>>,
         Head(w.todo).type = "RELEASE_OUTPUT", NEW O \in SUBSET Requests
  PROVE  Talks(s, [Taken(w) EXCEPT !.outputs = O], r)
<1> DEFINE v == [Taken(w) EXCEPT !.outputs = O]
<1>0. w.todo \in Seq(Frames)
  BY DEF Talks, WorkerType
<1>1. Taken(w) \in WorkerType
  BY FrameTypesHold, WorkerOps DEF Talks
<1>2. /\ v \in WorkerType /\ v.said = w.said /\ v.phase = "serving"
      /\ v.todo = Tail(w.todo)
  BY <1>1 DEF Taken, WorkerType, Talks
<1> HIDE DEF v
<1>3. CASE s.await = "none"
  <2>1. Rests(s, w)
    BY <1>3 DEF Talks, Conversation
  <2>2. Quiet(v.todo)
    BY <1>0, <1>2, <2>1, ReadQuiet DEF Rests
  <2>3. Rests(s, v)
    BY <1>2, <2>1, <2>2 DEF Rests, NoWorker
  <2> QED
    BY <1>2, <1>3, <2>3 DEF Talks, Conversation, v
<1>4. CASE s.await # "none"
  <2>1. Waits(s, w, r)
    BY <1>4 DEF Talks, Conversation
  <2>2. Asked(s, w, r) /\ w.said = <<>>
    BY <2>1 DEF Waits
  <2>3. /\ Execute(r).type = "EXECUTE"
        /\ Signal("PING").type = "PING"
        /\ Signal("SHUTDOWN").type = "SHUTDOWN"
    BY DEF Execute, Signal, Frame
  <2>4. ASSUME NEW f, f.type # "RELEASE_OUTPUT", EndsWith(w.todo, f)
        PROVE  EndsWith(v.todo, f)
    BY <1>0, <1>2, <2>4, ReadQuestion
  <2>5. Asked(s, v, r)
    BY <1>2, <2>2, <2>3, <2>4 DEF Asked
  <2>6. Waits(s, v, r)
    BY <1>2, <2>1, <2>2, <2>5 DEF Waits
  <2> QED
    BY <1>2, <1>4, <2>6 DEF Talks, Conversation, v
<1> QED
  BY <1>3, <1>4

\* It answers and serves again: the first time it is ready, and every time it is asked
\* for a sign of life.
LEMMA SignalSaid ==
  ASSUME NEW s, NEW w, NEW r, Talks(s, w, r), w.todo # <<>>, NEW f,
         \/ w.phase = "greeted" /\ Head(w.todo).type = "INITIALIZE" /\ f = Signal("READY")
         \/ w.phase = "serving" /\ Head(w.todo).type = "PING" /\ f = Signal("PONG")
  PROVE  Talks(s, [Says(Taken(w), f) EXCEPT !.phase = "serving"], r)
<1> DEFINE v == [Says(Taken(w), f) EXCEPT !.phase = "serving"]
<1>1. f \in Frames
  BY FrameTypesHold DEF FrameTypes
<1>2. /\ f.type = s.await /\ s.await \in {"READY", "PONG"}
      /\ w.said = <<>> /\ Tail(w.todo) = <<>>
  <2>1. CASE w.phase = "greeted"
    <3>1. s.await = "READY" /\ w.said = <<>> /\ w.todo = <<Signal("INITIALIZE")>>
      BY <2>1 DEF Talks, Conversation, Rests, Waits, Asked, PhaseAfter, NoWorker
    <3> QED
      BY <2>1, <3>1 DEF Signal, Frame
  <2>2. CASE w.phase = "serving"
    <3>1. Head(w.todo).type = "PING" /\ f = Signal("PONG")
      BY <2>2
    <3>2. s.await = "PONG" /\ w.said = <<>> /\ Tail(w.todo) = <<>>
      <4>1. /\ Execute(r).type = "EXECUTE"
            /\ Signal("SHUTDOWN").type = "SHUTDOWN"
        BY DEF Execute, Signal, Frame
      <4> QED
        BY <2>2, <3>1, <4>1, ServingReads
    <3> QED
      BY <3>1, <3>2 DEF Signal, Frame
  <2> QED
    BY <2>1, <2>2
<1>3. Taken(w) \in WorkerType
  BY FrameTypesHold, WorkerOps DEF Talks
<1>4. Says(Taken(w), f) \in WorkerType
  BY <1>1, <1>3, WorkerOps
<1>5. /\ v \in WorkerType /\ v.phase = "serving" /\ v.todo = <<>> /\ v.said = <<f>>
  BY <1>1, <1>2, <1>4, SayOnly DEF Says, Taken, WorkerType, Talks
<1> HIDE DEF v
<1>6. IsAnswer(s, Head(v.said), r) /\ Len(v.said) = 1
  BY <1>1, <1>2, <1>5, SayOnly DEF IsAnswer
<1>7. Waits(s, v, r)
  <2>1. Waits(s, w, r)
    BY <1>2 DEF Talks, Conversation
  <2> QED
    BY <1>2, <1>5, <1>6, <2>1 DEF Waits, PhaseAfter
<1> QED
  BY <1>2, <1>5, <1>7 DEF Talks, Conversation, v

\* It takes the request and works on it.
LEMMA RequestTaken ==
  ASSUME NEW s, NEW w, NEW r, Talks(s, w, r), w.phase = "serving", w.todo # <<>>,
         Head(w.todo).type = "EXECUTE"
  PROVE  Talks(s, [Taken(w) EXCEPT !.phase = "running", !.job = Head(w.todo).request], r)
<1> DEFINE v == [Taken(w) EXCEPT !.phase = "running", !.job = Head(w.todo).request]
<1>1. /\ s.await = "RESPONSE" /\ Head(w.todo) = Execute(r)
      /\ w.said = <<>> /\ Tail(w.todo) = <<>> /\ Taken(w) \in WorkerType
  <2>1. Signal("PING").type # "EXECUTE" /\ Signal("SHUTDOWN").type # "EXECUTE"
    BY DEF Signal, Frame
  <2> QED
    BY <2>1, ServingReads
<1>2. Head(w.todo).request = r
  BY <1>1 DEF Execute, Frame
<1>3. Head(w.todo) \in Frames
  BY HeadTailProperties DEF Talks, WorkerType
<1>4. r \in Requests
  BY <1>2, <1>3 DEF Frames
<1>5. /\ v \in WorkerType /\ v.phase = "running" /\ v.todo = <<>> /\ v.said = <<>>
      /\ v.job = r
  BY <1>1, <1>2, <1>4 DEF Taken, WorkerType, Talks
<1> HIDE DEF v
<1>6. Waits(s, v, r)
  <2>1. Waits(s, w, r)
    BY <1>1 DEF Talks, Conversation
  <2> QED
    BY <1>1, <1>5, <2>1 DEF Waits, Asked
<1> QED
  BY <1>1, <1>5, <1>6 DEF Talks, Conversation, v

\* A worker that works answers the request of the holder.
LEMMA Running ==
  ASSUME NEW s, NEW w, NEW r, Talks(s, w, r), w.phase = "running"
  PROVE  /\ s.await = "RESPONSE" /\ w.said = <<>> /\ w.todo = <<>> /\ w.job = r
         /\ r \in Requests
<1>1. s.await = "RESPONSE" /\ w.said = <<>> /\ w.todo = <<>> /\ w.job = r
  BY DEF Talks, Conversation, Rests, Waits, Asked, PhaseAfter, NoWorker
<1> QED
  BY <1>1 DEF Talks, WorkerType

LEMMA RequestAnswered ==
  ASSUME NEW s, NEW w, NEW r, Talks(s, w, r), w.phase = "running",
         NEW result \in Results, NEW O \in SUBSET Requests
  PROVE  Talks(s, [Says(w, Response(w.job, result)) EXCEPT
                      !.phase = "serving", !.job = NoRequest, !.outputs = O], r)
<1> DEFINE f == Response(w.job, result)
           v == [Says(w, f) EXCEPT !.phase = "serving", !.job = NoRequest, !.outputs = O]
<1>1. s.await = "RESPONSE" /\ w.said = <<>> /\ w.todo = <<>> /\ w.job = r /\ r \in Requests
  BY Running
<1>2. f \in Frames /\ f.type = "RESPONSE" /\ NoRequest \in Requests
  BY <1>1, FrameTypesHold DEF Response, Frame
<1>3. Says(w, f) \in WorkerType
  BY <1>2, WorkerOps DEF Talks
<1>4. /\ v \in WorkerType /\ v.phase = "serving" /\ v.todo = <<>> /\ v.said = <<f>>
  <2> HIDE DEF f
  <2> QED
    BY <1>1, <1>2, <1>3, SayOnly DEF Says, WorkerType, Talks
<1>5. IsAnswer(s, Head(v.said), r) /\ Len(v.said) = 1
  <2>1. Head(v.said) = f /\ Len(v.said) = 1
    BY <1>2, <1>4, SayOnly
  <2> HIDE DEF v
  <2> QED
    BY <1>1, <1>2, <2>1 DEF IsAnswer
<1> HIDE DEF v, f
<1>6. Waits(s, v, r)
  <2>1. Waits(s, w, r)
    BY <1>1 DEF Talks, Conversation
  <2> QED
    BY <1>1, <1>4, <1>5, <2>1 DEF Waits, PhaseAfter
<1> QED
  BY <1>1, <1>4, <1>6 DEF Talks, Conversation, v, f
\* It acknowledges the end and is gone, with everything it kept.
LEMMA EndAcknowledged ==
  ASSUME NEW s, NEW w, NEW r, Talks(s, w, r), w.phase = "serving", w.todo # <<>>,
         Head(w.todo).type = "SHUTDOWN"
  PROVE  Talks(s, Gone(Says(w, Signal("SHUTDOWN_ACK"))), r)
<1> DEFINE f == Signal("SHUTDOWN_ACK")
           v == Gone(Says(w, f))
<1>1. s.await = "SHUTDOWN_ACK" /\ w.said = <<>>
  <2>1. /\ Execute(r).type = "EXECUTE" /\ Signal("PING").type = "PING"
    BY DEF Execute, Signal, Frame
  <2> QED
    BY <2>1, ServingReads
<1>2. f \in Frames /\ f.type = "SHUTDOWN_ACK"
  BY FrameTypesHold DEF FrameTypes, Signal, Frame
<1>3. Says(w, f) \in WorkerType
  BY <1>2, WorkerOps DEF Talks
<1>4. v \in WorkerType
  BY <1>2, <1>3, WorkerOps
<1>5. v.phase = "gone" /\ v.todo = <<>> /\ v.said = <<f>> /\ v.outputs = {}
  <2> HIDE DEF f
  <2> QED
    BY <1>1, <1>2, <1>3, SayOnly DEF Says, Gone, WorkerType, Talks
<1>6. IsAnswer(s, Head(v.said), r) /\ Len(v.said) = 1
  <2>1. Head(v.said) = f /\ Len(v.said) = 1
    BY <1>2, <1>5, SayOnly
  <2> HIDE DEF v
  <2> QED
    BY <1>1, <1>2, <2>1 DEF IsAnswer
<1> HIDE DEF v, f
<1>7. Waits(s, v, r)
  <2>1. Waits(s, w, r)
    BY <1>1 DEF Talks, Conversation
  <2> QED
    BY <1>1, <1>5, <1>6, <2>1 DEF Waits, PhaseAfter
<1> QED
  BY <1>1, <1>4, <1>5, <1>7 DEF Talks, Conversation, v, f

\* It dies: what it said can still be read, what it should do is lost.
LEMMA Died ==
  ASSUME NEW s, NEW w, NEW r, Talks(s, w, r), IsAlive(w)
  PROVE  Talks(s, Gone(w), r)
<1> DEFINE v == Gone(w)
<1>1. v \in WorkerType
  BY FrameTypesHold, WorkerOps DEF Talks
<1>2. v.phase = "gone" /\ v.todo = <<>> /\ v.said = w.said /\ v.outputs = {}
  BY DEF Gone, Talks, WorkerType
<1> HIDE DEF v
<1>3. CASE s.await = "none"
  <2>1. Rests(s, w)
    BY <1>3 DEF Talks, Conversation
  <2>2. Rests(s, v)
    BY <1>2, <2>1, NothingSent DEF Rests, IsAlive, NoWorker
  <2> QED
    BY <1>1, <1>2, <1>3, <2>2 DEF Talks, Conversation, v
<1>4. CASE s.await # "none"
  <2>1. Waits(s, w, r)
    BY <1>4 DEF Talks, Conversation
  <2>2. Waits(s, v, r)
    BY <1>2, <2>1 DEF Waits
  <2> QED
    BY <1>1, <1>2, <1>4, <2>2 DEF Talks, Conversation, v
<1> QED
  BY <1>3, <1>4

\* A supervisor without a worker, or one that stops having one, talks to nobody.
LEMMA Alone ==
  ASSUME NEW s \in SupType, s.await = "none", NEW r,
         s.state \in {"STOPPED", "UNAVAILABLE", "FAILED"},
         s.state = "FAILED" <=> s.failures > MaxRestarts
  PROVE  Talks(s, NoWorker, r)
<1>1. NoWorker \in WorkerType
  BY FrameTypesHold, WorkerOps, EmptySeq DEF NoWorker, WorkerType
<1> QED
  BY <1>1, NothingSent DEF Talks, Conversation, Rests, NoWorker

\* A failure is counted and the worker is killed.
LEMMA Killed ==
  ASSUME NEW s, NEW kept \in Nat, s \in SupType, kept <= MaxRestarts, NEW r
  PROVE  Talks(Recorded(s, kept), NoWorker, r)
<1> DEFINE t == Recorded(s, kept)
<1>1. /\ t \in SupType /\ t.await = "none" /\ t.failures = kept + 1
      /\ t.state = IF kept + 1 > MaxRestarts THEN "FAILED" ELSE "UNAVAILABLE"
  <2> DEFINE state == IF kept + 1 > MaxRestarts THEN "FAILED" ELSE "UNAVAILABLE"
             failures == kept + 1
  <2>1. failures \in Counts
    BY BoundsAssumption DEF Counts
  <2>2. state \in States
    BY DEF States
  <2>3. t = [s EXCEPT !.state = state, !.failures = failures, !.await = "none"]
    BY DEF Recorded
  <2> HIDE DEF t, state, failures
  <2>4. t \in SupType /\ t.state = state /\ t.failures = failures /\ t.await = "none"
    <3>1. "none" \in Awaited \cup {"none"}
      OBVIOUS
    <3> QED
      BY <2>1, <2>2, <2>3, <3>1 DEF SupType
  <2> QED
    BY <2>4 DEF state, failures
<1> HIDE DEF t
<1>2. /\ t.state \in {"UNAVAILABLE", "FAILED"}
      /\ t.state = "FAILED" <=> t.failures > MaxRestarts
  BY <1>1
<1> QED
  BY <1>1, <1>2, Alone DEF t

\* A worker is started.
LEMMA Started ==
  ASSUME NEW s, s \in SupType, NEW failures \in Nat, failures <= MaxRestarts, NEW r
  PROVE  Talks([s EXCEPT !.state = "STARTING", !.failures = failures, !.await = "HELLO"],
               Spawned, r)
<1> DEFINE t == [s EXCEPT !.state = "STARTING", !.failures = failures, !.await = "HELLO"]
<1>1. /\ t \in SupType /\ t.await = "HELLO" /\ t.state = "STARTING"
      /\ t.failures = failures
  <2>1. failures \in Counts
    BY BoundsAssumption DEF Counts
  <2>2. "STARTING" \in States
    BY DEF States
  <2>3. "HELLO" \in Awaited \cup {"none"}
    BY DEF Awaited
  <2> HIDE DEF t
  <2> QED
    BY <2>1, <2>2, <2>3 DEF SupType, t
<1>2. Spawned \in WorkerType
  BY FrameTypesHold, WorkerOps, EmptySeq DEF NoWorker, Spawned, WorkerType
<1>3. /\ Spawned.phase = "loading" /\ Spawned.todo = <<>> /\ Spawned.said = <<>>
      /\ Spawned.outputs = {}
  BY DEF Spawned, NoWorker
<1> HIDE DEF t
<1>4. Waits(t, Spawned, r)
  BY <1>1, <1>3 DEF Waits, Asked
<1>5. t.state # "FAILED" /\ ~(t.failures > MaxRestarts)
  BY <1>1, BoundsAssumption
<1> QED
  BY <1>1, <1>2, <1>3, <1>4, <1>5 DEF Talks, Conversation, t

\* Failures that are forgiven leave the worker alone.
LEMMA Pardoned ==
  ASSUME NEW s, NEW w, NEW r, Talks(s, w, r), s.await = "none"
  PROVE  Talks([s EXCEPT !.failures = 0, !.state = IF @ = "FAILED" THEN "STOPPED" ELSE @],
               w, r)
<1> DEFINE t == [s EXCEPT !.failures = 0, !.state = IF @ = "FAILED" THEN "STOPPED" ELSE @]
<1>1. Rests(s, w)
  BY DEF Talks, Conversation
<1>2. /\ t \in SupType /\ t.await = "none" /\ t.failures = 0
      /\ t.state = IF s.state = "FAILED" THEN "STOPPED" ELSE s.state
  <2> DEFINE state == IF s.state = "FAILED" THEN "STOPPED" ELSE s.state
  <2>1. 0 \in Counts
    BY BoundsAssumption DEF Counts
  <2>2. state \in States /\ s \in SupType
    BY DEF Talks, SupType, States
  <2>3. t = [s EXCEPT !.state = state, !.failures = 0, !.await = "none"]
    BY <2>2 DEF SupType
  <2> HIDE DEF t, state
  <2>4. t \in SupType /\ t.state = state /\ t.failures = 0 /\ t.await = "none"
    <3>1. "none" \in Awaited \cup {"none"}
      OBVIOUS
    <3> QED
      BY <2>1, <2>2, <2>3, <3>1 DEF SupType
  <2> QED
    BY <2>4 DEF state
<1> HIDE DEF t
<1>3. Rests(t, w) /\ t.state # "FAILED"
  BY <1>1, <1>2 DEF Rests
<1>4. ~(t.failures > MaxRestarts)
  BY <1>2, BoundsAssumption
<1> QED
  BY <1>2, <1>3, <1>4 DEF Talks, Conversation, t

\* How many failures a supervisor that may record one, or start a worker, has counted.
LEMMA Forgiven ==
  ASSUME NEW s, NEW w, NEW r, Talks(s, w, r), s.state # "FAILED"
  PROVE  s.failures \in Nat /\ s.failures <= MaxRestarts
BY BoundsAssumption DEF Talks, Conversation, SupType, Counts

\* Who waits is in a state that says so, and has a worker.
LEMMA WaitingState ==
  ASSUME NEW s, NEW w, NEW r, Talks(s, w, r)
  PROVE  /\ s.await # "none" => s.state \in {"STARTING", "READY", "BUSY", "STOPPING"}
         /\ s.await = "none" <=> s.state \notin {"STARTING", "BUSY", "STOPPING"}
                                 /\ s.await # "PONG"
         /\ s.state \in {"STARTING", "READY", "BUSY", "STOPPING"} <=> w # NoWorker
         /\ w # NoWorker <=> w.phase # "none"
         /\ s.await = "PONG" => s.state = "READY"
<1>1. NoWorker.phase = "none"
  BY DEF NoWorker
<1>2. CASE s.await = "none"
  BY <1>1, <1>2 DEF Talks, Conversation, Rests
<1>3. CASE s.await # "none"
  <2>1. Waits(s, w, r)
    BY <1>3 DEF Talks, Conversation
  <2>2. w.phase # "none"
    BY <2>1 DEF Waits, Asked, PhaseAfter
  <2>3. s.await \in Awaited
    BY <1>3 DEF Talks, SupType
  <2> QED
    BY <1>1, <1>3, <2>1, <2>2, <2>3 DEF Waits, Awaited
<1> QED
  BY <1>2, <1>3
-----------------------------------------------------------------------------
(* The supervisors and the workers *)

\* What the invariant says of each of them.
LEMMA Talking ==
  ASSUME IInv, NEW p \in Plans
  PROVE  /\ Talks(sup[p], worker[p], Request(holder))
         /\ sup \in [Plans -> SupType] /\ worker \in [Plans -> WorkerType]
<1>1. sup \in [Plans -> SupType] /\ worker \in [Plans -> WorkerType]
  BY DEF IInv, TypeOK, SupType, WorkerType, States, Counts
<1> QED
  BY <1>1 DEF IInv, PipeInv, Talks

\* The request that is under way stays what it is.
Steady == \A p \in Plans : sup[p].await = "RESPONSE" => Request(holder)' = Request(holder)

\* One plan's supervisor and worker move, and go on with their conversation.
Moves(p) ==
    /\ sup' = [sup EXCEPT ![p] = sup'[p]]
    /\ worker' = [worker EXCEPT ![p] = worker'[p]]
    /\ Talks(sup'[p], worker'[p], Request(holder)')

\* The other plans then go on with theirs.
LEMMA OnePlanMoves ==
  ASSUME IInv, Steady, NEW p \in Plans, Moves(p)
  PROVE  /\ sup' \in [Plans -> SupType] /\ worker' \in [Plans -> WorkerType]
         /\ \A q \in Plans : Conversation(sup'[q], worker'[q], Request(holder)')
<1>1. sup \in [Plans -> SupType] /\ worker \in [Plans -> WorkerType]
  BY Talking
<1>2. sup'[p] \in SupType /\ worker'[p] \in WorkerType
  BY DEF Moves, Talks
<1>3. sup' \in [Plans -> SupType] /\ worker' \in [Plans -> WorkerType]
  BY <1>1, <1>2 DEF Moves
<1>4. ASSUME NEW q \in Plans
      PROVE  Conversation(sup'[q], worker'[q], Request(holder)')
  <2>1. CASE q = p
    BY <2>1 DEF Moves, Talks
  <2>2. CASE q # p
    <3>1. sup'[q] = sup[q] /\ worker'[q] = worker[q]
      BY <1>1, <2>2 DEF Moves
    <3>2. Conversation(sup[q], worker[q], Request(holder))
      BY DEF IInv, PipeInv
    <3>3. sup[q].await = "RESPONSE" => Request(holder)' = Request(holder)
      BY DEF Steady
    <3>4. Conversation(sup[q], worker[q], Request(holder)')
      BY <3>2, <3>3, OtherRequest, Zenon
    <3> QED
      BY <3>1, <3>4
  <2> QED
    BY <2>1, <2>2
<1> QED
  BY <1>3, <1>4

\* Nobody moves.
LEMMA NobodyMoves ==
  ASSUME IInv, Steady, UNCHANGED <<sup, worker>>
  PROVE  /\ sup' \in [Plans -> SupType] /\ worker' \in [Plans -> WorkerType]
         /\ \A q \in Plans : Conversation(sup'[q], worker'[q], Request(holder)')
<1>1. ASSUME NEW q \in Plans
      PROVE  /\ sup \in [Plans -> SupType] /\ worker \in [Plans -> WorkerType]
             /\ Conversation(sup[q], worker[q], Request(holder)')
  <2>1. Conversation(sup[q], worker[q], Request(holder))
    BY DEF IInv, PipeInv
  <2>2. sup[q].await = "RESPONSE" => Request(holder)' = Request(holder)
    BY DEF Steady
  <2>3. Conversation(sup[q], worker[q], Request(holder)')
    BY <2>1, <2>2, OtherRequest, Zenon
  <2> QED
    BY <2>3, Talking
<1>2. sup \in [Plans -> SupType] /\ worker \in [Plans -> WorkerType]
  BY DEF IInv, TypeOK, SupType, WorkerType, States, Counts
<1> QED
  BY <1>1, <1>2

\* What is read is expected exactly when something was said at all.
LEMMA HeardIsExpected ==
  ASSUME IInv, NEW p \in Plans
  PROVE  worker[p].said # <<>> <=> Expected(p)
<1>1. Talks(sup[p], worker[p], Request(holder))
  BY Talking
<1>2. ASSUME worker[p].said # <<>>
      PROVE  Expected(p)
  <2>1. IsAnswer(sup[p], Head(worker[p].said), Request(holder))
    BY <1>1, <1>2, WhatIsHeard
  <2> QED
    <3>1. \A r, result : Response(r, result).request = r
      BY DEF Response, Frame
    <3>2. FirstSaid(p).type = sup[p].await
      BY <2>1 DEF FirstSaid, IsAnswer
    <3>3. sup[p].await = "RESPONSE" => FirstSaid(p).request = Request(holder)
      BY <2>1, <3>1 DEF FirstSaid, IsAnswer
    <3> QED
      BY <1>2, <3>2, <3>3 DEF Expected, Answers
<1> QED
  BY <1>2 DEF Expected

\* Whoever waits for the holder's answer, the holder is a caller whose request was sent.
LEMMA Sent ==
  ASSUME IInv, NEW p \in Plans, sup[p].await \in {"HELLO", "READY", "RESPONSE"}
  PROVE  /\ holder \in Callers /\ call[holder].step = "sent" /\ PlanOf[holder] = p
         /\ Request(holder) \in Requests
<1>1. holder \in Callers /\ call[holder].step = "sent" /\ PlanOf[holder] = p
  BY DEF IInv, TurnInv, OneRequestAtATime, TypeOK
<1> QED
  BY <1>1, RequestType DEF IInv

\* Who asks, reads or leaves is the holder.
LEMMA Holding ==
  ASSUME IInv, NEW c \in Callers, call[c].step \in {"choose", "sent", "release", "leave"}
  PROVE  c = holder /\ PlanOf[c] \in Plans
BY PlanAssumption DEF IInv, TurnInv, OneRequestAtATime

\* What is heard.
LEMMA HearHelloMoves ==
  ASSUME IInv, Steady, NEW p \in Plans, HearHello(p)
  PROVE  Moves(p)
<1> DEFINE s == sup[p]
           w == worker[p]
           r == Request(holder)
<1>1. Talks(s, w, r) /\ sup \in [Plans -> SupType] /\ worker \in [Plans -> WorkerType]
  BY Talking
<1>2. /\ sup'[p] = [s EXCEPT !.await = "READY"]
      /\ worker'[p] = Told(Read(w), Signal("INITIALIZE"))
      /\ sup' = [sup EXCEPT ![p] = sup'[p]] /\ worker' = [worker EXCEPT ![p] = worker'[p]]
  BY <1>1 DEF HearHello
<1>3. s.await = "HELLO" /\ w.said # <<>>
  BY DEF HearHello, Expected
<1>4. Talks([s EXCEPT !.await = "READY"], Told(Read(w), Signal("INITIALIZE")), r)
  <2> HIDE DEF s, w, r
  <2> QED
    BY <1>1, <1>3, HelloHeard
<1>5. Request(holder)' = r
  BY DEF HearHello, lease, Request, RequestFor
<1> QED
  BY <1>2, <1>4, <1>5 DEF Moves
LEMMA HearReadyMoves ==
  ASSUME IInv, Steady, NEW p \in Plans, HearReady(p)
  PROVE  Moves(p)
<1> DEFINE s == sup[p]
           w == worker[p]
           r == Request(holder)
<1>1. Talks(s, w, r) /\ sup \in [Plans -> SupType] /\ worker \in [Plans -> WorkerType]
  BY Talking
<1>2. /\ sup'[p] = [s EXCEPT !.state = "BUSY", !.await = "RESPONSE"]
      /\ worker'[p] = Told(Read(w), Execute(r))
      /\ sup' = [sup EXCEPT ![p] = sup'[p]] /\ worker' = [worker EXCEPT ![p] = worker'[p]]
  BY <1>1 DEF HearReady
<1>3. s.await = "READY" /\ w.said # <<>> /\ r \in Requests
  BY Sent DEF HearReady, Expected
<1>4. Talks([s EXCEPT !.state = "BUSY", !.await = "RESPONSE"],
            Told(Read(w), Execute(r)), r)
  <2> HIDE DEF s, w, r
  <2> QED
    BY <1>1, <1>3, ReadyHeard
<1>5. Request(holder)' = r
  BY DEF HearReady, lease, Request, RequestFor
<1> QED
  BY <1>2, <1>4, <1>5 DEF Moves

LEMMA HearAnswerMoves ==
  ASSUME IInv, Steady, NEW p \in Plans, HearResponse(p) \/ HearPong(p)
  PROVE  Moves(p)
<1> DEFINE s == sup[p]
           w == worker[p]
           r == Request(holder)
           q == Request(holder)'
<1>1. Talks(s, w, r) /\ sup \in [Plans -> SupType] /\ worker \in [Plans -> WorkerType]
  BY Talking
<1>2. s.await \in {"RESPONSE", "PONG"} /\ w.said # <<>>
  BY DEF HearResponse, HearPong, Expected
<1>3. s.await = "PONG" => s.state = "READY"
  BY <1>1, WaitingState
<1>4. /\ sup'[p] = [s EXCEPT !.state = "READY", !.await = "none"]
      /\ worker'[p] = Read(w)
      /\ sup' = [sup EXCEPT ![p] = sup'[p]] /\ worker' = [worker EXCEPT ![p] = worker'[p]]
  <2>1. CASE HearResponse(p)
    BY <1>1, <2>1 DEF HearResponse
  <2>2. CASE HearPong(p)
    <3>1. s \in SupType /\ s.state = "READY"
      BY <1>1, <1>3, <2>2 DEF HearPong
    <3>2. [s EXCEPT !.await = "none"] = [s EXCEPT !.state = "READY", !.await = "none"]
      BY <3>1 DEF SupType
    <3> QED
      BY <1>1, <2>2, <3>2 DEF HearPong
  <2> QED
    BY <2>1, <2>2
<1>5. Talks([s EXCEPT !.state = "READY", !.await = "none"], Read(w), q)
  <2> HIDE DEF s, w, r, q
  <2> QED
    BY <1>1, <1>2, AnswerHeard
<1> QED
  BY <1>4, <1>5 DEF Moves

\* A failure that is recorded, whatever led to it.
LEMMA FailureMoves ==
  ASSUME IInv, NEW p \in Plans, sup[p].state # "FAILED", NEW failures \in Nat,
         failures <= MaxRestarts, NEW kept \in 0..failures,
         sup' = [sup EXCEPT ![p] = Recorded(@, kept)],
         worker' = [worker EXCEPT ![p] = NoWorker]
  PROVE  Moves(p)
<1>1. /\ sup[p] \in SupType
      /\ sup \in [Plans -> SupType] /\ worker \in [Plans -> WorkerType]
  BY Talking
<1>2. kept \in Nat /\ kept <= MaxRestarts
  BY BoundsAssumption
<1>3. Talks(Recorded(sup[p], kept), NoWorker, Request(holder)')
  BY <1>1, <1>2, Killed
<1> QED
  BY <1>1, <1>3 DEF Moves

LEMMA FailMoves ==
  ASSUME IInv, NEW p \in Plans, Fail(p)
  PROVE  Moves(p)
<1>1. Talks(sup[p], worker[p], Request(holder))
  BY Talking
<1>2. sup[p].state # "FAILED"
  BY <1>1, WaitingState DEF Fail, Unlocked
<1>3. sup[p].failures \in Nat /\ sup[p].failures <= MaxRestarts
  BY <1>1, <1>2, Forgiven
<1>4. PICK kept \in 0..sup[p].failures : sup' = [sup EXCEPT ![p] = Recorded(@, kept)]
  BY DEF Fail, RecordFailure
<1>5. worker' = [worker EXCEPT ![p] = NoWorker]
  BY DEF Fail, RecordFailure
<1> QED
  BY <1>2, <1>3, <1>4, <1>5, FailureMoves
\* What is asked.
LEMMA LaunchMoves ==
  ASSUME IInv, NEW c \in Callers, PlanOf[c] \in Plans, sup[PlanOf[c]].state # "FAILED",
         NEW v, NEW failures \in Nat, failures <= MaxRestarts, Launch(c, v, failures)
  PROVE  Moves(PlanOf[c])
<1> DEFINE p == PlanOf[c]
<1>1. /\ sup[p] \in SupType
      /\ sup \in [Plans -> SupType] /\ worker \in [Plans -> WorkerType]
  BY Talking DEF Talks
<1>2. CASE /\ sup' = [sup EXCEPT ![p].state = "STARTING", ![p].failures = failures,
                               ![p].await = "HELLO"]
           /\ worker' = [worker EXCEPT ![p] = Spawned]
  <2>1. /\ sup'[p] = [sup[p] EXCEPT !.state = "STARTING", !.failures = failures,
                                    !.await = "HELLO"]
        /\ worker'[p] = Spawned
        /\ sup' = [sup EXCEPT ![p] = sup'[p]]
        /\ worker' = [worker EXCEPT ![p] = worker'[p]]
    BY <1>1, <1>2
  <2>2. Talks([sup[p] EXCEPT !.state = "STARTING", !.failures = failures,
                             !.await = "HELLO"], Spawned, Request(holder)')
    BY <1>1, Started
  <2> QED
    BY <2>1, <2>2 DEF Moves
<1>3. CASE /\ \E kept \in 0..failures : sup' = [sup EXCEPT ![p] = Recorded(@, kept)]
           /\ worker' = [worker EXCEPT ![p] = NoWorker]
  BY <1>3, FailureMoves
<1> QED
  BY <1>2, <1>3 DEF Launch

\* A supervisor that rests in READY asks, and waits.
LEMMA QuestionMoves ==
  ASSUME IInv, NEW p \in Plans, Unlocked(p), sup[p].state = "READY",
         NEW t, t \in SupType, t.failures = sup[p].failures, NEW f,
         \/ /\ t.await = "RESPONSE" /\ t.state = "BUSY"
            /\ f = Execute(Request(holder)') /\ Request(holder)' \in Requests
         \/ t.await = "PONG" /\ t.state = "READY" /\ f = Signal("PING")
         \/ t.await = "SHUTDOWN_ACK" /\ t.state = "STOPPING" /\ f = Signal("SHUTDOWN"),
         sup' = [sup EXCEPT ![p] = t],
         worker' = [worker EXCEPT ![p] = Told(@, f)]
  PROVE  Moves(p)
<1> DEFINE s == sup[p]
           w == worker[p]
           r == Request(holder)
           q == Request(holder)'
<1>1. Talks(s, w, r) /\ sup \in [Plans -> SupType] /\ worker \in [Plans -> WorkerType]
  BY Talking
<1>2. s.await = "none" /\ s.state = "READY"
  BY DEF Unlocked
<1>3. Talks(t, Told(w, f), q)
  <2>1. \/ t.await = "RESPONSE" /\ t.state = "BUSY" /\ f = Execute(q) /\ q \in Requests
        \/ t.await = "PONG" /\ t.state = "READY" /\ f = Signal("PING")
        \/ t.await = "SHUTDOWN_ACK" /\ t.state = "STOPPING" /\ f = Signal("SHUTDOWN")
    OBVIOUS
  <2>2. t.failures = s.failures
    OBVIOUS
  <2> HIDE DEF s, w, r, q
  <2> QED
    BY <1>1, <1>2, <2>1, <2>2, QuestionAsked
<1>4. /\ sup'[p] = t /\ worker'[p] = Told(w, f)
      /\ sup' = [sup EXCEPT ![p] = sup'[p]] /\ worker' = [worker EXCEPT ![p] = worker'[p]]
  BY <1>1
<1> QED
  BY <1>3, <1>4 DEF Moves

\* A caller asks for a variant; a supervisor that gave up does not move.
LEMMA AskMoves ==
  ASSUME IInv, NEW c \in Callers, Ask(c)
  PROVE  Moves(PlanOf[c]) \/ UNCHANGED <<sup, worker>>
<1> DEFINE p == PlanOf[c]
<1>1. c = holder /\ p \in Plans
  BY Holding DEF Ask
<1>2. Talks(sup[p], worker[p], Request(holder)) /\ sup \in [Plans -> SupType]
  BY <1>1, Talking
<1>3. PICK v \in 1..VariantsOf[p] :
        \/ sup[p].state = "FAILED" /\ UNCHANGED <<sup, worker>>
        \/ /\ sup[p].state = "READY" /\ IsAlive(worker[p])
           /\ call' = [call EXCEPT ![c].step = "sent", ![c].variant = v]
           /\ sup' = [sup EXCEPT ![p].state = "BUSY", ![p].await = "RESPONSE"]
           /\ worker' = [worker EXCEPT ![p] = Told(@, Execute(RequestFor(c, v)))]
        \/ /\ sup[p].state = "READY" /\ ~IsAlive(worker[p])
           /\ \E kept \in 0..sup[p].failures :
                 IF kept + 1 > MaxRestarts
                 THEN /\ sup' = [sup EXCEPT ![p] = Recorded(@, kept)]
                      /\ worker' = [worker EXCEPT ![p] = NoWorker]
                 ELSE Launch(c, v, kept + 1)
        \/ MayLaunch(p) /\ Launch(c, v, sup[p].failures)
  BY DEF Ask
<1>4. CASE sup[p].state = "FAILED" /\ UNCHANGED <<sup, worker>>
  BY <1>4
<1>5. ASSUME sup[p].state # "FAILED"
      PROVE  sup[p].failures \in Nat /\ sup[p].failures <= MaxRestarts
  BY <1>2, <1>5, Forgiven
<1>6. CASE /\ sup[p].state = "READY" /\ IsAlive(worker[p])
           /\ call' = [call EXCEPT ![c].step = "sent", ![c].variant = v]
           /\ sup' = [sup EXCEPT ![p].state = "BUSY", ![p].await = "RESPONSE"]
           /\ worker' = [worker EXCEPT ![p] = Told(@, Execute(RequestFor(c, v)))]
  <2> DEFINE t == [sup[p] EXCEPT !.state = "BUSY", !.await = "RESPONSE"]
             f == Execute(RequestFor(c, v))
  <2>1. Unlocked(p)
    BY DEF Ask
  <2>2. /\ t \in SupType /\ t.failures = sup[p].failures /\ t.await = "RESPONSE"
        /\ t.state = "BUSY"
    BY <1>2 DEF Talks, SupType, States, Awaited
  <2>3. v \in Nat
    BY <1>1, PlanAssumption, BoundsAssumption
  <2>4. Request(holder)' = RequestFor(c, v) /\ RequestFor(c, v) \in Requests
    <3>1. /\ holder' = c /\ call'[c].variant = v /\ call'[c].op = call[c].op
      BY <1>1, <1>6 DEF Ask, lease, IInv, TypeOK
    <3>2. RequestFor(c, v) \in Requests
      BY <2>3, RequestType DEF IInv
    <3> QED
      BY <3>1, <3>2 DEF Request, RequestFor
  <2>5. sup' = [sup EXCEPT ![p] = t] /\ worker' = [worker EXCEPT ![p] = Told(@, f)]
    BY <1>1, <1>2, <1>6
  <2>6. f = Execute(Request(holder)')
    BY <2>4
  <2> HIDE DEF t, f, p
  <2>7. Moves(p)
    BY <1>1, <1>6, <2>1, <2>2, <2>4, <2>5, <2>6, QuestionMoves
  <2> QED
    BY <2>7 DEF p
<1>7. CASE /\ sup[p].state = "READY" /\ ~IsAlive(worker[p])
           /\ \E kept \in 0..sup[p].failures :
                 IF kept + 1 > MaxRestarts
                 THEN /\ sup' = [sup EXCEPT ![p] = Recorded(@, kept)]
                      /\ worker' = [worker EXCEPT ![p] = NoWorker]
                 ELSE Launch(c, v, kept + 1)
  <2>1. PICK kept \in 0..sup[p].failures :
                 IF kept + 1 > MaxRestarts
                 THEN /\ sup' = [sup EXCEPT ![p] = Recorded(@, kept)]
                      /\ worker' = [worker EXCEPT ![p] = NoWorker]
                 ELSE Launch(c, v, kept + 1)
    BY <1>7
  <2>2. sup[p].failures \in Nat /\ sup[p].failures <= MaxRestarts
    BY <1>5, <1>7
  <2>3. CASE kept + 1 > MaxRestarts
    BY <1>1, <1>7, <2>1, <2>2, <2>3, FailureMoves
  <2>4. CASE ~(kept + 1 > MaxRestarts)
    <3>1. kept + 1 \in Nat /\ kept + 1 <= MaxRestarts
      BY <2>2, <2>4, BoundsAssumption
    <3>2. Launch(c, v, kept + 1)
      BY <2>1, <2>4
    <3> QED
      BY <1>1, <1>7, <3>1, <3>2, LaunchMoves
  <2> QED
    BY <2>3, <2>4
<1>8. CASE MayLaunch(p) /\ Launch(c, v, sup[p].failures)
  <2>1. sup[p].state # "FAILED"
    BY <1>8 DEF MayLaunch
  <2> QED
    BY <1>1, <1>5, <1>8, <2>1, LaunchMoves
<1> QED
  BY <1>3, <1>4, <1>6, <1>7, <1>8

LEMMA PingMoves ==
  ASSUME IInv, NEW p \in Plans, Ping(p)
  PROVE  Moves(p)
<1> DEFINE t == [sup[p] EXCEPT !.await = "PONG", !.pings = @ + 1]
           f == Signal("PING")
<1>1. sup[p] \in SupType /\ sup \in [Plans -> SupType]
  BY Talking DEF Talks
<1>2. Unlocked(p) /\ sup[p].state = "READY"
  BY DEF Ping
<1>3. /\ t \in SupType /\ t.failures = sup[p].failures /\ t.await = "PONG"
      /\ t.state = "READY"
  <2> DEFINE n == sup[p].pings + 1
  <2>1. n \in Nat
    BY <1>1 DEF SupType
  <2>2. t = [sup[p] EXCEPT !.await = "PONG", !.pings = n]
    OBVIOUS
  <2> HIDE DEF n, t
  <2> QED
    BY <1>1, <1>2, <2>1, <2>2 DEF SupType, Awaited
<1>4. sup' = [sup EXCEPT ![p] = t] /\ worker' = [worker EXCEPT ![p] = Told(@, f)]
  BY <1>1 DEF Ping
<1> HIDE DEF t
<1> QED
  BY <1>2, <1>3, <1>4, QuestionMoves

LEMMA AskToStopMoves ==
  ASSUME IInv, NEW p \in Plans, AskToStop(p)
  PROVE  Moves(p)
<1> DEFINE t == [sup[p] EXCEPT !.state = "STOPPING", !.await = "SHUTDOWN_ACK"]
           f == Signal("SHUTDOWN")
<1>1. sup[p] \in SupType /\ sup \in [Plans -> SupType]
  BY Talking DEF Talks
<1>2. Unlocked(p) /\ sup[p].state = "READY"
  BY DEF AskToStop
<1>3. /\ t \in SupType /\ t.failures = sup[p].failures /\ t.await = "SHUTDOWN_ACK"
      /\ t.state = "STOPPING"
  BY <1>1, <1>2 DEF SupType, Awaited, States
<1>4. sup' = [sup EXCEPT ![p] = t] /\ worker' = [worker EXCEPT ![p] = Told(@, f)]
  BY <1>1 DEF AskToStop
<1> HIDE DEF t
<1> QED
  BY <1>2, <1>3, <1>4, QuestionMoves

\* A client has its output freed; if the worker is gone, that is a failure.
LEMMA ReleaseMoves ==
  ASSUME IInv, NEW c \in Callers, ReleaseOutput(c)
  PROVE  Moves(PlanOf[c]) \/ UNCHANGED <<sup, worker>>
<1> DEFINE p == PlanOf[c]
           q == Request(c)
           f == Frame("RELEASE_OUTPUT", q, "success")
<1>1. c = holder /\ p \in Plans /\ q \in Requests
  BY Holding, RequestType DEF ReleaseOutput, IInv
<1>2. /\ Talks(sup[p], worker[p], Request(holder))
      /\ sup \in [Plans -> SupType] /\ worker \in [Plans -> WorkerType]
  BY <1>1, Talking
<1>3. Request(holder)' = Request(holder)
  BY <1>1 DEF ReleaseOutput, lease, IInv, TypeOK, Request, RequestFor
<1>4. CASE /\ sup[p].state = "READY" /\ UNCHANGED sup
           /\ worker' = [worker EXCEPT ![p] = Told(@, f)]
  <2>1. sup[p].await = "none"
    BY DEF ReleaseOutput, Unlocked
  <2>2. Talks(sup[p], Told(worker[p], Frame("RELEASE_OUTPUT", q, "success")), Request(holder))
    <3> HIDE DEF q, p
    <3> QED
      BY <1>1, <1>2, <1>4, <2>1, ReleaseTold
  <2>3. /\ sup'[p] = sup[p] /\ worker'[p] = Told(worker[p], f)
        /\ sup' = [sup EXCEPT ![p] = sup'[p]] /\ worker' = [worker EXCEPT ![p] = worker'[p]]
    BY <1>1, <1>2, <1>4
  <2> QED
    BY <1>3, <2>2, <2>3 DEF Moves
<1>5. CASE sup[p].state = "READY" /\ RecordFailure(p)
  <2>1. sup[p].failures \in Nat /\ sup[p].failures <= MaxRestarts
    BY <1>2, <1>5, Forgiven
  <2> QED
    BY <1>1, <1>5, <2>1, FailureMoves DEF RecordFailure
<1> QED
  BY <1>4, <1>5 DEF ReleaseOutput

LEMMA ResetMoves ==
  ASSUME IInv, NEW p \in Plans, Reset(p)
  PROVE  Moves(p)
<1> DEFINE s == sup[p]
           w == worker[p]
           r == Request(holder)
<1>1. Talks(s, w, r) /\ sup \in [Plans -> SupType] /\ worker \in [Plans -> WorkerType]
  BY Talking
<1>2. s.await = "none" /\ Request(holder)' = r
  BY DEF Reset, Unlocked, lease, Request, RequestFor
<1>3. Talks([s EXCEPT !.failures = 0, !.state = IF @ = "FAILED" THEN "STOPPED" ELSE @], w, r)
  <2> HIDE DEF s, w, r
  <2> QED
    BY <1>1, <1>2, Pardoned
<1>4. /\ sup'[p] = [s EXCEPT !.failures = 0, !.state = IF @ = "FAILED" THEN "STOPPED" ELSE @]
      /\ worker'[p] = w
      /\ sup' = [sup EXCEPT ![p] = sup'[p]] /\ worker' = [worker EXCEPT ![p] = worker'[p]]
  BY <1>1 DEF Reset
<1> QED
  BY <1>2, <1>3, <1>4 DEF Moves

LEMMA StopWorkerMoves ==
  ASSUME IInv, NEW p \in Plans, StopWorker(p)
  PROVE  Moves(p)
<1> DEFINE s == sup[p]
           t == [s EXCEPT !.state = "STOPPED", !.await = "none"]
<1>1. /\ Talks(s, worker[p], Request(holder))
      /\ sup \in [Plans -> SupType] /\ worker \in [Plans -> WorkerType]
  BY Talking
<1>2. s.state # "FAILED"
  BY <1>1, WaitingState DEF StopWorker
<1>3. ~(s.failures > MaxRestarts)
  BY <1>1, <1>2 DEF Talks, Conversation
<1>4. /\ t \in SupType /\ t.await = "none" /\ t.state = "STOPPED"
      /\ t.failures = s.failures
  BY <1>1 DEF Talks, SupType, States
<1>5. Talks(t, NoWorker, Request(holder)')
  <2> HIDE DEF t, s
  <2> QED
    BY <1>3, <1>4, Alone
<1>6. /\ sup'[p] = t /\ worker'[p] = NoWorker
      /\ sup' = [sup EXCEPT ![p] = sup'[p]] /\ worker' = [worker EXCEPT ![p] = worker'[p]]
  BY <1>1 DEF StopWorker, Stopped
<1> QED
  BY <1>5, <1>6 DEF Moves

\* What a worker does.
WorkerActs(p) ==
    /\ worker' = [worker EXCEPT ![p] = worker'[p]]
    /\ UNCHANGED <<lease, call, ruledOut, sup, pool>>

LEMMA WorkerActsMoves ==
  ASSUME IInv, NEW p \in Plans, WorkerActs(p),
         Talks(sup[p], worker'[p], Request(holder))
  PROVE  Moves(p)
<1>1. sup' = sup /\ sup \in [Plans -> SupType]
  BY Talking DEF WorkerActs
<1>2. Request(holder)' = Request(holder)
  BY DEF WorkerActs, lease, Request, RequestFor
<1>3. sup' = [sup EXCEPT ![p] = sup'[p]] /\ sup'[p] = sup[p]
  BY <1>1
<1> QED
  BY <1>2, <1>3 DEF Moves, WorkerActs

LEMMA WorkerMoves ==
  ASSUME IInv, NEW p \in Plans, WorkerNext(p)
  PROVE  Moves(p) /\ WorkerActs(p)
<1> DEFINE s == sup[p]
           w == worker[p]
           r == Request(holder)
<1>1. Talks(s, w, r) /\ worker \in [Plans -> WorkerType]
  BY Talking
<1>2. CASE WorkerHello(p)
  <2>1. /\ WorkerActs(p) /\ w.phase = "loading"
        /\ worker'[p] = [Says(w, Signal("HELLO")) EXCEPT !.phase = "greeted"]
    BY <1>1, <1>2 DEF WorkerHello, WorkerActs
  <2>2. Talks(s, [Says(w, Signal("HELLO")) EXCEPT !.phase = "greeted"], r)
    <3> HIDE DEF s, w, r
    <3> QED
      BY <1>1, <2>1, HelloSaid
  <2> QED
    BY <2>1, <2>2, WorkerActsMoves
<1>3. CASE WorkerInitialized(p)
  <2>1. /\ WorkerActs(p) /\ w.phase = "greeted" /\ w.todo # <<>>
        /\ Head(w.todo).type = "INITIALIZE"
        /\ worker'[p] = [Says(Taken(w), Signal("READY")) EXCEPT !.phase = "serving"]
    BY <1>1, <1>3 DEF WorkerInitialized, WorkerReceives, WorkerActs
  <2>2. Talks(s, [Says(Taken(w), Signal("READY")) EXCEPT !.phase = "serving"], r)
    <3> HIDE DEF s, w, r
    <3> QED
      BY <1>1, <2>1, SignalSaid
  <2> QED
    BY <2>1, <2>2, WorkerActsMoves
<1>4. CASE WorkerExecutes(p)
  <2>1. /\ WorkerActs(p) /\ w.phase = "serving" /\ w.todo # <<>>
        /\ Head(w.todo).type = "EXECUTE"
        /\ worker'[p] = [Taken(w) EXCEPT !.phase = "running",
                                         !.job = Head(w.todo).request]
    BY <1>1, <1>4 DEF WorkerExecutes, WorkerReceives, WorkerActs
  <2>2. Talks(s, [Taken(w) EXCEPT !.phase = "running", !.job = Head(w.todo).request], r)
    <3> HIDE DEF s, w, r
    <3> QED
      BY <1>1, <2>1, RequestTaken
  <2> QED
    BY <2>1, <2>2, WorkerActsMoves
<1>5. ASSUME NEW result \in Results, WorkerAnswers(p, result)
      PROVE  Moves(p) /\ WorkerActs(p)
  <2> DEFINE O == w.outputs \cup Made(w.job, result)
  <2>1. /\ WorkerActs(p) /\ w.phase = "running"
        /\ worker'[p] = [Says(w, Response(w.job, result)) EXCEPT
                            !.phase = "serving", !.job = NoRequest, !.outputs = O]
    BY <1>1, <1>5 DEF WorkerAnswers, WorkerActs, Says, WorkerType, Talks
  <2>2. O \in SUBSET Requests
    BY <1>1 DEF Made, WorkerType, Talks
  <2>3. Talks(s, [Says(w, Response(w.job, result)) EXCEPT
                     !.phase = "serving", !.job = NoRequest, !.outputs = O], r)
    <3> HIDE DEF s, w, r, O
    <3> QED
      BY <1>1, <2>1, <2>2, RequestAnswered
  <2> QED
    BY <2>1, <2>3, WorkerActsMoves
<1>6. CASE WorkerReleases(p)
  <2> DEFINE O == w.outputs \ {Head(w.todo).request}
  <2>1. /\ WorkerActs(p) /\ w.phase = "serving" /\ w.todo # <<>>
        /\ Head(w.todo).type = "RELEASE_OUTPUT"
        /\ worker'[p] = [Taken(w) EXCEPT !.outputs = O]
    <3>1. Taken(w).outputs = w.outputs
      BY <1>1 DEF Taken, WorkerType, Talks
    <3> QED
      BY <1>1, <1>6, <3>1 DEF WorkerReleases, WorkerReceives, WorkerActs
  <2>2. O \in SUBSET Requests
    BY <1>1 DEF WorkerType, Talks
  <2>3. Talks(s, [Taken(w) EXCEPT !.outputs = O], r)
    <3> HIDE DEF s, w, r, O
    <3> QED
      BY <1>1, <2>1, <2>2, OutputReleased
  <2> QED
    BY <2>1, <2>3, WorkerActsMoves
<1>7. CASE WorkerPongs(p)
  <2>1. /\ WorkerActs(p) /\ w.phase = "serving" /\ w.todo # <<>>
        /\ Head(w.todo).type = "PING"
        /\ worker'[p] = Says(Taken(w), Signal("PONG"))
    BY <1>1, <1>7 DEF WorkerPongs, WorkerReceives, WorkerActs
  <2>2. Says(Taken(w), Signal("PONG"))
            = [Says(Taken(w), Signal("PONG")) EXCEPT !.phase = "serving"]
    BY <1>1, <2>1 DEF Says, Taken, WorkerType, Talks
  <2>3. Talks(s, [Says(Taken(w), Signal("PONG")) EXCEPT !.phase = "serving"], r)
    <3> HIDE DEF s, w, r
    <3> QED
      BY <1>1, <2>1, SignalSaid
  <2> QED
    BY <2>1, <2>2, <2>3, WorkerActsMoves
<1>8. CASE WorkerShutsDown(p)
  <2>1. /\ WorkerActs(p) /\ w.phase = "serving" /\ w.todo # <<>>
        /\ Head(w.todo).type = "SHUTDOWN"
        /\ worker'[p] = Gone(Says(w, Signal("SHUTDOWN_ACK")))
    BY <1>1, <1>8 DEF WorkerShutsDown, WorkerReceives, WorkerActs
  <2>2. Talks(s, Gone(Says(w, Signal("SHUTDOWN_ACK"))), r)
    <3> HIDE DEF s, w, r
    <3> QED
      BY <1>1, <2>1, EndAcknowledged
  <2> QED
    BY <2>1, <2>2, WorkerActsMoves
<1>9. CASE WorkerDies(p)
  <2>1. WorkerActs(p) /\ IsAlive(w) /\ worker'[p] = Gone(w)
    BY <1>1, <1>9 DEF WorkerDies, WorkerActs
  <2>2. Talks(s, Gone(w), r)
    <3> HIDE DEF s, w, r
    <3> QED
      BY <1>1, <2>1, Died
  <2> QED
    BY <2>1, <2>2, WorkerActsMoves
<1> QED
  BY <1>2, <1>3, <1>4, <1>5, <1>6, <1>7, <1>8, <1>9 DEF WorkerNext

-----------------------------------------------------------------------------
(* Nobody's request changes under way *)

\* The actions of callers are those of who is not past the lease, and the holder's.
LEMMA HolderOf ==
  ASSUME IInv
  PROVE  /\ holder \in Callers \cup {None}
         /\ \A c \in Callers : /\ call[c].step \in {"idle", "queued"} <=> c # holder
                               /\ c # None
         /\ call \in [Callers -> CallType]
BY CallersAssumption DEF IInv, TypeOK, TurnInv, OneRequestAtATime, CallType

LEMMA SteadyNext ==
  ASSUME IInv, Next
  PROVE  Steady
<1> SUFFICES ASSUME NEW p \in Plans, sup[p].await = "RESPONSE"
             PROVE  Request(holder)' = Request(holder)
  BY DEF Steady
<1>1. holder \in Callers /\ call[holder].step = "sent" /\ PlanOf[holder] = p
  BY Sent
<1>2. call \in [Callers -> CallType] /\ \A c \in Callers : c # None
  BY HolderOf
<1>3. ASSUME holder' = holder, call'[holder].variant = call[holder].variant,
             call'[holder].op = call[holder].op
      PROVE  Request(holder)' = Request(holder)
  BY <1>3 DEF Request, RequestFor
<1>4. ASSUME UNCHANGED <<holder, call>>
      PROVE  Request(holder)' = Request(holder)
  BY <1>4 DEF Request, RequestFor
<1>5. ASSUME NEW c \in Callers, NEW op \in Ops, Enter(c, op)
      PROVE  Request(holder)' = Request(holder)
  BY <1>1, <1>2, <1>3, <1>5 DEF Enter
<1>6. ASSUME NEW c \in Callers, CallerGoesOn(c)
      PROVE  Request(holder)' = Request(holder)
  <2>1. CASE Grant(c)
    BY <1>1, <1>2, <2>1 DEF Grant, Free
  <2>2. CASE Refuse(c)
    BY <1>1, <1>2, <1>3, <2>2 DEF Refuse
  <2>3. CASE call[c].step \in {"choose", "release", "leave"}
    <3>1. c = holder
      BY <2>3, Holding
    <3> QED
      BY <1>1, <2>3, <3>1
  <2> QED
    BY <1>6, <2>1, <2>2, <2>3 DEF CallerGoesOn, Ask, NoneLeft, ReleaseOutput, Leave
<1>7. ASSUME NEW q \in Plans, WaitEnds(q)
      PROVE  Request(holder)' = Request(holder)
  <2>1. CASE HearHello(q) \/ HearReady(q) \/ HearPong(q)
    BY <1>4, <2>1 DEF HearHello, HearReady, HearPong, lease
  <2>2. CASE HearResponse(q)
    BY <1>1, <1>2, <1>3, <2>2 DEF HearResponse, lease, CallType
  <2>3. CASE Fail(q)
    BY <1>1, <1>2, <1>3, <1>4, <2>3 DEF Fail, lease, CallType
  <2> QED
    BY <1>7, <2>1, <2>2, <2>3 DEF WaitEnds
<1>8. ASSUME NEW q \in Plans, Ping(q) \/ Reset(q) \/ WorkerNext(q)
      PROVE  Request(holder)' = Request(holder)
  <2>1. CASE Ping(q) \/ Reset(q)
    BY <1>4, <2>1 DEF Ping, Reset, lease
  <2>2. CASE WorkerNext(q)
    <3>1. WorkerActs(q)
      BY <2>2, WorkerMoves
    <3> QED
      BY <1>4, <3>1 DEF WorkerActs, lease
  <2> QED
    BY <1>8, <2>1, <2>2
<1>9. CASE CloseLease \/ CloserGoesOn
  BY <1>4, <1>9 DEF CloseLease, CloserGoesOn, Drained, PoolClosed, AskToStop, StopWorker,
                    lease
<1> QED
  BY <1>5, <1>6, <1>7, <1>8, <1>9 DEF Next

-----------------------------------------------------------------------------
(* The conversations go on *)

\* The pool is closed when every worker is gone: each supervisor is then alone.
LEMMA ClosedPipes ==
  ASSUME IInv, PoolClosed
  PROVE  /\ sup' \in [Plans -> SupType] /\ worker' \in [Plans -> WorkerType]
         /\ \A q \in Plans : /\ Conversation(sup'[q], worker'[q], Request(holder)')
                             /\ worker'[q] = NoWorker
<1>1. sup \in [Plans -> SupType] /\ worker \in [Plans -> WorkerType]
  BY DEF IInv, TypeOK, SupType, WorkerType, States, Counts
<1>2. worker' = worker /\ \A q \in Plans : worker[q] = NoWorker
  BY DEF PoolClosed
<1>3. ASSUME NEW q \in Plans
      PROVE  sup'[q] \in SupType /\ Talks(sup'[q], NoWorker, Request(holder)')
  <2> DEFINE t == [sup[q] EXCEPT !.state = "STOPPED", !.await = "none"]
  <2>0. Talks(sup[q], worker[q], Request(holder)) /\ sup[q].await = "none"
    BY Talking DEF PoolClosed, Unlocked
  <2>1. sup'[q] = IF sup[q].state = "FAILED" THEN sup[q] ELSE t
    BY DEF PoolClosed, Stopped
  <2>2. CASE sup[q].state = "FAILED"
    <3>1. sup'[q] = sup[q] /\ (sup[q].state = "FAILED" <=> sup[q].failures > MaxRestarts)
      BY <2>0, <2>1, <2>2 DEF Talks, Conversation
    <3> QED
      BY <1>1, <2>0, <2>2, <3>1, Alone
  <2>3. CASE sup[q].state # "FAILED"
    <3>1. /\ t \in SupType /\ t.await = "none" /\ t.state = "STOPPED"
          /\ t.failures = sup[q].failures /\ ~(sup[q].failures > MaxRestarts)
      BY <2>0, <2>3 DEF Talks, SupType, States, Conversation
    <3> HIDE DEF t
    <3> QED
      BY <2>1, <2>3, <3>1, Alone
  <2> QED
    BY <2>2, <2>3
<1>4. sup' \in [Plans -> SupType]
  <2> DEFINE other(q) == IF sup[q].state = "FAILED" THEN sup[q] ELSE Stopped(sup[q])
  <2>1. sup' = [q \in Plans |-> other(q)]
    BY DEF PoolClosed
  <2> HIDE DEF other
  <2> QED
    BY <1>3, <2>1
<1> QED
  BY <1>1, <1>2, <1>3, <1>4 DEF Talks

\* Nothing but the pool's end touches more than one plan.
LEMMA EveryMove ==
  ASSUME IInv, Next, ~PoolClosed
  PROVE  \/ UNCHANGED <<sup, worker>>
         \/ \E p \in Plans : Moves(p)
<1>0. Steady
  BY SteadyNext
<1>1. ASSUME NEW c \in Callers
      PROVE  PlanOf[c] \in Plans
  BY PlanAssumption
<1>2. ASSUME NEW c \in Callers, NEW op \in Ops, Enter(c, op)
      PROVE  UNCHANGED <<sup, worker>>
  BY <1>2 DEF Enter
<1>3. ASSUME NEW c \in Callers, CallerGoesOn(c)
      PROVE  UNCHANGED <<sup, worker>> \/ Moves(PlanOf[c])
  <2>1. CASE Grant(c) \/ Refuse(c) \/ NoneLeft(c) \/ Leave(c)
    BY <2>1 DEF Grant, Refuse, NoneLeft, Leave
  <2>2. CASE Ask(c)
    BY <2>2, AskMoves
  <2>3. CASE ReleaseOutput(c)
    BY <2>3, ReleaseMoves
  <2> QED
    BY <1>3, <2>1, <2>2, <2>3 DEF CallerGoesOn
<1>4. ASSUME NEW p \in Plans, WaitEnds(p)
      PROVE  Moves(p)
  BY <1>0, <1>4, HearHelloMoves, HearReadyMoves, HearAnswerMoves, FailMoves DEF WaitEnds
<1>5. ASSUME NEW p \in Plans, Ping(p) \/ Reset(p) \/ WorkerNext(p)
      PROVE  Moves(p)
  BY <1>5, PingMoves, ResetMoves, WorkerMoves
<1>6. CASE CloseLease \/ Drained
  BY <1>6 DEF CloseLease, Drained
<1>7. ASSUME NEW p \in Plans, AskToStop(p) \/ StopWorker(p)
      PROVE  Moves(p)
  BY <1>7, AskToStopMoves, StopWorkerMoves
<1> QED
  BY <1>1, <1>2, <1>3, <1>4, <1>5, <1>6, <1>7 DEF Next, CloserGoesOn

LEMMA ConversationsNext ==
  ASSUME IInv, Next
  PROVE  /\ sup' \in [Plans -> SupType] /\ worker' \in [Plans -> WorkerType]
         /\ \A q \in Plans : Conversation(sup'[q], worker'[q], Request(holder)')
BY EveryMove, SteadyNext, ClosedPipes, OnePlanMoves, NobodyMoves

\* Once the pool is closed nobody holds the lease and no worker is started.
LEMMA ClosedForGood ==
  ASSUME IInv, Next, pool = "closed"
  PROVE  pool' = "closed" /\ UNCHANGED worker
<1>1. holder = None /\ \A c \in Callers : call[c].step \in {"idle", "queued"}
  BY HolderOf DEF IInv, TurnInv, OneRequestAtATime
<1>2. closed = TRUE /\ \A p \in Plans : worker[p] = NoWorker
  BY DEF IInv, TurnInv, TypeOK, PipeInv
<1>3. ASSUME NEW p \in Plans
      PROVE  Unlocked(p) /\ sup[p].state # "READY" /\ ~IsAlive(worker[p])
             /\ worker[p].phase = "none" /\ worker[p].todo = <<>> /\ worker[p].said = <<>>
  <2>1. Talks(sup[p], worker[p], Request(holder)) /\ worker[p] = NoWorker
    BY <1>2, Talking
  <2> QED
    BY <2>1, WaitingState DEF Unlocked, IsAlive, NoWorker
<1>4. ASSUME NEW c \in Callers, NEW op \in Ops, Enter(c, op)
      PROVE  FALSE
  BY <1>2, <1>4 DEF Enter
<1>5. ASSUME NEW c \in Callers, CallerGoesOn(c)
      PROVE  Refuse(c)
  BY <1>1, <1>2, <1>5 DEF CallerGoesOn, Grant, Ask, NoneLeft, ReleaseOutput, Leave
<1>6. ASSUME NEW p \in Plans
      PROVE  ~WaitEnds(p) /\ ~Ping(p) /\ ~WorkerNext(p)
  BY <1>3 DEF WaitEnds, HearHello, HearReady, HearResponse, HearPong, Fail, Ping,
              Unlocked, WorkerNext, WorkerHello, WorkerInitialized, WorkerExecutes,
              WorkerAnswers, WorkerReleases, WorkerPongs, WorkerShutsDown, WorkerDies
<1>7. ~CloseLease /\ ~CloserGoesOn
  BY DEF CloseLease, CloserGoesOn, Drained, PoolClosed, AskToStop, StopWorker
<1>8. ASSUME NEW p \in Plans, Reset(p)
      PROVE  pool' = "closed" /\ UNCHANGED worker
  BY <1>8 DEF Reset
<1> QED
  BY <1>4, <1>5, <1>6, <1>7, <1>8 DEF Next, Refuse

LEMMA PipeNext ==
  ASSUME IInv, Next
  PROVE  PipeInv'
<1>1. \A q \in Plans : Conversation(sup'[q], worker'[q], Request(holder)')
  BY ConversationsNext
<1>2. ASSUME pool' = "closed"
      PROVE  \A p \in Plans : worker'[p] = NoWorker
  <2>1. CASE pool = "closed"
    BY <2>1, ClosedForGood DEF IInv, PipeInv
  <2>2. CASE pool # "closed"
    <3>1. PoolClosed
      <4>1. ASSUME NEW c \in Callers, NEW op \in Ops, Enter(c, op) \/ CallerGoesOn(c)
            PROVE  FALSE
        BY <1>2, <2>2, <4>1 DEF Enter, CallerGoesOn, Grant, Refuse, Ask, NoneLeft,
                                ReleaseOutput, Leave
      <4>2. ASSUME NEW p \in Plans, WaitEnds(p) \/ Ping(p) \/ Reset(p)
            PROVE  FALSE
        BY <1>2, <2>2, <4>2 DEF WaitEnds, HearHello, HearReady, HearResponse, HearPong,
                                Fail, Ping, Reset
      <4>3. ASSUME NEW p \in Plans, WorkerNext(p)
            PROVE  FALSE
        BY <1>2, <2>2, <4>3, WorkerMoves DEF WorkerActs
      <4>4. ASSUME CloseLease \/ Drained \/ \E p \in Plans : AskToStop(p) \/ StopWorker(p)
            PROVE  FALSE
        BY <1>2, <2>2, <4>4 DEF CloseLease, Drained, AskToStop, StopWorker
      <4>5. Ops # {}
        BY DEF Ops
      <4> QED
        BY <4>1, <4>2, <4>3, <4>4, <4>5 DEF Next, CloserGoesOn
    <3> QED
      BY <3>1, ClosedPipes
  <2> QED
    BY <2>1, <2>2
<1> QED
  BY <1>1, <1>2 DEF PipeInv

-----------------------------------------------------------------------------
(* The turns *)

\* Who is given the turn leads the queue of its class, and no interactive request goes
\* past a background one once the burst is over.
LEMMA GrantedHead ==
  ASSUME IInv, NEW c \in Callers, Grant(c)
  PROVE  /\ waiting[Class(c)] # <<>>
         /\ c \in Interactive => waiting["background"] = <<>> \/ streak < Burst
<1>1. /\ waiting["interactive"] \in Seq(Interactive)
      /\ waiting["background"] \in Seq(Background)
  BY DEF IInv, TurnsInv
<1>2. CASE InteractiveNext
  <2>1. c = Head(waiting["interactive"]) /\ waiting["interactive"] # <<>>
    BY <1>2 DEF Grant, IsNext, InteractiveNext
  <2>2. c \in Interactive
    BY <1>1, <2>1, HeadTailProperties
  <2> QED
    BY <1>2, <2>1, <2>2 DEF Class, InteractiveNext
<1>3. CASE ~InteractiveNext
  <2>1. c = Head(waiting["background"]) /\ waiting["background"] # <<>>
    BY <1>3 DEF Grant, IsNext
  <2>2. c \in Background
    BY <1>1, <2>1, HeadTailProperties
  <2> QED
    BY <2>1, <2>2, CallersAssumption DEF Class
<1> QED
  BY <1>2, <1>3

\* What the lease keeps.
LeaseType ==
    /\ waiting \in [Classes -> Seq(Callers)] /\ holder \in Callers \cup {None}
    /\ streak \in 0..Burst /\ passed \in 0..(Burst + 1) /\ closed \in BOOLEAN

\* One class's queue changes and stays a queue of that class.
LEMMA QueueChanges ==
  ASSUME IInv, NEW c \in Callers, NEW t,
         c \in Interactive => t \in Seq(Interactive),
         c \notin Interactive => t \in Seq(Background),
         waiting' = [waiting EXCEPT ![Class(c)] = t]
  PROVE  /\ waiting' \in [Classes -> Seq(Callers)]
         /\ waiting'["interactive"] \in Seq(Interactive)
         /\ waiting'["background"] \in Seq(Background)
<1>1. /\ waiting \in [Classes -> Seq(Callers)]
      /\ waiting["interactive"] \in Seq(Interactive)
      /\ waiting["background"] \in Seq(Background)
  BY DEF IInv, TypeOK, TurnsInv
<1>2. t \in Seq(Callers)
  <2>1. Seq(Interactive) \subseteq Seq(Callers) /\ Seq(Background) \subseteq Seq(Callers)
    BY SeqDef DEF Callers
  <2> QED
    BY <2>1
<1>3. CASE c \in Interactive
  BY <1>1, <1>2, <1>3 DEF Class, Classes
<1>4. CASE c \notin Interactive
  BY <1>1, <1>2, <1>4 DEF Class, Classes
<1> QED
  BY <1>3, <1>4

LEMMA LeaseNext ==
  ASSUME IInv, Next
  PROVE  LeaseType' /\ TurnsInv'
<1>0. /\ LeaseType /\ TurnsInv
      /\ streak \in Nat /\ passed \in Nat /\ Burst \in Nat \ {0} /\ streak <= Burst
      /\ passed <= streak
  BY BoundsAssumption DEF IInv, TypeOK, LeaseType, TurnsInv
<1>1. ASSUME UNCHANGED lease
      PROVE  LeaseType' /\ TurnsInv'
  BY <1>0, <1>1 DEF LeaseType, TurnsInv, lease
<1>2. ASSUME NEW c \in Callers
      PROVE  /\ c \in Interactive => waiting[Class(c)] \in Seq(Interactive)
             /\ c \notin Interactive => /\ c \in Background
                                        /\ waiting[Class(c)] \in Seq(Background)
  BY <1>0 DEF Class, TurnsInv, Callers
<1>3. ASSUME NEW c \in Callers, NEW op \in Ops, Enter(c, op)
      PROVE  LeaseType' /\ TurnsInv'
  <2> DEFINE t == Append(waiting[Class(c)], c)
  <2>1. /\ c \in Interactive => t \in Seq(Interactive)
        /\ c \notin Interactive => t \in Seq(Background)
    BY <1>2, AppendProperties
  <2>2. waiting' = [waiting EXCEPT ![Class(c)] = t]
    BY <1>3 DEF Enter
  <2> HIDE DEF t
  <2>3. /\ waiting' \in [Classes -> Seq(Callers)]
        /\ waiting'["interactive"] \in Seq(Interactive)
        /\ waiting'["background"] \in Seq(Background)
    BY <2>1, <2>2, QueueChanges
  <2> QED
    BY <1>0, <1>3, <2>3 DEF Enter, LeaseType, TurnsInv
<1>4. ASSUME NEW c \in Callers, Grant(c)
      PROVE  LeaseType' /\ TurnsInv'
  <2> DEFINE t == Tail(waiting[Class(c)])
  <2>1. /\ waiting[Class(c)] # <<>>
        /\ c \in Interactive => waiting["background"] = <<>> \/ streak < Burst
    BY <1>4, GrantedHead
  <2>2. /\ c \in Interactive => t \in Seq(Interactive)
        /\ c \notin Interactive => t \in Seq(Background)
    BY <1>2, <2>1, HeadTailProperties
  <2>3. waiting' = [waiting EXCEPT ![Class(c)] = t]
    BY <1>4 DEF Grant
  <2> HIDE DEF t
  <2>4. /\ waiting' \in [Classes -> Seq(Callers)]
        /\ waiting'["interactive"] \in Seq(Interactive)
        /\ waiting'["background"] \in Seq(Background)
    BY <2>2, <2>3, QueueChanges
  <2>5. /\ streak' \in 0..Burst /\ passed' \in 0..(Burst + 1) /\ passed' <= streak'
    <3>1. CASE c \notin Interactive
      BY <1>0, <1>4, <3>1 DEF Grant
    <3>2. CASE c \in Interactive /\ waiting["background"] = <<>>
      BY <1>0, <1>4, <3>2 DEF Grant
    <3>3. CASE c \in Interactive /\ waiting["background"] # <<>>
      BY <1>0, <1>4, <2>1, <3>3 DEF Grant
    <3> QED
      BY <3>1, <3>2, <3>3
  <2>6. holder' = c /\ closed' = closed
    BY <1>4 DEF Grant
  <2> QED
    BY <1>0, <2>4, <2>5, <2>6 DEF LeaseType, TurnsInv
<1>5. ASSUME NEW c \in Callers, Refuse(c)
      PROVE  LeaseType' /\ TurnsInv'
  <2> DEFINE t == RemoveFirst(waiting[Class(c)], c)
  <2>1. /\ c \in Interactive => t \in Seq(Interactive)
        /\ c \notin Interactive => t \in Seq(Background)
    BY <1>2, RemoveFirstType
  <2>2. waiting' = [waiting EXCEPT ![Class(c)] = t]
    BY <1>5 DEF Refuse
  <2> HIDE DEF t
  <2>3. /\ waiting' \in [Classes -> Seq(Callers)]
        /\ waiting'["interactive"] \in Seq(Interactive)
        /\ waiting'["background"] \in Seq(Background)
    BY <2>1, <2>2, QueueChanges
  <2> QED
    BY <1>0, <1>5, <2>3 DEF Refuse, LeaseType, TurnsInv
<1>6. ASSUME NEW c \in Callers, Leave(c)
      PROVE  LeaseType' /\ TurnsInv'
  BY <1>0, <1>6 DEF Leave, LeaseType, TurnsInv
<1>7. ASSUME NEW c \in Callers, Ask(c) \/ NoneLeft(c) \/ ReleaseOutput(c)
      PROVE  UNCHANGED lease
  BY <1>7 DEF Ask, NoneLeft, ReleaseOutput
<1>8. ASSUME NEW p \in Plans, WaitEnds(p) \/ Ping(p) \/ Reset(p)
      PROVE  UNCHANGED lease
  BY <1>8 DEF WaitEnds, HearHello, HearReady, HearResponse, HearPong, Fail, Ping, Reset
<1>9. ASSUME NEW p \in Plans, WorkerNext(p)
      PROVE  UNCHANGED lease
  BY <1>9, WorkerMoves DEF WorkerActs
<1>10. CASE CloseLease
  BY <1>0, <1>10 DEF CloseLease, LeaseType, TurnsInv
<1>11. ASSUME CloserGoesOn
       PROVE  UNCHANGED lease
  BY <1>11 DEF CloserGoesOn, Drained, PoolClosed, AskToStop, StopWorker
<1> QED
  BY <1>1, <1>3, <1>4, <1>5, <1>6, <1>7, <1>8, <1>9, <1>10, <1>11 DEF Next, CallerGoesOn

-----------------------------------------------------------------------------
(* The calls *)

Steps == {"idle", "queued", "choose", "sent", "release", "leave"}

\* A call that takes a step, possibly for another variant, is still one.
LEMMA CallSteps ==
  ASSUME call \in [Callers -> CallType], NEW c \in Callers, NEW step \in Steps,
         call' = [call EXCEPT ![c].step = step]
  PROVE  \E u \in CallType : /\ call' = [call EXCEPT ![c] = u]
                             /\ u.step = step /\ u.op = call[c].op
                             /\ u.variant = call[c].variant
<1> DEFINE u == [call[c] EXCEPT !.step = step]
<1>1. call' = [call EXCEPT ![c] = u]
  OBVIOUS
<1>2. /\ u \in CallType /\ u.step = step /\ u.op = call[c].op
      /\ u.variant = call[c].variant
  BY DEF CallType, Steps
<1> HIDE DEF u
<1> QED
  BY <1>1, <1>2

LEMMA CallIsSent ==
  ASSUME call \in [Callers -> CallType], NEW c \in Callers, NEW v \in Nat,
         call' = [call EXCEPT ![c].step = "sent", ![c].variant = v]
  PROVE  \E u \in CallType : /\ call' = [call EXCEPT ![c] = u]
                             /\ u.step = "sent" /\ u.op = call[c].op
<1> DEFINE u == [call[c] EXCEPT !.step = "sent", !.variant = v]
<1>1. call' = [call EXCEPT ![c] = u]
  OBVIOUS
<1>2. u \in CallType /\ u.step = "sent" /\ u.op = call[c].op
  BY DEF CallType
<1> HIDE DEF u
<1> QED
  BY <1>1, <1>2

\* Where a supervisor's wait belongs to the holder.
Asking == {"HELLO", "READY", "RESPONSE"}

\* The holder's call ends up where it does together with its supervisor.
HolderSteps(c) ==
    /\ c = holder /\ UNCHANGED <<holder, closed, pool>>
    /\ call' \in [Callers -> CallType]
    /\ call'[c].step \in {"choose", "sent", "release", "leave"}
    /\ \A d \in Callers \ {c} : call'[d] = call[d]
    /\ \A p \in Plans : sup'[p].await \in Asking <=> call'[c].step = "sent" /\ PlanOf[c] = p

\* Nobody's turn and nobody's call is touched.
TurnStays ==
    /\ UNCHANGED <<holder, closed>>
    /\ call' \in [Callers -> CallType]
    /\ \A c \in Callers : call'[c].step = call[c].step \/ {call'[c].step, call[c].step}
                                                            \subseteq {"idle", "queued"}
    /\ \A p \in Plans : sup'[p].await \in Asking <=> sup[p].await \in Asking

LEMMA HolderStepsTurn ==
  ASSUME IInv, NEW c \in Callers, HolderSteps(c)
  PROVE  TurnInv'
<1>1. /\ holder' = c /\ c # None /\ pool' = pool /\ closed' = closed
      /\ \A d \in Callers : call[d].step \in {"choose", "sent", "release", "leave"} <=> d = c
      /\ pool \in {"stopping", "closed"} => FALSE
      /\ pool # "open" => closed
  BY CallersAssumption DEF HolderSteps, IInv, TurnInv, OneRequestAtATime
<1>2. \A d \in Callers : call'[d].step \in {"choose", "sent", "release", "leave"} <=> d = holder'
  BY <1>1 DEF HolderSteps
<1>3. \A p \in Plans : sup'[p].await \in {"HELLO", "READY", "RESPONSE"}
                            <=> holder' # None /\ call'[holder'].step = "sent" /\ PlanOf[holder'] = p
  BY <1>1 DEF HolderSteps, Asking
<1> QED
  BY <1>1, <1>2, <1>3 DEF TurnInv, OneRequestAtATime

LEMMA TurnStaysTurn ==
  ASSUME IInv, TurnStays, pool' # "open" => closed,
         pool' \in {"stopping", "closed"} => holder = None
  PROVE  TurnInv'
<1>1. /\ holder' = holder /\ closed' = closed
      /\ holder \in Callers \cup {None}
      /\ \A d \in Callers : call[d].step \in {"choose", "sent", "release", "leave"} <=> d = holder
      /\ \A p \in Plans : sup[p].await \in {"HELLO", "READY", "RESPONSE"}
                            <=> holder # None /\ call[holder].step = "sent" /\ PlanOf[holder] = p
  BY DEF TurnStays, IInv, TurnInv, OneRequestAtATime, TypeOK
<1>2. \A d \in Callers : call'[d].step \in {"choose", "sent", "release", "leave"} <=> d = holder'
  BY <1>1 DEF TurnStays
<1>3. holder # None => call'[holder].step = call[holder].step
  BY <1>1 DEF TurnStays
<1>4. \A p \in Plans : sup'[p].await \in {"HELLO", "READY", "RESPONSE"}
                            <=> holder' # None /\ call'[holder'].step = "sent" /\ PlanOf[holder'] = p
  BY <1>1, <1>3 DEF TurnStays, Asking
<1> QED
  BY <1>1, <1>2, <1>4 DEF TurnInv, OneRequestAtATime

\* How the waits of a plan change when its supervisor does.
LEMMA WaitChanges ==
  ASSUME sup \in [Plans -> SupType], NEW m \in Plans, NEW t, sup' = [sup EXCEPT ![m] = t]
  PROVE  /\ sup'[m].await = t.await
         /\ \A p \in Plans \ {m} : sup'[p].await = sup[p].await
OBVIOUS

LEMMA RecordedWait ==
  ASSUME NEW s \in SupType, NEW kept
  PROVE  Recorded(s, kept).await = "none"
<1> DEFINE state == IF kept + 1 > MaxRestarts THEN "FAILED" ELSE "UNAVAILABLE"
           failures == kept + 1
<1>1. Recorded(s, kept) = [s EXCEPT !.state = state, !.failures = failures, !.await = "none"]
  BY DEF Recorded
<1> HIDE DEF state, failures
<1> QED
  BY <1>1 DEF SupType

\* A wait that the holder's request ends, or that its question begins.
LEMMA HolderAndItsPlan ==
  ASSUME IInv, NEW c \in Callers, c = holder, UNCHANGED <<holder, closed, pool>>,
         NEW u \in CallType, u.step \in {"choose", "sent", "release", "leave"},
         call' = [call EXCEPT ![c] = u],
         NEW t, sup' = [sup EXCEPT ![PlanOf[c]] = t],
         t.await \in Asking <=> u.step = "sent"
  PROVE  HolderSteps(c)
<1> DEFINE m == PlanOf[c]
<1>0. m \in Plans
  BY PlanAssumption
<1>1. sup \in [Plans -> SupType] /\ call \in [Callers -> CallType]
  BY <1>0, Talking, HolderOf
<1>2. /\ call' \in [Callers -> CallType]
      /\ call'[c].step = u.step
      /\ \A d \in Callers \ {c} : call'[d] = call[d]
  BY <1>1
<1>3. sup'[m].await = t.await /\ \A p \in Plans \ {m} : sup'[p].await = sup[p].await
  BY <1>0, <1>1, WaitChanges
<1>4. \A p \in Plans \ {m} : sup[p].await \notin Asking
  BY DEF IInv, TurnInv, OneRequestAtATime, Asking
<1> QED
  BY <1>2, <1>3, <1>4 DEF HolderSteps

\* A wait that has nothing to do with the holder begins or ends, or goes on otherwise.
LEMMA OnlyItsPlan ==
  ASSUME IInv, UNCHANGED <<holder, closed, call>>, NEW m \in Plans, NEW t,
         sup' = [sup EXCEPT ![m] = t],
         t.await \in Asking <=> sup[m].await \in Asking
  PROVE  TurnStays
<1>1. sup \in [Plans -> SupType] /\ call \in [Callers -> CallType]
  BY Talking, HolderOf
<1>2. sup'[m].await = t.await /\ \A p \in Plans \ {m} : sup'[p].await = sup[p].await
  BY <1>1, WaitChanges
<1> QED
  BY <1>1, <1>2 DEF TurnStays

\* A caller's own steps: those before the lease and behind it, and those of the holder.
LEMMA CallerTurns ==
  ASSUME IInv, NEW c \in Callers, CallerGoesOn(c) \/ \E op \in Ops : Enter(c, op)
  PROVE  TurnInv' /\ call' \in [Callers -> CallType]
<1> DEFINE p == PlanOf[c]
<1>0. /\ p \in Plans /\ sup \in [Plans -> SupType] /\ call \in [Callers -> CallType]
      /\ holder \in Callers \cup {None}
      /\ (pool # "open" => closed) /\ (pool \in {"stopping", "closed"} => holder = None)
  <2>1. p \in Plans
    BY PlanAssumption
  <2> QED
    BY <2>1, Talking, HolderOf DEF IInv, TurnInv, OneRequestAtATime
<1>1. Idle \in CallType
  BY DEF Idle, CallType, Ops
<1>2. ASSUME NEW op \in Ops, Enter(c, op)
      PROVE  TurnInv' /\ call' \in [Callers -> CallType]
  <2> DEFINE u == [step |-> "queued", op |-> op, variant |-> 0]
  <2>1. /\ u \in CallType /\ call' = [call EXCEPT ![c] = u] /\ u.step = "queued"
        /\ call[c].step = "idle" /\ UNCHANGED <<holder, closed, sup, pool>>
    BY <1>2 DEF Enter, CallType
  <2> HIDE DEF u
  <2>2. TurnStays
    BY <1>0, <2>1 DEF TurnStays
  <2> QED
    BY <1>0, <2>1, <2>2, TurnStaysTurn DEF TurnStays
<1>3. CASE Refuse(c)
  <2>1. /\ call' = [call EXCEPT ![c] = Idle] /\ Idle.step = "idle"
        /\ call[c].step = "queued" /\ UNCHANGED <<holder, closed, sup, pool>>
    BY <1>3 DEF Refuse, Idle
  <2>2. TurnStays
    BY <1>0, <1>1, <2>1 DEF TurnStays
  <2> QED
    BY <1>0, <2>1, <2>2, TurnStaysTurn DEF TurnStays
<1>4. CASE Grant(c)
  <2>1. holder = None /\ ~closed /\ holder' = c /\ UNCHANGED <<closed, sup, pool>>
    BY <1>4 DEF Grant, Free
  <2>2. PICK u \in CallType : call' = [call EXCEPT ![c] = u] /\ u.step = "choose"
    BY <1>0, <1>4, CallSteps DEF Grant, Steps
  <2>3. call' \in [Callers -> CallType] /\ pool = "open"
    BY <1>0, <2>1, <2>2 DEF IInv, TypeOK
  <2>4. /\ \A d \in Callers : call[d].step \notin {"choose", "sent", "release", "leave"}
        /\ \A q \in Plans : sup[q].await \notin {"HELLO", "READY", "RESPONSE"}
        /\ c # None
    BY <2>1, CallersAssumption DEF IInv, TurnInv, OneRequestAtATime
  <2> QED
    BY <1>0, <2>1, <2>2, <2>3, <2>4 DEF TurnInv, OneRequestAtATime
<1>5. CASE Leave(c)
  <2>1. /\ call' = [call EXCEPT ![c] = Idle] /\ Idle.step = "idle" /\ holder' = None
        /\ call[c].step = "leave" /\ UNCHANGED <<closed, sup, pool>>
    BY <1>5 DEF Leave, Idle
  <2>2. c = holder /\ c # None
    BY <2>1, Holding, CallersAssumption
  <2>3. /\ \A d \in Callers \ {c} : call[d].step \notin {"choose", "sent", "release", "leave"}
        /\ \A q \in Plans : sup[q].await \notin {"HELLO", "READY", "RESPONSE"}
        /\ \A d \in Callers : d # None
    BY <2>1, <2>2, CallersAssumption DEF IInv, TurnInv, OneRequestAtATime
  <2> QED
    BY <1>0, <1>1, <2>1, <2>2, <2>3 DEF TurnInv, OneRequestAtATime
<1>6. ASSUME call[c].step \in {"choose", "sent", "release", "leave"}
      PROVE  c = holder
  BY <1>6, Holding
<1>7. ASSUME call[c].step \in {"choose", "release"}, UNCHANGED <<holder, closed, pool, sup>>,
             call' = [call EXCEPT ![c].step = "leave"]
      PROVE  TurnInv' /\ call' \in [Callers -> CallType]
  <2>1. PICK u \in CallType : call' = [call EXCEPT ![c] = u] /\ u.step = "leave"
    BY <1>0, <1>7, CallSteps DEF Steps
  <2>2. c = holder /\ sup[p].await \notin Asking
    BY <1>0, <1>6, <1>7 DEF IInv, TurnInv, OneRequestAtATime, Asking
  <2>3. sup' = [sup EXCEPT ![p] = sup[p]]
    BY <1>0, <1>7
  <2>4. HolderSteps(c)
    BY <1>7, <2>1, <2>2, <2>3, HolderAndItsPlan
  <2> QED
    BY <2>4, HolderStepsTurn DEF HolderSteps
<1>8. ASSUME call[c].step \in {"choose", "release"}, UNCHANGED <<holder, closed, pool>>,
             NEW kept, sup' = [sup EXCEPT ![p] = Recorded(@, kept)],
             call' = [call EXCEPT ![c].step = "leave"]
      PROVE  TurnInv' /\ call' \in [Callers -> CallType]
  <2>1. PICK u \in CallType : call' = [call EXCEPT ![c] = u] /\ u.step = "leave"
    BY <1>0, <1>8, CallSteps DEF Steps
  <2> DEFINE t == Recorded(sup[p], kept)
  <2>2. t.await \notin Asking /\ sup' = [sup EXCEPT ![p] = t]
    BY <1>0, <1>8, RecordedWait DEF Asking
  <2> HIDE DEF t
  <2>3. HolderSteps(c)
    BY <1>6, <1>8, <2>1, <2>2, HolderAndItsPlan
  <2> QED
    BY <2>3, HolderStepsTurn DEF HolderSteps
<1>9. ASSUME call[c].step = "choose", UNCHANGED <<holder, closed, pool>>,
             NEW v \in Nat, call' = [call EXCEPT ![c].step = "sent", ![c].variant = v],
             NEW t, sup' = [sup EXCEPT ![p] = t], t.await \in Asking
      PROVE  TurnInv' /\ call' \in [Callers -> CallType]
  <2>1. PICK u \in CallType : call' = [call EXCEPT ![c] = u] /\ u.step = "sent"
    BY <1>0, <1>9, CallIsSent
  <2>2. HolderSteps(c)
    BY <1>6, <1>9, <2>1, HolderAndItsPlan
  <2> QED
    BY <2>2, HolderStepsTurn DEF HolderSteps
<1>10. ASSUME NEW v \in Nat, NEW failures, call[c].step = "choose",
              UNCHANGED <<holder, closed, pool>>, Launch(c, v, failures)
       PROVE  TurnInv' /\ call' \in [Callers -> CallType]
  <2> DEFINE t == [sup[p] EXCEPT !.state = "STARTING", !.failures = failures,
                                 !.await = "HELLO"]
  <2>1. CASE /\ sup' = [sup EXCEPT ![p].state = "STARTING", ![p].failures = failures,
                                   ![p].await = "HELLO"]
             /\ call' = [call EXCEPT ![c].step = "sent", ![c].variant = v]
    <3>1. sup' = [sup EXCEPT ![p] = t]
      BY <1>0, <2>1
    <3>2. t.await \in Asking
      BY <1>0 DEF SupType, Asking
    <3> HIDE DEF t
    <3> QED
      BY <1>9, <1>10, <2>1, <3>1, <3>2
  <2>2. CASE /\ \E kept \in 0..failures : sup' = [sup EXCEPT ![p] = Recorded(@, kept)]
             /\ call' = [call EXCEPT ![c].step = "leave"]
    BY <1>8, <1>10, <2>2
  <2> QED
    BY <1>10, <2>1, <2>2 DEF Launch
<1>11. CASE Ask(c)
  <2>1. PICK v \in 1..VariantsOf[p] :
        \/ /\ call' = [call EXCEPT ![c].step = "leave"]
           /\ UNCHANGED <<sup, worker>>
        \/ /\ call' = [call EXCEPT ![c].step = "sent", ![c].variant = v]
           /\ sup' = [sup EXCEPT ![p].state = "BUSY", ![p].await = "RESPONSE"]
        \/ \E kept \in 0..sup[p].failures :
              IF kept + 1 > MaxRestarts
              THEN /\ sup' = [sup EXCEPT ![p] = Recorded(@, kept)]
                   /\ call' = [call EXCEPT ![c].step = "leave"]
              ELSE Launch(c, v, kept + 1)
        \/ Launch(c, v, sup[p].failures)
    BY <1>11 DEF Ask
  <2>2. v \in Nat /\ call[c].step = "choose" /\ UNCHANGED <<holder, closed, pool>>
    BY <1>0, <1>11, BoundsAssumption DEF Ask, lease
  <2> DEFINE t == [sup[p] EXCEPT !.state = "BUSY", !.await = "RESPONSE"]
  <2>3. CASE /\ call' = [call EXCEPT ![c].step = "sent", ![c].variant = v]
             /\ sup' = [sup EXCEPT ![p].state = "BUSY", ![p].await = "RESPONSE"]
    <3>1. sup' = [sup EXCEPT ![p] = t] /\ t.await \in Asking
      BY <1>0, <2>3 DEF SupType, Asking
    <3> HIDE DEF t
    <3> QED
      BY <1>9, <2>2, <2>3, <3>1
  <2>4. CASE \E kept \in 0..sup[p].failures :
                IF kept + 1 > MaxRestarts
                THEN /\ sup' = [sup EXCEPT ![p] = Recorded(@, kept)]
                     /\ call' = [call EXCEPT ![c].step = "leave"]
                ELSE Launch(c, v, kept + 1)
    <3>1. PICK kept \in 0..sup[p].failures :
                \/ /\ sup' = [sup EXCEPT ![p] = Recorded(@, kept)]
                   /\ call' = [call EXCEPT ![c].step = "leave"]
                \/ Launch(c, v, kept + 1)
      BY <2>4
    <3> QED
      BY <1>8, <1>10, <2>2, <3>1
  <2> QED
    BY <1>7, <1>10, <2>1, <2>2, <2>3, <2>4
<1>12. CASE NoneLeft(c)
  BY <1>7, <1>12 DEF NoneLeft, lease
<1>13. CASE ReleaseOutput(c)
  <2>1. /\ call[c].step = "release" /\ UNCHANGED <<holder, closed, pool>>
        /\ call' = [call EXCEPT ![c].step = "leave"]
        /\ \/ UNCHANGED sup
           \/ \E kept \in 0..sup[p].failures : sup' = [sup EXCEPT ![p] = Recorded(@, kept)]
    BY <1>13 DEF ReleaseOutput, RecordFailure, lease
  <2> QED
    BY <1>7, <1>8, <2>1
<1> QED
  BY <1>2, <1>3, <1>4, <1>5, <1>11, <1>12, <1>13 DEF CallerGoesOn

\* What a caller does with an answer is a step of its call.
LEMMA AfterAnswerStep ==
  ASSUME NEW c, NEW result
  PROVE  AfterAnswer(c, result) \in {"choose", "release", "leave"}
BY DEF AfterAnswer

\* The ends of waits: who waits for the holder's answer moves the holder's call, and
\* nobody else does.
LEMMA PlanTurns ==
  ASSUME IInv, NEW p \in Plans, WaitEnds(p) \/ Ping(p) \/ Reset(p) \/ WorkerNext(p)
  PROVE  TurnInv' /\ call' \in [Callers -> CallType]
<1>0. /\ sup \in [Plans -> SupType] /\ call \in [Callers -> CallType]
      /\ (pool # "open" => closed) /\ (pool \in {"stopping", "closed"} => holder = None)
  BY Talking, HolderOf DEF IInv, TurnInv, OneRequestAtATime
<1>1. sup[p] \in SupType
  BY <1>0
<1>2. ASSUME UNCHANGED <<holder, closed, call, pool>>, NEW t, sup' = [sup EXCEPT ![p] = t],
             t.await \in Asking <=> sup[p].await \in Asking
      PROVE  TurnInv' /\ call' \in [Callers -> CallType]
  <2>1. TurnStays
    BY <1>2, OnlyItsPlan
  <2> QED
    BY <1>0, <1>2, <2>1, TurnStaysTurn
<1>3. ASSUME holder \in Callers, PlanOf[holder] = p, UNCHANGED <<holder, closed, pool>>,
             NEW step \in {"choose", "release", "leave"},
             call' = [call EXCEPT ![holder].step = step],
             NEW t, sup' = [sup EXCEPT ![p] = t], t.await = "none"
      PROVE  TurnInv' /\ call' \in [Callers -> CallType]
  <2>0. PICK c \in Callers : c = holder
    BY <1>3
  <2>4. call' = [call EXCEPT ![c].step = step] /\ step \in Steps
    BY <1>3, <2>0 DEF Steps
  <2>5. c \in Callers /\ call \in [Callers -> CallType]
    BY <1>0, <2>0
  <2>1. PICK u \in CallType : call' = [call EXCEPT ![c] = u] /\ u.step = step
    <3> DEFINE u == [call[c] EXCEPT !.step = step]
    <3>1. u \in CallType /\ u.step = step
      BY <2>4, <2>5 DEF CallType, Steps
    <3>2. call' = [call EXCEPT ![c] = u]
      BY <2>4
    <3> HIDE DEF u
    <3> QED
      BY <3>1, <3>2
  <2>2. t.await \in Asking <=> u.step = "sent"
    BY <1>3, <2>1 DEF Asking
  <2>3. HolderSteps(c)
    BY <1>3, <2>0, <2>1, <2>2, HolderAndItsPlan
  <2> QED
    BY <2>3, HolderStepsTurn DEF HolderSteps
<1>4. CASE HearHello(p)
  <2> DEFINE t == [sup[p] EXCEPT !.await = "READY"]
  <2>1. /\ UNCHANGED <<holder, closed, call, pool>> /\ sup[p].await = "HELLO"
        /\ sup' = [sup EXCEPT ![p] = t] /\ t.await = "READY"
    BY <1>0, <1>1, <1>4 DEF HearHello, lease, SupType
  <2> HIDE DEF t
  <2> QED
    BY <1>2, <2>1 DEF Asking
<1>5. CASE HearReady(p)
  <2> DEFINE t == [sup[p] EXCEPT !.state = "BUSY", !.await = "RESPONSE"]
  <2>1. /\ UNCHANGED <<holder, closed, call, pool>> /\ sup[p].await = "READY"
        /\ sup' = [sup EXCEPT ![p] = t] /\ t.await = "RESPONSE"
    BY <1>0, <1>1, <1>5 DEF HearReady, lease, SupType
  <2> HIDE DEF t
  <2> QED
    BY <1>2, <2>1 DEF Asking
<1>6. CASE HearResponse(p)
  <2> DEFINE t == [sup[p] EXCEPT !.state = "READY", !.await = "none"]
             step == AfterAnswer(holder, FirstSaid(p).result)
  <2>1. /\ UNCHANGED <<holder, closed, pool>> /\ sup[p].await = "RESPONSE"
        /\ sup' = [sup EXCEPT ![p] = t] /\ t.await = "none"
        /\ call' = [call EXCEPT ![holder].step = step]
    BY <1>0, <1>1, <1>6 DEF HearResponse, lease, SupType
  <2>2. holder \in Callers /\ PlanOf[holder] = p
    BY <2>1, Sent
  <2>3. step \in {"choose", "release", "leave"}
    BY AfterAnswerStep
  <2> HIDE DEF t, step
  <2> QED
    BY <1>3, <2>1, <2>2, <2>3
<1>7. CASE HearPong(p)
  <2> DEFINE t == [sup[p] EXCEPT !.await = "none"]
  <2>1. /\ UNCHANGED <<holder, closed, call, pool>> /\ sup[p].await = "PONG"
        /\ sup' = [sup EXCEPT ![p] = t] /\ t.await = "none"
    BY <1>0, <1>1, <1>7 DEF HearPong, lease, SupType
  <2> HIDE DEF t
  <2> QED
    BY <1>2, <2>1 DEF Asking
<1>8. CASE Fail(p)
  <2>1. PICK kept \in 0..sup[p].failures : sup' = [sup EXCEPT ![p] = Recorded(@, kept)]
    BY <1>8 DEF Fail, RecordFailure
  <2> DEFINE t == Recorded(sup[p], kept)
  <2>2. sup' = [sup EXCEPT ![p] = t] /\ t.await = "none"
    BY <1>0, <1>1, <2>1, RecordedWait
  <2>3. UNCHANGED <<holder, closed, pool>>
    BY <1>8 DEF Fail, lease
  <2> HIDE DEF t
  <2>4. CASE sup[p].await = "PONG"
    BY <1>2, <1>8, <2>2, <2>3, <2>4 DEF Fail, Asking
  <2>5. CASE sup[p].await # "PONG"
    <3>1. sup[p].await \in {"HELLO", "READY", "RESPONSE"}
      BY <1>1, <1>8, <2>5 DEF Fail, Unlocked, SupType, Awaited
    <3>2. holder \in Callers /\ PlanOf[holder] = p
      BY <3>1, Sent
    <3>3. call' = [call EXCEPT ![holder].step = "leave"]
      BY <1>8, <2>5 DEF Fail
    <3> QED
      BY <1>3, <2>2, <2>3, <3>2, <3>3
  <2> QED
    BY <2>4, <2>5
<1>9. CASE Ping(p)
  <2> DEFINE n == sup[p].pings + 1
             t == [sup[p] EXCEPT !.await = "PONG", !.pings = n]
  <2>1. /\ UNCHANGED <<holder, closed, call, pool>> /\ sup[p].await = "none"
        /\ sup' = [sup EXCEPT ![p] = t]
    BY <1>0, <1>9 DEF Ping, Unlocked, lease
  <2> HIDE DEF n
  <2>2. t.await = "PONG"
    BY <1>1 DEF SupType
  <2> HIDE DEF t
  <2> QED
    BY <1>2, <2>1, <2>2 DEF Asking
<1>10. CASE Reset(p)
  <2> DEFINE state == IF sup[p].state = "FAILED" THEN "STOPPED" ELSE sup[p].state
             t == [sup[p] EXCEPT !.failures = 0, !.state = state]
  <2>1. /\ UNCHANGED <<holder, closed, call, pool>> /\ sup[p].await = "none"
        /\ sup' = [sup EXCEPT ![p] = t]
    BY <1>0, <1>10 DEF Reset, Unlocked, lease
  <2> HIDE DEF state
  <2>2. t.await = sup[p].await
    BY <1>1 DEF SupType
  <2> HIDE DEF t
  <2> QED
    BY <1>2, <2>1, <2>2
<1>11. CASE WorkerNext(p)
  <2>1. UNCHANGED <<holder, closed, call, pool, sup>>
    BY <1>11, WorkerMoves DEF WorkerActs, lease
  <2>2. sup' = [sup EXCEPT ![p] = sup[p]]
    BY <1>0, <2>1
  <2> QED
    BY <1>2, <2>1, <2>2
<1> QED
  BY <1>4, <1>5, <1>6, <1>7, <1>8, <1>9, <1>10, <1>11 DEF WaitEnds

\* Closing touches no turn: it waits until nobody has one.
LEMMA CloserTurns ==
  ASSUME IInv, CloseLease \/ CloserGoesOn
  PROVE  TurnInv' /\ call' \in [Callers -> CallType]
<1>0. /\ call \in [Callers -> CallType]
      /\ (pool # "open" => closed) /\ (pool \in {"stopping", "closed"} => holder = None)
  BY HolderOf DEF IInv, TurnInv, OneRequestAtATime
<1>1. CASE CloseLease
  <2>1. UNCHANGED <<holder, call, sup>> /\ closed' = TRUE /\ pool' = "draining"
    BY <1>1 DEF CloseLease
  <2> QED
    BY <1>0, <2>1 DEF IInv, TurnInv, OneRequestAtATime
<1>2. CASE Drained
  <2>1. /\ UNCHANGED <<holder, closed, call, sup>> /\ pool' = "stopping"
        /\ holder = None /\ closed
    BY <1>0, <1>2 DEF Drained, lease
  <2> QED
    BY <1>0, <2>1 DEF IInv, TurnInv, OneRequestAtATime
<1>3. ASSUME UNCHANGED <<holder, closed, call>>, pool = "stopping",
             pool' \in {"stopping", "closed"},
             \A p \in Plans : sup'[p].await \notin Asking
      PROVE  TurnInv' /\ call' \in [Callers -> CallType]
  <2>1. \A p \in Plans : sup[p].await \notin Asking
    BY <1>0, <1>3 DEF IInv, TurnInv, OneRequestAtATime, Asking
  <2>2. TurnStays
    BY <1>0, <1>3, <2>1 DEF TurnStays
  <2> QED
    BY <1>0, <1>3, <2>2, TurnStaysTurn
<1>4. ASSUME pool = "stopping"
      PROVE  \A p \in Plans : sup[p].await \notin Asking
  BY <1>0, <1>4 DEF IInv, TurnInv, OneRequestAtATime, Asking
<1>5. CASE PoolClosed
  <2>1. ASSUME NEW p \in Plans
        PROVE  sup'[p].await \notin Asking
    <3>1. sup[p] \in SupType /\ sup[p].await = "none"
      BY <1>5, <2>1, Talking DEF PoolClosed, Unlocked, Talks
    <3>2. sup'[p] = IF sup[p].state = "FAILED" THEN sup[p] ELSE Stopped(sup[p])
      BY <1>5 DEF PoolClosed
    <3>3. Stopped(sup[p]).await = "none"
      BY <3>1 DEF Stopped, SupType
    <3> QED
      BY <3>1, <3>2, <3>3 DEF Asking
  <2> QED
    BY <1>3, <1>5, <2>1 DEF PoolClosed, lease
<1>6. ASSUME NEW p \in Plans, AskToStop(p) \/ StopWorker(p)
      PROVE  TurnInv' /\ call' \in [Callers -> CallType]
  <2>1. sup \in [Plans -> SupType]
    BY <1>6, Talking
  <2>2. \E t : sup' = [sup EXCEPT ![p] = t] /\ t.await \notin Asking
    <3>1. CASE AskToStop(p)
      <4> DEFINE t == [sup[p] EXCEPT !.state = "STOPPING", !.await = "SHUTDOWN_ACK"]
      <4>1. sup' = [sup EXCEPT ![p] = t] /\ t.await = "SHUTDOWN_ACK"
        BY <2>1, <3>1 DEF AskToStop, SupType
      <4> HIDE DEF t
      <4> QED
        BY <4>1 DEF Asking
    <3>2. CASE StopWorker(p)
      <4> DEFINE t == Stopped(sup[p])
      <4>1. sup' = [sup EXCEPT ![p] = t] /\ t.await = "none"
        BY <2>1, <3>2 DEF StopWorker, Stopped, SupType
      <4> HIDE DEF t
      <4> QED
        BY <4>1 DEF Asking
    <3> QED
      BY <1>6, <3>1, <3>2
  <2>3. \A q \in Plans : sup'[q].await \notin Asking
    BY <1>4, <1>6, <2>1, <2>2, WaitChanges DEF AskToStop, StopWorker
  <2> QED
    BY <1>3, <1>6, <2>3 DEF AskToStop, StopWorker, lease
<1> QED
  BY <1>1, <1>2, <1>5, <1>6 DEF CloserGoesOn

LEMMA TurnNext ==
  ASSUME IInv, Next
  PROVE  TurnInv' /\ call' \in [Callers -> CallType]
BY CallerTurns, PlanTurns, CloserTurns DEF Next

-----------------------------------------------------------------------------
(* The rest of the types *)

LEMMA RestNext ==
  ASSUME IInv, Next
  PROVE  /\ ruledOut' \in [Callers -> SUBSET Nat]
         /\ pool' \in {"open", "draining", "stopping", "closed"}
<1>0. /\ ruledOut \in [Callers -> SUBSET Nat]
      /\ pool \in {"open", "draining", "stopping", "closed"}
      /\ call \in [Callers -> CallType]
  BY HolderOf DEF IInv, TypeOK
<1>1. ASSUME NEW c \in Callers, NEW op \in Ops, Enter(c, op)
      PROVE  UNCHANGED <<ruledOut, pool>>
  BY <1>1 DEF Enter
<1>2. ASSUME NEW c \in Callers, CallerGoesOn(c)
      PROVE  ruledOut' \in [Callers -> SUBSET Nat] /\ pool' = pool
  <2>1. CASE Grant(c)
    <3>1. PICK n \in 0..VariantsOf[PlanOf[c]] : ruledOut' = [ruledOut EXCEPT ![c] = 1..n]
      BY <2>1 DEF Grant
    <3>2. 1..n \subseteq Nat
      OBVIOUS
    <3> DEFINE variants == 1..n
    <3> HIDE DEF variants
    <3> QED
      BY <1>0, <2>1, <3>1, <3>2 DEF Grant, variants
  <2>2. CASE Leave(c)
    BY <1>0, <2>2 DEF Leave
  <2>3. CASE Refuse(c) \/ Ask(c) \/ NoneLeft(c) \/ ReleaseOutput(c)
    BY <1>0, <2>3 DEF Refuse, Ask, NoneLeft, ReleaseOutput
  <2> QED
    BY <1>2, <2>1, <2>2, <2>3 DEF CallerGoesOn
<1>3. ASSUME NEW p \in Plans, WaitEnds(p)
      PROVE  ruledOut' \in [Callers -> SUBSET Nat] /\ pool' = pool
  <2>1. CASE HearResponse(p)
    <3>1. holder \in Callers
      BY <2>1, Sent DEF HearResponse
    <3>2. call[holder].variant \in Nat
      BY <1>0, <3>1 DEF CallType
    <3> QED
      BY <1>0, <2>1, <3>1, <3>2 DEF HearResponse
  <2>2. CASE HearHello(p) \/ HearReady(p) \/ HearPong(p) \/ Fail(p)
    BY <1>0, <2>2 DEF HearHello, HearReady, HearPong, Fail
  <2> QED
    BY <1>3, <2>1, <2>2 DEF WaitEnds
<1>4. ASSUME NEW p \in Plans, Ping(p) \/ Reset(p) \/ WorkerNext(p)
      PROVE  UNCHANGED <<ruledOut, pool>>
  BY <1>4, WorkerMoves DEF Ping, Reset, WorkerActs
<1>5. CASE CloseLease \/ CloserGoesOn
  BY <1>0, <1>5 DEF CloseLease, CloserGoesOn, Drained, PoolClosed, AskToStop, StopWorker
<1> QED
  BY <1>0, <1>1, <1>2, <1>3, <1>4, <1>5 DEF Next

LEMMA TypeNext ==
  ASSUME IInv, Next
  PROVE  TypeOK'
<1>1. sup' \in [Plans -> SupType] /\ worker' \in [Plans -> WorkerType]
  BY ConversationsNext
<1>2. LeaseType'
  BY LeaseNext
<1>3. call' \in [Callers -> CallType]
  BY TurnNext
<1> QED
  BY <1>1, <1>2, <1>3, RestNext DEF TypeOK, LeaseType, CallType, SupType, WorkerType,
                                    States, Counts

-----------------------------------------------------------------------------
(* Who frees an output *)

Owed(p) == \A r \in worker[p].outputs : WasToldToFree(worker[p], r) \/ HasYetToFree(p, r)

\* What is sent behind an order to free an output leaves the order where it is.
LEMMA ToldKeeps ==
  ASSUME NEW w \in WorkerType, NEW f \in Frames, NEW r
  PROVE  /\ Told(w, f).outputs = w.outputs /\ Told(w, f).said = w.said
         /\ WasToldToFree(w, r) => WasToldToFree(Told(w, f), r)
         /\ IsAlive(w) /\ f = Frame("RELEASE_OUTPUT", r, "success")
                => WasToldToFree(Told(w, f), r)
<1> DEFINE t == Append(w.todo, f)
<1>1. w.todo \in Seq(Frames)
  BY DEF WorkerType
<1>2. /\ DOMAIN w.todo = 1..Len(w.todo) /\ DOMAIN t = 1..Len(t) /\ Len(w.todo) \in Nat
      /\ Len(t) = Len(w.todo) + 1
      /\ \A i \in 1..Len(w.todo) : t[i] = w.todo[i]
      /\ t[Len(w.todo) + 1] = f
  BY <1>1, AppendProperties, LenProperties
<1>3. CASE IsAlive(w)
  <2>1. /\ Told(w, f).todo = t /\ Told(w, f).outputs = w.outputs
        /\ Told(w, f).said = w.said
    BY <1>3 DEF Told, WorkerType
  <2> HIDE DEF t
  <2>2. Len(w.todo) + 1 \in DOMAIN t /\ \A i \in DOMAIN w.todo : i \in DOMAIN t
    BY <1>2
  <2> QED
    BY <1>2, <2>1, <2>2 DEF WasToldToFree
<1>4. CASE ~IsAlive(w)
  BY <1>4 DEF Told
<1> QED
  BY <1>3, <1>4

\* A worker that reads a frame still has to read the orders behind it.
LEMMA TakenKeeps ==
  ASSUME NEW w \in WorkerType, w.todo # <<>>, NEW r, WasToldToFree(w, r),
         Head(w.todo) # Frame("RELEASE_OUTPUT", r, "success")
  PROVE  \E i \in DOMAIN Tail(w.todo) : Tail(w.todo)[i] = Frame("RELEASE_OUTPUT", r, "success")
<1> DEFINE t == Tail(w.todo)
           f == Frame("RELEASE_OUTPUT", r, "success")
<1>1. w.todo \in Seq(Frames)
  BY DEF WorkerType
<1>2. /\ t \in Seq(Frames) /\ Len(t) = Len(w.todo) - 1
      /\ \A i \in 1..Len(t) : t[i] = w.todo[i + 1]
  BY <1>1, HeadTailProperties
<1>3. DOMAIN w.todo = 1..Len(w.todo) /\ DOMAIN t = 1..Len(t) /\ Len(w.todo) \in Nat
  BY <1>1, <1>2, LenProperties
<1>4. PICK i \in 1..Len(w.todo) : w.todo[i] = f
  BY <1>3 DEF WasToldToFree
<1>5. i # 1
  BY <1>4
<1> DEFINE j == i - 1
<1> HIDE DEF t, f
<1>6. j \in 1..Len(t) /\ j + 1 = i
  BY <1>2, <1>3, <1>4, <1>5
<1>7. t[j] = f
  BY <1>2, <1>4, <1>6
<1> QED
  BY <1>3, <1>6, <1>7 DEF t, f

\* Who has yet to free an output is the holder, at its own plan.
LEMMA WhoFrees ==
  ASSUME IInv, NEW p \in Plans, NEW r, HasYetToFree(p, r)
  PROVE  /\ holder \in Callers /\ PlanOf[holder] = p /\ r = Request(holder)
         /\ call[holder].step \in {"sent", "release"}
         /\ call[holder].step = "sent" => sup[p].await = "RESPONSE"
<1>1. holder \in Callers
  BY DEF HasYetToFree, IInv, TypeOK
<1>2. CASE call[holder].step = "release" /\ PlanOf[holder] = p
  BY <1>1, <1>2 DEF HasYetToFree
<1>3. CASE sup[p].await = "RESPONSE"
  BY <1>3, Sent DEF HasYetToFree
<1> QED
  BY <1>2, <1>3 DEF HasYetToFree

\* An output whose plan, whose holder and whose pipe are left alone stays owed.
LEMMA StaysOwed ==
  ASSUME IInv, Steady, NEW p \in Plans,
         worker'[p].outputs = worker[p].outputs, worker'[p].said = worker[p].said,
         sup'[p].await = sup[p].await,
         \A r \in worker[p].outputs :
            WasToldToFree(worker[p], r) => WasToldToFree(worker'[p], r),
         \/ \A r \in worker[p].outputs : ~HasYetToFree(p, r)
         \/ /\ holder' = holder
            /\ holder \in Callers => call'[holder] = call[holder]
  PROVE  Owed(p)'
<1> SUFFICES ASSUME NEW r \in worker[p].outputs
             PROVE  WasToldToFree(worker'[p], r) \/ HasYetToFree(p, r)'
  BY DEF Owed
<1>1. WasToldToFree(worker[p], r) \/ HasYetToFree(p, r)
  BY DEF IInv, OwedInv
<1>2. CASE WasToldToFree(worker[p], r)
  BY <1>2
<1>3. CASE HasYetToFree(p, r)
  <2>1. holder \in Callers /\ holder' = holder /\ call'[holder] = call[holder]
    BY <1>3, WhoFrees
  <2>2. Request(holder)' = Request(holder)
    BY <2>1 DEF Request, RequestFor
  <2> QED
    BY <1>3, <2>1, <2>2 DEF HasYetToFree
<1> QED
  BY <1>1, <1>2, <1>3

\* A worker that keeps nothing owes nothing.
LEMMA NothingOwed ==
  ASSUME NEW p \in Plans, worker'[p].outputs = {}
  PROVE  Owed(p)'
BY DEF Owed

\* Nobody's pipe moves, and the holder either stays or has nothing to free.
LEMMA NobodyOwes ==
  ASSUME IInv, Steady, UNCHANGED <<sup, worker>>,
         \/ holder \in Callers => call[holder].step \notin {"sent", "release"}
         \/ holder' = holder /\ (holder \in Callers => call'[holder] = call[holder])
  PROVE  OwedInv'
<1>1. ASSUME NEW p \in Plans
      PROVE  Owed(p)'
  BY WhoFrees, StaysOwed
<1> QED
  BY <1>1 DEF OwedInv, Owed

\* One plan moves, and what its holder does concerns no other plan.
LEMMA OthersOwe ==
  ASSUME IInv, Steady, NEW m \in Plans, NEW t, NEW v,
         sup' = [sup EXCEPT ![m] = t], worker' = [worker EXCEPT ![m] = v],
         \/ holder \in Callers => PlanOf[holder] = m
         \/ holder' = holder /\ (holder \in Callers => call'[holder] = call[holder]),
         Owed(m)'
  PROVE  OwedInv'
<1>0. sup \in [Plans -> SupType] /\ worker \in [Plans -> WorkerType]
  BY Talking
<1>1. ASSUME NEW p \in Plans
      PROVE  Owed(p)'
  <2>1. CASE p = m
    BY <2>1
  <2>2. CASE p # m
    <3>1. sup'[p] = sup[p] /\ worker'[p] = worker[p]
      BY <1>0, <2>2
    <3>2. ASSUME holder \in Callers => PlanOf[holder] = m
          PROVE  \A r \in worker[p].outputs : ~HasYetToFree(p, r)
      BY <2>2, <3>2, WhoFrees
    <3> QED
      BY <3>1, <3>2, StaysOwed
  <2> QED
    BY <2>1, <2>2
<1> QED
  BY <1>1 DEF OwedInv, Owed

\* A caller's steps.
LEMMA CallerOwes ==
  ASSUME IInv, Steady, NEW c \in Callers, CallerGoesOn(c) \/ \E op \in Ops : Enter(c, op)
  PROVE  OwedInv'
<1> DEFINE p == PlanOf[c]
<1>0. /\ p \in Plans /\ sup \in [Plans -> SupType] /\ worker \in [Plans -> WorkerType]
      /\ call \in [Callers -> CallType]
  <2>1. p \in Plans
    BY PlanAssumption
  <2> QED
    BY <2>1, Talking, HolderOf
<1>1. Talks(sup[p], worker[p], Request(holder))
  BY <1>0, Talking
<1>2. CASE (\E op \in Ops : Enter(c, op)) \/ Refuse(c)
  <2>1. /\ UNCHANGED <<holder, sup, worker>> /\ call[c].step \in {"idle", "queued"}
        /\ \A d \in Callers \ {c} : call'[d] = call[d]
    BY <1>0, <1>2 DEF Enter, Refuse
  <2>2. c # holder
    BY <2>1, HolderOf
  <2>3. holder \in Callers => call'[holder] = call[holder]
    BY <2>1, <2>2
  <2> QED
    BY <2>1, <2>3, NobodyOwes
<1>3. CASE Grant(c)
  <2>1. UNCHANGED <<sup, worker>> /\ holder \notin Callers
    BY <1>3, CallersAssumption DEF Grant, Free
  <2> QED
    BY <2>1, NobodyOwes
<1>4. CASE Leave(c) \/ NoneLeft(c)
  <2>1. /\ UNCHANGED <<sup, worker>> /\ call[c].step \in {"leave", "choose"}
    BY <1>4 DEF Leave, NoneLeft
  <2>2. c = holder
    BY <2>1, Holding
  <2> QED
    BY <2>1, <2>2, NobodyOwes
<1>5. ASSUME c = holder, NEW t, NEW v,
             sup' = [sup EXCEPT ![p] = t], worker' = [worker EXCEPT ![p] = v],
             v.outputs = {}
      PROVE  OwedInv'
  <2>1. worker'[p].outputs = {}
    BY <1>0, <1>5
  <2>2. Owed(p)'
    BY <1>0, <2>1, NothingOwed
  <2> QED
    BY <1>0, <1>5, <2>2, OthersOwe
<1>6. NoWorker.outputs = {} /\ Spawned.outputs = {}
  BY DEF NoWorker, Spawned
<1>7. ASSUME c = holder, NEW v, NEW failures, Launch(c, v, failures)
      PROVE  OwedInv'
  <2>1. CASE /\ sup' = [sup EXCEPT ![p].state = "STARTING", ![p].failures = failures,
                                   ![p].await = "HELLO"]
             /\ worker' = [worker EXCEPT ![p] = Spawned]
    <3> DEFINE t == [sup[p] EXCEPT !.state = "STARTING", !.failures = failures,
                                   !.await = "HELLO"]
    <3>1. sup' = [sup EXCEPT ![p] = t]
      BY <1>0, <2>1
    <3> HIDE DEF t
    <3> QED
      BY <1>5, <1>6, <1>7, <2>1, <3>1
  <2>2. CASE /\ \E kept \in 0..failures : sup' = [sup EXCEPT ![p] = Recorded(@, kept)]
             /\ worker' = [worker EXCEPT ![p] = NoWorker]
    BY <1>5, <1>6, <1>7, <2>2
  <2> QED
    BY <1>7, <2>1, <2>2 DEF Launch
<1>8. CASE Ask(c)
  <2>1. call[c].step = "choose" /\ UNCHANGED lease
    BY <1>8 DEF Ask
  <2>2. c = holder
    BY <2>1, Holding
  <2>3. PICK v \in 1..VariantsOf[p] :
        \/ UNCHANGED <<sup, worker>>
        \/ /\ sup' = [sup EXCEPT ![p].state = "BUSY", ![p].await = "RESPONSE"]
           /\ worker' = [worker EXCEPT ![p] = Told(@, Execute(RequestFor(c, v)))]
        \/ \E kept \in 0..sup[p].failures :
              \/ /\ sup' = [sup EXCEPT ![p] = Recorded(@, kept)]
                 /\ worker' = [worker EXCEPT ![p] = NoWorker]
              \/ Launch(c, v, kept + 1)
        \/ Launch(c, v, sup[p].failures)
    BY <1>8 DEF Ask
  <2>4. CASE UNCHANGED <<sup, worker>>
    BY <2>1, <2>2, <2>4, NobodyOwes
  <2>5. CASE /\ sup' = [sup EXCEPT ![p].state = "BUSY", ![p].await = "RESPONSE"]
             /\ worker' = [worker EXCEPT ![p] = Told(@, Execute(RequestFor(c, v)))]
    <3> DEFINE f == Execute(RequestFor(c, v))
               t == [sup[p] EXCEPT !.state = "BUSY", !.await = "RESPONSE"]
    <3>1. f \in Frames
      <4>1. v \in Nat
        BY <1>0, BoundsAssumption
      <4> QED
        BY <4>1, RequestType, FrameTypesHold DEF IInv
    <3>2. worker' = [worker EXCEPT ![p] = Told(@, f)] /\ sup' = [sup EXCEPT ![p] = t]
      BY <1>0, <2>5
    <3> HIDE DEF f, t
    <3>3. worker'[p] = Told(worker[p], f)
      BY <1>0, <3>2
    <3>4. ASSUME NEW r \in worker'[p].outputs
          PROVE  WasToldToFree(worker'[p], r)
      <4>1. worker'[p].outputs = worker[p].outputs
        BY <1>0, <3>1, <3>3, ToldKeeps
      <4>2. ~HasYetToFree(p, r)
        BY <1>0, <2>1, <2>2, WhoFrees
      <4>3. WasToldToFree(worker[p], r)
        BY <1>0, <3>4, <4>1, <4>2 DEF IInv, OwedInv
      <4> QED
        BY <1>0, <3>1, <3>3, <4>3, ToldKeeps
    <3>5. Owed(p)'
      BY <3>4 DEF Owed
    <3> QED
      BY <1>0, <2>2, <3>2, <3>5, OthersOwe
  <2> QED
    BY <1>5, <1>6, <1>7, <2>2, <2>3, <2>4, <2>5
<1>9. CASE ReleaseOutput(c)
  <2> DEFINE f == Frame("RELEASE_OUTPUT", Request(c), "success")
  <2>1. /\ call[c].step = "release" /\ sup[p].await = "none"
        /\ \/ /\ sup[p].state = "READY" /\ UNCHANGED sup
              /\ worker' = [worker EXCEPT ![p] = Told(@, f)]
           \/ /\ \E kept \in 0..sup[p].failures : sup' = [sup EXCEPT ![p] = Recorded(@, kept)]
              /\ worker' = [worker EXCEPT ![p] = NoWorker]
           \/ sup[p].state # "READY" /\ UNCHANGED <<sup, worker>>
    BY <1>9 DEF ReleaseOutput, RecordFailure, Unlocked
  <2>2. c = holder
    BY <2>1, Holding
  <2>3. CASE /\ UNCHANGED sup
             /\ worker' = [worker EXCEPT ![p] = Told(@, f)]
    <3>1. f \in Frames
      BY RequestType, FrameTypesHold DEF IInv
    <3>2. worker'[p] = Told(worker[p], f)
      BY <1>0, <2>3
    <3>3. sup' = [sup EXCEPT ![p] = sup[p]]
      BY <1>0, <2>3
    <3>4. ASSUME NEW r \in worker'[p].outputs
          PROVE  WasToldToFree(worker'[p], r)
      <4>1. worker'[p].outputs = worker[p].outputs
        BY <1>0, <3>1, <3>2, ToldKeeps
      <4>2. CASE WasToldToFree(worker[p], r)
        BY <1>0, <3>1, <3>2, <4>2, ToldKeeps
      <4>3. CASE HasYetToFree(p, r)
        <5>1. r = Request(c)
          BY <1>0, <2>2, <4>3, WhoFrees
        <5>2. IsAlive(worker[p])
          BY <1>1, <3>4, <4>1 DEF Talks, Conversation, IsAlive
        <5> QED
          BY <1>0, <3>1, <3>2, <5>1, <5>2, ToldKeeps
      <4> QED
        BY <1>0, <3>4, <4>1, <4>2, <4>3 DEF IInv, OwedInv
    <3>5. Owed(p)'
      BY <3>4 DEF Owed
    <3> HIDE DEF f
    <3> QED
      BY <1>0, <2>2, <2>3, <3>3, <3>5, OthersOwe
  <2>4. CASE sup[p].state # "READY" /\ UNCHANGED <<sup, worker>>
    <3>1. worker[p] = NoWorker
      BY <1>1, <2>1, <2>4 DEF Talks, Conversation, Rests
    <3>2. sup' = [sup EXCEPT ![p] = sup[p]] /\ worker' = [worker EXCEPT ![p] = worker[p]]
      BY <1>0, <2>4
    <3> QED
      BY <1>5, <1>6, <2>2, <3>1, <3>2
  <2> QED
    BY <1>5, <1>6, <2>1, <2>2, <2>3, <2>4
<1> QED
  BY <1>2, <1>3, <1>4, <1>8, <1>9 DEF CallerGoesOn

\* What a supervisor hears, and when it gives up on its worker.
LEMMA WaitOwes ==
  ASSUME IInv, Steady, NEW p \in Plans, WaitEnds(p)
  PROVE  OwedInv'
<1> DEFINE w == worker[p]
<1>0. /\ sup \in [Plans -> SupType] /\ worker \in [Plans -> WorkerType]
      /\ call \in [Callers -> CallType] /\ w \in WorkerType
      /\ Talks(sup[p], w, Request(holder))
  BY Talking, HolderOf
<1>1. ASSUME w.said # <<>>
      PROVE  /\ w.todo = <<>> /\ Read(w).outputs = w.outputs /\ Read(w).said = <<>>
             /\ Read(w) \in WorkerType
             /\ IsAnswer(sup[p], Head(w.said), Request(holder))
             /\ \A r \in w.outputs : HasYetToFree(p, r)
  <2>1. /\ w.todo = <<>> /\ Read(w).outputs = w.outputs /\ Read(w).said = <<>>
        /\ Read(w) \in WorkerType /\ IsAnswer(sup[p], Head(w.said), Request(holder))
    <3> HIDE DEF w
    <3> QED
      BY <1>0, <1>1, WhatIsHeard
  <2>2. \A r \in w.outputs : ~WasToldToFree(w, r)
    BY <2>1 DEF WasToldToFree
  <2> QED
    BY <2>1, <2>2 DEF IInv, OwedInv
<1>2. CASE HearHello(p) \/ HearReady(p)
  <2>1. w.said # <<>> /\ sup[p].await \in {"HELLO", "READY"}
    BY <1>2 DEF HearHello, HearReady, Expected
  <2>2. w.outputs = {}
    <3>1. call[holder].step = "sent"
      BY <2>1, Sent
    <3>2. ASSUME NEW r \in w.outputs
          PROVE  FALSE
      BY <1>1, <2>1, <3>1, <3>2, WhoFrees
    <3> QED
      BY <3>2
  <2>3. PICK f \in Frames : /\ \E t : sup' = [sup EXCEPT ![p] = t]
                            /\ worker' = [worker EXCEPT ![p] = Told(Read(@), f)]
                            /\ UNCHANGED <<holder, call>>
    <3>1. CASE HearHello(p)
      <4> DEFINE t == [sup[p] EXCEPT !.await = "READY"]
                 f == Signal("INITIALIZE")
      <4>1. /\ sup' = [sup EXCEPT ![p] = t] /\ UNCHANGED <<holder, call>>
            /\ worker' = [worker EXCEPT ![p] = Told(Read(@), f)]
        BY <1>0, <3>1 DEF HearHello, lease
      <4>2. f \in Frames
        BY FrameTypesHold DEF FrameTypes
      <4> HIDE DEF t, f
      <4> QED
        BY <4>1, <4>2
    <3>2. CASE HearReady(p)
      <4> DEFINE t == [sup[p] EXCEPT !.state = "BUSY", !.await = "RESPONSE"]
                 f == Execute(Request(holder))
      <4>1. /\ sup' = [sup EXCEPT ![p] = t] /\ UNCHANGED <<holder, call>>
            /\ worker' = [worker EXCEPT ![p] = Told(Read(@), f)]
        BY <1>0, <3>2 DEF HearReady, lease
      <4>2. f \in Frames
        BY <2>1, Sent, FrameTypesHold
      <4> HIDE DEF t, f
      <4> QED
        BY <4>1, <4>2
    <3> QED
      BY <1>2, <3>1, <3>2
  <2>4. worker'[p].outputs = {}
    BY <1>0, <1>1, <2>1, <2>2, <2>3, ToldKeeps
  <2>5. Owed(p)'
    BY <2>4, NothingOwed
  <2>6. worker' = [worker EXCEPT ![p] = worker'[p]]
    BY <1>0, <2>3
  <2> QED
    BY <2>3, <2>5, <2>6, OthersOwe
<1>3. CASE HearResponse(p)
  <2> DEFINE result == FirstSaid(p).result
             t == [sup[p] EXCEPT !.state = "READY", !.await = "none"]
  <2>1. /\ w.said # <<>> /\ sup[p].await = "RESPONSE" /\ holder' = holder
        /\ call' = [call EXCEPT ![holder].step = AfterAnswer(holder, result)]
        /\ sup' = [sup EXCEPT ![p] = t] /\ worker' = [worker EXCEPT ![p] = Read(@)]
    BY <1>0, <1>3 DEF HearResponse, Expected, lease
  <2>2. /\ holder \in Callers /\ holder # None /\ call[holder].step = "sent"
        /\ PlanOf[holder] = p
    BY <2>1, Sent, CallersAssumption
  <2>3. ASSUME NEW r \in worker'[p].outputs
        PROVE  HasYetToFree(p, r)'
    <3>1. r \in w.outputs
      BY <1>0, <1>1, <2>1, <2>3
    <3>2. HasYetToFree(p, r) /\ r = Request(holder)
      BY <1>1, <2>1, <3>1, WhoFrees
    <3>3. /\ r.op = "represent"
          /\ \E q \in {"success", "wrong"} : w.said = <<Response(r, q)>>
      BY <2>2, <3>2 DEF HasYetToFree
    <3>4. result \in {"success", "wrong"}
      <4>1. \A q : Head(<<Response(r, q)>>).result = q
        BY DEF Response, Frame
      <4> QED
        BY <3>3, <4>1 DEF FirstSaid
    <3>5. call[holder].op = "represent"
      BY <3>2, <3>3 DEF Request, RequestFor
    <3>6. AfterAnswer(holder, result) = "release"
      <4> HIDE DEF result
      <4> QED
        BY <3>4, <3>5 DEF AfterAnswer
    <3>7. call'[holder].step = "release"
      BY <1>0, <2>1, <2>2, <3>6 DEF CallType
    <3>8. Request(holder)' = Request(holder)
      BY <2>1 DEF Steady
    <3> QED
      BY <2>1, <2>2, <3>2, <3>7, <3>8 DEF HasYetToFree
  <2>4. Owed(p)'
    BY <2>3 DEF Owed
  <2>5. worker' = [worker EXCEPT ![p] = worker'[p]]
    BY <1>0, <2>1
  <2> HIDE DEF t
  <2> QED
    BY <2>1, <2>2, <2>4, <2>5, OthersOwe
<1>4. CASE HearPong(p)
  <2> DEFINE t == [sup[p] EXCEPT !.await = "none"]
  <2>1. /\ w.said # <<>> /\ sup[p].await = "PONG" /\ UNCHANGED <<holder, call>>
        /\ sup' = [sup EXCEPT ![p] = t] /\ worker' = [worker EXCEPT ![p] = Read(@)]
    BY <1>0, <1>4 DEF HearPong, Expected, lease
  <2>2. ASSUME NEW r \in worker'[p].outputs
        PROVE  HasYetToFree(p, r)'
    <3>1. r \in w.outputs
      BY <1>0, <1>1, <2>1, <2>2
    <3>2. HasYetToFree(p, r) /\ call[holder].step # "sent"
      BY <1>1, <2>1, <3>1, WhoFrees
    <3>3. Request(holder)' = Request(holder)
      BY <2>1 DEF Request, RequestFor
    <3> QED
      BY <2>1, <3>2, <3>3 DEF HasYetToFree
  <2>3. Owed(p)'
    BY <2>2 DEF Owed
  <2>4. worker' = [worker EXCEPT ![p] = worker'[p]]
    BY <1>0, <2>1
  <2> HIDE DEF t
  <2> QED
    BY <2>1, <2>3, <2>4, OthersOwe
<1>5. CASE Fail(p)
  <2>1. PICK kept \in 0..sup[p].failures : sup' = [sup EXCEPT ![p] = Recorded(@, kept)]
    BY <1>5 DEF Fail, RecordFailure
  <2>2. worker' = [worker EXCEPT ![p] = NoWorker] /\ holder' = holder
    BY <1>5 DEF Fail, RecordFailure, lease
  <2>3. worker'[p].outputs = {}
    BY <1>0, <2>2 DEF NoWorker
  <2>4. Owed(p)'
    BY <2>3, NothingOwed
  <2>5. \/ holder \in Callers => PlanOf[holder] = p
        \/ call' = call
    <3>1. CASE sup[p].await = "PONG"
      BY <1>5, <3>1 DEF Fail
    <3>2. CASE sup[p].await # "PONG"
      <4>1. sup[p].await \in {"HELLO", "READY", "RESPONSE"}
        BY <1>0, <1>5, <3>2 DEF Fail, Unlocked, SupType, Awaited
      <4> QED
        BY <4>1, Sent
    <3> QED
      BY <3>1, <3>2
  <2> DEFINE t == Recorded(sup[p], kept)
  <2>6. sup' = [sup EXCEPT ![p] = t]
    BY <1>0, <2>1
  <2> HIDE DEF t
  <2> QED
    BY <2>2, <2>4, <2>5, <2>6, OthersOwe
<1> QED
  BY <1>2, <1>3, <1>4, <1>5 DEF WaitEnds

\* What a worker does.
LEMMA WorkerOwes ==
  ASSUME IInv, Steady, NEW p \in Plans, WorkerNext(p)
  PROVE  OwedInv'
<1> DEFINE w == worker[p]
<1>0. /\ sup \in [Plans -> SupType] /\ worker \in [Plans -> WorkerType]
      /\ w \in WorkerType /\ Talks(sup[p], w, Request(holder))
  BY Talking
<1>1. UNCHANGED <<holder, call, sup>> /\ worker' = [worker EXCEPT ![p] = worker'[p]]
  BY WorkerMoves DEF WorkerActs, lease
<1>2. ASSUME Owed(p)'
      PROVE  OwedInv'
  <2>1. sup' = [sup EXCEPT ![p] = sup[p]]
    BY <1>0, <1>1
  <2> DEFINE v == worker'[p]
  <2>2. worker' = [worker EXCEPT ![p] = v]
    BY <1>1
  <2> HIDE DEF v
  <2> QED
    BY <1>1, <1>2, <2>1, <2>2, OthersOwe
<1>3. \A r \in w.outputs : WasToldToFree(w, r) \/ HasYetToFree(p, r)
  BY DEF IInv, OwedInv
<1>4. ASSUME NEW r, HasYetToFree(p, r), w.said = <<>>
      PROVE  HasYetToFree(p, r)'
  <2>1. /\ holder # None /\ r = Request(holder)
        /\ call[holder].step = "release" /\ PlanOf[holder] = p
    BY <1>4 DEF HasYetToFree
  <2>2. Request(holder)' = Request(holder)
    BY <1>1 DEF Request, RequestFor
  <2> QED
    BY <1>1, <2>1, <2>2 DEF HasYetToFree
<1>5. ASSUME w.phase = "serving", w.todo # <<>>
      PROVE  w.said = <<>>
  <2> HIDE DEF w
  <2> QED
    BY <1>0, <1>5, ServingReads
<1>6. ASSUME w.said = <<>>, w.todo # <<>>,
             worker'[p].todo = Tail(w.todo), worker'[p].outputs \subseteq w.outputs,
             \A r \in worker'[p].outputs : Head(w.todo) # Frame("RELEASE_OUTPUT", r, "success")
      PROVE  OwedInv'
  <2>1. ASSUME NEW r \in worker'[p].outputs
        PROVE  WasToldToFree(worker'[p], r) \/ HasYetToFree(p, r)'
    <3>1. CASE WasToldToFree(w, r)
      <4>1. Head(w.todo) # Frame("RELEASE_OUTPUT", r, "success")
        BY <1>6, <2>1
      <4>2. \E i \in DOMAIN Tail(w.todo) :
                Tail(w.todo)[i] = Frame("RELEASE_OUTPUT", r, "success")
        <5> HIDE DEF w
        <5> QED
          BY <1>0, <1>6, <3>1, <4>1, TakenKeeps
      <4> QED
        BY <1>6, <4>2 DEF WasToldToFree
    <3>2. CASE HasYetToFree(p, r)
      BY <1>4, <1>6, <3>2
    <3> QED
      BY <1>3, <1>6, <2>1, <3>1, <3>2
  <2>2. Owed(p)'
    BY <2>1 DEF Owed
  <2> QED
    BY <1>2, <2>2
<1>7. \A t, r : t # "RELEASE_OUTPUT" => /\ \A f : f.type = t => f # Frame("RELEASE_OUTPUT", r, "success")
  BY DEF Frame
<1>8. CASE WorkerHello(p)
  <2>1. /\ worker'[p].outputs = w.outputs /\ worker'[p].todo = w.todo
        /\ w.phase = "loading"
    BY <1>0, <1>8 DEF WorkerHello, Says, WorkerType
  <2>2. w.said = <<>>
    BY <1>0, <2>1 DEF Talks, Conversation, Rests, Waits, PhaseAfter, NoWorker
  <2>3. ASSUME NEW r \in worker'[p].outputs
        PROVE  WasToldToFree(worker'[p], r) \/ HasYetToFree(p, r)'
    BY <1>3, <1>4, <2>1, <2>2, <2>3 DEF WasToldToFree
  <2>4. Owed(p)'
    BY <2>3 DEF Owed
  <2> QED
    BY <1>2, <2>4
<1>9. CASE WorkerInitialized(p)
  <2>1. /\ worker'[p].outputs = w.outputs /\ worker'[p].todo = Tail(w.todo)
        /\ w.phase = "greeted" /\ w.todo # <<>> /\ Head(w.todo).type = "INITIALIZE"
    BY <1>0, <1>9 DEF WorkerInitialized, WorkerReceives, Says, Taken, WorkerType
  <2>2. w.said = <<>>
    BY <1>0, <2>1 DEF Talks, Conversation, Rests, Waits, PhaseAfter, NoWorker
  <2> QED
    BY <1>6, <1>7, <2>1, <2>2
<1>10. CASE WorkerExecutes(p)
  <2>1. /\ worker'[p].outputs = w.outputs /\ worker'[p].todo = Tail(w.todo)
        /\ w.phase = "serving" /\ w.todo # <<>> /\ Head(w.todo).type = "EXECUTE"
    BY <1>0, <1>10 DEF WorkerExecutes, WorkerReceives, Taken, WorkerType
  <2> QED
    BY <1>5, <1>6, <1>7, <2>1
<1>11. ASSUME NEW result \in Results, WorkerAnswers(p, result)
       PROVE  OwedInv'
  <2>1. /\ sup[p].await = "RESPONSE" /\ w.said = <<>> /\ w.todo = <<>>
        /\ w.job = Request(holder)
    <3>1. w.phase = "running"
      BY <1>11 DEF WorkerAnswers
    <3> HIDE DEF w
    <3> QED
      BY <1>0, <3>1, Running
  <2>2. holder \in Callers /\ holder # None /\ call[holder].step = "sent"
    BY <2>1, Sent, CallersAssumption
  <2>3. w.outputs = {}
    <3>1. ASSUME NEW r \in w.outputs
          PROVE  FALSE
      <4>1. ~WasToldToFree(w, r)
        BY <2>1 DEF WasToldToFree
      <4>2. HasYetToFree(p, r)
        BY <1>3, <3>1, <4>1
      <4> QED
        BY <2>1, <2>2, <4>2 DEF HasYetToFree
    <3> QED
      BY <3>1
  <2> DEFINE f == Response(w.job, result)
             O == w.outputs \cup Made(w.job, result)
  <2>4. worker'[p] = [Says(w, f) EXCEPT !.phase = "serving", !.job = NoRequest, !.outputs = O]
    BY <1>0, <1>11 DEF WorkerAnswers, Says, WorkerType
  <2>5. worker'[p].outputs = O /\ worker'[p].said = <<f>>
    <3> HIDE DEF f, O
    <3> QED
      BY <1>0, <2>1, <2>4 DEF Says, WorkerType
  <2>6. ASSUME NEW r \in worker'[p].outputs
        PROVE  HasYetToFree(p, r)'
    <3>1. r = w.job /\ r.op = "represent" /\ result \in {"success", "wrong"}
      BY <2>3, <2>5, <2>6 DEF Made
    <3>2. Request(holder)' = Request(holder)
      BY <1>1 DEF Request, RequestFor
    <3>3. worker'[p].said = <<Response(r, result)>>
      BY <2>5, <3>1
    <3> QED
      BY <1>1, <2>1, <2>2, <3>1, <3>2, <3>3 DEF HasYetToFree
  <2>7. Owed(p)'
    BY <2>6 DEF Owed
  <2> QED
    BY <1>2, <2>7
<1>12. CASE WorkerReleases(p)
  <2> DEFINE O == w.outputs \ {Head(w.todo).request}
  <2>1. /\ w.phase = "serving" /\ w.todo # <<>>
        /\ worker'[p] = [Taken(w) EXCEPT !.outputs = O]
    <3>1. Taken(w).outputs = w.outputs
      BY <1>0 DEF Taken, WorkerType
    <3> QED
      BY <1>0, <1>12, <3>1 DEF WorkerReleases, WorkerReceives
  <2>2. worker'[p].outputs = O /\ worker'[p].todo = Tail(w.todo)
    <3> HIDE DEF O
    <3> QED
      BY <1>0, <2>1 DEF Taken, WorkerType
  <2>3. ASSUME NEW r \in worker'[p].outputs
        PROVE  Head(w.todo) # Frame("RELEASE_OUTPUT", r, "success")
    BY <2>2, <2>3 DEF Frame
  <2> QED
    BY <1>5, <1>6, <2>1, <2>2, <2>3
<1>13. CASE WorkerPongs(p)
  <2>1. /\ worker'[p].outputs = w.outputs /\ worker'[p].todo = Tail(w.todo)
        /\ w.phase = "serving" /\ w.todo # <<>> /\ Head(w.todo).type = "PING"
    BY <1>0, <1>13 DEF WorkerPongs, WorkerReceives, Says, Taken, WorkerType
  <2> QED
    BY <1>5, <1>6, <1>7, <2>1
<1>14. CASE WorkerShutsDown(p) \/ WorkerDies(p)
  <2>1. worker'[p].outputs = {}
    BY <1>0, <1>14 DEF WorkerShutsDown, WorkerDies, Gone, Says, WorkerType
  <2> QED
    BY <1>2, <2>1, NothingOwed
<1> QED
  BY <1>8, <1>9, <1>10, <1>11, <1>12, <1>13, <1>14 DEF WorkerNext

\* A sign of life, a pardon and the end.
LEMMA OtherOwes ==
  ASSUME IInv, Steady,
         CloseLease \/ CloserGoesOn \/ \E p \in Plans : Ping(p) \/ Reset(p)
  PROVE  OwedInv'
<1>0. sup \in [Plans -> SupType] /\ worker \in [Plans -> WorkerType]
  BY DEF IInv, TypeOK, SupType, WorkerType, States, Counts
<1>1. CASE CloseLease \/ Drained
  <2>1. UNCHANGED <<holder, call, sup, worker>>
    BY <1>1 DEF CloseLease, Drained, lease
  <2> QED
    BY <2>1, NobodyOwes
<1>2. ASSUME NEW p \in Plans, NEW t, NEW f \in Frames, UNCHANGED <<holder, call>>,
             sup' = [sup EXCEPT ![p] = t], worker' = [worker EXCEPT ![p] = Told(@, f)],
             sup[p].await = "none"
      PROVE  OwedInv'
  <2>1. worker'[p] = Told(worker[p], f) /\ worker' = [worker EXCEPT ![p] = worker'[p]]
    BY <1>0, <1>2
  <2>2. worker'[p].outputs = worker[p].outputs
    BY <1>0, <2>1, ToldKeeps
  <2>3. ASSUME NEW r \in worker'[p].outputs
        PROVE  WasToldToFree(worker'[p], r) \/ HasYetToFree(p, r)'
    <3>1. CASE WasToldToFree(worker[p], r)
      BY <1>0, <2>1, <3>1, ToldKeeps
    <3>2. CASE HasYetToFree(p, r)
      <4>1. /\ holder # None /\ r = Request(holder)
            /\ call[holder].step = "release" /\ PlanOf[holder] = p
        BY <1>2, <3>2 DEF HasYetToFree
      <4>2. Request(holder)' = Request(holder)
        BY <1>2 DEF Request, RequestFor
      <4> QED
        BY <1>2, <4>1, <4>2 DEF HasYetToFree
    <3> QED
      BY <2>2, <2>3, <3>1, <3>2 DEF IInv, OwedInv
  <2>4. Owed(p)'
    BY <2>3 DEF Owed
  <2> QED
    BY <1>2, <2>1, <2>4, OthersOwe
<1>3. ASSUME NEW p \in Plans, Ping(p)
      PROVE  OwedInv'
  <2> DEFINE n == sup[p].pings + 1
             t == [sup[p] EXCEPT !.await = "PONG", !.pings = n]
             f == Signal("PING")
  <2>1. /\ UNCHANGED <<holder, call>> /\ sup' = [sup EXCEPT ![p] = t]
        /\ worker' = [worker EXCEPT ![p] = Told(@, f)] /\ sup[p].await = "none"
    BY <1>0, <1>3 DEF Ping, Unlocked, lease
  <2>2. f \in Frames
    BY FrameTypesHold DEF FrameTypes
  <2> HIDE DEF t, f
  <2> QED
    BY <1>2, <2>1, <2>2
<1>4. ASSUME NEW p \in Plans, AskToStop(p)
      PROVE  OwedInv'
  <2> DEFINE t == [sup[p] EXCEPT !.state = "STOPPING", !.await = "SHUTDOWN_ACK"]
             f == Signal("SHUTDOWN")
  <2>1. /\ UNCHANGED <<holder, call>> /\ sup' = [sup EXCEPT ![p] = t]
        /\ worker' = [worker EXCEPT ![p] = Told(@, f)] /\ sup[p].await = "none"
    BY <1>0, <1>4 DEF AskToStop, Unlocked, lease
  <2>2. f \in Frames
    BY FrameTypesHold DEF FrameTypes
  <2> HIDE DEF t, f
  <2> QED
    BY <1>2, <2>1, <2>2
<1>5. ASSUME NEW p \in Plans, Reset(p)
      PROVE  OwedInv'
  <2> DEFINE state == IF sup[p].state = "FAILED" THEN "STOPPED" ELSE sup[p].state
             t == [sup[p] EXCEPT !.failures = 0, !.state = state]
  <2>1. /\ UNCHANGED <<holder, call, worker>> /\ sup' = [sup EXCEPT ![p] = t]
        /\ worker' = [worker EXCEPT ![p] = worker[p]]
    BY <1>0, <1>5 DEF Reset, lease
  <2> HIDE DEF state
  <2>2. t.await = sup[p].await
    BY <1>0 DEF SupType
  <2> HIDE DEF t
  <2>3. sup'[p].await = sup[p].await
    BY <1>0, <2>1, <2>2
  <2>4. Owed(p)'
    BY <2>1, <2>3, StaysOwed
  <2> QED
    BY <2>1, <2>4, OthersOwe
<1>6. ASSUME NEW p \in Plans, StopWorker(p)
      PROVE  OwedInv'
  <2>1. /\ UNCHANGED <<holder, call>>
        /\ sup' = [sup EXCEPT ![p] = Stopped(sup[p])] /\ worker' = [worker EXCEPT ![p] = NoWorker]
    BY <1>0, <1>6 DEF StopWorker, lease
  <2>2. worker'[p].outputs = {}
    BY <1>0, <2>1 DEF NoWorker
  <2>3. Owed(p)'
    BY <2>2, NothingOwed
  <2> QED
    BY <2>1, <2>3, OthersOwe
<1>7. CASE PoolClosed
  <2>1. ASSUME NEW p \in Plans
        PROVE  Owed(p)'
    <3>1. worker'[p] = NoWorker
      BY <1>7, ClosedPipes
    <3>2. worker'[p].outputs = {}
      BY <3>1 DEF NoWorker
    <3> QED
      BY <3>2, NothingOwed
  <2> QED
    BY <2>1 DEF OwedInv, Owed
<1> QED
  BY <1>1, <1>3, <1>4, <1>5, <1>6, <1>7 DEF CloserGoesOn

LEMMA OwedNext ==
  ASSUME IInv, Next
  PROVE  OwedInv'
BY SteadyNext, CallerOwes, WaitOwes, WorkerOwes, OtherOwes DEF Next

-----------------------------------------------------------------------------
(* The invariant *)

LEMMA InitInv == Init => IInv
<1> SUFFICES ASSUME Init PROVE IInv
  OBVIOUS
<1> DEFINE s == [state |-> "STOPPED", failures |-> 0, pings |-> 0, await |-> "none"]
<1>1. /\ s \in SupType /\ s.await = "none" /\ s.state = "STOPPED"
      /\ ~(s.failures > MaxRestarts)
  BY BoundsAssumption DEF SupType, States, Counts
<1>2. NoWorker \in WorkerType /\ NoWorker.outputs = {}
  BY FrameTypesHold, EmptySeq DEF NoWorker, WorkerType
<1>3. /\ sup = [p \in Plans |-> s] /\ worker = [p \in Plans |-> NoWorker]
  BY DEF Init
<1> HIDE DEF s
<1>4. Idle \in CallType /\ Idle.step = "idle"
  BY DEF Idle, CallType, Ops
<1>5. TypeOK
  <2>1. /\ sup \in [Plans -> SupType] /\ worker \in [Plans -> WorkerType]
    BY <1>1, <1>2, <1>3
  <2>2. /\ waiting \in [Classes -> Seq(Callers)] /\ call \in [Callers -> CallType]
        /\ ruledOut \in [Callers -> SUBSET Nat]
    BY <1>4, EmptySeq DEF Init
  <2>3. /\ holder = None /\ streak \in 0..Burst /\ passed \in 0..(Burst + 1)
        /\ closed = FALSE /\ pool = "open"
    BY BoundsAssumption DEF Init
  <2> QED
    BY <2>1, <2>2, <2>3 DEF TypeOK, CallType, SupType, WorkerType, States, Counts
<1>6. TurnsInv
  BY EmptySeq DEF Init, TurnsInv, Classes
<1>7. TurnInv
  BY <1>1, <1>3, <1>4, CallersAssumption DEF Init, TurnInv, OneRequestAtATime
<1>8. PipeInv
  <2>1. ASSUME NEW p \in Plans
        PROVE  Conversation(sup[p], worker[p], Request(holder))
    BY <1>1, <1>3, <2>1, Alone DEF Talks
  <2> QED
    BY <2>1 DEF PipeInv, Init
<1>9. OwedInv
  BY <1>2, <1>3 DEF OwedInv
<1> QED
  BY <1>5, <1>6, <1>7, <1>8, <1>9 DEF IInv

LEMMA InvNext == IInv /\ [Next]_vars => IInv'
<1> SUFFICES ASSUME IInv, [Next]_vars PROVE IInv'
  OBVIOUS
<1>1. CASE Next
  BY <1>1, TypeNext, LeaseNext, TurnNext, PipeNext, OwedNext DEF IInv
<1>2. CASE UNCHANGED vars
  <2>1. UNCHANGED <<waiting, holder, streak, passed, closed, call, ruledOut, sup, worker, pool>>
    BY <1>2 DEF vars, lease
  <2>2. TypeOK' /\ TurnsInv'
    BY <2>1 DEF IInv, TypeOK, TurnsInv
  <2>3. TurnInv'
    BY <2>1 DEF IInv, TurnInv, OneRequestAtATime
  <2>4. Request(holder)' = Request(holder)
    BY <2>1 DEF Request, RequestFor
  <2>5. PipeInv'
    BY <2>1, <2>4 DEF IInv, PipeInv
  <2>6. OwedInv'
    BY <2>1, <2>4 DEF IInv, OwedInv, HasYetToFree
  <2> QED
    BY <2>2, <2>3, <2>5, <2>6 DEF IInv
<1> QED
  BY <1>1, <1>2

\* IInv holds in every state of every behaviour.
THEOREM Invariant == Spec => []IInv
<1>1. Init => IInv
  BY InitInv
<1>2. IInv /\ [Next]_vars => IInv'
  BY InvNext
<1> QED
  BY <1>1, <1>2, PTL DEF Spec

\* Every variable keeps its type, whatever hangs, dies or times out.
THEOREM TypeCorrect == Spec => []TypeOK
<1>1. IInv => TypeOK
  BY DEF IInv
<1> QED
  BY <1>1, Invariant, PTL

\* At most one caller is past the lease, it is the holder, a supervisor that waits for
\* an answer waits for that caller, and no worker is stopped under a request
\* (ml/supervisor/lease.py held, api/real.py ClientPool.close).
THEOREM TurnsAreTaken == Spec => []OneRequestAtATime
<1>1. IInv => OneRequestAtATime
  BY DEF IInv, TurnInv
<1> QED
  BY <1>1, Invariant, PTL

\* No more than a burst of interactive requests overtakes the background request at the
\* head of its queue, for any burst and any number of callers
\* (ml/supervisor/lease.py _next, BURST).
THEOREM BackgroundIsServed == Spec => []BackgroundHasItsTurn
<1>1. ASSUME IInv
      PROVE  BackgroundHasItsTurn
  <2>1. passed <= streak /\ streak \in 0..Burst /\ passed \in 0..(Burst + 1) /\ Burst \in Nat
    BY <1>1, BoundsAssumption DEF IInv, TurnsInv, TypeOK
  <2> QED
    BY <2>1 DEF BackgroundHasItsTurn
<1> QED
  BY <1>1, Invariant, PTL

\* What can be read from a worker's pipe is one frame, the one its supervisor waits for:
\* a worker that no fault hit is never taken for a broken one, whatever was pinged,
\* freed or given up before (ml/supervisor/supervisor.py _receive, _fail).
THEOREM PipeHoldsTheAnswer == Spec => []OnlyTheAwaitedIsSaid
<1>1. ASSUME IInv
      PROVE  OnlyTheAwaitedIsSaid
  <2>1. ASSUME NEW p \in Plans, worker[p].said # <<>>
        PROVE  Len(worker[p].said) = 1 /\ Expected(p)
    <3>1. Talks(sup[p], worker[p], Request(holder))
      BY <1>1, Talking
    <3>2. Len(worker[p].said) = 1
      BY <2>1, <3>1, WhatIsHeard
    <3> QED
      BY <1>1, <2>1, <3>2, HeardIsExpected
  <2> QED
    BY <2>1 DEF OnlyTheAwaitedIsSaid
<1> QED
  BY <1>1, Invariant, PTL

\* A long-lived worker keeps no output that nobody will free: each is about to be read
\* by the caller that asked for it, or the worker was told to free it
\* (app/runtime/perception_client.py represent, ml/worker/loop.py _execute).
THEOREM OutputsAreOwed == Spec => []EveryOutputIsOwed
<1>1. ASSUME IInv
      PROVE  EveryOutputIsOwed
  <2>1. ASSUME NEW p \in Plans, NEW r \in worker[p].outputs, HasYetToFree(p, r)
        PROVE  r.caller = holder /\ call[holder].step \in {"sent", "release"}
               /\ r = Request(holder)
    <3>1. r = Request(holder) /\ call[holder].step \in {"sent", "release"}
      BY <1>1, <2>1, WhoFrees
    <3> QED
      BY <3>1 DEF Request, RequestFor
  <2> QED
    BY <1>1, <2>1 DEF IInv, OwedInv, EveryOutputIsOwed, WasToldToFree
<1> QED
  BY <1>1, Invariant, PTL

\* The state a supervisor reports is the truth about its process, it rests in no state
\* that promises an end, and FAILED means that more failures than are forgiven were
\* counted (ml/supervisor/supervisor.py _record_failure, stop).
THEOREM StateIsTrue == Spec => []StateTellsTheTruth
<1>1. ASSUME IInv
      PROVE  StateTellsTheTruth
  <2>1. ASSUME NEW p \in Plans
        PROVE  /\ sup[p].state \in {"STARTING", "READY", "BUSY", "STOPPING"} <=> worker[p] # NoWorker
               /\ sup[p].state \in {"STARTING", "BUSY", "STOPPING"} => ~Unlocked(p)
               /\ sup[p].state = "FAILED" <=> sup[p].failures > MaxRestarts
    <3>1. Talks(sup[p], worker[p], Request(holder))
      BY <1>1, Talking
    <3> QED
      BY <3>1, WaitingState DEF Unlocked, Talks, Conversation
  <2>2. pool = "closed" => \A p \in Plans : worker[p] = NoWorker
    BY <1>1 DEF IInv, PipeInv
  <2> QED
    BY <2>1, <2>2 DEF StateTellsTheTruth
<1> QED
  BY <1>1, Invariant, PTL

=============================================================================

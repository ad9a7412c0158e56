------------------------------ MODULE MemoryIndex ------------------------------
(***************************************************************************)
(* Face vectors in SQLite, the derived index files, and erasure.           *)
(*                                                                         *)
(* A representation becomes ACTIVE at acceptance together with a PENDING   *)
(* `ADD`; erasing it makes it ERASING together with a PENDING `REMOVE`.    *)
(* One coordinator pass at a time, under the coordinator's lock, applies   *)
(* due operations to the files of the space and settles them.  The eraser  *)
(* then retires the files, clears the vectors (ERASED) and truncates the   *)
(* write-ahead log.  Threads are the `Main` one, which runs startup and    *)
(* then the scheduler, and the callers of erase and of face search.        *)
(* One representation space: spaces share only the lock and the marker.    *)
(* Faults are files that stay locked, failing writes and busy checkpoints: *)
(* in a behaviour they may happen at any time, or never.                   *)
(***************************************************************************)
EXTENDS Naturals, Sequences, FiniteSets, SequencesExt

CONSTANTS
    Rep,        \* representations the space may hold
    Caller,     \* threads of the API
    Main,       \* the thread of startup and, later, of the scheduler
    MaxTries,   \* RetryPolicy.max_attempts
    Batch,      \* index_batch: operations per pass after an acceptance
    MayFail     \* whether anything outside the program may fail

Nobody == "nobody"

ASSUME MemoryAssumption ==
    /\ Main \notin Caller
    /\ Nobody \notin Caller \cup {Main}
    /\ MaxTries \in Nat \ {0}
    /\ Batch \in Nat \ {0}
    /\ MayFail \in BOOLEAN
    /\ IsFiniteSet(Rep)

VARIABLES
    rep,          \* representations.state
    keyed,        \* representations with an ann_key
    queue,        \* PENDING operations that are due, by not_before_at
    backoff,      \* PENDING operations that wait after a failed attempt
    applied,      \* APPLIED operations
    failed,       \* FAILED operations
    tries,        \* attempt_count of each operation
    marker,       \* app_state wal_truncation_owed: 0, or a value of its own
    log,          \* representations whose vector the write-ahead log may hold
    live,         \* the index generation that the manifest names
    stale,        \* superseded index files, each the vectors it holds
    quarantined,  \* quarantined index files
    lock,         \* holder of the coordinator's lock
    pass,         \* the coordinator pass of the holder
    thread,       \* what each thread is doing
    phase,        \* closed, starting (recovery), open
    faults        \* whether something may fail in this behaviour

ops   == <<queue, backoff, applied, failed, tries>>
rows  == <<rep, keyed>>
files == <<live, stale, quarantined>>
state == <<rep, keyed, queue, backoff, applied, failed, tries, marker, log, live,
           stale, quarantined, lock, pass, thread, phase>>
vars  == <<state, faults>>

-----------------------------------------------------------------------------
(* Types *)

Thread  == Caller \cup {Main}
Op      == Rep \X {"ADD", "REMOVE"}
Removes(reps) == {<<r, "REMOVE">> : r \in reps}
Pending == ToSet(queue) \cup backoff
Active  == {r \in Rep : rep[r] = "ACTIVE"}   \* _active_keys, _active_entries
Erasing == {r \in Rep : rep[r] = "ERASING"}

PassStep == {"none", "open", "build", "write", "publish", "apply", "retired", "settle"}
NoPass == [step |-> "none", validate |-> FALSE, rebuilt |-> FALSE, purge |-> FALSE,
           changed |-> FALSE, claimed |-> << >>, todo |-> << >>, ok |-> {}, mem |-> {}]

Step == {"idle", "search", "decide", "drive", "pass", "finalize", "clear", "summarize",
         "read_marker", "truncate", "clear_marker", "done", "down", "accepting",
         "validate", "requeue", "resume", "catch_up", "caught_up"}

\* A thread between two calls: `home` is where its next call returns to.
Rest(step) == [step |-> step, home |-> step, limit |-> 0, scope |-> {}, ready |-> {},
               erased |-> {}, owed |-> FALSE, token |-> 0, seen |-> {}]

Passes == [step : PassStep, validate : BOOLEAN, rebuilt : BOOLEAN, purge : BOOLEAN,
           changed : BOOLEAN, claimed : Seq(Op), todo : Seq(Op), ok : SUBSET Op,
           mem : SUBSET Rep]
Calls == [step : Step, home : Step, limit : Nat, scope : SUBSET Rep, ready : SUBSET Rep,
          erased : SUBSET Rep, owed : BOOLEAN, token : 0..Cardinality(Rep),
          seen : SUBSET Rep]

TypeOK ==
    /\ rep \in [Rep -> {"PENDING", "ACTIVE", "ERASING", "ERASED"}]
    /\ keyed \subseteq Rep
    /\ queue \in Seq(Op)
    /\ \A kind \in {backoff, applied, failed} : kind \subseteq Op
    /\ tries \in [Op -> 0..MaxTries]
    /\ marker \in 0..Cardinality(Rep)
    /\ log \subseteq Rep
    /\ live \in [state : {"NONE", "SOUND", "DAMAGED"}, keys : SUBSET Rep]
    /\ stale \subseteq SUBSET Rep
    /\ quarantined \subseteq SUBSET Rep
    /\ lock \in Thread \cup {Nobody}
    /\ pass \in Passes
    /\ thread \in [Thread -> Calls]
    /\ phase \in {"closed", "starting", "open"}

Init ==
    /\ rep = [r \in Rep |-> "PENDING"]
    /\ keyed = {}
    /\ queue = << >> /\ backoff = {} /\ applied = {} /\ failed = {}
    /\ tries = [op \in Op |-> 0]
    /\ marker = 0
    /\ log = Rep
    /\ live = [state |-> "NONE", keys |-> {}]
    /\ stale = {} /\ quarantined = {}
    /\ lock = Nobody
    /\ pass = NoPass
    /\ thread = [t \in Thread |-> Rest("idle")]
    /\ phase = "open"
    /\ faults \in {FALSE, MayFail}

At(t, step) == thread[t].step = step
GoTo(t, step) == thread' = [thread EXCEPT ![t].step = step]
Return(t) == thread' = [thread EXCEPT ![t] = Rest(thread[t].home)]

\* Unlinking or moving files: with faults some of them may stay.
LeftOf(some) == IF faults THEN SUBSET some ELSE {{}}

-----------------------------------------------------------------------------
(* Index operations *)

\* SelectSeq as a recursive function, which the prover can unfold.
Kept(seq, some) ==
    LET kept[n \in 0..Len(seq)] ==
            IF n = 0 THEN << >>
            ELSE IF seq[n] \in some THEN Append(kept[n - 1], seq[n]) ELSE kept[n - 1]
    IN  kept[Len(seq)]

Without(some) == Kept(queue, Op \ some)

\* append_batch: due now, and any PENDING opposite of the same representation goes.
Appended(new) ==
    {Without({op \in Op : \E n \in new : n[1] = op[1]}) \o order :
         order \in SetToSeqs(new)}

\* Acceptance: the representations of a run become eligible with their `ADD`s.  The
\* same thread then wakes the coordinator, but for startup, which catches up later.
Accept(new) ==
    /\ thread[Main].step \in {"idle", "accepting"}
    /\ phase # "closed"
    /\ new # {}
    /\ \A r \in new : rep[r] = "PENDING"
    /\ rep' = [r \in Rep |-> IF r \in new THEN "ACTIVE" ELSE rep[r]]
    /\ keyed' = keyed \cup new
    /\ queue' \in Appended({<<r, "ADD">> : r \in new})
    /\ log' = log \cup new
    /\ IF phase = "open"
       THEN thread' = [thread EXCEPT ![Main].step = "pass", ![Main].limit = Batch]
       ELSE UNCHANGED thread
    /\ UNCHANGED <<backoff, applied, failed, tries, marker, files, lock, pass, phase>>

\* Variant: a REMOVE that ran out of attempts is left for the next start.
NeedsNewRemove(r) == \A set \in {Pending, applied, failed} : <<r, "REMOVE">> \notin set
NeedsRemove(r) == <<r, "REMOVE">> \notin Pending \cup applied

\* RepresentationEraser._queue: exclude from every reader and queue the removals.
\* A REMOVE that is missing, or has run out of attempts, is due again.
QueueErasure(scope) ==
    LET moved   == {r \in scope : rep[r] \in {"PENDING", "ACTIVE"}}
        removes == Removes({r \in keyed : \/ r \in moved
                                          \/ rep[r] = "ERASING" /\ NeedsRemove(r)})
    IN  /\ rep' = [r \in Rep |-> IF r \in moved THEN "ERASING" ELSE rep[r]]
        /\ log' = log \cup moved
        /\ queue' \in Appended(removes)
        /\ backoff' = {op \in backoff : \A new \in removes : new[1] # op[1]}
        /\ failed' = failed \ removes
        /\ tries' = [op \in Op |-> IF op \in removes THEN 0 ELSE tries[op]]
        /\ UNCHANGED <<keyed, applied, marker, files, lock, pass, phase>>

BackoffEnds(op) ==
    /\ op \in backoff
    /\ queue' = Append(queue, op)
    /\ backoff' = backoff \ {op}
    /\ UNCHANGED <<rows, applied, failed, tries, marker, log, files, lock, pass, thread,
                   phase>>

-----------------------------------------------------------------------------
(* One coordinator pass, by the holder of the lock *)

Claim(t) ==
    LET due == SubSeq(queue, 1, IF thread[t].limit < Len(queue) THEN thread[t].limit
                                ELSE Len(queue))
    IN  /\ At(t, "pass")
        /\ lock = Nobody
        /\ IF due = << >>
           THEN /\ IF thread[t].scope = {} THEN Return(t) ELSE GoTo(t, "finalize")
                /\ UNCHANGED <<lock, pass>>
           ELSE /\ lock' = t
                /\ pass' = [NoPass EXCEPT !.step = "open", !.claimed = due, !.todo = due]
                /\ UNCHANGED thread
        /\ UNCHANGED <<rows, ops, marker, log, files, phase>>

\* open_or_rebuild: a sound index loses its leftovers; any other is quarantined, as
\* far as its files can be moved, and rebuilt.
OpenIndex ==
    /\ pass.step = "open"
    /\ IF live.state = "SOUND"
       THEN /\ stale' \in LeftOf(stale)
            /\ pass' = [pass EXCEPT !.step = "apply", !.mem = live.keys]
            /\ UNCHANGED <<live, quarantined>>
       ELSE LET own == stale \cup (IF live.state = "NONE" THEN {} ELSE {live.keys})
            IN  /\ stale' \in LeftOf(own)
                /\ quarantined' = quarantined \cup (own \ stale')
                /\ live' = [state |-> "NONE", keys |-> {}]
                /\ pass' = [pass EXCEPT !.step = "build", !.rebuilt = pass.validate]
    /\ UNCHANGED <<rows, ops, marker, log, lock, thread, phase>>

\* Variant: a rebuild takes every stored vector.
Stored == {r \in Rep : rep[r] \in {"ACTIVE", "ERASING"}}
Entries == Active

Build ==
    /\ pass.step = "build"
    /\ pass' = [pass EXCEPT !.step = "write", !.mem = Entries, !.changed = FALSE]
    /\ UNCHANGED <<rows, ops, marker, log, files, lock, thread, phase>>

WriteGeneration ==
    /\ pass.step = "write"
    /\ pass' = [pass EXCEPT !.step = "publish"]
    /\ UNCHANGED <<rows, ops, marker, log, files, lock, thread, phase>>

\* The manifest is replaced; the previous generation's file is now a leftover.
Publish ==
    /\ pass.step = "publish"
    /\ live' = [state |-> "SOUND", keys |-> pass.mem]
    /\ stale' \in LeftOf(stale \cup (IF live.state = "NONE" THEN {} ELSE {live.keys}))
    /\ pass' = [pass EXCEPT !.step = "apply", !.changed = FALSE]
    /\ UNCHANGED <<rows, ops, marker, log, quarantined, lock, thread, phase>>

\* _apply_one, on the representation as it is now.  Nothing is indexed that is no
\* longer ACTIVE; what is being erased is purged, by a rebuild.
ApplyOne ==
    LET op == Head(pass.todo)
        r  == op[1]
        purge == op[2] = "REMOVE" /\ (r \notin keyed \/ rep[r] = "ERASING")
        mem == CASE op[2] = "ADD" /\ r \in Active -> pass.mem \cup {r}
                 [] op[2] = "REMOVE" /\ ~purge    -> pass.mem \ {r}
                 [] OTHER                         -> pass.mem
    IN  /\ pass.step = "apply"
        /\ pass.todo # << >>
        /\ pass' = [pass EXCEPT !.todo = Tail(@), !.ok = @ \cup {op}, !.mem = mem,
                               !.purge = @ \/ purge, !.changed = @ \/ mem # pass.mem]
        /\ UNCHANGED <<rows, ops, marker, log, files, lock, thread, phase>>

\* All applied in memory.  A purge rebuilds from SQLite and applies them again; what
\* changed is published; a validation compares instead and rebuilds what differs.
AfterApply ==
    LET purges == pass.purge /\ pass.ok # {} /\ ~pass.rebuilt
        differs == IF pass.validate THEN ~pass.rebuilt /\ pass.mem # Active
                   ELSE pass.changed
    IN  /\ pass.step = "apply"
        /\ pass.todo = << >>
        /\ pass' = CASE purges \/ (pass.validate /\ differs) ->
                          [pass EXCEPT !.step = "build", !.rebuilt = TRUE,
                                       !.todo = Kept(pass.claimed, pass.ok)]
                     [] ~purges /\ ~pass.validate /\ differs ->
                          [pass EXCEPT !.step = "write"]
                     [] OTHER -> [pass EXCEPT !.step = "retired"]
        /\ UNCHANGED <<rows, ops, marker, log, files, lock, thread, phase>>

\* A REMOVE is not applied while a superseded file of the space is still there, and
\* a purge that left one fails as a whole.
Retired ==
    /\ pass.step = "retired"
    /\ pass' = [pass EXCEPT !.step = "settle",
                           !.ok = IF stale = {} THEN @
                                  ELSE IF pass.purge THEN {}
                                  ELSE {op \in @ : op[2] = "ADD"}]
    /\ UNCHANGED <<rows, ops, marker, log, files, lock, thread, phase>>

\* One operation fails; in the second round of a purge that fails the batch.
OperationFails ==
    /\ faults
    /\ pass.step = "apply"
    /\ pass.todo # << >>
    /\ pass' = IF pass.rebuilt THEN [pass EXCEPT !.step = "settle", !.ok = {}]
               ELSE [pass EXCEPT !.todo = Tail(@)]
    /\ UNCHANGED <<rows, ops, marker, log, files, lock, thread, phase>>

\* The file that a step was writing, or had written, is left behind under its own name.
Unfinished == CASE pass.step = "write"   -> {stale, stale \cup {pass.mem}}
                [] pass.step = "publish" -> {stale \cup {pass.mem}}
                [] OTHER                 -> {stale}

SpaceFails ==
    /\ faults
    /\ ~pass.validate
    /\ pass.step \in {"open", "build", "write", "publish"}
    /\ stale' \in Unfinished
    /\ pass' = [pass EXCEPT !.step = "settle", !.ok = {}]
    /\ UNCHANGED <<rows, ops, marker, log, live, quarantined, lock, thread, phase>>

RanOut(op) == tries[op] + 1 >= MaxTries

\* Variant: every operation that was tried counts as applied.
AllTried == ToSet(pass.claimed)
Succeeded == pass.ok

\* One transaction, then the lock is released.  An operation that is no longer
\* PENDING is skipped.
Settle ==
    LET t     == lock
        still == ToSet(pass.claimed) \cap Pending
        lost  == {op \in still \ Succeeded : RanOut(op)}
        again == still \ (Succeeded \cup lost)
        owed  == \E op \in lost \cup again : op[1] \in Erasing
    IN  /\ pass.step = "settle"
        /\ ~pass.validate
        /\ applied' = applied \cup (still \cap Succeeded)
        /\ failed' = failed \cup lost
        /\ tries' = [op \in Op |-> IF op \in still THEN tries[op] + 1 ELSE tries[op]]
        /\ queue' = Without(still)
        /\ backoff' = (backoff \ still) \cup again
        /\ IF thread[t].scope = {} THEN Return(t)
           ELSE thread' = [thread EXCEPT ![t].step = "finalize", ![t].owed = owed]
        /\ lock' = Nobody
        /\ pass' = NoPass
        /\ UNCHANGED <<rows, marker, log, files, phase>>

PassStepTaken ==
    \/ OpenIndex \/ Build \/ WriteGeneration \/ Publish \/ ApplyOne \/ AfterApply
    \/ Retired \/ OperationFails \/ SpaceFails \/ Settle

-----------------------------------------------------------------------------
(* Erasure: RepresentationEraser.erase and resume *)

Erase(t, scope) ==
    /\ phase = "open"
    /\ t \in Caller
    /\ At(t, "idle")
    /\ scope # {}
    /\ QueueErasure(scope)
    /\ thread' = [thread EXCEPT ![t].step = "drive", ![t].scope = scope]

\* Variant: no more than a pass after an acceptance takes.
OneBatch == Batch
EveryDue == Cardinality(Pending)

\* Variant: without a due operation there is nothing to finalize.
OnlyIfDue == IF Pending = {} THEN "summarize" ELSE "pass"
AfterDrive == IF Erasing = {} THEN "summarize"
              ELSE IF Pending = {} THEN "finalize" ELSE "pass"

\* _drive: a pass for every operation that is PENDING now, if anything is ERASING.
Drive(t) ==
    /\ At(t, "drive")
    /\ thread' = [thread EXCEPT ![t].limit = EveryDue, ![t].step = AfterDrive]
    /\ UNCHANGED <<rows, ops, marker, log, files, lock, pass, phase>>

RemovalDone(r) ==
    /\ <<r, "REMOVE">> \in applied
    /\ <<r, "REMOVE">> \notin Pending \cup failed

\* Variant: the quarantine is not looked at again.
LeftInPlace(retired) == stale
Left(retired) == stale \cup retired

\* _finalize_space, under the lock: what may be cleared, once no superseded or
\* quarantined file is left.  Without a key a vector never was in a file.
FinalizeSpace(t) ==
    LET removed == {r \in Erasing \cap keyed : RemovalDone(r)}
        keyless == Erasing \ keyed
    IN  /\ At(t, "finalize")
        /\ lock = Nobody
        /\ IF removed = {} THEN UNCHANGED quarantined
           ELSE quarantined' \in LeftOf(quarantined)
        /\ LET clean == removed = {} \/ Left(quarantined') = {}
               ready == IF clean THEN removed \cup keyless ELSE keyless
           IN  /\ thread' = [thread EXCEPT ![t].ready = ready,
                                           ![t].owed = @ \/ ~clean,
                                           ![t].step = IF ready = {} THEN "summarize"
                                                       ELSE "clear"]
               /\ lock' = IF ready = {} THEN Nobody ELSE t
        /\ UNCHANGED <<rows, ops, marker, log, live, stale, pass, phase>>

\* _clear: ERASED, without vector and key, and a truncation is owed.  The marker's
\* value is new; here it is how many are erased by then.
Clear(t) ==
    LET cleared == thread[t].ready \cap Erasing
    IN  /\ At(t, "clear")
        /\ rep' = [r \in Rep |-> IF r \in cleared THEN "ERASED" ELSE rep[r]]
        /\ keyed' = keyed \ cleared
        /\ log' = log \cup cleared
        /\ marker' = Cardinality({r \in Rep : rep'[r] = "ERASED"})
        /\ lock' = Nobody
        /\ GoTo(t, "summarize")
        /\ UNCHANGED <<ops, files, pass, phase>>

Summarize(t) ==
    /\ At(t, "summarize")
    /\ thread' = [thread EXCEPT
                    ![t].erased = {r \in thread[t].scope : rep[r] = "ERASED"},
                    ![t].owed = @ \/ thread[t].scope \cap Erasing # {},
                    ![t].step = "read_marker"]
    /\ UNCHANGED <<rows, ops, marker, log, files, lock, pass, phase>>

ReadMarker(t) ==
    /\ At(t, "read_marker")
    /\ thread' = [thread EXCEPT ![t].token = marker,
                                ![t].step = IF marker = 0 THEN "done" ELSE "truncate"]
    /\ UNCHANGED <<rows, ops, marker, log, files, lock, pass, phase>>

\* Variant: a checkpoint that a reader kept from truncating is taken for a truncation.
NotReported(t) == thread' = [thread EXCEPT ![t].step = "done"]
StillOwed(t) == thread' = [thread EXCEPT ![t].owed = TRUE, ![t].step = "done"]

\* The checkpoint truncates the log, or a reader is in its way: still owed.
Truncate(t) ==
    /\ At(t, "truncate")
    /\ \/ log' = {} /\ GoTo(t, "clear_marker")
       \/ /\ faults
          /\ StillOwed(t)
          /\ UNCHANGED log
    /\ UNCHANGED <<rows, ops, marker, files, lock, pass, phase>>

\* Variant: whatever the marker says now is cleared.
ClearWhatever(t) == marker' = 0
ClearIfUnchanged(t) == marker' = IF marker = thread[t].token THEN 0 ELSE marker

ClearMarker(t) ==
    /\ At(t, "clear_marker")
    /\ ClearIfUnchanged(t)
    /\ GoTo(t, "done")
    /\ UNCHANGED <<rows, ops, log, files, lock, pass, phase>>

Report(t) ==
    /\ At(t, "done")
    /\ Return(t)
    /\ UNCHANGED <<rows, ops, marker, log, files, lock, pass, phase>>

\* Finalizing the space fails: it is reported as blocked, and the call goes on.
SpaceBlocked(t) ==
    /\ faults
    /\ \/ At(t, "finalize") /\ lock = Nobody
       \/ At(t, "clear")
    /\ thread' = [thread EXCEPT ![t].owed = TRUE, ![t].step = "summarize"]
    /\ lock' = Nobody
    /\ UNCHANGED <<rows, ops, marker, log, files, pass, phase>>

\* Any other transaction of a call fails: the call is over, without a report.  Startup
\* goes on when it was the resumed erasure, and fails when it was catching up.
CallFails(t) ==
    /\ faults
    /\ \/ thread[t].step \in {"drive", "summarize", "read_marker", "clear_marker", "done"}
       \/ At(t, "pass") /\ (lock = t => pass.step = "settle")
    /\ IF thread[t].home = "caught_up"
       THEN thread' = [thread EXCEPT ![t] = Rest("down")] /\ phase' = "closed"
       ELSE Return(t) /\ UNCHANGED phase
    /\ IF lock = t THEN lock' = Nobody /\ pass' = NoPass ELSE UNCHANGED <<lock, pass>>
    /\ UNCHANGED <<rows, ops, marker, log, files>>

EraserStep(t) ==
    \/ Drive(t) \/ FinalizeSpace(t) \/ Clear(t) \/ Summarize(t) \/ ReadMarker(t)
    \/ Truncate(t) \/ ClearMarker(t) \/ Report(t) \/ SpaceBlocked(t)

-----------------------------------------------------------------------------
(* Recognition: open the index, then revalidate against one snapshot of SQLite *)

\* open_for_recognition fails closed on an index that is damaged or missing.
Readable == live.state = "SOUND" \/ (live.state = "NONE" /\ Active = {})

\* Variant: the index is opened without the coordinator's lock.
Unlocked(t) == UNCHANGED lock
Exclusive(t) == lock = Nobody /\ lock' = t

\* Face search holds the coordinator's lock from before the index is opened.
Search(t) ==
    /\ phase = "open"
    /\ t \in Caller
    /\ At(t, "idle")
    /\ Readable
    /\ Exclusive(t)
    /\ thread' = [thread EXCEPT ![t].step = "search", ![t].seen = live.keys]
    /\ UNCHANGED <<rows, ops, marker, log, files, pass, phase>>

SearchAnswer(t) ==
    /\ At(t, "search")
    /\ lock' = IF lock = t THEN Nobody ELSE lock
    /\ Return(t)
    /\ UNCHANGED <<rows, ops, marker, log, files, pass, phase>>

\* The executor opens the index without it.
Decide ==
    /\ phase = "open"
    /\ At(Main, "idle")
    /\ Readable
    /\ thread' = [thread EXCEPT ![Main].step = "decide", ![Main].seen = live.keys]
    /\ UNCHANGED <<rows, ops, marker, log, files, lock, pass, phase>>

DecideAnswer ==
    /\ At(Main, "decide")
    /\ Return(Main)
    /\ UNCHANGED <<rows, ops, marker, log, files, lock, pass, phase>>

-----------------------------------------------------------------------------
(* The process and its startup, in the order of recover_on_startup *)

Crash ==
    /\ phase # "closed"
    /\ phase' = "closed"
    /\ stale' \in Unfinished
    /\ lock' = Nobody
    /\ pass' = NoPass
    /\ thread' = [t \in Thread |-> Rest(IF t = Main THEN "down" ELSE "idle")]
    /\ UNCHANGED <<rows, ops, marker, log, live, quarantined>>

\* accept_finalizing_runs comes first: see Accept.
Start ==
    /\ phase = "closed"
    /\ phase' = "starting"
    /\ thread' = [thread EXCEPT ![Main] = Rest("accepting")]
    /\ UNCHANGED <<rows, ops, marker, log, files, lock, pass>>

\* validate_indexes: every index that is missing, damaged or stale is rebuilt.
Validate ==
    /\ At(Main, "accepting")
    /\ GoTo(Main, "validate")
    /\ lock' = Main
    /\ pass' = [NoPass EXCEPT !.step = "open", !.validate = TRUE]
    /\ UNCHANGED <<rows, ops, marker, log, files, phase>>

Validated ==
    /\ pass.validate
    /\ pass.step = "settle"
    /\ GoTo(Main, "requeue")
    /\ lock' = Nobody
    /\ pass' = NoPass
    /\ UNCHANGED <<rows, ops, marker, log, files, phase>>

\* requeue_failed_operations: a fresh set of attempts for what ran out of them.
Requeue ==
    /\ At(Main, "requeue")
    /\ GoTo(Main, "resume")
    /\ \E order \in SetToSeqs(failed) : queue' = queue \o order
    /\ tries' = [op \in Op |-> IF op \in failed THEN 0 ELSE tries[op]]
    /\ failed' = {}
    /\ UNCHANGED <<rows, backoff, applied, marker, log, files, lock, pass, phase>>

\* resume: the steps of erase for everything that is ERASING.
Resume ==
    /\ At(Main, "resume")
    /\ QueueErasure({})
    /\ thread' = [thread EXCEPT ![Main] = [Rest("catch_up") EXCEPT !.step = "drive",
                                                                  !.scope = Rep]]

\* At least one pass over what is due, a bounded number of them, and then the library
\* opens.
CatchUp ==
    /\ \/ At(Main, "catch_up")
       \/ At(Main, "caught_up") /\ queue # << >>
    /\ thread' = [thread EXCEPT ![Main].step = "pass", ![Main].home = "caught_up",
                               ![Main].limit = Batch]
    /\ UNCHANGED <<rows, ops, marker, log, files, lock, pass, phase>>

OpenLibrary ==
    /\ At(Main, "caught_up")
    /\ phase' = "open"
    /\ thread' = [thread EXCEPT ![Main] = Rest("idle")]
    /\ UNCHANGED <<rows, ops, marker, log, files, lock, pass>>

\* Something outside the program damages or removes the file that is live.
Damage ==
    /\ faults
    /\ live.state = "SOUND"
    /\ \/ live' = [live EXCEPT !.state = "DAMAGED"] /\ UNCHANGED stale
       \/ live' = [state |-> "NONE", keys |-> {}] /\ stale' = stale \cup {live.keys}
    /\ UNCHANGED <<rows, ops, marker, log, quarantined, lock, pass, thread, phase>>

-----------------------------------------------------------------------------

StartupStep ==
    Start \/ Validate \/ Validated \/ Requeue \/ Resume \/ CatchUp \/ OpenLibrary

ThreadStep(t) == Claim(t) \/ EraserStep(t) \/ CallFails(t) \/ SearchAnswer(t)

Next ==
    /\ \/ \E new \in SUBSET Rep : Accept(new)
       \/ \E t \in Caller, scope \in SUBSET Rep : Erase(t, scope)
       \/ \E t \in Caller : Search(t)
       \/ \E t \in Thread : ThreadStep(t)
       \/ PassStepTaken
       \/ \E op \in Op : BackoffEnds(op)
       \/ Decide \/ DecideAnswer
       \/ Crash \/ StartupStep \/ Damage
    /\ UNCHANGED faults

Spec == Init /\ [][Next]_vars

-----------------------------------------------------------------------------
(* Properties *)

Erased == {r \in Rep : rep[r] = "ERASED"}
OnDisk == UNION (stale \cup quarantined \cup {live.keys}
                 \cup (IF pass.step = "publish" THEN {pass.mem} ELSE {}))

\* An erased vector is in no index file: not the live one, no superseded or
\* quarantined one, none that an interrupted pass left, and none ever written later.
ErasedIsGone == Erased \cap OnDisk = {}

\* While the write-ahead log may hold an erased vector, a truncation is recorded as
\* owed, however erasures, truncations and crashes interleave.
LogIsOwed == Erased \cap log # {} => marker # 0

\* An erasure that reports itself complete is: every representation it was asked to
\* erase is erased, and its vector is neither in an index file nor in the log.
CompleteReportIsTrue ==
    \A t \in Thread : At(t, "done") /\ ~thread[t].owed =>
        /\ thread[t].scope \cap Erasing = {}
        /\ thread[t].erased \cap (OnDisk \cup log) = {}
        /\ thread[t].home = "idle" => thread[t].erased = thread[t].scope

\* What is ACTIVE and whose ADD was recorded as applied is in the live generation.
IndexCoversMemory ==
    live.state = "SOUND" =>
        \A r \in Active : <<r, "ADD">> \in applied => r \in live.keys

\* Nothing of the space is waiting or has failed (retrieval.py index_converged).
Converged == Pending \cup failed = {}

\* A face search that calls its answer converged looked at an index that held every
\* face the library had accepted, whatever committed while it was looking.
SearchIsComplete ==
    \A t \in Caller : At(t, "search") /\ Converged => Active \subseteq thread[t].seen

\* The same of recognition during processing (retrieval.py: what SQLite holds, the
\* index holds).
DecisionIsComplete ==
    At(Main, "decide") /\ Converged => Active \subseteq thread[Main].seen

\* When nothing outside the program fails, an erasure call that returns is complete,
\* whatever the other threads do and wherever the process was killed before.
NothingIsOwed ==
    ~faults => \A t \in Thread : At(t, "done") => ~thread[t].owed

\* A start on which nothing fails finishes every erasure an earlier one began: none
\* is left under way when the library opens, nor in the log.
RecoveryFinishesErasures ==
    [][~faults /\ phase = "starting" /\ phase' = "open" =>
          Erasing = {} /\ Erased \cap log = {}]_vars
=============================================================================

--------------------------- MODULE ArtifactsProofs ---------------------------
(* Proofs, for any artifacts, places and callers, that the originals of the  *)
(* library are kept, that what is recorded of a managed one is the hash of   *)
(* the imported image, that deletions can be finished and leave nothing, and *)
(* that recovery settles or reports whatever a crash left half done.         *)
EXTENDS Artifacts, TLAPS

All == Caller \cup {Main}
Leaving == OnTheWay \cup {"DELETED"}
WriteSteps == {"stage", "rename", "publish", "undo"}
DeleteSteps == {"intent", "unlink", "unlink failed", "settle"}
Steps == WriteSteps \cup DeleteSteps \cup
         {"idle", "reread", "examine", "found", "lost", "inspect", "relink", "carry",
          "erase", "finish", "request"}
Phases == {"down", "pending", "deleting", "staging", "missing", "resume", "open"}

Row == [state : ArtifactState \cup {"FREE"}, mode : {"MANAGED", "REFERENCED", None},
        at : Artifact \cup Place \cup {None}, recorded : Image \cup {None}]
SourceState == {"NONE", "DELETING", "DELETED"} \cup Visible
Call == [op : {"none", "import", "create", "recheck", "relink", "delete", "recover", "cleanup"},
         step : Steps, on : Artifact \cup {None}, saw : ArtifactState \cup {"FREE", None},
         at : Artifact \cup Place \cup {None}, owing : BOOLEAN]

TypeInv ==
    /\ artifact \in [Artifact -> Row]
    /\ source \in [Artifact -> SourceState]
    /\ vectors \subseteq Artifact /\ staged \subseteq Artifact
    /\ file \in [Artifact \cup Place -> Image \cup NoBytes]
    /\ call \in [All -> Call]
    /\ phase \in Phases
    /\ todo \subseteq Artifact /\ left \subseteq Artifact
    /\ \A p \in Place : file[p] # "ABSENT"

\* What a row says is consistent with its source and with what is on the disk.
RowInv(a) ==
    /\ artifact[a].state = "FREE" <=> artifact[a].mode = None
    /\ artifact[a].state = "FREE" =>
          /\ artifact[a].at = None /\ artifact[a].recorded = None
          /\ source[a] = "NONE" /\ file[a] = "ABSENT"
    /\ artifact[a].state = "PENDING" =>
          Managed(a) /\ artifact[a].recorded = None /\ source[a] = "NONE"
    /\ Managed(a) =>
          /\ artifact[a].at = a
          /\ artifact[a].recorded \in {None, "ORIGINAL"}
          /\ artifact[a].recorded = None => file[a] \in {"ABSENT", "ORIGINAL"}
          /\ artifact[a].state = "DELETED" => file[a] \in NoBytes
    /\ artifact[a].mode = "REFERENCED" =>
          \/ artifact[a].state \in {"AVAILABLE", "MISSING"} /\ artifact[a].at \in Place
          \/ artifact[a].state = "DELETED" /\ artifact[a].at = None
    /\ artifact[a].mode = "REFERENCED" => source[a] # "NONE"
    /\ source[a] \in Visible =>
          /\ artifact[a].state \in {"AVAILABLE", "MISSING"}
          /\ artifact[a].recorded # None
          /\ file[artifact[a].at] # "ABSENT"
    /\ source[a] \in {"DELETING", "DELETED"} => artifact[a].state \in Leaving
    /\ source[a] = "DELETED" => artifact[a].state = "DELETED" /\ a \notin staged \cup vectors

\* What a call k that is under way may rely on, whatever the others have done.
Sound(k) ==
    /\ k.step # "idle" => k.on \in Artifact
    /\ k.step \in WriteSteps => artifact[k.on].state = "PENDING" /\ phase = "open"
    /\ k.step = "publish" => file[k.on] = "ORIGINAL"
    /\ k.step \in {"examine", "found", "lost", "inspect", "relink"} =>
          k.saw \in {"AVAILABLE", "MISSING"}
    /\ k.step \in {"inspect", "relink"} => artifact[k.on].mode = "REFERENCED"
    /\ k.step = "relink" => k.at \in Place
    /\ k.step = "request" => Managed(k.on)
    /\ k.step \in DeleteSteps => Managed(k.on) /\ artifact[k.on].state \in Leaving
    /\ k.step = "settle" => file[k.on] \in NoBytes
    /\ k.step \in {"erase", "finish"} /\ ~k.owing => artifact[k.on].state = "DELETED"
    /\ k.step = "finish" /\ ~k.owing => k.on \notin staged

CallInv(c) == Sound(call[c])

\* An artifact has one writer.
Writes(c, a) == call[c].step \in WriteSteps /\ call[c].on = a
WritersApart ==
    \A c, d \in All : \A a \in Artifact : Writes(c, a) /\ Writes(d, a) => c = d

\* What recovery still has to visit is as it was chosen.
Owed(a) ==
    /\ phase = "pending" => artifact[a].state = "PENDING"
    /\ phase = "deleting" => Managed(a) /\ artifact[a].state \in Leaving

IInv ==
    /\ TypeInv
    /\ \A a \in Artifact : RowInv(a)
    /\ \A c \in All : CallInv(c)
    /\ WritersApart
    /\ \A a \in todo : Owed(a)

-----------------------------------------------------------------------------
(* Steps of one caller on one artifact                                     *)

Others(a) ==
    /\ \A b \in Artifact \ {a} :
          /\ artifact'[b] = artifact[b] /\ source'[b] = source[b] /\ file'[b] = file[b]
          /\ b \in staged' <=> b \in staged
          /\ b \in vectors' <=> b \in vectors
    /\ \A p \in Place : file'[p] = file[p]

\* What a row never does, whoever writes it.
Moves(a) ==
    /\ artifact[a].state # "FREE" => artifact'[a].mode = artifact[a].mode
    /\ artifact[a].state \in Leaving =>
          /\ artifact'[a].state \in Leaving
          /\ file[a] \in NoBytes => file'[a] \in NoBytes
          /\ a \in staged' => a \in staged
    /\ artifact[a].state = "DELETED" => artifact'[a].state = "DELETED"

\* Only its writer, or recovery, settles a write.
WriteIsKept(a) ==
    artifact[a].state = "PENDING" => artifact'[a].state = "PENDING" /\ file'[a] = file[a]

LEMMA OthersStaySound ==
  ASSUME TypeInv, NEW a \in Artifact, RowInv(a), Others(a), Moves(a), phase' = phase,
         NEW k \in Call, Sound(k),
         k.step \in WriteSteps /\ k.on = a => WriteIsKept(a)
  PROVE  Sound(k)'
<1>1. CASE k.step = "idle"
  BY <1>1 DEF Sound, WriteSteps, DeleteSteps
<1>2. CASE k.step # "idle" /\ k.on # a
  <2>1. k.on \in Artifact \ {a}
    BY <1>2 DEF Sound
  <2> QED
    BY <2>1 DEF Sound, Others, Managed
<1>3. CASE k.step # "idle" /\ k.on = a
  <2>1. artifact[a].mode # None => artifact'[a].mode = artifact[a].mode
    BY DEF RowInv, Moves
  <2>2. artifact[a].state # "FREE" => artifact'[a].mode = artifact[a].mode
    BY DEF Moves
  <2>3. k.step \in DeleteSteps => Managed(a)' /\ artifact'[a].state \in Leaving
    BY <1>3, <2>1, DistinctNames DEF Sound, Moves, Managed
  <2>4. k.step = "settle" => file'[a] \in NoBytes
    BY <1>3 DEF Sound, Moves, DeleteSteps
  <2>5. k.step \in {"erase", "finish"} /\ ~k.owing => artifact'[a].state = "DELETED"
    BY <1>3 DEF Sound, Moves
  <2>6. k.step = "finish" /\ ~k.owing => a \notin staged'
    BY <1>3 DEF Sound, Moves, Leaving
  <2>7. k.step \in WriteSteps => artifact'[a].state = "PENDING" /\ phase' = "open"
    BY <1>3 DEF Sound, WriteIsKept
  <2>8. k.step = "publish" => file'[a] = "ORIGINAL"
    BY <1>3 DEF Sound, WriteIsKept, WriteSteps
  <2>9. /\ k.step \in {"inspect", "relink"} => artifact'[a].mode = "REFERENCED"
        /\ k.step = "request" => Managed(a)'
    BY <1>3, <2>1, DistinctNames DEF Sound, Managed
  <2> QED
    BY <1>3, <2>3, <2>4, <2>5, <2>6, <2>7, <2>8, <2>9 DEF Sound
<1> QED
  BY <1>1, <1>2, <1>3

LEMMA OthersKeepRows ==
  ASSUME TypeInv, NEW a \in Artifact, Others(a), NEW b \in Artifact, b # a, RowInv(b)
  PROVE  RowInv(b)'
<1>1. /\ artifact'[b] = artifact[b] /\ source'[b] = source[b] /\ file'[b] = file[b]
      /\ b \in staged' <=> b \in staged
      /\ b \in vectors' <=> b \in vectors
  BY DEF Others
<1>2. Managed(b)' <=> Managed(b)
  BY <1>1 DEF Managed
<1>3. source[b] \in Visible => file'[artifact'[b].at] = file[artifact[b].at]
  <2> SUFFICES ASSUME source[b] \in Visible PROVE file'[artifact[b].at] = file[artifact[b].at]
    BY <1>1
  <2>1. artifact[b].at = b \/ artifact[b].at \in Place
    <3>1. artifact[b].mode \in {"MANAGED", "REFERENCED"}
      BY DEF RowInv, TypeInv, Row
    <3>2. artifact[b].state \in {"AVAILABLE", "MISSING"}
      BY DEF RowInv
    <3> QED
      BY <3>1, <3>2 DEF RowInv, Managed
  <2> QED
    BY <1>1, <2>1 DEF Others
<1> QED
  BY <1>1, <1>2, <1>3 DEF RowInv

\* What is left to show of a step of c on a.
LEMMA StepKeepsInv ==
  ASSUME IInv, NEW a \in Artifact, NEW c \in All,
         TypeInv', RowInv(a)', CallInv(c)', Others(a), Moves(a),
         phase' = phase, todo' \subseteq todo,
         \A d \in All \ {c} : call'[d] = call[d],
         Writes(c, a) \/ WriteIsKept(a) \/ (phase # "open" /\ a \notin todo'),
         \A b \in Artifact : Writes(c, b)' => Writes(c, b) \/ artifact[b].state = "FREE"
  PROVE  IInv'
<1>1. \A b \in Artifact : RowInv(b)'
  BY OthersKeepRows DEF IInv
<1>2. ASSUME NEW d \in All \ {c} PROVE CallInv(d)'
  <2>1. PICK k \in Call : k = call[d] /\ Sound(k)
    BY DEF IInv, TypeInv, CallInv
  <2>2. k.step \in WriteSteps /\ k.on = a => WriteIsKept(a)
    <3> SUFFICES ASSUME k.step \in WriteSteps, k.on = a PROVE WriteIsKept(a)
      OBVIOUS
    <3>1. Writes(d, a) /\ phase = "open"
      BY <2>1 DEF Writes, Sound
    <3>2. ~Writes(c, a)
      BY <3>1, <1>2 DEF IInv, WritersApart
    <3> QED
      BY <3>1, <3>2
  <2>3. Sound(k)'
    BY <2>1, <2>2, OthersStaySound DEF IInv
  <2>4. call'[d] = k
    BY <2>1, <1>2
  <2> QED
    BY <2>3, <2>4 DEF CallInv, Sound, Managed
<1>3. WritersApart'
  <2> SUFFICES ASSUME NEW d \in All, NEW e \in All, NEW b \in Artifact,
                      Writes(d, b)', Writes(e, b)', d # e
               PROVE  FALSE
    BY DEF WritersApart
  <2>1. ASSUME NEW f \in All, Writes(f, b)' PROVE Writes(f, b) \/ artifact[b].state = "FREE"
    BY <2>1 DEF Writes
  <2>2. ASSUME NEW f \in All, NEW g \in All, f # g, g # c, Writes(f, b)', Writes(g, b)'
        PROVE  FALSE
    <3>1. Writes(g, b)
      BY <2>2 DEF Writes
    <3>2. artifact[b].state = "PENDING"
      BY <3>1 DEF IInv, CallInv, Sound, Writes
    <3> QED
      BY <2>1, <2>2, <3>1, <3>2 DEF IInv, WritersApart
  <2> QED
    BY <2>2
<1>4. ASSUME NEW b \in todo' PROVE Owed(b)'
  <2>1. b \in Artifact /\ b \in todo /\ Owed(b) /\ RowInv(b)
    BY <1>4 DEF IInv, TypeInv
  <2>2. CASE b # a
    BY <2>1, <2>2 DEF Owed, Others, Managed
  <2>3. CASE b = a
    <3>1. phase = "deleting" => Managed(a)' /\ artifact'[a].state \in Leaving
      BY <2>1, <2>3, DistinctNames DEF Owed, RowInv, Moves, Managed
    <3>2. ASSUME phase = "pending" PROVE artifact'[a].state = "PENDING"
      <4>1. ~Writes(c, a)
        BY <3>2 DEF IInv, CallInv, Sound, Writes
      <4> QED
        BY <1>4, <2>1, <2>3, <3>2, <4>1 DEF Owed, WriteIsKept
    <3> QED
      BY <2>3, <3>1, <3>2 DEF Owed
  <2> QED
    BY <2>2, <2>3
<1>5. CallInv(c)'
  OBVIOUS
<1> QED
  BY <1>1, <1>2, <1>3, <1>4, <1>5 DEF IInv

LEMMA InitialState == Init => IInv
<1> SUFFICES ASSUME Init PROVE IInv
  OBVIOUS
<1>1. Idle \in Call
  BY DEF Idle, Call, Steps
<1>2. TypeInv
  BY <1>1 DEF Init, TypeInv, NoRow, Row, SourceState, Image, NoBytes, All, Phases
<1>3. \A a \in Artifact : RowInv(a)
  BY DistinctNames DEF Init, RowInv, NoRow, Managed, Visible
<1>4. \A c \in All : CallInv(c) /\ call[c].step = "idle"
  BY DEF Init, All, CallInv, Sound, Idle, WriteSteps, DeleteSteps
<1>5. WritersApart /\ \A a \in todo : Owed(a)
  BY <1>4 DEF Init, WritersApart, Writes, WriteSteps
<1> QED
  BY <1>2, <1>3, <1>4, <1>5 DEF IInv

-----------------------------------------------------------------------------
(* Steps that only look                                                    *)

\* After the step, k is what the call of c is.
Gives(c, k) ==
    /\ call' \in [All -> Call] /\ call'[c] = k
    /\ \A d \in All \ {c} : call'[d] = call[d]

LEMMA GoToGives ==
  ASSUME TypeInv, NEW c \in All, NEW s \in Steps, GoTo(c, s)
  PROVE  Gives(c, [call[c] EXCEPT !.step = s])
  BY DEF TypeInv, GoTo, Gives, Call

LEMMA ReturnGives ==
  ASSUME TypeInv, NEW c \in All, Return(c)
  PROVE  Gives(c, Idle) /\ Idle \in Call /\ Sound(Idle) /\ Idle.step = "idle"
<1>1. Idle \in Call /\ Idle.step = "idle"
  BY DEF Idle, Call, Steps
<1>2. Sound(Idle)
  BY <1>1 DEF Sound, WriteSteps, DeleteSteps
<1> QED
  BY <1>1, <1>2 DEF TypeInv, Return, Gives

LEMMA DoingGives ==
  ASSUME TypeInv, NEW c \in All, NEW a \in Artifact, NEW s \in Steps,
         NEW op \in {"import", "create", "recheck", "relink", "delete", "recover", "cleanup"},
         call' = [call EXCEPT ![c] = Doing(op, s, a)]
  PROVE  Gives(c, Doing(op, s, a)) /\ Doing(op, s, a) \in Call
  BY DEF TypeInv, Gives, Doing, Call

\* What a call that is under way knows.
LEMMA CallFacts ==
  ASSUME IInv, NEW c \in All, call[c].step # "idle"
  PROVE  /\ TypeInv /\ Sound(call[c]) /\ call[c] \in Call
         /\ call[c].on \in Artifact /\ RowInv(call[c].on) /\ artifact[call[c].on] \in Row
  BY DEF IInv, TypeInv, CallInv, Sound

LEMMA LooksKeepInv ==
  ASSUME IInv, NEW a \in Artifact, NEW c \in All, NEW k \in Call, Gives(c, k),
         Sound(k), k.step \notin WriteSteps, UNCHANGED <<rows, disk, phase>>,
         todo' \subseteq todo, left' \subseteq Artifact
  PROVE  IInv'
<1>1. /\ artifact' = artifact /\ source' = source /\ vectors' = vectors
      /\ file' = file /\ staged' = staged /\ phase' = phase
  BY DEF rows, disk
<1>2. TypeInv'
  BY <1>1 DEF IInv, TypeInv, Gives
<1>3. RowInv(a)'
  BY <1>1 DEF IInv, RowInv, Managed
<1>4. CallInv(c)'
  BY <1>1 DEF CallInv, Sound, Managed, Gives
<1>5. Others(a) /\ Moves(a) /\ WriteIsKept(a)
  BY <1>1 DEF Others, Moves, WriteIsKept
<1>6. \A b \in Artifact : ~Writes(c, b)'
  BY DEF Writes, Gives
<1>7. \A d \in All \ {c} : call'[d] = call[d]
  BY DEF Gives
<1>8. \A b \in Artifact : Writes(c, b)' => Writes(c, b) \/ artifact[b].state = "FREE"
  BY <1>6
<1>9. Writes(c, a) \/ WriteIsKept(a) \/ (phase # "open" /\ a \notin todo')
  BY <1>5
<1>10. phase' = phase /\ todo' \subseteq todo
  OBVIOUS
<1> QED
  BY <1>10, <1>9, <1>2, <1>3, <1>4, <1>5, <1>8, <1>7, StepKeepsInv

LEMMA GivingUpKeepsInv ==
  ASSUME IInv, NEW c \in All, call[c].step # "idle", Return(c),
         UNCHANGED <<rows, disk, phase>>, todo' \subseteq todo, left' \subseteq Artifact
  PROVE  IInv'
<1>1. PICK a \in Artifact : a = call[c].on
  BY CallFacts
<1>2. Gives(c, Idle) /\ Idle \in Call /\ Sound(Idle) /\ Idle.step \notin WriteSteps
  BY ReturnGives DEF IInv, WriteSteps
<1> QED
  BY <1>2, LooksKeepInv

LEMMA RecheckKeepsInv ==
  ASSUME IInv, NEW c \in Caller, NEW a \in Artifact, Recheck(c, a)
  PROVE  IInv'
<1>1. Gives(c, Doing("recheck", "reread", a)) /\ Doing("recheck", "reread", a) \in Call
  BY DoingGives DEF Recheck, IInv, All, Steps
<1>2. Sound(Doing("recheck", "reread", a)) /\ "reread" \notin WriteSteps
  BY DEF Sound, Doing, WriteSteps, DeleteSteps
<1> QED
  BY <1>1, <1>2, LooksKeepInv DEF Recheck, open, All, Doing, IInv, TypeInv

LEMMA RereadKeepsInv ==
  ASSUME IInv, NEW c \in All, Reread(c)
  PROVE  IInv'
<1>1. /\ TypeInv /\ Sound(call[c]) /\ call[c] \in Call /\ artifact[call[c].on] \in Row
      /\ call[c].on \in Artifact
  BY CallFacts DEF Reread, At
<1>2. UNCHANGED <<rows, disk, phase, todo, left>>
  BY DEF Reread, open
<1>3. CASE Return(c)
  BY <1>1, <1>2, <1>3, GivingUpKeepsInv DEF Reread, At, IInv, TypeInv
<1>4. CASE ~Return(c)
  <2>1. PICK k : k = [call[c] EXCEPT !.step = "examine", !.saw = artifact[call[c].on].state,
                                     !.at = artifact[call[c].on].at]
    OBVIOUS
  <2>2. k \in Call /\ k.step = "examine" /\ k.on = call[c].on /\ k.saw = artifact[call[c].on].state
    BY <1>1, <2>1 DEF Call, Row, Steps
  <2>3. k.saw \in {"AVAILABLE", "MISSING"} /\ Gives(c, k)
    BY <1>1, <1>4, <2>1, <2>2 DEF Reread, Gives, TypeInv
  <2>4. Sound(k) /\ k.step \notin WriteSteps
    BY <1>1, <2>2, <2>3 DEF Sound, WriteSteps, DeleteSteps
  <2> QED
    BY <1>1, <1>2, <2>2, <2>3, <2>4, LooksKeepInv DEF TypeInv
<1> QED
  BY <1>3, <1>4

LEMMA ExamineKeepsInv ==
  ASSUME IInv, NEW c \in All, Examine(c)
  PROVE  IInv'
<1>1. /\ TypeInv /\ Sound(call[c]) /\ call[c] \in Call /\ call[c].step = "examine"
      /\ call[c].on \in Artifact
  BY CallFacts DEF Examine, At
<1>2. UNCHANGED <<rows, disk, phase, todo, left>>
  BY DEF Examine, open
<1>3. CASE Return(c)
  BY <1>1, <1>2, <1>3, GivingUpKeepsInv DEF IInv, TypeInv
<1>4. ASSUME NEW s \in {"found", "lost"}, GoTo(c, s) PROVE IInv'
  <2>1. PICK k : k = [call[c] EXCEPT !.step = s]
    OBVIOUS
  <2>2. k \in Call /\ k.step = s /\ k.on = call[c].on /\ k.saw = call[c].saw
    BY <1>1, <2>1 DEF Call, Steps
  <2>3. Gives(c, k)
    BY <1>1, <1>4, <2>1, GoToGives DEF Steps
  <2>4. Sound(k) /\ k.step \notin WriteSteps
    BY <1>1, <2>2 DEF Sound, WriteSteps, DeleteSteps
  <2> QED
    BY <1>1, <1>2, <2>2, <2>3, <2>4, LooksKeepInv DEF TypeInv
<1> QED
  BY <1>3, <1>4 DEF Examine

LEMMA LocateKeepsInv ==
  ASSUME IInv, NEW c \in Caller, NEW a \in Artifact, Locate(c, a)
  PROVE  IInv'
<1>1. PICK k : k = [Doing("relink", "inspect", a) EXCEPT !.saw = "MISSING"]
  OBVIOUS
<1>2. k \in Call /\ k.step = "inspect" /\ k.on = a /\ k.saw = "MISSING"
  BY <1>1 DEF Doing, Call, Steps, ArtifactState
<1>3. artifact[a].mode = "REFERENCED"
  BY DEF Locate, IInv, TypeInv, RowInv, Row, Managed
<1>4. Sound(k) /\ k.step \notin WriteSteps
  BY <1>2, <1>3 DEF Sound, WriteSteps, DeleteSteps
<1>5. Gives(c, k)
  BY <1>1, <1>2 DEF Locate, Gives, IInv, TypeInv, All
<1> QED
  BY <1>2, <1>4, <1>5, LooksKeepInv DEF Locate, open, All, IInv, TypeInv

LEMMA InspectKeepsInv ==
  ASSUME IInv, NEW c \in All, NEW p \in Place, Inspect(c, p)
  PROVE  IInv'
<1>1. /\ TypeInv /\ Sound(call[c]) /\ call[c] \in Call /\ call[c].step = "inspect"
      /\ call[c].on \in Artifact
  BY CallFacts DEF Inspect, At
<1>2. UNCHANGED <<rows, disk, phase, todo, left>>
  BY DEF Inspect, open
<1>3. CASE Return(c)
  BY <1>1, <1>2, <1>3, GivingUpKeepsInv DEF IInv, TypeInv
<1>4. CASE ~Return(c)
  <2>1. PICK k : k = [call[c] EXCEPT !.step = "relink", !.at = p]
    OBVIOUS
  <2>2. k \in Call /\ k.step = "relink" /\ k.on = call[c].on /\ k.saw = call[c].saw /\ k.at = p
    BY <1>1, <2>1 DEF Call, Steps
  <2>3. Gives(c, k)
    BY <1>1, <1>4, <2>1, <2>2 DEF Inspect, Gives, TypeInv
  <2>4. Sound(k) /\ k.step \notin WriteSteps
    BY <1>1, <2>2 DEF Sound, WriteSteps, DeleteSteps
  <2> QED
    BY <1>1, <1>2, <2>2, <2>3, <2>4, LooksKeepInv DEF TypeInv
<1> QED
  BY <1>3, <1>4

LEMMA CarryKeepsInv ==
  ASSUME IInv, NEW c \in All, Carry(c)
  PROVE  IInv'
<1>1. PICK a \in Artifact : /\ a = call[c].on /\ TypeInv /\ Sound(call[c]) /\ call[c] \in Call
                            /\ call[c].step = "carry" /\ RowInv(a) /\ artifact[a] \in Row
  BY CallFacts DEF Carry, At
<1>2. UNCHANGED <<rows, disk, phase, todo, left>>
  BY DEF Carry, open
<1>3. CASE Return(c)
  BY <1>1, <1>2, <1>3, GivingUpKeepsInv DEF IInv, TypeInv
<1>4. CASE ~Return(c)
  <2>1. PICK owed \in BOOLEAN : owed <=> Managed(a) /\ artifact[a].state \in OnTheWay
    OBVIOUS
  <2>2. PICK owing \in BOOLEAN : owing <=> ~owed /\ artifact[a].state # "DELETED"
    OBVIOUS
  <2>3. PICK k : k = [call[c] EXCEPT !.step = IF owed THEN "intent" ELSE "erase", !.owing = owing]
    OBVIOUS
  <2>4. k \in Call /\ k.step = (IF owed THEN "intent" ELSE "erase") /\ k.on = a /\ k.owing = owing
    BY <1>1, <2>3 DEF Call, Steps, DeleteSteps
  <2>5. Gives(c, k)
    <3>1. call' = [call EXCEPT ![c].step = IF owed THEN "intent" ELSE "erase", ![c].owing = owing]
      BY <1>1, <1>4, <2>1, <2>2, Zenon DEF Carry
    <3> QED
      BY <1>1, <2>3, <2>4, <3>1 DEF Gives, TypeInv
  <2>6. Sound(k) /\ k.step \notin WriteSteps
    BY <1>1, <2>1, <2>2, <2>4 DEF Sound, WriteSteps, DeleteSteps, Leaving
  <2> QED
    BY <1>1, <1>2, <2>4, <2>5, <2>6, LooksKeepInv DEF TypeInv
<1> QED
  BY <1>3, <1>4

LEMMA ReadIntentKeepsInv ==
  ASSUME IInv, NEW c \in All, ReadIntent(c)
  PROVE  IInv'
<1>1. PICK a \in Artifact : /\ a = call[c].on /\ TypeInv /\ Sound(call[c]) /\ call[c] \in Call
                            /\ call[c].step = "intent"
  BY CallFacts DEF ReadIntent, At
<1>2. UNCHANGED <<rows, disk, phase, todo, left>>
  BY DEF ReadIntent, open
<1>3. PICK s \in {"erase", "unlink"} :
         s = (IF artifact[a].state = "DELETED" THEN "erase" ELSE "unlink") /\ GoTo(c, s)
  BY <1>1 DEF ReadIntent
<1>4. PICK k : k = [call[c] EXCEPT !.step = s]
  OBVIOUS
<1>5. k \in Call /\ k.step = s /\ k.on = a
  BY <1>1, <1>4 DEF Call, Steps, DeleteSteps
<1>6. Gives(c, k)
  BY <1>1, <1>3, <1>4, GoToGives DEF Steps, DeleteSteps
<1>7. Sound(k) /\ k.step \notin WriteSteps
  BY <1>1, <1>3, <1>5 DEF Sound, WriteSteps, DeleteSteps
<1> QED
  BY <1>1, <1>2, <1>5, <1>6, <1>7, LooksKeepInv DEF TypeInv

LEMMA ChooseKeepsInv ==
  ASSUME IInv, NEW c \in Caller, NEW a \in Artifact, Choose(c, a)
  PROVE  IInv'
<1>1. Gives(c, Doing("cleanup", "request", a)) /\ Doing("cleanup", "request", a) \in Call
  BY DoingGives DEF Choose, IInv, All, Steps
<1>2. Sound(Doing("cleanup", "request", a)) /\ "request" \notin WriteSteps
  BY DEF Sound, Doing, WriteSteps, DeleteSteps, Choose
<1> QED
  BY <1>1, <1>2, LooksKeepInv DEF Choose, open, All, Doing, IInv, TypeInv

LEMMA CallFailsKeepsInv ==
  ASSUME IInv, NEW c \in All, CallFails(c)
  PROVE  IInv'
<1>1. call[c].on \in Artifact
  BY CallFacts DEF CallFails
<1>2. left' \subseteq Artifact
  BY <1>1 DEF CallFails, Leaves, IInv, TypeInv
<1> QED
  BY <1>2, GivingUpKeepsInv DEF CallFails, rows, disk

LEMMA RecoverDeletionKeepsInv ==
  ASSUME IInv, NEW a \in Artifact, RecoverDeletion(a)
  PROVE  IInv'
<1>1. Gives(Main, Doing("recover", "unlink", a)) /\ Doing("recover", "unlink", a) \in Call
  BY DoingGives DEF RecoverDeletion, IInv, All, Steps, DeleteSteps
<1>2. Managed(a) /\ artifact[a].state \in Leaving
  BY DEF RecoverDeletion, IInv, Owed
<1>3. Sound(Doing("recover", "unlink", a)) /\ "unlink" \notin WriteSteps
  BY <1>2 DEF Sound, Doing, WriteSteps
<1> QED
  BY <1>1, <1>3, LooksKeepInv DEF RecoverDeletion, open, All, Doing, IInv, TypeInv

LEMMA ResumeDeletionKeepsInv ==
  ASSUME IInv, NEW a \in Artifact, ResumeDeletion(a)
  PROVE  IInv'
<1>1. Gives(Main, Doing("delete", "carry", a)) /\ Doing("delete", "carry", a) \in Call
  BY DoingGives DEF ResumeDeletion, IInv, All, Steps
<1>2. Sound(Doing("delete", "carry", a)) /\ "carry" \notin WriteSteps
  BY DEF Sound, Doing, WriteSteps, DeleteSteps
<1> QED
  BY <1>1, <1>2, LooksKeepInv DEF ResumeDeletion, All, Doing, IInv, TypeInv

-----------------------------------------------------------------------------
(* Steps that write                                                        *)

LEMMA WritesKeepInv ==
  ASSUME IInv, NEW a \in Artifact, NEW c \in All, NEW k \in Call, Gives(c, k), Sound(k)',
         k.step \in WriteSteps => k.on = a /\ (Writes(c, a) \/ artifact[a].state = "FREE"),
         artifact' \in [Artifact -> Row], source' \in [Artifact -> SourceState],
         file' \in [Artifact \cup Place -> Image \cup NoBytes],
         vectors' \subseteq Artifact, staged' \subseteq Artifact, left' \subseteq Artifact,
         phase' = phase, todo' \subseteq todo,
         Others(a), RowInv(a)', Moves(a), Writes(c, a) \/ WriteIsKept(a)
  PROVE  IInv'
<1>1. TypeInv'
  BY DEF IInv, TypeInv, Gives, Others
<1>2. CallInv(c)'
  BY DEF CallInv, Gives, Sound, Managed
<1>3. \A b \in Artifact : Writes(c, b)' => Writes(c, b) \/ artifact[b].state = "FREE"
  BY DEF Writes, Gives
<1>4. \A d \in All \ {c} : call'[d] = call[d]
  BY DEF Gives
<1>5. Writes(c, a) \/ WriteIsKept(a) \/ (phase # "open" /\ a \notin todo')
  OBVIOUS
<1> QED
  BY <1>1, <1>2, <1>3, <1>4, <1>5, StepKeepsInv

\* What a writer knows.
LEMMA WriterFacts ==
  ASSUME IInv, NEW c \in All, call[c].step \in WriteSteps
  PROVE  \E a \in Artifact :
            /\ a = call[c].on /\ Writes(c, a) /\ TypeInv /\ Sound(call[c]) /\ call[c] \in Call
            /\ RowInv(a) /\ artifact[a] \in Row
            /\ artifact[a].state = "PENDING" /\ artifact[a].mode = "MANAGED"
            /\ artifact[a].at = a /\ artifact[a].recorded = None /\ source[a] = "NONE"
            /\ file[a] \in {"ABSENT", "ORIGINAL"} /\ phase = "open"
<1>1. PICK a \in Artifact : a = call[c].on /\ TypeInv /\ Sound(call[c]) /\ call[c] \in Call
                            /\ RowInv(a) /\ artifact[a] \in Row
  BY CallFacts DEF WriteSteps
<1>2. Writes(c, a) /\ artifact[a].state = "PENDING" /\ phase = "open"
  BY <1>1 DEF Sound, Writes
<1> QED
  BY <1>1, <1>2 DEF RowInv, Managed

LEMMA ReserveKeepsInv ==
  ASSUME IInv, NEW c \in Caller, NEW a \in Artifact, Reserve(c, a)
  PROVE  IInv'
<1>1. TypeInv /\ RowInv(a) /\ artifact[a].state = "FREE" /\ source[a] = "NONE"
      /\ file[a] = "ABSENT" /\ c \in All /\ phase = "open"
  BY DEF IInv, Reserve, RowInv, All, Serving
<1>2. PICK op \in {"import", "create"} : call' = [call EXCEPT ![c] = Doing(op, "stage", a)]
  BY DEF Reserve
<1>3. Gives(c, Doing(op, "stage", a)) /\ Doing(op, "stage", a) \in Call
  BY <1>1, <1>2, DoingGives DEF Steps, WriteSteps
<1>4. PICK k \in Call : k = Doing(op, "stage", a) /\ k.step = "stage" /\ k.on = a
  BY <1>3 DEF Doing
<1>5. /\ artifact' \in [Artifact -> Row]
      /\ artifact'[a] = [state |-> "PENDING", mode |-> "MANAGED", at |-> a, recorded |-> None]
      /\ \A b \in Artifact \ {a} : artifact'[b] = artifact[b]
  BY <1>1 DEF Reserve, TypeInv, Row, ArtifactState
<1>6. UNCHANGED <<source, vectors, file, staged, phase, todo, left>>
  BY DEF Reserve, disk, open
<1>7. Others(a) /\ Moves(a) /\ WriteIsKept(a)
  BY <1>1, <1>5, <1>6 DEF Others, Moves, WriteIsKept, Leaving, OnTheWay
<1>8. RowInv(a)'
  BY <1>1, <1>5, <1>6, DistinctNames DEF RowInv, Managed, Visible
<1>9. Sound(k)'
  <2>1. artifact'[a].state = "PENDING" /\ phase' = "open"
    BY <1>1, <1>5, <1>6
  <2> QED
    BY <1>4, <2>1 DEF Sound, WriteSteps, DeleteSteps
<1> QED
  BY <1>1, <1>3, <1>4, <1>5, <1>6, <1>7, <1>8, <1>9, WritesKeepInv DEF TypeInv

LEMMA StageKeepsInv ==
  ASSUME IInv, NEW c \in All, Stage(c) PROVE IInv'
<1>1. PICK a \in Artifact :
            /\ a = call[c].on /\ Writes(c, a) /\ TypeInv /\ Sound(call[c]) /\ call[c] \in Call
            /\ RowInv(a) /\ artifact[a].state = "PENDING" /\ source[a] = "NONE"
            /\ phase = "open"
  BY WriterFacts DEF Stage, At, WriteSteps
<1>2. UNCHANGED <<artifact, source, vectors, file, phase, todo, left>> /\ staged' = staged \cup {a}
  BY <1>1 DEF Stage, rows, open
<1>3. PICK k : k = [call[c] EXCEPT !.step = "rename"]
  OBVIOUS
<1>4. k \in Call /\ k.step = "rename" /\ k.on = a
  BY <1>1, <1>3 DEF Call, Steps, WriteSteps
<1>5. Gives(c, k)
  BY <1>1, <1>3, GoToGives DEF Steps, WriteSteps, Stage
<1>6. Others(a) /\ Moves(a) /\ WriteIsKept(a)
  BY <1>1, <1>2 DEF Others, Moves, WriteIsKept, Leaving, OnTheWay
<1>7. RowInv(a)'
  BY <1>1, <1>2 DEF RowInv, Managed
<1>8. Sound(k)'
  BY <1>1, <1>2, <1>4 DEF Sound, WriteSteps, DeleteSteps
<1> QED
  BY <1>1, <1>2, <1>4, <1>5, <1>6, <1>7, <1>8, WritesKeepInv DEF TypeInv

LEMMA RenameKeepsInv ==
  ASSUME IInv, NEW c \in All, Rename(c) PROVE IInv'
<1>1. PICK a \in Artifact :
            /\ a = call[c].on /\ Writes(c, a) /\ TypeInv /\ Sound(call[c]) /\ call[c] \in Call
            /\ RowInv(a) /\ artifact[a].state = "PENDING" /\ source[a] = "NONE"
            /\ phase = "open"
  BY WriterFacts DEF Rename, At, WriteSteps
<1>2. /\ UNCHANGED <<artifact, source, vectors, phase, todo, left>> /\ staged' = staged \ {a}
      /\ file' = [file EXCEPT ![a] = "ORIGINAL"]
  BY <1>1 DEF Rename, rows, open
<1>3. PICK k : k = [call[c] EXCEPT !.step = "publish"]
  OBVIOUS
<1>4. k \in Call /\ k.step = "publish" /\ k.on = a
  BY <1>1, <1>3 DEF Call, Steps, WriteSteps
<1>5. Gives(c, k)
  BY <1>1, <1>3, GoToGives DEF Steps, WriteSteps, Rename
<1>6. /\ file' \in [Artifact \cup Place -> Image \cup NoBytes] /\ file'[a] = "ORIGINAL"
      /\ \A x \in (Artifact \cup Place) \ {a} : file'[x] = file[x]
  BY <1>1, <1>2 DEF TypeInv, Image
<1>7. Others(a) /\ Moves(a)
  BY <1>1, <1>2, <1>6, DistinctNames DEF Others, Moves, Leaving, OnTheWay
<1>8. RowInv(a)'
  BY <1>1, <1>2, <1>6 DEF RowInv, Managed, Visible
<1>9. Sound(k)'
  BY <1>1, <1>2, <1>4, <1>6 DEF Sound, WriteSteps, DeleteSteps
<1> QED
  BY <1>1, <1>2, <1>4, <1>5, <1>6, <1>7, <1>8, <1>9, WritesKeepInv DEF TypeInv

LEMMA StoreFailsKeepsInv ==
  ASSUME IInv, NEW c \in All, StoreFails(c) PROVE IInv'
<1>1. PICK a \in Artifact :
            /\ a = call[c].on /\ Writes(c, a) /\ TypeInv /\ Sound(call[c]) /\ call[c] \in Call
            /\ RowInv(a) /\ artifact[a].state = "PENDING" /\ source[a] = "NONE"
            /\ phase = "open"
  BY WriterFacts DEF StoreFails, WriteSteps
<1>2. /\ UNCHANGED <<artifact, source, vectors, file, phase, todo, left>>
      /\ staged' \in {staged, staged \cup {a}, staged \ {a}}
  BY <1>1 DEF StoreFails, rows, open
<1>3. PICK k : k = [call[c] EXCEPT !.step = "undo"]
  OBVIOUS
<1>4. k \in Call /\ k.step = "undo" /\ k.on = a
  BY <1>1, <1>3 DEF Call, Steps, WriteSteps
<1>5. Gives(c, k)
  BY <1>1, <1>3, GoToGives DEF Steps, WriteSteps, StoreFails
<1>6. Others(a) /\ Moves(a) /\ staged' \subseteq Artifact
  BY <1>1, <1>2 DEF Others, Moves, Leaving, OnTheWay, TypeInv
<1>7. RowInv(a)'
  BY <1>1, <1>2 DEF RowInv, Managed
<1>8. Sound(k)'
  BY <1>1, <1>2, <1>4 DEF Sound, WriteSteps, DeleteSteps
<1> QED
  BY <1>1, <1>2, <1>4, <1>5, <1>6, <1>7, <1>8, WritesKeepInv DEF TypeInv

LEMMA PublishKeepsInv ==
  ASSUME IInv, NEW c \in All, Publish(c) PROVE IInv'
<1>1. PICK a \in Artifact :
            /\ a = call[c].on /\ Writes(c, a) /\ TypeInv /\ Sound(call[c])
            /\ RowInv(a) /\ artifact[a] \in Row /\ artifact[a].state = "PENDING"
            /\ artifact[a].mode = "MANAGED" /\ artifact[a].at = a /\ source[a] = "NONE"
  BY WriterFacts DEF Publish, At, WriteSteps
<1>2. UNCHANGED <<file, staged, phase, todo, left>> /\ call[c].step = "publish" /\ Return(c)
  BY DEF Publish, disk, open, At
<1>3. file[a] = "ORIGINAL"
  BY <1>1, <1>2 DEF Sound
<1>4. /\ artifact' \in [Artifact -> Row]
      /\ artifact'[a] = [state |-> "AVAILABLE", mode |-> "MANAGED", at |-> a,
                         recorded |-> "ORIGINAL"]
      /\ \A b \in Artifact \ {a} : artifact'[b] = artifact[b]
  BY <1>1 DEF Publish, TypeInv, Row, ArtifactState, Image
<1>5. /\ source' \in [Artifact -> SourceState] /\ source'[a] \in {"NONE", "ACTIVE"}
      /\ \A b \in Artifact \ {a} : source'[b] = source[b] /\ (b \in vectors' <=> b \in vectors)
      /\ vectors' \subseteq Artifact
  BY <1>1 DEF Publish, TypeInv, SourceState, Visible
<1>6. Gives(c, Idle) /\ Idle \in Call /\ Idle.step = "idle"
  BY <1>1, <1>2, ReturnGives
<1>7. Others(a) /\ Moves(a)
  BY <1>1, <1>2, <1>4, <1>5 DEF Others, Moves, Leaving, OnTheWay
<1>8. RowInv(a)'
  BY <1>1, <1>2, <1>3, <1>4, <1>5, DistinctNames DEF RowInv, Managed, Visible
<1>9. Sound(Idle)' /\ Idle.step \notin WriteSteps
  BY <1>6 DEF Sound, WriteSteps, DeleteSteps
<1> QED
  BY <1>1, <1>2, <1>4, <1>5, <1>6, <1>7, <1>8, <1>9, WritesKeepInv DEF TypeInv

LEMMA WriteNotCompletedKeepsInv ==
  ASSUME IInv, NEW c \in All, WriteNotCompleted(c) PROVE IInv'
<1>1. PICK a \in Artifact :
            /\ a = call[c].on /\ Writes(c, a) /\ TypeInv
            /\ RowInv(a) /\ artifact[a] \in Row /\ artifact[a].state = "PENDING"
            /\ artifact[a].mode = "MANAGED" /\ artifact[a].at = a /\ source[a] = "NONE"
            /\ artifact[a].recorded = None
  BY WriterFacts DEF WriteNotCompleted, At, WriteSteps
<1>2. UNCHANGED <<source, vectors, file, staged, phase, todo, left>> /\ Return(c)
  BY DEF WriteNotCompleted, disk, open, At
<1>3. /\ artifact' \in [Artifact -> Row]
      /\ artifact'[a] = [state |-> "MISSING", mode |-> "MANAGED", at |-> a, recorded |-> None]
      /\ \A b \in Artifact \ {a} : artifact'[b] = artifact[b]
  BY <1>1 DEF WriteNotCompleted, Become, TypeInv, Row, ArtifactState
<1>4. Gives(c, Idle) /\ Idle \in Call /\ Idle.step = "idle"
  BY <1>1, <1>2, ReturnGives
<1>5. Others(a) /\ Moves(a)
  BY <1>1, <1>2, <1>3 DEF Others, Moves, Leaving, OnTheWay
<1>6. RowInv(a)'
  BY <1>1, <1>2, <1>3, DistinctNames DEF RowInv, Managed, Visible
<1>7. Sound(Idle)' /\ Idle.step \notin WriteSteps
  BY <1>4 DEF Sound, WriteSteps, DeleteSteps
<1> QED
  BY <1>1, <1>2, <1>3, <1>4, <1>5, <1>6, <1>7, WritesKeepInv DEF TypeInv

LEMMA ImportReferencedKeepsInv ==
  ASSUME IInv, NEW c \in Caller, NEW a \in Artifact, NEW p \in Place, ImportReferenced(c, a, p)
  PROVE  IInv'
<1>1. /\ TypeInv /\ RowInv(a) /\ artifact[a].state = "FREE" /\ source[a] = "NONE"
      /\ c \in All /\ call[c] = Idle
  BY DEF IInv, ImportReferenced, RowInv, All, Serving
<1>2. UNCHANGED <<file, staged, call, phase, todo, left>>
  BY DEF ImportReferenced, disk, open
<1>3. file[p] \in Image /\ file[p] # "ABSENT" /\ file[p] # None
  BY <1>1, DistinctNames DEF ImportReferenced, TypeInv, Image
<1>4. /\ artifact' \in [Artifact -> Row]
      /\ artifact'[a] = [state |-> "AVAILABLE", mode |-> "REFERENCED", at |-> p,
                         recorded |-> file[p]]
      /\ \A b \in Artifact \ {a} : artifact'[b] = artifact[b]
  BY <1>1, <1>3 DEF ImportReferenced, TypeInv, Row, ArtifactState
<1>5. /\ source' \in [Artifact -> SourceState] /\ source'[a] = "ACTIVE"
      /\ \A b \in Artifact \ {a} : source'[b] = source[b] /\ (b \in vectors' <=> b \in vectors)
      /\ vectors' \subseteq Artifact
  BY <1>1 DEF ImportReferenced, TypeInv, SourceState, Visible
<1>6. Idle \in Call /\ Idle.step = "idle" /\ Gives(c, Idle)
  BY <1>1, <1>2 DEF Idle, Call, Steps, Gives, TypeInv
<1>7. Others(a) /\ Moves(a) /\ WriteIsKept(a)
  BY <1>1, <1>2, <1>4, <1>5 DEF Others, Moves, WriteIsKept, Leaving, OnTheWay
<1>8. RowInv(a)'
  BY <1>1, <1>2, <1>3, <1>4, <1>5, DistinctNames DEF RowInv, Managed, Visible
<1>9. Sound(Idle)' /\ Idle.step \notin WriteSteps
  BY <1>6 DEF Sound, WriteSteps, DeleteSteps
<1> QED
  BY <1>1, <1>2, <1>4, <1>5, <1>6, <1>7, <1>8, <1>9, WritesKeepInv DEF TypeInv

LEMMA RecycleKeepsInv ==
  ASSUME IInv, NEW c \in Caller, NEW a \in Artifact, Recycle(c, a)
  PROVE  IInv'
<1>1. /\ TypeInv /\ RowInv(a) /\ source[a] \in Visible /\ c \in All /\ call[c] = Idle
      /\ artifact[a].state \in {"AVAILABLE", "MISSING"}
  BY DEF IInv, Recycle, RowInv, All, Serving, Visible
<1>2. UNCHANGED <<artifact, vectors, file, staged, call, phase, todo, left>>
  BY DEF Recycle, disk, open
<1>3. /\ source' \in [Artifact -> SourceState] /\ source'[a] \in Visible
      /\ \A b \in Artifact \ {a} : source'[b] = source[b]
  BY <1>1 DEF Recycle, TypeInv, SourceState, Visible
<1>4. Idle \in Call /\ Idle.step = "idle" /\ Gives(c, Idle)
  BY <1>1, <1>2 DEF Idle, Call, Steps, Gives, TypeInv
<1>5. Others(a) /\ Moves(a) /\ WriteIsKept(a)
  BY <1>1, <1>2, <1>3 DEF Others, Moves, WriteIsKept, Leaving, OnTheWay
<1>6. RowInv(a)'
  BY <1>1, <1>2, <1>3 DEF RowInv, Managed, Visible
<1>7. Sound(Idle)' /\ Idle.step \notin WriteSteps
  BY <1>4 DEF Sound, WriteSteps, DeleteSteps
<1> QED
  BY <1>1, <1>2, <1>3, <1>4, <1>5, <1>6, <1>7, WritesKeepInv DEF TypeInv

\* A call ends after it changed at most the state and the place of a settled row.
LEMMA SettledRowKeepsInv ==
  ASSUME IInv, NEW a \in Artifact, NEW c \in All, NEW k \in Call, Gives(c, k), Sound(k)',
         k.step \notin WriteSteps,
         NEW row \in Row, artifact' = [artifact EXCEPT ![a] = row],
         artifact[a].state \notin {"FREE", "PENDING"},
         row.mode = artifact[a].mode, artifact[a].state \in Leaving => row.state \in Leaving,
         artifact[a].state = "DELETED" => row.state = "DELETED",
         UNCHANGED <<source, vectors, file, staged, phase>>,
         todo' \subseteq todo, left' \subseteq Artifact, RowInv(a)'
  PROVE  IInv'
<1>1. /\ artifact' \in [Artifact -> Row] /\ artifact'[a] = row
      /\ \A b \in Artifact \ {a} : artifact'[b] = artifact[b]
  BY DEF IInv, TypeInv
<1>2. Others(a) /\ Moves(a) /\ WriteIsKept(a)
  BY <1>1 DEF Others, Moves, WriteIsKept
<1> QED
  BY <1>1, <1>2, WritesKeepInv DEF IInv, TypeInv

LEMMA RecordKeepsInv ==
  ASSUME IInv, NEW c \in All, Record(c) PROVE IInv'
<1>1. PICK a \in Artifact :
            /\ a = call[c].on /\ TypeInv /\ Sound(call[c]) /\ RowInv(a) /\ artifact[a] \in Row
            /\ call[c].step \in {"found", "lost"}
  BY CallFacts DEF Record
<1>2. UNCHANGED <<source, vectors, file, staged, phase, todo, left>> /\ Return(c)
  BY DEF Record, disk, open
<1>3. CASE ~StillAsSeen(c)
  BY <1>1, <1>2, <1>3, GivingUpKeepsInv DEF Record, rows, disk, TypeInv
<1>4. CASE StillAsSeen(c)
  <2>1. artifact[a].state \in {"AVAILABLE", "MISSING"}
    BY <1>1, <1>4 DEF StillAsSeen, Sound
  <2>2. PICK s \in {"AVAILABLE", "MISSING"} : Become(a, s)
    BY <1>1, <1>4 DEF Record
  <2>3. PICK row : row = [artifact[a] EXCEPT !.state = s]
    OBVIOUS
  <2>4. /\ row \in Row /\ row.state = s /\ row.mode = artifact[a].mode
        /\ row.at = artifact[a].at /\ row.recorded = artifact[a].recorded
    BY <1>1, <2>3 DEF Row, ArtifactState
  <2>5. artifact' = [artifact EXCEPT ![a] = row] /\ artifact'[a] = row
    BY <1>1, <2>2, <2>3 DEF Become, TypeInv
  <2>6. RowInv(a)'
    BY <1>1, <1>2, <2>1, <2>4, <2>5 DEF RowInv, Managed, Leaving, OnTheWay
  <2>7. Gives(c, Idle) /\ Idle \in Call /\ Idle.step \notin WriteSteps /\ Sound(Idle)'
    BY <1>1, <1>2, ReturnGives DEF Sound, WriteSteps, DeleteSteps
  <2> QED
    BY <1>1, <1>2, <2>1, <2>4, <2>5, <2>6, <2>7, SettledRowKeepsInv DEF TypeInv, Leaving, OnTheWay
<1> QED
  BY <1>3, <1>4

LEMMA RelinkKeepsInv ==
  ASSUME IInv, NEW c \in All, Relink(c) PROVE IInv'
<1>1. PICK a \in Artifact :
            /\ a = call[c].on /\ TypeInv /\ Sound(call[c]) /\ RowInv(a) /\ artifact[a] \in Row
            /\ call[c].step = "relink"
  BY CallFacts DEF Relink, At
<1>2. UNCHANGED <<source, vectors, file, staged, phase, todo, left>> /\ Return(c)
  BY DEF Relink, disk, open
<1>3. CASE ~StillAsSeen(c)
  BY <1>1, <1>2, <1>3, GivingUpKeepsInv DEF Relink, rows, disk, TypeInv
<1>4. CASE StillAsSeen(c)
  <2>1. artifact[a].state \in {"AVAILABLE", "MISSING"} /\ artifact[a].mode = "REFERENCED"
    BY <1>1, <1>4 DEF StillAsSeen, Sound
  <2>2. PICK p \in Place : p = call[c].at
    BY <1>1 DEF Sound
  <2>3. PICK row : row = [artifact[a] EXCEPT !.state = "AVAILABLE", !.at = p]
    OBVIOUS
  <2>4. /\ row \in Row /\ row.state = "AVAILABLE" /\ row.mode = artifact[a].mode
        /\ row.at = p /\ row.recorded = artifact[a].recorded
    BY <1>1, <2>3 DEF Row, ArtifactState
  <2>5. artifact' = [artifact EXCEPT ![a] = row] /\ artifact'[a] = row
    BY <1>1, <1>4, <2>2, <2>3 DEF Relink, TypeInv
  <2>6. RowInv(a)'
    BY <1>1, <1>2, <2>1, <2>4, <2>5, DistinctNames DEF RowInv, Managed, Leaving, OnTheWay, TypeInv
  <2>7. Gives(c, Idle) /\ Idle \in Call /\ Idle.step \notin WriteSteps /\ Sound(Idle)'
    BY <1>1, <1>2, ReturnGives DEF Sound, WriteSteps, DeleteSteps
  <2> QED
    BY <1>1, <1>2, <2>1, <2>4, <2>5, <2>6, <2>7, SettledRowKeepsInv DEF TypeInv, Leaving, OnTheWay
<1> QED
  BY <1>3, <1>4

LEMMA BeginDeleteKeepsInv ==
  ASSUME IInv, NEW c \in Caller, NEW a \in Artifact, BeginDelete(c, a)
  PROVE  IInv'
<1>1. TypeInv /\ RowInv(a) /\ c \in All /\ artifact[a] \in Row
  BY DEF IInv, TypeInv, All
<1>2. UNCHANGED <<vectors, file, staged, phase, todo, left>>
  BY DEF BeginDelete, disk, open
<1>3. Gives(c, Doing("delete", "carry", a)) /\ Doing("delete", "carry", a) \in Call
  BY <1>1, DoingGives DEF BeginDelete, Steps
<1>4. PICK k \in Call : k = Doing("delete", "carry", a) /\ k.step = "carry" /\ k.on = a
  BY <1>3 DEF Doing
<1>5. CASE source[a] \in {"DELETING", "DELETED"}
  <2>1. UNCHANGED <<source, artifact>>
    BY <1>5 DEF BeginDelete
  <2>2. Sound(k) /\ k.step \notin WriteSteps
    BY <1>4 DEF Sound, WriteSteps, DeleteSteps
  <2> QED
    BY <1>1, <1>2, <1>3, <1>4, <2>1, <2>2, LooksKeepInv DEF rows, disk, TypeInv
<1>6. CASE source[a] \notin {"DELETING", "DELETED"}
  <2>1. /\ source[a] = "RECYCLED" /\ source' = [source EXCEPT ![a] = "DELETING"]
        /\ artifact' = [artifact EXCEPT ![a] = Intent(a)]
    BY <1>6 DEF BeginDelete
  <2>2. artifact[a].state \in {"AVAILABLE", "MISSING"} /\ artifact[a].mode \in {"MANAGED", "REFERENCED"}
    BY <1>1, <2>1 DEF RowInv, Visible, Row
  <2>3. PICK row : row = Intent(a)
    OBVIOUS
  <2>4. /\ row \in Row /\ row.mode = artifact[a].mode /\ row.recorded = artifact[a].recorded
        /\ row.mode = "REFERENCED" => row.state = "DELETED" /\ row.at = None
        /\ row.mode = "MANAGED" => row.state = "DELETING" /\ row.at = artifact[a].at
    BY <1>1, <2>2, <2>3 DEF Intent, Row, ArtifactState, Deletable
  <2>5. /\ artifact' \in [Artifact -> Row] /\ artifact'[a] = row
        /\ \A b \in Artifact \ {a} : artifact'[b] = artifact[b]
        /\ source' \in [Artifact -> SourceState] /\ source'[a] = "DELETING"
        /\ \A b \in Artifact \ {a} : source'[b] = source[b]
    BY <1>1, <2>1, <2>3, <2>4 DEF TypeInv, SourceState
  <2>6. Others(a) /\ Moves(a) /\ WriteIsKept(a)
    BY <1>2, <2>2, <2>4, <2>5 DEF Others, Moves, WriteIsKept, Leaving, OnTheWay
  <2>7. RowInv(a)'
    BY <1>1, <1>2, <2>2, <2>4, <2>5, DistinctNames DEF RowInv, Managed, Visible, Leaving, OnTheWay
  <2>8. Sound(k)' /\ k.step \notin WriteSteps
    BY <1>4 DEF Sound, WriteSteps, DeleteSteps
  <2> QED
    BY <1>1, <1>2, <1>3, <1>4, <2>5, <2>6, <2>7, <2>8, WritesKeepInv DEF TypeInv
<1> QED
  BY <1>5, <1>6

LEMMA RequestDeletionKeepsInv ==
  ASSUME IInv, NEW c \in All, RequestDeletion(c) PROVE IInv'
<1>1. PICK a \in Artifact :
            /\ a = call[c].on /\ TypeInv /\ Sound(call[c]) /\ call[c] \in Call
            /\ RowInv(a) /\ artifact[a] \in Row
            /\ call[c].step = "request" /\ artifact[a].mode = "MANAGED"
  BY CallFacts DEF RequestDeletion, At, Sound, Managed
<1>2. UNCHANGED <<source, vectors, file, staged, phase, todo, left>>
  BY DEF RequestDeletion, disk, open
<1>3. CASE ~(artifact[a].state \in Deletable /\ Unreferenced(a))
  BY <1>1, <1>2, <1>3, GivingUpKeepsInv DEF RequestDeletion, rows, disk, TypeInv
<1>4. CASE artifact[a].state \in Deletable /\ Unreferenced(a)
  <2>1. Become(a, "DELETING") /\ GoTo(c, "unlink") /\ source[a] = "NONE"
    BY <1>1, <1>4 DEF RequestDeletion, Unreferenced
  <2>2. PICK row : row = [artifact[a] EXCEPT !.state = "DELETING"]
    OBVIOUS
  <2>3. /\ row \in Row /\ row.state = "DELETING" /\ row.mode = "MANAGED"
        /\ row.at = artifact[a].at /\ row.recorded = artifact[a].recorded
    BY <1>1, <2>2 DEF Row, ArtifactState
  <2>4. artifact' = [artifact EXCEPT ![a] = row] /\ artifact'[a] = row
    BY <1>1, <2>1, <2>2 DEF Become, TypeInv
  <2>5. RowInv(a)'
    BY <1>1, <1>2, <2>1, <2>3, <2>4, DistinctNames DEF RowInv, Managed, Visible
  <2>6. PICK k : k = [call[c] EXCEPT !.step = "unlink"]
    OBVIOUS
  <2>7. k \in Call /\ k.step = "unlink" /\ k.on = a
    BY <1>1, <2>6 DEF Call, Steps, DeleteSteps
  <2>8. Gives(c, k)
    BY <1>1, <2>1, <2>6, GoToGives DEF Steps, DeleteSteps
  <2>9. Sound(k)' /\ k.step \notin WriteSteps
    BY <2>3, <2>4, <2>7 DEF Sound, WriteSteps, Managed, Leaving, OnTheWay
  <2>10. artifact[a].state \notin {"FREE", "PENDING", "DELETED"}
    BY <1>4 DEF Deletable
  <2> QED
    BY <1>1, <1>2, <2>3, <2>4, <2>5, <2>7, <2>8, <2>9, <2>10, SettledRowKeepsInv
       DEF TypeInv, Leaving, OnTheWay
<1> QED
  BY <1>3, <1>4

LEMMA UnlinkKeepsInv ==
  ASSUME IInv, NEW c \in All, Unlink(c) PROVE IInv'
<1>1. PICK a \in Artifact :
            /\ a = call[c].on /\ TypeInv /\ Sound(call[c]) /\ call[c] \in Call
            /\ RowInv(a) /\ call[c].step = "unlink"
            /\ artifact[a].mode = "MANAGED" /\ artifact[a].state \in Leaving
  BY CallFacts DEF Unlink, At, Sound, Managed, DeleteSteps
<1>2. UNCHANGED <<artifact, source, vectors, staged, phase, todo, left>>
  BY DEF Unlink, rows, open
<1>3. PICK s \in {"settle", "unlink failed"} :
          /\ GoTo(c, s)
          /\ s = "settle" => file' = [file EXCEPT ![a] = "ABSENT"]
          /\ s = "unlink failed" => UNCHANGED file
  BY <1>1 DEF Unlink
<1>4. PICK k : k = [call[c] EXCEPT !.step = s]
  OBVIOUS
<1>5. k \in Call /\ k.step = s /\ k.on = a
  BY <1>1, <1>4 DEF Call, Steps, DeleteSteps
<1>6. Gives(c, k)
  BY <1>1, <1>3, <1>4, GoToGives DEF Steps, DeleteSteps
<1>7. /\ file' \in [Artifact \cup Place -> Image \cup NoBytes]
      /\ file'[a] = "ABSENT" \/ file'[a] = file[a]
      /\ s = "settle" => file'[a] = "ABSENT"
      /\ \A x \in (Artifact \cup Place) \ {a} : file'[x] = file[x]
  BY <1>1, <1>3 DEF TypeInv, NoBytes
<1>8. Others(a) /\ Moves(a) /\ WriteIsKept(a)
  BY <1>1, <1>2, <1>7, DistinctNames DEF Others, Moves, WriteIsKept, Leaving, OnTheWay, NoBytes
<1>9. RowInv(a)'
  BY <1>1, <1>2, <1>7 DEF RowInv, Managed, Leaving, OnTheWay, NoBytes
<1>10. Sound(k)' /\ k.step \notin WriteSteps
  BY <1>1, <1>2, <1>5, <1>7 DEF Sound, WriteSteps, DeleteSteps, Managed, NoBytes
<1> QED
  BY <1>1, <1>2, <1>5, <1>6, <1>7, <1>8, <1>9, <1>10, WritesKeepInv DEF TypeInv

LEMMA SettleKeepsInv ==
  ASSUME IInv, NEW c \in All, Settle(c) PROVE IInv'
<1>1. PICK a \in Artifact :
            /\ a = call[c].on /\ TypeInv /\ Sound(call[c]) /\ call[c] \in Call
            /\ RowInv(a) /\ artifact[a] \in Row /\ call[c].step \in {"settle", "unlink failed"}
            /\ artifact[a].mode = "MANAGED" /\ artifact[a].state \in Leaving
            /\ call[c].step = "settle" => file[a] \in NoBytes
  BY CallFacts DEF Settle, Sound, Managed, DeleteSteps
<1>2. UNCHANGED <<source, vectors, file, staged, phase>>
  BY DEF Settle, disk
<1>3. todo' \subseteq todo /\ left' \subseteq Artifact
  BY <1>1 DEF Settle, Leaves, TypeInv
<1>4. PICK failed \in BOOLEAN : failed <=> call[c].step = "unlink failed"
  OBVIOUS
<1>5. PICK s : s = Settled(a, At(c, "unlink failed"))
  OBVIOUS
<1>6. /\ s \in Leaving /\ (artifact[a].state = "DELETED" => s = "DELETED")
      /\ call[c].step = "settle" => s = "DELETED"
      /\ s = "DELETED" => call[c].step = "settle" \/ artifact[a].state = "DELETED"
  BY <1>1, <1>5 DEF Settled, Leaving, OnTheWay, At
<1>7. PICK row : row = [artifact[a] EXCEPT !.state = s]
  OBVIOUS
<1>8. /\ row \in Row /\ row.state = s /\ row.mode = "MANAGED"
      /\ row.at = artifact[a].at /\ row.recorded = artifact[a].recorded
  BY <1>1, <1>6, <1>7 DEF Row, ArtifactState, Leaving, OnTheWay
<1>9. artifact' = [artifact EXCEPT ![a] = row] /\ artifact'[a] = row
  BY <1>1, <1>5, <1>7 DEF Settle, Become, TypeInv
<1>10. RowInv(a)'
  BY <1>1, <1>2, <1>6, <1>8, <1>9, DistinctNames DEF RowInv, Managed, Visible, Leaving, OnTheWay
<1>11. artifact[a].state \notin {"FREE", "PENDING"}
  BY <1>1 DEF Leaving, OnTheWay
<1>12. CASE Return(c)
  <2>1. Gives(c, Idle) /\ Idle \in Call /\ Idle.step \notin WriteSteps /\ Sound(Idle)'
    BY <1>1, <1>12, ReturnGives DEF Sound, WriteSteps, DeleteSteps
  <2> QED
    BY <1>1, <1>2, <1>3, <1>6, <1>8, <1>9, <1>10, <1>11, <2>1, SettledRowKeepsInv
<1>13. CASE ~Return(c)
  <2>1. PICK owing \in BOOLEAN : owing <=> failed /\ artifact[a].state # "DELETED"
    OBVIOUS
  <2>2. PICK k : k = [call[c] EXCEPT !.step = "erase", !.owing = owing]
    OBVIOUS
  <2>3. k \in Call /\ k.step = "erase" /\ k.on = a /\ k.owing = owing
    BY <1>1, <2>2 DEF Call, Steps
  <2>4. call' = [call EXCEPT ![c].step = "erase", ![c].owing = owing]
    <3>1. call' = [call EXCEPT ![c].step = "erase",
                               ![c].owing = At(c, "unlink failed") /\ artifact[a].state # "DELETED"]
      BY <1>1, <1>13 DEF Settle
    <3>2. (At(c, "unlink failed") /\ artifact[a].state # "DELETED") = owing
      BY <1>4, <2>1, Zenon DEF At
    <3> QED
      BY <3>1, <3>2, Zenon
  <2>5. Gives(c, k)
    BY <1>1, <2>2, <2>3, <2>4 DEF Gives, TypeInv
  <2>6. ~owing => s = "DELETED"
    BY <1>1, <1>4, <1>6, <2>1
  <2>7. Sound(k)' /\ k.step \notin WriteSteps
    BY <1>8, <1>9, <2>3, <2>6 DEF Sound, WriteSteps, DeleteSteps
  <2> QED
    BY <1>1, <1>2, <1>3, <1>6, <1>8, <1>9, <1>10, <1>11, <2>3, <2>5, <2>7, SettledRowKeepsInv
<1> QED
  BY <1>12, <1>13

LEMMA EraseKeepsInv ==
  ASSUME IInv, NEW c \in All, Erase(c) PROVE IInv'
<1>1. PICK a \in Artifact :
            /\ a = call[c].on /\ TypeInv /\ Sound(call[c]) /\ call[c] \in Call
            /\ RowInv(a) /\ call[c].step = "erase"
            /\ ~call[c].owing => artifact[a].state = "DELETED"
  BY CallFacts DEF Erase, At, Sound
<1>2. UNCHANGED <<artifact, source, file, phase, todo, left>>
  BY DEF Erase, open
<1>3. staged' \in {staged, staged \ {a}} /\ vectors' \in {vectors, vectors \ {a}}
  BY <1>1 DEF Erase
<1>4. PICK owing \in BOOLEAN : owing <=> call[c].owing \/ a \in staged' \/ a \in vectors'
  OBVIOUS
<1>5. PICK k : k = [call[c] EXCEPT !.step = "finish", !.owing = owing]
  OBVIOUS
<1>6. k \in Call /\ k.step = "finish" /\ k.on = a /\ k.owing = owing
  BY <1>1, <1>5 DEF Call, Steps
<1>7. call' = [call EXCEPT ![c].step = "finish", ![c].owing = owing]
  <2>1. call' = [call EXCEPT ![c].step = "finish",
                             ![c].owing = call[c].owing \/ a \in staged' \/ a \in vectors']
    BY <1>1 DEF Erase
  <2>2. (call[c].owing \/ a \in staged' \/ a \in vectors') = owing
    BY <1>4, Zenon
  <2> QED
    BY <2>1, <2>2, Zenon
<1>8. Gives(c, k)
  BY <1>1, <1>5, <1>6, <1>7 DEF Gives, TypeInv
<1>9. Others(a) /\ Moves(a) /\ WriteIsKept(a)
  BY <1>2, <1>3 DEF Others, Moves, WriteIsKept
<1>10. RowInv(a)'
  BY <1>1, <1>2, <1>3 DEF RowInv, Managed
<1>11. Sound(k)' /\ k.step \notin WriteSteps
  BY <1>1, <1>2, <1>4, <1>6 DEF Sound, WriteSteps, DeleteSteps
<1>12. staged' \subseteq Artifact /\ vectors' \subseteq Artifact
  BY <1>1, <1>3 DEF TypeInv
<1> QED
  BY <1>1, <1>2, <1>6, <1>8, <1>9, <1>10, <1>11, <1>12, WritesKeepInv DEF TypeInv

LEMMA FinishKeepsInv ==
  ASSUME IInv, NEW c \in All, Finish(c) PROVE IInv'
<1>1. PICK a \in Artifact :
            /\ a = call[c].on /\ TypeInv /\ RowInv(a) /\ call[c].step = "finish"
            /\ ~call[c].owing => artifact[a].state = "DELETED" /\ a \notin staged
  BY CallFacts DEF Finish, At, Sound
<1>2. UNCHANGED <<artifact, vectors, file, staged, phase, todo>> /\ Return(c)
  BY DEF Finish, disk
<1>3. left' \subseteq Artifact
  BY <1>1 DEF Finish, Leaves, TypeInv
<1>4. \/ UNCHANGED source
      \/ /\ ~call[c].owing /\ a \notin vectors /\ source[a] = "DELETING"
         /\ source' = [source EXCEPT ![a] = "DELETED"]
  BY <1>1 DEF Finish
<1>5. /\ source' \in [Artifact -> SourceState]
      /\ source'[a] \in {source[a], "DELETED"}
      /\ source'[a] # source[a] =>
            artifact[a].state = "DELETED" /\ a \notin staged \cup vectors /\ source[a] = "DELETING"
      /\ \A b \in Artifact \ {a} : source'[b] = source[b]
  BY <1>1, <1>4 DEF TypeInv, SourceState
<1>6. Gives(c, Idle) /\ Idle \in Call /\ Idle.step = "idle"
  BY <1>1, <1>2, ReturnGives
<1>7. Others(a) /\ Moves(a) /\ WriteIsKept(a)
  BY <1>2, <1>5 DEF Others, Moves, WriteIsKept
<1>8. RowInv(a)'
  BY <1>1, <1>2, <1>5 DEF RowInv, Managed, Visible, Leaving, OnTheWay
<1>9. Sound(Idle)' /\ Idle.step \notin WriteSteps
  BY <1>6 DEF Sound, WriteSteps, DeleteSteps
<1> QED
  BY <1>1, <1>2, <1>3, <1>5, <1>6, <1>7, <1>8, <1>9, WritesKeepInv DEF TypeInv

-----------------------------------------------------------------------------
(* Steps of the user, of recovery and of the process                       *)

\* A step that leaves the calls alone.
LEMMA CallsStaySound ==
  ASSUME IInv, NEW a \in Artifact, Others(a), Moves(a), phase' = phase, call' = call,
         phase = "open" => WriteIsKept(a)
  PROVE  CallInv(Main)' /\ Main \in All
<1>1. PICK k \in Call : k = call[Main] /\ Sound(k)
  BY DEF IInv, TypeInv, CallInv, All
<1>2. k.step \in WriteSteps => phase = "open"
  BY <1>1 DEF Sound
<1>3. Sound(k)'
  BY <1>1, <1>2, OthersStaySound DEF IInv
<1> QED
  BY <1>1, <1>3 DEF CallInv, Sound, Managed, All

LEMMA QuietStepKeepsInv ==
  ASSUME IInv, NEW a \in Artifact, call' = call, phase' = phase, todo' \subseteq todo,
         artifact' \in [Artifact -> Row], file' \in [Artifact \cup Place -> Image \cup NoBytes],
         UNCHANGED <<source, vectors>>, staged' \subseteq Artifact, left' \subseteq Artifact,
         Others(a), RowInv(a)', Moves(a),
         WriteIsKept(a) \/ (phase # "open" /\ a \notin todo')
  PROVE  IInv'
<1>1. CallInv(Main)' /\ Main \in All
  BY CallsStaySound
<1>2. TypeInv'
  BY DEF IInv, TypeInv, Others
<1>3. \A b \in Artifact : Writes(Main, b)' => Writes(Main, b) \/ artifact[b].state = "FREE"
  BY DEF Writes
<1>4. \A d \in All \ {Main} : call'[d] = call[d]
  OBVIOUS
<1>5. Writes(Main, a) \/ WriteIsKept(a) \/ (phase # "open" /\ a \notin todo')
  OBVIOUS
<1> QED
  BY <1>1, <1>2, <1>3, <1>4, <1>5, StepKeepsInv

LEMMA UserChangesKeepInv ==
  ASSUME IInv, NEW x \in Artifact \cup Place, UserChanges(x)
  PROVE  IInv'
<1>1. UNCHANGED <<artifact, source, vectors, staged, call, phase, todo, left>>
  BY DEF UserChanges, rows, open
<1>2. PICK content \in Image \cup {"GONE"} : file' = [file EXCEPT ![x] = content]
  BY DEF UserChanges
<1>3. /\ file' \in [Artifact \cup Place -> Image \cup NoBytes] /\ file'[x] = content
      /\ \A y \in (Artifact \cup Place) \ {x} : file'[y] = file[y]
      /\ content # "ABSENT"
  BY <1>2 DEF IInv, TypeInv, Image, NoBytes
<1>4. CASE x \in Artifact
  <2>1. /\ artifact[x].state \in {"AVAILABLE", "MISSING"} /\ artifact[x].recorded # None
        /\ RowInv(x) /\ TypeInv
    BY <1>4 DEF UserChanges, IInv
  <2>2. Others(x) /\ Moves(x) /\ WriteIsKept(x)
    BY <1>1, <1>3, <1>4, <2>1, DistinctNames DEF Others, Moves, WriteIsKept, Leaving, OnTheWay
  <2>3. file[artifact[x].at] # "ABSENT" => file'[artifact[x].at] # "ABSENT"
    <3>1. artifact[x].at \in Artifact \cup Place
      BY <1>4, <2>1 DEF RowInv, TypeInv, Row, Managed
    <3> QED
      BY <1>3, <3>1
  <2>4. RowInv(x)'
    BY <1>1, <2>1, <2>3 DEF RowInv, Managed, Leaving, OnTheWay
  <2> QED
    BY <1>1, <1>3, <1>4, <2>1, <2>2, <2>4, QuietStepKeepsInv DEF TypeInv
<1>5. CASE x \in Place
  <2>1. \A a \in Artifact : file'[a] = file[a]
    BY <1>3, <1>5, DistinctNames
  <2>2. \A y \in Artifact \cup Place : file[y] # "ABSENT" => file'[y] # "ABSENT"
    BY <1>3
  <2>3. TypeInv'
    BY <1>1, <1>3, <1>5 DEF IInv, TypeInv
  <2>4. ASSUME NEW a \in Artifact PROVE RowInv(a)'
    <3>1. RowInv(a) /\ artifact[a] \in Row
      BY DEF IInv, TypeInv
    <3>2. source[a] \in Visible => artifact[a].at \in Artifact \cup Place
      BY <3>1 DEF RowInv, Row, Managed
    <3>3. source[a] \in Visible => file'[artifact[a].at] # "ABSENT"
      BY <2>2, <3>1, <3>2 DEF RowInv
    <3> QED
      BY <1>1, <2>1, <3>1, <3>3 DEF RowInv, Managed
  <2>5. ASSUME NEW c \in All PROVE CallInv(c)'
    <3>1. PICK k \in Call : k = call[c] /\ Sound(k)
      BY DEF IInv, TypeInv, CallInv
    <3>2. Sound(k)'
      BY <1>1, <2>1, <3>1 DEF Sound, Managed, WriteSteps, DeleteSteps
    <3> QED
      BY <1>1, <3>1, <3>2 DEF CallInv
  <2>6. WritersApart'
    BY <1>1 DEF IInv, WritersApart, Writes
  <2>7. \A a \in todo' : Owed(a)'
    BY <1>1 DEF IInv, Owed, Managed
  <2> QED
    BY <2>3, <2>4, <2>5, <2>6, <2>7 DEF IInv
<1> QED
  BY <1>4, <1>5

LEMMA RecoverPendingKeepsInv ==
  ASSUME IInv, NEW a \in Artifact, RecoverPending(a)
  PROVE  IInv'
<1>1. /\ TypeInv /\ RowInv(a) /\ artifact[a] \in Row /\ artifact[a].state = "PENDING"
      /\ phase = "pending" /\ todo' = todo \ {a}
  BY DEF IInv, RecoverPending, Owed, TypeInv
<1>2. UNCHANGED <<source, vectors, file, staged, call, phase>> /\ left' \subseteq Artifact
  BY <1>1 DEF RecoverPending, disk, TypeInv
<1>3. /\ artifact[a].mode = "MANAGED" /\ artifact[a].at = a /\ source[a] = "NONE"
      /\ artifact[a].recorded = None /\ file[a] \in {"ABSENT", "ORIGINAL"}
  BY <1>1 DEF RowInv, Managed
<1>4. CASE artifact' = artifact
  <2>1. Others(a) /\ Moves(a)
    BY <1>2, <1>4 DEF Others, Moves
  <2>2. RowInv(a)'
    BY <1>1, <1>2, <1>4 DEF RowInv, Managed
  <2> QED
    BY <1>1, <1>2, <1>4, <2>1, <2>2, QuietStepKeepsInv DEF TypeInv
<1>5. CASE artifact' = [artifact EXCEPT ![a] = Finalized(a)]
  <2>1. PICK row : row = Finalized(a)
    OBVIOUS
  <2>2. /\ row \in Row /\ row.mode = "MANAGED" /\ row.at = a
        /\ \/ row.state = "AVAILABLE" /\ row.recorded = "ORIGINAL"
           \/ row.state = "MISSING" /\ row.recorded = None
    BY <1>1, <1>3, <2>1 DEF Finalized, Present, Row, ArtifactState, Image, NoBytes
  <2>3. /\ artifact' \in [Artifact -> Row] /\ artifact'[a] = row
        /\ \A b \in Artifact \ {a} : artifact'[b] = artifact[b]
    BY <1>1, <1>5, <2>1, <2>2 DEF TypeInv
  <2>4. Others(a) /\ Moves(a)
    BY <1>1, <1>2, <1>3, <2>2, <2>3 DEF Others, Moves, Leaving, OnTheWay
  <2>5. RowInv(a)'
    BY <1>1, <1>2, <1>3, <2>2, <2>3, DistinctNames DEF RowInv, Managed, Visible
  <2> QED
    BY <1>1, <1>2, <2>3, <2>4, <2>5, QuietStepKeepsInv DEF TypeInv
<1> QED
  BY <1>4, <1>5 DEF RecoverPending

LEMMA RecoverStagingKeepsInv ==
  ASSUME IInv, NEW a \in Artifact, RecoverStaging(a)
  PROVE  IInv'
<1>1. /\ TypeInv /\ RowInv(a) /\ todo' = todo \ {a} /\ left' \subseteq Artifact
      /\ staged' \in {staged, staged \ {a}}
  BY DEF IInv, RecoverStaging, TypeInv
<1>2. UNCHANGED <<artifact, source, vectors, file, call, phase>>
  BY DEF RecoverStaging, rows
<1>3. Others(a) /\ Moves(a) /\ WriteIsKept(a) /\ staged' \subseteq Artifact
  BY <1>1, <1>2 DEF Others, Moves, WriteIsKept, TypeInv
<1>4. RowInv(a)'
  BY <1>1, <1>2 DEF RowInv, Managed
<1> QED
  BY <1>1, <1>2, <1>3, <1>4, QuietStepKeepsInv DEF TypeInv

LEMMA NextStepKeepsInv == IInv /\ NextStep => IInv'
<1> SUFFICES ASSUME IInv, NextStep PROVE IInv'
  OBVIOUS
<1>1. UNCHANGED <<artifact, source, vectors, file, staged, call, left>>
  BY DEF NextStep, rows, disk
<1>2. phase # "open" /\ phase' \in Phases /\ todo' = Visits(phase')
  BY DEF NextStep, StepAfter, Phases
<1>3. /\ todo' \subseteq Artifact
      /\ \A a \in todo' : Owed(a)'
  BY <1>1, <1>2 DEF Visits, Owed, IInv, TypeInv, Managed, Leaving
<1>4. TypeInv'
  BY <1>1, <1>2, <1>3 DEF IInv, TypeInv
<1>5. \A a \in Artifact : RowInv(a)'
  BY <1>1 DEF IInv, RowInv, Managed
<1>6. ASSUME NEW c \in All PROVE CallInv(c)'
  BY <1>1, <1>2 DEF IInv, CallInv, Sound, Managed
<1>7. WritersApart'
  BY <1>1 DEF IInv, WritersApart, Writes
<1> QED
  BY <1>3, <1>4, <1>5, <1>6, <1>7 DEF IInv

LEMMA MarkMissingKeepsInv == IInv /\ MarkMissing => IInv'
<1> SUFFICES ASSUME IInv, MarkMissing PROVE IInv'
  OBVIOUS
<1>1. UNCHANGED <<source, vectors, file, staged, call, left>>
  BY DEF MarkMissing, disk
<1>2. phase = "missing" /\ phase' = "resume" /\ todo' = Visits("resume")
  BY DEF MarkMissing
<1>3. PICK marked \in SUBSET Gone :
          artifact' = [a \in Artifact |->
                          IF a \in marked THEN [artifact[a] EXCEPT !.state = "MISSING"]
                          ELSE artifact[a]]
  BY DEF MarkMissing
<1>4. ASSUME NEW a \in Artifact
      PROVE  /\ artifact'[a] \in Row /\ artifact'[a].mode = artifact[a].mode
             /\ artifact'[a].at = artifact[a].at /\ artifact'[a].recorded = artifact[a].recorded
             /\ \/ artifact'[a].state = artifact[a].state
                \/ artifact[a].state = "AVAILABLE" /\ artifact'[a].state = "MISSING"
  <2>1. artifact[a] \in Row
    BY DEF IInv, TypeInv
  <2>2. CASE a \in marked
    BY <1>3, <2>1, <2>2 DEF Gone, Row, ArtifactState
  <2>3. CASE a \notin marked
    BY <1>3, <2>1, <2>3
  <2> QED
    BY <2>2, <2>3
<1>5. TypeInv'
  BY <1>1, <1>2, <1>3, <1>4 DEF IInv, TypeInv, Visits, Phases
<1>6. ASSUME NEW a \in Artifact PROVE RowInv(a)'
  <2>1. RowInv(a)
    BY DEF IInv
  <2> QED
    BY <1>1, <1>4, <2>1 DEF RowInv, Managed, Leaving, OnTheWay
<1>7. ASSUME NEW c \in All PROVE CallInv(c)'
  <2>1. PICK k \in Call : k = call[c] /\ Sound(k)
    BY DEF IInv, TypeInv, CallInv
  <2>2. k.step \notin WriteSteps /\ k.step # "publish"
    BY <1>2, <2>1 DEF Sound, WriteSteps
  <2>3. CASE k.step = "idle"
    BY <1>1, <2>1, <2>3 DEF CallInv, Sound, WriteSteps, DeleteSteps
  <2>4. CASE k.step # "idle"
    <3>1. k.on \in Artifact
      BY <2>1, <2>4 DEF Sound
    <3>2. Sound(k)'
      BY <1>1, <1>4, <2>1, <2>2, <3>1 DEF Sound, Managed, Leaving, OnTheWay
    <3> QED
      BY <1>1, <2>1, <3>2 DEF CallInv
  <2> QED
    BY <2>3, <2>4
<1>8. WritersApart' /\ \A a \in todo' : Owed(a)'
  BY <1>1, <1>2 DEF IInv, WritersApart, Writes, Owed
<1> QED
  BY <1>5, <1>6, <1>7, <1>8 DEF IInv

LEMMA CrashKeepsInv == IInv /\ Crash => IInv'
<1> SUFFICES ASSUME IInv, Crash PROVE IInv'
  OBVIOUS
<1>1. UNCHANGED <<artifact, source, vectors, file, staged>>
  BY DEF Crash, rows, disk
<1>2. phase' = "down" /\ todo' = {} /\ left' = {}
  BY DEF Crash
<1>3. Idle \in Call /\ Idle.step = "idle"
  BY DEF Idle, Call, Steps
<1>4. call' \in [All -> Call] /\ \A c \in All : call'[c] = Idle
  BY <1>3 DEF Crash, All
<1>5. TypeInv'
  BY <1>1, <1>2, <1>4 DEF IInv, TypeInv, Phases
<1>6. \A a \in Artifact : RowInv(a)'
  BY <1>1 DEF IInv, RowInv, Managed
<1>7. \A c \in All : CallInv(c)' /\ call'[c].step \notin WriteSteps
  BY <1>3, <1>4 DEF CallInv, Sound, WriteSteps, DeleteSteps
<1>8. WritersApart' /\ \A a \in todo' : Owed(a)'
  BY <1>2, <1>7 DEF WritersApart, Writes
<1> QED
  BY <1>5, <1>6, <1>7, <1>8 DEF IInv

-----------------------------------------------------------------------------
(* Results                                                                 *)

LEMMA CallStepKeepsInv ==
  ASSUME IInv, NEW c \in All, CallStep(c)
  PROVE  IInv'
  BY StageKeepsInv, RenameKeepsInv, StoreFailsKeepsInv, PublishKeepsInv,
     WriteNotCompletedKeepsInv, RereadKeepsInv, ExamineKeepsInv, RecordKeepsInv,
     InspectKeepsInv, RelinkKeepsInv, CarryKeepsInv, ReadIntentKeepsInv, UnlinkKeepsInv,
     SettleKeepsInv, EraseKeepsInv, FinishKeepsInv, RequestDeletionKeepsInv,
     CallFailsKeepsInv, Zenon DEF CallStep

LEMMA RequestKeepsInv ==
  ASSUME IInv, NEW c \in Caller, Request(c)
  PROVE  IInv'
  BY ReserveKeepsInv, ImportReferencedKeepsInv, RecheckKeepsInv, LocateKeepsInv,
     RecycleKeepsInv, BeginDeleteKeepsInv, ChooseKeepsInv, Zenon DEF Request

LEMMA NextKeepsInv == IInv /\ [Next]_vars => IInv'
<1> SUFFICES ASSUME IInv, [Next]_vars PROVE IInv'
  OBVIOUS
<1>1. CASE \E c \in Caller \cup {Main} : CallStep(c)
  BY <1>1, CallStepKeepsInv DEF All
<1>2. CASE \E c \in Caller : Request(c)
  BY <1>2, RequestKeepsInv
<1>3. CASE \E x \in Artifact \cup Place : UserChanges(x)
  BY <1>3, UserChangesKeepInv
<1>4. CASE Recovery
  BY <1>4, NextStepKeepsInv, MarkMissingKeepsInv, RecoverPendingKeepsInv,
     RecoverDeletionKeepsInv, RecoverStagingKeepsInv, ResumeDeletionKeepsInv DEF Recovery
<1>5. CASE Crash
  BY <1>5, CrashKeepsInv
<1>6. CASE UNCHANGED vars
  BY <1>6 DEF vars, IInv, TypeInv, RowInv, Managed, CallInv, Sound, WritersApart, Writes, Owed
<1> QED
  BY <1>1, <1>2, <1>3, <1>4, <1>5, <1>6 DEF Next

\* Rows, files and the calls under way are consistent in every reachable state.
THEOREM Invariant == Spec => []IInv
  BY InitialState, NextKeepsInv, PTL DEF Spec

\* Every row, file, call and phase stays within the values the code gives them.
THEOREM TypesHold == Spec => []TypeOK
<1>1. IInv => TypeOK
  BY DEF IInv, TypeInv, TypeOK, Row, SourceState, All
<1> QED
  BY <1>1, Invariant, PTL

\* Whatever cleanups, deletions and recoveries run, an image of the library keeps
\* its original until it is deleted (artifact_storage.py request_artifact_deletion,
\* storage_cleanup.py cleanup_unreferenced_artifacts).
THEOREM OriginalsAreKept == Spec => []OriginalIsKept
<1>1. IInv => OriginalIsKept
  BY DEF IInv, RowInv, OriginalIsKept
<1> QED
  BY <1>1, Invariant, PTL

\* No half-written file is ever recorded as an image (artifact_storage.py
\* mark_artifact_available, recover_artifacts).
THEOREM OnlyWholeImagesAreRecorded == Spec => []RecordedIsWhole
<1>1. IInv => RecordedIsWhole
  BY DEF IInv, RowInv, RecordedIsWhole
<1> QED
  BY <1>1, Invariant, PTL

\* Nothing brings an artifact back behind its deletion (permanent_delete.py
\* _begin, artifact_storage.py reverify_managed_artifact, referenced_artifacts.py
\* reverify_referenced_artifact and relink_referenced_artifact).
THEOREM DeletionsCanFinish == Spec => []DeletionCanFinish
<1>1. IInv => DeletionCanFinish
  BY DEF IInv, RowInv, DeletionCanFinish, Leaving
<1> QED
  BY <1>1, Invariant, PTL

\* What is deleted has left no bytes, no staging file and no vector, however many
\* requests and recoveries shared the work; the user's own files stay
\* (artifact_storage.py complete_artifact_deletion, permanent_delete.py _carry_on).
THEOREM DeletionsLeaveNothing == Spec => []DeletedIsGone
<1>1. IInv => DeletedIsGone
  <2> SUFFICES ASSUME IInv, NEW a \in Artifact
               PROVE  /\ artifact[a].state = "DELETED" /\ Managed(a) => file[a] \in NoBytes
                      /\ source[a] = "DELETED" =>
                            artifact[a].state = "DELETED" /\ a \notin staged \cup vectors
                      /\ ~Managed(a) /\ artifact[a].at # None => file[artifact[a].at] # "ABSENT"
    BY DEF DeletedIsGone
  <2>1. RowInv(a) /\ TypeInv /\ artifact[a] \in Row
    BY DEF IInv, TypeInv
  <2>2. ~Managed(a) /\ artifact[a].at # None => artifact[a].at \in Place
    BY <2>1 DEF RowInv, Managed, Row
  <2> QED
    BY <2>1, <2>2 DEF RowInv, TypeInv
<1> QED
  BY <1>1, Invariant, PTL
-----------------------------------------------------------------------------
(* Recovery settles or reports                                             *)

Busy(c) == call[c].step # "idle"
RemovalSteps == {"unlink", "unlink failed", "settle"}
DeletionSteps == {"carry", "intent", "erase", "finish"} \cup RemovalSteps

\* While recovery runs nothing else does, and only two of its steps make calls.
RecoveryIsAlone ==
    \A c \in All : phase # "open" /\ Busy(c) =>
        /\ c = Main
        /\ \/ phase = "deleting" /\ call[c].op = "recover" /\ call[c].step \in RemovalSteps
           \/ phase = "resume" /\ call[c].op = "delete" /\ call[c].step \in DeletionSteps

\* What the current step of recovery has not visited yet, and what is reported.
Remains(a) == a \in todo \cup left

\* What recovery has come past is settled, or reported.
Accounted(a) ==
    /\ artifact[a].state = "PENDING" =>
          /\ phase = "pending" => Remains(a)
          /\ phase \in {"deleting", "staging", "missing", "resume"} => a \in left
    /\ artifact[a].state \in OnTheWay =>
          /\ phase = "deleting" => Remains(a)
          /\ phase \in {"staging", "missing", "resume"} => a \in left
    /\ a \in staged =>
          /\ phase = "staging" => Remains(a)
          /\ phase \in {"missing", "resume"} => a \in left
    /\ source[a] = "DELETING" /\ phase = "resume" =>
          Remains(a) \/ (Busy(Main) /\ call[Main].on = a)

RecoveryInv == RecoveryIsAlone /\ \A a \in Artifact : Accounted(a)

\* What a step inside one step of recovery must show.
LEMMA ProgressKeepsRecovery ==
  ASSUME TypeInv, RecoveryInv, phase' = phase, RecoveryIsAlone', left \subseteq left',
         \A a \in Artifact :
            /\ artifact'[a].state = "PENDING" =>
                  artifact[a].state = "PENDING" /\ (phase = "pending" /\ a \in todo => Remains(a)')
            /\ artifact'[a].state \in OnTheWay =>
                  artifact[a].state \in OnTheWay /\ (phase = "deleting" /\ a \in todo => Remains(a)')
            /\ a \in staged' => a \in staged /\ (phase = "staging" /\ a \in todo => Remains(a)')
            /\ source'[a] = "DELETING" /\ phase = "resume" =>
                  /\ source[a] = "DELETING"
                  /\ a \in todo \/ (Busy(Main) /\ call[Main].on = a) =>
                        Remains(a)' \/ (Busy(Main) /\ call[Main].on = a)'
  PROVE  RecoveryInv'
<1> SUFFICES ASSUME NEW a \in Artifact PROVE Accounted(a)'
  BY DEF RecoveryInv
<1>1. Accounted(a) /\ (a \in left => a \in left' /\ Remains(a)')
  BY DEF RecoveryInv, Remains
<1>2. phase = "pending" /\ artifact'[a].state = "PENDING" => Remains(a)'
  BY <1>1 DEF Accounted, Remains
<1>3. phase = "deleting" /\ artifact'[a].state \in OnTheWay => Remains(a)'
  BY <1>1 DEF Accounted, Remains
<1>4. phase = "staging" /\ a \in staged' => Remains(a)'
  BY <1>1 DEF Accounted, Remains
<1>5. phase = "resume" /\ source'[a] = "DELETING" => Remains(a)' \/ (Busy(Main) /\ call[Main].on = a)'
  BY <1>1 DEF Accounted, Remains
<1>6. phase \in {"deleting", "staging", "missing", "resume"} /\ artifact'[a].state = "PENDING" => a \in left'
  BY <1>1 DEF Accounted
<1>7. /\ phase \in {"staging", "missing", "resume"} /\ artifact'[a].state \in OnTheWay => a \in left'
      /\ phase \in {"missing", "resume"} /\ a \in staged' => a \in left'
  BY <1>1 DEF Accounted
<1> QED
  BY <1>2, <1>3, <1>4, <1>5, <1>6, <1>7 DEF Accounted

LEMMA OpenIsQuiet == phase' = "open" => RecoveryInv'
  BY DEF RecoveryInv, RecoveryIsAlone, Accounted

LEMMA CrashKeepsRecovery == IInv /\ Crash => RecoveryInv'
<1> SUFFICES ASSUME IInv, Crash PROVE RecoveryInv'
  OBVIOUS
<1>1. \A c \in All : call'[c].step = "idle"
  BY DEF Crash, All, Idle
<1>2. phase' = "down"
  BY DEF Crash
<1> QED
  BY <1>1, <1>2 DEF RecoveryInv, RecoveryIsAlone, Busy, Accounted

\* A step that leaves the calls as they are.
LEMMA SameCallsStayAlone ==
  ASSUME RecoveryInv, call' = call, phase' = phase
  PROVE  RecoveryIsAlone' /\ (Busy(Main)' <=> Busy(Main))
  BY DEF RecoveryInv, RecoveryIsAlone, Busy

LEMMA UserKeepsRecovery ==
  ASSUME IInv, RecoveryInv, NEW x \in Artifact \cup Place, UserChanges(x)
  PROVE  RecoveryInv'
<1>1. UNCHANGED <<artifact, source, staged, call, phase, todo, left>>
  BY DEF UserChanges, rows, open
<1> QED
  BY <1>1 DEF RecoveryInv, RecoveryIsAlone, Accounted, Busy, Remains

LEMMA PendingKeepsRecovery ==
  ASSUME IInv, RecoveryInv, NEW a \in Artifact, RecoverPending(a)
  PROVE  RecoveryInv'
<1>1. /\ UNCHANGED <<source, staged, call, phase>> /\ phase = "pending" /\ a \in todo
      /\ todo' = todo \ {a} /\ TypeInv /\ artifact[a].state = "PENDING"
  BY DEF RecoverPending, disk, IInv, Owed
<1>2. RecoveryIsAlone' /\ (Busy(Main)' <=> Busy(Main))
  BY <1>1, SameCallsStayAlone
<1>3. left \subseteq left'
  BY DEF RecoverPending
<1>4. ASSUME NEW b \in Artifact
      PROVE  /\ artifact'[b].state = "PENDING" =>
                   artifact[b].state = "PENDING" /\ (b \in todo => Remains(b)')
             /\ artifact'[b].state \in OnTheWay => artifact[b].state \in OnTheWay
  <2>1. CASE b # a
    <3>1. artifact'[b] = artifact[b]
      BY <2>1 DEF RecoverPending, IInv, TypeInv
    <3> QED
      BY <1>1, <2>1, <3>1 DEF Remains
  <2>2. CASE b = a /\ artifact' = artifact /\ left' = left \cup {a}
    BY <2>2 DEF Remains
  <2>3. CASE b = a /\ artifact' = [artifact EXCEPT ![a] = Finalized(a)]
    <3>1. artifact'[a] = Finalized(a)
      BY <1>1, <2>3 DEF TypeInv
    <3>2. artifact'[a].state \in {"AVAILABLE", "MISSING"}
      <4>1. artifact[a] \in Row
        BY <1>1 DEF TypeInv
      <4> QED
        BY <3>1, <4>1 DEF Finalized, Row
    <3> QED
      BY <2>3, <3>2 DEF OnTheWay
  <2> QED
    BY <2>1, <2>2, <2>3 DEF RecoverPending
<1> QED
  BY <1>1, <1>2, <1>3, <1>4, ProgressKeepsRecovery

LEMMA StagingKeepsRecovery ==
  ASSUME IInv, RecoveryInv, NEW a \in Artifact, RecoverStaging(a)
  PROVE  RecoveryInv'
<1>1. /\ UNCHANGED <<artifact, source, call, phase>> /\ phase = "staging" /\ todo' = todo \ {a}
      /\ TypeInv
  BY DEF RecoverStaging, rows, IInv
<1>2. RecoveryIsAlone' /\ (Busy(Main)' <=> Busy(Main))
  BY <1>1, SameCallsStayAlone
<1>3. left \subseteq left'
  BY DEF RecoverStaging
<1>4. \A b \in Artifact : b \in staged' => b \in staged /\ (b \in todo => Remains(b)')
  BY <1>1 DEF RecoverStaging, Remains
<1> QED
  BY <1>1, <1>2, <1>3, <1>4, ProgressKeepsRecovery

LEMMA DeletionKeepsRecovery ==
  ASSUME IInv, RecoveryInv, NEW a \in Artifact, RecoverDeletion(a)
  PROVE  RecoveryInv'
<1>1. UNCHANGED <<artifact, source, staged, phase, todo, left>> /\ phase = "deleting" /\ TypeInv
  BY DEF RecoverDeletion, rows, disk, open, IInv
<1>2. PICK k : k = Doing("recover", "unlink", a)
  OBVIOUS
<1>3. k.op = "recover" /\ k.step \in RemovalSteps
  BY <1>2 DEF Doing, RemovalSteps
<1>4. "unlink" \in Steps /\ Main \in All /\ call' = [call EXCEPT ![Main] = k]
  BY <1>2 DEF Steps, DeleteSteps, All, RecoverDeletion
<1>5. call'[Main] = k /\ \A c \in All \ {Main} : call'[c] = call[c]
  BY <1>1, <1>4 DEF TypeInv
<1>6. RecoveryIsAlone'
  BY <1>1, <1>3, <1>5 DEF RecoveryInv, RecoveryIsAlone, Busy
<1> QED
  BY <1>1, <1>6 DEF RecoveryInv, Accounted, Remains

LEMMA ResumeKeepsRecovery ==
  ASSUME IInv, RecoveryInv, NEW a \in Artifact, ResumeDeletion(a)
  PROVE  RecoveryInv'
<1>1. /\ UNCHANGED <<artifact, source, staged, phase, left>> /\ phase = "resume" /\ TypeInv
      /\ todo' = todo \ {a} /\ call[Main] = Idle
  BY DEF ResumeDeletion, rows, disk, IInv
<1>2. Gives(Main, Doing("delete", "carry", a))
  BY <1>1, DoingGives DEF ResumeDeletion, All, Steps
<1>3. RecoveryIsAlone'
  BY <1>1, <1>2 DEF RecoveryInv, RecoveryIsAlone, Busy, Gives, Doing, DeletionSteps
<1>4. ~Busy(Main) /\ (Busy(Main) /\ call[Main].on = a)'
  BY <1>1, <1>2 DEF Busy, Idle, Gives, Doing
<1>5. \A b \in Artifact : b \in todo => Remains(b)' \/ (Busy(Main) /\ call[Main].on = b)'
  BY <1>1, <1>4 DEF Remains
<1> QED
  BY <1>1, <1>3, <1>4, <1>5, ProgressKeepsRecovery

LEMMA MissingKeepsRecovery == IInv /\ RecoveryInv /\ MarkMissing => RecoveryInv'
<1> SUFFICES ASSUME IInv, RecoveryInv, MarkMissing PROVE RecoveryInv'
  OBVIOUS
<1>1. /\ UNCHANGED <<source, staged, call, left>> /\ phase = "missing" /\ phase' = "resume"
      /\ todo' = Visits("resume")
  BY DEF MarkMissing, disk
<1>2. ASSUME NEW a \in Artifact
      PROVE  artifact'[a].state = artifact[a].state \/ artifact'[a].state = "MISSING"
  <2>1. artifact[a] \in Row
    BY DEF IInv, TypeInv
  <2> QED
    BY <2>1 DEF MarkMissing, Row
<1>3. RecoveryIsAlone'
  BY <1>1 DEF RecoveryInv, RecoveryIsAlone, Busy
<1>4. ASSUME NEW a \in Artifact PROVE Accounted(a)'
  <2>1. source'[a] = "DELETING" => Remains(a)'
    BY <1>1 DEF Visits, Remains
  <2> QED
    BY <1>1, <1>2, <2>1 DEF RecoveryInv, Accounted, OnTheWay
<1> QED
  BY <1>3, <1>4 DEF RecoveryInv

LEMMA NextStepKeepsRecovery == IInv /\ RecoveryInv /\ NextStep => RecoveryInv'
<1> SUFFICES ASSUME IInv, RecoveryInv, NextStep PROVE RecoveryInv'
  OBVIOUS
<1>1. /\ UNCHANGED <<artifact, source, staged, call, left>>
      /\ todo = {} /\ call[Main].step = "idle" /\ todo' = Visits(phase')
  BY DEF NextStep, rows, disk, Idle
<1>2. \/ phase = "down" /\ phase' = "pending"
      \/ phase = "pending" /\ phase' = "deleting"
      \/ phase = "deleting" /\ phase' = "staging"
      \/ phase = "staging" /\ phase' = "missing"
      \/ phase = "resume" /\ phase' = "open"
  BY DEF NextStep, StepAfter
<1>3. RecoveryIsAlone'
  BY <1>1, <1>2 DEF RecoveryInv, RecoveryIsAlone, Busy
<1>4. ASSUME NEW a \in Artifact PROVE Accounted(a)'
  <2>1. Accounted(a) /\ (Remains(a) => a \in left')
    BY <1>1 DEF RecoveryInv, Remains
  <2>2. phase' = "pending" /\ artifact'[a].state = "PENDING" => Remains(a)'
    BY <1>1 DEF Visits, Remains
  <2>3. phase' = "deleting" /\ artifact'[a].state \in OnTheWay => Remains(a)'
    <3>1. artifact[a].state \in OnTheWay => artifact[a].mode = "MANAGED"
      BY DEF IInv, TypeInv, RowInv, Row, OnTheWay
    <3> QED
      BY <1>1, <3>1 DEF Visits, Remains, Managed
  <2>4. phase' = "staging" /\ a \in staged' => Remains(a)'
    BY <1>1 DEF Visits, Remains
  <2> QED
    BY <1>1, <1>2, <2>1, <2>2, <2>3, <2>4 DEF Accounted
<1> QED
  BY <1>3, <1>4 DEF RecoveryInv


\* A call of recovery after its step: k is its own, or it is over.
LEMMA MainsCallStaysAlone ==
  ASSUME TypeInv, RecoveryInv, phase # "open", phase' = phase, Busy(Main), NEW k \in Call,
         Gives(Main, k), k.op = call[Main].op \/ k.step = "idle",
         k.step = "idle" \/ k.step \in RemovalSteps
            \/ (call[Main].op = "delete" /\ k.step \in DeletionSteps)
  PROVE  RecoveryIsAlone'
<1>1. Main \in All /\ call'[Main] = k /\ \A c \in All \ {Main} : call'[c] = call[c]
  BY DEF All, Gives
<1>2. \/ phase = "deleting" /\ call[Main].op = "recover"
      \/ phase = "resume" /\ call[Main].op = "delete"
  BY <1>1 DEF RecoveryInv, RecoveryIsAlone
<1> SUFFICES ASSUME NEW c \in All, Busy(c)'
             PROVE  /\ c = Main
                    /\ \/ phase = "deleting" /\ call'[c].op = "recover" /\ call'[c].step \in RemovalSteps
                       \/ phase = "resume" /\ call'[c].op = "delete" /\ call'[c].step \in DeletionSteps
  BY DEF RecoveryIsAlone
<1>3. c = Main
  BY <1>1 DEF RecoveryInv, RecoveryIsAlone, Busy
<1>4. k.step # "idle"
  BY <1>1, <1>3 DEF Busy
<1> QED
  BY <1>1, <1>2, <1>3, <1>4 DEF DeletionSteps

\* A step of it that goes on with the same artifact and settles nothing.
LEMMA GoingOnKeepsRecovery ==
  ASSUME IInv, RecoveryInv, phase # "open", phase' = phase, Busy(Main), NEW k \in Call,
         Gives(Main, k), k.op = call[Main].op, k.on = call[Main].on,
         k.step \in RemovalSteps \/ (call[Main].op = "delete" /\ k.step \in DeletionSteps),
         UNCHANGED <<artifact, source, todo, left>>, staged' \subseteq staged
  PROVE  RecoveryInv'
<1>1. RecoveryIsAlone'
  BY MainsCallStaysAlone DEF IInv
<1>2. k.step # "idle"
  BY DEF RemovalSteps, DeletionSteps
<1>3. Busy(Main)' /\ call'[Main] = k
  BY <1>2 DEF Gives, Busy
<1>4. \A a \in Artifact : a \in todo => Remains(a)'
  BY DEF Remains
<1> QED
  BY <1>1, <1>3, <1>4, ProgressKeepsRecovery DEF IInv

\* A step that ends a resumed deletion: it is done, or reported.
LEMMA EndingKeepsRecovery ==
  ASSUME IInv, RecoveryInv, phase # "open", phase' = phase, Busy(Main), Return(Main),
         UNCHANGED <<artifact, staged, todo>>, left \subseteq left',
         \A a \in Artifact : source'[a] = "DELETING" =>
            source[a] = "DELETING" /\ (a = call[Main].on => a \in left')
  PROVE  RecoveryInv'
<1>1. Gives(Main, Idle) /\ Idle \in Call /\ Idle.step = "idle"
  BY ReturnGives DEF IInv, All
<1>2. RecoveryIsAlone'
  BY <1>1, MainsCallStaysAlone DEF IInv
<1>3. \A a \in Artifact : a \in todo => Remains(a)'
  BY DEF Remains
<1>4. \A a \in Artifact : source'[a] = "DELETING" =>
         source[a] = "DELETING" /\ (a \in todo \/ (Busy(Main) /\ call[Main].on = a) => Remains(a)')
  BY <1>3 DEF Remains
<1> QED
  BY <1>2, <1>3, <1>4, ProgressKeepsRecovery DEF IInv

\* What is known of a call that takes a step while recovery runs.
LEMMA RecoveryCallFacts ==
  ASSUME IInv, RecoveryInv, phase # "open", NEW c \in All, Busy(c)
  PROVE  /\ c = Main /\ call[Main] \in Call /\ TypeInv /\ call[Main].on \in Artifact
         /\ \/ call[Main].op = "recover" /\ phase = "deleting" /\ call[Main].step \in RemovalSteps
            \/ call[Main].op = "delete" /\ phase = "resume" /\ call[Main].step \in DeletionSteps
<1>1. c = Main
  BY DEF RecoveryInv, RecoveryIsAlone
<1>2. call[Main].on \in Artifact /\ call[Main] \in Call /\ TypeInv
  BY <1>1, CallFacts DEF Busy
<1>3. \/ phase = "deleting" /\ call[c].op = "recover" /\ call[c].step \in RemovalSteps
      \/ phase = "resume" /\ call[c].op = "delete" /\ call[c].step \in DeletionSteps
  BY DEF RecoveryInv, RecoveryIsAlone
<1> QED
  BY <1>1, <1>2, <1>3

LEMMA CarryKeepsRecovery ==
  ASSUME IInv, RecoveryInv, phase # "open", NEW c \in All, Carry(c)
  PROVE  RecoveryInv'
<1>1. Busy(c) /\ call[c].step = "carry"
  BY DEF Carry, At, Busy
<1>2. /\ c = Main /\ call[Main] \in Call /\ TypeInv /\ Busy(Main)
      /\ call[Main].op = "delete" /\ phase' = phase
  BY <1>1, RecoveryCallFacts DEF RemovalSteps, Carry, open
<1>3. UNCHANGED <<artifact, source, staged, todo, left>>
  BY DEF Carry, rows, disk, open
<1>4. CASE source[call[c].on] = "DELETED"
  BY <1>2, <1>3, <1>4, EndingKeepsRecovery DEF Carry
<1>5. CASE source[call[c].on] # "DELETED"
  <2>1. PICK s \in {"intent", "erase"}, b \in BOOLEAN :
            call' = [call EXCEPT ![c].step = s, ![c].owing = b]
    BY <1>5 DEF Carry
  <2>2. PICK k : k = [call[Main] EXCEPT !.step = s, !.owing = b]
    OBVIOUS
  <2>3. k \in Call /\ k.step = s /\ k.on = call[Main].on /\ k.op = call[Main].op
    BY <1>2, <2>2 DEF Call, Steps, DeleteSteps
  <2>4. call' = [call EXCEPT ![Main] = k]
    BY <1>2, <2>1, <2>2 DEF TypeInv, Call
  <2>5. Gives(Main, k)
    BY <1>2, <2>3, <2>4 DEF TypeInv, Gives, All
  <2> QED
    BY <1>2, <1>3, <2>3, <2>5, GoingOnKeepsRecovery DEF DeletionSteps, RemovalSteps
<1> QED
  BY <1>4, <1>5

LEMMA ReadIntentKeepsRecovery ==
  ASSUME IInv, RecoveryInv, phase # "open", NEW c \in All, ReadIntent(c)
  PROVE  RecoveryInv'
<1>1. Busy(c) /\ call[c].step = "intent"
  BY DEF ReadIntent, At, Busy
<1>2. /\ c = Main /\ call[Main] \in Call /\ TypeInv /\ Busy(Main)
      /\ call[Main].op = "delete" /\ phase' = phase
  BY <1>1, RecoveryCallFacts DEF ReadIntent, open, RemovalSteps
<1>3. UNCHANGED <<artifact, source, staged, todo, left>>
  BY DEF ReadIntent, rows, disk, open
<1>4. PICK s \in {"erase", "unlink"} : GoTo(c, s) /\ (s = "erase" => artifact[call[c].on].state = "DELETED")
  BY DEF ReadIntent
<1>5. PICK k : k = [call[Main] EXCEPT !.step = s]
  OBVIOUS
<1>6. k \in Call /\ k.step = s /\ k.on = call[Main].on /\ k.op = call[Main].op
  BY <1>2, <1>5 DEF Call, Steps, DeleteSteps
<1>7. Gives(Main, k)
  BY <1>2, <1>4, <1>5, GoToGives DEF Steps, DeleteSteps
<1> QED
  BY <1>2, <1>3, <1>6, <1>7, GoingOnKeepsRecovery DEF DeletionSteps, RemovalSteps

LEMMA UnlinkKeepsRecovery ==
  ASSUME IInv, RecoveryInv, phase # "open", NEW c \in All, Unlink(c)
  PROVE  RecoveryInv'
<1>1. Busy(c)
  BY DEF Unlink, At, Busy
<1>2. c = Main /\ call[Main] \in Call /\ TypeInv /\ Busy(Main) /\ phase' = phase
  BY <1>1, RecoveryCallFacts DEF Unlink, open
<1>3. UNCHANGED <<artifact, source, staged, todo, left>>
  BY DEF Unlink, rows, open
<1>4. PICK s \in {"settle", "unlink failed"} : GoTo(c, s)
  BY DEF Unlink
<1>5. PICK k : k = [call[Main] EXCEPT !.step = s]
  OBVIOUS
<1>6. k \in Call /\ k.step = s /\ k.on = call[Main].on /\ k.op = call[Main].op
  BY <1>2, <1>5 DEF Call, Steps, DeleteSteps
<1>7. Gives(Main, k)
  BY <1>2, <1>4, <1>5, GoToGives DEF Steps, DeleteSteps
<1> QED
  BY <1>2, <1>3, <1>6, <1>7, GoingOnKeepsRecovery DEF RemovalSteps

LEMMA SettleKeepsRecovery ==
  ASSUME IInv, RecoveryInv, phase # "open", NEW c \in All, Settle(c)
  PROVE  RecoveryInv'
<1>1. Busy(c)
  BY DEF Settle, Busy
<1>2. /\ c = Main /\ Main \in All /\ call[Main] \in Call /\ TypeInv /\ Busy(Main) /\ phase' = phase
      /\ \/ call[Main].op = "recover" /\ phase = "deleting"
         \/ call[Main].op = "delete" /\ phase = "resume"
  BY <1>1, RecoveryCallFacts DEF Settle
<1>3. PICK a \in Artifact : /\ a = call[Main].on /\ artifact[a] \in Row
                            /\ artifact[a].state \in Leaving
  BY <1>2, CallFacts DEF Busy, Sound, DeleteSteps, Settle
<1>4. PICK failed \in BOOLEAN : failed <=> At(Main, "unlink failed")
  OBVIOUS
<1>5. /\ UNCHANGED <<source, staged>> /\ Become(a, Settled(a, failed))
      /\ call[Main].op = "recover" =>
            Return(Main) /\ todo' = todo \ {a} /\ (left' = IF failed THEN left \cup {a} ELSE left)
      /\ call[Main].op = "delete" =>
            /\ UNCHANGED <<todo, left>>
            /\ \E b \in BOOLEAN : call' = [call EXCEPT ![Main].step = "erase", ![Main].owing = b]
  <2>1. UNCHANGED <<source, staged>>
    BY DEF Settle, disk
  <2>2. Settled(a, failed) = Settled(a, At(Main, "unlink failed"))
    BY <1>4 DEF Settled
  <2>3. Become(a, Settled(a, failed))
    BY <1>2, <1>3, <2>2 DEF Settle
  <2>4. call[Main].op = "recover" =>
            Return(Main) /\ todo' = todo \ {a} /\ (left' = IF failed THEN left \cup {a} ELSE left)
    BY <1>2, <1>3, <1>4 DEF Settle, Leaves
  <2>5. call[Main].op = "delete" =>
            /\ UNCHANGED <<todo, left>>
            /\ \E b \in BOOLEAN : call' = [call EXCEPT ![Main].step = "erase", ![Main].owing = b]
    <3> DEFINE b == At(Main, "unlink failed") /\ artifact[a].state # "DELETED"
    <3>1. b \in BOOLEAN
      BY <1>4
    <3>2. call[Main].op = "delete" =>
            /\ UNCHANGED <<todo, left>>
            /\ call' = [call EXCEPT ![Main].step = "erase", ![Main].owing = b]
      BY <1>2, <1>3 DEF Settle
    <3> HIDE DEF b
    <3> QED
      BY <3>1, <3>2
  <2> QED
    BY <2>1, <2>3, <2>4, <2>5
<1>6. ASSUME NEW b \in Artifact
      PROVE  /\ artifact'[b].state = "PENDING" => artifact[b].state = "PENDING" /\ b # a
             /\ artifact'[b].state \in OnTheWay =>
                   artifact[b].state \in OnTheWay /\ (b = a => failed)
  <2>1. artifact[b] \in Row /\ (b # a => artifact'[b] = artifact[b])
    BY <1>2, <1>5 DEF TypeInv, Become
  <2>2. artifact'[a].state = Settled(a, failed)
    BY <1>2, <1>3, <1>5 DEF TypeInv, Become, Row
  <2> QED
    BY <1>3, <2>1, <2>2 DEF Settled, Leaving, OnTheWay
<1>7. CASE call[Main].op = "recover"
  <2>1. Gives(Main, Idle) /\ Idle \in Call /\ Idle.step = "idle"
    BY <1>2, <1>5, <1>7, ReturnGives
  <2>2. RecoveryIsAlone'
    BY <1>2, <2>1, MainsCallStaysAlone
  <2>3. \A b \in Artifact : b \in todo /\ (b = a => failed) => Remains(b)'
    BY <1>5, <1>7 DEF Remains
  <2>4. phase = "deleting" /\ left \subseteq left' /\ staged' = staged
    BY <1>2, <1>5, <1>7
  <2> QED
    BY <1>2, <1>6, <2>2, <2>3, <2>4, ProgressKeepsRecovery
<1>8. CASE call[Main].op = "delete"
  <2>1. PICK b \in BOOLEAN : call' = [call EXCEPT ![Main].step = "erase", ![Main].owing = b]
    BY <1>5, <1>8
  <2>2. PICK k : k = [call[Main] EXCEPT !.step = "erase", !.owing = b]
    OBVIOUS
  <2>3. k \in Call /\ k.step = "erase" /\ k.on = a /\ k.op = "delete"
    BY <1>2, <1>3, <1>8, <2>2 DEF Call, Steps
  <2>4. call' = [call EXCEPT ![Main] = k]
    BY <1>2, <2>1, <2>2 DEF TypeInv, Call
  <2>5. Gives(Main, k)
    BY <1>2, <2>3, <2>4 DEF TypeInv, Gives
  <2>6. RecoveryIsAlone'
    BY <1>2, <1>8, <2>3, <2>5, MainsCallStaysAlone DEF DeletionSteps
  <2>7. Busy(Main)' /\ call'[Main] = k
    BY <2>3, <2>5 DEF Busy, Gives
  <2>8. /\ phase = "resume" /\ left' = left /\ staged' = staged /\ source' = source
        /\ \A x \in Artifact : x \in todo => Remains(x)'
    BY <1>2, <1>5, <1>8 DEF Remains
  <2>9. \A x \in Artifact : call[Main].on = x => (Busy(Main) /\ call[Main].on = x)'
    BY <1>3, <2>3, <2>7
  <2> QED
    BY <1>2, <1>6, <2>6, <2>8, <2>9, ProgressKeepsRecovery
<1> QED
  BY <1>2, <1>7, <1>8

LEMMA EraseKeepsRecovery ==
  ASSUME IInv, RecoveryInv, phase # "open", NEW c \in All, Erase(c)
  PROVE  RecoveryInv'
<1>1. Busy(c) /\ call[c].step = "erase"
  BY DEF Erase, At, Busy
<1>2. /\ c = Main /\ call[Main] \in Call /\ TypeInv /\ Busy(Main)
      /\ call[Main].op = "delete" /\ phase' = phase
  BY <1>1, RecoveryCallFacts DEF RemovalSteps, Erase, open
<1>3. UNCHANGED <<artifact, source, todo, left>> /\ staged' \subseteq staged
  BY DEF Erase, open
<1>4. PICK b \in BOOLEAN : call' = [call EXCEPT ![c].step = "finish", ![c].owing = b]
  <2> DEFINE b == call[c].owing \/ call[c].on \in staged' \/ call[c].on \in vectors'
  <2>1. b \in BOOLEAN
    BY <1>2 DEF Call
  <2>2. call' = [call EXCEPT ![c].step = "finish", ![c].owing = b]
    BY <1>2 DEF Erase, TypeInv, Call
  <2> HIDE DEF b
  <2> QED
    BY <2>1, <2>2
<1>5. PICK k : k = [call[Main] EXCEPT !.step = "finish", !.owing = b]
  OBVIOUS
<1>6. k \in Call /\ k.step = "finish" /\ k.on = call[Main].on /\ k.op = call[Main].op
  BY <1>2, <1>5 DEF Call, Steps
<1>7. call' = [call EXCEPT ![Main] = k]
  BY <1>2, <1>4, <1>5 DEF TypeInv, Call
<1>8. Gives(Main, k)
  BY <1>2, <1>6, <1>7 DEF TypeInv, Gives, All
<1> QED
  BY <1>2, <1>3, <1>6, <1>8, GoingOnKeepsRecovery DEF DeletionSteps

LEMMA FinishKeepsRecovery ==
  ASSUME IInv, RecoveryInv, phase # "open", NEW c \in All, Finish(c)
  PROVE  RecoveryInv'
<1>1. Busy(c)
  BY DEF Finish, At, Busy
<1>2. c = Main /\ TypeInv /\ Busy(Main) /\ phase' = phase
  BY <1>1, RecoveryCallFacts DEF Finish
<1>3. PICK a \in Artifact : a = call[Main].on
  BY <1>1, RecoveryCallFacts
<1>4. UNCHANGED <<artifact, staged, todo>> /\ Return(Main)
  BY <1>2 DEF Finish, disk
<1>5. left \subseteq left' /\ (source'[a] = "DELETING" => a \in left')
  BY <1>2, <1>3 DEF Finish, Leaves
<1>6. \A b \in Artifact : source'[b] = "DELETING" => source[b] = "DELETING"
  BY <1>2, <1>3 DEF Finish, TypeInv
<1> QED
  BY <1>2, <1>3, <1>4, <1>5, <1>6, EndingKeepsRecovery

LEMMA CallFailsKeepsRecovery ==
  ASSUME IInv, RecoveryInv, phase # "open", NEW c \in All, CallFails(c)
  PROVE  RecoveryInv'
<1>1. Busy(c)
  BY DEF CallFails, Busy
<1>2. c = Main /\ Busy(Main) /\ phase' = phase
  BY <1>1, RecoveryCallFacts DEF CallFails
<1>3. /\ UNCHANGED <<artifact, source, staged, todo>> /\ Return(Main)
      /\ left' = left \cup {call[Main].on}
  BY <1>2 DEF CallFails, rows, disk, Leaves
<1> QED
  BY <1>2, <1>3, EndingKeepsRecovery

LEMMA RecoveryIsKept == IInv /\ RecoveryInv /\ [Next]_vars => RecoveryInv'
<1> SUFFICES ASSUME IInv, RecoveryInv, [Next]_vars PROVE RecoveryInv'
  OBVIOUS
<1>1. CASE Crash
  BY <1>1, CrashKeepsRecovery
<1>2. CASE UNCHANGED vars
  BY <1>2 DEF vars, RecoveryInv, RecoveryIsAlone, Accounted, Busy, Remains
<1>3. CASE \E x \in Artifact \cup Place : UserChanges(x)
  BY <1>3, UserKeepsRecovery
<1>4. CASE Recovery
  BY <1>4, NextStepKeepsRecovery, MissingKeepsRecovery, PendingKeepsRecovery,
     DeletionKeepsRecovery, StagingKeepsRecovery, ResumeKeepsRecovery DEF Recovery
<1>5. ASSUME NEW c \in Caller, Request(c) PROVE RecoveryInv'
  <2>1. phase' = "open"
    BY <1>5 DEF Request, Reserve, ImportReferenced, Recheck, Locate, Recycle, BeginDelete,
                Choose, Serving, open
  <2> QED
    BY <2>1, OpenIsQuiet
<1>6. ASSUME NEW c \in All, CallStep(c) PROVE RecoveryInv'
  <2>1. CASE phase = "open"
    <3>1. phase' = phase
      BY <1>6 DEF CallStep, Stage, Rename, StoreFails, Publish, WriteNotCompleted, Reread,
                  Examine, Record, Inspect, Relink, Carry, ReadIntent, Unlink, Settle, Erase,
                  Finish, RequestDeletion, CallFails, open
    <3> QED
      BY <2>1, <3>1, OpenIsQuiet
  <2>2. CASE phase # "open" /\ ~Busy(c)
    BY <1>6, <2>2 DEF Busy, At, CallStep, Stage, Rename, StoreFails, Publish,
              WriteNotCompleted, Reread, Examine, Record, Inspect, Relink, Carry, ReadIntent,
              Unlink, Settle, Erase, Finish, RequestDeletion, CallFails
  <2>3. CASE phase # "open" /\ Busy(c)
    <3>1. call[c].step \in RemovalSteps \cup DeletionSteps
      BY <2>3, RecoveryCallFacts
    <3>2. \/ Carry(c) \/ ReadIntent(c) \/ Unlink(c) \/ Settle(c) \/ Erase(c) \/ Finish(c)
          \/ CallFails(c)
      BY <1>6, <3>1 DEF RemovalSteps, DeletionSteps, At, CallStep, Stage, Rename, StoreFails,
              Publish, WriteNotCompleted, Reread, Examine, Record, Inspect, Relink,
              RequestDeletion
    <3> QED
      BY <2>3, <3>2, CarryKeepsRecovery, ReadIntentKeepsRecovery, UnlinkKeepsRecovery,
         SettleKeepsRecovery, EraseKeepsRecovery, FinishKeepsRecovery, CallFailsKeepsRecovery
  <2> QED
    BY <2>1, <2>2, <2>3
<1> QED
  BY <1>1, <1>2, <1>3, <1>4, <1>5, <1>6 DEF Next, All

LEMMA RecoveryStarts == Init => RecoveryInv
  BY DEF Init, RecoveryInv, RecoveryIsAlone, Accounted, Busy, Idle, All

\* Everything that is owed when the library opens was visited by the last step
\* of recovery, which had nothing left to visit.
LEMMA OpeningSettles ==
  ASSUME IInv, RecoveryInv, Next, phase # "open", phase' = "open", NEW a \in Artifact \ left
  PROVE  /\ artifact[a].state \notin OnTheWay \cup {"PENDING"}
         /\ a \notin staged
         /\ source[a] # "DELETING"
<1>1. NextStep
  <2>1. ASSUME NEW c \in All, CallStep(c) PROVE FALSE
    BY <2>1 DEF CallStep, Stage, Rename, StoreFails, Publish, WriteNotCompleted, Reread,
                  Examine, Record, Inspect, Relink, Carry, ReadIntent, Unlink, Settle, Erase,
                  Finish, RequestDeletion, CallFails, open
  <2>2. ASSUME NEW c \in Caller, Request(c) PROVE FALSE
    BY <2>2 DEF Request, Reserve, ImportReferenced, Recheck, Locate, Recycle, BeginDelete,
                Choose, Serving, open
  <2>3. ~Crash /\ ~\E x \in Artifact \cup Place : UserChanges(x)
    BY DEF Crash, UserChanges, open
  <2>4. Recovery => NextStep
    BY DEF Recovery, MarkMissing, RecoverPending, RecoverDeletion, RecoverStaging,
           ResumeDeletion, open
  <2> QED
    BY <2>1, <2>2, <2>3, <2>4 DEF Next, All
<1>2. phase = "resume" /\ todo = {} /\ ~Busy(Main)
  BY <1>1 DEF NextStep, StepAfter, Busy, Idle
<1>3. ~Remains(a) /\ Accounted(a)
  BY <1>2 DEF Remains, RecoveryInv
<1> QED
  BY <1>2, <1>3 DEF Accounted, Remains

\* When the library opens, recovery has come past every interrupted write, every
\* deletion and every staging file, and what is not settled is reported
\* (recovery/startup.py recover_on_startup, artifact_storage.py recover_artifacts,
\* permanent_delete.py resume).
THEOREM RecoveriesSettle == Spec => RecoverySettles
<1>1. IInv /\ RecoveryInv /\ [Next]_vars =>
        [phase # "open" /\ phase' = "open" =>
          \A a \in Artifact \ left :
              /\ artifact[a].state \notin OnTheWay \cup {"PENDING"}
              /\ a \notin staged
              /\ source[a] # "DELETING"]_vars
  BY OpeningSettles
<1> QED
  BY <1>1, InitialState, NextKeepsInv, RecoveryStarts, RecoveryIsKept, PTL
     DEF Spec, RecoverySettles
=============================================================================

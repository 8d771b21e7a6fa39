----------------------- MODULE FaceEnrollment_proofs -----------------------
(***************************************************************************)
(* Proofs about FaceEnrollment, for any number of attempts, clicks, poses  *)
(* and frames.                                                             *)
(*                                                                         *)
(* The commands of the page are answered and heard in the order of their   *)
(* issue, and at most one of them starts or cancels.  So a start that is   *)
(* under way comes after the finish the page waits for, that finish is the *)
(* last one, and a check that is still wanted is younger than either.      *)
(***************************************************************************)
EXTENDS FaceEnrollment, TLAPS

-----------------------------------------------------------------------------
(* The inductive invariant                                                 *)

Required == Poses \ OptionalSteps

\* A recording is within its bounds, and has what it needs of the poses behind it.
RecordingFine(c) ==
  /\ c.phase \in Recording => c.step \in Poses /\ c.tried < MaxFrames /\ c.fit <= c.tried
  /\ c.phase = "capture" => c.fit < Samples
  /\ c.phase \in Recording => \A n \in Required : n < c.step => c.samples[n] > 0
  /\ c.phase \in {"finishing", "writing"} => \A n \in Required : c.samples[n] > 0

Complete(kept) == \A n \in Poses : kept[n] <= TargetCount(n) /\ (n \in Required => kept[n] > 0)

Over(s) == session[s] \in {"completed", "failed", "cancelled"}

ProcessesFine ==
  \A s \in Sessions :
    /\ RecordingFine(cli[s])
    /\ cli[s].phase \in {"reporting", "done"} => template[s].file = "whole" /\ Complete(template[s].selected)
    /\ Alive(s) => session[s] \in Ongoing
    /\ session[s] = "completed" => cli[s].phase = "done"

OneOngoing == \A s, t \in Sessions : session[s] \in Ongoing /\ session[t] \in Ongoing => s = t

ServiceFine == service # None => session[service] = "completed"

Commands == {"start", "cancel", "switch"}

Known(s) == s \in Sessions /\ session[s] # "unused"

\* Commands are answered in their order, and what an answer says of a session that is over stays true.
RepliesFine ==
  /\ \A i, j \in DOMAIN calls : i < j /\ calls[j].reply # None => calls[i].reply # None
  /\ \A i \in DOMAIN calls :
     LET call == calls[i] IN
     /\ call.op # "start" => Known(call.session)
     /\ call.reply # None /\ call.reply.ok =>
          /\ Known(call.reply.session)
          /\ call.reply.state # "none"
          /\ call.op # "start" => call.reply.session = call.session
          /\ call.op = "cancel" => Over(call.session)
          /\ call.op = "poll" /\ call.reply.state \notin Ongoing => session[call.session] = call.reply.state
          /\ call.op = "finish" /\ (\A j \in DOMAIN calls : j > i => calls[j].op # "finish") =>
               service = call.session

\* The page waits for one command at a time.
OneCommand ==
  /\ \A i, j \in DOMAIN calls : calls[i].op \in Commands /\ calls[j].op \in Commands => i = j
  /\ \A i \in DOMAIN calls : calls[i].op \in Commands => ui.pending
  /\ \A i \in DOMAIN calls : calls[i].op \in {"cancel", "switch"} => ui.session \in {None, calls[i].session}
  /\ ui.state = "starting" => \E i \in DOMAIN calls : calls[i].op = "start"

CheckFine ==
  /\ ui.poll # "off" => ui.state \in {"starting", "running"} /\ ui.session # None
  /\ ui.poll = "asked" =>
       \E p \in DOMAIN calls :
         /\ calls[p].op = "poll" /\ calls[p].session = ui.session
         /\ \A j \in DOMAIN calls : j > p => calls[j].op \notin {"poll", "finish", "start"}

FinishFine ==
  ui.finishing # None =>
    \E i \in DOMAIN calls :
      /\ calls[i].op = "finish" /\ calls[i].session = ui.finishing /\ ui.session = ui.finishing
      /\ \A j \in DOMAIN calls :
           /\ j > i => calls[j].op # "finish"
           /\ j < i => calls[j].op # "start" /\ (calls[j].op = "finish" => calls[j].session # ui.finishing)

PageFine ==
  /\ ui.session # None => Known(ui.session)
  /\ ui.state = "cancelled" => ui.session # None /\ Over(ui.session)
  /\ ui.state = "completed" =>
       ui.session # None /\ service = ui.session /\ \A i \in DOMAIN calls : calls[i].op # "finish"

BackendInv == ProcessesFine /\ OneOngoing /\ ServiceFine
PageInv == RepliesFine /\ OneCommand /\ CheckFine /\ FinishFine /\ PageFine

IInv == TypeOK /\ BackendInv /\ PageInv

-----------------------------------------------------------------------------
(* Types                                                                   *)

USE BoundsAssumption

States == Ongoing \cup {"unused", "completed", "failed", "cancelled"}

Phases == Recording \cup Ended \cup {"unborn", "spawned", "opening", "finishing", "writing", "reporting"}

Processes == [phase : Phases, step : 0..Steps, tried : 0..MaxFrames, fit : 0..MaxFrames,
              samples : [Poses -> 0..Samples]]

LEMMA NumbersTyped ==
  /\ Steps \in Nat /\ Steps > 0 /\ Samples \in Nat /\ Samples > 0
  /\ MaxFrames \in Nat /\ MaxFrames > 0 /\ PoseReady \in Nat /\ PoseReady > 0
  OBVIOUS

LEMMA NoPoseTyped == NoPose \in [Poses -> 0..Samples] /\ NoPose \in [Poses -> 0..2]
  BY DEF NoPose

LEMMA ProcessTyped ==
  ASSUME NEW phase \in Phases \ Recording
  PROVE  Process(phase) \in Processes /\ Process(phase).phase = phase
  BY NoPoseTyped DEF Process, Processes

LEMMA ProcessFine ==
  ASSUME NEW phase \in Phases \ (Recording \cup {"finishing", "writing"})
  PROVE  RecordingFine(Process(phase))
  BY DEF Process, RecordingFine, Recording

LEMMA AsksForFine ==
  ASSUME NEW n \in 1..(Steps + 1), NEW samples \in [Poses -> 0..Samples],
         \A m \in Required : m < n => samples[m] > 0
  PROVE  /\ AsksFor(n, samples) \in Processes /\ RecordingFine(AsksFor(n, samples))
         /\ AsksFor(n, samples).phase \in {"pose", "finishing"}
<1>1. CASE n \in Poses
  <2>1. AsksFor(n, samples) = [phase |-> "pose", step |-> n, tried |-> 0, fit |-> 0, samples |-> samples]
    BY <1>1 DEF AsksFor, Process
  <2> QED
    BY <1>1, <2>1, NumbersTyped DEF Processes, Phases, Recording, RecordingFine, Poses
<1>2. CASE n \notin Poses
  <2>1. AsksFor(n, samples) = [phase |-> "finishing", step |-> 0, tried |-> 0, fit |-> 0, samples |-> samples]
    BY <1>2 DEF AsksFor, Process
  <2>2. \A m \in Required : m < n
    BY <1>2 DEF Required, Poses
  <2> QED
    BY <2>1, <2>2, NumbersTyped DEF Processes, Phases, Recording, RecordingFine
<1> QED
  BY <1>1, <1>2

\* A frame was read in a recording: what it may lead to.
Goes(next) ==
  next \in Processes /\ RecordingFine(next) /\ next.phase \in Recording \cup {"finishing", "failed"}

LEMMA RunsOutFine ==
  ASSUME NEW c \in Processes, c.step \in Poses, \A n \in Required : n < c.step => c.samples[n] > 0
  PROVE  Goes(RunsOut(c))
<1>1. CASE c.step \in OptionalSteps
  <2>1. c.step + 1 \in 1..(Steps + 1) /\ c.samples \in [Poses -> 0..Samples]
    BY DEF Poses, Processes
  <2>2. \A m \in Required : m < c.step + 1 => c.samples[m] > 0
    BY <1>1 DEF Required, Poses
  <2> QED
    BY <1>1, <2>1, <2>2, AsksForFine DEF RunsOut, Goes, Recording
<1>2. CASE c.step \notin OptionalSteps
  BY <1>2, ProcessTyped, ProcessFine DEF RunsOut, Goes, Phases, Ended, Recording
<1> QED
  BY <1>1, <1>2

\* The recording goes on.
LEMMA GoesOn ==
  ASSUME NEW phase \in Recording, NEW step \in Poses, NEW tried \in Nat, NEW fit \in Nat,
         NEW samples \in [Poses -> 0..Samples],
         tried < MaxFrames, fit <= tried, phase = "capture" => fit < Samples,
         \A n \in Required : n < step => samples[n] > 0
  PROVE  Goes([phase |-> phase, step |-> step, tried |-> tried, fit |-> fit, samples |-> samples])
<1> DEFINE next == [phase |-> phase, step |-> step, tried |-> tried, fit |-> fit, samples |-> samples]
<1>1. tried \in 0..MaxFrames /\ fit \in 0..MaxFrames /\ step \in 0..Steps
  BY NumbersTyped DEF Poses
<1>2. next \in Processes
  BY <1>1 DEF Processes, Phases
<1>3. RecordingFine(next)
  BY DEF RecordingFine, Recording
<1> QED
  BY <1>2, <1>3 DEF Goes

LEMMA AwaitsFine ==
  ASSUME NEW c \in Processes, RecordingFine(c), c.phase = "pose", NEW fits \in BOOLEAN
  PROVE  Goes(Awaits(c, fits))
<1> DEFINE held == IF fits THEN c.fit + 1 ELSE 0
<1>1. /\ c.step \in Poses /\ c.tried < MaxFrames /\ c.fit <= c.tried
      /\ c.tried \in Nat /\ c.fit \in Nat /\ c.samples \in [Poses -> 0..Samples]
      /\ \A n \in Required : n < c.step => c.samples[n] > 0
  BY NumbersTyped DEF RecordingFine, Recording, Processes
<1>2. CASE held = PoseReady
  <2>1. Awaits(c, fits) = [c EXCEPT !.phase = "capture", !.tried = 0, !.fit = 0]
    BY <1>2 DEF Awaits
  <2>2. Awaits(c, fits) = [phase |-> "capture", step |-> c.step, tried |-> 0, fit |-> 0, samples |-> c.samples]
    BY <2>1 DEF Processes
  <2> QED
    BY <1>1, <2>2, NumbersTyped, GoesOn DEF Recording
<1>3. CASE held # PoseReady /\ c.tried + 1 < MaxFrames
  <2>1. Awaits(c, fits) = [c EXCEPT !.fit = held, !.tried = @ + 1]
    BY <1>3 DEF Awaits
  <2>2. held \in Nat /\ held <= c.tried + 1
    BY <1>1
  <2>3. Awaits(c, fits) = [phase |-> "pose", step |-> c.step, tried |-> c.tried + 1, fit |-> held,
                           samples |-> c.samples]
    BY <2>1 DEF Processes
  <2> HIDE DEF held
  <2> QED
    BY <1>1, <1>3, <2>2, <2>3, GoesOn DEF Recording
<1>4. CASE held # PoseReady /\ ~(c.tried + 1 < MaxFrames)
  BY <1>1, <1>4, RunsOutFine DEF Awaits
<1> QED
  BY <1>2, <1>3, <1>4

LEMMA RecordsFine ==
  ASSUME NEW c \in Processes, RecordingFine(c), c.phase = "capture", NEW fits \in BOOLEAN
  PROVE  Goes(Records(c, fits))
<1> DEFINE n == IF fits THEN c.fit + 1 ELSE c.fit
           taken == [c.samples EXCEPT ![c.step] = n]
<1>1. /\ c.step \in Poses /\ c.tried < MaxFrames /\ c.fit <= c.tried /\ c.fit < Samples
      /\ c.tried \in Nat /\ c.fit \in Nat /\ c.samples \in [Poses -> 0..Samples]
      /\ \A m \in Required : m < c.step => c.samples[m] > 0
  BY NumbersTyped DEF RecordingFine, Recording, Processes
<1>2. n \in 0..Samples /\ n <= c.tried + 1
  BY <1>1, NumbersTyped
<1>3. taken \in [Poses -> 0..Samples] /\ \A m \in Required : m < c.step => taken[m] > 0
  <2>1. taken \in [Poses -> 0..Samples] /\ \A m \in Poses \ {c.step} : taken[m] = c.samples[m]
    BY <1>1, <1>2
  <2>2. \A m \in Required : m < c.step => m \in Poses \ {c.step}
    BY <1>1, NumbersTyped DEF Required, Poses
  <2> QED
    BY <1>1, <2>1, <2>2
<1>4. CASE n = Samples
  <2>1. Records(c, fits) = AsksFor(c.step + 1, taken)
    BY <1>4 DEF Records
  <2>2. c.step + 1 \in 1..(Steps + 1)
    BY <1>1 DEF Poses
  <2>3. \A m \in Required : m < c.step + 1 => taken[m] > 0
    BY <1>1, <1>3, <1>4, NumbersTyped DEF Required, Poses
  <2> HIDE DEF n, taken
  <2> QED
    BY <1>3, <2>1, <2>2, <2>3, AsksForFine DEF Goes, Recording
<1>5. CASE n # Samples /\ c.tried + 1 < MaxFrames
  <2>1. Records(c, fits) = [c EXCEPT !.fit = n, !.tried = @ + 1, !.samples = taken]
    BY <1>5 DEF Records
  <2>2. Records(c, fits) = [phase |-> "capture", step |-> c.step, tried |-> c.tried + 1, fit |-> n,
                            samples |-> taken]
    BY <2>1 DEF Processes
  <2>3. n < Samples /\ n \in Nat /\ c.tried + 1 \in Nat
    BY <1>1, <1>2, <1>5, NumbersTyped
  <2> HIDE DEF n, taken
  <2> QED
    BY <1>1, <1>2, <1>3, <1>5, <2>2, <2>3, GoesOn DEF Recording
<1>6. CASE n # Samples /\ ~(c.tried + 1 < MaxFrames)
  <2> DEFINE d == [c EXCEPT !.samples = taken]
  <2>1. Records(c, fits) = RunsOut(d)
    BY <1>6 DEF Records
  <2> HIDE DEF n, taken
  <2>2. d \in Processes /\ d.step \in Poses /\ \A m \in Required : m < d.step => d.samples[m] > 0
    BY <1>1, <1>3 DEF Processes
  <2> HIDE DEF d
  <2> QED
    BY <2>1, <2>2, RunsOutFine
<1> QED
  BY <1>4, <1>5, <1>6

-----------------------------------------------------------------------------
(* A refresh                                                               *)

LEMMA ToldFine ==
  ASSUME TypeOK, NEW s \in Sessions, session[s] \in Ongoing
  PROVE  Told(s) \subseteq Ongoing
  BY DEF Told, Ongoing

Outcome(s, r) ==
  /\ r.state \in States /\ r.ok \in BOOLEAN /\ r.phase \in {cli[s].phase, "killed"}
  /\ session[s] \notin Ongoing => r.state = session[s] /\ r.phase = cli[s].phase
  /\ session[s] \in Ongoing => r.state \in Ongoing \cup {"failed", "completed"}
  /\ r.phase # cli[s].phase => Alive(s)
  /\ r.phase \notin Ended \cup {"unborn"} => r.state \in Ongoing
  /\ r.state = "completed" => r.phase = "done"
  /\ r.ok /\ r.state \in Ongoing => Alive(s)

LEMMA RefreshedFine ==
  ASSUME TypeOK, BackendInv, NEW s \in Sessions, NEW r \in Refreshed(s)
  PROVE  Outcome(s, r)
<1> DEFINE phase == cli[s].phase
<1>1. /\ session[s] \in States /\ (Alive(s) => session[s] \in Ongoing)
      /\ session[s] = "completed" => phase = "done"
  BY DEF TypeOK, States, BackendInv, ProcessesFine
<1>2. CASE session[s] \notin Ongoing
  <2>1. r = Result(session[s], phase, TRUE)
    BY <1>2 DEF Refreshed
  <2> QED
    BY <1>1, <1>2, <2>1 DEF Outcome, Result, Alive
<1>3. CASE session[s] \in Ongoing
  <2>1. PICK told \in Told(s) :
          r \in {Result(told, phase, FALSE)} \cup
               (IF told = "starting" /\ s \in late
                THEN {Result("failed", IF Alive(s) THEN "killed" ELSE phase, TRUE)}
                ELSE IF Alive(s) THEN {Result(told, phase, TRUE)} ELSE AtExit(s))
    BY <1>3 DEF Refreshed
  <2>2. told \in Ongoing
    BY <1>3, ToldFine
  <2>3. CASE r = Result(told, phase, FALSE)
    BY <1>1, <1>3, <2>2, <2>3 DEF Outcome, Result, Alive, States, Ongoing
  <2>4. CASE r = Result("failed", IF Alive(s) THEN "killed" ELSE phase, TRUE)
    BY <1>1, <1>3, <2>4 DEF Outcome, Result, Alive, States, Ongoing, Ended
  <2>5. CASE Alive(s) /\ r = Result(told, phase, TRUE)
    BY <1>1, <1>3, <2>2, <2>5 DEF Outcome, Result, Alive, States, Ongoing
  <2>6. CASE ~Alive(s) /\ r \in AtExit(s)
    <3>1. \/ r = Result("failed", phase, TRUE)
          \/ r = Result("failed", phase, FALSE)
          \/ phase = "done" /\ r = Result("completed", phase, TRUE)
      BY <2>6 DEF AtExit
    <3>2. /\ r.phase = cli[s].phase /\ r.ok \in BOOLEAN /\ r.state \in {"failed", "completed"}
          /\ r.state = "completed" => cli[s].phase = "done"
      <4>1. CASE r = Result("failed", phase, TRUE)
        BY <4>1 DEF Result
      <4>2. CASE r = Result("failed", phase, FALSE)
        BY <4>2 DEF Result
      <4>3. CASE phase = "done" /\ r = Result("completed", phase, TRUE)
        BY <4>3 DEF Result
      <4> QED
        BY <3>1, <4>1, <4>2, <4>3
    <3>3. cli[s].phase \in Ended \cup {"unborn"}
      BY <2>6 DEF Alive
    <3>4. r.state \in States /\ r.state \notin Ongoing
      BY <3>2 DEF States, Ongoing
    <3> QED
      BY <1>3, <3>2, <3>3, <3>4 DEF Outcome
  <2> QED
    BY <2>1, <2>3, <2>4, <2>5, <2>6
<1> QED
  BY <1>2, <1>3

\* What a command of the back end may do to a session and its process.
Moves(s) ==
  /\ session'[s] \in States /\ cli'[s] \in Processes /\ RecordingFine(cli'[s])
  /\ cli'[s].phase \notin Ended \cup {"unborn"} => session'[s] \in Ongoing
  /\ session'[s] = "completed" => cli'[s].phase = "done"
  /\ cli'[s].phase \in {"reporting", "done"} => cli'[s].phase = cli[s].phase
  /\ Over(s) => session'[s] = session[s]
  /\ session'[s] = "unused" => session[s] = "unused"

Narrows(s) == session'[s] \in Ongoing => session[s] \in Ongoing

LEMMA LeftFine ==
  ASSUME TypeOK, BackendInv, NEW s \in Sessions, NEW phase \in {cli[s].phase, "killed"}
  PROVE  /\ Left(s, phase) \in Processes /\ RecordingFine(Left(s, phase))
         /\ Left(s, phase).phase = phase
<1>1. cli[s] \in Processes /\ RecordingFine(cli[s])
  BY DEF TypeOK, Processes, Phases, BackendInv, ProcessesFine
<1>2. CASE phase = "killed"
  BY <1>2, ProcessTyped, ProcessFine DEF Left, Phases, Ended, Recording
<1>3. CASE phase # "killed"
  <2>1. Left(s, phase) = cli[s]
    BY <1>1, <1>3 DEF Left, Processes
  <2> QED
    BY <1>1, <1>3, <2>1
<1> QED
  BY <1>2, <1>3

LEMMA OutcomeMoves ==
  ASSUME TypeOK, BackendInv, NEW s \in Sessions, NEW r, Outcome(s, r),
         session'[s] = r.state, cli'[s] = Left(s, r.phase)
  PROVE  Moves(s) /\ Narrows(s)
<1>1. cli'[s] \in Processes /\ RecordingFine(cli'[s]) /\ cli'[s].phase = r.phase
  BY LeftFine DEF Outcome
<1>2. /\ r.phase \in {"reporting", "done"} => r.phase = cli[s].phase
      /\ Over(s) => r.state = session[s]
      /\ r.state = "unused" => session[s] = "unused"
      /\ r.state \in Ongoing => session[s] \in Ongoing
  BY DEF Outcome, Over, Ongoing
<1> QED
  BY <1>1, <1>2 DEF Moves, Narrows, Outcome

LEMMA MovesFine ==
  ASSUME TypeOK, BackendInv, \A s \in Sessions : Moves(s), OneOngoing',
         UNCHANGED template,
         service' # None => service' \in Sessions /\ session'[service'] = "completed"
  PROVE  BackendInv'
<1>1. ASSUME NEW s \in Sessions
      PROVE  /\ RecordingFine(cli'[s])
             /\ cli'[s].phase \in {"reporting", "done"} =>
                  template'[s].file = "whole" /\ Complete(template'[s].selected)
             /\ cli'[s].phase \notin Ended \cup {"unborn"} => session'[s] \in Ongoing
             /\ session'[s] = "completed" => cli'[s].phase = "done"
  BY <1>1 DEF Moves, BackendInv, ProcessesFine
<1>2. ProcessesFine'
  BY <1>1 DEF ProcessesFine, Alive
<1> QED
  BY <1>2 DEF BackendInv, ServiceFine

LEMMA NarrowsFine ==
  ASSUME BackendInv, \A s \in Sessions : Narrows(s)
  PROVE  OneOngoing'
  BY DEF BackendInv, OneOngoing, Narrows

-----------------------------------------------------------------------------
(* The recording process                                                   *)

\* A step of a living process.
LEMMA ProcessStep ==
  ASSUME TypeOK, BackendInv, NEW s \in Sessions, Alive(s),
         NEW next \in Processes, RecordingFine(next),
         cli' = [cli EXCEPT ![s] = next], session' = session, service' = service,
         \A t \in Sessions : t # s => template'[t] = template[t],
         next.phase \in {"reporting", "done"} =>
           template'[s].file = "whole" /\ Complete(template'[s].selected)
  PROVE  BackendInv' /\ cli' \in [Sessions -> Processes]
<1>1. cli \in [Sessions -> Processes]
  BY DEF TypeOK, Processes, Phases
<1>2. cli' \in [Sessions -> Processes]
  BY <1>1
<1>3. session[s] \in Ongoing /\ session[s] # "completed"
  BY DEF BackendInv, ProcessesFine, Ongoing
<1>4. ASSUME NEW t \in Sessions
      PROVE  /\ RecordingFine(cli'[t])
             /\ cli'[t].phase \in {"reporting", "done"} =>
                  template'[t].file = "whole" /\ Complete(template'[t].selected)
             /\ cli'[t].phase \notin Ended \cup {"unborn"} => session'[t] \in Ongoing
             /\ session'[t] = "completed" => cli'[t].phase = "done"
  BY <1>1, <1>3 DEF BackendInv, ProcessesFine, Alive
<1>5. ProcessesFine'
  BY <1>4 DEF ProcessesFine, Alive
<1> QED
  BY <1>2, <1>5 DEF BackendInv, OneOngoing, ServiceFine

LEMMA CliStepFine ==
  ASSUME TypeOK, BackendInv, NEW s \in Sessions, CliStep(s)
  PROVE  /\ BackendInv' /\ cli' \in [Sessions -> Processes]
         /\ status' \in [Sessions -> {"absent", "starting", "working", "failed"}]
         /\ template' \in [Sessions -> [file : {"absent", "torn", "whole"}, selected : [Poses -> 0..2]]]
         /\ UNCHANGED << backendVars, calls, ui >>
<1>1. cli[s] \in Processes /\ RecordingFine(cli[s])
  BY DEF TypeOK, Processes, Phases, BackendInv, ProcessesFine
<1>2. CASE CliStarts(s)
  <2> DEFINE next == [cli[s] EXCEPT !.phase = "opening"]
  <2>1. next \in Processes /\ RecordingFine(next) /\ next.phase = "opening"
    BY <1>1 DEF Processes, Phases, RecordingFine, Recording
  <2>2. cli' = [cli EXCEPT ![s] = next] /\ Alive(s)
    BY <1>2 DEF CliStarts, Alive, Ended
  <2> HIDE DEF next
  <2>3. BackendInv' /\ cli' \in [Sessions -> Processes]
    BY <1>2, <2>1, <2>2, ProcessStep DEF CliStarts, backendVars
  <2> QED
    BY <1>2, <2>3 DEF CliStarts, TypeOK
<1>3. CASE CliOpens(s)
  <2>1. 1 \in 1..(Steps + 1) /\ \A m \in Required : ~(m < 1)
    BY NumbersTyped DEF Required, Poses
  <2>2. /\ AsksFor(1, NoPose) \in Processes /\ RecordingFine(AsksFor(1, NoPose))
        /\ AsksFor(1, NoPose).phase \in {"pose", "finishing"}
    BY <2>1, AsksForFine, NoPoseTyped
  <2>3. cli' = [cli EXCEPT ![s] = AsksFor(1, NoPose)] /\ Alive(s)
    BY <1>3 DEF CliOpens, Alive, Ended
  <2>4. BackendInv' /\ cli' \in [Sessions -> Processes]
    BY <1>3, <2>2, <2>3, ProcessStep DEF CliOpens, backendVars
  <2> QED
    BY <1>3, <2>4 DEF CliOpens, TypeOK
<1>4. CASE CliReadsFrame(s)
  <2> DEFINE next(fits) == IF cli[s].phase = "pose" THEN Awaits(cli[s], fits) ELSE Records(cli[s], fits)
  <2>1. PICK fits \in BOOLEAN :
          /\ cli' = [cli EXCEPT ![s] = next(fits)]
          /\ status' = [status EXCEPT ![s] = IF next(fits).phase = "failed" THEN "failed" ELSE @]
    <3>1. PICK frame \in Frames :
            LET seen == IF cli[s].phase = "pose" THEN Awaits(cli[s], Previews(cli[s], frame))
                                                 ELSE Records(cli[s], Accepts(cli[s], frame))
            IN /\ cli' = [cli EXCEPT ![s] = seen]
               /\ status' = [status EXCEPT ![s] = IF seen.phase = "failed" THEN "failed" ELSE @]
      BY <1>4 DEF CliReadsFrame
    <3>2. Previews(cli[s], frame) \in BOOLEAN /\ Accepts(cli[s], frame) \in BOOLEAN
      BY DEF Previews, Accepts
    <3>3. CASE cli[s].phase = "pose"
      <4>1. /\ cli' = [cli EXCEPT ![s] = next(Previews(cli[s], frame))]
            /\ status' = [status EXCEPT ![s] = IF next(Previews(cli[s], frame)).phase = "failed" THEN "failed" ELSE @]
        BY <3>1, <3>3
      <4> QED
        BY <3>2, <4>1
    <3>4. CASE cli[s].phase # "pose"
      <4>1. /\ cli' = [cli EXCEPT ![s] = next(Accepts(cli[s], frame))]
            /\ status' = [status EXCEPT ![s] = IF next(Accepts(cli[s], frame)).phase = "failed" THEN "failed" ELSE @]
        BY <3>1, <3>4
      <4> QED
        BY <3>2, <4>1
    <3> QED
      BY <3>3, <3>4
  <2>2. cli[s].phase \in {"pose", "capture"} /\ Alive(s)
    BY <1>4 DEF CliReadsFrame, Recording, Alive, Ended
  <2>3. Goes(next(fits))
    BY <1>1, <2>2, AwaitsFine, RecordsFine
  <2> HIDE DEF next
  <2>4. BackendInv' /\ cli' \in [Sessions -> Processes]
    BY <1>4, <2>1, <2>2, <2>3, ProcessStep DEF CliReadsFrame, backendVars, Goes, Recording
  <2> QED
    BY <1>4, <2>1, <2>4 DEF CliReadsFrame, TypeOK
<1>5. CASE cli[s].phase = "finishing" /\ CliSaves(s)
  <2> DEFINE next == [cli[s] EXCEPT !.phase = "writing"]
  <2>1. next \in Processes /\ RecordingFine(next) /\ next.phase = "writing"
    BY <1>1, <1>5 DEF Processes, Phases, RecordingFine, Recording
  <2>2. /\ cli' = [cli EXCEPT ![s] = next] /\ Alive(s)
        /\ template' = [template EXCEPT ![s].file = "torn"]
        /\ UNCHANGED << status, backendVars, calls, ui >>
    BY <1>5 DEF CliSaves, Alive, Ended
  <2> HIDE DEF next
  <2>3. template' \in [Sessions -> [file : {"absent", "torn", "whole"}, selected : [Poses -> 0..2]]]
    <3> DEFINE File == [file : {"absent", "torn", "whole"}, selected : [Poses -> 0..2]]
    <3>1. template \in [Sessions -> File] /\ template' = [template EXCEPT ![s] = [@ EXCEPT !.file = "torn"]]
      BY <2>2 DEF TypeOK
    <3>2. \A old \in File : [old EXCEPT !.file = "torn"] \in File
      OBVIOUS
    <3> HIDE DEF File
    <3>3. template' \in [Sessions -> File]
      BY <3>1, <3>2
    <3> QED
      BY <3>3 DEF File
  <2>4. BackendInv' /\ cli' \in [Sessions -> Processes]
    BY <2>1, <2>2, ProcessStep DEF TypeOK, backendVars
  <2> QED
    BY <2>2, <2>3, <2>4 DEF TypeOK
<1>6. CASE cli[s].phase = "writing" /\ CliSaves(s)
  <2>1. PICK kept \in Selected(cli[s].samples) :
          template' = [template EXCEPT ![s] = [file |-> "whole", selected |-> kept]]
    BY <1>6 DEF CliSaves
  <2>2. kept \in [Poses -> 0..2] /\ Complete(kept)
    <3>1. cli[s].samples \in [Poses -> 0..Samples] /\ \A n \in Required : cli[s].samples[n] > 0
      BY <1>1, <1>6 DEF Processes, RecordingFine
    <3> QED
      BY <3>1 DEF Selected, Complete, Required
  <2>3. /\ cli' = [cli EXCEPT ![s] = Process("reporting")] /\ Alive(s)
        /\ UNCHANGED << status, backendVars, calls, ui >>
    BY <1>6 DEF CliSaves, Alive, Ended
  <2>4. /\ Process("reporting") \in Processes /\ RecordingFine(Process("reporting"))
    BY ProcessTyped, ProcessFine DEF Phases, Recording, Ended
  <2>5. template' \in [Sessions -> [file : {"absent", "torn", "whole"}, selected : [Poses -> 0..2]]]
    BY <2>1, <2>2 DEF TypeOK
  <2>6. /\ \A t \in Sessions : t # s => template'[t] = template[t]
        /\ template'[s].file = "whole" /\ Complete(template'[s].selected)
    BY <2>1, <2>2 DEF TypeOK
  <2>7. BackendInv' /\ cli' \in [Sessions -> Processes]
    BY <2>3, <2>4, <2>6, ProcessStep DEF backendVars
  <2> QED
    BY <2>3, <2>5, <2>7 DEF TypeOK
<1>7. CASE cli[s].phase = "reporting" /\ CliSaves(s)
  <2> DEFINE next == [cli[s] EXCEPT !.phase = "done"]
  <2>1. next \in Processes /\ RecordingFine(next) /\ next.phase = "done"
    BY <1>1, <1>7 DEF Processes, Phases, Ended, RecordingFine, Recording
  <2>2. /\ cli' = [cli EXCEPT ![s] = next] /\ Alive(s)
        /\ UNCHANGED << status, template, backendVars, calls, ui >>
    BY <1>7 DEF CliSaves, Alive, Ended
  <2>3. template[s].file = "whole" /\ Complete(template[s].selected)
    BY <1>7 DEF BackendInv, ProcessesFine
  <2> HIDE DEF next
  <2>4. BackendInv' /\ cli' \in [Sessions -> Processes]
    BY <2>1, <2>2, <2>3, ProcessStep DEF backendVars
  <2> QED
    BY <2>2, <2>4 DEF TypeOK
<1>8. CASE CliFails(s)
  <2>1. Process("failed") \in Processes /\ RecordingFine(Process("failed")) /\ Process("failed").phase = "failed"
    BY ProcessTyped, ProcessFine DEF Phases, Recording, Ended
  <2>2. BackendInv' /\ cli' \in [Sessions -> Processes]
    BY <1>8, <2>1, ProcessStep DEF CliFails, backendVars
  <2> QED
    BY <1>8, <2>2 DEF CliFails, TypeOK
<1> QED
  BY <1>2, <1>3, <1>4, <1>5, <1>6, <1>7, <1>8 DEF CliStep, CliSaves

-----------------------------------------------------------------------------
(* The back end                                                            *)

LEMMA QueueTyped ==
  ASSUME TypeOK
  PROVE  /\ Len(calls) \in Nat /\ DOMAIN calls = 1..Len(calls)
         /\ \A i \in DOMAIN calls : calls[i] \in Calls
  BY DEF TypeOK

\* The command under way, and those that wait behind it.
Serves(i) ==
  /\ i \in DOMAIN calls /\ Current = {i} /\ Call = calls[i]
  /\ calls[i].reply = None
  /\ \A j \in DOMAIN calls : (j > i => calls[j].reply = None) /\ (j < i => calls[j].reply # None)

LEMMA HandlesFine ==
  ASSUME TypeOK, RepliesFine, NEW ops, Handles(ops)
  PROVE  \E i \in DOMAIN calls : Serves(i) /\ calls[i].op \in ops
<1>1. PICK i \in Current : calls[i].op \in ops
  BY DEF Handles
<1>2. /\ i \in DOMAIN calls /\ calls[i].reply = None
      /\ \A j \in 1..(i - 1) : calls[j].reply # None
  BY DEF Current
<1>3. \A j \in Current : j = i
  <2>1. SUFFICES ASSUME NEW j \in Current, j # i PROVE FALSE
    OBVIOUS
  <2>2. j \in DOMAIN calls /\ calls[j].reply = None /\ \A k \in 1..(j - 1) : calls[k].reply # None
    BY DEF Current
  <2> QED
    BY <1>2, <2>1, <2>2, QueueTyped
<1>4. Current = {i} /\ Call = calls[i]
  BY <1>3 DEF Call
<1>5. \A j \in DOMAIN calls : j > i => calls[j].reply = None
  BY <1>2, QueueTyped DEF RepliesFine
<1>6. \A j \in DOMAIN calls : j < i => calls[j].reply # None
  BY <1>2, QueueTyped
<1> QED
  BY <1>1, <1>2, <1>4, <1>5, <1>6 DEF Serves

Answer(ok, s, state) == [ok |-> ok, session |-> s, state |-> state]

LEMMA AnswersQueue ==
  ASSUME TypeOK, NEW i, Serves(i),
         NEW ok \in BOOLEAN, NEW s \in Sessions \cup {None},
         NEW state \in Ongoing \cup {"completed", "failed", "cancelled", "none"},
         Answers(ok, s, state)
  PROVE  /\ calls' \in Seq(Calls) /\ DOMAIN calls' = DOMAIN calls
         /\ \A j \in DOMAIN calls : calls'[j].op = calls[j].op /\ calls'[j].session = calls[j].session
         /\ \A j \in DOMAIN calls : j # i => calls'[j] = calls[j]
         /\ calls'[i].reply = Answer(ok, s, state)
<1>1. calls' = [calls EXCEPT ![i].reply = Answer(ok, s, state)]
  BY DEF Serves, Answers, Answer
<1>2. Answer(ok, s, state) \in Replies
  BY DEF Answer, Replies
<1>3. i \in DOMAIN calls /\ DOMAIN calls = 1..Len(calls) /\ Len(calls) \in Nat /\ calls \in [1..Len(calls) -> Calls]
  BY DEF Serves, TypeOK
<1>4. calls' \in [1..Len(calls) -> Calls]
  BY <1>1, <1>2, <1>3 DEF Calls
<1>5. calls' \in Seq(Calls)
  BY <1>3, <1>4
<1> QED
  BY <1>1, <1>3, <1>4, <1>5 DEF Calls

\* What an answer has to be for the page to be right.
Truthful(i, s, state) ==
  /\ s \in Sessions /\ session'[s] # "unused" /\ state # "none"
  /\ calls[i].op # "start" => s = calls[i].session
  /\ calls[i].op = "cancel" => session'[calls[i].session] \in {"completed", "failed", "cancelled"}
  /\ calls[i].op = "poll" /\ state \notin Ongoing => session'[calls[i].session] = state
  /\ calls[i].op = "finish" => service' = calls[i].session

LEMMA StaysKnown ==
  ASSUME \A t \in Sessions : Moves(t), NEW s
  PROVE  /\ Known(s) => s \in Sessions /\ session'[s] # "unused"
         /\ s \in Sessions /\ Over(s) => session'[s] = session[s]
  BY DEF Moves, Known

LEMMA AnswerFine ==
  ASSUME TypeOK, PageInv, NEW i, Serves(i), \A t \in Sessions : Moves(t),
         NEW ok \in BOOLEAN, NEW s \in Sessions \cup {None},
         NEW state \in Ongoing \cup {"completed", "failed", "cancelled", "none"},
         Answers(ok, s, state), ok => Truthful(i, s, state),
         service' # service => calls[i].op = "finish",
         UNCHANGED ui
  PROVE  PageInv' /\ calls' \in Seq(Calls)
<1>1. /\ calls' \in Seq(Calls) /\ DOMAIN calls' = DOMAIN calls
      /\ \A j \in DOMAIN calls : calls'[j].op = calls[j].op /\ calls'[j].session = calls[j].session
      /\ \A j \in DOMAIN calls : j # i => calls'[j] = calls[j]
      /\ calls'[i].reply = Answer(ok, s, state)
  BY AnswersQueue
<1>2. /\ i \in DOMAIN calls /\ calls[i].reply = None
      /\ \A j \in DOMAIN calls : (j > i => calls[j].reply = None) /\ (j < i => calls[j].reply # None)
  BY DEF Serves
<1>3. DOMAIN calls = 1..Len(calls) /\ Len(calls) \in Nat
  BY QueueTyped
<1>4. RepliesFine'
  <2>1. ASSUME NEW j \in DOMAIN calls, NEW k \in DOMAIN calls, j < k, calls'[k].reply # None
        PROVE  calls'[j].reply # None
    BY <1>1, <1>2, <1>3, <2>1
  <2>2. ASSUME NEW j \in DOMAIN calls, calls[j].op # "start"
        PROVE  calls[j].session \in Sessions /\ session'[calls[j].session] # "unused"
    BY <2>2, StaysKnown DEF PageInv, RepliesFine
  <2>3. ASSUME NEW j \in DOMAIN calls, calls'[j].reply # None, calls'[j].reply.ok
        PROVE  /\ calls'[j].reply.session \in Sessions /\ session'[calls'[j].reply.session] # "unused"
               /\ calls'[j].reply.state # "none"
               /\ calls[j].op # "start" => calls'[j].reply.session = calls[j].session
               /\ calls[j].op = "cancel" => session'[calls[j].session] \in {"completed", "failed", "cancelled"}
               /\ calls[j].op = "poll" /\ calls'[j].reply.state \notin Ongoing =>
                    session'[calls[j].session] = calls'[j].reply.state
               /\ calls[j].op = "finish" /\ (\A k \in DOMAIN calls : k > j => calls[k].op # "finish") =>
                    service' = calls[j].session
    <3>1. CASE j = i
      BY <1>1, <2>3, <3>1 DEF Answer, Truthful
    <3>2. CASE j # i
      <4>1. calls'[j] = calls[j] /\ j < i
        BY <1>1, <1>2, <1>3, <2>3, <3>2
      <4>2. /\ Known(calls[j].reply.session) /\ calls[j].reply.state # "none"
            /\ calls[j].op # "start" => calls[j].reply.session = calls[j].session /\ calls[j].session \in Sessions
            /\ calls[j].op = "cancel" => Over(calls[j].session)
            /\ calls[j].op = "poll" /\ calls[j].reply.state \notin Ongoing =>
                 session[calls[j].session] = calls[j].reply.state
            /\ calls[j].op = "finish" /\ (\A k \in DOMAIN calls : k > j => calls[k].op # "finish") =>
                 service = calls[j].session
        BY <2>3, <4>1 DEF PageInv, RepliesFine, Known
      <4>3. calls[j].reply \in Replies
        BY <2>3, <4>1, QueueTyped DEF Calls
      <4>4. calls[j].op = "poll" /\ calls[j].reply.state \notin Ongoing =>
              session'[calls[j].session] = calls[j].reply.state
        BY <4>2, <4>3, StaysKnown DEF Replies, Over
      <4>5. calls[j].op = "cancel" => session'[calls[j].session] \in {"completed", "failed", "cancelled"}
        BY <4>2, StaysKnown DEF Over
      <4>6. (\A k \in DOMAIN calls : k > j => calls[k].op # "finish") => service' = service
        BY <1>2, <4>1
      <4> QED
        BY <4>1, <4>2, <4>4, <4>5, <4>6, StaysKnown
    <3> QED
      BY <3>1, <3>2
  <2> QED
    BY <1>1, <2>1, <2>2, <2>3 DEF RepliesFine, Known, Over
<1>5. OneCommand'
  BY <1>1 DEF PageInv, OneCommand
<1>6. CheckFine'
  BY <1>1 DEF PageInv, CheckFine
<1>7. FinishFine'
  BY <1>1 DEF PageInv, FinishFine
<1>8. PageFine'
  <2>1. ui.session # None => ui.session \in Sessions /\ session'[ui.session] # "unused"
    BY StaysKnown DEF PageInv, PageFine
  <2>2. ui.state = "cancelled" => ui.session # None /\ session'[ui.session] \in {"completed", "failed", "cancelled"}
    BY StaysKnown DEF PageInv, PageFine, Known, Over
  <2>3. ui.state = "completed" =>
          /\ ui.session # None /\ service' = ui.session
          /\ \A j \in DOMAIN calls' : calls'[j].op # "finish"
    BY <1>1, <1>2 DEF PageInv, PageFine
  <2> QED
    BY <2>1, <2>2, <2>3 DEF PageFine, Known, Over
<1> QED
  BY <1>1, <1>4, <1>5, <1>6, <1>7, <1>8 DEF PageInv

-----------------------------------------------------------------------------
(* The commands of the back end                                            *)

\* What each of them has to come to.
BackendFine ==
  /\ BackendInv' /\ PageInv' /\ calls' \in Seq(Calls)
  /\ session' \in [Sessions -> States] /\ cli' \in [Sessions -> Processes]
  /\ late' \subseteq Sessions /\ service' \in Sessions \cup {None}

\* One session is refreshed, or cancelled with its process.
LEMMA SetsMoves ==
  ASSUME TypeOK, BackendInv, NEW s \in Sessions, NEW r, Sets(s, r),
         \/ Outcome(s, r)
         \/ session[s] \in Ongoing /\ r = Result("cancelled", "killed", TRUE)
  PROVE  /\ \A t \in Sessions : Moves(t) /\ Narrows(t)
         /\ session' \in [Sessions -> States] /\ cli' \in [Sessions -> Processes]
         /\ session'[s] = r.state
<1>1. /\ session \in [Sessions -> States] /\ cli \in [Sessions -> Processes]
      /\ \A t \in Sessions : RecordingFine(cli[t])
  BY DEF TypeOK, States, Processes, Phases, BackendInv, ProcessesFine
<1>2. /\ session' = [session EXCEPT ![s] = r.state] /\ cli' = [cli EXCEPT ![s] = Left(s, r.phase)]
  BY DEF Sets
<1>3. session'[s] = r.state /\ cli'[s] = Left(s, r.phase)
  BY <1>1, <1>2
<1>4. Moves(s) /\ Narrows(s)
  <2>1. CASE Outcome(s, r)
    BY <1>3, <2>1, OutcomeMoves
  <2>2. CASE session[s] \in Ongoing /\ r = Result("cancelled", "killed", TRUE)
    <3>1. session'[s] = "cancelled" /\ cli'[s] = Left(s, "killed")
      BY <1>3, <2>2 DEF Result
    <3>2. cli'[s] \in Processes /\ RecordingFine(cli'[s]) /\ cli'[s].phase = "killed"
      BY <3>1, LeftFine
    <3> QED
      BY <2>2, <3>1, <3>2 DEF Moves, Narrows, States, Ended, Ongoing, Over
  <2> QED
    BY <2>1, <2>2
<1>5. ASSUME NEW t \in Sessions, t # s PROVE Moves(t) /\ Narrows(t)
  <2>1. session'[t] = session[t] /\ cli'[t] = cli[t]
    BY <1>1, <1>2, <1>5
  <2> QED
    BY <1>1, <2>1 DEF Moves, Narrows, BackendInv, ProcessesFine, Alive
<1>6. session'[s] \in States /\ cli'[s] \in Processes
  BY <1>4 DEF Moves
<1> QED
  BY <1>1, <1>2, <1>3, <1>4, <1>5, <1>6

\* A session that is over, or that is known, stays so.
LEMMA NotUnused ==
  ASSUME NEW s \in Sessions, Moves(s), Known(s)
  PROVE  session'[s] # "unused"
  BY DEF Moves, Known

LEMMA ReplyStates ==
  ASSUME NEW state \in States, state # "unused"
  PROVE  state \in Ongoing \cup {"completed", "failed", "cancelled", "none"} /\ state # "none"
  BY DEF States, Ongoing

LEMMA ServiceStays ==
  ASSUME TypeOK, BackendInv, \A t \in Sessions : Moves(t), service' = service
  PROVE  service' # None => service' \in Sessions /\ session'[service] = "completed"
  BY DEF TypeOK, BackendInv, ServiceFine, Moves, Over

\* A refusal.
LEMMA RefusalFine ==
  ASSUME TypeOK, PageInv, NEW i, Serves(i), \A t \in Sessions : Moves(t), Refuses,
         service' # service => calls[i].op = "finish", UNCHANGED ui
  PROVE  PageInv' /\ calls' \in Seq(Calls)
<1>1. Answers(FALSE, None, "none")
  BY DEF Refuses
<1> QED
  BY <1>1, AnswerFine

LEMMA TellsFine ==
  ASSUME IInv, BackendTells
  PROVE  BackendFine
<1>1. PICK i \in DOMAIN calls : Serves(i) /\ calls[i].op \in {"poll"}
  BY HandlesFine DEF BackendTells, IInv, PageInv
<1> DEFINE s == calls[i].session
<1>2. Call.session = s /\ Known(s)
  BY <1>1 DEF Serves, IInv, PageInv, RepliesFine
<1>3. PICK r \in Refreshed(s) :
        /\ Sets(s, r)
        /\ IF r.ok THEN Answers(TRUE, s, r.state) ELSE Refuses
  BY <1>2 DEF BackendTells
<1>4. UNCHANGED << late, status, template, service, ui >>
  BY DEF BackendTells
<1>5. /\ s \in Sessions /\ TypeOK /\ BackendInv /\ PageInv
      /\ late \subseteq Sessions /\ service \in Sessions \cup {None}
  BY <1>2 DEF Known, IInv, TypeOK
<1> HIDE DEF s
<1>6. Outcome(s, r)
  BY <1>5, RefreshedFine
<1>7. /\ \A t \in Sessions : Moves(t) /\ Narrows(t)
      /\ session' \in [Sessions -> States] /\ cli' \in [Sessions -> Processes]
      /\ session'[s] = r.state
  BY <1>3, <1>5, <1>6, SetsMoves
<1>8. BackendInv'
  BY <1>4, <1>5, <1>7, NarrowsFine, MovesFine, ServiceStays
<1>9. r.state \in States /\ r.state # "unused"
  BY <1>2, <1>5, <1>6, <1>7, NotUnused DEF Outcome
<1>10. PageInv' /\ calls' \in Seq(Calls)
  <2>1. CASE r.ok
    <3>1. Truthful(i, s, r.state)
      BY <1>1, <1>5, <1>7, <1>9, ReplyStates DEF Truthful, s
    <3> QED
      BY <1>1, <1>3, <1>4, <1>5, <1>7, <1>9, <2>1, <3>1, ReplyStates, AnswerFine
  <2>2. CASE ~r.ok
    BY <1>1, <1>3, <1>4, <1>5, <1>7, <2>2, RefusalFine
  <2> QED
    BY <2>1, <2>2
<1> QED
  BY <1>4, <1>5, <1>7, <1>8, <1>10 DEF BackendFine

LEMMA CancelsFine ==
  ASSUME IInv, BackendCancels
  PROVE  BackendFine
<1>1. PICK i \in DOMAIN calls : Serves(i) /\ calls[i].op \in {"cancel", "switch", "leave"}
  BY HandlesFine DEF BackendCancels, IInv, PageInv
<1> DEFINE s == calls[i].session
<1>2. Call.session = s /\ Known(s)
  BY <1>1 DEF Serves, IInv, PageInv, RepliesFine
<1>3. PICK r \in Refreshed(s) :
        IF r.ok /\ r.state \in Ongoing
        THEN \/ Sets(s, Result("cancelled", "killed", TRUE)) /\ Answers(TRUE, s, "cancelled")
             \/ Sets(s, r) /\ Refuses
        ELSE /\ Sets(s, r)
             /\ IF r.ok THEN Answers(TRUE, s, r.state) ELSE Refuses
  BY <1>2 DEF BackendCancels
<1>4. UNCHANGED << late, status, template, service, ui >>
  BY DEF BackendCancels
<1>5. /\ s \in Sessions /\ TypeOK /\ BackendInv /\ PageInv
      /\ late \subseteq Sessions /\ service \in Sessions \cup {None}
  BY <1>2 DEF Known, IInv, TypeOK
<1> HIDE DEF s
<1>6. Outcome(s, r)
  BY <1>5, RefreshedFine
<1>7. PICK q :
        /\ Sets(s, q)
        /\ \/ q = r /\ r.ok /\ r.state \notin Ongoing /\ Answers(TRUE, s, r.state)
           \/ q = r /\ Refuses
           \/ q = Result("cancelled", "killed", TRUE) /\ session[s] \in Ongoing /\ Answers(TRUE, s, "cancelled")
  <2>1. r.state \in Ongoing => session[s] \in Ongoing
    BY <1>6 DEF Outcome
  <2> QED
    BY <1>3, <2>1
<1>8. /\ \A t \in Sessions : Moves(t) /\ Narrows(t)
      /\ session' \in [Sessions -> States] /\ cli' \in [Sessions -> Processes]
      /\ session'[s] = q.state
  BY <1>5, <1>6, <1>7, SetsMoves
<1>9. BackendInv'
  BY <1>4, <1>5, <1>8, NarrowsFine, MovesFine, ServiceStays
<1>10. session'[s] # "unused"
  BY <1>2, <1>5, <1>8, NotUnused
<1>11. PageInv' /\ calls' \in Seq(Calls)
  <2>1. ASSUME q.state \in {"completed", "failed", "cancelled"}, Answers(TRUE, s, q.state)
        PROVE  PageInv' /\ calls' \in Seq(Calls)
    <3>1. Truthful(i, s, q.state)
      BY <1>1, <1>5, <1>8, <1>10, <2>1 DEF Truthful, s
    <3> QED
      BY <1>1, <1>4, <1>5, <1>8, <2>1, <3>1, AnswerFine
  <2>2. CASE q = r /\ r.ok /\ r.state \notin Ongoing /\ Answers(TRUE, s, r.state)
    <3>1. r.state \in {"completed", "failed", "cancelled"}
      BY <1>6, <1>8, <1>10, <2>2 DEF Outcome, States
    <3> QED
      BY <2>1, <2>2, <3>1
  <2>3. CASE q = Result("cancelled", "killed", TRUE) /\ Answers(TRUE, s, "cancelled")
    <3>1. q.state = "cancelled"
      BY <2>3 DEF Result
    <3> QED
      BY <2>1, <2>3, <3>1
  <2>4. CASE Refuses
    BY <1>1, <1>4, <1>5, <1>8, <2>4, RefusalFine
  <2> QED
    BY <1>7, <2>2, <2>3, <2>4
<1> QED
  BY <1>4, <1>5, <1>8, <1>9, <1>11 DEF BackendFine

LEMMA FinishesFine ==
  ASSUME IInv, BackendFinishes
  PROVE  BackendFine
<1>1. PICK i \in DOMAIN calls : Serves(i) /\ calls[i].op \in {"finish"}
  BY HandlesFine DEF BackendFinishes, IInv, PageInv
<1> DEFINE s == calls[i].session
<1>2. Call.session = s /\ Known(s)
  BY <1>1 DEF Serves, IInv, PageInv, RepliesFine
<1>3. PICK r \in Refreshed(s) :
        /\ Sets(s, r)
        /\ \/ r.state = "completed" /\ service' = s /\ (Answers(TRUE, s, "completed") \/ Refuses)
           \/ Refuses /\ service' = service
  BY <1>2 DEF BackendFinishes
<1>4. UNCHANGED << late, status, template, ui >>
  BY DEF BackendFinishes
<1>5. /\ s \in Sessions /\ TypeOK /\ BackendInv /\ PageInv
      /\ late \subseteq Sessions /\ service \in Sessions \cup {None}
  BY <1>2 DEF Known, IInv, TypeOK
<1> HIDE DEF s
<1>6. Outcome(s, r)
  BY <1>5, RefreshedFine
<1>7. /\ \A t \in Sessions : Moves(t) /\ Narrows(t)
      /\ session' \in [Sessions -> States] /\ cli' \in [Sessions -> Processes]
      /\ session'[s] = r.state
  BY <1>3, <1>5, <1>6, SetsMoves
<1>8. service' # None => service' \in Sessions /\ session'[service'] = "completed"
  <2>1. CASE r.state = "completed" /\ service' = s
    BY <1>5, <1>7, <2>1
  <2>2. CASE service' = service
    <3>1. service' # None => service' \in Sessions /\ session'[service] = "completed"
      BY <1>5, <1>7, <2>2, ServiceStays
    <3> QED
      BY <2>2, <3>1
  <2> QED
    BY <1>3, <2>1, <2>2
<1>9. BackendInv'
  BY <1>4, <1>5, <1>7, <1>8, NarrowsFine, MovesFine
<1>10. PageInv' /\ calls' \in Seq(Calls)
  <2>1. CASE Refuses
    BY <1>1, <1>4, <1>5, <1>7, <2>1, RefusalFine
  <2>2. CASE r.state = "completed" /\ service' = s /\ Answers(TRUE, s, "completed")
    <3>1. Truthful(i, s, "completed")
      BY <1>1, <1>5, <1>7, <2>2 DEF Truthful, s
    <3> QED
      BY <1>1, <1>4, <1>5, <1>7, <2>2, <3>1, AnswerFine
  <2> QED
    BY <1>3, <2>1, <2>2
<1> QED
  BY <1>3, <1>4, <1>5, <1>7, <1>9, <1>10 DEF BackendFine

\* An attempt begins: its session and its process are new.
LEMMA NewMoves ==
  ASSUME TypeOK, BackendInv, NEW s \in Sessions, session[s] = "unused",
         session'[s] = "running", cli'[s] = Left(s, "spawned")
  PROVE  Moves(s)
<1>1. cli[s] \in Processes
  BY DEF TypeOK, Processes, Phases
<1>2. cli'[s] = [cli[s] EXCEPT !.phase = "spawned"]
  BY DEF Left
<1>3. cli'[s] \in Processes /\ cli'[s].phase = "spawned"
  BY <1>1, <1>2 DEF Processes, Phases
<1> QED
  BY <1>3 DEF Moves, RecordingFine, Recording, States, Ongoing, Over

LEMMA StartsFine ==
  ASSUME IInv, BackendStarts
  PROVE  BackendFine
<1>1. PICK i \in DOMAIN calls : Serves(i) /\ calls[i].op \in {"start"}
  BY HandlesFine DEF BackendStarts, IInv, PageInv
<1>2. PICK r \in [Sessions -> UNION {Refreshed(s) : s \in Sessions}] :
        /\ \A s \in Sessions : r[s] \in Refreshed(s)
        /\ \/ /\ session' = [s \in Sessions |-> r[s].state]
              /\ cli' = [s \in Sessions |-> Left(s, r[s].phase)]
              /\ Refuses
              /\ UNCHANGED late
           \/ \E new \in Sessions :
              /\ session[new] = "unused" /\ \A s \in 1..(new - 1) : session[s] # "unused"
              /\ \A s \in Sessions : r[s].ok /\ r[s].state \notin Ongoing
              /\ late' = {}
              /\ session' = [s \in Sessions |-> IF s = new THEN "running" ELSE r[s].state]
              /\ cli' = [s \in Sessions |-> Left(s, IF s = new THEN "spawned" ELSE r[s].phase)]
              /\ Answers(TRUE, new, "running")
  BY DEF BackendStarts
<1>3. UNCHANGED << status, template, service, ui >>
  BY DEF BackendStarts
<1>4. /\ TypeOK /\ BackendInv /\ PageInv
      /\ late \subseteq Sessions /\ service \in Sessions \cup {None}
  BY DEF IInv, TypeOK
<1>5. \A s \in Sessions : Outcome(s, r[s])
  BY <1>2, <1>4, RefreshedFine
<1>6. ASSUME \A s \in Sessions : Moves(s), OneOngoing'
      PROVE  BackendInv'
  BY <1>3, <1>4, <1>6, MovesFine, ServiceStays
<1>7. CASE /\ session' = [s \in Sessions |-> r[s].state]
           /\ cli' = [s \in Sessions |-> Left(s, r[s].phase)]
           /\ Refuses /\ UNCHANGED late
  <2>1. ASSUME NEW s \in Sessions PROVE Moves(s) /\ Narrows(s)
    <3>1. session'[s] = r[s].state /\ cli'[s] = Left(s, r[s].phase)
      BY <1>7
    <3> QED
      BY <1>4, <1>5, <3>1, OutcomeMoves
  <2>2. BackendInv'
    BY <1>4, <1>6, <2>1, NarrowsFine
  <2>3. PageInv' /\ calls' \in Seq(Calls)
    BY <1>1, <1>3, <1>4, <1>7, <2>1, RefusalFine
  <2>4. session' \in [Sessions -> States] /\ cli' \in [Sessions -> Processes]
    BY <1>7, <2>1 DEF Moves
  <2> QED
    BY <1>3, <1>4, <1>7, <2>2, <2>3, <2>4 DEF BackendFine
<1>8. ASSUME NEW new \in Sessions, session[new] = "unused",
             \A s \in Sessions : r[s].ok /\ r[s].state \notin Ongoing,
             late' = {},
             session' = [s \in Sessions |-> IF s = new THEN "running" ELSE r[s].state],
             cli' = [s \in Sessions |-> Left(s, IF s = new THEN "spawned" ELSE r[s].phase)],
             Answers(TRUE, new, "running")
      PROVE  BackendFine
  <2>1. ASSUME NEW s \in Sessions PROVE Moves(s)
    <3>1. CASE s = new
      BY <1>4, <1>8, <3>1, NewMoves
    <3>2. CASE s # new
      <4>1. session'[s] = r[s].state /\ cli'[s] = Left(s, r[s].phase)
        BY <1>8, <3>2
      <4> QED
        BY <1>4, <1>5, <4>1, OutcomeMoves
    <3> QED
      BY <3>1, <3>2
  <2>2. \A s \in Sessions : session'[s] \in Ongoing => s = new
    BY <1>8
  <2>3. OneOngoing'
    BY <2>2 DEF OneOngoing
  <2>4. BackendInv'
    BY <1>6, <2>1, <2>3
  <2>5. Truthful(i, new, "running")
    BY <1>1, <1>8 DEF Truthful, Ongoing
  <2>6. PageInv' /\ calls' \in Seq(Calls)
    BY <1>1, <1>3, <1>4, <1>8, <2>1, <2>5, AnswerFine DEF Ongoing
  <2>7. session' \in [Sessions -> States] /\ cli' \in [Sessions -> Processes]
    BY <1>8, <2>1 DEF Moves
  <2> QED
    BY <1>3, <1>4, <1>8, <2>4, <2>6, <2>7 DEF BackendFine
<1> QED
  BY <1>2, <1>7, <1>8

LEMMA BackendStepFine ==
  ASSUME IInv, BackendStep
  PROVE  IInv'
<1>1. BackendFine
  BY TellsFine, CancelsFine, FinishesFine, StartsFine DEF BackendStep
<1>2. UNCHANGED << status, template, ui >>
  BY DEF BackendStep, BackendStarts, BackendTells, BackendCancels, BackendFinishes
<1>3. TypeOK'
  BY <1>1, <1>2 DEF BackendFine, IInv, TypeOK, States, Processes, Phases
<1> QED
  BY <1>1, <1>3 DEF BackendFine, IInv

-----------------------------------------------------------------------------
(* The queue of commands, as the page changes it                           *)

Ops == {"start", "poll", "cancel", "switch", "leave", "finish"}

\* The first d commands are gone, and those of more, one at most, are new.
Queued(d, more) ==
  /\ Len(calls') \in Nat /\ DOMAIN calls' = 1..Len(calls')
  /\ \A i \in DOMAIN calls : i > d => i - d \in DOMAIN calls' /\ calls'[i - d] = calls[i]
  /\ \A i \in DOMAIN calls' :
       \/ i + d \in DOMAIN calls /\ calls'[i] = calls[i + d]
       \/ i = Len(calls') /\ i + d = Len(calls) + 1 /\ calls'[i] \in more
  /\ more # {} => Len(calls') \in DOMAIN calls' /\ Len(calls') + d = Len(calls) + 1
                  /\ calls'[Len(calls')] \in more
  /\ calls' \in Seq(Calls)

NewCall(op, s) == [op |-> op, session |-> s, reply |-> None]

LEMMA QueuedAre ==
  ASSUME TypeOK, NEW d, NEW more, Queued(d, more)
  PROVE  /\ DOMAIN calls = 1..Len(calls) /\ Len(calls) \in Nat
         /\ DOMAIN calls' = 1..Len(calls') /\ Len(calls') \in Nat /\ calls' \in Seq(Calls)
  BY QueueTyped DEF Queued

LEMMA NewCallTyped ==
  ASSUME NEW op \in Ops, NEW s \in Sessions \cup {None}
  PROVE  NewCall(op, s) \in Calls
  BY DEF NewCall, Calls, Ops

LEMMA QueuedSame ==
  ASSUME TypeOK, calls' = calls
  PROVE  Queued(0, {})
<1>1. Len(calls) \in Nat /\ DOMAIN calls = 1..Len(calls) /\ calls \in Seq(Calls)
  BY DEF TypeOK
<1> QED
  BY <1>1 DEF Queued

LEMMA QueuedAppend ==
  ASSUME TypeOK, NEW op \in Ops, NEW s \in Sessions \cup {None}, calls' = Issue(op, s)
  PROVE  Queued(0, {NewCall(op, s)})
<1> DEFINE c == NewCall(op, s)
<1>1. Len(calls) \in Nat /\ DOMAIN calls = 1..Len(calls) /\ calls \in Seq(Calls)
  BY DEF TypeOK
<1>2. c \in Calls
  BY NewCallTyped
<1>3. calls' = Append(calls, c)
  BY DEF Issue, NewCall
<1> HIDE DEF c
<1>4. /\ calls' \in Seq(Calls) /\ Len(calls') = Len(calls) + 1 /\ DOMAIN calls' = 1..(Len(calls) + 1)
      /\ \A i \in DOMAIN calls : calls'[i] = calls[i]
      /\ calls'[Len(calls) + 1] = c
  BY <1>1, <1>2, <1>3
<1> QED
  BY <1>1, <1>4 DEF Queued, c

LEMMA TailFine ==
  ASSUME NEW S, NEW q \in Seq(S), Len(q) > 0
  PROVE  /\ Tail(q) \in Seq(S) /\ Len(Tail(q)) = Len(q) - 1 /\ DOMAIN Tail(q) = 1..(Len(q) - 1)
         /\ \A i \in 1..(Len(q) - 1) : Tail(q)[i] = q[i + 1]
  OBVIOUS

LEMMA QueuedTail ==
  ASSUME TypeOK, calls # << >>, calls' = Tail(calls)
  PROVE  Queued(1, {})
<1>1. Len(calls) \in Nat /\ DOMAIN calls = 1..Len(calls) /\ calls \in Seq(Calls) /\ Len(calls) > 0
  BY DEF TypeOK
<1>2. /\ calls' \in Seq(Calls) /\ Len(calls') = Len(calls) - 1 /\ DOMAIN calls' = 1..(Len(calls) - 1)
      /\ \A i \in 1..(Len(calls) - 1) : calls'[i] = calls[i + 1]
  BY <1>1
<1> QED
  BY <1>1, <1>2 DEF Queued

LEMMA QueuedBoth ==
  ASSUME TypeOK, calls # << >>, NEW op \in Ops, NEW s \in Sessions \cup {None},
         calls' = Tail(Issue(op, s))
  PROVE  Queued(1, {NewCall(op, s)})
<1> DEFINE c == NewCall(op, s)
           longer == Append(calls, c)
<1>1. Len(calls) \in Nat /\ DOMAIN calls = 1..Len(calls) /\ calls \in Seq(Calls) /\ Len(calls) > 0
  BY DEF TypeOK
<1>2. c \in Calls
  BY NewCallTyped
<1>3. calls' = Tail(longer)
  BY DEF Issue, NewCall
<1> HIDE DEF c
<1>4. /\ longer \in Seq(Calls) /\ Len(longer) = Len(calls) + 1 /\ DOMAIN longer = 1..(Len(calls) + 1)
      /\ \A i \in DOMAIN calls : longer[i] = calls[i]
      /\ longer[Len(calls) + 1] = c
  BY <1>1, <1>2
<1> HIDE DEF longer
<1>5. /\ calls' \in Seq(Calls) /\ Len(calls') = Len(calls) /\ DOMAIN calls' = 1..Len(calls)
      /\ \A i \in 1..Len(calls) : calls'[i] = longer[i + 1]
  <2>1. Len(longer) > 0 /\ Len(longer) - 1 = Len(calls)
    BY <1>1, <1>4
  <2>2. /\ Tail(longer) \in Seq(Calls) /\ Len(Tail(longer)) = Len(longer) - 1
        /\ DOMAIN Tail(longer) = 1..(Len(longer) - 1)
        /\ \A i \in 1..(Len(longer) - 1) : Tail(longer)[i] = longer[i + 1]
    BY <1>4, <2>1, TailFine
  <2> QED
    BY <1>3, <2>1, <2>2
<1> QED
  BY <1>1, <1>4, <1>5 DEF Queued, c

-----------------------------------------------------------------------------
(* The page                                                                *)

Uis == [state : Busy \cup {"idle", "completed", "failed", "cancelled"},
        session : Sessions \cup {None}, pending : BOOLEAN,
        finishing : Sessions \cup {None}, poll : {"off", "timer", "asked"}]

LEMMA PageStepFine ==
  ASSUME IInv, UNCHANGED << backendVars, cliVars >>, calls' \in Seq(Calls), ui' \in Uis, PageInv'
  PROVE  IInv'
<1>1. TypeOK'
  BY DEF IInv, TypeOK, backendVars, cliVars, Uis
<1>2. BackendInv'
  BY DEF IInv, BackendInv, ProcessesFine, OneOngoing, ServiceFine, Alive, backendVars, cliVars
<1> QED
  BY <1>1, <1>2 DEF IInv

LEMMA ShowsFine ==
  ASSUME NEW state \in Busy \cup {"idle", "completed", "failed", "cancelled"},
         NEW s \in Sessions \cup {None}, NEW new \in Uis, Shows(state, s, new)
  PROVE  /\ ui' \in Uis /\ ui'.state = state /\ ui'.session = s
         /\ ui'.pending = new.pending /\ ui'.finishing = new.finishing
         /\ state = ui.state /\ s = ui.session => ui'.poll = new.poll
         /\ ~(state = ui.state /\ s = ui.session) =>
              ui'.poll = IF s # None /\ state \in {"starting", "running"} THEN "timer" ELSE "off"
  BY DEF Shows, Uis

LEMMA RepliesKept ==
  ASSUME IInv, UNCHANGED << backendVars, cliVars >>, NEW d \in {0, 1}, NEW more, Queued(d, more),
         \A c \in more : c.reply = None /\ (c.op # "start" => Known(c.session))
  PROVE  RepliesFine'
<1>1. /\ DOMAIN calls = 1..Len(calls) /\ Len(calls) \in Nat
      /\ DOMAIN calls' = 1..Len(calls') /\ Len(calls') \in Nat
      /\ session' = session /\ service' = service /\ RepliesFine
  BY QueuedAre DEF IInv, PageInv, backendVars
<1>2. ASSUME NEW i \in DOMAIN calls', NEW j \in DOMAIN calls', i < j, calls'[j].reply # None
      PROVE  calls'[i].reply # None
  <2>1. j + d \in DOMAIN calls /\ calls'[j] = calls[j + d]
    BY <1>2 DEF Queued
  <2>2. i + d \in DOMAIN calls /\ calls'[i] = calls[i + d]
    BY <1>1, <1>2, <2>1 DEF Queued
  <2> QED
    BY <1>1, <1>2, <2>1, <2>2 DEF RepliesFine
<1>3. ASSUME NEW i \in DOMAIN calls', calls'[i].op # "start"
      PROVE  Known(calls'[i].session)
  BY <1>1, <1>3 DEF Queued, RepliesFine
<1>4. ASSUME NEW i \in DOMAIN calls', calls'[i].reply # None, calls'[i].reply.ok
      PROVE  /\ Known(calls'[i].reply.session)
             /\ calls'[i].reply.state # "none"
             /\ calls'[i].op # "start" => calls'[i].reply.session = calls'[i].session
             /\ calls'[i].op = "cancel" => Over(calls'[i].session)
             /\ calls'[i].op = "poll" /\ calls'[i].reply.state \notin Ongoing =>
                  session[calls'[i].session] = calls'[i].reply.state
             /\ calls'[i].op = "finish" /\ (\A j \in DOMAIN calls' : j > i => calls'[j].op # "finish") =>
                  service = calls'[i].session
  <2>1. i + d \in DOMAIN calls /\ calls'[i] = calls[i + d]
    BY <1>4 DEF Queued
  <2>2. (\A j \in DOMAIN calls' : j > i => calls'[j].op # "finish") =>
          \A j \in DOMAIN calls : j > i + d => calls[j].op # "finish"
    <3>1. \A j \in DOMAIN calls : j > i + d => j - d \in DOMAIN calls' /\ j - d > i /\ calls'[j - d] = calls[j]
      BY <1>1, <2>1 DEF Queued
    <3> QED
      BY <3>1
  <2> QED
    BY <1>1, <1>4, <2>1, <2>2 DEF RepliesFine
<1> QED
  BY <1>1, <1>2, <1>3, <1>4 DEF RepliesFine, Known, Over

LEMMA CheckKept ==
  ASSUME IInv, NEW d \in {0, 1}, NEW more, Queued(d, more),
         \A c \in more : c.op \notin {"poll", "finish", "start"},
         ui'.poll # "off" => ui'.state \in {"starting", "running"} /\ ui'.session # None,
         ui'.poll = "asked" =>
           /\ ui.poll = "asked" /\ ui'.session = ui.session
           /\ d = 1 => calls[1].op # "poll" \/ \E i \in 2..Len(calls) : calls[i].op = "poll"
  PROVE  CheckFine'
<1> SUFFICES ASSUME ui'.poll = "asked"
             PROVE  \E p \in DOMAIN calls' :
                      /\ calls'[p].op = "poll" /\ calls'[p].session = ui'.session
                      /\ \A j \in DOMAIN calls' : j > p => calls'[j].op \notin {"poll", "finish", "start"}
  BY DEF CheckFine
<1>1. /\ DOMAIN calls = 1..Len(calls) /\ Len(calls) \in Nat
      /\ DOMAIN calls' = 1..Len(calls') /\ Len(calls') \in Nat
  BY QueuedAre DEF IInv
<1>2. PICK p \in DOMAIN calls :
        /\ calls[p].op = "poll" /\ calls[p].session = ui.session
        /\ \A j \in DOMAIN calls : j > p => calls[j].op \notin {"poll", "finish", "start"}
  BY DEF IInv, PageInv, CheckFine
<1>3. p > d
  BY <1>1, <1>2
<1>4. p - d \in DOMAIN calls' /\ calls'[p - d] = calls[p]
  BY <1>3 DEF Queued
<1>5. \A j \in DOMAIN calls' : j > p - d => calls'[j].op \notin {"poll", "finish", "start"}
  <2>1. SUFFICES ASSUME NEW j \in DOMAIN calls', j > p - d
                 PROVE  calls'[j].op \notin {"poll", "finish", "start"}
    OBVIOUS
  <2>2. CASE j + d \in DOMAIN calls /\ calls'[j] = calls[j + d]
    BY <1>1, <1>2, <2>1, <2>2
  <2>3. CASE calls'[j] \in more
    BY <2>3
  <2> QED
    BY <2>2, <2>3 DEF Queued
<1> QED
  BY <1>2, <1>4, <1>5

LEMMA FinishKept ==
  ASSUME IInv, NEW d \in {0, 1}, NEW more, Queued(d, more),
         ui'.finishing # None =>
           /\ ui'.finishing = ui.finishing /\ ui'.session = ui.session
           /\ \A c \in more : c.op # "finish"
           /\ d = 1 => calls[1].op # "finish" \/ calls[1].session # ui.finishing
  PROVE  FinishFine'
<1> SUFFICES ASSUME ui'.finishing # None
             PROVE  \E i \in DOMAIN calls' :
                      /\ calls'[i].op = "finish" /\ calls'[i].session = ui'.finishing
                      /\ ui'.session = ui'.finishing
                      /\ \A j \in DOMAIN calls' :
                           /\ j > i => calls'[j].op # "finish"
                           /\ j < i => /\ calls'[j].op # "start"
                                       /\ calls'[j].op = "finish" => calls'[j].session # ui'.finishing
  BY DEF FinishFine
<1>1. /\ DOMAIN calls = 1..Len(calls) /\ Len(calls) \in Nat
      /\ DOMAIN calls' = 1..Len(calls') /\ Len(calls') \in Nat
  BY QueuedAre DEF IInv
<1>2. PICK i \in DOMAIN calls :
        /\ calls[i].op = "finish" /\ calls[i].session = ui.finishing /\ ui.session = ui.finishing
        /\ \A j \in DOMAIN calls :
             /\ j > i => calls[j].op # "finish"
             /\ j < i => calls[j].op # "start" /\ (calls[j].op = "finish" => calls[j].session # ui.finishing)
  BY DEF IInv, PageInv, FinishFine
<1>3. i > d
  BY <1>1, <1>2
<1>4. i - d \in DOMAIN calls' /\ calls'[i - d] = calls[i]
  BY <1>3 DEF Queued
<1>5. ASSUME NEW j \in DOMAIN calls'
      PROVE  /\ j > i - d => calls'[j].op # "finish"
             /\ j < i - d => /\ calls'[j].op # "start"
                             /\ calls'[j].op = "finish" => calls'[j].session # ui.finishing
  <2>1. CASE j + d \in DOMAIN calls /\ calls'[j] = calls[j + d]
    BY <1>1, <1>2, <2>1
  <2>2. CASE j + d = Len(calls) + 1 /\ calls'[j] \in more
    BY <1>1, <2>2
  <2> QED
    BY <2>1, <2>2 DEF Queued
<1> QED
  BY <1>2, <1>4, <1>5

LEMMA CommandKept ==
  ASSUME IInv, NEW d \in {0, 1}, NEW more, Queued(d, more),
         \/ /\ \A c \in more : c.op \notin Commands
            /\ ui'.pending = ui.pending /\ ui'.session \in {ui.session, None}
         \/ /\ \A i \in DOMAIN calls : i > d => calls[i].op \notin Commands
            /\ \A c \in more : c.op \in Commands => ui'.pending
            /\ \A c \in more : c.op \in {"cancel", "switch"} => ui'.session = c.session,
         ui'.state = "starting" =>
           \/ \E c \in more : c.op = "start" /\ more = {c}
           \/ ui.state = "starting" /\ (d = 1 => calls[1].op # "start")
  PROVE  OneCommand'
<1>1. /\ DOMAIN calls = 1..Len(calls) /\ Len(calls) \in Nat
      /\ DOMAIN calls' = 1..Len(calls') /\ Len(calls') \in Nat
  BY QueuedAre DEF IInv
<1>2. /\ \A i, j \in DOMAIN calls : calls[i].op \in Commands /\ calls[j].op \in Commands => i = j
      /\ \A i \in DOMAIN calls : calls[i].op \in Commands => ui.pending
      /\ \A i \in DOMAIN calls : calls[i].op \in {"cancel", "switch"} => ui.session \in {None, calls[i].session}
      /\ ui.state = "starting" => \E i \in DOMAIN calls : calls[i].op = "start"
  BY DEF IInv, PageInv, OneCommand
<1>3. \A i \in DOMAIN calls' :
        \/ i + d \in DOMAIN calls /\ calls'[i] = calls[i + d]
        \/ i = Len(calls') /\ i + d = Len(calls) + 1 /\ calls'[i] \in more
  BY DEF Queued
<1>4. ASSUME NEW i \in DOMAIN calls', NEW j \in DOMAIN calls', calls'[i].op \in Commands, calls'[j].op \in Commands
      PROVE  i = j
  <2>1. CASE i + d \in DOMAIN calls /\ calls'[i] = calls[i + d] /\ j + d \in DOMAIN calls /\ calls'[j] = calls[j + d]
    BY <1>1, <1>2, <1>4, <2>1
  <2>2. CASE i = Len(calls') /\ j = Len(calls')
    BY <2>2
  <2>3. CASE i + d \in DOMAIN calls /\ calls'[i] = calls[i + d] /\ calls'[j] \in more
    BY <1>1, <1>4, <2>3
  <2>4. CASE j + d \in DOMAIN calls /\ calls'[j] = calls[j + d] /\ calls'[i] \in more
    BY <1>1, <1>4, <2>4
  <2> QED
    BY <1>3, <2>1, <2>2, <2>3, <2>4
<1>5. ASSUME NEW i \in DOMAIN calls', calls'[i].op \in Commands
      PROVE  /\ ui'.pending
             /\ calls'[i].op \in {"cancel", "switch"} => ui'.session \in {None, calls'[i].session}
  <2>1. CASE i + d \in DOMAIN calls /\ calls'[i] = calls[i + d]
    <3>1. i + d > d
      BY <1>1
    <3> QED
      BY <1>2, <1>5, <2>1, <3>1
  <2>2. CASE calls'[i] \in more
    BY <1>5, <2>2
  <2> QED
    BY <1>3, <2>1, <2>2
<1>6. ASSUME ui'.state = "starting"
      PROVE  \E i \in DOMAIN calls' : calls'[i].op = "start"
  <2>1. CASE \E c \in more : c.op = "start" /\ more = {c}
    BY <2>1 DEF Queued
  <2>2. CASE ui.state = "starting" /\ (d = 1 => calls[1].op # "start")
    <3>1. PICK i \in DOMAIN calls : calls[i].op = "start"
      BY <1>2, <2>2
    <3>2. i > d
      BY <1>1, <2>2, <3>1
    <3>3. i - d \in DOMAIN calls' /\ calls'[i - d] = calls[i]
      BY <3>2 DEF Queued
    <3> QED
      BY <3>1, <3>3
  <2> QED
    BY <1>6, <2>1, <2>2
<1>7. \A i \in DOMAIN calls' :
        /\ calls'[i].op \in Commands => ui'.pending
        /\ calls'[i].op \in {"cancel", "switch"} => ui'.session \in {None, calls'[i].session}
  BY <1>5 DEF Commands
<1> QED
  BY <1>4, <1>6, <1>7 DEF OneCommand

LEMMA PageKept ==
  ASSUME IInv, UNCHANGED << backendVars, cliVars >>, NEW d \in {0, 1}, NEW more, Queued(d, more),
         ui'.session # None => Known(ui'.session),
         ui'.state = "cancelled" => ui'.session # None /\ Over(ui'.session),
         ui'.state = "completed" =>
           /\ ui'.session # None /\ service = ui'.session
           /\ \A i \in DOMAIN calls : i > d => calls[i].op # "finish"
           /\ \A c \in more : c.op # "finish"
  PROVE  PageFine'
<1>1. /\ DOMAIN calls = 1..Len(calls) /\ Len(calls) \in Nat
      /\ DOMAIN calls' = 1..Len(calls') /\ Len(calls') \in Nat
      /\ session' = session /\ service' = service
  BY QueuedAre DEF IInv, backendVars
<1>2. ui'.state = "completed" => \A i \in DOMAIN calls' : calls'[i].op # "finish"
  <2>1. SUFFICES ASSUME ui'.state = "completed", NEW i \in DOMAIN calls'
                 PROVE  calls'[i].op # "finish"
    OBVIOUS
  <2>2. CASE i + d \in DOMAIN calls /\ calls'[i] = calls[i + d]
    BY <1>1, <2>1, <2>2
  <2>3. CASE calls'[i] \in more
    BY <2>1, <2>3
  <2> QED
    BY <2>2, <2>3 DEF Queued
<1> QED
  BY <1>1, <1>2 DEF PageFine, Known, Over

\* What is known of the page, as the steps below use it.
LEMMA PageIs ==
  ASSUME IInv
  PROVE  /\ TypeOK /\ ui \in Uis
         /\ ui.session # None => Known(ui.session) /\ ui.session \in Sessions
         /\ ui.state = "cancelled" => ui.session # None /\ Over(ui.session)
         /\ ui.poll # "off" => ui.state \in {"starting", "running"} /\ ui.session # None
         /\ ~ui.pending => \A i \in DOMAIN calls : calls[i].op \notin Commands
  BY DEF IInv, TypeOK, Uis, PageInv, PageFine, CheckFine, OneCommand, Known

LEMMA UserStartsFine ==
  ASSUME IInv, UserStarts
  PROVE  IInv'
<1> DEFINE more == {NewCall("start", None)}
<1>1. /\ UNCHANGED << backendVars, cliVars >> /\ ui.state \in {"idle", "cancelled"} /\ ~ui.pending
      /\ calls' = Issue("start", None) /\ Shows("starting", ui.session, [ui EXCEPT !.pending = TRUE])
  BY DEF UserStarts
<1>2. Queued(0, more)
  BY <1>1, PageIs, QueuedAppend DEF Ops
<1>3. /\ ui' \in Uis /\ ui'.state = "starting" /\ ui'.session = ui.session /\ ui'.pending
      /\ ui'.finishing = ui.finishing
      /\ ui'.poll = IF ui.session # None THEN "timer" ELSE "off"
  <2> DEFINE new == [ui EXCEPT !.pending = TRUE]
  <2>1. new \in Uis /\ new.pending /\ new.finishing = ui.finishing /\ ui.session \in Sessions \cup {None}
    BY PageIs DEF Uis
  <2>2. Shows("starting", ui.session, new) /\ ui.state # "starting"
    BY <1>1
  <2> HIDE DEF new
  <2> QED
    BY <2>1, <2>2, ShowsFine DEF Busy
<1>4. \A c \in more : c.reply = None /\ c.op = "start" /\ more = {c}
  BY DEF NewCall
<1> HIDE DEF more
<1>5. more # {}
  BY DEF more
<1>6. RepliesFine'
  BY <1>1, <1>2, <1>4, RepliesKept
<1>7. OneCommand'
  BY <1>1, <1>2, <1>3, <1>4, <1>5, PageIs, CommandKept
<1>8. CheckFine'
  BY <1>3 DEF CheckFine
<1>9. FinishFine'
  BY <1>2, <1>3, <1>4, FinishKept
<1>10. PageFine'
  BY <1>1, <1>2, <1>3, PageIs, PageKept
<1> QED
  BY <1>1, <1>2, <1>3, <1>6, <1>7, <1>8, <1>9, <1>10, PageStepFine DEF PageInv, Queued

LEMMA UserCancelsFine ==
  ASSUME IInv, UserCancels
  PROVE  IInv'
<1>1. /\ UNCHANGED << backendVars, cliVars >> /\ ui.state \in Busy /\ ~ui.pending /\ ui.session # None
      /\ ui' = [ui EXCEPT !.pending = TRUE]
  BY DEF UserCancels
<1>2. PICK op \in {"cancel", "switch"} : calls' = Issue(op, ui.session)
  BY DEF UserCancels
<1> DEFINE more == {NewCall(op, ui.session)}
<1>3. Queued(0, more)
  BY <1>1, <1>2, PageIs, QueuedAppend DEF Ops
<1>4. /\ ui' \in Uis /\ ui'.state = ui.state /\ ui'.session = ui.session /\ ui'.pending
      /\ ui'.finishing = ui.finishing /\ ui'.poll = ui.poll
  BY <1>1, PageIs DEF Uis
<1>5. \A c \in more : c.reply = None /\ c.op \in {"cancel", "switch"} /\ c.session = ui.session
  BY DEF NewCall
<1> HIDE DEF more
<1>6. RepliesFine'
  BY <1>1, <1>3, <1>5, PageIs, RepliesKept
<1>7. OneCommand'
  <2>1. \A i \in DOMAIN calls : calls[i].op \notin Commands
    BY <1>1, PageIs
  <2>2. /\ \A c \in more : c.op \in {"cancel", "switch"} => ui'.session = c.session
        /\ \A c \in more : c.op \in Commands => ui'.pending
    BY <1>4, <1>5
  <2>3. ui'.state = "starting" => ui.state = "starting" /\ (0 = 1 => calls[1].op # "start")
    BY <1>4
  <2> QED
    BY <1>3, <2>1, <2>2, <2>3, CommandKept
<1>8. CheckFine'
  BY <1>3, <1>4, <1>5, PageIs, CheckKept
<1>9. FinishFine'
  BY <1>3, <1>4, <1>5, FinishKept
<1>10. PageFine'
  BY <1>1, <1>3, <1>4, PageIs, PageKept DEF Busy
<1> QED
  BY <1>1, <1>3, <1>4, <1>6, <1>7, <1>8, <1>9, <1>10, PageStepFine DEF PageInv, Queued

\* Nothing is awaited any more once the page is reset.
LEMMA ResetFine ==
  ASSUME IInv, UNCHANGED << backendVars, cliVars >>, NEW more, Queued(0, more),
         \A c \in more : c.reply = None /\ c.op = "leave" /\ Known(c.session),
         ui.state # "idle", Shows("idle", None, [ui EXCEPT !.finishing = None])
  PROVE  IInv'
<1> DEFINE new == [ui EXCEPT !.finishing = None]
<1>1. new \in Uis /\ new.pending = ui.pending /\ new.finishing = None
  BY PageIs DEF Uis
<1>2. Shows("idle", None, new)
  OBVIOUS
<1> HIDE DEF new
<1>3. /\ ui' \in Uis /\ ui'.state = "idle" /\ ui'.session = None /\ ui'.pending = ui.pending
      /\ ui'.finishing = None /\ ui'.poll = "off"
  BY <1>1, <1>2, ShowsFine
<1>4. RepliesFine'
  BY RepliesKept
<1>5. OneCommand'
  BY <1>3, CommandKept DEF Commands
<1>6. CheckFine'
  BY <1>3 DEF CheckFine
<1>7. FinishFine'
  BY <1>3 DEF FinishFine
<1>8. PageFine'
  BY <1>3, PageKept
<1> QED
  BY <1>3, <1>4, <1>5, <1>6, <1>7, <1>8, PageStepFine DEF PageInv, Queued

LEMMA LeavesFine ==
  ASSUME IInv, UserLeaves \/ Resets("failed") \/ Resets("completed")
  PROVE  IInv'
<1>1. CASE UserLeaves /\ ui.session # None
  <2>1. Queued(0, {NewCall("leave", ui.session)})
    BY <1>1, PageIs, QueuedAppend DEF Ops, UserLeaves
  <2>2. \A c \in {NewCall("leave", ui.session)} : c.reply = None /\ c.op = "leave" /\ Known(c.session)
    BY <1>1, PageIs DEF NewCall
  <2> QED
    BY <1>1, <2>1, <2>2, ResetFine DEF UserLeaves, Busy
<1>2. CASE ~(UserLeaves /\ ui.session # None)
  <2>1. calls' = calls /\ ui.state # "idle"
    BY <1>2 DEF UserLeaves, Resets, Busy
  <2>2. Queued(0, {})
    BY <2>1, PageIs, QueuedSame
  <2>3. UNCHANGED << backendVars, cliVars >> /\ Shows("idle", None, [ui EXCEPT !.finishing = None])
    BY DEF UserLeaves, Resets
  <2> QED
    BY <2>1, <2>2, <2>3, ResetFine
<1> QED
  BY <1>1, <1>2

LEMMA PollTimerFine ==
  ASSUME IInv, PollTimer
  PROVE  IInv'
<1> DEFINE more == {NewCall("poll", ui.session)}
<1>1. /\ UNCHANGED << backendVars, cliVars >> /\ ui.poll = "timer"
      /\ ui' = [ui EXCEPT !.poll = "asked"] /\ calls' = Issue("poll", ui.session)
  BY DEF PollTimer
<1>2. Known(ui.session) /\ ui.session \in Sessions \cup {None}
  BY <1>1, PageIs
<1>3. Queued(0, more)
  BY <1>1, <1>2, PageIs, QueuedAppend DEF Ops
<1>4. /\ ui' \in Uis /\ ui'.state = ui.state /\ ui'.session = ui.session /\ ui'.pending = ui.pending
      /\ ui'.finishing = ui.finishing /\ ui'.poll = "asked"
  BY <1>1, PageIs DEF Uis
<1>5. \A c \in more : c.reply = None /\ c.op = "poll" /\ c.session = ui.session
  BY DEF NewCall
<1>6. more # {}
  OBVIOUS
<1> HIDE DEF more
<1>7. RepliesFine'
  BY <1>1, <1>2, <1>3, <1>5, RepliesKept
<1>8. OneCommand'
  BY <1>3, <1>4, <1>5, CommandKept DEF Commands
<1>9. CheckFine'
  <2>1. /\ Len(calls') \in DOMAIN calls' /\ calls'[Len(calls')] \in more
        /\ DOMAIN calls' = 1..Len(calls') /\ Len(calls') \in Nat
    BY <1>3, <1>6 DEF Queued
  <2>2. calls'[Len(calls')].op = "poll" /\ calls'[Len(calls')].session = ui'.session
    BY <1>4, <1>5, <2>1
  <2>3. \A j \in DOMAIN calls' : ~(j > Len(calls'))
    BY <2>1
  <2> QED
    BY <1>1, <1>4, <2>1, <2>2, <2>3, PageIs DEF CheckFine
<1>10. FinishFine'
  BY <1>3, <1>4, <1>5, FinishKept
<1>11. PageFine'
  BY <1>1, <1>2, <1>3, <1>4, PageIs, PageKept
<1> QED
  BY <1>1, <1>3, <1>4, <1>7, <1>8, <1>9, <1>10, <1>11, PageStepFine DEF PageInv, Queued

\* The first command has its answer, and is gone.
LEMMA HeadIs ==
  ASSUME IInv, NEW op \in Ops, Answered(op)
  PROVE  /\ calls # << >> /\ 1 \in DOMAIN calls /\ calls[1] \in Calls /\ calls[1].op = op
         /\ calls[1].reply \in Replies
         /\ op # "start" => Known(calls[1].session)
         /\ op \in Commands => ui.pending /\ \A i \in DOMAIN calls : i > 1 => calls[i].op \notin Commands
<1>1. /\ calls # << >> /\ calls[1].reply # None /\ calls[1].op = op
      /\ DOMAIN calls = 1..Len(calls) /\ Len(calls) \in Nat
  BY QueueTyped DEF Answered, IInv
<1>2. 1 \in DOMAIN calls
  BY <1>1 DEF IInv, TypeOK
<1>3. calls[1] \in Calls /\ calls[1].reply \in Replies
  BY <1>1, <1>2, QueueTyped DEF Calls, IInv
<1> QED
  BY <1>1, <1>2, <1>3 DEF IInv, PageInv, RepliesFine, OneCommand

LEMMA LeaveReturnsFine ==
  ASSUME IInv, LeaveReturns
  PROVE  IInv'
<1>1. /\ UNCHANGED << backendVars, cliVars >> /\ calls' = Tail(calls) /\ ui' = ui
      /\ calls # << >> /\ calls[1].op = "leave"
  BY DEF LeaveReturns, Answered
<1>2. Queued(1, {})
  BY <1>1, PageIs, QueuedTail
<1>3. RepliesFine'
  BY <1>1, <1>2, RepliesKept
<1>4. OneCommand'
  BY <1>1, <1>2, CommandKept
<1>5. CheckFine'
  BY <1>1, <1>2, PageIs, CheckKept
<1>6. FinishFine'
  BY <1>1, <1>2, FinishKept
<1>7. PageFine'
  BY <1>1, <1>2, PageIs, PageKept DEF IInv, PageInv, PageFine
<1> QED
  BY <1>1, <1>2, <1>3, <1>4, <1>5, <1>6, <1>7, PageIs, PageStepFine DEF PageInv, Queued

LEMMA SwitchReturnsFine ==
  ASSUME IInv, SwitchReturns
  PROVE  IInv'
<1> DEFINE more == {NewCall("start", None)}
<1>1. /\ UNCHANGED << backendVars, cliVars >> /\ Answered("switch")
      /\ Shows("starting", ui.session, ui) /\ calls' = Tail(Issue("start", None))
  BY DEF SwitchReturns
<1>2. /\ calls # << >> /\ 1 \in DOMAIN calls /\ calls[1].op = "switch" /\ ui.pending
      /\ \A i \in DOMAIN calls : i > 1 => calls[i].op \notin Commands
  BY <1>1, HeadIs DEF Ops, Commands
<1>3. Queued(1, more)
  BY <1>1, <1>2, PageIs, QueuedBoth DEF Ops
<1>4. ui.state # "starting"
  BY <1>2 DEF IInv, PageInv, OneCommand, Commands
<1>5. /\ ui' \in Uis /\ ui'.state = "starting" /\ ui'.session = ui.session /\ ui'.pending = ui.pending
      /\ ui'.finishing = ui.finishing
      /\ ui'.poll = IF ui.session # None THEN "timer" ELSE "off"
  <2>1. ui \in Uis /\ ui.session \in Sessions \cup {None}
    BY PageIs
  <2> QED
    BY <1>1, <1>4, <2>1, ShowsFine DEF Busy
<1>6. \A c \in more : c.reply = None /\ c.op = "start" /\ more = {c}
  BY DEF NewCall
<1>7. more # {}
  OBVIOUS
<1> HIDE DEF more
<1>8. RepliesFine'
  BY <1>1, <1>3, <1>6, RepliesKept
<1>9. OneCommand'
  <2>1. /\ \A c \in more : c.op \in {"cancel", "switch"} => ui'.session = c.session
        /\ \A c \in more : c.op \in Commands => ui'.pending
    BY <1>2, <1>5, <1>6
  <2>2. \E c \in more : c.op = "start" /\ more = {c}
    BY <1>6, <1>7
  <2> QED
    BY <1>2, <1>3, <2>1, <2>2, CommandKept
<1>10. CheckFine'
  BY <1>5 DEF CheckFine
<1>11. FinishFine'
  BY <1>2, <1>3, <1>5, <1>6, FinishKept
<1>12. PageFine'
  BY <1>1, <1>3, <1>5, PageIs, PageKept
<1> QED
  BY <1>1, <1>3, <1>5, <1>8, <1>9, <1>10, <1>11, <1>12, PageStepFine DEF PageInv, Queued

LEMMA CommandReturnsFine ==
  ASSUME IInv, CommandReturns
  PROVE  IInv'
<1>1. /\ UNCHANGED << backendVars, cliVars >> /\ calls' = Tail(calls)
      /\ Answered("start") \/ Answered("cancel")
  BY DEF CommandReturns
<1>2. /\ calls # << >> /\ 1 \in DOMAIN calls /\ calls[1].op \in {"start", "cancel"}
      /\ calls[1].reply \in Replies /\ calls[1].reply # None
      /\ \A i \in DOMAIN calls : i > 1 => calls[i].op \notin Commands
  BY <1>1, HeadIs DEF Ops, Commands, Answered
<1>3. Queued(1, {})
  BY <1>1, <1>2, PageIs, QueuedTail
<1> DEFINE new == [ui EXCEPT !.pending = FALSE]
<1>4. PICK state \in {"running", "cancelled", "failed"}, s \in Sessions \cup {None} :
        /\ Shows(state, s, new)
        /\ s # None => Known(s)
        /\ state = "cancelled" => s # None /\ Over(s)
        /\ ui.finishing # None => s = ui.session
  <2>1. CASE ~calls[1].reply.ok
    <3>1. Shows("failed", ui.session, new)
      BY <2>1 DEF CommandReturns
    <3> QED
      BY <3>1, PageIs DEF Uis
  <2>2. CASE calls[1].reply.ok /\ calls[1].op = "start"
    <3>1. Shows("running", calls[1].reply.session, new)
      BY <2>2 DEF CommandReturns
    <3>2. Known(calls[1].reply.session) /\ calls[1].reply.session \in Sessions
      BY <1>2, <2>2 DEF IInv, PageInv, RepliesFine, Known
    <3>3. ui.finishing = None
      <4>1. SUFFICES ASSUME ui.finishing # None PROVE FALSE
        OBVIOUS
      <4>2. PICK i \in DOMAIN calls :
              calls[i].op = "finish" /\ \A j \in DOMAIN calls : j < i => calls[j].op # "start"
        BY <4>1 DEF IInv, PageInv, FinishFine
      <4>3. i \in Nat /\ i >= 1
        BY QueueTyped DEF IInv
      <4>4. i # 1
        BY <2>2, <4>2
      <4> QED
        BY <1>2, <2>2, <4>2, <4>3, <4>4
    <3> QED
      BY <3>1, <3>2, <3>3
  <2>3. CASE calls[1].reply.ok /\ calls[1].op = "cancel"
    <3>1. Shows("cancelled", calls[1].reply.session, new)
      BY <2>3 DEF CommandReturns
    <3>2. /\ Known(calls[1].reply.session) /\ calls[1].reply.session = calls[1].session
          /\ Over(calls[1].session)
      BY <1>2, <2>3 DEF IInv, PageInv, RepliesFine
    <3>3. ui.session \in {None, calls[1].session}
      BY <1>2, <2>3 DEF IInv, PageInv, OneCommand
    <3>4. ui.finishing # None => ui.session = ui.finishing
      BY DEF IInv, PageInv, FinishFine
    <3>5. calls[1].session \in Sessions /\ calls[1].session # None
      BY <3>2 DEF Known
    <3> QED
      BY <3>1, <3>2, <3>3, <3>4, <3>5
  <2> QED
    BY <1>2, <2>1, <2>2, <2>3
<1>5. new \in Uis /\ new.finishing = ui.finishing /\ new.poll = ui.poll
  BY PageIs DEF Uis
<1> HIDE DEF new
<1>6. /\ ui' \in Uis /\ ui'.state = state /\ ui'.session = s /\ ui'.finishing = ui.finishing
      /\ state = ui.state /\ s = ui.session => ui'.poll = ui.poll
      /\ ~(state = ui.state /\ s = ui.session) =>
           ui'.poll = IF s # None /\ state \in {"starting", "running"} THEN "timer" ELSE "off"
  BY <1>4, <1>5, ShowsFine DEF Busy
<1>7. RepliesFine'
  BY <1>1, <1>3, RepliesKept
<1>8. OneCommand'
  BY <1>2, <1>3, <1>4, <1>6, CommandKept
<1>9. CheckFine'
  <2>1. ui'.poll # "off" => ui'.state \in {"starting", "running"} /\ ui'.session # None
    BY <1>6, PageIs
  <2>2. ui'.poll = "asked" => ui.poll = "asked" /\ ui'.session = ui.session
    BY <1>6
  <2>3. calls[1].op # "poll"
    BY <1>2
  <2> QED
    BY <1>3, <2>1, <2>2, <2>3, CheckKept
<1>10. FinishFine'
  BY <1>2, <1>3, <1>4, <1>6, FinishKept
<1>11. PageFine'
  BY <1>1, <1>3, <1>4, <1>6, PageKept
<1> QED
  BY <1>1, <1>3, <1>6, <1>7, <1>8, <1>9, <1>10, <1>11, PageStepFine DEF PageInv, Queued

LEMMA FinishReturnsFine ==
  ASSUME IInv, FinishReturns
  PROVE  IInv'
<1>1. /\ UNCHANGED << backendVars, cliVars >> /\ calls' = Tail(calls) /\ Answered("finish")
  BY DEF FinishReturns
<1>2. /\ calls # << >> /\ 1 \in DOMAIN calls /\ calls[1].op = "finish" /\ calls[1].reply # None
      /\ Known(calls[1].session)
  BY <1>1, HeadIs DEF Ops, Answered
<1>3. Queued(1, {})
  BY <1>1, <1>2, PageIs, QueuedTail
<1>4. RepliesFine'
  BY <1>1, <1>3, RepliesKept
<1>5. CASE ui.finishing # calls[1].session
  <2>1. ui' = ui
    BY <1>5 DEF FinishReturns
  <2>2. OneCommand'
    BY <1>2, <1>3, <2>1, CommandKept
  <2>3. CheckFine'
    BY <1>2, <1>3, <2>1, PageIs, CheckKept
  <2>4. FinishFine'
    BY <1>3, <1>5, <2>1, FinishKept
  <2>5. PageFine'
    BY <1>1, <1>3, <2>1, PageIs, PageKept DEF IInv, PageInv, PageFine
  <2> QED
    BY <1>1, <1>3, <1>4, <2>1, <2>2, <2>3, <2>4, <2>5, PageIs, PageStepFine DEF PageInv, Queued
<1>6. CASE ui.finishing = calls[1].session
  <2> DEFINE new == [ui EXCEPT !.finishing = None]
             state == IF calls[1].reply.ok THEN "completed" ELSE "failed"
  <2>1. Shows(state, ui.session, new)
    BY <1>6 DEF FinishReturns
  <2>2. new \in Uis /\ new.finishing = None /\ new.pending = ui.pending /\ new.poll = ui.poll
    BY PageIs DEF Uis
  <2>3. state \in {"completed", "failed"} /\ (state = "completed" => calls[1].reply.ok)
    OBVIOUS
  <2> HIDE DEF new, state
  <2>4. /\ ui' \in Uis /\ ui'.state = state /\ ui'.session = ui.session /\ ui'.pending = ui.pending
        /\ ui'.finishing = None /\ ui'.poll = "off"
    <3>1. ui.session \in Sessions \cup {None}
      BY PageIs DEF Uis
    <3>2. /\ ui' \in Uis /\ ui'.state = state /\ ui'.session = ui.session /\ ui'.pending = ui.pending
          /\ ui'.finishing = None
          /\ state = ui.state => ui'.poll = ui.poll
          /\ state # ui.state => ui'.poll = "off"
      BY <2>1, <2>2, <2>3, <3>1, ShowsFine
    <3> QED
      BY <2>3, <3>2, PageIs
  <2>5. \* the answer is the one waited for, and the last
        ui.session = calls[1].session /\ \A j \in DOMAIN calls : j > 1 => calls[j].op # "finish"
    <3>1. ui.finishing # None
      BY <1>2, <1>6 DEF Known
    <3>2. PICK i \in DOMAIN calls :
            /\ calls[i].op = "finish" /\ ui.session = ui.finishing
            /\ \A j \in DOMAIN calls :
                 /\ j > i => calls[j].op # "finish"
                 /\ j < i => (calls[j].op = "finish" => calls[j].session # ui.finishing)
      BY <3>1 DEF IInv, PageInv, FinishFine
    <3>3. i \in Nat /\ i >= 1
      BY QueueTyped DEF IInv
    <3>4. i = 1
      BY <1>2, <1>6, <3>2, <3>3
    <3> QED
      BY <1>6, <3>2, <3>4
  <2>6. state = "completed" => service = calls[1].session
    BY <1>2, <2>3, <2>5 DEF IInv, PageInv, RepliesFine
  <2>7. OneCommand'
    BY <1>2, <1>3, <2>3, <2>4, CommandKept
  <2>8. CheckFine'
    BY <2>4 DEF CheckFine
  <2>9. FinishFine'
    BY <2>4 DEF FinishFine
  <2>10. PageFine'
    BY <1>1, <1>2, <1>3, <2>3, <2>4, <2>5, <2>6, PageIs, PageKept DEF Known
  <2> QED
    BY <1>1, <1>3, <1>4, <2>4, <2>7, <2>8, <2>9, <2>10, PageStepFine DEF PageInv, Queued
<1> QED
  BY <1>5, <1>6

\* A check that is still wanted is the only command of its kind, and no attempt
\* is being started or finished beside it.
LEMMA LivePoll ==
  ASSUME IInv, Answered("poll"), PollIsLive
  PROVE  /\ calls[1].session = ui.session /\ ui.session # None /\ ui.finishing = None
         /\ ui.state = "running"
         /\ \A j \in DOMAIN calls : calls[j].op \notin {"finish", "start"}
<1>1. DOMAIN calls = 1..Len(calls) /\ Len(calls) \in Nat
  BY QueueTyped DEF IInv
<1>2. 1 \in DOMAIN calls /\ calls[1].op = "poll" /\ ui.poll = "asked" /\ \A i \in 2..Len(calls) : calls[i].op # "poll"
  BY HeadIs DEF PollIsLive, Ops
<1>3. PICK p \in DOMAIN calls :
        /\ calls[p].op = "poll" /\ calls[p].session = ui.session
        /\ \A j \in DOMAIN calls : j > p => calls[j].op \notin {"poll", "finish", "start"}
  BY <1>2 DEF IInv, PageInv, CheckFine
<1>4. p = 1
  BY <1>1, <1>2, <1>3
<1>5. \A j \in DOMAIN calls : calls[j].op \notin {"finish", "start"}
  BY <1>1, <1>2, <1>3, <1>4
<1>6. ui.finishing = None
  BY <1>5 DEF IInv, PageInv, FinishFine
<1>7. ui.state # "starting"
  BY <1>5 DEF IInv, PageInv, OneCommand
<1> QED
  BY <1>2, <1>3, <1>4, <1>5, <1>6, <1>7, PageIs

\* What the page shows next, when it is still the attempt that was asked about.
LEMMA PollEndsFine ==
  ASSUME IInv, UNCHANGED << backendVars, cliVars >>, Answered("poll"), PollIsLive, calls' = Tail(calls),
         NEW state \in {"running", "failed", "cancelled"},
         state = "cancelled" => Over(ui.session),
         NEW new \in Uis, new.pending = ui.pending, new.finishing = ui.finishing,
         state = "running" => new.poll # "asked",
         Shows(state, ui.session, new)
  PROVE  IInv'
<1>1. /\ calls # << >> /\ 1 \in DOMAIN calls /\ calls[1].op = "poll"
      /\ ui.session # None /\ ui.finishing = None /\ ui.state = "running"
  BY HeadIs, LivePoll DEF Ops
<1>2. Queued(1, {})
  BY <1>1, PageIs, QueuedTail
<1>3. /\ ui' \in Uis /\ ui'.state = state /\ ui'.session = ui.session /\ ui'.pending = ui.pending
      /\ ui'.finishing = None
      /\ ui'.poll # "asked" /\ (ui'.poll # "off" => ui'.state = "running")
  <2>1. ui.session \in Sessions \cup {None}
    BY PageIs DEF Uis
  <2>2. /\ ui' \in Uis /\ ui'.state = state /\ ui'.session = ui.session /\ ui'.pending = ui.pending
        /\ ui'.finishing = None
        /\ state = "running" => ui'.poll = new.poll
        /\ state # "running" => ui'.poll = "off"
    BY <1>1, <2>1, ShowsFine DEF Busy
  <2> QED
    BY <2>2
<1>4. RepliesFine'
  BY <1>2, RepliesKept
<1>5. OneCommand'
  BY <1>2, <1>3, CommandKept
<1>6. CheckFine'
  BY <1>1, <1>3 DEF CheckFine
<1>7. FinishFine'
  BY <1>3 DEF FinishFine
<1>8. PageFine'
  BY <1>1, <1>2, <1>3, PageIs, PageKept
<1> QED
  BY <1>2, <1>3, <1>4, <1>5, <1>6, <1>7, <1>8, PageStepFine DEF PageInv, Queued

LEMMA PollReturnsFine ==
  ASSUME IInv, PollReturns
  PROVE  IInv'
<1> DEFINE s == calls[1].session
           reply == calls[1].reply
<1>1. UNCHANGED << backendVars, cliVars >> /\ Answered("poll")
  BY DEF PollReturns
<1>2. /\ calls # << >> /\ 1 \in DOMAIN calls /\ calls[1].op = "poll"
      /\ reply # None /\ reply \in Replies /\ Known(s)
  BY <1>1, HeadIs DEF Ops, Answered
<1>3. CASE ~PollIsLive
  <2>1. calls' = Tail(calls) /\ ui' = ui
    BY <1>3 DEF PollReturns
  <2>2. Queued(1, {})
    BY <1>2, <2>1, PageIs, QueuedTail
  <2>3. RepliesFine'
    BY <1>1, <2>2, RepliesKept
  <2>4. OneCommand'
    BY <1>2, <2>1, <2>2, CommandKept
  <2>5. CheckFine'
    <3>1. ui'.poll = "asked" => \E i \in 2..Len(calls) : calls[i].op = "poll"
      BY <1>3, <2>1 DEF PollIsLive
    <3> QED
      BY <2>1, <2>2, <3>1, PageIs, CheckKept
  <2>6. FinishFine'
    BY <1>2, <2>1, <2>2, FinishKept
  <2>7. PageFine'
    BY <1>1, <2>1, <2>2, PageIs, PageKept DEF IInv, PageInv, PageFine
  <2> QED
    BY <1>1, <2>1, <2>2, <2>3, <2>4, <2>5, <2>6, <2>7, PageIs, PageStepFine DEF PageInv, Queued
<1>4. ASSUME PollIsLive
      PROVE  /\ s = ui.session /\ ui.session \in Sessions /\ ui.finishing = None /\ ui.finishing # s
             /\ ui.state = "running" /\ ui \in Uis
             /\ \A j \in DOMAIN calls : calls[j].op \notin {"finish", "start"}
  BY <1>1, <1>2, <1>4, LivePoll, PageIs DEF Known
<1>5. CASE PollIsLive /\ ~reply.ok
  <2>1. calls' = Tail(calls) /\ Shows("failed", ui.session, ui)
    BY <1>5 DEF PollReturns
  <2> QED
    BY <1>1, <1>4, <1>5, <2>1, PollEndsFine
<1>6. CASE PollIsLive /\ reply.ok /\ reply.state \in Ongoing
  <2> DEFINE new == [ui EXCEPT !.poll = "timer"]
  <2>1. calls' = Tail(calls) /\ Shows("running", ui.session, new)
    BY <1>4, <1>6 DEF PollReturns, Ongoing
  <2>2. new \in Uis /\ new.pending = ui.pending /\ new.finishing = ui.finishing /\ new.poll # "asked"
    BY PageIs DEF Uis
  <2> HIDE DEF new
  <2> QED
    BY <1>1, <1>6, <2>1, <2>2, PollEndsFine
<1>7. CASE PollIsLive /\ reply.ok /\ reply.state \notin Ongoing \cup {"completed"}
  <2>1. calls' = Tail(calls) /\ Shows(reply.state, ui.session, ui)
    BY <1>4, <1>7 DEF PollReturns
  <2>2. reply.state \in {"failed", "cancelled"} /\ session[s] = reply.state
    BY <1>2, <1>7 DEF IInv, PageInv, RepliesFine, Replies
  <2> QED
    BY <1>1, <1>4, <1>7, <2>1, <2>2, PollEndsFine DEF Over
<1>8. CASE PollIsLive /\ reply.ok /\ reply.state = "completed"
  <2> DEFINE more == {NewCall("finish", s)}
             new == [ui EXCEPT !.finishing = s]
  <2>1. calls' = Tail(Issue("finish", s)) /\ Shows("finishing", s, new)
    BY <1>4, <1>8 DEF PollReturns
  <2>2. Queued(1, more)
    BY <1>2, <1>4, <1>8, <2>1, PageIs, QueuedBoth DEF Ops
  <2>3. new \in Uis /\ new.pending = ui.pending /\ new.finishing = s
    BY <1>4, <1>8 DEF Uis
  <2>4. \A c \in more : c.reply = None /\ c.op = "finish" /\ c.session = s
    BY DEF NewCall
  <2>5. more # {}
    OBVIOUS
  <2> HIDE DEF more, new
  <2>6. /\ ui' \in Uis /\ ui'.state = "finishing" /\ ui'.session = s /\ ui'.pending = ui.pending
        /\ ui'.finishing = s /\ ui'.poll = "off"
    BY <1>4, <1>8, <2>1, <2>3, ShowsFine DEF Busy
  <2>7. RepliesFine'
    BY <1>1, <1>2, <2>2, <2>4, RepliesKept
  <2>8. OneCommand'
    BY <1>4, <1>8, <2>2, <2>4, <2>6, CommandKept DEF Commands
  <2>9. CheckFine'
    BY <2>6 DEF CheckFine
  <2>10. FinishFine'
    <3>1. /\ Len(calls') \in DOMAIN calls' /\ calls'[Len(calls')] \in more
          /\ DOMAIN calls' = 1..Len(calls') /\ Len(calls') \in Nat
      BY <2>2, <2>5 DEF Queued
    <3>2. ASSUME NEW j \in DOMAIN calls', j < Len(calls')
          PROVE  calls'[j].op \notin {"finish", "start"}
      <4>1. j + 1 \in DOMAIN calls /\ calls'[j] = calls[j + 1]
        BY <2>2, <3>1, <3>2 DEF Queued
      <4> QED
        BY <1>4, <1>8, <4>1
    <3>3. calls'[Len(calls')].op = "finish" /\ calls'[Len(calls')].session = ui'.finishing
      BY <2>4, <2>6, <3>1
    <3>4. \A j \in DOMAIN calls' :
            /\ ~(j > Len(calls'))
            /\ j < Len(calls') => calls'[j].op \notin {"finish", "start"}
      BY <3>1, <3>2
    <3> QED
      BY <2>6, <3>1, <3>3, <3>4 DEF FinishFine
  <2>11. PageFine'
    BY <1>1, <1>2, <2>2, <2>6, PageKept
  <2> QED
    BY <1>1, <2>2, <2>6, <2>7, <2>8, <2>9, <2>10, <2>11, PageStepFine DEF PageInv, Queued
<1> QED
  BY <1>3, <1>5, <1>6, <1>7, <1>8

-----------------------------------------------------------------------------
(* Theorems                                                                *)

LEMMA InitFine == Init => IInv
<1> SUFFICES ASSUME Init PROVE IInv
  OBVIOUS
<1>1. /\ session = [s \in Sessions |-> "unused"] /\ late = {}
      /\ cli = [s \in Sessions |-> Process("unborn")]
      /\ status = [s \in Sessions |-> "absent"]
      /\ template = [s \in Sessions |-> [file |-> "absent", selected |-> NoPose]]
      /\ service = None /\ calls = << >>
      /\ ui = [state |-> "idle", session |-> None, pending |-> FALSE, finishing |-> None, poll |-> "off"]
  BY DEF Init
<1>2. Process("unborn") \in Processes /\ Process("unborn").phase = "unborn" /\ RecordingFine(Process("unborn"))
  BY ProcessTyped, ProcessFine DEF Phases, Recording, Ended
<1>3. TypeOK
  <2>1. cli \in [Sessions -> Processes]
    BY <1>1, <1>2
  <2>2. template \in [Sessions -> [file : {"absent", "torn", "whole"}, selected : [Poses -> 0..2]]]
    BY <1>1, NoPoseTyped
  <2> QED
    BY <1>1, <2>1, <2>2 DEF TypeOK, Processes, Phases, Busy
<1>4. \A s \in Sessions : cli[s] = Process("unborn") /\ session[s] = "unused" /\ cli[s].phase = "unborn"
  BY <1>1, <1>2
<1>5. BackendInv
  BY <1>1, <1>2, <1>4 DEF BackendInv, ProcessesFine, OneOngoing, ServiceFine, Alive, Ongoing
<1>6. DOMAIN calls = {}
  BY <1>1
<1>7. PageInv
  BY <1>1, <1>6 DEF PageInv, RepliesFine, OneCommand, CheckFine, FinishFine, PageFine
<1> QED
  BY <1>3, <1>5, <1>7 DEF IInv

LEMMA ProcessPageFine ==
  ASSUME IInv, BackendInv', UNCHANGED << session, service, calls, ui >>, TypeOK'
  PROVE  IInv'
  BY DEF IInv, PageInv, RepliesFine, OneCommand, CheckFine, FinishFine, PageFine, Known, Over

LEMMA NextFine == IInv /\ [Next]_vars => IInv'
<1> SUFFICES ASSUME IInv, [Next]_vars PROVE IInv'
  OBVIOUS
<1>1. ASSUME NEW s \in Sessions, CliStep(s) PROVE IInv'
  <2>1. /\ BackendInv' /\ cli' \in [Sessions -> Processes]
        /\ status' \in [Sessions -> {"absent", "starting", "working", "failed"}]
        /\ template' \in [Sessions -> [file : {"absent", "torn", "whole"}, selected : [Poses -> 0..2]]]
        /\ UNCHANGED << backendVars, calls, ui >>
    BY <1>1, CliStepFine DEF IInv
  <2>2. TypeOK'
    BY <2>1 DEF IInv, TypeOK, Processes, Phases, backendVars
  <2> QED
    BY <2>1, <2>2, ProcessPageFine DEF backendVars
<1>2. ASSUME NEW s \in Sessions, TimePasses(s) PROVE IInv'
  <2>1. late' = late \cup {s} /\ UNCHANGED << session, service, cliVars, calls, ui >>
    BY <1>2 DEF TimePasses
  <2>2. TypeOK'
    BY <2>1 DEF IInv, TypeOK, cliVars
  <2>3. BackendInv'
    BY <2>1 DEF IInv, BackendInv, ProcessesFine, OneOngoing, ServiceFine, Alive, cliVars
  <2> QED
    BY <2>1, <2>2, <2>3, ProcessPageFine
<1>3. CASE UNCHANGED vars
  <2>1. TypeOK' /\ BackendInv'
    BY <1>3 DEF IInv, TypeOK, BackendInv, ProcessesFine, OneOngoing, ServiceFine, Alive,
                vars, backendVars, cliVars
  <2> QED
    BY <1>3, <2>1, ProcessPageFine DEF vars, backendVars
<1>4. CASE ReplyArrives
  BY <1>4, CommandReturnsFine, SwitchReturnsFine, LeaveReturnsFine, PollReturnsFine, FinishReturnsFine
  DEF ReplyArrives
<1>5. CASE UserStarts \/ UserCancels \/ UserLeaves \/ Resets("failed") \/ Resets("completed") \/ PollTimer
  BY <1>5, UserStartsFine, UserCancelsFine, LeavesFine, PollTimerFine
<1>6. CASE BackendStep
  BY <1>6, BackendStepFine
<1> QED
  BY <1>1, <1>2, <1>3, <1>4, <1>5, <1>6 DEF Next

\* The invariant above holds in every state the program can reach.
THEOREM InvariantHolds == Spec => []IInv
<1> QED
  BY InitFine, NextFine, PTL DEF Spec

\* Every value is of its type: no recording reads more frames, or takes more
\* samples, than it may.
THEOREM TypeCorrect == Spec => []TypeOK
<1>1. IInv => TypeOK
  BY DEF IInv
<1> QED
  BY <1>1, InvariantHolds, PTL

\* start_face_enrollment begins a recording only when no other process is left,
\* although refreshes, kills and answers fail: two never use the camera at once.
THEOREM OneRecordingAlways == Spec => []OneRecording
<1>1. IInv => OneRecording
  BY DEF IInv, BackendInv, ProcessesFine, OneOngoing, OneRecording
<1> QED
  BY <1>1, InvariantHolds, PTL

\* finish_face_enrollment gives the service the templates of a recording that
\* was finished, with every pose that is required, and never others.
THEOREM OnlyFinishedAlways == Spec => []OnlyFinishedTemplates
<1>1. ASSUME IInv PROVE OnlyFinishedTemplates
  <2>1. service # None => service \in Sessions /\ session[service] = "completed"
    BY <1>1 DEF IInv, TypeOK, BackendInv, ServiceFine
  <2>2. service # None =>
          /\ cli[service].phase = "done" /\ template[service].file = "whole"
          /\ Complete(template[service].selected)
    BY <1>1, <2>1 DEF IInv, BackendInv, ProcessesFine
  <2> QED
    BY <2>2 DEF OnlyFinishedTemplates, Complete, Required
<1> QED
  BY <1>1, InvariantHolds, PTL

\* What the page says of an attempt is true whatever the order in which it
\* hears of this one and the ones before.
THEOREM PageAlwaysTellsTruth == Spec => []PageTellsTruth
<1>1. ASSUME IInv PROVE PageTellsTruth
  <2>1. ASSUME ui.state = "cancelled" PROVE ui.session # None /\ ~Alive(ui.session)
    <3>1. ui.session # None /\ ui.session \in Sessions /\ session[ui.session] \notin Ongoing
      BY <1>1, <2>1, PageIs DEF Over, Ongoing
    <3> QED
      BY <1>1, <3>1 DEF IInv, BackendInv, ProcessesFine
  <2>2. ui.state = "completed" => ui.session # None /\ service = ui.session
    BY <1>1 DEF IInv, PageInv, PageFine
  <2> QED
    BY <2>1, <2>2 DEF PageTellsTruth, CancelledIsDead, SuccessIsApplied
<1> QED
  BY <1>1, InvariantHolds, PTL

=============================================================================

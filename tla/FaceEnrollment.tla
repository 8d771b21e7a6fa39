--------------------------- MODULE FaceEnrollment ---------------------------
(***************************************************************************)
(* Face enrolment: the control panel's page, its back end with one session *)
(* per attempt, the diagnostics_cli process that records the face, and the *)
(* template the service is told to use in the end.                         *)
(*                                                                         *)
(* The page talks to the back end through commands the main thread of the  *)
(* application runs one at a time, in the order of their issue; the user   *)
(* goes on clicking, and leaving, while replies are on their way. A frame  *)
(* is one that fits the pose asked for or one that does not; images,       *)
(* prompts and scores are left out.                                        *)
(***************************************************************************)
EXTENDS Naturals, FiniteSets, Sequences

CONSTANTS
  MaxSessions,         \* bound: attempts
  MaxCalls,            \* bound: unanswered commands at which the user stops clicking
  Steps,               \* the poses asked for, in order: 1 .. Steps
  OptionalSteps,       \* those that may be skipped (pitch)
  PoseReady,           \* --pose-ready-consecutive: frames for which a pose is held
  Samples,             \* --accepted-frames-per-step: frames taken of it
  MaxFrames,           \* --max-wait-frames-per-step and --max-frames-per-step
  None

Sessions == 1..MaxSessions

ASSUME BoundsAssumption ==
  /\ MaxSessions \in Nat /\ MaxCalls \in Nat
  /\ Steps \in Nat \ {0} /\ OptionalSteps \subseteq 1..Steps
  /\ PoseReady \in Nat \ {0} /\ Samples \in Nat \ {0} /\ MaxFrames \in Nat \ {0}
  /\ None \notin Sessions

VARIABLES
  session,     \* sessions: session_state per id, "unused" before its start
  late,        \* sessions older than FACE_ENROLLMENT_STARTUP_TIMEOUT, until the next begins
  cli,         \* the enrolment processes: phase, step, frames tried and fit in
               \* this phase of it, and samples taken of each pose
  status,      \* enrollment_status.json, as its reader sorts it
  template,    \* selected_templates.json, with its templates of each pose
  service,     \* the session whose template the service uses
  calls,       \* commands under way, each with its reply once there is one
  ui           \* useFaceEnrollment: the page

cliVars == << cli, status, template >>
backendVars == << session, late, service >>
vars == << backendVars, cliVars, calls, ui >>

Ongoing == {"running", "starting", "working"}
Recording == {"pose", "capture"}
Ended == {"done", "failed", "killed"}
Alive(s) == cli[s].phase \notin Ended \cup {"unborn"}
Busy == {"starting", "running", "finishing"}

Poses == 1..Steps

\* Templates kept of a pose: one of a pitch, two of any other.
TargetCount(n) == IF n \in OptionalSteps THEN 1 ELSE 2

NoPose == [n \in Poses |-> 0]

\* A process that has taken no frame, or is gone with those it took.
Process(phase) == [phase |-> phase, step |-> 0, tried |-> 0, fit |-> 0, samples |-> NoPose]

Replies == [ok : BOOLEAN, session : Sessions \cup {None}, state : Ongoing \cup {"completed", "failed", "cancelled", "none"}]
Calls == [op : {"start", "poll", "cancel", "switch", "leave", "finish"},
          session : Sessions \cup {None}, reply : Replies \cup {None}]

TypeOK ==
  /\ session \in [Sessions -> Ongoing \cup {"unused", "completed", "failed", "cancelled"}]
  /\ late \subseteq Sessions
  /\ cli \in [Sessions -> [phase : Recording \cup Ended \cup
                             {"unborn", "spawned", "opening", "finishing", "writing", "reporting"},
                           step : 0..Steps, tried : 0..MaxFrames, fit : 0..MaxFrames,
                           samples : [Poses -> 0..Samples]]]
  /\ status \in [Sessions -> {"absent", "starting", "working", "failed"}]
  /\ template \in [Sessions -> [file : {"absent", "torn", "whole"}, selected : [Poses -> 0..2]]]
  /\ service \in Sessions \cup {None}
  /\ calls \in Seq(Calls)
  /\ ui \in [state : Busy \cup {"idle", "completed", "failed", "cancelled"},
             session : Sessions \cup {None}, pending : BOOLEAN,
             finishing : Sessions \cup {None}, poll : {"off", "timer", "asked"}]

Init ==
  /\ session = [s \in Sessions |-> "unused"] /\ late = {}
  /\ cli = [s \in Sessions |-> Process("unborn")]
  /\ status = [s \in Sessions |-> "absent"]
  /\ template = [s \in Sessions |-> [file |-> "absent", selected |-> NoPose]]
  /\ service = None
  /\ calls = << >>
  /\ ui = [state |-> "idle", session |-> None, pending |-> FALSE, finishing |-> None, poll |-> "off"]

-----------------------------------------------------------------------------
(* diagnostics_cli guided-enroll                                           *)

\* run_guided_enroll: the first status comes before the camera is touched.
CliStarts(s) ==
  /\ cli[s].phase = "spawned"
  /\ cli' = [cli EXCEPT ![s].phase = "opening"]
  /\ status' = [status EXCEPT ![s] = "starting"]
  /\ UNCHANGED << template, backendVars, calls, ui >>

\* The next pose, or the templates when there is none left.
AsksFor(n, samples) ==
  IF n \in Poses THEN [Process("pose") EXCEPT !.step = n, !.samples = samples]
                 ELSE [Process("finishing") EXCEPT !.samples = samples]

\* Camera and models are there. A driver may keep this from ever happening.
CliOpens(s) ==
  /\ cli[s].phase = "opening"
  /\ cli' = [cli EXCEPT ![s] = AsksFor(1, NoPose)]
  /\ status' = [status EXCEPT ![s] = "working"]
  /\ UNCHANGED << template, backendVars, calls, ui >>

\* Mutant: any pose may be left out.
RunsOut_AnyPose(c) == AsksFor(c.step + 1, c.samples)

\* The frames of a pose have run out: one that is optional is left as it is.
RunsOut(c) ==
  IF c.step \in OptionalSteps THEN AsksFor(c.step + 1, c.samples) ELSE Process("failed")

\* Mutant: the pose is waited for as long as it takes to be held.
Awaits_HeldPose(c, fits) ==
  IF ~fits THEN [c EXCEPT !.fit = 0, !.tried = 0]
  ELSE IF c.fit + 1 = PoseReady THEN [c EXCEPT !.phase = "capture", !.tried = 0, !.fit = 0]
  ELSE IF c.tried + 1 < MaxFrames THEN [c EXCEPT !.fit = @ + 1, !.tried = @ + 1]
  ELSE RunsOut(c)

\* One frame while the pose is awaited: it has to be held without a break.
Awaits(c, fits) ==
  LET held == IF fits THEN c.fit + 1 ELSE 0 IN
  IF held = PoseReady THEN [c EXCEPT !.phase = "capture", !.tried = 0, !.fit = 0]
  ELSE IF c.tried + 1 < MaxFrames THEN [c EXCEPT !.fit = held, !.tried = @ + 1]
  ELSE RunsOut(c)

\* One frame of the pose being recorded: a sample if observe_frame accepts it.
Records(c, fits) ==
  LET n == IF fits THEN c.fit + 1 ELSE c.fit
      taken == [c.samples EXCEPT ![c.step] = n]
  IN
  IF n = Samples THEN AsksFor(c.step + 1, taken)
  ELSE IF c.tried + 1 < MaxFrames THEN [c EXCEPT !.fit = n, !.tried = @ + 1, !.samples = taken]
  ELSE RunsOut([c EXCEPT !.samples = taken])

\* A frame shows the pose asked for, shows it in bad light or out of focus, shows
\* it of another person than the first sample does, or is of no use.
Frames == {"good", "dim", "stranger", "unfit"}

\* observe_frame: the samples of the first pose are not compared with each other.
Accepts(c, frame) == frame = "good" \/ (frame = "stranger" /\ c.step = 1)

\* preview_frame_for_step and the gate behind it, which light does not matter to.
Previews(c, frame) == frame = "dim" \/ Accepts(c, frame)

CliReadsFrame(s) ==
  /\ cli[s].phase \in Recording
  /\ \E frame \in Frames :
       LET c == cli[s]
           next == IF c.phase = "pose" THEN Awaits(c, Previews(c, frame)) ELSE Records(c, Accepts(c, frame))
       IN /\ cli' = [cli EXCEPT ![s] = next]
          /\ status' = [status EXCEPT ![s] = IF next.phase = "failed" THEN "failed" ELSE @]
  /\ UNCHANGED << template, backendVars, calls, ui >>

\* finish: the best sample of a pose is kept, others unless they are too like
\* one that is, up to the number wanted.
Selected(samples) ==
  {kept \in [Poses -> 0..2] :
     \A n \in Poses : /\ kept[n] <= TargetCount(n) /\ kept[n] <= samples[n]
                      /\ samples[n] > 0 => kept[n] > 0}

\* The templates are written over what was there, then the report; then it exits.
CliSaves(s) ==
  \/ /\ cli[s].phase = "finishing"
     /\ cli' = [cli EXCEPT ![s].phase = "writing"]
     /\ template' = [template EXCEPT ![s].file = "torn"]
     /\ UNCHANGED << status, backendVars, calls, ui >>
  \/ /\ cli[s].phase = "writing"
     /\ cli' = [cli EXCEPT ![s] = Process("reporting")]
     /\ \E kept \in Selected(cli[s].samples) :
          template' = [template EXCEPT ![s] = [file |-> "whole", selected |-> kept]]
     /\ UNCHANGED << status, backendVars, calls, ui >>
  \/ /\ cli[s].phase = "reporting"
     /\ cli' = [cli EXCEPT ![s].phase = "done"]
     /\ UNCHANGED << status, template, backendVars, calls, ui >>

\* No camera, no model, a frame not read, a file not written.
CliFails(s) ==
  /\ Alive(s)
  /\ cli' = [cli EXCEPT ![s] = Process("failed")]
  /\ \E told \in {"starting", "failed"} :
       status' = [status EXCEPT ![s] = IF @ = "starting" THEN told ELSE @]
  /\ UNCHANGED << template, backendVars, calls, ui >>

CliStep(s) ==
  CliStarts(s) \/ CliOpens(s) \/ CliReadsFrame(s) \/ CliSaves(s) \/ CliFails(s)

\* Only the age of a session that is not over is ever asked for.
TimePasses(s) ==
  /\ session[s] \in Ongoing /\ s \notin late
  /\ late' = late \cup {s}
  /\ UNCHANGED << session, service, cliVars, calls, ui >>

-----------------------------------------------------------------------------
(* CommandFaceEnrollmentRuntime                                            *)

\* The state the file tells; a half-written file tells nothing.
Told(s) ==
  LET read == {status[s]} \cup (IF cli[s].phase \in Recording \cup {"finishing"} THEN {"torn"} ELSE {})
  IN {IF seen \in {"starting", "working"} THEN seen ELSE session[s] : seen \in read}

Result(state, phase, ok) == [state |-> state, phase |-> phase, ok |-> ok]

\* After the process: its exit code, then its template, which may be unreadable
\* or without samples (read_enrollment_template_summary).
AtExit(s) ==
  IF cli[s].phase # "done" THEN {Result("failed", cli[s].phase, TRUE)}
  ELSE {Result("failed", cli[s].phase, FALSE)} \cup
       (IF template[s].file = "whole" THEN {Result("completed", cli[s].phase, TRUE)} ELSE {})

\* refresh_command_face_enrollment_session: what may come of it. Queries of the
\* process and kills may fail.
Refreshed(s) ==
  LET phase == cli[s].phase
      seen(told) ==
        IF told = "starting" /\ s \in late
        THEN {Result("failed", IF Alive(s) THEN "killed" ELSE phase, TRUE)}
        ELSE IF Alive(s) THEN {Result(told, phase, TRUE)} ELSE AtExit(s)
  IN IF session[s] \notin Ongoing THEN {Result(session[s], phase, TRUE)}
     ELSE UNION { {Result(told, phase, FALSE)} \cup seen(told) : told \in Told(s) }

\* What is left of a process in that phase.
Left(s, phase) == IF phase = "killed" THEN Process("killed") ELSE [cli[s] EXCEPT !.phase = phase]

Sets(s, r) ==
  /\ session' = [session EXCEPT ![s] = r.state]
  /\ cli' = [cli EXCEPT ![s] = Left(s, r.phase)]

\* The first command that has no reply yet: the main thread is at it.
Current == {i \in DOMAIN calls : calls[i].reply = None /\ \A j \in 1..(i - 1) : calls[j].reply # None}

Handles(op) == \E i \in Current : calls[i].op \in op

Call == calls[CHOOSE i \in Current : TRUE]

Answers(ok, s, state) ==
  \E i \in Current :
    calls' = [calls EXCEPT ![i].reply = [ok |-> ok, session |-> s, state |-> state]]

Refuses == Answers(FALSE, None, "none")

\* start_face_enrollment: refresh every session, refuse beside a running one.
\* Sessions that are over do not change, so one at most is refreshed.
BackendStarts ==
  /\ Handles({"start"})
  /\ \E r \in [Sessions -> UNION {Refreshed(s) : s \in Sessions}] :
       /\ \A s \in Sessions : r[s] \in Refreshed(s)
       /\ \/ /\ session' = [s \in Sessions |-> r[s].state]
             /\ cli' = [s \in Sessions |-> Left(s, r[s].phase)]
             /\ Refuses
             /\ UNCHANGED late
          \/ \E new \in Sessions :
             /\ session[new] = "unused" /\ \A s \in 1..(new - 1) : session[s] # "unused"
             /\ \A s \in Sessions : r[s].ok /\ r[s].state \notin Ongoing
             /\ late' = {}
             /\ session' = [s \in Sessions |-> IF s = new THEN "running" ELSE r[s].state]
             /\ cli' = [s \in Sessions |-> Left(s, IF s = new THEN "spawned" ELSE r[s].phase)]
             /\ Answers(TRUE, new, "running")
  /\ UNCHANGED << status, template, service, ui >>

\* get_face_enrollment_status
BackendTells ==
  /\ Handles({"poll"})
  /\ \E r \in Refreshed(Call.session) :
       /\ Sets(Call.session, r)
       /\ IF r.ok THEN Answers(TRUE, Call.session, r.state) ELSE Refuses
  /\ UNCHANGED << late, status, template, service, ui >>

\* Mutant: the session is given up before the process is killed.
BackendCancels_First ==
  /\ Handles({"cancel", "switch", "leave"})
  /\ \E r \in Refreshed(Call.session) :
       IF r.ok /\ r.state \in Ongoing
       THEN \/ Sets(Call.session, Result("cancelled", "killed", TRUE)) /\ Answers(TRUE, Call.session, "cancelled")
            \/ Sets(Call.session, Result("cancelled", r.phase, TRUE)) /\ Refuses
       ELSE /\ Sets(Call.session, r)
            /\ IF r.ok THEN Answers(TRUE, Call.session, r.state) ELSE Refuses
  /\ UNCHANGED << late, status, template, service, ui >>

\* cancel_face_enrollment: a session that is over answers with its state.
BackendCancels ==
  /\ Handles({"cancel", "switch", "leave"})
  /\ \E r \in Refreshed(Call.session) :
       IF r.ok /\ r.state \in Ongoing
       THEN \/ Sets(Call.session, Result("cancelled", "killed", TRUE)) /\ Answers(TRUE, Call.session, "cancelled")
            \/ Sets(Call.session, r) /\ Refuses
       ELSE /\ Sets(Call.session, r)
            /\ IF r.ok THEN Answers(TRUE, Call.session, r.state) ELSE Refuses
  /\ UNCHANGED << late, status, template, service, ui >>

\* finish_face_enrollment: only a completed session is applied. The service may
\* refuse, or comply and its reply be lost.
BackendFinishes ==
  /\ Handles({"finish"})
  /\ \E r \in Refreshed(Call.session) :
       /\ Sets(Call.session, r)
       /\ IF r.ok /\ r.state = "completed"
          THEN \/ service' = Call.session /\ Answers(TRUE, Call.session, "completed")
               \/ service' = Call.session /\ Refuses
               \/ Refuses /\ UNCHANGED service
          ELSE Refuses /\ UNCHANGED service
  /\ UNCHANGED << late, status, template, ui >>

BackendStep == BackendStarts \/ BackendTells \/ BackendCancels \/ BackendFinishes

-----------------------------------------------------------------------------
(* The page                                                                *)

\* Rendering with another state or session starts the polling effect anew.
Shows(state, s, new) ==
  ui' = [new EXCEPT
    !.state = state, !.session = s,
    !.poll = IF state = ui.state /\ s = ui.session THEN @
             ELSE IF s # None /\ state \in {"starting", "running"} THEN "timer" ELSE "off"]

Issue(op, s) == Append(calls, [op |-> op, session |-> s, reply |-> None])

Clicks == Len(calls) < MaxCalls
SessionsLeft == \E s \in Sessions : session[s] = "unused"

UserStarts ==
  /\ Clicks /\ ui.state \in {"idle", "cancelled"} /\ ~ui.pending
  /\ SessionsLeft
  /\ Shows("starting", ui.session, [ui EXCEPT !.pending = TRUE])
  /\ calls' = Issue("start", None)
  /\ UNCHANGED << backendVars, cliVars >>

\* cancelEnrollment and, with another camera, switchCamera
UserCancels ==
  /\ Clicks /\ ui.state \in Busy /\ ~ui.pending /\ ui.session # None
  /\ \/ calls' = Issue("cancel", ui.session)
     \/ SessionsLeft /\ calls' = Issue("switch", ui.session)
  /\ ui' = [ui EXCEPT !.pending = TRUE]
  /\ UNCHANGED << backendVars, cliVars >>

\* Mutant: what is being finished is not forgotten.
UserLeaves_StillFinishing ==
  /\ Clicks /\ ui.state \in Busy
  /\ Shows("idle", None, ui)
  /\ calls' = IF ui.session # None THEN Issue("leave", ui.session) ELSE calls
  /\ UNCHANGED << backendVars, cliVars >>

\* Another tab: cancelAndResetEnrollment, whatever is pending.
UserLeaves ==
  /\ Clicks /\ ui.state \in Busy
  /\ Shows("idle", None, [ui EXCEPT !.finishing = None])
  /\ calls' = IF ui.session # None THEN Issue("leave", ui.session) ELSE calls
  /\ UNCHANGED << backendVars, cliVars >>

\* resetEnrollment: the user after a failure, a timer after a success.
Resets(state) ==
  /\ ui.state = state
  /\ Shows("idle", None, [ui EXCEPT !.finishing = None])
  /\ UNCHANGED << backendVars, cliVars, calls >>

PollTimer ==
  /\ ui.poll = "timer"
  /\ ui' = [ui EXCEPT !.poll = "asked"]
  /\ calls' = Issue("poll", ui.session)
  /\ UNCHANGED << backendVars, cliVars >>

Answered(op) == calls # << >> /\ calls[1].reply # None /\ calls[1].op = op

\* startEnrollment and cancelEnrollment hear back.
CommandReturns ==
  /\ Answered("start") \/ Answered("cancel")
  /\ LET reply == calls[1].reply IN
     IF reply.ok
     THEN Shows(IF calls[1].op = "start" THEN "running" ELSE "cancelled",
                reply.session, [ui EXCEPT !.pending = FALSE])
     ELSE Shows("failed", ui.session, [ui EXCEPT !.pending = FALSE])
  /\ calls' = Tail(calls)
  /\ UNCHANGED << backendVars, cliVars >>

\* switchCamera starts the next attempt whatever became of the last one.
SwitchReturns ==
  /\ Answered("switch")
  /\ Shows("starting", ui.session, ui)
  /\ calls' = Tail(Issue("start", None))
  /\ UNCHANGED << backendVars, cliVars >>

LeaveReturns ==
  /\ Answered("leave")
  /\ calls' = Tail(calls)
  /\ UNCHANGED << backendVars, cliVars, ui >>

\* The effect that asked is still in place: nothing has been rendered since.
PollIsLive == ui.poll = "asked" /\ \A i \in 2..Len(calls) : calls[i].op # "poll"

\* Mutant: the next check is not scheduled.
PollReturns_Once ==
  /\ Answered("poll")
  /\ LET reply == calls[1].reply
         s == calls[1].session
     IN
     \/ ~PollIsLive /\ calls' = Tail(calls) /\ UNCHANGED ui
     \/ PollIsLive /\ ~reply.ok /\ calls' = Tail(calls) /\ Shows("failed", ui.session, ui)
     \/ /\ PollIsLive /\ reply.ok
        /\ IF reply.state = "completed"
           THEN Shows("finishing", s, [ui EXCEPT !.finishing = s]) /\ calls' = Tail(Issue("finish", s))
           ELSE /\ calls' = Tail(calls)
                /\ IF reply.state \in Ongoing THEN Shows("running", s, [ui EXCEPT !.poll = "off"])
                                              ELSE Shows(reply.state, s, ui)
  /\ UNCHANGED << backendVars, cliVars >>

\* checkEnrollmentStatus hears back: on to the end, or to the next check.
PollReturns ==
  /\ Answered("poll")
  /\ LET reply == calls[1].reply
         s == calls[1].session
     IN
     \/ ~PollIsLive /\ calls' = Tail(calls) /\ UNCHANGED ui
     \/ PollIsLive /\ ~reply.ok /\ calls' = Tail(calls) /\ Shows("failed", ui.session, ui)
     \/ /\ PollIsLive /\ reply.ok
        /\ IF reply.state = "completed" /\ ui.finishing # s
           THEN Shows("finishing", s, [ui EXCEPT !.finishing = s]) /\ calls' = Tail(Issue("finish", s))
           ELSE /\ calls' = Tail(calls)
                /\ IF reply.state \in Ongoing \cup {"completed"}
                   THEN Shows(IF reply.state = "completed" THEN ui.state ELSE "running",
                              s, [ui EXCEPT !.poll = "timer"])
                   ELSE Shows(reply.state, s, ui)
  /\ UNCHANGED << backendVars, cliVars >>

\* finishCompletedEnrollment hears back, unless it was forgotten meanwhile.
FinishReturns ==
  /\ Answered("finish")
  /\ calls' = Tail(calls)
  /\ IF ui.finishing # calls[1].session THEN UNCHANGED ui
     ELSE Shows(IF calls[1].reply.ok THEN "completed" ELSE "failed",
                ui.session, [ui EXCEPT !.finishing = None])
  /\ UNCHANGED << backendVars, cliVars >>

ReplyArrives ==
  CommandReturns \/ SwitchReturns \/ LeaveReturns \/ PollReturns \/ FinishReturns

-----------------------------------------------------------------------------

Next ==
  \/ \E s \in Sessions : CliStep(s) \/ TimePasses(s)
  \/ BackendStep \/ ReplyArrives \/ PollTimer
  \/ UserStarts \/ UserCancels \/ UserLeaves
  \/ Resets("failed") \/ Resets("completed")

Spec == Init /\ [][Next]_vars

\* The application's own threads and timers run, a process that was spawned is
\* scheduled, and a read of a frame returns. The user and an opening camera owe
\* nothing. One process runs at most, so the fairness is stated of any.
FairSpec ==
  /\ Spec
  /\ WF_vars(BackendStep) /\ WF_vars(ReplyArrives) /\ WF_vars(PollTimer)
  /\ WF_vars(\E s \in Sessions : TimePasses(s))
  /\ WF_vars(\E s \in Sessions : CliStarts(s) \/ CliReadsFrame(s))

-----------------------------------------------------------------------------
(* Properties                                                              *)

(* Two enrolments never record at once, although kills fail, answers are late
   and an attempt may be left for another camera
   (FACE_RUNTIME_CONTROL_INTEGRATION_PLAN: "single-flight protection blocks a
   second running enrollment session"). *)
OneRecording == \A s, t \in Sessions : Alive(s) /\ Alive(t) => s = t

(* The service is never given the templates of an attempt that failed or was
   killed halfway, and those it is given hold every pose that is required and
   not too many of any, however often the user lost a pose while it was
   recorded. *)
OnlyFinishedTemplates ==
  service # None =>
    /\ cli[service].phase = "done" /\ template[service].file = "whole"
    /\ \A n \in Poses :
         /\ template[service].selected[n] <= TargetCount(n)
         /\ n \notin OptionalSteps => template[service].selected[n] > 0

\* "cancel_face_enrollment cancels the owned backend process"
CancelledIsDead == ui.state = "cancelled" => ui.session # None /\ ~Alive(ui.session)

SuccessIsApplied == ui.state = "completed" => ui.session # None /\ service = ui.session

(* What the page says of an attempt is true, with late replies of earlier
   attempts about: "cancelled" of one whose process is gone, "completed" of the
   one whose templates the service uses. *)
PageTellsTruth == CancelledIsDead /\ SuccessIsApplied

InRecording == \E s \in Sessions : cli[s].phase \in Recording

(* While the camera gives frames, a recording comes to an end without the user:
   no pose, held or lost however often, is waited for for ever. *)
RecordingEnds == InRecording ~> ~InRecording

Waits ==
  ui.state \in Busy /\ ui.session # None /\ cli[ui.session].phase \in Ended \cup {"opening"}

(* The page does not show an attempt as under way for ever after its process
   ended or while its camera does not start. *)
PageSettles == Waits ~> ~Waits
=============================================================================

--------------------------- MODULE IsolatedCamera ---------------------------
(***************************************************************************)
(* isolated_camera.rs and camera_worker.rs of video_provider.  The camera  *)
(* is driven by a worker process, so that a driver which hangs is got rid  *)
(* of with its process.  A user asks for one thing at a time, waits for    *)
(* the answer with a time-out, and severs the worker that did not answer.  *)
(***************************************************************************)
EXTENDS Naturals, Sequences, FiniteSets

CONSTANTS
  Users,      \* OpenCvCameraProvider values, each used by one thread
  Children,   \* worker processes
  Backends,   \* how many backends an open tries, one process each
  None

ASSUME CameraAssumption ==
  /\ None \notin Children
  /\ Backends \in Nat \ {0}

VARIABLES
  child,    \* process -> state, whether it has the device, its two pipes
  session   \* user -> OpenCvCameraProvider and where its thread is in it

cameraVars == << child, session >>

Operations == {"open", "read", "close"}
Answers == {"opened", "frame", "transient", "fatal", "closed", "broken"}

\* A request and its answer carry a number here that the pipes do not transmit.
Turns == {0, 1}

Child ==
  [ state    : {"gone", "alive", "ending", "killed"},
    device   : BOOLEAN,
    requests : Seq([op : Operations, turn : Turns]),
    answers  : Seq([what : Answers, turn : Turns]) ]

NoChild == [state |-> "gone", device |-> FALSE, requests |-> << >>, answers |-> << >>]

\* "got" hands the result of a read to the user.
Session ==
  [ pc      : {"off", "trying", "opening", "failed", "ready", "reading", "got",
               "shutting", "closing", "leaving"},
    child   : Children \cup {None},
    turn    : Turns,
    severed : BOOLEAN,                      \* requests is None
    tries   : 0 .. Backends,
    result  : {"none", "frame", "transient", "fatal"},
    after   : {"trying", "got", "off"} ]    \* where shutdown returns to

Off ==
  [ pc |-> "off", child |-> None, turn |-> 0, severed |-> FALSE, tries |-> 0,
    result |-> "none", after |-> "off" ]

CameraTypeOK ==
  /\ child \in [Children -> Child]
  /\ session \in [Users -> Session]

CameraInit ==
  /\ child = [c \in Children |-> NoChild]
  /\ session = [u \in Users |-> Off]

-----------------------------------------------------------------------------
(* The worker process                                                      *)

Serves(c, op) ==
  /\ child[c].state = "alive"
  /\ child[c].requests # << >>
  /\ Head(child[c].requests).op = op

\* The worker answers the request at the head of its pipe.
Replies(c, what, state, device) ==
  child' = [child EXCEPT ![c] =
    [ state |-> state, device |-> device, requests |-> Tail(@.requests),
      answers |-> Append(@.answers, [what |-> what, turn |-> Head(@.requests).turn]) ]]

\* A worker that cannot open its camera says so and ends.
WorkerOpens(c) ==
  /\ Serves(c, "open")
  /\ \/ Replies(c, "opened", "alive", TRUE)
     \/ Replies(c, "fatal", "ending", FALSE)
  /\ UNCHANGED session

WorkerReads(c) ==
  /\ Serves(c, "read")
  /\ \E what \in {"frame", "transient", "fatal"} : Replies(c, what, "alive", TRUE)
  /\ UNCHANGED session

\* The capture is released before the close is acknowledged.
WorkerCloses(c) ==
  /\ Serves(c, "close")
  /\ Replies(c, "closed", "ending", FALSE)
  /\ UNCHANGED session

\* It ends as it should; it crashes; or it had been killed, and the driver lets go of it at last.
WorkerExits(c) ==
  /\ child[c].state # "gone"
  /\ child' = [child EXCEPT ![c].state = "gone", ![c].device = FALSE]
  /\ UNCHANGED session

\* What the transport thread reads from the pipe of a process that ended.
PipeBreaks(c) ==
  /\ child[c].state = "gone"
  /\ child[c].requests # << >>
  /\ Replies(c, "broken", "gone", FALSE)
  /\ UNCHANGED session

WorkerStep(c) ==
  WorkerOpens(c) \/ WorkerReads(c) \/ WorkerCloses(c) \/ WorkerExits(c) \/ PipeBreaks(c)

-----------------------------------------------------------------------------
(* WorkerSession: exchange, terminate                                      *)

Waiting(u) == session[u].pc \in {"opening", "reading", "closing"}
Attached(c) == \E u \in Users : session[u].child = c

\* exchange sends.
Asks(u, op, pc) ==
  LET c == session[u].child  t == 1 - session[u].turn IN
  /\ child' = [child EXCEPT ![c].requests = Append(@, [op |-> op, turn |-> t])]
  /\ session' = [session EXCEPT ![u].pc = pc, ![u].turn = t]

\* terminate: the pipes and channels are dropped with the process.
Killed(c) ==
  [child EXCEPT ![c] = IF @.state = "gone" THEN NoChild
                       ELSE [NoChild EXCEPT !.state = "killed", !.device = child[c].device]]

\* The session is dropped.
Detached(s) == [s EXCEPT !.pc = s.after, !.child = None, !.severed = FALSE]

\* An exchange without an answer severs the session; a read leaves a provider
\* without worker, an open goes on to the next backend.
AfterSevering(s) ==
  IF s.pc = "closing" THEN Detached(s)
  ELSE [s EXCEPT !.pc = "shutting", !.severed = TRUE,
                 !.after = IF s.pc = "opening" THEN "trying" ELSE "got",
                 !.result = IF s.pc = "reading" THEN "transient" ELSE @]

\* Mutant: the worker that did not answer in time stays in use.
TimesOut_Patient(u) ==
  /\ Waiting(u)
  /\ session' = [session EXCEPT ![u] =
       CASE @.pc = "reading" -> [@ EXCEPT !.pc = "got", !.result = "transient"]
         [] @.pc # "reading" -> AfterSevering(@)]
  /\ child' = IF session[u].pc = "reading" THEN child ELSE Killed(session[u].child)

\* Mutant: an open waits for its answer as long as it takes.
TimesOut_NotOpening(u) ==
  /\ Waiting(u) /\ session[u].pc # "opening"
  /\ child' = Killed(session[u].child)
  /\ session' = [session EXCEPT ![u] = AfterSevering(@)]

\* recv_timeout, whatever the worker is doing: it may just have answered.
TimesOut(u) ==
  /\ Waiting(u)
  /\ child' = Killed(session[u].child)
  /\ session' = [session EXCEPT ![u] = AfterSevering(@)]

\* What the worker says decides; a broken pipe is a failed exchange.
Hears(u) ==
  LET s == session[u]  c == s.child  what == Head(child[c].answers).what
      Rest == [child[c] EXCEPT !.answers = Tail(@)] IN
  /\ Waiting(u)
  /\ child[c].answers # << >>
  /\ IF what = "broken"
     THEN /\ child' = Killed(c)
          /\ session' = [session EXCEPT ![u] = AfterSevering(s)]
     ELSE /\ child' = [child EXCEPT ![c] = Rest]
          /\ session' = [session EXCEPT ![u] =
               CASE s.pc = "opening" /\ what = "opened" -> [s EXCEPT !.pc = "ready"]
                 [] s.pc = "opening" /\ what # "opened" -> [s EXCEPT !.pc = "shutting", !.after = "trying"]
                 [] s.pc = "reading" -> [s EXCEPT !.pc = "got", !.result =
                      IF what \in {"frame", "fatal"} THEN what ELSE "transient"]
                 [] s.pc = "closing" -> [s EXCEPT !.pc = "leaving"]]

-----------------------------------------------------------------------------
(* OpenCvCameraProvider: open, read_frame, close                           *)

\* open: one backend after another, each with a process of its own.
Spawns(u) ==
  /\ session[u].pc = "trying"
  /\ session[u].tries < Backends
  /\ \/ \E c \in Children :
          /\ child[c].state = "gone" /\ ~Attached(c)
          /\ child' = [child EXCEPT ![c] = [NoChild EXCEPT !.state = "alive",
                         !.requests = << [op |-> "open", turn |-> 0] >>]]
          /\ session' = [session EXCEPT ![u].pc = "opening", ![u].child = c, ![u].turn = 0,
                                        ![u].tries = @ + 1]
     \/ /\ session' = [session EXCEPT ![u].tries = @ + 1]
        /\ UNCHANGED child

OpenFails(u) ==
  /\ session[u].pc = "trying"
  /\ session[u].tries = Backends
  /\ session' = [session EXCEPT ![u].pc = "failed"]
  /\ UNCHANGED child

\* read_frame; a provider that lost its worker is not open any more.
ReadsFrame(u) ==
  /\ session[u].pc = "ready"
  /\ IF session[u].child = None
     THEN /\ session' = [session EXCEPT ![u].pc = "got", ![u].result = "fatal"]
          /\ UNCHANGED child
     ELSE Asks(u, "read", "reading")

\* Drop for WorkerSession: shutdown.
Shuts(u) ==
  LET s == session[u] IN
  /\ s.pc = "shutting"
  /\ IF child[s.child].state # "gone" /\ ~s.severed
     THEN Asks(u, "close", "closing")
     ELSE /\ child' = Killed(s.child)
          /\ session' = [session EXCEPT ![u] = Detached(s)]

\* A worker that acknowledged the close has a moment to end.
Leaves(u) ==
  /\ session[u].pc = "leaving"
  /\ child' = Killed(session[u].child)
  /\ session' = [session EXCEPT ![u] = Detached(@)]

ProviderStep(u) ==
  \/ TimesOut(u) \/ Hears(u) \/ Spawns(u) \/ OpenFails(u)
  \/ ReadsFrame(u) \/ Shuts(u) \/ Leaves(u)

\* What the user's thread does with the provider.
StartsOpening(s) == [s EXCEPT !.pc = "trying", !.tries = 0]
Continues(s) == [s EXCEPT !.pc = "ready", !.result = "none"]
CloseCalled(s) ==
  IF s.child = None THEN Off ELSE [s EXCEPT !.pc = "shutting", !.after = "off", !.result = "none"]
=============================================================================

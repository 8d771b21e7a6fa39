------------------------- MODULE CameraRound_proofs -------------------------
(***************************************************************************)
(* Proofs about CameraRound over IsolatedCamera, for any number of worker  *)
(* processes and backends and any limits of a round.                       *)
(***************************************************************************)
EXTENDS CameraRound, SequenceTheorems, TLAPS

USE CameraAssumption, RoundAssumption

-----------------------------------------------------------------------------
(* The inductive invariant: the provider and its worker                    *)

Waits(s) == s.pc \in {"opening", "reading", "closing"}

\* One exchange at a time: its request or its answer is in the pipes, and nothing else.
Silent(k) == k.requests = << >> /\ k.answers = << >>
Pending(k, turn) ==
  \/ /\ k.answers = << >>
     /\ \E op \in Operations : k.requests = << [op |-> op, turn |-> turn] >>
  \/ /\ k.requests = << >>
     /\ \E what \in Answers : k.answers = << [what |-> what, turn |-> turn] >>

Linked(s, k) == IF Waits(s) THEN Pending(k, s.turn) ELSE Silent(k)

\* Where a provider has a worker, and where it has a result.
SessionSane(s) ==
  /\ s.pc \in {"off", "trying", "failed"} => s.child = None
  /\ s.pc \in {"opening", "reading", "shutting", "closing", "leaving"} => s.child # None
  /\ s.pc = "got" => s.result # "none"
  /\ s.pc \in {"shutting", "closing", "leaving"} /\ s.after = "got" => s.result # "none"

\* A worker nobody has any more was killed, or is gone with its device.
Freed(k) == k.state \in {"gone", "killed"}
DeviceSane(k) == k.state = "gone" => ~k.device

CameraInv ==
  /\ CameraTypeOK
  /\ \A u \in Users :
       /\ SessionSane(session[u])
       /\ session[u].child # None => Linked(session[u], child[session[u].child])
       /\ session[u].pc # "off" => lease = u
  /\ \A u, v \in Users : session[u].child = session[v].child /\ session[u].child # None => u = v
  /\ \A c \in Children : DeviceSane(child[c]) /\ (~Attached(c) => Freed(child[c]))

-----------------------------------------------------------------------------
(* The inductive invariant: the rounds                                     *)

AuthSane(a) ==
  /\ a.pc = "idle" => a.frame = 0 /\ a.failures = 0 /\ a.evaluated = 0
  /\ a.pc \in {"opening", "looking"} => a.evaluated <= a.frame
  /\ a.pc \in {"opening", "looking", "capturing", "writing"} =>
       a.frame < MaxAuthFrames /\ a.failures < MaxFailures /\ a.evaluated <= a.frame + 1
  /\ a.pc # "closing" => a.outcome = "none"
  /\ a.spoofs <= a.evaluated
  /\ a.outcome = "accepted" => ~SpoofExceeded(a)

SampleSane(s) == s.pc \in {"opening", "looking"} => s.failures < MaxFailures

\* Who holds the lease is in a round, and the other is not.
Leased ==
  /\ auth.pc # "idle" <=> lease = Auth
  /\ sample.pc # "idle" <=> lease = Presence

\* A picture is written under the lock, and by nobody once permission is withdrawn and drained.
SnapshotSane ==
  /\ auth.pc = "writing" => snapshot.locked
  /\ snapshot.revocation # "none" => ~snapshot.enabled
  /\ NoCaptureAfterRevocation

RoundInv ==
  /\ lease \in Users \cup {None}
  /\ auth \in AuthState /\ AuthSane(auth)
  /\ sample \in SampleState /\ SampleSane(sample)
  /\ snapshot \in SnapshotState /\ SnapshotSane
  /\ Leased

\* A picture is taken between two frames.
Poised == auth.pc \in {"capturing", "writing"} => session[Auth].pc = "ready"

IInv == CameraInv /\ RoundInv /\ Poised

-----------------------------------------------------------------------------
(* Pipes with one message, and steps of one worker or one user             *)

LEMMA OneMessage ==
  ASSUME NEW S, NEW x \in S
  PROVE  /\ << x >> \in Seq(S) /\ << x >> # << >> /\ Append(<< >>, x) = << x >>
         /\ Head(<< x >>) = x /\ Tail(<< x >>) = << >>
         /\ DOMAIN << x >> = {1} /\ << x >>[1] = x
<1>1. << x >> \in Seq(S) /\ Len(<< x >>) = 1 /\ << x >>[1] = x
  OBVIOUS
<1>2. << x >> # << >> /\ Append(<< >>, x) = << x >> /\ Head(<< x >>) = x
  BY <1>1
<1>3. Tail(<< x >>) \in Seq(S) /\ Len(Tail(<< x >>)) = 0
  BY <1>1, <1>2, HeadTailProperties
<1>4. Tail(<< x >>) = << >>
  BY <1>3, EmptySeq
<1> QED
  BY <1>1, <1>2, <1>4

LEMMA NoChildTyped ==
  /\ NoChild \in Child /\ Silent(NoChild) /\ Freed(NoChild) /\ DeviceSane(NoChild)
<1>1. << >> \in Seq([op : Operations, turn : Turns]) /\ << >> \in Seq([what : Answers, turn : Turns])
  OBVIOUS
<1> QED
  BY <1>1 DEF NoChild, Child, Silent, Freed, DeviceSane

\* A worker's step; its user waits, or has what it had.
LEMMA WorkerKeeps ==
  ASSUME CameraInv, NEW c \in Children, NEW k \in Child,
         child' = [child EXCEPT ![c] = k], UNCHANGED << session, lease >>,
         DeviceSane(k),
         \A u \in Users : session[u].child = c => Linked(session[u], k),
         ~Attached(c) => Freed(k)
  PROVE  CameraInv'
<1>1. CameraTypeOK'
  BY DEF CameraInv, CameraTypeOK
<1>2. child'[c] = k /\ \A d \in Children : d # c => child'[d] = child[d]
  BY DEF CameraInv, CameraTypeOK
<1>3. \A u \in Users : session[u].child \in Children \cup {None}
  BY DEF CameraInv, CameraTypeOK, Session
<1>4. \A u \in Users : session'[u].child # None => Linked(session'[u], child'[session'[u].child])
  BY <1>2, <1>3 DEF CameraInv
<1>5. \A d \in Children : DeviceSane(child'[d]) /\ (~Attached(d)' => Freed(child'[d]))
  BY <1>2 DEF CameraInv, Attached
<1> QED
  BY <1>1, <1>4, <1>5 DEF CameraInv

\* A user's step that leaves the workers alone.
LEMMA UserKeeps ==
  ASSUME CameraInv, NEW u \in Users, NEW s \in Session,
         UNCHANGED child, session' = [session EXCEPT ![u] = s],
         SessionSane(s), s.child = session[u].child,
         s.child # None => Linked(s, child[s.child]),
         s.pc # "off" => lease' = u,
         \A v \in Users : v # u /\ session[v].pc # "off" => lease' = v
  PROVE  CameraInv'
<1>1. CameraTypeOK'
  BY DEF CameraInv, CameraTypeOK
<1>2. session'[u] = s /\ \A v \in Users : v # u => session'[v] = session[v]
  BY DEF CameraInv, CameraTypeOK
<1>3. \A v \in Users : session'[v].child = session[v].child
  BY <1>2
<1>4. \A v \in Users :
        /\ SessionSane(session'[v])
        /\ session'[v].child # None => Linked(session'[v], child'[session'[v].child])
        /\ session'[v].pc # "off" => lease' = v
  BY <1>2, <1>3 DEF CameraInv
<1>5. \A d \in Children : DeviceSane(child'[d]) /\ (~Attached(d)' => Freed(child'[d]))
  BY <1>3 DEF CameraInv, Attached
<1>6. \A v, w \in Users : session'[v].child = session'[w].child /\ session'[v].child # None => v = w
  BY <1>3 DEF CameraInv
<1> QED
  BY <1>1, <1>4, <1>5, <1>6 DEF CameraInv

\* A user's step that changes the worker it has, gets or leaves.
LEMMA BothKeep ==
  ASSUME CameraInv, NEW u \in Users, NEW c \in Children, NEW s \in Session, NEW k \in Child,
         child' = [child EXCEPT ![c] = k], session' = [session EXCEPT ![u] = s],
         UNCHANGED lease, session[u].pc # "off",
         session[u].child = c \/ (session[u].child = None /\ ~Attached(c)),
         s.child \in {c, None}, SessionSane(s), DeviceSane(k),
         s.child = c => Linked(s, k),
         s.child = None => Freed(k)
  PROVE  CameraInv'
<1>1. CameraTypeOK'
  BY DEF CameraInv, CameraTypeOK
<1>2. /\ session'[u] = s /\ \A v \in Users : v # u => session'[v] = session[v]
      /\ child'[c] = k /\ \A d \in Children : d # c => child'[d] = child[d]
  BY DEF CameraInv, CameraTypeOK
<1>3. \A v \in Users : v # u => session[v].child # c
  BY DEF CameraInv, Attached
<1>4. \A v \in Users : session[v].child \in Children \cup {None}
  BY DEF CameraInv, CameraTypeOK, Session
<1>5. \A v \in Users :
        /\ SessionSane(session'[v])
        /\ session'[v].child # None => Linked(session'[v], child'[session'[v].child])
        /\ session'[v].pc # "off" => lease' = v
  BY <1>2, <1>3, <1>4 DEF CameraInv
<1>6. \A v, w \in Users : session'[v].child = session'[w].child /\ session'[v].child # None => v = w
  BY <1>2, <1>3 DEF CameraInv
<1>7. ASSUME NEW d \in Children PROVE DeviceSane(child'[d]) /\ (~Attached(d)' => Freed(child'[d]))
  <2>1. CASE d = c
    BY <1>2, <2>1 DEF Attached
  <2>2. CASE d # c
    <3>1. Attached(d)' <=> Attached(d)
      BY <1>2, <2>2 DEF Attached
    <3> QED
      BY <1>2, <2>2, <3>1 DEF CameraInv
  <2> QED
    BY <2>1, <2>2
<1> QED
  BY <1>1, <1>5, <1>6, <1>7 DEF CameraInv

-----------------------------------------------------------------------------
(* IsolatedCamera                                                          *)

LEMMA RepliesKeep ==
  ASSUME CameraInv, NEW c \in Children, child[c].requests # << >>,
         NEW what \in Answers, NEW state \in {"gone", "alive", "ending", "killed"},
         NEW device \in BOOLEAN,
         Replies(c, what, state, device), UNCHANGED << session, lease >>,
         state = "gone" => ~device,
         Freed(child[c]) => state = "gone"
  PROVE  CameraInv'
<1> DEFINE k == [ state |-> state, device |-> device, requests |-> Tail(child[c].requests),
                  answers |-> Append(child[c].answers,
                                     [what |-> what, turn |-> Head(child[c].requests).turn]) ]
<1>1. child' = [child EXCEPT ![c] = k]
  BY DEF Replies
<1>2. /\ child[c].requests \in Seq([op : Operations, turn : Turns])
      /\ child[c].answers \in Seq([what : Answers, turn : Turns])
  BY DEF CameraInv, CameraTypeOK, Child
<1>3. k \in Child
  <2>1. Head(child[c].requests) \in [op : Operations, turn : Turns]
    BY <1>2, HeadTailProperties
  <2>2. /\ Tail(child[c].requests) \in Seq([op : Operations, turn : Turns])
        /\ Append(child[c].answers, [what |-> what, turn |-> Head(child[c].requests).turn])
             \in Seq([what : Answers, turn : Turns])
    BY <1>2, <2>1
  <2> QED
    BY <2>2 DEF Child
<1>4. DeviceSane(k) /\ (~Attached(c) => Freed(k))
  BY DEF DeviceSane, Freed, CameraInv
<1>5. ASSUME NEW u \in Users, session[u].child = c PROVE Linked(session[u], k)
  <2>1. Linked(session[u], child[c])
    BY <1>5 DEF CameraInv, CameraTypeOK, Child
  <2>2. Waits(session[u]) /\ Pending(child[c], session[u].turn)
    BY <2>1 DEF Linked, Silent
  <2>3. PICK op \in Operations : child[c].requests = << [op |-> op, turn |-> session[u].turn] >>
    BY <2>2 DEF Pending
  <2>4. child[c].answers = << >>
    BY <2>2 DEF Pending
  <2>5. Head(child[c].requests).turn = session[u].turn /\ Tail(child[c].requests) = << >>
    BY <2>3, OneMessage
  <2>6. k.requests = << >> /\ k.answers = << [what |-> what, turn |-> session[u].turn] >>
    BY <2>4, <2>5, OneMessage
  <2> QED
    BY <2>2, <2>6 DEF Linked, Pending
<1> QED
  BY <1>1, <1>3, <1>4, <1>5, WorkerKeeps

LEMMA WorkerStepKeeps ==
  ASSUME CameraInv, NEW c \in Children, WorkerStep(c), UNCHANGED lease PROVE CameraInv'
<1>1. {"opened", "frame", "transient", "fatal", "closed", "broken"} \subseteq Answers
  BY DEF Answers
<1>2. CASE WorkerOpens(c)
  BY <1>1, <1>2, RepliesKeep DEF WorkerOpens, Serves, Freed
<1>3. CASE WorkerReads(c)
  BY <1>1, <1>3, RepliesKeep DEF WorkerReads, Serves, Freed
<1>4. CASE WorkerCloses(c)
  BY <1>1, <1>4, RepliesKeep DEF WorkerCloses, Serves, Freed
<1>5. CASE PipeBreaks(c)
  BY <1>1, <1>5, RepliesKeep DEF PipeBreaks
<1>6. CASE WorkerExits(c)
  <2> DEFINE k == [child[c] EXCEPT !.state = "gone", !.device = FALSE]
  <2>1. child[c] \in Child
    BY DEF CameraInv, CameraTypeOK
  <2>2. child' = [child EXCEPT ![c] = k] /\ UNCHANGED session
    BY <1>6, <2>1 DEF WorkerExits, CameraInv, CameraTypeOK, Child
  <2>3. k \in Child /\ DeviceSane(k) /\ Freed(k)
    BY <2>1 DEF Child, DeviceSane, Freed
  <2>4. k.requests = child[c].requests /\ k.answers = child[c].answers
    BY <2>1 DEF Child
  <2>5. ASSUME NEW u \in Users, session[u].child = c PROVE Linked(session[u], k)
    <3>1. Linked(session[u], child[c])
      BY <2>5 DEF CameraInv
    <3> QED
      BY <2>4, <3>1 DEF Linked, Pending, Silent
  <2> QED
    BY <2>2, <2>3, <2>5, WorkerKeeps
<1> QED
  BY <1>2, <1>3, <1>4, <1>5, <1>6 DEF WorkerStep

\* A worker after terminate.
Ended(k) == IF k.state = "gone" THEN NoChild
            ELSE [NoChild EXCEPT !.state = "killed", !.device = k.device]

LEMMA EndedSane ==
  ASSUME CameraInv, NEW c \in Children
  PROVE  /\ Killed(c) = [child EXCEPT ![c] = Ended(child[c])]
         /\ Ended(child[c]) \in Child /\ Silent(Ended(child[c]))
         /\ Freed(Ended(child[c])) /\ DeviceSane(Ended(child[c]))
<1>1. child[c] \in Child
  BY DEF CameraInv, CameraTypeOK
<1>2. Killed(c) = [child EXCEPT ![c] = Ended(child[c])]
  BY DEF Killed, Ended
<1> QED
  BY <1>1, <1>2, NoChildTyped DEF Ended, Child, Silent, Freed, DeviceSane

LEMMA SeveringSane ==
  ASSUME NEW s \in Session, Waits(s), SessionSane(s)
  PROVE  /\ AfterSevering(s) \in Session /\ SessionSane(AfterSevering(s))
         /\ AfterSevering(s).child \in {s.child, None} /\ ~Waits(AfterSevering(s))
BY DEF Session, AfterSevering, Detached, SessionSane, Waits

\* The exchange fails: the worker is killed, its user severed from it.
LEMMA SeveringKeeps ==
  ASSUME CameraInv, NEW u \in Users, Waiting(u), UNCHANGED lease,
         child' = Killed(session[u].child),
         session' = [session EXCEPT ![u] = AfterSevering(session[u])]
  PROVE  CameraInv'
<1> DEFINE c == session[u].child
<1>1. session[u] \in Session /\ SessionSane(session[u]) /\ Waits(session[u])
  BY DEF CameraInv, CameraTypeOK, Waiting, Waits
<1>2. c \in Children /\ session[u].pc # "off"
  BY <1>1 DEF SessionSane, Waits, Session
<1> DEFINE t == AfterSevering(session[u])
           k == Ended(child[c])
<1>3. /\ k \in Child /\ Silent(k) /\ Freed(k) /\ DeviceSane(k)
      /\ child' = [child EXCEPT ![c] = k]
  BY <1>2, EndedSane
<1>4. t \in Session /\ SessionSane(t) /\ t.child \in {c, None} /\ ~Waits(t)
  BY <1>1, SeveringSane
<1>5. Linked(t, k)
  BY <1>3, <1>4 DEF Linked
<1>6. session' = [session EXCEPT ![u] = t]
  OBVIOUS
<1>7. session[u].child = c
  OBVIOUS
<1> HIDE DEF t, k, c
<1> QED
  BY <1>2, <1>3, <1>4, <1>5, <1>6, <1>7, BothKeep

LEMMA HearsKeeps ==
  ASSUME CameraInv, NEW u \in Users, Hears(u), UNCHANGED lease PROVE CameraInv'
<1> DEFINE s == session[u]
           c == s.child
           k == [child[c] EXCEPT !.answers = Tail(@)]
<1>1. s \in Session /\ SessionSane(s) /\ Waits(s)
  BY DEF CameraInv, CameraTypeOK, Hears, Waiting, Waits
<1>2. c \in Children /\ s.pc # "off" /\ child[c] \in Child
  BY <1>1 DEF SessionSane, Waits, Session, CameraInv, CameraTypeOK
<1>3. CASE Head(child[c].answers).what = "broken"
  BY <1>3, SeveringKeeps DEF Hears
<1>4. CASE Head(child[c].answers).what # "broken"
  <2>1. Pending(child[c], s.turn) /\ child[c].answers # << >>
    BY <1>1, <1>2 DEF CameraInv, Linked, Hears
  <2>2. child[c].requests = << >> /\ Tail(child[c].answers) = << >>
    BY <2>1, OneMessage DEF Pending
  <2>3. k \in Child /\ Silent(k)
    <3>1. << >> \in Seq([what : Answers, turn : Turns])
      OBVIOUS
    <3> QED
      BY <1>2, <2>2, <3>1 DEF Child, Silent
  <2>4. DeviceSane(k)
    BY <1>2 DEF DeviceSane, CameraInv, Child
  <2>5. child' = [child EXCEPT ![c] = k]
    BY <1>4 DEF Hears
  <2> DEFINE what == Head(child[c].answers).what
             t == CASE s.pc = "opening" /\ what = "opened" -> [s EXCEPT !.pc = "ready"]
                    [] s.pc = "opening" /\ what # "opened" -> [s EXCEPT !.pc = "shutting", !.after = "trying"]
                    [] s.pc = "reading" -> [s EXCEPT !.pc = "got", !.result =
                         IF what \in {"frame", "fatal"} THEN what ELSE "transient"]
                    [] s.pc = "closing" -> [s EXCEPT !.pc = "leaving"]
  <2>6. session' = [session EXCEPT ![u] = t]
    BY <1>4 DEF Hears
  <2>7. t \in Session /\ t.child = c /\ SessionSane(t) /\ ~Waits(t)
    <3>1. CASE s.pc = "opening" /\ what = "opened"
      BY <1>1, <3>1 DEF Session, SessionSane, Waits
    <3>2. CASE s.pc = "opening" /\ what # "opened"
      BY <1>1, <3>2 DEF Session, SessionSane, Waits
    <3>3. CASE s.pc = "reading"
      BY <1>1, <3>3 DEF Session, SessionSane, Waits
    <3>4. CASE s.pc = "closing"
      BY <1>1, <3>4 DEF Session, SessionSane, Waits
    <3> QED
      BY <1>1, <3>1, <3>2, <3>3, <3>4 DEF Waits
  <2>8. Linked(t, k)
    BY <2>3, <2>7 DEF Linked
  <2>9. session[u].child = c /\ t.child \in {c, None} /\ t.child # None
    BY <1>2, <2>7
  <2> HIDE DEF t, k, c
  <2> QED
    BY <1>2, <2>3, <2>4, <2>5, <2>6, <2>7, <2>8, <2>9, BothKeep
<1> QED
  BY <1>3, <1>4

LEMMA AsksKeeps ==
  ASSUME CameraInv, NEW u \in Users, session[u].child # None, session[u].pc # "off",
         ~Waits(session[u]), UNCHANGED lease,
         \/ Asks(u, "read", "reading")
         \/ Asks(u, "close", "closing") /\ session[u].pc = "shutting"
  PROVE  CameraInv'
<1> DEFINE s == session[u]
           c == s.child
           turn == 1 - s.turn
<1>1. s \in Session /\ SessionSane(s) /\ child[c] \in Child /\ c \in Children /\ Silent(child[c])
  BY DEF CameraInv, CameraTypeOK, Session, Linked
<1>2. turn \in Turns
  BY <1>1 DEF Session, Turns
<1>3. PICK op \in {"read", "close"} : \E pc \in {"reading", "closing"} :
        /\ Asks(u, op, pc)
        /\ pc = "closing" => s.pc = "shutting"
  OBVIOUS
<1>4. PICK pc \in {"reading", "closing"} : Asks(u, op, pc) /\ (pc = "closing" => s.pc = "shutting")
  BY <1>3
<1> DEFINE k == [child[c] EXCEPT !.requests = << [op |-> op, turn |-> turn] >>]
           t == [s EXCEPT !.pc = pc, !.turn = turn]
<1>5. [op |-> op, turn |-> turn] \in [op : Operations, turn : Turns]
  BY <1>2 DEF Operations
<1>6. Append(child[c].requests, [op |-> op, turn |-> turn]) = << [op |-> op, turn |-> turn] >>
  BY <1>1, <1>5, OneMessage DEF Silent
<1>7. child' = [child EXCEPT ![c] = k] /\ session' = [session EXCEPT ![u] = t]
  BY <1>1, <1>4, <1>6 DEF Asks, CameraInv, CameraTypeOK
<1>8. k \in Child /\ DeviceSane(k)
  <2>1. << [op |-> op, turn |-> turn] >> \in Seq([op : Operations, turn : Turns])
    BY <1>5, OneMessage
  <2> QED
    BY <1>1, <2>1 DEF Child, DeviceSane, CameraInv
<1>9. t \in Session /\ SessionSane(t) /\ t.child = c
  BY <1>1, <1>2, <1>4 DEF Session, SessionSane
<1>10. Linked(t, k)
  <2>1. Waits(t) /\ t.turn = turn
    BY <1>1, <1>4 DEF Waits, Session
  <2>2. k.answers = << >> /\ k.requests = << [op |-> op, turn |-> turn] >>
    BY <1>1 DEF Child, Silent
  <2> QED
    BY <2>1, <2>2 DEF Linked, Pending, Operations
<1>11. session[u].child = c /\ t.child \in {c, None} /\ t.child # None /\ c \in Children
  BY <1>1, <1>9
<1> HIDE DEF t, k, c, s
<1> QED
  BY <1>7, <1>8, <1>9, <1>10, <1>11, BothKeep

LEMMA SpawnsKeeps ==
  ASSUME CameraInv, NEW u \in Users, Spawns(u), UNCHANGED lease PROVE CameraInv'
<1> DEFINE s == session[u]
<1>0. s \in Session /\ SessionSane(s) /\ s.pc = "trying" /\ s.tries < Backends
  BY DEF CameraInv, CameraTypeOK, Spawns
<1>1. s \in Session /\ SessionSane(s) /\ s.pc = "trying" /\ s.child = None /\ s.tries + 1 \in 0 .. Backends
  BY <1>0 DEF Session, SessionSane
<1>2. CASE session' = [session EXCEPT ![u].tries = @ + 1] /\ UNCHANGED child
  <2> DEFINE t == [s EXCEPT !.tries = @ + 1]
  <2>1. t \in Session /\ SessionSane(t) /\ t.child = s.child /\ t.child = None
    BY <1>1 DEF Session, SessionSane
  <2>2. session' = [session EXCEPT ![u] = t] /\ lease = u
    BY <1>1, <1>2 DEF CameraInv, CameraTypeOK
  <2> HIDE DEF t
  <2> QED
    BY <1>2, <2>1, <2>2, UserKeeps DEF CameraInv
<1>3. ASSUME NEW c \in Children, child[c].state = "gone", ~Attached(c),
             child' = [child EXCEPT ![c] = [NoChild EXCEPT !.state = "alive",
                         !.requests = << [op |-> "open", turn |-> 0] >>]],
             session' = [session EXCEPT ![u].pc = "opening", ![u].child = c, ![u].turn = 0,
                                        ![u].tries = @ + 1]
      PROVE  CameraInv'
  <2> DEFINE k == [NoChild EXCEPT !.state = "alive", !.requests = << [op |-> "open", turn |-> 0] >>]
             t == [s EXCEPT !.pc = "opening", !.child = c, !.turn = 0, !.tries = @ + 1]
  <2>1. << [op |-> "open", turn |-> 0] >> \in Seq([op : Operations, turn : Turns])
    <3>1. [op |-> "open", turn |-> 0] \in [op : Operations, turn : Turns]
      BY DEF Operations, Turns
    <3> QED
      BY <3>1, OneMessage
  <2>2. k \in Child /\ DeviceSane(k)
    BY <2>1, NoChildTyped DEF Child, DeviceSane
  <2>3. t \in Session /\ SessionSane(t) /\ t.child = c /\ Waits(t) /\ t.turn = 0
    BY <1>1 DEF Session, SessionSane, Turns, Waits
  <2>4. Linked(t, k)
    <3>1. k.answers = << >> /\ k.requests = << [op |-> "open", turn |-> 0] >>
      BY DEF NoChild
    <3> QED
      BY <2>3, <3>1 DEF Linked, Pending, Operations
  <2>5. session' = [session EXCEPT ![u] = t] /\ child' = [child EXCEPT ![c] = k]
    BY <1>1, <1>3 DEF CameraInv, CameraTypeOK
  <2>6. t.child # None /\ t.child \in {c, None} /\ session[u].child = None /\ session[u].pc # "off"
    BY <1>1, <2>3
  <2> HIDE DEF t, k
  <2> QED
    BY <1>3, <2>2, <2>3, <2>4, <2>5, <2>6, BothKeep
<1> QED
  BY <1>2, <1>3 DEF Spawns

LEMMA DetachesKeeps ==
  ASSUME CameraInv, NEW u \in Users, session[u].pc \in {"shutting", "leaving"}, UNCHANGED lease,
         child' = Killed(session[u].child),
         session' = [session EXCEPT ![u] = Detached(session[u])]
  PROVE  CameraInv'
<1> DEFINE c == session[u].child
           k == Ended(child[c])
           t == Detached(session[u])
<1>1. session[u] \in Session /\ SessionSane(session[u]) /\ c \in Children
  BY DEF CameraInv, CameraTypeOK, SessionSane, Session
<1>2. /\ k \in Child /\ Freed(k) /\ DeviceSane(k) /\ child' = [child EXCEPT ![c] = k]
  BY <1>1, EndedSane
<1>3. t \in Session /\ SessionSane(t) /\ t.child = None
  BY <1>1 DEF Detached, Session, SessionSane
<1>4. session[u].child = c /\ c # None
  BY <1>1
<1>5. session' = [session EXCEPT ![u] = t]
  OBVIOUS
<1> HIDE DEF t, k, c
<1> QED
  BY <1>1, <1>2, <1>3, <1>4, <1>5, BothKeep

\* A step of the user that touches neither workers nor lease.
LEMMA AloneKeeps ==
  ASSUME CameraInv, NEW u \in Users, NEW s \in Session, session[u].pc # "off",
         UNCHANGED << child, lease >>, session' = [session EXCEPT ![u] = s],
         SessionSane(s), s.child = session[u].child, ~Waits(s), ~Waits(session[u])
  PROVE  CameraInv'
<1>1. s.child # None => Linked(s, child[s.child])
  BY DEF CameraInv, Linked
<1>2. lease = u /\ \A v \in Users : session[v].pc # "off" => lease = v
  BY DEF CameraInv
<1> QED
  BY <1>1, <1>2, UserKeeps

LEMMA ReadsFrameKeeps ==
  ASSUME CameraInv, NEW u \in Users, ReadsFrame(u), UNCHANGED lease PROVE CameraInv'
<1>1. session[u] \in Session /\ session[u].pc = "ready"
  BY DEF ReadsFrame, CameraInv, CameraTypeOK
<1>2. CASE session[u].child = None
  <2> DEFINE t == [session[u] EXCEPT !.pc = "got", !.result = "fatal"]
  <2>1. t \in Session /\ SessionSane(t) /\ t.child = session[u].child /\ ~Waits(t)
    BY <1>1, <1>2 DEF Session, SessionSane, Waits
  <2>2. session' = [session EXCEPT ![u] = t] /\ UNCHANGED child
    BY <1>1, <1>2 DEF ReadsFrame, CameraInv, CameraTypeOK
  <2>3. ~Waits(session[u]) /\ session[u].pc # "off"
    BY <1>1 DEF Waits
  <2> HIDE DEF t
  <2> QED
    BY <2>1, <2>2, <2>3, AloneKeeps
<1>3. CASE session[u].child # None
  BY <1>1, <1>3, AsksKeeps DEF ReadsFrame, Waits
<1> QED
  BY <1>2, <1>3

LEMMA ProviderStepKeeps ==
  ASSUME CameraInv, NEW u \in Users, ProviderStep(u), UNCHANGED lease PROVE CameraInv'
<1>1. CASE TimesOut(u)
  BY <1>1, SeveringKeeps DEF TimesOut
<1>2. CASE Hears(u)
  BY <1>2, HearsKeeps
<1>3. CASE Spawns(u)
  BY <1>3, SpawnsKeeps
<1>4. CASE OpenFails(u)
  <2> DEFINE t == [session[u] EXCEPT !.pc = "failed"]
  <2>1. session[u] \in Session /\ SessionSane(session[u]) /\ session[u].pc = "trying"
    BY <1>4 DEF OpenFails, CameraInv, CameraTypeOK
  <2>2. t \in Session /\ SessionSane(t) /\ t.child = session[u].child /\ ~Waits(t)
    BY <2>1 DEF Session, SessionSane, Waits
  <2>3. session' = [session EXCEPT ![u] = t] /\ UNCHANGED child
    BY <1>4, <2>1 DEF OpenFails, CameraInv, CameraTypeOK
  <2>4. ~Waits(session[u]) /\ session[u].pc # "off"
    BY <2>1 DEF Waits
  <2> HIDE DEF t
  <2> QED
    BY <2>2, <2>3, <2>4, AloneKeeps
<1>5. CASE ReadsFrame(u)
  BY <1>5, ReadsFrameKeeps
<1>6. CASE Shuts(u)
  <2>1. CASE child[session[u].child].state # "gone" /\ ~session[u].severed
    <3>1. session[u].child # None /\ ~Waits(session[u]) /\ session[u].pc = "shutting"
      BY <1>6 DEF Shuts, CameraInv, SessionSane, Waits
    <3> QED
      BY <1>6, <2>1, <3>1, AsksKeeps DEF Shuts
  <2>2. CASE ~(child[session[u].child].state # "gone" /\ ~session[u].severed)
    BY <1>6, <2>2, DetachesKeeps DEF Shuts
  <2> QED
    BY <2>1, <2>2
<1>7. CASE Leaves(u)
  BY <1>7, DetachesKeeps DEF Leaves, CameraInv, CameraTypeOK
<1> QED
  BY <1>1, <1>2, <1>3, <1>4, <1>5, <1>6, <1>7 DEF ProviderStep

-----------------------------------------------------------------------------
(* What a frame makes of a round                                           *)

LEMMA Limits ==
  /\ MaxAuthFrames \in Nat /\ MaxFailures \in Nat /\ RequiredMatches \in Nat
  /\ MaxAuthFrames > 0 /\ MaxFailures > 0 /\ RequiredMatches > 0
OBVIOUS

\* A round before its next frame.
Open(a) ==
  /\ a \in AuthState
  /\ a.frame < MaxAuthFrames /\ a.failures < MaxFailures
  /\ a.evaluated <= a.frame + 1 /\ a.spoofs <= a.evaluated
  /\ a.outcome = "none"

LEMMA OpenParts ==
  ASSUME NEW a, Open(a)
  PROVE  /\ a \in AuthState
         /\ a.frame \in Nat /\ a.evaluated \in Nat /\ a.spoofs \in Nat /\ a.failures \in Nat
         /\ a.matches \in Nat /\ a.matches < RequiredMatches
         /\ a.frame + 1 \in 0 .. MaxAuthFrames /\ a.failures + 1 \in 0 .. MaxFailures
<1>1. a \in AuthState /\ a.frame < MaxAuthFrames /\ a.failures < MaxFailures
  BY DEF Open
<1>2. /\ a.frame \in 0 .. MaxAuthFrames /\ a.evaluated \in 0 .. MaxAuthFrames
      /\ a.spoofs \in 0 .. MaxAuthFrames /\ a.failures \in 0 .. MaxFailures
      /\ a.matches \in 0 .. RequiredMatches - 1
  BY <1>1 DEF AuthState
<1> QED
  BY <1>1, <1>2, Limits

LEMMA NextFrameSane ==
  ASSUME NEW a, Open(a), a.pc = "looking"
  PROVE  /\ NextFrame(a) \in AuthState /\ AuthSane(NextFrame(a))
         /\ NextFrame(a).pc \in {"looking", "closing"}
<1>1. CASE a.frame + 1 = MaxAuthFrames
  <2> DEFINE b == [a EXCEPT !.pc = "closing", !.outcome = "failed", !.frame = a.frame + 1]
  <2>1. NextFrame(a) = b
    BY <1>1, Limits DEF NextFrame, Closing, Open, AuthState
  <2>a. a \in AuthState /\ a.frame + 1 \in 0 .. MaxAuthFrames
    BY OpenParts
  <2>2. b \in AuthState
    BY <2>a DEF AuthState
  <2>3. b.pc = "closing" /\ b.outcome = "failed" /\ b.spoofs <= b.evaluated
    BY OpenParts DEF Open, AuthState
  <2>4. AuthSane(b)
    BY <2>3 DEF AuthSane
  <2> QED
    BY <2>1, <2>2, <2>3, <2>4
<1>2. CASE a.frame + 1 # MaxAuthFrames
  <2> DEFINE b == [a EXCEPT !.frame = a.frame + 1]
  <2>1. NextFrame(a) = b
    BY <1>2 DEF NextFrame
  <2>2. b \in AuthState /\ AuthSane(b) /\ b.pc = "looking"
    BY <1>2, Limits DEF Open, AuthState, AuthSane
  <2> QED
    BY <2>1, <2>2
<1> QED
  BY <1>1, <1>2

LEMMA ClosingSane ==
  ASSUME NEW a \in AuthState, a.spoofs <= a.evaluated
  PROVE  /\ Closing(a, "failed") \in AuthState /\ AuthSane(Closing(a, "failed"))
         /\ Closing(a, "failed").pc = "closing"
BY Limits DEF Closing, AuthState, AuthSane

LEMMA TransientSane ==
  ASSUME NEW a, Open(a), a.pc = "looking"
  PROVE  /\ AfterTransient(a) \in AuthState /\ AuthSane(AfterTransient(a))
         /\ AfterTransient(a).pc \in {"looking", "closing"}
<1> DEFINE b == [a EXCEPT !.failures = a.failures + 1]
<1>1. AfterTransient(a) = IF b.failures >= MaxFailures THEN Closing(b, "failed") ELSE NextFrame(b)
  BY DEF AfterTransient
<1>2. b \in AuthState /\ b.spoofs <= b.evaluated /\ b.pc = "looking"
  BY Limits DEF Open, AuthState
<1>3. CASE b.failures >= MaxFailures
  BY <1>1, <1>2, <1>3, ClosingSane
<1>4. CASE ~(b.failures >= MaxFailures)
  <2>1. Open(b)
    BY <1>2, <1>4, Limits DEF Open, AuthState
  <2> HIDE DEF b
  <2> QED
    BY <1>1, <1>2, <1>4, <2>1, NextFrameSane
<1> QED
  BY <1>3, <1>4

\* A frame that passes the stream check, one judged alive, and one judged a spoof.
Live(a) == [Valid(a) EXCEPT !.evaluated = @ + 1]
Spoofed(a) == [Live(a) EXCEPT !.spoofs = @ + 1]

LEMMA ValidOpen ==
  ASSUME NEW a, Open(a), a.pc = "looking"
  PROVE  /\ Open(Valid(a)) /\ Valid(a).pc = "looking"
         /\ Valid(a).matches = a.matches /\ Valid(a).evaluated = a.evaluated
         /\ Valid(a).spoofs = a.spoofs
<1>1. Valid(a) = [a EXCEPT !.failures = 0]
  BY DEF Valid
<1>2. a \in AuthState /\ 0 \in 0 .. MaxFailures
  BY Limits DEF Open
<1>3. Valid(a) \in AuthState
  BY <1>1, <1>2 DEF AuthState
<1> QED
  BY <1>1, <1>3, OpenParts, Limits DEF Open, AuthState

LEMMA LiveOpen ==
  ASSUME NEW a, Open(a), a.pc = "looking", a.evaluated <= a.frame
  PROVE  /\ Open(Live(a)) /\ Live(a).pc = "looking" /\ Live(a).matches = a.matches
         /\ Live(a).evaluated = a.evaluated + 1 /\ Live(a).spoofs = a.spoofs
         /\ Open(Spoofed(a)) /\ Spoofed(a).pc = "looking"
         /\ Spoofed(a).evaluated = a.evaluated + 1 /\ Spoofed(a).spoofs = a.spoofs + 1
<1>1. /\ a \in AuthState /\ 0 \in 0 .. MaxFailures
      /\ a.evaluated + 1 \in 0 .. MaxAuthFrames /\ a.spoofs + 1 \in 0 .. MaxAuthFrames
  BY OpenParts, Limits DEF Open
<1>2. Live(a) = [a EXCEPT !.failures = 0, !.evaluated = a.evaluated + 1]
  BY <1>1 DEF Live, Valid, AuthState
<1>3. Spoofed(a) = [a EXCEPT !.failures = 0, !.evaluated = a.evaluated + 1, !.spoofs = a.spoofs + 1]
  BY <1>1, <1>2 DEF Spoofed, AuthState
<1>4. Live(a) \in AuthState /\ Spoofed(a) \in AuthState
  BY <1>1, <1>2, <1>3 DEF AuthState
<1>5. Open(Live(a)) /\ Live(a).pc = "looking" /\ Live(a).matches = a.matches
      /\ Live(a).evaluated = a.evaluated + 1 /\ Live(a).spoofs = a.spoofs
  BY <1>2, <1>4, OpenParts, Limits DEF Open, AuthState
<1>6. Open(Spoofed(a)) /\ Spoofed(a).pc = "looking"
      /\ Spoofed(a).evaluated = a.evaluated + 1 /\ Spoofed(a).spoofs = a.spoofs + 1
  BY <1>3, <1>4, OpenParts, Limits DEF Open, AuthState
<1> QED
  BY <1>5, <1>6

LEMMA InterruptsOpen ==
  ASSUME NEW a, Open(a), a.pc = "looking"
  PROVE  /\ Open(Interrupts(a)) /\ Interrupts(a).pc = "looking" /\ Interrupts(a).matches = 0
         /\ Interrupts(a).evaluated = a.evaluated /\ Interrupts(a).spoofs = a.spoofs
<1>1. a \in AuthState /\ 0 \in 0 .. RequiredMatches - 1
  BY Limits DEF Open
<1>2. Interrupts(a) = [a EXCEPT !.matches = 0]
  BY DEF Interrupts
<1>3. Interrupts(a) \in AuthState
  BY <1>1, <1>2 DEF AuthState
<1> QED
  BY <1>1, <1>2, <1>3 DEF Open, AuthState

LEMMA MatchedOpen ==
  ASSUME NEW a, Open(a), a.pc = "looking", a.matches + 1 < RequiredMatches
  PROVE  /\ Open(Matched(a)) /\ Matched(a).pc = "looking" /\ Matched(a).matches = a.matches + 1
         /\ Matched(a).evaluated = a.evaluated /\ Matched(a).spoofs = a.spoofs
<1>1. a.matches + 1 \in 0 .. RequiredMatches - 1 /\ a \in AuthState
  BY OpenParts, Limits
<1>2. Matched(a) = [a EXCEPT !.matches = a.matches + 1]
  BY DEF Matched
<1>3. Matched(a) \in AuthState
  BY <1>1, <1>2 DEF AuthState
<1> QED
  BY <1>1, <1>2, <1>3, OpenParts DEF Open, AuthState

LEMMA FrameSane ==
  ASSUME NEW a, Open(a), a.pc = "looking", a.evaluated <= a.frame, NEW seen \in Seen
  PROVE  /\ AfterFrame(a, seen) \in AuthState /\ AuthSane(AfterFrame(a, seen))
         /\ AfterFrame(a, seen).pc \in {"looking", "capturing", "closing"}
<1> DEFINE valid == Valid(a)
           live == Live(a)
           spoof == Spoofed(a)
<1>1. Open(valid) /\ valid.pc = "looking"
  BY ValidOpen
<1>2. Open(live) /\ live.pc = "looking"
  BY LiveOpen
<1>3. Open(spoof) /\ spoof.pc = "looking"
  BY LiveOpen
<1>4. ASSUME NEW b, Open(b), b.pc = "looking"
      PROVE  Open(Interrupts(b)) /\ Interrupts(b).pc = "looking"
  BY <1>4, InterruptsOpen
<1>5. CASE seen = "invalid"
  BY <1>5, TransientSane DEF AfterFrame
<1>6. CASE seen = "black"
  <2>1. AfterFrame(a, seen) = NextFrame(valid)
    BY <1>6 DEF AfterFrame
  <2> HIDE DEF valid
  <2> QED
    BY <1>1, <2>1, NextFrameSane
<1>7. CASE seen = "faceless"
  <2>1. AfterFrame(a, seen) = NextFrame(Interrupts(valid))
    BY <1>7 DEF AfterFrame, Faceless
  <2> HIDE DEF valid
  <2> QED
    BY <1>1, <1>4, <2>1, NextFrameSane
<1>8. CASE seen = "modelError"
  <2>1. AfterFrame(a, seen) = Closing(live, "failed")
    BY <1>8 DEF AfterFrame, Live, Spoofed
  <2>2. live \in AuthState /\ live.spoofs <= live.evaluated
    BY <1>2, Limits DEF Open
  <2> HIDE DEF live
  <2> QED
    BY <2>1, <2>2, ClosingSane
<1>9. CASE seen = "spoof"
  <2>1. AfterFrame(a, seen) = NextFrame(Interrupts(spoof))
    BY <1>9 DEF AfterFrame, Live, Spoofed
  <2> HIDE DEF spoof
  <2> QED
    BY <1>3, <1>4, <2>1, NextFrameSane
<1>10. CASE seen = "doubtful"
  <2>1. AfterFrame(a, seen) = NextFrame(Interrupts(live))
    BY <1>10 DEF AfterFrame, Live, Spoofed
  <2> HIDE DEF live
  <2> QED
    BY <1>2, <1>4, <2>1, NextFrameSane
<1>11. CASE seen = "stranger"
  <2>1. AfterFrame(a, seen) = NextFrame(live)
    BY <1>11 DEF AfterFrame, Live, Spoofed
  <2> HIDE DEF live
  <2> QED
    BY <1>2, <2>1, NextFrameSane
<1>12. CASE seen = "intruder"
  <2>1. AfterFrame(a, seen) = [live EXCEPT !.pc = "capturing"]
    BY <1>12 DEF AfterFrame, Live, Spoofed
  <2> HIDE DEF live
  <2> QED
    BY <1>2, <2>1, Limits DEF Open, AuthState, AuthSane
<1>13. CASE seen = "match"
  <2>1. CASE live.matches + 1 < RequiredMatches
    <3>1. AfterFrame(a, seen) = NextFrame(Matched(live))
      BY <1>13, <2>1 DEF AfterFrame, Live
    <3> HIDE DEF live
    <3>2. Open(Matched(live)) /\ Matched(live).pc = "looking"
      BY <1>2, <2>1, MatchedOpen
    <3> QED
      BY <3>1, <3>2, NextFrameSane
  <2>2. CASE ~(live.matches + 1 < RequiredMatches)
    <3> DEFINE b == [live EXCEPT !.pc = "closing", !.matches = 0,
                                 !.outcome = IF SpoofExceeded(live) THEN "failed" ELSE "accepted"]
    <3>1. AfterFrame(a, seen) = b
      <4>1. AfterFrame(a, seen) =
              [Closing(live, IF SpoofExceeded(live) THEN "failed" ELSE "accepted")
                 EXCEPT !.matches = 0]
        BY <1>13, <2>2 DEF AfterFrame, Live
      <4> HIDE DEF live
      <4> QED
        BY <1>2, <4>1, Limits DEF Closing, Open, AuthState
    <3> HIDE DEF live
    <3>b. live \in AuthState /\ 0 \in 0 .. RequiredMatches - 1
      BY <1>2, Limits DEF Open
    <3>a. b \in AuthState
      BY <3>b DEF AuthState
    <3>2. b \in AuthState /\ b.pc = "closing"
      BY <1>2, <3>a, OpenParts DEF Open, AuthState
    <3>3. b.spoofs = live.spoofs /\ b.evaluated = live.evaluated
      BY <1>2, Limits DEF Open, AuthState
    <3>4. SpoofExceeded(b) <=> SpoofExceeded(live)
      BY <3>3 DEF SpoofExceeded
    <3>5. b.outcome = "accepted" => ~SpoofExceeded(live)
      BY <1>2, Limits DEF Open, AuthState
    <3>6. b.spoofs <= b.evaluated
      BY <1>2, <3>3, Limits DEF Open
    <3> HIDE DEF b
    <3> QED
      BY <3>1, <3>2, <3>4, <3>5, <3>6 DEF AuthSane
  <2> QED
    BY <2>1, <2>2
<1> QED
  BY <1>5, <1>6, <1>7, <1>8, <1>9, <1>10, <1>11, <1>12, <1>13 DEF Seen

-----------------------------------------------------------------------------
(* The steps of providers and workers leave the rounds alone               *)

LEMMA RoundStays == ASSUME RoundInv, UNCHANGED roundVars PROVE RoundInv'
BY DEF RoundInv, roundVars, Leased, SnapshotSane, NoCaptureAfterRevocation

LEMMA WorkerInv == ASSUME IInv, NEW c \in Children, Worker(c) PROVE IInv'
<1>1. CameraInv' /\ RoundInv'
  BY WorkerStepKeeps, RoundStays DEF IInv, Worker, roundVars
<1>2. UNCHANGED << session, auth >>
  BY DEF Worker, WorkerStep, WorkerOpens, WorkerReads, WorkerCloses, WorkerExits, PipeBreaks,
         roundVars
<1> QED
  BY <1>1, <1>2 DEF IInv, Poised

LEMMA OthersStay ==
  ASSUME CameraTypeOK, NEW u \in Users, ProviderStep(u), NEW v \in Users, v # u
  PROVE  session'[v] = session[v]
<1>1. ASSUME NEW s, session' = [session EXCEPT ![u] = s] PROVE session'[v] = session[v]
  BY <1>1 DEF CameraTypeOK
<1>2. CASE TimesOut(u)
  BY <1>1, <1>2 DEF TimesOut
<1>3. CASE Hears(u)
  BY <1>1, <1>3 DEF Hears
<1>4. CASE Spawns(u)
  BY <1>4 DEF Spawns, CameraTypeOK
<1>5. CASE OpenFails(u)
  BY <1>5 DEF OpenFails, CameraTypeOK
<1>6. CASE ReadsFrame(u)
  BY <1>6 DEF ReadsFrame, Asks, CameraTypeOK
<1>7. CASE Shuts(u)
  BY <1>7 DEF Shuts, Asks, CameraTypeOK
<1>8. CASE Leaves(u)
  BY <1>8 DEF Leaves, CameraTypeOK
<1> QED
  BY <1>2, <1>3, <1>4, <1>5, <1>6, <1>7, <1>8 DEF ProviderStep

LEMMA ProviderInv == ASSUME IInv, NEW u \in Users, Provider(u) PROVE IInv'
<1>1. CameraInv' /\ RoundInv'
  BY ProviderStepKeeps, RoundStays DEF IInv, Provider, roundVars
<1>2. CASE u = Auth
  BY <1>1, <1>2 DEF IInv, Poised, Provider, roundVars
<1>3. CASE u # Auth
  <2>1. session'[Auth] = session[Auth] /\ auth' = auth
    BY <1>3, OthersStay DEF Provider, IInv, CameraInv, roundVars
  <2> QED
    BY <1>1, <2>1 DEF IInv, Poised
<1> QED
  BY <1>2, <1>3

-----------------------------------------------------------------------------
(* Lease and provider at the two ends of a round                           *)

LEMMA AcquiresKeeps ==
  ASSUME CameraInv, NEW u \in Users, Acquires(u)
  PROVE  CameraInv' /\ session'[u].pc = "trying" /\ lease = None /\ lease' = u
<1>1. lease = None /\ lease' = u /\ \A v \in Users : session[v].pc = "off"
  BY DEF Acquires, CameraInv
<1> DEFINE t == [session[u] EXCEPT !.pc = "trying", !.tries = 0]
<1>2. session[u] \in Session /\ SessionSane(session[u])
  BY DEF CameraInv, CameraTypeOK
<1>3. session[u].child = None /\ session[u].pc = "off"
  BY <1>1, <1>2 DEF SessionSane
<1>4. t \in Session /\ t.child = session[u].child /\ SessionSane(t) /\ t.pc = "trying"
  <2>1. 0 \in 0 .. Backends
    OBVIOUS
  <2>2. t \in Session
    BY <1>2, <2>1 DEF Session
  <2>3. t.pc = "trying" /\ t.child = session[u].child
    BY <1>2 DEF Session
  <2> QED
    BY <1>3, <2>2, <2>3 DEF SessionSane
<1>5. session' = [session EXCEPT ![u] = t] /\ UNCHANGED child
  BY DEF Acquires, StartsOpening
<1>6. session'[u] = t
  BY <1>5 DEF CameraInv, CameraTypeOK
<1> HIDE DEF t
<1>7. CameraInv'
  BY <1>1, <1>3, <1>4, <1>5, UserKeeps
<1> QED
  BY <1>1, <1>4, <1>6, <1>7

LEMMA ReleasesKeeps ==
  ASSUME CameraInv, NEW u \in Users, lease = u, Releases(u) PROVE CameraInv'
<1>1. \A v \in Users : session[v].pc = "off"
  BY DEF Releases, CameraInv
<1>2. UNCHANGED << child, session >>
  BY DEF Releases, cameraVars
<1> QED
  BY <1>1, <1>2 DEF CameraInv, CameraTypeOK, Attached

\* The thread goes on from where its provider had come to rest.
AtRest(s) == s.pc \in {"failed", "ready", "got"}

LEMMA ResumedSane ==
  ASSUME NEW s \in Session, SessionSane(s), AtRest(s),
         NEW t \in {Continues(s), CloseCalled(s), IF s.pc = "failed" THEN Off ELSE s}
  PROVE  t \in Session /\ SessionSane(t) /\ t.child = s.child /\ ~Waits(t)
<1>1. CASE t = Continues(s)
  BY <1>1 DEF Continues, Session, SessionSane, Waits
<1>2. Off \in Session /\ SessionSane(Off) /\ Off.child = None /\ ~Waits(Off)
  BY DEF Off, Session, SessionSane, Waits, Turns
<1>3. CASE t = CloseCalled(s)
  <2>1. CASE s.child = None
    BY <1>2, <1>3, <2>1 DEF CloseCalled
  <2>2. CASE s.child # None
    BY <1>3, <2>2 DEF CloseCalled, Session, SessionSane, Waits
  <2> QED
    BY <2>1, <2>2
<1>4. CASE t = IF s.pc = "failed" THEN Off ELSE s
  BY <1>2, <1>4 DEF AtRest, SessionSane, Waits
<1> QED
  BY <1>1, <1>3, <1>4

LEMMA ResumesKeeps ==
  ASSUME CameraInv, NEW u \in Users, AtRest(session[u]), UNCHANGED << child, lease >>,
         NEW t \in {Continues(session[u]), CloseCalled(session[u]),
                    IF session[u].pc = "failed" THEN Off ELSE session[u]},
         session' = [session EXCEPT ![u] = t]
  PROVE  CameraInv'
<1>1. session[u] \in Session /\ SessionSane(session[u])
  BY DEF CameraInv, CameraTypeOK
<1>2. t \in Session /\ SessionSane(t) /\ t.child = session[u].child /\ ~Waits(t)
  BY <1>1, ResumedSane
<1>3. ~Waits(session[u]) /\ session[u].pc # "off"
  BY DEF AtRest, Waits
<1> QED
  BY <1>2, <1>3, AloneKeeps

-----------------------------------------------------------------------------
(* Authentication                                                          *)

LEMMA AuthBeginsKeeps == ASSUME IInv, AuthBegins PROVE IInv'
<1>1. CameraInv' /\ lease = None /\ lease' = Auth
  BY AcquiresKeeps DEF IInv, AuthBegins
<1>2. /\ auth.pc = "idle" /\ auth \in AuthState /\ AuthSane(auth) /\ sample.pc = "idle"
      /\ snapshot \in SnapshotState /\ SnapshotSane
  BY <1>1 DEF IInv, RoundInv, Leased, AuthBegins
<1>3. PICK same \in BOOLEAN :
        /\ auth' = [(IF same THEN auth ELSE NoRound) EXCEPT !.pc = "opening"]
        /\ snapshot' = IF same THEN snapshot
                       ELSE [enabled |-> TRUE, locked |-> FALSE, revocation |-> "none"]
  BY DEF AuthBegins
<1> DEFINE a == IF same THEN auth ELSE NoRound
<1>4. a \in AuthState /\ AuthSane(a) /\ a.pc = "idle"
  <2>1. NoRound \in AuthState
    BY Limits DEF NoRound, AuthState
  <2>2. AuthSane(NoRound) /\ NoRound.pc = "idle"
    BY DEF NoRound, AuthSane
  <2> QED
    BY <1>2, <2>1, <2>2
<1>5. auth' = [a EXCEPT !.pc = "opening"]
  BY <1>3
<1> HIDE DEF a
<1>6. auth' \in AuthState /\ auth'.pc = "opening"
  BY <1>4, <1>5 DEF AuthState
<1>7. AuthSane(auth')
  <2>1. /\ a.frame = 0 /\ a.failures = 0 /\ a.evaluated = 0 /\ a.outcome = "none"
        /\ a.spoofs <= a.evaluated
    BY <1>4 DEF AuthSane
  <2>2. /\ auth'.frame = 0 /\ auth'.failures = 0 /\ auth'.evaluated = 0
        /\ auth'.outcome = "none" /\ auth'.spoofs <= auth'.evaluated
    BY <1>4, <1>5, <2>1 DEF AuthState
  <2> QED
    BY <1>6, <2>2, Limits DEF AuthSane
<1>8. snapshot' \in SnapshotState /\ SnapshotSane'
  BY <1>2, <1>3, <1>6 DEF SnapshotState, SnapshotSane, NoCaptureAfterRevocation
<1>9. sample' = sample
  BY DEF AuthBegins
<1>10. RoundInv'
  BY <1>1, <1>2, <1>6, <1>7, <1>8, <1>9 DEF IInv, RoundInv, Leased, SampleSane
<1> QED
  BY <1>1, <1>6, <1>10 DEF IInv, Poised

\* A round that neither begins nor ends, and takes no picture, keeps what concerns others.
LEMMA AuthGoesOn ==
  ASSUME RoundInv, auth.pc # "idle", auth' \in AuthState, AuthSane(auth'),
         auth'.pc \in {"looking", "capturing", "closing"},
         UNCHANGED << lease, sample >>,
         snapshot' \in SnapshotState,
         snapshot'.enabled = snapshot.enabled, snapshot'.revocation = snapshot.revocation
  PROVE  RoundInv'
BY DEF RoundInv, Leased, SnapshotSane, NoCaptureAfterRevocation

LEMMA OpenNow ==
  ASSUME RoundInv, auth.pc \in {"opening", "looking", "capturing", "writing"} PROVE Open(auth)
BY DEF RoundInv, AuthSane, Open

LEMMA AuthLooksKeeps == ASSUME IInv, AuthLooks PROVE IInv'
<1>1. /\ auth \in AuthState /\ AuthSane(auth) /\ auth.pc \in {"opening", "looking"} /\ Open(auth)
      /\ UNCHANGED << lease, sample, snapshot >> /\ snapshot \in SnapshotState
  <2>1. /\ auth \in AuthState /\ AuthSane(auth) /\ auth.pc \in {"opening", "looking"}
        /\ UNCHANGED << lease, sample, snapshot >> /\ snapshot \in SnapshotState
    BY DEF AuthLooks, IInv, RoundInv
  <2> QED
    BY <2>1, OpenNow DEF IInv
<1>2. auth.spoofs <= auth.evaluated
  BY <1>1 DEF AuthSane
<1>3. CASE /\ auth.pc = "opening" /\ session[Auth].pc = "failed"
           /\ auth' = Closing(auth, "failed") /\ session' = [session EXCEPT ![Auth] = Off]
           /\ UNCHANGED child
  <2>1. CameraInv'
    BY <1>1, <1>3, ResumesKeeps DEF IInv, AtRest
  <2>2. auth' \in AuthState /\ AuthSane(auth') /\ auth'.pc = "closing"
    BY <1>1, <1>2, <1>3, ClosingSane
  <2>3. RoundInv'
    BY <1>1, <2>2, AuthGoesOn DEF IInv
  <2> QED
    BY <2>1, <2>2, <2>3 DEF IInv, Poised
<1>4. CASE /\ auth.pc \in {"opening", "looking"} /\ session[Auth].pc = "ready"
           /\ auth' = [auth EXCEPT !.pc = "looking"] /\ ReadsFrame(Auth)
  <2>1. CameraInv'
    BY <1>1, <1>4, ReadsFrameKeeps DEF IInv
  <2>2. auth' \in AuthState /\ auth'.pc = "looking"
    BY <1>1, <1>4 DEF AuthState
  <2>3. AuthSane(auth')
    BY <1>1, <1>4 DEF AuthSane, AuthState
  <2>4. RoundInv'
    BY <1>1, <2>2, <2>3, AuthGoesOn DEF IInv
  <2> QED
    BY <2>1, <2>2, <2>4 DEF IInv, Poised
<1>5. CASE /\ auth.pc = "looking" /\ session[Auth].pc = "got"
           /\ \/ session[Auth].result = "frame" /\ \E seen \in Seen : auth' = AfterFrame(auth, seen)
              \/ session[Auth].result = "transient" /\ auth' = AfterTransient(auth)
              \/ session[Auth].result = "fatal" /\ auth' = Closing(auth, "failed")
           /\ session' = [session EXCEPT ![Auth] =
                            IF auth'.pc = "closing" THEN CloseCalled(@) ELSE Continues(@)]
           /\ UNCHANGED child
  <2>1. session[Auth].result \in {"frame", "transient", "fatal"} /\ session[Auth] \in Session
    <3>1. session[Auth] \in Session /\ SessionSane(session[Auth])
      BY DEF IInv, CameraInv, CameraTypeOK
    <3> QED
      BY <1>5, <3>1 DEF SessionSane, Session
  <2>2. /\ auth' \in AuthState /\ AuthSane(auth')
        /\ auth'.pc \in {"looking", "capturing", "closing"}
    <3>1. CASE session[Auth].result = "frame"
      <4>1. PICK seen \in Seen : auth' = AfterFrame(auth, seen)
        BY <1>5, <3>1
      <4>2. auth.evaluated <= auth.frame
        BY <1>1 DEF AuthSane
      <4> QED
        BY <1>1, <1>5, <4>1, <4>2, FrameSane
    <3>2. CASE session[Auth].result = "transient"
      BY <1>1, <1>5, <3>2, TransientSane
    <3>3. CASE session[Auth].result = "fatal"
      BY <1>1, <1>2, <1>5, <3>3, ClosingSane
    <3> QED
      BY <2>1, <3>1, <3>2, <3>3
  <2>3. RoundInv'
    BY <1>1, <2>2, AuthGoesOn DEF IInv
  <2>4. PICK t \in {Continues(session[Auth]), CloseCalled(session[Auth])} :
          /\ session' = [session EXCEPT ![Auth] = t]
          /\ auth'.pc # "closing" => t = Continues(session[Auth])
    BY <1>5
  <2>5. CameraInv'
    BY <1>1, <1>5, <2>4, ResumesKeeps DEF IInv, AtRest
  <2>6. auth'.pc # "closing" => session'[Auth].pc = "ready"
    BY <2>1, <2>4 DEF Continues, Session, IInv, CameraInv, CameraTypeOK
  <2> QED
    BY <2>2, <2>3, <2>5, <2>6 DEF IInv, Poised
<1> QED
  BY <1>3, <1>4, <1>5 DEF AuthLooks

\* The round after a picture, taken or not.
LEMMA AfterCaptureKeeps ==
  ASSUME IInv, auth.pc \in {"capturing", "writing"}, AfterCapture, UNCHANGED << child, lease, sample >>
  PROVE  /\ CameraInv' /\ auth' \in AuthState /\ AuthSane(auth')
         /\ auth'.pc \in {"looking", "closing"}
<1> DEFINE a == [auth EXCEPT !.pc = "looking"]
<1>1. Open(auth) /\ auth \in AuthState
  BY OpenNow DEF IInv, RoundInv
<1>2. Open(a) /\ a.pc = "looking"
  BY <1>1 DEF Open, AuthState
<1>3. auth' = NextFrame(a)
  <2>1. CASE auth.frame + 1 = MaxAuthFrames
    <3>1. NextFrame(auth) = [auth EXCEPT !.pc = "closing", !.outcome = "failed", !.frame = auth.frame + 1]
      BY <1>1, <2>1 DEF NextFrame, Closing, AuthState
    <3>2. NextFrame(a) = [auth EXCEPT !.pc = "closing", !.outcome = "failed", !.frame = auth.frame + 1]
      BY <1>1, <2>1 DEF NextFrame, Closing, AuthState
    <3>3. NextFrame(auth).pc = "closing"
      BY <1>1, <3>1 DEF AuthState
    <3>4. auth' = [NextFrame(auth) EXCEPT !.pc = "closing"]
      BY <3>3 DEF AfterCapture
    <3> QED
      BY <1>1, <3>1, <3>2, <3>4 DEF AuthState
  <2>2. CASE auth.frame + 1 # MaxAuthFrames
    <3>1. NextFrame(auth) = [auth EXCEPT !.frame = auth.frame + 1]
      BY <2>2 DEF NextFrame
    <3>2. NextFrame(a) = [auth EXCEPT !.pc = "looking", !.frame = auth.frame + 1]
      BY <1>1, <2>2 DEF NextFrame, AuthState
    <3>3. NextFrame(auth).pc # "closing"
      BY <1>1, <3>1 DEF AuthState
    <3>4. auth' = [NextFrame(auth) EXCEPT !.pc = "looking"]
      BY <3>3 DEF AfterCapture
    <3> QED
      BY <1>1, <3>1, <3>2, <3>4 DEF AuthState
  <2> QED
    BY <2>1, <2>2
<1> HIDE DEF a
<1>4. auth' \in AuthState /\ AuthSane(auth') /\ auth'.pc \in {"looking", "closing"}
  BY <1>2, <1>3, NextFrameSane
<1>5. session[Auth].pc = "ready"
  BY DEF IInv, Poised
<1>6. PICK t \in {CloseCalled(session[Auth]), session[Auth]} : session' = [session EXCEPT ![Auth] = t]
  BY DEF AfterCapture
<1>7. CameraInv'
  BY <1>5, <1>6, ResumesKeeps DEF IInv, AtRest
<1> QED
  BY <1>4, <1>7

LEMMA CaptureBeginsKeeps == ASSUME IInv, CaptureBegins PROVE IInv'
<1>1. /\ auth.pc = "capturing" /\ ~snapshot.locked /\ UNCHANGED << child, lease, sample >>
      /\ auth \in AuthState /\ AuthSane(auth) /\ snapshot \in SnapshotState /\ SnapshotSane
  BY DEF CaptureBegins, IInv, RoundInv
<1>2. CASE snapshot.enabled
  <2>1. /\ auth' = [auth EXCEPT !.pc = "writing"] /\ snapshot' = [snapshot EXCEPT !.locked = TRUE]
        /\ UNCHANGED session
    BY <1>2 DEF CaptureBegins
  <2>2. auth' \in AuthState /\ auth'.pc = "writing" /\ snapshot' \in SnapshotState
    BY <1>1, <2>1 DEF AuthState, SnapshotState
  <2>3. AuthSane(auth')
    BY <1>1, <2>1 DEF AuthState, AuthSane
  <2>4. SnapshotSane'
    BY <1>1, <1>2, <2>1, <2>2 DEF SnapshotSane, SnapshotState, NoCaptureAfterRevocation
  <2>5. RoundInv'
    BY <1>1, <2>2, <2>3, <2>4 DEF IInv, RoundInv, Leased
  <2>6. CameraInv'
    BY <1>1, <2>1 DEF IInv, CameraInv, CameraTypeOK, Attached
  <2> QED
    BY <1>1, <2>1, <2>5, <2>6 DEF IInv, Poised
<1>3. CASE ~snapshot.enabled
  <2>1. AfterCapture /\ UNCHANGED snapshot
    BY <1>3 DEF CaptureBegins
  <2>2. /\ CameraInv' /\ auth' \in AuthState /\ AuthSane(auth')
        /\ auth'.pc \in {"looking", "closing"}
    BY <1>1, <2>1, AfterCaptureKeeps
  <2>3. RoundInv'
    BY <1>1, <2>1, <2>2, AuthGoesOn DEF IInv
  <2> QED
    BY <2>2, <2>3 DEF IInv, Poised
<1> QED
  BY <1>2, <1>3

LEMMA CaptureEndsKeeps == ASSUME IInv, CaptureEnds PROVE IInv'
<1>1. /\ auth.pc = "writing" /\ AfterCapture /\ UNCHANGED << child, lease, sample >>
      /\ snapshot' = [snapshot EXCEPT !.locked = FALSE] /\ snapshot \in SnapshotState
  BY DEF CaptureEnds, IInv, RoundInv
<1>2. /\ CameraInv' /\ auth' \in AuthState /\ AuthSane(auth')
      /\ auth'.pc \in {"looking", "closing"}
  BY <1>1, AfterCaptureKeeps
<1>3. /\ snapshot' \in SnapshotState /\ snapshot'.enabled = snapshot.enabled
      /\ snapshot'.revocation = snapshot.revocation
  BY <1>1 DEF SnapshotState
<1>4. RoundInv'
  BY <1>1, <1>2, <1>3, AuthGoesOn DEF IInv
<1> QED
  BY <1>2, <1>4 DEF IInv, Poised

LEMMA AuthEndsKeeps == ASSUME IInv, AuthEnds PROVE IInv'
<1>1. /\ auth.pc = "closing" /\ lease = Auth /\ Releases(Auth) /\ UNCHANGED << sample, snapshot >>
      /\ auth \in AuthState /\ sample.pc = "idle" /\ snapshot \in SnapshotState /\ SnapshotSane
  BY DEF AuthEnds, IInv, RoundInv, Leased, AuthSane
<1>2. CameraInv' /\ lease' = None
  BY <1>1, ReleasesKeeps DEF IInv, Releases
<1>3. auth' = [NoRound EXCEPT !.matches = auth.matches]
  BY DEF AuthEnds
<1>4. auth' \in AuthState
  <2>1. /\ 0 \in 0 .. MaxAuthFrames /\ 0 \in 0 .. MaxFailures
        /\ auth.matches \in 0 .. RequiredMatches - 1
    BY <1>1, Limits DEF AuthState
  <2> QED
    BY <1>3, <2>1 DEF NoRound, AuthState
<1>5. AuthSane(auth') /\ auth'.pc = "idle"
  BY <1>3 DEF NoRound, AuthSane
<1>6. SnapshotSane'
  BY <1>1, <1>5 DEF SnapshotSane, NoCaptureAfterRevocation
<1>7. RoundInv'
  BY <1>1, <1>2, <1>4, <1>5, <1>6 DEF IInv, RoundInv, Leased
<1> QED
  BY <1>2, <1>5, <1>7 DEF IInv, Poised

-----------------------------------------------------------------------------
(* Revocation                                                              *)

LEMMA RevocationKeeps == ASSUME IInv, Revokes \/ RevokeReturns PROVE IInv'
<1>1. /\ UNCHANGED << child, session, lease, auth, sample >> /\ snapshot \in SnapshotState
      /\ SnapshotSane
  BY DEF Revokes, RevokeReturns, cameraVars, IInv, RoundInv
<1>2. CameraInv'
  BY <1>1 DEF IInv, CameraInv, CameraTypeOK, Attached
<1>3. snapshot' \in SnapshotState /\ SnapshotSane'
  BY <1>1 DEF Revokes, RevokeReturns, SnapshotState, SnapshotSane, NoCaptureAfterRevocation
<1> QED
  BY <1>1, <1>2, <1>3 DEF IInv, RoundInv, Leased, Poised

-----------------------------------------------------------------------------
(* A presence sample                                                       *)

\* What a sample's step leaves alone, and what it must see to.
LEMMA SampleKeeps ==
  ASSUME IInv, UNCHANGED << auth, snapshot >>, session'[Auth] = session[Auth],
         CameraInv', sample' \in SampleState, SampleSane(sample'),
         lease' \in {None, Presence}, lease \in {None, Presence},
         sample'.pc # "idle" <=> lease' = Presence
  PROVE  IInv'
<1>1. auth.pc = "idle"
  BY DEF IInv, RoundInv, Leased
<1> QED
  BY <1>1 DEF IInv, RoundInv, Leased, SnapshotSane, NoCaptureAfterRevocation, Poised

LEMMA SampleBeginsKeeps == ASSUME IInv, SampleBegins PROVE IInv'
<1>1. CameraInv' /\ lease = None /\ lease' = Presence
  BY AcquiresKeeps DEF IInv, SampleBegins
<1>2. sample' = [pc |-> "opening", failures |-> 0]
  BY DEF SampleBegins
<1>3. sample' \in SampleState /\ SampleSane(sample') /\ sample'.pc = "opening"
  BY <1>2, Limits DEF SampleState, SampleSane
<1>4. UNCHANGED << auth, snapshot >> /\ session'[Auth] = session[Auth]
  BY DEF SampleBegins, Acquires, IInv, CameraInv, CameraTypeOK
<1> QED
  BY <1>1, <1>3, <1>4, SampleKeeps

LEMMA SampleEndsKeeps == ASSUME IInv, SampleEnds PROVE IInv'
<1>1. lease = Presence /\ Releases(Presence)
  BY DEF SampleEnds, IInv, RoundInv, Leased
<1>2. CameraInv' /\ lease' = None /\ UNCHANGED << auth, snapshot, session >>
  BY <1>1, ReleasesKeeps DEF IInv, Releases, SampleEnds, cameraVars
<1>3. sample' \in SampleState /\ SampleSane(sample') /\ sample'.pc = "idle"
  BY Limits DEF SampleEnds, NoSample, SampleState, SampleSane
<1> QED
  BY <1>1, <1>2, <1>3, SampleKeeps

LEMMA SampleFailureSane ==
  ASSUME NEW s \in SampleState, s.pc = "looking", s.failures < MaxFailures
  PROVE  /\ SampleFailure(s) \in SampleState /\ SampleSane(SampleFailure(s))
         /\ SampleFailure(s).pc # "idle"
<1>1. s.failures + 1 \in 0 .. MaxFailures
  BY Limits DEF SampleState
<1> DEFINE pc == IF s.failures + 1 >= MaxFailures THEN "closing" ELSE "looking"
<1>2. SampleFailure(s) = [s EXCEPT !.failures = s.failures + 1, !.pc = pc]
  BY DEF SampleFailure, SampleState
<1>3. pc \in {"looking", "closing"} /\ (pc = "looking" => s.failures + 1 < MaxFailures)
  BY <1>1, Limits
<1> HIDE DEF pc
<1> QED
  BY <1>1, <1>2, <1>3 DEF SampleState, SampleSane

LEMMA SampleLooksKeeps == ASSUME IInv, SampleLooks PROVE IInv'
<1>1. /\ sample \in SampleState /\ sample.failures < MaxFailures /\ lease = Presence
      /\ UNCHANGED << lease, auth, snapshot >> /\ sample.pc \in {"opening", "looking"}
  BY DEF SampleLooks, IInv, RoundInv, Leased, SampleSane
<1>2. SUFFICES /\ session'[Auth] = session[Auth] /\ CameraInv'
               /\ sample' \in SampleState /\ SampleSane(sample') /\ sample'.pc # "idle"
  BY <1>1, SampleKeeps
<1>3. CASE /\ sample.pc = "opening" /\ session[Presence].pc = "failed"
           /\ sample' = [sample EXCEPT !.pc = "closing"]
           /\ session' = [session EXCEPT ![Presence] = Off] /\ UNCHANGED child
  <2>1. CameraInv'
    BY <1>1, <1>3, ResumesKeeps DEF IInv, AtRest
  <2> QED
    BY <1>1, <1>3, <2>1 DEF SampleState, SampleSane, IInv, CameraInv, CameraTypeOK
<1>4. CASE /\ sample.pc \in {"opening", "looking"} /\ session[Presence].pc = "ready"
           /\ sample' = [sample EXCEPT !.pc = "looking"] /\ ReadsFrame(Presence)
  <2>1. CameraInv'
    BY <1>1, <1>4, ReadsFrameKeeps DEF IInv
  <2>2. session'[Auth] = session[Auth]
    BY <1>4, OthersStay DEF ProviderStep, IInv, CameraInv
  <2> QED
    BY <1>1, <1>4, <2>1, <2>2 DEF SampleState, SampleSane
<1>5. CASE /\ sample.pc = "looking" /\ session[Presence].pc = "got"
           /\ sample' \in CASE session[Presence].result = "frame" ->
                                 {AfterSampleFrame(sample, seen) : seen \in {"invalid", "refused", "decided"}}
                            [] session[Presence].result = "transient" -> {SampleFailure(sample)}
                            [] session[Presence].result = "fatal"     -> {[sample EXCEPT !.pc = "closing"]}
           /\ session' = [session EXCEPT ![Presence] =
                            IF sample'.pc = "closing" THEN CloseCalled(@) ELSE Continues(@)]
           /\ UNCHANGED child
  <2>1. session[Presence].result \in {"frame", "transient", "fatal"}
    <3>1. session[Presence] \in Session /\ SessionSane(session[Presence])
      BY DEF IInv, CameraInv, CameraTypeOK
    <3> QED
      BY <1>5, <3>1 DEF SessionSane, Session
  <2>2. sample' \in SampleState /\ SampleSane(sample') /\ sample'.pc # "idle"
    <3>1. CASE session[Presence].result = "frame"
      <4>1. PICK seen \in {"invalid", "refused", "decided"} : sample' = AfterSampleFrame(sample, seen)
        BY <1>5, <3>1
      <4>2. CASE seen = "invalid"
        BY <1>1, <1>5, <4>1, <4>2, SampleFailureSane DEF AfterSampleFrame
      <4>3. CASE seen = "refused"
        <5> DEFINE s == [sample EXCEPT !.failures = 0]
        <5>1. s \in SampleState /\ s.pc = "looking" /\ s.failures < MaxFailures
          BY <1>1, <1>5, Limits DEF SampleState
        <5>2. sample' = SampleFailure(s)
          BY <4>1, <4>3 DEF AfterSampleFrame
        <5> HIDE DEF s
        <5> QED
          BY <5>1, <5>2, SampleFailureSane
      <4>4. CASE seen = "decided"
        <5>1. sample' = [sample EXCEPT !.failures = 0, !.pc = "closing"]
          BY <4>1, <4>4 DEF AfterSampleFrame
        <5>2. 0 \in 0 .. MaxFailures
          BY Limits
        <5> QED
          BY <1>1, <5>1, <5>2 DEF SampleState, SampleSane
      <4> QED
        BY <4>2, <4>3, <4>4
    <3>2. CASE session[Presence].result = "transient"
      BY <1>1, <1>5, <3>2, SampleFailureSane
    <3>3. CASE session[Presence].result = "fatal"
      BY <1>1, <1>5, <3>3 DEF SampleState, SampleSane
    <3> QED
      BY <2>1, <3>1, <3>2, <3>3
  <2>3. PICK t \in {Continues(session[Presence]), CloseCalled(session[Presence])} :
          session' = [session EXCEPT ![Presence] = t]
    BY <1>5
  <2>4. CameraInv'
    BY <1>1, <1>5, <2>3, ResumesKeeps DEF IInv, AtRest
  <2>5. session'[Auth] = session[Auth]
    BY <2>3 DEF IInv, CameraInv, CameraTypeOK
  <2> QED
    BY <2>2, <2>4, <2>5
<1> QED
  BY <1>3, <1>4, <1>5 DEF SampleLooks

-----------------------------------------------------------------------------
(* The steps together                                                      *)

LEMMA InitEstablishes == Init => IInv
<1> SUFFICES ASSUME Init PROVE IInv
  OBVIOUS
<1>1. Off \in Session /\ SessionSane(Off) /\ Off.child = None /\ Off.pc = "off"
  <2>1. 0 \in 0 .. Backends
    OBVIOUS
  <2> QED
    BY <2>1 DEF Off, Session, SessionSane, Turns
<1>2. CameraInv
  BY <1>1, NoChildTyped DEF Init, CameraInit, CameraInv, CameraTypeOK
<1>3. NoRound \in AuthState
  BY Limits DEF NoRound, AuthState
<1>4. AuthSane(NoRound) /\ NoRound.pc = "idle"
  BY DEF NoRound, AuthSane
<1>5. NoSample \in SampleState /\ SampleSane(NoSample) /\ NoSample.pc = "idle"
  BY Limits DEF NoSample, SampleState, SampleSane
<1>6. snapshot \in SnapshotState /\ snapshot.revocation = "none"
  BY DEF Init, SnapshotState
<1> QED
  BY <1>2, <1>3, <1>4, <1>5, <1>6
     DEF Init, IInv, RoundInv, Leased, SnapshotSane, NoCaptureAfterRevocation, Poised

LEMMA StutterKeeps == ASSUME IInv, UNCHANGED vars PROVE IInv'
<1>1. UNCHANGED << child, session, lease, auth, sample, snapshot >> /\ UNCHANGED roundVars
  BY DEF vars, cameraVars, roundVars
<1>2. CameraInv'
  BY <1>1 DEF IInv, CameraInv, CameraTypeOK, Attached
<1>3. RoundInv'
  BY <1>1, RoundStays DEF IInv
<1> QED
  BY <1>1, <1>2, <1>3 DEF IInv, Poised

LEMMA NextKeeps == ASSUME IInv, [Next]_vars PROVE IInv'
<1>1. ASSUME NEW c \in Children, Worker(c) PROVE IInv'
  BY <1>1, WorkerInv
<1>2. ASSUME NEW u \in Users, Provider(u) PROVE IInv'
  BY <1>2, ProviderInv
<1>3. CASE AuthStep
  BY <1>3, AuthBeginsKeeps, AuthLooksKeeps, CaptureBeginsKeeps, CaptureEndsKeeps, AuthEndsKeeps
     DEF AuthStep
<1>4. CASE SampleStep
  BY <1>4, SampleBeginsKeeps, SampleLooksKeeps, SampleEndsKeeps DEF SampleStep
<1>5. CASE Revokes \/ RevokeReturns
  BY <1>5, RevocationKeeps
<1>6. CASE UNCHANGED vars
  BY <1>6, StutterKeeps
<1> QED
  BY <1>1, <1>2, <1>3, <1>4, <1>5, <1>6 DEF Next

-----------------------------------------------------------------------------
(* What the frames have shown.  The authenticator's count is that of the frames *)
(* themselves, but for the end of a round that it was used up in; the window of *)
(* the liveness check counts every frame of the round that is judged.           *)

Backed(a, e) ==
  /\ e.run = a.matches \/ (e.run = RequiredMatches /\ a.matches = 0 /\ a.pc = "closing")
  /\ e.judged = a.evaluated /\ e.spoofs = a.spoofs
  /\ a.outcome = "accepted" => e.run = RequiredMatches

EvidenceInv == evidence \in Evidence /\ Backed(auth, evidence)

\* Before the round ends the two counts are the same.
LEMMA BackedNow ==
  ASSUME NEW a, NEW e, Open(a), Backed(a, e), a.pc # "closing"
  PROVE  e.run = a.matches /\ e.judged = a.evaluated /\ e.spoofs = a.spoofs
BY DEF Backed

\* What the end of a frame does not touch.
LEMMA NextFrameKeepsCounts ==
  ASSUME NEW a, Open(a), a.pc = "looking"
  PROVE  /\ NextFrame(a).matches = a.matches /\ NextFrame(a).evaluated = a.evaluated
         /\ NextFrame(a).spoofs = a.spoofs /\ NextFrame(a).outcome # "accepted"
<1>1. a \in AuthState /\ a.outcome = "none"
  BY DEF Open
<1>2. NextFrame(a) \in {[a EXCEPT !.pc = "closing", !.outcome = "failed", !.frame = a.frame + 1],
                        [a EXCEPT !.frame = a.frame + 1]}
  BY <1>1 DEF NextFrame, Closing, AuthState
<1> QED
  BY <1>1, <1>2 DEF AuthState

LEMMA ClosingKeepsCounts ==
  ASSUME NEW a \in AuthState
  PROVE  /\ Closing(a, "failed").matches = a.matches /\ Closing(a, "failed").evaluated = a.evaluated
         /\ Closing(a, "failed").spoofs = a.spoofs /\ Closing(a, "failed").outcome = "failed"
BY DEF Closing, AuthState

LEMMA TransientKeepsCounts ==
  ASSUME NEW a, Open(a), a.pc = "looking"
  PROVE  /\ AfterTransient(a).matches = a.matches /\ AfterTransient(a).evaluated = a.evaluated
         /\ AfterTransient(a).spoofs = a.spoofs /\ AfterTransient(a).outcome # "accepted"
<1> DEFINE b == [a EXCEPT !.failures = a.failures + 1]
<1>1. AfterTransient(a) = IF b.failures >= MaxFailures THEN Closing(b, "failed") ELSE NextFrame(b)
  BY DEF AfterTransient
<1>2. /\ b \in AuthState /\ b.pc = "looking"
      /\ b.matches = a.matches /\ b.evaluated = a.evaluated /\ b.spoofs = a.spoofs
  BY Limits DEF Open, AuthState
<1>3. CASE b.failures >= MaxFailures
  BY <1>1, <1>2, <1>3, ClosingKeepsCounts
<1>4. CASE ~(b.failures >= MaxFailures)
  <2>1. Open(b)
    BY <1>2, <1>4, Limits DEF Open, AuthState
  <2> HIDE DEF b
  <2> QED
    BY <1>1, <1>2, <1>4, <2>1, NextFrameKeepsCounts
<1> QED
  BY <1>3, <1>4

LEMMA SameCountsBacked ==
  ASSUME NEW a, NEW b, NEW e, Open(a), a.pc # "closing", Backed(a, e),
         b.matches = a.matches, b.evaluated = a.evaluated, b.spoofs = a.spoofs,
         b.outcome # "accepted"
  PROVE  Backed(b, e)
BY DEF Backed

LEMMA RecordsTyped ==
  ASSUME NEW a, Open(a), NEW e \in Evidence, e.judged = a.evaluated, e.spoofs = a.spoofs,
         a.evaluated <= a.frame, NEW seen \in Seen
  PROVE  Records(e, seen) \in Evidence
<1>1. /\ e.run \in 0 .. RequiredMatches
      /\ e.judged \in 0 .. MaxAuthFrames /\ e.spoofs \in 0 .. MaxAuthFrames
  BY DEF Evidence
<1>2. e.judged + 1 \in 0 .. MaxAuthFrames /\ e.spoofs + 1 \in 0 .. MaxAuthFrames
  BY <1>1, OpenParts, Limits DEF Open
<1>3. (IF e.run < RequiredMatches THEN e.run + 1 ELSE e.run) \in 0 .. RequiredMatches
      /\ 0 \in 0 .. RequiredMatches
  BY <1>1, Limits
<1>4. Records(e, seen).run \in 0 .. RequiredMatches
  BY <1>1, <1>3 DEF Records, Seen
<1>5. Records(e, seen).judged \in 0 .. MaxAuthFrames /\ Records(e, seen).spoofs \in 0 .. MaxAuthFrames
  BY <1>1, <1>2 DEF Records
<1>6. Records(e, seen) = [run |-> Records(e, seen).run, judged |-> Records(e, seen).judged,
                          spoofs |-> Records(e, seen).spoofs]
  BY DEF Records
<1> QED
  BY <1>4, <1>5, <1>6 DEF Evidence

\* One frame, as the code counts it and as it is.
LEMMA FrameBacked ==
  ASSUME NEW a, Open(a), a.pc = "looking", a.evaluated <= a.frame, NEW seen \in Seen,
         NEW e \in Evidence, Backed(a, e)
  PROVE  Backed(AfterFrame(a, seen), Records(e, seen))
<1> DEFINE x == Records(e, seen)
           live == Live(a)
           spoof == Spoofed(a)
<1>1. /\ a \in AuthState /\ a.outcome = "none" /\ e.run = a.matches
      /\ e.judged = a.evaluated /\ e.spoofs = a.spoofs /\ a.matches < RequiredMatches
      /\ a.matches \in Nat
  BY BackedNow, OpenParts DEF Open
<1>2. /\ x.run = (CASE seen = "match" -> IF e.run < RequiredMatches THEN e.run + 1 ELSE e.run
                    [] seen \in {"faceless", "spoof", "doubtful"} -> 0
                    [] OTHER -> e.run)
      /\ x.judged = (IF seen \in {"invalid", "black", "faceless"} THEN e.judged ELSE e.judged + 1)
      /\ x.spoofs = (IF seen = "spoof" THEN e.spoofs + 1 ELSE e.spoofs)
  BY DEF Records
<1> HIDE DEF x
<1>3. /\ Open(Valid(a)) /\ Valid(a).pc = "looking" /\ Valid(a).matches = a.matches
      /\ Valid(a).evaluated = a.evaluated /\ Valid(a).spoofs = a.spoofs
  BY ValidOpen
<1>4. /\ Open(live) /\ live.pc = "looking" /\ live.matches = a.matches
      /\ live.evaluated = a.evaluated + 1 /\ live.spoofs = a.spoofs
  BY LiveOpen DEF live
<1>5. /\ Open(spoof) /\ spoof.pc = "looking"
      /\ spoof.evaluated = a.evaluated + 1 /\ spoof.spoofs = a.spoofs + 1
  BY LiveOpen DEF spoof
<1> HIDE DEF spoof, live
<1>6. CASE seen = "invalid"
  <2>1. AfterFrame(a, seen) = AfterTransient(a) /\ x.run = e.run /\ x.judged = e.judged /\ x.spoofs = e.spoofs
    BY <1>2, <1>6 DEF AfterFrame
  <2> QED
    BY <1>1, <2>1, TransientKeepsCounts DEF Backed, x
<1>7. CASE seen = "black"
  <2>1. AfterFrame(a, seen) = NextFrame(Valid(a)) /\ x.run = e.run /\ x.judged = e.judged /\ x.spoofs = e.spoofs
    BY <1>2, <1>7 DEF AfterFrame
  <2> QED
    BY <1>1, <1>3, <2>1, NextFrameKeepsCounts DEF Backed, x
<1>8. CASE seen = "faceless"
  <2>1. AfterFrame(a, seen) = NextFrame(Interrupts(Valid(a))) /\ x.run = 0 /\ x.judged = e.judged
        /\ x.spoofs = e.spoofs
    BY <1>2, <1>8 DEF AfterFrame, Faceless
  <2> QED
    BY <1>1, <1>3, <2>1, InterruptsOpen, NextFrameKeepsCounts DEF Backed, x
<1>9. CASE seen = "modelError"
  <2>1. AfterFrame(a, seen) = Closing(live, "failed") /\ x.run = e.run /\ x.judged = e.judged + 1
        /\ x.spoofs = e.spoofs
    BY <1>2, <1>9 DEF AfterFrame, Live, live
  <2>2. live \in AuthState
    BY <1>4 DEF Open
  <2> QED
    BY <1>1, <1>4, <2>1, <2>2, ClosingKeepsCounts DEF Backed, x
<1>10. CASE seen = "spoof"
  <2>1. AfterFrame(a, seen) = NextFrame(Interrupts(spoof)) /\ x.run = 0 /\ x.judged = e.judged + 1
        /\ x.spoofs = e.spoofs + 1
    BY <1>2, <1>10 DEF AfterFrame, Live, Spoofed, live, spoof
  <2> QED
    BY <1>1, <1>5, <2>1, InterruptsOpen, NextFrameKeepsCounts DEF Backed, x
<1>11. CASE seen = "doubtful"
  <2>1. AfterFrame(a, seen) = NextFrame(Interrupts(live)) /\ x.run = 0 /\ x.judged = e.judged + 1
        /\ x.spoofs = e.spoofs
    BY <1>2, <1>11 DEF AfterFrame, Live, live
  <2> QED
    BY <1>1, <1>4, <2>1, InterruptsOpen, NextFrameKeepsCounts DEF Backed, x
<1>12. CASE seen = "stranger"
  <2>1. AfterFrame(a, seen) = NextFrame(live) /\ x.run = e.run /\ x.judged = e.judged + 1
        /\ x.spoofs = e.spoofs
    BY <1>2, <1>12 DEF AfterFrame, Live, live
  <2> QED
    BY <1>1, <1>4, <2>1, NextFrameKeepsCounts DEF Backed, x
<1>13. CASE seen = "intruder"
  <2>1. AfterFrame(a, seen) = [live EXCEPT !.pc = "capturing"] /\ x.run = e.run
        /\ x.judged = e.judged + 1 /\ x.spoofs = e.spoofs
    BY <1>2, <1>13 DEF AfterFrame, Live, live
  <2>2. live \in AuthState /\ live.outcome = "none"
    BY <1>4 DEF Open
  <2>3. /\ AfterFrame(a, seen).matches = live.matches /\ AfterFrame(a, seen).evaluated = live.evaluated
        /\ AfterFrame(a, seen).spoofs = live.spoofs /\ AfterFrame(a, seen).outcome = "none"
    BY <2>1, <2>2 DEF AuthState
  <2> QED
    BY <1>1, <1>4, <2>1, <2>3 DEF Backed, x
<1>14. CASE seen = "match"
  <2>1. x.run = a.matches + 1 /\ x.judged = e.judged + 1 /\ x.spoofs = e.spoofs
    BY <1>1, <1>2, <1>14
  <2>2. CASE a.matches + 1 < RequiredMatches
    <3>1. AfterFrame(a, seen) = NextFrame(Matched(live))
      BY <1>4, <1>14, <2>2 DEF AfterFrame, Live, live
    <3>2. /\ Open(Matched(live)) /\ Matched(live).pc = "looking" /\ Matched(live).matches = a.matches + 1
          /\ Matched(live).evaluated = live.evaluated /\ Matched(live).spoofs = live.spoofs
      BY <1>4, <2>2, MatchedOpen
    <3> QED
      BY <1>1, <1>4, <2>1, <3>1, <3>2, NextFrameKeepsCounts DEF Backed, x
  <2>3. CASE ~(a.matches + 1 < RequiredMatches)
    <3>1. AfterFrame(a, seen) = [Closing(live, IF SpoofExceeded(live) THEN "failed" ELSE "accepted")
                                   EXCEPT !.matches = 0]
      BY <1>4, <1>14, <2>3 DEF AfterFrame, Live, live
    <3>2. live \in AuthState
      BY <1>4 DEF Open
    <3>3. /\ AfterFrame(a, seen).matches = 0 /\ AfterFrame(a, seen).pc = "closing"
          /\ AfterFrame(a, seen).evaluated = live.evaluated /\ AfterFrame(a, seen).spoofs = live.spoofs
      BY <3>1, <3>2 DEF Closing, AuthState
    <3>4. x.run = RequiredMatches
      BY <1>1, <2>1, <2>3, Limits
    <3> QED
      BY <1>1, <1>4, <2>1, <3>3, <3>4 DEF Backed, x
  <2> QED
    BY <2>2, <2>3
<1> QED
  BY <1>6, <1>7, <1>8, <1>9, <1>10, <1>11, <1>12, <1>13, <1>14 DEF Seen

LEMMA EvidenceStays ==
  ASSUME EvidenceInv, UNCHANGED << auth, evidence >> PROVE EvidenceInv'
BY DEF EvidenceInv

LEMMA LooksBacked == ASSUME IInv, EvidenceInv, AuthLooks PROVE EvidenceInv'
<1>1. Open(auth) /\ auth.pc \in {"opening", "looking"} /\ auth.evaluated <= auth.frame
  BY OpenNow DEF AuthLooks, IInv, RoundInv, AuthSane
<1>2. auth \in AuthState /\ evidence \in Evidence /\ Backed(auth, evidence)
  BY DEF IInv, RoundInv, EvidenceInv
<1>3. CASE auth' = Closing(auth, "failed") /\ UNCHANGED evidence
  <2>1. /\ auth'.matches = auth.matches /\ auth'.evaluated = auth.evaluated
        /\ auth'.spoofs = auth.spoofs /\ auth'.outcome # "accepted"
    BY <1>2, <1>3, ClosingKeepsCounts
  <2> QED
    BY <1>1, <1>2, <1>3, <2>1, SameCountsBacked DEF EvidenceInv
<1>4. CASE auth' = [auth EXCEPT !.pc = "looking"] /\ UNCHANGED evidence
  <2>1. /\ auth'.matches = auth.matches /\ auth'.evaluated = auth.evaluated
        /\ auth'.spoofs = auth.spoofs /\ auth'.outcome # "accepted"
    BY <1>1, <1>2, <1>4 DEF AuthState, Open
  <2> QED
    BY <1>1, <1>2, <1>4, <2>1, SameCountsBacked DEF EvidenceInv
<1>5. CASE auth.pc = "looking" /\ auth' = AfterTransient(auth) /\ UNCHANGED evidence
  <2>1. /\ auth'.matches = auth.matches /\ auth'.evaluated = auth.evaluated
        /\ auth'.spoofs = auth.spoofs /\ auth'.outcome # "accepted"
    BY <1>1, <1>5, TransientKeepsCounts
  <2> QED
    BY <1>1, <1>2, <1>5, <2>1, SameCountsBacked DEF EvidenceInv
<1>6. ASSUME NEW seen \in Seen, auth.pc = "looking",
             auth' = AfterFrame(auth, seen), evidence' = Records(evidence, seen)
      PROVE  EvidenceInv'
  <2>1. evidence.judged = auth.evaluated /\ evidence.spoofs = auth.spoofs
    BY <1>2 DEF Backed
  <2>2. Records(evidence, seen) \in Evidence
    BY <1>1, <1>2, <2>1, RecordsTyped
  <2>3. Backed(AfterFrame(auth, seen), Records(evidence, seen))
    BY <1>1, <1>2, <1>6, FrameBacked
  <2> QED
    BY <1>6, <2>2, <2>3 DEF EvidenceInv
<1> QED
  BY <1>3, <1>4, <1>5, <1>6 DEF AuthLooks

LEMMA CapturesBacked == ASSUME IInv, EvidenceInv, CaptureBegins \/ CaptureEnds PROVE EvidenceInv'
<1>1. Open(auth) /\ auth.pc \in {"capturing", "writing"} /\ auth \in AuthState /\ UNCHANGED evidence
  BY OpenNow DEF CaptureBegins, CaptureEnds, IInv, RoundInv
<1>2. /\ auth'.matches = auth.matches /\ auth'.evaluated = auth.evaluated
      /\ auth'.spoofs = auth.spoofs /\ auth'.outcome # "accepted"
  <2>1. CASE auth' = [auth EXCEPT !.pc = "writing"]
    BY <1>1, <2>1 DEF AuthState, Open
  <2>2. CASE AfterCapture
    <3>1. NextFrame(auth) \in {[auth EXCEPT !.pc = "closing", !.outcome = "failed", !.frame = auth.frame + 1],
                               [auth EXCEPT !.frame = auth.frame + 1]}
      BY <1>1 DEF NextFrame, Closing, AuthState
    <3>2. PICK pc : auth' = [NextFrame(auth) EXCEPT !.pc = pc]
      BY <2>2 DEF AfterCapture
    <3> QED
      BY <1>1, <3>1, <3>2 DEF AuthState, Open
  <2> QED
    BY <2>1, <2>2 DEF CaptureBegins, CaptureEnds
<1> QED
  BY <1>1, <1>2, SameCountsBacked DEF EvidenceInv

\* A count that a round used up is gone with the round; the rest is carried over.
LEMMA EndsBacked ==
  ASSUME IInv, EvidenceInv, AuthBegins \/ AuthEnds PROVE EvidenceInv'
<1>1. /\ auth \in AuthState /\ AuthSane(auth) /\ evidence \in Evidence /\ Backed(auth, evidence)
      /\ 0 \in 0 .. RequiredMatches /\ 0 \in 0 .. MaxAuthFrames
      /\ auth.matches \in 0 .. RequiredMatches - 1
  BY Limits DEF IInv, RoundInv, EvidenceInv, AuthState
<1>2. NoEvidence \in Evidence /\ Backed(NoRound, NoEvidence)
  BY <1>1 DEF NoEvidence, Evidence, NoRound, Backed
<1>3. CASE AuthBegins
  <2>1. auth.pc = "idle" /\ \E same \in BOOLEAN :
          /\ auth' = [(IF same THEN auth ELSE NoRound) EXCEPT !.pc = "opening"]
          /\ evidence' = IF same THEN evidence ELSE NoEvidence
    BY <1>3 DEF AuthBegins
  <2>2. CASE auth' = [auth EXCEPT !.pc = "opening"] /\ evidence' = evidence
    <3>1. /\ auth'.matches = auth.matches /\ auth'.evaluated = auth.evaluated
          /\ auth'.spoofs = auth.spoofs /\ auth'.outcome = "none"
      BY <1>1, <2>1, <2>2 DEF AuthState, AuthSane
    <3> QED
      BY <1>1, <2>1, <2>2, <3>1 DEF EvidenceInv, Backed
  <2>3. CASE auth' = [NoRound EXCEPT !.pc = "opening"] /\ evidence' = NoEvidence
    <3>1. auth'.matches = 0 /\ auth'.evaluated = 0 /\ auth'.spoofs = 0 /\ auth'.outcome = "none"
      BY <2>3 DEF NoRound
    <3> QED
      BY <1>2, <2>3, <3>1 DEF EvidenceInv, Backed, NoEvidence
  <2> QED
    BY <2>1, <2>2, <2>3
<1>4. CASE AuthEnds
  <2>1. /\ auth' = [NoRound EXCEPT !.matches = auth.matches]
        /\ evidence' = [NoEvidence EXCEPT !.run = IF evidence.run = RequiredMatches THEN 0 ELSE evidence.run]
    BY <1>4 DEF AuthEnds
  <2>2. /\ auth'.matches = auth.matches /\ auth'.evaluated = 0 /\ auth'.spoofs = 0 /\ auth'.outcome = "none"
    BY <2>1 DEF NoRound
  <2>3. evidence'.run = auth.matches
    <3>1. evidence'.run = IF evidence.run = RequiredMatches THEN 0 ELSE evidence.run
      BY <2>1 DEF NoEvidence
    <3>2. auth.matches # RequiredMatches
      BY <1>1, Limits
    <3> QED
      BY <1>1, <3>1, <3>2 DEF Backed
  <2>4. evidence'.judged = 0 /\ evidence'.spoofs = 0
    BY <2>1 DEF NoEvidence
  <2>5. evidence' \in Evidence
    <3>1. auth.matches \in 0 .. RequiredMatches
      BY <1>1, Limits
    <3>2. evidence' = [run |-> auth.matches, judged |-> 0, spoofs |-> 0]
      BY <2>1, <2>3 DEF NoEvidence
    <3> QED
      BY <1>1, <3>1, <3>2 DEF Evidence
  <2> QED
    BY <2>2, <2>3, <2>4, <2>5 DEF EvidenceInv, Backed
<1> QED
  BY <1>3, <1>4

LEMMA NextBacked == ASSUME IInv, EvidenceInv, [Next]_vars PROVE EvidenceInv'
<1>1. CASE AuthStep
  BY <1>1, LooksBacked, CapturesBacked, EndsBacked DEF AuthStep
<1>2. CASE ~AuthStep
  <2>1. UNCHANGED << auth, evidence >>
    BY <1>2 DEF Next, Worker, Provider, roundVars, SampleStep, SampleBegins, SampleLooks, SampleEnds,
                Revokes, RevokeReturns, vars
  <2> QED
    BY <2>1, EvidenceStays
<1> QED
  BY <1>1, <1>2

-----------------------------------------------------------------------------
(* The theorems                                                            *)

\* For any number of worker processes and backends and any limits of a round,
\* the invariant that relates lease, providers, workers and rounds holds.
THEOREM InvariantHolds == Spec => []IInv
BY InitEstablishes, NextKeeps, PTL DEF Spec

\* What a provider hears is the answer to its last request, however late
\* workers answer and whenever they are killed (WorkerSession::exchange).
THEOREM AnswersAlwaysMatch == Spec => []AnswersMatchRequests
<1>1. ASSUME IInv PROVE AnswersMatchRequests
  <2> SUFFICES ASSUME NEW u \in Users, Waiting(u),
                      NEW i \in DOMAIN child[session[u].child].answers
               PROVE  child[session[u].child].answers[i].turn = session[u].turn
    BY DEF AnswersMatchRequests
  <2>1. Waits(session[u]) /\ session[u].child # None
    BY <1>1 DEF Waiting, Waits, IInv, CameraInv, SessionSane
  <2>2. Pending(child[session[u].child], session[u].turn)
    BY <1>1, <2>1 DEF IInv, CameraInv, Linked
  <2>3. child[session[u].child].answers # << >>
    OBVIOUS
  <2>4. PICK what \in Answers :
          child[session[u].child].answers = << [what |-> what, turn |-> session[u].turn] >>
    BY <2>2, <2>3 DEF Pending
  <2> QED
    BY <2>4, OneMessage
<1> QED
  BY <1>1, InvariantHolds, PTL

\* A worker that has the camera and was not killed is that of the lease's
\* holder: dropping the lease leaves none behind (CameraLease, Drop of WorkerSession).
THEOREM DeviceAlwaysExclusive == Spec => []DeviceExclusive
<1>1. ASSUME IInv PROVE DeviceExclusive
  <2> SUFFICES ASSUME NEW c \in Children, child[c].device, child[c].state # "killed"
               PROVE  \E u \in Users : session[u].child = c /\ lease = u
    BY DEF DeviceExclusive
  <2>1. PICK u \in Users : session[u].child = c
    BY <1>1 DEF IInv, CameraInv, DeviceSane, Freed, Attached
  <2>2. session[u].pc # "off"
    BY <1>1, <2>1 DEF IInv, CameraInv, SessionSane
  <2> QED
    BY <1>1, <2>1, <2>2 DEF IInv, CameraInv
<1> QED
  BY <1>1, InvariantHolds, PTL

\* What the issuer counts is what the frames have shown, through every round.
THEOREM EvidenceHolds == Spec => []EvidenceInv
<1>1. Init => EvidenceInv
  <2> SUFFICES ASSUME Init PROVE EvidenceInv
    OBVIOUS
  <2>1. 0 \in 0 .. RequiredMatches /\ 0 \in 0 .. MaxAuthFrames
    BY Limits
  <2> QED
    BY <2>1 DEF Init, NoRound, NoEvidence, Evidence, EvidenceInv, Backed
<1>2. IInv /\ EvidenceInv /\ [Next]_vars => EvidenceInv'
  BY NextBacked
<1> QED
  BY <1>1, <1>2, InvariantHolds, PTL DEF Spec

\* Type correctness: one message at most in each pipe, counts within their limits.
THEOREM TypeCorrect == Spec => []TypeOK
<1>1. IInv /\ EvidenceInv => TypeOK
  BY DEF IInv, CameraInv, RoundInv, EvidenceInv, TypeOK
<1> QED
  BY <1>1, InvariantHolds, EvidenceHolds, PTL

\* A face is accepted on as many matching frames as are required, with none in
\* between that shows no live face, and a tolerable share of spoofed frames, for
\* any thresholds (authenticate_from_camera_with_loaded_runtime).
THEOREM AcceptsOnlyOnEvidence == Spec => []AcceptsOnEvidence
<1>1. IInv /\ EvidenceInv => AcceptsOnEvidence
  <2> SUFFICES ASSUME IInv, EvidenceInv, auth.outcome = "accepted"
               PROVE  /\ evidence.run = RequiredMatches
                      /\ evidence.spoofs * SpoofShare[2] <= SpoofShare[1] * evidence.judged
    BY DEF AcceptsOnEvidence
  <2>1. /\ evidence.run = RequiredMatches
        /\ evidence.judged = auth.evaluated /\ evidence.spoofs = auth.spoofs
    BY DEF EvidenceInv, Backed
  <2>2. ~(auth.spoofs * SpoofShare[2] > SpoofShare[1] * auth.evaluated)
    BY DEF IInv, RoundInv, AuthSane, SpoofExceeded
  <2>3. /\ auth.spoofs \in Nat /\ auth.evaluated \in Nat
        /\ SpoofShare[1] \in Nat /\ SpoofShare[2] \in Nat
    BY Limits DEF IInv, RoundInv, AuthState
  <2> QED
    BY <2>1, <2>2, <2>3
<1> QED
  BY <1>1, InvariantHolds, EvidenceHolds, PTL

\* After revoke has returned no snapshot is written (SnapshotPolicy::revoke).
THEOREM NeverCapturesRevoked == Spec => []NoCaptureAfterRevocation
<1>1. IInv => NoCaptureAfterRevocation
  BY DEF IInv, RoundInv, SnapshotSane
<1> QED
  BY <1>1, InvariantHolds, PTL
=============================================================================

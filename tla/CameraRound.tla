----------------------------- MODULE CameraRound -----------------------------
(***************************************************************************)
(* What an authentication job and a presence sample do with the camera:    *)
(* authenticate_from_camera_with_loaded_runtime of auth_issuer.rs and      *)
(* sample_once of presence_person_camera.rs, under the camera lease of     *)
(* camera_runtime.rs and over the worker processes of IsolatedCamera; with *)
(* the frame tolerance, the liveness window, the count of matches and the  *)
(* revocable permission to take snapshots (snapshot_policy.rs).            *)
(***************************************************************************)
EXTENDS IsolatedCamera

CONSTANTS
  Auth, Presence,    \* the two users: the threads that may hold the lease
  MaxAuthFrames,     \* max_auth_frames
  MaxFailures,       \* max_consecutive_failures of the tolerance
  RequiredMatches,   \* required_consecutive_match_count
  SpoofShare         \* max_spoof_frame_ratio << n, m >>: n of m frames

ASSUME RoundAssumption ==
  /\ Users = {Auth, Presence}
  /\ Auth # Presence
  /\ None \notin Users
  /\ {MaxAuthFrames, MaxFailures, RequiredMatches} \subseteq Nat \ {0}
  /\ SpoofShare \in Nat \X Nat

VARIABLES
  lease,       \* active_lease, by its user
  auth,        \* the round of authentication
  sample,      \* the round of presence: failures in a row
  snapshot,    \* the permission of this round's policy generation
  evidence     \* history: what the issuer's frames have shown

roundVars == << lease, auth, sample, snapshot, evidence >>
vars == << cameraVars, roundVars >>

AuthState ==
  [ pc        : {"idle", "opening", "looking", "capturing", "writing", "closing"},
    frame     : 0 .. MaxAuthFrames,
    failures  : 0 .. MaxFailures,
    evaluated : 0 .. MaxAuthFrames,
    spoofs    : 0 .. MaxAuthFrames,
    matches   : 0 .. RequiredMatches - 1,
    outcome   : {"none", "accepted", "failed"} ]

SampleState ==
  [ pc : {"idle", "opening", "looking", "closing"}, failures : 0 .. MaxFailures ]

SnapshotState ==
  [ enabled : BOOLEAN, locked : BOOLEAN, revocation : {"none", "draining", "done"} ]

\* Matching frames since the last one without one live face, as many as are
\* required at most; and of this round the frames judged, and those of spoofs.
Evidence ==
  [ run : 0 .. RequiredMatches, judged : 0 .. MaxAuthFrames, spoofs : 0 .. MaxAuthFrames ]

TypeOK ==
  /\ CameraTypeOK
  /\ lease \in Users \cup {None}
  /\ auth \in AuthState
  /\ sample \in SampleState
  /\ snapshot \in SnapshotState
  /\ evidence \in Evidence

NoRound ==
  [ pc |-> "idle", frame |-> 0, failures |-> 0, evaluated |-> 0, spoofs |-> 0,
    matches |-> 0, outcome |-> "none" ]
NoSample == [pc |-> "idle", failures |-> 0]
NoEvidence == [run |-> 0, judged |-> 0, spoofs |-> 0]

Init ==
  /\ CameraInit
  /\ lease = None
  /\ auth = NoRound
  /\ sample = NoSample
  /\ snapshot = [enabled |-> TRUE, locked |-> FALSE, revocation |-> "none"]
  /\ evidence = NoEvidence

-----------------------------------------------------------------------------
(* The lease (camera_runtime.rs).  Sessions are locked and unlocked at any *)
(* time, so the interface state keeps nobody from it for good.             *)

Acquires(u) ==
  /\ lease = None
  /\ lease' = u
  /\ session' = [session EXCEPT ![u] = StartsOpening(@)]
  /\ UNCHANGED child

\* Mutant: the lease is dropped while the provider still closes.
Releases_BeforeClose(u) ==
  /\ lease' = None
  /\ UNCHANGED cameraVars

\* The lease is dropped after the provider, whose thread has come back from close.
Releases(u) ==
  /\ session[u].pc = "off"
  /\ lease' = None
  /\ UNCHANGED cameraVars

\* Inside open, read_frame and close.
Provider(u) ==
  /\ session[u].pc \notin {"ready", "failed", "got"}
  /\ ProviderStep(u)
  /\ UNCHANGED roundVars

Worker(c) == WorkerStep(c) /\ UNCHANGED roundVars

-----------------------------------------------------------------------------
(* Authentication                                                          *)

\* The same issuer, or after a reload a new one with a policy of its own.
AuthBegins ==
  /\ auth.pc = "idle"
  /\ Acquires(Auth)
  /\ \E same \in {TRUE, snapshot.revocation # "done"} :
       /\ auth' = [(IF same THEN auth ELSE NoRound) EXCEPT !.pc = "opening"]
       /\ snapshot' = IF same THEN snapshot
                      ELSE [enabled |-> TRUE, locked |-> FALSE, revocation |-> "none"]
       /\ evidence' = IF same THEN evidence ELSE NoEvidence
  /\ UNCHANGED sample

Closing(a, outcome) == [a EXCEPT !.pc = "closing", !.outcome = outcome]

\* After the last frame there is no other outcome than the last rejection.
NextFrame(a) ==
  IF a.frame + 1 = MaxAuthFrames THEN [Closing(a, "failed") EXCEPT !.frame = @ + 1]
  ELSE [a EXCEPT !.frame = @ + 1]

\* handle_auth_transient_frame_failure
AfterTransient(a) ==
  LET b == [a EXCEPT !.failures = @ + 1] IN
  IF b.failures >= MaxFailures THEN Closing(b, "failed") ELSE NextFrame(b)

Valid(a) == [a EXCEPT !.failures = 0]
Matched(a) == [a EXCEPT !.matches = @ + 1]

\* reset_consecutive_matches
Interrupts(a) == [a EXCEPT !.matches = 0]

\* Mutant: matches before a frame without a face still count.
Faceless_Counting(a) == NextFrame(Valid(a))

\* detect_single_face finds no face, or several.
Faceless(a) == NextFrame(Interrupts(Valid(a)))

\* reject_unlock_candidate_if_spoof_ratio_exceeded
SpoofExceeded(a) == a.spoofs * SpoofShare[2] > SpoofShare[1] * a.evaluated

\* One frame, from its validation to what the authenticator says of it.  A face
\* that does not match, and one too unlike to be the owner's, leave the count of
\* matches as it is.
AfterFrame(a, seen) ==
  LET live == [Valid(a) EXCEPT !.evaluated = @ + 1]
      spoof == [live EXCEPT !.spoofs = @ + 1] IN
  CASE seen = "invalid"     -> AfterTransient(a)
    [] seen = "black"       -> NextFrame(Valid(a))
    [] seen = "faceless"    -> Faceless(a)
    [] seen = "modelError"  -> Closing(live, "failed")
    [] seen = "spoof"       -> NextFrame(Interrupts(spoof))
    [] seen = "doubtful"    -> NextFrame(Interrupts(live))
    [] seen = "stranger"    -> NextFrame(live)
    [] seen = "intruder"    -> [live EXCEPT !.pc = "capturing"]
    [] seen = "match"       ->
         IF live.matches + 1 < RequiredMatches THEN NextFrame(Matched(live))
         ELSE [Closing(live, IF SpoofExceeded(live) THEN "failed" ELSE "accepted")
                 EXCEPT !.matches = 0]

Seen == {"invalid", "black", "faceless", "modelError", "spoof", "doubtful", "stranger",
         "intruder", "match"}

\* What a frame shows, whatever the code makes of it.
Records(e, seen) ==
  [ run    |-> CASE seen = "match" -> IF e.run < RequiredMatches THEN e.run + 1 ELSE e.run
                 [] seen \in {"faceless", "spoof", "doubtful"} -> 0
                 [] OTHER -> e.run,
    judged |-> IF seen \in {"invalid", "black", "faceless"} THEN e.judged ELSE e.judged + 1,
    spoofs |-> IF seen = "spoof" THEN e.spoofs + 1 ELSE e.spoofs ]

\* The thread between two calls of the provider.
AuthLooks ==
  LET s == session[Auth] IN
  /\ \/ /\ auth.pc = "opening" /\ s.pc = "failed"
        /\ auth' = Closing(auth, "failed") /\ session' = [session EXCEPT ![Auth] = Off]
        /\ UNCHANGED << child, evidence >>
     \/ /\ auth.pc \in {"opening", "looking"} /\ s.pc = "ready"
        /\ auth' = [auth EXCEPT !.pc = "looking"] /\ ReadsFrame(Auth)
        /\ UNCHANGED evidence
     \/ /\ auth.pc = "looking" /\ s.pc = "got"
        /\ \/ /\ s.result = "frame"
              /\ \E seen \in Seen : /\ auth' = AfterFrame(auth, seen)
                                   /\ evidence' = Records(evidence, seen)
           \/ s.result = "transient" /\ auth' = AfterTransient(auth) /\ UNCHANGED evidence
           \/ s.result = "fatal" /\ auth' = Closing(auth, "failed") /\ UNCHANGED evidence
        /\ session' = [session EXCEPT ![Auth] =
                         IF auth'.pc = "closing" THEN CloseCalled(@) ELSE Continues(@)]
        /\ UNCHANGED child
  /\ UNCHANGED << lease, sample, snapshot >>

\* The round goes on with its next frame, or ends.
AfterCapture ==
  /\ auth' = [NextFrame(auth) EXCEPT !.pc = IF @ = "closing" THEN @ ELSE "looking"]
  /\ session' = [session EXCEPT ![Auth] = IF auth'.pc = "closing" THEN CloseCalled(@) ELSE @]

\* SnapshotPolicy::capture: the lock, and under it the permission.
CaptureBegins ==
  /\ auth.pc = "capturing"
  /\ ~snapshot.locked
  /\ IF snapshot.enabled
     THEN /\ auth' = [auth EXCEPT !.pc = "writing"]
          /\ snapshot' = [snapshot EXCEPT !.locked = TRUE]
          /\ UNCHANGED session
     ELSE /\ AfterCapture
          /\ UNCHANGED snapshot
  /\ UNCHANGED << child, lease, sample, evidence >>

CaptureEnds ==
  /\ auth.pc = "writing"
  /\ AfterCapture
  /\ snapshot' = [snapshot EXCEPT !.locked = FALSE]
  /\ UNCHANGED << child, lease, sample, evidence >>

AuthEnds ==
  /\ auth.pc = "closing"
  /\ Releases(Auth)
  /\ auth' = [NoRound EXCEPT !.matches = auth.matches]
  /\ evidence' = [NoEvidence EXCEPT !.run = IF evidence.run = RequiredMatches THEN 0 ELSE evidence.run]
  /\ UNCHANGED << sample, snapshot >>

AuthStep == AuthBegins \/ AuthLooks \/ CaptureBegins \/ CaptureEnds \/ AuthEnds

-----------------------------------------------------------------------------
(* Revocation: settings updates and reloads, on the thread of the request  *)

\* Mutant: revocation does not wait for a capture under way.
Revokes_Undrained ==
  /\ snapshot.revocation = "none"
  /\ snapshot' = [snapshot EXCEPT !.enabled = FALSE, !.revocation = "done"]
  /\ UNCHANGED << cameraVars, lease, auth, sample, evidence >>

Revokes ==
  /\ snapshot.revocation = "none"
  /\ snapshot' = [snapshot EXCEPT !.enabled = FALSE, !.revocation = "draining"]
  /\ UNCHANGED << cameraVars, lease, auth, sample, evidence >>

\* Mutant: revoke waits for the round, not only for the write.
RevokeReturns_AfterRound ==
  /\ snapshot.revocation = "draining"
  /\ auth.pc = "idle"
  /\ snapshot' = [snapshot EXCEPT !.revocation = "done"]
  /\ UNCHANGED << cameraVars, lease, auth, sample, evidence >>

RevokeReturns ==
  /\ snapshot.revocation = "draining"
  /\ ~snapshot.locked
  /\ snapshot' = [snapshot EXCEPT !.revocation = "done"]
  /\ UNCHANGED << cameraVars, lease, auth, sample, evidence >>

-----------------------------------------------------------------------------
(* A presence sample                                                       *)

SampleBegins ==
  /\ sample.pc = "idle"
  /\ Acquires(Presence)
  /\ sample' = [pc |-> "opening", failures |-> 0]
  /\ UNCHANGED << auth, snapshot, evidence >>

\* record_transient_frame_failure
SampleFailure(s) ==
  [s EXCEPT !.failures = @ + 1, !.pc = IF s.failures + 1 >= MaxFailures THEN "closing" ELSE @]

\* A valid frame starts the count of failures anew, before the detector sees it.
AfterSampleFrame(s, seen) ==
  CASE seen = "invalid" -> SampleFailure(s)
    [] seen = "refused" -> SampleFailure([s EXCEPT !.failures = 0])
    [] seen = "decided" -> [s EXCEPT !.failures = 0, !.pc = "closing"]

SampleLooks ==
  LET s == session[Presence] IN
  /\ \/ /\ sample.pc = "opening" /\ s.pc = "failed"
        /\ sample' = [sample EXCEPT !.pc = "closing"]
        /\ session' = [session EXCEPT ![Presence] = Off]
        /\ UNCHANGED child
     \/ /\ sample.pc \in {"opening", "looking"} /\ s.pc = "ready"
        /\ sample' = [sample EXCEPT !.pc = "looking"] /\ ReadsFrame(Presence)
     \/ /\ sample.pc = "looking" /\ s.pc = "got"
        /\ sample' \in CASE s.result = "frame" ->
                              {AfterSampleFrame(sample, seen) : seen \in {"invalid", "refused", "decided"}}
                         [] s.result = "transient" -> {SampleFailure(sample)}
                         [] s.result = "fatal"     -> {[sample EXCEPT !.pc = "closing"]}
        /\ session' = [session EXCEPT ![Presence] =
                         IF sample'.pc = "closing" THEN CloseCalled(@) ELSE Continues(@)]
        /\ UNCHANGED child
  /\ UNCHANGED << lease, auth, snapshot, evidence >>

SampleEnds ==
  /\ sample.pc = "closing"
  /\ Releases(Presence)
  /\ sample' = NoSample
  /\ UNCHANGED << auth, snapshot, evidence >>

SampleStep == SampleBegins \/ SampleLooks \/ SampleEnds

-----------------------------------------------------------------------------
Next ==
  \/ \E c \in Children : Worker(c)
  \/ \E u \in Users : Provider(u)
  \/ AuthStep \/ SampleStep \/ Revokes \/ RevokeReturns

Spec == Init /\ [][Next]_vars

\* The service's own threads run; nothing is said of the worker processes, of
\* the drivers and the detector in them, or of when a session is locked.
FairSpec ==
  /\ Spec
  /\ \A u \in Users : WF_vars(Provider(u))
  /\ WF_vars(AuthLooks) /\ WF_vars(CaptureBegins) /\ WF_vars(CaptureEnds) /\ WF_vars(AuthEnds)
  /\ WF_vars(SampleLooks) /\ WF_vars(SampleEnds)
  /\ WF_vars(RevokeReturns)

-----------------------------------------------------------------------------
(* Safety                                                                  *)

(* What a user hears is the answer to what it asked last, however late a
   worker answers: the pipes do not say which request an answer is to. *)
AnswersMatchRequests ==
  \A u \in Users : Waiting(u) =>
    \A i \in DOMAIN child[session[u].child].answers :
      child[session[u].child].answers[i].turn = session[u].turn

(* Two workers have the camera at the same time only if one of them was killed
   and its driver has not let go: a user that gives up the lease leaves no live
   worker behind, whatever way its round ended. *)
DeviceExclusive ==
  \A c \in Children : child[c].device /\ child[c].state # "killed" =>
    \E u \in Users : session[u].child = c /\ lease = u

(* A face is accepted only on as many matching frames as are required, with no
   frame between them that shows no face or several, a spoof, or a face not
   known to be alive, and in a round whose spoofed frames are a tolerable share
   of those judged: counted over the frames themselves, across the rounds of one
   issuer, through lost frames, captures and reloads (auth_issuer.rs resets the
   count at each of its early ends of a frame). *)
AcceptsOnEvidence ==
  auth.outcome = "accepted" =>
    /\ evidence.run = RequiredMatches
    /\ evidence.spoofs * SpoofShare[2] <= SpoofShare[1] * evidence.judged

(* After revoke has returned no snapshot of that policy is being written
   (snapshot_policy.rs: "After this returns no worker with this policy can
   write another snapshot"). *)
NoCaptureAfterRevocation == snapshot.revocation = "done" => auth.pc # "writing"

-----------------------------------------------------------------------------
(* Liveness                                                                *)

\* A round of authentication ends and gives the camera back, whatever the
\* driver does: every exchange has its time-out, every loop its limit.
AuthReleasesLease == lease = Auth ~> lease # Auth

(* A sampling window ends and gives the camera back
   (docs/PRESENCE_LOCK_FINAL_SAMPLING_POLICY.md: "Each allowed sampling round
   must be bounded"). *)
SampleReleasesLease == lease = Presence ~> lease # Presence

\* Only a valid frame the detector refuses brings a count of failures back to one.
RefusesAgain ==
  /\ SampleLooks
  /\ sample.failures > 0 /\ sample'.failures = 1
  /\ sample'.pc = "looking"

(* Whoever leases the camera gives it back, although workers hang, crash and
   answer late and the other user has its worker killed: but for a sample whose
   detector refuses one valid frame after another for ever, as each of them
   starts the count of failures anew (presence_person_camera.rs:149). *)
RoundsReleaseLease ==
  AuthReleasesLease /\ (SampleReleasesLease \/ []<><<RefusesAgain>>_vars)

(* Nobody waits for ever in revoke for a snapshot that is being written. *)
RevocationReturns == snapshot.revocation = "draining" ~> snapshot.revocation = "done"
=============================================================================

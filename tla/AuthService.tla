----------------------------- MODULE AuthService -----------------------------
(***************************************************************************)
(* The service's authentication core: ServiceRequestHandler of src/crates/ *)
(* ipc, and behind it DevelopmentAuthGrantIssuer and                       *)
(* CameraAuthOrchestrator of src/crates/win_service.                       *)
(*                                                                         *)
(* The handler serves one pipe request at a time; the orchestrator's jobs  *)
(* are threads that run beside it.  Two Arcs join them, the set of running *)
(* sessions and the cache of outcomes, each with a lock of its own: a wake *)
(* goes from the one to the other in two steps.  Invalidation replaces     *)
(* both Arcs: a job of before then writes where nobody reads, which is     *)
(* what attached = FALSE stands for.  Any client may send any request at   *)
(* any time; whether a response arrives makes no difference to the service. *)
(***************************************************************************)
EXTENDS GrantRegistry

CONSTANTS
  Jobs,          \* auth threads that may be alive together
  PendingTTL,    \* PENDING_AUTH_RESULT_TTL_MS (5 min)
  MaxEpoch,      \* bound: changes of the authentication policy
  Cancels        \* do clients send Cancel?

ASSUME ServiceAssumption ==
  /\ None \notin Sessions
  /\ PendingTTL \in Nat \ {0}
  /\ MaxEpoch \in Nat
  /\ Cancels \in BOOLEAN

VARIABLES
  now,        \* the wall clock
  sequence,   \* NEXT_CAMERA_GRANT_SEQUENCE, and the simulated issuer's
  pending,    \* pending_auth_sessions: session -> when started, or None
  auth_mode,  \* which issuer answers; "Unavailable" after a failed reload
  issuer,     \* identity of the loaded LocalCameraAuthGrantIssuer (a mutex)
  running,    \* running_sessions of the current orchestrator
  cached,     \* cached_grant_outcomes of the current orchestrator
  waking,     \* the session whose wake has left the cache for the running ones, or None
  job,        \* thread -> its control state
  epoch,      \* history: number of authentication policies so far
  redeemed    \* history: grant -> credentials handed out for it

handlerVars == << pending, redeemed, waking >>
issuerVars  == << auth_mode, issuer, running, cached, epoch >>
vars == << now, sequence, pending, auth_mode, issuer, running, cached, waking, job,
           epoch, redeemed, body, grants_by_id >>

-----------------------------------------------------------------------------

Epochs    == 0 .. MaxEpoch
Failed    == 0
Outcomes  == Grants \cup {None, Failed}
AuthModes == {"LocalCamera", "ManualTestOnly", "Unavailable"}

JobState ==
  [ pc       : {"idle", "queued", "authenticating", "closing", "failed", "ending"},
    session  : Sessions \cup {None},
    issuer   : Epochs,
    epoch    : Epochs,               \* history: the policy it was started under
    attached : BOOLEAN,
    grant    : Grants \cup {None} ]    \* reserved, while it authenticates

IdleJob == [ pc |-> "idle", session |-> None, issuer |-> 0, epoch |-> 0,
             attached |-> FALSE, grant |-> None ]

TypeOK ==
  /\ now \in Times
  /\ sequence \in 1 .. MaxGrants + 1
  /\ pending \in [Sessions -> Times \cup {None}]
  /\ auth_mode \in AuthModes
  /\ issuer \in Epochs
  /\ running \in SUBSET Sessions
  /\ cached \in [Sessions -> Outcomes]
  /\ waking \in Sessions \cup {None}
  /\ job \in [Jobs -> JobState]
  /\ epoch \in Epochs
  /\ redeemed \in [Grants -> Nat]
  /\ body \in [Grants -> AuthGrant(Epochs) \cup {NoGrant}]
  /\ grants_by_id \in [Grants -> Redemption]

NoOutcomes == [s \in Sessions |-> None]

Init ==
  /\ RegistryInit
  /\ now = 0
  /\ sequence = 1
  /\ pending = [s \in Sessions |-> None]
  /\ auth_mode \in AuthModes
  /\ issuer = 0
  /\ running = {}
  /\ cached = NoOutcomes
  /\ waking = None
  /\ job = [j \in Jobs |-> IdleJob]
  /\ epoch = 0
  /\ redeemed = [g \in Grants |-> 0]

-----------------------------------------------------------------------------
(* Time                                                                    *)

\* What a later reading of the clock may give; nobody sets it back.
Later(time) == {t \in Times : time <= t /\ t <= time + 1}

Tick ==
  /\ now' \in Later(now) \ {now}
  /\ UNCHANGED << sequence, handlerVars, issuerVars, job, registryVars >>

-----------------------------------------------------------------------------
(* ServiceRequestHandler                                                   *)

\* What every request does first.
PrunedGrants == RemoveExpired(grants_by_id, now)

PrunedPending ==
  [s \in Sessions |->
     IF pending[s] # None /\ now >= pending[s] /\ now - pending[s] < PendingTTL
     THEN pending[s] ELSE None]

\* AuthGrantIssueResult::Issued: tracked, unless the registry refuses it.
WakeIssued(s, g) ==
  \E time \in Later(now) :
    /\ now' = time
    /\ grants_by_id' = Insert(PrunedGrants, g, body[g], time)
    /\ pending' = [PrunedPending EXCEPT ![s] = None]

WakeStarted(s) ==
  /\ pending' = [PrunedPending EXCEPT ![s] = now]
  /\ grants_by_id' = PrunedGrants
  /\ UNCHANGED now

WakeFailed(s) ==
  /\ pending' = [PrunedPending EXCEPT ![s] = None]
  /\ grants_by_id' = PrunedGrants
  /\ UNCHANGED now

\* A grant cached for pickup answers the wake at once, as often as it is asked.
CacheHit(s) == cached[s] \in Grants /\ ~IsExpiredAt(cached[s], now)

WakeFromCache(s) ==
  /\ auth_mode = "LocalCamera"
  /\ CacheHit(s)
  /\ WakeIssued(s, cached[s])
  /\ UNCHANGED << sequence, issuerVars, job, redeemed, body >>

\* Otherwise the old outcome is dropped under the lock of the cache.  Pending
\* sessions are the handler's own: the entry is made here already, and taken
\* back where the wake fails.
WakeLooks(s) ==
  /\ waking = None
  /\ auth_mode = "LocalCamera"
  /\ ~CacheHit(s)
  /\ cached' = [cached EXCEPT ![s] = None]
  /\ waking' = s
  /\ WakeStarted(s)
  /\ UNCHANGED << sequence, auth_mode, issuer, running, job, epoch, redeemed, body >>

\* Under the lock of the running sessions, whatever a job did in between: one
\* that is said to run is not started again.
WakeAttaches(s) ==
  /\ waking = s
  /\ s \in running
  /\ waking' = None
  /\ UNCHANGED << now, sequence, pending, issuerVars, job, redeemed, registryVars >>

WakeSpawns(s) ==
  /\ waking = s
  /\ s \notin running
  /\ running' = running \cup {s}
  /\ \E j \in Jobs :
       /\ job[j].pc = "idle"
       /\ job' = [job EXCEPT ![j] = [IdleJob EXCEPT !.pc = "queued", !.session = s,
                                                    !.issuer = issuer, !.epoch = epoch,
                                                    !.attached = TRUE]]
  /\ waking' = None
  /\ UNCHANGED << now, sequence, pending, auth_mode, issuer, cached, epoch, redeemed, registryVars >>

\* No thread can be had.
WakeGivesUp(s) ==
  /\ waking = s
  /\ s \notin running
  /\ pending' = [pending EXCEPT ![s] = None]
  /\ waking' = None
  /\ UNCHANGED << now, sequence, issuerVars, job, redeemed, registryVars >>

\* The source is one that is not served: no camera issuer is loaded,
\* VehicleCamera, or anything while unavailable.
WakeRefused(s) ==
  /\ WakeFailed(s)
  /\ UNCHANGED << sequence, issuerVars, job, redeemed, body >>

\* The simulated issuer of AuthSource::ManualTest grants at once.
WakeManual(s) ==
  LET grant == [session |-> s, issued_at |-> now, expires_at |-> now + GrantTTL, epoch |-> epoch]
  IN
  /\ auth_mode # "Unavailable"
  /\ sequence \in Grants
  /\ sequence' = sequence + 1
  /\ body' = [body EXCEPT ![sequence] = grant]
  /\ \E time \in Later(now) :
       /\ now' = time
       /\ grants_by_id' = Insert(PrunedGrants, sequence, grant, time)
       /\ pending' = [PrunedPending EXCEPT ![s] = None]
  /\ UNCHANGED << issuerVars, job, redeemed >>

\* A request that changes nothing but what has run out: HealthCheck, a
\* credential fetch that is refused, a result that is not pending or not there.
OnlyPrunes ==
  /\ grants_by_id' = PrunedGrants
  /\ pending' = PrunedPending
  /\ UNCHANGED << now, sequence, issuerVars, job, redeemed, body >>

\* FetchAuthResult of a pending session whose outcome is known.
FetchGrant(s) ==
  /\ PrunedPending[s] # None
  /\ auth_mode = "LocalCamera"
  /\ cached[s] \in Grants
  /\ WakeIssued(s, cached[s])
  /\ UNCHANGED << sequence, issuerVars, job, redeemed, body >>

FetchFailure(s) ==
  /\ PrunedPending[s] # None
  /\ \/ auth_mode = "Unavailable"
     \/ auth_mode = "LocalCamera" /\ cached[s] = Failed
  /\ WakeFailed(s)
  /\ UNCHANGED << sequence, issuerVars, job, redeemed, body >>

\* FetchCredential and FetchCredentialMaterial: the grant is spent even when
\* the credential then cannot be resolved.
FetchCredential(s, g, nonce) ==
  \E time \in Later(now), resolved \in BOOLEAN :
    /\ CanRedeem(PrunedGrants, g, nonce, s, time)
    /\ now' = time
    /\ grants_by_id' = Redeem(PrunedGrants, g)
    /\ redeemed' = IF resolved THEN [redeemed EXCEPT ![g] = @ + 1] ELSE redeemed
    /\ pending' = PrunedPending
    /\ UNCHANGED << sequence, issuerVars, job, body >>

\* Cancel does not stop a job, nor does it part it from the collections.  Its two
\* locks are one step: what a job does between them it could have done before.
Cancel(s) ==
  /\ Cancels
  /\ running' = running \ {s}
  /\ cached' = [cached EXCEPT ![s] = None]
  /\ pending' = [PrunedPending EXCEPT ![s] = None]
  /\ grants_by_id' = RevokeForSession(PrunedGrants, s)
  /\ UNCHANGED << now, sequence, auth_mode, issuer, epoch, job, redeemed, body >>

-----------------------------------------------------------------------------
(* Configuration changes                                                   *)

InvalidateAuthState ==
  /\ grants_by_id' = RevokeAll(PrunedGrants)
  /\ pending' = [s \in Sessions |-> None]

\* Mutant: the collections are cleared instead of replaced.
DetachJobs_Clears ==
  /\ epoch < MaxEpoch
  /\ epoch' = epoch + 1
  /\ running' = {}
  /\ cached' = NoOutcomes
  /\ UNCHANGED job

\* invalidate_results, or the orchestrator is dropped.
DetachJobs ==
  /\ epoch < MaxEpoch
  /\ epoch' = epoch + 1
  /\ running' = {}
  /\ cached' = NoOutcomes
  /\ job' = [j \in Jobs |-> [job[j] EXCEPT !.attached = FALSE]]

\* UpdateSettings with a patch that is empty or out of range.
ConfigRejected ==
  /\ InvalidateAuthState
  /\ UNCHANGED << now, sequence, issuerVars, job, redeemed, body >>

\* The issuer stays, its results go: the camera is unknown, settings cannot be
\* stored, or the patch only turns snapshots off.
ResultsDropped ==
  /\ InvalidateAuthState
  /\ auth_mode = "LocalCamera"
  /\ DetachJobs
  /\ UNCHANGED << now, sequence, auth_mode, issuer, redeemed, body >>

\* reload_with_config_loader: the old issuer is dropped before anything can
\* fail, and a new one, if any, is a new mutex.
Reload ==
  /\ InvalidateAuthState
  /\ DetachJobs
  /\ auth_mode' \in AuthModes
  /\ issuer' = epoch + 1
  /\ UNCHANGED << now, sequence, redeemed, body >>

-----------------------------------------------------------------------------
(* An auth job                                                             *)

Holding == {"authenticating", "closing"}

\* issuer.lock(), then a grant number is reserved, come what may.
JobAcquires(j) ==
  /\ job[j].pc = "queued"
  /\ \A k \in Jobs : job[k].pc \in Holding => job[k].issuer # job[j].issuer
  /\ IF sequence \in Grants
     THEN /\ job' = [job EXCEPT ![j].pc = "authenticating", ![j].grant = sequence]
          /\ sequence' = sequence + 1
     ELSE /\ job' = [job EXCEPT ![j].pc = "failed"]
          /\ UNCHANGED sequence
  /\ UNCHANGED << now, handlerVars, issuerVars, registryVars >>

\* A frame is accepted: the grant is published before the camera is closed.
JobAccepts(j) ==
  /\ job[j].pc = "authenticating"
  /\ body' = [body EXCEPT ![job[j].grant] =
                [session |-> job[j].session, issued_at |-> now, expires_at |-> now + GrantTTL,
                 epoch |-> job[j].epoch]]
  /\ cached' = IF job[j].attached
               THEN [cached EXCEPT ![job[j].session] = job[j].grant] ELSE cached
  /\ job' = [job EXCEPT ![j].pc = "closing", ![j].grant = None]
  /\ UNCHANGED << now, sequence, handlerVars, auth_mode, issuer, running, epoch, grants_by_id >>

JobRejects(j) ==
  /\ job[j].pc = "authenticating"
  /\ job' = [job EXCEPT ![j].pc = "failed", ![j].grant = None]
  /\ UNCHANGED << now, sequence, handlerVars, issuerVars, registryVars >>

JobCloses(j) ==
  /\ job[j].pc = "closing"
  /\ job' = [job EXCEPT ![j].pc = "ending"]
  /\ UNCHANGED << now, sequence, handlerVars, issuerVars, registryVars >>

JobRecordsFailure(j) ==
  /\ job[j].pc = "failed"
  /\ cached' = IF job[j].attached
               THEN [cached EXCEPT ![job[j].session] = Failed] ELSE cached
  /\ job' = [job EXCEPT ![j].pc = "ending"]
  /\ UNCHANGED << now, sequence, handlerVars, auth_mode, issuer, running, epoch, registryVars >>

\* Mutant: the session is left among the running ones.
JobEnds_StaysRunning(j) ==
  /\ job[j].pc = "ending"
  /\ job' = [job EXCEPT ![j] = IdleJob]
  /\ UNCHANGED << now, sequence, handlerVars, issuerVars, registryVars >>

JobEnds(j) ==
  /\ job[j].pc = "ending"
  /\ running' = IF job[j].attached THEN running \ {job[j].session} ELSE running
  /\ job' = [job EXCEPT ![j] = IdleJob]
  /\ UNCHANGED << now, sequence, handlerVars, auth_mode, issuer, cached, epoch, registryVars >>

-----------------------------------------------------------------------------

\* A request that is served in one step.
Request(s) ==
  \/ WakeFromCache(s) \/ WakeRefused(s) \/ WakeManual(s)
  \/ FetchGrant(s) \/ FetchFailure(s)
  \/ \E g, nonce \in Grants : FetchCredential(s, g, nonce)
  \/ Cancel(s)

WakeStep(s) == WakeLooks(s) \/ WakeAttaches(s) \/ WakeSpawns(s) \/ WakeGivesUp(s)

ConfigChange == ConfigRejected \/ ResultsDropped \/ Reload

\* The handler serves no request while a wake is under way.
HandlerStep == (\E s \in Sessions : Request(s)) \/ OnlyPrunes \/ ConfigChange

JobStep(j) ==
  \/ JobAcquires(j) \/ JobAccepts(j) \/ JobRejects(j)
  \/ JobCloses(j) \/ JobRecordsFailure(j) \/ JobEnds(j)

Next ==
  \/ Tick
  \/ waking = None /\ UNCHANGED waking /\ HandlerStep
  \/ \E s \in Sessions : WakeStep(s)
  \/ \E j \in Jobs : JobStep(j)

Spec == Init /\ [][Next]_vars

\* Threads run, authentication is bounded by max_auth_frames, and a thread that
\* keeps asking for the issuer's mutex gets it in the end.
FairSpec == Spec /\ \A j \in Jobs : SF_vars(JobAcquires(j)) /\ WF_vars(JobStep(j))

-----------------------------------------------------------------------------
(* Safety                                                                  *)

(* A grant yields one credential at most, although the cache goes on offering
   it for pickup and expiry makes the registry forget that it was used. *)
GrantsSpentOnce == \A g \in Grants : redeemed[g] <= 1

(* What was authenticated under one policy is never exchanged under another:
   not from the registry, not from the cache, not by a job that outlives the
   change (invalidate_auth_state, invalidate_results, reload). *)
OldPolicyNeverAuthorizes ==
  [][\A g \in Grants : redeemed'[g] # redeemed[g] => body[g].epoch = epoch]_vars

-----------------------------------------------------------------------------
(* The inductive invariant behind GrantsSpentOnce, OldPolicyNeverAuthorizes    *)
(* and ImplementsOneTimeGrants                                             *)

\* Numbers from sequence on are untouched, and a number belongs to one job.
SequenceFresh ==
  /\ \A g \in Grants : g >= sequence =>
       body[g] = NoGrant /\ grants_by_id[g] = "Absent" /\ redeemed[g] = 0
  /\ \A j \in Jobs : job[j].pc = "authenticating" =>
       /\ job[j].grant \in Grants /\ job[j].grant < sequence
       /\ body[job[j].grant] = NoGrant
       /\ grants_by_id[job[j].grant] = "Absent"
       /\ redeemed[job[j].grant] = 0
  /\ \A j, k \in Jobs :
       job[j].pc = "authenticating" /\ job[k].pc = "authenticating" /\ j # k
         => job[j].grant # job[k].grant

\* Only the current policy's grants are on offer.
OnOffer ==
  /\ \A g \in Grants : grants_by_id[g] = "Available" => Issued(g) /\ body[g].epoch = epoch
  /\ \A s \in Sessions : cached[s] \in Grants =>
       Issued(cached[s]) /\ body[cached[s]].epoch = epoch /\ body[cached[s]].session = s
  /\ \A j \in Jobs : job[j].pc # "idle" /\ job[j].attached => job[j].epoch = epoch

\* A grant that was spent is remembered until it has expired.
SpentRemembered ==
  \A g \in Grants : redeemed[g] > 0 =>
    /\ redeemed[g] = 1
    /\ Issued(g)
    /\ grants_by_id[g] \in {"Redeemed", "Revoked"} \/ IsExpiredAt(g, now)

\* Jobs and grants stem from the policies so far.
PoliciesPast ==
  /\ \A g \in Grants : Issued(g) => body[g].epoch <= epoch
  /\ \A j \in Jobs : job[j].pc # "idle" => job[j].session \in Sessions /\ job[j].epoch <= epoch

IInv ==
  /\ TypeOK
  /\ SequenceFresh
  /\ PoliciesPast
  /\ OnOffer
  /\ SpentRemembered

-----------------------------------------------------------------------------
(* Refinement                                                              *)

Status(g) ==
  IF ~Issued(g) THEN "unissued"
  ELSE IF /\ redeemed[g] = 0
          /\ grants_by_id[g] \notin {"Redeemed", "Revoked"}
          /\ ~IsExpiredAt(g, now)
          /\ body[g].epoch = epoch
       THEN "live" ELSE "dead"

Promise == INSTANCE OneTimeGrants
             WITH status <- [g \in Grants |-> Status(g)], uses <- redeemed

(* The registry with its tombstones and pruning, the cache that offers a grant
   again and again, and the jobs that publish late together implement one-time
   grants. *)
ImplementsOneTimeGrants == Promise!Spec

-----------------------------------------------------------------------------
(* Liveness                                                                *)

(* A session that is said to have a job does not say so for ever, whatever
   becomes of the job: rejected, out of grant numbers, or overtaken by a
   configuration change. *)
RunningEnds == \A s \in Sessions : s \in running ~> s \notin running

-----------------------------------------------------------------------------
(* What the documentation and comments promise                             *)

\* The jobs whose outcome the session will hear of.
ActiveJobs(s) ==
  {j \in Jobs : job[j].pc # "idle" /\ job[j].attached /\ job[j].session = s}

(* AUTH_TRIGGER_ORCHESTRATION: "running + trigger request -> attach to or
   ignore the existing job": a session told to wait has a job or an outcome
   to wait for. *)
PendingIsAnswered ==
  \A s \in Sessions : pending[s] # None /\ waking # s => cached[s] # None \/ ActiveJobs(s) # {}
=============================================================================

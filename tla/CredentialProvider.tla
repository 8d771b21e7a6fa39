------------------------- MODULE CredentialProvider -------------------------
(***************************************************************************)
(* The Credential Provider DLL of src/crates/windows_provider as LogonUI   *)
(* sees it: provider instances (ProviderState), the background wake        *)
(* workers they spawn, the machine-wide LogonGuard they share, Windows     *)
(* judging what they submit, and an enrolment that replaces the stored     *)
(* password underneath them.                                               *)
(*                                                                         *)
(* One action is one critical section of ProviderState.inner (the guard's  *)
(* transaction nests inside it) or one step of a worker between two of     *)
(* them.  A password is represented by the version of the credential store *)
(* it was read from.  The service behind the pipe is external here: a wake *)
(* ends with the stored credential, an authentication failure, a rejected  *)
(* request or a transport error.                                           *)
(***************************************************************************)
EXTENDS LogonGuard

CONSTANTS
  Providers,       \* provider instances, each in its own LogonUI process
  Workers,         \* threads available to request_wake_in_background
  WakeModes,       \* what logon_wake_mode may say when it is read
  AttemptLimit,    \* AUTOMATIC_WAKE_ATTEMPT_LIMIT (3)
  TransportLimit,  \* TRANSPORT_WAKE_ATTEMPT_LIMIT (20)
  MaxRequest,      \* bound: wake_request_id stops here (u64 in the code)
  MaxVersion       \* bound: number of stored credential versions

ASSUME WakeModesAssumption == WakeModes \subseteq {"Triggered", "Silent", "Off"}

ASSUME ProviderAssumption ==
  /\ AttemptLimit \in Nat \ {0}
  /\ TransportLimit \in Nat \ {0}
  /\ MaxRequest \in Nat
  /\ MaxVersion \in Nat \ {0}

VARIABLES
  prov,       \* provider -> ProviderStateInner
  worker,     \* thread -> its control state
  stored,     \* version of the credential in the service's store
  updating,   \* an enrolment has saved but not yet lifted the latch
  fate,       \* history: submission token -> what became of it
  updates,    \* history: generations made by credentials_updated
  floor       \* history: stored at the last such update

provVars  == << prov, worker >>
storeVars == << stored, updating >>
history   == << fate, updates, floor >>
vars      == << guard, durable, prov, worker, stored, updating, fate, updates, floor >>

-----------------------------------------------------------------------------

Versions == 1 .. MaxVersion
Requests == 0 .. MaxRequest

UnlockPhases == {"ProviderLoaded", "WakeRequested", "CredentialMaterialReady",
                 "AwaitingWindowsResult", "AutomaticLogonSuppressed",
                 "WakeFailed", "Completed"}

\* The phases in which Windows has the last word.
Finished == {"AwaitingWindowsResult", "Completed", "AutomaticLogonSuppressed"}

ProviderState ==
  [ advised    : BOOLEAN,                      \* events.is_some()
    phase      : UnlockPhases,
    material   : Versions \cup {None},
    cooling    : BOOLEAN,                      \* now < wake_retry_allowed_at
    request    : Requests,
    generation : Generations \cup {None},
    submission : Generations \cup {None} ]

NewProvider ==
  [ advised |-> FALSE, phase |-> "ProviderLoaded", material |-> None,
    cooling |-> FALSE, request |-> 0, generation |-> None, submission |-> None ]

Modes    == {"Triggered", "Silent", "Selected"}
Outcomes == {"none", "material", "authFailed", "rejected", "transport"}

WorkerState ==
  [ pc       : {"idle", "waiting", "begin", "loop", "retry", "request",
                "calling", "received", "after"},
    provider : Providers \cup {None},
    mode     : Modes,
    request  : Requests,
    attempt  : Nat,
    tries    : Nat,
    outcome  : Outcomes,
    fetched  : Versions \cup {None},
    orphan   : BOOLEAN ]           \* history: UnAdvise came after its spawn

IdleWorker ==
  [ pc |-> "idle", provider |-> None, mode |-> "Selected", request |-> 0,
    attempt |-> 0, tries |-> 0, outcome |-> "none", fetched |-> None,
    orphan |-> FALSE ]

Fates == {"none", "reserved", "pending", "accepted", "rejected", "cancelled", "lost"}

TypeOK ==
  /\ guard \in GuardState
  /\ durable \in GuardState
  /\ prov \in [Providers -> ProviderState]
  /\ worker \in [Workers -> WorkerState]
  /\ stored \in Versions
  /\ updating \in BOOLEAN
  /\ fate \in [Generations -> Fates]
  /\ updates \in SUBSET Generations
  /\ floor \in Versions

Init ==
  /\ GuardInit
  /\ prov = [p \in Providers |-> NewProvider]
  /\ worker = [w \in Workers |-> IdleWorker]
  /\ stored = 1
  /\ updating = FALSE
  /\ fate = [t \in Generations |-> "none"]
  /\ updates = {}
  /\ floor = 1

-----------------------------------------------------------------------------
(* What a worker learns when it asks whether its request is still current. *)

Current(p, request) ==
  /\ prov[p].request = request
  /\ prov[p].phase \notin Finished
  /\ prov[p].generation # None
  /\ ReadyAt(guard, prov[p].generation)

\* An unreadable guard counts as "not current".
CurrentAnswers(p, request) ==
  {Current(p, request)} \cup (IF ReadFails THEN {FALSE} ELSE {})

Goto(w, label) == worker' = [worker EXCEPT ![w].pc = label]

Park(w) == worker' = [worker EXCEPT ![w] = IdleWorker]

\* request_wake_in_background: a thread in one of the two start policies.
Started(p, mode) ==
  [IdleWorker EXCEPT !.pc = IF mode = "Triggered" THEN "waiting" ELSE "begin",
                     !.provider = p,
                     !.mode = mode]

Spawn(p, mode) ==
  \E w \in Workers :
    /\ worker[w].pc = "idle"
    /\ worker' = [worker EXCEPT ![w] = Started(p, mode)]

-----------------------------------------------------------------------------
(* LogonUI's calls                                                         *)

\* Advise: set_events(Some) and the worker that the mode, read now, asks for.
Advise(p) ==
  /\ ~prov[p].advised
  /\ \E reopened \in
       {prov[p].phase \in {"Completed", "AutomaticLogonSuppressed"} /\ guard.phase = "Ready"}
         \cup (IF ReadFails THEN {FALSE} ELSE {}) :
       prov' = [prov EXCEPT ![p].advised = TRUE,
                            ![p].phase = IF reopened THEN "ProviderLoaded" ELSE @]
  /\ \E mode \in WakeModes : IF mode = "Off" THEN UNCHANGED worker ELSE Spawn(p, mode)
  /\ UNCHANGED << guard, durable, storeVars, history >>

\* Mutant: the request is not invalidated.
UnAdvise_KeepsRequest(p) ==
  /\ prov[p].advised
  /\ prov[p].request < MaxRequest
  /\ prov' = [prov EXCEPT ![p].advised = FALSE, ![p].material = None]
  /\ worker' = [w \in Workers |->
       [worker[w] EXCEPT !.orphan = @ \/ worker[w].provider = p]]
  /\ UNCHANGED << guard, durable, storeVars, history >>

\* UnAdvise: set_events(None).
UnAdvise(p) ==
  /\ prov[p].advised
  /\ prov[p].request < MaxRequest
  /\ prov' = [prov EXCEPT
       ![p].advised = FALSE,
       ![p].request = @ + 1,
       ![p].generation = None,
       ![p].material = None,
       ![p].phase = IF @ \in {"WakeRequested", "WakeFailed", "CredentialMaterialReady"}
                    THEN "ProviderLoaded" ELSE @]
  /\ worker' = [w \in Workers |->
       [worker[w] EXCEPT !.orphan = @ \/ worker[w].provider = p]]
  /\ UNCHANGED << guard, durable, storeVars, history >>

SetSelected(p) ==
  /\ prov[p].advised
  /\ Spawn(p, "Selected")
  /\ UNCHANGED << guard, durable, prov, storeVars, history >>

\* take_credential_for_submission: the material is gone whatever the guard says.
TakeAccepted(p) ==
  /\ prov[p].phase = "CredentialMaterialReady"
  /\ CanReserve(guard, prov[p].generation)
  /\ Commit(Reserved(guard))
  /\ prov' = [prov EXCEPT ![p].material = None,
                          ![p].submission = Reserved(guard).generation,
                          ![p].phase = "AwaitingWindowsResult"]
  /\ fate' = [fate EXCEPT ![Reserved(guard).generation] = "reserved"]
  /\ UNCHANGED << worker, storeVars, updates, floor >>

TakeRefused(p) ==
  /\ prov[p].phase = "CredentialMaterialReady"
  /\ IF CanReserve(guard, prov[p].generation)
     THEN CommitFails(Reserved(guard))
     ELSE UNCHANGED guardVars
  /\ prov' = [prov EXCEPT ![p].material = None, ![p].phase = "AutomaticLogonSuppressed"]
  /\ UNCHANGED << worker, storeVars, history >>

\* The rest of GetSerialization: the packed credential goes to Windows, ...
HandOver(p) ==
  /\ prov[p].submission # None
  /\ fate[prov[p].submission] = "reserved"
  /\ fate' = [fate EXCEPT ![prov[p].submission] = "pending"]
  /\ UNCHANGED << guard, durable, provVars, storeVars, updates, floor >>

\* ... or packing fails and cancel_unsubmitted_credential gives the slot back.
PackFails(p) ==
  LET token == prov[p].submission IN
  /\ token # None
  /\ fate[token] = "reserved"
  /\ IF CanComplete(guard, token)
     THEN Commit(Completed(guard, TRUE)) \/ CommitFails(Completed(guard, TRUE))
     ELSE UNCHANGED guardVars
  /\ prov' = [prov EXCEPT ![p].submission = None, ![p].phase = "Completed"]
  /\ fate' = [fate EXCEPT ![token] = "cancelled"]
  /\ UNCHANGED << worker, storeVars, updates, floor >>

\* ReportResult: mark_report_result_received with Windows' verdict.
ReportResult(p, succeeded) ==
  LET token == prov[p].submission IN
  /\ token # None
  /\ fate[token] = "pending"
  /\ \E saved \in BOOLEAN :
       /\ IF saved
          THEN /\ CanComplete(guard, token)
               /\ Commit(Completed(guard, succeeded))
          ELSE IF CanComplete(guard, token)
               THEN CommitFails(Completed(guard, succeeded))
               ELSE UNCHANGED guardVars
       /\ prov' = [prov EXCEPT
            ![p].phase = IF saved /\ succeeded THEN "Completed" ELSE "AutomaticLogonSuppressed",
            ![p].submission = None,
            ![p].material = None,
            ![p].generation = None]
  /\ fate' = [fate EXCEPT ![token] = IF succeeded THEN "accepted" ELSE "rejected"]
  /\ UNCHANGED << worker, storeVars, updates, floor >>

\* WAKE_RETRY_COOLDOWN_MS passes.
CooldownElapses(p) ==
  /\ prov[p].cooling
  /\ prov' = [prov EXCEPT ![p].cooling = FALSE]
  /\ UNCHANGED << guard, durable, worker, storeVars, history >>

-----------------------------------------------------------------------------
(* The worker of request_wake_in_background                                *)

\* wait_for_user_input_after_advise: 100 ms polls until input or no sink.
InputArrives(w) ==
  /\ worker[w].pc = "waiting"
  /\ Goto(w, "begin")
  /\ UNCHANGED << guard, durable, prov, storeVars, history >>

\* Mutant: the input poll does not look at the sink.
StopsWaiting_Never(w) == FALSE

StopsWaiting(w) ==
  /\ worker[w].pc = "waiting"
  /\ ~prov[worker[w].provider].advised
  /\ Park(w)
  /\ UNCHANGED << guard, durable, prov, storeVars, history >>

\* begin_wake_request, once it may start a wake ...
BeginStarted(w) ==
  LET p == worker[w].provider IN
  /\ worker[w].pc = "begin"
  /\ prov[p].phase \notin Finished \cup {"WakeRequested"}
  /\ guard.phase = "Ready"
  /\ prov[p].material = None
  /\ ~(prov[p].phase = "WakeFailed" /\ prov[p].cooling)
  /\ prov[p].request < MaxRequest
  /\ prov' = [prov EXCEPT ![p].phase = "WakeRequested",
                          ![p].request = @ + 1,
                          ![p].generation = guard.generation]
  /\ worker' = [worker EXCEPT ![w].pc = "loop",
                              ![w].request = prov[p].request + 1,
                              ![w].attempt = 1,
                              ![w].outcome = "none",
                              ![w].fetched = None]
  /\ UNCHANGED << guard, durable, storeVars, history >>

\* ... and when it is blocked, which ends the worker for good.
BeginBlocked(w) ==
  LET p == worker[w].provider IN
  /\ worker[w].pc = "begin"
  /\ \/ /\ prov[p].phase \in Finished
        /\ UNCHANGED prov
     \/ /\ prov[p].phase \notin Finished
        /\ guard.phase # "Ready" \/ ReadFails
        /\ prov' = [prov EXCEPT ![p].phase = "AutomaticLogonSuppressed"]
     \/ /\ prov[p].phase \notin Finished
        /\ guard.phase = "Ready"
        /\ \/ prov[p].material # None
           \/ prov[p].phase = "WakeRequested"
           \/ prov[p].phase = "WakeFailed" /\ prov[p].cooling
        /\ UNCHANGED prov
     \/ /\ prov[p].phase \notin Finished \cup {"WakeRequested"}  \* checked_add overflows
        /\ guard.phase = "Ready"
        /\ prov[p].material = None
        /\ ~(prov[p].phase = "WakeFailed" /\ prov[p].cooling)
        /\ prov[p].request = MaxRequest
        /\ prov' = [prov EXCEPT ![p].phase = "WakeRequested"]
  /\ Park(w)
  /\ UNCHANGED << guard, durable, storeVars, history >>

\* Mutant: the limit holds for the silent mode too.
NextAttempt_Limited(w) ==
  /\ worker[w].pc = "loop"
  /\ IF prov[worker[w].provider].advised /\ worker[w].attempt <= AttemptLimit
     THEN worker' = [worker EXCEPT ![w].pc = IF worker[w].attempt = 1 THEN "request" ELSE "retry",
                                   ![w].tries = 1]
     ELSE Goto(w, "after")
  /\ UNCHANGED << guard, durable, prov, storeVars, history >>

\* The head of the attempt loop.
NextAttempt(w) ==
  /\ worker[w].pc = "loop"
  /\ IF /\ prov[worker[w].provider].advised
        /\ worker[w].mode = "Silent" \/ worker[w].attempt <= AttemptLimit
     THEN worker' = [worker EXCEPT ![w].pc = IF worker[w].attempt = 1 THEN "request" ELSE "retry",
                                   ![w].tries = 1]
     ELSE Goto(w, "after")
  /\ UNCHANGED << guard, durable, prov, storeVars, history >>

\* After AUTOMATIC_WAKE_RETRY_DELAY_MS: mark_automatic_retry_started or break.
RetryStarts(w) ==
  LET p == worker[w].provider IN
  /\ worker[w].pc = "retry"
  /\ \E current \in CurrentAnswers(p, worker[w].request) :
       IF prov[p].advised /\ current
       THEN /\ prov' = [prov EXCEPT ![p].phase = "WakeRequested"]
            /\ Goto(w, "request")
       ELSE /\ Goto(w, "after")
            /\ UNCHANGED prov
  /\ UNCHANGED << guard, durable, storeVars, history >>

\* wake_and_fetch_with_transport_retry looks again before every call.
CallBroker(w) ==
  /\ worker[w].pc = "request"
  /\ \E current \in CurrentAnswers(worker[w].provider, worker[w].request) :
       IF current
       THEN Goto(w, "calling")
       ELSE worker' = [worker EXCEPT ![w].pc = "received", ![w].outcome = "transport"]
  /\ UNCHANGED << guard, durable, prov, storeVars, history >>

\* The service's answer, with the credential as stored when it was read.
BrokerAnswers(w) ==
  /\ worker[w].pc = "calling"
  /\ \E outcome \in {"material", "authFailed", "rejected"} :
       worker' = [worker EXCEPT ![w].pc = "received",
                                ![w].outcome = outcome,
                                ![w].fetched = IF outcome = "material" THEN stored ELSE None]
  /\ UNCHANGED << guard, durable, prov, storeVars, history >>

BrokerFails(w) ==
  /\ worker[w].pc = "calling"
  /\ worker' = IF worker[w].tries < TransportLimit
               THEN [worker EXCEPT ![w].pc = "request", ![w].tries = @ + 1]
               ELSE [worker EXCEPT ![w].pc = "received", ![w].outcome = "transport"]
  /\ UNCHANGED << guard, durable, prov, storeVars, history >>

\* automatic_retry_pending
RetryPending(w) ==
  /\ worker[w].outcome = "authFailed"
  /\ prov[worker[w].provider].advised
  /\ worker[w].mode = "Silent" \/ worker[w].attempt < AttemptLimit

\* Mutant: attempts are not counted.
AttemptAfter_NotCounted(w) == worker[w].attempt

\* In the endless loop all attempts beyond the others' limit are alike.
AttemptAfter(w) ==
  IF worker[w].mode = "Silent" /\ worker[w].attempt > AttemptLimit
  THEN worker[w].attempt ELSE worker[w].attempt + 1

\* apply_wake_outcome and apply_wake_transport_error
ApplyOutcome(w) ==
  LET p == worker[w].provider IN
  /\ worker[w].pc = "received"
  /\ \E current \in CurrentAnswers(p, worker[w].request) :
       prov' = IF ~current THEN prov
               ELSE IF worker[w].outcome = "material"
               THEN [prov EXCEPT ![p].phase = "CredentialMaterialReady",
                                 ![p].material = worker[w].fetched,
                                 ![p].cooling = FALSE]
               ELSE [prov EXCEPT ![p].phase = "WakeFailed", ![p].cooling = TRUE]
  /\ worker' = IF RetryPending(w)
               THEN [worker EXCEPT ![w].pc = "loop", ![w].attempt = AttemptAfter(w),
                                   ![w].fetched = None]
               ELSE [worker EXCEPT ![w].pc = "after", ![w].fetched = None]
  /\ UNCHANGED << guard, durable, storeVars, history >>

\* Mutant: a round that used up its attempts retires with its worker.
RoundEnds_Retires(w) ==
  LET p == worker[w].provider IN
  /\ worker[w].pc = "after"
  /\ \E current \in CurrentAnswers(p, worker[w].request) :
       IF /\ worker[w].outcome # "material"
          /\ prov[p].advised
          /\ current
          /\ worker[w].mode = "Triggered" /\ worker[w].attempt < AttemptLimit
       THEN Goto(w, "waiting")
       ELSE Park(w)
  /\ UNCHANGED << guard, durable, prov, storeVars, history >>

\* The end of a round: only a triggered worker goes back to wait for input.
RoundEnds(w) ==
  LET p == worker[w].provider IN
  /\ worker[w].pc = "after"
  /\ \E current \in CurrentAnswers(p, worker[w].request) :
       IF /\ worker[w].outcome # "material"
          /\ prov[p].advised
          /\ current
          /\ worker[w].mode = "Triggered"
       THEN Goto(w, "waiting")
       ELSE Park(w)
  /\ UNCHANGED << guard, durable, prov, storeVars, history >>

-----------------------------------------------------------------------------
(* enroll_windows_credential: save the enrolment, then credentials_updated *)

SaveEnrollment ==
  /\ ~updating
  /\ stored < MaxVersion
  /\ stored' = stored + 1
  /\ updating' = TRUE
  /\ UNCHANGED << guard, durable, provVars, history >>

LiftLatch ==
  /\ updating
  /\ updating' = FALSE
  /\ IF CanAdvance(guard)
     THEN Commit(Updated(guard)) \/ CommitFails(Updated(guard))
     ELSE UNCHANGED guardVars
  /\ IF guard' # guard
     THEN /\ updates' = updates \cup {guard'.generation}
          /\ floor' = stored
     ELSE UNCHANGED << updates, floor >>
  /\ UNCHANGED << provVars, stored, fate >>

\* The enrolling process dies between its two steps.
EnrollerDies ==
  /\ updating
  /\ updating' = FALSE
  /\ UNCHANGED << guard, durable, provVars, stored, history >>

-----------------------------------------------------------------------------
(* Processes that end                                                      *)

\* What Windows made of an outstanding submission will never be known.
FateWithout(procs) ==
  [t \in Generations |->
     IF \E p \in procs : prov[p].submission = t /\ fate[t] \in {"reserved", "pending"}
     THEN "lost" ELSE fate[t]]

WorkersWithout(procs) ==
  [w \in Workers |-> IF worker[w].provider \in procs THEN IdleWorker ELSE worker[w]]

ProcessExit(p) ==
  /\ prov' = [prov EXCEPT ![p] = NewProvider]
  /\ worker' = WorkersWithout({p})
  /\ fate' = FateWithout({p})
  /\ UNCHANGED << guard, durable, storeVars, updates, floor >>

\* Power loss: an unflushed guard falls back to what is durable.
Reboot ==
  /\ guard' = durable
  /\ prov' = [p \in Providers |-> NewProvider]
  /\ worker' = WorkersWithout(Providers)
  /\ fate' = FateWithout(Providers)
  /\ updates' = {u \in updates : u <= durable.generation}
  /\ updating' = FALSE
  /\ UNCHANGED << durable, stored, floor >>

-----------------------------------------------------------------------------

Flush == LazyFlush /\ UNCHANGED << provVars, storeVars, history >>

LogonUIStep(p) ==
  \/ Advise(p) \/ UnAdvise(p) \/ SetSelected(p)
  \/ TakeAccepted(p) \/ TakeRefused(p) \/ HandOver(p) \/ PackFails(p)
  \/ \E succeeded \in BOOLEAN : ReportResult(p, succeeded)
  \/ CooldownElapses(p)
  \/ ProcessExit(p)

\* What the thread does by itself; BrokerAnswers and BrokerFails end a call.
WorkerStep(w) ==
  \/ StopsWaiting(w) \/ BeginStarted(w) \/ BeginBlocked(w)
  \/ NextAttempt(w) \/ RetryStarts(w) \/ CallBroker(w)
  \/ BrokerAnswers(w) \/ BrokerFails(w) \/ ApplyOutcome(w) \/ RoundEnds(w)

Next ==
  \/ \E p \in Providers : LogonUIStep(p)
  \/ \E w \in Workers : WorkerStep(w) \/ InputArrives(w)
  \/ SaveEnrollment \/ LiftLatch \/ EnrollerDies
  \/ Flush \/ Reboot

Spec == Init /\ [][Next]_vars

\* Threads are scheduled, a pipe call is bounded (80 polls of 500 ms) and
\* polling for the sink ends a wait.  LogonUI, the user, Windows' verdict
\* and enrolment owe us nothing.
FairSpec == Spec /\ \A w \in Workers : WF_vars(WorkerStep(w))

-----------------------------------------------------------------------------
(* Safety                                                                  *)

\* Submissions that Windows has not accepted and that were not withdrawn.
Unresolved == {"reserved", "pending", "rejected", "lost"}

Issued == {t \in Generations : fate[t] # "none"}

\* A guard record that still blocks the submission t, or that an update has
\* moved past it.
Blocks(g, t) ==
  \/ g.phase # "Ready" /\ g.generation = t
  \/ \E u \in updates : t < u /\ u <= g.generation

(* An unresolved submission keeps the latch closed until the credential is
   updated: in what processes read, and in what a power loss leaves
   (reserve, complete and the flush of windows_store::transaction). *)
LatchHolds ==
  \A t \in Issued : fate[t] \in Unresolved => Blocks(guard, t) /\ Blocks(durable, t)

(* Windows is never offered a second password after one that it refused, or
   whose verdict is unknown, unless the credential was updated in between:
   whatever mix of provider instances, reselection, restarts and storage
   faults (the purpose of logon_safety). *)
NoRetryAfterFailure ==
  \A t1, t2 \in Issued :
    t1 < t2 /\ fate[t1] \in Unresolved => \E u \in updates : t1 < u /\ u < t2

(* A provider that LogonUI has unadvised holds no password, however late a
   worker of the earlier lifecycle hears from the service (set_events,
   apply_wake_outcome). *)
MaterialOnlyWhileAdvised ==
  \A p \in Providers : prov[p].material # None => prov[p].advised

(* A password fetched before the credential update that last lifted the
   latch is never submitted (the generation check of reserve). *)
NoStaleSubmission ==
  [][\A p \in Providers :
       prov[p].submission = None /\ prov'[p].submission # None
         => prov[p].material >= floor]_vars

(* A token names one submission for ever, across power losses too: a late
   ReportResult can never complete a later submission. *)
TokensAreUnique ==
  [][\A p \in Providers :
       prov[p].submission = None /\ prov'[p].submission # None
         => fate[prov'[p].submission] = "none"]_vars

-----------------------------------------------------------------------------
(* The promise behind them                                                 *)

\* The submissions that stand in the way of another.
InTheWay == {t \in Issued : fate[t] \in Unresolved /\ ~\E u \in updates : t < u}

Promise == INSTANCE OneSubmission WITH Tokens <- Generations, open <- InTheWay

(* The record in the registry with its two copies, the instances that read it
   at different times, storage faults and power losses together implement one
   submission at a time (the transactions of logon_safety as the provider uses
   them). *)
ImplementsOneSubmission == Promise!Spec

-----------------------------------------------------------------------------
(* The inductive invariant behind them                                     *)

\* Handed-out tokens and updates never lie ahead of the guard record, and
\* the durable record never ahead of the readable one.
GenerationsBounded ==
  /\ durable.generation <= guard.generation
  /\ \A t \in Issued : t <= durable.generation
  /\ \A u \in updates : u <= guard.generation
  /\ \A p \in Providers : prov[p].generation <= guard.generation

\* A provider's outstanding token is its own, and its verdict is still to come.
SubmissionsOutstanding ==
  \A p \in Providers :
    prov[p].submission # None =>
      /\ fate[prov[p].submission] \in {"reserved", "pending"}
      /\ \A q \in Providers \ {p} : prov[q].submission # prov[p].submission

\* A running worker belongs to a provider and its request is not a future one.
WorkersHoused ==
  \A w \in Workers :
    worker[w].pc # "idle" =>
      worker[w].provider \in Providers /\ worker[w].request <= prov[worker[w].provider].request

\* The request of w is the provider's, and was begun at the guard's generation.
OnGeneration(w) ==
  LET p == worker[w].provider IN
  prov[p].request = worker[w].request /\ prov[p].generation = guard.generation

\* What a worker or a provider holds was read after the last update, unless
\* the generation it was requested under has passed.
MaterialFresh ==
  /\ floor <= stored
  /\ \A p \in Providers :
       prov[p].phase = "CredentialMaterialReady" => prov[p].material # None
  /\ \A p \in Providers :
       prov[p].material # None =>
         /\ prov[p].generation # None
         /\ prov[p].generation = guard.generation => floor <= prov[p].material
  /\ \A w \in Workers :
       worker[w].pc = "received" /\ worker[w].outcome = "material" =>
         /\ worker[w].fetched # None
         /\ OnGeneration(w) => floor <= worker[w].fetched

\* A current worker that is past the sink check serves an advised provider.
CallersAdvised ==
  \A w \in Workers :
    LET p == worker[w].provider IN
    /\ worker[w].pc \in {"request", "calling", "received"}
    /\ prov[p].request = worker[w].request
    /\ prov[p].generation # None
    => prov[p].advised

IInv ==
  /\ TypeOK
  /\ GenerationsBounded
  /\ SubmissionsOutstanding
  /\ WorkersHoused
  /\ LatchHolds
  /\ NoRetryAfterFailure
  /\ MaterialFresh
  /\ CallersAdvised
  /\ MaterialOnlyWhileAdvised

-----------------------------------------------------------------------------
(* Liveness                                                                *)

(* Once LogonUI leaves a provider unadvised, its background work stops: also
   that of a worker that has not started yet or sleeps between retries. *)
UnAdviseStopsWorkers ==
  \A p \in Providers :
    <>[](~prov[p].advised) =>
      <>[](\A w \in Workers : worker[w].provider = p => worker[w].pc = "idle")

(* A finite round ends: its worker retires or waits for input again. *)
RoundsEnd ==
  \A w \in Workers :
    worker[w].pc # "idle" /\ worker[w].mode # "Silent"
      ~> worker[w].pc \in {"idle", "waiting"}

(* Silent recognition does not give up on faces: while the provider stays
   advised and the request current, a round that no face passed is followed by
   another call of the service, the attempt limit notwithstanding. *)
SilentRetriesFaces ==
  \A w \in Workers, p \in Providers, r \in Requests :
    (worker[w].pc = "received" /\ worker[w].outcome = "authFailed"
      /\ worker[w].provider = p /\ worker[w].request = r /\ worker[w].mode = "Silent")
        ~> (worker[w].pc = "calling" \/ ~prov[p].advised \/ ~Current(p, r))

(* A triggered round that fails, by faces or by the pipe, is followed by another
   attempt that yields the credential or by its worker listening for the user's
   next input, while the provider stays advised and the request current (the
   loop around wait_for_user_input_after_advise; UNLOCK_MODES_PRODUCT_CONTRACT:
   a failed round should not permanently suppress the next user-triggered
   round). *)
FailedRoundListens ==
  \A w \in Workers, p \in Providers, r \in Requests :
    (worker[w].pc = "received" /\ worker[w].outcome \in {"authFailed", "rejected", "transport"}
      /\ worker[w].provider = p /\ worker[w].request = r /\ worker[w].mode = "Triggered")
        ~> (worker[w].pc = "waiting" \/ worker[w].outcome = "material"
              \/ ~prov[p].advised \/ ~Current(p, r))
=============================================================================

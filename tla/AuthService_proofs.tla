-------------------------- MODULE AuthService_proofs --------------------------
(***************************************************************************)
(* Proofs about AuthService, for any number of sessions, threads, grants   *)
(* and policies: grants are spent once, under the policy they were issued  *)
(* for, and the service implements OneTimeGrants.                          *)
(***************************************************************************)
EXTENDS AuthService, TLAPS

USE RegistryAssumption, ServiceAssumption

-----------------------------------------------------------------------------
(* The registry's operators and the clock.                                 *)

LEMMA ClockMoves ==
  ASSUME NEW t \in Times, NEW u \in Later(t)
  PROVE  u \in Times /\ t <= u
  BY DEF Later, Times

LEMMA RemovalTyped ==
  ASSUME NEW tracked \in [Grants -> Redemption], NEW time \in Times
  PROVE  /\ RemoveExpired(tracked, time) \in [Grants -> Redemption]
         /\ RevokeAll(tracked) \in [Grants -> Redemption]
         /\ \A s \in Sessions : RevokeForSession(tracked, s) \in [Grants -> Redemption]
  BY DEF RemoveExpired, RevokeAll, RevokeForSession, Redemption

LEMMA RegistryTyped ==
  ASSUME NEW tracked \in [Grants -> Redemption], NEW time \in Times,
         NEW g \in Grants, NEW grant
  PROVE  /\ Insert(tracked, g, grant, time) \in [Grants -> Redemption]
         /\ Redeem(tracked, g) \in [Grants -> Redemption]
<1>1. RemoveExpired(tracked, time) \in [Grants -> Redemption]
  BY RemovalTyped
<1>2. Insert(tracked, g, grant, time) \in [Grants -> Redemption]
  <2> DEFINE r == RemoveExpired(tracked, time)
             new == IF CanInsert(tracked, g, grant, time) THEN "Available" ELSE r[g]
  <2>1. new \in Redemption
    BY <1>1 DEF Redemption
  <2>2. Insert(tracked, g, grant, time) = [r EXCEPT ![g] = new]
    BY DEF Insert
  <2> HIDE DEF r, new
  <2> QED
    BY <1>1, <2>1, <2>2 DEF r
<1>3. Redeem(tracked, g) \in [Grants -> Redemption]
  BY DEF Redeem, Redemption
<1> QED
  BY <1>2, <1>3

\* What each operator does to each grant.
LEMMA RegistryActs ==
  ASSUME NEW tracked \in [Grants -> Redemption], NEW time \in Times, NEW h \in Grants
  PROVE  /\ RemoveExpired(tracked, time)[h] =
              IF IsExpiredAt(h, time) THEN "Absent" ELSE tracked[h]
         /\ \A g \in Grants : \A grant :
              Insert(tracked, g, grant, time)[h] =
                IF h = g /\ CanInsert(tracked, g, grant, time) THEN "Available"
                ELSE IF IsExpiredAt(h, time) THEN "Absent" ELSE tracked[h]
         /\ \A g \in Grants :
              Redeem(tracked, g)[h] = IF h = g THEN "Redeemed" ELSE tracked[h]
         /\ RevokeAll(tracked)[h] = IF tracked[h] = "Absent" THEN "Absent" ELSE "Revoked"
         /\ \A s : RevokeForSession(tracked, s)[h] =
              IF tracked[h] # "Absent" /\ body[h].session = s THEN "Revoked" ELSE tracked[h]
<1> DEFINE r == RemoveExpired(tracked, time)
<1>1. r \in [Grants -> Redemption] /\ r[h] = IF IsExpiredAt(h, time) THEN "Absent" ELSE tracked[h]
  BY RemovalTyped DEF RemoveExpired
<1>2. ASSUME NEW g \in Grants, NEW grant
      PROVE  Insert(tracked, g, grant, time)[h] =
               IF h = g /\ CanInsert(tracked, g, grant, time) THEN "Available"
               ELSE IF IsExpiredAt(h, time) THEN "Absent" ELSE tracked[h]
  <2> DEFINE c == CanInsert(tracked, g, grant, time)
  <2>1. Insert(tracked, g, grant, time) = [r EXCEPT ![g] = IF c THEN "Available" ELSE r[g]]
    BY DEF Insert
  <2> HIDE DEF c, r
  <2> QED
    BY <1>1, <2>1 DEF c
<1> QED
  BY <1>1, <1>2 DEF Redeem, RevokeAll, RevokeForSession

LEMMA PrunedTyped ==
  ASSUME TypeOK
  PROVE  /\ PrunedGrants \in [Grants -> Redemption]
         /\ PrunedPending \in [Sessions -> Times \cup {None}]
         /\ \A s \in Sessions, t \in Times \cup {None} :
              [PrunedPending EXCEPT ![s] = t] \in [Sessions -> Times \cup {None}]
<1>1. PrunedGrants \in [Grants -> Redemption]
  BY RemovalTyped DEF PrunedGrants, TypeOK
<1>2. PrunedPending \in [Sessions -> Times \cup {None}]
  BY DEF PrunedPending, TypeOK
<1> QED
  BY <1>1, <1>2

-----------------------------------------------------------------------------
(* Types                                                                   *)

\* The requests that touch only clock, registry and pending sessions.
HandlerTypes ==
  /\ now' \in Times
  /\ grants_by_id' \in [Grants -> Redemption]
  /\ pending' \in [Sessions -> Times \cup {None}]

LEMMA WakesTyped ==
  ASSUME TypeOK, NEW s \in Sessions,
         WakeStarted(s) \/ WakeFailed(s) \/ (\E g \in Grants : WakeIssued(s, g))
  PROVE  HandlerTypes
<1>1. CASE WakeStarted(s) \/ WakeFailed(s)
  BY <1>1, PrunedTyped DEF WakeStarted, WakeFailed, HandlerTypes, TypeOK
<1>2. CASE \E g \in Grants : WakeIssued(s, g)
  <2>1. PICK g \in Grants, time \in Later(now) :
          /\ now' = time
          /\ grants_by_id' = Insert(PrunedGrants, g, body[g], time)
          /\ pending' = [PrunedPending EXCEPT ![s] = None]
    BY <1>2 DEF WakeIssued
  <2>2. time \in Times
    BY ClockMoves, <2>1 DEF TypeOK
  <2>3. grants_by_id' \in [Grants -> Redemption]
    BY <2>1, <2>2, PrunedTyped, RegistryTyped
  <2> QED
    BY <2>1, <2>2, <2>3, PrunedTyped DEF HandlerTypes
<1> QED
  BY <1>1, <1>2

LEMMA InitTyped == Init => TypeOK
<1> SUFFICES ASSUME Init PROVE TypeOK
  OBVIOUS
<1>1. body \in [Grants -> AuthGrant(Epochs) \cup {NoGrant}] /\ grants_by_id \in [Grants -> Redemption]
  BY DEF Init, RegistryInit, Redemption
<1>2. job \in [Jobs -> JobState]
  BY DEF Init, IdleJob, JobState, Epochs
<1>3. 0 \in Times /\ 0 \in Epochs /\ 1 \in 1..MaxGrants + 1
  BY DEF Times, Epochs
<1> QED
  BY <1>1, <1>2, <1>3 DEF Init, TypeOK, NoOutcomes, Outcomes

\* Updates of a thread's fields.
LEMMA JobFields ==
  /\ IdleJob \in JobState
  /\ \A r \in JobState :
       /\ \A pc \in {"idle", "queued", "authenticating", "closing", "failed", "ending"} :
            [r EXCEPT !.pc = pc] \in JobState
       /\ \A s \in Sessions : [r EXCEPT !.session = s] \in JobState
       /\ \A e \in Epochs : [r EXCEPT !.issuer = e] \in JobState /\ [r EXCEPT !.epoch = e] \in JobState
       /\ \A b \in BOOLEAN : [r EXCEPT !.attached = b] \in JobState
       /\ \A g \in Grants \cup {None} : [r EXCEPT !.grant = g] \in JobState
<1>1. IdleJob \in JobState
  <2>1. 0 \in Epochs
    BY DEF Epochs
  <2> QED
    BY <2>1 DEF IdleJob, JobState
<1>2. ASSUME NEW r \in JobState
      PROVE  /\ \A pc \in {"idle", "queued", "authenticating", "closing", "failed", "ending"} :
                  [r EXCEPT !.pc = pc] \in JobState
             /\ \A s \in Sessions : [r EXCEPT !.session = s] \in JobState
             /\ \A e \in Epochs : [r EXCEPT !.issuer = e] \in JobState /\ [r EXCEPT !.epoch = e] \in JobState
             /\ \A b \in BOOLEAN : [r EXCEPT !.attached = b] \in JobState
             /\ \A g \in Grants \cup {None} : [r EXCEPT !.grant = g] \in JobState
  BY DEF JobState
<1> QED
  BY <1>1, <1>2

\* A thread that goes on without its number.
LEMMA ClearedTyped ==
  ASSUME TypeOK, NEW j \in Jobs, NEW pc \in {"closing", "failed"},
         job' = [job EXCEPT ![j].pc = pc, ![j].grant = None]
  PROVE  /\ job' \in [Jobs -> JobState]
         /\ \A k \in Jobs : k # j => job'[k] = job[k]
         /\ job'[j].pc = pc /\ job'[j].session = job[j].session
         /\ job'[j].epoch = job[j].epoch /\ job'[j].attached = job[j].attached
<1> DEFINE r == [job[j] EXCEPT !.pc = pc]
           c == [r EXCEPT !.grant = None]
<1>1. job[j] \in JobState
  BY DEF TypeOK
<1>2. r \in JobState /\ c \in JobState
  BY <1>1, JobFields
<1>3. /\ c.pc = pc /\ c.session = job[j].session
      /\ c.epoch = job[j].epoch /\ c.attached = job[j].attached
  BY <1>1, <1>2 DEF JobState
<1>4. job' = [job EXCEPT ![j] = c]
  BY DEF TypeOK
<1> HIDE DEF r, c
<1>5. \A k \in Jobs : job'[k] = IF k = j THEN c ELSE job[k]
  BY <1>4 DEF TypeOK
<1>6. job' \in [Jobs -> JobState]
  BY <1>2, <1>4 DEF TypeOK
<1> QED
  BY <1>3, <1>5, <1>6

\* The thread a wake starts for session s.
Spawned(s) == [IdleJob EXCEPT !.pc = "queued", !.session = s, !.issuer = issuer,
                              !.epoch = epoch, !.attached = TRUE]

LEMMA SpawnedTyped ==
  ASSUME TypeOK, NEW s \in Sessions
  PROVE  /\ Spawned(s) \in JobState
         /\ Spawned(s).pc = "queued" /\ Spawned(s).session = s /\ Spawned(s).epoch = epoch
         /\ Spawned(s).attached
<1> DEFINE a == [IdleJob EXCEPT !.pc = "queued"]
           b == [a EXCEPT !.session = s]
           c == [b EXCEPT !.issuer = issuer]
           d == [c EXCEPT !.epoch = epoch]
           e == [d EXCEPT !.attached = TRUE]
<1> HIDE DEF a, b, c, d, e
<1>1. a \in JobState /\ a.pc = "queued"
  BY JobFields DEF a, IdleJob
<1>2. b \in JobState /\ b.pc = "queued" /\ b.session = s
  <2>1. b \in JobState
    BY <1>1, JobFields DEF b
  <2> QED
    BY <1>1, <2>1 DEF b, JobState
<1>3. c \in JobState /\ c.pc = "queued" /\ c.session = s
  <2>1. c \in JobState
    BY <1>2, JobFields DEF c, TypeOK
  <2> QED
    BY <1>2, <2>1 DEF c, JobState
<1>4. d \in JobState /\ d.pc = "queued" /\ d.session = s /\ d.epoch = epoch
  <2>1. d \in JobState
    BY <1>3, JobFields DEF d, TypeOK
  <2> QED
    BY <1>3, <2>1 DEF d, JobState
<1>5. e \in JobState /\ e.pc = "queued" /\ e.session = s /\ e.epoch = epoch /\ e.attached
  <2>1. e \in JobState
    BY <1>4, JobFields DEF e
  <2> QED
    BY <1>4, <2>1 DEF e, JobState
<1>6. Spawned(s) = e
  BY DEF Spawned, a, b, c, d, e
<1> QED
  BY <1>5, <1>6

\* The steps of a wake that looks further than the cache.
LEMMA WakeStepTyped ==
  ASSUME TypeOK, NEW s \in Sessions, WakeStep(s)
  PROVE  TypeOK'
<1>1. CASE WakeLooks(s)
  <2>1. cached' \in [Sessions -> Outcomes]
    BY <1>1 DEF WakeLooks, TypeOK, Outcomes
  <2> QED
    BY <1>1, <2>1, WakesTyped DEF WakeLooks, HandlerTypes, TypeOK
<1>2. CASE WakeAttaches(s)
  BY <1>2 DEF WakeAttaches, TypeOK, issuerVars, registryVars
<1>3. CASE WakeSpawns(s)
  <2>1. running' \in SUBSET Sessions
    BY <1>3 DEF WakeSpawns, TypeOK
  <2>2. PICK j \in Jobs : job' = [job EXCEPT ![j] = Spawned(s)]
    BY <1>3 DEF WakeSpawns, Spawned
  <2>3. job' \in [Jobs -> JobState]
    BY <2>2, SpawnedTyped DEF TypeOK
  <2> QED
    BY <1>3, <2>1, <2>3 DEF WakeSpawns, TypeOK, registryVars
<1>4. CASE WakeGivesUp(s)
  <2>1. pending' \in [Sessions -> Times \cup {None}]
    BY <1>4 DEF WakeGivesUp, TypeOK
  <2> QED
    BY <1>4, <2>1 DEF WakeGivesUp, TypeOK, issuerVars, registryVars
<1> QED
  BY <1>1, <1>2, <1>3, <1>4 DEF WakeStep

\* The requests served in one step.
LEMMA WakeTyped ==
  ASSUME TypeOK, UNCHANGED waking, NEW s \in Sessions,
         WakeFromCache(s) \/ WakeRefused(s) \/ WakeManual(s)
  PROVE  TypeOK'
<1>1. CASE WakeFromCache(s)
  BY <1>1, WakesTyped DEF WakeFromCache, CacheHit, HandlerTypes, TypeOK, issuerVars
<1>4. CASE WakeRefused(s)
  BY <1>4, WakesTyped DEF WakeRefused, HandlerTypes, TypeOK, issuerVars
<1>5. CASE WakeManual(s)
  <2> DEFINE grant == [session |-> s, issued_at |-> now, expires_at |-> now + GrantTTL, epoch |-> epoch]
  <2>1. PICK time \in Later(now) :
          /\ now' = time
          /\ grants_by_id' = Insert(PrunedGrants, sequence, grant, time)
          /\ pending' = [PrunedPending EXCEPT ![s] = None]
    BY <1>5 DEF WakeManual
  <2>2. time \in Times /\ sequence \in Grants
    BY <1>5, <2>1, ClockMoves DEF WakeManual, TypeOK
  <2>3. grants_by_id' \in [Grants -> Redemption]
    BY <2>1, <2>2, PrunedTyped, RegistryTyped
  <2>4. grant \in AuthGrant(Epochs)
    BY DEF AuthGrant, TypeOK, Times
  <2>5. body' \in [Grants -> AuthGrant(Epochs) \cup {NoGrant}]
    BY <1>5, <2>4 DEF WakeManual, TypeOK
  <2>6. sequence' \in 1..MaxGrants + 1
    BY <1>5, <2>2 DEF WakeManual, Grants
  <2> QED
    BY <1>5, <2>1, <2>2, <2>3, <2>5, <2>6, PrunedTyped DEF WakeManual, TypeOK, issuerVars
<1> QED
  BY <1>1, <1>4, <1>5

\* The other requests and the changes of configuration.
LEMMA RequestTyped ==
  ASSUME TypeOK, UNCHANGED waking, NEW s \in Sessions,
         \/ FetchGrant(s) \/ FetchFailure(s) \/ Cancel(s)
         \/ \E g, nonce \in Grants : FetchCredential(s, g, nonce)
  PROVE  TypeOK'
<1>1. CASE FetchGrant(s) \/ FetchFailure(s)
  BY <1>1, WakesTyped DEF FetchGrant, FetchFailure, HandlerTypes, TypeOK, issuerVars
<1>2. CASE Cancel(s)
  <2>1. cached' \in [Sessions -> Outcomes] /\ running' \in SUBSET Sessions
    BY <1>2 DEF Cancel, TypeOK, Outcomes
  <2>2. grants_by_id' \in [Grants -> Redemption]
    BY <1>2, PrunedTyped, RemovalTyped DEF Cancel, TypeOK
  <2> QED
    BY <1>2, <2>1, <2>2, PrunedTyped DEF Cancel, TypeOK
<1>3. ASSUME NEW g \in Grants, NEW nonce \in Grants, FetchCredential(s, g, nonce)
      PROVE  TypeOK'
  <2>1. PICK time \in Later(now), resolved \in BOOLEAN :
          /\ now' = time
          /\ grants_by_id' = Redeem(PrunedGrants, g)
          /\ redeemed' = IF resolved THEN [redeemed EXCEPT ![g] = @ + 1] ELSE redeemed
          /\ pending' = PrunedPending
          /\ UNCHANGED << sequence, issuerVars, job, body >>
    BY <1>3 DEF FetchCredential
  <2>2. time \in Times
    BY <2>1, ClockMoves DEF TypeOK
  <2>3. grants_by_id' \in [Grants -> Redemption]
    BY <2>1, <2>2, PrunedTyped, RegistryTyped
  <2>4. redeemed' \in [Grants -> Nat]
    BY <2>1 DEF TypeOK
  <2> QED
    BY <2>1, <2>2, <2>3, <2>4, PrunedTyped DEF TypeOK, issuerVars
<1> QED
  BY <1>1, <1>2, <1>3

LEMMA ConfigTyped ==
  ASSUME TypeOK, UNCHANGED waking, ConfigChange
  PROVE  TypeOK'
<1>1. pending' \in [Sessions -> Times \cup {None}] /\ grants_by_id' \in [Grants -> Redemption]
  BY PrunedTyped, RemovalTyped
     DEF ConfigChange, ConfigRejected, ResultsDropped, Reload, InvalidateAuthState, TypeOK
<1>2. CASE ConfigRejected
  BY <1>1, <1>2 DEF ConfigRejected, TypeOK, issuerVars
<1>3. CASE ResultsDropped \/ Reload
  <2>1. /\ epoch' = epoch + 1 /\ running' = {} /\ cached' = NoOutcomes /\ epoch < MaxEpoch
        /\ job' = [j \in Jobs |-> [job[j] EXCEPT !.attached = FALSE]]
    BY <1>3 DEF ResultsDropped, Reload, DetachJobs
  <2>2. job' \in [Jobs -> JobState]
    <3>1. \A j \in Jobs : [job[j] EXCEPT !.attached = FALSE] \in JobState
      BY JobFields DEF TypeOK
    <3> QED
      BY <2>1, <3>1
  <2>3. epoch' \in Epochs /\ cached' \in [Sessions -> Outcomes]
    BY <2>1 DEF TypeOK, Epochs, NoOutcomes, Outcomes
  <2> QED
    BY <1>1, <1>3, <2>1, <2>2, <2>3 DEF ResultsDropped, Reload, TypeOK
<1> QED
  BY <1>2, <1>3 DEF ConfigChange

LEMMA JobTyped ==
  ASSUME TypeOK, PoliciesPast, SequenceFresh, NEW j \in Jobs, JobStep(j)
  PROVE  TypeOK'
<1>1. CASE JobAcquires(j)
  <2>1. CASE sequence \in Grants
    <3> DEFINE r == [job[j] EXCEPT !.pc = "authenticating"]
    <3>1. job' = [job EXCEPT ![j] = [r EXCEPT !.grant = sequence]] /\ sequence' = sequence + 1
      BY <1>1, <2>1 DEF JobAcquires, TypeOK
    <3>2. [r EXCEPT !.grant = sequence] \in JobState
      BY <2>1, JobFields DEF TypeOK
    <3>3. sequence' \in 1..MaxGrants + 1
      BY <2>1, <3>1 DEF Grants
    <3> QED
      BY <1>1, <3>1, <3>2, <3>3 DEF JobAcquires, TypeOK, handlerVars, issuerVars, registryVars
  <2>2. CASE sequence \notin Grants
    BY <1>1, <2>2 DEF JobAcquires, TypeOK, JobState, handlerVars, issuerVars, registryVars
  <2> QED
    BY <2>1, <2>2
<1>2. CASE JobAccepts(j)
  <2> DEFINE grant == [session |-> job[j].session, issued_at |-> now,
                       expires_at |-> now + GrantTTL, epoch |-> job[j].epoch]
  <2>1. job[j].session \in Sessions /\ job[j].epoch \in Epochs /\ job[j].grant \in Grants
    BY <1>2 DEF JobAccepts, PoliciesPast, SequenceFresh, TypeOK, JobState
  <2>2. grant \in AuthGrant(Epochs)
    BY <2>1 DEF AuthGrant, TypeOK, Times
  <2>3. body' \in [Grants -> AuthGrant(Epochs) \cup {NoGrant}]
    BY <1>2, <2>1, <2>2 DEF JobAccepts, TypeOK
  <2>4. cached' \in [Sessions -> Outcomes]
    BY <1>2, <2>1 DEF JobAccepts, TypeOK, Outcomes
  <2>5. job' \in [Jobs -> JobState]
    BY <1>2, ClearedTyped DEF JobAccepts
  <2> QED
    BY <1>2, <2>3, <2>4, <2>5 DEF JobAccepts, TypeOK, handlerVars
<1>3. CASE JobRejects(j)
  <2>1. job' \in [Jobs -> JobState]
    BY <1>3, ClearedTyped DEF JobRejects
  <2> QED
    BY <1>3, <2>1 DEF JobRejects, TypeOK, handlerVars, issuerVars, registryVars
<1>6. CASE JobCloses(j)
  BY <1>6 DEF JobCloses, TypeOK, JobState, handlerVars, issuerVars, registryVars
<1>4. CASE JobRecordsFailure(j)
  <2>1. job[j] \in JobState /\ job' = [job EXCEPT ![j].pc = "ending"]
    BY <1>4 DEF JobRecordsFailure, TypeOK
  <2>2. job' \in [Jobs -> JobState]
    <3>1. [job[j] EXCEPT !.pc = "ending"] \in JobState
      BY <2>1 DEF JobState
    <3> QED
      BY <2>1, <3>1 DEF TypeOK
  <2>3. cached' \in [Sessions -> Outcomes]
    BY <1>4 DEF JobRecordsFailure, TypeOK, Outcomes
  <2> QED
    BY <1>4, <2>2, <2>3 DEF JobRecordsFailure, TypeOK, handlerVars, registryVars
<1>5. CASE JobEnds(j)
  <2>1. job' \in [Jobs -> JobState]
    BY <1>5 DEF JobEnds, TypeOK, JobState, IdleJob, Epochs
  <2> QED
    BY <1>5, <2>1 DEF JobEnds, TypeOK, handlerVars, registryVars
<1> QED
  BY <1>1, <1>2, <1>3, <1>4, <1>5, <1>6 DEF JobStep

LEMMA NextTyped ==
  ASSUME TypeOK, PoliciesPast, SequenceFresh, [Next]_vars
  PROVE  TypeOK'
<1>1. CASE Tick
  BY <1>1, ClockMoves DEF Tick, TypeOK, handlerVars, issuerVars, registryVars
<1>2. ASSUME UNCHANGED waking, HandlerStep PROVE TypeOK'
  <2>1. CASE \E s \in Sessions : Request(s)
    BY <1>2, <2>1, WakeTyped, RequestTyped DEF Request
  <2>2. CASE OnlyPrunes
    BY <1>2, <2>2, PrunedTyped DEF OnlyPrunes, TypeOK, issuerVars
  <2>3. CASE ConfigChange
    BY <1>2, <2>3, ConfigTyped
  <2> QED
    BY <1>2, <2>1, <2>2, <2>3 DEF HandlerStep
<1>3. CASE \E s \in Sessions : WakeStep(s)
  BY <1>3, WakeStepTyped
<1>5. CASE \E j \in Jobs : JobStep(j)
  BY <1>5, JobTyped
<1>6. CASE UNCHANGED vars
  BY <1>6 DEF vars, TypeOK
<1> QED
  BY <1>1, <1>2, <1>3, <1>5, <1>6 DEF Next

-----------------------------------------------------------------------------
(* What most steps have in common: no grant is issued and no policy changes.  *)

\* What may become of a tracked state; bodies and policy stay.
Moves(h) ==
  \/ grants_by_id'[h] = grants_by_id[h]
  \/ grants_by_id'[h] = "Absent" /\ IsExpiredAt(h, now')
  \/ grants_by_id[h] # "Absent" /\ grants_by_id'[h] \in {"Redeemed", "Revoked"}
  \/ /\ grants_by_id[h] \in {"Absent", "Available"} /\ grants_by_id'[h] = "Available"
     /\ Issued(h) /\ body[h].epoch = epoch

\* A credential is handed out only for a grant that is on offer, and spends it.
Spends(h) ==
  /\ redeemed'[h] = redeemed[h] + 1
  /\ grants_by_id[h] = "Available" /\ ~IsExpiredAt(h, now)
  /\ grants_by_id'[h] = "Redeemed"

\* A thread stays, starts, ends, or goes on without authenticating.
Proceeds(j) ==
  \/ job'[j] = job[j]
  \/ job'[j].pc = "idle"
  \/ /\ job'[j].pc # "authenticating" /\ job'[j].session \in Sessions
     /\ job'[j].epoch <= epoch /\ (job'[j].attached => job'[j].epoch = epoch)

Clock == now' \in Times /\ now <= now'

QuietStep ==
  /\ UNCHANGED << body, sequence, epoch >>
  /\ Clock
  /\ \A h \in Grants : Moves(h)
  /\ \A h \in Grants : redeemed'[h] = redeemed[h] \/ Spends(h)
  /\ \A s \in Sessions : cached'[s] = cached[s] \/ cached'[s] \notin Grants
  /\ \A j \in Jobs : Proceeds(j)

LEMMA QuietKeepsInvariant ==
  ASSUME IInv, TypeOK', QuietStep
  PROVE  IInv'
<1> USE DEF IInv
<1>1. now \in Times /\ epoch \in Epochs /\ epoch \in Int
  BY DEF TypeOK, Epochs
<1>2. \A h \in Grants : /\ body[h] \in AuthGrant(Epochs) \cup {NoGrant} /\ redeemed[h] \in Nat
                        /\ body[h].expires_at \in Int
  BY DEF TypeOK, AuthGrant, NoGrant, None
<1>3. SequenceFresh'
  <2>1. \A g \in Grants : g >= sequence =>
          body'[g] = NoGrant /\ grants_by_id'[g] = "Absent" /\ redeemed'[g] = 0
    BY DEF QuietStep, Moves, Spends, SequenceFresh, Issued, NoGrant, None
  <2>2. ASSUME NEW j \in Jobs, job'[j].pc = "authenticating"
        PROVE  /\ job'[j] = job[j] /\ job[j].pc = "authenticating"
               /\ job'[j].grant \in Grants /\ job'[j].grant < sequence'
               /\ body'[job'[j].grant] = NoGrant
               /\ grants_by_id'[job'[j].grant] = "Absent"
               /\ redeemed'[job'[j].grant] = 0
    <3>1. job'[j] = job[j] /\ job[j].pc = "authenticating"
      BY <2>2 DEF QuietStep, Proceeds
    <3>2. /\ job[j].grant \in Grants /\ job[j].grant < sequence
          /\ body[job[j].grant] = NoGrant /\ grants_by_id[job[j].grant] = "Absent"
          /\ redeemed[job[j].grant] = 0
      BY <3>1 DEF SequenceFresh
    <3>3. Moves(job[j].grant) /\ (redeemed'[job[j].grant] = redeemed[job[j].grant] \/ Spends(job[j].grant))
      BY <3>2 DEF QuietStep
    <3> QED
      BY <3>1, <3>2, <3>3 DEF QuietStep, Moves, Spends, Issued, NoGrant, None
  <2> QED
    BY <2>1, <2>2 DEF SequenceFresh, QuietStep
<1>4. PoliciesPast'
  BY DEF QuietStep, PoliciesPast, Issued, Proceeds
<1>5. OnOffer'
  <2>1. \A g \in Grants : grants_by_id'[g] = "Available" => Issued(g)' /\ body'[g].epoch = epoch'
    BY DEF QuietStep, Moves, OnOffer, Issued
  <2>2. \A s \in Sessions : cached'[s] \in Grants =>
          Issued(cached[s])' /\ body'[cached'[s]].epoch = epoch' /\ body'[cached'[s]].session = s
    BY DEF QuietStep, OnOffer, Issued
  <2>3. \A j \in Jobs : job'[j].pc # "idle" /\ job'[j].attached => job'[j].epoch = epoch'
    BY DEF QuietStep, Proceeds, OnOffer
  <2> QED
    BY <2>1, <2>2, <2>3 DEF OnOffer
<1>6. SpentRemembered'
  <2> SUFFICES ASSUME NEW g \in Grants, redeemed'[g] > 0
               PROVE  /\ redeemed'[g] = 1
                      /\ Issued(g)'
                      /\ grants_by_id'[g] \in {"Redeemed", "Revoked"} \/ IsExpiredAt(g, now)'
    BY DEF SpentRemembered
  <2>1. CASE redeemed'[g] = redeemed[g]
    <3>1. redeemed[g] = 1 /\ Issued(g) /\ (grants_by_id[g] \in {"Redeemed", "Revoked"} \/ IsExpiredAt(g, now))
      BY <2>1 DEF SpentRemembered
    <3>2. IsExpiredAt(g, now) => IsExpiredAt(g, now)'
      BY <1>1, <1>2 DEF QuietStep, Clock, IsExpiredAt, Times
    <3> QED
      BY <2>1, <3>1, <3>2 DEF QuietStep, Moves, Issued, IsExpiredAt
  <2>2. CASE Spends(g)
    <3>1. redeemed[g] = 0
      BY <1>2, <2>2 DEF Spends, SpentRemembered
    <3> QED
      BY <2>2, <3>1 DEF Spends, QuietStep, OnOffer, Issued
  <2> QED
    BY <2>1, <2>2 DEF QuietStep
<1> QED
  BY <1>3, <1>4, <1>5, <1>6

\* The handler's updates of the registry.
LEMMA HandlerMoves ==
  ASSUME IInv, NEW time \in Later(now), now' = time, NEW h \in Grants
  PROVE  /\ grants_by_id' = PrunedGrants => Moves(h)
         /\ grants_by_id' = RevokeAll(PrunedGrants) => Moves(h)
         /\ \A s \in Sessions : grants_by_id' = RevokeForSession(PrunedGrants, s) => Moves(h)
         /\ \A g \in Grants : /\ Issued(g) /\ body[g].epoch = epoch
                              /\ grants_by_id' = Insert(PrunedGrants, g, body[g], time)
                             => Moves(h)
         /\ \A g, grant : /\ g \in Grants /\ g # h
                          /\ grants_by_id' = Insert(PrunedGrants, g, grant, time)
                          => Moves(h)
         /\ \A g \in Grants : \A nonce, s :
              /\ CanRedeem(PrunedGrants, g, nonce, s, time)
              /\ grants_by_id' = Redeem(PrunedGrants, g)
              => Moves(h)
<1>1. TypeOK /\ now \in Times /\ time \in Times /\ now <= time
  BY ClockMoves DEF IInv, TypeOK
<1>2. /\ PrunedGrants \in [Grants -> Redemption]
      /\ \A g \in Grants : PrunedGrants[g] = IF IsExpiredAt(g, now) THEN "Absent" ELSE grants_by_id[g]
  BY <1>1, PrunedTyped, RegistryActs DEF PrunedGrants, TypeOK
<1>3. \A g \in Grants : IsExpiredAt(g, now) => IsExpiredAt(g, time)
  <2>1. \A g \in Grants : body[g].expires_at \in Int
    BY <1>1 DEF TypeOK, AuthGrant, NoGrant, None
  <2> QED
    BY <1>1, <2>1 DEF IsExpiredAt, Times
<1>4. grants_by_id' = PrunedGrants => Moves(h)
  BY <1>2, <1>3 DEF Moves
<1>5. grants_by_id' = RevokeAll(PrunedGrants) => Moves(h)
  <2>1. RevokeAll(PrunedGrants)[h] = IF PrunedGrants[h] = "Absent" THEN "Absent" ELSE "Revoked"
    BY <1>2 DEF RevokeAll
  <2> QED
    BY <1>2, <1>3, <2>1 DEF Moves
<1>6. \A s \in Sessions : grants_by_id' = RevokeForSession(PrunedGrants, s) => Moves(h)
  <2>1. \A s : RevokeForSession(PrunedGrants, s)[h] =
                 IF PrunedGrants[h] # "Absent" /\ body[h].session = s THEN "Revoked" ELSE PrunedGrants[h]
    BY <1>2 DEF RevokeForSession
  <2> QED
    BY <1>2, <1>3, <2>1 DEF Moves
<1>7. ASSUME NEW g \in Grants, NEW grant, grants_by_id' = Insert(PrunedGrants, g, grant, time),
             \/ g # h
             \/ grant = body[g] /\ Issued(g) /\ body[g].epoch = epoch
      PROVE  Moves(h)
  <2>1. grants_by_id'[h] = IF h = g /\ CanInsert(PrunedGrants, g, grant, time) THEN "Available"
                           ELSE IF IsExpiredAt(h, time) THEN "Absent" ELSE PrunedGrants[h]
    BY <1>1, <1>2, <1>7, RegistryActs
  <2>2. CASE h = g /\ CanInsert(PrunedGrants, g, grant, time)
    <3>1. body[h].expires_at \in Int /\ ~IsExpiredAt(h, time) /\ PrunedGrants[h] \in {"Absent", "Available"}
      BY <1>1, <1>7, <2>2 DEF CanInsert, IsExpiredAt, TypeOK, AuthGrant, NoGrant, None, Times
    <3> QED
      BY <1>2, <1>3, <1>7, <2>1, <2>2, <3>1 DEF Moves
  <2>3. CASE ~(h = g /\ CanInsert(PrunedGrants, g, grant, time))
    BY <1>2, <1>3, <2>1, <2>3 DEF Moves
  <2> QED
    BY <2>2, <2>3
<1>8. ASSUME NEW g \in Grants, NEW nonce, NEW s,
             CanRedeem(PrunedGrants, g, nonce, s, time), grants_by_id' = Redeem(PrunedGrants, g)
      PROVE  Moves(h)
  <2>1. grants_by_id'[h] = IF h = g THEN "Redeemed" ELSE PrunedGrants[h]
    BY <1>2, <1>8 DEF Redeem
  <2> QED
    BY <1>2, <1>3, <1>8, <2>1 DEF CanRedeem, Moves
<1> QED
  BY <1>4, <1>5, <1>6, <1>7, <1>8

\* The requests, threads and configuration changes that are quiet.
Quiet ==
  \/ Tick \/ OnlyPrunes \/ ConfigRejected
  \/ \E s \in Sessions : \/ WakeStep(s) \/ WakeFromCache(s) \/ WakeRefused(s)
                         \/ FetchGrant(s) \/ FetchFailure(s) \/ Cancel(s)
                         \/ \E g, nonce \in Grants : FetchCredential(s, g, nonce)
  \/ \E j \in Jobs : \/ JobRejects(j) \/ JobCloses(j) \/ JobRecordsFailure(j) \/ JobEnds(j)
                     \/ JobAcquires(j) /\ sequence \notin Grants

LEMMA ClockStays ==
  ASSUME TypeOK
  PROVE  now \in Later(now)
  BY DEF TypeOK, Later, Times

LEMMA CacheStays ==
  ASSUME TypeOK, NEW s \in Sessions, NEW o \in {None, Failed},
         cached' = [cached EXCEPT ![s] = o]
  PROVE  \A t \in Sessions : cached'[t] = cached[t] \/ cached'[t] \notin Grants
  BY DEF TypeOK, None, Failed, Grants

LEMMA WakesAreQuiet ==
  ASSUME IInv, NEW s \in Sessions,
         WakeStep(s) \/ WakeFromCache(s) \/ WakeRefused(s)
  PROVE  QuietStep
<1> USE DEF IInv
<1>1. now \in Later(now) /\ now \in Times
  BY ClockStays DEF TypeOK
<1>2. CASE WakeFromCache(s)
  <2>1. PICK time \in Later(now) :
          now' = time /\ grants_by_id' = Insert(PrunedGrants, cached[s], body[cached[s]], time)
    BY <1>2 DEF WakeFromCache, WakeIssued
  <2>2. cached[s] \in Grants /\ Issued(cached[s]) /\ body[cached[s]].epoch = epoch
    BY <1>2 DEF WakeFromCache, CacheHit, OnOffer
  <2>3. \A h \in Grants : Moves(h)
    BY <2>1, <2>2, HandlerMoves
  <2>4. Clock
    BY <2>1, ClockMoves DEF Clock, TypeOK
  <2> QED
    BY <1>2, <2>3, <2>4 DEF WakeFromCache, QuietStep, Proceeds, issuerVars
<1>3. CASE WakeLooks(s) \/ WakeRefused(s)
  <2>1. now' = now /\ grants_by_id' = PrunedGrants
    BY <1>3 DEF WakeLooks, WakeRefused, WakeStarted, WakeFailed
  <2>2. Clock /\ \A h \in Grants : Moves(h)
    BY <1>1, <2>1, HandlerMoves DEF Clock, Times
  <2>3. \A t \in Sessions : cached'[t] = cached[t] \/ cached'[t] \notin Grants
    BY <1>3, CacheStays DEF WakeLooks, WakeRefused, issuerVars
  <2> QED
    BY <1>3, <2>2, <2>3 DEF WakeLooks, WakeRefused, QuietStep, Proceeds, issuerVars
<1>4. CASE WakeAttaches(s) \/ WakeGivesUp(s)
  BY <1>1, <1>4 DEF WakeAttaches, WakeGivesUp, QuietStep, Clock, Times, Moves, Proceeds, issuerVars, registryVars
<1>5. CASE WakeSpawns(s)
  <2>1. Clock /\ \A h \in Grants : Moves(h)
    BY <1>1, <1>5 DEF WakeSpawns, Clock, Times, Moves, registryVars
  <2>4. PICK j \in Jobs : job' = [job EXCEPT ![j] = Spawned(s)]
    BY <1>5 DEF WakeSpawns, Spawned
  <2>5. \A k \in Jobs : job'[k] = IF k = j THEN Spawned(s) ELSE job[k]
    BY <2>4 DEF TypeOK
  <2>6. epoch <= epoch
    BY DEF TypeOK, Epochs
  <2>7. \A k \in Jobs : Proceeds(k)
    BY <2>5, <2>6, SpawnedTyped DEF Proceeds
  <2> QED
    BY <1>5, <2>1, <2>7 DEF WakeSpawns, QuietStep, registryVars
<1> QED
  BY <1>2, <1>3, <1>4, <1>5 DEF WakeStep

LEMMA RequestsAreQuiet ==
  ASSUME IInv, NEW s \in Sessions,
         \/ FetchGrant(s) \/ FetchFailure(s) \/ Cancel(s)
         \/ \E g, nonce \in Grants : FetchCredential(s, g, nonce)
  PROVE  QuietStep
<1> USE DEF IInv
<1>1. now \in Later(now) /\ now \in Times
  BY ClockStays DEF TypeOK
<1>2. CASE FetchGrant(s)
  <2>1. PICK time \in Later(now) :
          now' = time /\ grants_by_id' = Insert(PrunedGrants, cached[s], body[cached[s]], time)
    BY <1>2 DEF FetchGrant, WakeIssued
  <2>2. cached[s] \in Grants /\ Issued(cached[s]) /\ body[cached[s]].epoch = epoch
    BY <1>2 DEF FetchGrant, OnOffer
  <2>3. \A h \in Grants : Moves(h)
    BY <2>1, <2>2, HandlerMoves
  <2>4. Clock
    BY <2>1, ClockMoves DEF Clock, TypeOK
  <2> QED
    BY <1>2, <2>3, <2>4 DEF FetchGrant, QuietStep, Proceeds, issuerVars
<1>3. CASE FetchFailure(s)
  <2>1. Clock /\ \A h \in Grants : Moves(h)
    BY <1>1, <1>3, HandlerMoves DEF FetchFailure, WakeFailed, Clock, Times
  <2> QED
    BY <1>3, <2>1 DEF FetchFailure, QuietStep, Proceeds, issuerVars
<1>4. CASE Cancel(s)
  <2>1. Clock /\ \A h \in Grants : Moves(h)
    BY <1>1, <1>4, HandlerMoves DEF Cancel, Clock, Times
  <2>2. \A t \in Sessions : cached'[t] = cached[t] \/ cached'[t] \notin Grants
    BY <1>4, CacheStays DEF Cancel
  <2> QED
    BY <1>4, <2>1, <2>2 DEF Cancel, QuietStep, Proceeds
<1>5. ASSUME NEW g \in Grants, NEW nonce \in Grants, FetchCredential(s, g, nonce)
      PROVE  QuietStep
  <2>1. PICK time \in Later(now), resolved \in BOOLEAN :
          /\ CanRedeem(PrunedGrants, g, nonce, s, time)
          /\ now' = time
          /\ grants_by_id' = Redeem(PrunedGrants, g)
          /\ redeemed' = IF resolved THEN [redeemed EXCEPT ![g] = @ + 1] ELSE redeemed
          /\ UNCHANGED << sequence, issuerVars, job, body >>
    BY <1>5 DEF FetchCredential
  <2>2. Clock /\ \A h \in Grants : Moves(h)
    <3>1. \A h \in Grants : Moves(h)
      BY <2>1, HandlerMoves
    <3> QED
      BY <2>1, <3>1, ClockMoves DEF Clock, TypeOK
  <2>3. \A h \in Grants : redeemed'[h] = redeemed[h] \/ Spends(h)
    <3>1. PrunedGrants[g] = "Available"
      BY <2>1 DEF CanRedeem
    <3>2. grants_by_id[g] = "Available" /\ ~IsExpiredAt(g, now)
      BY <3>1, RegistryActs DEF PrunedGrants, TypeOK
    <3>3. PrunedGrants \in [Grants -> Redemption]
      BY PrunedTyped
    <3>4. grants_by_id'[g] = "Redeemed"
      BY <2>1, <3>3 DEF Redeem
    <3> QED
      BY <2>1, <3>2, <3>4 DEF Spends, TypeOK
  <2> QED
    BY <2>1, <2>2, <2>3 DEF QuietStep, Proceeds, issuerVars
<1> QED
  BY <1>2, <1>3, <1>4, <1>5

LEMMA JobsAreQuiet ==
  ASSUME IInv, NEW j \in Jobs,
         \/ JobRejects(j) \/ JobCloses(j) \/ JobRecordsFailure(j) \/ JobEnds(j)
         \/ JobAcquires(j) /\ sequence \notin Grants
  PROVE  QuietStep
<1> USE DEF IInv
<1>1. Clock /\ \A h \in Grants : Moves(h)
  BY DEF JobRejects, JobCloses, JobRecordsFailure, JobEnds, JobAcquires, Clock, Moves,
         registryVars, TypeOK, Times
<1>2. \A k \in Jobs : Proceeds(k)
  <2>1. \A k \in Jobs : job[k] \in JobState
    BY DEF TypeOK
  <2>2. job[j].pc # "idle" =>
          job[j].session \in Sessions /\ job[j].epoch <= epoch /\ (job[j].attached => job[j].epoch = epoch)
    BY DEF PoliciesPast, OnOffer
  <2>3. CASE JobRejects(j)
    <3>1. job[j].pc # "idle" /\ job' = [job EXCEPT ![j].pc = "failed", ![j].grant = None]
      BY <2>3 DEF JobRejects
    <3>2. /\ \A k \in Jobs : k # j => job'[k] = job[k]
          /\ job'[j].pc = "failed" /\ job'[j].session = job[j].session
          /\ job'[j].epoch = job[j].epoch /\ job'[j].attached = job[j].attached
      BY <3>1, ClearedTyped
    <3> QED
      BY <2>2, <3>1, <3>2 DEF Proceeds
  <2>4. CASE ~JobRejects(j)
    <3>1. \A k \in Jobs : k # j => job'[k] = job[k]
      BY <2>4 DEF JobCloses, JobRecordsFailure, JobEnds, JobAcquires, TypeOK
    <3>2. /\ job[j].pc # "idle"
          /\ \/ job'[j] = IdleJob
             \/ \E pc \in {"failed", "ending"} : job'[j] = [job[j] EXCEPT !.pc = pc]
      BY <2>4 DEF JobCloses, JobRecordsFailure, JobEnds, JobAcquires, TypeOK
    <3>3. Proceeds(j)
      BY <2>1, <2>2, <3>2 DEF Proceeds, JobState, IdleJob
    <3> QED
      BY <3>1, <3>3 DEF Proceeds
  <2> QED
    BY <2>3, <2>4
<1>3. \A s \in Sessions : cached'[s] = cached[s] \/ cached'[s] \notin Grants
  BY DEF JobRejects, JobCloses, JobRecordsFailure, JobEnds, JobAcquires, TypeOK, issuerVars, Failed, Grants
<1> QED
  BY <1>1, <1>2, <1>3
     DEF JobRejects, JobCloses, JobRecordsFailure, JobEnds, JobAcquires, QuietStep,
         registryVars, issuerVars, handlerVars

LEMMA QuietIsQuiet ==
  ASSUME IInv, Quiet
  PROVE  QuietStep
<1> USE DEF IInv
<1>1. CASE Tick
  BY <1>1 DEF Tick, QuietStep, Clock, Later, Moves, Proceeds, issuerVars, handlerVars, registryVars
<1>2. CASE OnlyPrunes \/ ConfigRejected
  <2>1. Clock /\ \A h \in Grants : Moves(h)
    BY <1>2, ClockStays, HandlerMoves DEF OnlyPrunes, ConfigRejected, InvalidateAuthState, Clock, TypeOK, Times
  <2> QED
    BY <1>2, <2>1 DEF OnlyPrunes, ConfigRejected, QuietStep, Proceeds, issuerVars
<1> QED
  BY <1>1, <1>2, WakesAreQuiet, RequestsAreQuiet, JobsAreQuiet DEF Quiet

-----------------------------------------------------------------------------
(* The steps that issue a grant, hand out a number, or change the policy.   *)

\* The simulated issuer takes a fresh number and offers its grant at once.
LEMMA ManualKeepsInvariant ==
  ASSUME IInv, TypeOK', NEW s \in Sessions, WakeManual(s)
  PROVE  IInv'
<1> USE DEF IInv
<1> DEFINE grant == [session |-> s, issued_at |-> now, expires_at |-> now + GrantTTL, epoch |-> epoch]
<1>1. PICK time \in Later(now) :
        /\ now' = time
        /\ grants_by_id' = Insert(PrunedGrants, sequence, grant, time)
  BY DEF WakeManual
<1>2. /\ sequence \in Grants /\ sequence' = sequence + 1
      /\ body' = [body EXCEPT ![sequence] = grant]
      /\ UNCHANGED << issuerVars, job, redeemed >>
  BY DEF WakeManual
<1>3. now \in Times /\ time \in Times /\ now <= time
  BY <1>1, ClockMoves DEF TypeOK
<1>4. /\ body[sequence] = NoGrant /\ grants_by_id[sequence] = "Absent" /\ redeemed[sequence] = 0
  BY <1>2 DEF SequenceFresh, Grants
<1>5. \A h \in Grants : h # sequence => body'[h] = body[h] /\ Moves(h)
  <2>1. \A h \in Grants : h # sequence => Moves(h)
    BY <1>1, <1>2, HandlerMoves
  <2> QED
    BY <1>2, <2>1 DEF TypeOK
<1>6. body'[sequence] = grant /\ grant.expires_at # None /\ grant.epoch = epoch
  BY <1>2, <1>3 DEF TypeOK, Times, None
<1>7. SequenceFresh'
  <2>1. \A g \in Grants : g >= sequence' => g # sequence /\ g >= sequence
    BY <1>2 DEF Grants
  <2>2. \A g \in Grants : g >= sequence' =>
          body'[g] = NoGrant /\ grants_by_id'[g] = "Absent" /\ redeemed'[g] = 0
    BY <1>2, <1>5, <2>1 DEF SequenceFresh, Moves, Issued, NoGrant, None
  <2>3. ASSUME NEW j \in Jobs, job[j].pc = "authenticating"
        PROVE  /\ job[j].grant \in Grants /\ job[j].grant < sequence'
               /\ body'[job[j].grant] = NoGrant
               /\ grants_by_id'[job[j].grant] = "Absent" /\ redeemed'[job[j].grant] = 0
    <3>1. /\ job[j].grant \in Grants /\ job[j].grant < sequence /\ body[job[j].grant] = NoGrant
          /\ grants_by_id[job[j].grant] = "Absent" /\ redeemed[job[j].grant] = 0
      BY <2>3 DEF SequenceFresh
    <3>2. job[j].grant # sequence /\ job[j].grant < sequence'
      BY <1>2, <3>1 DEF Grants
    <3> QED
      BY <1>2, <1>5, <3>1, <3>2 DEF Moves, Issued, NoGrant, None
  <2> QED
    BY <1>2, <2>2, <2>3 DEF SequenceFresh
<1>8. PoliciesPast'
  BY <1>2, <1>5, <1>6 DEF PoliciesPast, Issued, issuerVars, TypeOK, Epochs
<1>9. OnOffer'
  <2>1. \A g \in Grants : grants_by_id'[g] = "Available" => Issued(g)' /\ body'[g].epoch = epoch'
    BY <1>2, <1>5, <1>6 DEF OnOffer, Moves, Issued, issuerVars
  <2>2. \A t \in Sessions : cached[t] \in Grants => cached[t] # sequence
    BY <1>4 DEF OnOffer, Issued, NoGrant
  <2> QED
    BY <1>2, <1>5, <2>1, <2>2 DEF OnOffer, Issued, issuerVars
<1>10. SpentRemembered'
  <2> SUFFICES ASSUME NEW g \in Grants, redeemed[g] > 0
               PROVE  /\ redeemed[g] = 1
                      /\ Issued(g)'
                      /\ grants_by_id'[g] \in {"Redeemed", "Revoked"} \/ IsExpiredAt(g, now)'
    BY <1>2 DEF SpentRemembered
  <2>1. g # sequence
    BY <1>4
  <2>2. redeemed[g] = 1 /\ Issued(g) /\ (grants_by_id[g] \in {"Redeemed", "Revoked"} \/ IsExpiredAt(g, now))
    BY DEF SpentRemembered
  <2>3. IsExpiredAt(g, now) => IsExpiredAt(g, now')
    BY <1>1, <1>3, <2>2 DEF IsExpiredAt, Times, TypeOK, AuthGrant, NoGrant, None
  <2> QED
    BY <1>5, <2>1, <2>2, <2>3 DEF Moves, Issued, IsExpiredAt
<1> QED
  BY <1>7, <1>8, <1>9, <1>10

\* A thread reserves a number that nobody holds.
LEMMA AcquireKeepsInvariant ==
  ASSUME IInv, TypeOK', NEW j \in Jobs, JobAcquires(j), sequence \in Grants
  PROVE  IInv'
<1> USE DEF IInv
<1>1. /\ job[j].pc = "queued" /\ sequence' = sequence + 1
      /\ UNCHANGED << now, cached, epoch, redeemed, body, grants_by_id >>
  BY DEF JobAcquires, handlerVars, issuerVars, registryVars
<1>2. \A k \in Jobs : k # j => job'[k] = job[k]
  BY DEF JobAcquires, TypeOK
<1>3. /\ job'[j].pc = "authenticating" /\ job'[j].grant = sequence
      /\ job'[j].session = job[j].session /\ job'[j].epoch = job[j].epoch
      /\ job'[j].attached = job[j].attached
  BY DEF JobAcquires, TypeOK, JobState
<1>4. SequenceFresh'
  <2>1. \A g \in Grants : g >= sequence' => g >= sequence
    BY <1>1 DEF Grants
  <2>2. sequence < sequence' /\ sequence \in Grants
    BY <1>1 DEF Grants
  <2>3. body[sequence] = NoGrant /\ grants_by_id[sequence] = "Absent" /\ redeemed[sequence] = 0
    BY DEF SequenceFresh, Grants
  <2>4. ASSUME NEW k \in Jobs, k # j, job[k].pc = "authenticating"
        PROVE  job[k].grant \in Grants /\ job[k].grant < sequence /\ job[k].grant < sequence'
    BY <1>1, <2>4 DEF SequenceFresh, Grants
  <2>5. \A k \in Jobs : job'[k].pc = "authenticating" =>
          /\ job'[k].grant \in Grants /\ job'[k].grant < sequence'
          /\ body[job'[k].grant] = NoGrant
          /\ grants_by_id[job'[k].grant] = "Absent" /\ redeemed[job'[k].grant] = 0
    BY <1>2, <1>3, <2>2, <2>3, <2>4 DEF SequenceFresh
  <2>6. \A k, l \in Jobs :
          job'[k].pc = "authenticating" /\ job'[l].pc = "authenticating" /\ k # l
            => job'[k].grant # job'[l].grant
    BY <1>2, <1>3, <2>4 DEF SequenceFresh, Grants
  <2> QED
    BY <1>1, <2>1, <2>5, <2>6 DEF SequenceFresh
<1>5. PoliciesPast' /\ OnOffer' /\ SpentRemembered'
  BY <1>1, <1>2, <1>3 DEF PoliciesPast, OnOffer, SpentRemembered, Issued, IsExpiredAt
<1> QED
  BY <1>4, <1>5

\* A frame is accepted: the reserved number gets its body, for good.
LEMMA AcceptKeepsInvariant ==
  ASSUME IInv, TypeOK', NEW j \in Jobs, JobAccepts(j)
  PROVE  IInv'
<1> USE DEF IInv
<1> DEFINE g0 == job[j].grant
           grant == [session |-> job[j].session, issued_at |-> now,
                     expires_at |-> now + GrantTTL, epoch |-> job[j].epoch]
<1>1. /\ job[j].pc = "authenticating"
      /\ body' = [body EXCEPT ![g0] = grant]
      /\ cached' = IF job[j].attached THEN [cached EXCEPT ![job[j].session] = g0] ELSE cached
      /\ UNCHANGED << now, sequence, epoch, redeemed, grants_by_id >>
  BY DEF JobAccepts, handlerVars
<1>2. /\ \A k \in Jobs : k # j => job'[k] = job[k]
      /\ job'[j].pc = "closing" /\ job'[j].session = job[j].session
      /\ job'[j].epoch = job[j].epoch /\ job'[j].attached = job[j].attached
  BY ClearedTyped DEF JobAccepts
<1>3. /\ g0 \in Grants /\ g0 < sequence /\ body[g0] = NoGrant
      /\ grants_by_id[g0] = "Absent" /\ redeemed[g0] = 0
      /\ job[j].session \in Sessions /\ job[j].epoch <= epoch
      /\ (job[j].attached => job[j].epoch = epoch)
  BY <1>1 DEF SequenceFresh, PoliciesPast, OnOffer
<1>4. /\ body'[g0] = grant /\ body'[g0].expires_at # None
      /\ \A h \in Grants : h # g0 => body'[h] = body[h]
  <2>1. body'[g0] = grant /\ \A h \in Grants : h # g0 => body'[h] = body[h]
    <3> HIDE DEF grant, g0
    <3> QED
      BY <1>1, <1>3 DEF TypeOK
  <2>2. grant.expires_at # None
    BY DEF TypeOK, Times, None
  <2> QED
    BY <2>1, <2>2
<1>5. SequenceFresh'
  <2>1. \A h \in Grants : h >= sequence => h # g0
    BY <1>3 DEF Grants, TypeOK
  <2>2. \A k \in Jobs : job'[k].pc = "authenticating" =>
          k # j /\ job[k].pc = "authenticating" /\ job[k].grant # g0
    BY <1>1, <1>2 DEF SequenceFresh
  <2> QED
    BY <1>1, <1>2, <1>4, <2>1, <2>2 DEF SequenceFresh
<1>6. PoliciesPast'
  <2>1. \A h \in Grants : Issued(h)' => body'[h].epoch <= epoch
    BY <1>3, <1>4 DEF PoliciesPast, Issued
  <2> QED
    BY <1>1, <1>2, <1>3, <2>1 DEF PoliciesPast
<1>7. OnOffer'
  <2>1. \A h \in Grants : grants_by_id'[h] = "Available" => Issued(h)' /\ body'[h].epoch = epoch'
    BY <1>1, <1>3, <1>4 DEF OnOffer, Issued
  <2>2. \A s \in Sessions : cached'[s] \in Grants =>
          /\ body'[cached'[s]].expires_at # None /\ body'[cached'[s]].epoch = epoch'
          /\ body'[cached'[s]].session = s
    <3> SUFFICES ASSUME NEW s \in Sessions, cached'[s] \in Grants
                 PROVE  /\ body'[cached'[s]].expires_at # None /\ body'[cached'[s]].epoch = epoch'
                        /\ body'[cached'[s]].session = s
      OBVIOUS
    <3>1. CASE job[j].attached /\ s = job[j].session
      <4>1. cached'[s] = g0
        BY <1>1, <3>1 DEF TypeOK
      <4> QED
        BY <1>1, <1>3, <1>4, <3>1, <4>1
    <3>2. CASE ~(job[j].attached /\ s = job[j].session)
      <4>1. cached'[s] = cached[s]
        BY <1>1, <3>2 DEF TypeOK
      <4>2. Issued(cached[s]) /\ body[cached[s]].epoch = epoch /\ body[cached[s]].session = s
        BY <4>1 DEF OnOffer
      <4>3. cached[s] # g0
        BY <1>3, <4>2 DEF Issued, NoGrant
      <4> QED
        BY <1>1, <1>4, <4>1, <4>2, <4>3 DEF Issued
    <3> QED
      BY <3>1, <3>2
  <2> QED
    <3>1. \A k \in Jobs : job'[k].pc # "idle" /\ job'[k].attached => job'[k].epoch = epoch'
      BY <1>1, <1>2, <1>3 DEF OnOffer
    <3> QED
      BY <2>1, <2>2, <3>1 DEF OnOffer, Issued
<1>8. SpentRemembered'
  BY <1>1, <1>3, <1>4 DEF SpentRemembered, Issued, IsExpiredAt
<1> QED
  BY <1>5, <1>6, <1>7, <1>8

\* A change of policy revokes what is tracked, empties the cache and cuts off
\* the threads.
LEMMA DetachKeepsInvariant ==
  ASSUME IInv, TypeOK', ResultsDropped \/ Reload
  PROVE  IInv'
<1> USE DEF IInv
<1>1. /\ grants_by_id' = RevokeAll(PrunedGrants) /\ cached' = NoOutcomes /\ epoch' = epoch + 1
      /\ job' = [j \in Jobs |-> [job[j] EXCEPT !.attached = FALSE]]
      /\ UNCHANGED << now, sequence, redeemed, body >>
  BY DEF ResultsDropped, Reload, DetachJobs, InvalidateAuthState
<1>2. \A h \in Grants : Moves(h) /\ grants_by_id'[h] # "Available"
  <2>1. \A h \in Grants : grants_by_id'[h] # "Available"
    BY <1>1 DEF RevokeAll
  <2> QED
    BY <1>1, <2>1, ClockStays, HandlerMoves
<1>3. \A j \in Jobs : /\ job'[j].pc = job[j].pc /\ job'[j].session = job[j].session
                      /\ job'[j].epoch = job[j].epoch /\ job'[j].grant = job[j].grant
                      /\ ~job'[j].attached
  BY <1>1 DEF TypeOK, JobState
<1>4. SequenceFresh'
  <2>1. \A h \in Grants : body[h] = NoGrant /\ grants_by_id[h] = "Absent" => grants_by_id'[h] = "Absent"
    BY <1>2 DEF Moves
  <2>2. \A h \in Grants : h >= sequence =>
          body[h] = NoGrant /\ grants_by_id'[h] = "Absent" /\ redeemed[h] = 0
    BY <2>1 DEF SequenceFresh
  <2>3. \A j \in Jobs : job[j].pc = "authenticating" =>
          /\ job[j].grant \in Grants /\ job[j].grant < sequence /\ body[job[j].grant] = NoGrant
          /\ grants_by_id'[job[j].grant] = "Absent" /\ redeemed[job[j].grant] = 0
    BY <2>1 DEF SequenceFresh
  <2>4. \A j, k \in Jobs :
          job[j].pc = "authenticating" /\ job[k].pc = "authenticating" /\ j # k
            => job[j].grant # job[k].grant
    BY DEF SequenceFresh
  <2>5. \A j \in Jobs : job'[j].pc = "authenticating" =>
          /\ job'[j].grant \in Grants /\ job'[j].grant < sequence /\ body[job'[j].grant] = NoGrant
          /\ grants_by_id'[job'[j].grant] = "Absent" /\ redeemed[job'[j].grant] = 0
    BY <1>3, <2>3
  <2>6. \A j, k \in Jobs :
          job'[j].pc = "authenticating" /\ job'[k].pc = "authenticating" /\ j # k
            => job'[j].grant # job'[k].grant
    BY <1>3, <2>4
  <2> QED
    BY <1>1, <2>2, <2>5, <2>6 DEF SequenceFresh
<1>5. PoliciesPast'
  <2>1. /\ epoch \in Int
        /\ \A h \in Grants : Issued(h) => body[h].epoch \in Int
        /\ \A j \in Jobs : job[j].epoch \in Int
    BY DEF TypeOK, Epochs, AuthGrant, NoGrant, Issued, JobState
  <2>2. \A h \in Grants : Issued(h) => body[h].epoch <= epoch'
    BY <1>1, <2>1 DEF PoliciesPast
  <2>3. \A j \in Jobs : job[j].pc # "idle" => job[j].session \in Sessions /\ job[j].epoch <= epoch'
    BY <1>1, <2>1 DEF PoliciesPast
  <2> QED
    BY <1>1, <1>3, <2>2, <2>3 DEF PoliciesPast, Issued
<1>6. OnOffer'
  <2>1. \A h \in Grants : grants_by_id'[h] # "Available"
    BY <1>2
  <2>2. \A s \in Sessions : cached'[s] \notin Grants
    BY <1>1 DEF NoOutcomes, None, Grants
  <2>3. \A j \in Jobs : ~job'[j].attached
    BY <1>3
  <2> QED
    BY <2>1, <2>2, <2>3 DEF OnOffer
<1>7. SpentRemembered'
  BY <1>1, <1>2 DEF SpentRemembered, Moves, Issued, IsExpiredAt
<1> QED
  BY <1>4, <1>5, <1>6, <1>7

LEMMA StepKeepsInvariant ==
  ASSUME IInv, [Next]_vars
  PROVE  IInv'
<1>1. TypeOK'
  BY NextTyped DEF IInv
<1>2. CASE Quiet
  BY <1>1, <1>2, QuietIsQuiet, QuietKeepsInvariant
<1>3. CASE UNCHANGED vars
  BY <1>3 DEF IInv, vars, TypeOK, SequenceFresh, PoliciesPast, OnOffer, SpentRemembered, Issued,
              IsExpiredAt, AuthGrant, JobState
<1>4. CASE \E s \in Sessions : WakeManual(s)
  BY <1>1, <1>4, ManualKeepsInvariant
<1>5. CASE \E j \in Jobs : JobAcquires(j) /\ sequence \in Grants
  BY <1>1, <1>5, AcquireKeepsInvariant
<1>6. CASE \E j \in Jobs : JobAccepts(j)
  BY <1>1, <1>6, AcceptKeepsInvariant
<1>7. CASE ResultsDropped \/ Reload
  BY <1>1, <1>7, DetachKeepsInvariant
<1>8. CASE \E s \in Sessions : Request(s)
  BY <1>1, <1>4, <1>8, WakesAreQuiet, RequestsAreQuiet, QuietKeepsInvariant DEF Request
<1>9. CASE \E j \in Jobs : JobStep(j)
  BY <1>1, <1>5, <1>6, <1>9, JobsAreQuiet, QuietKeepsInvariant DEF JobStep
<1>10. CASE \/ Tick \/ OnlyPrunes \/ ConfigChange
            \/ \E s \in Sessions : WakeStep(s)
  BY <1>2, <1>7, <1>10 DEF ConfigChange, Quiet
<1> QED
  BY <1>3, <1>8, <1>9, <1>10 DEF Next, HandlerStep

LEMMA InitInvariant == Init => IInv
<1> SUFFICES ASSUME Init PROVE IInv
  OBVIOUS
<1>1. \A j \in Jobs : job[j].pc = "idle"
  BY DEF Init, IdleJob
<1>2. \A g \in Grants : /\ body[g] = NoGrant /\ grants_by_id[g] = "Absent" /\ redeemed[g] = 0
                        /\ ~Issued(g)
  BY DEF Init, RegistryInit, Issued, NoGrant
<1>3. \A s \in Sessions : cached[s] \notin Grants
  <2>1. \A s \in Sessions : cached[s] = None
    BY DEF Init, NoOutcomes
  <2>2. None \notin Grants
    BY DEF None, Grants
  <2> QED
    BY <2>1, <2>2
<1>4. SequenceFresh
  BY <1>1, <1>2 DEF SequenceFresh
<1>5. PoliciesPast
  BY <1>1, <1>2 DEF PoliciesPast
<1>6. OnOffer
  BY <1>1, <1>2, <1>3 DEF OnOffer
<1>7. SpentRemembered
  BY <1>2 DEF SpentRemembered
<1> QED
  BY <1>4, <1>5, <1>6, <1>7, InitTyped DEF IInv

-----------------------------------------------------------------------------
(* The service keeps its invariant, whoever asks for what and when: numbers are
   given out once, only the policy in force has grants on offer, and a grant
   that was spent is remembered for as long as it could be spent. *)
THEOREM InvariantHolds == Spec => []IInv
<1>1. Init => IInv
  BY InitInvariant
<1>2. IInv /\ [Next]_vars => IInv'
  BY StepKeepsInvariant
<1> QED
  BY <1>1, <1>2, PTL DEF Spec

(* The service's state keeps its types. *)
THEOREM TypeCorrect == Spec => []TypeOK
<1>1. IInv => TypeOK
  BY DEF IInv
<1> QED
  BY <1>1, InvariantHolds, PTL

(* No grant ever yields two credentials, although the cache goes on offering it
   and expiry makes the registry forget that it was used. *)
THEOREM SpentOnce == Spec => []GrantsSpentOnce
<1>1. IInv => GrantsSpentOnce
  BY DEF IInv, TypeOK, SpentRemembered, GrantsSpentOnce
<1> QED
  BY <1>1, InvariantHolds, PTL

-----------------------------------------------------------------------------
(* Credentials and policies                                                *)

\* Credentials are handed out in quiet steps only.
LEMMA OnlySpends ==
  ASSUME IInv, [Next]_vars, NEW g \in Grants
  PROVE  redeemed'[g] = redeemed[g] \/ (QuietStep /\ Spends(g))
<1>q. QuietStep => redeemed'[g] = redeemed[g] \/ Spends(g)
  BY DEF QuietStep
<1>1. CASE Quiet
  BY <1>q, <1>1, QuietIsQuiet
<1>2. CASE \/ \E s \in Sessions : WakeManual(s)
           \/ \E j \in Jobs : JobAcquires(j) \/ JobAccepts(j)
           \/ ResultsDropped \/ Reload \/ UNCHANGED vars
  BY <1>2 DEF WakeManual, JobAcquires, JobAccepts, ResultsDropped, Reload, vars, handlerVars
<1>3. CASE \E s \in Sessions : Request(s)
  BY <1>q, <1>2, <1>3, WakesAreQuiet, RequestsAreQuiet DEF Request
<1>4. CASE \E j \in Jobs : JobStep(j)
  BY <1>q, <1>2, <1>4, JobsAreQuiet DEF JobStep
<1>5. CASE \/ Tick \/ OnlyPrunes \/ ConfigChange
           \/ \E s \in Sessions : WakeStep(s)
  BY <1>1, <1>2, <1>5 DEF ConfigChange, Quiet
<1> QED
  BY <1>2, <1>3, <1>4, <1>5 DEF Next, HandlerStep

(* A credential is never handed out for a grant of an earlier policy, by
   whichever way the grant reached the registry: invalidate_auth_state,
   invalidate_results and reload leave none on offer, and a job that outlives
   them publishes where nobody reads. *)
THEOREM OldPoliciesAreDead == Spec => OldPolicyNeverAuthorizes
<1>1. IInv /\ [Next]_vars =>
        [\A g \in Grants : redeemed'[g] # redeemed[g] => body[g].epoch = epoch]_vars
  BY OnlySpends DEF IInv, OnOffer, Spends
<1> QED
  BY <1>1, InvariantHolds, PTL DEF Spec, OldPolicyNeverAuthorizes

-----------------------------------------------------------------------------
(* The refinement of OneTimeGrants                                         *)

status == [g \in Grants |-> Status(g)]

LEMMA StatusTyped ==
  /\ status \in [Grants -> {"unissued", "live", "dead"}]
  /\ status' \in [Grants -> {"unissued", "live", "dead"}]
  /\ \A g \in Grants : status[g] = Status(g) /\ status'[g] = Status(g)'
  BY DEF status, Status

\* A grant nobody issues or uses in a step only ages.
LEMMA QuietAges ==
  ASSUME IInv, Clock, NEW h \in Grants, body'[h] = body[h], epoch' = epoch, Moves(h),
         redeemed'[h] = redeemed[h]
  PROVE  status'[h] = status[h] \/ (status[h] = "live" /\ status'[h] = "dead")
<1>1. IsExpiredAt(h, now) => IsExpiredAt(h, now)'
  BY DEF IsExpiredAt, Clock, IInv, TypeOK, AuthGrant, NoGrant, None, Times
<1>2. Issued(h)' <=> Issued(h)
  BY DEF Issued
<1>3. Status(h)' = Status(h) \/ (Status(h) = "live" /\ Status(h)' = "dead")
  BY <1>1, <1>2 DEF Status, Moves, IsExpiredAt
<1> QED
  BY <1>3, StatusTyped

\* A grant of before a change of policy is dead after it.
LEMMA DetachAges ==
  ASSUME IInv, ResultsDropped \/ Reload, NEW h \in Grants
  PROVE  status'[h] = status[h] \/ (status[h] = "live" /\ status'[h] = "dead")
<1>1. epoch' = epoch + 1 /\ UNCHANGED << body, redeemed, now >>
  BY DEF ResultsDropped, Reload, DetachJobs
<1>2. Issued(h)' <=> Issued(h)
  BY <1>1 DEF Issued
<1>3. Issued(h) => body'[h].epoch # epoch'
  <2>1. Issued(h) => body[h].epoch \in Int /\ epoch \in Int
    BY DEF IInv, TypeOK, Epochs, AuthGrant, NoGrant, Issued
  <2> QED
    BY <1>1, <2>1 DEF IInv, PoliciesPast
<1>4. Status(h)' = Status(h) \/ (Status(h) = "live" /\ Status(h)' = "dead")
  BY <1>2, <1>3 DEF Status
<1> QED
  BY <1>4, StatusTyped

LEMMA QuietImplements ==
  ASSUME IInv, QuietStep,
         redeemed' = redeemed \/ \E g \in Grants : redeemed' = [redeemed EXCEPT ![g] = @ + 1]
  PROVE  Promise!Next
<1>1. \A h \in Grants : redeemed'[h] = redeemed[h] =>
        status'[h] = status[h] \/ (status[h] = "live" /\ status'[h] = "dead")
  BY QuietAges DEF QuietStep
<1>2. CASE redeemed' = redeemed
  <2>1. Promise!Die
    BY <1>1, <1>2, StatusTyped DEF Promise!Die, Promise!Ages, status
  <2> QED
    BY <2>1 DEF Promise!Next
<1>3. ASSUME NEW g \in Grants, redeemed' = [redeemed EXCEPT ![g] = @ + 1]
      PROVE  Promise!Next
  <2>1. redeemed'[g] = redeemed[g] + 1 /\ redeemed[g] \in Nat
        /\ \A h \in Grants \ {g} : redeemed'[h] = redeemed[h]
    BY <1>3 DEF IInv, TypeOK
  <2>2. Spends(g)
    BY <2>1 DEF QuietStep
  <2>3. Status(g) = "live"
    <3>1. Issued(g) /\ body[g].epoch = epoch /\ redeemed[g] = 0
      BY <2>1, <2>2 DEF Spends, IInv, OnOffer, SpentRemembered
    <3> QED
      BY <2>2, <3>1 DEF Status, Spends
  <2>4. Status(g)' = "dead"
    BY <2>1, <2>3 DEF Status, QuietStep, Issued
  <2>5. Promise!Use(g)
    BY <1>1, <1>3, <2>1, <2>3, <2>4, StatusTyped DEF Promise!Use, Promise!Ages, status
  <2> QED
    BY <2>5 DEF Promise!Next
<1> QED
  BY <1>2, <1>3

\* A grant that gets its body is born, alive or already dead.
LEMMA Birth ==
  ASSUME NEW g \in Grants, body[g] = NoGrant, body'[g].expires_at # None, redeemed' = redeemed,
         \A h \in Grants \ {g} :
           status'[h] = status[h] \/ (status[h] = "live" /\ status'[h] = "dead")
  PROVE  Promise!Next
<1>1. Status(g) = "unissued" /\ Status(g)' # "unissued"
  BY DEF Status, Issued, NoGrant
<1>2. Promise!Issue(g)
  BY <1>1, StatusTyped DEF Promise!Issue, Promise!Ages, status
<1> QED
  BY <1>2 DEF Promise!Next

LEMMA ManualImplements ==
  ASSUME IInv, NEW s \in Sessions, WakeManual(s)
  PROVE  Promise!Next
<1> DEFINE grant == [session |-> s, issued_at |-> now, expires_at |-> now + GrantTTL, epoch |-> epoch]
<1>1. PICK time \in Later(now) :
        /\ now' = time
        /\ grants_by_id' = Insert(PrunedGrants, sequence, grant, time)
  BY DEF WakeManual
<1>2. /\ sequence \in Grants /\ epoch' = epoch /\ redeemed' = redeemed
      /\ body' = [body EXCEPT ![sequence] = grant]
  BY DEF WakeManual, issuerVars
<1>3. Clock /\ now \in Times
  BY <1>1, ClockMoves DEF Clock, IInv, TypeOK
<1>4. body[sequence] = NoGrant
  BY <1>2 DEF IInv, SequenceFresh, Grants
<1>5. \A h \in Grants : h # sequence => body'[h] = body[h] /\ Moves(h)
  <2>1. \A h \in Grants : h # sequence => Moves(h)
    BY <1>1, <1>2, HandlerMoves
  <2> QED
    BY <1>2, <2>1 DEF IInv, TypeOK
<1>6. body'[sequence].expires_at # None
  BY <1>2, <1>3 DEF IInv, TypeOK, Times, None
<1>7. \A h \in Grants \ {sequence} :
        status'[h] = status[h] \/ (status[h] = "live" /\ status'[h] = "dead")
  BY <1>2, <1>3, <1>5, QuietAges
<1> QED
  BY <1>2, <1>4, <1>6, <1>7, Birth

LEMMA AcceptImplements ==
  ASSUME IInv, NEW j \in Jobs, JobAccepts(j)
  PROVE  Promise!Next
<1> DEFINE g0 == job[j].grant
           grant == [session |-> job[j].session, issued_at |-> now,
                     expires_at |-> now + GrantTTL, epoch |-> job[j].epoch]
<1>1. /\ job[j].pc = "authenticating" /\ body' = [body EXCEPT ![g0] = grant]
      /\ now' = now /\ epoch' = epoch /\ redeemed' = redeemed /\ grants_by_id' = grants_by_id
  BY DEF JobAccepts, handlerVars
<1>2. g0 \in Grants /\ body[g0] = NoGrant
  BY <1>1 DEF IInv, SequenceFresh
<1>3. grant.expires_at # None /\ Clock
  BY <1>1 DEF IInv, TypeOK, Times, None, Clock
<1>4. /\ body'[g0] = grant
      /\ \A h \in Grants \ {g0} : body'[h] = body[h]
  <2> HIDE DEF g0, grant
  <2> QED
    BY <1>1, <1>2 DEF IInv, TypeOK
<1>5. \A h \in Grants \ {g0} : status'[h] = status[h] \/ (status[h] = "live" /\ status'[h] = "dead")
  BY <1>1, <1>3, <1>4, QuietAges DEF Moves
<1> HIDE DEF g0, grant
<1> QED
  BY <1>1, <1>2, <1>3, <1>4, <1>5, Birth

LEMMA StepImplements ==
  ASSUME IInv, [Next]_vars
  PROVE  [Promise!Next]_<<status, redeemed>>
<1>2. CASE \/ Tick \/ OnlyPrunes \/ ConfigRejected
           \/ \E s \in Sessions : \/ WakeStep(s) \/ WakeFromCache(s)
                                  \/ WakeRefused(s) \/ FetchGrant(s) \/ FetchFailure(s) \/ Cancel(s)
  <2>1. QuietStep
    BY <1>2, WakesAreQuiet, RequestsAreQuiet, QuietIsQuiet DEF Quiet
  <2>2. redeemed' = redeemed
    BY <1>2 DEF Tick, OnlyPrunes, ConfigRejected, WakeStep, WakeLooks, WakeAttaches,
                WakeSpawns, WakeGivesUp, WakeFromCache, WakeRefused, FetchGrant, FetchFailure, Cancel, handlerVars
  <2> QED
    BY <2>1, <2>2, QuietImplements
<1>3. ASSUME NEW s \in Sessions, NEW g \in Grants, NEW nonce \in Grants, FetchCredential(s, g, nonce)
      PROVE  Promise!Next
  <2>1. QuietStep
    BY <1>3, RequestsAreQuiet
  <2>2. redeemed' = redeemed \/ redeemed' = [redeemed EXCEPT ![g] = @ + 1]
    BY <1>3 DEF FetchCredential
  <2> QED
    BY <2>1, <2>2, QuietImplements
<1>4. ASSUME NEW j \in Jobs,
             \/ JobRejects(j) \/ JobCloses(j) \/ JobRecordsFailure(j) \/ JobEnds(j)
             \/ JobAcquires(j) /\ sequence \notin Grants
      PROVE  Promise!Next
  <2>1. QuietStep
    BY <1>4, JobsAreQuiet
  <2>2. redeemed' = redeemed
    BY <1>4 DEF JobRejects, JobCloses, JobRecordsFailure, JobEnds, JobAcquires, handlerVars
  <2> QED
    BY <2>1, <2>2, QuietImplements
<1>5. ASSUME NEW j \in Jobs, JobAcquires(j)
      PROVE  UNCHANGED << status, redeemed >>
  BY <1>5 DEF JobAcquires, handlerVars, issuerVars, registryVars, status, Status, Issued, IsExpiredAt
<1>6. CASE ResultsDropped \/ Reload
  <2>1. redeemed' = redeemed
    BY <1>6 DEF ResultsDropped, Reload
  <2>2. \A h \in Grants : status'[h] = status[h] \/ (status[h] = "live" /\ status'[h] = "dead")
    BY <1>6, DetachAges
  <2>3. Promise!Die
    BY <2>1, <2>2, StatusTyped DEF Promise!Die, Promise!Ages, status
  <2> QED
    BY <2>3 DEF Promise!Next
<1>7. CASE UNCHANGED vars
  BY <1>7 DEF vars, status, Status, Issued, IsExpiredAt
<1>8. CASE \E s \in Sessions : Request(s)
  BY <1>2, <1>3, <1>8, ManualImplements DEF Request
<1>9. CASE \E j \in Jobs : JobStep(j)
  BY <1>4, <1>5, <1>9, AcceptImplements DEF JobStep
<1> QED
  BY <1>2, <1>6, <1>7, <1>8, <1>9 DEF Next, HandlerStep, ConfigChange

(* The whole service, with its registry of tombstones, its cache and its
   threads, implements one-time grants: what is born dies once, and is used at
   most once, while it lives. *)
THEOREM ServiceImplementsOneTimeGrants == Spec => ImplementsOneTimeGrants
<1>1. Init => Promise!Init
  <2> SUFFICES ASSUME Init PROVE Promise!Init
    OBVIOUS
  <2>1. \A g \in Grants : ~Issued(g)
    BY DEF Init, RegistryInit, Issued, NoGrant
  <2>2. \A g \in Grants : Status(g) = "unissued"
    BY <2>1 DEF Status
  <2> QED
    BY <2>2 DEF Init, Promise!Init
<1>2. IInv /\ [Next]_vars => [Promise!Next]_<<[g \in Grants |-> Status(g)], redeemed>>
  BY StepImplements DEF status
<1> QED
  BY <1>1, <1>2, InvariantHolds, PTL DEF Spec, ImplementsOneTimeGrants, Promise!Spec
=============================================================================

---------------------- MODULE CredentialProvider_proofs ----------------------
(***************************************************************************)
(* Proofs about CredentialProvider, for any number of providers, workers,  *)
(* attempts, generations and credential versions.                          *)
(***************************************************************************)
EXTENDS CredentialProvider, TLAPS

USE GuardAssumption, ProviderAssumption

-----------------------------------------------------------------------------
(* What a transaction and the operations on a guard state produce.         *)

LEMMA GuardOps ==
  ASSUME NEW g \in GuardState
  PROVE  /\ CanAdvance(g) => Reserved(g) \in GuardState /\ Updated(g) \in GuardState
         /\ \A b \in BOOLEAN : Completed(g, b) \in GuardState
         /\ \A b \in BOOLEAN : Completed(g, b).generation = g.generation
         /\ Completed(g, TRUE).phase = "Ready"
         /\ Completed(g, FALSE).phase = "Rejected"
  BY DEF GuardState, CanAdvance, Reserved, Updated, Completed, Generations, Phases

\* Every registry write leaves a guard state behind, in both copies.
LEMMA WritesTyped ==
  ASSUME guard \in GuardState, durable \in GuardState,
         NEW new \in GuardState, Commit(new) \/ CommitFails(new)
  PROVE  guard' \in GuardState /\ durable' \in GuardState
  BY DEF Commit, CommitFails

-----------------------------------------------------------------------------
(* Types                                                                   *)

Housed == TypeOK /\ WorkersHoused

LEMMA NewRecords ==
  /\ NewProvider \in ProviderState
  /\ IdleWorker \in WorkerState
  /\ \A p \in Providers, mode \in Modes :
       /\ Started(p, mode) \in WorkerState
       /\ Started(p, mode).provider = p
       /\ Started(p, mode).request = 0
       /\ Started(p, mode).pc \in {"waiting", "begin"}
<1>1. NewProvider \in ProviderState
  BY DEF NewProvider, ProviderState, UnlockPhases, Requests, None
<1>2. IdleWorker \in WorkerState /\ IdleWorker.request = 0
  BY DEF IdleWorker, WorkerState, Requests, Modes, Outcomes, None
<1>3. ASSUME NEW p \in Providers, NEW mode \in Modes
      PROVE  /\ Started(p, mode) \in WorkerState
             /\ Started(p, mode).provider = p
             /\ Started(p, mode).request = 0
             /\ Started(p, mode).pc \in {"waiting", "begin"}
  <2> DEFINE label == IF mode = "Triggered" THEN "waiting" ELSE "begin"
             e == IdleWorker
  <2>1. Started(p, mode) = [[[e EXCEPT !.pc = label] EXCEPT !.provider = p] EXCEPT !.mode = mode]
    BY DEF Started
  <2>2. label \in {"waiting", "begin"}
    OBVIOUS
  <2> HIDE DEF e, label
  <2> QED
    BY <1>2, <2>1, <2>2 DEF WorkerState, e
<1> QED
  BY <1>1, <1>2, <1>3

LEMMA InitHoused == Init => Housed
<1> SUFFICES ASSUME Init PROVE Housed
  OBVIOUS
<1>1. guard \in GuardState /\ durable \in GuardState
  BY DEF Init, GuardInit, GuardState, Generations, Phases
<1>2. 1 \in Versions /\ 0 \in Generations
  BY DEF Versions, Generations
<1>3. fate \in [Generations -> Fates]
  BY DEF Init, Fates
<1>4. \A w \in Workers : worker[w].pc = "idle"
  BY DEF Init, IdleWorker
<1> QED
  BY <1>1, <1>2, <1>3, <1>4, NewRecords DEF Init, Housed, TypeOK, WorkersHoused

\* Starting a worker, while requests only grow.
LEMMA SpawnHoused ==
  ASSUME Housed, NEW p \in Providers, NEW mode \in Modes,
         prov' \in [Providers -> ProviderState],
         \A q \in Providers : prov'[q].request = prov[q].request,
         Spawn(p, mode)
  PROVE  worker' \in [Workers -> WorkerState] /\ WorkersHoused'
<1>1. PICK w \in Workers : worker' = [worker EXCEPT ![w] = Started(p, mode)]
  BY DEF Spawn
<1>2. prov[p].request \in Nat
  BY DEF Housed, TypeOK, ProviderState, Requests
<1> QED
  BY <1>1, <1>2, NewRecords DEF Housed, TypeOK, WorkersHoused

\* LogonUI's calls, and the processes that end, keep providers typed.
LEMMA LogonUIHoused ==
  ASSUME Housed, NEW p \in Providers, LogonUIStep(p)
  PROVE  Housed'
<1> USE DEF Housed, TypeOK, WorkersHoused, ProviderState, UnlockPhases, Requests, None
<1>1. CASE Advise(p)
  <2>1. \/ worker' = worker
        \/ \E mode \in Modes : Spawn(p, mode)
    BY <1>1, WakeModesAssumption DEF Advise, Modes
  <2>2. PICK r \in ProviderState :
          prov' = [prov EXCEPT ![p] = r] /\ r.request = prov[p].request
    <3>1. PICK reopened :
            prov' = [prov EXCEPT ![p].advised = TRUE,
                                 ![p].phase = IF reopened THEN "ProviderLoaded" ELSE @]
      BY <1>1 DEF Advise
    <3> DEFINE r == [prov[p] EXCEPT !.advised = TRUE,
                                    !.phase = IF reopened THEN "ProviderLoaded" ELSE @]
    <3>2. prov[p] \in ProviderState
      OBVIOUS
    <3>3. r \in ProviderState /\ r.request = prov[p].request
      BY <3>2
    <3>4. prov' = [prov EXCEPT ![p] = r]
      BY <3>1
    <3> QED
      BY <3>3, <3>4
  <2>3. guard' = guard /\ durable' = durable /\ UNCHANGED << storeVars, history >>
    BY <1>1 DEF Advise
  <2>4. /\ prov' \in [Providers -> ProviderState]
        /\ \A q \in Providers : prov'[q].request = prov[q].request
    BY <2>2
  <2>5. worker' \in [Workers -> WorkerState] /\ WorkersHoused'
    BY <2>1, <2>4, SpawnHoused
  <2> QED
    BY <2>3, <2>4, <2>5 DEF storeVars, history
<1>2. CASE UnAdvise(p)
  <2>1. UNCHANGED << guard, durable, storeVars, history >>
    BY <1>2 DEF UnAdvise
  <2>2. prov' \in [Providers -> ProviderState]
        /\ \A q \in Providers : prov[q].request <= prov'[q].request
    BY <1>2 DEF UnAdvise
  <2>3. worker' \in [Workers -> WorkerState]
    <3>1. \A w \in Workers, orphan \in BOOLEAN : [worker[w] EXCEPT !.orphan = orphan] \in WorkerState
      BY DEF WorkerState
    <3>2. worker' = [w \in Workers |-> [worker[w] EXCEPT !.orphan = @ \/ worker[w].provider = p]]
      BY <1>2 DEF UnAdvise
    <3>3. \A w \in Workers : (worker[w].orphan \/ worker[w].provider = p) \in BOOLEAN
      OBVIOUS
    <3> QED
      BY <3>1, <3>2, <3>3
  <2>4. \A w \in Workers : /\ worker'[w].pc = worker[w].pc /\ worker'[w].provider = worker[w].provider
                          /\ worker'[w].request = worker[w].request
    BY <1>2 DEF UnAdvise, WorkerState
  <2>5. WorkersHoused'
    BY <2>2, <2>4 DEF WorkerState
  <2> QED
    BY <2>1, <2>2, <2>3, <2>5 DEF storeVars, history
<1>3. CASE SetSelected(p)
  BY <1>3, NewRecords DEF SetSelected, Spawn, storeVars, history, Modes
<1>4. CASE TakeAccepted(p)
  BY <1>4, GuardOps, WritesTyped DEF TakeAccepted, storeVars, CanReserve, Fates, GuardState
<1>5. CASE TakeRefused(p)
  BY <1>5, GuardOps, WritesTyped DEF TakeRefused, guardVars, storeVars, history, CanReserve
<1>6. CASE HandOver(p)
  BY <1>6 DEF HandOver, provVars, storeVars, Fates
<1>7. CASE PackFails(p)
  <2>1. guard' \in GuardState /\ durable' \in GuardState
    BY <1>7, GuardOps, WritesTyped DEF PackFails, guardVars
  <2> DEFINE r == [prov[p] EXCEPT !.submission = None, !.phase = "Completed"]
  <2>2. prov' = [prov EXCEPT ![p] = r] /\ r \in ProviderState /\ r.request = prov[p].request
    <3>1. prov[p] \in ProviderState
      OBVIOUS
    <3>2. r \in ProviderState /\ r.request = prov[p].request
      BY <3>1
    <3>3. prov' = [prov EXCEPT ![p] = r]
      BY <1>7 DEF PackFails
    <3> QED
      BY <3>2, <3>3
  <2>3. fate' \in [Generations -> Fates]
    BY <1>7 DEF PackFails, Fates
  <2>4. /\ prov' \in [Providers -> ProviderState]
        /\ \A q \in Providers : prov'[q].request = prov[q].request
    <3> HIDE DEF r
    <3>1. \A q \in Providers : prov'[q] = IF q = p THEN r ELSE prov[q]
      BY <2>2
    <3> QED
      BY <2>2, <3>1
  <2>5. worker' = worker /\ UNCHANGED << storeVars, updates, floor >>
    BY <1>7 DEF PackFails
  <2> QED
    BY <2>1, <2>3, <2>4, <2>5 DEF storeVars
<1>8. ASSUME NEW succeeded \in BOOLEAN, ReportResult(p, succeeded)
      PROVE  Housed'
  BY <1>8, GuardOps, WritesTyped DEF ReportResult, guardVars, storeVars, Fates
<1>9. CASE CooldownElapses(p)
  <2> DEFINE r == [prov[p] EXCEPT !.cooling = FALSE]
  <2>1. prov[p] \in ProviderState
    OBVIOUS
  <2>2. r \in ProviderState /\ r.request = prov[p].request
    BY <2>1
  <2>3. prov' = [prov EXCEPT ![p] = r] /\ UNCHANGED << guard, durable, worker, storeVars, history >>
    BY <1>9 DEF CooldownElapses
  <2> QED
    BY <2>2, <2>3 DEF storeVars, history
<1>10. CASE ProcessExit(p)
  BY <1>10 DEF ProcessExit, storeVars, FateWithout, WorkersWithout, NewProvider, WorkerState,
     IdleWorker, Modes, Outcomes, Versions, Fates
<1> QED
  BY <1>1, <1>2, <1>3, <1>4, <1>5, <1>6, <1>7, <1>8, <1>9, <1>10 DEF LogonUIStep

\* The shape of a worker's step: its own record, and that of its provider.
Touches(w, p, s, r) ==
  /\ worker' = [worker EXCEPT ![w] = s]
  /\ prov' = [prov EXCEPT ![p] = r]
  /\ UNCHANGED << guard, durable, storeVars, history >>

LEMMA TouchHoused ==
  ASSUME Housed, NEW w \in Workers, NEW p \in Providers,
         NEW s \in WorkerState, NEW r \in ProviderState, Touches(w, p, s, r),
         prov[p].request <= r.request,
         s.pc # "idle" => s.provider = p /\ s.request <= r.request
  PROVE  Housed'
<1>1. TypeOK'
  BY DEF Touches, Housed, TypeOK, storeVars, history
<1>2. \A q \in Providers : prov[q].request \in Nat /\ prov[q].request <= prov'[q].request
  BY DEF Touches, Housed, TypeOK, ProviderState, Requests
<1>3. \A x \in Workers : worker[x].request \in Nat
  BY DEF Housed, TypeOK, WorkerState, Requests
<1>4. \A q \in Providers : prov'[q].request \in Nat
  BY <1>1 DEF TypeOK, ProviderState, Requests
<1>5. ASSUME NEW x \in Workers, worker'[x].pc # "idle"
      PROVE  worker'[x].provider \in Providers
             /\ worker'[x].request <= prov'[worker'[x].provider].request
  <2>1. CASE x = w
    BY <1>5, <2>1 DEF Touches, Housed, TypeOK
  <2>2. CASE x # w
    BY <1>2, <1>3, <1>4, <1>5, <2>2 DEF Touches, Housed, TypeOK, WorkersHoused
  <2> QED
    BY <2>1, <2>2
<1> QED
  BY <1>1, <1>5 DEF Housed, WorkersHoused

\* The records a worker's step leaves behind.
LEMMA WorkerTouches ==
  ASSUME Housed, NEW w \in Workers, WorkerStep(w) \/ InputArrives(w)
  PROVE  /\ worker[w].pc # "idle"
         /\ worker[w].provider \in Providers
         /\ \E s \in WorkerState, r \in ProviderState :
              /\ Touches(w, worker[w].provider, s, r)
              /\ prov[worker[w].provider].request <= r.request
              /\ s.pc # "idle" =>
                   s.provider = worker[w].provider /\ s.request <= r.request
<1> DEFINE p == worker[w].provider
           Goal == \E s \in WorkerState, r \in ProviderState :
                     /\ Touches(w, p, s, r)
                     /\ prov[p].request <= r.request
                     /\ s.pc # "idle" => s.provider = p /\ s.request <= r.request
<1>1. worker[w].pc # "idle"
  BY DEF WorkerStep, InputArrives, StopsWaiting, BeginStarted, BeginBlocked, NextAttempt,
         RetryStarts, CallBroker, BrokerAnswers, BrokerFails, ApplyOutcome, RoundEnds
<1>0. UNCHANGED << guard, durable, storeVars, history >>
  BY DEF WorkerStep, InputArrives, StopsWaiting, BeginStarted, BeginBlocked, NextAttempt,
         RetryStarts, CallBroker, BrokerAnswers, BrokerFails, ApplyOutcome, RoundEnds,
         storeVars, history
<1>2. p \in Providers /\ worker[w].request <= prov[p].request
  BY <1>1 DEF Housed, WorkersHoused
<1>3. worker[w] \in WorkerState /\ prov[p] \in ProviderState
  BY <1>2 DEF Housed, TypeOK
<1>4. worker = [worker EXCEPT ![w] = worker[w]] /\ prov = [prov EXCEPT ![p] = prov[p]]
  BY <1>2 DEF Housed, TypeOK
<1>5. worker[w].request \in Nat /\ prov[p].request \in Nat
  BY <1>3 DEF WorkerState, ProviderState, Requests
\* A step that only changes the worker.
<1>6. ASSUME NEW s \in WorkerState, worker' = [worker EXCEPT ![w] = s],
             s.pc # "idle" => s.provider = p /\ s.request = worker[w].request,
             prov' = prov
      PROVE  Goal
  <2>1. Touches(w, p, s, prov[p])
    BY <1>0, <1>4, <1>6 DEF Touches
  <2>2. s.pc # "idle" => s.provider = p /\ s.request <= prov[p].request
    BY <1>2, <1>6
  <2> QED
    BY <1>3, <1>5, <2>1, <2>2
<1> SUFFICES Goal
  BY <1>1, <1>2
<1> HIDE DEF p, Goal
<1>7. ASSUME NEW label \in {"idle", "waiting", "begin", "loop", "retry", "request",
                            "calling", "received", "after"},
             Goto(w, label), prov' = prov
      PROVE  Goal
  <2> DEFINE s == [worker[w] EXCEPT !.pc = label]
  <2>1. s \in WorkerState /\ worker' = [worker EXCEPT ![w] = s]
    BY <1>3, <1>7 DEF Goto, WorkerState
  <2>2. s.provider = p /\ s.request = worker[w].request
    BY <1>3 DEF WorkerState, p
  <2> QED
    BY <1>6, <1>7, <2>1, <2>2
<1>8. ASSUME Park(w), prov' = prov
      PROVE  Goal
  <2>1. IdleWorker \in WorkerState /\ IdleWorker.pc = "idle"
    BY NewRecords DEF IdleWorker
  <2> QED
    BY <1>6, <1>8, <2>1 DEF Park
<1>9. CASE InputArrives(w)
  BY <1>7, <1>9 DEF InputArrives
<1>10. CASE StopsWaiting(w)
  BY <1>8, <1>10 DEF StopsWaiting
<1>11. CASE BeginStarted(w)
  <2> DEFINE s == [worker[w] EXCEPT !.pc = "loop", !.request = prov[p].request + 1,
                                    !.attempt = 1, !.outcome = "none", !.fetched = None]
             r == [prov[p] EXCEPT !.phase = "WakeRequested", !.request = @ + 1,
                                  !.generation = guard.generation]
  <2>1. Touches(w, p, s, r)
    BY <1>0, <1>11 DEF BeginStarted, Touches, p
  <2>2. prov[p].request + 1 \in Requests
    <3>1. prov[p].request < MaxRequest /\ prov[p].request \in Requests
      BY <1>3, <1>11 DEF BeginStarted, ProviderState, p
    <3> QED
      BY <3>1, ProviderAssumption DEF Requests
  <2>3. guard.generation \in Generations
    BY DEF Housed, TypeOK, GuardState
  <2>4. r \in ProviderState /\ r.request = prov[p].request + 1
    BY <1>3, <2>2, <2>3 DEF ProviderState, UnlockPhases
  <2>5. s \in WorkerState /\ s.request = prov[p].request + 1 /\ s.provider = p
    BY <1>3, <2>2 DEF WorkerState, Outcomes, p
  <2> HIDE DEF s, r
  <2> QED
    BY <1>5, <2>1, <2>4, <2>5 DEF Goal
<1>12. CASE BeginBlocked(w)
  <2>1. CASE UNCHANGED prov
    BY <1>8, <1>12, <2>1 DEF BeginBlocked
  <2>2. CASE prov' # prov
    <3>1. PICK phase \in {"AutomaticLogonSuppressed", "WakeRequested"} :
            prov' = [prov EXCEPT ![p].phase = phase]
      BY <1>12, <2>2 DEF BeginBlocked, p
    <3> DEFINE r == [prov[p] EXCEPT !.phase = phase]
    <3>2. r \in ProviderState /\ r.request = prov[p].request
      BY <1>3 DEF ProviderState, UnlockPhases
    <3>3. Touches(w, p, IdleWorker, r)
      BY <1>0, <1>12, <3>1 DEF BeginBlocked, Park, Touches
    <3>4. IdleWorker \in WorkerState /\ IdleWorker.pc = "idle"
      BY NewRecords DEF IdleWorker
    <3> HIDE DEF r
    <3> QED
      BY <1>5, <3>2, <3>3, <3>4 DEF Goal
  <2> QED
    BY <2>1, <2>2
<1>13. CASE NextAttempt(w)
  <2> DEFINE s == [worker[w] EXCEPT !.pc = IF worker[w].attempt = 1 THEN "request" ELSE "retry",
                                    !.tries = 1]
  <2>1. s \in WorkerState /\ s.provider = p /\ s.request = worker[w].request
    BY <1>3 DEF WorkerState, p
  <2>2. CASE worker' = [worker EXCEPT ![w] = s]
    BY <1>6, <1>13, <2>1, <2>2 DEF NextAttempt
  <2>3. CASE Goto(w, "after")
    BY <1>7, <1>13, <2>3 DEF NextAttempt
  <2> QED
    BY <1>13, <2>2, <2>3 DEF NextAttempt
<1>14. CASE RetryStarts(w)
  <2>1. CASE prov' = prov
    BY <1>7, <1>14, <2>1 DEF RetryStarts
  <2>2. CASE prov' # prov
    <3> DEFINE r == [prov[p] EXCEPT !.phase = "WakeRequested"]
               s == [worker[w] EXCEPT !.pc = "request"]
    <3>1. Touches(w, p, s, r)
      BY <1>0, <1>14, <2>2 DEF RetryStarts, Goto, Touches, p
    <3>2. r \in ProviderState /\ r.request = prov[p].request
      BY <1>3 DEF ProviderState, UnlockPhases
    <3>3. s \in WorkerState /\ s.provider = p /\ s.request = worker[w].request
      BY <1>3 DEF WorkerState, p
    <3> HIDE DEF r, s
    <3> QED
      BY <1>2, <1>5, <3>1, <3>2, <3>3 DEF Goal
  <2> QED
    BY <2>1, <2>2
<1>15. CASE CallBroker(w)
  <2> DEFINE s == [worker[w] EXCEPT !.pc = "received", !.outcome = "transport"]
  <2>1. s \in WorkerState /\ s.provider = p /\ s.request = worker[w].request
    BY <1>3 DEF WorkerState, Outcomes, p
  <2>2. CASE worker' = [worker EXCEPT ![w] = s]
    BY <1>6, <1>15, <2>1, <2>2 DEF CallBroker
  <2>3. CASE Goto(w, "calling")
    BY <1>7, <1>15, <2>3 DEF CallBroker
  <2> QED
    BY <1>15, <2>2, <2>3 DEF CallBroker
<1>16. CASE BrokerAnswers(w)
  <2>1. PICK outcome \in {"material", "authFailed", "rejected"} :
          worker' = [worker EXCEPT ![w].pc = "received",
                                   ![w].outcome = outcome,
                                   ![w].fetched = IF outcome = "material" THEN stored ELSE None]
    BY <1>16 DEF BrokerAnswers
  <2> DEFINE fetched == IF outcome = "material" THEN stored ELSE None
             s == [worker[w] EXCEPT !.pc = "received", !.outcome = outcome, !.fetched = fetched]
  <2>2. fetched \in Versions \cup {None} /\ outcome \in Outcomes
    BY DEF Housed, TypeOK, Outcomes
  <2>3. worker' = [worker EXCEPT ![w] = s]
    BY <2>1
  <2> HIDE DEF fetched
  <2>4. s \in WorkerState /\ s.provider = p /\ s.request = worker[w].request
    BY <1>3, <2>2 DEF WorkerState, p
  <2> QED
    BY <1>6, <1>16, <2>3, <2>4 DEF BrokerAnswers
<1>17. CASE BrokerFails(w)
  <2> DEFINE s == [worker[w] EXCEPT !.pc = "request", !.tries = @ + 1]
             t == [worker[w] EXCEPT !.pc = "received", !.outcome = "transport"]
  <2>1. s \in WorkerState /\ s.provider = p /\ s.request = worker[w].request
    <3>1. worker[w].tries + 1 \in Nat
      BY <1>3 DEF WorkerState
    <3> QED
      BY <1>3, <3>1 DEF WorkerState, p
  <2>2. t \in WorkerState /\ t.provider = p /\ t.request = worker[w].request
    BY <1>3 DEF WorkerState, Outcomes, p
  <2>3. \/ worker' = [worker EXCEPT ![w] = s]
        \/ worker' = [worker EXCEPT ![w] = t]
    BY <1>17 DEF BrokerFails
  <2> HIDE DEF s, t
  <2> QED
    BY <1>6, <1>17, <2>1, <2>2, <2>3 DEF BrokerFails
<1>18. CASE ApplyOutcome(w)
  <2> DEFINE s == [worker[w] EXCEPT !.pc = "loop", !.attempt = AttemptAfter(w), !.fetched = None]
             t == [worker[w] EXCEPT !.pc = "after", !.fetched = None]
             r == [prov[p] EXCEPT !.phase = "CredentialMaterialReady",
                                  !.material = worker[w].fetched, !.cooling = FALSE]
             q == [prov[p] EXCEPT !.phase = "WakeFailed", !.cooling = TRUE]
  <2>1. AttemptAfter(w) \in Nat
    BY <1>3 DEF AttemptAfter, WorkerState
  <2>2. s \in WorkerState /\ s.provider = p /\ s.request = worker[w].request
    BY <1>3, <2>1 DEF WorkerState, p
  <2>3. t \in WorkerState /\ t.provider = p /\ t.request = worker[w].request
    BY <1>3 DEF WorkerState, p
  <2>4. r \in ProviderState /\ r.request = prov[p].request
    BY <1>3 DEF ProviderState, WorkerState, UnlockPhases
  <2>5. q \in ProviderState /\ q.request = prov[p].request
    BY <1>3 DEF ProviderState, UnlockPhases
  <2>6. \/ worker' = [worker EXCEPT ![w] = s]
        \/ worker' = [worker EXCEPT ![w] = t]
    BY <1>18 DEF ApplyOutcome
  <2>7. \/ prov' = prov
        \/ prov' = [prov EXCEPT ![p] = r]
        \/ prov' = [prov EXCEPT ![p] = q]
    BY <1>18 DEF ApplyOutcome, p
  <2> HIDE DEF s, t, r, q
  <2>9. PICK x \in WorkerState, y \in ProviderState :
          /\ Touches(w, p, x, y)
          /\ x.provider = p /\ x.request = worker[w].request
          /\ y.request = prov[p].request
    BY <1>3, <1>4, <2>2, <2>3, <2>4, <2>5, <2>6, <2>7, <1>0 DEF Touches
  <2> QED
    BY <1>2, <1>5, <2>9 DEF Goal
<1>19. CASE RoundEnds(w)
  BY <1>7, <1>8, <1>19 DEF RoundEnds
<1> QED
  BY <1>9, <1>10, <1>11, <1>12, <1>13, <1>14, <1>15, <1>16, <1>17, <1>18, <1>19
     DEF WorkerStep

\* Enrolment, the lazy writer and a power loss.
LEMMA SystemHoused ==
  ASSUME Housed, SaveEnrollment \/ LiftLatch \/ EnrollerDies \/ Flush \/ Reboot
  PROVE  Housed'
<1>1. CASE SaveEnrollment
  BY <1>1 DEF SaveEnrollment, Housed, TypeOK, WorkersHoused, provVars, history, Versions
<1>2. CASE LiftLatch
  <2>1. guard' \in GuardState /\ durable' \in GuardState
    BY <1>2, GuardOps, WritesTyped DEF LiftLatch, guardVars, Housed, TypeOK
  <2>2. guard'.generation \in Generations
    BY <2>1 DEF GuardState
  <2> QED
    BY <1>2, <2>1, <2>2 DEF LiftLatch, provVars, Housed, TypeOK, WorkersHoused
<1>3. CASE EnrollerDies
  BY <1>3 DEF EnrollerDies, Housed, TypeOK, WorkersHoused, provVars, history
<1>4. CASE Flush
  BY <1>4 DEF Flush, LazyFlush, Housed, TypeOK, WorkersHoused, provVars, storeVars, history
<1>5. CASE Reboot
  <2>1. fate' \in [Generations -> Fates]
    BY <1>5 DEF Reboot, FateWithout, Housed, TypeOK, Fates
  <2>2. \A w \in Workers : worker'[w].pc = "idle"
    BY <1>5 DEF Reboot, WorkersWithout, Housed, WorkersHoused, IdleWorker
  <2>3. worker' \in [Workers -> WorkerState]
    BY <1>5, NewRecords DEF Reboot, WorkersWithout, Housed, TypeOK
  <2>4. WorkersHoused'
    BY <2>2 DEF WorkersHoused
  <2> QED
    BY <1>5, <2>1, <2>3, <2>4, NewRecords DEF Reboot, Housed, TypeOK
<1> QED
  BY <1>1, <1>2, <1>3, <1>4, <1>5

LEMMA NextHoused ==
  ASSUME Housed, [Next]_vars
  PROVE  Housed'
<1>1. ASSUME NEW p \in Providers, LogonUIStep(p) PROVE Housed'
  BY <1>1, LogonUIHoused
<1>2. ASSUME NEW w \in Workers, WorkerStep(w) \/ InputArrives(w) PROVE Housed'
  BY <1>2, WorkerTouches, TouchHoused
<1>3. CASE UNCHANGED vars
  BY <1>3 DEF vars, Housed, TypeOK, WorkersHoused
<1> QED
  BY <1>1, <1>2, <1>3, SystemHoused DEF Next

(* Every variable keeps its type: in particular no step of any interleaving
   produces a guard generation beyond the last, or a phase that is not one. *)
THEOREM TypeCorrect == Spec => []TypeOK
<1>1. Init => Housed
  BY InitHoused
<1>2. Housed /\ [Next]_vars => Housed'
  BY NextHoused
<1>3. Housed => TypeOK
  BY DEF Housed
<1> QED
  BY <1>1, <1>2, <1>3, PTL DEF Spec

-----------------------------------------------------------------------------
(***************************************************************************)
(* The latch: an unresolved submission blocks every later one until the    *)
(* credential is updated.                                                  *)
(*                                                                         *)
(* The inductive invariant says that each unresolved token t either is the *)
(* one the guard record still refuses over, or lies below an update that   *)
(* the record has taken in -- in the readable record and in the durable    *)
(* one, because a power loss turns the second into the first.  A new token *)
(* is one more than a Ready guard's generation, so of the two cases only   *)
(* the second remains: an update separates it from every unresolved one.   *)
(*                                                                         *)
(* The credential material: whose it is, and how old it may be.            *)
(*                                                                         *)
(* A request is begun at the guard's generation of the time.  A credential *)
(* update moves the guard on before anything read after it can be          *)
(* confused with what was read before: whoever still stands on the guard's *)
(* generation holds material at least as new as the last update.           *)
(***************************************************************************)

-----------------------------------------------------------------------------
(* The latch                                                               *)

LatchInv ==
  /\ GenerationsBounded
  /\ SubmissionsOutstanding
  /\ LatchHolds
  /\ NoRetryAfterFailure

-----------------------------------------------------------------------------

LEMMA InitLatch == Init => LatchInv
  BY DEF Init, GuardInit, LatchInv, GenerationsBounded, SubmissionsOutstanding, LatchHolds,
         NoRetryAfterFailure, Issued, NewProvider, None, Generations

\* What the types give to the arithmetic on generations.
LEMMA Numbers ==
  ASSUME Housed
  PROVE  /\ guard.generation \in Nat /\ durable.generation \in Nat
         /\ Issued \subseteq Nat /\ updates \subseteq Nat
         /\ Issued = {t \in Generations : fate[t] # "none"}
         /\ \A p \in Providers : /\ prov[p].generation \in Nat \cup {None}
                                 /\ prov[p].submission # None => prov[p].submission \in Generations
  BY DEF Housed, TypeOK, GuardState, Generations, ProviderState, Issued

\* A step that only moves providers from one generation to another.
LEMMA QuietLatch ==
  ASSUME Housed, LatchInv, UNCHANGED << guard, durable, fate, updates >>,
         \A p \in Providers : /\ prov'[p].submission = prov[p].submission
                              /\ prov'[p].generation <= guard.generation
  PROVE  LatchInv'
  BY DEF LatchInv, GenerationsBounded, SubmissionsOutstanding, LatchHolds,
         NoRetryAfterFailure, Issued, Blocks

\* Letting the outstanding tokens of some providers go unanswered.
LEMMA LosesFates ==
  ASSUME Housed, NEW procs \in SUBSET Providers, fate' = FateWithout(procs)
  PROVE  /\ Issued' = Issued
         /\ \A t \in Issued : fate'[t] \in Unresolved <=> fate[t] \in Unresolved
         /\ \A t \in Issued : fate'[t] # fate[t] => \E p \in procs : prov[p].submission = t
  BY DEF FateWithout, Issued, Unresolved

-----------------------------------------------------------------------------
(* The steps of a submission                                               *)

LEMMA TakeAcceptedLatch ==
  ASSUME Housed, Housed', LatchInv, NEW p \in Providers, TakeAccepted(p)
  PROVE  LatchInv' /\ fate[prov'[p].submission] = "none"
<1>0. PICK t0 : t0 = guard.generation + 1
  OBVIOUS
<1>1. /\ guard.phase = "Ready" /\ t0 \in Generations
      /\ guard' = [generation |-> t0, phase |-> "Submitted"] /\ durable' = guard'
      /\ fate' = [fate EXCEPT ![t0] = "reserved"]
      /\ updates' = updates
  BY <1>0, Numbers DEF TakeAccepted, CanReserve, ReadyAt, CanAdvance, Commit, Reserved, Generations,
     Housed, TypeOK, GuardState
<1>2. prov' = [prov EXCEPT ![p].material = None, ![p].submission = t0,
                           ![p].phase = "AwaitingWindowsResult"]
  BY <1>0 DEF TakeAccepted, Reserved
<1>3. /\ prov'[p].submission = t0 /\ prov'[p].generation = prov[p].generation
      /\ \A q \in Providers \ {p} : prov'[q] = prov[q]
  BY <1>2 DEF Housed, TypeOK, ProviderState
<1>4. \A t \in Issued : t < t0 /\ t <= durable.generation
  BY <1>0, Numbers DEF LatchInv, GenerationsBounded
<1>5. Issued' = Issued \cup {t0} /\ t0 \notin Issued
  BY <1>1, <1>4, Numbers DEF Issued, Housed, TypeOK
<1>6. \A t \in Issued : fate'[t] = fate[t] /\ t \in Generations
  BY <1>1, <1>4, Numbers DEF Housed, TypeOK
\* A Ready guard blocks by an update alone.
<1>7. \A t \in Issued : fate[t] \in Unresolved =>
        \E u \in updates : t < u /\ u <= guard.generation
  BY <1>1 DEF LatchInv, LatchHolds, Blocks
<1>8. GenerationsBounded'
  BY <1>0, <1>1, <1>3, <1>4, <1>5, Numbers DEF LatchInv, GenerationsBounded, None
<1>9. SubmissionsOutstanding'
  <2>1. \A q \in Providers : prov[q].submission # None =>
          prov[q].submission \in Issued /\ prov[q].submission # t0
    BY <1>5, Numbers DEF LatchInv, SubmissionsOutstanding, Issued
  <2>2. fate'[t0] = "reserved"
    BY <1>1 DEF Housed, TypeOK
  <2> QED
    BY <1>3, <1>6, <2>1, <2>2 DEF LatchInv, SubmissionsOutstanding
<1>10. LatchHolds'
  <2>1. Blocks(guard, t0)' /\ Blocks(durable, t0)'
    BY <1>1 DEF Blocks
  <2>2. ASSUME NEW t \in Issued, fate[t] \in Unresolved
        PROVE  Blocks(guard, t)' /\ Blocks(durable, t)'
    BY <1>0, <1>1, <1>7, <2>2, Numbers DEF Blocks
  <2> QED
    BY <1>1, <1>5, <1>6, <2>1, <2>2 DEF LatchHolds
<1>11. NoRetryAfterFailure'
  <2>1. ASSUME NEW t1 \in Issued', NEW t2 \in Issued', t1 < t2, fate'[t1] \in Unresolved
        PROVE  \E u \in updates' : t1 < u /\ u < t2
    <3>1. t1 \in Issued
      BY <1>1, <1>4, <1>5, <2>1, Numbers DEF Generations
    <3>2. CASE t2 = t0
      BY <1>0, <1>1, <1>6, <1>7, <2>1, <3>1, <3>2, Numbers
    <3>3. CASE t2 \in Issued
      BY <1>1, <1>6, <2>1, <3>1, <3>3 DEF LatchInv, NoRetryAfterFailure
    <3> QED
      BY <1>5, <3>2, <3>3
  <2> QED
    BY <2>1 DEF NoRetryAfterFailure
<1>12. fate[prov'[p].submission] = "none"
  BY <1>1, <1>3, <1>5 DEF Issued
<1> QED
  BY <1>8, <1>9, <1>10, <1>11, <1>12 DEF LatchInv

\* A refused submission may still have left a reservation in the readable
\* record; the durable one and the history are as they were.
LEMMA TakeRefusedLatch ==
  ASSUME Housed, Housed', LatchInv, NEW p \in Providers, TakeRefused(p)
  PROVE  LatchInv'
<1>1. durable' = durable /\ fate' = fate /\ updates' = updates /\ Issued' = Issued
  BY DEF TakeRefused, CommitFails, guardVars, history, Issued
<1>2. \/ guard' = guard
      \/ /\ guard.phase = "Ready"
         /\ guard'.generation = guard.generation + 1
  BY DEF TakeRefused, CommitFails, guardVars, CanReserve, ReadyAt, Reserved
<1>3. guard.generation <= guard'.generation /\ guard'.generation \in Nat
  BY <1>2, Numbers
<1>4. \A q \in Providers : /\ prov'[q].submission = prov[q].submission
                            /\ prov'[q].generation = prov[q].generation
  BY DEF TakeRefused, Housed, TypeOK, ProviderState
<1>5. LatchHolds'
  <2>1. ASSUME NEW t \in Issued, fate[t] \in Unresolved
        PROVE  Blocks(guard, t)' /\ Blocks(durable, t)'
    BY <1>1, <1>2, <2>1, Numbers DEF LatchInv, LatchHolds, Blocks
  <2> QED
    BY <1>1, <2>1 DEF LatchHolds
<1>6. GenerationsBounded'
  <2>1. durable.generation <= guard'.generation /\ \A u \in updates : u <= guard'.generation
    BY <1>3, Numbers DEF LatchInv, GenerationsBounded
  <2>2. \A q \in Providers : prov[q].generation <= guard'.generation
    BY <1>3, Numbers DEF LatchInv, GenerationsBounded, None
  <2> QED
    BY <1>1, <1>4, <2>1, <2>2 DEF LatchInv, GenerationsBounded
<1>7. SubmissionsOutstanding' /\ NoRetryAfterFailure'
  BY <1>1, <1>4 DEF LatchInv, SubmissionsOutstanding, NoRetryAfterFailure
<1> QED
  BY <1>5, <1>6, <1>7 DEF LatchInv

\* What the answer to a token settles: the guard keeps its generation, the
\* token's fate alone changes, and a refusal keeps the guard closed over it.
LEMMA AnswerLatch ==
  ASSUME Housed, Housed', LatchInv, NEW p \in Providers, NEW token, NEW answer,
         token = prov[p].submission, token # None,
         answer \in {"accepted", "cancelled", "rejected"},
         NEW succeeded \in BOOLEAN, succeeded <=> answer # "rejected",
         fate' = [fate EXCEPT ![token] = answer],
         UNCHANGED updates,
         \/ guard' = guard
         \/ /\ guard.phase = "Submitted" /\ guard.generation = token
            /\ guard' = Completed(guard, succeeded),
         durable' = durable \/ durable' = guard',
         prov'[p].submission = None,
         prov'[p].generation \in {None, prov[p].generation},
         \A q \in Providers \ {p} : prov'[q] = prov[q]
  PROVE  LatchInv'
<1>1. token \in Issued /\ fate[token] \in Unresolved
  BY Numbers DEF LatchInv, SubmissionsOutstanding, Issued, Unresolved
<1>2. Issued' = Issued /\ \A t \in Issued \ {token} : fate'[t] = fate[t]
  BY <1>1 DEF Issued, Housed, TypeOK
<1>3. fate'[token] = answer
  BY <1>1, Numbers DEF Housed, TypeOK
<1>4. /\ guard'.generation = guard.generation
      /\ guard' = guard \/ guard.generation = token
      /\ answer = "rejected" /\ guard' # guard => guard'.phase = "Rejected"
  <2>1. guard \in GuardState /\ succeeded \in BOOLEAN
    BY DEF Housed, TypeOK
  <2>2. Completed(guard, succeeded).generation = guard.generation
        /\ (~succeeded => Completed(guard, succeeded).phase = "Rejected")
    BY <2>1, GuardOps
  <2> QED
    BY <2>2
<1>5. GenerationsBounded'
  BY <1>2, <1>4, Numbers DEF LatchInv, GenerationsBounded, None
<1>6. SubmissionsOutstanding'
  BY <1>1, <1>2, Numbers DEF LatchInv, SubmissionsOutstanding, Issued
<1>7. LatchHolds'
  <2>1. ASSUME NEW t \in Issued, fate'[t] \in Unresolved
        PROVE  Blocks(guard, t)' /\ Blocks(durable, t)'
    <3>1. Blocks(guard, t) /\ Blocks(durable, t)
      BY <1>1, <1>2, <2>1 DEF LatchInv, LatchHolds
    <3>2. Blocks(guard, t)'
      <4>1. CASE t = token
        BY <1>3, <1>4, <2>1, <3>1, <4>1 DEF Blocks, Unresolved
      <4>2. CASE t # token
        BY <1>4, <3>1, <4>2 DEF Blocks
      <4> QED
        BY <4>1, <4>2
    <3> QED
      BY <3>1, <3>2 DEF Blocks
  <2> QED
    BY <1>2, <2>1 DEF LatchHolds
<1>8. NoRetryAfterFailure'
  BY <1>1, <1>2, <1>3 DEF LatchInv, NoRetryAfterFailure
<1> QED
  BY <1>5, <1>6, <1>7, <1>8 DEF LatchInv

LEMMA PackFailsLatch ==
  ASSUME Housed, Housed', LatchInv, NEW p \in Providers, PackFails(p)
  PROVE  LatchInv'
<1>0. PICK token : token = prov[p].submission
  OBVIOUS
<1>1. token # None /\ fate' = [fate EXCEPT ![token] = "cancelled"] /\ updates' = updates
  BY <1>0 DEF PackFails
<1>2. /\ \/ guard' = guard
         \/ /\ guard.phase = "Submitted" /\ guard.generation = token
            /\ guard' = Completed(guard, TRUE)
      /\ durable' = durable \/ durable' = guard'
  BY <1>0 DEF PackFails, CanComplete, Commit, CommitFails, guardVars
<1>3. /\ prov'[p].submission = None /\ prov'[p].generation = prov[p].generation
      /\ \A q \in Providers \ {p} : prov'[q] = prov[q]
  BY DEF PackFails, Housed, TypeOK, ProviderState
<1> QED
  BY <1>0, <1>1, <1>2, <1>3, AnswerLatch

LEMMA ReportResultLatch ==
  ASSUME Housed, Housed', LatchInv, NEW p \in Providers, NEW succeeded \in BOOLEAN,
         ReportResult(p, succeeded)
  PROVE  LatchInv'
<1>0. PICK token : token = prov[p].submission
  OBVIOUS
<1>1. PICK answer \in {"accepted", "rejected"} :
        /\ answer = IF succeeded THEN "accepted" ELSE "rejected"
        /\ fate' = [fate EXCEPT ![token] = answer]
  BY <1>0 DEF ReportResult
<1>2. token # None /\ updates' = updates
  BY <1>0 DEF ReportResult
<1>3. /\ \/ guard' = guard
         \/ /\ guard.phase = "Submitted" /\ guard.generation = token
            /\ guard' = Completed(guard, succeeded)
      /\ durable' = durable \/ durable' = guard'
  BY <1>0 DEF ReportResult, CanComplete, Commit, CommitFails, guardVars
<1>4. /\ prov'[p].submission = None /\ prov'[p].generation = None
      /\ \A q \in Providers \ {p} : prov'[q] = prov[q]
  BY DEF ReportResult, Housed, TypeOK, ProviderState
<1>5. succeeded <=> answer # "rejected"
  BY <1>1
<1> QED
  BY <1>0, <1>1, <1>2, <1>3, <1>4, <1>5, AnswerLatch

LEMMA HandOverLatch ==
  ASSUME Housed, LatchInv, NEW p \in Providers, HandOver(p)
  PROVE  LatchInv'
<1>1. PICK token : token = prov[p].submission /\ token # None
  BY DEF HandOver
<1>2. /\ fate[token] = "reserved" /\ fate' = [fate EXCEPT ![token] = "pending"]
      /\ UNCHANGED << guard, durable, prov, updates >>
  BY <1>1 DEF HandOver, provVars
<1>3. fate'[token] = "pending" /\ \A t \in Generations \ {token} : fate'[t] = fate[t]
  BY <1>1, <1>2, Numbers DEF Housed, TypeOK
<1>4. Issued' = Issued /\ \A t \in Issued : fate'[t] \in Unresolved <=> fate[t] \in Unresolved
  BY <1>2, <1>3 DEF Issued, Unresolved
<1>5. SubmissionsOutstanding'
  BY <1>2, <1>3, Numbers DEF LatchInv, SubmissionsOutstanding
<1> QED
  BY <1>2, <1>4, <1>5
     DEF LatchInv, GenerationsBounded, LatchHolds, NoRetryAfterFailure, Blocks

-----------------------------------------------------------------------------
(* The steps of the system                                                 *)

\* The update's generation lies above every token ever issued.
LEMMA LiftLatchLatch ==
  ASSUME Housed, Housed', LatchInv, LiftLatch
  PROVE  LatchInv'
<1>1. UNCHANGED << fate, prov >> /\ Issued' = Issued
  BY DEF LiftLatch, provVars, Issued
<1>2. CASE guard' = guard
  <2>1. durable' = durable \/ durable' = guard
    BY <1>2 DEF LiftLatch, Commit, CommitFails, guardVars
  <2>2. updates' = updates
    BY <1>2 DEF LiftLatch
  <2> QED
    BY <1>1, <1>2, <2>1, <2>2, Numbers
       DEF LatchInv, GenerationsBounded, SubmissionsOutstanding, LatchHolds,
           NoRetryAfterFailure, Blocks
<1>3. CASE guard' # guard
  <2>1. /\ guard'.generation = guard.generation + 1
        /\ durable' = durable \/ durable' = guard'
        /\ updates' = updates \cup {guard.generation + 1}
    BY <1>3 DEF LiftLatch, Commit, CommitFails, guardVars, Updated
  <2>2. GenerationsBounded'
    BY <1>1, <2>1, Numbers DEF LatchInv, GenerationsBounded, None
  <2>3. LatchHolds'
    BY <1>1, <2>1, Numbers DEF LatchInv, LatchHolds, Blocks, GenerationsBounded
  <2>4. SubmissionsOutstanding' /\ NoRetryAfterFailure'
    BY <1>1, <2>1 DEF LatchInv, SubmissionsOutstanding, NoRetryAfterFailure
  <2> QED
    BY <2>2, <2>3, <2>4 DEF LatchInv
<1> QED
  BY <1>2, <1>3

LEMMA FlushLatch ==
  ASSUME Housed, LatchInv, Flush
  PROVE  LatchInv'
  BY Numbers
  DEF Flush, LazyFlush, provVars, history, LatchInv, GenerationsBounded, SubmissionsOutstanding,
      LatchHolds, NoRetryAfterFailure, Issued, Blocks

LEMMA ProcessExitLatch ==
  ASSUME Housed, LatchInv, NEW p \in Providers, ProcessExit(p)
  PROVE  LatchInv'
<1>1. UNCHANGED << guard, durable, updates >> /\ fate' = FateWithout({p})
  BY DEF ProcessExit
<1>2. /\ prov'[p].submission = None /\ prov'[p].generation = None
      /\ \A q \in Providers \ {p} : prov'[q] = prov[q]
  BY DEF ProcessExit, NewProvider, Housed, TypeOK
<1>3. /\ Issued' = Issued
      /\ \A t \in Issued : fate'[t] \in Unresolved <=> fate[t] \in Unresolved
      /\ \A t \in Issued : fate'[t] # fate[t] => prov[p].submission = t
  BY <1>1, LosesFates
<1>4. SubmissionsOutstanding'
  BY <1>2, <1>3, Numbers DEF LatchInv, SubmissionsOutstanding, Issued
<1>5. GenerationsBounded'
  BY <1>1, <1>2, <1>3, Numbers DEF LatchInv, GenerationsBounded, None
<1> QED
  BY <1>1, <1>3, <1>4, <1>5 DEF LatchInv, LatchHolds, NoRetryAfterFailure, Blocks

\* A power loss forgets the updates the durable record has not seen; no
\* token was issued above it.
LEMMA RebootLatch ==
  ASSUME Housed, LatchInv, Reboot
  PROVE  LatchInv'
<1>1. /\ guard' = durable /\ durable' = durable /\ fate' = FateWithout(Providers)
      /\ updates' = {u \in updates : u <= durable.generation}
      /\ \A p \in Providers : prov'[p].submission = None /\ prov'[p].generation = None
  BY DEF Reboot, NewProvider
<1>2. /\ Issued' = Issued
      /\ \A t \in Issued : fate'[t] \in Unresolved <=> fate[t] \in Unresolved
  BY <1>1, LosesFates
<1>3. LatchHolds'
  BY <1>1, <1>2 DEF LatchInv, LatchHolds, Blocks
<1>4. NoRetryAfterFailure'
  BY <1>1, <1>2, Numbers DEF LatchInv, NoRetryAfterFailure, GenerationsBounded
<1>5. SubmissionsOutstanding'
  BY <1>1 DEF SubmissionsOutstanding
<1>6. GenerationsBounded'
  BY <1>1, <1>2, Numbers DEF LatchInv, GenerationsBounded, None
<1> QED
  BY <1>3, <1>4, <1>5, <1>6 DEF LatchInv

\* Every other step leaves guard, tokens and updates alone.
LEMMA LogonUILatch ==
  ASSUME Housed, Housed', LatchInv, NEW p \in Providers, LogonUIStep(p)
  PROVE  LatchInv'
<1>1. \A q \in Providers : prov[q].generation <= guard.generation /\ None <= guard.generation
  BY Numbers DEF LatchInv, GenerationsBounded, None
<1>2. CASE Advise(p)
  BY <1>1, <1>2, QuietLatch DEF Advise, history, Housed, TypeOK, ProviderState
<1>3. CASE UnAdvise(p)
  BY <1>1, <1>3, QuietLatch DEF UnAdvise, history, Housed, TypeOK, ProviderState
<1>4. CASE SetSelected(p)
  BY <1>1, <1>4, QuietLatch DEF SetSelected, history
<1>5. CASE CooldownElapses(p)
  BY <1>1, <1>5, QuietLatch DEF CooldownElapses, history, Housed, TypeOK, ProviderState
<1> QED
  BY <1>2, <1>3, <1>4, <1>5, TakeAcceptedLatch, TakeRefusedLatch, HandOverLatch,
     PackFailsLatch, ReportResultLatch, ProcessExitLatch DEF LogonUIStep

\* A worker never touches a token; it may move its provider to the guard's
\* generation.
LEMMA WorkerKeepsTokens ==
  ASSUME Housed, NEW w \in Workers, WorkerStep(w) \/ InputArrives(w)
  PROVE  \A q \in Providers :
           /\ prov'[q].submission = prov[q].submission
           /\ prov'[q].generation \in {prov[q].generation, guard.generation}
<1> DEFINE p == worker[w].provider
<1>2. p \in Providers /\ UNCHANGED << guard, durable, fate, updates >>
  BY WorkerTouches DEF Touches, history
<1>3. CASE BeginStarted(w)
  <2>1. /\ prov'[p].submission = prov[p].submission
        /\ prov'[p].generation = guard.generation
        /\ \A q \in Providers \ {p} : prov'[q] = prov[q]
    <3>1. prov \in [Providers -> ProviderState]
      BY DEF Housed, TypeOK
    <3>2. prov' = [prov EXCEPT ![p] = [prov[p] EXCEPT !.phase = "WakeRequested", !.request = @ + 1,
                                                      !.generation = guard.generation]]
      BY <1>3 DEF BeginStarted
    <3> QED
      BY <1>2, <3>1, <3>2 DEF ProviderState
  <2> QED
    BY <2>1
<1>4. CASE prov' = prov
  BY <1>4
<1>5. CASE ~BeginStarted(w) /\ prov' # prov
  <2>1. PICK r : /\ prov' = [prov EXCEPT ![p] = r]
                 /\ r.submission = prov[p].submission /\ r.generation = prov[p].generation
    <3>1. BeginBlocked(w) \/ RetryStarts(w) \/ ApplyOutcome(w)
      BY <1>5 DEF WorkerStep, InputArrives, StopsWaiting, NextAttempt, CallBroker,
                  BrokerAnswers, BrokerFails, RoundEnds
    <3>2. CASE BeginBlocked(w)
      BY <1>2, <1>5, <3>2 DEF BeginBlocked, Housed, TypeOK, ProviderState
    <3>3. CASE RetryStarts(w)
      BY <1>2, <1>5, <3>3 DEF RetryStarts, Housed, TypeOK, ProviderState
    <3>4. CASE ApplyOutcome(w)
      <4> DEFINE ready == [prov[p] EXCEPT !.phase = "CredentialMaterialReady",
                                          !.material = worker[w].fetched, !.cooling = FALSE]
                 failed == [prov[p] EXCEPT !.phase = "WakeFailed", !.cooling = TRUE]
      <4>1. \/ prov' = [prov EXCEPT ![p] = ready]
            \/ prov' = [prov EXCEPT ![p] = failed]
        BY <1>5, <3>4 DEF ApplyOutcome
      <4>2. /\ ready.submission = prov[p].submission /\ ready.generation = prov[p].generation
            /\ failed.submission = prov[p].submission /\ failed.generation = prov[p].generation
        BY <1>2 DEF Housed, TypeOK, ProviderState
      <4> HIDE DEF ready, failed
      <4> QED
        BY <4>1, <4>2
    <3> QED
      BY <3>1, <3>2, <3>3, <3>4
  <2> QED
    BY <1>2, <2>1 DEF Housed, TypeOK
<1> QED
  BY <1>3, <1>4, <1>5

LEMMA WorkerLatch ==
  ASSUME Housed, LatchInv, NEW w \in Workers, WorkerStep(w) \/ InputArrives(w)
  PROVE  LatchInv'
<1>1. UNCHANGED << guard, durable, fate, updates >>
  BY WorkerTouches DEF Touches, history
<1>2. \A q \in Providers : prov'[q].generation <= guard.generation
  BY WorkerKeepsTokens, Numbers DEF LatchInv, GenerationsBounded
<1> QED
  BY <1>1, <1>2, WorkerKeepsTokens, QuietLatch

LEMMA NextLatch ==
  ASSUME Housed, LatchInv, [Next]_vars
  PROVE  LatchInv'
<1>0. Housed'
  BY NextHoused
<1>1. \A p \in Providers : prov[p].generation <= guard.generation
  BY DEF LatchInv, GenerationsBounded
<1>2. CASE SaveEnrollment \/ EnrollerDies \/ UNCHANGED vars
  BY <1>1, <1>2, QuietLatch DEF SaveEnrollment, EnrollerDies, vars, provVars, history
<1> QED
  BY <1>0, <1>2, LogonUILatch, WorkerLatch, LiftLatchLatch, FlushLatch, RebootLatch DEF Next

THEOREM LatchInvariant == Spec => [](Housed /\ LatchInv)
<1>1. Init => Housed /\ LatchInv
  BY InitHoused, InitLatch
<1>2. Housed /\ LatchInv /\ [Next]_vars => (Housed /\ LatchInv)'
  BY NextHoused, NextLatch
<1> QED
  BY <1>1, <1>2, PTL DEF Spec

(* An unresolved submission keeps the latch closed, also across a power
   loss, until the credential is updated. *)
THEOREM LatchAlwaysHolds == Spec => []LatchHolds
<1>1. Housed /\ LatchInv => LatchHolds
  BY DEF LatchInv
<1> QED
  BY <1>1, LatchInvariant, PTL

(* For any number of provider instances, restarts and storage faults, Windows
   is never offered a second password after one that was refused or whose
   verdict is unknown, without a credential update in between. *)
THEOREM NeverRetriesAfterFailure == Spec => []NoRetryAfterFailure
<1>1. Housed /\ LatchInv => NoRetryAfterFailure
  BY DEF LatchInv
<1> QED
  BY <1>1, LatchInvariant, PTL

-----------------------------------------------------------------------------
(* The credential material                                                 *)

FreshInv == MaterialFresh /\ CallersAdvised /\ MaterialOnlyWhileAdvised

Inv == Housed /\ LatchInv /\ FreshInv

-----------------------------------------------------------------------------

LEMMA InitFresh == Init => FreshInv
  BY DEF Init, FreshInv, MaterialFresh, CallersAdvised, MaterialOnlyWhileAdvised, NewProvider,
         IdleWorker, None

\* A worker record that holds no material and calls nobody.
Harmless(x) == x.pc \notin {"request", "calling", "received"}

\* The same worker, as far as its call to the broker goes.
SameCall(x, y) ==
  /\ x.pc = y.pc /\ x.provider = y.provider /\ x.request = y.request
  /\ x.outcome = y.outcome /\ x.fetched = y.fetched

\* Provider records from which no fresh right follows: material and standing
\* can only be lost.
Weaker(r, s) ==
  /\ r.material # None =>
       r.material = s.material /\ r.generation = s.generation /\ (s.advised => r.advised)
  /\ r.phase = "CredentialMaterialReady" => s.phase = r.phase /\ r.material = s.material
  /\ \/ r.generation = None
     \/ r.generation = s.generation /\ r.request = s.request /\ (s.advised => r.advised)

LEMMA WeakerFresh ==
  ASSUME Inv, guard.generation <= guard'.generation, guard'.generation \in Nat,
         UNCHANGED << stored, floor >>,
         \A q \in Providers : Weaker(prov'[q], prov[q]),
         \A w \in Workers : worker'[w].provider \in Providers \/ worker'[w].pc = "idle",
         \A w \in Workers : Harmless(worker'[w]) \/ SameCall(worker'[w], worker[w])
  PROVE  FreshInv'
<1>1. \A q \in Providers : /\ prov[q].generation <= guard.generation
                           /\ prov[q].generation \in Nat \cup {None}
                           /\ guard.generation \in Nat
  BY Numbers DEF Inv, LatchInv, GenerationsBounded
<1>2. \A q \in Providers : prov'[q].generation = guard'.generation =>
        prov[q].generation = guard.generation /\ prov'[q].generation = prov[q].generation
  BY <1>1 DEF Weaker, None
<1>3. MaterialOnlyWhileAdvised'
  BY DEF Inv, FreshInv, MaterialOnlyWhileAdvised, Weaker
<1>4. CallersAdvised'
  BY DEF Inv, FreshInv, CallersAdvised, Weaker, Harmless, SameCall
<1>5. MaterialFresh'
  <2>1. \A q \in Providers : prov'[q].phase = "CredentialMaterialReady" => prov'[q].material # None
    BY DEF Inv, FreshInv, MaterialFresh, Weaker
  <2>2. ASSUME NEW q \in Providers, prov'[q].material # None
        PROVE  /\ prov'[q].generation # None
               /\ prov'[q].generation = guard'.generation => floor' <= prov'[q].material
    BY <1>2, <2>2 DEF Inv, FreshInv, MaterialFresh, Weaker
  <2>3. ASSUME NEW w \in Workers, worker'[w].pc = "received", worker'[w].outcome = "material"
        PROVE  /\ worker'[w].fetched # None
               /\ OnGeneration(w)' => floor' <= worker'[w].fetched
    <3>1. SameCall(worker'[w], worker[w]) /\ worker'[w].provider \in Providers
      BY <2>3 DEF Harmless
    <3>2. OnGeneration(w)' => OnGeneration(w)
      BY <1>1, <1>2, <3>1 DEF OnGeneration, SameCall, Weaker, None
    <3> QED
      BY <2>3, <3>1, <3>2 DEF SameCall, Inv, FreshInv, MaterialFresh
  <2>4. floor' <= stored'
    BY DEF Inv, FreshInv, MaterialFresh
  <2> QED
    BY <2>1, <2>2, <2>3, <2>4 DEF MaterialFresh
<1> QED
  BY <1>3, <1>4, <1>5 DEF FreshInv

\* LogonUI's calls only weaken providers; the guard never falls back.
LEMMA LogonUIFresh ==
  ASSUME Inv, NEW p \in Providers, LogonUIStep(p)
  PROVE  FreshInv'
<1>1. Housed' /\ UNCHANGED << stored, floor >>
  BY NextHoused
     DEF Inv, Next, LogonUIStep, Advise, UnAdvise, SetSelected, TakeAccepted, TakeRefused, HandOver,
         PackFails, ReportResult, CooldownElapses, ProcessExit, storeVars, history
<1>2. guard.generation <= guard'.generation /\ guard'.generation \in Nat
  <2>1. guard.generation \in Nat
    BY Numbers DEF Inv
  <2>2. guard' = guard \/ guard' = Reserved(guard) \/ \E b \in BOOLEAN : guard' = Completed(guard, b)
    BY DEF LogonUIStep, Advise, UnAdvise, SetSelected, TakeAccepted, TakeRefused, HandOver, PackFails,
           ReportResult, CooldownElapses, ProcessExit, Commit, CommitFails, guardVars, provVars
  <2>3. guard'.generation \in {guard.generation, guard.generation + 1}
    <3>1. guard \in GuardState
      BY DEF Inv, Housed, TypeOK
    <3>2. \A b \in BOOLEAN : Completed(guard, b).generation = guard.generation
      BY <3>1, GuardOps
    <3>3. Reserved(guard).generation = guard.generation + 1
      BY DEF Reserved
    <3> QED
      BY <2>2, <3>2, <3>3
  <2> QED
    BY <2>1, <2>3
<1>3. Weaker(prov'[p], prov[p])
  <2> USE DEF Weaker, Inv, Housed, TypeOK, ProviderState
  <2>1. CASE Advise(p)
    <3>1. PICK reopened :
            prov' = [prov EXCEPT ![p].advised = TRUE,
                                 ![p].phase = IF reopened THEN "ProviderLoaded" ELSE @]
      BY <2>1 DEF Advise
    <3> QED
      BY <3>1
  <2>2. CASE UnAdvise(p)
    BY <2>2 DEF UnAdvise
  <2>3. CASE SetSelected(p)
    BY <2>3 DEF SetSelected
  <2>4. CASE TakeAccepted(p)
    BY <2>4 DEF TakeAccepted
  <2>5. CASE TakeRefused(p)
    BY <2>5 DEF TakeRefused
  <2>6. CASE HandOver(p)
    BY <2>6 DEF HandOver, provVars
  <2>7. CASE PackFails(p)
    BY <2>7 DEF PackFails
  <2>8. ASSUME NEW succeeded \in BOOLEAN, ReportResult(p, succeeded)
        PROVE  Weaker(prov'[p], prov[p])
    BY <2>8 DEF ReportResult
  <2>9. CASE CooldownElapses(p)
    BY <2>9 DEF CooldownElapses
  <2>10. CASE ProcessExit(p)
    BY <2>10 DEF ProcessExit, NewProvider
  <2> QED
    BY <2>1, <2>2, <2>3, <2>4, <2>5, <2>6, <2>7, <2>8, <2>9, <2>10 DEF LogonUIStep
<1>4. \A q \in Providers \ {p} : prov'[q] = prov[q]
  BY DEF LogonUIStep, Advise, UnAdvise, SetSelected, TakeAccepted, TakeRefused, HandOver, PackFails,
         ReportResult, CooldownElapses, ProcessExit, provVars, Inv, Housed, TypeOK
<1>5. \A w \in Workers : Harmless(worker'[w]) \/ SameCall(worker'[w], worker[w])
  <2>1. CASE Advise(p) \/ SetSelected(p)
    <3>1. worker' = worker \/ \E mode \in Modes : Spawn(p, mode)
      <4>1. "Selected" \in Modes /\ WakeModes \subseteq Modes \cup {"Off"}
        BY WakeModesAssumption DEF Modes
      <4> QED
        BY <2>1, <4>1 DEF Advise, SetSelected
    <3>2. CASE worker' = worker
      BY <3>2 DEF SameCall
    <3>3. ASSUME NEW mode \in Modes, Spawn(p, mode)
          PROVE  \A w \in Workers : Harmless(worker'[w]) \/ SameCall(worker'[w], worker[w])
      BY <3>3, NewRecords DEF Spawn, Harmless, SameCall, Inv, Housed, TypeOK
    <3> QED
      BY <3>1, <3>2, <3>3
  <2>2. CASE UnAdvise(p)
    BY <2>2 DEF UnAdvise, SameCall, Inv, Housed, TypeOK, WorkerState
  <2>3. CASE ProcessExit(p)
    BY <2>3 DEF ProcessExit, WorkersWithout, Harmless, SameCall, IdleWorker
  <2>4. CASE worker' = worker
    BY <2>4 DEF SameCall
  <2> QED
    BY <2>1, <2>2, <2>3, <2>4
       DEF LogonUIStep, TakeAccepted, TakeRefused, HandOver, PackFails, ReportResult,
           CooldownElapses, provVars
<1>6. \A q \in Providers : Weaker(prov[q], prov[q])
  BY DEF Weaker
<1>7. \A q \in Providers : Weaker(prov'[q], prov[q])
  BY <1>3, <1>4, <1>6
<1>8. \A w \in Workers : worker'[w].provider \in Providers \/ worker'[w].pc = "idle"
  BY <1>1 DEF Housed, WorkersHoused
<1> QED
  BY <1>1, <1>2, <1>5, <1>7, <1>8, WeakerFresh

\* Enrolment lifts the guard above whatever was fetched before it; a power
\* loss leaves nothing that was fetched.
LEMMA SystemFresh ==
  ASSUME Inv, SaveEnrollment \/ LiftLatch \/ EnrollerDies \/ Flush \/ Reboot
  PROVE  FreshInv'
<1>1. CASE SaveEnrollment
  BY <1>1 DEF SaveEnrollment, Inv, Housed, TypeOK, FreshInv, MaterialFresh, CallersAdvised,
              MaterialOnlyWhileAdvised, OnGeneration, provVars, history, Versions
<1>2. CASE LiftLatch
  <2>1. UNCHANGED << prov, worker, stored >>
    BY <1>2 DEF LiftLatch, provVars
  <2>2. CallersAdvised' /\ MaterialOnlyWhileAdvised'
    BY <2>1 DEF Inv, FreshInv, CallersAdvised, MaterialOnlyWhileAdvised
  <2>3. CASE guard' = guard
    BY <1>2, <2>1, <2>2, <2>3 DEF LiftLatch, Inv, FreshInv, MaterialFresh, OnGeneration
  <2>4. CASE guard' # guard
    <3>1. guard'.generation = guard.generation + 1 /\ floor' = stored
      BY <1>2, <2>4 DEF LiftLatch, Commit, CommitFails, guardVars, Updated
    <3>2. \A q \in Providers : prov[q].generation # guard'.generation
      BY <3>1, Numbers DEF Inv, LatchInv, GenerationsBounded, None
    <3>3. \A w \in Workers : worker[w].pc = "received" => worker[w].provider \in Providers
      BY DEF Inv, Housed, WorkersHoused
    <3>4. stored <= stored
      BY DEF Inv, Housed, TypeOK, Versions
    <3> QED
      BY <2>1, <2>2, <3>1, <3>2, <3>3, <3>4 DEF Inv, FreshInv, MaterialFresh, OnGeneration
  <2> QED
    BY <2>3, <2>4
<1>3. CASE EnrollerDies
  BY <1>3 DEF EnrollerDies, Inv, FreshInv, MaterialFresh, CallersAdvised,
              MaterialOnlyWhileAdvised, OnGeneration, provVars, history
<1>4. CASE Flush
  BY <1>4 DEF Flush, LazyFlush, Inv, FreshInv, MaterialFresh, CallersAdvised,
              MaterialOnlyWhileAdvised, OnGeneration, provVars, storeVars, history
<1>5. CASE Reboot
  <2>1. \A w \in Workers : worker'[w].pc = "idle"
    BY <1>5 DEF Reboot, WorkersWithout, Inv, Housed, WorkersHoused, IdleWorker
  <2>2. \A q \in Providers : prov'[q].material = None /\ prov'[q].phase = "ProviderLoaded"
    BY <1>5 DEF Reboot, NewProvider
  <2>3. floor' <= stored'
    BY <1>5 DEF Reboot, Inv, FreshInv, MaterialFresh
  <2> QED
    BY <2>1, <2>2, <2>3 DEF FreshInv, MaterialFresh, CallersAdvised, MaterialOnlyWhileAdvised
<1> QED
  BY <1>1, <1>2, <1>3, <1>4, <1>5

-----------------------------------------------------------------------------
(* The steps of a worker                                                   *)

\* What a current request means for what is held under it.
LEMMA CurrentMeans ==
  ASSUME Inv, NEW w \in Workers, Current(worker[w].provider, worker[w].request)
  PROVE  OnGeneration(w) /\ prov[worker[w].provider].generation # None
  BY DEF Current, ReadyAt, OnGeneration

\* Asking a broker for w: nothing in hand yet, and no provider has changed.
LEMMA AsksFresh ==
  ASSUME Inv, NEW w \in Workers, UNCHANGED << guard, stored, floor >>,
         worker[w].provider \in Providers,
         NEW s \in WorkerState, worker' = [worker EXCEPT ![w] = s],
         \/ Harmless(s)
         \/ /\ s.provider = worker[w].provider /\ s.request = worker[w].request
            /\ prov[s.provider].advised \/ ~Harmless(worker[w]),
         s.pc = "received" /\ s.outcome = "material" => s.fetched = stored,
         \A q \in Providers : Weaker(prov'[q], prov[q])
  PROVE  FreshInv'
<1> USE DEF Inv, Housed, TypeOK
<1>1. \A q \in Providers : /\ prov[q].generation \in Nat \cup {None} /\ guard.generation \in Nat
                           /\ prov[q].generation <= guard.generation
  BY Numbers DEF LatchInv, GenerationsBounded
<1>2. MaterialOnlyWhileAdvised'
  BY DEF FreshInv, MaterialOnlyWhileAdvised, Weaker
<1>3. CallersAdvised'
  <2>1. ASSUME NEW x \in Workers, ~Harmless(worker'[x]),
               prov'[worker'[x].provider].request = worker'[x].request,
               prov'[worker'[x].provider].generation # None
        PROVE  prov'[worker'[x].provider].advised
    <3>1. worker[x].provider \in Providers /\ worker'[x].provider = worker[x].provider
          /\ worker'[x].request = worker[x].request
      BY <2>1 DEF Harmless, WorkersHoused
    <3>2. Weaker(prov'[worker[x].provider], prov[worker[x].provider])
      BY <3>1
    <3> QED
      <4>1. CASE worker'[x] = worker[x]
        BY <2>1, <3>1, <3>2, <4>1 DEF FreshInv, CallersAdvised, Weaker, Harmless
      <4>2. CASE x = w /\ worker'[x] # worker[x]
        BY <2>1, <3>1, <3>2, <4>2 DEF FreshInv, CallersAdvised, Weaker, Harmless
      <4> QED
        BY <4>1, <4>2
  <2> QED
    BY <2>1 DEF CallersAdvised, Harmless
<1>4. MaterialFresh'
  <2>1. \A q \in Providers :
          /\ prov'[q].phase = "CredentialMaterialReady" => prov'[q].material # None
          /\ prov'[q].material # None =>
               /\ prov'[q].generation # None
               /\ prov'[q].generation = guard'.generation => floor' <= prov'[q].material
    BY DEF FreshInv, MaterialFresh, Weaker
  <2>2. ASSUME NEW x \in Workers, worker'[x].pc = "received", worker'[x].outcome = "material"
        PROVE  /\ worker'[x].fetched # None
               /\ OnGeneration(x)' => floor' <= worker'[x].fetched
    <3>1. CASE x = w
      BY <2>2, <3>1 DEF FreshInv, MaterialFresh, Versions, None, Harmless
    <3>2. CASE x # w
      <4>1. worker'[x] = worker[x] /\ worker[x].provider \in Providers
        BY <2>2, <3>2 DEF WorkersHoused
      <4>2. Weaker(prov'[worker[x].provider], prov[worker[x].provider])
        BY <4>1
      <4>3. OnGeneration(x)' => OnGeneration(x)
        BY <1>1, <4>1, <4>2 DEF OnGeneration, Weaker, None
      <4> QED
        BY <2>2, <4>1, <4>3 DEF FreshInv, MaterialFresh
    <3> QED
      BY <3>1, <3>2
  <2> QED
    BY <2>1, <2>2 DEF FreshInv, MaterialFresh
<1> QED
  BY <1>2, <1>3, <1>4 DEF FreshInv

LEMMA BeginFresh ==
  ASSUME Inv, NEW w \in Workers, BeginStarted(w), worker[w].provider \in Providers
  PROVE  FreshInv'
<1> USE DEF Inv, Housed, TypeOK
<1>0. PICK p \in Providers : p = worker[w].provider
  OBVIOUS
<1>1. /\ prov'[p] = [prov[p] EXCEPT !.phase = "WakeRequested", !.request = @ + 1,
                                     !.generation = guard.generation]
      /\ \A q \in Providers \ {p} : prov'[q] = prov[q]
  BY <1>0 DEF BeginStarted
<1>2. /\ prov'[p].material = None /\ prov'[p].phase = "WakeRequested"
      /\ prov'[p].request = prov[p].request + 1
  <2>1. prov[p] \in ProviderState /\ prov[p].material = None
    BY <1>0 DEF BeginStarted
  <2> QED
    BY <1>1, <2>1 DEF ProviderState
<1>3. UNCHANGED << guard, stored, floor >>
  BY DEF BeginStarted, storeVars, history
<1>4. worker'[w].pc = "loop" /\ \A x \in Workers \ {w} : worker'[x] = worker[x]
  BY DEF BeginStarted, WorkerState
\* No other worker's request can be the new one.
<1>5. \A x \in Workers \ {w} :
        worker[x].pc # "idle" /\ worker[x].provider = p => prov'[p].request # worker[x].request
  BY <1>2 DEF WorkersHoused, WorkerState, ProviderState, Requests
<1>6. MaterialOnlyWhileAdvised'
  BY <1>1, <1>2 DEF FreshInv, MaterialOnlyWhileAdvised
<1>7. CallersAdvised'
  <2>1. ASSUME NEW x \in Workers, worker'[x].pc \in {"request", "calling", "received"},
               prov'[worker'[x].provider].request = worker'[x].request,
               prov'[worker'[x].provider].generation # None
        PROVE  prov'[worker'[x].provider].advised
    <3>1. x # w /\ worker'[x] = worker[x] /\ worker[x].pc # "idle"
      BY <1>4, <2>1
    <3>2. worker[x].provider \in Providers \ {p}
      BY <1>5, <2>1, <3>1 DEF WorkersHoused
    <3>3. prov'[worker[x].provider] = prov[worker[x].provider]
      BY <1>1, <3>2
    <3> QED
      BY <2>1, <3>1, <3>3 DEF FreshInv, CallersAdvised
  <2> QED
    BY <2>1 DEF CallersAdvised
<1>8. MaterialFresh'
  <2>1. ASSUME NEW q \in Providers
        PROVE  /\ prov'[q].phase = "CredentialMaterialReady" => prov'[q].material # None
               /\ prov'[q].material # None =>
                    /\ prov'[q].generation # None
                    /\ prov'[q].generation = guard'.generation => floor' <= prov'[q].material
    <3>1. MaterialFresh
      BY DEF FreshInv
    <3>2. CASE q = p
      BY <1>2, <3>2
    <3>3. CASE q # p
      <4>1. prov'[q] = prov[q]
        BY <1>1, <3>3
      <4> QED
        BY <1>3, <3>1, <4>1 DEF MaterialFresh
    <3> QED
      BY <3>2, <3>3
  <2>2. ASSUME NEW x \in Workers, worker'[x].pc = "received", worker'[x].outcome = "material"
        PROVE  /\ worker'[x].fetched # None
               /\ OnGeneration(x)' => floor' <= worker'[x].fetched
    <3>1. x # w /\ worker'[x] = worker[x] /\ worker[x].pc # "idle"
      BY <1>4, <2>2
    <3>2. OnGeneration(x)' => OnGeneration(x)
      <4>1. ASSUME worker[x].provider # p PROVE prov'[worker[x].provider] = prov[worker[x].provider]
        BY <1>1, <3>1, <4>1 DEF WorkersHoused
      <4> QED
        BY <1>3, <1>5, <3>1, <4>1 DEF OnGeneration
    <3> QED
      BY <1>3, <2>2, <3>1, <3>2 DEF FreshInv, MaterialFresh
  <2> QED
    BY <1>3, <2>1, <2>2 DEF FreshInv, MaterialFresh
<1> QED
  BY <1>6, <1>7, <1>8 DEF FreshInv

LEMMA ApplyFresh ==
  ASSUME Inv, NEW w \in Workers, ApplyOutcome(w), worker[w].provider \in Providers
  PROVE  FreshInv'
<1> USE DEF Inv, Housed, TypeOK
<1>0. PICK p \in Providers : p = worker[w].provider
  OBVIOUS
<1>1. UNCHANGED << guard, stored, floor >>
  BY DEF ApplyOutcome, storeVars, history
<1>2. Harmless(worker'[w]) /\ \A x \in Workers \ {w} : worker'[x] = worker[x]
  BY DEF ApplyOutcome, Harmless, WorkerState
<1>3. \A q \in Providers \ {p} : prov'[q] = prov[q]
  BY <1>0 DEF ApplyOutcome
<1>4. \/ prov'[p] = prov[p]
      \/ prov'[p] = [prov[p] EXCEPT !.phase = "WakeFailed", !.cooling = TRUE]
      \/ /\ Current(p, worker[w].request) /\ worker[w].pc = "received"
         /\ worker[w].outcome = "material"
         /\ prov'[p] = [prov[p] EXCEPT !.phase = "CredentialMaterialReady",
                                       !.material = worker[w].fetched, !.cooling = FALSE]
  BY <1>0 DEF ApplyOutcome, CurrentAnswers
<1>5. /\ prov'[p].request = prov[p].request /\ prov'[p].generation = prov[p].generation
      /\ prov'[p].advised = prov[p].advised
  BY <1>4 DEF ProviderState
<1>6. CASE Weaker(prov'[p], prov[p])
  <2>1. \A q \in Providers : Weaker(prov'[q], prov[q])
    BY <1>3, <1>6 DEF Weaker
  <2>2. \A x \in Workers : Harmless(worker'[x]) \/ SameCall(worker'[x], worker[x])
    BY <1>2 DEF SameCall
  <2>3. \A x \in Workers : worker'[x].provider \in Providers \/ worker'[x].pc = "idle"
    BY NextHoused DEF Next, WorkerStep, WorkersHoused
  <2> QED
    BY <1>1, <2>1, <2>2, <2>3, WeakerFresh, Numbers
<1>7. CASE ~Weaker(prov'[p], prov[p])
  <2>1. /\ Current(p, worker[w].request) /\ worker[w].pc = "received"
        /\ worker[w].outcome = "material" /\ prov'[p].material = worker[w].fetched
    BY <1>4, <1>7 DEF Weaker, ProviderState
  <2>2. prov[p].generation # None /\ worker[w].fetched # None /\ floor <= worker[w].fetched
    BY <1>0, <2>1, CurrentMeans DEF FreshInv, MaterialFresh
  <2>3. prov[p].advised
    BY <1>0, <2>1, <2>2 DEF FreshInv, CallersAdvised, Current
  <2>4. MaterialOnlyWhileAdvised'
    BY <1>3, <1>5, <2>3 DEF FreshInv, MaterialOnlyWhileAdvised
  <2>5. CallersAdvised'
    <3>1. \A q \in Providers : /\ prov'[q].request = prov[q].request
                               /\ prov'[q].generation = prov[q].generation
                               /\ prov'[q].advised = prov[q].advised
      BY <1>3, <1>5
    <3>2. \A x \in Workers : ~Harmless(worker'[x]) =>
            worker'[x] = worker[x] /\ worker[x].provider \in Providers
      BY <1>2 DEF Harmless, WorkersHoused
    <3> QED
      BY <3>1, <3>2 DEF FreshInv, CallersAdvised, Harmless
  <2>6. MaterialFresh'
    BY <1>1, <1>2, <1>3, <1>5, <2>1, <2>2
       DEF FreshInv, MaterialFresh, Harmless, OnGeneration, WorkersHoused
  <2> QED
    BY <2>4, <2>5, <2>6 DEF FreshInv
<1> QED
  BY <1>6, <1>7

LEMMA WorkerFresh ==
  ASSUME Inv, NEW w \in Workers, WorkerStep(w) \/ InputArrives(w)
  PROVE  FreshInv'
<1> DEFINE p == worker[w].provider
<1>1. p \in Providers /\ worker[w] \in WorkerState /\ UNCHANGED << guard, stored, floor >>
  BY WorkerTouches DEF Touches, storeVars, history, Inv, Housed, TypeOK
<1>2. CASE BeginStarted(w)
  BY <1>1, <1>2, BeginFresh
<1>3. CASE ApplyOutcome(w)
  BY <1>1, <1>3, ApplyFresh
<1>4. CASE ~BeginStarted(w) /\ ~ApplyOutcome(w)
  <2>1. \A q \in Providers : Weaker(prov'[q], prov[q])
    <3>1. CASE prov' = prov
      BY <3>1 DEF Weaker
    <3>2. CASE prov' # prov
      <4>1. PICK phase \in {"AutomaticLogonSuppressed", "WakeRequested"} :
              prov' = [prov EXCEPT ![p].phase = phase]
        BY <1>4, <3>2 DEF WorkerStep, InputArrives, StopsWaiting, BeginBlocked, NextAttempt,
           RetryStarts, CallBroker, BrokerAnswers, BrokerFails, RoundEnds
      <4> QED
        BY <1>1, <4>1 DEF Weaker, Inv, Housed, TypeOK, ProviderState
    <3> QED
      BY <3>1, <3>2
  <2>2. \E s \in WorkerState :
          /\ worker' = [worker EXCEPT ![w] = s]
          /\ \/ Harmless(s)
             \/ /\ s.provider = p /\ s.request = worker[w].request
                /\ prov[p].advised \/ ~Harmless(worker[w])
          /\ s.pc = "received" /\ s.outcome = "material" => s.fetched = stored
    <3>0. worker' \in [Workers -> WorkerState] /\ worker'[w] \in WorkerState
      BY NextHoused DEF Next, Inv, Housed, TypeOK
    <3>1. worker' = [worker EXCEPT ![w] = worker'[w]]
      BY <3>0, WorkerTouches DEF Touches, Inv, Housed, TypeOK
    <3>2. \/ Harmless(worker'[w])
          \/ /\ worker'[w].provider = p /\ worker'[w].request = worker[w].request
             /\ prov[p].advised \/ ~Harmless(worker[w])
      <4> USE DEF Harmless, Inv, Housed, TypeOK, WorkerState
      <4>1. CASE NextAttempt(w)
        BY <1>1, <4>1 DEF NextAttempt, Goto
      <4>2. CASE RetryStarts(w)
        BY <1>1, <4>2 DEF RetryStarts, Goto
      <4>3. CASE CallBroker(w)
        BY <1>1, <4>3 DEF CallBroker, Goto
      <4>4. CASE BrokerAnswers(w)
        BY <1>1, <4>4 DEF BrokerAnswers
      <4>5. CASE BrokerFails(w)
        BY <1>1, <4>5 DEF BrokerFails
      <4>6. CASE InputArrives(w) \/ RoundEnds(w) \/ StopsWaiting(w) \/ BeginBlocked(w)
        BY <1>1, <4>6 DEF InputArrives, RoundEnds, StopsWaiting, BeginBlocked, Goto, Park, IdleWorker
      <4> QED
        BY <1>4, <4>1, <4>2, <4>3, <4>4, <4>5, <4>6 DEF WorkerStep
    <3>3. worker'[w].pc = "received" /\ worker'[w].outcome = "material" => worker'[w].fetched = stored
      <4> USE DEF Inv, Housed, TypeOK, WorkerState
      <4>1. CASE BrokerAnswers(w)
        BY <1>1, <4>1 DEF BrokerAnswers
      <4>2. CASE ~BrokerAnswers(w)
        <5>1. worker[w] \in WorkerState
          BY <1>1
        <5>2. CASE CallBroker(w) \/ BrokerFails(w)
          BY <5>1, <5>2 DEF CallBroker, BrokerFails, Goto
        <5>3. CASE InputArrives(w) \/ StopsWaiting(w) \/ BeginBlocked(w) \/ RoundEnds(w)
          BY <5>1, <5>3 DEF InputArrives, StopsWaiting, BeginBlocked, RoundEnds, Goto, Park, IdleWorker
        <5>4. CASE NextAttempt(w) \/ RetryStarts(w)
          BY <5>1, <5>4 DEF NextAttempt, RetryStarts, Goto
        <5> QED
          BY <1>1, <1>4, <4>2, <5>2, <5>3, <5>4 DEF WorkerStep
      <4> QED
        BY <4>1, <4>2
    <3> QED
      BY <3>0, <3>1, <3>2, <3>3
  <2> QED
    BY <1>1, <2>1, <2>2, AsksFresh
<1> QED
  BY <1>2, <1>3, <1>4

-----------------------------------------------------------------------------
(* The theorems                                                            *)

LEMMA NextInv ==
  ASSUME Inv, [Next]_vars
  PROVE  Inv'
<1>1. Housed' /\ LatchInv'
  BY NextHoused, NextLatch DEF Inv
<1>2. ASSUME UNCHANGED vars PROVE FreshInv'
  <2>1. UNCHANGED << guard, prov, worker, stored, floor >>
    BY <1>2 DEF vars
  <2>2. guard.generation <= guard'.generation /\ guard'.generation \in Nat
    BY <2>1, Numbers DEF Inv
  <2>3. \A q \in Providers : Weaker(prov'[q], prov[q])
    BY <2>1 DEF Weaker
  <2>4. \A w \in Workers : Harmless(worker'[w]) \/ SameCall(worker'[w], worker[w])
    BY <2>1 DEF SameCall
  <2>5. \A w \in Workers : worker'[w].provider \in Providers \/ worker'[w].pc = "idle"
    BY <2>1 DEF Inv, Housed, WorkersHoused
  <2>6. UNCHANGED << stored, floor >>
    BY <2>1
  <2> QED
    BY <2>2, <2>3, <2>4, <2>5, <2>6, WeakerFresh
<1>3. FreshInv'
  BY <1>2, LogonUIFresh, WorkerFresh, SystemFresh DEF Next, Inv
<1> QED
  BY <1>1, <1>3 DEF Inv

THEOREM Invariant == Spec => []Inv
<1>1. Init => Inv
  BY InitHoused, InitLatch, InitFresh DEF Inv
<1>2. Inv /\ [Next]_vars => Inv'
  BY NextInv
<1> QED
  BY <1>1, <1>2, PTL DEF Spec

(* The conjunction the runs check is the inductive invariant, and holds. *)
THEOREM InductiveInvariantHolds == Spec => []IInv
<1>1. Inv => IInv
  BY DEF Inv, Housed, LatchInv, FreshInv, IInv
<1> QED
  BY <1>1, Invariant, PTL

(* A provider that is not advised holds no password, whatever its workers
   of earlier lifecycles still hear from the service. *)
THEOREM UnadvisedHoldNothing == Spec => []MaterialOnlyWhileAdvised
<1>1. Inv => MaterialOnlyWhileAdvised
  BY DEF Inv, FreshInv
<1> QED
  BY <1>1, Invariant, PTL

\* Only a reservation hands out a token.
LEMMA OnlyTakesSubmit ==
  ASSUME Inv, [Next]_vars, NEW p \in Providers,
         prov[p].submission = None, prov'[p].submission # None
  PROVE  TakeAccepted(p)
<1> USE DEF Inv, Housed, TypeOK, ProviderState
<1>1. ASSUME NEW w \in Workers, WorkerStep(w) \/ InputArrives(w) PROVE FALSE
  BY <1>1, WorkerKeepsTokens
<1>2. ASSUME NEW q \in Providers, LogonUIStep(q) PROVE TakeAccepted(p)
  <2>1. ASSUME q # p PROVE prov'[p] = prov[p]
    BY <1>2, <2>1
       DEF LogonUIStep, Advise, UnAdvise, SetSelected, TakeAccepted, TakeRefused, HandOver, PackFails,
           ReportResult, CooldownElapses, ProcessExit, provVars
  <2>2. ASSUME q = p, ~TakeAccepted(p) PROVE prov'[p].submission \in {None, prov[p].submission}
    <3>1. CASE Advise(p)
      <4>1. PICK reopened :
              prov' = [prov EXCEPT ![p].advised = TRUE,
                                   ![p].phase = IF reopened THEN "ProviderLoaded" ELSE @]
        BY <3>1 DEF Advise
      <4> QED
        BY <4>1
    <3>2. CASE UnAdvise(p) \/ TakeRefused(p) \/ CooldownElapses(p)
      BY <3>2 DEF UnAdvise, TakeRefused, CooldownElapses
    <3>3. CASE SetSelected(p) \/ HandOver(p)
      BY <3>3 DEF SetSelected, HandOver, provVars
    <3>4. CASE PackFails(p)
      BY <3>4 DEF PackFails
    <3>5. ASSUME NEW succeeded \in BOOLEAN, ReportResult(p, succeeded)
          PROVE  prov'[p].submission \in {None, prov[p].submission}
      BY <3>5 DEF ReportResult
    <3>6. CASE ProcessExit(p)
      BY <3>6 DEF ProcessExit, NewProvider
    <3> QED
      BY <1>2, <2>2, <3>1, <3>2, <3>3, <3>4, <3>5, <3>6 DEF LogonUIStep
  <2> QED
    BY <2>1, <2>2
<1>3. CASE SaveEnrollment \/ LiftLatch \/ EnrollerDies \/ Flush \/ Reboot \/ UNCHANGED vars
  BY <1>3 DEF SaveEnrollment, LiftLatch, EnrollerDies, Flush, Reboot, NewProvider, provVars, vars
<1> QED
  BY <1>1, <1>2, <1>3 DEF Next

(* What is submitted was read after the credential update that last moved
   the guard: a password replaced by an enrolment is never tried. *)
THEOREM NeverSubmitsStale == Spec => NoStaleSubmission
<1>1. ASSUME Inv, [Next]_vars, NEW p \in Providers,
             prov[p].submission = None, prov'[p].submission # None
      PROVE  prov[p].material >= floor
  <2>1. TakeAccepted(p)
    BY <1>1, OnlyTakesSubmit
  <2>2. prov[p].material # None /\ prov[p].generation = guard.generation
    BY <1>1, <2>1 DEF TakeAccepted, CanReserve, ReadyAt, Inv, FreshInv, MaterialFresh
  <2> QED
    BY <1>1, <2>2 DEF Inv, FreshInv, MaterialFresh, Housed, TypeOK, ProviderState, Versions, None
<1>2. Inv /\ [Next]_vars =>
        [\A p \in Providers :
           prov[p].submission = None /\ prov'[p].submission # None
             => prov[p].material >= floor]_vars
  BY <1>1
<1> QED
  BY <1>2, Invariant, PTL DEF Spec, NoStaleSubmission

(* No token is handed out twice, even after a power loss. *)
THEOREM TokensNeverReused == Spec => TokensAreUnique
<1>1. ASSUME Inv, [Next]_vars, NEW p \in Providers,
             prov[p].submission = None, prov'[p].submission # None
      PROVE  fate[prov'[p].submission] = "none"
  <2>1. TakeAccepted(p) /\ Housed'
    BY <1>1, OnlyTakesSubmit, NextHoused DEF Inv
  <2> QED
    BY <1>1, <2>1, TakeAcceptedLatch DEF Inv
<1>2. Inv /\ [Next]_vars =>
        [\A p \in Providers :
           prov[p].submission = None /\ prov'[p].submission # None
             => fate[prov'[p].submission] = "none"]_vars
  BY <1>1
<1> QED
  BY <1>2, Invariant, PTL DEF Spec, TokensAreUnique
-----------------------------------------------------------------------------
(***************************************************************************)
(* One submission at a time: every step of the provider is a step of       *)
(* OneSubmission or leaves what it is about alone.                         *)
(***************************************************************************)

\* What stands in the way is made of the tokens' fates and the updates.
LEMMA WayStays == ASSUME UNCHANGED << fate, updates >> PROVE UNCHANGED << fate, InTheWay >>
  BY DEF InTheWay, Issued

\* A ready guard has nothing in its way: an update lies above what is unresolved.
LEMMA ReadyIsOpen ==
  ASSUME Housed, LatchInv, guard.phase = "Ready"
  PROVE  InTheWay = {}
<1>1. \A t \in Issued : fate[t] \in Unresolved => \E u \in updates : t < u
  BY DEF LatchInv, LatchHolds, Blocks
<1> QED
  BY <1>1 DEF InTheWay

LEMMA TakeSubmits ==
  ASSUME Housed, Housed', LatchInv, NEW p \in Providers, TakeAccepted(p)
  PROVE  Promise!Next
<1> DEFINE token == guard.generation + 1
<1>1. /\ guard.phase = "Ready" /\ fate' = [fate EXCEPT ![token] = "reserved"] /\ UNCHANGED updates
      /\ guard'.generation = token
  BY DEF TakeAccepted, CanReserve, ReadyAt, Reserved, Commit
<1>2. token \in Generations /\ token \in Nat /\ \A t \in Issued : t < token
  BY <1>1, Numbers DEF Housed, TypeOK, GuardState, LatchInv, GenerationsBounded
<1>3. \A u \in updates : u < token
  BY Numbers DEF LatchInv, GenerationsBounded
<1> HIDE DEF token
<1>4. fate'[token] = "reserved" /\ \A t \in Generations \ {token} : fate'[t] = fate[t]
  BY <1>1, <1>2 DEF Housed, TypeOK
<1>5. InTheWay = {}
  BY <1>1, ReadyIsOpen
<1>6. InTheWay' = {token}
  <2>1. \A t \in Generations \ {token} : t \notin InTheWay'
    BY <1>1, <1>4, <1>5 DEF InTheWay, Issued
  <2>2. ~\E u \in updates : token < u
    BY <1>2, <1>3, Numbers
  <2>3. token \in InTheWay'
    BY <1>1, <1>2, <1>4, <2>2 DEF InTheWay, Issued, Unresolved
  <2> QED
    BY <2>1, <2>3 DEF InTheWay, Issued
<1>7. Promise!Submit(token)
  BY <1>1, <1>2, <1>5, <1>6 DEF Promise!Submit, Issued
<1> QED
  BY <1>2, <1>7 DEF Promise!Next

\* A submission that is decided is out of the way unless it was refused.
LEMMA AnswerClears ==
  ASSUME Housed, NEW token \in Generations, fate[token] # "none", UNCHANGED updates,
         NEW answer \in {"pending", "cancelled", "accepted", "rejected"},
         fate' = [fate EXCEPT ![token] = answer]
  PROVE  /\ answer \in {"cancelled", "accepted"} => InTheWay' = InTheWay \ {token}
         /\ answer \in {"pending", "rejected"} /\ fate[token] \in {"reserved", "pending"} => InTheWay' = InTheWay
<1>1. fate'[token] = answer /\ \A t \in Generations \ {token} : fate'[t] = fate[t]
  BY DEF Housed, TypeOK
<1>2. \A t \in Generations \ {token} : t \in InTheWay' <=> t \in InTheWay
  BY <1>1 DEF InTheWay, Issued
<1>3. InTheWay \subseteq Generations /\ InTheWay' \subseteq Generations
  BY DEF InTheWay, Issued
<1>4. answer \in {"cancelled", "accepted"} => token \notin InTheWay'
  BY <1>1 DEF InTheWay, Unresolved
<1>5. answer \in {"pending", "rejected"} /\ fate[token] \in {"reserved", "pending"}
        => (token \in InTheWay' <=> token \in InTheWay)
  BY <1>1 DEF InTheWay, Issued, Unresolved
<1> QED
  BY <1>2, <1>3, <1>4, <1>5

LEMMA AnswersImplement ==
  ASSUME Housed, NEW p \in Providers,
         HandOver(p) \/ PackFails(p) \/ \E succeeded \in BOOLEAN : ReportResult(p, succeeded)
  PROVE  Promise!Next
<1> DEFINE token == prov[p].submission
<1>1. token \in Generations
  BY Numbers DEF HandOver, PackFails, ReportResult
<1>2. CASE HandOver(p)
  <2>1. fate[token] = "reserved" /\ fate' = [fate EXCEPT ![token] = "pending"] /\ UNCHANGED updates
    BY <1>2 DEF HandOver
  <2> HIDE DEF token
  <2>2. Promise!HandOver(token)
    BY <1>1, <2>1, AnswerClears DEF Promise!HandOver
  <2> QED
    BY <1>1, <2>2 DEF Promise!Next
<1>3. CASE PackFails(p)
  <2>1. fate[token] = "reserved" /\ fate' = [fate EXCEPT ![token] = "cancelled"] /\ UNCHANGED updates
    BY <1>3 DEF PackFails
  <2> HIDE DEF token
  <2>2. Promise!Withdraw(token)
    BY <1>1, <2>1, AnswerClears DEF Promise!Withdraw
  <2> QED
    BY <1>1, <2>2 DEF Promise!Next
<1>4. ASSUME NEW succeeded \in BOOLEAN, ReportResult(p, succeeded) PROVE Promise!Next
  <2> DEFINE answer == IF succeeded THEN "accepted" ELSE "rejected"
  <2>1. fate[token] = "pending" /\ fate' = [fate EXCEPT ![token] = answer] /\ UNCHANGED updates
    BY <1>4 DEF ReportResult
  <2> HIDE DEF token
  <2>2. CASE succeeded
    <3>1. Promise!Accept(token)
      BY <1>1, <2>1, <2>2, AnswerClears DEF Promise!Accept
    <3> QED
      BY <1>1, <3>1 DEF Promise!Next
  <2>3. CASE ~succeeded
    <3>1. Promise!Reject(token)
      BY <1>1, <2>1, <2>3, AnswerClears DEF Promise!Reject
    <3> QED
      BY <1>1, <3>1 DEF Promise!Next
  <2> QED
    BY <2>2, <2>3
<1> QED
  BY <1>2, <1>3, <1>4

\* The update lies above whatever was submitted.
LEMMA LiftImplements ==
  ASSUME Housed, LatchInv, LiftLatch
  PROVE  Promise!Next \/ UNCHANGED << fate, InTheWay >>
<1>1. UNCHANGED fate /\ Issued' = Issued
  BY DEF LiftLatch, Issued
<1>2. CASE guard' = guard
  <2>1. UNCHANGED updates
    BY <1>2 DEF LiftLatch
  <2> QED
    BY <1>1, <2>1, WayStays
<1>3. CASE guard' # guard
  <2>1. updates' = updates \cup {guard.generation + 1}
    BY <1>3 DEF LiftLatch, Commit, CommitFails, guardVars, Updated
  <2>2. \A t \in Issued : t < guard.generation + 1
    BY Numbers DEF LatchInv, GenerationsBounded
  <2>3. InTheWay' = {}
    BY <1>1, <2>1, <2>2 DEF InTheWay
  <2>4. Promise!Lift
    BY <1>1, <2>3 DEF Promise!Lift
  <2> QED
    BY <2>4 DEF Promise!Next
<1> QED
  BY <1>2, <1>3

\* Processes that end lose what was outstanding; a power loss may forget an
\* update besides.
LEMMA LossImplements ==
  ASSUME Housed, NEW procs \in SUBSET Providers, fate' = FateWithout(procs), updates' \subseteq updates
  PROVE  Promise!Next
<1> DEFINE lost == {t \in Generations : \E p \in procs : prov[p].submission = t /\ fate[t] \in {"reserved", "pending"}}
<1>1. fate' = [t \in Generations |-> IF t \in lost THEN "lost" ELSE fate[t]]
  BY DEF FateWithout
<1>2. lost \in SUBSET {t \in Generations : fate[t] \in {"reserved", "pending"}}
  OBVIOUS
<1> HIDE DEF lost
<1>3. /\ Issued' = Issued
      /\ \A t \in Issued : fate'[t] \in Unresolved <=> fate[t] \in Unresolved
  BY LosesFates
<1>4. InTheWay \subseteq InTheWay' /\ InTheWay' \subseteq Generations
  BY <1>3 DEF InTheWay, Issued
<1>5. \A t \in InTheWay' : fate[t] \notin {"none", "accepted", "cancelled"}
  BY <1>3 DEF InTheWay, Unresolved
<1>6. Promise!Vanish
  BY <1>1, <1>2, <1>4, <1>5 DEF Promise!Vanish
<1> QED
  BY <1>6 DEF Promise!Next

LEMMA StepSubmits ==
  ASSUME Housed, LatchInv, [Next]_vars
  PROVE  Promise!Next \/ UNCHANGED << fate, InTheWay >>
<1>0. Housed'
  BY NextHoused
<1>1. ASSUME NEW p \in Providers, LogonUIStep(p) PROVE Promise!Next \/ UNCHANGED << fate, InTheWay >>
  <2>1. CASE Advise(p) \/ UnAdvise(p) \/ SetSelected(p) \/ TakeRefused(p) \/ CooldownElapses(p)
    <3>1. UNCHANGED << fate, updates >>
      BY <2>1 DEF Advise, UnAdvise, SetSelected, TakeRefused, CooldownElapses, history
    <3> QED
      BY <3>1, WayStays
  <2>2. CASE ProcessExit(p)
    <3>1. fate' = FateWithout({p}) /\ updates' = updates
      BY <2>2 DEF ProcessExit
    <3> QED
      BY <3>1, LossImplements
  <2> QED
    BY <1>0, <1>1, <2>1, <2>2, TakeSubmits, AnswersImplement DEF LogonUIStep
<1>2. ASSUME NEW w \in Workers, WorkerStep(w) \/ InputArrives(w) PROVE UNCHANGED << fate, InTheWay >>
  <2>1. UNCHANGED << fate, updates >>
    BY <1>2, WorkerTouches DEF Touches, history
  <2> QED
    BY <2>1, WayStays
<1>3. CASE SaveEnrollment \/ EnrollerDies \/ Flush \/ UNCHANGED vars
  <2>1. UNCHANGED << fate, updates >>
    BY <1>3 DEF SaveEnrollment, EnrollerDies, Flush, vars, history
  <2> QED
    BY <2>1, WayStays
<1>4. CASE Reboot
  <2>1. fate' = FateWithout(Providers) /\ updates' \subseteq updates
    BY <1>4 DEF Reboot
  <2> QED
    BY <2>1, LossImplements
<1> QED
  BY <1>1, <1>2, <1>3, <1>4, LiftImplements DEF Next

(* Passwords are submitted one at a time, whatever instances share the latch,
   however its storage fails and wherever the power is lost. *)
THEOREM ProviderImplementsOneSubmission == Spec => ImplementsOneSubmission
<1>1. Init => Promise!Init
  BY DEF Init, Promise!Init, InTheWay, Issued
<1>2. Housed /\ LatchInv /\ [Next]_vars => [Promise!Next]_<<fate, InTheWay>>
  BY StepSubmits
<1> QED
  BY <1>1, <1>2, LatchInvariant, PTL DEF Spec, ImplementsOneSubmission, Promise!Spec
=============================================================================

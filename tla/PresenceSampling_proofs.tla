----------------------- MODULE PresenceSampling_proofs -----------------------
(***************************************************************************)
(* Proofs about PresencePolicy and PresenceSampling, for any thresholds,   *)
(* any saturation limit, any sessions and any number of rounds.            *)
(***************************************************************************)
EXTENDS PresenceSampling, TLAPS

USE PolicyAssumption, SamplingAssumption

\* The counters are the streak, each for its kind.
Counted ==
  /\ policy.owner = LastStreak("OwnerPresent")
  /\ policy.noFace = LastStreak("NoFaceDetected")
  /\ policy.unknown = LastStreak("UnknownFace")
  /\ policy.present = LastStreak("PersonPresent")
  /\ policy.absent = LastStreak("PersonAbsent")
  /\ policy.audited <=> streak.kind = "UnknownFace"
  /\ streak.kind = "none" <=> streak.length = 0

PolicyInv == PolicyTypeOK /\ Counted /\ LockIffConfirmed /\ RoundsFollowStreaks

QuietIsNow == \A s \in Watchable : quiet[s] = QuietThreshold => quietAgo[s] = 0

\* A snapshot of a quiet session is no younger than that quiet.
HeldIsTrue ==
  \A s \in Watchable :
    agent[s].pc \in {"writing", "replacing"} /\ agent[s].quiet = QuietThreshold
      => quietAgo[s] <= agent[s].age
FileIsTrue ==
  file # None /\ file.session \in Watchable /\ file.quiet = QuietThreshold
    => quietAgo[file.session] <= file.age

DesktopTypeOK ==
  /\ quiet \in [Sessions -> Quiet]
  /\ agent \in [Sessions -> Agent]
  /\ file \in Snapshot \cup {None}
  /\ monitor \in Monitor
  /\ quietAgo \in [Watchable -> Age]

DesktopInv == DesktopTypeOK /\ QuietIsNow /\ HeldIsTrue /\ FileIsTrue

IInv == PolicyInv /\ DesktopInv

-----------------------------------------------------------------------------
(* The policy                                                              *)

LEMMA CountFacts ==
  /\ 0 \in Count /\ 1 \in Count
  /\ \A n \in Count : More(n) \in Count /\ More(n) >= 1 /\ (More(n) = 1 <=> n = 0)
  /\ \A n \in Count : Stable(n) \in Intervals
  /\ {NoFaceRequired, UnknownRequired, AbsentRequired} \subseteq Count \ {0}
BY DEF Count, More, Stable, Intervals

LEMMA NewStreak ==
  ASSUME PolicyInv, NEW kind \in Observations \ {"CameraUnavailable"}, Observe(kind)
  PROVE  /\ streak' \in Streak
         /\ streak'.kind = kind /\ ~streak'.blind
         /\ streak'.length = More(LastStreak(kind))
         /\ streak'.length \in Count /\ streak'.length >= 1
         /\ LastStreak(kind) \in Count
<1>1. /\ streak \in Streak /\ streak.length \in Count /\ LastStreak(kind) \in Count
  BY CountFacts DEF PolicyInv, PolicyTypeOK, Streak, LastStreak
<1>2. streak' = [ kind |-> kind,
                  length |-> IF kind = streak.kind THEN More(streak.length) ELSE 1,
                  blind |-> FALSE ]
  BY DEF Observe
<1>3. streak'.length = More(LastStreak(kind))
  <2>1. More(0) = 1
    BY DEF More
  <2> QED
    BY <1>2, <2>1 DEF LastStreak
<1> QED
  BY <1>1, <1>2, <1>3, CountFacts DEF Streak

\* What a round that saw something leaves, whatever it saw.
Recorded(kind) ==
  /\ policy \in Policy /\ decision \in Decision
  /\ policy.owner = IF kind = "OwnerPresent" THEN streak.length ELSE 0
  /\ policy.noFace = IF kind = "NoFaceDetected" THEN streak.length ELSE 0
  /\ policy.unknown = IF kind = "UnknownFace" THEN streak.length ELSE 0
  /\ policy.present = IF kind = "PersonPresent" THEN streak.length ELSE 0
  /\ policy.absent = IF kind = "PersonAbsent" THEN streak.length ELSE 0
  /\ policy.audited <=> kind = "UnknownFace"
  /\ decision.audit <=> kind = "UnknownFace" /\ streak.length = 1
  /\ kind \in {"OwnerPresent", "PersonPresent"} => decision.interval = Stable(streak.length)
  /\ decision.lock =
       CASE kind = "NoFaceDetected" ->
              Confirmed(streak.length, NoFaceRequired, "ConsecutiveNoFace")
         [] kind = "UnknownFace" ->
              Confirmed(streak.length, UnknownRequired, "ConsecutiveUnknownFace")
         [] kind = "PersonAbsent" ->
              Confirmed(streak.length, AbsentRequired, "PersonLeftFrame")
         [] OTHER -> "none"

LEMMA RecordedIsInv ==
  ASSUME NEW kind \in Observations \ {"CameraUnavailable"}, Recorded(kind)',
         streak' \in Streak, streak'.kind = kind, ~streak'.blind, streak'.length >= 1
  PROVE  PolicyInv'
<1>1. PolicyTypeOK'
  BY DEF PolicyTypeOK, Recorded
<1>2. Counted'
  BY DEF Recorded, Counted, LastStreak, Observations
<1>3. LockIffConfirmed'
  <2>1. streak'.length \in Nat /\ {NoFaceRequired, UnknownRequired, AbsentRequired} \subseteq Nat \ {0}
    BY DEF Streak, Count
  <2>2. \A k \in Observations : LastStreak(k)' = IF k = kind THEN streak'.length ELSE 0
    BY DEF LastStreak
  <2>3. CASE kind \in {"OwnerPresent", "PersonPresent"}
    BY <2>1, <2>2, <2>3 DEF Recorded, LockIffConfirmed, Observations
  <2>4. CASE kind = "NoFaceDetected"
    BY <2>1, <2>2, <2>4 DEF Recorded, LockIffConfirmed, Observations, Confirmed
  <2>5. CASE kind = "UnknownFace"
    BY <2>1, <2>2, <2>5 DEF Recorded, LockIffConfirmed, Observations, Confirmed
  <2>6. CASE kind = "PersonAbsent"
    BY <2>1, <2>2, <2>6 DEF Recorded, LockIffConfirmed, Observations, Confirmed
  <2> QED
    BY <2>3, <2>4, <2>5, <2>6 DEF Observations
<1>4. RoundsFollowStreaks'
  BY DEF Recorded, RoundsFollowStreaks, AuditOncePerStreak, BackoffFollowsStreak, LastStreak
<1> QED
  BY <1>1, <1>2, <1>3, <1>4 DEF PolicyInv

LEMMA ConfirmedTyped ==
  \A n, m : \A reason \in Reasons : Confirmed(n, m, reason) \in Reasons
BY DEF Confirmed, Reasons

LEMMA RoundKeeps ==
  ASSUME PolicyInv,
         \/ OwnerPresent \/ NoFaceDetected \/ UnknownFace
         \/ PersonPresent \/ PersonAbsent \/ CameraUnavailable
  PROVE  PolicyInv'
<1>0. /\ policy \in Policy /\ decision \in Decision /\ streak \in Streak
      /\ Counted /\ LockIffConfirmed /\ RoundsFollowStreaks
  BY DEF PolicyInv, PolicyTypeOK
<1>1. SUFFICES ASSUME NEW kind \in Observations \ {"CameraUnavailable"}, Observe(kind),
                      \/ kind = "OwnerPresent" /\ OwnerPresent
                      \/ kind = "NoFaceDetected" /\ NoFaceDetected
                      \/ kind = "UnknownFace" /\ UnknownFace
                      \/ kind = "PersonPresent" /\ PersonPresent
                      \/ kind = "PersonAbsent" /\ PersonAbsent
               PROVE  Recorded(kind)'
  <2>1. CASE CameraUnavailable
    BY <1>0, <2>1
       DEF CameraUnavailable, Observe, PolicyInv, PolicyTypeOK, Decision, Counted, LastStreak,
           LockIffConfirmed, RoundsFollowStreaks, AuditOncePerStreak, BackoffFollowsStreak,
           Observations, Reasons, Intervals, Streak
  <2>2. ASSUME NEW kind \in Observations \ {"CameraUnavailable"}, Observe(kind), Recorded(kind)'
        PROVE  PolicyInv'
    <3>1. /\ streak' \in Streak /\ streak'.kind = kind /\ ~streak'.blind /\ streak'.length >= 1
      BY <2>2, NewStreak
    <3> QED
      BY <2>2, <3>1, RecordedIsInv
  <2>3. ASSUME NEW kind \in Observations \ {"CameraUnavailable"},
               \/ kind = "OwnerPresent" /\ OwnerPresent
               \/ kind = "NoFaceDetected" /\ NoFaceDetected
               \/ kind = "UnknownFace" /\ UnknownFace
               \/ kind = "PersonPresent" /\ PersonPresent
               \/ kind = "PersonAbsent" /\ PersonAbsent
        PROVE  PolicyInv'
    <3>1. Observe(kind)
      BY <2>3 DEF OwnerPresent, NoFaceDetected, UnknownFace, PersonPresent, PersonAbsent
    <3>2. Recorded(kind)'
      BY <1>1, <2>3, <3>1
    <3> QED
      BY <2>2, <3>1, <3>2
  <2> QED
    BY <2>1, <2>3 DEF Observations
<1>2. /\ streak'.length = More(LastStreak(kind)) /\ streak'.length \in Count
      /\ LastStreak(kind) \in Count
  BY <1>1, NewStreak
<1>3. NewPolicy \in Policy
  BY CountFacts DEF NewPolicy, Policy
<1>4. CASE kind = "OwnerPresent" /\ OwnerPresent
  <2>1. /\ policy' = [NewPolicy EXCEPT !.owner = streak'.length]
        /\ decision' = [interval |-> Stable(streak'.length), audit |-> FALSE, lock |-> "none"]
    BY <1>0, <1>2, <1>4 DEF OwnerPresent, Counted, NewPolicy
  <2>2. Stable(streak'.length) \in Intervals
    BY <1>2, CountFacts
  <2> QED
    BY <1>2, <1>3, <1>4, <2>1, <2>2 DEF Recorded, NewPolicy, Policy, Decision, Reasons
<1>5. CASE kind = "PersonPresent" /\ PersonPresent
  <2>1. /\ policy' = [NewPolicy EXCEPT !.present = streak'.length]
        /\ decision' = [interval |-> Stable(streak'.length), audit |-> FALSE, lock |-> "none"]
    BY <1>0, <1>2, <1>5 DEF PersonPresent, Counted, NewPolicy
  <2>2. Stable(streak'.length) \in Intervals
    BY <1>2, CountFacts
  <2> QED
    BY <1>2, <1>3, <1>5, <2>1, <2>2 DEF Recorded, NewPolicy, Policy, Decision, Reasons
<1>6. CASE kind = "NoFaceDetected" /\ NoFaceDetected
  <2>1. /\ policy' = [NewPolicy EXCEPT !.noFace = streak'.length]
        /\ decision' = [interval |-> "noFaceSuspect", audit |-> FALSE,
                        lock |-> Confirmed(streak'.length, NoFaceRequired, "ConsecutiveNoFace")]
    BY <1>0, <1>2, <1>6 DEF NoFaceDetected, Counted, NewPolicy
  <2> QED
    BY <1>2, <1>3, <1>6, <2>1, ConfirmedTyped
       DEF Recorded, NewPolicy, Policy, Decision, Reasons, Intervals
<1>7. CASE kind = "PersonAbsent" /\ PersonAbsent
  <2>1. /\ policy' = [NewPolicy EXCEPT !.absent = streak'.length]
        /\ decision' = [interval |-> "personSuspect", audit |-> FALSE,
                        lock |-> Confirmed(streak'.length, AbsentRequired, "PersonLeftFrame")]
    BY <1>0, <1>2, <1>7 DEF PersonAbsent, Counted, NewPolicy
  <2> QED
    BY <1>2, <1>3, <1>7, <2>1, ConfirmedTyped
       DEF Recorded, NewPolicy, Policy, Decision, Reasons, Intervals
<1>8. CASE kind = "UnknownFace" /\ UnknownFace
  <2>1. /\ policy' = [NewPolicy EXCEPT !.unknown = streak'.length, !.audited = TRUE]
        /\ decision' = [interval |-> "unknownSuspect", audit |-> ~policy.audited,
                        lock |-> Confirmed(streak'.length, UnknownRequired, "ConsecutiveUnknownFace")]
    BY <1>0, <1>2, <1>8 DEF UnknownFace, Counted, NewPolicy
  <2>2. policy.audited \in BOOLEAN /\ (~policy.audited <=> streak'.length = 1)
    <3>1. policy.audited \in BOOLEAN /\ (policy.audited <=> streak.kind = "UnknownFace")
      BY <1>0 DEF Counted, Policy
    <3>2. LastStreak("UnknownFace") = 0 <=> streak.kind # "UnknownFace"
      BY <1>0 DEF Counted, LastStreak
    <3>3. streak'.length = 1 <=> LastStreak("UnknownFace") = 0
      BY <1>2, <1>8, CountFacts
    <3> QED
      BY <3>1, <3>2, <3>3
  <2> QED
    BY <1>2, <1>3, <1>8, <2>1, <2>2, ConfirmedTyped
       DEF Recorded, NewPolicy, Policy, Decision, Reasons, Intervals
<1> QED
  BY <1>1, <1>4, <1>5, <1>6, <1>7, <1>8

LEMMA NewPolicyKeeps ==
  policy = NewPolicy /\ decision = NoDecision /\ streak = NoStreak => PolicyInv
BY CountFacts
   DEF NewPolicy, NoDecision, NoStreak, PolicyInv, PolicyTypeOK, Policy, Decision, Streak,
       Counted, LastStreak, LockIffConfirmed, RoundsFollowStreaks, AuditOncePerStreak,
       BackoffFollowsStreak, Observations, Reasons, Intervals

LEMMA PolicyUnchanged == ASSUME PolicyInv, UNCHANGED policyVars PROVE PolicyInv'
BY DEF policyVars, PolicyInv, PolicyTypeOK, Counted, LastStreak, LockIffConfirmed,
       RoundsFollowStreaks, AuditOncePerStreak, BackoffFollowsStreak

LEMMA NextKeepsPolicy == ASSUME PolicyInv, [Next]_vars PROVE PolicyInv'
<1>1. CASE Round
  BY <1>1, RoundKeeps DEF Round
<1>2. ASSUME NEW s \in Watchable, Starts(s) PROVE PolicyInv'
  <2>1. policy' = NewPolicy /\ decision' = NoDecision /\ streak' = NoStreak
    BY <1>2 DEF Starts
  <2>2. (policy = NewPolicy /\ decision = NoDecision /\ streak = NoStreak => PolicyInv)'
    BY NewPolicyKeeps, PTL
  <2> QED
    BY <2>1, <2>2 DEF NewPolicy, NoDecision, NoStreak
<1>3. CASE UNCHANGED policyVars
  BY <1>3, PolicyUnchanged
<1> QED
  BY <1>1, <1>2, <1>3
     DEF Next, vars, Tick, Input, Captures, RemovesOld, Renames, AgentEnds, AgentGoes,
         GateDecides, WaitEnds, StopSeen, ObservationFails

-----------------------------------------------------------------------------
(* The snapshots                                                           *)

LEMMA TickKeeps == ASSUME DesktopInv, Tick PROVE DesktopInv'
<1> USE DEF Quiet, Age, Older
<1>1. DesktopTypeOK /\ QuietIsNow /\ HeldIsTrue /\ FileIsTrue
  BY DEF DesktopInv
<1>2. QuietIsNow'
  BY <1>1 DEF Tick, DesktopTypeOK, QuietIsNow
<1>3. /\ quiet' \in [Sessions -> Quiet] /\ quietAgo' \in [Watchable -> Age]
      /\ monitor' = monitor
  BY <1>1 DEF Tick, DesktopTypeOK
<1>4. agent' \in [Sessions -> Agent] /\ HeldIsTrue'
  <2>1. \A s \in Sessions :
          /\ agent'[s] \in Agent
          /\ agent'[s].pc = agent[s].pc /\ agent'[s].quiet = agent[s].quiet
          /\ agent[s].pc \in {"writing", "replacing"} => agent'[s].age = Older(agent[s].age)
    BY <1>1 DEF Tick, DesktopTypeOK, Agent
  <2>2. agent' = [s \in Sessions |-> agent'[s]]
    BY DEF Tick
  <2>3. \A s \in Watchable : /\ quietAgo[s] \in Age /\ agent[s].age \in Age
                             /\ quietAgo'[s] = 0 \/ quietAgo'[s] = Older(quietAgo[s])
    BY <1>1 DEF Tick, DesktopTypeOK, Agent
  <2> QED
    BY <1>1, <2>1, <2>2, <2>3 DEF HeldIsTrue
<1>5. file' \in Snapshot \cup {None} /\ FileIsTrue'
  <2>1. CASE file = None
    BY <2>1 DEF Tick, FileIsTrue
  <2>2. CASE file # None
    <3>1. file \in Snapshot /\ file' = [file EXCEPT !.age = Older(@)]
      BY <1>1, <2>2 DEF Tick, DesktopTypeOK
    <3>2. /\ file' \in Snapshot /\ file'.session = file.session /\ file'.quiet = file.quiet
          /\ file'.age = Older(file.age) /\ file.age \in Age /\ file.session \in Sessions
      BY <3>1 DEF Snapshot
    <3>3. file.session \in Watchable =>
            /\ quietAgo[file.session] \in Age
            /\ \/ quietAgo'[file.session] = 0
               \/ quietAgo'[file.session] = Older(quietAgo[file.session])
      BY <1>1, <3>2 DEF Tick, DesktopTypeOK
    <3> QED
      BY <1>1, <2>2, <3>2, <3>3 DEF FileIsTrue
  <2> QED
    BY <2>1, <2>2
<1> QED
  BY <1>1, <1>2, <1>3, <1>4, <1>5 DEF DesktopInv, DesktopTypeOK

LEMMA InputKeeps == ASSUME DesktopInv, NEW s \in Sessions, Input(s) PROVE DesktopInv'
BY DEF DesktopInv, DesktopTypeOK, QuietIsNow, HeldIsTrue, FileIsTrue, Input, Quiet

LEMMA CapturesKeeps == ASSUME DesktopInv, NEW s \in Sessions, Captures(s) PROVE DesktopInv'
<1> USE DEF Quiet, Age
<1>1. agent' \in [Sessions -> Agent]
  BY DEF DesktopInv, DesktopTypeOK, Captures, Agent
<1>2. HeldIsTrue'
  BY DEF DesktopInv, DesktopTypeOK, QuietIsNow, HeldIsTrue, Captures
<1> QED
  BY <1>1, <1>2 DEF DesktopInv, DesktopTypeOK, QuietIsNow, FileIsTrue, Captures

LEMMA AgentGoesKeeps ==
  ASSUME DesktopInv, NEW s \in Sessions, NEW pc \in {"off", "asleep", "replacing"},
         AgentGoes(s, pc), pc = "replacing" => agent[s].pc = "writing"
  PROVE  /\ agent' \in [Sessions -> Agent] /\ HeldIsTrue'
         /\ quiet' = quiet /\ quietAgo' = quietAgo /\ monitor' = monitor
<1>1. CASE pc = "replacing"
  BY <1>1 DEF DesktopInv, DesktopTypeOK, HeldIsTrue, AgentGoes, Agent
<1>2. CASE pc # "replacing"
  BY <1>2 DEF DesktopInv, DesktopTypeOK, HeldIsTrue, AgentGoes, Agent, NoAgent, Quiet, Age
<1> QED
  BY <1>1, <1>2

LEMMA AgentKeeps ==
  ASSUME DesktopInv, NEW s \in Sessions, RemovesOld(s) \/ Renames(s) \/ AgentEnds(s)
  PROVE  DesktopInv'
<1>1. CASE RemovesOld(s)
  BY <1>1, AgentGoesKeeps DEF RemovesOld, DesktopInv, DesktopTypeOK, QuietIsNow, FileIsTrue
<1>2. CASE Renames(s)
  <2>1. agent[s] \in Agent /\ file' \in Snapshot
    BY <1>2 DEF Renames, DesktopInv, DesktopTypeOK, Agent, Snapshot
  <2>2. /\ agent' \in [Sessions -> Agent] /\ HeldIsTrue'
        /\ quiet' = quiet /\ quietAgo' = quietAgo /\ monitor' = monitor
    BY <1>2, AgentGoesKeeps DEF Renames
  <2>3. FileIsTrue'
    BY <1>2, <2>2 DEF Renames, DesktopInv, HeldIsTrue, FileIsTrue
  <2> QED
    BY <2>1, <2>2, <2>3 DEF DesktopInv, DesktopTypeOK, QuietIsNow
<1>3. CASE AgentEnds(s)
  BY <1>3, AgentGoesKeeps DEF AgentEnds, DesktopInv, DesktopTypeOK, QuietIsNow, FileIsTrue
<1> QED
  BY <1>1, <1>2, <1>3

LEMMA StartsKeeps == ASSUME DesktopInv, NEW s \in Watchable, Starts(s) PROVE DesktopInv'
<1>1. s \in Sessions /\ agent[s] \in Agent
  BY DEF DesktopInv, DesktopTypeOK
<1>2. monitor' \in Monitor
  BY <1>1 DEF Starts, Monitor
<1>3. agent' \in [Sessions -> Agent] /\ HeldIsTrue'
  BY <1>1 DEF Starts, DesktopInv, DesktopTypeOK, HeldIsTrue, Agent
<1> QED
  BY <1>2, <1>3 DEF Starts, DesktopInv, DesktopTypeOK, QuietIsNow, FileIsTrue

LEMMA MonitorKeeps ==
  ASSUME DesktopInv, GateDecides \/ WaitEnds \/ StopSeen \/ Round \/ ObservationFails
  PROVE  DesktopInv'
<1>1. monitor' \in Monitor
  BY DEF DesktopInv, DesktopTypeOK, GateDecides, WaitEnds, StopSeen, Round, ObservationFails,
         MonitorGoes, Monitor, NoMonitor
<1>2. UNCHANGED desktopVars
  BY DEF GateDecides, WaitEnds, StopSeen, Round, ObservationFails
<1> QED
  BY <1>1, <1>2 DEF desktopVars, DesktopInv, DesktopTypeOK, QuietIsNow, HeldIsTrue, FileIsTrue

LEMMA NextKeepsDesktop == ASSUME DesktopInv, [Next]_vars PROVE DesktopInv'
<1>1. CASE UNCHANGED vars
  BY <1>1 DEF vars, desktopVars, DesktopInv, DesktopTypeOK, QuietIsNow, HeldIsTrue, FileIsTrue
<1> QED
  BY <1>1, TickKeeps, InputKeeps, CapturesKeeps, AgentKeeps, StartsKeeps, MonitorKeeps DEF Next

-----------------------------------------------------------------------------

LEMMA InitHolds == Init => IInv
<1> SUFFICES ASSUME Init PROVE IInv
  OBVIOUS
<1>1. PolicyInv
  BY NewPolicyKeeps DEF Init, PolicyInit
<1>2. DesktopTypeOK
  BY DEF Init, DesktopTypeOK, Quiet, Age, Agent, NoAgent, NoMonitor, Monitor
<1>3. QuietIsNow /\ HeldIsTrue /\ FileIsTrue
  BY DEF Init, QuietIsNow, HeldIsTrue, FileIsTrue, NoAgent
<1> QED
  BY <1>1, <1>2, <1>3 DEF IInv, DesktopInv

\* The invariant behind the theorems: counters that follow the streak, snapshots
\* that are no younger than the quiet they report.
THEOREM InvariantHolds == Spec => []IInv
<1>1. IInv /\ [Next]_vars => IInv'
  BY NextKeepsPolicy, NextKeepsDesktop DEF IInv
<1> QED
  BY InitHolds, <1>1, PTL DEF Spec

\* Whatever the camera shows for however long, the counters saturate instead of
\* wrapping to values that would take a long streak for a new one.
THEOREM TypeCorrect == Spec => []TypeOK
<1>1. IInv => TypeOK
  BY DEF IInv, PolicyInv, DesktopInv, DesktopTypeOK, TypeOK
<1> QED
  BY <1>1, InvariantHolds, PTL

\* The session is locked on confirmed evidence and on nothing else, for any
\* thresholds and any number of rounds and restarts of the monitor.
THEOREM LocksOnlyConfirmed == Spec => []LockIffConfirmed
<1>1. IInv => LockIffConfirmed
  BY DEF IInv, PolicyInv
<1> QED
  BY <1>1, InvariantHolds, PTL

\* One photograph for a streak of strangers, and pauses that grow with presence.
THEOREM RoundsAlwaysFollowStreaks == Spec => []RoundsFollowStreaks
<1>1. IInv => RoundsFollowStreaks
  BY DEF IInv, PolicyInv
<1> QED
  BY <1>1, InvariantHolds, PTL

\* For any number of sessions with an agent each: no round begins on input that
\* is another session's or more recent than the age of a snapshot explains.
THEOREM SamplesAlwaysFollowQuiet == Spec => SamplesFollowQuiet
<1> DEFINE Begins == monitor.pc # "sampling" /\ monitor'.pc = "sampling"
<1>1. ASSUME IInv, [Next]_vars, Begins PROVE quietAgo[monitor.session] <= MaxAge
  <2>1. DesktopTypeOK /\ FileIsTrue
    BY <1>1 DEF IInv, DesktopInv
  <2>2. GateDecides /\ Allowed
    <3>1. monitor \in Monitor
      BY <2>1 DEF DesktopTypeOK
    <3>2. monitor' # monitor
      BY <1>1
    <3>3. CASE GateDecides
      BY <1>1, <3>1, <3>3 DEF GateDecides, MonitorGoes, Monitor
    <3>4. ~WaitEnds /\ ~StopSeen /\ ~ObservationFails /\ ~Round
      BY <1>1, <3>1 DEF WaitEnds, StopSeen, ObservationFails, Round, MonitorGoes, Monitor, NoMonitor
    <3>5. \A s \in Watchable : ~Starts(s)
      BY <1>1 DEF Starts
    <3>6. ~Tick /\ ~UNCHANGED vars
      BY <3>2 DEF Tick, vars
    <3>7. \A s \in Sessions :
            ~Input(s) /\ ~Captures(s) /\ ~RemovesOld(s) /\ ~Renames(s) /\ ~AgentEnds(s)
      BY <3>2 DEF Input, Captures, RemovesOld, Renames, AgentEnds, AgentGoes
    <3> QED
      BY <1>1, <3>3, <3>4, <3>5, <3>6, <3>7 DEF Next
  <2>3. /\ file \in Snapshot /\ file.session = monitor.session
        /\ file.age <= MaxAge /\ file.quiet >= QuietThreshold
    BY <2>1, <2>2 DEF Allowed, Available, DesktopTypeOK
  <2>4. file # None /\ file.session \in Watchable
    <3>1. file.session \in Sessions /\ monitor.session \in Watchable \cup {None}
      BY <2>1, <2>3 DEF Snapshot, DesktopTypeOK, Monitor
    <3> QED
      BY <2>2, <2>3, <3>1 DEF Allowed, Available
  <2>5. /\ file.quiet = QuietThreshold /\ file.age \in Nat
        /\ quietAgo[file.session] \in Nat
    BY <2>1, <2>3, <2>4 DEF Snapshot, Quiet, Age, DesktopTypeOK
  <2> QED
    BY <2>1, <2>3, <2>4, <2>5 DEF FileIsTrue
<1>2. IInv /\ [Next]_vars => [Begins => quietAgo[monitor.session] <= MaxAge]_vars
  BY <1>1
<1> QED
  BY InvariantHolds, <1>2, PTL DEF Spec, SamplesFollowQuiet
=============================================================================

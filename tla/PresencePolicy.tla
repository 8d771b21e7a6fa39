--------------------------- MODULE PresencePolicy ---------------------------
(***************************************************************************)
(* src/crates/win_service/src/presence_policy.rs under the loop of         *)
(* PresenceMonitor::run: from what the camera shows, round after round,    *)
(* when the next round is due, when an unknown face is photographed and    *)
(* when the session is locked.                                             *)
(*                                                                         *)
(* The code keeps six counters and flags that the kinds of observation     *)
(* increment and reset in different combinations; the properties compare   *)
(* them with the one streak that the observations end with.                *)
(***************************************************************************)
EXTENDS Integers

CONSTANTS
  NoFaceRequired,    \* presence_no_face_required_count (3)
  UnknownRequired,   \* presence_unknown_face_required_count (3)
  AbsentRequired,    \* presence_person_absent_required_frames (3)
  MaxCount           \* where the counters saturate (u32::MAX in the code)

ASSUME PolicyAssumption ==
  /\ {NoFaceRequired, UnknownRequired, AbsentRequired} \subseteq 1 .. MaxCount
  /\ MaxCount \in Nat \ {0, 1, 2}

VARIABLES
  policy,     \* the counters
  decision,   \* what the last observation led to
  streak      \* history: the last kind of evidence, how often in a row, and
              \* whether rounds without a usable picture came after it

policyVars == << policy, decision, streak >>

Observations == {"OwnerPresent", "NoFaceDetected", "UnknownFace",
                 "PersonPresent", "PersonAbsent", "CameraUnavailable"}

Intervals == {"initial", "second", "max", "noFaceSuspect", "unknownSuspect", "personSuspect"}

Reasons == {"none", "ConsecutiveNoFace", "ConsecutiveUnknownFace", "PersonLeftFrame"}

Count == 0 .. MaxCount

Policy == [owner : Count, noFace : Count, unknown : Count, audited : BOOLEAN,
           present : Count, absent : Count]
Decision == [interval : Intervals, audit : BOOLEAN, lock : Reasons]
Streak == [kind : Observations \cup {"none"}, length : Count, blind : BOOLEAN]

PolicyTypeOK == policy \in Policy /\ decision \in Decision /\ streak \in Streak

NewPolicy == [owner |-> 0, noFace |-> 0, unknown |-> 0, audited |-> FALSE,
              present |-> 0, absent |-> 0]

NoDecision == [interval |-> "initial", audit |-> FALSE, lock |-> "none"]
NoStreak == [kind |-> "none", length |-> 0, blind |-> FALSE]

PolicyInit == policy = NewPolicy /\ decision = NoDecision /\ streak = NoStreak

-----------------------------------------------------------------------------

\* saturating_add(1)
More(count) == IF count < MaxCount THEN count + 1 ELSE count

\* stable_owner_next_interval_ms, stable_person_next_interval_ms
Stable(count) == CASE count <= 1 -> "initial" [] count = 2 -> "second" [] OTHER -> "max"

Confirmed(count, required, reason) == IF count >= required THEN reason ELSE "none"

Observe(observation) ==
  /\ decision.lock = "none"            \* the monitor ends with a lock request
  /\ streak' = IF observation = "CameraUnavailable" THEN [streak EXCEPT !.blind = TRUE]
               ELSE [ kind   |-> observation,
                      length |-> IF observation = streak.kind THEN More(streak.length) ELSE 1,
                      blind  |-> FALSE ]

OwnerPresent ==
  /\ Observe("OwnerPresent")
  /\ policy' = [NewPolicy EXCEPT !.owner = More(policy.owner)]
  /\ decision' = [interval |-> Stable(policy'.owner), audit |-> FALSE, lock |-> "none"]

NoFaceDetected ==
  /\ Observe("NoFaceDetected")
  /\ policy' = [NewPolicy EXCEPT !.noFace = More(policy.noFace)]
  /\ decision' = [interval |-> "noFaceSuspect", audit |-> FALSE,
                  lock |-> Confirmed(policy'.noFace, NoFaceRequired, "ConsecutiveNoFace")]

\* Mutant: a new photograph for every round of a streak.
UnknownFace_AuditsAgain ==
  /\ Observe("UnknownFace")
  /\ policy' = [NewPolicy EXCEPT !.unknown = More(policy.unknown)]
  /\ decision' = [interval |-> "unknownSuspect", audit |-> ~policy.audited,
                  lock |-> Confirmed(policy'.unknown, UnknownRequired, "ConsecutiveUnknownFace")]

UnknownFace ==
  /\ Observe("UnknownFace")
  /\ policy' = [NewPolicy EXCEPT !.unknown = More(policy.unknown), !.audited = TRUE]
  /\ decision' = [interval |-> "unknownSuspect", audit |-> ~policy.audited,
                  lock |-> Confirmed(policy'.unknown, UnknownRequired, "ConsecutiveUnknownFace")]

PersonPresent ==
  /\ Observe("PersonPresent")
  /\ policy' = [NewPolicy EXCEPT !.present = More(policy.present)]
  /\ decision' = [interval |-> Stable(policy'.present), audit |-> FALSE, lock |-> "none"]

PersonAbsent ==
  /\ Observe("PersonAbsent")
  /\ policy' = [NewPolicy EXCEPT !.absent = More(policy.absent)]
  /\ decision' = [interval |-> "personSuspect", audit |-> FALSE,
                  lock |-> Confirmed(policy'.absent, AbsentRequired, "PersonLeftFrame")]

\* Mutant: a failed round counts as evidence of absence.
CameraUnavailable_Counts ==
  /\ Observe("CameraUnavailable")
  /\ policy' = [policy EXCEPT !.absent = More(@)]
  /\ decision' = [interval |-> "initial", audit |-> FALSE,
                  lock |-> Confirmed(policy'.absent, AbsentRequired, "PersonLeftFrame")]

CameraUnavailable ==
  /\ Observe("CameraUnavailable")
  /\ decision' = [interval |-> "initial", audit |-> FALSE, lock |-> "none"]
  /\ UNCHANGED policy

-----------------------------------------------------------------------------
(* The reference: what the last streak says                                *)

LastStreak(kind) == IF streak.kind = kind THEN streak.length ELSE 0

(* The session is locked exactly when the evidence ends with the required
   number of one and the same miss and the last round was not a blind one:
   PRESENCE_LOCK_FINAL_SAMPLING_POLICY, "three consecutive valid
   person-absent observations", failed rounds never counting. *)
LockIffConfirmed ==
  LET due(kind, required) == ~streak.blind /\ LastStreak(kind) >= required IN
  /\ decision.lock = "ConsecutiveNoFace" <=> due("NoFaceDetected", NoFaceRequired)
  /\ decision.lock = "ConsecutiveUnknownFace" <=> due("UnknownFace", UnknownRequired)
  /\ decision.lock = "PersonLeftFrame" <=> due("PersonAbsent", AbsentRequired)

\* A streak of unknown faces is photographed at its first face and never
\* again, however many blind rounds interrupt it.
AuditOncePerStreak ==
  decision.audit <=> ~streak.blind /\ LastStreak("UnknownFace") = 1

\* The pause after a round grows with the streak of presence (10 s, 30 s, 60 s)
\* and falls back to the first step after any other evidence.
BackoffFollowsStreak ==
  \A kind \in {"OwnerPresent", "PersonPresent"} :
    streak.kind = kind /\ ~streak.blind => decision.interval = Stable(streak.length)

(* What a round does besides locking follows the same streak: the one
   photograph of a streak of strangers, and the pause before the next round. *)
RoundsFollowStreaks == AuditOncePerStreak /\ BackoffFollowsStreak
=============================================================================

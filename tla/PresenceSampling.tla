-------------------------- MODULE PresenceSampling --------------------------
(***************************************************************************)
(* The presence monitor's rounds and the gate before them:                 *)
(* presence_monitor.rs and presence_sampling_gate.rs over the snapshots    *)
(* that a desktop input agent in each session writes (desktop_input_agent, *)
(* desktop_input) and the service validates (desktop_input_state.rs).      *)
(*                                                                         *)
(* All agents replace one file.  An agent lives on when its session is     *)
(* locked or another user's is in front; it ends when a capture or a write *)
(* fails, and only the next start of a monitor starts it again.            *)
(***************************************************************************)
EXTENDS PresencePolicy

CONSTANTS
  Sessions,          \* sessions with a desktop
  Watchable,         \* those a monitor may be started for
  QuietThreshold,    \* human_input_quiet_threshold_ms, in ticks
  MaxAge,            \* snapshot_max_age_ms, in ticks
  None

ASSUME SamplingAssumption ==
  /\ Watchable \subseteq Sessions
  /\ QuietThreshold \in Nat \ {0} /\ MaxAge \in Nat
  /\ None \notin Sessions

VARIABLES
  quiet,      \* session -> how long nobody touched keyboard or mouse
  agent,      \* session -> its agent and the snapshot it holds
  file,       \* desktop-input-state.json, or None
  monitor,    \* the monitor thread
  quietAgo    \* history: watchable session -> how long ago it was quiet long enough

desktopVars == << quiet, agent, file, quietAgo >>
vars == << policyVars, desktopVars, monitor >>

\* Beyond the limits that are compared with, durations need not be told apart.
Quiet == 0..QuietThreshold
Age == 0..(MaxAge + 1)

Agent == [pc : {"off", "asleep", "writing", "replacing"}, quiet : Quiet, age : Age]
Snapshot == [session : Sessions, quiet : Quiet, age : Age]
Monitor == [pc : {"off", "gate", "waiting", "sampling"}, session : Watchable \cup {None},
            detector : {"face", "person"}]

TypeOK ==
  /\ PolicyTypeOK
  /\ quiet \in [Sessions -> Quiet]
  /\ agent \in [Sessions -> Agent]
  /\ file \in Snapshot \cup {None}
  /\ monitor \in Monitor
  /\ quietAgo \in [Watchable -> Age]

NoAgent == [pc |-> "off", quiet |-> 0, age |-> 0]
NoMonitor == [pc |-> "off", session |-> None, detector |-> "face"]

\* Agents of before the service's start may be running.
Init ==
  /\ PolicyInit
  /\ quiet = [s \in Sessions |-> 0]
  /\ agent \in [Sessions -> {NoAgent, [NoAgent EXCEPT !.pc = "asleep"]}]
  /\ file = None
  /\ monitor = NoMonitor
  /\ quietAgo = [s \in Watchable |-> MaxAge + 1]

-----------------------------------------------------------------------------
(* Time and users                                                          *)

Older(age) == IF age <= MaxAge THEN age + 1 ELSE age

\* Snapshots age by the wall clock, which is assumed never to be set back.
Tick ==
  /\ quiet' = [s \in Sessions |-> IF quiet[s] < QuietThreshold THEN quiet[s] + 1 ELSE quiet[s]]
  /\ quietAgo' = [s \in Watchable |->
                   IF quiet'[s] = QuietThreshold THEN 0 ELSE Older(quietAgo[s])]
  /\ agent' = [s \in Sessions |->
                IF agent[s].pc \in {"writing", "replacing"}
                THEN [agent[s] EXCEPT !.age = Older(@)] ELSE agent[s]]
  /\ file' = IF file = None THEN None ELSE [file EXCEPT !.age = Older(@)]
  /\ UNCHANGED << policyVars, monitor >>

Input(s) ==
  /\ quiet[s] # 0
  /\ quiet' = [quiet EXCEPT ![s] = 0]
  /\ UNCHANGED << policyVars, agent, file, quietAgo, monitor >>

-----------------------------------------------------------------------------
(* The agent of a session                                                  *)

AgentGoes(s, pc) ==
  /\ agent' = [agent EXCEPT ![s] = IF pc \in {"off", "asleep"} THEN [NoAgent EXCEPT !.pc = pc]
                                   ELSE [@ EXCEPT !.pc = pc]]
  /\ UNCHANGED << policyVars, quiet, quietAgo, monitor >>

Captures(s) ==
  /\ agent[s].pc = "asleep"
  /\ agent' = [agent EXCEPT ![s] = [pc |-> "writing", quiet |-> quiet[s], age |-> 0]]
  /\ UNCHANGED << policyVars, quiet, quietAgo, file, monitor >>

\* replace_file: the old file goes first; that this fails does not matter.
RemovesOld(s) ==
  /\ agent[s].pc = "writing"
  /\ file' \in {file, None}
  /\ AgentGoes(s, "replacing")

\* Mutant: a snapshot is stamped with the time of its writing.
Renames_StampsWrite(s) ==
  /\ agent[s].pc = "replacing"
  /\ file' = [session |-> s, quiet |-> agent[s].quiet, age |-> 0]
  /\ AgentGoes(s, "asleep")

Renames(s) ==
  /\ agent[s].pc = "replacing"
  /\ file' = [session |-> s, quiet |-> agent[s].quiet, age |-> agent[s].age]
  /\ AgentGoes(s, "asleep")

\* A capture, a write or a rename fails, the user logs off, the process is killed.
AgentEnds(s) ==
  /\ agent[s].pc # "off"
  /\ UNCHANGED file
  /\ AgentGoes(s, "off")

-----------------------------------------------------------------------------
(* The monitor                                                             *)

\* start_presence_monitor_thread: a start that finds the agent's mutex taken
\* leaves that agent alone; whether an agent runs does not matter to it.
Starts(s) ==
  /\ monitor.pc = "off"
  /\ \E detector \in {"face", "person"} :
       monitor' = [pc |-> "gate", session |-> s, detector |-> detector]
  /\ \/ /\ agent[s].pc = "off"
        /\ agent' = [agent EXCEPT ![s].pc = "asleep"]
     \/ UNCHANGED agent
  /\ policy' = NewPolicy /\ decision' = NoDecision /\ streak' = NoStreak
  /\ UNCHANGED << quiet, quietAgo, file >>

MonitorGoes(pc) == monitor' = [monitor EXCEPT !.pc = pc]

\* read_validated_snapshot, validate_snapshot
Available == file # None /\ file.session = monitor.session /\ file.age <= MaxAge

Allowed == Available /\ file.quiet >= QuietThreshold

\* evaluate, and a wait of a recheck interval when sampling is skipped
GateDecides ==
  /\ monitor.pc = "gate"
  /\ MonitorGoes(IF Allowed THEN "sampling" ELSE "waiting")
  /\ UNCHANGED << policyVars, desktopVars >>

WaitEnds ==
  /\ monitor.pc = "waiting"
  /\ MonitorGoes("gate")
  /\ UNCHANGED << policyVars, desktopVars >>

\* The stop flag (PresenceService), seen before an evaluation or in a wait.
StopSeen ==
  /\ monitor.pc \in {"gate", "waiting"}
  /\ monitor' = NoMonitor
  /\ UNCHANGED << policyVars, desktopVars >>

\* What the round saw is recorded; a lock request ends the monitor, done or not.
Round ==
  /\ monitor.pc = "sampling"
  /\ \/ monitor.detector = "face" /\ (OwnerPresent \/ NoFaceDetected \/ UnknownFace)
     \/ monitor.detector = "person" /\ (PersonPresent \/ PersonAbsent)
     \/ CameraUnavailable
  /\ monitor' = IF decision'.lock = "none" THEN [monitor EXCEPT !.pc = "waiting"] ELSE NoMonitor
  /\ UNCHANGED desktopVars

\* The detector's error ends the monitor.
ObservationFails ==
  /\ monitor.pc = "sampling"
  /\ monitor' = NoMonitor
  /\ UNCHANGED << policyVars, desktopVars >>

Next ==
  \/ Tick
  \/ \E s \in Sessions : Input(s) \/ Captures(s) \/ RemovesOld(s) \/ Renames(s) \/ AgentEnds(s)
  \/ \E s \in Watchable : Starts(s)
  \/ GateDecides \/ WaitEnds \/ StopSeen \/ Round \/ ObservationFails

Spec == Init /\ [][Next]_vars

-----------------------------------------------------------------------------
(* Properties                                                              *)

(* The camera is opened only if the watched session itself had been left
   alone for the whole threshold at some time within the age a snapshot may
   have: whoever else's agent wrote the file, however long a write took, and
   though the agent may have ended long ago. *)
SamplesFollowQuiet ==
  [][monitor.pc # "sampling" /\ monitor'.pc = "sampling"
       => quietAgo[monitor.session] <= MaxAge]_vars
=============================================================================

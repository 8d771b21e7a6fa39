----------------------- MODULE PresenceService_proofs -----------------------
(***************************************************************************)
(* Proofs about PresenceService, for any number of sessions, monitor       *)
(* threads, authentication jobs and commands waiting.                      *)
(***************************************************************************)
EXTENDS PresenceService, TLAPS

USE PresenceAssumption

-----------------------------------------------------------------------------
(* The inductive invariant                                                 *)

\* The shutdown is sent once, past the limit at which the handler waits.
ChannelBound == Len(commands) <= MaxCommands + (IF host = "stopped" THEN 1 ELSE 0)

\* What the controller waits for is a thread; a handle names one it would stop.
ControllerSane ==
  /\ controller.pc = "joining" => controller.monitor \in Monitors
  /\ running_monitor # None => controller.pc # "joining"

\* The lease names its holder, and only one thread holds it.
Watching(m) == monitor[m].pc = "sampling"
Logging(j) == auth[j] = "holding"

OneHolder ==
  /\ \A m \in Monitors : Watching(m) => active_lease = "PresenceLock"
  /\ \A j \in AuthJobs : Logging(j) => active_lease = "LogonAuthentication"
  /\ \A m, n \in Monitors : Watching(m) /\ Watching(n) => m = n
  /\ \A j, k \in AuthJobs : Logging(j) /\ Logging(k) => j = k
  /\ active_lease = "PresenceLock" => \E m \in Monitors : Watching(m)
  /\ active_lease = "LogonAuthentication" => \E j \in AuthJobs : Logging(j)

IInv == TypeOK /\ ChannelBound /\ ControllerSane /\ OneHolder /\ MonitorsOwned

-----------------------------------------------------------------------------
(* Each part of the invariant looks at part of the state.                  *)

LEMMA HolderStays ==
  ASSUME TypeOK, OneHolder, UNCHANGED << active_lease, auth >>,
         \A m \in Monitors : Watching(m)' <=> Watching(m)
  PROVE  OneHolder'
BY DEF OneHolder, Logging

LEMMA CommandsTyped ==
  /\ [name |-> "Shutdown"] \in Commands
  /\ \A command \in Commands : << command >> \in Seq(Commands) /\ Len(<< command >>) = 1
<1>1. [name |-> "Shutdown"] \in [name : {"Shutdown"}]
  OBVIOUS
<1>2. \A command \in Commands : << command >> \in Seq(Commands) /\ Len(<< command >>) = 1
  OBVIOUS
<1> QED
  BY <1>1, <1>2 DEF Commands

LEMMA TypesStay ==
  ASSUME IInv,
         unlocked' \in [Sessions -> BOOLEAN], watched' \in [Sessions -> BOOLEAN],
         interface_state' \in InterfaceStates, active_lease' \in LeaseKinds \cup {None},
         handler' \in Seq(Commands) /\ Len(handler') <= 1,
         commands' \in Seq(Commands), ChannelBound',
         UNCHANGED << controller, running_monitor, monitor >>,
         auth' \in [AuthJobs -> {"idle", "waiting", "holding"}],
         presence_lock_enabled' \in BOOLEAN, host' \in {"receiving", "serving", "stopped"},
         shutdown_requested' \in BOOLEAN, waking' \in BOOLEAN
  PROVE  TypeOK' /\ ControllerSane' /\ MonitorsOwned'
<1>1. TypeOK'
  BY DEF IInv, TypeOK, ChannelBound
<1>2. ControllerSane' /\ MonitorsOwned'
  BY DEF IInv, ControllerSane, MonitorsOwned
<1> QED
  BY <1>1, <1>2

LEMMA InitEstablishes == Init => IInv
<1> SUFFICES ASSUME Init PROVE IInv
  OBVIOUS
<1>1. IdleMonitor \in MonitorState /\ IdleMonitor.pc = "idle"
  BY DEF IdleMonitor, MonitorState
<1>2. Receiving \in ControllerState /\ Receiving.pc = "recv"
  BY DEF Receiving, ControllerState
<1>3. << >> \in Seq(Commands) /\ Len(<< >>) = 0
  OBVIOUS
<1>4. TypeOK
  <2>1. /\ unlocked \in [Sessions -> BOOLEAN] /\ watched \in [Sessions -> BOOLEAN]
        /\ auth \in [AuthJobs -> {"idle", "waiting", "holding"}]
        /\ monitor \in [Monitors -> MonitorState]
    BY <1>1 DEF Init
  <2>2. handler \in Seq(Commands) /\ Len(handler) <= 1
        /\ commands \in Seq(Commands) /\ Len(commands) <= MaxCommands + 1
    BY <1>3 DEF Init
  <2> QED
    BY <1>2, <2>1, <2>2 DEF Init, TypeOK, InterfaceStates, LeaseKinds
<1>5. ChannelBound
  BY <1>3 DEF Init, ChannelBound
<1>6. ControllerSane /\ OneHolder /\ MonitorsOwned
  BY <1>1, <1>2 DEF Init, ControllerSane, OneHolder, Watching, Logging, MonitorsOwned, None
<1> QED
  BY <1>4, <1>5, <1>6 DEF IInv

-----------------------------------------------------------------------------
(* SCM's handler and the pipe host                                         *)

LEMMA SessionsKeep ==
  ASSUME IInv, NEW s \in Sessions, SessionUnlocks(s) \/ SessionLocks(s)
  PROVE  IInv'
<1>0. TypeOK /\ OneHolder /\ ChannelBound
  BY DEF IInv
<1>1. /\ [name |-> "Start", session |-> s] \in Commands
      /\ [name |-> "Stop", session |-> s] \in Commands
  BY DEF Commands
<1>2. handler' \in Seq(Commands) /\ Len(handler') <= 1
  <2>1. PICK command \in Commands : handler' = << command >>
    BY <1>1 DEF SessionUnlocks, SessionLocks
  <2> QED
    BY <2>1, CommandsTyped
<1>3. /\ UNCHANGED << active_lease, commands, controller, running_monitor, monitor, auth,
                      presence_lock_enabled, host, shutdown_requested, waking >>
      /\ interface_state' \in InterfaceStates
  BY DEF SessionUnlocks, SessionLocks, presenceVars, hostVars, InterfaceStates
<1>4. unlocked' \in [Sessions -> BOOLEAN] /\ watched' \in [Sessions -> BOOLEAN]
  BY <1>0 DEF SessionUnlocks, SessionLocks, TypeOK
<1>5. ChannelBound'
  BY <1>0, <1>3 DEF ChannelBound
<1>6. TypeOK' /\ ControllerSane' /\ MonitorsOwned'
  BY <1>0, <1>2, <1>3, <1>4, <1>5, TypesStay DEF TypeOK
<1>7. OneHolder'
  BY <1>0, <1>3, HolderStays DEF Watching
<1> QED
  BY <1>5, <1>6, <1>7 DEF IInv

LEMMA HandlerSendsKeeps == ASSUME IInv, HandlerSends PROVE IInv'
<1>0. /\ TypeOK /\ OneHolder /\ ChannelBound
      /\ commands \in Seq(Commands) /\ handler \in Seq(Commands) /\ handler # << >>
  BY DEF IInv, TypeOK, HandlerSends
<1>1. UNCHANGED << unlocked, watched, interface_state, active_lease, controller, running_monitor,
                   monitor, auth, presence_lock_enabled, host, shutdown_requested, waking >>
  BY DEF HandlerSends, cameraVars, hostVars
<1>2. commands' = commands \/ commands' = Append(commands, Head(handler))
  BY DEF HandlerSends
<1>3. Head(handler) \in Commands
  BY <1>0
<1>4. /\ commands' \in Seq(Commands)
      /\ Len(commands') \in {Len(commands), Len(commands) + 1} /\ Len(commands) \in Nat
      /\ Len(commands) < MaxCommands
  BY <1>0, <1>2, <1>3 DEF HandlerSends
<1>5. handler' \in Seq(Commands) /\ Len(handler') <= 1
  BY DEF HandlerSends
<1>6. ChannelBound'
  BY <1>1, <1>4 DEF ChannelBound
<1>7. TypeOK' /\ ControllerSane' /\ MonitorsOwned'
  BY <1>0, <1>1, <1>4, <1>5, <1>6, TypesStay DEF TypeOK
<1>8. OneHolder'
  BY <1>0, <1>1, HolderStays DEF Watching
<1> QED
  BY <1>6, <1>7, <1>8 DEF IInv

LEMMA HostKeeps ==
  ASSUME IInv, ServiceStops \/ ClientComes \/ WakeArrives \/ HostLoops \/ SettingsUpdated
  PROVE  IInv'
<1>0. TypeOK /\ OneHolder /\ ChannelBound /\ commands \in Seq(Commands) /\ Len(commands) \in Nat
  BY DEF IInv, TypeOK
<1>1. UNCHANGED << unlocked, watched, interface_state, active_lease, handler, controller,
                   running_monitor, monitor, auth >>
  BY DEF ServiceStops, ClientComes, WakeArrives, HostLoops, SettingsUpdated,
         scmVars, cameraVars, presenceVars
<1>2. /\ presence_lock_enabled' \in BOOLEAN /\ host' \in {"receiving", "serving", "stopped"}
      /\ shutdown_requested' \in BOOLEAN /\ waking' \in BOOLEAN
  BY <1>0 DEF ServiceStops, ClientComes, WakeArrives, HostLoops, SettingsUpdated, hostVars, TypeOK
<1>3. \/ commands' = commands /\ (host = "stopped" => host' = "stopped")
      \/ /\ commands' = Append(commands, [name |-> "Shutdown"])
         /\ host = "serving" /\ host' = "stopped"
  BY DEF ServiceStops, ClientComes, WakeArrives, HostLoops, SettingsUpdated, presenceVars, hostVars
<1>4. /\ commands' \in Seq(Commands)
      /\ \/ commands' = commands /\ (host = "stopped" => host' = "stopped")
         \/ Len(commands') = Len(commands) + 1 /\ host = "serving" /\ host' = "stopped"
  <2>1. CASE commands' = commands /\ (host = "stopped" => host' = "stopped")
    BY <1>0, <2>1
  <2>2. ASSUME NEW command \in Commands, commands' = Append(commands, command)
        PROVE  commands' \in Seq(Commands) /\ Len(commands') = Len(commands) + 1
    BY <1>0, <2>2
  <2> QED
    BY <1>3, <2>1, <2>2, CommandsTyped
<1>5. ChannelBound'
  BY <1>0, <1>4 DEF ChannelBound
<1>6. TypeOK' /\ ControllerSane' /\ MonitorsOwned'
  BY <1>0, <1>1, <1>2, <1>4, <1>5, TypesStay DEF TypeOK
<1>7. OneHolder'
  BY <1>0, <1>1, HolderStays DEF Watching
<1> QED
  BY <1>5, <1>6, <1>7 DEF IInv

-----------------------------------------------------------------------------
(* The controller                                                          *)

\* Taking a command out of the channel.
LEMMA ReceivesTyped ==
  ASSUME IInv, NEW name, Receives(name), UNCHANGED host
  PROVE  /\ commands' \in Seq(Commands) /\ ChannelBound'
         /\ Head(commands) \in Commands /\ controller.pc = "recv"
<1>1. commands \in Seq(Commands) /\ commands # << >> /\ commands' = Tail(commands) /\ controller.pc = "recv"
  BY DEF Receives, IInv, TypeOK
<1>2. /\ commands' \in Seq(Commands) /\ Head(commands) \in Commands
      /\ Len(commands') = Len(commands) - 1 /\ Len(commands) \in Nat
  BY <1>1
<1> QED
  BY <1>1, <1>2 DEF ChannelBound, IInv

\* The controller's steps touch neither the camera nor what is outside.
LEMMA ControllerTyped ==
  ASSUME IInv,
         UNCHANGED << unlocked, handler, interface_state, active_lease, auth, presence_lock_enabled,
                      host, shutdown_requested, waking >>,
         watched' \in [Sessions -> BOOLEAN], commands' \in Seq(Commands), ChannelBound',
         controller' \in ControllerState, running_monitor' \in Monitors \cup {None},
         monitor' \in [Monitors -> MonitorState]
  PROVE  TypeOK'
BY DEF IInv, TypeOK, ChannelBound

LEMMA StartIgnoredKeeps == ASSUME IInv, StartIgnored PROVE IInv'
<1>1. UNCHANGED << unlocked, watched, handler, interface_state, active_lease, controller,
                   running_monitor, monitor, auth, presence_lock_enabled, host, shutdown_requested, waking >>
  BY DEF StartIgnored, scmVars, cameraVars, hostVars
<1>2. commands' \in Seq(Commands) /\ ChannelBound'
  BY <1>1, ReceivesTyped DEF StartIgnored
<1>3. TypeOK' /\ ControllerSane' /\ MonitorsOwned'
  BY <1>1, <1>2, TypesStay DEF IInv, TypeOK
<1>4. OneHolder'
  BY <1>1, HolderStays DEF IInv, Watching
<1> QED
  BY <1>2, <1>3, <1>4 DEF IInv

\* The threads after one that has finished was joined.
Rest == [m \in Monitors |-> IF m = running_monitor THEN IdleMonitor ELSE monitor[m]]

LEMMA RestIdle ==
  ASSUME IInv, controller.pc = "recv", ~is_running(running_monitor)
  PROVE  /\ Rest \in [Monitors -> MonitorState]
         /\ \A m \in Monitors : Rest[m].pc = "idle" /\ ~Watching(m)
<1>1. monitor \in [Monitors -> MonitorState] /\ MonitorsOwned
  BY DEF IInv, TypeOK
<1>2. IdleMonitor \in MonitorState /\ IdleMonitor.pc = "idle"
  BY DEF IdleMonitor, MonitorState
<1>3. \A m \in Monitors : m # running_monitor => monitor[m].pc = "idle"
  BY <1>1 DEF MonitorsOwned
<1>4. Rest \in [Monitors -> MonitorState]
  BY <1>1, <1>2 DEF Rest
<1>5. \A m \in Monitors : Rest[m].pc = "idle"
  BY <1>2, <1>3 DEF Rest
<1>6. \A m \in Monitors : ~Watching(m)
  BY <1>1, <1>3 DEF Watching, is_running, MonitorsOwned
<1> QED
  BY <1>4, <1>5, <1>6

LEMMA StartsKeeps == ASSUME IInv, Starts PROVE IInv'
<1>0. /\ TypeOK /\ OneHolder /\ MonitorsOwned /\ ControllerSane
      /\ controller \in ControllerState /\ watched \in [Sessions -> BOOLEAN]
  BY DEF IInv, TypeOK
<1>1. UNCHANGED << unlocked, handler, interface_state, active_lease, controller, auth,
                   presence_lock_enabled, host, shutdown_requested, waking >>
  BY DEF Starts, cameraVars, hostVars
<1>2. /\ commands' \in Seq(Commands) /\ ChannelBound'
      /\ Head(commands) \in Commands /\ controller.pc = "recv" /\ Head(commands).name = "Start"
  BY <1>1, ReceivesTyped DEF Starts, Receives
<1>3. Head(commands).session \in Sessions
  BY <1>2 DEF Commands
<1> DEFINE s == Head(commands).session
<1>4. /\ Rest \in [Monitors -> MonitorState]
      /\ \A m \in Monitors : Rest[m].pc = "idle" /\ ~Watching(m)
  BY <1>2, RestIdle DEF Starts
<1>5. StartMonitor(s, Rest)
  BY DEF Starts, Rest
<1>6. watched' \in [Sessions -> BOOLEAN]
  BY <1>0, <1>3, <1>5 DEF StartMonitor
<1>7. CASE running_monitor' = None /\ monitor' = Rest
  <2>1. TypeOK'
    BY <1>0, <1>1, <1>2, <1>4, <1>6, <1>7, ControllerTyped
  <2>2. OneHolder'
    BY <1>0, <1>1, <1>4, <1>7, HolderStays DEF Watching
  <2>3. ControllerSane' /\ MonitorsOwned'
    BY <1>1, <1>2, <1>4, <1>7 DEF ControllerSane, MonitorsOwned
  <2> QED
    BY <1>2, <2>1, <2>2, <2>3 DEF IInv
<1>8. ASSUME NEW m \in Monitors, running_monitor' = m,
             monitor' = [Rest EXCEPT ![m] = [pc |-> "gate", session |-> s, stop |-> FALSE]]
      PROVE  IInv'
  <2>1. [pc |-> "gate", session |-> s, stop |-> FALSE] \in MonitorState
    BY <1>3 DEF MonitorState
  <2>2. /\ monitor' \in [Monitors -> MonitorState]
        /\ monitor'[m].pc = "gate" /\ ~monitor'[m].stop
        /\ \A n \in Monitors : n # m => monitor'[n] = Rest[n]
    BY <1>4, <1>8, <2>1
  <2>3. TypeOK'
    BY <1>0, <1>1, <1>2, <1>6, <1>8, <2>2, ControllerTyped
  <2>4. OneHolder'
    BY <1>0, <1>1, <1>4, <2>2, HolderStays DEF Watching
  <2>5. ControllerSane' /\ MonitorsOwned'
    BY <1>1, <1>2, <1>4, <1>8, <2>2 DEF ControllerSane, MonitorsOwned
  <2> QED
    BY <1>2, <2>3, <2>4, <2>5 DEF IInv
<1> QED
  BY <1>5, <1>7, <1>8 DEF StartMonitor

LEMMA JoinKeeps ==
  ASSUME IInv, NEW exit \in BOOLEAN, JoinMonitor(exit), controller.pc = "recv",
         UNCHANGED << unlocked, watched, handler, interface_state, active_lease, auth,
                      presence_lock_enabled, host, shutdown_requested, waking >>,
         commands' \in Seq(Commands), ChannelBound'
  PROVE  IInv'
<1>0. /\ TypeOK /\ OneHolder /\ MonitorsOwned /\ ControllerSane
      /\ monitor \in [Monitors -> MonitorState] /\ running_monitor \in Monitors \cup {None}
      /\ watched \in [Sessions -> BOOLEAN]
  BY DEF IInv, TypeOK
<1>1. CASE running_monitor = None
  <2>1. controller' \in ControllerState /\ controller'.pc \in {"recv", "done"}
    <3>1. Receiving \in ControllerState /\ [Receiving EXCEPT !.pc = "done"] \in ControllerState
          /\ Receiving.pc = "recv" /\ [Receiving EXCEPT !.pc = "done"].pc = "done"
      BY DEF Receiving, ControllerState
    <3> QED
      BY <1>1, <3>1 DEF JoinMonitor
  <2>2. UNCHANGED << running_monitor, monitor >>
    BY <1>1 DEF JoinMonitor
  <2>3. TypeOK'
    BY <1>0, <2>1, <2>2, ControllerTyped
  <2>4. OneHolder'
    BY <1>0, <2>2, HolderStays DEF Watching
  <2>5. ControllerSane' /\ MonitorsOwned'
    BY <1>0, <1>1, <2>1, <2>2 DEF ControllerSane, MonitorsOwned
  <2> QED
    BY <2>3, <2>4, <2>5 DEF IInv
<1>2. CASE running_monitor # None
  <2>1. /\ controller' = [pc |-> "joining", monitor |-> running_monitor, exit |-> exit]
        /\ monitor' = [monitor EXCEPT ![running_monitor].stop = TRUE]
        /\ running_monitor' = None /\ running_monitor \in Monitors
    BY <1>0, <1>2 DEF JoinMonitor
  <2>2. controller' \in ControllerState
    BY <2>1 DEF ControllerState
  <2>3. /\ monitor' \in [Monitors -> MonitorState]
        /\ \A m \in Monitors : monitor'[m].pc = monitor[m].pc
        /\ monitor'[running_monitor].stop
        /\ \A m \in Monitors : m # running_monitor => monitor[m].pc = "idle"
    BY <1>0, <2>1 DEF MonitorState, MonitorsOwned
  <2>4. TypeOK'
    BY <1>0, <2>1, <2>2, <2>3, ControllerTyped
  <2>5. OneHolder'
    BY <1>0, <2>3, HolderStays DEF Watching
  <2>6. ControllerSane' /\ MonitorsOwned'
    BY <2>1, <2>3 DEF ControllerSane, MonitorsOwned
  <2> QED
    BY <2>4, <2>5, <2>6 DEF IInv
<1> QED
  BY <1>1, <1>2

LEMMA StopsKeep == ASSUME IInv, Stops \/ ShutsDown PROVE IInv'
<1>1. UNCHANGED << unlocked, watched, handler, interface_state, active_lease, auth,
                   presence_lock_enabled, host, shutdown_requested, waking >>
  BY DEF Stops, ShutsDown, scmVars, cameraVars, hostVars
<1>2. \E name \in {"Stop", "Shutdown"} : Receives(name)
  BY DEF Stops, ShutsDown
<1>3. commands' \in Seq(Commands) /\ ChannelBound' /\ controller.pc = "recv"
  BY <1>1, <1>2, ReceivesTyped
<1>4. \E exit \in BOOLEAN : JoinMonitor(exit)
  BY DEF Stops, ShutsDown
<1> QED
  BY <1>1, <1>3, <1>4, JoinKeeps

LEMMA MonitorJoinedKeeps == ASSUME IInv, MonitorJoined PROVE IInv'
<1>0. /\ TypeOK /\ OneHolder /\ MonitorsOwned /\ ControllerSane /\ ChannelBound
      /\ monitor \in [Monitors -> MonitorState] /\ controller.pc = "joining"
      /\ commands \in Seq(Commands) /\ watched \in [Sessions -> BOOLEAN]
      /\ running_monitor \in Monitors \cup {None}
  BY DEF IInv, TypeOK, MonitorJoined
<1> DEFINE m == controller.monitor
<1>1. m \in Monitors /\ running_monitor = None
  BY <1>0 DEF ControllerSane, MonitorsOwned
<1>2. /\ monitor' = [monitor EXCEPT ![m] = IdleMonitor] /\ monitor[m].pc = "finished"
      /\ UNCHANGED << unlocked, watched, handler, interface_state, active_lease, commands,
                      running_monitor, auth, presence_lock_enabled, host, shutdown_requested, waking >>
  BY DEF MonitorJoined, scmVars, cameraVars, hostVars
<1>3. IdleMonitor \in MonitorState /\ IdleMonitor.pc = "idle"
  BY DEF IdleMonitor, MonitorState
<1>4. /\ monitor' \in [Monitors -> MonitorState] /\ monitor'[m].pc = "idle"
      /\ \A n \in Monitors : n # m => monitor'[n] = monitor[n]
  BY <1>0, <1>1, <1>2, <1>3
<1>5. controller' \in ControllerState /\ controller'.pc \in {"recv", "done"}
  BY DEF MonitorJoined, Receiving, ControllerState
<1>6. ChannelBound'
  BY <1>0, <1>2 DEF ChannelBound
<1>7. TypeOK'
  BY <1>0, <1>2, <1>4, <1>5, <1>6, ControllerTyped
<1>8. OneHolder'
  BY <1>0, <1>2, <1>4, HolderStays DEF Watching
<1>9. ControllerSane' /\ MonitorsOwned'
  BY <1>0, <1>1, <1>2, <1>4, <1>5 DEF ControllerSane, MonitorsOwned
<1> QED
  BY <1>6, <1>7, <1>8, <1>9 DEF IInv

-----------------------------------------------------------------------------
(* Monitor threads                                                         *)

\* A thread that has begun goes from one step to another, the flag untouched.
LEMMA MonitorGoesKeeps ==
  ASSUME IInv, NEW m \in Monitors, monitor[m].pc # "idle",
         NEW pc \in {"gate", "opening", "sampling", "locking", "finished"}, MonitorGoes(m, pc),
         UNCHANGED interface_state, active_lease' \in LeaseKinds \cup {None}
  PROVE  /\ TypeOK' /\ ChannelBound' /\ ControllerSane' /\ MonitorsOwned'
         /\ monitor'[m].pc = pc /\ \A n \in Monitors : n # m => monitor'[n] = monitor[n]
<1>0. monitor \in [Monitors -> MonitorState] /\ monitor[m] \in MonitorState
  BY DEF IInv, TypeOK
<1>1. /\ monitor' = [monitor EXCEPT ![m].pc = pc]
      /\ UNCHANGED << unlocked, handler, watched, commands, controller, running_monitor, auth,
                      presence_lock_enabled, host, shutdown_requested, waking >>
  BY DEF MonitorGoes, scmVars, hostVars
<1>2. /\ monitor'[m] \in MonitorState /\ monitor'[m].pc = pc /\ monitor'[m].stop = monitor[m].stop
      /\ \A n \in Monitors : n # m => monitor'[n] = monitor[n]
      /\ monitor' \in [Monitors -> MonitorState]
  BY <1>0, <1>1 DEF MonitorState
<1>3. ChannelBound' /\ ControllerSane'
  BY <1>1 DEF IInv, ChannelBound, ControllerSane
<1>4. TypeOK'
  BY <1>1, <1>2 DEF IInv, TypeOK
<1>5. MonitorsOwned'
  BY <1>1, <1>2 DEF IInv, MonitorsOwned
<1> QED
  BY <1>2, <1>3, <1>4, <1>5

LEMMA QuietMonitorKeeps ==
  ASSUME IInv, NEW m \in Monitors,
         MonitorStops(m) \/ GateOpens(m) \/ LeaseRefused(m) \/ LockRequested(m)
  PROVE  IInv'
<1>1. UNCHANGED << interface_state, active_lease >> /\ active_lease \in LeaseKinds \cup {None}
  BY DEF MonitorStops, GateOpens, LeaseRefused, LockRequested, cameraVars, IInv, TypeOK
<1>2. PICK pc \in {"gate", "opening", "locking", "finished"} : MonitorGoes(m, pc)
  BY DEF MonitorStops, GateOpens, LeaseRefused, LockRequested
<1>3. monitor[m].pc \in {"gate", "opening", "locking"}
  BY DEF MonitorStops, GateOpens, LeaseRefused, LockRequested
<1>4. /\ TypeOK' /\ ChannelBound' /\ ControllerSane' /\ MonitorsOwned'
      /\ monitor'[m].pc = pc /\ \A n \in Monitors : n # m => monitor'[n] = monitor[n]
  BY <1>1, <1>2, <1>3, MonitorGoesKeeps
<1>5. UNCHANGED auth
  BY <1>2 DEF MonitorGoes
<1>6. OneHolder'
  BY <1>1, <1>2, <1>3, <1>4, <1>5, HolderStays DEF IInv, Watching
<1> QED
  BY <1>4, <1>6 DEF IInv

LEMMA SampleStartsKeeps == ASSUME IInv, NEW m \in Monitors, SampleStarts(m) PROVE IInv'
<1>1. /\ monitor[m].pc = "opening" /\ active_lease = None /\ active_lease' = "PresenceLock"
      /\ MonitorGoes(m, "sampling") /\ UNCHANGED << interface_state, auth >>
  BY DEF SampleStarts, Acquire, MonitorGoes
<1>2. /\ TypeOK' /\ ChannelBound' /\ ControllerSane' /\ MonitorsOwned'
      /\ monitor'[m].pc = "sampling" /\ \A n \in Monitors : n # m => monitor'[n] = monitor[n]
  BY <1>1, MonitorGoesKeeps DEF LeaseKinds
<1>3. (\A n \in Monitors : ~Watching(n)) /\ \A j \in AuthJobs : ~Logging(j)
  BY <1>1 DEF IInv, OneHolder, None
<1>4. OneHolder'
  BY <1>1, <1>2, <1>3 DEF OneHolder, Watching, Logging
<1> QED
  BY <1>2, <1>4 DEF IInv

LEMMA SampleEndsKeeps == ASSUME IInv, NEW m \in Monitors, SampleEnds(m) PROVE IInv'
<1>1. /\ monitor[m].pc = "sampling" /\ Release("PresenceLock") /\ UNCHANGED interface_state
      /\ \E next \in {"gate", "locking", "finished"} : MonitorGoes(m, next)
  BY DEF SampleEnds
<1>2. active_lease = "PresenceLock" /\ \A n \in Monitors : Watching(n) => n = m
  BY <1>1 DEF IInv, OneHolder, Watching
<1>3. active_lease' = None
  BY <1>1, <1>2 DEF Release
<1>4. PICK next \in {"gate", "locking", "finished"} : MonitorGoes(m, next)
  BY <1>1
<1>5. /\ TypeOK' /\ ChannelBound' /\ ControllerSane' /\ MonitorsOwned'
      /\ monitor'[m].pc = next /\ \A n \in Monitors : n # m => monitor'[n] = monitor[n]
  BY <1>1, <1>3, <1>4, MonitorGoesKeeps DEF LeaseKinds
<1>6. UNCHANGED auth /\ \A j \in AuthJobs : ~Logging(j)
  BY <1>2, <1>4 DEF MonitorGoes, IInv, OneHolder
<1>7. OneHolder'
  BY <1>2, <1>3, <1>4, <1>5, <1>6 DEF OneHolder, Watching, Logging, None
<1> QED
  BY <1>5, <1>7 DEF IInv

-----------------------------------------------------------------------------
(* Authentication jobs                                                     *)

LEMMA AuthGoesKeeps ==
  ASSUME IInv, NEW j \in AuthJobs, NEW state \in {"idle", "waiting", "holding"}, AuthGoes(j, state),
         active_lease' \in LeaseKinds \cup {None}
  PROVE  /\ TypeOK' /\ ChannelBound' /\ ControllerSane' /\ MonitorsOwned' /\ UNCHANGED monitor
         /\ auth'[j] = state /\ \A k \in AuthJobs : k # j => auth'[k] = auth[k]
<1>0. auth \in [AuthJobs -> {"idle", "waiting", "holding"}] /\ commands \in Seq(Commands)
  BY DEF IInv, TypeOK
<1>1. /\ auth' = [auth EXCEPT ![j] = state]
      /\ UNCHANGED << unlocked, handler, watched, interface_state, commands, controller,
                      running_monitor, monitor, presence_lock_enabled, host, shutdown_requested, waking >>
  BY DEF AuthGoes, scmVars, presenceVars, hostVars
<1>2. /\ auth' \in [AuthJobs -> {"idle", "waiting", "holding"}]
      /\ auth'[j] = state /\ \A k \in AuthJobs : k # j => auth'[k] = auth[k]
  BY <1>0, <1>1
<1>3. ChannelBound'
  BY <1>1 DEF IInv, ChannelBound
<1>4. TypeOK' /\ ControllerSane' /\ MonitorsOwned'
  BY <1>1, <1>2, <1>3, TypesStay DEF IInv, TypeOK
<1> QED
  BY <1>1, <1>2, <1>3, <1>4

LEMMA AuthKeeps == ASSUME IInv, NEW j \in AuthJobs, AuthStep(j) PROVE IInv'
<1>0. OneHolder /\ active_lease \in LeaseKinds \cup {None}
  BY DEF IInv, TypeOK
<1>1. CASE AuthWantsCamera(j) \/ AuthDenied(j)
  <2>1. auth[j] # "holding" /\ UNCHANGED active_lease
    BY <1>1 DEF AuthWantsCamera, AuthDenied
  <2>2. PICK state \in {"idle", "waiting"} : AuthGoes(j, state)
    BY <1>1 DEF AuthWantsCamera, AuthDenied
  <2>3. /\ TypeOK' /\ ChannelBound' /\ ControllerSane' /\ MonitorsOwned' /\ UNCHANGED monitor
        /\ auth'[j] = state /\ \A k \in AuthJobs : k # j => auth'[k] = auth[k]
    BY <1>0, <2>1, <2>2, AuthGoesKeeps
  <2>4. \A k \in AuthJobs : Logging(k)' <=> Logging(k)
    BY <2>1, <2>2, <2>3 DEF Logging
  <2>5. OneHolder'
    BY <1>0, <2>1, <2>3, <2>4 DEF OneHolder, Watching
  <2> QED
    BY <2>3, <2>5 DEF IInv
<1>2. CASE AuthAcquires(j)
  <2>1. active_lease = None /\ active_lease' = "LogonAuthentication" /\ AuthGoes(j, "holding")
    BY <1>2 DEF AuthAcquires, Acquire
  <2>2. /\ TypeOK' /\ ChannelBound' /\ ControllerSane' /\ MonitorsOwned' /\ UNCHANGED monitor
        /\ auth'[j] = "holding" /\ \A k \in AuthJobs : k # j => auth'[k] = auth[k]
    BY <2>1, AuthGoesKeeps DEF LeaseKinds
  <2>3. (\A m \in Monitors : ~Watching(m)) /\ \A k \in AuthJobs : ~Logging(k)
    BY <1>0, <2>1 DEF OneHolder, None
  <2>4. OneHolder'
    BY <2>1, <2>2, <2>3 DEF OneHolder, Watching, Logging
  <2> QED
    BY <2>2, <2>4 DEF IInv
<1>3. CASE AuthReleases(j)
  <2>1. auth[j] = "holding" /\ Release("LogonAuthentication") /\ AuthGoes(j, "idle")
    BY <1>3 DEF AuthReleases
  <2>2. /\ active_lease = "LogonAuthentication" /\ \A k \in AuthJobs : Logging(k) => k = j
        /\ \A m \in Monitors : ~Watching(m)
    BY <1>0, <2>1 DEF OneHolder, Logging
  <2>3. active_lease' = None
    BY <2>1, <2>2 DEF Release
  <2>4. /\ TypeOK' /\ ChannelBound' /\ ControllerSane' /\ MonitorsOwned' /\ UNCHANGED monitor
        /\ auth'[j] = "idle" /\ \A k \in AuthJobs : k # j => auth'[k] = auth[k]
    BY <2>1, <2>3, AuthGoesKeeps
  <2>5. OneHolder'
    BY <2>2, <2>3, <2>4 DEF OneHolder, Watching, Logging, None
  <2> QED
    BY <2>4, <2>5 DEF IInv
<1> QED
  BY <1>1, <1>2, <1>3 DEF AuthStep

-----------------------------------------------------------------------------
(* Theorems                                                                *)

LEMMA StepKeeps == ASSUME IInv, [Next]_vars PROVE IInv'
<1>1. CASE ControllerStep
  BY <1>1, StartIgnoredKeeps, StartsKeeps, StopsKeep, MonitorJoinedKeeps DEF ControllerStep
<1>2. ASSUME NEW m \in Monitors, MonitorStep(m) PROVE IInv'
  BY <1>2, QuietMonitorKeeps, SampleStartsKeeps, SampleEndsKeeps DEF MonitorStep
<1>3. CASE UNCHANGED vars
  <2>1. UNCHANGED << unlocked, interface_state, active_lease, handler, commands, controller,
                     running_monitor, monitor, auth, presence_lock_enabled, host,
                     shutdown_requested, waking, watched >>
    BY <1>3 DEF vars
  <2>2. ChannelBound'
    BY <2>1 DEF IInv, ChannelBound
  <2>3. TypeOK' /\ ControllerSane' /\ MonitorsOwned'
    BY <2>1, <2>2, TypesStay DEF IInv, TypeOK
  <2>4. OneHolder'
    BY <2>1, HolderStays DEF IInv, Watching
  <2> QED
    BY <2>2, <2>3, <2>4 DEF IInv
<1> QED
  BY <1>1, <1>2, <1>3, SessionsKeep, HandlerSendsKeeps, HostKeeps, AuthKeeps DEF Next

\* IInv is inductive and holds of every state the desktop side can be in.
THEOREM InvariantHolds == Spec => []IInv
<1>1. Init => IInv
  BY InitEstablishes
<1>2. IInv /\ [Next]_vars => IInv'
  BY StepKeeps
<1> QED
  BY <1>1, <1>2, PTL DEF Spec

\* Every variable keeps its type; the channel holds one command more than the
\* handler waits for, the shutdown.
THEOREM TypeCorrect == Spec => []TypeOK
<1>1. IInv => TypeOK
  BY DEF IInv
<1> QED
  BY <1>1, InvariantHolds, PTL

\* For any number of monitors and authentication jobs, through locks and unlocks
\* at any moment: the camera has one user, the one its lease names.
THEOREM LeaseAlwaysConsistent == Spec => []LeaseConsistent
<1>1. IInv => LeaseConsistent
  <2> SUFFICES ASSUME IInv PROVE LeaseConsistent
    OBVIOUS
  <2>1. OneHolder /\ active_lease \in {"PresenceLock", "LogonAuthentication", None}
    BY DEF IInv, TypeOK, LeaseKinds
  <2>2. CASE active_lease = None
    BY <2>1, <2>2 DEF LeaseConsistent, OneHolder, Watching, Logging, None
  <2>3. CASE active_lease = "PresenceLock"
    <3>1. PICK m \in Monitors : Watching(m)
      BY <2>1, <2>3 DEF OneHolder
    <3>2. {n \in Monitors : monitor[n].pc = "sampling"} = {m}
      BY <2>1, <3>1 DEF OneHolder, Watching
    <3>3. {j \in AuthJobs : auth[j] = "holding"} = {}
      BY <2>1, <2>3 DEF OneHolder, Logging
    <3> QED
      BY <2>3, <3>2, <3>3 DEF LeaseConsistent, None
  <2>4. CASE active_lease = "LogonAuthentication"
    <3>1. PICK j \in AuthJobs : Logging(j)
      BY <2>1, <2>4 DEF OneHolder
    <3>2. {k \in AuthJobs : auth[k] = "holding"} = {j}
      BY <2>1, <3>1 DEF OneHolder, Logging
    <3>3. {m \in Monitors : monitor[m].pc = "sampling"} = {}
      BY <2>1, <2>4 DEF OneHolder, Watching
    <3> QED
      BY <2>4, <3>2, <3>3 DEF LeaseConsistent, None
  <2> QED
    BY <2>1, <2>2, <2>3, <2>4
<1> QED
  BY <1>1, InvariantHolds, PTL

\* For any number of sessions and threads, however starts fail: no monitor
\* escapes the controller.
THEOREM MonitorsAlwaysOwned == Spec => []MonitorsOwned
<1>1. IInv => MonitorsOwned
  BY DEF IInv
<1> QED
  BY <1>1, InvariantHolds, PTL
-----------------------------------------------------------------------------
(* Desktops nobody uses                                                    *)

\* A command that stops a monitor is in the channel behind the i-th one, or the
\* handler is about to send it.
StopBehind(i) ==
  \/ handler # << >> /\ handler[1].name = "Stop"
  \/ \E j \in DOMAIN commands : i < j /\ commands[j].name = "Stop"

IsStart(command, s) == command.name = "Start" /\ command.session = s

\* The last that is said of a desktop nobody uses is to stop.
LastIsStop ==
  controller.pc # "done" =>
    \A s \in Sessions : ~unlocked[s] =>
      /\ handler # << >> => ~IsStart(handler[1], s)
      /\ \A i \in DOMAIN commands : IsStart(commands[i], s) => StopBehind(i)

\* A thread watches a desktop, and none is left once the controller has gone.
Housed ==
  /\ \A m \in Monitors : monitor[m].pc # "idle" => monitor[m].session \in Sessions
  /\ controller.pc = "done" => running_monitor = None

Unwatched ==
  \A m \in Monitors :
    monitor[m].pc # "idle" /\ ~unlocked[monitor[m].session] => monitor[m].stop \/ StopBehind(0)

DesktopInv == LastIsStop /\ Housed /\ Unwatched

LEMMA ChannelTyped ==
  ASSUME TypeOK
  PROVE  /\ Len(commands) \in Nat /\ DOMAIN commands = 1..Len(commands)
         /\ \A i \in DOMAIN commands : commands[i] \in Commands
         /\ handler # << >> => Head(handler) = handler[1] /\ handler[1] \in Commands
<1>1. commands \in Seq(Commands) /\ handler \in Seq(Commands) /\ Len(handler) <= 1
  BY DEF TypeOK
<1>2. Len(commands) \in Nat /\ DOMAIN commands = 1..Len(commands)
      /\ \A i \in DOMAIN commands : commands[i] \in Commands
  BY <1>1
<1>3. ASSUME handler # << >>
      PROVE  Head(handler) = handler[1] /\ handler[1] \in Commands
  BY <1>1, <1>3
<1> QED
  BY <1>2, <1>3

\* No step of a monitor, and nothing outside the channel, changes what is to be
\* said about a desktop.
LEMMA OthersLeaveDesktops ==
  ASSUME TypeOK, DesktopInv, UNCHANGED << unlocked, handler, commands, controller, running_monitor >>,
         \A m \in Monitors : monitor'[m].pc # "idle" =>
           monitor[m].pc # "idle" /\ monitor'[m].session = monitor[m].session /\ monitor'[m].stop = monitor[m].stop
  PROVE  DesktopInv'
<1>1. LastIsStop' /\ (\A i : StopBehind(i)' <=> StopBehind(i))
  BY DEF DesktopInv, LastIsStop, StopBehind
<1>2. Housed' /\ Unwatched'
  BY <1>1 DEF DesktopInv, Housed, Unwatched
<1> QED
  BY <1>1, <1>2 DEF DesktopInv

LEMMA SessionsLeaveDesktops ==
  ASSUME IInv, DesktopInv, NEW s \in Sessions, SessionUnlocks(s) \/ SessionLocks(s)
  PROVE  DesktopInv'
<1>0. UNCHANGED << commands, controller, running_monitor, monitor >> /\ handler = << >>
      /\ unlocked \in [Sessions -> BOOLEAN]
  BY DEF SessionUnlocks, SessionLocks, presenceVars, IInv, TypeOK
<1>1. Housed'
  BY <1>0 DEF DesktopInv, Housed
<1>2. CASE SessionUnlocks(s)
  <2>1. /\ unlocked' = [unlocked EXCEPT ![s] = TRUE]
        /\ handler'[1].name = "Start" /\ handler'[1].session = s
    BY <1>2 DEF SessionUnlocks
  <2>2. \A i : StopBehind(i)' <=> StopBehind(i)
    BY <1>0, <2>1 DEF StopBehind
  <2>3. unlocked'[s] /\ \A t \in Sessions : t # s => unlocked'[t] = unlocked[t]
    BY <1>0, <2>1
  <2>4. LastIsStop'
    BY <1>0, <2>1, <2>2, <2>3 DEF DesktopInv, LastIsStop, IsStart
  <2>5. Unwatched'
    BY <1>0, <2>2, <2>3 DEF DesktopInv, Unwatched, Housed
  <2> QED
    BY <1>1, <2>4, <2>5 DEF DesktopInv
<1>3. CASE SessionLocks(s)
  <2>1. handler' # << >> /\ handler'[1].name = "Stop"
    BY <1>3 DEF SessionLocks
  <2>2. \A i : StopBehind(i)'
    BY <2>1 DEF StopBehind
  <2> QED
    BY <1>1, <2>1, <2>2 DEF DesktopInv, LastIsStop, Unwatched, IsStart
<1> QED
  BY <1>2, <1>3

\* A command more, of whoever sends it.
LEMMA SentTyped ==
  ASSUME TypeOK, NEW command, commands' = Append(commands, command)
  PROVE  /\ DOMAIN commands' = DOMAIN commands \cup {Len(commands) + 1}
         /\ \A i \in DOMAIN commands : commands'[i] = commands[i] /\ i < Len(commands) + 1 /\ 0 < i
         /\ commands'[Len(commands) + 1] = command /\ Len(commands) \in Nat
<1>1. commands \in Seq(Commands)
  BY DEF TypeOK
<1>2. Len(commands) \in Nat /\ DOMAIN commands = 1..Len(commands) /\ DOMAIN commands' = 1..(Len(commands) + 1)
      /\ (\A i \in DOMAIN commands : commands'[i] = commands[i]) /\ commands'[Len(commands) + 1] = command
  BY <1>1
<1> QED
  BY <1>2

LEMMA HandlerLeavesDesktops == ASSUME IInv, DesktopInv, HandlerSends PROVE DesktopInv'
<1>0. TypeOK /\ UNCHANGED << unlocked, controller, running_monitor, monitor >>
      /\ handler # << >> /\ handler' = << >> /\ Head(handler) = handler[1]
  BY ChannelTyped DEF HandlerSends, IInv
<1>1. Housed'
  BY <1>0 DEF DesktopInv, Housed
<1>2. CASE controller.pc = "done"
  <2>1. \A m \in Monitors : monitor[m].pc = "idle"
    BY <1>2 DEF DesktopInv, Housed, IInv, MonitorsOwned, None
  <2> QED
    BY <1>0, <1>1, <1>2, <2>1 DEF DesktopInv, LastIsStop, Unwatched
<1>3. CASE controller.pc # "done"
  <2> DEFINE last == Len(commands) + 1
  <2>1. commands' = Append(commands, handler[1])
    BY <1>0, <1>3 DEF HandlerSends
  <2>2. /\ DOMAIN commands' = DOMAIN commands \cup {last}
        /\ \A i \in DOMAIN commands : commands'[i] = commands[i] /\ i < last /\ 0 < i
        /\ commands'[last] = handler[1] /\ 0 < last
    BY <1>0, <2>1, SentTyped
  <2> HIDE DEF last
  <2>3. \A i : i < last /\ StopBehind(i) => StopBehind(i)'
    BY <2>2 DEF StopBehind
  <2>4. LastIsStop'
    BY <1>0, <1>3, <2>2, <2>3 DEF DesktopInv, LastIsStop
  <2>5. Unwatched'
    BY <1>0, <2>2, <2>3 DEF DesktopInv, Unwatched
  <2> QED
    BY <1>1, <2>4, <2>5 DEF DesktopInv
<1> QED
  BY <1>2, <1>3

LEMMA HostLeavesDesktops == ASSUME IInv, DesktopInv, HostLoops PROVE DesktopInv'
<1>0. TypeOK /\ UNCHANGED << unlocked, handler, controller, running_monitor, monitor >>
  BY DEF HostLoops, IInv, scmVars
<1>1. CASE commands' = commands
  BY <1>0, <1>1, OthersLeaveDesktops
<1>2. CASE commands' = Append(commands, [name |-> "Shutdown"])
  <2> DEFINE last == Len(commands) + 1
  <2>1. /\ DOMAIN commands' = DOMAIN commands \cup {last}
        /\ \A i \in DOMAIN commands : commands'[i] = commands[i] /\ i < last /\ 0 < i
        /\ commands'[last].name = "Shutdown"
    BY <1>0, <1>2, SentTyped
  <2> HIDE DEF last
  <2>2. \A i : StopBehind(i) => StopBehind(i)'
    BY <1>0, <2>1 DEF StopBehind
  <2>3. LastIsStop'
    BY <1>0, <2>1, <2>2 DEF DesktopInv, LastIsStop, IsStart
  <2>4. Housed' /\ Unwatched'
    BY <1>0, <2>2 DEF DesktopInv, Housed, Unwatched
  <2> QED
    BY <2>3, <2>4 DEF DesktopInv
<1> QED
  BY <1>1, <1>2 DEF HostLoops

\* The first command is received: what was behind another one still is.
LEMMA ReceivedRest ==
  ASSUME IInv, DesktopInv, NEW name, Receives(name), UNCHANGED << unlocked, handler >>
  PROVE  /\ LastIsStop'
         /\ StopBehind(1) => StopBehind(0)'
         /\ name # "Stop" /\ StopBehind(0) => StopBehind(0)'
         /\ 1 \in DOMAIN commands /\ Head(commands) = commands[1]
<1>1. commands \in Seq(Commands) /\ commands # << >> /\ commands' = Tail(commands) /\ Head(commands).name = name
      /\ controller.pc = "recv"
  BY DEF Receives, IInv, TypeOK
<1>2. /\ DOMAIN commands = 1..Len(commands) /\ Len(commands) \in Nat \ {0}
      /\ DOMAIN commands' = 1..(Len(commands) - 1) /\ Head(commands) = commands[1]
      /\ \A i \in DOMAIN commands' : commands'[i] = commands[i + 1]
  BY <1>1
<1>3. ASSUME NEW i \in Nat, StopBehind(i + 1) PROVE StopBehind(i)'
  <2>1. CASE handler # << >> /\ handler[1].name = "Stop"
    BY <2>1 DEF StopBehind
  <2>2. ASSUME NEW j \in DOMAIN commands, i + 1 < j, commands[j].name = "Stop" PROVE StopBehind(i)'
    <3>1. j - 1 \in DOMAIN commands' /\ i < j - 1 /\ (j - 1) + 1 = j
      BY <1>2, <2>2
    <3> QED
      BY <1>2, <2>2, <3>1 DEF StopBehind
  <2> QED
    BY <1>3, <2>1, <2>2 DEF StopBehind
<1>4. name # "Stop" /\ StopBehind(0) => StopBehind(1)
  BY <1>1, <1>2 DEF StopBehind
<1>5. LastIsStop'
  <2> SUFFICES ASSUME NEW s \in Sessions, ~unlocked[s]
               PROVE  /\ handler # << >> => ~IsStart(handler[1], s)
                      /\ \A i \in DOMAIN commands' : IsStart(commands'[i], s) => StopBehind(i)'
    BY DEF LastIsStop, IsStart
  <2>1. /\ handler # << >> => ~IsStart(handler[1], s)
        /\ \A i \in DOMAIN commands : IsStart(commands[i], s) => StopBehind(i)
    BY <1>1 DEF DesktopInv, LastIsStop
  <2>2. \A i \in DOMAIN commands' : i \in Nat /\ i + 1 \in DOMAIN commands /\ commands'[i] = commands[i + 1]
    BY <1>2
  <2> QED
    BY <1>3, <2>1, <2>2
<1> QED
  BY <1>2, <1>3, <1>4, <1>5

LEMMA StartsLeaveDesktops == ASSUME IInv, DesktopInv, StartIgnored \/ Starts PROVE DesktopInv'
<1>0. /\ Receives("Start") /\ UNCHANGED << unlocked, handler, controller >>
      /\ controller.pc = "recv" /\ MonitorsOwned /\ TypeOK
  BY DEF StartIgnored, Starts, Receives, scmVars, IInv
<1>1. /\ LastIsStop' /\ (StopBehind(1) => StopBehind(0)') /\ (StopBehind(0) => StopBehind(0)')
      /\ 1 \in DOMAIN commands /\ Head(commands) = commands[1] /\ commands[1].name = "Start"
  BY <1>0, ReceivedRest DEF Receives
<1>2. CASE StartIgnored
  <2>1. UNCHANGED << running_monitor, monitor >>
    BY <1>2 DEF StartIgnored
  <2> QED
    BY <1>0, <1>1, <2>1 DEF DesktopInv, Housed, Unwatched
<1>3. CASE Starts
  <2> DEFINE s == Head(commands).session
  <2>1. /\ Rest \in [Monitors -> MonitorState]
        /\ \A m \in Monitors : Rest[m].pc = "idle"
    BY <1>0, <1>3, RestIdle DEF Starts
  <2>2. StartMonitor(s, Rest)
    BY <1>3 DEF Starts, Rest
  <2>3. s \in Sessions
    BY <1>0, <1>1, ChannelTyped DEF Commands
  <2>4. unlocked[s] \/ StopBehind(0)'
    BY <1>0, <1>1, <2>3 DEF DesktopInv, LastIsStop, IsStart
  <2>5. CASE monitor' = Rest
    BY <1>0, <1>1, <2>1, <2>5 DEF DesktopInv, Housed, Unwatched
  <2>6. ASSUME NEW m \in Monitors,
               monitor' = [Rest EXCEPT ![m] = [pc |-> "gate", session |-> s, stop |-> FALSE]]
        PROVE  DesktopInv'
    <3>1. monitor'[m].session = s /\ \A n \in Monitors : n # m => monitor'[n].pc = "idle"
      BY <2>1, <2>6
    <3> HIDE DEF s
    <3>2. Housed'
      BY <1>0, <2>3, <3>1 DEF Housed
    <3>3. Unwatched'
      BY <1>0, <2>4, <3>1 DEF Unwatched
    <3> QED
      BY <1>1, <3>2, <3>3 DEF DesktopInv
  <2> QED
    BY <2>2, <2>5, <2>6 DEF StartMonitor
<1> QED
  BY <1>2, <1>3

LEMMA StopsLeaveDesktops == ASSUME IInv, IInv', DesktopInv, Stops \/ ShutsDown PROVE DesktopInv'
<1>0. /\ \E name : Receives(name)
      /\ UNCHANGED << unlocked, handler >> /\ \E exit : JoinMonitor(exit)
      /\ controller.pc = "recv" /\ MonitorsOwned /\ MonitorsOwned' /\ monitor \in [Monitors -> MonitorState]
      /\ running_monitor \in Monitors \cup {None} /\ None \notin Monitors
  BY DEF Stops, ShutsDown, Receives, scmVars, IInv, TypeOK
<1>1. LastIsStop'
  BY <1>0, ReceivedRest
<1>2. running_monitor' = None /\ \A m \in Monitors : monitor'[m].pc # "idle" => monitor'[m].stop
  BY <1>0 DEF JoinMonitor, MonitorsOwned
<1>3. \A m \in Monitors : monitor'[m].pc = monitor[m].pc /\ monitor'[m].session = monitor[m].session
  BY <1>0 DEF JoinMonitor, MonitorState
<1>4. Housed' /\ Unwatched'
  BY <1>2, <1>3 DEF DesktopInv, Housed, Unwatched
<1> QED
  BY <1>1, <1>4 DEF DesktopInv

LEMMA JoinLeavesDesktops == ASSUME IInv, IInv', DesktopInv, MonitorJoined PROVE DesktopInv'
<1>0. /\ UNCHANGED << unlocked, handler, commands, running_monitor >> /\ running_monitor = None
      /\ controller.pc = "joining" /\ controller.monitor \in Monitors
      /\ MonitorsOwned' /\ running_monitor' = None /\ controller'.pc # "joining"
  BY DEF MonitorJoined, scmVars, IInv, ControllerSane, MonitorsOwned, Receiving
<1>1. LastIsStop'
  BY <1>0 DEF DesktopInv, LastIsStop, StopBehind
<1>2. \A m \in Monitors : monitor'[m].pc = "idle"
  BY <1>0 DEF MonitorsOwned
<1>3. Housed' /\ Unwatched'
  BY <1>0, <1>2 DEF Housed, Unwatched
<1> QED
  BY <1>1, <1>3 DEF DesktopInv

LEMMA MonitorsLeaveDesktops ==
  ASSUME IInv, DesktopInv, NEW m \in Monitors, MonitorStep(m)
  PROVE  DesktopInv'
<1>0. TypeOK /\ monitor \in [Monitors -> MonitorState] /\ monitor[m].pc # "idle"
  BY DEF IInv, TypeOK, MonitorStep, MonitorStops, GateOpens, SampleStarts, LeaseRefused, SampleEnds, LockRequested
<1>1. \E pc : MonitorGoes(m, pc)
  BY DEF MonitorStep, MonitorStops, GateOpens, SampleStarts, LeaseRefused, SampleEnds, LockRequested
<1>2. UNCHANGED << unlocked, handler, commands, controller, running_monitor >>
  BY <1>1 DEF MonitorGoes, scmVars
<1>3. \A n \in Monitors : monitor'[n].session = monitor[n].session /\ monitor'[n].stop = monitor[n].stop
                          /\ (n # m => monitor'[n].pc = monitor[n].pc)
  BY <1>0, <1>1 DEF MonitorGoes, MonitorState
<1> QED
  BY <1>0, <1>2, <1>3, OthersLeaveDesktops

\* What of the rest of the system is left alone.
LEMMA RestLeavesDesktops ==
  ASSUME IInv, DesktopInv,
         \/ ServiceStops \/ ClientComes \/ WakeArrives \/ SettingsUpdated
         \/ (\E j \in AuthJobs : AuthStep(j)) \/ UNCHANGED vars
  PROVE  DesktopInv'
<1>1. UNCHANGED << unlocked, handler, commands, controller, running_monitor, monitor >>
  <2>1. CASE ServiceStops \/ ClientComes \/ WakeArrives \/ SettingsUpdated
    BY <2>1 DEF ServiceStops, ClientComes, WakeArrives, SettingsUpdated, scmVars, presenceVars
  <2>2. ASSUME NEW j \in AuthJobs, AuthStep(j)
        PROVE  UNCHANGED << unlocked, handler, commands, controller, running_monitor, monitor >>
    BY <2>2 DEF AuthStep, AuthWantsCamera, AuthAcquires, AuthDenied, AuthReleases, AuthGoes,
                scmVars, presenceVars
  <2>3. CASE UNCHANGED vars
    BY <2>3 DEF vars
  <2> QED
    BY <2>1, <2>2, <2>3
<1> QED
  BY <1>1, OthersLeaveDesktops DEF IInv

\* For any number of desktops, in use at once or by turns, whatever waits in the
\* channel and whatever the controller waits for: no monitor watches a desktop
\* that was locked unless its stop is on the way.
THEOREM LockedAlwaysUnwatched == Spec => []LockedIsUnwatched
<1>1. Init => DesktopInv
  <2> SUFFICES ASSUME Init PROVE DesktopInv
    OBVIOUS
  <2>1. commands = << >> /\ handler = << >> /\ running_monitor = None
        /\ \A m \in Monitors : monitor[m].pc = "idle"
    BY DEF Init, IdleMonitor
  <2>2. DOMAIN commands = {}
    BY <2>1
  <2> QED
    BY <2>1, <2>2 DEF DesktopInv, LastIsStop, Housed, Unwatched
<1>2. IInv /\ IInv' /\ DesktopInv /\ [Next]_vars => DesktopInv'
  BY SessionsLeaveDesktops, HandlerLeavesDesktops, HostLeavesDesktops, StartsLeaveDesktops,
     StopsLeaveDesktops, JoinLeavesDesktops, MonitorsLeaveDesktops, RestLeavesDesktops
     DEF Next, ControllerStep
<1>3. IInv /\ DesktopInv => LockedIsUnwatched
  <2> SUFFICES ASSUME IInv, DesktopInv, StopBehind(0) PROVE StopComes
    BY DEF DesktopInv, Unwatched, LockedIsUnwatched
  <2> DEFINE all == commands \o handler
  <2>1. /\ commands \in Seq(Commands) /\ handler \in Seq(Commands)
        /\ DOMAIN commands = 1..Len(commands) /\ Len(commands) \in Nat
    BY DEF IInv, TypeOK
  <2>2. ASSUME NEW j \in DOMAIN commands PROVE j \in DOMAIN all /\ all[j] = commands[j]
    BY <2>1
  <2>3. ASSUME handler # << >>
        PROVE  Len(commands) + 1 \in DOMAIN all /\ all[Len(commands) + 1] = handler[1]
    BY <2>1, <2>3
  <2> QED
    BY <2>2, <2>3 DEF StopBehind, StopComes
<1> QED
  BY <1>1, <1>2, <1>3, InvariantHolds, PTL DEF Spec
=============================================================================

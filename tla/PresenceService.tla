--------------------------- MODULE PresenceService ---------------------------
(***************************************************************************)
(* The desktop side of the service (src/crates/win_service): session-change*)
(* events, the presence controller and its monitor threads, the pipe host  *)
(* that ends them all, and the camera lease they contend for with logon    *)
(* authentication.                                                         *)
(*                                                                         *)
(* Threads: SCM's control handler, the controller (one command at a time,  *)
(* from an mpsc channel), a monitor per accepted start, authentication     *)
(* jobs, the pipe host.  What a monitor makes of a picture is the subject  *)
(* of PresencePolicy; here a round may end in any decision.                *)
(***************************************************************************)
EXTENDS Integers, Sequences

CONSTANTS
  Sessions,         \* user sessions
  Monitors,         \* monitor threads that may exist together
  AuthJobs,         \* authentication jobs that may want the camera together
  MaxCommands,      \* bound: commands waiting in the channel
  StartFaults,      \* may a start fail (configuration unreadable, no thread)?
  SettingsChange,   \* may presence_lock_enabled change while the service runs?
  TakeTurns         \* is one desktop at a time in use, as on a client Windows?

None == "none"

ASSUME PresenceAssumption ==
  /\ None \notin Monitors
  /\ MaxCommands \in Nat \ {0}
  /\ StartFaults \in BOOLEAN
  /\ SettingsChange \in BOOLEAN
  /\ TakeTurns \in BOOLEAN

VARIABLES
  unlocked,               \* external: session -> is its desktop in use?
  interface_state,        \* camera_runtime: CameraRuntimeState
  active_lease,
  handler,                \* the command SCM's handler is about to send
  commands,               \* the channel to the controller
  controller,             \* what the controller does
  running_monitor,        \* its handle: a thread, or None
  monitor,                \* thread -> its control state
  auth,                   \* authentication job -> its hold on the camera
  presence_lock_enabled,  \* the persisted setting
  host,                   \* the pipe host
  shutdown_requested,
  waking,                 \* the thread that pokes the pipe host is under way
  watched                 \* history: session -> a start was tried since its unlock

cameraVars   == << interface_state, active_lease >>
scmVars      == << unlocked, handler, watched >>
presenceVars == << commands, controller, running_monitor, monitor >>
hostVars     == << host, shutdown_requested, waking >>
vars == << unlocked, interface_state, active_lease, handler, commands, controller,
           running_monitor, monitor, auth, presence_lock_enabled, host,
           shutdown_requested, waking, watched >>

-----------------------------------------------------------------------------

InterfaceStates == {"Unknown", "LockedOrLogon", "DesktopUnlocked"}
LeaseKinds      == {"LogonAuthentication", "PresenceLock"}

Commands ==
  [name : {"Start", "Stop"}, session : Sessions] \cup [name : {"Shutdown"}]

MonitorState ==
  [ pc : {"idle", "gate", "opening", "sampling", "locking", "finished"},
    session : Sessions \cup {None},
    stop : BOOLEAN ]

IdleMonitor == [pc |-> "idle", session |-> None, stop |-> FALSE]

\* joining: stop_and_join on a monitor; exit: the controller returns after it.
ControllerState ==
  [ pc : {"recv", "joining", "done"}, monitor : Monitors \cup {None}, exit : BOOLEAN ]

Receiving == [pc |-> "recv", monitor |-> None, exit |-> FALSE]

TypeOK ==
  /\ unlocked \in [Sessions -> BOOLEAN]
  /\ interface_state \in InterfaceStates
  /\ active_lease \in LeaseKinds \cup {None}
  /\ handler \in Seq(Commands) /\ Len(handler) <= 1
  /\ commands \in Seq(Commands) /\ Len(commands) <= MaxCommands + 1
  /\ controller \in ControllerState
  /\ running_monitor \in Monitors \cup {None}
  /\ monitor \in [Monitors -> MonitorState]
  /\ auth \in [AuthJobs -> {"idle", "waiting", "holding"}]
  /\ presence_lock_enabled \in BOOLEAN
  /\ host \in {"receiving", "serving", "stopped"}
  /\ shutdown_requested \in BOOLEAN
  /\ waking \in BOOLEAN
  /\ watched \in [Sessions -> BOOLEAN]

Init ==
  /\ unlocked = [s \in Sessions |-> FALSE]
  /\ interface_state = "Unknown"
  /\ active_lease = None
  /\ handler = << >>
  /\ commands = << >>
  /\ controller = Receiving
  /\ running_monitor = None
  /\ monitor = [m \in Monitors |-> IdleMonitor]
  /\ auth = [j \in AuthJobs |-> "idle"]
  /\ presence_lock_enabled \in BOOLEAN
  /\ host = "receiving"
  /\ shutdown_requested = FALSE
  /\ waking = FALSE
  /\ watched = [s \in Sessions |-> FALSE]

-----------------------------------------------------------------------------
(* camera_runtime                                                          *)

lease_allowed(kind) ==
  CASE kind = "LogonAuthentication" -> interface_state \in {"LockedOrLogon", "Unknown"}
    [] kind = "PresenceLock"        -> interface_state = "DesktopUnlocked"

\* Mutant: the active lease is overwritten.
Acquire_Overwrites(kind) == lease_allowed(kind) /\ active_lease' = kind

\* try_acquire_camera_lease succeeds
Acquire(kind) ==
  /\ lease_allowed(kind)
  /\ active_lease = None
  /\ active_lease' = kind

\* Mutant: the lease is not given back.
Release_Never(kind) == UNCHANGED active_lease

\* Drop for CameraLease
Release(kind) ==
  active_lease' = IF active_lease = kind THEN None ELSE active_lease

-----------------------------------------------------------------------------
(* SCM's control handler: the interface state first, then the command      *)

\* SessionLogon, SessionUnlock, one of which may follow the other.
SessionUnlocks(s) ==
  /\ handler = << >>
  /\ TakeTurns => \A other \in Sessions \ {s} : ~unlocked[other]
  /\ unlocked' = [unlocked EXCEPT ![s] = TRUE]
  /\ watched' = [watched EXCEPT ![s] = @ /\ unlocked[s]]
  /\ interface_state' = "DesktopUnlocked"
  /\ handler' = << [name |-> "Start", session |-> s] >>
  /\ UNCHANGED << active_lease, presenceVars, auth, presence_lock_enabled, hostVars >>

\* SessionLock, SessionLogoff, ConsoleDisconnect, RemoteDisconnect and
\* SessionTerminate, one of which may follow another.
SessionLocks(s) ==
  /\ handler = << >>
  /\ unlocked' = [unlocked EXCEPT ![s] = FALSE]
  /\ interface_state' = "LockedOrLogon"
  /\ handler' = << [name |-> "Stop", session |-> s] >>
  /\ UNCHANGED << watched, active_lease, presenceVars, auth, presence_lock_enabled, hostVars >>

\* Mutant: a command overtakes what waits in the channel.
HandlerSends_Ahead ==
  /\ handler # << >>
  /\ Len(commands) < MaxCommands
  /\ commands' = IF controller.pc = "done" THEN commands ELSE handler \o commands
  /\ handler' = << >>
  /\ UNCHANGED << unlocked, watched, cameraVars, controller, running_monitor, monitor, auth,
                  presence_lock_enabled, hostVars >>

\* The send fails once the controller has gone.
HandlerSends ==
  /\ handler # << >>
  /\ Len(commands) < MaxCommands
  /\ commands' = IF controller.pc = "done" THEN commands ELSE Append(commands, Head(handler))
  /\ handler' = << >>
  /\ UNCHANGED << unlocked, watched, cameraVars, controller, running_monitor, monitor, auth,
                  presence_lock_enabled, hostVars >>

\* Stop
ServiceStops ==
  /\ ~shutdown_requested
  /\ shutdown_requested' = TRUE
  /\ waking' = TRUE
  /\ UNCHANGED << scmVars, cameraVars, presenceVars, auth, presence_lock_enabled, host >>

-----------------------------------------------------------------------------
(* run_named_pipe_until_shutdown                                           *)

\* A client's request, or a connection that fails: either way the loop goes on.
ClientComes ==
  /\ host = "receiving"
  /\ host' = "serving"
  /\ UNCHANGED << scmVars, cameraVars, presenceVars, auth, presence_lock_enabled,
                  shutdown_requested, waking >>

\* wake_named_pipe_host's HealthCheck, or its failure against a busy pipe.
WakeArrives ==
  /\ waking
  /\ waking' = FALSE
  /\ \/ host = "receiving" /\ host' = "serving"
     \/ host # "receiving" /\ UNCHANGED host
  /\ UNCHANGED << scmVars, cameraVars, presenceVars, auth, presence_lock_enabled,
                  shutdown_requested >>

\* The end of a request: back to the loop's head, or out and tell the controller.
HostLoops ==
  /\ host = "serving"
  /\ IF shutdown_requested
     THEN /\ host' = "stopped"
          /\ commands' = Append(commands, [name |-> "Shutdown"])
     ELSE /\ host' = "receiving"
          /\ UNCHANGED commands
  /\ UNCHANGED << scmVars, cameraVars, controller, running_monitor, monitor, auth,
                  presence_lock_enabled, shutdown_requested, waking >>

\* UpdateSettings stores the setting; nothing is sent to the controller.
SettingsUpdated ==
  /\ SettingsChange
  /\ host = "serving"
  /\ presence_lock_enabled' = ~presence_lock_enabled
  /\ UNCHANGED << scmVars, cameraVars, presenceVars, auth, hostVars >>

-----------------------------------------------------------------------------
(* run_presence_service_controller                                         *)

\* start_presence_monitor_thread, once the threads are as in rest
StartMonitor(s, rest) ==
  /\ watched' = [watched EXCEPT ![s] = TRUE]
  /\ \/ /\ ~presence_lock_enabled \/ StartFaults
        /\ running_monitor' = None
        /\ monitor' = rest
     \/ /\ presence_lock_enabled
        /\ \E m \in Monitors :
             /\ rest[m].pc = "idle"
             /\ running_monitor' = m
             /\ monitor' = [rest EXCEPT ![m] = [pc |-> "gate", session |-> s, stop |-> FALSE]]

\* RunningPresenceMonitor::is_running
is_running(m) == m # None /\ monitor[m].pc # "finished"

Receives(name) ==
  /\ controller.pc = "recv"
  /\ commands # << >>
  /\ Head(commands).name = name
  /\ commands' = Tail(commands)

\* StartForUserSession while a monitor thread has not finished
StartIgnored ==
  /\ Receives("Start")
  /\ is_running(running_monitor)
  /\ UNCHANGED << scmVars, cameraVars, controller, running_monitor, monitor, auth,
                  presence_lock_enabled, hostVars >>

\* Mutant: a running monitor is no reason not to start another.
Starts_Regardless ==
  /\ Receives("Start")
  /\ StartMonitor(Head(commands).session, monitor)
  /\ UNCHANGED << unlocked, handler, cameraVars, controller, auth, presence_lock_enabled, hostVars >>

\* ... or when none runs; one that has finished is joined at once.
Starts ==
  /\ Receives("Start")
  /\ ~is_running(running_monitor)
  /\ StartMonitor(Head(commands).session,
                  [m \in Monitors |-> IF m = running_monitor THEN IdleMonitor ELSE monitor[m]])
  /\ UNCHANGED << unlocked, handler, cameraVars, controller, auth, presence_lock_enabled, hostVars >>

\* stop_and_join: the flag, then the wait.
JoinMonitor(exit) ==
  IF running_monitor = None
  THEN /\ controller' = IF exit THEN [Receiving EXCEPT !.pc = "done"] ELSE Receiving
       /\ UNCHANGED << running_monitor, monitor >>
  ELSE /\ controller' = [pc |-> "joining", monitor |-> running_monitor, exit |-> exit]
       /\ monitor' = [monitor EXCEPT ![running_monitor].stop = TRUE]
       /\ running_monitor' = None

\* Mutant: the flag is set, the monitor is neither taken nor joined.
Stops_WithoutJoin ==
  /\ Receives("Stop")
  /\ monitor' = [m \in Monitors |->
                   [monitor[m] EXCEPT !.stop = @ \/ m = running_monitor]]
  /\ UNCHANGED << scmVars, cameraVars, controller, running_monitor, auth,
                  presence_lock_enabled, hostVars >>

\* StopForUserSession: the session named does not matter.
Stops ==
  /\ Receives("Stop")
  /\ JoinMonitor(FALSE)
  /\ UNCHANGED << scmVars, cameraVars, auth, presence_lock_enabled, hostVars >>

\* Mutant: the controller leaves its monitor behind.
ShutsDown_WithoutStop ==
  /\ Receives("Shutdown")
  /\ controller' = [Receiving EXCEPT !.pc = "done"]
  /\ UNCHANGED << scmVars, cameraVars, running_monitor, monitor, auth,
                  presence_lock_enabled, hostVars >>

ShutsDown ==
  /\ Receives("Shutdown")
  /\ JoinMonitor(TRUE)
  /\ UNCHANGED << scmVars, cameraVars, auth, presence_lock_enabled, hostVars >>

\* join returns
MonitorJoined ==
  /\ controller.pc = "joining"
  /\ monitor[controller.monitor].pc = "finished"
  /\ monitor' = [monitor EXCEPT ![controller.monitor] = IdleMonitor]
  /\ controller' = [Receiving EXCEPT !.pc = IF controller.exit THEN "done" ELSE "recv"]
  /\ UNCHANGED << scmVars, cameraVars, commands, running_monitor, auth,
                  presence_lock_enabled, hostVars >>

ControllerStep == StartIgnored \/ Starts \/ Stops \/ ShutsDown \/ MonitorJoined

-----------------------------------------------------------------------------
(* PresenceMonitor::run behind its sampling gate                           *)

MonitorGoes(m, pc) ==
  /\ monitor' = [monitor EXCEPT ![m].pc = pc]
  /\ UNCHANGED << scmVars, commands, controller, running_monitor, auth,
                  presence_lock_enabled, hostVars >>

\* The stop flag, at the head of either loop or during a sleep; or the monitor's
\* set-up fails.
MonitorStops(m) ==
  /\ monitor[m].pc = "gate"
  /\ monitor[m].stop \/ StartFaults
  /\ MonitorGoes(m, "finished")
  /\ UNCHANGED cameraVars

\* No stop seen, no recent input: a picture is to be taken.
GateOpens(m) ==
  /\ monitor[m].pc = "gate"
  /\ ~monitor[m].stop
  /\ MonitorGoes(m, "opening")
  /\ UNCHANGED cameraVars

SampleStarts(m) ==
  /\ monitor[m].pc = "opening"
  /\ Acquire("PresenceLock")
  /\ MonitorGoes(m, "sampling")
  /\ UNCHANGED interface_state

\* The refusal is an observation, CameraUnavailable, that asks for no lock.
LeaseRefused(m) ==
  /\ monitor[m].pc = "opening"
  /\ ~lease_allowed("PresenceLock") \/ active_lease # None
  /\ MonitorGoes(m, "gate")
  /\ UNCHANGED cameraVars

\* The camera is closed; the policy's decision, or an error that ends the monitor.
SampleEnds(m) ==
  /\ monitor[m].pc = "sampling"
  /\ Release("PresenceLock")
  /\ \E next \in {"gate", "locking", "finished"} : MonitorGoes(m, next)
  /\ UNCHANGED interface_state

\* The session is asked to lock, stop requested or not; the monitor ends either way.
LockRequested(m) ==
  /\ monitor[m].pc = "locking"
  /\ MonitorGoes(m, "finished")
  /\ UNCHANGED cameraVars

MonitorStep(m) ==
  \/ MonitorStops(m) \/ GateOpens(m) \/ SampleStarts(m) \/ LeaseRefused(m)
  \/ SampleEnds(m) \/ LockRequested(m)

-----------------------------------------------------------------------------
(* The camera half of an authentication job: acquire_camera_lease_until    *)

AuthGoes(j, state) ==
  /\ auth' = [auth EXCEPT ![j] = state]
  /\ UNCHANGED << scmVars, interface_state, presenceVars, presence_lock_enabled, hostVars >>

AuthWantsCamera(j) ==
  /\ auth[j] = "idle"
  /\ AuthGoes(j, "waiting")
  /\ UNCHANGED active_lease

AuthAcquires(j) ==
  /\ auth[j] = "waiting"
  /\ Acquire("LogonAuthentication")
  /\ AuthGoes(j, "holding")

\* At once when the interface state forbids it, after two seconds when it is leased.
AuthDenied(j) ==
  /\ auth[j] = "waiting"
  /\ ~lease_allowed("LogonAuthentication") \/ active_lease # None
  /\ AuthGoes(j, "idle")
  /\ UNCHANGED active_lease

AuthReleases(j) ==
  /\ auth[j] = "holding"
  /\ Release("LogonAuthentication")
  /\ AuthGoes(j, "idle")

AuthStep(j) == AuthWantsCamera(j) \/ AuthAcquires(j) \/ AuthDenied(j) \/ AuthReleases(j)

-----------------------------------------------------------------------------

Next ==
  \/ \E s \in Sessions : SessionUnlocks(s) \/ SessionLocks(s)
  \/ HandlerSends \/ ServiceStops
  \/ ClientComes \/ WakeArrives \/ HostLoops \/ SettingsUpdated
  \/ ControllerStep
  \/ \E m \in Monitors : MonitorStep(m)
  \/ \E j \in AuthJobs : AuthStep(j)

Spec == Init /\ [][Next]_vars

\* Every thread runs; clients and the camera driver answer, as their time-outs
\* make them.
Fairness ==
  /\ WF_vars(HandlerSends)
  /\ WF_vars(ControllerStep)
  /\ WF_vars(HostLoops) /\ WF_vars(WakeArrives)
  /\ \A m \in Monitors : WF_vars(MonitorStep(m))

FairSpec == Spec /\ Fairness

-----------------------------------------------------------------------------
(* Properties                                                              *)

\* The lease says who uses the camera: one holder, and the one it names, or none
\* (camera_runtime.rs: the lease outlives changes of the interface state).
LeaseConsistent ==
  LET watching == {m \in Monitors : monitor[m].pc = "sampling"}
      logging  == {j \in AuthJobs : auth[j] = "holding"}
  IN  CASE active_lease = None -> watching = {} /\ logging = {}
        [] active_lease = "PresenceLock" -> logging = {} /\ \E m \in Monitors : watching = {m}
        [] active_lease = "LogonAuthentication" ->
             watching = {} /\ \E j \in AuthJobs : logging = {j}

\* No monitor thread escapes the controller: a thread that has not been joined is
\* the one it would stop or the one it is waiting for, and a monitor told to stop
\* is being waited for (presence_service.rs: take, then stop_and_join).
MonitorsOwned ==
  \A m \in Monitors :
    /\ monitor[m].pc # "idle" =>
         \/ running_monitor = m /\ ~monitor[m].stop
         \/ controller.pc = "joining" /\ controller.monitor = m /\ monitor[m].stop
    /\ controller.pc = "joining" => running_monitor = None

\* A desktop in nobody's use is watched by no monitor but one that is to stop: it
\* was told to, or a Stop is on its way to the controller.  Commands queue behind
\* joins, so a desktop may be locked before its start is received
\* (docs/PHASE6_5_PRESENCE_LOCK.md:387: on lock, logoff, disconnect or service
\* stop the monitor must be asked to exit).
StopComes == \E i \in DOMAIN (commands \o handler) : (commands \o handler)[i].name = "Stop"

LockedIsUnwatched ==
  \A m \in Monitors :
    monitor[m].pc # "idle" /\ ~unlocked[monitor[m].session] => monitor[m].stop \/ StopComes

\* Once the desktop is locked the presence monitor lets go of the camera, so that
\* logon authentication can have it, unless the desktop is unlocked again first.
LockedFreesCamera ==
  interface_state = "LockedOrLogon" ~>
    interface_state # "LockedOrLogon" \/ active_lease # "PresenceLock"

\* A desktop that is unlocked and stays so has a monitor started for it after that
\* unlock, unless the start itself fails or is not wanted: the start is never taken
\* for superfluous because the monitor of before the lock still winds down
\* (StartForUserSession against is_running; docs/PHASE6_5_PRESENCE_LOCK.md:369).
UnlockIsWatched ==
  \A s \in Sessions :
    unlocked[s] ~> watched[s] \/ ~unlocked[s] \/ shutdown_requested

\* A service stop ends the controller and every monitor
\* (service_host.rs: the wake-up of the pipe host, then Shutdown).
ShutdownStopsMonitors ==
  shutdown_requested ~>
    controller.pc = "done" /\ \A m \in Monitors : monitor[m].pc = "idle"
=============================================================================

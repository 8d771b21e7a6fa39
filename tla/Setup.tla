-------------------------------- MODULE Setup --------------------------------
(***************************************************************************)
(* Installation, repair and removal: installation.rs, service_manager.rs,  *)
(* provider_registry.rs, resource_directory.rs and setup_backend.rs of     *)
(* installer_cli, on a machine whose service opens the credential store at *)
(* its start (service_host.rs, named_pipe_host.rs) and whose diagnostics   *)
(* tool may open it at any time.                                           *)
(*                                                                         *)
(* An operation is a fixed sequence of steps; a step that fails ends it,   *)
(* and what the steps before it did stays done.  One installer runs at a   *)
(* time.                                                                   *)
(***************************************************************************)
EXTENDS CredentialStore, Sequences

CONSTANTS
  Service, Tool,              \* the two openers
  Operations,                 \* what the installer is asked for
  MaxOperations,              \* how often: a bound
  LegacyDir, OverrideDir,     \* where an installation of before the pin may be
  InstallerEnv                \* WINFACEUNLOCK_STORE_DIR of the installer's own process, or None

ASSUME SetupAssumption ==
  /\ Openers = {Service, Tool}
  /\ Service # Tool
  /\ {LegacyDir, OverrideDir} \subseteq Dirs
  /\ Operations \subseteq {"stage", "install", "disable", "remove", "purge", "removeService"}
  /\ MaxOperations \in Nat

ASSUME InstallerEnvAssumption == InstallerEnv \subseteq Dirs \cup {None}

VARIABLES
  files,       \* directory -> payload files staged there
  entry,       \* directory of the binary in the SCM entry, or None
  override,    \* WINFACEUNLOCK_STORE_DIR of the SCM entry, or None
  com,         \* directory of the DLL in InprocServer32, or None
  enumerated,  \* the key under Credential Providers
  setup,       \* the installer: directory it works on, steps it has left
  asked,       \* operations begun so far
  kept,        \* history: where the service's credential is that nobody asked to delete
  forgotten,   \* history: directories only the SCM entry knew, given up with it or passed over
  purged,      \* history: directories whose data a removal began to delete
  replacing    \* history: directories whose service binary staging removed and has not replaced

machineVars == << files, entry, override, com, enumerated >>
historyVars == << kept, forgotten, purged, replacing >>
vars == << storeVars, machineVars, setup, asked, historyVars >>

Payload == {"service", "provider"}

\* The sequence of steps of each operation.
Steps(operation) ==
  CASE operation = "stage" ->
         << "stopExisting", "copyService", "copyProvider" >>
    [] operation = "install" ->
         << "pin", "register", "stop", "start", "com", "enumerate" >>
    [] operation = "disable" -> << "hide" >>
    [] operation = "remove" ->
         << "preserve", "hide", "uncom", "stop", "delete" >>
    [] operation = "purge" ->
         << "hide", "uncom", "stop", "delete", "delKey", "delDatabase", "clear",
            "delTree" >>
    \* installer_cli uninstall-service, which pins nothing first
    [] operation = "removeService" -> << "stop", "delete" >>

NoOperation == [dir |-> None, todo |-> << >>]

StepNames == UNION {{Steps(o)[i] : i \in DOMAIN Steps(o)} : o \in Operations}

TypeOK ==
  /\ StoreTypeOK
  /\ files \in [Dirs -> SUBSET Payload]
  /\ entry \in Dirs \cup {None}
  /\ override \in Dirs \cup {None}
  /\ com \in Dirs \cup {None}
  /\ enumerated \in BOOLEAN
  /\ setup \in [dir : Dirs \cup {None}, todo : Seq(StepNames)]
  /\ asked \in 0 .. MaxOperations
  /\ kept \in Dirs \cup {None}
  /\ forgotten \in SUBSET Dirs
  /\ purged \in SUBSET Dirs
  /\ replacing \in SUBSET Dirs

\* A machine without the program.
InitClean ==
  /\ files = [d \in Dirs |-> {}]
  /\ entry = None /\ override = None /\ com = None /\ enumerated = FALSE
  /\ key = [d \in Dirs |-> None]
  /\ db = [d \in Dirs |-> None]
  /\ kept = None

\* One that was installed before stores were pinned, with a credential beside
\* the service or where an environment variable says.
InitLegacy ==
  \E k \in Keys :
    /\ files = [d \in Dirs |-> IF d = LegacyDir THEN Payload ELSE {}]
    /\ entry = LegacyDir /\ com = LegacyDir /\ enumerated = TRUE
    /\ override \in {None, OverrideDir}
    /\ kept = IF override = None THEN entry ELSE override
    /\ key = [d \in Dirs |-> IF d = kept THEN k ELSE None]
    /\ db = [d \in Dirs |-> IF d = kept THEN [key |-> k, credential |-> TRUE] ELSE None]

Init ==
  /\ InitClean \/ InitLegacy
  /\ pin = None /\ initialized = FALSE
  /\ opener = [p \in Openers |-> IdleOpener]
  /\ setup = NoOperation /\ asked = 0
  /\ forgotten = {} /\ purged = {} /\ replacing = {}

-----------------------------------------------------------------------------
(* The service                                                             *)

\* Where the service finds its store.
StoreInUse == IF pin # None THEN pin ELSE IF override # None THEN override ELSE entry

Running == ~At(Service, "idle")

\* The process is running for SCM before it opens the store.
ServiceOpens == Resolves(Service, "serve", IF override # None THEN override ELSE entry)

\* At boot, after a failure, or by hand.
ServiceStarts ==
  /\ entry # None
  /\ "service" \in files[entry]
  /\ ServiceOpens
  /\ UNCHANGED << machineVars, setup, asked, historyVars >>

\* The store cannot be opened, or the process dies.
ServiceFails ==
  /\ GivesUp(Service)
  /\ UNCHANGED << machineVars, setup, asked, historyVars >>

\* Power off: every process ends.
Reboot ==
  /\ opener' = [p \in Openers |-> IdleOpener]
  /\ setup' = NoOperation
  /\ UNCHANGED << key, db, pin, initialized, machineVars, asked, historyVars >>

-----------------------------------------------------------------------------
(* Opening the store                                                       *)

\* The tool finds the paths, asks for a password, and then uses them; it stands
\* for the installer's enrolment and for requests to the service as well.
ToolOpens ==
  /\ \E own \in Dirs : Resolves(Tool, "enroll", own)
  /\ UNCHANGED << machineVars, setup, asked, historyVars >>

Opening ==
  /\ \E p \in Openers : OpenStep(p)
  /\ UNCHANGED << machineVars, setup, asked, historyVars >>

\* Somebody asked for all data to be deleted, and it is being done.
Purging == \E i \in DOMAIN setup.todo : setup.todo[i] = "delTree"

\* An enrolment in the store of the installed service is one to keep, unless
\* its key was deleted meanwhile.
Acknowledged ==
  /\ \E p \in Openers :
       /\ Acknowledges(p)
       /\ kept' = IF /\ ~Purging
                     /\ opener[p].dir = StoreInUse
                     /\ opener[p].key = key[opener[p].dir]
                  THEN opener[p].dir ELSE kept
  /\ UNCHANGED << machineVars, setup, asked, forgotten, purged, replacing >>

ProcessGivesUp ==
  /\ GivesUp(Tool)
  /\ UNCHANGED << machineVars, setup, asked, historyVars >>

-----------------------------------------------------------------------------
(* The installer                                                           *)

Doing(step) == setup.todo # << >> /\ Head(setup.todo) = step
Aborts == setup' = NoOperation /\ UNCHANGED asked
Done ==
  /\ setup' = IF Len(setup.todo) = 1 THEN NoOperation ELSE [setup EXCEPT !.todo = Tail(@)]
  /\ UNCHANGED asked

\* uninstall-service before anything was pinned gives up what the entry tells.
Forgets(operation) ==
  CASE operation = "removeService" /\ pin = None -> forgotten \cup ({StoreInUse} \ {None})
    [] operation = "purge" -> {}
    [] OTHER -> forgotten

Begins ==
  /\ setup.todo = << >>
  /\ asked < MaxOperations /\ asked' = asked + 1
  /\ \E operation \in Operations :
       /\ \E d \in IF operation \in {"stage", "install", "purge"} THEN Dirs ELSE {None} :
            setup' = [dir |-> d, todo |-> Steps(operation)]
       /\ kept' = IF operation = "purge" THEN None ELSE kept
       /\ forgotten' = Forgets(operation)
  /\ UNCHANGED << storeVars, machineVars, purged, replacing >>

\* A precondition does not hold, Windows refuses, a wait times out, or the
\* installer is ended.
StepFails ==
  /\ setup.todo # << >>
  /\ Aborts
  /\ UNCHANGED << storeVars, machineVars, historyVars >>

\* A stop control and the wait for its effect: the stop flag is looked at once
\* the store is open.
EndsService ==
  /\ Running => At(Service, "serving")
  /\ opener' = [opener EXCEPT ![Service] = IdleOpener]

StopsService ==
  /\ Doing("stop")
  /\ EndsService
  /\ Done
  /\ UNCHANGED << key, db, pin, initialized, machineVars, historyVars >>

\* stop_existing_service_before_payload_staging: a service is stopped only where
\* its binary is found, tools that run from the directory are killed.
StopsExisting ==
  LET installed == "service" \in files[setup.dir] IN
  /\ Doing("stopExisting")
  /\ installed /\ Running => At(Service, "serving")
  /\ \E tool \in {opener[Tool], IdleOpener} :
       opener' = [opener EXCEPT ![Tool] = tool,
                                ![Service] = IF installed THEN IdleOpener ELSE @]
  /\ Done
  /\ UNCHANGED << key, db, pin, initialized, machineVars, historyVars >>

\* SCM reports the service as running whether or not it then finds its store.
StartsService ==
  /\ Doing("start")
  /\ ~Running /\ "service" \in files[entry]
  /\ ServiceOpens \/ UNCHANGED storeVars
  /\ Done
  /\ UNCHANGED << machineVars, historyVars >>

\* stage_payload_file, for one file after another: a file that is the same is
\* skipped, one that is not there yet is renamed into place.
Stages(file) ==
  /\ files' = [files EXCEPT ![setup.dir] = @ \cup {file}]
  /\ replacing' = IF file = "service" THEN replacing \ {setup.dir} ELSE replacing
  /\ Done

StagesFile ==
  /\ \/ Doing("copyService") /\ Stages("service")
     \/ Doing("copyProvider") /\ Stages("provider")
  /\ UNCHANGED << storeVars, entry, override, com, enumerated, kept, forgotten, purged >>

\* Mutant: the DLL is replaced like any other file.
RemovesOldFile_AnyFile ==
  LET d == setup.dir IN
  /\ \/ Doing("copyService") /\ files' = [files EXCEPT ![d] = @ \ {"service"}]
     \/ Doing("copyProvider") /\ files' = [files EXCEPT ![d] = @ \ {"provider"}]
  /\ ~(Running /\ entry = d)
  /\ replacing' = replacing \cup {d}
  /\ UNCHANGED << storeVars, entry, override, com, enumerated, setup, asked, kept, forgotten, purged >>

\* copy_then_rename: a binary that differs is removed before its successor gets
\* its name. Windows refuses this for one that runs, the code for the DLL.
RemovesOldFile ==
  LET d == setup.dir IN
  /\ Doing("copyService") /\ "service" \in files[d]
  /\ ~(Running /\ entry = d)
  /\ files' = [files EXCEPT ![d] = @ \ {"service"}]
  /\ replacing' = replacing \cup {d}
  /\ UNCHANGED << storeVars, entry, override, com, enumerated, setup, asked, kept, forgotten, purged >>

\* Mutant: the environment of the SCM entry is not looked at.
LocationToPin_BesideBinary(own) ==
  IF entry = None THEN setup.dir ELSE IF own # None THEN own ELSE entry

\* Where the store of the installation in place is, or of the one to be made:
\* legacy_directory looks at the environment of the SCM entry, then at that of
\* the installer's own process, which the service does not share.
LocationToPin(own) ==
  CASE entry = None -> setup.dir
    [] entry # None /\ override # None -> override
    [] entry # None /\ override = None /\ own # None -> own
    [] OTHER -> entry

\* The installer's own environment hides what the entry says.
PassedOver(own) == IF entry # None /\ override = None /\ own # None THEN {entry} ELSE {}

\* preserve_credential_store_location: what is pinned is left alone.
PreservesLocation ==
  /\ \/ Doing("pin") /\ "service" \in files[setup.dir]
     \/ Doing("preserve")
  /\ IF pin # None \/ (Doing("preserve") /\ entry = None)
     THEN PinValid /\ Done /\ UNCHANGED << storeVars, forgotten >>
     ELSE \E own \in InstallerEnv :
            \/ /\ Pins(LocationToPin(own)) /\ Done
               /\ forgotten' = (forgotten \cup PassedOver(own)) \ {LocationToPin(own)}
            \/ PinsHalf(LocationToPin(own)) /\ Aborts /\ UNCHANGED forgotten
  /\ UNCHANGED << machineVars, kept, purged, replacing >>

\* create_service or change_config
RegistersService ==
  /\ Doing("register")
  /\ entry' = setup.dir
  /\ Done
  /\ UNCHANGED << storeVars, files, override, com, enumerated, historyVars >>

\* The SCM entry goes, and its environment with it.
DeletesService ==
  /\ Doing("delete")
  /\ ~Running
  /\ entry' = None
  /\ override' = None
  /\ Done
  /\ UNCHANGED << storeVars, files, com, enumerated, historyVars >>

\* install_provider: the COM server before the key LogonUI enumerates.
RegistersProvider ==
  /\ \/ Doing("com") /\ "provider" \in files[setup.dir] /\ com' = setup.dir /\ UNCHANGED enumerated
     \/ Doing("enumerate") /\ enumerated' = TRUE /\ UNCHANGED com
  /\ Done
  /\ UNCHANGED << storeVars, files, entry, override, historyVars >>

\* uninstall_provider, and emergency_disable_provider the first half of it.
RemovesProvider ==
  /\ \/ Doing("hide") /\ enumerated' = FALSE /\ UNCHANGED com
     \/ Doing("uncom") /\ com' = None /\ UNCHANGED enumerated
  /\ Done
  /\ UNCHANGED << storeVars, files, entry, override, historyVars >>

\* delete_pinned_store_data
DeletesStore ==
  /\ \/ Doing("delKey") /\ Done /\ IF pin # None THEN RemovesKey(pin) ELSE UNCHANGED storeVars
     \/ Doing("delDatabase") /\ Done /\ IF pin # None THEN RemovesDatabase(pin) ELSE UNCHANGED storeVars
     \/ Doing("clear") /\ ClearsPin /\ Done
     \/ Doing("clear") /\ ClearsHalf /\ Aborts
  /\ purged' = IF pin # None THEN purged \cup {pin} ELSE purged
  /\ UNCHANGED << machineVars, kept, forgotten, replacing >>

\* remove_dir_all of the installer's own directory, which may stop halfway.
DeletesTree ==
  LET d == setup.dir IN
  /\ Doing("delTree")
  /\ \E left \in SUBSET files[d], k \in {key[d], None}, store \in {db[d], None} :
       /\ Connected(d) => store = db[d]
       /\ files' = [files EXCEPT ![d] = left]
       /\ key' = [key EXCEPT ![d] = k]
       /\ db' = [db EXCEPT ![d] = store]
  /\ Aborts
  /\ purged' = purged \cup {d}
  /\ UNCHANGED << pin, initialized, opener, entry, override, com, enumerated, kept, forgotten, replacing >>

InstallerStep ==
  \/ Begins \/ StepFails \/ StopsService \/ StopsExisting \/ StartsService \/ StagesFile \/ RemovesOldFile
  \/ PreservesLocation \/ RegistersService \/ DeletesService
  \/ RegistersProvider \/ RemovesProvider \/ DeletesStore \/ DeletesTree

Next ==
  \/ ServiceStarts \/ ServiceFails \/ InstallerStep \/ ToolOpens
  \/ Opening \/ Acknowledged \/ ProcessGivesUp \/ Reboot

Spec == Init /\ [][Next]_vars

-----------------------------------------------------------------------------
(* Safety                                                                  *)

\* Concurrent initialisers and crashes never leave a database beside a key
\* that is not its own (atomic_write.rs: "concurrent creators cannot replace
\* the key which another creator has already used to encrypt the database").
KeyMatchesDatabase ==
  \A d \in Dirs \ purged : Whole(d) => db[d].key \in {None, key[d]}

\* What is marked as initialised is there, whole and readable with its key.
MarkedStoreIsWhole ==
  purged = {} /\ pin # None /\ initialized => Whole(pin) /\ db[pin].key \in {None, key[pin]}

(* The key, the database and the mark of a store agree, whoever initialises it
   beside whom and whenever the machine stops. *)
StoreAgrees == KeyMatchesDatabase /\ MarkedStoreIsWhole

(* A credential whose enrolment was acknowledged stays readable, and is where
   the service looks for it: through upgrades into another directory, removals
   that preserve data, half-done operations and crashes, legacy installations
   included (installation.rs: "Preserve their location before deleting the SCM
   entry needed to discover the old binary").  Readable it stays in any case;
   out of use it goes only if nothing was pinned yet and uninstall-service,
   which pins nothing, was asked for, or the installer's own environment named
   another directory while that of the SCM entry named none. *)
CredentialStaysInUse ==
  kept # None => Readable(kept) /\ (kept = StoreInUse \/ kept \in forgotten)

(* LogonUI never enumerates a provider whose DLL is not there, and SCM has no
   entry for a missing binary, wherever an operation stopped: but for the
   binary an interrupted staging removed and had yet to replace. *)
RegisteredBinariesExist ==
  /\ enumerated => com # None /\ "provider" \in files[com]
  /\ entry # None => "service" \in files[entry] \/ entry \in replacing
=============================================================================

# WinFaceUnlock in TLA+

WinFaceUnlock signs a user in to Windows by face. A Credential Provider DLL inside
LogonUI asks a Windows service over a named pipe to recognise the face before the
camera; the service answers with a short-lived grant, the DLL exchanges the grant for
the stored password and hands the password to Windows. The same service watches an
unlocked desktop and locks it when its user has left.

This directory holds the specifications of that system, the TLC runs that check them
on small instances, and TLAPS proofs for every instance. `PROJECT.json` lists the
components, the runs, the mutants that each checked property must catch, the source
lines behind every definition, the hazards and the theorems.

Paths are below `src/`; `win_service/…` stands for `crates/win_service/src/…`, and so on.

## 1. Inventory

### Logon guard — `logon_safety`
*State*: one registry record, `(generation, Ready | Submitted | Rejected)`, shared by
all processes, written with `RegSetValueExW` and then flushed.
*Operations*: `ready_generation`, `reserve` (a submission takes the latch and gets a
token), `complete` (by token), `credentials_updated` (the only way to lift it after a
rejection). Each is a transaction under a named mutex.
*Hard*: flush or write fails; power loss; several LogonUI processes.
*Correct when*: a submission that Windows refused, or whose verdict nobody knows, keeps
every further automatic submission out until the credential changes.

### Credential provider — `windows_provider`
*State*: `ProviderState.inner` per COM object (events sink, phase, material, cooldown,
request id, generation, submission token); background threads that wake the service.
*Operations*: `Advise`, `UnAdvise`, `SetSelected`, `GetSerialization`, `ReportResult`;
the worker's wait for input, its attempts and transport retries, and the application
of its result.
*Hard*: results that come after `UnAdvise`, or after a second `Advise`; a credential
replaced while its predecessor is on its way; LogonUI or the machine dying in between.
*Correct when*: no stale password is submitted, none outlives `UnAdvise`, a token names
one submission, workers stop when they are no longer wanted.

### Grant registry — `ipc/grant_registry.rs`
*State*: id -> grant and `Available | Redeemed | Revoked`.
*Operations*: insert, redeem, revoke by session, revoke all, drop expired.
*Correct when*: a grant yields one credential, and a dead one never comes back.

### Authentication service — `ipc/service_handler.rs`, `win_service/auth_orchestrator.rs`, `auth_issuer.rs`
*State*: pending sessions, running sessions, cached outcomes, the loaded issuer.
*Operations*: `WakeAuth`, `FetchAuthResult`, `FetchCredential`, `FetchCredentialMaterial`,
`Cancel`, `UpdateSettings`/`ConfigureCamera`/reload, and the job threads.
*Hard*: jobs run beside the one request that is served at a time; a configuration
change replaces the collections under a running job; the client may lose an answer.
*Correct when*: what was authenticated under an old policy is never redeemed; one job
per session; no session is called running for ever.

### Presence lock — `win_service/presence_*.rs`, `camera_runtime.rs`, `service_host.rs`, `named_pipe_host.rs`, `desktop_input*`
*State*: policy counters; the controller's command channel and its monitor thread; the
camera lease and the interface state; the shutdown flag of the pipe host; the file in which
an agent process per session leaves how long nobody touched keyboard and mouse.
*Operations*: session-change events, start/stop/shutdown of the monitor, sampling
rounds and the gate before them, lease acquisition and release, service stop.
*Hard*: SCM's handler, controller, monitor, authentication threads and the pipe host
are five kinds of threads; stop must pass a blocking receive and a blocking join; the
agents of all sessions replace one file, write late, and end without notice.
*Correct when*: one user of the camera; no monitor escapes the controller; the camera
is free once the desktop is locked; unlock is watched; stop ends everything; the
session is locked exactly on confirmed evidence, looked for only when its user is quiet.

### Credential store — `credential_store`, `win_service/credential_store_config.rs`
*State*: the protected master key and the encrypted database, two files of one
directory; in the registry, where that directory is and whether it was ever initialised.
*Operations*: opening (check, find or publish the key, create the database, migrate,
mark), saving a credential, deletion of the data.
*Hard*: several processes open without a common lock, and any of them, or the machine,
may die between two steps.
*Correct when*: no key lies beside a database it does not open, and a credential whose
saving was acknowledged stays where the service looks for it.

### Installer — `installer_cli`
*State*: payload files per directory, the service's SCM entry with its override, two
registrations of the DLL.
*Operations*: staging, installation, disabling, removal with and without the data.
*Hard*: every step may fail, what was done before it stays done; it runs beside the
service and the diagnostics tool, which open the store.
*Correct when*: what is registered exists; nothing but a deletion the user asked for
takes the credential out of use.

### Camera — `video_provider`, `camera_worker.rs`, `camera_runtime.rs`
*State*: a worker process per opened camera, its two pipes, the reader's position.
*Operations*: open (one process per back end tried), read, close, time-out, termination.
*Hard*: drivers hang, also in the kernel after their process was killed; answers late.
*Correct when*: an answer is taken for the request it answers; one live worker has the
device; a reader waits for bounded time.

### Camera round — `auth_issuer.rs`, `presence_person_camera.rs`, `face_auth`, `snapshot_policy.rs`
*State*: frames looked at, failures in a row, spoof votes, consecutive matches; the
permission to keep pictures and the lock under which one is captured.
*Operations*: a round of authentication and one of presence under the camera lease;
revocation of the permission.
*Correct when*: acceptance rests on as many live matching faces as configured; no
picture is taken after its revocation returned; a round ends and releases the camera.

### Face enrolment — `useFaceEnrollment.ts`, `control_backend`, `diagnostics_cli/guided_enrollment`
*State*: the page; sessions of the back end; the recording process with the pose it is at,
its frames and samples, its status and template files; the template the service uses.
*Operations*: start, poll, cancel, switch of camera, leaving, finish; the process from its
start over every frame to its exit.
*Hard*: replies come after the user went on; the process dies or hangs at any point; a
kill or a query of its state fails; a pose is lost while it is waited for or recorded.
*Correct when*: one process records, and ends; only finished templates, with every pose
that is required, are used; what the page says happened did happen, and it does not wait
for ever for an attempt that cannot end.

### Service settings — `useSettingsArea.ts`, `control_backend`, `service_config.rs`, `control_status`, `auth_issuer.rs`
*State*: the page's switches; registry values written one by one; the configuration that
was loaded; the permission derived from it.
*Operations*: load, change, apply an enrolment, bind a camera, reload, service start.
*Hard*: any write, read or load fails; answers overtake each other; a camera known by its
enumeration index; a monitor start that binds it at the same time.
*Correct when*: no picture is permitted that the saved settings forbid; faces are
recognised by what is saved; a switch shows what is saved once all is answered.

### The rest
Named pipe transport, camera drivers and image statistics, neural networks, one-shot
diagnostics, presentation, logging. See section 7.

### How the parts interact
LogonUI calls the provider (COM). The provider's worker sends `WakeAuth`, polls
`FetchAuthResult` and spends the grant with `FetchCredentialMaterial` (named pipe). The
service spawns a job per wake; the job takes the issuer's mutex, then the camera lease,
which the presence monitor contends for, and drives a camera worker process. SCM's
handler sets the interface state, on which leases depend, and sends commands to the
presence controller. Enrolment of a password replaces the stored credential and then
lifts the logon guard. The control panel's back end runs the enrolment process and sends
its template, like every setting, through the pipe to the service, which saves it in the
registry and loads it back. The installer stages what runs and pins where the store is.

## 2. Modules

| module | models | state of the code it keeps |
|---|---|---|
| `LogonGuard` | `logon_safety` | `guard` (what is read), `durable` (what survives power loss) |
| `CredentialProvider` | `windows_provider`, enrolment of a password underneath; EXTENDS `LogonGuard` | `prov`, `worker`, `stored`, `updating` |
| `OneSubmission` | the abstract promise `CredentialProvider` and its guard implement | — |
| `GrantRegistry` | `grant_registry.rs`, as operators on the tracked states | `body`, `grants_by_id` |
| `AuthService` | service handler, issuer, orchestrator, jobs; EXTENDS `GrantRegistry` | `pending`, `auth_mode`, `issuer`, `running`, `cached`, `waking`, `job`, `sequence`, `now` |
| `OneTimeGrants` | the abstract promise `AuthService` implements | — |
| `PresencePolicy` | `presence_policy.rs`, an operator per observation | `policy`, `decision` |
| `PresenceSampling` | `PresenceMonitor::run`, the gate, the input agents; EXTENDS `PresencePolicy` | `monitor`, `file`, `agent`; `quiet` is what the users do |
| `PresenceService` | controller, monitors, pipe host, SCM handler, camera lease | see its VARIABLES |
| `CredentialStore` | master key, database, pin, opening | `key`, `db`, `pin`, `initialized`, `opener` |
| `Setup` | the installer, service start and tools over the store; EXTENDS `CredentialStore` | `files`, `entry`, `override`, `com`, `enumerated`, `setup` |
| `IsolatedCamera` | a camera worker process and its user | `child`, `session` |
| `CameraRound` | a round of authentication, one of presence, snapshots; EXTENDS `IsolatedCamera` | `lease`, `auth`, `sample`, `snapshot` |
| `FaceEnrollment` | page, back end, recording process | `session`, `late`, `cli`, `status`, `template`, `service`, `calls`, `ui` |
| `ServiceSettings` | page, registry, service, permission, issuer | `saved`, `service`, `issuer`, `binding`, `permits`, `calls`, `replies`, `page` |
| `MCProvider`, `MCAuth`, `MCPresence`, `MCSetup`, `MCCamera`, `MCSettings` | model values and symmetry for TLC | — |
| `CredentialProvider_proofs`, `AuthService_proofs`, `PresenceSampling_proofs`, `PresenceService_proofs`, `CameraRound_proofs`, `ServiceSettings_proofs`, `Setup_proofs`, `FaceEnrollment_proofs` | theorems | — |

Variables and fields marked *history* exist in the specification only: `fate`, `updates`,
`floor` (what became of each token, which generations were made by a credential update,
which credential version was stored then), a worker's `orphan` flag, `epoch`, `redeemed`,
`watched`, the policy's `streak`, `quietAgo` of `PresenceSampling`, `kept`, `forgotten`, `purged` and
`replacing` of `Setup`, `evidence` of `CameraRound`, `torn` of `ServiceSettings`.

### LogonGuard, CredentialProvider, OneSubmission
One action is one critical section of `ProviderState.inner`, with the guard's
transaction nested in it, or one step of a worker between two of them. A transaction
either commits (record written and flushed) or fails before the write, or fails in the
flush with the record written: `Commit`, `CommitFails`. `LazyFlush` is Windows writing
the hive by itself; `Reboot` is a power loss, which returns the record to what is
durable. Fallible reads add the "not ready" answer (`ReadFails`).

`Advise` reads the mode from the registry each time, hence `WakeModes`, a set. A worker's
life is `waiting` (input poll) → `begin` (`begin_wake_request`) → `loop` / `retry` →
`request` → `calling` → `received` → `after`; every arrow is an action, because LogonUI
may act between any two. `GetSerialization` is `TakeAccepted` or `TakeRefused`, then
`HandOver` or `PackFails`. A password is the version of the credential store it was read
from. The service is external here: a call ends with the credential as stored at that
moment, an authentication failure, a rejected request or a transport error.

Bounds: `MaxRequest` and `MaxVersion` stop the request id and the store; `MaxGeneration`
is the code's own limit (`u64::MAX`) made small, so that the overflow paths are taken.
`Advise` and `SetSelected` wait while no thread is idle, which bounds the threads only.
Not in it: failure of the agile COM reference, tile texts, credential counts, mutex
poisoning. `enroll_windows_credential` is the same code for the service, the
diagnostics tool and the installer.

`OneSubmission` says what the guard is for, without records, copies, instances or
workers: passwords are submitted one at a time, and a submission stays in the way until
Windows accepts it, it is withdrawn, or the credential is replaced. The refinement mapping
(`InTheWay`) takes the unresolved tokens with no update above them. A power loss may undo an
update that was not flushed, so the abstract step for it may put back what that update
cleared, but neither an accepted nor a withdrawn submission.

### GrantRegistry, AuthService, OneTimeGrants
The pipe loop serves one request at a time, so a request is one action that includes
the pruning with which every request starts; it may read the clock again later
(`Later`). The one request that is two is a wake without a usable cached grant: the cache
and the set of running sessions have a lock each, and a job may act between them
(`WakeLooks`, then `WakeAttaches`, `WakeSpawns` or `WakeGivesUp`; `waking` is the session in
between). `cancel_auth` takes the same two locks one after the other, and is one step: no job reads
`running`, so what a job does between the halves might as well come before both.
Jobs are threads: queue for the issuer's mutex (`JobAcquires` reserves a
grant number whatever happens then), accept or reject, close the camera, record a
failure, leave `running`; each is a step of its own since no lock spans two of them.
A configuration change replaces the two shared collections, so that a job of before
writes where nobody reads: `attached = FALSE`. The inside of `JobAccepts` and
`JobRejects` is `CameraRound`. A grant is its sequence number, which its
id and its nonce both carry. That a lost answer makes no difference to the service is
why losses need no action: a client that repeats itself is a client that sends again.
`Cancel` is in the protocol but no client in the repository sends it; `Cancels` says
whether clients do.

The wall clock is assumed never to be set back. The registry forgets a spent grant at
its expiry while the cache may still hold it, so `GrantsSpentOnce` rests on that.

`OneTimeGrants` says what all of it is for: a grant is issued once, used once at most
while it lives, and once dead stays dead. The refinement mapping (`Status`) calls a grant
live when it is issued, unspent, unrevoked, unexpired and of the current policy.

### PresencePolicy, PresenceSampling
`PresencePolicy` has one operator per `record_*` method; scores and intervals are
represented by their class. The code increments and resets six counters and flags in
different combinations; `streak` says the same in one: the last kind of evidence, its
length, and whether blind rounds came after it. The photograph of a stranger is a request
to an audit sink; in production that is `NoopUnknownFaceAuditSink` (presence_service.rs:396),
so `RoundsFollowStreaks` speaks of requests, and nothing is stored.

`PresenceSampling` puts it under the monitor's loop: evaluate the gate, wait and evaluate
again, or look at the camera and record. An agent captures (tick count and wall clock in
one step), removes the old file and renames its own to it; any amount of time may pass
between these. It lives on while its session is locked or the service restarts, ends on a
failed capture or write, and only the next start of a monitor starts it again. A monitor
may be started for any session in `Watchable` whenever none runs: when that happens, and
who sets the stop flag, is in `PresenceService`. What can be met: a round may begin up to
the maximal age of a snapshot after the user came back; a desktop whose agent ended is
neither sampled nor locked until it is unlocked the next time. Left out: a second agent of
one session, which runs if the mutex could not be created, and the launcher's search for a
token and a path.

### PresenceService
One action per step of a thread. The SCM handler sets the interface state and sends its
command in two steps (`SessionUnlocks`/`SessionLocks`, `HandlerSends`). The controller
takes one command at a time; `stop_and_join` is `JoinMonitor`, during which it waits for
`MonitorJoined`. A sampling round may end in any decision (`PresenceSampling` says which).
`shutdown_requested` reaches a host blocked in receive through the poke of
`wake_named_pipe_host`. `ReloadCurrentSessionFromDesktopControl` has no sender in the
repository (named_pipe_host.rs:132 drops the one it is given) and is left out, and so is
the case that the service process has exited before the controller joined its monitor.
`TakeTurns` says whether one desktop at a time is in use, as on a client Windows. There is
one monitor for all sessions, and a Stop ends it whatever session it names: when two
desktops are in use at once, the start of one is ignored while the other's monitor runs,
and the first lock leaves both unwatched. `UnlockIsWatched` is therefore about desktops
used by turns. That a locked one is not watched (`LockedIsUnwatched`) is proved for both.

### CredentialStore, Setup
An opener is a process inside `open_service_credential_store`; each file or registry
access is a step, and after each the process may fail or die. An operation of the
installer is the sequence of its steps; one that fails ends it. What can be met:
- A crash between publishing the key and creating the database leaves half a store that
  start, repair, installation and the removal that keeps data all refuse; only the removal
  that deletes the data gets past it.
- A process that checked before a deletion may publish a fresh key beside what the
  deletion left; `StoreAgrees` therefore leaves out directories whose deletion was begun.
- SCM reports the service running before it has opened the store, and a database cannot be
  removed while a connection is open.
- Staging over an older installation removes the service's binary before the new one gets
  its name (`RemovesOldFile`); what ends it in between leaves an SCM entry without a binary
  until the next staging. `RegisteredBinariesExist` excepts these directories by `replacing`.
- `uninstall-service` of the command line (`removeService` in `Steps`) pins nothing before
  it deletes the entry, which alone knew the directory of an installation of before the pin.
- An installer looks for that directory in the environment of the SCM entry and of the
  machine (`override`), which the service shares, and then in its own (`InstallerEnv`), which
  the service does not: set there, `WINFACEUNLOCK_STORE_DIR` pins a directory the service did
  not use.

Both are legal calls that lose the credential. The history `forgotten` has the directories so
given up or passed over, until they are pinned after all, and `CredentialStaysInUse` says that
an acknowledged credential is readable, and in the store in use or in one of these.

A machine-wide override that outlives its SCM entry is not told from the entry's: it is
looked up only when there is an entry (service_manager.rs:255), and `override` goes with it.

ACLs, tray, shortcuts and the authentication configuration are steps that may fail and
change nothing here; a removal that does not stop the service first counts as failed.
Power loss does not tear registry and file writes apart.

### IsolatedCamera, CameraRound
Requests and answers in the two pipes carry a turn number the code does not send; it is
what `AnswersMatchRequests` compares. A reader that gave up severs the pipe, kills the
worker and never asks it again; a killed worker keeps the device until the kernel lets it
go. A round is one action per frame read, judged, or closed. A frame may be unusable, dark,
without a face, a spoof, a stranger's or the user's. A stranger's face on the logon path
leaves the count of matches as it is, and the count survives from one round to the next of
the same issuer. The history `evidence` counts afresh, from what the frames showed alone:
the live matches since the last frame without one live face, and of this round the frames
judged and those of spoofs. `AcceptsOnEvidence` compares an acceptance with it, so a reset
the code forgot at any place would show. Revocation invalidates the
permission, then waits for the lock a capture holds. Not in it: a panic under that lock,
and the interface state (sessions lock and unlock at any time). A violation of the pipe's
protocol is a broken pipe.

### FaceEnrollment
Commands of the page are synchronous Tauri commands: they run one at a time on the main
thread, in the order of issue, and their replies arrive in that order, while the user goes
on. The recording process runs beside them, writes its status and template files (reads of
a file under way may be torn), and ends in an exit code. One action is one frame: while a
pose is awaited it has to be held for `PoseReady` frames without a break; then `Samples` of
it are taken; each of the two may use `MaxFrames` frames, after which an optional pose
(pitch) is left with what there is of it and another one fails the attempt. A frame is
`good`, `dim` (good enough to wait on, not to record), of a `stranger` or `unfit`: what the
comparisons of scores can come to. `finish` keeps one or two of the samples of each pose.
The order of the poses is a parameter; the control panel's process uses the landmark
estimator, whose poses are frontal, yaw and pitch, and asks for no partial enrolment.

What can be met: a start under way when the user leaves is not cancelled, its reply shows
the attempt again; a read of a frame that never returns has no time-out here; after a poll
that failed, a reset leaves the process running and starts are refused until it ends; a
late cancel of a completed session shows 'cancelled' while a finish under way may still
apply its template; the samples of the first pose are not compared with each other. The
check that a completed session is not finished twice (`ui.finishing # s`) is never needed:
`LivePoll` of the proofs says that no finish is under way then. Left out: images, prompts,
the preview, the list of cameras, a restart of the application.

### ServiceSettings
A command is queued at the control back end; a change becomes a request, which the service
carries out step by step: withdraw, write each value, read back, load. Answers are settled
in any order, which is what the page's request numbers presume. `lock` stands for every
setting that is shown before it is confirmed, `snap` for the one that is not. A monitor
start loads the configuration in a thread of its own and may bind an index meanwhile
(`binding`). A start that resolved the index earlier may overwrite the identity that was
bound since: `BindingKept` is violated by it, and `IssuerIsSaved` excepts the time up to
the next load by `torn`, as it does for an enrolment of which some values are written.
Left out: environment overrides, the installer's direct writes, `ReloadAuthConfig` (no
sender), deletion of a template (the one in use is always refused).

## 3. Runs

| run | instance | what it shows |
|---|---|---|
| `provider_two` | 2 providers, 2 threads, mode Off with selection, storage faults, store of 2 versions | the latch holds, tokens are unique, no stale password; one submission at a time, as `OneSubmission` says |
| `provider_live` | 1 provider, 2 threads, triggered and silent, 2 request ids | no password after `UnAdvise`; workers stop, rounds end, silent recognition goes on after a face that did not pass, triggered recognition listens again |
| `auth` | 1 session, 2 jobs, 2 grants, 1 policy change, Cancel | spent once, under its policy, as `OneTimeGrants` says; `running` ends |
| `sampling` | 2 sessions with agents, one watched; thresholds of 3, 2 and 3; quiet after 2 ticks, snapshots of 1 tick accepted | rounds follow quiet; lock, photograph and pause follow the streak |
| `presence` | 2 sessions by turns, 2 monitors, 1 job, faults, settings | lease, ownership of monitors, no watch over a locked desktop, and the three liveness properties |
| `setup` | 2 directories, 2 keys, 2 openers, 3 operations, an installer with and without an override of its own | the store's halves agree, the credential stays in use unless its place was forgotten, registered binaries exist |
| `camera` | 2 back ends, 3 frames, 2 failures, 2 matches, a quarter of spoofs, 2 worker processes | answers, device, evidence, revocation; rounds and revocations end |
| `enroll` | 2 attempts, 2 unanswered commands, 2 poses, one optional, held for 2 frames, 2 samples, 3 frames | one recording, which ends; finished templates with their poses only; a page that tells the truth and settles |
| `settings` | 2 cameras, 2 templates, 3 commands | consent, the issuer, switches |

Three runs expect a violation, each of one statement of the documentation:

| run | statement | what the code does |
|---|---|---|
| `auth_pending` | a wake during a job attaches to that job | between the job's outcome and its leaving `running`, a wake erases the outcome and waits for nothing |
| `camera_sampling` | each sampling round is bounded | the only limit is reset by every frame of a good stream: a detector that refuses each keeps the round, and the camera |
| `settings_binding` | reordering cannot redirect a camera that is bound | of two readers of an index, the slower one puts the device it found over the identity saved since |

Two more disagreements with the documents are known and have no run of their own:
- A worker whose `begin_wake_request` is Blocked (the user types within 3 s of a failed round,
  or another worker's wake is running) retires, and nobody may be left to listen to input;
  docs/UNLOCK_MODES_PRODUCT_CONTRACT.md:57 says that a failed round should not permanently
  suppress the next. `FailedRoundListens` shows what does hold: a worker that did begin a
  round waits for input after it.
- A changed `presence_lock_enabled` stops no running monitor, as
  docs/RUNTIME_SETTINGS_RELOAD_AND_INPUT_TRIGGER.md:18 says it does: nothing sends the command.

Three facts that contradict no document: an installation of before the pin can lose its
credential to `uninstall-service` or to the installer's own environment (above); a worker
that begins its request only after `UnAdvise` and the next `Advise` publishes into that
one; `Cancel` forgets a running job, and the next wake starts another beside it.

### Why the bounds are enough
Two threads per provider are the fewest with which one worker can hold a result while
another round is under way, and two providers the fewest that can race for the latch;
three generations admit refused, updated, submitted again; and the overflow at the fourth.
Two versions of the credential give one stale password. `provider_live` has two request
ids, so that a wake and an `UnAdvise` meet in one process life; `provider_two` has one,
which is enough for the race of two processes and keeps it small. One attempt beyond the
limit stands for all later ones (`AttemptAfter`) and keeps silent mode finite. Two jobs
are the fewest with an old and a new one at once; two grants the fewest that can be
confused; one policy change separates before and after; the clock has a grant fresh,
expired, and one issued after it. Counters and durations saturate, so `sampling` covers
any number of rounds and any length of time; a threshold of two ticks keeps one tick from
being quiet already, an age of one lets a snapshot grow old while its agent holds it, and
the second session's agent overwrites what the monitor reads. Two monitors are what
`MonitorsOwned` needs to fail; one authentication job contends with them for the lease.
Two desktops by turns give a Start that waits in the channel behind the Stop of the other.
`setup`: the directory of before the pin and the one of today; a second key is one made
after a deletion; three operations are install, remove and install again; the installer's
own override, if any, is the directory the service does not use. `camera`: one worker for
the holder of the lease and one that was killed and not gone; two back ends so that the
second opens while the first may linger; two matches among three frames leave room for one
frame between them, and a quarter is exceeded by one spoof among three; `camera_sampling`
needs one frame and one match. `enroll`: an attempt that is abandoned and its successor, a
command under way while another is issued; three frames are one more than a pose needs, so
that it can be lost once and still be held, or be lost too late. `settings`: two of what
can be replaced by the other; three commands are a load or change overtaken by two more.

`TypeOK` is proved for the modules of section 5 and therefore not checked again there.
Symmetry is used in runs that check no liveness property only. The deadlock check is off in
`enroll`, where the user may leave for good when the attempts of the bound are used.

## 4. Fairness
*Provider*: `WF` of each worker's own steps. Threads are scheduled, each sleep ends, and a
call of the service ends because the client gives the pipe up after 80 polls of 500 ms.
No fairness for LogonUI, the user's input, Windows' verdict, enrolment, cooldown.
*Service*: `WF` of each job's steps; authentication is bounded by `max_auth_frames`. `SF` of
`JobAcquires`: the issuer's mutex is released again and again while others take it, and
a waiter is assumed to get it eventually. None for clients, clock, configuration.
*Presence*: `WF` of the handler's send, the controller, the monitors, the poke and the end
of a request. The channel is unbounded in the code (`MaxCommands` bounds it); camera calls
are bounded by their time-outs. None for sessions, clients, authentication, service stop.
*Camera*: `WF` of the steps of the service's own threads, time-outs of reads and waits
included. None for worker processes, drivers, the detector, or what is before the camera:
`RoundsReleaseLease` says that a presence round ends or its detector refuses frames again and
again, for ever.
*Enrolment*: `WF` of the main thread, the delivery of replies, timers, the passing of time,
the start of a process and its reading of frames. The last is an assumption about the
driver, since `guided-enroll` has no time-out of its own: `RecordingEnds` is about cameras
that deliver. None for the user, for what the frames show, or for a camera being opened.
`Setup` and `ServiceSettings` are checked for safety only.

## 5. What is proved
For every value of the constants that satisfies the named assumptions
(`GuardAssumption`, `WakeModesAssumption`, `ProviderAssumption`, those of `AuthService`,
`PolicyAssumption`, `SamplingAssumption`, that of `PresenceService`, `CameraAssumption`,
`RoundAssumption`, `SettingsAssumption`, `StoreAssumption`, `SetupAssumption`,
`InstallerEnvAssumption`, `BoundsAssumption` of `FaceEnrollment`:
types and bounds of the constants; TLC evaluates them in every run of the module):

| module | theorem | statement |
|---|---|---|
| `CredentialProvider_proofs` | `TypeCorrect` | `Spec => []TypeOK` |
| | `LatchAlwaysHolds` | `Spec => []LatchHolds` |
| | `NeverRetriesAfterFailure` | `Spec => []NoRetryAfterFailure` |
| | `UnadvisedHoldNothing` | `Spec => []MaterialOnlyWhileAdvised` |
| | `NeverSubmitsStale` | `Spec => NoStaleSubmission` |
| | `TokensNeverReused` | `Spec => TokensAreUnique` |
| | `ProviderImplementsOneSubmission` | `Spec => ImplementsOneSubmission` |
| | `InductiveInvariantHolds` | `Spec => []IInv` |
| `AuthService_proofs` | `InvariantHolds`, `TypeCorrect` | `Spec => []IInv`, `Spec => []TypeOK` |
| | `SpentOnce` | `Spec => []GrantsSpentOnce` |
| | `OldPoliciesAreDead` | `Spec => OldPolicyNeverAuthorizes` |
| | `ServiceImplementsOneTimeGrants` | `Spec => ImplementsOneTimeGrants` |
| `PresenceSampling_proofs` | `InvariantHolds`, `TypeCorrect` | `Spec => []IInv`, `Spec => []TypeOK` |
| | `LocksOnlyConfirmed` | `Spec => []LockIffConfirmed` |
| | `RoundsAlwaysFollowStreaks` | `Spec => []RoundsFollowStreaks` |
| | `SamplesAlwaysFollowQuiet` | `Spec => SamplesFollowQuiet` |
| `PresenceService_proofs` | `InvariantHolds`, `TypeCorrect` | `Spec => []IInv`, `Spec => []TypeOK` |
| | `LeaseAlwaysConsistent` | `Spec => []LeaseConsistent` |
| | `MonitorsAlwaysOwned` | `Spec => []MonitorsOwned` |
| | `LockedAlwaysUnwatched` | `Spec => []LockedIsUnwatched` |
| `CameraRound_proofs` | `InvariantHolds`, `TypeCorrect` | `Spec => []IInv`, `Spec => []TypeOK` |
| | `AnswersAlwaysMatch` | `Spec => []AnswersMatchRequests` |
| | `DeviceAlwaysExclusive` | `Spec => []DeviceExclusive` |
| | `EvidenceHolds`, `AcceptsOnlyOnEvidence` | `Spec => []EvidenceInv`, `Spec => []AcceptsOnEvidence` |
| | `NeverCapturesRevoked` | `Spec => []NoCaptureAfterRevocation` |
| `ServiceSettings_proofs` | `InvariantHolds`, `TypeCorrect` | `Spec => []IInv`, `Spec => []TypeOK` |
| | `ConsentIsKept` | `Spec => []PermissionHasConsent` |
| | `IssuerAlwaysSaved` | `Spec => []IssuerIsSaved` |
| | `PageAlwaysShowsSaved` | `Spec => []PageShowsSaved` |
| `Setup_proofs` | `InvariantHolds`, `TypeCorrect` | `Spec => []IInv`, `Spec => []TypeOK` |
| | `StoreAlwaysAgrees` | `Spec => []StoreAgrees` |
| | `BinariesAlwaysExist` | `Spec => []RegisteredBinariesExist` |
| | `CredentialAlwaysInUse` | `Spec => []CredentialStaysInUse` |
| `FaceEnrollment_proofs` | `InvariantHolds`, `TypeCorrect` | `Spec => []IInv`, `Spec => []TypeOK` |
| | `OneRecordingAlways` | `Spec => []OneRecording` |
| | `OnlyFinishedAlways` | `Spec => []OnlyFinishedTemplates` |
| | `PageAlwaysTellsTruth` | `Spec => []PageTellsTruth` |

None of the safety properties is inductive. What each `IInv` adds, and why:

*Provider* (first types and `WorkersHoused`, then the parts about tokens and passwords;
one lemma per action, combined in a `Next` lemma):
- `GenerationsBounded`: tokens never lie ahead of the durable record. Without it a power
  loss could bring a token back that was handed out already; this is where the flush
  inside `reserve` is used.
- `SubmissionsOutstanding`: a provider's token is its own and undecided, so a late
  `ReportResult` cannot decide about another's submission.
- `WorkersHoused`: a worker's request is not ahead of its provider's.
- `LatchHolds` and `NoRetryAfterFailure` themselves: the second follows at a `reserve`
  from the first, because a Ready record can block only by an update passed since.
- `MaterialFresh`: what a provider or a current worker holds was read after the last
  update, unless its generation has passed; then `reserve` refuses it.
- `CallersAdvised`: a worker that is past the sink check and still current serves an
  advised provider; `UnAdvise` makes it stale by moving the request id.

The refinement of `OneSubmission` needs the parts about tokens only. A reservation finds
the guard ready, and then `LatchHolds` puts an update above whatever is unresolved
(`ReadyIsOpen`); an update's generation lies above every token by `GenerationsBounded`.

*Authentication service*: `SequenceFresh` (no number ahead of the counter is known
anywhere), `PoliciesPast` (no grant and no job is of a future policy), `OnOffer` (what
a cache the handler reads offers is of the policy in force), `SpentRemembered` (a spent
grant that has not expired is in the registry as spent). Most steps leave registry, history
and clock alone and share one lemma; `WakeManual`, `JobAcquires`, `JobAccepts` and the
policy changes have their own. The refinement follows from the invariant by three lemmas
about `Status`: time alone lets grants only age, a policy change lets them only die, and
the one action that issues a number gives birth to one grant.

*Presence sampling*: `PolicyInv` holds whatever round is recorded, by one lemma per
observation; its part `Counted` says that each counter is the length of the streak of its
kind. `DesktopInv` says the same of an agent's hand and of the file (`HeldIsTrue`,
`FileIsTrue`): a snapshot that reports quiet is at least as old as that quiet (`QuietIsNow`
gives the age zero at a capture), so that a snapshot young enough for the gate proves quiet
as recent.

*Presence service*: `ChannelBound`, `ControllerSane` (what the controller waits for is what
it owns), `OneHolder` (one thread between acquiring and dropping), beside `LeaseConsistent`
and `MonitorsOwned`. `LockedIsUnwatched` needs the order of the channel besides:
`LastIsStop` says that behind every start of a desktop in nobody's use there is a stop, so
that a monitor started from the head of the channel still has its stop behind it.

*Camera*: `CameraInv` is about providers and workers. `Linked`: while a provider waits,
its request or the answer to it is in the pipes, and nothing else; otherwise they are
empty. The turn number is therefore implied, as the code presumes by sending none.
`Freed`: a worker nobody has was killed or is gone. A provider that is not off has the
lease, and no two share a worker. `RoundInv` is about the rounds: `AuthSane` keeps the
counts within their limits, `Leased` gives a round under way the lease, `SnapshotSane` a
picture being taken the lock and a permission that no returned revocation has withdrawn.
`Poised` joins the two: a picture is taken between two frames. `EvidenceInv` joins the
history to the counters (`Backed`): the frames of every round, dark ones and interruptions
included, move both alike, but for the match that completes the required number, at which
the code starts its count again while the history keeps it until the round has ended. What
is accepted on follows.

*Settings*: `Attended` (the request under way is that of the first command), `Withdrawn`
(the permission is withdrawn before an opt-out is written, it and the issuer before a
configuration is loaded), `Settled` (the camera of a load under way is the one
saved, and no index is saved beside an identity in use).
`PageShowsSaved` needs an invariant of its own, `PageInv`, about every command, answer and
switch at once. Of the commands about a setting only the last is still heard (`OneHeard`);
an answer to it, and a switch that shows one, say what is saved, and nobody is left who
could change that (`AnsweredLast`, `ShownLast`). While the page has not asked for the
snapshots, the load it waits for is behind whatever was asked before the page opened
(`LoadLast`), and only such a page takes what a load says (`LoadedOrAsked`). What comes of an
enrolment is shown elsewhere (`EnrolsElsewhere`). `Served` ties the request under way to the
command at the head of the queue, so that only the setting that command is about can change.

*Store and set-up*: `OpenerSane` says what a process inside `open_service_credential_store`
may rely on: the key it has is the one that is there unless that was deleted, and a database
in use stays. `KeysKept`: no encrypted database without its key, which is what
`StoreAgrees` needs to survive the publication of a key. `Ahead` says what the earlier
steps of an operation established for the later ones: an installation registers only after
it pinned, and over the binary it found; a removal deletes the entry only after it pinned or
found none, and the DLL's registration only after `LogonUI` no longer enumerates it; the
removal of all data deletes only what was given up when it began. Here the sequence of
steps itself is used, so an exchange of two steps in `Steps` takes its proofs with it.
`CredentialStaysInUse` then says of each step that moves the store in use, a pin or the loss
of an entry, that the directory left behind is in `forgotten` if a credential is kept there.

*Enrolment*: `BackendInv` relates processes and sessions: a living process belongs to a
session that is not over and there is one such session, a completed session to a process
that ended well, and such a process to a whole file with its poses, because a recording
holds a sample of every required pose behind it (`RecordingFine`). Every command of the
back end is a `Moves` of each session, which `BackendInv` survives. `PageInv` is about the
queue of commands, which the main thread answers from the front: what an answer says of a
session that is over stays true (`RepliesFine`), one command at a time may start or cancel
(`OneCommand`), and only the youngest check and the youngest finish count, because no start
is under way before them (`CheckFine`, `FinishFine`). The steps of the page differ in what
they take from the queue's front and add to its end; `Queued` says so once for all, and the
lemmas `RepliesKept` to `PageKept` what survives it.

## 6. Only model-checked
Every safety property a passing run checks is a theorem; those of the violation runs are
false of the code. All liveness is left to TLC: it rests on
fairness, hence on `ENABLED`, which the provers cannot reason about. The finite instances
of section 3 are what is known of it.

## 7. Not modelled
Numerical inference (face, pose, liveness), image statistics, camera drivers, encryption,
COM and Win32 plumbing, layout of messages, presentation, the retained third-party project
`FaceWinUnlock-Tauri-main`, one-shot diagnostics commands, bootstrapper, logging: they keep
no state between two steps, or no property could be stated of them here. The named pipe
appears as what it does to its two ends. Most lines of the repository belong to these: the
models cover its state machines. Time is abstracted to "has elapsed or not" in the provider
and in the enrolment, and to the order of instants in the service; that a wake right after
a lock waits two seconds for a camera a presence round may hold longer is outside the
models. The wall clock is assumed never to be set back.

## 8. Plan
1. An abstract specification of an enrolment (asked for, recorded, applied or given up, once)
   that `FaceEnrollment` implements, with `BackendInv` and `PageInv` behind the refinement.
2. The same for the camera: one user at a time, who looks only while permitted, implemented
   by `CameraRound` over `IsolatedCamera`.

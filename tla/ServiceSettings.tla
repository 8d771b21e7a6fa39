--------------------------- MODULE ServiceSettings ---------------------------
(***************************************************************************)
(* The settings of the service: the page that shows and changes them, the  *)
(* back end that passes a change to the service, the registry values the   *)
(* service writes one by one, and the configuration it loads from them at  *)
(* its start and after a change.                                           *)
(*                                                                         *)
(* Two settings stand for all.  presence_lock is shown as changed at once  *)
(* and taken back on failure, as are the wake mode and the two thresholds; *)
(* intruder_snap, the permission to keep pictures of strangers, is shown   *)
(* as changed when the service confirmed it.  A camera is bound by its     *)
(* identity; configurations of before that name an enumeration index,      *)
(* which today's enumeration turns into an identity, or does not.  The     *)
(* controller of the presence monitors loads the configuration as well, in *)
(* a thread of its own, and binds such a camera too.                       *)
(***************************************************************************)
EXTENDS Naturals, Sequences

CONSTANTS
  Cameras,      \* identities of devices
  Templates,    \* files of face templates
  MaxCalls,     \* bound: calls under way at which the user stops clicking
  Index,        \* a camera named by its place in the enumeration
  None

\* What can be asked of the service.
Changes == [op : {"lock", "snap"}, value : BOOLEAN]
           \cup [op : {"bind"}, template : Templates, camera : Cameras \cup {Index}]

ASSUME SettingsAssumption ==
  /\ MaxCalls \in Nat
  /\ Index \notin Cameras /\ None \notin Cameras \cup Templates \cup Changes

VARIABLES
  saved,      \* the registry
  service,    \* its state, and the step of the request it is at
  issuer,     \* local_camera_issuer: the template and camera it uses, or None
  binding,    \* reader of an index -> the identity it is about to persist, or None
  permits,    \* SnapshotPolicy: may the current one capture, may an older one?
  torn,       \* history: values were written beside what is loaded, see IssuerIsSaved
  calls,      \* control commands in the order of their issue; the first is run
  replies,    \* answers on their way that the page still waits for
  page        \* useSettingsArea

vars == << saved, service, issuer, binding, permits, torn, calls, replies, page >>

-----------------------------------------------------------------------------

LocalCamera == [template : Templates, camera : Cameras]

\* The registry values of apply_local_camera_auth_config in the order of writing;
\* the paths of the models after them are the same for every enrolment.
Fields == << "mode", "template", "camera" >>

Saved == [mode : {"manual-test", "local-camera"}, template : Templates \cup {None},
          camera : Cameras \cup {Index}, lock : BOOLEAN, snap : BOOLEAN]

\* persist: about to write value number field of a change; reload, load: in
\* reload_from_environment, camera: the identity it has read or bound.
Serving == [change : Changes \cup {None}, field : 1..Len(Fields), camera : Cameras \cup {None},
            step : {"down", "starting", "idle", "persist", "reload", "load"}]

At(step) == [change |-> None, field |-> 1, camera |-> None, step |-> step]

\* The pipe thread, and the controller that starts a monitor.
Readers == {"service", "monitor"}

\* No change: the settings are asked for.  heard: the page that asked is still
\* there, and did not ask for another value of the same setting since.
Calls == [change : Changes \cup {None}, previous : BOOLEAN, heard : BOOLEAN]
Replies == [change : Changes \cup {None}, previous : BOOLEAN, done : BOOLEAN,
            lock : BOOLEAN, snap : BOOLEAN]

\* What the switches show, and where they have it from.
Sources == {"default", "load", "request", "update", "failure"}
Pages == [lock : BOOLEAN, snap : BOOLEAN, pending : BOOLEAN, asked : BOOLEAN,
          lockFrom : Sources, snapFrom : Sources]

TypeOK ==
  /\ saved \in Saved
  /\ service \in Serving
  /\ issuer \in LocalCamera \cup {None}
  /\ binding \in [Readers -> Cameras \cup {None}]
  /\ permits \in [current : BOOLEAN, older : BOOLEAN]
  /\ torn \in BOOLEAN
  /\ calls \in Seq(Calls) /\ Len(calls) <= MaxCalls + 1
  /\ replies \subseteq Replies
  /\ page \in Pages

-----------------------------------------------------------------------------
(* The page                                                                *)

Call(change, previous, heard) == [change |-> change, previous |-> previous, heard |-> heard]

\* The user waits for some commands before more.
MayAsk == Len(calls) < MaxCalls

\* autoLock is TRUE and intruderSnap FALSE until the first load is answered.
FreshPage == [lock |-> TRUE, snap |-> FALSE, pending |-> FALSE, asked |-> FALSE,
              lockFrom |-> "default", snapFrom |-> "default"]

Concerns(call, op) == call.change # None /\ call.change.op = op

Unheard(call) == [call EXCEPT !.previous = FALSE, !.heard = FALSE]

\* The request number of the setting moves on: what was asked before is out of date.
Asks(op, value, previous) ==
  /\ calls' = Append([i \in DOMAIN calls |-> IF Concerns(calls[i], op) THEN Unheard(calls[i]) ELSE calls[i]],
                     Call([op |-> op, value |-> value], previous, TRUE))
  /\ replies' = {reply \in replies : ~Concerns(reply, op)}

\* The user leaves the settings, and comes back to a page that knows nothing.
PageRemounts ==
  /\ MayAsk
  /\ page' = FreshPage
  /\ calls' = Append([i \in DOMAIN calls |-> Unheard(calls[i])], Call(None, FALSE, TRUE))
  /\ replies' = {}
  /\ UNCHANGED << saved, service, issuer, binding, permits, torn >>

changeAutoLock(value) ==
  /\ MayAsk
  /\ value # page.lock
  /\ page' = [page EXCEPT !.lock = value, !.lockFrom = "request"]
  /\ Asks("lock", value, page.lock)
  /\ UNCHANGED << saved, service, issuer, binding, permits, torn >>

changeIntruderSnap(value) ==
  /\ MayAsk
  /\ value # page.snap
  /\ ~page.pending
  /\ page' = [page EXCEPT !.pending = TRUE, !.asked = TRUE, !.snapFrom = "request"]
  /\ Asks("snap", value, FALSE)
  /\ UNCHANGED << saved, service, issuer, binding, permits, torn >>

\* finish_face_enrollment of FaceEnrollment, one at a time; what its page makes
\* of the answer is told there.
Enrols(template, camera) ==
  /\ MayAsk
  /\ \A i \in DOMAIN calls : ~Concerns(calls[i], "bind")
  /\ calls' = Append(calls, Call([op |-> "bind", template |-> template, camera |-> camera], FALSE, FALSE))
  /\ UNCHANGED << saved, service, issuer, binding, permits, torn, replies, page >>

\* Mutant: any answer may set the switch.
AfterLoad_Unguarded(reply) ==
  [page EXCEPT !.lock = reply.lock, !.lockFrom = "load", !.snap = reply.snap, !.snapFrom = "load"]

\* The first answer sets the lock whatever the user did meanwhile, and the
\* snapshots unless they were asked for.
AfterLoad(reply) ==
  [page EXCEPT !.lock = reply.lock, !.lockFrom = "load",
               !.snap = IF page.asked THEN @ ELSE reply.snap,
               !.snapFrom = IF page.asked THEN @ ELSE "load"]

\* Taken back to what the page showed when it asked.
AfterLock(reply) ==
  IF reply.done THEN [page EXCEPT !.lock = reply.lock, !.lockFrom = "update"]
                ELSE [page EXCEPT !.lock = reply.previous, !.lockFrom = "failure"]

AfterSnap(reply) ==
  IF reply.done /\ reply.snap = reply.change.value
  THEN [page EXCEPT !.pending = FALSE, !.snap = reply.change.value, !.snapFrom = "update"]
  ELSE [page EXCEPT !.pending = FALSE, !.snapFrom = "failure"]

\* Promises settle in any order.
ReplyArrives(reply) ==
  /\ replies' = replies \ {reply}
  /\ page' = IF reply.change = None THEN IF reply.done THEN AfterLoad(reply) ELSE page
             ELSE IF reply.change.op = "lock" THEN AfterLock(reply)
             ELSE AfterSnap(reply)
  /\ UNCHANGED << saved, service, issuer, binding, permits, torn, calls >>

-----------------------------------------------------------------------------
(* The back end                                                            *)

Running == Head(calls)

\* The main thread goes on to the next command.  A change whose event was
\* AuthConfigReloaded, or a load, is answered with the values as they are then,
\* when they can be read.
Answers(done) ==
  /\ calls' = Tail(calls)
  /\ \E read \in {done, FALSE} :
       replies' = IF ~Running.heard THEN replies
                  ELSE replies \cup {[change |-> Running.change, previous |-> Running.previous,
                                     done |-> read,
                                     lock |-> read /\ saved'.lock, snap |-> read /\ saved'.snap]}

\* get_settings asks nobody but the registry.
SettingsAreRead ==
  /\ calls # << >> /\ Running.change = None
  /\ UNCHANGED << saved, service, issuer, binding, permits, torn, page >>
  /\ Answers(TRUE)

\* No pipe to connect to.
ServiceUnreachable ==
  /\ calls # << >> /\ Running.change # None
  /\ service.step \in {"down", "starting"}
  /\ UNCHANGED << saved, service, issuer, binding, permits, torn, page >>
  /\ Answers(FALSE)

-----------------------------------------------------------------------------
(* The service                                                             *)

Revoked == [permits EXCEPT !.current = FALSE]

\* Mutant: the permission is withdrawn by the reload only.
UpdateBegins_NoRevoke ==
  /\ calls # << >> /\ service.step = "idle"
  /\ Running.change # None /\ Running.change.op \in {"lock", "snap"}
  /\ service' = [At("persist") EXCEPT !.change = Running.change]
  /\ UNCHANGED << saved, issuer, binding, permits, torn, calls, replies, page >>

\* update_settings: an opt-out is in force before it is written.
UpdateBegins ==
  /\ calls # << >> /\ service.step = "idle"
  /\ Running.change # None /\ Running.change.op \in {"lock", "snap"}
  /\ service' = [At("persist") EXCEPT !.change = Running.change]
  /\ permits' = IF Running.change.op = "snap" /\ ~Running.change.value THEN Revoked ELSE permits
  /\ UNCHANGED << saved, issuer, binding, torn, calls, replies, page >>

\* video_provider::resolve_camera_id: an identity that is plugged in now.
Resolves(camera) == IF camera = Index THEN Cameras ELSE {camera}

\* apply_local_camera_auth_config: the camera is looked for before anything is written.
BindBegins ==
  /\ calls # << >> /\ service.step = "idle"
  /\ Concerns(Running, "bind")
  /\ UNCHANGED << saved, issuer, binding, permits, torn, page >>
  /\ \/ /\ \E camera \in Resolves(Running.change.camera) :
             service' = [At("persist") EXCEPT !.change = [Running.change EXCEPT !.camera = camera]]
        /\ UNCHANGED << calls, replies >>
     \/ service' = At("idle") /\ Answers(FALSE)

\* With the value of an enrolment the service is at.
Bound ==
  CASE Fields[service.field] = "mode"     -> [saved EXCEPT !.mode = "local-camera"]
    [] Fields[service.field] = "template" -> [saved EXCEPT !.template = service.change.template]
    [] Fields[service.field] = "camera"   -> [saved EXCEPT !.camera = service.change.camera]

Written ==
  CASE service.change.op = "lock" -> [saved EXCEPT !.lock = service.change.value]
    [] service.change.op = "snap" -> [saved EXCEPT !.snap = service.change.value]
    [] service.change.op = "bind" -> Bound

IsOptOut == service.change.op = "snap" /\ ~service.change.value

\* An opt-out needs no reload: it must not fail for want of a camera.
Persists ==
  /\ service.step = "persist"
  /\ saved' = Written
  /\ torn' = (torn \/ service.change.op = "bind")
  /\ UNCHANGED << issuer, binding, permits, page >>
  /\ IF IsOptOut THEN service' = At("idle") /\ Answers(TRUE)
     ELSE /\ UNCHANGED << calls, replies >>
          /\ service' = IF service.change.op = "bind" /\ service.field < Len(Fields)
                        THEN [service EXCEPT !.field = @ + 1]
                        ELSE [service EXCEPT !.step = "reload"]

\* What was written stays written, and the issuer as it was.
PersistFails ==
  /\ service.step = "persist"
  /\ service' = At("idle")
  /\ UNCHANGED << saved, issuer, binding, permits, torn, page >>
  /\ Answers(FALSE)

\* update_control_settings reads all settings back: one that cannot be read fails
\* the request after its value was written.
WrittenUnread ==
  /\ service.step = "persist" /\ service.change.op # "bind"
  /\ saved' = Written
  /\ service' = At("idle")
  /\ UNCHANGED << issuer, binding, permits, torn, page >>
  /\ Answers(FALSE)

\* reload_with_config_loader: nothing of the old configuration outlives a failure.
Reloads ==
  /\ service.step = "reload"
  /\ service' = [service EXCEPT !.step = "load"]
  /\ permits' = Revoked
  /\ issuer' = None
  /\ UNCHANGED << saved, binding, torn, calls, replies, page >>

Loading == service.step \in {"starting", "load"}

Unbound == [binding EXCEPT !["service"] = None]

Loaded(new_issuer, permission) ==
  /\ issuer' = new_issuer
  /\ permits' = [current |-> permission, older |-> permits.older \/ permits.current]
  /\ binding' = Unbound
  /\ service' = At("idle")
  /\ UNCHANGED << saved, torn, page >>
  /\ IF service.step = "load" THEN Answers(TRUE) ELSE UNCHANGED << calls, replies >>

LoadsManualTest == Loading /\ saved.mode = "manual-test" /\ Loaded(None, FALSE)

ReadsLocalCamera ==
  Loading /\ saved.mode = "local-camera" /\ saved.template # None /\ service.camera = None

\* A bound camera may be unplugged; its identity is kept for the day it is back.
ReadsIdentity ==
  /\ ReadsLocalCamera /\ binding["service"] = None
  /\ saved.camera # Index
  /\ service' = [service EXCEPT !.camera = saved.camera]
  /\ torn' = FALSE
  /\ UNCHANGED << saved, issuer, binding, permits, calls, replies, page >>

\* resolve_persisted_camera_binding finds today's device at the index, here or in
\* start_presence_monitor_thread.
ResolvesIndex(reader) ==
  /\ IF reader = "service" THEN ReadsLocalCamera
     ELSE service.step # "down" /\ saved.mode = "local-camera" /\ saved.template # None
  /\ binding[reader] = None
  /\ saved.camera = Index
  /\ \E camera \in Resolves(Index) : binding' = [binding EXCEPT ![reader] = camera]
  /\ UNCHANGED << saved, service, issuer, permits, torn, calls, replies, page >>

\* Mutant: the identity is used without being written.
BindsIndex_Forgets(reader) ==
  /\ binding[reader] # None
  /\ binding' = [binding EXCEPT ![reader] = None]
  /\ IF reader = "service" THEN /\ service' = [service EXCEPT !.camera = binding[reader]]
                                /\ torn' = FALSE
     ELSE UNCHANGED << service, torn >>
  /\ UNCHANGED << saved, issuer, permits, calls, replies, page >>

\* ... and it is the camera from now on, whatever was bound since.
BindsIndex(reader) ==
  /\ binding[reader] # None
  /\ saved' = [saved EXCEPT !.camera = binding[reader]]
  /\ binding' = [binding EXCEPT ![reader] = None]
  /\ IF reader = "service" THEN /\ service' = [service EXCEPT !.camera = binding[reader]]
                                /\ torn' = FALSE
     ELSE /\ torn' = (torn \/ saved.camera # Index)
          /\ UNCHANGED service
  /\ UNCHANGED << issuer, permits, calls, replies, page >>

\* Its identity cannot be written: no monitor.
MonitorUnbound ==
  /\ binding["monitor"] # None
  /\ binding' = [binding EXCEPT !["monitor"] = None]
  /\ UNCHANGED << saved, service, issuer, permits, torn, calls, replies, page >>

LoadsLocalCamera ==
  /\ Loading /\ service.camera # None
  /\ Loaded([template |-> saved.template, camera |-> service.camera], saved.snap)

\* No device at the index, or its identity cannot be written: a reload fails,
\* a start goes on without the camera.
CameraUnavailable ==
  /\ ReadsLocalCamera
  /\ saved.camera = Index \/ binding["service"] # None
  /\ IF service.step = "starting" THEN Loaded(None, FALSE)
     ELSE /\ service' = At("idle")
          /\ binding' = Unbound
          /\ UNCHANGED << saved, issuer, permits, torn, page >>
          /\ Answers(FALSE)

\* A value cannot be read, no template is named, or it or a model cannot be loaded.
LoadFails ==
  /\ Loading
  /\ UNCHANGED << saved, issuer, permits, torn, page >>
  /\ \/ /\ service.step = "starting" /\ service' = At("down")
        /\ binding' = [reader \in Readers |-> None]
        /\ UNCHANGED << calls, replies >>
     \/ /\ service.step = "load" /\ service' = At("idle")
        /\ binding' = Unbound
        /\ Answers(FALSE)

ServiceStarts ==
  /\ service.step = "down"
  /\ service' = At("starting")
  /\ UNCHANGED << saved, issuer, binding, permits, torn, calls, replies, page >>

\* At any moment; whoever waits for it finds the pipe broken.
ServiceDies ==
  /\ service.step # "down"
  /\ service' = At("down")
  /\ issuer' = None
  /\ binding' = [reader \in Readers |-> None]
  /\ permits' = [current |-> FALSE, older |-> FALSE]
  /\ UNCHANGED << saved, torn, page >>
  /\ IF service.step \in {"persist", "reload", "load"} THEN Answers(FALSE) ELSE UNCHANGED << calls, replies >>

-----------------------------------------------------------------------------

Init ==
  /\ saved \in {s \in Saved : s.mode = "local-camera" => s.template # None}
  /\ service = At("down")
  /\ issuer = None
  /\ binding = [reader \in Readers |-> None]
  /\ permits = [current |-> FALSE, older |-> FALSE]
  /\ torn = FALSE
  /\ calls = << Call(None, FALSE, TRUE) >>
  /\ replies = {}
  /\ page = FreshPage

PageStep ==
  \/ PageRemounts
  \/ \E value \in BOOLEAN : changeAutoLock(value) \/ changeIntruderSnap(value)
  \/ \E template \in Templates, camera \in Cameras \cup {Index} : Enrols(template, camera)

BackendStep == SettingsAreRead \/ ServiceUnreachable

ServiceStep ==
  \/ UpdateBegins \/ BindBegins \/ Persists \/ PersistFails \/ WrittenUnread \/ Reloads
  \/ LoadsManualTest \/ ReadsIdentity \/ LoadsLocalCamera \/ CameraUnavailable \/ LoadFails
  \/ \E reader \in Readers : ResolvesIndex(reader) \/ BindsIndex(reader)
  \/ MonitorUnbound

ReplyStep == \E reply \in replies : ReplyArrives(reply)

Next == PageStep \/ BackendStep \/ ServiceStep \/ ReplyStep \/ ServiceStarts \/ ServiceDies

Spec == Init /\ [][Next]_vars

-----------------------------------------------------------------------------
(* Properties                                                              *)

\* No policy, of this configuration or of one before it, lets a stranger's
\* picture be kept while the registry says no: neither while a change is
\* written, nor when one step of it fails, nor after a restart
\* (update_settings, reload_with_config_loader, snapshot_policy.rs).
PermissionHasConsent == permits.current \/ permits.older => saved.snap

\* What recognises faces now is what would after a restart: the template and
\* the camera that are saved, the latter by its identity, except from the
\* first value of an enrolment written, or from a monitor start that put the
\* identity it had resolved over another, until a configuration is read again
\* (resolve_persisted_camera_binding, apply_local_camera_auth_config).
IssuerIsSaved ==
  issuer # None /\ ~torn => /\ issuer.template = saved.template
                            /\ issuer.camera = saved.camera

\* CAMERA_BACKEND_PROFILING, of a camera named by its index: after migration,
\* reordering or an identically named replacement cannot redirect that binding;
\* startup must not select a replacement (resolve_persisted_camera_binding).
\* Once an identity is saved, only an enrolment puts another in its place.
BindingKept ==
  [][saved.camera \in Cameras /\ saved'.camera # saved.camera =>
       service.step = "persist" /\ service.change.op = "bind"]_vars

\* With nothing under way, a setting the page shows on an update's word, or
\* the snapshots it shows on the first load's, is the one saved, whatever the
\* order in which answers came (useSettingsArea).
PageShowsSaved ==
  calls = << >> /\ replies = {} =>
    /\ page.lockFrom = "update" => page.lock = saved.lock
    /\ page.snapFrom \in {"load", "update"} => page.snap = saved.snap
=============================================================================

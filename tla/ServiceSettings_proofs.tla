------------------------ MODULE ServiceSettings_proofs ------------------------
(***************************************************************************)
(* Proofs about ServiceSettings, for any devices, templates and number of  *)
(* commands under way.                                                     *)
(***************************************************************************)
EXTENDS ServiceSettings, TLAPS

USE SettingsAssumption

-----------------------------------------------------------------------------
(* Types                                                                   *)

LEMMA FieldsTyped == Fields \in Seq({"mode", "template", "camera"}) /\ Len(Fields) = 3
  BY DEF Fields

LEMMA AtTyped == \A step \in {"down", "starting", "idle", "persist", "reload", "load"} : At(step) \in Serving
  BY FieldsTyped DEF At, Serving

LEMMA CallTyped ==
  ASSUME NEW change \in Changes \cup {None}, NEW previous \in BOOLEAN, NEW heard \in BOOLEAN
  PROVE  Call(change, previous, heard) \in Calls
  BY DEF Call, Calls

LEMMA AsksTyped ==
  ASSUME TypeOK, MayAsk,
         NEW new \in [DOMAIN calls -> Calls], NEW call \in Calls,
         calls' = Append(new, call)
  PROVE  calls' \in Seq(Calls) /\ Len(calls') <= MaxCalls + 1
<1>1. new \in Seq(Calls) /\ Len(new) = Len(calls)
  <2>1. DOMAIN calls = 1..Len(calls) /\ Len(calls) \in Nat
    BY DEF TypeOK
  <2> QED
    BY <2>1
<1> QED
  BY <1>1 DEF TypeOK, MayAsk

\* Whatever happens to a call the page no longer waits for.
LEMMA UnheardTyped == \A call \in Calls : Unheard(call) \in Calls
  BY DEF Unheard, Calls

LEMMA AskTyped ==
  ASSUME TypeOK, MayAsk, NEW op \in {"lock", "snap"}, NEW value \in BOOLEAN, NEW previous \in BOOLEAN,
         Asks(op, value, previous)
  PROVE  /\ calls' \in Seq(Calls) /\ Len(calls') <= MaxCalls + 1
         /\ replies' \subseteq Replies
<1> DEFINE new == [i \in DOMAIN calls |-> IF Concerns(calls[i], op) THEN Unheard(calls[i]) ELSE calls[i]]
           call == Call([op |-> op, value |-> value], previous, TRUE)
<1>1. new \in [DOMAIN calls -> Calls]
  BY UnheardTyped DEF TypeOK
<1>2. call \in Calls
  BY CallTyped DEF Changes
<1>3. calls' = Append(new, call)
  BY DEF Asks
<1> HIDE DEF new, call
<1>4. calls' \in Seq(Calls) /\ Len(calls') <= MaxCalls + 1
  BY <1>1, <1>2, <1>3, AsksTyped
<1>5. replies' \subseteq Replies
  BY DEF Asks, TypeOK
<1> QED
  BY <1>4, <1>5

\* The first command stays the first.
LEMMA HeadStays ==
  ASSUME TypeOK, NEW new \in [DOMAIN calls -> Calls], NEW call, calls' = Append(new, call),
         \A i \in DOMAIN calls : new[i].change = calls[i].change
  PROVE  calls # << >> => calls' # << >> /\ Running'.change = Running.change
<1>1. DOMAIN calls = 1..Len(calls) /\ Len(calls) \in Nat
  BY DEF TypeOK
<1>2. new \in Seq(Calls) /\ Len(new) = Len(calls)
  BY <1>1
<1>3. ASSUME calls # << >> PROVE calls' # << >> /\ Head(calls').change = Head(calls).change
  <2>1. Len(calls) > 0 /\ 1 \in DOMAIN calls
    BY <1>1, <1>3 DEF TypeOK
  <2>2. Head(Append(new, call)) = new[1] /\ Append(new, call) # << >>
    BY <1>2, <2>1
  <2>3. Head(calls) = calls[1]
    BY <2>1 DEF TypeOK
  <2> QED
    BY <2>1, <2>2, <2>3
<1> QED
  BY <1>3 DEF Running

LEMMA AskKeepsHead ==
  ASSUME TypeOK, NEW op, NEW value, NEW previous, Asks(op, value, previous)
  PROVE  calls # << >> => calls' # << >> /\ Running'.change = Running.change
<1> DEFINE new == [i \in DOMAIN calls |-> IF Concerns(calls[i], op) THEN Unheard(calls[i]) ELSE calls[i]]
           call == Call([op |-> op, value |-> value], previous, TRUE)
<1>1. new \in [DOMAIN calls -> Calls]
  BY UnheardTyped DEF TypeOK
<1>2. calls' = Append(new, call)
  BY DEF Asks
<1>3. \A i \in DOMAIN calls : new[i].change = calls[i].change
  BY DEF Unheard, TypeOK, Calls
<1> HIDE DEF new, call
<1> QED
  BY <1>1, <1>2, <1>3, HeadStays

LEMMA AnswersTyped ==
  ASSUME TypeOK, calls # << >>, saved' \in Saved, NEW done \in BOOLEAN, Answers(done)
  PROVE  /\ calls' \in Seq(Calls) /\ Len(calls') <= MaxCalls + 1
         /\ replies' \subseteq Replies
<1>1. calls' \in Seq(Calls) /\ Len(calls') <= MaxCalls + 1
  BY DEF Answers, TypeOK
<1>2. Running \in Calls
  BY DEF Running, TypeOK
<1>3. PICK read \in {done, FALSE} :
        replies' = IF ~Running.heard THEN replies
                   ELSE replies \cup {[change |-> Running.change, previous |-> Running.previous,
                                       done |-> read,
                                       lock |-> read /\ saved'.lock, snap |-> read /\ saved'.snap]}
  BY DEF Answers
<1>4. saved'.lock \in BOOLEAN /\ saved'.snap \in BOOLEAN
  BY DEF Saved
<1>5. [change |-> Running.change, previous |-> Running.previous, done |-> read,
       lock |-> read /\ saved'.lock, snap |-> read /\ saved'.snap] \in Replies
  BY <1>2, <1>4 DEF Calls, Replies
<1>6. replies' \subseteq Replies
  BY <1>3, <1>5 DEF TypeOK
<1> QED
  BY <1>1, <1>6

-----------------------------------------------------------------------------
(* The inductive invariant                                                 *)

Busy == service.step \in {"persist", "reload", "load"}

\* A request the service is at is the command the back end waits in.
Attended ==
  /\ Busy => calls # << >> /\ Running.change # None
  /\ service.step = "persist" => service.change \in Changes

\* What must be withdrawn before a value is written or a configuration loaded is.
Withdrawn ==
  /\ ~permits.older
  /\ service.step \in {"down", "starting", "load"} => ~permits.current /\ issuer = None
  /\ service.step = "persist" /\ IsOptOut => ~permits.current

\* The camera of a load under way is the saved one, as the issuer's is, and no
\* index is saved beside an identity in use: who resolved one can only put it
\* over another identity.
Settled ==
  /\ binding["service"] # None \/ service.camera # None => Loading /\ saved.template # None
  /\ service.camera # None => saved.camera # Index
  /\ service.camera # None /\ ~torn => service.camera = saved.camera
  /\ issuer # None => saved.camera # Index
  /\ service.step = "persist" /\ service.change.op = "bind" => service.change.camera # Index

IInv == TypeOK /\ Attended /\ Withdrawn /\ Settled /\ PermissionHasConsent /\ IssuerIsSaved

\* The parts that look neither at the page nor at the commands.
ServiceInv == Withdrawn /\ Settled /\ PermissionHasConsent /\ IssuerIsSaved

LEMMA InitEstablishes == Init => IInv
<1> SUFFICES ASSUME Init PROVE IInv
  OBVIOUS
<1>1. calls \in Seq(Calls) /\ Len(calls) <= MaxCalls + 1
  <2> DEFINE call == Call(None, FALSE, TRUE)
  <2>1. call \in Calls
    BY CallTyped
  <2>2. calls = << call >>
    BY DEF Init
  <2> HIDE DEF call
  <2> QED
    BY <2>1, <2>2
<1>2. service \in Serving
  BY AtTyped DEF Init
<1>3. TypeOK
  BY <1>1, <1>2 DEF Init, TypeOK, FreshPage, Pages, Sources
<1> QED
  BY <1>3 DEF Init, IInv, Attended, Busy, Withdrawn, Settled, Loading, Readers, PermissionHasConsent, IssuerIsSaved, At

-----------------------------------------------------------------------------
(* The page and the back end leave the service alone.                      *)

LEMMA PageKeeps ==
  ASSUME IInv, UNCHANGED << saved, service, issuer, binding, permits, torn >>,
         calls' \in Seq(Calls), Len(calls') <= MaxCalls + 1, replies' \subseteq Replies,
         page' \in Pages,
         Busy => calls' # << >> /\ Running'.change # None
  PROVE  IInv'
<1>1. TypeOK'
  BY DEF IInv, TypeOK
<1>2. Attended'
  BY DEF IInv, Attended, Busy, Running
<1>3. ServiceInv'
  BY DEF IInv, ServiceInv, Withdrawn, Settled, Loading, IsOptOut, PermissionHasConsent, IssuerIsSaved
<1> QED
  BY <1>1, <1>2, <1>3 DEF IInv, ServiceInv

LEMMA PageStepKeeps == ASSUME IInv, PageStep PROVE IInv'
<1>0. TypeOK /\ Attended /\ calls \in Seq(Calls)
  BY DEF IInv, TypeOK
<1>1. CASE PageRemounts
  <2> DEFINE new == [i \in DOMAIN calls |-> Unheard(calls[i])]
             call == Call(None, FALSE, TRUE)
  <2>1. new \in [DOMAIN calls -> Calls]
    <3>1. \A i \in DOMAIN calls : calls[i] \in Calls
      BY <1>0
    <3> QED
      BY <3>1, UnheardTyped
  <2>0. calls' = Append(new, call)
    BY <1>1 DEF PageRemounts
  <2>2. call \in Calls
    BY CallTyped
  <2>3. \A i \in DOMAIN calls : new[i].change = calls[i].change
    <3>1. \A i \in DOMAIN calls : calls[i] \in Calls
      BY <1>0
    <3> QED
      BY <3>1 DEF Unheard, Calls
  <2> HIDE DEF new, call
  <2>4. calls' \in Seq(Calls) /\ Len(calls') <= MaxCalls + 1
    BY <1>0, <1>1, <2>0, <2>1, <2>2, AsksTyped DEF PageRemounts
  <2>5. Busy => calls' # << >> /\ Running'.change # None
    BY <1>0, <2>0, <2>1, <2>3, HeadStays DEF Attended
  <2>6. FreshPage \in Pages
    BY DEF FreshPage, Pages, Sources
  <2> QED
    BY <1>1, <2>4, <2>5, <2>6, PageKeeps DEF PageRemounts
<1>2. ASSUME NEW value \in BOOLEAN, changeAutoLock(value) PROVE IInv'
  <2>1. page.lock \in BOOLEAN
    BY <1>0 DEF TypeOK, Pages
  <2>2. calls' \in Seq(Calls) /\ Len(calls') <= MaxCalls + 1 /\ replies' \subseteq Replies
    BY <1>0, <1>2, <2>1, AskTyped DEF changeAutoLock
  <2>3. Busy => calls' # << >> /\ Running'.change # None
    BY <1>0, <1>2, AskKeepsHead DEF changeAutoLock, Attended
  <2> QED
    BY <1>0, <1>2, <2>2, <2>3, PageKeeps DEF changeAutoLock, Pages, Sources, TypeOK
<1>3. ASSUME NEW value \in BOOLEAN, changeIntruderSnap(value) PROVE IInv'
  <2>2. calls' \in Seq(Calls) /\ Len(calls') <= MaxCalls + 1 /\ replies' \subseteq Replies
    BY <1>0, <1>3, AskTyped DEF changeIntruderSnap
  <2>3. Busy => calls' # << >> /\ Running'.change # None
    BY <1>0, <1>3, AskKeepsHead DEF changeIntruderSnap, Attended
  <2> QED
    BY <1>0, <1>3, <2>2, <2>3, PageKeeps DEF changeIntruderSnap, Pages, Sources, TypeOK
<1>4. ASSUME NEW template \in Templates, NEW camera \in Cameras \cup {Index}, Enrols(template, camera)
      PROVE  IInv'
  <2> DEFINE call == Call([op |-> "bind", template |-> template, camera |-> camera], FALSE, FALSE)
  <2>1. call \in Calls
    BY CallTyped DEF Changes
  <2> HIDE DEF call
  <2>2. calls' = Append(calls, call)
    BY <1>4 DEF Enrols, call
  <2>0. calls \in [DOMAIN calls -> Calls]
    BY <1>0
  <2>3. calls' \in Seq(Calls) /\ Len(calls') <= MaxCalls + 1
    BY <1>0, <1>4, <2>0, <2>1, <2>2, AsksTyped DEF Enrols
  <2>4. Busy => calls' # << >> /\ Running'.change # None
    BY <1>0, <2>0, <2>2, HeadStays DEF Attended
  <2> QED
    BY <1>0, <1>4, <2>3, <2>4, PageKeeps DEF Enrols, TypeOK
<1> QED
  BY <1>1, <1>2, <1>3, <1>4 DEF PageStep

LEMMA ReplyKeeps == ASSUME IInv, NEW reply \in replies, ReplyArrives(reply) PROVE IInv'
<1>1. reply \in Replies /\ replies' \subseteq Replies
  BY DEF IInv, TypeOK, ReplyArrives
<1>2. page' \in Pages
  <2>1. page \in Pages
    BY DEF IInv, TypeOK
  <2>2. /\ reply.done \in BOOLEAN /\ reply.lock \in BOOLEAN /\ reply.snap \in BOOLEAN
        /\ reply.previous \in BOOLEAN
    BY <1>1 DEF Replies
  <2>3. AfterLoad(reply) \in Pages
    BY <2>1, <2>2 DEF AfterLoad, Pages, Sources
  <2>4. AfterLock(reply) \in Pages
    BY <2>1, <2>2 DEF AfterLock, Pages, Sources
  <2>5. AfterSnap(reply) \in Pages
    BY <2>1, <2>2 DEF AfterSnap, Pages, Sources
  <2> QED
    BY <2>1, <2>3, <2>4, <2>5 DEF ReplyArrives
<1>3. Busy => calls' # << >> /\ Running'.change # None
  BY DEF ReplyArrives, IInv, Attended, Running
<1> QED
  BY <1>1, <1>2, <1>3, PageKeeps DEF ReplyArrives, IInv, TypeOK

LEMMA BackendKeeps == ASSUME IInv, BackendStep PROVE IInv'
<1>1. calls # << >> /\ UNCHANGED << saved, service, issuer, binding, permits, torn, page >>
      /\ \E done \in BOOLEAN : Answers(done)
  BY DEF BackendStep, SettingsAreRead, ServiceUnreachable
<1>2. calls' \in Seq(Calls) /\ Len(calls') <= MaxCalls + 1 /\ replies' \subseteq Replies
  BY <1>1, AnswersTyped DEF IInv, TypeOK
<1>3. ~Busy
  BY DEF BackendStep, SettingsAreRead, ServiceUnreachable, IInv, Attended, Busy
<1> QED
  BY <1>1, <1>2, <1>3, PageKeeps DEF IInv, TypeOK

-----------------------------------------------------------------------------
(* The service                                                             *)

LEMMA ServiceTyped ==
  ASSUME TypeOK, saved' \in Saved, service' \in Serving, issuer' \in LocalCamera \cup {None},
         binding' \in [Readers -> Cameras \cup {None}],
         permits' \in [current : BOOLEAN, older : BOOLEAN], torn' \in BOOLEAN, page' = page,
         \/ UNCHANGED << calls, replies >>
         \/ calls # << >> /\ \E done \in BOOLEAN : Answers(done)
  PROVE  TypeOK'
<1>1. CASE UNCHANGED << calls, replies >>
  BY <1>1 DEF TypeOK
<1>2. ASSUME calls # << >>, NEW done \in BOOLEAN, Answers(done) PROVE TypeOK'
  BY <1>2, AnswersTyped DEF TypeOK
<1> QED
  BY <1>1, <1>2

\* The request it is at has been answered, or was not one.
LEMMA IdleIsAttended ==
  ASSUME NEW step \in {"down", "starting", "idle"}, service' = At(step)
  PROVE  Attended' /\ ~(service'.step = "persist")
BY DEF Attended, Busy, At

LEMMA RunningTyped ==
  ASSUME TypeOK, calls # << >>
  PROVE  Running \in Calls /\ Running.change \in Changes \cup {None}
<1>1. Running \in Calls
  BY DEF Running, TypeOK
<1> QED
  BY <1>1 DEF Calls

LEMMA UpdateBeginsKeeps == ASSUME IInv, UpdateBegins PROVE IInv'
<1>0. TypeOK /\ Withdrawn /\ Settled /\ PermissionHasConsent /\ IssuerIsSaved /\ permits \in [current : BOOLEAN, older : BOOLEAN]
  BY DEF IInv, TypeOK
<1>1. Running \in Calls /\ Running.change \in Changes
  BY <1>0, RunningTyped DEF UpdateBegins
<1>2. /\ service' \in Serving /\ service'.step = "persist" /\ service'.change = Running.change
      /\ service'.camera = None /\ Running.change.op # "bind"
  BY <1>1, AtTyped, FieldsTyped DEF UpdateBegins, At, Serving
<1>3. permits' \in [current : BOOLEAN, older : BOOLEAN] /\ ~permits'.older
      /\ (permits'.current => permits.current)
      /\ (Running.change.op = "snap" /\ ~Running.change.value => ~permits'.current)
  BY <1>0 DEF UpdateBegins, Revoked, Withdrawn
<1>4. TypeOK'
  BY <1>0, <1>2, <1>3, ServiceTyped DEF UpdateBegins, TypeOK
<1>5. Attended'
  BY <1>1, <1>2 DEF UpdateBegins, Attended, Running
<1>6. Withdrawn'
  BY <1>2, <1>3 DEF Withdrawn, IsOptOut
<1>7. PermissionHasConsent' /\ IssuerIsSaved'
  BY <1>0, <1>3 DEF UpdateBegins, PermissionHasConsent, IssuerIsSaved
<1>8. Settled'
  BY <1>0, <1>2 DEF UpdateBegins, Settled, Loading
<1> QED
  BY <1>4, <1>5, <1>6, <1>7, <1>8 DEF IInv

LEMMA BindBeginsKeeps == ASSUME IInv, BindBegins PROVE IInv'
<1>0. TypeOK /\ Withdrawn /\ Settled /\ PermissionHasConsent /\ IssuerIsSaved
  BY DEF IInv
<1>1. UNCHANGED << saved, issuer, binding, permits, torn, page >> /\ calls # << >>
  BY DEF BindBegins
<1>2. PermissionHasConsent' /\ IssuerIsSaved'
  BY <1>0, <1>1 DEF PermissionHasConsent, IssuerIsSaved
<1>3. CASE service' = At("idle") /\ Answers(FALSE)
  <2>1. TypeOK'
    BY <1>0, <1>1, <1>3, AtTyped, ServiceTyped DEF TypeOK
  <2>2. Attended' /\ Withdrawn' /\ Settled'
    BY <1>0, <1>1, <1>3, IdleIsAttended DEF BindBegins, Withdrawn, Settled, Loading, At
  <2> QED
    BY <1>2, <2>1, <2>2 DEF IInv
<1>4. ASSUME NEW camera \in Resolves(Running.change.camera),
             service' = [At("persist") EXCEPT !.change = [Running.change EXCEPT !.camera = camera]],
             UNCHANGED << calls, replies >>
      PROVE  IInv'
  <2>1. Running \in Calls /\ Running.change \in Changes /\ Running.change.op = "bind" /\ Running.change # None
    BY <1>0, <1>1, RunningTyped DEF BindBegins, Concerns
  <2>2. Running.change \in [op : {"bind"}, template : Templates, camera : Cameras \cup {Index}]
    BY <2>1 DEF Changes
  <2>3. camera \in Cameras
    BY <1>4, <2>2 DEF Resolves
  <2>4. [Running.change EXCEPT !.camera = camera] \in [op : {"bind"}, template : Templates, camera : Cameras \cup {Index}]
    BY <2>2, <2>3
  <2>5. [Running.change EXCEPT !.camera = camera] \in Changes
    BY <2>4 DEF Changes
  <2>6. /\ service' \in Serving /\ service'.step = "persist" /\ service'.camera = None
        /\ service'.change \in Changes /\ service'.change.op = "bind" /\ service'.change.camera # Index
    BY <1>4, <2>2, <2>3, <2>4, <2>5, AtTyped, FieldsTyped DEF At, Serving
  <2>7. TypeOK'
    BY <1>0, <1>1, <1>4, <2>6, ServiceTyped DEF TypeOK
  <2>8. Attended'
    BY <1>1, <1>4, <2>1, <2>6 DEF Attended, Running
  <2>9. Withdrawn' /\ Settled'
    BY <1>0, <1>1, <2>6 DEF BindBegins, Withdrawn, Settled, Loading, IsOptOut
  <2> QED
    BY <1>2, <2>7, <2>8, <2>9 DEF IInv
<1> QED
  BY <1>3, <1>4 DEF BindBegins

LEMMA WrittenTyped ==
  ASSUME TypeOK, service.change \in Changes
  PROVE  /\ Written \in Saved
         /\ Written.snap # saved.snap => service.change.op = "snap" /\ Written.snap = service.change.value
         /\ service.change.op # "bind" => Written.template = saved.template /\ Written.camera = saved.camera
         /\ Written.camera # saved.camera => service.change.op = "bind" /\ Written.camera = service.change.camera
<1>1. saved \in Saved /\ service.field \in 1..3
  BY FieldsTyped DEF TypeOK, Serving
<1>2. CASE service.change.op = "lock"
  <2>1. service.change.value \in BOOLEAN
    BY <1>2 DEF Changes
  <2>2. Written = [saved EXCEPT !.lock = service.change.value]
    BY <1>2 DEF Written
  <2> QED
    BY <1>1, <1>2, <2>1, <2>2 DEF Saved
<1>3. CASE service.change.op = "snap"
  <2>1. service.change.value \in BOOLEAN
    BY <1>3 DEF Changes
  <2>2. Written = [saved EXCEPT !.snap = service.change.value]
    BY <1>3 DEF Written
  <2> QED
    BY <1>1, <1>3, <2>1, <2>2 DEF Saved
<1>4. CASE service.change.op = "bind"
  <2>1. service.change.template \in Templates /\ service.change.camera \in Cameras \cup {Index}
    BY <1>4 DEF Changes
  <2>2. CASE service.field = 1
    <3>1. Written = [saved EXCEPT !.mode = "local-camera"]
      BY <1>4, <2>2 DEF Written, Bound, Fields
    <3> QED
      BY <1>1, <1>4, <3>1 DEF Saved
  <2>3. CASE service.field = 2
    <3>1. Written = [saved EXCEPT !.template = service.change.template]
      BY <1>4, <2>3 DEF Written, Bound, Fields
    <3> QED
      BY <1>1, <1>4, <2>1, <3>1 DEF Saved
  <2>4. CASE service.field = 3
    <3>1. Written = [saved EXCEPT !.camera = service.change.camera]
      BY <1>4, <2>4 DEF Written, Bound, Fields
    <3> QED
      BY <1>1, <1>4, <2>1, <3>1 DEF Saved
  <2> QED
    BY <1>1, <2>2, <2>3, <2>4
<1> QED
  BY <1>2, <1>3, <1>4 DEF Changes

LEMMA PersistsKeeps == ASSUME IInv, Persists PROVE IInv'
<1>0. /\ TypeOK /\ Attended /\ Withdrawn /\ Settled /\ PermissionHasConsent /\ IssuerIsSaved
      /\ service \in Serving /\ service.change \in Changes /\ calls # << >> /\ Running.change # None
  BY DEF IInv, TypeOK, Attended, Busy, Persists
<1>1. saved' \in Saved
  BY <1>0, WrittenTyped DEF Persists
<1>2. UNCHANGED << issuer, binding, permits, page >> /\ torn' = (torn \/ service.change.op = "bind")
  BY DEF Persists
<1>7. service.camera = None /\ binding["service"] = None /\ (issuer # None => saved'.camera # Index)
  BY <1>0, WrittenTyped DEF Persists, Settled, Loading
<1>3. PermissionHasConsent'
  BY <1>0, <1>2, WrittenTyped DEF Persists, PermissionHasConsent, Withdrawn, IsOptOut, Saved
<1>4. IssuerIsSaved'
  BY <1>0, <1>2, WrittenTyped DEF Persists, IssuerIsSaved
<1>5. CASE IsOptOut
  <2>1. service' = At("idle") /\ Answers(TRUE)
    BY <1>5 DEF Persists
  <2>2. TypeOK'
    BY <1>0, <1>1, <1>2, <2>1, AtTyped, ServiceTyped DEF TypeOK
  <2>3. Attended' /\ Withdrawn' /\ Settled'
    BY <1>0, <1>2, <1>7, <2>1, IdleIsAttended DEF Withdrawn, Settled, At
  <2> QED
    BY <1>3, <1>4, <2>2, <2>3 DEF IInv
<1>6. CASE ~IsOptOut
  <2>1. /\ UNCHANGED << calls, replies >>
        /\ service' = IF service.change.op = "bind" /\ service.field < Len(Fields)
                      THEN [service EXCEPT !.field = @ + 1]
                      ELSE [service EXCEPT !.step = "reload"]
    BY <1>6 DEF Persists
  <2>2. /\ service' \in Serving /\ service'.step \in {"persist", "reload"}
        /\ service'.change = service.change /\ service'.camera = service.camera
    <3>1. service.field \in 1..3 /\ service.step = "persist" /\ Len(Fields) = 3
      BY <1>0, FieldsTyped DEF Serving, Persists
    <3>2. CASE service.change.op = "bind" /\ service.field < Len(Fields)
      BY <1>0, <2>1, <3>1, <3>2 DEF Serving
    <3>3. CASE ~(service.change.op = "bind" /\ service.field < Len(Fields))
      BY <1>0, <2>1, <3>1, <3>3 DEF Serving
    <3> QED
      BY <3>2, <3>3
  <2>3. TypeOK'
    BY <1>0, <1>1, <1>2, <2>1, <2>2, ServiceTyped DEF TypeOK
  <2>4. Attended'
    BY <1>0, <2>1, <2>2 DEF Attended, Running
  <2>5. Withdrawn' /\ Settled'
    BY <1>0, <1>2, <1>6, <1>7, <2>2 DEF Withdrawn, Settled, IsOptOut, Persists
  <2> QED
    BY <1>3, <1>4, <2>3, <2>4, <2>5 DEF IInv
<1> QED
  BY <1>5, <1>6

\* A request that fails leaves everything as it is.
LEMMA FailureKeeps ==
  ASSUME IInv, calls # << >>, service' = At("idle"),
         binding' \in [Readers -> Cameras \cup {None}], binding'["service"] = None,
         UNCHANGED << saved, issuer, permits, torn, page >>, Answers(FALSE)
  PROVE  IInv'
<1>0. TypeOK /\ Withdrawn /\ Settled /\ PermissionHasConsent /\ IssuerIsSaved
  BY DEF IInv
<1>1. TypeOK'
  BY <1>0, AtTyped, ServiceTyped DEF TypeOK
<1>2. Attended' /\ Withdrawn' /\ Settled'
  BY <1>0, IdleIsAttended DEF Withdrawn, Settled, At
<1>3. PermissionHasConsent' /\ IssuerIsSaved'
  BY <1>0 DEF PermissionHasConsent, IssuerIsSaved
<1> QED
  BY <1>1, <1>2, <1>3 DEF IInv

LEMMA PersistFailsKeeps == ASSUME IInv, PersistFails PROVE IInv'
<1>1. calls # << >>
  BY DEF IInv, Attended, Busy, PersistFails
<1> QED
  BY <1>1, FailureKeeps DEF PersistFails, IInv, TypeOK, Settled, Loading

LEMMA WrittenUnreadKeeps == ASSUME IInv, WrittenUnread PROVE IInv'
<1>0. /\ TypeOK /\ Attended /\ Withdrawn /\ Settled /\ PermissionHasConsent /\ IssuerIsSaved
      /\ service \in Serving /\ service.change \in Changes /\ calls # << >> /\ Running.change # None
  BY DEF IInv, TypeOK, Attended, Busy, WrittenUnread
<1>1. saved' \in Saved
  BY <1>0, WrittenTyped DEF WrittenUnread
<1>2. UNCHANGED << issuer, binding, permits, torn, page >> /\ service' = At("idle") /\ Answers(FALSE)
  BY DEF WrittenUnread
<1>3. PermissionHasConsent'
  BY <1>0, <1>2, WrittenTyped DEF WrittenUnread, PermissionHasConsent, Withdrawn, IsOptOut, Saved
<1>4. IssuerIsSaved'
  BY <1>0, <1>2, WrittenTyped DEF WrittenUnread, IssuerIsSaved
<1>5. TypeOK'
  BY <1>0, <1>1, <1>2, AtTyped, ServiceTyped DEF TypeOK
<1>6. Attended' /\ Withdrawn' /\ Settled'
  BY <1>0, <1>1, <1>2, WrittenTyped, IdleIsAttended DEF WrittenUnread, Withdrawn, Settled, Loading, At
<1> QED
  BY <1>3, <1>4, <1>5, <1>6 DEF IInv

LEMMA ReloadsKeeps == ASSUME IInv, Reloads PROVE IInv'
<1>0. TypeOK /\ Attended /\ Withdrawn /\ Settled /\ service \in Serving /\ permits \in [current : BOOLEAN, older : BOOLEAN]
  BY DEF IInv, TypeOK
<1>1. service' \in Serving /\ service'.step = "load" /\ service'.camera = None
  BY <1>0 DEF Reloads, Serving, Settled, Loading
<1>2. permits' \in [current : BOOLEAN, older : BOOLEAN] /\ ~permits'.current /\ ~permits'.older
  BY <1>0 DEF Reloads, Revoked, Withdrawn
<1>3. TypeOK'
  BY <1>0, <1>1, <1>2, ServiceTyped DEF Reloads, TypeOK
<1>4. Attended'
  BY <1>0, <1>1 DEF Reloads, Attended, Busy, Running
<1>5. Withdrawn' /\ Settled' /\ PermissionHasConsent' /\ IssuerIsSaved'
  BY <1>0, <1>1, <1>2 DEF Reloads, Withdrawn, Settled, Loading, PermissionHasConsent, IssuerIsSaved
<1> QED
  BY <1>3, <1>4, <1>5 DEF IInv

\* The configuration loaded is the saved one, and replaces none.
LEMMA LoadedKeeps ==
  ASSUME IInv, Loading, NEW new_issuer \in LocalCamera \cup {None}, NEW permission \in BOOLEAN,
         Loaded(new_issuer, permission),
         permission => saved.snap,
         new_issuer # None => new_issuer.template = saved.template /\ saved.camera # Index,
         new_issuer # None /\ ~torn => new_issuer.camera = saved.camera
  PROVE  IInv'
<1>0. /\ TypeOK /\ Attended /\ Withdrawn /\ service \in Serving
      /\ permits \in [current : BOOLEAN, older : BOOLEAN] /\ binding \in [Readers -> Cameras \cup {None}]
  BY DEF IInv, TypeOK
<1>1. ~permits.current /\ ~permits.older
  BY <1>0 DEF Loading, Withdrawn
<1>2. permits' = [current |-> permission, older |-> FALSE]
  BY <1>0, <1>1 DEF Loaded
<1>3. /\ issuer' = new_issuer /\ service' = At("idle") /\ UNCHANGED << saved, torn, page >>
      /\ binding' \in [Readers -> Cameras \cup {None}] /\ binding'["service"] = None
  BY <1>0 DEF Loaded, Unbound, Readers
<1>4. \/ UNCHANGED << calls, replies >>
      \/ calls # << >> /\ \E done \in BOOLEAN : Answers(done)
  BY <1>0 DEF Loaded, Attended, Busy
<1>5. TypeOK'
  BY <1>0, <1>2, <1>3, <1>4, AtTyped, ServiceTyped DEF TypeOK
<1>6. Attended'
  BY <1>3, IdleIsAttended
<1>7. Withdrawn' /\ Settled' /\ PermissionHasConsent' /\ IssuerIsSaved'
  BY <1>2, <1>3 DEF Withdrawn, Settled, IsOptOut, PermissionHasConsent, IssuerIsSaved, At
<1> QED
  BY <1>5, <1>6, <1>7 DEF IInv

LEMMA LoadsKeep ==
  ASSUME IInv, LoadsManualTest \/ LoadsLocalCamera
  PROVE  IInv'
<1>1. CASE LoadsManualTest
  BY <1>1, LoadedKeeps DEF LoadsManualTest
<1>2. CASE LoadsLocalCamera
  <2>1. saved \in Saved /\ service \in Serving /\ service.camera # None /\ Settled
    BY <1>2 DEF LoadsLocalCamera, IInv, TypeOK
  <2>2. saved.template \in Templates /\ service.camera \in Cameras /\ saved.snap \in BOOLEAN
    BY <2>1 DEF LoadsLocalCamera, Saved, Serving, Settled
  <2> DEFINE new_issuer == [template |-> saved.template, camera |-> service.camera]
  <2>3. /\ new_issuer \in LocalCamera
        /\ new_issuer.template = saved.template /\ new_issuer.camera = service.camera
    BY <2>2 DEF LocalCamera
  <2>4. Loading /\ Loaded(new_issuer, saved.snap)
    BY <1>2 DEF LoadsLocalCamera
  <2> HIDE DEF new_issuer
  <2> QED
    BY <2>1, <2>2, <2>3, <2>4, LoadedKeeps DEF Settled
<1> QED
  BY <1>1, <1>2

\* What a load and a monitor start do to the camera, before either is over: the
\* requests and the permission are as they were.
LEMMA CameraStepKeeps ==
  ASSUME IInv, saved' \in Saved, saved'.snap = saved.snap, saved'.template = saved.template,
         NEW camera \in Cameras \cup {None}, service' = [service EXCEPT !.camera = camera],
         binding' \in [Readers -> Cameras \cup {None}], torn' \in BOOLEAN,
         UNCHANGED << issuer, permits, calls, replies, page >>,
         binding'["service"] # None \/ camera # None => Loading /\ saved.template # None,
         issuer # None \/ camera # None => saved'.camera # Index,
         camera # None /\ ~torn' => camera = saved'.camera,
         issuer # None /\ ~torn' => ~torn /\ saved'.camera = saved.camera
  PROVE  IInv'
<1>0. /\ TypeOK /\ Attended /\ Withdrawn /\ Settled /\ PermissionHasConsent /\ IssuerIsSaved
      /\ service \in Serving
  BY DEF IInv, TypeOK
<1>1. /\ service' \in Serving /\ service'.step = service.step /\ service'.change = service.change
      /\ service'.camera = camera
  BY <1>0 DEF Serving
<1>2. TypeOK'
  BY <1>0, <1>1, ServiceTyped DEF TypeOK
<1>3. Attended' /\ Withdrawn'
  BY <1>0, <1>1 DEF Attended, Busy, Running, Withdrawn, IsOptOut
<1>4. Settled'
  BY <1>0, <1>1 DEF Settled, Loading
<1>5. PermissionHasConsent' /\ IssuerIsSaved'
  BY <1>0 DEF PermissionHasConsent, IssuerIsSaved
<1> QED
  BY <1>2, <1>3, <1>4, <1>5 DEF IInv

LEMMA ServiceUnchanged ==
  ASSUME TypeOK, UNCHANGED service
  PROVE  service' = [service EXCEPT !.camera = service.camera] /\ service.camera \in Cameras \cup {None}
BY DEF TypeOK, Serving

LEMMA ReadsIdentityKeeps == ASSUME IInv, ReadsIdentity PROVE IInv'
<1>1. /\ saved \in Saved /\ saved.camera \in Cameras /\ binding \in [Readers -> Cameras \cup {None}]
      /\ issuer = None /\ torn' = FALSE
  BY DEF ReadsIdentity, ReadsLocalCamera, Loading, IInv, TypeOK, Withdrawn, Saved
<1> QED
  BY <1>1, CameraStepKeeps DEF ReadsIdentity, ReadsLocalCamera, Loading

LEMMA ResolvesIndexKeeps ==
  ASSUME IInv, NEW reader \in Readers, ResolvesIndex(reader) PROVE IInv'
<1>0. TypeOK /\ Settled /\ UNCHANGED << saved, service, issuer, permits, torn, calls, replies, page >>
  BY DEF IInv, ResolvesIndex
<1>1. /\ binding' \in [Readers -> Cameras \cup {None}]
      /\ binding'["service"] # None => Loading /\ saved.template # None
  BY <1>0 DEF ResolvesIndex, ReadsLocalCamera, Resolves, TypeOK, Settled, Readers
<1> QED
  BY <1>0, <1>1, ServiceUnchanged, CameraStepKeeps DEF Settled, TypeOK

LEMMA MonitorUnboundKeeps == ASSUME IInv, MonitorUnbound PROVE IInv'
<1>0. TypeOK /\ Settled /\ UNCHANGED << saved, service, issuer, permits, torn, calls, replies, page >>
  BY DEF IInv, MonitorUnbound
<1>1. /\ binding' \in [Readers -> Cameras \cup {None}]
      /\ binding'["service"] = binding["service"]
  BY <1>0 DEF MonitorUnbound, TypeOK, Readers
<1> QED
  BY <1>0, <1>1, ServiceUnchanged, CameraStepKeeps DEF Settled, TypeOK

\* The pipe thread resolves an index in a load only.
LEMMA BindsIndexKeeps ==
  ASSUME IInv, NEW reader \in Readers, BindsIndex(reader)
  PROVE  IInv'
<1>0. /\ TypeOK /\ Withdrawn /\ Settled /\ saved \in Saved /\ binding[reader] \in Cameras
      /\ binding \in [Readers -> Cameras \cup {None}] /\ torn \in BOOLEAN
  BY DEF IInv, TypeOK, BindsIndex
<1>1. /\ saved' \in Saved /\ saved'.snap = saved.snap /\ saved'.template = saved.template
      /\ saved'.camera = binding[reader] /\ saved'.camera # Index
  BY <1>0 DEF BindsIndex, Saved
<1>2. /\ binding' \in [Readers -> Cameras \cup {None}] /\ UNCHANGED << issuer, permits, calls, replies, page >>
      /\ binding'["service"] # None => Loading /\ saved.template # None
  BY <1>0 DEF BindsIndex, Settled, Readers
<1>3. CASE reader = "service"
  <2>1. /\ service' = [service EXCEPT !.camera = binding[reader]] /\ torn' = FALSE
        /\ Loading /\ issuer = None /\ saved.template # None
    BY <1>0, <1>3 DEF BindsIndex, Settled, Loading, Withdrawn
  <2> QED
    BY <1>0, <1>1, <1>2, <2>1, CameraStepKeeps
<1>4. CASE reader # "service"
  <2>1. UNCHANGED service /\ torn' = (torn \/ saved.camera # Index)
    BY <1>4 DEF BindsIndex
  <2>2. ~torn' => ~torn /\ issuer = None /\ service.camera = None
    BY <1>0, <2>1 DEF Settled
  <2>3. service.camera # None => Loading /\ saved.template # None
    BY <1>0 DEF Settled
  <2> QED
    BY <1>0, <1>1, <1>2, <2>1, <2>2, <2>3, ServiceUnchanged, CameraStepKeeps
<1> QED
  BY <1>3, <1>4

LEMMA CameraUnavailableKeeps == ASSUME IInv, CameraUnavailable PROVE IInv'
<1>1. CASE service.step = "starting"
  BY <1>1, LoadedKeeps DEF CameraUnavailable, ReadsLocalCamera
<1>2. CASE service.step # "starting"
  <2>1. service.step = "load" /\ calls # << >>
    BY <1>2 DEF CameraUnavailable, ReadsLocalCamera, Loading, IInv, Attended, Busy
  <2>2. Unbound \in [Readers -> Cameras \cup {None}] /\ Unbound["service"] = None
    BY DEF IInv, TypeOK, Unbound, Readers
  <2> QED
    BY <1>2, <2>1, <2>2, FailureKeeps DEF CameraUnavailable
<1> QED
  BY <1>1, <1>2

\* To a step at which no request is served and nothing is permitted.
LEMMA RestKeeps ==
  ASSUME IInv, NEW step \in {"down", "starting"}, service' = At(step), issuer' = None,
         permits' \in [current : BOOLEAN, older : BOOLEAN], ~permits'.current, ~permits'.older,
         binding' \in [Readers -> Cameras \cup {None}], binding'["service"] = None,
         UNCHANGED << saved, torn, page >>,
         \/ UNCHANGED << calls, replies >>
         \/ calls # << >> /\ \E done \in BOOLEAN : Answers(done)
  PROVE  IInv'
<1>1. TypeOK'
  BY AtTyped, ServiceTyped DEF IInv, TypeOK
<1>2. Attended'
  BY IdleIsAttended
<1>3. Withdrawn' /\ Settled' /\ PermissionHasConsent' /\ IssuerIsSaved'
  BY DEF Withdrawn, Settled, IsOptOut, PermissionHasConsent, IssuerIsSaved, At
<1> QED
  BY <1>1, <1>2, <1>3 DEF IInv

LEMMA LoadFailsKeeps == ASSUME IInv, LoadFails PROVE IInv'
<1>1. CASE /\ service.step = "starting" /\ service' = At("down") /\ UNCHANGED << calls, replies >>
           /\ binding' = [reader \in Readers |-> None]
  <2>1. ~permits.current /\ ~permits.older /\ issuer = None
        /\ permits \in [current : BOOLEAN, older : BOOLEAN]
    BY <1>1 DEF IInv, TypeOK, Withdrawn
  <2> QED
    BY <1>1, <2>1, RestKeeps DEF LoadFails, Readers
<1>2. CASE service.step = "load" /\ service' = At("idle") /\ binding' = Unbound /\ Answers(FALSE)
  <2>1. calls # << >>
    BY <1>2 DEF IInv, Attended, Busy
  <2>2. Unbound \in [Readers -> Cameras \cup {None}] /\ Unbound["service"] = None
    BY DEF IInv, TypeOK, Unbound, Readers
  <2> QED
    BY <1>2, <2>1, <2>2, FailureKeeps DEF LoadFails
<1> QED
  BY <1>1, <1>2 DEF LoadFails

LEMMA StartsAndDeathsKeep == ASSUME IInv, ServiceStarts \/ ServiceDies PROVE IInv'
<1>1. CASE ServiceStarts
  <2>1. ~permits.current /\ ~permits.older /\ issuer = None
        /\ permits \in [current : BOOLEAN, older : BOOLEAN]
    BY <1>1 DEF IInv, TypeOK, Withdrawn, ServiceStarts
  <2> QED
    BY <1>1, <2>1, RestKeeps DEF ServiceStarts, IInv, TypeOK, Settled, Loading
<1>2. CASE ServiceDies
  <2>1. \/ UNCHANGED << calls, replies >>
        \/ calls # << >> /\ \E done \in BOOLEAN : Answers(done)
    BY <1>2 DEF ServiceDies, IInv, Attended, Busy
  <2> QED
    BY <1>2, <2>1, RestKeeps DEF ServiceDies, Readers
<1> QED
  BY <1>1, <1>2

LEMMA StepKeeps == ASSUME IInv, [Next]_vars PROVE IInv'
<1>1. CASE ServiceStep
  BY <1>1, UpdateBeginsKeeps, BindBeginsKeeps, PersistsKeeps, PersistFailsKeeps,
     WrittenUnreadKeeps, ReloadsKeeps,
     LoadsKeep, ReadsIdentityKeeps, ResolvesIndexKeeps, BindsIndexKeeps, MonitorUnboundKeeps,
     CameraUnavailableKeeps, LoadFailsKeeps DEF ServiceStep
<1>2. CASE UNCHANGED vars
  <2>1. TypeOK /\ UNCHANGED << saved, service, issuer, binding, permits, torn, calls, replies, page >>
    BY <1>2 DEF vars, IInv
  <2>2. TypeOK'
    BY <2>1, ServiceTyped DEF TypeOK
  <2>3. Attended' /\ Withdrawn' /\ Settled' /\ PermissionHasConsent' /\ IssuerIsSaved'
    BY <2>1 DEF IInv, Attended, Busy, Running, Withdrawn, Settled, Loading, IsOptOut, PermissionHasConsent, IssuerIsSaved
  <2> QED
    BY <2>2, <2>3 DEF IInv
<1> QED
  BY <1>1, <1>2, PageStepKeeps, ReplyKeeps, BackendKeeps, StartsAndDeathsKeep DEF Next, ReplyStep

-----------------------------------------------------------------------------
(* Theorems                                                                *)

\* IInv is inductive and holds of every state the settings can be in.
THEOREM InvariantHolds == Spec => []IInv
<1>1. Init => IInv
  BY InitEstablishes
<1>2. IInv /\ [Next]_vars => IInv'
  BY StepKeeps
<1> QED
  BY <1>1, <1>2, PTL DEF Spec

\* Every variable keeps its type; in particular no more commands are under way
\* than the user waits for.
THEOREM TypeCorrect == Spec => []TypeOK
<1>1. IInv => TypeOK
  BY DEF IInv
<1> QED
  BY <1>1, InvariantHolds, PTL

\* However many changes are under way and whichever step of one fails, and
\* through every restart, no policy of the service lets a stranger's picture be
\* kept unless the registry says so.
THEOREM ConsentIsKept == Spec => []PermissionHasConsent
<1>1. IInv => PermissionHasConsent
  BY DEF IInv
<1> QED
  BY <1>1, InvariantHolds, PTL

\* The service recognises faces with the template and the camera that are saved,
\* unless an enrolment's values have been written since it loaded them, or a
\* monitor start has put the identity it had resolved over another.
THEOREM IssuerAlwaysSaved == Spec => []IssuerIsSaved
<1>1. IInv => IssuerIsSaved
  BY DEF IInv
<1> QED
  BY <1>1, InvariantHolds, PTL

-----------------------------------------------------------------------------
(* What the page shows                                                     *)

Settings == {"lock", "snap"}

Value(record, op) == IF op = "lock" THEN record.lock ELSE record.snap
From(op) == IF op = "lock" THEN page.lockFrom ELSE page.snapFrom

\* The commands, and the answers, that are about a setting.
Asked(op) == {i \in DOMAIN calls : Concerns(calls[i], op)}
Answered(op) == {reply \in replies : Concerns(reply, op)}

\* Of the commands about a setting only the last may still be heard.
OneHeard(op) == \A i, j \in Asked(op) : i < j => ~calls[i].heard

\* An answer on its way, and a switch that shows one, is to the last of them;
\* nobody is left who could change what was saved by it.
AnsweredLast(op) ==
  \A reply \in Answered(op) :
    /\ Asked(op) = {} /\ Answered(op) = {reply}
    /\ reply.done => Value(reply, op) = Value(saved, op)

ShownLast(op) ==
  From(op) = "update" => Asked(op) = {} /\ Answered(op) = {} /\ Value(page, op) = Value(saved, op)

\* While the page has not asked for the snapshots, the load it waits for is
\* behind whatever was asked before it was opened.
LoadLast ==
  ~page.asked =>
    /\ \A i \in Asked("snap"), j \in DOMAIN calls : calls[j].change = None /\ calls[j].heard => i < j
    /\ \A reply \in replies : reply.change = None =>
         Asked("snap") = {} /\ (reply.done => reply.snap = saved.snap)

\* The first load shows the snapshots to a page that has not asked, an update to one that has.
LoadedOrAsked ==
  /\ page.snapFrom = "load" => ~page.asked /\ Asked("snap") = {} /\ page.snap = saved.snap
  /\ \/ page.snapFrom = "update" \/ Answered("snap") # {}
     \/ \E i \in Asked("snap") : calls[i].heard
     => page.asked

\* What comes of an enrolment is shown elsewhere.
EnrolsElsewhere == Answered("bind") = {} /\ \A i \in Asked("bind") : ~calls[i].heard

Consistent(op) == OneHeard(op) /\ AnsweredLast(op) /\ ShownLast(op)

PageInv == (\A op \in Settings : Consistent(op)) /\ LoadLast /\ LoadedOrAsked /\ EnrolsElsewhere

LEMMA QueueTyped ==
  ASSUME TypeOK
  PROVE  /\ Len(calls) \in Nat /\ DOMAIN calls = 1..Len(calls)
         /\ \A i \in DOMAIN calls : calls[i] \in Calls
         /\ calls # << >> => Running = calls[1] /\ 1 \in DOMAIN calls
  BY DEF TypeOK, Running

LEMMA TailQueue ==
  ASSUME TypeOK, calls # << >>, calls' = Tail(calls)
  PROVE  \A i \in DOMAIN calls' : i \in Nat /\ i + 1 \in DOMAIN calls /\ i + 1 # 1 /\ calls'[i] = calls[i + 1]
  BY DEF TypeOK

LEMMA GrownQueue ==
  ASSUME TypeOK, NEW new \in [DOMAIN calls -> Calls], NEW call \in Calls, calls' = Append(new, call)
  PROVE  /\ DOMAIN calls' = 1..(Len(calls) + 1)
         /\ \A i \in DOMAIN calls : calls'[i] = new[i]
         /\ calls'[Len(calls) + 1] = call
<1>1. new \in Seq(Calls) /\ Len(new) = Len(calls) /\ Len(calls) \in Nat /\ DOMAIN calls = 1..Len(calls)
  BY QueueTyped
<1> QED
  BY <1>1

\* A value may be written while its command is the first, and nobody has heard
\* of it yet.
LEMMA WritingKeepsPage ==
  ASSUME TypeOK, PageInv, UNCHANGED << calls, replies, page >>,
         \A op \in Settings : \/ Value(saved', op) = Value(saved, op)
                              \/ calls # << >> /\ Concerns(Running, op)
  PROVE  PageInv'
<1>1. \A op \in Settings : Value(saved', op) = Value(saved, op) \/ Asked(op) # {}
  BY QueueTyped DEF Asked
<1>2. /\ \A op : Asked(op)' = Asked(op) /\ Answered(op)' = Answered(op) /\ From(op)' = From(op)
      /\ \A op : Value(page', op) = Value(page, op)
  BY DEF Asked, Answered, From, Value
<1>3. ASSUME NEW op \in Settings PROVE Consistent(op)'
  <2>1. OneHeard(op)'
    BY <1>2 DEF PageInv, Consistent, OneHeard
  <2>2. AnsweredLast(op)'
    BY <1>1, <1>2 DEF PageInv, Consistent, AnsweredLast
  <2>3. ShownLast(op)'
    BY <1>1, <1>2 DEF PageInv, Consistent, ShownLast
  <2> QED
    BY <2>1, <2>2, <2>3 DEF Consistent
<1>4. Value(saved', "snap") = saved'.snap /\ Value(saved, "snap") = saved.snap /\ "snap" \in Settings
  BY DEF Value, Settings
<1>5. LoadLast' /\ LoadedOrAsked'
  BY <1>1, <1>2, <1>4 DEF PageInv, LoadLast, LoadedOrAsked
<1>6. EnrolsElsewhere'
  BY <1>2 DEF PageInv, EnrolsElsewhere
<1> QED
  BY <1>3, <1>5, <1>6 DEF PageInv

\* The first command is answered: to the page, if it is still heard.
LEMMA AnswersKeepPage ==
  ASSUME TypeOK, PageInv, calls # << >>, saved' \in Saved, NEW done \in BOOLEAN, Answers(done), page' = page,
         \A op \in Settings : Value(saved', op) = Value(saved, op) \/ Concerns(Running, op)
  PROVE  PageInv'
<1> DEFINE said(read) == [change |-> Running.change, previous |-> Running.previous, done |-> read,
                          lock |-> read /\ saved'.lock, snap |-> read /\ saved'.snap]
<1>1. calls' = Tail(calls)
  BY DEF Answers
<1>2. PICK read \in {done, FALSE} : replies' = IF ~Running.heard THEN replies ELSE replies \cup {said(read)}
  BY DEF Answers
<1>3. /\ \A op : Concerns(said(read), op) <=> Concerns(Running, op)
      /\ said(read).done = read /\ said(read).change = Running.change
      /\ read => said(read).lock = saved'.lock /\ said(read).snap = saved'.snap
  BY DEF Concerns, Saved
<1> HIDE DEF said
<1>4. \A op : \A i \in Asked(op)' : i \in Nat /\ i + 1 \in Asked(op) /\ i + 1 # 1 /\ calls'[i] = calls[i + 1]
  BY <1>1, TailQueue DEF Asked
<1>5. \A op : Asked(op) = {} => Asked(op)' = {}
  BY <1>4
<1>6. \A op : Concerns(Running, op) => 1 \in Asked(op)
  BY QueueTyped DEF Asked
<1>7. \A op : From(op)' = From(op) /\ Value(page', op) = Value(page, op)
  BY DEF From, Value
<1>8. ASSUME NEW op \in Settings PROVE Consistent(op)'
  <2>1. OneHeard(op)'
    <3> SUFFICES ASSUME NEW i \in Asked(op)', NEW j \in Asked(op)', i < j PROVE ~calls'[i].heard
      BY DEF OneHeard
    <3>1. i + 1 \in Asked(op) /\ j + 1 \in Asked(op) /\ i + 1 < j + 1 /\ calls'[i] = calls[i + 1]
      BY <1>4
    <3> QED
      BY <3>1 DEF PageInv, Consistent, OneHeard
  <2>2. CASE Concerns(Running, op)
    <3>1. Answered(op) = {} /\ From(op) # "update"
      BY <1>6, <2>2 DEF PageInv, Consistent, AnsweredLast, ShownLast
    <3>2. Answered(op)' \subseteq {said(read)} /\ (Answered(op)' # {} => Running.heard)
      BY <1>2, <3>1 DEF Answered
    <3>3. Running.heard => Asked(op)' = {}
      <4>1. \A i \in Asked(op)' : i \in Nat /\ i + 1 \in Asked(op) /\ 1 < i + 1
        <5>1. \A i \in Asked(op)' : i + 1 \in DOMAIN calls
          BY <1>4 DEF Asked
        <5> QED
          BY <1>4, <5>1, QueueTyped
      <4> QED
        BY <1>6, <2>2, <4>1, QueueTyped DEF PageInv, Consistent, OneHeard
    <3>4. AnsweredLast(op)'
      BY <1>3, <3>2, <3>3 DEF AnsweredLast, Value
    <3> QED
      BY <1>7, <2>1, <3>1, <3>4 DEF Consistent, ShownLast
  <2>3. CASE ~Concerns(Running, op)
    <3>1. Answered(op)' = Answered(op) /\ Value(saved', op) = Value(saved, op)
      BY <1>2, <1>3, <2>3 DEF Answered
    <3> QED
      BY <1>5, <1>7, <2>1, <3>1 DEF PageInv, Consistent, AnsweredLast, ShownLast
  <2> QED
    BY <2>2, <2>3
<1>9. Value(saved', "snap") = saved'.snap /\ Value(saved, "snap") = saved.snap /\ "snap" \in Settings
  BY DEF Value, Settings
<1>10. Asked("snap") = {} => saved'.snap = saved.snap
  BY <1>6, <1>9
<1>11. LoadLast'
  <2> SUFFICES ASSUME ~page.asked PROVE LoadLast'
    BY DEF LoadLast
  <2>1. \A i \in Asked("snap"), j \in DOMAIN calls : calls[j].change = None /\ calls[j].heard => i < j
    BY DEF PageInv, LoadLast
  <2>2. ASSUME NEW i \in Asked("snap")', NEW j \in DOMAIN calls', calls'[j].change = None, calls'[j].heard
        PROVE  i < j
    <3>1. /\ i \in Nat /\ i + 1 \in Asked("snap")
          /\ j \in Nat /\ j + 1 \in DOMAIN calls /\ calls'[j] = calls[j + 1]
      BY <1>1, <1>4, TailQueue
    <3> QED
      BY <2>1, <2>2, <3>1
  <2>3. ASSUME NEW reply \in replies', reply.change = None
        PROVE  Asked("snap")' = {} /\ (reply.done => reply.snap = saved'.snap)
    <3>1. CASE reply \in replies
      BY <1>5, <1>10, <2>3, <3>1 DEF PageInv, LoadLast
    <3>2. CASE reply \notin replies
      <4>1. reply = said(read) /\ Running.heard /\ Running.change = None
        BY <1>2, <1>3, <2>3, <3>2
      <4>2. Asked("snap") = {}
        <5>1. \A i \in Asked("snap") : i \in Nat /\ i < 1 /\ i >= 1
          BY <2>1, <4>1, QueueTyped DEF Asked
        <5> QED
          BY <5>1
      <4> QED
        BY <1>3, <1>5, <4>1, <4>2
    <3> QED
      BY <3>1, <3>2
  <2> QED
    BY <2>2, <2>3 DEF LoadLast
<1>12. LoadedOrAsked'
  <2>1. page.snapFrom = "load" => ~page.asked /\ Asked("snap")' = {} /\ page.snap = saved'.snap
    BY <1>5, <1>10 DEF PageInv, LoadedOrAsked
  <2>2. Answered("snap")' # {} => page.asked
    <3>1. CASE Answered("snap") # {}
      BY <3>1 DEF PageInv, LoadedOrAsked
    <3>2. CASE Answered("snap") = {}
      <4>1. Answered("snap")' # {} => Running.heard /\ Concerns(Running, "snap")
        BY <1>2, <1>3, <3>2 DEF Answered
      <4> QED
        BY <1>6, <4>1, QueueTyped DEF PageInv, LoadedOrAsked
    <3> QED
      BY <3>1, <3>2
  <2>3. (\E i \in Asked("snap")' : calls'[i].heard) => page.asked
    BY <1>4 DEF PageInv, LoadedOrAsked
  <2> QED
    BY <2>1, <2>2, <2>3 DEF PageInv, LoadedOrAsked
<1>13. EnrolsElsewhere'
  <2>1. ~(Running.heard /\ Concerns(Running, "bind"))
    BY <1>6, QueueTyped DEF PageInv, EnrolsElsewhere
  <2>2. Answered("bind")' = {}
    BY <1>2, <1>3, <2>1 DEF PageInv, EnrolsElsewhere, Answered
  <2> QED
    BY <1>4, <2>2 DEF PageInv, EnrolsElsewhere
<1> QED
  BY <1>8, <1>11, <1>12, <1>13 DEF PageInv

\* The queue with a command more.
LEMMA GrownAsked ==
  ASSUME TypeOK, NEW new \in [DOMAIN calls -> Calls], NEW call \in Calls, calls' = Append(new, call),
         \A i \in DOMAIN calls : new[i].change = calls[i].change
  PROVE  /\ \A op : Asked(op)' = Asked(op) \cup {i \in {Len(calls) + 1} : Concerns(call, op)}
         /\ \A op : \A i \in Asked(op) : i \in DOMAIN calls
         /\ \A i \in DOMAIN calls : i < Len(calls) + 1
<1>1. Len(calls) \in Nat /\ DOMAIN calls = 1..Len(calls)
  BY QueueTyped
<1>2. /\ DOMAIN calls' = DOMAIN calls \cup {Len(calls) + 1}
      /\ \A i \in DOMAIN calls : calls'[i].change = calls[i].change
      /\ calls'[Len(calls) + 1] = call
  BY <1>1, GrownQueue
<1>3. \A i \in DOMAIN calls : \A op : Concerns(calls'[i], op) <=> Concerns(calls[i], op)
  BY <1>2 DEF Concerns
<1>4. ASSUME NEW op PROVE Asked(op)' = Asked(op) \cup {i \in {Len(calls) + 1} : Concerns(call, op)}
  <2>1. Asked(op)' = {i \in DOMAIN calls' : Concerns(calls'[i], op)}
    BY DEF Asked
  <2> QED
    BY <1>2, <1>3, <2>1 DEF Asked
<1> QED
  BY <1>1, <1>4 DEF Asked

\* A setting is asked for: what was asked or answered about it before is out of date.
LEMMA AsksKeepsPage ==
  ASSUME TypeOK, PageInv, MayAsk, NEW op \in Settings, NEW value \in BOOLEAN, NEW previous \in BOOLEAN,
         Asks(op, value, previous), saved' = saved,
         From(op)' = "request",
         \A q \in Settings \ {op} : From(q)' = From(q) /\ Value(page', q) = Value(page, q),
         page'.asked = (page.asked \/ op = "snap")
  PROVE  PageInv'
<1> DEFINE new == [i \in DOMAIN calls |-> IF Concerns(calls[i], op) THEN Unheard(calls[i]) ELSE calls[i]]
           call == Call([op |-> op, value |-> value], previous, TRUE)
<1>1. new \in [DOMAIN calls -> Calls]
  BY QueueTyped, UnheardTyped
<1>2. call \in Calls
  BY CallTyped DEF Changes, Settings
<1>3. calls' = Append(new, call) /\ replies' = {reply \in replies : ~Concerns(reply, op)}
  BY DEF Asks
<1>4. \A i \in DOMAIN calls : /\ new[i].change = calls[i].change
                              /\ (new[i].heard => calls[i].heard)
                              /\ (i \in Asked(op) => ~new[i].heard)
  BY QueueTyped DEF Asked, Unheard, Calls
<1>5. call.change # None /\ \A q : Concerns(call, q) <=> q = op
  <2> DEFINE change == [op |-> op, value |-> value]
  <2>1. change \in Changes /\ change.op = op
    BY DEF Changes, Settings
  <2>2. call.change = change
    BY DEF Call
  <2> HIDE DEF call, change
  <2> QED
    BY <2>1, <2>2 DEF Concerns
<1> HIDE DEF new, call
<1>6. /\ \A q : q # op => Asked(q)' = Asked(q)
      /\ Asked(op)' = Asked(op) \cup {Len(calls) + 1}
      /\ \A q : \A i \in Asked(q) : i \in DOMAIN calls
      /\ \A i \in DOMAIN calls : i < Len(calls) + 1
  <2>1. /\ \A q : Asked(q)' = Asked(q) \cup {i \in {Len(calls) + 1} : Concerns(call, q)}
        /\ \A q : \A i \in Asked(q) : i \in DOMAIN calls
        /\ \A i \in DOMAIN calls : i < Len(calls) + 1
    BY <1>1, <1>2, <1>3, <1>4, GrownAsked
  <2>2. ASSUME NEW q, q # op PROVE Asked(q)' = Asked(q)
    BY <1>5, <2>1, <2>2
  <2>3. Asked(op)' = Asked(op) \cup {Len(calls) + 1}
    BY <1>5, <2>1
  <2> QED
    BY <2>1, <2>2, <2>3
<1>7. /\ DOMAIN calls' = 1..(Len(calls) + 1) /\ \A i \in DOMAIN calls : calls'[i] = new[i]
      /\ calls'[Len(calls) + 1] = call
  BY <1>1, <1>2, <1>3, GrownQueue
<1>8. Answered(op)' = {} /\ \A q : q # op => Answered(q)' = Answered(q)
  BY <1>3 DEF Answered, Concerns
<1>9. \A q : q # op => \A i \in Asked(q)' : i \in Asked(q) /\ (calls'[i].heard => calls[i].heard)
  BY <1>4, <1>6, <1>7
<1>10. Consistent(op)'
  <2>1. OneHeard(op)'
    <3> SUFFICES ASSUME NEW i \in Asked(op)', NEW j \in Asked(op)', i < j PROVE ~calls'[i].heard
      BY DEF OneHeard
    <3>1. i \in Asked(op) /\ i \in DOMAIN calls
      <4>1. Len(calls) \in Nat /\ DOMAIN calls = 1..Len(calls)
        BY QueueTyped
      <4>2. i \in DOMAIN calls \cup {Len(calls) + 1} /\ j \in DOMAIN calls \cup {Len(calls) + 1}
        BY <1>6
      <4>3. i # Len(calls) + 1
        BY <4>1, <4>2
      <4> QED
        BY <1>6, <4>2, <4>3
    <3> QED
      BY <1>4, <1>7, <3>1
  <2> QED
    BY <1>8, <2>1 DEF Consistent, AnsweredLast, ShownLast
<1>11. ASSUME NEW q \in Settings, q # op PROVE Consistent(q)'
  <2>1. OneHeard(q)'
    BY <1>9, <1>11 DEF PageInv, Consistent, OneHeard
  <2>2. Asked(q)' = Asked(q) /\ Answered(q)' = Answered(q) /\ From(q)' = From(q) /\ Value(page', q) = Value(page, q)
    BY <1>6, <1>8, <1>11
  <2>3. AnsweredLast(q)'
    BY <2>2 DEF PageInv, Consistent, AnsweredLast
  <2>4. ShownLast(q)'
    BY <2>2 DEF PageInv, Consistent, ShownLast
  <2> QED
    BY <2>1, <2>3, <2>4 DEF Consistent
<1>12. LoadLast'
  <2> SUFFICES ASSUME ~page'.asked PROVE LoadLast'
    BY DEF LoadLast
  <2>1. ~page.asked /\ op # "snap"
    OBVIOUS
  <2>2. \A i \in Asked("snap"), j \in DOMAIN calls : calls[j].change = None /\ calls[j].heard => i < j
    BY <2>1 DEF PageInv, LoadLast
  <2>3. ASSUME NEW j \in DOMAIN calls', calls'[j].change = None, calls'[j].heard
        PROVE  j \in DOMAIN calls /\ calls[j].change = None /\ calls[j].heard
    BY <1>4, <1>5, <1>7, <2>3, QueueTyped
  <2>4. replies' \subseteq replies /\ Asked("snap")' = Asked("snap")
    BY <1>3, <1>6, <2>1
  <2> QED
    BY <2>1, <2>2, <2>3, <2>4 DEF PageInv, LoadLast
<1>13. LoadedOrAsked'
  <2>1. CASE op = "snap"
    BY <2>1 DEF LoadedOrAsked, From
  <2>2. CASE op # "snap"
    <3>1. page'.asked = page.asked /\ page'.snapFrom = page.snapFrom /\ page'.snap = page.snap
      <4>1. page.asked \in BOOLEAN
        BY DEF TypeOK, Pages
      <4> QED
        BY <2>2, <4>1 DEF From, Value, Settings
    <3>2. Asked("snap")' = Asked("snap") /\ Answered("snap")' = Answered("snap")
      BY <1>6, <1>8, <2>2
    <3>3. (\E i \in Asked("snap")' : calls'[i].heard) => \E i \in Asked("snap") : calls[i].heard
      BY <1>9, <2>2
    <3> QED
      BY <3>1, <3>2, <3>3 DEF PageInv, LoadedOrAsked
  <2> QED
    BY <2>1, <2>2
<1>14. EnrolsElsewhere'
  <2>1. op # "bind"
    BY DEF Settings
  <2> QED
    BY <1>8, <1>9, <2>1 DEF PageInv, EnrolsElsewhere
<1> QED
  BY <1>10, <1>11, <1>12, <1>13, <1>14 DEF PageInv

\* A command that the page does not wait for, or a load, comes to the end.
LEMMA OthersKeepAsked ==
  ASSUME TypeOK, NEW new \in [DOMAIN calls -> Calls], NEW call \in Calls, calls' = Append(new, call),
         \A i \in DOMAIN calls : new[i].change = calls[i].change /\ (new[i].heard => calls[i].heard),
         \A op \in Settings : ~Concerns(call, op),
         Concerns(call, "bind") => ~call.heard
  PROVE  /\ \A op \in Settings : Asked(op)' = Asked(op)
         /\ \A op \in Settings \cup {"bind"} : \A i \in Asked(op)' :
              calls'[i].heard => i \in Asked(op) /\ calls[i].heard
         /\ \A j \in DOMAIN calls' : \/ j = Len(calls) + 1 /\ calls'[j] = call
                                     \/ j \in DOMAIN calls /\ calls'[j] = new[j] /\ j < Len(calls) + 1
<1>1. /\ \A op : Asked(op)' = Asked(op) \cup {i \in {Len(calls) + 1} : Concerns(call, op)}
      /\ \A op : \A i \in Asked(op) : i \in DOMAIN calls
      /\ \A i \in DOMAIN calls : i < Len(calls) + 1
  BY GrownAsked
<1>2. /\ DOMAIN calls' = 1..(Len(calls) + 1) /\ \A i \in DOMAIN calls : calls'[i] = new[i]
      /\ calls'[Len(calls) + 1] = call
  BY GrownQueue
<1>3. \A op \in Settings : Asked(op)' = Asked(op)
  BY <1>1
<1>4. \A op : \A i \in Asked(op) : calls'[i].heard => calls[i].heard
  BY <1>1, <1>2
<1>5. \A op \in Settings \cup {"bind"} : \A i \in Asked(op)' :
        calls'[i].heard => i \in Asked(op) /\ calls[i].heard
  BY <1>1, <1>2, <1>4
<1>6. \A j \in DOMAIN calls' : \/ j = Len(calls) + 1 /\ calls'[j] = call
                               \/ j \in DOMAIN calls /\ calls'[j] = new[j] /\ j < Len(calls) + 1
  BY <1>1, <1>2, QueueTyped
<1> QED
  BY <1>3, <1>5, <1>6

LEMMA RemountKeepsPage == ASSUME TypeOK, PageInv, PageRemounts PROVE PageInv'
<1> DEFINE new == [i \in DOMAIN calls |-> Unheard(calls[i])]
           call == Call(None, FALSE, TRUE)
<1>1. new \in [DOMAIN calls -> Calls]
  BY QueueTyped, UnheardTyped
<1>2. call \in Calls /\ \A op : ~Concerns(call, op)
  BY CallTyped DEF Call, Concerns
<1>3. calls' = Append(new, call) /\ replies' = {} /\ page' = FreshPage
  BY DEF PageRemounts
<1>4. \A i \in DOMAIN calls : new[i].change = calls[i].change /\ ~new[i].heard
  BY QueueTyped DEF Unheard, Calls
<1> HIDE DEF new, call
<1>5. /\ \A op \in Settings : Asked(op)' = Asked(op)
      /\ \A j \in DOMAIN calls' : \/ j = Len(calls) + 1 /\ calls'[j] = call
                                  \/ j \in DOMAIN calls /\ calls'[j] = new[j] /\ j < Len(calls) + 1
  BY <1>1, <1>2, <1>3, <1>4, OthersKeepAsked
<1>6. \A op : Answered(op)' = {}
  BY <1>3 DEF Answered
<1>7. \A op : \A i \in Asked(op)' : ~calls'[i].heard /\ i < Len(calls) + 1
  BY <1>2, <1>4, <1>5 DEF Asked
<1>8. \A op : From(op)' = "default"
  BY <1>3 DEF From, FreshPage
<1>9. \A op \in Settings : Consistent(op)'
  BY <1>6, <1>7, <1>8 DEF Consistent, OneHeard, AnsweredLast, ShownLast
<1>10. LoadLast'
  <2>1. \A j \in DOMAIN calls' : calls'[j].heard => j = Len(calls) + 1
    BY <1>4, <1>5
  <2> QED
    BY <1>3, <1>7, <2>1 DEF LoadLast
<1>11. LoadedOrAsked' /\ EnrolsElsewhere'
  BY <1>3, <1>6, <1>7 DEF LoadedOrAsked, EnrolsElsewhere, FreshPage
<1> QED
  BY <1>9, <1>10, <1>11 DEF PageInv

LEMMA EnrolsKeepsPage ==
  ASSUME TypeOK, PageInv, NEW template \in Templates, NEW camera \in Cameras \cup {Index},
         Enrols(template, camera)
  PROVE  PageInv'
<1> DEFINE call == Call([op |-> "bind", template |-> template, camera |-> camera], FALSE, FALSE)
<1>1. call \in Calls
  BY CallTyped DEF Changes
<1>2. ~call.heard /\ \A op \in Settings : ~Concerns(call, op)
  BY DEF Call, Concerns, Settings
<1>3. calls' = Append(calls, call) /\ UNCHANGED << saved, replies, page >>
  BY DEF Enrols
<1> HIDE DEF call
<1>4. calls \in [DOMAIN calls -> Calls]
  BY DEF TypeOK
<1>5. /\ \A op \in Settings : Asked(op)' = Asked(op)
      /\ \A op \in Settings \cup {"bind"} : \A i \in Asked(op)' :
           calls'[i].heard => i \in Asked(op) /\ calls[i].heard
      /\ \A j \in DOMAIN calls' : \/ j = Len(calls) + 1 /\ calls'[j] = call
                                  \/ j \in DOMAIN calls /\ calls'[j] = calls[j] /\ j < Len(calls) + 1
  BY <1>1, <1>2, <1>3, <1>4, OthersKeepAsked
<1>6. /\ \A op : Answered(op)' = Answered(op) /\ From(op)' = From(op)
      /\ \A op : Value(page', op) = Value(page, op) /\ Value(saved', op) = Value(saved, op)
  BY <1>3 DEF Answered, From
<1>7. ASSUME NEW op \in Settings PROVE Consistent(op)'
  <2>1. OneHeard(op)'
    BY <1>5 DEF PageInv, Consistent, OneHeard
  <2>2. AnsweredLast(op)'
    BY <1>5, <1>6 DEF PageInv, Consistent, AnsweredLast
  <2>3. ShownLast(op)'
    BY <1>5, <1>6 DEF PageInv, Consistent, ShownLast
  <2> QED
    BY <2>1, <2>2, <2>3 DEF Consistent
<1>8. "snap" \in Settings /\ "bind" \notin Settings
  BY DEF Settings
<1>9. LoadLast'
  <2> SUFFICES ASSUME ~page.asked PROVE LoadLast'
    BY <1>3 DEF LoadLast
  <2>1. ASSUME NEW i \in Asked("snap")', NEW j \in DOMAIN calls', calls'[j].heard, calls'[j].change = None
        PROVE  i < j
    <3>1. i \in Asked("snap") /\ j \in DOMAIN calls /\ calls'[j] = calls[j]
      BY <1>2, <1>5, <1>8, <2>1
    <3> QED
      BY <2>1, <3>1 DEF PageInv, LoadLast
  <2> QED
    BY <1>3, <1>5, <1>8, <2>1 DEF PageInv, LoadLast
<1>10. LoadedOrAsked'
  BY <1>3, <1>5, <1>6, <1>8 DEF PageInv, LoadedOrAsked
<1>11. EnrolsElsewhere'
  BY <1>5, <1>6 DEF PageInv, EnrolsElsewhere
<1> QED
  BY <1>7, <1>9, <1>10, <1>11 DEF PageInv

\* An answer comes, the last there will be on its setting.
LEMMA ReplyKeepsPage ==
  ASSUME TypeOK, PageInv, NEW reply \in replies, ReplyArrives(reply)
  PROVE  PageInv'
<1>1. /\ UNCHANGED << saved, calls >> /\ replies' = replies \ {reply} /\ reply \in Replies
      /\ page \in Pages
  BY DEF ReplyArrives, TypeOK
<1>2. /\ \A op : Asked(op)' = Asked(op) /\ Answered(op)' = Answered(op) \ {reply}
      /\ \A op : Value(saved', op) = Value(saved, op)
  BY <1>1 DEF Asked, Answered
<1>3. ASSUME NEW op \in Settings, ShownLast(op)' PROVE Consistent(op)'
  <2>1. OneHeard(op)'
    BY <1>1, <1>2 DEF PageInv, Consistent, OneHeard
  <2>2. AnsweredLast(op)'
    BY <1>2 DEF PageInv, Consistent, AnsweredLast
  <2> QED
    BY <1>3, <2>1, <2>2 DEF Consistent
\* A switch the answer is not about.
<1>4. ASSUME NEW op \in Settings, From(op)' = From(op), Value(page', op) = Value(page, op)
      PROVE  Consistent(op)'
  <2>1. ShownLast(op)'
    BY <1>2, <1>4 DEF PageInv, Consistent, ShownLast
  <2> QED
    BY <1>3, <2>1
<1>5. ASSUME page'.asked = page.asked,
             page'.snapFrom = "load" => \/ page.snapFrom = "load" /\ page'.snap = page.snap
                                        \/ reply.change = None /\ reply.done /\ ~page.asked
                                           /\ page'.snap = reply.snap,
             page'.snapFrom = "update" => page.snapFrom = "update" \/ Answered("snap") # {}
      PROVE  LoadLast' /\ LoadedOrAsked' /\ EnrolsElsewhere'
  <2>1. LoadLast'
    BY <1>1, <1>2, <1>5 DEF PageInv, LoadLast
  <2>2. page'.snapFrom = "load" => ~page.asked /\ Asked("snap") = {} /\ page'.snap = saved.snap
    BY <1>5 DEF PageInv, LoadedOrAsked, LoadLast
  <2>3. LoadedOrAsked'
    BY <1>1, <1>2, <1>5, <2>2 DEF PageInv, LoadedOrAsked
  <2>4. EnrolsElsewhere'
    BY <1>1, <1>2 DEF PageInv, EnrolsElsewhere
  <2> QED
    BY <2>1, <2>3, <2>4
<1>6. "snap" \in Settings /\ "lock" \in Settings
  BY DEF Settings
<1>7. CASE reply.change = None
  <2>1. CASE reply.done
    <3>1. page' = AfterLoad(reply)
      BY <1>7, <2>1 DEF ReplyArrives
    <3>2. /\ page'.lockFrom = "load" /\ page'.asked = page.asked
          /\ (page.asked => page'.snapFrom = page.snapFrom /\ page'.snap = page.snap)
          /\ (~page.asked => page'.snapFrom = "load" /\ page'.snap = reply.snap)
      BY <1>1, <3>1 DEF AfterLoad, Pages
    <3>3. Consistent("lock")'
      BY <1>3, <1>6, <3>2 DEF ShownLast, From
    <3>4. Consistent("snap")'
      <4>1. CASE page.asked
        BY <1>4, <1>6, <3>2, <4>1 DEF From, Value
      <4>2. CASE ~page.asked
        BY <1>3, <1>6, <3>2, <4>2 DEF ShownLast, From
      <4> QED
        BY <4>1, <4>2
    <3> QED
      BY <1>5, <1>7, <2>1, <3>2, <3>3, <3>4 DEF PageInv, Settings
  <2>2. CASE ~reply.done
    <3>1. page' = page
      BY <1>7, <2>2 DEF ReplyArrives
    <3> QED
      BY <1>4, <1>5, <3>1 DEF PageInv, From, Value
  <2> QED
    BY <2>1, <2>2
<1>8. CASE reply.change # None /\ reply.change.op = "lock"
  <2>1. page' = AfterLock(reply) /\ reply \in Answered("lock")
    BY <1>8 DEF ReplyArrives, Answered, Concerns
  <2>2. /\ page'.asked = page.asked /\ page'.snap = page.snap /\ page'.snapFrom = page.snapFrom
        /\ page'.lockFrom = "update" => reply.done /\ page'.lock = reply.lock
    BY <1>1, <2>1 DEF AfterLock, Pages
  <2>3. Consistent("lock")'
    <3>1. Asked("lock") = {} /\ Answered("lock") = {reply} /\ (reply.done => reply.lock = saved.lock)
      BY <1>6, <2>1 DEF PageInv, Consistent, AnsweredLast, Value
    <3>2. ShownLast("lock")'
      BY <1>1, <1>2, <2>2, <3>1 DEF ShownLast, From, Value
    <3> QED
      BY <1>3, <1>6, <3>2
  <2>4. Consistent("snap")'
    BY <1>4, <1>6, <2>2 DEF From, Value
  <2> QED
    BY <1>5, <2>2, <2>3, <2>4 DEF PageInv, Settings
<1>9. CASE reply.change # None /\ reply.change.op # "lock"
  <2>1. page' = AfterSnap(reply)
    BY <1>9 DEF ReplyArrives
  <2>2. reply \in Answered("snap")
    <3>1. reply.change \in Changes /\ reply \notin Answered("bind")
      BY <1>1, <1>9 DEF Replies, PageInv, EnrolsElsewhere
    <3>2. reply.change.op \in {"lock", "snap", "bind"}
      BY <3>1 DEF Changes
    <3> QED
      BY <1>9, <3>1, <3>2 DEF Answered, Concerns
  <2>3. /\ page'.asked = page.asked /\ page'.lock = page.lock /\ page'.lockFrom = page.lockFrom
        /\ page'.snapFrom \in {"update", "failure"}
        /\ page'.snapFrom = "update" => reply.done /\ page'.snap = reply.snap
    BY <1>1, <2>1 DEF AfterSnap, Pages
  <2>4. Consistent("snap")'
    <3>1. Asked("snap") = {} /\ Answered("snap") = {reply} /\ (reply.done => reply.snap = saved.snap)
      BY <1>6, <2>2 DEF PageInv, Consistent, AnsweredLast, Value
    <3>2. ShownLast("snap")'
      BY <1>1, <1>2, <2>3, <3>1 DEF ShownLast, From, Value
    <3> QED
      BY <1>3, <1>6, <3>2
  <2>5. Consistent("lock")'
    BY <1>4, <1>6, <2>3 DEF From, Value
  <2> QED
    BY <1>5, <2>2, <2>3, <2>4, <2>5 DEF PageInv, Settings
<1> QED
  BY <1>7, <1>8, <1>9

LEMMA PageStepKeepsPage == ASSUME TypeOK, PageInv, PageStep PROVE PageInv'
<1>0. page \in Pages
  BY DEF TypeOK
<1>1. ASSUME NEW value \in BOOLEAN, changeAutoLock(value) PROVE PageInv'
  <2>1. MayAsk /\ Asks("lock", value, page.lock) /\ saved' = saved /\ page.lock \in BOOLEAN
    BY <1>0, <1>1 DEF changeAutoLock, Pages
  <2>2. /\ page'.lockFrom = "request" /\ page'.snapFrom = page.snapFrom /\ page'.snap = page.snap
        /\ page'.asked = page.asked /\ page.asked \in BOOLEAN
    BY <1>0, <1>1 DEF changeAutoLock, Pages
  <2>3. "lock" \in Settings /\ \A q \in Settings \ {"lock"} : q = "snap"
    BY DEF Settings
  <2> QED
    BY <2>1, <2>2, <2>3, AsksKeepsPage DEF From, Value
<1>2. ASSUME NEW value \in BOOLEAN, changeIntruderSnap(value) PROVE PageInv'
  <2>1. MayAsk /\ Asks("snap", value, FALSE) /\ saved' = saved
    BY <1>2 DEF changeIntruderSnap
  <2>2. /\ page'.snapFrom = "request" /\ page'.lockFrom = page.lockFrom /\ page'.lock = page.lock
        /\ page'.asked
    BY <1>0, <1>2 DEF changeIntruderSnap, Pages
  <2>3. "snap" \in Settings /\ \A q \in Settings \ {"snap"} : q = "lock"
    BY DEF Settings
  <2>4. page'.asked = (page.asked \/ "snap" = "snap")
    BY <1>0, <1>2 DEF changeIntruderSnap, Pages
  <2> QED
    BY <2>1, <2>2, <2>3, <2>4, AsksKeepsPage DEF From, Value
<1> QED
  BY <1>1, <1>2, RemountKeepsPage, EnrolsKeepsPage DEF PageStep

\* The value being written is the one the first command asks for.
Served == service.step = "persist" /\ service.change.op # "bind" => service.change = Running.change

SettingsInv == IInv /\ Served /\ PageInv

\* The other settings are as they were.
LEMMA WrittenConcerns ==
  ASSUME TypeOK, Attended, Served, service.step = "persist"
  PROVE  \A op \in Settings : \/ Value(Written, op) = Value(saved, op)
                              \/ calls # << >> /\ Concerns(Running, op)
<1>1. /\ service.change \in Changes /\ calls # << >> /\ Running.change # None
      /\ saved \in Saved /\ service.field \in 1..3
  BY FieldsTyped DEF Attended, Busy, TypeOK, Serving
<1>2. ASSUME NEW op \in Settings, service.change.op # op PROVE Value(Written, op) = Value(saved, op)
  <2>1. CASE service.change.op = "bind"
    <3>1. Written.lock = saved.lock /\ Written.snap = saved.snap
      BY <1>1, <2>1 DEF Written, Bound, Fields, Saved
    <3> QED
      BY <3>1 DEF Value
  <2>2. CASE service.change.op = "lock"
    BY <1>1, <1>2, <2>2 DEF Written, Value, Saved, Settings
  <2>3. CASE service.change.op = "snap"
    BY <1>1, <1>2, <2>3 DEF Written, Value, Saved, Settings
  <2> QED
    BY <1>1, <2>1, <2>2, <2>3 DEF Changes
<1>3. ASSUME NEW op \in Settings, service.change.op = op PROVE Concerns(Running, op)
  BY <1>1, <1>3 DEF Served, Concerns, Settings
<1> QED
  BY <1>1, <1>2, <1>3

\* A step of the service or the back end either leaves commands and answers
\* alone or answers the first command.
ServiceMoves ==
  /\ page' = page
  /\ \A op \in Settings : \/ Value(saved', op) = Value(saved, op)
                          \/ calls # << >> /\ Concerns(Running, op)
  /\ \/ UNCHANGED << calls, replies >>
     \/ calls # << >> /\ ~(service'.step = "persist") /\ \E done \in BOOLEAN : Answers(done)

LEMMA MovesKeepPage ==
  ASSUME TypeOK, TypeOK', PageInv, ServiceMoves
  PROVE  PageInv'
<1>1. CASE UNCHANGED << calls, replies >>
  BY <1>1, WritingKeepsPage DEF ServiceMoves
<1>2. ASSUME calls # << >>, NEW done \in BOOLEAN, Answers(done) PROVE PageInv'
  <2>1. saved' \in Saved
    BY DEF TypeOK
  <2> QED
    BY <1>2, <2>1, AnswersKeepPage DEF ServiceMoves
<1> QED
  BY <1>1, <1>2 DEF ServiceMoves

LEMMA RequestsMove ==
  ASSUME IInv, Served, UpdateBegins \/ BindBegins \/ Persists \/ PersistFails \/ WrittenUnread \/ Reloads
  PROVE  ServiceMoves /\ Served'
<1>0. TypeOK /\ Attended /\ service \in Serving /\ ~(At("idle").step = "persist")
  BY DEF IInv, TypeOK, At
<1>1. CASE UpdateBegins
  <2>1. service'.change = Running.change /\ UNCHANGED << calls, replies, page, saved >>
    BY <1>1, AtTyped DEF UpdateBegins, At
  <2> QED
    BY <2>1 DEF ServiceMoves, Served, Running
<1>2. CASE BindBegins
  <2>1. calls # << >> /\ UNCHANGED << saved, page >> /\ Running.change # None /\ Running.change.op = "bind"
    BY <1>2 DEF BindBegins, Concerns
  <2>2. CASE service' = At("idle") /\ Answers(FALSE)
    BY <1>0, <2>1, <2>2 DEF ServiceMoves, Served
  <2>3. ASSUME NEW camera,
               service' = [At("persist") EXCEPT !.change = [Running.change EXCEPT !.camera = camera]],
               UNCHANGED << calls, replies >>
        PROVE  ServiceMoves /\ Served'
    <3>1. Running.change \in Changes
      BY <1>0, <2>1, RunningTyped
    <3>2. Running.change \in [op : {"bind"}, template : Templates, camera : Cameras \cup {Index}]
      BY <2>1, <3>1 DEF Changes
    <3>3. service'.change.op = "bind"
      BY <2>3, <3>2 DEF At
    <3> QED
      BY <2>1, <2>3, <3>3 DEF ServiceMoves, Served
  <2> QED
    BY <1>2, <2>2, <2>3 DEF BindBegins
<1>3. CASE Persists \/ WrittenUnread \/ PersistFails
  <2>1. service.step = "persist" /\ calls # << >> /\ page' = page
    BY <1>0, <1>3 DEF Persists, WrittenUnread, PersistFails, Attended, Busy
  <2>2. \A op \in Settings : Value(saved', op) = Value(saved, op) \/ Concerns(Running, op)
    BY <1>0, <1>3, <2>1, WrittenConcerns DEF Persists, WrittenUnread, PersistFails
  <2>3. CASE service' = At("idle") /\ \E done \in BOOLEAN : Answers(done)
    BY <1>0, <2>1, <2>2, <2>3 DEF ServiceMoves, Served
  <2>4. CASE Persists /\ ~IsOptOut
    <3>1. UNCHANGED << calls, replies >>
      BY <2>4 DEF Persists
    <3>2. service'.step = "persist" => service.change.op = "bind" /\ service'.change = service.change
      BY <1>0, <2>4 DEF Persists, Serving
    <3> QED
      BY <2>1, <2>2, <3>1, <3>2 DEF ServiceMoves, Served
  <2> QED
    BY <1>3, <2>3, <2>4 DEF Persists, WrittenUnread, PersistFails
<1>4. CASE Reloads
  <2>1. service'.step = "load" /\ UNCHANGED << saved, calls, replies, page >>
    BY <1>0, <1>4 DEF Reloads, Serving
  <2> QED
    BY <2>1 DEF ServiceMoves, Served
<1> QED
  BY <1>1, <1>2, <1>3, <1>4

\* A load, a monitor start and the ends of the service write no setting, and
\* begin no request.
LEMMA RestMoves ==
  ASSUME IInv, Served, Next,
         ~(UpdateBegins \/ BindBegins \/ Persists \/ PersistFails \/ WrittenUnread \/ Reloads),
         ~PageStep, ~ReplyStep
  PROVE  ServiceMoves /\ Served'
<1>0. TypeOK /\ Attended /\ service \in Serving /\ saved \in Saved
      /\ \A step \in {"idle", "down", "starting"} : ~(At(step).step = "persist")
  BY DEF IInv, TypeOK, At
<1>1. SUFFICES /\ page' = page /\ saved'.lock = saved.lock /\ saved'.snap = saved.snap
               /\ \/ /\ UNCHANGED << calls, replies >>
                     /\ service'.step = "persist" => UNCHANGED << service, calls >>
                  \/ calls # << >> /\ ~(service'.step = "persist") /\ \E done \in BOOLEAN : Answers(done)
  BY DEF ServiceMoves, Served, Value, Running
<1>2. CASE BackendStep
  <2>1. ~(service.step = "persist") /\ calls # << >> /\ UNCHANGED << saved, service, page >>
        /\ \E done \in BOOLEAN : Answers(done)
    BY <1>0, <1>2 DEF BackendStep, SettingsAreRead, ServiceUnreachable, Attended, Busy
  <2> QED
    BY <2>1
<1>3. CASE LoadsManualTest \/ LoadsLocalCamera \/ CameraUnavailable
  <2>1. Loading /\ UNCHANGED << saved, page >> /\ service' = At("idle")
        /\ (UNCHANGED << calls, replies >> \/ (service.step = "load" /\ \E done \in BOOLEAN : Answers(done)))
    BY <1>3 DEF LoadsManualTest, LoadsLocalCamera, CameraUnavailable, ReadsLocalCamera, Loading, Loaded
  <2> QED
    BY <1>0, <2>1 DEF Attended, Busy
<1>4. CASE LoadFails
  BY <1>0, <1>4 DEF LoadFails, Attended, Busy
<1>5. CASE ReadsIdentity
  <2>1. ~(service'.step = "persist") /\ UNCHANGED << saved, page, calls, replies >>
    BY <1>0, <1>5 DEF ReadsIdentity, ReadsLocalCamera, Loading, Serving
  <2> QED
    BY <2>1
<1>6. ASSUME NEW reader \in Readers, ResolvesIndex(reader) \/ BindsIndex(reader)
      PROVE  /\ page' = page /\ saved'.lock = saved.lock /\ saved'.snap = saved.snap
             /\ UNCHANGED << calls, replies >>
             /\ service'.step = "persist" => UNCHANGED << service, calls >>
  <2>1. CASE ResolvesIndex(reader)
    BY <2>1 DEF ResolvesIndex
  <2>2. CASE BindsIndex(reader)
    <3>1. UNCHANGED << calls, replies, page >> /\ saved' = [saved EXCEPT !.camera = binding[reader]]
      BY <2>2 DEF BindsIndex
    <3>2. service'.step = "persist" => UNCHANGED service
      <4>1. CASE reader = "service"
        <5>1. Loading /\ service' = [service EXCEPT !.camera = binding[reader]]
          BY <2>2, <4>1 DEF BindsIndex, IInv, Settled
        <5> QED
          BY <1>0, <5>1 DEF Loading, Serving
      <4>2. CASE reader # "service"
        BY <2>2, <4>2 DEF BindsIndex
      <4> QED
        BY <4>1, <4>2
    <3> QED
      BY <1>0, <3>1, <3>2 DEF Saved
  <2> QED
    BY <1>6, <2>1, <2>2
<1>7. CASE MonitorUnbound \/ ServiceStarts
  BY <1>0, <1>7 DEF MonitorUnbound, ServiceStarts
<1>8. CASE ServiceDies
  BY <1>0, <1>8 DEF ServiceDies, Attended, Busy
<1> QED
  BY <1>2, <1>3, <1>4, <1>5, <1>6, <1>7, <1>8 DEF Next, ServiceStep

LEMMA ServedStays ==
  ASSUME TypeOK, Attended, Served, UNCHANGED service,
         calls # << >> => Running'.change = Running.change
  PROVE  Served'
  BY DEF Served, Attended, Busy

LEMMA PageServed ==
  ASSUME TypeOK, Attended, Served, PageStep \/ ReplyStep
  PROVE  Served'
<1>1. CASE ReplyStep
  BY <1>1, ServedStays DEF ReplyStep, ReplyArrives, Running
<1>2. CASE PageRemounts
  <2> DEFINE new == [i \in DOMAIN calls |-> Unheard(calls[i])]
             call == Call(None, FALSE, TRUE)
  <2>1. new \in [DOMAIN calls -> Calls] /\ \A i \in DOMAIN calls : new[i].change = calls[i].change
    BY QueueTyped, UnheardTyped DEF Unheard, Calls
  <2>2. calls' = Append(new, call) /\ UNCHANGED service
    BY <1>2 DEF PageRemounts
  <2> HIDE DEF new, call
  <2> QED
    BY <2>1, <2>2, HeadStays, ServedStays
<1>3. CASE \E value \in BOOLEAN : changeAutoLock(value) \/ changeIntruderSnap(value)
  BY <1>3, AskKeepsHead, ServedStays DEF changeAutoLock, changeIntruderSnap
<1>4. ASSUME NEW template \in Templates, NEW camera \in Cameras \cup {Index}, Enrols(template, camera)
      PROVE  Served'
  <2>1. calls \in [DOMAIN calls -> Calls] /\ UNCHANGED service
    BY <1>4 DEF TypeOK, Enrols
  <2>2. \E call : calls' = Append(calls, call)
    BY <1>4 DEF Enrols
  <2> QED
    BY <2>1, <2>2, HeadStays, ServedStays
<1> QED
  BY <1>1, <1>2, <1>3, <1>4 DEF PageStep

LEMMA InitShowsNothing == Init => Served /\ PageInv
<1> SUFFICES ASSUME Init PROVE Served /\ PageInv
  OBVIOUS
<1> DEFINE call == Call(None, FALSE, TRUE)
<1>1. calls = << call >> /\ \A op : ~Concerns(call, op)
  BY DEF Init, Concerns, Call
<1> HIDE DEF call
<1>2. \A op : Asked(op) = {} /\ Answered(op) = {} /\ From(op) = "default"
  <2>1. DOMAIN calls = {1} /\ calls[1] = call
    BY <1>1
  <2>2. \A op : Asked(op) = {}
    BY <1>1, <2>1 DEF Asked
  <2>3. replies = {} /\ page.lockFrom = "default" /\ page.snapFrom = "default"
    BY DEF Init, FreshPage
  <2> QED
    BY <2>2, <2>3 DEF Answered, From
<1>3. \A op \in Settings : Consistent(op)
  BY <1>2 DEF Consistent, OneHeard, AnsweredLast, ShownLast
<1>4. LoadLast /\ LoadedOrAsked /\ EnrolsElsewhere
  BY <1>2 DEF Init, FreshPage, LoadLast, LoadedOrAsked, EnrolsElsewhere
<1>5. Served
  BY DEF Init, Served, At
<1> QED
  BY <1>3, <1>4, <1>5 DEF PageInv

\* Whatever is asked, answered late or lost, and whichever step of a change
\* fails: when nothing is under way any more, the page shows of a setting that
\* an update or the first load told it of what is saved.
THEOREM PageAlwaysShowsSaved == Spec => []PageShowsSaved
<1>1. Init => SettingsInv
  BY InitEstablishes, InitShowsNothing DEF SettingsInv
<1>2. SettingsInv /\ [Next]_vars => SettingsInv'
  <2> SUFFICES ASSUME SettingsInv, [Next]_vars PROVE SettingsInv'
    OBVIOUS
  <2>0. IInv /\ IInv' /\ TypeOK /\ TypeOK' /\ Attended /\ Served /\ PageInv
    BY StepKeeps DEF SettingsInv, IInv
  <2>1. CASE PageStep
    BY <2>0, <2>1, PageStepKeepsPage, PageServed DEF SettingsInv
  <2>2. CASE ReplyStep
    BY <2>0, <2>2, ReplyKeepsPage, PageServed DEF SettingsInv, ReplyStep
  <2>3. CASE UpdateBegins \/ BindBegins \/ Persists \/ PersistFails \/ WrittenUnread \/ Reloads
    BY <2>0, <2>3, RequestsMove, MovesKeepPage DEF SettingsInv
  <2>4. CASE /\ Next /\ ~PageStep /\ ~ReplyStep
             /\ ~(UpdateBegins \/ BindBegins \/ Persists \/ PersistFails \/ WrittenUnread \/ Reloads)
    BY <2>0, <2>4, RestMoves, MovesKeepPage DEF SettingsInv
  <2>5. CASE UNCHANGED vars
    <3>1. UNCHANGED << saved, service, calls, replies, page >>
      BY <2>5 DEF vars
    <3>2. PageInv'
      BY <2>0, <3>1, WritingKeepsPage
    <3> QED
      BY <2>0, <3>1, <3>2 DEF SettingsInv, Served, Running
  <2> QED
    BY <2>1, <2>2, <2>3, <2>4, <2>5
<1>3. SettingsInv => PageShowsSaved
  <2> SUFFICES ASSUME SettingsInv, calls = << >>, replies = {}
               PROVE  /\ page.lockFrom = "update" => page.lock = saved.lock
                      /\ page.snapFrom \in {"load", "update"} => page.snap = saved.snap
    BY DEF PageShowsSaved
  <2>1. "lock" \in Settings /\ "snap" \in Settings
    BY DEF Settings
  <2> QED
    BY <2>1 DEF SettingsInv, PageInv, Consistent, ShownLast, LoadedOrAsked, From, Value
<1> QED
  BY <1>1, <1>2, <1>3, PTL DEF Spec
=============================================================================

---------------------------- MODULE Setup_proofs ----------------------------
(***************************************************************************)
(* Proofs about Setup over CredentialStore, for any directories and keys,  *)
(* and any number of operations of the installer.                          *)
(***************************************************************************)
EXTENDS Setup, SequenceTheorems, TLAPS

USE StoreAssumption, SetupAssumption

-----------------------------------------------------------------------------
(* The inductive invariant: the store and those who open it                *)

Working == {"migrate", "mark", "marking", "save", "saved", "serving"}
Keyed == Working \cup {"open"}
Encrypted == Working \ {"migrate"}

\* What an opener knows of its store: whoever has a key has the one that is
\* there, unless it was deleted; a database in use stays, and stays its own.
OpenerSane(o) ==
  /\ o.pc # "idle" => o.dir \in Dirs
  /\ o.pc \in Keyed => o.key # None /\ (o.dir \notin purged => key[o.dir] = o.key)
  /\ o.pc \in Working => db[o.dir] # None
  /\ o.pc \in Encrypted => db[o.dir].key = o.key
  /\ o.pc = "saved" => db[o.dir].credential
  /\ o.pc = "marking" /\ purged = {} => pin = o.dir

\* No encrypted database is without its key.
KeysKept == \A d \in Dirs \ purged : db[d] # None /\ db[d].key # None => key[d] = db[d].key

StoreInv ==
  /\ StoreTypeOK
  /\ \A p \in Openers : OpenerSane(opener[p])
  /\ KeysKept
  /\ MarkedStoreIsWhole

-----------------------------------------------------------------------------
(* The inductive invariant: the machine and the installer                  *)

MachineTypeOK ==
  /\ files \in [Dirs -> SUBSET Payload]
  /\ entry \in Dirs \cup {None}
  /\ override \in Dirs \cup {None}
  /\ com \in Dirs \cup {None}
  /\ enumerated \in BOOLEAN
  /\ asked \in 0 .. MaxOperations
  /\ kept \in Dirs \cup {None}
  /\ forgotten \in SUBSET Dirs
  /\ purged \in SUBSET Dirs
  /\ replacing \in SUBSET Dirs

MachineInv ==
  /\ MachineTypeOK
  /\ entry = None => override = None
  /\ RegisteredBinariesExist

\* The installer is at the n-th step of an operation.
Place(o, n) == setup.todo = SubSeq(Steps(o), n, Len(Steps(o)))

\* What the steps before it have established.
Ahead(o, n) ==
  /\ setup.dir \in IF o \in {"stage", "install", "purge"} THEN Dirs ELSE {None}
  /\ o = "install" =>
       /\ n > 1 => pin # None /\ "service" \in files[setup.dir]
       /\ n > 2 => entry = setup.dir
       /\ n > 5 => com = setup.dir /\ "provider" \in files[com]
  /\ o = "remove" =>
       /\ n > 1 => pin # None \/ entry = None
       /\ n > 2 => ~enumerated
  /\ o = "purge" =>
       /\ kept = None
       /\ n > 1 => ~enumerated
       /\ n > 4 => entry = None
  /\ o = "removeService" => pin # None \/ StoreInUse = None \/ StoreInUse \in forgotten

InstallerInv ==
  \/ setup = NoOperation
  \/ /\ setup \in [dir : Dirs \cup {None}, todo : Seq(StepNames)]
     /\ \E o \in Operations : \E n \in 1..Len(Steps(o)) : Place(o, n) /\ Ahead(o, n)

IInv == StoreInv /\ MachineInv /\ InstallerInv /\ CredentialStaysInUse

-----------------------------------------------------------------------------
(* Steps of an opener                                                      *)

LEMMA OneOpener ==
  ASSUME StoreInv, NEW p \in Openers, NEW o \in Opener, OpenerSane(o),
         opener' = [opener EXCEPT ![p] = o],
         UNCHANGED << key, db, pin, initialized, purged >>
  PROVE  StoreInv'
<1>1. StoreTypeOK'
  BY DEF StoreInv, StoreTypeOK
<1>2. ASSUME NEW q \in Openers
      PROVE  OpenerSane(opener[q])'
  <2>1. opener'[q] = IF q = p THEN o ELSE opener[q]
    BY DEF StoreInv, StoreTypeOK
  <2> QED
    BY <2>1 DEF StoreInv, OpenerSane
<1>3. KeysKept' /\ MarkedStoreIsWhole'
  BY DEF StoreInv, KeysKept, MarkedStoreIsWhole, Whole
<1> QED
  BY <1>1, <1>2, <1>3 DEF StoreInv

\* What is readable stays readable, and is where it was.
Stays == UNCHANGED pin /\ \A d \in Dirs : Readable(d) => Readable(d)'

LEMMA NothingWritten ==
  ASSUME UNCHANGED << key, db, pin >>
  PROVE  Stays
  BY DEF Stays, Readable, Whole

LEMMA IdleSane == IdleOpener \in Opener /\ OpenerSane(IdleOpener)
  BY DEF IdleOpener, Opener, OpenerSane, Tasks, Keyed, Working, Encrypted

\* Steps that read only.
LEMMA ReadingKeeps ==
  ASSUME StoreInv, NEW p \in Openers, UNCHANGED purged,
         Checks(p) \/ LoadsKey(p) \/ GeneratesKey(p) \/ LooksAtMark(p)
  PROVE  StoreInv' /\ Stays
<1> DEFINE o == opener[p]
<1>1. o \in Opener /\ OpenerSane(o)
  BY DEF StoreInv, StoreTypeOK
<1>2. UNCHANGED << key, db, pin, initialized, purged >>
  BY DEF Checks, LoadsKey, GeneratesKey, LooksAtMark
<1>3. CASE Checks(p) \/ GeneratesKey(p)
  <2>1. PICK pc \in {"find", "publish"} : opener' = [opener EXCEPT ![p] = [o EXCEPT !.pc = pc]]
    BY <1>3 DEF Checks, GeneratesKey, Goto
  <2>2. o.pc # "idle"
    BY <1>3 DEF Checks, GeneratesKey, At
  <2>3. [o EXCEPT !.pc = pc] \in Opener /\ OpenerSane([o EXCEPT !.pc = pc])
    BY <1>1, <2>2 DEF Opener, OpenerSane, Keyed, Working, Encrypted
  <2> QED
    BY <1>2, <2>1, <2>3, OneOpener, NothingWritten
<1>4. CASE LoadsKey(p)
  <2> DEFINE n == [o EXCEPT !.pc = "open", !.key = key[o.dir]]
  <2>1. opener' = [opener EXCEPT ![p] = n] /\ o.pc # "idle" /\ key[o.dir] # None
    BY <1>4 DEF LoadsKey, At
  <2>2. n \in Opener /\ OpenerSane(n)
    BY <1>1, <2>1 DEF Opener, OpenerSane, Keyed, Working, Encrypted, StoreInv, StoreTypeOK
  <2> QED
    BY <1>2, <2>1, <2>2, OneOpener, NothingWritten
<1>5. CASE LooksAtMark(p)
  <2>1. PICK pc \in {"serving", "save", "marking"} :
          opener' = [opener EXCEPT ![p] = [o EXCEPT !.pc = pc]]
    BY <1>5 DEF LooksAtMark, Goto, Opened
  <2>2. o.pc = "mark" /\ pin = o.dir
    BY <1>5 DEF LooksAtMark, At
  <2>3. [o EXCEPT !.pc = pc] \in Opener /\ OpenerSane([o EXCEPT !.pc = pc])
    BY <1>1, <2>2 DEF Opener, OpenerSane, Keyed, Working, Encrypted
  <2> QED
    BY <1>2, <2>1, <2>3, OneOpener, NothingWritten
<1> QED
  BY <1>3, <1>4, <1>5

LEMMA ResolvesKeeps ==
  ASSUME StoreInv, NEW p \in Openers, UNCHANGED purged,
         NEW task \in Tasks, NEW own \in Dirs, Resolves(p, task, own)
  PROVE  StoreInv' /\ Stays
<1> DEFINE n == [pc |-> "check", task |-> task, key |-> None,
                 dir |-> IF pin # None THEN pin ELSE own, pinned |-> pin # None]
<1>1. opener' = [opener EXCEPT ![p] = n] /\ UNCHANGED << key, db, pin, initialized >>
  BY DEF Resolves
<1>2. n \in Opener /\ OpenerSane(n)
  BY DEF Opener, OpenerSane, Keyed, Working, Encrypted, StoreInv, StoreTypeOK
<1> QED
  BY <1>1, <1>2, OneOpener, NothingWritten

LEMMA EndingKeeps ==
  ASSUME StoreInv, NEW p \in Openers, UNCHANGED purged, GivesUp(p) \/ Acknowledges(p)
  PROVE  StoreInv' /\ Stays
<1>1. opener' = [opener EXCEPT ![p] = IdleOpener] /\ UNCHANGED << key, db, pin, initialized >>
  BY DEF GivesUp, Acknowledges
<1> QED
  BY <1>1, IdleSane, OneOpener, NothingWritten

\* Nobody has a key yet where none is published.
LEMMA PublishesKeeps ==
  ASSUME StoreInv, NEW p \in Openers, UNCHANGED purged, PublishesKey(p)
  PROVE  StoreInv' /\ Stays
<1> DEFINE o == opener[p]
           d == o.dir
<1>1. o \in Opener /\ OpenerSane(o) /\ o.pc = "publish" /\ d \in Dirs
  BY DEF StoreInv, StoreTypeOK, PublishesKey, At, OpenerSane
<1>2. CASE key[d] # None
  <2> DEFINE n == [o EXCEPT !.pc = "load"]
  <2>1. opener' = [opener EXCEPT ![p] = n] /\ UNCHANGED << key, db, pin, initialized >>
    BY <1>2 DEF PublishesKey, Goto
  <2>2. n \in Opener /\ OpenerSane(n)
    BY <1>1 DEF Opener, OpenerSane, Keyed, Working, Encrypted
  <2> QED
    BY <2>1, <2>2, OneOpener, NothingWritten
<1>3. CASE key[d] = None
  <2>1. PICK k \in Keys : /\ key' = [key EXCEPT ![d] = k]
                          /\ opener' = [opener EXCEPT ![p] = [o EXCEPT !.pc = "open", !.key = k]]
    <3>1. PICK k \in Keys : /\ key' = [key EXCEPT ![d] = k]
                            /\ opener' = [opener EXCEPT ![p].pc = "open", ![p].key = k]
      BY <1>3 DEF PublishesKey
    <3>2. opener \in [Openers -> Opener]
      BY DEF StoreInv, StoreTypeOK
    <3>3. opener' = [opener EXCEPT ![p] = [o EXCEPT !.pc = "open", !.key = k]]
      BY <3>1, <3>2
    <3> QED
      BY <3>1, <3>3
  <2>2. UNCHANGED << db, pin, initialized >>
    BY DEF PublishesKey
  <2>3. /\ key'[d] = k /\ \A e \in Dirs : e # d => key'[e] = key[e]
        /\ opener'[p] = [o EXCEPT !.pc = "open", !.key = k]
        /\ \A q \in Openers : q # p => opener'[q] = opener[q]
    BY <1>1, <2>1 DEF StoreInv, StoreTypeOK
  <2>4. StoreTypeOK'
    BY <1>1, <2>1, <2>2 DEF StoreInv, StoreTypeOK, Opener
  <2>5. OpenerSane(opener[p])'
    BY <1>1, <2>2, <2>3 DEF Opener, OpenerSane, Keyed, Working, Encrypted
  <2>6. ASSUME NEW q \in Openers, q # p PROVE OpenerSane(opener[q])'
    <3>1. OpenerSane(opener[q]) /\ opener[q] \in Opener
      BY DEF StoreInv, StoreTypeOK
    <3>2. opener[q].pc \in Keyed /\ opener[q].dir \notin purged => opener[q].dir # d
      BY <1>3, <3>1 DEF OpenerSane
    <3> QED
      BY <2>2, <2>3, <2>6, <3>1, <3>2 DEF OpenerSane, Keyed, Working
  <2>7. KeysKept' /\ MarkedStoreIsWhole'
    <3>1. d \notin purged => db[d] = None \/ db[d].key = None
      BY <1>1, <1>3 DEF StoreInv, KeysKept, StoreTypeOK, Database
    <3>2. KeysKept'
      BY <2>2, <2>3, <3>1 DEF StoreInv, KeysKept
    <3>3. MarkedStoreIsWhole'
      BY <1>3, <2>2, <2>3 DEF StoreInv, MarkedStoreIsWhole, Whole, StoreTypeOK
    <3> QED
      BY <3>2, <3>3
  <2>8. Stays
    BY <1>3, <2>2, <2>3 DEF Stays, Readable, Whole
  <2> QED
    BY <2>4, <2>5, <2>6, <2>7, <2>8 DEF StoreInv
<1> QED
  BY <1>2, <1>3

\* One database is written, by an opener whose key is the store's.
LEMMA OneDatabase ==
  ASSUME StoreInv, NEW p \in Openers, NEW n \in Opener, NEW x \in Database,
         LET o == opener[p] IN
           /\ o.pc \in Keyed
           /\ n.dir = o.dir /\ n.key = o.key
           /\ db' = [db EXCEPT ![o.dir] = x]
           /\ x.key = o.key \/ (db[o.dir] = None /\ x.key = None)
           /\ db[o.dir] # None => db[o.dir].key \in {None, o.key}
           /\ db[o.dir] # None /\ db[o.dir].credential => x.credential
           /\ n.pc \in Encrypted => x.key = o.key
           /\ n.pc \in Working \cup {"idle"}
           /\ n.pc = "saved" => x.credential
           /\ n.pc # "marking",
         opener' = [opener EXCEPT ![p] = n],
         UNCHANGED << key, pin, initialized, purged >>
  PROVE  StoreInv' /\ Stays
<1> DEFINE o == opener[p]
           d == o.dir
<1>1. o \in Opener /\ OpenerSane(o) /\ d \in Dirs /\ o.key \in Keys
  BY DEF StoreInv, StoreTypeOK, OpenerSane, Keyed, Working, Opener
<1>2. /\ db'[d] = x /\ \A e \in Dirs : e # d => db'[e] = db[e]
      /\ opener'[p] = n /\ \A q \in Openers : q # p => opener'[q] = opener[q]
  BY <1>1 DEF StoreInv, StoreTypeOK
<1>3. StoreTypeOK'
  BY <1>1 DEF StoreInv, StoreTypeOK
<1>4. x # None
  BY DEF Database
<1>5. OpenerSane(opener[p])'
  BY <1>1, <1>2, <1>4 DEF OpenerSane, Keyed, Working, Encrypted
<1>6. ASSUME NEW q \in Openers, q # p PROVE OpenerSane(opener[q])'
  <2>1. OpenerSane(opener[q]) /\ opener[q] \in Opener
    BY DEF StoreInv, StoreTypeOK
  <2>2. opener[q].pc \in Encrypted /\ opener[q].dir = d => x.key = opener[q].key
    BY <1>1, <2>1 DEF OpenerSane, Opener, Keyed, Encrypted, Working
  <2> QED
    BY <1>2, <1>4, <1>6, <2>1, <2>2 DEF OpenerSane, Keyed, Working, Encrypted
<1>7. KeysKept'
  BY <1>1, <1>2 DEF StoreInv, KeysKept, OpenerSane
<1>8. MarkedStoreIsWhole'
  BY <1>1, <1>2, <1>4 DEF StoreInv, MarkedStoreIsWhole, Whole, OpenerSane
<1>9. Stays
  BY <1>1, <1>2, <1>4 DEF Stays, Readable, Whole, StoreInv, StoreTypeOK
<1> QED
  BY <1>3, <1>5, <1>6, <1>7, <1>8, <1>9 DEF StoreInv

LEMMA WritingKeeps ==
  ASSUME StoreInv, NEW p \in Openers, UNCHANGED purged,
         OpensDatabase(p) \/ Migrates(p) \/ SavesEnrollment(p)
  PROVE  StoreInv' /\ Stays
<1> DEFINE o == opener[p]
           d == o.dir
<1>1. o \in Opener /\ OpenerSane(o) /\ db[d] \in Database \cup {None} /\ d \in Dirs /\ o.key \in Keys
  BY DEF StoreInv, StoreTypeOK, OpenerSane, Keyed, Working, Opener, OpensDatabase, Migrates,
         SavesEnrollment, At
<1>2. CASE OpensDatabase(p)
  <2> DEFINE n == [o EXCEPT !.pc = "migrate"]
  <2>1. /\ opener' = [opener EXCEPT ![p] = n] /\ o.pc = "open"
        /\ UNCHANGED << key, pin, initialized, purged >>
        /\ db' = IF db[d] = None THEN [db EXCEPT ![d] = EmptyFile] ELSE db
    BY <1>2 DEF OpensDatabase, At, Goto
  <2>2. n \in Opener
    BY <1>1 DEF Opener
  <2>3. CASE db[d] = None
    <3>1. EmptyFile \in Database /\ EmptyFile.key = None
      BY DEF EmptyFile, Database
    <3> HIDE DEF n
    <3>2. n.pc = "migrate" /\ n.dir = d /\ n.key = o.key
      BY <1>1 DEF n, Opener
    <3> QED
      BY <2>1, <2>2, <2>3, <3>1, <3>2, OneDatabase DEF Keyed, Working, Encrypted
  <2>4. CASE db[d] # None
    <3>1. OpenerSane(n)
      BY <1>1, <2>1, <2>4 DEF OpenerSane, Opener, Keyed, Working, Encrypted
    <3> QED
      BY <2>1, <2>2, <2>4, <3>1, OneOpener, NothingWritten
  <2> QED
    BY <2>3, <2>4
<1>3. CASE Migrates(p)
  <2>1. PICK pc \in {"mark", "serving", "save"} : opener' = [opener EXCEPT ![p] = [o EXCEPT !.pc = pc]]
    BY <1>3 DEF Migrates, Goto, Opened
  <2> DEFINE n == [o EXCEPT !.pc = pc]
             x == [db[d] EXCEPT !.key = o.key]
  <2>2. /\ o.pc = "migrate" /\ db[d].key \in {None, o.key}
        /\ db' = [db EXCEPT ![d] = x]
        /\ UNCHANGED << key, pin, initialized, purged >>
    BY <1>3 DEF Migrates, At
  <2>3. db[d] # None
    BY <1>1, <2>2 DEF OpenerSane, Working
  <2>4. x \in Database /\ x.key = o.key /\ x.credential = db[d].credential
    BY <1>1, <2>3 DEF Database
  <2>5. n \in Opener /\ n.pc = pc /\ n.dir = d /\ n.key = o.key
    BY <1>1 DEF Opener
  <2> HIDE DEF n, x
  <2> QED
    BY <2>1, <2>2, <2>3, <2>4, <2>5, OneDatabase DEF n, Keyed, Working, Encrypted
<1>4. CASE SavesEnrollment(p)
  <2> DEFINE n == [o EXCEPT !.pc = "saved"]
             x == [db[d] EXCEPT !.credential = TRUE]
  <2>1. /\ o.pc = "save" /\ opener' = [opener EXCEPT ![p] = n]
        /\ db' = [db EXCEPT ![d] = x]
        /\ UNCHANGED << key, pin, initialized, purged >>
    BY <1>4 DEF SavesEnrollment, At, Goto
  <2>2. db[d] # None /\ db[d].key = o.key
    BY <1>1, <2>1 DEF OpenerSane, Working, Encrypted
  <2>3. x \in Database /\ x.key = o.key /\ x.credential
    BY <1>1, <2>2 DEF Database
  <2>4. n \in Opener /\ n.pc = "saved" /\ n.dir = d /\ n.key = o.key
    BY <1>1 DEF Opener
  <2> HIDE DEF n, x
  <2> QED
    BY <2>1, <2>2, <2>3, <2>4, OneDatabase DEF Keyed, Working, Encrypted
<1> QED
  BY <1>2, <1>3, <1>4

\* Without a deletion the pin is the one that was looked at.
LEMMA MarkingKeeps ==
  ASSUME StoreInv, NEW p \in Openers, UNCHANGED purged, MarksInitialized(p)
  PROVE  StoreInv' /\ Stays
<1> DEFINE o == opener[p]
           d == o.dir
<1>1. PICK pc \in {"serving", "save"} : opener' = [opener EXCEPT ![p] = [o EXCEPT !.pc = pc]]
  BY DEF MarksInitialized, Goto, Opened
<1> DEFINE n == [o EXCEPT !.pc = pc]
<1>2. o.pc = "marking" /\ initialized' = TRUE /\ UNCHANGED << key, db, pin, purged >>
  BY DEF MarksInitialized, At
<1>3. o \in Opener /\ OpenerSane(o)
  BY DEF StoreInv, StoreTypeOK
<1>4. n \in Opener /\ OpenerSane(n)
  BY <1>2, <1>3 DEF Opener, OpenerSane, Keyed, Working, Encrypted
<1>5. StoreTypeOK'
  BY <1>1, <1>2, <1>4 DEF StoreInv, StoreTypeOK
<1>6. ASSUME NEW q \in Openers PROVE OpenerSane(opener[q])'
  <2>1. opener'[q] = IF q = p THEN n ELSE opener[q]
    BY <1>1 DEF StoreInv, StoreTypeOK
  <2> HIDE DEF n
  <2> QED
    BY <1>2, <1>4, <2>1 DEF StoreInv, OpenerSane
<1>7. KeysKept' /\ MarkedStoreIsWhole'
  <2>1. KeysKept'
    BY <1>2 DEF StoreInv, KeysKept
  <2>2. purged = {} => pin = d /\ key[d] = o.key /\ o.key # None /\ db[d] # None /\ db[d].key = o.key
    BY <1>2, <1>3 DEF OpenerSane, Keyed, Working, Encrypted
  <2>3. MarkedStoreIsWhole'
    BY <1>2, <2>2 DEF MarkedStoreIsWhole, Whole
  <2> QED
    BY <2>1, <2>3
<1> QED
  BY <1>2, <1>5, <1>6, <1>7, NothingWritten DEF StoreInv

LEMMA OpenStepKeeps ==
  ASSUME StoreInv, NEW p \in Openers, UNCHANGED purged, OpenStep(p)
  PROVE  StoreInv' /\ Stays
  BY ReadingKeeps, PublishesKeeps, WritingKeeps, MarkingKeeps DEF OpenStep

-----------------------------------------------------------------------------
(* Steps of the installer on the store                                     *)

\* Where nothing is pinned yet, a store may be.
LEMMA PinningKeeps ==
  ASSUME StoreInv, UNCHANGED purged, pin = None,
         NEW d \in Dirs \cup {None}, Pins(d) \/ PinsHalf(d)
  PROVE  StoreInv'
<1>1. UNCHANGED << key, db, opener >> /\ initialized' = (db[d] # None) /\ pin' \in {None, d}
  BY DEF Pins, PinsHalf
<1>2. StoreTypeOK'
  BY <1>1 DEF StoreInv, StoreTypeOK
<1>3. \A p \in Openers : opener[p].pc = "marking" /\ purged = {} => opener[p].dir = pin /\ opener[p].dir \in Dirs
  BY DEF StoreInv, OpenerSane
<1>4. \A p \in Openers : OpenerSane(opener[p])'
  BY <1>1, <1>3 DEF StoreInv, OpenerSane
<1>5. KeysKept'
  BY <1>1 DEF StoreInv, KeysKept
<1>6. MarkedStoreIsWhole'
  <2>1. d # None /\ db[d] # None => Whole(d)
    BY DEF Pins, PinsHalf, Valid, Whole, Fresh
  <2> QED
    BY <1>1, <2>1 DEF StoreInv, StoreTypeOK, MarkedStoreIsWhole, KeysKept, Whole
<1> QED
  BY <1>2, <1>4, <1>5, <1>6 DEF StoreInv

\* A deletion of one directory's data that keeps what is in use.
LEMMA DeletionKeeps ==
  ASSUME StoreInv, NEW d \in Dirs, NEW k \in {key[d], None}, NEW x \in {db[d], None},
         Connected(d) => x = db[d],
         key' = [key EXCEPT ![d] = k], db' = [db EXCEPT ![d] = x],
         purged' = purged \cup {d}, UNCHANGED << pin, initialized, opener >>
  PROVE  StoreInv'
<1>1. StoreTypeOK'
  BY DEF StoreInv, StoreTypeOK
<1>2. /\ db'[d] = x /\ key'[d] = k
      /\ \A e \in Dirs : e # d => db'[e] = db[e] /\ key'[e] = key[e]
  BY DEF StoreInv, StoreTypeOK
<1>3. ASSUME NEW p \in Openers PROVE OpenerSane(opener[p])'
  <2>1. opener[p].dir = d /\ opener[p].pc \in Working => x = db[d]
    BY DEF Connected, Working
  <2> QED
    BY <1>2, <2>1 DEF StoreInv, OpenerSane, Encrypted, Working, Keyed
<1>4. KeysKept' /\ MarkedStoreIsWhole'
  BY <1>2 DEF StoreInv, KeysKept, MarkedStoreIsWhole
<1> QED
  BY <1>1, <1>3, <1>4 DEF StoreInv

LEMMA ClearingKeeps ==
  ASSUME StoreInv, ClearsPin \/ ClearsHalf,
         purged' = IF pin # None THEN purged \cup {pin} ELSE purged
  PROVE  StoreInv'
<1>1. pin' = None /\ UNCHANGED << key, db, opener >> /\ initialized' \in {initialized, FALSE}
  BY DEF ClearsPin, ClearsHalf
<1>2. StoreTypeOK'
  BY <1>1 DEF StoreInv, StoreTypeOK
<1>3. \A p \in Openers : OpenerSane(opener[p])'
  BY <1>1 DEF StoreInv, OpenerSane
<1>4. KeysKept' /\ MarkedStoreIsWhole'
  BY <1>1 DEF StoreInv, KeysKept, MarkedStoreIsWhole
<1> QED
  BY <1>2, <1>3, <1>4 DEF StoreInv

\* Processes that end leave everything behind.
LEMMA EndsKeep ==
  ASSUME StoreInv, UNCHANGED << key, db, pin, initialized, purged >>,
         opener' \in [Openers -> Opener],
         \A p \in Openers : opener'[p] \in {opener[p], IdleOpener}
  PROVE  StoreInv'
<1>1. StoreTypeOK'
  BY DEF StoreInv, StoreTypeOK
<1>2. \A p \in Openers : OpenerSane(opener[p])'
  BY DEF StoreInv, OpenerSane, IdleOpener, Keyed, Working, Encrypted
<1>3. KeysKept' /\ MarkedStoreIsWhole'
  BY DEF StoreInv, KeysKept, MarkedStoreIsWhole, Whole
<1> QED
  BY <1>1, <1>2, <1>3 DEF StoreInv

-----------------------------------------------------------------------------
(* Where the installer is                                                  *)

Kinds == {"stage", "install", "disable", "remove", "purge", "removeService"}

LEMMA StepsListed ==
  ASSUME NEW o \in Operations
  PROVE  /\ o \in Kinds
         /\ o = "stage" => Steps(o) = << "stopExisting", "copyService", "copyProvider" >>
         /\ o = "install" => Steps(o) = << "pin", "register", "stop", "start", "com", "enumerate" >>
         /\ o = "disable" => Steps(o) = << "hide" >>
         /\ o = "remove" => Steps(o) = << "preserve", "hide", "uncom", "stop", "delete" >>
         /\ o = "purge" => Steps(o) = << "hide", "uncom", "stop", "delete", "delKey", "delDatabase", "clear", "delTree" >>
         /\ o = "removeService" => Steps(o) = << "stop", "delete" >>
  BY DEF Steps, Kinds

AllSteps ==
  {"stopExisting", "copyService", "copyProvider", "pin", "register", "stop", "start", "com", "enumerate",
   "hide", "preserve", "uncom", "delete", "delKey", "delDatabase", "clear", "delTree"}

LEMMA StepsKnown ==
  ASSUME NEW o \in Operations
  PROVE  Steps(o) \in Seq(AllSteps) /\ Len(Steps(o)) \in 1..8
<1>1. CASE o = "stage"
  <2>1. Steps(o) = << "stopExisting", "copyService", "copyProvider" >>
    BY <1>1, StepsListed
  <2> QED
    BY <2>1 DEF AllSteps
<1>2. CASE o = "install"
  <2>1. Steps(o) = << "pin", "register", "stop", "start", "com", "enumerate" >>
    BY <1>2, StepsListed
  <2> QED
    BY <2>1 DEF AllSteps
<1>3. CASE o = "disable"
  <2>1. Steps(o) = << "hide" >>
    BY <1>3, StepsListed
  <2> QED
    BY <2>1 DEF AllSteps
<1>4. CASE o = "remove"
  <2>1. Steps(o) = << "preserve", "hide", "uncom", "stop", "delete" >>
    BY <1>4, StepsListed
  <2> QED
    BY <2>1 DEF AllSteps
<1>5. CASE o = "purge"
  <2>1. Steps(o) = << "hide", "uncom", "stop", "delete", "delKey", "delDatabase", "clear", "delTree" >>
    BY <1>5, StepsListed
  <2> QED
    BY <2>1 DEF AllSteps
<1>6. CASE o = "removeService"
  <2>1. Steps(o) = << "stop", "delete" >>
    BY <1>6, StepsListed
  <2> QED
    BY <2>1 DEF AllSteps
<1> QED
  BY <1>1, <1>2, <1>3, <1>4, <1>5, <1>6, StepsListed DEF Kinds

LEMMA StepsAreSeq ==
  ASSUME NEW o \in Operations
  PROVE  Steps(o) \in Seq(StepNames) /\ Len(Steps(o)) \in 1..8
<1>1. \A i \in 1..Len(Steps(o)) : Steps(o)[i] \in StepNames
  BY StepsKnown DEF StepNames
<1>2. Steps(o) \in [1..Len(Steps(o)) -> StepNames]
  BY <1>1, StepsKnown, LenProperties
<1>3. Len(Steps(o)) \in Nat
  BY StepsKnown
<1>4. Steps(o) \in UNION {[1..n -> StepNames] : n \in Nat}
  BY <1>2, <1>3
<1> QED
  BY <1>4, StepsKnown, SeqDef

\* Which step is which.
LEMMA StepAt ==
  ASSUME NEW o \in Operations, NEW n \in 1..Len(Steps(o))
  PROVE  LET step == Steps(o)[n] IN
         /\ step \in {"stopExisting", "copyService", "copyProvider"} => o = "stage"
         /\ step = "pin" => o = "install" /\ n = 1
         /\ step = "register" => o = "install" /\ n = 2
         /\ step = "start" => o = "install" /\ n = 4
         /\ step = "stop" =>
              << o, n >> \in {<< "install", 3 >>, << "remove", 4 >>, << "purge", 3 >>, << "removeService", 1 >>}
         /\ step = "com" => o = "install" /\ n = 5
         /\ step = "enumerate" => o = "install" /\ n = 6
         /\ step = "preserve" => o = "remove" /\ n = 1
         /\ step = "hide" => << o, n >> \in {<< "disable", 1 >>, << "remove", 2 >>, << "purge", 1 >>}
         /\ step = "uncom" => << o, n >> \in {<< "remove", 3 >>, << "purge", 2 >>}
         /\ step = "delete" => << o, n >> \in {<< "remove", 5 >>, << "purge", 4 >>, << "removeService", 2 >>}
         /\ step \in {"delKey", "delDatabase", "clear"} => o = "purge" /\ n \in 5..7
         /\ step = "delTree" => o = "purge" /\ n = 8
<1>1. CASE o = "stage"
  BY <1>1, StepsListed
<1>2. CASE o = "install"
  BY <1>2, StepsListed
<1>3. CASE o = "disable"
  BY <1>3, StepsListed
<1>4. CASE o = "remove"
  BY <1>4, StepsListed
<1>5. CASE o = "purge"
  BY <1>5, StepsListed
<1>6. CASE o = "removeService"
  BY <1>6, StepsListed
<1> QED
  BY <1>1, <1>2, <1>3, <1>4, <1>5, <1>6, StepsListed DEF Kinds

LEMMA AtPlace ==
  ASSUME NEW o \in Operations, NEW n \in 1..Len(Steps(o)), Place(o, n)
  PROVE  /\ setup.todo # << >> /\ Head(setup.todo) = Steps(o)[n]
         /\ setup.todo \in Seq(StepNames)
         /\ Len(setup.todo) = 1 <=> n = Len(Steps(o))
         /\ n < Len(Steps(o)) => Tail(setup.todo) = SubSeq(Steps(o), n + 1, Len(Steps(o)))
         /\ o = "purge" => \E i \in DOMAIN setup.todo : setup.todo[i] = "delTree"
<1> DEFINE s == Steps(o)
           l == Len(s)
           t == SubSeq(s, n, l)
<1>1. s \in Seq(StepNames) /\ l \in Nat /\ n \in 1..l
  BY StepsAreSeq
<1> HIDE DEF s, l
<1>2. t \in Seq(StepNames) /\ Len(t) = l - n + 1 /\ \A i \in 1..(l - n + 1) : t[i] = s[n + i - 1]
  <2>1. \A i \in n..l : s[i] \in StepNames
    BY <1>1 DEF l
  <2>2. n \in Int /\ l \in Int /\ n <= l
    BY <1>1
  <2> QED
    BY <2>1, <2>2, SubSeqProperties
<1> DEFINE u == SubSeq(s, n + 1, l)
<1>3. n < l => /\ u \in Seq(StepNames) /\ Len(u) = l - n
               /\ \A i \in 1..(l - n) : u[i] = s[n + i]
  <2>1. \A i \in (n + 1)..l : s[i] \in StepNames
    BY <1>1 DEF l
  <2>2. n + 1 \in Int /\ l \in Int /\ l - (n + 1) + 1 = l - n
    BY <1>1
  <2>3. \A i \in 1..(l - n) : u[i] = s[n + 1 + i - 1]
    BY <2>1, <2>2, SubSeqProperties
  <2>4. u \in Seq(StepNames) /\ Len(u) = IF n + 1 <= l THEN l - n ELSE 0
    BY <2>1, <2>2, SubSeqProperties
  <2> HIDE DEF u
  <2>5. ASSUME n < l, NEW i \in 1..(l - n) PROVE u[i] = s[n + i]
    <3>1. n + 1 + i - 1 = n + i
      BY <1>1
    <3> QED
      BY <2>3, <3>1
  <2>6. n < l => n + 1 <= l
    BY <1>1
  <2> QED
    BY <2>4, <2>5, <2>6
<1>4. setup.todo = t /\ (n < l => (Tail(t) = u <=> Tail(t) = SubSeq(Steps(o), n + 1, Len(Steps(o)))))
  BY DEF Place, s, l
<1> HIDE DEF t, u
<1>5. t # << >> /\ Head(t) = s[n] /\ t[l - n + 1] = s[l] /\ l - n + 1 \in DOMAIN t
  <2>1. 1 \in 1..(l - n + 1) /\ l - n + 1 \in 1..(l - n + 1) /\ n + 1 - 1 = n /\ n + (l - n + 1) - 1 = l
    BY <1>1
  <2>2. t[1] = s[n] /\ t[l - n + 1] = s[l] /\ DOMAIN t = 1..(l - n + 1) /\ Len(t) # 0
    BY <1>2, <2>1
  <2> QED
    BY <1>2, <2>1, <2>2
<1>6. n < l => Tail(t) = u
  <2> SUFFICES ASSUME n < l PROVE Tail(t) = u
    OBVIOUS
  <2>1. Tail(t) \in Seq(StepNames) /\ Len(Tail(t)) = l - n /\ \A i \in 1..(l - n) : Tail(t)[i] = t[i + 1]
    BY <1>1, <1>2, <1>5, HeadTailProperties
  <2>2. ASSUME NEW i \in 1..(l - n) PROVE Tail(t)[i] = u[i]
    <3>1. i + 1 \in 1..(l - n + 1) /\ n + (i + 1) - 1 = n + i
      BY <1>1
    <3>2. t[i + 1] = s[n + i]
      BY <1>2, <3>1
    <3> QED
      BY <1>3, <2>1, <3>2
  <2> QED
    BY <1>3, <2>1, <2>2, SeqEqual
<1>7. ASSUME o = "purge" PROVE s[l] = "delTree"
  <2>1. Steps(o) = << "hide", "uncom", "stop", "delete", "delKey", "delDatabase", "clear", "delTree" >>
    BY <1>7, StepsListed
  <2> QED
    BY <2>1 DEF s, l
<1>8. Len(t) = 1 <=> n = l
  BY <1>1, <1>2
<1>9. o = "purge" => \E i \in DOMAIN setup.todo : setup.todo[i] = "delTree"
  BY <1>4, <1>5, <1>7
<1>10. n < l => Tail(setup.todo) = SubSeq(Steps(o), n + 1, Len(Steps(o)))
  BY <1>4, <1>6
<1>11. setup.todo # << >> /\ Head(setup.todo) = s[n] /\ setup.todo \in Seq(StepNames)
         /\ (Len(setup.todo) = 1 <=> n = l)
  BY <1>2, <1>4, <1>5, <1>8
<1> QED
  BY <1>9, <1>10, <1>11 DEF s, l

Moves(o, n) ==
  \/ setup' = NoOperation
  \/ /\ n < Len(Steps(o))
     /\ setup'.dir = setup.dir
     /\ setup' \in [dir : Dirs \cup {None}, todo : Seq(StepNames)]
     /\ Place(o, n + 1)'

LEMMA Doings ==
  ASSUME InstallerInv, NEW step, Doing(step)
  PROVE  \E o \in Operations : \E n \in 1..Len(Steps(o)) :
           /\ Place(o, n) /\ Ahead(o, n) /\ Steps(o)[n] = step
           /\ Done => Moves(o, n)
<1>1. setup # NoOperation
  BY DEF Doing, NoOperation
<1>2. PICK o \in Operations : \E n \in 1..Len(Steps(o)) : Place(o, n) /\ Ahead(o, n)
  BY <1>1 DEF InstallerInv
<1>3. PICK n \in 1..Len(Steps(o)) : Place(o, n) /\ Ahead(o, n)
  BY <1>2
<1>4. Steps(o)[n] = step
  BY <1>3, AtPlace DEF Doing
<1>5. setup \in [dir : Dirs \cup {None}, todo : Seq(StepNames)]
  BY <1>1 DEF InstallerInv
<1>6. ASSUME Done PROVE Moves(o, n)
  <2>1. CASE Len(setup.todo) = 1
    BY <1>6, <2>1 DEF Done, Moves
  <2>2. CASE Len(setup.todo) # 1
    <3>1. setup' = [setup EXCEPT !.todo = Tail(@)]
      BY <1>6, <2>2 DEF Done
    <3>2. n < Len(Steps(o)) /\ n \in Nat /\ setup.todo # << >>
      BY <1>3, <2>2, AtPlace, StepsAreSeq
    <3>3. setup'.todo = SubSeq(Steps(o), n + 1, Len(Steps(o))) /\ setup'.dir = setup.dir
      BY <1>3, <1>5, <3>1, <3>2, AtPlace
    <3>4. Tail(setup.todo) \in Seq(StepNames)
      BY <1>5, <3>2, HeadTailProperties
    <3> QED
      BY <1>5, <3>1, <3>2, <3>3, <3>4 DEF Moves, Place
  <2> QED
    BY <2>1, <2>2
<1> QED
  BY <1>3, <1>4, <1>6

LEMMA MovesOn ==
  ASSUME NEW o \in Operations, NEW n \in 1..Len(Steps(o)), Moves(o, n),
         n < Len(Steps(o)) /\ setup'.dir = setup.dir => Ahead(o, n + 1)'
  PROVE  InstallerInv'
<1>1. n < Len(Steps(o)) => n + 1 \in 1..Len(Steps(o))
  BY StepsAreSeq
<1> QED
  BY <1>1 DEF Moves, InstallerInv

\* What others do leaves the installer where it is.
LEMMA OthersLeave ==
  ASSUME InstallerInv, UNCHANGED << setup, pin, files, com, entry, override, enumerated, forgotten >>,
         kept' = kept \/ ~Purging
  PROVE  InstallerInv'
<1>1. CASE setup = NoOperation
  BY <1>1 DEF InstallerInv
<1>2. CASE setup # NoOperation
  <2>1. PICK o \in Operations : \E n \in 1..Len(Steps(o)) : Place(o, n) /\ Ahead(o, n)
    BY <1>2 DEF InstallerInv
  <2>2. PICK n \in 1..Len(Steps(o)) : Place(o, n) /\ Ahead(o, n)
    BY <2>1
  <2>3. o = "purge" => kept' = kept
    BY <2>2, AtPlace DEF Purging
  <2>4. Place(o, n)' /\ Ahead(o, n)'
    BY <2>2, <2>3 DEF Place, Ahead, StoreInUse
  <2> QED
    BY <1>2, <2>4 DEF InstallerInv
<1> QED
  BY <1>1, <1>2

LEMMA StaysKept ==
  ASSUME MachineTypeOK, CredentialStaysInUse, Stays, UNCHANGED << entry, override >>,
         kept' # None => kept' = kept /\ forgotten \subseteq forgotten'
  PROVE  CredentialStaysInUse'
<1> SUFFICES ASSUME kept' # None
             PROVE  (Readable(kept) /\ (kept = StoreInUse \/ kept \in forgotten))'
  BY DEF CredentialStaysInUse
<1>1. PICK d \in Dirs : d = kept /\ d = kept' /\ Readable(d) /\ (d = StoreInUse \/ d \in forgotten)
  BY DEF CredentialStaysInUse, MachineTypeOK
<1>2. Readable(d)' /\ StoreInUse' = StoreInUse
  BY <1>1 DEF Stays, StoreInUse
<1> QED
  BY <1>1, <1>2

LEMMA SameMachine ==
  ASSUME MachineInv, UNCHANGED << machineVars, asked, historyVars >>
  PROVE  MachineInv'
  BY DEF MachineInv, MachineTypeOK, RegisteredBinariesExist, machineVars, historyVars

\* An opener's step that the installer and the history do not take part in.
LEMMA OpenersInv ==
  ASSUME IInv, StoreInv', Stays, UNCHANGED << machineVars, setup, asked, historyVars >>
  PROVE  IInv'
<1>1. MachineInv'
  BY SameMachine DEF IInv
<1>2. InstallerInv'
  BY OthersLeave DEF IInv, machineVars, historyVars, Stays
<1>3. CredentialStaysInUse'
  BY StaysKept DEF IInv, MachineInv, machineVars, historyVars
<1> QED
  BY <1>1, <1>2, <1>3 DEF IInv

LEMMA OpeningInv ==
  ASSUME IInv, ServiceStarts \/ ServiceFails \/ ToolOpens \/ Opening \/ ProcessGivesUp
  PROVE  IInv'
<1>1. UNCHANGED << machineVars, setup, asked, historyVars >> /\ UNCHANGED purged
  BY DEF ServiceStarts, ServiceFails, ToolOpens, Opening, ProcessGivesUp, historyVars
<1>2. StoreInv' /\ Stays
  <2>1. CASE ServiceStarts
    <3>1. (IF override # None THEN override ELSE entry) \in Dirs
      BY <2>1 DEF ServiceStarts, IInv, MachineInv, MachineTypeOK
    <3> QED
      BY <1>1, <2>1, <3>1, ResolvesKeeps DEF ServiceStarts, ServiceOpens, Tasks, IInv
  <2>2. CASE ToolOpens
    BY <1>1, <2>2, ResolvesKeeps DEF ToolOpens, Tasks, IInv
  <2>3. CASE ServiceFails \/ ProcessGivesUp
    BY <1>1, <2>3, EndingKeeps DEF ServiceFails, ProcessGivesUp, IInv
  <2>4. CASE Opening
    BY <1>1, <2>4, OpenStepKeeps DEF Opening, IInv
  <2> QED
    BY <2>1, <2>2, <2>3, <2>4
<1> QED
  BY <1>1, <1>2, OpenersInv

\* What is acknowledged can be read with the key that is there.
LEMMA AcknowledgedInv == ASSUME IInv, Acknowledged PROVE IInv'
<1>1. PICK p \in Openers :
        /\ Acknowledges(p)
        /\ kept' = IF /\ ~Purging
                      /\ opener[p].dir = StoreInUse
                      /\ opener[p].key = key[opener[p].dir]
                   THEN opener[p].dir ELSE kept
  BY DEF Acknowledged
<1>2. UNCHANGED << machineVars, setup, asked, forgotten, purged, replacing >>
  BY DEF Acknowledged
<1>3. StoreInv' /\ Stays
  BY <1>1, <1>2, EndingKeeps DEF IInv
<1>4. CASE kept' = kept
  BY <1>2, <1>3, <1>4, OpenersInv DEF historyVars
<1>5. CASE kept' # kept
  <2>1. opener[p].pc = "saved" /\ OpenerSane(opener[p])
    BY <1>1 DEF Acknowledges, At, IInv, StoreInv
  <2>2. PICK d \in Dirs : /\ d = opener[p].dir /\ kept' = d
                          /\ ~Purging /\ d = StoreInUse /\ opener[p].key = key[d]
    BY <1>1, <1>5, <2>1 DEF OpenerSane
  <2>3. Readable(d)
    BY <2>1, <2>2 DEF OpenerSane, Keyed, Working, Encrypted, Readable, Whole
  <2>4. Readable(d)' /\ StoreInUse' = StoreInUse
    BY <1>2, <1>3, <2>3 DEF Stays, StoreInUse, machineVars
  <2>5. CredentialStaysInUse'
    BY <2>2, <2>4 DEF CredentialStaysInUse
  <2>6. InstallerInv'
    BY <1>2, <1>3, <2>2, OthersLeave DEF IInv, machineVars, Stays
  <2>7. MachineInv'
    BY <1>2, <2>2, <2>3 DEF IInv, MachineInv, MachineTypeOK, RegisteredBinariesExist, machineVars
  <2> QED
    BY <1>3, <2>5, <2>6, <2>7 DEF IInv
<1> QED
  BY <1>4, <1>5

LEMMA RebootInv == ASSUME IInv, Reboot PROVE IInv'
<1>1. /\ UNCHANGED << key, db, pin, initialized, machineVars, asked, historyVars >>
      /\ setup' = NoOperation /\ opener' = [p \in Openers |-> IdleOpener]
  BY DEF Reboot
<1>2. StoreInv'
  BY <1>1, IdleSane, EndsKeep DEF IInv, historyVars
<1>3. InstallerInv'
  BY <1>1 DEF InstallerInv
<1>4. MachineInv' /\ CredentialStaysInUse'
  BY <1>1, SameMachine, StaysKept, NothingWritten DEF IInv, MachineInv, machineVars, historyVars
<1> QED
  BY <1>2, <1>3, <1>4 DEF IInv

-----------------------------------------------------------------------------
(* Steps of the installer                                                  *)

LEMMA SameStore ==
  ASSUME StoreInv, UNCHANGED storeVars, UNCHANGED purged
  PROVE  StoreInv' /\ Stays
<1>1. UNCHANGED << key, db, pin, initialized, opener >>
  BY DEF storeVars
<1>2. StoreTypeOK' /\ (\A p \in Openers : OpenerSane(opener[p])') /\ KeysKept' /\ MarkedStoreIsWhole'
  BY <1>1 DEF StoreInv, StoreTypeOK, OpenerSane, KeysKept, MarkedStoreIsWhole, Whole
<1> QED
  BY <1>1, <1>2, NothingWritten DEF StoreInv

LEMMA BeginsInv == ASSUME IInv, Begins PROVE IInv'
<1>1. PICK o \in Operations :
        /\ \E d \in IF o \in {"stage", "install", "purge"} THEN Dirs ELSE {None} :
             setup' = [dir |-> d, todo |-> Steps(o)]
        /\ kept' = IF o = "purge" THEN None ELSE kept
        /\ forgotten' = Forgets(o)
  BY DEF Begins
<1>2. UNCHANGED << storeVars, machineVars, purged, replacing >> /\ asked' = asked + 1 /\ asked < MaxOperations
  BY DEF Begins
<1>3. StoreInv' /\ Stays
  BY <1>2, SameStore DEF IInv
<1>4. /\ StoreInUse \in Dirs \cup {None} /\ StoreInUse' = StoreInUse
      /\ forgotten' \in SUBSET Dirs
      /\ o # "purge" => forgotten \subseteq forgotten'
      /\ o = "removeService" /\ pin = None /\ StoreInUse # None => StoreInUse \in forgotten'
  <2>1. StoreInUse \in Dirs \cup {None}
    BY DEF StoreInUse, IInv, StoreInv, StoreTypeOK, MachineInv, MachineTypeOK
  <2>2. StoreInUse' = StoreInUse
    BY <1>2 DEF StoreInUse, storeVars, machineVars
  <2>3. forgotten \in SUBSET Dirs
    BY DEF IInv, MachineInv, MachineTypeOK
  <2>4. CASE o = "removeService" /\ pin = None
    <3>1. forgotten' = forgotten \cup (({StoreInUse}) \ {None})
      BY <1>1, <2>4 DEF Forgets
    <3> QED
      BY <2>1, <2>2, <2>3, <2>4, <3>1
  <2>5. CASE o = "purge"
    BY <1>1, <2>1, <2>2, <2>5 DEF Forgets
  <2>6. CASE o # "purge" /\ ~(o = "removeService" /\ pin = None)
    BY <1>1, <2>1, <2>2, <2>3, <2>6 DEF Forgets
  <2> QED
    BY <2>4, <2>5, <2>6
<1>5. MachineInv' /\ CredentialStaysInUse'
  <2>1. MachineInv'
    BY <1>1, <1>2, <1>4 DEF IInv, MachineInv, MachineTypeOK, RegisteredBinariesExist, machineVars
  <2>2. CredentialStaysInUse'
    BY <1>1, <1>2, <1>3, <1>4, StaysKept DEF IInv, MachineInv, machineVars
  <2> QED
    BY <2>1, <2>2
<1>6. InstallerInv'
  <2>1. SubSeq(Steps(o), 1, Len(Steps(o))) = Steps(o) /\ 1 \in 1..Len(Steps(o))
    <3>1. Steps(o) \in Seq(StepNames) /\ Len(Steps(o)) \in 1..8
      BY StepsAreSeq
    <3>2. SubSeq(Steps(o), 1, Len(Steps(o))) = Steps(o)
      BY <3>1, SubSeqFull
    <3> QED
      BY <3>1, <3>2
  <2>2. setup' \in [dir : Dirs \cup {None}, todo : Seq(StepNames)] /\ Place(o, 1)'
    BY <1>1, <2>1, StepsAreSeq DEF Place
  <2>3. Ahead(o, 1)'
    BY <1>1, <1>2, <1>4 DEF Ahead, storeVars
  <2> QED
    BY <2>1, <2>2, <2>3 DEF InstallerInv
<1> QED
  BY <1>3, <1>5, <1>6 DEF IInv

LEMMA StepFailsInv == ASSUME IInv, StepFails PROVE IInv'
<1>1. setup' = NoOperation /\ UNCHANGED << storeVars, machineVars, asked, historyVars >>
  BY DEF StepFails, Aborts
<1>2. StoreInv' /\ Stays
  BY <1>1, SameStore DEF IInv, historyVars
<1>3. MachineInv' /\ CredentialStaysInUse'
  BY <1>1, <1>2, SameMachine, StaysKept DEF IInv, MachineInv, machineVars, historyVars
<1>4. InstallerInv'
  BY <1>1 DEF InstallerInv
<1> QED
  BY <1>2, <1>3, <1>4 DEF IInv

\* A step of the installer on processes only.
LEMMA ServiceStepInv ==
  ASSUME IInv, NEW step \in {"stop", "stopExisting", "start"}, Doing(step), Done,
         StoreInv', Stays, UNCHANGED << machineVars, historyVars >>
  PROVE  IInv'
<1>1. PICK o \in Operations : \E n \in 1..Len(Steps(o)) :
        Place(o, n) /\ Ahead(o, n) /\ Steps(o)[n] = step /\ Moves(o, n)
  BY Doings DEF IInv
<1>2. PICK n \in 1..Len(Steps(o)) : Place(o, n) /\ Ahead(o, n) /\ Steps(o)[n] = step /\ Moves(o, n)
  BY <1>1
<1>3. n \in Nat
  OBVIOUS
<1>4. \/ o \in {"stage", "removeService"}
      \/ o = "install" /\ n \in {3, 4}
      \/ o = "remove" /\ n = 4
      \/ o = "purge" /\ n = 3
  BY <1>2, StepAt
<1>5. n < Len(Steps(o)) /\ setup'.dir = setup.dir => Ahead(o, n + 1)'
  BY <1>2, <1>3, <1>4 DEF Ahead, StoreInUse, Stays, machineVars, historyVars
<1>6. InstallerInv'
  BY <1>2, <1>5, MovesOn
<1>7. UNCHANGED asked
  BY DEF Done
<1> QED
  BY <1>6, <1>7, SameMachine, StaysKept DEF IInv, MachineInv, machineVars, historyVars

LEMMA StopInv == ASSUME IInv, StopsService \/ StopsExisting PROVE IInv'
<1>1. /\ UNCHANGED << key, db, pin, initialized, machineVars, historyVars >>
      /\ Done
      /\ Doing("stop") \/ Doing("stopExisting")
  BY DEF StopsService, StopsExisting
<1>2. opener' \in [Openers -> Opener] /\ \A p \in Openers : opener'[p] \in {opener[p], IdleOpener}
  BY IdleSane DEF StopsService, StopsExisting, EndsService, IInv, StoreInv, StoreTypeOK
<1>3. StoreInv' /\ Stays
  BY <1>1, <1>2, EndsKeep, NothingWritten DEF IInv, historyVars
<1> QED
  BY <1>1, <1>3, ServiceStepInv

LEMMA StartInv == ASSUME IInv, StartsService PROVE IInv'
<1>1. Doing("start") /\ Done /\ UNCHANGED << machineVars, historyVars >>
  BY DEF StartsService
<1>2. PICK o \in Operations : \E n \in 1..Len(Steps(o)) :
        Place(o, n) /\ Ahead(o, n) /\ Steps(o)[n] = "start"
  BY <1>1, Doings DEF IInv
<1>3. entry \in Dirs
  <2>1. PICK n \in 1..Len(Steps(o)) : Ahead(o, n) /\ Steps(o)[n] = "start"
    BY <1>2
  <2>2. o = "install" /\ n = 4
    BY <2>1, StepAt
  <2> QED
    BY <2>1, <2>2 DEF Ahead
<1>4. StoreInv' /\ Stays
  <2>1. (IF override # None THEN override ELSE entry) \in Dirs
    BY <1>3 DEF IInv, MachineInv, MachineTypeOK
  <2>2. CASE ServiceOpens
    BY <1>1, <2>1, <2>2, ResolvesKeeps DEF ServiceOpens, Tasks, IInv, historyVars
  <2>3. CASE UNCHANGED storeVars
    BY <1>1, <2>3, SameStore DEF IInv, historyVars
  <2> QED
    BY <2>2, <2>3 DEF StartsService
<1> QED
  BY <1>1, <1>4, ServiceStepInv

\* A step of the installer that leaves the store alone.
LEMMA OffStore ==
  ASSUME IInv, UNCHANGED storeVars, UNCHANGED << override, purged, kept, forgotten >>,
         pin # None \/ UNCHANGED entry, InstallerInv', MachineInv'
  PROVE  IInv'
<1>1. StoreInv' /\ Stays
  BY SameStore DEF IInv
<1>2. CredentialStaysInUse'
  <2> SUFFICES ASSUME kept' # None
               PROVE  (Readable(kept) /\ (kept = StoreInUse \/ kept \in forgotten))'
    BY DEF CredentialStaysInUse
  <2>1. PICK d \in Dirs : d = kept /\ d = kept' /\ Readable(d) /\ (d = StoreInUse \/ d \in forgotten)
    BY DEF IInv, MachineInv, CredentialStaysInUse, MachineTypeOK
  <2>2. Readable(d)' /\ StoreInUse' = StoreInUse
    BY <1>1, <2>1 DEF Stays, StoreInUse
  <2> QED
    BY <2>1, <2>2
<1> QED
  BY <1>1, <1>2 DEF IInv

LEMMA StagingInv == ASSUME IInv, StagesFile \/ RemovesOldFile PROVE IInv'
<1>1. UNCHANGED << storeVars, entry, override, com, enumerated, kept, forgotten, purged >>
  BY DEF StagesFile, RemovesOldFile
<1>2. PICK step \in {"copyService", "copyProvider"} : Doing(step)
  BY DEF StagesFile, RemovesOldFile
<1>3. PICK o \in Operations : \E n \in 1..Len(Steps(o)) :
        /\ Place(o, n) /\ Ahead(o, n) /\ Steps(o)[n] = step
        /\ Done => Moves(o, n)
  BY <1>2, Doings DEF IInv
<1>4. PICK n \in 1..Len(Steps(o)) :
        /\ Place(o, n) /\ Ahead(o, n) /\ Steps(o)[n] = step
        /\ Done => Moves(o, n)
  BY <1>3
<1>5. o = "stage" /\ setup.dir \in Dirs
  <2>1. o = "stage"
    BY <1>4, StepAt
  <2> QED
    BY <1>4, <2>1 DEF Ahead
<1>6. CASE RemovesOldFile
  <2>1. /\ files' = [files EXCEPT ![setup.dir] = @ \ {"service"}]
        /\ replacing' = replacing \cup {setup.dir} /\ UNCHANGED << setup, asked >>
    BY <1>6 DEF RemovesOldFile
  <2>2. InstallerInv'
    <3>1. Place(o, n)' /\ Ahead(o, n)'
      BY <1>4, <1>5, <2>1 DEF Place, Ahead
    <3> QED
      BY <2>1, <3>1 DEF IInv, InstallerInv
  <2>3. MachineInv'
    BY <1>1, <1>5, <2>1 DEF IInv, MachineInv, MachineTypeOK, RegisteredBinariesExist
  <2> QED
    BY <1>1, <2>2, <2>3, OffStore
<1>7. CASE StagesFile
  <2>1. PICK file \in Payload : Stages(file)
    BY <1>7 DEF StagesFile, Payload
  <2>2. Moves(o, n) /\ asked' = asked
    BY <1>4, <2>1 DEF Stages, Done
  <2>3. InstallerInv'
    <3>1. setup'.dir = setup.dir => Ahead(o, n + 1)'
      BY <1>5 DEF Ahead
    <3> QED
      BY <2>2, <3>1, MovesOn
  <2>4. MachineInv'
    BY <1>1, <1>5, <2>1, <2>2 DEF IInv, MachineInv, MachineTypeOK, RegisteredBinariesExist, Stages
  <2> QED
    BY <1>1, <2>3, <2>4, OffStore
<1> QED
  BY <1>6, <1>7

(* The location is pinned while the entry that tells it is still there. *)
LEMMA PreservesInv == ASSUME IInv, PreservesLocation PROVE IInv'
<1>1. PICK step \in {"pin", "preserve"} :
        Doing(step) /\ (step = "pin" => "service" \in files[setup.dir])
  BY DEF PreservesLocation
<1>2. PICK o \in Operations : \E n \in 1..Len(Steps(o)) :
        /\ Place(o, n) /\ Ahead(o, n) /\ Steps(o)[n] = step
        /\ Done => Moves(o, n)
  BY <1>1, Doings DEF IInv
<1>3. PICK n \in 1..Len(Steps(o)) :
        /\ Place(o, n) /\ Ahead(o, n) /\ Steps(o)[n] = step
        /\ Done => Moves(o, n)
  BY <1>2
<1>4. /\ n = 1 /\ o = (IF step = "pin" THEN "install" ELSE "remove")
      /\ Doing("preserve") <=> step = "preserve"
  BY <1>1, <1>3, StepAt DEF Doing
<1>5. UNCHANGED << machineVars, asked, kept, purged, replacing >>
  BY DEF PreservesLocation, Done, Aborts
<1>6. ASSUME forgotten' \in SUBSET Dirs PROVE MachineInv'
  BY <1>5, <1>6 DEF IInv, MachineInv, MachineTypeOK, RegisteredBinariesExist, machineVars
<1>7. CASE pin # None \/ (Doing("preserve") /\ entry = None)
  <2>1. Done /\ UNCHANGED << storeVars, forgotten >>
    BY <1>7 DEF PreservesLocation
  <2>2. StoreInv' /\ Stays
    BY <1>5, <2>1, SameStore DEF IInv
  <2>3. MachineInv' /\ CredentialStaysInUse'
    BY <1>5, <1>6, <2>1, <2>2, StaysKept DEF IInv, MachineInv, MachineTypeOK, machineVars
  <2>4. setup'.dir = setup.dir => Ahead(o, n + 1)'
    BY <1>1, <1>3, <1>4, <1>5, <1>7, <2>2 DEF Ahead, Stays, machineVars
  <2>5. InstallerInv'
    BY <1>3, <2>1, <2>4, MovesOn
  <2> QED
    BY <2>2, <2>3, <2>5 DEF IInv
<1>8. CASE ~(pin # None \/ (Doing("preserve") /\ entry = None))
  <2>1. pin = None /\ (o = "remove" => entry # None)
    BY <1>4, <1>8
  <2>2. PICK own \in InstallerEnv :
          \/ /\ Pins(LocationToPin(own)) /\ Done
             /\ forgotten' = (forgotten \cup PassedOver(own)) \ {LocationToPin(own)}
          \/ PinsHalf(LocationToPin(own)) /\ Aborts /\ UNCHANGED forgotten
    BY <1>8 DEF PreservesLocation
  <2> DEFINE d == LocationToPin(own)
  <2>3. /\ d \in Dirs
        /\ StoreInUse \in {None, d} \/ StoreInUse \in PassedOver(own)
        /\ PassedOver(own) \subseteq Dirs
    <3>1. own \in Dirs \cup {None}
      BY InstallerEnvAssumption
    <3>2. /\ entry \in Dirs \cup {None} /\ override \in Dirs \cup {None}
          /\ entry = None => override = None /\ setup.dir \in Dirs
      BY <1>3, <1>4, <2>1 DEF Ahead, IInv, MachineInv, MachineTypeOK
    <3>3. CASE entry = None
      BY <2>1, <3>2, <3>3 DEF LocationToPin, PassedOver, StoreInUse
    <3>4. CASE override # None
      BY <2>1, <3>2, <3>4 DEF LocationToPin, PassedOver, StoreInUse
    <3>5. CASE entry # None /\ override = None /\ own # None
      BY <2>1, <3>1, <3>2, <3>5 DEF LocationToPin, PassedOver, StoreInUse
    <3>6. CASE entry # None /\ override = None /\ own = None
      BY <2>1, <3>2, <3>6 DEF LocationToPin, PassedOver, StoreInUse
    <3> QED
      BY <3>3, <3>4, <3>5, <3>6
  <2>4. StoreInv'
    BY <1>5, <2>1, <2>2, <2>3, PinningKeeps DEF IInv
  <2>5. MachineInv'
    BY <1>6, <2>2, <2>3 DEF IInv, MachineInv, MachineTypeOK
  <2>6. CredentialStaysInUse'
    <3> SUFFICES ASSUME kept' # None
                 PROVE  (Readable(kept) /\ (kept = StoreInUse \/ kept \in forgotten))'
      BY DEF CredentialStaysInUse
    <3>1. PICK e \in Dirs : e = kept /\ e = kept' /\ Readable(e) /\ (e = StoreInUse \/ e \in forgotten)
      BY <1>5 DEF IInv, MachineInv, CredentialStaysInUse, MachineTypeOK
    <3>2. UNCHANGED << key, db >>
      BY <2>2 DEF Pins, PinsHalf
    <3>3. Readable(e)'
      BY <3>1, <3>2 DEF Readable, Whole
    <3>4. CASE PinsHalf(d) /\ UNCHANGED forgotten
      <4>1. StoreInUse' = StoreInUse
        BY <1>5, <3>4 DEF PinsHalf, StoreInUse, machineVars
      <4> QED
        BY <3>1, <3>3, <3>4, <4>1
    <3>5. CASE Pins(d) /\ forgotten' = (forgotten \cup PassedOver(own)) \ {d}
      <4>1. StoreInUse' = d
        BY <2>3, <3>5 DEF Pins, StoreInUse
      <4>2. e = d \/ e \in forgotten \cup PassedOver(own)
        BY <2>3, <3>1
      <4> QED
        BY <3>1, <3>3, <3>5, <4>1, <4>2
    <3> QED
      BY <2>2, <3>4, <3>5
  <2>7. InstallerInv'
    <3>1. CASE Aborts
      BY <3>1 DEF Aborts, InstallerInv
    <3>2. CASE Pins(d) /\ Done
      <4>1. pin' # None
        BY <2>3, <3>2 DEF Pins
      <4>2. setup'.dir = setup.dir => Ahead(o, n + 1)'
        BY <1>1, <1>3, <1>4, <1>5, <4>1 DEF Ahead, machineVars
      <4> QED
        BY <1>3, <3>2, <4>2, MovesOn
    <3> QED
      BY <2>2, <3>1, <3>2
  <2> QED
    BY <2>4, <2>5, <2>6, <2>7 DEF IInv
<1> QED
  BY <1>7, <1>8

LEMMA RegistersServiceInv == ASSUME IInv, RegistersService PROVE IInv'
<1>1. /\ Doing("register") /\ Done /\ entry' = setup.dir
      /\ UNCHANGED << storeVars, files, override, com, enumerated, kept, forgotten, purged, replacing >>
  BY DEF RegistersService, historyVars
<1>2. PICK o \in Operations : \E n \in 1..Len(Steps(o)) :
        Place(o, n) /\ Ahead(o, n) /\ Steps(o)[n] = "register" /\ Moves(o, n)
  BY <1>1, Doings DEF IInv
<1>3. PICK n \in 1..Len(Steps(o)) :
        Place(o, n) /\ Ahead(o, n) /\ Steps(o)[n] = "register" /\ Moves(o, n)
  BY <1>2
<1>4. o = "install" /\ n = 2
  BY <1>3, StepAt
<1>5. setup.dir \in Dirs /\ pin # None /\ "service" \in files[setup.dir]
  BY <1>3, <1>4 DEF Ahead
<1>6. MachineInv'
  BY <1>1, <1>5 DEF IInv, MachineInv, MachineTypeOK, RegisteredBinariesExist, Done
<1>7. InstallerInv'
  <2>1. setup'.dir = setup.dir => Ahead(o, n + 1)'
    BY <1>1, <1>4, <1>5 DEF Ahead, storeVars
  <2> QED
    BY <1>3, <2>1, MovesOn
<1> QED
  BY <1>1, <1>5, <1>6, <1>7, OffStore

(* The service's entry goes after the location is pinned, with the data, or with
   what is known to be given up. *)
LEMMA DeletesServiceInv == ASSUME IInv, DeletesService PROVE IInv'
<1>1. /\ Doing("delete") /\ Done /\ entry' = None /\ override' = None
      /\ UNCHANGED << storeVars, files, com, enumerated, kept, forgotten, purged, replacing >>
  BY DEF DeletesService, historyVars
<1>2. PICK o \in Operations : \E n \in 1..Len(Steps(o)) :
        Place(o, n) /\ Ahead(o, n) /\ Steps(o)[n] = "delete" /\ Moves(o, n)
  BY <1>1, Doings DEF IInv
<1>3. PICK n \in 1..Len(Steps(o)) :
        Place(o, n) /\ Ahead(o, n) /\ Steps(o)[n] = "delete" /\ Moves(o, n)
  BY <1>2
<1>4. (o = "remove" /\ n = 5) \/ (o = "purge" /\ n = 4) \/ (o = "removeService" /\ n = 2)
  BY <1>3, StepAt
<1>5. StoreInv' /\ Stays
  BY <1>1, SameStore DEF IInv
<1>6. MachineInv'
  BY <1>1 DEF IInv, MachineInv, MachineTypeOK, RegisteredBinariesExist, Done
<1>7. InstallerInv'
  <2>1. setup'.dir = setup.dir => Ahead(o, n + 1)'
    <3>1. StoreInUse' = None \/ pin' # None
      BY <1>1 DEF StoreInUse
    <3> QED
      BY <1>1, <1>3, <1>4, <3>1 DEF Ahead, storeVars
  <2> QED
    BY <1>3, <2>1, MovesOn
<1>8. CredentialStaysInUse'
  <2> SUFFICES ASSUME kept' # None
               PROVE  (Readable(kept) /\ (kept = StoreInUse \/ kept \in forgotten))'
    BY DEF CredentialStaysInUse
  <2>1. PICK d \in Dirs : d = kept /\ d = kept' /\ Readable(d) /\ (d = StoreInUse \/ d \in forgotten)
    BY <1>1 DEF IInv, MachineInv, CredentialStaysInUse, MachineTypeOK
  <2>2. pin # None \/ StoreInUse = None \/ StoreInUse \in forgotten
    <3>1. entry = None => pin # None \/ StoreInUse = None
      BY DEF StoreInUse, IInv, MachineInv
    <3>2. o = "purge" => kept = None
      BY <1>3 DEF Ahead
    <3> QED
      BY <1>3, <1>4, <2>1, <3>1, <3>2 DEF Ahead
  <2>3. Readable(d)' /\ (pin # None => StoreInUse' = StoreInUse)
    BY <1>5, <2>1 DEF Stays, StoreInUse
  <2> QED
    BY <1>1, <2>1, <2>2, <2>3
<1> QED
  BY <1>5, <1>6, <1>7, <1>8 DEF IInv

LEMMA RegistersProviderInv == ASSUME IInv, RegistersProvider PROVE IInv'
<1>1. Done /\ UNCHANGED << storeVars, files, entry, override, kept, forgotten, purged, replacing >>
  BY DEF RegistersProvider, historyVars
<1>2. PICK step \in {"com", "enumerate"} :
        /\ Doing(step)
        /\ step = "com" => /\ "provider" \in files[setup.dir] /\ com' = setup.dir
                           /\ UNCHANGED enumerated
        /\ step = "enumerate" => enumerated' = TRUE /\ UNCHANGED com
  BY DEF RegistersProvider
<1>3. PICK o \in Operations : \E n \in 1..Len(Steps(o)) :
        Place(o, n) /\ Ahead(o, n) /\ Steps(o)[n] = step /\ Moves(o, n)
  BY <1>1, <1>2, Doings DEF IInv
<1>4. PICK n \in 1..Len(Steps(o)) :
        Place(o, n) /\ Ahead(o, n) /\ Steps(o)[n] = step /\ Moves(o, n)
  BY <1>3
<1>5. o = "install" /\ n = (IF step = "com" THEN 5 ELSE 6) /\ setup.dir \in Dirs
  BY <1>4, StepAt DEF Ahead
<1>6. com' = setup.dir /\ "provider" \in files[setup.dir] /\ enumerated' \in BOOLEAN
  <2>1. enumerated \in BOOLEAN
    BY DEF IInv, MachineInv, MachineTypeOK
  <2>2. CASE step = "com"
    BY <1>2, <2>1, <2>2
  <2>3. CASE step = "enumerate"
    <3>1. n = 6
      BY <1>5, <2>3
    <3>2. com = setup.dir /\ "provider" \in files[com]
      BY <1>4, <1>5, <3>1 DEF Ahead
    <3> QED
      BY <1>2, <2>3, <3>2
  <2> QED
    BY <2>2, <2>3
<1>7. MachineInv'
  BY <1>1, <1>5, <1>6 DEF IInv, MachineInv, MachineTypeOK, RegisteredBinariesExist, Done
<1>8. InstallerInv'
  <2>1. setup'.dir = setup.dir => Ahead(o, n + 1)'
    BY <1>1, <1>4, <1>5, <1>6 DEF Ahead, storeVars
  <2> QED
    BY <1>4, <2>1, MovesOn
<1> QED
  BY <1>1, <1>7, <1>8, OffStore

LEMMA RemovesProviderInv == ASSUME IInv, RemovesProvider PROVE IInv'
<1>1. Done /\ UNCHANGED << storeVars, files, entry, override, kept, forgotten, purged, replacing >>
  BY DEF RemovesProvider, historyVars
<1>2. PICK step \in {"hide", "uncom"} :
        /\ Doing(step)
        /\ step = "hide" => enumerated' = FALSE /\ UNCHANGED com
        /\ step = "uncom" => com' = None /\ UNCHANGED enumerated
  BY DEF RemovesProvider
<1>3. PICK o \in Operations : \E n \in 1..Len(Steps(o)) :
        Place(o, n) /\ Ahead(o, n) /\ Steps(o)[n] = step /\ Moves(o, n)
  BY <1>1, <1>2, Doings DEF IInv
<1>4. PICK n \in 1..Len(Steps(o)) :
        Place(o, n) /\ Ahead(o, n) /\ Steps(o)[n] = step /\ Moves(o, n)
  BY <1>3
<1>5. \/ step = "hide" /\ ((o = "disable" /\ n = 1) \/ (o = "remove" /\ n = 2) \/ (o = "purge" /\ n = 1))
      \/ step = "uncom" /\ ((o = "remove" /\ n = 3) \/ (o = "purge" /\ n = 2))
  BY <1>4, StepAt
<1>6. enumerated' = FALSE /\ com' \in {com, None}
  BY <1>2, <1>4, <1>5 DEF Ahead, IInv, MachineInv, MachineTypeOK
<1>7. MachineInv'
  BY <1>1, <1>6 DEF IInv, MachineInv, MachineTypeOK, RegisteredBinariesExist, Done
<1>8. InstallerInv'
  <2>1. setup'.dir = setup.dir => Ahead(o, n + 1)'
    BY <1>1, <1>4, <1>5, <1>6 DEF Ahead, storeVars
  <2> QED
    BY <1>4, <2>1, MovesOn
<1> QED
  BY <1>1, <1>7, <1>8, OffStore

(* What a removal deletes was given up when the removal was asked for. *)
LEMMA DeletesStoreInv == ASSUME IInv, DeletesStore PROVE IInv'
<1>1. /\ UNCHANGED << machineVars, kept, forgotten, replacing >> /\ asked' = asked
      /\ purged' = IF pin # None THEN purged \cup {pin} ELSE purged
  BY DEF DeletesStore, Done, Aborts
<1>2. PICK step \in {"delKey", "delDatabase", "clear"} : Doing(step)
  BY DEF DeletesStore
<1>3. PICK o \in Operations : \E n \in 1..Len(Steps(o)) :
        Place(o, n) /\ Ahead(o, n) /\ Steps(o)[n] = step /\ (Done => Moves(o, n))
  BY <1>2, Doings DEF IInv
<1>4. PICK n \in 1..Len(Steps(o)) :
        Place(o, n) /\ Ahead(o, n) /\ Steps(o)[n] = step /\ (Done => Moves(o, n))
  BY <1>3
<1>5. o = "purge" /\ n \in 5..7
  BY <1>4, StepAt
<1>6. kept = None /\ setup.dir \in Dirs /\ ~enumerated /\ entry = None
  BY <1>4, <1>5 DEF Ahead
<1>7. StoreInv'
  <2>1. CASE UNCHANGED storeVars /\ pin = None
    BY <1>1, <2>1, SameStore DEF IInv
  <2>2. CASE pin # None /\ (RemovesKey(pin) \/ RemovesDatabase(pin))
    <3>1. /\ pin \in Dirs /\ UNCHANGED << pin, initialized, opener >>
          /\ key' = key \/ key' = [key EXCEPT ![pin] = None]
          /\ db' = db \/ (db' = [db EXCEPT ![pin] = None] /\ ~Connected(pin))
      BY <2>2 DEF IInv, StoreInv, StoreTypeOK, RemovesKey, RemovesDatabase
    <3>2. PICK k \in {key[pin], None} : key' = [key EXCEPT ![pin] = k]
      BY <3>1 DEF IInv, StoreInv, StoreTypeOK
    <3>3. PICK x \in {db[pin], None} :
            db' = [db EXCEPT ![pin] = x] /\ (Connected(pin) => x = db[pin])
      BY <3>1 DEF IInv, StoreInv, StoreTypeOK
    <3> QED
      BY <1>1, <2>2, <3>1, <3>2, <3>3, DeletionKeeps DEF IInv
  <2>3. CASE ClearsPin \/ ClearsHalf
    BY <1>1, <2>3, ClearingKeeps DEF IInv
  <2> QED
    BY <2>1, <2>2, <2>3 DEF DeletesStore
<1>8. MachineInv'
  BY <1>1 DEF IInv, MachineInv, MachineTypeOK, RegisteredBinariesExist, machineVars, StoreInv, StoreTypeOK
<1>9. InstallerInv'
  <2>1. CASE Aborts
    BY <2>1 DEF Aborts, InstallerInv
  <2>2. CASE Done
    <3>1. setup'.dir = setup.dir => Ahead(o, n + 1)'
      BY <1>1, <1>5, <1>6 DEF Ahead, machineVars
    <3> QED
      BY <1>4, <2>2, <3>1, MovesOn
  <2> QED
    BY <2>1, <2>2 DEF DeletesStore
<1>10. CredentialStaysInUse'
  BY <1>1, <1>6 DEF CredentialStaysInUse
<1> QED
  BY <1>7, <1>8, <1>9, <1>10 DEF IInv

LEMMA DeletesTreeInv == ASSUME IInv, DeletesTree PROVE IInv'
<1> DEFINE d == setup.dir
<1>1. /\ Doing("delTree") /\ setup' = NoOperation /\ asked' = asked
      /\ purged' = purged \cup {d}
      /\ UNCHANGED << pin, initialized, opener, entry, override, com, enumerated, kept, forgotten, replacing >>
  BY DEF DeletesTree, Aborts
<1>2. PICK o \in Operations : \E n \in 1..Len(Steps(o)) :
        Place(o, n) /\ Ahead(o, n) /\ Steps(o)[n] = "delTree"
  BY <1>1, Doings DEF IInv
<1>3. PICK n \in 1..Len(Steps(o)) : Place(o, n) /\ Ahead(o, n) /\ Steps(o)[n] = "delTree"
  BY <1>2
<1>4. kept = None /\ d \in Dirs /\ ~enumerated /\ entry = None
  <2>1. o = "purge" /\ n = 8
    BY <1>3, StepAt
  <2> QED
    BY <1>3, <2>1 DEF Ahead
<1>5. PICK left \in SUBSET files[d], k \in {key[d], None}, x \in {db[d], None} :
        /\ Connected(d) => x = db[d]
        /\ files' = [files EXCEPT ![d] = left]
        /\ key' = [key EXCEPT ![d] = k]
        /\ db' = [db EXCEPT ![d] = x]
  BY DEF DeletesTree
<1> HIDE DEF d
<1>6. StoreInv'
  BY <1>1, <1>4, <1>5, DeletionKeeps DEF IInv
<1>7. MachineInv'
  BY <1>1, <1>4, <1>5 DEF IInv, MachineInv, MachineTypeOK, RegisteredBinariesExist
<1>8. InstallerInv' /\ CredentialStaysInUse'
  BY <1>1, <1>4 DEF InstallerInv, CredentialStaysInUse
<1> QED
  BY <1>6, <1>7, <1>8 DEF IInv

-----------------------------------------------------------------------------
(* The specification                                                       *)

LEMMA InitEstablishes == ASSUME Init PROVE IInv
<1>1. /\ pin = None /\ initialized = FALSE /\ forgotten = {} /\ purged = {} /\ replacing = {} /\ asked = 0
      /\ opener = [p \in Openers |-> IdleOpener] /\ setup = NoOperation
  BY DEF Init
<1>2. \A p \in Openers : opener[p] \in Opener /\ OpenerSane(opener[p])
  BY <1>1, IdleSane
<1>3. InstallerInv
  BY <1>1 DEF InstallerInv
<1>4. CASE InitClean
  <2>1. /\ files = [e \in Dirs |-> {}] /\ key = [e \in Dirs |-> None] /\ db = [e \in Dirs |-> None]
        /\ entry = None /\ override = None /\ com = None /\ enumerated = FALSE /\ kept = None
    BY <1>4 DEF InitClean
  <2>2. StoreInv
    BY <1>1, <1>2, <2>1 DEF StoreInv, StoreTypeOK, KeysKept, MarkedStoreIsWhole
  <2>3. MachineInv
    <3>1. files \in [Dirs -> SUBSET Payload]
      BY <2>1
    <3>2. asked \in 0 .. MaxOperations
      BY <1>1
    <3>3. enumerated \in BOOLEAN
      BY <2>1, Zenon
    <3> QED
      BY <1>1, <2>1, <3>1, <3>2, <3>3 DEF MachineInv, MachineTypeOK, RegisteredBinariesExist
  <2>4. CredentialStaysInUse
    BY <2>1 DEF CredentialStaysInUse
  <2> QED
    BY <1>3, <2>2, <2>3, <2>4 DEF IInv
<1>5. CASE InitLegacy
  <2>1. PICK k \in Keys :
          /\ files = [e \in Dirs |-> IF e = LegacyDir THEN Payload ELSE {}]
          /\ entry = LegacyDir /\ com = LegacyDir /\ enumerated = TRUE
          /\ override \in {None, OverrideDir}
          /\ kept = IF override = None THEN entry ELSE override
          /\ key = [e \in Dirs |-> IF e = kept THEN k ELSE None]
          /\ db = [e \in Dirs |-> IF e = kept THEN [key |-> k, credential |-> TRUE] ELSE None]
    BY <1>5 DEF InitLegacy
  <2> DEFINE x == [key |-> k, credential |-> TRUE]
  <2>2. x \in Database /\ x # None /\ x.key = k /\ x.credential
    <3>1. x \in Database /\ None \notin Database
      BY DEF Database
    <3>2. x.key = k /\ x.credential = TRUE
      OBVIOUS
    <3> QED
      BY <3>1, <3>2
  <2> HIDE DEF x
  <2>3. LegacyDir \in Dirs /\ OverrideDir \in Dirs /\ kept \in Dirs
    BY <2>1
  <2>4. \A e \in Dirs : key[e] = (IF e = kept THEN k ELSE None) /\ db[e] = (IF e = kept THEN x ELSE None)
    BY <2>1 DEF x
  <2>5. StoreInv
    <3>1. StoreTypeOK
      BY <1>1, <1>2, <2>1, <2>2, <2>3 DEF StoreTypeOK, x
    <3>2. KeysKept /\ MarkedStoreIsWhole
      BY <1>1, <2>2, <2>4 DEF KeysKept, MarkedStoreIsWhole
    <3> QED
      BY <1>2, <3>1, <3>2 DEF StoreInv
  <2>6. MachineInv
    BY <1>1, <2>1, <2>3 DEF MachineInv, MachineTypeOK, RegisteredBinariesExist, Payload
  <2>7. StoreInUse = kept /\ Readable(kept)
    BY <1>1, <2>1, <2>2, <2>3, <2>4 DEF StoreInUse, Readable, Whole
  <2>8. CredentialStaysInUse
    BY <2>7 DEF CredentialStaysInUse
  <2> QED
    BY <1>3, <2>5, <2>6, <2>8 DEF IInv
<1> QED
  BY <1>4, <1>5 DEF Init

LEMMA StutterKeeps == ASSUME IInv, UNCHANGED vars PROVE IInv'
<1>1. UNCHANGED << storeVars, machineVars, setup, asked, historyVars >>
  BY DEF vars
<1>2. StoreInv' /\ Stays
  BY <1>1, SameStore DEF IInv, historyVars
<1> QED
  BY <1>1, <1>2, OpenersInv

LEMMA NextKeeps == ASSUME IInv, [Next]_vars PROVE IInv'
<1>1. CASE InstallerStep
  BY <1>1, BeginsInv, StepFailsInv, StopInv, StartInv, StagingInv, PreservesInv, RegistersServiceInv,
     DeletesServiceInv, RegistersProviderInv, RemovesProviderInv, DeletesStoreInv, DeletesTreeInv
     DEF InstallerStep
<1>2. CASE ServiceStarts \/ ServiceFails \/ ToolOpens \/ Opening \/ ProcessGivesUp
  BY <1>2, OpeningInv
<1>3. CASE Acknowledged
  BY <1>3, AcknowledgedInv
<1>4. CASE Reboot
  BY <1>4, RebootInv
<1>5. CASE UNCHANGED vars
  BY <1>5, StutterKeeps
<1> QED
  BY <1>1, <1>2, <1>3, <1>4, <1>5 DEF Next

(* The store, the machine and the installer keep their invariant through every
   step of every process, every failure and every reboot. *)
THEOREM InvariantHolds == Spec => []IInv
<1>1. Init => IInv
  BY InitEstablishes
<1>2. IInv /\ [Next]_vars => IInv'
  BY NextKeeps
<1> QED
  BY <1>1, <1>2, PTL DEF Spec

(* Every variable keeps to its type: setup.todo, which the steps shorten one by
   one, is always a sequence of steps. *)
THEOREM TypeCorrect == Spec => []TypeOK
<1>1. IInv => TypeOK
  <2> SUFFICES ASSUME IInv PROVE TypeOK
    OBVIOUS
  <2>1. setup \in [dir : Dirs \cup {None}, todo : Seq(StepNames)]
    <3>1. NoOperation \in [dir : Dirs \cup {None}, todo : Seq(StepNames)]
      BY EmptySeq DEF NoOperation
    <3> QED
      BY <3>1 DEF IInv, InstallerInv
  <2> QED
    BY <2>1 DEF TypeOK, IInv, StoreInv, MachineInv, MachineTypeOK
<1> QED
  BY <1>1, InvariantHolds, PTL

(* The key, the database and the mark of a store agree, whichever processes
   initialise it beside one another and wherever they stop
   (load_or_create_service_master_key, mark_pinned_store_initialized). *)
THEOREM StoreAlwaysAgrees == Spec => []StoreAgrees
<1>1. IInv => StoreAgrees
  <2> SUFFICES ASSUME IInv PROVE StoreAgrees
    OBVIOUS
  <2>1. KeyMatchesDatabase
    BY DEF IInv, StoreInv, StoreTypeOK, Database, KeysKept, KeyMatchesDatabase, Whole
  <2> QED
    BY <2>1 DEF StoreAgrees, IInv, StoreInv
<1> QED
  BY <1>1, InvariantHolds, PTL

(* What LogonUI enumerates and what SCM starts is there, wherever an operation
   of the installer stopped (install_provider, uninstall_provider, and the
   order of installation and removal). *)
THEOREM BinariesAlwaysExist == Spec => []RegisteredBinariesExist
<1>1. IInv => RegisteredBinariesExist
  BY DEF IInv, MachineInv
<1> QED
  BY <1>1, InvariantHolds, PTL

(* An acknowledged credential stays readable, and where the service looks for
   it, unless all data was to be deleted, whatever the installer is asked for
   (preserve_credential_store_location): but for a store nothing was pinned for
   when uninstall-service was asked for, and one the installer's own environment
   passed over. *)
THEOREM CredentialAlwaysInUse == Spec => []CredentialStaysInUse
<1>1. IInv => CredentialStaysInUse
  BY DEF IInv
<1> QED
  BY <1>1, InvariantHolds, PTL
=============================================================================

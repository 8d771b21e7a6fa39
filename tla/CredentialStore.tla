--------------------------- MODULE CredentialStore ---------------------------
(***************************************************************************)
(* The credential store on disk: credential_store_config.rs of win_service *)
(* over credential_store's key_file.rs, location.rs and                    *)
(* sqlcipher_repository.rs.  A store is two files in one directory, the    *)
(* protected master key and the database encrypted with it; where it is    *)
(* and whether it was ever initialised is written in the registry.         *)
(*                                                                         *)
(* Several processes open the store, each step by step and without any     *)
(* lock around the steps; a process may fail or die between any two.       *)
(***************************************************************************)
EXTENDS Naturals, FiniteSets

CONSTANTS
  Dirs,      \* directories that may hold a store
  Keys,      \* master keys: random, so that two are never the same
  Openers,   \* processes that open the store
  None

ASSUME StoreAssumption ==
  /\ None \notin Dirs
  /\ None \notin Keys
  /\ None \notin [key : Keys \cup {None}, credential : BOOLEAN]
  /\ IsFiniteSet(Keys)

VARIABLES
  key,          \* directory -> protected-master-key.bin, or None
  db,           \* directory -> credential-store.db, or None
  pin,          \* CredentialStoreDir, or None
  initialized,  \* StoreInitialized = "1"
  opener        \* process -> where it is in open_service_credential_store

storeVars == << key, db, pin, initialized, opener >>

\* A database without a key is the empty file that opening creates.
Database == [key : Keys \cup {None}, credential : BOOLEAN]
EmptyFile == [key |-> None, credential |-> FALSE]

Tasks == {"serve", "enroll"}

Opener ==
  [ pc     : {"idle", "check", "find", "load", "publish", "open", "migrate",
              "mark", "marking", "save", "saved", "serving"},
    task   : Tasks,
    dir    : Dirs \cup {None},
    pinned : BOOLEAN,
    key    : Keys \cup {None} ]

IdleOpener == [ pc |-> "idle", task |-> "serve", dir |-> None, pinned |-> FALSE, key |-> None ]

StoreTypeOK ==
  /\ key \in [Dirs -> Keys \cup {None}]
  /\ db \in [Dirs -> Database \cup {None}]
  /\ pin \in Dirs \cup {None}
  /\ initialized \in BOOLEAN
  /\ opener \in [Openers -> Opener]

-----------------------------------------------------------------------------
(* What is there                                                           *)

Whole(d) == key[d] # None /\ db[d] # None
Fresh(d) == key[d] = None /\ db[d] = None

\* validate_store_directory
Valid(d, allow_new) == Whole(d) \/ (allow_new /\ Fresh(d))

\* load_pinned_store_directory finds nothing wrong with the pin.
PinValid == pin # None => Valid(pin, ~initialized)

\* SQLite opens its file without FILE_SHARE_DELETE: it cannot be removed now.
Connected(d) ==
  \E p \in Openers : /\ opener[p].dir = d
                     /\ opener[p].pc \in {"migrate", "mark", "marking", "save", "saved", "serving"}

\* The credential of a directory can be read.
Readable(d) ==
  /\ Whole(d)
  /\ db[d].key = key[d]
  /\ db[d].credential

-----------------------------------------------------------------------------
(* open_service_credential_store, one step of a process after another      *)

At(p, pc) == opener[p].pc = pc
Goto(p, pc) == opener' = [opener EXCEPT ![p].pc = pc]

\* from_environment_or_default: the pin wins over the directory the process
\* would use by itself.
Resolves(p, task, own) ==
  /\ At(p, "idle")
  /\ PinValid
  /\ opener' = [opener EXCEPT ![p] =
                  [pc |-> "check", task |-> task, key |-> None,
                   dir |-> IF pin # None THEN pin ELSE own, pinned |-> pin # None]]
  /\ UNCHANGED << key, db, pin, initialized >>

\* credential_store_files_exist, which looks at a pin again.
FilesConsistent(p) ==
  LET d == opener[p].dir IN
  /\ opener[p].pinned => pin = d /\ PinValid
  /\ Whole(d) \/ Fresh(d)

Checks(p) ==
  /\ At(p, "check")
  /\ FilesConsistent(p)
  /\ Goto(p, "find")
  /\ UNCHANGED << key, db, pin, initialized >>

\* load_or_create_service_master_key: a key that is there is loaded.
LoadsKey(p) ==
  /\ At(p, "find") \/ At(p, "load")
  /\ key[opener[p].dir] # None
  /\ opener' = [opener EXCEPT ![p].pc = "open", ![p].key = key[opener[p].dir]]
  /\ UNCHANGED << key, db, pin, initialized >>

GeneratesKey(p) ==
  /\ At(p, "find")
  /\ key[opener[p].dir] = None
  /\ Goto(p, "publish")
  /\ UNCHANGED << key, db, pin, initialized >>

KeysInUse ==
  {key[d] : d \in Dirs} \cup {opener[p].key : p \in Openers}
    \cup {db[d].key : d \in {e \in Dirs : db[e] # None}}

\* Mutant: publication replaces a key that is there already.
PublishesKey_Replaces(p) ==
  /\ At(p, "publish")
  /\ \E k \in Keys \ KeysInUse :
       /\ key' = [key EXCEPT ![opener[p].dir] = k]
       /\ opener' = [opener EXCEPT ![p].pc = "open", ![p].key = k]
  /\ UNCHANGED << db, pin, initialized >>

\* save_if_absent: the complete file appears at once, or another's is loaded.
PublishesKey(p) ==
  /\ At(p, "publish")
  /\ \/ /\ key[opener[p].dir] = None
        /\ \E k \in Keys \ KeysInUse :
             /\ key' = [key EXCEPT ![opener[p].dir] = k]
             /\ opener' = [opener EXCEPT ![p].pc = "open", ![p].key = k]
     \/ /\ key[opener[p].dir] # None
        /\ Goto(p, "load")
        /\ UNCHANGED key
  /\ UNCHANGED << db, pin, initialized >>

OpensDatabase(p) ==
  /\ At(p, "open")
  /\ db' = IF db[opener[p].dir] = None THEN [db EXCEPT ![opener[p].dir] = EmptyFile] ELSE db
  /\ Goto(p, "migrate")
  /\ UNCHANGED << key, pin, initialized >>

\* Where a process goes once its store is open.
Opened(task) ==
  IF task = "serve" THEN "serving" ELSE "save"

\* The first transaction encrypts an empty file; no other key opens it again.
Migrates(p) ==
  LET d == opener[p].dir IN
  /\ At(p, "migrate")
  /\ db[d].key \in {None, opener[p].key}
  /\ db' = [db EXCEPT ![d].key = opener[p].key]
  /\ Goto(p, IF opener[p].pinned THEN "mark" ELSE Opened(opener[p].task))
  /\ UNCHANGED << key, pin, initialized >>

\* mark_pinned_store_initialized
LooksAtMark(p) ==
  /\ At(p, "mark")
  /\ pin = opener[p].dir
  /\ Valid(pin, FALSE)
  /\ Goto(p, IF initialized THEN Opened(opener[p].task) ELSE "marking")
  /\ UNCHANGED << key, db, pin, initialized >>

MarksInitialized(p) ==
  /\ At(p, "marking")
  /\ initialized' = TRUE
  /\ Goto(p, Opened(opener[p].task))
  /\ UNCHANGED << key, db, pin >>

\* save_enrollment, one transaction.
SavesEnrollment(p) ==
  /\ At(p, "save")
  /\ db' = [db EXCEPT ![opener[p].dir].credential = TRUE]
  /\ Goto(p, "saved")
  /\ UNCHANGED << key, pin, initialized >>

\* The guard is lifted (LogonGuard) and the caller hears of it.
Acknowledges(p) ==
  /\ At(p, "saved")
  /\ opener' = [opener EXCEPT ![p] = IdleOpener]
  /\ UNCHANGED << key, db, pin, initialized >>

\* Refused, an I/O error, or the end of the process: whatever was written stays.
GivesUp(p) ==
  /\ ~At(p, "idle")
  /\ opener' = [opener EXCEPT ![p] = IdleOpener]
  /\ UNCHANGED << key, db, pin, initialized >>

OpenStep(p) ==
  \/ Checks(p) \/ LoadsKey(p) \/ GeneratesKey(p) \/ PublishesKey(p) \/ OpensDatabase(p)
  \/ Migrates(p) \/ LooksAtMark(p) \/ MarksInitialized(p) \/ SavesEnrollment(p)

-----------------------------------------------------------------------------
(* What the installer does to the location                                 *)

\* pin_store_directory where there is no pin yet: the mark is written first,
\* and if then the directory cannot be written it remains.
Pins(d) ==
  /\ Valid(d, TRUE)
  /\ pin' = d
  /\ initialized' = (db[d] # None)
  /\ UNCHANGED << key, db, opener >>

PinsHalf(d) ==
  /\ Valid(d, TRUE)
  /\ initialized' = (db[d] # None)
  /\ UNCHANGED << key, db, pin, opener >>

RemovesKey(d) ==
  /\ key' = [key EXCEPT ![d] = None]
  /\ UNCHANGED << db, pin, initialized, opener >>

RemovesDatabase(d) ==
  /\ ~Connected(d)
  /\ db' = [db EXCEPT ![d] = None]
  /\ UNCHANGED << key, pin, initialized, opener >>

\* clear: the directory first, then the mark.
ClearsPin ==
  /\ pin' = None
  /\ initialized' = FALSE
  /\ UNCHANGED << key, db, opener >>

ClearsHalf ==
  /\ pin' = None
  /\ UNCHANGED << key, db, initialized, opener >>
=============================================================================

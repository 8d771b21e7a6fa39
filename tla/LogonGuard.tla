----------------------------- MODULE LogonGuard -----------------------------
(***************************************************************************)
(* The machine-wide latch of src/crates/logon_safety that serialises the   *)
(* automatic submission of a Windows password.  One record lives in the    *)
(* registry; every operation on it is one transaction under a named        *)
(* mutex.  Guard states are records [generation, phase]; the NTSTATUS pair *)
(* kept with a rejection is abstracted to "Windows said no".               *)
(*                                                                         *)
(* guard is what any process reads back from the registry, durable is what *)
(* survives a power loss: RegFlushKey makes the second catch up with the   *)
(* first.                                                                  *)
(***************************************************************************)
EXTENDS Integers

CONSTANTS
  MaxGeneration,  \* the largest generation: u64::MAX in the code
  StorageFaults   \* may lock, read, write or flush of the record fail?

ASSUME GuardAssumption ==
  /\ MaxGeneration \in Nat
  /\ StorageFaults \in BOOLEAN

VARIABLES guard, durable

guardVars == << guard, durable >>

None == -1          \* Option::None for generations, tokens and materials

Generations == 0 .. MaxGeneration
Phases      == {"Ready", "Submitted", "Rejected"}
GuardState  == [generation : Generations, phase : Phases]

GuardInit ==
  /\ guard = [generation |-> 0, phase |-> "Ready"]
  /\ durable = guard

-----------------------------------------------------------------------------
(* Operations on one guard state: a test of the error conditions and the   *)
(* state that results when they do not arise.                              *)

\* Mutants, here and below: what a plausible slip in the code would make of
\* the definition that follows.
ReadyAt_AnyGeneration(g, gen) == g.phase = "Ready"

Reserved_SameGeneration(g) == [g EXCEPT !.phase = "Submitted"]

Completed_AlwaysReady(g, succeeded) == [g EXCEPT !.phase = "Ready"]

\* ready_generation() == Ok(gen)
ReadyAt(g, gen) == g.phase = "Ready" /\ g.generation = gen

CanAdvance(g) == g.generation < MaxGeneration

CanReserve(g, gen) == ReadyAt(g, gen) /\ CanAdvance(g)

Reserved(g) == [generation |-> g.generation + 1, phase |-> "Submitted"]

CanComplete(g, token) == g.phase = "Submitted" /\ g.generation = token

Completed(g, succeeded) ==
  [g EXCEPT !.phase = IF succeeded THEN "Ready" ELSE "Rejected"]

Updated_SameGeneration(g) == [g EXCEPT !.phase = "Ready"]

Updated(g) == [generation |-> g.generation + 1, phase |-> "Ready"]

-----------------------------------------------------------------------------
(* The outcomes of a registry transaction that computes the state new.     *)

Commit_WithoutFlush(new) == guard' = new /\ UNCHANGED durable

\* A state equal to the one read is not written at all.
Commit(new) ==
  /\ guard' = new
  /\ durable' = IF new = guard THEN durable ELSE new

\* The mutex times out, the record cannot be read, RegSetValueExW fails
\* (nothing changes), or only RegFlushKey fails (the value is readable, yet
\* not durable): all are StorageUnavailable to the caller.
CommitFails(new) ==
  /\ StorageFaults
  /\ guard' \in {guard, new}
  /\ UNCHANGED durable

\* A transaction that only reads may fail as well.
ReadFails == StorageFaults

\* Windows' lazy writer makes a value durable without being asked to.
LazyFlush ==
  /\ durable # guard
  /\ durable' = guard
  /\ UNCHANGED guard
=============================================================================

---------------------------- MODULE OneSubmission ----------------------------
(***************************************************************************)
(* What the logon guard promises to Windows, whatever records, instances   *)
(* and workers keep the promise: passwords are submitted one at a time.  A *)
(* submission stays open until Windows accepts it, it is withdrawn, or the *)
(* credential is replaced, and while one is open there is no other.        *)
(***************************************************************************)
EXTENDS Integers

CONSTANT Tokens     \* numbers, in the order in which they are handed out

VARIABLES
  fate,   \* token -> what became of the submission
  open    \* the submissions that stand in the way of another

Init ==
  /\ fate = [t \in Tokens |-> "none"]
  /\ open = {}

\* No token is handed out twice, nor one below another.
Submit(t) ==
  /\ open = {}
  /\ \A other \in Tokens : fate[other] # "none" => other < t
  /\ fate' = [fate EXCEPT ![t] = "reserved"]
  /\ open' = {t}

HandOver(t) ==
  /\ fate[t] = "reserved"
  /\ fate' = [fate EXCEPT ![t] = "pending"]
  /\ UNCHANGED open

Withdraw(t) ==
  /\ fate[t] = "reserved"
  /\ fate' = [fate EXCEPT ![t] = "cancelled"]
  /\ open' = open \ {t}

Accept(t) ==
  /\ fate[t] = "pending"
  /\ fate' = [fate EXCEPT ![t] = "accepted"]
  /\ open' = open \ {t}

\* The submission is spent and yet in the way.
Reject(t) ==
  /\ fate[t] = "pending"
  /\ fate' = [fate EXCEPT ![t] = "rejected"]
  /\ UNCHANGED open

\* The credential is replaced.
Lift ==
  /\ open' = {}
  /\ UNCHANGED fate

\* Processes end.  What they submitted last is never decided; a replacement
\* that is not on the disk yet may be undone, which opens again what it closed,
\* but nothing that was accepted or withdrawn.
Vanish ==
  /\ \E lost \in SUBSET {t \in Tokens : fate[t] \in {"reserved", "pending"}} :
       fate' = [t \in Tokens |-> IF t \in lost THEN "lost" ELSE fate[t]]
  /\ open \subseteq open'
  /\ \A t \in open' \ open : t \in Tokens /\ fate[t] \notin {"none", "accepted", "cancelled"}

Next ==
  \/ Vanish \/ Lift
  \/ \E t \in Tokens : Submit(t) \/ HandOver(t) \/ Withdraw(t) \/ Accept(t) \/ Reject(t)

Spec == Init /\ [][Next]_<<fate, open>>
=============================================================================

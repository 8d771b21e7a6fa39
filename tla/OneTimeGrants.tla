---------------------------- MODULE OneTimeGrants ----------------------------
(***************************************************************************)
(* What the authentication service promises about its grants, whatever it  *)
(* keeps in registries, caches and threads to keep the promise: a grant is *)
(* issued once, may be exchanged once while it lives, and once dead (used, *)
(* expired, revoked, or of a policy that is no longer in force) stays dead.*)
(***************************************************************************)
EXTENDS Naturals

CONSTANT Grants

VARIABLES
  status,   \* grant -> "unissued", "live" or "dead"
  uses      \* grant -> credentials handed out for it

Init ==
  /\ status = [g \in Grants |-> "unissued"]
  /\ uses = [g \in Grants |-> 0]

\* Any number of grants may die in any step; one may be born, perhaps dead.
Ages(S) ==
  \A g \in S : \/ status'[g] = status[g]
               \/ status[g] = "live" /\ status'[g] = "dead"

Die ==
  /\ status' \in [Grants -> {"unissued", "live", "dead"}]
  /\ Ages(Grants)
  /\ UNCHANGED uses

Issue(g) ==
  /\ status[g] = "unissued"
  /\ status' \in [Grants -> {"unissued", "live", "dead"}]
  /\ status'[g] # "unissued"
  /\ Ages(Grants \ {g})
  /\ UNCHANGED uses

Use(g) ==
  /\ status[g] = "live"
  /\ status' \in [Grants -> {"unissued", "live", "dead"}]
  /\ status'[g] = "dead"
  /\ Ages(Grants \ {g})
  /\ uses' = [uses EXCEPT ![g] = @ + 1]

Next == Die \/ \E g \in Grants : Issue(g) \/ Use(g)

Spec == Init /\ [][Next]_<<status, uses>>
=============================================================================

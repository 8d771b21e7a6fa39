---------------------------- MODULE GrantRegistry ----------------------------
(***************************************************************************)
(* src/crates/ipc/src/grant_registry.rs: the grants the service has told a *)
(* client about, and whether each may still be exchanged for a credential. *)
(*                                                                         *)
(* A grant is known by its sequence number: id and nonce both carry it     *)
(* ("camera-grant-7", "camera-nonce-7"), and no number is given out twice  *)
(* while the service runs.  What the number stands for is in body; it never*)
(* changes, so "the same id with another body" cannot arise.               *)
(***************************************************************************)
EXTENDS Integers

CONSTANTS
  Sessions,   \* client sessions
  MaxGrants,  \* bound: grants issued during the service's life (u64 in the code)
  MaxTime,    \* bound: the wall clock stops here (i64 milliseconds in the code)
  GrantTTL    \* DEFAULT_GRANT_TTL (5 s)

ASSUME RegistryAssumption ==
  /\ MaxGrants \in Nat
  /\ MaxTime \in Nat
  /\ GrantTTL \in Nat \ {0}

VARIABLES
  body,          \* grant -> AuthGrant, None before it is issued
  grants_by_id   \* grant -> its redemption state, "Absent" when not tracked

registryVars == << body, grants_by_id >>

None   == -1
Grants == 1 .. MaxGrants
Times  == 0 .. MaxTime

Redemption == {"Absent", "Available", "Redeemed", "Revoked"}

\* epoch is history: the authentication policy the grant was issued under.
AuthGrant(epochs) ==
  [session : Sessions, issued_at : Times, expires_at : Nat, epoch : epochs]

Issued(g) == body[g].expires_at # None

NoGrant == [session |-> None, issued_at |-> None, expires_at |-> None, epoch |-> None]

RegistryInit ==
  /\ body = [g \in Grants |-> NoGrant]
  /\ grants_by_id = [g \in Grants |-> "Absent"]

IsExpiredAt(g, time) == time >= body[g].expires_at

-----------------------------------------------------------------------------
(* Each operator takes the tracked states and returns those that follow.   *)

\* Mutants: used grants are forgotten at once; one may be tracked anew.
RemoveExpired_ForgetsUsed(tracked, time) ==
  [g \in Grants |-> IF IsExpiredAt(g, time) \/ tracked[g] = "Redeemed"
                    THEN "Absent" ELSE tracked[g]]

CanInsert_Readmits(tracked, g, grant, time) ==
  time < grant.expires_at /\ grant.issued_at <= time

RemoveExpired(tracked, time) ==
  [g \in Grants |-> IF IsExpiredAt(g, time) THEN "Absent" ELSE tracked[g]]

\* insert_issued_grant returns Ok for the grant number g with this content.
CanInsert(tracked, g, grant, time) ==
  /\ time < grant.expires_at
  /\ grant.issued_at <= time
  /\ tracked[g] \in {"Absent", "Available"}

\* Expired grants go even when the insertion is refused.
Insert(tracked, g, grant, time) ==
  [RemoveExpired(tracked, time) EXCEPT
     ![g] = IF CanInsert(tracked, g, grant, time) THEN "Available" ELSE @]

\* redeem_grant_for_session returns Ok.
CanRedeem(tracked, g, nonce, session, time) ==
  /\ nonce = g
  /\ body[g].session = session
  /\ ~IsExpiredAt(g, time)
  /\ tracked[g] = "Available"

Redeem(tracked, g) == [tracked EXCEPT ![g] = "Redeemed"]

\* Tombstones: a tracked grant stays tracked until it expires.
RevokeAll(tracked) ==
  [g \in Grants |-> IF tracked[g] = "Absent" THEN "Absent" ELSE "Revoked"]

RevokeForSession(tracked, session) ==
  [g \in Grants |-> IF tracked[g] # "Absent" /\ body[g].session = session
                    THEN "Revoked" ELSE tracked[g]]
=============================================================================

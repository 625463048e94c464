------------------------- MODULE RegistryLifecycle -------------------------
(***************************************************************************)
(* What the DID registry contract promises to the contracts that call it:  *)
(* the status of a DID and of an anchored credential, and the only ways    *)
(* those statuses change.  Nothing here names controllers, pause flags or  *)
(* indexes: a caller of resolve_did and credential_status sees only this.  *)
(***************************************************************************)
CONSTANTS Dids,     \* DID strings
          Hashes    \* credential hashes

VARIABLES didStatus,   \* [Dids -> absent | active | deactivated]
          vcStatus     \* [Hashes -> absent | Valid | Revoked]

lifecycleVars == <<didStatus, vcStatus>>

DidStatuses == {"absent", "active", "deactivated"}
VcStatuses  == {"absent", "Valid", "Revoked"}

TypeOK == /\ didStatus \in [Dids -> DidStatuses]
          /\ vcStatus \in [Hashes -> VcStatuses]

Init == /\ didStatus = [d \in Dids |-> "absent"]
        /\ vcStatus = [h \in Hashes |-> "absent"]

Register(d) ==
    /\ didStatus[d] = "absent"
    /\ didStatus' = [didStatus EXCEPT ![d] = "active"]
    /\ UNCHANGED vcStatus

\* A tombstone: there is no way back to "active".
Deactivate(d) ==
    /\ didStatus[d] = "active"
    /\ didStatus' = [didStatus EXCEPT ![d] = "deactivated"]
    /\ UNCHANGED vcStatus

\* A hash is anchored once, by an issuer that resolves at that moment.
Anchor(h) ==
    /\ vcStatus[h] = "absent"
    /\ \E issuer \in Dids : didStatus[issuer] = "active"
    /\ vcStatus' = [vcStatus EXCEPT ![h] = "Valid"]
    /\ UNCHANGED didStatus

Revoke(h) ==
    /\ vcStatus[h] = "Valid"
    /\ vcStatus' = [vcStatus EXCEPT ![h] = "Revoked"]
    /\ UNCHANGED didStatus

Next == \/ \E d \in Dids : Register(d) \/ Deactivate(d)
        \/ \E h \in Hashes : Anchor(h) \/ Revoke(h)

Spec == Init /\ [][Next]_lifecycleVars

=============================================================================

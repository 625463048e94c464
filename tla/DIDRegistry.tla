---------------------------- MODULE DIDRegistry ----------------------------
(***************************************************************************)
(* The Soroban DID registry contract.  A transaction runs alone and either *)
(* commits whole or panics and leaves the ledger as it was, so every       *)
(* operation is one action and every panic a conjunct of its guard.        *)
(*                                                                         *)
(* An Option of the contract is a set with at most one element.  DID       *)
(* documents keep what other operations read: the controller, the          *)
(* tombstone and the version of the verification methods; credentials keep *)
(* the issuer and the status.                                              *)
(***************************************************************************)
EXTENDS Naturals, Sequences, FiniteSets

CONSTANTS Dids,          \* DID strings that pass validate_did
          SorobanDids,   \* those of the form did:soroban:<account>
          Accounts,      \* Stellar addresses
          AccountOf,     \* [SorobanDids -> Accounts]: the account in the string
          Hashes,        \* credential hashes
          ZeroHash,      \* the 32 zero bytes
          MaxVersion     \* bound: updates of one document

ASSUME SorobanAssumption == /\ SorobanDids \subseteq Dids
                            /\ AccountOf \in [SorobanDids -> Accounts]
ASSUME VersionAssumption == MaxVersion \in Nat

VARIABLES owner,            \* the contract's owner
          paused,           \* the pause flag
          documents,        \* [Dids -> Option(Document)]
          credentials,      \* [Hashes -> Option(Credential)]
          controllerDIDs,   \* [Accounts -> Seq(Dids)]
          didCount          \* number of DIDs ever registered

registryVars == <<owner, paused, documents, credentials, controllerDIDs, didCount>>

Option(S) == {{}} \cup {{s} : s \in S}
Document == [controller : Accounts, deactivated : BOOLEAN, version : 0..MaxVersion]
Credential == [issuer : Dids, status : {"Valid", "Revoked"}]

TypeOK ==
    /\ owner \in Accounts
    /\ paused \in BOOLEAN
    /\ documents \in [Dids -> Option(Document)]
    /\ credentials \in [Hashes -> Option(Credential)]
    /\ controllerDIDs \in [Accounts -> Seq(Dids)]
    /\ didCount \in Nat

Init ==
    /\ owner \in Accounts
    /\ paused = FALSE
    /\ documents = [d \in Dids |-> {}]
    /\ credentials = [h \in Hashes |-> {}]
    /\ controllerDIDs = [a \in Accounts |-> <<>>]
    /\ didCount = 0

-----------------------------------------------------------------------------
(* Administration: the caller is the owner.                                *)

TransferOwnership(newOwner) ==
    /\ newOwner # owner
    /\ owner' = newOwner
    /\ UNCHANGED <<paused, documents, credentials, controllerDIDs, didCount>>

Pause ==
    /\ paused' = TRUE
    /\ UNCHANGED <<owner, documents, credentials, controllerDIDs, didCount>>

Unpause ==
    /\ paused' = FALSE
    /\ UNCHANGED <<owner, documents, credentials, controllerDIDs, didCount>>

-----------------------------------------------------------------------------
(* DIDs.                                                                   *)

\* Variant: a DID that is taken is registered over.
RegisterOver(d, controller) ==
    /\ documents' = [documents EXCEPT
           ![d] = {[controller |-> controller, deactivated |-> FALSE, version |-> 0]}]
    /\ controllerDIDs' = [controllerDIDs EXCEPT ![controller] = Append(@, d)]
    /\ didCount' = didCount + 1
    /\ UNCHANGED <<owner, paused, credentials>>

DoRegister(d, controller) ==
    /\ documents[d] = {}
    /\ documents' = [documents EXCEPT
           ![d] = {[controller |-> controller, deactivated |-> FALSE, version |-> 0]}]
    /\ controllerDIDs' = [controllerDIDs EXCEPT ![controller] = Append(@, d)]
    /\ didCount' = didCount + 1
    /\ UNCHANGED <<owner, paused, credentials>>

\* The caller names any controller that signs; nothing ties the string to it.
RegisterDid(d, controller) ==
    /\ ~paused
    /\ DoRegister(d, controller)

\* The string is derived from the account, which is the controller.
RegisterSorobanDid(d) ==
    /\ ~paused
    /\ DoRegister(d, AccountOf[d])

\* Variant: an update rebuilds the document, tombstone or not.
UpdateRevives(d) ==
    /\ ~paused
    /\ \E doc \in documents[d] :
          /\ doc.version < MaxVersion
          /\ documents' = [documents EXCEPT
                 ![d] = {[doc EXCEPT !.version = @ + 1, !.deactivated = FALSE]}]
    /\ UNCHANGED <<owner, paused, credentials, controllerDIDs, didCount>>

UpdateDid(d) ==
    /\ ~paused
    /\ \E doc \in documents[d] :
          /\ ~doc.deactivated
          /\ doc.version < MaxVersion
          /\ documents' = [documents EXCEPT ![d] = {[doc EXCEPT !.version = @ + 1]}]
    /\ UNCHANGED <<owner, paused, credentials, controllerDIDs, didCount>>

DeactivateDid(d) ==
    /\ ~paused
    /\ \E doc \in documents[d] :
          /\ ~doc.deactivated
          /\ documents' = [documents EXCEPT ![d] = {[doc EXCEPT !.deactivated = TRUE]}]
    /\ UNCHANGED <<owner, paused, credentials, controllerDIDs, didCount>>

-----------------------------------------------------------------------------
(* Credentials.                                                            *)

\* Variant: the issuer is not looked up.
AnchorUnissued(h, issuer) ==
    /\ ~paused
    /\ h # ZeroHash
    /\ credentials[h] = {}
    /\ credentials' = [credentials EXCEPT ![h] = {[issuer |-> issuer, status |-> "Valid"]}]
    /\ UNCHANGED <<owner, paused, documents, controllerDIDs, didCount>>

\* Variant: a revoked hash is free again.
AnchorAgain(h, issuer) ==
    /\ ~paused
    /\ \E doc \in documents[issuer] : ~doc.deactivated
    /\ h # ZeroHash
    /\ \A rec \in credentials[h] : rec.status = "Revoked"
    /\ credentials' = [credentials EXCEPT ![h] = {[issuer |-> issuer, status |-> "Valid"]}]
    /\ UNCHANGED <<owner, paused, documents, controllerDIDs, didCount>>

AnchorCredential(h, issuer) ==
    /\ ~paused
    /\ \E doc \in documents[issuer] : ~doc.deactivated
    /\ h # ZeroHash
    /\ credentials[h] = {}
    /\ credentials' = [credentials EXCEPT ![h] = {[issuer |-> issuer, status |-> "Valid"]}]
    /\ UNCHANGED <<owner, paused, documents, controllerDIDs, didCount>>

\* The issuer's document must exist, but it may have been deactivated.
RevokeCredential(h) ==
    /\ ~paused
    /\ \E rec \in credentials[h] :
          /\ documents[rec.issuer] # {}
          /\ rec.status # "Revoked"
          /\ credentials' = [credentials EXCEPT ![h] = {[rec EXCEPT !.status = "Revoked"]}]
    /\ UNCHANGED <<owner, paused, documents, controllerDIDs, didCount>>

-----------------------------------------------------------------------------
Next ==
    \/ \E a \in Accounts : TransferOwnership(a)
    \/ Pause
    \/ Unpause
    \/ \E d \in Dids, a \in Accounts : RegisterDid(d, a)
    \/ \E d \in SorobanDids : RegisterSorobanDid(d)
    \/ \E d \in Dids : UpdateDid(d)
    \/ \E d \in Dids : DeactivateDid(d)
    \/ \E h \in Hashes, d \in Dids : AnchorCredential(h, d)
    \/ \E h \in Hashes : RevokeCredential(h)

Spec == Init /\ [][Next]_registryVars

-----------------------------------------------------------------------------
(* What callers see: the answers of resolve_did and credential_status.     *)

ResolveDid(d) ==
    IF documents[d] = {} THEN "absent"
    ELSE IF \E doc \in documents[d] : doc.deactivated THEN "deactivated" ELSE "active"

CredentialStatus(h) ==
    IF credentials[h] = {} THEN "absent"
    ELSE CHOOSE s \in {"Valid", "Revoked"} : \E rec \in credentials[h] : rec.status = s

\* The registry as its callers see it.
Lifecycle == INSTANCE RegistryLifecycle
    WITH didStatus <- [d \in Dids |-> ResolveDid(d)],
         vcStatus <- [h \in Hashes |-> CredentialStatus(h)]

-----------------------------------------------------------------------------
(* Properties.                                                             *)

IdsOf(s) == {s[i] : i \in 1..Len(s)}

\* The controller index, the document table and the counter agree: every
\* registered DID, active or tombstoned, is listed once, under its own
\* controller, and the counter counts exactly the listed DIDs
\* (do_register writes the three in one go, nothing else touches them).
IndexAgrees ==
    /\ \A a \in Accounts :
          /\ IdsOf(controllerDIDs[a]) =
                {d \in Dids : \E doc \in documents[d] : doc.controller = a}
          /\ \A i, j \in 1..Len(controllerDIDs[a]) :
                controllerDIDs[a][i] = controllerDIDs[a][j] => i = j
    /\ didCount = Cardinality({d \in Dids : documents[d] # {}})

\* Every anchored credential has an issuer whose document is still stored,
\* deactivated or not, so its controller can always revoke it.
IssuerOnRecord ==
    \A h \in Hashes : \A rec \in credentials[h] : documents[rec.issuer] # {}

\* The state of the registry is well formed and its records agree.
RegistryInv == TypeOK /\ IndexAgrees /\ IssuerOnRecord

\* The registry implements the lifecycle its callers rely on: deactivation
\* and revocation are final, an anchored hash keeps its record, and paused
\* or refused operations are invisible to them.
ImplementsLifecycle == Lifecycle!Spec

\* Control of a DID never changes hands: no operation, not even one after a
\* deactivation, replaces the controller recorded at registration.
ControllerIsForever ==
    [][\A d \in Dids : \A doc \in documents[d] :
          \E new \in documents'[d] : new.controller = doc.controller]_registryVars

=============================================================================

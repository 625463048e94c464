-------------------------- MODULE AgreementSystem --------------------------
(***************************************************************************)
(* The two contracts on one ledger: agreements check DIDs and credentials  *)
(* in the registry by cross-contract calls, while controllers and issuers  *)
(* go on calling the registry.  Transactions of the two contracts, in any  *)
(* order, are the steps; a cross-contract call reads the registry inside   *)
(* the agreement's transaction.                                            *)
(***************************************************************************)
EXTENDS Integers, Sequences, FiniteSets

CONSTANTS Accounts, Dids, SorobanDids, AccountOf, Hashes, ZeroHash, MaxVersion,
          Registries, LiveRegistry, Amounts, Credits, Windows, Scores,
          MetadataKeys, MaxTimestamp, MaxAgreements

ASSUME RegistryAssumption == /\ SorobanDids \subseteq Dids
                             /\ AccountOf \in [SorobanDids -> Accounts]
                             /\ MaxVersion \in Nat
ASSUME InputAssumption == /\ Amounts \subseteq Int
                          /\ Credits \subseteq Int
                          /\ Windows \subseteq Nat
                          /\ Scores \subseteq Int
                          /\ MaxTimestamp \in Nat
                          /\ MaxAgreements \in Nat

VARIABLES owner, paused, didRegistry, agreements, agreementCount,
          initiatorAgreements, now,
          regOwner, regPaused, documents, credentials, controllerDIDs, didCount

registryVars == <<regOwner, regPaused, documents, credentials, controllerDIDs, didCount>>
agreementVars == <<owner, paused, didRegistry, agreements, agreementCount,
                   initiatorAgreements>>
systemVars == <<agreementVars, now, registryVars>>

DR == INSTANCE DIDRegistry WITH owner <- regOwner, paused <- regPaused

\* The agreement contract sees the registry through its two queries.
OA == INSTANCE OrchestratedAgreement
    WITH didStatus <- [d \in Dids |-> DR!ResolveDid(d)],
         vcStatus <- [h \in Hashes |-> DR!CredentialStatus(h)]

Init == DR!Init /\ OA!Init

RegistryTransaction == DR!Next /\ UNCHANGED <<agreementVars, now>>
AgreementTransaction == UNCHANGED <<registryVars, now>> /\ OA!ContractStep
LedgerClose == OA!Tick /\ UNCHANGED <<agreementVars, registryVars>>

Next == RegistryTransaction \/ AgreementTransaction \/ LedgerClose

Spec == Init /\ [][Next]_systemVars

-----------------------------------------------------------------------------
\* Together the contracts behave as the agreement contract does over any
\* registry that keeps the lifecycle: every property of OrchestratedAgreement
\* holds of the pair.
ImplementsOpenContract == OA!Spec

Revoked(h) == \E rec \in credentials[h] : rec.status = "Revoked"

\* A funded agreement whose credential its issuer revoked stays where it is,
\* under the same revoked credential, for as long as the live registry is the
\* configured one: no later registry call (deactivation, a new anchoring)
\* and no later agreement call (attesting again) brings it back.
RevokedFundedIsStuck ==
    [][\A id \in DOMAIN agreements :
          LET a == agreements[id] IN
          /\ a.state = "Funded"
          /\ \E i \in a.identity : Revoked(i.attestation_hash)
          /\ didRegistry = {LiveRegistry}
          => /\ agreements'[id].state = "Funded"
             /\ \E i \in agreements'[id].identity : Revoked(i.attestation_hash)']_systemVars

=============================================================================

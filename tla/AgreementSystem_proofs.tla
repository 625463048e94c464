----------------------- MODULE AgreementSystem_proofs -----------------------
(***************************************************************************)
(* The pair of contracts implements the agreement contract over an         *)
(* abstract registry.  What the registry contract does is seen by the      *)
(* agreement contract only through two queries, and DIDRegistry_proofs     *)
(* says what a step of the registry does to their answers.                 *)
(***************************************************************************)
EXTENDS AgreementSystem, TLAPS

\* The registry of the system, with what is proved about it.
RP == INSTANCE DIDRegistry_proofs WITH owner <- regOwner, paused <- regPaused

\* The instance brings the same registry under a second name.
LEMMA SameRegistry ==
    /\ DR!Init <=> RP!Init
    /\ DR!Next <=> RP!Next
    /\ DR!registryVars = RP!registryVars
BY DEF DR!Init, RP!Init, DR!Next, RP!Next, DR!registryVars, RP!registryVars,
       DR!TransferOwnership, RP!TransferOwnership, DR!Pause, RP!Pause, DR!Unpause, RP!Unpause,
       DR!DoRegister, RP!DoRegister, DR!RegisterDid, RP!RegisterDid,
       DR!RegisterSorobanDid, RP!RegisterSorobanDid, DR!UpdateDid, RP!UpdateDid,
       DR!DeactivateDid, RP!DeactivateDid, DR!AnchorCredential, RP!AnchorCredential,
       DR!RevokeCredential, RP!RevokeCredential

\* The answers of the two queries, now and after the step.
DidAnswers == [d \in Dids |-> DR!ResolveDid(d)]
VcAnswers == [h \in Hashes |-> DR!CredentialStatus(h)]

\* Both names of the registry answer alike.
LEMMA SameQueries ==
    /\ \A d : DR!ResolveDid(d) = RP!ResolveDid(d)
    /\ \A h : DR!CredentialStatus(h) = RP!CredentialStatus(h)
    /\ \A d : DR!ResolveDid(d)' = RP!ResolveDid(d)'
    /\ \A h : DR!CredentialStatus(h)' = RP!CredentialStatus(h)'
BY DEF DR!ResolveDid, RP!ResolveDid, DR!CredentialStatus, RP!CredentialStatus

\* And so do the tables made of the answers.
LEMMA SameAnswers ==
    /\ DidAnswers = RP!DidStatusMap /\ VcAnswers = RP!VcStatusMap
    /\ DidAnswers' = RP!DidStatusMap' /\ VcAnswers' = RP!VcStatusMap'
BY DEF DidAnswers, VcAnswers, RP!DidStatusMap, RP!VcStatusMap, DR!ResolveDid, RP!ResolveDid,
       DR!CredentialStatus, RP!CredentialStatus

\* The registry's invariant holds in the system.
LEMMA RegistrySound == Spec => []RP!IInv
<1>1. Init => RP!IInv
  BY RP!InitHolds, SameRegistry, RegistryAssumption DEF Init
<1>2. RP!IInv /\ [Next]_systemVars => RP!IInv'
  <2>1. [Next]_systemVars => [RP!Next]_(RP!registryVars)
    BY SameRegistry
       DEF Next, RegistryTransaction, AgreementTransaction, LedgerClose, systemVars, registryVars,
           RP!registryVars
  <2> QED BY <2>1, RP!NextKeeps, RegistryAssumption
<1> QED BY <1>1, <1>2, PTL DEF Spec

\* Each transaction of the pair is a step of the agreement contract, of the
\* abstract registry, of the clock, or invisible.
LEMMA StepImplements ==
    ASSUME RP!IInv, [Next]_systemVars
    PROVE  [OA!Next]_(OA!vars)
<1>1. CASE RegistryTransaction
  <2>1. [RP!Lifecycle!Next]_<<RP!DidStatusMap, RP!VcStatusMap>>
    BY <1>1, SameRegistry, RP!StepImplements, RegistryAssumption DEF RegistryTransaction
  <2>2. UNCHANGED <<agreementVars, now>>
    BY <1>1 DEF RegistryTransaction
  <2>3. CASE UNCHANGED <<RP!DidStatusMap, RP!VcStatusMap>>
    BY <2>2, <2>3, SameAnswers DEF OA!vars, OA!contractVars, agreementVars, DidAnswers, VcAnswers
  <2>4. CASE RP!Lifecycle!Next
    <3>1. OA!Registry!Next
      BY <2>4, SameQueries
         DEF OA!Registry!Next, OA!Registry!Register, OA!Registry!Deactivate, OA!Registry!Anchor,
             OA!Registry!Revoke, RP!Lifecycle!Next, RP!Lifecycle!Register,
             RP!Lifecycle!Deactivate, RP!Lifecycle!Anchor, RP!Lifecycle!Revoke
    <3> QED BY <2>2, <3>1 DEF OA!Next, agreementVars, OA!contractVars
  <2> QED BY <2>1, <2>3, <2>4
<1>2. CASE AgreementTransaction
  <2>1. UNCHANGED <<DidAnswers, VcAnswers>>
    BY <1>2 DEF AgreementTransaction, registryVars, DidAnswers, VcAnswers,
                DR!ResolveDid, DR!CredentialStatus
  <2> QED BY <1>2, <2>1 DEF AgreementTransaction, OA!Next, DidAnswers, VcAnswers
<1>3. CASE LedgerClose
  <2>1. UNCHANGED <<DidAnswers, VcAnswers>>
    BY <1>3 DEF LedgerClose, registryVars, DidAnswers, VcAnswers,
                DR!ResolveDid, DR!CredentialStatus
  <2> QED BY <1>3, <2>1 DEF LedgerClose, OA!Next, DidAnswers, VcAnswers, agreementVars, OA!contractVars
<1>4. CASE UNCHANGED systemVars
  BY <1>4 DEF systemVars, agreementVars, registryVars, OA!vars, OA!contractVars,
              DR!ResolveDid, DR!CredentialStatus
<1> QED BY <1>1, <1>2, <1>3, <1>4 DEF Next

\* On one ledger, with controllers and issuers calling the registry between
\* any two calls of an agreement, the agreement contract behaves as it does
\* over any registry that keeps the lifecycle (check_compliance of
\* orchestrated_agreement.rs, which only calls resolve_did and
\* credential_status): every theorem about OrchestratedAgreement holds of
\* the pair.
THEOREM SystemImplementsAgreement == Spec => ImplementsOpenContract
<1>1. Init => OA!Init
  BY DEF Init
<1>2. RP!IInv /\ [Next]_systemVars => [OA!Next]_(OA!vars)
  BY StepImplements
<1> QED BY <1>1, <1>2, RegistrySound, PTL DEF Spec, ImplementsOpenContract, OA!Spec

-----------------------------------------------------------------------------
(* What the pair guarantees that neither contract does alone.              *)

\* The agreement contract of the system, with what is proved about it.
AP == INSTANCE OrchestratedAgreement_proofs
    WITH didStatus <- DidAnswers, vcStatus <- VcAnswers

\* The same contract under a second name.
LEMMA SameAgreement ==
    /\ OA!Init <=> AP!Init
    /\ OA!Next <=> AP!Next
    /\ OA!vars = AP!vars /\ OA!vars' = AP!vars'
BY DEF DidAnswers, VcAnswers, OA!Init, AP!Init, OA!Next, AP!Next, OA!vars, AP!vars,
       OA!contractVars, AP!contractVars, OA!Registry!Init, AP!Registry!Init, OA!Registry!Next,
       AP!Registry!Next, OA!Registry!Register, AP!Registry!Register, OA!Registry!Deactivate,
       AP!Registry!Deactivate, OA!Registry!Anchor, AP!Registry!Anchor, OA!Registry!Revoke,
       AP!Registry!Revoke, OA!ContractStep, AP!ContractStep, OA!AgreementStep,
       AP!AgreementStep, OA!Tick, AP!Tick, OA!TransferOwnership, AP!TransferOwnership,
       OA!SetPaused, AP!SetPaused, OA!SetDidRegistry, AP!SetDidRegistry, OA!CreateAgreement,
       AP!CreateAgreement, OA!AttestIdentity, AP!AttestIdentity, OA!ConnectWallet,
       AP!ConnectWallet, OA!AddSecondarySigner, AP!AddSecondarySigner, OA!FundAndSetAsset,
       AP!FundAndSetAsset, OA!ReleaseEscrow, AP!ReleaseEscrow, OA!AddIntegrations,
       AP!AddIntegrations, OA!RetireCarbon, AP!RetireCarbon, OA!ExecuteAgreement,
       AP!ExecuteAgreement, OA!SettleAgreement, AP!SettleAgreement, OA!CancelAgreement,
       AP!CancelAgreement, OA!RaiseDispute, AP!RaiseDispute, OA!ResolveDispute,
       AP!ResolveDispute, OA!AnchorReport, AP!AnchorReport, OA!SetMetadata, AP!SetMetadata,
       OA!Update, AP!Update, OA!NotPaused, AP!NotPaused, OA!NotExpired, AP!NotExpired,
       OA!Compliant, AP!Compliant, OA!CheckCompliance, AP!CheckCompliance, OA!Option,
       AP!Option, OA!Timestamps, AP!Timestamps, OA!Ids, AP!Ids

\* Both invariants hold in the system.
LEMMA SystemSound == Spec => [](RP!IInv /\ AP!IInv)
<1>1. Init => AP!IInv
  BY AP!InitEstablishes, SameAgreement, InputAssumption DEF Init
<1>2. RP!IInv /\ AP!IInv /\ [Next]_systemVars => AP!IInv'
  <2> SUFFICES ASSUME RP!IInv, AP!IInv, [Next]_systemVars PROVE AP!IInv'
    OBVIOUS
  <2>1. [AP!Next]_(AP!vars)
    BY StepImplements, SameAgreement
  <2> QED BY <2>1, AP!StepKeeps, InputAssumption
<1> QED BY <1>1, <1>2, RegistrySound, PTL DEF Spec

\* A funded agreement under a revoked credential fails the compliance check.
LEMMA RevokedFails ==
    ASSUME RP!IInv, AP!IInv, NEW id \in DOMAIN agreements,
           NEW i \in agreements[id].identity, Revoked(i.attestation_hash),
           didRegistry = {LiveRegistry}
    PROVE  ~AP!CheckCompliance(agreements[id])
<1> DEFINE h == i.attestation_hash
<1>1. agreements[id] \in AP!Agreement
  BY DEF AP!IInv, AP!TypeOK
<1>2. agreements[id].identity \in AP!Option(AP!IdentityLayer)
  BY <1>1 DEF AP!Agreement
<1>3. h \in Hashes
  BY <1>2 DEF AP!Option, AP!IdentityLayer
<1>4. PICK rec \in credentials[h] : rec.status = "Revoked"
  BY DEF Revoked
<1>5. rec \in RP!Credential /\ credentials[h] = {rec}
  <2>1. credentials[h] \in RP!Option(RP!Credential)
    BY <1>3 DEF RP!IInv, RP!RegistryInv, RP!TypeOK
  <2> QED BY <1>4, <2>1 DEF RP!Option
<1>6. RP!CredentialStatus(h) = "Revoked"
  BY <1>3, <1>4, <1>5, RP!AnswersOfCredential, RegistryAssumption
<1>7. VcAnswers[h] = "Revoked"
  BY <1>3, <1>6, SameQueries DEF VcAnswers
<1>8. ~AP!Compliant(i.did, h)
  BY <1>7 DEF AP!Compliant
<1> QED BY <1>8 DEF AP!CheckCompliance

\* No call of either contract moves it, or gives it another credential.
LEMMA StepSticks ==
    ASSUME RP!IInv, AP!IInv, [Next]_systemVars, NEW id \in DOMAIN agreements,
           agreements[id].state = "Funded",
           \E i \in agreements[id].identity : Revoked(i.attestation_hash),
           didRegistry = {LiveRegistry}
    PROVE  /\ agreements'[id].state = "Funded"
           /\ \E i \in agreements'[id].identity : Revoked(i.attestation_hash)'
<1>1. PICK i \in agreements[id].identity : Revoked(i.attestation_hash)
  OBVIOUS
<1>2. id \in AP!Ids /\ agreements[id] \in AP!Agreement /\ AP!Sound(agreements[id])
  BY DEF AP!IInv, AP!TypeOK
<1>3. AP!Evolves(agreements[id], agreements'[id])
  <2>1. [AP!Next]_(AP!vars)
    BY StepImplements, SameAgreement
  <2> QED BY <1>2, <2>1, AP!StepKeeps, InputAssumption
<1>4. agreements'[id].state = "Funded"
  BY <1>1, <1>3, RevokedFails DEF AP!Evolves
<1>5. agreements[id].asset # {}
  BY <1>2 DEF AP!Sound, AP!Accounted
<1>6. agreements'[id].identity = agreements[id].identity
  BY <1>3, <1>5 DEF AP!Evolves
<1>7. i.attestation_hash \in Hashes
  BY <1>2 DEF AP!Agreement, AP!Option, AP!IdentityLayer
<1>8. [RP!Next]_(RP!registryVars)
  BY SameRegistry
     DEF Next, RegistryTransaction, AgreementTransaction, LedgerClose, systemVars, registryVars,
         RP!registryVars
<1>9. credentials'[i.attestation_hash] = credentials[i.attestation_hash]
  BY <1>1, <1>7, <1>8, RP!RevokedStays, RegistryAssumption DEF Revoked
<1> QED BY <1>1, <1>4, <1>6, <1>9 DEF Revoked

\* Once the issuer has revoked its credential, a funded agreement stays
\* funded under that credential for as long as the live registry is the
\* configured one: no order of registry calls and agreement calls
\* (revoke_credential, anchor_credential, attest_identity,
\* execute_agreement, cancel_agreement) takes it further or back.
THEOREM RevokedFundedAlwaysStuck == Spec => RevokedFundedIsStuck
<1>1. RP!IInv /\ AP!IInv /\ [Next]_systemVars =>
        [\A id \in DOMAIN agreements :
            LET a == agreements[id] IN
            /\ a.state = "Funded"
            /\ \E i \in a.identity : Revoked(i.attestation_hash)
            /\ didRegistry = {LiveRegistry}
            => /\ agreements'[id].state = "Funded"
               /\ \E i \in agreements'[id].identity : Revoked(i.attestation_hash)']_systemVars
  BY StepSticks
<1> QED BY <1>1, SystemSound, PTL DEF Spec, RevokedFundedIsStuck

=============================================================================

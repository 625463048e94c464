----------------------- MODULE OrchestratedAgreement -----------------------
(***************************************************************************)
(* The Soroban contract that carries an agreement through its layers:      *)
(* identity, wallet, asset, integration, reporting.                        *)
(*                                                                         *)
(* A contract call runs alone and either commits whole or panics and       *)
(* leaves the ledger untouched, so every entry point is one action and     *)
(* every panic a conjunct of its guard.  The caller who signs is the       *)
(* initiator (the owner for administration and resolve_dispute): that is   *)
(* who may take the step, not a state of the contract.                     *)
(*                                                                         *)
(* An Option, and a layer (a Vec the contract keeps at length 0 or 1), is  *)
(* a set with at most one element: "\A x \in opt" reads "if there is one". *)
(* The data no operation tests is left out: addresses and types of the     *)
(* wallet, asset codes, endpoint, FX quote, created_at and updated_at.     *)
(*                                                                         *)
(* The registry behind set_did_registry is reached through two calls,      *)
(* resolve_did and credential_status.  It changes under the contract       *)
(* between any two calls, as RegistryLifecycle says.                       *)
(***************************************************************************)
EXTENDS Integers, Sequences

CONSTANTS Accounts,        \* Stellar addresses
          Dids, Hashes,    \* DIDs, and 32-byte hashes
          ZeroHash,        \* the hash of 32 zero bytes
          Registries,      \* addresses set_did_registry may be given
          LiveRegistry,    \* the one where a registry contract answers
          Amounts,         \* i128 inputs of fund_and_set_asset
          Credits,         \* i128 inputs for carbon_credits
          Windows,         \* u32 inputs for dispute_window
          Scores,          \* i32 inputs for oa_score
          MetadataKeys,    \* keys of the metadata map
          MaxTimestamp,    \* bound: the last timestamp a u64 holds
          MaxAgreements    \* bound: agreements created

ASSUME InputAssumption ==
    /\ Amounts \subseteq Int
    /\ Credits \subseteq Int
    /\ Windows \subseteq Nat
    /\ Scores \subseteq Int
    /\ MaxTimestamp \in Nat
    /\ MaxAgreements \in Nat

VARIABLES owner,                \* the contract's owner
          paused,               \* the pause flag
          didRegistry,          \* Option(Registries): the configured registry
          agreements,           \* [0..agreementCount - 1 -> Agreement]
          agreementCount,       \* u64 counter; the n-th id hashes (initiator, n)
          initiatorAgreements,  \* [Accounts -> Seq(ids)]
          now,                  \* the ledger timestamp
          didStatus, vcStatus   \* the registry as its callers see it

contractVars == <<owner, paused, didRegistry, agreements, agreementCount,
                  initiatorAgreements>>
vars == <<contractVars, now, didStatus, vcStatus>>

Registry == INSTANCE RegistryLifecycle

Option(S) == {{}} \cup {{s} : s \in S}
Timestamps == 0..MaxTimestamp

States == {"Draft", "Active", "Funded", "Executed", "Settled", "Disputed",
           "Expired", "Cancelled"}

IdentityLayer == [did : Dids, attestation_hash : Hashes]
WalletLayer == [secondary_addresses : SUBSET Accounts, funded : BOOLEAN]
Quantities == Amounts \cap Nat
AssetLayer == [amount : Quantities, locked_amount : Quantities, escrow_released : BOOLEAN]
IntegrationLayer == [oa_score : Option(Scores \cap (0..1000)),
                     carbon_credits : Credits \cap Nat, carbon_retired : BOOLEAN]
\* executed_at is the timestamp folded into the audit hash.
ReportingLayer == [executed_at : Timestamps, dispute_resolution_hash : Option(Hashes),
                   report_hash : Option(Hashes)]

Agreement == [state : States, initiator : Accounts,
              expires_at : Option(Timestamps), dispute_window_end : Option(Timestamps),
              identity : Option(IdentityLayer), wallet : Option(WalletLayer),
              asset : Option(AssetLayer), integration : Option(IntegrationLayer),
              reporting : Option(ReportingLayer), metadata : SUBSET MetadataKeys]

Ids == 0..(agreementCount - 1)

TypeOK ==
    /\ owner \in Accounts
    /\ paused \in BOOLEAN
    /\ didRegistry \in Option(Registries)
    /\ agreementCount \in Nat
    /\ agreements \in [Ids -> Agreement]
    /\ initiatorAgreements \in [Accounts -> Seq(Nat)]
    /\ now \in Timestamps
    /\ Registry!TypeOK

Init ==
    /\ owner \in Accounts
    /\ paused = FALSE
    /\ didRegistry = {}
    /\ agreementCount = 0
    /\ agreements = [id \in {} |-> {}]
    /\ initiatorAgreements = [a \in Accounts |-> <<>>]
    /\ now = 0
    /\ Registry!Init

-----------------------------------------------------------------------------
(* Guards shared by the entry points.                                      *)

NotPaused == ~paused

\* Variant: an expiry one second late.
NotExpiredLate(a) == \A t \in a.expires_at : now <= t + 1

NotExpired(a) == \A t \in a.expires_at : now <= t

\* No registry configured: nothing to check.  Otherwise both calls must be
\* answered, by a resolvable DID and a credential that is not revoked (a
\* hash that was never anchored is allowed).
Compliant(did, hash) ==
    \A r \in didRegistry :
        /\ r = LiveRegistry
        /\ didStatus[did] = "active"
        /\ vcStatus[hash] # "Revoked"

CheckCompliance(a) ==
    \A i \in a.identity : Compliant(i.did, i.attestation_hash)

\* Every entry point that changes an agreement writes that one record.
Update(id, a) ==
    /\ agreements' = [agreements EXCEPT ![id] = a]
    /\ UNCHANGED <<owner, paused, didRegistry, agreementCount, initiatorAgreements>>

-----------------------------------------------------------------------------
(* Administration.                                                         *)

TransferOwnership(newOwner) ==
    /\ newOwner # owner
    /\ owner' = newOwner
    /\ UNCHANGED <<paused, didRegistry, agreements, agreementCount, initiatorAgreements>>

SetPaused(value) ==
    /\ paused' = value
    /\ UNCHANGED <<owner, didRegistry, agreements, agreementCount, initiatorAgreements>>

SetDidRegistry(r) ==
    /\ didRegistry' = {r}
    /\ UNCHANGED <<owner, paused, agreements, agreementCount, initiatorAgreements>>

-----------------------------------------------------------------------------
(* Lifecycle.                                                              *)

CreateAgreement(initiator, expiry, window) ==
    LET id == agreementCount IN
    /\ NotPaused
    /\ \A t \in expiry : t > now
    /\ window # 0
    /\ \A t \in expiry : t + window <= MaxTimestamp   \* overflow-checks: u64 addition
    /\ agreementCount < MaxAgreements
    /\ agreementCount' = agreementCount + 1
    /\ agreements' = [n \in 0..agreementCount |->
           IF n # id THEN agreements[n]
           ELSE [state |-> "Draft", initiator |-> initiator, expires_at |-> expiry,
                 dispute_window_end |-> {t + window : t \in expiry},
                 identity |-> {}, wallet |-> {}, asset |-> {}, integration |-> {},
                 reporting |-> {}, metadata |-> {}]]
    /\ initiatorAgreements' = [initiatorAgreements EXCEPT ![initiator] = Append(@, id)]
    /\ UNCHANGED <<owner, paused, didRegistry>>

\* Variant: a funded agreement may be attested again.
AttestFunded(id, did, hash) ==
    LET a == agreements[id] IN
    /\ NotPaused
    /\ a.state \in {"Draft", "Active", "Funded"}
    /\ NotExpired(a)
    /\ hash # ZeroHash
    /\ Compliant(did, hash)
    /\ Update(id, [a EXCEPT !.identity = {[did |-> did, attestation_hash |-> hash]},
                            !.state = "Active"])

\* A caller may name a verifier, whose refusal is a panic: the call changes nothing.
AttestIdentity(id, did, hash) ==
    LET a == agreements[id] IN
    /\ NotPaused
    /\ a.state \in {"Draft", "Active"}
    /\ NotExpired(a)
    /\ hash # ZeroHash
    /\ Compliant(did, hash)
    /\ Update(id, [a EXCEPT !.identity = {[did |-> did, attestation_hash |-> hash]},
                            !.state = "Active"])

ConnectWallet(id) ==
    LET a == agreements[id] IN
    /\ NotPaused
    /\ NotExpired(a)
    /\ a.state \notin {"Executed", "Settled", "Cancelled"}
    /\ Update(id, [a EXCEPT !.wallet = {[secondary_addresses |-> {}, funded |-> FALSE]}])

AddSecondarySigner(id, signer) ==
    LET a == agreements[id] IN
    /\ NotPaused
    /\ \E w \in a.wallet :
          /\ signer \notin w.secondary_addresses
          /\ Update(id, [a EXCEPT !.wallet =
                 {[w EXCEPT !.secondary_addresses = @ \cup {signer}]}])

\* A missing wallet layer is no obstacle here.
FundAndSetAsset(id, amount, locked) ==
    LET a == agreements[id] IN
    /\ NotPaused
    /\ NotExpired(a)
    /\ amount >= 0 /\ locked >= 0 /\ locked <= amount
    /\ a.state = "Active"
    /\ Update(id, [a EXCEPT
           !.wallet = {[w EXCEPT !.funded = TRUE] : w \in a.wallet},
           !.asset = {[amount |-> amount, locked_amount |-> locked,
                       escrow_released |-> FALSE]},
           !.state = "Funded"])

\* Variant: escrow is released from execution on.
ReleaseEarly(id) ==
    LET a == agreements[id] IN
    /\ a.state \in {"Executed", "Settled"}
    /\ \E s \in a.asset : Update(id, [a EXCEPT !.asset = {[s EXCEPT !.escrow_released = TRUE]}])

\* Neither the pause flag nor an earlier release is looked at.
ReleaseEscrow(id) ==
    LET a == agreements[id] IN
    /\ a.state = "Settled"
    /\ \E s \in a.asset : Update(id, [a EXCEPT !.asset = {[s EXCEPT !.escrow_released = TRUE]}])

\* Any state, as long as the agreement has not expired.
AddIntegrations(id, score, carbon) ==
    LET a == agreements[id] IN
    /\ NotPaused
    /\ NotExpired(a)
    /\ \A s \in score : s >= 0 /\ s <= 1000
    /\ carbon >= 0
    /\ Update(id, [a EXCEPT !.integration =
           {[oa_score |-> score, carbon_credits |-> carbon, carbon_retired |-> FALSE]}])

RetireCarbon(id) ==
    LET a == agreements[id] IN
    /\ NotPaused
    /\ \E i \in a.integration :
          /\ ~i.carbon_retired
          /\ Update(id, [a EXCEPT !.integration = {[i EXCEPT !.carbon_retired = TRUE]}])

\* Variant: the wallet layer is not demanded.
ExecuteWithoutWallet(id) ==
    LET a == agreements[id] IN
    /\ NotPaused
    /\ NotExpired(a)
    /\ a.identity # {} /\ a.asset # {}
    /\ a.state = "Funded"
    /\ CheckCompliance(a)
    /\ Update(id, [a EXCEPT
           !.reporting = {[executed_at |-> now, dispute_resolution_hash |-> {},
                           report_hash |-> {}]},
           !.state = "Executed"])

ExecuteAgreement(id) ==
    LET a == agreements[id] IN
    /\ NotPaused
    /\ NotExpired(a)
    /\ a.identity # {} /\ a.wallet # {} /\ a.asset # {}
    /\ a.state = "Funded"
    /\ CheckCompliance(a)
    /\ Update(id, [a EXCEPT
           !.reporting = {[executed_at |-> now, dispute_resolution_hash |-> {},
                           report_hash |-> {}]},
           !.state = "Executed"])

\* Variant: compliance is not checked again at settlement.
SettleUnchecked(id) ==
    LET a == agreements[id] IN
    /\ NotPaused
    /\ a.state = "Executed"
    /\ \A end \in a.dispute_window_end : now >= end
    /\ Update(id, [a EXCEPT !.state = "Settled"])

SettleAgreement(id) ==
    LET a == agreements[id] IN
    /\ NotPaused
    /\ a.state = "Executed"
    /\ \A end \in a.dispute_window_end : now >= end
    /\ CheckCompliance(a)
    /\ Update(id, [a EXCEPT !.state = "Settled"])

\* Variant: funded agreements can be cancelled.
CancelFunded(id) ==
    LET a == agreements[id] IN
    /\ NotPaused
    /\ a.state \in {"Draft", "Active", "Funded"}
    /\ Update(id, [a EXCEPT !.state = "Cancelled"])

\* Variant: only a cancelled agreement cannot be cancelled.
CancelAny(id) ==
    LET a == agreements[id] IN
    /\ NotPaused
    /\ a.state # "Cancelled"
    /\ Update(id, [a EXCEPT !.state = "Cancelled"])

CancelAgreement(id) ==
    LET a == agreements[id] IN
    /\ NotPaused
    /\ a.state \in {"Draft", "Active"}
    /\ Update(id, [a EXCEPT !.state = "Cancelled"])

RaiseDispute(id, hash) ==
    LET a == agreements[id] IN
    /\ NotPaused
    /\ a.state = "Executed"
    /\ \A end \in a.dispute_window_end : now <= end
    /\ Update(id, [a EXCEPT
           !.reporting = {[r EXCEPT !.dispute_resolution_hash = {hash}] : r \in a.reporting},
           !.state = "Disputed"])

\* Neither the window nor compliance is looked at.
ResolveDispute(id, hash, settle) ==
    LET a == agreements[id] IN
    /\ NotPaused
    /\ a.state = "Disputed"
    /\ Update(id, [a EXCEPT
           !.reporting = {[r EXCEPT !.dispute_resolution_hash = {hash}] : r \in a.reporting},
           !.state = IF settle THEN "Settled" ELSE "Executed"])

AnchorReport(id, hash) ==
    LET a == agreements[id] IN
    /\ NotPaused
    /\ hash # ZeroHash
    /\ a.reporting # {}
    /\ Update(id, [a EXCEPT
           !.reporting = {[r EXCEPT !.report_hash = {hash}] : r \in a.reporting}])

\* The pause flag is not looked at.
SetMetadata(id, key) ==
    LET a == agreements[id] IN
    /\ a.state \notin {"Settled", "Cancelled"}
    /\ Update(id, [a EXCEPT !.metadata = @ \cup {key}])

-----------------------------------------------------------------------------
AgreementStep(id) ==
    \/ \E d \in Dids, h \in Hashes : AttestIdentity(id, d, h)
    \/ ConnectWallet(id)
    \/ \E s \in Accounts : AddSecondarySigner(id, s)
    \/ \E amount, locked \in Amounts : FundAndSetAsset(id, amount, locked)
    \/ ReleaseEscrow(id)
    \/ \E s \in Option(Scores), c \in Credits : AddIntegrations(id, s, c)
    \/ RetireCarbon(id)
    \/ ExecuteAgreement(id)
    \/ SettleAgreement(id)
    \/ CancelAgreement(id)
    \/ \E h \in Hashes : RaiseDispute(id, h)
    \/ \E h \in Hashes, settle \in BOOLEAN : ResolveDispute(id, h, settle)
    \/ \E h \in Hashes : AnchorReport(id, h)
    \/ \E k \in MetadataKeys : SetMetadata(id, k)

ContractStep ==
    \/ \E a \in Accounts : TransferOwnership(a)
    \/ \E value \in BOOLEAN : SetPaused(value)
    \/ \E r \in Registries : SetDidRegistry(r)
    \/ \E a \in Accounts, expiry \in Option(Timestamps), w \in Windows :
          CreateAgreement(a, expiry, w)
    \/ \E id \in Ids : AgreementStep(id)

\* Ledger timestamps only grow.
Tick == now < MaxTimestamp /\ now' = now + 1

Next ==
    \/ ContractStep /\ UNCHANGED <<now, didStatus, vcStatus>>
    \/ Registry!Next /\ UNCHANGED <<contractVars, now>>
    \/ Tick /\ UNCHANGED <<contractVars, didStatus, vcStatus>>

Spec == Init /\ [][Next]_vars

-----------------------------------------------------------------------------
(* Properties of one agreement, whatever the registry and the others do.   *)

Closed == {"Settled", "Cancelled"}
PostExecution == {"Executed", "Disputed", "Settled"}

\* An agreement is past execution exactly when it carries a report, and then
\* every layer the five-layer flow demands is still there: no later call
\* (reconnecting a wallet, re-attesting, disputing, resolving) can take away
\* what execute_agreement checked.
LayersComplete ==
    \A id \in Ids :
        LET a == agreements[id] IN
        /\ a.state \in PostExecution <=> a.reporting # {}
        /\ a.state \in PostExecution =>
              a.identity # {} /\ a.wallet # {} /\ a.asset # {}

\* Collateral and state agree: an agreement that can still be cancelled, or
\* was, holds none, so cancel_agreement never strands an asset; the lock
\* never exceeds the amount; and escrow is out only after settlement.
CollateralAccounted ==
    \A id \in Ids :
        LET a == agreements[id] IN
        /\ a.state \in {"Draft", "Active", "Cancelled"} <=> a.asset = {}
        /\ \A s \in a.asset :
              /\ s.locked_amount <= s.amount
              /\ s.escrow_released => a.state = "Settled"

\* The window opens with the execution: an agreement that expires is executed
\* strictly before its dispute window ends, whenever the initiator chose to
\* execute it, so there is always a moment at which it can be disputed.
WindowOutlivesExecution ==
    \A id \in Ids :
        \A r \in agreements[id].reporting, end \in agreements[id].dispute_window_end :
            r.executed_at < end

\* A dispute always leaves its hash on the report, through any number of
\* rounds of raise_dispute and resolve_dispute.
DisputesRecorded ==
    \A id \in Ids :
        agreements[id].state = "Disputed" =>
            \E r \in agreements[id].reporting : r.dispute_resolution_hash # {}

\* What was funded stays as funded: amount and lock never change and the
\* attested identity is frozen with them, so the compliance checks of
\* execution and settlement look at the identity the collateral was locked for.
FundingFreezesTerms ==
    [][\A id \in Ids : \A s \in agreements[id].asset :
          /\ agreements'[id].identity = agreements[id].identity
          /\ \E t \in agreements'[id].asset :
                t.amount = s.amount /\ t.locked_amount = s.locked_amount]_vars

\* Settled and Cancelled are final, and escrow once released stays released.
ClosedIsFinal ==
    [][\A id \in Ids :
          /\ agreements[id].state \in Closed =>
                agreements'[id].state = agreements[id].state
          /\ \A s \in agreements[id].asset : s.escrow_released =>
                \E t \in agreements'[id].asset : t.escrow_released]_vars

\* The way to Settled goes through the report: straight from Executed only
\* once the dispute window is over, and with a configured registry only
\* while the identity is compliant; otherwise through a dispute the owner
\* resolved.
SettlementPath ==
    [][\A id \in Ids :
          LET a == agreements[id] IN
          a.state # "Settled" /\ agreements'[id].state = "Settled" =>
              \/ a.state = "Disputed"
              \/ /\ a.state = "Executed"
                 /\ \A end \in a.dispute_window_end : now >= end
                 /\ CheckCompliance(a)]_vars

\* A funded agreement that reached its expiry stays Funded for good, with its
\* collateral: it can neither be executed, cancelled nor settled.
ExpiredFundedIsStuck ==
    [][\A id \in Ids :
          agreements[id].state = "Funded" /\ ~NotExpired(agreements[id]) =>
              /\ agreements'[id].state = "Funded"
              /\ agreements'[id].asset = agreements[id].asset]_vars

=============================================================================

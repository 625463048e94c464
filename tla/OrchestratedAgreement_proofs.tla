-------------------- MODULE OrchestratedAgreement_proofs --------------------
(***************************************************************************)
(* Proofs about the agreement contract, for every number of agreements,    *)
(* accounts, DIDs, hashes and timestamps, and over any registry that keeps *)
(* RegistryLifecycle.                                                      *)
(*                                                                         *)
(* An entry point rewrites one agreement, so the argument is made about    *)
(* one record: Sound(a) is the inductive invariant of a record, Evolves(a, *)
(* b) what a call may turn a into, and each entry point is shown to keep   *)
(* the first and to respect the second.  Lifting to the store is then one  *)
(* lemma.                                                                  *)
(***************************************************************************)
EXTENDS OrchestratedAgreement, TLAPS

Layered(a) ==
    /\ a.state # "Expired"
    /\ a.state \in PostExecution <=> a.reporting # {}
    /\ a.state \in PostExecution => a.identity # {} /\ a.wallet # {} /\ a.asset # {}

Accounted(a) ==
    /\ a.state \in {"Draft", "Active", "Cancelled"} <=> a.asset = {}
    /\ \A s \in a.asset : /\ s.locked_amount <= s.amount
                          /\ s.escrow_released => a.state = "Settled"

\* The strengthening behind WindowOutlivesExecution: the window ends after
\* the expiry, and execution happens no later than the expiry.
Windowed(a) ==
    /\ \A end \in a.dispute_window_end : \E t \in a.expires_at : t < end
    /\ \A r \in a.reporting, t \in a.expires_at : r.executed_at <= t

Recorded(a) ==
    a.state = "Disputed" => \E r \in a.reporting : r.dispute_resolution_hash # {}

Sound(a) == Layered(a) /\ Accounted(a) /\ Windowed(a) /\ Recorded(a)

IInv == TypeOK /\ \A id \in Ids : Sound(agreements[id])

\* What one call may do to one agreement.
Evolves(a, b) ==
    /\ \A s \in a.asset :
          /\ b.identity = a.identity
          /\ \E t \in b.asset : /\ t.amount = s.amount
                                /\ t.locked_amount = s.locked_amount
                                /\ s.escrow_released => t.escrow_released
    /\ a.state \in Closed => b.state = a.state
    /\ a.state # "Settled" /\ b.state = "Settled" =>
          \/ a.state = "Disputed"
          \/ /\ a.state = "Executed"
             /\ \A end \in a.dispute_window_end : now >= end
             /\ CheckCompliance(a)
    /\ a.state = "Funded" /\ ~NotExpired(a) =>
          b.state = "Funded" /\ b.asset = a.asset
    /\ a.state = "Funded" /\ ~CheckCompliance(a) => b.state = "Funded"

-----------------------------------------------------------------------------
(* Options.                                                                *)

LEMMA OptionNone == ASSUME NEW S PROVE {} \in Option(S)
BY DEF Option

LEMMA OptionSome == ASSUME NEW S, NEW s \in S PROVE {s} \in Option(S)
BY DEF Option

LEMMA OptionCases ==
    ASSUME NEW S, NEW o \in Option(S)
    PROVE  o = {} \/ \E s \in S : o = {s}
BY DEF Option

LEMMA OptionMember == ASSUME NEW S, NEW o \in Option(S), NEW s \in o PROVE s \in S
BY DEF Option

-----------------------------------------------------------------------------
(* One lemma per entry point: the record it writes.                        *)

LEMMA AttestIdentityWrites ==
    ASSUME NEW id, NEW did \in Dids, NEW hash \in Hashes, agreements[id] \in Agreement,
           Sound(agreements[id]), AttestIdentity(id, did, hash)
    PROVE  \E b \in Agreement :
              Update(id, b) /\ Sound(b) /\ Evolves(agreements[id], b)
<1> DEFINE a == agreements[id]
           b == [a EXCEPT !.identity = {[did |-> did, attestation_hash |-> hash]},
                          !.state = "Active"]
<1>1. Update(id, b)
  BY DEF AttestIdentity
<1>2. {[did |-> did, attestation_hash |-> hash]} \in Option(IdentityLayer)
  BY OptionSome DEF IdentityLayer
<1>3. b \in Agreement
  BY <1>2 DEF Agreement, States
<1>4. a.state \in {"Draft", "Active"}
  BY DEF AttestIdentity
<1>5. Sound(b) /\ Evolves(a, b)
  BY <1>4 DEF Sound, Layered, Accounted, Windowed, Recorded, Evolves, Agreement,
              PostExecution, Closed, States
<1> QED BY <1>1, <1>3, <1>5

LEMMA ConnectWalletWrites ==
    ASSUME NEW id, agreements[id] \in Agreement,
           Sound(agreements[id]), ConnectWallet(id)
    PROVE  \E b \in Agreement :
              Update(id, b) /\ Sound(b) /\ Evolves(agreements[id], b)
<1> DEFINE a == agreements[id]
           b == [a EXCEPT !.wallet = {[secondary_addresses |-> {}, funded |-> FALSE]}]
<1>1. Update(id, b)
  BY DEF ConnectWallet
<1>2. {[secondary_addresses |-> {}, funded |-> FALSE]} \in Option(WalletLayer)
  BY OptionSome DEF WalletLayer
<1>3. b \in Agreement
  BY <1>2 DEF Agreement
<1>5. Sound(b) /\ Evolves(a, b)
  BY DEF Sound, Layered, Accounted, Windowed, Recorded, Evolves, Agreement,
              PostExecution, Closed, States
<1> QED BY <1>1, <1>3, <1>5

LEMMA AddSecondarySignerWrites ==
    ASSUME NEW id, NEW signer \in Accounts, agreements[id] \in Agreement,
           Sound(agreements[id]), AddSecondarySigner(id, signer)
    PROVE  \E b \in Agreement :
              Update(id, b) /\ Sound(b) /\ Evolves(agreements[id], b)
<1> DEFINE a == agreements[id]
<1>1. PICK w \in a.wallet :
         Update(id, [a EXCEPT !.wallet =
             {[w EXCEPT !.secondary_addresses = @ \cup {signer}]}])
  BY DEF AddSecondarySigner
<1> DEFINE v == [w EXCEPT !.secondary_addresses = @ \cup {signer}]
           b == [a EXCEPT !.wallet = {v}]
<1>2. w \in WalletLayer
  BY OptionMember DEF Agreement
<1>3. v \in WalletLayer
  BY <1>2 DEF WalletLayer
<1>4. b \in Agreement
  BY <1>3, OptionSome DEF Agreement
<1>5. Sound(b) /\ Evolves(a, b)
  BY DEF Sound, Layered, Accounted, Windowed, Recorded, Evolves, Agreement,
         PostExecution, Closed, States
<1> QED BY <1>1, <1>4, <1>5

LEMMA FundAndSetAssetWrites ==
    ASSUME NEW id, NEW amount \in Amounts, NEW locked \in Amounts,
           agreements[id] \in Agreement,
           Sound(agreements[id]), FundAndSetAsset(id, amount, locked)
    PROVE  \E b \in Agreement :
              Update(id, b) /\ Sound(b) /\ Evolves(agreements[id], b)
<1> DEFINE a == agreements[id]
           funded == {[w EXCEPT !.funded = TRUE] : w \in a.wallet}
           s == [amount |-> amount, locked_amount |-> locked, escrow_released |-> FALSE]
           b == [a EXCEPT !.wallet = funded, !.asset = {s}, !.state = "Funded"]
<1>1. Update(id, b)
  BY DEF FundAndSetAsset
<1>2. amount >= 0 /\ locked >= 0 /\ locked <= amount /\ a.state = "Active"
  BY DEF FundAndSetAsset
<1>3. s \in AssetLayer
  BY <1>2, InputAssumption DEF AssetLayer, Quantities
<1>4. funded \in Option(WalletLayer)
  <2>1. a.wallet \in Option(WalletLayer)
    BY DEF Agreement
  <2>2. CASE a.wallet = {}
    BY <2>2, OptionNone
  <2>3. CASE \E w \in WalletLayer : a.wallet = {w}
    <3>1. PICK w \in WalletLayer : a.wallet = {w}
      BY <2>3
    <3>2. [w EXCEPT !.funded = TRUE] \in WalletLayer
      BY DEF WalletLayer
    <3>3. funded = {[w EXCEPT !.funded = TRUE]}
      BY <3>1
    <3> QED BY <3>2, <3>3, OptionSome
  <2> QED BY <2>1, <2>2, <2>3, OptionCases
<1>5. b \in Agreement
  BY <1>3, <1>4, OptionSome DEF Agreement, States
<1>6. b = [a EXCEPT !.wallet = b.wallet, !.asset = {s}, !.state = "Funded"]
  BY DEF Agreement
<1>7. Sound(b) /\ Evolves(a, b)
  <2> HIDE DEF funded
  <2> QED
    BY <1>2, <1>3 DEF Sound, Layered, Accounted, Windowed, Recorded, Evolves, Agreement,
         PostExecution, Closed, States
<1> QED BY <1>1, <1>5, <1>7

LEMMA ReleaseEscrowWrites ==
    ASSUME NEW id, agreements[id] \in Agreement,
           Sound(agreements[id]), ReleaseEscrow(id)
    PROVE  \E b \in Agreement :
              Update(id, b) /\ Sound(b) /\ Evolves(agreements[id], b)
<1> DEFINE a == agreements[id]
<1>1. PICK s \in a.asset :
         Update(id, [a EXCEPT !.asset = {[s EXCEPT !.escrow_released = TRUE]}])
  BY DEF ReleaseEscrow
<1> DEFINE t == [s EXCEPT !.escrow_released = TRUE]
           b == [a EXCEPT !.asset = {t}]
<1>2. a.state = "Settled"
  BY DEF ReleaseEscrow
<1>3. s \in AssetLayer /\ a.asset = {s}
  BY OptionMember, OptionCases DEF Agreement
<1>4. t \in AssetLayer
  BY <1>3 DEF AssetLayer
<1>5. b \in Agreement
  BY <1>4, OptionSome DEF Agreement
<1>6. /\ t.amount = s.amount
      /\ t.locked_amount = s.locked_amount
      /\ t.escrow_released
  BY <1>3 DEF AssetLayer
<1>7. Sound(b) /\ Evolves(a, b)
  <2> HIDE DEF t
  <2> QED
    BY <1>2, <1>3, <1>6 DEF Sound, Layered, Accounted, Windowed, Recorded, Evolves,
         Agreement, PostExecution, Closed, States
<1> QED BY <1>1, <1>5, <1>7

LEMMA AddIntegrationsWrites ==
    ASSUME NEW id, NEW score \in Option(Scores), NEW carbon \in Credits,
           agreements[id] \in Agreement,
           Sound(agreements[id]), AddIntegrations(id, score, carbon)
    PROVE  \E b \in Agreement :
              Update(id, b) /\ Sound(b) /\ Evolves(agreements[id], b)
<1> DEFINE a == agreements[id]
           i == [oa_score |-> score, carbon_credits |-> carbon, carbon_retired |-> FALSE]
           b == [a EXCEPT !.integration = {i}]
<1>1. Update(id, b)
  BY DEF AddIntegrations
<1>2. score \in Option(Scores \cap (0..1000))
  <2>1. \A s \in score : s >= 0 /\ s <= 1000
    BY DEF AddIntegrations
  <2>2. CASE score = {}
    BY <2>2, OptionNone
  <2>3. CASE \E s \in Scores : score = {s}
    <3>1. PICK s \in Scores : score = {s}
      BY <2>3
    <3>2. s \in Scores \cap (0..1000)
      BY <2>1, <3>1, InputAssumption
    <3> QED BY <3>1, <3>2 DEF Option
  <2> QED BY <2>2, <2>3, OptionCases
<1>3. carbon \in Credits \cap Nat
  BY InputAssumption DEF AddIntegrations
<1>4. i \in IntegrationLayer
  BY <1>2, <1>3 DEF IntegrationLayer
<1>5. b \in Agreement
  BY <1>4, OptionSome DEF Agreement
<1>6. Sound(b) /\ Evolves(a, b)
  BY DEF Sound, Layered, Accounted, Windowed, Recorded, Evolves, Agreement,
         PostExecution, Closed, States
<1> QED BY <1>1, <1>5, <1>6

LEMMA RetireCarbonWrites ==
    ASSUME NEW id, agreements[id] \in Agreement,
           Sound(agreements[id]), RetireCarbon(id)
    PROVE  \E b \in Agreement :
              Update(id, b) /\ Sound(b) /\ Evolves(agreements[id], b)
<1> DEFINE a == agreements[id]
<1>1. PICK i \in a.integration :
         Update(id, [a EXCEPT !.integration = {[i EXCEPT !.carbon_retired = TRUE]}])
  BY DEF RetireCarbon
<1> DEFINE j == [i EXCEPT !.carbon_retired = TRUE]
           b == [a EXCEPT !.integration = {j}]
<1>2. i \in IntegrationLayer
  BY OptionMember DEF Agreement
<1>3. j \in IntegrationLayer
  BY <1>2 DEF IntegrationLayer
<1>4. b \in Agreement
  BY <1>3, OptionSome DEF Agreement
<1>5. Sound(b) /\ Evolves(a, b)
  BY DEF Sound, Layered, Accounted, Windowed, Recorded, Evolves, Agreement,
         PostExecution, Closed, States
<1> QED BY <1>1, <1>4, <1>5

LEMMA ExecuteAgreementWrites ==
    ASSUME NEW id, agreements[id] \in Agreement, now \in Timestamps,
           Sound(agreements[id]), ExecuteAgreement(id)
    PROVE  \E b \in Agreement :
              Update(id, b) /\ Sound(b) /\ Evolves(agreements[id], b)
<1> DEFINE a == agreements[id]
           r == [executed_at |-> now, dispute_resolution_hash |-> {}, report_hash |-> {}]
           b == [a EXCEPT !.reporting = {r}, !.state = "Executed"]
<1>1. Update(id, b)
  BY DEF ExecuteAgreement
<1>2. /\ a.state = "Funded" /\ NotExpired(a) /\ CheckCompliance(a)
      /\ a.identity # {} /\ a.wallet # {} /\ a.asset # {}
  BY DEF ExecuteAgreement
<1>3. r \in ReportingLayer
  BY OptionNone DEF ReportingLayer
<1>4. b \in Agreement
  BY <1>3, OptionSome DEF Agreement, States
<1>5. /\ b.state = "Executed" /\ b.reporting = {r} /\ r.executed_at = now
      /\ b.identity = a.identity /\ b.wallet = a.wallet /\ b.asset = a.asset
      /\ b.expires_at = a.expires_at /\ b.dispute_window_end = a.dispute_window_end
  BY DEF Agreement
<1> HIDE DEF a, r, b
<1>6. Layered(b) /\ Accounted(b) /\ Recorded(b)
  BY <1>2, <1>5 DEF Sound, Layered, Accounted, Recorded, PostExecution, a
<1>7. Windowed(b)
  BY <1>2, <1>5 DEF Sound, Windowed, NotExpired, a
<1>8. Evolves(a, b)
  BY <1>2, <1>5 DEF Evolves, Closed
<1> USE DEF a, b
<1> QED BY <1>1, <1>4, <1>6, <1>7, <1>8 DEF Sound

LEMMA SettleAgreementWrites ==
    ASSUME NEW id, agreements[id] \in Agreement,
           Sound(agreements[id]), SettleAgreement(id)
    PROVE  \E b \in Agreement :
              Update(id, b) /\ Sound(b) /\ Evolves(agreements[id], b)
<1> DEFINE a == agreements[id]
           b == [a EXCEPT !.state = "Settled"]
<1>1. Update(id, b)
  BY DEF SettleAgreement
<1>2. /\ a.state = "Executed"
      /\ \A end \in a.dispute_window_end : now >= end
      /\ CheckCompliance(a)
  BY DEF SettleAgreement
<1>3. b \in Agreement
  BY DEF Agreement, States
<1>4. Sound(b) /\ Evolves(a, b)
  BY <1>2 DEF Sound, Layered, Accounted, Windowed, Recorded, Evolves, Agreement,
         PostExecution, Closed, States
<1> QED BY <1>1, <1>3, <1>4

LEMMA CancelAgreementWrites ==
    ASSUME NEW id, agreements[id] \in Agreement,
           Sound(agreements[id]), CancelAgreement(id)
    PROVE  \E b \in Agreement :
              Update(id, b) /\ Sound(b) /\ Evolves(agreements[id], b)
<1> DEFINE a == agreements[id]
           b == [a EXCEPT !.state = "Cancelled"]
<1>1. Update(id, b)
  BY DEF CancelAgreement
<1>2. a.state \in {"Draft", "Active"}
  BY DEF CancelAgreement
<1>3. b \in Agreement
  BY DEF Agreement, States
<1>4. Sound(b) /\ Evolves(a, b)
  BY <1>2 DEF Sound, Layered, Accounted, Windowed, Recorded, Evolves, Agreement,
         PostExecution, Closed, States
<1> QED BY <1>1, <1>3, <1>4

-----------------------------------------------------------------------------
(* Three entry points overwrite one field of the report, whatever is there.*)

WithDispute(o, h) == {[r EXCEPT !.dispute_resolution_hash = {h}] : r \in o}
WithReport(o, h) == {[r EXCEPT !.report_hash = {h}] : r \in o}

LEMMA ReportRewritten ==
    ASSUME NEW o \in Option(ReportingLayer), NEW h \in Hashes
    PROVE  /\ WithDispute(o, h) \in Option(ReportingLayer)
           /\ WithReport(o, h) \in Option(ReportingLayer)
<1>1. CASE o = {}
  BY <1>1, OptionNone DEF WithDispute, WithReport
<1>2. CASE \E r \in ReportingLayer : o = {r}
  <2>1. PICK r \in ReportingLayer : o = {r}
    BY <1>2
  <2>2. /\ [r EXCEPT !.dispute_resolution_hash = {h}] \in ReportingLayer
        /\ [r EXCEPT !.report_hash = {h}] \in ReportingLayer
    BY OptionSome DEF ReportingLayer
  <2>3. /\ WithDispute(o, h) = {[r EXCEPT !.dispute_resolution_hash = {h}]}
        /\ WithReport(o, h) = {[r EXCEPT !.report_hash = {h}]}
    BY <2>1 DEF WithDispute, WithReport
  <2> QED BY <2>2, <2>3 DEF Option
<1> QED BY <1>1, <1>2, OptionCases

\* The rewritten report is there when the old one was and keeps the execution
\* time; raising or resolving records a dispute, anchoring keeps the record.
LEMMA DisputedReport ==
    ASSUME NEW o \in Option(ReportingLayer), NEW h \in Hashes
    PROVE  /\ WithDispute(o, h) = {} <=> o = {}
           /\ \A q \in WithDispute(o, h) : /\ \E r \in o : q.executed_at = r.executed_at
                             /\ q.dispute_resolution_hash # {}
<1>1. WithDispute(o, h) = {} <=> o = {}
  BY DEF WithDispute
<1>2. ASSUME NEW q \in WithDispute(o, h)
      PROVE  /\ \E r \in o : q.executed_at = r.executed_at
             /\ q.dispute_resolution_hash # {}
  <2>1. PICK r \in o : q = [r EXCEPT !.dispute_resolution_hash = {h}]
    BY <1>2 DEF WithDispute
  <2>2. r \in ReportingLayer
    BY DEF Option
  <2>3. q.executed_at = r.executed_at /\ q.dispute_resolution_hash = {h}
    BY <2>1, <2>2 DEF ReportingLayer
  <2> QED BY <2>3
<1> QED BY <1>1, <1>2

LEMMA AnchoredReport ==
    ASSUME NEW o \in Option(ReportingLayer), NEW h \in Hashes
    PROVE  /\ WithReport(o, h) = {} <=> o = {}
           /\ \A q \in WithReport(o, h) : \E r \in o :
                 /\ q.executed_at = r.executed_at
                 /\ q.dispute_resolution_hash = r.dispute_resolution_hash
<1>1. WithReport(o, h) = {} <=> o = {}
  BY DEF WithReport
<1>2. ASSUME NEW q \in WithReport(o, h)
      PROVE  \E r \in o : /\ q.executed_at = r.executed_at
                          /\ q.dispute_resolution_hash = r.dispute_resolution_hash
  <2>1. PICK r \in o : q = [r EXCEPT !.report_hash = {h}]
    BY <1>2 DEF WithReport
  <2>2. r \in ReportingLayer
    BY DEF Option
  <2>3. /\ q.executed_at = r.executed_at
        /\ q.dispute_resolution_hash = r.dispute_resolution_hash
    BY <2>1, <2>2 DEF ReportingLayer
  <2> QED BY <2>3
<1> QED BY <1>1, <1>2

LEMMA RaiseDisputeWrites ==
    ASSUME NEW id, NEW hash \in Hashes, agreements[id] \in Agreement,
           Sound(agreements[id]), RaiseDispute(id, hash)
    PROVE  \E b \in Agreement :
              Update(id, b) /\ Sound(b) /\ Evolves(agreements[id], b)
<1> DEFINE a == agreements[id]
           new == WithDispute(a.reporting, hash)
           b == [a EXCEPT !.reporting = new, !.state = "Disputed"]
<1>1. Update(id, b) /\ a.state = "Executed"
  BY DEF WithDispute, RaiseDispute
<1>2. a.reporting \in Option(ReportingLayer)
  BY DEF Agreement
<1>3. new \in Option(ReportingLayer)
  BY <1>2, ReportRewritten
<1>4. /\ new = {} <=> a.reporting = {}
      /\ \A q \in new : \E r \in a.reporting : q.executed_at = r.executed_at
      /\ \A q \in new : q.dispute_resolution_hash # {}
  BY <1>2, DisputedReport
<1> HIDE DEF new
<1>5. b \in Agreement
  BY <1>3 DEF Agreement, States
<1>6. Sound(b) /\ Evolves(a, b)
  BY <1>1, <1>4 DEF Sound, Layered, Accounted, Windowed, Recorded, Evolves, Agreement,
         PostExecution, Closed, States
<1> QED BY <1>1, <1>5, <1>6 DEF new

LEMMA ResolveDisputeWrites ==
    ASSUME NEW id, NEW hash \in Hashes, NEW settle \in BOOLEAN,
           agreements[id] \in Agreement,
           Sound(agreements[id]), ResolveDispute(id, hash, settle)
    PROVE  \E b \in Agreement :
              Update(id, b) /\ Sound(b) /\ Evolves(agreements[id], b)
<1> DEFINE a == agreements[id]
           new == WithDispute(a.reporting, hash)
           next == IF settle THEN "Settled" ELSE "Executed"
           b == [a EXCEPT !.reporting = new, !.state = next]
<1>1. Update(id, b) /\ a.state = "Disputed"
  BY DEF WithDispute, ResolveDispute
<1>2. a.reporting \in Option(ReportingLayer)
  BY DEF Agreement
<1>3. new \in Option(ReportingLayer)
  BY <1>2, ReportRewritten
<1>4. /\ new = {} <=> a.reporting = {}
      /\ \A q \in new : \E r \in a.reporting : q.executed_at = r.executed_at
  BY <1>2, DisputedReport
<1> HIDE DEF new
<1>5. next \in {"Settled", "Executed"}
  OBVIOUS
<1> HIDE DEF next
<1>6. b \in Agreement
  BY <1>3, <1>5 DEF Agreement, States
<1>7. Sound(b) /\ Evolves(a, b)
  BY <1>1, <1>4, <1>5 DEF Sound, Layered, Accounted, Windowed, Recorded, Evolves,
         Agreement, PostExecution, Closed, States
<1> QED BY <1>1, <1>6, <1>7 DEF new, next

LEMMA AnchorReportWrites ==
    ASSUME NEW id, NEW hash \in Hashes, agreements[id] \in Agreement,
           Sound(agreements[id]), AnchorReport(id, hash)
    PROVE  \E b \in Agreement :
              Update(id, b) /\ Sound(b) /\ Evolves(agreements[id], b)
<1> DEFINE a == agreements[id]
           new == WithReport(a.reporting, hash)
           b == [a EXCEPT !.reporting = new]
<1>1. Update(id, b) /\ a.reporting # {}
  BY DEF WithReport, AnchorReport
<1>2. a.reporting \in Option(ReportingLayer)
  BY DEF Agreement
<1>3. new \in Option(ReportingLayer)
  BY <1>2, ReportRewritten
<1>4. /\ new = {} <=> a.reporting = {}
      /\ \A q \in new : \E r \in a.reporting :
            /\ q.executed_at = r.executed_at
            /\ q.dispute_resolution_hash = r.dispute_resolution_hash
  BY <1>2, AnchoredReport
<1> HIDE DEF new
<1>5. \E r \in ReportingLayer : a.reporting = {r}
  BY <1>1, <1>2, OptionCases
<1>6. b \in Agreement
  BY <1>3 DEF Agreement
<1>7. Sound(b) /\ Evolves(a, b)
  BY <1>1, <1>4, <1>5 DEF Sound, Layered, Accounted, Windowed, Recorded, Evolves,
         Agreement, PostExecution, Closed, States
<1> QED BY <1>1, <1>6, <1>7 DEF new

LEMMA SetMetadataWrites ==
    ASSUME NEW id, NEW key \in MetadataKeys, agreements[id] \in Agreement,
           Sound(agreements[id]), SetMetadata(id, key)
    PROVE  \E b \in Agreement :
              Update(id, b) /\ Sound(b) /\ Evolves(agreements[id], b)
<1> DEFINE a == agreements[id]
           b == [a EXCEPT !.metadata = @ \cup {key}]
<1>1. Update(id, b)
  BY DEF WithDispute, SetMetadata
<1>2. b \in Agreement
  BY DEF Agreement
<1>3. Sound(b) /\ Evolves(a, b)
  BY DEF Sound, Layered, Accounted, Windowed, Recorded, Evolves, Agreement,
         PostExecution, Closed, States
<1> QED BY <1>1, <1>2, <1>3

-----------------------------------------------------------------------------
(* From one record to the store.                                           *)

LEMMA AgreementStepWrites ==
    ASSUME IInv, NEW id \in Ids, AgreementStep(id)
    PROVE  \E b \in Agreement :
              Update(id, b) /\ Sound(b) /\ Evolves(agreements[id], b)
<1>1. /\ agreements[id] \in Agreement
      /\ Sound(agreements[id])
      /\ now \in Timestamps
  BY DEF IInv, TypeOK
<1>2. CASE \E d \in Dids, h \in Hashes : AttestIdentity(id, d, h)
  BY <1>1, <1>2, AttestIdentityWrites
<1>3. CASE ConnectWallet(id)
  BY <1>1, <1>3, ConnectWalletWrites
<1>4. CASE \E s \in Accounts : AddSecondarySigner(id, s)
  BY <1>1, <1>4, AddSecondarySignerWrites
<1>5. CASE \E amount, locked \in Amounts : FundAndSetAsset(id, amount, locked)
  BY <1>1, <1>5, FundAndSetAssetWrites
<1>6. CASE ReleaseEscrow(id)
  BY <1>1, <1>6, ReleaseEscrowWrites
<1>7. CASE \E s \in Option(Scores), c \in Credits : AddIntegrations(id, s, c)
  BY <1>1, <1>7, AddIntegrationsWrites
<1>8. CASE RetireCarbon(id)
  BY <1>1, <1>8, RetireCarbonWrites
<1>9. CASE ExecuteAgreement(id)
  BY <1>1, <1>9, ExecuteAgreementWrites
<1>10. CASE SettleAgreement(id)
  BY <1>1, <1>10, SettleAgreementWrites
<1>11. CASE CancelAgreement(id)
  BY <1>1, <1>11, CancelAgreementWrites
<1>12. CASE \E h \in Hashes : RaiseDispute(id, h)
  BY <1>1, <1>12, RaiseDisputeWrites
<1>13. CASE \E h \in Hashes, settle \in BOOLEAN : ResolveDispute(id, h, settle)
  BY <1>1, <1>13, ResolveDisputeWrites
<1>14. CASE \E h \in Hashes : AnchorReport(id, h)
  BY <1>1, <1>14, AnchorReportWrites
<1>15. CASE \E k \in MetadataKeys : SetMetadata(id, k)
  BY <1>1, <1>15, SetMetadataWrites
<1> QED
  BY <1>2, <1>3, <1>4, <1>5, <1>6, <1>7, <1>8, <1>9, <1>10, <1>11, <1>12, <1>13,
     <1>14, <1>15 DEF AgreementStep

LEMMA EvolvesReflexive ==
    ASSUME NEW a \in Agreement PROVE Evolves(a, a)
BY DEF Evolves

\* A step that leaves the store alone.
LEMMA StoreUntouched ==
    ASSUME IInv, UNCHANGED <<agreements, agreementCount>>
    PROVE  /\ \A id \in Ids' : Sound(agreements[id])'
           /\ \A id \in Ids : Evolves(agreements[id], agreements'[id])
           /\ agreements' \in [Ids' -> Agreement]
<1>1. \A id \in Ids : Evolves(agreements[id], agreements'[id])
  BY EvolvesReflexive DEF IInv, TypeOK
<1> QED
  BY <1>1 DEF IInv, TypeOK, Ids, Sound, Layered, Accounted, Windowed, Recorded

LEMMA RegistryStaysTyped ==
    ASSUME Registry!TypeOK, Registry!Next PROVE Registry!TypeOK'
BY DEF Registry!TypeOK, Registry!Next, Registry!Register, Registry!Deactivate,
       Registry!Anchor, Registry!Revoke, Registry!DidStatuses, Registry!VcStatuses

LEMMA CreateKeeps ==
    ASSUME IInv, NEW initiator \in Accounts, NEW expiry \in Option(Timestamps),
           NEW window \in Windows, CreateAgreement(initiator, expiry, window),
           UNCHANGED <<now, didStatus, vcStatus>>
    PROVE  IInv' /\ \A id \in Ids : Evolves(agreements[id], agreements'[id])
<1> DEFINE new == [state |-> "Draft", initiator |-> initiator, expires_at |-> expiry,
                   dispute_window_end |-> {t + window : t \in expiry},
                   identity |-> {}, wallet |-> {}, asset |-> {}, integration |-> {},
                   reporting |-> {}, metadata |-> {}]
<1>1. /\ agreementCount \in Nat
      /\ agreementCount' = agreementCount + 1
      /\ agreements' = [n \in 0..agreementCount |->
                          IF n # agreementCount THEN agreements[n] ELSE new]
      /\ initiatorAgreements' =
            [initiatorAgreements EXCEPT ![initiator] = Append(@, agreementCount)]
      /\ UNCHANGED <<owner, paused, didRegistry>>
      /\ window \in Nat /\ window # 0
      /\ \A t \in expiry : t + window <= MaxTimestamp
  BY InputAssumption DEF CreateAgreement, IInv, TypeOK
<1>2. {t + window : t \in expiry} \in Option(Timestamps)
  <2>1. CASE expiry = {}
    BY <2>1, OptionNone
  <2>2. CASE \E t \in Timestamps : expiry = {t}
    <3>1. PICK t \in Timestamps : expiry = {t}
      BY <2>2
    <3>2. t + window \in Timestamps
      BY <1>1, <3>1, InputAssumption DEF Timestamps
    <3>3. {u + window : u \in expiry} = {t + window}
      BY <3>1
    <3> QED BY <3>2, <3>3, OptionSome
  <2> QED BY <2>1, <2>2, OptionCases
<1>3. new \in Agreement
  BY <1>2, OptionNone DEF Agreement, States
<1>4. Sound(new)
  <2>1. \A end \in new.dispute_window_end : \E t \in expiry : t < end
    <3> SUFFICES ASSUME NEW t \in expiry PROVE t < t + window
      OBVIOUS
    <3>1. t \in Nat
      BY InputAssumption DEF Option, Timestamps
    <3> QED BY <1>1, <3>1
  <2> QED
    BY <2>1 DEF Sound, Layered, Accounted, Windowed, Recorded, PostExecution
<1> HIDE DEF new
<1>5. Ids = 0..(agreementCount - 1) /\ Ids' = 0..agreementCount
  BY <1>1 DEF Ids
<1>6. \A n \in Ids : agreements'[n] = agreements[n]
  BY <1>1, <1>5
<1>7. /\ agreements'[agreementCount] = new
      /\ \A n \in Ids' : n \in Ids \/ n = agreementCount
  BY <1>1, <1>5
<1>8. agreements' \in [Ids' -> Agreement]
  BY <1>1, <1>3, <1>5 DEF IInv, TypeOK
<1>9. initiatorAgreements' \in [Accounts -> Seq(Nat)]
  BY <1>1 DEF IInv, TypeOK
<1>10. TypeOK'
  BY <1>1, <1>8, <1>9 DEF IInv, TypeOK, Ids, Registry!TypeOK
<1>11. \A n \in Ids' : Sound(agreements'[n])
  BY <1>4, <1>6, <1>7 DEF IInv
<1>12. \A n \in Ids : Evolves(agreements[n], agreements'[n])
  BY <1>6, EvolvesReflexive DEF IInv, TypeOK
<1> QED
  BY <1>10, <1>11, <1>12 DEF IInv, Sound, Layered, Accounted, Windowed, Recorded

\* Every step keeps the invariant and takes each agreement only where
\* Evolves lets it go.
LEMMA StepKeeps ==
    ASSUME IInv, [Next]_vars
    PROVE  IInv' /\ \A id \in Ids : Evolves(agreements[id], agreements'[id])
<1>1. CASE ContractStep /\ UNCHANGED <<now, didStatus, vcStatus>>
  <2>1. CASE \E a \in Accounts : TransferOwnership(a)
    BY <1>1, <2>1, StoreUntouched
       DEF TransferOwnership, IInv, TypeOK, Registry!TypeOK
  <2>2. CASE \E value \in BOOLEAN : SetPaused(value)
    BY <1>1, <2>2, StoreUntouched DEF SetPaused, IInv, TypeOK, Registry!TypeOK
  <2>3. CASE \E r \in Registries : SetDidRegistry(r)
    BY <1>1, <2>3, StoreUntouched, OptionSome
       DEF SetDidRegistry, IInv, TypeOK, Registry!TypeOK
  <2>4. CASE \E a \in Accounts, expiry \in Option(Timestamps), w \in Windows :
                CreateAgreement(a, expiry, w)
    BY <1>1, <2>4, CreateKeeps
  <2>5. CASE \E id \in Ids : AgreementStep(id)
    <3>1. PICK id \in Ids : AgreementStep(id)
      BY <2>5
    <3>2. PICK b \in Agreement :
             Update(id, b) /\ Sound(b) /\ Evolves(agreements[id], b)
      BY <3>1, AgreementStepWrites
    <3>3. /\ agreements' = [agreements EXCEPT ![id] = b]
          /\ UNCHANGED <<owner, paused, didRegistry, agreementCount, initiatorAgreements>>
          /\ agreements \in [Ids -> Agreement]
          /\ Ids' = Ids
      BY <3>2 DEF Update, IInv, TypeOK, Ids
    <3>4. TypeOK'
      BY <1>1, <3>3 DEF IInv, TypeOK, Registry!TypeOK
    <3>5. \A n \in Ids : agreements'[n] = IF n = id THEN b ELSE agreements[n]
      BY <3>3
    <3>6. \A n \in Ids : Evolves(agreements[n], agreements'[n])
      BY <3>2, <3>3, <3>5, EvolvesReflexive
    <3>7. \A n \in Ids' : Sound(agreements'[n])
      BY <3>2, <3>3, <3>5 DEF IInv
    <3> QED
      BY <3>4, <3>6, <3>7 DEF IInv, Sound, Layered, Accounted, Windowed, Recorded
  <2> QED BY <1>1, <2>1, <2>2, <2>3, <2>4, <2>5 DEF ContractStep
<1>2. CASE Registry!Next /\ UNCHANGED <<contractVars, now>>
  <2>1. Registry!TypeOK'
    BY <1>2, RegistryStaysTyped DEF IInv, TypeOK
  <2> QED BY <1>2, <2>1, StoreUntouched DEF IInv, TypeOK, contractVars
<1>3. CASE Tick /\ UNCHANGED <<contractVars, didStatus, vcStatus>>
  <2>1. now' \in Timestamps
    BY <1>3, InputAssumption DEF Tick, IInv, TypeOK, Timestamps
  <2> QED
    BY <1>3, <2>1, StoreUntouched DEF IInv, TypeOK, contractVars, Registry!TypeOK
<1>4. CASE UNCHANGED vars
  BY <1>4, StoreUntouched DEF IInv, TypeOK, vars, contractVars, Registry!TypeOK
<1> QED BY <1>1, <1>2, <1>3, <1>4 DEF Next

LEMMA InitEstablishes == Init => IInv
<1> SUFFICES ASSUME Init PROVE IInv
  OBVIOUS
<1>1. Ids = {}
  BY DEF Init, Ids
<1>2. agreements \in [Ids -> Agreement]
  BY <1>1 DEF Init
<1>3. Registry!TypeOK
  BY DEF Init, Registry!Init, Registry!TypeOK, Registry!DidStatuses, Registry!VcStatuses
<1>4. initiatorAgreements \in [Accounts -> Seq(Nat)]
  BY DEF Init
<1>5. /\ owner \in Accounts /\ paused \in BOOLEAN /\ agreementCount \in Nat
      /\ didRegistry \in Option(Registries)
  BY OptionNone DEF Init
<1>6. now \in Timestamps
  BY InputAssumption DEF Init, Timestamps
<1> QED
  BY <1>1, <1>2, <1>3, <1>4, <1>5, <1>6 DEF IInv, TypeOK

\* The inductive invariant holds of every behaviour.
THEOREM Invariance == Spec => []IInv
<1>1. IInv /\ [Next]_vars => IInv'
  BY StepKeeps
<1> QED BY <1>1, InitEstablishes, PTL DEF Spec

\* The state keeps its type, however many agreements there are.
THEOREM TypeCorrect == Spec => []TypeOK
<1>1. IInv => TypeOK
  BY DEF IInv
<1> QED BY <1>1, Invariance, PTL

\* An agreement carries a report exactly when it was executed, and then has
\* its identity, wallet and asset layers.
THEOREM LayersAlwaysComplete == Spec => []LayersComplete
<1>1. IInv => LayersComplete
  BY DEF IInv, Sound, Layered, LayersComplete
<1> QED BY <1>1, Invariance, PTL

\* Collateral is held exactly from funding on, is never over-locked, and is
\* released only after settlement.
THEOREM CollateralAlwaysAccounted == Spec => []CollateralAccounted
<1>1. IInv => CollateralAccounted
  BY DEF IInv, Sound, Accounted, CollateralAccounted
<1> QED BY <1>1, Invariance, PTL

\* The dispute window of an agreement that expires ends after its execution.
THEOREM WindowAlwaysOutlivesExecution == Spec => []WindowOutlivesExecution
<1>1. IInv => WindowOutlivesExecution
  <2> SUFFICES ASSUME IInv, NEW id \in Ids, NEW r \in agreements[id].reporting,
                      NEW end \in agreements[id].dispute_window_end
               PROVE  r.executed_at < end
    BY DEF WindowOutlivesExecution
  <2>1. agreements[id] \in Agreement /\ Windowed(agreements[id])
    BY DEF IInv, TypeOK, Sound
  <2>2. PICK t \in agreements[id].expires_at : t < end
    BY <2>1 DEF Windowed
  <2>3. r.executed_at <= t
    BY <2>1 DEF Windowed
  <2>4. r \in ReportingLayer /\ t \in Timestamps /\ end \in Timestamps
    BY <2>1 DEF Agreement, Option
  <2>5. r.executed_at \in Timestamps
    BY <2>4 DEF ReportingLayer
  <2> QED BY <2>2, <2>3, <2>4, <2>5, InputAssumption DEF Timestamps
<1> QED BY <1>1, Invariance, PTL

\* A disputed agreement has the dispute on its report.
THEOREM DisputesAlwaysRecorded == Spec => []DisputesRecorded
<1>1. IInv => DisputesRecorded
  BY DEF IInv, Sound, Recorded, DisputesRecorded
<1> QED BY <1>1, Invariance, PTL

-----------------------------------------------------------------------------
(* Action properties: each is a part of Evolves.                           *)

\* Funding freezes the amounts and the identity.
THEOREM FundingAlwaysFreezesTerms == Spec => FundingFreezesTerms
<1>1. IInv /\ [Next]_vars =>
        [\A id \in Ids : \A s \in agreements[id].asset :
            /\ agreements'[id].identity = agreements[id].identity
            /\ \E t \in agreements'[id].asset :
                  t.amount = s.amount /\ t.locked_amount = s.locked_amount]_vars
  BY StepKeeps DEF Evolves
<1> QED BY <1>1, Invariance, PTL DEF Spec, FundingFreezesTerms

\* A settled or cancelled agreement stays so, and released escrow stays out.
THEOREM ClosedIsAlwaysFinal == Spec => ClosedIsFinal
<1>1. IInv /\ [Next]_vars =>
        [\A id \in Ids :
            /\ agreements[id].state \in Closed =>
                  agreements'[id].state = agreements[id].state
            /\ \A s \in agreements[id].asset : s.escrow_released =>
                  \E t \in agreements'[id].asset : t.escrow_released]_vars
  BY StepKeeps DEF Evolves
<1> QED BY <1>1, Invariance, PTL DEF Spec, ClosedIsFinal

\* Settlement is reached from an executed agreement after its window and in
\* compliance, or through a resolved dispute.
THEOREM SettlementAlwaysFollowsPath == Spec => SettlementPath
<1>1. IInv /\ [Next]_vars =>
        [\A id \in Ids :
            LET a == agreements[id] IN
            a.state # "Settled" /\ agreements'[id].state = "Settled" =>
                \/ a.state = "Disputed"
                \/ /\ a.state = "Executed"
                   /\ \A end \in a.dispute_window_end : now >= end
                   /\ CheckCompliance(a)]_vars
  BY StepKeeps DEF Evolves
<1> QED BY <1>1, Invariance, PTL DEF Spec, SettlementPath

\* A funded agreement past its expiry never moves again.
THEOREM ExpiredFundedAlwaysStuck == Spec => ExpiredFundedIsStuck
<1>1. IInv /\ [Next]_vars =>
        [\A id \in Ids :
            agreements[id].state = "Funded" /\ ~NotExpired(agreements[id]) =>
                /\ agreements'[id].state = "Funded"
                /\ agreements'[id].asset = agreements[id].asset]_vars
  BY StepKeeps DEF Evolves
<1> QED BY <1>1, Invariance, PTL DEF Spec, ExpiredFundedIsStuck

=============================================================================

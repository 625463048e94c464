------------------------------ MODULE Payments ------------------------------
(* Payments, claimable balances, trustlines and x402 purchases of one Stellar *)
(* account, as the pay, claimable, asset and pool commands and the handlers   *)
(* of the MCP server run them.                                                *)
(*                                                                            *)
(* A command is a list of steps, each one call to Horizon, the wallet or a    *)
(* resource server, or one decision, and ends at its first error.  Between    *)
(* two steps other people and the account's owner change the account, a       *)
(* transaction whose answer was lost lands or expires, and a signed x402      *)
(* authorization is settled or expires.  A claimable balance is one unit;     *)
(* fees, memos, proofs, scores and prices are left out.                       *)
EXTENDS Integers, Sequences, FiniteSets, SequencesExt

CONSTANTS
    Issued,         \* assets with an issuer
    Namesakes,      \* those of them whose code is XLM as well
    Claims,         \* claimable balances that can appear, see AssetOf
    AssetOf,        \* [Claims -> Issued \cup {Native}]
    Holding,        \* units of the native asset the account starts with
    Prices,         \* what an x402 resource may ask
    Wallets,        \* what the wallet of the payer may be, see WalletState
    MaxCommands, MaxOutside, MaxFaults

Native      == "XLM"
None        == 0
Assets      == Issued \cup {Native}
WalletState == {"key", "locked", "external"}

ASSUME PaymentAssumptions ==
    /\ Native \notin Issued /\ Namesakes \subseteq Issued /\ None \notin Claims
    /\ AssetOf \in [Claims -> Assets] /\ Wallets \subseteq WalletState
    /\ {Holding, MaxCommands, MaxOutside, MaxFaults} \subseteq Nat /\ Prices \subseteq Nat \ {0}
    /\ IsFiniteSet(Issued) /\ IsFiniteSet(Claims)

VARIABLES
    account,    \* on the ledger: units held, trustlines, sequence number, and
                \* the claims it may take now (condition met, room on a line
                \* that is not frozen) and those whose sponsor can be paid back
    claims,     \* claimable balances that wait for the account
    flying,     \* transactions submitted whose fate is open
    landed,     \* transactions the ledger has carried out
    wallet,     \* the payer in the wallet registry
    signed,     \* x402 authorizations a server has been given and can settle
    settled,    \* those that were settled
    job,        \* the command that is running
    report,     \* how the last command ended
    files,      \* state files payment_latest, zk_verification_latest, asset_latest, x402_latest
    spent       \* commands, outside events and faults so far

ledger == <<account, claims, flying, landed>>
x402   == <<signed, settled>>
vars   == <<ledger, wallet, x402, job, report, files, spent>>

Fake  == -1         \* a hash made up by the program
NoCap == 0
Fresh == [how |-> "none", steps |-> <<>>, wallet |-> "key", torn |-> FALSE, seq |-> 0, trusts |-> {}, list |-> {},
          read |-> <<>>, tx |-> None, price |-> 0, cap |-> NoCap]
Idle  == job.steps = <<>>
Next1 == Head(job.steps)

Spend(what) == spent' = [spent EXCEPT ![what] = @ + 1]
Limit == [commands |-> MaxCommands, outside |-> MaxOutside, faults |-> MaxFaults]
May(what) == spent[what] < Limit[what]
------------------------------------------------------------------------------
(* Commands.                                                                  *)

Do(step) == <<[do |-> step]>>
Command(how, steps) == [Fresh EXCEPT !.how = how, !.steps = steps]
\* The seed of the payer; without one, what is done instead.
Key(instead) == <<[do |-> "key", instead |-> instead]>>
NeedsKey     == Key(<<>>)
Submit(ops)  == Do("account") \o <<[do |-> "submit", ops |-> ops]>>

Pay(a, n)      == [op |-> "pay", asset |-> a, units |-> n, claim |-> None]
Claim(c)       == [op |-> "claim", asset |-> AssetOf[c], units |-> 1, claim |-> c]
ChangeTrust(a) == [op |-> "trust", asset |-> a, units |-> 0, claim |-> None]
Untrust(a)     == [op |-> "untrust", asset |-> a, units |-> 0, claim |-> None]
\* A decline pays back by code: lumens for every asset that is called XLM.
PaidBack(a)    == IF a \in Namesakes THEN Native ELSE a
Return(c, n)   == [op |-> "pay", asset |-> PaidBack(AssetOf[c]), units |-> n, claim |-> c]

\* pay send: each rail, its simulation, and the receipt.
Simulated == Do("fake")
PayDirect(a) ==
    Key(Simulated) \o (IF a = Native THEN Submit(<<Pay(Native, 1)>>) ELSE Do("account") \o Simulated)
ZKSimulated == Do("fake") \o Do("zkfile")
\* The verification is a payment of one lumen to the recipient.
BuildZKTransaction == Submit(<<Pay(Native, 1), Pay(Native, 1)>>)
PayZK(a) ==
    Key(ZKSimulated) \o Do("prove")
    \o (IF a = Native THEN BuildZKTransaction \o Do("zkfile") ELSE Do("account") \o ZKSimulated)
PaySwap  == Key(Simulated) \o Do("quote") \o Submit(<<Pay(Native, 1)>>)
PayTempo == Do("confirm") \o Do("fake")
PaySend ==
    {Command("direct", PayDirect(a) \o Do("receipt")) : a \in Assets}
    \cup {Command("zk", PayZK(a) \o Do("receipt")) : a \in Assets}
    \cup {Command("swap", PaySwap \o Do("receipt")), Command("tempo", PayTempo \o Do("receipt"))}
PayZKCmd == {Command("zk", Do("confirm") \o PayZK(Native) \o Do("receipt"))}

\* x402: a request, and one paid retry.
Fetch(dry) ==
    NeedsKey \o Do("request") \o Do("cap") \o Do("sign") \o (IF dry THEN <<>> ELSE Do("retry")) \o Do("x402file")
PayX402 == {[Command(IF dry THEN "dry run" ELSE "x402", Fetch(dry)) EXCEPT !.cap = cap] : dry \in BOOLEAN, cap \in {NoCap} \cup Prices}
HandlePayX402 ==
    {[Command(IF dry THEN "dry run" ELSE "x402", Front(Fetch(dry))) EXCEPT !.cap = cap] : dry \in BOOLEAN, cap \in {NoCap} \cup Prices}

\* Claimable balances.  The commands count what they list; the service lists again.
AcceptClaimableBalance(c) == NeedsKey \o Submit(<<Claim(c)>>)
AcceptAllClaimableBalances == Do("claims") \o NeedsKey \o Do("account") \o Do("submit-all")
DeclineClaimableBalance(c, n) ==
    NeedsKey \o Do("account") \o <<[do |-> "find", claim |-> c]>>
    \o <<[do |-> "submit", ops |-> <<Claim(c), Return(c, n)>>]>>
DeclineAllClaimableBalances ==
    Do("claims") \o NeedsKey \o Do("account") \o Do("filter") \o Do("submit-all")
ClaimableList == {Command("list", Do("count"))}
Accept     == {Command("accept", AcceptClaimableBalance(c)) : c \in Claims}
Decline    == {Command("decline", Do("confirm") \o DeclineClaimableBalance(c, n)) : c \in Claims, n \in 1..2}
AcceptAll  == {Command("accept-all", Do("count") \o Do("confirm") \o AcceptAllClaimableBalances)}
DeclineAll == {Command("decline-all", Do("count") \o Do("confirm") \o DeclineAllClaimableBalances)}

\* Assets.  The receipt of a new asset carries a hash made up by the program.
DeploySAC                 == Submit(<<>>)
CreateFungibleAsset       == DeploySAC \o Do("fake")
CreateNonFungibleAsset    == Do("fake")
CreateTrustline(a)        == NeedsKey \o Submit(<<ChangeTrust(a)>>)
RemoveTrustline(a)        == NeedsKey \o Submit(<<Untrust(a)>>)
RemoveTrustlinesBatch(as) == NeedsKey \o Submit(SetToSeq({Untrust(a) : a \in as}))
AssetCreateFT  == {Command("create", NeedsKey \o CreateFungibleAsset \o Do("assetfile"))}
AssetCreateNFA == {Command("create", CreateNonFungibleAsset \o Do("assetfile"))}
AssetTrust     == {Command("trust", CreateTrustline(a)) : a \in Issued}
AssetUntrust   ==
    {Command("untrust", Do("confirm") \o RemoveTrustline(a)) : a \in Issued}
    \cup {Command("untrust", Do("confirm") \o RemoveTrustlinesBatch(as)) : as \in SUBSET Issued \ {{}}}

Commands ==
    PaySend \cup PayZKCmd \cup PayX402 \cup HandlePayX402
    \cup ClaimableList \cup Accept \cup Decline \cup AcceptAll \cup DeclineAll
    \cup AssetCreateFT \cup AssetCreateNFA \cup AssetTrust \cup AssetUntrust
------------------------------------------------------------------------------
(* The ledger: a transaction is carried out whole or not at all.              *)

Trusted(st, a) == a = Native \/ a \in st.trusts
Possible(st, op) ==
    CASE op.op = "pay"     ->
            /\ Trusted(st, op.asset) /\ st.held[op.asset] >= op.units
            /\ op.claim = None \/ op.claim \in account.returnable
      [] op.op = "claim"   -> op.claim \in st.claims \cap account.ready /\ Trusted(st, op.asset)
      [] op.op = "trust"   -> TRUE
      [] op.op = "untrust" -> Trusted(st, op.asset) /\ st.held[op.asset] = 0
After(st, op) ==
    CASE op.op = "pay"     -> [st EXCEPT !.held[op.asset] = @ - op.units]
      [] op.op = "claim"   -> [st EXCEPT !.held[op.asset] = @ + 1, !.claims = @ \ {op.claim}]
      [] op.op = "trust"   -> [st EXCEPT !.trusts = @ \cup {op.asset}]
      [] op.op = "untrust" -> [st EXCEPT !.trusts = @ \ {op.asset}]
Perform(st, op) == IF st.ok /\ Possible(st, op) THEN After(st, op) ELSE [st EXCEPT !.ok = FALSE]
Before == [ok |-> TRUE, held |-> account.held, trusts |-> account.trusts, claims |-> claims]
Execute(ops) ==
    LET run[n \in 0..Len(ops)] == IF n = 0 THEN Before ELSE Perform(run[n - 1], ops[n])
    IN  run[Len(ops)]
InSequence(t) == t.seq = account.seq + 1

\* Included, and carried out or failed for the fee.
Include(t) ==
    LET st == Execute(t.ops)
    IN  IF st.ok
        THEN /\ account' = [account EXCEPT !.held = st.held, !.trusts = st.trusts, !.seq = t.seq]
             /\ claims' = st.claims
             /\ landed' = landed \cup {[id |-> t.id, how |-> t.how]}
        ELSE account' = [account EXCEPT !.seq = t.seq] /\ UNCHANGED <<claims, landed>>
Land(t) ==
    /\ InSequence(t)
    /\ Include(t)
    /\ flying' = flying \ {t}
    /\ UNCHANGED <<wallet, x402, job, report, files, spent>>
Expire(t) ==
    /\ flying' = flying \ {t}
    /\ UNCHANGED <<account, claims, landed, wallet, x402, job, report, files, spent>>

\* An authorization is good for one transfer before its last ledger.
SettleX402(auth) ==
    /\ account.held[Native] >= auth.price
    /\ account' = [account EXCEPT !.held[Native] = @ - auth.price]
    /\ settled' = settled \cup {auth} /\ signed' = signed \ {auth}
    /\ UNCHANGED <<claims, flying, landed, wallet, job, report, files, spent>>
ExpireX402(auth) ==
    /\ signed' = signed \ {auth}
    /\ UNCHANGED <<ledger, wallet, settled, job, report, files, spent>>

\* What happens elsewhere: balances offered and withdrawn, conditions of a
\* claim met or missed and sponsors ready or not for a return, trustlines and
\* sequence numbers used by another wallet program, the session locked.
Toggle(S, c) == IF c \in S THEN S \ {c} ELSE S \cup {c}
Outside ==
    /\ May("outside") /\ Spend("outside")
    /\ \/ /\ \E c \in Claims : claims' = Toggle(claims, c)
          /\ UNCHANGED <<account, wallet>>
       \/ /\ \E a \in Issued :
               /\ account.held[a] = 0
               /\ account' = [account EXCEPT !.seq = @ + 1, !.trusts = Toggle(@, a)]
          /\ UNCHANGED <<claims, wallet>>
       \/ /\ \E c \in Claims :
               account' \in {[account EXCEPT !.ready = Toggle(@, c)], [account EXCEPT !.returnable = Toggle(@, c)]}
          /\ UNCHANGED <<claims, wallet>>
       \/ /\ wallet' = IF wallet = "key" THEN "locked" ELSE wallet
          /\ UNCHANGED <<account, claims>>
    /\ UNCHANGED <<flying, landed, x402, job, report, files>>
------------------------------------------------------------------------------
(* How a command goes on.                                                     *)

World == <<account.trusts, claims, account.seq>>
\* The list has a claim that cannot be taken or paid back, or is paid back in
\* another asset: nothing the trustlines tell.
Hindered(j) == \E c \in j.list : c \notin account.ready \cap account.returnable \/ AssetOf[c] \in Namesakes
Outcome(j, result) ==
    [how |-> j.how, result |-> result, tx |-> j.tx, wallet |-> j.wallet, torn |-> j.torn,
     read |-> j.read, found |-> World, hindered |-> Hindered(j)]
End(result) == report' = Outcome(job, result) /\ job' = Fresh
Advance(j) ==
    IF Len(j.steps) = 1
    THEN report' = Outcome(j, "done") /\ job' = Fresh
    ELSE job' = [j EXCEPT !.steps = Tail(@)] /\ UNCHANGED report
\* The rest of the command after a simulation: the receipt.
Instead(steps) == [job EXCEPT !.steps = <<Next1>> \o steps \o <<Last(@)>>]

\* A call to Horizon, a Soroban server or a resource server fails.
CallFails ==
    /\ May("faults") /\ Spend("faults")
    /\ End("error")
    /\ UNCHANGED <<ledger, wallet, x402, files>>

\* Variant: a payment without a seed is simulated, whatever the reason.
SimulateAnyway ==
    /\ Next1.do = "key"
    /\ IF wallet = "key" THEN Advance([job EXCEPT !.wallet = wallet])
       ELSE IF Next1.instead # <<>> THEN Advance([Instead(Next1.instead) EXCEPT !.wallet = wallet]) ELSE End("no key")
    /\ UNCHANGED <<ledger, wallet, x402, files, spent>>
\* LoadStellarKeypairForAddress, and isProtectedWallet when it fails.  When the
\* registry cannot be read no wallet is protected.
LoadKey ==
    /\ Next1.do = "key"
    /\ \/ /\ wallet = "key" /\ Advance([job EXCEPT !.wallet = wallet]) /\ UNCHANGED spent
       \/ /\ wallet = "locked" /\ End("locked") /\ UNCHANGED spent
       \/ /\ wallet = "external"
          /\ IF Next1.instead = <<>> THEN End("no key") ELSE Advance([Instead(Next1.instead) EXCEPT !.wallet = wallet])
          /\ UNCHANGED spent
       \/ /\ May("faults") /\ Spend("faults")
          /\ IF Next1.instead = <<>> THEN End("no key")
             ELSE Advance([Instead(Next1.instead) EXCEPT !.wallet = wallet, !.torn = TRUE])
    /\ UNCHANGED <<ledger, wallet, x402, files>>

AccountDetail ==
    /\ Next1.do = "account"
    /\ Advance([job EXCEPT !.seq = account.seq, !.trusts = account.trusts])
    /\ UNCHANGED <<ledger, wallet, x402, files, spent>>
ListClaimableBalances ==
    /\ \/ Next1.do = "count"  /\ (IF claims = {} THEN End("nothing to do") ELSE Advance(job))
       \/ Next1.do = "claims" /\ (IF claims = {} THEN End("done") ELSE Advance([job EXCEPT !.list = claims, !.read = World]))
       \/ Next1.do = "find"   /\ (IF Next1.claim \notin claims THEN End("not found") ELSE Advance(job))
    /\ UNCHANGED <<ledger, wallet, x402, files, spent>>
\* Claims of assets the account has no trustline for are skipped.
SkipUntrusted ==
    /\ Next1.do = "filter"
    /\ LET kept == {c \in job.list : Trusted(job, AssetOf[c])}
       IN  IF kept = {} THEN End("done") ELSE Advance([job EXCEPT !.list = kept])
    /\ UNCHANGED <<ledger, wallet, x402, files, spent>>
\* The user may decline, a proof may fail, a quote may not be found.
Decide ==
    /\ Next1.do \in {"confirm", "prove", "quote"}
    /\ Advance(job) \/ End("not executed")
    /\ UNCHANGED <<ledger, wallet, x402, files, spent>>
MakeUpHash ==
    /\ Next1.do = "fake"
    /\ Advance([job EXCEPT !.tx = Fake])
    /\ UNCHANGED <<ledger, wallet, x402, files, spent>>
\* With --output json no receipt is left.
SaveState ==
    /\ \/ Next1.do = "zkfile"    /\ files' = [files EXCEPT !.zk = job.tx]
       \/ Next1.do = "receipt"   /\ files' \in {files, [files EXCEPT !.payment = job.tx]}
       \/ Next1.do = "assetfile" /\ files' \in {files, [files EXCEPT !.asset = Fake]}
       \/ Next1.do = "x402file"  /\ files' = [files EXCEPT !.x402 = job.price]
    /\ Advance(job)
    /\ UNCHANGED <<ledger, wallet, x402, spent>>
------------------------------------------------------------------------------
(* Submissions.                                                               *)

\* Variant: the sponsor is not paid back.
SponsorForgotten(j) == LET order == SetToSeq(j.list) IN [i \in 1..Len(order) |-> Claim(order[i])]
\* Each claim is taken and its asset paid back before the next one.
DeclineOps(order) ==
    [i \in 1..(2 * Len(order)) |->
        IF i % 2 = 1 THEN Claim(order[(i + 1) \div 2]) ELSE Return(order[i \div 2], 1)]
AcceptOps(order) == [i \in 1..Len(order) |-> Claim(order[i])]
BatchOps(j) ==
    IF j.how = "decline-all" THEN DeclineOps(SetToSeq(j.list)) ELSE AcceptOps(SetToSeq(j.list))
Tx == [id |-> spent.txs + 1, how |-> job.how, seq |-> job.seq + 1,
       ops |-> IF Next1.do = "submit-all" THEN BatchOps(job) ELSE Next1.ops]
Submitted(t) == [job EXCEPT !.tx = t.id]

Answered(t) ==
    /\ InSequence(t)
    /\ Include(t)
    /\ IF Execute(t.ops).ok THEN Advance(Submitted(t)) ELSE End("refused")
    /\ Spend("txs")
    /\ UNCHANGED flying
BadSequence(t) ==
    /\ ~InSequence(t)
    /\ End("refused")
    /\ Spend("txs")
    /\ UNCHANGED ledger
\* No answer, or a timeout of Horizon.  The error of a timeout has no result
\* codes, and the direct and zk rails look at them all the same.
Lost(t) ==
    /\ May("faults")
    /\ flying' = flying \cup {t}
    /\ \/ End("no answer")
       \/ job.how \in {"direct", "zk"} /\ End("panic")
    /\ spent' = [spent EXCEPT !.txs = @ + 1, !.faults = @ + 1]
    /\ UNCHANGED <<account, claims, landed>>
SubmitTransaction ==
    /\ Next1.do \in {"submit", "submit-all"}
    /\ LET t == Tx IN Answered(t) \/ BadSequence(t) \/ Lost(t)
    /\ UNCHANGED <<wallet, x402, files>>
------------------------------------------------------------------------------
(* x402.  The resource server answers as it likes.                            *)

\* 200 ends the command without a payment, 402 asks for one.
FirstRequest ==
    /\ Next1.do = "request"
    /\ \/ \E price \in Prices : Advance([job EXCEPT !.price = price])
       \/ Advance([job EXCEPT !.steps = <<Next1>> \o (IF Last(@).do = "x402file" THEN <<Last(@)>> ELSE <<>>)])
       \/ End("bad challenge")
    /\ UNCHANGED <<ledger, wallet, x402, files, spent>>
WithinCap ==
    /\ Next1.do = "cap"
    /\ IF job.cap # NoCap /\ job.price > job.cap THEN End("above cap") ELSE Advance(job)
    /\ UNCHANGED <<ledger, wallet, x402, files, spent>>
\* Variant: the entry of the simulation is signed unseen.
SignUnseen(entry) == entry \in Nat
\* The authorization must be for the price, asset and parties that were accepted.
ValidTransferAuthEntry(entry) == entry = job.price
\* The transfer is simulated, its authorization signed, and simulated again.
BuildTransferTransaction ==
    /\ Next1.do = "sign"
    /\ \E entry \in Prices :
        CASE account.held[Native] < job.price   -> End("simulation failed")
          [] ~ValidTransferAuthEntry(entry)     -> End("unexpected authorization")
          [] OTHER                              -> Advance([job EXCEPT !.price = entry])
    /\ UNCHANGED <<ledger, wallet, x402, files, spent>>
Auth == [command |-> spent.commands, price |-> job.price, cap |-> job.cap, how |-> job.how, nonce |-> spent.nonces + 1]
\* The server has the authorization, whatever it answers.
HandOver == signed' = signed \cup {Auth} /\ Spend("nonces")
\* Variant: a second demand is paid as well.
PayAgain ==
    /\ Next1.do = "retry"
    /\ HandOver
    /\ \/ Advance(job)
       \/ End("rejected")
       \/ spent.nonces < 1 /\ (\E price \in Prices : job' = [job EXCEPT !.price = price]) /\ UNCHANGED report
    /\ UNCHANGED <<ledger, wallet, settled, files>>
\* Paid for, refused again, failed after the payment, or no answer at all.
PaidRetry ==
    /\ Next1.do = "retry"
    /\ HandOver
    /\ Advance(job) \/ End("rejected") \/ End("failed after payment") \/ End("no answer")
    /\ UNCHANGED <<ledger, wallet, settled, files>>
------------------------------------------------------------------------------
Start ==
    /\ Idle /\ May("commands") /\ Spend("commands")
    /\ job' \in Commands
    /\ UNCHANGED <<ledger, wallet, x402, report, files>>
Calls == {"account", "count", "claims", "find", "request", "sign", "submit", "submit-all"}
Step ==
    /\ ~Idle
    /\ \/ LoadKey \/ AccountDetail \/ ListClaimableBalances \/ SkipUntrusted \/ Decide \/ MakeUpHash \/ SaveState
       \/ SubmitTransaction \/ FirstRequest \/ WithinCap \/ BuildTransferTransaction \/ PaidRetry
       \/ Next1.do \in Calls /\ CallFails
Settle ==
    \/ \E t \in flying : Land(t) \/ Expire(t)
    \/ \E auth \in signed : SettleX402(auth) \/ ExpireX402(auth)

Init ==
    /\ \E trusts \in SUBSET Issued :
        account = [held |-> [a \in Assets |-> IF a = Native THEN Holding ELSE 0], trusts |-> trusts, seq |-> 0,
                   ready |-> Claims, returnable |-> Claims]
    /\ claims = Claims /\ wallet \in Wallets
    /\ flying = {} /\ landed = {} /\ signed = {} /\ settled = {}
    /\ job = Fresh /\ report = [how |-> "none", result |-> "none", tx |-> None, wallet |-> "key", torn |-> FALSE, read |-> <<>>, found |-> <<>>, hindered |-> FALSE]
    /\ files = [payment |-> None, zk |-> None, asset |-> None, x402 |-> None]
    /\ spent = [commands |-> 0, outside |-> 0, faults |-> 0, txs |-> 0, nonces |-> 0]
Next == Start \/ Step \/ Settle \/ Outside

Spec == Init /\ [][Next]_vars
------------------------------------------------------------------------------
(* Properties.                                                                *)

OnLedger == {t.id : t \in landed}

\* The types of the variables.
TypeOK ==
    /\ account.held \in [Assets -> Nat] /\ account.trusts \subseteq Issued /\ account.seq \in Nat
    /\ account.ready \subseteq Claims /\ account.returnable \subseteq Claims
    /\ claims \subseteq Claims /\ OnLedger \subseteq 1..spent.txs /\ wallet \in WalletState
    /\ \A t \in flying : t.id \in 1..spent.txs /\ t.seq \in Nat
    /\ files.payment \in Nat \cup {Fake} /\ files.zk \in Nat \cup {Fake}

\* "Payment confirmed on-ledger": every command that ends well with a hash it
\* did not make up has had that transaction carried out, and so has the payment,
\* and the proof, kept for the reports.
ConfirmedIsOnLedger ==
    /\ report.result = "done" => report.tx \in OnLedger \cup {None, Fake}
    /\ {files.payment, files.zk} \subseteq OnLedger \cup {None, Fake}

\* "A protected wallet that is locked must surface the unlock error": its
\* payments are never simulated, unless the registry could not be read.
LockedNeverSimulated ==
    report.how \in {"direct", "zk", "swap"} /\ report.tx = Fake /\ report.wallet = "locked" => report.torn

\* decline-all skips the claims of assets without a trustline, so the ledger
\* refuses the batch only when claims, trustlines or the sequence number changed
\* after the list was read, or for what the filter does not look at: a claim
\* that cannot be taken yet, a sponsor who cannot be paid back, an issued XLM.
DeclinesWhatItCan ==
    report.how = "decline-all" /\ report.result = "refused" /\ ~report.hindered => report.read # report.found

\* What a command reports, and what made it end that way, is so.
ReportsTrue == TypeOK /\ ConfirmedIsOnLedger /\ LockedNeverSimulated /\ DeclinesWhatItCan

\* "This will claim all balances and return them to their sponsors": a batch
\* that declines leaves the holdings as they were.
DeclineReturns ==
    [][\A t \in landed' \ landed : t.how = "decline-all" => account'.held = account.held]_vars

\* What decline-all does, also when the batch lands after its answer was lost:
\* every other holding stays, and lumens are spent just when an issued XLM was
\* kept, for which they are paid.
PaidByCode(before, after) ==
    /\ \A a \in Issued \ Namesakes : after[a] = before[a]
    /\ \A a \in Namesakes : after[a] >= before[a]
    /\ after[Native] <= before[Native]
    /\ after[Native] < before[Native] <=> \E a \in Namesakes : after[a] > before[a]
DeclinePaysByCode ==
    [][\A t \in landed' \ landed : t.how = "decline-all" => PaidByCode(account.held, account'.held)]_vars

\* However the server answers, one fetch pays at most once, never in a dry run
\* and never more than the user's cap.
OnePaymentPerFetch ==
    /\ \A p, q \in settled : p.command = q.command => p = q
    /\ \A p \in settled : p.how = "x402" /\ (p.cap # NoCap => p.price <= p.cap)

=============================================================================

--------------------------- MODULE SorobanClients ---------------------------
(* The did, contract, report, network and Tansu commands: terminals of one    *)
(* user that call the DID registry and the agreement contract through a       *)
(* Soroban server, and keep what they learn in config.json and state files.   *)
(*                                                                            *)
(* A command is a list of steps.  It loads the whole of config.json when it   *)
(* starts, works on its copy, and writes the whole back.  A transaction is    *)
(* simulated, sent, and polled for until the context of the command ends;     *)
(* the ledger carries it out, fails it or never sees it.  Contract state is   *)
(* cut down to what decides whether a call is accepted: DIDRegistry and       *)
(* OrchestratedAgreement have the contracts in full.                          *)
EXTENDS Integers, Sequences, FiniteSets

CONSTANTS
    Terminals,      \* processes of the command line, all on one account
    MaxDids,        \* DIDs with a key of their own; the wallet's did:soroban comes first
    MaxContracts,   \* instances of the agreement contract, 1 is there at first
    MaxAgreements,  \* agreements a contract can hold
    MaxCommands, MaxOthers, MaxFaults, MaxKills

ASSUME ClientAssumptions ==
    /\ {MaxDids, MaxCommands, MaxOthers, MaxFaults, MaxKills} \subseteq Nat
    /\ {MaxContracts, MaxAgreements} \subseteq Nat \ {0}

VARIABLES
    chain,      \* the registry, the agreement contracts, the account's sequence number
    flying,     \* transactions the network has accepted
    landed,     \* [tx, op, made]: those carried out, and the agreement or contract made
    failed,     \* those that were included and failed
    config,     \* config.json
    files,      \* state files vc_latest, did_<method>, report_latest
    jobs,       \* [Terminals -> the command that is running there]
    told,       \* [tx, result]: what the user was told of each transaction
    spent       \* commands, calls of others, faults, kills, transactions, keys; whether commands overlapped or were killed

disk   == <<config, files>>
ledger == <<chain, flying, landed, failed>>
vars   == <<ledger, disk, jobs, told, spent>>

None == 0
WalletDID == 1
Dids == 1..(MaxDids + 1)
Contracts == 1..MaxContracts
DefaultConfig == [network |-> "testnet", did |-> None, contract |-> None, registry |-> FALSE, agreements |-> {}, last |-> None]
Torn == [DefaultConfig EXCEPT !.network = "torn"]
Idle(p) == jobs[p].steps = <<>>
Fresh == [steps |-> <<>>, cfg |-> DefaultConfig, did |-> None, tx |-> [id |-> None], queued |-> TRUE]
Next1(p) == Head(jobs[p].steps)
May(what) == spent[what] < [commands |-> MaxCommands, others |-> MaxOthers, faults |-> MaxFaults, kills |-> MaxKills][what]
Spend(what) == spent' = [spent EXCEPT ![what] = @ + 1]
------------------------------------------------------------------------------
(* Commands.                                                                  *)

Do(step)   == <<[do |-> step]>>
Need(what) == <<[do |-> "need", what |-> what]>>
Load(file) == <<[do |-> "load", what |-> file]>>
Keep(what) == <<[do |-> "keep", what |-> what]>>
SaveConfig == Do("truncate") \o Do("write")
\* The DID of this command, or one the user names.
This == -1

\* soroban.Client
SimulateAndAssemble(op, on) == <<[do |-> "simulate", op |-> op, on |-> on]>>
SubmitAndWait               == Do("send") \o Do("poll")
Invoke(op, on)   == SimulateAndAssemble(op, on) \o SubmitAndWait
SimulateOnly     == Do("query")
UploadWasm       == Invoke("upload", None)
CreateContract   == Invoke("deploy", None)
DeployWithConstructorArgs == UploadWasm \o CreateContract
GetKeypairAndNetwork == Do("key")

\* did.RegistryClient
RegisterDID(d)      == Invoke("register", d)
RegisterSorobanDID  == Invoke("register", WalletDID) \o Do("decode")
DeactivateDID(d)    == Invoke("deactivate", d)
AnchorCredential(d) == Invoke("anchor", d)
RevokeCredential(d) == Invoke("revoke", d)
ResolveDID          == SimulateOnly
DIDExists           == Do("exists")
CredentialStatus    == SimulateOnly

\* did: what is done on-chain only warns when it fails.
RegisterDIDOnChain == Need("registry") \o GetKeypairAndNetwork \o RegisterDID(This)
SorobanOnChain     == Need("registry") \o GetKeypairAndNetwork \o RegisterSorobanDID
AnchorVCOnChain ==
    Need("registry") \o GetKeypairAndNetwork \o DIDExists \o RegisterDID(This) \o AnchorCredential(This)
SaveDID == Keep("doc") \o SaveConfig
DIDCreate ==
    {Do("keygen"), Do("keygen") \o SaveDID, Do("keygen") \o SaveDID \o RegisterDIDOnChain,
     Do("walletdid") \o SaveDID, Do("walletdid") \o SaveDID \o SorobanOnChain}
IssueVC == Do("keygen") \o Keep("vc") \o SaveDID
DIDAttest == {IssueVC, IssueVC \o AnchorVCOnChain}
DIDVerify == {Load("vc") \o Do("check") \o Need("registry") \o CredentialStatus}
DIDSetRegistry == {Do("setregistry") \o SaveConfig}
DIDRegister == {Need("registry") \o Load("doc") \o GetKeypairAndNetwork \o RegisterDID(This)}
DIDResolve    == {Need("registry") \o Need("did") \o ResolveDID}
DIDDeactivate == {Need("registry") \o GetKeypairAndNetwork \o DeactivateDID(d) : d \in Dids}
DIDAnchor     == {Need("registry") \o Load("vc") \o GetKeypairAndNetwork \o AnchorCredential(This)}
DIDRevoke     == {Need("registry") \o Load("vc") \o GetKeypairAndNetwork \o RevokeCredential(This)}
DIDStatus     == {Need("registry") \o Load("vc") \o CredentialStatus}

\* contract: the agreement is the last one unless the user names another.
OnAgreement(op) == Need("contract") \o Need("agreement") \o GetKeypairAndNetwork \o Invoke(op, None)
ContractDeploy == {GetKeypairAndNetwork \o DeployWithConstructorArgs \o Do("usecontract") \o SaveConfig}
ContractSet    == {Do("setcontract") \o SaveConfig}
CreateAgreement ==
    {Need("contract") \o GetKeypairAndNetwork \o Invoke("create", None) \o Do("decode") \o Do("record") \o SaveConfig}
ContractShow == {Need("contract") \o Need("agreement") \o GetKeypairAndNetwork \o SimulateOnly}
ContractList == {Need("contract") \o GetKeypairAndNetwork \o SimulateOnly}
AttestIdentity == {Need("did") \o OnAgreement("attest"), Need("did") \o Load("vc") \o OnAgreement("attest")}
ConnectWallet  == {OnAgreement("wallet")}
FundAsset      == {OnAgreement("fund")}
Execute        == {OnAgreement("execute")}
Settle         == {OnAgreement("settle")}
SetRegistry    == {Need("contract") \o Need("registry") \o GetKeypairAndNetwork \o Invoke("setregistry", None)}
InvokeAnchorReport == OnAgreement("report")
AnchorReport   == {Load("report") \o InvokeAnchorReport}

\* report, network, init and the queries of the Tansu contract.
ReportGenerate == {Keep("report"), Keep("report") \o InvokeAnchorReport}
ReportShow     == {Load("report")}
NetworkSet     == {Do("network") \o SaveConfig}
NetworkSwitch  == {Do("network") \o SaveConfig}
InitCmd        == {SaveConfig}
TansuQuery     == {SimulateOnly}

Commands ==
    UNION {DIDCreate, DIDAttest, DIDVerify, DIDSetRegistry, DIDRegister, DIDResolve, DIDDeactivate, DIDAnchor, DIDRevoke,
           DIDStatus, ContractDeploy, ContractSet, CreateAgreement, ContractShow, ContractList, AttestIdentity,
           ConnectWallet, FundAsset, Execute, Settle, SetRegistry, AnchorReport, ReportGenerate, ReportShow,
           NetworkSet, NetworkSwitch, InitCmd, TansuQuery}
------------------------------------------------------------------------------
(* The ledger.                                                                *)

\* Draft, attested, connected, funded, executed, settled.
Stages == <<"attest", "wallet", "fund", "execute", "settle">>
StageBefore(op) == CHOOSE k \in 1..5 : Stages[k] = op
Agreement(t) == chain.stage[t.contract][t.agreement]
Known(t) == t.contract \in 1..chain.contracts /\ t.agreement \in 1..chain.count[t.contract]
Reached(t)         == Known(t) /\ Agreement(t) = StageBefore(t.op)

Accepts(t) ==
    CASE t.op = "register"    -> chain.dids[t.on] = "absent"
      [] t.op = "deactivate"  -> chain.dids[t.on] = "active"
      [] t.op = "anchor"      -> chain.dids[t.on] = "active" /\ chain.vcs[t.on] = "absent"
      [] t.op = "revoke"      -> chain.vcs[t.on] = "valid"
      [] t.op = "upload"      -> TRUE
      [] t.op = "deploy"      -> chain.uploaded
      [] t.op = "setregistry" -> t.contract \in 1..chain.contracts
      [] t.op = "create"      -> t.contract \in 1..chain.contracts
      [] t.op = "report"      -> Known(t) /\ Agreement(t) >= 5
      [] OTHER                -> Reached(t)
After(t) ==
    CASE t.op = "register"    -> [chain EXCEPT !.dids[t.on] = "active"]
      [] t.op = "deactivate"  -> [chain EXCEPT !.dids[t.on] = "dead"]
      [] t.op = "anchor"      -> [chain EXCEPT !.vcs[t.on] = "valid"]
      [] t.op = "revoke"      -> [chain EXCEPT !.vcs[t.on] = "revoked"]
      [] t.op = "upload"      -> [chain EXCEPT !.uploaded = TRUE]
      [] t.op = "deploy"      -> [chain EXCEPT !.contracts = @ + 1]
      [] t.op \in {"setregistry", "report"} -> chain
      [] t.op = "create"      -> [chain EXCEPT !.count[t.contract] = @ + 1]
      [] OTHER                -> [chain EXCEPT !.stage[t.contract][t.agreement] = @ + 1]
\* Bounds of the model, not of the contracts.
InBounds(t) ==
    /\ t.op = "deploy" => chain.contracts < MaxContracts
    /\ t.op = "create" /\ t.contract \in Contracts => chain.count[t.contract] < MaxAgreements
\* The id of an agreement is a hash of how many there are, so the keys that were
\* simulated are touched only while that number stands.
InFootprint(t) == t.op = "create" => chain.count[t.contract] = t.base
Made(t) == CASE t.op = "create" -> chain.count[t.contract] + 1 [] t.op = "deploy" -> chain.contracts + 1 [] OTHER -> None

\* A transaction is carried out, fails for its fee, or is never included.
Land(t) ==
    /\ flying' = flying \ {t}
    /\ \/ /\ t.seq = chain.seq + 1 /\ InBounds(t)
          /\ IF Accepts(t) /\ InFootprint(t)
             THEN /\ chain' = [After(t) EXCEPT !.seq = t.seq]
                  /\ landed' = landed \cup {[tx |-> t.id, op |-> t.op, made |-> Made(t)]}
                  /\ UNCHANGED failed
             ELSE /\ chain' = [chain EXCEPT !.seq = t.seq]
                  /\ failed' = failed \cup {t.id}
                  /\ UNCHANGED landed
       \/ UNCHANGED <<chain, landed, failed>>
    /\ UNCHANGED <<disk, jobs, told, spent>>
\* Other users of the same contract.
OtherAgreement ==
    /\ May("others") /\ Spend("others")
    /\ chain.count[1] < MaxAgreements
    /\ chain' = [chain EXCEPT !.count[1] = @ + 1]
    /\ UNCHANGED <<flying, landed, failed, disk, jobs, told>>
------------------------------------------------------------------------------
(* How a command goes on.                                                     *)

\* At the first error, or after the last step.
End(p) == jobs' = [jobs EXCEPT ![p] = Fresh]
Advance(p, j) == jobs' = [jobs EXCEPT ![p] = IF Len(j.steps) = 1 THEN Fresh ELSE [j EXCEPT !.steps = Tail(@)]]
Tell(p, result) == told' = told \cup {[tx |-> jobs[p].tx.id, result |-> result]}

Configured(cfg, what) ==
    CASE what = "registry"  -> cfg.registry
      [] what = "contract"  -> cfg.contract # None
      [] what = "agreement" -> cfg.last # None
      [] what = "did"       -> cfg.did # None
CheckConfig(p) ==
    /\ Next1(p).do = "need"
    /\ IF Configured(jobs[p].cfg, Next1(p).what) THEN Advance(p, jobs[p]) ELSE End(p)
    /\ UNCHANGED <<ledger, disk, told, spent>>
LoadState(p) ==
    /\ Next1(p).do = "load"
    /\ IF files[Next1(p).what] = None THEN End(p)
       ELSE Advance(p, IF Next1(p).what = "report" THEN jobs[p] ELSE [jobs[p] EXCEPT !.did = files[Next1(p).what]])
    /\ UNCHANGED <<ledger, disk, told, spent>>
\* A locked or external wallet has no seed; a credential may be invalid or expired.
Decide(p) ==
    /\ Next1(p).do \in {"key", "check", "query"}
    /\ Advance(p, jobs[p]) \/ End(p)
    /\ UNCHANGED <<ledger, disk, told, spent>>
\* A new key makes a new DID; did:soroban has none.
CreateDID(p) ==
    /\ \/ /\ Next1(p).do = "keygen" /\ spent.dids < MaxDids
          /\ spent' = [spent EXCEPT !.dids = @ + 1]
          /\ Advance(p, [jobs[p] EXCEPT !.did = spent.dids + 2, !.cfg.did = spent.dids + 2])
       \/ Next1(p).do = "walletdid" /\ Advance(p, [jobs[p] EXCEPT !.did = WalletDID, !.cfg.did = WalletDID]) /\ UNCHANGED spent
       \/ Next1(p).do = "keygen" /\ spent.dids = MaxDids /\ End(p) /\ UNCHANGED spent
    /\ UNCHANGED <<ledger, disk, told>>
SaveState(p) ==
    /\ Next1(p).do = "keep"
    /\ files' = [files EXCEPT ![Next1(p).what] = IF Next1(p).what = "report" THEN 1 ELSE jobs[p].did]
    /\ Advance(p, jobs[p])
    /\ UNCHANGED <<ledger, config, told, spent>>
\* os.WriteFile empties the file and then writes it.
Save(p) ==
    /\ \/ Next1(p).do = "truncate" /\ config' = Torn
       \/ Next1(p).do = "write"    /\ config' = jobs[p].cfg
    /\ Advance(p, jobs[p])
    /\ UNCHANGED <<ledger, files, told, spent>>
\* The file cannot be opened, or not be written: the commands end there all the
\* same, but for those that go on with the DID (did.go), and create only warns.
SaveFails(p) ==
    /\ Next1(p).do \in {"truncate", "write"}
    /\ May("faults") /\ spent' = [spent EXCEPT !.faults = @ + 1, !.disturbed = TRUE]
    /\ Advance(p, IF Next1(p).do = "truncate" THEN [jobs[p] EXCEPT !.steps = Tail(@)] ELSE jobs[p])
    /\ UNCHANGED <<ledger, disk, told>>
EditConfig(p) ==
    /\ \/ Next1(p).do = "setregistry" /\ Advance(p, [jobs[p] EXCEPT !.cfg.registry = TRUE])
       \/ Next1(p).do = "setcontract" /\ \E c \in 1..chain.contracts : Advance(p, [jobs[p] EXCEPT !.cfg.contract = c])
       \/ Next1(p).do = "network" /\ \E n \in {"testnet", "mainnet"} : Advance(p, [jobs[p] EXCEPT !.cfg.network = n])
    /\ UNCHANGED <<ledger, disk, told, spent>>
------------------------------------------------------------------------------
(* Transactions.                                                              *)

Tx(p) ==
    LET s == Next1(p) j == jobs[p]
    IN  [id |-> spent.txs + 1, op |-> s.op, on |-> IF s.on = This THEN j.did ELSE s.on, contract |-> j.cfg.contract,
         agreement |-> j.cfg.last, seq |-> chain.seq + 1,
         base |-> IF s.op = "create" /\ j.cfg.contract \in Contracts THEN chain.count[j.cfg.contract] ELSE 0]
\* The account is loaded and the call simulated; contracts and account are those of the test network.
Simulate(p) ==
    /\ Next1(p).do = "simulate"
    /\ Spend("txs")
    /\ IF jobs[p].cfg.network = "testnet" /\ Accepts(Tx(p))
       THEN Advance(p, [jobs[p] EXCEPT !.tx = Tx(p), !.queued = TRUE])
       ELSE End(p)
    /\ UNCHANGED <<ledger, disk, told>>
SkipRegistration(j) == [j EXCEPT !.steps = SubSeq(@, 1, 1) \o SubSeq(@, 5, Len(@))]
\* The DID is registered first unless it is on record.
Exists(p) ==
    /\ Next1(p).do = "exists"
    /\ IF jobs[p].cfg.network # "testnet" THEN End(p)
       ELSE Advance(p, IF chain.dids[jobs[p].did] = "absent" THEN jobs[p] ELSE SkipRegistration(jobs[p]))
    /\ UNCHANGED <<ledger, disk, told, spent>>
\* A call fails, or its answer is lost.
CallFails(p) ==
    /\ Next1(p).do \in {"simulate", "exists"}
    /\ May("faults") /\ Spend("faults")
    /\ End(p)
    /\ UNCHANGED <<ledger, disk, told>>

Busy == \E t \in flying : t.seq = chain.seq + 1
\* PENDING, ERROR, TRY_AGAIN_LATER, DUPLICATE, or no answer.  One transaction of
\* an account is taken at a time; what was not taken is polled for all the same.
SendTransaction(p) ==
    /\ Next1(p).do = "send"
    /\ LET t == jobs[p].tx IN
       \/ /\ t.seq = chain.seq + 1 /\ ~Busy
          /\ flying' = flying \cup {t}
          /\ \/ Advance(p, jobs[p]) /\ UNCHANGED <<told, spent>>
             \/ /\ May("faults") /\ Spend("faults")
                /\ \/ Tell(p, "unknown") /\ End(p)
                   \/ Tell(p, "duplicate") /\ Advance(p, [jobs[p] EXCEPT !.steps = Tail(@), !.queued = FALSE])
       \/ /\ t.seq # chain.seq + 1
          /\ Tell(p, "rejected") /\ End(p) /\ UNCHANGED <<flying, spent>>
       \/ /\ Busy
          /\ Advance(p, jobs[p]) /\ UNCHANGED <<flying, told, spent>>
    /\ UNCHANGED <<chain, landed, failed, disk>>
\* Variant: the context is not looked at while the status is NOT_FOUND.
PollForever(p) ==
    /\ Next1(p).do = "poll"
    /\ LET id == jobs[p].tx.id IN
       \/ (\E l \in landed : l.tx = id) /\ Tell(p, "success") /\ Advance(p, jobs[p])
       \/ id \in failed /\ Tell(p, "failed") /\ End(p)
    /\ UNCHANGED <<ledger, disk, spent>>
\* Variant: a transaction that is not found yet is taken for done.
PollOnce(p) ==
    /\ Next1(p).do = "poll"
    /\ Tell(p, "success") /\ Advance(p, jobs[p])
    /\ UNCHANGED <<ledger, disk, spent>>
\* Until the status is final, a poll fails, or the context ends.
Poll(p) ==
    /\ Next1(p).do = "poll"
    /\ LET id == jobs[p].tx.id IN
       \/ (\E l \in landed : l.tx = id) /\ Tell(p, "success") /\ Advance(p, jobs[p]) /\ UNCHANGED spent
       \/ id \in failed /\ Tell(p, "failed") /\ End(p) /\ UNCHANGED spent
       \/ (\A l \in landed : l.tx # id) /\ id \notin failed /\ Tell(p, "unknown") /\ End(p) /\ UNCHANGED spent
       \/ May("faults") /\ Spend("faults") /\ Tell(p, "unknown") /\ End(p)
    /\ UNCHANGED <<ledger, disk>>

Result(p) == (CHOOSE l \in landed : l.tx = jobs[p].tx.id).made
Decodable(p) == jobs[p].queued
\* The return value is in the metadata, and a duplicate comes without.
Decode(p) ==
    /\ Next1(p).do = "decode"
    /\ IF Decodable(p) THEN Advance(p, jobs[p]) ELSE End(p)
    /\ UNCHANGED <<ledger, disk, told, spent>>
\* Variant: the id is that of the newest agreement.
RecordNewest(p) ==
    /\ Next1(p).do = "record"
    /\ Advance(p, [jobs[p] EXCEPT !.cfg.agreements = @ \cup {chain.count[jobs[p].cfg.contract]}, !.cfg.last = chain.count[jobs[p].cfg.contract]])
    /\ UNCHANGED <<ledger, disk, told, spent>>
RecordAgreement(p) ==
    /\ Next1(p).do = "record"
    /\ Advance(p, [jobs[p] EXCEPT !.cfg.agreements = @ \cup {Result(p)}, !.cfg.last = Result(p)])
    /\ UNCHANGED <<ledger, disk, told, spent>>
\* The contract's id comes from the simulation, and is used after the wait.
UseContract(p) ==
    /\ Next1(p).do = "usecontract"
    /\ Advance(p, [jobs[p] EXCEPT !.cfg.contract = IF Decodable(p) THEN Result(p) ELSE chain.contracts + 1])
    /\ UNCHANGED <<ledger, disk, told, spent>>
------------------------------------------------------------------------------
Start(p) ==
    /\ Idle(p) /\ May("commands")
    /\ \E steps \in Commands :
        jobs' = [jobs EXCEPT ![p] = [Fresh EXCEPT !.steps = steps, !.cfg = IF config = Torn THEN DefaultConfig ELSE config]]
    /\ spent' = [spent EXCEPT !.commands = @ + 1, !.disturbed = @ \/ \E q \in Terminals : ~Idle(q)]
    /\ UNCHANGED <<ledger, disk, told>>
Step(p) ==
    /\ ~Idle(p)
    /\ \/ CheckConfig(p) \/ LoadState(p) \/ Decide(p) \/ CreateDID(p) \/ SaveState(p) \/ Save(p) \/ SaveFails(p)
       \/ EditConfig(p) \/ Simulate(p) \/ Exists(p) \/ CallFails(p) \/ SendTransaction(p) \/ Poll(p) \/ Decode(p) \/ RecordAgreement(p)
       \/ UseContract(p)
\* Interrupted: what is on disk and on the ledger stays.
Kill(p) ==
    /\ ~Idle(p) /\ May("kills")
    /\ spent' = [spent EXCEPT !.kills = @ + 1, !.disturbed = TRUE]
    /\ jobs' = [jobs EXCEPT ![p] = Fresh]
    /\ UNCHANGED <<ledger, disk, told>>

Init ==
    /\ LET new == [seq |-> 0, dids |-> [d \in Dids |-> "absent"], vcs |-> [d \in Dids |-> "absent"],
                   count |-> [c \in Contracts |-> 0], stage |-> [c \in Contracts |-> [n \in 1..MaxAgreements |-> 1]],
                   uploaded |-> FALSE, contracts |-> 1]
           set == [DefaultConfig EXCEPT !.contract = 1, !.registry = TRUE]
       IN  \/ chain = new /\ config \in {DefaultConfig, set} /\ landed = {}
           \/ /\ chain = [new EXCEPT !.count[1] = 1, !.stage[1][1] = 5]
              /\ config = [set EXCEPT !.agreements = {1}, !.last = 1]
              /\ landed = {[tx |-> None, op |-> "create", made |-> 1]}
    /\ files = [vc |-> None, doc |-> None, report |-> None]
    /\ flying = {} /\ failed = {} /\ told = {}
    /\ jobs = [p \in Terminals |-> Fresh]
    \* Others and kills where they matter: a terminal that is set up and has no agreement yet.
    /\ LET calm == landed # {} \/ config = DefaultConfig
       IN  spent = [commands |-> 0, others |-> IF calm THEN MaxOthers ELSE 0, faults |-> 0,
                    kills |-> IF calm THEN MaxKills ELSE 0, txs |-> 0, dids |-> 0, disturbed |-> FALSE]
Next ==
    \/ \E p \in Terminals : Start(p) \/ Step(p) \/ Kill(p)
    \/ \E t \in flying : Land(t)
    \/ OtherAgreement
\* A command runs on once started; nothing is asked of the network.
Spec == Init /\ [][Next]_vars /\ \A p \in Terminals : WF_vars(Step(p))
------------------------------------------------------------------------------
(* Properties.                                                                *)

Landed == {l.tx : l \in landed}
Told(result) == {t.tx : t \in {u \in told : u.result = result}}
OwnAgreements == {l.made : l \in {m \in landed : m.op = "create"}}
Deployed == 1..chain.contracts

\* The types of the variables.
TypeOK ==
    /\ chain.dids \in [Dids -> {"absent", "active", "dead"}] /\ chain.vcs \in [Dids -> {"absent", "valid", "revoked"}]
    /\ chain.stage \in [Contracts -> [1..MaxAgreements -> 1..6]] /\ chain.contracts \in Contracts
    /\ chain.count \in [Contracts -> 0..MaxAgreements] /\ chain.seq <= spent.txs
    /\ config.agreements \subseteq 1..MaxAgreements /\ files.vc \in Dids \cup {None} /\ Landed \cap failed = {}

\* submitAndWait "polls until it's confirmed on-chain": what is reported done was
\* carried out.  Only a duplicate is reported before that is known.
SuccessIsOnChain == Told("success") \subseteq Landed

\* A transaction reported as rejected or failed is never carried out later; only
\* one whose answer was lost or that timed out may be.
FailureIsFinal == Landed \cap (Told("rejected") \cup Told("failed")) = {}

\* What a terminal was told of its transactions is so and stays so.
ReportsTrue == TypeOK /\ SuccessIsOnChain /\ FailureIsFinal

\* config.json names agreements of this user and contracts that exist, whatever
\* other users do, and whatever process was killed or wrote last.  A duplicate
\* may name a contract that is not there yet.
ConfigIsTrue ==
    /\ config.agreements \subseteq OwnAgreements
    /\ config.last \in config.agreements \cup {None}
    /\ Told("duplicate") = {} => config.contract \in Deployed \cup {None}

\* While one command runs at a time, none is killed and no write of the file
\* fails, an agreement that was created is in config.json, or its command is still
\* running, or the user was never told that it was created.
NothingForgotten ==
    ~spent.disturbed =>
        \A l \in landed : l.op = "create" =>
            \/ l.made \in config.agreements
            \/ \E p \in Terminals : jobs[p].tx.id = l.tx \/ l.made \in jobs[p].cfg.agreements
            \/ l.tx \notin Told("success")

\* The configuration holds what this user made on the chain, and nothing else.
ConfigKept == ConfigIsTrue /\ NothingForgotten

\* Every command ends, however the server answers: its context ends the polling.
CommandsEnd == \A p \in Terminals : []<>Idle(p)
=============================================================================

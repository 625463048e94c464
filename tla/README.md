# Specifications of MozartPay

MozartPay is a Go command-line program (wallets, payments, swaps, a trading
engine, a dashboard, a chat, an MCP server, all on Stellar) with two Rust
contracts for Soroban: a DID registry and the *orchestrated agreement*. This
directory holds TLA+ specifications of it, the TLC configurations that check
them, and TLAPS proofs. Paths below are relative to `src/mozartpay/`.

Run everything from this directory: `tlc -config X.cfg M.tla` for a run of
`PROJECT.json`, `tlapm M.tla` for the proofs of a module.

Contents: 1 inventory, 2 plan, 3 modules, 4 runs and fairness, 5 proofs,
6 seen while modelling, 7 not modelled.

## 1. Inventory

| Part | State it keeps | Operations, and who meets whom | Hard behaviour | What makes it correct | Module |
|---|---|---|---|---|---|
| DID registry contract `contracts/did_registry/src/lib.rs` | documents, credentials, index of DIDs per controller, counter, owner, pause flag | register, update, deactivate, anchor, revoke, administration; called by users and by the agreement contract | long sequences of calls by several controllers | tombstones and revocations are final, control never moves, index and counter agree, issuers stay on record | `DIDRegistry` |
| Agreement contract `contracts/src/orchestrated_agreement.rs` | agreements with five optional layers, index per initiator, counter, registry address, owner, pause flag | 16 entry points; `try_resolve_did` and `credential_status` into the registry | the registry changes between calls; timestamps meet at boundaries; rounds of disputes | execution's checks are never undone, collateral agrees with the state, settlement follows its path | `OrchestratedAgreement`, `AgreementSystem` |
| Trading runtime `internal/trading/service.go`, `store.go` | strategy row and runtime row in SQLite (status; pid, heartbeat, errors, cycles, kill switch) | `RunStrategy`, `RunActive` loops; start, stop, pause, kill, clear, delete, run once, from CLI, terminal, dashboard | several processes over whole-row reads and writes; crashes; leases by heartbeat | commands take effect, loops end when they should, active strategies are run | `StrategyRuntime` |
| Offer reconciliation `internal/trading/reconcile.go`, `bots.go`, `internal/market` | managed offers, fills, executions; offers on the ledger | one cycle: desired orders, risk check, diff, one transaction, fill sync; cancel beside it | submissions that fail, or land after a timeout; fills seen late; crash between two saves | no record without its offer for good, every fill counted once, cancelled means cancelled, the ladder heals | `OfferReconciliation` |
| Dashboard `internal/dashboard/server.go`, trade commands | table of runner goroutines, configuration, balance cache | HTTP handlers over the trading service; starts and cancels runners; event streams | requests on one strategy at once; network switch while runners run; shutdown and restart | the table lists exactly the runners alive, on the network shown; deleted stays deleted; it settles | `TradeDesk` |
| Wallet registry and passkeys `internal/wallet` | wallet files, registry file, lock file, keychain, unlock grants | create, import, fund, activate, remove, balance; register, unlock, lock, disable passkey | concurrent processes, kills and failures between file, keychain and registry | files, registry and keychain agree, a seed is never lost, a locked wallet cannot sign | `WalletStore` |
| WebAuthn ceremony `internal/webauthn/server.go` | a one-shot server, `finished`, a channel of one result | page, options, finish, close, timeout | concurrent finish requests, close racing a request | one result, no blocked handler | `WalletStore` |
| Swaps and arbitrage `internal/swap`, `scanner`, `triangular` | none between calls; receipts | quote, swap, round trips of one or of two transactions, monitor loops | prices move, answers get lost, deposits arrive, the second leg fails | what is reported happened, round trips end flat or say so, limits hold | `Swaps` |
| Payments, assets, claimables, x402 `internal/payments`, `assets`, `claimables`, `x402` | receipts | pay over four rails, issue and trust assets, accept and decline claims, fetch a paid resource | lost answers, missing keys, claims that change in between | what is confirmed is on the ledger, one payment per fetch, a declined claim goes back | `Payments` |
| Soroban client, DID and contract commands `internal/soroban`, `did`, `contracts`, `cmd` | `config.json`, state files | simulate, sign, send, poll; config loaded at start and written back after | duplicate, lost and late transactions; two terminals; kills | success only for what happened, the configuration is true and keeps what was learnt | `SorobanClients` |
| Chat `internal/chat` | network, pending operation, quote, opportunities | messages classified by rules or by a language model; handlers over all services | what a "yes" means; the wallet registry changes under it | what is executed was shown, confirmed once, not withdrawn | `ChatSession` |
| MCP server `internal/mcp` | initialisation flag | JSON-RPC requests over stdio | tools share the files of the commands | as the commands | in the above |
| Feeds, signals, backtests, ISO 20022, reports, ZK, crypto, exchange registry, integrations, terminal | none, or caches | text, documents, HTTP, numerics | none of note | formatting and mathematics | – |

The contracts meet in cross-contract calls. The Go processes meet in files (the
SQLite database of the trading engine, the JSON registry and the files of the
wallets, `config.json`) and on the ledger. Those meeting points are where the
modules put their interleavings. `PROJECT.json` lists the hazards with the line
where each bites and the properties that would notice.

## 2. Plan

Done, in this order: the two contracts with their abstract registry and their
composition (`RegistryLifecycle`, `DIDRegistry`, `OrchestratedAgreement`,
`AgreementSystem`), the proofs about the agreement contract, `StrategyRuntime`,
then `OfferReconciliation`, `WalletStore`, `Swaps`, `Payments`,
`SorobanClients`, `TradeDesk`, `ChatSession`, the proofs about the registry
contract and about the two contracts together, and those about `Payments`,
`TradeDesk`, `WalletStore`, `Swaps`, `SorobanClients`, `ChatSession`,
`OfferReconciliation` and `StrategyRuntime`.

Left:

1. Models. The protocol of the MCP server (initialisation, parameter prompts);
   the signal-only strategies; several strategies in one `RunActive`; pools.
2. Pure operators against a reference: `score_to_grade`, the matching of offers
   by tolerance, the split of operations into transactions.

## 3. Modules

Modules of the Go program describe a command as the list of the calls it makes:
reads and writes of files, requests to Horizon or Soroban, waits. A generic
machine carries out one step at a time, so that every other process, the ledger
and every fault can come between any two calls, and each step says how it fails
and what the rest of the command does then. Lists are built by operators with
the names of the functions they stand for; those operators are what `map` ties
to the code.

**RegistryLifecycle** is the abstract registry: the status of a DID (absent,
active, deactivated) and of a credential hash (absent, Valid, Revoked), and the
four ways they change. It is what `resolve_did` and `credential_status` tell a
caller, and nothing else.

**DIDRegistry** has one action per entry point of the contract. A Soroban
transaction runs alone and commits whole or panics, so an entry point is one
atomic action and each panic is a guard. `Lifecycle` is the refinement mapping:
`didStatus` is the answer of `ResolveDid`, `vcStatus` that of
`CredentialStatus`. Verification methods and services are reduced to a version
number that an update increments, hashes and DID strings to model values. Who
signs is left out: it says who may take a step, and controllers are free to.
The form of a DID string and its length limits are a property of the constant
`Dids`; the DIDs derived from an account are `SorobanDids`.

**OrchestratedAgreement** has one action per entry point. A layer, stored by
the contract in a vector of length 0 or 1, is a set with at most one element.
Kept are the fields the contract tests or the properties relate: state, expiry,
end of the dispute window, identity and hash, wallet signers and funding,
amount, lock and release, score and carbon, the report with execution time,
dispute hash and report hash. The registry is an environment that follows
`RegistryLifecycle` between any two calls; a configured address with no live
registry behind it fails every compliance check. Integers: the addition
`expires_at + dispute_window` traps on overflow (`overflow-checks` is on), which
is the guard `t + window <= MaxTimestamp`; amounts are compared, never added.

**AgreementSystem** puts both contracts on one ledger, the registry seen by the
agreement contract being the real one. `ImplementsOpenContract` says the pair
implements `OrchestratedAgreement`, so each property checked or proved there
holds of the pair.

**StrategyRuntime** models one strategy and the processes that meet in its two
rows. A `Runner` is `RunStrategy`/`runLoop`, a `Scheduler` is `RunActive`, an
`Operator` issues the commands of the service. `GetRuntime`, `SaveRuntime`,
`GetStrategy`, `SaveStrategy`, `ClearRuntime` are the atomic steps, each an
action at its own label of `pc`; what a process read and has not yet written
back is in `view` and `copy`. A copy of the strategy held by a loop is always an
active one (the loop tests it on load), so `SaveCycle` writes "active". A
process may crash at any label and leaves its row; a command may be abandoned
between two calls. Heartbeats are ages in ticks. Loops run live; of
`ReconcileStrategy` the runtime sees the kill switch test and an outcome.
`setup` fixes which processes are launched and whether the bot may want no order
at all (a `sell` strategy above its `max_price`), when the risk check, kill
switch included, is skipped.

**OfferReconciliation** is the live cycle of the strategies that rest orders:
the reference price, the ladder of intents, live offers read from Horizon,
adoption of an offer by price and amount, the diff, the grace period of
submitted records, the one transaction with an answer per operation, fills read
from trades and saved fill, execution and counter in turn. The ledger matches
offers against takers at any moment, a submission may fail, or be lost and land,
and `CancelStrategyOffers` and offers made by hand run beside it. Records, fills and
executions are saved one by one: a run of saves that nothing interrupts is one step, and
`Crash` stops the process between any two of them (`CutRecords`, `CutFills`). The
strategy row is written whole, with the count of trades that was read when the cycle
began; pause, start, stop, kill and a dry run read and write the same row beside it
(`BeginEdit`, `SaveEdit`). Prices are levels and a ladder has one or two.

**WalletStore** is the state of one home directory: account files (sealed or
open), the registry, its lock file, the keychain, the copies of an account
outside the registry, the grants of unlocked wallets. Every wallet and passkey
command of the command line and of the MCP server is a list of file, lock and
keychain operations, run by two processes at once; a process may be killed
anywhere. A ceremony is the page, its finish requests from one or two tabs, the
channel of one result, the wait with its timeout and the close.

**Swaps** is one account on a ledger with two tradable assets whose price moves.
A command is a scan or a swap, a round trip in one transaction, or one in two.
Amounts are whole numbers and a price level a premium in half per cents; limits
(`destMin`, the profit test) are computed as the code computes them, rounding
included. Each pair of assets has a route, and there may be a direct one beside it: a zk
swap prefers that one and computes its limit from it, whatever the summary showed.
A submission is accepted or refused, its answer may be lost, and what
was accepted is settled or expires later; the service looks it up until its time
bound has passed. Deposits arrive in between.

**Payments** is the same account over the rails of a payment (`direct`, `x402`,
`tempo`, `zk`), the issue of an asset, trustlines, and claimable balances of
others that appear, expire or are withdrawn at any moment. A claim may also be one
that cannot be taken, or whose sponsor cannot be paid back, for one of the many reasons
the ledger has (`account.ready`, `account.returnable`). An issued asset may be called XLM
(`Namesakes`). A wallet has a key, is locked by a passkey, or is external.
 The x402 client's challenge, cap, signed
authorization, paid retry and every answer to it are steps; the server settles
an authorization once, when it likes.

**SorobanClients** is the terminals of one user against the two contracts, cut
down to what decides whether a call is accepted. A transaction is simulated on
the ledger as it is, sent (accepted, duplicate, try again later, lost), polled
for until the context ends, and carried out or failed at any time while valid.
A command loads `config.json` when it starts and writes all of it back in two
steps, truncate and write; the write may also fail, which is a warning. The queries of
the `tansu` commands are one kind of step that only simulates.

**TradeDesk** is the dashboard with concurrent requests, the goroutines they
start and their table, the network with its configuration file, the event
streams with their cache of balances, shutdown, restart, and trade commands typed
beside it. A goroutine is the loop of `StrategyRuntime` in fewer steps.

**ChatSession** is one conversation. A message is the set of word classes it
contains. `Rules` is the chain of tests of `UnderstandIntent` in its order; with
a language model any intent the prompt names may come out instead. A handler is
a list of steps, between which other processes may change the wallet registry.
`history` records what was shown, picked, withdrawn and executed,
independently of what the session keeps.

`MC*` modules give TLC the values a .cfg cannot write. Operators introduced by
a comment "Variant:" are plausible mistakes in the definition that follows
them; they occur in no specification. Each property of a passing run has one
that breaks it (`PROJECT.json`, `mutants`).


## 4. Runs

| Run | Bounds | What it shows | States |
|---|---|---|---|
| `did_registry` | 2 accounts, 2 DIDs (one derived from an account), 3 hashes with the zero hash, 1 update per document | a DID registered by either account, taken by the other, updated, deactivated, with credentials anchored and revoked before and after, paused and not: index, counter and issuers agree (`RegistryInv`), control is for ever, and the registry implements `RegistryLifecycle` | 10 k |
| `agreement` | 1 agreement, 2 accounts, 1 DID, 2 hashes, timestamps 0..2, windows 0 and 1, amounts -1 and 1 | three timestamps put a call before, at and after each boundary, two hashes let an agreement be attested again, the registry revokes and deactivates at any moment; accounts and hashes are symmetric | 1.3 M |
| `system` | 1 account, 1 DID, 1 hash, 1 agreement, a live registry and a wrong address | each transaction of both contracts in every order: `ImplementsOpenContract`, `RevokedFundedIsStuck` | 113 k |
| `runtime` | 1 runner or 1 scheduler, 1 operator, lease 2 ticks, interval 1, max_errors 2 | every command, at every point of a cycle, with crashes, restarts and abandoned commands; the strategy of a lone `RunActive` is run again and again (`LoneLoopRuns`) | 261 k |
| `offers` | amount 2, ladder of 2 intents, 1 price move, 5 offers, 1 mishap (crash, refused or lost submission, another command's write), 1 trade | a cycle against fills, faults, the cancel command, stale rows written back, and offers by hand | 252 k |
| `wallets` | 1 Stellar and 1 external wallet, 2 processes; homes that are upgraded from an older version, where a process is killed, or where two run at once | all commands in every interleaving of their file operations | 544 k |
| `swaps` | 1 near and 1 far asset, premiums 0, 2 and 8, a direct route that is worse, better or absent, 1 command, 2 moves of the price, 1 deposit, 2 faults | scans that trade, both kinds of round trips, late and lost answers, look-ups that fail until the deadline | 608 k |
| `payments` | 2 issued assets, one called XLM, 3 claims, 2 commands, 1 act of others, 1 fault, prices 1 and 2 | every rail, batch declines with claims the ledger refuses, the x402 fetch with its answer lost | 4.4 M |
| `clients` | 2 terminals, 2 commands, 2 contracts, 2 agreements, 1 call of others, 1 fault (lost, doubled or late answer, or a failing write), 1 kill | the commands on the two contracts, alone, overlapping and killed | 1.0 M |
| `dashboard` | 2 networks, 2 goroutines; 2 requests and 3 jobs, or a request and a terminal with 2, or a request and 2 browsers | concurrent requests, goroutines that end, a change of network that cannot be saved, shutdown and restart | 339 k |
| `chat` | 2 networks, 12 word classes by pairs, 5 messages, 2 things shown, scans of 1 or 2, 1 mishap | what a conversation can end up executing: `ConfirmedOnce` | 2.5 M |
| `doc_protection` | as `wallets`, with a lock file left behind | expects a violation, see below | |

Why the bounds are enough. Agreements do not touch each other (each call writes
one record, and the index entry of one initiator), which is why one is enough
for TLC; the theorems hold for any number. One process in `runtime` is a bound
with a reason: with two, several commands can be defeated and a strategy can starve,
which section 6 describes. Budgets for commands, faults and outside acts are small because a
property here is broken by one or two of them at the wrong moment; each budget
is as large as the five minutes of a run allow, and every action and disjunct of
every module fires in one of the runs.

Several properties are conjunctions of named parts (`RecordsAgree` is type
correctness, `LadderIntact` and `CanceledIsGone`; `ReportsTrue` what a user was
told against what is on the ledger). The parts are defined next to one another
and TLC's trace shows which one fails.

`KillStands` is the safety half of the kill switch, for a runner or a scheduler: a
killed run may still write back what it read before the kill, the strategy as active
or the row without the switch, but never both, so each of its cycles either fails the
test or does not begin.

The liveness properties, and why they are not obvious: `KillEndsRun`, a
completed kill ends the run although the cycle in flight overwrites the pause,
because the switch is saved before the pause and a cycle reads the runtime row
only after it has saved the strategy, so that every later cycle fails until
`max_errors` (for one runner whose bot always wants an order); `LadderHeals`,
after the last mishap the ladder stands again; `CommandsEnd`, a command ends in
spite of locks left behind and answers that never come (a continuous scan is cut off
after `MaxScans` rounds; with `maxScans = 0` the program scans until it is stopped);
`LoneLoopRuns`, an active strategy claimed by the only loop is run again and again;
`DeskSettles`, again and again all requests are answered, cancelled goroutines gone, an
interrupted dashboard ended, and no claim of an ended dashboard still refuses a start. That the strategy is
then started by somebody is not said: nobody has to.

`doc_protection` checks what the comment at `internal/wallet/passkey.go:124`
says ("no half-protected state is left behind"). With the registry locked by a
process that was killed, the encrypted file is already written when the update
of the registry times out, and the clean-up then deletes the key: nothing can
open the file any more.

Some properties leave out a case because the code really fails there; section 6 says
what happens then. The case has a history variable, a flag or a mode of its own:
`history.lost` (a goroutine another was entered over) and `history.unsaved` (a network that
was not saved, or changed twice at once) of the dashboard, `spent.disturbed` of the
Soroban clients, `moved` of the chat, `OfferShared` and the modes "crash" and "edit" of
the offers, `report.unseen` of the swaps, `report.torn` and `report.hindered` of the
payments, `Alone` and `Quiet` of the runtime, the homes "racing" of the wallets.

`CHECK_DEADLOCK FALSE` stands where bounded budgets, an ended process or a
closed conversation bring a system to its end.

### Fairness

The contracts need none: nobody has to call them, and every property is a
safety property. `Payments` and `ChatSession` state none for the same reason. In
`StrategyRuntime` each loop is weakly fair (the Go runtime and the operating
system run a process that can run; a sleeping one wakes) and so is time.
`OfferReconciliation`: the cycle, the ledger, a cancel that has begun, and the
passing of each record's grace period. `WalletStore` and `SorobanClients`: the
steps of a process that runs, never a user. `Swaps`: the steps of a command and
the settling of a transaction, which its time bound brings about. `TradeDesk`:
requests that are being served, goroutines that were cancelled (they see the
cancellation at their next step), the five seconds of `Shutdown`, and the lapse of a claim
whose process is gone (time passes and nobody refreshes its heartbeat). Launching,
interrupting, crashing, killing and commanding are fair nowhere.

## 5. Proofs

`OrchestratedAgreement_proofs` proves for any accounts, DIDs, hashes, inputs,
bounds and number of agreements, from `InputAssumption` alone:

- `Invariance`: `Spec => []IInv`, from which `TypeCorrect`,
  `LayersAlwaysComplete`, `CollateralAlwaysAccounted`,
  `WindowAlwaysOutlivesExecution` and `DisputesAlwaysRecorded` follow;
- `FundingAlwaysFreezesTerms`, `ClosedIsAlwaysFinal`,
  `SettlementAlwaysFollowsPath`, `ExpiredFundedAlwaysStuck`: the action
  properties, from the same invariant.

The checked invariants are not inductive one by one. That an executed agreement
has an asset needs that a funded one has; that the window outlives the
execution needs, of agreements not yet executed, that the window ends after the
expiry; a recorded dispute needs that a report is present from execution on.
`IInv` is `TypeOK` together with `Sound` of every stored agreement, a predicate on
one record with a part per invariant (`Layered`, `Accounted`, `Windowed`,
`Recorded`). Since every entry point but `create_agreement` writes one record
through `Update`, the proof has one lemma per entry point: it writes a record `b`
that is well typed, `Sound`, and reached from the old one by `Evolves`, the
relation that the action properties need. `AgreementStepWrites` gathers them,
`CreateKeeps` adds a new record, `StepKeeps` covers the registry and time.

`DIDRegistry_proofs` proves, for any DIDs, accounts, hashes and number of updates,
from `SorobanAssumption` and `VersionAssumption`:

- `RecordsAlwaysAgree`: type correctness, `IndexAgrees` and `IssuerOnRecord` of
  every reachable state;
- `ControlForEver`: no step gives a DID another controller;
- `RegistryImplementsLifecycle`: the contract implements `RegistryLifecycle`.

`RegistryInv` is inductive once it is known that finitely many DIDs are
registered, without which `Cardinality` says nothing about the counter; `IInv` adds
that. A step registers a DID, rewrites a document under its controller, writes a
credential of a stored issuer, or touches no record, with a lemma for each. For
the refinement, a rewritten document changes one answer of `resolve_did`
(`OneDidChanges`) and a written record one answer of `credential_status`
(`OneHashChanges`), so that every entry point maps to the action of the same
purpose, and an update to a stutter.

`AgreementSystem_proofs` composes the two, from the assumptions of both modules:

- `SystemImplementsAgreement`: the pair implements `OrchestratedAgreement`, so all
  theorems about the agreement contract hold of the pair;
- `RevokedFundedAlwaysStuck`: an agreement funded under a credential that was
  revoked stays funded under it while the live registry is configured.

A registry transaction is a lifecycle step by the refinement just named, an
agreement transaction leaves the answers alone. For the second, the revoked record
is never written again (`RevokedStays`), so the compliance check fails
(`RevokedFails`), and `Evolves` lets a funded agreement that fails it go nowhere.
`SameRegistry` and `SameAgreement` identify the instances of the system with those
of the two proof modules, which TLA+ names apart.

`Payments_proofs` proves, for any assets, claims, prices and bounds:

- `ReportsTrueProved`: a hash the command did not make up belongs to a transaction the
  ledger has carried out, a locked wallet's payment is never simulated, and decline-all
  is refused only when what it had read had changed, or for what its filter does not look
  at: a claim that cannot be taken, a sponsor who cannot be paid back, an issued XLM
  (`report.hindered`);
- `OnePayment`: a fetch pays at most once, never in a dry run, never above the cap;
- `DeclinePaysByCodeProved`: a batch of declines, also one that lands after its answer
  was lost, leaves every holding as it was but for issued assets called XLM: those are
  kept, and lumens are spent just when one was;
- `DeclineReturnsOtherwise`: where no issued asset is called XLM, every holding stays.

The invariant says of a command which steps it may still do and what it has learnt
(`JobOK`): a purchase over x402 has one paid retry ahead of it at most and has looked
at the cap by then, and a batch of declines is built from claims and trustlines read no
later than the sequence number it is sent with. Two lemmas about the ledger carry the
rest: such a batch gives back what it takes, in lumens where the code of the asset is
XLM, and one built on the present state of the ledger goes through unless it is hindered.

`TradeDesk_proofs` proves, for any requests, commands, streams, goroutines, networks
and number of ends of the process:

- `RunnersAlwaysInReach`: a goroutine that runs can be cancelled through the table, and
  a change of network is about to cancel it when it is on the other one, unless a
  concurrent start pushed it out of the table (`history.lost`);
- `DeskAlwaysConsistent`: type correctness, file and memory agree on the network but for
  writes that failed and changes that crossed, one fetch of balances per window;
- `DeletedStaysDeleted`: with nothing in flight a deleted strategy stays deleted.

The invariant adds that a request goes through the steps its handler was written with
(`Doing`), that an entered goroutine waits for the one request that launches it
(`Launches`), and that while goroutines of the old network are listed, or the file is
not written, there is a request that will see to it (`Bound`, `Saving`).

The module goes on with two theorems about the strategies the desk runs, of which it takes
an INSTANCE (`Offers`), from `LadderAssumption`:

- `FillsAlwaysCounted`: `FillsCounted` of `OfferReconciliation`: every execution is of a
  fill and the total never exceeds the executions, whoever writes an old copy of the row
  back; without a crash every fill has its execution, and when no other command wrote the
  row either, the total is the number of fills;
- `RecordsAlwaysTrue`: `RecordsAgree` of `OfferReconciliation`: the state is well formed;
  while a cycle may be refused and nothing else goes wrong, each resting offer of the
  ladder is the one its record names when a cycle is over; no record says "canceled" of an
  offer that rests, whatever is lost, taken, refused, done by hand or killed.

`LadderAssumption` asks for a ladder of finitely many orders and at least one (a strategy
has 1 to 20 levels, `bots.go:115`, `:182`), each with a side, a level and an offset, a
positive amount, natural prices, funds and bounds, and for values that stand for "by hand"
and "no offer" and are neither orders nor offers.

`Counted` adds to the invariant how far the total, the executions and the fills are apart
between the writes of one sync, in the row and in every copy of it that a cycle or a
command still holds, and `Sent` that a transaction creates finitely many
offers, without which cardinalities say nothing about the counter. An instance has its
own copy of the operators of FiniteSets; `SameSizes` says that they agree with the
library's.

`RecInvariant` is what `RecordsAgree` needs. A cycle and a command work on copies of
records that they read some calls ago, and the file may have changed since, so an
invariant about the file and the exchange alone is not inductive. It adds:

- an identifier is given out once (`Given`), so an offer that was canceled or filled
  never rests again, and a record that calls it canceled stays right;
- whoever waits, waits for the one transaction it sent, and what it sent is what it
  remembers (`Waiting`); a transaction whose sender died or gave up is for nobody;
- a copy that will be saved as "canceled" is of an offer its transaction cancels, and
  once the answer is there the offer is gone (`Gone`);
- in the faultless behaviours every resting offer is the one its record names, but for
  the moment between the answer and the save, where the cycle's own answer names it
  (`Peace`); an update keeps the identifier, a create goes with the end of the offer it
  replaces, so there is never a second offer for an order;
- the account owns at least what its offers promise (`Ledger`).

The last is about a sum over the book, which a transaction changes at many offers at
once. The sum is a fold, a recursive definition, and the library's induction theorems
cannot be instantiated; but a least counterexample can be taken (`Smallest`, from the
well-foundedness of the natural numbers), and that is enough to show that a table of the
sums over every part of a finite set exists (`Table`), is unique (`TablesAgree`) and
takes its members in any order (`TableAdds`). `SumWithout` and `SumLess` are what the
steps use.

The module ends with the runtime row that the loops of the desk and of the command line
share, an INSTANCE (`Run`) of `StrategyRuntime`, for any processes, command lines, lease,
interval, limit of errors and launches, from `TradingAssumption`:

- `RuntimeTypeCorrect`: `TypeOK` of `StrategyRuntime`: rows, copies and labels are well
  formed, and there is one runtime row at most;
- `KillTakesHold`: once a kill has saved the switch and paused the strategy, every
  process that runs the strategy is held (`Killed`), at whatever point of a cycle it is;
- `KillAlwaysStands`: `KillStands` of `StrategyRuntime`, that is, it stays so until it ends and places no
  order, while no other process runs and no command is in the middle.

A run is held by the switch (`BySwitch`: on, also in the copy it is about to write back)
or by the status (`ByStatus`: not active, and the run is past the save of its cycle).
`OwnStepKills` follows a cycle through its steps: `SaveCycle` undoes the pause only
before the row is read, so the switch is in the copy that is written back; a copy without
the switch is only written by a run that saved the strategy before it was paused, and it
looks at the status next. `RunInvariant` adds that a process that has still to claim does
not hold the strategy (`ClaimsOnce`), since a claim writes a new row without the switch.
Without `Alone` the statement is false for the same reason: a second process, which gets
in when two claim at once (section 6), starts the row again.

`WalletStore_proofs` proves, for any wallets, processes, tabs and bounds on commands and
kills:

- `WalletsAlwaysConsistent`: type correctness, the active wallet is listed, and between
  commands registry and files list the same wallets;
- `SeedAlwaysKept`: wherever a process is killed, the seed of a stored wallet can be had
  from its file and the keychain, as long as no lock file was left behind;
- `LockedNeverSigns`: between commands no older file signs for a protected wallet that
  is not unlocked.

Its commands are lists of operations, and lists are data, over which nothing can be
proved by induction. A short table (`Then`) says which operation may follow which; a
group of lemmas that ends in `CommandsAre` shows that every command built by the
operators of the module obeys it; a list that obeys it has a tail that does. From there
on only the operation a process is at matters: the invariant says how far files and
registry, older copies and accounts, keychain and sealed accounts may differ just before
it (`FilesOf`, `CleanOf`, `SeedsOf`), who holds the lock (`LockOf`), and that between two
commands, and before the first operation of an attempt, they do not differ (`Settled`).

`Swaps_proofs` proves, for any assets, amounts, prices, routes and bounds:

- `AlwaysReportsTrue`: type correctness; what is reported as done was carried out, all
  of it, and the payment saved for the reports is one of those; what is reported as failed
  or as not found is not on its way any more, and was not carried out either, unless it is
  "not found" because no look-up was answered;
- `AlwaysRoundTripsEndFlat`: between commands round trips have left no counter asset
  behind, unless a failure was reported or legs were traded as quoted;
- `AlwaysLimitsHold`: a transaction that lands, at once or after its answer was lost,
  keeps what the program promises: profit and fee of a round trip; the slippage of a swap,
  counted from the quote, or for a zk swap that found one from the direct path.

Here too a command is a list and a table does the work of an induction. What a step may
do depends on where the attempt is (`State`): how many quotes it has, and for a round
trip in two transactions whether nothing is bought, the balance is known, leg A is
done, what arrived is measured, or that is quoted. `Leads` says which step leads from
which state to which; `CommandsAre` shows that each of the commands is a path through it
that ends where nothing is bought. The invariant says for each state how balance, what
the account should hold, and what the job remembers compare (`Balanced`): when the
balance was read it was the account's own, so what is over it when leg A has landed is
at most what leg A brought and others paid in, and selling it leaves no more than was
paid in. It adds that transactions built are `Sound` with respect to their limits, that
identities are fresh, that what is on its way was not carried out and, without an
excuse, is a cycle, and that transactions carried out and submissions ahead together are
the number the command wanted (`Settling`).

The module ends with a theorem about the chat that orders these swaps, of which it takes
an INSTANCE (`Chat`):

- `AlwaysConfirmedOnce`: `ConfirmedOnce` of `ChatSession`, from `ChatAssumptions`, for
  any networks, opportunities and number of messages: only what the user has in view and
  confirmed is executed, at most one thing per message, each once, none after it was
  withdrawn, and a swap on the network it was quoted for.

A handler is one of a few lists of steps (`Plans`), and the step it is at tells which
(`PlanOf`). Everything the user is shown gets a fresh number (`Open`, `Shown`), and a
handler that is about to execute something has behind it a message, later than the one
that showed it, which the user meant as a confirmation (`Meets`). That the rules take
such words for a confirmation, and no others for one, is a lemma of its own
(`RulesConfirm`, `IntentConfirms`).

`SorobanClients_proofs` proves, for any terminals, DIDs, contracts, agreements, commands,
faults and kills, from `ClientAssumptions` (at least one contract, room for one
agreement):

- `AlwaysReportsTrue`: type correctness; what is reported as done was carried out, and
  what is reported as rejected or failed never was;
- `AlwaysConfigKept`: the configuration names the account's own agreements and contracts
  that exist, and as long as commands come one at a time, none is killed and no write
  fails, an agreement the user was told of is in `config.json` or its command still runs.

Commands are lists again, with the table `Leads` over the states of a transaction
(`State`: new, free, ready, sent, done, decoded, recorded, torn) and `CommandsAre`; the
command that anchors a credential leaves steps out of its list while it runs
(`Anchoring`). For each state the invariant says what is known of the transaction
(`Tracks`) and what the copy of the configuration in memory holds that the file does not
(`Remembers`). A transaction is in one place only (`OnTheWay`), and no two commands have
the same one (`Distinct`), so that a step of one terminal leaves what the others know
true (`Steady`). The last clause of `ConfigKept` rests on `Calm`: with one command at a
time, whoever writes the file has read all of it.

TLC checked the invariants these proofs rest on with the runs of their components before
they were proved.

Only model-checked: the liveness properties, because the prover has no support for
`ENABLED`, to which the fairness conditions expand. What a fold or a recursive definition
computes for every input stays with TLC too, the sums over a book apart, because the
provers cannot instantiate the library's induction theorems.

## 6. Seen while modelling

What follows is what the code does where that surprised us. The models do it
too; the properties say what holds in spite of it. None of it is a judgement on
what was intended, except where a comment is quoted.

**Contracts.** `release_escrow` (`orchestrated_agreement.rs:792`) and
`set_metadata` (`:1258`) do not look at the pause flag, while
`contracts/ARCHITECTURE.md:274` says "State-changing operations revert when
paused". An agreement without an expiry can be settled at the timestamp of its
execution (`:501`), the comment at `:467` says "Seconds after execution for
dispute filing". `resolve_dispute` leads back from Disputed to Executed, against
"One-way state progression" (ARCHITECTURE.md:237); `add_integrations` replaces
the layer of an executed agreement and a second attestation replaces the hash
of the first.

**Trading runtime.** `acquireRuntime` reads and then writes (`service.go:401`,
`:404`): two processes that read at the same time both run the strategy. A claim
that `RunActive` was refused still refreshes the heartbeat of the row's owner (`:330`,
`:450`), so that a crashed claim can be kept alive, and so that, of two `RunActive`
loops, the one that is refused at every poll keeps the owner from ever being due: the
strategy stays active and is not run, although the comment at `:302` says "RunActive runs
all active strategies for the service network". The kill switch is a
field of the runtime row and goes with it (`:408`, `:366`, `:479`). A stop or
pause given during a cycle is undone by the cycle's save (`:277`, `:143`), and a
deleted strategy is brought back by it.

**Offer reconciliation.** Two records with the same price and amount adopt one
live offer (`reconcile.go:165`, `bots.go:155`) and the ladder then never comes to
rest. After a lost answer the records in status error count beside the live
offers in the risk check, and the ladder is refused (`reconcile.go:372`). A fill
between the fill sync and the next read of the offers may never be recorded; only
the latest 200 trades are read. `MaxDailyLoss` and `MaxDrawdown` cannot trigger
for strategies that rest orders: nothing sets the figures they are compared with.
`CancelStrategyOffers` saves a record it read before the cancel. A crash between
`SaveFill` and `SaveExecution` loses the execution. The count of trades is part of the
strategy row, which cycles and commands write back as they read it (`reconcile.go:599`,
`service.go:277`): a count is lost without any crash when a command given during a cycle
saves the row after it, or a cycle after a `run --once`.

**Wallets.** Every balance refresh registers the wallet again, which makes it
the active one and drops its friendly name. The registry is read before the lock
is taken (`service.go:551`), and a write between is lost or an entry comes back, while the
comment at `:525` speaks of "concurrency safety". The clean-up of a legacy
`account_stellar.json` can remove the only copy of a seed. Importing over an
unlocked protected wallet and registering a passkey again leaves it unlocked by
the old grant. `LoadStellarKeypair` falls back to another wallet's cached seed
when the active wallet is external. The MCP tool that funds a wallet stores
nothing. With the finish request sent from two tabs, the second handler can block on the
channel of one result (`webauthn/server.go:187`) and `Close` waits for it for ever.

**Swaps.** The round trips trade the quoted amount in the later legs, not what
arrived; where the code takes the difference of two balances, a deposit in
between is sold with it. The slippage, already a fraction, is divided by 100
once more. A zk swap prefers a direct path to the quoted one wherever it
stands in the list, and takes its limits from it (`service.go:669-748`): it may be worse
than the summary the user confirmed by any amount. When every look-up fails until the
deadline, a round trip that landed is reported as "not found on ledger"
(`service.go:1128-1140`, `:1235`), and trying again trades twice. `ExecuteSwap` reports a
lost answer as a failure; "not submitted"
(`chat.go:803`) is also said when an earlier leg was submitted. A simulated swap
is printed as confirmed and saved as CONFIRMED. The command that executes one
chosen opportunity executes the first of the list. `swap execute` does not look
at `ValidUntil`. A 504 answer without result codes ends the process in a panic.

**Payments.** With an unreadable registry a locked protected wallet's payment is
simulated and reported as confirmed (`torn` excuses it in the model). Assets
other than XLM are simulated even with a key. The ZK rail pays one XLM more than
the others. The direct and ZK rails have no time bound on the transaction.
A payment may land after an error, or the panic, was
reported. Declining pays native lumens back whenever the asset code is XLM, also for an
issued asset of that code (`claimables/service.go:271`, `:386`), which the account then
keeps, although the command says "return them to their sponsors" (`claimable.go:388`).
Decline-all leaves out claims by their trustlines only: one claim whose condition is not
met, or whose sponsor cannot be paid back, fails the whole batch.
Accept-all looks at the first page only and not at trustlines; the counts of
accept-all and decline-all are those of an earlier list (`claimable.go:405`).
Declining pays back the amount that was typed. After a lost answer the x402
client says that nothing was attempted although the authorization may be
settled, and an answer of 2xx without a settlement header counts as completed.
The MCP tools `pay_send`, `asset_trust`, `asset_create` and `pay_zk` return
made-up hashes.

**Soroban clients.** DUPLICATE is reported as a success without waiting
(`client.go:230`; the comment at `:210` says
"polls until it's confirmed on-chain"), after which
`register_soroban_did` errs and an agreement's id is not recorded.
TRY_AGAIN_LATER is polled for as if it had been accepted. The context ends after
two minutes, the transaction after five, so a command that reported a failure may
still take effect, and its retry makes a second agreement or contract. The whole
configuration is written back after the wait, and a torn `config.json` loads as
the defaults. Deploying any contract overwrites `ContractID`, a change of network
keeps it. `LastAgreementID` is a hash of initiator and counter. `contract execute`
makes up a transaction hash. Failures of `--register` and `--anchor` are
warnings. `verify` prints REVOKED and succeeds.

**Dashboard.** Two concurrent starts of a strategy overwrite each other's entry
in the table of runners (`server.go:532`), and one goroutine is then reachable by nothing
(`history.lost`): it goes on trading on the old network after a change. A strategy paused
and deleted during a cycle comes back active when the cycle saves its row
(`store.go:274`). When the configuration cannot be saved, the answer to the retry
is "ok" although nothing was saved. Two changes of network at once may leave file
and memory different. The map of cached balances is written without a lock, which
may end the process, and is keyed by address without the network. `Serve` does
not wait for the goroutines it cancels: their claims block a restart for the two
minutes of the lease. A request in flight can start a goroutine after the runners
were stopped. A shutdown with an open event stream takes the full five seconds.
Kill in the dashboard cancels no offers, and the runtime row cleared by the
ending goroutine takes the switch with it. A live cycle trades from the active
wallet rather than `strategy.Wallet`, while `CancelStrategyOffers` refuses another
wallet.

**Chat.** Neither "cancel" nor a change of network clears the opportunities
(`chat.go:745` says "Type 'cancel' to clear opportunities"), so a cycle found on
one network can be executed on another. A quote's network is captured before
`ensureWalletOnNetwork`, which may move session and
configuration (`chat.go:391`, `:433`), so it is asked for on the network just left; a payment may
move it with a quote pending (`moved` excuses both). A failed write of the
registry makes the session follow the active wallet's network. A "yes" meant for a
payment, or the last parameter of an operation, first executes a pending quote. A
payment whose parameters were collected one by one answers "Operation completed!"
without paying, and payments in the chat are shown as made only. With a language
model parameters cannot be given, no opportunity can be picked (numbers arrive as
floats), and `set_network` stores any name. Words match inside words ("now"
contains "no"). Trustlines are submitted without being confirmed. The change of
network is not saved.

## 7. Not modelled

Whole parts: the ZK verifier contract (a stub without state); price feeds, signals
and the backtests (floating point over series, nothing shared); the exchange
registry (a guarded map); ISO 20022 messages and reports (formatting); the
mathematics of ZK proofs, ciphers and hashes; the clients of third-party
services; the terminal interface.

Inside the parts that are modelled:

- contracts: who signs, events, storage lifetimes, read-only queries,
  `score_to_grade`; `update_did`'s contents beyond a version number;
- contracts, continued: the verifier a caller of `attest_identity` may name
  (`orchestrated_agreement.rs:612`): its refusal is a panic, which changes nothing, and a
  call without a verifier is always possible, so the reachable states are the same;
- trading: performance figures, several strategies in one `RunActive` (their
  rows do not meet), dry runs that plan orders, `CancelAll`, the loss limits, the
  signal-only strategies. Failures of SQLite inside a loop: after a runtime row that cannot
  be read the code goes on with a made-up one without kill switch (`service.go:418`,
  `:432`, `:480`), and `checkRisk` lets the order through (`reconcile.go:330`), so
  `KillStands` and the invariants of the runtime hold for a database that answers;
- offers: two live cycles of one strategy at once (`run --once --live` beside a runner),
  a cancel command killed between its saves; the other process does not see half of a run
  of saves that is not interrupted;
- wallets: names, balances, networks; files are written whole here (torn writes
  of the registry and of `config.json` are modelled in `Payments` and
  `SorobanClients`); what makes a WebAuthn answer valid;
- swaps and payments: metrics, statistics, ZK proofs, base assets other than
  XLM, pools (read only), fees and reserves, whether the recipient of a payment exists and
  trusts the asset, headers and URL checks of x402;
- Soroban clients: encoding of arguments, signatures of credentials, the HTTP
  credential API, `UpdateDID` of the Go client, price feeds;
- dashboard: authentication, pages, order forms, which wallet becomes active. `StopRunner`
  takes the entry out of the table and cancels in one step and `MayRun` reads three things
  at once; nothing can be observed between them;
- chat: the second collection of missing parameters after `normalizeSwapParams`, memories,
  suggestions, the wallet cache, training of models, the wording
  of messages beyond their word classes;
- MCP: initialisation and parameter prompts.

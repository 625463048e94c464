---------------------------- MODULE OfferReconciliation ----------------------------
(***************************************************************************)
(* One trading strategy that keeps resting offers on the Stellar exchange  *)
(* (internal/trading/reconcile.go, bots.go, internal/market).  A cycle     *)
(* reads prices, account, trades, offers and its own records one after the *)
(* other, submits one transaction, and records what came of it; meanwhile  *)
(* offers are taken, answers get lost, the process may die, and a command  *)
(* cancels offers.                                                         *)
(*                                                                         *)
(* An offer identifier is a pair: what asked for it, and a number.  The    *)
(* code sees it as opaque; the properties use its first half.              *)
(***************************************************************************)
EXTENDS Naturals, FiniteSets, FiniteSetsExt, Functions

CONSTANTS
    Intents,         \* the orders of the ladder, "sell-0", "buy-0", ...
    Side,            \* [Intents -> {"buy", "sell"}]
    Level,           \* [Intents -> Nat], the order the code goes through them
    Offset,          \* [Intents -> Nat]: distance from the reference price
    MakerOnly,       \* the intents created as passive offers (sells only)
    Prices,          \* reference prices
    MaxPrice,        \* max_price of a sell strategy
    Amount,          \* amount_per_level
    FundModes,       \* balances to start from, a set of [{"buy", "sell"} -> Nat]
    CancelOrphans,   \* parameter cancel_orphans
    MaxOpenTrades,   \* risk limit, 0 is none
    FaultModes,      \* the sets of Faults a behaviour may suffer
    NoOffer,         \* offer id 0
    Manual,          \* who asks for offers by hand (SubmitOffer)
    MaxOffers,       \* bound: offers per intent
    MaxTrades,       \* bound: trades
    MaxMoves,        \* bound: changes of the reference price
    MaxMishaps       \* bound: lost answers, crashes, commands and offers by hand

Sides == {"buy", "sell"}

\* What may go wrong: "lost" answers, "crash"es, commands that "cancel" or "edit",
\* offers "taken" before they rest, cycles "refused" by a feed, the wallet or a
\* limit, offers placed and canceled by "hand".
Faults == {"lost", "crash", "cancel", "edit", "taken", "refused", "hand"}

ASSUME LadderAssumption ==
    /\ IsFiniteSet(Intents) /\ Intents # {} /\ Manual \notin Intents
    /\ NoOffer \notin Intents \cup {Manual} \cup (Intents \cup {Manual}) \X (1..MaxOffers)
    /\ Side \in [Intents -> Sides]
    /\ Level \in [Intents -> Nat]
    /\ Offset \in [Intents -> Nat]
    /\ MakerOnly \subseteq {i \in Intents : Side[i] = "sell"}
    /\ Prices \subseteq Nat
    /\ Amount \in Nat \ {0}
    /\ FundModes \subseteq [Sides -> Nat]
    /\ FaultModes \subseteq SUBSET Faults
    /\ {MaxOffers, MaxTrades, MaxMoves, MaxMishaps} \subseteq Nat

OfferIds == (Intents \cup {Manual}) \X (1..MaxOffers)

VARIABLES
    faults,      \* the faults of this behaviour
    price,       \* the reference price of the feed
    moves,       \* how often it changed
    mishaps,     \* mishaps so far: losses, crashes, commands, offers by hand
    offers,      \* live offers of the account: id -> [side, price, amount]
    created,     \* how many offers each intent ever got
    balance,     \* what the account owns, per side, in units of an offer
    inflight,    \* transactions sent and not yet decided
    trades,      \* trades of the account: [offer, nr]
    managed,     \* the strategy's records, one per intent (table managed_offers)
    fills,       \* trades recorded as fills
    executions,  \* fills with an execution
    total,       \* total_trades, in the strategy's row and in the copies of it
    cycle,       \* the runner's memory
    command      \* the memory of a cancel command

ledgerVars == <<offers, created, balance, trades>>
storeVars == <<managed, fills, executions, total>>
envVars == <<faults, price, moves, mishaps>>
vars == <<envVars, ledgerVars, inflight, storeVars, cycle, command>>

(***************************************************************************)
(* The records of the code                                                 *)
(***************************************************************************)

Offer == [side: Sides, price: Nat, amount: 1..Amount]

Statuses == {"none", "desired", "open", "submitted", "closed", "canceled", "error"}

\* A record; recent: younger than the two minutes of grace.
Managed == [status: Statuses, offer: OfferIds \cup {NoOffer}, price: Nat,
            amount: 0..Amount, recent: BOOLEAN]

NoRecord == [status |-> "none", offer |-> NoOffer, price |-> 0, amount |-> 0,
             recent |-> FALSE]

\* Operations of a transaction; turn: their order in it, as far as it matters.
Actions == [kind: {"create", "update", "cancel"}, intent: Intents \cup {NoOffer, Manual},
            offer: OfferIds \cup {NoOffer}, price: Nat, turn: Nat]

\* Total_trades of the row, of the copy a cycle works on, and of the copies that
\* other commands will write back.
Totals == [row: Nat, cycle: Nat, edits: SUBSET Nat]

\* A submitted transaction: whether the sequence number it uses is still the next
\* one of the account, its operations, who waits.
Transactions == [next: BOOLEAN, actions: SUBSET Actions, for: {"cycle", "command", "nobody"}]

Tx(actions, who) == [next |-> TRUE, actions |-> actions, for |-> who]

Idle == [pc |-> "idle", desired |-> <<>>, spendable |-> [s \in Sides |-> 0],
         live |-> <<>>, actions |-> {}, records |-> <<>>, answer |-> "none",
         ids |-> <<>>]

NoCommand == [pc |-> "idle", live |-> <<>>, all |-> FALSE, records |-> <<>>, answer |-> "none"]

Init ==
    /\ faults \in FaultModes
    /\ price \in Prices
    /\ moves = 0
    /\ mishaps = 0
    /\ offers = <<>>
    /\ created = [i \in Intents \cup {Manual} |-> 0]
    /\ balance \in FundModes
    /\ inflight = {}
    /\ trades = {}
    /\ managed = [i \in Intents |-> NoRecord]
    /\ fills = {}
    /\ executions = {}
    /\ total = [row |-> 0, cycle |-> 0, edits |-> {}]
    /\ cycle = Idle
    /\ command = NoCommand

(***************************************************************************)
(* The ledger and the exchange                                             *)
(***************************************************************************)

Liabilities(book, s) ==
    MapThenSumSet(LAMBDA o : book[o].amount, {o \in DOMAIN book : book[o].side = s})

Spendable(s) ==
    LET locked == Liabilities(offers, s)
    IN  IF balance[s] > locked THEN balance[s] - locked ELSE 0

Creates(actions) == {a \in actions : a.kind = "create"}

NewId(i) == <<i, created[i] + 1>>

SideOf(i) == IF i = Manual THEN "sell" ELSE Side[i]

Last(actions) == CHOOSE a \in actions : \A b \in actions : b.turn <= a.turn

\* The book after the operations of one transaction; `taken`: the creations
\* that are matched at once and leave no offer.
BookAfter(actions, taken) ==
    LET gone    == {a.offer : a \in {b \in actions : b.kind = "cancel"}}
        new     == {NewId(a.intent) : a \in Creates(actions) \ taken}
        Change(o) == {a \in actions : a.kind = "update" /\ a.offer = o}
    IN  [o \in ((DOMAIN offers) \ gone) \cup new |->
            IF o \in new
            THEN [side |-> SideOf(o[1]), amount |-> Amount,
                  price |-> (CHOOSE a \in Creates(actions) : a.intent = o[1]).price]
            ELSE IF Change(o) # {}
                 THEN [offers[o] EXCEPT !.amount = Amount,
                                        !.price = Last(Change(o)).price]
                 ELSE offers[o]]

\* All operations of a transaction succeed, or none: they name live offers, an
\* offer is not used after its cancellation, and the account can cover the book.
Executable(actions) ==
    /\ \A a \in actions : a.offer # NoOffer => a.offer \in DOMAIN offers
    /\ \A a, b \in actions :
          a.kind = "cancel" /\ a.offer = b.offer /\ a # b =>
              b.kind = "update" /\ b.turn < a.turn
    /\ \A s \in Sides : Liabilities(BookAfter(actions, {}), s) <= balance[s]

\* Who waits for the transaction gets its answer.
Answer(tx, answer, ids) ==
    /\ cycle' = IF tx.for = "cycle"
                THEN [cycle EXCEPT !.answer = answer, !.ids = ids] ELSE cycle
    /\ command' = IF tx.for = "command" THEN [command EXCEPT !.answer = answer] ELSE command

\* The other transactions in flight once the next sequence number is used up.
Outdated(tx) == {[other EXCEPT !.next = FALSE] : other \in inflight \ {tx}}

\* A transaction with the next sequence number is decided; it may execute.
Execute(tx) ==
    /\ tx \in inflight
    /\ tx.next
    /\ Executable(tx.actions)
    /\ \A a \in Creates(tx.actions) : created[a.intent] < MaxOffers
    /\ inflight' = Outdated(tx)
    /\ \E taken \in SUBSET Creates(tx.actions) :
          /\ taken # {} =>
                /\ "taken" \in faults
                /\ Cardinality(trades) + Cardinality(taken) <= MaxTrades
                /\ \A a \in taken : a.intent \notin MakerOnly
          /\ offers' = BookAfter(tx.actions, taken)
          /\ created' = [i \in DOMAIN created |->
                IF \E a \in Creates(tx.actions) \ taken : a.intent = i
                THEN created[i] + 1 ELSE created[i]]
          /\ trades' = trades \cup {[offer |-> <<a.intent, 0>>, nr |-> created[a.intent]] : a \in taken}
          /\ balance' = [s \in Sides |->
                balance[s] - Amount * Cardinality({a \in taken : SideOf(a.intent) = s})]
          /\ Answer(tx, "ok",
                [a \in {b \in tx.actions : b.kind # "cancel"} \ taken |->
                    IF a.kind = "create" THEN NewId(a.intent) ELSE a.offer])
    /\ UNCHANGED <<envVars, storeVars>>

\* It fails, using up its number, or is refused for a number used already.
Reject(tx) ==
    /\ tx \in inflight
    /\ \/ ~tx.next /\ inflight' = inflight \ {tx}
       \/ tx.next /\ ~Executable(tx.actions) /\ inflight' = Outdated(tx)
    /\ Answer(tx, "failed", <<>>)
    /\ UNCHANGED <<envVars, offers, created, balance, trades, storeVars>>

\* The time bounds of an abandoned transaction (60 s) pass.
Expire(tx) ==
    /\ tx \in inflight
    /\ tx.for = "nobody"
    /\ inflight' = inflight \ {tx}
    /\ UNCHANGED <<envVars, ledgerVars, storeVars, cycle, command>>

\* Somebody takes an offer, whole or in part.
Fill(o, n) ==
    /\ o \in DOMAIN offers
    /\ n \in 1..offers[o].amount
    /\ Cardinality(trades) < MaxTrades
    /\ offers' = IF n = offers[o].amount
                 THEN Restrict(offers, (DOMAIN offers) \ {o})
                 ELSE [offers EXCEPT ![o].amount = @ - n]
    /\ balance' = [balance EXCEPT ![offers[o].side] = @ - n]
    /\ trades' = trades \cup {[offer |-> o, nr |-> Cardinality(trades)]}
    /\ UNCHANGED <<envVars, created, inflight, storeVars, cycle, command>>

MovePrice ==
    /\ moves < MaxMoves
    /\ price' \in Prices \ {price}
    /\ moves' = moves + 1
    /\ UNCHANGED <<faults, mishaps, ledgerVars, inflight, storeVars, cycle, command>>

\* SubmitOffer and CancelOfferByID: one transaction, nothing recorded.
SubmitOffer ==
    /\ "hand" \in faults
    /\ mishaps < MaxMishaps
    /\ mishaps' = mishaps + 1
    /\ Spendable("sell") >= Amount
    /\ \E p \in Prices :
          inflight' = inflight \cup {Tx({[kind |-> "create", intent |-> Manual, turn |-> 0,
                                           offer |-> NoOffer, price |-> p]}, "nobody")}
    /\ UNCHANGED <<faults, price, moves, ledgerVars, storeVars, cycle, command>>

CancelOfferByID(o) ==
    /\ "hand" \in faults
    /\ o \in DOMAIN offers
    /\ mishaps < MaxMishaps
    /\ mishaps' = mishaps + 1
    /\ inflight' = inflight \cup {Tx({[kind |-> "cancel", intent |-> NoOffer, offer |-> o, turn |-> 0,
                                        price |-> offers[o].price]}, "nobody")}
    /\ UNCHANGED <<faults, price, moves, ledgerVars, storeVars, cycle, command>>

(***************************************************************************)
(* One cycle of the runner                                                 *)
(***************************************************************************)

To(label) == [cycle EXCEPT !.pc = label]

\* The ladder around a reference price.  A sell above max_price is left out.
PriceOf(i) == IF Side[i] = "sell" THEN price + Offset[i] ELSE price - Offset[i]

Ladder == {i \in Intents : Side[i] = "sell" => PriceOf(i) <= MaxPrice}

\* ReconcileStrategy up to the account, on the strategy row the loop has just
\* loaded: the bot's orders, the account's balances.
GenerateOrders ==
    /\ cycle.pc = "idle"
    /\ \A i \in Ladder : PriceOf(i) > 0
    /\ total' = [total EXCEPT !.cycle = total.row]
    /\ cycle' = [cycle EXCEPT !.pc = "sync",
                              !.desired = [i \in Ladder |-> PriceOf(i)],
                              !.spendable = [s \in Sides |-> Spendable(s)]]
    /\ UNCHANGED <<envVars, ledgerVars, inflight, managed, fills, executions, command>>

\* Variant: trades recorded already are recorded again.
AnyFills == {t \in trades : \E i \in Intents : managed[i].offer = t.offer}

\* The trades of offers some record names that are not fills yet.
NewFills == {t \in trades \ fills : \E i \in Intents : managed[i].offer = t.offer}

\* SaveStrategy: the whole row is written from a copy read earlier.
WithRow(totals, n) == [totals EXCEPT !.row = n]

\* The cycle counts in its copy, which it writes back when there was something
\* new, and once more when it is over (RunOnce).
SyncFills ==
    /\ cycle.pc \in {"sync", "resync"}
    /\ fills' = fills \cup NewFills
    /\ executions' = executions \cup NewFills
    /\ LET count   == total.cycle + Cardinality(NewFills)
           counted == [total EXCEPT !.cycle = count]
       IN  total' = IF cycle.pc = "sync" /\ NewFills = {} THEN total ELSE WithRow(counted, count)
    /\ cycle' = IF cycle.pc = "sync" THEN To("risk") ELSE Idle
    /\ UNCHANGED <<envVars, ledgerVars, inflight, managed, command>>

\* Pause, Start, Stop, KillSwitch and a dry run write back the row they read;
\* what they change in it is the status (StrategyRuntime).
BeginEdit ==
    /\ "edit" \in faults
    /\ mishaps < MaxMishaps
    /\ mishaps' = mishaps + 1
    /\ total' = [total EXCEPT !.edits = @ \cup {total.row}]
    /\ UNCHANGED <<faults, price, moves, ledgerVars, inflight, managed, fills, executions,
                   cycle, command>>

SaveEdit ==
    /\ \E n \in total.edits : total' = WithRow([total EXCEPT !.edits = @ \ {n}], n)
    /\ UNCHANGED <<envVars, ledgerVars, inflight, managed, fills, executions, cycle, command>>

Desired == DOMAIN cycle.desired

Need(s) == Amount * Cardinality({i \in Desired : Side[i] = s})

\* What the strategy's own resting offers hold back, as its records tell.
Locked(s) ==
    MapThenSumSet(LAMBDA i : managed[i].amount,
        {i \in Intents : Side[i] = s /\ managed[i].status \in {"open", "submitted"}})

CoveredByFunds == \A s \in Sides : Need(s) <= cycle.spendable[s] + Locked(s)

\* An empty ladder is not checked.  A refusal ends the cycle.
CheckRisk ==
    /\ cycle.pc = "risk"
    /\ \/ /\ \/ Desired = {}
             \/ /\ MaxOpenTrades > 0 => Cardinality(Desired) <= MaxOpenTrades
                /\ CoveredByFunds
          /\ cycle' = To("offers")
          /\ UNCHANGED total
       \/ /\ Desired # {}
          /\ \/ MaxOpenTrades > 0 /\ Cardinality(Desired) > MaxOpenTrades
             \/ ~CoveredByFunds
             \/ "refused" \in faults
          /\ cycle' = Idle
          /\ total' = WithRow(total, total.cycle)
    /\ UNCHANGED <<envVars, ledgerVars, inflight, managed, fills, executions, command>>

ReadOffers ==
    /\ cycle.pc = "offers"
    /\ cycle' = [cycle EXCEPT !.pc = "plan", !.live = offers]
    /\ UNCHANGED <<envVars, ledgerVars, inflight, storeVars, command>>

\* offersEquivalent: side, price and amount agree (within the tolerances).
Equivalent(offer, s, p, amount) ==
    offer.side = s /\ offer.price = p /\ offer.amount = amount

Candidates(book, s, p, amount) ==
    {o \in DOMAIN book : Equivalent(book[o], s, p, amount)}

\* SaveManagedOffer: a row whose offer id is 0 leaves the id in the table alone.
Saved(records) ==
    [i \in Intents |->
        IF i \in DOMAIN records
        THEN [records[i] EXCEPT !.offer = IF @ = NoOffer THEN managed[i].offer ELSE @]
        ELSE managed[i]]

\* The process dies while it saves the records one by one, some of them in two steps:
\* any of them are saved, and of one at most only the first step.
PartlySaved(records, first) ==
    \E done \in SUBSET DOMAIN records : \E half \in SUBSET DOMAIN first :
        /\ Cardinality(half) <= 1
        /\ managed' = Saved([i \in done \cup half |-> IF i \in half THEN first[i] ELSE records[i]])

\* A record as it is saved now: the two minutes of grace start again.
Touch(r) == [r EXCEPT !.recent = r.status = "submitted" /\ r.offer = NoOffer]

\* The record of a desired intent, before it is compared with the live offers.
Refreshed(i) ==
    [managed[i] EXCEPT !.status = IF @ = "none" THEN "desired" ELSE @,
                       !.price  = cycle.desired[i],
                       !.amount = Amount]

\* Variant: a submission without an offer is waited for without end.
AwaitsForever(r, o) == o = NoOffer /\ r.status = "submitted"

\* A fresh submission whose offer is not known yet is waited for.
Awaited(r, o) == o = NoOffer /\ r.status = "submitted" /\ r.recent

Op(kind, i, o, p) == [kind |-> kind, intent |-> i, offer |-> o, price |-> p, turn |-> Level[i]]

\* Variant: the new passive offer is created beside the old one.
ReplaceBeside(i, o, p) ==
    IF i \in MakerOnly THEN {Op("create", i, NoOffer, p)} ELSE {Op("update", i, o, p)}

\* A passive offer cannot be updated in place.
Replace(i, o, p) ==
    IF i \in MakerOnly THEN {Op("cancel", i, o, p), Op("create", i, NoOffer, p)}
                       ELSE {Op("update", i, o, p)}

\* What becomes of the record of intent i whose offer is o, and the operations
\* it asks for.
PlanDesired(i, o) ==
    LET r    == Refreshed(i)
        live == o \in DOMAIN cycle.live
    IN  IF live /\ Equivalent(cycle.live[o], Side[i], r.price, Amount)
        THEN [record |-> Touch([r EXCEPT !.status = "open", !.offer = o]), actions |-> {}]
        ELSE IF Awaited(r, o)
        THEN [record |-> r, actions |-> {}]
        ELSE IF live
        THEN [record |-> Touch(r), actions |-> Replace(i, o, r.price)]
        ELSE [record |-> Touch([r EXCEPT !.status =
                            IF o # NoOffer /\ @ \in {"open", "submitted"} THEN "closed" ELSE @]),
              actions |-> {Op("create", i, NoOffer, r.price)}]

\* The operations for intents no longer desired follow those for the desired ones.
Afterwards == 1 + Max(Range(Level))

\* The record of an intent no longer desired.
PlanUnwanted(i) ==
    LET r == managed[i]
    IN  IF r.offer \in DOMAIN cycle.live
        THEN [record |-> r, actions |-> {[kind |-> "cancel", intent |-> i, offer |-> r.offer,
                                          price |-> cycle.live[r.offer].price,
                                          turn |-> Afterwards + Level[i]]}]
        ELSE [record |-> Touch([r EXCEPT !.status = "closed"]), actions |-> {}]

\* A record without an offer adopts a live offer that is what it wants.
Adopts(i, o) ==
    LET fit == Candidates(cycle.live, Side[i], cycle.desired[i], Amount)
    IN  IF managed[i].offer # NoOffer \/ fit = {} THEN o = managed[i].offer ELSE o \in fit

\* The offers the desired intents may take for theirs.
Adoptions == {id \in [Desired -> OfferIds \cup {NoOffer}] : \A i \in Desired : Adopts(i, id[i])}

Plan(id) ==
    LET unwanted == {i \in Intents \ Desired : managed[i].offer # NoOffer}
    IN  [i \in Desired \cup unwanted |->
            IF i \in Desired THEN PlanDesired(i, id[i]) ELSE PlanUnwanted(i)]

PlanWith(id) ==
    LET plan  == Plan(id)
        owned == {managed[i].offer : i \in Intents} \cup {id[i] : i \in Desired}
        orphans == IF CancelOrphans THEN (DOMAIN cycle.live) \ owned ELSE {}
        actions == (UNION {plan[i].actions : i \in DOMAIN plan}) \cup
                   {[kind |-> "cancel", intent |-> NoOffer, offer |-> o,
                     price |-> cycle.live[o].price, turn |-> 2 * Afterwards] : o \in orphans}
        records == [i \in DOMAIN plan |-> plan[i].record]
    IN  /\ managed' = Saved(records)
        /\ cycle' = [cycle EXCEPT !.pc = IF actions = {} THEN "resync" ELSE "submit",
                                  !.actions = actions,
                                  !.live = <<>>,
                                  !.records = Restrict(records,
                                      {i \in DOMAIN records : plan[i].actions # {}})]

PlanOffers ==
    /\ cycle.pc = "plan"
    /\ \E id \in Adoptions : PlanWith(id)
    /\ UNCHANGED <<envVars, ledgerVars, inflight, fills, executions, total, command>>

\* SubmitOffers loads the account for its sequence number, signs and sends.
SubmitOffers ==
    /\ cycle.pc = "submit"
    /\ inflight' = inflight \cup {Tx(cycle.actions, "cycle")}
    /\ cycle' = To("wait")
    /\ UNCHANGED <<envVars, ledgerVars, storeVars, command>>

Abandoned == {IF tx.for = "cycle" THEN [tx EXCEPT !.for = "nobody"] ELSE tx : tx \in inflight}

Failed(i) == Touch([cycle.records[i] EXCEPT !.status = "error"])

\* A failed or unanswered submission marks the records it was about.
SubmissionFailed ==
    /\ cycle.pc = "wait"
    /\ \/ cycle.answer = "failed" /\ UNCHANGED <<mishaps, inflight>>
       \/ /\ cycle.answer = "none"
          /\ "lost" \in faults
          /\ mishaps < MaxMishaps
          /\ mishaps' = mishaps + 1
          /\ inflight' = Abandoned
    /\ managed' = Saved([i \in DOMAIN cycle.records |-> Failed(i)])
    /\ cycle' = [Idle EXCEPT !.pc = "resync"]
    /\ UNCHANGED <<faults, price, moves, ledgerVars, fills, executions, total, command>>

\* The record of intent i after its operations succeeded, the last one deciding.
Applied(i) ==
    LET mine  == {a \in cycle.actions : a.intent = i}
        placed == {a \in mine : a.kind # "cancel"}
        ids   == {cycle.ids[a] : a \in placed \cap DOMAIN cycle.ids}
                    \cup {a.offer : a \in {b \in placed : b.kind = "update"}}
    IN  Touch([cycle.records[i] EXCEPT
                  !.status = IF placed = {} THEN "canceled" ELSE "submitted",
                  !.offer  = IF ids = {} THEN @ ELSE CHOOSE o \in ids : TRUE])

\* An offer replaced by another is first recorded as canceled.
Replaced == {i \in DOMAIN cycle.records :
                \E a \in cycle.actions : a.kind = "cancel" /\ a.intent = i}

CanceledFirst(i) == Touch([cycle.records[i] EXCEPT !.status = "canceled"])

ApplySubmissionResult ==
    /\ cycle.pc = "wait"
    /\ cycle.answer = "ok"
    /\ managed' = Saved([i \in DOMAIN cycle.records |-> Applied(i)])
    /\ cycle' = [Idle EXCEPT !.pc = "refresh"]
    /\ UNCHANGED <<envVars, ledgerVars, inflight, fills, executions, total, command>>

\* syncManagedOffers: the records follow the live offers; one without an offer
\* adopts any that has its side, price and amount.
Findings ==
    {id \in [Intents -> OfferIds \cup {NoOffer}] : \A i \in Intents :
        LET r   == managed[i]
            fit == Candidates(offers, Side[i], r.price, r.amount)
        IN  IF r.offer # NoOffer \/ r.status = "none" \/ fit = {}
            THEN id[i] = r.offer ELSE id[i] \in fit}

Follow(r, o) ==
    IF o \in DOMAIN offers
    THEN [r EXCEPT !.status = "open", !.offer = o, !.recent = FALSE,
                   !.price = offers[o].price, !.amount = offers[o].amount]
    ELSE [r EXCEPT !.status = IF @ \in {"submitted", "open"} THEN "closed" ELSE @]

Followed(id) == [i \in {j \in Intents : id[j] # NoOffer} |-> Follow(managed[i], id[i])]

SyncManagedOffers ==
    /\ cycle.pc = "refresh"
    /\ \E id \in Findings : managed' = Saved(Followed(id))
    /\ cycle' = To("resync")
    /\ UNCHANGED <<envVars, ledgerVars, inflight, fills, executions, total, command>>

\* Two minutes after a submission its record may be created anew.
GracePasses(i) ==
    /\ managed[i].recent
    /\ managed' = [managed EXCEPT ![i].recent = FALSE]
    /\ UNCHANGED <<envVars, ledgerVars, inflight, fills, executions, total, cycle, command>>

\* Fills are saved one by one, each fill before its execution and all before the
\* count.
CutFills ==
    \/ UNCHANGED <<fills, executions>>
    \/ /\ cycle.pc \in {"sync", "resync"}
       /\ \E done \in SUBSET NewFills : \E cut \in SUBSET (NewFills \ done) :
             /\ Cardinality(cut) <= 1
             /\ fills' = fills \cup done \cup cut
             /\ executions' = executions \cup done

\* So are the records.
CutRecords ==
    \/ UNCHANGED managed
    \/ /\ cycle.pc = "plan"
       /\ \E id \in Adoptions :
             PartlySaved([i \in DOMAIN Plan(id) |-> Plan(id)[i].record],
                         [i \in Desired |-> Touch(Refreshed(i))])
    \/ /\ cycle.pc = "wait"
       /\ cycle.answer = "failed"
       /\ PartlySaved([i \in DOMAIN cycle.records |-> Failed(i)], <<>>)
    \/ /\ cycle.pc = "wait"
       /\ cycle.answer = "ok"
       /\ PartlySaved([i \in DOMAIN cycle.records |-> Applied(i)],
                      [i \in Replaced |-> CanceledFirst(i)])
    \/ /\ cycle.pc = "refresh"
       /\ \E id \in Findings : PartlySaved(Followed(id), <<>>)

\* The process dies, between any two saves; the loop is started again later.
Crash ==
    /\ "crash" \in faults
    /\ cycle.pc # "idle"
    /\ mishaps < MaxMishaps
    /\ mishaps' = mishaps + 1
    /\ cycle' = Idle
    /\ inflight' = Abandoned
    /\ CutFills
    /\ CutRecords
    /\ UNCHANGED <<faults, price, moves, ledgerVars, total, command>>

(***************************************************************************)
(* CancelStrategyOffers, from another process                              *)
(***************************************************************************)

\* The offers are read first.  all: also those no record names.
BeginCancel(all) ==
    /\ "cancel" \in faults
    /\ command.pc = "idle"
    /\ mishaps < MaxMishaps
    /\ mishaps' = mishaps + 1
    /\ command' = [command EXCEPT !.pc = "list", !.live = offers, !.all = all]
    /\ UNCHANGED <<faults, price, moves, ledgerVars, inflight, storeVars, cycle>>

\* Then the records, of which it keeps one for each offer, as read, and the
\* cancellation is sent.
SendCancel ==
    LET named   == {i \in Intents : managed[i].offer \in DOMAIN command.live}
        targets == IF command.all THEN DOMAIN command.live ELSE {managed[i].offer : i \in named}
    IN  /\ command.pc = "list"
        /\ IF targets = {}
           THEN command' = NoCommand /\ UNCHANGED inflight
           ELSE /\ \E kept \in SUBSET named :
                      /\ \A i \in named : Cardinality({j \in kept : managed[j].offer = managed[i].offer}) = 1
                      /\ command' = [command EXCEPT !.pc = "wait", !.live = <<>>,
                                                    !.records = Restrict(managed, kept)]
                /\ inflight' = inflight \cup {Tx({[kind |-> "cancel", intent |-> NoOffer, offer |-> o, turn |-> 0,
                                                    price |-> command.live[o].price] : o \in targets}, "command")}
        /\ UNCHANGED <<envVars, ledgerVars, storeVars, cycle>>

FinishCancel ==
    /\ command.pc = "wait"
    /\ command.answer # "none"
    /\ managed' = IF command.answer = "ok"
                  THEN Saved([i \in DOMAIN command.records |->
                                 [command.records[i] EXCEPT !.status = "canceled",
                                                            !.recent = FALSE]])
                  ELSE managed
    /\ command' = NoCommand
    /\ UNCHANGED <<envVars, ledgerVars, inflight, fills, executions, total, cycle>>

(***************************************************************************)
(* Specification                                                           *)
(***************************************************************************)

CycleStep ==
    \/ GenerateOrders
    \/ SyncFills
    \/ CheckRisk
    \/ ReadOffers
    \/ PlanOffers
    \/ SubmitOffers
    \/ SubmissionFailed
    \/ ApplySubmissionResult
    \/ SyncManagedOffers

LedgerStep ==
    \E tx \in inflight : Execute(tx) \/ Reject(tx)

Next ==
    \/ CycleStep
    \/ LedgerStep
    \/ \E tx \in inflight : Expire(tx)
    \/ \E o \in DOMAIN offers, n \in 1..Amount : Fill(o, n)
    \/ MovePrice
    \/ SubmitOffer
    \/ \E o \in DOMAIN offers : CancelOfferByID(o)
    \/ \E i \in Intents : GracePasses(i)
    \/ Crash
    \/ BeginEdit
    \/ SaveEdit
    \/ \E all \in BOOLEAN : BeginCancel(all)
    \/ SendCancel
    \/ FinishCancel

\* The loop runs, the network decides what it is asked to, commands go on.
Fairness ==
    /\ WF_vars(CycleStep)
    /\ WF_vars(LedgerStep)
    /\ WF_vars(SendCancel)
    /\ WF_vars(FinishCancel)
    /\ \A i \in Intents : WF_vars(GracePasses(i))

Spec == Init /\ [][Next]_vars /\ Fairness

(***************************************************************************)
(* Properties                                                              *)
(***************************************************************************)

TypeOK ==
    /\ faults \subseteq Faults
    /\ price \in Prices
    /\ moves \in 0..MaxMoves
    /\ mishaps \in 0..MaxMishaps
    /\ DOMAIN offers \subseteq OfferIds
    /\ \A o \in DOMAIN offers : offers[o] \in Offer
    /\ created \in [Intents \cup {Manual} -> 0..MaxOffers]
    /\ balance \in [Sides -> Nat]
    /\ inflight \subseteq Transactions
    /\ managed \in [Intents -> Managed]
    /\ fills \subseteq trades
    /\ total \in Totals
    /\ Desired \subseteq Intents
    /\ cycle.actions \subseteq Actions

\* What a live offer should be for intent i.
Right(i, o) == Equivalent(offers[o], Side[i], PriceOf(i), Amount)

OwnOffers == {o \in DOMAIN offers : o[1] \in Intents}

\* While no answer is lost and nobody interferes, each live offer of the strategy
\* is the one the record of its intent names when a cycle is over: no order is
\* placed twice and none is forgotten (ReconcileStrategy, applySubmissionResult).
LadderIntact ==
    faults \subseteq {"refused"} /\ cycle.pc = "idle" =>
        \A o \in OwnOffers : managed[o[1]].offer = o

\* A record says "canceled" only of an offer that is gone, whatever is lost,
\* taken or saved late (applySubmissionResult, CancelStrategyOffers).
CanceledIsGone ==
    \A i \in Intents :
        managed[i].status = "canceled" => managed[i].offer \notin DOMAIN offers

\* What the records say of the offers is true: the state is well formed, the
\* ladder intact when nothing was lost, and no canceled offer rests.
RecordsAgree == TypeOK /\ LadderIntact /\ CanceledIsGone

\* Total_trades never counts a trade twice nor one without an execution, whoever
\* writes back an old copy of the row; it counts every fill unless the process died
\* while saving (syncFills) or another command wrote the row back meanwhile.
FillsCounted ==
    /\ executions \subseteq fills
    /\ total.row <= Cardinality(executions)
    /\ "crash" \notin faults => fills = executions
    /\ {"crash", "edit"} \cap faults = {} => total.row = Cardinality(fills)

\* Two records took the same live offer for theirs.
OfferShared ==
    \E i, j \in Intents :
        i # j /\ managed[i].offer = managed[j].offer /\ managed[i].offer \in DOMAIN offers

\* The exchange holds the ladder, each order once, and nothing else.
LadderRests ==
    /\ \A i \in Ladder : \E o \in DOMAIN offers : managed[i].offer = o /\ Right(i, o)
    /\ Cardinality(DOMAIN offers) = Cardinality(Ladder)

\* However often answers were lost, commands given or processes killed: once that
\* is over, the ladder rests (with cancel_orphans and enough funds), provided no
\* two records ever took the same offer.
LadderHeals ==
    "refused" \notin faults /\ [](~OfferShared) => <>[]LadderRests

====

-------------------------------- MODULE Swaps --------------------------------
(* Swaps and arbitrage on the Stellar exchange (internal/swap,               *)
(* internal/scanner, internal/triangular) as the swap commands run them.     *)
(*                                                                            *)
(* A command is a list of attempts; an attempt is a list of steps, each one   *)
(* call to Horizon or one decision, and ends at its first error.  Between two *)
(* steps prices move, other people pay the account, and a transaction whose   *)
(* answer was lost lands or expires.  Amounts are in half percents of the     *)
(* amount traded: a conversion returns what goes in plus the premium of the   *)
(* pair, and a fee is one unit.  Codes, issuers, proofs, metrics and receipts *)
(* are left out.                                                              *)
EXTENDS Integers, Sequences, FiniteSets, SequencesExt

CONSTANTS
    Counters,       \* the assets traded against the base asset
    Amount,         \* what a command trades, 200 half percents
    Slippage,       \* the --slippage of a command, in percent
    MinProfit,      \* the --min-profit of a command
    Premiums,       \* what a conversion can add to the amount
    Hops,           \* how many other assets the best route of a pair passes through
    Detours,        \* how much worse the direct route of such a pair may be
    MaxScans,       \* rounds of a continuous scan
    MaxCommands, MaxMoves, MaxDeposits, MaxFaults,
    Faults          \* how a call to Horizon may go wrong, see Fault

Base   == "base"
Assets == Counters \cup {Base}
Legs   == {leg \in Assets \X Assets : leg[1] # leg[2]}
Fee    == 1
Fault  == {"error", "timeout", "reset"}

ASSUME SwapAssumptions ==
    /\ Base \notin Counters /\ Counters # {} /\ Faults \subseteq Fault
    /\ {Amount, Slippage, MinProfit, MaxScans, MaxCommands, MaxMoves, MaxDeposits, MaxFaults} \subseteq Nat
    /\ Premiums \subseteq Int /\ 0 \in Premiums /\ Hops \in [Legs -> Nat]
    /\ Detours \subseteq Nat /\ 0 \in Detours

VARIABLES
    bal,        \* balances of the account on the ledger
    seqNo,      \* its sequence number
    premium,    \* the market: the best route of each pair
    detour,     \* how much worse its direct route is, 0 if there is no other
    flying,     \* transactions submitted whose fate is open
    landed,     \* transactions the ledger has carried out
    failed,     \* transactions it included that failed
    last,       \* the one carried out last, what it took and what it gave
    job,        \* the command that is running
    report,     \* how the last attempt ended
    saved,      \* state file payment_latest: its transaction
    kept,       \* what the account should hold: deposits and plain swaps
    excused,    \* a failure was reported, or legs were traded as quoted
    spent       \* commands, moves, deposits and faults so far

ledger  == <<bal, seqNo, flying, landed, failed, last>>
market  == <<premium, detour>>
history == <<kept, excused>>
vars    == <<ledger, market, job, report, saved, history, spent>>

None      == 0
Simulated == -1
NoTx   == [id |-> None]
Nobody == [how |-> "quote", c |-> Base, slip |-> 0, to |-> "self", kind |-> "send"]
Fresh  == [steps |-> <<>>, by |-> Nobody, later |-> <<>>, wanted |-> 0, quotes |-> <<>>, seq |-> 0, counter |-> 0,
           got |-> 0, txs |-> {}, now |-> None]
Idle   == job.steps = <<>>
Doing  == job.by
Next1  == Head(job.steps)

Spend(what) == spent' = [spent EXCEPT ![what] = @ + 1]
Limit == [commands |-> MaxCommands, moves |-> MaxMoves, deposits |-> MaxDeposits, faults |-> MaxFaults]
May(what) == spent[what] < Limit[what]
------------------------------------------------------------------------------
(* Commands.                                                                  *)

Do(step) == <<[do |-> step]>>
\* Ask for a quote; of says how much goes in.
Quote(from, to, of) == <<[do |-> "quote", leg |-> <<from, to>>, of |-> of]>>
\* ExecuteSwap: read the account, submit the i-th quote.
ExecuteSwap(i) == Do("account") \o <<[do |-> "send", quote |-> i]>>
ThereAndBack(c) == Quote(Base, c, "amount") \o Quote(c, Base, "quoted")

Attempt(how, c, slip, to, kind, steps) ==
    [by |-> [how |-> how, c |-> c, slip |-> slip, to |-> to, kind |-> kind], steps |-> steps]
Destinations == {"self", "other"}

\* swap execute, and swap zk, which confirms before it quotes as well.
SwapExecute ==
    {<<Attempt("swap", leg[2], Slippage, to, kind,
        Quote(leg[1], leg[2], "amount") \o Do("confirm") \o ExecuteSwap(1) \o Do("save"))>>
        : leg \in Legs, to \in Destinations, kind \in {"send", "receive"}}
ExecuteZKSwap == Do("prove") \o ExecuteSwap(1)
SwapZK ==
    {<<Attempt("zk", leg[2], Slippage, to, kind,
        Do("confirm") \o Quote(leg[1], leg[2], "amount") \o Do("confirm") \o ExecuteZKSwap \o Do("save"))>>
        : leg \in Legs, to \in Destinations, kind \in {"send", "receive"}}
SwapQuote == {<<Attempt("quote", leg[2], 0, "self", "send", Quote(leg[1], leg[2], "amount"))>> : leg \in Legs}

\* swap scan only quotes.  arbitrage-all and monitor trade what a scan found,
\* both legs for the amounts that were quoted.
ScanPair(c) == ThereAndBack(c) \o Do("profitable")
SwapScan    == {<<Attempt("quote", c, 0, "self", "send", ScanPair(c))>> : c \in Counters}
QuotedLegs(c) ==
    Quote(Base, c, "amount") \o ExecuteSwap(1) \o Quote(c, Base, "quoted") \o ExecuteSwap(2)
AsQuoted(c, after) ==
    Attempt("quoted", c, 1, "self", "send", ScanPair(c) \o Do("confirm") \o Do("forget") \o QuotedLegs(c) \o after)
ArbitrageAll == {<<AsQuoted(c, Do("save"))>> : c \in Counters}
\* A scan of the monitor that fails is followed by the next one.
PromptAndExecute(c) == AsQuoted(c, <<>>)
Monitor == {[i \in 1..MaxScans |-> PromptAndExecute(cs[i])] : cs \in [1..MaxScans -> Counters]}

\* A round trip in one transaction, or in two.
ExecuteRoundTripAtomic(c) == Do("forget") \o ThereAndBack(c) \o Do("hops") \o Do("account") \o Do("cycle")
\* Variant: the second leg trades what was quoted, not what arrived.
SellQuoted(c) ==
    Do("forget") \o ThereAndBack(c) \o Do("worthwhile") \o Do("before") \o Do("fresh") \o ExecuteSwap(1)
    \o Do("after") \o Quote(c, Base, "amount") \o ExecuteSwap(3) \o Do("account")
ExecuteRoundTrip(c) ==
    Do("forget") \o ThereAndBack(c) \o Do("worthwhile") \o Do("before") \o Do("fresh") \o ExecuteSwap(1)
    \o Do("after") \o Quote(c, Base, "received") \o ExecuteSwap(3) \o Do("account")
\* The commands hand on the percentage divided by 100.
PerformArbitrageScan(c, to, atomic, before) ==
    Attempt(IF atomic THEN "atomic" ELSE "arbitrage", c, Slippage \div 100, to, "send",
        before \o ThereAndBack(c) \o Do("worthwhile") \o Do("confirm") \o Do("fresh")
        \o (IF atomic THEN ExecuteRoundTripAtomic(c) ELSE ExecuteRoundTrip(c)) \o Do("save"))
Arbitrage ==
    {<<PerformArbitrageScan(c, to, atomic, <<>>)>> : c \in Counters, to \in Destinations, atomic \in BOOLEAN}
\* A scan, and when it is promising but not too good, a second one, then a
\* third one that executes.
Continuous ==
    {[i \in 1..MaxScans |-> PerformArbitrageScan(c, "self", atomic,
        ThereAndBack(c) \o Do("worthwhile") \o Do("plausible") \o Do("forget")
        \o ThereAndBack(c) \o Do("worthwhile") \o Do("forget"))]
        : c \in Counters, atomic \in BOOLEAN}

\* The chat trades a cycle of three legs it quoted earlier, with 0.005 percent.
Cycles == {cs \in Counters \X Counters : cs[1] # cs[2]}
ExecuteTriangularSwap(cs) ==
    Quote(Base, cs[1], "amount") \o Quote(cs[1], cs[2], "quoted") \o Quote(cs[2], Base, "quoted")
    \o Do("confirm") \o Do("opportunity") \o ExecuteSwap(1) \o ExecuteSwap(2) \o ExecuteSwap(3)
Triangular == {<<Attempt("quoted", cs[1], 0, "self", "send", ExecuteTriangularSwap(cs))>> : cs \in Cycles}

Commands ==
    SwapQuote \cup SwapExecute \cup SwapZK \cup SwapScan \cup ArbitrageAll \cup Monitor
    \cup Arbitrage \cup Continuous \cup Triangular
Simulations == {<<Attempt("simulated", c, 0, "self", "send", Do("save"))>> : c \in Counters}

Sends(steps) == Cardinality({i \in DOMAIN steps : steps[i].do \in {"send", "cycle"}})
\* A command, or the rest of one, starts with its first attempt.
Begin(plan) ==
    IF plan = <<>> THEN Fresh
    ELSE [Fresh EXCEPT !.steps = Head(plan).steps, !.by = Head(plan).by, !.later = Tail(plan),
                       !.wanted = Sends(Head(plan).steps)]
------------------------------------------------------------------------------
(* The exchange.                                                              *)

\* A route never gives less than nothing.
Convert(leg, in) == IF in + premium[leg] > 0 THEN in + premium[leg] ELSE 0
Needed(leg, out) == IF out - premium[leg] > 0 THEN out - premium[leg] ELSE 0
CycleLegs(t) == <<<<Base, t.c>>, <<t.c, Base>>>>

\* An amount that is worse for the account by d.
Worse(amount, d, kind) ==
    IF kind = "receive" THEN amount + d ELSE IF amount > d THEN amount - d ELSE 0
\* A transaction follows the route it was built with.
Detour(t) == IF t.direct THEN detour[t.leg] ELSE 0
Takes(t)  == IF t.kind = "receive" THEN Worse(Needed(t.leg, t.amount), Detour(t), t.kind) ELSE t.amount
Gives(t)  ==
    CASE t.kind = "receive" -> t.amount
      [] t.kind = "send"    -> Worse(Convert(t.leg, t.amount), Detour(t), t.kind)
      [] t.kind = "cycle"   -> Convert(<<t.c, Base>>, Convert(<<Base, t.c>>, t.amount))

Acceptable(t) ==
    /\ t.direct => detour[t.leg] > 0
    /\ Takes(t) <= bal[t.leg[1]] - (IF t.leg[1] = Base THEN Fee ELSE 0)
    /\ IF t.kind = "receive" THEN Takes(t) <= t.limit ELSE Gives(t) >= t.limit

Charged == [bal EXCEPT ![Base] = @ - Fee]
Carried(t) ==
    LET paid == [Charged EXCEPT ![t.leg[1]] = @ - Takes(t)]
    IN  IF t.to = "self" THEN [paid EXCEPT ![t.leg[2]] = @ + Gives(t)] ELSE paid

\* The ledger includes a transaction: it is carried out, or fails for the fee.
Include(t) ==
    /\ seqNo' = seqNo + 1
    /\ IF Acceptable(t)
       THEN /\ bal' = Carried(t)
            /\ landed' = landed \cup {t.id}
            /\ UNCHANGED failed
            /\ last' = [tx |-> t, took |-> Takes(t), gave |-> Gives(t)]
            /\ kept' = IF t.how \in {"swap", "zk"}
                       THEN [a \in Assets |-> kept[a] + Carried(t)[a] - Charged[a]] ELSE kept
       ELSE bal' = Charged /\ failed' = failed \cup {t.id} /\ UNCHANGED <<landed, last, kept>>
InSequence(t) == t.seq = seqNo + 1

\* A transaction whose answer was lost lands, or its time bound passes.
Land(t) ==
    /\ InSequence(t)
    /\ Include(t)
    /\ flying' = flying \ {t}
    /\ UNCHANGED <<market, job, report, saved, excused, spent>>
Expire(t) ==
    /\ flying' = flying \ {t}
    /\ UNCHANGED <<bal, seqNo, landed, failed, last, market, job, report, saved, history, spent>>

Move ==
    /\ May("moves") /\ Spend("moves")
    /\ \E leg \in Legs :
        \/ \E x \in Premiums : premium' = [premium EXCEPT ![leg] = x] /\ UNCHANGED detour
        \/ \E d \in Detours : Hops[leg] > 0 /\ detour' = [detour EXCEPT ![leg] = d] /\ UNCHANGED premium
    /\ UNCHANGED <<ledger, job, report, saved, history>>
Deposit ==
    /\ May("deposits") /\ Spend("deposits")
    /\ \E c \in Counters : bal' = [bal EXCEPT ![c] = @ + 1] /\ kept' = [kept EXCEPT ![c] = @ + 1]
    /\ UNCHANGED <<seqNo, flying, landed, failed, last, market, job, report, saved, excused>>
------------------------------------------------------------------------------
(* How an attempt goes on.                                                    *)

Closed(result) ==
    [result |-> result, how |-> Doing.how, txs |-> job.txs, wanted |-> job.wanted,
     named |-> None, unseen |-> FALSE]
\* Variant: the scans are not counted, and maxScans is never reached.
RestUncounted == Begin(IF job.later = <<>> THEN <<>> ELSE <<Head(job.later)>> \o job.later)
Rest == Begin(job.later)
EndAs(outcome) ==
    /\ report' = outcome
    /\ job' = Rest
    /\ excused' = (excused \/ (outcome.result # "done" /\ job.txs # {}))
End(result) == EndAs(Closed(result))
Advance(j) ==
    IF Len(job.steps) = 1
    THEN /\ report' = [Closed("done") EXCEPT !.txs = j.txs]
         /\ job' = Rest
         /\ excused' = (excused \/ Doing.how = "quoted")
    ELSE /\ job' = [j EXCEPT !.steps = Tail(@)]
         /\ UNCHANGED <<report, excused>>

ReadFails ==
    /\ "error" \in Faults /\ May("faults") /\ Spend("faults")
    /\ End("error")
    /\ UNCHANGED <<ledger, market, saved, kept>>

\* What arrived since leg A was sent, whoever sent it.
Received == bal[Doing.c] - job.counter
Reads == {"quote", "account", "before", "after"}
Read ==
    /\ Next1.do \in Reads
    /\ \/ ReadFails
       \/ /\ \/ /\ Next1.do = "account"
                /\ Advance([job EXCEPT !.seq = seqNo])
             \/ /\ Next1.do = "before"
                /\ Advance([job EXCEPT !.counter = bal[Doing.c]])
             \/ /\ Next1.do = "after"
                /\ IF Received <= 0 THEN End("nothing received") ELSE Advance([job EXCEPT !.got = Received])
             \/ /\ Next1.do = "quote"
                /\ LET in == CASE Next1.of = "amount"   -> Amount
                                [] Next1.of = "quoted"   -> Last(job.quotes).out
                                [] Next1.of = "received" -> job.got
                        out == IF Doing.kind = "receive" THEN Needed(Next1.leg, in) ELSE Convert(Next1.leg, in)
                    IN  Advance([job EXCEPT !.quotes = Append(@, [leg |-> Next1.leg, in |-> in, out |-> out, hops |-> Hops[Next1.leg],
                                                                    detour |-> detour[Next1.leg]])])
          /\ UNCHANGED <<ledger, market, saved, kept, spent>>

\* What a round trip of the quotes would earn.
Net   == job.quotes[2].out - job.quotes[1].in - 2 * Fee
Costs == Fee
Holds(test) ==
    CASE test = "worthwhile"  -> Net >= MinProfit /\ Net >= 0
      [] test = "plausible"   -> 100 * Net <= 3 * Amount
      [] test = "profitable"  -> Net - Costs > MinProfit
      [] test = "opportunity" -> Last(job.quotes).out > job.quotes[1].in
      [] test = "hops"        -> job.quotes[1].hops + 1 + job.quotes[2].hops <= 5
Tests   == {"worthwhile", "plausible", "profitable", "opportunity", "hops"}
\* The user may decline, a quote may have aged, a proof may fail.
Chances == {"confirm", "fresh", "prove"}
Decide ==
    /\ \/ /\ Next1.do \in Chances \/ (Next1.do \in Tests /\ Holds(Next1.do))
          /\ Advance(job)
       \/ /\ Next1.do \in Chances \/ (Next1.do \in Tests /\ ~Holds(Next1.do))
          /\ End("not executed")
       \/ /\ Next1.do = "forget"
          /\ Advance([job EXCEPT !.quotes = <<>>])
    /\ UNCHANGED <<ledger, market, saved, kept, spent>>
Save ==
    /\ Next1.do = "save"
    /\ saved' = IF Doing.how = "simulated" THEN Simulated ELSE job.now
    /\ Advance(job)
    /\ UNCHANGED <<ledger, market, kept, spent>>

\* Half a percent more for every asset on the way, up to three percent.
DynamicSlippage(percent, hops) == 2 * percent + (IF hops > 6 THEN 6 ELSE hops)
Allowed(q) == IF Doing.how = "zk" THEN 2 * Doing.slip ELSE DynamicSlippage(Doing.slip, q.hops)
ApplySlippage(amount, slip, isMax) ==
    IF isMax THEN amount + slip ELSE IF amount > slip THEN amount - slip ELSE 0
\* The path of the quote, but a zk swap prefers a direct one.
Prefers(q) == Doing.how = "zk" /\ q.detour > 0
Picked(q)  == IF Prefers(q) THEN Worse(q.out, q.detour, Doing.kind) ELSE q.out
SwapTx(q) ==
    [id |-> spent.txs + 1, seq |-> job.seq + 1, how |-> Doing.how, to |-> Doing.to, c |-> Doing.c,
     kind |-> Doing.kind, leg |-> q.leg, amount |-> q.in, direct |-> Prefers(q), shown |-> q.out, quoted |-> Picked(q),
     allowed |-> Allowed(q), limit |-> ApplySlippage(Picked(q), Allowed(q), Doing.kind = "receive")]
\* One path payment to the account itself that must return more than it took.
\* Variant: the fee is forgotten.
DestMinNoFee == Amount + MinProfit
DestMin == Amount + MinProfit + Fee
CycleTx ==
    [id |-> spent.txs + 1, seq |-> job.seq + 1, how |-> Doing.how, to |-> Doing.to, c |-> Doing.c,
     kind |-> "cycle", leg |-> <<Base, Base>>, amount |-> Amount, direct |-> FALSE, shown |-> DestMin, quoted |-> DestMin,
     allowed |-> 0, limit |-> DestMin]

\* The answer of Horizon to a submission: carried out, refused by the ledger,
\* refused for its sequence number, or none.
Submitted(t) == [job EXCEPT !.txs = @ \cup {t.id}, !.now = t.id]
EndSubmitted(t, result) ==
    /\ report' = [Closed(result) EXCEPT !.txs = @ \cup {t.id}]
    /\ job' = Rest
    /\ excused' = TRUE
Answered(t) ==
    /\ InSequence(t)
    /\ Include(t)
    /\ IF Acceptable(t) THEN Advance(Submitted(t)) ELSE EndSubmitted(t, "refused")
    /\ spent' = [spent EXCEPT !.txs = @ + 1]
    /\ UNCHANGED <<flying, market, saved>>
BadSequence(t) ==
    /\ ~InSequence(t)
    /\ EndSubmitted(t, "refused")
    /\ spent' = [spent EXCEPT !.txs = @ + 1]
    /\ UNCHANGED <<ledger, market, saved, kept>>
\* A swap takes every lost answer for a failure; the cycle waits out a timeout.
Lost(t) ==
    /\ May("faults")
    /\ \E fault \in Faults \ {"error"} :
        /\ flying' = flying \cup {t}
        /\ IF fault = "timeout" /\ t.kind = "cycle"
           THEN /\ job' = [Submitted(t) EXCEPT !.steps = [@ EXCEPT ![1] = [do |-> "await"]]]
                /\ UNCHANGED <<report, excused>>
           ELSE EndSubmitted(t, "no answer")
    /\ spent' = [spent EXCEPT !.txs = @ + 1, !.faults = @ + 1]
    /\ UNCHANGED <<bal, seqNo, landed, failed, last, market, saved, kept>>
Submit ==
    /\ Next1.do \in {"send", "cycle"}
    /\ LET t == IF Next1.do = "cycle" THEN CycleTx ELSE SwapTx(job.quotes[Next1.quote])
       IN  Answered(t) \/ BadSequence(t) \/ Lost(t) \/ ReadFails

\* The cycle is looked up by its hash until ten seconds after its time bound;
\* when no look-up is answered, it is not found either.
\* Variant: the look-up gives up before the time bound.
GivesUpEarly == FALSE
InTheAir == job.now \in {t.id : t \in flying}
TimedOut(result, unseen) == EndAs([Closed(result) EXCEPT !.named = job.now, !.unseen = unseen])
AwaitTransaction ==
    /\ Next1.do = "await"
    /\ \/ job.now \in landed /\ Advance(job) /\ UNCHANGED spent
       \/ job.now \in failed /\ TimedOut("failed", FALSE) /\ UNCHANGED spent
       \/ ~InTheAir /\ job.now \notin landed \cup failed /\ TimedOut("not found", FALSE) /\ UNCHANGED spent
       \/ ~InTheAir /\ May("faults") /\ Spend("faults") /\ TimedOut("not found", TRUE)
    /\ UNCHANGED <<ledger, market, saved, kept>>
------------------------------------------------------------------------------
Start ==
    /\ Idle /\ May("commands") /\ Spend("commands")
    /\ \E plan \in Commands \cup Simulations : job' = Begin(plan)
    /\ UNCHANGED <<ledger, market, report, saved, history>>
Step == ~Idle /\ (Read \/ Decide \/ Save \/ Submit \/ AwaitTransaction)
Settle == \E t \in flying : Land(t) \/ Expire(t)

Init ==
    /\ bal = [a \in Assets |-> 2 * Amount] /\ kept = bal
    /\ seqNo = 0 /\ flying = {} /\ landed = {} /\ failed = {} /\ last = [tx |-> NoTx]
    /\ premium = [leg \in Legs |-> 0] /\ detour = [leg \in Legs |-> 0]
    /\ job = Fresh /\ report = [result |-> "none"] /\ saved = None /\ excused = FALSE
    /\ spent = [commands |-> 0, moves |-> 0, deposits |-> 0, faults |-> 0, txs |-> 0]
Next == Start \/ Step \/ Settle \/ Move \/ Deposit

\* A command runs on, and Horizon settles what it was given before the time
\* bound.  Nothing makes prices move or a user start a command.
Fairness == WF_vars(Step) /\ WF_vars(Settle)
Spec == Init /\ [][Next]_vars /\ Fairness
------------------------------------------------------------------------------
(* Properties.                                                                *)

\* The types of the variables.
TypeOK ==
    /\ bal \in [Assets -> Int] /\ kept \in [Assets -> Int] /\ seqNo \in Nat
    /\ premium \in [Legs -> Premiums] /\ detour \in [Legs -> Detours] /\ excused \in BOOLEAN /\ saved \in Nat \cup {Simulated}
    /\ \A t \in flying : t.limit \in Nat /\ t.amount \in Nat
    /\ landed \subseteq 1..spent.txs /\ failed \subseteq 1..spent.txs /\ {t.id : t \in flying} \subseteq 1..spent.txs

\* A command that ends well has had all its transactions carried out, and the
\* payment it leaves for the reports is one of them (or marked as simulated).
ReportedIsOnLedger ==
    /\ saved \in landed \cup {None, Simulated}
    /\ report.result = "done" => report.txs \subseteq landed /\ Cardinality(report.txs) = report.wanted

\* As long as no failure was reported, and no legs were traded at their quoted
\* amounts, round trips leave no counter asset behind.
RoundTripsEndFlat == Idle /\ ~excused => \A c \in Counters : bal[c] <= kept[c]

\* A round trip in one transaction returns what it took, the fee and the profit
\* that was asked for, whatever the market did and however late it lands.
CyclePays == last.tx # NoTx /\ last.tx.kind = "cycle" => last.gave >= last.took + Fee + MinProfit

\* No swap that is carried out is worse than its quote by more than the user's
\* slippage (the commands that trade what a scan found: one percent) and half a
\* percent per hop.  A zk swap has no more than the slippage; the path it
\* prefers may be worse than the quote that was shown, and counts from there.
Tolerance(t) ==
    CASE t.how = "quoted" -> 2 + Hops[t.leg]
      [] t.how = "zk"     -> 2 * Slippage
      [] OTHER            -> 2 * Slippage + Hops[t.leg]
Promised(t) == IF t.direct THEN t.quoted ELSE t.shown
Within(amount, by) ==
    CASE last.tx.kind = "receive" -> last.took <= amount + by
      [] last.tx.kind = "send"    -> last.gave >= amount - by
      [] last.tx.kind = "cycle"   -> TRUE
WithinTolerance == last.tx # NoTx => Within(Promised(last.tx), Tolerance(last.tx))

\* What the ledger carries out keeps the limits the program promises.
LimitsHold == CyclePays /\ WithinTolerance

\* What a round trip says when it timed out is final: one that is not found or
\* failed does not land afterwards, one that failed was not carried out, and
\* one that is not found was not either, unless no look-up was answered.
TimeoutIsSettled ==
    /\ report.result \in {"not found", "failed"} => report.named \notin {t.id : t \in flying}
    /\ report.result = "failed" => report.named \notin landed
    /\ report.result = "not found" /\ ~report.unseen => report.named \notin landed

\* What a command reports of its transactions, good or bad, is so and stays so.
ReportsTrue == TypeOK /\ ReportedIsOnLedger /\ TimeoutIsSettled

\* Every command ends, also when answers are lost.
CommandsEnd == []<>Idle
=============================================================================

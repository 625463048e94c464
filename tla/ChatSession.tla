---------------------------- MODULE ChatSession ----------------------------
(* The chat: one conversation with its pending quote, pending operation and   *)
(* pending arbitrage opportunities, while other processes change the wallet   *)
(* registry.  A message is the set of word classes it contains; the first     *)
(* rule that fits gives its intent, or a language model does.  An intent's    *)
(* handler is a list of steps, and any step may end it.                       *)
EXTENDS Naturals, Sequences, FiniteSetsExt

CONSTANTS
    Networks,           \* networks a wallet can be on
    Words, MaxWords,    \* word classes, and how many of them a message has
    MaxPicks,           \* opportunities a scan finds
    MaxMessages, MaxShown, MaxMishaps

ASSUME ChatAssumptions == {MaxWords, MaxPicks, MaxMessages, MaxShown, MaxMishaps} \subseteq Nat

VARIABLES
    llm,        \* whether a language model classifies the messages
    running,    \* State.Running
    net,        \* cfg.Network, which State.CurrentNetwork follows
    services,   \* the network of the triangular service
    registry,   \* the networks the wallet registry has a wallet on, and that of the active one
    op,         \* State.CurrentOperation
    quote,      \* State.PendingSwap
    opps,       \* State.PendingTriangularOpportunities and the one selected
    call,       \* the handler under way: steps, wallet seen, network captured, ...
    ran,        \* the last thing that was executed
    history,    \* what was shown to the user and what became of it
    spent       \* messages; acts of other processes and faults

pending == <<op, quote, opps>>
context == <<net, services>>
vars    == <<llm, running, context, registry, pending, call, ran, history, spent>>

None == "none"
NoOp    == [tool |-> None, missing |-> 0, id |-> 0, net |-> None]
NoQuote == [id |-> 0, net |-> None, moved |-> FALSE]
NoOpps  == [id |-> 0, count |-> 0, picked |-> 0]
NoCall  == [steps |-> <<>>, seen |-> None, net |-> None, missing |-> 0, moved |-> FALSE, asked |-> FALSE, exact |-> FALSE, op |-> NoOp]
NoRun   == [n |-> 0, kind |-> None, id |-> 0, pick |-> 0, quoted |-> None, net |-> None, moved |-> FALSE, message |-> 0, asked |-> TRUE]

May(what)   == spent[what] < [messages |-> MaxMessages, mishaps |-> MaxMishaps][what]
Spend(what) == spent' = [spent EXCEPT ![what] = @ + 1]
\* A value the language model can make of the name of a network.
Misnamed == "misnamed"
----------------------------------------------------------------------------
(* Understanding a message.                                                   *)

HasPendingSwap == quote # NoQuote
HasPendingTriangularOpportunities == opps.count > 0
Selected == opps.picked \in 1..opps.count

\* The rules in their order: a greeting, then a cancellation, win over all else.
Rules(said) ==
    LET has(word) == word \in said IN
    <<<<has("hello"), "greeting">>,
      <<has("cancel"), "cancel_operation">>,
      <<HasPendingSwap /\ has("confirm"), "execute_swap">>,
      <<HasPendingTriangularOpportunities /\ has("number"), "select_triangular">>,
      <<HasPendingTriangularOpportunities /\ has("confirm") /\ Selected, "execute_triangular">>,
      <<op # NoOp, "provide_parameter">>,
      <<has("balance"), "wallet_balance">>,
      <<has("wallet") /\ has("number"), "switch_wallet">>,
      <<has("trust"), "create_trustline">>,
      <<has("pay"), "pay_send">>,
      <<has("swap"), "swap_quote">>,
      <<has("set"), "set_network">>,
      <<has("bye"), "quit">>,
      <<has("arbitrage"), "triangular_scan">>>>

UnderstandByRules(said) ==
    LET rules == Rules(said)
        fits  == {k \in DOMAIN rules : rules[k][1]}
    IN  IF fits = {} THEN "unknown" ELSE rules[Min(fits)][2]

\* The language model may take a message for any of the intents it is told of.
\* Those do not include provide_parameter, and what it extracts is no whole
\* number, so that an opportunity is selected by the rules only.
LLMIntents ==
    {"greeting", "cancel_operation", "execute_swap", "execute_triangular", "wallet_balance", "switch_wallet",
     "create_trustline", "pay_send", "swap_quote", "set_network", "quit", "triangular_scan", "unknown"}

Confirms(said) == "confirm" \in said /\ "cancel" \notin said

UnderstandIntent(said) ==
    {[name |-> UnderstandByRules(said), asked |-> Confirms(said), exact |-> said = {"confirm"}]}
    \cup {[name |-> i, asked |-> TRUE, exact |-> FALSE] : i \in IF llm THEN LLMIntents ELSE {}}
----------------------------------------------------------------------------
(* Handlers.                                                                  *)

EnsureWalletOnNetwork == <<"seek", "activate", "follow">>
Collecting(tool, missing) == {[NoCall EXCEPT !.steps = <<"collect">>, !.op = [NoOp EXCEPT !.tool = tool, !.missing = k]] : k \in missing}
Steps(list) == {[NoCall EXCEPT !.steps = list]}

\* An unsupported asset is refused before anything happens.
GetSwapQuote == {[NoCall EXCEPT !.steps = EnsureWalletOnNetwork \o <<"quote">>, !.net = net]} \cup {NoCall}
HandleSwapQuote == Collecting("swap_quote", 1..3) \cup GetSwapQuote
HandleExecuteSwap == Steps(<<"quoted", "active">> \o EnsureWalletOnNetwork \o <<"swap">>)
\* A malformed address or an unknown rail is refused.
HandlePaySend ==
    {[c EXCEPT !.steps = EnsureWalletOnNetwork \o @] :
        c \in Collecting("pay_send", 2..4) \cup Steps(<<"active", "summary">>) \cup {NoCall}}
HandlePaySendExecute(o) == {[NoCall EXCEPT !.steps = <<"active", "pay">>, !.op = o]}
HandleProvideParameter  == Steps(<<"answer">>)
HandleTriangularScan    == Steps(<<"scan">>)
HandleSelectTriangular  == Steps(<<"select">>)
HandleExecuteTriangular == Steps(<<"selected", "active", "cycle">>)
HandleWalletBalance     == Steps(<<"active", "refresh">>)
\* The trustline is asked of the ledger for the active wallet; the session keeps nothing of it.
HandleCreateTrustline   == Steps(<<"active">>) \cup {NoCall}
HandleSwitchWallet      == {[NoCall EXCEPT !.steps = <<"use">>, !.net = net]} \cup {NoCall}
SetNetwork(ns)          == {[NoCall EXCEPT !.steps = <<"set", "use", "renew">>, !.net = n] : n \in ns}
CancelOperation         == Steps(<<"cancel">>)

Handlers(intent) ==
    CASE intent = "cancel_operation"   -> CancelOperation
      [] intent = "execute_swap"       -> HandleExecuteSwap
      [] intent = "select_triangular"  -> HandleSelectTriangular
      [] intent = "execute_triangular" -> HandleExecuteTriangular
      [] intent = "provide_parameter"  -> HandleProvideParameter
      [] intent = "wallet_balance"     -> HandleWalletBalance
      [] intent = "switch_wallet"      -> HandleSwitchWallet
      [] intent = "create_trustline"   -> HandleCreateTrustline
      [] intent = "pay_send"           -> HandlePaySend
      [] intent = "swap_quote"         -> HandleSwapQuote
      [] intent = "set_network"        -> SetNetwork(Networks \cup (IF llm THEN {Misnamed} ELSE {}))
      [] intent = "triangular_scan"    -> HandleTriangularScan
      [] intent = "quit"               -> Steps(<<"quit">>)
      [] OTHER                         -> {NoCall}      \* reads and answers
----------------------------------------------------------------------------
(* The loop: a message is read when the one before it is answered.            *)

Idle == call.steps = <<>>

Messages == {said \in SUBSET Words : Cardinality(said) \in 1..MaxWords}

\* A message that only asks to be told something changes nothing and is not counted.
ProcessMessage ==
    /\ running /\ Idle /\ May("messages")
    /\ \E intent \in UNION {UnderstandIntent(said) : said \in Messages} :
       \E c \in Handlers(intent.name) \ {NoCall} :
           call' = [c EXCEPT !.asked = intent.asked, !.exact = intent.exact]
    /\ Spend("messages")
    /\ UNCHANGED <<llm, running, context, registry, pending, ran, history>>

\* The session goes on with the next step, skips some, or answers.
At(step) == running /\ ~Idle /\ Head(call.steps) = step
Skip(c, n) == call' = IF Len(c.steps) <= n THEN NoCall ELSE [c EXCEPT !.steps = SubSeq(c.steps, n + 1, Len(c.steps))]
Proceed == Skip(call, 1)
Answer  == call' = NoCall
Fails   == May("mishaps") /\ Spend("mishaps")
Calm    == UNCHANGED spent
----------------------------------------------------------------------------
(* Wallets and networks.                                                      *)

\* GetActiveWallet, for a handler that cannot do without one.
Active ==
    /\ At("active")
    /\ \/ registry.active # None /\ Skip([call EXCEPT !.seen = registry.active], 1) /\ Calm
       \/ registry.active = None /\ Answer /\ Calm
       \/ Answer /\ Fails
    /\ UNCHANGED <<llm, running, context, registry, pending, ran, history>>

\* ensureWalletOnNetwork looks at the active wallet.
Seek ==
    /\ At("seek")
    /\ \/ registry.active = net /\ Skip(call, 3) /\ Calm
       \/ registry.active # net /\ Skip([call EXCEPT !.seen = registry.active], 1) /\ Calm
       \/ Skip([call EXCEPT !.seen = None], 1) /\ Fails
    /\ UNCHANGED <<llm, running, context, registry, pending, ran, history>>

\* findAndActivateWalletOnNetwork; the registry may be locked by another process.
FindAndActivate(n, found, lost) ==
    \/ n \in registry.wallets /\ registry' = [registry EXCEPT !.active = n] /\ found /\ Calm
    \/ n \notin registry.wallets /\ UNCHANGED registry /\ lost /\ Calm
    \/ UNCHANGED registry /\ lost /\ Fails

Activate ==
    /\ At("activate")
    /\ FindAndActivate(net, Skip(call, 2), IF call.seen = None THEN Answer ELSE Proceed)
    /\ UNCHANGED <<llm, running, context, pending, ran, history>>

\* With no wallet to be had there, the session moves to the network of the
\* wallet that was active, with whatever is pending.
Follow ==
    /\ At("follow")
    /\ IF call.seen \in registry.wallets
       THEN /\ Skip([call EXCEPT !.moved = TRUE], 1)
            /\ net' = call.seen /\ services' = call.seen
            /\ quote' = IF HasPendingSwap THEN [quote EXCEPT !.moved = TRUE] ELSE quote
       ELSE Answer /\ UNCHANGED <<context, quote>>
    /\ UNCHANGED <<llm, running, registry, op, opps, ran, history, spent>>

\* The wallet the user switches to, or the one the new network needs.
Use ==
    /\ At("use")
    /\ FindAndActivate(call.net, Proceed, Answer)
    /\ UNCHANGED <<llm, running, context, pending, ran, history>>

\* A balance is stored together with its wallet, which becomes the active one again.
Refresh ==
    /\ At("refresh")
    /\ Answer
    /\ \/ /\ call.seen \in registry.wallets
          /\ registry' = [registry EXCEPT !.active = call.seen]
       \/ UNCHANGED registry
    /\ UNCHANGED <<llm, running, context, pending, ran, history, spent>>

\* set_network: what is pending belongs to the old network, except opportunities.
Set ==
    /\ At("set")
    /\ net' = call.net
    /\ op' = NoOp /\ quote' = NoQuote
    /\ history' = [history EXCEPT !.revoked = history.shown]
    /\ Proceed
    /\ UNCHANGED <<llm, running, services, registry, opps, ran, spent>>

RefreshServicesForNetwork ==
    /\ At("renew")
    /\ services' = call.net
    /\ Answer
    /\ UNCHANGED <<llm, running, net, registry, pending, ran, history, spent>>
----------------------------------------------------------------------------
(* What waits for the user's word.                                            *)

\* Each quote, summary and scan shown gets the next number; the last of each
\* kind is the one the user has in view.
Show(kind) ==
    history' = [history EXCEPT !.shown = @ + 1, !.last[kind] = history.shown + 1, !.picked = IF kind = "cycle" THEN 0 ELSE @]
Room == history.shown < MaxShown

StartParameterCollection ==
    /\ At("collect")
    /\ op' = call.op
    /\ Answer
    /\ UNCHANGED <<llm, running, context, registry, quote, opps, ran, history, spent>>

\* The quote is asked for on the network the message found.
GetQuote ==
    /\ At("quote")
    /\ Answer
    /\ \/ /\ Room /\ Show("swap")
          /\ quote' = [id |-> history.shown + 1, net |-> call.net, moved |-> call.moved]
       \/ UNCHANGED <<quote, history>>
    /\ UNCHANGED <<llm, running, context, registry, op, opps, ran, spent>>

PaymentSummary ==
    /\ At("summary")
    /\ Answer
    /\ \/ /\ Room /\ Show("pay")
          /\ op' = [tool |-> "pay_send_execute", missing |-> 0, id |-> history.shown + 1, net |-> net]
       \/ ~Room /\ UNCHANGED <<op, history>>
    /\ UNCHANGED <<llm, running, context, registry, quote, opps, ran, spent>>

\* A scan that finds nothing leaves the opportunities of the one before.
Scan ==
    /\ At("scan")
    /\ Answer
    /\ \/ /\ Room /\ Show("cycle")
          /\ \E k \in 1..MaxPicks : opps' = [id |-> history.shown + 1, count |-> k, picked |-> 0]
       \/ UNCHANGED <<opps, history>>
    /\ UNCHANGED <<llm, running, context, registry, op, quote, ran, spent>>

SelectTriangular ==
    /\ At("select")
    /\ Answer
    /\ \E k \in 1..(MaxPicks + 1) :
           IF k <= opps.count
           THEN opps' = [opps EXCEPT !.picked = k] /\ history' = [history EXCEPT !.picked = k]
           ELSE UNCHANGED <<opps, history>>
    /\ UNCHANGED <<llm, running, context, registry, op, quote, ran, spent>>

\* An answer to the question asked: the value of a parameter or, when none is
\* missing, a word that confirms and nothing else, which clears the operation and runs it.
ProvideParameter ==
    /\ At("answer")
    /\ IF op.missing > 0
       THEN op' = [op EXCEPT !.missing = @ - 1] /\ Answer
       ELSE \/ UNCHANGED op /\ Answer
            \/ /\ call.exact
               /\ op' = NoOp
               /\ \E c \in CASE op.tool = "swap_quote"       -> GetSwapQuote
                             [] op.tool = "pay_send_execute" -> HandlePaySendExecute(op)
                             [] OTHER                        -> {NoCall} :
                      call' = IF c = NoCall THEN c ELSE [c EXCEPT !.asked = TRUE]
    /\ UNCHANGED <<llm, running, context, registry, quote, opps, ran, history, spent>>

\* Variant: the quote survives a cancellation.
CancelWithoutQuote ==
    /\ At("cancel")
    /\ op' = NoOp
    /\ history' = [history EXCEPT !.revoked = history.shown]
    /\ Answer
    /\ UNCHANGED <<llm, running, context, registry, quote, opps, ran, spent>>

Cancel ==
    /\ At("cancel")
    /\ op' = NoOp /\ quote' = NoQuote
    /\ history' = [history EXCEPT !.revoked = history.shown]
    /\ Answer
    /\ UNCHANGED <<llm, running, context, registry, opps, ran, spent>>
----------------------------------------------------------------------------
(* Execution.                                                                 *)

Run(kind, id, pick, quoted, on, moved) ==
    /\ ran' = [n |-> ran.n + 1, kind |-> kind, id |-> id, pick |-> pick, quoted |-> quoted, net |-> on,
               moved |-> moved, message |-> spent.messages, asked |-> call.asked]
    /\ history' = [history EXCEPT !.done = @ \cup {id}]

\* Nothing pending or nothing selected: there is nothing to execute.
Require ==
    /\ \/ At("quoted") /\ (IF HasPendingSwap THEN Proceed ELSE Answer)
       \/ At("selected") /\ (IF Selected THEN Proceed ELSE Answer)
    /\ UNCHANGED <<llm, running, context, registry, pending, ran, history, spent>>

\* Executed or refused, the quote is used up.
ExecuteSwap ==
    /\ At("swap")
    /\ Run("swap", quote.id, 0, quote.net, net, quote.moved)
    /\ quote' = NoQuote
    /\ Answer
    /\ UNCHANGED <<llm, running, context, registry, op, opps, spent>>

\* The payment is only shown as made.
PayExecute ==
    /\ At("pay")
    /\ Run("pay", call.op.id, 0, call.op.net, call.op.net, FALSE)
    /\ Answer
    /\ UNCHANGED <<llm, running, context, registry, pending, spent>>

ExecuteTriangular ==
    /\ At("cycle")
    /\ Run("cycle", opps.id, opps.picked, None, services, FALSE)
    /\ opps' = NoOpps
    /\ Answer
    /\ UNCHANGED <<llm, running, context, registry, op, quote, spent>>

Stop ==
    /\ At("quit")
    /\ running' = FALSE
    /\ Answer
    /\ UNCHANGED <<llm, context, registry, pending, ran, history, spent>>
----------------------------------------------------------------------------
(* Other processes create wallets, switch between them and remove them.       *)

Others ==
    /\ running /\ May("mishaps")
    /\ Spend("mishaps")
    /\ \E n \in Networks :
           registry' \in {[wallets |-> registry.wallets \cup {n}, active |-> n],
                          [wallets |-> registry.wallets \ {n}, active |-> IF registry.active = n THEN None ELSE registry.active]}
    /\ UNCHANGED <<llm, running, context, pending, call, ran, history>>

\* NewChat and Start: the services begin on the configured network.
Init ==
    /\ llm \in BOOLEAN /\ running = TRUE
    /\ net \in Networks /\ services = net
    /\ \E held \in SUBSET Networks : \E a \in held \cup {None} : registry = [wallets |-> held, active |-> a]
    /\ op = NoOp /\ quote = NoQuote /\ opps = NoOpps
    /\ call = [NoCall EXCEPT !.steps = EnsureWalletOnNetwork]
    /\ ran = NoRun
    /\ history = [shown |-> 0, revoked |-> 0, done |-> {}, picked |-> 0, last |-> [swap |-> 0, pay |-> 0, cycle |-> 0]]
    /\ spent = [messages |-> 0, mishaps |-> 0]

Session ==
    \/ Active \/ Seek \/ Activate \/ Follow \/ Use \/ Refresh \/ Set \/ RefreshServicesForNetwork
    \/ StartParameterCollection \/ GetQuote \/ PaymentSummary \/ Scan \/ SelectTriangular \/ ProvideParameter \/ Cancel
    \/ Require \/ ExecuteSwap \/ PayExecute \/ ExecuteTriangular \/ Stop

Next == ProcessMessage \/ Session \/ Others

Spec == Init /\ [][Next]_vars
----------------------------------------------------------------------------
(* Properties.                                                                *)

Somewhere == Networks \cup {Misnamed}
Ids == 0..MaxShown

TypeOK ==
    /\ llm \in BOOLEAN /\ running \in BOOLEAN
    /\ net \in Somewhere /\ services \in Networks
    /\ registry \in [wallets : SUBSET Networks, active : Networks \cup {None}]
    /\ op.tool \in {None, "swap_quote", "pay_send", "pay_send_execute"} /\ op.missing \in 0..4 /\ op.id \in Ids
    /\ quote.id \in Ids /\ opps.id \in Ids /\ opps.count \in 0..MaxPicks /\ opps.picked \in 0..opps.count
    /\ history.shown \in Ids /\ history.done \subseteq Ids \ {0}

\* What is executed is what the user has in view: the quote or the payment
\* shown last, or the opportunity picked last from the last scan.
InView(e) == e.id = history.last[e.kind] /\ (e.kind = "cycle" => e.pick = history.picked)
\* ... not executed before, and not withdrawn by a cancellation or a change of
\* network (neither withdraws opportunities).
StillOpen(e) == e.id \notin history.done /\ (e.kind # "cycle" => e.id > history.revoked)
\* ... on the network it was quoted for, unless the session had to move to the
\* network of the active wallet since.
AsQuoted(e) == e.kind = "cycle" \/ e.moved \/ e.net = e.quoted

\* Nothing is executed but what the user was shown and, by the rules, confirmed
\* with a word that confirms and none that cancels: at most one thing per
\* message, each once, none after it was withdrawn, and a swap on the network
\* it was quoted for.
ConfirmedOnce ==
    /\ []TypeOK
    /\ [][ran' # ran => /\ ran'.asked /\ ran'.message > ran.message
                        /\ InView(ran') /\ StillOpen(ran') /\ AsQuoted(ran')]_vars
============================================================================

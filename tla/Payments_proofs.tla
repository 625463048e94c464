---------------------------- MODULE Payments_proofs ----------------------------
(* Proofs about payments, for any assets, claims, prices and bounds.          *)
(*                                                                            *)
(* The invariant says what a command may still do and what it has learnt:     *)
(* its steps are in order (Routed), so a purchase over x402 has one paid      *)
(* retry ahead of it at most and has looked at the cap by then, and a batch   *)
(* of declines is built from claims and trustlines that were read no later    *)
(* than the sequence number it is sent with.  Two lemmas about the ledger     *)
(* carry the rest: a batch of declines that goes through gives back what it   *)
(* takes, and one built on the ledger's present state goes through.           *)
EXTENDS Payments, FiniteSetTheorems, SequenceTheorems, WellFoundedInduction, TLAPS

------------------------------------------------------------------------------
(* Types.                                                                     *)

Op ==
    [op : {"pay", "claim"}, asset : Assets, units : Nat, claim : Claims \cup {None}]
    \cup [op : {"trust", "untrust"}, asset : Issued, units : Nat, claim : {None}]
Substitute   == [do : {"fake", "zkfile"}]
BareKey      == [do : {"key"}, instead : {<<>>}]
DryFetchSteps == [do : {"request", "cap", "sign", "x402file"}] \cup BareKey
FetchSteps   == DryFetchSteps \cup [do : {"retry"}]
DeclineSteps == [do : {"count", "confirm", "claims", "account", "filter", "submit-all"}] \cup BareKey
OtherSteps ==
    [do : {"fake", "account", "zkfile", "prove", "quote", "confirm", "receipt", "claims", "submit-all", "filter",
           "count", "assetfile"}]
    \cup [do : {"key"}, instead : Seq(Substitute)] \cup [do : {"find"}, claim : Claims]
    \cup [do : {"submit"}, ops : Seq(Op)]
Steps == FetchSteps \cup DeclineSteps \cup OtherSteps
OtherHows == {"none", "direct", "zk", "swap", "tempo", "list", "accept", "decline", "accept-all", "create", "trust",
              "untrust", "read"}
Hows == OtherHows \cup {"x402", "dry run", "decline-all"}
Worlds == (SUBSET Issued) \X (SUBSET Claims) \X Nat
AnyJob == [how : Hows, steps : Seq(Steps), wallet : WalletState, torn : BOOLEAN, seq : Nat, trusts : SUBSET Issued,
           list : SUBSET Claims, read : Worlds \cup {<<>>}, tx : Nat \cup {Fake}, price : Nat, cap : Nat]
\* The steps a command can be made of.
OwnSteps(j) ==
    /\ j.how = "x402"        => j.steps \in Seq(FetchSteps)
    /\ j.how = "dry run"     => j.steps \in Seq(DryFetchSteps)
    /\ j.how = "decline-all" => j.steps \in Seq(DeclineSteps)
    /\ j.how \in OtherHows   => j.steps \in Seq(OtherSteps)
Job == {j \in AnyJob : OwnSteps(j)}
Transaction == [id : Nat, how : Hows, seq : Nat, ops : Seq(Op)]
Authorization == [command : Nat, price : Nat, cap : Nat, how : Hows, nonce : Nat]
AccountType == [held : [Assets -> Nat], trusts : SUBSET Issued, seq : Nat,
                ready : SUBSET Claims, returnable : SUBSET Claims]
Results == {"none", "done", "error", "nothing to do", "not found", "locked", "no key", "not executed", "refused",
            "no answer", "panic", "bad challenge", "above cap", "simulation failed", "unexpected authorization",
            "rejected", "failed after payment"}
Report == [how : Hows, result : Results, tx : Nat \cup {Fake}, wallet : WalletState, torn : BOOLEAN,
           read : Worlds \cup {<<>>}, found : Worlds \cup {<<>>}, hindered : BOOLEAN]
Files == [payment : Nat \cup {Fake}, zk : Nat \cup {Fake}, asset : Nat \cup {Fake}, x402 : Nat]
Spent == [commands : Nat, outside : Nat, faults : Nat, txs : Nat, nonces : Nat]

OnLedgerTyped ==
    /\ account \in AccountType /\ claims \subseteq Claims
    /\ flying \subseteq Transaction /\ landed \subseteq [id : Nat, how : Hows]
    /\ \A t \in flying : t.id \in 1..spent.txs
    /\ \A t \in landed : t.id \in 1..spent.txs
Typed ==
    /\ OnLedgerTyped /\ wallet \in WalletState
    /\ signed \subseteq Authorization /\ settled \subseteq Authorization
    /\ report \in Report /\ files \in Files /\ spent \in Spent

------------------------------------------------------------------------------
(* What a command knows, and the order of its steps.                          *)

Known(tx, ids) == tx \in ids \cup {None, Fake}
HonestJob(j, ids) == Known(j.tx, ids) /\ (j.wallet = "locked" => j.torn)
HonestReport ==
    /\ report.result = "done" => Known(report.tx, OnLedger)
    /\ report.wallet = "locked" => report.torn
    /\ Known(files.payment, OnLedger) /\ Known(files.zk, OnLedger)

Chain(s, follow) == \A i \in 1..(Len(s) - 1) : <<s[i].do, s[i + 1].do>> \in follow
HasRetry(s) == \E i \in 1..Len(s) : s[i].do = "retry"
FetchFollow == {<<"key", "request">>, <<"request", "cap">>, <<"cap", "sign">>, <<"sign", "retry">>,
                <<"retry", "x402file">>, <<"sign", "x402file">>, <<"request", "x402file">>}
DeclineFollow == {<<"count", "confirm">>, <<"confirm", "claims">>, <<"claims", "key">>, <<"key", "account">>,
                  <<"account", "filter">>, <<"filter", "submit-all">>}
Routed(j) ==
    /\ j.how \in {"x402", "dry run"} => Chain(j.steps, FetchFollow)
    /\ j.how = "decline-all" => Chain(j.steps, DeclineFollow)

\* The list of claims, the trustlines and the sequence number a batch is built
\* from are no newer than the ledger acc, and the list is the oldest.
Informed(j, acc) ==
    /\ j.read \in Worlds /\ j.list \subseteq j.read[2]
    /\ j.read[3] <= acc.seq /\ (j.read[3] = acc.seq => j.read[1] = acc.trusts)
Prepared(j, acc) == j.read[3] <= j.seq /\ j.seq <= acc.seq /\ (j.seq = acc.seq => j.trusts = acc.trusts)
Declinable(j) == \A c \in j.list : Trusted(j, AssetOf[c])
CapKept(j) == j.cap # NoCap => j.price <= j.cap

\* What holds when a step begins, and when it is done.
Ready(j, acc) ==
    j.steps # <<>> =>
        /\ Head(j.steps).do \in {"sign", "retry"} => CapKept(j)
        /\ j.how = "decline-all" =>
              /\ Head(j.steps).do \in {"key", "account", "filter", "submit-all"} => Informed(j, acc)
              /\ Head(j.steps).do \in {"filter", "submit-all"} => Prepared(j, acc)
              /\ Head(j.steps).do = "submit-all" => Declinable(j)
Done(j, acc) ==
    /\ Head(j.steps).do \in {"cap", "sign"} => CapKept(j)
    /\ j.how = "decline-all" =>
          /\ Head(j.steps).do \in {"claims", "key", "account", "filter"} => Informed(j, acc)
          /\ Head(j.steps).do \in {"account", "filter"} => Prepared(j, acc)
          /\ Head(j.steps).do = "filter" => Declinable(j)
JobOK(j, acc, ids) == j \in Job /\ HonestJob(j, ids) /\ Routed(j) /\ Ready(j, acc)

\* An authorization belongs to a command that has begun, and is the only one.
Authorized ==
    /\ \A a \in signed \cup settled :
          /\ a.how = "x402" /\ a.command <= spent.commands
          /\ a.cap # NoCap => a.price <= a.cap
          /\ a.command = spent.commands => ~HasRetry(job.steps)
    /\ \A a, b \in signed \cup settled : a.command = b.command => a = b

Paired(ops) == \E order \in Seq(Claims) : ops = DeclineOps(order)
Declined ==
    /\ \A t \in flying : t.how = "decline-all" => Paired(t.ops)
    /\ report.how = "decline-all" /\ report.result = "refused" /\ ~report.hindered => report.read # report.found

IInv == Typed /\ JobOK(job, account, OnLedger) /\ HonestReport /\ Authorized /\ Declined

------------------------------------------------------------------------------
(* Induction, and sets put in order.                                          *)

Less == {r \in Nat \X Nat : r[1] < r[2]}
\* The natural numbers are well ordered.
LEMMA LessWellFounded == IsWellFoundedOn(Less, Nat)
BY NatLessThanWellFounded DEF OpToRel, Less

\* Induction over the natural numbers, of a set of them.
LEMMA NatSetInduction ==
    ASSUME NEW P, 0 \in P, \A n \in Nat : n \in P => n + 1 \in P
    PROVE  \A n \in Nat : n \in P
<1> DEFINE T == Nat \ P
<1> SUFFICES ASSUME T # {} PROVE FALSE
  OBVIOUS
<1>1. PICK x \in T : \A y \in T : ~(<<y, x>> \in Less)
  <2>1. T \subseteq Nat
    OBVIOUS
  <2> HIDE DEF T
  <2> QED
  BY LessWellFounded, WFMin, <2>1
<1>2. \A y \in T : ~(y < x)
  BY <1>1 DEF Less
<1>3. x # 0
  OBVIOUS
<1>4. x - 1 \in Nat /\ x - 1 < x
  BY <1>3
<1>5. x - 1 \in P
  BY <1>2, <1>4
<1> QED BY <1>4, <1>5

\* SetToSeq puts a finite set in an order, each element once.
LEMMA SetToSeqOrders ==
    ASSUME NEW S, IsFiniteSet(S)
    PROVE  /\ SetToSeq(S) \in Seq(S)
           /\ \A i, j \in 1..Len(SetToSeq(S)) : SetToSeq(S)[i] = SetToSeq(S)[j] => i = j
<1> DEFINE n == Cardinality(S)
           s == SetToSeq(S)
<1>1. n \in Nat /\ \E f \in [1..n -> S] : IsInjective(f)
  <2>1. n \in Nat /\ ExistsBijection(1..n, S)
    BY FS_CardinalityType
  <2> QED BY <2>1 DEF ExistsBijection, Bijection, Injection, IsInjective
<1>2. s \in [1..n -> S] /\ IsInjective(s)
  BY <1>1 DEF SetToSeq
<1>3. s \in Seq(S) /\ Len(s) = n
  <2> HIDE DEF s, n
  <2> QED BY <1>1, <1>2
<1>4. \A i, j \in 1..n : s[i] = s[j] => i = j
  <2> HIDE DEF s, n
  <2> QED BY <1>2 DEF IsInjective
<1> QED BY <1>3, <1>4

------------------------------------------------------------------------------
(* The ledger.                                                                *)

Ledger == [ok : BOOLEAN, held : [Assets -> Nat], trusts : SUBSET Issued, claims : SUBSET Claims]
\* An operation makes a ledger out of a ledger.
LEMMA PerformTyped == \A st \in Ledger, op \in Op : Perform(st, op) \in Ledger
<1> SUFFICES ASSUME NEW st \in Ledger, NEW op \in Op PROVE Perform(st, op) \in Ledger
  OBVIOUS
<1>1. CASE ~(st.ok /\ Possible(st, op))
  BY <1>1 DEF Perform, Ledger
<1>2. CASE st.ok /\ Possible(st, op)
  <2>1. CASE op.op = "pay"
    <3>1. op.asset \in Assets /\ op.units \in Nat /\ st.held \in [Assets -> Nat] /\ st.held[op.asset] >= op.units
      BY <1>2, <2>1 DEF Possible, Ledger, Op, Assets
    <3>2. st.held[op.asset] - op.units \in Nat
      BY <3>1
    <3>3. Perform(st, op) = [st EXCEPT !.held[op.asset] = @ - op.units]
      BY <1>2, <2>1 DEF Perform, After
    <3> QED BY <3>1, <3>2, <3>3 DEF Ledger
  <2>2. CASE op.op = "claim"
    <3>1. op.asset \in Assets /\ st.held \in [Assets -> Nat] /\ st.held[op.asset] + 1 \in Nat
      BY <2>2 DEF Ledger, Op, Assets
    <3>2. Perform(st, op) = [st EXCEPT !.held[op.asset] = @ + 1, !.claims = @ \ {op.claim}]
      BY <1>2, <2>2 DEF Perform, After
    <3> QED BY <3>1, <3>2 DEF Ledger
  <2>3. CASE op.op = "trust"
    BY <1>2, <2>3 DEF Perform, Possible, After, Ledger, Op
  <2>4. CASE op.op = "untrust"
    BY <1>2, <2>4 DEF Perform, Possible, After, Ledger, Op
  <2> QED BY <2>1, <2>2, <2>3, <2>4 DEF Op
<1> QED BY <1>1, <1>2

Runs(b, ops, g) == g = [n \in 0..Len(ops) |-> IF n = 0 THEN b ELSE Perform(g[n - 1], ops[n])]

\* Claims and returns are operations.
LEMMA ClaimOps ==
    \A c \in Claims, n \in Nat : Claim(c) \in Op /\ Return(c, n) \in Op /\ PaidBack(AssetOf[c]) \in Assets
<1> SUFFICES ASSUME NEW c \in Claims, NEW n \in Nat
             PROVE  Claim(c) \in Op /\ Return(c, n) \in Op /\ PaidBack(AssetOf[c]) \in Assets
  OBVIOUS
<1>1. AssetOf[c] \in Assets /\ PaidBack(AssetOf[c]) \in Assets
  BY PaymentAssumptions DEF PaidBack, Assets
<1> QED BY <1>1 DEF Claim, Return, Op

\* A list of operations has a run, so that Execute's recursion defines one.
LEMMA RunExists ==
    ASSUME NEW b, NEW ops \in Seq(Op)
    PROVE  \E g : Runs(b, ops, g)
<1> DEFINE Upto(k, g) == g = [n \in 0..k |-> IF n = 0 THEN b ELSE Perform(g[n - 1], ops[n])]
           P == {k \in Nat : \E g : Upto(k, g)}
<1>1. 0 \in P
  <2> DEFINE g0 == [n \in 0..0 |-> b]
  <2>1. Upto(0, g0)
    OBVIOUS
  <2> QED BY <2>1
<1>2. ASSUME NEW k \in Nat, k \in P PROVE k + 1 \in P
  <2>1. PICK g : Upto(k, g)
    BY <1>2
  <2> DEFINE h == [n \in 0..(k + 1) |-> IF n = k + 1 THEN Perform(g[k], ops[k + 1]) ELSE g[n]]
  <2>2. \A n \in 0..(k + 1) : h[n] = IF n = 0 THEN b ELSE Perform(h[n - 1], ops[n])
    <3> TAKE n \in 0..(k + 1)
    <3>1. CASE n = k + 1
      <4>1. k \in 0..(k+1) /\ h[k] = g[k] /\ h[n] = Perform(g[k], ops[k + 1])
        BY <3>1
      <4> HIDE DEF h
      <4> QED BY <4>1, <3>1
    <3>2. CASE n \in 1..k
      <4>1. h[n] = g[n] /\ h[n - 1] = g[n - 1]
        BY <3>2
      <4>2. g[n] = Perform(g[n - 1], ops[n])
        BY <2>1, <3>2
      <4> HIDE DEF h
      <4> QED BY <4>1, <4>2, <3>2
    <3>3. CASE n = 0
      BY <2>1, <3>3
    <3> QED BY <3>1, <3>2, <3>3
  <2>3. Upto(k + 1, h)
    <3>1. h = [n \in 0..(k + 1) |-> h[n]]
      OBVIOUS
    <3> HIDE DEF h
    <3> QED BY <3>1, <2>2
  <2>4. \E f : Upto(k + 1, f)
    <3> HIDE DEF h, Upto
    <3> QED BY <2>3
  <2>5. k + 1 \in Nat
    OBVIOUS
  <2> HIDE DEF Upto
  <2> QED BY <2>4, <2>5
<1>3. \A k \in Nat : k \in P
  <2> HIDE DEF P
  <2> QED BY <1>1, <1>2, NatSetInduction
<1>4. Len(ops) \in Nat /\ Len(ops) \in P
  BY <1>3
<1> QED BY <1>4 DEF Runs

\* Execute is where a run from the present ledger ends.
LEMMA ExecuteRuns ==
    ASSUME NEW ops \in Seq(Op)
    PROVE  \E g : Runs(Before, ops, g) /\ Execute(ops) = g[Len(ops)]
<1>1. \E g : Runs(Before, ops, g)
  BY RunExists
<1> QED BY <1>1 DEF Execute, Runs

\* What a claim and its return do to the holdings.
Returned(before, after, c) ==
    LET a == AssetOf[c] IN
    IF a \in Namesakes
    THEN before[Native] >= 1 /\ after = [before EXCEPT ![a] = before[a] + 1, ![Native] = before[Native] - 1]
    ELSE after = before
\* The ledger takes the claim, and its sponsor what is paid back.
Welcome(st, c) ==
    c \in st.claims \cap account.ready \cap account.returnable /\ Trusted(st, AssetOf[c])

\* Taking a claim and paying it back returns every holding, or spends lumens for
\* an asset that is called XLM, and goes through when the claim is welcome.
LEMMA ClaimReturn ==
    ASSUME NEW st \in Ledger, NEW c \in Claims
    PROVE  LET x == Perform(Perform(st, Claim(c)), Return(c, 1)) IN
           /\ x \in Ledger
           /\ x.ok => st.ok /\ Returned(st.held, x.held, c)
           /\ st.ok /\ Welcome(st, c) /\ AssetOf[c] \notin Namesakes
                 => x.ok /\ x.trusts = st.trusts /\ x.claims = st.claims \ {c}
<1> DEFINE a == AssetOf[c]
           b == PaidBack(AssetOf[c])
           y == Perform(st, Claim(c))
           x == Perform(y, Return(c, 1))
<1>1. a \in Assets /\ b \in Assets /\ Claim(c) \in Op /\ Return(c, 1) \in Op /\ c # None
  BY PaymentAssumptions, ClaimOps
<1>2. y \in Ledger
  BY <1>1, PerformTyped
<1>3. x \in Ledger
  <2> HIDE DEF y
  <2> QED BY <1>1, <1>2, PerformTyped
<1>4. y = IF st.ok /\ c \in st.claims \cap account.ready /\ Trusted(st, a)
          THEN [st EXCEPT !.held[a] = @ + 1, !.claims = @ \ {c}] ELSE [st EXCEPT !.ok = FALSE]
  BY DEF Perform, Possible, After, Claim
<1>5. x = IF y.ok /\ Trusted(y, b) /\ y.held[b] >= 1 /\ c \in account.returnable
          THEN [y EXCEPT !.held[b] = @ - 1] ELSE [y EXCEPT !.ok = FALSE]
  <2>1. Return(c, 1).op = "pay" /\ Return(c, 1).asset = b /\ Return(c, 1).units = 1 /\ Return(c, 1).claim = c
    BY DEF Return
  <2> HIDE DEF y, b
  <2> QED BY <1>1, <2>1 DEF Perform, Possible, After
<1>6. (a \in Namesakes => b = Native /\ a # Native) /\ (a \notin Namesakes => b = a)
  BY PaymentAssumptions DEF PaidBack
<1> HIDE DEF y, x, a, b
<1>7. CASE st.ok /\ c \in st.claims \cap account.ready /\ Trusted(st, a)
  <2>1. y = [st EXCEPT !.held[a] = @ + 1, !.claims = @ \ {c}]
    BY <1>4, <1>7
  <2>2. st.held \in [Assets -> Nat]
    BY DEF Ledger
  <2>3. /\ y.ok /\ y.trusts = st.trusts /\ y.claims = st.claims \ {c}
        /\ y.held = [st.held EXCEPT ![a] = st.held[a] + 1]
    BY <1>7, <2>1 DEF Ledger
  <2>4. x.ok => x = [y EXCEPT !.held[b] = @ - 1] /\ y.held[b] >= 1
    BY <1>2, <1>5 DEF Ledger
  <2>5. x.ok => x.trusts = y.trusts /\ x.claims = y.claims /\ x.held = [y.held EXCEPT ![b] = y.held[b] - 1]
    BY <1>2, <2>4 DEF Ledger
  <2>6. x.ok => Returned(st.held, x.held, c)
    <3>1. CASE a \in Namesakes
      <4>1. b = Native /\ y.held[b] = st.held[b] /\ st.held[b] \in Nat
        BY <1>1, <1>6, <2>2, <2>3, <3>1
      <4>2. x.ok => x.held = [st.held EXCEPT ![a] = st.held[a] + 1, ![Native] = st.held[Native] - 1]
        BY <2>3, <2>5, <4>1
      <4> QED BY <2>4, <3>1, <4>1, <4>2 DEF Returned, a
    <3>2. CASE a \notin Namesakes
      <4>1. b = a /\ [y.held EXCEPT ![a] = y.held[a] - 1] = st.held
        BY <1>1, <1>6, <2>2, <2>3, <3>2
      <4> QED BY <2>5, <3>2, <4>1 DEF Returned, a
    <3> QED BY <3>1, <3>2
  <2>7. Welcome(st, c) /\ a \notin Namesakes => x.ok /\ x.trusts = st.trusts /\ x.claims = st.claims \ {c}
    <3> SUFFICES ASSUME Welcome(st, c), a \notin Namesakes
                 PROVE  x.ok /\ x.trusts = st.trusts /\ x.claims = st.claims \ {c}
      OBVIOUS
    <3>1. b = a /\ y.held[a] >= 1
      BY <1>1, <1>6, <2>2, <2>3
    <3>2. Trusted(y, b) /\ c \in account.returnable
      BY <1>7, <2>3, <3>1 DEF Trusted, Welcome
    <3>3. x = [y EXCEPT !.held[b] = @ - 1]
      BY <1>5, <2>3, <3>1, <3>2
    <3>4. x.ok
      BY <1>2, <2>3, <3>3 DEF Ledger
    <3> QED BY <2>3, <2>5, <3>4
  <2> QED BY <1>3, <1>7, <2>6, <2>7 DEF x, y, a
<1>8. CASE ~(st.ok /\ c \in st.claims \cap account.ready /\ Trusted(st, a))
  <2>1. ~y.ok
    BY <1>4, <1>8 DEF Ledger
  <2>2. ~x.ok
    BY <1>2, <1>5, <2>1 DEF Ledger
  <2>3. ~(st.ok /\ Welcome(st, c))
    BY <1>8 DEF Welcome, a
  <2> QED BY <1>3, <2>2, <2>3 DEF x, y, a
<1> QED BY <1>7, <1>8

\* Returning claims one after the other pays by code.
LEMMA ReturnsAddUp ==
    ASSUME NEW h \in [Assets -> Nat], NEW k \in [Assets -> Nat], NEW l, NEW c \in Claims,
           PaidByCode(h, k), Returned(k, l, c)
    PROVE  PaidByCode(h, l)
<1> DEFINE a == AssetOf[c]
<1>1. CASE a \notin Namesakes
  BY <1>1 DEF Returned
<1>2. CASE a \in Namesakes
  <2>1. a \in Assets /\ Native \in Assets /\ a # Native /\ Namesakes \subseteq Assets /\ Issued \subseteq Assets
        /\ Native \notin Issued /\ Namesakes \subseteq Issued
    <3>1. Native \notin Issued /\ Namesakes \subseteq Issued
      BY PaymentAssumptions
    <3> QED BY <1>2, <3>1 DEF Assets
  <2>2. l = [k EXCEPT ![a] = k[a] + 1, ![Native] = k[Native] - 1]
    BY <1>2 DEF Returned
  <2>3. l[a] = k[a] + 1 /\ l[Native] = k[Native] - 1 /\ \A z \in Issued \ {a} : l[z] = k[z]
    BY <2>1, <2>2
  <2>4. \A z \in Assets : h[z] \in Nat /\ k[z] \in Nat
    OBVIOUS
  <2>5. l[a] > h[a]
    BY <1>2, <2>1, <2>3, <2>4 DEF PaidByCode
  <2>6. l[Native] < h[Native]
    BY <2>1, <2>3, <2>4 DEF PaidByCode
  <2>7. \A z \in Namesakes : l[z] >= h[z]
    BY <2>1, <2>3, <2>4, <2>5 DEF PaidByCode
  <2>8. \A z \in Issued \ Namesakes : l[z] = h[z]
    BY <1>2, <2>1, <2>3 DEF PaidByCode
  <2>9. l[Native] <= h[Native]
    BY <2>1, <2>3, <2>4, <2>6
  <2> HIDE DEF a
  <2> QED BY <1>2, <2>5, <2>6, <2>7, <2>8, <2>9 DEF PaidByCode, a
<1> QED BY <1>1, <1>2

\* Leaving everything alone does so too.
LEMMA NothingPaid == ASSUME NEW h \in [Assets -> Nat] PROVE PaidByCode(h, h)
<1>1. \A z \in Assets : h[z] \in Nat
  OBVIOUS
<1>2. Issued \subseteq Assets /\ Native \in Assets /\ Namesakes \subseteq Assets
  BY PaymentAssumptions DEF Assets
<1> QED BY <1>1, <1>2 DEF PaidByCode

\* A run keeps the ledger typed.
LEMMA RunsTyped ==
    ASSUME NEW b \in Ledger, NEW ops \in Seq(Op), NEW g, Runs(b, ops, g)
    PROVE  \A n \in 0..Len(ops) : g[n] \in Ledger
<1> DEFINE P == {n \in Nat : n <= Len(ops) => g[n] \in Ledger}
<1>1. 0 \in P
  BY DEF Runs
<1>2. ASSUME NEW n \in Nat, n \in P PROVE n + 1 \in P
  <2> SUFFICES ASSUME n + 1 <= Len(ops) PROVE g[n + 1] \in Ledger
    OBVIOUS
  <2>1. g[n] \in Ledger /\ ops[n + 1] \in Op
    BY <1>2
  <2>2. g[n + 1] = Perform(g[n], ops[n + 1])
    BY DEF Runs
  <2> QED BY <2>1, <2>2, PerformTyped
<1>3. \A n \in Nat : n \in P
  <2> HIDE DEF P
  <2> QED BY <1>1, <1>2, NatSetInduction
<1> QED BY <1>3

\* A batch of declines is two operations per claim, in order.
LEMMA DeclineOpsAre ==
    ASSUME NEW order \in Seq(Claims)
    PROVE  /\ DeclineOps(order) \in Seq(Op) /\ Len(DeclineOps(order)) = 2 * Len(order)
           /\ \A k \in 1..Len(order) :
                 DeclineOps(order)[2 * k - 1] = Claim(order[k]) /\ DeclineOps(order)[2 * k] = Return(order[k], 1)
<1> DEFINE L == Len(order)
<1>1. L \in Nat /\ order \in [1..L -> Claims]
  OBVIOUS
<1>2. \A c \in Claims : Claim(c) \in Op /\ Return(c, 1) \in Op
  BY ClaimOps
<1>3. ASSUME NEW i \in 1..(2 * L)
      PROVE  /\ i % 2 = 1 => (i + 1) \div 2 \in 1..L
             /\ i % 2 # 1 => i \div 2 \in 1..L
  BY <1>1
<1>4. DeclineOps(order) \in [1..(2 * L) -> Op]
  BY <1>1, <1>2, <1>3 DEF DeclineOps
<1>5. ASSUME NEW k \in 1..L
      PROVE  /\ 2 * k - 1 \in 1..(2 * L) /\ (2 * k - 1) % 2 = 1 /\ ((2 * k - 1) + 1) \div 2 = k
             /\ 2 * k \in 1..(2 * L) /\ (2 * k) % 2 = 0 /\ (2 * k) \div 2 = k
  BY <1>1
<1>6. \A k \in 1..L : DeclineOps(order)[2 * k - 1] = Claim(order[k]) /\ DeclineOps(order)[2 * k] = Return(order[k], 1)
  BY <1>5 DEF DeclineOps
<1> QED BY <1>1, <1>4, <1>6

\* Each pair of a batch is a claim and its return.
LEMMA DeclinePair ==
    ASSUME NEW b \in Ledger, NEW order \in Seq(Claims), NEW g, Runs(b, DeclineOps(order), g)
    PROVE  \A k \in 0..(Len(order) - 1) :
              /\ g[2 * k] \in Ledger /\ order[k + 1] \in Claims
              /\ g[2 * (k + 1)] = Perform(Perform(g[2 * k], Claim(order[k + 1])), Return(order[k + 1], 1))
<1>1. TAKE k \in 0..(Len(order) - 1)
<1>2. k + 1 \in 1..Len(order) /\ 2 * k \in 0..(2 * Len(order)) /\ 2 * k + 1 \in 1..(2 * Len(order))
      /\ 2 * (k + 1) \in 1..(2 * Len(order)) /\ 2 * (k + 1) - 1 = 2 * k + 1
  OBVIOUS
<1>3. g[2 * k] \in Ledger
  BY <1>2, DeclineOpsAre, RunsTyped
<1>4. g[2 * k + 1] = Perform(g[2 * k], Claim(order[k + 1]))
  BY <1>2, DeclineOpsAre DEF Runs
<1>5. g[2 * (k + 1)] = Perform(g[2 * k + 1], Return(order[k + 1], 1))
  <2>1. DeclineOps(order)[2 * (k + 1)] = Return(order[k + 1], 1) /\ Len(DeclineOps(order)) = 2 * Len(order)
    BY <1>2, DeclineOpsAre
  <2>2. 2 * (k + 1) # 0 /\ 2 * (k + 1) - 1 = 2 * k + 1
    BY <1>2
  <2> QED BY <1>2, <2>1, <2>2 DEF Runs
<1> QED BY <1>2, <1>3, <1>4, <1>5

\* A batch of declines that goes through pays by code.
LEMMA DeclineKeepsHoldings ==
    ASSUME NEW b \in Ledger, NEW order \in Seq(Claims), NEW g, Runs(b, DeclineOps(order), g)
    PROVE  g[2 * Len(order)].ok => PaidByCode(b.held, g[2 * Len(order)].held)
<1> DEFINE P == {k \in Nat : k <= Len(order) /\ g[2 * k].ok => PaidByCode(b.held, g[2 * k].held)}
<1>0. b.held \in [Assets -> Nat]
  BY DEF Ledger
<1>1. 0 \in P
  <2>1. g[2 * 0] = b
    BY DeclineOpsAre DEF Runs
  <2> QED BY <1>0, <2>1, NothingPaid
<1>2. ASSUME NEW k \in Nat, k \in P PROVE k + 1 \in P
  <2> DEFINE st == g[2 * k]  c == order[k + 1]  x == g[2 * (k + 1)]
  <2> SUFFICES ASSUME k + 1 <= Len(order), x.ok PROVE PaidByCode(b.held, x.held)
    OBVIOUS
  <2>1. st \in Ledger /\ c \in Claims /\ x = Perform(Perform(st, Claim(c)), Return(c, 1))
    BY DeclinePair
  <2>2. Returned(st.held, x.held, c) /\ st.ok /\ st.held \in [Assets -> Nat]
    <3> HIDE DEF st, c, x
    <3> QED BY <2>1, ClaimReturn DEF Ledger
  <2>3. PaidByCode(b.held, st.held)
    BY <1>2, <2>2
  <2> HIDE DEF st, c, x
  <2> QED BY <1>0, <2>1, <2>2, <2>3, ReturnsAddUp
<1>3. \A k \in Nat : k \in P
  <2> HIDE DEF P
  <2> QED BY <1>1, <1>2, NatSetInduction
<1> QED BY <1>3

\* A batch of declines of welcome claims goes through, unless lumens are paid
\* for another asset.
LEMMA DeclineGoesThrough ==
    ASSUME NEW b \in Ledger, NEW order \in Seq(Claims), NEW g, Runs(b, DeclineOps(order), g),
           b.ok,
           \A i, j \in 1..Len(order) : order[i] = order[j] => i = j,
           \A i \in 1..Len(order) : Welcome(b, order[i]) /\ AssetOf[order[i]] \notin Namesakes
    PROVE  g[2 * Len(order)].ok
<1> DEFINE P == {k \in Nat : k <= Len(order) =>
                    /\ g[2 * k].ok /\ g[2 * k].trusts = b.trusts
                    /\ \A i \in (k + 1)..Len(order) : order[i] \in g[2 * k].claims}
<1>1. 0 \in P
  <2>1. g[2 * 0] = b
    BY DeclineOpsAre DEF Runs
  <2> QED BY <2>1 DEF Welcome
<1>2. ASSUME NEW k \in Nat, k \in P PROVE k + 1 \in P
  <2> DEFINE st == g[2 * k]  c == order[k + 1]  x == g[2 * (k + 1)]
  <2> SUFFICES ASSUME k + 1 <= Len(order)
               PROVE  /\ x.ok /\ x.trusts = b.trusts
                      /\ \A i \in (k + 2)..Len(order) : order[i] \in x.claims
    OBVIOUS
  <2>1. st \in Ledger /\ c \in Claims /\ x = Perform(Perform(st, Claim(c)), Return(c, 1))
    BY DeclinePair
  <2>2. st.ok /\ st.trusts = b.trusts /\ \A i \in (k + 1)..Len(order) : order[i] \in st.claims
    BY <1>2
  <2>3. Welcome(st, c) /\ AssetOf[c] \notin Namesakes
    BY <2>2 DEF Trusted, Welcome
  <2>4. x.ok /\ x.trusts = st.trusts /\ x.claims = st.claims \ {c}
    <3> HIDE DEF st, c, x
    <3> QED BY <2>1, <2>2, <2>3, ClaimReturn
  <2>5. \A i \in (k + 2)..Len(order) : order[i] \in st.claims /\ order[i] # c
    BY <2>2
  <2> QED BY <2>2, <2>4, <2>5
<1>3. \A k \in Nat : k \in P
  <2> HIDE DEF P
  <2> QED BY <1>1, <1>2, NatSetInduction
<1> QED BY <1>3

------------------------------------------------------------------------------
(* A command goes on.                                                         *)

\* The constants, and the definitions that stand for constants of the code.
LEMMA Constants ==
    /\ Assets = Issued \cup {Native} /\ None = 0 /\ Fake = -1 /\ NoCap = 0 /\ Native = "XLM"
    /\ Prices \subseteq Nat \ {0} /\ AssetOf \in [Claims -> Assets]
    /\ WalletState = {"key", "locked", "external"} /\ Wallets \subseteq WalletState /\ Holding \in Nat
BY PaymentAssumptions DEF Assets, None, Fake, NoCap, Native, WalletState

\* What is left of a list without its first member.
LEMMA TailIs ==
    ASSUME NEW S, NEW s \in Seq(S), s # <<>>
    PROVE  /\ Len(s) \in Nat \ {0} /\ Head(s) = s[1] /\ Head(s) \in S
           /\ Tail(s) \in Seq(S) /\ Len(Tail(s)) = Len(s) - 1
           /\ \A i \in 1..(Len(s) - 1) : Tail(s)[i] = s[i + 1]
           /\ Len(s) # 1 => Tail(s) # <<>> /\ Head(Tail(s)) = s[2]
<1>1. Len(s) \in Nat \ {0} /\ Head(s) = s[1] /\ s[1] \in S
  OBVIOUS
<1>2. /\ Tail(s) \in Seq(S) /\ Len(Tail(s)) = Len(s) - 1
      /\ \A i \in 1..(Len(s) - 1) : Tail(s)[i] = s[i + 1]
  BY HeadTailProperties
<1>3. Len(s) # 1 => Tail(s) # <<>> /\ Head(Tail(s)) = s[2]
  <2> SUFFICES ASSUME Len(s) # 1 PROVE Tail(s) # <<>> /\ Head(Tail(s)) = s[2]
    OBVIOUS
  <2>1. Len(Tail(s)) >= 1 /\ Tail(s)[1] = s[2]
    BY <1>1, <1>2
  <2> DEFINE t == Tail(s)
  <2>2. t \in Seq(S) /\ Len(t) >= 1 /\ t[1] = s[2]
    BY <1>2, <2>1
  <2> HIDE DEF t
  <2>3. t # <<>>
    BY <2>2, EmptySeq
  <2>4. Head(t) = t[1]
    BY <2>2, <2>3
  <2> QED BY <2>2, <2>3, <2>4 DEF t
<1> QED BY <1>1, <1>2, <1>3

\* What is left of a chain is a chain.
LEMMA ChainTail ==
    ASSUME NEW S, NEW s \in Seq(S), s # <<>>, NEW follow, Chain(s, follow)
    PROVE  /\ Chain(Tail(s), follow)
           /\ Len(s) # 1 => <<Head(s).do, Head(Tail(s)).do>> \in follow
<1>1. \A i \in 1..(Len(s) - 2) : Tail(s)[i] = s[i + 1] /\ Tail(s)[i + 1] = s[i + 2]
  BY TailIs
<1>2. \A i \in 1..(Len(s) - 2) : <<s[i + 1].do, s[i + 2].do>> \in follow
  BY DEF Chain
<1>3. Chain(Tail(s), follow)
  BY <1>1, <1>2, TailIs DEF Chain
<1>4. Len(s) # 1 => <<s[1].do, s[2].do>> \in follow
  BY TailIs DEF Chain
<1> QED BY <1>3, <1>4, TailIs

Rest(j) == IF Len(j.steps) = 1 THEN Fresh ELSE [j EXCEPT !.steps = Tail(@)]

\* Going on leaves the rest of the job.
LEMMA AdvanceToRest == \A j : Advance(j) => job' = Rest(j)
BY DEF Advance, Rest

\* An idle program has a job without steps.
LEMMA FreshOK == \A acc, ids : JobOK(Fresh, acc, ids) /\ ~HasRetry(Fresh.steps)
<1>1. Fresh \in AnyJob
  BY Constants DEF Fresh, AnyJob, Hows, OtherHows
<1>2. Fresh.how = "none" /\ Fresh.steps = <<>> /\ Fresh.tx = None /\ Fresh.wallet = "key"
  BY DEF Fresh
<1>3. OwnSteps(Fresh) /\ Routed(Fresh) /\ ~HasRetry(Fresh.steps)
  BY <1>2 DEF OwnSteps, Routed, HasRetry
<1> QED BY <1>1, <1>2, <1>3 DEF JobOK, Job, HonestJob, Known, Ready

\* A job's next step is one of its command's steps.
LEMMA StepsKnown ==
    ASSUME NEW j \in Job
    PROVE  /\ j.steps \in Seq(Steps)
           /\ j.steps # <<>> => Head(j.steps) \in Steps
           /\ j.steps # <<>> /\ j.how = "x402" => Head(j.steps) \in FetchSteps
           /\ j.steps # <<>> /\ j.how = "dry run" => Head(j.steps) \in DryFetchSteps
           /\ j.steps # <<>> /\ j.how = "decline-all" => Head(j.steps) \in DeclineSteps
           /\ j.steps # <<>> /\ j.how \in OtherHows => Head(j.steps) \in OtherSteps
<1>1. j \in AnyJob /\ OwnSteps(j)
  BY DEF Job
<1> QED BY <1>1, TailIs DEF AnyJob, OwnSteps

\* The rest of a job is a job, with no retry it had not before.
LEMMA RestTyped ==
    ASSUME NEW j \in Job, j.steps # <<>>
    PROVE  Rest(j) \in Job /\ (HasRetry(Rest(j).steps) => HasRetry(j.steps))
<1>1. CASE Len(j.steps) = 1
  BY <1>1, FreshOK DEF Rest, JobOK
<1>2. CASE Len(j.steps) # 1
  <2> DEFINE r == [j EXCEPT !.steps = Tail(@)]
  <2>1. j \in AnyJob /\ OwnSteps(j) /\ j.steps \in Seq(Steps)
    BY DEF Job, AnyJob
  <2>2. r.steps = Tail(j.steps) /\ r.how = j.how /\ r \in AnyJob
    BY <2>1, TailIs DEF AnyJob
  <2>3. OwnSteps(r)
    <3>1. \A S : j.steps \in Seq(S) => Tail(j.steps) \in Seq(S)
      BY TailIs
    <3> HIDE DEF r
    <3> QED BY <2>1, <2>2, <3>1 DEF OwnSteps
  <2>4. HasRetry(Tail(j.steps)) => HasRetry(j.steps)
    <3>1. \A i \in 1..Len(Tail(j.steps)) : i + 1 \in 1..Len(j.steps) /\ Tail(j.steps)[i] = j.steps[i + 1]
      BY <2>1, TailIs
    <3> QED BY <3>1 DEF HasRetry
  <2>5. Rest(j) = r
    BY <1>2 DEF Rest
  <2> HIDE DEF r
  <2> QED BY <2>2, <2>3, <2>4, <2>5 DEF Job
<1> QED BY <1>1, <1>2

\* What a step achieves is what the next one needs.
LEMMA RestOK ==
    ASSUME NEW j \in Job, NEW acc, NEW ids, j.steps # <<>>,
           HonestJob(j, ids), Routed(j), Done(j, acc)
    PROVE  JobOK(Rest(j), acc, ids)
<1>1. CASE Len(j.steps) = 1
  BY <1>1, FreshOK DEF Rest
<1>2. CASE Len(j.steps) # 1
  <2> DEFINE r == Rest(j)
  <2>1. j \in AnyJob /\ OwnSteps(j) /\ j.steps \in Seq(Steps)
    BY DEF Job, AnyJob
  <2>2. r \in Job /\ r = [j EXCEPT !.steps = Tail(@)]
    BY <1>2, RestTyped DEF Rest
  <2> HIDE DEF r
  <2>3. /\ r.steps = Tail(j.steps) /\ r.how = j.how /\ r.tx = j.tx /\ r.wallet = j.wallet /\ r.torn = j.torn
        /\ r.seq = j.seq /\ r.trusts = j.trusts /\ r.list = j.list /\ r.read = j.read /\ r.price = j.price /\ r.cap = j.cap
    BY <2>1, <2>2 DEF AnyJob
  <2>4. HonestJob(r, ids)
    BY <2>3 DEF HonestJob
  <2>5. Routed(r)
    BY <2>1, <2>3, ChainTail DEF Routed
  <2>6. Head(r.steps).do \in {"sign", "retry"} => CapKept(r)
    <3>1. CASE j.how \in {"x402", "dry run"}
      <4>1. <<Head(j.steps).do, Head(Tail(j.steps)).do>> \in FetchFollow
        BY <1>2, <2>1, <3>1, ChainTail DEF Routed
      <4> QED BY <2>3, <4>1 DEF FetchFollow, Done, CapKept
    <3>2. CASE j.how \notin {"x402", "dry run"}
      <4>1. r.steps # <<>>
        BY <1>2, <2>1, <2>3, TailIs
      <4>2. Head(r.steps) \in DeclineSteps \cup OtherSteps
        BY <2>1, <2>2, <2>3, <3>2, <4>1, StepsKnown DEF AnyJob, Hows
      <4> QED BY <4>2 DEF DeclineSteps, OtherSteps, BareKey
    <3> QED BY <3>1, <3>2
  <2>7. ASSUME j.how = "decline-all" PROVE Ready(r, acc)
    <3>1. <<Head(j.steps).do, Head(Tail(j.steps)).do>> \in DeclineFollow
      BY <1>2, <2>1, <2>7, ChainTail DEF Routed
    <3>2. Head(r.steps).do \in {"key", "account", "filter", "submit-all"} => Informed(r, acc)
      BY <2>3, <2>7, <3>1 DEF DeclineFollow, Done, Informed
    <3>3. Head(r.steps).do \in {"filter", "submit-all"} => Prepared(r, acc)
      BY <2>3, <2>7, <3>1 DEF DeclineFollow, Done, Prepared
    <3>4. Head(r.steps).do = "submit-all" => Declinable(r)
      BY <2>3, <2>7, <3>1 DEF DeclineFollow, Done, Declinable, Trusted
    <3> QED BY <2>6, <3>2, <3>3, <3>4 DEF Ready
  <2>8. Ready(r, acc)
    BY <2>3, <2>6, <2>7 DEF Ready
  <2> QED BY <2>2, <2>4, <2>5, <2>8 DEF JobOK, r
<1> QED BY <1>1, <1>2

\* After the paid retry of a purchase there is none left.
LEMMA OneRetryLeft ==
    ASSUME NEW j \in Job, j.steps # <<>>, j.how = "x402", Routed(j), Head(j.steps).do = "retry"
    PROVE  ~HasRetry(Rest(j).steps)
<1>1. CASE Len(j.steps) = 1
  BY <1>1, FreshOK DEF Rest
<1>2. CASE Len(j.steps) # 1
  <2>1. j \in AnyJob /\ j.steps \in Seq(Steps) /\ Chain(j.steps, FetchFollow)
    BY DEF Job, AnyJob, Routed
  <2> DEFINE t == Tail(j.steps)
  <2>2. t \in Seq(Steps) /\ t # <<>> /\ Chain(t, FetchFollow) /\ <<"retry", Head(t).do>> \in FetchFollow
    BY <1>2, <2>1, TailIs, ChainTail
  <2>3. Head(t).do = "x402file"
    BY <2>2 DEF FetchFollow
  <2>4. Len(t) = 1
    <3>1. Len(t) # 1 => <<"x402file", Head(Tail(t)).do>> \in FetchFollow
      BY <2>2, <2>3, ChainTail
    <3> QED BY <3>1 DEF FetchFollow
  <2>5. ~HasRetry(t)
    BY <2>2, <2>3, <2>4, TailIs DEF HasRetry
  <2>6. Rest(j).steps = t
    BY <1>2, <2>1 DEF Rest, AnyJob
  <2> QED BY <2>5, <2>6
<1> QED BY <1>1, <1>2

\* Others change the account only by taking its next sequence number.
Newer(acc, next) == next.seq > acc.seq \/ (next.seq = acc.seq /\ next.trusts = acc.trusts)

\* What others do to the account leaves a job as sound as it was.
LEMMA StaysOK ==
    ASSUME NEW acc \in AccountType, NEW next \in AccountType, NEW ids, NEW more,
           NEW j, JobOK(j, acc, ids), Newer(acc, next), ids \subseteq more
    PROVE  JobOK(j, next, more)
<1>1. j \in Job /\ HonestJob(j, more) /\ Routed(j)
  BY DEF JobOK, HonestJob, Known
<1>2. j.seq \in Nat
  BY <1>1 DEF Job, AnyJob
<1>3. Informed(j, acc) => Informed(j, next)
  BY DEF Informed, Newer, Worlds, AccountType
<1>4. Informed(j, acc) /\ Prepared(j, acc) => Prepared(j, next)
  BY <1>2 DEF Informed, Prepared, Newer, AccountType, Worlds
<1>5. Ready(j, next)
  BY <1>3, <1>4 DEF JobOK, Ready
<1> QED BY <1>1, <1>5 DEF JobOK

------------------------------------------------------------------------------
(* What a command begins as.                                                  *)

Begun(j) ==
    /\ j \in Job /\ j.tx = None /\ j.wallet = "key" /\ Routed(j)
    /\ j.how = "decline-all" => Head(j.steps).do = "count"
    /\ j.steps # <<>> => Head(j.steps).do \notin {"sign", "retry"}

\* A command that begins knows nothing yet and is sound.
LEMMA BegunOK == \A j, acc, ids : Begun(j) => JobOK(j, acc, ids)
BY DEF Begun, JobOK, HonestJob, Known, Ready

\* The fields of a command that begins.
LEMMA CommandIs ==
    ASSUME NEW how \in Hows, NEW steps \in Seq(Steps)
    PROVE  LET c == Command(how, steps) IN
           c \in AnyJob /\ c.how = how /\ c.steps = steps /\ c.tx = None /\ c.wallet = "key" /\ c.cap = NoCap
<1>1. Fresh \in AnyJob /\ Fresh.tx = None /\ Fresh.wallet = "key" /\ Fresh.cap = NoCap
  <2>1. Fresh \in AnyJob
    BY FreshOK DEF JobOK, Job
  <2> QED BY <2>1 DEF Fresh
<1> QED BY <1>1 DEF Command, AnyJob

\* A command of no special order begins soundly.
LEMMA OtherBegun ==
    ASSUME NEW how \in OtherHows, NEW steps \in Seq(OtherSteps)
    PROVE  Begun(Command(how, steps))
<1> DEFINE c == Command(how, steps)
<1>1. how \in Hows /\ how \notin {"x402", "dry run", "decline-all"}
  BY DEF Hows, OtherHows
<1>2. c \in AnyJob /\ c.how = how /\ c.steps = steps /\ c.tx = None /\ c.wallet = "key"
  <2>1. OtherSteps \subseteq Steps
    BY DEF Steps
  <2>2. steps \in Seq(Steps)
    BY <2>1
  <2> QED BY <1>1, <2>2, CommandIs
<1>3. steps # <<>> => Head(steps).do \notin {"sign", "retry"}
  <2>1. steps # <<>> => Head(steps) \in OtherSteps
    OBVIOUS
  <2> QED BY <2>1 DEF OtherSteps
<1> HIDE DEF c
<1>4. OwnSteps(c) /\ Routed(c)
  BY <1>1, <1>2 DEF OwnSteps, Routed
<1> QED BY <1>1, <1>2, <1>3, <1>4 DEF Begun, Job, c

\* One step is a list of steps.
LEMMA OneStep ==
    ASSUME NEW S, NEW x \in S
    PROVE  <<x>> \in Seq(S)
OBVIOUS

\* Two lists make a list.
LEMMA Joined ==
    ASSUME NEW S, NEW s \in Seq(S), NEW t \in Seq(S)
    PROVE  s \o t \in Seq(S)
OBVIOUS

\* The operations commands submit.
LEMMA SomeOps ==
    /\ \A a \in Assets, n \in Nat : Pay(a, n) \in Op
    /\ \A c \in Claims : Claim(c) \in Op /\ \A n \in Nat : Return(c, n) \in Op
    /\ \A a \in Issued : ChangeTrust(a) \in Op /\ Untrust(a) \in Op
BY Constants, ClaimOps DEF Pay, ChangeTrust, Untrust, Op

\* The pieces the other commands are made of.
LEMMA Pieces ==
    /\ \A do \in {"fake", "account", "zkfile", "prove", "quote", "confirm", "receipt", "claims", "submit-all", "filter",
                  "count", "assetfile"} : Do(do) \in Seq(OtherSteps)
    /\ NeedsKey \in Seq(OtherSteps)
    /\ Key(Simulated) \in Seq(OtherSteps) /\ Key(ZKSimulated) \in Seq(OtherSteps)
    /\ Simulated \in Seq(OtherSteps) /\ ZKSimulated \in Seq(OtherSteps)
    /\ \A ops \in Seq(Op) : <<[do |-> "submit", ops |-> ops]>> \in Seq(OtherSteps) /\ Submit(ops) \in Seq(OtherSteps)
    /\ \A c \in Claims : <<[do |-> "find", claim |-> c]>> \in Seq(OtherSteps)
<1>1. ASSUME NEW do \in {"fake", "account", "zkfile", "prove", "quote", "confirm", "receipt", "claims", "submit-all",
                         "filter", "count", "assetfile"}
      PROVE  Do(do) \in Seq(OtherSteps)
  <2>1. [do |-> do] \in OtherSteps
    BY DEF OtherSteps
  <2> QED BY <2>1, OneStep DEF Do
<1>2. Do("fake") \in Seq(Substitute) /\ Do("zkfile") \in Seq(Substitute)
  BY OneStep DEF Do, Substitute
<1>3. Simulated \in Seq(Substitute) /\ ZKSimulated \in Seq(Substitute) /\ <<>> \in Seq(Substitute)
  BY <1>2, Joined, EmptySeq DEF Simulated, ZKSimulated
<1>4. \A instead \in Seq(Substitute) : Key(instead) \in Seq(OtherSteps)
  <2>1. \A instead \in Seq(Substitute) : [do |-> "key", instead |-> instead] \in OtherSteps
    BY DEF OtherSteps
  <2> QED BY <2>1, OneStep DEF Key
<1>5. \A ops \in Seq(Op) : <<[do |-> "submit", ops |-> ops]>> \in Seq(OtherSteps)
  <2>1. \A ops \in Seq(Op) : [do |-> "submit", ops |-> ops] \in OtherSteps
    BY DEF OtherSteps
  <2> QED BY <2>1, OneStep
<1>6. \A c \in Claims : <<[do |-> "find", claim |-> c]>> \in Seq(OtherSteps)
  <2>1. \A c \in Claims : [do |-> "find", claim |-> c] \in OtherSteps
    BY DEF OtherSteps
  <2> QED BY <2>1, OneStep
<1>7. \A ops \in Seq(Op) : Submit(ops) \in Seq(OtherSteps)
  BY <1>1, <1>5, Joined DEF Submit
<1>8. Simulated \in Seq(OtherSteps) /\ ZKSimulated \in Seq(OtherSteps)
  BY <1>1, Joined DEF Simulated, ZKSimulated
<1> QED BY <1>1, <1>3, <1>4, <1>5, <1>6, <1>7, <1>8 DEF NeedsKey

\* pay send and pay zk begin soundly.
LEMMA PaymentsBegun == \A j \in PaySend \cup PayZKCmd : Begun(j)
<1>0. Native \in Assets
  BY Constants
<1>1. <<Pay(Native, 1)>> \in Seq(Op) /\ <<Pay(Native, 1), Pay(Native, 1)>> \in Seq(Op)
  <2>1. Pay(Native, 1) \in Op
    BY <1>0, SomeOps
  <2> QED BY <2>1
<1>2. \A a \in Assets : PayDirect(a) \in Seq(OtherSteps)
  BY <1>1, Pieces, Joined DEF PayDirect
<1>3. \A a \in Assets : PayZK(a) \in Seq(OtherSteps)
  <2>1. BuildZKTransaction \in Seq(OtherSteps)
    BY <1>1, Pieces DEF BuildZKTransaction
  <2>2. BuildZKTransaction \o Do("zkfile") \in Seq(OtherSteps) /\ Do("account") \o ZKSimulated \in Seq(OtherSteps)
        /\ Key(ZKSimulated) \o Do("prove") \in Seq(OtherSteps)
    BY <2>1, Pieces, Joined
  <2> QED BY <2>2, Joined DEF PayZK
<1>4. PaySwap \in Seq(OtherSteps) /\ PayTempo \in Seq(OtherSteps)
  BY <1>1, Pieces, Joined DEF PaySwap, PayTempo
<1>5. Do("receipt") \in Seq(OtherSteps) /\ Do("confirm") \in Seq(OtherSteps)
  BY Pieces
<1>6. {"direct", "zk", "swap", "tempo"} \subseteq OtherHows
  BY DEF OtherHows
<1>7. \A s \in Seq(OtherSteps) : s \o Do("receipt") \in Seq(OtherSteps)
  BY <1>5, Joined
<1>8. Do("confirm") \o PayZK(Native) \o Do("receipt") \in Seq(OtherSteps)
  BY <1>0, <1>3, <1>5, Joined
<1>9. \A j \in PayZKCmd : Begun(j)
  BY <1>6, <1>8, OtherBegun DEF PayZKCmd
<1>10. \A j \in PaySend : Begun(j)
  <2>1. \A a \in Assets : Begun(Command("direct", PayDirect(a) \o Do("receipt")))
    BY <1>2, <1>6, <1>7, OtherBegun
  <2>2. \A a \in Assets : Begun(Command("zk", PayZK(a) \o Do("receipt")))
    BY <1>3, <1>6, <1>7, OtherBegun
  <2>3. Begun(Command("swap", PaySwap \o Do("receipt"))) /\ Begun(Command("tempo", PayTempo \o Do("receipt")))
    BY <1>4, <1>6, <1>7, OtherBegun
  <2> QED BY <2>1, <2>2, <2>3 DEF PaySend
<1> QED BY <1>9, <1>10

\* The claimable commands begin soundly.
LEMMA ClaimablesBegun == \A j \in ClaimableList \cup Accept \cup Decline \cup AcceptAll : Begun(j)
<1>1. {"list", "accept", "decline", "accept-all"} \subseteq OtherHows
  BY DEF OtherHows
<1>2. \A j \in ClaimableList : Begun(j)
  BY <1>1, Pieces, OtherBegun DEF ClaimableList
<1>3. \A j \in Accept : Begun(j)
  <2>1. \A c \in Claims : AcceptClaimableBalance(c) \in Seq(OtherSteps)
    <3>1. \A c \in Claims : <<Claim(c)>> \in Seq(Op)
      BY SomeOps, OneStep
    <3> QED BY <3>1, Pieces, Joined DEF AcceptClaimableBalance
  <2> QED BY <1>1, <2>1, OtherBegun DEF Accept
<1>4. \A j \in Decline : Begun(j)
  <2>1. ASSUME NEW c \in Claims, NEW n \in 1..2
        PROVE  DeclineClaimableBalance(c, n) \in Seq(OtherSteps)
    <3>1. Claim(c) \in Op /\ Return(c, n) \in Op
      BY SomeOps
    <3>2. <<Claim(c), Return(c, n)>> \in Seq(Op)
      BY <3>1
    <3> QED BY <3>2, Pieces, Joined DEF DeclineClaimableBalance
  <2>2. \A c \in Claims, n \in 1..2 : Do("confirm") \o DeclineClaimableBalance(c, n) \in Seq(OtherSteps)
    BY <2>1, Pieces, Joined
  <2>3. \A c \in Claims, n \in 1..2 : Begun(Command("decline", Do("confirm") \o DeclineClaimableBalance(c, n)))
    BY <1>1, <2>2, OtherBegun
  <2>4. \A j \in Decline : \E c \in Claims, n \in 1..2 :
            j = Command("decline", Do("confirm") \o DeclineClaimableBalance(c, n))
    BY DEF Decline
  <2> QED BY <2>3, <2>4
<1>5. \A j \in AcceptAll : Begun(j)
  <2>1. AcceptAllClaimableBalances \in Seq(OtherSteps)
    BY Pieces, Joined DEF AcceptAllClaimableBalances
  <2>2. Do("count") \o Do("confirm") \o AcceptAllClaimableBalances \in Seq(OtherSteps)
    BY <2>1, Pieces, Joined
  <2> QED BY <1>1, <2>2, OtherBegun DEF AcceptAll
<1> QED BY <1>2, <1>3, <1>4, <1>5

\* The asset and pool commands begin soundly.
LEMMA AssetsBegun == \A j \in AssetCreateFT \cup AssetCreateNFA \cup AssetTrust \cup AssetUntrust : Begun(j)
<1>1. {"create", "trust", "untrust", "read"} \subseteq OtherHows
  BY DEF OtherHows
<1>2. \A j \in AssetCreateFT : Begun(j)
  <2>1. DeploySAC \in Seq(OtherSteps)
    BY Pieces, EmptySeq DEF DeploySAC
  <2>2. CreateFungibleAsset \in Seq(OtherSteps)
    BY <2>1, Pieces, Joined DEF CreateFungibleAsset
  <2>3. NeedsKey \o CreateFungibleAsset \o Do("assetfile") \in Seq(OtherSteps)
    BY <2>2, Pieces, Joined
  <2> QED BY <1>1, <2>3, OtherBegun DEF AssetCreateFT
<1>3. \A j \in AssetCreateNFA : Begun(j)
  <2>1. CreateNonFungibleAsset \o Do("assetfile") \in Seq(OtherSteps)
    BY Pieces, Joined DEF CreateNonFungibleAsset
  <2> QED BY <1>1, <2>1, OtherBegun DEF AssetCreateNFA
<1>4. \A j \in AssetTrust : Begun(j)
  <2>1. \A a \in Issued : <<ChangeTrust(a)>> \in Seq(Op)
    BY SomeOps, OneStep
  <2>2. \A a \in Issued : CreateTrustline(a) \in Seq(OtherSteps)
    BY <2>1, Pieces, Joined DEF CreateTrustline
  <2> QED BY <1>1, <2>2, OtherBegun DEF AssetTrust
<1>5. \A j \in AssetUntrust : Begun(j)
  <2>1. \A a \in Issued : <<Untrust(a)>> \in Seq(Op)
    BY SomeOps, OneStep
  <2>2. \A a \in Issued : RemoveTrustline(a) \in Seq(OtherSteps)
    BY <2>1, Pieces, Joined DEF RemoveTrustline
  <2>3. ASSUME NEW as \in SUBSET Issued PROVE RemoveTrustlinesBatch(as) \in Seq(OtherSteps)
    <3> DEFINE lines == {Untrust(a) : a \in as}
    <3>1. lines \subseteq Op
      BY SomeOps
    <3>2. IsFiniteSet(lines)
      <4>1. IsFiniteSet(as)
        BY PaymentAssumptions, FS_Subset
      <4>2. [a \in as |-> Untrust(a)] \in Surjection(as, lines)
        BY DEF Surjection
      <4> HIDE DEF lines
      <4> QED BY <4>1, <4>2, FS_Surjection
    <3>3. SetToSeq(lines) \in Seq(Op)
      <4> HIDE DEF lines
      <4>1. SetToSeq(lines) \in Seq(lines)
        BY <3>2, SetToSeqOrders
      <4> QED BY <3>1, <4>1
    <3> QED BY <3>3, Pieces, Joined DEF RemoveTrustlinesBatch
  <2>4. /\ \A a \in Issued : Begun(Command("untrust", Do("confirm") \o RemoveTrustline(a)))
        /\ \A as \in SUBSET Issued : Begun(Command("untrust", Do("confirm") \o RemoveTrustlinesBatch(as)))
    BY <1>1, <2>2, <2>3, Pieces, Joined, OtherBegun
  <2> QED BY <2>4 DEF AssetUntrust
<1> QED BY <1>2, <1>3, <1>4, <1>5

\* A piece of a command whose steps are in order, by its first and last step.
Piece(s, S, follow, first, last) ==
    s \in Seq(S) /\ s # <<>> /\ Chain(s, follow) /\ Head(s).do = first /\ s[Len(s)].do = last

\* A single step is a chain.
LEMMA PieceOne ==
    ASSUME NEW S, NEW x \in S, NEW follow
    PROVE  Piece(<<x>>, S, follow, x.do, x.do)
BY DEF Piece, Chain

\* Two chains that fit make a chain.
LEMMA PieceJoin ==
    ASSUME NEW S, NEW follow, NEW a, NEW b, NEW c, NEW d, NEW s, NEW t,
           Piece(s, S, follow, a, b), Piece(t, S, follow, c, d), <<b, c>> \in follow
    PROVE  Piece(s \o t, S, follow, a, d)
<1> DEFINE u == s \o t  m == Len(s)  n == Len(t)
<1>1. s \in Seq(S) /\ t \in Seq(S) /\ m \in Nat \ {0} /\ n \in Nat \ {0}
  BY DEF Piece
<1>2. s[1].do = a /\ s[m].do = b /\ t[1].do = c /\ t[n].do = d
  BY <1>1 DEF Piece
<1>3. u \in Seq(S) /\ Len(u) = m + n /\ \A i \in 1..(m + n) : u[i] = IF i <= m THEN s[i] ELSE t[i - m]
  BY <1>1, ConcatProperties
<1> HIDE DEF u
<1>4. ASSUME NEW i \in 1..(m + n - 1) PROVE <<u[i].do, u[i + 1].do>> \in follow
  <2> HIDE DEF m, n
  <2>1. CASE i < m
    <3>1. u[i] = s[i] /\ u[i + 1] = s[i + 1]
      BY <1>1, <1>3, <2>1
    <3>2. <<s[i].do, s[i + 1].do>> \in follow
      BY <1>1, <2>1 DEF Piece, Chain, m
    <3> QED BY <3>1, <3>2
  <2>2. CASE i = m
    <3>1. i \in 1..(m + n) /\ i + 1 \in 1..(m + n) /\ (i + 1) - m = 1 /\ ~(i + 1 <= m)
      BY <1>1, <2>2
    <3>2. u[i] = s[m] /\ u[i + 1] = t[1]
      BY <1>3, <2>2, <3>1
    <3> QED BY <1>2, <3>2
  <2>3. CASE i > m
    <3>1. u[i] = t[i - m] /\ u[i + 1] = t[(i - m) + 1] /\ i - m \in 1..(n - 1)
      BY <1>1, <1>3, <2>3
    <3>2. <<t[i - m].do, t[(i - m) + 1].do>> \in follow
      BY <3>1 DEF Piece, Chain, n
    <3> QED BY <3>1, <3>2
  <2> QED BY <1>1, <2>1, <2>2, <2>3
<1>5. Chain(u, follow)
  BY <1>3, <1>4 DEF Chain
<1>6. u[1] = s[1] /\ u[m + n] = t[n]
  BY <1>1, <1>3
<1>7. u # <<>> /\ Head(u) = u[1]
  BY <1>1, <1>3, EmptySeq
<1> QED BY <1>2, <1>3, <1>5, <1>6, <1>7 DEF Piece, u

\* A list without its last member.
LEMMA FrontIs ==
    ASSUME NEW S, NEW s \in Seq(S), Len(s) >= 2
    PROVE  /\ Front(s) \in Seq(S) /\ Len(Front(s)) = Len(s) - 1
           /\ \A i \in 1..(Len(s) - 1) : Front(s)[i] = s[i]
           /\ Front(s) # <<>> /\ Head(Front(s)) = Head(s)
<1>1. /\ Front(s) \in Seq(S) /\ Len(Front(s)) = Len(s) - 1
      /\ \A i \in 1..(Len(s) - 1) : Front(s)[i] = s[i]
  <2>1. Front(s) = SubSeq(s, 1, Len(s) - 1)
    BY DEF Front
  <2>2. \A i \in 1..(Len(s) - 1) : s[i] \in S
    OBVIOUS
  <2>3. /\ SubSeq(s, 1, Len(s) - 1) \in Seq(S)
        /\ Len(SubSeq(s, 1, Len(s) - 1)) = IF 1 <= Len(s) - 1 THEN (Len(s) - 1) - 1 + 1 ELSE 0
        /\ \A i \in 1..((Len(s) - 1) - 1 + 1) : SubSeq(s, 1, Len(s) - 1)[i] = s[1 + i - 1]
    BY <2>2, SubSeqProperties
  <2> QED BY <2>1, <2>3
<1> DEFINE f == Front(s)
<1>2. f \in Seq(S) /\ Len(f) >= 1 /\ f[1] = s[1] /\ Head(s) = s[1]
  BY <1>1
<1> HIDE DEF f
<1>3. f # <<>> /\ Head(f) = Head(s)
  BY <1>2, EmptySeq
<1> QED BY <1>1, <1>3 DEF f

\* A fetch is a chain: challenge, cap, authorization, one retry.
LEMMA FetchSound ==
    ASSUME NEW dry \in BOOLEAN
    PROVE  LET S == IF dry THEN DryFetchSteps ELSE FetchSteps IN
           Piece(Fetch(dry), S, FetchFollow, "key", "x402file") /\ Len(Fetch(dry)) >= 2
<1> DEFINE S == IF dry THEN DryFetchSteps ELSE FetchSteps
<1>1. /\ Piece(NeedsKey, S, FetchFollow, "key", "key")
      /\ \A do \in {"request", "cap", "sign", "x402file"} : Piece(Do(do), S, FetchFollow, do, do)
      /\ ~dry => Piece(Do("retry"), S, FetchFollow, "retry", "retry")
  <2>1. [do |-> "key", instead |-> <<>>] \in S
    BY DEF DryFetchSteps, FetchSteps, BareKey
  <2>2. \A do \in {"request", "cap", "sign", "x402file"} : [do |-> do] \in S
    BY DEF DryFetchSteps, FetchSteps
  <2>3. ~dry => [do |-> "retry"] \in S
    BY DEF FetchSteps
  <2> HIDE DEF S
  <2>4. Piece(NeedsKey, S, FetchFollow, "key", "key")
    <3>1. [do |-> "key", instead |-> <<>>].do = "key"
      OBVIOUS
    <3> QED BY <2>1, <3>1, PieceOne DEF NeedsKey, Key
  <2>5. \A do : [do |-> do].do = do
    OBVIOUS
  <2>6. \A do \in {"request", "cap", "sign", "x402file"} : Piece(Do(do), S, FetchFollow, do, do)
    BY <2>2, <2>5, PieceOne DEF Do
  <2>7. ~dry => Piece(Do("retry"), S, FetchFollow, "retry", "retry")
    BY <2>3, <2>5, PieceOne DEF Do
  <2> QED BY <2>4, <2>6, <2>7
<1> HIDE DEF S
<1> DEFINE asked == NeedsKey \o Do("request") \o Do("cap") \o Do("sign")
<1>2. Piece(asked, S, FetchFollow, "key", "sign")
  <2>1. <<"key", "request">> \in FetchFollow /\ <<"request", "cap">> \in FetchFollow /\ <<"cap", "sign">> \in FetchFollow
    BY DEF FetchFollow
  <2>2. Piece(NeedsKey \o Do("request"), S, FetchFollow, "key", "request")
    BY <1>1, <2>1, PieceJoin
  <2>3. Piece(NeedsKey \o Do("request") \o Do("cap"), S, FetchFollow, "key", "cap")
    BY <1>1, <2>1, <2>2, PieceJoin
  <2> QED BY <1>1, <2>1, <2>3, PieceJoin
<1> HIDE DEF asked
<1> DEFINE paid == asked \o (IF dry THEN <<>> ELSE Do("retry"))
<1>3. Fetch(dry) = paid \o Do("x402file")
  BY DEF Fetch, asked
<1>4. Piece(paid, S, FetchFollow, "key", IF dry THEN "sign" ELSE "retry")
  <2>1. CASE dry
    <3>1. paid = asked
      <4>1. asked \in Seq(S)
        BY <1>2 DEF Piece
      <4> QED BY <2>1, <4>1, ConcatEmptySeq
    <3> QED BY <1>2, <2>1, <3>1
  <2>2. CASE ~dry
    <3>1. <<"sign", "retry">> \in FetchFollow
      BY DEF FetchFollow
    <3>2. Piece(asked \o Do("retry"), S, FetchFollow, "key", "retry")
      BY <1>1, <1>2, <2>2, <3>1, PieceJoin
    <3> QED BY <2>2, <3>2
  <2> QED BY <2>1, <2>2
<1> HIDE DEF paid
<1>5. Piece(Fetch(dry), S, FetchFollow, "key", "x402file")
  <2>1. <<IF dry THEN "sign" ELSE "retry", "x402file">> \in FetchFollow
    BY DEF FetchFollow
  <2>2. Piece(Do("x402file"), S, FetchFollow, "x402file", "x402file")
    BY <1>1
  <2> QED BY <1>3, <1>4, <2>1, <2>2, PieceJoin
<1>6. Len(Fetch(dry)) >= 2
  <2>1. Len(Fetch(dry)) \in Nat \ {0} /\ Fetch(dry)[1] = Head(Fetch(dry)) /\ Fetch(dry)[Len(Fetch(dry))].do = "x402file"
        /\ Head(Fetch(dry)).do = "key"
    BY <1>5 DEF Piece
  <2>2. Len(Fetch(dry)) # 1
    BY <2>1
  <2> QED BY <2>1, <2>2
<1> QED BY <1>5, <1>6 DEF S

\* pay x402 begins soundly, dry or not, on the command line or over MCP.
LEMMA FetchBegun == \A j \in PayX402 \cup HandlePayX402 : Begun(j)
<1>1. ASSUME NEW dry \in BOOLEAN, NEW cap \in {NoCap} \cup Prices,
             NEW steps \in Seq(IF dry THEN DryFetchSteps ELSE FetchSteps),
             steps # <<>>, Head(steps).do = "key", Chain(steps, FetchFollow)
      PROVE  Begun([Command(IF dry THEN "dry run" ELSE "x402", steps) EXCEPT !.cap = cap])
  <2> DEFINE how == IF dry THEN "dry run" ELSE "x402"
             c == Command(how, steps)
             j == [c EXCEPT !.cap = cap]
  <2>1. how \in Hows /\ how \notin OtherHows /\ how # "decline-all" /\ cap \in Nat
    BY Constants DEF Hows, OtherHows
  <2>2. steps \in Seq(Steps)
    <3>1. DryFetchSteps \subseteq Steps /\ FetchSteps \subseteq Steps
      BY DEF Steps, FetchSteps
    <3> QED BY <3>1
  <2>3. c \in AnyJob /\ c.how = how /\ c.steps = steps /\ c.tx = None /\ c.wallet = "key"
    <3> HIDE DEF how
    <3> QED BY <2>1, <2>2, CommandIs
  <2> HIDE DEF c
  <2>4. j \in AnyJob /\ j.how = how /\ j.steps = steps /\ j.tx = None /\ j.wallet = "key"
    BY <2>1, <2>3 DEF AnyJob
  <2> HIDE DEF j
  <2>5. OwnSteps(j) /\ Routed(j)
    BY <1>1, <2>1, <2>4 DEF OwnSteps, Routed, how
  <2> QED BY <1>1, <2>1, <2>4, <2>5 DEF Begun, Job, j, c
<1>2. \A j \in PayX402 : Begun(j)
  <2> DEFINE X(dry, cap) == [Command(IF dry THEN "dry run" ELSE "x402", Fetch(dry)) EXCEPT !.cap = cap]
  <2>1. ASSUME NEW dry \in BOOLEAN, NEW cap \in {NoCap} \cup Prices
        PROVE  Begun(X(dry, cap))
    <3> DEFINE s == Fetch(dry)
    <3>1. s \in Seq(IF dry THEN DryFetchSteps ELSE FetchSteps) /\ s # <<>> /\ Head(s).do = "key" /\ Chain(s, FetchFollow)
      BY FetchSound DEF Piece
    <3> HIDE DEF s
    <3>2. Begun([Command(IF dry THEN "dry run" ELSE "x402", s) EXCEPT !.cap = cap])
      BY <1>1, <3>1
    <3> QED BY <3>2 DEF s
  <2>2. PayX402 = {X(dry, cap) : dry \in BOOLEAN, cap \in {NoCap} \cup Prices}
    BY DEF PayX402
  <2> HIDE DEF X
  <2> QED BY <2>1, <2>2
<1>3. \A j \in HandlePayX402 : Begun(j)
  <2> DEFINE X(dry, cap) == [Command(IF dry THEN "dry run" ELSE "x402", Front(Fetch(dry))) EXCEPT !.cap = cap]
  <2>1. ASSUME NEW dry \in BOOLEAN, NEW cap \in {NoCap} \cup Prices
        PROVE  Begun(X(dry, cap))
    <3> DEFINE S == IF dry THEN DryFetchSteps ELSE FetchSteps
               s == Fetch(dry)
               f == Front(s)
    <3>1. s \in Seq(S) /\ Len(s) >= 2 /\ Head(s).do = "key" /\ Chain(s, FetchFollow)
      BY FetchSound DEF Piece
    <3> HIDE DEF s, S
    <3>2. /\ f \in Seq(S) /\ Len(f) = Len(s) - 1 /\ f # <<>> /\ Head(f).do = "key"
          /\ \A i \in 1..(Len(s) - 1) : f[i] = s[i]
      <4>1. /\ f \in Seq(S) /\ Len(f) = Len(s) - 1 /\ f # <<>> /\ Head(f) = Head(s)
            /\ \A i \in 1..(Len(s) - 1) : f[i] = s[i]
        BY <3>1, FrontIs
      <4> QED BY <3>1, <4>1
    <3> HIDE DEF f
    <3>3. Chain(f, FetchFollow)
      BY <3>1, <3>2 DEF Chain
    <3>4. Begun([Command(IF dry THEN "dry run" ELSE "x402", f) EXCEPT !.cap = cap])
      BY <1>1, <3>2, <3>3 DEF S
    <3> QED BY <3>4 DEF f, s
  <2>2. HandlePayX402 = {X(dry, cap) : dry \in BOOLEAN, cap \in {NoCap} \cup Prices}
    BY DEF HandlePayX402
  <2> HIDE DEF X
  <2> QED BY <2>1, <2>2
<1> QED BY <1>2, <1>3

\* claimable decline-all begins soundly.
LEMMA DeclineAllBegun == \A j \in DeclineAll : Begun(j)
<1> DEFINE t == Do("count") \o Do("confirm") \o DeclineAllClaimableBalances
           S == DeclineSteps
           P(s, first, last) == Piece(s, S, DeclineFollow, first, last)
<1>1. \A do \in {"count", "confirm", "claims", "account", "filter", "submit-all"} : P(Do(do), do, do)
  <2>1. \A do \in {"count", "confirm", "claims", "account", "filter", "submit-all"} : [do |-> do] \in S /\ [do |-> do].do = do
    BY DEF DeclineSteps
  <2> HIDE DEF S
  <2> QED BY <2>1, PieceOne DEF Do
<1>2. P(NeedsKey, "key", "key")
  <2>1. [do |-> "key", instead |-> <<>>] \in S /\ [do |-> "key", instead |-> <<>>].do = "key"
    BY DEF DeclineSteps, BareKey
  <2> HIDE DEF S
  <2> QED BY <2>1, PieceOne DEF NeedsKey, Key
<1>3. ASSUME NEW s, NEW u, NEW a, NEW b, NEW c, NEW d, P(s, a, b), P(u, c, d), <<b, c>> \in DeclineFollow
      PROVE  P(s \o u, a, d)
  BY <1>3, PieceJoin
<1> HIDE DEF P
<1>4. P(DeclineAllClaimableBalances, "claims", "submit-all")
  <2>1. P(Do("claims") \o NeedsKey, "claims", "key")
    BY <1>1, <1>2, <1>3 DEF DeclineFollow
  <2>2. P(Do("claims") \o NeedsKey \o Do("account"), "claims", "account")
    BY <1>1, <1>3, <2>1 DEF DeclineFollow
  <2>3. P(Do("claims") \o NeedsKey \o Do("account") \o Do("filter"), "claims", "filter")
    BY <1>1, <1>3, <2>2 DEF DeclineFollow
  <2> QED BY <1>1, <1>3, <2>3 DEF DeclineFollow, DeclineAllClaimableBalances
<1>5. P(t, "count", "submit-all")
  <2>1. P(Do("count") \o Do("confirm"), "count", "confirm")
    BY <1>1, <1>3 DEF DeclineFollow
  <2> QED BY <1>3, <1>4, <2>1 DEF DeclineFollow
<1> DEFINE c == Command("decline-all", t)
<1>6. \A j \in DeclineAll : j = c
  BY DEF DeclineAll
<1> HIDE DEF t
<1>7. t \in Seq(DeclineSteps) /\ Head(t).do = "count" /\ Chain(t, DeclineFollow)
  BY <1>5 DEF P, Piece
<1>8. c \in AnyJob /\ c.how = "decline-all" /\ c.steps = t /\ c.tx = None /\ c.wallet = "key"
  <2>1. DeclineSteps \subseteq Steps /\ "decline-all" \in Hows
    BY DEF Steps, Hows
  <2>2. t \in Seq(Steps)
    BY <1>7, <2>1
  <2> QED BY <2>1, <2>2, CommandIs
<1> HIDE DEF c
<1>9. OwnSteps(c) /\ Routed(c)
  BY <1>7, <1>8 DEF OwnSteps, Routed, OtherHows
<1>10. Begun(c)
  BY <1>7, <1>8, <1>9 DEF Begun, Job
<1> QED BY <1>6, <1>10

\* Every command begins soundly.
LEMMA CommandsBegun == \A j \in Commands : Begun(j)
BY PaymentsBegun, FetchBegun, ClaimablesBegun, DeclineAllBegun, AssetsBegun DEF Commands

------------------------------------------------------------------------------
(* A transaction on the ledger.                                               *)

\* The present ledger is a ledger.
LEMMA BeforeTyped == ASSUME OnLedgerTyped PROVE Before \in Ledger /\ Before.ok
BY DEF OnLedgerTyped, Before, Ledger, AccountType

\* A transaction makes a ledger out of the present one.
LEMMA ExecuteTyped ==
    ASSUME OnLedgerTyped, NEW ops \in Seq(Op)
    PROVE  Execute(ops) \in Ledger
<1>1. PICK g : Runs(Before, ops, g) /\ Execute(ops) = g[Len(ops)]
  BY ExecuteRuns
<1>2. Len(ops) \in 0..Len(ops)
  OBVIOUS
<1> QED BY <1>1, <1>2, BeforeTyped, RunsTyped

\* A batch of declines that goes through pays by code.
LEMMA DeclineReturnsClaims ==
    ASSUME OnLedgerTyped, NEW ops, Paired(ops), Execute(ops).ok
    PROVE  PaidByCode(account.held, Execute(ops).held)
<1>1. PICK order \in Seq(Claims) : ops = DeclineOps(order)
  BY DEF Paired
<1>2. ops \in Seq(Op) /\ Len(ops) = 2 * Len(order)
  BY <1>1, DeclineOpsAre
<1>3. PICK g : Runs(Before, ops, g) /\ Execute(ops) = g[Len(ops)]
  BY <1>2, ExecuteRuns
<1>4. PaidByCode(Before.held, Execute(ops).held)
  BY <1>1, <1>2, <1>3, BeforeTyped, DeclineKeepsHoldings
<1> QED BY <1>4 DEF Before

\* A batch of welcome claims goes through now.
LEMMA PresentBatchGoesThrough ==
    ASSUME OnLedgerTyped, NEW list \in SUBSET claims, \A c \in list : Trusted(account, AssetOf[c]),
           \A c \in list : c \in account.ready \cap account.returnable /\ AssetOf[c] \notin Namesakes
    PROVE  Execute(DeclineOps(SetToSeq(list))).ok
<1> DEFINE order == SetToSeq(list)
           ops == DeclineOps(order)
<1>1. order \in Seq(list) /\ \A i, j \in 1..Len(order) : order[i] = order[j] => i = j
  <2>1. claims \subseteq Claims
    BY DEF OnLedgerTyped
  <2>2. IsFiniteSet(list)
    BY <2>1, PaymentAssumptions, FS_Subset
  <2> QED BY <2>2, SetToSeqOrders
<1> HIDE DEF order
<1>2. order \in Seq(Claims) /\ \A i \in 1..Len(order) : order[i] \in list
  BY <1>1 DEF OnLedgerTyped
<1>3. ops \in Seq(Op) /\ Len(ops) = 2 * Len(order)
  BY <1>2, DeclineOpsAre
<1>4. PICK g : Runs(Before, ops, g) /\ Execute(ops) = g[Len(ops)]
  BY <1>3, ExecuteRuns
<1>5. \A i \in 1..Len(order) : Welcome(Before, order[i]) /\ AssetOf[order[i]] \notin Namesakes
  BY <1>2 DEF Before, Trusted, Welcome
<1>6. g[2 * Len(order)].ok
  BY <1>1, <1>2, <1>4, <1>5, BeforeTyped, DeclineGoesThrough
<1> QED BY <1>3, <1>4, <1>6 DEF order

\* What including a transaction does to the account and the set of landed ones.
LEMMA IncludeStep ==
    ASSUME OnLedgerTyped, NEW t \in Transaction, InSequence(t), Include(t)
    PROVE  /\ account' \in AccountType /\ claims' \subseteq Claims /\ Newer(account, account')
           /\ landed \subseteq landed' /\ landed' \subseteq landed \cup {[id |-> t.id, how |-> t.how]}
           /\ Execute(t.ops).ok => [id |-> t.id, how |-> t.how] \in landed'
           /\ Paired(t.ops) => PaidByCode(account.held, account'.held)
<1> DEFINE st == Execute(t.ops)
<1>1. st \in Ledger /\ t.seq \in Nat /\ t.seq = account.seq + 1
  BY ExecuteTyped DEF Transaction, InSequence
<1>2. Paired(t.ops) /\ st.ok => PaidByCode(account.held, st.held)
  BY DeclineReturnsClaims
<1>3. CASE st.ok
  <2>1. account' = [account EXCEPT !.held = st.held, !.trusts = st.trusts, !.seq = t.seq] /\ claims' = st.claims
        /\ landed' = landed \cup {[id |-> t.id, how |-> t.how]}
    BY <1>3 DEF Include, OnLedgerTyped, AccountType
  <2> HIDE DEF st
  <2>2. account' \in AccountType /\ claims' \subseteq Claims /\ Newer(account, account')
    <3>1. account \in AccountType
      BY DEF OnLedgerTyped
    <3>2. st.held \in [Assets -> Nat] /\ st.trusts \in SUBSET Issued /\ st.claims \in SUBSET Claims
      BY <1>1 DEF Ledger
    <3>3. account' \in AccountType
      BY <1>1, <2>1, <3>1, <3>2 DEF AccountType
    <3>4. account'.seq = t.seq /\ account.seq \in Nat
      BY <1>1, <2>1, <3>1 DEF AccountType
    <3> QED BY <1>1, <2>1, <3>2, <3>3, <3>4 DEF Newer
  <2> QED BY <1>2, <1>3, <2>1, <2>2 DEF st
<1>4. CASE ~st.ok
  <2>1. account' = [account EXCEPT !.seq = t.seq] /\ claims' = claims /\ landed' = landed
    BY <1>4 DEF Include
  <2> HIDE DEF st
  <2>2. account' \in AccountType /\ Newer(account, account') /\ PaidByCode(account.held, account'.held)
    <3>1. account' \in AccountType /\ Newer(account, account') /\ account'.held = account.held /\ account.held \in [Assets -> Nat]
      BY <1>1, <2>1 DEF AccountType, Newer, OnLedgerTyped
    <3> QED BY <3>1, NothingPaid
  <2> QED BY <1>4, <2>1, <2>2 DEF st, OnLedgerTyped
<1> QED BY <1>3, <1>4

------------------------------------------------------------------------------
(* The steps.                                                                 *)

\* How a step of a command leaves everything but the ledger and the files:
\* the command goes on from j, or ends with a result and j's transaction.
GoesOn(j) ==
    /\ job' = Rest(j)
    /\ report' = report \/ report' = Outcome(j, "done")
Ends(result) ==
    /\ job' = Fresh
    /\ report' = Outcome(job, result)

\* Advance goes on with the job.
LEMMA AdvanceGoesOn == \A j : Advance(j) => GoesOn(j)
BY DEF Advance, Rest, GoesOn
\* End reports and leaves no job.
LEMMA EndEnds == \A result : End(result) => Ends(result)
BY DEF End, Ends

\* What a command reads of the ledger.
LEMMA WorldTyped == ASSUME OnLedgerTyped PROVE World \in Worlds
BY DEF OnLedgerTyped, World, Worlds, AccountType

\* The report of a command that knows what it says.
ReportOK(r, ids) ==
    /\ r \in Report
    /\ r.result = "done" => Known(r.tx, ids)
    /\ r.wallet = "locked" => r.torn
    /\ r.how = "decline-all" /\ r.result = "refused" /\ ~r.hindered => r.read # r.found

\* An honest job makes an honest report.
LEMMA ReportFrom ==
    ASSUME OnLedgerTyped, NEW j \in AnyJob, NEW ids, HonestJob(j, ids), NEW result \in Results,
           j.how = "decline-all" /\ result = "refused" /\ ~Hindered(j) => j.read # World
    PROVE  ReportOK(Outcome(j, result), ids)
<1>1. World \in Worlds
  BY WorldTyped
<1> QED BY <1>1 DEF ReportOK, Report, AnyJob, HonestJob, Outcome, Hindered

\* What an invariant state says of its job, and of its job's next step.
LEMMA AtStep ==
    ASSUME JobOK(job, account, OnLedger), ~Idle
    PROVE  /\ job \in Job /\ job \in AnyJob /\ OwnSteps(job) /\ job.steps # <<>> /\ HonestJob(job, OnLedger) /\ Routed(job)
           /\ Next1 = Head(job.steps) /\ Next1 \in Steps
           /\ job.how = "x402" => Next1 \in FetchSteps
           /\ job.how = "dry run" => Next1 \in DryFetchSteps
           /\ job.how = "decline-all" => Next1 \in DeclineSteps
           /\ job.how \in OtherHows => Next1 \in OtherSteps
           /\ Ready(job, account)
BY StepsKnown DEF JobOK, Job, Idle, Next1

\* The command goes on from its own state with another field set.
Kin(j) ==
    /\ j \in AnyJob /\ j.how = job.how /\ j.steps = job.steps
\* Such a job is made of the same steps, in the same order.
LEMMA KinSound ==
    ASSUME JobOK(job, account, OnLedger), ~Idle, NEW j, Kin(j)
    PROVE  j \in Job /\ Routed(j) /\ j.steps # <<>> /\ Head(j.steps) = Next1
BY AtStep DEF Kin, Job, OwnSteps, Routed

\* A step of a command that leaves ledger and authorizations alone.
Quiet == UNCHANGED <<account, claims, flying, landed, signed, settled>>
\* Such a step keeps the invariant when the job it leaves is sound.
LEMMA QuietStep ==
    ASSUME IInv, ~Idle, Quiet, wallet' = wallet, spent' \in Spent, spent'.txs = spent.txs,
           spent'.commands = spent.commands,
           files' \in Files, Known(files'.payment, OnLedger), Known(files'.zk, OnLedger),
           \/ \E j : Kin(j) /\ HonestJob(j, OnLedger) /\ Done(j, account) /\ GoesOn(j)
           \/ \E result \in Results \ {"refused"} : Ends(result)
           \/ \E j \in Job : /\ j.steps # <<>> /\ Routed(j) /\ (HasRetry(j.steps) => HasRetry(job.steps))
                             /\ HonestJob(j, OnLedger) /\ Done(j, account) /\ GoesOn(j)
    PROVE  IInv'
<1>1. /\ Typed /\ OnLedgerTyped /\ JobOK(job, account, OnLedger) /\ HonestReport /\ Authorized /\ Declined
  BY DEF IInv, Typed
<1>2. ReportOK(report, OnLedger)
  BY <1>1 DEF ReportOK, Typed, HonestReport, Declined
<1>3. OnLedger' = OnLedger
  BY DEF Quiet, OnLedger
<1>4. /\ JobOK(job', account, OnLedger) /\ (HasRetry(job'.steps) => HasRetry(job.steps))
      /\ ReportOK(report', OnLedger)
  <2>0. ASSUME NEW j \in Job, j.steps # <<>>, Routed(j), HasRetry(j.steps) => HasRetry(job.steps),
               HonestJob(j, OnLedger), Done(j, account), GoesOn(j)
        PROVE  /\ JobOK(job', account, OnLedger) /\ (HasRetry(job'.steps) => HasRetry(job.steps))
               /\ ReportOK(report', OnLedger)
    <3>1. job' = Rest(j)
      BY <2>0 DEF GoesOn
    <3>2. JobOK(Rest(j), account, OnLedger) /\ (HasRetry(Rest(j).steps) => HasRetry(j.steps))
      BY <2>0, RestOK, RestTyped
    <3>3. ReportOK(Outcome(j, "done"), OnLedger)
      <4>1. j \in AnyJob /\ "done" \in Results /\ "done" # "refused"
        BY DEF Job, Results
      <4> QED BY <1>1, <2>0, <4>1, ReportFrom
    <3> QED BY <1>2, <2>0, <3>1, <3>2, <3>3 DEF GoesOn
  <2>1. CASE \E j : Kin(j) /\ HonestJob(j, OnLedger) /\ Done(j, account) /\ GoesOn(j)
    <3>1. PICK j : Kin(j) /\ HonestJob(j, OnLedger) /\ Done(j, account) /\ GoesOn(j)
      BY <2>1
    <3>2. j \in Job /\ j.steps # <<>> /\ Routed(j) /\ j.steps = job.steps
      BY <1>1, <3>1, KinSound DEF Kin
    <3> QED BY <2>0, <3>1, <3>2
  <2>2. CASE \E result \in Results \ {"refused"} : Ends(result)
    <3>1. PICK result \in Results \ {"refused"} : Ends(result)
      BY <2>2
    <3>2. job' = Fresh
      BY <3>1 DEF Ends
    <3>3. ReportOK(report', OnLedger)
      BY <1>1, <3>1, AtStep, ReportFrom DEF Ends
    <3> QED BY <3>2, <3>3, FreshOK
  <2>3. CASE \E j \in Job : /\ j.steps # <<>> /\ Routed(j) /\ (HasRetry(j.steps) => HasRetry(job.steps))
                            /\ HonestJob(j, OnLedger) /\ Done(j, account) /\ GoesOn(j)
    BY <2>0, <2>3
  <2> QED BY <2>1, <2>2, <2>3
<1>5. Typed'
  <2>1. report' \in Report
    BY <1>4 DEF ReportOK
  <2> QED BY <1>1, <2>1 DEF Typed, OnLedgerTyped, Quiet
<1>6. JobOK(job, account, OnLedger)'
  BY <1>3, <1>4 DEF Quiet, JobOK, HonestJob, Known, Routed, Ready, Informed, Prepared, Declinable, Trusted, CapKept
<1>7. HonestReport' /\ Declined'
  BY <1>1, <1>3, <1>4 DEF ReportOK, HonestReport, Declined, Quiet, Known
<1>8. Authorized'
  BY <1>1, <1>4 DEF Authorized, Quiet, HasRetry
<1> QED BY <1>5, <1>6, <1>7, <1>8 DEF IInv

\* What spending from a budget changes.
LEMMA SpentSteps ==
    ASSUME spent \in Spent
    PROVE  /\ \A what \in {"commands", "outside", "faults", "txs", "nonces"} : Spend(what) => spent' \in Spent
           /\ Spend("faults") => spent'.txs = spent.txs /\ spent'.commands = spent.commands
           /\ Spend("txs") => spent'.txs = spent.txs + 1 /\ spent'.commands = spent.commands
           /\ Spend("nonces") => spent'.txs = spent.txs /\ spent'.commands = spent.commands
           /\ Spend("outside") => spent'.txs = spent.txs /\ spent'.commands = spent.commands
           /\ Spend("commands") => spent'.txs = spent.txs /\ spent'.commands = spent.commands + 1
BY DEF Spent, Spend

\* A quiet step that keeps files and the counts of commands and transactions.
LEMMA CalmStep ==
    ASSUME IInv, ~Idle, UNCHANGED <<ledger, wallet, x402, files>>,
           spent' = spent \/ Spend("faults"),
           \/ \E j : Kin(j) /\ HonestJob(j, OnLedger) /\ Done(j, account) /\ GoesOn(j)
           \/ \E result \in Results \ {"refused"} : Ends(result)
           \/ \E j \in Job : /\ j.steps # <<>> /\ Routed(j) /\ (HasRetry(j.steps) => HasRetry(job.steps))
                             /\ HonestJob(j, OnLedger) /\ Done(j, account) /\ GoesOn(j)
    PROVE  IInv'
<1>1. Quiet /\ wallet' = wallet /\ files' = files
  BY DEF Quiet, ledger, x402
<1>2. spent' \in Spent /\ spent'.txs = spent.txs /\ spent'.commands = spent.commands
  BY SpentSteps DEF IInv, Typed
<1>3. files' \in Files /\ Known(files'.payment, OnLedger) /\ Known(files'.zk, OnLedger)
  BY <1>1 DEF IInv, Typed, HonestReport
<1> QED BY <1>1, <1>2, <1>3, QuietStep

\* Ending a command and changing nothing else keeps the invariant.
LEMMA EndStep ==
    ASSUME IInv, ~Idle, UNCHANGED <<ledger, wallet, x402, files>>, spent' = spent \/ Spend("faults"),
           NEW result, result \in Results, result # "refused", End(result)
    PROVE  IInv'
BY EndEnds, CalmStep

\* A job is kin to itself.
LEMMA JobItself == job \in Job => Kin(job)
BY DEF Kin, Job

\* A failed call ends the command.
LEMMA CallFailsKeeps == ASSUME IInv, ~Idle, CallFails PROVE IInv'
<1>1. Ends("error") /\ Spend("faults") /\ UNCHANGED <<ledger, wallet, x402, files>>
  BY EndEnds DEF CallFails
<1>2. "error" \in Results /\ "error" # "refused"
  BY DEF Results
<1> QED BY <1>1, <1>2, EndStep DEF CallFails

\* Only a fetch retries.
LEMMA NoRetryAmongOthers == \A s \in Seq(OtherSteps) : ~HasRetry(s)
<1>1. \A x \in OtherSteps : x.do # "retry"
  BY DEF OtherSteps
<1> QED BY <1>1 DEF HasRetry

\* Simulating instead of paying is a sound job.
LEMMA InsteadSound ==
    ASSUME JobOK(job, account, OnLedger), ~Idle, Next1.do = "key", Next1.instead # <<>>,
           NEW torn \in BOOLEAN, wallet \in WalletState, wallet = "locked" => torn
    PROVE  LET j == [Instead(Next1.instead) EXCEPT !.wallet = wallet, !.torn = torn] IN
           /\ j \in Job /\ j.steps # <<>> /\ Routed(j) /\ ~HasRetry(j.steps)
           /\ HonestJob(j, OnLedger) /\ Done(j, account)
<1> DEFINE steps == <<Next1>> \o Next1.instead \o <<Last(job.steps)>>
           j == [job EXCEPT !.steps = steps, !.wallet = wallet, !.torn = torn]
<1>1. job \in AnyJob /\ job.how \in OtherHows /\ Next1 \in OtherSteps /\ job.steps \in Seq(OtherSteps)
  <2>1. Next1 \notin BareKey
    BY DEF BareKey
  <2>2. Next1 \notin FetchSteps /\ Next1 \notin DryFetchSteps /\ Next1 \notin DeclineSteps
    BY <2>1 DEF FetchSteps, DryFetchSteps, DeclineSteps
  <2>3. job.how \in Hows
    BY AtStep DEF AnyJob
  <2>4. job.how \in OtherHows
    BY <2>2, <2>3, AtStep DEF Hows
  <2> QED BY <2>4, AtStep DEF OwnSteps
<1>2. Next1.instead \in Seq(OtherSteps)
  <2>1. Next1.instead \in Seq(Substitute)
    BY <1>1 DEF OtherSteps
  <2>2. Substitute \subseteq OtherSteps
    BY DEF Substitute, OtherSteps
  <2> QED BY <2>1, <2>2
<1>3. Last(job.steps) \in OtherSteps
  <2>1. Len(job.steps) \in Nat \ {0}
    BY <1>1, AtStep, EmptySeq
  <2> QED BY <1>1, <2>1 DEF Last
<1>4. steps \in Seq(OtherSteps) /\ steps # <<>> /\ Head(steps) = Next1
  <2>1. <<Next1>> \in Seq(OtherSteps) /\ <<Last(job.steps)>> \in Seq(OtherSteps)
    BY <1>1, <1>3, OneStep
  <2> DEFINE a == <<Next1>> \o Next1.instead  b == <<Last(job.steps)>>
  <2>2. a \in Seq(OtherSteps) /\ Len(a) = 1 + Len(Next1.instead) /\ a[1] = Next1 /\ Len(Next1.instead) \in Nat
    BY <1>2, <2>1, ConcatProperties
  <2>3. b \in Seq(OtherSteps) /\ Len(b) = 1
    BY <2>1
  <2> HIDE DEF a, b
  <2>4. a \o b \in Seq(OtherSteps) /\ Len(a \o b) = Len(a) + 1 /\ (a \o b)[1] = Next1
    <3>1. 1 <= Len(a) /\ 1 \in 1..(Len(a) + Len(b))
      BY <2>2, <2>3
    <3>2. Len(a \o b) = Len(a) + Len(b) /\ a \o b \in Seq(OtherSteps)
      BY <2>2, <2>3, ConcatProperties
    <3>3. (a \o b)[1] = a[1]
      BY <2>2, <2>3, <3>1, ConcatProperties
    <3> QED BY <2>2, <2>3, <3>2, <3>3
  <2> DEFINE c == a \o b
  <2>5. c \in Seq(OtherSteps) /\ Len(c) >= 1 /\ c[1] = Next1
    BY <1>2, <2>2, <2>4
  <2> HIDE DEF c
  <2>6. c # <<>> /\ Head(c) = Next1
    BY <2>5, EmptySeq
  <2> QED BY <2>5, <2>6 DEF a, b, c
<1>5. [Instead(Next1.instead) EXCEPT !.wallet = wallet, !.torn = torn] = j
  BY DEF Instead
<1> HIDE DEF steps
<1>6. steps \in Seq(Steps)
  <2>1. OtherSteps \subseteq Steps
    BY DEF Steps
  <2> QED BY <1>4, <2>1
<1>7. /\ j \in AnyJob /\ j.how = job.how /\ j.steps = steps /\ j.tx = job.tx /\ j.wallet = wallet /\ j.torn = torn
  BY <1>1, <1>6 DEF AnyJob
<1> HIDE DEF j
<1>8. OwnSteps(j) /\ Routed(j)
  BY <1>1, <1>4, <1>7 DEF OwnSteps, Routed, OtherHows
<1>9. HonestJob(j, OnLedger)
  BY <1>7, AtStep DEF HonestJob
<1>10. Done(j, account)
  BY <1>1, <1>4, <1>7 DEF Done, OtherHows
<1>11. ~HasRetry(j.steps)
  BY <1>4, <1>7, NoRetryAmongOthers
<1> QED BY <1>4, <1>5, <1>7, <1>8, <1>9, <1>10, <1>11 DEF Job

\* Loading the key, or finding that the wallet is locked, keeps the invariant.
LEMMA LoadKeyKeeps == ASSUME IInv, ~Idle, LoadKey PROVE IInv'
<1>1. /\ JobOK(job, account, OnLedger) /\ wallet \in WalletState /\ Next1.do = "key"
      /\ UNCHANGED <<ledger, wallet, x402, files>>
  BY DEF IInv, Typed, LoadKey
<1>2. CASE wallet = "key" /\ Advance([job EXCEPT !.wallet = wallet]) /\ UNCHANGED spent
  <2> DEFINE j == [job EXCEPT !.wallet = wallet]
  <2>1. job \in AnyJob
    BY <1>1, AtStep
  <2>2. /\ j \in AnyJob /\ j.how = job.how /\ j.steps = job.steps /\ j.tx = job.tx /\ j.wallet = "key" /\ j.read = job.read
        /\ j.list = job.list
    BY <1>1, <1>2, <2>1 DEF AnyJob
  <2>3. GoesOn(j)
    BY <1>2, AdvanceGoesOn
  <2> HIDE DEF j
  <2>4. Kin(j) /\ HonestJob(j, OnLedger)
    BY <1>1, <2>2, AtStep DEF Kin, HonestJob
  <2>5. Done(j, account)
    BY <1>1, <2>2, AtStep DEF Done, Ready, Informed
  <2> QED BY <1>1, <1>2, <2>3, <2>4, <2>5, CalmStep
<1>0. "locked" \in Results \ {"refused"} /\ "no key" \in Results \ {"refused"}
  BY DEF Results
<1>3. CASE End("locked") /\ UNCHANGED spent
  BY <1>0, <1>1, <1>3, EndStep
<1>4. CASE End("no key") /\ (UNCHANGED spent \/ Spend("faults"))
  BY <1>0, <1>1, <1>4, EndStep
<1>5. CASE /\ Next1.instead # <<>> /\ wallet = "external" /\ UNCHANGED spent
           /\ Advance([Instead(Next1.instead) EXCEPT !.wallet = wallet])
  <2> DEFINE j == [Instead(Next1.instead) EXCEPT !.wallet = wallet, !.torn = job.torn]
  <2>1. job.torn \in BOOLEAN /\ job \in AnyJob
    BY <1>1, AtStep DEF AnyJob
  <2>2. j = [Instead(Next1.instead) EXCEPT !.wallet = wallet]
    BY <2>1 DEF Instead, AnyJob
  <2>3. GoesOn(j)
    BY <1>5, <2>2, AdvanceGoesOn
  <2>4. /\ j \in Job /\ j.steps # <<>> /\ Routed(j) /\ ~HasRetry(j.steps)
        /\ HonestJob(j, OnLedger) /\ Done(j, account)
    BY <1>1, <1>5, <2>1, InsteadSound
  <2> HIDE DEF j
  <2> QED BY <1>1, <1>5, <2>3, <2>4, CalmStep
<1>6. CASE /\ Next1.instead # <<>> /\ Spend("faults")
           /\ Advance([Instead(Next1.instead) EXCEPT !.wallet = wallet, !.torn = TRUE])
  <2> DEFINE j == [Instead(Next1.instead) EXCEPT !.wallet = wallet, !.torn = TRUE]
  <2>3. GoesOn(j)
    BY <1>6, AdvanceGoesOn
  <2>4. /\ j \in Job /\ j.steps # <<>> /\ Routed(j) /\ ~HasRetry(j.steps)
        /\ HonestJob(j, OnLedger) /\ Done(j, account)
    BY <1>1, <1>6, InsteadSound
  <2> HIDE DEF j
  <2> QED BY <1>1, <1>6, <2>3, <2>4, CalmStep
<1> QED BY <1>2, <1>3, <1>4, <1>5, <1>6 DEF LoadKey

\* Reading the account keeps the invariant.
LEMMA AccountDetailKeeps == ASSUME IInv, ~Idle, AccountDetail PROVE IInv'
<1> DEFINE j == [job EXCEPT !.seq = account.seq, !.trusts = account.trusts]
<1>1. /\ JobOK(job, account, OnLedger) /\ Next1.do = "account" /\ account \in AccountType
      /\ UNCHANGED <<ledger, wallet, x402, files, spent>> /\ GoesOn(j)
  BY AdvanceGoesOn DEF IInv, Typed, OnLedgerTyped, AccountDetail
<1>2. job \in AnyJob
  BY <1>1, AtStep
<1>3. /\ j \in AnyJob /\ j.how = job.how /\ j.steps = job.steps /\ j.tx = job.tx /\ j.wallet = job.wallet /\ j.torn = job.torn
      /\ j.read = job.read /\ j.list = job.list /\ j.seq = account.seq /\ j.trusts = account.trusts
  BY <1>1, <1>2 DEF AnyJob, AccountType
<1> HIDE DEF j
<1>4. Kin(j) /\ HonestJob(j, OnLedger)
  BY <1>1, <1>3, AtStep DEF Kin, HonestJob
<1>5. j.how = "decline-all" => Informed(j, account)
  BY <1>1, <1>3, AtStep DEF Ready, Informed
<1>6. Informed(j, account) => Prepared(j, account)
  BY <1>1, <1>3 DEF Informed, Prepared, AccountType, Worlds
<1>7. Done(j, account)
  BY <1>1, <1>3, <1>5, <1>6, AtStep DEF Done
<1> QED BY <1>1, <1>3, <1>4, <1>7, CalmStep

\* Listing the claimable balances keeps the invariant.
LEMMA ListKeeps == ASSUME IInv, ~Idle, ListClaimableBalances PROVE IInv'
<1>1. /\ JobOK(job, account, OnLedger) /\ OnLedgerTyped /\ claims \subseteq Claims /\ account \in AccountType
      /\ UNCHANGED <<ledger, wallet, x402, files, spent>>
  BY DEF IInv, Typed, OnLedgerTyped, ListClaimableBalances
<1>2. CASE End("nothing to do") \/ End("done") \/ End("not found")
  <2>1. {"nothing to do", "done", "not found"} \subseteq Results \ {"refused"}
    BY DEF Results
  <2> QED BY <1>1, <1>2, <2>1, EndStep
<1>3. CASE Next1.do \in {"count", "find"} /\ Advance(job)
  <2>1. Kin(job) /\ HonestJob(job, OnLedger) /\ Done(job, account)
    BY <1>1, <1>3, AtStep, JobItself DEF Done
  <2> QED BY <1>1, <1>3, <2>1, AdvanceGoesOn, CalmStep
<1>4. CASE Next1.do = "claims" /\ Advance([job EXCEPT !.list = claims, !.read = World])
  <2> DEFINE j == [job EXCEPT !.list = claims, !.read = World]
  <2>1. job \in AnyJob /\ World \in Worlds
    BY <1>1, AtStep, WorldTyped
  <2>2. /\ j \in AnyJob /\ j.how = job.how /\ j.steps = job.steps /\ j.tx = job.tx /\ j.wallet = job.wallet /\ j.torn = job.torn
        /\ j.read = World /\ j.list = claims
    BY <1>1, <2>1 DEF AnyJob
  <2>3. GoesOn(j)
    BY <1>4, AdvanceGoesOn
  <2> HIDE DEF j
  <2>4. Kin(j) /\ HonestJob(j, OnLedger)
    BY <1>1, <2>2, AtStep DEF Kin, HonestJob
  <2>5. Informed(j, account)
    BY <1>1, <2>1, <2>2 DEF Informed, World, AccountType
  <2>6. Done(j, account)
    BY <1>1, <1>4, <2>2, <2>5, AtStep DEF Done
  <2> QED BY <1>1, <2>3, <2>4, <2>6, CalmStep
<1> QED BY <1>2, <1>3, <1>4 DEF ListClaimableBalances

\* Leaving out untrusted assets makes the list declinable.
LEMMA SkipUntrustedKeeps == ASSUME IInv, ~Idle, SkipUntrusted PROVE IInv'
<1> DEFINE kept == {c \in job.list : Trusted(job, AssetOf[c])}
           j == [job EXCEPT !.list = kept]
<1>1. /\ JobOK(job, account, OnLedger) /\ Next1.do = "filter" /\ UNCHANGED <<ledger, wallet, x402, files, spent>>
      /\ End("done") \/ Advance(j)
  BY DEF IInv, SkipUntrusted
<1>2. CASE End("done")
  <2>1. "done" \in Results \ {"refused"}
    BY DEF Results
  <2> QED BY <1>1, <1>2, <2>1, EndStep
<1>3. CASE Advance(j)
  <2>1. job \in AnyJob /\ kept \subseteq job.list /\ \A c \in kept : Trusted(job, AssetOf[c])
    BY <1>1, AtStep
  <2> HIDE DEF kept
  <2>2. /\ j \in AnyJob /\ j.how = job.how /\ j.steps = job.steps /\ j.tx = job.tx /\ j.wallet = job.wallet /\ j.torn = job.torn
        /\ j.read = job.read /\ j.list = kept /\ j.seq = job.seq /\ j.trusts = job.trusts
    BY <1>1, <2>1 DEF AnyJob
  <2>3. GoesOn(j)
    BY <1>3, AdvanceGoesOn
  <2> HIDE DEF j
  <2>4. Kin(j) /\ HonestJob(j, OnLedger)
    BY <1>1, <2>2, AtStep DEF Kin, HonestJob
  <2>5. Declinable(j)
    BY <2>1, <2>2 DEF Declinable, Trusted
  <2>6. Done(j, account)
    BY <1>1, <2>1, <2>2, <2>5, AtStep DEF Done, Ready, Informed, Prepared
  <2> QED BY <1>1, <2>3, <2>4, <2>6, CalmStep
<1> QED BY <1>1, <1>2, <1>3

\* Asking the user, or making a proof, keeps the invariant.
LEMMA DecideKeeps == ASSUME IInv, ~Idle, Decide PROVE IInv'
<1>1. /\ JobOK(job, account, OnLedger) /\ Next1.do \in {"confirm", "prove", "quote"}
      /\ UNCHANGED <<ledger, wallet, x402, files, spent>>
      /\ GoesOn(job) \/ End("not executed")
  BY AdvanceGoesOn DEF IInv, Decide
<1>2. Kin(job) /\ HonestJob(job, OnLedger) /\ Done(job, account)
  BY <1>1, AtStep, JobItself DEF Done
<1>3. CASE GoesOn(job)
  BY <1>1, <1>2, <1>3, CalmStep
<1>4. CASE End("not executed")
  <2>1. "not executed" \in Results \ {"refused"}
    BY DEF Results
  <2> QED BY <1>1, <1>4, <2>1, EndStep
<1> QED BY <1>1, <1>3, <1>4

\* Making a hash up keeps the invariant.
LEMMA MakeUpHashKeeps == ASSUME IInv, ~Idle, MakeUpHash PROVE IInv'
<1> DEFINE j == [job EXCEPT !.tx = Fake]
<1>1. /\ JobOK(job, account, OnLedger) /\ Next1.do = "fake" /\ UNCHANGED <<ledger, wallet, x402, files, spent>> /\ GoesOn(j)
  BY AdvanceGoesOn DEF IInv, MakeUpHash
<1>2. job \in AnyJob
  BY <1>1, AtStep
<1>3. /\ j \in AnyJob /\ j.how = job.how /\ j.steps = job.steps /\ j.tx = Fake /\ j.wallet = job.wallet /\ j.torn = job.torn
  BY <1>2 DEF AnyJob
<1> HIDE DEF j
<1>4. Kin(j) /\ HonestJob(j, OnLedger)
  BY <1>1, <1>3, AtStep DEF Kin, HonestJob, Known
<1>5. Done(j, account)
  BY <1>1, <1>3, AtStep DEF Done
<1> QED BY <1>1, <1>4, <1>5, CalmStep

\* Writing a payment, proof or asset file keeps the invariant.
LEMMA SaveStateKeeps == ASSUME IInv, ~Idle, SaveState PROVE IInv'
<1>1. /\ Typed /\ HonestReport /\ JobOK(job, account, OnLedger) /\ Next1.do \in {"zkfile", "receipt", "assetfile", "x402file"}
      /\ UNCHANGED <<ledger, wallet, x402, spent>> /\ GoesOn(job)
  BY AdvanceGoesOn DEF IInv, SaveState
<1>2. job \in AnyJob /\ Known(job.tx, OnLedger)
  BY <1>1, AtStep DEF HonestJob
<1>3. files \in Files /\ Known(files.payment, OnLedger) /\ Known(files.zk, OnLedger)
  BY <1>1 DEF Typed, HonestReport
<1>4. files' \in Files /\ Known(files'.payment, OnLedger) /\ Known(files'.zk, OnLedger)
  BY <1>2, <1>3 DEF SaveState, Files, AnyJob
<1>5. Kin(job) /\ HonestJob(job, OnLedger) /\ Done(job, account)
  BY <1>1, AtStep, JobItself DEF Done
<1>6. Quiet /\ wallet' = wallet /\ spent' \in Spent /\ spent'.txs = spent.txs /\ spent'.commands = spent.commands
  BY <1>1 DEF Quiet, ledger, x402, Typed
<1> QED BY <1>1, <1>4, <1>5, <1>6, QuietStep

\* Whatever the first answer of a resource server is, the invariant is kept.
LEMMA FirstRequestKeeps == ASSUME IInv, ~Idle, FirstRequest PROVE IInv'
<1>1. /\ JobOK(job, account, OnLedger) /\ Next1.do = "request" /\ UNCHANGED <<ledger, wallet, x402, files, spent>>
  BY DEF IInv, FirstRequest
<1>2. job \in AnyJob /\ job \in Job /\ OwnSteps(job) /\ job.steps # <<>>
  BY <1>1, AtStep
<1>3. ASSUME NEW price \in Prices, Advance([job EXCEPT !.price = price]) PROVE IInv'
  <2> DEFINE j == [job EXCEPT !.price = price]
  <2>1. price \in Nat
    BY Constants
  <2>2. /\ j \in AnyJob /\ j.how = job.how /\ j.steps = job.steps /\ j.tx = job.tx /\ j.wallet = job.wallet /\ j.torn = job.torn
    BY <1>2, <2>1 DEF AnyJob
  <2>3. GoesOn(j)
    BY <1>3, AdvanceGoesOn
  <2> HIDE DEF j
  <2>4. Kin(j) /\ HonestJob(j, OnLedger)
    BY <1>1, <2>2, AtStep DEF Kin, HonestJob
  <2>5. Done(j, account)
    BY <1>1, <2>2, AtStep DEF Done
  <2> QED BY <1>1, <2>3, <2>4, <2>5, CalmStep
<1>4. CASE Advance([job EXCEPT !.steps = <<Next1>> \o (IF Last(@).do = "x402file" THEN <<Last(@)>> ELSE <<>>)])
  <2> DEFINE last == Last(job.steps)
             steps == <<Next1>> \o (IF last.do = "x402file" THEN <<last>> ELSE <<>>)
             j == [job EXCEPT !.steps = steps]
  <2>1. GoesOn(j)
    BY <1>4, AdvanceGoesOn
  <2>2. Len(job.steps) \in Nat \ {0} /\ last = job.steps[Len(job.steps)]
    BY <1>2, EmptySeq DEF AnyJob, Last
  <2>3. job.how \in {"x402", "dry run"}
    <3>1. Next1 \notin DeclineSteps /\ Next1 \notin OtherSteps
      BY <1>1 DEF DeclineSteps, OtherSteps, BareKey
    <3> QED BY <1>1, <1>2, <3>1, AtStep DEF AnyJob, Hows
  <2> DEFINE S == IF job.how = "x402" THEN FetchSteps ELSE DryFetchSteps
  <2>4. job.steps \in Seq(S) /\ Next1 \in S
    BY <1>1, <1>2, <2>3, AtStep DEF OwnSteps
  <2> HIDE DEF S
  <2>5. last \in S
    BY <2>2, <2>4
  <2>6. /\ steps \in Seq(S) /\ steps # <<>> /\ Head(steps) = Next1
        /\ Len(steps) \in {1, 2} /\ steps[1] = Next1 /\ (Len(steps) = 2 => steps[2].do = "x402file")
    <3>1. CASE last.do = "x402file"
      <4> HIDE DEF last
      <4> DEFINE one == <<Next1>>  two == <<last>>
      <4>1. one \in Seq(S) /\ Len(one) = 1 /\ one[1] = Next1 /\ two \in Seq(S) /\ Len(two) = 1 /\ two[1] = last
        BY <2>4, <2>5
      <4>2. steps = one \o two
        BY <3>1
      <4> HIDE DEF one, two, steps
      <4>3. steps \in Seq(S) /\ Len(steps) = 2 /\ steps[1] = Next1 /\ steps[2] = last
        BY <4>1, <4>2, ConcatProperties
      <4>4. steps # <<>> /\ Head(steps) = steps[1]
        BY <4>3, EmptySeq
      <4> QED BY <3>1, <4>3, <4>4
    <3>2. CASE last.do # "x402file"
      <4> HIDE DEF last
      <4>1. <<Next1>> \in Seq(S)
        BY <2>4, OneStep
      <4>2. steps = <<Next1>>
        BY <3>2, <4>1, ConcatEmptySeq
      <4> QED BY <4>1, <4>2
    <3> QED BY <3>1, <3>2
  <2> HIDE DEF steps, last
  <2>7. Chain(steps, FetchFollow) /\ ~HasRetry(steps)
    BY <1>1, <2>6 DEF Chain, FetchFollow, HasRetry
  <2>8. /\ j \in AnyJob /\ j.how = job.how /\ j.steps = steps /\ j.tx = job.tx /\ j.wallet = job.wallet /\ j.torn = job.torn
    <3>1. S \subseteq Steps
      BY DEF S, Steps, FetchSteps
    <3>2. steps \in Seq(Steps)
      BY <2>6, <3>1
    <3> QED BY <1>2, <3>2 DEF AnyJob
  <2> HIDE DEF j
  <2>9. OwnSteps(j) /\ Routed(j)
    BY <2>3, <2>6, <2>7, <2>8 DEF OwnSteps, Routed, OtherHows, S
  <2>10. HonestJob(j, OnLedger) /\ Done(j, account)
    BY <1>1, <2>3, <2>6, <2>8, AtStep DEF HonestJob, Done
  <2> QED BY <1>1, <2>1, <2>6, <2>7, <2>8, <2>9, <2>10, CalmStep DEF Job
<1>5. CASE End("bad challenge")
  <2>1. "bad challenge" \in Results \ {"refused"}
    BY DEF Results
  <2> QED BY <1>1, <1>5, <2>1, EndStep
<1> QED BY <1>3, <1>4, <1>5 DEF FirstRequest

\* A fetch that goes on is within its cap.
LEMMA WithinCapKeeps == ASSUME IInv, ~Idle, WithinCap PROVE IInv'
<1>1. /\ JobOK(job, account, OnLedger) /\ Next1.do = "cap" /\ UNCHANGED <<ledger, wallet, x402, files, spent>>
  BY DEF IInv, WithinCap
<1>2. CASE job.cap # NoCap /\ job.price > job.cap
  <2>1. "above cap" \in Results \ {"refused"}
    BY DEF Results
  <2> QED BY <1>1, <1>2, <2>1, EndStep DEF WithinCap
<1>3. CASE ~(job.cap # NoCap /\ job.price > job.cap)
  <2>1. job \in AnyJob /\ Kin(job) /\ HonestJob(job, OnLedger)
    BY <1>1, AtStep, JobItself
  <2>2. CapKept(job)
    BY <1>3, <2>1 DEF CapKept, AnyJob
  <2>3. Done(job, account)
    BY <1>1, <2>2, AtStep DEF Done
  <2>4. GoesOn(job)
    BY <1>3, AdvanceGoesOn DEF WithinCap
  <2> QED BY <1>1, <2>1, <2>3, <2>4, CalmStep
<1> QED BY <1>2, <1>3

\* Signing an authorization keeps it the command's only one.
LEMMA BuildTransferKeeps == ASSUME IInv, ~Idle, BuildTransferTransaction PROVE IInv'
<1>1. /\ JobOK(job, account, OnLedger) /\ Next1.do = "sign" /\ UNCHANGED <<ledger, wallet, x402, files, spent>>
  BY DEF IInv, BuildTransferTransaction
<1>2. {"simulation failed", "unexpected authorization"} \subseteq Results \ {"refused"}
  BY DEF Results
<1>3. CASE End("simulation failed") \/ End("unexpected authorization")
  BY <1>1, <1>2, <1>3, EndStep
<1>4. CASE Advance([job EXCEPT !.price = job.price])
  <2>1. job \in AnyJob /\ Kin(job) /\ HonestJob(job, OnLedger)
    BY <1>1, AtStep, JobItself
  <2>2. [job EXCEPT !.price = job.price] = job
    BY <2>1 DEF AnyJob
  <2>3. GoesOn(job)
    BY <1>4, <2>2, AdvanceGoesOn
  <2>4. Done(job, account)
    BY <1>1, AtStep DEF Done, Ready
  <2> QED BY <1>1, <2>1, <2>3, <2>4, CalmStep
<1>5. PICK entry \in Prices :
        CASE account.held[Native] < job.price   -> End("simulation failed")
          [] ~ValidTransferAuthEntry(entry)     -> End("unexpected authorization")
          [] OTHER                              -> Advance([job EXCEPT !.price = entry])
  BY DEF BuildTransferTransaction
<1>6. End("simulation failed") \/ End("unexpected authorization") \/ Advance([job EXCEPT !.price = job.price])
  BY <1>5 DEF ValidTransferAuthEntry
<1> QED BY <1>3, <1>4, <1>6

\* The retry hands over the command's only authorization.
LEMMA PaidRetryKeeps == ASSUME IInv, ~Idle, PaidRetry PROVE IInv'
<1>1. /\ Typed /\ OnLedgerTyped /\ JobOK(job, account, OnLedger) /\ HonestReport /\ Authorized /\ Declined
      /\ Next1.do = "retry" /\ signed' = signed \cup {Auth} /\ Spend("nonces")
      /\ UNCHANGED <<ledger, wallet, settled, files>>
  BY DEF IInv, Typed, PaidRetry, HandOver
<1>2. /\ job \in Job /\ job \in AnyJob /\ job.steps # <<>> /\ Routed(job) /\ Kin(job) /\ HonestJob(job, OnLedger)
      /\ Head(job.steps).do = "retry"
  BY <1>1, AtStep, JobItself
<1>3. job.how = "x402"
  <2>1. Next1 \notin DryFetchSteps /\ Next1 \notin DeclineSteps /\ Next1 \notin OtherSteps
    BY <1>1 DEF DryFetchSteps, DeclineSteps, OtherSteps, BareKey
  <2> QED BY <1>1, <1>2, <2>1, AtStep DEF AnyJob, Hows
<1>4. CapKept(job) /\ Done(job, account)
  BY <1>1, <1>2, <1>3, AtStep DEF Ready, Done
<1>5. spent' \in Spent /\ spent'.txs = spent.txs /\ spent'.commands = spent.commands
  BY <1>1, SpentSteps DEF Typed
<1>6. JobOK(job', account, OnLedger) /\ ~HasRetry(job'.steps) /\ ReportOK(report', OnLedger)
  <2>1. ReportOK(report, OnLedger)
    BY <1>1 DEF ReportOK, Typed, HonestReport, Declined
  <2>2. \A result \in Results \ {"refused"} :
          ReportOK(Outcome(job, result), OnLedger)
    BY <1>1, <1>2, ReportFrom
  <2>3. {"done", "rejected", "failed after payment", "no answer"} \subseteq Results \ {"refused"}
    BY DEF Results
  <2>4. CASE Advance(job)
    <3>1. job' = Rest(job) /\ ReportOK(report', OnLedger)
      BY <2>1, <2>2, <2>3, <2>4, AdvanceGoesOn DEF GoesOn
    <3> QED BY <1>2, <1>3, <1>4, <3>1, RestOK, OneRetryLeft
  <2>5. CASE End("rejected") \/ End("failed after payment") \/ End("no answer")
    <3>1. job' = Fresh /\ ReportOK(report', OnLedger)
      BY <2>2, <2>3, <2>5 DEF End
    <3> QED BY <3>1, FreshOK
  <2> QED BY <2>4, <2>5 DEF PaidRetry
<1>7. Auth \in Authorization /\ Auth.how = "x402" /\ Auth.command = spent.commands
      /\ (Auth.cap # NoCap => Auth.price <= Auth.cap)
  BY <1>1, <1>2, <1>3, <1>4 DEF Auth, Authorization, AnyJob, Typed, Spent, CapKept
<1>8. HasRetry(job.steps)
  BY <1>2, TailIs DEF HasRetry, AnyJob
<1>9. \A a \in signed \cup settled : a.command # spent.commands
  BY <1>1, <1>8 DEF Authorized
<1>10. Typed'
  <2>1. report' \in Report
    BY <1>6 DEF ReportOK
  <2>2. signed' \subseteq Authorization
    BY <1>1, <1>7 DEF Typed
  <2> QED BY <1>1, <1>5, <2>1, <2>2 DEF Typed, OnLedgerTyped, ledger
<1>11. OnLedger' = OnLedger /\ account' = account
  BY <1>1 DEF OnLedger, ledger
<1>12. JobOK(job, account, OnLedger)'
  BY <1>6, <1>11 DEF JobOK, HonestJob, Known, Routed, Ready, Informed, Prepared, Declinable, Trusted, CapKept
<1>13. HonestReport' /\ Declined'
  BY <1>1, <1>6, <1>11 DEF ReportOK, HonestReport, Declined, ledger, Known
<1>14. Authorized'
  <2>1. signed' \cup settled' = (signed \cup settled) \cup {Auth}
    BY <1>1
  <2>2. spent.commands \in Nat /\ ~HasRetry(job.steps)'
    BY <1>1, <1>6 DEF Typed, Spent, HasRetry
  <2>3. \A a \in (signed \cup settled) \cup {Auth} :
          a.how = "x402" /\ a.command <= spent.commands /\ (a.cap # NoCap => a.price <= a.cap)
    BY <1>1, <1>7, <2>2 DEF Authorized
  <2>4. \A a, b \in (signed \cup settled) \cup {Auth} : a.command = b.command => a = b
    BY <1>1, <1>7, <1>9 DEF Authorized
  <2> QED BY <1>5, <2>1, <2>2, <2>3, <2>4 DEF Authorized
<1> QED BY <1>10, <1>12, <1>13, <1>14 DEF IInv

\* The transaction of a command; a batch of declines is one of pairs.
LEMMA TxSound ==
    ASSUME Typed, JobOK(job, account, OnLedger), ~Idle, Next1.do \in {"submit", "submit-all"}
    PROVE  /\ Tx \in Transaction /\ Tx.id = spent.txs + 1 /\ Tx.how = job.how /\ Tx.seq = job.seq + 1
           /\ job.how = "decline-all" => Next1.do = "submit-all" /\ Tx.ops = DeclineOps(SetToSeq(job.list)) /\ Paired(Tx.ops)
<1>1. job \in AnyJob /\ spent \in Spent
  BY AtStep DEF Typed
<1>2. Tx.id = spent.txs + 1 /\ Tx.how = job.how /\ Tx.seq = job.seq + 1
      /\ Tx.ops = IF Next1.do = "submit-all" THEN BatchOps(job) ELSE Next1.ops
  BY DEF Tx
<1>3. job.list \subseteq Claims /\ IsFiniteSet(job.list)
  <2>1. job.list \subseteq Claims
    BY <1>1 DEF AnyJob
  <2> QED BY <2>1, PaymentAssumptions, FS_Subset
<1>4. SetToSeq(job.list) \in Seq(Claims)
  <2>1. SetToSeq(job.list) \in Seq(job.list)
    BY <1>3, SetToSeqOrders
  <2> QED BY <1>3, <2>1
<1>5. DeclineOps(SetToSeq(job.list)) \in Seq(Op) /\ Paired(DeclineOps(SetToSeq(job.list)))
  BY <1>4, DeclineOpsAre DEF Paired
<1>6. AcceptOps(SetToSeq(job.list)) \in Seq(Op)
  <2> DEFINE order == SetToSeq(job.list)
  <2>1. order \in Seq(Claims)
    BY <1>4
  <2> HIDE DEF order
  <2>2. \A i \in 1..Len(order) : Claim(order[i]) \in Op
    BY <2>1, SomeOps
  <2>3. AcceptOps(order) \in [1..Len(order) -> Op] /\ Len(order) \in Nat
    BY <2>1, <2>2 DEF AcceptOps
  <2>4. AcceptOps(order) \in Seq(Op)
    BY <2>3
  <2> QED BY <2>4 DEF order
<1>7. BatchOps(job) \in Seq(Op)
  BY <1>5, <1>6 DEF BatchOps
<1>8. Next1.do = "submit" => Next1.ops \in Seq(Op) /\ job.how # "decline-all"
  <2>1. Next1.do = "submit" => Next1 \notin FetchSteps /\ Next1 \notin DeclineSteps /\ Next1 \notin DryFetchSteps
    BY DEF FetchSteps, DryFetchSteps, DeclineSteps, BareKey
  <2>2. Next1.do = "submit" => Next1 \in OtherSteps
    BY <2>1, AtStep DEF Steps
  <2> QED BY <2>1, <2>2, AtStep DEF OtherSteps
<1>9. Tx.ops \in Seq(Op)
  BY <1>2, <1>7, <1>8
<1>10. Tx \in Transaction
  <2>1. Tx = [id |-> Tx.id, how |-> Tx.how, seq |-> Tx.seq, ops |-> Tx.ops]
    BY DEF Tx
  <2>2. Tx.id \in Nat /\ Tx.how \in Hows /\ Tx.seq \in Nat
    BY <1>1, <1>2 DEF AnyJob, Spent
  <2> QED BY <1>9, <2>1, <2>2 DEF Transaction
<1>11. job.how = "decline-all" => Next1.do = "submit-all" /\ Tx.ops = DeclineOps(SetToSeq(job.list)) /\ Paired(Tx.ops)
  BY <1>2, <1>5, <1>8 DEF BatchOps
<1> QED BY <1>2, <1>10, <1>11

\* The ledger refuses a batch of declines only when it has moved on.
LEMMA RefusedWhenStale ==
    ASSUME Typed, JobOK(job, account, OnLedger), ~Idle, Next1.do = "submit-all", job.how = "decline-all", ~Hindered(job),
           ~InSequence(Tx) \/ ~Execute(Tx.ops).ok
    PROVE  job.read # World
<1>1. Informed(job, account) /\ Prepared(job, account) /\ Declinable(job)
  BY AtStep DEF Ready
<1>2. Tx.seq = job.seq + 1 /\ Tx.ops = DeclineOps(SetToSeq(job.list)) /\ OnLedgerTyped
  BY TxSound DEF Typed
<1> SUFFICES ASSUME job.read = World PROVE FALSE
  OBVIOUS
<1>3. job.read[1] = account.trusts /\ job.read[2] = claims /\ job.read[3] = account.seq
  BY DEF World
<1>4. job.seq = account.seq /\ account.seq \in Nat /\ job.seq \in Nat
  <2>1. account.seq \in Nat /\ job.seq \in Nat
    BY <1>2, AtStep DEF OnLedgerTyped, AccountType, AnyJob
  <2> QED BY <1>1, <1>3, <2>1 DEF Prepared
<1>5. InSequence(Tx)
  BY <1>2, <1>4 DEF InSequence
<1>6. job.list \in SUBSET claims /\ \A c \in job.list : Trusted(account, AssetOf[c])
  BY <1>1, <1>3, <1>4 DEF Informed, Prepared, Declinable, Trusted
<1>8. \A c \in job.list : c \in account.ready \cap account.returnable /\ AssetOf[c] \notin Namesakes
  BY DEF Hindered
<1>7. Execute(Tx.ops).ok
  BY <1>2, <1>6, <1>8, PresentBatchGoesThrough
<1> QED BY <1>5, <1>7

\* Submitting, whatever is answered, keeps the invariant.
LEMMA SubmitKeeps ==
    ASSUME IInv, ~Idle, SubmitTransaction
    PROVE  IInv' /\ \A t \in landed' \ landed : t.how = "decline-all" => PaidByCode(account.held, account'.held)
<1>1. /\ Typed /\ OnLedgerTyped /\ JobOK(job, account, OnLedger) /\ HonestReport /\ Authorized /\ Declined
      /\ Next1.do \in {"submit", "submit-all"} /\ UNCHANGED <<wallet, x402, files>>
      /\ Answered(Tx) \/ BadSequence(Tx) \/ Lost(Tx)
  BY DEF IInv, Typed, SubmitTransaction
<1> DEFINE t == Tx
<1>2. /\ t \in Transaction /\ t.id = spent.txs + 1 /\ t.how = job.how /\ t.seq = job.seq + 1
      /\ t.how = "decline-all" => Next1.do = "submit-all" /\ Paired(t.ops)
  BY <1>1, TxSound
<1>3. /\ job \in Job /\ job \in AnyJob /\ job.steps # <<>> /\ Routed(job) /\ HonestJob(job, OnLedger)
  BY <1>1, AtStep
<1>4. /\ spent' \in Spent /\ spent'.txs = spent.txs + 1 /\ spent'.commands = spent.commands
  <2>1. CASE Spend("txs")
    BY <1>1, <2>1, SpentSteps DEF Typed
  <2>2. CASE spent' = [spent EXCEPT !.txs = @ + 1, !.faults = @ + 1]
    <3>1. spent \in Spent /\ spent.txs + 1 \in Nat /\ spent.faults + 1 \in Nat
      BY <1>1 DEF Typed, Spent
    <3>2. [spent EXCEPT !.txs = spent.txs + 1, !.faults = spent.faults + 1] \in Spent
      BY <3>1 DEF Spent
    <3> QED BY <2>2, <3>1, <3>2 DEF Spent
  <2> QED BY <1>1, <2>1, <2>2 DEF Answered, BadSequence, Lost
<1> DEFINE lines == [id |-> t.id, how |-> t.how]
<1>5. /\ account' \in AccountType /\ claims' \subseteq Claims /\ Newer(account, account')
      /\ landed \subseteq landed' /\ landed' \subseteq landed \cup {lines}
      /\ flying \subseteq flying' /\ flying' \subseteq flying \cup {t}
      /\ Paired(t.ops) => PaidByCode(account.held, account'.held)
  <2>1. CASE Answered(t)
    <3>1. /\ account' \in AccountType /\ claims' \subseteq Claims /\ Newer(account, account')
          /\ landed \subseteq landed' /\ landed' \subseteq landed \cup {lines}
          /\ Paired(t.ops) => PaidByCode(account.held, account'.held)
      BY <1>1, <1>2, <2>1, IncludeStep DEF Answered
    <3> QED BY <2>1, <3>1 DEF Answered
  <2>2. CASE BadSequence(t) \/ Lost(t)
    <3>1. UNCHANGED <<account, claims, landed>> /\ flying' \subseteq flying \cup {t} /\ flying \subseteq flying'
      BY <2>2 DEF BadSequence, Lost, ledger
    <3>2. account'.held = account.held /\ account.held \in [Assets -> Nat]
      BY <1>1, <3>1 DEF OnLedgerTyped, AccountType
    <3> QED BY <1>1, <3>1, <3>2, NothingPaid DEF OnLedgerTyped, Newer, AccountType
  <2> QED BY <1>1, <2>1, <2>2
<1>6. OnLedger \subseteq OnLedger'
  BY <1>5 DEF OnLedger
<1>7. JobOK(job', account', OnLedger') /\ (HasRetry(job'.steps) => HasRetry(job.steps)) /\ ReportOK(report', OnLedger')
  <2>0. ReportOK(report, OnLedger)
    BY <1>1 DEF ReportOK, Typed, HonestReport, Declined
  <2>1. ASSUME NEW result \in Results, result = "refused" /\ job.how = "decline-all" /\ ~Hindered(job) => job.read # World, End(result)
        PROVE  JobOK(job', account', OnLedger') /\ (HasRetry(job'.steps) => HasRetry(job.steps)) /\ ReportOK(report', OnLedger')
    <3>1. job' = Fresh
      BY <2>1 DEF End
    <3>2. ReportOK(report', OnLedger)
      BY <1>1, <1>3, <2>1, ReportFrom DEF End
    <3>3. ReportOK(report', OnLedger')
      BY <1>6, <3>2 DEF ReportOK, Known
    <3> QED BY <3>1, <3>3, FreshOK
  <2>2. CASE Answered(t) /\ Execute(t.ops).ok
    <3> DEFINE j == Submitted(t)
    <3>1. Advance(j) /\ t.id \in OnLedger'
      <4>1. lines \in landed'
        BY <1>1, <1>2, <2>2, IncludeStep DEF Answered
      <4> QED BY <2>2, <4>1 DEF Answered, OnLedger
    <3>2. /\ j \in AnyJob /\ j.how = job.how /\ j.steps = job.steps /\ j.tx = t.id /\ j.wallet = job.wallet /\ j.torn = job.torn
      BY <1>2, <1>3 DEF Submitted, AnyJob, Transaction
    <3> HIDE DEF j
    <3>3. HonestJob(j, OnLedger') /\ Kin(j) /\ GoesOn(j)
      BY <1>3, <3>1, <3>2, AdvanceGoesOn DEF HonestJob, Kin, Known
    <3>4. j \in Job /\ Routed(j) /\ j.steps # <<>> /\ Head(j.steps) = Next1
      BY <1>1, <3>3, KinSound
    <3>5. Done(j, account')
      BY <1>1, <3>4 DEF Done
    <3>6. JobOK(Rest(j), account', OnLedger') /\ (HasRetry(Rest(j).steps) => HasRetry(j.steps))
      BY <3>3, <3>4, <3>5, RestOK, RestTyped
    <3>7. ReportOK(Outcome(j, "done"), OnLedger')
      <4>1. "done" \in Results /\ "done" # "refused"
        BY DEF Results
      <4> QED BY <1>1, <3>2, <3>3, <4>1, ReportFrom
    <3>8. ReportOK(report, OnLedger')
      BY <1>6, <2>0 DEF ReportOK, Known
    <3> QED BY <3>2, <3>3, <3>6, <3>7, <3>8 DEF GoesOn
  <2>3. CASE (Answered(t) /\ ~Execute(t.ops).ok) \/ BadSequence(t)
    <3>1. End("refused") /\ (~Execute(t.ops).ok \/ ~InSequence(t))
      BY <2>3 DEF Answered, BadSequence
    <3>2. job.how = "decline-all" /\ ~Hindered(job) => job.read # World
      BY <1>1, <1>2, <3>1, RefusedWhenStale
    <3>3. "refused" \in Results
      BY DEF Results
    <3> QED BY <2>1, <3>1, <3>2, <3>3
  <2>4. CASE Lost(t)
    <3>1. End("no answer") \/ End("panic")
      BY <2>4 DEF Lost
    <3>2. {"no answer", "panic"} \subseteq Results \ {"refused"}
      BY DEF Results
    <3> QED BY <2>1, <3>1, <3>2
  <2> QED BY <1>1, <2>2, <2>3, <2>4
<1> HIDE DEF t
<1>8. Typed'
  <2>1. lines \in [id : Nat, how : Hows] /\ spent.txs \in Nat /\ t.id \in 1..spent'.txs /\ lines.id \in 1..spent'.txs
    BY <1>1, <1>2, <1>4 DEF Transaction, Typed, Spent
  <2> HIDE DEF lines
  <2>2. \A n \in 1..spent.txs : n \in 1..spent'.txs
    BY <1>4, <2>1
  <2>3. flying' \subseteq Transaction /\ landed' \subseteq [id : Nat, how : Hows]
        /\ (\A u \in flying' : u.id \in 1..spent'.txs) /\ (\A u \in landed' : u.id \in 1..spent'.txs)
    BY <1>1, <1>2, <1>5, <2>1, <2>2 DEF OnLedgerTyped
  <2>4. OnLedgerTyped'
    BY <1>5, <2>3 DEF OnLedgerTyped
  <2> QED BY <1>1, <1>4, <1>7, <2>4 DEF Typed, ReportOK, x402
<1>9. HonestReport' /\ Declined'
  <2>1. HonestReport'
    BY <1>1, <1>6, <1>7 DEF HonestReport, ReportOK, Known
  <2>2. Declined'
    BY <1>1, <1>2, <1>5, <1>7 DEF Declined, ReportOK
  <2> QED BY <2>1, <2>2
<1>10. Authorized'
  BY <1>1, <1>4, <1>7 DEF Authorized, x402, HasRetry
<1>11. JobOK(job, account, OnLedger)'
  BY <1>7 DEF JobOK, HonestJob, Known, Routed, Ready, Informed, Prepared, Declinable, Trusted, CapKept
<1>12. \A u \in landed' \ landed : u.how = "decline-all" => PaidByCode(account.held, account'.held)
  BY <1>2, <1>5
<1> QED BY <1>8, <1>9, <1>10, <1>11, <1>12 DEF IInv

------------------------------------------------------------------------------
(* Everything that happens beside a command.                                  *)

\* Others move the ledger on: what the command has learnt stays true.
LEMMA BesideStep ==
    ASSUME IInv, job' = job, report' = report, files' = files, wallet' \in WalletState,
           OnLedgerTyped', Newer(account, account'), landed \subseteq landed', flying' \subseteq flying,
           signed' \cup settled' \subseteq signed \cup settled,
           spent' \in Spent, spent'.commands = spent.commands
    PROVE  IInv'
<1>1. Typed /\ OnLedgerTyped /\ JobOK(job, account, OnLedger) /\ HonestReport /\ Authorized /\ Declined
  BY DEF IInv, Typed
<1>2. OnLedger \subseteq OnLedger'
  BY DEF OnLedger
<1>3. JobOK(job, account', OnLedger')
  BY <1>1, <1>2, StaysOK DEF OnLedgerTyped
<1>4. JobOK(job, account, OnLedger)'
  BY <1>3 DEF JobOK, HonestJob, Known, Routed, Ready, Informed, Prepared, Declinable, Trusted, CapKept
<1>5. Typed'
  BY <1>1 DEF Typed
<1>6. HonestReport' /\ Declined'
  BY <1>1, <1>2 DEF HonestReport, Declined, Known
<1>7. Authorized'
  BY <1>1 DEF Authorized, HasRetry
<1> QED BY <1>4, <1>5, <1>6, <1>7 DEF IInv

\* Starting a command keeps the invariant.
LEMMA StartKeeps == ASSUME IInv, Start PROVE IInv'
<1>1. /\ Typed /\ OnLedgerTyped /\ HonestReport /\ Authorized /\ Declined /\ job' \in Commands /\ Spend("commands")
      /\ UNCHANGED <<ledger, wallet, x402, report, files>>
  BY DEF IInv, Typed, Start
<1>2. spent' \in Spent /\ spent'.txs = spent.txs /\ spent'.commands = spent.commands + 1 /\ spent.commands \in Nat
  BY <1>1, SpentSteps DEF Typed, Spent
<1>3. JobOK(job', account', OnLedger')
  BY <1>1, CommandsBegun, BegunOK
<1>4. JobOK(job, account, OnLedger)'
  BY <1>3 DEF JobOK, HonestJob, Known, Routed, Ready, Informed, Prepared, Declinable, Trusted, CapKept
<1>5. Typed'
  BY <1>1, <1>2 DEF Typed, OnLedgerTyped, ledger, x402
<1>6. HonestReport' /\ Declined'
  BY <1>1 DEF HonestReport, Declined, Known, OnLedger, ledger
<1>7. Authorized'
  <2>1. \A a \in signed \cup settled : a.command \in Nat /\ a.command # spent'.commands /\ a.command <= spent'.commands
    BY <1>1, <1>2 DEF Authorized, Typed, Authorization
  <2> QED BY <1>1, <2>1 DEF Authorized, x402
<1> QED BY <1>4, <1>5, <1>6, <1>7 DEF IInv

\* A transaction that lands late keeps the invariant, and a batch the holdings.
LEMMA LandKeeps ==
    ASSUME IInv, NEW t \in flying, Land(t)
    PROVE  IInv' /\ \A u \in landed' \ landed : u.how = "decline-all" => PaidByCode(account.held, account'.held)
<1>1. /\ Typed /\ OnLedgerTyped /\ Declined /\ t \in Transaction /\ t.id \in 1..spent.txs
      /\ UNCHANGED <<wallet, x402, job, report, files, spent>> /\ flying' = flying \ {t}
  BY DEF IInv, Typed, OnLedgerTyped, Land
<1> DEFINE line == [id |-> t.id, how |-> t.how]
<1>2. /\ account' \in AccountType /\ claims' \subseteq Claims /\ Newer(account, account')
      /\ landed \subseteq landed' /\ landed' \subseteq landed \cup {line}
      /\ Paired(t.ops) => PaidByCode(account.held, account'.held)
  BY <1>1, IncludeStep DEF Land
<1>3. line \in [id : Nat, how : Hows] /\ line.id \in 1..spent.txs /\ line.how = t.how
  BY <1>1 DEF Transaction
<1> HIDE DEF line
<1>4. OnLedgerTyped'
  BY <1>1, <1>2, <1>3 DEF OnLedgerTyped
<1>5. IInv'
  BY <1>1, <1>2, <1>4, BesideStep DEF Typed, x402
<1>6. \A u \in landed' \ landed : u.how = "decline-all" => PaidByCode(account.held, account'.held)
  BY <1>1, <1>2, <1>3 DEF Declined
<1> QED BY <1>5, <1>6

\* What others do to the account keeps the invariant.
LEMMA OutsideKeeps == ASSUME IInv, Outside PROVE IInv' /\ landed' = landed
<1>1. /\ Typed /\ OnLedgerTyped /\ account \in AccountType /\ Spend("outside")
      /\ UNCHANGED <<flying, landed, x402, job, report, files>>
  BY DEF IInv, Typed, OnLedgerTyped, Outside
<1>2. spent' \in Spent /\ spent'.txs = spent.txs /\ spent'.commands = spent.commands
  BY <1>1, SpentSteps DEF Typed
<1>3. account' \in AccountType /\ Newer(account, account') /\ claims' \subseteq Claims /\ wallet' \in WalletState
  <2>1. CASE (\E c \in Claims : claims' = Toggle(claims, c)) /\ UNCHANGED <<account, wallet>>
    BY <1>1, <2>1 DEF Typed, OnLedgerTyped, Newer, AccountType, Toggle
  <2>2. CASE /\ \E a \in Issued : account' = [account EXCEPT !.seq = @ + 1, !.trusts = Toggle(@, a)]
             /\ UNCHANGED <<claims, wallet>>
    <3>1. PICK a \in Issued : account' = [account EXCEPT !.seq = @ + 1, !.trusts = Toggle(@, a)]
      BY <2>2
    <3>2. account.seq + 1 \in Nat /\ account.seq + 1 > account.seq /\ Toggle(account.trusts, a) \in SUBSET Issued
      BY <1>1 DEF AccountType, Toggle
    <3>3. account' \in AccountType /\ account'.seq = account.seq + 1
      BY <1>1, <3>1, <3>2 DEF AccountType
    <3> QED BY <1>1, <2>2, <3>2, <3>3 DEF Newer, Typed, OnLedgerTyped
  <2>4. CASE /\ \E c \in Claims :
                  account' \in {[account EXCEPT !.ready = Toggle(@, c)], [account EXCEPT !.returnable = Toggle(@, c)]}
             /\ UNCHANGED <<claims, wallet>>
    <3>1. PICK c \in Claims :
             account' \in {[account EXCEPT !.ready = Toggle(@, c)], [account EXCEPT !.returnable = Toggle(@, c)]}
      BY <2>4
    <3>2. Toggle(account.ready, c) \in SUBSET Claims /\ Toggle(account.returnable, c) \in SUBSET Claims
      BY <1>1 DEF AccountType, Toggle
    <3>3. account' \in AccountType /\ account'.seq = account.seq /\ account'.trusts = account.trusts
      BY <1>1, <3>1, <3>2 DEF AccountType
    <3> QED BY <1>1, <2>4, <3>3 DEF Newer, Typed, OnLedgerTyped
  <2>3. CASE wallet' = (IF wallet = "key" THEN "locked" ELSE wallet) /\ UNCHANGED <<account, claims>>
    BY <1>1, <2>3, Constants DEF Typed, OnLedgerTyped, Newer, AccountType
  <2> QED BY <2>1, <2>2, <2>3, <2>4 DEF Outside
<1>4. OnLedgerTyped'
  BY <1>1, <1>2, <1>3 DEF OnLedgerTyped
<1>5. IInv'
  BY <1>1, <1>2, <1>3, <1>4, BesideStep DEF x402
<1> QED BY <1>1, <1>5

\* An authorization that is settled or expires keeps the invariant.
LEMMA SettleKeeps ==
    ASSUME IInv, NEW auth \in signed, SettleX402(auth) \/ ExpireX402(auth)
    PROVE  IInv' /\ landed' = landed
<1>1. Typed /\ OnLedgerTyped /\ account \in AccountType /\ auth \in Authorization
  BY DEF IInv, Typed, OnLedgerTyped
<1>2. /\ UNCHANGED <<claims, flying, landed, wallet, job, report, files, spent>>
      /\ signed' \cup settled' \subseteq signed \cup settled
      /\ account' \in AccountType /\ Newer(account, account')
  <2>1. CASE SettleX402(auth)
    <3>1. Native \in Assets /\ account.held[Native] >= auth.price /\ auth.price \in Nat
          /\ account' = [account EXCEPT !.held[Native] = @ - auth.price]
      BY <1>1, <2>1, Constants DEF SettleX402, Authorization
    <3>2. account.held \in [Assets -> Nat] /\ account.held[Native] - auth.price \in Nat
      BY <1>1, <3>1 DEF AccountType
    <3>3. account' \in AccountType /\ account'.seq = account.seq /\ account'.trusts = account.trusts
      BY <1>1, <3>1, <3>2 DEF AccountType
    <3> QED BY <2>1, <3>3 DEF SettleX402, Newer
  <2>2. CASE ExpireX402(auth)
    BY <1>1, <2>2 DEF ExpireX402, ledger, Newer
  <2> QED BY <2>1, <2>2
<1>3. OnLedgerTyped'
  BY <1>1, <1>2 DEF OnLedgerTyped
<1>4. IInv'
  BY <1>1, <1>2, <1>3, BesideStep DEF Typed
<1> QED BY <1>2, <1>4

\* A transaction that expires keeps the invariant.
LEMMA ExpireKeeps == ASSUME IInv, NEW t \in flying, Expire(t) PROVE IInv' /\ landed' = landed
<1>1. Typed /\ OnLedgerTyped /\ account \in AccountType
  BY DEF IInv, Typed, OnLedgerTyped
<1>2. /\ UNCHANGED <<account, claims, landed, wallet, x402, job, report, files, spent>> /\ flying' \subseteq flying
  BY DEF Expire
<1>3. OnLedgerTyped' /\ Newer(account, account')
  BY <1>1, <1>2 DEF OnLedgerTyped, Newer
<1>4. IInv'
  BY <1>1, <1>2, <1>3, BesideStep DEF Typed, x402
<1> QED BY <1>2, <1>4

------------------------------------------------------------------------------
(* The theorems.                                                              *)

\* The initial states satisfy the invariant.
LEMMA InitIInv == Init => IInv
<1> SUFFICES ASSUME Init PROVE IInv
  OBVIOUS
<1>1. account \in AccountType
  BY Constants DEF Init, AccountType
<1>2. OnLedgerTyped /\ OnLedger = {}
  BY <1>1 DEF Init, OnLedgerTyped, OnLedger
<1>3. Typed
  BY <1>2, Constants DEF Init, Typed, Report, Results, Hows, OtherHows, Files, Spent
<1>4. JobOK(job, account, OnLedger)
  BY FreshOK DEF Init
<1>5. HonestReport /\ Declined
  BY DEF Init, HonestReport, Declined, Known
<1>6. Authorized
  BY DEF Init, Authorized
<1> QED BY <1>3, <1>4, <1>5, <1>6 DEF IInv

\* Every step keeps the invariant, and lands batches only with the holdings unchanged.
LEMMA NextKeeps ==
    ASSUME IInv, [Next]_vars
    PROVE  IInv' /\ \A t \in landed' \ landed : t.how = "decline-all" => PaidByCode(account.held, account'.held)
<1>1. CASE Start
  BY <1>1, StartKeeps DEF Start, ledger
<1>2. CASE Step
  <2>1. CASE SubmitTransaction
    BY <1>2, <2>1, SubmitKeeps DEF Step
  <2>2. CASE LoadKey \/ AccountDetail \/ ListClaimableBalances \/ SkipUntrusted \/ Decide \/ MakeUpHash \/ SaveState
    <3>1. landed' = landed
      BY <2>2 DEF LoadKey, AccountDetail, ListClaimableBalances, SkipUntrusted, Decide, MakeUpHash, SaveState, ledger
    <3> QED BY <1>2, <2>2, <3>1, LoadKeyKeeps, AccountDetailKeeps, ListKeeps, SkipUntrustedKeeps, DecideKeeps,
               MakeUpHashKeeps, SaveStateKeeps DEF Step
  <2>3. CASE FirstRequest \/ WithinCap \/ BuildTransferTransaction \/ PaidRetry \/ CallFails
    <3>1. landed' = landed
      BY <2>3 DEF FirstRequest, WithinCap, BuildTransferTransaction, PaidRetry, CallFails, ledger
    <3> QED BY <1>2, <2>3, <3>1, FirstRequestKeeps, WithinCapKeeps, BuildTransferKeeps, PaidRetryKeeps, CallFailsKeeps
               DEF Step
  <2> QED BY <1>2, <2>1, <2>2, <2>3 DEF Step
<1>3. CASE Settle
  <2>1. CASE \E t \in flying : Land(t)
    BY <2>1, LandKeeps
  <2>2. CASE \E t \in flying : Expire(t)
    BY <2>2, ExpireKeeps
  <2>3. CASE \E auth \in signed : SettleX402(auth) \/ ExpireX402(auth)
    BY <2>3, SettleKeeps
  <2> QED BY <1>3, <2>1, <2>2, <2>3 DEF Settle
<1>4. CASE Outside
  BY <1>4, OutsideKeeps
<1>5. CASE UNCHANGED vars
  <2>1. UNCHANGED <<account, claims, flying, landed, wallet, signed, settled, job, report, files, spent>>
    BY <1>5 DEF vars, ledger, x402
  <2>2. /\ Typed /\ OnLedgerTyped /\ account \in AccountType
    BY DEF IInv, Typed, OnLedgerTyped
  <2>3. OnLedgerTyped' /\ Newer(account, account')
    BY <2>1, <2>2 DEF OnLedgerTyped, Newer
  <2>4. IInv'
    BY <2>1, <2>2, <2>3, BesideStep DEF Typed
  <2> QED BY <2>1, <2>4
<1> QED BY <1>1, <1>2, <1>3, <1>4, <1>5 DEF Next

\* The inductive invariant holds in every reachable state.
THEOREM Invariance == Spec => []IInv
<1>1. Init => IInv
  BY InitIInv
<1>2. IInv /\ [Next]_vars => IInv'
  BY NextKeeps
<1> QED BY <1>1, <1>2, PTL DEF Spec

\* What a command reports is so: a hash it did not make up belongs to a
\* transaction the ledger has carried out, a locked wallet's payment is not
\* simulated, and a batch of declines is refused only when the ledger moved on.
THEOREM ReportsTrueProved == Spec => []ReportsTrue
<1>1. IInv => ReportsTrue
  <2> SUFFICES ASSUME IInv PROVE ReportsTrue
    OBVIOUS
  <2>1. Typed /\ OnLedgerTyped /\ HonestReport /\ Declined
    BY DEF IInv, Typed
  <2>2. /\ account.held \in [Assets -> Nat] /\ account.trusts \subseteq Issued /\ account.seq \in Nat
        /\ account.ready \subseteq Claims /\ account.returnable \subseteq Claims
    BY <2>1 DEF OnLedgerTyped, AccountType
  <2>3. OnLedger \subseteq 1..spent.txs /\ \A t \in flying : t.id \in 1..spent.txs /\ t.seq \in Nat
    BY <2>1 DEF OnLedgerTyped, OnLedger, Transaction
  <2>4. TypeOK
    BY <2>1, <2>2, <2>3 DEF TypeOK, Typed, OnLedgerTyped, Files
  <2>5. ConfirmedIsOnLedger /\ LockedNeverSimulated
    BY <2>1 DEF HonestReport, Known, ConfirmedIsOnLedger, LockedNeverSimulated
  <2>6. DeclinesWhatItCan
    BY <2>1 DEF Declined, DeclinesWhatItCan
  <2> QED BY <2>4, <2>5, <2>6 DEF ReportsTrue
<1> QED BY <1>1, Invariance, PTL

\* However a resource server answers, one fetch pays at most once, never in a
\* dry run and never more than the cap.
THEOREM OnePayment == Spec => []OnePaymentPerFetch
<1>1. IInv => OnePaymentPerFetch
  BY DEF IInv, Authorized, OnePaymentPerFetch
<1> QED BY <1>1, Invariance, PTL

\* Whenever a batch of declines lands, at once or after its answer was lost, the
\* account holds what it held before, but for lumens spent in place of assets that
\* are called XLM as well.
THEOREM DeclinePaysByCodeProved == Spec => DeclinePaysByCode
<1>1. IInv /\ [Next]_vars
         => [\A t \in landed' \ landed : t.how = "decline-all" => PaidByCode(account.held, account'.held)]_vars
  BY NextKeeps
<1> QED BY <1>1, Invariance, PTL DEF Spec, DeclinePaysByCode

\* Where no asset is called XLM but the lumens, every declined claim goes back.
THEOREM DeclineReturnsOtherwise == Namesakes = {} => (Spec => DeclineReturns)
<1> SUFFICES ASSUME Namesakes = {} PROVE Spec => DeclineReturns
  OBVIOUS
<1>1. ASSUME NEW h \in [Assets -> Nat], NEW k \in [Assets -> Nat], PaidByCode(h, k) PROVE k = h
  <2>1. \A a \in Assets : h[a] \in Nat /\ k[a] \in Nat
    OBVIOUS
  <2>2. \A a \in Assets : k[a] = h[a]
    BY <1>1, <2>1 DEF PaidByCode, Assets
  <2> QED BY <2>2
<1>2. IInv /\ IInv' /\ [Next]_vars
         => [\A t \in landed' \ landed : t.how = "decline-all" => account'.held = account.held]_vars
  <2> SUFFICES ASSUME IInv, IInv', [Next]_vars, NEW t \in landed' \ landed, t.how = "decline-all"
               PROVE  account'.held = account.held
    OBVIOUS
  <2>1. PaidByCode(account.held, account'.held)
    BY NextKeeps
  <2>2. account.held \in [Assets -> Nat] /\ account'.held \in [Assets -> Nat]
    BY DEF IInv, Typed, OnLedgerTyped, AccountType
  <2> QED BY <1>1, <2>1, <2>2
<1> QED BY <1>2, Invariance, PTL DEF Spec, DeclineReturns

================================================================================

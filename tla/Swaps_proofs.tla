----------------------------- MODULE Swaps_proofs -----------------------------
(* Proofs about swaps and arbitrage, for any assets, amounts, prices, routes  *)
(* and bounds.                                                                *)
(*                                                                            *)
(* A command is a list of steps, and there are many commands; but what a step *)
(* may do depends only on where the attempt is (State): how many quotes it    *)
(* has, and how far a round trip has come.  Leads is the table of the steps,  *)
(* and every command is a path through it that ends flat (CommandsAre).  The  *)
(* invariant speaks of the stage the job is at: what the balances, what the   *)
(* account should hold and what the job remembers say of each other there     *)
(* (Balanced), and that its transactions were carried out, but for one it     *)
(* still waits for (Settling).  Each step is shown to lead from one stage to  *)
(* the next.  The proofs about the chat, which quotes and orders swaps, are   *)
(* at the end.                                                                *)
EXTENDS Swaps, FiniteSetTheorems, SequenceTheorems, NaturalsInduction, WellFoundedInduction, TLAPS

------------------------------------------------------------------------------
(* Where an attempt is.  What its steps may do depends on how many quotes it  *)
(* has and, in a round trip, on what it knows of the balance it trades.       *)

Hows    == {"swap", "zk", "quote", "quoted", "atomic", "arbitrage", "simulated"}
Ways    == {"send", "receive"}
\* What an attempt is for.
By == {b \in [how : Hows, c : Assets, slip : Nat, to : Destinations, kind : Ways] :
        /\ b.how \notin {"swap", "zk"} => b.kind = "send"
        /\ b.slip <= (IF b.how = "quoted" THEN 1 ELSE Slippage)
        /\ b.how \in {"atomic", "arbitrage"} => b.c \in Counters}
\* The steps of the commands.
Plain == {"account", "save", "forget", "before", "after", "cycle"} \cup Tests \cup Chances
Steps == [do : Plain] \cup [do : {"quote"}, leg : Legs, of : {"amount", "quoted", "received"}]
    \cup [do : {"send"}, quote : 1..3]
\* The two legs of a round trip.
Pair(c) == {<<Base, c>>, <<c, Base>>}

\* flat: nothing bought; known: the balance is read; bought: leg A is done;
\* measured: what arrived is known; priced: and quoted.
Phases == {"flat", "known", "bought", "measured", "priced"}
State  == [at : Phases, n : Nat]
At(phase, n) == [at |-> phase, n |-> n]
Looks  == {"account", "save"} \cup Tests \cup Chances

\* The step s of a command by b leads from x to y.
Asks(b, x, s, y) ==
    /\ s.do = "quote" /\ s.leg \in Legs
    /\ \/ /\ s.of = "amount" \/ (s.of = "quoted" /\ x.n >= 1)
          /\ b.how = "arbitrage" => s.leg \in Pair(b.c)
          /\ x.at = "flat" /\ y = At("flat", x.n + 1)
       \/ /\ s.of = "received" /\ b.how = "arbitrage" /\ s.leg = <<b.c, Base>>
          /\ x = At("measured", 2) /\ y = At("priced", 3)
\* Two sends of a round trip in two transactions, each at its stage.
Trades(b, x, s, y) ==
    \/ s.do = "send" /\ b.how \in {"swap", "zk", "quoted"} /\ s.quote \in 1..x.n /\ y = x
    \/ s.do = "send" /\ b.how = "arbitrage" /\ s.quote = 1 /\ x = At("known", 2) /\ y = At("bought", 2)
    \/ s.do = "send" /\ b.how = "arbitrage" /\ s.quote = 3 /\ x = At("priced", 3) /\ y = At("flat", 3)
    \/ s.do = "cycle" /\ b.how = "atomic" /\ y = x
Leads(b, x, s, y) ==
    \/ Asks(b, x, s, y) \/ Trades(b, x, s, y)
    \/ s.do \in Looks /\ y = x
    \/ s.do = "forget" /\ x.at = "flat" /\ y = At("flat", 0)
    \/ s.do = "before" /\ b.how = "arbitrage" /\ x.at = "flat" /\ y = At("known", x.n)
    \/ s.do = "after" /\ b.how = "arbitrage" /\ x = At("bought", 2) /\ y = At("measured", 2)
\* The list s leads from x to y.
Accepts(b, s, x, y) ==
    /\ s \in Seq(Steps)
    /\ \E r \in [1..(Len(s) + 1) -> State] :
          r[1] = x /\ r[Len(s) + 1] = y /\ \A i \in 1..Len(s) : Leads(b, r[i], s[i], r[i + 1])

\* A list whose steps end flat, and the attempts that have one.
Goes(b, s, x) == \E y \in State : y.at = "flat" /\ Accepts(b, s, x, y)
Attempts == {a \in [by : By, steps : Seq(Steps)] : a.steps # <<>> /\ Goes(a.by, a.steps, At("flat", 0))}

------------------------------------------------------------------------------
(* The inductive invariant.                                                   *)

\* What is submitted keeps the limits of its kind.
Txs == [id : Nat, seq : Nat, how : Hows, to : Destinations, c : Assets, kind : Ways \cup {"cycle"},
        leg : Assets \X Assets, amount : Nat, direct : BOOLEAN, shown : Nat, quoted : Nat,
        allowed : Nat, limit : Nat]
Sound(t) ==
    /\ t \in Txs
    /\ t.kind = "cycle" => /\ t.leg = <<Base, Base>> /\ t.c \in Counters /\ t.how = "atomic"
                           /\ t.amount = Amount /\ t.limit = Amount + MinProfit + Fee
    /\ ~t.direct => t.quoted = t.shown
    /\ t.kind # "cycle" => /\ t.leg \in Legs /\ t.allowed <= Tolerance(t)
                           /\ t.limit = ApplySlippage(t.quoted, t.allowed, t.kind = "receive")
Quotes == {q \in [leg : Legs, in : Nat, out : Nat, hops : Nat, detour : Nat] : q.hops = Hops[q.leg]}
\* The transactions so far, and those without an answer.
Ids == 1..spent.txs
Flown == {t.id : t \in flying}

\* The types of what is stored, and the payment saved is one that was carried out.
Stored ==
    /\ bal \in [Assets -> Int] /\ kept \in [Assets -> Int] /\ seqNo \in Nat
    /\ premium \in [Legs -> Premiums] /\ detour \in [Legs -> Detours] /\ excused \in BOOLEAN
    /\ spent \in [commands : Nat, moves : Nat, deposits : Nat, faults : Nat, txs : Nat]
    /\ landed \subseteq Ids /\ failed \subseteq Ids \ landed /\ saved \in landed \cup {None, Simulated}
\* What is on its way was not carried out yet; without a reported failure it is
\* a cycle, which changes no counter asset.
OnTheWay ==
    /\ \A t \in flying : Sound(t) /\ t.id \in Ids /\ t.id \notin landed \cup failed
    /\ \A t, u \in flying : t.id = u.id => t = u
    /\ ~excused => \A t \in flying : t.kind = "cycle"
\* How the last attempt ended is the truth.
Reported ==
    /\ report.result \in {"not found", "failed"} => report.named \in Ids
    /\ report.result = "done" => report.txs \subseteq landed /\ Cardinality(report.txs) = report.wanted
    /\ TimeoutIsSettled

\* The job as a value; a transaction without an answer is awaited at its head.
Awaiting == [do : {"await"}]
Waits(j) == Head(j.steps).do = "await"
Ahead(j) == IF Waits(j) THEN Tail(j.steps) ELSE j.steps
Jobs == [steps : Seq(Steps \cup Awaiting), by : By, later : Seq(Attempts), wanted : Nat, quotes : Seq(Quotes), seq : Nat,
         counter : Int, got : Nat, txs : SUBSET Nat, now : Nat]
\* Its transactions were carried out, but for the one it waits for.
Settling(j) ==
    /\ IsFiniteSet(j.txs) /\ j.txs \subseteq Ids
    /\ j.now \in j.txs \cup {None}
    /\ IF Waits(j) THEN j.now # None /\ j.txs \ {j.now} \subseteq landed ELSE j.txs \subseteq landed
    /\ Cardinality(j.txs) + Sends(Ahead(j)) = j.wanted

\* What account and copy say of each other in state x.
Flat(c) == bal[c] <= kept[c]
AllFlat == \A c \in Counters : Flat(c)
Elsewhere(c) == \A d \in Counters \ {c} : Flat(d)
Balanced(j, x) ==
    CASE j.by.how = "arbitrage" ->
            /\ x.at = "flat"  => AllFlat
            /\ x.at = "known" => AllFlat /\ j.counter <= kept[j.by.c]
            /\ x.at \in {"bought", "measured", "priced"} => j.txs # {} /\ Elsewhere(j.by.c)
            /\ x.at = "bought" => j.counter <= kept[j.by.c]
            /\ x.at \in {"measured", "priced"} => bal[j.by.c] <= kept[j.by.c] + j.got
      [] j.by.how = "quoted" -> j.txs = {} => AllFlat
      [] OTHER -> AllFlat
Remembers(j, x) ==
    /\ Len(j.quotes) = x.n /\ Goes(j.by, Ahead(j), x)
    /\ j.by.how = "arbitrage" => \A i \in 1..x.n : j.quotes[i].leg \in Pair(j.by.c)
    /\ x.at = "priced" => j.quotes[3].leg = <<j.by.c, Base>> /\ j.quotes[3].in = j.got
\* A job under way, and the one that has not begun.
Under(j) ==
    /\ j \in Jobs /\ j.steps # <<>> /\ Settling(j)
    /\ \E x \in State : Remembers(j, x) /\ (~excused => Balanced(j, x))
Started(j) == IF j.steps = <<>> THEN j = Fresh /\ (~excused => AllFlat) ELSE Under(j)
Running == \E j : j = job /\ Started(j)

\* The invariant.
IInv == Stored /\ OnTheWay /\ Reported /\ LimitsHold /\ Running
------------------------------------------------------------------------------
\* A list of one step.
LEMMA One ==
    ASSUME NEW b, NEW a \in Steps, NEW x \in State, NEW y \in State, Leads(b, x, a, y)
    PROVE  Accepts(b, <<a>>, x, y)
<1> DEFINE r == [i \in 1..2 |-> IF i = 1 THEN x ELSE y]
<1>1. r \in [1..2 -> State] /\ r[1] = x /\ r[2] = y
  OBVIOUS
<1>2. <<a>> \in Seq(Steps) /\ Len(<<a>>) = 1 /\ <<a>>[1] = a
  OBVIOUS
<1> HIDE DEF r
<1>3. \A i \in 1..1 : Leads(b, r[i], <<a>>[i], r[i + 1])
  BY <1>1, <1>2
<1> QED BY <1>1, <1>2, <1>3 DEF Accepts

\* No step leads nowhere.
LEMMA Nothing == ASSUME NEW b, NEW x \in State PROVE Accepts(b, <<>>, x, x)
<1> DEFINE r == [i \in 1..1 |-> x]
<1>1. r \in [1..1 -> State] /\ r[1] = x
  OBVIOUS
<1>2. <<>> \in Seq(Steps) /\ Len(<<>>) = 0
  BY EmptySeq
<1> HIDE DEF r
<1> QED BY <1>1, <1>2 DEF Accepts

\* Two lists, one after the other.
LEMMA Join ==
    ASSUME NEW b, NEW s, NEW t, NEW x, NEW y, NEW z, Accepts(b, s, x, y), Accepts(b, t, y, z)
    PROVE  Accepts(b, s \o t, x, z)
<1>1. s \in Seq(Steps) /\ t \in Seq(Steps) /\ Len(s) \in Nat /\ Len(t) \in Nat
  BY LenProperties DEF Accepts
<1>2. PICK r \in [1..(Len(s) + 1) -> State] :
        r[1] = x /\ r[Len(s) + 1] = y /\ \A i \in 1..Len(s) : Leads(b, r[i], s[i], r[i + 1])
  BY DEF Accepts
<1>3. PICK q \in [1..(Len(t) + 1) -> State] :
        q[1] = y /\ q[Len(t) + 1] = z /\ \A i \in 1..Len(t) : Leads(b, q[i], t[i], q[i + 1])
  BY DEF Accepts
<1>4. /\ s \o t \in Seq(Steps) /\ Len(s \o t) = Len(s) + Len(t)
      /\ \A i \in 1..(Len(s) + Len(t)) : (s \o t)[i] = IF i <= Len(s) THEN s[i] ELSE t[i - Len(s)]
  BY <1>1, ConcatProperties
<1> DEFINE u == s \o t
           w == [i \in 1..(Len(s) + Len(t) + 1) |-> IF i <= Len(s) THEN r[i] ELSE q[i - Len(s)]]
<1>5. w \in [1..(Len(s) + Len(t) + 1) -> State]
  <2>1. ASSUME NEW i \in 1..(Len(s) + Len(t) + 1) PROVE (IF i <= Len(s) THEN r[i] ELSE q[i - Len(s)]) \in State
    <3>1. CASE i <= Len(s)
      BY <3>1, <1>1, <1>2, SMTT(30)
    <3>2. CASE ~(i <= Len(s))
      <4>1. i - Len(s) \in 1..(Len(t) + 1)
        BY <3>2, <1>1
      <4> QED BY <3>2, <4>1, <1>3
    <3> QED BY <3>1, <3>2
  <2> QED BY <2>1
<1>6. \A i \in 1..(Len(s) + Len(t) + 1) : w[i] = IF i <= Len(s) THEN r[i] ELSE q[i - Len(s)]
  OBVIOUS
<1> HIDE DEF u, w
<1>7. w[1] = x
  <2>1. CASE Len(s) = 0
    BY <2>1, <1>1, <1>2, <1>3, <1>6
  <2>2. CASE Len(s) > 0
    BY <2>2, <1>1, <1>2, <1>6
  <2> QED BY <2>1, <2>2, <1>1
<1>8. w[Len(s) + Len(t) + 1] = z
  <2>1. ~(Len(s) + Len(t) + 1 <= Len(s)) /\ (Len(s) + Len(t) + 1) - Len(s) = Len(t) + 1
          /\ Len(s) + Len(t) + 1 \in 1..(Len(s) + Len(t) + 1)
    BY <1>1
  <2> QED BY <2>1, <1>3, <1>6
<1>9. ASSUME NEW i \in 1..(Len(s) + Len(t)) PROVE Leads(b, w[i], u[i], w[i + 1])
  <2>1. i \in 1..(Len(s) + Len(t) + 1) /\ i + 1 \in 1..(Len(s) + Len(t) + 1)
    BY <1>1
  <2>2. CASE i < Len(s)
    <3>1. i \in 1..Len(s) /\ i + 1 <= Len(s) /\ i <= Len(s)
      BY <2>2, <1>1
    <3>2. w[i] = r[i] /\ w[i + 1] = r[i + 1] /\ u[i] = s[i]
      BY <3>1, <2>1, <1>4, <1>6 DEF u
    <3> QED BY <3>1, <3>2, <1>2
  <2>3. CASE i = Len(s)
    <3>1. i \in 1..Len(s) /\ ~(i + 1 <= Len(s)) /\ i <= Len(s) /\ (i + 1) - Len(s) = 1
      BY <2>3, <1>1
    <3>2. w[i] = r[i] /\ w[i + 1] = q[1] /\ u[i] = s[i]
      BY <3>1, <2>1, <1>4, <1>6 DEF u
    <3>3. r[i + 1] = q[1]
      BY <2>3, <1>2, <1>3
    <3> QED BY <3>1, <3>2, <3>3, <1>2
  <2>4. CASE i > Len(s)
    <3>1. PICK j \in 1..Len(t) : i = Len(s) + j
      <4>1. i - Len(s) \in 1..Len(t) /\ i = Len(s) + (i - Len(s))
        BY <2>4, <1>1
      <4> QED BY <4>1
    <3>2. ~(i <= Len(s)) /\ ~(i + 1 <= Len(s)) /\ i - Len(s) = j /\ (i + 1) - Len(s) = j + 1
      BY <2>4, <3>1, <1>1
    <3>3. w[i] = q[j] /\ w[i + 1] = q[j + 1] /\ u[i] = t[j]
      BY <3>2, <2>1, <1>4, <1>6 DEF u
    <3> QED BY <3>1, <3>3, <1>3
  <2> QED BY <2>2, <2>3, <2>4, <1>1
<1>10. u \in Seq(Steps) /\ Len(u) = Len(s) + Len(t)
  BY <1>4 DEF u
<1> QED
  <2>1. Accepts(b, u, x, z)
    BY <1>5, <1>7, <1>8, <1>9, <1>10 DEF Accepts
  <2> QED BY <2>1 DEF u

\* What is left of a list after its first step.
LEMMA TailAccepts ==
    ASSUME NEW b, NEW s, s # <<>>, NEW x, NEW y, Accepts(b, s, x, y)
    PROVE  /\ Head(s) \in Steps /\ x \in State
           /\ \E z \in State : Leads(b, x, Head(s), z) /\ Accepts(b, Tail(s), z, y)
<1>1. s \in Seq(Steps) /\ Len(s) \in Nat \ {0}
  BY EmptySeq DEF Accepts
<1>2. PICK r \in [1..(Len(s) + 1) -> State] :
        r[1] = x /\ r[Len(s) + 1] = y /\ \A i \in 1..Len(s) : Leads(b, r[i], s[i], r[i + 1])
  BY DEF Accepts
<1>3. /\ Head(s) \in Steps /\ Head(s) = s[1] /\ Tail(s) \in Seq(Steps) /\ Len(Tail(s)) = Len(s) - 1
      /\ \A i \in 1..Len(Tail(s)) : Tail(s)[i] = s[i + 1]
  BY <1>1, HeadTailProperties
<1> DEFINE u == Tail(s)
           w == [i \in 1..Len(s) |-> r[i + 1]]
<1>4. w \in [1..Len(s) -> State] /\ \A i \in 1..Len(s) : w[i] = r[i + 1]
  <2>1. \A i \in 1..Len(s) : i + 1 \in 1..(Len(s) + 1)
    BY <1>1
  <2> QED BY <2>1, <1>2
<1> HIDE DEF u, w
<1>5. u \in Seq(Steps) /\ Len(u) + 1 = Len(s) /\ Len(u) \in Nat
  BY <1>1, <1>3 DEF u
<1>6. w[1] = r[2] /\ w[Len(u) + 1] = y /\ r[2] \in State
  BY <1>1, <1>2, <1>4, <1>5
<1>7. ASSUME NEW i \in 1..Len(u) PROVE Leads(b, w[i], u[i], w[i + 1])
  <2>1. i \in 1..Len(s) /\ i + 1 \in 1..Len(s)
    BY <1>1, <1>5
  <2>2. w[i] = r[i + 1] /\ w[i + 1] = r[i + 1 + 1] /\ u[i] = s[i + 1]
    BY <2>1, <1>3, <1>4 DEF u
  <2> QED BY <2>1, <2>2, <1>2
<1>8. Accepts(b, u, r[2], y)
  BY <1>4, <1>5, <1>6, <1>7 DEF Accepts
<1>9. Leads(b, x, Head(s), r[2]) /\ x \in State
  <2>1. 1 \in 1..Len(s) /\ 1 \in 1..(Len(s) + 1) /\ 1 + 1 = 2
    BY <1>1
  <2> QED BY <2>1, <1>2, <1>3
<1> QED BY <1>3, <1>6, <1>8, <1>9 DEF u

\* An attempt without steps stays where it is.
LEMMA EmptyAccepts == ASSUME NEW b, NEW x, NEW y, Accepts(b, <<>>, x, y) PROVE x = y
<1>1. Len(<<>>) = 0
  BY EmptySeq
<1> QED BY <1>1 DEF Accepts

------------------------------------------------------------------------------
\* A piece of a command.
Path(b, s, x, y) == Accepts(b, s, x, y) /\ s # <<>>

\* A step by itself.
LEMMA Single ==
    ASSUME NEW b, NEW a \in Steps, NEW x \in State, NEW y \in State, Leads(b, x, a, y)
    PROVE  Path(b, <<a>>, x, y)
BY One DEF Path

\* Two pieces of a command, one after the other.
LEMMA Chain ==
    ASSUME NEW b, NEW s, NEW t, NEW x, NEW y, NEW z, Path(b, s, x, y), Path(b, t, y, z)
    PROVE  Path(b, s \o t, x, z)
<1>1. s \in Seq(Steps) /\ t \in Seq(Steps) /\ s # <<>> /\ t # <<>>
  BY DEF Path, Accepts
<1>2. s \o t # <<>>
  BY <1>1, ConcatSimplifications
<1> QED BY <1>2, Join DEF Path

\* States are well formed.
LEMMA StateOf == ASSUME NEW p \in Phases, NEW n \in Nat PROVE At(p, n) \in State /\ At(p, n).at = p
    /\ At(p, n).n = n
BY DEF At, State

\* Both directions of a counter asset are legs.
LEMMA LegsOf == \A c \in Counters : <<Base, c>> \in Legs /\ <<c, Base>> \in Legs /\ c \in Assets /\ c # Base
BY SwapAssumptions DEF Legs, Assets

\* A step that only looks can stand anywhere.
LEMMA Look ==
    ASSUME NEW b, NEW step \in Looks, NEW x \in State
    PROVE  Path(b, Do(step), x, x)
<1> DEFINE a == [do |-> step]
<1>1. a \in Steps /\ a.do = step
  BY DEF Steps, Plain, Looks
<1>2. Leads(b, x, a, x)
  BY <1>1 DEF Leads
<1> QED BY <1>1, <1>2, Single DEF Do

\* Quotes are forgotten before anything is bought.
LEMMA Forgets ==
    ASSUME NEW b, NEW n \in Nat
    PROVE  Path(b, Do("forget"), At("flat", n), At("flat", 0))
<1> DEFINE a == [do |-> "forget"]
<1>1. a \in Steps /\ a.do = "forget"
  BY DEF Steps, Plain
<1>2. At("flat", n) \in State /\ At("flat", 0) \in State /\ At("flat", n).at = "flat"
  BY StateOf DEF Phases
<1>3. Leads(b, At("flat", n), a, At("flat", 0))
  BY <1>1, <1>2 DEF Leads
<1> QED BY <1>2, <1>1, <1>3, Single DEF Do

\* A round trip reads the balance before leg A and after it.
LEMMA Measures ==
    ASSUME NEW b, b.how = "arbitrage"
    PROVE  /\ Path(b, Do("before"), At("flat", 2), At("known", 2))
           /\ Path(b, Do("after"), At("bought", 2), At("measured", 2))
<1>1. /\ At("flat", 2) \in State /\ At("known", 2) \in State /\ At("flat", 2).at = "flat" /\ At("flat", 2).n = 2
      /\ At("bought", 2) \in State /\ At("measured", 2) \in State
  BY StateOf DEF Phases
<1>2. [do |-> "before"] \in Steps /\ [do |-> "after"] \in Steps
  BY DEF Steps, Plain
<1>3. Leads(b, At("flat", 2), [do |-> "before"], At("known", 2))
  BY <1>1 DEF Leads
<1>4. Leads(b, At("bought", 2), [do |-> "after"], At("measured", 2))
  BY <1>1 DEF Leads
<1> QED BY <1>1, <1>2, <1>3, <1>4, Single DEF Do

\* A quote for the amount of the command, or for what was quoted last.
LEMMA Asking ==
    ASSUME NEW b, NEW n \in Nat, NEW m \in Nat, m = n + 1, NEW from, NEW to, <<from, to>> \in Legs,
           b.how = "arbitrage" => <<from, to>> \in Pair(b.c)
    PROVE  /\ Path(b, Quote(from, to, "amount"), At("flat", n), At("flat", m))
           /\ n >= 1 => Path(b, Quote(from, to, "quoted"), At("flat", n), At("flat", m))
<1>1. At("flat", n) \in State /\ At("flat", m) \in State /\ At("flat", n).at = "flat" /\ At("flat", n).n = n
  BY StateOf DEF Phases
<1>2. ASSUME NEW of \in {"amount", "quoted"}, of = "quoted" => n >= 1
      PROVE  Path(b, Quote(from, to, of), At("flat", n), At("flat", m))
  <2> DEFINE a == [do |-> "quote", leg |-> <<from, to>>, of |-> of]
  <2>1. a \in Steps /\ a.do = "quote" /\ a.leg = <<from, to>> /\ a.of = of
    BY <1>2 DEF Steps
  <2> HIDE DEF a
  <2>2. Asks(b, At("flat", n), a, At("flat", m))
    BY <1>1, <1>2, <2>1 DEF Asks
  <2>3. Path(b, <<a>>, At("flat", n), At("flat", m))
    BY <1>1, <2>1, <2>2, Single DEF Leads
  <2> QED BY <2>3 DEF Quote, a
<1> QED BY <1>2

\* The quote for what leg A brought.
LEMMA AskingAgain ==
    ASSUME NEW b, b.how = "arbitrage", b.c \in Counters
    PROVE  Path(b, Quote(b.c, Base, "received"), At("measured", 2), At("priced", 3))
<1>1. At("measured", 2) \in State /\ At("priced", 3) \in State
  BY StateOf DEF Phases
<1> DEFINE a == [do |-> "quote", leg |-> <<b.c, Base>>, of |-> "received"]
<1>2. a \in Steps /\ a.do = "quote" /\ a.leg = <<b.c, Base>> /\ a.of = "received" /\ a.leg \in Legs
  BY LegsOf DEF Steps
<1> HIDE DEF a
<1>3. Asks(b, At("measured", 2), a, At("priced", 3))
  BY <1>2 DEF Asks
<1>4. Path(b, <<a>>, At("measured", 2), At("priced", 3))
  BY <1>1, <1>2, <1>3, Single DEF Leads
<1> QED BY <1>4 DEF Quote, a

\* A swap of a quote.
LEMMA Sending ==
    ASSUME NEW b, NEW x \in State, NEW y \in State, NEW i \in 1..3,
           \/ b.how \in {"swap", "zk", "quoted"} /\ i \in 1..x.n /\ y = x
           \/ b.how = "arbitrage" /\ i = 1 /\ x = At("known", 2) /\ y = At("bought", 2)
           \/ b.how = "arbitrage" /\ i = 3 /\ x = At("priced", 3) /\ y = At("flat", 3)
    PROVE  Path(b, ExecuteSwap(i), x, y)
<1>1. Path(b, Do("account"), x, x)
  BY Look DEF Looks
<1> DEFINE a == [do |-> "send", quote |-> i]
<1>2. a \in Steps /\ a.do = "send" /\ a.quote = i
  BY DEF Steps
<1> HIDE DEF a
<1>3. Trades(b, x, a, y)
  BY <1>2 DEF Trades
<1>4. Path(b, <<a>>, x, y)
  BY <1>2, <1>3, Single DEF Leads
<1> QED BY <1>1, <1>4, Chain DEF ExecuteSwap, a

\* A round trip in one transaction.
LEMMA Cycling ==
    ASSUME NEW b, b.how = "atomic", NEW x \in State
    PROVE  Path(b, Do("cycle"), x, x)
<1> DEFINE a == [do |-> "cycle"]
<1>1. a \in Steps /\ a.do = "cycle"
  BY DEF Steps, Plain
<1>2. Leads(b, x, a, x)
  BY <1>1 DEF Leads, Trades
<1> QED BY <1>1, <1>2, Single DEF Do

\* The quotes of a round trip.
LEMMA RoundTrips ==
    ASSUME NEW b, NEW n \in Nat, NEW m \in Nat, m = n + 2, NEW c \in Counters, b.how = "arbitrage" => c = b.c
    PROVE  Path(b, ThereAndBack(c), At("flat", n), At("flat", m))
<1>1. b.how = "arbitrage" => <<Base, c>> \in Pair(b.c) /\ <<c, Base>> \in Pair(b.c)
  BY DEF Pair
<1>2. Path(b, Quote(Base, c, "amount"), At("flat", n), At("flat", n + 1))
  BY <1>1, LegsOf, Asking
<1>3. Path(b, Quote(c, Base, "quoted"), At("flat", n + 1), At("flat", m))
  <2>1. n + 1 \in Nat /\ n + 1 >= 1 /\ m = (n + 1) + 1
    OBVIOUS
  <2> QED BY <1>1, <2>1, LegsOf, Asking
<1> QED BY <1>2, <1>3, Chain DEF ThereAndBack
------------------------------------------------------------------------------
\* A list of steps that ends flat is an attempt of a command.
LEMMA AttemptIs ==
    ASSUME NEW how \in Hows, NEW c \in Assets, NEW slip \in Nat, NEW to \in Destinations, NEW kind \in Ways,
           how \notin {"swap", "zk"} => kind = "send",
           slip <= (IF how = "quoted" THEN 1 ELSE Slippage),
           how \in {"atomic", "arbitrage"} => c \in Counters,
           NEW s, NEW n \in Nat,
           \A b \in By : b.how = how /\ b.c = c => Path(b, s, At("flat", 0), At("flat", n))
    PROVE  Attempt(how, c, slip, to, kind, s) \in Attempts
<1> DEFINE b == [how |-> how, c |-> c, slip |-> slip, to |-> to, kind |-> kind]
<1>1. b \in By /\ b.how = how /\ b.c = c
  BY DEF By
<1> HIDE DEF b
<1>2. Accepts(b, s, At("flat", 0), At("flat", n)) /\ s # <<>> /\ s \in Seq(Steps)
  BY <1>1 DEF Path, Accepts
<1>3. At("flat", n) \in State /\ At("flat", n).at = "flat"
  BY StateOf DEF Phases
<1>4. Goes(b, s, At("flat", 0))
  BY <1>2, <1>3 DEF Goes
<1>5. [by |-> b, steps |-> s] \in Attempts
  BY <1>1, <1>2, <1>4 DEF Attempts
<1> QED BY <1>5 DEF b, Attempt

\* swap execute is such a list.
LEMMA SwapIs ==
    ASSUME NEW leg \in Legs, NEW to \in Destinations, NEW kind \in Ways
    PROVE  Attempt("swap", leg[2], Slippage, to, kind,
                   Quote(leg[1], leg[2], "amount") \o Do("confirm") \o ExecuteSwap(1) \o Do("save")) \in Attempts
<1>1. leg = <<leg[1], leg[2]>> /\ leg[2] \in Assets /\ Slippage \in Nat
  BY SwapAssumptions DEF Legs
<1>2. ASSUME NEW b \in By, b.how = "swap"
      PROVE  Path(b, Quote(leg[1], leg[2], "amount") \o Do("confirm") \o ExecuteSwap(1) \o Do("save"),
                  At("flat", 0), At("flat", 1))
  <2>1. At("flat", 1) \in State /\ At("flat", 1).n = 1
    BY StateOf DEF Phases
  <2>2. Path(b, Quote(leg[1], leg[2], "amount"), At("flat", 0), At("flat", 1))
    BY <1>1, <1>2, Asking
  <2>3. Path(b, Do("confirm"), At("flat", 1), At("flat", 1)) /\ Path(b, Do("save"), At("flat", 1), At("flat", 1))
    BY <2>1, Look DEF Looks, Chances
  <2>4. Path(b, ExecuteSwap(1), At("flat", 1), At("flat", 1))
    BY <2>1, <1>2, Sending
  <2>5. Path(b, Quote(leg[1], leg[2], "amount") \o Do("confirm"), At("flat", 0), At("flat", 1))
    BY <2>2, <2>3, Chain
  <2>6. Path(b, Quote(leg[1], leg[2], "amount") \o Do("confirm") \o ExecuteSwap(1), At("flat", 0), At("flat", 1))
    BY <2>4, <2>5, Chain
  <2> QED BY <2>3, <2>6, Chain
<1> QED BY <1>1, <1>2, AttemptIs DEF Hows, Ways

\* So is swap zk,
LEMMA ZKIs ==
    ASSUME NEW leg \in Legs, NEW to \in Destinations, NEW kind \in Ways
    PROVE  Attempt("zk", leg[2], Slippage, to, kind,
                   Do("confirm") \o Quote(leg[1], leg[2], "amount") \o Do("confirm") \o ExecuteZKSwap \o Do("save"))
           \in Attempts
<1>1. leg = <<leg[1], leg[2]>> /\ leg[2] \in Assets /\ Slippage \in Nat
  BY SwapAssumptions DEF Legs
<1>2. ASSUME NEW b \in By, b.how = "zk"
      PROVE  Path(b, Do("confirm") \o Quote(leg[1], leg[2], "amount") \o Do("confirm") \o ExecuteZKSwap \o Do("save"),
                  At("flat", 0), At("flat", 1))
  <2>1. At("flat", 1) \in State /\ At("flat", 1).n = 1 /\ At("flat", 0) \in State
    BY StateOf DEF Phases
  <2>2. Path(b, Quote(leg[1], leg[2], "amount"), At("flat", 0), At("flat", 1))
    BY <1>1, <1>2, Asking
  <2>3. /\ Path(b, Do("confirm"), At("flat", 1), At("flat", 1)) /\ Path(b, Do("save"), At("flat", 1), At("flat", 1))
        /\ Path(b, Do("confirm"), At("flat", 0), At("flat", 0))
             /\ Path(b, Do("prove"), At("flat", 1), At("flat", 1))
    BY <2>1, Look DEF Looks, Chances
  <2>4. Path(b, ExecuteSwap(1), At("flat", 1), At("flat", 1))
    BY <2>1, <1>2, Sending
  <2>5. Path(b, ExecuteZKSwap, At("flat", 1), At("flat", 1))
    BY <2>3, <2>4, Chain DEF ExecuteZKSwap
  <2>6. Path(b, Do("confirm") \o Quote(leg[1], leg[2], "amount"), At("flat", 0), At("flat", 1))
    BY <2>2, <2>3, Chain
  <2>7. Path(b, Do("confirm") \o Quote(leg[1], leg[2], "amount") \o Do("confirm"), At("flat", 0), At("flat", 1))
    BY <2>3, <2>6, Chain
  <2>8. Path(b, Do("confirm") \o Quote(leg[1], leg[2], "amount") \o Do("confirm") \o ExecuteZKSwap, At("flat", 0), At("flat", 1))
    BY <2>5, <2>7, Chain
  <2> QED BY <2>3, <2>8, Chain
<1> QED BY <1>1, <1>2, AttemptIs DEF Hows, Ways

\* swap quote,
LEMMA QuoteIs ==
    ASSUME NEW leg \in Legs
    PROVE  Attempt("quote", leg[2], 0, "self", "send", Quote(leg[1], leg[2], "amount")) \in Attempts
<1>1. leg = <<leg[1], leg[2]>> /\ leg[2] \in Assets /\ Slippage \in Nat
  BY SwapAssumptions DEF Legs
<1>2. ASSUME NEW b \in By, b.how = "quote"
      PROVE  Path(b, Quote(leg[1], leg[2], "amount"), At("flat", 0), At("flat", 1))
  <2>1. Path(b, Quote(leg[1], leg[2], "amount"), At("flat", 0), At("flat", 1))
    BY <1>1, <1>2, Asking
  <2> QED BY <2>1
<1> QED BY <1>1, <1>2, AttemptIs DEF Hows, Ways, Destinations

\* a scan of a pair,
LEMMA Scans ==
    ASSUME NEW b \in By, NEW c \in Counters, b.how # "arbitrage"
    PROVE  Path(b, ScanPair(c), At("flat", 0), At("flat", 2))
<1>1. Path(b, ThereAndBack(c), At("flat", 0), At("flat", 2))
  BY RoundTrips
<1>2. Path(b, Do("profitable"), At("flat", 2), At("flat", 2))
  BY StateOf, Look DEF Looks, Tests, Phases
<1> QED BY <1>1, <1>2, Chain DEF ScanPair

\* swap scan,
LEMMA ScanIs ==
    ASSUME NEW c \in Counters
    PROVE  Attempt("quote", c, 0, "self", "send", ScanPair(c)) \in Attempts
<1>1. c \in Assets /\ Slippage \in Nat
  BY SwapAssumptions, LegsOf
<1>2. \A b \in By : b.how = "quote" => Path(b, ScanPair(c), At("flat", 0), At("flat", 2))
  BY Scans
<1> QED BY <1>1, <1>2, AttemptIs DEF Hows, Ways, Destinations

\* arbitrage-all and a round of the monitor,
LEMMA QuotedIs ==
    ASSUME NEW c \in Counters
    PROVE  AsQuoted(c, Do("save")) \in Attempts /\ AsQuoted(c, <<>>) \in Attempts
<1>1. c \in Assets /\ Slippage \in Nat
  BY SwapAssumptions, LegsOf
<1> DEFINE s == ScanPair(c) \o Do("confirm") \o Do("forget") \o QuotedLegs(c)
<1>2. ASSUME NEW b \in By, b.how = "quoted"
      PROVE  Path(b, s, At("flat", 0), At("flat", 2)) /\ Path(b, s \o Do("save"), At("flat", 0), At("flat", 2))
  <2>1. /\ At("flat", 1) \in State /\ At("flat", 1).n = 1 /\ At("flat", 0) \in State
        /\ At("flat", 2) \in State /\ At("flat", 2).n = 2
    BY StateOf DEF Phases
  <2>2. /\ <<Base, c>> \in Legs /\ <<c, Base>> \in Legs /\ b.how # "arbitrage"
        /\ {0, 1, 2} \subseteq Nat /\ 1 = 0 + 1 /\ 2 = 1 + 1 /\ 1 >= 1
    BY LegsOf, <1>2
  <2>3. /\ Path(b, Quote(Base, c, "amount"), At("flat", 0), At("flat", 1))
        /\ Path(b, Quote(c, Base, "quoted"), At("flat", 1), At("flat", 2))
    BY <2>2, Asking
  <2>4. /\ Path(b, ScanPair(c), At("flat", 0), At("flat", 2))
        /\ Path(b, Do("confirm"), At("flat", 2), At("flat", 2)) /\ Path(b, Do("save"), At("flat", 2), At("flat", 2))
        /\ Path(b, Do("forget"), At("flat", 2), At("flat", 0))
    BY <1>2, <2>1, Look, Forgets, Scans DEF Looks, Chances
  <2>5. Path(b, ExecuteSwap(1), At("flat", 1), At("flat", 1))
          /\ Path(b, ExecuteSwap(2), At("flat", 2), At("flat", 2))
    BY <2>1, <1>2, Sending
  <2>6. Path(b, Quote(Base, c, "amount") \o ExecuteSwap(1), At("flat", 0), At("flat", 1))
    BY <2>3, <2>5, Chain
  <2>7. Path(b, Quote(Base, c, "amount") \o ExecuteSwap(1) \o Quote(c, Base, "quoted"), At("flat", 0), At("flat", 2))
    BY <2>3, <2>6, Chain
  <2>8. Path(b, QuotedLegs(c), At("flat", 0), At("flat", 2))
    BY <2>5, <2>7, Chain DEF QuotedLegs
  <2>9. Path(b, ScanPair(c) \o Do("confirm"), At("flat", 0), At("flat", 2))
    BY <2>4, Chain
  <2>10. Path(b, ScanPair(c) \o Do("confirm") \o Do("forget"), At("flat", 0), At("flat", 0))
    BY <2>4, <2>9, Chain
  <2>11. Path(b, s, At("flat", 0), At("flat", 2))
    BY <2>8, <2>10, Chain
  <2> QED BY <2>4, <2>11, Chain
<1>3. s \o <<>> = s
  <2> DEFINE b == [how |-> "quoted", c |-> c, slip |-> 1, to |-> "self", kind |-> "send"]
  <2>1. b \in By /\ b.how = "quoted"
    BY <1>1 DEF By, Hows, Ways, Destinations
  <2>2. s \in Seq(Steps)
    BY <1>2, <2>1 DEF Path, Accepts
  <2> QED BY <2>2, ConcatEmptySeq
<1> HIDE DEF s
<1>4. Attempt("quoted", c, 1, "self", "send", s \o Do("save")) \in Attempts
  BY <1>1, <1>2, AttemptIs DEF Hows, Ways, Destinations
<1>5. Attempt("quoted", c, 1, "self", "send", s) \in Attempts
  BY <1>1, <1>2, AttemptIs DEF Hows, Ways, Destinations
<1> QED BY <1>3, <1>4, <1>5 DEF AsQuoted, s
\* the round trip in one transaction,
LEMMA AtomicGoes ==
    ASSUME NEW b \in By, NEW c \in Counters, b.how = "atomic"
    PROVE  Path(b, ExecuteRoundTripAtomic(c), At("flat", 2), At("flat", 2))
<1>1. Path(b, Do("forget"), At("flat", 2), At("flat", 0))
  BY Forgets
<1>2. Path(b, ThereAndBack(c), At("flat", 0), At("flat", 2))
  BY RoundTrips
<1>3. /\ Path(b, Do("hops"), At("flat", 2), At("flat", 2)) /\ Path(b, Do("account"), At("flat", 2), At("flat", 2))
      /\ Path(b, Do("cycle"), At("flat", 2), At("flat", 2))
  BY StateOf, Look, Cycling DEF Looks, Tests, Phases
<1>4. Path(b, Do("forget") \o ThereAndBack(c), At("flat", 2), At("flat", 2))
  BY <1>1, <1>2, Chain
<1>5. Path(b, Do("forget") \o ThereAndBack(c) \o Do("hops"), At("flat", 2), At("flat", 2))
  BY <1>3, <1>4, Chain
<1>6. Path(b, Do("forget") \o ThereAndBack(c) \o Do("hops") \o Do("account"), At("flat", 2), At("flat", 2))
  BY <1>3, <1>5, Chain
<1> QED BY <1>3, <1>6, Chain DEF ExecuteRoundTripAtomic

\* and in two: quotes, balance, leg A, what arrived, its quote, leg B.
LEMMA RoundTripGoes ==
    ASSUME NEW b \in By, b.how = "arbitrage"
    PROVE  Path(b, ExecuteRoundTrip(b.c), At("flat", 2), At("flat", 3))
<1> DEFINE c == b.c
<1>1. /\ c \in Counters
      /\ At("flat", 0) \in State /\ At("flat", 2) \in State /\ At("known", 2) \in State /\ At("bought", 2) \in State
      /\ At("priced", 3) \in State /\ At("flat", 3) \in State
  BY StateOf DEF Phases, By
<1>2. Path(b, Do("forget"), At("flat", 2), At("flat", 0))
  BY Forgets
<1>3. Path(b, ThereAndBack(c), At("flat", 0), At("flat", 2))
  BY <1>1, RoundTrips
<1>4. /\ Path(b, Do("worthwhile"), At("flat", 2), At("flat", 2))
           /\ Path(b, Do("account"), At("flat", 3), At("flat", 3))
      /\ Path(b, Do("fresh"), At("known", 2), At("known", 2))
  BY <1>1, Look DEF Looks, Tests, Chances
<1>5. /\ Path(b, Do("before"), At("flat", 2), At("known", 2))
      /\ Path(b, Do("after"), At("bought", 2), At("measured", 2))
  BY Measures
<1>6. Path(b, ExecuteSwap(1), At("known", 2), At("bought", 2))
        /\ Path(b, ExecuteSwap(3), At("priced", 3), At("flat", 3))
  BY <1>1, Sending
<1>7. Path(b, Quote(c, Base, "received"), At("measured", 2), At("priced", 3))
  BY <1>1, AskingAgain
<1> DEFINE s1 == Do("forget") \o ThereAndBack(c)
           s2 == s1 \o Do("worthwhile")
           s3 == s2 \o Do("before")
           s4 == s3 \o Do("fresh")
           s5 == s4 \o ExecuteSwap(1)
           s6 == s5 \o Do("after")
           s7 == s6 \o Quote(c, Base, "received")
           s8 == s7 \o ExecuteSwap(3)
<1>8. Path(b, s1, At("flat", 2), At("flat", 2))
  BY <1>2, <1>3, Chain
<1> HIDE DEF s1
<1>9. Path(b, s2, At("flat", 2), At("flat", 2))
  BY <1>4, <1>8, Chain
<1> HIDE DEF s2
<1>10. Path(b, s3, At("flat", 2), At("known", 2))
  BY <1>5, <1>9, Chain
<1> HIDE DEF s3
<1>11. Path(b, s4, At("flat", 2), At("known", 2))
  BY <1>4, <1>10, Chain
<1> HIDE DEF s4
<1>12. Path(b, s5, At("flat", 2), At("bought", 2))
  BY <1>6, <1>11, Chain
<1> HIDE DEF s5
<1>13. Path(b, s6, At("flat", 2), At("measured", 2))
  BY <1>5, <1>12, Chain
<1> HIDE DEF s6
<1>14. Path(b, s7, At("flat", 2), At("priced", 3))
  BY <1>7, <1>13, Chain
<1> HIDE DEF s7
<1>15. Path(b, s8, At("flat", 2), At("flat", 3))
  BY <1>6, <1>14, Chain
<1> HIDE DEF s8
<1>16. Path(b, s8 \o Do("account"), At("flat", 2), At("flat", 3))
  BY <1>4, <1>15, Chain
<1> QED BY <1>16 DEF ExecuteRoundTrip, s1, s2, s3, s4, s5, s6, s7, s8

\* The scans before a continuous round executes.
ScanTwice(c) ==
    ThereAndBack(c) \o Do("worthwhile") \o Do("plausible") \o Do("forget")
    \o ThereAndBack(c) \o Do("worthwhile") \o Do("forget")

\* The two scans of a continuous round.
LEMMA ScanTwiceGoes ==
    ASSUME NEW b \in By, NEW c \in Counters, b.how = "arbitrage" => b.c = c
    PROVE  Path(b, ScanTwice(c), At("flat", 0), At("flat", 0))
<1>1. At("flat", 2) \in State
  BY StateOf DEF Phases
<1>2. Path(b, Do("forget"), At("flat", 2), At("flat", 0))
  BY Forgets
<1>3. Path(b, ThereAndBack(c), At("flat", 0), At("flat", 2))
  BY RoundTrips
<1>4. Path(b, Do("worthwhile"), At("flat", 2), At("flat", 2))
        /\ Path(b, Do("plausible"), At("flat", 2), At("flat", 2))
  BY <1>1, Look DEF Looks, Tests
<1> DEFINE s1 == ThereAndBack(c) \o Do("worthwhile")
           s2 == s1 \o Do("plausible")
           s3 == s2 \o Do("forget")
           s4 == s3 \o ThereAndBack(c)
           s5 == s4 \o Do("worthwhile")
<1>5. Path(b, s1, At("flat", 0), At("flat", 2))
  BY <1>3, <1>4, Chain
<1> HIDE DEF s1
<1>6. Path(b, s2, At("flat", 0), At("flat", 2))
  BY <1>4, <1>5, Chain
<1> HIDE DEF s2
<1>7. Path(b, s3, At("flat", 0), At("flat", 0))
  BY <1>2, <1>6, Chain
<1> HIDE DEF s3
<1>8. Path(b, s4, At("flat", 0), At("flat", 2))
  BY <1>3, <1>7, Chain
<1> HIDE DEF s4
<1>9. Path(b, s5, At("flat", 0), At("flat", 2))
  BY <1>4, <1>8, Chain
<1> HIDE DEF s5
<1>10. Path(b, s5 \o Do("forget"), At("flat", 0), At("flat", 0))
  BY <1>2, <1>9, Chain
<1> QED BY <1>10 DEF ScanTwice, s1, s2, s3, s4, s5

\* A percentage divided by 100 is not more.
LEMMA Hundredth == ASSUME NEW n \in Nat PROVE n \div 100 \in Nat /\ n \div 100 <= n
OBVIOUS

\* An arbitrage scan that executes.
LEMMA ArbitrageIs ==
    ASSUME NEW c \in Counters, NEW to \in Destinations, NEW atomic \in BOOLEAN, NEW before \in {<<>>, ScanTwice(c)}
    PROVE  PerformArbitrageScan(c, to, atomic, before) \in Attempts
<1>1. c \in Assets /\ Slippage \div 100 \in Nat /\ Slippage \div 100 <= Slippage
  <2>1. Slippage \in Nat
    BY SwapAssumptions
  <2> QED BY <2>1, Hundredth, LegsOf
<1> DEFINE how == IF atomic THEN "atomic" ELSE "arbitrage"
           n == IF atomic THEN 2 ELSE 3
           body == IF atomic THEN ExecuteRoundTripAtomic(c) ELSE ExecuteRoundTrip(c)
           s1 == before \o ThereAndBack(c)
           s2 == s1 \o Do("worthwhile")
           s3 == s2 \o Do("confirm")
           s4 == s3 \o Do("fresh")
           s5 == s4 \o body
           s6 == s5 \o Do("save")
<1>2. how \in Hows /\ how \in {"atomic", "arbitrage"} /\ n \in Nat
  BY DEF Hows
<1>3. ASSUME NEW b \in By, b.how = how, b.c = c PROVE Path(b, body, At("flat", 2), At("flat", n))
  BY <1>3, AtomicGoes, RoundTripGoes
<1> HIDE DEF how, n, body
<1>4. ASSUME NEW b \in By, b.how = how, b.c = c PROVE Path(b, s6, At("flat", 0), At("flat", n))
  <2>1. At("flat", 2) \in State /\ At("flat", n) \in State
    BY <1>2, StateOf DEF Phases
  <2>2. Path(b, ThereAndBack(c), At("flat", 0), At("flat", 2))
    BY <1>4, RoundTrips
  <2>3. Path(b, s1, At("flat", 0), At("flat", 2))
    <3>1. CASE before = <<>>
      <4>1. ThereAndBack(c) \in Seq(Steps)
        BY <2>2 DEF Path, Accepts
      <4>2. s1 = ThereAndBack(c)
        BY <3>1, <4>1, ConcatEmptySeq
      <4> QED BY <2>2, <4>2
    <3>2. CASE before = ScanTwice(c)
      BY <3>2, <2>2, <1>4, ScanTwiceGoes, Chain
    <3> QED BY <3>1, <3>2
  <2> HIDE DEF s1
  <2>4. /\ Path(b, Do("worthwhile"), At("flat", 2), At("flat", 2))
             /\ Path(b, Do("confirm"), At("flat", 2), At("flat", 2))
        /\ Path(b, Do("fresh"), At("flat", 2), At("flat", 2)) /\ Path(b, Do("save"), At("flat", n), At("flat", n))
    BY <2>1, Look DEF Looks, Tests, Chances
  <2>5. Path(b, s2, At("flat", 0), At("flat", 2))
    BY <2>3, <2>4, Chain
  <2> HIDE DEF s2
  <2>6. Path(b, s3, At("flat", 0), At("flat", 2))
    BY <2>4, <2>5, Chain
  <2> HIDE DEF s3
  <2>7. Path(b, s4, At("flat", 0), At("flat", 2))
    BY <2>4, <2>6, Chain
  <2> HIDE DEF s4
  <2>8. Path(b, s5, At("flat", 0), At("flat", n))
    BY <1>3, <1>4, <2>7, Chain
  <2> HIDE DEF s5
  <2> QED BY <2>4, <2>8, Chain
<1> HIDE DEF s6
<1>5. how # "quoted" /\ how \notin {"swap", "zk"}
  BY <1>2
<1>6. Attempt(how, c, Slippage \div 100, to, "send", s6) \in Attempts
  BY <1>1, <1>2, <1>4, <1>5, AttemptIs DEF Ways
<1> QED BY <1>6 DEF PerformArbitrageScan, how, body, s6

\* The cycle of the chat.
LEMMA TriangularIs ==
    ASSUME NEW cs \in Cycles
    PROVE  Attempt("quoted", cs[1], 0, "self", "send", ExecuteTriangularSwap(cs)) \in Attempts
<1>1. cs[1] \in Assets /\ cs[1] \in Counters /\ cs[2] \in Counters /\ Slippage \in Nat
  BY SwapAssumptions, LegsOf DEF Cycles
<1>2. <<Base, cs[1]>> \in Legs /\ <<cs[1], cs[2]>> \in Legs /\ <<cs[2], Base>> \in Legs
  BY <1>1, LegsOf DEF Legs, Cycles
<1>3. ASSUME NEW b \in By, b.how = "quoted" PROVE Path(b, ExecuteTriangularSwap(cs), At("flat", 0), At("flat", 3))
  <2>1. At("flat", 3) \in State /\ At("flat", 3).n = 3
    BY StateOf DEF Phases
  <2>2. /\ {0, 1, 2, 3} \subseteq Nat /\ 1 = 0 + 1 /\ 2 = 1 + 1 /\ 3 = 2 + 1 /\ 1 >= 1 /\ 2 >= 1
        /\ b.how # "arbitrage"
    BY <1>3
  <2>3. /\ Path(b, Quote(Base, cs[1], "amount"), At("flat", 0), At("flat", 1))
        /\ Path(b, Quote(cs[1], cs[2], "quoted"), At("flat", 1), At("flat", 2))
        /\ Path(b, Quote(cs[2], Base, "quoted"), At("flat", 2), At("flat", 3))
    BY <1>2, <2>2, Asking
  <2>4. /\ Path(b, Do("confirm"), At("flat", 3), At("flat", 3))
        /\ Path(b, Do("opportunity"), At("flat", 3), At("flat", 3))
    BY <2>1, Look DEF Looks, Tests, Chances
  <2>5. /\ Path(b, ExecuteSwap(1), At("flat", 3), At("flat", 3))
        /\ Path(b, ExecuteSwap(2), At("flat", 3), At("flat", 3))
        /\ Path(b, ExecuteSwap(3), At("flat", 3), At("flat", 3))
    BY <1>3, <2>1, Sending
  <2> DEFINE s1 == Quote(Base, cs[1], "amount") \o Quote(cs[1], cs[2], "quoted")
             s2 == s1 \o Quote(cs[2], Base, "quoted")
             s3 == s2 \o Do("confirm")
             s4 == s3 \o Do("opportunity")
             s5 == s4 \o ExecuteSwap(1)
             s6 == s5 \o ExecuteSwap(2)
  <2>6. Path(b, s1, At("flat", 0), At("flat", 2))
    BY <2>3, Chain
  <2> HIDE DEF s1
  <2>7. Path(b, s2, At("flat", 0), At("flat", 3))
    BY <2>3, <2>6, Chain
  <2> HIDE DEF s2
  <2>8. Path(b, s3, At("flat", 0), At("flat", 3))
    BY <2>4, <2>7, Chain
  <2> HIDE DEF s3
  <2>9. Path(b, s4, At("flat", 0), At("flat", 3))
    BY <2>4, <2>8, Chain
  <2> HIDE DEF s4
  <2>10. Path(b, s5, At("flat", 0), At("flat", 3))
    BY <2>5, <2>9, Chain
  <2> HIDE DEF s5
  <2>11. Path(b, s6, At("flat", 0), At("flat", 3))
    BY <2>5, <2>10, Chain
  <2> HIDE DEF s6
  <2>12. Path(b, s6 \o ExecuteSwap(3), At("flat", 0), At("flat", 3))
    BY <2>5, <2>11, Chain
  <2> QED BY <2>12 DEF ExecuteTriangularSwap, s1, s2, s3, s4, s5, s6
<1> QED BY <1>1, <1>3, AttemptIs DEF Hows, Ways, Destinations

\* A simulated payment.
LEMMA SimulatedIs == ASSUME NEW c \in Counters PROVE Attempt("simulated", c, 0, "self", "send", Do("save")) \in Attempts
<1>1. c \in Assets /\ Slippage \in Nat
  BY SwapAssumptions, LegsOf
<1>2. \A b \in By : Path(b, Do("save"), At("flat", 0), At("flat", 0))
  BY StateOf, Look DEF Looks, Phases
<1> QED BY <1>1, <1>2, AttemptIs DEF Hows, Ways, Destinations

\* The rounds of a continuous command.
LEMMA Several ==
    ASSUME NEW f \in [1..MaxScans -> Attempts]
    PROVE  f \in Seq(Attempts)
BY SwapAssumptions, SeqDef

\* A command of one attempt.
LEMMA OneAttempt == ASSUME NEW a \in Attempts PROVE <<a>> \in Seq(Attempts)
OBVIOUS

\* Every command is a list of attempts that end flat.
LEMMA CommandsAre == Commands \cup Simulations \subseteq Seq(Attempts)
<1>1. SwapQuote \cup SwapExecute \cup SwapZK \cup SwapScan \subseteq Seq(Attempts)
  <2>1. \A leg \in Legs : <<Attempt("quote", leg[2], 0, "self", "send", Quote(leg[1], leg[2], "amount"))>> \in Seq(Attempts)
    BY QuoteIs, OneAttempt
  <2>2. \A leg \in Legs, to \in Destinations, kind \in {"send", "receive"} :
          <<Attempt("swap", leg[2], Slippage, to, kind,
             Quote(leg[1], leg[2], "amount") \o Do("confirm") \o ExecuteSwap(1) \o Do("save"))>> \in Seq(Attempts)
    BY SwapIs, OneAttempt DEF Ways
  <2>3. \A leg \in Legs, to \in Destinations, kind \in {"send", "receive"} :
          <<Attempt("zk", leg[2], Slippage, to, kind,
             Do("confirm") \o Quote(leg[1], leg[2], "amount") \o Do("confirm") \o ExecuteZKSwap \o Do("save"))>>
          \in Seq(Attempts)
    BY ZKIs, OneAttempt DEF Ways
  <2>4. \A c \in Counters : <<Attempt("quote", c, 0, "self", "send", ScanPair(c))>> \in Seq(Attempts)
    BY ScanIs, OneAttempt
  <2>5. SwapQuote \subseteq Seq(Attempts)
    BY <2>1, Zenon DEF SwapQuote
  <2>6. SwapExecute \subseteq Seq(Attempts)
    <3> SUFFICES ASSUME NEW plan \in SwapExecute PROVE plan \in Seq(Attempts)
      OBVIOUS
    <3>1. PICK leg \in Legs, to \in Destinations, kind \in {"send", "receive"} : plan = 
              <<Attempt("swap", leg[2], Slippage, to, kind,
                 Quote(leg[1], leg[2], "amount") \o Do("confirm") \o ExecuteSwap(1) \o Do("save"))>>
      BY DEF SwapExecute
    <3> QED BY <2>2, <3>1
  <2>7. SwapZK \subseteq Seq(Attempts)
    <3> SUFFICES ASSUME NEW plan \in SwapZK PROVE plan \in Seq(Attempts)
      OBVIOUS
    <3>1. PICK leg \in Legs, to \in Destinations, kind \in {"send", "receive"} : plan = 
              <<Attempt("zk", leg[2], Slippage, to, kind,
                 Do("confirm") \o Quote(leg[1], leg[2], "amount") \o Do("confirm") \o ExecuteZKSwap \o Do("save"))>>
      BY DEF SwapZK
    <3> QED BY <2>3, <3>1
  <2>8. SwapScan \subseteq Seq(Attempts)
    BY <2>4, Zenon DEF SwapScan
  <2> QED BY <2>5, <2>6, <2>7, <2>8
<1>2. ArbitrageAll \cup Triangular \cup Simulations \subseteq Seq(Attempts)
  <2>1. \A c \in Counters : <<AsQuoted(c, Do("save"))>> \in Seq(Attempts)
    BY QuotedIs, OneAttempt
  <2>2. \A cs \in Cycles : <<Attempt("quoted", cs[1], 0, "self", "send", ExecuteTriangularSwap(cs))>> \in Seq(Attempts)
    BY TriangularIs, OneAttempt
  <2>3. \A c \in Counters : <<Attempt("simulated", c, 0, "self", "send", Do("save"))>> \in Seq(Attempts)
    BY SimulatedIs, OneAttempt
  <2>4. ArbitrageAll \subseteq Seq(Attempts)
    BY <2>1, Zenon DEF ArbitrageAll
  <2>5. Triangular \subseteq Seq(Attempts)
    BY <2>2, Zenon DEF Triangular
  <2>6. Simulations \subseteq Seq(Attempts)
    BY <2>3, Zenon DEF Simulations
  <2> QED BY <2>4, <2>5, <2>6
<1>3. Monitor \subseteq Seq(Attempts)
  <2>1. \A cs \in [1..MaxScans -> Counters] : [i \in 1..MaxScans |-> PromptAndExecute(cs[i])] \in Seq(Attempts)
    BY QuotedIs, Several DEF PromptAndExecute
  <2> QED BY <2>1, Zenon DEF Monitor
<1>4. Arbitrage \subseteq Seq(Attempts)
  <2>1. \A c \in Counters, to \in Destinations, atomic \in BOOLEAN :
          <<PerformArbitrageScan(c, to, atomic, <<>>)>> \in Seq(Attempts)
    BY ArbitrageIs, OneAttempt
  <2> SUFFICES ASSUME NEW plan \in Arbitrage PROVE plan \in Seq(Attempts)
    OBVIOUS
  <2>2. PICK c \in Counters, to \in Destinations, atomic \in BOOLEAN : plan = <<PerformArbitrageScan(c, to, atomic, <<>>)>>
    BY DEF Arbitrage
  <2> QED BY <2>1, <2>2
<1>5. Continuous \subseteq Seq(Attempts)
  <2>1. \A c \in Counters, atomic \in BOOLEAN : PerformArbitrageScan(c, "self", atomic, ScanTwice(c)) \in Attempts
    BY ArbitrageIs DEF Destinations
  <2>2. \A c \in Counters, atomic \in BOOLEAN :
          [i \in 1..MaxScans |-> PerformArbitrageScan(c, "self", atomic, ScanTwice(c))] \in Seq(Attempts)
    BY <2>1, Several
  <2> SUFFICES ASSUME NEW plan \in Continuous PROVE plan \in Seq(Attempts)
    OBVIOUS
  <2>3. PICK c \in Counters, atomic \in BOOLEAN :
          plan = [i \in 1..MaxScans |-> PerformArbitrageScan(c, "self", atomic, ScanTwice(c))]
    BY DEF Continuous, ScanTwice
  <2> QED BY <2>2, <2>3
<1> QED BY <1>1, <1>2, <1>3, <1>4, <1>5 DEF Commands
------------------------------------------------------------------------------
\* The steps that submit.
SendsOf(s) == {i \in DOMAIN s : s[i].do \in {"send", "cycle"}}
Submits(s) == s.do \in {"send", "cycle"}

\* The submissions of a list can be counted.
LEMMA SendsIs ==
    ASSUME NEW S, NEW s \in Seq(S)
    PROVE  IsFiniteSet(SendsOf(s)) /\ Sends(s) = Cardinality(SendsOf(s)) /\ Sends(s) \in Nat
<1>1. DOMAIN s = 1..Len(s) /\ Len(s) \in Nat
  BY LenProperties
<1>2. IsFiniteSet(1..Len(s))
  BY <1>1, FS_Interval
<1>3. SendsOf(s) \in SUBSET (1..Len(s))
  BY <1>1 DEF SendsOf
<1>4. IsFiniteSet(SendsOf(s))
  BY <1>2, <1>3, FS_Subset
<1>5. Cardinality(SendsOf(s)) \in Nat
  BY <1>4, FS_CardinalityType
<1> QED BY <1>4, <1>5 DEF Sends, SendsOf

\* No step submits nothing.
LEMMA SendsNone == Sends(<<>>) = 0
<1>1. SendsOf(<<>>) = {}
  BY DEF SendsOf
<1> QED BY <1>1, FS_EmptySet DEF Sends, SendsOf

\* A step done, one submission less if it was one.
LEMMA SendsTail ==
    ASSUME NEW S, NEW s \in Seq(S), s # <<>>
    PROVE  /\ Sends(Tail(s)) \in Nat /\ Sends(s) \in Nat
           /\ Sends(s) = IF Submits(Head(s)) THEN Sends(Tail(s)) + 1 ELSE Sends(Tail(s))
<1>1. DOMAIN s = 1..Len(s) /\ Len(s) \in Nat \ {0} /\ Head(s) = s[1]
  BY EmptySeq, LenProperties
<1>2. /\ Tail(s) \in Seq(S) /\ Len(Tail(s)) = Len(s) - 1
      /\ \A i \in 1..Len(Tail(s)) : Tail(s)[i] = s[i + 1]
  BY HeadTailProperties
<1>3. DOMAIN Tail(s) = 1..Len(Tail(s))
  BY <1>2, LenProperties
<1>4. IsFiniteSet(SendsOf(Tail(s))) /\ Sends(Tail(s)) = Cardinality(SendsOf(Tail(s))) /\ Sends(Tail(s)) \in Nat
  BY <1>2, SendsIs
<1>5. IsFiniteSet(SendsOf(s)) /\ Sends(s) = Cardinality(SendsOf(s)) /\ Sends(s) \in Nat
  BY SendsIs
<1> DEFINE A == SendsOf(Tail(s))
           B == SendsOf(s) \ {1}
           f == [i \in A |-> i + 1]
<1>6. \A i : i \in A <=> i \in 1..(Len(s) - 1) /\ Submits(s[i + 1])
  BY <1>2, <1>3 DEF SendsOf, Submits
<1>7. \A i : i \in B <=> i \in 2..Len(s) /\ Submits(s[i])
  BY <1>1 DEF SendsOf, Submits
<1> HIDE DEF A, B
<1>8. f \in [A -> B]
  <2>1. ASSUME NEW i \in A PROVE i + 1 \in B
    <3>1. i \in 1..(Len(s) - 1) /\ Submits(s[i + 1])
      BY <1>6
    <3>2. i + 1 \in 2..Len(s)
      BY <1>1, <3>1
    <3> QED BY <1>7, <3>1, <3>2
  <2> QED BY <2>1
<1>9. \A i, k \in A : f[i] = f[k] => i = k
  <2>1. \A i \in A : i \in Int
    BY <1>6
  <2> QED BY <2>1
<1>10. \A k \in B : \E i \in A : f[i] = k
  <2> TAKE k \in B
  <2>1. k \in 2..Len(s) /\ Submits(s[k])
    BY <1>7
  <2>2. k - 1 \in 1..(Len(s) - 1) /\ (k - 1) + 1 = k
    BY <1>1, <2>1
  <2>3. k - 1 \in A
    BY <1>6, <2>1, <2>2
  <2> QED BY <2>2, <2>3
<1>11. f \in Bijection(A, B)
  BY <1>8, <1>9, <1>10 DEF Bijection, Injection, Surjection, IsInjective
<1>12. Cardinality(B) = Cardinality(A)
  BY <1>4, <1>11, FS_Bijection DEF ExistsBijection, A
<1>13. Cardinality(B) = IF 1 \in SendsOf(s) THEN Cardinality(SendsOf(s)) - 1 ELSE Cardinality(SendsOf(s))
  BY <1>5, FS_RemoveElement DEF B
<1>14. 1 \in SendsOf(s) <=> Submits(Head(s))
  BY <1>1 DEF SendsOf, Submits
<1> QED BY <1>4, <1>5, <1>12, <1>13, <1>14 DEF A

\* No step of a command is a wait from the start.
LEMMA StepsDoNotWait == \A s \in Steps : s.do # "await"
BY DEF Steps, Plain, Tests, Chances

\* What Begin makes of a plan is a job that runs.
BeginStarts == \A plan \in Seq(Attempts) : (~excused => AllFlat) => Started(Begin(plan))
\* A command begins, or what is left of one, with a flat account.
LEMMA BeginIs == BeginStarts
<1> SUFFICES ASSUME NEW plan \in Seq(Attempts), ~excused => AllFlat PROVE Started(Begin(plan))
  BY DEF BeginStarts
<1>1. CASE plan = <<>>
  <2>1. Begin(plan) = Fresh /\ Fresh.steps = <<>>
    BY <1>1 DEF Begin, Fresh
  <2> QED BY <2>1 DEF Started
<1>2. CASE plan # <<>>
  <2>1. Head(plan) \in Attempts /\ Tail(plan) \in Seq(Attempts)
    BY <1>2, HeadTailProperties
  <2> DEFINE j == Begin(plan)
             a == Head(plan)
  <2>2. /\ a.by \in By /\ a.steps \in Seq(Steps) /\ a.steps # <<>> /\ Goes(a.by, a.steps, At("flat", 0))
        /\ Sends(a.steps) \in Nat
    BY <2>1, SendsIs DEF Attempts
  <2>3. j = [steps |-> a.steps, by |-> a.by, later |-> Tail(plan), wanted |-> Sends(a.steps), quotes |-> <<>>, seq |-> 0,
             counter |-> 0, got |-> 0, txs |-> {}, now |-> None]
    BY <1>2 DEF Begin, Fresh
  <2>4. a.steps \in Seq(Steps \cup Awaiting)
    BY <2>2, SeqMonotonic
  <2> HIDE DEF a
  <2>5. j \in Jobs
    BY <2>1, <2>2, <2>3, <2>4 DEF Jobs, None
  <2>6. j.steps = a.steps /\ j.by = a.by /\ j.wanted = Sends(a.steps) /\ j.quotes = <<>> /\ j.txs = {}
          /\ j.now = None
    BY <2>3
  <2> HIDE DEF j
  <2>7. ~Waits(j) /\ Ahead(j) = a.steps
    <3>1. Head(a.steps) \in Steps
      BY <2>2, HeadTailProperties
    <3> QED BY <3>1, <2>6, StepsDoNotWait DEF Waits, Ahead
  <2>8. Settling(j)
    BY <2>2, <2>6, <2>7, FS_EmptySet DEF Settling
  <2>9. At("flat", 0) \in State /\ At("flat", 0).at = "flat" /\ At("flat", 0).n = 0
    BY StateOf DEF Phases
  <2>10. Remembers(j, At("flat", 0))
    BY <2>2, <2>6, <2>7, <2>9 DEF Remembers
  <2>11. AllFlat => Balanced(j, At("flat", 0))
    BY <2>6, <2>9 DEF Balanced
  <2>12. Under(j)
    BY <2>2, <2>5, <2>6, <2>8, <2>9, <2>10, <2>11 DEF Under
  <2> QED BY <2>2, <2>6, <2>12 DEF Started, j
<1> QED BY <1>1, <1>2

\* The same of the next state.
LEMMA BeginsAgain == BeginStarts'
BY BeginIs, PTL
------------------------------------------------------------------------------
\* What the invariant says of the job.
LEMMA JobIs ==
    ASSUME IInv
    PROVE  /\ Idle => job = Fresh /\ (~excused => AllFlat)
           /\ ~Idle => Under(job)
BY DEF IInv, Running, Started, Idle

\* An attempt has ended and the next one begins.
LEMMA RestRuns ==
    ASSUME IInv, ~Idle, job' = Rest, ~excused' => AllFlat'
    PROVE  Running'
<1>1. job.later \in Seq(Attempts)
  BY JobIs DEF Under, Jobs
<1>2. PICK j : j = Begin(job.later)
  OBVIOUS
<1>3. Started(j)'
  BY <1>1, <1>2, BeginsAgain DEF BeginStarts
<1> QED BY <1>2, <1>3 DEF Running, Rest

\* The job j, whose first step has been done, is in state x after it.
Ready(j, x) ==
    /\ j \in Jobs /\ IsFiniteSet(j.txs) /\ j.txs \subseteq Ids \cap landed /\ j.now \in j.txs \cup {None}
    /\ Cardinality(j.txs) + Sends(Tail(j.steps)) = j.wanted
    /\ Len(j.quotes) = x.n /\ Goes(j.by, Tail(j.steps), x)
    /\ j.by.how = "arbitrage" => \A i \in 1..x.n : j.quotes[i].leg \in Pair(j.by.c)
    /\ x.at = "priced" => j.quotes[3].leg = <<j.by.c, Base>> /\ j.quotes[3].in = j.got
\* The job goes on with the same command.
SameCommand(j, k) == j.steps = k.steps /\ j.by = k.by /\ j.later = k.later /\ j.wanted = k.wanted

\* A list ends with its only step.
LEMMA LastStep ==
    ASSUME NEW S, NEW s \in Seq(S), s # <<>>
    PROVE  Len(s) \in Nat \ {0} /\ (Tail(s) = <<>> <=> Len(s) = 1)
<1>1. Len(s) \in Nat \ {0} /\ Tail(s) \in Seq(S) /\ Len(Tail(s)) = Len(s) - 1
  BY EmptySeq, HeadTailProperties
<1>2. PICK u : u = Tail(s)
  OBVIOUS
<1>3. u \in Seq(S) /\ Len(u) = Len(s) - 1
  BY <1>1, <1>2
<1>4. u = <<>> <=> Len(u) = 0
  BY <1>3, EmptySeq
<1> QED BY <1>1, <1>2, <1>3, <1>4

\* Jobs that agree on these fields are balanced together.
BalancedOnce == \A j, k, x :
    j.by = k.by /\ j.counter = k.counter /\ j.txs = k.txs /\ j.got = k.got /\ Balanced(j, x) => Balanced(k, x)
\* Balance depends on four fields of the job.
LEMMA BalancedSame == BalancedOnce /\ BalancedOnce'
<1>1. BalancedOnce
  BY DEF BalancedOnce, Balanced
<1> QED BY <1>1, PTL

\* What is left of a job that is ready runs.
ReadyRuns == \A j \in Jobs, x \in State : \A s :
    /\ Ready(j, x) /\ s = Tail(j.steps) /\ s # <<>> /\ (~excused => Balanced(j, x))
    => Started([j EXCEPT !.steps = s])
\* A job whose first step is done goes on with the others.
LEMMA ReadyIs == ReadyRuns
<1> SUFFICES ASSUME NEW j \in Jobs, NEW x \in State, NEW s, Ready(j, x), s = Tail(j.steps), s # <<>>, ~excused
      => Balanced(j, x)
             PROVE  Started([j EXCEPT !.steps = s])
  BY DEF ReadyRuns
<1>1. Goes(j.by, s, x) /\ s \in Seq(Steps)
  BY DEF Ready, Goes, Accepts
<1>2. s \in Seq(Steps \cup Awaiting)
  BY <1>1, SeqMonotonic
<1>3. PICK k : k = [j EXCEPT !.steps = s]
  OBVIOUS
<1>4. /\ k \in Jobs /\ k.steps = s
      /\ k.by = j.by /\ k.later = j.later /\ k.wanted = j.wanted /\ k.quotes = j.quotes
      /\ k.seq = j.seq /\ k.counter = j.counter /\ k.got = j.got /\ k.txs = j.txs /\ k.now = j.now
  BY <1>2, <1>3 DEF Jobs
<1>5. ~Waits(k) /\ Ahead(k) = s
  <2>1. Head(s) \in Steps
    BY <1>1, HeadTailProperties
  <2> QED BY <2>1, <1>4, StepsDoNotWait DEF Waits, Ahead
<1>6. Settling(k)
  BY <1>4, <1>5 DEF Settling, Ready
<1>7. Remembers(k, x)
  BY <1>1, <1>4, <1>5 DEF Remembers, Ready
<1>8. ~excused => Balanced(k, x)
  BY <1>4, BalancedSame DEF BalancedOnce
<1>9. Under(k)
  BY <1>4, <1>6, <1>7, <1>8 DEF Under
<1> QED BY <1>3, <1>4, <1>9 DEF Started

\* The same of the next state.
LEMMA ReadyAgain == ReadyRuns'
BY ReadyIs, PTL

\* What was reported stays true.
LEMMA ReportedStays ==
    ASSUME IInv, report' = report, landed \subseteq landed', landed' \subseteq landed \cup Flown \cup (Ids' \ Ids),
           flying' \subseteq flying, Ids \subseteq Ids'
    PROVE  Reported'
<1>1. Flown' \subseteq Flown
  BY DEF Flown
<1>2. Reported
  BY DEF IInv
<1>3. TimeoutIsSettled'
  BY <1>1, <1>2 DEF Reported, TimeoutIsSettled, Flown
<1> QED BY <1>2, <1>3 DEF Reported

\* The step at the head was done: the next one, or the end of the attempt.
LEMMA AdvanceKeeps ==
    ASSUME IInv, ~Idle, NEW j \in Jobs, NEW x \in State, Advance(j), SameCommand(j, job), Ready(j, x)',
           ~excused => Balanced(j, x)', landed \subseteq landed', landed' \subseteq landed \cup (Ids' \ Ids),
           Ids \subseteq Ids', flying' = flying
    PROVE  Running' /\ Reported' /\ excused' \in BOOLEAN /\ (excused => excused')
<1>1. job \in Jobs /\ job.steps # <<>> /\ job.later \in Seq(Attempts) /\ excused \in BOOLEAN /\ Stored
  BY JobIs DEF Under, Jobs, IInv, Stored
<1>2. Tail(job.steps) = <<>> <=> Len(job.steps) = 1
  BY <1>1, LastStep DEF Jobs
<1>3. CASE Len(job.steps) = 1
  <2>1. Tail(j.steps) = <<>>
    BY <1>2, <1>3 DEF SameCommand
  <2>2. report' = [Closed("done") EXCEPT !.txs = j.txs] /\ job' = Rest
          /\ excused' = (excused \/ Doing.how = "quoted")
    BY <1>3 DEF Advance
  <2>3. report'.result = "done" /\ report'.txs = j.txs /\ report'.wanted = j.wanted
    BY <2>2 DEF Closed, SameCommand
  <2>4. Reported'
    <3>1. j.txs \subseteq Ids' /\ j.txs \subseteq landed' /\ Cardinality(j.txs) + 0 = j.wanted /\ IsFiniteSet(j.txs)
      BY <2>1, SendsNone DEF Ready
    <3>2. Cardinality(j.txs) \in Nat
      BY <3>1, FS_CardinalityType
    <3>3. TimeoutIsSettled'
      BY <2>3 DEF TimeoutIsSettled
    <3> QED BY <2>3, <3>1, <3>2, <3>3 DEF Reported
  <2>5. x.at = "flat"
    <3>1. Goes(j.by, <<>>, x)
      BY <2>1 DEF Ready
    <3> QED BY <3>1, EmptyAccepts DEF Goes
  <2>6. ~excused' => AllFlat'
    <3> SUFFICES ASSUME ~excused' PROVE AllFlat'
      OBVIOUS
    <3>1. Balanced(j, x)' /\ j.by.how # "quoted"
      BY <2>2 DEF SameCommand, Doing
    <3> QED BY <2>5, <3>1 DEF Balanced
  <2> QED BY <1>1, <2>2, <2>4, <2>6, RestRuns
<1>4. CASE Len(job.steps) # 1
  <2>1. job' = [j EXCEPT !.steps = Tail(@)] /\ report' = report /\ excused' = excused
    BY <1>4 DEF Advance
  <2>2. PICK s : s = Tail(j.steps)
    OBVIOUS
  <2>3. s # <<>>
    BY <1>2, <1>4, <2>2 DEF SameCommand
  <2>4. PICK k : k = [j EXCEPT !.steps = s]
    OBVIOUS
  <2>5. job' = k
    BY <2>1, <2>2, <2>4
  <2>6. Started(k)'
    BY <2>1, <2>2, <2>3, <2>4, ReadyAgain DEF ReadyRuns
  <2>7. Running'
    BY <2>5, <2>6 DEF Running
  <2>8. Reported'
    BY <2>1, ReportedStays
  <2> QED BY <1>1, <2>1, <2>7, <2>8
<1> QED BY <1>3, <1>4

\* An attempt that ends early leaves the account flat, or is excused.
LEMMA FlatBefore ==
    ASSUME IInv, ~Idle, ~excused, job.txs = {}
    PROVE  AllFlat
<1>1. PICK x \in State : Balanced(job, x)
  BY JobIs DEF Under
<1> QED BY <1>1 DEF Balanced, State, Phases

\* How an attempt may end with nothing sent, as it is reported.
Ending(r) ==
    /\ r.result \in {"error", "nothing received", "not executed", "not found", "failed"} /\ r.txs = job.txs
    /\ r.result \in {"not found", "failed"} => r.named \in Ids \ Flown
    /\ r.result = "failed" \/ (r.result = "not found" /\ ~r.unseen) => r.named \notin landed

\* An attempt ends early without a submission.
LEMMA EndKeeps ==
    ASSUME IInv, ~Idle, NEW r, Ending(r), EndAs(r),
           bal' = bal, kept' = kept, landed' = landed, flying' = flying, Ids \subseteq Ids'
    PROVE  Running' /\ Reported' /\ excused' \in BOOLEAN /\ (excused => excused')
<1>1. excused \in BOOLEAN /\ job.txs \subseteq Ids
  BY JobIs DEF IInv, Stored, Under, Settling
<1>2. /\ report' = r /\ r.txs = job.txs /\ r.result # "done" /\ job' = Rest
      /\ excused' = (excused \/ job.txs # {})
  BY DEF EndAs, Ending
<1>3. ~excused' => AllFlat'
  <2>1. ~excused' => AllFlat
    BY <1>1, <1>2, FlatBefore
  <2> QED BY <2>1 DEF AllFlat, Flat
<1>4. Reported'
  <2>1. TimeoutIsSettled'
    BY <1>2 DEF TimeoutIsSettled, Flown, Ending
  <2> QED BY <1>1, <1>2, <2>1 DEF Reported, Ending
<1> QED BY <1>1, <1>2, <1>3, <1>4, RestRuns

\* An attempt ends with a submission that was not carried out.
LEMMA RefusedKeeps ==
    ASSUME IInv, ~Idle, NEW t, NEW r \in {"refused", "no answer"}, EndSubmitted(t, r)
    PROVE  Running' /\ Reported' /\ excused'
<1>1. report'.result = r /\ job' = Rest /\ excused'
  BY DEF EndSubmitted, Closed
<1>2. Reported'
  BY <1>1 DEF Reported, TimeoutIsSettled
<1> QED BY <1>1, <1>2, RestRuns
------------------------------------------------------------------------------
\* What a transaction takes and gives.
LEMMA Amounts ==
    ASSUME Stored, NEW t, Sound(t)
    PROVE  /\ Takes(t) \in Nat /\ Gives(t) \in Nat
           /\ t.kind # "receive" => Takes(t) = t.amount
           /\ t.leg[1] \in Assets /\ t.leg[2] \in Assets /\ t.limit \in Nat /\ t.amount \in Nat
<1>1. t \in Txs /\ t.amount \in Nat /\ t.leg \in Assets \X Assets /\ t.limit \in Nat
        /\ t.kind \in {"send", "receive", "cycle"}
  BY DEF Sound, Txs, Ways
<1>2. \A leg \in Legs : premium[leg] \in Int /\ detour[leg] \in Nat
  BY SwapAssumptions DEF Stored
<1>3. \A leg \in Legs, n \in Nat : Convert(leg, n) \in Nat /\ Needed(leg, n) \in Nat
  BY <1>2 DEF Convert, Needed
<1>4. CASE t.kind = "cycle"
  <2>1. <<Base, t.c>> \in Legs /\ <<t.c, Base>> \in Legs
    BY <1>4, LegsOf DEF Sound
  <2>2. Gives(t) = Convert(<<t.c, Base>>, Convert(<<Base, t.c>>, t.amount)) /\ Takes(t) = t.amount
    BY <1>4 DEF Gives, Takes
  <2> QED BY <1>1, <1>3, <2>1, <2>2
<1>5. CASE t.kind # "cycle"
  <2>1. t.leg \in Legs
    BY <1>5 DEF Sound
  <2>2. /\ t.kind = "receive" => Takes(t) = Worse(Needed(t.leg, t.amount), Detour(t), "receive") /\ Gives(t) = t.amount
        /\ t.kind = "send" => Takes(t) = t.amount /\ Gives(t) = Worse(Convert(t.leg, t.amount), Detour(t), "send")
    BY <1>5 DEF Gives, Takes
  <2>3. Detour(t) \in Nat
    BY <1>2, <2>1 DEF Detour
  <2>4. \A n \in Nat : Worse(n, Detour(t), "receive") \in Nat /\ Worse(n, Detour(t), "send") \in Nat
    BY <2>3 DEF Worse
  <2> QED BY <1>1, <1>3, <1>5, <2>1, <2>2, <2>4
<1> QED BY <1>4, <1>5

\* What a transaction does to the account.
LEMMA CarriedIs ==
    ASSUME Stored, NEW t, Sound(t)
    PROVE  /\ Charged \in [Assets -> Int] /\ Carried(t) \in [Assets -> Int]
           /\ \A c \in Counters : Charged[c] = bal[c]
           /\ \A c \in Counters : c \notin {t.leg[1], t.leg[2]} => Carried(t)[c] = bal[c]
           /\ t.leg[1] \in Counters /\ t.leg[1] # t.leg[2] => Carried(t)[t.leg[1]] = bal[t.leg[1]] - Takes(t)
<1>1. /\ Takes(t) \in Nat /\ Gives(t) \in Nat /\ t.leg[1] \in Assets /\ t.leg[2] \in Assets
           /\ bal \in [Assets -> Int]
      /\ Base \in Assets /\ \A c \in Counters : c \in Assets /\ c # Base
  BY Amounts, LegsOf DEF Stored, Assets
<1>2. Charged \in [Assets -> Int] /\ \A c \in Counters : Charged[c] = bal[c]
  BY <1>1 DEF Charged, Fee
<1> DEFINE paid == [Charged EXCEPT ![t.leg[1]] = @ - Takes(t)]
<1>3. /\ paid \in [Assets -> Int]
      /\ \A c \in Counters : c # t.leg[1] => paid[c] = bal[c]
      /\ t.leg[1] \in Counters => paid[t.leg[1]] = bal[t.leg[1]] - Takes(t)
  BY <1>1, <1>2
<1>4. Carried(t) = IF t.to = "self" THEN [paid EXCEPT ![t.leg[2]] = @ + Gives(t)] ELSE paid
  BY DEF Carried
<1> HIDE DEF paid
<1>5. CASE t.to = "self"
  BY <1>1, <1>2, <1>3, <1>4, <1>5
<1>6. CASE t.to # "self"
  BY <1>1, <1>2, <1>3, <1>4, <1>6
<1> QED BY <1>5, <1>6

\* The ledger includes a transaction: the limits hold of it, and only the assets
\* of its leg change.
LEMMA IncludeKeeps ==
    ASSUME Stored, LimitsHold, NEW t, Sound(t), Include(t)
    PROVE  /\ bal' \in [Assets -> Int] /\ kept' \in [Assets -> Int] /\ seqNo' \in Nat /\ LimitsHold'
           /\ landed' = IF Acceptable(t) THEN landed \cup {t.id} ELSE landed
           /\ failed' = IF Acceptable(t) THEN failed ELSE failed \cup {t.id}
           /\ t.kind = "cycle" => \A c \in Counters : bal'[c] = bal[c] /\ kept'[c] = kept[c]
           /\ t.how \in {"swap", "zk"} => \A c \in Counters : bal'[c] - kept'[c] = bal[c] - kept[c]
           /\ t.how \notin {"swap", "zk"} => kept' = kept
           /\ \A c \in Counters : c \notin {t.leg[1], t.leg[2]} => bal'[c] = bal[c]
           /\ Acceptable(t) /\ t.kind = "send" /\ t.leg[1] \in Counters => bal'[t.leg[1]] = bal[t.leg[1]] - t.amount
<1>1. /\ bal \in [Assets -> Int] /\ kept \in [Assets -> Int] /\ seqNo \in Nat
      /\ \A c \in Counters : c \in Assets /\ c # Base
  BY LegsOf DEF Stored
<1>2. /\ Takes(t) \in Nat /\ Gives(t) \in Nat /\ (t.kind # "receive" => Takes(t) = t.amount)
      /\ t.limit \in Nat /\ t.amount \in Nat
  BY Amounts
<1>3. /\ Charged \in [Assets -> Int] /\ Carried(t) \in [Assets -> Int]
      /\ \A c \in Counters : Charged[c] = bal[c]
      /\ \A c \in Counters : c \notin {t.leg[1], t.leg[2]} => Carried(t)[c] = bal[c]
      /\ t.leg[1] \in Counters /\ t.leg[1] # t.leg[2] => Carried(t)[t.leg[1]] = bal[t.leg[1]] - Takes(t)
  BY CarriedIs
<1>4. /\ t.kind = "cycle" => t.leg = <<Base, Base>> /\ t.how = "atomic" /\ t.amount = Amount
           /\ t.limit = Amount + MinProfit + Fee
      /\ t.kind # "cycle" => t.leg \in Legs /\ t.allowed <= Tolerance(t)
           /\ t.limit = ApplySlippage(t.quoted, t.allowed, t.kind = "receive")
      /\ t.kind \in {"send", "receive", "cycle"} /\ t.quoted \in Nat /\ t.allowed \in Nat /\ Promised(t) = t.quoted
  BY DEF Sound, Txs, Ways, Promised
<1>5. seqNo' \in Nat
  BY <1>1 DEF Include
<1>6. CASE ~Acceptable(t)
  <2>1. bal' = Charged /\ landed' = landed /\ failed' = failed \cup {t.id} /\ last' = last /\ kept' = kept
    BY <1>6 DEF Include
  <2>2. LimitsHold'
    BY <2>1 DEF LimitsHold, CyclePays, WithinTolerance, Within
  <2> QED BY <1>1, <1>3, <1>5, <1>6, <2>1, <2>2
<1>7. CASE Acceptable(t)
  <2>1. /\ bal' = Carried(t) /\ landed' = landed \cup {t.id} /\ failed' = failed /\ last' = [tx |-> t, took |-> Takes(t), gave |-> Gives(t)]
        /\ kept' = IF t.how \in {"swap", "zk"} THEN [a \in Assets |-> kept[a] + Carried(t)[a] - Charged[a]] ELSE kept
    BY <1>7 DEF Include
  <2>2. kept' \in [Assets -> Int]
    BY <1>1, <1>3, <2>1
  <2>3. t.how \in {"swap", "zk"} => \A c \in Counters : bal'[c] - kept'[c] = bal[c] - kept[c]
    BY <1>1, <1>3, <2>1
  <2>4. t.kind = "cycle" => \A c \in Counters : bal'[c] = bal[c] /\ kept'[c] = kept[c]
    BY <1>1, <1>3, <1>4, <2>1
  <2>5. t.kind = "send" /\ t.leg[1] \in Counters => bal'[t.leg[1]] = bal[t.leg[1]] - t.amount
    BY <1>2, <1>3, <1>4, <2>1 DEF Legs
  <2>6. last'.tx = t /\ last'.took = Takes(t) /\ last'.gave = Gives(t)
    BY <2>1
  <2>7. IF t.kind = "receive" THEN Takes(t) <= t.limit ELSE Gives(t) >= t.limit
    BY <1>7 DEF Acceptable
  <2>8. CyclePays'
    <3>1. Amount \in Nat /\ MinProfit \in Nat
      BY SwapAssumptions
    <3> QED BY <3>1, <1>2, <1>4, <2>6, <2>7 DEF CyclePays, Fee
  <2>9. WithinTolerance'
    <3> SUFFICES ASSUME t.kind # "cycle"
                 PROVE  /\ t.kind = "receive" => Takes(t) <= t.quoted + Tolerance(t)
                        /\ t.kind = "send" => Gives(t) >= t.quoted - Tolerance(t)
      BY <1>4, <2>6 DEF WithinTolerance, Within, Promised, Tolerance
    <3>1. Tolerance(t) \in Int
      <4>1. Hops[t.leg] \in Nat /\ Slippage \in Nat
        BY <1>4, SwapAssumptions
      <4> QED BY <4>1 DEF Tolerance
    <3>2. CASE t.kind = "receive"
      <4>1. t.limit = t.quoted + t.allowed
        BY <3>2, <1>4 DEF ApplySlippage
      <4> QED BY <3>1, <3>2, <4>1, <1>2, <1>4, <2>7
    <3>3. CASE t.kind = "send"
      <4>1. t.limit = IF t.quoted > t.allowed THEN t.quoted - t.allowed ELSE 0
        BY <3>3, <1>4 DEF ApplySlippage
      <4> QED BY <3>1, <3>3, <4>1, <1>2, <1>4, <2>7
    <3> QED BY <1>4, <3>2, <3>3
  <2> QED BY <1>1, <1>3, <1>5, <1>7, <2>1, <2>2, <2>3, <2>4, <2>5, <2>8, <2>9 DEF LimitsHold
<1> QED BY <1>6, <1>7

\* No counter asset gains on what the account should hold.
Drift == \A c \in Counters : bal'[c] - kept'[c] <= bal[c] - kept[c] /\ kept[c] <= kept'[c]

\* The account changes under a command, but no counter asset is left behind.
LEMMA DriftKeeps ==
    ASSUME IInv, job' = job, excused' = excused, landed \subseteq landed', Ids \subseteq Ids',
           bal' \in [Assets -> Int], kept' \in [Assets -> Int], ~excused => Drift
    PROVE  Running'
<1>1. bal \in [Assets -> Int] /\ kept \in [Assets -> Int] /\ \A c \in Counters : c \in Assets
  BY LegsOf DEF IInv, Stored
<1>2. PICK j : j = job /\ Started(j)
  BY DEF IInv, Running
<1>3. ~excused => \A c \in Counters : /\ bal'[c] \in Int /\ kept'[c] \in Int /\ bal[c] \in Int /\ kept[c] \in Int
                                      /\ bal'[c] - kept'[c] <= bal[c] - kept[c] /\ kept[c] <= kept'[c]
  BY <1>1 DEF Drift
<1>4. ~excused /\ AllFlat => AllFlat'
  BY <1>3 DEF AllFlat, Flat
<1>5. CASE j.steps = <<>>
  <2>1. Started(j)'
    BY <1>2, <1>4, <1>5 DEF Started
  <2> QED BY <1>2, <2>1 DEF Running
<1>6. CASE j.steps # <<>>
  <2>1. Under(j)
    BY <1>2, <1>6 DEF Started
  <2>2. PICK x \in State : Remembers(j, x) /\ (~excused => Balanced(j, x))
    BY <2>1 DEF Under
  <2>3. Settling(j)'
    BY <2>1 DEF Under, Settling
  <2>4. ASSUME ~excused PROVE Balanced(j, x)'
    <3>1. Balanced(j, x)
      BY <2>2, <2>4
    <3>2. CASE j.by.how = "arbitrage"
      <4>1. j.by.c \in Counters /\ j.counter \in Int /\ j.got \in Nat
        BY <2>1, <3>2 DEF Under, Jobs, By
      <4>2. \A c : Elsewhere(c) => Elsewhere(c)'
        BY <1>3, <2>4 DEF Elsewhere, Flat
      <4> QED BY <1>3, <1>4, <2>4, <3>1, <3>2, <4>1, <4>2 DEF Balanced
    <3>3. CASE j.by.how # "arbitrage"
      BY <1>4, <2>4, <3>1, <3>3 DEF Balanced
    <3> QED BY <3>2, <3>3
  <2>5. Under(j)'
    BY <2>1, <2>2, <2>3, <2>4 DEF Under, Remembers
  <2>6. Started(j)'
    BY <1>6, <2>5 DEF Started
  <2> QED BY <1>2, <2>6 DEF Running
<1> QED BY <1>5, <1>6
------------------------------------------------------------------------------
\* Nothing new is on the way.
LEMMA OnTheWayLess ==
    ASSUME IInv, flying' \subseteq flying, excused => excused', excused' \in BOOLEAN, Ids \subseteq Ids',
           \A t \in flying' : t.id \notin landed' \cup failed'
    PROVE  OnTheWay'
<1>1. OnTheWay /\ excused \in BOOLEAN
  BY DEF IInv, Stored
<1> QED BY <1>1 DEF OnTheWay, Sound

\* A transaction without an answer lands.
LEMMA LandKeeps == ASSUME IInv, NEW t \in flying, Land(t) PROVE IInv'
<1>1. Sound(t) /\ t.id \in Ids /\ t.id \notin landed \cup failed /\ (~excused => t.kind = "cycle") /\ Stored /\ LimitsHold
        /\ excused \in BOOLEAN
  BY DEF IInv, OnTheWay, Stored
<1>2. /\ bal' \in [Assets -> Int] /\ kept' \in [Assets -> Int] /\ seqNo' \in Nat /\ LimitsHold'
      /\ landed' = IF Acceptable(t) THEN landed \cup {t.id} ELSE landed
      /\ failed' = IF Acceptable(t) THEN failed ELSE failed \cup {t.id}
      /\ t.kind = "cycle" => \A c \in Counters : bal'[c] = bal[c] /\ kept'[c] = kept[c]
  BY <1>1, IncludeKeeps DEF Land
<1>3. /\ flying' = flying \ {t} /\ market' = market /\ job' = job /\ report' = report /\ saved' = saved
      /\ excused' = excused /\ spent' = spent
  BY DEF Land
<1>4. Stored' /\ Ids' = Ids /\ landed \subseteq landed'
  BY <1>1, <1>2, <1>3 DEF Stored, Ids, market
<1>5. OnTheWay'
  <2>1. \A u \in flying' : u.id \notin landed' \cup failed'
    BY <1>2, <1>3 DEF IInv, OnTheWay
  <2> QED BY <1>1, <1>3, <1>4, <2>1, OnTheWayLess
<1>6. Reported'
  <2>1. landed' \subseteq landed \cup Flown
    BY <1>2 DEF Flown
  <2> QED BY <1>3, <1>4, <2>1, ReportedStays
<1>7. ~excused => Drift
  <2>1. \A c \in Counters : bal[c] \in Int /\ kept[c] \in Int
    BY LegsOf, <1>1 DEF Stored
  <2> QED BY <1>1, <1>2, <2>1 DEF Drift
<1>8. Running'
  BY <1>2, <1>3, <1>4, <1>7, DriftKeeps
<1> QED BY <1>2, <1>4, <1>5, <1>6, <1>8 DEF IInv

\* A step that leaves account and command alone.
LEMMA StillRuns ==
    ASSUME IInv, job' = job, excused' = excused, landed' = landed, Ids \subseteq Ids', bal' = bal, kept' = kept
    PROVE  Running'
<1>1. bal \in [Assets -> Int] /\ kept \in [Assets -> Int] /\ \A c \in Counters : bal[c] \in Int /\ kept[c] \in Int
  BY LegsOf DEF IInv, Stored
<1>2. Drift
  BY <1>1 DEF Drift
<1> QED BY <1>1, <1>2, DriftKeeps

\* Nothing new was carried out.
LEMMA LimitsStay == ASSUME IInv, last' = last PROVE LimitsHold'
BY DEF IInv, LimitsHold, CyclePays, WithinTolerance, Within

\* A transaction without an answer expires.
LEMMA ExpireKeeps == ASSUME IInv, NEW t \in flying, Expire(t) PROVE IInv'
<1>1. /\ flying' = flying \ {t} /\ UNCHANGED <<bal, seqNo, landed, failed, last, market, job, report, saved, kept, excused, spent>>
  BY DEF Expire, history
<1>2. Stored' /\ Ids' = Ids
  BY <1>1 DEF IInv, Stored, Ids, market
<1>3. OnTheWay'
  BY <1>1, <1>2, OnTheWayLess DEF IInv, OnTheWay, Stored
<1>4. Reported'
  BY <1>1, <1>2, ReportedStays
<1>5. Running' /\ LimitsHold'
  BY <1>1, <1>2, StillRuns, LimitsStay
<1> QED BY <1>2, <1>3, <1>4, <1>5 DEF IInv

\* A bound is counted.
LEMMA SpendKeeps ==
    ASSUME IInv, NEW what \in {"commands", "moves", "deposits", "faults"}, Spend(what)
    PROVE  spent' \in [commands : Nat, moves : Nat, deposits : Nat, faults : Nat, txs : Nat]
               /\ spent'.txs = spent.txs /\ Ids' = Ids
<1>1. spent \in [commands : Nat, moves : Nat, deposits : Nat, faults : Nat, txs : Nat]
  BY DEF IInv, Stored
<1>2. PICK n : n = spent[what]
  OBVIOUS
<1>3. n \in Nat /\ spent' = [spent EXCEPT ![what] = n + 1]
  BY <1>1, <1>2 DEF Spend
<1>4. PICK m \in Nat : m = n + 1
  BY <1>3
<1>5. spent' \in [commands : Nat, moves : Nat, deposits : Nat, faults : Nat, txs : Nat] /\ spent'.txs = spent.txs
  BY <1>1, <1>3, <1>4
<1> QED BY <1>5 DEF Ids

\* Prices move.
LEMMA MoveKeeps == ASSUME IInv, Move PROVE IInv'
<1>1. UNCHANGED <<bal, seqNo, flying, landed, failed, last, job, report, saved, kept, excused>> /\ Spend("moves")
  BY DEF Move, ledger, history
<1>2. premium' \in [Legs -> Premiums] /\ detour' \in [Legs -> Detours]
  BY DEF Move, IInv, Stored
<1>3. spent' \in [commands : Nat, moves : Nat, deposits : Nat, faults : Nat, txs : Nat] /\ Ids' = Ids
  BY <1>1, SpendKeeps
<1>4. Stored'
  BY <1>1, <1>2, <1>3 DEF IInv, Stored
<1>5. OnTheWay'
  BY <1>1, <1>3, OnTheWayLess DEF IInv, OnTheWay, Stored
<1>6. Reported' /\ Running' /\ LimitsHold'
  BY <1>1, <1>3, ReportedStays, StillRuns, LimitsStay
<1> QED BY <1>4, <1>5, <1>6 DEF IInv

\* Somebody pays the account.
LEMMA DepositKeeps == ASSUME IInv, Deposit PROVE IInv'
<1>1. UNCHANGED <<seqNo, flying, landed, failed, last, market, job, report, saved, excused>> /\ Spend("deposits")
  BY DEF Deposit
<1>2. spent' \in [commands : Nat, moves : Nat, deposits : Nat, faults : Nat, txs : Nat] /\ Ids' = Ids
  BY <1>1, SpendKeeps
<1>3. PICK c \in Counters : bal' = [bal EXCEPT ![c] = @ + 1] /\ kept' = [kept EXCEPT ![c] = @ + 1]
  BY DEF Deposit
<1>4. bal \in [Assets -> Int] /\ kept \in [Assets -> Int] /\ \A d \in Counters : d \in Assets
  BY LegsOf DEF IInv, Stored
<1>5. bal' \in [Assets -> Int] /\ kept' \in [Assets -> Int] /\ Drift
  BY <1>3, <1>4 DEF Drift
<1>6. Stored'
  BY <1>1, <1>2, <1>5 DEF IInv, Stored, market
<1>7. OnTheWay'
  BY <1>1, <1>2, OnTheWayLess DEF IInv, OnTheWay, Stored
<1>8. Reported' /\ LimitsHold'
  BY <1>1, <1>2, ReportedStays, LimitsStay
<1>9. Running'
  BY <1>1, <1>2, <1>5, DriftKeeps
<1> QED BY <1>6, <1>7, <1>8, <1>9 DEF IInv

\* A command starts.
LEMMA StartKeeps == ASSUME IInv, Start PROVE IInv'
<1>1. UNCHANGED <<bal, seqNo, flying, landed, failed, last, market, report, saved, kept, excused>>
        /\ Spend("commands") /\ Idle
  BY DEF Start, ledger, history
<1>2. spent' \in [commands : Nat, moves : Nat, deposits : Nat, faults : Nat, txs : Nat] /\ Ids' = Ids
  BY <1>1, SpendKeeps
<1>3. PICK plan \in Commands \cup Simulations : job' = Begin(plan)
  BY DEF Start
<1>4. plan \in Seq(Attempts)
  BY CommandsAre
<1>5. ~excused' => AllFlat'
  BY <1>1, JobIs DEF AllFlat, Flat
<1>6. PICK j : j = Begin(plan)
  OBVIOUS
<1>7. Started(j)'
  BY <1>4, <1>5, <1>6, BeginsAgain DEF BeginStarts
<1>8. Running'
  BY <1>3, <1>6, <1>7 DEF Running
<1>9. Stored'
  BY <1>1, <1>2 DEF IInv, Stored, market
<1>10. OnTheWay'
  BY <1>1, <1>2, OnTheWayLess DEF IInv, OnTheWay, Stored
<1>11. Reported' /\ LimitsHold'
  BY <1>1, <1>2, ReportedStays, LimitsStay
<1> QED BY <1>8, <1>9, <1>10, <1>11 DEF IInv
------------------------------------------------------------------------------
\* The step a command is at leads from x to z.
Stage(x, z) ==
    /\ x \in State /\ z \in State /\ Leads(job.by, x, Next1, z) /\ Goes(job.by, Tail(job.steps), z)
    /\ Len(job.quotes) = x.n
    /\ job.by.how = "arbitrage" => \A i \in 1..x.n : job.quotes[i].leg \in Pair(job.by.c)
    /\ x.at = "priced" => job.quotes[3].leg = <<job.by.c, Base>> /\ job.quotes[3].in = job.got
    /\ ~excused => Balanced(job, x)
    /\ job \in Jobs /\ job.steps # <<>> /\ Next1 \in Steps
    /\ IsFiniteSet(job.txs) /\ job.txs \subseteq Ids \cap landed /\ job.now \in job.txs \cup {None}
    /\ Sends(Tail(job.steps)) \in Nat
    /\ Cardinality(job.txs) + (IF Submits(Next1) THEN Sends(Tail(job.steps)) + 1 ELSE Sends(Tail(job.steps))) = job.wanted

\* The command is at a stage, and its next step leads on.
LEMMA StageIs == ASSUME IInv, ~Idle, Next1.do # "await" PROVE \E x, z : Stage(x, z)
<1>1. Under(job) /\ ~Waits(job) /\ Ahead(job) = job.steps
  BY JobIs DEF Waits, Ahead, Next1
<1>2. PICK x \in State : Remembers(job, x) /\ (~excused => Balanced(job, x))
  BY <1>1 DEF Under
<1>3. PICK y \in State : y.at = "flat" /\ Accepts(job.by, job.steps, x, y)
  BY <1>1, <1>2 DEF Remembers, Goes
<1>4. job.steps # <<>> /\ job.steps \in Seq(Steps)
  BY <1>1, <1>3 DEF Under, Accepts
<1>5. Next1 \in Steps /\ \E z \in State : Leads(job.by, x, Next1, z) /\ Accepts(job.by, Tail(job.steps), z, y)
  BY <1>3, <1>4, TailAccepts DEF Next1
<1>6. PICK z \in State : Leads(job.by, x, Next1, z) /\ Accepts(job.by, Tail(job.steps), z, y)
  BY <1>5
<1>7. Goes(job.by, Tail(job.steps), z)
  BY <1>3, <1>6 DEF Goes
<1>8. /\ Sends(Tail(job.steps)) \in Nat
      /\ Sends(job.steps) = IF Submits(Next1) THEN Sends(Tail(job.steps)) + 1 ELSE Sends(Tail(job.steps))
  BY <1>4, SendsTail DEF Next1
<1>9. Stage(x, z)
  BY <1>1, <1>2, <1>4, <1>5, <1>6, <1>7, <1>8 DEF Stage, Under, Settling, Remembers
<1> QED BY <1>9

\* A step that reads, decides or saves is followed by the next one.
LEMMA ProceedKeeps ==
    ASSUME IInv, ~Idle, NEW x, NEW z, Stage(x, z), ~Submits(Next1),
           NEW j \in Jobs, SameCommand(j, job), j.txs = job.txs, j.now = job.now, Advance(j), Len(j.quotes) = z.n,
           j.by.how = "arbitrage" => \A i \in 1..z.n : j.quotes[i].leg \in Pair(j.by.c),
           z.at = "priced" => j.quotes[3].leg = <<j.by.c, Base>> /\ j.quotes[3].in = j.got,
           ~excused => Balanced(j, z),
           UNCHANGED ledger, kept' = kept, market' = market, spent' = spent, saved' \in landed
               \cup {None, Simulated}
    PROVE  IInv'
<1>1. bal' = bal /\ seqNo' = seqNo /\ flying' = flying /\ landed' = landed /\ failed' = failed /\ last' = last /\ Ids' = Ids
  BY DEF ledger, Ids
<1>2. Ready(j, z)'
  BY <1>1 DEF Ready, Stage, SameCommand
<1>3. ~excused => Balanced(j, z)'
  BY <1>1 DEF Balanced, AllFlat, Elsewhere, Flat
<1>4. Running' /\ Reported' /\ excused' \in BOOLEAN /\ (excused => excused')
  BY <1>1, <1>2, <1>3, AdvanceKeeps DEF Stage
<1>5. Stored'
  BY <1>1, <1>4 DEF IInv, Stored, market
<1>6. OnTheWay'
  BY <1>1, <1>4, OnTheWayLess DEF IInv, OnTheWay
<1> QED BY <1>1, <1>4, <1>5, <1>6, LimitsStay DEF IInv

\* An attempt ends with nothing sent.
LEMMA EndsKeep ==
    ASSUME IInv, ~Idle, NEW r, Ending(r), EndAs(r),
           UNCHANGED ledger, kept' = kept, market' = market, saved' = saved,
           spent' \in [commands : Nat, moves : Nat, deposits : Nat, faults : Nat, txs : Nat], Ids' = Ids
    PROVE  IInv'
<1>1. bal' = bal /\ seqNo' = seqNo /\ flying' = flying /\ landed' = landed /\ failed' = failed /\ last' = last
  BY DEF ledger
<1>2. Running' /\ Reported' /\ excused' \in BOOLEAN /\ (excused => excused')
  BY <1>1, EndKeeps
<1>3. Stored'
  BY <1>1, <1>2 DEF IInv, Stored, market
<1>4. OnTheWay'
  BY <1>1, <1>2, OnTheWayLess DEF IInv, OnTheWay
<1> QED BY <1>1, <1>2, <1>3, <1>4, LimitsStay DEF IInv

\* A read or a decision ends the attempt.
LEMMA ClosedKeeps ==
    ASSUME IInv, ~Idle, NEW r \in {"error", "nothing received", "not executed"}, End(r),
           UNCHANGED ledger, kept' = kept, market' = market, saved' = saved,
           spent' \in [commands : Nat, moves : Nat, deposits : Nat, faults : Nat, txs : Nat], Ids' = Ids
    PROVE  IInv'
<1>1. PICK o : o = Closed(r)
  OBVIOUS
<1>2. Ending(o) /\ EndAs(o)
  BY <1>1 DEF Ending, Closed, End
<1> QED BY <1>2, EndsKeep

\* A read fails.
LEMMA ReadFailsKeeps == ASSUME IInv, ~Idle, ReadFails PROVE IInv'
<1>1. Spend("faults") /\ End("error") /\ UNCHANGED <<ledger, market, saved, kept>>
  BY DEF ReadFails
<1>2. spent' \in [commands : Nat, moves : Nat, deposits : Nat, faults : Nat, txs : Nat] /\ Ids' = Ids
  BY <1>1, SpendKeeps
<1> QED BY <1>1, <1>2, ClosedKeeps

\* Steps that ask nothing of the state lead nowhere else.
LEMMA LooksStay ==
    ASSUME NEW x, NEW z, Stage(x, z), Next1.do \in Looks
    PROVE  z = x /\ ~Submits(Next1)
BY DEF Stage, Leads, Asks, Trades, Looks, Tests, Chances, Submits

\* A step that only looks.
LEMMA LookKeeps ==
    ASSUME IInv, ~Idle, Next1.do \in Looks, NEW j \in Jobs, SameCommand(j, job), j.txs = job.txs, j.now = job.now,
           j.quotes = job.quotes, j.counter = job.counter, j.got = job.got, Advance(j),
           UNCHANGED <<ledger, market, kept, spent>>, saved' = saved \/ saved' \in landed \cup {None, Simulated}
    PROVE  IInv'
<1>1. Next1.do # "await"
  BY DEF Looks, Tests, Chances
<1>2. PICK x, z : Stage(x, z)
  BY <1>1, StageIs
<1>3. z = x /\ ~Submits(Next1)
  BY <1>2, LooksStay
<1>4. ~excused => Balanced(j, z)
  BY <1>2, <1>3, BalancedSame DEF Stage, BalancedOnce, SameCommand
<1>5. saved' \in landed \cup {None, Simulated}
  BY DEF IInv, Stored
<1> QED BY <1>2, <1>3, <1>4, <1>5, ProceedKeeps DEF Stage, SameCommand
------------------------------------------------------------------------------
\* The sequence number is read.
LEMMA AccountKeeps ==
    ASSUME IInv, ~Idle, Next1.do = "account", Advance([job EXCEPT !.seq = seqNo]),
           UNCHANGED <<ledger, market, saved, kept, spent>>
    PROVE  IInv'
<1>1. job \in Jobs /\ seqNo \in Nat
  BY JobIs DEF Under, IInv, Stored
<1>2. PICK j : j = [job EXCEPT !.seq = seqNo]
  OBVIOUS
<1>3. /\ j \in Jobs /\ j.steps = job.steps /\ j.by = job.by /\ j.later = job.later /\ j.wanted = job.wanted
      /\ j.txs = job.txs /\ j.now = job.now /\ j.quotes = job.quotes /\ j.counter = job.counter /\ j.got = job.got
  BY <1>1, <1>2 DEF Jobs
<1>4. Advance(j)
  BY <1>2
<1> QED BY <1>3, <1>4, LookKeeps DEF Looks, SameCommand

\* The balance is read before leg A: what is there is the account's own.
LEMMA BeforeKeeps ==
    ASSUME IInv, ~Idle, Next1.do = "before", Advance([job EXCEPT !.counter = bal[Doing.c]]),
           UNCHANGED <<ledger, market, saved, kept, spent>>
    PROVE  IInv'
<1>1. PICK x, z : Stage(x, z)
  BY StageIs
<1>2. /\ job.by.how = "arbitrage" /\ x.at = "flat" /\ z = At("known", x.n) /\ ~Submits(Next1)
      /\ job \in Jobs /\ job.by.c \in Counters /\ x.n \in Nat
  BY <1>1 DEF Stage, Leads, Asks, Trades, Looks, Tests, Chances, Submits, Jobs, By, State
<1>3. z.at = "known" /\ z.n = x.n
  BY <1>2 DEF At
<1>4. bal \in [Assets -> Int] /\ bal[job.by.c] \in Int /\ kept[job.by.c] \in Int
  BY <1>2, LegsOf DEF IInv, Stored
<1>5. PICK n \in Int : n = bal[job.by.c]
  BY <1>4
<1>6. PICK j : j = [job EXCEPT !.counter = n]
  OBVIOUS
<1>7. /\ j \in Jobs /\ j.steps = job.steps /\ j.by = job.by /\ j.later = job.later /\ j.wanted = job.wanted
      /\ j.txs = job.txs /\ j.now = job.now /\ j.quotes = job.quotes /\ j.counter = n /\ j.got = job.got
  BY <1>2, <1>6 DEF Jobs
<1>8. Advance(j)
  BY <1>5, <1>6 DEF Doing
<1>9. ~excused => Balanced(j, z)
  <2>1. ~excused => AllFlat
    BY <1>1, <1>2 DEF Stage, Balanced
  <2>2. ~excused => n <= kept[job.by.c]
    BY <1>2, <1>4, <1>5, <2>1 DEF AllFlat, Flat
  <2> QED BY <1>2, <1>3, <1>7, <2>1, <2>2 DEF Balanced
<1>10. saved' \in landed \cup {None, Simulated}
  BY DEF IInv, Stored
<1> QED BY <1>1, <1>2, <1>3, <1>7, <1>8, <1>9, <1>10, ProceedKeeps DEF Stage, SameCommand

\* What arrived is measured: selling that much leaves the account flat.
LEMMA AfterKeeps ==
    ASSUME IInv, ~Idle, Next1.do = "after", Received > 0, Advance([job EXCEPT !.got = Received]),
           UNCHANGED <<ledger, market, saved, kept, spent>>
    PROVE  IInv'
<1>1. PICK x, z : Stage(x, z)
  BY StageIs
<1>2. /\ job.by.how = "arbitrage" /\ x = At("bought", 2) /\ z = At("measured", 2) /\ ~Submits(Next1)
      /\ job \in Jobs /\ job.by.c \in Counters
  BY <1>1 DEF Stage, Leads, Asks, Trades, Looks, Tests, Chances, Submits, Jobs, By, State
<1>3. z.at = "measured" /\ z.n = 2 /\ x.at = "bought" /\ x.n = 2
  BY <1>2 DEF At
<1>4. bal[job.by.c] \in Int /\ kept[job.by.c] \in Int /\ job.counter \in Int
  BY <1>2, LegsOf DEF IInv, Stored, Jobs
<1>5. PICK n \in Nat : n = bal[job.by.c] - job.counter
  BY <1>4 DEF Received, Doing
<1>6. PICK j : j = [job EXCEPT !.got = n]
  OBVIOUS
<1>7. /\ j \in Jobs /\ j.steps = job.steps /\ j.by = job.by /\ j.later = job.later /\ j.wanted = job.wanted
      /\ j.txs = job.txs /\ j.now = job.now /\ j.quotes = job.quotes /\ j.counter = job.counter /\ j.got = n
  BY <1>2, <1>6 DEF Jobs
<1>8. Advance(j)
  BY <1>5, <1>6 DEF Doing, Received
<1>9. ~excused => Balanced(j, z)
  <2>1. ~excused => job.txs # {} /\ Elsewhere(job.by.c) /\ job.counter <= kept[job.by.c]
    BY <1>1, <1>2, <1>3 DEF Stage, Balanced
  <2>2. ~excused => bal[job.by.c] <= kept[job.by.c] + n
    BY <1>4, <1>5, <2>1
  <2> QED BY <1>2, <1>3, <1>7, <2>1, <2>2 DEF Balanced
<1>10. saved' \in landed \cup {None, Simulated}
  BY DEF IInv, Stored
<1> QED BY <1>1, <1>2, <1>3, <1>7, <1>8, <1>9, <1>10, ProceedKeeps DEF Stage, SameCommand

\* What a quote is asked for, and what it offers.
Asked == CASE Next1.of = "amount"   -> Amount
           [] Next1.of = "quoted"   -> Last(job.quotes).out
           [] Next1.of = "received" -> job.got
Offered(in) == IF Doing.kind = "receive" THEN Needed(Next1.leg, in) ELSE Convert(Next1.leg, in)

\* A quote is asked for.
LEMMA QuoteKeeps ==
    ASSUME IInv, ~Idle, Next1.do = "quote",
           Advance([job EXCEPT !.quotes = Append(@, [leg |-> Next1.leg, in |-> Asked, out |-> Offered(Asked), hops |-> Hops[Next1.leg], detour |-> detour[Next1.leg]])]),
           UNCHANGED <<ledger, market, saved, kept, spent>>
    PROVE  IInv'
<1>1. PICK x, z : Stage(x, z)
  BY StageIs
<1>2. Asks(job.by, x, Next1, z) /\ ~Submits(Next1)
  BY <1>1 DEF Stage, Leads, Trades, Looks, Tests, Chances, Submits
<1>3. /\ job \in Jobs /\ job.quotes \in Seq(Quotes) /\ Len(job.quotes) = x.n /\ x.n \in Nat /\ job.got \in Nat
      /\ Next1.leg \in Legs /\ Hops[Next1.leg] \in Nat /\ Amount \in Nat
  BY <1>1, <1>2, SwapAssumptions DEF Stage, Jobs, State, Asks
<1>4. Asked \in Nat
  <2>1. CASE Next1.of = "amount"
    BY <2>1, <1>3 DEF Asked
  <2>2. CASE Next1.of = "quoted"
    <3>1. x.n >= 1
      BY <2>2, <1>2 DEF Asks
    <3>2. Last(job.quotes) = job.quotes[Len(job.quotes)] /\ Len(job.quotes) \in 1..Len(job.quotes)
      BY <1>3, <3>1 DEF Last
    <3>3. Last(job.quotes) \in Quotes
      BY <1>3, <3>2, ElementOfSeq
    <3> QED BY <2>2, <3>3 DEF Asked, Quotes
  <2>3. CASE Next1.of = "received"
    BY <2>3, <1>3 DEF Asked
  <2> QED BY <1>2, <2>1, <2>2, <2>3 DEF Asks
<1>5. PICK n \in Nat : n = Asked
  BY <1>4
<1>6. Offered(n) \in Nat
  <2>1. premium[Next1.leg] \in Int
    BY <1>3, SwapAssumptions DEF IInv, Stored
  <2> QED BY <2>1 DEF Offered, Needed, Convert
<1>7. PICK q : q = [leg |-> Next1.leg, in |-> n, out |-> Offered(n), hops |-> Hops[Next1.leg], detour |-> detour[Next1.leg]]
  OBVIOUS
<1>8. q \in Quotes /\ q.leg = Next1.leg /\ q.in = n
  <2>1. detour[Next1.leg] \in Nat
    BY <1>3, SwapAssumptions DEF IInv, Stored
  <2> QED BY <2>1, <1>3, <1>6, <1>7 DEF Quotes
<1>9. PICK qs : qs = Append(job.quotes, q)
  OBVIOUS
<1>10. /\ qs \in Seq(Quotes) /\ Len(qs) = x.n + 1 /\ qs[x.n + 1] = q
       /\ \A i \in 1..x.n : qs[i] = job.quotes[i]
  BY <1>3, <1>8, <1>9, AppendProperties
<1>11. PICK j : j = [job EXCEPT !.quotes = qs]
  OBVIOUS
<1>12. /\ j \in Jobs /\ j.steps = job.steps /\ j.by = job.by /\ j.later = job.later /\ j.wanted = job.wanted
       /\ j.txs = job.txs /\ j.now = job.now /\ j.quotes = qs /\ j.counter = job.counter /\ j.got = job.got
  BY <1>3, <1>10, <1>11 DEF Jobs
<1>13. Advance(j)
  BY <1>5, <1>7, <1>9, <1>11
<1>14. z.n = x.n + 1 /\ ((x.at = "flat" /\ z.at = "flat") \/ (x.at = "measured" /\ z.at = "priced"))
  <2>1. CASE x.at = "flat" /\ z = At("flat", x.n + 1)
    BY <2>1, <1>3 DEF At
  <2>2. CASE x = At("measured", 2) /\ z = At("priced", 3)
    BY <2>2 DEF At
  <2> QED BY <1>2, <2>1, <2>2 DEF Asks
<1>15. ~excused => Balanced(j, z)
  <2>1. ~excused => Balanced(job, x)
    BY <1>1 DEF Stage
  <2> QED BY <1>12, <1>14, <2>1 DEF Balanced
<1>16. j.by.how = "arbitrage" => \A i \in 1..z.n : j.quotes[i].leg \in Pair(j.by.c)
  <2> SUFFICES ASSUME job.by.how = "arbitrage", NEW i \in 1..(x.n + 1) PROVE qs[i].leg \in Pair(job.by.c)
    BY <1>12, <1>14
  <2>1. CASE i \in 1..x.n
    BY <2>1, <1>1, <1>10 DEF Stage
  <2>2. CASE i = x.n + 1
    <3>1. Next1.leg \in Pair(job.by.c)
      BY <1>2 DEF Asks, Pair
    <3> QED BY <2>2, <3>1, <1>8, <1>10
  <2> QED BY <2>1, <2>2, <1>3
<1>17. z.at = "priced" => j.quotes[3].leg = <<j.by.c, Base>> /\ j.quotes[3].in = j.got
  <2> SUFFICES ASSUME z.at = "priced" PROVE qs[3].leg = <<job.by.c, Base>> /\ qs[3].in = job.got
    BY <1>12
  <2>1. x = At("measured", 2) /\ Next1.of = "received" /\ Next1.leg = <<job.by.c, Base>>
    BY <1>2 DEF Asks, At
  <2>2. x.n = 2 /\ n = job.got
    BY <2>1, <1>5 DEF At, Asked
  <2> QED BY <2>1, <2>2, <1>8, <1>10
<1>18. saved' \in landed \cup {None, Simulated}
  BY DEF IInv, Stored
<1> QED BY <1>1, <1>2, <1>10, <1>12, <1>13, <1>14, <1>15, <1>16, <1>17, <1>18, ProceedKeeps DEF SameCommand

\* All reads.
LEMMA ReadKeeps == ASSUME IInv, ~Idle, Read PROVE IInv'
<1>1. CASE ReadFails
  BY <1>1, ReadFailsKeeps
<1>2. CASE ~ReadFails
  <2>1. UNCHANGED <<ledger, market, saved, kept, spent>>
    BY <1>2 DEF Read
  <2>2. CASE Next1.do = "account" /\ Advance([job EXCEPT !.seq = seqNo])
    BY <2>1, <2>2, AccountKeeps
  <2>3. CASE Next1.do = "before" /\ Advance([job EXCEPT !.counter = bal[Doing.c]])
    BY <2>1, <2>3, BeforeKeeps
  <2>4. CASE Next1.do = "after" /\ IF Received <= 0 THEN End("nothing received") ELSE Advance([job EXCEPT !.got = Received])
    <3>1. CASE Received <= 0
      <4>1. spent' \in [commands : Nat, moves : Nat, deposits : Nat, faults : Nat, txs : Nat] /\ Ids' = Ids
        BY <2>1 DEF IInv, Stored, Ids
      <4> QED BY <2>1, <2>4, <3>1, <4>1, ClosedKeeps
    <3>2. CASE ~(Received <= 0)
      <4>1. bal[job.by.c] \in Int /\ job.counter \in Int
        BY JobIs DEF Under, Jobs, By, IInv, Stored
      <4>2. Received > 0
        BY <3>2, <4>1 DEF Received, Doing
      <4> QED BY <2>1, <2>4, <3>2, <4>2, AfterKeeps
    <3> QED BY <3>1, <3>2
  <2>5. CASE /\ Next1.do = "quote"
             /\ Advance([job EXCEPT !.quotes = Append(@, [leg |-> Next1.leg, in |-> Asked, out |-> Offered(Asked), hops |-> Hops[Next1.leg], detour |-> detour[Next1.leg]])])
    BY <2>1, <2>5, QuoteKeeps
  <2> QED BY <1>2, <2>2, <2>3, <2>4, <2>5 DEF Read, Asked, Offered
<1> QED BY <1>1, <1>2
\* Tests, chances and forgetting.
LEMMA DecideKeeps == ASSUME IInv, ~Idle, Decide PROVE IInv'
<1>1. UNCHANGED <<ledger, market, saved, kept, spent>> /\ job \in Jobs
  BY JobIs DEF Decide, Under
<1>2. CASE Next1.do \in Tests \cup Chances /\ Advance(job)
  <2>1. Next1.do \in Looks
    BY <1>2 DEF Looks
  <2> QED BY <1>1, <1>2, <2>1, LookKeeps DEF SameCommand
<1>3. CASE End("not executed")
  <2>1. spent' \in [commands : Nat, moves : Nat, deposits : Nat, faults : Nat, txs : Nat] /\ Ids' = Ids
    BY <1>1 DEF IInv, Stored, Ids
  <2> QED BY <1>1, <1>3, <2>1, ClosedKeeps
<1>4. CASE Next1.do = "forget" /\ Advance([job EXCEPT !.quotes = <<>>])
  <2>1. PICK x, z : Stage(x, z)
    BY <1>4, StageIs
  <2>2. x.at = "flat" /\ z = At("flat", 0) /\ ~Submits(Next1)
    BY <1>4, <2>1 DEF Stage, Leads, Asks, Trades, Looks, Tests, Chances, Submits
  <2>3. z.at = "flat" /\ z.n = 0
    BY <2>2 DEF At
  <2>4. PICK j : j = [job EXCEPT !.quotes = <<>>]
    OBVIOUS
  <2>5. <<>> \in Seq(Quotes) /\ Len(<<>>) = 0
    BY EmptySeq
  <2>6. /\ j \in Jobs /\ j.steps = job.steps /\ j.by = job.by /\ j.later = job.later /\ j.wanted = job.wanted
        /\ j.txs = job.txs /\ j.now = job.now /\ j.quotes = <<>> /\ j.counter = job.counter /\ j.got = job.got
    BY <1>1, <2>4, <2>5 DEF Jobs
  <2>7. Advance(j)
    BY <1>4, <2>4
  <2>8. ~excused => Balanced(j, z)
    <3>1. ~excused => Balanced(job, x)
      BY <2>1 DEF Stage
    <3> QED BY <2>2, <2>3, <2>6, <3>1 DEF Balanced
  <2>9. saved' \in landed \cup {None, Simulated}
    BY <1>1 DEF IInv, Stored
  <2> QED BY <1>1, <2>1, <2>2, <2>3, <2>5, <2>6, <2>7, <2>8, <2>9, ProceedKeeps DEF SameCommand
<1> QED BY <1>2, <1>3, <1>4 DEF Decide

\* The payment is saved for the reports.
LEMMA SaveKeeps == ASSUME IInv, ~Idle, Save PROVE IInv'
<1>1. UNCHANGED <<ledger, market, kept, spent>> /\ job \in Jobs /\ Next1.do = "save" /\ Advance(job)
  BY JobIs DEF Save, Under
<1>2. PICK x, z : Stage(x, z)
  BY <1>1, StageIs
<1>3. saved' \in landed \cup {None, Simulated}
  BY <1>2 DEF Stage, Save
<1> QED BY <1>1, <1>3, LookKeeps DEF Looks, SameCommand

\* The cycle is found on the ledger, or never will be.
LEMMA AwaitKeeps == ASSUME IInv, ~Idle, AwaitTransaction PROVE IInv'
<1>1. UNCHANGED <<ledger, market, saved, kept>> /\ Next1.do = "await" /\ Under(job) /\ Waits(job)
  BY JobIs DEF AwaitTransaction, Next1, Waits
<1>2. /\ job \in Jobs /\ Settling(job) /\ job.now # None /\ job.txs \ {job.now} \subseteq landed
           /\ job.txs \subseteq Ids
      /\ Cardinality(job.txs) + Sends(Tail(job.steps)) = job.wanted /\ job.now \in job.txs /\ IsFiniteSet(job.txs)
  BY <1>1 DEF Under, Settling, Ahead
<1>3. bal' = bal /\ seqNo' = seqNo /\ flying' = flying /\ landed' = landed /\ failed' = failed /\ last' = last
  BY <1>1 DEF ledger
<1>4. CASE job.now \in landed /\ Advance(job) /\ spent' = spent
  <2>1. PICK x \in State : Remembers(job, x) /\ (~excused => Balanced(job, x))
    BY <1>1 DEF Under
  <2>2. PICK j : j = job
    OBVIOUS
  <2>3. j \in Jobs /\ SameCommand(j, job) /\ Advance(j)
    BY <1>2, <1>4, <2>2 DEF SameCommand
  <2>4. Ids' = Ids
    BY <1>4 DEF Ids
  <2>5. Ready(j, x)'
    BY <1>1, <1>2, <1>3, <1>4, <2>1, <2>2, <2>4 DEF Ready, Remembers, Ahead
  <2>6. ~excused => Balanced(j, x)'
    BY <1>1, <1>3, <2>1, <2>2 DEF Balanced, AllFlat, Elsewhere, Flat
  <2>7. Running' /\ Reported' /\ excused' \in BOOLEAN /\ (excused => excused')
    BY <1>3, <2>3, <2>4, <2>5, <2>6, AdvanceKeeps
  <2>8. Stored'
    BY <1>1, <1>3, <1>4, <2>7 DEF IInv, Stored, Ids, market
  <2>9. OnTheWay'
    BY <1>3, <2>4, <2>7, OnTheWayLess DEF IInv, OnTheWay
  <2> QED BY <1>3, <2>7, <2>8, <2>9, LimitsStay DEF IInv
<1>5. job.now \in Ids
  BY <1>2
<1>6. CASE job.now \in failed /\ TimedOut("failed", FALSE) /\ spent' = spent
  <2>1. job.now \notin Flown /\ job.now \notin landed
    BY <1>6 DEF Flown, IInv, OnTheWay, Stored
  <2>2. PICK o : o = [Closed("failed") EXCEPT !.named = job.now, !.unseen = FALSE]
    OBVIOUS
  <2>3. Ending(o) /\ EndAs(o)
    BY <1>5, <1>6, <2>1, <2>2 DEF Ending, Closed, TimedOut
  <2>4. spent' \in [commands : Nat, moves : Nat, deposits : Nat, faults : Nat, txs : Nat] /\ Ids' = Ids
    BY <1>6 DEF IInv, Stored, Ids
  <2> QED BY <1>1, <2>3, <2>4, EndsKeep
<1>7. CASE ~InTheAir /\ job.now \notin landed \cup failed /\ TimedOut("not found", FALSE) /\ spent' = spent
  <2>1. PICK o : o = [Closed("not found") EXCEPT !.named = job.now, !.unseen = FALSE]
    OBVIOUS
  <2>2. Ending(o) /\ EndAs(o)
    BY <1>5, <1>7, <2>1 DEF Ending, Closed, TimedOut, InTheAir, Flown
  <2>3. spent' \in [commands : Nat, moves : Nat, deposits : Nat, faults : Nat, txs : Nat] /\ Ids' = Ids
    BY <1>7 DEF IInv, Stored, Ids
  <2> QED BY <1>1, <2>2, <2>3, EndsKeep
<1>8. CASE ~InTheAir /\ Spend("faults") /\ TimedOut("not found", TRUE)
  <2>1. PICK o : o = [Closed("not found") EXCEPT !.named = job.now, !.unseen = TRUE]
    OBVIOUS
  <2>2. Ending(o) /\ EndAs(o)
    BY <1>5, <1>8, <2>1 DEF Ending, Closed, TimedOut, InTheAir, Flown
  <2>3. spent' \in [commands : Nat, moves : Nat, deposits : Nat, faults : Nat, txs : Nat] /\ Ids' = Ids
    BY <1>8, SpendKeeps
  <2> QED BY <1>1, <2>2, <2>3, EndsKeep
<1> QED BY <1>4, <1>6, <1>7, <1>8 DEF AwaitTransaction

------------------------------------------------------------------------------
\* The transaction a command submits at a step from x to z.
Tx(x, z, t) ==
    /\ Stage(x, z) /\ Submits(Next1) /\ Sound(t) /\ t.id = spent.txs + 1 /\ t.how = job.by.how
    /\ \/ /\ Next1.do = "cycle" /\ t.kind = "cycle" /\ t.how = "atomic" /\ z = x
       \/ /\ Next1.do = "send" /\ t.kind # "cycle" /\ t.how \in {"swap", "zk", "quoted"} /\ z = x
       \/ /\ t.how = "arbitrage" /\ t.kind = "send" /\ t.leg \in Pair(job.by.c)
          /\ \/ x = At("known", 2) /\ z = At("bought", 2)
             \/ x = At("priced", 3) /\ z = At("flat", 3) /\ t.leg = <<job.by.c, Base>> /\ t.amount = job.got

\* The transaction of a cycle.
LEMMA CycleIs ==
    ASSUME IInv, ~Idle, Next1.do = "cycle", NEW t, t = CycleTx
    PROVE  \E x, z : Tx(x, z, t)
<1>1. PICK x, z : Stage(x, z)
  BY StageIs
<1>2. job.by.how = "atomic" /\ z = x /\ job.by \in By /\ job.seq \in Nat /\ Submits(Next1)
  BY <1>1 DEF Stage, Leads, Asks, Trades, Looks, Tests, Chances, Submits, Jobs
<1>3. /\ job.by.c \in Counters /\ job.by.c \in Assets /\ job.by.to \in Destinations /\ Amount \in Nat
           /\ MinProfit \in Nat
      /\ spent.txs \in Nat /\ Base \in Assets
  BY <1>2, LegsOf, SwapAssumptions DEF By, IInv, Stored, Assets
<1>4. DestMin \in Nat /\ DestMin = Amount + MinProfit + Fee
  BY <1>3 DEF DestMin, Fee
<1>5. /\ t.id = spent.txs + 1 /\ t.how = job.by.how /\ t.kind = "cycle" /\ t.leg = <<Base, Base>> /\ t.c = job.by.c
      /\ t.amount = Amount /\ t.limit = DestMin /\ t.quoted = t.shown
  BY DEF CycleTx, Doing
<1>6. t \in Txs
  <2>1. PICK m, n \in Nat : m = spent.txs + 1 /\ n = job.seq + 1
    BY <1>2, <1>3
  <2>2. t = [id |-> m, seq |-> n, how |-> job.by.how, to |-> job.by.to, c |-> job.by.c,
             kind |-> "cycle", leg |-> <<Base, Base>>, amount |-> Amount, direct |-> FALSE, shown |-> DestMin,
             quoted |-> DestMin, allowed |-> 0, limit |-> DestMin]
    BY <2>1 DEF CycleTx, Doing
  <2>3. job.by.how \in Hows /\ <<Base, Base>> \in Assets \X Assets
    BY <1>2, <1>3 DEF Hows
  <2> QED BY <1>3, <1>4, <2>1, <2>2, <2>3 DEF Txs
<1>7. Sound(t)
  BY <1>2, <1>3, <1>4, <1>5, <1>6 DEF Sound
<1> QED BY <1>1, <1>2, <1>5, <1>7 DEF Tx

\* The transaction of a quote.
LEMMA SwapTxIs ==
    ASSUME IInv, NEW q \in Quotes, job \in Jobs, NEW t, t = SwapTx(q)
    PROVE  /\ Sound(t) /\ t.id = spent.txs + 1 /\ t.how = job.by.how /\ t.kind = job.by.kind /\ t.leg = q.leg
               /\ t.amount = q.in
           /\ t.kind \in Ways
<1>1. /\ q.leg \in Legs /\ q.in \in Nat /\ q.out \in Nat /\ q.hops = Hops[q.leg] /\ q.hops \in Nat
      /\ q.detour \in Nat /\ q.leg \in Assets \X Assets
  BY DEF Quotes, Legs
<1>2. /\ job.by \in By /\ job.by.how \in Hows /\ job.by.c \in Assets /\ job.by.to \in Destinations
           /\ job.by.kind \in Ways
      /\ job.by.slip \in Nat /\ job.by.slip <= (IF job.by.how = "quoted" THEN 1 ELSE Slippage) /\ job.seq \in Nat
      /\ spent.txs \in Nat /\ Slippage \in Nat
  BY SwapAssumptions DEF Jobs, By, IInv, Stored
<1>3. PICK a : a = Allowed(q)
  OBVIOUS
<1>4. /\ a \in Nat /\ (job.by.how = "zk" => a <= 2 * Slippage)
      /\ a <= (IF job.by.how = "quoted" THEN 2 ELSE 2 * Slippage) + Hops[q.leg]
  <2>1. a = IF job.by.how = "zk" THEN 2 * job.by.slip ELSE 2 * job.by.slip + (IF q.hops > 6 THEN 6 ELSE q.hops)
    BY <1>3 DEF Allowed, DynamicSlippage, Doing
  <2> QED BY <1>1, <1>2, <2>1
<1>5. PICK l, o, p : l = ApplySlippage(o, a, job.by.kind = "receive") /\ o = Picked(q) /\ p = Prefers(q)
  OBVIOUS
<1>6. l \in Nat /\ o \in Nat /\ p \in BOOLEAN /\ (~p => o = q.out)
  <2>1. o \in Nat /\ p \in BOOLEAN /\ (~p => o = q.out)
    <3>1. p \in BOOLEAN /\ o = IF p THEN Worse(q.out, q.detour, job.by.kind) ELSE q.out
      BY <1>1, <1>5 DEF Picked, Prefers, Doing
    <3>2. Worse(q.out, q.detour, job.by.kind) \in Nat
      BY <1>1 DEF Worse
    <3> QED BY <1>1, <3>1, <3>2
  <2> QED BY <1>4, <1>5, <2>1 DEF ApplySlippage
<1>7. PICK m, n \in Nat : m = spent.txs + 1 /\ n = job.seq + 1
  BY <1>2
<1>8. t = [id |-> m, seq |-> n, how |-> job.by.how, to |-> job.by.to, c |-> job.by.c,
           kind |-> job.by.kind, leg |-> q.leg, amount |-> q.in, direct |-> p, shown |-> q.out, quoted |-> o,
           allowed |-> a, limit |-> l]
  BY <1>3, <1>5, <1>7 DEF SwapTx, Doing
<1>9. t \in Txs
  BY <1>1, <1>2, <1>4, <1>6, <1>7, <1>8 DEF Txs
<1>10. /\ t.id = m /\ t.how = job.by.how /\ t.kind = job.by.kind /\ t.leg = q.leg /\ t.amount = q.in
            /\ t.quoted = o /\ t.shown = q.out /\ t.direct = p
       /\ t.allowed = a /\ t.limit = l
  BY <1>8
<1>11. Sound(t)
  BY <1>1, <1>2, <1>4, <1>5, <1>6, <1>9, <1>10 DEF Sound, Tolerance, Ways
<1> QED BY <1>2, <1>7, <1>10, <1>11

\* A swap submits a quote it has, at the stage where it may.
LEMMA SwapIsSound ==
    ASSUME IInv, ~Idle, Next1.do = "send", NEW t, t = SwapTx(job.quotes[Next1.quote])
    PROVE  \E x, z : Tx(x, z, t)
<1>1. PICK x, z : Stage(x, z)
  BY StageIs
<1>2. Trades(job.by, x, Next1, z) /\ Submits(Next1) /\ job \in Jobs
  BY <1>1 DEF Stage, Leads, Asks, Looks, Tests, Chances, Submits
<1>3. Next1.quote \in 1..x.n /\ x.n = Len(job.quotes)
  <2>1. x.n = Len(job.quotes)
    BY <1>1 DEF Stage
  <2>2. CASE Next1.quote \in 1..x.n
    BY <2>1, <2>2
  <2>3. CASE Next1.quote = 1 /\ x = At("known", 2)
    BY <2>1, <2>3 DEF At
  <2>4. CASE Next1.quote = 3 /\ x = At("priced", 3)
    BY <2>1, <2>4 DEF At
  <2> QED BY <1>2, <2>2, <2>3, <2>4 DEF Trades
<1>4. PICK q : q = job.quotes[Next1.quote]
  OBVIOUS
<1>5. q \in Quotes
  <2>1. job.quotes \in Seq(Quotes)
    BY <1>2 DEF Jobs
  <2> QED BY <1>3, <1>4, <2>1, ElementOfSeq
<1>6. /\ Sound(t) /\ t.id = spent.txs + 1 /\ t.how = job.by.how /\ t.kind = job.by.kind /\ t.leg = q.leg
           /\ t.amount = q.in
      /\ t.kind \in Ways
  BY <1>2, <1>4, <1>5, SwapTxIs
<1>7. CASE job.by.how \in {"swap", "zk", "quoted"}
  BY <1>1, <1>2, <1>6, <1>7 DEF Tx, Trades, Ways
<1>8. CASE job.by.how = "arbitrage"
  <2>1. job.by.kind = "send" /\ q.leg \in Pair(job.by.c)
    BY <1>1, <1>2, <1>3, <1>4, <1>8 DEF Stage, Jobs, By
  <2>2. CASE Next1.quote = 1 /\ x = At("known", 2) /\ z = At("bought", 2)
    BY <1>1, <1>2, <1>6, <1>8, <2>1, <2>2 DEF Tx
  <2>3. CASE Next1.quote = 3 /\ x = At("priced", 3) /\ z = At("flat", 3)
    <3>1. x.at = "priced"
      BY <2>3 DEF At
    <3>2. q.leg = <<job.by.c, Base>> /\ q.in = job.got
      BY <1>1, <1>4, <2>3, <3>1 DEF Stage
    <3> QED BY <1>1, <1>2, <1>6, <1>8, <2>1, <2>3, <3>2 DEF Tx
  <2> QED BY <1>2, <1>8, <2>2, <2>3 DEF Trades
<1> QED BY <1>2, <1>7, <1>8 DEF Trades

\* A submission takes the next identity.
LEMMA CountKeeps ==
    ASSUME IInv, spent' = [spent EXCEPT !.txs = @ + 1] \/ spent' = [spent EXCEPT !.txs = @ + 1, !.faults = @ + 1]
    PROVE  /\ spent' \in [commands : Nat, moves : Nat, deposits : Nat, faults : Nat, txs : Nat]
           /\ Ids \subseteq Ids' /\ spent.txs + 1 \in Ids' /\ spent.txs + 1 \notin Ids /\ spent.txs + 1 \in Nat
<1>1. spent \in [commands : Nat, moves : Nat, deposits : Nat, faults : Nat, txs : Nat]
  BY DEF IInv, Stored
<1>2. spent' \in [commands : Nat, moves : Nat, deposits : Nat, faults : Nat, txs : Nat]
        /\ spent'.txs = spent.txs + 1
  <2>1. CASE spent' = [spent EXCEPT !.txs = @ + 1]
    BY <1>1, <2>1
  <2>2. CASE spent' = [spent EXCEPT !.txs = @ + 1, !.faults = @ + 1]
    <3>1. PICK m, n \in Nat : m = spent.txs + 1 /\ n = spent.faults + 1
      BY <1>1
    <3>2. spent' = [spent EXCEPT !.txs = m, !.faults = n]
      BY <2>2, <3>1
    <3> QED BY <1>1, <3>1, <3>2
  <2> QED BY <2>1, <2>2
<1>3. spent.txs \in Nat
  BY <1>1
<1> QED BY <1>2, <1>3 DEF Ids

\* What the transaction does to the account is what its step says.
LEMMA TradedBalanced ==
    ASSUME IInv, NEW x, NEW z, NEW t, Tx(x, z, t), Include(t), Acceptable(t), ~excused,
           NEW j, j.by = job.by, j.counter = job.counter, j.got = job.got, j.txs = job.txs \cup {t.id}
    PROVE  Balanced(j, z)'
<1>1. /\ bal \in [Assets -> Int] /\ kept \in [Assets -> Int] /\ \A c \in Counters : c \in Assets /\ c # Base
      /\ Stored /\ LimitsHold /\ Sound(t)
  BY LegsOf DEF IInv, Stored, Tx
<1>2. /\ bal' \in [Assets -> Int] /\ kept' \in [Assets -> Int]
      /\ t.kind = "cycle" => \A c \in Counters : bal'[c] = bal[c] /\ kept'[c] = kept[c]
      /\ t.how \in {"swap", "zk"} => \A c \in Counters : bal'[c] - kept'[c] = bal[c] - kept[c]
      /\ t.how \notin {"swap", "zk"} => kept' = kept
      /\ \A c \in Counters : c \notin {t.leg[1], t.leg[2]} => bal'[c] = bal[c]
      /\ t.kind = "send" /\ t.leg[1] \in Counters => bal'[t.leg[1]] = bal[t.leg[1]] - t.amount
  BY <1>1, IncludeKeeps
<1>3. Balanced(job, x) /\ t.how = job.by.how /\ job \in Jobs /\ job.by \in By
  BY DEF Tx, Stage, Jobs
<1>4. PICK c : c = job.by.c
  OBVIOUS
<1>5. CASE t.how = "arbitrage"
  <2>1. /\ t.kind = "send" /\ t.leg \in Pair(c) /\ c \in Counters /\ job.counter \in Int /\ job.got \in Nat
        /\ \/ x = At("known", 2) /\ z = At("bought", 2)
           \/ x = At("priced", 3) /\ z = At("flat", 3) /\ t.leg = <<c, Base>> /\ t.amount = job.got
    BY <1>3, <1>5, <1>4 DEF Tx, Jobs, By
  <2>2. Elsewhere(c) => Elsewhere(c)'
    <3>1. \A d \in Counters \ {c} : bal'[d] = bal[d]
      BY <1>1, <1>2, <2>1 DEF Pair
    <3> QED BY <1>2, <1>5, <3>1 DEF Elsewhere, Flat
  <2>3. CASE x = At("known", 2) /\ z = At("bought", 2)
    <3>1. AllFlat /\ job.counter <= kept[c]
      BY <1>3, <1>5, <1>4, <2>3 DEF Balanced, At
    <3>2. Elsewhere(c)'
      BY <2>2, <3>1 DEF AllFlat, Elsewhere
    <3>3. z.at = "bought" /\ j.txs # {}
      BY <2>3 DEF At
    <3>4. j.by.how = "arbitrage" /\ j.by.c = c /\ j.counter = job.counter
      BY <1>3, <1>5, <1>4
    <3>5. j.counter <= kept'[c] /\ (j.counter = job.counter)
      BY <1>2, <1>5, <3>1, <3>4
    <3> QED BY <3>2, <3>3, <3>4, <3>5 DEF Balanced
  <2>4. CASE x = At("priced", 3) /\ z = At("flat", 3) /\ t.leg = <<c, Base>> /\ t.amount = job.got
    <3>1. Elsewhere(c) /\ bal[c] <= kept[c] + job.got
      BY <1>3, <1>5, <1>4, <2>4 DEF Balanced, At
    <3>2. Elsewhere(c)'
      BY <2>2, <3>1
    <3>3. bal'[c] = bal[c] - job.got /\ kept' = kept
      BY <1>2, <1>5, <2>1, <2>4
    <3>4. Flat(c)'
      <4>1. bal[c] \in Int /\ kept[c] \in Int
        BY <1>1, <2>1
      <4> QED BY <2>1, <3>1, <3>3, <4>1 DEF Flat
    <3>5. AllFlat'
      BY <3>2, <3>4 DEF AllFlat, Elsewhere
    <3>6. z.at = "flat"
      BY <2>4 DEF At
    <3>7. j.by.how = "arbitrage"
      BY <1>3, <1>5
    <3> QED BY <3>5, <3>6, <3>7 DEF Balanced
  <2> QED BY <2>1, <2>3, <2>4
<1>6. CASE t.how = "quoted"
  <2>1. j.txs # {}
    OBVIOUS
  <2> QED BY <1>3, <1>6, <2>1 DEF Balanced
<1>7. CASE t.how \notin {"arbitrage", "quoted"}
  <2>1. AllFlat
    BY <1>3, <1>7 DEF Balanced
  <2>2. t.kind = "cycle" \/ t.how \in {"swap", "zk"}
    BY <1>7 DEF Tx
  <2>3. \A d \in Counters : bal'[d] - kept'[d] = bal[d] - kept[d] /\ bal'[d] \in Int /\ kept'[d] \in Int
          /\ bal[d] \in Int /\ kept[d] \in Int
    BY <1>1, <1>2, <2>2
  <2>4. AllFlat'
    BY <2>1, <2>3 DEF AllFlat, Flat
  <2> QED BY <1>3, <1>7, <2>4 DEF Balanced
<1> QED BY <1>5, <1>6, <1>7

\* A submission is answered.
LEMMA AnsweredKeeps == ASSUME IInv, ~Idle, NEW x, NEW z, NEW t, Tx(x, z, t), Answered(t) PROVE IInv'
<1>1. /\ Include(t) /\ spent' = [spent EXCEPT !.txs = @ + 1] /\ flying' = flying /\ market' = market
           /\ saved' = saved
  BY DEF Answered
<1>2. /\ spent' \in [commands : Nat, moves : Nat, deposits : Nat, faults : Nat, txs : Nat]
      /\ Ids \subseteq Ids' /\ t.id \in Ids' /\ t.id \notin Ids /\ t.id \in Nat
  BY <1>1, CountKeeps DEF Tx
<1>3. /\ bal' \in [Assets -> Int] /\ kept' \in [Assets -> Int] /\ seqNo' \in Nat /\ LimitsHold'
      /\ landed' = IF Acceptable(t) THEN landed \cup {t.id} ELSE landed
      /\ failed' = IF Acceptable(t) THEN failed ELSE failed \cup {t.id}
  BY <1>1, IncludeKeeps DEF IInv, Tx
<1>4. /\ landed \subseteq landed' /\ landed' \subseteq Ids' /\ saved' \in landed' \cup {None, Simulated}
      /\ premium' \in [Legs -> Premiums] /\ detour' \in [Legs -> Detours] /\ failed' \subseteq Ids' \ landed'
  BY <1>1, <1>2, <1>3 DEF IInv, Stored, market
<1>5. Running' /\ Reported' /\ excused' \in BOOLEAN /\ (excused => excused')
  <2>1. CASE ~Acceptable(t)
    <3>1. EndSubmitted(t, "refused")
      BY <2>1 DEF Answered
    <3>2. Running' /\ Reported' /\ excused'
      BY <3>1, RefusedKeeps
    <3>3. excused' = TRUE
      BY <3>1 DEF EndSubmitted
    <3> QED BY <3>2, <3>3
  <2>2. CASE Acceptable(t)
    <3>1. Advance(Submitted(t))
      BY <2>2 DEF Answered
    <3>2. PICK i : i = t.id
      OBVIOUS
    <3>3. PICK txs : txs = job.txs \cup {i}
      OBVIOUS
    <3>4. Stage(x, z) /\ Submits(Next1) /\ job \in Jobs /\ z \in State /\ x \in State
      BY DEF Tx, Stage
    <3>5. PICK j : j = [job EXCEPT !.txs = txs, !.now = i]
      OBVIOUS
    <3>6. /\ j \in Jobs /\ j.steps = job.steps /\ j.by = job.by /\ j.later = job.later /\ j.wanted = job.wanted
          /\ j.txs = txs /\ j.now = i /\ j.quotes = job.quotes /\ j.counter = job.counter /\ j.got = job.got
      <4>1. txs \in SUBSET Nat /\ i \in Nat
        BY <1>2, <3>2, <3>3, <3>4 DEF Jobs
      <4> QED BY <3>4, <3>5, <4>1 DEF Jobs
    <3>7. Advance(j)
      BY <3>1, <3>2, <3>3, <3>5 DEF Submitted
    <3>8. /\ IsFiniteSet(txs) /\ Cardinality(txs) + Sends(Tail(job.steps)) = job.wanted
      <4>1. IsFiniteSet(job.txs) /\ i \notin job.txs /\ Sends(Tail(job.steps)) \in Nat
            /\ Cardinality(job.txs) + (Sends(Tail(job.steps)) + 1) = job.wanted
        BY <1>2, <3>2, <3>4 DEF Stage
      <4>2. IsFiniteSet(txs) /\ Cardinality(txs) = Cardinality(job.txs) + 1 /\ Cardinality(job.txs) \in Nat
        BY <3>3, <4>1, FS_AddElement, FS_CardinalityType
      <4> QED BY <4>1, <4>2
    <3>9. txs \subseteq Ids' \cap landed'
      BY <1>2, <1>3, <2>2, <3>2, <3>3, <3>4 DEF Stage
    <3>10. /\ Len(job.quotes) = z.n
           /\ job.by.how = "arbitrage" => \A k \in 1..z.n : job.quotes[k].leg \in Pair(job.by.c)
           /\ z.at = "priced" => job.quotes[3].leg = <<job.by.c, Base>> /\ job.quotes[3].in = job.got
      <4>1. z = x \/ (x = At("known", 2) /\ z = At("bought", 2)) \/ (x = At("priced", 3) /\ z = At("flat", 3))
        BY DEF Tx
      <4>2. z.n = x.n /\ (z.at = "priced" => x.at = "priced")
        BY <4>1 DEF At
      <4> QED BY <3>4, <4>2 DEF Stage
    <3>11. Ready(j, z)'
      BY <3>3, <3>4, <3>6, <3>8, <3>9, <3>10 DEF Ready, Stage
    <3>12. ~excused => Balanced(j, z)'
      BY <1>1, <2>2, <3>2, <3>3, <3>6, TradedBalanced
    <3>13. landed' \subseteq landed \cup (Ids' \ Ids)
      BY <1>2, <1>3
    <3> QED BY <1>1, <1>2, <1>4, <3>4, <3>6, <3>7, <3>11, <3>12, <3>13, AdvanceKeeps DEF SameCommand
  <2> QED BY <2>1, <2>2
<1>6. OnTheWay'
  <2>1. \A u \in flying : u.id \notin landed' \cup failed'
    BY <1>2, <1>3 DEF IInv, OnTheWay
  <2> QED BY <1>1, <1>2, <1>5, <2>1, OnTheWayLess
<1>7. Stored'
  BY <1>2, <1>3, <1>4, <1>5 DEF Stored
<1> QED BY <1>3, <1>5, <1>6, <1>7 DEF IInv

\* A submission is refused for its sequence number.
LEMMA BadSequenceKeeps == ASSUME IInv, ~Idle, NEW t, BadSequence(t) PROVE IInv'
<1>1. EndSubmitted(t, "refused") /\ spent' = [spent EXCEPT !.txs = @ + 1]
        /\ UNCHANGED <<ledger, market, saved, kept>>
  BY DEF BadSequence
<1>2. spent' \in [commands : Nat, moves : Nat, deposits : Nat, faults : Nat, txs : Nat] /\ Ids \subseteq Ids'
  BY <1>1, CountKeeps
<1>3. Running' /\ Reported' /\ excused' /\ excused' \in BOOLEAN
  BY <1>1, RefusedKeeps DEF EndSubmitted
<1>4. bal' = bal /\ seqNo' = seqNo /\ flying' = flying /\ landed' = landed /\ failed' = failed /\ last' = last
  BY <1>1 DEF ledger
<1>5. Stored'
  BY <1>1, <1>2, <1>3, <1>4 DEF IInv, Stored, market
<1>6. OnTheWay'
  BY <1>2, <1>3, <1>4, OnTheWayLess DEF IInv, OnTheWay
<1> QED BY <1>3, <1>4, <1>5, <1>6, LimitsStay DEF IInv

\* A cycle without an answer is awaited where it was submitted.
LEMMA WaitingRuns ==
    ASSUME IInv, ~Idle, NEW x, NEW z, NEW t, Tx(x, z, t), t.kind = "cycle", flying' = flying
               \cup {t}, landed' = landed,
           bal' = bal, kept' = kept, excused' = excused, Ids \subseteq Ids', t.id \in Ids', t.id \notin Ids, t.id \in Nat,
           job' = [Submitted(t) EXCEPT !.steps = [@ EXCEPT ![1] = [do |-> "await"]]]
    PROVE  Running'
<1>1. Stage(x, z) /\ Submits(Next1) /\ job \in Jobs /\ z = x /\ x \in State /\ job.by.how = "atomic"
        /\ job.steps # <<>>
  BY DEF Tx, Stage, Idle
<1>2. PICK i, txs : i = t.id /\ txs = job.txs \cup {i}
  OBVIOUS
<1>3. PICK w : w = [do |-> "await"]
  OBVIOUS
<1>4. PICK s : s = [job.steps EXCEPT ![1] = w]
  OBVIOUS
<1>5. PICK j : j = [job EXCEPT !.txs = txs, !.now = i, !.steps = s]
  OBVIOUS
<1>6. job' = j
  <2>1. PICK k : k = [job EXCEPT !.txs = txs, !.now = i]
    OBVIOUS
  <2>2. Submitted(t) = k
    BY <1>2, <2>1 DEF Submitted
  <2>3. k.steps = job.steps
    BY <1>1, <2>1 DEF Jobs
  <2>4. job' = [k EXCEPT !.steps = s]
    BY <1>3, <1>4, <2>2, <2>3
  <2> QED BY <1>1, <1>5, <2>1, <2>4 DEF Jobs
<1>7. w \in Awaiting /\ w.do = "await"
  BY <1>3 DEF Awaiting
<1>8. job.steps \in Seq(Steps \cup Awaiting) /\ Len(job.steps) \in Nat \ {0}
  BY <1>1, LastStep DEF Jobs
<1>9. s \in Seq(Steps \cup Awaiting) /\ Len(s) = Len(job.steps) /\ s # <<>> /\ s[1] = w
      /\ \A m \in 2..Len(job.steps) : s[m] = job.steps[m]
  BY <1>4, <1>7, <1>8, ExceptSeq
<1>10. Head(s) = w /\ Tail(s) = Tail(job.steps)
  <2>1. /\ Tail(s) \in Seq(Steps \cup Awaiting) /\ Len(Tail(s)) = Len(s) - 1
             /\ \A m \in 1..Len(Tail(s)) : Tail(s)[m] = s[m + 1]
    BY <1>9, HeadTailProperties
  <2>2. /\ Tail(job.steps) \in Seq(Steps \cup Awaiting) /\ Len(Tail(job.steps)) = Len(job.steps) - 1
        /\ \A m \in 1..Len(Tail(job.steps)) : Tail(job.steps)[m] = job.steps[m + 1]
    BY <1>1, <1>8, HeadTailProperties
  <2>3. \A m \in 1..Len(Tail(s)) : Tail(s)[m] = Tail(job.steps)[m]
    <3> SUFFICES ASSUME NEW m \in 1..Len(Tail(s)) PROVE Tail(s)[m] = Tail(job.steps)[m]
      OBVIOUS
    <3>1. m + 1 \in 2..Len(job.steps) /\ m \in 1..Len(Tail(job.steps))
      BY <1>8, <1>9, <2>1, <2>2
    <3> QED BY <1>9, <2>1, <2>2, <3>1
  <2>4. Tail(s) = Tail(job.steps)
    BY <1>9, <2>1, <2>2, <2>3, SeqEqual
  <2>5. Head(s) = s[1]
    BY <1>9, HeadTailProperties
  <2> QED BY <1>9, <2>4, <2>5
<1>11. /\ j \in Jobs /\ j.steps = s /\ j.by = job.by /\ j.later = job.later /\ j.wanted = job.wanted
       /\ j.txs = txs /\ j.now = i /\ j.quotes = job.quotes /\ j.counter = job.counter /\ j.got = job.got
  <2>1. txs \in SUBSET Nat /\ i \in Nat
    BY <1>1, <1>2 DEF Jobs
  <2> QED BY <1>1, <1>5, <1>9, <2>1 DEF Jobs
<1>12. Waits(j) /\ Ahead(j) = Tail(job.steps)
  BY <1>7, <1>10, <1>11 DEF Waits, Ahead
<1>13. IsFiniteSet(txs) /\ Cardinality(txs) + Sends(Tail(job.steps)) = job.wanted
  <2>1. IsFiniteSet(job.txs) /\ i \notin job.txs /\ Sends(Tail(job.steps)) \in Nat
        /\ Cardinality(job.txs) + (Sends(Tail(job.steps)) + 1) = job.wanted
    BY <1>1, <1>2 DEF Stage
  <2>2. IsFiniteSet(txs) /\ Cardinality(txs) = Cardinality(job.txs) + 1 /\ Cardinality(job.txs) \in Nat
    BY <1>2, <2>1, FS_AddElement, FS_CardinalityType
  <2> QED BY <2>1, <2>2
<1>14. txs \subseteq Ids' /\ i \in txs /\ i # None /\ txs \ {i} \subseteq landed'
  <2>1. i # None
    BY <1>2 DEF Ids, None
  <2> QED BY <1>1, <1>2, <2>1 DEF Stage
<1>15. Settling(j)'
  BY <1>11, <1>12, <1>13, <1>14 DEF Settling
<1>16. Remembers(j, x)
  BY <1>1, <1>11, <1>12 DEF Remembers, Stage
<1>17. ~excused => Balanced(j, x)'
  <2>1. ~excused => AllFlat
    BY <1>1 DEF Stage, Balanced
  <2> QED BY <1>1, <1>11, <2>1 DEF Balanced, AllFlat, Flat
<1>18. Under(j)'
  BY <1>1, <1>9, <1>11, <1>15, <1>16, <1>17 DEF Under, Remembers
<1>19. Started(j)'
  BY <1>9, <1>11, <1>18 DEF Started
<1> QED BY <1>6, <1>19 DEF Running

\* The answer to a submission is lost.
LEMMA LostKeeps == ASSUME IInv, ~Idle, NEW x, NEW z, NEW t, Tx(x, z, t), Lost(t) PROVE IInv'
<1>1. /\ flying' = flying \cup {t} /\ spent' = [spent EXCEPT !.txs = @ + 1, !.faults = @ + 1]
      /\ UNCHANGED <<bal, seqNo, landed, failed, last, market, saved, kept>>
  BY DEF Lost
<1>2. /\ spent' \in [commands : Nat, moves : Nat, deposits : Nat, faults : Nat, txs : Nat]
      /\ Ids \subseteq Ids' /\ t.id \in Ids' /\ t.id \notin Ids /\ t.id \in Nat
  BY <1>1, CountKeeps DEF Tx
<1>3. \/ EndSubmitted(t, "no answer")
      \/ /\ t.kind = "cycle" /\ job' = [Submitted(t) EXCEPT !.steps = [@ EXCEPT ![1] = [do |-> "await"]]]
         /\ report' = report /\ excused' = excused
  BY DEF Lost
<1>4. Running' /\ Reported' /\ excused' \in BOOLEAN /\ (excused => excused') /\ (~excused' => t.kind = "cycle")
  <2>1. CASE EndSubmitted(t, "no answer")
    BY <2>1, RefusedKeeps DEF EndSubmitted
  <2>2. CASE /\ t.kind = "cycle" /\ job' = [Submitted(t) EXCEPT !.steps = [@ EXCEPT ![1] = [do |-> "await"]]]
             /\ report' = report /\ excused' = excused
    <3>1. Running'
      BY <1>1, <1>2, <2>2, WaitingRuns
    <3>2. TimeoutIsSettled'
      <4>1. TimeoutIsSettled /\ (report.result \in {"not found", "failed"} => report.named \in Ids)
        BY DEF IInv, Reported
      <4> QED BY <1>1, <1>2, <2>2, <4>1 DEF TimeoutIsSettled
    <3>3. Reported'
      BY <1>1, <1>2, <2>2, <3>2 DEF IInv, Reported
    <3> QED BY <2>2, <3>1, <3>3 DEF IInv, Stored
  <2> QED BY <1>3, <2>1, <2>2
<1>5. OnTheWay'
  <2>1. t.id \notin landed \cup failed /\ Sound(t)
    BY <1>2 DEF IInv, Stored, Tx
  <2>2. \A u \in flying : Sound(u) /\ u.id \in Ids /\ u.id \notin landed \cup failed /\ u.id # t.id
    BY <1>2 DEF IInv, OnTheWay
  <2>3. \A u \in flying' : Sound(u) /\ u.id \in Ids' /\ u.id \notin landed' \cup failed'
    BY <1>1, <1>2, <2>1, <2>2
  <2>4. \A u, v \in flying' : u.id = v.id => u = v
    BY <1>1, <2>2 DEF IInv, OnTheWay
  <2>5. ~excused' => \A u \in flying' : u.kind = "cycle"
    BY <1>1, <1>4 DEF IInv, OnTheWay, Stored
  <2> QED BY <2>3, <2>4, <2>5 DEF OnTheWay, Sound, Tolerance
<1>6. Stored'
  BY <1>1, <1>2, <1>4 DEF IInv, Stored, market
<1> QED BY <1>1, <1>4, <1>5, <1>6, LimitsStay DEF IInv

\* All submissions.
LEMMA SubmitKeeps == ASSUME IInv, ~Idle, Submit PROVE IInv'
<1>1. PICK t : /\ t = IF Next1.do = "cycle" THEN CycleTx ELSE SwapTx(job.quotes[Next1.quote])
               /\ Answered(t) \/ BadSequence(t) \/ Lost(t) \/ ReadFails
  BY DEF Submit
<1>2. PICK x, z : Tx(x, z, t)
  <2>1. CASE Next1.do = "cycle"
    BY <1>1, <2>1, CycleIs
  <2>2. CASE Next1.do = "send"
    BY <1>1, <2>2, SwapIsSound
  <2> QED BY <2>1, <2>2 DEF Submit
<1>3. CASE Answered(t)
  BY <1>2, <1>3, AnsweredKeeps
<1>4. CASE BadSequence(t)
  BY <1>4, BadSequenceKeeps
<1>5. CASE Lost(t)
  BY <1>2, <1>5, LostKeeps
<1>6. CASE ReadFails
  BY <1>6, ReadFailsKeeps
<1> QED BY <1>1, <1>3, <1>4, <1>5, <1>6
------------------------------------------------------------------------------
\* The account before the first command.
LEMMA InitIInv == Init => IInv
<1> SUFFICES ASSUME Init PROVE IInv
  OBVIOUS
<1>1. /\ bal = [a \in Assets |-> 2 * Amount] /\ kept = bal /\ seqNo = 0 /\ flying = {} /\ landed = {} /\ failed = {}
           /\ last = [tx |-> NoTx]
      /\ premium = [leg \in Legs |-> 0] /\ detour = [leg \in Legs |-> 0] /\ job = Fresh /\ report = [result |-> "none"] /\ saved = None
           /\ excused = FALSE
      /\ spent = [commands |-> 0, moves |-> 0, deposits |-> 0, faults |-> 0, txs |-> 0]
  BY DEF Init
<1>2. bal \in [Assets -> Int] /\ premium \in [Legs -> Premiums] /\ detour \in [Legs -> Detours]
  <2>1. 2 * Amount \in Int /\ 0 \in Premiums /\ 0 \in Detours
    BY SwapAssumptions
  <2> QED BY <1>1, <2>1
<1>3. Stored
  BY <1>1, <1>2 DEF Stored, None
<1>4. OnTheWay
  BY <1>1 DEF OnTheWay
<1>5. Reported
  BY <1>1 DEF Reported, TimeoutIsSettled
<1>6. LimitsHold
  BY <1>1 DEF LimitsHold, CyclePays, WithinTolerance
<1>7. AllFlat
  <2>1. \A c \in Counters : bal[c] \in Int
    BY <1>2, LegsOf
  <2> QED BY <1>1, <2>1 DEF AllFlat, Flat
<1>8. job.steps = <<>>
  BY <1>1 DEF Fresh
<1>9. Started(job)
  BY <1>1, <1>7, <1>8 DEF Started
<1>10. Running
  BY <1>9 DEF Running
<1> QED BY <1>3, <1>4, <1>5, <1>6, <1>10 DEF IInv

\* A step of nobody.
LEMMA StutterKeeps == ASSUME IInv, UNCHANGED vars PROVE IInv'
<1>1. /\ bal' = bal /\ seqNo' = seqNo /\ flying' = flying /\ landed' = landed /\ failed' = failed /\ last' = last /\ market' = market
      /\ job' = job /\ report' = report /\ saved' = saved /\ kept' = kept /\ excused' = excused /\ spent' = spent
  BY DEF vars, ledger, history
<1>2. Ids' = Ids /\ Stored'
  BY <1>1 DEF IInv, Stored, Ids, market
<1>3. OnTheWay'
  BY <1>1, <1>2, OnTheWayLess DEF IInv, OnTheWay, Stored
<1>4. Reported'
  BY <1>1, <1>2, ReportedStays
<1>5. Running'
  BY <1>1, <1>2, StillRuns
<1> QED BY <1>1, <1>2, <1>3, <1>4, <1>5, LimitsStay DEF IInv

\* Every step keeps the invariant.
LEMMA NextKeeps == ASSUME IInv, [Next]_vars PROVE IInv'
<1>1. CASE Start
  BY <1>1, StartKeeps
<1>2. CASE Step
  <2>1. ~Idle /\ (Read \/ Decide \/ Save \/ Submit \/ AwaitTransaction)
    BY <1>2 DEF Step
  <2> QED BY <2>1, ReadKeeps, DecideKeeps, SaveKeeps, SubmitKeeps, AwaitKeeps
<1>3. CASE Settle
  <2>1. PICK t \in flying : Land(t) \/ Expire(t)
    BY <1>3 DEF Settle
  <2> QED BY <2>1, LandKeeps, ExpireKeeps
<1>4. CASE Move
  BY <1>4, MoveKeeps
<1>5. CASE Deposit
  BY <1>5, DepositKeeps
<1>6. CASE UNCHANGED vars
  BY <1>6, StutterKeeps
<1> QED BY <1>1, <1>2, <1>3, <1>4, <1>5, <1>6 DEF Next

\* The invariant holds always.
THEOREM Invariance == Spec => []IInv
<1>1. IInv /\ [Next]_vars => IInv'
  BY NextKeeps
<1> QED BY InitIInv, <1>1, PTL DEF Spec

\* The types of the variables.
LEMMA InvariantTypes == ASSUME IInv PROVE TypeOK
<1>1. /\ bal \in [Assets -> Int] /\ kept \in [Assets -> Int] /\ seqNo \in Nat
      /\ premium \in [Legs -> Premiums] /\ detour \in [Legs -> Detours] /\ excused \in BOOLEAN
      /\ landed \subseteq Ids /\ failed \subseteq Ids /\ spent.txs \in Nat
  BY DEF IInv, Stored
<1>2. saved \in Nat \cup {Simulated}
  <2>1. saved \in landed \cup {None, Simulated}
    BY DEF IInv, Stored
  <2> QED BY <1>1, <2>1 DEF Ids, None
<1>3. \A t \in flying : t.limit \in Nat /\ t.amount \in Nat /\ t.id \in Ids
  <2>1. \A t \in flying : t \in Txs /\ t.id \in Ids
    BY DEF IInv, OnTheWay, Sound
  <2> QED BY <2>1 DEF Txs
<1> QED BY <1>1, <1>2, <1>3 DEF TypeOK, Ids

\* What a command reports as done was carried out, all of it; a round trip that
\* timed out and is reported as failed or not found is not on its way and was
\* not carried out, but for one no look-up was answered for: for any assets,
\* amounts, prices and bounds, whatever is lost, late or refused
\* (internal/swap and how the swap commands take its answers).
THEOREM AlwaysReportsTrue == Spec => []ReportsTrue
<1>1. IInv => ReportsTrue
  <2> SUFFICES ASSUME IInv PROVE ReportsTrue
    OBVIOUS
  <2>1. ReportedIsOnLedger
    BY DEF IInv, Stored, Reported, ReportedIsOnLedger
  <2>2. TimeoutIsSettled
    BY DEF IInv, Reported
  <2> QED BY <2>1, <2>2, InvariantTypes DEF ReportsTrue
<1> QED BY Invariance, <1>1, PTL

\* Between two commands no counter asset is left over from a round trip,
\* unless a failure was reported or legs were traded as quoted: the round trip
\* in two transactions sells what arrived, not what was quoted.
THEOREM AlwaysRoundTripsEndFlat == Spec => []RoundTripsEndFlat
<1>1. IInv => RoundTripsEndFlat
  BY JobIs DEF RoundTripsEndFlat, AllFlat, Flat
<1> QED BY Invariance, <1>1, PTL

\* No transaction the ledger carries out breaks the limit it was built for: a
\* cycle returns what it took, the fee and the profit asked for; a swap stays
\* within its slippage of the quote, a zk swap of the path it preferred.
THEOREM AlwaysLimitsHold == Spec => []LimitsHold
<1>1. IInv => LimitsHold
  BY DEF IInv
<1> QED BY Invariance, <1>1, PTL

------------------------------------------------------------------------------
(* The chat, where a user asks for a swap, reads the quote and confirms it:   *)
(* what ConfirmedOnce asks of every execution, swap or other, for any number  *)
(* of networks, words, messages and opportunities.                            *)
(*                                                                            *)
(* A handler is one of a few lists of steps (Plans), and which step is next   *)
(* tells in which list (PlanOf).  What was shown under a number is Open until *)
(* it is executed or withdrawn; the numbers of what is pending are open       *)
(* (Shown), and so is that of a payment under way.  Meets says what a handler *)
(* that will execute something has behind it: a word that confirmed, in a     *)
(* message later than the last execution.                                     *)

CONSTANTS Networks, Words, MaxWords, MaxPicks, MaxMessages, MaxShown, MaxMishaps
VARIABLES llm, running, net, services, registry, op, quote, opps, call, ran, conversation, acts

Chat == INSTANCE ChatSession WITH history <- conversation, spent <- acts

LEMMA Bounds == ASSUME Chat!ChatAssumptions PROVE {MaxWords, MaxPicks, MaxMessages, MaxShown, MaxMishaps} \subseteq Nat
BY DEF Chat!ChatAssumptions

\* The handlers' lists of steps.
StartPlan   == <<"seek", "activate", "follow">>
QuotePlan   == <<"seek", "activate", "follow", "quote">>
SwapPlan    == <<"quoted", "active", "seek", "activate", "follow", "swap">>
AskPlan     == <<"collect">>
PayAskPlan  == <<"seek", "activate", "follow", "collect">>
SummaryPlan == <<"seek", "activate", "follow", "active", "summary">>
PayPlan     == <<"active", "pay">>
AnswerPlan  == <<"answer">>
CyclePlan   == <<"selected", "active", "cycle">>
SwitchPlan  == <<"use">>
NetworkPlan == <<"set", "use", "renew">>
ScanPlan    == <<"scan">>
SelectPlan  == <<"select">>
BalancePlan == <<"active", "refresh">>
TrustPlan   == <<"active">>
CancelPlan  == <<"cancel">>
QuitPlan    == <<"quit">>
Plans == {StartPlan, QuotePlan, SwapPlan, AskPlan, PayAskPlan, SummaryPlan, PayPlan, AnswerPlan, CyclePlan,
          SwitchPlan, NetworkPlan, ScanPlan, SelectPlan, BalancePlan, TrustPlan, CancelPlan, QuitPlan}

Names == {"seek", "activate", "follow", "quote", "quoted", "active", "swap", "collect", "summary", "pay", "answer", "selected", "cycle", "use", "set", "renew", "scan", "select", "refresh", "cancel", "quit"}

\* Step k of a plan is next.
Along(plan, k) == k \in 1..Len(plan) /\ call.steps = SubSeq(plan, k, Len(plan))

\* What is shown under a number can still be executed.
Open(kind, id) ==
    /\ id \in 1..conversation.shown /\ id = conversation.last[kind] /\ id \notin conversation.done
    /\ kind # "cycle" => id > conversation.revoked

Confirmed == call.asked = TRUE /\ ran.message < acts.messages
Collected == [tool : {"swap_quote", "pay_send"}, missing : 0..4, id : {0}, net : {Chat!None}]

\* What holds while a handler is at step k of its plan.
Meets(plan, k) ==
    /\ plan = QuotePlan => call.net = net \/ call.moved = TRUE
    /\ plan = SwapPlan => Confirmed /\ (k > 1 => Chat!HasPendingSwap)
    /\ plan \in {AskPlan, PayAskPlan} => call.op \in Collected
    /\ plan = PayPlan => Confirmed /\ op = Chat!NoOp /\ Open("pay", call.op.id)
    /\ plan = AnswerPlan => ran.message < acts.messages
    /\ plan = CyclePlan => Confirmed /\ (k > 1 => Chat!Selected)
    /\ plan \in {SwitchPlan, NetworkPlan} => call.net \in Chat!Somewhere /\ (k = 3 => call.net \in Networks)

Going == call.steps = <<>> \/ \E plan \in Plans : \E k \in 1..Len(plan) : Along(plan, k) /\ Meets(plan, k)

Kinds == {"swap", "pay", "cycle"}
Tools == {Chat!None, "swap_quote", "pay_send", "pay_send_execute"}
CallOK ==
    /\ DOMAIN call = DOMAIN Chat!NoCall /\ call.seen \in Networks \cup {Chat!None}
    /\ call.net \in Chat!Somewhere \cup {Chat!None} /\ call.moved \in BOOLEAN
Shape ==
    /\ CallOK
    /\ op \in [tool : Tools, missing : 0..4, id : Chat!Ids, net : Chat!Somewhere \cup {Chat!None}]
    /\ quote \in [id : Chat!Ids, net : Chat!Somewhere \cup {Chat!None}, moved : BOOLEAN]
    /\ opps \in [id : Chat!Ids, count : 0..MaxPicks, picked : 0..MaxPicks]
    /\ conversation \in [shown : Chat!Ids, revoked : Chat!Ids, done : SUBSET (Chat!Ids \ {0}), picked : 0..MaxPicks, last : [Kinds -> Chat!Ids]]
    /\ acts \in [messages : Nat, mishaps : Nat]
    /\ ran.message \in Nat /\ ran.message <= acts.messages

Shown ==
    /\ conversation.revoked <= conversation.shown
    /\ \A id \in conversation.done : id <= conversation.shown
    /\ \A a \in Kinds :
          /\ conversation.last[a] <= conversation.shown
          /\ \A b \in Kinds : a # b /\ conversation.last[a] = conversation.last[b] => conversation.last[a] = 0
    /\ Chat!HasPendingSwap => Open("swap", quote.id) /\ (quote.net = net \/ quote.moved)
    /\ Chat!HasPendingTriangularOpportunities => Open("cycle", opps.id) /\ opps.picked = conversation.picked
    /\ op.tool = "pay_send_execute" => Open("pay", op.id)

ChatInv == Chat!TypeOK /\ Shape /\ Shown /\ Going
----------------------------------------------------------------------------
LEMMA StepsOfPlans ==
    /\ StartPlan \in Seq(Names) /\ Len(StartPlan) = 3 /\ StartPlan[1] = "seek" /\ StartPlan[2] = "activate" /\ StartPlan[3] = "follow"
    /\ QuotePlan \in Seq(Names) /\ Len(QuotePlan) = 4 /\ QuotePlan[1] = "seek" /\ QuotePlan[2] = "activate" /\ QuotePlan[3] = "follow" /\ QuotePlan[4] = "quote"
    /\ SwapPlan \in Seq(Names) /\ Len(SwapPlan) = 6 /\ SwapPlan[1] = "quoted" /\ SwapPlan[2] = "active" /\ SwapPlan[3] = "seek" /\ SwapPlan[4] = "activate" /\ SwapPlan[5] = "follow" /\ SwapPlan[6] = "swap"
    /\ AskPlan \in Seq(Names) /\ Len(AskPlan) = 1 /\ AskPlan[1] = "collect"
    /\ PayAskPlan \in Seq(Names) /\ Len(PayAskPlan) = 4 /\ PayAskPlan[1] = "seek" /\ PayAskPlan[2] = "activate" /\ PayAskPlan[3] = "follow" /\ PayAskPlan[4] = "collect"
    /\ SummaryPlan \in Seq(Names) /\ Len(SummaryPlan) = 5 /\ SummaryPlan[1] = "seek" /\ SummaryPlan[2] = "activate" /\ SummaryPlan[3] = "follow" /\ SummaryPlan[4] = "active" /\ SummaryPlan[5] = "summary"
    /\ PayPlan \in Seq(Names) /\ Len(PayPlan) = 2 /\ PayPlan[1] = "active" /\ PayPlan[2] = "pay"
    /\ AnswerPlan \in Seq(Names) /\ Len(AnswerPlan) = 1 /\ AnswerPlan[1] = "answer"
    /\ CyclePlan \in Seq(Names) /\ Len(CyclePlan) = 3 /\ CyclePlan[1] = "selected" /\ CyclePlan[2] = "active" /\ CyclePlan[3] = "cycle"
    /\ SwitchPlan \in Seq(Names) /\ Len(SwitchPlan) = 1 /\ SwitchPlan[1] = "use"
    /\ NetworkPlan \in Seq(Names) /\ Len(NetworkPlan) = 3 /\ NetworkPlan[1] = "set" /\ NetworkPlan[2] = "use" /\ NetworkPlan[3] = "renew"
    /\ ScanPlan \in Seq(Names) /\ Len(ScanPlan) = 1 /\ ScanPlan[1] = "scan"
    /\ SelectPlan \in Seq(Names) /\ Len(SelectPlan) = 1 /\ SelectPlan[1] = "select"
    /\ BalancePlan \in Seq(Names) /\ Len(BalancePlan) = 2 /\ BalancePlan[1] = "active" /\ BalancePlan[2] = "refresh"
    /\ TrustPlan \in Seq(Names) /\ Len(TrustPlan) = 1 /\ TrustPlan[1] = "active"
    /\ CancelPlan \in Seq(Names) /\ Len(CancelPlan) = 1 /\ CancelPlan[1] = "cancel"
    /\ QuitPlan \in Seq(Names) /\ Len(QuitPlan) = 1 /\ QuitPlan[1] = "quit"
<1>1. StartPlan \in Seq(Names) /\ Len(StartPlan) = 3 /\ StartPlan[1] = "seek" /\ StartPlan[2] = "activate" /\ StartPlan[3] = "follow"
  BY DEF Names, StartPlan
<1>2. QuotePlan \in Seq(Names) /\ Len(QuotePlan) = 4 /\ QuotePlan[1] = "seek" /\ QuotePlan[2] = "activate" /\ QuotePlan[3] = "follow" /\ QuotePlan[4] = "quote"
  BY DEF Names, QuotePlan
<1>3. SwapPlan \in Seq(Names) /\ Len(SwapPlan) = 6 /\ SwapPlan[1] = "quoted" /\ SwapPlan[2] = "active" /\ SwapPlan[3] = "seek" /\ SwapPlan[4] = "activate" /\ SwapPlan[5] = "follow" /\ SwapPlan[6] = "swap"
  BY DEF Names, SwapPlan
<1>4. AskPlan \in Seq(Names) /\ Len(AskPlan) = 1 /\ AskPlan[1] = "collect"
  BY DEF Names, AskPlan
<1>5. PayAskPlan \in Seq(Names) /\ Len(PayAskPlan) = 4 /\ PayAskPlan[1] = "seek" /\ PayAskPlan[2] = "activate" /\ PayAskPlan[3] = "follow" /\ PayAskPlan[4] = "collect"
  BY DEF Names, PayAskPlan
<1>6. SummaryPlan \in Seq(Names) /\ Len(SummaryPlan) = 5 /\ SummaryPlan[1] = "seek" /\ SummaryPlan[2] = "activate" /\ SummaryPlan[3] = "follow" /\ SummaryPlan[4] = "active" /\ SummaryPlan[5] = "summary"
  BY DEF Names, SummaryPlan
<1>7. PayPlan \in Seq(Names) /\ Len(PayPlan) = 2 /\ PayPlan[1] = "active" /\ PayPlan[2] = "pay"
  BY DEF Names, PayPlan
<1>8. AnswerPlan \in Seq(Names) /\ Len(AnswerPlan) = 1 /\ AnswerPlan[1] = "answer"
  BY DEF Names, AnswerPlan
<1>9. CyclePlan \in Seq(Names) /\ Len(CyclePlan) = 3 /\ CyclePlan[1] = "selected" /\ CyclePlan[2] = "active" /\ CyclePlan[3] = "cycle"
  BY DEF Names, CyclePlan
<1>10. SwitchPlan \in Seq(Names) /\ Len(SwitchPlan) = 1 /\ SwitchPlan[1] = "use"
  BY DEF Names, SwitchPlan
<1>11. NetworkPlan \in Seq(Names) /\ Len(NetworkPlan) = 3 /\ NetworkPlan[1] = "set" /\ NetworkPlan[2] = "use" /\ NetworkPlan[3] = "renew"
  BY DEF Names, NetworkPlan
<1>12. ScanPlan \in Seq(Names) /\ Len(ScanPlan) = 1 /\ ScanPlan[1] = "scan"
  BY DEF Names, ScanPlan
<1>13. SelectPlan \in Seq(Names) /\ Len(SelectPlan) = 1 /\ SelectPlan[1] = "select"
  BY DEF Names, SelectPlan
<1>14. BalancePlan \in Seq(Names) /\ Len(BalancePlan) = 2 /\ BalancePlan[1] = "active" /\ BalancePlan[2] = "refresh"
  BY DEF Names, BalancePlan
<1>15. TrustPlan \in Seq(Names) /\ Len(TrustPlan) = 1 /\ TrustPlan[1] = "active"
  BY DEF Names, TrustPlan
<1>16. CancelPlan \in Seq(Names) /\ Len(CancelPlan) = 1 /\ CancelPlan[1] = "cancel"
  BY DEF Names, CancelPlan
<1>17. QuitPlan \in Seq(Names) /\ Len(QuitPlan) = 1 /\ QuitPlan[1] = "quit"
  BY DEF Names, QuitPlan
<1> QED BY <1>1, <1>2, <1>3, <1>4, <1>5, <1>6, <1>7, <1>8, <1>9, <1>10, <1>11, <1>12, <1>13, <1>14, <1>15, <1>16, <1>17

LEMMA PlansAreLists == \A plan \in Plans : plan \in Seq(Names) /\ Len(plan) \in Nat /\ 1 <= Len(plan) /\ Len(plan) <= 6
<1> SUFFICES ASSUME NEW plan \in Plans
             PROVE  plan \in Seq(Names) /\ Len(plan) \in Nat /\ 1 <= Len(plan) /\ Len(plan) <= 6
  OBVIOUS
<1>1. CASE plan = StartPlan
  BY <1>1, StepsOfPlans
<1>2. CASE plan = QuotePlan
  BY <1>2, StepsOfPlans
<1>3. CASE plan = SwapPlan
  BY <1>3, StepsOfPlans
<1>4. CASE plan = AskPlan
  BY <1>4, StepsOfPlans
<1>5. CASE plan = PayAskPlan
  BY <1>5, StepsOfPlans
<1>6. CASE plan = SummaryPlan
  BY <1>6, StepsOfPlans
<1>7. CASE plan = PayPlan
  BY <1>7, StepsOfPlans
<1>8. CASE plan = AnswerPlan
  BY <1>8, StepsOfPlans
<1>9. CASE plan = CyclePlan
  BY <1>9, StepsOfPlans
<1>10. CASE plan = SwitchPlan
  BY <1>10, StepsOfPlans
<1>11. CASE plan = NetworkPlan
  BY <1>11, StepsOfPlans
<1>12. CASE plan = ScanPlan
  BY <1>12, StepsOfPlans
<1>13. CASE plan = SelectPlan
  BY <1>13, StepsOfPlans
<1>14. CASE plan = BalancePlan
  BY <1>14, StepsOfPlans
<1>15. CASE plan = TrustPlan
  BY <1>15, StepsOfPlans
<1>16. CASE plan = CancelPlan
  BY <1>16, StepsOfPlans
<1>17. CASE plan = QuitPlan
  BY <1>17, StepsOfPlans
<1> QED BY <1>1, <1>2, <1>3, <1>4, <1>5, <1>6, <1>7, <1>8, <1>9, <1>10, <1>11, <1>12, <1>13, <1>14, <1>15, <1>16, <1>17 DEF Plans

LEMMA NextIs ==
    ASSUME NEW plan \in Plans, NEW k \in 1..Len(plan), Along(plan, k)
    PROVE  /\ call.steps # <<>> /\ Head(call.steps) = plan[k]
           /\ Len(call.steps) = Len(plan) - k + 1
           /\ \A n \in 1..3 : Len(call.steps) > n =>
                 /\ k + n \in 1..Len(plan)
                 /\ SubSeq(call.steps, n + 1, Len(call.steps)) = SubSeq(plan, k + n, Len(plan))
<1>1. plan \in Seq(Names) /\ Len(plan) \in Nat
  BY PlansAreLists
<1> DEFINE rest == SubSeq(plan, k, Len(plan))
<1>2. /\ rest \in Seq(Names) /\ Len(rest) = Len(plan) - k + 1
      /\ \A i \in 1..Len(plan) - k + 1 : rest[i] = plan[k + i - 1]
  BY <1>1, SubSeqProperties
<1>3. rest # <<>> /\ Head(rest) = plan[k]
  <2>1. Len(rest) >= 1 /\ rest[1] = plan[k]
    BY <1>1, <1>2
  <2> HIDE DEF rest
  <2> QED BY <1>2, <2>1
<1>4. ASSUME NEW n \in 1..3, Len(rest) > n
      PROVE  k + n \in 1..Len(plan) /\ SubSeq(rest, n + 1, Len(rest)) = SubSeq(plan, k + n, Len(plan))
  <2>1. k + n \in 1..Len(plan) /\ n + 1 \in 1..Len(plan) - k + 1 /\ Len(rest) \in 1..Len(plan) - k + 1 /\ Len(plan) \in 1..Len(plan)
    BY <1>1, <1>2, <1>4
  <2>2. SubSeq(rest, n + 1, Len(rest)) = SubSeq(plan, k + (n + 1) - 1, k + Len(rest) - 1)
    BY <1>1, <2>1, SubSeqOfSubSeq
  <2>3. k + (n + 1) - 1 = k + n /\ k + Len(rest) - 1 = Len(plan)
    BY <1>1, <1>2
  <2> HIDE DEF rest
  <2> QED BY <2>1, <2>2, <2>3
<1> QED BY <1>2, <1>3, <1>4 DEF Along

\* Which plan has a step tells which plan it is.
LEMMA PlanOf ==
    ASSUME NEW plan \in Plans, NEW k \in 1..Len(plan)
    PROVE
        /\ plan[k] = "quoted" => plan = SwapPlan /\ k = 1
        /\ plan[k] = "swap" => plan = SwapPlan /\ k = 6
        /\ plan[k] = "selected" => plan = CyclePlan /\ k = 1
        /\ plan[k] = "cycle" => plan = CyclePlan /\ k = 3
        /\ plan[k] = "pay" => plan = PayPlan /\ k = 2
        /\ plan[k] = "quote" => plan = QuotePlan /\ k = 4
        /\ plan[k] = "collect" => plan \in {AskPlan, PayAskPlan}
        /\ plan[k] = "answer" => plan = AnswerPlan
        /\ plan[k] = "set" => plan = NetworkPlan /\ k = 1
        /\ plan[k] = "renew" => plan = NetworkPlan /\ k = 3
        /\ plan[k] = "use" => (plan = SwitchPlan /\ k = 1) \/ (plan = NetworkPlan /\ k = 2)
<1>1. CASE plan = StartPlan
  <2>1. k \in 1..3 /\ plan[1] = "seek" /\ plan[2] = "activate" /\ plan[3] = "follow"
    BY <1>1, StepsOfPlans
  <2> QED BY <1>1, <2>1
<1>2. CASE plan = QuotePlan
  <2>1. k \in 1..4 /\ plan[1] = "seek" /\ plan[2] = "activate" /\ plan[3] = "follow" /\ plan[4] = "quote"
    BY <1>2, StepsOfPlans
  <2> QED BY <1>2, <2>1
<1>3. CASE plan = SwapPlan
  <2>1. k \in 1..6 /\ plan[1] = "quoted" /\ plan[2] = "active" /\ plan[3] = "seek" /\ plan[4] = "activate" /\ plan[5] = "follow" /\ plan[6] = "swap"
    BY <1>3, StepsOfPlans
  <2> QED BY <1>3, <2>1
<1>4. CASE plan = AskPlan
  <2>1. k \in 1..1 /\ plan[1] = "collect"
    BY <1>4, StepsOfPlans
  <2> QED BY <1>4, <2>1
<1>5. CASE plan = PayAskPlan
  <2>1. k \in 1..4 /\ plan[1] = "seek" /\ plan[2] = "activate" /\ plan[3] = "follow" /\ plan[4] = "collect"
    BY <1>5, StepsOfPlans
  <2> QED BY <1>5, <2>1
<1>6. CASE plan = SummaryPlan
  <2>1. k \in 1..5 /\ plan[1] = "seek" /\ plan[2] = "activate" /\ plan[3] = "follow" /\ plan[4] = "active" /\ plan[5] = "summary"
    BY <1>6, StepsOfPlans
  <2> QED BY <1>6, <2>1
<1>7. CASE plan = PayPlan
  <2>1. k \in 1..2 /\ plan[1] = "active" /\ plan[2] = "pay"
    BY <1>7, StepsOfPlans
  <2> QED BY <1>7, <2>1
<1>8. CASE plan = AnswerPlan
  <2>1. k \in 1..1 /\ plan[1] = "answer"
    BY <1>8, StepsOfPlans
  <2> QED BY <1>8, <2>1
<1>9. CASE plan = CyclePlan
  <2>1. k \in 1..3 /\ plan[1] = "selected" /\ plan[2] = "active" /\ plan[3] = "cycle"
    BY <1>9, StepsOfPlans
  <2> QED BY <1>9, <2>1
<1>10. CASE plan = SwitchPlan
  <2>1. k \in 1..1 /\ plan[1] = "use"
    BY <1>10, StepsOfPlans
  <2> QED BY <1>10, <2>1
<1>11. CASE plan = NetworkPlan
  <2>1. k \in 1..3 /\ plan[1] = "set" /\ plan[2] = "use" /\ plan[3] = "renew"
    BY <1>11, StepsOfPlans
  <2> QED BY <1>11, <2>1
<1>12. CASE plan = ScanPlan
  <2>1. k \in 1..1 /\ plan[1] = "scan"
    BY <1>12, StepsOfPlans
  <2> QED BY <1>12, <2>1
<1>13. CASE plan = SelectPlan
  <2>1. k \in 1..1 /\ plan[1] = "select"
    BY <1>13, StepsOfPlans
  <2> QED BY <1>13, <2>1
<1>14. CASE plan = BalancePlan
  <2>1. k \in 1..2 /\ plan[1] = "active" /\ plan[2] = "refresh"
    BY <1>14, StepsOfPlans
  <2> QED BY <1>14, <2>1
<1>15. CASE plan = TrustPlan
  <2>1. k \in 1..1 /\ plan[1] = "active"
    BY <1>15, StepsOfPlans
  <2> QED BY <1>15, <2>1
<1>16. CASE plan = CancelPlan
  <2>1. k \in 1..1 /\ plan[1] = "cancel"
    BY <1>16, StepsOfPlans
  <2> QED BY <1>16, <2>1
<1>17. CASE plan = QuitPlan
  <2>1. k \in 1..1 /\ plan[1] = "quit"
    BY <1>17, StepsOfPlans
  <2> QED BY <1>17, <2>1
<1> QED BY <1>1, <1>2, <1>3, <1>4, <1>5, <1>6, <1>7, <1>8, <1>9, <1>10, <1>11, <1>12, <1>13, <1>14, <1>15, <1>16, <1>17 DEF Plans

\* And the other way round.
LEMMA StepOf ==
    ASSUME NEW plan \in Plans, NEW k \in 1..Len(plan)
    PROVE
        /\ plan = SwitchPlan => plan[k] = "use"
        /\ plan = NetworkPlan => plan[k] \in {"set", "use", "renew"}
        /\ plan = AnswerPlan => plan[k] = "answer"
        /\ plan = SwapPlan /\ k = 1 => plan[k] = "quoted"
        /\ plan = CyclePlan => plan[k] \in {"selected", "active", "cycle"}
        /\ plan = CyclePlan /\ k = 1 => plan[k] = "selected"
        /\ plan = PayPlan => plan[k] \in {"active", "pay"}
        /\ plan = QuotePlan => plan[k] \in {"seek", "activate", "follow", "quote"}
        /\ plan = AskPlan => plan[k] = "collect"
<1>1. ASSUME plan = SwitchPlan PROVE k \in 1..1 /\ plan[1] = "use"
  BY <1>1, StepsOfPlans
<1>2. ASSUME plan = NetworkPlan PROVE k \in 1..3 /\ plan[1] = "set" /\ plan[2] = "use" /\ plan[3] = "renew"
  BY <1>2, StepsOfPlans
<1>3. ASSUME plan = AnswerPlan PROVE k \in 1..1 /\ plan[1] = "answer"
  BY <1>3, StepsOfPlans
<1>4. ASSUME plan = SwapPlan PROVE k \in 1..6 /\ plan[1] = "quoted" /\ plan[2] = "active" /\ plan[3] = "seek" /\ plan[4] = "activate" /\ plan[5] = "follow" /\ plan[6] = "swap"
  BY <1>4, StepsOfPlans
<1>5. ASSUME plan = CyclePlan PROVE k \in 1..3 /\ plan[1] = "selected" /\ plan[2] = "active" /\ plan[3] = "cycle"
  BY <1>5, StepsOfPlans
<1>6. ASSUME plan = PayPlan PROVE k \in 1..2 /\ plan[1] = "active" /\ plan[2] = "pay"
  BY <1>6, StepsOfPlans
<1>7. ASSUME plan = QuotePlan PROVE k \in 1..4 /\ plan[1] = "seek" /\ plan[2] = "activate" /\ plan[3] = "follow" /\ plan[4] = "quote"
  BY <1>7, StepsOfPlans
<1>8. ASSUME plan = AskPlan PROVE k \in 1..1 /\ plan[1] = "collect"
  BY <1>8, StepsOfPlans
<1> QED BY <1>1, <1>2, <1>3, <1>4, <1>5, <1>6, <1>7, <1>8

LEMMA Onward ==
    ASSUME Shape, NEW plan \in Plans, NEW k \in 1..Len(plan), Along(plan, k), Meets(plan, k),
           NEW c, c \in {call} \cup {[call EXCEPT !.seen = s] : s \in Networks \cup {Chat!None}} \cup {[call EXCEPT !.moved = TRUE]},
           NEW n \in 1..3, Chat!Skip(c, n),
           UNCHANGED <<ran, op, opps, conversation>>, acts'.messages = acts.messages,
           Chat!HasPendingSwap => Chat!HasPendingSwap', net' = net \/ c.moved = TRUE,
           plan = SwapPlan /\ k = 1 => Chat!HasPendingSwap,
           plan = CyclePlan /\ k = 1 => Chat!Selected,
           plan # SwitchPlan,
           plan = NetworkPlan => k = 2 /\ call.net \in Networks
    PROVE  Going' /\ CallOK'
<1>1. /\ c.steps = call.steps /\ c.net = call.net /\ c.op = call.op /\ c.asked = call.asked
      /\ (c.moved = call.moved \/ c.moved = TRUE) /\ DOMAIN c = DOMAIN Chat!NoCall /\ c.seen \in Networks \cup {Chat!None}
  BY DEF Shape, CallOK, Chat!NoCall
<1>2. CASE Len(c.steps) <= n
  BY <1>2 DEF Chat!Skip, Chat!NoCall, Going, CallOK
<1>3. CASE ~(Len(c.steps) <= n)
  <2>1. Len(call.steps) = Len(plan) - k + 1 /\ Len(plan) \in Nat /\ Len(call.steps) > n
    BY <1>1, <1>3, NextIs, PlansAreLists
  <2>2. /\ k + n \in 1..Len(plan)
        /\ SubSeq(call.steps, n + 1, Len(call.steps)) = SubSeq(plan, k + n, Len(plan))
    BY <2>1, NextIs
  <2>3. call' = [c EXCEPT !.steps = SubSeq(plan, k + n, Len(plan))]
    BY <1>1, <1>3, <2>2 DEF Chat!Skip
  <2>4. /\ call'.steps = SubSeq(plan, k + n, Len(plan)) /\ call'.net = call.net /\ call'.op = call.op
        /\ call'.asked = call.asked /\ call'.moved = c.moved /\ DOMAIN call' = DOMAIN Chat!NoCall /\ call'.seen = c.seen
    BY <1>1, <2>3 DEF Chat!NoCall
  <2>5. Along(plan, k + n)'
    BY <2>2, <2>4 DEF Along
  <2>6. Meets(plan, k + n)'
    <3>1. Confirmed => Confirmed'
      BY <2>4 DEF Confirmed
    <3>2. Open("pay", call.op.id) => Open("pay", call.op.id)'
      BY <2>4 DEF Open
    <3>3. Chat!Selected => Chat!Selected'
      BY DEF Chat!Selected
    <3>5. call.net = net \/ call.moved = TRUE => (call.net = net \/ call.moved = TRUE)'
      BY <1>1, <2>4
    <3>6. k > 1 \/ k = 1
      OBVIOUS
    <3>7. plan = QuotePlan => (call.net = net \/ call.moved = TRUE)'
      BY <3>5 DEF Meets
    <3>8. plan = SwapPlan => Confirmed' /\ Chat!HasPendingSwap'
      BY <3>1, <3>6 DEF Meets
    <3>9. plan = CyclePlan => Confirmed' /\ Chat!Selected'
      BY <3>1, <3>3, <3>6 DEF Meets
    <3>10. plan = PayPlan => Confirmed' /\ op' = Chat!NoOp /\ Open("pay", call.op.id)'
      BY <3>1, <3>2 DEF Meets
    <3>11. plan \in {AskPlan, PayAskPlan} => call'.op \in Collected
      BY <2>4 DEF Meets
    <3>12. plan = NetworkPlan => call'.net \in Networks /\ call'.net \in Chat!Somewhere
      BY <2>4 DEF Chat!Somewhere
    <3>13. plan = AnswerPlan => ran'.message < acts'.messages
      BY DEF Meets
    <3> QED BY <3>7, <3>8, <3>9, <3>10, <3>11, <3>12, <3>13 DEF Meets
  <2> QED BY <1>1, <2>2, <2>4, <2>5, <2>6 DEF Going, Shape, CallOK
<1> QED BY <1>2, <1>3

\* An answer leaves nothing to do.
LEMMA Replied == ASSUME Chat!Answer PROVE Going' /\ CallOK'
BY DEF Chat!Answer, Chat!NoCall, Going, CallOK

LEMMA SameShown == ASSUME Shown, UNCHANGED <<net, op, quote, opps, conversation>> PROVE Shown'
BY DEF Shown, Open, Chat!HasPendingSwap, Chat!HasPendingTriangularOpportunities

\* The step the session is at, in some plan.
LEMMA AtPlan ==
    ASSUME Going, NEW step, Chat!At(step)
    PROVE  \E plan \in Plans, k \in 1..6 : k \in 1..Len(plan) /\ Along(plan, k) /\ Meets(plan, k) /\ plan[k] = step
<1>1. call.steps # <<>> /\ Head(call.steps) = step
  BY DEF Chat!At, Chat!Idle
<1>2. PICK plan \in Plans : \E k \in 1..Len(plan) : Along(plan, k) /\ Meets(plan, k)
  BY <1>1 DEF Going
<1>3. PICK k \in 1..Len(plan) : Along(plan, k) /\ Meets(plan, k)
  BY <1>2
<1>4. k \in 1..6
  <2>1. Len(plan) \in Nat /\ Len(plan) <= 6
    BY PlansAreLists
  <2> QED BY <2>1
<1> QED BY <1>1, <1>3, <1>4, NextIs

\* No two plans end alike, but those that ask for parameters.
LEMMA Ends ==
    /\ StartPlan[Len(StartPlan)] = "follow"
    /\ QuotePlan[Len(QuotePlan)] = "quote"
    /\ SwapPlan[Len(SwapPlan)] = "swap"
    /\ AskPlan[Len(AskPlan)] = "collect"
    /\ PayAskPlan[Len(PayAskPlan)] = "collect"
    /\ SummaryPlan[Len(SummaryPlan)] = "summary"
    /\ PayPlan[Len(PayPlan)] = "pay"
    /\ AnswerPlan[Len(AnswerPlan)] = "answer"
    /\ CyclePlan[Len(CyclePlan)] = "cycle"
    /\ SwitchPlan[Len(SwitchPlan)] = "use"
    /\ NetworkPlan[Len(NetworkPlan)] = "renew"
    /\ ScanPlan[Len(ScanPlan)] = "scan"
    /\ SelectPlan[Len(SelectPlan)] = "select"
    /\ BalancePlan[Len(BalancePlan)] = "refresh"
    /\ TrustPlan[Len(TrustPlan)] = "active"
    /\ CancelPlan[Len(CancelPlan)] = "cancel"
    /\ QuitPlan[Len(QuitPlan)] = "quit"
<1>1. StartPlan[Len(StartPlan)] = "follow"
  BY StepsOfPlans
<1>2. QuotePlan[Len(QuotePlan)] = "quote"
  BY StepsOfPlans
<1>3. SwapPlan[Len(SwapPlan)] = "swap"
  BY StepsOfPlans
<1>4. AskPlan[Len(AskPlan)] = "collect"
  BY StepsOfPlans
<1>5. PayAskPlan[Len(PayAskPlan)] = "collect"
  BY StepsOfPlans
<1>6. SummaryPlan[Len(SummaryPlan)] = "summary"
  BY StepsOfPlans
<1>7. PayPlan[Len(PayPlan)] = "pay"
  BY StepsOfPlans
<1>8. AnswerPlan[Len(AnswerPlan)] = "answer"
  BY StepsOfPlans
<1>9. CyclePlan[Len(CyclePlan)] = "cycle"
  BY StepsOfPlans
<1>10. SwitchPlan[Len(SwitchPlan)] = "use"
  BY StepsOfPlans
<1>11. NetworkPlan[Len(NetworkPlan)] = "renew"
  BY StepsOfPlans
<1>12. ScanPlan[Len(ScanPlan)] = "scan"
  BY StepsOfPlans
<1>13. SelectPlan[Len(SelectPlan)] = "select"
  BY StepsOfPlans
<1>14. BalancePlan[Len(BalancePlan)] = "refresh"
  BY StepsOfPlans
<1>15. TrustPlan[Len(TrustPlan)] = "active"
  BY StepsOfPlans
<1>16. CancelPlan[Len(CancelPlan)] = "cancel"
  BY StepsOfPlans
<1>17. QuitPlan[Len(QuitPlan)] = "quit"
  BY StepsOfPlans
<1> QED BY <1>1, <1>2, <1>3, <1>4, <1>5, <1>6, <1>7, <1>8, <1>9, <1>10, <1>11, <1>12, <1>13, <1>14, <1>15, <1>16, <1>17

\* A handler begins with the first step of its plan.
LEMMA Begins ==
    ASSUME NEW plan \in Plans, call'.steps = plan, Meets(plan, 1)'
    PROVE  Going'
<1>1. plan \in Seq(Names) /\ 1 \in 1..Len(plan)
  <2>1. plan \in Seq(Names) /\ Len(plan) \in Nat /\ 1 <= Len(plan)
    BY PlansAreLists
  <2> QED BY <2>1
<1>2. SubSeq(plan, 1, Len(plan)) = plan
  BY <1>1, SubSeqFull
<1>3. Along(plan, 1)'
  BY <1>1, <1>2 DEF Along
<1> QED BY <1>1, <1>3 DEF Going

------------------------------------------------------------------------------
\* The rules.

LessThan == {r \in Nat \X Nat : r[1] < r[2]}
LEMMA LeastOf == ASSUME NEW S, S \subseteq Nat, S # {} PROVE Chat!Min(S) \in S /\ \A j \in S : Chat!Min(S) <= j
<1>1. IsWellFoundedOn(LessThan, Nat)
  BY NatLessThanWellFounded DEF OpToRel, LessThan
<1>2. PICK x \in S : \A y \in S : ~(<<y, x>> \in LessThan)
  BY <1>1, WFMin
<1>3. ASSUME NEW y \in S PROVE x <= y
  <2>1. x \in Nat /\ y \in Nat /\ <<y, x>> \notin LessThan
    BY <1>2
  <2>2. ~(y < x)
    BY <2>1 DEF LessThan
  <2> QED BY <2>1, <2>2
<1> QED BY <1>3 DEF Chat!Min

LEMMA FourteenRules ==
    ASSUME NEW said
    PROVE  /\ DOMAIN Chat!Rules(said) = 1..14
           /\ "cancel" \in said => Chat!Rules(said)[2][1]
           /\ Chat!Rules(said)[3][1] => "confirm" \in said
           /\ Chat!Rules(said)[5][1] => "confirm" \in said
           /\ \A k \in 1..14 : /\ Chat!Rules(said)[k][2] = "execute_swap" => k = 3
                               /\ Chat!Rules(said)[k][2] = "execute_triangular" => k = 5
<1>1. DOMAIN Chat!Rules(said) = 1..14
  BY DEF Chat!Rules
<1>2. "cancel" \in said => Chat!Rules(said)[2][1]
  BY DEF Chat!Rules
<1>3. Chat!Rules(said)[3][1] => "confirm" \in said
  BY DEF Chat!Rules
<1>4. Chat!Rules(said)[5][1] => "confirm" \in said
  BY DEF Chat!Rules
<1>5. ASSUME NEW k \in 1..14
      PROVE  /\ Chat!Rules(said)[k][2] = "execute_swap" => k = 3
             /\ Chat!Rules(said)[k][2] = "execute_triangular" => k = 5
  BY DEF Chat!Rules
<1> QED BY <1>1, <1>2, <1>3, <1>4, <1>5

\* Who executes something confirmed it and did not cancel.
LEMMA RulesConfirm ==
    ASSUME NEW said, Chat!UnderstandByRules(said) \in {"execute_swap", "execute_triangular"}
    PROVE  Chat!Confirms(said)
<1> DEFINE rules == Chat!Rules(said)
           fits == {k \in DOMAIN rules : rules[k][1]}
<1>1. fits # {} /\ Chat!UnderstandByRules(said) = rules[Chat!Min(fits)][2]
  BY DEF Chat!UnderstandByRules
<1>2. fits \subseteq 1..14
  BY FourteenRules
<1>3. Chat!Min(fits) \in fits /\ \A j \in fits : Chat!Min(fits) <= j
  <2>1. fits \subseteq Nat
    BY <1>2
  <2> HIDE DEF fits
  <2> QED BY <1>1, <2>1, LeastOf
<1>4. Chat!Min(fits) = 3 \/ Chat!Min(fits) = 5
  BY <1>1, <1>2, <1>3, FourteenRules
<1>5. 2 \notin fits /\ "confirm" \in said
  <2>1. \A j \in fits : Chat!Min(fits) <= j
    BY <1>3
  <2>2. Chat!Min(fits) \in fits
    BY <1>3
  <2>3. 2 \notin fits
    <3> HIDE DEF fits
    <3> QED BY <1>4, <2>1
  <2>4. rules[Chat!Min(fits)][1]
    BY <2>2
  <2>5. rules[3][1] \/ rules[5][1]
    <3> HIDE DEF fits, rules
    <3> QED BY <1>4, <2>4
  <2> QED BY <2>3, <2>5, FourteenRules
<1>6. "cancel" \notin said
  BY <1>5, FourteenRules
<1> QED BY <1>5, <1>6 DEF Chat!Confirms

LEMMA IntentConfirms ==
    ASSUME NEW said, NEW intent \in Chat!UnderstandIntent(said), intent.name \in {"execute_swap", "execute_triangular"}
    PROVE  intent.asked = TRUE
BY RulesConfirm DEF Chat!UnderstandIntent

------------------------------------------------------------------------------
\* The handlers.

LEMMA Joined ==
    ASSUME NEW s \in Seq(Names), NEW t \in Seq(Names), NEW u \in Seq(Names), Len(u) = Len(s) + Len(t),
           \A i \in 1..Len(u) : u[i] = IF i <= Len(s) THEN s[i] ELSE t[i - Len(s)]
    PROVE  s \o t = u
<1>1. /\ s \o t \in Seq(Names) /\ Len(s \o t) = Len(s) + Len(t)
      /\ \A i \in 1..Len(s) + Len(t) : (s \o t)[i] = IF i <= Len(s) THEN s[i] ELSE t[i - Len(s)]
  BY ConcatProperties
<1> QED BY <1>1, SeqEqual

LEMMA PlansOfHandlers ==
    /\ Chat!EnsureWalletOnNetwork = StartPlan
    /\ Chat!EnsureWalletOnNetwork \o <<"quote">> = QuotePlan
    /\ <<"quoted", "active">> \o Chat!EnsureWalletOnNetwork \o <<"swap">> = SwapPlan
    /\ Chat!EnsureWalletOnNetwork \o <<"collect">> = PayAskPlan
    /\ Chat!EnsureWalletOnNetwork \o <<"active", "summary">> = SummaryPlan
    /\ Chat!EnsureWalletOnNetwork \o <<>> = StartPlan
<1>1. Chat!EnsureWalletOnNetwork = StartPlan
  BY DEF Chat!EnsureWalletOnNetwork, StartPlan
<1>2. StartPlan \o <<"quote">> = QuotePlan
  <2> DEFINE s == <<"seek", "activate", "follow">>
             t == <<"quote">>
             u == <<"seek", "activate", "follow", "quote">>
  <2>1. s \in Seq(Names) /\ Len(s) = 3 /\ s[1] = "seek" /\ s[2] = "activate" /\ s[3] = "follow"
    BY DEF Names
  <2>2. t \in Seq(Names) /\ Len(t) = 1 /\ t[1] = "quote"
    BY DEF Names
  <2>3. u \in Seq(Names) /\ Len(u) = 4 /\ u[1] = "seek" /\ u[2] = "activate" /\ u[3] = "follow" /\ u[4] = "quote"
    BY DEF Names
  <2>4. s \o t = u
    <3> HIDE DEF s, t, u
    <3>1. ASSUME NEW i \in 1..Len(u) PROVE u[i] = IF i <= Len(s) THEN s[i] ELSE t[i - Len(s)]
      BY <2>1, <2>2, <2>3
    <3>2. Len(u) = Len(s) + Len(t)
      BY <2>1, <2>2, <2>3
    <3> QED BY <2>1, <2>2, <2>3, <3>1, <3>2, Joined
  <2> QED BY <2>4 DEF StartPlan, QuotePlan
<1>3. <<"quoted", "active">> \o StartPlan = <<"quoted", "active", "seek", "activate", "follow">>
  <2> DEFINE s == <<"quoted", "active">>
             t == <<"seek", "activate", "follow">>
             u == <<"quoted", "active", "seek", "activate", "follow">>
  <2>1. s \in Seq(Names) /\ Len(s) = 2 /\ s[1] = "quoted" /\ s[2] = "active"
    BY DEF Names
  <2>2. t \in Seq(Names) /\ Len(t) = 3 /\ t[1] = "seek" /\ t[2] = "activate" /\ t[3] = "follow"
    BY DEF Names
  <2>3. u \in Seq(Names) /\ Len(u) = 5 /\ u[1] = "quoted" /\ u[2] = "active" /\ u[3] = "seek" /\ u[4] = "activate" /\ u[5] = "follow"
    BY DEF Names
  <2>4. s \o t = u
    <3> HIDE DEF s, t, u
    <3>1. ASSUME NEW i \in 1..Len(u) PROVE u[i] = IF i <= Len(s) THEN s[i] ELSE t[i - Len(s)]
      BY <2>1, <2>2, <2>3
    <3>2. Len(u) = Len(s) + Len(t)
      BY <2>1, <2>2, <2>3
    <3> QED BY <2>1, <2>2, <2>3, <3>1, <3>2, Joined
  <2> QED BY <2>4 DEF StartPlan
<1>4. <<"quoted", "active", "seek", "activate", "follow">> \o <<"swap">> = SwapPlan
  <2> DEFINE s == <<"quoted", "active", "seek", "activate", "follow">>
             t == <<"swap">>
             u == <<"quoted", "active", "seek", "activate", "follow", "swap">>
  <2>1. s \in Seq(Names) /\ Len(s) = 5 /\ s[1] = "quoted" /\ s[2] = "active" /\ s[3] = "seek" /\ s[4] = "activate" /\ s[5] = "follow"
    BY DEF Names
  <2>2. t \in Seq(Names) /\ Len(t) = 1 /\ t[1] = "swap"
    BY DEF Names
  <2>3. u \in Seq(Names) /\ Len(u) = 6 /\ u[1] = "quoted" /\ u[2] = "active" /\ u[3] = "seek" /\ u[4] = "activate" /\ u[5] = "follow" /\ u[6] = "swap"
    BY DEF Names
  <2>4. s \o t = u
    <3> HIDE DEF s, t, u
    <3>1. ASSUME NEW i \in 1..Len(u) PROVE u[i] = IF i <= Len(s) THEN s[i] ELSE t[i - Len(s)]
      BY <2>1, <2>2, <2>3
    <3>2. Len(u) = Len(s) + Len(t)
      BY <2>1, <2>2, <2>3
    <3> QED BY <2>1, <2>2, <2>3, <3>1, <3>2, Joined
  <2> QED BY <2>4 DEF SwapPlan
<1>5. StartPlan \o <<"collect">> = PayAskPlan
  <2> DEFINE s == <<"seek", "activate", "follow">>
             t == <<"collect">>
             u == <<"seek", "activate", "follow", "collect">>
  <2>1. s \in Seq(Names) /\ Len(s) = 3 /\ s[1] = "seek" /\ s[2] = "activate" /\ s[3] = "follow"
    BY DEF Names
  <2>2. t \in Seq(Names) /\ Len(t) = 1 /\ t[1] = "collect"
    BY DEF Names
  <2>3. u \in Seq(Names) /\ Len(u) = 4 /\ u[1] = "seek" /\ u[2] = "activate" /\ u[3] = "follow" /\ u[4] = "collect"
    BY DEF Names
  <2>4. s \o t = u
    <3> HIDE DEF s, t, u
    <3>1. ASSUME NEW i \in 1..Len(u) PROVE u[i] = IF i <= Len(s) THEN s[i] ELSE t[i - Len(s)]
      BY <2>1, <2>2, <2>3
    <3>2. Len(u) = Len(s) + Len(t)
      BY <2>1, <2>2, <2>3
    <3> QED BY <2>1, <2>2, <2>3, <3>1, <3>2, Joined
  <2> QED BY <2>4 DEF StartPlan, PayAskPlan
<1>6. StartPlan \o <<"active", "summary">> = SummaryPlan
  <2> DEFINE s == <<"seek", "activate", "follow">>
             t == <<"active", "summary">>
             u == <<"seek", "activate", "follow", "active", "summary">>
  <2>1. s \in Seq(Names) /\ Len(s) = 3 /\ s[1] = "seek" /\ s[2] = "activate" /\ s[3] = "follow"
    BY DEF Names
  <2>2. t \in Seq(Names) /\ Len(t) = 2 /\ t[1] = "active" /\ t[2] = "summary"
    BY DEF Names
  <2>3. u \in Seq(Names) /\ Len(u) = 5 /\ u[1] = "seek" /\ u[2] = "activate" /\ u[3] = "follow" /\ u[4] = "active" /\ u[5] = "summary"
    BY DEF Names
  <2>4. s \o t = u
    <3> HIDE DEF s, t, u
    <3>1. ASSUME NEW i \in 1..Len(u) PROVE u[i] = IF i <= Len(s) THEN s[i] ELSE t[i - Len(s)]
      BY <2>1, <2>2, <2>3
    <3>2. Len(u) = Len(s) + Len(t)
      BY <2>1, <2>2, <2>3
    <3> QED BY <2>1, <2>2, <2>3, <3>1, <3>2, Joined
  <2> QED BY <2>4 DEF StartPlan, SummaryPlan
<1>7. Chat!EnsureWalletOnNetwork \o <<>> = StartPlan
  BY DEF Chat!EnsureWalletOnNetwork, StartPlan
<1> QED BY <1>1, <1>2, <1>3, <1>4, <1>5, <1>6, <1>7

FreePlans == {StartPlan, SummaryPlan, ScanPlan, SelectPlan, BalancePlan, TrustPlan, CancelPlan, QuitPlan}

\* A handler starts with nothing seen, and with the network it is about.
Begun(c, name) ==
    /\ DOMAIN c = DOMAIN Chat!NoCall /\ c.seen = Chat!None /\ c.moved = FALSE /\ c.net \in Chat!Somewhere \cup {Chat!None}
    /\ \/ c.steps \in FreePlans \cup {AnswerPlan}
       \/ c.steps = QuotePlan /\ c.net = net
       \/ c.steps = SwapPlan /\ name = "execute_swap"
       \/ c.steps \in {AskPlan, PayAskPlan} /\ c.op \in Collected
       \/ c.steps = CyclePlan /\ name = "execute_triangular"
       \/ c.steps \in {SwitchPlan, NetworkPlan} /\ c.net \in Chat!Somewhere

LEMMA StepsStart ==
    ASSUME NEW name, NEW list, NEW c \in Chat!Steps(list),
           \/ list \in FreePlans \cup {AnswerPlan}
           \/ list = SwapPlan /\ name = "execute_swap"
           \/ list = CyclePlan /\ name = "execute_triangular"
    PROVE  Begun(c, name)
<1>1. c = [Chat!NoCall EXCEPT !.steps = list]
  BY DEF Chat!Steps
<1>2. c.steps = list /\ DOMAIN c = DOMAIN Chat!NoCall /\ c.seen = Chat!None /\ c.moved = FALSE /\ c.net = Chat!None
  BY <1>1 DEF Chat!NoCall
<1> QED BY <1>2 DEF Begun

LEMMA QuotesStart == ASSUME Chat!TypeOK, NEW name, NEW c \in Chat!GetSwapQuote \ {Chat!NoCall} PROVE Begun(c, name) /\ c.steps = QuotePlan /\ c.net = net
<1>1. c = [Chat!NoCall EXCEPT !.steps = QuotePlan, !.net = net]
  BY PlansOfHandlers DEF Chat!GetSwapQuote
<1>2. c.steps = QuotePlan /\ DOMAIN c = DOMAIN Chat!NoCall /\ c.seen = Chat!None /\ c.moved = FALSE /\ c.net = net
  BY <1>1 DEF Chat!NoCall
<1> QED BY <1>2 DEF Begun, Chat!TypeOK

LEMMA CollectingStarts ==
    ASSUME NEW name, NEW tool \in {"swap_quote", "pay_send"}, NEW missing, missing \subseteq 0..4, NEW c \in Chat!Collecting(tool, missing)
    PROVE  Begun(c, name) /\ c.steps = AskPlan /\ c.op \in Collected
<1>1. PICK k \in missing : c = [Chat!NoCall EXCEPT !.steps = AskPlan, !.op = [Chat!NoOp EXCEPT !.tool = tool, !.missing = k]]
  BY DEF Chat!Collecting, AskPlan
<1>2. c.steps = AskPlan /\ DOMAIN c = DOMAIN Chat!NoCall /\ c.seen = Chat!None /\ c.moved = FALSE /\ c.net = Chat!None
      /\ c.op = [Chat!NoOp EXCEPT !.tool = tool, !.missing = k]
  BY <1>1 DEF Chat!NoCall
<1>3. c.op \in Collected
  BY <1>2 DEF Chat!NoOp, Collected
<1> QED BY <1>2, <1>3 DEF Begun

LEMMA PaymentsStart == ASSUME NEW name, NEW c \in Chat!HandlePaySend PROVE Begun(c, name)
<1>1. PICK d \in Chat!Collecting("pay_send", 2..4) \cup Chat!Steps(<<"active", "summary">>) \cup {Chat!NoCall} :
          c = [d EXCEPT !.steps = Chat!EnsureWalletOnNetwork \o @]
  BY DEF Chat!HandlePaySend
<1>2. DOMAIN d = DOMAIN Chat!NoCall => /\ c.steps = Chat!EnsureWalletOnNetwork \o d.steps /\ DOMAIN c = DOMAIN d /\ c.seen = d.seen
                                  /\ c.moved = d.moved /\ c.net = d.net /\ c.op = d.op
  BY <1>1 DEF Chat!NoCall
<1>3. CASE d \in Chat!Collecting("pay_send", 2..4)
  <2>1. Begun(d, name) /\ d.steps = AskPlan /\ d.op \in Collected
    <3>1. 2..4 \subseteq 0..4
      OBVIOUS
    <3> QED BY <1>3, <3>1, CollectingStarts
  <2>2. c.steps = PayAskPlan
    BY <1>2, <2>1, PlansOfHandlers DEF Begun, AskPlan
  <2> QED BY <1>2, <2>1, <2>2 DEF Begun
<1>4. CASE d \in Chat!Steps(<<"active", "summary">>)
  <2>1. d = [Chat!NoCall EXCEPT !.steps = <<"active", "summary">>]
    BY <1>4 DEF Chat!Steps
  <2>2. d.steps = <<"active", "summary">> /\ DOMAIN d = DOMAIN Chat!NoCall /\ d.seen = Chat!None /\ d.moved = FALSE /\ d.net = Chat!None
    BY <2>1 DEF Chat!NoCall
  <2>3. c.steps = SummaryPlan
    BY <1>2, <2>2, PlansOfHandlers
  <2> QED BY <1>2, <2>2, <2>3 DEF Begun, FreePlans
<1>5. CASE d = Chat!NoCall
  <2>1. d.steps = <<>> /\ DOMAIN d = DOMAIN Chat!NoCall /\ d.seen = Chat!None /\ d.moved = FALSE /\ d.net = Chat!None
    BY <1>5 DEF Chat!NoCall
  <2>2. c.steps = StartPlan
    BY <1>2, <2>1, PlansOfHandlers
  <2> QED BY <1>2, <2>1, <2>2 DEF Begun, FreePlans
<1> QED BY <1>1, <1>3, <1>4, <1>5

LEMMA NetworksStart ==
    ASSUME Chat!TypeOK, NEW name, NEW ns, ns \subseteq Chat!Somewhere, NEW c,
           c \in Chat!SetNetwork(ns) \/ c \in Chat!HandleSwitchWallet \ {Chat!NoCall}
    PROVE  Begun(c, name)
<1>1. PICK n \in Chat!Somewhere : \/ c = [Chat!NoCall EXCEPT !.steps = NetworkPlan, !.net = n]
                             \/ c = [Chat!NoCall EXCEPT !.steps = SwitchPlan, !.net = n]
  BY DEF Chat!SetNetwork, Chat!HandleSwitchWallet, NetworkPlan, SwitchPlan, Chat!TypeOK
<1>2. c.steps \in {NetworkPlan, SwitchPlan} /\ DOMAIN c = DOMAIN Chat!NoCall /\ c.seen = Chat!None /\ c.moved = FALSE /\ c.net = n
  BY <1>1 DEF Chat!NoCall
<1> QED BY <1>2 DEF Begun

LEMMA HandlersStart == ASSUME Chat!TypeOK, NEW name, NEW c \in Chat!Handlers(name) \ {Chat!NoCall} PROVE Begun(c, name)
<1>1. CASE name \in {"cancel_operation", "select_triangular", "provide_parameter", "wallet_balance", "triangular_scan", "quit"}
  <2>1. \E list \in FreePlans \cup {AnswerPlan} : c \in Chat!Steps(list)
    BY <1>1 DEF Chat!Handlers, Chat!CancelOperation, Chat!HandleSelectTriangular, Chat!HandleProvideParameter, Chat!HandleWalletBalance,
           Chat!HandleTriangularScan, FreePlans, CancelPlan, SelectPlan, AnswerPlan, BalancePlan, ScanPlan, QuitPlan
  <2> QED BY <2>1, StepsStart
<1>2. CASE name = "execute_swap"
  <2>1. c \in Chat!Steps(SwapPlan)
    BY <1>2, PlansOfHandlers DEF Chat!Handlers, Chat!HandleExecuteSwap
  <2> QED BY <1>2, <2>1, StepsStart
<1>3. CASE name = "execute_triangular"
  <2>1. c \in Chat!Steps(CyclePlan)
    BY <1>3 DEF Chat!Handlers, Chat!HandleExecuteTriangular, CyclePlan
  <2> QED BY <1>3, <2>1, StepsStart
<1>4. CASE name = "swap_quote"
  <2>1. c \in Chat!Collecting("swap_quote", 1..3) \/ c \in Chat!GetSwapQuote \ {Chat!NoCall}
    BY <1>4 DEF Chat!Handlers, Chat!HandleSwapQuote
  <2>2. 1..3 \subseteq 0..4
    OBVIOUS
  <2> QED BY <2>1, <2>2, CollectingStarts, QuotesStart
<1>5. CASE name = "pay_send"
  BY <1>5, PaymentsStart DEF Chat!Handlers
<1>6. CASE name = "create_trustline"
  <2>1. c \in Chat!Steps(TrustPlan)
    BY <1>6 DEF Chat!Handlers, Chat!HandleCreateTrustline, TrustPlan
  <2> QED BY <2>1, StepsStart DEF FreePlans
<1>7. CASE name \in {"switch_wallet", "set_network"}
  <2>1. Networks \cup (IF llm THEN {Chat!Misnamed} ELSE {}) \subseteq Chat!Somewhere
    BY DEF Chat!Somewhere
  <2>2. c \in Chat!SetNetwork(Networks \cup (IF llm THEN {Chat!Misnamed} ELSE {})) \/ c \in Chat!HandleSwitchWallet \ {Chat!NoCall}
    BY <1>7 DEF Chat!Handlers
  <2> QED BY <2>1, <2>2, NetworksStart
<1> QED BY <1>1, <1>2, <1>3, <1>4, <1>5, <1>6, <1>7 DEF Chat!Handlers

------------------------------------------------------------------------------
\* The steps.

\* Only the handler and the registry move on.
LEMMA Prepared ==
    ASSUME Chat!ChatAssumptions, ChatInv, UNCHANGED <<llm, running, Chat!context, Chat!pending, ran, conversation>>,
           acts' = acts \/ (\E what \in {"messages", "mishaps"} : Chat!Spend(what)),
           registry' \in [wallets : SUBSET Networks, active : Networks \cup {Chat!None}],
           Going', CallOK'
    PROVE  ChatInv'
<1>1. UNCHANGED <<net, services, op, quote, opps>>
  BY DEF Chat!context, Chat!pending
<1>2. Chat!TypeOK'
  BY <1>1 DEF ChatInv, Chat!TypeOK
<1>3. Shown'
  BY <1>1, SameShown DEF ChatInv
<1>4. acts' \in [messages : Nat, mishaps : Nat] /\ acts.messages <= acts'.messages
  BY DEF ChatInv, Shape, Chat!Spend
<1>5. Shape'
  BY <1>1, <1>4 DEF ChatInv, Shape
<1> QED BY <1>2, <1>3, <1>5 DEF ChatInv

LEMMA RegistryType == ASSUME Chat!TypeOK PROVE registry.wallets \subseteq Networks /\ registry.active \in Networks \cup {Chat!None}
BY DEF Chat!TypeOK

\* The network of a wallet that is found is a network.
LEMMA Found ==
    ASSUME Chat!ChatAssumptions, ChatInv, NEW n, NEW found, NEW lost, Chat!FindAndActivate(n, found, lost)
    PROVE  /\ registry' \in [wallets : SUBSET Networks, active : Networks \cup {Chat!None}]
           /\ (found /\ n \in Networks) \/ lost
           /\ acts' = acts \/ (\E what \in {"messages", "mishaps"} : Chat!Spend(what))
<1>1. registry \in [wallets : SUBSET Networks, active : Networks \cup {Chat!None}]
  BY DEF ChatInv, Chat!TypeOK
<1>2. CASE n \in registry.wallets /\ registry' = [registry EXCEPT !.active = n] /\ found /\ Chat!Calm
  BY <1>1, <1>2 DEF Chat!Calm
<1>3. CASE UNCHANGED registry /\ lost /\ (Chat!Calm \/ Chat!Fails)
  BY <1>1, <1>3 DEF Chat!Calm, Chat!Fails
<1> QED BY <1>2, <1>3 DEF Chat!FindAndActivate

LEMMA MishapSpends == ASSUME Chat!Spend("mishaps"), ChatInv PROVE acts'.messages = acts.messages
BY DEF Chat!Spend, ChatInv, Shape

LEMMA ActiveKeeps == ASSUME Chat!ChatAssumptions, ChatInv, Chat!Active PROVE ChatInv'
<1>1. PICK plan \in Plans, k \in 1..6 : k \in 1..Len(plan) /\ Along(plan, k) /\ Meets(plan, k) /\ plan[k] = "active"
  BY AtPlan DEF Chat!Active, ChatInv
<1>2. /\ plan # SwitchPlan /\ plan # NetworkPlan /\ ~(plan = SwapPlan /\ k = 1) /\ ~(plan = CyclePlan /\ k = 1)
  BY <1>1, StepOf
<1>3. UNCHANGED <<llm, running, Chat!context, registry, Chat!pending, ran, conversation>> /\ (acts' = acts \/ Chat!Spend("mishaps"))
  BY DEF Chat!Active, Chat!Calm, Chat!Fails
<1>4. Going' /\ CallOK'
  <2>1. CASE Chat!Answer
    BY <2>1, Replied
  <2>2. CASE Chat!Skip([call EXCEPT !.seen = registry.active], 1)
    <3>1. [call EXCEPT !.seen = registry.active] \in {[call EXCEPT !.seen = s] : s \in Networks \cup {Chat!None}}
      BY RegistryType DEF ChatInv
    <3>2. UNCHANGED <<ran, op, opps, conversation, net, quote>> /\ acts'.messages = acts.messages
      BY <1>3, MishapSpends DEF Chat!context, Chat!pending
    <3>3. Chat!HasPendingSwap => Chat!HasPendingSwap'
      BY <3>2 DEF Chat!HasPendingSwap
    <3>4. PICK c : c = [call EXCEPT !.seen = registry.active]
      OBVIOUS
    <3>5. /\ c \in {call} \cup {[call EXCEPT !.seen = s] : s \in Networks \cup {Chat!None}} \cup {[call EXCEPT !.moved = TRUE]}
          /\ Chat!Skip(c, 1)
      BY <2>2, <3>1, <3>4
    <3>6. Shape /\ net' = net
      BY <3>2 DEF ChatInv
    <3>7. 1 \in 1..3
      OBVIOUS
    <3> QED BY <1>1, <1>2, <3>2, <3>3, <3>5, <3>6, <3>7, Onward
  <2> QED BY <2>1, <2>2 DEF Chat!Active
<1>5. registry' \in [wallets : SUBSET Networks, active : Networks \cup {Chat!None}]
  BY <1>3 DEF ChatInv, Chat!TypeOK
<1> QED BY <1>3, <1>4, <1>5, Prepared

LEMMA SeekKeeps == ASSUME Chat!ChatAssumptions, ChatInv, Chat!Seek PROVE ChatInv'
<1>1. PICK plan \in Plans, k \in 1..6 : k \in 1..Len(plan) /\ Along(plan, k) /\ Meets(plan, k) /\ plan[k] = "seek"
  BY AtPlan DEF Chat!Seek, ChatInv
<1>2. /\ plan # SwitchPlan /\ plan # NetworkPlan /\ ~(plan = SwapPlan /\ k = 1) /\ ~(plan = CyclePlan /\ k = 1)
  BY <1>1, StepOf
<1>3. UNCHANGED <<llm, running, Chat!context, registry, Chat!pending, ran, conversation>> /\ (acts' = acts \/ Chat!Spend("mishaps"))
  BY DEF Chat!Seek, Chat!Calm, Chat!Fails
<1>4. Going' /\ CallOK'
  <2>1. UNCHANGED <<ran, op, opps, conversation, net, quote>> /\ acts'.messages = acts.messages
    BY <1>3, MishapSpends DEF Chat!context, Chat!pending
  <2>2. Chat!HasPendingSwap => Chat!HasPendingSwap'
    BY <2>1 DEF Chat!HasPendingSwap
  <2>3. CASE Chat!Skip(call, 3)
    BY <1>1, <1>2, <2>1, <2>2, <2>3, Onward DEF ChatInv
  <2>4. ASSUME NEW s \in Networks \cup {Chat!None}, Chat!Skip([call EXCEPT !.seen = s], 1) PROVE Going' /\ CallOK'
    BY <1>1, <1>2, <2>1, <2>2, <2>4, Onward DEF ChatInv
  <2> QED BY <2>3, <2>4, RegistryType DEF Chat!Seek, ChatInv
<1>5. registry' \in [wallets : SUBSET Networks, active : Networks \cup {Chat!None}]
  BY <1>3 DEF ChatInv, Chat!TypeOK
<1> QED BY <1>3, <1>4, <1>5, Prepared

LEMMA ActivateKeeps == ASSUME Chat!ChatAssumptions, ChatInv, Chat!Activate PROVE ChatInv'
<1>1. PICK plan \in Plans, k \in 1..6 : k \in 1..Len(plan) /\ Along(plan, k) /\ Meets(plan, k) /\ plan[k] = "activate"
  BY AtPlan DEF Chat!Activate, ChatInv
<1>2. /\ plan # SwitchPlan /\ plan # NetworkPlan /\ ~(plan = SwapPlan /\ k = 1) /\ ~(plan = CyclePlan /\ k = 1)
  BY <1>1, StepOf
<1>3. UNCHANGED <<llm, running, Chat!context, Chat!pending, ran, conversation>>
  BY DEF Chat!Activate
<1>4. /\ registry' \in [wallets : SUBSET Networks, active : Networks \cup {Chat!None}]
      /\ Chat!Skip(call, 2) \/ Chat!Skip(call, 1) \/ Chat!Answer
      /\ acts' = acts \/ Chat!Spend("mishaps")
  <2>1. registry \in [wallets : SUBSET Networks, active : Networks \cup {Chat!None}]
    BY DEF ChatInv, Chat!TypeOK
  <2> QED BY <2>1 DEF Chat!Activate, Chat!FindAndActivate, Chat!Calm, Chat!Fails, Chat!Proceed
<1>5. Going' /\ CallOK'
  <2>1. UNCHANGED <<ran, op, opps, conversation, net, quote>> /\ acts'.messages = acts.messages
    BY <1>3, <1>4, MishapSpends DEF Chat!context, Chat!pending
  <2>2. Chat!HasPendingSwap => Chat!HasPendingSwap'
    BY <2>1 DEF Chat!HasPendingSwap
  <2>3. ASSUME NEW n \in 1..3, Chat!Skip(call, n) PROVE Going' /\ CallOK'
    BY <1>1, <1>2, <2>1, <2>2, <2>3, Onward DEF ChatInv
  <2> QED BY <1>4, <2>3, Replied
<1> QED BY <1>3, <1>4, <1>5, Prepared

LEMMA UseKeeps == ASSUME Chat!ChatAssumptions, ChatInv, Chat!Use PROVE ChatInv'
<1>1. PICK plan \in Plans, k \in 1..6 : k \in 1..Len(plan) /\ Along(plan, k) /\ Meets(plan, k) /\ plan[k] = "use"
  BY AtPlan DEF Chat!Use, ChatInv
<1>2. (plan = SwitchPlan /\ k = 1) \/ (plan = NetworkPlan /\ k = 2)
  BY <1>1, PlanOf
<1>3. UNCHANGED <<llm, running, Chat!context, Chat!pending, ran, conversation>>
  BY DEF Chat!Use
<1>4. /\ registry' \in [wallets : SUBSET Networks, active : Networks \cup {Chat!None}]
      /\ (Chat!Skip(call, 1) /\ call.net \in Networks) \/ Chat!Answer
      /\ acts' = acts \/ Chat!Spend("mishaps")
  <2>1. registry \in [wallets : SUBSET Networks, active : Networks \cup {Chat!None}]
    BY DEF ChatInv, Chat!TypeOK
  <2> QED BY <2>1 DEF Chat!Use, Chat!FindAndActivate, Chat!Calm, Chat!Fails, Chat!Proceed
<1>5. Going' /\ CallOK'
  <2>1. UNCHANGED <<ran, op, opps, conversation, net, quote>> /\ acts'.messages = acts.messages
    BY <1>3, <1>4, MishapSpends DEF Chat!context, Chat!pending
  <2>2. Chat!HasPendingSwap => Chat!HasPendingSwap'
    BY <2>1 DEF Chat!HasPendingSwap
  <2>3. CASE Chat!Skip(call, 1) /\ call.net \in Networks /\ plan = NetworkPlan /\ k = 2
    <3>1. plan # SwitchPlan /\ plan # SwapPlan /\ plan # CyclePlan
      BY <2>3, Ends
    <3> QED BY <1>1, <2>1, <2>2, <2>3, <3>1, Onward DEF ChatInv
  <2>4. CASE Chat!Skip(call, 1) /\ plan = SwitchPlan
    <3>1. Len(plan) = 1 /\ Len(call.steps) = Len(plan) - k + 1 /\ k = 1
      BY <1>1, <1>2, <2>4, Ends, NextIs, StepsOfPlans
    <3>2. Len(call.steps) <= 1
      BY <3>1
    <3>3. Chat!Answer
      BY <2>4, <3>2 DEF Chat!Skip, Chat!Answer
    <3> QED BY <3>3, Replied
  <2> QED BY <1>2, <1>4, <2>3, <2>4, Replied
<1> QED BY <1>3, <1>4, <1>5, Prepared

LEMMA RefreshKeeps == ASSUME Chat!ChatAssumptions, ChatInv, Chat!Refresh PROVE ChatInv'
<1>1. UNCHANGED <<llm, running, Chat!context, Chat!pending, ran, conversation, acts>> /\ Chat!Answer
  BY DEF Chat!Refresh
<1>2. registry' \in [wallets : SUBSET Networks, active : Networks \cup {Chat!None}]
  BY DEF ChatInv, Chat!TypeOK, Chat!Refresh
<1> QED BY <1>1, <1>2, Replied, Prepared

LEMMA RequireKeeps == ASSUME Chat!ChatAssumptions, ChatInv, Chat!Require PROVE ChatInv'
<1>1. UNCHANGED <<llm, running, Chat!context, registry, Chat!pending, ran, conversation, acts>>
  BY DEF Chat!Require
<1>2. UNCHANGED <<ran, op, opps, conversation, net, quote>>
  BY <1>1 DEF Chat!context, Chat!pending
<1>3. Chat!HasPendingSwap => Chat!HasPendingSwap'
  BY <1>2 DEF Chat!HasPendingSwap
<1>4. Going' /\ CallOK'
  <2>1. CASE Chat!Answer
    BY <2>1, Replied
  <2>2. CASE Chat!At("quoted") /\ Chat!HasPendingSwap /\ Chat!Proceed
    <3>1. PICK plan \in Plans, k \in 1..6 : k \in 1..Len(plan) /\ Along(plan, k) /\ Meets(plan, k) /\ plan[k] = "quoted"
      BY <2>2, AtPlan DEF ChatInv
    <3>2. plan = SwapPlan /\ plan # SwitchPlan /\ plan # NetworkPlan /\ plan # CyclePlan
      BY <3>1, PlanOf, Ends
    <3> QED BY <1>1, <1>2, <1>3, <2>2, <3>1, <3>2, Onward DEF ChatInv, Chat!Proceed
  <2>3. CASE Chat!At("selected") /\ Chat!Selected /\ Chat!Proceed
    <3>1. PICK plan \in Plans, k \in 1..6 : k \in 1..Len(plan) /\ Along(plan, k) /\ Meets(plan, k) /\ plan[k] = "selected"
      BY <2>3, AtPlan DEF ChatInv
    <3>2. plan = CyclePlan /\ plan # SwitchPlan /\ plan # NetworkPlan /\ plan # SwapPlan
      BY <3>1, PlanOf, Ends
    <3> QED BY <1>1, <1>2, <1>3, <2>3, <3>1, <3>2, Onward DEF ChatInv, Chat!Proceed
  <2> QED BY <2>1, <2>2, <2>3 DEF Chat!Require
<1>5. registry' \in [wallets : SUBSET Networks, active : Networks \cup {Chat!None}]
  BY <1>1 DEF ChatInv, Chat!TypeOK
<1> QED BY <1>1, <1>4, <1>5, Prepared

LEMMA FollowKeeps == ASSUME Chat!ChatAssumptions, ChatInv, Chat!Follow PROVE ChatInv'
<1>1. PICK plan \in Plans, k \in 1..6 : k \in 1..Len(plan) /\ Along(plan, k) /\ Meets(plan, k) /\ plan[k] = "follow"
  BY AtPlan DEF Chat!Follow, ChatInv
<1>2. /\ plan # SwitchPlan /\ plan # NetworkPlan /\ ~(plan = SwapPlan /\ k = 1) /\ ~(plan = CyclePlan /\ k = 1)
  BY <1>1, StepOf
<1>3. UNCHANGED <<llm, running, registry, op, opps, ran, conversation, acts>>
  BY DEF Chat!Follow
<1>4. CASE call.seen \in registry.wallets
  <2>1. /\ Chat!Skip([call EXCEPT !.moved = TRUE], 1) /\ net' = call.seen /\ services' = call.seen
        /\ quote' = IF Chat!HasPendingSwap THEN [quote EXCEPT !.moved = TRUE] ELSE quote
    BY <1>4 DEF Chat!Follow
  <2>2. call.seen \in Networks
    BY <1>4, RegistryType DEF ChatInv
  <2>3. quote \in [id : Chat!Ids, net : Chat!Somewhere \cup {Chat!None}, moved : BOOLEAN]
    BY DEF ChatInv, Shape
  <2>4. /\ quote' \in [id : Chat!Ids, net : Chat!Somewhere \cup {Chat!None}, moved : BOOLEAN] /\ quote'.id = quote.id
        /\ Chat!HasPendingSwap => quote'.moved = TRUE /\ Chat!HasPendingSwap'
        /\ ~Chat!HasPendingSwap => ~Chat!HasPendingSwap'
    BY <2>1, <2>3 DEF Chat!HasPendingSwap, Chat!NoQuote
  <2>5. Going' /\ CallOK'
    <3>1. [call EXCEPT !.moved = TRUE].moved = TRUE
      BY DEF ChatInv, Shape, CallOK, Chat!NoCall
    <3>2. Shape /\ (Chat!HasPendingSwap => Chat!HasPendingSwap')
      BY <2>4 DEF ChatInv
    <3>3. UNCHANGED <<ran, op, opps, conversation>> /\ acts'.messages = acts.messages
      BY <1>3
    <3>4. PICK c : c = [call EXCEPT !.moved = TRUE]
      OBVIOUS
    <3>5. /\ c \in {call} \cup {[call EXCEPT !.seen = s] : s \in Networks \cup {Chat!None}} \cup {[call EXCEPT !.moved = TRUE]}
          /\ net' = net \/ c.moved = TRUE
      BY <3>1, <3>4
    <3>6. Chat!Skip(c, 1)
      BY <2>1, <3>4
    <3>7. 1 \in 1..3
      OBVIOUS
    <3> QED BY <1>1, <1>2, <3>2, <3>3, <3>5, <3>6, <3>7, Onward
  <2>6. Chat!TypeOK'
    BY <1>3, <2>1, <2>2, <2>4 DEF ChatInv, Chat!TypeOK, Chat!Somewhere
  <2>7. Shape'
    BY <1>3, <2>4, <2>5 DEF ChatInv, Shape
  <2>8. Shown'
    BY <1>3, <2>4 DEF ChatInv, Shown, Open, Chat!HasPendingTriangularOpportunities
  <2> QED BY <2>5, <2>6, <2>7, <2>8 DEF ChatInv
<1>5. CASE call.seen \notin registry.wallets
  <2>1. Chat!Answer /\ UNCHANGED <<Chat!context, quote>>
    BY <1>5 DEF Chat!Follow
  <2>2. registry' \in [wallets : SUBSET Networks, active : Networks \cup {Chat!None}]
    BY <1>3 DEF ChatInv, Chat!TypeOK
  <2>3. UNCHANGED <<llm, running, Chat!context, Chat!pending, ran, conversation>> /\ acts' = acts
    BY <1>3, <2>1 DEF Chat!pending
  <2> QED BY <2>1, <2>2, <2>3, Replied, Prepared
<1> QED BY <1>4, <1>5

LEMMA SetKeeps == ASSUME Chat!ChatAssumptions, ChatInv, Chat!Set PROVE ChatInv'
<1>1. PICK plan \in Plans, k \in 1..6 : k \in 1..Len(plan) /\ Along(plan, k) /\ Meets(plan, k) /\ plan[k] = "set"
  BY AtPlan DEF Chat!Set, ChatInv
<1>2. plan = NetworkPlan /\ k = 1 /\ call.net \in Chat!Somewhere
  BY <1>1, PlanOf DEF Meets
<1>3. /\ UNCHANGED <<llm, running, services, registry, opps, ran, acts>> /\ net' = call.net /\ op' = Chat!NoOp /\ quote' = Chat!NoQuote
      /\ conversation' = [conversation EXCEPT !.revoked = conversation.shown] /\ Chat!Proceed
  BY DEF Chat!Set
<1>4. conversation \in [shown : Chat!Ids, revoked : Chat!Ids, done : SUBSET (Chat!Ids \ {0}), picked : 0..MaxPicks, last : [Kinds -> Chat!Ids]]
  BY DEF ChatInv, Shape
<1>5. /\ conversation' \in [shown : Chat!Ids, revoked : Chat!Ids, done : SUBSET (Chat!Ids \ {0}), picked : 0..MaxPicks, last : [Kinds -> Chat!Ids]]
      /\ conversation'.shown = conversation.shown /\ conversation'.revoked = conversation.shown /\ conversation'.done = conversation.done
      /\ conversation'.picked = conversation.picked /\ conversation'.last = conversation.last
  BY <1>3, <1>4
<1>6. Going' /\ CallOK'
  <2>1. Len(call.steps) = 3 /\ SubSeq(call.steps, 2, 3) = SubSeq(plan, 2, 3)
    <3>1. Len(plan) = 3 /\ Len(call.steps) = Len(plan) - k + 1
      BY <1>1, <1>2, NextIs, StepsOfPlans
    <3>2. Len(call.steps) = 3 /\ Len(call.steps) > 1 /\ k + 1 = 2 /\ 1 + 1 = 2
      BY <1>2, <3>1
    <3>3. \A n \in 1..3 : Len(call.steps) > n => SubSeq(call.steps, n + 1, Len(call.steps)) = SubSeq(plan, k + n, Len(plan))
      BY <1>1, NextIs
    <3> QED BY <3>1, <3>2, <3>3
  <2>2. call' = [call EXCEPT !.steps = SubSeq(plan, 2, 3)]
    BY <1>3, <2>1 DEF Chat!Proceed, Chat!Skip
  <2>3. /\ call'.steps = SubSeq(plan, 2, 3) /\ call'.net = call.net /\ DOMAIN call' = DOMAIN Chat!NoCall
        /\ call'.seen = call.seen /\ call'.moved = call.moved
    BY <2>2 DEF ChatInv, Shape, CallOK, Chat!NoCall
  <2>4. Along(plan, 2)'
    <3>1. Len(plan) = 3
      BY <1>2, StepsOfPlans
    <3> QED BY <2>3, <3>1 DEF Along
  <2>5. Meets(plan, 2)'
    <3>1. plan \notin {QuotePlan, SwapPlan, AskPlan, PayAskPlan, PayPlan, AnswerPlan, CyclePlan}
      BY <1>2, Ends
    <3> QED BY <1>2, <2>3, <3>1 DEF Meets
  <2>6. 2 \in 1..Len(plan)
    BY <2>4 DEF Along
  <2> QED BY <2>3, <2>4, <2>5, <2>6 DEF Going, ChatInv, Shape, CallOK
<1>7. op' \in [tool : Tools, missing : 0..4, id : Chat!Ids, net : Chat!Somewhere \cup {Chat!None}] /\ op'.tool = Chat!None /\ op'.missing = 0 /\ op'.id = 0
  BY <1>3, Bounds DEF Chat!NoOp, Tools, Chat!Ids
<1>8. quote' \in [id : Chat!Ids, net : Chat!Somewhere \cup {Chat!None}, moved : BOOLEAN] /\ quote'.id = 0
  BY <1>3, Bounds DEF Chat!NoQuote, Chat!Ids
<1>9. Chat!TypeOK'
  <2>1. op'.id \in Chat!Ids /\ quote'.id \in Chat!Ids
    BY <1>7, <1>8
  <2> QED BY <1>2, <1>3, <1>5, <1>7, <2>1 DEF ChatInv, Chat!TypeOK
<1>10. Shape'
  BY <1>3, <1>5, <1>6, <1>7, <1>8 DEF ChatInv, Shape
<1>11. Shown'
  <2>1. ~Chat!HasPendingSwap' /\ op'.tool # "pay_send_execute"
    BY <1>3, <1>7 DEF Chat!HasPendingSwap, Chat!None
  <2>2. Chat!HasPendingTriangularOpportunities' => Open("cycle", opps.id)' /\ opps'.picked = conversation'.picked
    BY <1>3, <1>5 DEF ChatInv, Shown, Chat!HasPendingTriangularOpportunities, Open
  <2>3. conversation'.revoked <= conversation'.shown
    BY <1>4, <1>5, Bounds DEF Chat!Ids
  <2> QED BY <1>5, <2>1, <2>2, <2>3 DEF ChatInv, Shown
<1> QED BY <1>6, <1>9, <1>10, <1>11 DEF ChatInv

LEMMA CancelKeeps == ASSUME Chat!ChatAssumptions, ChatInv, Chat!Cancel PROVE ChatInv'
<1>3. /\ UNCHANGED <<llm, running, Chat!context, registry, opps, ran, acts>> /\ op' = Chat!NoOp /\ quote' = Chat!NoQuote
      /\ conversation' = [conversation EXCEPT !.revoked = conversation.shown] /\ Chat!Answer
  BY DEF Chat!Cancel
<1>4. conversation \in [shown : Chat!Ids, revoked : Chat!Ids, done : SUBSET (Chat!Ids \ {0}), picked : 0..MaxPicks, last : [Kinds -> Chat!Ids]]
  BY DEF ChatInv, Shape
<1>5. /\ conversation' \in [shown : Chat!Ids, revoked : Chat!Ids, done : SUBSET (Chat!Ids \ {0}), picked : 0..MaxPicks, last : [Kinds -> Chat!Ids]]
      /\ conversation'.shown = conversation.shown /\ conversation'.revoked = conversation.shown /\ conversation'.done = conversation.done
      /\ conversation'.picked = conversation.picked /\ conversation'.last = conversation.last
  BY <1>3, <1>4
<1>6. Going' /\ CallOK'
  BY <1>3, Replied
<1>7. op' \in [tool : Tools, missing : 0..4, id : Chat!Ids, net : Chat!Somewhere \cup {Chat!None}] /\ op'.tool = Chat!None /\ op'.missing = 0 /\ op'.id = 0
  BY <1>3, Bounds DEF Chat!NoOp, Tools, Chat!Ids
<1>8. quote' \in [id : Chat!Ids, net : Chat!Somewhere \cup {Chat!None}, moved : BOOLEAN] /\ quote'.id = 0
  BY <1>3, Bounds DEF Chat!NoQuote, Chat!Ids
<1>9. Chat!TypeOK'
  <2>1. op'.id \in Chat!Ids /\ quote'.id \in Chat!Ids
    BY <1>7, <1>8
  <2> QED BY <1>3, <1>5, <1>7, <2>1 DEF ChatInv, Chat!TypeOK, Chat!context
<1>10. Shape'
  BY <1>3, <1>5, <1>6, <1>7, <1>8 DEF ChatInv, Shape
<1>11. Shown'
  <2>1. ~Chat!HasPendingSwap' /\ op'.tool # "pay_send_execute"
    BY <1>3, <1>7 DEF Chat!HasPendingSwap, Chat!None
  <2>2. Chat!HasPendingTriangularOpportunities' => Open("cycle", opps.id)' /\ opps'.picked = conversation'.picked
    BY <1>3, <1>5 DEF ChatInv, Shown, Chat!HasPendingTriangularOpportunities, Open
  <2>3. conversation'.revoked <= conversation'.shown
    BY <1>4, <1>5, Bounds DEF Chat!Ids
  <2> QED BY <1>5, <2>1, <2>2, <2>3 DEF ChatInv, Shown
<1> QED BY <1>6, <1>9, <1>10, <1>11 DEF ChatInv

LEMMA RenewKeeps == ASSUME Chat!ChatAssumptions, ChatInv, Chat!RefreshServicesForNetwork PROVE ChatInv'
<1>1. PICK plan \in Plans, k \in 1..6 : k \in 1..Len(plan) /\ Along(plan, k) /\ Meets(plan, k) /\ plan[k] = "renew"
  BY AtPlan DEF Chat!RefreshServicesForNetwork, ChatInv
<1>2. call.net \in Networks
  BY <1>1, PlanOf DEF Meets
<1>3. UNCHANGED <<llm, running, net, registry, Chat!pending, ran, conversation, acts>> /\ services' = call.net /\ Chat!Answer
  BY DEF Chat!RefreshServicesForNetwork
<1>4. Chat!TypeOK'
  BY <1>2, <1>3 DEF ChatInv, Chat!TypeOK, Chat!pending
<1>5. Shown'
  BY <1>3, SameShown DEF ChatInv, Chat!pending
<1>6. Going' /\ CallOK'
  BY <1>3, Replied
<1>7. Shape'
  BY <1>3, <1>6 DEF ChatInv, Shape, Chat!pending
<1> QED BY <1>4, <1>5, <1>6, <1>7 DEF ChatInv

LEMMA CollectKeeps == ASSUME Chat!ChatAssumptions, ChatInv, Chat!StartParameterCollection PROVE ChatInv'
<1>1. PICK plan \in Plans, k \in 1..6 : k \in 1..Len(plan) /\ Along(plan, k) /\ Meets(plan, k) /\ plan[k] = "collect"
  BY AtPlan DEF Chat!StartParameterCollection, ChatInv
<1>2. call.op \in Collected
  BY <1>1, PlanOf DEF Meets
<1>3. UNCHANGED <<llm, running, Chat!context, registry, quote, opps, ran, conversation, acts>> /\ op' = call.op /\ Chat!Answer
  BY DEF Chat!StartParameterCollection
<1>4. op' \in [tool : Tools, missing : 0..4, id : Chat!Ids, net : Chat!Somewhere \cup {Chat!None}] /\ op'.tool # "pay_send_execute"
      /\ op'.tool \in Tools /\ op'.missing \in 0..4 /\ op'.id \in Chat!Ids
  BY <1>2, <1>3, Bounds DEF Collected, Tools, Chat!Ids
<1>5. Chat!TypeOK'
  BY <1>3, <1>4 DEF ChatInv, Chat!TypeOK, Chat!context, Tools
<1>6. Shown'
  BY <1>3, <1>4 DEF ChatInv, Shown, Open, Chat!HasPendingSwap, Chat!HasPendingTriangularOpportunities, Chat!context
<1>7. Going' /\ CallOK'
  BY <1>3, Replied
<1>8. Shape'
  BY <1>3, <1>4, <1>7 DEF ChatInv, Shape
<1> QED BY <1>5, <1>6, <1>7, <1>8 DEF ChatInv

LEMMA StopKeeps == ASSUME Chat!ChatAssumptions, ChatInv, Chat!Stop PROVE ChatInv'
<1>1. UNCHANGED <<llm, Chat!context, registry, Chat!pending, ran, conversation, acts>> /\ running' = FALSE /\ Chat!Answer
  BY DEF Chat!Stop
<1>2. Chat!TypeOK'
  BY <1>1 DEF ChatInv, Chat!TypeOK, Chat!pending, Chat!context
<1>3. Shown'
  BY <1>1, SameShown DEF ChatInv, Chat!pending, Chat!context
<1>4. Going' /\ CallOK'
  BY <1>1, Replied
<1>5. Shape'
  BY <1>1, <1>4 DEF ChatInv, Shape, Chat!pending
<1> QED BY <1>2, <1>3, <1>4, <1>5 DEF ChatInv

LEMMA OthersKeep == ASSUME Chat!ChatAssumptions, ChatInv, Chat!Others PROVE ChatInv'
<1>1. UNCHANGED <<llm, running, Chat!context, Chat!pending, call, ran, conversation>> /\ Chat!Spend("mishaps")
  BY DEF Chat!Others
<1>2. registry' \in [wallets : SUBSET Networks, active : Networks \cup {Chat!None}]
  BY RegistryType DEF ChatInv, Chat!Others
<1>3. acts'.messages = acts.messages
  BY <1>1, MishapSpends
<1>4. UNCHANGED <<net, services, op, quote, opps>>
  BY <1>1 DEF Chat!context, Chat!pending
<1>5. CallOK'
  BY <1>1 DEF ChatInv, Shape, CallOK
<1>6. Going'
  <2>1. CASE call.steps = <<>>
    BY <1>1, <2>1 DEF Going
  <2>2. ASSUME NEW plan \in Plans, NEW k \in 1..Len(plan), Along(plan, k), Meets(plan, k)
        PROVE  Along(plan, k)' /\ Meets(plan, k)'
    BY <1>1, <1>3, <1>4, <2>2 DEF Along, Meets, Confirmed, Open, Chat!HasPendingSwap, Chat!Selected
  <2>3. CASE \E plan \in Plans : \E k \in 1..Len(plan) : Along(plan, k) /\ Meets(plan, k)
    BY <2>2, <2>3 DEF Going
  <2> QED BY <2>1, <2>3 DEF ChatInv, Going
<1> QED BY <1>1, <1>2, <1>5, <1>6, Prepared

------------------------------------------------------------------------------
\* What is shown.

HistoryType == conversation \in [shown : Chat!Ids, revoked : Chat!Ids, done : SUBSET (Chat!Ids \ {0}), picked : 0..MaxPicks, last : [Kinds -> Chat!Ids]]

\* What is shown is open, and what was open of the other kinds stays so.
LEMMA ShowOpens ==
    ASSUME Chat!ChatAssumptions, ChatInv, NEW kind \in Kinds, Chat!Room, Chat!Show(kind), NEW CONSTANT new, new = conversation.shown + 1
    PROVE  /\ HistoryType' /\ Open(kind, new)' /\ new \in Chat!Ids
           /\ \A a \in Kinds, id \in Chat!Ids : a # kind /\ Open(a, id) => Open(a, id)'
           /\ conversation'.revoked <= conversation'.shown
           /\ \A id \in conversation'.done : id <= conversation'.shown
           /\ \A a \in Kinds :
                 /\ conversation'.last[a] <= conversation'.shown
                 /\ \A b \in Kinds : a # b /\ conversation'.last[a] = conversation'.last[b] => conversation'.last[a] = 0
           /\ conversation'.picked = IF kind = "cycle" THEN 0 ELSE conversation.picked
           /\ conversation'.done = conversation.done /\ conversation'.shown = new
<1>1. HistoryType /\ MaxShown \in Nat /\ MaxPicks \in Nat
  BY Bounds DEF HistoryType, ChatInv, Shape
<1>2. new \in Chat!Ids /\ new > conversation.shown /\ conversation.shown \in Nat /\ new >= 1
  BY <1>1 DEF HistoryType, Chat!Ids, Chat!Room
<1>3. /\ conversation'.shown = new /\ conversation'.revoked = conversation.revoked /\ conversation'.done = conversation.done
      /\ conversation'.picked = (IF kind = "cycle" THEN 0 ELSE conversation.picked)
      /\ conversation'.last = [conversation.last EXCEPT ![kind] = new]
      /\ conversation' = [shown |-> conversation'.shown, revoked |-> conversation'.revoked, done |-> conversation'.done,
                     picked |-> conversation'.picked, last |-> conversation'.last]
  BY <1>1 DEF HistoryType, Chat!Show
<1>4. conversation.last \in [Kinds -> Chat!Ids] /\ conversation'.last \in [Kinds -> Chat!Ids]
  BY <1>1, <1>2, <1>3 DEF HistoryType
<1>5. \A a \in Kinds : conversation'.last[a] = IF a = kind THEN new ELSE conversation.last[a]
  BY <1>3, <1>4
<1>6. HistoryType'
  BY <1>1, <1>2, <1>3, <1>4 DEF HistoryType, Chat!Ids
<1>7. /\ conversation.revoked \in Nat /\ conversation.revoked <= conversation.shown
      /\ \A id \in conversation.done : id \in Nat /\ id <= conversation.shown
      /\ \A a \in Kinds : conversation.last[a] \in Nat /\ conversation.last[a] <= conversation.shown
  BY <1>1, <1>4 DEF HistoryType, Chat!Ids, ChatInv, Shown
<1>8. Open(kind, new)'
  <2>1. new \in 1..conversation'.shown
    BY <1>2, <1>3
  <2>2. new = conversation'.last[kind]
    BY <1>5
  <2>3. new \notin conversation'.done /\ new > conversation'.revoked
    BY <1>2, <1>3, <1>7
  <2> QED BY <2>1, <2>2, <2>3 DEF Open
<1>9. ASSUME NEW a \in Kinds, NEW id \in Chat!Ids, a # kind, Open(a, id) PROVE Open(a, id)'
  <2>1. id \in 1..conversation.shown /\ id \notin conversation.done /\ id = conversation.last[a]
        /\ (a # "cycle" => id > conversation.revoked)
    BY <1>9 DEF Open
  <2>2. id \in 1..conversation'.shown
    BY <1>2, <1>3, <2>1
  <2>3. id = conversation'.last[a]
    BY <1>5, <1>9, <2>1
  <2> QED BY <1>3, <2>1, <2>2, <2>3 DEF Open
<1>10. \A a \in Kinds : conversation'.last[a] <= conversation'.shown
  BY <1>2, <1>3, <1>5, <1>7
<1>11. ASSUME NEW a \in Kinds, NEW b \in Kinds, a # b, conversation'.last[a] = conversation'.last[b] PROVE conversation'.last[a] = 0
  <2>1. a # kind /\ b # kind
    BY <1>2, <1>5, <1>7, <1>11
  <2>2. conversation.last[a] = conversation.last[b] => conversation.last[a] = 0
    BY <1>11 DEF ChatInv, Shown
  <2> QED BY <1>5, <1>11, <2>1, <2>2
<1> QED BY <1>2, <1>3, <1>6, <1>7, <1>8, <1>9, <1>10, <1>11

\* What is pending has a number.
LEMMA Numbers ==
    ASSUME Chat!ChatAssumptions, ChatInv
    PROVE  /\ quote.id \in Chat!Ids /\ opps.id \in Chat!Ids /\ op.id \in Chat!Ids
           /\ \A e \in 1..conversation.shown : e \in Chat!Ids
<1>1. conversation.shown \in Chat!Ids /\ MaxShown \in Nat
  BY Bounds DEF ChatInv, Shape
<1> QED BY <1>1 DEF ChatInv, Chat!TypeOK, Chat!Ids

LEMMA GetQuoteKeeps == ASSUME Chat!ChatAssumptions, ChatInv, Chat!GetQuote PROVE ChatInv'
<1>1. PICK plan \in Plans, k \in 1..6 : k \in 1..Len(plan) /\ Along(plan, k) /\ Meets(plan, k) /\ plan[k] = "quote"
  BY AtPlan DEF Chat!GetQuote, ChatInv
<1>2. call.net = net \/ call.moved = TRUE
  BY <1>1, PlanOf DEF Meets
<1>3. UNCHANGED <<llm, running, Chat!context, registry, op, opps, ran, acts>> /\ Chat!Answer
  BY DEF Chat!GetQuote
<1>4. UNCHANGED <<net, services>>
  BY <1>3 DEF Chat!context
<1>5. Going' /\ CallOK'
  BY <1>3, Replied
<1>6. CASE Chat!Room /\ Chat!Show("swap") /\ quote' = [id |-> conversation.shown + 1, net |-> call.net, moved |-> call.moved]
  <2> PICK new : new = conversation.shown + 1
    OBVIOUS
  <2>1. "swap" \in Kinds /\ "pay" \in Kinds /\ "cycle" \in Kinds
    BY DEF Kinds
  <2>2. /\ HistoryType' /\ Open("swap", new)' /\ new \in Chat!Ids
        /\ \A a \in Kinds, id \in Chat!Ids : a # "swap" /\ Open(a, id) => Open(a, id)'
        /\ conversation'.revoked <= conversation'.shown
        /\ \A id \in conversation'.done : id <= conversation'.shown
        /\ \A a \in Kinds :
              /\ conversation'.last[a] <= conversation'.shown
              /\ \A b \in Kinds : a # b /\ conversation'.last[a] = conversation'.last[b] => conversation'.last[a] = 0
        /\ conversation'.picked = conversation.picked
    BY <1>6, <2>1, ShowOpens
  <2>3. call.net \in Chat!Somewhere \cup {Chat!None} /\ call.moved \in BOOLEAN
    BY DEF ChatInv, Shape, CallOK
  <2>4. quote' \in [id : Chat!Ids, net : Chat!Somewhere \cup {Chat!None}, moved : BOOLEAN] /\ quote'.id = new
        /\ quote'.net = call.net /\ quote'.moved = call.moved
    BY <1>6, <2>2, <2>3
  <2>5. Chat!TypeOK'
    BY <1>3, <1>4, <2>2, <2>4 DEF ChatInv, Chat!TypeOK, HistoryType
  <2>6. Shape'
    BY <1>3, <1>5, <2>2, <2>4 DEF ChatInv, Shape, HistoryType
  <2>7. Open("swap", quote.id)' /\ (quote.net = net \/ quote.moved)'
    BY <1>2, <1>4, <2>2, <2>4
  <2>8. Chat!HasPendingTriangularOpportunities' => Open("cycle", opps.id)' /\ opps'.picked = conversation'.picked
    BY <1>3, <2>1, <2>2, Numbers DEF ChatInv, Shown, Chat!HasPendingTriangularOpportunities
  <2>9. op'.tool = "pay_send_execute" => Open("pay", op.id)'
    BY <1>3, <2>1, <2>2, Numbers DEF ChatInv, Shown
  <2>10. Shown'
    BY <2>2, <2>7, <2>8, <2>9 DEF Shown
  <2> QED BY <1>5, <2>5, <2>6, <2>10 DEF ChatInv
<1>7. CASE UNCHANGED <<quote, conversation>>
  <2>1. Chat!TypeOK'
    BY <1>3, <1>4, <1>7 DEF ChatInv, Chat!TypeOK
  <2>2. Shape'
    BY <1>3, <1>5, <1>7 DEF ChatInv, Shape
  <2>3. Shown'
    BY <1>3, <1>4, <1>7, SameShown DEF ChatInv
  <2> QED BY <1>5, <2>1, <2>2, <2>3 DEF ChatInv
<1> QED BY <1>6, <1>7 DEF Chat!GetQuote

LEMMA SummaryKeeps == ASSUME Chat!ChatAssumptions, ChatInv, Chat!PaymentSummary PROVE ChatInv'
<1>3. UNCHANGED <<llm, running, Chat!context, registry, quote, opps, ran, acts>> /\ Chat!Answer
  BY DEF Chat!PaymentSummary
<1>4. UNCHANGED <<net, services>>
  BY <1>3 DEF Chat!context
<1>5. Going' /\ CallOK'
  BY <1>3, Replied
<1>6. CASE /\ Chat!Room /\ Chat!Show("pay")
           /\ op' = [tool |-> "pay_send_execute", missing |-> 0, id |-> conversation.shown + 1, net |-> net]
  <2> PICK new : new = conversation.shown + 1
    OBVIOUS
  <2>1. "swap" \in Kinds /\ "pay" \in Kinds /\ "cycle" \in Kinds
    BY DEF Kinds
  <2>2. /\ HistoryType' /\ Open("pay", new)' /\ new \in Chat!Ids
        /\ \A a \in Kinds, id \in Chat!Ids : a # "pay" /\ Open(a, id) => Open(a, id)'
        /\ conversation'.revoked <= conversation'.shown
        /\ \A id \in conversation'.done : id <= conversation'.shown
        /\ \A a \in Kinds :
              /\ conversation'.last[a] <= conversation'.shown
              /\ \A b \in Kinds : a # b /\ conversation'.last[a] = conversation'.last[b] => conversation'.last[a] = 0
        /\ conversation'.picked = conversation.picked
    BY <1>6, <2>1, ShowOpens
  <2>3. net \in Chat!Somewhere
    BY DEF ChatInv, Chat!TypeOK
  <2>4. op' \in [tool : Tools, missing : 0..4, id : Chat!Ids, net : Chat!Somewhere \cup {Chat!None}] /\ op'.id = new
        /\ op'.tool \in Tools /\ op'.missing \in 0..4
    BY <1>6, <2>2, <2>3 DEF Tools
  <2>5. Chat!TypeOK'
    BY <1>3, <1>4, <2>2, <2>4 DEF ChatInv, Chat!TypeOK, HistoryType, Tools
  <2>6. Shape'
    BY <1>3, <1>5, <2>2, <2>4 DEF ChatInv, Shape, HistoryType
  <2>7. Chat!HasPendingSwap' => Open("swap", quote.id)' /\ (quote.net = net \/ quote.moved)'
    BY <1>3, <1>4, <2>1, <2>2, Numbers DEF ChatInv, Shown, Chat!HasPendingSwap
  <2>8. Chat!HasPendingTriangularOpportunities' => Open("cycle", opps.id)' /\ opps'.picked = conversation'.picked
    BY <1>3, <2>1, <2>2, Numbers DEF ChatInv, Shown, Chat!HasPendingTriangularOpportunities
  <2>9. Open("pay", op.id)'
    BY <2>2, <2>4
  <2>10. Shown'
    BY <2>2, <2>7, <2>8, <2>9 DEF Shown
  <2> QED BY <1>5, <2>5, <2>6, <2>10 DEF ChatInv
<1>7. CASE UNCHANGED <<op, conversation>>
  <2>1. Chat!TypeOK'
    BY <1>3, <1>4, <1>7 DEF ChatInv, Chat!TypeOK
  <2>2. Shape'
    BY <1>3, <1>5, <1>7 DEF ChatInv, Shape
  <2>3. Shown'
    BY <1>3, <1>4, <1>7, SameShown DEF ChatInv
  <2> QED BY <1>5, <2>1, <2>2, <2>3 DEF ChatInv
<1> QED BY <1>6, <1>7 DEF Chat!PaymentSummary

LEMMA ScanKeeps == ASSUME Chat!ChatAssumptions, ChatInv, Chat!Scan PROVE ChatInv'
<1>3. UNCHANGED <<llm, running, Chat!context, registry, op, quote, ran, acts>> /\ Chat!Answer
  BY DEF Chat!Scan
<1>4. UNCHANGED <<net, services>>
  BY <1>3 DEF Chat!context
<1>5. Going' /\ CallOK'
  BY <1>3, Replied
<1>6. ASSUME Chat!Room, Chat!Show("cycle"), NEW k \in 1..MaxPicks, opps' = [id |-> conversation.shown + 1, count |-> k, picked |-> 0]
      PROVE  ChatInv'
  <2> PICK new : new = conversation.shown + 1
    OBVIOUS
  <2>1. "swap" \in Kinds /\ "pay" \in Kinds /\ "cycle" \in Kinds
    BY DEF Kinds
  <2>2. /\ HistoryType' /\ Open("cycle", new)' /\ new \in Chat!Ids
        /\ \A a \in Kinds, id \in Chat!Ids : a # "cycle" /\ Open(a, id) => Open(a, id)'
        /\ conversation'.revoked <= conversation'.shown
        /\ \A id \in conversation'.done : id <= conversation'.shown
        /\ \A a \in Kinds :
              /\ conversation'.last[a] <= conversation'.shown
              /\ \A b \in Kinds : a # b /\ conversation'.last[a] = conversation'.last[b] => conversation'.last[a] = 0
        /\ conversation'.picked = 0
    BY <1>6, <2>1, ShowOpens
  <2>4. opps' \in [id : Chat!Ids, count : 0..MaxPicks, picked : 0..MaxPicks] /\ opps'.id = new
        /\ opps'.count \in 0..MaxPicks /\ opps'.picked = 0 /\ opps'.picked \in 0..opps'.count
    BY <1>6, <2>2, Bounds
  <2>5. Chat!TypeOK'
    BY <1>3, <1>4, <2>2, <2>4 DEF ChatInv, Chat!TypeOK, HistoryType
  <2>6. Shape'
    BY <1>3, <1>5, <2>2, <2>4 DEF ChatInv, Shape, HistoryType
  <2>7. Chat!HasPendingSwap' => Open("swap", quote.id)' /\ (quote.net = net \/ quote.moved)'
    BY <1>3, <1>4, <2>1, <2>2, Numbers DEF ChatInv, Shown, Chat!HasPendingSwap
  <2>8. Open("cycle", opps.id)' /\ opps'.picked = conversation'.picked
    BY <2>2, <2>4
  <2>9. op'.tool = "pay_send_execute" => Open("pay", op.id)'
    BY <1>3, <2>1, <2>2, Numbers DEF ChatInv, Shown
  <2>10. Shown'
    BY <2>2, <2>7, <2>8, <2>9 DEF Shown
  <2> QED BY <1>5, <2>5, <2>6, <2>10 DEF ChatInv
<1>7. CASE UNCHANGED <<opps, conversation>>
  <2>1. Chat!TypeOK'
    BY <1>3, <1>4, <1>7 DEF ChatInv, Chat!TypeOK
  <2>2. Shape'
    BY <1>3, <1>5, <1>7 DEF ChatInv, Shape
  <2>3. Shown'
    BY <1>3, <1>4, <1>7, SameShown DEF ChatInv
  <2> QED BY <1>5, <2>1, <2>2, <2>3 DEF ChatInv
<1> QED BY <1>6, <1>7 DEF Chat!Scan

LEMMA SelectKeeps == ASSUME Chat!ChatAssumptions, ChatInv, Chat!SelectTriangular PROVE ChatInv'
<1>3. UNCHANGED <<llm, running, Chat!context, registry, op, quote, ran, acts>> /\ Chat!Answer
  BY DEF Chat!SelectTriangular
<1>4. UNCHANGED <<net, services>>
  BY <1>3 DEF Chat!context
<1>5. Going' /\ CallOK'
  BY <1>3, Replied
<1>6. ASSUME NEW k \in 1..(MaxPicks + 1), k <= opps.count,
             opps' = [opps EXCEPT !.picked = k], conversation' = [conversation EXCEPT !.picked = k]
      PROVE  ChatInv'
  <2>1. MaxPicks \in Nat /\ opps.count \in 0..MaxPicks /\ opps \in [id : Chat!Ids, count : 0..MaxPicks, picked : 0..MaxPicks] /\ HistoryType
    BY Bounds DEF ChatInv, Chat!TypeOK, Shape, HistoryType
  <2>2. k \in 0..MaxPicks /\ k \in 0..opps.count
    BY <1>6, <2>1
  <2>3. opps' \in [id : Chat!Ids, count : 0..MaxPicks, picked : 0..MaxPicks] /\ opps'.id = opps.id /\ opps'.count = opps.count /\ opps'.picked = k
    BY <1>6, <2>1, <2>2
  <2>4. /\ HistoryType' /\ conversation'.shown = conversation.shown /\ conversation'.revoked = conversation.revoked /\ conversation'.done = conversation.done
        /\ conversation'.last = conversation.last /\ conversation'.picked = k
    BY <1>6, <2>1, <2>2 DEF HistoryType
  <2>5. Chat!TypeOK'
    BY <1>3, <1>4, <2>2, <2>3, <2>4 DEF ChatInv, Chat!TypeOK
  <2>6. Shape'
    BY <1>3, <1>5, <2>3, <2>4 DEF ChatInv, Shape, HistoryType
  <2>7. Shown'
    BY <1>3, <1>4, <2>3, <2>4 DEF ChatInv, Shown, Open, Chat!HasPendingSwap, Chat!HasPendingTriangularOpportunities
  <2> QED BY <1>5, <2>5, <2>6, <2>7 DEF ChatInv
<1>7. CASE UNCHANGED <<opps, conversation>>
  <2>1. Chat!TypeOK'
    BY <1>3, <1>4, <1>7 DEF ChatInv, Chat!TypeOK
  <2>2. Shape'
    BY <1>3, <1>5, <1>7 DEF ChatInv, Shape
  <2>3. Shown'
    BY <1>3, <1>4, <1>7, SameShown DEF ChatInv
  <2> QED BY <1>5, <2>1, <2>2, <2>3 DEF ChatInv
<1> QED BY <1>6, <1>7 DEF Chat!SelectTriangular

------------------------------------------------------------------------------
\* What is executed.

\* A handler without conditions may start at any time.
LEMMA FreeHolds == ASSUME NEW plan \in FreePlans, NEW k PROVE Meets(plan, k)'
<1>1. plan \notin {QuotePlan, SwapPlan, AskPlan, PayAskPlan, PayPlan, AnswerPlan, CyclePlan, SwitchPlan, NetworkPlan}
  <2>1. plan[Len(plan)] \in {"follow", "summary", "scan", "select", "refresh", "active", "cancel", "quit"}
    BY Ends DEF FreePlans
  <2> QED BY <2>1, Ends
<1> QED BY <1>1 DEF Meets

LEMMA ProcessKeeps == ASSUME Chat!ChatAssumptions, ChatInv, Chat!ProcessMessage PROVE ChatInv'
<1>1. UNCHANGED <<llm, running, Chat!context, registry, Chat!pending, ran, conversation>> /\ Chat!Spend("messages")
  BY DEF Chat!ProcessMessage
<1>2. UNCHANGED <<net, services, op, quote, opps>>
  BY <1>1 DEF Chat!context, Chat!pending
<1>3. PICK said \in Chat!Messages : \E intent \in Chat!UnderstandIntent(said) : \E c \in Chat!Handlers(intent.name) \ {Chat!NoCall} :
          call' = [c EXCEPT !.asked = intent.asked, !.exact = intent.exact]
  BY DEF Chat!ProcessMessage
<1>4. PICK intent \in Chat!UnderstandIntent(said) : \E c \in Chat!Handlers(intent.name) \ {Chat!NoCall} :
          call' = [c EXCEPT !.asked = intent.asked, !.exact = intent.exact]
  BY <1>3
<1>5. PICK c \in Chat!Handlers(intent.name) \ {Chat!NoCall} : call' = [c EXCEPT !.asked = intent.asked, !.exact = intent.exact]
  BY <1>4
<1>6. Begun(c, intent.name)
  BY HandlersStart DEF ChatInv
<1>7. /\ DOMAIN call' = DOMAIN Chat!NoCall /\ call'.steps = c.steps /\ call'.seen = Chat!None /\ call'.moved = FALSE
      /\ call'.net = c.net /\ call'.op = c.op /\ call'.asked = intent.asked
  <2>1. DOMAIN c = DOMAIN Chat!NoCall /\ c.seen = Chat!None /\ c.moved = FALSE
    BY <1>6 DEF Begun
  <2> QED BY <1>5, <2>1 DEF Chat!NoCall
<1>8. CallOK'
  BY <1>6, <1>7 DEF CallOK, Begun, Chat!Somewhere
<1>9. acts'.messages = acts.messages + 1 /\ ran'.message < acts'.messages
  BY <1>1 DEF Chat!Spend, ChatInv, Shape
<1>10. Going'
  <2>1. CASE c.steps \in FreePlans
    <3>1. c.steps \in Plans
      BY <2>1 DEF FreePlans, Plans
    <3> QED BY <1>7, <2>1, <3>1, FreeHolds, Begins
  <2>2. CASE c.steps = AnswerPlan
    <3>1. Meets(AnswerPlan, 1)'
      <4>1. AnswerPlan \notin {QuotePlan, SwapPlan, AskPlan, PayAskPlan, PayPlan, CyclePlan, SwitchPlan, NetworkPlan}
        BY Ends
      <4> QED BY <1>9, <4>1 DEF Meets
    <3> QED BY <1>7, <2>2, <3>1, Begins DEF Plans
  <2>3. CASE c.steps = QuotePlan /\ c.net = net
    <3>1. Meets(QuotePlan, 1)'
      <4>1. QuotePlan \notin {AnswerPlan, SwapPlan, AskPlan, PayAskPlan, PayPlan, CyclePlan, SwitchPlan, NetworkPlan}
        BY Ends
      <4> QED BY <1>2, <1>7, <2>3, <4>1 DEF Meets
    <3> QED BY <1>7, <2>3, <3>1, Begins DEF Plans
  <2>4. CASE c.steps = SwapPlan /\ intent.name = "execute_swap"
    <3>1. Meets(SwapPlan, 1)'
      <4>1. SwapPlan \notin {AnswerPlan, QuotePlan, AskPlan, PayAskPlan, PayPlan, CyclePlan, SwitchPlan, NetworkPlan}
        BY Ends
      <4>2. intent.asked = TRUE
        BY <2>4, IntentConfirms
      <4> QED BY <1>7, <1>9, <4>1, <4>2 DEF Meets, Confirmed
    <3> QED BY <1>7, <2>4, <3>1, Begins DEF Plans
  <2>5. CASE c.steps \in {AskPlan, PayAskPlan} /\ c.op \in Collected
    <3>1. ASSUME NEW plan \in {AskPlan, PayAskPlan} PROVE Meets(plan, 1)'
      <4>1. plan \notin {AnswerPlan, QuotePlan, SwapPlan, PayPlan, CyclePlan, SwitchPlan, NetworkPlan}
        BY Ends
      <4> QED BY <1>7, <2>5, <4>1 DEF Meets
    <3> QED BY <1>7, <2>5, <3>1, Begins DEF Plans
  <2>6. CASE c.steps = CyclePlan /\ intent.name = "execute_triangular"
    <3>1. Meets(CyclePlan, 1)'
      <4>1. CyclePlan \notin {AnswerPlan, QuotePlan, AskPlan, PayAskPlan, PayPlan, SwapPlan, SwitchPlan, NetworkPlan}
        BY Ends
      <4>2. intent.asked = TRUE
        BY <2>6, IntentConfirms
      <4> QED BY <1>7, <1>9, <4>1, <4>2 DEF Meets, Confirmed
    <3> QED BY <1>7, <2>6, <3>1, Begins DEF Plans
  <2>7. CASE c.steps \in {SwitchPlan, NetworkPlan} /\ c.net \in Chat!Somewhere
    <3>1. ASSUME NEW plan \in {SwitchPlan, NetworkPlan} PROVE Meets(plan, 1)'
      <4>1. plan \notin {AnswerPlan, QuotePlan, SwapPlan, PayPlan, CyclePlan, AskPlan, PayAskPlan}
        BY Ends
      <4>2. call'.net \in Chat!Somewhere
        BY <1>7, <2>7
      <4> QED BY <4>1, <4>2 DEF Meets, Chat!Somewhere
    <3> QED BY <1>7, <2>7, <3>1, Begins DEF Plans
  <2> QED BY <1>6, <2>1, <2>2, <2>3, <2>4, <2>5, <2>6, <2>7 DEF Begun
<1>11. registry' \in [wallets : SUBSET Networks, active : Networks \cup {Chat!None}]
  BY <1>1 DEF ChatInv, Chat!TypeOK
<1> QED BY <1>1, <1>8, <1>10, <1>11, Prepared

LEMMA ProvideKeeps == ASSUME Chat!ChatAssumptions, ChatInv, Chat!ProvideParameter PROVE ChatInv'
<1>1. PICK plan \in Plans, k \in 1..6 : k \in 1..Len(plan) /\ Along(plan, k) /\ Meets(plan, k) /\ plan[k] = "answer"
  BY AtPlan DEF Chat!ProvideParameter, ChatInv
<1>2. ran.message < acts.messages
  BY <1>1, PlanOf DEF Meets
<1>3. UNCHANGED <<llm, running, Chat!context, registry, quote, opps, ran, conversation, acts>>
  BY DEF Chat!ProvideParameter
<1>4. UNCHANGED <<net, services>>
  BY <1>3 DEF Chat!context
<1>5. op \in [tool : Tools, missing : 0..4, id : Chat!Ids, net : Chat!Somewhere \cup {Chat!None}]
  BY DEF ChatInv, Shape
<1>6. ASSUME op' \in [tool : Tools, missing : 0..4, id : Chat!Ids, net : Chat!Somewhere \cup {Chat!None}],
             op'.tool = "pay_send_execute" => op'.id = op.id /\ op.tool = "pay_send_execute",
             Going', CallOK'
      PROVE  ChatInv'
  <2>1. op'.tool \in Tools /\ op'.missing \in 0..4 /\ op'.id \in Chat!Ids
    BY <1>6
  <2>2. Chat!TypeOK'
    BY <1>3, <1>4, <2>1 DEF ChatInv, Chat!TypeOK, Tools
  <2>3. Shape'
    BY <1>3, <1>6 DEF ChatInv, Shape
  <2>4. Shown'
    BY <1>3, <1>4, <1>6 DEF ChatInv, Shown, Open, Chat!HasPendingSwap, Chat!HasPendingTriangularOpportunities
  <2> QED BY <1>6, <2>2, <2>3, <2>4 DEF ChatInv
<1>7. CASE op.missing > 0 /\ op' = [op EXCEPT !.missing = @ - 1] /\ Chat!Answer
  <2>1. op' \in [tool : Tools, missing : 0..4, id : Chat!Ids, net : Chat!Somewhere \cup {Chat!None}] /\ op'.id = op.id /\ op'.tool = op.tool
    BY <1>5, <1>7
  <2> QED BY <1>6, <1>7, <2>1, Replied
<1>8. CASE UNCHANGED op /\ Chat!Answer
  BY <1>5, <1>6, <1>8, Replied
<1>9. ASSUME op' = Chat!NoOp, NEW c, call' = IF c = Chat!NoCall THEN c ELSE [c EXCEPT !.asked = TRUE],
             \/ op.tool = "swap_quote" /\ c \in Chat!GetSwapQuote
             \/ op.tool = "pay_send_execute" /\ c \in Chat!HandlePaySendExecute(op)
             \/ c = Chat!NoCall
      PROVE  ChatInv'
  <2>1. op' \in [tool : Tools, missing : 0..4, id : Chat!Ids, net : Chat!Somewhere \cup {Chat!None}] /\ op'.tool # "pay_send_execute"
    BY <1>9, Bounds DEF Chat!NoOp, Tools, Chat!Ids, Chat!None
  <2>2. Going' /\ CallOK'
    <3>1. CASE c = Chat!NoCall
      <4>1. Chat!Answer
        BY <1>9, <3>1 DEF Chat!Answer
      <4> QED BY <4>1, Replied
    <3>2. CASE c # Chat!NoCall /\ c \in Chat!GetSwapQuote
      <4>1. /\ DOMAIN c = DOMAIN Chat!NoCall /\ c.seen = Chat!None /\ c.moved = FALSE /\ c.steps = QuotePlan /\ c.net = net
            /\ c.net \in Chat!Somewhere
        BY <3>2, QuotesStart DEF Begun, ChatInv, Chat!TypeOK
      <4>2. /\ DOMAIN call' = DOMAIN Chat!NoCall /\ call'.steps = QuotePlan /\ call'.seen = Chat!None /\ call'.moved = FALSE
            /\ call'.net = net
        BY <1>9, <3>2, <4>1 DEF Chat!NoCall
      <4>3. Meets(QuotePlan, 1)'
        <5>1. QuotePlan \notin {AnswerPlan, SwapPlan, AskPlan, PayAskPlan, PayPlan, CyclePlan, SwitchPlan, NetworkPlan}
          BY Ends
        <5> QED BY <1>4, <4>2, <5>1 DEF Meets
      <4> QED BY <4>1, <4>2, <4>3, Begins DEF Plans, CallOK
    <3>3. CASE c # Chat!NoCall /\ op.tool = "pay_send_execute" /\ c \in Chat!HandlePaySendExecute(op)
      <4>1. PICK d : d = [Chat!NoCall EXCEPT !.steps = PayPlan] /\ c = [d EXCEPT !.op = op]
        <5>1. c \in {[e EXCEPT !.op = op] : e \in {[Chat!NoCall EXCEPT !.steps = PayPlan]}}
          BY <3>3 DEF Chat!HandlePaySendExecute, PayPlan, Chat!NoCall
        <5> QED BY <5>1
      <4>2. /\ DOMAIN c = DOMAIN Chat!NoCall /\ c.seen = Chat!None /\ c.moved = FALSE /\ c.steps = PayPlan /\ c.net = Chat!None
            /\ c.op = op
        BY <4>1 DEF Chat!NoCall
      <4>3. /\ DOMAIN call' = DOMAIN Chat!NoCall /\ call'.steps = PayPlan /\ call'.seen = Chat!None /\ call'.moved = FALSE
            /\ call'.net = Chat!None /\ call'.op = op /\ call'.asked = TRUE
        BY <1>9, <3>3, <4>2 DEF Chat!NoCall
      <4>4. Meets(PayPlan, 1)'
        <5>1. PayPlan \notin {AnswerPlan, SwapPlan, AskPlan, PayAskPlan, QuotePlan, CyclePlan, SwitchPlan, NetworkPlan}
          BY Ends
        <5>2. Open("pay", op.id)
          BY <3>3 DEF ChatInv, Shown
        <5>3. Open("pay", call.op.id)'
          BY <1>3, <4>3, <5>2 DEF Open
        <5>4. Confirmed'
          BY <1>2, <1>3, <4>3 DEF Confirmed
        <5> QED BY <1>9, <5>1, <5>3, <5>4 DEF Meets
      <4> QED BY <4>3, <4>4, Begins DEF Plans, CallOK
    <3> QED BY <1>9, <3>1, <3>2, <3>3
  <2> QED BY <1>6, <2>1, <2>2
<1>10. CASE /\ op' = Chat!NoOp
            /\ \E c \in CASE op.tool = "swap_quote"       -> Chat!GetSwapQuote
                          [] op.tool = "pay_send_execute" -> Chat!HandlePaySendExecute(op)
                          [] OTHER                        -> {Chat!NoCall} :
                   call' = IF c = Chat!NoCall THEN c ELSE [c EXCEPT !.asked = TRUE]
  <2>1. PICK c \in CASE op.tool = "swap_quote"       -> Chat!GetSwapQuote
                     [] op.tool = "pay_send_execute" -> Chat!HandlePaySendExecute(op)
                     [] OTHER                        -> {Chat!NoCall} :
                call' = IF c = Chat!NoCall THEN c ELSE [c EXCEPT !.asked = TRUE]
    BY <1>10
  <2>2. \/ op.tool = "swap_quote" /\ c \in Chat!GetSwapQuote
        \/ op.tool = "pay_send_execute" /\ c \in Chat!HandlePaySendExecute(op)
        \/ c = Chat!NoCall
    BY <2>1
  <2> QED BY <1>9, <1>10, <2>1, <2>2
<1> QED BY <1>7, <1>8, <1>10 DEF Chat!ProvideParameter

\* What is executed is done, and nothing else that is open is.
LEMMA RunCloses ==
    ASSUME Chat!ChatAssumptions, ChatInv, NEW kind \in Kinds, NEW id, Open(kind, id), NEW pick, NEW quoted, NEW on, NEW moved,
           Chat!Run(kind, id, pick, quoted, on, moved), Confirmed, UNCHANGED acts
    PROVE  /\ HistoryType' /\ conversation'.shown = conversation.shown /\ conversation'.revoked = conversation.revoked
           /\ conversation'.last = conversation.last /\ conversation'.picked = conversation.picked
           /\ \A e \in conversation'.done : e <= conversation'.shown
           /\ \A a \in Kinds, e \in Chat!Ids : a # kind /\ Open(a, e) => Open(a, e)'
           /\ ran'.message = acts.messages /\ ran'.message \in Nat /\ ran'.message > ran.message /\ ran'.asked = TRUE
           /\ ran'.kind = kind /\ ran'.id = id /\ ran'.pick = pick /\ ran'.quoted = quoted /\ ran'.net = on /\ ran'.moved = moved
<1>1. HistoryType /\ MaxShown \in Nat
  BY Bounds DEF HistoryType, ChatInv, Shape
<1>2. id \in 1..conversation.shown /\ id = conversation.last[kind] /\ id \in Chat!Ids \ {0} /\ conversation.shown \in Nat
  BY <1>1 DEF Open, HistoryType, Chat!Ids
<1>3. /\ HistoryType' /\ conversation'.shown = conversation.shown /\ conversation'.revoked = conversation.revoked
      /\ conversation'.last = conversation.last /\ conversation'.picked = conversation.picked /\ conversation'.done = conversation.done \cup {id}
  BY <1>1, <1>2 DEF HistoryType, Chat!Run
<1>4. \A e \in conversation'.done : e <= conversation'.shown
  BY <1>2, <1>3 DEF ChatInv, Shown
<1>5. ASSUME NEW a \in Kinds, NEW e \in Chat!Ids, a # kind, Open(a, e) PROVE Open(a, e)'
  <2>1. e # id
    BY <1>2, <1>5 DEF Open, ChatInv, Shown
  <2> QED BY <1>3, <1>5, <2>1 DEF Open
<1>6. /\ ran'.message = acts.messages /\ ran'.asked = call.asked
      /\ ran'.kind = kind /\ ran'.id = id /\ ran'.pick = pick /\ ran'.quoted = quoted /\ ran'.net = on /\ ran'.moved = moved
  BY DEF Chat!Run
<1>7. acts.messages \in Nat /\ ran.message \in Nat /\ ran.message < acts.messages /\ call.asked = TRUE
  BY DEF ChatInv, Shape, Confirmed
<1> QED BY <1>3, <1>4, <1>5, <1>6, <1>7

\* What ConfirmedOnce asks of an execution.
Executed == /\ ran'.asked /\ ran'.message > ran.message
            /\ Chat!InView(ran') /\ Chat!StillOpen(ran') /\ Chat!AsQuoted(ran')

LEMMA SwapExecutes == ASSUME Chat!ChatAssumptions, ChatInv, Chat!ExecuteSwap PROVE ChatInv' /\ Executed
<1>1. PICK plan \in Plans, k \in 1..6 : k \in 1..Len(plan) /\ Along(plan, k) /\ Meets(plan, k) /\ plan[k] = "swap"
  BY AtPlan DEF Chat!ExecuteSwap, ChatInv
<1>2. Confirmed /\ Chat!HasPendingSwap
  BY <1>1, PlanOf DEF Meets
<1>3. /\ UNCHANGED <<llm, running, Chat!context, registry, op, opps, acts>> /\ Chat!Answer /\ quote' = Chat!NoQuote
      /\ Chat!Run("swap", quote.id, 0, quote.net, net, quote.moved)
  BY DEF Chat!ExecuteSwap
<1>4. UNCHANGED <<net, services>>
  BY <1>3 DEF Chat!context
<1>5. Open("swap", quote.id) /\ (quote.net = net \/ quote.moved)
  BY <1>2 DEF ChatInv, Shown
<1>6. "swap" \in Kinds /\ "pay" \in Kinds /\ "cycle" \in Kinds
  BY DEF Kinds
<1>7. /\ HistoryType' /\ conversation'.shown = conversation.shown /\ conversation'.revoked = conversation.revoked
      /\ conversation'.last = conversation.last /\ conversation'.picked = conversation.picked
      /\ \A e \in conversation'.done : e <= conversation'.shown
      /\ \A a \in Kinds, e \in Chat!Ids : a # "swap" /\ Open(a, e) => Open(a, e)'
      /\ ran'.message = acts.messages /\ ran'.message \in Nat /\ ran'.message > ran.message /\ ran'.asked = TRUE
      /\ ran'.kind = "swap" /\ ran'.id = quote.id /\ ran'.quoted = quote.net /\ ran'.net = net /\ ran'.moved = quote.moved
  <2>1. PICK id, quoted, on, moved : id = quote.id /\ quoted = quote.net /\ on = net /\ moved = quote.moved
    OBVIOUS
  <2>2. Chat!Run("swap", id, 0, quoted, on, moved) /\ Open("swap", id) /\ UNCHANGED acts
    BY <1>3, <1>5, <2>1
  <2>3. /\ HistoryType' /\ conversation'.shown = conversation.shown /\ conversation'.revoked = conversation.revoked
        /\ conversation'.last = conversation.last /\ conversation'.picked = conversation.picked
        /\ \A e \in conversation'.done : e <= conversation'.shown
        /\ \A a \in Kinds, e \in Chat!Ids : a # "swap" /\ Open(a, e) => Open(a, e)'
        /\ ran'.message = acts.messages /\ ran'.message \in Nat /\ ran'.message > ran.message /\ ran'.asked = TRUE
        /\ ran'.kind = "swap" /\ ran'.id = id /\ ran'.quoted = quoted /\ ran'.net = on /\ ran'.moved = moved
    BY <1>2, <1>6, <2>2, RunCloses
  <2> QED BY <2>1, <2>3
<1>8. Going' /\ CallOK'
  BY <1>3, Replied
<1>9. quote' \in [id : Chat!Ids, net : Chat!Somewhere \cup {Chat!None}, moved : BOOLEAN] /\ quote'.id \in Chat!Ids /\ ~Chat!HasPendingSwap'
  BY <1>3, Bounds DEF Chat!NoQuote, Chat!Ids, Chat!HasPendingSwap
<1>10. Chat!TypeOK'
  BY <1>3, <1>4, <1>7, <1>9 DEF ChatInv, Chat!TypeOK, HistoryType
<1>11. Shape'
  BY <1>3, <1>7, <1>8, <1>9 DEF ChatInv, Shape, HistoryType
<1>12. Shown'
  <2>1. Chat!HasPendingTriangularOpportunities' => Open("cycle", opps.id)' /\ opps'.picked = conversation'.picked
    BY <1>3, <1>6, <1>7, Numbers DEF ChatInv, Shown, Chat!HasPendingTriangularOpportunities
  <2>2. op'.tool = "pay_send_execute" => Open("pay", op.id)'
    BY <1>3, <1>6, <1>7, Numbers DEF ChatInv, Shown
  <2> QED BY <1>7, <1>9, <2>1, <2>2 DEF ChatInv, Shown
<1>13. Executed
  BY <1>5, <1>7 DEF Executed, Chat!InView, Chat!StillOpen, Chat!AsQuoted, Open
<1> QED BY <1>8, <1>10, <1>11, <1>12, <1>13 DEF ChatInv

LEMMA PayExecutes == ASSUME Chat!ChatAssumptions, ChatInv, Chat!PayExecute PROVE ChatInv' /\ Executed
<1>1. PICK plan \in Plans, k \in 1..6 : k \in 1..Len(plan) /\ Along(plan, k) /\ Meets(plan, k) /\ plan[k] = "pay"
  BY AtPlan DEF Chat!PayExecute, ChatInv
<1>2. Confirmed /\ op = Chat!NoOp /\ Open("pay", call.op.id)
  BY <1>1, PlanOf DEF Meets
<1>3. /\ UNCHANGED <<llm, running, Chat!context, registry, Chat!pending, acts>> /\ Chat!Answer
      /\ Chat!Run("pay", call.op.id, 0, call.op.net, call.op.net, FALSE)
  BY DEF Chat!PayExecute
<1>4. UNCHANGED <<net, services, op, quote, opps>>
  BY <1>3 DEF Chat!context, Chat!pending
<1>6. "swap" \in Kinds /\ "pay" \in Kinds /\ "cycle" \in Kinds
  BY DEF Kinds
<1>7. /\ HistoryType' /\ conversation'.shown = conversation.shown /\ conversation'.revoked = conversation.revoked
      /\ conversation'.last = conversation.last /\ conversation'.picked = conversation.picked
      /\ \A e \in conversation'.done : e <= conversation'.shown
      /\ \A a \in Kinds, e \in Chat!Ids : a # "pay" /\ Open(a, e) => Open(a, e)'
      /\ ran'.message = acts.messages /\ ran'.message \in Nat /\ ran'.message > ran.message /\ ran'.asked = TRUE
      /\ ran'.kind = "pay" /\ ran'.id = call.op.id /\ ran'.quoted = call.op.net /\ ran'.net = call.op.net
  <2>1. PICK id, on, no : id = call.op.id /\ on = call.op.net /\ no = FALSE
    OBVIOUS
  <2>2. Chat!Run("pay", id, 0, on, on, no) /\ Open("pay", id) /\ UNCHANGED acts
    BY <1>2, <1>3, <2>1
  <2>3. /\ HistoryType' /\ conversation'.shown = conversation.shown /\ conversation'.revoked = conversation.revoked
        /\ conversation'.last = conversation.last /\ conversation'.picked = conversation.picked
        /\ \A e \in conversation'.done : e <= conversation'.shown
        /\ \A a \in Kinds, e \in Chat!Ids : a # "pay" /\ Open(a, e) => Open(a, e)'
        /\ ran'.message = acts.messages /\ ran'.message \in Nat /\ ran'.message > ran.message /\ ran'.asked = TRUE
        /\ ran'.kind = "pay" /\ ran'.id = id /\ ran'.quoted = on /\ ran'.net = on
    BY <1>2, <1>6, <2>2, RunCloses
  <2> QED BY <2>1, <2>3
<1>8. Going' /\ CallOK'
  BY <1>3, Replied
<1>10. Chat!TypeOK'
  BY <1>3, <1>4, <1>7 DEF ChatInv, Chat!TypeOK, HistoryType
<1>11. Shape'
  BY <1>3, <1>4, <1>7, <1>8 DEF ChatInv, Shape, HistoryType
<1>12. Shown'
  <2>1. Chat!HasPendingTriangularOpportunities' => Open("cycle", opps.id)' /\ opps'.picked = conversation'.picked
    BY <1>4, <1>6, <1>7, Numbers DEF ChatInv, Shown, Chat!HasPendingTriangularOpportunities
  <2>2. op'.tool # "pay_send_execute"
    BY <1>2, <1>4 DEF Chat!NoOp, Chat!None
  <2>3. Chat!HasPendingSwap' => Open("swap", quote.id)' /\ (quote.net = net \/ quote.moved)'
    BY <1>4, <1>6, <1>7, Numbers DEF ChatInv, Shown, Chat!HasPendingSwap
  <2> QED BY <1>7, <2>1, <2>2, <2>3 DEF ChatInv, Shown
<1>13. Executed
  BY <1>2, <1>7 DEF Executed, Chat!InView, Chat!StillOpen, Chat!AsQuoted, Open
<1> QED BY <1>8, <1>10, <1>11, <1>12, <1>13 DEF ChatInv

LEMMA CycleExecutes == ASSUME Chat!ChatAssumptions, ChatInv, Chat!ExecuteTriangular PROVE ChatInv' /\ Executed
<1>1. PICK plan \in Plans, k \in 1..6 : k \in 1..Len(plan) /\ Along(plan, k) /\ Meets(plan, k) /\ plan[k] = "cycle"
  BY AtPlan DEF Chat!ExecuteTriangular, ChatInv
<1>2. Confirmed /\ Chat!Selected
  BY <1>1, PlanOf DEF Meets
<1>3. /\ UNCHANGED <<llm, running, Chat!context, registry, op, quote, acts>> /\ Chat!Answer /\ opps' = Chat!NoOpps
      /\ Chat!Run("cycle", opps.id, opps.picked, Chat!None, services, FALSE)
  BY DEF Chat!ExecuteTriangular
<1>4. UNCHANGED <<net, services>>
  BY <1>3 DEF Chat!context
<1>5. Open("cycle", opps.id) /\ opps.picked = conversation.picked
  <2>1. opps.count \in 0..MaxPicks /\ MaxPicks \in Nat
    BY Bounds DEF ChatInv, Chat!TypeOK
  <2>2. Chat!HasPendingTriangularOpportunities
    BY <1>2, <2>1 DEF Chat!Selected, Chat!HasPendingTriangularOpportunities
  <2> QED BY <2>2 DEF ChatInv, Shown
<1>6. "swap" \in Kinds /\ "pay" \in Kinds /\ "cycle" \in Kinds
  BY DEF Kinds
<1>7. /\ HistoryType' /\ conversation'.shown = conversation.shown /\ conversation'.revoked = conversation.revoked
      /\ conversation'.last = conversation.last /\ conversation'.picked = conversation.picked
      /\ \A e \in conversation'.done : e <= conversation'.shown
      /\ \A a \in Kinds, e \in Chat!Ids : a # "cycle" /\ Open(a, e) => Open(a, e)'
      /\ ran'.message = acts.messages /\ ran'.message \in Nat /\ ran'.message > ran.message /\ ran'.asked = TRUE
      /\ ran'.kind = "cycle" /\ ran'.id = opps.id /\ ran'.pick = opps.picked
  <2>1. PICK id, pick, none, on, no : id = opps.id /\ pick = opps.picked /\ none = Chat!None /\ on = services /\ no = FALSE
    OBVIOUS
  <2>2. Chat!Run("cycle", id, pick, none, on, no) /\ Open("cycle", id) /\ UNCHANGED acts
    BY <1>3, <1>5, <2>1
  <2>3. /\ HistoryType' /\ conversation'.shown = conversation.shown /\ conversation'.revoked = conversation.revoked
        /\ conversation'.last = conversation.last /\ conversation'.picked = conversation.picked
        /\ \A e \in conversation'.done : e <= conversation'.shown
        /\ \A a \in Kinds, e \in Chat!Ids : a # "cycle" /\ Open(a, e) => Open(a, e)'
        /\ ran'.message = acts.messages /\ ran'.message \in Nat /\ ran'.message > ran.message /\ ran'.asked = TRUE
        /\ ran'.kind = "cycle" /\ ran'.id = id /\ ran'.pick = pick
    BY <1>2, <1>6, <2>2, RunCloses
  <2> QED BY <2>1, <2>3
<1>8. Going' /\ CallOK'
  BY <1>3, Replied
<1>9. /\ opps' \in [id : Chat!Ids, count : 0..MaxPicks, picked : 0..MaxPicks] /\ opps'.id \in Chat!Ids
      /\ opps'.count \in 0..MaxPicks /\ opps'.picked \in 0..opps'.count /\ ~Chat!HasPendingTriangularOpportunities'
  BY <1>3, Bounds DEF Chat!NoOpps, Chat!Ids, Chat!HasPendingTriangularOpportunities
<1>10. Chat!TypeOK'
  BY <1>3, <1>4, <1>7, <1>9 DEF ChatInv, Chat!TypeOK, HistoryType
<1>11. Shape'
  BY <1>3, <1>7, <1>8, <1>9 DEF ChatInv, Shape, HistoryType
<1>12. Shown'
  <2>1. Chat!HasPendingSwap' => Open("swap", quote.id)' /\ (quote.net = net \/ quote.moved)'
    BY <1>3, <1>4, <1>6, <1>7, Numbers DEF ChatInv, Shown, Chat!HasPendingSwap
  <2>2. op'.tool = "pay_send_execute" => Open("pay", op.id)'
    BY <1>3, <1>6, <1>7, Numbers DEF ChatInv, Shown
  <2> QED BY <1>7, <1>9, <2>1, <2>2 DEF ChatInv, Shown
<1>13. Executed
  BY <1>5, <1>7 DEF Executed, Chat!InView, Chat!StillOpen, Chat!AsQuoted, Open
<1> QED BY <1>8, <1>10, <1>11, <1>12, <1>13 DEF ChatInv

LEMMA ChatStarts == ASSUME Chat!ChatAssumptions, Chat!Init PROVE ChatInv
<1>1. MaxShown \in Nat /\ MaxPicks \in Nat
  BY Bounds
<1>2. /\ op = Chat!NoOp /\ quote = Chat!NoQuote /\ opps = Chat!NoOpps /\ ran = Chat!NoRun
      /\ call = [Chat!NoCall EXCEPT !.steps = Chat!EnsureWalletOnNetwork]
      /\ conversation = [shown |-> 0, revoked |-> 0, done |-> {}, picked |-> 0, last |-> [swap |-> 0, pay |-> 0, cycle |-> 0]]
      /\ acts = [messages |-> 0, mishaps |-> 0]
  BY DEF Chat!Init
<1>3. op \in [tool : Tools, missing : 0..4, id : Chat!Ids, net : Chat!Somewhere \cup {Chat!None}] /\ op.tool = Chat!None /\ op.missing = 0 /\ op.id = 0
  BY <1>1, <1>2 DEF Chat!NoOp, Tools, Chat!Ids
<1>4. quote \in [id : Chat!Ids, net : Chat!Somewhere \cup {Chat!None}, moved : BOOLEAN] /\ ~Chat!HasPendingSwap /\ quote.id = 0
  BY <1>1, <1>2 DEF Chat!NoQuote, Chat!Ids, Chat!HasPendingSwap
<1>5. opps \in [id : Chat!Ids, count : 0..MaxPicks, picked : 0..MaxPicks] /\ ~Chat!HasPendingTriangularOpportunities
      /\ opps.id = 0 /\ opps.count = 0 /\ opps.picked = 0
  BY <1>1, <1>2 DEF Chat!NoOpps, Chat!Ids, Chat!HasPendingTriangularOpportunities
<1>6. conversation.last \in [Kinds -> Chat!Ids] /\ \A a \in Kinds : conversation.last[a] = 0
  BY <1>1, <1>2 DEF Kinds, Chat!Ids
<1>7. HistoryType /\ conversation.shown = 0 /\ conversation.revoked = 0 /\ conversation.done = {}
  BY <1>1, <1>2, <1>6 DEF HistoryType, Chat!Ids
<1>8. Chat!TypeOK
  <2>1. net \in Networks /\ services \in Networks /\ registry \in [wallets : SUBSET Networks, active : Networks \cup {Chat!None}]
    BY DEF Chat!Init
  <2> QED BY <1>1, <1>3, <1>4, <1>5, <1>7, <2>1 DEF Chat!Init, Chat!TypeOK, Chat!Somewhere, Chat!Ids
<1>9. /\ DOMAIN call = DOMAIN Chat!NoCall /\ call.steps = StartPlan /\ call.seen = Chat!None /\ call.net = Chat!None /\ call.moved = FALSE
  BY <1>2, PlansOfHandlers DEF Chat!NoCall
<1>10. Shape
  <2>1. CallOK
    BY <1>9 DEF CallOK
  <2>2. acts \in [messages : Nat, mishaps : Nat] /\ ran.message \in Nat /\ ran.message <= acts.messages
    BY <1>2 DEF Chat!NoRun
  <2> QED BY <1>3, <1>4, <1>5, <1>7, <2>1, <2>2 DEF Shape, HistoryType
<1>11. Shown
  <2>1. conversation.revoked <= conversation.shown /\ op.tool # "pay_send_execute"
    BY <1>3, <1>7 DEF Chat!None
  <2> QED BY <1>4, <1>5, <1>6, <1>7, <2>1 DEF Shown
<1>12. Going
  <2>1. StartPlan \in Plans /\ Len(StartPlan) = 3 /\ StartPlan \in Seq(Names)
    BY StepsOfPlans DEF Plans
  <2>2. 1 \in 1..Len(StartPlan)
    BY <2>1
  <2>3. SubSeq(StartPlan, 1, Len(StartPlan)) = StartPlan
    BY <2>1, SubSeqFull
  <2>4. Along(StartPlan, 1)
    BY <1>9, <2>2, <2>3 DEF Along
  <2>5. Meets(StartPlan, 1)
    <3>1. StartPlan \notin {QuotePlan, SwapPlan, AskPlan, PayAskPlan, PayPlan, AnswerPlan, CyclePlan, SwitchPlan, NetworkPlan}
      BY Ends
    <3> QED BY <3>1 DEF Meets
  <2> QED BY <2>1, <2>2, <2>4, <2>5 DEF Going
<1> QED BY <1>8, <1>10, <1>11, <1>12 DEF ChatInv

\* Only the three executing steps execute something.
LEMMA ChatSteps == ASSUME Chat!ChatAssumptions, ChatInv, [Chat!Next]_(Chat!vars) PROVE ChatInv' /\ (ran' # ran => Executed)
<1>1. CASE Chat!ProcessMessage
  BY <1>1, ProcessKeeps DEF Chat!ProcessMessage
<1>2. CASE Chat!Others
  BY <1>2, OthersKeep DEF Chat!Others
<1>3. CASE Chat!Active \/ Chat!Seek \/ Chat!Activate \/ Chat!Use \/ Chat!Refresh \/ Chat!Require
  <2>1. UNCHANGED ran
    BY <1>3 DEF Chat!Active, Chat!Seek, Chat!Activate, Chat!Use, Chat!Refresh, Chat!Require
  <2> QED BY <1>3, <2>1, ActiveKeeps, SeekKeeps, ActivateKeeps, UseKeeps, RefreshKeeps, RequireKeeps
<1>4. CASE Chat!Follow \/ Chat!Set \/ Chat!RefreshServicesForNetwork \/ Chat!Cancel \/ Chat!Stop \/ Chat!StartParameterCollection
  <2>1. UNCHANGED ran
    BY <1>4 DEF Chat!Follow, Chat!Set, Chat!RefreshServicesForNetwork, Chat!Cancel, Chat!Stop, Chat!StartParameterCollection
  <2> QED BY <1>4, <2>1, FollowKeeps, SetKeeps, RenewKeeps, CancelKeeps, StopKeeps, CollectKeeps
<1>5. CASE Chat!GetQuote \/ Chat!PaymentSummary \/ Chat!Scan \/ Chat!SelectTriangular \/ Chat!ProvideParameter
  <2>1. UNCHANGED ran
    BY <1>5 DEF Chat!GetQuote, Chat!PaymentSummary, Chat!Scan, Chat!SelectTriangular, Chat!ProvideParameter
  <2> QED BY <1>5, <2>1, GetQuoteKeeps, SummaryKeeps, ScanKeeps, SelectKeeps, ProvideKeeps
<1>6. CASE Chat!ExecuteSwap \/ Chat!PayExecute \/ Chat!ExecuteTriangular
  BY <1>6, SwapExecutes, PayExecutes, CycleExecutes
<1>7. CASE UNCHANGED Chat!vars
  <2>1. UNCHANGED <<llm, running, net, services, registry, op, quote, opps, call, ran, conversation, acts>>
    BY <1>7 DEF Chat!vars, Chat!context, Chat!pending
  <2>2. Chat!TypeOK'
    BY <2>1 DEF ChatInv, Chat!TypeOK
  <2>3. Shape'
    BY <2>1 DEF ChatInv, Shape, CallOK
  <2>4. Shown'
    BY <2>1, SameShown DEF ChatInv
  <2>5. Going'
    <3>1. ASSUME NEW plan \in Plans, NEW k \in 1..Len(plan), Along(plan, k), Meets(plan, k)
          PROVE  Along(plan, k)' /\ Meets(plan, k)'
      BY <2>1, <3>1 DEF Along, Meets, Confirmed, Open, Chat!HasPendingSwap, Chat!Selected
    <3>2. CASE call.steps = <<>>
      BY <2>1, <3>2 DEF Going
    <3>3. CASE \E plan \in Plans : \E k \in 1..Len(plan) : Along(plan, k) /\ Meets(plan, k)
      BY <3>1, <3>3 DEF Going
    <3> QED BY <3>2, <3>3 DEF ChatInv, Going
  <2> QED BY <2>1, <2>2, <2>3, <2>4, <2>5 DEF ChatInv
<1> QED BY <1>1, <1>2, <1>3, <1>4, <1>5, <1>6, <1>7 DEF Chat!Next, Chat!Session

\* Nothing is executed but what the user was shown last, still open and confirmed,
\* at most one thing per message, and a swap on the network it was quoted for,
\* whatever is said and whatever other processes do to the wallets.
THEOREM AlwaysConfirmedOnce == ASSUME Chat!ChatAssumptions PROVE Chat!Spec => Chat!ConfirmedOnce
<1>0. Chat!Init => ChatInv
  BY ChatStarts
<1>1. ChatInv => Chat!TypeOK
  BY DEF ChatInv
<1>2. ChatInv /\ [Chat!Next]_(Chat!vars) => ChatInv'
  BY ChatSteps
<1>3. ChatInv /\ [Chat!Next]_(Chat!vars) => [ran' # ran => /\ ran'.asked /\ ran'.message > ran.message
                        /\ Chat!InView(ran') /\ Chat!StillOpen(ran') /\ Chat!AsQuoted(ran')]_(Chat!vars)
  BY ChatSteps DEF Executed
<1> QED BY <1>1, <1>2, <1>3, <1>0, PTL DEF Chat!Spec, Chat!ConfirmedOnce
==============================================================================

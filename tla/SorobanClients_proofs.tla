------------------------ MODULE SorobanClients_proofs ------------------------
(* Proofs about the commands that call the contracts, for any terminals, and  *)
(* any number of DIDs, contracts, agreements, commands, faults and kills.     *)
(*                                                                            *)
(* A command is a list of steps, and there are many commands; but what a step *)
(* may do depends only on how far the last transaction of the command has     *)
(* come and on whether config.json holds what it learnt (State).  Leads is    *)
(* the table of the steps, and every command is a path through it             *)
(* (CommandsAre).  The invariant says of each command what is known of its    *)
(* transaction at the stage it is at (Tracks), and what its copy of the       *)
(* configuration holds that the file does not (Remembers); of the ledger,     *)
(* that a transaction is in one place only.  Each step is shown to lead from  *)
(* one stage to the next, and to leave the commands of other terminals alone  *)
(* (Steady), because no two commands have the same transaction.               *)
EXTENDS SorobanClients, FiniteSetTheorems, SequenceTheorems, TLAPS

------------------------------------------------------------------------------
(* Where a command is.  What its next step may do depends on how far its last *)
(* transaction has come, and on whether config.json holds what it learnt.     *)

Ops == {"upload", "deploy", "register", "deactivate", "anchor", "revoke", "create", "attest", "wallet", "fund", "execute",
        "settle", "setregistry", "report"}
\* The steps of the commands, but for the question whether a DID is on record.
Looks   == {"key", "check", "query", "keygen", "walletdid", "setregistry", "setcontract", "network"}
Submits == {"send", "poll", "decode", "record", "usecontract", "truncate", "write"}
Items   == {"registry", "contract", "agreement", "did"}
Steps == [do : Looks \cup Submits] \cup [do : {"need"}, what : Items]
    \cup [do : {"load", "keep"}, what : {"vc", "doc", "report"}]
    \cup [do : {"simulate"}, op : Ops, on : Dids \cup {None, This}]

\* new: nothing sent yet; ready: simulated; sent: to be polled for; done: its
\* answer is there; decoded: so is what it made; recorded: in the copy of the
\* configuration; torn: config.json is being written.
Phases == {"new", "free", "ready", "sent", "done", "decoded", "recorded", "torn"}
State  == [at : Phases, op : Ops \cup {"none"}]
At(phase, op) == [at |-> phase, op |-> op]
New  == At("new", "none")
Free == At("free", "none")
\* Where a command can end.
Ends == {New, Free} \cup {x \in State : x.at \in {"done", "decoded"} /\ x.op # "create"}

\* The step s leads from x to y.
Settles(x, s, y) ==
    \/ s.do = "decode" /\ x.at = "done" /\ y = At("decoded", x.op)
    \/ s.do = "record" /\ x = At("decoded", "create") /\ y = At("recorded", "none")
    \/ s.do = "usecontract" /\ x = At("done", "deploy") /\ y = Free
    \/ s.do = "truncate" /\ x \in {New, Free, At("recorded", "none")} /\ y = At("torn", "none")
    \/ s.do = "write" /\ x = At("torn", "none") /\ y = Free
\* An agreement is created by the first transaction of a command.
Prepares(x, s, y) ==
    /\ s.do = "simulate" /\ y = At("ready", s.op)
    /\ \/ x = New
       \/ s.op # "create" /\ x = Free
       \/ s.op # "create" /\ x.at = "done" /\ x.op # "create"
Leads(x, s, y) ==
    \/ s.do \in Looks \cup {"need", "load", "keep"} /\ x \in {New, Free} /\ y \in {x, Free}
    \/ Prepares(x, s, y) \/ Settles(x, s, y)
    \/ s.do = "send" /\ x.at = "ready" /\ y = At("sent", x.op)
    \/ s.do = "poll" /\ x.at = "sent"  /\ y = At("done", x.op)
\* The list s leads from x to y.
Follows(s, x, y) ==
    /\ s \in Seq(Steps)
    /\ \E r \in [1..(Len(s) + 1) -> State] :
          r[1] = x /\ r[Len(s) + 1] = y /\ \A i \in 1..Len(s) : Leads(r[i], s[i], r[i + 1])
\* The end of a command that anchors a credential.
Anchoring == DIDExists \o (RegisterDID(This) \o AnchorCredential(This))
\* A list whose steps end where a command can end.
Goes(s, x) ==
    \/ \E y \in Ends : Follows(s, x, y)
    \/ \E t : Follows(t, x, Free) /\ s = t \o Anchoring

------------------------------------------------------------------------------
(* The inductive invariant.                                                   *)

Networks == {"testnet", "mainnet"}
Configs == [network : Networks, did : Dids \cup {None}, contract : Nat, registry : BOOLEAN,
            agreements : SUBSET (1..MaxAgreements), last : 0..MaxAgreements]
Txs == [id : Nat \ {0}, op : Ops, on : Dids \cup {None}, contract : Nat, agreement : Nat, seq : Nat, base : Nat]
AnySteps == Steps \cup [do : {"exists"}]
Jobs == [steps : Seq(AnySteps), cfg : Configs, did : Dids \cup {None}, tx : Txs \cup [id : {None}],
         queued : BOOLEAN]
Chains == [seq : Nat, dids : [Dids -> {"absent", "active", "dead"}], vcs : [Dids -> {"absent", "valid", "revoked"}],
           count : [Contracts -> 0..MaxAgreements], stage : [Contracts -> [1..MaxAgreements -> 1..6]],
           uploaded : BOOLEAN, contracts : Contracts]
Files  == [vc : Dids \cup {None}, doc : Dids \cup {None}, report : Dids \cup {None}]
Counts == [commands : Nat, others : Nat, faults : Nat, kills : Nat, txs : Nat, dids : 0..MaxDids, disturbed : BOOLEAN]
\* The transactions so far, those on their way, and those the user heard of.
Ids     == 1..spent.txs
Flown   == {t.id : t \in flying}
Answered == {u.tx : u \in told}
\* What a configuration says is so.
TrueConfig(c) ==
    /\ c.agreements \subseteq OwnAgreements
    /\ c.last \in c.agreements \cup {None}
    /\ Told("duplicate") = {} => c.contract \in Deployed \cup {None}

\* The types of what is stored.
Stored ==
    /\ chain \in Chains /\ chain.seq <= spent.txs
    /\ files \in Files /\ spent \in Counts
    /\ config \in Configs \cup {Torn} /\ TrueConfig(config)
\* Each transaction is on its way, carried out or failed, and only one of them.
OnTheWay ==
    /\ \A t \in flying : t \in Txs /\ t.id \in Ids /\ t.seq <= t.id
    /\ \A t, u \in flying : t.id = u.id => t = u
    /\ landed \subseteq [tx : Ids \cup {None}, op : Ops, made : Nat]
    /\ \A l \in landed : (l.op = "create" => l.made \in 1..MaxAgreements) /\ (l.op = "deploy" => l.made \in Deployed)
    /\ \A l, m \in landed : l.tx = m.tx => l = m
    /\ failed \subseteq Ids /\ Landed \cap failed = {} /\ Flown \cap (Landed \cup failed) = {}
\* What the user was told is so, and stays so.
Reported ==
    /\ Answered \subseteq Ids
    /\ Flown \cap (Told("rejected") \cup Told("failed")) = {}
    /\ SuccessIsOnChain /\ FailureIsFinal

\* What is known of the transaction of job j in state x.
Sound(t) ==
    /\ t \in Txs /\ t.id \in Ids /\ t.seq <= t.id
    /\ \A u \in flying : u.id = t.id => u.op = t.op
    /\ \A l \in landed : l.tx = t.id => l.op = t.op
Unsent(id) == id \notin Landed \cup failed \cup Flown \cup Answered
Tracks(j, x) ==
    /\ j.tx.id # None => Sound(j.tx)
    /\ x.at \in {"ready", "sent", "done", "decoded"} => j.tx.id # None /\ j.tx.op = x.op
    /\ x.at = "ready" => Unsent(j.tx.id)
    /\ x.at = "new" \/ (x.at \in {"ready", "sent"} /\ x.op = "create") => j.queued
    /\ x.at = "done" /\ j.queued => j.tx.id \in Landed
    /\ x.at = "done" /\ x.op = "create" /\ ~j.queued => j.tx.id \notin Told("success")
    /\ x.at = "decoded" => j.tx.id \in Landed
    /\ ~j.queued => Told("duplicate") # {}
\* The agreements that the user was told were created.
Heard == {l \in landed : l.op = "create" /\ l.tx \in Told("success")}
\* They are in config.json, or on their way there, while nothing interferes.
Pending(j, x, l) == l.tx = j.tx.id /\ x.at \in {"done", "decoded"} /\ x.op = "create"
Remembers(j, x) ==
    IF x.at = "torn" THEN \A l \in Heard : l.made \in j.cfg.agreements
    ELSE /\ config # Torn /\ config.agreements \subseteq j.cfg.agreements
         /\ \A l \in Heard : l.made \in config.agreements \/ Pending(j, x, l) \/ (x.at = "recorded"
              /\ l.made \in j.cfg.agreements)
Under(j) ==
    /\ TrueConfig(j.cfg)
    /\ \E x \in State : Goes(j.steps, x) /\ Tracks(j, x) /\ (~spent.disturbed => Remembers(j, x))
Started(j) == IF j.steps = <<>> THEN j = Fresh ELSE Under(j)
Running == jobs \in [Terminals -> Jobs] /\ \A p \in Terminals : \E j : j = jobs[p] /\ Started(j)

\* Two commands never have the same transaction.
Distinct == \A p, q \in Terminals : p # q /\ jobs[p].tx.id # None => jobs[p].tx.id # jobs[q].tx.id
\* With one command at a time, what was heard of is in config.json between them.
AllKept == config # Torn /\ \A l \in Heard : l.made \in config.agreements
Calm ==
    /\ \A p, q \in Terminals : ~Idle(p) /\ ~Idle(q) => p = q
    /\ (\A p \in Terminals : Idle(p)) => AllKept

\* The invariant.
IInv == Stored /\ OnTheWay /\ Reported /\ Running /\ Distinct /\ (~spent.disturbed => Calm)
------------------------------------------------------------------------------
\* A list of one step.
LEMMA One ==
    ASSUME NEW a \in Steps, NEW x \in State, NEW y \in State, Leads(x, a, y)
    PROVE  Follows(<<a>>, x, y)
<1> DEFINE r == [i \in 1..2 |-> IF i = 1 THEN x ELSE y]
<1>1. r \in [1..2 -> State] /\ r[1] = x /\ r[2] = y
  OBVIOUS
<1>2. <<a>> \in Seq(Steps) /\ Len(<<a>>) = 1 /\ <<a>>[1] = a
  OBVIOUS
<1> HIDE DEF r
<1>3. \A i \in 1..1 : Leads(r[i], <<a>>[i], r[i + 1])
  BY <1>1, <1>2
<1> QED BY <1>1, <1>2, <1>3 DEF Follows

\* No step leads nowhere.
LEMMA Nothing == ASSUME NEW x \in State PROVE Follows(<<>>, x, x)
<1> DEFINE r == [i \in 1..1 |-> x]
<1>1. r \in [1..1 -> State] /\ r[1] = x
  OBVIOUS
<1>2. <<>> \in Seq(Steps) /\ Len(<<>>) = 0
  BY EmptySeq
<1> HIDE DEF r
<1> QED BY <1>1, <1>2 DEF Follows

\* Two lists, one after the other.
LEMMA Join ==
    ASSUME NEW s, NEW t, NEW x, NEW y, NEW z, Follows(s, x, y), Follows(t, y, z)
    PROVE  Follows(s \o t, x, z)
<1>1. s \in Seq(Steps) /\ t \in Seq(Steps) /\ Len(s) \in Nat /\ Len(t) \in Nat
  BY LenProperties DEF Follows
<1>2. PICK r \in [1..(Len(s) + 1) -> State] :
        r[1] = x /\ r[Len(s) + 1] = y /\ \A i \in 1..Len(s) : Leads(r[i], s[i], r[i + 1])
  BY DEF Follows
<1>3. PICK q \in [1..(Len(t) + 1) -> State] :
        q[1] = y /\ q[Len(t) + 1] = z /\ \A i \in 1..Len(t) : Leads(q[i], t[i], q[i + 1])
  BY DEF Follows
<1>4. /\ s \o t \in Seq(Steps) /\ Len(s \o t) = Len(s) + Len(t)
      /\ \A i \in 1..(Len(s) + Len(t)) : (s \o t)[i] = IF i <= Len(s) THEN s[i] ELSE t[i - Len(s)]
  BY <1>1, ConcatProperties
<1> DEFINE u == s \o t
           w == [i \in 1..(Len(s) + Len(t) + 1) |-> IF i <= Len(s) THEN r[i] ELSE q[i - Len(s)]]
<1>5. w \in [1..(Len(s) + Len(t) + 1) -> State]
  <2>1. ASSUME NEW i \in 1..(Len(s) + Len(t) + 1) PROVE (IF i <= Len(s) THEN r[i] ELSE q[i - Len(s)]) \in State
    <3>1. CASE i <= Len(s)
      BY <3>1, <1>1, <1>2, SMTT(30)
    <3>2. CASE ~(i <= Len(s))
      <4>1. i - Len(s) \in 1..(Len(t) + 1)
        BY <3>2, <1>1
      <4> QED BY <3>2, <4>1, <1>3
    <3> QED BY <3>1, <3>2
  <2> QED BY <2>1
<1>6. \A i \in 1..(Len(s) + Len(t) + 1) : w[i] = IF i <= Len(s) THEN r[i] ELSE q[i - Len(s)]
  OBVIOUS
<1> HIDE DEF u, w
<1>7. w[1] = x
  <2>1. CASE Len(s) = 0
    BY <2>1, <1>1, <1>2, <1>3, <1>6
  <2>2. CASE Len(s) > 0
    BY <2>2, <1>1, <1>2, <1>6
  <2> QED BY <2>1, <2>2, <1>1
<1>8. w[Len(s) + Len(t) + 1] = z
  <2>1. ~(Len(s) + Len(t) + 1 <= Len(s)) /\ (Len(s) + Len(t) + 1) - Len(s) = Len(t) + 1
          /\ Len(s) + Len(t) + 1 \in 1..(Len(s) + Len(t) + 1)
    BY <1>1
  <2> QED BY <2>1, <1>3, <1>6
<1>9. ASSUME NEW i \in 1..(Len(s) + Len(t)) PROVE Leads(w[i], u[i], w[i + 1])
  <2>1. i \in 1..(Len(s) + Len(t) + 1) /\ i + 1 \in 1..(Len(s) + Len(t) + 1)
    BY <1>1
  <2>2. CASE i < Len(s)
    <3>1. i \in 1..Len(s) /\ i + 1 <= Len(s) /\ i <= Len(s)
      BY <2>2, <1>1
    <3>2. w[i] = r[i] /\ w[i + 1] = r[i + 1] /\ u[i] = s[i]
      BY <3>1, <2>1, <1>4, <1>6 DEF u
    <3> QED BY <3>1, <3>2, <1>2
  <2>3. CASE i = Len(s)
    <3>1. i \in 1..Len(s) /\ ~(i + 1 <= Len(s)) /\ i <= Len(s) /\ (i + 1) - Len(s) = 1
      BY <2>3, <1>1
    <3>2. w[i] = r[i] /\ w[i + 1] = q[1] /\ u[i] = s[i]
      BY <3>1, <2>1, <1>4, <1>6 DEF u
    <3>3. r[i + 1] = q[1]
      BY <2>3, <1>2, <1>3
    <3> QED BY <3>1, <3>2, <3>3, <1>2
  <2>4. CASE i > Len(s)
    <3>1. PICK j \in 1..Len(t) : i = Len(s) + j
      <4>1. i - Len(s) \in 1..Len(t) /\ i = Len(s) + (i - Len(s))
        BY <2>4, <1>1
      <4> QED BY <4>1
    <3>2. ~(i <= Len(s)) /\ ~(i + 1 <= Len(s)) /\ i - Len(s) = j /\ (i + 1) - Len(s) = j + 1
      BY <2>4, <3>1, <1>1
    <3>3. w[i] = q[j] /\ w[i + 1] = q[j + 1] /\ u[i] = t[j]
      BY <3>2, <2>1, <1>4, <1>6 DEF u
    <3> QED BY <3>1, <3>3, <1>3
  <2> QED BY <2>2, <2>3, <2>4, <1>1
<1>10. u \in Seq(Steps) /\ Len(u) = Len(s) + Len(t)
  BY <1>4 DEF u
<1> QED
  <2>1. Follows(u, x, z)
    BY <1>5, <1>7, <1>8, <1>9, <1>10 DEF Follows
  <2> QED BY <2>1 DEF u

\* What is left of a list after its first step.
LEMMA TailFollows ==
    ASSUME NEW s, s # <<>>, NEW x, NEW y, Follows(s, x, y)
    PROVE  /\ Head(s) \in Steps /\ x \in State
           /\ \E z \in State : Leads(x, Head(s), z) /\ Follows(Tail(s), z, y)
<1>1. s \in Seq(Steps) /\ Len(s) \in Nat \ {0}
  BY EmptySeq DEF Follows
<1>2. PICK r \in [1..(Len(s) + 1) -> State] :
        r[1] = x /\ r[Len(s) + 1] = y /\ \A i \in 1..Len(s) : Leads(r[i], s[i], r[i + 1])
  BY DEF Follows
<1>3. /\ Head(s) \in Steps /\ Head(s) = s[1] /\ Tail(s) \in Seq(Steps) /\ Len(Tail(s)) = Len(s) - 1
      /\ \A i \in 1..Len(Tail(s)) : Tail(s)[i] = s[i + 1]
  BY <1>1, HeadTailProperties
<1> DEFINE u == Tail(s)
           w == [i \in 1..Len(s) |-> r[i + 1]]
<1>4. w \in [1..Len(s) -> State] /\ \A i \in 1..Len(s) : w[i] = r[i + 1]
  <2>1. \A i \in 1..Len(s) : i + 1 \in 1..(Len(s) + 1)
    BY <1>1
  <2> QED BY <2>1, <1>2
<1> HIDE DEF u, w
<1>5. u \in Seq(Steps) /\ Len(u) + 1 = Len(s) /\ Len(u) \in Nat
  BY <1>1, <1>3 DEF u
<1>6. w[1] = r[2] /\ w[Len(u) + 1] = y /\ r[2] \in State
  BY <1>1, <1>2, <1>4, <1>5
<1>7. ASSUME NEW i \in 1..Len(u) PROVE Leads(w[i], u[i], w[i + 1])
  <2>1. i \in 1..Len(s) /\ i + 1 \in 1..Len(s)
    BY <1>1, <1>5
  <2>2. w[i] = r[i + 1] /\ w[i + 1] = r[i + 1 + 1] /\ u[i] = s[i + 1]
    BY <2>1, <1>3, <1>4 DEF u
  <2> QED BY <2>1, <2>2, <1>2
<1>8. Follows(u, r[2], y)
  BY <1>4, <1>5, <1>6, <1>7 DEF Follows
<1>9. Leads(x, Head(s), r[2]) /\ x \in State
  <2>1. 1 \in 1..Len(s) /\ 1 \in 1..(Len(s) + 1) /\ 1 + 1 = 2
    BY <1>1
  <2> QED BY <2>1, <1>2, <1>3
<1> QED BY <1>3, <1>6, <1>8, <1>9 DEF u

\* A list without steps stays where it is.
LEMMA EmptyFollows == ASSUME NEW x, NEW y, Follows(<<>>, x, y) PROVE x = y
<1>1. Len(<<>>) = 0
  BY EmptySeq
<1> QED BY <1>1 DEF Follows

------------------------------------------------------------------------------
\* A piece of a command.
Path(s, x, y) == Follows(s, x, y) /\ s # <<>>

\* A step by itself.
LEMMA Single ==
    ASSUME NEW a \in Steps, NEW x \in State, NEW y \in State, Leads(x, a, y)
    PROVE  Path(<<a>>, x, y)
BY One DEF Path

\* Two pieces of a command, one after the other.
LEMMA Chain ==
    ASSUME NEW s, NEW t, NEW x, NEW y, NEW z, Path(s, x, y), Path(t, y, z)
    PROVE  Path(s \o t, x, z)
<1>1. s \in Seq(Steps) /\ t \in Seq(Steps) /\ s # <<>> /\ t # <<>>
  BY DEF Path, Follows
<1>2. s \o t # <<>>
  BY <1>1, ConcatSimplifications
<1> QED BY <1>2, Join DEF Path
\* States are well formed.
LEMMA StateOf == ASSUME NEW p \in Phases, NEW o \in Ops \cup {"none"} PROVE At(p, o) \in State /\ At(p, o).at = p
    /\ At(p, o).op = o
BY DEF At, State

\* The two states in which nothing is on its way.
LEMMA TwoStates == New \in State /\ Free \in State /\ New.at = "new" /\ Free.at = "free" /\ New # Free
    /\ New \in Ends /\ Free \in Ends
    /\ New.op = "none" /\ Free.op = "none"
BY DEF New, Free, At, State, Phases, Ends

\* A step that only looks, decides or keeps can stand where nothing is on its way.
LEMMA Look ==
    ASSUME NEW x \in {New, Free}, NEW y \in {x, Free}
    PROVE  /\ \A step \in Looks : Path(Do(step), x, y)
           /\ \A what \in Items : Path(Need(what), x, y)
           /\ \A what \in {"vc", "doc", "report"} : Path(Load(what), x, y) /\ Path(Keep(what), x, y)
<1>1. x \in State /\ y \in State
  BY TwoStates
<1>2. ASSUME NEW step \in Looks PROVE Path(Do(step), x, y)
  <2>1. [do |-> step] \in Steps /\ [do |-> step].do = step
    BY DEF Steps
  <2>2. Leads(x, [do |-> step], y)
    BY <2>1 DEF Leads
  <2> QED BY <1>1, <2>1, <2>2, Single DEF Do
<1>3. ASSUME NEW what \in Items PROVE Path(Need(what), x, y)
  <2>1. [do |-> "need", what |-> what] \in Steps
    BY DEF Steps
  <2>2. Leads(x, [do |-> "need", what |-> what], y)
    BY DEF Leads
  <2> QED BY <1>1, <2>1, <2>2, Single DEF Need
<1>4. ASSUME NEW what \in {"vc", "doc", "report"} PROVE Path(Load(what), x, y) /\ Path(Keep(what), x, y)
  <2>1. [do |-> "load", what |-> what] \in Steps /\ [do |-> "keep", what |-> what] \in Steps
    BY DEF Steps
  <2>2. Leads(x, [do |-> "load", what |-> what], y) /\ Leads(x, [do |-> "keep", what |-> what], y)
    BY DEF Leads
  <2> QED BY <1>1, <2>1, <2>2, Single DEF Load, Keep
<1> QED BY <1>2, <1>3, <1>4

\* The file is emptied and written.
LEMMA Saves ==
    ASSUME NEW x \in {New, Free, At("recorded", "none")}
    PROVE  Path(SaveConfig, x, Free)
<1> DEFINE y == At("torn", "none")
<1>1. x \in State /\ y \in State /\ Free \in State
  BY TwoStates, StateOf DEF Phases
<1>2. [do |-> "truncate"] \in Steps /\ [do |-> "write"] \in Steps
  BY DEF Steps, Submits
<1>3. Leads(x, [do |-> "truncate"], y)
  BY DEF Leads, Settles
<1>4. Leads(y, [do |-> "write"], Free)
  BY DEF Leads, Settles
<1> HIDE DEF y
<1>5. Path(<<[do |-> "truncate"]>>, x, y) /\ Path(<<[do |-> "write"]>>, y, Free)
  BY <1>1, <1>2, <1>3, <1>4, Single
<1> QED BY <1>5, Chain DEF SaveConfig, Do

\* A transaction is simulated, sent and polled for.
LEMMA Invokes ==
    ASSUME NEW op \in Ops, NEW on \in Dids \cup {None, This}, NEW x \in State,
           x = New \/ (op # "create" /\ (x = Free \/ (x.at = "done" /\ x.op # "create")))
    PROVE  Path(Invoke(op, on), x, At("done", op)) /\ At("done", op) \in State
<1> DEFINE a == [do |-> "simulate", op |-> op, on |-> on]
           y == At("ready", op)
           z == At("sent", op)
           e == At("done", op)
<1>1. y \in State /\ z \in State /\ e \in State /\ y.at = "ready" /\ y.op = op /\ z.at = "sent" /\ z.op = op
  BY StateOf DEF Phases
<1>2. a \in Steps /\ a.do = "simulate" /\ a.op = op /\ [do |-> "send"] \in Steps /\ [do |-> "poll"] \in Steps
  BY DEF Steps, Submits
<1>3. Leads(x, a, y)
  <2>1. y = At("ready", op)
    OBVIOUS
  <2> HIDE DEF a, y
  <2> QED BY <1>2, <2>1 DEF Leads, Prepares
<1>4. Leads(y, [do |-> "send"], z)
  BY <1>1 DEF Leads
<1>5. Leads(z, [do |-> "poll"], e)
  BY <1>1 DEF Leads
<1>6. SimulateAndAssemble(op, on) = <<a>> /\ Do("send") = <<[do |-> "send"]>> /\ Do("poll") = <<[do |-> "poll"]>>
  BY DEF SimulateAndAssemble, Do
<1> HIDE DEF a, y, z, e
<1>7. /\ Path(SimulateAndAssemble(op, on), x, y) /\ Path(Do("send"), y, z)
      /\ Path(Do("poll"), z, e)
  BY <1>1, <1>2, <1>3, <1>4, <1>5, <1>6, Single
<1>8. Path(SubmitAndWait, y, e)
  BY <1>7, Chain DEF SubmitAndWait
<1>9. Path(Invoke(op, on), x, e)
  BY <1>7, <1>8, Chain DEF Invoke
<1> QED BY <1>1, <1>9 DEF e

\* A command can end when its last transaction is done, unless that created an agreement.
LEMMA EndsAre == ASSUME NEW op \in Ops, op # "create" PROVE At("done", op) \in Ends /\ At("decoded", op) \in Ends
<1>1. At("done", op) \in State /\ At("decoded", op) \in State /\ At("done", op).at = "done" /\ At("done", op).op = op
        /\ At("decoded", op).at = "decoded" /\ At("decoded", op).op = op
  BY StateOf DEF Phases
<1> QED BY <1>1 DEF Ends

\* What is returned by a transaction is decoded.
LEMMA Decodes == ASSUME NEW op \in Ops PROVE Path(Do("decode"), At("done", op), At("decoded", op))
<1> DEFINE x == At("done", op)
           y == At("decoded", op)
<1>1. x \in State /\ y \in State /\ x.at = "done" /\ x.op = op
  BY StateOf DEF Phases
<1>2. [do |-> "decode"] \in Steps /\ y = At("decoded", op)
  BY DEF Steps, Submits
<1> HIDE DEF x, y
<1>3. Leads(x, [do |-> "decode"], y)
  BY <1>1, <1>2 DEF Leads, Settles
<1>4. Path(<<[do |-> "decode"]>>, x, y)
  BY <1>1, <1>2, <1>3, Single
<1> QED BY <1>4 DEF Do, x, y
------------------------------------------------------------------------------
\* What is left of Anchoring after its question.
Anchored == RegisterDID(This) \o AnchorCredential(This)

\* Two lists, element by element.
LEMMA JoinIs ==
    ASSUME NEW s \in Seq(AnySteps), NEW t \in Seq(AnySteps)
    PROVE  /\ s \o t \in Seq(AnySteps) /\ Len(s \o t) = Len(s) + Len(t)
           /\ \A i \in 1..Len(s) : (s \o t)[i] = s[i]
           /\ \A i \in 1..Len(t) : (s \o t)[i + Len(s)] = t[i]
<1> DEFINE u == s \o t
<1>1. PICK m \in Nat, n \in Nat : Len(s) = m /\ Len(t) = n
  BY LenProperties
<1>2. /\ u \in Seq(AnySteps) /\ Len(u) = Len(s) + Len(t)
      /\ \A i \in 1..(Len(s) + Len(t)) : u[i] = IF i <= Len(s) THEN s[i] ELSE t[i - Len(s)]
  BY ConcatProperties
<1> HIDE DEF u
<1>3. ASSUME NEW i \in 1..m PROVE u[i] = s[i]
  <2>1. i \in 1..(m + n) /\ i <= m
    OBVIOUS
  <2> QED BY <1>1, <1>2, <2>1
<1>4. ASSUME NEW i \in 1..n PROVE u[i + m] = t[i]
  <2>1. i + m \in 1..(m + n) /\ ~(i + m <= m) /\ (i + m) - m = i
    OBVIOUS
  <2> QED BY <1>1, <1>2, <2>1
<1> QED BY <1>1, <1>2, <1>3, <1>4 DEF u

\* What is left of a list, element by element.
LEMMA TailIs ==
    ASSUME NEW s \in Seq(AnySteps), NEW t \in Seq(AnySteps), Len(s) = Len(t) + 1, \A i \in 1..Len(t) : s[i + 1] = t[i]
    PROVE  s # <<>> /\ Head(s) = s[1] /\ Tail(s) = t
<1>1. Len(t) \in Nat
  BY LenProperties
<1>2. s # <<>>
  <2>1. Len(s) # 0
    BY <1>1
  <2> QED BY <2>1, EmptySeq
<1> DEFINE u == Tail(s)
<1>3. u \in Seq(AnySteps) /\ Len(u) = Len(s) - 1 /\ \A i \in 1..Len(u) : u[i] = s[i + 1]
  BY <1>2, HeadTailProperties
<1> HIDE DEF u
<1>4. Len(u) = Len(t)
  BY <1>1, <1>3
<1>5. u = t
  BY <1>3, <1>4, SeqEqual
<1> QED BY <1>2, <1>5 DEF u

\* A transaction is three steps.
LEMMA InvokeIs ==
    ASSUME NEW op \in Ops
    PROVE  Invoke(op, This) \in Seq(AnySteps) /\ Len(Invoke(op, This)) = 3
<1> DEFINE a == [do |-> "simulate", op |-> op, on |-> This]
           b == [do |-> "send"]
           c == [do |-> "poll"]
           s == <<b>> \o <<c>>
           t == <<a>> \o s
<1>1. a \in AnySteps /\ b \in AnySteps /\ c \in AnySteps
  BY DEF AnySteps, Steps, Submits
<1>2. Invoke(op, This) = t
  BY DEF Invoke, SimulateAndAssemble, SubmitAndWait, Do
<1> HIDE DEF a, b, c
<1>3. /\ <<a>> \in Seq(AnySteps) /\ <<b>> \in Seq(AnySteps) /\ <<c>> \in Seq(AnySteps)
      /\ Len(<<a>>) = 1 /\ Len(<<b>>) = 1 /\ Len(<<c>>) = 1
  BY <1>1
<1>4. s \in Seq(AnySteps) /\ Len(s) = 1 + 1
  BY <1>3, JoinIs
<1> HIDE DEF s
<1>5. t \in Seq(AnySteps) /\ Len(t) = Len(<<a>>) + Len(s)
  BY <1>3, <1>4, JoinIs
<1> HIDE DEF t
<1> QED BY <1>2, <1>3, <1>4, <1>5

\* The question whether the DID is on record can be followed by the registration
\* and the credential, or by the credential alone.
LEMMA AnchoringIs ==
    /\ Anchoring \in Seq(AnySteps) /\ Anchoring # <<>> /\ Len(Anchoring) = 7
    /\ Head(Anchoring) = [do |-> "exists"] /\ Tail(Anchoring) = Anchored
    /\ AnchorCredential(This) # <<>> /\ Anchored # <<>>
    /\ \E s \in Seq(AnySteps) : /\ s = SubSeq(Anchoring, 1, 1) \o SubSeq(Anchoring, 5, 7)
                                /\ s # <<>> /\ Len(s) # 1 /\ Tail(s) = AnchorCredential(This)
<1> DEFINE r == RegisterDID(This)
           a == AnchorCredential(This)
           e == [do |-> "exists"]
<1>1. r \in Seq(AnySteps) /\ a \in Seq(AnySteps) /\ Len(r) = 3 /\ Len(a) = 3
  BY InvokeIs DEF RegisterDID, AnchorCredential, Ops
<1>2. e \in AnySteps /\ DIDExists = <<e>>
  BY DEF AnySteps, DIDExists, Do
<1> HIDE DEF r, a, e
<1> DEFINE ra == r \o a
           w == <<e>> \o ra
<1>3. ra \in Seq(AnySteps) /\ Len(ra) = 3 + 3 /\ \A i \in 1..3 : ra[i + 3] = a[i]
  <2>1. ra \in Seq(AnySteps) /\ Len(ra) = Len(r) + Len(a) /\ \A i \in 1..Len(a) : ra[i + Len(r)] = a[i]
    BY <1>1, JoinIs
  <2> HIDE DEF ra
  <2> QED BY <1>1, <2>1
<1> HIDE DEF ra
<1>4. <<e>> \in Seq(AnySteps) /\ Len(<<e>>) = 1 /\ <<e>>[1] = e
  BY <1>2
<1>5. /\ w \in Seq(AnySteps) /\ Len(w) = 1 + 6
      /\ \A i \in 1..1 : w[i] = <<e>>[i]
      /\ \A i \in 1..6 : w[i + 1] = ra[i]
  <2>1. /\ w \in Seq(AnySteps) /\ Len(w) = Len(<<e>>) + Len(ra)
        /\ \A i \in 1..Len(<<e>>) : w[i] = <<e>>[i]
        /\ \A i \in 1..Len(ra) : w[i + Len(<<e>>)] = ra[i]
    BY <1>3, <1>4, JoinIs
  <2> HIDE DEF w
  <2> QED BY <1>3, <1>4, <2>1
<1>6. Anchoring = w /\ Anchored = ra
  BY <1>2 DEF Anchoring, Anchored, w, ra, r, a
<1> HIDE DEF w
<1>7. w # <<>> /\ Head(w) = e /\ Tail(w) = ra
  <2>1. Len(w) = Len(ra) + 1 /\ (\A i \in 1..Len(ra) : w[i + 1] = ra[i]) /\ w[1] = e
    BY <1>3, <1>4, <1>5
  <2> QED BY <1>3, <1>5, <2>1, TailIs
<1>8. a # <<>> /\ ra # <<>>
  <2>1. Len(a) # 0 /\ Len(ra) # 0
    BY <1>1, <1>3
  <2> QED BY <1>1, <1>3, <2>1, EmptySeq
<1> DEFINE h == SubSeq(w, 1, 1)
           g == SubSeq(w, 5, 7)
           k == h \o g
<1>9. \A i \in 1..7 : w[i] \in AnySteps
  <2>1. 7 = Len(w)
    BY <1>5
  <2> QED BY <1>5, <2>1, ElementOfSeq
<1>10. h \in Seq(AnySteps) /\ Len(h) = 1
  BY <1>9, SubSeqProperties
<1>11. g \in Seq(AnySteps) /\ Len(g) = 3 /\ \A i \in 1..3 : g[i] = w[5 + i - 1]
  BY <1>9, SubSeqProperties
<1> HIDE DEF h, g
<1>12. k \in Seq(AnySteps) /\ Len(k) = 1 + 3 /\ \A i \in 1..3 : k[i + 1] = g[i]
  <2>1. k \in Seq(AnySteps) /\ Len(k) = Len(h) + Len(g) /\ \A i \in 1..Len(g) : k[i + Len(h)] = g[i]
    BY <1>10, <1>11, JoinIs
  <2> HIDE DEF k
  <2> QED BY <1>10, <1>11, <2>1
<1> HIDE DEF k
<1>13. \A i \in 1..3 : k[i + 1] = a[i]
  <2> TAKE i \in 1..3
  <2>1. 5 + i - 1 = (i + 3) + 1 /\ i + 3 \in 1..6
    OBVIOUS
  <2> QED BY <2>1, <1>3, <1>5, <1>11, <1>12
<1>14. k # <<>> /\ Tail(k) = a /\ Len(k) # 1
  <2>1. Len(k) = Len(a) + 1 /\ (\A i \in 1..Len(a) : k[i + 1] = a[i]) /\ Len(k) # 1
    BY <1>1, <1>12, <1>13
  <2> QED BY <1>1, <1>12, <2>1, TailIs
<1>15. Len(w) = 7
  BY <1>5
<1> QED BY <1>5, <1>6, <1>7, <1>8, <1>12, <1>14, <1>15 DEF k, h, g, a, e

\* The registration and the credential, and the credential alone, end well.
LEMMA AnchoredGoes == Goes(Anchored, Free) /\ Goes(AnchorCredential(This), Free)
<1>1. /\ Path(RegisterDID(This), Free, At("done", "register"))
      /\ Path(AnchorCredential(This), Free, At("done", "anchor"))
      /\ At("done", "register") \in State
  BY TwoStates, Invokes DEF RegisterDID, AnchorCredential, Ops
<1>2. At("done", "register").at = "done" /\ At("done", "register").op = "register"
  BY DEF At
<1>3. Path(AnchorCredential(This), At("done", "register"), At("done", "anchor"))
  BY <1>1, <1>2, Invokes DEF AnchorCredential, Ops
<1>4. Path(Anchored, Free, At("done", "anchor"))
  BY <1>1, <1>3, Chain DEF Anchored
<1>5. At("done", "anchor") \in Ends
  BY EndsAre DEF Ops
<1> QED BY <1>1, <1>4, <1>5 DEF Goes, Path

\* The first step of two lists is that of the first.
LEMMA HeadTailOfConcat ==
    ASSUME NEW t \in Seq(AnySteps), t # <<>>, NEW w \in Seq(AnySteps)
    PROVE  Head(t \o w) = Head(t) /\ Tail(t \o w) = Tail(t) \o w
<1> DEFINE s == t \o w
           u == Tail(t)
           v == u \o w
<1>1. PICK m \in Nat, n \in Nat : Len(t) = m + 1 /\ Len(w) = n
  <2>1. Len(t) \in Nat \ {0} /\ Len(w) \in Nat
    BY EmptySeq, LenProperties
  <2>2. Len(t) - 1 \in Nat /\ Len(t) = (Len(t) - 1) + 1
    BY <2>1
  <2> QED BY <2>1, <2>2
<1>2. /\ s \in Seq(AnySteps) /\ Len(s) = (m + 1) + n
      /\ \A i \in 1..(m + 1) : s[i] = t[i]
      /\ \A i \in 1..n : s[i + (m + 1)] = w[i]
  <2>1. /\ s \in Seq(AnySteps) /\ Len(s) = Len(t) + Len(w)
        /\ \A i \in 1..Len(t) : s[i] = t[i]
        /\ \A i \in 1..Len(w) : s[i + Len(t)] = w[i]
    BY JoinIs, SMTT(30)
  <2> HIDE DEF s
  <2> QED BY <1>1, <2>1
<1>3. u \in Seq(AnySteps) /\ Len(u) = m /\ Head(t) = t[1] /\ \A i \in 1..m : u[i] = t[i + 1]
  <2>1. u \in Seq(AnySteps) /\ Len(u) = Len(t) - 1 /\ Head(t) = t[1] /\ \A i \in 1..Len(u) : u[i] = t[i + 1]
    BY HeadTailProperties
  <2>2. Len(u) = m
    BY <2>1, <1>1
  <2> HIDE DEF s, u, v
  <2> QED BY <2>1, <2>2
<1> HIDE DEF s, u
<1>4. /\ v \in Seq(AnySteps) /\ Len(v) = m + n
      /\ \A i \in 1..m : v[i] = u[i]
      /\ \A i \in 1..n : v[i + m] = w[i]
  <2>1. /\ v \in Seq(AnySteps) /\ Len(v) = Len(u) + Len(w)
        /\ \A i \in 1..Len(u) : v[i] = u[i]
        /\ \A i \in 1..Len(w) : v[i + Len(u)] = w[i]
    BY <1>3, JoinIs
  <2>2. Len(u) = m
    <3>1. Len(u) = Len(t) - 1
      BY HeadTailProperties DEF u
    <3> QED BY <1>1, <3>1
  <2> HIDE DEF v
  <2> QED BY <1>1, <2>1, <2>2
<1> HIDE DEF v
<1>5. ASSUME NEW i \in 1..Len(v) PROVE s[i + 1] = v[i]
  <2>1. CASE i <= m
    <3>1. i \in 1..m /\ i + 1 \in 1..(m + 1)
      BY <2>1, <1>4
    <3> QED BY <3>1, <1>2, <1>3, <1>4
  <2>2. CASE ~(i <= m)
    <3>1. PICK k \in 1..n : i = k + m
      <4>1. i - m \in 1..n /\ i = (i - m) + m
        BY <2>2, <1>4
      <4> QED BY <4>1
    <3>2. i + 1 = k + (m + 1)
      BY <3>1
    <3> QED BY <3>1, <3>2, <1>2, <1>4
  <2> QED BY <2>1, <2>2
<1>6. Head(s) = s[1] /\ Tail(s) = v
  <2>1. Len(s) = Len(v) + 1
    BY <1>2, <1>4
  <2> QED BY <2>1, <1>2, <1>4, <1>5, TailIs
<1>7. s[1] = t[1]
  BY <1>2
<1> QED BY <1>3, <1>6, <1>7, SMTT(30) DEF s, v, u

\* How a list goes on after its first step.
LEMMA GoesOn ==
    ASSUME NEW s, s # <<>>, NEW x \in State, Goes(s, x)
    PROVE  /\ s \in Seq(AnySteps)
           /\ \/ Head(s) \in Steps /\ \E z \in State : Leads(x, Head(s), z) /\ Goes(Tail(s), z)
              \/ x = Free /\ s = Anchoring
<1>1. CASE \E y \in Ends : Follows(s, x, y)
  <2>1. PICK y \in Ends : Follows(s, x, y)
    BY <1>1
  <2>2. s \in Seq(Steps)
    BY <2>1 DEF Follows
  <2>3. s \in Seq(AnySteps)
    BY <2>2, SeqMonotonic DEF AnySteps
  <2> QED BY <2>1, <2>3, TailFollows DEF Goes
<1>2. CASE \E t : Follows(t, x, Free) /\ s = t \o Anchoring
  <2>1. PICK t : Follows(t, x, Free) /\ s = t \o Anchoring
    BY <1>2
  <2>2. t \in Seq(Steps) /\ t \in Seq(AnySteps) /\ Anchoring \in Seq(AnySteps)
    <3>1. t \in Seq(Steps)
      BY <2>1 DEF Follows
    <3> QED BY <3>1, SeqMonotonic, AnchoringIs DEF AnySteps
  <2>3. s \in Seq(AnySteps)
    BY <2>1, <2>2, ConcatProperties
  <2>4. CASE t = <<>>
    <3>1. x = Free
      BY <2>1, <2>4, EmptyFollows
    <3>2. s = Anchoring
      BY <2>1, <2>2, <2>4, ConcatEmptySeq
    <3> QED BY <2>3, <3>1, <3>2
  <2>5. CASE t # <<>>
    <3>1. PICK z \in State : Head(t) \in Steps /\ Leads(x, Head(t), z) /\ Follows(Tail(t), z, Free)
      BY <2>1, <2>5, TailFollows
    <3>2. Head(s) = Head(t) /\ Tail(s) = Tail(t) \o Anchoring
      BY <2>1, <2>2, <2>5, HeadTailOfConcat
    <3> QED BY <2>3, <3>1, <3>2 DEF Goes
  <2> QED BY <2>4, <2>5
<1> QED BY <1>1, <1>2 DEF Goes
------------------------------------------------------------------------------
\* A list of a command, from its start.
Command(s) == s # <<>> /\ Goes(s, New)

\* A list that ends where a command can end.
LEMMA CommandIs == ASSUME NEW s, NEW y \in Ends, Path(s, New, y) PROVE Command(s)
BY DEF Command, Path, Goes

\* A list of one look, or of a look and the file.
LEMMA ShortCommands ==
    /\ \A step \in Looks : Command(Do(step)) /\ Command(Do(step) \o SaveConfig)
    /\ \A what \in {"vc", "doc", "report"} : Command(Load(what)) /\ Command(Keep(what))
    /\ Command(SaveConfig)
<1>1. ASSUME NEW step \in Looks PROVE Command(Do(step)) /\ Command(Do(step) \o SaveConfig)
  <2>1. Path(Do(step), New, New)
    BY Look
  <2>2. Path(SaveConfig, New, Free)
    BY Saves
  <2>3. Path(Do(step) \o SaveConfig, New, Free)
    BY <2>1, <2>2, Chain
  <2> QED BY <2>1, <2>3, CommandIs, TwoStates
<1>2. ASSUME NEW what \in {"vc", "doc", "report"} PROVE Command(Load(what)) /\ Command(Keep(what))
  BY Look, CommandIs, TwoStates
<1>3. Command(SaveConfig)
  BY Saves, CommandIs, TwoStates
<1> QED BY <1>1, <1>2, <1>3

\* The document of a DID is kept, and the configuration.
LEMMA SavesDID ==
    ASSUME NEW x \in {New, Free}
    PROVE  Path(SaveDID, x, Free)
<1>1. Path(Keep("doc"), x, x)
  BY Look
<1>2. Path(SaveConfig, x, Free)
  BY Saves
<1> QED BY <1>1, <1>2, Chain DEF SaveDID

\* What follows on-chain ends well.
LEMMA OnChain ==
    ASSUME NEW x \in {New, Free}
    PROVE  /\ Path(RegisterDIDOnChain, x, At("done", "register"))
           /\ Path(SorobanOnChain, x, At("decoded", "register"))
           /\ Path(Need("registry") \o GetKeypairAndNetwork, x, Free)
<1>1. Path(Need("registry"), x, x) /\ Path(GetKeypairAndNetwork, x, x) /\ Path(GetKeypairAndNetwork, x, Free)
  BY Look DEF GetKeypairAndNetwork, Looks, Items
<1>2. x \in State /\ WalletDID \in Dids
  BY TwoStates, ClientAssumptions DEF WalletDID, Dids
<1> DEFINE s == Need("registry") \o GetKeypairAndNetwork
<1>3. Path(s, x, x) /\ Path(s, x, Free)
  BY <1>1, Chain
<1> HIDE DEF s
<1>4. Path(RegisterDID(This), x, At("done", "register")) /\ Path(Invoke("register", WalletDID), x,
      At("done", "register"))
  BY <1>2, Invokes DEF RegisterDID, Ops
<1>5. Path(RegisterSorobanDID, x, At("decoded", "register"))
  BY <1>4, Decodes, Chain DEF RegisterSorobanDID, Ops
<1>6. Path(s \o RegisterDID(This), x, At("done", "register")) /\ Path(s \o RegisterSorobanDID, x,
      At("decoded", "register"))
  BY <1>3, <1>4, <1>5, Chain
<1> QED BY <1>3, <1>6 DEF s, RegisterDIDOnChain, SorobanOnChain

\* did create.
LEMMA DIDCreateIs == \A s \in DIDCreate : Command(s)
<1>1. Command(Do("keygen"))
  BY ShortCommands DEF Looks
<1>2. ASSUME NEW step \in {"keygen", "walletdid"} PROVE Path(Do(step) \o SaveDID, New, Free)
  <2>1. Path(Do(step), New, New) /\ Path(SaveDID, New, Free)
    BY Look, SavesDID DEF Looks
  <2> QED BY <2>1, Chain
<1>3. Command(Do("keygen") \o SaveDID) /\ Command(Do("walletdid") \o SaveDID)
  BY <1>2, CommandIs, TwoStates
<1>4. Path(RegisterDIDOnChain, Free, At("done", "register")) /\ Path(SorobanOnChain, Free, At("decoded", "register"))
  BY OnChain
<1>5. At("done", "register") \in Ends /\ At("decoded", "register") \in Ends
  BY EndsAre DEF Ops
<1> DEFINE k == Do("keygen") \o SaveDID
           w == Do("walletdid") \o SaveDID
<1>6. Path(k, New, Free) /\ Path(w, New, Free)
  BY <1>2
<1> HIDE DEF k, w
<1>7. Path(k \o RegisterDIDOnChain, New, At("done", "register")) /\ Path(w \o SorobanOnChain, New,
      At("decoded", "register"))
  BY <1>4, <1>6, Chain
<1>8. Command(k \o RegisterDIDOnChain) /\ Command(w \o SorobanOnChain)
  BY <1>5, <1>7, CommandIs
<1> QED BY <1>1, <1>3, <1>8 DEF DIDCreate, k, w

\* A credential is made and kept.
LEMMA Issues == Path(IssueVC, New, Free)
<1> DEFINE s == Do("keygen") \o Keep("vc")
<1>1. Path(Do("keygen"), New, New) /\ Path(Keep("vc"), New, New) /\ Path(SaveDID, New, Free)
  BY Look, SavesDID DEF Looks
<1>2. Path(s, New, New)
  BY <1>1, Chain
<1> HIDE DEF s
<1>3. Path(s \o SaveDID, New, Free)
  BY <1>1, <1>2, Chain
<1> QED BY <1>3 DEF IssueVC, s

\* Three lists of steps can be put together in two ways.
LEMMA Assoc ==
    ASSUME NEW s \in Seq(AnySteps), NEW t \in Seq(AnySteps), NEW u \in Seq(AnySteps)
    PROVE  (s \o t) \o u = s \o (t \o u)
BY ConcatAssociative

\* did attest: with the question whether the DID is on record.
LEMMA DIDAttestIs == \A s \in DIDAttest : Command(s)
<1>1. Command(IssueVC)
  BY Issues, CommandIs, TwoStates
<1>2. Command(IssueVC \o AnchorVCOnChain)
  <2> DEFINE i == IssueVC
             n == Need("registry") \o GetKeypairAndNetwork
             r == RegisterDID(This)
             a == AnchorCredential(This)
             e == DIDExists
  <2>1. Path(i, New, Free) /\ Path(n, Free, Free)
    BY Issues, OnChain
  <2>2. i \in Seq(AnySteps) /\ n \in Seq(AnySteps)
    <3>1. i \in Seq(Steps) /\ n \in Seq(Steps)
      BY <2>1 DEF Path, Follows
    <3> QED BY <3>1, SeqMonotonic DEF AnySteps
  <2>3. r \in Seq(AnySteps) /\ a \in Seq(AnySteps) /\ e \in Seq(AnySteps)
    <3>1. [do |-> "exists"] \in AnySteps
      BY DEF AnySteps
    <3>2. e \in Seq(AnySteps)
      BY <3>1 DEF DIDExists, Do
    <3> QED BY <3>2, InvokeIs DEF RegisterDID, AnchorCredential, Ops
  <2>4. AnchorVCOnChain = ((n \o e) \o r) \o a /\ Anchoring = e \o (r \o a)
    BY DEF AnchorVCOnChain, Anchoring
  <2> HIDE DEF i, n, r, a, e
  <2>5. AnchorVCOnChain = n \o Anchoring
    <3>1. n \o e \in Seq(AnySteps) /\ r \o a \in Seq(AnySteps)
      BY <2>2, <2>3, ConcatProperties
    <3>2. ((n \o e) \o r) \o a = (n \o e) \o (r \o a)
      BY <2>3, <3>1, Assoc
    <3>3. (n \o e) \o (r \o a) = n \o (e \o (r \o a))
      BY <2>2, <2>3, <3>1, Assoc
    <3> QED BY <2>4, <3>2, <3>3
  <2>6. i \o (n \o Anchoring) = (i \o n) \o Anchoring
    BY <2>2, AnchoringIs, Assoc
  <2>7. Path(i \o n, New, Free)
    BY <2>1, Chain
  <2>8. i \o n \in Seq(AnySteps)
    BY <2>2, ConcatProperties
  <2>9. (i \o n) \o Anchoring # <<>>
    BY <2>8, AnchoringIs, ConcatEqualIffEmpty
  <2>10. Goes((i \o n) \o Anchoring, New)
    BY <2>7 DEF Goes, Path
  <2> QED BY <2>5, <2>6, <2>9, <2>10 DEF Command, i
<1> QED BY <1>1, <1>2 DEF DIDAttest

\* Two looks, and three.
LEMMA TwoLooks ==
    ASSUME NEW s, NEW t, Path(s, New, New), Path(t, New, New)
    PROVE  Path(s \o t, New, New) /\ Command(s \o t)
BY Chain, CommandIs, TwoStates

\* After some looks, the keys and a transaction that creates no agreement.
LEMMA LooksAndInvoke ==
    ASSUME NEW s, Path(s, New, New), NEW op \in Ops, op # "create", NEW on \in Dids \cup {None, This}
    PROVE  Command((s \o GetKeypairAndNetwork) \o Invoke(op, on))
<1>1. Path(GetKeypairAndNetwork, New, New)
  BY Look DEF GetKeypairAndNetwork, Looks
<1>2. Path(s \o GetKeypairAndNetwork, New, New)
  BY <1>1, Chain
<1>3. Path(Invoke(op, on), New, At("done", op))
  BY TwoStates, Invokes
<1>4. Path((s \o GetKeypairAndNetwork) \o Invoke(op, on), New, At("done", op))
  BY <1>2, <1>3, Chain
<1> QED BY <1>4, EndsAre, CommandIs

\* The other commands of did.
LEMMA DIDCommandsAre ==
    \A s \in DIDVerify \cup DIDSetRegistry \cup DIDRegister \cup DIDResolve \cup DIDDeactivate \cup DIDAnchor
        \cup DIDRevoke \cup DIDStatus :
        Command(s)
<1>1. /\ Path(Load("vc"), New, New) /\ Path(Load("doc"), New, New) /\ Path(Do("check"), New, New)
           /\ Path(Do("query"), New, New)
      /\ Path(Need("registry"), New, New) /\ Path(Need("did"), New, New)
  BY Look DEF Looks, Items
<1> DEFINE n == Need("registry")
           v == Load("vc")
           d == Load("doc")
           c == Do("check")
           q == Do("query")
           w == Need("did")
<1> HIDE DEF n, v, d, c, q, w
<1>2. Path(v \o c, New, New) /\ Path(n \o v, New, New) /\ Path(n \o d, New, New) /\ Path(n \o w, New, New)
  BY <1>1, TwoLooks DEF n, v, d, c, w
<1>3. Path((v \o c) \o n, New, New)
  BY <1>1, <1>2, TwoLooks DEF n
<1>4. Command(((v \o c) \o n) \o q) /\ Command((n \o v) \o q) /\ Command((n \o w) \o q)
  BY <1>1, <1>2, <1>3, TwoLooks DEF q
<1>5. \A s \in DIDVerify \cup DIDResolve \cup DIDStatus : Command(s)
  BY <1>4 DEF DIDVerify, DIDResolve, DIDStatus, CredentialStatus, ResolveDID, SimulateOnly, n, v, c, q, w
<1>6. \A s \in DIDSetRegistry : Command(s)
  BY ShortCommands DEF DIDSetRegistry, Looks
<1>7. This \in Dids \cup {None, This} /\ \A e \in Dids : e \in Dids \cup {None, This}
  OBVIOUS
<1>8. /\ Command(((n \o d) \o GetKeypairAndNetwork) \o Invoke("register", This))
      /\ Command(((n \o v) \o GetKeypairAndNetwork) \o Invoke("anchor", This))
      /\ Command(((n \o v) \o GetKeypairAndNetwork) \o Invoke("revoke", This))
  BY <1>2, <1>7, LooksAndInvoke DEF Ops
<1>9. \A e \in Dids : Command((n \o GetKeypairAndNetwork) \o Invoke("deactivate", e))
  BY <1>1, <1>7, LooksAndInvoke DEF Ops, n
<1>10. \A s \in DIDRegister \cup DIDAnchor \cup DIDRevoke : Command(s)
  BY <1>8 DEF DIDRegister, DIDAnchor, DIDRevoke, RegisterDID, AnchorCredential, RevokeCredential, n, v, d
<1>11. \A s \in DIDDeactivate : Command(s)
  BY <1>9 DEF DIDDeactivate, DeactivateDID, n
<1> QED BY <1>5, <1>6, <1>10, <1>11
\* A call on an agreement, alone or after a look.
LEMMA AgreementCalls ==
    ASSUME NEW op \in Ops, op # "create"
    PROVE  /\ Command(OnAgreement(op))
           /\ \A s : Path(s, New, New) => Command(s \o OnAgreement(op))
<1> DEFINE s1 == Need("contract") \o Need("agreement")
           s2 == s1 \o GetKeypairAndNetwork
<1>1. Path(s1, New, New)
  <2>1. Path(Need("contract"), New, New) /\ Path(Need("agreement"), New, New)
    BY Look DEF Items
  <2> QED BY <2>1, Chain
<1> HIDE DEF s1
<1>2. Path(s2, New, New)
  <2>1. Path(GetKeypairAndNetwork, New, New)
    BY Look DEF GetKeypairAndNetwork, Looks
  <2> QED BY <1>1, <2>1, Chain
<1> HIDE DEF s2
<1>3. Path(s2 \o Invoke(op, None), New, At("done", op))
  <2>1. Path(Invoke(op, None), New, At("done", op))
    BY TwoStates, Invokes
  <2> QED BY <1>2, <2>1, Chain
<1>4. Path(OnAgreement(op), New, At("done", op))
  BY <1>3 DEF OnAgreement, s2, s1
<1>5. At("done", op) \in Ends
  BY EndsAre
<1>6. ASSUME NEW s, Path(s, New, New) PROVE Command(s \o OnAgreement(op))
  BY <1>4, <1>5, <1>6, Chain, CommandIs
<1> QED BY <1>4, <1>5, <1>6, CommandIs

\* contract deploy uploads the code, creates the instance and uses it.
LEMMA DeployIs == \A s \in ContractDeploy : Command(s)
<1> DEFINE k == GetKeypairAndNetwork
           d == DeployWithConstructorArgs
           c == [do |-> "usecontract"]
<1>1. Path(k, New, New)
  BY Look DEF GetKeypairAndNetwork, Looks
<1>2. Path(UploadWasm, New, At("done", "upload"))
  BY TwoStates, Invokes DEF UploadWasm, Ops
<1>3. At("done", "upload") \in State /\ At("done", "upload").at = "done" /\ At("done", "upload").op = "upload"
        /\ At("done", "deploy") \in State
  BY StateOf DEF Phases, Ops
<1>4. Path(CreateContract, At("done", "upload"), At("done", "deploy"))
  BY <1>3, Invokes DEF CreateContract, Ops
<1>5. Path(d, New, At("done", "deploy"))
  BY <1>2, <1>4, Chain DEF DeployWithConstructorArgs
<1>6. c \in Steps /\ c.do = "usecontract"
  BY DEF Steps, Submits
<1>7. Path(Do("usecontract"), At("done", "deploy"), Free)
  <2>1. Leads(At("done", "deploy"), c, Free)
    BY <1>6 DEF Leads, Settles
  <2> QED BY <1>3, <1>6, <2>1, TwoStates, Single DEF Do
<1>8. Path(SaveConfig, Free, Free)
  BY Saves
<1> HIDE DEF k, d
<1> DEFINE s1 == k \o d
           s2 == s1 \o Do("usecontract")
<1>9. Path(s1, New, At("done", "deploy"))
  BY <1>1, <1>5, Chain
<1> HIDE DEF s1
<1>10. Path(s2, New, Free)
  BY <1>7, <1>9, Chain
<1> HIDE DEF s2
<1>11. Path(s2 \o SaveConfig, New, Free)
  BY <1>8, <1>10, Chain
<1>12. Command(s2 \o SaveConfig)
  BY <1>11, CommandIs, TwoStates
<1> QED BY <1>12 DEF ContractDeploy, s2, s1, k, d

\* contract create: the agreement is decoded, recorded and kept.
LEMMA CreateIs == \A s \in CreateAgreement : Command(s)
<1> DEFINE n == Need("contract")
           k == GetKeypairAndNetwork
           i == Invoke("create", None)
           r == [do |-> "record"]
           z == At("recorded", "none")
<1>1. Path(n, New, New) /\ Path(k, New, New)
  BY Look DEF GetKeypairAndNetwork, Looks, Items
<1>2. Path(i, New, At("done", "create"))
  BY TwoStates, Invokes DEF Ops
<1>3. Path(Do("decode"), At("done", "create"), At("decoded", "create"))
  BY Decodes DEF Ops
<1>4. Path(Do("record"), At("decoded", "create"), z)
  <2>1. At("decoded", "create") \in State /\ z \in State
    BY StateOf DEF Phases, Ops
  <2>2. r \in Steps /\ Leads(At("decoded", "create"), r, z)
    BY DEF Steps, Submits, Leads, Settles
  <2> QED BY <2>1, <2>2, Single DEF Do
<1>5. Path(SaveConfig, z, Free)
  BY Saves
<1> HIDE DEF n, k, i, z
<1> DEFINE s1 == n \o k
           s2 == s1 \o i
           s3 == s2 \o Do("decode")
           s4 == s3 \o Do("record")
<1>6. Path(s1, New, New)
  BY <1>1, Chain
<1> HIDE DEF s1
<1>7. Path(s2, New, At("done", "create"))
  BY <1>2, <1>6, Chain
<1> HIDE DEF s2
<1>8. Path(s3, New, At("decoded", "create"))
  BY <1>3, <1>7, Chain
<1> HIDE DEF s3
<1>9. Path(s4, New, z)
  BY <1>4, <1>8, Chain
<1> HIDE DEF s4
<1>10. Path(s4 \o SaveConfig, New, Free)
  BY <1>5, <1>9, Chain
<1>11. Command(s4 \o SaveConfig)
  BY <1>10, CommandIs, TwoStates
<1> QED BY <1>11 DEF CreateAgreement, s4, s3, s2, s1, n, k, i

\* The other commands of contract.
LEMMA ContractCommandsAre ==
    \A s \in UNION {ContractSet, ContractShow, ContractList, AttestIdentity, ConnectWallet, FundAsset, Execute,
      Settle, SetRegistry} :
        Command(s)
<1>1. /\ Path(Need("contract"), New, New) /\ Path(Need("agreement"), New, New) /\ Path(Need("registry"), New, New)
      /\ Path(Need("did"), New, New) /\ Path(Load("vc"), New, New) /\ Path(GetKeypairAndNetwork, New, New)
      /\ Path(Do("query"), New, New)
  BY Look DEF GetKeypairAndNetwork, Looks, Items
<1> DEFINE c == Need("contract")
           a == Need("agreement")
           g == Need("registry")
           w == Need("did")
           v == Load("vc")
           k == GetKeypairAndNetwork
           q == Do("query")
<1>2. /\ Path(c, New, New) /\ Path(a, New, New) /\ Path(g, New, New) /\ Path(w, New, New) /\ Path(v, New, New)
      /\ Path(k, New, New) /\ Path(q, New, New)
  BY <1>1
<1> HIDE DEF c, a, g, w, v, k, q
<1>3. \A s \in ContractSet : Command(s)
  BY ShortCommands DEF ContractSet, Looks
<1>4. Path(c \o a, New, New) /\ Path(c \o k, New, New) /\ Path(c \o g, New, New) /\ Path(w \o v, New, New)
  BY <1>2, TwoLooks
<1>5. Path((c \o a) \o k, New, New)
  BY <1>2, <1>4, TwoLooks
<1>6. Command(((c \o a) \o k) \o q) /\ Command((c \o k) \o q)
  BY <1>2, <1>4, <1>5, TwoLooks
<1>7. \A s \in ContractShow \cup ContractList : Command(s)
  BY <1>6 DEF ContractShow, ContractList, SimulateOnly, c, a, k, q
<1>8. \A s \in AttestIdentity : Command(s)
  <2>1. "attest" \in Ops
    BY DEF Ops
  <2>2. Command(w \o OnAgreement("attest")) /\ Command((w \o v) \o OnAgreement("attest"))
    BY <1>2, <1>4, <2>1, AgreementCalls
  <2> QED BY <2>2 DEF AttestIdentity, w, v
<1>9. \A s \in UNION {ConnectWallet, FundAsset, Execute, Settle} : Command(s)
  <2>1. \A op \in {"wallet", "fund", "execute", "settle"} : Command(OnAgreement(op))
    BY AgreementCalls DEF Ops
  <2> QED BY <2>1 DEF ConnectWallet, FundAsset, Execute, Settle
<1>10. \A s \in SetRegistry : Command(s)
  <2>1. "setregistry" \in Ops /\ None \in Dids \cup {None, This}
    BY DEF Ops
  <2>2. Command(((c \o g) \o GetKeypairAndNetwork) \o Invoke("setregistry", None))
    BY <1>4, <2>1, LooksAndInvoke
  <2> QED BY <2>2 DEF SetRegistry, c, g
<1> QED BY <1>3, <1>7, <1>8, <1>9, <1>10

\* Every command is a list that ends where a command can end.
LEMMA CommandsAre == \A s \in Commands : Command(s)
<1>1. \A s \in ReportGenerate \cup AnchorReport : Command(s)
  <2>1. "report" \in Ops
    BY DEF Ops
  <2>2. Path(Keep("report"), New, New) /\ Path(Load("report"), New, New)
    BY Look
  <2>3. Command(Keep("report") \o InvokeAnchorReport) /\ Command(Load("report") \o InvokeAnchorReport)
    BY <2>1, <2>2, AgreementCalls DEF InvokeAnchorReport
  <2> QED BY <2>3, ShortCommands DEF ReportGenerate, AnchorReport
<1>2. \A s \in UNION {ReportShow, NetworkSet, NetworkSwitch, InitCmd, TansuQuery} : Command(s)
  <2>1. /\ Command(Load("report")) /\ Command(Do("network") \o SaveConfig) /\ Command(SaveConfig)
        /\ Command(SimulateOnly)
    BY ShortCommands DEF Looks, SimulateOnly
  <2> QED BY <2>1 DEF ReportShow, NetworkSet, NetworkSwitch, InitCmd, TansuQuery
<1> SUFFICES ASSUME NEW s \in Commands PROVE Command(s)
  OBVIOUS
<1>3. CASE s \in UNION {DIDCreate, DIDAttest, DIDVerify, DIDSetRegistry, DIDRegister, DIDResolve, DIDDeactivate,
      DIDAnchor,
                        DIDRevoke, DIDStatus}
  BY <1>3, DIDCreateIs, DIDAttestIs, DIDCommandsAre
<1>4. CASE s \in UNION {ContractDeploy, ContractSet, CreateAgreement, ContractShow, ContractList, AttestIdentity,
      ConnectWallet,
                        FundAsset, Execute, Settle, SetRegistry}
  BY <1>4, DeployIs, CreateIs, ContractCommandsAre
<1>5. CASE s \in UNION {AnchorReport, ReportGenerate, ReportShow, NetworkSet, NetworkSwitch, InitCmd, TansuQuery}
  BY <1>5, <1>1, <1>2
<1> QED BY <1>3, <1>4, <1>5 DEF Commands
------------------------------------------------------------------------------
\* The job j, whose first step has been done, is in state x after it.
Ready(j, x) ==
    /\ j.steps # <<>> /\ TrueConfig(j.cfg)
    /\ Goes(Tail(j.steps), x) /\ Tracks(j, x) /\ (~spent.disturbed => Remembers(j, x))
\* What Advance makes of it.
Moved(j) == IF Len(j.steps) = 1 THEN Fresh ELSE [j EXCEPT !.steps = Tail(@)]

\* A list ends with its only step.
LEMMA LastStep ==
    ASSUME NEW s \in Seq(AnySteps), s # <<>>
    PROVE  Len(s) \in Nat \ {0} /\ Tail(s) \in Seq(AnySteps) /\ (Tail(s) = <<>> <=> Len(s) = 1)
<1>1. Len(s) \in Nat \ {0} /\ Tail(s) \in Seq(AnySteps) /\ Len(Tail(s)) = Len(s) - 1
  BY EmptySeq, HeadTailProperties
<1>2. PICK u : u = Tail(s)
  OBVIOUS
<1>3. u \in Seq(AnySteps) /\ Len(u) = Len(s) - 1
  BY <1>1, <1>2
<1>4. u = <<>> <=> Len(u) = 0
  BY <1>3, EmptySeq
<1> QED BY <1>1, <1>2, <1>3, <1>4

\* A command has ended only where it can end.
LEMMA EmptyGoes == ASSUME NEW x, Goes(<<>>, x) PROVE x \in Ends
<1>1. CASE \E y \in Ends : Follows(<<>>, x, y)
  BY <1>1, EmptyFollows
<1>2. CASE \E t : Follows(t, x, Free) /\ <<>> = t \o Anchoring
  <2>1. PICK t : Follows(t, x, Free) /\ <<>> = t \o Anchoring
    BY <1>2
  <2>2. t \in Seq(AnySteps)
    <3>1. t \in Seq(Steps)
      BY <2>1 DEF Follows
    <3> QED BY <3>1, SeqMonotonic DEF AnySteps
  <2>3. Len(t \o Anchoring) = Len(t) + Len(Anchoring) /\ Len(t) \in Nat /\ Len(Anchoring) = 7
    BY <2>2, AnchoringIs, JoinIs, LenProperties
  <2>4. Len(<<>>) = 0
    BY EmptySeq
  <2> QED BY <2>1, <2>3, <2>4
<1> QED BY <1>1, <1>2 DEF Goes

\* What a job is that has not begun.
LEMMA FreshIs ==
    /\ Fresh \in Jobs /\ Fresh.steps = <<>> /\ Fresh.tx.id = None
    /\ DefaultConfig \in Configs /\ DefaultConfig.agreements = {}
    /\ DefaultConfig.last = None /\ DefaultConfig.contract = None
<1>1. /\ DefaultConfig \in Configs /\ DefaultConfig.agreements = {} /\ DefaultConfig.last = None
      /\ DefaultConfig.contract = None
  BY ClientAssumptions DEF DefaultConfig, Configs, Networks, None
<1>2. <<>> \in Seq(AnySteps) /\ None \in Dids \cup {None}
  BY EmptySeq
<1> QED BY <1>1, <1>2 DEF Fresh, Jobs

\* What is known of a job does not depend on the steps it has left,
TracksOnce == \A j, k, x : j.tx = k.tx /\ j.queued = k.queued /\ Tracks(j, x) => Tracks(k, x)
\* nor does what it remembers.
RemembersOnce == \A j, k, x : j.tx = k.tx /\ j.cfg.agreements = k.cfg.agreements /\ Remembers(j, x) => Remembers(k, x)
\* Both are so.
LEMMA TracksSame == TracksOnce /\ RemembersOnce
BY DEF TracksOnce, RemembersOnce, Tracks, Remembers, Pending

\* What is left of a job that is ready runs.
ReadyRuns == \A j \in Jobs, x \in State : \A c :
    Ready(j, x) /\ c = Moved(j)
    => /\ c \in Jobs /\ Started(c) /\ c.tx.id \in {None, j.tx.id}
       /\ c.steps = <<>> /\ ~spent.disturbed => AllKept
\* A job whose first step is done goes on with the others, or ends.
LEMMA ReadyIs == ReadyRuns
<1> SUFFICES ASSUME NEW j \in Jobs, NEW x \in State, NEW c, Ready(j, x), c = Moved(j)
             PROVE  /\ c \in Jobs /\ Started(c) /\ c.tx.id \in {None, j.tx.id}
                    /\ c.steps = <<>> /\ ~spent.disturbed => AllKept
  BY DEF ReadyRuns
<1>1. PICK s : s = Tail(j.steps)
  OBVIOUS
<1>2. /\ Len(j.steps) \in Nat \ {0} /\ s \in Seq(AnySteps) /\ (s = <<>> <=> Len(j.steps) = 1)
      /\ Goes(s, x)
  BY <1>1, LastStep DEF Ready, Jobs
<1>3. CASE s = <<>>
  <2>1. c = Fresh
    BY <1>2, <1>3 DEF Moved
  <2>2. x \in Ends
    BY <1>2, <1>3, EmptyGoes
  <2>3. x.at # "torn" /\ x.at # "recorded" /\ (x.at \in {"done", "decoded"} => x.op # "create")
    BY <2>2, TwoStates DEF Ends
  <2>4. ~spent.disturbed => AllKept
    BY <2>3 DEF Ready, Remembers, Pending, AllKept
  <2> QED BY <2>1, <2>4, FreshIs DEF Started
<1>4. CASE s # <<>>
  <2>1. c = [j EXCEPT !.steps = s]
    BY <1>1, <1>2, <1>4 DEF Moved
  <2>2. c \in Jobs /\ c.steps = s /\ c.tx = j.tx /\ c.cfg = j.cfg /\ c.queued = j.queued
    BY <2>1, <1>2 DEF Jobs
  <2>3. Tracks(c, x) /\ (~spent.disturbed => Remembers(c, x))
    BY <2>2, TracksSame DEF Ready, TracksOnce, RemembersOnce
  <2>4. Under(c)
    BY <1>2, <2>2, <2>3 DEF Under, Ready
  <2> QED BY <1>4, <2>2, <2>4 DEF Started
<1> QED BY <1>3, <1>4

\* The same of the next state.
LEMMA ReadyAgain == ReadyRuns'
BY ReadyIs, PTL
------------------------------------------------------------------------------
(* What a step leaves alone.                                                  *)

\* Nothing happens to the transaction of job c.
Steady(c) ==
    /\ spent.txs <= spent'.txs
    /\ OwnAgreements \subseteq OwnAgreements' /\ Deployed \subseteq Deployed'
    /\ told \subseteq told' /\ landed \subseteq landed'
    /\ c.tx.id # None =>
        /\ \A u \in flying' : u.id = c.tx.id => u \in flying
        /\ \A l \in landed' : l.tx = c.tx.id => l \in landed \/ \E u \in flying : u.id = l.tx /\ u.op = l.op
        /\ c.tx.id \in failed' => c.tx.id \in failed \cup Flown
        /\ \A u \in told' : u.tx = c.tx.id => u \in told
\* Nothing is learnt by a job that runs alone.
Quiet(c) == c.steps = <<>> \/ spent'.disturbed \/ (~spent.disturbed /\ config' = config /\ Heard' \subseteq Heard)

\* What a configuration says stays so.
LEMMA TrueStays ==
    ASSUME NEW c, TrueConfig(c), OwnAgreements \subseteq OwnAgreements', Deployed \subseteq Deployed', told \subseteq told'
    PROVE  TrueConfig(c)'
<1>1. Told("duplicate")' = {} => Told("duplicate") = {}
  BY DEF Told
<1> QED BY <1>1 DEF TrueConfig

\* So does what is known of the transaction of a job.
LEMMA TracksStays ==
    ASSUME NEW c, NEW x, Tracks(c, x), Steady(c), spent.txs \in Nat, spent'.txs \in Nat
    PROVE  Tracks(c, x)'
<1>1. \A l \in landed : l \in landed'
  BY DEF Steady
<1>2. c.tx.id # None => Sound(c.tx)'
  <2> SUFFICES ASSUME c.tx.id # None PROVE Sound(c.tx)'
    OBVIOUS
  <2>1. Sound(c.tx)
    BY DEF Tracks
  <2>2. c.tx.id \in 1..spent'.txs
    BY <2>1 DEF Sound, Ids, Steady, Txs
  <2>3. \A u \in flying' : u.id = c.tx.id => u.op = c.tx.op
    BY <2>1 DEF Sound, Steady
  <2>4. \A l \in landed' : l.tx = c.tx.id => l.op = c.tx.op
    BY <2>1 DEF Sound, Steady
  <2> QED BY <2>1, <2>2, <2>3, <2>4 DEF Sound, Ids
<1>3. x.at = "ready" => Unsent(c.tx.id)'
  <2> SUFFICES ASSUME x.at = "ready" PROVE Unsent(c.tx.id)'
    OBVIOUS
  <2>1. Unsent(c.tx.id) /\ c.tx.id # None
    BY DEF Tracks
  <2>2. c.tx.id \notin Landed'
    <3> SUFFICES ASSUME NEW l \in landed', l.tx = c.tx.id PROVE FALSE
      BY DEF Landed
    <3>1. CASE l \in landed
      BY <3>1, <2>1 DEF Unsent, Landed
    <3>2. CASE \E u \in flying : u.id = l.tx /\ u.op = l.op
      BY <3>2, <2>1 DEF Unsent, Flown
    <3> QED BY <3>1, <3>2, <2>1 DEF Steady
  <2>3. c.tx.id \notin Flown' /\ c.tx.id \notin failed' /\ c.tx.id \notin Answered'
    BY <2>1 DEF Unsent, Flown, Answered, Steady
  <2> QED BY <2>2, <2>3 DEF Unsent
<1>4. c.tx.id \in Landed => c.tx.id \in Landed'
  BY <1>1 DEF Landed
<1>5. c.tx.id # None /\ c.tx.id \notin Told("success") => c.tx.id \notin Told("success")'
  BY DEF Told, Steady
<1>6. Told("duplicate") # {} => Told("duplicate")' # {}
  BY DEF Told, Steady
<1> QED BY <1>2, <1>3, <1>4, <1>5, <1>6 DEF Tracks

\* And a job that the step does not concern.
LEMMA StartedStays ==
    ASSUME NEW c, Started(c), Steady(c), Quiet(c), spent.txs \in Nat, spent'.txs \in Nat
    PROVE  Started(c)'
<1>1. CASE c.steps = <<>>
  BY <1>1 DEF Started, Fresh, DefaultConfig
<1>2. CASE c.steps # <<>>
  <2>1. PICK x \in State : Goes(c.steps, x) /\ Tracks(c, x) /\ (~spent.disturbed => Remembers(c, x))
    BY <1>2 DEF Started, Under
  <2>2. TrueConfig(c.cfg)
    BY <1>2 DEF Started, Under
  <2>3. TrueConfig(c.cfg)'
    BY <2>2, TrueStays DEF Steady
  <2>4. Tracks(c, x)'
    BY <2>1, TracksStays
  <2>5. ~spent'.disturbed => Remembers(c, x)'
    <3> SUFFICES ASSUME ~spent'.disturbed PROVE Remembers(c, x)'
      OBVIOUS
    <3>1. Remembers(c, x) /\ config' = config /\ Heard' \subseteq Heard
      BY <1>2, <2>1 DEF Quiet
    <3> QED BY <3>1 DEF Remembers, Pending, Torn, DefaultConfig
  <2>6. Under(c)'
    BY <2>1, <2>3, <2>4, <2>5 DEF Under
  <2> QED BY <1>2, <2>6 DEF Started
<1> QED BY <1>1, <1>2

\* The numbers of the transactions so far.
LEMMA TxsIs == ASSUME IInv PROVE spent.txs \in Nat /\ spent.disturbed \in BOOLEAN
BY DEF IInv, Stored, Counts

\* A job, as a value.
LEMMA JobIs ==
    ASSUME IInv, NEW p \in Terminals
    PROVE  \E c \in Jobs : c = jobs[p] /\ Started(c) /\ (c.tx.id # None => c.tx.id \in Ids)
<1>1. PICK c : c = jobs[p] /\ Started(c)
  BY DEF IInv, Running
<1>2. c \in Jobs
  BY <1>1 DEF IInv, Running
<1>3. c.tx.id # None => c.tx.id \in Ids
  <2>1. CASE c.steps = <<>>
    BY <2>1, <1>1, FreshIs DEF Started
  <2>2. CASE c.steps # <<>>
    BY <2>2, <1>1 DEF Started, Under, Tracks, Sound
  <2> QED BY <2>1, <2>2
<1> QED BY <1>1, <1>2, <1>3

\* A step of one terminal leaves the jobs of the others alone.
LEMMA StepKeeps ==
    ASSUME IInv, NEW p \in Terminals, NEW c \in Jobs, jobs' = [jobs EXCEPT ![p] = c], ~Idle(p),
           Started(c)', c.steps = <<>> /\ ~spent'.disturbed => AllKept', spent.disturbed => spent'.disturbed,
           c.tx.id \in {None, jobs[p].tx.id, spent.txs + 1}, Stored', OnTheWay', Reported',
           \A q \in Terminals \ {p} : \E d : d = jobs[q] /\ Steady(d)
    PROVE  IInv'
<1>1. spent.txs \in Nat /\ spent'.txs \in Nat /\ jobs \in [Terminals -> Jobs]
  BY TxsIs DEF Stored, Counts, IInv, Running
<1>2. jobs' \in [Terminals -> Jobs] /\ jobs'[p] = c /\ \A q \in Terminals \ {p} : jobs'[q] = jobs[q]
  BY <1>1
<1>3. ~spent.disturbed => \A q \in Terminals \ {p} : Idle(q)
  BY DEF IInv, Calm
<1>4. ASSUME NEW q \in Terminals \ {p} PROVE \E j : j = jobs'[q] /\ Started(j)'
  <2>1. PICK d \in Jobs : d = jobs[q] /\ Started(d)
    BY JobIs
  <2>2. Steady(d)
    BY <2>1
  <2>3. Quiet(d)
    BY <1>3, <2>1 DEF Quiet, Idle
  <2>4. Started(d)'
    BY <1>1, <2>1, <2>2, <2>3, StartedStays
  <2> QED BY <1>2, <2>1, <2>4
<1>5. Running'
  BY <1>2, <1>4 DEF Running
<1>6. Distinct'
  <2> SUFFICES ASSUME NEW q \in Terminals, NEW r \in Terminals, q # r, jobs'[q].tx.id # None
        PROVE jobs'[q].tx.id # jobs'[r].tx.id
    BY DEF Distinct
  <2>1. \A t \in Terminals : jobs[t].tx.id # None => jobs[t].tx.id \in 1..spent.txs
    BY JobIs DEF Ids
  <2>2. \A t \in Terminals : jobs[t].tx.id # spent.txs + 1
    <3> TAKE t \in Terminals
    <3>1. CASE jobs[t].tx.id = None
      BY <3>1, <1>1 DEF None
    <3>2. CASE jobs[t].tx.id # None
      BY <3>2, <2>1, <1>1
    <3> QED BY <3>1, <3>2
  <2>3. CASE q = p
    BY <2>2, <2>3, <1>2 DEF IInv, Distinct
  <2>4. CASE r = p
    BY <2>2, <2>4, <1>2 DEF IInv, Distinct
  <2>5. CASE q # p /\ r # p
    BY <2>5, <1>2 DEF IInv, Distinct
  <2> QED BY <2>3, <2>4, <2>5
<1>7. ~spent'.disturbed => Calm'
  <2> SUFFICES ASSUME ~spent'.disturbed PROVE Calm'
    OBVIOUS
  <2>1. \A q \in Terminals \ {p} : jobs'[q].steps = <<>>
    BY <1>2, <1>3 DEF Idle
  <2>2. (\A q \in Terminals : jobs'[q].steps = <<>>) => AllKept'
    BY <1>2
  <2> QED BY <2>1, <2>2 DEF Calm, Idle
<1> QED BY <1>5, <1>6, <1>7 DEF IInv
------------------------------------------------------------------------------
(* Steps that ask nothing of the network, or only ask.                        *)

Still ==
    /\ chain' = chain /\ flying' = flying /\ landed' = landed /\ failed' = failed /\ told' = told
    /\ spent'.txs \in {spent.txs, spent.txs + 1}
Offline == Still /\ spent'.disturbed = spent.disturbed

\* What is known of transactions stays so.
LEMMA StillKeeps ==
    ASSUME IInv, Still
    PROVE  /\ OnTheWay' /\ Reported' /\ Heard' = Heard
           /\ \A p \in Terminals : \E d : d = jobs[p] /\ Steady(d)
           /\ \A c : (TrueConfig(c) => TrueConfig(c)') /\ (Steady(c))
<1>1. /\ Landed' = Landed /\ Flown' = Flown /\ Answered' = Answered /\ Heard' = Heard
      /\ OwnAgreements' = OwnAgreements /\ Deployed' = Deployed /\ \A r : Told(r)' = Told(r)
  BY DEF Still, Landed, Flown, Answered, Heard, OwnAgreements, Deployed, Told
<1>2. Ids \subseteq Ids'
  BY TxsIs DEF Still, Ids
<1>3. OnTheWay' /\ Reported'
  BY <1>1, <1>2 DEF IInv, OnTheWay, Still, Reported, SuccessIsOnChain, FailureIsFinal
<1>4. ASSUME NEW c PROVE Steady(c)
  <2>1. spent.txs <= spent'.txs
    BY TxsIs DEF Still
  <2> QED BY <1>1, <2>1 DEF Steady, Still
<1>5. ASSUME NEW c, TrueConfig(c) PROVE TrueConfig(c)'
  BY <1>4, <1>5, TrueStays DEF Steady
<1> QED BY <1>1, <1>3, <1>4, <1>5

\* The same of a step that disturbs nobody.
LEMMA OfflineKeeps ==
    ASSUME IInv, Offline
    PROVE  /\ OnTheWay' /\ Reported' /\ Heard' = Heard
           /\ \A p \in Terminals : \E d : d = jobs[p] /\ Steady(d)
           /\ \A c : (TrueConfig(c) => TrueConfig(c)') /\ (Steady(c))
BY StillKeeps DEF Offline

\* The types of what is stored.
LEMMA StoredKeeps ==
    ASSUME IInv, Still, files' \in Files, spent' \in Counts, NEW k \in Configs \cup {Torn}, TrueConfig(k), config' = k
    PROVE  Stored'
<1>1. TrueConfig(k)'
  BY StillKeeps
<1>2. TrueConfig(config)'
  BY <1>1 DEF TrueConfig
<1>3. Configs' = Configs /\ Torn' = Torn
  BY DEF Configs, Torn, DefaultConfig, Networks
<1>4. chain' \in Chains /\ chain'.seq <= spent'.txs
  <2>1. chain \in Chains /\ chain.seq \in Nat /\ chain.seq <= spent.txs
    BY DEF IInv, Stored, Chains
  <2> QED BY <2>1, TxsIs DEF Still
<1> QED BY <1>2, <1>3, <1>4 DEF Stored, Chains

\* They stay when only files that are not the configuration are written.
LEMMA StillStored ==
    ASSUME IInv, Still, files' \in Files, spent' \in Counts, config' = config
    PROVE  Stored'
<1>1. PICK k : k = config
  OBVIOUS
<1>2. k \in Configs \cup {Torn} /\ TrueConfig(k) /\ config' = k
  BY <1>1 DEF IInv, Stored, TrueConfig
<1> QED BY <1>2, StoredKeeps

\* The same of a step that disturbs nobody.
LEMMA StoredStays ==
    ASSUME IInv, Offline, files' \in Files, spent' \in Counts, config' = config
    PROVE  Stored'
BY StillStored DEF Offline

\* The step at the head was done: the next one, or the end of the command.
LEMMA ProceedKeeps ==
    ASSUME IInv, Offline, NEW p \in Terminals, ~Idle(p), NEW j \in Jobs, NEW z \in State, Ready(j, z)',
           Advance(p, j), j.tx = jobs[p].tx \/ j.tx.id = spent.txs + 1, Stored'
    PROVE  IInv'
<1>1. PICK c : c = Moved(j)
  OBVIOUS
<1>2. c \in Jobs /\ Started(c)' /\ c.tx.id \in {None, j.tx.id} /\ (c.steps = <<>> /\ ~spent'.disturbed => AllKept')
  BY <1>1, ReadyAgain DEF ReadyRuns
<1>3. jobs' = [jobs EXCEPT ![p] = c]
  BY <1>1 DEF Advance, Moved
<1>4. /\ OnTheWay' /\ Reported' /\ spent'.disturbed = spent.disturbed
      /\ \A q \in Terminals \ {p} : \E d : d = jobs[q] /\ Steady(d)
  BY OfflineKeeps DEF Offline, Still
<1>5. c.tx.id \in {None, jobs[p].tx.id, spent.txs + 1}
  BY <1>2
<1> QED BY <1>2, <1>3, <1>4, <1>5, StepKeeps

\* A command ends before its last step.
LEMMA EndsKeep ==
    ASSUME IInv, Offline, NEW p \in Terminals, ~Idle(p), End(p), config' = config, ~spent.disturbed => AllKept,
             Stored'
    PROVE  IInv'
<1>1. PICK c : c = Fresh
  OBVIOUS
<1>2. c \in Jobs /\ c.tx.id = None /\ c.steps = <<>> /\ Started(c)'
  BY <1>1, FreshIs DEF Started, Fresh, DefaultConfig
<1>3. jobs' = [jobs EXCEPT ![p] = c]
  BY <1>1 DEF End
<1>4. /\ OnTheWay' /\ Reported' /\ Heard' = Heard /\ spent'.disturbed = spent.disturbed
      /\ \A q \in Terminals \ {p} : \E d : d = jobs[q] /\ Steady(d)
  BY OfflineKeeps DEF Offline, Still
<1>5. ~spent'.disturbed => AllKept'
  BY <1>4 DEF AllKept, Torn, DefaultConfig
<1> QED BY <1>2, <1>3, <1>4, <1>5, StepKeeps

\* Terminal p runs the job c, which is in state x.
Stage(p, c, x) ==
    /\ c = jobs[p] /\ c \in Jobs /\ c.steps # <<>> /\ TrueConfig(c.cfg) /\ x \in State
    /\ Goes(c.steps, x) /\ Tracks(c, x) /\ (~spent.disturbed => Remembers(c, x))
\* And its first step leads to z.
Moves(p, c, x, z) ==
    /\ Stage(p, c, x) /\ z \in State /\ Head(c.steps) = Next1(p) /\ Head(c.steps) \in Steps
    /\ Leads(x, Head(c.steps), z) /\ Goes(Tail(c.steps), z)

\* Every job that runs is at a stage,
LEMMA StageIs == ASSUME IInv, NEW p \in Terminals, ~Idle(p) PROVE \E c, x : Stage(p, c, x)
<1>1. PICK c \in Jobs : c = jobs[p] /\ Started(c)
  BY JobIs
<1>2. c.steps # <<>>
  BY <1>1 DEF Idle
<1> QED BY <1>1, <1>2 DEF Started, Under, Stage

\* and its step leads to another.
LEMMA MovesIs ==
    ASSUME IInv, NEW p \in Terminals, ~Idle(p), Next1(p).do # "exists"
    PROVE  \E c, x, z : Moves(p, c, x, z)
<1>1. PICK c, x : Stage(p, c, x)
  BY StageIs
<1>2. Head(c.steps) = Next1(p)
  BY <1>1 DEF Stage, Next1
<1>3. ~(c.steps = Anchoring)
  BY <1>2, AnchoringIs
<1>4. PICK z \in State : Head(c.steps) \in Steps /\ Leads(x, Head(c.steps), z) /\ Goes(Tail(c.steps), z)
  BY <1>1, <1>3, GoesOn DEF Stage
<1> QED BY <1>1, <1>2, <1>4 DEF Moves

\* Nothing is lost when a command ends here.
LEMMA KeptAt ==
    ASSUME NEW p, NEW c, NEW x, Stage(p, c, x), x.at \in {"new", "free", "ready", "sent", "done"},
           x.at = "done" /\ x.op = "create" => ~c.queued
    PROVE  ~spent.disturbed => AllKept
<1> SUFFICES ASSUME ~spent.disturbed PROVE AllKept
  OBVIOUS
<1>1. Remembers(c, x) /\ Tracks(c, x)
  BY DEF Stage
<1>2. ASSUME NEW l \in Heard PROVE ~Pending(c, x, l)
  BY <1>1, <1>2 DEF Tracks, Pending, Heard
<1> QED BY <1>1, <1>2 DEF Remembers, AllKept

\* A look, a decision, or an edit of the copy of the configuration.
LEMMA LookReady ==
    ASSUME IInv, Offline, NEW p \in Terminals, NEW c, NEW x, NEW z,
             Stage(p, c, x), x \in {New, Free}, z \in {x, Free},
           config' = config, NEW j \in Jobs, j.steps # <<>>, Goes(Tail(j.steps), z), j.tx = c.tx, j.queued = c.queued,
           j.cfg.agreements = c.cfg.agreements, TrueConfig(j.cfg)
    PROVE  Ready(j, z)'
<1>1. /\ x \in State /\ Tracks(c, x)
      /\ (~spent.disturbed => Remembers(c, x))
  BY DEF Stage
<1>2. Tracks(c, z)
  BY <1>1, TwoStates DEF Tracks
<1>3. Tracks(j, z)
  BY <1>2, TracksSame DEF TracksOnce
<1>4. spent.txs \in Nat /\ spent'.txs \in Nat
  BY TxsIs DEF Offline, Still
<1>5. Tracks(j, z)' /\ TrueConfig(j.cfg)'
  BY <1>3, <1>4, OfflineKeeps, TracksStays
<1>6. ~spent.disturbed => Remembers(c, z)
  BY <1>1, TwoStates DEF Remembers, Pending
<1>7. ~spent.disturbed => Remembers(j, z)
  BY <1>6, TracksSame DEF RemembersOnce
<1>8. ~spent'.disturbed => Remembers(j, z)'
  <2>1. Heard' = Heard /\ spent'.disturbed = spent.disturbed
    BY OfflineKeeps DEF Offline, Still
  <2> QED BY <1>7, <2>1 DEF Remembers, Pending, Torn, DefaultConfig
<1> QED BY <1>5, <1>8 DEF Ready

\* The steps that only look.
Looking == Looks \cup {"need", "load", "keep"}

\* They stand where nothing is on its way.
LEMMA LooksAt ==
    ASSUME NEW p, NEW c, NEW x, NEW z, Moves(p, c, x, z), Next1(p).do \in Looking
    PROVE  x \in {New, Free} /\ z \in {x, Free}
BY DEF Moves, Leads, Prepares, Settles, Looking, Looks

\* A look goes on,
LEMMA LookGoes ==
    ASSUME IInv, Offline, NEW p \in Terminals, ~Idle(p), Next1(p).do \in Looking, config' = config, Stored',
             NEW j \in Jobs,
           Advance(p, j), NEW c, c = jobs[p], j.steps = c.steps, j.tx = c.tx, j.queued = c.queued,
           j.cfg.agreements = c.cfg.agreements, TrueConfig(j.cfg)
    PROVE  IInv'
<1>1. Next1(p).do # "exists"
  BY DEF Looking, Looks
<1>2. PICK d, x, z : Moves(p, d, x, z)
  BY <1>1, MovesIs
<1>3. d = c /\ Stage(p, c, x) /\ z \in State /\ Goes(Tail(c.steps), z) /\ c.steps # <<>>
  BY <1>2 DEF Moves, Stage
<1>4. x \in {New, Free} /\ z \in {x, Free}
  BY <1>2, LooksAt
<1>5. Ready(j, z)'
  BY <1>3, <1>4, LookReady
<1> QED BY <1>3, <1>5, ProceedKeeps

\* or ends the command.
LEMMA LookEnds ==
    ASSUME IInv, Offline, NEW p \in Terminals, ~Idle(p), Next1(p).do \in Looking, config' = config, Stored', End(p)
    PROVE  IInv'
<1>1. Next1(p).do # "exists"
  BY DEF Looking, Looks
<1>2. PICK c, x, z : Moves(p, c, x, z)
  BY <1>1, MovesIs
<1>3. Stage(p, c, x) /\ x \in {New, Free}
  BY <1>2, LooksAt DEF Moves
<1>4. ~spent.disturbed => AllKept
  BY <1>3, KeptAt, TwoStates
<1> QED BY <1>4, EndsKeep

\* The job as it is goes on.
LEMMA LookStays ==
    ASSUME IInv, Offline, NEW p \in Terminals, ~Idle(p), Next1(p).do \in Looking, config' = config, Stored',
           Advance(p, jobs[p])
    PROVE  IInv'
<1>1. PICK c \in Jobs : c = jobs[p] /\ Started(c)
  BY JobIs
<1>2. TrueConfig(c.cfg)
  BY <1>1 DEF Started, Under, Idle
<1>3. Advance(p, c)
  BY <1>1
<1> QED BY <1>1, <1>2, <1>3, LookGoes

\* What a step of a state file names.
LEMMA FileOf == ASSUME NEW s \in Steps, s.do \in {"load", "keep"} PROVE s.what \in {"vc", "doc", "report"}
BY DEF Steps, Looks, Submits
\* A command looks whether something is configured.
LEMMA CheckConfigKeeps == ASSUME IInv, NEW p \in Terminals, ~Idle(p), CheckConfig(p) PROVE IInv'
<1>1. Offline /\ config' = config /\ files' = files /\ spent' = spent
  BY DEF CheckConfig, ledger, disk, Offline, Still
<1>2. Stored'
  BY <1>1, StoredStays DEF IInv, Stored
<1>3. Next1(p).do \in Looking
  BY DEF CheckConfig, Looking
<1>4. Advance(p, jobs[p]) \/ End(p)
  BY DEF CheckConfig
<1> QED BY <1>1, <1>2, <1>3, <1>4, LookStays, LookEnds

\* A wallet has keys, a credential is valid, a query is answered, or not.
LEMMA DecideKeeps == ASSUME IInv, NEW p \in Terminals, ~Idle(p), Decide(p) PROVE IInv'
<1>1. Offline /\ config' = config /\ files' = files /\ spent' = spent
  BY DEF Decide, ledger, disk, Offline, Still
<1>2. Stored'
  BY <1>1, StoredStays DEF IInv, Stored
<1>3. Next1(p).do \in Looking
  BY DEF Decide, Looking, Looks
<1>4. Advance(p, jobs[p]) \/ End(p)
  BY DEF Decide
<1> QED BY <1>1, <1>2, <1>3, <1>4, LookStays, LookEnds

\* A state file is read.
LEMMA LoadStateKeeps == ASSUME IInv, NEW p \in Terminals, ~Idle(p), LoadState(p) PROVE IInv'
<1>1. Offline /\ config' = config /\ files' = files /\ spent' = spent
  BY DEF LoadState, ledger, disk, Offline, Still
<1>2. Stored'
  BY <1>1, StoredStays DEF IInv, Stored
<1>3. Next1(p).do \in Looking /\ Next1(p).do # "exists"
  BY DEF LoadState, Looking
<1>4. CASE End(p)
  BY <1>1, <1>2, <1>3, <1>4, LookEnds
<1>5. CASE Advance(p, jobs[p])
  BY <1>1, <1>2, <1>3, <1>5, LookStays
<1>6. CASE files[Next1(p).what] # None /\ Next1(p).what # "report"
        /\ Advance(p, [jobs[p] EXCEPT !.did = files[Next1(p).what]])
  <2>1. PICK c \in Jobs : c = jobs[p] /\ Started(c)
    BY JobIs
  <2>2. TrueConfig(c.cfg)
    BY <2>1 DEF Started, Under, Idle
  <2>3. PICK d : d = files[Next1(p).what]
    OBVIOUS
  <2>4. d \in Dids
    <3>1. PICK k, x, z : Moves(p, k, x, z)
      BY <1>3, MovesIs
    <3>2. Next1(p).what \in {"vc", "doc"}
      BY <3>1, <1>6, FileOf DEF Moves, LoadState
    <3>3. files \in Files
      BY DEF IInv, Stored
    <3> QED BY <1>6, <2>3, <3>2, <3>3 DEF Files
  <2>5. PICK j : j = [c EXCEPT !.did = d]
    OBVIOUS
  <2>6. j \in Jobs /\ j.steps = c.steps /\ j.tx = c.tx /\ j.queued = c.queued /\ j.cfg = c.cfg
    BY <2>4, <2>5 DEF Jobs
  <2>7. Advance(p, j)
    BY <1>6, <2>1, <2>3, <2>5
  <2> QED BY <1>1, <1>2, <1>3, <2>1, <2>2, <2>6, <2>7, LookGoes
<1> QED BY <1>4, <1>5, <1>6 DEF LoadState

\* A state file is written.
LEMMA SaveStateKeeps == ASSUME IInv, NEW p \in Terminals, ~Idle(p), SaveState(p) PROVE IInv'
<1>1. Offline /\ config' = config /\ spent' = spent
  BY DEF SaveState, ledger, disk, Offline, Still
<1>2. Next1(p).do \in Looking /\ Next1(p).do # "exists"
  BY DEF SaveState, Looking
<1>3. files' \in Files
  <2>1. PICK c \in Jobs : c = jobs[p]
    BY JobIs
  <2>2. PICK k, x, z : Moves(p, k, x, z)
    BY <1>2, MovesIs
  <2>3. PICK w : w = Next1(p).what
    OBVIOUS
  <2>4. w \in {"vc", "doc", "report"}
    BY <2>2, <2>3, FileOf DEF Moves, SaveState
  <2>5. PICK d : d = IF w = "report" THEN 1 ELSE c.did
    OBVIOUS
  <2>6. d \in Dids \cup {None} /\ files' = [files EXCEPT ![w] = d]
    <3>1. 1 \in Dids
      BY ClientAssumptions DEF Dids
    <3> QED BY <2>1, <2>3, <2>5, <3>1 DEF SaveState, Jobs
  <2>7. files \in Files
    BY DEF IInv, Stored
  <2>8. CASE w = "vc"
    BY <2>6, <2>7, <2>8 DEF Files
  <2>9. CASE w = "doc"
    BY <2>6, <2>7, <2>9 DEF Files
  <2>10. CASE w = "report"
    BY <2>6, <2>7, <2>10 DEF Files
  <2> QED BY <2>4, <2>8, <2>9, <2>10
<1>4. Stored'
  BY <1>1, <1>3, StoredStays DEF IInv, Stored
<1>5. Advance(p, jobs[p])
  BY DEF SaveState
<1> QED BY <1>1, <1>2, <1>4, <1>5, LookStays

\* The DIDs that have a key.
LEMMA DidsAre == WalletDID \in Dids /\ \A n \in 0..MaxDids : n < MaxDids => n + 2 \in Dids
BY ClientAssumptions DEF Dids, WalletDID

\* A DID is made, or that of the wallet is taken.
LEMMA CreateDIDKeeps == ASSUME IInv, NEW p \in Terminals, ~Idle(p), CreateDID(p) PROVE IInv'
<1>1. PICK m \in 0..MaxDids : m = spent.dids
  BY DEF IInv, Stored, Counts
<1>2. spent' = spent \/ (m < MaxDids /\ spent' = [spent EXCEPT !.dids = m + 1])
  BY <1>1 DEF CreateDID
<1>3. spent \in Counts /\ files \in Files
  BY DEF IInv, Stored
<1>4. spent' \in Counts /\ spent'.txs = spent.txs /\ spent'.disturbed = spent.disturbed
  <2>1. m < MaxDids => m + 1 \in 0..MaxDids
    BY ClientAssumptions
  <2> QED BY <1>2, <1>3, <2>1 DEF Counts
<1>5. Offline /\ config' = config /\ files' = files
  BY <1>4 DEF CreateDID, ledger, disk, Offline, Still
<1>6. Stored'
  BY <1>3, <1>4, <1>5, StoredStays
<1>7. Next1(p).do \in Looking
  BY DEF CreateDID, Looking, Looks
<1>8. CASE End(p)
  BY <1>5, <1>6, <1>7, <1>8, LookEnds
<1>9. ASSUME NEW d \in Dids, Advance(p, [jobs[p] EXCEPT !.did = d, !.cfg.did = d]) PROVE IInv'
  <2>1. PICK c \in Jobs : c = jobs[p] /\ Started(c)
    BY JobIs
  <2>2. TrueConfig(c.cfg)
    BY <2>1 DEF Started, Under, Idle
  <2>3. PICK k : k = [c.cfg EXCEPT !.did = d]
    OBVIOUS
  <2>4. c.cfg \in Configs
    BY <2>1 DEF Jobs
  <2>5. k \in Configs /\ k.agreements = c.cfg.agreements /\ k.last = c.cfg.last /\ k.contract = c.cfg.contract
    BY <2>3, <2>4 DEF Configs
  <2>6. PICK j : j = [c EXCEPT !.did = d, !.cfg = k]
    OBVIOUS
  <2>7. j \in Jobs /\ j.steps = c.steps /\ j.tx = c.tx /\ j.queued = c.queued /\ j.cfg = k
    BY <2>5, <2>6 DEF Jobs
  <2>8. j = [c EXCEPT !.did = d, !.cfg.did = d]
    BY <2>3, <2>6, <2>1 DEF Jobs
  <2>9. Advance(p, j)
    BY <1>9, <2>1, <2>8
  <2>10. TrueConfig(j.cfg)
    BY <2>2, <2>5, <2>7 DEF TrueConfig
  <2> QED BY <1>5, <1>6, <1>7, <2>1, <2>5, <2>7, <2>9, <2>10, LookGoes
<1>10. CASE m < MaxDids /\ Advance(p, [jobs[p] EXCEPT !.did = m + 2, !.cfg.did = m + 2])
  <2>1. PICK d \in Dids : d = m + 2
    BY <1>10, DidsAre
  <2> QED BY <1>9, <1>10, <2>1
<1>11. CASE Advance(p, [jobs[p] EXCEPT !.did = WalletDID, !.cfg.did = WalletDID])
  BY <1>9, <1>11, DidsAre
<1> QED BY <1>1, <1>8, <1>10, <1>11 DEF CreateDID
\* The copy of the configuration is edited.
LEMMA EditKeeps ==
    ASSUME IInv, NEW p \in Terminals, ~Idle(p), Offline, config' = config, Stored', Next1(p).do \in Looking,
           NEW c \in Jobs, c = jobs[p], NEW k \in Configs, k.agreements = c.cfg.agreements, k.last = c.cfg.last,
           Told("duplicate") = {} => k.contract \in Deployed \cup {c.cfg.contract}, Advance(p, [c EXCEPT !.cfg = k])
    PROVE  IInv'
<1>1. TrueConfig(c.cfg)
  <2>1. PICK d \in Jobs : d = jobs[p] /\ Started(d)
    BY JobIs
  <2> QED BY <2>1 DEF Started, Under, Idle
<1>2. TrueConfig(k)
  BY <1>1 DEF TrueConfig
<1>3. PICK j : j = [c EXCEPT !.cfg = k]
  OBVIOUS
<1>4. j \in Jobs /\ j.steps = c.steps /\ j.tx = c.tx /\ j.queued = c.queued /\ j.cfg = k
  BY <1>3 DEF Jobs
<1>5. Advance(p, j) /\ TrueConfig(j.cfg)
  BY <1>2, <1>3, <1>4
<1> QED BY <1>4, <1>5, LookGoes

\* The registry, the contract or the network is set.
LEMMA EditConfigKeeps == ASSUME IInv, NEW p \in Terminals, ~Idle(p), EditConfig(p) PROVE IInv'
<1>1. Offline /\ config' = config /\ files' = files /\ spent' = spent
  BY DEF EditConfig, ledger, disk, Offline, Still
<1>2. Stored'
  BY <1>1, StoredStays DEF IInv, Stored
<1>3. Next1(p).do \in Looking
  BY DEF EditConfig, Looking, Looks
<1>4. PICK c \in Jobs : c = jobs[p]
  BY JobIs
<1>5. PICK f \in Configs : f = c.cfg
  BY DEF Jobs
<1>6. CASE Advance(p, [jobs[p] EXCEPT !.cfg.registry = TRUE])
  <2>1. PICK k : k = [f EXCEPT !.registry = TRUE]
    OBVIOUS
  <2>2. k \in Configs /\ k.agreements = f.agreements /\ k.last = f.last /\ k.contract = f.contract
    BY <2>1 DEF Configs
  <2>3. Advance(p, [c EXCEPT !.cfg = k])
    BY <1>4, <1>5, <1>6, <2>1
  <2> QED BY <1>1, <1>2, <1>3, <1>4, <1>5, <2>2, <2>3, EditKeeps
<1>7. ASSUME NEW n \in 1..chain.contracts, Advance(p, [jobs[p] EXCEPT !.cfg.contract = n]) PROVE IInv'
  <2>1. PICK k : k = [f EXCEPT !.contract = n]
    OBVIOUS
  <2>2. n \in Nat /\ n \in Deployed
    <3>1. chain.contracts \in Nat
      BY ClientAssumptions DEF IInv, Stored, Chains, Contracts
    <3> QED BY <3>1 DEF Deployed
  <2>3. k \in Configs /\ k.agreements = f.agreements /\ k.last = f.last /\ k.contract = n
    BY <2>1, <2>2 DEF Configs
  <2>4. Advance(p, [c EXCEPT !.cfg = k])
    BY <1>4, <1>5, <1>7, <2>1
  <2> QED BY <1>1, <1>2, <1>3, <1>4, <1>5, <2>2, <2>3, <2>4, EditKeeps
<1>8. ASSUME NEW n \in Networks, Advance(p, [jobs[p] EXCEPT !.cfg.network = n]) PROVE IInv'
  <2>1. PICK k : k = [f EXCEPT !.network = n]
    OBVIOUS
  <2>2. k \in Configs /\ k.agreements = f.agreements /\ k.last = f.last /\ k.contract = f.contract
    BY <2>1 DEF Configs
  <2>3. Advance(p, [c EXCEPT !.cfg = k])
    BY <1>4, <1>5, <1>8, <2>1
  <2> QED BY <1>1, <1>2, <1>3, <1>4, <1>5, <2>2, <2>3, EditKeeps
<1> QED BY <1>6, <1>7, <1>8 DEF EditConfig, Networks

\* An empty file says nothing.
LEMMA TornIs == Torn \notin Configs /\ TrueConfig(Torn) /\ Torn.agreements = {}
<1>1. Torn.network = "torn" /\ Torn.agreements = {} /\ Torn.last = None /\ Torn.contract = None
  BY DEF Torn, DefaultConfig
<1>2. Torn \notin Configs
  BY <1>1 DEF Configs, Networks
<1> QED BY <1>1, <1>2 DEF TrueConfig

\* The configuration is emptied and written.
LEMMA SaveKeeps == ASSUME IInv, NEW p \in Terminals, ~Idle(p), Save(p) PROVE IInv'
<1>1. Offline /\ files' = files /\ spent' = spent /\ Next1(p).do # "exists"
  BY DEF Save, ledger, Offline, Still
<1>2. PICK c, x, z : Moves(p, c, x, z)
  BY <1>1, MovesIs
<1>3. /\ c = jobs[p] /\ c \in Jobs /\ c.steps # <<>> /\ TrueConfig(c.cfg) /\ Goes(Tail(c.steps), z) /\ Tracks(c, x)
      /\ z \in State /\ (~spent.disturbed => Remembers(c, x)) /\ Head(c.steps) = Next1(p)
  BY <1>2 DEF Moves, Stage
<1>4. TrueConfig(c.cfg)' /\ spent.txs \in Nat /\ spent'.txs \in Nat /\ Steady(c) /\ Heard' = Heard
  BY <1>1, <1>3, TxsIs, OfflineKeeps
<1>5. CASE Next1(p).do = "truncate"
  <2>1. x \in {New, Free, At("recorded", "none")} /\ z = At("torn", "none")
    BY <1>2, <1>5 DEF Moves, Leads, Prepares, Settles, Looks
  <2>2. z.at = "torn" /\ x.at \in {"new", "free", "recorded"}
    BY <2>1 DEF At, New, Free
  <2>3. Tracks(c, z)
    BY <1>3, <2>2 DEF Tracks
  <2>4. Tracks(c, z)'
    BY <1>4, <2>3, TracksStays
  <2>5. ~spent.disturbed => Remembers(c, z)'
    <3> SUFFICES ASSUME ~spent.disturbed PROVE Remembers(c, z)'
      OBVIOUS
    <3>1. Remembers(c, x)
      BY <1>3
    <3>2. \A l \in Heard : l.made \in c.cfg.agreements
      BY <2>2, <3>1 DEF Remembers, Pending
    <3> QED BY <1>4, <2>2, <3>2 DEF Remembers
  <2>6. Ready(c, z)'
    BY <1>1, <1>3, <1>4, <2>4, <2>5 DEF Ready
  <2>7. config' = Torn
    BY <1>5 DEF Save
  <2>8. PICK k : k = Torn
    OBVIOUS
  <2>9. k \in Configs \cup {Torn} /\ TrueConfig(k) /\ config' = k
    BY <2>7, <2>8, TornIs
  <2>10. Stored'
    BY <1>1, <2>9, StoredKeeps DEF IInv, Stored, Offline
  <2>11. Advance(p, c)
    BY <1>3 DEF Save
  <2> QED BY <1>1, <1>3, <2>6, <2>10, <2>11, ProceedKeeps
<1>6. CASE Next1(p).do = "write"
  <2>1. x = At("torn", "none") /\ z = Free
    BY <1>2, <1>6 DEF Moves, Leads, Prepares, Settles, Looks
  <2>2. z.at = "free" /\ x.at = "torn"
    BY <2>1 DEF At, Free
  <2>3. Tracks(c, z)
    BY <1>3, <2>2 DEF Tracks
  <2>4. Tracks(c, z)'
    BY <1>4, <2>3, TracksStays
  <2>5. PICK k : k = c.cfg
    OBVIOUS
  <2>6. k \in Configs /\ config' = k
    BY <1>3, <1>6, <2>5 DEF Save, Jobs
  <2>7. Stored'
    BY <1>1, <1>3, <2>5, <2>6, StoredKeeps DEF IInv, Stored, Offline
  <2>8. ~spent.disturbed => Remembers(c, z)'
    <3> SUFFICES ASSUME ~spent.disturbed PROVE Remembers(c, z)'
      OBVIOUS
    <3>1. \A l \in Heard : l.made \in k.agreements
      BY <1>3, <2>2, <2>5 DEF Remembers
    <3>2. k # Torn
      BY <2>6, TornIs
    <3>3. config' # Torn'
      BY <2>6, <3>2 DEF Torn, DefaultConfig
    <3> QED BY <1>4, <2>2, <2>5, <2>6, <3>1, <3>3 DEF Remembers
  <2>9. Ready(c, z)'
    BY <1>1, <1>3, <1>4, <2>4, <2>8 DEF Ready
  <2>10. Advance(p, c)
    BY <1>3 DEF Save
  <2> QED BY <1>1, <1>3, <2>7, <2>9, <2>10, ProceedKeeps
<1> QED BY <1>5, <1>6 DEF Save

\* What a failed write leaves to be done, but for the step itself.
Unwritten(p) == IF Next1(p).do = "truncate" THEN [jobs[p] EXCEPT !.steps = Tail(@)] ELSE jobs[p]

\* Where a command is after config.json was written, it is when that failed.
LEMMA SaveFailsAt ==
    ASSUME IInv, NEW p \in Terminals, ~Idle(p), NEW j, Next1(p).do \in {"truncate", "write"}, j = Unwritten(p)
    PROVE  /\ j \in Jobs /\ j.steps # <<>> /\ j.tx = jobs[p].tx /\ TrueConfig(j.cfg)
           /\ Goes(Tail(j.steps), Free) /\ Tracks(j, Free)
<1>1. PICK c, x, z : Moves(p, c, x, z)
  BY MovesIs
<1>2. /\ c = jobs[p] /\ c \in Jobs /\ c.steps # <<>> /\ TrueConfig(c.cfg) /\ Goes(Tail(c.steps), z) /\ Tracks(c, x)
      /\ z \in State /\ Leads(x, Next1(p), z)
  BY <1>1 DEF Moves, Stage
<1>3. CASE Next1(p).do = "write"
  <2>1. x = At("torn", "none") /\ z = Free
    BY <1>2, <1>3 DEF Leads, Prepares, Settles, Looks
  <2>2. z.at = "free" /\ x.at = "torn"
    BY <2>1 DEF At, Free
  <2>3. Tracks(c, z)
    BY <1>2, <2>2 DEF Tracks
  <2>4. j = c
    BY <1>2, <1>3 DEF Unwritten
  <2> QED BY <1>2, <2>1, <2>3, <2>4
<1>4. CASE Next1(p).do = "truncate"
  <2>1. x \in {New, Free, At("recorded", "none")} /\ z = At("torn", "none")
    BY <1>2, <1>4 DEF Leads, Prepares, Settles, Looks
  <2>2. z.at = "torn" /\ z # Free /\ z \notin Ends /\ x.at \in {"new", "free", "recorded"}
    BY <2>1 DEF At, New, Free, Ends
  <2>3. PICK s : s = Tail(c.steps)
    OBVIOUS
  <2>4. s # <<>> /\ Goes(s, z)
    BY <1>2, <2>2, <2>3, EmptyGoes
  <2>5. s \in Seq(AnySteps) /\ \E y \in State : Leads(z, Head(s), y) /\ Goes(Tail(s), y)
    BY <1>2, <2>2, <2>4, GoesOn
  <2>6. PICK y \in State : Leads(z, Head(s), y) /\ Goes(Tail(s), y)
    BY <2>5
  <2>7. y = Free
    BY <2>1, <2>6 DEF Leads, Prepares, Settles, At, New, Free
  <2>8. Tracks(c, Free)
    BY <1>2, <2>2, TwoStates DEF Tracks
  <2>9. j = [c EXCEPT !.steps = s]
    BY <1>2, <1>4, <2>3 DEF Unwritten
  <2>10. j \in Jobs /\ j.steps = s /\ j.tx = c.tx /\ j.queued = c.queued /\ j.cfg = c.cfg
    BY <1>2, <2>5, <2>9 DEF Jobs
  <2>11. Tracks(j, Free)
    BY <2>8, <2>10, TracksSame DEF TracksOnce
  <2> QED BY <1>2, <2>4, <2>6, <2>7, <2>10, <2>11
<1> QED BY <1>3, <1>4

\* The file cannot be written.
LEMMA SaveFailsKeeps == ASSUME IInv, NEW p \in Terminals, ~Idle(p), SaveFails(p) PROVE IInv'
<1>1. spent \in Counts
  BY DEF IInv, Stored
<1>2. PICK n \in Nat : n = spent.faults + 1
  BY <1>1 DEF Counts
<1>3. spent' = [spent EXCEPT !.faults = n, !.disturbed = TRUE]
  BY <1>2 DEF SaveFails
<1>4. spent' \in Counts /\ spent'.txs = spent.txs /\ spent'.disturbed
  BY <1>1, <1>3 DEF Counts
<1>5. Still /\ config' = config /\ files' = files
  BY <1>4 DEF SaveFails, ledger, disk, Still
<1>6. Stored'
  BY <1>4, <1>5, StillStored DEF IInv, Stored
<1>7. PICK j : j = Unwritten(p)
  OBVIOUS
<1>8. /\ j \in Jobs /\ j.steps # <<>> /\ j.tx = jobs[p].tx /\ TrueConfig(j.cfg)
      /\ Goes(Tail(j.steps), Free) /\ Tracks(j, Free)
  <2>1. Next1(p).do \in {"truncate", "write"}
    BY DEF SaveFails
  <2> QED BY <1>7, <2>1, SaveFailsAt
<1>9. /\ TrueConfig(j.cfg)' /\ Steady(j) /\ OnTheWay' /\ Reported'
      /\ \A q \in Terminals \ {p} : \E d : d = jobs[q] /\ Steady(d)
  BY <1>5, <1>8, StillKeeps
<1>10. Tracks(j, Free)'
  BY <1>4, <1>8, <1>9, TxsIs, TracksStays
<1>11. Ready(j, Free)'
  BY <1>4, <1>8, <1>9, <1>10 DEF Ready
<1>12. PICK c : c = Moved(j)
  OBVIOUS
<1>13. c \in Jobs /\ Started(c)' /\ c.tx.id \in {None, j.tx.id}
  BY <1>8, <1>11, <1>12, TwoStates, ReadyAgain DEF ReadyRuns
<1>14. jobs' = [jobs EXCEPT ![p] = c]
  BY <1>7, <1>12 DEF SaveFails, Advance, Moved, Unwritten
<1>15. c.tx.id \in {None, jobs[p].tx.id, spent.txs + 1}
  BY <1>8, <1>13
<1> QED BY <1>4, <1>6, <1>9, <1>13, <1>14, <1>15, StepKeeps

\* Before a credential is anchored: is its DID on record?
LEMMA ExistsKeeps == ASSUME IInv, NEW p \in Terminals, ~Idle(p), Exists(p) PROVE IInv'
<1>1. Offline /\ config' = config /\ files' = files /\ spent' = spent
  BY DEF Exists, ledger, disk, Offline, Still
<1>2. Stored'
  BY <1>1, StoredStays DEF IInv, Stored
<1>3. PICK c, x : Stage(p, c, x)
  BY StageIs
<1>4. x = Free /\ c.steps = Anchoring
  <2>1. Head(c.steps).do = "exists"
    BY <1>3 DEF Exists, Stage, Next1
  <2>2. Head(c.steps) \notin Steps
    BY <2>1 DEF Steps, Looks, Submits
  <2> QED BY <1>3, <2>2, GoesOn DEF Stage
<1>5. c = jobs[p] /\ c \in Jobs /\ TrueConfig(c.cfg)
  BY <1>3 DEF Stage
<1>6. CASE End(p)
  <2>1. ~spent.disturbed => AllKept
    BY <1>3, <1>4, KeptAt, TwoStates
  <2> QED BY <1>1, <1>2, <1>6, <2>1, EndsKeep
<1>7. CASE Advance(p, jobs[p])
  <2>1. c.steps # <<>> /\ Goes(Tail(c.steps), Free)
    BY <1>4, AnchoringIs, AnchoredGoes
  <2>2. Ready(c, Free)'
    BY <1>1, <1>3, <1>4, <1>5, <2>1, LookReady
  <2> QED BY <1>1, <1>2, <1>5, <1>7, <2>2, TwoStates, ProceedKeeps
<1>8. CASE Advance(p, SkipRegistration(jobs[p]))
  <2>1. PICK s \in Seq(AnySteps) : /\ s = SubSeq(Anchoring, 1, 1) \o SubSeq(Anchoring, 5, 7)
                                   /\ s # <<>> /\ Len(s) # 1 /\ Tail(s) = AnchorCredential(This)
    BY AnchoringIs
  <2>2. PICK j : j = [c EXCEPT !.steps = s]
    OBVIOUS
  <2>3. j \in Jobs /\ j.steps = s /\ j.tx = c.tx /\ j.queued = c.queued /\ j.cfg = c.cfg
    BY <1>5, <2>2 DEF Jobs
  <2>4. SkipRegistration(c) = j
    <3>1. Len(c.steps) = 7
      BY <1>4, AnchoringIs
    <3> QED BY <1>4, <2>1, <2>2, <3>1 DEF SkipRegistration
  <2>5. Advance(p, j)
    BY <1>5, <1>8, <2>4
  <2>6. Goes(Tail(j.steps), Free) /\ j.steps # <<>>
    BY <2>1, <2>3, AnchoredGoes
  <2>7. Ready(j, Free)'
    BY <1>1, <1>3, <1>4, <1>5, <2>3, <2>6, LookReady
  <2> QED BY <1>1, <1>2, <1>5, <2>3, <2>5, <2>7, TwoStates, ProceedKeeps
<1> QED BY <1>6, <1>7, <1>8 DEF Exists

\* Where a transaction is prepared.
LEMMA PreparesAt ==
    ASSUME NEW p, NEW c, NEW x, NEW z, Moves(p, c, x, z), Next1(p).do = "simulate"
    PROVE  /\ Next1(p).op \in Ops /\ Next1(p).on \in Dids \cup {None, This} /\ z = At("ready", Next1(p).op)
           /\ x.at \in {"new", "free", "done"} /\ (x.at = "done" => x.op # "create")
           /\ Next1(p).op = "create" => x.at = "new"
<1>1. Next1(p) \in Steps
  BY DEF Moves
<1>2. Next1(p).op \in Ops /\ Next1(p).on \in Dids \cup {None, This}
  BY <1>1 DEF Steps, Looks, Submits
<1>3. Prepares(x, Next1(p), z)
  BY DEF Moves, Leads, Settles, Looks
<1> QED BY <1>2, <1>3, TwoStates DEF Prepares

\* One more of what is counted.
LEMMA SpendIs ==
    ASSUME IInv, NEW what \in {"others", "faults", "txs"}, Spend(what)
    PROVE  /\ spent' \in Counts /\ spent'.disturbed = spent.disturbed
           /\ spent'.txs = IF what = "txs" THEN spent.txs + 1 ELSE spent.txs
<1>1. spent \in Counts
  BY DEF IInv, Stored
<1>2. PICK n \in Nat : n = spent[what] + 1
  <2>1. spent[what] \in Nat
    BY <1>1 DEF Counts
  <2> QED BY <2>1
<1>3. spent' = [spent EXCEPT ![what] = n]
  BY <1>2 DEF Spend
<1>4. CASE what = "others"
  BY <1>1, <1>3, <1>4 DEF Counts
<1>5. CASE what = "faults"
  BY <1>1, <1>3, <1>5 DEF Counts
<1>6. CASE what = "txs"
  BY <1>1, <1>2, <1>3, <1>6 DEF Counts
<1> QED BY <1>4, <1>5, <1>6

\* A call fails, or its answer is lost.
LEMMA CallFailsKeeps == ASSUME IInv, NEW p \in Terminals, ~Idle(p), CallFails(p) PROVE IInv'
<1>1. spent' \in Counts /\ spent'.disturbed = spent.disturbed /\ spent'.txs = spent.txs
  BY SpendIs DEF CallFails
<1>2. Offline /\ config' = config /\ files' = files
  BY <1>1 DEF CallFails, ledger, disk, Offline, Still
<1>3. Stored'
  BY <1>1, <1>2, StoredStays DEF IInv, Stored
<1>4. ~spent.disturbed => AllKept
  <2>1. CASE Next1(p).do = "simulate"
    <3>1. PICK c, x, z : Moves(p, c, x, z)
      BY <2>1, MovesIs
    <3>2. Stage(p, c, x) /\ x.at \in {"new", "free", "done"} /\ (x.at = "done" => x.op # "create")
      BY <2>1, <3>1, PreparesAt DEF Moves
    <3> QED BY <3>2, KeptAt
  <2>2. CASE Next1(p).do = "exists"
    <3>1. PICK c, x : Stage(p, c, x)
      BY StageIs
    <3>2. Head(c.steps).do = "exists"
      BY <2>2, <3>1 DEF Stage, Next1
    <3>3. Head(c.steps) \notin Steps
      BY <3>2 DEF Steps, Looks, Submits
    <3>4. x = Free
      BY <3>1, <3>3, GoesOn DEF Stage
    <3> QED BY <3>1, <3>4, KeptAt, TwoStates
  <2> QED BY <2>1, <2>2 DEF CallFails
<1>5. End(p)
  BY DEF CallFails
<1> QED BY <1>2, <1>3, <1>4, <1>5, EndsKeep
------------------------------------------------------------------------------
(* What is learnt of a transaction.                                           *)

\* The return value is decoded, unless a duplicate comes without.
LEMMA DecodeKeeps == ASSUME IInv, NEW p \in Terminals, ~Idle(p), Decode(p) PROVE IInv'
<1>1. Offline /\ config' = config /\ files' = files /\ spent' = spent /\ Next1(p).do = "decode"
  BY DEF Decode, ledger, disk, Offline, Still
<1>2. Stored'
  BY <1>1, StoredStays DEF IInv, Stored
<1>3. PICK c, x, z : Moves(p, c, x, z)
  BY <1>1, MovesIs
<1>4. /\ c = jobs[p] /\ c \in Jobs /\ c.steps # <<>> /\ TrueConfig(c.cfg) /\ Goes(Tail(c.steps), z) /\ Tracks(c, x)
      /\ z \in State /\ (~spent.disturbed => Remembers(c, x)) /\ Stage(p, c, x)
  BY <1>3 DEF Moves, Stage
<1>5. x.at = "done" /\ z = At("decoded", x.op)
  BY <1>1, <1>3 DEF Moves, Leads, Prepares, Settles, Looks
<1>6. z.at = "decoded" /\ z.op = x.op
  BY <1>5 DEF At
<1>7. CASE c.queued
  <2>1. Tracks(c, z)
    BY <1>4, <1>5, <1>6, <1>7 DEF Tracks
  <2>2. Tracks(c, z)' /\ TrueConfig(c.cfg)'
    BY <1>1, <1>4, <2>1, TxsIs, OfflineKeeps, TracksStays
  <2>3. ~spent.disturbed => Remembers(c, z)
    BY <1>4, <1>5, <1>6 DEF Remembers, Pending
  <2>4. ~spent.disturbed => Remembers(c, z)'
    <3>1. Heard' = Heard
      BY <1>1, OfflineKeeps
    <3> QED BY <1>1, <2>3, <3>1 DEF Remembers, Pending, Torn, DefaultConfig
  <2>5. Ready(c, z)'
    BY <1>1, <1>4, <2>2, <2>4 DEF Ready
  <2>6. Advance(p, c)
    BY <1>4, <1>7 DEF Decode, Decodable
  <2> QED BY <1>1, <1>2, <1>4, <2>5, <2>6, ProceedKeeps
<1>8. CASE ~c.queued
  <2>1. End(p)
    BY <1>4, <1>8 DEF Decode, Decodable
  <2>2. ~spent.disturbed => AllKept
    BY <1>4, <1>5, <1>8, KeptAt
  <2> QED BY <1>1, <1>2, <2>1, <2>2, EndsKeep
<1> QED BY <1>7, <1>8

\* What a transaction of this command made.
LEMMA ResultIs ==
    ASSUME IInv, NEW p, NEW c, NEW x, Stage(p, c, x), c.tx.id \in Landed, c.tx.id # None
    PROVE  \E l \in landed : /\ l.tx = c.tx.id /\ l.op = c.tx.op /\ Result(p) = l.made
                             /\ \A m \in landed : m.tx = c.tx.id => m = l
<1>1. PICK l \in landed : l.tx = c.tx.id
  BY DEF Landed
<1>2. \A m \in landed : m.tx = c.tx.id => m = l
  BY <1>1 DEF IInv, OnTheWay
<1>3. (CHOOSE m \in landed : m.tx = jobs[p].tx.id) = l
  BY <1>1, <1>2 DEF Stage
<1>4. l.op = c.tx.op
  BY <1>1 DEF Stage, Tracks, Sound
<1> QED BY <1>1, <1>2, <1>3, <1>4 DEF Result

\* The agreement is recorded in the copy of the configuration.
LEMMA RecordAgreementKeeps == ASSUME IInv, NEW p \in Terminals, ~Idle(p), RecordAgreement(p) PROVE IInv'
<1>1. Offline /\ config' = config /\ files' = files /\ spent' = spent /\ Next1(p).do = "record"
  BY DEF RecordAgreement, ledger, disk, Offline, Still
<1>2. Stored'
  BY <1>1, StoredStays DEF IInv, Stored
<1>3. PICK c, x, z : Moves(p, c, x, z)
  BY <1>1, MovesIs
<1>4. /\ c = jobs[p] /\ c \in Jobs /\ c.steps # <<>> /\ TrueConfig(c.cfg) /\ Goes(Tail(c.steps), z) /\ Tracks(c, x)
      /\ z \in State /\ (~spent.disturbed => Remembers(c, x)) /\ Stage(p, c, x)
  BY <1>3 DEF Moves, Stage
<1>5. x = At("decoded", "create") /\ z = At("recorded", "none")
  BY <1>1, <1>3 DEF Moves, Leads, Prepares, Settles, Looks
<1>6. x.at = "decoded" /\ x.op = "create" /\ z.at = "recorded"
  BY <1>5 DEF At
<1>7. c.tx.id \in Landed /\ c.tx.id # None /\ c.tx.op = "create"
  BY <1>4, <1>6 DEF Tracks
<1>8. PICK l \in landed : /\ l.tx = c.tx.id /\ l.op = "create" /\ Result(p) = l.made
                          /\ \A m \in landed : m.tx = c.tx.id => m = l
  BY <1>4, <1>7, ResultIs
<1>9. PICK r : r = l.made
  OBVIOUS
<1>10. r \in 1..MaxAgreements /\ r \in OwnAgreements
  BY <1>8, <1>9 DEF IInv, OnTheWay, OwnAgreements
<1>11. PICK f \in Configs : f = c.cfg
  BY <1>4 DEF Jobs
<1>12. PICK k : k = [f EXCEPT !.agreements = @ \cup {r}, !.last = r]
  OBVIOUS
<1>13. k \in Configs /\ k.agreements = f.agreements \cup {r} /\ k.last = r /\ k.contract = f.contract
  <2>1. r \in 0..MaxAgreements /\ f.agreements \cup {r} \in SUBSET (1..MaxAgreements)
    BY <1>10, <1>11 DEF Configs
  <2> QED BY <1>12, <2>1 DEF Configs
<1>14. PICK j : j = [c EXCEPT !.cfg = k]
  OBVIOUS
<1>15. j \in Jobs /\ j.steps = c.steps /\ j.tx = c.tx /\ j.queued = c.queued /\ j.cfg = k
  BY <1>4, <1>13, <1>14 DEF Jobs
<1>16. Advance(p, j)
  <2>1. j = [c EXCEPT !.cfg.agreements = @ \cup {r}, !.cfg.last = r]
    BY <1>4, <1>11, <1>12, <1>14 DEF Jobs, Configs
  <2> QED BY <1>4, <1>8, <1>9, <2>1 DEF RecordAgreement
<1>17. TrueConfig(k)
  BY <1>4, <1>10, <1>11, <1>13 DEF TrueConfig
<1>18. Tracks(c, z)
  BY <1>4, <1>6 DEF Tracks
<1>19. Tracks(j, z)
  BY <1>15, <1>18, TracksSame DEF TracksOnce
<1>20. Tracks(j, z)' /\ TrueConfig(j.cfg)'
  BY <1>1, <1>15, <1>17, <1>19, TxsIs, OfflineKeeps, TracksStays
<1>21. ~spent.disturbed => Remembers(j, z)
  <2> SUFFICES ASSUME ~spent.disturbed PROVE Remembers(j, z)
    OBVIOUS
  <2>1. Remembers(c, x)
    BY <1>4
  <2>2. config # Torn /\ config.agreements \subseteq j.cfg.agreements
    BY <1>6, <1>11, <1>13, <1>15, <2>1 DEF Remembers
  <2>3. ASSUME NEW m \in Heard PROVE m.made \in config.agreements \/ m.made \in j.cfg.agreements
    <3>1. CASE m.made \in config.agreements
      BY <3>1
    <3>2. CASE Pending(c, x, m)
      <4>1. m = l
        BY <3>2, <1>8 DEF Pending, Heard
      <4> QED BY <4>1, <1>9, <1>13, <1>15
    <3> QED BY <3>1, <3>2, <1>6, <2>1 DEF Remembers
  <2> QED BY <1>6, <2>2, <2>3 DEF Remembers
<1>22. ~spent'.disturbed => Remembers(j, z)'
  <2>1. Heard' = Heard
    BY <1>1, OfflineKeeps
  <2> QED BY <1>1, <1>21, <2>1 DEF Remembers, Pending, Torn, DefaultConfig
<1>23. Ready(j, z)'
  BY <1>4, <1>15, <1>20, <1>22 DEF Ready
<1> QED BY <1>1, <1>2, <1>4, <1>15, <1>16, <1>23, ProceedKeeps

\* The contract is used; without a return value it is the one that was foreseen.
LEMMA UseContractKeeps == ASSUME IInv, NEW p \in Terminals, ~Idle(p), UseContract(p) PROVE IInv'
<1>1. Offline /\ config' = config /\ files' = files /\ spent' = spent /\ Next1(p).do = "usecontract"
  BY DEF UseContract, ledger, disk, Offline, Still
<1>2. Stored'
  BY <1>1, StoredStays DEF IInv, Stored
<1>3. PICK c, x, z : Moves(p, c, x, z)
  BY <1>1, MovesIs
<1>4. /\ c = jobs[p] /\ c \in Jobs /\ c.steps # <<>> /\ TrueConfig(c.cfg) /\ Goes(Tail(c.steps), z) /\ Tracks(c, x)
      /\ z \in State /\ (~spent.disturbed => Remembers(c, x)) /\ Stage(p, c, x)
  BY <1>3 DEF Moves, Stage
<1>5. x = At("done", "deploy") /\ z = Free
  BY <1>1, <1>3 DEF Moves, Leads, Prepares, Settles, Looks
<1>6. x.at = "done" /\ x.op = "deploy" /\ z.at = "free"
  BY <1>5 DEF At, Free
<1>7. c.tx.id # None /\ c.tx.op = "deploy"
  BY <1>4, <1>6 DEF Tracks
<1>8. PICK n : n = IF Decodable(p) THEN Result(p) ELSE chain.contracts + 1
  OBVIOUS
<1>9. n \in Nat /\ (Told("duplicate") = {} => n \in Deployed)
  <2>1. chain.contracts \in Nat
    BY ClientAssumptions DEF IInv, Stored, Chains, Contracts
  <2>2. CASE c.queued
    <3>1. c.tx.id \in Landed
      BY <1>4, <1>6, <2>2 DEF Tracks
    <3>2. PICK l \in landed : l.tx = c.tx.id /\ l.op = "deploy" /\ Result(p) = l.made
      BY <1>4, <1>7, <3>1, ResultIs
    <3>3. l.made \in Deployed
      BY <3>2 DEF IInv, OnTheWay
    <3>4. l.made \in Nat
      BY <2>1, <3>3 DEF Deployed
    <3> QED BY <1>4, <1>8, <2>2, <3>2, <3>3, <3>4 DEF Decodable
  <2>3. CASE ~c.queued
    <3>1. Told("duplicate") # {}
      BY <1>4, <2>3 DEF Tracks
    <3> QED BY <1>4, <1>8, <2>1, <2>3, <3>1 DEF Decodable
  <2> QED BY <2>2, <2>3
<1>10. PICK f \in Configs : f = c.cfg
  BY <1>4 DEF Jobs
<1>11. PICK k : k = [f EXCEPT !.contract = n]
  OBVIOUS
<1>12. k \in Configs /\ k.agreements = f.agreements /\ k.last = f.last /\ k.contract = n
  BY <1>9, <1>11 DEF Configs
<1>13. PICK j : j = [c EXCEPT !.cfg = k]
  OBVIOUS
<1>14. j \in Jobs /\ j.steps = c.steps /\ j.tx = c.tx /\ j.queued = c.queued /\ j.cfg = k
  BY <1>4, <1>12, <1>13 DEF Jobs
<1>15. Advance(p, j)
  BY <1>4, <1>8, <1>10, <1>11, <1>13 DEF UseContract
<1>16. TrueConfig(k)
  BY <1>4, <1>9, <1>10, <1>12 DEF TrueConfig
<1>17. Tracks(c, z)
  BY <1>4, <1>6 DEF Tracks
<1>18. Tracks(j, z)
  BY <1>14, <1>17, TracksSame DEF TracksOnce
<1>19. Tracks(j, z)' /\ TrueConfig(j.cfg)'
  BY <1>1, <1>14, <1>16, <1>18, TxsIs, OfflineKeeps, TracksStays
<1>20. ~spent.disturbed => Remembers(j, z)
  BY <1>4, <1>6, <1>10, <1>12, <1>14 DEF Remembers, Pending
<1>21. ~spent'.disturbed => Remembers(j, z)'
  <2>1. Heard' = Heard
    BY <1>1, OfflineKeeps
  <2> QED BY <1>1, <1>20, <2>1 DEF Remembers, Pending, Torn, DefaultConfig
<1>22. Ready(j, z)'
  BY <1>4, <1>14, <1>19, <1>21 DEF Ready
<1> QED BY <1>1, <1>2, <1>4, <1>14, <1>15, <1>22, ProceedKeeps
------------------------------------------------------------------------------
(* Transactions.                                                              *)

\* The transaction that a terminal prepares is a new one.
LEMMA TxIs ==
    ASSUME IInv, NEW p \in Terminals, NEW c \in Jobs, c = jobs[p], Next1(p).op \in Ops,
           Next1(p).on \in Dids \cup {None, This}
    PROVE  /\ Tx(p) \in Txs /\ Tx(p).id = spent.txs + 1 /\ Tx(p).op = Next1(p).op
           /\ Tx(p).seq <= Tx(p).id /\ Unsent(Tx(p).id)
           /\ \A u \in flying : u.id # Tx(p).id
           /\ \A l \in landed : l.tx # Tx(p).id
<1>1. PICK n \in Nat, m \in Nat : n = spent.txs /\ m = chain.seq /\ m <= n
  BY DEF IInv, Stored, Chains, Counts
<1>2. PICK on : on = IF Next1(p).on = This THEN c.did ELSE Next1(p).on
  OBVIOUS
<1>3. on \in Dids \cup {None}
  BY <1>2 DEF Jobs
<1>4. PICK f \in Configs : f = c.cfg
  BY DEF Jobs
<1>5. PICK b : b = IF Next1(p).op = "create" /\ f.contract \in Contracts THEN chain.count[f.contract] ELSE 0
  OBVIOUS
<1>6. b \in Nat
  BY <1>5, ClientAssumptions DEF IInv, Stored, Chains
<1>7. f.contract \in Nat /\ f.last \in Nat
  BY <1>4, ClientAssumptions DEF Configs
<1>8. Tx(p) = [id |-> n + 1, op |-> Next1(p).op, on |-> on, contract |-> f.contract, agreement |-> f.last, seq |-> m + 1,
               base |-> b]
  BY <1>1, <1>2, <1>4, <1>5 DEF Tx
<1>9. n + 1 \in Nat \ {0} /\ m + 1 \in Nat /\ m + 1 <= n + 1
  BY <1>1
<1>10. Tx(p) \in Txs /\ Tx(p).id = n + 1 /\ Tx(p).op = Next1(p).op /\ Tx(p).seq = m + 1
  BY <1>3, <1>6, <1>7, <1>8, <1>9 DEF Txs
<1>11. n + 1 \notin Ids \cup {None}
  BY <1>1 DEF Ids, None
<1>12. n + 1 \notin Flown /\ n + 1 \notin Landed /\ n + 1 \notin failed /\ n + 1 \notin Answered
  BY <1>11 DEF IInv, OnTheWay, Reported, Flown, Landed
<1>13. (\A u \in flying : u.id # n + 1) /\ (\A l \in landed : l.tx # n + 1)
  BY <1>12 DEF Flown, Landed
<1> QED BY <1>1, <1>9, <1>10, <1>12, <1>13 DEF Unsent

\* The account is loaded, and the call simulated.
LEMMA SimulateKeeps == ASSUME IInv, NEW p \in Terminals, ~Idle(p), Simulate(p) PROVE IInv'
<1>1. spent' \in Counts /\ spent'.disturbed = spent.disturbed /\ spent'.txs = spent.txs + 1
        /\ Next1(p).do = "simulate"
  BY SpendIs DEF Simulate
<1>2. Offline /\ config' = config /\ files' = files
  BY <1>1 DEF Simulate, ledger, disk, Offline, Still
<1>3. Stored'
  BY <1>1, <1>2, StoredStays DEF IInv, Stored
<1>4. PICK c, x, z : Moves(p, c, x, z)
  BY <1>1, MovesIs
<1>5. /\ c = jobs[p] /\ c \in Jobs /\ c.steps # <<>> /\ TrueConfig(c.cfg) /\ Goes(Tail(c.steps), z) /\ Tracks(c, x)
      /\ z \in State /\ (~spent.disturbed => Remembers(c, x)) /\ Stage(p, c, x)
  BY <1>4 DEF Moves, Stage
<1>6. /\ Next1(p).op \in Ops /\ Next1(p).on \in Dids \cup {None, This} /\ z = At("ready", Next1(p).op)
      /\ x.at \in {"new", "free", "done"} /\ (x.at = "done" => x.op # "create")
      /\ Next1(p).op = "create" => x.at = "new"
  BY <1>1, <1>4, PreparesAt
<1>7. CASE End(p)
  <2>1. ~spent.disturbed => AllKept
    BY <1>5, <1>6, KeptAt
  <2> QED BY <1>2, <1>3, <1>7, <2>1, EndsKeep
<1>8. CASE Advance(p, [jobs[p] EXCEPT !.tx = Tx(p), !.queued = TRUE])
  <2>1. PICK t : t = Tx(p)
    OBVIOUS
  <2>2. /\ t \in Txs /\ t.id = spent.txs + 1 /\ t.op = Next1(p).op /\ t.seq <= t.id /\ Unsent(t.id)
        /\ (\A u \in flying : u.id # t.id) /\ \A l \in landed : l.tx # t.id
    BY <1>5, <1>6, <2>1, TxIs
  <2>3. PICK j : j = [c EXCEPT !.tx = t, !.queued = TRUE]
    OBVIOUS
  <2>4. j \in Jobs /\ j.steps = c.steps /\ j.tx = t /\ j.queued /\ j.cfg = c.cfg
    BY <1>5, <2>2, <2>3 DEF Jobs
  <2>5. Sound(t)'
    <3>1. t.id \in 1..spent'.txs
      BY <1>1, <2>2, TxsIs
    <3> QED BY <1>2, <2>2, <3>1 DEF Sound, Ids, Offline, Still
  <2>6. Unsent(t.id)'
    BY <1>2, <2>2 DEF Unsent, Landed, Flown, Answered, Offline, Still
  <2>7. z.at = "ready" /\ z.op = t.op
    BY <1>6, <2>2 DEF At
  <2>8. t.id # None
    BY <2>2 DEF Txs, None
  <2>11. Tracks(j, z)'
    BY <2>4, <2>5, <2>6, <2>7, <2>8 DEF Tracks
  <2>12. TrueConfig(c.cfg)' /\ Heard' = Heard
    BY <1>2, <1>5, OfflineKeeps
  <2>13. ~spent'.disturbed => Remembers(j, z)'
    <3> SUFFICES ASSUME ~spent'.disturbed PROVE Remembers(j, z)'
      OBVIOUS
    <3>1. Remembers(c, x)
      BY <1>1, <1>5
    <3> QED BY <1>2, <1>6, <2>4, <2>7, <2>12, <3>1 DEF Remembers, Pending, Torn, DefaultConfig
  <2>14. Ready(j, z)'
    BY <1>5, <2>4, <2>11, <2>12, <2>13 DEF Ready
  <2>15. Advance(p, j)
    BY <1>5, <1>8, <2>1, <2>3
  <2> QED BY <1>2, <1>3, <1>5, <2>2, <2>4, <2>14, <2>15, ProceedKeeps
<1> QED BY <1>7, <1>8 DEF Simulate

\* What a terminal is told of its transaction.
Tells(id, r) == told' = told \cup {[tx |-> id, result |-> r]}
\* Terminal p, with the job c, sends its transaction or hears of it.
Speaks(p, c) ==
    /\ c = jobs[p] /\ c \in Jobs /\ c.tx.id # None /\ Sound(c.tx)
    /\ chain' = chain /\ landed' = landed /\ failed' = failed /\ config' = config /\ files' = files
    /\ spent' \in Counts /\ spent'.txs = spent.txs /\ spent'.disturbed = spent.disturbed
    /\ flying' = flying \/ (flying' = flying \cup {c.tx} /\ Unsent(c.tx.id))
    /\ \/ told' = told
       \/ \E r \in {"unknown", "duplicate"} : Tells(c.tx.id, r)
       \/ Tells(c.tx.id, "success") /\ c.tx.id \in Landed
       \/ \E r \in {"rejected", "failed"} : Tells(c.tx.id, r) /\ c.tx.id \notin Landed \cup Flown /\ flying' = flying

\* The answers after one more.
LEMMA ToldIs ==
    ASSUME NEW id, NEW r, Tells(id, r)
    PROVE  /\ told \subseteq told' /\ Answered' = Answered \cup {id}
           /\ \A w : Told(w)' = IF w = r THEN Told(w) \cup {id} ELSE Told(w)
<1>1. PICK u : u = [tx |-> id, result |-> r]
  OBVIOUS
<1>2. told' = told \cup {u} /\ u.tx = id /\ u.result = r
  BY <1>1 DEF Tells
<1>3. Answered' = Answered \cup {id}
  BY <1>2 DEF Answered
<1>4. ASSUME NEW w PROVE Told(w)' = IF w = r THEN Told(w) \cup {id} ELSE Told(w)
  BY <1>2 DEF Told
<1> QED BY <1>2, <1>3, <1>4

\* Whatever is sent and told, each transaction is in one place, and the answers are so.
LEMMA SpeaksKeeps ==
    ASSUME IInv, NEW p \in Terminals, NEW c, Speaks(p, c)
    PROVE  /\ Stored' /\ OnTheWay' /\ Reported' /\ told \subseteq told'
           /\ \A k : TrueConfig(k) => TrueConfig(k)'
           /\ \A q \in Terminals \ {p} : \E d : d = jobs[q] /\ Steady(d)
<1>1. PICK t : t = c.tx
  OBVIOUS
<1>2. t \in Txs /\ t.id \in Ids /\ t.seq <= t.id
  BY <1>1 DEF Speaks, Sound
<1>3. /\ Landed' = Landed /\ Ids' = Ids /\ OwnAgreements' = OwnAgreements /\ Deployed' = Deployed
      /\ flying \subseteq flying' /\ flying' \subseteq flying \cup {t} /\ Flown' \subseteq Flown \cup {t.id}
  BY <1>1 DEF Speaks, Landed, Ids, OwnAgreements, Deployed, Flown
<1>4. told \subseteq told' /\ \A u \in told' : u \in told \/ u.tx = t.id
  BY <1>1 DEF Speaks, Tells
<1>5. ASSUME NEW k, TrueConfig(k) PROVE TrueConfig(k)'
  BY <1>3, <1>4, <1>5, TrueStays
<1>6. Stored'
  <2>1. PICK k : k = config
    OBVIOUS
  <2>2. TrueConfig(k)'
    BY <1>5, <2>1 DEF IInv, Stored
  <2>3. TrueConfig(config)'
    BY <2>1, <2>2 DEF TrueConfig, Speaks
  <2>4. Configs' = Configs /\ Torn' = Torn
    BY DEF Configs, Torn, DefaultConfig, Networks
  <2> QED BY <2>3, <2>4 DEF IInv, Stored, Speaks
<1>7. OnTheWay'
  <2>1. CASE flying' = flying
    BY <1>3, <2>1 DEF IInv, OnTheWay, Speaks, Flown
  <2>2. CASE flying' = flying \cup {t} /\ Unsent(t.id)
    <3>1. t.id \notin Landed \cup failed \cup Flown /\ Flown' = Flown \cup {t.id}
      BY <2>2 DEF Unsent, Flown
    <3>2. Flown' \cap (Landed \cup failed) = {}
      BY <3>1 DEF IInv, OnTheWay
    <3>3. \A u \in flying : u.id # t.id
      BY <3>1 DEF Flown
    <3>4. \A u, v \in flying' : u.id = v.id => u = v
      BY <2>2, <3>3 DEF IInv, OnTheWay
    <3> QED BY <1>2, <1>3, <2>2, <3>2, <3>4 DEF IInv, OnTheWay, Speaks
  <2> QED BY <1>1, <2>1, <2>2 DEF Speaks
<1>8. Reported'
  <2>1. Unsent(t.id) => t.id \notin Told("rejected") \cup Told("failed")
    BY DEF Unsent, Told, Answered
  <2>2. CASE told' = told
    <3>1. Answered' = Answered /\ \A w : Told(w)' = Told(w)
      BY <2>2 DEF Answered, Told
    <3>2. Flown' \cap (Told("rejected") \cup Told("failed")) = {}
      BY <1>1, <1>3, <2>1 DEF IInv, Reported, Speaks, Flown
    <3> QED BY <1>3, <3>1, <3>2 DEF IInv, Reported, SuccessIsOnChain, FailureIsFinal, Speaks
  <2>3. ASSUME NEW r, Tells(t.id, r) PROVE Answered' \subseteq Ids' /\ \A w : Told(w)' = IF w = r THEN Told(w)
          \cup {t.id} ELSE Told(w)
    BY <1>2, <1>3, <2>3, ToldIs DEF IInv, Reported
  <2>4. Flown' \cap (Told("rejected") \cup Told("failed")) = {}
    BY <1>1, <1>3, <2>1 DEF IInv, Reported, Speaks, Flown
  <2>5. ASSUME NEW r \in {"unknown", "duplicate"}, Tells(t.id, r) PROVE Reported'
    <3>1. Told("success")' = Told("success") /\ Told("rejected")' = Told("rejected")
            /\ Told("failed")' = Told("failed")
      BY <2>3, <2>5
    <3> QED BY <1>3, <2>3, <2>4, <2>5, <3>1 DEF IInv, Reported, SuccessIsOnChain, FailureIsFinal
  <2>6. CASE Tells(t.id, "success") /\ t.id \in Landed
    <3>1. /\ Told("success")' = Told("success") \cup {t.id} /\ Told("rejected")' = Told("rejected")
          /\ Told("failed")' = Told("failed") /\ Answered' \subseteq Ids'
      BY <2>3, <2>6
    <3> QED BY <1>3, <2>4, <2>6, <3>1 DEF IInv, Reported, SuccessIsOnChain, FailureIsFinal
  <2>7. ASSUME NEW r \in {"rejected", "failed"}, Tells(t.id, r), t.id \notin Landed \cup Flown, flying' = flying
          PROVE Reported'
    <3>1. /\ Told("success")' = Told("success") /\ Answered' \subseteq Ids' /\ Flown' = Flown
          /\ (Told("rejected") \cup Told("failed"))' = (Told("rejected") \cup Told("failed")) \cup {t.id}
      BY <2>3, <2>7 DEF Flown
    <3> QED BY <1>3, <2>7, <3>1 DEF IInv, Reported, SuccessIsOnChain, FailureIsFinal
  <2> QED BY <1>1, <2>2, <2>5, <2>6, <2>7 DEF Speaks
<1>9. ASSUME NEW q \in Terminals \ {p} PROVE \E d : d = jobs[q] /\ Steady(d)
  <2>1. PICK d : d = jobs[q]
    OBVIOUS
  <2>2. d.tx.id # None => d.tx.id # t.id
    BY <1>1, <2>1 DEF IInv, Distinct, Speaks
  <2>3. spent.txs <= spent'.txs
    BY TxsIs DEF Speaks
  <2>4. landed' = landed /\ failed' = failed
    BY DEF Speaks
  <2> QED BY <1>3, <1>4, <2>1, <2>2, <2>3, <2>4 DEF Steady
<1> QED BY <1>4, <1>5, <1>6, <1>7, <1>8, <1>9

\* What was heard of stays so, but for a success.
LEMMA HeardIs ==
    ASSUME NEW p, NEW c, Speaks(p, c)
    PROVE  /\ \A l \in Heard' : l \in Heard \/ (l \in landed /\ l.op = "create" /\ l.tx = c.tx.id
               /\ Tells(c.tx.id, "success"))
           /\ told' = told => Heard' = Heard
           /\ \A r \in {"unknown", "duplicate", "rejected", "failed"} : Tells(c.tx.id, r) => Heard' = Heard
<1>1. ASSUME NEW r, Tells(c.tx.id, r) PROVE \A w : Told(w)' = IF w = r THEN Told(w) \cup {c.tx.id} ELSE Told(w)
  BY <1>1, ToldIs
<1>2. landed' = landed
  BY DEF Speaks
<1>3. ASSUME told' = told PROVE Heard' = Heard
  BY <1>2, <1>3 DEF Heard, Told
<1>4. ASSUME Tells(c.tx.id, "success")
      PROVE  \A l \in Heard' : l \in Heard \/ (l \in landed /\ l.op = "create" /\ l.tx = c.tx.id)
  <2>1. Told("success")' = Told("success") \cup {c.tx.id}
    BY <1>1, <1>4
  <2> QED BY <1>2, <1>4, <2>1 DEF Heard
<1>5. ASSUME NEW r \in {"unknown", "duplicate", "rejected", "failed"}, Tells(c.tx.id, r) PROVE Heard' = Heard
  <2>1. Told("success")' = Told("success")
    BY <1>1, <1>5
  <2> QED BY <1>2, <2>1 DEF Heard
<1> QED BY <1>3, <1>4, <1>5 DEF Speaks

\* A terminal that has spoken goes on,
LEMMA SpokenGoes ==
    ASSUME IInv, NEW p \in Terminals, ~Idle(p), NEW c, Speaks(p, c), NEW j \in Jobs, NEW z \in State, Ready(j, z)',
           Advance(p, j), j.tx = c.tx
    PROVE  IInv'
<1>1. PICK d : d = Moved(j)
  OBVIOUS
<1>2. d \in Jobs /\ Started(d)' /\ d.tx.id \in {None, j.tx.id} /\ (d.steps = <<>> /\ ~spent'.disturbed => AllKept')
  BY <1>1, ReadyAgain DEF ReadyRuns
<1>3. jobs' = [jobs EXCEPT ![p] = d]
  BY <1>1 DEF Advance, Moved
<1>4. d.tx.id \in {None, jobs[p].tx.id, spent.txs + 1} /\ spent'.disturbed = spent.disturbed
  BY <1>2 DEF Speaks
<1>5. Stored' /\ OnTheWay' /\ Reported' /\ \A q \in Terminals \ {p} : \E e : e = jobs[q] /\ Steady(e)
  BY SpeaksKeeps
<1> QED BY <1>2, <1>3, <1>4, <1>5, StepKeeps

\* or its command ends.
LEMMA SpokenEnds ==
    ASSUME IInv, NEW p \in Terminals, ~Idle(p), NEW c, Speaks(p, c), End(p), Heard' = Heard,
           ~spent.disturbed => AllKept
    PROVE  IInv'
<1>1. PICK d : d = Fresh
  OBVIOUS
<1>2. d \in Jobs /\ d.tx.id = None /\ d.steps = <<>> /\ Started(d)'
  BY <1>1, FreshIs DEF Started, Fresh, DefaultConfig
<1>3. jobs' = [jobs EXCEPT ![p] = d]
  BY <1>1 DEF End
<1>4. config' = config /\ spent'.disturbed = spent.disturbed
  BY DEF Speaks
<1>5. ~spent'.disturbed => AllKept'
  BY <1>4 DEF AllKept, Torn, DefaultConfig
<1>6. Stored' /\ OnTheWay' /\ Reported' /\ \A q \in Terminals \ {p} : \E e : e = jobs[q] /\ Steady(e)
  BY SpeaksKeeps
<1> QED BY <1>2, <1>3, <1>4, <1>5, <1>6, StepKeeps

\* After a transaction was sent it is polled for.
LEMMA SentPolls ==
    ASSUME NEW s \in Seq(AnySteps), NEW z \in State, z.at = "sent", Goes(s, z)
    PROVE  s # <<>> /\ At("done", z.op) \in State /\ Goes(Tail(s), At("done", z.op))
<1>1. s # <<>>
  <2> SUFFICES ASSUME s = <<>> PROVE FALSE
    OBVIOUS
  <2>1. z \in Ends
    BY EmptyGoes
  <2> QED BY <2>1, TwoStates DEF Ends
<1>2. z # Free
  BY TwoStates
<1>3. PICK w \in State : Leads(z, Head(s), w) /\ Goes(Tail(s), w)
  BY <1>1, <1>2, GoesOn
<1>4. w = At("done", z.op)
  BY <1>3, TwoStates, StateOf DEF Leads, Prepares, Settles, At
<1> QED BY <1>1, <1>3, <1>4

\* A transaction is sent.
LEMMA SendTransactionKeeps == ASSUME IInv, NEW p \in Terminals, ~Idle(p), SendTransaction(p) PROVE IInv'
<1>1. Next1(p).do = "send"
  BY DEF SendTransaction
<1>2. PICK c, x, z : Moves(p, c, x, z)
  BY <1>1, MovesIs
<1>3. /\ c = jobs[p] /\ c \in Jobs /\ c.steps # <<>> /\ TrueConfig(c.cfg) /\ Goes(Tail(c.steps), z) /\ Tracks(c, x)
      /\ z \in State /\ (~spent.disturbed => Remembers(c, x)) /\ Stage(p, c, x)
  BY <1>2 DEF Moves, Stage
<1>4. x.at = "ready" /\ z = At("sent", x.op)
  BY <1>1, <1>2 DEF Moves, Leads, Prepares, Settles, Looks
<1>5. z.at = "sent" /\ z.op = x.op
  BY <1>4 DEF At
<1>6. PICK t : t = c.tx
  OBVIOUS
<1>7. t.id # None /\ t.op = x.op /\ Sound(t) /\ Unsent(t.id)
  BY <1>3, <1>4, <1>6 DEF Tracks
<1>8. chain' = chain /\ landed' = landed /\ failed' = failed /\ config' = config /\ files' = files
  BY DEF SendTransaction, disk
<1>9. spent \in Counts
  BY DEF IInv, Stored
<1>10. ~spent.disturbed => AllKept
  BY <1>3, <1>4, KeptAt
\* The job after it was sent.
<1>11. ASSUME Speaks(p, c), Heard' = Heard, Advance(p, jobs[p]) PROVE IInv'
  <2>1. Sound(c.tx)'
    <3>1. \A u \in flying' : u.id = t.id => u.op = t.op
      BY <1>6, <1>7, <1>11 DEF Sound, Speaks
    <3>2. Ids' = Ids
      BY <1>11 DEF Speaks, Ids
    <3> QED BY <1>6, <1>7, <1>8, <3>1, <3>2 DEF Sound
  <2>2. TrueConfig(c.cfg)' /\ told \subseteq told'
    BY <1>3, <1>11, SpeaksKeeps
  <2>3. Tracks(c, z)'
    BY <1>3, <1>4, <1>5, <1>6, <1>7, <2>1, <2>2 DEF Tracks, Told
  <2>4. ~spent'.disturbed => Remembers(c, z)'
    <3> SUFFICES ASSUME ~spent'.disturbed PROVE Remembers(c, z)'
      OBVIOUS
    <3>1. Remembers(c, x)
      BY <1>3, <1>11 DEF Speaks
    <3> QED BY <1>4, <1>5, <1>8, <1>11, <3>1 DEF Remembers, Pending, Torn, DefaultConfig
  <2>5. Ready(c, z)'
    BY <1>3, <2>2, <2>3, <2>4 DEF Ready
  <2> QED BY <1>3, <1>11, <2>5, SpokenGoes
\* The server takes it.
<1>12. CASE /\ flying' = flying \cup {t}
            /\ \/ Advance(p, jobs[p]) /\ UNCHANGED <<told, spent>>
               \/ /\ May("faults") /\ Spend("faults")
                  /\ \/ Tell(p, "unknown") /\ End(p)
                     \/ Tell(p, "duplicate") /\ Advance(p, [jobs[p] EXCEPT !.steps = Tail(@), !.queued = FALSE])
  <2>1. CASE Advance(p, jobs[p]) /\ UNCHANGED <<told, spent>>
    <3>1. Speaks(p, c)
      BY <1>3, <1>6, <1>7, <1>8, <1>9, <1>12, <2>1 DEF Speaks
    <3> QED BY <1>11, <2>1, <3>1, HeardIs
  <2>2. CASE Spend("faults")
    <3>1. spent' \in Counts /\ spent'.disturbed = spent.disturbed /\ spent'.txs = spent.txs
      BY <2>2, SpendIs
    <3>2. CASE Tell(p, "unknown") /\ End(p)
      <4>1. Tells(t.id, "unknown")
        BY <1>3, <1>6, <3>2 DEF Tell, Tells
      <4>2. Speaks(p, c)
        BY <1>3, <1>6, <1>7, <1>8, <1>12, <3>1, <4>1 DEF Speaks
      <4>3. Heard' = Heard
        BY <1>6, <4>1, <4>2, HeardIs
      <4> QED BY <1>10, <3>2, <4>2, <4>3, SpokenEnds
    <3>3. CASE Tell(p, "duplicate") /\ Advance(p, [jobs[p] EXCEPT !.steps = Tail(@), !.queued = FALSE])
      <4>1. Tells(t.id, "duplicate")
        BY <1>3, <1>6, <3>3 DEF Tell, Tells
      <4>2. Speaks(p, c)
        BY <1>3, <1>6, <1>7, <1>8, <1>12, <3>1, <4>1 DEF Speaks
      <4>3. Heard' = Heard
        BY <1>6, <4>1, <4>2, HeardIs
      <4>4. PICK s : s = Tail(c.steps)
        OBVIOUS
      <4>5. s \in Seq(AnySteps) /\ Goes(s, z)
        BY <1>3, <4>4, LastStep DEF Jobs
      <4>6. PICK w \in State : w = At("done", x.op) /\ s # <<>> /\ Goes(Tail(s), w)
        BY <1>3, <1>5, <4>5, SentPolls
      <4>7. w.at = "done" /\ w.op = x.op
        BY <4>6 DEF At
      <4>8. PICK j : j = [c EXCEPT !.steps = s, !.queued = FALSE]
        OBVIOUS
      <4>9. j \in Jobs /\ j.steps = s /\ j.tx = c.tx /\ j.cfg = c.cfg /\ ~j.queued
        BY <1>3, <4>5, <4>8 DEF Jobs
      <4>10. Advance(p, j)
        BY <1>3, <3>3, <4>4, <4>8
      <4>11. Sound(t)'
        <5>1. Ids' = Ids
          BY <3>1 DEF Ids
        <5> QED BY <1>7, <1>8, <1>12, <5>1 DEF Sound
      <4>12. Told("duplicate")' # {} /\ t.id \notin Told("success")'
        <5>1. Told("duplicate")' = Told("duplicate") \cup {t.id} /\ Told("success")' = Told("success")
          BY <4>1, ToldIs
        <5>2. t.id \notin Told("success")
          BY <1>7 DEF Unsent, Told, Answered
        <5> QED BY <5>1, <5>2
      <4>13. Tracks(j, w)'
        BY <1>6, <1>7, <4>7, <4>9, <4>11, <4>12 DEF Tracks
      <4>14. TrueConfig(j.cfg)'
        BY <1>3, <4>2, <4>9, SpeaksKeeps
      <4>15. ~spent'.disturbed => Remembers(j, w)'
        <5> SUFFICES ASSUME ~spent'.disturbed PROVE Remembers(j, w)'
          OBVIOUS
        <5>1. Remembers(c, x)
          BY <1>3, <3>1
        <5> QED BY <1>4, <1>8, <4>3, <4>7, <4>9, <5>1 DEF Remembers, Pending, Torn, DefaultConfig
      <4>16. Ready(j, w)'
        BY <4>6, <4>9, <4>13, <4>14, <4>15 DEF Ready
      <4> QED BY <4>2, <4>9, <4>10, <4>16, SpokenGoes
    <3> QED BY <1>12, <2>1, <3>2, <3>3
  <2> QED BY <1>12, <2>1, <2>2
\* It is refused.
<1>13. CASE Tell(p, "rejected") /\ End(p) /\ UNCHANGED <<flying, spent>>
  <2>1. Tells(t.id, "rejected")
    BY <1>3, <1>6, <1>13 DEF Tell, Tells
  <2>2. Speaks(p, c)
    <3>1. t.id \notin Landed \cup Flown /\ flying' = flying
      BY <1>7, <1>13 DEF Unsent
    <3> QED BY <1>3, <1>6, <1>7, <1>8, <1>9, <1>13, <2>1, <3>1 DEF Speaks
  <2>3. Heard' = Heard
    BY <1>6, <2>1, <2>2, HeardIs
  <2> QED BY <1>10, <1>13, <2>2, <2>3, SpokenEnds
\* Another one is on its way.
<1>14. CASE Advance(p, jobs[p]) /\ UNCHANGED <<flying, told, spent>>
  <2>1. Speaks(p, c)
    BY <1>3, <1>6, <1>7, <1>8, <1>9, <1>14 DEF Speaks
  <2> QED BY <1>11, <1>14, <2>1, HeardIs
<1> QED BY <1>3, <1>6, <1>12, <1>13, <1>14 DEF SendTransaction

\* A terminal polls for what became of its transaction.
LEMMA PollKeeps == ASSUME IInv, NEW p \in Terminals, ~Idle(p), Poll(p) PROVE IInv'
<1>1. Next1(p).do = "poll"
  BY DEF Poll
<1>2. PICK c, x, z : Moves(p, c, x, z)
  BY <1>1, MovesIs
<1>3. /\ c = jobs[p] /\ c \in Jobs /\ c.steps # <<>> /\ TrueConfig(c.cfg) /\ Goes(Tail(c.steps), z) /\ Tracks(c, x)
      /\ z \in State /\ (~spent.disturbed => Remembers(c, x)) /\ Stage(p, c, x)
  BY <1>2 DEF Moves, Stage
<1>4. x.at = "sent" /\ z = At("done", x.op)
  BY <1>1, <1>2 DEF Moves, Leads, Prepares, Settles, Looks
<1>5. z.at = "done" /\ z.op = x.op
  BY <1>4 DEF At
<1>6. PICK t : t = c.tx
  OBVIOUS
<1>7. t.id # None /\ t.op = x.op /\ Sound(t)
  BY <1>3, <1>4, <1>6 DEF Tracks
<1>8. chain' = chain /\ landed' = landed /\ failed' = failed /\ flying' = flying /\ config' = config /\ files' = files
  BY DEF Poll, ledger, disk
<1>9. spent' \in Counts /\ spent'.txs = spent.txs /\ spent'.disturbed = spent.disturbed
  BY SpendIs DEF Poll, IInv, Stored
<1>10. ~spent.disturbed => AllKept
  BY <1>3, <1>4, KeptAt
<1>11. CASE t.id \in Landed /\ Tell(p, "success") /\ Advance(p, jobs[p])
  <2>1. Tells(t.id, "success")
    BY <1>3, <1>6, <1>11 DEF Tell, Tells
  <2>2. Speaks(p, c)
    BY <1>3, <1>6, <1>7, <1>8, <1>9, <1>11, <2>1 DEF Speaks
  <2>3. Sound(c.tx)'
    BY <1>6, <1>7, <1>8, <1>9 DEF Sound, Ids
  <2>4. Landed' = Landed
    BY <1>8 DEF Landed
  <2>5. TrueConfig(c.cfg)' /\ told \subseteq told'
    BY <1>3, <2>2, SpeaksKeeps
  <2>6. Tracks(c, z)'
    BY <1>3, <1>4, <1>5, <1>6, <1>7, <1>11, <2>3, <2>4, <2>5 DEF Tracks, Told
  <2>7. ~spent'.disturbed => Remembers(c, z)'
    <3> SUFFICES ASSUME ~spent'.disturbed PROVE Remembers(c, z)'
      OBVIOUS
    <3>1. Remembers(c, x)
      BY <1>3, <1>9
    <3>2. ASSUME NEW l \in Heard' PROVE l.made \in config.agreements \/ Pending(c, z, l)
      <4>1. CASE l \in Heard
        BY <1>4, <3>1, <4>1 DEF Remembers, Pending
      <4>2. CASE l \in landed /\ l.op = "create" /\ l.tx = t.id
        <5>1. t.op = "create"
          BY <1>7, <4>2 DEF Sound
        <5> QED BY <1>5, <1>6, <1>7, <4>2, <5>1 DEF Pending
      <4> QED BY <1>6, <2>2, <4>1, <4>2, HeardIs
    <3> QED BY <1>4, <1>5, <1>8, <3>1, <3>2 DEF Remembers, Pending, Torn, DefaultConfig
  <2>8. Ready(c, z)'
    BY <1>3, <2>5, <2>6, <2>7 DEF Ready
  <2> QED BY <1>3, <1>11, <2>2, <2>8, SpokenGoes
<1>12. ASSUME NEW r \in {"failed", "unknown"}, Tell(p, r), End(p), r = "failed" => t.id \in failed PROVE IInv'
  <2>1. Tells(t.id, r)
    BY <1>3, <1>6, <1>12 DEF Tell, Tells
  <2>2. Speaks(p, c)
    <3>1. t.id \in failed => t.id \notin Landed \cup Flown
      BY DEF IInv, OnTheWay
    <3> QED BY <1>3, <1>6, <1>7, <1>8, <1>9, <1>12, <2>1, <3>1 DEF Speaks
  <2>3. Heard' = Heard
    BY <1>6, <2>1, <2>2, HeardIs
  <2> QED BY <1>10, <1>12, <2>2, <2>3, SpokenEnds
<1>13. (\E l \in landed : l.tx = t.id) => t.id \in Landed
  BY DEF Landed
<1> QED BY <1>3, <1>6, <1>11, <1>12, <1>13 DEF Poll
------------------------------------------------------------------------------
(* What starts and ends commands, and what the ledger and others do.          *)

\* A terminal has a new command, or none.
LEMMA AnewKeeps ==
    ASSUME IInv, NEW p \in Terminals, NEW c \in Jobs, jobs' = [jobs EXCEPT ![p] = c], Started(c)', c.tx.id = None,
           Still, Stored', \A q \in Terminals \ {p} : \E d : d = jobs[q] /\ Quiet(d), ~spent'.disturbed => Calm'
    PROVE  IInv'
<1>1. spent.txs \in Nat /\ spent'.txs \in Nat /\ jobs \in [Terminals -> Jobs]
  BY TxsIs DEF Stored, Counts, IInv, Running
<1>2. jobs' \in [Terminals -> Jobs] /\ jobs'[p] = c /\ \A q \in Terminals \ {p} : jobs'[q] = jobs[q]
  BY <1>1
<1>3. OnTheWay' /\ Reported'
  BY StillKeeps
<1>4. ASSUME NEW q \in Terminals \ {p} PROVE \E j : j = jobs'[q] /\ Started(j)'
  <2>1. PICK d \in Jobs : d = jobs[q] /\ Started(d)
    BY JobIs
  <2>2. Steady(d) /\ Quiet(d)
    BY <2>1, StillKeeps
  <2>3. Started(d)'
    BY <1>1, <2>1, <2>2, StartedStays
  <2> QED BY <1>2, <2>1, <2>3
<1>5. Running'
  BY <1>2, <1>4 DEF Running
<1>6. Distinct'
  BY <1>2 DEF IInv, Distinct
<1> QED BY <1>3, <1>5, <1>6 DEF IInv

\* A command starts with the configuration as it is on disk.
LEMMA StartKeeps == ASSUME IInv, NEW p \in Terminals, Start(p) PROVE IInv'
<1>1. PICK b \in BOOLEAN : b = (spent.disturbed \/ \E q \in Terminals : ~Idle(q))
  OBVIOUS
<1>2. Idle(p) /\ spent \in Counts /\ (spent.disturbed \in BOOLEAN)
  BY DEF Start, IInv, Stored, Counts
<1>3. PICK n \in Nat : n = spent.commands + 1
  BY <1>2 DEF Counts
<1>4. spent' = [spent EXCEPT !.commands = n, !.disturbed = b]
  BY <1>1, <1>3 DEF Start
<1>5. spent' \in Counts /\ spent'.txs = spent.txs /\ spent'.disturbed = b
  BY <1>2, <1>4 DEF Counts
<1>6. Still /\ config' = config /\ files' = files
  BY <1>5 DEF Start, ledger, disk, Still
<1>7. Stored'
  BY <1>5, <1>6, StillStored DEF IInv, Stored
<1>8. PICK f : f = IF config = Torn THEN DefaultConfig ELSE config
  OBVIOUS
<1>9. f \in Configs /\ TrueConfig(f)
  <2>1. CASE config = Torn
    BY <1>8, <2>1, FreshIs DEF TrueConfig
  <2>2. CASE config # Torn
    BY <1>8, <2>2 DEF IInv, Stored, TrueConfig
  <2> QED BY <2>1, <2>2
<1>10. PICK s \in Commands : jobs' = [jobs EXCEPT ![p] = [Fresh EXCEPT !.steps = s, !.cfg = f]]
  BY <1>8 DEF Start
<1>11. s # <<>> /\ Goes(s, New) /\ s \in Seq(AnySteps)
  <2>1. s # <<>> /\ Goes(s, New)
    BY <1>10, CommandsAre DEF Command
  <2> QED BY <2>1, GoesOn, TwoStates
<1>12. PICK c : c = [Fresh EXCEPT !.steps = s, !.cfg = f]
  OBVIOUS
<1>13. c \in Jobs /\ c.steps = s /\ c.cfg = f /\ c.tx.id = None /\ c.queued
  BY <1>9, <1>11, <1>12, FreshIs DEF Fresh, Jobs
<1>14. Tracks(c, New)
  BY <1>13, TwoStates DEF Tracks
<1>15. Tracks(c, New)' /\ TrueConfig(c.cfg)' /\ Heard' = Heard
  <2>1. Steady(c) /\ TrueConfig(c.cfg)' /\ Heard' = Heard
    BY <1>6, <1>9, <1>13, StillKeeps
  <2> QED BY <1>5, <1>14, <2>1, TxsIs, TracksStays
<1>16. ~b => ~spent.disturbed /\ AllKept /\ \A q \in Terminals : Idle(q)
  BY <1>1 DEF IInv, Calm
<1>17. ~spent'.disturbed => Remembers(c, New)'
  <2> SUFFICES ASSUME ~spent'.disturbed PROVE Remembers(c, New)'
    OBVIOUS
  <2>1. config # Torn /\ c.cfg = config /\ \A l \in Heard : l.made \in config.agreements
    BY <1>5, <1>8, <1>13, <1>16 DEF AllKept
  <2>2. config' # Torn'
    BY <1>6, <2>1 DEF Torn, DefaultConfig
  <2>3. c.cfg.agreements = config'.agreements
    BY <1>6, <2>1
  <2> QED BY <1>6, <1>15, <2>1, <2>2, <2>3, TwoStates DEF Remembers
<1>18. Started(c)'
  BY <1>11, <1>13, <1>15, <1>17, TwoStates DEF Started, Under
<1>19. ASSUME NEW q \in Terminals \ {p} PROVE \E d : d = jobs[q] /\ Quiet(d)
  BY <1>1, <1>5 DEF Quiet, Idle
<1>20. jobs' = [jobs EXCEPT ![p] = c] /\ jobs \in [Terminals -> Jobs]
  BY <1>10, <1>12 DEF IInv, Running
<1>21. ~spent'.disturbed => Calm'
  <2> SUFFICES ASSUME ~spent'.disturbed PROVE Calm'
    OBVIOUS
  <2>1. jobs'[p].steps # <<>> /\ \A q \in Terminals \ {p} : jobs'[q].steps = <<>>
    BY <1>5, <1>11, <1>13, <1>16, <1>20 DEF Idle
  <2> QED BY <2>1 DEF Calm, Idle
<1> QED BY <1>6, <1>7, <1>13, <1>18, <1>19, <1>20, <1>21, AnewKeeps

\* A process is killed.
LEMMA KillKeeps == ASSUME IInv, NEW p \in Terminals, Kill(p) PROVE IInv'
<1>1. spent \in Counts
  BY DEF IInv, Stored
<1>2. PICK n \in Nat : n = spent.kills + 1
  BY <1>1 DEF Counts
<1>3. spent' = [spent EXCEPT !.kills = n, !.disturbed = TRUE]
  BY <1>2 DEF Kill
<1>4. spent' \in Counts /\ spent'.txs = spent.txs /\ spent'.disturbed
  BY <1>1, <1>3 DEF Counts
<1>5. Still /\ config' = config /\ files' = files
  BY <1>4 DEF Kill, ledger, disk, Still
<1>6. Stored'
  BY <1>4, <1>5, StillStored DEF IInv, Stored
<1>7. PICK c : c = Fresh
  OBVIOUS
<1>8. c \in Jobs /\ c.tx.id = None /\ Started(c)'
  BY <1>7, FreshIs DEF Started, Fresh, DefaultConfig
<1>9. jobs' = [jobs EXCEPT ![p] = c]
  BY <1>7 DEF Kill
<1>10. \A q \in Terminals \ {p} : \E d : d = jobs[q] /\ Quiet(d)
  BY <1>4 DEF Quiet
<1> QED BY <1>4, <1>5, <1>6, <1>8, <1>9, <1>10, AnewKeeps

\* No command takes a step.
LEMMA AroundKeeps ==
    ASSUME IInv, jobs' = jobs, config' = config, spent'.disturbed = spent.disturbed, Stored', OnTheWay', Reported',
           Heard' = Heard, \A p \in Terminals : \E d : d = jobs[p] /\ Steady(d)
    PROVE  IInv'
<1>1. spent.txs \in Nat /\ spent'.txs \in Nat /\ jobs \in [Terminals -> Jobs]
  BY TxsIs DEF Stored, Counts, IInv, Running
<1>2. ASSUME NEW p \in Terminals PROVE \E j : j = jobs'[p] /\ Started(j)'
  <2>1. PICK d \in Jobs : d = jobs[p] /\ Started(d)
    BY JobIs
  <2>2. Steady(d) /\ Quiet(d)
    <3>1. spent'.disturbed \/ ~spent.disturbed
      BY TxsIs
    <3> QED BY <2>1, <3>1 DEF Quiet
  <2>3. Started(d)'
    BY <1>1, <2>1, <2>2, StartedStays
  <2> QED BY <2>1, <2>3
<1>3. Running'
  BY <1>1, <1>2 DEF Running
<1>4. Distinct'
  BY DEF IInv, Distinct
<1>5. ~spent'.disturbed => Calm'
  BY DEF IInv, Calm, AllKept, Idle, Torn, DefaultConfig
<1> QED BY <1>3, <1>4, <1>5 DEF IInv

\* Another user creates an agreement.
LEMMA OtherAgreementKeeps == ASSUME IInv, OtherAgreement PROVE IInv'
<1>1. spent' \in Counts /\ spent'.disturbed = spent.disturbed /\ spent'.txs = spent.txs
  BY SpendIs DEF OtherAgreement
<1>2. /\ flying' = flying /\ landed' = landed /\ failed' = failed /\ told' = told /\ jobs' = jobs /\ config' = config
      /\ files' = files
  BY DEF OtherAgreement, disk
<1>3. chain \in Chains /\ chain.seq <= spent.txs
  BY DEF IInv, Stored
<1>4. PICK n \in 0..MaxAgreements : n = chain.count[1] + 1 /\ 1 \in Contracts
  <2>1. 1 \in Contracts
    BY ClientAssumptions DEF Contracts
  <2>2. chain.count[1] \in 0..MaxAgreements
    BY <1>3, <2>1 DEF Chains
  <2>3. chain.count[1] < MaxAgreements
    BY DEF OtherAgreement
  <2> QED BY <2>1, <2>2, <2>3, ClientAssumptions
<1>5. PICK k : k = [chain.count EXCEPT ![1] = n]
  OBVIOUS
<1>6. k \in [Contracts -> 0..MaxAgreements] /\ chain' = [chain EXCEPT !.count = k]
  BY <1>3, <1>4, <1>5 DEF OtherAgreement, Chains
<1>7. chain' \in Chains /\ chain'.seq = chain.seq /\ chain'.contracts = chain.contracts
  BY <1>3, <1>6 DEF Chains
<1>8. /\ Landed' = Landed /\ Flown' = Flown /\ Answered' = Answered /\ Heard' = Heard /\ Ids' = Ids
      /\ OwnAgreements' = OwnAgreements /\ Deployed' = Deployed /\ \A r : Told(r)' = Told(r)
  BY <1>1, <1>2, <1>7 DEF Landed, Flown, Answered, Heard, Ids, OwnAgreements, Deployed, Told
<1>9. OnTheWay'
  BY <1>2, <1>8 DEF IInv, OnTheWay
<1>10. Reported'
  BY <1>2, <1>8 DEF IInv, Reported, SuccessIsOnChain, FailureIsFinal
<1>11. Stored'
  BY <1>1, <1>2, <1>3, <1>7, <1>8 DEF IInv, Stored, TrueConfig, Configs, Networks, Torn, DefaultConfig, Chains,
    Files, Counts
<1>12. ASSUME NEW p \in Terminals PROVE \E d : d = jobs[p] /\ Steady(d)
  BY <1>1, <1>2, <1>8, TxsIs DEF Steady
<1> QED BY <1>1, <1>2, <1>8, <1>9, <1>10, <1>11, <1>12, AroundKeeps

\* The agreement that a transaction is about.
LEMMA ReachedIs ==
    ASSUME NEW t, t.op \in {"attest", "wallet", "fund", "execute", "settle"}, chain \in Chains, Reached(t)
    PROVE  /\ t.contract \in Contracts /\ t.agreement \in 1..MaxAgreements
           /\ chain.stage[t.contract][t.agreement] \in 1..5
<1>1. Known(t) /\ Agreement(t) = StageBefore(t.op)
  BY DEF Reached
<1>2. chain.contracts \in Contracts /\ chain.count \in [Contracts -> 0..MaxAgreements]
  BY DEF Chains
<1>3. t.contract \in Contracts
  BY <1>1, <1>2, ClientAssumptions DEF Known, Contracts
<1>4. t.agreement \in 1..MaxAgreements
  <2>1. chain.count[t.contract] \in 0..MaxAgreements /\ t.agreement \in 1..chain.count[t.contract]
    BY <1>1, <1>2, <1>3 DEF Known
  <2> QED BY <2>1, ClientAssumptions
<1>5. \E k \in 1..5 : Stages[k] = t.op
  <2>1. Stages[1] = "attest" /\ Stages[2] = "wallet" /\ Stages[3] = "fund" /\ Stages[4] = "execute"
          /\ Stages[5] = "settle"
    BY DEF Stages
  <2>2. 1 \in 1..5 /\ 2 \in 1..5 /\ 3 \in 1..5 /\ 4 \in 1..5 /\ 5 \in 1..5
    OBVIOUS
  <2> QED BY <2>1, <2>2
<1>6. StageBefore(t.op) \in 1..5
  BY <1>5 DEF StageBefore
<1> QED BY <1>1, <1>3, <1>4, <1>6 DEF Agreement

\* What the ledger makes of a transaction that the contracts accept.
LEMMA AfterIs ==
    ASSUME NEW t \in Txs, chain \in Chains, Accepts(t), InBounds(t)
    PROVE  /\ After(t) \in Chains /\ chain.contracts <= After(t).contracts
           /\ Made(t) \in Nat
           /\ t.op = "create" => Made(t) \in 1..MaxAgreements
           /\ t.op = "deploy" => Made(t) \in 1..After(t).contracts
<1>1. /\ chain.dids \in [Dids -> {"absent", "active", "dead"}]
           /\ chain.vcs \in [Dids -> {"absent", "valid", "revoked"}]
      /\ chain.count \in [Contracts -> 0..MaxAgreements] /\ chain.contracts \in Contracts
      /\ chain.stage \in [Contracts -> [1..MaxAgreements -> 1..6]]
  BY DEF Chains
<1>2. chain.contracts \in Nat /\ MaxContracts \in Nat /\ MaxAgreements \in Nat /\ chain.contracts <= chain.contracts
  BY <1>1, ClientAssumptions DEF Contracts
<1>3. ASSUME After(t) \in Chains, After(t).contracts = chain.contracts, Made(t) = 0, t.op \notin {"create", "deploy"}
      PROVE  /\ After(t) \in Chains /\ chain.contracts <= After(t).contracts /\ Made(t) \in Nat
             /\ (t.op = "create" => Made(t) \in 1..MaxAgreements) /\ (t.op = "deploy"
                  => Made(t) \in 1..After(t).contracts)
  BY <1>3, <1>2
<1>4. CASE t.op = "register"
  <2>1. PICK k : k = [chain.dids EXCEPT ![t.on] = "active"]
    OBVIOUS
  <2>2. k \in [Dids -> {"absent", "active", "dead"}] /\ After(t) = [chain EXCEPT !.dids = k] /\ Made(t) = 0
    BY <1>1, <1>4, <2>1 DEF After, Chains, Made, None
  <2>3. After(t) \in Chains /\ After(t).contracts = chain.contracts
    BY <2>2 DEF Chains
  <2> QED BY <1>3, <1>4, <2>3, <2>2
<1>5. CASE t.op = "deactivate"
  <2>1. PICK k : k = [chain.dids EXCEPT ![t.on] = "dead"]
    OBVIOUS
  <2>2. k \in [Dids -> {"absent", "active", "dead"}] /\ After(t) = [chain EXCEPT !.dids = k] /\ Made(t) = 0
    BY <1>1, <1>5, <2>1 DEF After, Chains, Made, None
  <2>3. After(t) \in Chains /\ After(t).contracts = chain.contracts
    BY <2>2 DEF Chains
  <2> QED BY <1>3, <1>5, <2>3, <2>2
<1>6. CASE t.op = "anchor"
  <2>1. PICK k : k = [chain.vcs EXCEPT ![t.on] = "valid"]
    OBVIOUS
  <2>2. k \in [Dids -> {"absent", "valid", "revoked"}] /\ After(t) = [chain EXCEPT !.vcs = k] /\ Made(t) = 0
    BY <1>1, <1>6, <2>1 DEF After, Chains, Made, None
  <2>3. After(t) \in Chains /\ After(t).contracts = chain.contracts
    BY <2>2 DEF Chains
  <2> QED BY <1>3, <1>6, <2>3, <2>2
<1>7. CASE t.op = "revoke"
  <2>1. PICK k : k = [chain.vcs EXCEPT ![t.on] = "revoked"]
    OBVIOUS
  <2>2. k \in [Dids -> {"absent", "valid", "revoked"}] /\ After(t) = [chain EXCEPT !.vcs = k] /\ Made(t) = 0
    BY <1>1, <1>7, <2>1 DEF After, Chains, Made, None
  <2>3. After(t) \in Chains /\ After(t).contracts = chain.contracts
    BY <2>2 DEF Chains
  <2> QED BY <1>3, <1>7, <2>3, <2>2
<1>8. CASE t.op = "upload"
  <2>1. After(t) = [chain EXCEPT !.uploaded = TRUE] /\ Made(t) = 0
    BY <1>8 DEF After, Made, None
  <2>2. After(t) \in Chains /\ After(t).contracts = chain.contracts
    BY <2>1 DEF Chains
  <2> QED BY <1>3, <1>8, <2>2, <2>1
<1>9. CASE t.op = "deploy"
  <2>1. PICK n : n = chain.contracts + 1
    OBVIOUS
  <2>2. n \in Contracts /\ n \in Nat /\ chain.contracts <= n /\ n \in 1..n
    BY <1>2, <1>9, <2>1 DEF InBounds, Contracts
  <2>3. After(t) = [chain EXCEPT !.contracts = n] /\ Made(t) = n
    BY <1>9, <2>1 DEF After, Made
  <2>4. After(t) \in Chains /\ After(t).contracts = n
    BY <2>2, <2>3 DEF Chains
  <2> QED BY <1>9, <2>2, <2>3, <2>4
<1>10. CASE t.op \in {"setregistry", "report"}
  <2>1. After(t) = chain /\ Made(t) = 0
    BY <1>10 DEF After, Made, None
  <2> QED BY <1>2, <1>10, <2>1
<1>11. CASE t.op = "create"
  <2>1. t.contract \in Contracts
    <3>1. t.contract \in 1..chain.contracts
      BY <1>11 DEF Accepts
    <3> QED BY <3>1, <1>1, <1>2 DEF Contracts
  <2>2. PICK n : n = chain.count[t.contract] + 1
    OBVIOUS
  <2>3. n \in 1..MaxAgreements /\ n \in 0..MaxAgreements /\ n \in Nat
    <3>1. chain.count[t.contract] \in 0..MaxAgreements /\ chain.count[t.contract] < MaxAgreements
      BY <1>1, <1>11, <2>1 DEF InBounds
    <3> QED BY <3>1, <1>2, <2>2
  <2>4. PICK k : k = [chain.count EXCEPT ![t.contract] = n]
    OBVIOUS
  <2>5. k \in [Contracts -> 0..MaxAgreements] /\ After(t) = [chain EXCEPT !.count = k] /\ Made(t) = n
    BY <1>1, <1>11, <2>1, <2>2, <2>3, <2>4 DEF After, Made, Chains
  <2> QED BY <1>2, <1>11, <2>3, <2>5 DEF Chains
<1>12. CASE t.op \in {"attest", "wallet", "fund", "execute", "settle"}
  <2>1. Reached(t)
    BY <1>12 DEF Accepts
  <2>2. /\ t.contract \in Contracts /\ t.agreement \in 1..MaxAgreements
        /\ chain.stage[t.contract][t.agreement] \in 1..5
    BY <1>12, <2>1, ReachedIs
  <2>3. PICK n \in 1..6 : n = chain.stage[t.contract][t.agreement] + 1
    BY <2>2
  <2>4. PICK h : h = [chain.stage[t.contract] EXCEPT ![t.agreement] = n]
    OBVIOUS
  <2>5. chain.stage[t.contract] \in [1..MaxAgreements -> 1..6]
    BY <1>1, <2>2
  <2>6. h \in [1..MaxAgreements -> 1..6]
    BY <2>4, <2>5
  <2>7. PICK k : k = [chain.stage EXCEPT ![t.contract] = h]
    OBVIOUS
  <2>8. k \in [Contracts -> [1..MaxAgreements -> 1..6]]
    BY <1>1, <2>6, <2>7
  <2>9. After(t) = [chain EXCEPT !.stage = k] /\ Made(t) = 0
    BY <1>1, <1>12, <2>2, <2>3, <2>4, <2>7 DEF After, Chains, Made, None
  <2>10. After(t) \in Chains /\ After(t).contracts = chain.contracts
    BY <2>8, <2>9 DEF Chains
  <2> QED BY <1>3, <1>12, <2>10, <2>9
<1>13. t.op \in Ops
  BY DEF Txs
<1> QED BY <1>4, <1>5, <1>6, <1>7, <1>8, <1>9, <1>10, <1>11, <1>12, <1>13 DEF Ops

\* A transaction is carried out, fails, or is never seen again.
LEMMA LandKeeps == ASSUME IInv, NEW t \in flying, Land(t) PROVE IInv'
<1>1. /\ flying' = flying \ {t} /\ config' = config /\ files' = files /\ jobs' = jobs /\ told' = told
           /\ spent' = spent
  BY DEF Land, disk
<1>2. t \in Txs /\ t.id \in Ids /\ t.seq <= t.id /\ t.id \in Flown
  BY DEF IInv, OnTheWay, Flown
<1>3. t.id \notin Landed /\ t.id \notin failed /\ t.id \notin Told("success") /\ t.id \notin Told("rejected")
        \cup Told("failed")
  BY <1>2 DEF IInv, OnTheWay, Reported, SuccessIsOnChain
<1>4. Flown' = Flown \ {t.id}
  <2>1. \A u \in flying : u.id = t.id => u = t
    BY DEF IInv, OnTheWay
  <2> QED BY <1>1, <2>1 DEF Flown
<1>5. Ids' = Ids /\ Answered' = Answered /\ \A r : Told(r)' = Told(r)
  BY <1>1 DEF Ids, Answered, Told
<1>6. chain \in Chains /\ chain.seq <= spent.txs /\ spent.txs \in Nat
  BY TxsIs DEF IInv, Stored
\* What is left to show of each of the three.
<1>7. ASSUME chain' \in Chains, chain'.seq <= spent.txs, Deployed \subseteq Deployed', landed \subseteq landed',
             \A l \in landed' : l \in landed \/ (l.tx = t.id /\ l.op = t.op), failed' \subseteq failed \cup {t.id},
             OnTheWay'
      PROVE  IInv'
  <2>1. OwnAgreements \subseteq OwnAgreements'
    BY <1>7 DEF OwnAgreements
  <2>2. Stored'
    <3>1. PICK k : k = config
      OBVIOUS
    <3>2. TrueConfig(k)'
      BY <1>1, <1>7, <2>1, <3>1, TrueStays DEF IInv, Stored
    <3>3. TrueConfig(config)'
      BY <1>1, <3>1, <3>2 DEF TrueConfig
    <3>4. Configs' = Configs /\ Torn' = Torn
      BY DEF Configs, Torn, DefaultConfig, Networks
    <3> QED BY <1>1, <1>7, <3>3, <3>4 DEF IInv, Stored
  <2>3. Reported'
    <3>1. Landed \subseteq Landed' /\ Landed' \subseteq Landed \cup {t.id}
      BY <1>7 DEF Landed
    <3> QED BY <1>3, <1>4, <1>5, <3>1 DEF IInv, Reported, SuccessIsOnChain, FailureIsFinal
  <2>4. Heard' = Heard
    BY <1>3, <1>5, <1>7 DEF Heard
  <2>5. ASSUME NEW p \in Terminals PROVE \E d : d = jobs[p] /\ Steady(d)
    <3>1. PICK d : d = jobs[p]
      OBVIOUS
    <3>2. spent.txs <= spent'.txs
      BY <1>1, <1>6
    <3>3. \A l \in landed' : l.tx = d.tx.id => l \in landed \/ \E u \in flying : u.id = l.tx /\ u.op = l.op
      BY <1>7
    <3>4. d.tx.id \in failed' => d.tx.id \in failed \cup Flown
      BY <1>2, <1>7
    <3>5. Steady(d)
      BY <1>1, <1>7, <2>1, <3>2, <3>3, <3>4 DEF Steady
    <3> QED BY <3>1, <3>5
  <2> QED BY <1>1, <1>7, <2>2, <2>3, <2>4, <2>5, AroundKeeps
<1>8. CASE UNCHANGED <<chain, landed, failed>>
  <2>1. Landed' = Landed /\ Deployed' = Deployed
    BY <1>8 DEF Landed, Deployed
  <2>2. OnTheWay'
    BY <1>1, <1>4, <1>5, <1>8, <2>1 DEF IInv, OnTheWay
  <2> QED BY <1>6, <1>7, <1>8, <2>1, <2>2
<1>9. CASE InBounds(t) /\ Accepts(t) /\ chain' = [After(t) EXCEPT !.seq = t.seq] /\ UNCHANGED failed
           /\ landed' = landed \cup {[tx |-> t.id, op |-> t.op, made |-> Made(t)]}
  <2>1. PICK a : a = After(t)
    OBVIOUS
  <2>2. PICK l : l = [tx |-> t.id, op |-> t.op, made |-> Made(t)]
    OBVIOUS
  <2>3. /\ a \in Chains /\ chain.contracts <= a.contracts /\ l.made \in Nat /\ l.tx = t.id /\ l.op = t.op
        /\ t.op = "create" => l.made \in 1..MaxAgreements
        /\ t.op = "deploy" => l.made \in 1..a.contracts
    BY <1>2, <1>6, <1>9, <2>1, <2>2, AfterIs
  <2>4. chain' \in Chains /\ chain'.seq = t.seq /\ chain'.contracts = a.contracts
    BY <1>2, <1>9, <2>1, <2>3 DEF Chains, Txs
  <2>5. chain'.seq <= spent.txs
    BY <1>2, <1>6, <2>4 DEF Txs, Ids
  <2>6. Deployed \subseteq Deployed'
    BY <1>6, <2>3, <2>4, ClientAssumptions DEF Deployed, Chains, Contracts
  <2>7. landed' = landed \cup {l} /\ Landed' = Landed \cup {t.id}
    BY <1>9, <2>2, <2>3 DEF Landed
  <2>8. landed' \subseteq [tx : Ids' \cup {None}, op : Ops, made : Nat]
    <3>1. l \in [tx : Ids \cup {None}, op : Ops, made : Nat]
      BY <1>2, <2>2, <2>3 DEF Txs
    <3> QED BY <1>5, <2>7, <3>1 DEF IInv, OnTheWay
  <2>9. \A m \in landed' : (m.op = "create" => m.made \in 1..MaxAgreements) /\ (m.op = "deploy"
          => m.made \in Deployed')
    <3>1. l.op = "deploy" => l.made \in Deployed'
      BY <2>3, <2>4 DEF Deployed
    <3> QED BY <2>3, <2>6, <2>7, <3>1 DEF IInv, OnTheWay
  <2>10. \A m, n \in landed' : m.tx = n.tx => m = n
    <3>1. \A m \in landed : m.tx # l.tx
      BY <1>3, <2>3 DEF Landed
    <3> QED BY <2>7, <3>1 DEF IInv, OnTheWay
  <2>11. failed' = failed /\ Landed' \cap failed' = {} /\ Flown' \cap (Landed' \cup failed') = {}
    BY <1>3, <1>4, <1>9, <2>7 DEF IInv, OnTheWay
  <2>12. (\A u \in flying' : u \in Txs /\ u.id \in Ids' /\ u.seq <= u.id) /\ \A u, v \in flying' : u.id = v.id
           => u = v
    BY <1>1, <1>5 DEF IInv, OnTheWay
  <2>13. OnTheWay'
    BY <1>5, <2>8, <2>9, <2>10, <2>11, <2>12 DEF IInv, OnTheWay
  <2> QED BY <1>7, <2>3, <2>4, <2>5, <2>6, <2>7, <2>11, <2>13
<1>10. CASE chain' = [chain EXCEPT !.seq = t.seq] /\ failed' = failed \cup {t.id} /\ UNCHANGED landed
  <2>1. chain' \in Chains /\ chain'.seq = t.seq /\ chain'.contracts = chain.contracts
    BY <1>2, <1>6, <1>10 DEF Chains, Txs
  <2>2. chain'.seq <= spent.txs
    BY <1>2, <1>6, <2>1 DEF Txs, Ids
  <2>3. Deployed' = Deployed /\ Landed' = Landed
    BY <1>10, <2>1 DEF Deployed, Landed
  <2>4. OnTheWay'
    BY <1>1, <1>2, <1>3, <1>4, <1>5, <1>10, <2>3 DEF IInv, OnTheWay
  <2> QED BY <1>7, <1>10, <2>1, <2>2, <2>3, <2>4
<1> QED BY <1>8, <1>9, <1>10 DEF Land
------------------------------------------------------------------------------
(* The theorems.                                                              *)

\* The invariant holds at the start.
LEMMA InitIInv == ASSUME Init PROVE IInv
<1>1. flying = {} /\ failed = {} /\ told = {} /\ jobs = [p \in Terminals |-> Fresh]
  BY DEF Init
<1>2. Flown = {} /\ Answered = {} /\ \A r : Told(r) = {}
  BY <1>1 DEF Flown, Answered, Told
<1>3. spent \in Counts /\ spent.txs = 0 /\ ~spent.disturbed
  BY ClientAssumptions DEF Init, Counts
<1>4. files \in Files
  BY DEF Init, Files
<1>5. PICK new : new = [seq |-> 0, dids |-> [d \in Dids |-> "absent"], vcs |-> [d \in Dids |-> "absent"],
                        count |-> [c \in Contracts |-> 0], stage |-> [c \in Contracts |-> [n \in 1..MaxAgreements |-> 1]],
                        uploaded |-> FALSE, contracts |-> 1]
  OBVIOUS
<1>6. PICK set : set = [DefaultConfig EXCEPT !.contract = 1, !.registry = TRUE]
  OBVIOUS
<1>7. MaxAgreements \in Nat \ {0} /\ 1 \in Contracts /\ 1 \in 1..MaxAgreements
  BY ClientAssumptions DEF Contracts
<1>8. new \in Chains /\ new.seq = 0 /\ new.contracts = 1
  <2>1. 0 \in 0..MaxAgreements
    BY <1>7
  <2> QED BY <1>5, <1>7, <2>1 DEF Chains
<1>9. set \in Configs /\ set.agreements = {} /\ set.last = None /\ set.contract = 1 /\ set.network = "testnet"
  <2>1. 1 \in Nat /\ DefaultConfig.network = "testnet"
    BY DEF DefaultConfig
  <2> QED BY <1>6, <2>1, FreshIs DEF Configs
\* A terminal that has no agreement yet, and one that has.
<1>10. CASE chain = new /\ config \in {DefaultConfig, set} /\ landed = {}
  <2>1. Deployed = {1} /\ OwnAgreements = {} /\ Landed = {} /\ Heard = {}
    BY <1>8, <1>10 DEF Deployed, OwnAgreements, Landed, Heard
  <2>2. config \in Configs /\ config.agreements = {} /\ config.last = None /\ config.contract \in {1, None}
    BY <1>9, <1>10, FreshIs
  <2>3. OnTheWay
    BY <1>1, <1>2, <1>10, <2>1 DEF OnTheWay
  <2>4. Stored
    BY <1>3, <1>4, <1>8, <1>10, <2>1, <2>2 DEF Stored, TrueConfig
  <2>5. Running /\ Distinct
    BY <1>1, FreshIs DEF Running, Started, Distinct
  <2>6. Reported
    BY <1>1, <1>2 DEF Reported, SuccessIsOnChain, FailureIsFinal
  <2>7. Calm
    <3>1. config # Torn
      BY <2>2, TornIs
    <3> QED BY <1>1, <2>1, <3>1, FreshIs DEF Calm, AllKept, Idle
  <2> QED BY <2>3, <2>4, <2>5, <2>6, <2>7 DEF IInv
<1>11. CASE /\ chain = [new EXCEPT !.count[1] = 1, !.stage[1][1] = 5]
            /\ config = [set EXCEPT !.agreements = {1}, !.last = 1]
            /\ landed = {[tx |-> None, op |-> "create", made |-> 1]}
  <2>1. PICK l : l = [tx |-> None, op |-> "create", made |-> 1]
    OBVIOUS
  <2>2. landed = {l} /\ l.tx = None /\ l.op = "create" /\ l.made = 1
    BY <1>11, <2>1
  <2>3. l \in [tx : Ids \cup {None}, op : Ops, made : Nat]
    BY <2>1 DEF Ops
  <2>4. chain \in Chains /\ chain.seq = 0 /\ chain.contracts = 1
    <3>1. PICK k : k = [new.count EXCEPT ![1] = 1]
      OBVIOUS
    <3>2. PICK g : g = [new.stage[1] EXCEPT ![1] = 5]
      OBVIOUS
    <3>3. PICK h : h = [new.stage EXCEPT ![1] = g]
      OBVIOUS
    <3>4. /\ new.count \in [Contracts -> 0..MaxAgreements] /\ new.stage[1] \in [1..MaxAgreements -> 1..6]
          /\ new.stage \in [Contracts -> [1..MaxAgreements -> 1..6]]
      BY <1>7, <1>8 DEF Chains
    <3>5. 1 \in 0..MaxAgreements /\ 5 \in 1..6
      BY <1>7
    <3>6. k \in [Contracts -> 0..MaxAgreements]
      BY <3>1, <3>4, <3>5
    <3>7. g \in [1..MaxAgreements -> 1..6]
      BY <3>2, <3>4, <3>5
    <3>8. h \in [Contracts -> [1..MaxAgreements -> 1..6]]
      BY <3>3, <3>4, <3>7
    <3>9. chain = [new EXCEPT !.count = k, !.stage = h]
      BY <1>8, <1>11, <3>1, <3>2, <3>3 DEF Chains
    <3> QED BY <1>8, <3>6, <3>8, <3>9 DEF Chains
  <2>5. config \in Configs /\ config.agreements = {1} /\ config.last = 1 /\ config.contract = 1
    <3>1. {1} \in SUBSET (1..MaxAgreements) /\ 1 \in 0..MaxAgreements
      BY <1>7
    <3> QED BY <1>9, <1>11, <3>1 DEF Configs
  <2>6. Deployed = {1} /\ OwnAgreements = {1} /\ Landed = {None} /\ Heard = {}
    <3>1. Heard = {}
      BY <1>2 DEF Heard
    <3> QED BY <2>2, <2>4, <3>1 DEF Deployed, OwnAgreements, Landed
  <2>7. OnTheWay
    BY <1>1, <1>2, <1>7, <2>2, <2>3, <2>6 DEF OnTheWay
  <2>8. Stored
    BY <1>3, <1>4, <2>4, <2>5, <2>6 DEF Stored, TrueConfig
  <2>9. Running /\ Distinct
    BY <1>1, FreshIs DEF Running, Started, Distinct
  <2>10. Reported
    BY <1>1, <1>2 DEF Reported, SuccessIsOnChain, FailureIsFinal
  <2>11. Calm
    <3>1. config # Torn
      BY <2>5, TornIs
    <3> QED BY <1>1, <2>6, <3>1, FreshIs DEF Calm, AllKept, Idle
  <2> QED BY <2>7, <2>8, <2>9, <2>10, <2>11 DEF IInv
<1> QED BY <1>5, <1>6, <1>10, <1>11 DEF Init

\* No step leaves the invariant.
LEMMA NextKeeps == ASSUME IInv, [Next]_vars PROVE IInv'
<1>1. ASSUME NEW p \in Terminals, Start(p) PROVE IInv'
  BY <1>1, StartKeeps
<1>2. ASSUME NEW p \in Terminals, Step(p) PROVE IInv'
  <2>1. ~Idle(p)
    BY <1>2 DEF Step
  <2>2. CASE CheckConfig(p)
    BY <2>1, <2>2, CheckConfigKeeps
  <2>3. CASE LoadState(p)
    BY <2>1, <2>3, LoadStateKeeps
  <2>4. CASE Decide(p)
    BY <2>1, <2>4, DecideKeeps
  <2>5. CASE CreateDID(p)
    BY <2>1, <2>5, CreateDIDKeeps
  <2>6. CASE SaveState(p)
    BY <2>1, <2>6, SaveStateKeeps
  <2>7. CASE Save(p)
    BY <2>1, <2>7, SaveKeeps
  <2>17. CASE SaveFails(p)
    BY <2>1, <2>17, SaveFailsKeeps
  <2>8. CASE EditConfig(p)
    BY <2>1, <2>8, EditConfigKeeps
  <2>9. CASE Simulate(p)
    BY <2>1, <2>9, SimulateKeeps
  <2>10. CASE Exists(p)
    BY <2>1, <2>10, ExistsKeeps
  <2>11. CASE CallFails(p)
    BY <2>1, <2>11, CallFailsKeeps
  <2>12. CASE SendTransaction(p)
    BY <2>1, <2>12, SendTransactionKeeps
  <2>13. CASE Poll(p)
    BY <2>1, <2>13, PollKeeps
  <2>14. CASE Decode(p)
    BY <2>1, <2>14, DecodeKeeps
  <2>15. CASE RecordAgreement(p)
    BY <2>1, <2>15, RecordAgreementKeeps
  <2>16. CASE UseContract(p)
    BY <2>1, <2>16, UseContractKeeps
  <2> QED
    BY <1>2, <2>2, <2>3, <2>4, <2>5, <2>6, <2>7, <2>8, <2>9, <2>10, <2>11, <2>12, <2>13, <2>14, <2>15, <2>16, <2>17
    DEF Step
<1>3. ASSUME NEW p \in Terminals, Kill(p) PROVE IInv'
  BY <1>3, KillKeeps
<1>4. ASSUME NEW t \in flying, Land(t) PROVE IInv'
  BY <1>4, LandKeeps
<1>5. CASE OtherAgreement
  BY <1>5, OtherAgreementKeeps
<1>6. CASE UNCHANGED vars
  <2>1. jobs' = jobs /\ config' = config /\ spent' = spent /\ files' = files /\ Still
    BY <1>6, TxsIs DEF vars, ledger, disk, Still
  <2>2. Stored'
    BY <2>1, StillStored DEF IInv, Stored
  <2> QED BY <2>1, <2>2, StillKeeps, AroundKeeps
<1> QED BY <1>1, <1>2, <1>3, <1>4, <1>5, <1>6 DEF Next

\* Whatever the terminals, the ledger and other users do, the invariant holds.
THEOREM Invariance == Spec => []IInv
<1>1. Init => IInv
  BY InitIInv
<1>2. IInv /\ [Next]_vars => IInv'
  BY NextKeeps
<1> QED BY <1>1, <1>2, PTL DEF Spec

\* What a terminal was told of its transactions is so: what was reported done
\* was carried out, and what was reported rejected or failed never is.
THEOREM AlwaysReportsTrue == Spec => []ReportsTrue
<1>1. ASSUME IInv PROVE ReportsTrue
  <2>1. Stored /\ OnTheWay /\ Reported
    BY <1>1 DEF IInv
  <2>2. config.agreements \subseteq 1..MaxAgreements
    <3>1. CASE config = Torn
      BY <3>1, TornIs
    <3>2. CASE config \in Configs
      BY <3>2 DEF Configs
    <3> QED BY <2>1, <3>1, <3>2 DEF Stored
  <2>3. TypeOK
    BY <2>1, <2>2 DEF Stored, OnTheWay, TypeOK, Chains, Files
  <2> QED BY <2>1, <2>3 DEF Reported, ReportsTrue
<1> QED BY <1>1, Invariance, PTL

\* The agreement that a job has not yet forgotten.
LEMMA RememberedBy ==
    ASSUME IInv, ~spent.disturbed, NEW p \in Terminals, ~Idle(p), NEW l \in Heard
    PROVE  l.made \in config.agreements \/ jobs[p].tx.id = l.tx \/ l.made \in jobs[p].cfg.agreements
<1>1. PICK c, x : Stage(p, c, x)
  BY StageIs
<1>2. c = jobs[p] /\ Remembers(c, x)
  BY <1>1 DEF Stage
<1>3. CASE x.at = "torn"
  BY <1>2, <1>3 DEF Remembers
<1>4. CASE x.at # "torn"
  BY <1>2, <1>4 DEF Remembers, Pending
<1> QED BY <1>3, <1>4

\* The configuration names agreements of this user and contracts that exist, and
\* while one command runs at a time and none is killed it names all of those that
\* the user was told were created, or the command that created them still runs.
THEOREM AlwaysConfigKept == Spec => []ConfigKept
<1>1. ASSUME IInv PROVE ConfigKept
  <2>1. ConfigIsTrue
    BY <1>1 DEF IInv, Stored, TrueConfig, ConfigIsTrue
  <2>2. NothingForgotten
    <3> SUFFICES ASSUME ~spent.disturbed, NEW l \in landed, l.op = "create", l.tx \in Told("success")
                 PROVE  l.made \in config.agreements
                        \/ \E p \in Terminals : jobs[p].tx.id = l.tx \/ l.made \in jobs[p].cfg.agreements
      BY DEF NothingForgotten
    <3>1. l \in Heard
      BY DEF Heard
    <3>2. CASE \A p \in Terminals : Idle(p)
      BY <1>1, <3>1, <3>2 DEF IInv, Calm, AllKept
    <3>3. CASE \E p \in Terminals : ~Idle(p)
      BY <1>1, <3>1, <3>3, RememberedBy
    <3> QED BY <3>2, <3>3
  <2> QED BY <2>1, <2>2 DEF ConfigKept
<1> QED BY <1>1, Invariance, PTL
==============================================================================

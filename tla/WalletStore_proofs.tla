------------------------- MODULE WalletStore_proofs -------------------------
(* Proofs about wallet files, registry, keychain and passkeys, for any        *)
(* wallets, processes, tabs and bounds on commands and kills.                 *)
(*                                                                            *)
(* A command is a list of operations, and there are many; but which operation *)
(* may follow which is a short table (Then), and every command obeys it       *)
(* (CommandsAre).  The invariant speaks of the operation a process is at: how *)
(* far files and registry, older copies and accounts, keychain and sealed     *)
(* accounts may differ just before it (FilesOf, CleanOf, SeedsOf), given what *)
(* the process holds in memory; between two commands, and before the first    *)
(* operation of an attempt, they do not differ at all (Settled).  Each        *)
(* operation is shown to leave what the next one in the table expects.        *)
EXTENDS WalletStore, FiniteSetTheorems, SequenceTheorems, TLAPS

------------------------------------------------------------------------------
(* The lists of operations.  Registering and disabling go through their steps *)
(* in one order; what the other commands do follows the same few rules.       *)

Readers == {"readLegacy", "readActive", "readActiveOrCache"}
Kinds   == {"register", "disable", "other"}

RegisterThen(a) ==
    CASE a = "readPlain" -> {"ceremony"} [] a = "ceremony" -> {"close"} [] a = "close" -> {"seal"}
      [] a = "seal" -> {"store"} [] a = "store" -> {"enter"} [] a = "enter" -> {"acquire"}
      [] a = "acquire" -> {"write"} [] a = "write" -> {"release"} [] a = "release" -> {"savePasskey"}
      [] a = "savePasskey" -> {"scrub"} [] OTHER -> {}
DisableThen(a) ==
    CASE a = "readSealed" -> {"ceremony"} [] a = "ceremony" -> {"close"} [] a = "close" -> {"unseal"}
      [] a = "unseal" -> {"store"} [] a = "store" -> {"enter"} [] a = "enter" -> {"acquire"}
      [] a = "acquire" -> {"write"} [] a = "write" -> {"release"} [] a = "release" -> {"dropGrant"}
      [] a = "dropGrant" -> {"deleteKey"} [] a = "deleteKey" -> {"deletePasskeys"} [] OTHER -> {}
OtherThen(a) ==
    CASE a \in {"readLegacy", "create"} -> {"store"}
      [] a = "read" -> {"store", "resolve", "delete"}
      [] a = "readActive" -> {"read", "resolve"}
      [] a = "readActiveOrCache" -> {"cacheFunded"}
      [] a = "store" -> {"enter", "enterActive"}
      [] a = "delete" -> {"drop"}
      [] a \in {"enter", "enterActive", "activate", "rename", "drop"} -> {"acquire"}
      [] a = "acquire" -> {"write"} [] a = "write" -> {"release"}
      [] a = "release" -> {"backup", "readActive", "rename"}
      [] a = "readSealed" -> {"ceremony"} [] a = "ceremony" -> {"close"} [] a = "close" -> {"grant"}
      [] OTHER -> {}
Then(k, a) == CASE k = "register" -> RegisterThen(a) [] k = "disable" -> DisableThen(a) [] OTHER -> OtherThen(a)

Firsts(k) == CASE k = "register" -> {"readPlain"} [] k = "disable" -> {"readSealed"}
               [] OTHER -> Readers \cup {"create", "read", "activate", "rename", "readSealed", "dropGrant", "delete"}
Lasts(k)  == CASE k = "register" -> {"scrub"} [] k = "disable" -> {"deletePasskeys"}
               [] OTHER -> {"release", "backup", "readActive", "read", "resolve", "cacheFunded", "grant", "dropGrant"}

Follows(k, s) ==
    /\ s # <<>> /\ s[Len(s)] \in Lasts(k)
    /\ \A i \in 1..(Len(s) - 1) : s[i + 1] \in Then(k, s[i])
Names == {"readLegacy", "readActive", "readActiveOrCache", "create", "read", "readPlain", "readSealed", "store",
          "enter", "enterActive", "activate", "rename", "drop", "acquire", "write", "release", "delete", "backup",
          "cacheFunded", "ceremony", "close", "seal", "savePasskey", "scrub", "unseal", "grant", "dropGrant",
          "deleteKey", "deletePasskeys", "resolve"}
Attempt == {a \in [w : Wallets \cup {Nobody}, do : Seq(Names)] :
              /\ \E k \in Kinds : Follows(k, a.do) /\ Head(a.do) \in Firsts(k)
              /\ a.w = Nobody => Head(a.do) \in Readers}
Record == [of : Wallets, seed : BOOLEAN]
Registry == {r \in [entries : SUBSET Wallets, active : Wallets \cup {Nobody}] : r.active \in r.entries \cup {Nobody}}
CeremonyType ==
    {c \in [tabs : Nat, checking : Nat, blocked : Nat, done : {"empty", "good", "bad"}, finished : BOOLEAN,
            result : {"none", "empty", "good", "bad", "timeout"}] :
        c.tabs <= Tabs /\ c.checking + c.blocked <= c.tabs}

------------------------------------------------------------------------------
(* The inductive invariant.                                                   *)

Stored ==
    /\ account \in [Wallets -> Account \cup {NoFile}]
    /\ registry \in Registry
    /\ lock \in {"free", "held", "abandoned"}
    /\ keychain \in [Wallets -> KeyIds \cup {NoKey}]
    /\ grant \in [Wallets -> {"none", "live", "expired"}]
    /\ passkey \subseteq Stellar
    /\ cache \in Record \cup {NoCopy} /\ legacy \in Record \cup {NoCopy}
    /\ setup \in Setup
    /\ \A w \in Wallets : account[w] \in {"plain"} \cup KeyIds => w \in Stellar
    /\ \A c \in {cache, legacy} : c.seed => c.of \in Stellar

Process ==
    [do : Seq(Names), later : Seq(Attempt), w : Wallets \cup {Nobody}, acc : Account, reg : Registry,
     ceremony : CeremonyType]
\* What process q is doing is of kind k.
Doing(k, q) ==
    /\ Follows(k, q.do)
    /\ q.w = Nobody => Head(q.do) \in Readers
    /\ k = "register" /\ Head(q.do) # "readPlain" => q.w \in Stellar
Sound(q) ==
    /\ q \in Process
    /\ q = Resting \/ \E k \in Kinds : Doing(k, q)
    /\ q.acc # "keyless" => q.w \in Stellar
Running == proc \in [Processes -> Process] /\ \A p \in Processes : Sound(proc[p])

\* Who holds the lock file before operation h.
LockOf(h) ==
    IF h \in {"write", "release"} THEN lock = "held"
    ELSE lock = "free" \/ (lock = "abandoned" /\ setup = "crashes")

\* How files and registry differ before operation h of a process with wallet w
\* and copy reg of the registry.
Files == {x \in Wallets : account[x] # NoFile}
FilesOf(h, w, reg) ==
    /\ h \in {"enter", "enterActive"} => Files = registry.entries \cup {w}
    /\ h = "drop" => Files = registry.entries \ {w}
    /\ h \in {"acquire", "write"} => reg.entries = Files
    /\ h \notin {"enter", "enterActive", "drop", "acquire", "write"} => Files = registry.entries

\* Older files hold the seed of no sealed wallet but of the one being registered.
Entered == {"enter", "acquire", "write", "release", "savePasskey", "scrub"}
CleanOf(k, h, w, acc) ==
    /\ \A c \in {cache, legacy} : c.seed /\ account[c.of] \in KeyIds => k = "register" /\ h \in Entered /\ c.of = w
    /\ h = "store" /\ k = "other" /\ acc \in KeyIds => account[w] = acc
    /\ h = "cacheFunded" /\ acc = "plain" => account[w] \notin KeyIds
    /\ h = "store" /\ k = "disable" => acc = "plain"

\* Every seed can be had, also the one in the memory of the process.
Plain == {"enter", "acquire", "write", "release", "dropGrant", "deleteKey"}
SeedsOf(k, h, w, acc) ==
    /\ \A x \in Stellar : account[x] # "keyless" /\ Readable(x)
    /\ acc \in KeyIds => keychain[w] = acc
    /\ h = "store" /\ w \in Stellar => acc # "keyless"
    /\ h = "store" /\ k = "disable" => acc = "plain"
    /\ k = "register" /\ h \in {"ceremony", "close", "seal"} => account[w] = "plain"
    /\ k = "disable" /\ h \in Plain => account[w] = "plain" /\ acc \notin KeyIds

Orderly(k, h, w, acc, reg) ==
    /\ LockOf(h)
    /\ setup = "upgraded" => FilesOf(h, w, reg) /\ CleanOf(k, h, w, acc)
    /\ setup = "crashes" => legacy = NoCopy /\ (lock # "abandoned" => SeedsOf(k, h, w, acc))
Settled == Orderly("other", "none", Nobody, "keyless", Resting.reg)

\* But for racing commands, one runs at a time, and what it has begun explains
\* every difference.
Alone == \A p, q \in Processes : ~Idle(p) /\ ~Idle(q) => p = q
InOrder ==
    setup # "racing" =>
        /\ Alone
        /\ AllIdle => Settled
        /\ \A p \in Processes : ~Idle(p) =>
              \E k \in Kinds : Doing(k, proc[p]) /\ Orderly(k, Head(proc[p].do), proc[p].w, proc[p].acc, proc[p].reg)

IInv == Stored /\ Running /\ InOrder

------------------------------------------------------------------------------
(* The commands follow the rules.                                             *)

\* The list s goes from a to b by the rules of kind k.
Links(k, s, a, b) ==
    /\ s \in Seq(Names) /\ s # <<>> /\ s[1] = a /\ s[Len(s)] = b
    /\ \A i \in 1..(Len(s) - 1) : s[i + 1] \in Then(k, s[i])

\* A list that goes by the rules to a last operation is an attempt.
LEMMA LinksFollow ==
    ASSUME NEW k, NEW s, NEW a, NEW b, Links(k, s, a, b), b \in Lasts(k)
    PROVE  Follows(k, s) /\ Head(s) = a /\ s \in Seq(Names)
BY DEF Links, Follows

\* A list of one operation.
LEMMA One == ASSUME NEW k, NEW a \in Names PROVE Links(k, <<a>>, a, a)
BY DEF Links

\* Two lists that go by the rules, one after the other.
LEMMA Join ==
    ASSUME NEW k, NEW s, NEW t, NEW a, NEW b, NEW c, NEW d,
           Links(k, s, a, b), Links(k, t, c, d), c \in Then(k, b)
    PROVE  Links(k, s \o t, a, d)
<1>1. /\ s \in Seq(Names) /\ t \in Seq(Names) /\ s # <<>> /\ t # <<>>
      /\ Len(s) \in Nat \ {0} /\ Len(t) \in Nat \ {0}
  BY EmptySeq DEF Links
<1>2. /\ s \o t \in Seq(Names) /\ Len(s \o t) = Len(s) + Len(t)
      /\ \A i \in 1..(Len(s) + Len(t)) : (s \o t)[i] = IF i <= Len(s) THEN s[i] ELSE t[i - Len(s)]
  BY <1>1, ConcatProperties
<1> DEFINE u == s \o t
<1> HIDE DEF u
<1>3. u \in Seq(Names) /\ Len(u) = Len(s) + Len(t) /\ u # <<>> 
  <2>1. Len(u) = Len(s) + Len(t) /\ u \in Seq(Names)
    BY <1>2 DEF u
  <2> QED BY <2>1, <1>1
<1>4. \A i \in 1..Len(s) : u[i] = s[i]
  BY <1>1, <1>2 DEF u
<1>5. \A i \in 1..Len(t) : u[Len(s) + i] = t[i]
  <2> TAKE i \in 1..Len(t)
  <2>1. Len(s) + i \in 1..(Len(s) + Len(t)) /\ ~(Len(s) + i <= Len(s)) /\ (Len(s) + i) - Len(s) = i
    BY <1>1
  <2> QED BY <2>1, <1>2 DEF u
<1>6. u[1] = a /\ u[Len(u)] = d
  BY <1>1, <1>3, <1>4, <1>5 DEF Links
<1>7. ASSUME NEW i \in 1..(Len(u) - 1) PROVE u[i + 1] \in Then(k, u[i])
  <2>1. CASE i < Len(s)
    <3>1. i \in 1..(Len(s) - 1) /\ i \in 1..Len(s) /\ i + 1 \in 1..Len(s)
      BY <2>1, <1>1, <1>3
    <3>2. u[i] = s[i] /\ u[i + 1] = s[i + 1]
      BY <3>1, <1>4
    <3> QED BY <3>1, <3>2 DEF Links
  <2>2. CASE i = Len(s)
    <3>1. u[i] = b
      BY <2>2, <1>1, <1>4 DEF Links
    <3>2. u[i + 1] = c
      BY <2>2, <1>1, <1>5 DEF Links
    <3> QED BY <3>1, <3>2
  <2>3. CASE i > Len(s)
    <3>1. PICK j \in 1..(Len(t) - 1) : i = Len(s) + j
      <4>1. i - Len(s) \in 1..(Len(t) - 1) /\ i = Len(s) + (i - Len(s))
        BY <2>3, <1>1, <1>3
      <4> QED BY <4>1
    <3>2. j \in 1..Len(t) /\ j + 1 \in 1..Len(t) /\ i + 1 = Len(s) + (j + 1)
      BY <3>1, <1>1
    <3>3. u[i] = t[j] /\ u[i + 1] = t[j + 1]
      BY <3>1, <3>2, <1>5
    <3> QED BY <3>1, <3>3 DEF Links
  <2> QED BY <2>1, <2>2, <2>3, <1>1, <1>3
<1> QED BY <1>3, <1>6, <1>7 DEF Links, u

\* The pieces the commands are made of.
LEMMA Pieces ==
    /\ \A e \in Edits : Links("other", Save(e), e, "release")
    /\ \A b \in BOOLEAN : Links("other", AddWallet(b), "store", "release")
    /\ Links("other", Refresh, "read", "release")
    /\ \A k \in Kinds : Links(k, AddWallet(FALSE), "store", "release")
<1>1. ASSUME NEW e \in Edits PROVE Links("other", Save(e), e, "release")
  BY <1>1 DEF Edits, Links, Save, Then, OtherThen, Names
<1>2. ASSUME NEW k \in Kinds PROVE Links(k, Save("enter"), "enter", "release")
  BY <1>2 DEF Links, Save, Then, OtherThen, RegisterThen, DisableThen, Names, Kinds
<1>3. ASSUME NEW k \in Kinds PROVE Links(k, AddWallet(FALSE), "store", "release")
  <2>1. "enter" \in Then(k, "store") /\ "store" \in Names
    BY DEF Then, OtherThen, RegisterThen, DisableThen, Kinds, Names
  <2>2. AddWallet(FALSE) = <<"store">> \o Save("enter")
    BY DEF AddWallet
  <2> QED BY <2>1, <2>2, <1>2, One, Join
<1>4. Links("other", AddWallet(TRUE), "store", "release")
  <2>1. "enterActive" \in Then("other", "store") /\ "store" \in Names /\ "enterActive" \in Edits
    BY DEF Then, OtherThen, Names, Edits
  <2>2. AddWallet(TRUE) = <<"store">> \o Save("enterActive")
    BY DEF AddWallet
  <2> QED BY <2>1, <2>2, <1>1, One, Join
<1>5. \A b \in BOOLEAN : Links("other", AddWallet(b), "store", "release")
  BY <1>3, <1>4 DEF Kinds
<1>6. Links("other", Refresh, "read", "release")
  <2>1. "store" \in Then("other", "read") /\ "read" \in Names
    BY DEF Then, OtherThen, Names
  <2> QED BY <2>1, <1>4, One, Join DEF Refresh
<1> QED BY <1>1, <1>3, <1>5, <1>6

\* An attempt that follows the rules of one kind.
LEMMA AttemptIs ==
    ASSUME NEW k \in Kinds, NEW w \in Wallets \cup {Nobody}, NEW s, NEW a, NEW b,
           Links(k, s, a, b), a \in Firsts(k), b \in Lasts(k), w = Nobody => a \in Readers
    PROVE  [w |-> w, do |-> s] \in Attempt
<1>1. Follows(k, s) /\ Head(s) = a /\ s \in Seq(Names)
  BY LinksFollow
<1> DEFINE x == [w |-> w, do |-> s]
<1>2. x \in [w : Wallets \cup {Nobody}, do : Seq(Names)] /\ x.do = s /\ x.w = w
  BY <1>1
<1> QED BY <1>1, <1>2 DEF Attempt

\* What an old release left is taken over.
LEMMA MigrateIs == Migrate \in Attempt
<1>1. /\ "store" \in Then("other", "readLegacy") /\ "backup" \in Then("other", "release")
      /\ "readLegacy" \in Names /\ "backup" \in Names
      /\ "readLegacy" \in Firsts("other") /\ "readLegacy" \in Readers /\ "backup" \in Lasts("other")
  BY DEF Then, OtherThen, Names, Firsts, Readers, Lasts
<1>2. Links("other", <<"readLegacy">> \o AddWallet(TRUE), "readLegacy", "release")
  BY <1>1, Pieces, One, Join
<1>3. Links("other", (<<"readLegacy">> \o AddWallet(TRUE)) \o <<"backup">>, "readLegacy", "backup")
  BY <1>1, <1>2, One, Join
<1> QED BY <1>1, <1>3, AttemptIs DEF Migrate, Kinds

\* A command of one attempt, or of a migration and another attempt.
LEMMA CommandOf ==
    ASSUME NEW a \in Attempt
    PROVE  /\ <<a>> \in Seq(Attempt) /\ <<a>> # <<>>
           /\ <<Migrate, a>> \in Seq(Attempt) /\ <<Migrate, a>> # <<>>
BY MigrateIs

Runnable(cs) == \A c \in cs : c \in Seq(Attempt) /\ c # <<>>

\* A wallet is created and entered.
LEMMA CreateIs == ASSUME NEW w \in Wallets PROVE [w |-> w, do |-> <<"create">> \o AddWallet(TRUE)] \in Attempt
<1>1. /\ "store" \in Then("other", "create")
      /\ "create" \in Names
      /\ "create" \in Firsts("other") /\ "release" \in Lasts("other") /\ "other" \in Kinds
  BY DEF Then, OtherThen, RegisterThen, DisableThen, Names, Firsts, Readers, Lasts, Edits, Kinds
<1>2. Links("other", <<"create">> \o AddWallet(TRUE), "create", "release")
  BY <1>1, Pieces, One, Join
<1> QED BY <1>1, <1>2, AttemptIs, WalletAssumptions

\* A wallet is created and entered, but not made active.
LEMMA CreatePassiveIs ==
    ASSUME NEW w \in Wallets
    PROVE  [w |-> w, do |-> <<"create">> \o AddWallet(FALSE)] \in Attempt
<1>1. /\ "store" \in Then("other", "create")
      /\ "create" \in Names
      /\ "create" \in Firsts("other") /\ "release" \in Lasts("other") /\ "other" \in Kinds
  BY DEF Then, OtherThen, RegisterThen, DisableThen, Names, Firsts, Readers, Lasts, Edits, Kinds
<1>2. Links("other", <<"create">> \o AddWallet(FALSE), "create", "release")
  BY <1>1, Pieces, One, Join
<1> QED BY <1>1, <1>2, AttemptIs, WalletAssumptions

\* A wallet is imported under a name.
LEMMA ImportRenameIs ==
    ASSUME NEW w \in Wallets
    PROVE  [w |-> w, do |-> <<"create">> \o AddWallet(TRUE) \o Save("rename")] \in Attempt
<1>1. /\ "store" \in Then("other", "create")
      /\ "rename" \in Then("other", "release")
      /\ "create" \in Names
      /\ "rename" \in Edits
      /\ "create" \in Firsts("other") /\ "release" \in Lasts("other") /\ "other" \in Kinds
  BY DEF Then, OtherThen, RegisterThen, DisableThen, Names, Firsts, Readers, Lasts, Edits, Kinds
<1>2. Links("other", <<"create">> \o AddWallet(TRUE), "create", "release")
  BY <1>1, Pieces, One, Join
<1>3. Links("other", (<<"create">> \o AddWallet(TRUE)) \o Save("rename"), "create", "release")
  BY <1>1, <1>2, Pieces, One, Join
<1> QED BY <1>1, <1>3, AttemptIs, WalletAssumptions

\* A wallet is refreshed.
LEMMA RefreshIs == ASSUME NEW w \in Wallets PROVE [w |-> w, do |-> Refresh] \in Attempt
<1>1. /\ "read" \in Firsts("other") /\ "release" \in Lasts("other") /\ "other" \in Kinds
  BY DEF Then, OtherThen, RegisterThen, DisableThen, Names, Firsts, Readers, Lasts, Edits, Kinds
<1>2. Links("other", Refresh, "read", "release")
  BY <1>1, Pieces, One
<1> QED BY <1>1, <1>2, AttemptIs, WalletAssumptions

\* The active wallet is refreshed.
LEMMA BalanceIs == [w |-> Nobody, do |-> <<"readActive">> \o Refresh] \in Attempt
<1>1. /\ "read" \in Then("other", "readActive")
      /\ "readActive" \in Names
      /\ "readActive" \in Firsts("other") /\ "release" \in Lasts("other") /\ "other" \in Kinds
      /\ "readActive" \in Readers
  BY DEF Then, OtherThen, RegisterThen, DisableThen, Names, Firsts, Readers, Lasts, Edits, Kinds
<1>2. Links("other", <<"readActive">> \o Refresh, "readActive", "release")
  BY <1>1, Pieces, One, Join
<1> QED BY <1>1, <1>2, AttemptIs

\* A wallet is made active and refreshed.
LEMMA ShowIs ==
    ASSUME NEW w \in Wallets
    PROVE  [w |-> w, do |-> Save("activate") \o <<"readActive">> \o Refresh] \in Attempt
<1>1. /\ "readActive" \in Then("other", "release")
      /\ "read" \in Then("other", "readActive")
      /\ "activate" \in Edits
      /\ "readActive" \in Names
      /\ "activate" \in Firsts("other") /\ "release" \in Lasts("other") /\ "other" \in Kinds
  BY DEF Then, OtherThen, RegisterThen, DisableThen, Names, Firsts, Readers, Lasts, Edits, Kinds
<1>2. Links("other", Save("activate") \o <<"readActive">>, "activate", "readActive")
  BY <1>1, Pieces, One, Join
<1>3. Links("other", (Save("activate") \o <<"readActive">>) \o Refresh, "activate", "release")
  BY <1>1, <1>2, Pieces, One, Join
<1> QED BY <1>1, <1>3, AttemptIs, WalletAssumptions

\* The active wallet is read.
LEMMA AssetsIs == [w |-> Nobody, do |-> <<"readActive">>] \in Attempt
<1>1. /\ "readActive" \in Names
      /\ "readActive" \in Firsts("other") /\ "readActive" \in Lasts("other") /\ "other" \in Kinds
      /\ "readActive" \in Readers
  BY DEF Then, OtherThen, RegisterThen, DisableThen, Names, Firsts, Readers, Lasts, Edits, Kinds
<1>2. Links("other", <<"readActive">>, "readActive", "readActive")
  BY <1>1, Pieces, One
<1> QED BY <1>1, <1>2, AttemptIs

\* A wallet is made active and read.
LEMMA SwitchIs == ASSUME NEW w \in Wallets PROVE [w |-> w, do |-> Save("activate") \o <<"readActive">>] \in Attempt
<1>1. /\ "readActive" \in Then("other", "release")
      /\ "activate" \in Edits
      /\ "readActive" \in Names
      /\ "activate" \in Firsts("other") /\ "readActive" \in Lasts("other") /\ "other" \in Kinds
  BY DEF Then, OtherThen, RegisterThen, DisableThen, Names, Firsts, Readers, Lasts, Edits, Kinds
<1>2. Links("other", Save("activate") \o <<"readActive">>, "activate", "readActive")
  BY <1>1, Pieces, One, Join
<1> QED BY <1>1, <1>2, AttemptIs, WalletAssumptions

\* A wallet is made active.
LEMMA ActivateIs == ASSUME NEW w \in Wallets PROVE [w |-> w, do |-> Save("activate")] \in Attempt
<1>1. /\ "activate" \in Edits
      /\ "activate" \in Firsts("other") /\ "release" \in Lasts("other") /\ "other" \in Kinds
  BY DEF Then, OtherThen, RegisterThen, DisableThen, Names, Firsts, Readers, Lasts, Edits, Kinds
<1>2. Links("other", Save("activate"), "activate", "release")
  BY <1>1, Pieces, One
<1> QED BY <1>1, <1>2, AttemptIs, WalletAssumptions

\* A wallet is renamed.
LEMMA RenameIs == ASSUME NEW w \in Wallets PROVE [w |-> w, do |-> Save("rename")] \in Attempt
<1>1. /\ "rename" \in Edits
      /\ "rename" \in Firsts("other") /\ "release" \in Lasts("other") /\ "other" \in Kinds
  BY DEF Then, OtherThen, RegisterThen, DisableThen, Names, Firsts, Readers, Lasts, Edits, Kinds
<1>2. Links("other", Save("rename"), "rename", "release")
  BY <1>1, Pieces, One
<1> QED BY <1>1, <1>2, AttemptIs, WalletAssumptions

\* A wallet is read and removed.
LEMMA RemoveIs == ASSUME NEW w \in Wallets PROVE [w |-> w, do |-> <<"read", "delete">> \o Save("drop")] \in Attempt
<1>1. /\ "drop" \in Then("other", "delete")
      /\ "drop" \in Edits
      /\ "read" \in Firsts("other") /\ "release" \in Lasts("other") /\ "other" \in Kinds
  BY DEF Then, OtherThen, RegisterThen, DisableThen, Names, Firsts, Readers, Lasts, Edits, Kinds
<1>0. Links("other", <<"read", "delete">>, "read", "delete")
  BY DEF Links, Then, OtherThen, Names
<1>2. Links("other", <<"read", "delete">> \o Save("drop"), "read", "release")
  BY <1>0, <1>1, Pieces, Join
<1> QED BY <1>1, <1>2, AttemptIs, WalletAssumptions

\* A wallet is removed.
LEMMA HandleRemoveIs == ASSUME NEW w \in Wallets PROVE [w |-> w, do |-> <<"delete">> \o Save("drop")] \in Attempt
<1>1. /\ "drop" \in Then("other", "delete")
      /\ "delete" \in Names
      /\ "drop" \in Edits
      /\ "delete" \in Firsts("other") /\ "release" \in Lasts("other") /\ "other" \in Kinds
  BY DEF Then, OtherThen, RegisterThen, DisableThen, Names, Firsts, Readers, Lasts, Edits, Kinds
<1>2. Links("other", <<"delete">> \o Save("drop"), "delete", "release")
  BY <1>1, Pieces, One, Join
<1> QED BY <1>1, <1>2, AttemptIs, WalletAssumptions

\* A wallet is read.
LEMMA StatusIs == ASSUME NEW w \in Wallets PROVE [w |-> w, do |-> <<"read">>] \in Attempt
<1>1. /\ "read" \in Names
      /\ "read" \in Firsts("other") /\ "read" \in Lasts("other") /\ "other" \in Kinds
  BY DEF Then, OtherThen, RegisterThen, DisableThen, Names, Firsts, Readers, Lasts, Edits, Kinds
<1>2. Links("other", <<"read">>, "read", "read")
  BY <1>1, Pieces, One
<1> QED BY <1>1, <1>2, AttemptIs, WalletAssumptions

\* A grant is dropped.
LEMMA LockIs == ASSUME NEW w \in Wallets PROVE [w |-> w, do |-> <<"dropGrant">>] \in Attempt
<1>1. /\ "dropGrant" \in Names
      /\ "dropGrant" \in Firsts("other") /\ "dropGrant" \in Lasts("other") /\ "other" \in Kinds
  BY DEF Then, OtherThen, RegisterThen, DisableThen, Names, Firsts, Readers, Lasts, Edits, Kinds
<1>2. Links("other", <<"dropGrant">>, "dropGrant", "dropGrant")
  BY <1>1, Pieces, One
<1> QED BY <1>1, <1>2, AttemptIs, WalletAssumptions

\* The seed of a wallet is resolved.
LEMMA ExportIs == ASSUME NEW w \in Wallets PROVE [w |-> w, do |-> <<"read", "resolve">>] \in Attempt
<1>1. Links("other", <<"read", "resolve">>, "read", "resolve")
  BY DEF Links, Then, OtherThen, Names
<1>2. "read" \in Firsts("other") /\ "resolve" \in Lasts("other") /\ "other" \in Kinds
  BY DEF Firsts, Lasts, Kinds, Readers
<1> QED BY <1>1, <1>2, AttemptIs, WalletAssumptions

\* The seed of the active wallet is resolved.
LEMMA SignIs == [w |-> Nobody, do |-> <<"readActive", "resolve">>] \in Attempt
<1>1. Links("other", <<"readActive", "resolve">>, "readActive", "resolve")
  BY DEF Links, Then, OtherThen, Names
<1>2. /\ "readActive" \in Firsts("other") /\ "resolve" \in Lasts("other") /\ "other" \in Kinds
      /\ "readActive" \in Readers
  BY DEF Firsts, Lasts, Kinds, Readers
<1> QED BY <1>1, <1>2, AttemptIs

\* The active wallet is funded.
LEMMA FundIs == [w |-> Nobody, do |-> <<"readActiveOrCache", "cacheFunded">>] \in Attempt
<1>1. Links("other", <<"readActiveOrCache", "cacheFunded">>, "readActiveOrCache", "cacheFunded")
  BY DEF Links, Then, OtherThen, Names
<1>2. /\ "readActiveOrCache" \in Firsts("other") /\ "cacheFunded" \in Lasts("other") /\ "other" \in Kinds
      /\ "readActiveOrCache" \in Readers
  BY DEF Firsts, Lasts, Kinds, Readers
<1> QED BY <1>1, <1>2, AttemptIs

\* A wallet is unlocked.
LEMMA UnlockIs ==
    ASSUME NEW w \in Wallets
    PROVE  [w |-> w, do |-> <<"readSealed", "ceremony", "close", "grant">>] \in Attempt
<1>1. Links("other", <<"readSealed", "ceremony", "close", "grant">>, "readSealed", "grant")
  BY DEF Links, Then, OtherThen, Names
<1>2. "readSealed" \in Firsts("other") /\ "grant" \in Lasts("other") /\ "other" \in Kinds
  BY DEF Firsts, Lasts, Kinds, Readers
<1> QED BY <1>1, <1>2, AttemptIs, WalletAssumptions

\* A passkey is registered.
LEMMA RegisterIs ==
    ASSUME NEW w \in Wallets
    PROVE  [w |-> w, do |-> <<"readPlain", "ceremony", "close", "seal">> \o AddWallet(FALSE)
                            \o <<"savePasskey", "scrub">>] \in Attempt
<1>1. /\ Links("register", <<"readPlain", "ceremony", "close", "seal">>, "readPlain", "seal")
      /\ Links("register", <<"savePasskey", "scrub">>, "savePasskey", "scrub")
  BY DEF Links, Then, RegisterThen, DisableThen, Names
<1>2. /\ "store" \in Then("register", "seal") /\ "savePasskey" \in Then("register", "release")
      /\ "register" \in Kinds
      /\ "readPlain" \in Firsts("register") /\ "scrub" \in Lasts("register")
  BY DEF Then, RegisterThen, DisableThen, Kinds, Firsts, Lasts
<1>3. Links("register", <<"readPlain", "ceremony", "close", "seal">> \o AddWallet(FALSE), "readPlain", "release")
  BY <1>1, <1>2, Pieces, Join
<1>4. Links("register", (<<"readPlain", "ceremony", "close", "seal">> \o AddWallet(FALSE)) \o <<"savePasskey", "scrub">>,
             "readPlain", "scrub")
  BY <1>1, <1>2, <1>3, Join
<1> QED BY <1>2, <1>4, AttemptIs, WalletAssumptions

\* Protection by a passkey is disabled.
LEMMA DisableIs ==
    ASSUME NEW w \in Wallets
    PROVE  [w |-> w, do |-> <<"readSealed", "ceremony", "close", "unseal">> \o AddWallet(FALSE)
                            \o <<"dropGrant", "deleteKey", "deletePasskeys">>] \in Attempt
<1>1. /\ Links("disable", <<"readSealed", "ceremony", "close", "unseal">>, "readSealed", "unseal")
      /\ Links("disable", <<"dropGrant", "deleteKey", "deletePasskeys">>, "dropGrant", "deletePasskeys")
  BY DEF Links, Then, RegisterThen, DisableThen, Names
<1>2. /\ "store" \in Then("disable", "unseal") /\ "dropGrant" \in Then("disable", "release") /\ "disable" \in Kinds
      /\ "readSealed" \in Firsts("disable") /\ "deletePasskeys" \in Lasts("disable")
  BY DEF Then, RegisterThen, DisableThen, Kinds, Firsts, Lasts
<1>3. Links("disable", <<"readSealed", "ceremony", "close", "unseal">> \o AddWallet(FALSE), "readSealed", "release")
  BY <1>1, <1>2, Pieces, Join
<1>4. Links("disable", (<<"readSealed", "ceremony", "close", "unseal">> \o AddWallet(FALSE)) \o <<"dropGrant", "deleteKey", "deletePasskeys">>,
             "readSealed", "deletePasskeys")
  BY <1>1, <1>2, <1>3, Join
<1> QED BY <1>2, <1>4, AttemptIs, WalletAssumptions

\* wallet list works through the wallets the registry lists.
LEMMA ListIs == ASSUME registry.entries \subseteq Wallets PROVE Runnable(List)
<1>1. IsFiniteSet(registry.entries)
  BY WalletAssumptions, FS_Subset
<1>2. Cardinality(registry.entries) \in Nat
  BY <1>1, FS_CardinalityType
<1> SUFFICES ASSUME NEW order \in SetToSeqs(registry.entries)
             PROVE  LET c == <<Migrate>> \o [i \in DOMAIN order |-> [w |-> order[i], do |-> Refresh]]
                    IN  c \in Seq(Attempt) /\ c # <<>>
  BY DEF List, Runnable
<1> DEFINE n == Cardinality(registry.entries)
           rest == [i \in DOMAIN order |-> [w |-> order[i], do |-> Refresh]]
<1>3. DOMAIN order = 1..n /\ \A i \in 1..n : order[i] \in Wallets
  BY DEF SetToSeqs
<1>4. rest \in [1..n -> Attempt]
  BY <1>3, RefreshIs
<1>5. rest \in Seq(Attempt)
  BY <1>2, <1>4, SeqDef
<1>6. <<Migrate>> \in Seq(Attempt) /\ Len(<<Migrate>>) = 1
  BY MigrateIs
<1> HIDE DEF rest
<1>7. <<Migrate>> \o rest \in Seq(Attempt) /\ Len(<<Migrate>> \o rest) = 1 + Len(rest) /\ Len(rest) \in Nat
  BY <1>5, <1>6, ConcatProperties, LenProperties
<1>8. <<Migrate>> \o rest # <<>>
  BY <1>7, EmptySeq
<1> QED BY <1>7, <1>8 DEF rest

\* Every command is a list of attempts by the rules.
LEMMA CommandsAre == ASSUME registry.entries \subseteq Wallets PROVE Runnable(Commands)
<1>1. Runnable(List)
  BY ListIs
<1>2. Runnable(Balance) /\ Runnable(Show)
  BY BalanceIs, RefreshIs, ShowIs, CommandOf DEF Runnable, Balance, Show
<1>3. Runnable(Assets) /\ Runnable(Fund) /\ Runnable(Sign)
  BY AssetsIs, FundIs, SignIs, CommandOf DEF Runnable, Assets, Fund, Sign
<1>4. ASSUME NEW w \in Wallets
      PROVE  /\ Runnable(Connect(w)) /\ Runnable(Import(w)) /\ Runnable(Switch(w)) /\ Runnable(Rename(w))
             /\ Runnable(Export(w)) /\ Runnable(RemoveWallet(w)) /\ Runnable(Status(w))
  <2>1. Runnable(Connect(w)) /\ Runnable(Import(w))
    <3>1. \A b \in BOOLEAN : [w |-> w, do |-> <<"create">> \o AddWallet(b)] \in Attempt
      BY CreateIs, CreatePassiveIs
    <3> QED BY <3>1, CommandOf DEF Runnable, Connect, Import
  <2>2. Runnable(Switch(w)) /\ Runnable(Rename(w))
    BY SwitchIs, RenameIs, CommandOf DEF Runnable, Switch, Rename
  <2>3. Runnable(Export(w)) /\ Runnable(RemoveWallet(w)) /\ Runnable(Status(w))
    BY ExportIs, RemoveIs, StatusIs, CommandOf DEF Runnable, Export, RemoveWallet, Status
  <2> QED BY <2>1, <2>2, <2>3
<1>5. ASSUME NEW w \in Wallets
      PROVE  Runnable(Register(w)) /\ Runnable(Unlock(w)) /\ Runnable(Lock(w)) /\ Runnable(Disable(w))
  BY RegisterIs, UnlockIs, LockIs, DisableIs, CommandOf DEF Runnable, Register, Unlock, Lock, Disable
<1>6. ASSUME NEW w \in Wallets
      PROVE  /\ Runnable(HandleConnect(w)) /\ Runnable(HandleImport(w)) /\ Runnable(HandleFund(w))
             /\ Runnable(HandleSwitch(w)) /\ Runnable(HandleRename(w)) /\ Runnable(HandleRemove(w))
             /\ Runnable(HandleExport(w)) /\ Runnable(HandlePasskey(w)) /\ Runnable(PasskeyCommand(w))
             /\ Runnable(DisableCommand(w))
  <2>1. Runnable(HandleConnect(w)) /\ Runnable(HandleFund(w)) /\ Runnable(HandleSwitch(w))
    BY CreateIs, StatusIs, ActivateIs, CommandOf DEF Runnable, HandleConnect, HandleFund, HandleSwitch
  <2>2. Runnable(HandleImport(w))
    <3>1. <<"create">> \o AddWallet(TRUE) \o <<>> = <<"create">> \o AddWallet(TRUE)
      <4>1. Links("other", <<"create">> \o AddWallet(TRUE), "create", "release")
        <5>1. "store" \in Then("other", "create") /\ "create" \in Names
          BY DEF Then, OtherThen, Names
        <5> QED BY <5>1, Pieces, One, Join
      <4> QED BY <4>1, ConcatEmptySeq DEF Links
    <3> QED BY <3>1, CreateIs, ImportRenameIs, CommandOf DEF Runnable, HandleImport
  <2>3. Runnable(HandleRename(w)) /\ Runnable(HandleRemove(w)) /\ Runnable(HandleExport(w))
    BY <1>4, HandleRemoveIs, ExportIs, CommandOf DEF Runnable, HandleRename, HandleRemove, HandleExport
  <2>4. Runnable(HandlePasskey(w)) /\ Runnable(PasskeyCommand(w)) /\ Runnable(DisableCommand(w))
    BY <1>5 DEF Runnable, HandlePasskey, PasskeyCommand, DisableCommand
  <2> QED BY <2>1, <2>2, <2>3, <2>4
<1> QED BY <1>1, <1>2, <1>3, <1>4, <1>5, <1>6 DEF Runnable, Commands
------------------------------------------------------------------------------
(* Processes.                                                                 *)

\* A process about to run an attempt knows nothing yet.
Fresh(n) ==
    \/ n = Resting
    \/ /\ n \in Process /\ n.do # <<>> /\ n.acc = "keyless" /\ n.reg = Resting.reg
       /\ \E k \in Kinds : Doing(k, n) /\ Head(n.do) \in Firsts(k)

\* A resting process is well formed.
LEMMA RestingIs == Resting \in Process /\ Resting.do = <<>> /\ Resting.reg \in Registry /\ NoCeremony \in CeremonyType
<1>1. NoCeremony \in CeremonyType
  BY WalletAssumptions DEF NoCeremony, CeremonyType
<1>2. Resting.reg \in Registry
  BY DEF Resting, Registry
<1>3. <<>> \in Seq(Names) /\ <<>> \in Seq(Attempt)
  BY EmptySeq
<1> QED BY <1>1, <1>2, <1>3 DEF Resting, Process, Account

\* The first attempt of what is left begins knowing nothing.
LEMMA FreshIs == ASSUME NEW as \in Seq(Attempt) PROVE Fresh(StartAttempts(as))
<1>1. CASE as = <<>>
  BY <1>1 DEF Fresh, StartAttempts
<1>2. CASE as # <<>>
  <2>1. Head(as) \in Attempt /\ Tail(as) \in Seq(Attempt)
    BY <1>2, HeadTailProperties
  <2> DEFINE n == StartAttempts(as)
  <2>2. n = [Resting EXCEPT !.do = Head(as).do, !.later = Tail(as), !.w = Head(as).w]
    BY <1>2 DEF StartAttempts
  <2>3. /\ n \in Process /\ n.do = Head(as).do /\ n.w = Head(as).w /\ n.acc = "keyless" /\ n.reg = Resting.reg
    <3>1. Head(as).do \in Seq(Names) /\ Head(as).w \in Wallets \cup {Nobody}
      BY <2>1 DEF Attempt
    <3>2. Resting.acc = "keyless"
      BY DEF Resting
    <3>3. n.do = Head(as).do /\ n.w = Head(as).w /\ n.acc = "keyless" /\ n.reg = Resting.reg
      BY <2>2 DEF Resting
    <3>4. n \in Process
      BY <2>1, <2>2, <3>1, RestingIs DEF Process
    <3> QED BY <3>3, <3>4
  <2>4. PICK k \in Kinds : Follows(k, n.do) /\ Head(n.do) \in Firsts(k)
    BY <2>1, <2>3 DEF Attempt
  <2>5. Doing(k, n)
    <3>1. k = "register" => Head(n.do) = "readPlain"
      BY <2>4 DEF Firsts
    <3>2. n.w = Nobody => Head(n.do) \in Readers
      BY <2>1, <2>3 DEF Attempt
    <3> QED BY <2>4, <3>1, <3>2 DEF Doing
  <2>6. n.do # <<>>
    BY <2>4 DEF Follows
  <2> HIDE DEF n
  <2> QED BY <2>3, <2>4, <2>5, <2>6 DEF Fresh, n
<1> QED BY <1>1, <1>2

\* What is left of a list follows the rules too.
LEMMA TailFollows ==
    ASSUME NEW k, NEW s \in Seq(Names), Follows(k, s)
    PROVE  /\ s # <<>>
           /\ Tail(s) = <<>> => Head(s) \in Lasts(k)
           /\ Tail(s) # <<>> => Follows(k, Tail(s)) /\ Head(Tail(s)) \in Then(k, Head(s)) /\ Tail(s) \in Seq(Names)
<1>1. s # <<>> /\ Len(s) \in Nat \ {0} /\ Head(s) = s[1]
  BY EmptySeq DEF Follows
<1> DEFINE t == Tail(s)
<1>2. /\ t \in Seq(Names) /\ Len(t) = Len(s) - 1
      /\ \A i \in 1..Len(t) : t[i] = s[i + 1]
  BY <1>1, HeadTailProperties
<1> HIDE DEF t
<1>3. CASE t = <<>>
  <2>1. Len(t) = 0
    BY <1>3, EmptySeq
  <2>2. Len(s) = 1
    BY <2>1, <1>1, <1>2
  <2> QED BY <2>2, <1>1, <1>3 DEF Follows, t
<1>4. CASE t # <<>>
  <2>1. Len(t) \in Nat \ {0}
    BY <1>2, <1>4, EmptySeq
  <2>2. Head(t) = s[2]
    BY <1>2, <1>4, <2>1
  <2>3. s[2] \in Then(k, s[1])
    <3>1. 1 \in 1..(Len(s) - 1)
      BY <1>1, <1>2, <2>1
    <3> QED BY <3>1 DEF Follows
  <2>4. t[Len(t)] \in Lasts(k)
    BY <1>1, <1>2, <2>1 DEF Follows
  <2>5. ASSUME NEW i \in 1..(Len(t) - 1) PROVE t[i + 1] \in Then(k, t[i])
    <3>1. i \in 1..Len(t) /\ i + 1 \in 1..Len(t) /\ i + 1 \in 1..(Len(s) - 1)
      BY <1>1, <1>2, <2>1
    <3> QED BY <3>1, <1>2 DEF Follows
  <2> QED BY <1>1, <1>2, <1>4, <2>2, <2>3, <2>4, <2>5 DEF Follows, t
<1> QED BY <1>3, <1>4

\* A process has nothing left to do just when it rests.
LEMMA BusyIs ==
    ASSUME Running, NEW p \in Processes
    PROVE  /\ proc[p] \in Process
           /\ Idle(p) <=> proc[p].do = <<>>
           /\ ~Idle(p) => \E k \in Kinds : Doing(k, proc[p])
           /\ \A h : At(p, h) => ~Idle(p) /\ Head(proc[p].do) = h
<1>1. Sound(proc[p]) /\ proc[p] \in Process
  BY DEF Running
<1>2. ASSUME NEW k \in Kinds, Doing(k, proc[p]) PROVE proc[p].do # <<>>
  BY <1>2 DEF Doing, Follows
<1> QED BY <1>1, <1>2, RestingIs DEF Sound, Idle, At

\* What comes after what.
LEMMA Order ==
    ASSUME NEW k \in Kinds, NEW g, NEW h \in Then(k, g)
    PROVE  /\ h \in {"enter", "enterActive"} <=> g = "store"
           /\ h = "drop" <=> g = "delete"
           /\ h = "acquire" <=> g \in Edits
           /\ h = "write" <=> g = "acquire"
           /\ h = "release" <=> g = "write"
           /\ h = "cacheFunded" <=> g = "readActiveOrCache"
           /\ h = "store" => g \in {"readLegacy", "create", "read", "seal", "unseal"}
           /\ k = "disable" => (h = "store" <=> g = "unseal")
           /\ k = "disable" => (h \in Plain <=> g \in {"store"} \cup (Plain \ {"deleteKey"}))
           /\ k = "register" => (h \in Entered <=> g \in {"store"} \cup (Entered \ {"scrub"}))
           /\ k = "register" => (h \in {"ceremony", "close", "seal"} <=> g \in {"readPlain", "ceremony", "close"})
           /\ k = "register" => h # "readPlain" /\ g \notin Readers
           /\ h \notin {"create", "readLegacy", "readPlain", "readSealed", "readActiveOrCache", "none"}
<1>1. CASE k = "register"
  BY <1>1 DEF Then, RegisterThen, Edits, Plain, Entered, Readers
<1>2. CASE k = "disable"
  BY <1>2 DEF Then, DisableThen, Edits, Plain, Entered
<1>3. CASE k = "other"
  BY <1>3 DEF Then, OtherThen, Edits, Plain, Entered
<1> QED BY <1>1, <1>2, <1>3 DEF Kinds

\* Where lists begin and end nothing is half done.
LEMMA Ends ==
    ASSUME NEW k \in Kinds
    PROVE  /\ \A h \in Firsts(k) : /\ h \notin {"enter", "enterActive", "drop", "acquire", "write", "release", "store"}
                                   /\ h \notin {"cacheFunded", "ceremony", "close", "seal"} /\ h \notin Entered
                                   /\ k = "disable" => h \notin Plain
           /\ \A h \in Lasts(k) : /\ h \notin {"store", "delete", "acquire", "write"} \cup Edits
                                  /\ k = "register" => h = "scrub"
                                  /\ k = "disable" => h = "deletePasskeys"
                                  /\ h = "release" => k = "other"
BY DEF Kinds, Firsts, Lasts, Readers, Entered, Plain, Edits

\* An attempt begins where all is settled.
LEMMA FreshIsOrderly ==
    ASSUME NEW k \in Kinds, NEW h \in Firsts(k), NEW w, Settled'
    PROVE  Orderly(k, h, w, "keyless", Resting.reg)'
<1>1. LockOf(h)'
  BY Ends DEF Settled, Orderly, LockOf
<1>2. setup' = "upgraded" => FilesOf(h, w, Resting.reg)'
  BY Ends DEF Settled, Orderly, FilesOf
<1>3. setup' = "upgraded" => CleanOf(k, h, w, "keyless")'
  BY Ends DEF Settled, Orderly, CleanOf, KeyIds, Entered
<1>4. (setup = "crashes" => legacy = NoCopy /\ (lock # "abandoned" => SeedsOf(k, h, w, "keyless")))'
  <2>1. "keyless" \notin KeyIds
    BY DEF KeyIds
  <2> QED BY <2>1, Ends DEF Settled, Orderly, SeedsOf
<1> QED BY <1>1, <1>2, <1>3, <1>4 DEF Orderly

\* What a step of process p must leave behind.
Explained(k, n) == Doing(k, n) /\ Orderly(k, Head(n.do), n.w, n.acc, n.reg)

\* A step of p that leaves behind what it must keeps the invariant.
LEMMA StepOf ==
    ASSUME IInv, NEW p \in Processes, ~Idle(p) \/ (setup # "racing" => AllIdle), NEW n, proc' = [proc EXCEPT ![p] = n],
           setup' = setup, Stored', Sound(n),
           setup # "racing" => IF n = Resting THEN Settled' ELSE \E k \in Kinds : Explained(k, n)'
    PROVE  IInv'
<1>1. proc \in [Processes -> Process]
  BY DEF IInv, Running
<1>2. proc'[p] = n /\ \A q \in Processes \ {p} : proc'[q] = proc[q]
  BY <1>1
<1>3. Running'
  <2>1. n \in Process
    BY DEF Sound
  <2>2. proc' \in [Processes -> Process]
    BY <1>1, <2>1
  <2> QED BY <1>2, <2>2 DEF IInv, Running, Sound, Doing
<1>4. InOrder'
  <2> SUFFICES ASSUME setup # "racing"
               PROVE  /\ Alone' /\ (AllIdle' => Settled')
                      /\ (\A q \in Processes : ~Idle(q) =>
                            \E k \in Kinds : Doing(k, proc[q])
                                            /\ Orderly(k, Head(proc[q].do), proc[q].w, proc[q].acc, proc[q].reg))'
    BY DEF InOrder
  <2>1. \A q \in Processes \ {p} : Idle(q) /\ Idle(q)'
    <3>1. \A q \in Processes \ {p} : Idle(q)
      BY DEF IInv, InOrder, Alone, AllIdle
    <3> QED BY <3>1, <1>2 DEF Idle
  <2>2. Idle(p)' <=> n = Resting
    BY <1>2 DEF Idle
  <2>3. Alone'
    BY <2>1 DEF Alone
  <2>4. AllIdle' => Settled'
    BY <2>2 DEF AllIdle
  <2>5. ASSUME NEW q \in Processes, ~Idle(q)'
        PROVE  (\E k \in Kinds : Doing(k, proc[q])
                               /\ Orderly(k, Head(proc[q].do), proc[q].w, proc[q].acc, proc[q].reg))'
    <3>1. proc'[q] = n /\ n # Resting
      BY <2>1, <2>2, <2>5, <1>2
    <3>2. PICK k \in Kinds : Explained(k, n)'
      BY <3>1
    <3>3. Doing(k, proc'[q]) /\ Orderly(k, Head(proc[q].do), proc[q].w, proc[q].acc, proc[q].reg)'
      BY <3>1, <3>2 DEF Explained, Doing, Orderly, LockOf, FilesOf, CleanOf, SeedsOf, Files, Readable
    <3> QED BY <3>3 DEF Doing
  <2> QED BY <2>3, <2>4, <2>5
<1> QED BY <1>3, <1>4 DEF IInv

\* A process that begins an attempt, or rests.
LEMMA FreshKeeps ==
    ASSUME IInv, NEW p \in Processes, ~Idle(p) \/ (setup # "racing" => AllIdle),
           NEW n, Fresh(n), proc' = [proc EXCEPT ![p] = n], setup' = setup, Stored',
           setup # "racing" => Settled'
    PROVE  IInv'
<1>1. Sound(n)
  <2>1. CASE n = Resting
    <3>1. n.acc = "keyless"
      BY <2>1 DEF Resting
    <3> QED BY <2>1, <3>1, RestingIs DEF Sound
  <2>2. CASE n # Resting
    BY <2>2 DEF Fresh, Sound
  <2> QED BY <2>1, <2>2
<1>2. ASSUME setup # "racing" PROVE IF n = Resting THEN Settled' ELSE \E k \in Kinds : Explained(k, n)'
  <2>1. ASSUME n # Resting PROVE \E k \in Kinds : Explained(k, n)'
    <3>1. PICK k \in Kinds : Doing(k, n) /\ Head(n.do) \in Firsts(k)
      BY <2>1 DEF Fresh
    <3>2. n.acc = "keyless" /\ n.reg = Resting.reg
      BY <2>1 DEF Fresh
    <3>3. Orderly(k, Head(n.do), n.w, "keyless", Resting.reg)'
      BY <1>2, <3>1, FreshIsOrderly
    <3>4. Orderly(k, Head(n.do), n.w, n.acc, n.reg)'
      BY <3>2, <3>3
    <3> QED BY <3>1, <3>4 DEF Explained, Doing
  <2> QED BY <1>2, <2>1
<1> QED BY <1>1, <1>2, StepOf

\* An attempt that ends at an error.
LEMMA FailKeeps ==
    ASSUME IInv, NEW p \in Processes, ~Idle(p), Fail(p), setup' = setup, Stored', setup # "racing" => Settled'
    PROVE  IInv'
<1>1. proc[p].later \in Seq(Attempt)
  BY BusyIs DEF IInv, Process
<1>2. proc' = [proc EXCEPT ![p] = StartAttempts(proc[p].later)]
  BY DEF Fail
<1> QED BY <1>1, <1>2, FreshIs, FreshKeeps

\* A process with state q goes on to its next operation.
LEMMA DoneKeeps ==
    ASSUME IInv, NEW p \in Processes, ~Idle(p), NEW k \in Kinds, Doing(k, proc[p]),
           NEW q \in Process, q.do = proc[p].do, q.later = proc[p].later, Done(p, q), setup' = setup, Stored',
           q.w # Nobody, q.acc # "keyless" \/ k = "register" => q.w \in Stellar,
           setup # "racing" =>
               /\ Head(q.do) \in Lasts(k) => Settled'
               /\ \A h \in Then(k, Head(q.do)) : Orderly(k, h, q.w, q.acc, q.reg)'
    PROVE  IInv'
<1>1. Follows(k, q.do) /\ q.do \in Seq(Names) /\ q.later \in Seq(Attempt)
  BY DEF Doing, Process
<1>2. CASE Tail(q.do) = <<>>
  <2>1. proc' = [proc EXCEPT ![p] = StartAttempts(q.later)]
    BY <1>2 DEF Done, After
  <2>2. Head(q.do) \in Lasts(k)
    BY <1>1, <1>2, TailFollows
  <2> QED BY <1>1, <2>1, <2>2, FreshIs, FreshKeeps
<1>3. CASE Tail(q.do) # <<>>
  <2>1. PICK n : n = [q EXCEPT !.do = Tail(q.do)]
    OBVIOUS
  <2>2. proc' = [proc EXCEPT ![p] = n]
    BY <1>3, <2>1 DEF Done, After
  <2>3. Follows(k, Tail(q.do)) /\ Head(Tail(q.do)) \in Then(k, Head(q.do)) /\ Tail(q.do) \in Seq(Names)
    BY <1>1, <1>3, TailFollows
  <2>4. n \in Process /\ n.do = Tail(q.do) /\ n.w = q.w /\ n.acc = q.acc /\ n.reg = q.reg
    BY <2>1, <2>3 DEF Process
  <2>5. Doing(k, n)
    BY <2>3, <2>4 DEF Doing
  <2>6. Sound(n)
    BY <2>4, <2>5 DEF Sound
  <2>7. n # Resting
    BY <1>3, <2>4, RestingIs
  <2>8. ASSUME setup # "racing" PROVE Explained(k, n)'
    <3>1. Orderly(k, Head(n.do), n.w, n.acc, n.reg)'
      BY <2>3, <2>4, <2>8
    <3> QED BY <2>5, <3>1 DEF Explained, Doing
  <2> QED BY <2>2, <2>6, <2>7, <2>8, StepOf
<1> QED BY <1>2, <1>3

\* Which kinds of attempts have operation h, and with which wallet.
LEMMA KindIs ==
    ASSUME NEW k \in Kinds, NEW q \in Process, Doing(k, q)
    PROVE  LET h == Head(q.do) IN
           /\ h \in Lasts(k) \/ Then(k, h) # {}
           /\ h \notin Readers => q.w \in Wallets
           /\ k = "register" /\ h # "readPlain" => q.w \in Stellar
<1>1. Follows(k, q.do) /\ q.do \in Seq(Names) /\ q.w \in Wallets \cup {Nobody}
  BY DEF Doing, Process
<1>2. Head(q.do) \in Lasts(k) \/ Then(k, Head(q.do)) # {}
  BY <1>1, TailFollows
<1> QED BY <1>1, <1>2 DEF Doing

\* Process p is in state q at operation h of an attempt of kind k.
Runs(p, k, q, h) ==
    /\ ~Idle(p) /\ proc[p] = q /\ q \in Process /\ k \in Kinds /\ Doing(k, q) /\ Head(q.do) = h
    /\ q.acc \in Account /\ q.w \in Wallets \cup {Nobody} /\ q.reg \in Registry
    /\ q.acc # "keyless" => q.w \in Stellar
    /\ h \notin Readers => q.w \in Wallets /\ q.w # Nobody
    /\ k = "register" /\ h # "readPlain" => q.w \in Stellar
    /\ h \in Lasts(k) \/ Then(k, h) # {}
    /\ setup # "racing" => Orderly(k, h, q.w, q.acc, q.reg)

\* A process at an operation is in some attempt that has it.
LEMMA AtIs == ASSUME IInv, NEW p \in Processes, NEW h, At(p, h) PROVE Stored /\ \E k, q : Runs(p, k, q, h)
<1>1. ~Idle(p) /\ proc[p] \in Process /\ Head(proc[p].do) = h
  BY BusyIs DEF IInv
<1>2. \E k \in Kinds : Doing(k, proc[p])
  BY <1>1, BusyIs DEF IInv
<1>3. ASSUME setup # "racing"
      PROVE \E k \in Kinds : Doing(k, proc[p]) /\ Orderly(k, h, proc[p].w, proc[p].acc, proc[p].reg)
  BY <1>1, <1>3 DEF IInv, InOrder
<1>4. Sound(proc[p])
  BY DEF IInv, Running
<1>5. PICK q : q = proc[p]
  OBVIOUS
<1>6. PICK k \in Kinds : Doing(k, q) /\ (setup # "racing" => Orderly(k, h, q.w, q.acc, q.reg))
  BY <1>2, <1>3, <1>5
<1>7. q \in Process /\ Head(q.do) = h
  BY <1>1, <1>5
<1>8. q.acc \in Account /\ q.w \in Wallets \cup {Nobody} /\ q.reg \in Registry
  BY <1>7 DEF Process
<1>9. q.acc # "keyless" => q.w \in Stellar
  BY <1>4, <1>5 DEF Sound
<1>10. /\ h \in Lasts(k) \/ Then(k, h) # {}
       /\ h \notin Readers => q.w \in Wallets
       /\ k = "register" /\ h # "readPlain" => q.w \in Stellar
  BY <1>6, <1>7, KindIs
<1>11. q.w \in Wallets => q.w # Nobody
  BY WalletAssumptions
<1>12. Runs(p, k, q, h)
  BY <1>1, <1>5, <1>6, <1>7, <1>8, <1>9, <1>10, <1>11 DEF Runs
<1> QED BY <1>12 DEF IInv

\* The process goes on with another wallet, account or copy of the registry.
LEMMA GoesOn ==
    ASSUME IInv, NEW p \in Processes, NEW k, NEW q, NEW h, Runs(p, k, q, h), NEW n,
           n \in Process /\ n.do = q.do /\ n.later = q.later, Done(p, n), setup' = setup, Stored',
           n.w # Nobody, n.acc # "keyless" \/ k = "register" => n.w \in Stellar,
           setup # "racing" /\ h \in Lasts(k) => Settled',
           setup # "racing" => \A g \in Then(k, h) : Orderly(k, g, n.w, n.acc, n.reg)'
    PROVE  IInv'
<1>1. ~Idle(p) /\ k \in Kinds /\ Doing(k, proc[p]) /\ n.do = proc[p].do /\ n.later = proc[p].later /\ Head(n.do) = h
  BY DEF Runs
<1> QED BY <1>1, DoneKeeps

\* Nothing but the account in memory, or the wallet it is of, is another one.
LEMMA With ==
    ASSUME NEW q \in Process
    PROVE  /\ \A a \in Account : LET n == [q EXCEPT !.acc = a] IN
                n \in Process /\ n.do = q.do /\ n.later = q.later /\ n.w = q.w /\ n.acc = a /\ n.reg = q.reg
           /\ \A r \in Registry : LET n == [q EXCEPT !.reg = r] IN
                n \in Process /\ n.do = q.do /\ n.later = q.later /\ n.w = q.w /\ n.acc = q.acc /\ n.reg = r
           /\ \A c \in CeremonyType : LET n == [q EXCEPT !.ceremony = c] IN
                n \in Process /\ n.do = q.do /\ n.later = q.later /\ n.w = q.w /\ n.acc = q.acc /\ n.reg = q.reg
BY DEF Process

------------------------------------------------------------------------------
(* Operations that change neither accounts, registry, keychain nor old files. *)

Same == UNCHANGED <<account, registry, keychain, cache, legacy, lock, setup>>
Unsettled == {"enter", "enterActive", "drop", "acquire", "write", "release", "savePasskey", "scrub"}

\* But for the steps from an edit to the end nothing is half done.
LEMMA SettledAgain ==
    ASSUME NEW k, NEW g, g \notin Unsettled, NEW w, NEW acc, NEW reg, Orderly(k, g, w, acc, reg), Same
    PROVE  Settled'
<1>1. LockOf("none")'
  BY DEF Same, Unsettled, Orderly, LockOf
<1>2. setup' = "upgraded" => FilesOf("none", Nobody, Resting.reg)'
  BY DEF Same, Unsettled, Orderly, FilesOf, Files
<1>3. setup' = "upgraded" => CleanOf("other", "none", Nobody, "keyless")'
  BY DEF Same, Unsettled, Orderly, CleanOf, Entered
<1>4. (setup = "crashes" => legacy = NoCopy /\ (lock # "abandoned" => SeedsOf("other", "none", Nobody, "keyless")))'
  <2>1. "keyless" \notin KeyIds
    BY DEF KeyIds
  <2> QED BY <2>1 DEF Same, Orderly, SeedsOf, Readable
<1> QED BY <1>1, <1>2, <1>3, <1>4 DEF Orderly, Settled

\* An operation that only reads, and what it must have read for the next one.
LEMMA QuietStep ==
    ASSUME NEW k \in Kinds, NEW g, g \notin {"store", "delete", "acquire", "write", "release", "deleteKey"} \cup Edits,
           NEW w, NEW acc, NEW reg, Orderly(k, g, w, acc, reg), Same, NEW h \in Then(k, g),
           NEW x, NEW a, NEW r, k # "other" => x = w,
           setup = "crashes" /\ lock # "abandoned" => (a \in KeyIds => keychain[x] = a),
           h = "store" => /\ k = "disable" => a = "plain"
                          /\ setup = "upgraded" /\ k = "other" /\ a \in KeyIds => account[x] = a
                          /\ setup = "crashes" /\ lock # "abandoned" /\ x \in Stellar => a # "keyless",
           setup = "upgraded" /\ h = "cacheFunded" /\ a = "plain" => account[x] \notin KeyIds,
           setup = "crashes" /\ lock # "abandoned" /\ k = "register" /\ g = "readPlain" => account[x] = "plain",
           k = "disable" /\ g = "dropGrant" => a = acc
    PROVE  Orderly(k, h, x, a, r)'
<1>1. /\ h \notin {"enter", "enterActive", "drop", "acquire", "write", "release"}
      /\ k = "disable" => (h \in Plain <=> g = "dropGrant")
      /\ k = "register" => (h \in Entered <=> g = "savePasskey")
      /\ k = "register" => (h \in {"ceremony", "close", "seal"} <=> g \in {"readPlain", "ceremony", "close"})
  BY Order DEF Plain, Entered, Edits
<1>2. g \notin {"enter", "enterActive", "drop", "acquire", "write", "release"}
  BY DEF Edits
<1>3. LockOf(h)'
  BY <1>1, <1>2 DEF Same, Orderly, LockOf
<1>4. setup' = "upgraded" => FilesOf(h, x, r)'
  BY <1>1, <1>2 DEF Same, Orderly, FilesOf, Files
<1>5. setup' = "upgraded" => CleanOf(k, h, x, a)'
  <2>1. ASSUME setup = "upgraded", NEW c \in {cache, legacy}, c.seed, account[c.of] \in KeyIds
        PROVE  k = "register" /\ h \in Entered /\ c.of = x
    <3>1. k = "register" /\ g \in Entered /\ c.of = w
      BY <2>1 DEF Orderly, CleanOf
    <3>2. g = "savePasskey"
      <4>1. h # "scrub" => g # "savePasskey"
        BY <3>1 DEF Then, RegisterThen
      <4>2. g # "scrub"
        BY <3>1 DEF Then, RegisterThen
      <4> QED BY <3>1, <4>2 DEF Entered, Edits
    <3> QED BY <3>1, <3>2, <1>1
  <2>2. setup = "upgraded" =>
          /\ h = "store" /\ k = "other" /\ a \in KeyIds => account[x] = a
          /\ h = "cacheFunded" /\ a = "plain" => account[x] \notin KeyIds
          /\ h = "store" /\ k = "disable" => a = "plain"
    OBVIOUS
  <2>3. UNCHANGED <<account, cache, legacy, setup>>
    BY DEF Same
  <2> QED BY <2>1, <2>2, <2>3 DEF CleanOf
<1>6. (setup = "crashes" => legacy = NoCopy /\ (lock # "abandoned" => SeedsOf(k, h, x, a)))'
  <2> SUFFICES ASSUME setup = "crashes"
               PROVE legacy = NoCopy /\ (lock # "abandoned" => SeedsOf(k, h, x, a)')
    BY DEF Same
  <2>1. legacy = NoCopy
    BY DEF Orderly
  <2> SUFFICES ASSUME lock # "abandoned" PROVE SeedsOf(k, h, x, a)'
    BY <2>1
  <2>2. SeedsOf(k, g, w, acc)
    BY DEF Orderly
  <2>3. k = "register" /\ h \in {"ceremony", "close", "seal"} => account[x] = "plain"
    <3> SUFFICES ASSUME k = "register", h \in {"ceremony", "close", "seal"}, g # "readPlain" PROVE account[x] = "plain"
      OBVIOUS
    <3>1. g \in {"ceremony", "close"} /\ x = w
      BY <1>1
    <3> QED BY <3>1, <2>2 DEF SeedsOf
  <2>4. k = "disable" /\ h \in Plain => account[x] = "plain" /\ a \notin KeyIds
    <3> SUFFICES ASSUME k = "disable", h \in Plain PROVE account[x] = "plain" /\ a \notin KeyIds
      OBVIOUS
    <3>1. g = "dropGrant" /\ x = w /\ a = acc
      BY <1>1
    <3> QED BY <3>1, <2>2 DEF SeedsOf, Plain
  <2>5. \A y \in Stellar : account[y] # "keyless" /\ Readable(y)
    BY <2>2 DEF SeedsOf
  <2>6. UNCHANGED <<account, keychain>>
    BY DEF Same
  <2> QED BY <2>3, <2>4, <2>5, <2>6 DEF SeedsOf, Readable
<1> QED BY <1>3, <1>4, <1>5, <1>6 DEF Orderly

\* What an operation that only reads must have read, whatever comes next.
Quiet(k, h, q, w, a) ==
    /\ k # "other" => w = q.w
    /\ setup = "crashes" /\ lock # "abandoned" => (a \in KeyIds => keychain[w] = a)
    /\ "store" \in Then(k, h) =>
          /\ k = "disable" => a = "plain"
          /\ setup = "upgraded" /\ k = "other" /\ a \in KeyIds => account[w] = a
          /\ setup = "crashes" /\ lock # "abandoned" /\ w \in Stellar => a # "keyless"
    /\ setup = "upgraded" /\ h = "readActiveOrCache" /\ a = "plain" => account[w] \notin KeyIds
    /\ setup = "crashes" /\ lock # "abandoned" /\ h = "readPlain" => account[w] = "plain"
    /\ h = "dropGrant" => a = q.acc

\* An operation that only reads goes on.
LEMMA QuietKeeps ==
    ASSUME IInv, NEW p \in Processes, NEW k, NEW q, NEW h, Runs(p, k, q, h),
           h \notin {"store", "delete", "acquire", "write", "release", "deleteKey", "scrub"} \cup Edits,
           Same, Stored', NEW w, NEW a, NEW n,
           n \in Process /\ n.do = q.do /\ n.later = q.later /\ n.w = w /\ n.acc = a, Done(p, n),
           w \in Wallets, a # "keyless" \/ k = "register" => w \in Stellar, setup # "racing" => Quiet(k, h, q, w, a)
    PROVE  IInv'
<1>1. k \in Kinds /\ (setup # "racing" => Orderly(k, h, q.w, q.acc, q.reg))
  BY DEF Runs
<1>2. ASSUME setup # "racing", h \in Lasts(k) PROVE Settled'
  <2>1. h \notin Unsettled
    BY <1>1, <1>2 DEF Unsettled, Edits, Kinds, Lasts
  <2> QED BY <1>1, <1>2, <2>1, SettledAgain
<1>3. ASSUME setup # "racing", NEW g \in Then(k, h) PROVE Orderly(k, g, n.w, n.acc, n.reg)'
  <2>1. g = "cacheFunded" <=> h = "readActiveOrCache"
    BY <1>1, Order
  <2>2. g = "store" => "store" \in Then(k, h)
    OBVIOUS
  <2>3. PICK r : r = n.reg
    OBVIOUS
  <2>4. Orderly(k, g, w, a, r)'
    BY <1>1, <1>3, <2>1, <2>2, QuietStep DEF Quiet
  <2> QED BY <2>3, <2>4
<1>4. w # Nobody /\ setup' = setup
  BY WalletAssumptions DEF Same
<1> QED BY <1>2, <1>3, <1>4, GoesOn

\* An attempt that ends before it has changed anything.
LEMMA QuietFails ==
    ASSUME IInv, NEW p \in Processes, NEW k, NEW q, NEW h, Runs(p, k, q, h), h \notin Unsettled, Same, Stored', Fail(p)
    PROVE  IInv'
<1>1. setup # "racing" => Settled'
  BY SettledAgain DEF Runs
<1> QED BY <1>1, FailKeeps DEF Runs, Same

\* An account is read, and is what a file holds.
LEMMA ReadAccountKeeps == ASSUME IInv, NEW p \in Processes, ReadAccount(p), setup' = setup PROVE IInv'
<1>1. PICK h \in {"read", "readPlain", "readSealed"} : At(p, h)
  BY DEF ReadAccount
<1>2. PICK k, q : Runs(p, k, q, h)
  BY <1>1, AtIs
<1>3. Stored /\ Same /\ Stored'
  <2>1. Stored
    BY DEF IInv
  <2> QED BY <2>1 DEF ReadAccount, store, Same, Stored
<1>4. PICK w : w = q.w
  OBVIOUS
<1>5. w \in Wallets
  BY <1>2, <1>4 DEF Runs, Readers
<1>6. \/ Fail(p)
      \/ Done(p, [q EXCEPT !.acc = account[w]]) /\ account[w] # NoFile /\ (h = "readPlain" => account[w] = "plain")
  <2>1. proc[p] = q /\ Head(q.do) = h
    BY <1>2 DEF Runs
  <2>2. \A x : At(p, x) <=> x = h
    BY <1>1, <2>1 DEF At
  <2> QED BY <1>4, <2>1, <2>2 DEF ReadAccount, KeyIds, NoFile
<1>7. CASE Fail(p)
  BY <1>2, <1>3, <1>7, QuietFails DEF Unsettled
<1>8. CASE Done(p, [q EXCEPT !.acc = account[w]]) /\ account[w] # NoFile /\ (h = "readPlain" => account[w] = "plain")
  <2>1. PICK a : a = account[w]
    OBVIOUS
  <2>2. a \in Account /\ (a # "keyless" => w \in Stellar)
    BY <1>3, <1>5, <1>8, <2>1 DEF Stored, Account
  <2>3. (k = "register" <=> h = "readPlain") /\ ("store" \in Then(k, h) => k = "other")
    BY <1>2 DEF Runs, Then, RegisterThen, DisableThen, OtherThen, Kinds, Lasts
  <2>4. ASSUME setup = "crashes", lock # "abandoned"
        PROVE  (a \in KeyIds => keychain[w] = a) /\ (w \in Stellar => a # "keyless")
    <3>1. \A y \in Stellar : account[y] # "keyless" /\ Readable(y)
      BY <1>2, <2>4 DEF Runs, Orderly, SeedsOf
    <3> QED BY <2>1, <2>2, <3>1 DEF Readable, KeyIds
  <2>5. Quiet(k, h, q, w, a)
    BY <1>4, <1>8, <2>1, <2>3, <2>4 DEF Quiet
  <2>6. PICK n : n = [q EXCEPT !.acc = a]
    OBVIOUS
  <2>7. n \in Process /\ n.do = q.do /\ n.later = q.later /\ n.w = w /\ n.acc = a
    BY <1>2, <1>4, <2>2, <2>6, With DEF Runs
  <2>8. a # "keyless" \/ k = "register" => w \in Stellar
    BY <1>8, <2>1, <2>2, <2>3
  <2>9. Done(p, n)
    BY <1>8, <2>1, <2>6
  <2> QED BY <1>2, <1>3, <1>5, <2>5, <2>7, <2>8, <2>9, QuietKeeps DEF Edits
<1> QED BY <1>6, <1>7, <1>8

\* The active wallet is read; what account.json holds is no sealed wallet.
LEMMA ReadActiveKeeps == ASSUME IInv, NEW p \in Processes, ReadActive(p), setup' = setup PROVE IInv'
<1>1. PICK h \in {"readActive", "readActiveOrCache"} : At(p, h)
  BY DEF ReadActive
<1>2. PICK k, q : Runs(p, k, q, h)
  BY <1>1, AtIs
<1>3. Stored /\ Same /\ Stored'
  <2>1. Stored
    BY DEF IInv
  <2> QED BY <2>1 DEF ReadActive, store, Same, Stored
<1>4. proc[p] = q /\ (At(p, "readActiveOrCache") => h = "readActiveOrCache") /\ q \in Process
  BY <1>1, <1>2 DEF Runs, At
<1>5. k = "other" /\ "store" \notin Then(k, h)
  BY <1>2 DEF Runs, Then, RegisterThen, DisableThen, OtherThen, Kinds, Lasts
<1>6. CASE Fail(p)
  BY <1>2, <1>3, <1>6, QuietFails DEF Unsettled
<1>7. ASSUME NEW w \in Wallets, NEW a \in Account, Done(p, [q EXCEPT !.w = w, !.acc = a]), a # "keyless" => w \in Stellar,
             \/ a = account[w]
             \/ cache.seed /\ w = cache.of /\ a = "plain"
             \/ a = "keyless"
      PROVE  IInv'
  <2>1. PICK n : n = [q EXCEPT !.w = w, !.acc = a]
    OBVIOUS
  <2>2. n \in Process /\ n.do = q.do /\ n.later = q.later /\ n.w = w /\ n.acc = a
    BY <1>4, <2>1 DEF Process
  <2>3. ASSUME setup = "crashes", lock # "abandoned", a \in KeyIds PROVE keychain[w] = a
    <3>1. \A y \in Stellar : account[y] # "keyless" /\ Readable(y)
      BY <1>2, <2>3 DEF Runs, Orderly, SeedsOf
    <3>2. a = account[w] /\ w \in Stellar
      BY <1>7, <2>3 DEF KeyIds
    <3> QED BY <3>1, <3>2, <2>3 DEF Readable
  <2>4. ASSUME setup = "upgraded", a = "plain" PROVE account[w] \notin KeyIds
    <3>1. ASSUME cache.seed, w = cache.of PROVE account[w] \notin KeyIds
      BY <1>2, <1>5, <2>4, <3>1 DEF Runs, Orderly, CleanOf
    <3> QED BY <1>7, <2>4, <3>1 DEF KeyIds
  <2>5. Quiet(k, h, q, w, a)
    BY <1>5, <2>3, <2>4 DEF Quiet
  <2>6. Done(p, n)
    BY <1>7, <2>1
  <2> QED BY <1>2, <1>3, <1>5, <1>7, <2>2, <2>5, <2>6, QuietKeeps DEF Edits
<1>8. CASE registry.active # Nobody /\ account[registry.active] # NoFile /\ ~Fail(p)
  <2>1. registry.active \in Wallets
    BY <1>3, <1>8 DEF Stored, Registry
  <2>2. PICK w, a : w = registry.active /\ a = account[w]
    OBVIOUS
  <2>3. w \in Wallets /\ a \in Account /\ (a # "keyless" => w \in Stellar)
    BY <1>3, <1>8, <2>1, <2>2 DEF Stored, Account
  <2>4. Done(p, [q EXCEPT !.w = w, !.acc = a])
    BY <1>4, <1>8, <2>2 DEF ReadActive
  <2> QED BY <1>7, <2>2, <2>3, <2>4
<1>9. CASE ~(registry.active # Nobody /\ account[registry.active] # NoFile) /\ ~Fail(p)
  <2>1. cache # NoCopy
    BY <1>9 DEF ReadActive
  <2>2. cache.of \in Wallets /\ cache.seed \in BOOLEAN /\ (cache.seed => cache.of \in Stellar)
    BY <1>3, <2>1 DEF Stored, Record
  <2>3. PICK w, a : w = cache.of /\ a = IF cache.seed THEN "plain" ELSE "keyless"
    OBVIOUS
  <2>4. w \in Wallets /\ a \in Account /\ (a # "keyless" => w \in Stellar)
    BY <2>2, <2>3 DEF Account
  <2>5. Done(p, [q EXCEPT !.w = w, !.acc = a])
    BY <1>4, <1>9, <2>3 DEF ReadActive
  <2> QED BY <1>7, <2>3, <2>4, <2>5
<1> QED BY <1>6, <1>8, <1>9

\* An account is created in memory.
LEMMA CreateKeeps == ASSUME IInv, NEW p \in Processes, Create(p), setup' = setup PROVE IInv'
<1> DEFINE h == "create"
<1>1. PICK k, q : Runs(p, k, q, h)
  BY AtIs DEF Create
<1>2. Stored /\ Same /\ Stored'
  <2>1. Stored
    BY DEF IInv
  <2> QED BY <2>1 DEF Create, store, Same, Stored
<1>3. k = "other" /\ q.w \in Wallets /\ proc[p] = q /\ q \in Process
  BY <1>1 DEF Runs, Then, RegisterThen, DisableThen, Kinds, Lasts, Readers
<1>4. PICK w, a : w = q.w /\ a = IF w \in Stellar THEN "plain" ELSE "keyless"
  OBVIOUS
<1>5. a \in Account /\ (a # "keyless" => w \in Stellar) /\ a \notin KeyIds
  BY <1>4 DEF Account, KeyIds
<1>6. PICK n : n = [q EXCEPT !.acc = a]
  OBVIOUS
<1>7. n \in Process /\ n.do = q.do /\ n.later = q.later /\ n.w = w /\ n.acc = a
  BY <1>3, <1>4, <1>5, <1>6, With
<1>8. Quiet(k, h, q, w, a)
  BY <1>3, <1>4, <1>5 DEF Quiet
<1>9. Done(p, n)
  BY <1>3, <1>4, <1>6 DEF Create
<1> QED BY <1>1, <1>2, <1>3, <1>4, <1>5, <1>7, <1>8, <1>9, QuietKeeps DEF Edits

\* The account of an old release is read; only an upgraded machine has one.
LEMMA ReadLegacyKeeps == ASSUME IInv, NEW p \in Processes, ReadLegacy(p), setup' = setup PROVE IInv'
<1> DEFINE h == "readLegacy"
<1>1. PICK k, q : Runs(p, k, q, h)
  BY AtIs DEF ReadLegacy
<1>2. Stored /\ Same /\ Stored'
  <2>1. Stored
    BY DEF IInv
  <2> QED BY <2>1 DEF ReadLegacy, store, Same, Stored
<1>3. k = "other" /\ proc[p] = q /\ q \in Process
  BY <1>1 DEF Runs, Then, RegisterThen, DisableThen, Kinds, Lasts
<1>4. CASE Fail(p)
  BY <1>1, <1>2, <1>4, QuietFails DEF Unsettled
<1>5. CASE ~Fail(p)
  <2>1. legacy # NoCopy
    BY <1>5 DEF ReadLegacy
  <2>2. PICK w, a : w = legacy.of /\ a = IF legacy.seed THEN "plain" ELSE "keyless"
    OBVIOUS
  <2>3. w \in Wallets /\ a \in Account /\ (a # "keyless" => w \in Stellar) /\ a \notin KeyIds
    BY <1>2, <2>1, <2>2 DEF Stored, Record, Account, KeyIds
  <2>4. setup # "racing" => setup # "crashes"
    BY <1>1, <2>1 DEF Runs, Orderly
  <2>5. PICK n : n = [q EXCEPT !.w = w, !.acc = a]
    OBVIOUS
  <2>6. n \in Process /\ n.do = q.do /\ n.later = q.later /\ n.w = w /\ n.acc = a
    BY <1>3, <2>3, <2>5 DEF Process
  <2>7. setup # "racing" => Quiet(k, h, q, w, a)
    BY <1>3, <2>3, <2>4 DEF Quiet
  <2>8. Done(p, n)
    BY <1>3, <1>5, <2>2, <2>5 DEF ReadLegacy
  <2> QED BY <1>1, <1>2, <1>3, <2>3, <2>6, <2>7, <2>8, QuietKeeps DEF Edits
<1> QED BY <1>4, <1>5

\* The account in memory is decrypted.
LEMMA UnsealKeeps == ASSUME IInv, NEW p \in Processes, Unseal(p), setup' = setup PROVE IInv'
<1> DEFINE h == "unseal"
<1>1. PICK k, q : Runs(p, k, q, h)
  BY AtIs DEF Unseal
<1>2. Stored /\ Same /\ Stored'
  <2>1. Stored
    BY DEF IInv
  <2> QED BY <2>1 DEF Unseal, store, Same, Stored
<1>3. k = "disable" /\ q.w \in Wallets /\ proc[p] = q /\ q \in Process
  BY <1>1 DEF Runs, Then, RegisterThen, OtherThen, Kinds, Lasts, Readers
<1>4. CASE Fail(p)
  BY <1>1, <1>2, <1>4, QuietFails DEF Unsettled
<1>5. CASE ~Fail(p)
  <2>1. keychain[q.w] = q.acc /\ Done(p, [q EXCEPT !.acc = "plain"])
    BY <1>3, <1>5 DEF Unseal
  <2>2. q.acc # "keyless"
    BY <1>2, <1>3, <2>1 DEF Stored, KeyIds, NoKey
  <2>3. q.w \in Stellar /\ "plain" \in Account /\ "plain" \notin KeyIds
    BY <1>1, <2>2 DEF Runs, Account, KeyIds
  <2>4. PICK n : n = [q EXCEPT !.acc = "plain"]
    OBVIOUS
  <2>5. n \in Process /\ n.do = q.do /\ n.later = q.later /\ n.w = q.w /\ n.acc = "plain"
    BY <1>3, <2>3, <2>4, With
  <2>6. Quiet(k, h, q, q.w, "plain")
    BY <1>3, <2>3 DEF Quiet
  <2>7. Done(p, n)
    BY <2>1, <2>4
  <2> QED BY <1>1, <1>2, <1>3, <2>3, <2>5, <2>6, <2>7, QuietKeeps DEF Edits
<1> QED BY <1>4, <1>5

\* An operation the process itself learns nothing from.
LEMMA NothingLearnt ==
    ASSUME IInv, NEW p \in Processes, NEW k, NEW q, NEW h, Runs(p, k, q, h), Stored', Same,
           h \in {"ceremony", "close", "savePasskey", "grant", "dropGrant", "deletePasskeys", "resolve"},
           NEW n, n \in Process /\ n.do = q.do /\ n.later = q.later /\ n.w = q.w /\ n.acc = q.acc, Done(p, n)
    PROVE  IInv'
<1>1. /\ "store" \notin Then(k, h) /\ q.w \in Wallets /\ (q.acc # "keyless" \/ k = "register" => q.w \in Stellar)
      /\ h \notin {"store", "delete", "acquire", "write", "release", "deleteKey", "scrub"} \cup Edits
  <2>1. h \notin Readers /\ h # "readPlain"
    BY DEF Readers
  <2> QED BY <2>1 DEF Runs, Then, RegisterThen, DisableThen, OtherThen, Kinds, Edits
<1>2. setup # "racing" => Quiet(k, h, q, q.w, q.acc)
  BY <1>1 DEF Runs, Quiet, Orderly, SeedsOf
<1> QED BY <1>1, <1>2, QuietKeeps

\* Grants are given and dropped.
LEMMA GrantsKeep ==
    ASSUME IInv, NEW p \in Processes, Grant(p) \/ DropGrant(p) \/ ResolveSeed(p), setup' = setup
    PROVE  IInv'
<1>1. PICK h \in {"grant", "dropGrant", "resolve"} : At(p, h)
  BY DEF Grant, DropGrant, ResolveSeed
<1>2. PICK k, q : Runs(p, k, q, h)
  BY <1>1, AtIs
<1>3. q.w \in Wallets /\ proc[p] = q /\ q \in Process
  BY <1>2 DEF Runs, Readers
<1>4. Stored
  BY DEF IInv
<1>5. grant' \in [Wallets -> {"none", "live", "expired"}]
  BY <1>3, <1>4 DEF Stored, Grant, DropGrant, ResolveSeed
<1>6. Same /\ passkey' = passkey
  BY DEF Grant, DropGrant, ResolveSeed, Same
<1>7. Stored'
  BY <1>4, <1>5, <1>6 DEF Stored, Same
<1>8. Done(p, q) \/ Fail(p)
  BY <1>3 DEF Grant, DropGrant, ResolveSeed
<1>9. CASE Fail(p)
  BY <1>2, <1>6, <1>7, <1>9, QuietFails DEF Unsettled
<1>10. CASE Done(p, q)
  BY <1>2, <1>3, <1>6, <1>7, <1>10, NothingLearnt
<1> QED BY <1>8, <1>9, <1>10

\* Passkeys are stored and deleted.
LEMMA PasskeysKeep ==
    ASSUME IInv, NEW p \in Processes, SavePasskey(p) \/ DeletePasskeys(p), setup' = setup
    PROVE  IInv'
<1>1. PICK h \in {"savePasskey", "deletePasskeys"} : At(p, h) /\ (SavePasskey(p) => h = "savePasskey")
  BY DEF SavePasskey, DeletePasskeys
<1>2. PICK k, q : Runs(p, k, q, h)
  BY <1>1, AtIs
<1>3. proc[p] = q /\ q \in Process /\ (h = "savePasskey" => q.w \in Stellar)
  BY <1>2 DEF Runs, Then, DisableThen, OtherThen, Kinds, Lasts
<1>4. Stored
  BY DEF IInv
<1>5. passkey' \subseteq Stellar /\ Done(p, q)
  BY <1>1, <1>3, <1>4 DEF Stored, SavePasskey, DeletePasskeys
<1>6. Same /\ grant' = grant
  BY DEF SavePasskey, DeletePasskeys, Same
<1>7. Stored'
  BY <1>4, <1>5, <1>6 DEF Stored, Same
<1> QED BY <1>2, <1>3, <1>5, <1>6, <1>7, NothingLearnt

\* A ceremony ends.
LEMMA WaitKeeps == ASSUME IInv, NEW p \in Processes, Wait(p) \/ Close(p), setup' = setup PROVE IInv'
<1>1. PICK h \in {"ceremony", "close"} : At(p, h) /\ (Wait(p) => h = "ceremony")
  BY DEF Wait, Close
<1>2. PICK k, q : Runs(p, k, q, h)
  BY <1>1, AtIs
<1>3. proc[p] = q /\ q \in Process
  BY <1>2 DEF Runs
<1>4. Stored /\ Same /\ Stored'
  <2>1. Stored
    BY DEF IInv
  <2> QED BY <2>1 DEF Wait, Close, store, Same, Stored
<1>5. PICK c : c = q.ceremony
  OBVIOUS
<1>6. c \in CeremonyType /\ Ceremony(p) = c
  BY <1>3, <1>5 DEF Ceremony, Process
<1>7. ASSUME NEW d \in CeremonyType, Done(p, [q EXCEPT !.ceremony = d]) PROVE IInv'
  <2>1. PICK n : n = [q EXCEPT !.ceremony = d]
    OBVIOUS
  <2>2. n \in Process /\ n.do = q.do /\ n.later = q.later /\ n.w = q.w /\ n.acc = q.acc
    BY <1>3, <2>1, With
  <2>3. Done(p, n)
    BY <1>7, <2>1
  <2> QED BY <1>2, <1>4, <2>2, <2>3, NothingLearnt
<1>8. CASE Fail(p)
  BY <1>2, <1>4, <1>8, QuietFails DEF Unsettled
<1>9. CASE Wait(p)
  <2> DEFINE received == [c EXCEPT !.result = c.done, !.done = IF c.blocked > 0 THEN "bad" ELSE "empty",
                                   !.blocked = IF c.blocked > 0 THEN c.blocked - 1 ELSE 0]
  <2>1. received \in CeremonyType
    <3>1. PICK b : b = IF c.blocked > 0 THEN c.blocked - 1 ELSE 0
      OBVIOUS
    <3>2. b \in Nat /\ b <= c.blocked /\ c.blocked \in Nat /\ c.checking \in Nat /\ c.tabs \in Nat
      BY <1>6, <3>1 DEF CeremonyType
    <3>3. c.checking + b <= c.tabs
      BY <1>6, <3>2 DEF CeremonyType
    <3>4. received = [c EXCEPT !.result = c.done, !.done = IF c.blocked > 0 THEN "bad" ELSE "empty", !.blocked = b]
      BY <3>1
    <3> QED BY <1>6, <3>2, <3>3, <3>4 DEF CeremonyType
  <2>2. [c EXCEPT !.result = "timeout"] \in CeremonyType
    BY <1>6 DEF CeremonyType
  <2>3. Done(p, [q EXCEPT !.ceremony = received]) \/ Done(p, [q EXCEPT !.ceremony = [c EXCEPT !.result = "timeout"]])
    BY <1>3, <1>6, <1>9 DEF Wait
  <2> HIDE DEF received
  <2> QED BY <1>7, <2>1, <2>2, <2>3
<1>10. CASE Close(p) /\ ~Fail(p)
  <2>1. Done(p, [q EXCEPT !.ceremony = NoCeremony])
    BY <1>3, <1>10 DEF Close
  <2> QED BY <1>7, <2>1, RestingIs
<1> QED BY <1>8, <1>9, <1>10

\* Requests and answers of a ceremony change nothing else.
LEMMA BrowsingKeeps == ASSUME IInv, NEW p \in Processes, Post(p) \/ Answer(p), setup' = setup PROVE IInv'
<1>1. PICK h \in {"ceremony", "close"} : At(p, h)
  BY DEF Post, Answer, InCeremony
<1>2. PICK k, q : Runs(p, k, q, h)
  BY <1>1, AtIs
<1>3. /\ proc[p] = q /\ q \in Process /\ k \in Kinds /\ Doing(k, q) /\ (q.acc # "keyless" => q.w \in Stellar)
      /\ ~Idle(p)
  BY <1>2 DEF Runs
<1>4. Stored /\ Same /\ Stored'
  <2>1. Stored
    BY DEF IInv
  <2> QED BY <2>1 DEF Post, Answer, WithCeremony, store, Same, Stored
<1>5. PICK c : c = q.ceremony
  OBVIOUS
<1>6. c \in CeremonyType /\ Ceremony(p) = c
  BY <1>3, <1>5 DEF Ceremony, Process
<1>7. PICK d \in CeremonyType : WithCeremony(p, d)
  <2>1. CASE Post(p)
    <3>1. PICK t, b : t = c.tabs + 1 /\ b = c.checking + 1
      OBVIOUS
    <3>2. WithCeremony(p, [c EXCEPT !.tabs = t, !.checking = b]) /\ c.tabs < Tabs
      BY <1>6, <2>1, <3>1 DEF Post
    <3>3. t \in Nat /\ b \in Nat /\ t <= Tabs /\ b + c.blocked <= t
      BY <1>6, <3>1, <3>2, WalletAssumptions DEF CeremonyType
    <3>4. [c EXCEPT !.tabs = t, !.checking = b] \in CeremonyType
      BY <1>6, <3>3 DEF CeremonyType
    <3> QED BY <3>2, <3>4
  <2>2. CASE Answer(p)
    <3>1. PICK result \in {"good", "bad"} :
             LET checked == [c EXCEPT !.checking = c.checking - 1, !.finished = c.finished \/ result = "good"]
             IN  WithCeremony(p, IF c.done = "empty" THEN [checked EXCEPT !.done = result]
                                 ELSE [checked EXCEPT !.blocked = checked.blocked + 1])
      BY <1>6, <2>2 DEF Answer
    <3>2. c.checking > 0
      BY <1>6, <2>2 DEF Answer
    <3> DEFINE b == c.checking - 1  e == c.blocked + 1  f == c.finished \/ result = "good"
    <3>3. b \in Nat /\ e \in Nat /\ f \in BOOLEAN /\ b + c.blocked <= c.tabs /\ b + e <= c.tabs
      <4>1. c.checking \in Nat /\ c.blocked \in Nat /\ c.tabs \in Nat /\ c.checking + c.blocked <= c.tabs
        BY <1>6 DEF CeremonyType
      <4>2. f \in BOOLEAN
        OBVIOUS
      <4> QED BY <3>2, <4>1, <4>2
    <3>4. PICK x : x = [c EXCEPT !.checking = b, !.finished = f]
      OBVIOUS
    <3>7. WithCeremony(p, IF c.done = "empty" THEN [x EXCEPT !.done = result] ELSE [x EXCEPT !.blocked = x.blocked + 1])
      BY <3>1, <3>4
    <3> HIDE DEF b, f
    <3>5. x \in CeremonyType /\ x.checking = b /\ x.tabs = c.tabs /\ x.blocked = c.blocked
      BY <1>6, <3>3, <3>4 DEF CeremonyType
    <3>8. x.blocked + 1 = e
      BY <3>5
    <3>6. [x EXCEPT !.done = result] \in CeremonyType /\ [x EXCEPT !.blocked = x.blocked + 1] \in CeremonyType
      <4> HIDE DEF e
      <4> QED BY <3>3, <3>5, <3>8 DEF CeremonyType
    <3> QED BY <3>6, <3>7
  <2> QED BY <2>1, <2>2
<1>8. PICK n : n = [q EXCEPT !.ceremony = d]
  OBVIOUS
<1>9. n \in Process /\ n.do = q.do /\ n.w = q.w /\ n.acc = q.acc /\ n.reg = q.reg
  BY <1>3, <1>8, With
<1>10. proc' = [proc EXCEPT ![p] = n]
  BY <1>3, <1>7, <1>8 DEF WithCeremony
<1>11. Doing(k, n) /\ Sound(n)
  BY <1>3, <1>9 DEF Doing, Sound
<1>12. n # Resting
  <2>1. n.do # <<>>
    BY <1>11 DEF Doing, Follows
  <2> QED BY <2>1, RestingIs
<1>13. ASSUME setup # "racing" PROVE Explained(k, n)'
  <2>1. Orderly(k, h, q.w, q.acc, q.reg) /\ Head(n.do) = h
    BY <1>2, <1>9, <1>13 DEF Runs
  <2>2. Orderly(k, Head(n.do), n.w, n.acc, n.reg)
    BY <1>9, <2>1
  <2>3. Orderly(k, Head(n.do), n.w, n.acc, n.reg)'
    BY <1>4, <2>2 DEF Same, Orderly, LockOf, FilesOf, Files, CleanOf, SeedsOf, Readable
  <2> QED BY <1>11, <2>3 DEF Explained, Doing
<1> QED BY <1>3, <1>4, <1>10, <1>11, <1>12, <1>13, StepOf
------------------------------------------------------------------------------
(* Operations on wallet files and on the registry.                            *)

\* From an edit of the registry to the release of the lock only the registry
\* and the lock change.
Saving == Edits \cup {"acquire", "write", "release"}

\* The next operation of a save finds what it needs.
LEMMA Onward ==
    ASSUME NEW k \in Kinds, NEW g \in Saving, NEW w, NEW acc, NEW r0, Orderly(k, g, w, acc, r0),
           UNCHANGED <<account, keychain, cache, legacy, setup>>, lock # "abandoned" \/ lock' = lock,
           NEW h \in Then(k, g), NEW r, setup # "racing" => LockOf(h)', setup = "upgraded" => FilesOf(h, w, r)'
    PROVE  setup # "racing" => Orderly(k, h, w, acc, r)'
<1>1. /\ h \notin {"store", "cacheFunded", "ceremony", "close", "seal"}
      /\ k = "register" => (h \in Entered <=> g \in {"store"} \cup (Entered \ {"scrub"}))
      /\ k = "disable" => (h \in Plain <=> g \in {"store"} \cup (Plain \ {"deleteKey"}))
  <2>1. g \notin {"readLegacy", "create", "read", "seal", "unseal", "readActiveOrCache", "readPlain", "readSealed",
                  "ceremony", "close"}
    BY DEF Saving, Edits
  <2>2. h \notin {"store", "cacheFunded"}
    BY <2>1, Order
  <2>3. h \notin {"ceremony", "close", "seal"}
    BY <2>1 DEF Then, RegisterThen, DisableThen, OtherThen, Kinds
  <2> QED BY <2>2, <2>3, Order
<1>2. ASSUME setup = "upgraded" PROVE CleanOf(k, h, w, acc)'
  <2>1. CleanOf(k, g, w, acc)
    BY <1>2 DEF Orderly
  <2>2. k = "register" /\ g \in Entered => h \in Entered
    <3>1. g # "scrub"
      BY DEF Saving, Edits
    <3> QED BY <1>1, <3>1
  <2> QED BY <1>1, <2>1, <2>2 DEF CleanOf
<1>3. ASSUME setup = "crashes" PROVE (legacy = NoCopy /\ (lock # "abandoned" => SeedsOf(k, h, w, acc)))'
  <2>1. legacy = NoCopy /\ (lock # "abandoned" => SeedsOf(k, g, w, acc))
    BY <1>3 DEF Orderly
  <2>2. ASSUME lock' # "abandoned" PROVE SeedsOf(k, h, w, acc)'
    <3>1. SeedsOf(k, g, w, acc)
      BY <2>1, <2>2
    <3>2. k = "disable" /\ h \in Plain => g \in Plain
      <4>1. g # "store"
        BY DEF Saving, Edits
      <4> QED BY <1>1, <4>1
    <3> QED BY <1>1, <3>1, <3>2 DEF SeedsOf, Readable
  <2> QED BY <2>1, <2>2
<1> QED BY <1>2, <1>3 DEF Orderly

\* A save or a file operation that ends leaves nothing half done.
LEMMA SettledThen ==
    ASSUME NEW k, NEW g, NEW w, NEW acc, NEW r, Orderly(k, g, w, acc, r), k # "register" \/ g \notin Entered,
           UNCHANGED <<account, keychain, cache, legacy, setup>>, lock # "abandoned" \/ lock' = lock,
           LockOf("none")', setup = "upgraded" => (Files = registry.entries)'
    PROVE  Settled'
<1>1. setup' = "upgraded" => FilesOf("none", Nobody, Resting.reg)'
  BY DEF FilesOf
<1>2. setup' = "upgraded" => CleanOf("other", "none", Nobody, "keyless")'
  BY DEF Orderly, CleanOf
<1>3. (setup = "crashes" => legacy = NoCopy /\ (lock # "abandoned" => SeedsOf("other", "none", Nobody, "keyless")))'
  <2>1. "keyless" \notin KeyIds
    BY DEF KeyIds
  <2> QED BY <2>1 DEF Orderly, SeedsOf, Readable
<1> QED BY <1>1, <1>2, <1>3 DEF Settled, Orderly

\* What an edit makes of the registry.
LEMMA EditedIs ==
    ASSUME NEW e \in Edits, NEW w \in Wallets, NEW reg \in Registry, e = "activate" => w \in reg.entries
    PROVE  /\ Edited(e, w, reg) \in Registry
           /\ Edited(e, w, reg).entries = CASE e \in {"enter", "enterActive"} -> reg.entries \cup {w}
                                            [] e = "drop" -> reg.entries \ {w} [] OTHER -> reg.entries
<1>1. reg \in [entries : SUBSET Wallets, active : Wallets \cup {Nobody}] /\ reg.active \in reg.entries \cup {Nobody}
  BY DEF Registry
<1>2. CASE e = "enter"
  BY <1>1, <1>2 DEF Edited, Registry
<1>3. CASE e = "enterActive"
  BY <1>1, <1>3 DEF Edited, Registry
<1>4. CASE e = "activate"
  BY <1>1, <1>4 DEF Edited, Registry
<1>5. CASE e = "drop"
  <2>1. PICK b : b = IF reg.active = w THEN Nobody ELSE reg.active
    OBVIOUS
  <2>2. b \in Wallets \cup {Nobody} /\ b \in (reg.entries \ {w}) \cup {Nobody}
    BY <1>1, <2>1
  <2>3. Edited(e, w, reg) = [entries |-> reg.entries \ {w}, active |-> b]
    BY <1>5, <2>1 DEF Edited
  <2> QED BY <1>1, <1>5, <2>2, <2>3 DEF Registry
<1>6. CASE e = "rename"
  BY <1>1, <1>6 DEF Edited, Registry
<1> QED BY <1>2, <1>3, <1>4, <1>5, <1>6 DEF Edits

\* The copy of the registry lists just the files there will be.
LEMMA EditRegistryKeeps == ASSUME IInv, NEW p \in Processes, EditRegistry(p), setup' = setup PROVE IInv'
<1>1. PICK h \in Edits : At(p, h)
  BY DEF EditRegistry, At
<1>2. PICK k, q : Runs(p, k, q, h)
  BY <1>1, AtIs
<1>3. Stored /\ Same /\ Stored'
  <2>1. Stored
    BY DEF IInv
  <2> QED BY <2>1 DEF EditRegistry, store, Same, Stored
<1>4. proc[p] = q /\ q \in Process /\ Head(q.do) = h /\ k \in Kinds /\ ~Idle(p)
  BY <1>2 DEF Runs
<1>5. PICK w : w = q.w
  OBVIOUS
<1>6. w \in Wallets /\ w # Nobody /\ (q.acc # "keyless" \/ k = "register" => w \in Stellar)
  <2>1. h \notin Readers /\ h # "readPlain"
    BY DEF Edits, Readers
  <2> QED BY <1>2, <1>5, <2>1 DEF Runs
<1>7. registry \in Registry
  BY <1>3 DEF Stored
<1>8. CASE h \in {"activate", "rename"} /\ w \notin registry.entries
  <2>1. Fail(p)
    BY <1>4, <1>5, <1>8 DEF EditRegistry
  <2> QED BY <1>2, <1>3, <1>8, <2>1, QuietFails DEF Unsettled
<1>9. CASE h = "drop" /\ w \notin registry.entries /\ registry.active \notin {w, Nobody}
  <2>1. Fail(p)
    BY <1>4, <1>5, <1>9 DEF EditRegistry
  <2>2. ASSUME setup # "racing" PROVE Settled'
    <3>1. Orderly(k, h, w, q.acc, q.reg)
      BY <1>2, <1>5, <2>2 DEF Runs
    <3>2. setup = "upgraded" => Files = registry.entries
      BY <1>9, <3>1 DEF Orderly, FilesOf
    <3>3. setup = "upgraded" => (Files = registry.entries)'
      BY <1>3, <3>2 DEF Same, Files
    <3>4. LockOf("none")'
      BY <1>3, <1>9, <3>1 DEF Orderly, LockOf, Same
    <3>5. h \notin Entered
      BY <1>9 DEF Entered
    <3> QED BY <1>3, <3>1, <3>3, <3>4, <3>5, SettledThen DEF Same
  <2> QED BY <1>3, <1>4, <2>1, <2>2, FailKeeps
<1>10. CASE /\ ~(h \in {"activate", "rename"} /\ w \notin registry.entries)
            /\ ~(h = "drop" /\ w \notin registry.entries /\ registry.active \notin {w, Nobody})
  <2>1. PICK r : r = Edited(h, w, registry)
    OBVIOUS
  <2>2. /\ r \in Registry
        /\ r.entries = CASE h \in {"enter", "enterActive"} -> registry.entries \cup {w}
                         [] h = "drop" -> registry.entries \ {w} [] OTHER -> registry.entries
    <3>1. h = "activate" => w \in registry.entries
      BY <1>10
    <3>2. Edited(h, w, registry) \in Registry
      BY <1>6, <1>7, <3>1, EditedIs
    <3>3. Edited(h, w, registry).entries =
             CASE h \in {"enter", "enterActive"} -> registry.entries \cup {w}
               [] h = "drop" -> registry.entries \ {w} [] OTHER -> registry.entries
      BY <1>6, <1>7, <3>1, EditedIs
    <3> QED BY <2>1, <3>2, <3>3
  <2>3. Done(p, [q EXCEPT !.reg = r])
    BY <1>4, <1>5, <1>10, <2>1 DEF EditRegistry
  <2>4. PICK n : n = [q EXCEPT !.reg = r]
    OBVIOUS
  <2>5. n \in Process /\ n.do = q.do /\ n.later = q.later /\ n.w = q.w /\ n.acc = q.acc /\ n.reg = r
    BY <1>4, <2>2, <2>4, With
  <2>6. h \notin Lasts(k)
    BY <1>4, Ends
  <2>7. ASSUME setup # "racing", NEW g \in Then(k, h) PROVE Orderly(k, g, w, q.acc, r)'
    <3>1. Orderly(k, h, w, q.acc, q.reg)
      BY <1>2, <1>5, <2>7 DEF Runs
    <3>2. g = "acquire"
      BY <1>4, Order
    <3>3. LockOf(g)'
      BY <1>3, <3>1, <3>2 DEF Orderly, LockOf, Same, Edits
    <3>4. setup = "upgraded" => r.entries = Files
      <4>1. setup = "upgraded" => FilesOf(h, w, q.reg)
        BY <3>1 DEF Orderly
      <4>2. setup = "upgraded" =>
               Files = CASE h \in {"enter", "enterActive"} -> registry.entries \cup {w}
                         [] h = "drop" -> registry.entries \ {w} [] OTHER -> registry.entries
        BY <4>1 DEF FilesOf, Edits
      <4> QED BY <2>2, <4>2
    <3>5. setup = "upgraded" => FilesOf(g, w, r)'
      BY <1>3, <3>2, <3>4 DEF FilesOf, Files, Same
    <3>6. h \in Saving
      BY DEF Saving
    <3> QED BY <1>3, <1>4, <2>7, <3>1, <3>3, <3>5, <3>6, Onward DEF Same
  <2>8. Done(p, n)
    BY <2>3, <2>4
  <2>9. ASSUME setup # "racing", NEW g \in Then(k, h) PROVE Orderly(k, g, n.w, n.acc, n.reg)'
    BY <1>5, <2>5, <2>7, <2>9
  <2> QED BY <1>2, <1>3, <1>5, <1>6, <2>5, <2>6, <2>8, <2>9, GoesOn
<1> QED BY <1>8, <1>9, <1>10

\* The lock file is created.
LEMMA AcquireKeeps == ASSUME IInv, NEW p \in Processes, Acquire(p), setup' = setup PROVE IInv'
<1> DEFINE h == "acquire"
<1>1. PICK k, q : Runs(p, k, q, h)
  BY AtIs DEF Acquire
<1>2. /\ proc[p] = q /\ q \in Process /\ k \in Kinds /\ q.w # Nobody
      /\ (q.acc # "keyless" \/ k = "register" => q.w \in Stellar)
  BY <1>1 DEF Runs, Readers
<1>3. Stored
  BY DEF IInv
<1>4. /\ UNCHANGED <<account, registry, keychain, grant, passkey, cache, legacy, setup>> /\ lock = "free"
      /\ lock' = "held"
  BY DEF Acquire, store
<1>5. Stored'
  BY <1>3, <1>4 DEF Stored
<1>6. h \notin Lasts(k)
  BY <1>2, Ends
<1>7. ASSUME setup # "racing", NEW g \in Then(k, h) PROVE Orderly(k, g, q.w, q.acc, q.reg)'
  <2>1. Orderly(k, h, q.w, q.acc, q.reg)
    BY <1>1, <1>7 DEF Runs
  <2>2. g = "write"
    BY <1>2, Order
  <2>3. LockOf(g)'
    BY <1>4, <2>2 DEF LockOf
  <2>4. setup = "upgraded" => FilesOf(g, q.w, q.reg)'
    BY <1>4, <2>1, <2>2 DEF Orderly, FilesOf, Files
  <2>5. h \in Saving
    BY DEF Saving
  <2> QED BY <1>2, <1>4, <1>7, <2>1, <2>3, <2>4, <2>5, Onward
<1>8. Done(p, q)
  BY <1>2 DEF Acquire
<1> QED BY <1>1, <1>2, <1>4, <1>5, <1>6, <1>7, <1>8, GoesOn

\* Only a lock file left behind is waited for in vain.
LEMMA AcquireTimesOutKeeps == ASSUME IInv, NEW p \in Processes, AcquireTimesOut(p), setup' = setup PROVE IInv'
<1> DEFINE h == "acquire"
<1>1. PICK k, q : Runs(p, k, q, h)
  BY AtIs DEF AcquireTimesOut
<1>2. proc[p] = q /\ q.w \in Wallets /\ ~Idle(p)
  BY <1>1 DEF Runs, Readers
<1>3. Stored
  BY DEF IInv
<1>4. UNCHANGED <<account, registry, grant, passkey, cache, legacy, lock, setup>> /\ lock # "free" /\ Fail(p)
  BY DEF AcquireTimesOut
<1>5. keychain' \in [Wallets -> KeyIds \cup {NoKey}]
  <2>1. keychain' = keychain \/ keychain' = [keychain EXCEPT ![q.w] = NoKey]
    BY <1>2 DEF AcquireTimesOut
  <2> QED BY <1>2, <1>3, <2>1 DEF Stored
<1>6. Stored'
  BY <1>3, <1>4, <1>5 DEF Stored
<1>7. ASSUME setup # "racing" PROVE Settled'
  <2>1. lock = "abandoned" /\ setup = "crashes" /\ legacy = NoCopy
    BY <1>1, <1>4, <1>7 DEF Runs, Orderly, LockOf
  <2> QED BY <1>4, <2>1 DEF Settled, Orderly, LockOf
<1> QED BY <1>2, <1>4, <1>6, <1>7, FailKeeps

\* The copy of the registry is written, while the lock is held.
LEMMA WriteRegistryKeeps == ASSUME IInv, NEW p \in Processes, WriteRegistry(p), setup' = setup PROVE IInv'
<1> DEFINE h == "write"
<1>1. PICK k, q : Runs(p, k, q, h)
  BY AtIs DEF WriteRegistry
<1>2. /\ proc[p] = q /\ q \in Process /\ k \in Kinds /\ q.w # Nobody /\ q.reg \in Registry
      /\ (q.acc # "keyless" \/ k = "register" => q.w \in Stellar)
  BY <1>1 DEF Runs, Readers
<1>3. Stored
  BY DEF IInv
<1>4. UNCHANGED <<account, keychain, grant, passkey, cache, legacy, lock, setup>> /\ registry' = q.reg
  BY <1>2 DEF WriteRegistry
<1>5. Stored'
  BY <1>2, <1>3, <1>4 DEF Stored
<1>6. h \notin Lasts(k)
  BY <1>2, Ends
<1>7. PICK n : n = [q EXCEPT !.reg = Resting.reg]
  OBVIOUS
<1>8. n \in Process /\ n.do = q.do /\ n.later = q.later /\ n.w = q.w /\ n.acc = q.acc /\ n.reg = Resting.reg
  BY <1>2, <1>7, With, RestingIs
<1>9. ASSUME setup # "racing", NEW g \in Then(k, h) PROVE Orderly(k, g, n.w, n.acc, n.reg)'
  <2>1. Orderly(k, h, q.w, q.acc, q.reg)
    BY <1>1, <1>9 DEF Runs
  <2>2. g = "release"
    BY <1>2, Order
  <2>3. LockOf(g)'
    BY <1>4, <2>1, <2>2 DEF Orderly, LockOf
  <2>4. PICK r : r = n.reg
    OBVIOUS
  <2>5. setup = "upgraded" => FilesOf(g, q.w, r)'
    BY <1>4, <2>1, <2>2 DEF Orderly, FilesOf, Files
  <2>6. h \in Saving
    BY DEF Saving
  <2>7. Orderly(k, g, q.w, q.acc, r)'
    BY <1>2, <1>4, <1>9, <2>1, <2>3, <2>5, <2>6, Onward
  <2> QED BY <1>8, <2>4, <2>7
<1>10. Done(p, n)
  BY <1>2, <1>7 DEF WriteRegistry
<1>11. n.w # Nobody /\ (n.acc # "keyless" \/ k = "register" => n.w \in Stellar)
  BY <1>2, <1>8
<1> QED BY <1>1, <1>4, <1>5, <1>6, <1>8, <1>9, <1>10, <1>11, GoesOn

\* The lock file is removed.
LEMMA ReleaseKeeps == ASSUME IInv, NEW p \in Processes, Release(p), setup' = setup PROVE IInv'
<1> DEFINE h == "release"
<1>1. PICK k, q : Runs(p, k, q, h)
  BY AtIs DEF Release
<1>2. /\ proc[p] = q /\ q \in Process /\ k \in Kinds /\ q.w # Nobody
      /\ (q.acc # "keyless" \/ k = "register" => q.w \in Stellar)
  BY <1>1 DEF Runs, Readers
<1>3. Stored
  BY DEF IInv
<1>4. UNCHANGED <<account, registry, keychain, grant, passkey, cache, legacy, setup>> /\ lock' = "free"
  BY DEF Release, store
<1>5. Stored'
  BY <1>3, <1>4 DEF Stored
<1>6. ASSUME setup # "racing"
      PROVE  /\ Orderly(k, h, q.w, q.acc, q.reg) /\ lock = "held"
             /\ setup = "upgraded" => (Files = registry.entries)'
  <2>1. Orderly(k, h, q.w, q.acc, q.reg) /\ lock = "held"
    BY <1>1, <1>6 DEF Runs, Orderly, LockOf
  <2>2. setup = "upgraded" => (Files = registry.entries)'
    BY <1>4, <2>1 DEF Orderly, FilesOf, Files
  <2> QED BY <2>1, <2>2
<1>7. ASSUME setup # "racing", NEW g \in Then(k, h) PROVE Orderly(k, g, q.w, q.acc, q.reg)'
  <2>1. g \notin {"enter", "enterActive", "drop", "acquire", "write", "release"}
    BY <1>2, Order DEF Edits
  <2>2. LockOf(g)'
    BY <1>4, <2>1 DEF LockOf
  <2>3. setup = "upgraded" => FilesOf(g, q.w, q.reg)'
    BY <1>6, <1>7, <2>1 DEF FilesOf
  <2>4. h \in Saving
    BY DEF Saving
  <2> QED BY <1>2, <1>4, <1>6, <1>7, <2>2, <2>3, <2>4, Onward
<1>8. ASSUME setup # "racing", h \in Lasts(k) PROVE Settled'
  <2>1. k = "other"
    BY <1>2, <1>8, Ends
  <2>2. LockOf("none")'
    BY <1>4 DEF LockOf
  <2> QED BY <1>4, <1>6, <1>8, <2>1, <2>2, SettledThen
<1>9. Done(p, q)
  BY <1>2 DEF Release
<1> QED BY <1>1, <1>2, <1>4, <1>5, <1>7, <1>8, <1>9, GoesOn

\* An account is written to its file; now the registry may not list it.
LEMMA StoreAccountKeeps == ASSUME IInv, NEW p \in Processes, StoreAccount(p), setup' = setup PROVE IInv'
<1> DEFINE h == "store"
<1>1. PICK k, q : Runs(p, k, q, h)
  BY AtIs DEF StoreAccount
<1>2. PICK w, a : w = q.w /\ a = q.acc
  OBVIOUS
<1>3. /\ proc[p] = q /\ q \in Process /\ k \in Kinds /\ w \in Wallets /\ w # Nobody /\ a \in Account
      /\ (a # "keyless" \/ k = "register" => w \in Stellar)
  BY <1>1, <1>2 DEF Runs, Readers
<1>4. Stored
  BY DEF IInv
<1>5. /\ UNCHANGED <<registry, keychain, grant, passkey, cache, legacy, lock, setup>>
      /\ account' = [account EXCEPT ![w] = a]
  BY <1>2, <1>3 DEF StoreAccount
<1>6. account'[w] = a /\ \A x \in Wallets \ {w} : account'[x] = account[x]
  BY <1>3, <1>4, <1>5 DEF Stored
<1>7. Stored'
  <2>1. account' \in [Wallets -> Account \cup {NoFile}]
    BY <1>3, <1>4, <1>5 DEF Stored
  <2>2. \A x \in Wallets : account'[x] \in {"plain"} \cup KeyIds => x \in Stellar
    BY <1>3, <1>4, <1>6 DEF Stored, KeyIds
  <2> QED BY <1>4, <1>5, <2>1, <2>2 DEF Stored
<1>8. h \notin Lasts(k)
  BY <1>3, Ends
<1>9. PICK n : n = [q EXCEPT !.acc = "keyless"]
  OBVIOUS
<1>10. n \in Process /\ n.do = q.do /\ n.later = q.later /\ n.w = w /\ n.acc = "keyless" /\ n.reg = q.reg
  <2>1. "keyless" \in Account
    BY DEF Account
  <2> QED BY <1>2, <1>3, <1>9, <2>1, With
<1>11. ASSUME setup # "racing", NEW g \in Then(k, h), NEW r PROVE Orderly(k, g, w, "keyless", r)'
  <2>1. Orderly(k, h, w, a, q.reg)
    BY <1>1, <1>2, <1>11 DEF Runs
  <2>2. g \in {"enter", "enterActive"} /\ (k = "register" => g \in Entered)
    BY <1>3, Order
  <2>3. LockOf(g)'
    BY <1>5, <2>1, <2>2 DEF Orderly, LockOf
  <2>4. ASSUME setup = "upgraded" PROVE FilesOf(g, w, r)'
    <3>1. Files = registry.entries
      BY <2>1, <2>4 DEF Orderly, FilesOf
    <3>2. Files' = Files \cup {w}
      <4>1. a # NoFile
        BY <1>3 DEF Account, KeyIds, NoFile
      <4> QED BY <1>3, <1>6, <4>1 DEF Files
    <3> QED BY <1>5, <2>2, <3>1, <3>2 DEF FilesOf
  <2>5. ASSUME setup = "upgraded" PROVE CleanOf(k, g, w, "keyless")'
    <3>1. CleanOf(k, h, w, a)
      BY <2>1, <2>5 DEF Orderly
    <3>2. h \notin Entered
      BY DEF Entered
    <3>3. \A c \in {cache, legacy} : c.seed => account[c.of] \notin KeyIds
      BY <3>1, <3>2 DEF CleanOf
    <3>4. ASSUME NEW c \in {cache, legacy}, c.seed, account'[c.of] \in KeyIds
          PROVE  k = "register" /\ g \in Entered /\ c.of = w
      <4>1. c.of \in Wallets
        BY <1>4, <3>4, WalletAssumptions DEF Stored, Wallets
      <4>2. c.of = w
        BY <1>6, <3>3, <3>4, <4>1
      <4>3. a \in KeyIds
        BY <1>6, <3>4, <4>2
      <4>4. k # "other"
        BY <3>1, <3>3, <3>4, <4>2, <4>3 DEF CleanOf
      <4>5. k # "disable"
        BY <3>1, <4>3 DEF CleanOf, KeyIds
      <4> QED BY <1>3, <2>2, <4>2, <4>4, <4>5 DEF Kinds
    <3> QED BY <1>5, <2>2, <3>4 DEF CleanOf
  <2>6. ASSUME setup = "crashes" PROVE legacy = NoCopy /\ (lock # "abandoned" => SeedsOf(k, g, w, "keyless")')
    <3>1. legacy = NoCopy /\ (lock # "abandoned" => SeedsOf(k, h, w, a))
      BY <2>1, <2>6 DEF Orderly
    <3>2. ASSUME lock # "abandoned" PROVE SeedsOf(k, g, w, "keyless")'
      <4>1. SeedsOf(k, h, w, a)
        BY <3>1, <3>2
      <4>2. ASSUME NEW x \in Stellar PROVE account'[x] # "keyless" /\ (account'[x] \in KeyIds => keychain[x] = account'[x])
        <5>1. CASE x = w
          BY <1>6, <4>1, <5>1 DEF SeedsOf
        <5>2. CASE x # w
          BY <1>6, <4>1, <5>2 DEF SeedsOf, Readable, Wallets
        <5> QED BY <5>1, <5>2
      <4>3. "keyless" \notin KeyIds /\ g \notin {"store", "ceremony", "close", "seal"}
        BY <2>2 DEF KeyIds
      <4>4. k = "disable" => account'[w] = "plain"
        BY <1>6, <4>1 DEF SeedsOf
      <4> QED BY <1>5, <4>2, <4>3, <4>4 DEF SeedsOf, Readable
    <3> QED BY <3>1, <3>2
  <2> QED BY <1>5, <2>3, <2>4, <2>5, <2>6 DEF Orderly
<1>12. Done(p, n)
  BY <1>3, <1>9 DEF StoreAccount, Resting
<1>13. n.w # Nobody /\ (n.acc # "keyless" \/ k = "register" => n.w \in Stellar)
  BY <1>3, <1>10
<1>14. ASSUME setup # "racing", NEW g \in Then(k, h) PROVE Orderly(k, g, n.w, n.acc, n.reg)'
  <2>1. PICK r : r = n.reg
    OBVIOUS
  <2>2. Orderly(k, g, w, "keyless", r)'
    BY <1>11, <1>14
  <2> QED BY <1>10, <2>1, <2>2
<1> QED BY <1>1, <1>5, <1>7, <1>8, <1>10, <1>12, <1>13, <1>14, GoesOn

\* A file is removed; now the registry may list it in vain.
LEMMA DeleteAccountKeeps == ASSUME IInv, NEW p \in Processes, DeleteAccount(p), setup' = setup PROVE IInv'
<1> DEFINE h == "delete"
<1>1. PICK k, q : Runs(p, k, q, h)
  BY AtIs DEF DeleteAccount
<1>2. PICK w, a : w = q.w /\ a = q.acc
  OBVIOUS
<1>3. /\ proc[p] = q /\ q \in Process /\ k = "other" /\ w \in Wallets /\ w # Nobody
      /\ (a # "keyless" \/ k = "register" => w \in Stellar)
  BY <1>1, <1>2 DEF Runs, Readers, Kinds, Lasts, Then, RegisterThen, DisableThen
<1>4. Stored
  BY DEF IInv
<1>5. /\ UNCHANGED <<registry, keychain, grant, passkey, cache, legacy, lock, setup>>
      /\ account' = [account EXCEPT ![w] = NoFile]
  BY <1>2, <1>3 DEF DeleteAccount
<1>6. account'[w] = NoFile /\ \A x \in Wallets \ {w} : account'[x] = account[x]
  BY <1>3, <1>4, <1>5 DEF Stored
<1>7. NoFile \notin {"plain", "keyless"} \cup KeyIds
  BY DEF NoFile, KeyIds
<1>8. Stored'
  <2>1. account' \in [Wallets -> Account \cup {NoFile}]
    BY <1>3, <1>4, <1>5 DEF Stored
  <2>2. \A x \in Wallets : account'[x] \in {"plain"} \cup KeyIds => x \in Stellar
    BY <1>3, <1>4, <1>6, <1>7 DEF Stored
  <2> QED BY <1>4, <1>5, <2>1, <2>2 DEF Stored
<1>9. h \notin Lasts(k)
  BY <1>3, Ends DEF Kinds
<1>10. ASSUME setup # "racing", NEW g \in Then(k, h), NEW r PROVE Orderly(k, g, w, a, r)'
  <2>1. Orderly(k, h, w, a, q.reg)
    BY <1>1, <1>2, <1>10 DEF Runs
  <2>2. g = "drop"
    BY <1>3, Order DEF Kinds
  <2>3. LockOf(g)'
    BY <1>5, <2>1, <2>2 DEF Orderly, LockOf
  <2>4. ASSUME setup = "upgraded" PROVE FilesOf(g, w, r)'
    <3>1. Files = registry.entries
      BY <2>1, <2>4 DEF Orderly, FilesOf
    <3>2. Files' = Files \ {w}
      BY <1>3, <1>6 DEF Files
    <3> QED BY <1>5, <2>2, <3>1, <3>2 DEF FilesOf
  <2>5. ASSUME setup = "upgraded" PROVE CleanOf(k, g, w, a)'
    <3>1. \A c \in {cache, legacy} : c.seed => account[c.of] \notin KeyIds
      BY <1>3, <2>1, <2>5 DEF Orderly, CleanOf
    <3>2. ASSUME NEW c \in {cache, legacy}, c.seed PROVE account'[c.of] \notin KeyIds
      <4>1. c.of \in Wallets
        BY <1>4, <3>2, WalletAssumptions DEF Stored, Wallets
      <4> QED BY <1>6, <1>7, <3>1, <3>2, <4>1
    <3> QED BY <1>3, <1>5, <2>2, <3>2 DEF CleanOf
  <2>6. ASSUME setup = "crashes" PROVE legacy = NoCopy /\ (lock # "abandoned" => SeedsOf(k, g, w, a)')
    <3>1. legacy = NoCopy /\ (lock # "abandoned" => SeedsOf(k, h, w, a))
      BY <2>1, <2>6 DEF Orderly
    <3>2. ASSUME lock # "abandoned" PROVE SeedsOf(k, g, w, a)'
      <4>1. SeedsOf(k, h, w, a)
        BY <3>1, <3>2
      <4>2. ASSUME NEW x \in Stellar PROVE account'[x] # "keyless" /\ (account'[x] \in KeyIds => keychain[x] = account'[x])
        BY <1>6, <1>7, <4>1 DEF SeedsOf, Readable, Wallets
      <4>3. a \in KeyIds => keychain[w] = a
        BY <4>1 DEF SeedsOf
      <4> QED BY <1>3, <1>5, <2>2, <4>2, <4>3 DEF SeedsOf, Readable
    <3> QED BY <3>1, <3>2
  <2> QED BY <1>5, <2>3, <2>4, <2>5, <2>6 DEF Orderly
<1>11. Done(p, q)
  BY <1>3 DEF DeleteAccount
<1>12. ASSUME setup # "racing", NEW g \in Then(k, h) PROVE Orderly(k, g, q.w, q.acc, q.reg)'
  <2>1. PICK r : r = q.reg
    OBVIOUS
  <2>2. Orderly(k, g, w, a, r)'
    BY <1>10, <1>12
  <2> QED BY <1>2, <2>1, <2>2
<1> QED BY <1>1, <1>2, <1>3, <1>5, <1>8, <1>9, <1>11, <1>12, GoesOn
------------------------------------------------------------------------------
(* Operations on keys and on the files of older releases.                     *)

\* The last operation of an attempt leaves older files clean and seeds in reach.
LEMMA SettledClean ==
    ASSUME NEW k, NEW g, g \notin Saving, NEW w, NEW acc, NEW r, Orderly(k, g, w, acc, r),
           UNCHANGED <<account, registry, keychain, lock, setup>>,
           setup = "upgraded" => \A c \in {cache', legacy'} : c.seed => account[c.of] \notin KeyIds,
           setup = "crashes" /\ legacy = NoCopy => legacy' = NoCopy
    PROVE  Settled'
<1>1. LockOf("none")'
  BY DEF Saving, Orderly, LockOf
<1>2. setup' = "upgraded" => FilesOf("none", Nobody, Resting.reg)'
  <2>1. g \notin {"enter", "enterActive", "drop", "acquire", "write"}
    BY DEF Saving, Edits
  <2> QED BY <2>1 DEF Orderly, FilesOf, Files
<1>3. setup' = "upgraded" => CleanOf("other", "none", Nobody, "keyless")'
  BY DEF CleanOf
<1>4. (setup = "crashes" => legacy = NoCopy /\ (lock # "abandoned" => SeedsOf("other", "none", Nobody, "keyless")))'
  <2>1. "keyless" \notin KeyIds
    BY DEF KeyIds
  <2> QED BY <2>1 DEF Orderly, SeedsOf, Readable
<1> QED BY <1>1, <1>2, <1>3, <1>4 DEF Settled, Orderly

\* The account of an old release is renamed.
LEMMA BackupKeeps == ASSUME IInv, NEW p \in Processes, Backup(p), setup' = setup PROVE IInv'
<1> DEFINE h == "backup"
<1>1. PICK k, q : Runs(p, k, q, h)
  BY AtIs DEF Backup
<1>2. /\ proc[p] = q /\ q \in Process /\ k = "other" /\ q.w # Nobody /\ (q.acc # "keyless" => q.w \in Stellar)
      /\ Then(k, h) = {}
  BY <1>1 DEF Runs, Readers, Kinds, Lasts, Then, RegisterThen, DisableThen, OtherThen
<1>3. Stored
  BY DEF IInv
<1>4. UNCHANGED <<account, registry, keychain, grant, passkey, cache, lock, setup>> /\ legacy' = NoCopy
  BY DEF Backup
<1>5. ~NoCopy.seed
  BY DEF NoCopy
<1>6. Stored'
  BY <1>3, <1>4, <1>5 DEF Stored
<1>7. ASSUME setup # "racing" PROVE Settled'
  <2>1. Orderly(k, h, q.w, q.acc, q.reg)
    BY <1>1, <1>7 DEF Runs
  <2>2. setup = "upgraded" => \A c \in {cache', legacy'} : c.seed => account[c.of] \notin KeyIds
    BY <1>2, <1>4, <1>5, <2>1 DEF Orderly, CleanOf
  <2>3. h \notin Saving
    BY DEF Saving, Edits
  <2> QED BY <1>4, <2>1, <2>2, <2>3, SettledClean
<1>8. Done(p, q)
  BY <1>2 DEF Backup
<1> QED BY <1>1, <1>2, <1>4, <1>6, <1>7, <1>8, GoesOn

\* The funded account goes to account.json.
LEMMA CacheFundedKeeps == ASSUME IInv, NEW p \in Processes, CacheFunded(p), setup' = setup PROVE IInv'
<1> DEFINE h == "cacheFunded"
<1>1. PICK k, q : Runs(p, k, q, h)
  BY AtIs DEF CacheFunded
<1>2. /\ proc[p] = q /\ q \in Process /\ k = "other" /\ q.w \in Wallets /\ q.w # Nobody
      /\ (q.acc # "keyless" => q.w \in Stellar) /\ Then(k, h) = {}
  BY <1>1 DEF Runs, Readers, Kinds, Lasts, Then, RegisterThen, DisableThen, OtherThen
<1>3. Stored
  BY DEF IInv
<1>4. UNCHANGED <<account, registry, keychain, grant, passkey, legacy, lock, setup>>
  BY DEF CacheFunded
<1>5. PICK b \in BOOLEAN : b <=> q.acc = "plain"
  OBVIOUS
<1>6. cache' = [of |-> q.w, seed |-> b]
  BY <1>2, <1>5 DEF CacheFunded
<1>7. cache' \in Record /\ cache'.of = q.w /\ (cache'.seed <=> q.acc = "plain")
  BY <1>2, <1>5, <1>6 DEF Record
<1>8. Stored'
  BY <1>2, <1>3, <1>4, <1>7 DEF Stored
<1>9. ASSUME setup # "racing" PROVE Settled'
  <2>1. Orderly(k, h, q.w, q.acc, q.reg)
    BY <1>1, <1>9 DEF Runs
  <2>2. setup = "upgraded" => \A c \in {cache', legacy'} : c.seed => account[c.of] \notin KeyIds
    BY <1>2, <1>4, <1>7, <2>1 DEF Orderly, CleanOf
  <2>3. h \notin Saving
    BY DEF Saving, Edits
  <2> QED BY <1>4, <2>1, <2>2, <2>3, SettledClean
<1>10. Done(p, q)
  BY <1>2 DEF CacheFunded
<1> QED BY <1>1, <1>2, <1>4, <1>8, <1>9, <1>10, GoesOn

\* A scrubbed copy holds no seed of the wallet, and otherwise what it held.
LEMMA ScrubbedIs ==
    ASSUME NEW w \in Wallets, NEW c \in Record \cup {NoCopy}
    PROVE  /\ Scrubbed(c, w) \in Record \cup {NoCopy}
           /\ Scrubbed(c, w).seed => c.seed /\ c.of # w /\ Scrubbed(c, w) = c
           /\ Scrubbed(NoCopy, w) = NoCopy
<1>1. w # Nobody /\ NoCopy.of = Nobody
  BY WalletAssumptions DEF NoCopy
<1> QED BY <1>1 DEF Scrubbed, Record

\* Older files lose the seed of the wallet that was registered.
LEMMA ScrubKeeps == ASSUME IInv, NEW p \in Processes, Scrub(p), setup' = setup PROVE IInv'
<1> DEFINE h == "scrub"
<1>1. PICK k, q : Runs(p, k, q, h)
  BY AtIs DEF Scrub
<1>2. /\ proc[p] = q /\ q \in Process /\ k = "register" /\ q.w \in Wallets /\ q.w # Nobody /\ q.w \in Stellar
      /\ Then(k, h) = {}
  BY <1>1 DEF Runs, Readers, Kinds, Lasts, Then, RegisterThen, DisableThen, OtherThen
<1>3. Stored
  BY DEF IInv
<1>4. /\ UNCHANGED <<account, registry, keychain, grant, passkey, lock, setup>>
      /\ cache' = Scrubbed(cache, q.w) /\ legacy' = Scrubbed(legacy, q.w)
  BY <1>2 DEF Scrub
<1>5. /\ cache' \in Record \cup {NoCopy} /\ legacy' \in Record \cup {NoCopy}
      /\ cache'.seed => cache.seed /\ cache.of # q.w /\ cache' = cache
      /\ legacy'.seed => legacy.seed /\ legacy.of # q.w /\ legacy' = legacy
      /\ legacy = NoCopy => legacy' = NoCopy
  <2>1. cache \in Record \cup {NoCopy} /\ legacy \in Record \cup {NoCopy}
    BY <1>3 DEF Stored
  <2> QED BY <1>2, <1>4, <2>1, ScrubbedIs
<1>6. Stored'
  BY <1>3, <1>4, <1>5 DEF Stored
<1>7. ASSUME setup # "racing" PROVE Settled'
  <2>1. Orderly(k, h, q.w, q.acc, q.reg)
    BY <1>1, <1>7 DEF Runs
  <2>2. setup = "upgraded" => \A c \in {cache', legacy'} : c.seed => account[c.of] \notin KeyIds
    BY <1>5, <2>1 DEF Orderly, CleanOf
  <2>3. h \notin Saving
    BY DEF Saving, Edits
  <2> QED BY <1>4, <1>5, <2>1, <2>2, <2>3, SettledClean
<1>8. Done(p, q)
  BY <1>2 DEF Scrub
<1> QED BY <1>1, <1>2, <1>4, <1>6, <1>7, <1>8, GoesOn

\* A key that neither seals the account nor is in the keychain exists.
LEMMA SomeKey == \A a, b : \E k \in KeyIds : k \notin {a, b}
BY DEF KeyIds

\* A key goes to the keychain while the file holds the plain seed.
LEMMA SealKeeps == ASSUME IInv, NEW p \in Processes, Seal(p), setup' = setup PROVE IInv'
<1> DEFINE h == "seal"
<1>1. PICK k, q : Runs(p, k, q, h)
  BY AtIs DEF Seal
<1>2. PICK w : w = q.w
  OBVIOUS
<1>3. /\ proc[p] = q /\ q \in Process /\ k = "register" /\ w \in Wallets /\ w # Nobody /\ w \in Stellar
      /\ Then(k, h) = {"store"} /\ h \notin Lasts(k)
  BY <1>1, <1>2 DEF Runs, Readers, Kinds, Lasts, Then, RegisterThen, DisableThen, OtherThen
<1>4. Stored
  BY DEF IInv
<1>5. PICK key : key = CHOOSE x \in KeyIds : x \notin {keychain[w], account[w]}
  OBVIOUS
<1>6. key \in KeyIds
  BY <1>5, SomeKey
<1>7. /\ UNCHANGED <<account, registry, grant, passkey, cache, legacy, lock, setup>>
      /\ keychain' = [keychain EXCEPT ![w] = key]
      /\ Done(p, [q EXCEPT !.acc = key])
  BY <1>2, <1>3, <1>5 DEF Seal
<1>8. /\ keychain' \in [Wallets -> KeyIds \cup {NoKey}] /\ keychain'[w] = key
      /\ \A x \in Wallets \ {w} : keychain'[x] = keychain[x]
  BY <1>3, <1>4, <1>6, <1>7 DEF Stored
<1>9. Stored'
  BY <1>4, <1>7, <1>8 DEF Stored
<1>10. PICK n : n = [q EXCEPT !.acc = key]
  OBVIOUS
<1>11. n \in Process /\ n.do = q.do /\ n.later = q.later /\ n.w = w /\ n.acc = key /\ n.reg = q.reg
  BY <1>2, <1>3, <1>6, <1>10, With DEF Account
<1>12. ASSUME setup # "racing", NEW r PROVE Orderly(k, "store", w, key, r)'
  <2>1. Orderly(k, h, w, q.acc, q.reg)
    BY <1>1, <1>2, <1>12 DEF Runs
  <2>2. LockOf("store")'
    BY <1>7, <2>1 DEF Orderly, LockOf
  <2>3. ASSUME setup = "upgraded" PROVE FilesOf("store", w, r)'
    BY <1>7, <2>1, <2>3 DEF Orderly, FilesOf, Files
  <2>4. ASSUME setup = "upgraded" PROVE CleanOf(k, "store", w, key)'
    BY <1>3, <1>7, <2>1, <2>4 DEF Orderly, CleanOf, Entered
  <2>5. ASSUME setup = "crashes" PROVE legacy = NoCopy /\ (lock # "abandoned" => SeedsOf(k, "store", w, key)')
    <3>1. legacy = NoCopy /\ (lock # "abandoned" => SeedsOf(k, h, w, q.acc))
      BY <2>1, <2>5 DEF Orderly
    <3>2. ASSUME lock # "abandoned" PROVE SeedsOf(k, "store", w, key)'
      <4>1. account[w] = "plain" /\ \A x \in Stellar : account[x] # "keyless" /\ Readable(x)
        BY <1>3, <3>1, <3>2 DEF SeedsOf
      <4>2. ASSUME NEW x \in Stellar PROVE account[x] # "keyless" /\ (account[x] \in KeyIds => keychain'[x] = account[x])
        <5>1. CASE x = w
          BY <4>1, <5>1 DEF KeyIds
        <5>2. CASE x # w
          BY <1>8, <4>1, <5>2 DEF Readable, Wallets
        <5> QED BY <5>1, <5>2
      <4>3. key # "keyless"
        BY <1>6 DEF KeyIds
      <4> QED BY <1>3, <1>7, <1>8, <4>2, <4>3 DEF SeedsOf, Readable
    <3> QED BY <3>1, <3>2
  <2> QED BY <1>7, <2>2, <2>3, <2>4, <2>5 DEF Orderly
<1>13. Done(p, n)
  BY <1>7, <1>10
<1>14. ASSUME setup # "racing", NEW g \in Then(k, h) PROVE Orderly(k, g, n.w, n.acc, n.reg)'
  <2>1. PICK r : r = n.reg
    OBVIOUS
  <2>2. Orderly(k, g, w, key, r)'
    BY <1>3, <1>12, <1>14
  <2> QED BY <1>11, <2>1, <2>2
<1> QED BY <1>1, <1>3, <1>7, <1>9, <1>11, <1>13, <1>14, GoesOn

\* The key is deleted when the file holds the plain seed.
LEMMA DeleteKeyKeeps == ASSUME IInv, NEW p \in Processes, DeleteKey(p), setup' = setup PROVE IInv'
<1> DEFINE h == "deleteKey"
<1>1. PICK k, q : Runs(p, k, q, h)
  BY AtIs DEF DeleteKey
<1>2. PICK w, a : w = q.w /\ a = q.acc
  OBVIOUS
<1>3. /\ proc[p] = q /\ q \in Process /\ k = "disable" /\ w \in Wallets /\ w # Nobody
      /\ (a # "keyless" => w \in Stellar)
      /\ Then(k, h) = {"deletePasskeys"} /\ h \notin Lasts(k)
  BY <1>1, <1>2 DEF Runs, Readers, Kinds, Lasts, Then, RegisterThen, DisableThen, OtherThen
<1>4. Stored
  BY DEF IInv
<1>5. /\ UNCHANGED <<account, registry, grant, passkey, cache, legacy, lock, setup>>
      /\ keychain' = [keychain EXCEPT ![w] = NoKey] /\ Done(p, q)
  BY <1>2, <1>3 DEF DeleteKey
<1>6. keychain' \in [Wallets -> KeyIds \cup {NoKey}] /\ \A x \in Wallets \ {w} : keychain'[x] = keychain[x]
  BY <1>3, <1>4, <1>5 DEF Stored
<1>7. Stored'
  BY <1>4, <1>5, <1>6 DEF Stored
<1>8. ASSUME setup # "racing", NEW r PROVE Orderly(k, "deletePasskeys", w, a, r)'
  <2>1. Orderly(k, h, w, a, q.reg)
    BY <1>1, <1>2, <1>8 DEF Runs
  <2>2. LockOf("deletePasskeys")'
    BY <1>5, <2>1 DEF Orderly, LockOf
  <2>3. ASSUME setup = "upgraded" PROVE FilesOf("deletePasskeys", w, r)'
    BY <1>5, <2>1, <2>3 DEF Orderly, FilesOf, Files
  <2>4. ASSUME setup = "upgraded" PROVE CleanOf(k, "deletePasskeys", w, a)'
    BY <1>3, <1>5, <2>1, <2>4 DEF Orderly, CleanOf
  <2>5. ASSUME setup = "crashes" PROVE legacy = NoCopy /\ (lock # "abandoned" => SeedsOf(k, "deletePasskeys", w, a)')
    <3>1. legacy = NoCopy /\ (lock # "abandoned" => SeedsOf(k, h, w, a))
      BY <2>1, <2>5 DEF Orderly
    <3>2. ASSUME lock # "abandoned" PROVE SeedsOf(k, "deletePasskeys", w, a)'
      <4>1. account[w] = "plain" /\ a \notin KeyIds /\ \A x \in Stellar : account[x] # "keyless" /\ Readable(x)
        BY <1>3, <3>1, <3>2 DEF SeedsOf, Plain
      <4>2. ASSUME NEW x \in Stellar PROVE account[x] # "keyless" /\ (account[x] \in KeyIds => keychain'[x] = account[x])
        <5>1. CASE x = w
          BY <4>1, <5>1 DEF KeyIds
        <5>2. CASE x # w
          BY <1>6, <4>1, <5>2 DEF Readable, Wallets
        <5> QED BY <5>1, <5>2
      <4> QED BY <1>3, <1>5, <4>1, <4>2 DEF SeedsOf, Readable, Plain
    <3> QED BY <3>1, <3>2
  <2> QED BY <1>5, <2>2, <2>3, <2>4, <2>5 DEF Orderly
<1>9. ASSUME setup # "racing", NEW g \in Then(k, h) PROVE Orderly(k, g, q.w, q.acc, q.reg)'
  <2>1. PICK r : r = q.reg
    OBVIOUS
  <2>2. Orderly(k, g, w, a, r)'
    BY <1>3, <1>8, <1>9
  <2> QED BY <1>2, <2>1, <2>2
<1>10. q.w # Nobody /\ (q.acc # "keyless" \/ k = "register" => q.w \in Stellar)
  BY <1>2, <1>3
<1> QED BY <1>1, <1>3, <1>5, <1>7, <1>9, <1>10, GoesOn
------------------------------------------------------------------------------
(* Every step keeps the invariant.                                            *)

\* The stores as the program finds them.
LEMMA InitIInv == Init => IInv
<1> SUFFICES ASSUME Init PROVE IInv
  OBVIOUS
<1>1. setup \in Setup /\ lock = "free" /\ cache = NoCopy
  BY WalletAssumptions DEF Init
<1>2. /\ proc = [p \in Processes |-> Resting] /\ AllIdle
  BY DEF Init, AllIdle, Idle
<1>3. Running
  <2>1. Resting \in Process /\ Resting.acc = "keyless"
    BY RestingIs DEF Resting
  <2>2. Sound(Resting)
    BY <2>1 DEF Sound
  <2> QED BY <1>2, <2>1, <2>2 DEF Running
<1>4. ~NoCopy.seed
  BY DEF NoCopy
<1>5. NoFile \notin {"plain", "keyless"} \cup KeyIds /\ "key1" \in KeyIds /\ "keyless" \notin {"plain"} \cup KeyIds
  BY DEF NoFile, KeyIds
<1>6. grant \in [Wallets -> {"none", "live", "expired"}]
  BY DEF Init
<1>7. CASE /\ account = [w \in Wallets |-> NoFile]
           /\ registry = [entries |-> {}, active |-> Nobody]
           /\ keychain = [w \in Wallets |-> NoKey]
           /\ passkey = {}
           /\ legacy \in IF setup = "upgraded" THEN [of : Stellar, seed : {TRUE}] ELSE {NoCopy}
  <2>1. legacy \in Record \cup {NoCopy} /\ (legacy.seed => legacy.of \in Stellar)
    BY <1>4, <1>7 DEF Record, Wallets
  <2>2. registry \in Registry
    BY <1>7 DEF Registry
  <2>3. Stored
    BY <1>1, <1>4, <1>5, <1>6, <1>7, <2>1, <2>2 DEF Stored
  <2>4. ASSUME setup # "racing" PROVE Settled
    <3>1. LockOf("none")
      BY <1>1 DEF LockOf
    <3>2. Files = {} /\ registry.entries = {}
      BY <1>7 DEF Files
    <3>3. FilesOf("none", Nobody, Resting.reg)
      BY <3>2 DEF FilesOf
    <3>4. \A x \in Wallets : account[x] \notin KeyIds /\ account[x] # "keyless"
      BY <1>5, <1>7
    <3>5. CleanOf("other", "none", Nobody, "keyless")
      BY <1>1, <1>4, <2>1, <3>4 DEF CleanOf, Wallets
    <3>6. setup = "crashes" => legacy = NoCopy
      BY <1>7
    <3>7. SeedsOf("other", "none", Nobody, "keyless")
      BY <1>5, <3>4 DEF SeedsOf, Readable, Wallets
    <3> QED BY <3>1, <3>3, <3>5, <3>6, <3>7 DEF Settled, Orderly
  <2> QED BY <1>2, <1>3, <2>3, <2>4 DEF IInv, InOrder, Alone, AllIdle
<1>8. CASE /\ setup = "racing" /\ legacy = NoCopy
           /\ passkey \in SUBSET Stellar
           /\ account = [w \in Wallets |-> IF w \in passkey THEN "key1" ELSE IF w \in Stellar THEN "plain" ELSE "keyless"]
           /\ keychain = [w \in Wallets |-> IF w \in passkey THEN "key1" ELSE NoKey]
           /\ registry \in [entries : {Wallets}, active : Wallets \cup {Nobody}]
  <2>1. registry \in Registry
    BY <1>8 DEF Registry
  <2>2. account \in [Wallets -> Account \cup {NoFile}]
    BY <1>5, <1>8 DEF Account
  <2>3. keychain \in [Wallets -> KeyIds \cup {NoKey}]
    BY <1>5, <1>8
  <2>4. \A w \in Wallets : account[w] \in {"plain"} \cup KeyIds => w \in Stellar
    BY <1>5, <1>8
  <2>5. Stored
    BY <1>1, <1>4, <1>6, <1>8, <2>1, <2>2, <2>3, <2>4 DEF Stored
  <2> QED BY <1>3, <1>8, <2>5 DEF IInv, InOrder
<1> QED BY <1>7, <1>8 DEF Init

\* What holds between two commands holds when nothing but grants changes.
LEMMA StillSettled == Settled /\ Same => Settled'
BY SettledAgain DEF Settled, Unsettled

\* A command is started.
LEMMA StartKeeps == ASSUME IInv, NEW p \in Processes, Start(p) PROVE IInv'
<1>1. Stored /\ Idle(p) /\ (setup # "racing" => AllIdle)
  BY DEF IInv, Start
<1>2. Same /\ UNCHANGED <<grant, passkey>>
  BY DEF Start, Same, store
<1>3. PICK c \in Commands : proc' = [proc EXCEPT ![p] = StartAttempts(c)]
  BY DEF Start
<1>4. registry.entries \subseteq Wallets
  BY <1>1 DEF Stored, Registry
<1>5. c \in Seq(Attempt)
  BY <1>3, <1>4, CommandsAre DEF Runnable
<1>6. Fresh(StartAttempts(c))
  BY <1>5, FreshIs
<1>7. Stored'
  BY <1>1, <1>2 DEF Stored, Same
<1>8. setup # "racing" => Settled'
  BY <1>1, <1>2, StillSettled DEF IInv, InOrder
<1> QED BY <1>1, <1>2, <1>3, <1>6, <1>7, <1>8, FreshKeeps DEF Same

\* A grant expires.
LEMMA ExpireKeeps == IInv /\ Expire => IInv'
<1> SUFFICES ASSUME IInv, Expire PROVE IInv'
  OBVIOUS
<1>1. UNCHANGED <<account, registry, keychain, passkey, cache, legacy, lock, proc, setup>>
  BY DEF Expire
<1>2. grant' \in [Wallets -> {"none", "live", "expired"}]
  BY DEF Expire, IInv, Stored
<1>3. Stored' /\ Running'
  BY <1>1, <1>2 DEF IInv, Stored, Running
<1>4. InOrder'
  BY <1>1 DEF IInv, InOrder, Alone, AllIdle, Idle, Settled, Orderly, LockOf, FilesOf, Files, CleanOf, SeedsOf, Readable
<1> QED BY <1>3, <1>4 DEF IInv

\* A process is killed and forgets what it was doing.
LEMMA KillKeeps == ASSUME IInv, NEW p \in Processes, Kill(p) PROVE IInv'
<1>1. Stored /\ ~Idle(p) /\ setup = "crashes"
  BY DEF IInv, Kill
<1>2. /\ UNCHANGED <<account, registry, keychain, grant, passkey, cache, legacy, setup>>
      /\ lock' = IF At(p, "write") \/ At(p, "release") THEN "abandoned" ELSE lock
      /\ proc' = [proc EXCEPT ![p] = Resting]
  BY DEF Kill, store
<1>3. PICK h : h = Head(proc[p].do)
  OBVIOUS
<1>4. At(p, h)
  BY <1>1, <1>3 DEF At
<1>5. PICK k, q : Runs(p, k, q, h)
  BY <1>4, AtIs
<1>6. Orderly(k, h, q.w, q.acc, q.reg)
  BY <1>1, <1>5 DEF Runs
<1>7. Stored'
  BY <1>1, <1>2 DEF Stored
<1>8. lock' = IF h \in {"write", "release"} THEN "abandoned" ELSE lock
  BY <1>2, <1>3, <1>4 DEF At
<1>9. Settled'
  <2>1. LockOf("none")'
    BY <1>1, <1>2, <1>6, <1>8 DEF Orderly, LockOf
  <2>2. legacy = NoCopy /\ (lock # "abandoned" => SeedsOf(k, h, q.w, q.acc))
    BY <1>1, <1>6 DEF Orderly
  <2>3. "keyless" \notin KeyIds
    BY DEF KeyIds
  <2>4. lock' # "abandoned" => lock # "abandoned"
    BY <1>8
  <2>5. lock' # "abandoned" => SeedsOf("other", "none", Nobody, "keyless")'
    BY <1>2, <2>2, <2>3, <2>4 DEF SeedsOf, Readable
  <2> QED BY <1>1, <1>2, <2>1, <2>2, <2>5 DEF Settled, Orderly
<1> QED BY <1>1, <1>2, <1>7, <1>9, FreshKeeps DEF Fresh

\* All operations on files.
LEMMA FileKeeps == ASSUME IInv, NEW p \in Processes, FileStep(p), setup' = setup PROVE IInv'
BY ReadAccountKeeps, ReadActiveKeeps, CreateKeeps, StoreAccountKeeps, EditRegistryKeeps, AcquireKeeps,
   AcquireTimesOutKeeps, WriteRegistryKeeps, ReleaseKeeps, DeleteAccountKeeps, ReadLegacyKeeps, BackupKeeps,
   CacheFundedKeeps DEF FileStep

\* All operations on keys.
LEMMA KeyKeeps == ASSUME IInv, NEW p \in Processes, KeyStep(p), setup' = setup PROVE IInv'
BY SealKeeps, PasskeysKeep, ScrubKeeps, UnsealKeeps, GrantsKeep, DeleteKeyKeeps DEF KeyStep

\* Every step keeps the invariant.
LEMMA NextKeeps == IInv /\ [Next]_vars => IInv'
<1> SUFFICES ASSUME IInv, [Next]_vars PROVE IInv'
  OBVIOUS
<1>1. CASE UNCHANGED vars
  <2>1. UNCHANGED <<account, registry, keychain, grant, passkey, cache, legacy, lock, proc, setup>>
    BY <1>1 DEF vars, store
  <2>2. Stored' /\ Running'
    BY <2>1 DEF IInv, Stored, Running
  <2>3. InOrder'
    BY <2>1 DEF IInv, InOrder, Alone, AllIdle, Idle, Settled, Orderly, LockOf, FilesOf, Files, CleanOf, SeedsOf, Readable
  <2> QED BY <2>2, <2>3 DEF IInv
<1>2. CASE Expire
  BY <1>2, ExpireKeeps
<1>3. ASSUME NEW p \in Processes, Start(p) \/ ProgramStep(p) \/ Browse(p) \/ Kill(p) PROVE IInv'
  <2>1. CASE Start(p)
    BY <2>1, StartKeeps
  <2>2. CASE ProgramStep(p)
    BY <2>2, FileKeeps, KeyKeeps, BrowsingKeeps, WaitKeeps DEF ProgramStep, CeremonyStep
  <2>3. CASE Browse(p)
    BY <2>3, BrowsingKeeps DEF Browse
  <2>4. CASE Kill(p)
    BY <2>4, KillKeeps
  <2> QED BY <1>3, <2>1, <2>2, <2>3, <2>4
<1> QED BY <1>1, <1>2, <1>3 DEF Next

\* The invariant holds always.
LEMMA Invariance == Spec => []IInv
BY InitIInv, NextKeeps, PTL DEF Spec
------------------------------------------------------------------------------
(* Theorems.                                                                  *)

\* What the invariant says of types, the active wallet and the files.
LEMMA ConsistentHolds == IInv => WalletsConsistent
<1> SUFFICES ASSUME IInv PROVE WalletsConsistent
  OBVIOUS
<1>1. Stored /\ Running
  BY DEF IInv
<1>2. TypeOK
  <2>1. registry \in [entries : SUBSET Wallets, active : Wallets \cup {Nobody}]
    BY <1>1 DEF Stored, Registry
  <2>2. {cache, legacy} \subseteq [of : Wallets \cup {Nobody}, seed : BOOLEAN]
    <3>1. NoCopy \in [of : Wallets \cup {Nobody}, seed : BOOLEAN]
      BY DEF NoCopy
    <3>2. \A r \in Record : r \in [of : Wallets \cup {Nobody}, seed : BOOLEAN]
      BY DEF Record
    <3> QED BY <1>1, <3>1, <3>2 DEF Stored
  <2>3. \A p \in Processes : Ceremony(p).blocked \in 0..Tabs
    <3> TAKE p \in Processes
    <3>1. PICK c : c = Ceremony(p)
      OBVIOUS
    <3>2. c \in CeremonyType
      BY <1>1, <3>1, BusyIs DEF Process, Ceremony
    <3>3. /\ c.blocked \in Nat /\ c.checking \in Nat /\ c.tabs \in Nat /\ c.tabs <= Tabs
          /\ c.checking + c.blocked <= c.tabs /\ Tabs \in Nat
      BY <3>2, WalletAssumptions DEF CeremonyType
    <3> QED BY <3>1, <3>3
  <2> QED BY <1>1, <2>1, <2>2, <2>3 DEF TypeOK, Stored
<1>3. ActiveIsListed
  BY <1>1 DEF ActiveIsListed, Stored, Registry
<1>4. FilesListed
  <2> SUFFICES ASSUME setup = "upgraded", AllIdle PROVE Files = registry.entries
    BY DEF FilesListed, Files
  <2> QED BY DEF IInv, InOrder, Settled, Orderly, FilesOf
<1> QED BY <1>2, <1>3, <1>4 DEF WalletsConsistent

\* What the invariant says of seeds when processes may be killed.
LEMMA SeedHolds == IInv => SeedKept
<1> SUFFICES ASSUME IInv, setup = "crashes", lock # "abandoned"
             PROVE \A w \in Stellar : account[w] # "keyless" /\ Readable(w)
  BY DEF SeedKept
<1>1. CASE AllIdle
  BY <1>1 DEF IInv, InOrder, Settled, Orderly, SeedsOf
<1>2. CASE ~AllIdle
  <2>1. PICK p \in Processes : ~Idle(p)
    BY <1>2 DEF AllIdle
  <2>2. PICK k \in Kinds : Orderly(k, Head(proc[p].do), proc[p].w, proc[p].acc, proc[p].reg)
    BY <2>1 DEF IInv, InOrder
  <2> QED BY <2>2 DEF Orderly, SeedsOf
<1> QED BY <1>1, <1>2

\* What the invariant says of who may sign.
LEMMA LockedHolds == IInv => LockedCannotSign
<1> SUFFICES ASSUME IInv, setup = "upgraded", AllIdle, NEW w \in Signers, account[w] \in KeyIds PROVE grant[w] = "live"
  BY DEF LockedCannotSign
<1>1. CASE registry.active # Nobody /\ account[registry.active] \notin {NoFile, "keyless"}
  <2>1. SeedAvailable(w)
    BY <1>1 DEF Signers
  <2> QED BY <2>1 DEF SeedAvailable, KeyIds
<1>2. CASE ~(registry.active # Nobody /\ account[registry.active] \notin {NoFile, "keyless"})
  <2>1. PICK c \in {legacy, cache} : c.seed /\ c.of = w
    BY <1>2 DEF Signers, CopyHolders
  <2>2. CleanOf("other", "none", Nobody, "keyless")
    BY DEF IInv, InOrder, Settled, Orderly
  <2> QED BY <2>1, <2>2 DEF CleanOf
<1> QED BY <1>1, <1>2

\* The registry lists what it makes active, and between orderly commands
\* exactly the wallets that have a file.
THEOREM WalletsAlwaysConsistent == Spec => []WalletsConsistent
BY Invariance, ConsistentHolds, PTL

\* Whatever operation a process is killed at, the seed of every stored wallet
\* can be had from its file and the keychain, unless a lock file was left.
THEOREM SeedAlwaysKept == Spec => []SeedKept
BY Invariance, SeedHolds, PTL

\* Between orderly commands no older file signs for a protected wallet.
THEOREM LockedNeverSigns == Spec => []LockedCannotSign
BY Invariance, LockedHolds, PTL
==============================================================================

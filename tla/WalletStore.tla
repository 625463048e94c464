----------------------------- MODULE WalletStore -----------------------------
(* The wallets kept under ~/.mozartpay/state and the passkeys that protect    *)
(* them (internal/wallet, internal/webauthn), driven by the wallet commands   *)
(* of the command line and of the MCP server.                                 *)
(*                                                                            *)
(* A command is a list of attempts; an attempt is a list of store operations  *)
(* that ends at its first error.  An operation is one step: between two of    *)
(* them another process may run, or the process may be killed.  A file is     *)
(* written as a whole.  Balances, names, networks, config.json and key        *)
(* material are left out: an account is its kind, and a sealed account is the *)
(* name of the keychain key it is encrypted under.                            *)
EXTENDS Integers, Sequences, FiniteSets, SequencesExt

CONSTANTS
    Stellar,        \* addresses of wallets with a seed
    External,       \* addresses registered without one
    Processes,      \* running copies of the program
    Setups,         \* the circumstances to explore, see Setup
    MaxRacing,      \* commands started when they may overlap
    MaxKills,       \* processes killed
    Tabs,           \* browser tabs a user opens for one ceremony
    Nobody

Wallets == Stellar \cup External
\* Keys are told apart, not counted: three are more than are ever in use.
KeyIds  == {"key1", "key2", "key3"}
NoKey   == "none"
NoFile  == "no file"
Account == {"plain", "keyless"} \cup KeyIds

\* "upgraded": one command at a time, over the state of an old release.
\* "crashes": one at a time from scratch, and a process may be killed.
\* "racing": commands of several processes overlap.
Setup == {"upgraded", "crashes", "racing"}

ASSUME WalletAssumptions ==
    /\ IsFiniteSet(Wallets) /\ Stellar \cap External = {} /\ Nobody \notin Wallets
    /\ Setups \subseteq Setup /\ {MaxRacing, MaxKills} \subseteq Nat /\ Tabs \in Nat \ {0}

VARIABLES
    account,    \* wallets/<address>.json
    registry,   \* wallets.json
    lock,       \* wallets.lock: "free", "held" or "abandoned"
    keychain,   \* item wallet-key-<address> of the OS keychain
    grant,      \* item unlock-<address>: "none", "live" or "expired"
    passkey,    \* wallets with a file of credentials
    cache,      \* account.json: whose it is, and whether it holds the seed
    legacy,     \* account_stellar.json of an old release, likewise
    proc,       \* what each process is doing
    setup,
    spent       \* overlapping commands, or killed processes, so far

store == <<account, registry, keychain, grant, passkey, cache, legacy>>
vars  == <<store, lock, proc, setup, spent>>

NoCopy     == [of |-> Nobody, seed |-> FALSE]
NoCeremony == [tabs |-> 0, checking |-> 0, blocked |-> 0, done |-> "empty", finished |-> FALSE, result |-> "none"]
Resting    == [do |-> <<>>, later |-> <<>>, w |-> Nobody, acc |-> "keyless",
               reg |-> [entries |-> {}, active |-> Nobody], ceremony |-> NoCeremony]

Idle(p) == proc[p] = Resting
AllIdle == \A p \in Processes : Idle(p)

Readable(w) == account[w] \in KeyIds => keychain[w] = account[w]
------------------------------------------------------------------------------
(* Commands.  Migrate is the attempt several of them begin with.             *)

Save(edit) == <<edit, "acquire", "write", "release">>
AddWallet(active) == <<"store">> \o Save(IF active THEN "enterActive" ELSE "enter")
Refresh == <<"read">> \o AddWallet(TRUE)

Migrate == [w |-> Nobody, do |-> <<"readLegacy">> \o AddWallet(TRUE) \o <<"backup">>]

\* A wallet is created or imported, and made active if the user says so.
Connect(w) == {<<Migrate, [w |-> w, do |-> <<"create">> \o AddWallet(active)]>> : active \in BOOLEAN}
Import(w)  == Connect(w)
\* wallet list refreshes every balance, in the order of the registry.
List ==
    {<<Migrate>> \o [i \in DOMAIN order |-> [w |-> order[i], do |-> Refresh]]
        : order \in SetToSeqs(registry.entries)}
\* balance and show refresh the active wallet, or another one when that is on
\* a different network than the configuration; show makes it active first.
Balance == {<<[w |-> Nobody, do |-> <<"readActive">> \o Refresh]>>}
           \cup {<<[w |-> w, do |-> Refresh]>> : w \in registry.entries}
Show == Balance \cup {<<[w |-> w, do |-> Save("activate") \o <<"readActive">> \o Refresh]>> : w \in registry.entries}
Assets == {<<Migrate, [w |-> Nobody, do |-> <<"readActive">>]>>}
Switch(w) == {<<Migrate, [w |-> w, do |-> Save("activate") \o <<"readActive">>]>>}
Rename(w) == {<<[w |-> w, do |-> Save("rename")]>>}
Fund == {<<[w |-> Nobody, do |-> <<"readActiveOrCache", "cacheFunded">>]>>}
Export(w) == {<<Migrate, [w |-> w, do |-> <<"read", "resolve">>]>>}
RemoveWallet(w) == {<<[w |-> w, do |-> <<"read", "delete">> \o Save("drop")]>>}
\* A command that signs loads the key of the active wallet.
Sign == {<<[w |-> Nobody, do |-> <<"readActive", "resolve">>]>>}

Register(w) ==
    {<<[w |-> w, do |-> <<"readPlain", "ceremony", "close", "seal">> \o AddWallet(FALSE) \o <<"savePasskey", "scrub">>]>>}
Unlock(w)  == {<<[w |-> w, do |-> <<"readSealed", "ceremony", "close", "grant">>]>>}
Lock(w)    == {<<[w |-> w, do |-> <<"dropGrant">>]>>}

\* Variant: the key is deleted before the plain seed is stored.
DisableDeletesFirst(w) ==
    {<<[w |-> w, do |-> <<"readSealed", "ceremony", "close", "unseal", "dropGrant", "deleteKey", "deletePasskeys">>
                        \o AddWallet(FALSE)]>>}

Disable(w) ==
    {<<[w |-> w, do |-> <<"readSealed", "ceremony", "close", "unseal">> \o AddWallet(FALSE)
                        \o <<"dropGrant", "deleteKey", "deletePasskeys">>]>>}

\* The MCP handlers call the same service, without migrating and asking.
HandleConnect(w) == {<<[w |-> w, do |-> <<"create">> \o AddWallet(TRUE)]>>}
HandleImport(w)  == {<<[w |-> w, do |-> <<"create">> \o AddWallet(TRUE) \o rest]>> : rest \in {<<>>, Save("rename")}}
HandleFund(w)    == {<<[w |-> w, do |-> <<"read">>]>>}
HandleSwitch(w)  == {<<[w |-> w, do |-> Save("activate")]>>}
HandleRename(w)  == Rename(w)
HandleRemove(w)  == {<<[w |-> w, do |-> <<"delete">> \o Save("drop")]>>}
HandleExport(w)  == {<<[w |-> w, do |-> <<"read", "resolve">>]>>}
HandlePasskey(w) == Register(w) \cup Unlock(w) \cup Lock(w) \cup Disable(w)
PasskeyCommand(w) == HandlePasskey(w)
DisableCommand(w) == Disable(w)
Status(w) == {<<[w |-> w, do |-> <<"read">>]>>}

Commands ==
    List \cup Show \cup Balance \cup Assets \cup Fund \cup Sign
    \cup UNION {Connect(w) \cup Import(w) \cup Switch(w) \cup Rename(w) \cup Export(w) \cup RemoveWallet(w)
                 \cup HandleConnect(w) \cup HandleImport(w) \cup HandleFund(w) \cup HandleSwitch(w)
                 \cup HandleRename(w) \cup HandleRemove(w) \cup HandleExport(w) \cup HandlePasskey(w)
                 \cup PasskeyCommand(w) \cup DisableCommand(w) \cup Status(w) : w \in Wallets}
------------------------------------------------------------------------------
(* The machinery of attempts.                                                *)

At(p, op) == ~Idle(p) /\ Head(proc[p].do) = op

StartAttempts(attempts) ==
    IF attempts = <<>> THEN Resting
    ELSE [Resting EXCEPT !.do = Head(attempts).do, !.later = Tail(attempts), !.w = Head(attempts).w]
\* The process after the operation it is at, with its own state q.
After(q) == IF Tail(q.do) = <<>> THEN StartAttempts(q.later) ELSE [q EXCEPT !.do = Tail(@)]
Done(p, q) == proc' = [proc EXCEPT ![p] = After(q)]
\* An error ends the attempt.
Fail(p) == proc' = [proc EXCEPT ![p] = StartAttempts(@.later)]
------------------------------------------------------------------------------
(* Wallet files and the registry.                                            *)

\* GetWalletByAddress, with what RegisterPasskey and Unlock require of it.
ReadAccount(p) ==
    LET w == proc[p].w
        wanted == CASE At(p, "read")       -> account[w] # NoFile
                    [] At(p, "readPlain")  -> account[w] = "plain"
                    [] At(p, "readSealed") -> account[w] \in KeyIds /\ w \in passkey
                    [] OTHER               -> FALSE IN
    /\ At(p, "read") \/ At(p, "readPlain") \/ At(p, "readSealed")
    /\ IF wanted THEN Done(p, [proc[p] EXCEPT !.acc = account[w]]) ELSE Fail(p)
    /\ UNCHANGED <<store, lock>>

\* GetActiveWallet; wallet fund makes do with account.json.
ReadActive(p) ==
    LET w == registry.active
        found == w # Nobody /\ account[w] # NoFile IN
    /\ At(p, "readActive") \/ At(p, "readActiveOrCache")
    /\ IF found THEN Done(p, [proc[p] EXCEPT !.w = w, !.acc = account[w]])
       ELSE IF At(p, "readActiveOrCache") /\ cache # NoCopy
       THEN Done(p, [proc[p] EXCEPT !.w = cache.of, !.acc = IF cache.seed THEN "plain" ELSE "keyless"])
       ELSE Fail(p)
    /\ UNCHANGED <<store, lock>>

\* The account of a new or imported wallet, whatever was stored before.
Create(p) ==
    /\ At(p, "create")
    /\ Done(p, [proc[p] EXCEPT !.acc = IF proc[p].w \in Stellar THEN "plain" ELSE "keyless"])
    /\ UNCHANGED <<store, lock>>

StoreAccount(p) ==
    /\ At(p, "store")
    /\ account' = [account EXCEPT ![proc[p].w] = proc[p].acc]
    /\ Done(p, [proc[p] EXCEPT !.acc = Resting.acc])
    /\ UNCHANGED <<registry, keychain, grant, passkey, cache, legacy, lock>>

Edits == {"enter", "enterActive", "activate", "rename", "drop"}

\* Variant: a wallet that is not made active is not entered.
EditedWhenActive(edit, w, reg) ==
    CASE edit = "enterActive" -> [entries |-> reg.entries \cup {w}, active |-> w]
      [] edit = "activate"    -> [reg EXCEPT !.active = w]
      [] edit = "drop"        -> [entries |-> reg.entries \ {w}, active |-> IF reg.active = w THEN Nobody ELSE reg.active]
      [] OTHER                -> reg

Edited(edit, w, reg) ==
    CASE edit = "enter"       -> [reg EXCEPT !.entries = @ \cup {w}]
      [] edit = "enterActive" -> [entries |-> reg.entries \cup {w}, active |-> w]
      [] edit = "activate"    -> [reg EXCEPT !.active = w]
      [] edit = "drop"        -> [entries |-> reg.entries \ {w}, active |-> IF reg.active = w THEN Nobody ELSE reg.active]
      [] OTHER                -> reg

\* The registry is read, without the lock, into the copy that will be saved.
EditRegistry(p) ==
    LET edit == Head(proc[p].do)
        w    == proc[p].w
        known == w \in registry.entries IN
    /\ ~Idle(p) /\ edit \in Edits
    /\ CASE edit \in {"activate", "rename"} /\ ~known -> Fail(p)
         [] edit = "drop" /\ ~known /\ registry.active \notin {w, Nobody} -> Fail(p)
         [] OTHER -> Done(p, [proc[p] EXCEPT !.reg = Edited(edit, w, registry)])
    /\ UNCHANGED <<store, lock>>

\* Lock waits five seconds for a lock file another process keeps.
Acquire(p) ==
    /\ At(p, "acquire") /\ lock = "free"
    /\ lock' = "held"
    /\ Done(p, proc[p])
    /\ UNCHANGED store

\* Variant: no time limit.
AcquireTimesOutNever(p) == FALSE /\ UNCHANGED vars

\* An error here is an error of the whole command; RegisterPasskey deletes the
\* key it had stored.
AcquireTimesOut(p) ==
    LET w == proc[p].w
        registering == "savePasskey" \in Range(proc[p].do) IN
    /\ At(p, "acquire") /\ lock # "free"
    /\ keychain' = IF registering THEN [keychain EXCEPT ![w] = NoKey] ELSE keychain
    /\ Fail(p)
    /\ UNCHANGED <<account, registry, grant, passkey, cache, legacy, lock>>

WriteRegistry(p) ==
    /\ At(p, "write")
    /\ registry' = proc[p].reg
    /\ Done(p, [proc[p] EXCEPT !.reg = Resting.reg])
    /\ UNCHANGED <<account, keychain, grant, passkey, cache, legacy, lock>>

Release(p) ==
    /\ At(p, "release")
    /\ lock' = "free"
    /\ Done(p, proc[p])
    /\ UNCHANGED store

DeleteAccount(p) ==
    /\ At(p, "delete")
    /\ account' = [account EXCEPT ![proc[p].w] = NoFile]
    /\ Done(p, proc[p])
    /\ UNCHANGED <<registry, keychain, grant, passkey, cache, legacy, lock>>

------------------------------------------------------------------------------
(* State of older releases.                                                  *)

\* MigrateFromLegacy adds what account_stellar.json holds and renames it.
ReadLegacy(p) ==
    /\ At(p, "readLegacy")
    /\ IF legacy = NoCopy THEN Fail(p)
       ELSE Done(p, [proc[p] EXCEPT !.w = legacy.of, !.acc = IF legacy.seed THEN "plain" ELSE "keyless"])
    /\ UNCHANGED <<store, lock>>

Backup(p) ==
    /\ At(p, "backup")
    /\ legacy' = NoCopy
    /\ Done(p, proc[p])
    /\ UNCHANGED <<account, registry, keychain, grant, passkey, cache, lock>>

\* wallet fund stores the funded account in account.json, not in the registry.
CacheFunded(p) ==
    /\ At(p, "cacheFunded")
    /\ cache' = [of |-> proc[p].w, seed |-> proc[p].acc = "plain"]
    /\ Done(p, proc[p])
    /\ UNCHANGED <<account, registry, keychain, grant, passkey, legacy, lock>>


------------------------------------------------------------------------------
(* The WebAuthn ceremony: an HTTP server whose handlers send their result     *)
(* over a channel with room for one.                                          *)

InCeremony(p) == At(p, "ceremony") \/ At(p, "close")
Ceremony(p)   == proc[p].ceremony
WithCeremony(p, c) ==
    proc' = [proc EXCEPT ![p] = [@ EXCEPT !.ceremony = c]] /\ UNCHANGED <<store, lock>>

\* serveFinish lets a request in that sees no finished ceremony.
Post(p) ==
    LET c == Ceremony(p) IN
    /\ At(p, "ceremony") /\ c.tabs < Tabs /\ ~c.finished
    /\ WithCeremony(p, [c EXCEPT !.tabs = @ + 1, !.checking = @ + 1])

\* The credential is verified, or not, and the result sent.
Answer(p) ==
    LET c == Ceremony(p) IN
    /\ InCeremony(p) /\ c.checking > 0
    /\ \E result \in {"good", "bad"} :
          LET checked == [c EXCEPT !.checking = @ - 1, !.finished = @ \/ result = "good"] IN
          WithCeremony(p, IF c.done = "empty" THEN [checked EXCEPT !.done = result]
                          ELSE [checked EXCEPT !.blocked = @ + 1])

\* Wait returns the first result, or gives up after two minutes.
Wait(p) ==
    LET c == Ceremony(p)
        received == [c EXCEPT !.result = c.done, !.done = IF c.blocked > 0 THEN "bad" ELSE "empty",
                              !.blocked = IF @ > 0 THEN @ - 1 ELSE 0] IN
    /\ At(p, "ceremony")
    /\ \/ c.done # "empty" /\ Done(p, [proc[p] EXCEPT !.ceremony = received])
       \/ Done(p, [proc[p] EXCEPT !.ceremony = [c EXCEPT !.result = "timeout"]])
    /\ UNCHANGED <<store, lock>>

\* Close waits for every handler that is still running.
Close(p) ==
    LET c == Ceremony(p) IN
    /\ At(p, "close") /\ c.checking = 0 /\ c.blocked = 0
    /\ IF c.result = "good" THEN Done(p, [proc[p] EXCEPT !.ceremony = NoCeremony]) ELSE Fail(p)
    /\ UNCHANGED <<store, lock>>
------------------------------------------------------------------------------
(* Passkey protection.                                                       *)

\* A new key goes to the keychain; the account in memory is encrypted under it.
Seal(p) ==
    LET w == proc[p].w
        key == CHOOSE k \in KeyIds : k \notin {keychain[w], account[w]} IN
    /\ At(p, "seal")
    /\ keychain' = [keychain EXCEPT ![w] = key]
    /\ Done(p, [proc[p] EXCEPT !.acc = key])
    /\ UNCHANGED <<account, registry, grant, passkey, cache, legacy, lock>>

SavePasskey(p) ==
    /\ At(p, "savePasskey")
    /\ passkey' = passkey \cup {proc[p].w}
    /\ Done(p, proc[p])
    /\ UNCHANGED <<account, registry, keychain, grant, cache, legacy, lock>>

Scrubbed(copy, w) == IF copy.of = w THEN [copy EXCEPT !.seed = FALSE] ELSE copy

\* Variant: only the copy of the old release is scrubbed.
ScrubLegacyOnly(p) ==
    /\ At(p, "scrub")
    /\ legacy' = Scrubbed(legacy, proc[p].w)
    /\ Done(p, proc[p])
    /\ UNCHANGED <<account, registry, keychain, grant, passkey, cache, lock>>

Scrub(p) ==
    /\ At(p, "scrub")
    /\ cache'  = Scrubbed(cache, proc[p].w)
    /\ legacy' = Scrubbed(legacy, proc[p].w)
    /\ Done(p, proc[p])
    /\ UNCHANGED <<account, registry, keychain, grant, passkey, lock>>

\* decryptWalletSeed needs the key the account in memory is encrypted under.
Unseal(p) ==
    LET w == proc[p].w IN
    /\ At(p, "unseal")
    /\ IF keychain[w] = proc[p].acc THEN Done(p, [proc[p] EXCEPT !.acc = "plain"]) ELSE Fail(p)
    /\ UNCHANGED <<store, lock>>

Grant(p) ==
    LET w == proc[p].w
        readable == keychain[w] = proc[p].acc IN
    /\ At(p, "grant")
    /\ grant' = IF readable THEN [grant EXCEPT ![w] = "live"] ELSE grant
    /\ IF readable THEN Done(p, proc[p]) ELSE Fail(p)
    /\ UNCHANGED <<account, registry, keychain, passkey, cache, legacy, lock>>

DropGrant(p) ==
    /\ At(p, "dropGrant")
    /\ grant' = [grant EXCEPT ![proc[p].w] = "none"]
    /\ Done(p, proc[p])
    /\ UNCHANGED <<account, registry, keychain, passkey, cache, legacy, lock>>

DeleteKey(p) ==
    /\ At(p, "deleteKey")
    /\ keychain' = [keychain EXCEPT ![proc[p].w] = NoKey]
    /\ Done(p, proc[p])
    /\ UNCHANGED <<account, registry, grant, passkey, cache, legacy, lock>>

DeletePasskeys(p) ==
    /\ At(p, "deletePasskeys")
    /\ passkey' = passkey \ {proc[p].w}
    /\ Done(p, proc[p])
    /\ UNCHANGED <<account, registry, keychain, grant, cache, legacy, lock>>

\* ResolveSeed: the plain seed, or a live grant.
SeedAvailable(w) == account[w] = "plain" \/ (account[w] \in KeyIds /\ grant[w] = "live")

CopyHolders == {c.of : c \in {x \in {legacy, cache} : x.seed}}

\* The wallets LoadStellarKeypair may sign with: the active one, or, when its
\* file is missing or holds no key, one whose seed an older file still holds.
Signers ==
    LET w == registry.active IN
    IF w # Nobody /\ account[w] \notin {NoFile, "keyless"}
    THEN {x \in {w} : SeedAvailable(x)} ELSE CopyHolders

\* Whoever resolves a seed drops the grant he finds expired.
ResolveSeed(p) ==
    LET w == proc[p].w IN
    /\ At(p, "resolve")
    /\ grant' = IF proc[p].acc \in KeyIds /\ grant[w] = "expired" THEN [grant EXCEPT ![w] = "none"] ELSE grant
    /\ Done(p, proc[p])
    /\ UNCHANGED <<account, registry, keychain, passkey, cache, legacy, lock>>
------------------------------------------------------------------------------
Init ==
    /\ setup \in Setups
    /\ spent = 0 /\ lock = "free"
    /\ cache = NoCopy
    /\ grant = [w \in Wallets |-> "none"]
    /\ proc = [p \in Processes |-> Resting]
    /\ \/ /\ account = [w \in Wallets |-> NoFile]
          /\ registry = [entries |-> {}, active |-> Nobody]
          /\ keychain = [w \in Wallets |-> NoKey]
          /\ passkey = {}
          /\ legacy \in IF setup = "upgraded" THEN [of : Stellar, seed : {TRUE}] ELSE {NoCopy}
       \/ \* racing commands find wallets of either kind in place
          /\ setup = "racing" /\ legacy = NoCopy
          /\ passkey \in SUBSET Stellar
          /\ account = [w \in Wallets |-> IF w \in passkey THEN "key1" ELSE IF w \in Stellar THEN "plain" ELSE "keyless"]
          /\ keychain = [w \in Wallets |-> IF w \in passkey THEN "key1" ELSE NoKey]
          /\ registry \in [entries : {Wallets}, active : Wallets \cup {Nobody}]

Start(p) ==
    /\ Idle(p)
    /\ IF setup = "racing" THEN spent < MaxRacing ELSE AllIdle /\ p = CHOOSE q \in Processes : TRUE
    /\ spent' = IF setup = "racing" THEN spent + 1 ELSE spent
    /\ \E c \in Commands : proc' = [proc EXCEPT ![p] = StartAttempts(c)]
    /\ UNCHANGED <<store, lock, setup>>

FileStep(p) ==
    \/ ReadAccount(p) \/ ReadActive(p) \/ Create(p) \/ StoreAccount(p) \/ EditRegistry(p)
    \/ Acquire(p) \/ AcquireTimesOut(p) \/ WriteRegistry(p) \/ Release(p) \/ DeleteAccount(p)
    \/ ReadLegacy(p) \/ Backup(p) \/ CacheFunded(p)
KeyStep(p) ==
    \/ Seal(p) \/ SavePasskey(p) \/ Scrub(p) \/ Unseal(p) \/ Grant(p) \/ DropGrant(p)
    \/ DeleteKey(p) \/ DeletePasskeys(p) \/ ResolveSeed(p)
CeremonyStep(p) == Answer(p) \/ Wait(p) \/ Close(p)
ProgramStep(p) == (FileStep(p) \/ KeyStep(p) \/ CeremonyStep(p)) /\ UNCHANGED <<setup, spent>>

Browse(p) == Post(p) /\ UNCHANGED <<setup, spent>>

Expire ==
    /\ \E w \in Wallets : grant[w] = "live" /\ grant' = [grant EXCEPT ![w] = "expired"]
    /\ UNCHANGED <<account, registry, keychain, passkey, cache, legacy, lock, proc, setup, spent>>

\* A killed process leaves its lock file behind; nobody ever breaks it.
Kill(p) ==
    /\ setup = "crashes" /\ spent < MaxKills /\ ~Idle(p)
    /\ spent' = spent + 1
    /\ lock' = IF At(p, "write") \/ At(p, "release") THEN "abandoned" ELSE lock
    /\ proc' = [proc EXCEPT ![p] = Resting]
    /\ UNCHANGED <<store, setup>>

Next == Expire \/ \E p \in Processes : Start(p) \/ ProgramStep(p) \/ Browse(p) \/ Kill(p)

\* A command runs on; nobody need start one, and no browser need answer.
Spec == Init /\ [][Next]_vars /\ \A p \in Processes : WF_vars(ProgramStep(p))
------------------------------------------------------------------------------
(* Properties.                                                               *)

\* The shape of the files, of the keychain and of the processes.
TypeOK ==
    /\ account \in [Wallets -> Account \cup {NoFile}]
    /\ registry \in [entries : SUBSET Wallets, active : Wallets \cup {Nobody}]
    /\ lock \in {"free", "held", "abandoned"}
    /\ keychain \in [Wallets -> KeyIds \cup {NoKey}]
    /\ grant \in [Wallets -> {"none", "live", "expired"}]
    /\ passkey \subseteq Stellar
    /\ {cache, legacy} \subseteq [of : Wallets \cup {Nobody}, seed : BOOLEAN]
    /\ \A p \in Processes : Ceremony(p).blocked \in 0..Tabs

\* The active wallet is one the registry lists, whatever the processes that
\* save their copies of it do to each other.
ActiveIsListed == registry.active \in registry.entries \cup {Nobody}

\* Between two orderly commands the registry lists exactly the wallets that
\* have a file.
FilesListed ==
    setup = "upgraded" /\ AllIdle => registry.entries = {w \in Wallets : account[w] # NoFile}

\* Files, registry, keychain and grants are well formed and name each other.
WalletsConsistent == TypeOK /\ ActiveIsListed /\ FilesListed

\* At every moment of every command the seed of a stored Stellar wallet can be
\* had from its file and the keychain, also when a process is killed between
\* two operations, as long as no lock file was left behind.
SeedKept ==
    setup = "crashes" /\ lock # "abandoned" =>
        \A w \in Stellar : account[w] # "keyless" /\ Readable(w)

\* Between two orderly commands nothing signs for a protected wallet that is
\* not unlocked: no older file keeps a copy of its seed.
LockedCannotSign ==
    setup = "upgraded" /\ AllIdle =>
        \A w \in Signers : account[w] \in KeyIds => grant[w] = "live"

\* Every command ends, whatever lock files and browsers do, if the user opens
\* a single tab for a ceremony.
CommandsEnd == Tabs = 1 => []<>AllIdle

\* What the comment of RegisterPasskey says: a failure after the key is stored
\* leaves no wallet half protected.
NoHalfProtection == setup = "crashes" => \A w \in Stellar : AllIdle => Readable(w)
==============================================================================

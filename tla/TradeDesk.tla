------------------------------ MODULE TradeDesk ------------------------------
(***************************************************************************)
(* The dashboard server (internal/dashboard/server.go) and the commands    *)
(* `trade ...` beside it (cmd/mozartpay/commands/trade.go), around one     *)
(* strategy: requests that run concurrently in one process, the goroutines *)
(* they start to run the strategy, the table that leads to those           *)
(* goroutines, the network they share, and the streams that show it all.   *)
(*                                                                         *)
(* A call of the trading service is a step here, or two where it writes    *)
(* twice; StrategyRuntime takes the calls themselves apart.                *)
(***************************************************************************)
EXTENDS Integers, FiniteSets, SequencesExt

CONSTANTS
    Requests,    \* HTTP requests in progress at the same time
    Commands,    \* terminals
    Tabs,        \* browsers that watch /api/events
    Loops,       \* goroutines that run the strategy
    NoLoop,
    Networks,
    Modes,       \* the operators and tabs there are, with a bound on what is asked:
                 \* a set of [who, jobs]
    Home,        \* the network configured at first
    MaxEnds      \* bound: ends of the dashboard process

Operators == Requests \cup Commands

ASSUME DeskAssumption ==
    /\ Requests \cap Commands = {}
    /\ NoLoop \notin Loops
    /\ \A m \in Modes : m.who \subseteq Operators \cup Tabs /\ m.jobs \in Nat
    /\ Home \in Networks
    /\ MaxEnds \in Nat

VARIABLES
    present,     \* the mode of this behaviour
    row,         \* the strategy's row
    claim,       \* its runtime row: a set of at most one Claim
    net,         \* cfg.Network of the dashboard
    saved,       \* the network in config.json
    table,       \* s.runners: the goroutine entered for the strategy
    loop,        \* the goroutines
    job,         \* what each operator still has to do
    server,      \* "up", "draining", "down"
    tab,         \* where each stream stands
    cache,       \* the balances shown: [fresh, filled]
    history      \* what went before, for the properties

controlVars == <<row, claim, net, saved, table, loop, job>>
viewVars == <<tab, cache>>
vars == <<present, controlVars, server, viewVars, history>>

Statuses == {"new", "stopped", "active", "paused", "error", "gone"}

Claim == [pid: {"dashboard", "other", "none"}, fresh: BOOLEAN, kill: BOOLEAN]

NewClaim(pid) == [pid |-> pid, fresh |-> TRUE, kill |-> FALSE]

\* What a read of the runtime row gives, or the row made up without one.
Runtime(pid) == IF claim = {} THEN [NewClaim(pid) EXCEPT !.fresh = FALSE]
                ELSE CHOOSE c \in claim : TRUE

Killed == \E c \in claim : c.kill

Exists == row.status \notin {"new", "gone"}

NoLoopYet == [pc |-> "off", net |-> Home, canceled |-> FALSE]

Free == [todo |-> <<>>, net |-> Home, status |-> "none", loop |-> NoLoop]

Init ==
    /\ present \in Modes
    /\ net = Home
    /\ saved = net
    /\ \/ row = [status |-> "new", network |-> net]
       \/ row = [status |-> "active", network |-> net]
    /\ claim = {}
    /\ table = NoLoop
    /\ loop = [l \in Loops |-> NoLoopYet]
    /\ job = [o \in Operators |-> Free]
    /\ server = "up"
    /\ tab = [t \in Tabs |-> "idle"]
    /\ cache = [fresh |-> FALSE, filled |-> FALSE]
    /\ history = [jobs |-> 0, ends |-> 0, lost |-> {}, unsaved |-> FALSE, fetches |-> 0]

(***************************************************************************)
(* Operators                                                               *)
(***************************************************************************)

\* handleStrategies, and `trade strategy`, which has no description to add.
CreateStrategy == <<"insert", "describe">>

\* handleStrategy: the service is called, then the goroutine is canceled.
StrategyAction(action) ==
    CASE action \in {"start", "resume"} -> <<"activate">>
      [] action = "pause"      -> <<"pause", "unlist">>
      [] action = "stop"       -> <<"stop", "clear", "unlist">>
      [] action = "kill"       -> <<"raise", "hold", "unlist">>
      [] action = "clear_kill" -> <<"lower">>
      [] action = "dry_run"    -> <<"read", "write">>
      [] action = "run_live"   -> <<"free", "check", "enter", "launch">>
      [] action = "delete"     -> <<"examine", "erase", "unlist">>

\* setNetwork; which wallet it makes active is not followed.
SetNetwork == <<"configure", "unlistAll", "save">>

Pages == {CreateStrategy, SetNetwork}
         \cup {StrategyAction(a) : a \in {"start", "pause", "stop", "kill",
               "clear_kill", "dry_run", "run_live", "delete"}}

\* The commands call the same service and know no goroutine of the dashboard.
TradeStrategy == <<"insert">>
TradeStart == <<"activate">>
TradePause == <<"pause">>
TradeStop == <<"stop", "clear">>
TradeKill(clear) == IF clear THEN <<"lower">> ELSE <<"raise", "hold">>
TradeRunOnce == <<"read", "write">>

Typed == {TradeStrategy, TradeStart, TradePause, TradeStop, TradeKill(TRUE),
          TradeKill(FALSE), TradeRunOnce}

\* A request is served on the network of the server, a command on the saved one.
Begin(o) ==
    /\ o \in present.who
    /\ job[o].todo = <<>>
    /\ history.jobs < present.jobs
    /\ o \in Requests => server = "up"
    /\ \E todo \in IF o \in Requests THEN Pages ELSE Typed :
         job' = [job EXCEPT ![o] =
                   [Free EXCEPT !.todo = todo,
                                !.net = IF o \in Requests THEN net ELSE saved]]
    /\ history' = [history EXCEPT !.jobs = @ + 1]
    /\ UNCHANGED <<present, row, claim, net, saved, table, loop, server, viewVars>>

At(o, step) == job[o].todo # <<>> /\ Head(job[o].todo) = step

Done(o) == job' = [job EXCEPT ![o].todo = Tail(@)]

\* An error ends the calls of the service; the goroutine is canceled all the same.
Fail(o) == job' = [job EXCEPT ![o].todo =
                     IF Contains(@, "unlist") THEN <<"unlist">> ELSE <<>>]

StoreUnchanged == UNCHANGED <<row, claim>>
HouseUnchanged == UNCHANGED <<net, saved, table, loop>>

\* Variant: a strategy that is not found is started all the same.
StartUpsert(o) ==
    /\ At(o, "activate")
    /\ IF row.status # "active" /\ row.network = job[o].net
         THEN row' = [row EXCEPT !.status = "active"] /\ Done(o)
         ELSE Fail(o) /\ UNCHANGED row
    /\ UNCHANGED claim /\ HouseUnchanged

\* The calls of the trading service that change the status.
StartStrategy(o) ==
    /\ At(o, "activate")
    /\ IF Exists /\ row.status # "active" /\ row.network = job[o].net
         THEN row' = [row EXCEPT !.status = "active"] /\ Done(o)
         ELSE Fail(o) /\ UNCHANGED row
    /\ UNCHANGED claim /\ HouseUnchanged

PauseStrategy(o) ==
    /\ At(o, "pause")
    /\ IF row.status = "active"
         THEN row' = [row EXCEPT !.status = "paused"] /\ Done(o)
         ELSE Fail(o) /\ UNCHANGED row
    /\ UNCHANGED claim /\ HouseUnchanged

StopStrategy(o) ==
    /\ \/ /\ At(o, "stop")
          /\ IF Exists THEN row' = [row EXCEPT !.status = "stopped"] /\ Done(o)
             ELSE Fail(o) /\ UNCHANGED row
          /\ UNCHANGED claim
       \/ /\ At(o, "clear")
          /\ claim' = {}
          /\ Done(o)
          /\ UNCHANGED row
    /\ HouseUnchanged

\* The switch goes into the runtime row with a new heartbeat, then the status of
\* the copy read before is saved.
KillSwitch(o) ==
    /\ \/ /\ At(o, "raise")
          /\ IF Exists
               THEN claim' = {[Runtime("none") EXCEPT !.kill = TRUE, !.fresh = TRUE]}
                    /\ Done(o)
               ELSE Fail(o) /\ UNCHANGED claim
          /\ UNCHANGED row
       \/ /\ At(o, "hold")
          /\ row' = [row EXCEPT !.status = "paused"]
          /\ Done(o)
          /\ UNCHANGED claim
    /\ HouseUnchanged

ClearKillSwitch(o) ==
    /\ At(o, "lower")
    /\ claim' = {[Runtime("none") EXCEPT !.kill = FALSE]}
    /\ Done(o)
    /\ UNCHANGED row /\ HouseUnchanged

\* handleStrategies saves the strategy a second time, with its description.
Insert(o) ==
    /\ \/ /\ At(o, "insert")
          /\ IF row.status = "new"
               THEN row' = [status |-> "stopped", network |-> job[o].net] /\ Done(o)
               ELSE Fail(o) /\ UNCHANGED row
       \/ /\ At(o, "describe")
          /\ row' = [row EXCEPT !.status = "stopped"]
          /\ Done(o)
    /\ UNCHANGED claim /\ HouseUnchanged

\* RunOnce outside a loop: the row is read, and written back when the cycle ends.
RunOnce(o) ==
    /\ \/ /\ At(o, "read")
          /\ IF Exists
               THEN job' = [job EXCEPT ![o].todo = Tail(@), ![o].status = row.status]
               ELSE Fail(o)
          /\ UNCHANGED row
       \/ /\ At(o, "write")
          /\ row' = [row EXCEPT !.status = job[o].status]
          /\ Done(o)
    /\ UNCHANGED claim /\ HouseUnchanged

\* The status is tested before the transaction that deletes.
DeleteStrategy(o) ==
    /\ \/ /\ At(o, "examine")
          /\ IF Exists /\ row.status # "active" THEN Done(o) ELSE Fail(o)
          /\ StoreUnchanged
       \/ /\ At(o, "erase")
          /\ row' = [row EXCEPT !.status = "gone"]
          /\ claim' = {}
          /\ Done(o)
    /\ HouseUnchanged

ServiceCall(o) ==
    /\ \/ StartStrategy(o) \/ PauseStrategy(o) \/ StopStrategy(o) \/ KillSwitch(o)
       \/ ClearKillSwitch(o) \/ Insert(o) \/ RunOnce(o) \/ DeleteStrategy(o)
    /\ UNCHANGED <<present, server, viewVars, history>>

(***************************************************************************)
(* Goroutines of the dashboard                                             *)
(***************************************************************************)

\* startRunner: the table is looked at under the mutex, which is given back ...
TableIsFree(o) ==
    /\ At(o, "free")
    /\ IF table = NoLoop THEN Done(o) ELSE Fail(o)
    /\ UNCHANGED history /\ StoreUnchanged /\ HouseUnchanged

\* ... the store is asked ...
MayRun(o) ==
    /\ At(o, "check")
    /\ IF /\ row.status = "active"
          /\ ~Killed
          /\ \A c \in claim : c.fresh => c.pid = "dashboard"
         THEN Done(o)
         ELSE Fail(o)
    /\ UNCHANGED history /\ StoreUnchanged /\ HouseUnchanged

\* ... the goroutine is entered, over another one if need be ...
EnterRunner(o) ==
    /\ At(o, "enter")
    /\ \E l \in Loops : loop[l].pc = "off"
    /\ LET l == CHOOSE k \in Loops : loop[k].pc = "off" IN
         /\ loop' = [loop EXCEPT ![l] = [NoLoopYet EXCEPT !.pc = "entered"]]
         /\ job' = [job EXCEPT ![o].todo = Tail(@), ![o].loop = l]
         /\ table' = l
    /\ history' = [history EXCEPT !.lost = @ \cup ({table} \ {NoLoop})]
    /\ StoreUnchanged /\ UNCHANGED <<net, saved>>

\* Variant: the goroutine uses the service that checked the strategy.
LaunchWithFirst(o) ==
    /\ At(o, "launch")
    /\ loop' = [loop EXCEPT ![job[o].loop] = [@ EXCEPT !.pc = "admit", !.net = job[o].net]]
    /\ Done(o)
    /\ UNCHANGED <<net, saved, table, history>> /\ StoreUnchanged

\* ... and started with a service for the network as it is now.
LaunchRunner(o) ==
    /\ At(o, "launch")
    /\ loop' = [loop EXCEPT ![job[o].loop] = [@ EXCEPT !.pc = "admit", !.net = net]]
    /\ Done(o)
    /\ UNCHANGED <<net, saved, table, history>> /\ StoreUnchanged

Canceled(ls) == [l \in Loops |-> [loop[l] EXCEPT !.canceled = @ \/ l \in ls]]

\* stopRunner and stopRunners; with one strategy they are one.
StopRunner(o) ==
    /\ \/ At(o, "unlist") \/ At(o, "unlistAll")
    /\ table' = NoLoop
    /\ loop' = Canceled({table})
    /\ Done(o)
    /\ UNCHANGED <<net, saved, history>> /\ StoreUnchanged

RunnerCall(o) ==
    /\ \/ TableIsFree(o) \/ MayRun(o) \/ EnterRunner(o) \/ LaunchRunner(o) \/ StopRunner(o)
    /\ UNCHANGED <<present, server, viewVars>>

Move(l, pc) == loop' = [loop EXCEPT ![l].pc = pc]

\* RunStrategy: an active strategy of its network, and the claim on it.
Admit(l) ==
    /\ loop[l].pc = "admit"
    /\ IF /\ row.status = "active" /\ row.network = loop[l].net
          /\ \A c \in claim : c.pid # "none" => ~c.fresh
         THEN claim' = {NewClaim("dashboard")} /\ Move(l, "load")
         ELSE Move(l, "leave") /\ UNCHANGED claim
    /\ UNCHANGED <<row, table, history>>

Load(l) ==
    /\ loop[l].pc = "load"
    /\ Move(l, IF row.status = "active" THEN "cycle" ELSE "release")
    /\ UNCHANGED <<row, claim, table, history>>

\* RunOnce: the copy of the row it ran is saved, whatever became of the row.
Cycle(l) ==
    /\ loop[l].pc = "cycle"
    /\ row' = [row EXCEPT !.status = "active"]
    /\ Move(l, "mark")
    /\ UNCHANGED <<claim, table, history>>

\* The heartbeat, then the end of the wait, or of too many errors.
Mark(l) ==
    /\ \/ /\ loop[l].pc = "mark"
          /\ claim' = {[Runtime("dashboard") EXCEPT !.fresh = TRUE]}
          /\ \E pc \in {"wait", "giveUp"} : Move(l, pc)
       \/ /\ loop[l].pc = "wait"
          /\ Move(l, IF loop[l].canceled THEN "release" ELSE "load")
          /\ UNCHANGED claim
    /\ UNCHANGED <<row, table, history>>

GiveUp(l) ==
    /\ loop[l].pc = "giveUp"
    /\ row' = [row EXCEPT !.status = "error"]
    /\ Move(l, "release")
    /\ UNCHANGED <<claim, table, history>>

Release(l) ==
    /\ loop[l].pc = "release"
    /\ claim' = {}
    /\ Move(l, "leave")
    /\ UNCHANGED <<row, table, history>>

\* The goroutine takes its own entry out of the table, not that of a successor.
Leave(l) ==
    /\ loop[l].pc = "leave"
    /\ loop' = [loop EXCEPT ![l] = NoLoopYet]
    /\ table' = IF table = l THEN NoLoop ELSE table
    /\ history' = [history EXCEPT !.lost = @ \ {l}]
    /\ StoreUnchanged

LoopStep(l) ==
    /\ \/ Admit(l) \/ Load(l) \/ Cycle(l) \/ Mark(l) \/ GiveUp(l) \/ Release(l) \/ Leave(l)
    /\ UNCHANGED <<present, net, saved, job, server, viewVars>>

(***************************************************************************)
(* The network                                                             *)
(***************************************************************************)

Switching(o) == At(o, "unlistAll") \/ At(o, "save")

\* setNetwork: nothing to do for the network there is.
Configure(o) ==
    /\ At(o, "configure")
    /\ \E n \in Networks :
         /\ net' = n
         /\ job' = [job EXCEPT ![o].todo = IF n = net THEN <<>> ELSE Tail(@), ![o].net = n]
         /\ history' = [history EXCEPT !.unsaved =
                          @ \/ (n # net /\ \E p \in Requests \ {o} : Switching(p))]
    /\ UNCHANGED saved

\* The copy made under the lock is written; a failure is answered, not undone.
SaveConfig(o) ==
    /\ At(o, "save")
    /\ \/ saved' = job[o].net /\ Done(o) /\ UNCHANGED history
       \/ Fail(o) /\ UNCHANGED saved /\ history' = [history EXCEPT !.unsaved = TRUE]
    /\ UNCHANGED net

NetworkCall(o) ==
    /\ Configure(o) \/ SaveConfig(o)
    /\ UNCHANGED <<present, row, claim, table, loop, server, viewVars>>

(***************************************************************************)
(* Streams and balances                                                    *)
(***************************************************************************)

View(t, pc) == tab' = [tab EXCEPT ![t] = pc]

\* handleEvents builds an overview every two seconds.
Overview(t) ==
    /\ t \in present.who
    /\ server # "down"
    /\ tab[t] = "idle"
    /\ View(t, "balances")
    /\ UNCHANGED <<cache, history>>

\* Variant: the time of the cache is set when the balances are there.
MarkLate(t) ==
    /\ tab[t] = "balances"
    /\ IF cache.fresh THEN View(t, IF cache.filled THEN "apply" ELSE "idle") /\ UNCHANGED history
       ELSE View(t, "fetch") /\ history' = [history EXCEPT !.fetches = @ + 1]
    /\ UNCHANGED cache

\* applyLiveBalances: the first to find the cache stale fetches for the others.
MarkCache(t) ==
    /\ tab[t] = "balances"
    /\ IF cache.fresh
         THEN View(t, IF cache.filled THEN "apply" ELSE "idle") /\ UNCHANGED <<cache, history>>
         ELSE /\ View(t, "fetch")
              /\ cache' = [cache EXCEPT !.fresh = TRUE]
              /\ history' = [history EXCEPT !.fetches = @ + 1]

Apply(t) ==
    /\ tab[t] = "apply"
    /\ View(t, "idle")
    /\ UNCHANGED <<cache, history>>

\* The shared map is written while nobody reads it.
Merge(t) ==
    /\ tab[t] = "fetch"
    /\ cache' = [cache EXCEPT !.filled = TRUE]
    /\ View(t, "apply")
    /\ UNCHANGED history

ViewStep(t) ==
    /\ Overview(t) \/ MarkCache(t) \/ Merge(t) \/ Apply(t)
    /\ UNCHANGED <<present, controlVars, server>>

\* balanceCacheTTL.
Expire ==
    /\ cache.fresh
    /\ cache' = [cache EXCEPT !.fresh = FALSE]
    /\ history' = [history EXCEPT !.fetches = 0]
    /\ UNCHANGED <<present, controlVars, server, tab>>

(***************************************************************************)
(* The process                                                             *)
(***************************************************************************)

\* Nothing that lived in memory is left; a claim stays until it lapses.
End ==
    /\ server' = "down"
    /\ table' = NoLoop
    /\ loop' = [l \in Loops |-> NoLoopYet]
    /\ job' = [o \in Operators |-> IF o \in Requests THEN Free ELSE job[o]]
    /\ tab' = [t \in Tabs |-> "idle"]
    /\ cache' = [fresh |-> FALSE, filled |-> FALSE]
    /\ claim' = {[c EXCEPT !.pid = IF @ = "dashboard" THEN "other" ELSE @] : c \in claim}
    /\ history' = [history EXCEPT !.ends = @ + 1, !.lost = {}, !.fetches = 0,
                     !.unsaved = @ \/ \E o \in Requests : Switching(o)]
    /\ UNCHANGED <<present, row, net, saved>>

\* The process is killed.
Kill ==
    /\ server # "down"
    /\ history.ends < MaxEnds
    /\ End

\* The map of balances is read without its lock by one overview while another
\* writes it: the Go runtime ends the process, or nothing happens (Merge).
MapRace ==
    /\ server # "down"
    /\ history.ends < MaxEnds
    /\ \E t, u \in Tabs : t # u /\ tab[t] = "fetch" /\ cache.filled /\ tab[u] = "apply"
    /\ End

\* Serve: Ctrl-C cancels the goroutines first, then the listener is closed.
Interrupt ==
    /\ server = "up"
    /\ history.ends < MaxEnds
    /\ server' = "draining"
    /\ table' = NoLoop
    /\ loop' = Canceled({table})
    /\ UNCHANGED <<present, row, claim, net, saved, job, viewVars, history>>

\* Variant: Shutdown has no limit, and a stream ends when its browser leaves.
ShutdownWaits ==
    /\ server = "draining"
    /\ present.who \cap Tabs = {}
    /\ End

\* Shutdown waits for the requests and the streams, five seconds at most; the
\* goroutines are not waited for.
Shutdown ==
    /\ server = "draining"
    /\ End

\* `trade dashboard` again: the configuration is the saved one.
Restart ==
    /\ server = "down"
    /\ server' = "up"
    /\ net' = saved
    /\ history' = [history EXCEPT !.unsaved = FALSE]
    /\ UNCHANGED <<present, row, claim, saved, table, loop, job, viewVars>>

\* Two minutes without a heartbeat.
Lapse ==
    /\ \E c \in claim : c.fresh /\ claim' = {[c EXCEPT !.fresh = FALSE]}
    /\ UNCHANGED <<present, row, net, saved, table, loop, job, server, viewVars, history>>

JobStep(o) == ServiceCall(o) \/ RunnerCall(o) \/ NetworkCall(o)

Next ==
    \/ \E o \in Operators : Begin(o) \/ JobStep(o)
    \/ \E l \in Loops : LoopStep(l)
    \/ \E t \in Tabs : ViewStep(t)
    \/ Expire \/ Kill \/ MapRace \/ Interrupt \/ Shutdown \/ Restart \/ Lapse

\* Goroutines are scheduled, the five seconds of Shutdown pass, and so do the two
\* minutes of a claim whose process has ended.
Fairness ==
    /\ WF_vars(\E o \in Operators : JobStep(o))
    /\ WF_vars(\E l \in Loops : loop[l].canceled /\ LoopStep(l))
    /\ WF_vars(Shutdown)
    /\ WF_vars((\E c \in claim : c.pid = "other") /\ Lapse)

Spec == Init /\ [][Next]_vars /\ Fairness

----------------------------------------------------------------------------
(* Properties                                                              *)

\* Every row, table and memory holds a value of its kind.
TypeOK ==
    /\ row \in [status: Statuses, network: Networks]
    /\ claim \in {{}} \cup {{c} : c \in Claim}
    /\ {net, saved} \subseteq Networks
    /\ table \in Loops \cup {NoLoop}
    /\ loop \in [Loops -> [net: Networks, canceled: BOOLEAN,
          pc: {"off", "entered", "admit", "load", "cycle", "mark", "wait",
               "giveUp", "release", "leave"}]]
    /\ DOMAIN job = Operators
    /\ server \in {"up", "draining", "down"}
    /\ tab \in [Tabs -> {"idle", "balances", "fetch", "apply"}]
    /\ cache \in [fresh: BOOLEAN, filled: BOOLEAN]

\* A goroutine that nobody canceled can be canceled: it is the one the table
\* leads to, until it has left (server.go startRunner, stopRunner).  Only one
\* over which two starts at the same time entered another is out of reach.
LoopsAreListed ==
    \A l \in Loops :
        loop[l].pc # "off" /\ ~loop[l].canceled => table = l \/ l \in history.lost

\* "Dashboard runners are bound to the previous network; stop them"
\* (server.go setNetwork): whenever a goroutine that is not canceled runs for
\* another network than the configured one, a change of network is still about
\* to cancel it, however starts and changes interleave; again but for a lost one.
BoundToNetwork ==
    \A l \in Loops :
        /\ loop[l].pc \notin {"off", "entered"}
        /\ ~loop[l].canceled
        /\ l \notin history.lost
        /\ loop[l].net # net
        => \E o \in Operators : At(o, "unlistAll")

\* Every running goroutine can be stopped, and is when the network changes.
RunnersInReach == LoopsAreListed /\ BoundToNetwork

\* With no change of network in progress, the network the server works on is the
\* one it would start with again, unless a write failed or two changes ran into
\* each other (server.go setNetwork).
SwitchIsSaved ==
    ~history.unsaved /\ server = "up" /\ (\A o \in Operators : ~Switching(o)) => saved = net

\* However many browsers watch, the balances are fetched once while the cache is
\* fresh (server.go applyLiveBalances).
OneFetchPerWindow == history.fetches <= 1

\* The server's own state is well formed, agrees with its file, and its cache
\* with the time of its fetch.
DeskConsistent == TypeOK /\ SwitchIsSaved /\ OneFetchPerWindow

\* Who holds a copy of the strategy and is about to save it.
InFlight ==
    \/ \E o \in Operators : At(o, "describe") \/ At(o, "hold") \/ At(o, "write")
    \/ \E l \in Loops : loop[l].pc \in {"cycle", "giveUp"}

\* A deleted strategy comes back only by the hand of one who read it before it
\* was deleted, a cycle of a goroutine most of all (store.go DeleteStrategy,
\* whose test of the status is outside its transaction); no other call does it.
DeletedForGood == [][row.status = "gone" /\ ~InFlight => row'.status = "gone"]_vars

\* Whatever happens meanwhile, again and again all requests are answered, all
\* commands have ended, no canceled goroutine still runs, an interrupted dashboard
\* is gone, with browsers still watching, and a claim that an ended dashboard left
\* behind stands in nobody's way (server.go Serve, startRunner).
DeskSettles ==
    []<>(/\ \A o \in Operators : job[o].todo = <<>>
         /\ \A l \in Loops : ~loop[l].canceled
         /\ server # "draining"
         /\ \A c \in claim : c.fresh => c.pid # "other")
=============================================================================

-------------------------- MODULE StrategyRuntime --------------------------
(***************************************************************************)
(* The trading runtime: processes that run a strategy in a loop, and the   *)
(* operator's commands, meeting in two rows of one SQLite database.        *)
(*                                                                         *)
(* `trade run ID` and a dashboard runner are RunStrategy, here a Runner;   *)
(* `trade run` without an ID is RunActive, here a Scheduler.  The commands *)
(* come from the command line, the terminal or the dashboard.  All of them *)
(* read a whole row, change their copy and write the whole row back, so    *)
(* every call on the store is a step of its own and anything may happen    *)
(* between two of them, a crash included.                                  *)
(*                                                                         *)
(* One resting-order strategy, run live.  Of its row only the status       *)
(* matters here.  A heartbeat is kept as its age in ticks, a missing       *)
(* heartbeat is an old one: every test of the code takes them alike.       *)
(***************************************************************************)
EXTENDS Integers, FiniteSets

CONSTANTS Runners, Schedulers,  \* processes; each is its own pid
          Operators,            \* command lines in use at the same time
          NoPid,                \* pid 0
          Lease,                \* ticks in the two minutes a claim lasts
          Interval,             \* ticks between two cycles of the strategy
          MaxErrors,            \* the parameter max_errors
          Setups                \* which processes are launched, for which bot

ASSUME TradingAssumption ==
    /\ Lease \in Nat \ {0}
    /\ Interval \in Nat \ {0}
    /\ MaxErrors \in Nat \ {0}
    /\ Setups \subseteq [launched : SUBSET (Runners \cup Schedulers), mayWantNothing : BOOLEAN]
    /\ Runners \cap Schedulers = {}
    /\ NoPid \notin Runners \cup Schedulers

Processes == Runners \cup Schedulers

VARIABLES setup,     \* who is ever launched; may the bot ask for no order?
          strategy,  \* status column of the strategy's row, or "none"
          runtime,   \* the strategy's runtime row: a set of at most one Row
          pc,        \* where each process and each command stands
          view,      \* the runtime row each of them read last
          copy,      \* the status a `run --once` read
          claimed,   \* schedulers: is the strategy in the list `claimed`?
          result     \* outcome of the last cycle of each process

vars == <<setup, strategy, runtime, pc, view, copy, claimed, result>>

Statuses == {"active", "paused", "stopped", "error"}
OldAge == IF Lease > Interval THEN Lease ELSE Interval
Row == [pid : Processes \cup {NoPid}, age : 0..OldAge, errors : 0..MaxErrors,
        ran : BOOLEAN, killSwitch : BOOLEAN]

ProcessLabels == {"out", "dead", "list", "load", "claim", "acquire", "due",
                  "check", "submit", "save", "read", "mark", "errors", "giveUp",
                  "sleep", "clear"}
CommandLabels == {"idle", "start", "stop", "stopClear", "pause", "killRead",
                  "killSave", "killPause", "clearKill", "delete", "once"}

NewRow(pid) == [pid |-> pid, age |-> OldAge, errors |-> 0, ran |-> FALSE,
                killSwitch |-> FALSE]

\* What a read gives its caller: the row, or the one it makes up.
ReadRow(pid) == IF runtime = {} THEN NewRow(pid) ELSE CHOOSE row \in runtime : TRUE

\* Variant: a claim never lapses.
FreshForever(row) == row.pid # NoPid

\* The test of acquireRuntime: another process is alive behind this row.
Fresh(row) == row.pid # NoPid /\ row.age < Lease

KillSwitchOn == \E row \in runtime : row.killSwitch

Goto(p, label) == pc' = [pc EXCEPT ![p] = label]

----------------------------------------------------------------------------
(* The runtime row.                                                        *)

\* acquireRuntime: the row is read, and refused while it is fresh.  A runner
\* then returns; a scheduler records the refusal in the row it was refused.
ReadClaim(p) ==
    /\ pc[p] = "claim"
    /\ IF \E row \in runtime : Fresh(row)
         THEN /\ Goto(p, IF p \in Runners THEN "out" ELSE "read")
              /\ result' = [result EXCEPT ![p] = "failed"]
         ELSE Goto(p, "acquire") /\ UNCHANGED result
    /\ UNCHANGED <<strategy, runtime, view, copy, claimed>>

\* ... and written, whole: counters and kill switch start again.
AcquireRuntime(p) ==
    /\ pc[p] = "acquire"
    /\ runtime' = {[NewRow(p) EXCEPT !.age = 0]}
    /\ claimed' = [claimed EXCEPT ![p] = TRUE]
    /\ Goto(p, IF p \in Runners THEN "load" ELSE "due")
    /\ UNCHANGED <<strategy, view, copy, result>>

\* Variant: a missing row is not made up.
ReadExisting(p) ==
    /\ pc[p] = "read"
    /\ view' = [view EXCEPT ![p] = runtime]
    /\ Goto(p, "mark")
    /\ UNCHANGED <<strategy, runtime, copy, claimed, result>>

\* Variant: the row is not read but made up, every time.
ReadNothing(p) ==
    /\ pc[p] = "read"
    /\ view' = [view EXCEPT ![p] = {NewRow(p)}]
    /\ Goto(p, "mark")
    /\ UNCHANGED <<strategy, runtime, copy, claimed, result>>

\* markRuntimeSuccess and markRuntimeError read the row, whoever's it is ...
ReadRuntime(p) ==
    /\ pc[p] = "read"
    /\ view' = [view EXCEPT ![p] = {ReadRow(p)}]
    /\ Goto(p, "mark")
    /\ UNCHANGED <<strategy, runtime, copy, claimed, result>>

\* ... and write it back with a new heartbeat.
MarkRuntime(p) ==
    /\ pc[p] = "mark"
    /\ \E row \in view[p] :
         runtime' = {[row EXCEPT
           !.age = 0,
           !.ran = TRUE,
           !.errors = IF result[p] = "ok" THEN 0
                      ELSE IF row.errors < MaxErrors THEN row.errors + 1
                      ELSE row.errors]}
    /\ view' = [view EXCEPT ![p] = {}]
    /\ Goto(p, IF p \in Runners /\ result[p] = "failed" THEN "errors" ELSE "sleep")
    /\ UNCHANGED <<strategy, copy, claimed, result>>

\* The deferred ClearRuntime: whatever row is there goes.
ClearRuntime(p) ==
    /\ pc[p] = "clear"
    /\ runtime' = {}
    /\ claimed' = [claimed EXCEPT ![p] = FALSE]
    /\ Goto(p, "out")
    /\ UNCHANGED <<strategy, view, copy, result>>

----------------------------------------------------------------------------
(* One cycle: RunOnce on the copy the loop just loaded, which is active.   *)

\* Variant: the kill switch is not looked at.
CheckWithoutSwitch(p) ==
    /\ pc[p] = "check"
    /\ \/ Goto(p, "submit") /\ UNCHANGED result
       \/ Goto(p, "save") /\ result' = [result EXCEPT ![p] = "failed"]
    /\ UNCHANGED <<strategy, runtime, view, copy, claimed>>

\* ReconcileStrategy up to the submission.  Prices, the wallet, Horizon or a
\* limit may fail it; the kill switch does if there are orders to place.
CheckRisk(p) ==
    /\ pc[p] = "check"
    /\ \/ /\ ~KillSwitchOn \/ setup.mayWantNothing
          /\ Goto(p, "submit")
          /\ UNCHANGED result
       \/ /\ Goto(p, "save")
          /\ result' = [result EXCEPT ![p] = "failed"]
    /\ UNCHANGED <<strategy, runtime, view, copy, claimed>>

\* The offers go to the network, and the cycle ends well or not.
SubmitOffers(p) ==
    /\ pc[p] = "submit"
    /\ \E r \in {"ok", "failed"} : result' = [result EXCEPT ![p] = r]
    /\ Goto(p, "save")
    /\ UNCHANGED <<strategy, runtime, view, copy, claimed>>

\* RunOnce saves its copy of the strategy, to record when it last ran.
SaveCycle(p) ==
    /\ pc[p] = "save"
    /\ strategy' = "active"
    /\ Goto(p, "read")
    /\ UNCHANGED <<runtime, view, copy, claimed, result>>

----------------------------------------------------------------------------
(* The loops.                                                              *)

\* RunStrategy refuses a strategy that is not active; RunActive just starts.
Launch(p) ==
    /\ pc[p] = "out"
    /\ p \in setup.launched
    /\ p \in Runners => strategy = "active"
    /\ Goto(p, IF p \in Runners THEN "claim" ELSE "list")
    /\ UNCHANGED <<strategy, runtime, view, copy, claimed, result>>

\* GetActiveStrategies; RunActive returns when there is none.
ListActive(p) ==
    /\ pc[p] = "list"
    /\ Goto(p, IF strategy = "active" THEN "load"
               ELSE IF claimed[p] THEN "clear" ELSE "out")
    /\ UNCHANGED <<strategy, runtime, view, copy, claimed, result>>

\* Variant: a runner waits for the strategy to become active again.
LoadAndWait(p) ==
    /\ pc[p] = "load"
    /\ Goto(p, IF strategy # "active" THEN "sleep"
               ELSE IF p \in Runners THEN "check"
               ELSE IF claimed[p] THEN "due" ELSE "claim")
    /\ UNCHANGED <<strategy, runtime, view, copy, claimed, result>>

\* Variant: a scheduler claims what it has claimed already.
LoadForgetful(p) ==
    /\ pc[p] = "load"
    /\ Goto(p, IF p \in Runners
                 THEN IF strategy = "active" THEN "check" ELSE "clear"
                 ELSE IF strategy # "active" THEN "sleep" ELSE "claim")
    /\ UNCHANGED <<strategy, runtime, view, copy, claimed, result>>

\* GetStrategy at the top of a cycle.
LoadStrategy(p) ==
    /\ pc[p] = "load"
    /\ Goto(p, IF p \in Runners
                 THEN IF strategy = "active" THEN "check" ELSE "clear"
                 ELSE IF strategy # "active" THEN "sleep"
                      ELSE IF claimed[p] THEN "due" ELSE "claim")
    /\ UNCHANGED <<strategy, runtime, view, copy, claimed, result>>

\* runtimeDue: a scheduler wakes often and runs the strategy once an interval.
RuntimeDue(p) ==
    /\ pc[p] = "due"
    /\ Goto(p, IF \A row \in runtime : row.ran => row.age >= Interval
               THEN "check" ELSE "sleep")
    /\ UNCHANGED <<strategy, runtime, view, copy, claimed, result>>

\* maxErrorsReached, after a failed cycle of a runner.
MaxErrorsReached(p) ==
    /\ pc[p] = "errors"
    /\ Goto(p, IF \E row \in runtime : row.errors >= MaxErrors
               THEN "giveUp" ELSE "sleep")
    /\ UNCHANGED <<strategy, runtime, view, copy, claimed, result>>

\* The runner marks the strategy failed and returns.
GiveUp(p) ==
    /\ pc[p] = "giveUp"
    /\ strategy' = "error"
    /\ Goto(p, "clear")
    /\ UNCHANGED <<runtime, view, copy, claimed, result>>

Wake(p) ==
    /\ pc[p] = "sleep"
    /\ Goto(p, IF p \in Runners THEN "load" ELSE "list")
    /\ UNCHANGED <<strategy, runtime, view, copy, claimed, result>>

\* Ctrl-C, SIGTERM or the dashboard cancels the context of the loop.
Interrupt(p) ==
    /\ pc[p] = "sleep"
    /\ Goto(p, IF claimed[p] THEN "clear" ELSE "out")
    /\ UNCHANGED <<strategy, runtime, view, copy, claimed, result>>

\* The process is killed: no deferred call runs.
Crash(p) ==
    /\ pc[p] \notin {"out", "dead"}
    /\ Goto(p, "dead")
    /\ view' = [view EXCEPT ![p] = {}]
    /\ UNCHANGED <<strategy, runtime, copy, claimed, result>>

ProcessStep(p) ==
    \/ ReadClaim(p) \/ AcquireRuntime(p) \/ ReadRuntime(p) \/ MarkRuntime(p)
    \/ ClearRuntime(p) \/ CheckRisk(p) \/ SubmitOffers(p) \/ SaveCycle(p)
    \/ ListActive(p) \/ LoadStrategy(p) \/ RuntimeDue(p) \/ MaxErrorsReached(p)
    \/ GiveUp(p) \/ Wake(p)

----------------------------------------------------------------------------
(* The commands.  Each starts by reading the strategy (clear_kill reads    *)
(* only the runtime row) and returns early when the row does not allow it. *)

StartStrategy(o) ==
    /\ pc[o] = "idle"
    /\ strategy \notin {"none", "active"}
    /\ Goto(o, "start")
    /\ UNCHANGED <<strategy, runtime, view, copy, claimed, result>>

StopStrategy(o) ==
    /\ pc[o] = "idle"
    /\ strategy # "none"
    /\ Goto(o, "stop")
    /\ UNCHANGED <<strategy, runtime, view, copy, claimed, result>>

PauseStrategy(o) ==
    /\ pc[o] = "idle"
    /\ strategy = "active"
    /\ Goto(o, "pause")
    /\ UNCHANGED <<strategy, runtime, view, copy, claimed, result>>

KillSwitch(o) ==
    /\ pc[o] = "idle"
    /\ strategy # "none"
    /\ Goto(o, "killRead")
    /\ UNCHANGED <<strategy, runtime, view, copy, claimed, result>>

ClearKillSwitch(o) ==
    /\ pc[o] = "idle"
    /\ view' = [view EXCEPT ![o] = {ReadRow(NoPid)}]
    /\ Goto(o, "clearKill")
    /\ UNCHANGED <<strategy, runtime, copy, claimed, result>>

DeleteStrategy(o) ==
    /\ pc[o] = "idle"
    /\ strategy \notin {"none", "active"}
    /\ Goto(o, "delete")
    /\ UNCHANGED <<strategy, runtime, view, copy, claimed, result>>

\* RunOnce outside a loop (`run --once`, the dashboard's dry run): no claim,
\* and a dry run takes a strategy of any status.
RunOnce(o) ==
    /\ pc[o] = "idle"
    /\ strategy # "none"
    /\ copy' = [copy EXCEPT ![o] = strategy]
    /\ Goto(o, "once")
    /\ UNCHANGED <<strategy, runtime, view, claimed, result>>

\* The writes of start, pause and `run --once`, and the last one of kill.
SaveStrategy(o) ==
    /\ \/ pc[o] = "start" /\ strategy' = "active"
       \/ pc[o] \in {"pause", "killPause"} /\ strategy' = "paused"
       \/ pc[o] = "once" /\ strategy' = copy[o]
    /\ Goto(o, "idle")
    /\ copy' = [copy EXCEPT ![o] = "none"]
    /\ UNCHANGED <<runtime, view, claimed, result>>

SaveStopped(o) ==
    /\ pc[o] = "stop"
    /\ strategy' = "stopped"
    /\ Goto(o, "stopClear")
    /\ UNCHANGED <<runtime, view, copy, claimed, result>>

ClearStopped(o) ==
    /\ pc[o] = "stopClear"
    /\ runtime' = {}
    /\ Goto(o, "idle")
    /\ UNCHANGED <<strategy, view, copy, claimed, result>>

ReadKilled(o) ==
    /\ pc[o] = "killRead"
    /\ view' = [view EXCEPT ![o] = {ReadRow(NoPid)}]
    /\ Goto(o, "killSave")
    /\ UNCHANGED <<strategy, runtime, copy, claimed, result>>

\* The switch is saved, with a new heartbeat, before the strategy is paused.
SaveKilled(o) ==
    /\ pc[o] = "killSave"
    /\ runtime' = {[row EXCEPT !.killSwitch = TRUE, !.age = 0] : row \in view[o]}
    /\ view' = [view EXCEPT ![o] = {}]
    /\ Goto(o, "killPause")
    /\ UNCHANGED <<strategy, copy, claimed, result>>

SaveCleared(o) ==
    /\ pc[o] = "clearKill"
    /\ runtime' = {[row EXCEPT !.killSwitch = FALSE] : row \in view[o]}
    /\ view' = [view EXCEPT ![o] = {}]
    /\ Goto(o, "idle")
    /\ UNCHANGED <<strategy, copy, claimed, result>>

\* The transaction of DeleteStrategy; the status was tested before it began.
DeleteRows(o) ==
    /\ pc[o] = "delete"
    /\ strategy' = "none"
    /\ runtime' = {}
    /\ Goto(o, "idle")
    /\ UNCHANGED <<view, copy, claimed, result>>

\* A command dies, or the store fails it, between two of its calls.
AbandonCommand(o) ==
    /\ pc[o] # "idle"
    /\ Goto(o, "idle")
    /\ view' = [view EXCEPT ![o] = {}]
    /\ copy' = [copy EXCEPT ![o] = "none"]
    /\ UNCHANGED <<strategy, runtime, claimed, result>>

Command(o) ==
    \/ StartStrategy(o) \/ StopStrategy(o) \/ PauseStrategy(o) \/ KillSwitch(o)
    \/ ClearKillSwitch(o) \/ DeleteStrategy(o) \/ RunOnce(o)
    \/ SaveStrategy(o) \/ SaveStopped(o) \/ ClearStopped(o) \/ ReadKilled(o)
    \/ SaveKilled(o) \/ SaveCleared(o) \/ DeleteRows(o) \/ AbandonCommand(o)

----------------------------------------------------------------------------
Older(row) == [row EXCEPT !.age = IF @ < OldAge THEN @ + 1 ELSE @]

\* Time passes: heartbeats grow old, in the row and in the copies of it.
Tick ==
    /\ runtime' = {Older(row) : row \in runtime}
    /\ view' = [x \in DOMAIN view |-> {Older(row) : row \in view[x]}]
    /\ UNCHANGED <<strategy, pc, copy, claimed, result>>

\* CreateStrategy leaves a stopped strategy and no runtime row.
Init ==
    /\ setup \in Setups
    /\ strategy = "stopped"
    /\ runtime = {}
    /\ pc = [x \in Processes \cup Operators |->
               IF x \in Processes THEN "out" ELSE "idle"]
    /\ view = [x \in Processes \cup Operators |-> {}]
    /\ copy = [o \in Operators |-> "none"]
    /\ claimed = [p \in Processes |-> FALSE]
    /\ result = [p \in Processes |-> "ok"]

Next ==
    /\ \/ \E p \in Processes : ProcessStep(p) \/ Launch(p) \/ Interrupt(p) \/ Crash(p)
       \/ \E o \in Operators : Command(o)
       \/ Tick
    /\ UNCHANGED setup

\* A loop goes on and time passes; nobody has to launch, interrupt, crash or
\* command anything.
Fairness ==
    /\ \A p \in Processes : WF_vars(ProcessStep(p) /\ UNCHANGED setup)
    /\ WF_vars(Tick /\ UNCHANGED setup)

Spec == Init /\ [][Next]_vars /\ Fairness

----------------------------------------------------------------------------
Off(p) == pc[p] \in {"out", "dead"}
Quiet == \A o \in Operators : pc[o] = "idle"

\* Shape of the state: rows, copies and program counters.
TypeOK ==
    /\ setup \in Setups
    /\ strategy \in Statuses \cup {"none"}
    /\ runtime \subseteq Row /\ Cardinality(runtime) <= 1
    /\ pc \in [Processes \cup Operators -> ProcessLabels \cup CommandLabels]
    /\ \A x \in Processes \cup Operators :
         /\ view[x] \subseteq Row
         /\ view[x] # {} <=> pc[x] \in {"mark", "killSave", "clearKill"}
    /\ copy \in [Operators -> Statuses \cup {"none"}]
    /\ claimed \in [Processes -> BOOLEAN]
    /\ result \in [Processes -> {"ok", "failed"}]

\* Once the strategy is no longer active and stays so, every loop ends: a
\* runner sees the status at the top of its next cycle, and RunActive returns
\* when nothing is active.
InactiveEndsLoops ==
    <>[](strategy # "active") => \A p \in Processes : []<>Off(p)

\* A runner whose cycles keep failing gives up: its errors reach max_errors
\* (unless commands keep rewriting the rows), and it leaves the loop.
FailingRunnerGivesUp ==
    \A r \in Runners : <>[](Quiet /\ result[r] = "failed") => []<>Off(r)

\* A loop ends when the strategy does, and a runner when it keeps failing (runLoop).
LoopsEnd == InactiveEndsLoops /\ FailingRunnerGivesUp

\* A completed kill ends the run, whatever the cycle in flight overwrites: the
\* cycle may save the strategy as active again, but it reads the runtime row
\* only after that, so the switch survives and fails every later cycle.  Holds
\* while nobody launches or commands anything new.
KillEndsRun ==
    (strategy = "paused" /\ KillSwitchOn /\ Quiet) ~>
      \/ \A r \in Runners : Off(r)
      \/ \E r \in Runners : pc[r] \in {"claim", "acquire"}
      \/ ~Quiet

Alone(p) == \A q \in Processes \ {p} : Off(q)

\* The run of a process is killed: the switch is on, also in the copy of the row that
\* the process is about to write back, or the process will look at the status next
\* time before it starts a cycle, and the strategy is not active.
Killed(p) ==
    /\ claimed[p] /\ ~Off(p)
    /\ \/ KillSwitchOn /\ \A row \in view[p] : row.killSwitch
       \/ /\ strategy # "active"
          /\ pc[p] \in {"mark", "errors", "giveUp", "sleep", "list", "load", "clear"}

\* A killed run stays killed until it ends and places no offer, whatever it overwrites
\* (SaveCycle the pause, MarkRuntime the switch), while no other process runs and no
\* command is between two of its calls.  A bot that wants no order skips the test.
KillStands ==
    [][\A p \in Processes : Killed(p) /\ Alone(p) /\ Quiet =>
         /\ Killed(p)' \/ Off(p)'
         /\ pc[p] = "check" /\ pc'[p] = "submit" => setup.mayWantNothing]_vars

\* The claim of a runner that crashed lapses: with no command and no other
\* process near it, the row stops refusing a new run.
CrashedClaimLapses ==
    \A r \in Runners :
      (pc[r] = "dead") ~>
        (~ \E row \in runtime : row.pid = r /\ Fresh(row)) \/ ~Quiet \/ ~Alone(r)

\* A RunActive loop that has claimed the strategy and is alone begins a cycle of
\* it again and again, while it stays active and nobody commands anything.
LoneLoopRuns ==
    \A s \in Schedulers :
      <>[](strategy = "active" /\ Quiet /\ ~Off(s) /\ claimed[s] /\ Alone(s))
        => []<>(pc[s] = "check")

=============================================================================

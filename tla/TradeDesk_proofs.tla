--------------------------- MODULE TradeDesk_proofs ---------------------------
(* Proofs about the dashboard's process, for any requests, commands, open     *)
(* streams, goroutines, networks, plans of who does what and number of ends.  *)
(*                                                                            *)
(* The invariant needs what the properties do not say.  A request goes        *)
(* through the steps its handler was written with and no others (Doing); a    *)
(* goroutine that was entered in the table waits for the one request that     *)
(* launches it (Launches), so no other step can cancel it unseen; and while a *)
(* network is being changed and the goroutines have not been unlisted, or the *)
(* file has not been written, there is a request that will do so (Bound,      *)
(* Saving).  A step changes one operator, one goroutine or the process, so    *)
(* the lemmas of a kind of step say first what it leaves alone                *)
(* (ElsewhereKeeps, LoopMoves, ViewMoves).  What the strategies of the desk   *)
(* record of their trades and of their offers comes after that, and at the    *)
(* end the runtime row that the loops share.                                  *)
EXTENDS TradeDesk, FiniteSetTheorems, NaturalsInduction, WellFoundedInduction, TLAPS

------------------------------------------------------------------------------
(* What a request or a command can still have to do.                          *)

RequestTodo ==
    {<<>>, <<"insert", "describe">>, <<"describe">>, <<"activate">>, <<"pause", "unlist">>, <<"unlist">>,
     <<"stop", "clear", "unlist">>, <<"clear", "unlist">>, <<"raise", "hold", "unlist">>, <<"hold", "unlist">>,
     <<"lower">>, <<"read", "write">>, <<"write">>, <<"free", "check", "enter", "launch">>,
     <<"check", "enter", "launch">>, <<"enter", "launch">>, <<"launch">>, <<"examine", "erase", "unlist">>,
     <<"erase", "unlist">>, <<"configure", "unlistAll", "save">>, <<"unlistAll", "save">>, <<"save">>}
CommandTodo ==
    {<<>>, <<"insert">>, <<"activate">>, <<"pause">>, <<"stop", "clear">>, <<"clear">>, <<"lower">>,
     <<"raise", "hold">>, <<"hold">>, <<"read", "write">>, <<"write">>}
Job == [todo : RequestTodo \cup CommandTodo, net : Networks, status : Statuses \cup {"none"}, loop : Loops \cup {NoLoop}]
Pcs == {"off", "entered", "admit", "load", "cycle", "mark", "wait", "giveUp", "release", "leave"}
Loop == [net : Networks, canceled : BOOLEAN, pc : Pcs]
History == [jobs : Nat, ends : Nat, lost : SUBSET Loops, unsaved : BOOLEAN, fetches : Nat]

------------------------------------------------------------------------------
(* The inductive invariant.                                                   *)

WellTyped ==
    /\ row \in [status : Statuses, network : Networks]
    /\ claim \in {{}} \cup {{c} : c \in Claim}
    /\ net \in Networks /\ saved \in Networks
    /\ table \in Loops \cup {NoLoop}
    /\ loop \in [Loops -> Loop]
    /\ server \in {"up", "draining", "down"}
    /\ tab \in [Tabs -> {"idle", "balances", "fetch", "apply"}]
    /\ cache \in [fresh : BOOLEAN, filled : BOOLEAN]
    /\ history \in History

\* Every operator goes through the steps of his requests or commands, and
\* writes a status back only after he has read one.
Awaits(j, step) == j.todo # <<>> /\ Head(j.todo) = step
JobOf(o, j) ==
    /\ j \in Job
    /\ o \in Requests => j.todo \in RequestTodo
    /\ o \in Commands => j.todo \in CommandTodo
    /\ Awaits(j, "write") => j.status \in Statuses
Doing == job \in [Operators -> Job] /\ \A o \in Operators : JobOf(o, job[o])
\* A goroutine that is entered waits for the request that launches it.
Launches ==
    /\ \A o \in Requests : At(o, "launch") => job[o].loop \in Loops /\ loop[job[o].loop].pc = "entered"
    /\ \A o, p \in Requests :
          At(o, "launch") /\ At(p, "launch") /\ job[o].loop = job[p].loop => o = p
Reach == \A l \in Loops : loop[l].pc # "off" /\ ~loop[l].canceled => table = l \/ l \in history.lost
Bound ==
    \A l \in Loops :
        loop[l].pc \notin {"off", "entered"} /\ ~loop[l].canceled /\ l \notin history.lost /\ loop[l].net # net
        => \E o \in Requests : At(o, "unlistAll")
\* At most one change of network is on its way to the file, and it is the last.
Saving ==
    ~history.unsaved /\ server # "down" =>
        /\ \A o, p \in Requests : Switching(o) /\ Switching(p) => o = p
        /\ \A o \in Requests : Switching(o) => job[o].net = net
        /\ (\A o \in Requests : ~Switching(o)) => saved = net
Down == server = "down" => (\A l \in Loops : loop[l].pc = "off") /\ \A o \in Requests : job[o].todo = <<>>
Fetched == history.fetches <= 1 /\ (~cache.fresh => history.fetches = 0)

IInv == WellTyped /\ Doing /\ Launches /\ Reach /\ Bound /\ Saving /\ Down /\ Fetched

------------------------------------------------------------------------------
(* Steps of requests and commands.                                            *)

\* The head and the rest of a short list.
LEMMA Tails ==
    /\ \A a : Tail(<<a>>) = <<>> /\ Head(<<a>>) = a
    /\ \A a, b : Tail(<<a, b>>) = <<b>> /\ Head(<<a, b>>) = a
    /\ \A a, b, c : Tail(<<a, b, c>>) = <<b, c>> /\ Head(<<a, b, c>>) = a
    /\ \A a, b, c, d : Tail(<<a, b, c, d>>) = <<b, c, d>> /\ Head(<<a, b, c, d>>) = a
<1>1. \A a : Tail(<<a>>) = <<>> /\ Head(<<a>>) = a
  OBVIOUS
<1>2. \A a, b : Tail(<<a, b>>) = <<b>> /\ Head(<<a, b>>) = a
  OBVIOUS
<1>3. \A a, b, c : Tail(<<a, b, c>>) = <<b, c>> /\ Head(<<a, b, c>>) = a
  OBVIOUS
<1>4. \A a, b, c, d : Tail(<<a, b, c, d>>) = <<b, c, d>> /\ Head(<<a, b, c, d>>) = a
  OBVIOUS
<1> QED BY <1>1, <1>2, <1>3, <1>4

\* The first step of what is left tells which one comes after it.
First(s)  == Head(s)
Second(s) == IF Tail(s) = <<>> THEN "none" ELSE Head(Tail(s))
\* What the handlers of requests do after each step.
LEMMA RequestSteps ==
    ASSUME NEW s \in RequestTodo, s # <<>>
    PROVE  /\ Tail(s) \in RequestTodo
           /\ (Second(s) = "launch" <=> First(s) = "enter") /\ (Second(s) = "write" <=> First(s) = "read")
           /\ (Second(s) = "unlistAll" <=> First(s) = "configure") /\ (Second(s) = "save" <=> First(s) = "unlistAll")
<1>1. /\ First(<<"insert", "describe">>) = "insert" /\ Second(<<"insert", "describe">>) = "describe"
      /\ First(<<"describe">>) = "describe" /\ Second(<<"describe">>) = "none"
      /\ First(<<"activate">>) = "activate" /\ Second(<<"activate">>) = "none"
      /\ First(<<"pause", "unlist">>) = "pause" /\ Second(<<"pause", "unlist">>) = "unlist"
      /\ First(<<"unlist">>) = "unlist" /\ Second(<<"unlist">>) = "none"
      /\ First(<<"stop", "clear", "unlist">>) = "stop" /\ Second(<<"stop", "clear", "unlist">>) = "clear"
      /\ First(<<"clear", "unlist">>) = "clear" /\ Second(<<"clear", "unlist">>) = "unlist"
      /\ First(<<"raise", "hold", "unlist">>) = "raise" /\ Second(<<"raise", "hold", "unlist">>) = "hold"
      /\ First(<<"hold", "unlist">>) = "hold" /\ Second(<<"hold", "unlist">>) = "unlist"
      /\ First(<<"lower">>) = "lower" /\ Second(<<"lower">>) = "none"
      /\ First(<<"read", "write">>) = "read" /\ Second(<<"read", "write">>) = "write"
      /\ First(<<"write">>) = "write" /\ Second(<<"write">>) = "none"
      /\ First(<<"free", "check", "enter", "launch">>) = "free" /\ Second(<<"free", "check", "enter", "launch">>) = "check"
      /\ First(<<"check", "enter", "launch">>) = "check" /\ Second(<<"check", "enter", "launch">>) = "enter"
      /\ First(<<"enter", "launch">>) = "enter" /\ Second(<<"enter", "launch">>) = "launch"
      /\ First(<<"launch">>) = "launch" /\ Second(<<"launch">>) = "none"
      /\ First(<<"examine", "erase", "unlist">>) = "examine" /\ Second(<<"examine", "erase", "unlist">>) = "erase"
      /\ First(<<"erase", "unlist">>) = "erase" /\ Second(<<"erase", "unlist">>) = "unlist"
      /\ First(<<"configure", "unlistAll", "save">>) = "configure" /\ Second(<<"configure", "unlistAll", "save">>) = "unlistAll"
      /\ First(<<"unlistAll", "save">>) = "unlistAll" /\ Second(<<"unlistAll", "save">>) = "save"
      /\ First(<<"save">>) = "save" /\ Second(<<"save">>) = "none"
  BY Tails DEF First, Second
<1>2. Second(s) = "launch" <=> First(s) = "enter"
  BY <1>1 DEF RequestTodo
<1>3. Second(s) = "write" <=> First(s) = "read"
  BY <1>1 DEF RequestTodo
<1>4. Second(s) = "unlistAll" <=> First(s) = "configure"
  BY <1>1 DEF RequestTodo
<1>5. Second(s) = "save" <=> First(s) = "unlistAll"
  BY <1>1 DEF RequestTodo
<1>6. /\ Tail(<<"insert", "describe">>) = <<"describe">>
      /\ Tail(<<"describe">>) = <<>>
      /\ Tail(<<"activate">>) = <<>>
      /\ Tail(<<"pause", "unlist">>) = <<"unlist">>
      /\ Tail(<<"unlist">>) = <<>>
      /\ Tail(<<"stop", "clear", "unlist">>) = <<"clear", "unlist">>
      /\ Tail(<<"clear", "unlist">>) = <<"unlist">>
      /\ Tail(<<"raise", "hold", "unlist">>) = <<"hold", "unlist">>
      /\ Tail(<<"hold", "unlist">>) = <<"unlist">>
      /\ Tail(<<"lower">>) = <<>>
      /\ Tail(<<"read", "write">>) = <<"write">>
      /\ Tail(<<"write">>) = <<>>
      /\ Tail(<<"free", "check", "enter", "launch">>) = <<"check", "enter", "launch">>
      /\ Tail(<<"check", "enter", "launch">>) = <<"enter", "launch">>
      /\ Tail(<<"enter", "launch">>) = <<"launch">>
      /\ Tail(<<"launch">>) = <<>>
      /\ Tail(<<"examine", "erase", "unlist">>) = <<"erase", "unlist">>
      /\ Tail(<<"erase", "unlist">>) = <<"unlist">>
      /\ Tail(<<"configure", "unlistAll", "save">>) = <<"unlistAll", "save">>
      /\ Tail(<<"unlistAll", "save">>) = <<"save">>
      /\ Tail(<<"save">>) = <<>>
  BY Tails
<1>7. \E r \in RequestTodo : Tail(s) = r
  BY <1>6 DEF RequestTodo
<1> QED BY <1>2, <1>3, <1>4, <1>5, <1>7

\* The same of the commands.
LEMMA CommandSteps ==
    ASSUME NEW s \in CommandTodo, s # <<>>
    PROVE  /\ Tail(s) \in CommandTodo
           /\ Second(s) = "write" <=> First(s) = "read"
           /\ First(s) \in {"insert", "activate", "pause", "stop", "clear", "lower", "raise", "hold", "read", "write"}
           /\ ~Contains(s, "unlist")
<1>1. /\ First(<<"insert">>) = "insert" /\ Second(<<"insert">>) = "none"
      /\ First(<<"activate">>) = "activate" /\ Second(<<"activate">>) = "none"
      /\ First(<<"pause">>) = "pause" /\ Second(<<"pause">>) = "none"
      /\ First(<<"stop", "clear">>) = "stop" /\ Second(<<"stop", "clear">>) = "clear"
      /\ First(<<"clear">>) = "clear" /\ Second(<<"clear">>) = "none"
      /\ First(<<"lower">>) = "lower" /\ Second(<<"lower">>) = "none"
      /\ First(<<"raise", "hold">>) = "raise" /\ Second(<<"raise", "hold">>) = "hold"
      /\ First(<<"hold">>) = "hold" /\ Second(<<"hold">>) = "none"
      /\ First(<<"read", "write">>) = "read" /\ Second(<<"read", "write">>) = "write"
      /\ First(<<"write">>) = "write" /\ Second(<<"write">>) = "none"
  BY Tails DEF First, Second
<1>2. Second(s) = "write" <=> First(s) = "read"
  BY <1>1 DEF CommandTodo
<1>3. First(s) \in {"insert", "activate", "pause", "stop", "clear", "lower", "raise", "hold", "read", "write"}
  BY <1>1 DEF CommandTodo
<1>4. /\ Tail(<<"insert">>) = <<>>
      /\ Tail(<<"activate">>) = <<>>
      /\ Tail(<<"pause">>) = <<>>
      /\ Tail(<<"stop", "clear">>) = <<"clear">>
      /\ Tail(<<"clear">>) = <<>>
      /\ Tail(<<"lower">>) = <<>>
      /\ Tail(<<"raise", "hold">>) = <<"hold">>
      /\ Tail(<<"hold">>) = <<>>
      /\ Tail(<<"read", "write">>) = <<"write">>
      /\ Tail(<<"write">>) = <<>>
  BY Tails
<1>5. \E r \in CommandTodo : Tail(s) = r
  BY <1>4 DEF CommandTodo
<1>6. \A i \in 1..Len(s) : s[i] # "unlist"
  BY DEF CommandTodo
<1> QED BY <1>2, <1>3, <1>5, <1>6 DEF Contains

\* The steps that concern the goroutines or the network.
Special == {"launch", "unlistAll", "save"}

\* A step is due when it is the head of what is left.
LEMMA AtIs == \A o, step : At(o, step) <=> Awaits(job[o], step)
BY DEF At, Awaits

\* What an operator is left with after a step.
LEMMA DoneIs ==
    ASSUME Doing, NEW o \in Operators, job[o].todo # <<>>, Done(o)
    PROVE  \E j : /\ job' = [job EXCEPT ![o] = j] /\ j \in Job
                  /\ j.todo = Tail(job[o].todo) /\ j.net = job[o].net /\ j.status = job[o].status /\ j.loop = job[o].loop
                  /\ o \in Requests => j.todo \in RequestTodo
                  /\ o \in Commands => j.todo \in CommandTodo
<1> DEFINE j == [job[o] EXCEPT !.todo = Tail(@)]
<1>1. job[o] \in Job /\ (o \in Requests \/ o \in Commands)
      /\ (o \in Requests => job[o].todo \in RequestTodo) /\ (o \in Commands => job[o].todo \in CommandTodo)
  BY DEF Doing, JobOf, Operators
<1>2. /\ o \in Requests => Tail(job[o].todo) \in RequestTodo
      /\ o \in Commands => Tail(job[o].todo) \in CommandTodo
  BY <1>1, RequestSteps, CommandSteps
<1>3. job' = [job EXCEPT ![o] = j]
  BY DEF Done
<1>4. j \in Job /\ j.todo = Tail(job[o].todo) /\ j.net = job[o].net /\ j.status = job[o].status /\ j.loop = job[o].loop
  BY <1>1, <1>2 DEF Job
<1> QED BY <1>2, <1>3, <1>4

\* What comes after what.
LEMMA Order ==
    ASSUME Doing, NEW o \in Operators, job[o].todo # <<>>, NEW j, j.todo = Tail(job[o].todo)
    PROVE  /\ Awaits(j, "launch") <=> At(o, "enter")
           /\ Awaits(j, "write") <=> At(o, "read")
           /\ Awaits(j, "unlistAll") <=> At(o, "configure")
           /\ Awaits(j, "save") <=> At(o, "unlistAll")
<1> DEFINE s == job[o].todo
<1>1. s \in RequestTodo \/ s \in CommandTodo
  BY DEF Doing, JobOf, Operators
<1>2. \A x \in {"launch", "write", "unlistAll", "save"} : Awaits(j, x) <=> Second(s) = x
  BY DEF Awaits, Second
<1>3. \A x : At(o, x) <=> First(s) = x
  BY DEF At, First
<1>4. CASE s \in RequestTodo
  BY <1>2, <1>3, <1>4, RequestSteps
<1>5. CASE s \in CommandTodo
  <2>1. Tail(s) \in CommandTodo /\ (Second(s) = "write" <=> First(s) = "read")
        /\ First(s) \in {"insert", "activate", "pause", "stop", "clear", "lower", "raise", "hold", "read", "write"}
    BY <1>5, CommandSteps
  <2>2. j.todo # <<>> => Second(s) = First(j.todo) /\ j.todo \in CommandTodo
    BY <2>1 DEF Second, First
  <2>3. j.todo # <<>> => First(j.todo) \in {"insert", "activate", "pause", "stop", "clear", "lower", "raise", "hold",
                                            "read", "write"}
    BY <2>2, CommandSteps
  <2>4. \A x \in Special : ~Awaits(j, x)
    BY <2>3 DEF Awaits, First, Special
  <2> QED BY <1>2, <1>3, <2>1, <2>4 DEF Special
<1> QED BY <1>1, <1>4, <1>5

\* Only a request concerns the goroutines and the network.
LEMMA CommandsAre ==
    ASSUME Doing, NEW o \in Operators, NEW x, At(o, x),
           x \notin {"insert", "activate", "pause", "stop", "clear", "lower", "raise", "hold", "read", "write"}
    PROVE  o \in Requests
<1>1. o \in Commands => job[o].todo \in CommandTodo
  BY DEF Doing, JobOf
<1>2. o \notin Commands
  BY <1>1, CommandSteps DEF At, First
<1> QED BY <1>2 DEF Operators

\* What an operator is left with after an error.
LEMMA FailIs ==
    ASSUME Doing, NEW o \in Operators, job[o].todo # <<>>, Fail(o)
    PROVE  \E j : job' = [job EXCEPT ![o] = j] /\ JobOf(o, j) /\ \A x \in Special : ~Awaits(j, x)
<1> DEFINE todo == IF Contains(job[o].todo, "unlist") THEN <<"unlist">> ELSE <<>>
           j == [job[o] EXCEPT !.todo = todo]
<1>1. job[o] \in Job /\ (o \in Requests \/ o \in Commands)
      /\ (o \in Requests => job[o].todo \in RequestTodo) /\ (o \in Commands => job[o].todo \in CommandTodo)
  BY DEF Doing, JobOf, Operators
<1>2. job' = [job EXCEPT ![o] = j]
  BY DEF Fail
<1>3. todo \in RequestTodo /\ (o \in Commands => todo \in CommandTodo)
  <2>1. <<"unlist">> \in RequestTodo /\ <<>> \in RequestTodo /\ <<>> \in CommandTodo
    BY DEF RequestTodo, CommandTodo
  <2>2. o \in Commands => todo = <<>>
    BY <1>1, CommandSteps
  <2> QED BY <2>1, <2>2
<1>4. \A x : x # "unlist" => ~(todo # <<>> /\ Head(todo) = x)
  BY Tails
<1> HIDE DEF todo
<1>5. j \in Job /\ j.todo = todo
  BY <1>1, <1>3 DEF Job
<1> HIDE DEF j
<1>6. \A x : x # "unlist" => ~Awaits(j, x)
  BY <1>4, <1>5 DEF Awaits
<1> QED BY <1>2, <1>3, <1>5, <1>6 DEF JobOf, Special

------------------------------------------------------------------------------
(* Calls of the service.                                                      *)

\* Another step of an operator, in which goroutines and network play no part.
Elsewhere(o) ==
    \E j : /\ job' = [job EXCEPT ![o] = j] /\ JobOf(o, j)
           /\ \A x \in Special : ~Awaits(j, x) /\ ~At(o, x)

\* After a step of the service, no special step is due that was not.
LEMMA DoneElsewhere ==
    ASSUME Doing, NEW o \in Operators, NEW x, At(o, x), Done(o),
           x \notin Special \cup {"enter", "configure", "read"}
    PROVE  Elsewhere(o)
<1>1. job[o].todo # <<>> /\ \A y : At(o, y) => y = x
  BY DEF At
<1>2. PICK j : /\ job' = [job EXCEPT ![o] = j] /\ j \in Job
               /\ j.todo = Tail(job[o].todo) /\ j.net = job[o].net /\ j.status = job[o].status /\ j.loop = job[o].loop
               /\ o \in Requests => j.todo \in RequestTodo
               /\ o \in Commands => j.todo \in CommandTodo
  BY <1>1, DoneIs
<1>3. \A y \in Special \cup {"write"} : ~Awaits(j, y)
  BY <1>1, <1>2, Order DEF Special
<1>4. \A y \in Special : ~At(o, y)
  BY <1>1
<1> QED BY <1>2, <1>3, <1>4 DEF Elsewhere, JobOf

\* Nor after one that failed.
LEMMA FailElsewhere ==
    ASSUME Doing, NEW o \in Operators, NEW x, At(o, x), Fail(o), x \notin Special
    PROVE  Elsewhere(o)
<1>1. job[o].todo # <<>> /\ \A y : At(o, y) => y = x
  BY DEF At
<1>2. \A y \in Special : ~At(o, y)
  BY <1>1
<1> QED BY <1>1, <1>2, FailIs DEF Elsewhere

StoreTyped == row' \in [status : Statuses, network : Networks] /\ claim' \in {{}} \cup {{c} : c \in Claim}

\* Nothing but rows, claims and what an operator still has to do changes.
LEMMA ElsewhereKeeps ==
    ASSUME IInv, NEW o \in Operators, Elsewhere(o), job[o].todo # <<>> \/ (o \in Requests => server # "down"),
           StoreTyped, UNCHANGED <<net, saved, table, loop, server, tab, cache>>,
           history' \in History, history'.lost = history.lost, history'.unsaved = history.unsaved,
           history'.fetches = history.fetches
    PROVE  IInv'
<1>1. PICK j : /\ job' = [job EXCEPT ![o] = j] /\ JobOf(o, j)
               /\ \A x \in Special : ~Awaits(j, x) /\ ~At(o, x)
  BY DEF Elsewhere
<1>2. Doing'
  BY <1>1 DEF IInv, Doing, JobOf
<1>3. \A p \in Operators : p # o => job'[p] = job[p]
  BY <1>1 DEF IInv, Doing
<1>4. job'[o] = j
  BY <1>1 DEF IInv, Doing
<1>5. \A p \in Operators, x \in Special : At(p, x)' <=> At(p, x)
  BY <1>1, <1>3, <1>4 DEF At, Awaits
<1>6. \A p \in Operators, x \in Special : At(p, x) => job'[p] = job[p]
  BY <1>1, <1>3
<1>7. \A p \in Operators : Switching(p)' <=> Switching(p)
  BY <1>5 DEF Switching, Special
<1>8. \A p \in Operators : Switching(p) => job'[p] = job[p]
  BY <1>6 DEF Switching, Special
<1>9. WellTyped' /\ Reach' /\ Fetched'
  BY DEF IInv, WellTyped, StoreTyped, Reach, Fetched
<1>10. Launches'
  <2>1. \A p \in Requests : At(p, "launch")' => At(p, "launch") /\ job'[p] = job[p]
    BY <1>5, <1>6 DEF Special, Operators
  <2> QED BY <2>1 DEF IInv, Launches
<1>11. Bound'
  <2>1. \A p \in Requests : At(p, "unlistAll")' <=> At(p, "unlistAll")
    BY <1>5 DEF Special, Operators
  <2> QED BY <2>1 DEF IInv, Bound
<1>12. Saving'
  <2>1. \A p \in Requests : (Switching(p)' <=> Switching(p)) /\ (Switching(p) => job'[p] = job[p])
    BY <1>7, <1>8 DEF Operators
  <2> QED BY <2>1 DEF IInv, Saving
<1>13. Down'
  <2>1. server = "down" => o \notin Requests
    BY DEF IInv, Down
  <2>2. \A p \in Requests : server = "down" => job'[p] = job[p]
    BY <1>3, <2>1 DEF Operators
  <2> QED BY <2>2 DEF IInv, Down
<1> QED BY <1>2, <1>9, <1>10, <1>11, <1>12, <1>13 DEF IInv

\* The store holds one row and at most one claim after any operation of the runtime.
LEMMA RuntimeTyped ==
    ASSUME claim \in {{}} \cup {{c} : c \in Claim}, NEW pid \in {"dashboard", "other", "none"}
    PROVE  Runtime(pid) \in Claim
BY DEF Runtime, NewClaim, Claim

\* The operations of the trading service.
LEMMA ServiceCallKeeps == ASSUME IInv, NEW o \in Operators, ServiceCall(o) PROVE IInv'
<1>1. WellTyped /\ Doing /\ job[o] \in Job /\ JobOf(o, job[o])
  BY DEF IInv, Doing
<1>2. UNCHANGED <<net, saved, table, loop, server, tab, cache, history>> /\ history \in History
  BY <1>1 DEF ServiceCall, StartStrategy, PauseStrategy, StopStrategy, KillSwitch, ClearKillSwitch, Insert, RunOnce,
              DeleteStrategy, HouseUnchanged, viewVars, WellTyped
<1> DEFINE Typed2 == /\ row \in [status : Statuses, network : Networks]
                     /\ claim \in {{}} \cup {{c} : c \in Claim}
                     /\ Runtime("none") \in Claim
                     /\ job[o].net \in Networks
<1>3. Typed2
  BY <1>1, RuntimeTyped DEF WellTyped, Job
<1>4. \A x : At(o, x) => job[o].todo # <<>>
  BY DEF At
<1>5. SUFFICES StoreTyped /\ Elsewhere(o) /\ job[o].todo # <<>>
  BY <1>2, ElsewhereKeeps
<1> HIDE DEF Typed2
<1>6. CASE StartStrategy(o)
  <2>1. At(o, "activate") /\ (Done(o) \/ Fail(o))
    BY <1>6 DEF StartStrategy
  <2>2. StoreTyped
    BY <1>3, <1>6 DEF StartStrategy, StoreTyped, Typed2, Statuses
  <2> QED BY <1>1, <1>4, <2>1, <2>2, DoneElsewhere, FailElsewhere DEF Special
<1>7. CASE PauseStrategy(o)
  <2>1. At(o, "pause") /\ (Done(o) \/ Fail(o))
    BY <1>7 DEF PauseStrategy
  <2>2. StoreTyped
    BY <1>3, <1>7 DEF PauseStrategy, StoreTyped, Typed2, Statuses
  <2> QED BY <1>1, <1>4, <2>1, <2>2, DoneElsewhere, FailElsewhere DEF Special
<1>8. CASE StopStrategy(o)
  <2>1. (At(o, "stop") \/ At(o, "clear")) /\ (Done(o) \/ Fail(o))
    BY <1>8 DEF StopStrategy
  <2>2. StoreTyped
    BY <1>3, <1>8 DEF StopStrategy, StoreTyped, Typed2, Statuses
  <2> QED BY <1>1, <1>4, <2>1, <2>2, DoneElsewhere, FailElsewhere DEF Special
<1>9. CASE KillSwitch(o)
  <2>1. (At(o, "raise") \/ At(o, "hold")) /\ (Done(o) \/ Fail(o))
    BY <1>9 DEF KillSwitch
  <2>2. [Runtime("none") EXCEPT !.kill = TRUE, !.fresh = TRUE] \in Claim
    BY <1>3 DEF Claim, Typed2
  <2>3. StoreTyped
    BY <1>3, <1>9, <2>2 DEF KillSwitch, StoreTyped, Typed2, Statuses
  <2> QED BY <1>1, <1>4, <2>1, <2>3, DoneElsewhere, FailElsewhere DEF Special
<1>10. CASE ClearKillSwitch(o)
  <2>1. At(o, "lower") /\ Done(o)
    BY <1>10 DEF ClearKillSwitch
  <2>2. [Runtime("none") EXCEPT !.kill = FALSE] \in Claim
    BY <1>3 DEF Claim, Typed2
  <2>3. StoreTyped
    BY <1>3, <1>10, <2>2 DEF ClearKillSwitch, StoreTyped, Typed2, HouseUnchanged
  <2> QED BY <1>1, <1>4, <2>1, <2>3, DoneElsewhere DEF Special
<1>11. CASE Insert(o)
  <2>1. (At(o, "insert") \/ At(o, "describe")) /\ (Done(o) \/ Fail(o))
    BY <1>11 DEF Insert
  <2>2. StoreTyped
    BY <1>3, <1>11 DEF Insert, StoreTyped, Typed2, Statuses
  <2> QED BY <1>1, <1>4, <2>1, <2>2, DoneElsewhere, FailElsewhere DEF Special
<1>12. CASE RunOnce(o)
  <2>1. CASE At(o, "read")
    <3>1. ~At(o, "write")
      BY <2>1 DEF At
    <3>2. StoreTyped
      BY <1>3, <1>12, <3>1 DEF RunOnce, StoreTyped, Typed2
    <3>3. CASE Fail(o)
      BY <1>1, <1>4, <2>1, <3>2, <3>3, FailElsewhere DEF Special
    <3>4. CASE Exists /\ job' = [job EXCEPT ![o].todo = Tail(@), ![o].status = row.status]
      <4> DEFINE j == [job[o] EXCEPT !.todo = Tail(@), !.status = row.status]
      <4>1. job' = [job EXCEPT ![o] = j]
        BY <3>4
      <4>2. /\ o \in Requests => Tail(job[o].todo) \in RequestTodo
            /\ o \in Commands => Tail(job[o].todo) \in CommandTodo
        BY <1>1, <1>4, <2>1, RequestSteps, CommandSteps DEF JobOf
      <4>3. o \in Requests \/ o \in Commands
        BY DEF Operators
      <4>4. row.status \in Statuses
        BY <1>3 DEF Typed2
      <4>5. j \in Job /\ j.todo = Tail(job[o].todo) /\ j.status = row.status
        BY <1>1, <4>2, <4>3, <4>4 DEF Job
      <4> HIDE DEF j
      <4>6. \A x \in Special : ~Awaits(j, x) /\ ~At(o, x)
        <5>1. \A x \in Special \cup {"enter", "configure"} : ~At(o, x)
          BY <2>1 DEF At, Special
        <5> QED BY <1>1, <1>4, <2>1, <4>5, <5>1, Order DEF Special
      <4> QED BY <1>4, <2>1, <3>2, <4>1, <4>2, <4>4, <4>5, <4>6 DEF Elsewhere, JobOf
    <3> QED BY <1>12, <3>1, <3>3, <3>4 DEF RunOnce
  <2>2. CASE At(o, "write")
    <3>1. ~At(o, "read")
      BY <2>2 DEF At
    <3>2. job[o].status \in Statuses
      BY <1>1, <2>2 DEF JobOf, Awaits, At
    <3>3. Done(o) /\ row' = [row EXCEPT !.status = job[o].status] /\ claim' = claim
      BY <1>12, <3>1 DEF RunOnce
    <3>4. StoreTyped
      BY <1>3, <3>2, <3>3 DEF StoreTyped, Typed2
    <3> QED BY <1>1, <1>4, <2>2, <3>3, <3>4, DoneElsewhere DEF Special
  <2> QED BY <1>12, <2>1, <2>2 DEF RunOnce
<1>13. CASE DeleteStrategy(o)
  <2>1. (At(o, "examine") \/ At(o, "erase")) /\ (Done(o) \/ Fail(o))
    BY <1>13 DEF DeleteStrategy
  <2>2. StoreTyped
    BY <1>3, <1>13 DEF DeleteStrategy, StoreTyped, Typed2, Statuses, StoreUnchanged
  <2> QED BY <1>1, <1>4, <2>1, <2>2, DoneElsewhere, FailElsewhere DEF Special
<1> QED BY <1>6, <1>7, <1>8, <1>9, <1>10, <1>11, <1>12, <1>13 DEF ServiceCall

\* A request comes in, or a command is typed.
LEMMA BeginKeeps == ASSUME IInv, NEW o \in Operators, Begin(o) PROVE IInv'
<1>1. WellTyped /\ Doing /\ job[o] \in Job
  BY DEF IInv, Doing
<1>2. PICK todo \in IF o \in Requests THEN Pages ELSE Typed :
         job' = [job EXCEPT ![o] = [Free EXCEPT !.todo = todo, !.net = IF o \in Requests THEN net ELSE saved]]
  BY DEF Begin
<1> DEFINE j == [Free EXCEPT !.todo = todo, !.net = IF o \in Requests THEN net ELSE saved]
<1>3. /\ o \in Requests => todo \in RequestTodo
      /\ o \notin Requests => todo \in CommandTodo
  BY <1>2 DEF Pages, Typed, RequestTodo, CommandTodo, CreateStrategy, SetNetwork, StrategyAction, TradeStrategy,
              TradeStart, TradePause, TradeStop, TradeKill, TradeRunOnce
<1>4. \A x \in Special \cup {"write"} : ~(todo # <<>> /\ Head(todo) = x)
  BY <1>2, Tails DEF Special, Pages, Typed, CreateStrategy, SetNetwork, StrategyAction, TradeStrategy,
              TradeStart, TradePause, TradeStop, TradeKill, TradeRunOnce
<1>5. Home \in Networks /\ Requests \cap Commands = {} /\ net \in Networks /\ saved \in Networks
  BY <1>1, DeskAssumption DEF WellTyped
<1>6. j \in Job /\ j.todo = todo
  BY <1>3, <1>5 DEF Free, Job
<1>7. job' = [job EXCEPT ![o] = j]
  BY <1>2
<1> HIDE DEF j
<1>8. \A x \in Special \cup {"write"} : ~Awaits(j, x)
  BY <1>4, <1>6 DEF Awaits
<1>9. \A x \in Special : ~At(o, x)
  BY DEF Begin, At
<1>10. Elsewhere(o)
  BY <1>3, <1>5, <1>6, <1>7, <1>8, <1>9 DEF Elsewhere, JobOf, Operators
<1>11. /\ UNCHANGED <<row, claim, net, saved, table, loop, server, tab, cache>>
       /\ history' = [history EXCEPT !.jobs = @ + 1]
       /\ o \in Requests => server = "up"
  BY DEF Begin, viewVars
<1>12. /\ history' \in History /\ history'.lost = history.lost /\ history'.unsaved = history.unsaved
       /\ history'.fetches = history.fetches
  BY <1>1, <1>11 DEF WellTyped, History
<1>13. StoreTyped
  BY <1>1, <1>11 DEF WellTyped, StoreTyped
<1> QED BY <1>10, <1>11, <1>12, <1>13, ElsewhereKeeps

------------------------------------------------------------------------------
(* Calls that start and cancel goroutines.                                    *)

\* Whoever only looks at the table of goroutines goes on.
LEMMA LookKeeps == ASSUME IInv, NEW o \in Operators, TableIsFree(o) \/ MayRun(o), UNCHANGED <<server, viewVars>> PROVE IInv'
<1>1. (At(o, "free") \/ At(o, "check")) /\ (Done(o) \/ Fail(o))
  BY DEF TableIsFree, MayRun
<1>2. UNCHANGED <<row, claim, net, saved, table, loop, server, tab, cache, history>>
  BY DEF TableIsFree, MayRun, StoreUnchanged, HouseUnchanged, viewVars
<1>3. Doing /\ WellTyped
  BY DEF IInv
<1>4. Elsewhere(o)
  BY <1>1, <1>3, DoneElsewhere, FailElsewhere DEF Special
<1>5. StoreTyped /\ history' \in History
  BY <1>2, <1>3 DEF StoreTyped, WellTyped
<1>6. job[o].todo # <<>>
  BY <1>1 DEF At
<1> QED BY <1>2, <1>4, <1>5, <1>6, ElsewhereKeeps

\* What an operator at one of the steps of a request goes on with.
LEMMA RequestGoesOn ==
    ASSUME IInv, NEW o \in Operators, NEW x \in {"enter", "launch", "unlist", "unlistAll", "configure", "save"}, At(o, x)
    PROVE  /\ o \in Requests /\ server # "down" /\ job[o] \in Job /\ job[o].todo # <<>>
           /\ Tail(job[o].todo) \in RequestTodo
           /\ \A y : At(o, y) => y = x
<1>1. Doing
  BY DEF IInv
<1>2. o \in Requests
  BY <1>1, CommandsAre
<1>3. job[o].todo # <<>> /\ \A y : At(o, y) => y = x
  BY DEF At
<1>4. server # "down"
  BY <1>2, <1>3 DEF IInv, Down
<1>5. job[o] \in Job /\ job[o].todo \in RequestTodo
  BY <1>1, <1>2 DEF Doing, JobOf
<1> QED BY <1>2, <1>3, <1>4, <1>5, RequestSteps

\* Only the job of operator o changes.
LEMMA OthersStay ==
    ASSUME job \in [Operators -> Job], NEW o \in Operators, NEW j, job' = [job EXCEPT ![o] = j]
    PROVE  /\ job'[o] = j /\ \A p \in Operators : p # o => job'[p] = job[p]
           /\ \A x : At(o, x)' <=> Awaits(j, x)
           /\ \A p \in Operators : p # o => \A x : At(p, x)' <=> At(p, x)
           /\ Switching(o)' <=> Awaits(j, "unlistAll") \/ Awaits(j, "save")
           /\ \A p \in Operators : p # o => (Switching(p)' <=> Switching(p))
<1>1. job'[o] = j /\ \A p \in Operators : p # o => job'[p] = job[p]
  OBVIOUS
<1> QED BY <1>1 DEF At, Awaits, Switching

\* A goroutine is entered in the table; one that was there is lost.
LEMMA EnterRunnerKeeps == ASSUME IInv, NEW o \in Operators, EnterRunner(o), UNCHANGED <<server, viewVars>> PROVE IInv'
<1>1. /\ WellTyped /\ Doing /\ o \in Requests /\ server # "down" /\ job[o] \in Job /\ job[o].todo # <<>>
      /\ Tail(job[o].todo) \in RequestTodo /\ At(o, "enter") /\ \A y : At(o, y) => y = "enter"
  BY RequestGoesOn DEF IInv, EnterRunner
<1>2. PICK l \in Loops : /\ loop[l].pc = "off" /\ table' = l
                         /\ loop' = [loop EXCEPT ![l] = [NoLoopYet EXCEPT !.pc = "entered"]]
                         /\ job' = [job EXCEPT ![o].todo = Tail(@), ![o].loop = l]
  BY DEF EnterRunner
<1>3. /\ UNCHANGED <<row, claim, net, saved, server, tab, cache>>
      /\ history' = [history EXCEPT !.lost = @ \cup ({table} \ {NoLoop})]
  BY DEF EnterRunner, StoreUnchanged, viewVars
<1> DEFINE j == [job[o] EXCEPT !.todo = Tail(@), !.loop = l]
           k == [NoLoopYet EXCEPT !.pc = "entered"]
<1>4. j \in Job /\ j.todo = Tail(job[o].todo) /\ j.loop = l
  BY <1>1 DEF Job
<1>5. job' = [job EXCEPT ![o] = j]
  BY <1>2
<1>6. k \in Loop /\ k.pc = "entered" /\ ~k.canceled
  BY DeskAssumption DEF NoLoopYet, Loop, Pcs
<1>7. loop' = [loop EXCEPT ![l] = k]
  BY <1>2
<1> HIDE DEF j, k
<1>8. Awaits(j, "launch") /\ \A x \in {"write", "unlistAll", "save"} : ~Awaits(j, x)
  BY <1>1, <1>4, Order DEF Awaits
<1>9. /\ job'[o] = j /\ \A p \in Operators : p # o => job'[p] = job[p]
      /\ \A x : At(o, x)' <=> Awaits(j, x)
      /\ \A p \in Operators : p # o => \A x : At(p, x)' <=> At(p, x)
      /\ ~Switching(o)'
      /\ \A p \in Operators : p # o => (Switching(p)' <=> Switching(p))
  BY <1>1, <1>5, <1>8, OthersStay DEF Doing
<1>10. loop'[l] = k /\ \A m \in Loops : m # l => loop'[m] = loop[m]
  BY <1>7 DEF IInv, WellTyped
<1>11. /\ history' \in History /\ history'.lost = history.lost \cup ({table} \ {NoLoop})
       /\ history'.unsaved = history.unsaved /\ history'.fetches = history.fetches
  BY <1>1, <1>3 DEF WellTyped, History
<1>12. WellTyped'
  BY <1>1, <1>2, <1>3, <1>6, <1>7, <1>11 DEF WellTyped
<1>13. Doing'
  BY <1>1, <1>4, <1>5, <1>8, <1>9, DeskAssumption DEF Doing, JobOf
<1>14. Launches'
  <2>1. \A p \in Requests : p # o /\ At(p, "launch")' => At(p, "launch") /\ job'[p] = job[p] /\ loop[job[p].loop].pc = "entered"
                                                      /\ job[p].loop \in Loops
    BY <1>9 DEF IInv, Launches, Operators
  <2>2. \A p \in Requests : p # o /\ At(p, "launch")' => job'[p].loop # l /\ loop'[job'[p].loop].pc = "entered"
    <3>1. TAKE p \in Requests
    <3>2. HAVE p # o /\ At(p, "launch")'
    <3>3. job'[p] = job[p] /\ loop[job[p].loop].pc = "entered" /\ job[p].loop \in Loops
      BY <2>1, <3>2
    <3>4. job[p].loop # l
      BY <1>2, <3>3
    <3>5. loop'[job[p].loop] = loop[job[p].loop]
      BY <1>10, <3>3, <3>4
    <3> QED BY <3>3, <3>4, <3>5
  <2>3. job'[o].loop = l /\ loop'[l].pc = "entered"
    BY <1>4, <1>6, <1>9, <1>10
  <2> QED BY <2>1, <2>2, <2>3 DEF Launches, IInv
<1>15. Reach'
  BY <1>2, <1>10, <1>11, DeskAssumption DEF IInv, Reach
<1>16. Bound'
  <2>1. \A p \in Requests : At(p, "unlistAll") => At(p, "unlistAll")'
    <3>1. ~At(o, "unlistAll")
      BY <1>1
    <3> QED BY <1>9, <3>1 DEF Operators
  <2>2. \A m \in Loops : loop'[m].pc \notin {"off", "entered"} => m # l /\ loop'[m] = loop[m]
    BY <1>6, <1>10
  <2>3. net' = net /\ history.lost \subseteq history'.lost
    BY <1>3, <1>11
  <2> QED BY <2>1, <2>2, <2>3 DEF IInv, Bound
<1>17. Saving'
  <2>1. \A p \in Requests : (Switching(p)' <=> Switching(p)) /\ (Switching(p) => job'[p] = job[p])
    <3>1. ~Switching(o)
      BY <1>1 DEF Switching
    <3> QED BY <1>9, <3>1 DEF Operators
  <2> QED BY <1>3, <1>11, <2>1 DEF IInv, Saving
<1>18. Down' /\ Fetched'
  BY <1>1, <1>3, <1>11 DEF IInv, Down, Fetched
<1> QED BY <1>12, <1>13, <1>14, <1>15, <1>16, <1>17, <1>18 DEF IInv

\* The goroutine the request entered begins.
LEMMA LaunchRunnerKeeps == ASSUME IInv, NEW o \in Operators, LaunchRunner(o), UNCHANGED <<server, viewVars>> PROVE IInv'
<1>1. /\ WellTyped /\ Doing /\ o \in Requests /\ server # "down" /\ job[o] \in Job /\ job[o].todo # <<>>
      /\ Tail(job[o].todo) \in RequestTodo /\ At(o, "launch") /\ \A y : At(o, y) => y = "launch"
  BY RequestGoesOn DEF IInv, LaunchRunner
<1> DEFINE l == job[o].loop
           k == [loop[l] EXCEPT !.pc = "admit", !.net = net]
<1>2. l \in Loops /\ loop[l].pc = "entered"
  BY <1>1 DEF IInv, Launches
<1>3. /\ UNCHANGED <<row, claim, net, saved, table, server, tab, cache, history>> /\ Done(o)
      /\ loop' = [loop EXCEPT ![l] = k]
  BY DEF LaunchRunner, StoreUnchanged, viewVars
<1>4. k \in Loop /\ k.pc = "admit" /\ k.canceled = loop[l].canceled /\ k.net = net
  BY <1>1, <1>2 DEF WellTyped, Loop, Pcs
<1>5. PICK j : job' = [job EXCEPT ![o] = j] /\ j \in Job /\ j.todo = Tail(job[o].todo) /\ j.todo \in RequestTodo
  BY <1>1, <1>3, DoneIs
<1>6. \A x \in {"launch", "write", "unlistAll", "save"} : ~Awaits(j, x)
  BY <1>1, <1>5, Order DEF Awaits
<1> HIDE DEF l, k
<1>7. /\ job'[o] = j /\ \A p \in Operators : p # o => job'[p] = job[p]
      /\ \A x : At(o, x)' <=> Awaits(j, x)
      /\ \A p \in Operators : p # o => \A x : At(p, x)' <=> At(p, x)
      /\ ~Switching(o)'
      /\ \A p \in Operators : p # o => (Switching(p)' <=> Switching(p))
  BY <1>1, <1>5, <1>6, OthersStay DEF Doing
<1>8. loop'[l] = k /\ \A m \in Loops : m # l => loop'[m] = loop[m]
  BY <1>1, <1>2, <1>3 DEF WellTyped
<1>9. WellTyped'
  BY <1>1, <1>3, <1>4 DEF WellTyped
<1>10. Doing'
  BY <1>1, <1>5, <1>6, <1>7, DeskAssumption DEF Doing, JobOf
<1>11. Launches'
  <2>1. \A p \in Requests : At(p, "launch")' => p # o /\ At(p, "launch") /\ job'[p] = job[p]
    BY <1>6, <1>7 DEF Operators
  <2>2. \A p \in Requests : At(p, "launch")' => job[p].loop # l /\ job[p].loop \in Loops
    BY <1>1, <2>1 DEF IInv, Launches, l
  <2>3. \A p \in Requests : At(p, "launch")' => loop'[job[p].loop] = loop[job[p].loop]
    BY <1>8, <2>2
  <2> QED BY <2>1, <2>2, <2>3 DEF IInv, Launches
<1>12. Reach'
  <2>1. \A m \in Loops : loop'[m].pc # "off" /\ ~loop'[m].canceled => loop[m].pc # "off" /\ ~loop[m].canceled
    BY <1>2, <1>4, <1>8
  <2> QED BY <1>3, <2>1 DEF IInv, Reach
<1>13. Bound'
  <2>1. \A p \in Requests : At(p, "unlistAll") => At(p, "unlistAll")'
    <3>1. ~At(o, "unlistAll")
      BY <1>1
    <3> QED BY <1>7, <3>1 DEF Operators
  <2>2. \A m \in Loops : loop'[m].net # net => m # l /\ loop'[m] = loop[m]
    BY <1>4, <1>8
  <2> QED BY <1>3, <2>1, <2>2 DEF IInv, Bound
<1>14. Saving'
  <2>1. \A p \in Requests : (Switching(p)' <=> Switching(p)) /\ (Switching(p) => job'[p] = job[p])
    <3>1. ~Switching(o)
      BY <1>1 DEF Switching
    <3> QED BY <1>7, <3>1 DEF Operators
  <2> QED BY <1>3, <2>1 DEF IInv, Saving
<1>15. Down' /\ Fetched'
  BY <1>1, <1>3 DEF IInv, Down, Fetched
<1> QED BY <1>9, <1>10, <1>11, <1>12, <1>13, <1>14, <1>15 DEF IInv

\* Canceling the goroutine the table leads to.
LEMMA CanceledIs ==
    ASSUME WellTyped
    PROVE  LET ls == Canceled({table}) IN
           /\ ls \in [Loops -> Loop]
           /\ \A l \in Loops : ls[l].pc = loop[l].pc /\ ls[l].net = loop[l].net
                               /\ (~ls[l].canceled => ~loop[l].canceled /\ l # table)
<1>1. \A l \in Loops : loop[l] \in Loop
  BY DEF WellTyped
<1> QED BY <1>1 DEF Canceled, Loop

\* The goroutine of a strategy that is stopped, paused or deleted is canceled.
LEMMA StopRunnerKeeps == ASSUME IInv, NEW o \in Operators, StopRunner(o), UNCHANGED <<server, viewVars>> PROVE IInv'
<1>1. /\ WellTyped /\ Doing /\ o \in Requests /\ server # "down" /\ job[o] \in Job /\ job[o].todo # <<>>
      /\ Tail(job[o].todo) \in RequestTodo
      /\ \A y : At(o, y) => y \in {"unlist", "unlistAll"}
  BY RequestGoesOn DEF IInv, StopRunner
<1>2. /\ UNCHANGED <<row, claim, net, saved, server, tab, cache, history>> /\ Done(o)
      /\ loop' = Canceled({table}) /\ table' = NoLoop
  BY DEF StopRunner, StoreUnchanged, viewVars
<1>3. PICK j : job' = [job EXCEPT ![o] = j] /\ j \in Job /\ j.todo = Tail(job[o].todo) /\ j.todo \in RequestTodo
               /\ j.net = job[o].net
  BY <1>1, <1>2, DoneIs
<1>4. /\ \A x \in {"launch", "write", "unlistAll"} : ~Awaits(j, x)
      /\ Awaits(j, "save") <=> At(o, "unlistAll")
  BY <1>1, <1>3, Order DEF Awaits
<1>5. /\ job'[o] = j /\ \A p \in Operators : p # o => job'[p] = job[p]
      /\ \A x : At(o, x)' <=> Awaits(j, x)
      /\ \A p \in Operators : p # o => \A x : At(p, x)' <=> At(p, x)
      /\ Switching(o)' <=> Awaits(j, "unlistAll") \/ Awaits(j, "save")
      /\ \A p \in Operators : p # o => (Switching(p)' <=> Switching(p))
  BY <1>1, <1>3, OthersStay DEF Doing
<1>6. /\ loop' \in [Loops -> Loop]
      /\ \A l \in Loops : loop'[l].pc = loop[l].pc /\ loop'[l].net = loop[l].net
                          /\ (~loop'[l].canceled => ~loop[l].canceled /\ l # table)
  BY <1>1, <1>2, CanceledIs
<1>7. WellTyped'
  BY <1>1, <1>2, <1>6 DEF WellTyped
<1>8. Doing'
  BY <1>1, <1>3, <1>4, <1>5, DeskAssumption DEF Doing, JobOf
<1>9. Launches'
  <2>1. \A p \in Requests : At(p, "launch")' => p # o /\ At(p, "launch") /\ job'[p] = job[p]
    BY <1>4, <1>5 DEF Operators
  <2> QED BY <1>6, <2>1 DEF IInv, Launches
\* Whatever was not canceled before and is not now is lost.
<1>10. \A l \in Loops : loop'[l].pc # "off" /\ ~loop'[l].canceled => l \in history.lost
  BY <1>6 DEF IInv, Reach
<1>11. Reach' /\ Bound'
  BY <1>2, <1>10 DEF Reach, Bound
<1>12. Saving'
  <2>1. Switching(o)' <=> Switching(o)
    BY <1>1, <1>4, <1>5 DEF Switching
  <2>2. \A p \in Requests : (Switching(p)' <=> Switching(p)) /\ job'[p].net = job[p].net
    BY <1>3, <1>5, <2>1 DEF Operators
  <2> QED BY <1>2, <2>2 DEF IInv, Saving
<1>13. Down' /\ Fetched'
  BY <1>1, <1>2 DEF IInv, Down, Fetched
<1> QED BY <1>7, <1>8, <1>9, <1>11, <1>12, <1>13 DEF IInv

\* All operations on goroutines.
LEMMA RunnerCallKeeps == ASSUME IInv, NEW o \in Operators, RunnerCall(o) PROVE IInv'
BY LookKeeps, EnterRunnerKeeps, LaunchRunnerKeeps, StopRunnerKeeps DEF RunnerCall

------------------------------------------------------------------------------
(* The goroutines.                                                            *)

\* A goroutine that runs goes on, and the network and the requests stay.
LEMMA LoopMoves ==
    ASSUME IInv, NEW l \in Loops, NEW pc \in Pcs \ {"off", "entered"}, loop[l].pc \notin {"off", "entered"}, Move(l, pc),
           StoreTyped, UNCHANGED <<net, saved, table, job, server, tab, cache, history>>
    PROVE  IInv'
<1>1. WellTyped /\ Doing /\ loop \in [Loops -> Loop]
  BY DEF IInv, WellTyped
<1> DEFINE k == [loop[l] EXCEPT !.pc = pc]
<1>2. k \in Loop /\ k.pc = pc /\ k.net = loop[l].net /\ k.canceled = loop[l].canceled
  BY <1>1 DEF Loop
<1>3. loop' = [loop EXCEPT ![l] = k]
  BY DEF Move
<1> HIDE DEF k
<1>4. loop'[l] = k /\ \A m \in Loops : m # l => loop'[m] = loop[m]
  BY <1>1, <1>3
<1>5. WellTyped' /\ Fetched'
  BY <1>1, <1>2, <1>3 DEF IInv, WellTyped, StoreTyped, Fetched
<1>6. \A o, x : At(o, x)' <=> At(o, x)
  BY DEF At
<1>7. Doing' /\ Saving'
  BY DEF IInv, Doing, JobOf, Saving, Switching, At
<1>8. Launches'
  <2>1. \A m \in Loops : loop[m].pc = "entered" => loop'[m] = loop[m]
    BY <1>4
  <2> QED BY <1>6, <2>1 DEF IInv, Launches
<1>9. \A m \in Loops : /\ loop'[m].net = loop[m].net /\ loop'[m].canceled = loop[m].canceled
                       /\ loop'[m].pc # "off" => loop[m].pc # "off"
                       /\ loop'[m].pc \notin {"off", "entered"} => loop[m].pc \notin {"off", "entered"}
  BY <1>2, <1>4
<1>10. Reach'
  BY <1>9 DEF IInv, Reach
<1>11. Bound'
  BY <1>6, <1>9 DEF IInv, Bound
<1>12. Down'
  BY DEF IInv, Down
<1> QED BY <1>5, <1>7, <1>8, <1>10, <1>11, <1>12 DEF IInv

\* A goroutine ends and takes its own entry out of the table.
LEMMA LeaveKeeps ==
    ASSUME IInv, NEW l \in Loops, Leave(l), UNCHANGED <<net, saved, job, server, viewVars>> PROVE IInv'
<1>1. WellTyped /\ Doing /\ loop \in [Loops -> Loop]
  BY DEF IInv, WellTyped
<1>2. /\ UNCHANGED <<row, claim, net, saved, job, server, tab, cache>> /\ loop[l].pc = "leave"
      /\ loop' = [loop EXCEPT ![l] = NoLoopYet] /\ table' = IF table = l THEN NoLoop ELSE table
      /\ history' = [history EXCEPT !.lost = @ \ {l}]
  BY DEF Leave, StoreUnchanged, viewVars
<1>3. NoLoopYet \in Loop /\ NoLoopYet.pc = "off"
  BY DeskAssumption DEF NoLoopYet, Loop, Pcs
<1>4. loop'[l] = NoLoopYet /\ \A m \in Loops : m # l => loop'[m] = loop[m]
  BY <1>1, <1>2
<1>5. /\ history' \in History /\ history'.lost = history.lost \ {l}
      /\ history'.unsaved = history.unsaved /\ history'.fetches = history.fetches
  BY <1>1, <1>2 DEF WellTyped, History
<1>6. WellTyped'
  BY <1>1, <1>2, <1>3, <1>5 DEF WellTyped
<1>7. Fetched' /\ Doing' /\ Saving'
  BY <1>2, <1>5 DEF IInv, Doing, JobOf, Saving, Switching, At, Fetched
<1>8. \A o, x : At(o, x)' <=> At(o, x)
  BY <1>2 DEF At
<1>9. Launches'
  <2>1. \A m \in Loops : loop[m].pc = "entered" => loop'[m] = loop[m]
    BY <1>2, <1>4
  <2> QED BY <1>2, <1>8, <2>1 DEF IInv, Launches
<1>10. Reach'
  BY <1>2, <1>3, <1>4, <1>5 DEF IInv, Reach
<1>11. Bound'
  <2>1. \A m \in Loops : loop'[m].pc # "off" => m # l /\ loop'[m] = loop[m]
    BY <1>3, <1>4
  <2>2. \A m \in Loops : m # l => (m \in history'.lost <=> m \in history.lost)
    BY <1>5
  <2> QED BY <1>2, <1>8, <2>1, <2>2 DEF IInv, Bound
<1>12. Down'
  BY <1>2 DEF IInv, Down
<1> QED BY <1>6, <1>7, <1>9, <1>10, <1>11, <1>12 DEF IInv

\* A goroutine takes any of its steps.
LEMMA LoopStepKeeps == ASSUME IInv, NEW l \in Loops, LoopStep(l) PROVE IInv'
<1>1. WellTyped
  BY DEF IInv
<1>2. UNCHANGED <<net, saved, job, server, tab, cache>> /\ UNCHANGED viewVars
  BY DEF LoopStep, viewVars
<1>3. Runtime("dashboard") \in Claim /\ row \in [status : Statuses, network : Networks]
      /\ claim \in {{}} \cup {{c} : c \in Claim}
  BY <1>1, RuntimeTyped DEF WellTyped
<1> DEFINE Moves == \E pc \in Pcs \ {"off", "entered"} :
                       Move(l, pc) /\ loop[l].pc \notin {"off", "entered"} /\ UNCHANGED <<table, history>>
<1>4. Moves /\ StoreTyped => IInv'
  BY <1>2, LoopMoves
<1>5. CASE Admit(l)
  <2>1. Moves
    BY <1>5 DEF Admit, Pcs
  <2>2. NewClaim("dashboard") \in Claim
    BY DEF NewClaim, Claim
  <2>3. StoreTyped
    BY <1>3, <1>5, <2>2 DEF Admit, StoreTyped
  <2> QED BY <1>4, <2>1, <2>3
<1>6. CASE Load(l)
  <2>1. Moves
    BY <1>6 DEF Load, Pcs
  <2>2. StoreTyped
    BY <1>3, <1>6 DEF Load, StoreTyped
  <2> QED BY <1>4, <2>1, <2>2
<1>7. CASE Cycle(l)
  <2>1. Moves
    BY <1>7 DEF Cycle, Pcs
  <2>2. StoreTyped
    BY <1>3, <1>7 DEF Cycle, StoreTyped, Statuses
  <2> QED BY <1>4, <2>1, <2>2
<1>8. CASE Mark(l)
  <2>1. Moves
    BY <1>8 DEF Mark, Pcs
  <2>2. [Runtime("dashboard") EXCEPT !.fresh = TRUE] \in Claim
    BY <1>3 DEF Claim
  <2>3. StoreTyped
    BY <1>3, <1>8, <2>2 DEF Mark, StoreTyped
  <2> QED BY <1>4, <2>1, <2>3
<1>9. CASE GiveUp(l)
  <2>1. Moves
    BY <1>9 DEF GiveUp, Pcs
  <2>2. StoreTyped
    BY <1>3, <1>9 DEF GiveUp, StoreTyped, Statuses
  <2> QED BY <1>4, <2>1, <2>2
<1>10. CASE Release(l)
  <2>1. Moves
    BY <1>10 DEF Release, Pcs
  <2>2. StoreTyped
    BY <1>3, <1>10 DEF Release, StoreTyped
  <2> QED BY <1>4, <2>1, <2>2
<1>11. CASE Leave(l)
  BY <1>2, <1>11, LeaveKeeps
<1> QED BY <1>5, <1>6, <1>7, <1>8, <1>9, <1>10, <1>11 DEF LoopStep

------------------------------------------------------------------------------
(* The network.                                                               *)

\* A network is chosen; the goroutines of the old one are still to be unlisted.
LEMMA ConfigureKeeps ==
    ASSUME IInv, NEW o \in Operators, Configure(o), UNCHANGED <<row, claim, table, loop, server, viewVars>> PROVE IInv'
<1>1. /\ WellTyped /\ Doing /\ o \in Requests /\ server # "down" /\ job[o] \in Job /\ job[o].todo # <<>>
      /\ Tail(job[o].todo) \in RequestTodo /\ At(o, "configure") /\ \A y : At(o, y) => y = "configure"
  BY RequestGoesOn DEF IInv, Configure
<1>2. PICK n \in Networks :
        /\ net' = n
        /\ job' = [job EXCEPT ![o].todo = IF n = net THEN <<>> ELSE Tail(@), ![o].net = n]
        /\ history' = [history EXCEPT !.unsaved = @ \/ (n # net /\ \E p \in Requests \ {o} : Switching(p))]
  BY DEF Configure
<1>3. UNCHANGED <<row, claim, saved, table, loop, server, tab, cache>>
  BY DEF Configure, viewVars
<1> DEFINE todo == IF n = net THEN <<>> ELSE Tail(job[o].todo)
           j == [job[o] EXCEPT !.todo = todo, !.net = n]
<1>4. todo \in RequestTodo
  BY <1>1 DEF RequestTodo
<1>5. j \in Job /\ j.todo = todo /\ j.net = n
  BY <1>1, <1>4 DEF Job
<1>6. job' = [job EXCEPT ![o] = j]
  BY <1>2
<1> HIDE DEF j
<1>7. /\ \A x \in {"launch", "write", "save"} : ~Awaits(j, x)
      /\ Awaits(j, "unlistAll") <=> n # net
  <2>1. CASE n = net
    BY <1>5, <2>1 DEF Awaits
  <2>2. CASE n # net
    BY <1>1, <1>5, <2>2, Order DEF Awaits
  <2> QED BY <2>1, <2>2
<1>8. /\ job'[o] = j /\ \A p \in Operators : p # o => job'[p] = job[p]
      /\ \A x : At(o, x)' <=> Awaits(j, x)
      /\ \A p \in Operators : p # o => \A x : At(p, x)' <=> At(p, x)
      /\ Switching(o)' <=> Awaits(j, "unlistAll") \/ Awaits(j, "save")
      /\ \A p \in Operators : p # o => (Switching(p)' <=> Switching(p))
  BY <1>1, <1>6, OthersStay DEF Doing
<1>9. /\ history' \in History /\ history'.lost = history.lost
      /\ history'.unsaved = (history.unsaved \/ (n # net /\ \E p \in Requests \ {o} : Switching(p)))
      /\ history'.fetches = history.fetches
  BY <1>1, <1>2 DEF WellTyped, History
<1>10. WellTyped'
  BY <1>1, <1>2, <1>3, <1>9 DEF WellTyped
<1>11. Doing'
  BY <1>1, <1>4, <1>5, <1>6, <1>7, <1>8, DeskAssumption DEF Doing, JobOf
<1>12. Launches'
  <2>1. \A p \in Requests : At(p, "launch")' => p # o /\ At(p, "launch") /\ job'[p] = job[p]
    BY <1>7, <1>8 DEF Operators
  <2> QED BY <1>3, <2>1 DEF IInv, Launches
<1>13. Reach' /\ Fetched'
  BY <1>3, <1>9 DEF IInv, Reach, Fetched
<1>14. Bound'
  <2>1. CASE n # net
    <3>1. At(o, "unlistAll")'
      BY <1>7, <1>8, <2>1
    <3> QED BY <1>1, <3>1 DEF Bound
  <2>2. CASE n = net
    <3>1. \A p \in Requests : At(p, "unlistAll") => At(p, "unlistAll")'
      <4>1. ~At(o, "unlistAll")
        BY <1>1
      <4> QED BY <1>8, <4>1 DEF Operators
    <3> QED BY <1>2, <1>3, <1>9, <2>2, <3>1 DEF IInv, Bound
  <2> QED BY <2>1, <2>2
<1>15. Saving'
  <2>1. ~Switching(o) /\ (Switching(o)' <=> n # net)
    BY <1>1, <1>7, <1>8 DEF Switching
  <2>2. \A p \in Requests : p # o => (Switching(p)' <=> Switching(p)) /\ job'[p] = job[p]
    BY <1>8 DEF Operators
  <2>3. CASE n # net
    <3>1. ~history'.unsaved => \A p \in Requests : p # o => ~Switching(p)'
      BY <1>9, <2>2, <2>3
    <3>2. job'[o].net = net'
      BY <1>2, <1>5, <1>8
    <3> QED BY <1>1, <2>1, <2>3, <3>1, <3>2 DEF Saving
  <2>4. CASE n = net
    <3>1. \A p \in Requests : (Switching(p)' <=> Switching(p)) /\ (Switching(p) => job'[p] = job[p])
      BY <2>1, <2>2, <2>4
    <3> QED BY <1>2, <1>3, <1>9, <2>4, <3>1 DEF IInv, Saving
  <2> QED BY <2>3, <2>4
<1>16. Down'
  BY <1>1, <1>3 DEF Down
<1> QED BY <1>10, <1>11, <1>12, <1>13, <1>14, <1>15, <1>16 DEF IInv

\* The chosen network is written to the file, or is not.
LEMMA SaveConfigKeeps ==
    ASSUME IInv, NEW o \in Operators, SaveConfig(o), UNCHANGED <<row, claim, table, loop, server, viewVars>> PROVE IInv'
<1>1. /\ WellTyped /\ Doing /\ o \in Requests /\ server # "down" /\ job[o] \in Job /\ job[o].todo # <<>>
      /\ Tail(job[o].todo) \in RequestTodo /\ At(o, "save") /\ \A y : At(o, y) => y = "save"
  BY RequestGoesOn DEF IInv, SaveConfig
<1>2. UNCHANGED <<row, claim, net, table, loop, server, tab, cache>>
  BY DEF SaveConfig, viewVars
<1>3. \/ saved' = job[o].net /\ Done(o) /\ history' = history
      \/ Fail(o) /\ saved' = saved /\ history' = [history EXCEPT !.unsaved = TRUE]
  BY DEF SaveConfig
<1>4. PICK j : job' = [job EXCEPT ![o] = j] /\ JobOf(o, j) /\ \A x \in Special : ~Awaits(j, x)
  <2>1. CASE Done(o)
    <3>1. PICK j : /\ job' = [job EXCEPT ![o] = j] /\ j \in Job /\ j.todo = Tail(job[o].todo)
                   /\ (o \in Requests => j.todo \in RequestTodo) /\ (o \in Commands => j.todo \in CommandTodo)
      BY <1>1, <2>1, DoneIs
    <3>2. \A x \in {"launch", "write", "unlistAll", "save"} : ~Awaits(j, x)
      BY <1>1, <3>1, Order DEF Awaits
    <3> QED BY <3>1, <3>2 DEF JobOf, Special
  <2>2. CASE Fail(o)
    BY <1>1, <2>2, FailIs
  <2> QED BY <1>3, <2>1, <2>2
<1>5. /\ job'[o] = j /\ \A p \in Operators : p # o => job'[p] = job[p]
      /\ \A x : At(o, x)' <=> Awaits(j, x)
      /\ \A p \in Operators : p # o => \A x : At(p, x)' <=> At(p, x)
      /\ ~Switching(o)'
      /\ \A p \in Operators : p # o => (Switching(p)' <=> Switching(p))
  BY <1>1, <1>4, OthersStay DEF Doing, JobOf, Special
<1>6. /\ history' \in History /\ history'.lost = history.lost /\ history'.fetches = history.fetches
      /\ ~history'.unsaved => ~history.unsaved /\ saved' = job[o].net
  BY <1>1, <1>3 DEF WellTyped, History
<1>7. job[o].net \in Networks
  BY <1>1 DEF Job
<1>8. WellTyped'
  BY <1>1, <1>2, <1>3, <1>6, <1>7 DEF WellTyped
<1>9. Doing'
  BY <1>1, <1>4, <1>5 DEF Doing, JobOf
<1>10. Launches'
  <2>1. \A p \in Requests : At(p, "launch")' => p # o /\ At(p, "launch") /\ job'[p] = job[p]
    BY <1>4, <1>5 DEF Operators, Special
  <2> QED BY <1>2, <2>1 DEF IInv, Launches
<1>11. Reach' /\ Fetched'
  BY <1>2, <1>6 DEF IInv, Reach, Fetched
<1>12. Bound'
  <2>1. \A p \in Requests : At(p, "unlistAll") => At(p, "unlistAll")'
    <3>1. ~At(o, "unlistAll")
      BY <1>1
    <3> QED BY <1>5, <3>1 DEF Operators
  <2> QED BY <1>2, <1>6, <2>1 DEF IInv, Bound
<1>13. Saving'
  <2>1. SUFFICES ASSUME ~history'.unsaved
                 PROVE  (\A p \in Requests : ~Switching(p)') /\ saved' = net'
    BY DEF Saving
  <2>2. Switching(o)
    BY <1>1 DEF Switching
  <2>3. (\A p \in Requests : Switching(p) => p = o) /\ job[o].net = net
    BY <1>1, <1>6, <2>1, <2>2 DEF IInv, Saving
  <2> QED BY <1>2, <1>5, <1>6, <2>1, <2>3 DEF Operators
<1>14. Down'
  BY <1>1, <1>2 DEF Down
<1> QED BY <1>8, <1>9, <1>10, <1>11, <1>12, <1>13, <1>14 DEF IInv

\* All operations on the network.
LEMMA NetworkCallKeeps == ASSUME IInv, NEW o \in Operators, NetworkCall(o) PROVE IInv'
BY ConfigureKeeps, SaveConfigKeeps DEF NetworkCall

------------------------------------------------------------------------------
(* The process, and those who watch.                                          *)

\* What becomes of streams, cache, heartbeats and the count of fetches
\* concerns neither operators nor goroutines.
LEMMA ViewMoves ==
    ASSUME IInv, UNCHANGED <<row, net, saved, table, loop, job, server>>,
           claim' \in {{}} \cup {{c} : c \in Claim},
           tab' \in [Tabs -> {"idle", "balances", "fetch", "apply"}], cache' \in [fresh : BOOLEAN, filled : BOOLEAN],
           history' \in History, history'.lost = history.lost, history'.unsaved = history.unsaved,
           Fetched'
    PROVE  IInv'
<1>1. WellTyped'
  BY DEF IInv, WellTyped
<1>2. \A o, x : At(o, x)' <=> At(o, x)
  BY DEF At
<1>3. Doing' /\ Launches' /\ Reach' /\ Down'
  BY <1>2 DEF IInv, Doing, JobOf, Launches, Reach, Down
<1>4. Bound'
  BY <1>2 DEF IInv, Bound
<1>5. Saving'
  <2>1. \A o : Switching(o)' <=> Switching(o)
    BY <1>2 DEF Switching
  <2> QED BY <2>1 DEF IInv, Saving
<1> QED BY <1>1, <1>3, <1>4, <1>5 DEF IInv

\* A browser is served the overview.
LEMMA ViewStepKeeps == ASSUME IInv, NEW t \in Tabs, ViewStep(t) PROVE IInv'
<1>1. WellTyped /\ Fetched
  BY DEF IInv
<1>2. UNCHANGED <<row, claim, net, saved, table, loop, job, server>>
  BY DEF ViewStep, controlVars
<1>3. tab' \in [Tabs -> {"idle", "balances", "fetch", "apply"}]
  BY <1>1 DEF WellTyped, ViewStep, Overview, MarkCache, Merge, Apply, View
<1>4. cache' \in [fresh : BOOLEAN, filled : BOOLEAN]
  BY <1>1 DEF WellTyped, ViewStep, Overview, MarkCache, Merge, Apply
<1>5. \/ history' = history /\ (cache' = cache \/ cache' = [cache EXCEPT !.filled = TRUE])
      \/ /\ ~cache.fresh /\ cache' = [cache EXCEPT !.fresh = TRUE]
         /\ history' = [history EXCEPT !.fetches = @ + 1]
  BY DEF ViewStep, Overview, MarkCache, Merge, Apply
<1>6. history' \in History /\ history'.lost = history.lost /\ history'.unsaved = history.unsaved /\ Fetched'
  BY <1>1, <1>5 DEF WellTyped, History, Fetched
<1> QED BY <1>1, <1>2, <1>3, <1>4, <1>6, ViewMoves DEF WellTyped

\* The balances in the cache grow old.
LEMMA ExpireKeeps == ASSUME IInv, Expire PROVE IInv'
<1>1. WellTyped /\ Fetched
  BY DEF IInv
<1>2. UNCHANGED <<row, claim, net, saved, table, loop, job, server, tab>>
  BY DEF Expire, controlVars
<1> DEFINE h == history  c == cache
<1>h. h \in History /\ c \in [fresh : BOOLEAN, filled : BOOLEAN]
  BY <1>1 DEF WellTyped
<1>e. history' = [h EXCEPT !.fetches = 0] /\ cache' = [c EXCEPT !.fresh = FALSE]
  BY DEF Expire
<1>3. /\ cache' \in [fresh : BOOLEAN, filled : BOOLEAN] /\ history' \in History /\ history'.lost = history.lost
      /\ history'.unsaved = history.unsaved /\ history'.fetches = 0
  <2>1. cache' \in [fresh : BOOLEAN, filled : BOOLEAN]
    BY <1>h, <1>e
  <2>2. /\ history' \in History /\ history'.lost = h.lost
        /\ history'.unsaved = h.unsaved /\ history'.fetches = 0
    <3> HIDE DEF h
    <3> QED BY <1>h, <1>e DEF History
  <2> QED BY <2>1, <2>2
<1>4. Fetched'
  BY <1>3 DEF Fetched
<1> QED BY <1>1, <1>2, <1>3, <1>4, ViewMoves DEF WellTyped

\* The claim of a process that is gone grows old.
LEMMA LapseKeeps == ASSUME IInv, Lapse PROVE IInv'
<1>1. WellTyped /\ Fetched
  BY DEF IInv
<1>2. UNCHANGED <<row, net, saved, table, loop, job, server, tab, cache, history>>
  BY DEF Lapse, viewVars
<1>3. PICK c \in claim : claim' = {[c EXCEPT !.fresh = FALSE]}
  BY DEF Lapse
<1>4. [c EXCEPT !.fresh = FALSE] \in Claim
  <2>1. c \in Claim
    BY <1>1 DEF WellTyped
  <2> QED BY <2>1 DEF Claim
<1>5. Fetched'
  BY <1>1, <1>2 DEF Fetched
<1> QED BY <1>1, <1>2, <1>3, <1>4, <1>5, ViewMoves DEF WellTyped

\* A signal asks the server to end.
LEMMA InterruptKeeps == ASSUME IInv, Interrupt PROVE IInv'
<1>1. WellTyped /\ Doing
  BY DEF IInv
<1>2. /\ UNCHANGED <<row, claim, net, saved, job, tab, cache, history>> /\ server = "up" /\ server' = "draining"
      /\ loop' = Canceled({table}) /\ table' = NoLoop
  BY DEF Interrupt, viewVars
<1>3. /\ loop' \in [Loops -> Loop]
      /\ \A l \in Loops : loop'[l].pc = loop[l].pc /\ loop'[l].net = loop[l].net
                          /\ (~loop'[l].canceled => ~loop[l].canceled /\ l # table)
  BY <1>1, <1>2, CanceledIs
<1>4. WellTyped'
  BY <1>1, <1>2, <1>3 DEF WellTyped
<1>5. Doing' /\ Fetched' /\ Down'
  BY <1>2 DEF IInv, Doing, JobOf, Fetched, Down
<1>6. \A o, x : At(o, x)' <=> At(o, x)
  BY <1>2 DEF At
<1>7. Launches'
  BY <1>2, <1>3, <1>6 DEF IInv, Launches
<1>8. \A l \in Loops : loop'[l].pc # "off" /\ ~loop'[l].canceled => l \in history.lost
  BY <1>3 DEF IInv, Reach
<1>9. Reach' /\ Bound'
  BY <1>2, <1>8 DEF Reach, Bound
<1>10. Saving'
  <2>1. \A o : Switching(o)' <=> Switching(o)
    BY <1>6 DEF Switching
  <2> QED BY <1>2, <2>1 DEF IInv, Saving
<1> QED BY <1>4, <1>5, <1>7, <1>9, <1>10 DEF IInv

\* The process ends and its memory with it.
LEMMA EndKeeps == ASSUME IInv, End PROVE IInv'
<1>1. WellTyped /\ Doing
  BY DEF IInv
<1>2. /\ UNCHANGED <<row, net, saved>> /\ server' = "down" /\ table' = NoLoop
      /\ loop' = [l \in Loops |-> NoLoopYet]
      /\ job' = [o \in Operators |-> IF o \in Requests THEN Free ELSE job[o]]
      /\ tab' = [t \in Tabs |-> "idle"]
      /\ cache' = [fresh |-> FALSE, filled |-> FALSE]
      /\ claim' = {[c EXCEPT !.pid = IF @ = "dashboard" THEN "other" ELSE @] : c \in claim}
  BY DEF End
<1>3. history' \in History /\ history'.lost = {} /\ history'.fetches = 0
  <2> DEFINE U == history.unsaved \/ \E o \in Requests : Switching(o)
  <2>1. history' = [history EXCEPT !.ends = @ + 1, !.lost = {}, !.fetches = 0, !.unsaved = U]
    BY DEF End
  <2>2. U \in BOOLEAN
    OBVIOUS
  <2> HIDE DEF U
  <2>3. history \in History
    BY <1>1 DEF WellTyped
  <2>4. history.ends + 1 \in Nat /\ history.jobs \in Nat
    BY <2>3 DEF History
  <2> DEFINE e == history.ends + 1
  <2>5. history' = [history EXCEPT !.ends = e, !.lost = {}, !.fetches = 0, !.unsaved = U] /\ e \in Nat
    BY <2>1, <2>4
  <2> HIDE DEF e
  <2> QED BY <2>2, <2>3, <2>5 DEF History
<1>4. claim' \in {{}} \cup {{c} : c \in Claim}
  <2> DEFINE Taken(c) == [c EXCEPT !.pid = IF @ = "dashboard" THEN "other" ELSE @]
  <2>1. \A c \in Claim : Taken(c) \in Claim
    BY DEF Claim
  <2>2. claim' = {Taken(c) : c \in claim}
    BY <1>2
  <2> HIDE DEF Taken
  <2>3. CASE claim = {}
    BY <2>2, <2>3
  <2>4. ASSUME NEW c \in Claim, claim = {c} PROVE claim' = {Taken(c)}
    BY <2>2, <2>4
  <2> QED BY <1>1, <2>1, <2>3, <2>4 DEF WellTyped
<1>5. NoLoopYet \in Loop /\ NoLoopYet.pc = "off"
  BY DeskAssumption DEF NoLoopYet, Loop, Pcs
<1>6. WellTyped'
  BY <1>1, <1>2, <1>3, <1>4, <1>5 DEF WellTyped
<1>7. Free \in Job /\ Free.todo = <<>> /\ <<>> \in RequestTodo
  BY DeskAssumption DEF Free, Job, RequestTodo
<1>8. /\ \A o \in Requests : job'[o] = Free
      /\ \A o \in Operators \ Requests : job'[o] = job[o]
      /\ job' \in [Operators -> Job]
  BY <1>1, <1>2, <1>7 DEF Operators, Doing
<1>9. Doing'
  BY <1>1, <1>7, <1>8, DeskAssumption DEF Doing, JobOf, Awaits
<1>10. \A o \in Requests : \A x : ~At(o, x)'
  BY <1>7, <1>8 DEF At
<1>11. Launches'
  BY <1>10 DEF Launches
<1>12. \A l \in Loops : loop'[l].pc = "off"
  BY <1>2, <1>5
<1>13. Reach' /\ Bound'
  BY <1>12 DEF Reach, Bound
<1>14. Saving' /\ Down'
  BY <1>2, <1>7, <1>8, <1>12 DEF Saving, Down
<1>15. Fetched'
  BY <1>2, <1>3 DEF Fetched
<1> QED BY <1>6, <1>9, <1>11, <1>13, <1>14, <1>15 DEF IInv

\* The server starts from the file and finds the table empty.
LEMMA RestartKeeps == ASSUME IInv, Restart PROVE IInv'
<1>1. WellTyped /\ Doing
  BY DEF IInv
<1>2. /\ UNCHANGED <<row, claim, saved, table, loop, job, tab, cache>>
      /\ server = "down" /\ server' = "up" /\ net' = saved /\ history' = [history EXCEPT !.unsaved = FALSE]
  BY DEF Restart, viewVars
<1>3. /\ history' \in History /\ history'.lost = history.lost /\ history'.fetches = history.fetches
  BY <1>1, <1>2 DEF WellTyped, History
<1>4. WellTyped'
  BY <1>1, <1>2, <1>3 DEF WellTyped
<1>5. \A o, x : At(o, x)' <=> At(o, x)
  BY <1>2 DEF At
<1>6. Doing' /\ Reach' /\ Fetched' /\ Down'
  BY <1>2, <1>3 DEF IInv, Doing, JobOf, Reach, Fetched, Down
<1>7. Launches'
  BY <1>2, <1>5 DEF IInv, Launches
<1>8. \A l \in Loops : loop'[l].pc = "off"
  BY <1>2 DEF IInv, Down
<1>9. Bound'
  BY <1>8 DEF Bound
<1>10. Saving'
  <2>1. \A o \in Requests : ~Switching(o)'
    BY <1>2 DEF IInv, Down, Switching, At
  <2> QED BY <1>2, <2>1 DEF Saving
<1> QED BY <1>4, <1>6, <1>7, <1>9, <1>10 DEF IInv

------------------------------------------------------------------------------
(* What holds of the shared row.                                              *)

\* The server as it starts first.
LEMMA InitIInv == Init => IInv
<1> SUFFICES ASSUME Init PROVE IInv
  OBVIOUS
<1>1. Home \in Networks /\ NoLoop \notin Loops
  BY DeskAssumption
<1>2. NoLoopYet \in Loop /\ NoLoopYet.pc = "off" /\ \A l \in Loops : loop[l] = NoLoopYet
  BY <1>1 DEF Init, NoLoopYet, Loop, Pcs
<1>3. Free \in Job /\ Free.todo = <<>> /\ <<>> \in RequestTodo /\ <<>> \in CommandTodo /\ \A o \in Operators : job[o] = Free
  BY <1>1 DEF Init, Free, Job, RequestTodo, CommandTodo
<1>4. history \in History /\ history.fetches = 0
  BY DEF Init, History
<1>5. WellTyped
  BY <1>1, <1>2, <1>4 DEF Init, WellTyped, Statuses
<1>6. Doing
  BY <1>3 DEF Init, Doing, JobOf, Awaits
<1>7. Launches /\ Reach /\ Bound /\ Down
  BY <1>2, <1>3 DEF Init, Launches, Reach, Bound, Down, At, Operators
<1>8. Saving /\ Fetched
  BY <1>3, <1>4 DEF Init, Saving, Fetched, Switching, At, Operators
<1> QED BY <1>5, <1>6, <1>7, <1>8 DEF IInv

\* Every step keeps the invariant.
LEMMA NextKeeps == IInv /\ [Next]_vars => IInv'
<1> SUFFICES ASSUME IInv, [Next]_vars PROVE IInv'
  OBVIOUS
<1>1. CASE \E o \in Operators : Begin(o) \/ JobStep(o)
  BY <1>1, BeginKeeps, ServiceCallKeeps, RunnerCallKeeps, NetworkCallKeeps DEF JobStep
<1>2. CASE \E l \in Loops : LoopStep(l)
  BY <1>2, LoopStepKeeps
<1>3. CASE \E t \in Tabs : ViewStep(t)
  BY <1>3, ViewStepKeeps
<1>4. CASE Kill \/ MapRace \/ Shutdown
  BY <1>4, EndKeeps DEF Kill, MapRace, Shutdown
<1>5. CASE Expire \/ Interrupt \/ Restart \/ Lapse
  BY <1>5, ExpireKeeps, InterruptKeeps, RestartKeeps, LapseKeeps
<1>6. CASE UNCHANGED vars
  <2>1. UNCHANGED <<row, claim, net, saved, table, loop, job, server, tab, cache, history>>
    BY <1>6 DEF vars, controlVars, viewVars
  <2>2. WellTyped /\ Fetched'
    BY <2>1 DEF IInv, Fetched
  <2> QED BY <2>1, <2>2, ViewMoves DEF WellTyped
<1> QED BY <1>1, <1>2, <1>3, <1>4, <1>5, <1>6 DEF Next

\* The inductive invariant holds in every reachable state.
THEOREM Invariance == Spec => []IInv
<1>1. Init => IInv
  BY InitIInv
<1>2. IInv /\ [Next]_vars => IInv'
  BY NextKeeps
<1> QED BY <1>1, <1>2, PTL DEF Spec

\* Whatever starts, stops and changes of network interleave, a goroutine that
\* runs can be canceled, and a change of network is about to cancel it when it
\* runs for another one; but for one over which another was entered.
THEOREM RunnersAlwaysInReach == Spec => []RunnersInReach
<1>1. IInv => RunnersInReach
  <2>1. IInv => LoopsAreListed
    BY DEF IInv, Reach, LoopsAreListed
  <2>2. IInv => BoundToNetwork
    BY DEF IInv, Bound, BoundToNetwork, Operators
  <2> QED BY <2>1, <2>2 DEF RunnersInReach
<1> QED BY <1>1, Invariance, PTL

\* The server's state is well formed, its network is the saved one unless a
\* write failed or changes ran into each other, and the balances are fetched
\* once per window, however many operators, goroutines and browsers there are.
THEOREM DeskAlwaysConsistent == Spec => []DeskConsistent
<1>1. IInv => DeskConsistent
  <2> SUFFICES ASSUME IInv PROVE DeskConsistent
    OBVIOUS
  <2>1. TypeOK
    BY DEF IInv, WellTyped, Doing, TypeOK, Loop, Pcs
  <2>2. SwitchIsSaved
    BY DEF IInv, Saving, SwitchIsSaved, Operators
  <2>3. OneFetchPerWindow
    BY DEF IInv, Fetched, OneFetchPerWindow
  <2> QED BY <2>1, <2>2, <2>3 DEF DeskConsistent
<1> QED BY <1>1, Invariance, PTL

\* A deleted strategy comes back only by the hand of one who had read it.
THEOREM DeletedStaysDeleted == Spec => DeletedForGood
<1>1. WellTyped /\ [Next]_vars => [row.status = "gone" /\ ~InFlight => row'.status = "gone"]_vars
  <2> SUFFICES ASSUME WellTyped, Next, row.status = "gone", ~InFlight PROVE row'.status = "gone"
    OBVIOUS
  <2>1. row \in [status : Statuses, network : Networks] /\ ~Exists
    BY DEF WellTyped, Exists
  <2>2. ASSUME NEW o \in Operators, ServiceCall(o) PROVE row'.status = "gone"
    <3>1. ~At(o, "describe") /\ ~At(o, "hold") /\ ~At(o, "write")
      BY DEF InFlight
    <3>2. row' = row \/ row' = [row EXCEPT !.status = "gone"]
      BY <2>1, <2>2, <3>1 DEF ServiceCall, StartStrategy, PauseStrategy, StopStrategy, KillSwitch, ClearKillSwitch,
                              Insert, RunOnce, DeleteStrategy, StoreUnchanged
    <3> QED BY <2>1, <3>2
  <2>3. ASSUME NEW l \in Loops, LoopStep(l) PROVE row' = row
    <3>1. loop[l].pc # "cycle" /\ loop[l].pc # "giveUp"
      BY DEF InFlight
    <3> QED BY <2>3, <3>1 DEF LoopStep, Admit, Load, Cycle, Mark, GiveUp, Release, Leave, StoreUnchanged
  <2>4. ASSUME NEW o \in Operators, Begin(o) \/ RunnerCall(o) \/ NetworkCall(o) PROVE row' = row
    BY <2>4 DEF Begin, RunnerCall, TableIsFree, MayRun, EnterRunner, LaunchRunner, StopRunner, NetworkCall, StoreUnchanged
  <2>5. CASE (\E t \in Tabs : ViewStep(t)) \/ Expire \/ Kill \/ MapRace \/ Interrupt \/ Shutdown \/ Restart \/ Lapse
    BY <2>5 DEF ViewStep, Expire, Kill, MapRace, End, Interrupt, Shutdown, Restart, Lapse, controlVars
  <2> QED BY <2>2, <2>3, <2>4, <2>5 DEF Next, JobStep
<1>2. IInv => WellTyped
  BY DEF IInv
<1> QED BY <1>1, <1>2, Invariance, PTL DEF Spec, DeletedForGood

------------------------------------------------------------------------------
(* The orders of a strategy that the desk runs, reconciled with the offers of *)
(* the account: what its statistics count, for any ladder of finitely many    *)
(* orders and whatever goes wrong.                                            *)
(*                                                                            *)
(* Every recorded fill is of a trade and every execution of a fill, and the   *)
(* total counts executions, in the row, in the copy of a cycle and in the     *)
(* copies that other commands will write back (Counted).  A cardinality means *)
(* something only of a finite set: an order of the plan that creates offers   *)
(* is one of the finitely many of the ladder (Sent), so a transaction makes   *)
(* finitely many trades.                                                      *)

CONSTANTS Intents, Side, Level, Offset, MakerOnly, Prices, MaxPrice, Amount, FundModes, CancelOrphans, MaxOpenTrades,
          FaultModes, NoOffer, Manual, MaxOffers, MaxTrades, MaxMoves, MaxMishaps
VARIABLES faults, price, moves, mishaps, offers, created, balance, inflight, trades, managed, fills, executions, total,
          cycle, command

Offers == INSTANCE OfferReconciliation

\* The instance has its own copy of the standard module.
LEMMA SameSizes == \A S : (Offers!IsFiniteSet(S) <=> IsFiniteSet(S)) /\ Offers!Cardinality(S) = Cardinality(S)
<1>1. ASSUME NEW S PROVE Offers!IsFiniteSet(S) <=> IsFiniteSet(S)
  BY DEF Offers!IsFiniteSet, IsFiniteSet
<1>2. ASSUME NEW S PROVE Offers!Cardinality(S) = Cardinality(S)
  BY DEF Offers!Cardinality, Cardinality
<1> QED BY <1>1, <1>2

LEMMA FinitelyMany == ASSUME Offers!LadderAssumption PROVE IsFiniteSet(Intents)
BY SameSizes DEF Offers!LadderAssumption

\* The orders to create among the actions of a plan.
Bounded(actions) == IsFiniteSet(Offers!Creates(actions))

Undisturbed == "crash" \notin faults /\ "edit" \notin faults

Counted ==
    /\ IsFiniteSet(trades) /\ total \in Offers!Totals
    /\ fills \subseteq trades /\ executions \subseteq fills
    /\ total.row <= Cardinality(executions) /\ total.cycle <= Cardinality(executions)
    /\ \A n \in total.edits : n <= Cardinality(executions)
    /\ "crash" \notin faults => fills = executions
    /\ Undisturbed => total.edits = {} /\ total.cycle = total.row /\ total.row = Cardinality(fills)

Sent ==
    /\ DOMAIN cycle = DOMAIN Offers!Idle /\ DOMAIN cycle.desired \subseteq Intents
    /\ Bounded(cycle.actions)
    /\ \A tx \in inflight : DOMAIN tx = {"next", "actions", "for"} /\ Bounded(tx.actions)

LEMMA Part ==
    ASSUME NEW S, IsFiniteSet(S), NEW T, T \subseteq S
    PROVE  IsFiniteSet(T) /\ Cardinality(T) \in Nat /\ Cardinality(T) <= Cardinality(S)
BY FS_Subset, FS_CardinalityType

\* Counting apart what is new.
LEMMA Added ==
    ASSUME NEW S, NEW A, NEW B, IsFiniteSet(S), A \subseteq S, B \subseteq S, A \cap B = {}
    PROVE  Cardinality(A \cup B) = Cardinality(A) + Cardinality(B)
<1>1. IsFiniteSet(A) /\ IsFiniteSet(B)
  BY Part
<1>2. Cardinality(A) \in Nat /\ Cardinality(B) \in Nat /\ Cardinality({}) = 0
  BY <1>1, FS_CardinalityType, FS_EmptySet
<1>3. Cardinality(A \cup B) = Cardinality(A) + Cardinality(B) - Cardinality(A \cap B)
  BY <1>1, FS_Union
<1>4. Cardinality(A \cap B) = 0
  BY <1>2, Zenon
<1> QED BY <1>2, <1>3, <1>4

LEMMA NothingCreated == Bounded({}) /\ \A S : Offers!Creates(S) = {} => Bounded(S)
BY FS_EmptySet DEF Bounded, Offers!Creates

LEMMA OneCreated == \A a : Bounded({a})
<1> SUFFICES ASSUME NEW a PROVE Bounded({a})
  OBVIOUS
<1>1. Offers!Creates({a}) \subseteq {a}
  BY DEF Offers!Creates
<1> QED BY <1>1, FS_Singleton, Part DEF Bounded

LEMMA Quiet ==
    ASSUME Counted, UNCHANGED <<trades, fills, executions, total, faults>>
    PROVE  Counted'
BY DEF Counted, Undisturbed

LEMMA SyncFillsCounts == ASSUME Counted, Offers!SyncFills PROVE Counted'
<1>1. Offers!NewFills \subseteq trades \ fills
  BY DEF Offers!NewFills
<1>2. /\ Offers!NewFills \cap executions = {} /\ executions \subseteq trades /\ Offers!NewFills \subseteq trades
      /\ Offers!NewFills \cap fills = {}
  BY <1>1 DEF Counted
<1>3. Cardinality(executions \cup Offers!NewFills) = Cardinality(executions) + Cardinality(Offers!NewFills)
  BY <1>2, Added DEF Counted
<1>4. Cardinality(fills \cup Offers!NewFills) = Cardinality(fills) + Cardinality(Offers!NewFills)
  BY <1>2, Added DEF Counted
<1>5. Cardinality(Offers!NewFills) \in Nat /\ Cardinality(executions) \in Nat /\ Cardinality(fills) \in Nat
  BY <1>2, Part DEF Counted
<1>6. PICK n, count : n = Cardinality(Offers!NewFills) /\ count = total.cycle + n
  OBVIOUS
<1>7. fills' \subseteq trades' /\ executions' \subseteq fills' /\ IsFiniteSet(trades')
  BY <1>2 DEF Offers!SyncFills, Counted, Offers!ledgerVars
<1>8. faults' = faults /\ fills' = fills \cup Offers!NewFills /\ executions' = executions \cup Offers!NewFills
  BY DEF Offers!SyncFills, Offers!envVars
<1>9. \/ total' = total /\ n = 0
      \/ total' = [row |-> count, cycle |-> count, edits |-> total.edits]
  <2>1. \/ total' = total /\ Offers!NewFills = {}
        \/ total' = [[total EXCEPT !.cycle = count] EXCEPT !.row = count]
    BY <1>6, SameSizes DEF Offers!SyncFills, Offers!WithRow
  <2>2. total \in Offers!Totals
    BY DEF Counted
  <2>3. Offers!NewFills = {} => n = 0
    BY <1>6, FS_EmptySet
  <2> QED BY <2>1, <2>2, <2>3 DEF Offers!Totals
<1>10. n \in Nat /\ count \in Nat /\ total.row \in Nat /\ total.edits \in SUBSET Nat /\ total.cycle \in Nat
  BY <1>5, <1>6 DEF Counted, Offers!Totals
<1>11. Cardinality(executions') = Cardinality(executions) + n /\ Cardinality(fills') = Cardinality(fills) + n
  BY <1>3, <1>4, <1>6, <1>8
<1>12. /\ total' \in Offers!Totals /\ total'.row <= Cardinality(executions') /\ total'.cycle <= Cardinality(executions')
       /\ \A m \in total'.edits : m <= Cardinality(executions')
  <2>1. /\ total \in Offers!Totals /\ total.row <= Cardinality(executions) /\ total.cycle <= Cardinality(executions)
        /\ \A m \in total.edits : m <= Cardinality(executions)
    BY DEF Counted
  <2>2. CASE total' = total
    BY <1>5, <1>10, <1>11, <2>1, <2>2
  <2>3. CASE total' = [row |-> count, cycle |-> count, edits |-> total.edits]
    <3>1. count <= Cardinality(executions')
      BY <1>5, <1>6, <1>10, <1>11, <2>1
    <3>2. \A m \in total.edits : m <= Cardinality(executions')
      BY <1>5, <1>10, <1>11, <2>1
    <3> QED BY <1>10, <2>3, <3>1, <3>2 DEF Offers!Totals
  <2> QED BY <1>9, <2>2, <2>3
<1>13. "crash" \notin faults' => fills' = executions'
  BY <1>8 DEF Counted
<1>14. Undisturbed => total'.edits = {} /\ total'.cycle = total'.row /\ total'.row = Cardinality(fills')
  <2> SUFFICES ASSUME Undisturbed PROVE total'.edits = {} /\ total'.cycle = total'.row /\ total'.row = Cardinality(fills')
    OBVIOUS
  <2>1. total.edits = {} /\ total.cycle = total.row /\ total.row = Cardinality(fills)
    BY DEF Counted
  <2>2. CASE total' = total /\ n = 0
    BY <1>5, <1>11, <2>1, <2>2
  <2>3. CASE total' = [row |-> count, cycle |-> count, edits |-> total.edits]
    BY <1>6, <1>11, <2>1, <2>3
  <2> QED BY <1>9, <2>2, <2>3
<1> QED BY <1>7, <1>8, <1>12, <1>13, <1>14 DEF Counted, Undisturbed

\* A copy of the row is written back, or read: it never counts what is not recorded.
LEMMA CopyCounts ==
    ASSUME Counted, UNCHANGED <<trades, fills, executions, faults>>,
           \/ total' = [total EXCEPT !.cycle = total.row]
           \/ total' = Offers!WithRow(total, total.cycle)
           \/ ~Undisturbed /\ total' = [total EXCEPT !.edits = @ \cup {total.row}]
           \/ \E n \in total.edits : total' = Offers!WithRow([total EXCEPT !.edits = @ \ {n}], n)
    PROVE  Counted'
<1>1. /\ total \in Offers!Totals /\ total.row \in Nat /\ total.cycle \in Nat /\ total.edits \in SUBSET Nat
      /\ total.row <= Cardinality(executions) /\ total.cycle <= Cardinality(executions)
      /\ \A n \in total.edits : n <= Cardinality(executions)
      /\ Undisturbed => total.edits = {} /\ total.cycle = total.row /\ total.row = Cardinality(fills)
  BY DEF Counted, Offers!Totals
<1>2. PICK r, c, e : total' = [row |-> r, cycle |-> c, edits |-> e]
                     /\ \/ r = total.row /\ c = total.row /\ e = total.edits
                        \/ r = total.cycle /\ c = total.cycle /\ e = total.edits
                        \/ ~Undisturbed /\ r = total.row /\ c = total.cycle /\ e = total.edits \cup {total.row}
                        \/ r \in total.edits /\ c = total.cycle /\ e \subseteq total.edits
  BY <1>1 DEF Offers!Totals, Offers!WithRow
<1>3. /\ r \in Nat /\ c \in Nat /\ e \in SUBSET Nat
      /\ r <= Cardinality(executions) /\ c <= Cardinality(executions) /\ \A n \in e : n <= Cardinality(executions)
      /\ Undisturbed => e = {} /\ c = r /\ r = Cardinality(fills)
  BY <1>1, <1>2
<1>4. /\ total' \in Offers!Totals /\ total'.row = r /\ total'.cycle = c /\ total'.edits = e
  BY <1>2, <1>3 DEF Offers!Totals
<1> QED BY <1>3, <1>4 DEF Counted, Undisturbed

\* The process stops between any two fills: what is saved is saved, the count is not.
LEMMA CrashCounts == ASSUME Counted, Offers!Crash PROVE Counted'
<1>1. UNCHANGED <<faults, trades, total>> /\ "crash" \in faults
  BY DEF Offers!Crash, Offers!ledgerVars
<1>2. /\ fills \subseteq fills' /\ executions \subseteq executions'
      /\ executions' \subseteq fills' /\ fills' \subseteq trades
  <2>1. CASE UNCHANGED <<fills, executions>>
    BY <2>1 DEF Counted
  <2>2. CASE \E done \in SUBSET Offers!NewFills : \E cut \in SUBSET (Offers!NewFills \ done) :
                fills' = fills \cup done \cup cut /\ executions' = executions \cup done
    BY <2>2 DEF Counted, Offers!NewFills
  <2> QED BY <2>1, <2>2 DEF Offers!Crash, Offers!CutFills
<1>3. Cardinality(executions) \in Nat /\ Cardinality(executions') \in Nat
      /\ Cardinality(executions) <= Cardinality(executions')
  <2>1. executions' \subseteq trades
    BY <1>2
  <2>2. IsFiniteSet(executions')
    BY <2>1, Part DEF Counted
  <2> QED BY <1>2, <2>2, Part
<1>4. /\ total' = total /\ total.row <= Cardinality(executions') /\ total.cycle <= Cardinality(executions')
      /\ \A n \in total.edits : n <= Cardinality(executions')
  <2>1. total.row \in Nat /\ total.cycle \in Nat /\ total.edits \in SUBSET Nat
    BY DEF Counted, Offers!Totals
  <2> QED BY <1>1, <1>3, <2>1 DEF Counted
<1> QED BY <1>1, <1>2, <1>4 DEF Counted, Undisturbed

LEMMA FillCounts == ASSUME Counted, NEW o, NEW n, Offers!Fill(o, n) PROVE Counted'
<1>1. UNCHANGED <<fills, executions, total, faults>> /\ \E t : trades' = trades \cup {t}
  BY DEF Offers!Fill, Offers!storeVars, Offers!envVars
<1>2. IsFiniteSet(trades') /\ trades \subseteq trades'
  BY <1>1, FS_AddElement DEF Counted
<1> QED BY <1>1, <1>2 DEF Counted, Undisturbed

LEMMA ExecuteCounts == ASSUME Counted, Sent, NEW tx, Offers!Execute(tx) PROVE Counted'
<1>1. UNCHANGED <<fills, executions, total, faults>>
  BY DEF Offers!Execute, Offers!storeVars, Offers!envVars
<1>2. PICK taken \in SUBSET Offers!Creates(tx.actions) :
          trades' = trades \cup {[offer |-> <<a.intent, 0>>, nr |-> created[a.intent]] : a \in taken}
  BY DEF Offers!Execute
<1>3. IsFiniteSet(taken)
  BY Part DEF Sent, Bounded, Offers!Execute
<1>4. IsFiniteSet({[offer |-> <<a.intent, 0>>, nr |-> created[a.intent]] : a \in taken})
  <2> DEFINE new == {[offer |-> <<a.intent, 0>>, nr |-> created[a.intent]] : a \in taken}
  <2>1. [a \in taken |-> [offer |-> <<a.intent, 0>>, nr |-> created[a.intent]]] \in Surjection(taken, new)
    BY DEF Surjection
  <2> QED BY <2>1, <1>3, FS_Surjection
<1>5. IsFiniteSet(trades') /\ trades \subseteq trades'
  BY <1>2, <1>4, FS_Union DEF Counted
<1> QED BY <1>1, <1>5 DEF Counted, Undisturbed

LEMMA SameCycle ==
    ASSUME Sent, cycle' = cycle,
           \A tx \in inflight' : DOMAIN tx = {"next", "actions", "for"} /\ Bounded(tx.actions)
    PROVE  Sent'
BY DEF Sent, Bounded, Offers!Creates

LEMMA SameSent ==
    ASSUME Sent, inflight' = inflight, DOMAIN cycle' = DOMAIN Offers!Idle,
           cycle'.desired = cycle.desired \/ DOMAIN cycle'.desired \subseteq Intents,
           Bounded(cycle'.actions)
    PROVE  Sent'
BY DEF Sent, Bounded, Offers!Creates

LEMMA IdleSends == DOMAIN Offers!Idle = {"pc", "desired", "spendable", "live", "actions", "records", "answer", "ids"}
                   /\ DOMAIN Offers!Idle.desired \subseteq Intents /\ Bounded(Offers!Idle.actions)
BY NothingCreated DEF Offers!Idle

\* What is sent by the code: the operations of a plan, or of a command or a hand.
LEMMA PlanSends == ASSUME Offers!LadderAssumption, Sent, NEW id, Offers!PlanWith(id), inflight' = inflight PROVE Sent'
<1> DEFINE unwanted == {i \in Intents \ Offers!Desired : managed[i].offer # NoOffer}
           plan  == Offers!Plan(id)
           owned == {managed[i].offer : i \in Intents} \cup {id[i] : i \in Offers!Desired}
           orphans == IF CancelOrphans THEN (DOMAIN cycle.live) \ owned ELSE {}
           cancels == {[kind |-> "cancel", intent |-> NoOffer, offer |-> o,
                        price |-> cycle.live[o].price, turn |-> 2 * Offers!Afterwards] : o \in orphans}
           actions == (UNION {plan[i].actions : i \in DOMAIN plan}) \cup cancels
           wanted == {Offers!Op("create", i, NoOffer, Offers!Refreshed(i).price) : i \in Offers!Desired}
<1>0. plan = [i \in Offers!Desired \cup unwanted |->
                IF i \in Offers!Desired THEN Offers!PlanDesired(i, id[i]) ELSE Offers!PlanUnwanted(i)]
  BY DEF Offers!Plan
<1>1. cycle'.actions = actions /\ cycle'.desired = cycle.desired /\ DOMAIN cycle' = DOMAIN Offers!Idle
  BY DEF Offers!PlanWith, Sent, Offers!Idle
<1>2. \A i \in Offers!Desired : Offers!Creates(Offers!PlanDesired(i, id[i]).actions) \subseteq wanted
  BY DEF Offers!PlanDesired, Offers!Creates, Offers!Replace, Offers!Op
<1>3. \A i \in unwanted : Offers!Creates(Offers!PlanUnwanted(i).actions) = {}
  BY DEF Offers!PlanUnwanted, Offers!Creates
<1>4. Offers!Creates(actions) \subseteq wanted
  <2> SUFFICES ASSUME NEW a \in Offers!Creates(actions) PROVE a \in wanted
    OBVIOUS
  <2>1. a.kind = "create" /\ a \in actions
    BY DEF Offers!Creates
  <2>2. PICK i \in DOMAIN plan : a \in plan[i].actions
    <3>1. a \notin cancels
      BY <2>1
    <3> HIDE DEF plan, cancels
    <3> QED BY <2>1, <3>1
  <2>3. CASE i \in Offers!Desired
    BY <1>0, <2>1, <2>2, <2>3, <1>2 DEF Offers!Creates
  <2>4. CASE i \notin Offers!Desired
    BY <1>0, <2>1, <2>2, <2>4, <1>3 DEF Offers!Creates
  <2> QED BY <2>3, <2>4
<1>5. IsFiniteSet(wanted)
  <2>1. IsFiniteSet(Offers!Desired)
    BY FinitelyMany, Part DEF Offers!Desired, Sent
  <2>2. [i \in Offers!Desired |-> Offers!Op("create", i, NoOffer, Offers!Refreshed(i).price)] \in Surjection(Offers!Desired, wanted)
    BY DEF Surjection
  <2> QED BY <2>1, <2>2, FS_Surjection
<1>6. Bounded(actions)
  BY <1>4, <1>5, Part DEF Bounded
<1> HIDE DEF actions
<1> QED BY <1>1, <1>6, SameSent

LEMMA TxSends == ASSUME NEW as, Bounded(as), NEW who
                 PROVE DOMAIN Offers!Tx(as, who) = {"next", "actions", "for"} /\ Bounded(Offers!Tx(as, who).actions)
BY DEF Offers!Tx

LEMMA OneMore ==
    ASSUME Sent, cycle' = cycle, NEW as, Bounded(as), NEW who, inflight' = inflight \cup {Offers!Tx(as, who)}
    PROVE  Sent'
<1>1. \A tx \in inflight' : DOMAIN tx = {"next", "actions", "for"} /\ Bounded(tx.actions)
  BY TxSends DEF Sent
<1> QED BY <1>1, SameCycle

LEMMA LeftBehind == ASSUME Sent
    PROVE /\ \A tx \in Offers!Abandoned : DOMAIN tx = {"next", "actions", "for"} /\ Bounded(tx.actions)
          /\ \A t : \A tx \in Offers!Outdated(t) : DOMAIN tx = {"next", "actions", "for"} /\ Bounded(tx.actions)
BY DEF Offers!Abandoned, Offers!Outdated, Sent

LEMMA AnswerSends == ASSUME Sent, NEW tx, NEW answer, NEW ids, Offers!Answer(tx, answer, ids),
                            \A t \in inflight' : DOMAIN t = {"next", "actions", "for"} /\ Bounded(t.actions)
                     PROVE  Sent'
<1>1. cycle'.actions = cycle.actions /\ cycle'.desired = cycle.desired /\ DOMAIN cycle' = DOMAIN cycle
  BY DEF Offers!Answer, Sent, Offers!Idle
<1> QED BY <1>1 DEF Sent, Bounded, Offers!Creates

LEMMA CycleSends == ASSUME Offers!LadderAssumption, Sent, Offers!CycleStep PROVE Sent'
<1>1. CASE Offers!GenerateOrders
  <2>1. inflight' = inflight /\ cycle'.actions = cycle.actions /\ DOMAIN cycle' = DOMAIN Offers!Idle /\ DOMAIN cycle'.desired \subseteq Intents
    BY <1>1 DEF Offers!GenerateOrders, Sent, Offers!Idle, Offers!Ladder
  <2> QED BY <2>1, SameSent DEF Sent
<1>2. CASE Offers!SyncFills \/ Offers!CheckRisk \/ Offers!ReadOffers \/ Offers!SyncManagedOffers
  <2>1. inflight' = inflight /\ (cycle' = Offers!Idle \/ \E pc : cycle' = Offers!To(pc) \/ \E live : cycle' = [Offers!To(pc) EXCEPT !.live = live])
    <3>1. Offers!SyncFills => inflight' = inflight /\ (cycle' = Offers!Idle \/ cycle' = Offers!To("risk"))
      BY DEF Offers!SyncFills
    <3>2. Offers!CheckRisk => inflight' = inflight /\ (cycle' = Offers!Idle \/ cycle' = Offers!To("offers"))
      BY DEF Offers!CheckRisk
    <3>3. Offers!ReadOffers => inflight' = inflight /\ cycle' = [Offers!To("plan") EXCEPT !.live = offers]
      BY DEF Offers!ReadOffers, Offers!To
    <3>4. Offers!SyncManagedOffers => inflight' = inflight /\ cycle' = Offers!To("resync")
      BY DEF Offers!SyncManagedOffers
    <3> QED BY <1>2, <3>1, <3>2, <3>3, <3>4
  <2>2. CASE cycle' = Offers!Idle
    BY <2>1, <2>2, SameSent, IdleSends
  <2>3. CASE cycle' # Offers!Idle
    <3>1. cycle'.actions = cycle.actions /\ DOMAIN cycle' = DOMAIN Offers!Idle /\ cycle'.desired = cycle.desired
      BY <2>1, <2>3 DEF Offers!To, Sent, Offers!Idle
    <3> QED BY <2>1, <3>1, SameSent DEF Sent
  <2> QED BY <2>2, <2>3
<1>3. CASE Offers!PlanOffers
  BY <1>3, PlanSends DEF Offers!PlanOffers
<1>4. CASE Offers!SubmitOffers
  <2>1. cycle'.actions = cycle.actions /\ DOMAIN cycle' = DOMAIN Offers!Idle /\ cycle'.desired = cycle.desired
        /\ inflight' = inflight \cup {Offers!Tx(cycle.actions, "cycle")}
    BY <1>4 DEF Offers!SubmitOffers, Offers!To, Sent, Offers!Idle
  <2> QED BY <2>1, TxSends DEF Sent, Bounded, Offers!Creates
<1>5. CASE Offers!SubmissionFailed \/ Offers!ApplySubmissionResult
  <2>1. cycle'.actions = Offers!Idle.actions /\ DOMAIN cycle' = DOMAIN Offers!Idle /\ cycle'.desired = Offers!Idle.desired
        /\ inflight' \in {inflight, Offers!Abandoned}
    BY <1>5 DEF Offers!SubmissionFailed, Offers!ApplySubmissionResult, Offers!Idle
  <2> QED BY <2>1, IdleSends, LeftBehind DEF Sent, Bounded, Offers!Creates
<1> QED BY <1>1, <1>2, <1>3, <1>4, <1>5 DEF Offers!CycleStep

LEMMA NextSends == ASSUME Offers!LadderAssumption, Sent, Offers!Next PROVE Sent'
<1>1. CASE Offers!CycleStep
  BY <1>1, CycleSends
<1>2. ASSUME NEW tx \in inflight, Offers!Execute(tx) \/ Offers!Reject(tx) PROVE Sent'
  <2>1. inflight' \subseteq inflight \cup Offers!Outdated(tx) /\ \E answer, ids : Offers!Answer(tx, answer, ids)
    BY <1>2 DEF Offers!Execute, Offers!Reject
  <2> QED BY <2>1, AnswerSends, LeftBehind DEF Sent
<1>3. CASE \E tx \in inflight : Offers!Expire(tx)
  BY <1>3, SameCycle DEF Offers!Expire, Sent
<1>4. CASE Offers!MovePrice \/ (\E o \in DOMAIN offers, n \in 1..Amount : Offers!Fill(o, n)) \/ (\E i \in Intents : Offers!GracePasses(i))
             \/ (\E all \in BOOLEAN : Offers!BeginCancel(all)) \/ Offers!FinishCancel \/ Offers!BeginEdit \/ Offers!SaveEdit
  <2>1. cycle' = cycle /\ inflight' = inflight
    BY <1>4 DEF Offers!MovePrice, Offers!Fill, Offers!GracePasses, Offers!BeginCancel, Offers!FinishCancel,
           Offers!BeginEdit, Offers!SaveEdit
  <2> QED BY <2>1, SameCycle DEF Sent
<1>5. CASE Offers!SubmitOffer
  <2>1. PICK a : cycle' = cycle /\ inflight' = inflight \cup {Offers!Tx({a}, "nobody")}
    BY <1>5 DEF Offers!SubmitOffer
  <2> QED BY <2>1, OneMore, OneCreated
<1>6. CASE \E o \in DOMAIN offers : Offers!CancelOfferByID(o)
  <2>1. PICK a : cycle' = cycle /\ inflight' = inflight \cup {Offers!Tx({a}, "nobody")}
    BY <1>6 DEF Offers!CancelOfferByID
  <2> QED BY <2>1, OneMore, OneCreated
<1>7. CASE Offers!Crash
  <2>1. cycle' = Offers!Idle /\ inflight' = Offers!Abandoned
    BY <1>7 DEF Offers!Crash
  <2> QED BY <2>1, IdleSends, LeftBehind DEF Sent, Bounded, Offers!Creates
<1>8. CASE Offers!SendCancel
  <2>1. cycle' = cycle
    BY <1>8 DEF Offers!SendCancel
  <2>2. inflight' = inflight
        \/ \E as : (\A a \in as : a.kind = "cancel") /\ inflight' = inflight \cup {Offers!Tx(as, "command")}
    <3> DEFINE named   == {i \in Intents : managed[i].offer \in DOMAIN command.live}
               targets == IF command.all THEN DOMAIN command.live ELSE {managed[i].offer : i \in named}
               cancels == {[kind |-> "cancel", intent |-> NoOffer, offer |-> o, turn |-> 0,
                            price |-> command.live[o].price] : o \in targets}
    <3>1. inflight' = inflight \/ inflight' = inflight \cup {Offers!Tx(cancels, "command")}
      BY <1>8 DEF Offers!SendCancel
    <3>2. \A a \in cancels : a.kind = "cancel"
      OBVIOUS
    <3> HIDE DEF cancels
    <3> QED BY <3>1, <3>2
  <2>3. CASE inflight' = inflight
    BY <2>1, <2>3, SameCycle DEF Sent
  <2>4. ASSUME NEW as, \A a \in as : a.kind = "cancel", inflight' = inflight \cup {Offers!Tx(as, "command")} PROVE Sent'
    <3>1. Bounded(as)
      BY <2>4, NothingCreated DEF Offers!Creates
    <3> QED BY <2>1, <2>4, <3>1, OneMore
  <2> QED BY <2>2, <2>3, <2>4
<1> QED BY <1>1, <1>2, <1>3, <1>4, <1>5, <1>6, <1>7, <1>8 DEF Offers!Next, Offers!LedgerStep

LEMMA NextCounts == ASSUME Counted, Sent, Offers!Next PROVE Counted'
<1>1. CASE Offers!SyncFills
  BY <1>1, SyncFillsCounts
<1>2. CASE Offers!Crash
  BY <1>2, CrashCounts
<1>3. CASE \E o \in DOMAIN offers, n \in 1..Amount : Offers!Fill(o, n)
  BY <1>3, FillCounts
<1>4. CASE \E tx \in inflight : Offers!Execute(tx)
  BY <1>4, ExecuteCounts
<1>5. CASE \/ Offers!GenerateOrders \/ Offers!CheckRisk \/ Offers!ReadOffers \/ Offers!PlanOffers \/ Offers!SubmitOffers
           \/ Offers!SubmissionFailed \/ Offers!ApplySubmissionResult \/ Offers!SyncManagedOffers
  <2>1. CASE Offers!GenerateOrders \/ Offers!CheckRisk \/ Offers!ReadOffers \/ Offers!PlanOffers
    <3>1. CASE Offers!GenerateOrders
      <4>1. UNCHANGED <<trades, fills, executions, faults>> /\ total' = [total EXCEPT !.cycle = total.row]
        BY <3>1 DEF Offers!GenerateOrders, Offers!ledgerVars, Offers!envVars
      <4> QED BY <4>1, CopyCounts
    <3>2. CASE Offers!CheckRisk
      <4>1. UNCHANGED <<trades, fills, executions, faults>> /\ (total' = total \/ total' = Offers!WithRow(total, total.cycle))
        BY <3>2 DEF Offers!CheckRisk, Offers!ledgerVars, Offers!envVars
      <4> QED BY <4>1, CopyCounts, Quiet
    <3>3. CASE Offers!ReadOffers \/ Offers!PlanOffers
      <4>1. UNCHANGED <<trades, fills, executions, total, faults>>
        BY <3>3 DEF Offers!ReadOffers, Offers!PlanOffers, Offers!ledgerVars, Offers!envVars, Offers!storeVars
      <4> QED BY <4>1, Quiet
    <3> QED BY <2>1, <3>1, <3>2, <3>3
  <2>2. CASE Offers!SubmitOffers \/ Offers!SubmissionFailed \/ Offers!ApplySubmissionResult \/ Offers!SyncManagedOffers
    <3>1. UNCHANGED <<trades, fills, executions, total, faults>>
      BY <2>2 DEF Offers!SubmitOffers, Offers!SubmissionFailed, Offers!ApplySubmissionResult, Offers!SyncManagedOffers,
             Offers!ledgerVars, Offers!envVars, Offers!storeVars
    <3> QED BY <3>1, Quiet
  <2> QED BY <1>5, <2>1, <2>2
<1>6. CASE \/ \E tx \in inflight : Offers!Reject(tx) \/ Offers!Expire(tx)
           \/ Offers!MovePrice \/ Offers!SubmitOffer \/ Offers!FinishCancel
           \/ \E o \in DOMAIN offers : Offers!CancelOfferByID(o)
           \/ \E i \in Intents : Offers!GracePasses(i)
           \/ (\E all \in BOOLEAN : Offers!BeginCancel(all)) \/ Offers!SendCancel
  <2>1. UNCHANGED <<trades, fills, executions, total, faults>>
    BY <1>6 DEF Offers!Reject, Offers!Expire, Offers!MovePrice, Offers!SubmitOffer, Offers!CancelOfferByID, Offers!GracePasses,
           Offers!BeginCancel, Offers!SendCancel, Offers!FinishCancel, Offers!ledgerVars, Offers!envVars, Offers!storeVars
  <2> QED BY <2>1, Quiet
<1>7. CASE Offers!BeginEdit
  <2>1. UNCHANGED <<trades, fills, executions, faults>> /\ ~Undisturbed /\ total' = [total EXCEPT !.edits = @ \cup {total.row}]
    BY <1>7 DEF Offers!BeginEdit, Offers!ledgerVars, Undisturbed
  <2> QED BY <2>1, CopyCounts
<1>8. CASE Offers!SaveEdit
  <2>1. UNCHANGED <<trades, fills, executions, faults>>
        /\ \E n \in total.edits : total' = Offers!WithRow([total EXCEPT !.edits = @ \ {n}], n)
    BY <1>8 DEF Offers!SaveEdit, Offers!ledgerVars, Offers!envVars
  <2> QED BY <2>1, CopyCounts
<1> QED BY <1>1, <1>2, <1>3, <1>4, <1>5, <1>6, <1>7, <1>8 DEF Offers!Next, Offers!CycleStep, Offers!LedgerStep

\* No trade is counted twice and none without an execution, whoever writes back an old
\* copy of the strategy's row; unless the process crashed or another command wrote the
\* row back, every recorded fill is in the total.
THEOREM FillsAlwaysCounted == ASSUME Offers!LadderAssumption PROVE Offers!Spec => []Offers!FillsCounted
<1>1. Offers!Init => Counted /\ Sent
  <2> SUFFICES ASSUME Offers!Init PROVE Counted /\ Sent
    OBVIOUS
  <2>1. Counted
    BY FS_EmptySet DEF Offers!Init, Counted, Undisturbed, Offers!Totals
  <2>2. Sent
    BY IdleSends DEF Offers!Init, Sent
  <2> QED BY <2>1, <2>2
<1>2. Counted /\ Sent /\ [Offers!Next]_(Offers!vars) => (Counted /\ Sent)'
  <2>1. ASSUME Counted, Sent, UNCHANGED Offers!vars PROVE (Counted /\ Sent)'
    BY <2>1 DEF Offers!vars, Offers!ledgerVars, Offers!storeVars, Offers!envVars, Counted, Undisturbed, Sent, Bounded, Offers!Creates
  <2> QED BY <2>1, NextCounts, NextSends
<1>3. Counted => Offers!FillsCounted
  BY SameSizes DEF Counted, Undisturbed, Offers!FillsCounted
<1> QED BY <1>1, <1>2, <1>3, PTL DEF Offers!Spec

------------------------------------------------------------------------------
(* What the records of a strategy say of its offers (RecordsAgree).           *)
(*                                                                            *)
(* First, sums over finite sets: the liabilities of an account are a sum over *)
(* its book, which a step changes at one offer or at the offers of one        *)
(* transaction.  An induction over a set is one over its size: were a sum     *)
(* wrong there would be a smallest set that shows it (Smallest).              *)

\* What is assumed of the ladder and of the bounds.
Sound == Offers!LadderAssumption

Less == {r \in Nat \X Nat : r[1] < r[2]}

\* The natural numbers are well ordered.
LEMMA LessWellFounded == IsWellFoundedOn(Less, Nat)
BY NatLessThanWellFounded DEF OpToRel, Less

\* What fails of some number fails of a least one.
LEMMA Smallest ==
    ASSUME NEW T, T \subseteq Nat, T # {}
    PROVE  \E n \in T : \A m \in T : n <= m
<1>1. PICK n \in T : \A m \in T : ~(<<m, n>> \in Less)
  BY LessWellFounded, WFMin
<1>2. \A m \in T : ~(m < n)
  BY <1>1 DEF Less
<1> QED BY <1>2

Sum(book, S) == Offers!MapThenSumSet(LAMBDA o : book[o].amount, S)
Pick(s) == CHOOSE x \in s : TRUE

\* A table of the sums over the subsets of S, one element taken away at a time.
Adds(book, S, h) ==
    h = [s \in SUBSET S |-> IF s = {} THEN 0 ELSE book[Pick(s)].amount + h[s \ {Pick(s)}]]

\* A part of a finite set without one of its members is smaller by one.
LEMMA Smaller ==
    ASSUME NEW S, IsFiniteSet(S), NEW s \in SUBSET S, s # {}
    PROVE  /\ Pick(s) \in s
           /\ \A x \in s : s \ {x} \in SUBSET S /\ Cardinality(s) \in Nat \ {0}
                           /\ Cardinality(s \ {x}) = Cardinality(s) - 1
<1>1. IsFiniteSet(s) /\ Cardinality(s) \in Nat /\ Cardinality(s) # 0
  BY FS_Subset, FS_CardinalityType, FS_EmptySet
<1>2. Pick(s) \in s
  BY DEF Pick
<1> QED BY <1>1, <1>2, FS_RemoveElement

\* There is a table of the sums over every part of a finite set.
LEMMA Table ==
    ASSUME NEW book, NEW S, IsFiniteSet(S)
    PROVE  \E h : Adds(book, S, h)
<1> DEFINE Small(n) == {s \in SUBSET S : Cardinality(s) <= n}
           Next1(h, s) == IF s = {} THEN 0 ELSE book[Pick(s)].amount + h[s \ {Pick(s)}]
           E(n) == \E h : h = [s \in Small(n) |-> Next1(h, s)]
           T == {n \in Nat : ~E(n)}
<1>0. \A s \in SUBSET S : Cardinality(s) \in Nat /\ Cardinality(s) <= Cardinality(S) /\ (Cardinality(s) = 0 <=> s = {})
  BY FS_Subset, FS_CardinalityType, FS_EmptySet
<1>1. E(0)
  <2>1. Small(0) = {{}}
    BY <1>0
  <2> DEFINE h0 == [s \in {{}} |-> 0]
  <2>2. h0 = [s \in Small(0) |-> Next1(h0, s)]
    BY <2>1
  <2> QED BY <2>2
<1>2. ASSUME NEW n \in Nat, E(n) PROVE E(n + 1)
  <2>1. PICK h : h = [s \in Small(n) |-> Next1(h, s)]
    BY <1>2
  <2> DEFINE g == [s \in Small(n + 1) |-> Next1(h, s)]
  <2>2. \A s \in Small(n + 1) : s # {} => s \ {Pick(s)} \in Small(n)
    BY Smaller, <1>0
  <2>3. \A s \in Small(n) : g[s] = h[s] /\ s \in Small(n + 1)
    <3>1. \A s \in Small(n) : s \in Small(n + 1)
      BY <1>0
    <3> HIDE DEF Next1, Small
    <3>2. \A s \in Small(n) : h[s] = Next1(h, s)
      BY <2>1
    <3> QED BY <3>1, <3>2
  <2>4. \A s \in Small(n + 1) : Next1(h, s) = Next1(g, s)
    BY <2>2, <2>3
  <2>5. g = [s \in Small(n + 1) |-> Next1(g, s)]
    BY <2>4
  <2> HIDE DEF g, Small, Next1
  <2> QED BY <2>5
<1>3. T = {}
  <2> SUFFICES ASSUME T # {} PROVE FALSE
    OBVIOUS
  <2> HIDE DEF E
  <2>1. PICK n \in T : \A m \in T : n <= m
    <3>1. T \subseteq Nat
      OBVIOUS
    <3> HIDE DEF T
    <3> QED BY <3>1, Smallest
  <2>2. n # 0 /\ n - 1 \in Nat /\ ~(n - 1 \in T)
    BY <2>1, <1>1
  <2>3. E(n - 1)
    BY <2>2
  <2>4. E((n - 1) + 1)
    BY <2>2, <2>3, <1>2
  <2>5. (n - 1) + 1 = n
    BY <2>2
  <2> QED BY <2>1, <2>4, <2>5
<1>4. Cardinality(S) \in Nat /\ Small(Cardinality(S)) = SUBSET S
  BY <1>0
<1>5. E(Cardinality(S))
  <2> HIDE DEF E
  <2> QED BY <1>3, <1>4
<1>6. PICK h : h = [s \in SUBSET S |-> Next1(h, s)]
  <2> HIDE DEF Next1
  <2> QED BY <1>4, <1>5
<1> QED BY <1>6 DEF Adds

\* A sum over a finite set is an entry of such a table.
LEMMA SumTable ==
    ASSUME NEW book, NEW S, IsFiniteSet(S)
    PROVE  \E h : Adds(book, S, h) /\ Sum(book, S) = h[S]
<1> DEFINE it == CHOOSE h : Adds(book, S, h)
<1>1. Adds(book, S, it)
  BY Table
<1>2. Sum(book, S) = it[S]
  BY DEF Sum, Offers!MapThenSumSet, Offers!MapThenFoldSet, Adds, Pick
<1> QED BY <1>1, <1>2

\* Two tables over sets of which one is part of the other say the same.
LEMMA TablesAgree ==
    ASSUME NEW S, IsFiniteSet(S), NEW T \in SUBSET S, NEW b, NEW c, \A x \in T : b[x].amount = c[x].amount,
           NEW g, NEW h, Adds(b, S, g), Adds(c, T, h)
    PROVE  \A s \in SUBSET T : g[s] = h[s]
<1> DEFINE Bad == {s \in SUBSET T : g[s] # h[s]}
           Sizes == {Cardinality(s) : s \in Bad}
<1> SUFFICES ASSUME Bad # {} PROVE FALSE
  OBVIOUS
<1>1. IsFiniteSet(T) /\ \A s \in SUBSET T : Cardinality(s) \in Nat
  BY FS_Subset, FS_CardinalityType
<1>2. PICK s \in Bad : \A t \in Bad : Cardinality(s) <= Cardinality(t)
  <2>1. Sizes \subseteq Nat /\ Sizes # {}
    BY <1>1
  <2>2. PICK n \in Sizes : \A m \in Sizes : n <= m
    <3> HIDE DEF Sizes
    <3> QED BY <2>1, Smallest
  <2> QED BY <2>2
<1>3. s # {}
  BY DEF Adds
<1>4. /\ Pick(s) \in s /\ s \ {Pick(s)} \in SUBSET T
      /\ Cardinality(s \ {Pick(s)}) = Cardinality(s) - 1 /\ Cardinality(s) \in Nat
  BY <1>1, <1>3, Smaller
<1>5. g[s \ {Pick(s)}] = h[s \ {Pick(s)}]
  BY <1>2, <1>4
<1>6. g[s] = b[Pick(s)].amount + g[s \ {Pick(s)}] /\ h[s] = c[Pick(s)].amount + h[s \ {Pick(s)}]
  BY <1>3 DEF Adds
<1>7. b[Pick(s)].amount = c[Pick(s)].amount
  BY <1>4
<1> QED BY <1>5, <1>6, <1>7

Amounts(book, S) == \A x \in S : book[x].amount \in Nat

\* The sum may be taken in any order.
LEMMA TableAdds ==
    ASSUME NEW S, IsFiniteSet(S), NEW b, Amounts(b, S), NEW g, Adds(b, S, g)
    PROVE  /\ \A s \in SUBSET S : g[s] \in Nat
           /\ \A s \in SUBSET S : \A x \in s : g[s] = b[x].amount + g[s \ {x}]
<1>0. \A s \in SUBSET S : Cardinality(s) \in Nat
  BY FS_Subset, FS_CardinalityType
<1>a. g[{}] = 0
  BY DEF Adds
<1>b. \A s \in SUBSET S : s # {} => g[s] = b[Pick(s)].amount + g[s \ {Pick(s)}]
  BY DEF Adds
<1>1. \A s \in SUBSET S : g[s] \in Nat
  <2> DEFINE Bad == {s \in SUBSET S : g[s] \notin Nat}
             Sizes == {Cardinality(s) : s \in Bad}
  <2> SUFFICES ASSUME Bad # {} PROVE FALSE
    OBVIOUS
  <2>2. PICK s \in Bad : \A t \in Bad : Cardinality(s) <= Cardinality(t)
    <3>1. Sizes \subseteq Nat /\ Sizes # {}
      BY <1>0
    <3>2. PICK n \in Sizes : \A m \in Sizes : n <= m
      <4> HIDE DEF Sizes
      <4> QED BY <3>1, Smallest
    <3> QED BY <3>2
  <2>3. s # {} /\ s \in SUBSET S /\ g[s] \notin Nat
    BY <1>a
  <2>4. Pick(s) \in s /\ s \ {Pick(s)} \in SUBSET S /\ Cardinality(s \ {Pick(s)}) = Cardinality(s) - 1
    BY <2>3, Smaller
  <2>5. g[s \ {Pick(s)}] \in Nat
    BY <2>2, <2>4, <1>0
  <2>6. b[Pick(s)].amount \in Nat
    BY <2>4 DEF Amounts
  <2>7. g[s] = b[Pick(s)].amount + g[s \ {Pick(s)}]
    BY <2>3, <1>b
  <2> HIDE DEF Bad
  <2> QED BY <2>3, <2>5, <2>6, <2>7
<1>2. \A s \in SUBSET S : \A x \in s : g[s] = b[x].amount + g[s \ {x}]
  <2> DEFINE Bad == {s \in SUBSET S : \E x \in s : g[s] # b[x].amount + g[s \ {x}]}
             Sizes == {Cardinality(s) : s \in Bad}
  <2> SUFFICES ASSUME Bad # {} PROVE FALSE
    OBVIOUS
  <2>2. PICK s \in Bad : \A t \in Bad : Cardinality(s) <= Cardinality(t)
    <3>1. Sizes \subseteq Nat /\ Sizes # {}
      BY <1>0
    <3>2. PICK n \in Sizes : \A m \in Sizes : n <= m
      <4> HIDE DEF Sizes
      <4> QED BY <3>1, Smallest
    <3> QED BY <3>2
  <2>3. PICK x \in s : g[s] # b[x].amount + g[s \ {x}]
    OBVIOUS
  <2> DEFINE p == Pick(s)
  <2>4. /\ s \in SUBSET S /\ p \in s /\ Cardinality(s) \in Nat
        /\ \A y \in s : s \ {y} \in SUBSET S /\ Cardinality(s \ {y}) = Cardinality(s) - 1
    BY <2>3, Smaller
  <2>5. g[s] = b[p].amount + g[s \ {p}]
    BY <2>3, <1>b
  <2>6. x # p
    BY <2>3, <2>5
  <2>7. \A y \in s : s \ {y} \notin Bad
    <3> HIDE DEF Bad, p
    <3> QED BY <2>2, <2>4
  <2>8. g[s \ {p}] = b[x].amount + g[(s \ {p}) \ {x}]
    BY <2>4, <2>6, <2>7
  <2>9. g[s \ {x}] = b[p].amount + g[(s \ {x}) \ {p}]
    BY <2>4, <2>6, <2>7
  <2>10. (s \ {p}) \ {x} = (s \ {x}) \ {p}
    OBVIOUS
  <2>11. b[x].amount \in Nat /\ b[p].amount \in Nat /\ g[(s \ {x}) \ {p}] \in Nat
    <3>1. (s \ {x}) \ {p} \in SUBSET S
      OBVIOUS
    <3> QED BY <2>4, <3>1, <1>1 DEF Amounts
  <2>12. g[s] = b[p].amount + (b[x].amount + g[(s \ {x}) \ {p}])
    BY <2>5, <2>8, <2>10
  <2> HIDE DEF p, Bad
  <2> QED BY <2>3, <2>9, <2>11, <2>12
<1> QED BY <1>1, <1>2

\* The sum of natural numbers is one.
LEMMA SumNat ==
    ASSUME NEW b, NEW S, IsFiniteSet(S), Amounts(b, S)
    PROVE  Sum(b, S) \in Nat
BY SumTable, TableAdds

\* The same amounts have the same sum.
LEMMA SumSame ==
    ASSUME NEW b, NEW c, NEW S, IsFiniteSet(S), \A x \in S : b[x].amount = c[x].amount
    PROVE  Sum(b, S) = Sum(c, S)
<1>1. PICK g : Adds(b, S, g) /\ Sum(b, S) = g[S]
  BY SumTable
<1>2. PICK h : Adds(c, S, h) /\ Sum(c, S) = h[S]
  BY SumTable
<1> QED BY <1>1, <1>2, TablesAgree

\* A sum is one of its amounts and the sum of the others.
LEMMA SumWithout ==
    ASSUME NEW b, NEW S, IsFiniteSet(S), Amounts(b, S), NEW x \in S
    PROVE  Sum(b, S) = b[x].amount + Sum(b, S \ {x})
<1>1. PICK g : Adds(b, S, g) /\ Sum(b, S) = g[S]
  BY SumTable
<1>2. IsFiniteSet(S \ {x}) /\ S \ {x} \in SUBSET S
  BY FS_Subset
<1>3. PICK h : Adds(b, S \ {x}, h) /\ Sum(b, S \ {x}) = h[S \ {x}]
  BY <1>2, SumTable
<1>4. g[S \ {x}] = h[S \ {x}]
  BY <1>1, <1>2, <1>3, TablesAgree
<1>5. g[S] = b[x].amount + g[S \ {x}]
  BY <1>1, TableAdds
<1> QED BY <1>1, <1>3, <1>4, <1>5

\* The sum over the empty set.
LEMMA SumOfNone == \A b : Sum(b, {}) = 0
<1> SUFFICES ASSUME NEW b PROVE Sum(b, {}) = 0
  OBVIOUS
<1>1. PICK g : Adds(b, {}, g) /\ Sum(b, {}) = g[{}]
  BY SumTable, FS_EmptySet
<1> QED BY <1>1 DEF Adds

\* Equal amounts, taken away.
LEMMA SumLess ==
    ASSUME NEW b, NEW S, IsFiniteSet(S), Amounts(b, S), NEW a \in Nat,
           NEW T \in SUBSET S, \A x \in T : b[x].amount = a
    PROVE  Sum(b, S) = a * Cardinality(T) + Sum(b, S \ T)
<1> DEFINE Right1(t) == Sum(b, S) = a * Cardinality(t) + Sum(b, S \ t)
           Bad == {t \in SUBSET T : ~Right1(t)}
           Sizes == {Cardinality(t) : t \in Bad}
<1> SUFFICES ASSUME Bad # {} PROVE FALSE
  OBVIOUS
<1>0. IsFiniteSet(T) /\ \A t \in SUBSET T : Cardinality(t) \in Nat /\ IsFiniteSet(t)
  BY FS_Subset, FS_CardinalityType
<1>1. PICK t \in Bad : \A u \in Bad : Cardinality(t) <= Cardinality(u)
  <2>1. Sizes \subseteq Nat /\ Sizes # {}
    BY <1>0
  <2>2. PICK n \in Sizes : \A m \in Sizes : n <= m
    <3> HIDE DEF Sizes
    <3> QED BY <2>1, Smallest
  <2> QED BY <2>2
<1>2. t # {}
  <2>1. Cardinality({}) = 0 /\ S \ {} = S /\ Sum(b, S) \in Nat
    BY FS_EmptySet, SumNat
  <2>2. Right1({})
    BY <2>1
  <2> QED BY <2>2
<1>3. PICK x \in t : TRUE
  BY <1>2
<1>4. t \ {x} \in SUBSET T /\ Cardinality(t \ {x}) = Cardinality(t) - 1 /\ Cardinality(t) \in Nat \ {0}
  BY <1>0, <1>2, Smaller
<1>5. Right1(t \ {x})
  <2> HIDE DEF Right1
  <2> QED BY <1>1, <1>4
<1> DEFINE R == S \ (t \ {x})
<1>6. IsFiniteSet(R) /\ Amounts(b, R) /\ x \in R /\ R \ {x} = S \ t /\ IsFiniteSet(S \ t) /\ Amounts(b, S \ t)
  <2>1. R \subseteq S /\ S \ t \subseteq S /\ x \in R /\ R \ {x} = S \ t
    OBVIOUS
  <2> HIDE DEF R
  <2> QED BY <2>1, FS_Subset DEF Amounts
<1>7. Sum(b, R) = b[x].amount + Sum(b, S \ t)
  <2> HIDE DEF R
  <2> QED BY <1>6, SumWithout
<1>8. b[x].amount = a /\ Sum(b, S \ t) \in Nat
  BY <1>6, SumNat
<1>9. Sum(b, S) = a * (Cardinality(t) - 1) + (a + Sum(b, S \ t))
  <2>1. Sum(b, S) = a * (Cardinality(t) - 1) + Sum(b, R)
    BY <1>4, <1>5
  <2> HIDE DEF R
  <2> QED BY <2>1, <1>7, <1>8
<1>10. a * (Cardinality(t) - 1) = a * Cardinality(t) - a /\ a * Cardinality(t) \in Nat
  BY <1>4
<1>11. Right1(t)
  BY <1>8, <1>9, <1>10
<1> QED BY <1>11, <1>1

------------------------------------------------------------------------------
(* The invariant of the reconciliation.                                       *)
(*                                                                            *)
(* An identifier is given out once (Given), so an offer that was canceled or  *)
(* filled never rests again.  A cycle and a command work on copies of the     *)
(* records that they read earlier: what they will save is true when they save *)
(* it because whoever waits waits for the one transaction it sent (Waiting),  *)
(* and a record it is about to call canceled names an offer that transaction  *)
(* cancels or that another operation of the same intent replaces (Gone).      *)
(* While nothing but a refusal can go wrong, a record names the one offer of  *)
(* its order at every point but one: between the answer and the save, where   *)
(* the cycle's own copy names it (Peace).                                     *)

\* The identifiers the exchange has given out.
Given == {o \in Offers!OfferIds : o[2] <= created[o[1]]}

\* Offers by identifier; a record; records by order.
Book(b) == DOMAIN b \subseteq Given /\ \A o \in DOMAIN b : b[o] \in Offers!Offer

Row(r) == r \in Offers!Managed /\ r.offer \in Given \cup {NoOffer}

Rows(rs) == DOMAIN rs \subseteq Intents /\ \A i \in DOMAIN rs : Row(rs[i])

\* A transaction's operations: known offers, and at most one placed per intent.
Proper(as) ==
    /\ as \subseteq Offers!Actions /\ IsFiniteSet(as)
    /\ \A a \in as : a.offer \in Given \cup {NoOffer}
    /\ \A a \in as : a.kind # "cancel" => a.intent \in Intents \cup {Manual}
    /\ \A a, b \in as : a.kind # "cancel" /\ b.kind # "cancel" /\ a.intent = b.intent => a = b

Shape ==
    /\ faults \subseteq Offers!Faults /\ price \in Prices
    /\ moves \in 0..MaxMoves /\ mishaps \in 0..MaxMishaps
    /\ created \in [Intents \cup {Manual} -> 0..MaxOffers]
    /\ managed \in [Intents -> Offers!Managed] /\ Rows(managed)

\* The account has what its offers promise.
Ledger ==
    /\ Book(offers)
    /\ balance \in [Offers!Sides -> Nat]
    /\ \A s \in Offers!Sides : Offers!Liabilities(offers, s) <= balance[s]

Answers == {"none", "ok", "failed"}

\* What a cycle and a command hold of what they read and sent.
Memory ==
    /\ DOMAIN cycle = DOMAIN Offers!Idle
    /\ DOMAIN cycle.desired \subseteq Intents
    /\ \A i \in DOMAIN cycle.desired : cycle.desired[i] \in Nat
    /\ Book(cycle.live)
    /\ Proper(cycle.actions)
    /\ Rows(cycle.records)
    /\ cycle.answer \in Answers
    /\ \A a \in DOMAIN cycle.ids : cycle.ids[a] \in Given \cup {NoOffer}
    /\ DOMAIN command = DOMAIN Offers!NoCommand
    /\ Book(command.live)
    /\ Rows(command.records)
    /\ command.answer \in Answers

\* Whoever waits, waits for one transaction, the one it sent.
Waiting ==
    /\ \A tx \in inflight : tx \in Offers!Transactions /\ Proper(tx.actions)
    /\ \A tx \in inflight : tx.for = "cycle" =>
          cycle.pc = "wait" /\ cycle.answer = "none" /\ tx.actions = cycle.actions
    /\ \A tx \in inflight : tx.for = "command" =>
          /\ command.pc = "wait" /\ command.answer = "none"
          /\ \A i \in DOMAIN command.records :
                \E a \in tx.actions : a.kind = "cancel" /\ a.offer = command.records[i].offer
    /\ \A t, u \in inflight : t.for = u.for /\ t.for # "nobody" => t = u
    /\ cycle.pc # "wait" => cycle.answer = "none"
    /\ command.pc # "wait" => command.answer = "none"

\* The cycle's transaction places an offer for the order.
Placed(i) == \E a \in cycle.actions : a.intent = i /\ a.kind # "cancel"

\* It does, and cancels none of the order's.
Kept(i) == Placed(i) /\ ~ \E a \in cycle.actions : a.intent = i /\ a.kind = "cancel"

\* Who will call an offer canceled has sent for it, or has learnt that it is gone.
Gone ==
    /\ Offers!CanceledIsGone
    /\ \A i \in DOMAIN command.records : command.records[i].offer # NoOffer
    /\ cycle.pc \in {"submit", "wait"} => \A i \in DOMAIN cycle.records :
          Kept(i) \/ ( /\ cycle.records[i].offer # NoOffer
                       /\ \E a \in cycle.actions : a.kind = "cancel" /\ a.offer = cycle.records[i].offer )
    /\ cycle.answer = "ok" => \A i \in DOMAIN cycle.records :
          Kept(i) \/ cycle.records[i].offer \notin DOMAIN offers
    /\ command.answer = "ok" => \A i \in DOMAIN command.records : command.records[i].offer \notin DOMAIN offers

\* Each offer that rests for an order is the one its record names.
Named == \A o \in Offers!OwnOffers : managed[o[1]].offer = o

\* With nothing lost, taken or interrupted, and nobody interfering.
Peace ==
    faults \subseteq {"refused"} =>
      /\ command.pc = "idle"
      /\ \A tx \in inflight : tx.for = "cycle"
      /\ cycle.answer # "ok" => Named
      /\ cycle.pc = "plan" => DOMAIN offers \subseteq DOMAIN cycle.live
      /\ cycle.pc \in {"submit", "wait"} =>
            /\ \A i \in DOMAIN cycle.records : cycle.records[i].offer = managed[i].offer
            /\ \A a \in cycle.actions : a.kind # "cancel" => a.intent \in DOMAIN cycle.records
            /\ \A a \in cycle.actions : a.kind = "update" => a.offer = managed[a.intent].offer
      /\ cycle.pc \in {"submit", "wait"} /\ cycle.answer = "none" =>
            \A a \in cycle.actions : a.kind = "create" =>
               \/ managed[a.intent].offer \notin DOMAIN offers
               \/ \E b \in cycle.actions : b.kind = "cancel" /\ b.offer = managed[a.intent].offer
      /\ cycle.answer = "ok" =>
            /\ DOMAIN cycle.ids = {a \in cycle.actions : a.kind # "cancel"}
            /\ \A a \in cycle.actions : a.kind = "update" => cycle.ids[a] = a.offer
            /\ \A o \in Offers!OwnOffers :
                  \/ managed[o[1]].offer = o /\ ~ \E a \in cycle.actions : a.kind = "create" /\ a.intent = o[1]
                  \/ \E a \in cycle.actions : a.kind = "create" /\ a.intent = o[1] /\ cycle.ids[a] = o

\* The inductive invariant, next to Counted and Sent.
RecInvariant == Shape /\ Ledger /\ Memory /\ Waiting /\ Gone /\ Peace

------------------------------------------------------------------------------
(* The exchange: the book before and after a transaction, and what the        *)
(* account owes.                                                              *)

\* The constants that stand for none and for a hand are neither orders nor offers.
LEMMA NoOfferApart == ASSUME Sound PROVE NoOffer \notin Intents /\ NoOffer # Manual /\ NoOffer \notin Offers!OfferIds /\ Manual \notin Intents
BY DEF Sound, Offers!LadderAssumption, Offers!OfferIds

\* There are finitely many identifiers within the bound.
LEMMA FiniteIds == ASSUME Sound PROVE IsFiniteSet(Offers!OfferIds)
<1>1. IsFiniteSet(Intents)
  BY FinitelyMany DEF Sound
<1>3. IsFiniteSet(Intents \cup {Manual})
  BY <1>1, FS_AddElement, Zenon
<1>2. IsFiniteSet(1..MaxOffers)
  <2>1. 1 \in Int /\ MaxOffers \in Int
    BY DEF Sound, Offers!LadderAssumption
  <2> QED BY <2>1, FS_Interval
<1> QED BY <1>2, <1>3, FS_Product DEF Offers!OfferIds

\* A book holds finitely many offers, of natural amounts.
LEMMA FiniteBook == ASSUME Sound, NEW b, Book(b) PROVE IsFiniteSet(DOMAIN b) /\ \A S \in SUBSET DOMAIN b : IsFiniteSet(S) /\ Amounts(b, S)
<1>1. IsFiniteSet(DOMAIN b)
  BY FiniteIds, FS_Subset DEF Book, Given
<1>2. \A o \in DOMAIN b : b[o].amount \in Nat
  BY DEF Sound, Offers!LadderAssumption, Book, Offers!Offer
<1> QED BY <1>1, <1>2, FS_Subset DEF Amounts

Owed(b, s) == {o \in DOMAIN b : b[o].side = s}

\* What an account owes on a side is the sum over the offers of that side.
LEMMA LiabilitiesAdd == \A b, s : Offers!Liabilities(b, s) = Sum(b, Owed(b, s))
BY DEF Offers!Liabilities, Sum, Owed

\* The identifier of a new offer was never given out.
LEMMA NewIdsNew ==
    ASSUME Sound, Shape, NEW i \in Intents \cup {Manual}, NEW j \in Intents \cup {Manual}
    PROVE  Offers!NewId(i) \notin Given /\ (Offers!NewId(i) = Offers!NewId(j) => i = j) /\ Offers!NewId(i)[1] = i
BY DEF Sound, Offers!LadderAssumption, Shape, Given, Offers!NewId

\* Two takings of the same size.
LEMMA SameSize ==
    ASSUME NEW S, IsFiniteSet(S), NEW T, NEW f \in Bijection(S, T)
    PROVE  IsFiniteSet(T) /\ Cardinality(T) = Cardinality(S)
BY FS_Bijection DEF ExistsBijection

\* The offers that were matched at once, had they come to rest.
Matched(taken) == {Offers!NewId(a.intent) : a \in taken}

\* The book after a transaction: what it holds, and how much less the account owes
\* when some of the new offers were taken at once.
LEMMA BookAfterIs ==
    ASSUME Sound, Shape, Book(offers), NEW as, Proper(as), NEW taken \in SUBSET Offers!Creates(as),
           \A a \in as : a.offer # NoOffer => a.offer \in DOMAIN offers
    PROVE  /\ DOMAIN Offers!BookAfter(as, taken) = (DOMAIN Offers!BookAfter(as, {})) \ Matched(taken)
           /\ Matched(taken) \subseteq DOMAIN Offers!BookAfter(as, {})
           /\ \A o \in DOMAIN Offers!BookAfter(as, taken) : Offers!BookAfter(as, taken)[o] = Offers!BookAfter(as, {})[o]
           /\ \A o \in Matched(taken) : Offers!BookAfter(as, {})[o].amount = Amount /\ Offers!BookAfter(as, {})[o].side = Offers!SideOf(o[1])
<1> DEFINE T == Matched(taken)
           gone == {a.offer : a \in {b \in as : b.kind = "cancel"}}
           N(x) == {Offers!NewId(a.intent) : a \in Offers!Creates(as) \ x}
           Change(o) == {a \in as : a.kind = "update" /\ a.offer = o}
           Fresh(o) == [side |-> Offers!SideOf(o[1]), amount |-> Amount,
                        price |-> (CHOOSE a \in Offers!Creates(as) : a.intent = o[1]).price]
           Old(o) == IF Change(o) # {}
                     THEN [offers[o] EXCEPT !.amount = Amount, !.price = Offers!Last(Change(o)).price]
                     ELSE offers[o]
<1>1. \A x : Offers!BookAfter(as, x) = [o \in ((DOMAIN offers) \ gone) \cup N(x) |-> IF o \in N(x) THEN Fresh(o) ELSE Old(o)]
  BY DEF Offers!BookAfter
<1>2. \A a \in Offers!Creates(as) : a \in as /\ a.intent \in Intents \cup {Manual}
  BY DEF Offers!Creates, Proper
<1>3. \A a, b \in Offers!Creates(as) : a.intent = b.intent => a = b
  BY DEF Proper, Offers!Creates
<1>4. \A a, b \in Offers!Creates(as) : Offers!NewId(a.intent) = Offers!NewId(b.intent) => a = b
  BY <1>2, <1>3, NewIdsNew
<1>5. \A a \in Offers!Creates(as) : Offers!NewId(a.intent) \notin DOMAIN offers
  BY <1>2, NewIdsNew DEF Book
<1>6. T \cap N(taken) = {} /\ T \cap DOMAIN offers = {} /\ N({}) = N(taken) \cup T
  <2>1. T \cap N(taken) = {}
    BY <1>4 DEF Matched
  <2>2. T \cap DOMAIN offers = {}
    BY <1>5 DEF Matched
  <2>3. N({}) = N(taken) \cup T
    BY DEF Matched
  <2> QED BY <2>1, <2>2, <2>3
<1> HIDE DEF gone, N, Change, Fresh, Old
<1>7. DOMAIN Offers!BookAfter(as, taken) = ((DOMAIN offers) \ gone) \cup N(taken)
  BY <1>1
<1>8. DOMAIN Offers!BookAfter(as, {}) = ((DOMAIN offers) \ gone) \cup N({})
  BY <1>1
<1>9. DOMAIN Offers!BookAfter(as, taken) = (DOMAIN Offers!BookAfter(as, {})) \ T /\ T \subseteq DOMAIN Offers!BookAfter(as, {})
  BY <1>6, <1>7, <1>8
<1>10. \A o \in DOMAIN Offers!BookAfter(as, taken) : Offers!BookAfter(as, taken)[o] = Offers!BookAfter(as, {})[o]
  <2> TAKE o \in DOMAIN Offers!BookAfter(as, taken)
  <2>1. o \in N(taken) <=> o \in N({})
    BY <1>6, <1>7, <1>9
  <2>2. o \in DOMAIN Offers!BookAfter(as, {})
    BY <1>9
  <2>3. Offers!BookAfter(as, taken)[o] = IF o \in N(taken) THEN Fresh(o) ELSE Old(o)
    BY <1>1, <1>7
  <2>4. Offers!BookAfter(as, {})[o] = IF o \in N({}) THEN Fresh(o) ELSE Old(o)
    BY <1>1, <1>8, <2>2
  <2>5. CASE o \in N(taken)
    BY <2>1, <2>3, <2>4, <2>5
  <2>6. CASE o \notin N(taken)
    BY <2>1, <2>3, <2>4, <2>6
  <2> QED BY <2>5, <2>6
<1>11. \A o \in T : Offers!BookAfter(as, {})[o] = Fresh(o)
  <2> TAKE o \in T
  <2>1. o \in N({}) /\ o \in DOMAIN Offers!BookAfter(as, {})
    BY <1>6, <1>9
  <2>2. Offers!BookAfter(as, {})[o] = IF o \in N({}) THEN Fresh(o) ELSE Old(o)
    BY <1>1, <1>8, <2>1
  <2> QED BY <2>1, <2>2, Zenon
<1>12. \A o : Fresh(o).amount = Amount /\ Fresh(o).side = Offers!SideOf(o[1])
  BY DEF Fresh
<1> QED BY <1>9, <1>10, <1>11, <1>12

\* A finite set of numbers has a greatest.
LEMMA Greatest ==
    ASSUME NEW S, IsFiniteSet(S), S \subseteq Nat, S # {}
    PROVE  \E m \in S : \A n \in S : n <= m
<1> DEFINE Below(m) == {n \in S : n <= m}
           Sizes == {Cardinality(S \ Below(m)) : m \in S}
<1>1. \A m \in S : IsFiniteSet(S \ Below(m)) /\ Cardinality(S \ Below(m)) \in Nat
  BY FS_Subset, FS_CardinalityType
<1>2. PICK m \in S : \A n \in S : Cardinality(S \ Below(m)) <= Cardinality(S \ Below(n))
  <2>1. Sizes \subseteq Nat /\ Sizes # {}
    BY <1>1
  <2>2. PICK k \in Sizes : \A n \in Sizes : k <= n
    <3> HIDE DEF Sizes
    <3> QED BY <2>1, Smallest
  <2> QED BY <2>2
<1>3. ASSUME NEW n \in S, ~(n <= m) PROVE FALSE
  <2>0. n \in Nat /\ m \in Nat /\ m < n /\ \A k \in S : k \in Nat /\ (k <= m => k <= n)
    <3>1. n \in Nat /\ m \in Nat /\ \A k \in S : k \in Nat
      OBVIOUS
    <3> QED BY <3>1, <1>3
  <2>1. S \ Below(n) \subseteq S \ Below(m) /\ n \in S \ Below(m) /\ n \notin S \ Below(n)
    <3>1. \A k \in S \ Below(n) : k \in S \ Below(m)
      BY <2>0
    <3>2. n \in Below(n) /\ n \notin Below(m)
      BY <2>0
    <3> HIDE DEF Below
    <3> QED BY <3>1, <3>2
  <2> HIDE DEF Below
  <2>2. S \ Below(n) # S \ Below(m)
    BY <2>1
  <2>3. Cardinality(S \ Below(n)) <= Cardinality(S \ Below(m)) /\ Cardinality(S \ Below(m)) # Cardinality(S \ Below(n))
    BY <1>1, <2>1, <2>2, FS_Subset
  <2> QED BY <1>1, <1>2, <2>3
<1> QED BY <1>3

\* Of finitely many operations one comes last.
LEMMA LastExists ==
    ASSUME NEW as, IsFiniteSet(as), \A a \in as : a.turn \in Nat, NEW some \in SUBSET as, some # {}
    PROVE  Offers!Last(some) \in some
<1> DEFINE Turns == {a.turn : a \in some}
           Late == {n \in Nat : \A t \in Turns : t <= n}
<1>1. IsFiniteSet(Turns) /\ Turns \subseteq Nat /\ Turns # {}
  <2>1. IsFiniteSet(some)
    BY FS_Subset
  <2>2. [a \in some |-> a.turn] \in Surjection(some, Turns)
    BY DEF Surjection
  <2> QED BY <2>1, <2>2, FS_Surjection
<1>2. \E m \in Turns : \A t \in Turns : t <= m
  <2> HIDE DEF Turns
  <2> QED BY <1>1, Greatest
<1>3. \E a \in some : \A b \in some : b.turn <= a.turn
  BY <1>2
<1> QED BY <1>3 DEF Offers!Last

\* What a transaction leaves in the book.
LEMMA BookStays ==
    ASSUME Sound, Shape, Book(offers), NEW as, Proper(as), NEW taken \in SUBSET Offers!Creates(as),
           NEW o \in DOMAIN Offers!BookAfter(as, taken)
    PROVE  /\ \/ o \in DOMAIN offers /\ ~ \E a \in as : a.kind = "cancel" /\ a.offer = o
              \/ \E a \in Offers!Creates(as) \ taken : o = Offers!NewId(a.intent)
           /\ Offers!BookAfter(as, taken)[o] \in Offers!Offer
<1> DEFINE gone == {a.offer : a \in {b \in as : b.kind = "cancel"}}
           new == {Offers!NewId(a.intent) : a \in Offers!Creates(as) \ taken}
           Change == {a \in as : a.kind = "update" /\ a.offer = o}
           Fresh == [side |-> Offers!SideOf(o[1]), amount |-> Amount,
                     price |-> (CHOOSE a \in Offers!Creates(as) : a.intent = o[1]).price]
           Old == IF Change # {}
                  THEN [offers[o] EXCEPT !.amount = Amount, !.price = Offers!Last(Change).price]
                  ELSE offers[o]
<1>1. Offers!BookAfter(as, taken) = [x \in ((DOMAIN offers) \ gone) \cup new |-> Offers!BookAfter(as, taken)[x]]
      /\ Offers!BookAfter(as, taken)[o] = IF o \in new THEN Fresh ELSE Old
  BY DEF Offers!BookAfter
<1>2. o \in ((DOMAIN offers) \ gone) \cup new
  BY DEF Offers!BookAfter
<1>3. Amount \in 1..Amount /\ \A i \in Intents \cup {Manual} : Offers!SideOf(i) \in Offers!Sides
  BY DEF Sound, Offers!LadderAssumption, Offers!SideOf, Offers!Sides
<1>4. \A a \in as : a.price \in Nat /\ a.turn \in Nat
  BY DEF Proper, Offers!Actions
<1>5. ASSUME o \in new PROVE Fresh \in Offers!Offer
  <2>1. PICK a \in Offers!Creates(as) : o = Offers!NewId(a.intent)
    BY <1>5
  <2>2. a.intent \in Intents \cup {Manual} /\ o[1] = a.intent
    BY <2>1, NewIdsNew DEF Offers!Creates, Proper
  <2>3. (CHOOSE b \in Offers!Creates(as) : b.intent = o[1]) \in Offers!Creates(as)
    BY <2>1, <2>2
  <2>4. (CHOOSE b \in Offers!Creates(as) : b.intent = o[1]).price \in Nat
    BY <2>3, <1>4 DEF Offers!Creates
  <2>5. Offers!SideOf(o[1]) \in Offers!Sides
    BY <2>2, <1>3
  <2> QED BY <2>4, <2>5, <1>3 DEF Offers!Offer
<1>6. ASSUME o \in DOMAIN offers PROVE Old \in Offers!Offer
  <2>1. offers[o] \in Offers!Offer
    BY <1>6 DEF Book
  <2>2. CASE Change = {}
    BY <2>1, <2>2
  <2>3. CASE Change # {}
    <3>1. Offers!Last(Change) \in Change
      <4>1. Change \in SUBSET as /\ IsFiniteSet(as)
        BY DEF Proper
      <4> HIDE DEF Change
      <4> QED BY <2>3, <4>1, <1>4, LastExists
    <3>2. Offers!Last(Change).price \in Nat
      BY <3>1, <1>4
    <3> QED BY <2>1, <2>3, <3>2, <1>3 DEF Offers!Offer
  <2> QED BY <2>2, <2>3
<1>7. o \in DOMAIN offers \ gone \/ \E a \in Offers!Creates(as) \ taken : o = Offers!NewId(a.intent)
  BY <1>2
<1>8. Offers!BookAfter(as, taken)[o] \in Offers!Offer
  <2> HIDE DEF new, Fresh, Old, gone
  <2> QED BY <1>1, <1>2, <1>5, <1>6
<1> QED BY <1>7, <1>8

\* What was given out stays so.
LEMMA GivenGrows ==
    ASSUME Shape, created' \in [Intents \cup {Manual} -> 0..MaxOffers],
           \A i \in Intents \cup {Manual} : created[i] <= created'[i]
    PROVE  Given \subseteq Given'
<1> SUFFICES ASSUME NEW o \in Given PROVE o \in Given'
  OBVIOUS
<1>1. o \in Offers!OfferIds /\ o[2] <= created[o[1]] /\ o[2] \in Nat /\ o[1] \in Intents \cup {Manual}
  BY DEF Given, Offers!OfferIds
<1>2. created[o[1]] \in Nat /\ created'[o[1]] \in Nat
  BY <1>1 DEF Shape
<1>3. o[2] <= created'[o[1]]
  BY <1>1, <1>2
<1> QED BY <1>1, <1>3 DEF Given

\* The counters of the offers, and what is given out.
LEMMA ExecuteCreates ==
    ASSUME Sound, Shape, Waiting, NEW tx, Offers!Execute(tx),
           NEW taken \in SUBSET Offers!Creates(tx.actions),
           created' = [i \in DOMAIN created |->
                IF \E a \in Offers!Creates(tx.actions) \ taken : a.intent = i
                THEN created[i] + 1 ELSE created[i]]
    PROVE  /\ created' \in [Intents \cup {Manual} -> 0..MaxOffers]
           /\ Given \subseteq Given'
           /\ \A a \in Offers!Creates(tx.actions) \ taken : Offers!NewId(a.intent) \in Given'
<1>1. \A a \in Offers!Creates(tx.actions) : a.intent \in Intents \cup {Manual} /\ created[a.intent] < MaxOffers
  BY DEF Offers!Execute, Waiting, Proper, Offers!Creates
<1>2. \A i \in Intents \cup {Manual} : created[i] \in Nat /\ created[i] <= MaxOffers /\ i \in DOMAIN created
  BY DEF Shape
<1>3. MaxOffers \in Nat
  BY DEF Sound, Offers!LadderAssumption
<1>4. \A i \in Intents \cup {Manual} : created'[i] \in 0..MaxOffers /\ created[i] <= created'[i]
  BY <1>1, <1>2, <1>3
<1>5. created' \in [Intents \cup {Manual} -> 0..MaxOffers]
  <2>1. DOMAIN created = Intents \cup {Manual}
    BY DEF Shape
  <2> QED BY <2>1, <1>4
<1>6. Given \subseteq Given'
  BY <1>4, <1>5, GivenGrows
<1>7. ASSUME NEW a \in Offers!Creates(tx.actions) \ taken PROVE Offers!NewId(a.intent) \in Given'
  <2>1. PICK i \in Intents \cup {Manual} : i = a.intent /\ created[i] < MaxOffers
    BY <1>1
  <2>2. created'[i] = created[i] + 1
    BY <1>2, <2>1
  <2>3. created[i] + 1 \in 1..MaxOffers
    BY <1>2, <1>3, <2>1
  <2>4. Offers!NewId(i) = <<i, created[i] + 1>> /\ Offers!NewId(i) \in Offers!OfferIds
    BY <2>3 DEF Offers!NewId, Offers!OfferIds
  <2>5. Offers!NewId(i)[1] = i /\ Offers!NewId(i)[2] = created[i] + 1
    BY <2>4
  <2>6. \A o \in Offers!OfferIds : o[2] <= created'[o[1]] => o \in Given'
    BY DEF Given
  <2>7. Offers!NewId(i)[2] <= created'[Offers!NewId(i)[1]]
    BY <2>2, <2>3, <2>5
  <2> QED BY <2>1, <2>4, <2>6, <2>7
<1> QED BY <1>5, <1>6, <1>7

\* A transaction that goes through leaves the account able to pay what it offers.
LEMMA ExecuteLedger ==
    ASSUME Sound, Shape, Ledger, Waiting, NEW tx, Offers!Execute(tx)
    PROVE  Ledger'
<1> DEFINE as == tx.actions
<1>1. PICK taken \in SUBSET Offers!Creates(as) :
          /\ offers' = Offers!BookAfter(as, taken)
          /\ created' = [i \in DOMAIN created |->
                IF \E a \in Offers!Creates(as) \ taken : a.intent = i
                THEN created[i] + 1 ELSE created[i]]
          /\ balance' = [s \in Offers!Sides |->
                balance[s] - Amount * Cardinality({a \in taken : Offers!SideOf(a.intent) = s})]
  BY SameSizes DEF Offers!Execute
<1>2. Book(offers) /\ Proper(as) /\ balance \in [Offers!Sides -> Nat]
  BY DEF Offers!Execute, Waiting, Ledger
<1>3. Offers!Executable(as)
  BY DEF Offers!Execute
<1>4. Given \subseteq Given' /\ \A a \in Offers!Creates(as) \ taken : Offers!NewId(a.intent) \in Given'
  BY <1>1, ExecuteCreates
<1>5. Book(offers)'
  <2>1. ASSUME NEW o \in DOMAIN Offers!BookAfter(as, taken) PROVE o \in Given' /\ Offers!BookAfter(as, taken)[o] \in Offers!Offer
    BY <1>2, <1>4, <2>1, BookStays DEF Book
  <2> QED BY <1>1, <2>1 DEF Book
<1> DEFINE T == Matched(taken)
           B == Offers!BookAfter(as, {})
           C == Offers!BookAfter(as, taken)
<1>6. /\ DOMAIN C = (DOMAIN B) \ T /\ T \subseteq DOMAIN B
      /\ \A o \in DOMAIN C : C[o] = B[o]
      /\ \A o \in T : B[o].amount = Amount /\ B[o].side = Offers!SideOf(o[1])
  <2>1. \A a \in as : a.offer # NoOffer => a.offer \in DOMAIN offers
    BY <1>3 DEF Offers!Executable
  <2> HIDE DEF as
  <2> QED BY <1>2, <2>1, BookAfterIs
<1>7. IsFiniteSet(DOMAIN B) /\ \A o \in DOMAIN B : B[o].amount \in Nat
  <2>1. IsFiniteSet(Offers!Creates(as)) /\ Offers!Creates(as) \subseteq as
    BY <1>2, FS_Subset DEF Proper, Offers!Creates
  <2> DEFINE new == {Offers!NewId(a.intent) : a \in Offers!Creates(as)}
  <2>2. IsFiniteSet(new)
    <3>1. [a \in Offers!Creates(as) |-> Offers!NewId(a.intent)] \in Surjection(Offers!Creates(as), new)
      BY DEF Surjection
    <3> QED BY <2>1, <3>1, FS_Surjection
  <2>3. DOMAIN B \subseteq (DOMAIN offers) \cup new
    BY DEF Offers!BookAfter
  <2>4. IsFiniteSet((DOMAIN offers) \cup new)
    BY <1>2, <2>2, FiniteBook, FS_Union
  <2>5. \A o \in DOMAIN B : B[o] \in Offers!Offer
    BY <1>2, BookStays
  <2>6. \A b \in Offers!Offer : b.amount \in Nat
    BY DEF Sound, Offers!LadderAssumption, Offers!Offer
  <2> HIDE DEF new, B
  <2> QED BY <2>3, <2>4, <2>5, <2>6, FS_Subset
<1>8. ASSUME NEW s \in Offers!Sides
      PROVE  balance'[s] \in Nat /\ Offers!Liabilities(C, s) <= balance'[s]
  <2> DEFINE Ts == {o \in T : Offers!SideOf(o[1]) = s}
             as1 == {a \in taken : Offers!SideOf(a.intent) = s}
             n == Cardinality(as1)
  <2>1. IsFiniteSet(as1)
    <3>1. as1 \subseteq as /\ IsFiniteSet(as)
      BY <1>2 DEF Offers!Creates, Proper
    <3> QED BY <3>1, FS_Subset
  <2>2. Cardinality(Ts) = n /\ IsFiniteSet(Ts) /\ n \in Nat
    <3> DEFINE f == [a \in as1 |-> Offers!NewId(a.intent)]
    <3>1. \A a \in taken : a.intent \in Intents \cup {Manual}
      BY <1>2 DEF Offers!Creates, Proper
    <3>2. \A a, b \in taken : a.intent = b.intent => a = b
      BY <1>2 DEF Offers!Creates, Proper
    <3>3. \A a, b \in taken : (Offers!NewId(a.intent) = Offers!NewId(b.intent) => a = b) /\ Offers!NewId(a.intent)[1] = a.intent
      BY <3>1, <3>2, NewIdsNew
    <3>4. f \in Injection(as1, Ts)
      <4>1. \A a \in as1 : f[a] \in Ts
        BY <3>3 DEF Matched
      <4>2. \A a, b \in as1 : f[a] = f[b] => a = b
        BY <3>3
      <4> QED BY <4>1, <4>2 DEF Injection, IsInjective
    <3>5. \A o \in Ts : \E a \in as1 : f[a] = o
      BY <3>3 DEF Matched
    <3>6. f \in Bijection(as1, Ts)
      BY <3>4, <3>5 DEF Bijection, Surjection, Injection
    <3> HIDE DEF f, as1, Ts
    <3> QED BY <2>1, <3>6, SameSize, FS_CardinalityType
  <2>3. Offers!Liabilities(B, s) <= balance[s]
    BY <1>3 DEF Offers!Executable
  <2>4. Ts \in SUBSET Owed(B, s) /\ Owed(C, s) = Owed(B, s) \ Ts
    BY <1>6 DEF Owed
  <2> HIDE DEF Ts, as1, T, B, C
  <2>5. IsFiniteSet(Owed(B, s)) /\ Amounts(B, Owed(B, s))
    BY <1>7, FS_Subset DEF Owed, Amounts
  <2>6. \A o \in Ts : B[o].amount = Amount
    BY <1>6 DEF Ts
  <2>7. Amount \in Nat
    BY DEF Sound, Offers!LadderAssumption
  <2>8. Sum(B, Owed(B, s)) = Amount * Cardinality(Ts) + Sum(B, Owed(B, s) \ Ts)
    BY <2>4, <2>5, <2>6, <2>7, SumLess
  <2>9. IsFiniteSet(Owed(C, s)) /\ Amounts(B, Owed(C, s)) /\ \A o \in Owed(C, s) : B[o].amount = C[o].amount
    <3>1. \A o \in Owed(C, s) : B[o].amount = C[o].amount
      BY <1>6 DEF Owed
    <3>2. Owed(C, s) \subseteq Owed(B, s)
      BY <2>4
    <3> QED BY <3>1, <3>2, <2>5, FS_Subset DEF Amounts
  <2>10. Sum(B, Owed(C, s)) = Sum(C, Owed(C, s)) /\ Sum(B, Owed(C, s)) \in Nat
    BY <2>9, SumSame, SumNat
  <2>11. balance'[s] = balance[s] - Amount * n
    BY <1>1 DEF as1
  <2>12. balance[s] \in Nat /\ Amount * n \in Nat
    BY <1>2, <2>2, <2>7
  <2>13. Sum(C, Owed(C, s)) \in Nat /\ Amount * n + Sum(C, Owed(C, s)) <= balance[s]
    BY <2>2, <2>3, <2>4, <2>8, <2>10, LiabilitiesAdd
  <2>14. Offers!Liabilities(C, s) = Sum(C, Owed(C, s))
    BY LiabilitiesAdd
  <2> QED BY <2>11, <2>12, <2>13, <2>14
<1>9. balance' \in [Offers!Sides -> Nat]
  BY <1>1, <1>8
<1>10. \A s \in Offers!Sides : Offers!Liabilities(offers', s) <= balance'[s]
  BY <1>1, <1>8
<1> QED BY <1>5, <1>9, <1>10 DEF Ledger

\* What is given out depends on the counters of the offers only.
LEMMA SameGiven == ASSUME created' = created PROVE Given' = Given
BY DEF Given

\* The ledger that does not change.
LEMMA SameLedger == ASSUME Ledger, UNCHANGED <<offers, created, balance>> PROVE Ledger'
<1>1. Book(offers)'
  BY SameGiven DEF Ledger, Book
<1> QED BY <1>1 DEF Ledger

\* Taking an offer, or part of it, takes as much from what is owed.
LEMMA FillLedger ==
    ASSUME Sound, Shape, Ledger, NEW o, NEW n, Offers!Fill(o, n)
    PROVE  Ledger' /\ DOMAIN offers' \subseteq DOMAIN offers
<1>1. o \in DOMAIN offers /\ n \in Nat /\ n >= 1 /\ n <= offers[o].amount /\ n \in 1..offers[o].amount
  BY DEF Offers!Fill
<1>2. Book(offers) /\ offers[o] \in Offers!Offer /\ offers[o].amount \in 1..Amount /\ offers[o].side \in Offers!Sides /\ Amount \in Nat
  BY <1>1 DEF Sound, Offers!LadderAssumption, Ledger, Book, Offers!Offer
<1> DEFINE s == offers[o].side
           rest == offers[o].amount - n
<1>3. /\ offers' = IF n = offers[o].amount THEN Offers!Restrict(offers, (DOMAIN offers) \ {o})
                   ELSE [offers EXCEPT ![o].amount = @ - n]
      /\ balance' = [balance EXCEPT ![offers[o].side] = @ - n] /\ created' = created
  BY DEF Offers!Fill
<1>4. /\ rest \in Nat
      /\ DOMAIN offers' = IF rest = 0 THEN (DOMAIN offers) \ {o} ELSE DOMAIN offers
      /\ \A x \in DOMAIN offers' : x # o => offers'[x] = offers[x]
      /\ rest # 0 => offers'[o] = [offers[o] EXCEPT !.amount = rest]
  <2>1. CASE n = offers[o].amount
    BY <1>1, <1>2, <1>3, <2>1 DEF Offers!Restrict
  <2>2. CASE n # offers[o].amount
    BY <1>1, <1>2, <1>3, <2>2
  <2> QED BY <2>1, <2>2
<1>5. Book(offers)'
  <2>1. rest # 0 => [offers[o] EXCEPT !.amount = rest] \in Offers!Offer
    BY <1>1, <1>2, <1>4 DEF Offers!Offer
  <2>2. \A x \in DOMAIN offers' : offers'[x] \in Offers!Offer /\ x \in Given
    BY <1>2, <1>4, <2>1 DEF Book
  <2> QED BY <1>3, <2>2, SameGiven DEF Book
<1>6. DOMAIN offers' \subseteq DOMAIN offers
  BY <1>4
<1> DEFINE S(x) == Owed(offers, x) \ {o}
<1>7. \A x : IsFiniteSet(S(x)) /\ Amounts(offers, S(x)) /\ IsFiniteSet(Owed(offers, x)) /\ Amounts(offers, Owed(offers, x))
  <2>1. \A x : S(x) \in SUBSET DOMAIN offers /\ Owed(offers, x) \in SUBSET DOMAIN offers
    BY DEF Owed
  <2> HIDE DEF S
  <2> QED BY <1>2, <2>1, FiniteBook
<1>8. \A x : Sum(offers', S(x)) = Sum(offers, S(x)) /\ Sum(offers, S(x)) \in Nat
  <2> SUFFICES ASSUME NEW x PROVE Sum(offers', S(x)) = Sum(offers, S(x)) /\ Sum(offers, S(x)) \in Nat
    OBVIOUS
  <2>1. \A y \in S(x) : offers'[y].amount = offers[y].amount
    BY <1>4 DEF Owed
  <2> HIDE DEF S
  <2> QED BY <1>7, <2>1, SumSame, SumNat
<1>9. Offers!Liabilities(offers, s) = offers[o].amount + Sum(offers, S(s))
  <2>1. o \in Owed(offers, s)
    BY <1>1 DEF Owed
  <2> HIDE DEF s
  <2> QED BY <1>7, <2>1, SumWithout, LiabilitiesAdd
<1>10. Offers!Liabilities(offers', s) = rest + Sum(offers', S(s))
  <2>1. CASE rest = 0
    <3>1. Owed(offers', s) = S(s)
      BY <1>4, <2>1 DEF Owed
    <3> QED BY <1>8, <2>1, <3>1, LiabilitiesAdd
  <2>2. CASE rest # 0
    <3>1. Owed(offers', s) = S(s) \cup {o} /\ o \in DOMAIN offers' /\ offers'[o].amount = rest
      BY <1>1, <1>2, <1>4, <2>2 DEF Owed, Offers!Offer
    <3>2. IsFiniteSet(S(s) \cup {o}) /\ (S(s) \cup {o}) \ {o} = S(s)
      BY <1>7, FS_AddElement
    <3>3. Amounts(offers', S(s) \cup {o})
      BY <1>4, <1>7, <3>1 DEF Amounts, Owed
    <3>4. o \in S(s) \cup {o}
      OBVIOUS
    <3> HIDE DEF S, s, rest
    <3>5. Sum(offers', S(s) \cup {o}) = offers'[o].amount + Sum(offers', (S(s) \cup {o}) \ {o})
      BY <3>2, <3>3, <3>4, SumWithout
    <3> QED BY <3>1, <3>2, <3>5, LiabilitiesAdd
  <2> QED BY <2>1, <2>2
<1>11. ASSUME NEW x \in Offers!Sides PROVE balance'[x] \in Nat /\ Offers!Liabilities(offers', x) <= balance'[x]
  <2>1. balance[x] \in Nat /\ Offers!Liabilities(offers, x) <= balance[x] /\ DOMAIN balance = Offers!Sides
    BY DEF Ledger
  <2>2. CASE x = s
    <3>1. balance'[x] = balance[x] - n
      BY <1>3, <2>1, <2>2
    <3>2. Offers!Liabilities(offers, x) = offers[o].amount + Sum(offers, S(x)) /\ Offers!Liabilities(offers', x) = rest + Sum(offers, S(x))
          /\ Sum(offers, S(x)) \in Nat
      BY <1>8, <1>9, <1>10, <2>2
    <3>3. offers[o].amount \in Nat /\ rest = offers[o].amount - n
      BY <1>2
    <3> HIDE DEF S, s, rest
    <3> QED BY <1>1, <1>4, <2>1, <3>1, <3>2, <3>3
  <2>3. CASE x # s
    <3>1. balance'[x] = balance[x]
      BY <1>3, <2>1, <2>3
    <3>2. Owed(offers, x) = S(x)
      BY <1>2, <2>3 DEF Owed
    <3>3. Owed(offers', x) = S(x)
      BY <1>2, <1>4, <2>3 DEF Owed, Offers!Offer
    <3> HIDE DEF S
    <3> QED BY <1>8, <2>1, <3>1, <3>2, <3>3, LiabilitiesAdd
  <2> QED BY <2>2, <2>3
<1>12. balance' \in [Offers!Sides -> Nat]
  <2>1. balance' = [x \in Offers!Sides |-> balance'[x]]
    BY <1>3 DEF Ledger
  <2> QED BY <2>1, <1>11
<1> QED BY <1>5, <1>6, <1>11, <1>12 DEF Ledger

------------------------------------------------------------------------------
(* What the cycle and the command hold.                                       *)

\* A cycle and a command that hold nothing.
LEMMA IdleIs ==
    /\ DOMAIN Offers!Idle = {"pc", "desired", "spendable", "live", "actions", "records", "answer", "ids"}
    /\ Offers!Idle.pc = "idle" /\ DOMAIN Offers!Idle.desired = {} /\ DOMAIN Offers!Idle.live = {} /\ Offers!Idle.actions = {} /\ DOMAIN Offers!Idle.records = {}
    /\ Offers!Idle.answer = "none" /\ DOMAIN Offers!Idle.ids = {}
    /\ DOMAIN Offers!NoCommand = {"pc", "live", "all", "records", "answer"} /\ DOMAIN Offers!NoCommand.live = {}
    /\ Offers!NoCommand.pc = "idle" /\ DOMAIN Offers!NoCommand.records = {} /\ Offers!NoCommand.answer = "none"
BY DEF Offers!Idle, Offers!NoCommand

\* What is well formed stays so while more identifiers are given out.
LEMMA Lasts ==
    ASSUME Given \subseteq Given'
    PROVE  /\ \A b : Book(b) => Book(b)'
           /\ \A r : Row(r) => Row(r)'
           /\ \A rs : Rows(rs) => Rows(rs)'
           /\ \A as : Proper(as) => Proper(as)'
<1>1. \A b : Book(b) => Book(b)'
  BY DEF Book
<1>2. \A r : Row(r) => Row(r)'
  BY DEF Row
<1>3. \A rs : Rows(rs) => Rows(rs)'
  BY <1>2 DEF Rows
<1>4. \A as : Proper(as) => Proper(as)'
  BY DEF Proper
<1> QED BY <1>1, <1>2, <1>3, <1>4

\* The memory of the cycle and of the command, part by part.
OfCycle(c) ==
    /\ DOMAIN c = DOMAIN Offers!Idle
    /\ DOMAIN c.desired \subseteq Intents
    /\ \A i \in DOMAIN c.desired : c.desired[i] \in Nat
    /\ Book(c.live)
    /\ Proper(c.actions)
    /\ Rows(c.records)
    /\ c.answer \in Answers
    /\ \A a \in DOMAIN c.ids : c.ids[a] \in Given \cup {NoOffer}

OfCommand(c) == DOMAIN c = DOMAIN Offers!NoCommand /\ Book(c.live) /\ Rows(c.records) /\ c.answer \in Answers

\* The memory is these two.
LEMMA MemoryIs == Memory <=> OfCycle(cycle) /\ OfCommand(command)
BY DEF Memory, OfCycle, OfCommand

\* The memory after a step, of what the step leaves in it.
LEMMA MemoryNext == \A c, d : cycle' = c /\ command' = d /\ OfCycle(c)' /\ OfCommand(d)' => Memory'
BY DEF Memory, OfCycle, OfCommand, Book, Row, Rows, Proper

\* What the memory holds stays well formed while more identifiers are given out.
LEMMA OfLasts ==
    ASSUME Given \subseteq Given'
    PROVE  \A c : (OfCycle(c) => OfCycle(c)') /\ (OfCommand(c) => OfCommand(c)')
BY Lasts DEF OfCycle, OfCommand

\* A cycle that holds nothing is well formed, at whatever step it is.
LEMMA IdleOf == OfCycle(Offers!Idle) /\ \A l : OfCycle([Offers!Idle EXCEPT !.pc = l])
<1>1. ASSUME NEW c, DOMAIN c = DOMAIN Offers!Idle,
             DOMAIN c.desired = {}, DOMAIN c.live = {}, c.actions = {}, DOMAIN c.records = {}, c.answer = "none", DOMAIN c.ids = {}
      PROVE  OfCycle(c)
  <2>1. Proper({})
    BY FS_EmptySet DEF Proper
  <2> QED BY <1>1, <2>1 DEF OfCycle, Book, Rows, Answers
<1>2. ASSUME NEW l PROVE OfCycle([Offers!Idle EXCEPT !.pc = l])
  BY <1>1, IdleIs
<1> QED BY <1>1, <1>2, IdleIs

\* So is a command.
LEMMA NoCommandOf == OfCommand(Offers!NoCommand)
BY IdleIs DEF OfCommand, Book, Rows, Answers

\* Both when nothing new is given out.
LEMMA MemoryKept ==
    ASSUME created' = created, OfCycle(cycle'), OfCommand(command')
    PROVE  Memory'
<1>1. PICK c, d : c = cycle' /\ d = command'
  OBVIOUS
<1>2. OfCycle(c)' /\ OfCommand(d)'
  BY <1>1, SameGiven, OfLasts
<1> QED BY <1>1, <1>2, MemoryNext

\* The prices, the bounds and the records do not change.
LEMMA SameShape ==
    ASSUME Shape, created' = created, UNCHANGED <<faults, price, moves, mishaps, managed>>
    PROVE  Shape'
<1>1. Rows(managed)'
  BY SameGiven DEF Shape, Rows, Row
<1> QED BY <1>1 DEF Shape

\* A step of the cycle that neither plans nor waits for a transaction.
LEMMA CalmStep ==
    ASSUME Waiting, Gone, Peace, created' = created, UNCHANGED <<faults, offers, managed, inflight, command>>,
           cycle.pc \notin {"submit", "wait"}, cycle'.pc \notin {"submit", "wait"}, cycle'.answer = "none",
           cycle'.pc = "plan" => cycle'.live = offers
    PROVE  Waiting' /\ Gone' /\ Peace'
<1>0. \A as : Proper(as) => Proper(as)'
  BY SameGiven, Lasts
<1>1. Waiting'
  BY <1>0 DEF Waiting
<1>2. Gone'
  BY DEF Gone, Offers!CanceledIsGone
<1>3. cycle.answer = "none"
  BY DEF Waiting
<1>4. Peace'
  BY <1>3 DEF Peace, Named, Offers!OwnOffers
<1> QED BY <1>1, <1>2, <1>4

------------------------------------------------------------------------------
(* The cycle.                                                                 *)

\* The cycle computes the orders it wants.
LEMMA GenerateOrdersKeeps == ASSUME Sound, RecInvariant, Offers!GenerateOrders PROVE RecInvariant'
<1>1. UNCHANGED <<faults, price, moves, mishaps, offers, created, balance, trades, managed, inflight, command>>
  BY DEF Offers!GenerateOrders, Offers!envVars, Offers!ledgerVars, Offers!storeVars
<1>2. Shape' /\ Ledger'
  BY <1>1, SameShape, SameLedger DEF RecInvariant
<1>3. cycle.pc = "idle" /\ cycle'.pc = "sync" /\ cycle'.answer = cycle.answer /\ cycle.answer = "none"
  BY DEF Offers!GenerateOrders, RecInvariant, Memory, Waiting, Offers!Idle
<1>4. \A i \in Offers!Ladder : Offers!PriceOf(i) \in Nat
  <2>1. price \in Nat /\ \A i \in Intents : Offset[i] \in Nat
    BY DEF Sound, Offers!LadderAssumption, RecInvariant, Shape
  <2> QED BY <2>1 DEF Offers!GenerateOrders, Offers!Ladder, Offers!PriceOf
<1>5. OfCycle(cycle') /\ OfCommand(command')
  <2>1. OfCycle(cycle) /\ OfCommand(command)
    BY MemoryIs DEF RecInvariant
  <2>2. cycle' = [cycle EXCEPT !.pc = "sync", !.desired = [i \in Offers!Ladder |-> Offers!PriceOf(i)],
                               !.spendable = [s \in Offers!Sides |-> Offers!Spendable(s)]]
    BY DEF Offers!GenerateOrders
  <2>3. /\ DOMAIN cycle' = DOMAIN cycle /\ cycle'.desired = [i \in Offers!Ladder |-> Offers!PriceOf(i)]
        /\ cycle'.live = cycle.live /\ cycle'.actions = cycle.actions /\ cycle'.records = cycle.records
        /\ cycle'.answer = cycle.answer /\ cycle'.ids = cycle.ids
    BY <2>1, <2>2, IdleIs DEF OfCycle
  <2>4. Offers!Ladder \subseteq Intents
    BY DEF Offers!Ladder
  <2> QED BY <1>1, <1>4, <2>1, <2>3, <2>4 DEF OfCycle
<1>6. Memory'
  BY <1>1, <1>5, MemoryKept
<1>7. Waiting' /\ Gone' /\ Peace'
  BY <1>1, <1>3, CalmStep DEF RecInvariant
<1> QED BY <1>2, <1>6, <1>7 DEF RecInvariant

\* The steps that only go on, or give up.
LEMMA GoesOnKeeps ==
    ASSUME RecInvariant, UNCHANGED <<faults, price, moves, mishaps, offers, created, balance, managed, inflight, command>>,
           cycle.pc \notin {"submit", "wait"}, NEW l, l \notin {"submit", "wait"},
           \/ cycle' = Offers!Idle
           \/ cycle' = Offers!To(l) /\ l # "plan"
           \/ cycle' = [cycle EXCEPT !.pc = l, !.live = offers]
    PROVE  RecInvariant'
<1>1. Shape' /\ Ledger'
  BY SameShape, SameLedger DEF RecInvariant
<1>2. OfCycle(cycle) /\ OfCommand(command) /\ cycle.answer = "none" /\ Book(offers)
  BY MemoryIs DEF RecInvariant, Waiting, Ledger
<1>3. OfCycle(cycle') /\ cycle'.answer = "none" /\ cycle'.pc \notin {"submit", "wait"} /\ (cycle'.pc = "plan" => cycle'.live = offers)
  <2>1. CASE cycle' = Offers!Idle
    BY <2>1, IdleIs, IdleOf
  <2>2. CASE cycle' = Offers!To(l) /\ l # "plan"
    <3>1. /\ DOMAIN cycle' = DOMAIN cycle /\ cycle'.desired = cycle.desired /\ cycle'.pc = l
          /\ cycle'.live = cycle.live /\ cycle'.actions = cycle.actions /\ cycle'.records = cycle.records
          /\ cycle'.answer = cycle.answer /\ cycle'.ids = cycle.ids
      BY <1>2, <2>2, IdleIs DEF Offers!To, OfCycle
    <3> QED BY <1>2, <2>2, <3>1 DEF OfCycle
  <2>3. CASE cycle' = [cycle EXCEPT !.pc = l, !.live = offers]
    <3>1. /\ DOMAIN cycle' = DOMAIN cycle /\ cycle'.desired = cycle.desired /\ cycle'.pc = l
          /\ cycle'.live = offers /\ cycle'.actions = cycle.actions /\ cycle'.records = cycle.records
          /\ cycle'.answer = cycle.answer /\ cycle'.ids = cycle.ids
      BY <1>2, <2>3, IdleIs DEF OfCycle
    <3> QED BY <1>2, <3>1 DEF OfCycle
  <2> QED BY <2>1, <2>2, <2>3
<1>4. Memory'
  BY <1>2, <1>3, MemoryKept
<1>5. Waiting' /\ Gone' /\ Peace'
  BY <1>3, CalmStep DEF RecInvariant
<1> QED BY <1>1, <1>4, <1>5 DEF RecInvariant

\* It counts the fills it had not seen.
LEMMA SyncFillsKeeps == ASSUME RecInvariant, Offers!SyncFills PROVE RecInvariant'
<1>1. UNCHANGED <<faults, price, moves, mishaps, offers, created, balance, managed, inflight, command>>
  BY DEF Offers!SyncFills, Offers!envVars, Offers!ledgerVars
<1>2. cycle.pc \notin {"submit", "wait"} /\ (cycle' = Offers!To("risk") \/ cycle' = Offers!Idle)
  BY DEF Offers!SyncFills
<1>3. PICK l : l = "risk" /\ l \notin {"plan", "submit", "wait"}
  OBVIOUS
<1> QED BY <1>1, <1>2, <1>3, GoesOnKeeps

\* It checks the limits and the funds.
LEMMA CheckRiskKeeps == ASSUME RecInvariant, Offers!CheckRisk PROVE RecInvariant'
<1>1. UNCHANGED <<faults, price, moves, mishaps, offers, created, balance, managed, inflight, command>>
  BY DEF Offers!CheckRisk, Offers!envVars, Offers!ledgerVars, Offers!storeVars
<1>2. cycle.pc \notin {"submit", "wait"} /\ (cycle' = Offers!To("offers") \/ cycle' = Offers!Idle)
  BY DEF Offers!CheckRisk
<1>3. PICK l : l = "offers" /\ l \notin {"plan", "submit", "wait"}
  OBVIOUS
<1> QED BY <1>1, <1>2, <1>3, GoesOnKeeps

\* It reads the offers of the account.
LEMMA ReadOffersKeeps == ASSUME RecInvariant, Offers!ReadOffers PROVE RecInvariant'
<1>1. UNCHANGED <<faults, price, moves, mishaps, offers, created, balance, managed, inflight, command>>
  BY DEF Offers!ReadOffers, Offers!envVars, Offers!ledgerVars, Offers!storeVars
<1>2. cycle.pc \notin {"submit", "wait"} /\ cycle' = [cycle EXCEPT !.pc = "plan", !.live = offers]
  BY DEF Offers!ReadOffers
<1>3. PICK l : l = "plan" /\ l \notin {"submit", "wait"}
  OBVIOUS
<1> QED BY <1>1, <1>2, <1>3, GoesOnKeeps

\* Records saved over the stored ones are well formed.
LEMMA SavedRows ==
    ASSUME Shape, NEW rs, Rows(rs)
    PROVE  Offers!Saved(rs) \in [Intents -> Offers!Managed] /\ Rows(Offers!Saved(rs))
<1>1. \A i \in Intents : Row(managed[i]) /\ managed[i] \in Offers!Managed
  BY DEF Shape, Rows
<1>2. \A i \in DOMAIN rs : Row(rs[i]) /\ rs[i] \in Offers!Managed /\ i \in Intents
  BY DEF Rows, Row
<1>3. ASSUME NEW i \in Intents PROVE Row(Offers!Saved(rs)[i]) /\ Offers!Saved(rs)[i] \in Offers!Managed
  <2>1. CASE i \in DOMAIN rs
    <3> DEFINE o == IF rs[i].offer = NoOffer THEN managed[i].offer ELSE rs[i].offer
    <3>1. Offers!Saved(rs)[i] = [rs[i] EXCEPT !.offer = o]
      BY <2>1 DEF Offers!Saved
    <3>2. o \in Given \cup {NoOffer} /\ o \in Offers!OfferIds \cup {NoOffer}
      BY <1>1, <1>2, <2>1 DEF Row, Given
    <3> HIDE DEF o
    <3> QED BY <3>1, <3>2, <1>2, <2>1 DEF Row, Offers!Managed
  <2>2. CASE i \notin DOMAIN rs
    BY <1>1, <2>2 DEF Offers!Saved
  <2> QED BY <2>1, <2>2
<1>4. Offers!Saved(rs) = [i \in Intents |-> Offers!Saved(rs)[i]]
  BY DEF Offers!Saved
<1> QED BY <1>3, <1>4 DEF Rows

\* A saved record has the identifier of the stored one when it has none itself.
LEMMA SavedIs ==
    ASSUME NEW rs, NEW i \in Intents
    PROVE  /\ i \notin DOMAIN rs => Offers!Saved(rs)[i] = managed[i]
           /\ i \in DOMAIN rs /\ Row(rs[i]) =>
                 /\ Offers!Saved(rs)[i].status = rs[i].status
                 /\ Offers!Saved(rs)[i].offer = IF rs[i].offer = NoOffer THEN managed[i].offer ELSE rs[i].offer
BY DEF Offers!Saved, Row, Offers!Managed

\* A record that is marked as recent says the same of its offer.
LEMMA TouchIs ==
    ASSUME NEW r, r \in Offers!Managed
    PROVE  /\ Offers!Touch(r) \in Offers!Managed /\ Offers!Touch(r).offer = r.offer /\ Offers!Touch(r).status = r.status
           /\ (Row(r) => Row(Offers!Touch(r)))
<1>1. Offers!Touch(r) \in Offers!Managed /\ Offers!Touch(r).offer = r.offer /\ Offers!Touch(r).status = r.status
  BY DEF Offers!Touch, Offers!Managed
<1> QED BY <1>1 DEF Row

\* The turns of the operations are numbers.
LEMMA TurnsCount == ASSUME Sound PROVE Offers!Afterwards \in Nat /\ \A i \in Intents : Level[i] \in Nat
<1>1. Level \in [Intents -> Nat] /\ IsFiniteSet(Intents) /\ Intents # {}
  BY FinitelyMany DEF Sound, Offers!LadderAssumption
<1>2. Offers!Range(Level) \subseteq Nat /\ Offers!Range(Level) # {} /\ IsFiniteSet(Offers!Range(Level))
  <2>1. Level \in Surjection(Intents, Offers!Range(Level))
    BY <1>1 DEF Surjection, Offers!Range
  <2> QED BY <1>1, <2>1, FS_Surjection DEF Offers!Range
<1>3. PICK m \in Offers!Range(Level) : \A n \in Offers!Range(Level) : n <= m
  BY <1>2, Greatest
<1>4. m \in Offers!Range(Level) /\ \A n \in Offers!Range(Level) : m >= n
  BY <1>2, <1>3
<1>5. Offers!Max(Offers!Range(Level)) \in Offers!Range(Level)
  BY <1>4 DEF Offers!Max
<1> QED BY <1>1, <1>2, <1>5 DEF Offers!Afterwards

\* What the plan has for one intent.
Planned(i, p) ==
    /\ Row(p.record)
    /\ p.actions \subseteq Offers!Actions /\ IsFiniteSet(p.actions)
    /\ \A a \in p.actions : a.intent = i /\ a.offer \in Given \cup {NoOffer}
    /\ \A a, b \in p.actions : a.kind # "cancel" /\ b.kind # "cancel" => a = b
    /\ p.record.status = "canceled" => managed[i].status = "canceled" /\ p.record.offer = managed[i].offer
    /\ p.record.offer = managed[i].offer \/ managed[i].offer = NoOffer
    /\ p.actions # {} =>
          /\ p.record.offer = managed[i].offer
          /\ \/ \E a \in p.actions : a.kind # "cancel"
             \/ managed[i].offer # NoOffer /\ \E a \in p.actions : a.kind = "cancel" /\ a.offer = managed[i].offer
    /\ \A a \in p.actions : a.kind = "update" => a.offer = managed[i].offer
    /\ \A a \in p.actions : a.kind = "cancel" => a.offer = managed[i].offer /\ a.offer # NoOffer
    /\ \A a \in p.actions : a.kind = "create" =>
          \/ managed[i].offer \notin DOMAIN cycle.live
          \/ \E b \in p.actions : b.kind = "cancel" /\ b.offer = managed[i].offer

\* An operation of the plan is one.
LEMMA OpIs ==
    ASSUME Sound, NEW k \in {"create", "update", "cancel"}, NEW i \in Intents, NEW o \in Given \cup {NoOffer}, NEW p \in Nat
    PROVE  /\ Offers!Op(k, i, o, p) \in Offers!Actions /\ Offers!Op(k, i, o, p).kind = k
           /\ Offers!Op(k, i, o, p).intent = i /\ Offers!Op(k, i, o, p).offer = o
<1>1. o \in Offers!OfferIds \cup {NoOffer}
  BY DEF Given
<1> QED BY <1>1, TurnsCount DEF Offers!Op, Offers!Actions

\* The plan for an order that is wanted.
LEMMA ForDesired ==
    ASSUME Sound, RecInvariant, NEW i \in Offers!Desired, NEW o \in Offers!OfferIds \cup {NoOffer}, Offers!Adopts(i, o)
    PROVE  Planned(i, Offers!PlanDesired(i, o))
<1> DEFINE r == Offers!Refreshed(i)
           p == cycle.desired[i]
           fit == Offers!Candidates(cycle.live, Side[i], p, Amount)
           live == o \in DOMAIN cycle.live
           right == live /\ Offers!Equivalent(cycle.live[o], Side[i], p, Amount)
           m == managed[i].offer
<1>0. i \in Intents /\ Row(managed[i]) /\ managed[i] \in Offers!Managed /\ p \in Nat /\ m \in Given \cup {NoOffer}
      /\ DOMAIN cycle.live \subseteq Given
  BY DEF RecInvariant, Shape, Rows, Memory, Offers!Desired, Row, Book
<1>1. r \in Offers!Managed /\ r.offer = m /\ r.price = p /\ (r.status = "canceled" => managed[i].status = "canceled")
      /\ Row(r)
  <2>1. Amount \in 0..Amount
    BY DEF Sound, Offers!LadderAssumption
  <2>2. r \in Offers!Managed /\ r.offer = m /\ r.price = p /\ (r.status = "canceled" => managed[i].status = "canceled")
    BY <1>0, <2>1 DEF Offers!Refreshed, Offers!Managed, Offers!Statuses
  <2> QED BY <1>0, <2>2 DEF Row
<1>2. (m # NoOffer \/ fit = {} => o = m) /\ (m = NoOffer /\ fit # {} => o \in fit)
  BY DEF Offers!Adopts
<1>3. o \in Given \cup {NoOffer}
  BY <1>0, <1>2 DEF Offers!Candidates
<1>4. m = NoOffer /\ fit # {} => right
  BY <1>2 DEF Offers!Candidates
<1>5. o = m \/ (m = NoOffer /\ right)
  BY <1>2, <1>4
<1>6. Offers!PlanDesired(i, o) =
        IF right THEN [record |-> Offers!Touch([r EXCEPT !.status = "open", !.offer = o]), actions |-> {}]
        ELSE IF Offers!Awaited(r, o) THEN [record |-> r, actions |-> {}]
        ELSE IF live THEN [record |-> Offers!Touch(r), actions |-> Offers!Replace(i, o, p)]
        ELSE [record |-> Offers!Touch([r EXCEPT !.status =
                            IF o # NoOffer /\ @ \in {"open", "submitted"} THEN "closed" ELSE @]),
              actions |-> {Offers!Op("create", i, NoOffer, p)}]
  BY <1>1 DEF Offers!PlanDesired
<1> HIDE DEF r, p, fit, live, right, m
<1>p. PICK pl : pl = Offers!PlanDesired(i, o)
  OBVIOUS
<1> SUFFICES Planned(i, pl)
  BY <1>p
<1>7. CASE right
  <2> DEFINE q == [r EXCEPT !.status = "open", !.offer = o]
  <2>1. q \in Offers!Managed /\ q.offer = o /\ q.status = "open"
    BY <1>1 DEF Offers!Managed, Offers!Statuses
  <2>2. pl.actions = {} /\ pl.record = Offers!Touch(q)
    BY <1>6, <1>p, <1>7
  <2>3. Row(q)
    BY <1>3, <2>1 DEF Row
  <2>4. Row(pl.record) /\ pl.record.offer = o /\ pl.record.status = "open"
    BY <2>1, <2>2, <2>3, TouchIs
  <2> HIDE DEF q
  <2> QED BY <1>5, <2>2, <2>4, FS_EmptySet DEF Planned, m
<1>8. CASE ~right /\ Offers!Awaited(r, o)
  <2>1. pl.actions = {} /\ pl.record = r
    BY <1>6, <1>p, <1>8
  <2> QED BY <1>1, <2>1, FS_EmptySet DEF Planned, m
<1>9. CASE ~right /\ ~Offers!Awaited(r, o) /\ live
  <2>1. pl.actions = Offers!Replace(i, o, p) /\ pl.record = Offers!Touch(r)
    BY <1>6, <1>p, <1>9
  <2>2. Row(pl.record) /\ pl.record.offer = m /\ (pl.record.status = "canceled" => managed[i].status = "canceled")
    BY <1>1, <2>1, TouchIs
  <2>3. o = m /\ o # NoOffer /\ o \in Given
    BY <1>0, <1>5, <1>9, NoOfferApart DEF live, Given
  <2> DEFINE c == Offers!Op("cancel", i, o, p)
             n == Offers!Op("create", i, NoOffer, p)
             u == Offers!Op("update", i, o, p)
  <2>4. /\ c \in Offers!Actions /\ c.kind = "cancel" /\ c.intent = i /\ c.offer = o
        /\ n \in Offers!Actions /\ n.kind = "create" /\ n.intent = i /\ n.offer = NoOffer
        /\ u \in Offers!Actions /\ u.kind = "update" /\ u.intent = i /\ u.offer = o
    BY <1>0, <1>3, OpIs
  <2>5. pl.actions = {c, n} \/ pl.actions = {u}
    BY <2>1 DEF Offers!Replace
  <2> HIDE DEF c, n, u
  <2>6. IsFiniteSet(pl.actions)
    <3>1. IsFiniteSet({c}) /\ IsFiniteSet({u}) /\ IsFiniteSet({c} \cup {n})
      BY FS_Singleton, FS_AddElement
    <3>2. {c, n} = {c} \cup {n}
      OBVIOUS
    <3> QED BY <2>5, <3>1, <3>2
  <2>7. CASE pl.actions = {c, n}
    BY <2>2, <2>3, <2>4, <2>6, <2>7 DEF Planned, m
  <2>8. CASE pl.actions = {u}
    BY <2>2, <2>3, <2>4, <2>6, <2>8 DEF Planned, m
  <2> QED BY <2>5, <2>7, <2>8
<1>10. CASE ~right /\ ~Offers!Awaited(r, o) /\ ~live
  <2> DEFINE q == [r EXCEPT !.status = IF o # NoOffer /\ @ \in {"open", "submitted"} THEN "closed" ELSE @]
             n == Offers!Op("create", i, NoOffer, p)
  <2>1. pl.actions = {n} /\ pl.record = Offers!Touch(q)
    BY <1>6, <1>p, <1>10
  <2>2. q \in Offers!Managed /\ q.offer = m /\ (q.status = "canceled" => managed[i].status = "canceled")
    BY <1>1 DEF Offers!Managed, Offers!Statuses
  <2>3. Row(q)
    BY <1>0, <2>2 DEF Row
  <2>4. Row(pl.record) /\ pl.record.offer = m /\ (pl.record.status = "canceled" => managed[i].status = "canceled")
    BY <2>1, <2>2, <2>3, TouchIs
  <2>5. n \in Offers!Actions /\ n.kind = "create" /\ n.intent = i /\ n.offer = NoOffer /\ IsFiniteSet({n})
    <3>1. NoOffer \in Given \cup {NoOffer} /\ "create" \in {"create", "update", "cancel"}
      OBVIOUS
    <3>2. n \in Offers!Actions /\ n.kind = "create" /\ n.intent = i /\ n.offer = NoOffer
      BY <1>0, <3>1, OpIs
    <3> QED BY <3>2, FS_Singleton
  <2>6. m \notin DOMAIN cycle.live
    BY <1>5, <1>10 DEF live
  <2> HIDE DEF q, n
  <2> QED BY <2>1, <2>4, <2>5, <2>6 DEF Planned, m
<1> QED BY <1>7, <1>8, <1>9, <1>10

\* The plan for an order that is not.
LEMMA ForUnwanted ==
    ASSUME Sound, RecInvariant, NEW i \in Intents, managed[i].offer # NoOffer
    PROVE  Planned(i, Offers!PlanUnwanted(i))
<1> DEFINE r == managed[i]
<1>p. PICK pl : pl = Offers!PlanUnwanted(i)
  OBVIOUS
<1> SUFFICES Planned(i, pl)
  BY <1>p
<1>0. Row(r) /\ r \in Offers!Managed /\ r.offer \in Given /\ Book(cycle.live)
  BY DEF RecInvariant, Shape, Rows, Memory, Row
<1>1. CASE r.offer \in DOMAIN cycle.live
  <2> DEFINE c == [kind |-> "cancel", intent |-> i, offer |-> r.offer,
                   price |-> cycle.live[r.offer].price, turn |-> Offers!Afterwards + Level[i]]
  <2>1. pl.record = r /\ pl.actions = {c}
    BY <1>1, <1>p DEF Offers!PlanUnwanted
  <2>2. cycle.live[r.offer].price \in Nat /\ Offers!Afterwards + Level[i] \in Nat /\ r.offer \in Offers!OfferIds
    BY <1>0, <1>1, TurnsCount DEF Book, Offers!Offer, Given
  <2>3. c \in Offers!Actions /\ c.kind = "cancel" /\ c.intent = i /\ c.offer = r.offer /\ IsFiniteSet({c})
    BY <2>2, FS_Singleton DEF Offers!Actions
  <2> HIDE DEF c
  <2> QED BY <1>0, <2>1, <2>3 DEF Planned
<1>2. CASE r.offer \notin DOMAIN cycle.live
  <2> DEFINE q == [r EXCEPT !.status = "closed"]
  <2>1. pl.record = Offers!Touch(q) /\ pl.actions = {}
    BY <1>2, <1>p DEF Offers!PlanUnwanted
  <2>2. q \in Offers!Managed /\ q.offer = r.offer /\ q.status = "closed"
    BY <1>0 DEF Offers!Managed, Offers!Statuses
  <2>3. Row(q)
    BY <1>0, <2>2 DEF Row
  <2>4. Row(pl.record) /\ pl.record.offer = r.offer /\ pl.record.status = "closed"
    BY <2>1, <2>2, <2>3, TouchIs
  <2> HIDE DEF q
  <2> QED BY <2>1, <2>4, FS_EmptySet DEF Planned
<1> QED BY <1>1, <1>2

\* The plan has these two.
LEMMA PlanIs ==
    ASSUME Sound, RecInvariant, NEW id \in Offers!Adoptions
    PROVE  /\ DOMAIN Offers!Plan(id) \subseteq Intents
           /\ \A i \in DOMAIN Offers!Plan(id) : Planned(i, Offers!Plan(id)[i])
<1> DEFINE unwanted == {i \in Intents \ Offers!Desired : managed[i].offer # NoOffer}
<1>1. PICK plan : plan = Offers!Plan(id)
  OBVIOUS
<1>2. Offers!Desired \subseteq Intents /\ id \in [Offers!Desired -> Offers!OfferIds \cup {NoOffer}]
      /\ \A i \in Offers!Desired : Offers!Adopts(i, id[i])
  BY DEF RecInvariant, Memory, Offers!Desired, Offers!Adoptions
<1>3. plan = [i \in Offers!Desired \cup unwanted |->
                 IF i \in Offers!Desired THEN Offers!PlanDesired(i, id[i]) ELSE Offers!PlanUnwanted(i)]
  BY <1>1 DEF Offers!Plan
<1>4. \A i \in Offers!Desired : Planned(i, plan[i])
  BY <1>2, <1>3, ForDesired
<1>5. \A i \in unwanted : Planned(i, plan[i])
  <2> SUFFICES ASSUME NEW i \in unwanted PROVE Planned(i, plan[i])
    OBVIOUS
  <2>1. i \in Intents /\ managed[i].offer # NoOffer /\ plan[i] = Offers!PlanUnwanted(i)
    BY <1>3
  <2> QED BY <2>1, ForUnwanted
<1>6. DOMAIN plan = Offers!Desired \cup unwanted
  BY <1>3
<1> QED BY <1>1, <1>2, <1>4, <1>5, <1>6

\* The plan as a whole.
LEMMA PlanWithIs ==
    ASSUME Sound, RecInvariant, NEW id \in Offers!Adoptions, Offers!PlanWith(id)
    PROVE  \E plan, orphans :
             /\ DOMAIN plan \subseteq Intents /\ \A i \in DOMAIN plan : Planned(i, plan[i])
             /\ Proper(cycle'.actions)
             /\ cycle'.actions = (UNION {plan[i].actions : i \in DOMAIN plan}) \cup orphans
             /\ \A a \in orphans : a.kind = "cancel" /\ a.intent = NoOffer
             /\ managed' = Offers!Saved([i \in DOMAIN plan |-> plan[i].record])
             /\ cycle'.records = [i \in {j \in DOMAIN plan : plan[j].actions # {}} |-> plan[i].record]
             /\ cycle'.pc \in {"resync", "submit"} /\ DOMAIN cycle'.live = {}
             /\ DOMAIN cycle' = DOMAIN cycle /\ cycle'.desired = cycle.desired
             /\ cycle'.answer = cycle.answer /\ cycle'.ids = cycle.ids
<1> DEFINE pl0  == Offers!Plan(id)
           owned == {managed[i].offer : i \in Intents} \cup {id[i] : i \in Offers!Desired}
           lone == IF CancelOrphans THEN (DOMAIN cycle.live) \ owned ELSE {}
           or0 == {[kind |-> "cancel", intent |-> NoOffer, offer |-> o,
                    price |-> cycle.live[o].price, turn |-> 2 * Offers!Afterwards] : o \in lone}
           ac0 == (UNION {pl0[i].actions : i \in DOMAIN pl0}) \cup or0
           rec0 == [i \in DOMAIN pl0 |-> pl0[i].record]
<1>1. PICK plan, orphans, actions, records :
          plan = pl0 /\ orphans = or0 /\ actions = ac0 /\ records = rec0
  OBVIOUS
<1>2. /\ managed' = Offers!Saved(records)
      /\ cycle' = [cycle EXCEPT !.pc = IF actions = {} THEN "resync" ELSE "submit",
                                !.actions = actions, !.live = <<>>,
                                !.records = Offers!Restrict(records, {i \in DOMAIN records : plan[i].actions # {}})]
  BY <1>1 DEF Offers!PlanWith
<1>3. Offers!Desired \subseteq Intents /\ Book(cycle.live) /\ DOMAIN cycle = DOMAIN Offers!Idle
  BY DEF RecInvariant, Memory, Offers!Desired
<1>4. DOMAIN plan \subseteq Intents /\ \A i \in DOMAIN plan : Planned(i, plan[i])
  BY <1>1, PlanIs
<1>5. /\ IsFiniteSet(orphans)
      /\ \A a \in orphans : a.kind = "cancel" /\ a.intent = NoOffer /\ a.offer \in Given /\ a \in Offers!Actions
  <2>1. lone \subseteq DOMAIN cycle.live /\ IsFiniteSet(lone)
    BY <1>3, FiniteBook
  <2> HIDE DEF lone
  <2>2. [o \in lone |-> [kind |-> "cancel", intent |-> NoOffer, offer |-> o,
                    price |-> cycle.live[o].price, turn |-> 2 * Offers!Afterwards]] \in Surjection(lone, or0)
    BY DEF Surjection
  <2>3. \A a \in or0 : a.kind = "cancel" /\ a.intent = NoOffer /\ a.offer \in Given /\ a \in Offers!Actions
    <3> SUFFICES ASSUME NEW o \in lone,
                        NEW a, a = [kind |-> "cancel", intent |-> NoOffer, offer |-> o,
                                    price |-> cycle.live[o].price, turn |-> 2 * Offers!Afterwards]
                 PROVE  a.kind = "cancel" /\ a.intent = NoOffer /\ a.offer \in Given /\ a \in Offers!Actions
      OBVIOUS
    <3>1. o \in Given /\ o \in Offers!OfferIds /\ cycle.live[o].price \in Nat
      BY <1>3, <2>1 DEF Book, Offers!Offer, Given
    <3>2. 2 * Offers!Afterwards \in Nat
      BY TurnsCount
    <3> QED BY <3>1, <3>2 DEF Offers!Actions
  <2> HIDE DEF or0
  <2> QED BY <1>1, <2>1, <2>2, <2>3, FS_Surjection
<1>6. actions = (UNION {plan[i].actions : i \in DOMAIN plan}) \cup orphans
  BY <1>1
<1> HIDE DEF pl0, or0, ac0, rec0
<1>7. Proper(actions)
  <2>1. \A a \in actions : a \in orphans \/ \E i \in DOMAIN plan : a \in plan[i].actions
    BY <1>6
  <2>2. actions \subseteq Offers!Actions /\ \A a \in actions : a.offer \in Given \cup {NoOffer}
    BY <1>4, <1>5, <2>1 DEF Planned
  <2>3. IsFiniteSet(actions)
    <3> DEFINE parts == {plan[i].actions : i \in DOMAIN plan}
    <3>1. IsFiniteSet(DOMAIN plan)
      BY <1>4, FS_Subset, FinitelyMany DEF Sound
    <3>2. [i \in DOMAIN plan |-> plan[i].actions] \in Surjection(DOMAIN plan, parts)
      BY DEF Surjection
    <3>3. IsFiniteSet(parts) /\ \A P \in parts : IsFiniteSet(P)
      BY <1>4, <3>1, <3>2, FS_Surjection DEF Planned
    <3>4. IsFiniteSet(UNION parts)
      <4> HIDE DEF parts
      <4> QED BY <3>3, FS_UNION
    <3> QED BY <1>5, <1>6, <3>4, FS_Union
  <2>4. \A a \in actions : a.kind # "cancel" =>
            a.intent \in DOMAIN plan /\ a \in plan[a.intent].actions
    BY <1>4, <1>5, <2>1 DEF Planned
  <2>5. \A a, b \in actions : a.kind # "cancel" /\ b.kind # "cancel" /\ a.intent = b.intent => a = b
    BY <1>4, <2>4 DEF Planned
  <2> QED BY <1>4, <2>2, <2>3, <2>4, <2>5 DEF Proper
<1>8. records = [i \in DOMAIN plan |-> plan[i].record]
  BY <1>1 DEF pl0, rec0
<1>9. Offers!Restrict(records, {i \in DOMAIN records : plan[i].actions # {}})
        = [i \in {j \in DOMAIN plan : plan[j].actions # {}} |-> plan[i].record]
  BY <1>8 DEF Offers!Restrict
<1>10. /\ cycle'.actions = actions /\ DOMAIN cycle'.live = {} /\ DOMAIN cycle' = DOMAIN cycle
       /\ cycle'.pc \in {"resync", "submit"} /\ cycle'.desired = cycle.desired
       /\ cycle'.answer = cycle.answer /\ cycle'.ids = cycle.ids
       /\ cycle'.records = Offers!Restrict(records, {i \in DOMAIN records : plan[i].actions # {}})
  BY <1>2, <1>3, IdleIs
<1>11. /\ Proper(cycle'.actions)
       /\ cycle'.actions = (UNION {plan[i].actions : i \in DOMAIN plan}) \cup orphans
       /\ \A a \in orphans : a.kind = "cancel" /\ a.intent = NoOffer
  BY <1>5, <1>6, <1>7, <1>10
<1>12. /\ managed' = Offers!Saved([i \in DOMAIN plan |-> plan[i].record])
       /\ cycle'.records = [i \in {j \in DOMAIN plan : plan[j].actions # {}} |-> plan[i].record]
  BY <1>2, <1>8, <1>9, <1>10
<1> QED BY <1>4, <1>10, <1>11, <1>12

\* Records saved with the offers they had: an offer named stays named.
Loyal(m, n) == \A i \in Intents : n[i].offer = m[i].offer \/ m[i].offer = NoOffer

\* Records that keep the offers they name still name those that rest.
LEMMA NamedStays ==
    ASSUME Sound, Named, Book(offers), Loyal(managed, managed'), DOMAIN offers' \subseteq DOMAIN offers
    PROVE  Named'
<1> SUFFICES ASSUME NEW o \in DOMAIN offers, o[1] \in Intents PROVE managed'[o[1]].offer = o
  BY DEF Named, Offers!OwnOffers
<1>1. managed[o[1]].offer = o /\ o # NoOffer
  BY NoOfferApart DEF Named, Offers!OwnOffers, Book, Given
<1> QED BY <1>1 DEF Loyal

\* Planning: the records it saves, and the transaction the cycle will send.
LEMMA PlanOffersKeeps == ASSUME Sound, RecInvariant, Offers!PlanOffers PROVE RecInvariant'
<1>1. UNCHANGED <<faults, price, moves, mishaps, offers, created, balance, inflight, command>> /\ cycle.pc = "plan"
  BY DEF Offers!PlanOffers, Offers!envVars, Offers!ledgerVars
<1>2. PICK id \in Offers!Adoptions : Offers!PlanWith(id)
  BY DEF Offers!PlanOffers
<1>3. PICK plan, orphans :
             /\ DOMAIN plan \subseteq Intents /\ \A i \in DOMAIN plan : Planned(i, plan[i])
             /\ Proper(cycle'.actions)
             /\ cycle'.actions = (UNION {plan[i].actions : i \in DOMAIN plan}) \cup orphans
             /\ \A a \in orphans : a.kind = "cancel" /\ a.intent = NoOffer
             /\ managed' = Offers!Saved([i \in DOMAIN plan |-> plan[i].record])
             /\ cycle'.records = [i \in {j \in DOMAIN plan : plan[j].actions # {}} |-> plan[i].record]
             /\ cycle'.pc \in {"resync", "submit"} /\ DOMAIN cycle'.live = {}
             /\ DOMAIN cycle' = DOMAIN cycle /\ cycle'.desired = cycle.desired
             /\ cycle'.answer = cycle.answer /\ cycle'.ids = cycle.ids
  BY <1>2, PlanWithIs
<1>4. PICK rs : rs = [i \in DOMAIN plan |-> plan[i].record]
  OBVIOUS
<1>5. Rows(rs) /\ DOMAIN rs = DOMAIN plan /\ \A i \in DOMAIN rs : rs[i] = plan[i].record /\ Row(rs[i])
  BY <1>3, <1>4 DEF Rows, Planned
<1>6. managed' = Offers!Saved(rs) /\ managed' \in [Intents -> Offers!Managed] /\ Rows(managed')
  BY <1>3, <1>4, <1>5, SavedRows DEF RecInvariant
<1>7. Shape'
  <2>1. PICK m : m = managed'
    OBVIOUS
  <2>2. Rows(m)'
    BY <1>1, <1>6, <2>1, SameGiven, Lasts
  <2> QED BY <1>1, <1>6, <2>1, <2>2 DEF RecInvariant, Shape, Rows, Row
<1>8. Ledger'
  BY <1>1, SameLedger DEF RecInvariant
<1>9. Memory'
  <2>1. OfCycle(cycle) /\ OfCommand(command)
    BY MemoryIs DEF RecInvariant
  <2>2. Rows(cycle'.records)
    BY <1>3 DEF Rows, Planned
  <2>3. OfCycle(cycle')
    BY <1>3, <2>1, <2>2 DEF OfCycle, Book
  <2> QED BY <1>1, <2>1, <2>3, MemoryKept
<1>10. cycle.answer = "none" /\ cycle'.answer = "none" /\ \A tx \in inflight : tx.for # "cycle"
  BY <1>1, <1>3 DEF RecInvariant, Waiting
<1>11. Waiting'
  <2>1. \A as : Proper(as) => Proper(as)'
    BY <1>1, SameGiven, Lasts
  <2> QED BY <1>1, <1>10, <2>1 DEF RecInvariant, Waiting
<1>12. \A i \in Intents : \/ managed'[i] = managed[i]
                         \/ /\ i \in DOMAIN plan /\ managed'[i].status = plan[i].record.status
                            /\ managed'[i].offer = IF plan[i].record.offer = NoOffer THEN managed[i].offer
                                                    ELSE plan[i].record.offer
  BY <1>5, <1>6, SavedIs
<1>13. Loyal(managed, managed')
  BY <1>3, <1>12 DEF Loyal, Planned
<1>14. Offers!CanceledIsGone'
  <2>1. \A i \in Intents : managed'[i].status = "canceled" =>
              managed[i].status = "canceled" /\ managed'[i].offer = managed[i].offer
    BY <1>3, <1>12 DEF Planned
  <2> QED BY <1>1, <2>1 DEF RecInvariant, Gone, Offers!CanceledIsGone
<1>15. \A i \in DOMAIN cycle'.records :
           /\ i \in DOMAIN plan /\ plan[i].actions # {} /\ cycle'.records[i] = plan[i].record
           /\ plan[i].record.offer = managed[i].offer /\ plan[i].actions \subseteq cycle'.actions
           /\ managed'[i].offer = managed[i].offer
  BY <1>3, <1>12 DEF Planned
<1>16. Gone'
  <2>1. \A i \in DOMAIN cycle'.records :
          \/ /\ \E a \in cycle'.actions : a.intent = i /\ a.kind # "cancel"
             /\ ~ \E a \in cycle'.actions : a.intent = i /\ a.kind = "cancel"
          \/ /\ cycle'.records[i].offer # NoOffer
             /\ \E a \in cycle'.actions : a.kind = "cancel" /\ a.offer = cycle'.records[i].offer
    <3> TAKE i \in DOMAIN cycle'.records
    <3>1. Planned(i, plan[i]) /\ plan[i].actions # {} /\ plan[i].actions \subseteq cycle'.actions
          /\ cycle'.records[i].offer = managed[i].offer
      BY <1>3, <1>15
    <3>2. \A a \in plan[i].actions : a.intent = i
      BY <3>1 DEF Planned
    <3>3. \/ \E a \in plan[i].actions : a.kind # "cancel"
          \/ managed[i].offer # NoOffer /\ \E a \in plan[i].actions : a.kind = "cancel" /\ a.offer = managed[i].offer
      BY <3>1 DEF Planned
    <3>4. ASSUME NEW a \in cycle'.actions, a.intent = i, a.kind = "cancel"
          PROVE  managed[i].offer # NoOffer /\ a.offer = managed[i].offer
      <4>1. i \in Intents /\ i # NoOffer
        BY <1>3, <1>15, NoOfferApart
      <4>2. a \in plan[i].actions
        BY <1>3, <3>4, <4>1 DEF Planned
      <4> QED BY <3>1, <3>4, <4>2 DEF Planned
    <3> QED BY <3>1, <3>2, <3>3, <3>4
  <2> QED BY <1>1, <1>10, <1>14, <2>1 DEF RecInvariant, Gone, Placed, Kept, Kept
<1>17. Peace'
  <2> SUFFICES ASSUME faults \subseteq {"refused"} PROVE Peace'
    BY <1>1 DEF Peace
  <2>1. Named /\ DOMAIN offers \subseteq DOMAIN cycle.live /\ Book(offers)
    BY <1>1, <1>10 DEF RecInvariant, Peace, Ledger
  <2>2. Named'
    BY <1>1, <1>13, <2>1, NamedStays
  <2>3. \A a \in cycle'.actions : a.kind # "cancel" =>
            a.intent \in DOMAIN plan /\ a \in plan[a.intent].actions
    BY <1>3 DEF Planned
  <2>4. \A a \in cycle'.actions : a.kind # "cancel" => a.intent \in DOMAIN cycle'.records
    BY <1>3, <2>3
  <2>5. \A a \in cycle'.actions : a.kind = "update" => a.offer = managed'[a.intent].offer
    <3> SUFFICES ASSUME NEW a \in cycle'.actions, a.kind = "update" PROVE a.offer = managed'[a.intent].offer
      OBVIOUS
    <3>1. PICK i \in DOMAIN plan : i = a.intent /\ a \in plan[i].actions /\ i \in DOMAIN cycle'.records
      BY <2>3, <2>4
    <3>2. managed'[i].offer = managed[i].offer
      BY <1>15, <3>1
    <3>3. a.offer = managed[i].offer
      BY <1>3, <3>1 DEF Planned
    <3> QED BY <3>1, <3>2, <3>3
  <2>6. \A a \in cycle'.actions : a.kind = "create" =>
               \/ managed'[a.intent].offer \notin DOMAIN offers'
               \/ \E b \in cycle'.actions : b.kind = "cancel" /\ b.offer = managed'[a.intent].offer
    <3> SUFFICES ASSUME NEW a \in cycle'.actions, a.kind = "create"
                 PROVE  \/ managed'[a.intent].offer \notin DOMAIN offers'
                        \/ \E b \in cycle'.actions : b.kind = "cancel" /\ b.offer = managed'[a.intent].offer
      OBVIOUS
    <3>1. PICK i \in DOMAIN plan : i = a.intent /\ a \in plan[i].actions /\ i \in DOMAIN cycle'.records
      BY <2>3, <2>4
    <3>2. managed'[i].offer = managed[i].offer /\ plan[i].actions \subseteq cycle'.actions
      BY <1>15, <3>1
    <3>3. \/ managed[i].offer \notin DOMAIN cycle.live
          \/ \E b \in plan[i].actions : b.kind = "cancel" /\ b.offer = managed[i].offer
      BY <1>3, <3>1 DEF Planned
    <3> QED BY <1>1, <2>1, <3>1, <3>2, <3>3
  <2>7. \A i \in DOMAIN cycle'.records : cycle'.records[i].offer = managed'[i].offer
    BY <1>15
  <2>8. /\ command.pc = "idle" /\ \A tx \in inflight : tx.for = "cycle"
    BY DEF RecInvariant, Peace
  <2> QED BY <1>1, <1>3, <1>10, <2>2, <2>4, <2>5, <2>6, <2>7, <2>8 DEF Peace
<1> QED BY <1>7, <1>8, <1>9, <1>11, <1>16, <1>17 DEF RecInvariant

\* A transaction carries the operations it was built of.
LEMMA TxIs ==
    ASSUME NEW as, Proper(as), NEW who \in {"cycle", "command", "nobody"}
    PROVE  /\ Offers!Tx(as, who) \in Offers!Transactions /\ Offers!Tx(as, who).actions = as /\ Offers!Tx(as, who).for = who
BY DEF Offers!Tx, Offers!Transactions, Proper

\* The cycle sends its transaction.
LEMMA SubmitOffersKeeps == ASSUME RecInvariant, Offers!SubmitOffers PROVE RecInvariant'
<1>1. UNCHANGED <<faults, price, moves, mishaps, offers, created, balance, managed, command>>
      /\ cycle.pc = "submit" /\ inflight' = inflight \cup {Offers!Tx(cycle.actions, "cycle")}
  BY DEF Offers!SubmitOffers, Offers!envVars, Offers!ledgerVars, Offers!storeVars
<1>2. /\ DOMAIN cycle' = DOMAIN cycle /\ cycle'.desired = cycle.desired /\ cycle'.pc = "wait"
      /\ cycle'.live = cycle.live /\ cycle'.actions = cycle.actions /\ cycle'.records = cycle.records
      /\ cycle'.answer = cycle.answer /\ cycle'.ids = cycle.ids
  BY IdleIs DEF Offers!SubmitOffers, Offers!To, RecInvariant, Memory
<1>3. Shape' /\ Ledger'
  BY <1>1, SameShape, SameLedger DEF RecInvariant
<1>4. OfCycle(cycle) /\ OfCommand(command) /\ cycle.answer = "none"
  BY <1>1, MemoryIs DEF RecInvariant, Waiting
<1>5. Memory'
  <2>1. OfCycle(cycle')
    BY <1>2, <1>4 DEF OfCycle
  <2> QED BY <1>1, <1>4, <2>1, MemoryKept
<1>6. PICK tx : /\ tx = Offers!Tx(cycle.actions, "cycle")
                /\ tx \in Offers!Transactions /\ tx.actions = cycle.actions /\ tx.for = "cycle" /\ Proper(tx.actions)
  BY <1>4, TxIs DEF OfCycle
<1>7. Waiting'
  <2>1. \A as : Proper(as) => Proper(as)'
    BY <1>1, SameGiven, Lasts
  <2>2. \A t \in inflight : t.for # "cycle"
    BY <1>1 DEF RecInvariant, Waiting
  <2>3. inflight' = inflight \cup {tx}
    BY <1>1, <1>6
  <2>4. \A t \in inflight' : t \in Offers!Transactions /\ Proper(t.actions)'
    BY <1>6, <2>1, <2>3 DEF RecInvariant, Waiting
  <2>5. \A t \in inflight' : t.for = "cycle" => cycle'.pc = "wait" /\ cycle'.answer = "none" /\ t.actions = cycle'.actions
    BY <1>2, <1>4, <1>6, <2>2, <2>3
  <2>6. \A t \in inflight' : t.for = "command" =>
          /\ command.pc = "wait" /\ command.answer = "none"
          /\ \A i \in DOMAIN command.records :
                \E a \in t.actions : a.kind = "cancel" /\ a.offer = command.records[i].offer
    BY <1>6, <2>3 DEF RecInvariant, Waiting
  <2>7. \A t, u \in inflight' : t.for = u.for /\ t.for # "nobody" => t = u
    BY <1>6, <2>2, <2>3 DEF RecInvariant, Waiting
  <2>8. command.pc # "wait" => command.answer = "none"
    BY DEF RecInvariant, Waiting
  <2> QED BY <1>1, <1>2, <1>4, <2>4, <2>5, <2>6, <2>7, <2>8 DEF Waiting
<1>8. Gone'
  BY <1>1, <1>2, <1>4 DEF RecInvariant, Gone, Offers!CanceledIsGone, Placed, Kept
<1>9. Peace'
  <2>1. \A t \in inflight' : t \in inflight \/ t.for = "cycle"
    BY <1>1, <1>6
  <2> QED BY <1>1, <1>2, <1>4, <2>1 DEF RecInvariant, Peace, Named, Offers!OwnOffers
<1> QED BY <1>3, <1>5, <1>7, <1>8, <1>9 DEF RecInvariant

\* Nobody waits for an abandoned transaction.
LEMMA AbandonedWaits ==
    ASSUME Waiting
    PROVE  /\ \A t \in Offers!Abandoned : /\ t \in Offers!Transactions /\ Proper(t.actions) /\ t.for # "cycle"
                                          /\ t.for = "command" => t \in inflight
           /\ \A t, u \in Offers!Abandoned : t.for = u.for /\ t.for # "nobody" => t = u
<1>1. ASSUME NEW tx \in inflight
      PROVE  LET t == IF tx.for = "cycle" THEN [tx EXCEPT !.for = "nobody"] ELSE tx
             IN  /\ t \in Offers!Transactions /\ Proper(t.actions) /\ t.for # "cycle"
                 /\ t.for = "command" => t = tx
  <2>1. tx \in Offers!Transactions /\ Proper(tx.actions)
    BY DEF Waiting
  <2>2. CASE tx.for = "cycle"
    BY <2>1, <2>2 DEF Offers!Transactions
  <2>3. CASE tx.for # "cycle"
    BY <2>1, <2>3
  <2> QED BY <2>2, <2>3
<1>2. \A t \in Offers!Abandoned : /\ t \in Offers!Transactions /\ Proper(t.actions) /\ t.for # "cycle"
                                  /\ t.for = "command" => t \in inflight
  BY <1>1 DEF Offers!Abandoned
<1>3. \A t \in Offers!Abandoned : t.for \in {"command", "nobody"}
  BY <1>2 DEF Offers!Transactions
<1>4. \A t, u \in Offers!Abandoned : t.for = u.for /\ t.for # "nobody" => t = u
  BY <1>2, <1>3 DEF Waiting
<1> QED BY <1>2, <1>4

\* The end of a submission: the records are saved, the cycle forgets its plan.
LEMMA CycleEnds ==
    ASSUME RecInvariant, NEW rs, Rows(rs), managed' = Offers!Saved(rs), NEW l, l \notin {"plan", "submit", "wait"},
           cycle' = [Offers!Idle EXCEPT !.pc = l], UNCHANGED <<faults, price, moves, offers, created, balance, command>>,
           mishaps' \in 0..MaxMishaps, Offers!CanceledIsGone',
           \/ inflight' = inflight /\ (cycle.pc # "wait" \/ cycle.answer # "none")
           \/ inflight' = Offers!Abandoned /\ ~(faults \subseteq {"refused"}),
           faults \subseteq {"refused"} => Named'
    PROVE  RecInvariant'
<1>1. /\ DOMAIN cycle' = DOMAIN Offers!Idle /\ cycle'.pc = l /\ cycle'.answer = "none"
      /\ cycle'.actions = {} /\ DOMAIN cycle'.records = {}
  BY IdleIs
<1>2. managed' \in [Intents -> Offers!Managed] /\ Rows(managed')
  BY SavedRows DEF RecInvariant
<1>3. Shape'
  <2>1. PICK m : m = managed'
    OBVIOUS
  <2>2. Rows(m)'
    BY <1>2, <2>1, SameGiven, Lasts
  <2> QED BY <1>2, <2>1, <2>2 DEF RecInvariant, Shape, Rows, Row
<1>4. Ledger'
  BY SameLedger DEF RecInvariant
<1>5. Memory'
  <2>1. OfCommand(command) /\ OfCycle(cycle')
    BY MemoryIs, IdleOf DEF RecInvariant
  <2> QED BY <2>1, MemoryKept
<1>6. /\ \A t \in inflight' : t \in Offers!Transactions /\ Proper(t.actions) /\ t.for # "cycle" /\ (t.for = "command" => t \in inflight)
      /\ \A t, u \in inflight' : t.for = u.for /\ t.for # "nobody" => t = u
  <2>1. CASE inflight' = inflight /\ (cycle.pc # "wait" \/ cycle.answer # "none")
    BY <2>1 DEF RecInvariant, Waiting
  <2>2. CASE inflight' = Offers!Abandoned
    BY <2>2, AbandonedWaits DEF RecInvariant
  <2> QED BY <2>1, <2>2
<1>7. Waiting'
  <2>1. \A as : Proper(as) => Proper(as)'
    BY SameGiven, Lasts
  <2>2. \A t \in inflight' : t.for = "command" =>
          /\ command.pc = "wait" /\ command.answer = "none"
          /\ \A i \in DOMAIN command.records :
                \E a \in t.actions : a.kind = "cancel" /\ a.offer = command.records[i].offer
    BY <1>6 DEF RecInvariant, Waiting
  <2>3. command.pc # "wait" => command.answer = "none"
    BY DEF RecInvariant, Waiting
  <2>4. \A t \in inflight' : t \in Offers!Transactions /\ Proper(t.actions)'
    BY <1>6, <2>1
  <2> QED BY <1>1, <1>6, <2>2, <2>3, <2>4 DEF Waiting
<1>8. Gone'
  BY <1>1 DEF RecInvariant, Gone
<1>9. Peace'
  BY <1>1, <1>6 DEF RecInvariant, Peace, Waiting
<1> QED BY <1>3, <1>4, <1>5, <1>7, <1>8, <1>9 DEF RecInvariant

\* What a failure says of the record of one intent.
LEMMA FailedIs ==
    ASSUME RecInvariant, NEW i \in DOMAIN cycle.records
    PROVE  /\ Row(Offers!Failed(i)) /\ Offers!Failed(i).status = "error"
           /\ Offers!Failed(i).offer = cycle.records[i].offer
<1>1. Row(cycle.records[i]) /\ i \in Intents
  BY DEF RecInvariant, Memory, Rows
<1>2. PICK r : r = [cycle.records[i] EXCEPT !.status = "error"]
  OBVIOUS
<1>3. r \in Offers!Managed /\ r.offer = cycle.records[i].offer /\ r.status = "error" /\ Row(r)
  BY <1>1, <1>2 DEF Row, Offers!Managed, Offers!Statuses
<1>4. Offers!Failed(i) = Offers!Touch(r)
  BY <1>2 DEF Offers!Failed
<1> QED BY <1>3, <1>4, TouchIs

\* It learns that the transaction failed, or nothing before the deadline.
LEMMA SubmissionFailedKeeps == ASSUME Sound, RecInvariant, Offers!SubmissionFailed PROVE RecInvariant'
<1>1. PICK rs : rs = [i \in DOMAIN cycle.records |-> Offers!Failed(i)] /\ managed' = Offers!Saved(rs)
  BY DEF Offers!SubmissionFailed
<1>2. PICK l : l = "resync" /\ cycle' = [Offers!Idle EXCEPT !.pc = l]
  BY DEF Offers!SubmissionFailed
<1>3. UNCHANGED <<faults, price, moves, offers, created, balance, command>> /\ mishaps' \in 0..MaxMishaps
      /\ cycle.pc = "wait"
  <2>1. mishaps \in 0..MaxMishaps /\ MaxMishaps \in Nat
    BY DEF Sound, Offers!LadderAssumption, RecInvariant, Shape
  <2>2. mishaps' = mishaps \/ (mishaps < MaxMishaps /\ mishaps' = mishaps + 1)
    BY DEF Offers!SubmissionFailed
  <2> QED BY <2>1, <2>2 DEF Offers!SubmissionFailed, Offers!ledgerVars
<1>4. \A i \in DOMAIN cycle.records : Row(cycle.records[i]) /\ i \in Intents
  BY DEF RecInvariant, Memory, Rows
<1>5. /\ DOMAIN rs = DOMAIN cycle.records
      /\ \A i \in DOMAIN rs : Row(rs[i]) /\ rs[i].status = "error" /\ rs[i].offer = cycle.records[i].offer
  BY <1>1, FailedIs
<1>6. Rows(rs)
  BY <1>4, <1>5 DEF Rows
<1>7. \A i \in Intents : \/ managed'[i] = managed[i]
                         \/ /\ i \in DOMAIN cycle.records /\ managed'[i].status = "error"
                            /\ managed'[i].offer = IF cycle.records[i].offer = NoOffer THEN managed[i].offer
                                                   ELSE cycle.records[i].offer
  <2> SUFFICES ASSUME NEW i \in Intents
               PROVE  \/ managed'[i] = managed[i]
                      \/ /\ i \in DOMAIN cycle.records /\ managed'[i].status = "error"
                         /\ managed'[i].offer = IF cycle.records[i].offer = NoOffer THEN managed[i].offer
                                                ELSE cycle.records[i].offer
    OBVIOUS
  <2>1. CASE i \notin DOMAIN rs
    BY <1>1, <2>1, SavedIs
  <2>2. CASE i \in DOMAIN rs
    <3>1. managed'[i].status = rs[i].status /\ managed'[i].offer = IF rs[i].offer = NoOffer THEN managed[i].offer ELSE rs[i].offer
      BY <1>1, <1>5, <2>2, SavedIs
    <3> QED BY <1>5, <2>2, <3>1
  <2> QED BY <2>1, <2>2
<1>8. Offers!CanceledIsGone'
  BY <1>3, <1>7 DEF RecInvariant, Gone, Offers!CanceledIsGone
<1>9. ASSUME faults \subseteq {"refused"} PROVE Named' /\ inflight' = inflight /\ cycle.answer = "failed"
  <2>1. cycle.answer = "failed" /\ inflight' = inflight
    BY <1>9 DEF Offers!SubmissionFailed
  <2>2. Named /\ \A i \in DOMAIN cycle.records : cycle.records[i].offer = managed[i].offer
    BY <1>3, <1>9, <2>1 DEF RecInvariant, Peace
  <2>3. Loyal(managed, managed')
    BY <1>7, <2>2 DEF Loyal
  <2> QED BY <1>3, <2>1, <2>2, <2>3, NamedStays DEF RecInvariant, Ledger
<1>10. \/ inflight' = inflight /\ cycle.answer # "none"
       \/ inflight' = Offers!Abandoned /\ ~(faults \subseteq {"refused"})
  BY <1>9 DEF Offers!SubmissionFailed
<1>11. l \notin {"plan", "submit", "wait"}
  BY <1>2
<1> QED BY <1>1, <1>2, <1>3, <1>6, <1>8, <1>9, <1>10, <1>11, CycleEnds

\* What an answer says of the record of one intent.
LEMMA AppliedIs ==
    ASSUME RecInvariant, NEW i \in DOMAIN cycle.records
    PROVE  /\ Row(Offers!Applied(i))
           /\ Offers!Applied(i).status = IF Placed(i) THEN "submitted" ELSE "canceled"
           /\ ~Placed(i) => Offers!Applied(i).offer = cycle.records[i].offer
           /\ \/ /\ Offers!Applied(i).offer = cycle.records[i].offer
                 /\ \A a \in cycle.actions : a.intent = i => a.kind # "update" /\ (a.kind = "create" => a \notin DOMAIN cycle.ids)
              \/ \E a \in cycle.actions : /\ a.intent = i /\ a.kind # "cancel"
                                          /\ \/ a \in DOMAIN cycle.ids /\ Offers!Applied(i).offer = cycle.ids[a]
                                             \/ a.kind = "update" /\ Offers!Applied(i).offer = a.offer
<1> DEFINE mine == {a \in cycle.actions : a.intent = i}
           placed == {a \in mine : a.kind # "cancel"}
           ids == {cycle.ids[a] : a \in placed \cap DOMAIN cycle.ids}
                    \cup {a.offer : a \in {b \in placed : b.kind = "update"}}
           o == IF ids = {} THEN cycle.records[i].offer ELSE CHOOSE x \in ids : TRUE
           st == IF placed = {} THEN "canceled" ELSE "submitted"
           r == [cycle.records[i] EXCEPT !.status = st, !.offer = o]
<1>1. Row(cycle.records[i]) /\ cycle.records[i] \in Offers!Managed /\ Proper(cycle.actions)
      /\ \A a \in DOMAIN cycle.ids : cycle.ids[a] \in Given \cup {NoOffer}
  BY DEF RecInvariant, Memory, Rows, Row
<1>2. Offers!Applied(i) = Offers!Touch(r)
  BY DEF Offers!Applied
<1>3. placed = {} <=> ~Placed(i)
  BY DEF Placed
<1>4. \A x \in ids : x \in Given \cup {NoOffer}
  BY <1>1 DEF Proper
<1>5. o \in Given \cup {NoOffer} /\ (ids # {} => o \in ids)
  <2> HIDE DEF ids
  <2> QED BY <1>1, <1>4 DEF Row
<1>6. \A a \in cycle.actions : a.kind \in {"create", "update", "cancel"}
  BY <1>1 DEF Proper, Offers!Actions
<1>7. \/ o = cycle.records[i].offer
         /\ \A a \in cycle.actions : a.intent = i => a.kind # "update" /\ (a.kind = "create" => a \notin DOMAIN cycle.ids)
      \/ \E a \in cycle.actions : /\ a.intent = i /\ a.kind # "cancel"
                                  /\ \/ a \in DOMAIN cycle.ids /\ o = cycle.ids[a]
                                     \/ a.kind = "update" /\ o = a.offer
  <2>1. CASE ids = {}
    <3>1. o = cycle.records[i].offer
      BY <2>1
    <3>2. \A a \in placed : a \notin DOMAIN cycle.ids /\ a.kind # "update"
      BY <2>1
    <3> QED BY <3>1, <3>2
  <2>2. CASE ids # {}
    <3>1. o \in ids
      BY <1>5, <2>2
    <3>2. PICK a \in placed : (a \in DOMAIN cycle.ids /\ o = cycle.ids[a]) \/ (a.kind = "update" /\ o = a.offer)
      <4> HIDE DEF o
      <4> QED BY <3>1
    <3> HIDE DEF o
    <3> QED BY <3>2
  <2> QED BY <2>1, <2>2
<1>8. ids # {} => placed # {}
  OBVIOUS
<1>9. ~Placed(i) => o = cycle.records[i].offer
  BY <1>3, <1>8
<1> HIDE DEF o, ids, placed, mine
<1>10. r \in Offers!Managed /\ r.offer = o /\ r.status = st /\ Row(r)
  <2>1. o \in Offers!OfferIds \cup {NoOffer}
    BY <1>5 DEF Given
  <2>2. st \in Offers!Statuses
    BY DEF Offers!Statuses
  <2> HIDE DEF st
  <2> QED BY <1>1, <1>5, <2>1, <2>2 DEF Row, Offers!Managed
<1>11. Row(Offers!Applied(i)) /\ Offers!Applied(i).offer = o /\ Offers!Applied(i).status = st
  <2> HIDE DEF r, st
  <2> QED BY <1>2, <1>10, TouchIs
<1> QED BY <1>3, <1>7, <1>9, <1>11

\* It learns that the transaction went through, and saves what it did.
LEMMA ApplyKeeps == ASSUME Sound, RecInvariant, Offers!ApplySubmissionResult PROVE RecInvariant'
<1>1. PICK rs : rs = [i \in DOMAIN cycle.records |-> Offers!Applied(i)] /\ managed' = Offers!Saved(rs)
  BY DEF Offers!ApplySubmissionResult
<1>2. PICK l : l = "refresh" /\ cycle' = [Offers!Idle EXCEPT !.pc = l]
  BY DEF Offers!ApplySubmissionResult
<1>3. UNCHANGED <<faults, price, moves, mishaps, offers, created, balance, inflight, command>> /\ mishaps' \in 0..MaxMishaps
      /\ cycle.pc = "wait" /\ cycle.answer = "ok"
  BY DEF Offers!ApplySubmissionResult, Offers!envVars, Offers!ledgerVars, RecInvariant, Shape
<1>4. \A i \in DOMAIN cycle.records : i \in Intents /\ Row(cycle.records[i]) /\ Row(rs[i]) /\ rs[i] = Offers!Applied(i)
  BY <1>1, AppliedIs DEF RecInvariant, Memory, Rows
<1>5. Rows(rs) /\ DOMAIN rs = DOMAIN cycle.records
  BY <1>1, <1>4 DEF Rows
<1>6. \A i \in Intents : \/ i \notin DOMAIN cycle.records /\ managed'[i] = managed[i]
                         \/ /\ i \in DOMAIN cycle.records /\ managed'[i].status = Offers!Applied(i).status
                            /\ managed'[i].offer = IF Offers!Applied(i).offer = NoOffer THEN managed[i].offer ELSE Offers!Applied(i).offer
  BY <1>1, <1>4, <1>5, SavedIs
<1>7. Offers!CanceledIsGone'
  <2> SUFFICES ASSUME NEW i \in Intents, managed'[i].status = "canceled" PROVE managed'[i].offer \notin DOMAIN offers
    BY <1>3 DEF Offers!CanceledIsGone
  <2>1. CASE i \notin DOMAIN cycle.records
    BY <1>6, <2>1 DEF RecInvariant, Gone, Offers!CanceledIsGone
  <2>2. CASE i \in DOMAIN cycle.records
    <3>1. Offers!Applied(i).status = "canceled"
      BY <1>6, <2>2
    <3>2. ~Placed(i) /\ Offers!Applied(i).offer = cycle.records[i].offer
      BY <2>2, <3>1, AppliedIs
    <3>3. cycle.records[i].offer # NoOffer /\ cycle.records[i].offer \notin DOMAIN offers
      BY <1>3, <2>2, <3>2 DEF RecInvariant, Gone, Kept
    <3> QED BY <1>6, <2>2, <3>2, <3>3
  <2> QED BY <2>1, <2>2
<1>8. ASSUME faults \subseteq {"refused"} PROVE Named'
  <2>1. /\ \A i \in DOMAIN cycle.records : cycle.records[i].offer = managed[i].offer
        /\ \A a \in cycle.actions : a.kind # "cancel" => a.intent \in DOMAIN cycle.records
        /\ \A a \in cycle.actions : a.kind = "update" => a.offer = managed[a.intent].offer
        /\ DOMAIN cycle.ids = {a \in cycle.actions : a.kind # "cancel"}
        /\ \A a \in cycle.actions : a.kind = "update" => cycle.ids[a] = a.offer
        /\ \A o \in Offers!OwnOffers :
              \/ managed[o[1]].offer = o /\ ~ \E a \in cycle.actions : a.kind = "create" /\ a.intent = o[1]
              \/ \E a \in cycle.actions : a.kind = "create" /\ a.intent = o[1] /\ cycle.ids[a] = o
    BY <1>3, <1>8 DEF RecInvariant, Peace
  <2>2. \A a, b \in cycle.actions : a.kind # "cancel" /\ b.kind # "cancel" /\ a.intent = b.intent => a = b
    BY DEF RecInvariant, Memory, Proper
  <2>3. \A a \in cycle.actions : a.kind \in {"create", "update", "cancel"}
    BY DEF RecInvariant, Memory, Proper, Offers!Actions
  <2> SUFFICES ASSUME NEW o \in Offers!OwnOffers PROVE managed'[o[1]].offer = o
    BY <1>3 DEF Named, Offers!OwnOffers
  <2>4. o # NoOffer /\ o[1] \in Intents
    BY NoOfferApart DEF RecInvariant, Ledger, Book, Offers!OwnOffers, Given
  <2>5. PICK i \in Intents : i = o[1]
    BY <2>4
  <2>6. CASE i \notin DOMAIN cycle.records
    <3>1. managed[i].offer = o
      BY <2>1, <2>5, <2>6
    <3> QED BY <1>6, <2>5, <2>6, <3>1
  <2>7. CASE i \in DOMAIN cycle.records
    <3>1. \/ /\ Offers!Applied(i).offer = managed[i].offer
             /\ \A a \in cycle.actions : a.intent = i => a.kind # "update" /\ (a.kind = "create" => a \notin DOMAIN cycle.ids)
          \/ \E a \in cycle.actions : /\ a.intent = i /\ a.kind # "cancel"
                                      /\ \/ a \in DOMAIN cycle.ids /\ Offers!Applied(i).offer = cycle.ids[a]
                                         \/ a.kind = "update" /\ Offers!Applied(i).offer = a.offer
      BY <2>1, <2>7, AppliedIs
    <3>2. CASE managed[i].offer = o /\ ~ \E a \in cycle.actions : a.kind = "create" /\ a.intent = i
      <4>1. Offers!Applied(i).offer = o
        BY <2>1, <2>3, <3>1, <3>2
      <4> QED BY <1>6, <2>4, <2>5, <2>7, <4>1
    <3>3. CASE \E a \in cycle.actions : a.kind = "create" /\ a.intent = i /\ cycle.ids[a] = o
      <4>1. PICK a \in cycle.actions : a.kind = "create" /\ a.intent = i /\ cycle.ids[a] = o
        BY <3>3
      <4>2. a \in DOMAIN cycle.ids
        BY <2>1, <4>1
      <4>3. \A b \in cycle.actions : b.intent = i /\ b.kind # "cancel" => b = a
        BY <2>2, <4>1
      <4>4. Offers!Applied(i).offer = o
        BY <3>1, <4>1, <4>2, <4>3
      <4> QED BY <1>6, <2>4, <2>5, <2>7, <4>4
    <3> QED BY <2>1, <2>5, <3>2, <3>3
  <2> QED BY <2>6, <2>7
<1>9. l \notin {"plan", "submit", "wait"} /\ inflight' = inflight /\ cycle.answer # "none"
  BY <1>2, <1>3
<1> QED BY <1>1, <1>2, <1>3, <1>5, <1>7, <1>8, <1>9, CycleEnds

\* When only the records change.
LEMMA RecordsMove ==
    ASSUME RecInvariant, UNCHANGED <<faults, price, moves, mishaps, offers, created, balance>>,
           managed' \in [Intents -> Offers!Managed], \A i \in Intents : Row(managed'[i])
    PROVE  Shape' /\ Ledger'
<1>1. PICK m : m = managed' /\ Rows(m)
  BY DEF Rows
<1>2. Rows(m)'
  BY <1>1, SameGiven, Lasts
<1>3. Shape'
  BY <1>1, <1>2 DEF RecInvariant, Shape, Rows, Row
<1> QED BY <1>3, SameLedger DEF RecInvariant

\* What the offers that rest say of the records.
LEMMA FollowedIs ==
    ASSUME Sound, RecInvariant, NEW id \in Offers!Findings
    PROVE  /\ DOMAIN Offers!Followed(id) \subseteq Intents
           /\ \A i \in DOMAIN Offers!Followed(id) :
                LET r == Offers!Followed(id)[i]
                IN  /\ Row(r) /\ (r.offer = managed[i].offer \/ managed[i].offer = NoOffer)
                    /\ r.status = "canceled" => managed[i].status = "canceled" /\ r.offer = managed[i].offer
<1>1. /\ \A i \in Intents : Row(managed[i]) /\ managed[i] \in Offers!Managed
      /\ Book(offers)
  BY DEF RecInvariant, Shape, Rows, Ledger
<1>2. PICK rs : rs = Offers!Followed(id)
  OBVIOUS
<1>3. /\ DOMAIN rs \subseteq Intents
      /\ \A i \in DOMAIN rs : i \in Intents /\ rs[i] = Offers!Follow(managed[i], id[i])
  BY <1>2 DEF Offers!Followed
<1>4. ASSUME NEW i \in DOMAIN rs
      PROVE  /\ Row(rs[i]) /\ (rs[i].offer = managed[i].offer \/ managed[i].offer = NoOffer)
             /\ rs[i].status = "canceled" => managed[i].status = "canceled" /\ rs[i].offer = managed[i].offer
  <2>1. CASE id[i] \in DOMAIN offers
    <3>1. PICK r, o : r = managed[i] /\ o = id[i] /\ r \in Offers!Managed /\ o \in Given /\ o \in Offers!OfferIds
      BY <1>1, <1>3, <2>1 DEF Book, Given
    <3>2. rs[i] = [r EXCEPT !.status = "open", !.offer = o, !.recent = FALSE,
                            !.price = offers[o].price, !.amount = offers[o].amount]
      BY <1>3, <2>1, <3>1 DEF Offers!Follow
    <3>3. offers[o].price \in Nat /\ offers[o].amount \in 0..Amount
      BY <1>1, <2>1, <3>1 DEF Sound, Offers!LadderAssumption, Book, Offers!Offer
    <3>4. rs[i] \in Offers!Managed /\ rs[i].offer = o /\ rs[i].status = "open"
      BY <3>1, <3>2, <3>3 DEF Offers!Managed, Offers!Statuses
    <3>5. managed[i].offer = NoOffer \/ o = managed[i].offer
      BY <1>3, <3>1 DEF Offers!Findings
    <3> QED BY <3>1, <3>4, <3>5 DEF Row
  <2>2. CASE id[i] \notin DOMAIN offers
    <3>1. PICK r : r = managed[i] /\ r \in Offers!Managed /\ Row(r)
      BY <1>1, <1>3
    <3>2. PICK st : st = IF r.status \in {"submitted", "open"} THEN "closed" ELSE r.status
      OBVIOUS
    <3>3. rs[i] = [r EXCEPT !.status = st]
      BY <1>3, <2>2, <3>1, <3>2 DEF Offers!Follow
    <3>4. st \in Offers!Statuses /\ (st = "canceled" => r.status = "canceled")
      BY <3>1, <3>2 DEF Offers!Managed, Offers!Statuses
    <3>5. rs[i] \in Offers!Managed /\ rs[i].offer = r.offer /\ rs[i].status = st
      BY <3>1, <3>3, <3>4 DEF Offers!Managed
    <3> QED BY <3>1, <3>4, <3>5 DEF Row
  <2> QED BY <2>1, <2>2
<1> QED BY <1>2, <1>3, <1>4

\* A cycle takes the status of the records from the offers that rest (SyncManagedOffers).
LEMMA SyncManagedOffersKeeps == ASSUME Sound, RecInvariant, Offers!SyncManagedOffers PROVE RecInvariant'
<1>1. UNCHANGED <<faults, price, moves, mishaps, offers, created, balance, inflight, command>>
      /\ cycle.pc = "refresh" /\ cycle' = Offers!To("resync")
  BY DEF Offers!SyncManagedOffers, Offers!envVars, Offers!ledgerVars
<1>2. PICK id \in Offers!Findings : managed' = Offers!Saved(Offers!Followed(id))
  BY DEF Offers!SyncManagedOffers
<1>3. Book(offers)
  BY DEF RecInvariant, Ledger
<1>f. PICK rs : /\ rs = Offers!Followed(id) /\ Rows(rs)
                /\ \A i \in DOMAIN rs : /\ rs[i].offer = managed[i].offer \/ managed[i].offer = NoOffer
                                        /\ rs[i].status = "canceled" =>
                                              managed[i].status = "canceled" /\ rs[i].offer = managed[i].offer
  BY FollowedIs DEF Rows
<1>5. managed' \in [Intents -> Offers!Managed] /\ \A i \in Intents : Row(managed'[i])
  BY <1>2, <1>f, SavedRows DEF RecInvariant, Rows
<1>4. ASSUME NEW i \in Intents
      PROVE  /\ managed'[i].offer = managed[i].offer \/ managed[i].offer = NoOffer
             /\ managed'[i].status = "canceled" => managed[i].status = "canceled" /\ managed'[i].offer = managed[i].offer
  <2>1. CASE i \notin DOMAIN rs
    BY <1>2, <1>f, <2>1, SavedIs
  <2>2. CASE i \in DOMAIN rs
    <3>1. /\ managed'[i].status = rs[i].status
          /\ managed'[i].offer = IF rs[i].offer = NoOffer THEN managed[i].offer ELSE rs[i].offer
      BY <1>2, <1>f, <2>2, SavedIs DEF Rows
    <3> QED BY <1>f, <2>2, <3>1
  <2> QED BY <2>1, <2>2
<1>6. Shape' /\ Ledger'
  BY <1>1, <1>5, RecordsMove
<1>7. /\ DOMAIN cycle' = DOMAIN cycle /\ cycle'.desired = cycle.desired /\ cycle'.pc = "resync"
      /\ cycle'.live = cycle.live /\ cycle'.actions = cycle.actions /\ cycle'.records = cycle.records
      /\ cycle'.answer = cycle.answer /\ cycle'.ids = cycle.ids
  BY <1>1, IdleIs DEF Offers!To, RecInvariant, Memory
<1>8. Memory'
  <2>1. OfCycle(cycle) /\ OfCommand(command)
    BY MemoryIs DEF RecInvariant
  <2>2. OfCycle(cycle')
    BY <1>7, <2>1 DEF OfCycle
  <2> QED BY <1>1, <2>1, <2>2, MemoryKept
<1>9. Waiting'
  <2>1. \A as : Proper(as) => Proper(as)'
    BY <1>1, SameGiven, Lasts
  <2> QED BY <1>1, <1>7, <2>1 DEF RecInvariant, Waiting
<1>10. Gone'
  <2>1. Offers!CanceledIsGone'
    BY <1>1, <1>4 DEF RecInvariant, Gone, Offers!CanceledIsGone
  <2> QED BY <1>1, <1>7, <2>1 DEF RecInvariant, Gone, Waiting
<1>11. Peace'
  <2>1. cycle.answer = "none"
    BY <1>1 DEF RecInvariant, Waiting
  <2>2. Loyal(managed, managed')
    BY <1>4 DEF Loyal
  <2>3. Named => Named'
    BY <1>1, <1>3, <2>2, NamedStays
  <2> QED BY <1>1, <1>7, <2>1, <2>3 DEF RecInvariant, Peace
<1> QED BY <1>6, <1>8, <1>9, <1>10, <1>11 DEF RecInvariant

\* A record that may be saved alone: it calls no offer canceled that rests.
Harmless(i, r) ==
    /\ Row(r)
    /\ r.status = "canceled" =>
          \/ managed[i].status = "canceled" /\ r.offer = managed[i].offer
          \/ r.offer # NoOffer /\ r.offer \notin DOMAIN offers

\* Some records saved when the process dies, and the first step of one.
LEMMA PartIs ==
    ASSUME NEW records, NEW first, Offers!PartlySaved(records, first),
           DOMAIN records \subseteq Intents, DOMAIN first \subseteq Intents,
           \A i \in DOMAIN records : Harmless(i, records[i]),
           \A i \in DOMAIN first : Harmless(i, first[i])
    PROVE  \E rs : /\ managed' = Offers!Saved(rs) /\ DOMAIN rs \subseteq Intents
                   /\ \A i \in DOMAIN rs : Harmless(i, rs[i])
<1>1. PICK done \in SUBSET DOMAIN records, half \in SUBSET DOMAIN first :
          managed' = Offers!Saved([i \in done \cup half |-> IF i \in half THEN first[i] ELSE records[i]])
  BY DEF Offers!PartlySaved
<1>2. PICK rs : rs = [i \in done \cup half |-> IF i \in half THEN first[i] ELSE records[i]]
  OBVIOUS
<1>3. DOMAIN rs \subseteq Intents /\ \A i \in DOMAIN rs : Harmless(i, rs[i])
  BY <1>2
<1> QED BY <1>1, <1>2, <1>3

\* The records a cycle was about to save are harmless one by one.
LEMMA CutIs ==
    ASSUME Sound, RecInvariant, Offers!CutRecords
    PROVE  \E rs : /\ managed' = Offers!Saved(rs) /\ DOMAIN rs \subseteq Intents
                   /\ \A i \in DOMAIN rs : Harmless(i, rs[i])
<1>1. CASE UNCHANGED managed
  <2>1. PICK rs : rs = [i \in {} |-> Offers!NoRecord] /\ DOMAIN rs = {}
    OBVIOUS
  <2>2. managed' = Offers!Saved(rs)
    <3>1. managed = [i \in Intents |-> managed[i]]
      BY DEF RecInvariant, Shape
    <3> QED BY <1>1, <2>1, <3>1 DEF Offers!Saved
  <2> QED BY <2>1, <2>2
<1>2. ASSUME NEW id \in Offers!Adoptions,
             Offers!PartlySaved([i \in DOMAIN Offers!Plan(id) |-> Offers!Plan(id)[i].record],
                                [i \in Offers!Desired |-> Offers!Touch(Offers!Refreshed(i))])
      PROVE  \E rs : /\ managed' = Offers!Saved(rs) /\ DOMAIN rs \subseteq Intents
                     /\ \A i \in DOMAIN rs : Harmless(i, rs[i])
  <2>1. PICK plan : plan = Offers!Plan(id) /\ DOMAIN plan \subseteq Intents /\ \A i \in DOMAIN plan : Planned(i, plan[i])
    BY PlanIs
  <2>2. PICK all : all = [i \in DOMAIN plan |-> plan[i].record]
    OBVIOUS
  <2>3. DOMAIN all \subseteq Intents /\ \A i \in DOMAIN all : Harmless(i, all[i])
    BY <2>1, <2>2 DEF Planned, Harmless
  <2>4. PICK first : first = [i \in Offers!Desired |-> Offers!Touch(Offers!Refreshed(i))]
    OBVIOUS
  <2>5. ASSUME NEW i \in Offers!Desired PROVE i \in Intents /\ Harmless(i, first[i])
    <3>1. i \in Intents /\ Row(managed[i]) /\ managed[i] \in Offers!Managed /\ cycle.desired[i] \in Nat
      BY DEF RecInvariant, Shape, Rows, Memory, Offers!Desired
    <3>2. PICK r : r = Offers!Refreshed(i)
      OBVIOUS
    <3>3. Amount \in 0..Amount
      BY DEF Sound, Offers!LadderAssumption
    <3>4. r \in Offers!Managed /\ r.offer = managed[i].offer /\ (r.status = "canceled" => managed[i].status = "canceled")
      BY <3>1, <3>2, <3>3 DEF Offers!Refreshed, Offers!Managed, Offers!Statuses
    <3>5. Row(r)
      BY <3>1, <3>4 DEF Row
    <3>6. first[i] = Offers!Touch(r)
      BY <2>4, <3>2
    <3> QED BY <3>1, <3>4, <3>5, <3>6, TouchIs DEF Harmless
  <2>6. DOMAIN first \subseteq Intents /\ \A i \in DOMAIN first : Harmless(i, first[i])
    BY <2>4, <2>5
  <2>7. Offers!PartlySaved(all, first)
    BY <1>2, <2>1, <2>2, <2>4
  <2> QED BY <2>3, <2>6, <2>7, PartIs
<1>3. PICK none : none = <<>> /\ DOMAIN none = {}
  OBVIOUS
<1>4. DOMAIN cycle.records \subseteq Intents
  BY DEF RecInvariant, Memory, Rows
<1>5. ASSUME Offers!PartlySaved([i \in DOMAIN cycle.records |-> Offers!Failed(i)], <<>>)
      PROVE  \E rs : /\ managed' = Offers!Saved(rs) /\ DOMAIN rs \subseteq Intents
                     /\ \A i \in DOMAIN rs : Harmless(i, rs[i])
  <2>1. PICK all : all = [i \in DOMAIN cycle.records |-> Offers!Failed(i)]
    OBVIOUS
  <2>2. DOMAIN all \subseteq Intents /\ \A i \in DOMAIN all : Harmless(i, all[i])
    BY <1>4, <2>1, FailedIs DEF Harmless
  <2>3. Offers!PartlySaved(all, none)
    BY <1>3, <1>5, <2>1
  <2> QED BY <1>3, <2>2, <2>3, PartIs
<1>6. ASSUME cycle.pc = "wait", cycle.answer = "ok",
             Offers!PartlySaved([i \in DOMAIN cycle.records |-> Offers!Applied(i)],
                                [i \in Offers!Replaced |-> Offers!CanceledFirst(i)])
      PROVE  \E rs : /\ managed' = Offers!Saved(rs) /\ DOMAIN rs \subseteq Intents
                     /\ \A i \in DOMAIN rs : Harmless(i, rs[i])
  <2>1. PICK all, first : /\ all = [i \in DOMAIN cycle.records |-> Offers!Applied(i)]
                          /\ first = [i \in Offers!Replaced |-> Offers!CanceledFirst(i)]
    OBVIOUS
  <2>2. \A i \in DOMAIN cycle.records :
           Kept(i) \/ (cycle.records[i].offer # NoOffer /\ cycle.records[i].offer \notin DOMAIN offers)
    <3>1. Gone /\ cycle.pc \in {"submit", "wait"} /\ cycle.answer = "ok"
      BY <1>6 DEF RecInvariant
    <3>2. \A i \in DOMAIN cycle.records : Kept(i) \/ cycle.records[i].offer # NoOffer
      BY <3>1 DEF Gone
    <3>3. \A i \in DOMAIN cycle.records : Kept(i) \/ cycle.records[i].offer \notin DOMAIN offers
      BY <3>1 DEF Gone
    <3> QED BY <3>2, <3>3
  <2>3. DOMAIN all \subseteq Intents /\ \A i \in DOMAIN all : Harmless(i, all[i])
    <3> SUFFICES ASSUME NEW i \in DOMAIN cycle.records PROVE Harmless(i, all[i])
      BY <1>4, <2>1
    <3>1. all[i] = Offers!Applied(i)
      BY <2>1
    <3> QED BY <2>2, <3>1, AppliedIs DEF Harmless, Kept
  <2>4. DOMAIN first \subseteq Intents /\ \A i \in DOMAIN first : Harmless(i, first[i])
    <3> SUFFICES ASSUME NEW i \in Offers!Replaced PROVE i \in Intents /\ Harmless(i, first[i])
      BY <2>1
    <3>1. i \in DOMAIN cycle.records /\ ~Kept(i) /\ i \in Intents
      BY <1>4 DEF Offers!Replaced, Kept
    <3>2. Row(cycle.records[i])
      BY <3>1 DEF RecInvariant, Memory, Rows
    <3>3. PICK r : r = [cycle.records[i] EXCEPT !.status = "canceled"]
      OBVIOUS
    <3>4. r \in Offers!Managed /\ r.offer = cycle.records[i].offer /\ Row(r)
      BY <3>2, <3>3 DEF Row, Offers!Managed, Offers!Statuses
    <3>5. first[i] = Offers!Touch(r)
      BY <2>1, <3>3 DEF Offers!CanceledFirst
    <3> QED BY <2>2, <3>1, <3>4, <3>5, TouchIs DEF Harmless
  <2>5. Offers!PartlySaved(all, first)
    BY <1>6, <2>1
  <2> QED BY <2>3, <2>4, <2>5, PartIs
<1>7. ASSUME NEW id \in Offers!Findings, Offers!PartlySaved(Offers!Followed(id), <<>>)
      PROVE  \E rs : /\ managed' = Offers!Saved(rs) /\ DOMAIN rs \subseteq Intents
                     /\ \A i \in DOMAIN rs : Harmless(i, rs[i])
  <2>1. PICK all : all = Offers!Followed(id)
    OBVIOUS
  <2>2. DOMAIN all \subseteq Intents /\ \A i \in DOMAIN all : Harmless(i, all[i])
    BY <2>1, FollowedIs DEF Harmless
  <2>3. Offers!PartlySaved(all, none)
    BY <1>3, <1>7, <2>1
  <2> QED BY <1>3, <2>2, <2>3, PartIs
<1> QED BY <1>1, <1>2, <1>5, <1>6, <1>7 DEF Offers!CutRecords

\* The process dies: what it sent may still go through, and nobody waits for it.
LEMMA CrashKeeps == ASSUME Sound, RecInvariant, Offers!Crash PROVE RecInvariant'
<1>1. PICK rs : /\ managed' = Offers!Saved(rs) /\ DOMAIN rs \subseteq Intents
                /\ \A i \in DOMAIN rs : Harmless(i, rs[i])
  BY CutIs DEF Offers!Crash
<1>2. Rows(rs)
  BY <1>1 DEF Rows, Harmless
<1>4. PICK l : l = "idle" /\ cycle' = [Offers!Idle EXCEPT !.pc = l]
  <2>1. Offers!Idle = [Offers!Idle EXCEPT !.pc = "idle"]
    <3>1. PICK zero, none, at : zero = [s \in Offers!Sides |-> 0] /\ none = <<>> /\ at = "idle"
      OBVIOUS
    <3>2. Offers!Idle = [pc |-> at, desired |-> none, spendable |-> zero, live |-> none, actions |-> {},
                         records |-> none, answer |-> "none", ids |-> none]
      BY <3>1 DEF Offers!Idle
    <3>3. Offers!Idle = [Offers!Idle EXCEPT !.pc = at]
      BY <3>2
    <3> QED BY <3>1, <3>3
  <2> QED BY <2>1 DEF Offers!Crash
<1>5. /\ UNCHANGED <<faults, price, moves, offers, created, balance, command>> /\ inflight' = Offers!Abandoned
      /\ "crash" \in faults
  BY DEF Offers!Crash, Offers!ledgerVars
<1>6. mishaps' \in 0..MaxMishaps
  <2>1. mishaps \in 0..MaxMishaps /\ MaxMishaps \in Nat
    BY DEF Sound, Offers!LadderAssumption, RecInvariant, Shape
  <2> QED BY <2>1 DEF Offers!Crash
<1>7. Offers!CanceledIsGone'
  <2> SUFFICES ASSUME NEW i \in Intents, managed'[i].status = "canceled" PROVE managed'[i].offer \notin DOMAIN offers
    BY <1>5 DEF Offers!CanceledIsGone
  <2>1. CASE i \notin DOMAIN rs
    BY <1>1, <2>1, SavedIs DEF RecInvariant, Gone, Offers!CanceledIsGone
  <2>2. CASE i \in DOMAIN rs
    <3>1. /\ rs[i].status = "canceled"
          /\ managed'[i].offer = IF rs[i].offer = NoOffer THEN managed[i].offer ELSE rs[i].offer
      BY <1>1, <2>2, SavedIs DEF Harmless
    <3>2. CASE managed[i].status = "canceled" /\ rs[i].offer = managed[i].offer
      BY <3>1, <3>2 DEF RecInvariant, Gone, Offers!CanceledIsGone
    <3>3. CASE rs[i].offer # NoOffer /\ rs[i].offer \notin DOMAIN offers
      BY <3>1, <3>3
    <3> QED BY <1>1, <2>2, <3>1, <3>2, <3>3 DEF Harmless
  <2> QED BY <2>1, <2>2
<1>8. l \notin {"plan", "submit", "wait"} /\ ~(faults \subseteq {"refused"})
  BY <1>4, <1>5
<1> QED BY <1>1, <1>2, <1>4, <1>5, <1>6, <1>7, <1>8, CycleEnds

------------------------------------------------------------------------------
(* The surroundings, the hand and the commands.                               *)

\* Steps that touch neither memory nor what is in flight.
LEMMA QuietKeeps ==
    ASSUME RecInvariant, UNCHANGED <<faults, offers, created, balance, inflight, cycle, command>>,
           Shape', Ledger',
           \A i \in Intents : managed'[i].offer = managed[i].offer /\ managed'[i].status = managed[i].status
    PROVE  RecInvariant'
<1>1. Memory'
  <2>1. OfCycle(cycle) /\ OfCommand(command)
    BY MemoryIs DEF RecInvariant
  <2> QED BY <2>1, MemoryKept
<1>2. Waiting'
  <2>1. \A as : Proper(as) => Proper(as)'
    BY SameGiven, Lasts
  <2> QED BY <2>1 DEF RecInvariant, Waiting
<1>3. Gone'
  BY DEF RecInvariant, Gone, Offers!CanceledIsGone, Placed, Kept
<1>4. Named => Named'
  BY DEF Named, Offers!OwnOffers
<1>5. Peace'
  <2>1. DOMAIN cycle.records \subseteq Intents
    BY DEF RecInvariant, Memory, Rows
  <2>2. \A o \in Offers!OwnOffers : o[1] \in Intents
    BY DEF Offers!OwnOffers
  <2>3. Offers!OwnOffers' = Offers!OwnOffers
    BY DEF Offers!OwnOffers
  <2> SUFFICES ASSUME faults \subseteq {"refused"} PROVE Peace'
    BY DEF Peace
  <2>4. \A a \in cycle.actions : cycle.pc \in {"submit", "wait"} /\ a.kind # "cancel" => a.intent \in Intents
    BY <2>1 DEF RecInvariant, Peace
  <2>5. /\ command.pc = "idle"
        /\ \A tx \in inflight : tx.for = "cycle"
        /\ cycle.answer # "ok" => Named
        /\ cycle.pc = "plan" => DOMAIN offers \subseteq DOMAIN cycle.live
    BY DEF RecInvariant, Peace
  <2>6. cycle.pc \in {"submit", "wait"} =>
            /\ \A i \in DOMAIN cycle.records : cycle.records[i].offer = managed'[i].offer
            /\ \A a \in cycle.actions : a.kind # "cancel" => a.intent \in DOMAIN cycle.records
            /\ \A a \in cycle.actions : a.kind = "update" => a.offer = managed'[a.intent].offer
    BY <2>1, <2>4 DEF RecInvariant, Peace
  <2>7. cycle.pc \in {"submit", "wait"} /\ cycle.answer = "none" =>
            \A a \in cycle.actions : a.kind = "create" =>
               \/ managed'[a.intent].offer \notin DOMAIN offers
               \/ \E b \in cycle.actions : b.kind = "cancel" /\ b.offer = managed'[a.intent].offer
    BY <2>4 DEF RecInvariant, Peace
  <2>8. cycle.answer = "ok" =>
            /\ DOMAIN cycle.ids = {a \in cycle.actions : a.kind # "cancel"}
            /\ \A a \in cycle.actions : a.kind = "update" => cycle.ids[a] = a.offer
            /\ \A o \in Offers!OwnOffers :
                  \/ managed'[o[1]].offer = o /\ ~ \E a \in cycle.actions : a.kind = "create" /\ a.intent = o[1]
                  \/ \E a \in cycle.actions : a.kind = "create" /\ a.intent = o[1] /\ cycle.ids[a] = o
    BY <2>2 DEF RecInvariant, Peace
  <2> QED BY <1>4, <2>3, <2>5, <2>6, <2>7, <2>8 DEF Peace
<1> QED BY <1>1, <1>2, <1>3, <1>5 DEF RecInvariant

\* A record is no longer recent.
LEMMA GracePassesKeeps == ASSUME RecInvariant, NEW i \in Intents, Offers!GracePasses(i) PROVE RecInvariant'
<1>1. UNCHANGED <<faults, price, moves, mishaps, offers, created, balance, inflight, cycle, command>>
      /\ managed' = [managed EXCEPT ![i].recent = FALSE]
  BY DEF Offers!GracePasses, Offers!envVars, Offers!ledgerVars
<1>2. managed \in [Intents -> Offers!Managed] /\ \A j \in Intents : Row(managed[j])
  BY DEF RecInvariant, Shape, Rows
<1>3. PICK r : r = [managed[i] EXCEPT !.recent = FALSE]
  OBVIOUS
<1>4. r \in Offers!Managed /\ r.offer = managed[i].offer /\ r.status = managed[i].status /\ Row(r)
  BY <1>2, <1>3 DEF Offers!Managed, Row
<1>5. managed' = [managed EXCEPT ![i] = r]
  BY <1>1, <1>3
<1>6. managed' \in [Intents -> Offers!Managed] /\ \A j \in Intents : managed'[j] = IF j = i THEN r ELSE managed[j]
  BY <1>2, <1>4, <1>5
<1>7. \A j \in Intents : Row(managed'[j])
  BY <1>2, <1>4, <1>6
<1>8. \A j \in Intents : managed'[j].offer = managed[j].offer /\ managed'[j].status = managed[j].status
  BY <1>4, <1>6
<1>9. Shape' /\ Ledger'
  BY <1>1, <1>6, <1>7, RecordsMove
<1> QED BY <1>1, <1>8, <1>9, QuietKeeps

\* The reference price changes.
LEMMA MovePriceKeeps == ASSUME Sound, RecInvariant, Offers!MovePrice PROVE RecInvariant'
<1>1. UNCHANGED <<faults, mishaps, offers, created, balance, managed, inflight, cycle, command>>
      /\ price' \in Prices /\ moves' = moves + 1 /\ moves < MaxMoves
  BY DEF Offers!MovePrice, Offers!ledgerVars, Offers!storeVars
<1>2. moves' \in 0..MaxMoves
  <2>1. moves \in 0..MaxMoves /\ MaxMoves \in Nat
    BY DEF Sound, Offers!LadderAssumption, RecInvariant, Shape
  <2> QED BY <1>1, <2>1
<1>3. Rows(managed)'
  BY <1>1, SameGiven DEF RecInvariant, Shape, Rows, Row
<1>4. Shape'
  BY <1>1, <1>2, <1>3 DEF RecInvariant, Shape
<1>5. Ledger'
  BY <1>1, SameLedger DEF RecInvariant
<1> QED BY <1>1, <1>4, <1>5, QuietKeeps

\* A mishap more.
LEMMA MishapShape ==
    ASSUME Sound, Shape, created' = created, UNCHANGED <<faults, price, moves, managed>>,
           mishaps < MaxMishaps, mishaps' = mishaps + 1
    PROVE  Shape'
<1>1. Rows(managed)'
  BY SameGiven DEF Shape, Rows, Row
<1>2. mishaps' \in 0..MaxMishaps
  <2>1. mishaps \in 0..MaxMishaps /\ MaxMishaps \in Nat
    BY DEF Sound, Offers!LadderAssumption, Shape
  <2> QED BY <2>1
<1> QED BY <1>1, <1>2 DEF Shape

\* A transaction sent by hand; nobody waits for it.
LEMMA ByHandKeeps ==
    ASSUME Sound, RecInvariant, NEW as, Proper(as), inflight' = inflight \cup {Offers!Tx(as, "nobody")},
           UNCHANGED <<faults, price, moves, offers, created, balance, managed, cycle, command>>,
           mishaps < MaxMishaps, mishaps' = mishaps + 1, ~(faults \subseteq {"refused"})
    PROVE  RecInvariant'
<1>1. Shape' /\ Ledger'
  BY MishapShape, SameLedger DEF RecInvariant
<1>2. Memory'
  <2>1. OfCycle(cycle) /\ OfCommand(command)
    BY MemoryIs DEF RecInvariant
  <2> QED BY <2>1, MemoryKept
<1>3. PICK tx : tx = Offers!Tx(as, "nobody") /\ tx \in Offers!Transactions /\ tx.actions = as /\ tx.for = "nobody"
  <2>1. Offers!Tx(as, "nobody") \in Offers!Transactions /\ Offers!Tx(as, "nobody").actions = as /\ Offers!Tx(as, "nobody").for = "nobody"
    BY TxIs
  <2> QED BY <2>1
<1>4. Waiting'
  <2>1. \A bs : Proper(bs) => Proper(bs)'
    BY SameGiven, Lasts
  <2>2. \A t \in inflight' : t \in inflight \/ t = tx
    BY <1>3
  <2>3. \A t \in inflight' : t \in Offers!Transactions /\ Proper(t.actions)'
    BY <1>3, <2>1, <2>2 DEF RecInvariant, Waiting
  <2>4. \A t \in inflight' : t.for # "nobody" => t \in inflight
    BY <1>3, <2>2
  <2>5. \A t, u \in inflight' : t.for = u.for /\ t.for # "nobody" => t = u
    BY <2>4 DEF RecInvariant, Waiting
  <2>6. \A t \in inflight' : t.for = "cycle" => cycle.pc = "wait" /\ cycle.answer = "none" /\ t.actions = cycle.actions
    BY <2>4 DEF RecInvariant, Waiting
  <2>7. \A t \in inflight' : t.for = "command" =>
          /\ command.pc = "wait" /\ command.answer = "none"
          /\ \A i \in DOMAIN command.records :
                \E a \in t.actions : a.kind = "cancel" /\ a.offer = command.records[i].offer
    BY <2>4 DEF RecInvariant, Waiting
  <2>8. (cycle.pc # "wait" => cycle.answer = "none") /\ (command.pc # "wait" => command.answer = "none")
    BY DEF RecInvariant, Waiting
  <2> QED BY <2>3, <2>5, <2>6, <2>7, <2>8 DEF Waiting
<1>5. Gone'
  BY DEF RecInvariant, Gone, Offers!CanceledIsGone, Placed, Kept
<1>6. Peace'
  BY DEF Peace
<1> QED BY <1>1, <1>2, <1>4, <1>5, <1>6 DEF RecInvariant

\* An offer is placed by hand.
LEMMA SubmitOfferKeeps == ASSUME Sound, RecInvariant, Offers!SubmitOffer PROVE RecInvariant'
<1>1. UNCHANGED <<faults, price, moves, offers, created, balance, managed, cycle, command>>
      /\ mishaps < MaxMishaps /\ mishaps' = mishaps + 1 /\ "hand" \in faults
  BY DEF Offers!SubmitOffer, Offers!ledgerVars, Offers!storeVars
<1>2. PICK p \in Prices :
          inflight' = inflight \cup {Offers!Tx({[kind |-> "create", intent |-> Manual, turn |-> 0,
                                           offer |-> NoOffer, price |-> p]}, "nobody")}
  BY DEF Offers!SubmitOffer
<1>3. PICK a : a = [kind |-> "create", intent |-> Manual, turn |-> 0, offer |-> NoOffer, price |-> p]
  OBVIOUS
<1>4. a \in Offers!Actions /\ a.offer = NoOffer /\ a.intent = Manual
  BY <1>3 DEF Sound, Offers!LadderAssumption, Offers!Actions
<1>5. Proper({a})
  BY <1>4, FS_Singleton DEF Proper
<1> QED BY <1>1, <1>2, <1>3, <1>5, ByHandKeeps

\* Cancellations of offers of a book.
Cancels(book, os) == {[kind |-> "cancel", intent |-> NoOffer, offer |-> o, turn |-> 0, price |-> book[o].price] : o \in os}

\* A set of cancelations is a transaction.
LEMMA CancelsProper ==
    ASSUME Sound, NEW book, Book(book), NEW os \in SUBSET DOMAIN book
    PROVE  Proper(Cancels(book, os))
<1>1. IsFiniteSet(os)
  BY FiniteBook
<1> DEFINE C(o) == [kind |-> "cancel", intent |-> NoOffer, offer |-> o, turn |-> 0, price |-> book[o].price]
<1>2. ASSUME NEW o \in os PROVE C(o) \in Offers!Actions /\ C(o).offer \in Given /\ C(o).kind = "cancel"
  <2>1. PICK p : p = book[o].price /\ p \in Nat
    BY DEF Book, Offers!Offer
  <2>2. o \in Offers!OfferIds /\ o \in Given
    BY DEF Book, Given
  <2>3. C(o) = [kind |-> "cancel", intent |-> NoOffer, offer |-> o, turn |-> 0, price |-> p]
    BY <2>1
  <2> QED BY <2>1, <2>2, <2>3 DEF Offers!Actions
<1>3. Cancels(book, os) = {C(o) : o \in os}
  BY DEF Cancels
<1>4. IsFiniteSet({C(o) : o \in os})
  <2>1. [o \in os |-> C(o)] \in Surjection(os, {C(o) : o \in os})
    BY DEF Surjection
  <2> HIDE DEF C
  <2> QED BY <1>1, <2>1, FS_Surjection
<1> HIDE DEF C
<1>5. \A a \in Cancels(book, os) : a \in Offers!Actions /\ a.offer \in Given /\ a.kind = "cancel"
  BY <1>2, <1>3
<1> QED BY <1>3, <1>4, <1>5 DEF Proper

\* An offer is canceled by hand.
LEMMA CancelByHandKeeps == ASSUME Sound, RecInvariant, NEW o, Offers!CancelOfferByID(o) PROVE RecInvariant'
<1>1. UNCHANGED <<faults, price, moves, offers, created, balance, managed, cycle, command>>
      /\ mishaps < MaxMishaps /\ mishaps' = mishaps + 1 /\ "hand" \in faults /\ {o} \in SUBSET DOMAIN offers
  BY DEF Offers!CancelOfferByID, Offers!ledgerVars, Offers!storeVars
<1>2. inflight' = inflight \cup {Offers!Tx(Cancels(offers, {o}), "nobody")}
  <2>1. Cancels(offers, {o}) = {[kind |-> "cancel", intent |-> NoOffer, offer |-> o, turn |-> 0, price |-> offers[o].price]}
    BY DEF Cancels
  <2> QED BY <2>1 DEF Offers!CancelOfferByID
<1>3. PICK as : as = Cancels(offers, {o}) /\ Proper(as)
  BY <1>1, CancelsProper DEF RecInvariant, Ledger
<1> QED BY <1>1, <1>2, <1>3, ByHandKeeps

\* Steps of a command that send nothing and save nothing.
LEMMA ListsKeeps ==
    ASSUME RecInvariant, UNCHANGED <<faults, offers, created, balance, managed, inflight, cycle>>, Shape',
           ~(faults \subseteq {"refused"}), command.pc # "wait", OfCommand(command'), command'.pc # "wait",
           command'.answer = "none", \A i \in DOMAIN command'.records : command'.records[i].offer # NoOffer
    PROVE  RecInvariant'
<1>1. Ledger'
  BY SameLedger DEF RecInvariant
<1>2. Memory'
  <2>1. OfCycle(cycle)
    BY MemoryIs DEF RecInvariant
  <2> QED BY <2>1, MemoryKept
<1>3. Waiting'
  <2>1. \A as : Proper(as) => Proper(as)'
    BY SameGiven, Lasts
  <2>2. \A tx \in inflight : tx.for # "command"
    BY DEF RecInvariant, Waiting
  <2> QED BY <2>1, <2>2 DEF RecInvariant, Waiting
<1>4. Gone'
  BY DEF RecInvariant, Gone, Offers!CanceledIsGone, Placed, Kept
<1>5. Peace'
  BY DEF Peace
<1> QED BY <1>1, <1>2, <1>3, <1>4, <1>5 DEF RecInvariant

\* A command lists the offers.
LEMMA BeginCancelKeeps == ASSUME Sound, RecInvariant, NEW all \in BOOLEAN, Offers!BeginCancel(all) PROVE RecInvariant'
<1>1. /\ UNCHANGED <<faults, price, moves, offers, created, balance, managed, inflight, cycle>>
      /\ mishaps < MaxMishaps /\ mishaps' = mishaps + 1 /\ "cancel" \in faults /\ command.pc = "idle"
      /\ command' = [command EXCEPT !.pc = "list", !.live = offers, !.all = all]
  BY DEF Offers!BeginCancel, Offers!ledgerVars, Offers!storeVars
<1>2. OfCommand(command) /\ Book(offers) /\ command.answer = "none"
  BY <1>1, MemoryIs DEF RecInvariant, Ledger, Waiting
<1>3. /\ DOMAIN command' = DOMAIN command /\ command'.pc = "list" /\ command'.live = offers
      /\ command'.records = command.records /\ command'.answer = command.answer
  BY <1>1, <1>2, IdleIs DEF OfCommand
<1>4. OfCommand(command')
  BY <1>2, <1>3 DEF OfCommand
<1>5. Shape'
  BY <1>1, MishapShape DEF RecInvariant
<1>6. \A i \in DOMAIN command'.records : command'.records[i].offer # NoOffer
  BY <1>3 DEF RecInvariant, Gone
<1> QED BY <1>1, <1>2, <1>3, <1>4, <1>5, <1>6, ListsKeeps

\* It cancels those of the strategy it listed, or all, if there are any.
LEMMA SendCancelKeeps == ASSUME Sound, RecInvariant, Offers!SendCancel PROVE RecInvariant'
<1>0. PICK named, os : /\ named = {i \in Intents : managed[i].offer \in DOMAIN command.live}
                       /\ os = IF command.all THEN DOMAIN command.live ELSE {managed[i].offer : i \in named}
  OBVIOUS
<1>a. /\ UNCHANGED <<faults, price, moves, mishaps, offers, created, balance, managed, cycle>>
      /\ command.pc = "list" /\ ~(faults \subseteq {"refused"})
  BY DEF Offers!SendCancel, Offers!envVars, Offers!ledgerVars, Offers!storeVars, RecInvariant, Peace
<1>b. Shape' /\ Ledger'
  BY <1>a, SameShape, SameLedger DEF RecInvariant
<1>c. CASE os = {}
  <2>1. command' = Offers!NoCommand /\ inflight' = inflight
    BY <1>0, <1>c DEF Offers!SendCancel
  <2> QED BY <1>a, <1>b, <2>1, NoCommandOf, IdleIs, ListsKeeps
<1> SUFFICES ASSUME os # {} PROVE RecInvariant'
  BY <1>c
<1>1. PICK kept \in SUBSET named :
      /\ inflight' = inflight \cup {Offers!Tx(Cancels(command.live, os), "command")}
      /\ command' = [command EXCEPT !.pc = "wait", !.live = <<>>, !.records = Offers!Restrict(managed, kept)]
  BY <1>0 DEF Offers!SendCancel, Cancels
<1>2. os \in SUBSET DOMAIN command.live /\ \A i \in kept : managed[i].offer \in os
  BY <1>0
<1>l. Book(command.live)
  BY DEF RecInvariant, Memory
<1>3. PICK as : as = Cancels(command.live, os) /\ Proper(as)
  BY <1>2, <1>l, CancelsProper
<1>4. \A x \in os : \E a \in as : a.kind = "cancel" /\ a.offer = x
  <2> SUFFICES ASSUME NEW x \in os PROVE \E a \in as : a.kind = "cancel" /\ a.offer = x
    OBVIOUS
  <2>1. PICK a : a = [kind |-> "cancel", intent |-> NoOffer, offer |-> x, turn |-> 0, price |-> command.live[x].price]
    OBVIOUS
  <2>2. a \in Cancels(command.live, os)
    BY <2>1 DEF Cancels
  <2>3. a.kind = "cancel" /\ a.offer = x
    BY <2>1
  <2> QED BY <1>3, <2>2, <2>3
<1>5. kept \subseteq Intents /\ \A i \in kept : managed[i].offer # NoOffer
  BY <1>0, <1>l, NoOfferApart DEF Book, Given
<1>6. PICK tx : tx = Offers!Tx(as, "command") /\ tx \in Offers!Transactions /\ tx.actions = as /\ tx.for = "command"
  <2>1. Offers!Tx(as, "command") \in Offers!Transactions /\ Offers!Tx(as, "command").actions = as /\ Offers!Tx(as, "command").for = "command"
    BY <1>3, TxIs
  <2> QED BY <2>1
<1>8. /\ DOMAIN command' = DOMAIN command /\ command'.pc = "wait" /\ DOMAIN command'.live = {} /\ command'.answer = command.answer
      /\ command'.records = Offers!Restrict(managed, kept)
      /\ command.answer = "none"
  BY <1>1, <1>a, IdleIs DEF RecInvariant, Memory, Waiting
<1>9. PICK rs : rs = Offers!Restrict(managed, kept) /\ DOMAIN rs = kept /\ \A i \in kept : rs[i] = managed[i]
  <2>1. DOMAIN Offers!Restrict(managed, kept) = kept /\ \A i \in kept : Offers!Restrict(managed, kept)[i] = managed[i]
    BY DEF Offers!Restrict
  <2> QED BY <2>1
<1>10. Memory'
  <2>1. OfCycle(cycle) /\ OfCommand(command)
    BY MemoryIs DEF RecInvariant
  <2>2. Rows(rs)
    BY <1>5, <1>9 DEF Rows, RecInvariant, Shape
  <2>3. OfCommand(command')
    BY <1>8, <1>9, <2>1, <2>2 DEF OfCommand, Book
  <2> QED BY <1>a, <2>1, <2>3, MemoryKept
<1>11. Waiting'
  <2>1. \A bs : Proper(bs) => Proper(bs)'
    BY <1>a, SameGiven, Lasts
  <2>2. \A t \in inflight' : t \in inflight \/ t = tx
    BY <1>1, <1>3, <1>6
  <2>3. \A t \in inflight' : t \in Offers!Transactions /\ Proper(t.actions)'
    BY <1>3, <1>6, <2>1, <2>2 DEF RecInvariant, Waiting
  <2>4. \A t \in inflight : t.for # "command"
    BY <1>a DEF RecInvariant, Waiting
  <2>5. \A t, u \in inflight' : t.for = u.for /\ t.for # "nobody" => t = u
    BY <1>6, <2>2, <2>4 DEF RecInvariant, Waiting
  <2>6. \A t \in inflight' : t.for = "cycle" => cycle.pc = "wait" /\ cycle.answer = "none" /\ t.actions = cycle.actions
    BY <1>6, <1>a, <2>2 DEF RecInvariant, Waiting
  <2>7. \A t \in inflight' : t.for = "command" =>
          \A i \in DOMAIN command'.records :
                \E a \in t.actions : a.kind = "cancel" /\ a.offer = command'.records[i].offer
    <3>1. \A i \in kept : \E a \in tx.actions : a.kind = "cancel" /\ a.offer = managed[i].offer
      BY <1>2, <1>4, <1>6
    <3>2. command'.records = rs
      BY <1>8, <1>9
    <3>3. \A i \in DOMAIN rs : \E a \in tx.actions : a.kind = "cancel" /\ a.offer = rs[i].offer
      BY <1>9, <3>1
    <3>4. \A t \in inflight' : t.for = "command" => t = tx
      BY <2>2, <2>4
    <3> QED BY <3>2, <3>3, <3>4
  <2>8. (cycle.pc # "wait" => cycle.answer = "none")
    BY DEF RecInvariant, Waiting
  <2> QED BY <1>a, <1>8, <2>3, <2>5, <2>6, <2>7, <2>8 DEF Waiting
<1>12. Gone'
  BY <1>a, <1>5, <1>8, <1>9 DEF RecInvariant, Gone, Offers!CanceledIsGone, Placed, Kept
<1>13. Peace'
  BY <1>a DEF Peace
<1> QED BY <1>b, <1>10, <1>11, <1>12, <1>13 DEF RecInvariant

\* It learns how that went, and records what it canceled.
LEMMA FinishCancelKeeps == ASSUME RecInvariant, Offers!FinishCancel PROVE RecInvariant'
<1>1. UNCHANGED <<faults, price, moves, mishaps, offers, created, balance, inflight, cycle>>
      /\ command.pc = "wait" /\ command.answer # "none" /\ command' = Offers!NoCommand
  BY DEF Offers!FinishCancel, Offers!envVars, Offers!ledgerVars
<1>2. managed \in [Intents -> Offers!Managed] /\ (\A i \in Intents : Row(managed[i])) /\ Rows(command.records)
  BY DEF RecInvariant, Shape, Rows, Memory
<1>3. /\ managed' \in [Intents -> Offers!Managed] /\ \A i \in Intents : Row(managed'[i])
      /\ \A i \in Intents : managed'[i].status = "canceled" =>
            \/ managed[i].status = "canceled" /\ managed'[i].offer = managed[i].offer
            \/ /\ command.answer = "ok" /\ i \in DOMAIN command.records
               /\ managed'[i].offer = command.records[i].offer
  <2>1. CASE command.answer # "ok"
    BY <1>2, <2>1 DEF Offers!FinishCancel
  <2>2. CASE command.answer = "ok"
    <3>1. PICK rs : /\ rs = [i \in DOMAIN command.records |->
                                [command.records[i] EXCEPT !.status = "canceled", !.recent = FALSE]]
                    /\ managed' = Offers!Saved(rs)
      BY <2>2 DEF Offers!FinishCancel
    <3>2. ASSUME NEW i \in DOMAIN command.records
          PROVE  Row(rs[i]) /\ rs[i].offer = command.records[i].offer
      <4>1. PICK r : r = command.records[i] /\ r \in Offers!Managed /\ Row(r)
        BY <1>2 DEF Rows, Row
      <4>2. rs[i] = [r EXCEPT !.status = "canceled", !.recent = FALSE]
        BY <3>1, <4>1
      <4>3. rs[i] \in Offers!Managed /\ rs[i].offer = r.offer
        BY <4>1, <4>2 DEF Offers!Managed, Offers!Statuses
      <4> QED BY <4>1, <4>3 DEF Row
    <3>3. Rows(rs) /\ DOMAIN rs = DOMAIN command.records
      BY <1>2, <3>1, <3>2 DEF Rows
    <3>4. managed' \in [Intents -> Offers!Managed] /\ \A i \in Intents : Row(managed'[i])
      <4>1. Offers!Saved(rs) \in [Intents -> Offers!Managed] /\ Rows(Offers!Saved(rs))
        BY <3>3, SavedRows DEF RecInvariant
      <4> QED BY <3>1, <4>1 DEF Rows
    <3>5. \A i \in DOMAIN command.records : command.records[i].offer # NoOffer
      BY DEF RecInvariant, Gone
    <3>6. ASSUME NEW i \in Intents
          PROVE  IF i \in DOMAIN command.records THEN managed'[i].offer = command.records[i].offer ELSE managed'[i] = managed[i]
      <4>1. CASE i \in DOMAIN command.records
        <5>1. i \in DOMAIN rs /\ Row(rs[i]) /\ rs[i].offer = command.records[i].offer /\ rs[i].offer # NoOffer
          BY <3>2, <3>3, <3>5, <4>1
        <5>2. Offers!Saved(rs)[i].offer = IF rs[i].offer = NoOffer THEN managed[i].offer ELSE rs[i].offer
          BY <5>1, SavedIs
        <5> QED BY <3>1, <4>1, <5>1, <5>2
      <4>2. CASE i \notin DOMAIN command.records
        BY <3>1, <3>3, <4>2, SavedIs
      <4> QED BY <4>1, <4>2
    <3> QED BY <2>2, <3>4, <3>6
  <2> QED BY <2>1, <2>2
<1>4. Shape' /\ Ledger'
  BY <1>1, <1>3, RecordsMove
<1>5. Memory'
  <2>1. OfCycle(cycle) /\ OfCommand(Offers!NoCommand)
    BY MemoryIs, NoCommandOf DEF RecInvariant
  <2> QED BY <1>1, <2>1, MemoryKept
<1>6. Waiting'
  <2>1. \A as : Proper(as) => Proper(as)'
    BY <1>1, SameGiven, Lasts
  <2>2. \A t \in inflight : t.for # "command"
    BY <1>1 DEF RecInvariant, Waiting
  <2> QED BY <1>1, <2>1, <2>2, IdleIs DEF RecInvariant, Waiting
<1>7. Gone'
  <2>1. Offers!CanceledIsGone'
    BY <1>1, <1>3 DEF RecInvariant, Gone, Offers!CanceledIsGone
  <2> QED BY <1>1, <2>1, IdleIs DEF RecInvariant, Gone, Placed, Kept
<1>8. Peace'
  BY <1>1 DEF RecInvariant, Peace
<1> QED BY <1>4, <1>5, <1>6, <1>7, <1>8 DEF RecInvariant

\* A command reads the row of the strategy, or writes it back.
LEMMA EditKeeps == ASSUME Sound, RecInvariant, Offers!BeginEdit \/ Offers!SaveEdit PROVE RecInvariant'
<1>1. UNCHANGED <<faults, price, moves, offers, created, balance, managed, inflight, cycle, command>>
      /\ (mishaps' = mishaps \/ (mishaps < MaxMishaps /\ mishaps' = mishaps + 1))
  <2>1. CASE Offers!BeginEdit
    BY <2>1 DEF Offers!BeginEdit, Offers!ledgerVars
  <2>2. CASE Offers!SaveEdit
    BY <2>2 DEF Offers!SaveEdit, Offers!envVars, Offers!ledgerVars
  <2> QED BY <2>1, <2>2
<1>2. Shape' /\ Ledger'
  BY <1>1, SameShape, MishapShape, SameLedger DEF RecInvariant
<1> QED BY <1>1, <1>2, QuietKeeps

------------------------------------------------------------------------------
(* The answers of the exchange.                                               *)

\* What the one who waits is told.
LEMMA AnswerIs ==
    ASSUME RecInvariant, NEW tx, NEW ans, NEW ids, Offers!Answer(tx, ans, ids)
    PROVE  /\ tx.for # "cycle" => cycle' = cycle
           /\ tx.for = "cycle" =>
                /\ DOMAIN cycle' = DOMAIN cycle /\ cycle'.desired = cycle.desired /\ cycle'.pc = cycle.pc
                /\ cycle'.live = cycle.live /\ cycle'.actions = cycle.actions /\ cycle'.records = cycle.records
                /\ cycle'.answer = ans /\ cycle'.ids = ids
           /\ tx.for # "command" => command' = command
           /\ tx.for = "command" =>
                /\ DOMAIN command' = DOMAIN command /\ command'.pc = command.pc /\ command'.live = command.live
                /\ command'.records = command.records /\ command'.answer = ans
BY IdleIs DEF Offers!Answer, RecInvariant, Memory

\* An answer is put in the memory of whoever waits for it.
LEMMA AnswerMemory ==
    ASSUME RecInvariant, NEW tx, NEW ans \in Answers, NEW ids, Offers!Answer(tx, ans, ids),
           Given \subseteq Given', \A a \in DOMAIN ids : ids[a] \in Given' \cup {NoOffer}
    PROVE  Memory'
<1>1. PICK c, d : c = cycle' /\ d = command'
  OBVIOUS
<1>2. OfCycle(cycle) /\ OfCommand(command)
  BY MemoryIs DEF RecInvariant
<1>3. OfCycle(c)'
  <2>1. CASE tx.for # "cycle"
    BY <1>1, <1>2, <2>1, AnswerIs, OfLasts
  <2>2. CASE tx.for = "cycle"
    <3>1. /\ DOMAIN c = DOMAIN cycle /\ c.desired = cycle.desired
          /\ c.live = cycle.live /\ c.actions = cycle.actions /\ c.records = cycle.records
          /\ c.answer = ans /\ c.ids = ids
      BY <1>1, <2>2, AnswerIs
    <3>2. Book(c.live) /\ Proper(c.actions) /\ Rows(c.records)
      BY <1>2, <3>1 DEF OfCycle
    <3>3. Book(c.live)' /\ Proper(c.actions)' /\ Rows(c.records)'
      BY <3>2, Lasts
    <3> QED BY <1>2, <3>1, <3>3 DEF OfCycle
  <2> QED BY <2>1, <2>2
<1>4. OfCommand(d)'
  <2>1. CASE tx.for # "command"
    BY <1>1, <1>2, <2>1, AnswerIs, OfLasts
  <2>2. CASE tx.for = "command"
    <3>1. DOMAIN d = DOMAIN command /\ d.live = command.live /\ d.records = command.records /\ d.answer = ans
      BY <1>1, <2>2, AnswerIs
    <3>2. Book(d.live) /\ Rows(d.records)
      BY <1>2, <3>1 DEF OfCommand
    <3>3. Book(d.live)' /\ Rows(d.records)'
      BY <3>2, Lasts
    <3> QED BY <1>2, <3>1, <3>3 DEF OfCommand
  <2> QED BY <2>1, <2>2
<1> QED BY <1>1, <1>3, <1>4, MemoryNext

\* The transactions left when one is decided.
LEMMA LeftOver ==
    ASSUME RecInvariant, NEW tx \in inflight, NEW left, left = inflight \ {tx} \/ left = Offers!Outdated(tx)
    PROVE  /\ \A t \in left : /\ t \in Offers!Transactions /\ Proper(t.actions)
                              /\ t.for # "nobody" => t.for # tx.for
                              /\ \E u \in inflight : u.for = t.for /\ u.actions = t.actions
           /\ \A t, u \in left : t.for = u.for /\ t.for # "nobody" => t = u
<1>1. \A t \in left : \E u \in inflight \ {tx} : t = u \/ t = [u EXCEPT !.next = FALSE]
  <2>1. CASE left = inflight \ {tx}
    BY <2>1
  <2>2. CASE left = Offers!Outdated(tx)
    BY <2>2 DEF Offers!Outdated
  <2> QED BY <2>1, <2>2
<1>2. ASSUME NEW u \in inflight
      PROVE  LET t == [u EXCEPT !.next = FALSE]
             IN  t \in Offers!Transactions /\ t.for = u.for /\ t.actions = u.actions
  <2>1. u \in Offers!Transactions
    BY DEF RecInvariant, Waiting
  <2> QED BY <2>1 DEF Offers!Transactions
<1>3. \A u \in inflight : u \in Offers!Transactions /\ Proper(u.actions)
  BY DEF RecInvariant, Waiting
<1>4. \A t \in left : \E u \in inflight \ {tx} : t \in Offers!Transactions /\ t.for = u.for /\ t.actions = u.actions
  <2> SUFFICES ASSUME NEW t \in left
               PROVE  \E u \in inflight \ {tx} : t \in Offers!Transactions /\ t.for = u.for /\ t.actions = u.actions
    OBVIOUS
  <2>1. PICK u \in inflight \ {tx} : t = u \/ t = [u EXCEPT !.next = FALSE]
    BY <1>1
  <2>2. t \in Offers!Transactions /\ t.for = u.for /\ t.actions = u.actions
    BY <1>2, <1>3, <2>1
  <2> QED BY <2>1, <2>2
<1>5. \A t, u \in inflight : t.for = u.for /\ t.for # "nobody" => t = u
  BY DEF RecInvariant, Waiting
<1>6. ASSUME NEW t \in left, NEW u \in left, t.for = u.for, t.for # "nobody" PROVE t = u
  <2>1. CASE left = inflight \ {tx}
    BY <1>5, <1>6, <2>1
  <2>2. CASE left = Offers!Outdated(tx)
    <3>1. PICK v \in inflight \ {tx} : t = [v EXCEPT !.next = FALSE]
      BY <2>2 DEF Offers!Outdated
    <3>2. PICK w \in inflight \ {tx} : u = [w EXCEPT !.next = FALSE]
      BY <2>2 DEF Offers!Outdated
    <3>3. v.for = t.for /\ w.for = u.for
      BY <1>2, <3>1, <3>2
    <3>4. v = w
      BY <1>5, <1>6, <3>3
    <3> QED BY <3>1, <3>2, <3>4
  <2> QED BY <2>1, <2>2
<1> QED BY <1>3, <1>4, <1>5, <1>6

\* Nobody waits for a transaction that was answered.
LEMMA AnswerWaits ==
    ASSUME RecInvariant, NEW tx \in inflight, NEW ans, NEW ids, Offers!Answer(tx, ans, ids),
           Given \subseteq Given', inflight' = inflight \ {tx} \/ inflight' = Offers!Outdated(tx)
    PROVE  Waiting'
<1>1. PICK left : left = inflight'
  OBVIOUS
<1>2. /\ \A t \in left : /\ t \in Offers!Transactions /\ Proper(t.actions)
                         /\ t.for # "nobody" => t.for # tx.for
                         /\ \E u \in inflight : u.for = t.for /\ u.actions = t.actions
      /\ \A t, u \in left : t.for = u.for /\ t.for # "nobody" => t = u
  BY <1>1, LeftOver
<1>3. \A t \in left : t \in Offers!Transactions /\ Proper(t.actions)'
  BY <1>2, Lasts
<1>4. ASSUME NEW t \in left, t.for = "cycle"
      PROVE  cycle'.pc = "wait" /\ cycle'.answer = "none" /\ t.actions = cycle'.actions
  <2>1. tx.for # "cycle" /\ cycle' = cycle
    BY <1>2, <1>4, AnswerIs
  <2>2. PICK u \in inflight : u.for = "cycle" /\ u.actions = t.actions
    BY <1>2, <1>4
  <2> QED BY <2>1, <2>2 DEF RecInvariant, Waiting
<1>5. ASSUME NEW t \in left, t.for = "command"
      PROVE  /\ command'.pc = "wait" /\ command'.answer = "none"
             /\ \A i \in DOMAIN command'.records :
                   \E a \in t.actions : a.kind = "cancel" /\ a.offer = command'.records[i].offer
  <2>1. tx.for # "command" /\ command' = command
    BY <1>2, <1>5, AnswerIs
  <2>2. PICK u \in inflight : u.for = "command" /\ u.actions = t.actions
    BY <1>2, <1>5
  <2> QED BY <2>1, <2>2 DEF RecInvariant, Waiting
<1>6. cycle'.pc # "wait" => cycle'.answer = "none"
  BY AnswerIs DEF RecInvariant, Waiting
<1>7. command'.pc # "wait" => command'.answer = "none"
  BY AnswerIs DEF RecInvariant, Waiting
<1> QED BY <1>1, <1>2, <1>3, <1>4, <1>5, <1>6, <1>7 DEF Waiting

\* The exchange refuses a transaction.
LEMMA RejectKeeps == ASSUME RecInvariant, NEW tx, Offers!Reject(tx) PROVE RecInvariant'
<1>1. /\ UNCHANGED <<faults, price, moves, mishaps, offers, created, balance, managed>> /\ tx \in inflight
      /\ Offers!Answer(tx, "failed", <<>>) /\ (inflight' = inflight \ {tx} \/ inflight' = Offers!Outdated(tx))
  BY DEF Offers!Reject, Offers!envVars, Offers!storeVars
<1>2. Shape' /\ Ledger'
  BY <1>1, SameShape, SameLedger DEF RecInvariant
<1>3. PICK ids, ans : ids = <<>> /\ DOMAIN ids = {} /\ ans = "failed" /\ ans \in Answers /\ Offers!Answer(tx, ans, ids)
  BY <1>1 DEF Answers
<1>4. Given' = Given
  BY <1>1, SameGiven
<1>5. Memory'
  BY <1>3, <1>4, AnswerMemory
<1>6. Waiting'
  BY <1>1, <1>3, <1>4, AnswerWaits
<1>7. /\ tx.for # "cycle" => cycle' = cycle
      /\ tx.for = "cycle" =>
                /\ cycle.pc = "wait" /\ cycle.answer = "none"
                /\ cycle'.pc = cycle.pc /\ cycle'.live = cycle.live /\ cycle'.actions = cycle.actions
                /\ cycle'.records = cycle.records /\ cycle'.answer = "failed"
      /\ tx.for # "command" => command' = command
      /\ tx.for = "command" =>
                /\ command'.pc = command.pc /\ command'.records = command.records /\ command'.answer = "failed"
  BY <1>1, <1>3, AnswerIs DEF RecInvariant, Waiting
<1>8. Gone'
  BY <1>1, <1>7 DEF RecInvariant, Gone, Offers!CanceledIsGone, Placed, Kept
<1>9. Peace'
  <2> SUFFICES ASSUME faults \subseteq {"refused"} PROVE Peace'
    BY <1>1 DEF Peace
  <2>1. tx.for = "cycle" /\ command.pc = "idle"
    BY <1>1 DEF RecInvariant, Peace
  <2>2. \A t \in inflight' : t.for = "cycle"
    <3>1. PICK left : left = inflight'
      OBVIOUS
    <3>2. \A t \in left : \E u \in inflight : u.for = t.for
      BY <1>1, <3>1, LeftOver
    <3> QED BY <3>1, <3>2 DEF RecInvariant, Peace
  <2>3. command' = command
    BY <1>7, <2>1
  <2> QED BY <1>1, <1>7, <2>1, <2>2, <2>3 DEF RecInvariant, Peace, Named, Offers!OwnOffers
<1> QED BY <1>2, <1>5, <1>6, <1>8, <1>9 DEF RecInvariant

\* A transaction expires.
LEMMA ExpireStill == ASSUME RecInvariant, NEW tx, Offers!Expire(tx) PROVE RecInvariant'
<1>1. /\ UNCHANGED <<faults, price, moves, mishaps, offers, created, balance, managed, cycle, command>>
      /\ inflight' = inflight \ {tx}
  BY DEF Offers!Expire, Offers!envVars, Offers!ledgerVars, Offers!storeVars
<1>2. Shape' /\ Ledger'
  BY <1>1, SameShape, SameLedger DEF RecInvariant
<1>3. Memory'
  <2>1. OfCycle(cycle) /\ OfCommand(command)
    BY MemoryIs DEF RecInvariant
  <2> QED BY <1>1, <2>1, MemoryKept
<1>4. Waiting'
  <2>1. \A as : Proper(as) => Proper(as)'
    BY <1>1, SameGiven, Lasts
  <2>2. \A t \in inflight' : t \in inflight
    BY <1>1
  <2> QED BY <1>1, <2>1, <2>2 DEF RecInvariant, Waiting
<1>5. Gone'
  BY <1>1 DEF RecInvariant, Gone, Offers!CanceledIsGone, Placed, Kept
<1>6. Peace'
  BY <1>1 DEF RecInvariant, Peace, Named, Offers!OwnOffers
<1> QED BY <1>2, <1>3, <1>4, <1>5, <1>6 DEF RecInvariant

\* Whoever takes offers leaves no new ones behind.
LEMMA FillKeeps == ASSUME Sound, RecInvariant, NEW o, NEW n, Offers!Fill(o, n) PROVE RecInvariant'
<1>1. UNCHANGED <<faults, price, moves, mishaps, created, inflight, managed, cycle, command>>
  BY DEF Offers!Fill, Offers!envVars, Offers!storeVars
<1>2. Ledger' /\ DOMAIN offers' \subseteq DOMAIN offers
  BY FillLedger DEF RecInvariant
<1>3. Shape'
  BY <1>1, SameShape DEF RecInvariant
<1>4. Memory'
  <2>1. OfCycle(cycle) /\ OfCommand(command)
    BY MemoryIs DEF RecInvariant
  <2> QED BY <1>1, <2>1, MemoryKept
<1>5. Waiting'
  <2>1. \A as : Proper(as) => Proper(as)'
    BY <1>1, SameGiven, Lasts
  <2> QED BY <1>1, <2>1 DEF RecInvariant, Waiting
<1>6. Gone'
  BY <1>1, <1>2 DEF RecInvariant, Gone, Offers!CanceledIsGone, Placed, Kept
<1>7. Peace'
  <2>1. \A x \in Offers!OwnOffers' : x \in Offers!OwnOffers
    BY <1>2 DEF Offers!OwnOffers
  <2>2. Named => Named'
    BY <1>1, <2>1 DEF Named
  <2> QED BY <1>1, <1>2, <2>1, <2>2 DEF RecInvariant, Peace
<1> QED BY <1>2, <1>3, <1>4, <1>5, <1>6, <1>7 DEF RecInvariant

\* A transaction goes through.
LEMMA ExecuteKeeps == ASSUME Sound, RecInvariant, NEW tx, Offers!Execute(tx) PROVE RecInvariant'
<1>1. PICK as : as = tx.actions
  OBVIOUS
<1>2. /\ UNCHANGED <<faults, price, moves, mishaps, managed>> /\ tx \in inflight /\ inflight' = Offers!Outdated(tx)
      /\ \A a \in as : a.offer # NoOffer => a.offer \in DOMAIN offers
  BY <1>1 DEF Offers!Execute, Offers!Executable, Offers!envVars, Offers!storeVars
<1>3. PICK taken \in SUBSET Offers!Creates(as) :
          /\ taken # {} => "taken" \in faults
          /\ offers' = Offers!BookAfter(as, taken)
          /\ created' = [i \in DOMAIN created |->
                IF \E a \in Offers!Creates(as) \ taken : a.intent = i
                THEN created[i] + 1 ELSE created[i]]
          /\ Offers!Answer(tx, "ok",
                [a \in {b \in as : b.kind # "cancel"} \ taken |->
                    IF a.kind = "create" THEN Offers!NewId(a.intent) ELSE a.offer])
  BY <1>1 DEF Offers!Execute
<1>4. /\ created' \in [Intents \cup {Manual} -> 0..MaxOffers]
      /\ Given \subseteq Given'
      /\ \A a \in Offers!Creates(as) \ taken : Offers!NewId(a.intent) \in Given'
  <2>1. /\ taken \in SUBSET Offers!Creates(tx.actions)
        /\ created' = [i \in DOMAIN created |->
                IF \E a \in Offers!Creates(tx.actions) \ taken : a.intent = i
                THEN created[i] + 1 ELSE created[i]]
    BY <1>1, <1>3
  <2>2. /\ created' \in [Intents \cup {Manual} -> 0..MaxOffers]
        /\ Given \subseteq Given'
        /\ \A a \in Offers!Creates(tx.actions) \ taken : Offers!NewId(a.intent) \in Given'
    BY <2>1, ExecuteCreates DEF RecInvariant
  <2> QED BY <1>1, <2>2
<1>5. Ledger'
  BY ExecuteLedger DEF RecInvariant
<1>6. Shape'
  <2>1. PICK m : m = managed /\ Rows(m)
    BY DEF RecInvariant, Shape
  <2>2. Rows(m)'
    BY <1>4, <2>1, Lasts
  <2> QED BY <1>2, <1>4, <2>1, <2>2 DEF RecInvariant, Shape, Rows, Row
<1>7. PICK ids, ok : /\ ids = [a \in {b \in as : b.kind # "cancel"} \ taken |->
                                  IF a.kind = "create" THEN Offers!NewId(a.intent) ELSE a.offer]
                     /\ ok = "ok" /\ ok \in Answers /\ Offers!Answer(tx, ok, ids)
  BY <1>3 DEF Answers
<1>8. /\ DOMAIN ids = {b \in as : b.kind # "cancel"} \ taken
      /\ \A a \in DOMAIN ids : ids[a] = IF a.kind = "create" THEN Offers!NewId(a.intent) ELSE a.offer
  BY <1>7
<1>9. Proper(as) /\ Book(offers) /\ Shape
  BY <1>1, <1>2 DEF RecInvariant, Waiting, Ledger
<1>10. Memory'
  <2>1. \A a \in DOMAIN ids : ids[a] \in Given' \cup {NoOffer}
    <3> SUFFICES ASSUME NEW a \in DOMAIN ids PROVE ids[a] \in Given' \cup {NoOffer}
      OBVIOUS
    <3>1. CASE a.kind = "create"
      BY <1>4, <1>8, <3>1 DEF Offers!Creates
    <3>2. CASE a.kind # "create"
      BY <1>4, <1>8, <1>9, <3>2 DEF Proper
    <3> QED BY <3>1, <3>2
  <2> QED BY <1>4, <1>7, <2>1, AnswerMemory
<1>11. Waiting'
  BY <1>2, <1>4, <1>7, AnswerWaits
<1>12. /\ tx.for # "cycle" => cycle' = cycle
       /\ tx.for = "cycle" =>
                /\ cycle.pc = "wait" /\ cycle.answer = "none" /\ cycle.actions = as
                /\ cycle'.pc = cycle.pc /\ cycle'.live = cycle.live /\ cycle'.actions = as
                /\ cycle'.records = cycle.records /\ cycle'.answer = "ok" /\ cycle'.ids = ids
       /\ tx.for # "command" => command' = command
       /\ tx.for = "command" =>
                /\ command'.pc = command.pc /\ command'.records = command.records /\ command'.answer = "ok"
                /\ \A i \in DOMAIN command.records :
                      \E a \in as : a.kind = "cancel" /\ a.offer = command.records[i].offer
  BY <1>1, <1>2, <1>7, AnswerIs DEF RecInvariant, Waiting
<1>13. \A o \in DOMAIN Offers!BookAfter(as, taken) :
          \/ o \in DOMAIN offers /\ ~ \E a \in as : a.kind = "cancel" /\ a.offer = o
          \/ \E a \in Offers!Creates(as) \ taken : o = Offers!NewId(a.intent)
  <2> SUFFICES ASSUME NEW o \in DOMAIN Offers!BookAfter(as, taken)
               PROVE   \/ o \in DOMAIN offers /\ ~ \E a \in as : a.kind = "cancel" /\ a.offer = o
                       \/ \E a \in Offers!Creates(as) \ taken : o = Offers!NewId(a.intent)
    OBVIOUS
  <2>1. /\ \/ o \in DOMAIN offers /\ ~ \E a \in as : a.kind = "cancel" /\ a.offer = o
           \/ \E a \in Offers!Creates(as) \ taken : o = Offers!NewId(a.intent)
        /\ Offers!BookAfter(as, taken)[o] \in Offers!Offer
    BY <1>9, BookStays, Zenon
  <2> QED BY <2>1
\* An identifier known before and an offer now: it was one, and was not canceled.
<1>14. \A o \in Given \cup {NoOffer} : o \in DOMAIN offers' =>
          o \in DOMAIN offers /\ ~ \E a \in as : a.kind = "cancel" /\ a.offer = o
  <2> SUFFICES ASSUME NEW o \in Given \cup {NoOffer}, o \in DOMAIN offers'
               PROVE  o \in DOMAIN offers /\ ~ \E a \in as : a.kind = "cancel" /\ a.offer = o
    OBVIOUS
  <2>1. o \in Given
    <3>1. DOMAIN offers' \subseteq Offers!OfferIds
      BY <1>5 DEF Ledger, Book, Given, Offers!OfferIds
    <3> QED BY <3>1, NoOfferApart
  <2>2. \/ o \in DOMAIN offers /\ ~ \E a \in as : a.kind = "cancel" /\ a.offer = o
        \/ \E a \in Offers!Creates(as) \ taken : o = Offers!NewId(a.intent)
    BY <1>3, <1>13
  <2>3. \A a \in Offers!Creates(as) : Offers!NewId(a.intent) \notin Given
    BY <1>9, NewIdsNew DEF Proper, Offers!Creates
  <2> QED BY <2>1, <2>2, <2>3
<1>15. /\ \A i \in DOMAIN cycle.records : cycle.records[i].offer \in Given \cup {NoOffer}
       /\ \A i \in DOMAIN command.records : command.records[i].offer \in Given \cup {NoOffer}
       /\ \A i \in Intents : managed[i].offer \in Given \cup {NoOffer}
  BY DEF RecInvariant, Memory, Rows, Row, Shape
<1>16. Gone'
  <2>1. Offers!CanceledIsGone'
    BY <1>2, <1>14, <1>15 DEF RecInvariant, Gone, Offers!CanceledIsGone
  <2>2. \A i \in DOMAIN command'.records : command'.records[i].offer # NoOffer
    BY <1>12 DEF RecInvariant, Gone
  <2>3. /\ cycle'.pc = cycle.pc /\ cycle'.records = cycle.records /\ cycle'.actions = cycle.actions
    BY <1>12 DEF Placed
  <2>4. \A i : (Kept(i))' <=> Kept(i)
    BY <2>3 DEF Placed, Kept
  <2>5. cycle'.answer = "ok" => \A i \in DOMAIN cycle.records : Kept(i) \/ cycle.records[i].offer \notin DOMAIN offers'
    <3>1. CASE tx.for = "cycle"
      BY <1>12, <1>14, <1>15, <3>1 DEF RecInvariant, Gone
    <3>2. CASE tx.for # "cycle"
      BY <1>12, <1>14, <1>15, <3>2 DEF RecInvariant, Gone
    <3> QED BY <3>1, <3>2
  <2>6. command'.answer = "ok" => \A i \in DOMAIN command'.records : command'.records[i].offer \notin DOMAIN offers'
    <3>1. CASE tx.for = "command"
      BY <1>12, <1>14, <1>15, <3>1
    <3>2. CASE tx.for # "command"
      BY <1>12, <1>14, <1>15, <3>2 DEF RecInvariant, Gone
    <3> QED BY <3>1, <3>2
  <2> QED BY <2>1, <2>2, <2>3, <2>4, <2>5, <2>6 DEF RecInvariant, Gone
<1>17. Peace'
  <2> SUFFICES ASSUME faults \subseteq {"refused"} PROVE Peace'
    BY <1>2 DEF Peace
  <2>1. tx.for = "cycle" /\ command.pc = "idle" /\ taken = {}
    BY <1>2, <1>3 DEF RecInvariant, Peace
  <2>2. \A t \in inflight' : t.for = "cycle"
    <3>1. PICK left : left = inflight'
      OBVIOUS
    <3>2. \A t \in left : \E u \in inflight : u.for = t.for
      BY <1>2, <3>1, LeftOver
    <3> QED BY <3>1, <3>2 DEF RecInvariant, Peace
  <2>3. /\ cycle.pc = "wait" /\ cycle.answer = "none" /\ cycle.actions = as
        /\ cycle'.pc = "wait" /\ cycle'.actions = as
        /\ cycle'.records = cycle.records /\ cycle'.answer = "ok" /\ cycle'.ids = ids /\ command' = command
    BY <1>12, <2>1
  <2>4. /\ Named
        /\ \A i \in DOMAIN cycle.records : cycle.records[i].offer = managed[i].offer
        /\ \A a \in as : a.kind # "cancel" => a.intent \in DOMAIN cycle.records
        /\ \A a \in as : a.kind = "update" => a.offer = managed[a.intent].offer
        /\ \A a \in as : a.kind = "create" =>
               \/ managed[a.intent].offer \notin DOMAIN offers
               \/ \E b \in as : b.kind = "cancel" /\ b.offer = managed[a.intent].offer
    <3>1. cycle.pc \in {"submit", "wait"} /\ cycle.answer = "none" /\ cycle.answer # "ok"
      BY <2>3
    <3>2. /\ Named
          /\ \A i \in DOMAIN cycle.records : cycle.records[i].offer = managed[i].offer
          /\ \A a \in cycle.actions : a.kind # "cancel" => a.intent \in DOMAIN cycle.records
          /\ \A a \in cycle.actions : a.kind = "update" => a.offer = managed[a.intent].offer
      BY <3>1 DEF RecInvariant, Peace
    <3>3. \A a \in cycle.actions : a.kind = "create" =>
               \/ managed[a.intent].offer \notin DOMAIN offers
               \/ \E b \in cycle.actions : b.kind = "cancel" /\ b.offer = managed[a.intent].offer
      BY <3>1 DEF RecInvariant, Peace
    <3> QED BY <2>3, <3>2, <3>3
  <2>5. DOMAIN ids = {a \in as : a.kind # "cancel"} /\ \A a \in as : a.kind = "update" => ids[a] = a.offer
    BY <1>8, <2>1
  <2>6. ASSUME NEW o \in DOMAIN offers', o[1] \in Intents
        PROVE  \/ managed[o[1]].offer = o /\ ~ \E a \in as : a.kind = "create" /\ a.intent = o[1]
               \/ \E a \in as : a.kind = "create" /\ a.intent = o[1] /\ ids[a] = o
    <3>1. \/ o \in DOMAIN offers /\ ~ \E a \in as : a.kind = "cancel" /\ a.offer = o
          \/ \E a \in Offers!Creates(as) \ taken : o = Offers!NewId(a.intent)
      BY <1>3, <1>13
    <3>2. CASE o \in DOMAIN offers /\ ~ \E a \in as : a.kind = "cancel" /\ a.offer = o
      <4>1. managed[o[1]].offer = o
        BY <2>4, <2>6, <3>2 DEF Named, Offers!OwnOffers
      <4>2. ASSUME NEW a \in as, a.kind = "create", a.intent = o[1] PROVE FALSE
        <5>1. managed[a.intent].offer = o
          BY <4>1, <4>2
        <5> QED BY <2>4, <3>2, <4>2, <5>1
      <4> QED BY <4>1, <4>2
    <3>3. CASE \E a \in Offers!Creates(as) \ taken : o = Offers!NewId(a.intent)
      <4>1. PICK a \in Offers!Creates(as) : o = Offers!NewId(a.intent)
        BY <3>3
      <4>2. a \in as /\ a.kind = "create" /\ o[1] = a.intent
        BY <1>9, <4>1, NewIdsNew DEF Proper, Offers!Creates
      <4>3. ids[a] = o
        BY <1>8, <2>1, <4>1, <4>2
      <4> QED BY <4>2, <4>3
    <3> QED BY <3>1, <3>2, <3>3
  <2>7. \A i \in DOMAIN cycle'.records : cycle'.records[i].offer = managed'[i].offer
    BY <1>2, <2>3, <2>4
  <2>8. /\ \A a \in cycle'.actions : a.kind # "cancel" => a.intent \in DOMAIN cycle'.records
        /\ \A a \in cycle'.actions : a.kind = "update" => a.offer = managed'[a.intent].offer
    BY <1>2, <2>3, <2>4
  <2>9. /\ DOMAIN cycle'.ids = {a \in cycle'.actions : a.kind # "cancel"}
        /\ \A a \in cycle'.actions : a.kind = "update" => cycle'.ids[a] = a.offer
    BY <2>3, <2>5
  <2>10. \A o \in Offers!OwnOffers' :
                  \/ managed'[o[1]].offer = o /\ ~ \E a \in cycle'.actions : a.kind = "create" /\ a.intent = o[1]
                  \/ \E a \in cycle'.actions : a.kind = "create" /\ a.intent = o[1] /\ cycle'.ids[a] = o
    <3> SUFFICES ASSUME NEW o \in DOMAIN offers', o[1] \in Intents
                 PROVE  \/ managed'[o[1]].offer = o /\ ~ \E a \in cycle'.actions : a.kind = "create" /\ a.intent = o[1]
                        \/ \E a \in cycle'.actions : a.kind = "create" /\ a.intent = o[1] /\ cycle'.ids[a] = o
      BY DEF Offers!OwnOffers
    <3>1. managed' = managed /\ cycle'.actions = as /\ cycle'.ids = ids
      BY <1>2, <2>3
    <3> QED BY <2>6, <3>1
  <2>11. cycle'.pc = "wait" /\ cycle'.answer = "ok" /\ command'.pc = "idle"
    BY <2>1, <2>3
  <2> QED BY <2>2, <2>7, <2>8, <2>9, <2>10, <2>11 DEF Peace
<1> QED BY <1>5, <1>6, <1>10, <1>11, <1>16, <1>17 DEF RecInvariant

------------------------------------------------------------------------------
(* The invariant and the theorem.                                             *)

\* The invariant holds at the start.
LEMMA InitRec == ASSUME Sound PROVE Offers!Init => RecInvariant
<1> SUFFICES ASSUME Offers!Init PROVE RecInvariant
  OBVIOUS
<1>1. DOMAIN offers = {} /\ inflight = {} /\ cycle = Offers!Idle /\ command = Offers!NoCommand /\ moves = 0 /\ mishaps = 0
      /\ price \in Prices /\ faults \subseteq Offers!Faults /\ balance \in [Offers!Sides -> Nat]
  BY DEF Sound, Offers!LadderAssumption, Offers!Init
<1>2. {MaxOffers, MaxMoves, MaxMishaps} \subseteq Nat
  BY DEF Sound, Offers!LadderAssumption
<1>3. Offers!NoRecord \in Offers!Managed /\ Offers!NoRecord.offer = NoOffer /\ Offers!NoRecord.status = "none"
  BY DEF Sound, Offers!LadderAssumption, Offers!NoRecord, Offers!Managed, Offers!Statuses
<1>4. managed = [i \in Intents |-> Offers!NoRecord]
  BY DEF Offers!Init
<1>5. managed \in [Intents -> Offers!Managed] /\ Rows(managed)
  BY <1>3, <1>4 DEF Rows, Row
<1>6. created \in [Intents \cup {Manual} -> 0..MaxOffers]
  BY <1>2 DEF Offers!Init
<1>7. Shape
  BY <1>1, <1>2, <1>5, <1>6 DEF Shape
<1>8. Ledger
  <2>1. \A s : Offers!Liabilities(offers, s) = 0
    <3> SUFFICES ASSUME NEW s PROVE Offers!Liabilities(offers, s) = 0
      OBVIOUS
    <3>1. Owed(offers, s) = {}
      BY <1>1 DEF Owed
    <3> QED BY <3>1, LiabilitiesAdd, SumOfNone
  <2>2. \A s \in Offers!Sides : balance[s] \in Nat
    BY <1>1
  <2> QED BY <1>1, <2>1, <2>2 DEF Ledger, Book
<1>9. Memory
  BY <1>1, IdleOf, NoCommandOf, MemoryIs
<1>10. Waiting
  BY <1>1, IdleIs DEF Waiting
<1>11. Gone
  BY <1>1, <1>3, <1>4, IdleIs DEF Gone, Offers!CanceledIsGone
<1>12. Peace
  BY <1>1, IdleIs DEF Peace, Named, Offers!OwnOffers
<1> QED BY <1>7, <1>8, <1>9, <1>10, <1>11, <1>12 DEF RecInvariant

\* It holds when nothing happens,
LEMMA StutterKeeps == ASSUME RecInvariant, UNCHANGED Offers!vars PROVE RecInvariant'
<1>1. UNCHANGED <<faults, price, moves, mishaps, offers, created, balance, inflight, cycle, command, managed>>
  BY DEF Offers!vars, Offers!envVars, Offers!ledgerVars, Offers!storeVars
<1>2. Shape' /\ Ledger'
  BY <1>1, SameShape, SameLedger DEF RecInvariant
<1> QED BY <1>1, <1>2, QuietKeeps

\* and after every step.
LEMMA NextStill == ASSUME Sound, RecInvariant, Offers!Next PROVE RecInvariant'
<1>1. CASE Offers!CycleStep
  BY <1>1, GenerateOrdersKeeps, SyncFillsKeeps, CheckRiskKeeps, ReadOffersKeeps, PlanOffersKeeps, SubmitOffersKeeps,
     SubmissionFailedKeeps, ApplyKeeps, SyncManagedOffersKeeps DEF Offers!CycleStep
<1>2. CASE Offers!LedgerStep
  BY <1>2, ExecuteKeeps, RejectKeeps DEF Offers!LedgerStep
<1>3. CASE \E tx \in inflight : Offers!Expire(tx)
  BY <1>3, ExpireStill
<1>4. CASE \E o \in DOMAIN offers, n \in 1..Amount : Offers!Fill(o, n)
  BY <1>4, FillKeeps
<1>5. CASE Offers!MovePrice
  BY <1>5, MovePriceKeeps
<1>6. CASE Offers!SubmitOffer
  BY <1>6, SubmitOfferKeeps
<1>7. CASE \E o \in DOMAIN offers : Offers!CancelOfferByID(o)
  BY <1>7, CancelByHandKeeps
<1>8. CASE \E i \in Intents : Offers!GracePasses(i)
  BY <1>8, GracePassesKeeps
<1>9. CASE Offers!Crash
  BY <1>9, CrashKeeps
<1>10. CASE \E all \in BOOLEAN : Offers!BeginCancel(all)
  BY <1>10, BeginCancelKeeps
<1>11. CASE Offers!SendCancel
  BY <1>11, SendCancelKeeps
<1>12. CASE Offers!FinishCancel
  BY <1>12, FinishCancelKeeps
<1>13. CASE Offers!BeginEdit \/ Offers!SaveEdit
  BY <1>13, EditKeeps
<1> QED BY <1>1, <1>2, <1>3, <1>4, <1>5, <1>6, <1>7, <1>8, <1>9, <1>10, <1>11, <1>12, <1>13 DEF Offers!Next

\* It says what the records are to say.
LEMMA WhatAgrees == ASSUME RecInvariant, fills \subseteq trades, total \in Offers!Totals PROVE Offers!RecordsAgree
<1>1. Offers!TypeOK
  <2>1. Offers!Desired \subseteq Intents /\ cycle.actions \subseteq Offers!Actions
    BY DEF RecInvariant, Memory, Offers!Desired, Proper
  <2>2. inflight \subseteq Offers!Transactions
    BY DEF RecInvariant, Waiting
  <2>3. DOMAIN offers \subseteq Offers!OfferIds /\ \A o \in DOMAIN offers : offers[o] \in Offers!Offer
    BY DEF RecInvariant, Ledger, Book, Given
  <2> QED BY <2>1, <2>2, <2>3 DEF Offers!TypeOK, RecInvariant, Shape, Ledger
<1>2. Offers!LadderIntact
  <2>1. cycle.pc = "idle" => cycle.answer = "none"
    BY DEF RecInvariant, Waiting
  <2> QED BY <2>1 DEF Offers!LadderIntact, RecInvariant, Peace, Named
<1> QED BY <1>1, <1>2 DEF Offers!RecordsAgree, RecInvariant, Gone

\* The records of a strategy are true of its offers: the state is well formed, as long
\* as nothing is lost and nobody interferes each resting offer of the strategy is the one
\* its record names when a cycle is over, and no record says "canceled" of an offer that
\* rests, whatever is lost, taken, refused or saved late and whenever the process dies.
THEOREM RecordsAlwaysTrue == ASSUME Offers!LadderAssumption PROVE Offers!Spec => []Offers!RecordsAgree
<1>1. Offers!Init => Counted /\ Sent /\ RecInvariant
  <2> SUFFICES ASSUME Offers!Init PROVE Counted /\ Sent /\ RecInvariant
    OBVIOUS
  <2>1. Counted
    BY FS_EmptySet DEF Offers!Init, Counted, Undisturbed, Offers!Totals
  <2>2. Sent
    BY IdleSends DEF Offers!Init, Sent
  <2> QED BY <2>1, <2>2, InitRec DEF Sound
<1>2. Counted /\ Sent /\ RecInvariant /\ [Offers!Next]_(Offers!vars) => (Counted /\ Sent /\ RecInvariant)'
  <2>1. ASSUME Counted, Sent, UNCHANGED Offers!vars PROVE (Counted /\ Sent)'
    BY <2>1 DEF Offers!vars, Offers!ledgerVars, Offers!storeVars, Offers!envVars, Counted, Undisturbed, Sent, Bounded, Offers!Creates
  <2> QED BY <2>1, NextCounts, NextSends, NextStill, StutterKeeps DEF Sound
<1>3. Counted /\ RecInvariant => Offers!RecordsAgree
  BY WhatAgrees DEF Counted, Sound
<1> QED BY <1>1, <1>2, <1>3, PTL DEF Offers!Spec

------------------------------------------------------------------------------
(* The runtime row that the goroutines of the desk and the loops of the       *)
(* command line share, call by call (StrategyRuntime), for any processes,     *)
(* commands, lease, interval, limit of errors and launches.                   *)
(*                                                                            *)
(* The invariant adds to the shape of the state that the runtime row and each *)
(* copy of it are one row at most, and that a process that has still to claim *)
(* the strategy does not hold it (ClaimsOnce): a claim writes a new row, so   *)
(* it would switch a killed run on again.  A command line is not assumed to   *)
(* be another process than those that run the strategy.                       *)

CONSTANTS Runners, Schedulers, CommandLines, NoPid, Lease, Interval, MaxErrors, Setups
VARIABLES setup, strategy, runtime, pc, view, copy, claimed, result

Run == INSTANCE StrategyRuntime WITH Operators <- CommandLines

\* The instance has its own copy of the standard module.
LEMMA SizeOfRows == \A S : Run!Cardinality(S) = Cardinality(S)
BY DEF Run!Cardinality, Cardinality

Everyone == Run!Processes \cup CommandLines
Holding == {"mark", "killSave", "clearKill"}
AtMostOne(entries) == \A r, s \in entries : r = s

RowsWell ==
    /\ runtime \subseteq Run!Row /\ AtMostOne(runtime)
    /\ view \in [Everyone -> SUBSET Run!Row]
    /\ \A x \in Everyone : AtMostOne(view[x]) /\ (view[x] # {} <=> pc[x] \in Holding)

RestWell ==
    /\ setup \in Setups
    /\ strategy \in Run!Statuses \cup {"none"}
    /\ pc \in [Everyone -> Run!ProcessLabels \cup Run!CommandLabels]
    /\ copy \in [CommandLines -> Run!Statuses \cup {"none"}]
    /\ claimed \in [Run!Processes -> BOOLEAN]
    /\ result \in [Run!Processes -> {"ok", "failed"}]

\* A process that has not claimed the strategy yet does not hold it, and processes
\* stand at labels of their own.
ClaimsOnce ==
    \A p \in Run!Processes :
        /\ pc[p] \in {"out", "claim", "acquire"} => ~claimed[p]
        /\ p \notin CommandLines => pc[p] \in Run!ProcessLabels

RunInvariant == RowsWell /\ RestWell /\ ClaimsOnce

------------------------------------------------------------------------------
(* Runtime rows.                                                              *)

LEMMA Ages ==
    ASSUME Run!TradingAssumption
    PROVE  Run!OldAge \in Nat /\ 0 \in 0..Run!OldAge /\ Run!OldAge \in 0..Run!OldAge /\ 0 \in 0..MaxErrors
BY DEF Run!TradingAssumption, Run!OldAge

\* The row that a read makes up, and a row with some of its columns changed.
LEMMA NewRowWell ==
    ASSUME Run!TradingAssumption, NEW pid \in Run!Processes \cup {NoPid}
    PROVE  Run!NewRow(pid) \in Run!Row
BY Ages DEF Run!NewRow, Run!Row

LEMMA ClaimedRowWell ==
    ASSUME Run!TradingAssumption, NEW pid \in Run!Processes \cup {NoPid}
    PROVE  [Run!NewRow(pid) EXCEPT !.age = 0] \in Run!Row
BY Ages DEF Run!NewRow, Run!Row

LEMMA SwitchedWell ==
    ASSUME Run!TradingAssumption, NEW entry \in Run!Row, NEW on \in BOOLEAN
    PROVE  /\ [entry EXCEPT !.killSwitch = on] \in Run!Row
           /\ [entry EXCEPT !.killSwitch = on, !.age = 0] \in Run!Row
BY Ages DEF Run!Row

LEMMA OlderWell ==
    ASSUME Run!TradingAssumption, NEW entry \in Run!Row
    PROVE  Run!Older(entry) \in Run!Row /\ Run!Older(entry).killSwitch = entry.killSwitch
<1>1. entry.age \in 0..Run!OldAge
  BY DEF Run!Row
<1>2. (IF entry.age < Run!OldAge THEN entry.age + 1 ELSE entry.age) \in 0..Run!OldAge
  BY <1>1, Ages
<1> QED BY <1>2 DEF Run!Older, Run!Row

\* The row of a cycle that ended well or not.
Marked(entry, good) ==
    [entry EXCEPT !.age = 0, !.ran = TRUE,
                !.errors = IF good THEN 0 ELSE IF entry.errors < MaxErrors THEN entry.errors + 1 ELSE entry.errors]

LEMMA MarkedWell ==
    ASSUME Run!TradingAssumption, NEW entry \in Run!Row, NEW good \in BOOLEAN
    PROVE  Marked(entry, good) \in Run!Row /\ Marked(entry, good).killSwitch = entry.killSwitch
<1>1. entry.errors \in 0..MaxErrors
  BY DEF Run!Row
<1>2. (IF good THEN 0 ELSE IF entry.errors < MaxErrors THEN entry.errors + 1 ELSE entry.errors) \in 0..MaxErrors
  BY <1>1 DEF Run!TradingAssumption
<1> QED BY <1>2, Ages DEF Marked, Run!Row

\* What a read gives is the row that is there, or the one made up.
LEMMA ReadGives ==
    ASSUME Run!TradingAssumption, runtime \subseteq Run!Row, NEW pid \in Run!Processes \cup {NoPid}
    PROVE  Run!ReadRow(pid) \in Run!Row /\ (runtime # {} => Run!ReadRow(pid) \in runtime)
BY NewRowWell DEF Run!ReadRow

------------------------------------------------------------------------------
(* What a step leaves alone: others' labels and copies.                       *)

\* A step at one label that neither takes up a copy of the row nor puts one down.
LEMMA GoesKeeps ==
    ASSUME RowsWell, RestWell, NEW x \in Everyone, NEW l \in Run!ProcessLabels \cup Run!CommandLabels, Run!Goto(x, l),
           l \notin Holding, pc[x] \notin Holding,
           view' = view, runtime' \subseteq Run!Row, AtMostOne(runtime')
    PROVE  RowsWell' /\ pc' \in [Everyone -> Run!ProcessLabels \cup Run!CommandLabels]
<1>1. pc' \in [Everyone -> Run!ProcessLabels \cup Run!CommandLabels]
      /\ \A y \in Everyone : pc'[y] = IF y = x THEN l ELSE pc[y]
  BY DEF Run!Goto, RestWell
<1>2. \A y \in Everyone : AtMostOne(view[y]) /\ (view[y] # {} <=> pc'[y] \in Holding)
  BY <1>1 DEF RowsWell
<1> QED BY <1>1, <1>2 DEF RowsWell, AtMostOne

\* A step that does.
LEMMA HoldsKeeps ==
    ASSUME RowsWell, RestWell, NEW x \in Everyone, NEW l \in Run!ProcessLabels \cup Run!CommandLabels, Run!Goto(x, l),
           NEW entries \in SUBSET Run!Row, AtMostOne(entries), view' = [view EXCEPT ![x] = entries],
           entries # {} <=> l \in Holding, runtime' \subseteq Run!Row, AtMostOne(runtime')
    PROVE  RowsWell' /\ pc' \in [Everyone -> Run!ProcessLabels \cup Run!CommandLabels]
<1>1. pc' \in [Everyone -> Run!ProcessLabels \cup Run!CommandLabels]
      /\ \A y \in Everyone : pc'[y] = IF y = x THEN l ELSE pc[y]
  BY DEF Run!Goto, RestWell
<1>2. view' \in [Everyone -> SUBSET Run!Row] /\ \A y \in Everyone : view'[y] = IF y = x THEN entries ELSE view[y]
  BY DEF RowsWell
<1>3. \A y \in Everyone : AtMostOne(view'[y]) /\ (view'[y] # {} <=> pc'[y] \in Holding)
  BY <1>1, <1>2 DEF RowsWell
<1> QED BY <1>1, <1>2, <1>3 DEF RowsWell, AtMostOne

LEMMA PutsDownKeeps ==
    ASSUME RowsWell, RestWell, NEW x \in Everyone, NEW l \in Run!ProcessLabels \cup Run!CommandLabels, Run!Goto(x, l),
           l \notin Holding, view' = [view EXCEPT ![x] = {}], runtime' \subseteq Run!Row, AtMostOne(runtime')
    PROVE  RowsWell' /\ pc' \in [Everyone -> Run!ProcessLabels \cup Run!CommandLabels]
<1>1. AtMostOne({}) /\ {} \in SUBSET Run!Row
  BY DEF AtMostOne
<1> QED BY <1>1, HoldsKeeps

\* The claims after a step of one process or command that claims nothing.
LEMMA ClaimsKeep ==
    ASSUME RestWell, ClaimsOnce, NEW x \in Everyone, NEW l, Run!Goto(x, l), claimed' = claimed,
           l \in {"out", "claim", "acquire"} /\ x \in Run!Processes => ~claimed[x],
           x \in CommandLines \/ l \in Run!ProcessLabels
    PROVE  ClaimsOnce'
<1>1. \A y \in Everyone : pc'[y] = IF y = x THEN l ELSE pc[y]
  BY DEF Run!Goto, RestWell
<1>2. ASSUME NEW p \in Run!Processes
      PROVE  (pc'[p] \in {"out", "claim", "acquire"} => ~claimed'[p])
             /\ (p \notin CommandLines => pc'[p] \in Run!ProcessLabels)
  BY <1>1 DEF Everyone, ClaimsOnce
<1> QED BY <1>2 DEF ClaimsOnce

------------------------------------------------------------------------------
(* The steps of a process.                                                    *)

LEMMA GoingKeeps ==
    ASSUME RunInvariant, NEW p \in Run!Processes, UNCHANGED <<setup, strategy, runtime, view, copy, claimed>>,
           result' = result \/ \E r \in {"ok", "failed"} : result' = [result EXCEPT ![p] = r],
           NEW l \in Run!ProcessLabels \ {"mark"}, Run!Goto(p, l), pc[p] \notin Holding,
           l \in {"out", "claim", "acquire"} => ~claimed[p]
    PROVE  RunInvariant'
<1>1. p \in Everyone /\ l \in Run!ProcessLabels \cup Run!CommandLabels /\ l \notin Holding
  BY DEF Everyone, Run!ProcessLabels, Holding
<1>2. RowsWell' /\ pc' \in [Everyone -> Run!ProcessLabels \cup Run!CommandLabels]
  BY <1>1, GoesKeeps DEF RunInvariant, RowsWell
<1>3. result' \in [Run!Processes -> {"ok", "failed"}]
  BY DEF RunInvariant, RestWell
<1>4. RestWell'
  BY <1>2, <1>3 DEF RunInvariant, RestWell
<1>5. ClaimsOnce'
  BY <1>1, ClaimsKeep DEF RunInvariant
<1> QED BY <1>2, <1>4, <1>5 DEF RunInvariant

LEMMA ProcessKeeps ==
    ASSUME Run!TradingAssumption, RunInvariant, NEW p \in Run!Processes,
           Run!ProcessStep(p) \/ Run!Launch(p) \/ Run!Interrupt(p) \/ Run!Crash(p), UNCHANGED setup
    PROVE  RunInvariant'
<1> USE DEF RunInvariant
<1>0. p \in Everyone /\ claimed \in [Run!Processes -> BOOLEAN]
      /\ Run!ProcessLabels \subseteq Run!ProcessLabels \cup Run!CommandLabels
      /\ strategy \in Run!Statuses \cup {"none"} /\ copy \in [CommandLines -> Run!Statuses \cup {"none"}]
      /\ result \in [Run!Processes -> {"ok", "failed"}] /\ runtime \subseteq Run!Row /\ AtMostOne(runtime)
  BY DEF Everyone, RestWell, RowsWell
<1>a. pc[p] \in {"out", "claim", "acquire"} => ~claimed[p]
  BY DEF ClaimsOnce
<1>1. CASE Run!ReadClaim(p)
  <2>1. PICK l \in {"out", "read", "acquire"} : Run!Goto(p, l)
    BY <1>1 DEF Run!ReadClaim
  <2>2. UNCHANGED <<strategy, runtime, view, copy, claimed>> /\ pc[p] = "claim"
        /\ (result' = result \/ result' = [result EXCEPT ![p] = "failed"])
    BY <1>1 DEF Run!ReadClaim
  <2> QED BY <2>1, <2>2, <1>a, GoingKeeps DEF Run!ProcessLabels, Holding
<1>2. CASE Run!AcquireRuntime(p)
  <2>1. PICK l \in {"load", "due"} : Run!Goto(p, l)
    BY <1>2 DEF Run!AcquireRuntime
  <2>2. runtime' = {[Run!NewRow(p) EXCEPT !.age = 0]} /\ claimed' = [claimed EXCEPT ![p] = TRUE] /\ pc[p] = "acquire"
        /\ UNCHANGED <<strategy, view, copy, result>>
    BY <1>2 DEF Run!AcquireRuntime
  <2>3. runtime' \subseteq Run!Row /\ AtMostOne(runtime')
    BY <2>2, ClaimedRowWell DEF AtMostOne
  <2>4. RowsWell' /\ pc' \in [Everyone -> Run!ProcessLabels \cup Run!CommandLabels]
    BY <1>0, <2>1, <2>2, <2>3, GoesKeeps DEF Run!ProcessLabels, Holding
  <2>5. RestWell'
    BY <1>0, <2>2, <2>4 DEF RestWell
  <2>6. ClaimsOnce'
    BY <1>0, <2>1, <2>2 DEF ClaimsOnce, Run!Goto, RestWell, Everyone, Run!ProcessLabels
  <2> QED BY <2>4, <2>5, <2>6
<1>3. CASE Run!ReadRuntime(p)
  <2>1. Run!ReadRow(p) \in Run!Row /\ AtMostOne({Run!ReadRow(p)}) /\ {Run!ReadRow(p)} # {}
        /\ {Run!ReadRow(p)} \in SUBSET Run!Row
    BY <1>0, ReadGives DEF AtMostOne
  <2>2. view' = [view EXCEPT ![p] = {Run!ReadRow(p)}] /\ Run!Goto(p, "mark")
        /\ UNCHANGED <<strategy, runtime, copy, claimed, result>>
    BY <1>3 DEF Run!ReadRuntime
  <2>3. "mark" \in Run!ProcessLabels \cup Run!CommandLabels /\ "mark" \in Holding
    BY DEF Run!ProcessLabels, Holding
  <2>4. RowsWell' /\ pc' \in [Everyone -> Run!ProcessLabels \cup Run!CommandLabels]
    BY <1>0, <2>1, <2>2, <2>3, HoldsKeeps
  <2> QED BY <1>0, <2>2, <2>4, ClaimsKeep DEF RestWell, Run!ProcessLabels
<1>4. CASE Run!MarkRuntime(p)
  <2>1. PICK entry \in view[p] : runtime' = {Marked(entry, result[p] = "ok")}
    BY <1>4 DEF Run!MarkRuntime, Marked
  <2>2. PICK l \in {"errors", "sleep"} : Run!Goto(p, l)
    BY <1>4 DEF Run!MarkRuntime
  <2>3. view' = [view EXCEPT ![p] = {}] /\ UNCHANGED <<strategy, copy, claimed, result>>
    BY <1>4 DEF Run!MarkRuntime
  <2>4. runtime' \subseteq Run!Row /\ AtMostOne(runtime')
    <3>1. entry \in Run!Row
      BY <1>0 DEF RowsWell
    <3>2. Marked(entry, result[p] = "ok") \in Run!Row
      BY <3>1, MarkedWell
    <3> QED BY <2>1, <3>2 DEF AtMostOne
  <2>5. RowsWell' /\ pc' \in [Everyone -> Run!ProcessLabels \cup Run!CommandLabels]
    BY <1>0, <2>2, <2>3, <2>4, PutsDownKeeps DEF Run!ProcessLabels, Holding
  <2> QED BY <1>0, <2>2, <2>3, <2>5, ClaimsKeep DEF RestWell, Run!ProcessLabels
<1>5. CASE Run!ClearRuntime(p)
  <2>1. runtime' = {} /\ claimed' = [claimed EXCEPT ![p] = FALSE] /\ Run!Goto(p, "out") /\ pc[p] = "clear"
        /\ UNCHANGED <<strategy, view, copy, result>>
    BY <1>5 DEF Run!ClearRuntime
  <2>2. RowsWell' /\ pc' \in [Everyone -> Run!ProcessLabels \cup Run!CommandLabels]
    BY <1>0, <2>1, GoesKeeps DEF Run!ProcessLabels, Holding, AtMostOne
  <2>3. RestWell'
    BY <2>1, <2>2 DEF RestWell
  <2>4. ClaimsOnce'
    BY <1>0, <2>1 DEF ClaimsOnce, Run!Goto, RestWell, Everyone, Run!ProcessLabels
  <2> QED BY <2>2, <2>3, <2>4
<1>6. CASE Run!CheckRisk(p) \/ Run!SubmitOffers(p)
  <2>1. PICK l \in {"submit", "save"} : Run!Goto(p, l)
    BY <1>6 DEF Run!CheckRisk, Run!SubmitOffers
  <2>2. pc[p] \in {"check", "submit"} /\ UNCHANGED <<strategy, runtime, view, copy, claimed>>
        /\ (result' = result \/ \E r \in {"ok", "failed"} : result' = [result EXCEPT ![p] = r])
    BY <1>6 DEF Run!CheckRisk, Run!SubmitOffers
  <2> QED BY <2>1, <2>2, GoingKeeps DEF Run!ProcessLabels, Holding
<1>7. CASE Run!SaveCycle(p) \/ Run!GiveUp(p)
  <2>1. PICK l \in {"read", "clear"} : Run!Goto(p, l)
    BY <1>7 DEF Run!SaveCycle, Run!GiveUp
  <2>2. pc[p] \in {"save", "giveUp"} /\ UNCHANGED <<runtime, view, copy, claimed, result>>
        /\ strategy' \in {"active", "error"}
    BY <1>7 DEF Run!SaveCycle, Run!GiveUp
  <2>3. RowsWell' /\ pc' \in [Everyone -> Run!ProcessLabels \cup Run!CommandLabels]
    BY <1>0, <2>1, <2>2, GoesKeeps DEF Run!ProcessLabels, Holding
  <2>4. RestWell'
    BY <2>2, <2>3 DEF RestWell, Run!Statuses
  <2> QED BY <1>0, <2>1, <2>2, <2>3, <2>4, ClaimsKeep DEF Run!ProcessLabels
<1>8. CASE Run!Launch(p) \/ Run!ListActive(p) \/ Run!LoadStrategy(p)
  <2>1. PICK l \in {"claim", "list", "load", "clear", "out", "check", "sleep", "due"} : Run!Goto(p, l)
    BY <1>8 DEF Run!Launch, Run!ListActive, Run!LoadStrategy
  <2>2. pc[p] \in {"out", "list", "load"} /\ UNCHANGED <<strategy, runtime, view, copy, claimed, result>>
    BY <1>8 DEF Run!Launch, Run!ListActive, Run!LoadStrategy
  <2>3. l \in {"out", "claim", "acquire"} => ~claimed[p]
    <3>1. pc'[p] = l
      BY <1>0, <2>1 DEF Run!Goto, RestWell
    <3> QED BY <1>0, <1>8, <1>a, <3>1 DEF Run!Launch, Run!ListActive, Run!LoadStrategy, Run!Goto, RestWell
  <2> QED BY <2>1, <2>2, <2>3, GoingKeeps DEF Run!ProcessLabels, Holding
<1>9. CASE Run!RuntimeDue(p) \/ Run!MaxErrorsReached(p) \/ Run!Wake(p)
  <2>1. PICK l \in {"check", "sleep", "giveUp", "load", "list"} : Run!Goto(p, l)
    BY <1>9 DEF Run!RuntimeDue, Run!MaxErrorsReached, Run!Wake
  <2>2. pc[p] \in {"due", "errors", "sleep"} /\ UNCHANGED <<strategy, runtime, view, copy, claimed, result>>
    BY <1>9 DEF Run!RuntimeDue, Run!MaxErrorsReached, Run!Wake
  <2> QED BY <2>1, <2>2, GoingKeeps DEF Run!ProcessLabels, Holding
<1>10. CASE Run!Interrupt(p)
  <2>1. Run!Goto(p, IF claimed[p] THEN "clear" ELSE "out") /\ pc[p] = "sleep"
        /\ UNCHANGED <<strategy, runtime, view, copy, claimed, result>>
    BY <1>10 DEF Run!Interrupt
  <2> QED BY <2>1, GoingKeeps DEF Run!ProcessLabels, Holding
<1>11. CASE Run!Crash(p)
  <2>1. Run!Goto(p, "dead") /\ view' = [view EXCEPT ![p] = {}]
        /\ UNCHANGED <<strategy, runtime, copy, claimed, result>>
    BY <1>11 DEF Run!Crash
  <2>2. RowsWell' /\ pc' \in [Everyone -> Run!ProcessLabels \cup Run!CommandLabels]
    BY <1>0, <2>1, PutsDownKeeps DEF Run!ProcessLabels, Holding
  <2> QED BY <1>0, <2>1, <2>2, ClaimsKeep DEF RestWell, Run!ProcessLabels
<1> QED BY <1>1, <1>2, <1>3, <1>4, <1>5, <1>6, <1>7, <1>8, <1>9, <1>10, <1>11 DEF Run!ProcessStep

------------------------------------------------------------------------------
(* The steps of a command, and time.                                          *)

\* What a command leaves as it was, at a label of its own.
LEMMA CommandGoes ==
    ASSUME RunInvariant, NEW o \in CommandLines, NEW l \in Run!CommandLabels, Run!Goto(o, l), UNCHANGED <<setup,
           claimed, result>>,
           strategy' \in Run!Statuses \cup {"none"}, copy' \in [CommandLines -> Run!Statuses \cup {"none"}], RowsWell'
    PROVE  RunInvariant'
<1>1. o \in Everyone /\ l \notin {"out", "claim", "acquire"} /\ l \in Run!ProcessLabels \cup Run!CommandLabels
  BY DEF Everyone, Run!CommandLabels
<1>2. pc' \in [Everyone -> Run!ProcessLabels \cup Run!CommandLabels]
  BY <1>1 DEF Run!Goto, RunInvariant, RestWell
<1>3. RestWell'
  BY <1>2 DEF RunInvariant, RestWell
<1>4. ClaimsOnce'
  BY <1>1, ClaimsKeep DEF RunInvariant
<1> QED BY <1>3, <1>4 DEF RunInvariant

LEMMA CommandKeeps ==
    ASSUME Run!TradingAssumption, RunInvariant, NEW o \in CommandLines, Run!Command(o), UNCHANGED setup
    PROVE  RunInvariant'
<1>0. /\ o \in Everyone /\ RowsWell /\ RestWell
      /\ strategy \in Run!Statuses \cup {"none"} /\ copy \in [CommandLines -> Run!Statuses \cup {"none"}]
      /\ runtime \subseteq Run!Row /\ AtMostOne(runtime)
      /\ Run!CommandLabels \subseteq Run!ProcessLabels \cup Run!CommandLabels
  BY DEF Everyone, RunInvariant, RestWell, RowsWell
<1>1. CASE Run!StartStrategy(o) \/ Run!StopStrategy(o) \/ Run!PauseStrategy(o) \/ Run!KillSwitch(o)
           \/ Run!DeleteStrategy(o) \/ Run!RunOnce(o)
  <2>1. PICK l \in {"start", "stop", "pause", "killRead", "delete", "once"} : Run!Goto(o, l)
    BY <1>1 DEF Run!StartStrategy, Run!StopStrategy, Run!PauseStrategy, Run!KillSwitch, Run!DeleteStrategy,
                Run!RunOnce
  <2>2. pc[o] = "idle" /\ UNCHANGED <<strategy, runtime, view, claimed, result>>
        /\ (copy' = copy \/ copy' = [copy EXCEPT ![o] = strategy])
    BY <1>1 DEF Run!StartStrategy, Run!StopStrategy, Run!PauseStrategy, Run!KillSwitch, Run!DeleteStrategy,
                Run!RunOnce
  <2>3. l \in Run!CommandLabels /\ l \notin Holding /\ pc[o] \notin Holding
    BY <2>1, <2>2 DEF Run!CommandLabels, Holding
  <2>4. RowsWell'
    BY <1>0, <2>1, <2>2, <2>3, GoesKeeps
  <2>5. copy' \in [CommandLines -> Run!Statuses \cup {"none"}]
    BY <1>0, <2>2
  <2> QED BY <1>0, <2>1, <2>2, <2>3, <2>4, <2>5, CommandGoes
<1>2. CASE Run!ClearKillSwitch(o) \/ Run!ReadKilled(o)
  <2>1. PICK l \in {"clearKill", "killSave"} : Run!Goto(o, l)
    BY <1>2 DEF Run!ClearKillSwitch, Run!ReadKilled
  <2>2. view' = [view EXCEPT ![o] = {Run!ReadRow(NoPid)}] /\ UNCHANGED <<strategy, runtime, copy, claimed, result>>
    BY <1>2 DEF Run!ClearKillSwitch, Run!ReadKilled
  <2>3. Run!ReadRow(NoPid) \in Run!Row /\ AtMostOne({Run!ReadRow(NoPid)})
    BY <1>0, ReadGives DEF AtMostOne
  <2>4. l \in Run!CommandLabels /\ l \in Holding
    BY DEF Run!CommandLabels, Holding
  <2>5. RowsWell'
    BY <1>0, <2>1, <2>2, <2>3, <2>4, HoldsKeeps
  <2> QED BY <1>0, <2>1, <2>2, <2>4, <2>5, CommandGoes
<1>3. CASE Run!SaveStrategy(o) \/ Run!SaveStopped(o) \/ Run!ClearStopped(o) \/ Run!DeleteRows(o)
  <2>1. PICK l \in {"idle", "stopClear"} : Run!Goto(o, l)
    BY <1>3 DEF Run!SaveStrategy, Run!SaveStopped, Run!ClearStopped, Run!DeleteRows
  <2>2. pc[o] \in {"start", "pause", "killPause", "once", "stop", "stopClear", "delete"}
    BY <1>3 DEF Run!SaveStrategy, Run!SaveStopped, Run!ClearStopped, Run!DeleteRows
  <2>3. UNCHANGED <<view, claimed, result>> /\ runtime' \in {{}, runtime}
        /\ (copy' = copy \/ copy' = [copy EXCEPT ![o] = "none"])
        /\ strategy' \in {strategy, "active", "paused", "stopped", "none", copy[o]}
    BY <1>3 DEF Run!SaveStrategy, Run!SaveStopped, Run!ClearStopped, Run!DeleteRows
  <2>4. l \in Run!CommandLabels /\ l \notin Holding /\ pc[o] \notin Holding
    BY <2>2 DEF Run!CommandLabels, Holding
  <2>5. RowsWell'
    <3>1. runtime' \subseteq Run!Row /\ AtMostOne(runtime')
      BY <1>0, <2>3 DEF AtMostOne
    <3> QED BY <1>0, <2>1, <2>3, <2>4, <3>1, GoesKeeps
  <2>6. strategy' \in Run!Statuses \cup {"none"} /\ copy' \in [CommandLines -> Run!Statuses \cup {"none"}]
    BY <1>0, <2>3 DEF Run!Statuses
  <2> QED BY <2>1, <2>3, <2>4, <2>5, <2>6, CommandGoes
<1>4. CASE Run!SaveKilled(o) \/ Run!SaveCleared(o)
  <2>1. PICK l \in {"idle", "killPause"} : Run!Goto(o, l)
    BY <1>4 DEF Run!SaveKilled, Run!SaveCleared
  <2>2. view' = [view EXCEPT ![o] = {}] /\ UNCHANGED <<strategy, copy, claimed, result>>
    BY <1>4 DEF Run!SaveKilled, Run!SaveCleared
  <2>3. view[o] \subseteq Run!Row /\ AtMostOne(view[o])
    BY <1>0 DEF RowsWell
  <2>4. runtime' \subseteq Run!Row /\ AtMostOne(runtime')
    BY <1>4, <2>3, SwitchedWell DEF Run!SaveKilled, Run!SaveCleared, AtMostOne
  <2>5. l \in Run!CommandLabels /\ l \notin Holding
    BY DEF Run!CommandLabels, Holding
  <2>6. RowsWell'
    BY <1>0, <2>1, <2>2, <2>4, <2>5, PutsDownKeeps
  <2> QED BY <1>0, <2>1, <2>2, <2>5, <2>6, CommandGoes
<1>5. CASE Run!AbandonCommand(o)
  <2>1. Run!Goto(o, "idle") /\ view' = [view EXCEPT ![o] = {}] /\ copy' = [copy EXCEPT ![o] = "none"]
        /\ UNCHANGED <<strategy, runtime, claimed, result>>
    BY <1>5 DEF Run!AbandonCommand
  <2>2. "idle" \in Run!CommandLabels /\ "idle" \notin Holding
    BY DEF Run!CommandLabels, Holding
  <2>3. RowsWell'
    BY <1>0, <2>1, <2>2, PutsDownKeeps
  <2> QED BY <1>0, <2>1, <2>2, <2>3, CommandGoes
<1> QED BY <1>1, <1>2, <1>3, <1>4, <1>5 DEF Run!Command

LEMMA TickKeeps == ASSUME Run!TradingAssumption, RunInvariant, Run!Tick, UNCHANGED setup PROVE RunInvariant'
<1>1. /\ runtime' = {Run!Older(entry) : entry \in runtime}
      /\ view' = [x \in Everyone |-> {Run!Older(entry) : entry \in view[x]}]
      /\ UNCHANGED <<strategy, pc, copy, claimed, result>>
  BY DEF Run!Tick, RunInvariant, RowsWell
<1>2. \A entries \in SUBSET Run!Row : AtMostOne(entries) =>
          /\ {Run!Older(entry) : entry \in entries} \in SUBSET Run!Row
          /\ AtMostOne({Run!Older(entry) : entry \in entries})
          /\ {Run!Older(entry) : entry \in entries} # {} <=> entries # {}
  BY OlderWell DEF AtMostOne
<1>3. runtime' \subseteq Run!Row /\ AtMostOne(runtime')
  BY <1>1, <1>2 DEF RunInvariant, RowsWell
<1>4. \A x \in Everyone : view[x] \in SUBSET Run!Row /\ AtMostOne(view[x])
  BY DEF RunInvariant, RowsWell
<1>5. \A x \in Everyone : view'[x] \in SUBSET Run!Row /\ AtMostOne(view'[x]) /\ (view'[x] # {} <=> view[x] # {})
  BY <1>1, <1>2, <1>4
<1>6. RowsWell'
  <2>1. view' \in [Everyone -> SUBSET Run!Row]
    BY <1>1, <1>5
  <2>2. \A x \in Everyone : AtMostOne(view'[x]) /\ (view'[x] # {} <=> pc'[x] \in Holding)
    BY <1>1, <1>5 DEF RunInvariant, RowsWell
  <2> QED BY <1>3, <2>1, <2>2 DEF RowsWell, AtMostOne
<1>7. RestWell' /\ ClaimsOnce'
  BY <1>1 DEF RunInvariant, RestWell, ClaimsOnce
<1> QED BY <1>6, <1>7 DEF RunInvariant

------------------------------------------------------------------------------
(* A killed run.  By the switch it is held while the switch is on, also in    *)
(* the copy it is about to write; by the status it is held from the moment it *)
(* has read the row until it looks at the status again.                       *)

BySwitch(p) == Run!KillSwitchOn /\ \A entry \in view[p] : entry.killSwitch
ByStatus(p) == strategy # "active" /\ pc[p] \in {"mark", "errors", "giveUp", "sleep", "list", "load", "clear"}

\* A process that leaves rows and copies alone and goes on is held by the switch as before.
LEMMA SwitchHolds ==
    ASSUME RestWell, NEW p \in Run!Processes, claimed[p], BySwitch(p), UNCHANGED <<runtime, view, claimed>>,
           NEW l, Run!Goto(p, l)
    PROVE  Run!Killed(p)' \/ Run!Off(p)'
BY DEF Run!Killed, BySwitch, Run!KillSwitchOn, Run!Off

\* One that is held by the status looks at it, or ends.
LEMMA StatusHolds ==
    ASSUME RestWell, NEW p \in Run!Processes, claimed[p], strategy' # "active", claimed' = claimed,
           NEW l \in {"mark", "errors", "giveUp", "sleep", "list", "load", "clear", "out", "dead"}, Run!Goto(p, l)
    PROVE  Run!Killed(p)' \/ Run!Off(p)'
<1>1. pc'[p] = l
  BY DEF Run!Goto, RestWell, Everyone
<1> QED BY <1>1 DEF Run!Killed, Run!Off

LEMMA OwnStepKills ==
    ASSUME Run!TradingAssumption, RunInvariant, NEW p \in Run!Processes, Run!Killed(p),
           Run!ProcessStep(p) \/ Run!Launch(p) \/ Run!Interrupt(p) \/ Run!Crash(p)
    PROVE  /\ Run!Killed(p)' \/ Run!Off(p)'
           /\ pc[p] = "check" /\ pc'[p] = "submit" => setup.mayWantNothing
<1>0. /\ RestWell /\ claimed[p] /\ pc[p] \notin {"out", "dead", "claim", "acquire"} /\ (BySwitch(p) \/ ByStatus(p))
      /\ p \in Everyone /\ pc \in [Everyone -> Run!ProcessLabels \cup Run!CommandLabels]
      /\ claimed \in [Run!Processes -> BOOLEAN] /\ view \in [Everyone -> SUBSET Run!Row]
  BY DEF RunInvariant, Run!Killed, Run!Off, BySwitch, ByStatus, ClaimsOnce, RowsWell, RestWell, Everyone
<1>1. CASE Run!CheckRisk(p)
  <2>1. BySwitch(p)
    BY <1>0, <1>1 DEF Run!CheckRisk, ByStatus
  <2>2. PICK l \in {"submit", "save"} : Run!Goto(p, l)
    BY <1>1 DEF Run!CheckRisk
  <2>3. UNCHANGED <<runtime, view, claimed>>
    BY <1>1 DEF Run!CheckRisk
  <2>4. pc'[p] = "submit" => setup.mayWantNothing
    <3>1. Run!KillSwitchOn
      BY <2>1 DEF BySwitch
    <3>2. Run!Goto(p, "save") => pc'[p] = "save"
      BY <1>0 DEF Run!Goto
    <3> QED BY <1>1, <3>1, <3>2 DEF Run!CheckRisk
  <2> QED BY <1>0, <2>1, <2>2, <2>3, <2>4, SwitchHolds
<1>2. CASE Run!SubmitOffers(p) \/ Run!SaveCycle(p) \/ Run!RuntimeDue(p)
  <2>1. BySwitch(p) /\ pc[p] # "check"
    BY <1>0, <1>2 DEF Run!SubmitOffers, Run!SaveCycle, Run!RuntimeDue, ByStatus
  <2>2. PICK l \in {"save", "read", "check", "sleep"} : Run!Goto(p, l)
    BY <1>2 DEF Run!SubmitOffers, Run!SaveCycle, Run!RuntimeDue
  <2>3. UNCHANGED <<runtime, view, claimed>>
    BY <1>2 DEF Run!SubmitOffers, Run!SaveCycle, Run!RuntimeDue
  <2> QED BY <1>0, <2>1, <2>2, <2>3, SwitchHolds
<1>3. CASE Run!ReadRuntime(p)
  <2>1. BySwitch(p) /\ pc[p] # "check"
    BY <1>0, <1>3 DEF Run!ReadRuntime, ByStatus
  <2>2. view'[p] = {Run!ReadRow(p)} /\ runtime' = runtime /\ claimed' = claimed
    BY <1>0, <1>3 DEF Run!ReadRuntime
  <2>3. Run!ReadRow(p).killSwitch
    <3>1. PICK entry \in runtime : entry.killSwitch
      BY <2>1 DEF BySwitch, Run!KillSwitchOn
    <3>2. Run!ReadRow(p) \in runtime
      BY <3>1 DEF Run!ReadRow
    <3> QED BY <3>1, <3>2 DEF RunInvariant, RowsWell, AtMostOne
  <2>4. pc'[p] = "mark"
    BY <1>0, <1>3 DEF Run!ReadRuntime, Run!Goto
  <2> QED BY <1>0, <2>1, <2>2, <2>3, <2>4 DEF Run!Killed, Run!Off, BySwitch, Run!KillSwitchOn
<1>4. CASE Run!MarkRuntime(p)
  <2>1. PICK entry \in view[p] : runtime' = {Marked(entry, result[p] = "ok")}
    BY <1>4 DEF Run!MarkRuntime, Marked
  <2>2. view'[p] = {} /\ claimed' = claimed /\ strategy' = strategy /\ pc[p] = "mark"
    BY <1>0, <1>4 DEF Run!MarkRuntime
  <2>3. PICK l \in {"errors", "sleep"} : Run!Goto(p, l)
    BY <1>4 DEF Run!MarkRuntime
  <2>4. CASE BySwitch(p)
    <3>1. entry.killSwitch /\ entry \in Run!Row
      BY <1>0, <2>1, <2>4 DEF BySwitch
    <3>2. Marked(entry, result[p] = "ok").killSwitch
      BY <3>1, MarkedWell
    <3>3. BySwitch(p)'
      BY <2>1, <2>2, <3>2 DEF BySwitch, Run!KillSwitchOn
    <3> QED BY <1>0, <2>2, <3>3 DEF Run!Killed, BySwitch, Run!Off
  <2>5. CASE ByStatus(p)
    BY <1>0, <2>2, <2>3, <2>5, StatusHolds DEF ByStatus
  <2> QED BY <1>0, <2>2, <2>4, <2>5
<1>5. CASE Run!ClearRuntime(p)
  <2>1. pc[p] = "clear" /\ pc'[p] = "out"
    BY <1>0, <1>5 DEF Run!ClearRuntime, Run!Goto
  <2> QED BY <2>1 DEF Run!Off
<1>6. CASE Run!MaxErrorsReached(p) \/ Run!Wake(p) \/ Run!Interrupt(p) \/ Run!ListActive(p) \/ Run!LoadStrategy(p)
  <2>1. UNCHANGED <<strategy, runtime, view, claimed>> /\ pc[p] \in {"errors", "sleep", "list", "load"}
    BY <1>6 DEF Run!MaxErrorsReached, Run!Wake, Run!Interrupt, Run!ListActive, Run!LoadStrategy
  <2>2. PICK l : Run!Goto(p, l) /\ (strategy # "active" => l \in {"giveUp", "sleep", "load", "list", "clear", "out"})
    BY <1>6 DEF Run!MaxErrorsReached, Run!Wake, Run!Interrupt, Run!ListActive, Run!LoadStrategy
  <2>3. CASE BySwitch(p)
    BY <1>0, <2>1, <2>2, <2>3, SwitchHolds
  <2>4. CASE ByStatus(p)
    BY <1>0, <2>1, <2>2, <2>4, StatusHolds DEF ByStatus
  <2> QED BY <1>0, <2>1, <2>3, <2>4
<1>7. CASE Run!GiveUp(p)
  <2>1. pc[p] = "giveUp" /\ Run!Goto(p, "clear") /\ claimed' = claimed /\ strategy' = "error"
    BY <1>7 DEF Run!GiveUp
  <2> QED BY <1>0, <2>1, StatusHolds
<1>8. CASE Run!Crash(p)
  <2>1. pc'[p] = "dead"
    BY <1>0, <1>8 DEF Run!Crash, Run!Goto
  <2> QED BY <2>1 DEF Run!Off
<1>9. ~Run!ReadClaim(p) /\ ~Run!AcquireRuntime(p) /\ ~Run!Launch(p)
  BY <1>0 DEF Run!ReadClaim, Run!AcquireRuntime, Run!Launch
<1> QED BY <1>1, <1>2, <1>3, <1>4, <1>5, <1>6, <1>7, <1>8, <1>9 DEF Run!ProcessStep

\* A process that is not running can only be launched, which the killed one does not see.
LEMMA OthersKill ==
    ASSUME RunInvariant, NEW p \in Run!Processes, Run!Killed(p), NEW q \in Run!Processes \ {p}, Run!Off(q),
           Run!ProcessStep(q) \/ Run!Launch(q) \/ Run!Interrupt(q) \/ Run!Crash(q)
    PROVE  Run!Killed(p)' /\ pc'[p] = pc[p]
<1>1. pc[q] \in {"out", "dead"}
  BY DEF Run!Off
<1>2. Run!Launch(q)
  BY <1>1 DEF Run!ProcessStep, Run!ReadClaim, Run!AcquireRuntime, Run!ReadRuntime, Run!MarkRuntime, Run!ClearRuntime,
              Run!CheckRisk, Run!SubmitOffers,
              Run!SaveCycle, Run!ListActive, Run!LoadStrategy, Run!RuntimeDue, Run!MaxErrorsReached, Run!GiveUp,
              Run!Wake, Run!Interrupt, Run!Crash
<1>3. UNCHANGED <<strategy, runtime, view, claimed>> /\ pc'[p] = pc[p]
  BY <1>2 DEF Run!Launch, Run!Goto, RunInvariant, RestWell, Everyone
<1> QED BY <1>3 DEF Run!Killed, Run!Off, Run!KillSwitchOn

\* A command that begins reads, and writes nothing yet.
LEMMA CommandsKill ==
    ASSUME Run!TradingAssumption, RunInvariant, NEW p \in Run!Processes, Run!Killed(p), NEW o \in CommandLines,
           Run!Quiet, Run!Command(o)
    PROVE  Run!Killed(p)' /\ (pc[p] = "check" => pc'[p] = pc[p])
<1>1. pc[o] = "idle"
  BY DEF Run!Quiet
<1>2. /\ UNCHANGED <<strategy, runtime, claimed>>
      /\ view' = view \/ view' = [view EXCEPT ![o] = {Run!ReadRow(NoPid)}]
      /\ \E l \in {"start", "stop", "pause", "killRead", "clearKill", "delete", "once"} : Run!Goto(o, l)
  BY <1>1 DEF Run!Command, Run!StartStrategy, Run!StopStrategy, Run!PauseStrategy, Run!KillSwitch,
              Run!ClearKillSwitch, Run!DeleteStrategy, Run!RunOnce,
              Run!SaveStrategy, Run!SaveStopped, Run!ClearStopped, Run!ReadKilled, Run!SaveKilled, Run!SaveCleared,
              Run!DeleteRows, Run!AbandonCommand
<1>3. CASE o # p
  <2>1. pc'[p] = pc[p] /\ view'[p] = view[p]
    BY <1>2, <1>3 DEF Run!Goto, RunInvariant, RestWell, RowsWell, Everyone
  <2> QED BY <1>2, <2>1 DEF Run!Killed, Run!Off, Run!KillSwitchOn
<1>4. CASE o = p
  <2>1. BySwitch(p)
    BY <1>1, <1>4 DEF Run!Killed, BySwitch
  <2>2. PICK entry \in runtime : entry.killSwitch
    BY <2>1 DEF BySwitch, Run!KillSwitchOn
  <2>3. Run!ReadRow(NoPid).killSwitch
    <3>1. Run!ReadRow(NoPid) \in runtime
      BY <2>2 DEF Run!ReadRow
    <3> QED BY <2>2, <3>1 DEF RunInvariant, RowsWell, AtMostOne
  <2>4. \A r \in view'[p] : r.killSwitch
    BY <1>2, <2>1, <2>3 DEF BySwitch, RunInvariant, RowsWell, Everyone
  <2>5. pc'[p] \notin {"out", "dead"} /\ pc[p] # "check"
    BY <1>1, <1>2, <1>4 DEF Run!Goto, RunInvariant, RestWell, Everyone
  <2> QED BY <1>2, <2>1, <2>4, <2>5 DEF Run!Killed, Run!Off, BySwitch, Run!KillSwitchOn
<1> QED BY <1>3, <1>4

LEMMA TickKills ==
    ASSUME Run!TradingAssumption, RunInvariant, NEW p \in Run!Processes, Run!Killed(p), Run!Tick
    PROVE  Run!Killed(p)' /\ pc' = pc
<1>1. /\ runtime' = {Run!Older(entry) : entry \in runtime} /\ view'[p] = {Run!Older(entry) : entry \in view[p]}
      /\ UNCHANGED <<strategy, pc, claimed>> /\ runtime \subseteq Run!Row /\ view[p] \subseteq Run!Row
  BY DEF Run!Tick, RunInvariant, RowsWell, Everyone
<1>2. Run!KillSwitchOn => Run!KillSwitchOn'
  BY <1>1, OlderWell DEF Run!KillSwitchOn
<1>3. (\A entry \in view[p] : entry.killSwitch) => \A entry \in view'[p] : entry.killSwitch
  BY <1>1, OlderWell
<1> QED BY <1>1, <1>2, <1>3 DEF Run!Killed, Run!Off

\* What a kill leaves when it is complete: whoever runs the strategy is held.
LEMMA KillKills ==
    ASSUME RunInvariant, strategy = "paused", Run!KillSwitchOn, NEW p \in Run!Processes, claimed[p], ~Run!Off(p),
           p \notin CommandLines
    PROVE  Run!Killed(p)
<1>1. CASE pc[p] = "mark"
  BY <1>1 DEF Run!Killed
<1>2. CASE pc[p] # "mark"
  <2>1. view[p] = {}
    <3>1. pc[p] \notin Holding
      BY <1>2 DEF RunInvariant, ClaimsOnce, Run!ProcessLabels, Holding
    <3> QED BY <3>1 DEF RunInvariant, RowsWell, Everyone
  <2> QED BY <2>1 DEF Run!Killed
<1> QED BY <1>1, <1>2

------------------------------------------------------------------------------
(* What holds of the shared row.                                              *)

LEMMA InitWell == Run!Init => RunInvariant
<1> SUFFICES ASSUME Run!Init PROVE RunInvariant
  OBVIOUS
<1>1. RowsWell
  BY DEF Run!Init, RowsWell, AtMostOne, Everyone, Holding
<1>2. RestWell
  BY DEF Run!Init, RestWell, Everyone, Run!ProcessLabels, Run!CommandLabels, Run!Statuses
<1>3. ClaimsOnce
  BY DEF Run!Init, ClaimsOnce, Run!ProcessLabels
<1> QED BY <1>1, <1>2, <1>3 DEF RunInvariant

LEMMA NextWell == ASSUME Run!TradingAssumption PROVE RunInvariant /\ [Run!Next]_(Run!vars) => RunInvariant'
<1>1. ASSUME RunInvariant, UNCHANGED Run!vars PROVE RunInvariant'
  BY <1>1 DEF Run!vars, RunInvariant, RowsWell, RestWell, ClaimsOnce, AtMostOne
<1>2. ASSUME RunInvariant, Run!Next PROVE RunInvariant'
  BY <1>2, ProcessKeeps, CommandKeeps, TickKeeps DEF Run!Next
<1> QED BY <1>1, <1>2

\* The rows, the copies of them and the labels are what the code can have, whatever
\* is interleaved, interrupted, abandoned or killed.
THEOREM RuntimeTypeCorrect == ASSUME Run!TradingAssumption PROVE Run!Spec => []Run!TypeOK
<1>1. RunInvariant => Run!TypeOK
  <2> SUFFICES ASSUME RunInvariant PROVE Run!TypeOK
    OBVIOUS
  <2>1. Run!Cardinality(runtime) <= 1
    <3>1. runtime = {} \/ \E entry \in runtime : runtime = {entry}
      BY DEF RunInvariant, RowsWell, AtMostOne
    <3>2. \A x : Cardinality({x}) = 1
      BY FS_Singleton
    <3>3. Cardinality(runtime) = 0 \/ Cardinality(runtime) = 1
      BY <3>1, <3>2, FS_EmptySet, Zenon
    <3>4. Run!Cardinality(runtime) = Cardinality(runtime)
      BY SizeOfRows
    <3> QED BY <3>3, <3>4
  <2>2. \A x \in Run!Processes \cup CommandLines : view[x] \subseteq Run!Row
        /\ (view[x] # {} <=> pc[x] \in {"mark", "killSave", "clearKill"})
    BY DEF RunInvariant, RowsWell, Everyone, Holding
  <2> QED BY <2>1, <2>2 DEF Run!TypeOK, RunInvariant, RowsWell, RestWell, Everyone
<1> QED BY <1>1, InitWell, NextWell, PTL DEF Run!Spec

\* A kill takes hold: when it has saved the switch and paused the strategy, every process
\* that runs the strategy is held, at whatever point of a cycle it is.
THEOREM KillTakesHold ==
    ASSUME Run!TradingAssumption
    PROVE  Run!Spec => [](strategy = "paused" /\ Run!KillSwitchOn =>
             \A p \in Run!Processes \ CommandLines : claimed[p] /\ ~Run!Off(p) => Run!Killed(p))
<1>1. RunInvariant => (strategy = "paused" /\ Run!KillSwitchOn =>
         \A p \in Run!Processes \ CommandLines : claimed[p] /\ ~Run!Off(p) => Run!Killed(p))
  BY KillKills
<1> QED BY <1>1, InitWell, NextWell, PTL DEF Run!Spec

\* A killed run stays killed until it ends, and places no order its bot wants, whatever
\* it writes back of what it read before the kill (SaveCycle, MarkRuntime), for as long
\* as no other process runs and no command is between two of its calls.
THEOREM KillAlwaysStands == ASSUME Run!TradingAssumption PROVE Run!Spec => Run!KillStands
<1>1. RunInvariant /\ [Run!Next]_(Run!vars) =>
        [\A p \in Run!Processes : Run!Killed(p) /\ Run!Alone(p) /\ Run!Quiet =>
           /\ Run!Killed(p)' \/ Run!Off(p)'
           /\ pc[p] = "check" /\ pc'[p] = "submit" => setup.mayWantNothing]_(Run!vars)
  <2> SUFFICES ASSUME RunInvariant, Run!Next, NEW p \in Run!Processes, Run!Killed(p), Run!Alone(p), Run!Quiet
               PROVE  /\ Run!Killed(p)' \/ Run!Off(p)'
                      /\ pc[p] = "check" /\ pc'[p] = "submit" => setup.mayWantNothing
    OBVIOUS
  <2>1. ASSUME NEW q \in Run!Processes, Run!ProcessStep(q) \/ Run!Launch(q) \/ Run!Interrupt(q) \/ Run!Crash(q)
        PROVE  /\ Run!Killed(p)' \/ Run!Off(p)'
               /\ pc[p] = "check" /\ pc'[p] = "submit" => setup.mayWantNothing
    <3>1. CASE q = p
      BY <2>1, <3>1, OwnStepKills
    <3>2. CASE q # p
      <4>1. Run!Off(q)
        BY <3>2 DEF Run!Alone
      <4> QED BY <2>1, <3>2, <4>1, OthersKill
    <3> QED BY <3>1, <3>2
  <2>2. CASE \E o \in CommandLines : Run!Command(o)
    BY <2>2, CommandsKill
  <2>3. CASE Run!Tick
    BY <2>3, TickKills
  <2> QED BY <2>1, <2>2, <2>3 DEF Run!Next
<1> QED BY <1>1, InitWell, NextWell, PTL DEF Run!Spec, Run!KillStands
==============================================================================

----------------------------- MODULE TcpClient -----------------------------
(***************************************************************************)
(* One client of pkg/nvme/nvmehost: the host API's Discover and            *)
(* Disconnect, tcpClient and its queue.  The goroutines are the caller     *)
(* ("main": Discover, later Stop), the ten-second timer of Discover, which *)
(* also calls Stop, pollAEN ("poll"), keepAlive ("ka"), recvPdu with the   *)
(* goroutine that waits for its end, and handleChannel of the host API.    *)
(* They share the queue: a counter for command ids, a table of outstanding *)
(* requests and two unbuffered channels on which recvPdu hands over the    *)
(* completed ones.  The controller and the network are external.           *)
(*                                                                         *)
(* The commands of Discover whose answers are not looked at (connect, the  *)
(* properties, the feature) are one command here, and so are those that    *)
(* read the log (module LogPage has them) and the two that Stop sends.     *)
(***************************************************************************)
EXTENDS Naturals, Sequences

CONSTANTS IdSpace,     \* how many command ids there are: 2^16 in the code
          MaxEvent,    \* bound of the model: events of the controller
          Cases,       \* the cases: a keep-alive timeout or not, and who may
                       \* call Stop
          MayFail      \* whether the connection may be lost

ASSUME TcpClientAssumption ==
    /\ IdSpace \in Nat /\ IdSpace > 1 /\ MaxEvent \in Nat
    /\ Cases \subseteq [kato : BOOLEAN, stop : SUBSET {"main", "timer"}]
    /\ MayFail \in BOOLEAN

Actor == {"main", "timer", "poll", "ka"}
Id == 0..(IdSpace - 1)
\* What a command is: the steps of Discover, what Stop sends, asynchronous
\* event requests (AERs) and keep-alives.
Op == {"connect", "identify", "log", "cc", "aer", "keepalive"}
Request == [by : Actor, op : Op]
NoRequest == [by |-> "nobody", op |-> "none"]

VARIABLES
    kato, mayStop,      \* whether the request has a keep-alive timeout; who
                        \* may call Stop
    conn,               \* the TCP connection
    tcpQ,               \* whether client.tcpQ is set
    ctx,                \* whether the client's context is cancelled
    aenClosed, doneCh,  \* whether aenCh and the queue's doneCh are closed
    nextId, out,        \* commandID and outstandingRequests
    pc, op, id,         \* each goroutine: where it is, its command and its id
    foreign,            \* those that took a completed request of another
    recv, hold, waiter, \* recvPdu, the request it hands over; who awaits it
    handler,            \* handleChannel
    srv, down,          \* requests at the controller, answers on their way
    event, events,      \* events to report, and all so far
    dead                \* the goroutine whose panic ended the process

given == <<kato, mayStop>>
shared == <<tcpQ, ctx, aenClosed, doneCh>>
queue == <<nextId, out>>
actors == <<pc, op, id, foreign>>
receiver == <<recv, hold, waiter>>
network == <<conn, srv, down, event, events>>
vars == <<given, shared, queue, actors, receiver, handler, network, dead>>

\* Every variable has its type.
TypeOK ==
    /\ mayStop \subseteq {"main", "timer"} /\ kato \in BOOLEAN
    /\ tcpQ \in BOOLEAN /\ ctx \in BOOLEAN /\ aenClosed \in BOOLEAN /\ doneCh \in BOOLEAN
    /\ conn \in {"none", "open", "lost", "closed"}
    /\ nextId \in Id /\ out \in [Id -> Request \cup {NoRequest}]
    /\ pc \in [Actor -> {"off", "armed", "dial", "next", "send", "wait", "table",
                         "return", "running", "fail", "failed", "hold", "tick",
                         "cancel", "destroy", "clear", "wg", "close", "closed", "done"}]
    /\ op \in [Actor -> Op] /\ id \in [Actor -> Id]
    /\ foreign \subseteq Actor
    /\ recv \in {"off", "loop", "read", "hand", "error", "done"}
    /\ hold \in Request \cup {NoRequest} /\ waiter \in {"off", "select", "done"}
    /\ handler \in {"off", "start", "loop", "select", "aen", "lost", "done"}
    /\ srv \subseteq [id : Id, op : Op] /\ down \in Seq(Id)
    /\ event \in 0..MaxEvent /\ events \in 0..MaxEvent
    /\ dead \in Actor \cup {"no", "handler"}

Init ==
    /\ \E c \in Cases : kato = c.kato /\ mayStop = c.stop
    /\ conn = "none" /\ tcpQ = FALSE /\ ctx = FALSE
    /\ aenClosed = FALSE /\ doneCh = FALSE
    /\ nextId = 1 /\ out = [i \in Id |-> NoRequest]
    /\ pc = [a \in Actor |-> IF a = "main" THEN "dial" ELSE "off"]
    /\ op = [a \in Actor |-> IF a = "poll" THEN "aer"
                             ELSE IF a = "ka" THEN "keepalive" ELSE "connect"]
    /\ id = [a \in Actor |-> 0] /\ foreign = {}
    /\ recv = "off" /\ hold = NoRequest /\ waiter = "off" /\ handler = "off"
    /\ srv = {} /\ down = <<>> /\ event = 0 /\ events = 0 /\ dead = "no"

Goto(a, l) == pc' = [pc EXCEPT ![a] = l]
Panic(a) == dead' = a /\ UNCHANGED <<given, shared, queue, actors, receiver, handler, network>>

----------------------------------------------------------------------------
(* Commands: nextCmdID, sendRequest, waitForResponse *)

Reading(a) == op[a] \in {"connect", "identify", "log"}

\* Mutant: keepAlive tries again.
OnErrorRetry(a) ==
    IF a = "poll" THEN "next" ELSE IF a = "ka" THEN "tick"
    ELSE IF Reading(a) THEN "fail" ELSE "cancel"

\* Where a goroutine goes when its command fails.
OnError(a) ==
    IF a = "poll" THEN "next"            \* pollAEN: continue
    ELSE IF a = "ka" THEN "close"
    ELSE IF Reading(a) THEN "fail"       \* Discover returns the error
    ELSE "cancel"                        \* Stop only logs it

\* Discover and pollAEN look up client.tcpQ for every command and die if it
\* is gone; Stop has looked it up before.  nextCmdID reads the counter.
LooksUp(a) == Reading(a) \/ a = "poll"

ReadsCounter(a) ==
    /\ pc[a] = "next"
    /\ \/ LooksUp(a) /\ ~tcpQ /\ Panic(a)
       \/ /\ LooksUp(a) => tcpQ
          /\ id' = [id EXCEPT ![a] = nextId] /\ Goto(a, "send")
          /\ UNCHANGED <<given, shared, queue, op, foreign, receiver, handler, network,
                         dead>>

\* What else can happen to what is sent: a lost connection swallows it or
\* reports an error, a closed one reports an error; two goroutines that write
\* to the buffered writer at a time spoil the stream.
Garbled(a) == \E b \in Actor \ {a} : pc[b] = "send"

Arrives(a) ==
    /\ conn = "open"
    /\ srv' = srv \cup {[id |-> id[a], op |-> op[a]]} /\ conn' = conn
    /\ out' = [out EXCEPT ![id[a]] = [by |-> a, op |-> op[a]]]
Vanishes(a) ==
    /\ conn = "lost" \/ (conn = "open" /\ Garbled(a) /\ MayFail)
    /\ conn' = "lost" /\ srv' = {} /\ UNCHANGED out

\* nextCmdID counts up from the id it read; keepAlive has the constant id 0.
Counter(a) == IF a = "ka" THEN nextId ELSE (id[a] + 1) % IdSpace

\* The request is entered into the table and sent.  The entry of a request that does not
\* arrive is left out: there will be no answer to it.
Sends(a) ==
    /\ pc[a] = "send"
    /\ nextId' = Counter(a)
    /\ id' = [id EXCEPT ![a] = 0]
    /\ \/ (Arrives(a) \/ Vanishes(a)) /\ Goto(a, "wait")
       \/ /\ conn \in {"lost", "closed"} /\ UNCHANGED <<conn, srv, out>>
          /\ Goto(a, OnError(a))
    /\ UNCHANGED <<given, shared, op, foreign, receiver, handler, down, event, events,
                   dead>>

\* Mutant: AERs time out, too.
TimesOutAll(a) ==
    /\ pc[a] = "wait" /\ (op[a] # "log" \/ ctx)
    /\ Goto(a, OnError(a))
    /\ UNCHANGED <<given, shared, queue, op, id, foreign, receiver, handler, network, dead>>

\* Mutant: the commands that read the log do not see the context.
TimesOutNoCtx(a) ==
    /\ pc[a] = "wait" /\ a # "poll" /\ op[a] # "log"
    /\ Goto(a, OnError(a))
    /\ UNCHANGED <<given, shared, queue, op, id, foreign, receiver, handler, network, dead>>

\* Five seconds pass without an answer; the commands that read the log and
\* the AERs wait on.  All of them return when the context is cancelled.
TimesOut(a) ==
    /\ pc[a] = "wait" /\ a # "poll"
    /\ op[a] # "log" \/ ctx
    /\ Goto(a, OnError(a))
    /\ UNCHANGED <<given, shared, queue, op, id, foreign, receiver, handler, network, dead>>

----------------------------------------------------------------------------
(* recvPdu *)

\* The loop looks at the context before every read.
ReceiverLoops ==
    /\ recv = "loop"
    /\ recv' = IF ctx THEN "done" ELSE "read"
    /\ UNCHANGED <<given, shared, queue, actors, hold, waiter, handler, network, dead>>

\* handleRecv and parseResponse: the next answer, of a request that is in the
\* table.  Others are dropped; one with an error status ends the receiver.
Receives ==
    /\ recv = "read" /\ down # <<>>
    /\ down' = Tail(down)
    /\ out' = [out EXCEPT ![Head(down)] = NoRequest]
    /\ hold' = out[Head(down)]
    /\ recv' \in IF hold' = NoRequest THEN {"loop", "error"} ELSE {"hand"}
    /\ UNCHANGED <<given, shared, nextId, actors, waiter, handler, conn, srv, event,
                   events, dead>>

\* Reading fails, on a connection that is open if what comes is no PDU.  The
\* error is taken by the goroutine that waits for it, or by nobody if that has
\* seen the context done.
ReadFails ==
    /\ recv = "read" /\ (conn \in {"lost", "closed"} \/ MayFail)
    /\ recv' = "error"
    /\ UNCHANGED <<given, shared, queue, actors, hold, waiter, handler, network, dead>>

WaiterEnds ==
    /\ waiter = "select" /\ (ctx \/ recv \in {"error", "done"})
    /\ waiter' = "done"
    /\ recv' \in IF recv = "error" THEN IF ctx THEN {"done", "error"} ELSE {"done"}
                 ELSE {recv}
    /\ UNCHANGED <<given, shared, queue, actors, hold, handler, network, dead>>

\* What a goroutine does with a completed request.
NextOp == [connect |-> "identify", identify |-> "log"]
Advances(a) ==
    \/ /\ op[a] \in DOMAIN NextOp
       /\ op' = [op EXCEPT ![a] = NextOp[op[a]]] /\ Goto(a, "next")
    \/ /\ op[a] \notin DOMAIN NextOp /\ UNCHANGED op
       /\ Goto(a, CASE op[a] = "log" -> "table" [] op[a] = "cc" -> "cancel"
                    [] op[a] = "keepalive" -> "tick" [] OTHER -> "hold")

\* Mutant: one channel for all.
SameChannel(a) == TRUE

\* Completed AERs have a channel of their own.
Channel(a) == (hold.op = "aer") = (a = "poll")

\* The completed request is taken by whoever waits at its channel.  The data
\* of a request that has none is an error to identify; reading the log dies.
NoData(r) == r.op \notin {"identify", "log"}

HandsOver(a) ==
    /\ recv = "hand" /\ pc[a] = "wait"
    /\ Channel(a)
    /\ \/ /\ op[a] = "log" /\ NoData(hold) /\ Panic(a)
       \/ /\ op[a] = "identify" /\ NoData(hold)
          /\ Goto(a, "fail") /\ UNCHANGED op
          /\ foreign' = foreign \cup IF hold.by = a THEN {} ELSE {a}
          /\ recv' = "loop" /\ hold' = NoRequest
          /\ UNCHANGED <<given, shared, queue, id, waiter, handler, network, dead>>
       \/ /\ ~(op[a] \in {"identify", "log"} /\ NoData(hold))
          /\ Advances(a)
          /\ foreign' = foreign \cup IF hold.by = a THEN {} ELSE {a}
          /\ recv' = "loop" /\ hold' = NoRequest
          /\ UNCHANGED <<given, shared, queue, id, waiter, handler, network, dead>>

----------------------------------------------------------------------------
(* pollAEN, keepAlive, handleChannel *)

\* Mutant: handleAEN does not look at the context.
PollStays == FALSE

\* handleAEN returns because the context is done.
PollEnds ==
    /\ pc["poll"] = "wait" /\ ctx
    /\ Goto("poll", "done")
    /\ UNCHANGED <<given, shared, queue, op, id, foreign, receiver, handler, network, dead>>

\* The event is sent on aenCh, which handleChannel receives from.
PollDelivers ==
    /\ pc["poll"] = "hold" /\ handler = "select"
    /\ Goto("poll", "next") /\ handler' = "aen"
    /\ UNCHANGED <<given, shared, queue, op, id, foreign, receiver, network, dead>>

\* The ticker fires.
KeepAliveTicks ==
    /\ pc["ka"] = "tick" /\ Goto("ka", "send")
    /\ UNCHANGED <<given, shared, queue, op, id, foreign, receiver, handler, network, dead>>

\* After an error keepAlive closes the connection ...
KeepAliveCloses ==
    /\ pc["ka"] = "close"
    /\ conn' = "closed" /\ srv' = {} /\ Goto("ka", "closed")
    /\ UNCHANGED <<given, shared, queue, op, id, foreign, receiver, handler, down, event,
                   events, dead>>

\* Mutant: the queue is taken away, too.
KeepAliveEndsQueue ==
    /\ pc["ka"] = "closed" \/ (pc["ka"] = "tick" /\ ctx)
    /\ Goto("ka", "done") /\ doneCh' = TRUE /\ tcpQ' = FALSE
    /\ UNCHANGED <<given, ctx, aenClosed, queue, op, id, foreign, receiver, handler,
                   network, dead>>

\* ... and whenever it ends, the queue's doneCh.
KeepAliveEnds ==
    /\ pc["ka"] = "closed" \/ (pc["ka"] = "tick" /\ ctx)
    /\ Goto("ka", "done") /\ doneCh' = TRUE
    /\ UNCHANGED <<given, tcpQ, ctx, aenClosed, queue, op, id, foreign, receiver, handler,
                   network, dead>>

\* handleChannel: first the table of clients, then in every round the queue's
\* doneCh is looked up.
HandlerStarts ==
    /\ handler = "start"
    /\ \/ pc["main"] = "running" /\ handler' = "loop" /\ UNCHANGED dead
       \/ pc["main"] # "running" /\ dead' = "handler" /\ UNCHANGED handler
    /\ UNCHANGED <<given, shared, queue, actors, receiver, network>>

HandlerLoops ==
    /\ handler = "loop"
    /\ \/ tcpQ /\ handler' = "select" /\ UNCHANGED dead
       \/ ~tcpQ /\ dead' = "handler" /\ UNCHANGED handler
    /\ UNCHANGED <<given, shared, queue, actors, receiver, network>>

HandlerSeesClosed ==
    /\ handler = "select"
    /\ \/ aenClosed /\ handler' = "done"
       \/ doneCh /\ handler' = "lost"
    /\ UNCHANGED <<given, shared, queue, actors, receiver, network, dead>>

\* Mutant: the handler ends with the first event.
HandlerReportsOnce ==
    /\ handler \in {"aen", "lost"} /\ handler' = "done"
    /\ UNCHANGED <<given, shared, queue, actors, receiver, network, dead>>

\* The service takes an event, or the report that the keep-alive died.
HandlerReports ==
    /\ handler \in {"aen", "lost"}
    /\ handler' = IF handler = "aen" THEN "loop" ELSE "done"
    /\ UNCHANGED <<given, shared, queue, actors, receiver, network, dead>>

----------------------------------------------------------------------------
(* Discover and Stop *)

Dials ==
    /\ pc["main"] = "dial"
    /\ \/ /\ MayFail /\ Goto("main", "fail")
          /\ UNCHANGED <<conn, tcpQ, recv, waiter>>
       \/ /\ conn' = "open" /\ tcpQ' = TRUE
          /\ pc' = [pc EXCEPT !["main"] = "next", !["timer"] = "armed"]
          /\ recv' = "loop" /\ waiter' = "select"
    /\ UNCHANGED <<given, ctx, aenClosed, doneCh, queue, op, id, foreign, hold, handler, srv,
                   down, event, events, dead>>

Disarmed == [pc EXCEPT !["timer"] = IF pc["timer"] = "armed" THEN "off" ELSE @]

\* Discover returns an error, and so does the host API.
Fails ==
    /\ pc["main"] = "fail"
    /\ pc' = [Disarmed EXCEPT !["main"] = "failed"]
    /\ UNCHANGED <<given, shared, queue, op, id, foreign, receiver, handler, network, dead>>

\* The goroutines are started, with the queue looked up.
Spawns ==
    /\ pc["main"] = "table"
    /\ \/ kato /\ ~tcpQ /\ Panic("ka")
       \/ /\ kato => tcpQ
          /\ pc' = [pc EXCEPT !["main"] = "return",
                              !["poll"] = IF kato THEN "next" ELSE @,
                              !["ka"] = IF kato THEN "tick" ELSE @]
          /\ UNCHANGED <<given, shared, queue, op, id, foreign, receiver, handler, network,
                         dead>>

\* Stop begins with its command if there is a queue.
StopFrom(a, f) ==
    IF tcpQ THEN /\ pc' = [f EXCEPT ![a] = "next"]
                 /\ op' = [op EXCEPT ![a] = "cc"]
    ELSE pc' = [f EXCEPT ![a] = "cancel"] /\ UNCHANGED op

\* Discover returns; the host API enters the client into its table and starts
\* the handler, or stops the client at once if there is no keep-alive timeout.
Returns ==
    /\ pc["main"] = "return"
    /\ IF kato THEN /\ pc' = [Disarmed EXCEPT !["main"] = "running"]
                    /\ handler' = "start" /\ UNCHANGED op
       ELSE StopFrom("main", Disarmed) /\ UNCHANGED handler
    /\ UNCHANGED <<given, shared, queue, id, foreign, receiver, network, dead>>

\* Disconnect, and the timer of Discover.
Disconnects ==
    /\ "main" \in mayStop /\ pc["main"] = "running"
    /\ StopFrom("main", pc)
    /\ UNCHANGED <<given, shared, queue, id, foreign, receiver, handler, network, dead>>

TimerFires ==
    /\ "timer" \in mayStop /\ pc["timer"] = "armed"
    /\ StopFrom("timer", pc)
    /\ UNCHANGED <<given, shared, queue, id, foreign, receiver, handler, network, dead>>

StopCancels(a) ==
    /\ pc[a] = "cancel"
    /\ ctx' = TRUE /\ Goto(a, "destroy")
    /\ UNCHANGED <<given, tcpQ, aenClosed, doneCh, queue, op, id, foreign, receiver, handler,
                   network, dead>>

StopDestroys(a) ==
    /\ pc[a] = "destroy"
    /\ tcpQ' = FALSE /\ conn' = "closed" /\ srv' = {} /\ Goto(a, "clear")
    /\ UNCHANGED <<given, ctx, aenClosed, doneCh, queue, op, id, foreign, receiver, handler,
                   down, event, events, dead>>

\* ClearChannels takes what is being sent on aenCh at this moment.  It never
\* gets to the end of a channel that another Stop has closed.
StopClears(a) ==
    /\ pc[a] = "clear" /\ ~aenClosed
    /\ IF pc["poll"] = "hold" THEN Goto("poll", "next") ELSE Goto(a, "wg")
    /\ UNCHANGED <<given, shared, queue, op, id, foreign, receiver, handler, network, dead>>

\* Mutant: pollAEN is not in the wait group.
StopClosesEarly(a) ==
    /\ pc[a] = "wg" /\ waiter \in {"off", "done"} /\ ~aenClosed
    /\ aenClosed' = TRUE /\ Goto(a, "done")
    /\ UNCHANGED <<given, tcpQ, ctx, doneCh, queue, op, id, foreign, receiver, handler,
                   network, dead>>

\* It waits for pollAEN and for the goroutine that waits for recvPdu, and
\* closes aenCh.  Closing a closed channel ends the process.
StopCloses(a) ==
    /\ pc[a] = "wg" /\ waiter \in {"off", "done"} /\ pc["poll"] \in {"off", "done"}
    /\ \/ aenClosed /\ Panic(a)
       \/ /\ ~aenClosed /\ aenClosed' = TRUE /\ Goto(a, "done")
          /\ UNCHANGED <<given, tcpQ, ctx, doneCh, queue, op, id, foreign, receiver, handler,
                         network, dead>>

Stops(a) == StopCancels(a) \/ StopDestroys(a) \/ StopClears(a) \/ StopCloses(a)

----------------------------------------------------------------------------
(* The controller and the network *)

Answers ==
    /\ conn = "open"
    /\ \E r \in srv :
        /\ r.op = "aer" => event > 0
        /\ event' = IF r.op = "aer" THEN event - 1 ELSE event
        /\ srv' = srv \ {r} /\ down' = Append(down, r.id)
    /\ UNCHANGED <<given, shared, queue, actors, receiver, handler, conn, events, dead>>

\* Without a keep-alive timeout nobody asks for events.
Event ==
    /\ kato /\ events < MaxEvent
    /\ events' = events + 1 /\ event' = event + 1
    /\ UNCHANGED <<given, shared, queue, actors, receiver, handler, conn, srv, down, dead>>

Breaks ==
    /\ MayFail /\ conn = "open"
    /\ conn' = "lost" /\ srv' = {}
    /\ UNCHANGED <<given, shared, queue, actors, receiver, handler, down, event, events,
                   dead>>

Commands(a) == ReadsCounter(a) \/ Sends(a) \/ TimesOut(a) \/ HandsOver(a)
Receiver == ReceiverLoops \/ Receives \/ ReadFails \/ WaiterEnds
Poll == PollEnds \/ PollDelivers
KeepAlive == KeepAliveTicks \/ KeepAliveCloses \/ KeepAliveEnds
Handler == HandlerStarts \/ HandlerLoops \/ HandlerSeesClosed \/ HandlerReports
Main == Dials \/ Fails \/ Spawns \/ Returns

Next ==
    /\ dead = "no"
    /\ \/ \E a \in Actor : Commands(a)
       \/ \E a \in {"main", "timer"} : Stops(a)
       \/ Receiver \/ Poll \/ KeepAlive \/ Handler \/ Main
       \/ Disconnects \/ TimerFires
       \/ Answers \/ Event \/ Breaks

Spec == Init /\ [][Next]_vars

\* The goroutines are scheduled and the timer fires; nothing is assumed of
\* the controller.
FairSpec ==
    /\ Spec
    /\ \A a \in Actor : WF_vars(dead = "no" /\ Commands(a))
    /\ \A a \in {"main", "timer"} : WF_vars(dead = "no" /\ Stops(a))
    /\ WF_vars(dead = "no" /\ Receiver) /\ WF_vars(dead = "no" /\ Poll)
    /\ WF_vars(dead = "no" /\ KeepAlive) /\ WF_vars(dead = "no" /\ Handler)
    /\ WF_vars(dead = "no" /\ Main) /\ WF_vars(dead = "no" /\ TimerFires)

----------------------------------------------------------------------------
(* Properties *)

\* Without Stop every request at the controller is the one that the table has
\* under its id, every answer on its way finds a request there, and whatever
\* recvPdu hands over is taken by the goroutine that sent it, although all of
\* them receive from the same channels and ids are handed out without a lock.
RepliesReachSender ==
    mayStop = {} =>
        /\ \A r \in srv : out[r.id].op = r.op
        /\ \A k \in 1..Len(down) : out[down[k]] # NoRequest
        /\ foreign = {}

\* recvPdu never waits for somebody to take an event: pollAEN is there when
\* an event arrives, also while earlier ones have not reached the service, so
\* events never keep the answers to keep-alives from being read.
EventIsAwaited ==
    mayStop = {} /\ recv = "hand" /\ hold.op = "aer" /\ conn = "open" => pc["poll"] = "wait"

\* Without Stop no goroutine uses a queue that is gone, closes a channel
\* twice or looks for data an answer does not have.
SessionSurvives == mayStop = {} => dead = "no"

\* aenCh is closed only when pollAEN can no longer send on it, however the
\* Stop of the timer and the Stop of the caller overlap.
NoSendOnClosed == aenClosed => pc["poll"] # "hold"

\* The loss of the connection of a session is reported to the service by
\* handleChannel, whatever the other goroutines are doing; so is the end of the
\* receiver, which leaves a connection that is open and never read.
LossReported ==
    mayStop = {} /\ handler # "off" /\ (conn \in {"lost", "closed"} \/ recv = "done")
        ~> handler = "done"

\* An event that has been received is passed on to the service, unless the
\* connection is lost meanwhile.
EventReported ==
    mayStop = {} /\ recv = "hand" /\ hold.op = "aer" ~> handler = "aen" \/ conn # "open"

\* ClearChannels is at a channel that is closed: it takes from it for ever.
Spins(a) == pc[a] = "clear" /\ aenClosed

\* Discover returns: the timer stops the client if the controller does not
\* answer the commands that wait without a timeout.  The exception is a timer
\* that fires when Discover has all it wanted: its Stop may close aenCh before
\* the Stop of the host API clears it, and the host API spins.
DiscoverEnds ==
    "timer" \in mayStop =>
        <>(pc["main"] \in {"failed", "running", "done"} \/ dead # "no" \/ Spins("main"))

\* pollAEN sends an event that nobody will take: ClearChannels has looked
\* already, and handleChannel has seen doneCh closed and ended.
Blocked(a) == pc[a] = "wg" /\ pc["poll"] = "hold" /\ handler = "done"

\* Some goroutine of the client can go on.
Works ==
    \/ \E a \in Actor : Commands(a)
    \/ \E a \in {"main", "timer"} : Stops(a)
    \/ Receiver \/ Poll \/ KeepAlive \/ Handler \/ Main

\* Whatever the goroutines of the client are doing, a Stop has returned when all
\* of them have come to rest, unless it spins or pollAEN is blocked.
StopReturns ==
    \A a \in {"main", "timer"} :
        pc[a] \in {"clear", "wg"} /\ dead = "no" =>
            ENABLED Works \/ Spins(a) \/ Blocked(a)

\* What the comment on the host API's Discover says: a client whose Discover
\* failed is killed.
FailedIsKilled == pc["main"] = "failed" => conn # "open"

\* What the comment in pollAEN says: when the context is done the loop ends.
PollLoopEnds == ctx ~> pc["poll"] \in {"off", "done"} \/ dead # "no"

\* What the comment in Stop says: cancel closes the subroutines, so that none
\* of them uses the queue that is taken away next.
SubroutinesClosed == dead # "poll"

\* What the comment on sendKeepAlive says: no other command ever has id 0.
KeepAliveIdIsFree == conn = "open" => out[0].by \in {"nobody", "ka"}

\* What handleChannel asserts: its client is in the table when it starts.
HandlerFindsClient == ~(dead = "handler" /\ handler = "start")
============================================================================

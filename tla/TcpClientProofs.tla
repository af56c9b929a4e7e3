-------------------------- MODULE TcpClientProofs --------------------------
(***************************************************************************)
(* What holds of a client for every number of command ids and events.      *)
(* Whoever calls Stop: nothing is sent on aenCh once it is closed.  In a   *)
(* session that nobody stops: every answer reaches the goroutine that      *)
(* asked for it, every event finds pollAEN waiting, no goroutine panics,   *)
(* and as long as the ids do not wrap around none of them is used for two  *)
(* requests.                                                               *)
(***************************************************************************)
EXTENDS TcpClient, TLAPS

Stopper == {"main", "timer"}

\* Before the connection is made nothing runs.
Fresh ==
    pc["main"] = "dial" =>
        /\ pc["timer"] = "off" /\ pc["poll"] = "off" /\ pc["ka"] = "off"
        /\ handler = "off" /\ ~doneCh /\ ~aenClosed

\* Who waits for the goroutines has taken the queue away, so that no pollAEN
\* is started any more.
Closed ==
    /\ aenClosed => ~tcpQ /\ pc["poll"] \in {"off", "done"}
    /\ \A a \in Stopper : pc[a] \in {"clear", "wg"} => ~tcpQ

Places == {"off", "armed", "dial", "next", "send", "wait", "table", "return",
           "running", "fail", "failed", "hold", "tick", "cancel", "destroy",
           "clear", "wg", "close", "closed", "done"}
PcType == pc \in [Actor -> Places]

IInv == PcType /\ Fresh /\ Closed

\* The initial states satisfy it.
LEMMA InitIInv == Init => IInv
  BY DEF Init, IInv, PcType, Fresh, Closed, Actor, Places, Stopper

\* A command that fails leads to one of four places, by goroutine.
LEMMA Errors ==
  ASSUME NEW a \in Actor
  PROVE  /\ OnError(a) \in {"next", "close", "fail", "cancel"}
         /\ a = "poll" => OnError(a) = "next"
  BY Zenon DEF OnError, Actor

\* A goroutine that was waiting or sending goes on to a place that is neither
\* the first nor one of the last: nothing else changes that matters.
Moves(a, l) ==
    /\ l \in Places \ {"dial", "clear", "wg"}
    /\ pc[a] \in {"next", "send", "wait", "hold", "tick"}
    /\ pc' = [pc EXCEPT ![a] = l]
    /\ UNCHANGED <<shared, handler>>
    /\ conn = "closed" => conn' = "closed"

\* A goroutine that moves to a place outside of Stop keeps the invariant.
LEMMA Moving ==
  ASSUME IInv, NEW a \in Actor, NEW l, Moves(a, l)
  PROVE  IInv'
  <1> USE DEF IInv, PcType, Moves, shared
  <1>1. pc'[a] = l /\ \A b \in Actor \ {a} : pc'[b] = pc[b]
    OBVIOUS
  <1>2. PcType'
    BY Zenon DEF Places
  <1>3. Fresh'
    BY Zenon, <1>1 DEF Fresh, Actor
  <1>5. Closed'
    BY Zenon, <1>1 DEF Closed, Actor, Stopper
  <1> QED
    BY Zenon, <1>2, <1>3, <1>5

\* Nothing that matters changes.
LEMMA Resting ==
  ASSUME IInv, UNCHANGED <<shared, pc, handler>>, conn = "closed" => conn' = "closed"
  PROVE  IInv'
  BY Zenon DEF IInv, PcType, Fresh, Closed, shared

\* The steps of a command.
LEMMA CommandsStep ==
  ASSUME IInv, NEW a \in Actor, Commands(a)
  PROVE  IInv'
  <1>1. CASE ReadsCounter(a)
    <2>1. CASE Panic(a)
      BY Zenon, <2>1, Resting DEF Panic, actors, network
    <2>2. CASE Goto(a, "send") /\ UNCHANGED <<given, shared, queue, op, foreign,
                                   receiver, handler, network, dead>>
      <3>1. Moves(a, "send")
        BY Zenon, <1>1, <2>2 DEF Moves, ReadsCounter, Goto, Places, network
      <3> QED
        BY Zenon, <3>1, Moving
    <2> QED
      BY Zenon, <1>1, <2>1, <2>2 DEF ReadsCounter
  <1>2. CASE Sends(a)
    <2>1. PICK l \in {"wait", OnError(a)} : Goto(a, l)
      BY Zenon, <1>2 DEF Sends
    <2>2. conn = "closed" => conn' = "closed"
      BY Zenon, <1>2 DEF Sends, Arrives, Vanishes
    <2>3. Moves(a, l)
      BY Zenon, <1>2, <2>1, <2>2, Errors DEF Moves, Sends, Goto, Places
    <2> QED
      BY Zenon, <2>3, Moving
  <1>3. CASE TimesOut(a)
    <2>1. Moves(a, OnError(a))
      BY Zenon, <1>3, Errors DEF Moves, TimesOut, Goto, Places, network
    <2> QED
      BY Zenon, <2>1, Moving
  <1>4. CASE HandsOver(a)
    <2>1. CASE Panic(a)
      BY Zenon, <2>1, Resting DEF Panic, actors, network
    <2>2. CASE Goto(a, "fail") /\ UNCHANGED <<given, shared, queue, id, waiter, handler,
                                              network, dead>>
      <3>1. Moves(a, "fail")
        BY Zenon, <1>4, <2>2 DEF Moves, HandsOver, Goto, Places, network
      <3> QED
        BY Zenon, <3>1, Moving
    <2>3. CASE Advances(a) /\ UNCHANGED <<given, shared, queue, id, waiter, handler,
                                          network, dead>>
      <3>1. PICK l \in {"next", "table", "cancel", "tick", "hold"} : Goto(a, l)
        BY Zenon, <2>3 DEF Advances
      <3>2. Moves(a, l)
        BY Zenon, <1>4, <2>3, <3>1 DEF Moves, HandsOver, Goto, Places, network
      <3> QED
        BY Zenon, <3>2, Moving
    <2> QED
      BY Zenon, <1>4, <2>1, <2>2, <2>3 DEF HandsOver
  <1> QED
    BY Zenon, <1>1, <1>2, <1>3, <1>4 DEF Commands

\* recvPdu and the goroutine that waits for it leave the channels alone.
LEMMA ReceiverStep ==
  ASSUME IInv, Receiver
  PROVE  IInv'
  BY Zenon, Resting DEF Receiver, ReceiverLoops, Receives, ReadFails, WaiterEnds, actors, network

\* pollAEN and keepAlive.
LEMMA PollStep ==
  ASSUME IInv, Poll
  PROVE  IInv'
  <1>1. CASE PollEnds
    <2>1. Moves("poll", "done")
      BY Zenon, <1>1 DEF PollEnds, Moves, Goto, Places, network
    <2> QED
      BY Zenon, <2>1, Moving DEF Actor
  <1>2. CASE PollDelivers
    BY Zenon, <1>2 DEF PollDelivers, Goto, IInv, PcType, Fresh, Closed, shared, network,
                Actor, Stopper, Places
  <1> QED
    BY Zenon, <1>1, <1>2 DEF Poll

\* keepAlive closes the connection and doneCh.
LEMMA KeepAliveStep ==
  ASSUME IInv, KeepAlive
  PROVE  IInv'
  <1>1. CASE KeepAliveTicks
    <2>1. Moves("ka", "send")
      BY Zenon, <1>1 DEF KeepAliveTicks, Moves, Goto, Places, network
    <2> QED
      BY Zenon, <2>1, Moving DEF Actor
  <1>2. CASE KeepAliveCloses
    <2>1. PcType' /\ pc'["ka"] = "closed" /\ \A a \in Actor \ {"ka"} : pc'[a] = pc[a]
      BY Zenon, <1>2 DEF KeepAliveCloses, Goto, IInv, PcType, Actor, Places
    <2>2. Fresh'
      BY Zenon, <1>2, <2>1 DEF KeepAliveCloses, IInv, Fresh, Actor, shared
    <2>3. Closed'
      BY Zenon, <1>2, <2>1 DEF KeepAliveCloses, IInv, Closed, Actor, Stopper, shared
    <2> QED
      BY Zenon, <2>1, <2>2, <2>3 DEF IInv
  <1>3. CASE KeepAliveEnds
    <2>1. PcType' /\ pc'["ka"] = "done" /\ \A a \in Actor \ {"ka"} : pc'[a] = pc[a]
      BY Zenon, <1>3 DEF KeepAliveEnds, Goto, IInv, PcType, Actor, Places
    <2>2. Fresh'
      BY Zenon, <1>3, <2>1 DEF KeepAliveEnds, IInv, Fresh, Actor
    <2>3. Closed'
      BY Zenon, <1>3, <2>1 DEF KeepAliveEnds, IInv, Closed, Actor, Stopper
    <2> QED
      BY Zenon, <2>1, <2>2, <2>3 DEF IInv
  <1> QED
    BY Zenon, <1>1, <1>2, <1>3 DEF KeepAlive

\* handleChannel sees a closed doneCh only if it is closed.
LEMMA HandlerStep ==
  ASSUME IInv, Handler
  PROVE  IInv'
  BY DEF Handler, HandlerStarts, HandlerLoops, HandlerSeesClosed, HandlerReports, IInv,
         PcType, Fresh, Closed, shared, actors, network

\* Discover.
LEMMA MainStep ==
  ASSUME IInv, Main
  PROVE  IInv'
  <1> USE DEF PcType, Places, Actor
  <1>1. CASE Dials
    <2>1. pc["main"] = "dial" /\ pc'["main"] \in {"fail", "next"}
          /\ pc'["timer"] \in {"off", "armed"} /\ pc'["poll"] = pc["poll"]
          /\ PcType'
      BY ZenonT(30), <1>1 DEF Dials, Goto, IInv, Fresh
    <2>2. ~doneCh' /\ ~aenClosed' /\ handler' = "off"
      BY Zenon, <1>1, <2>1 DEF Dials, IInv, Fresh
    <2> QED
      <3>1. Fresh'
        BY Zenon, <2>1, <2>2 DEF IInv, Fresh
      <3>3. Closed'
        BY Zenon, <2>1, <2>2 DEF IInv, Closed, Stopper
      <3> QED
        BY Zenon, <2>1, <2>2, <3>1, <3>3 DEF IInv
  <1>2. CASE Fails
    <2>1. pc["main"] = "fail" /\ pc'["main"] = "failed" /\ PcType'
          /\ pc'["timer"] \in {pc["timer"], "off"} /\ pc'["poll"] = pc["poll"]
      BY Zenon, <1>2 DEF Fails, Disarmed, IInv
    <2> QED
      <3>1. Fresh'
        BY Zenon, <1>2, <2>1 DEF Fails, IInv, shared, network, Fresh
      <3>3. Closed'
        BY Zenon, <1>2, <2>1 DEF Fails, IInv, shared, network, Closed, Stopper
      <3> QED
        BY Zenon, <1>2, <2>1, <3>1, <3>3 DEF IInv
  <1>3. CASE Spawns
    <2>1. CASE Panic("ka")
      BY Zenon, <2>1, Resting DEF Panic, actors, network
    <2>2. CASE ~Panic("ka")
      <3>1. pc["main"] = "table" /\ pc'["main"] = "return" /\ PcType'
            /\ pc'["timer"] = pc["timer"]
            /\ (pc'["poll"] = pc["poll"] \/ tcpQ)
        BY <1>3, <2>2 DEF Spawns, IInv
      <3>2. UNCHANGED <<shared, handler, network>>
        BY Zenon, <1>3, <2>2 DEF Spawns
      <3> QED
        <4>1. Fresh'
          BY Zenon, <3>1, <3>2 DEF IInv, shared, network, Fresh
        <4>3. Closed'
          BY Zenon, <3>1, <3>2 DEF IInv, shared, network, Closed, Stopper
        <4> QED
          BY Zenon, <3>1, <3>2, <4>1, <4>3 DEF IInv
    <2> QED
      BY Zenon, <2>1, <2>2
  <1>4. CASE Returns
    <2>1. pc["main"] = "return" /\ pc'["main"] \in {"running", "next", "cancel"}
          /\ pc'["timer"] \in {pc["timer"], "off"} /\ pc'["poll"] = pc["poll"]
          /\ PcType'
      BY <1>4 DEF Returns, Disarmed, StopFrom, IInv
    <2>2. handler' \in {handler, "start"} /\ UNCHANGED <<shared, network>>
      BY Zenon, <1>4 DEF Returns
    <2> QED
      <3>1. Fresh'
        BY Zenon, <2>1, <2>2 DEF IInv, shared, network, Fresh
      <3>3. Closed'
        BY Zenon, <2>1, <2>2 DEF IInv, shared, network, Closed, Stopper
      <3> QED
        BY Zenon, <2>1, <2>2, <3>1, <3>3 DEF IInv
  <1> QED
    BY Zenon, <1>1, <1>2, <1>3, <1>4 DEF Main

\* The calls of Stop ...
LEMMA CallStep ==
  ASSUME IInv, Disconnects \/ TimerFires
  PROVE  IInv'
  <1>1. PICK a \in Stopper : /\ pc[a] \in {"running", "armed"}
                             /\ StopFrom(a, pc)
                             /\ UNCHANGED <<shared, handler, network>>
    BY Zenon DEF Disconnects, TimerFires, Stopper
  <1>2. /\ PcType' /\ pc'[a] \in {"next", "cancel"}
        /\ \A b \in Actor \ {a} : pc'[b] = pc[b]
    BY <1>1 DEF StopFrom, IInv, PcType, Places, Actor, Stopper
  <1> QED
    <2>1. Fresh'
      BY Zenon, <1>1, <1>2 DEF IInv, Actor, shared, network, Fresh
    <2>3. Closed'
      BY Zenon, <1>1, <1>2 DEF IInv, Actor, shared, network, Closed, Stopper
    <2> QED
      BY Zenon, <1>1, <1>2, <2>1, <2>3 DEF IInv

\* ... and its steps.
LEMMA StopsStep ==
  ASSUME IInv, NEW a \in Stopper, Stops(a)
  PROVE  IInv'
  <1> USE DEF PcType, Places, Actor, Stopper
  <1>1. CASE StopCancels(a)
    <2>1. PcType' /\ pc'[a] = "destroy" /\ \A b \in Actor \ {a} : pc'[b] = pc[b]
      BY Zenon, <1>1 DEF StopCancels, Goto, IInv
    <2> QED
      <3>1. Fresh'
        BY Zenon, <1>1, <2>1 DEF StopCancels, IInv, network, Fresh
      <3>3. Closed'
        <4>1. UNCHANGED <<tcpQ, aenClosed>> /\ pc[a] = "cancel"
          BY Zenon, <1>1 DEF StopCancels
        <4> QED
          BY ZenonT(30), <2>1, <4>1 DEF IInv, Closed
      <3> QED
        BY Zenon, <1>1, <2>1, <3>1, <3>3 DEF IInv
  <1>2. CASE StopDestroys(a)
    <2>1. PcType' /\ pc'[a] = "clear" /\ \A b \in Actor \ {a} : pc'[b] = pc[b]
      BY Zenon, <1>2 DEF StopDestroys, Goto, IInv
    <2> QED
      <3>1. Fresh'
        BY Zenon, <1>2, <2>1 DEF StopDestroys, IInv, Fresh
      <3>3. Closed'
        <4>1. tcpQ' = FALSE /\ aenClosed' = aenClosed /\ pc[a] = "destroy"
          BY Zenon, <1>2 DEF StopDestroys
        <4> QED
          BY Zenon, <2>1, <4>1 DEF IInv, Closed
      <3> QED
        BY Zenon, <1>2, <2>1, <3>1, <3>3 DEF IInv
  <1>3. CASE StopClears(a)
    <2>1. CASE pc["poll"] = "hold"
      <3>1. PcType' /\ pc'["poll"] = "next" /\ \A b \in Actor \ {"poll"} : pc'[b] = pc[b]
        BY ZenonT(30), <1>3, <2>1 DEF StopClears, Goto, IInv
      <3> QED
        <4>1. Fresh'
          BY Zenon, <1>3, <2>1, <3>1 DEF StopClears, IInv, shared, network, Fresh
        <4>3. Closed'
          BY Zenon, <1>3, <2>1, <3>1 DEF StopClears, IInv, shared, network, Closed
        <4> QED
          BY Zenon, <1>3, <2>1, <3>1, <4>1, <4>3 DEF IInv
    <2>2. CASE pc["poll"] # "hold"
      <3>1. PcType' /\ pc[a] = "clear" /\ pc'[a] = "wg"
            /\ \A b \in Actor \ {a} : pc'[b] = pc[b]
        BY Zenon, <1>3, <2>2 DEF StopClears, Goto, IInv
      <3> QED
        <4>1. Fresh'
          BY Zenon, <1>3, <3>1 DEF StopClears, IInv, shared, network, Fresh
        <4>3. Closed'
          BY Zenon, <1>3, <3>1 DEF StopClears, IInv, shared, network, Closed
        <4> QED
          BY Zenon, <1>3, <3>1, <4>1, <4>3 DEF IInv
    <2> QED
      BY Zenon, <2>1, <2>2
  <1>4. CASE StopCloses(a)
    <2>1. CASE Panic(a)
      BY Zenon, <2>1, Resting DEF Panic, actors, network
    <2>2. CASE ~Panic(a)
      <3>1. /\ pc[a] = "wg" /\ pc["poll"] \in {"off", "done"}
            /\ Goto(a, "done") /\ UNCHANGED <<tcpQ, ctx, doneCh, handler, network>>
        BY Zenon, <1>4, <2>2 DEF StopCloses
      <3>2. PcType' /\ pc'[a] = "done" /\ \A b \in Actor \ {a} : pc'[b] = pc[b]
        BY Zenon, <3>1 DEF Goto, IInv
      <3> QED
        <4>1. Fresh'
          BY Zenon, <3>1, <3>2 DEF IInv, network, Fresh
        <4>3. Closed'
          BY Zenon, <3>1, <3>2 DEF IInv, network, Closed
        <4> QED
          BY Zenon, <3>1, <3>2, <4>1, <4>3 DEF IInv
    <2> QED
      BY Zenon, <2>1, <2>2
  <1> QED
    BY Zenon, <1>1, <1>2, <1>3, <1>4 DEF Stops

\* Every step keeps the invariant.
LEMMA NextIInv ==
  ASSUME IInv, [Next]_vars
  PROVE  IInv'
  <1>1. CASE Answers \/ Event \/ Breaks
    BY Zenon, <1>1, Resting DEF Answers, Event, Breaks, actors
  <1>2. CASE UNCHANGED vars
    BY Zenon, <1>2, Resting DEF vars, actors, network
  <1> QED
    BY Zenon, <1>1, <1>2, CommandsStep, ReceiverStep, PollStep, KeepAliveStep, HandlerStep,
       MainStep, CallStep, StopsStep DEF Next, Stopper

\* The invariant holds throughout.
THEOREM Invariance == Spec => []IInv
  BY InitIInv, NextIInv, PTL DEF Spec

\* pollAEN never sends on the closed aenCh, whoever calls Stop and when.
THEOREM NeverSendsOnClosed == Spec => []NoSendOnClosed
  <1>1. IInv => NoSendOnClosed
    BY Zenon DEF IInv, Closed, NoSendOnClosed
  <1> QED
    BY <1>1, Invariance, PTL

----------------------------------------------------------------------------
(* Types *)

\* Command ids, and what the table, the receiver and the network hold of them.
QueueType ==
    /\ nextId \in Id /\ id \in [Actor -> Id] /\ op \in [Actor -> Op]
    /\ out \in [Id -> Request \cup {NoRequest}]
    /\ hold \in Request \cup {NoRequest}
    /\ srv \subseteq [id : Id, op : Op] /\ down \in Seq(Id)

\* The flags, and who may call Stop.
FlagType ==
    /\ mayStop \subseteq {"main", "timer"} /\ kato \in BOOLEAN
    /\ tcpQ \in BOOLEAN /\ ctx \in BOOLEAN /\ aenClosed \in BOOLEAN /\ doneCh \in BOOLEAN

\* The places of the other goroutines, the connection and the events.
PlaceType ==
    /\ conn \in {"none", "open", "lost", "closed"}
    /\ foreign \subseteq Actor
    /\ recv \in {"off", "loop", "read", "hand", "error", "done"}
    /\ waiter \in {"off", "select", "done"}
    /\ handler \in {"off", "start", "loop", "select", "aen", "lost", "done"}
    /\ event \in 0..events /\ events \in 0..MaxEvent
    /\ dead \in Actor \cup {"no", "handler"}

\* The counter wraps around within the ids.
LEMMA CounterTyped ==
  ASSUME QueueType, NEW a \in Actor
  PROVE  Counter(a) \in Id
  BY TcpClientAssumption DEF QueueType, Counter, Id

\* The initial states have their types.
LEMMA InitTyped == Init => QueueType /\ FlagType /\ PlaceType
  <1> SUFFICES ASSUME Init PROVE QueueType /\ FlagType /\ PlaceType
    OBVIOUS
  <1>1. QueueType
    BY TcpClientAssumption DEF Init, QueueType, Id, Actor, Op
  <1>2. PICK c \in Cases : kato = c.kato /\ mayStop = c.stop
    BY Zenon DEF Init
  <1>3. c \in [kato : BOOLEAN, stop : SUBSET {"main", "timer"}]
    BY Zenon, TcpClientAssumption
  <1>4. kato \in BOOLEAN /\ mayStop \subseteq {"main", "timer"}
    BY Zenon, <1>2, <1>3
  <1>5. FlagType
    BY Zenon, <1>4 DEF Init, FlagType
  <1>6. PlaceType
    BY TcpClientAssumption DEF Init, PlaceType
  <1> QED
    BY Zenon, <1>1, <1>5, <1>6

\* Most steps touch neither the queue nor the flags.
LEMMA SameQueue ==
  ASSUME QueueType, UNCHANGED <<nextId, id, op, out, hold, srv, down>>
  PROVE  QueueType'
  BY Zenon DEF QueueType

\* Then the flags keep their types.
LEMMA SameFlags ==
  ASSUME FlagType, UNCHANGED <<given, shared>>
  PROVE  FlagType'
  BY Zenon DEF FlagType, given, shared

\* Every step keeps the types of the flags: they are only ever set.
LEMMA FlagStep ==
  ASSUME FlagType, [Next]_vars
  PROVE  FlagType'
  <1> USE DEF given, shared
  <1>1. CASE \E a \in Actor : Commands(a)
    BY Zenon, <1>1, SameFlags DEF Commands, ReadsCounter, Sends, TimesOut, HandsOver, Panic
  <1>2. CASE \E a \in {"main", "timer"} : Stops(a)
    BY Zenon, <1>2 DEF FlagType, Stops, StopCancels, StopDestroys, StopClears, StopCloses, Panic
  <1>3. CASE Receiver
    BY Zenon, <1>3, SameFlags DEF Receiver, ReceiverLoops, Receives, ReadFails, WaiterEnds
  <1>4. CASE Poll
    BY Zenon, <1>4, SameFlags DEF Poll, PollEnds, PollDelivers
  <1>5. CASE KeepAlive
    BY Zenon, <1>5 DEF FlagType, KeepAlive, KeepAliveTicks, KeepAliveCloses, KeepAliveEnds
  <1>6. CASE Handler
    BY Zenon, <1>6, SameFlags
       DEF Handler, HandlerStarts, HandlerLoops, HandlerSeesClosed, HandlerReports
  <1>7. CASE Dials
    BY Zenon, <1>7 DEF FlagType, Dials
  <1>8. CASE Fails \/ Spawns \/ Returns
    BY Zenon, <1>8, SameFlags DEF Fails, Spawns, Returns, Panic
  <1>9. CASE Disconnects \/ TimerFires
    BY Zenon, <1>9, SameFlags DEF Disconnects, TimerFires
  <1>10. CASE Answers \/ Event \/ Breaks
    BY Zenon, <1>10, SameFlags DEF Answers, Event, Breaks
  <1>11. CASE UNCHANGED vars
    BY Zenon, <1>11, SameFlags DEF vars
  <1> QED
    BY Zenon, <1>1, <1>2, <1>3, <1>4, <1>5, <1>6, <1>7, <1>8, <1>9, <1>10, <1>11
       DEF Next, Main

\* Every step keeps the types of the places.
LEMMA PlaceStep ==
  ASSUME PlaceType, [Next]_vars
  PROVE  PlaceType'
  <1> USE DEF actors, receiver, network, PlaceType
  <1>1. CASE \E a \in Actor : Commands(a)
    BY Zenon, <1>1 DEF Commands, ReadsCounter, Sends, Arrives, Vanishes, TimesOut, HandsOver, Panic
  <1>2. CASE \E a \in {"main", "timer"} : Stops(a)
    <2>1. /\ conn' = conn \/ conn' = "closed"
          /\ dead' = dead \/ dead' = "main" \/ dead' = "timer"
          /\ UNCHANGED <<foreign, recv, waiter, handler, event, events>>
      BY Zenon, <1>2 DEF Stops, StopCancels, StopDestroys, StopClears, StopCloses, Panic
    <2> QED
      BY <2>1 DEF Actor
  <1>3. CASE Receiver
    BY Zenon, <1>3 DEF Receiver, ReceiverLoops, Receives, ReadFails, WaiterEnds
  <1>4. CASE Poll
    BY Zenon, <1>4 DEF Poll, PollEnds, PollDelivers
  <1>5. CASE KeepAlive
    BY Zenon, <1>5 DEF KeepAlive, KeepAliveTicks, KeepAliveCloses, KeepAliveEnds
  <1>6. CASE Handler
    BY Zenon, <1>6 DEF Handler, HandlerStarts, HandlerLoops, HandlerSeesClosed, HandlerReports
  <1>7. CASE Main
    <2>1. /\ conn' = conn \/ conn' = "open"
          /\ recv' = recv \/ recv' = "loop"
          /\ waiter' = waiter \/ waiter' = "select"
          /\ handler' = handler \/ handler' = "start"
          /\ dead' = dead \/ dead' = "ka"
          /\ UNCHANGED <<foreign, event, events>>
      BY Zenon, <1>7 DEF Main, Dials, Fails, Spawns, Returns, Panic
    <2> QED
      BY Zenon, <2>1 DEF Actor
  <1>8. CASE Disconnects \/ TimerFires
    BY Zenon, <1>8 DEF Disconnects, TimerFires
  <1>9. CASE Event \/ Breaks
    BY <1>9, TcpClientAssumption DEF Event, Breaks
  <1>10. CASE Answers
    <2>1. PICK r \in srv : /\ r.op = "aer" => event > 0
                           /\ event' = IF r.op = "aer" THEN event - 1 ELSE event
      BY Zenon, <1>10 DEF Answers
    <2>2. event' \in 0..events
      BY <2>1, TcpClientAssumption
    <2> QED
      BY Zenon, <1>10, <2>2 DEF Answers
  <1>11. CASE UNCHANGED vars
    BY Zenon, <1>11 DEF vars
  <1> QED
    BY Zenon, <1>1, <1>2, <1>3, <1>4, <1>5, <1>6, <1>7, <1>8, <1>9, <1>10, <1>11 DEF Next

\* Every step keeps the types of the queue.
LEMMA QueueStep ==
  ASSUME QueueType, [Next]_vars
  PROVE  QueueType'
  <1> USE DEF queue, actors, receiver, network
  <1>1. ASSUME NEW a \in Actor, Commands(a)
        PROVE  QueueType'
    <2>1. CASE Panic(a)
      BY Zenon, <2>1, SameQueue DEF Panic
    <2>2. CASE ReadsCounter(a) /\ ~Panic(a)
      BY Zenon, <2>2 DEF ReadsCounter, QueueType
    <2>3. CASE Sends(a)
      <3>1. nextId' \in Id /\ id' \in [Actor -> Id]
        BY <2>3, CounterTyped, TcpClientAssumption DEF Sends, QueueType, Id
      <3>2. UNCHANGED <<op, hold, down>>
        BY Zenon, <2>3 DEF Sends
      <3>3. CASE Arrives(a)
        <4>1. /\ [by |-> a, op |-> op[a]] \in Request
              /\ [id |-> id[a], op |-> op[a]] \in [id : Id, op : Op]
          BY Zenon DEF QueueType, Request
        <4> QED
          BY Zenon, <3>1, <3>2, <3>3, <4>1 DEF Arrives, QueueType
      <3>4. CASE ~Arrives(a)
        <4>1. UNCHANGED out /\ srv' \subseteq srv
          BY Zenon, <2>3, <3>4 DEF Sends, Vanishes
        <4> QED
          BY Zenon, <3>1, <3>2, <4>1 DEF QueueType
      <3> QED
        BY Zenon, <3>3, <3>4
    <2>4. CASE TimesOut(a)
      BY Zenon, <2>4, SameQueue DEF TimesOut
    <2>5. CASE HandsOver(a) /\ ~Panic(a)
      <3>1. op' \in [Actor -> Op]
        BY <2>5 DEF HandsOver, Advances, NextOp, QueueType, Op
      <3>2. hold' = NoRequest /\ UNCHANGED <<nextId, id, out, srv, down>>
        BY Zenon, <2>5 DEF HandsOver
      <3> QED
        BY Zenon, <3>1, <3>2 DEF QueueType
    <2> QED
      BY Zenon, <1>1, <2>1, <2>2, <2>3, <2>4, <2>5 DEF Commands
  <1>2. CASE \E a \in {"main", "timer"} : Stops(a)
    <2>1. srv' \subseteq srv /\ UNCHANGED <<nextId, id, op, out, hold, down>>
      BY Zenon, <1>2 DEF Stops, StopCancels, StopDestroys, StopClears, StopCloses, Panic
    <2> QED
      BY Zenon, <2>1 DEF QueueType
  <1>3. CASE Receives
    <2>1. Head(down) \in Id /\ Tail(down) \in Seq(Id)
      BY <1>3 DEF Receives, QueueType
    <2> QED
      BY Zenon, <1>3, <2>1 DEF Receives, QueueType
  <1>4. CASE ReceiverLoops \/ ReadFails \/ WaiterEnds
    BY Zenon, <1>4, SameQueue DEF ReceiverLoops, ReadFails, WaiterEnds
  <1>5. CASE Poll
    BY Zenon, <1>5, SameQueue DEF Poll, PollEnds, PollDelivers
  <1>6. CASE KeepAlive
    <2>1. srv' \subseteq srv /\ UNCHANGED <<nextId, id, op, out, hold, down>>
      BY Zenon, <1>6 DEF KeepAlive, KeepAliveTicks, KeepAliveCloses, KeepAliveEnds
    <2> QED
      BY Zenon, <2>1 DEF QueueType
  <1>7. CASE Handler
    BY Zenon, <1>7, SameQueue
       DEF Handler, HandlerStarts, HandlerLoops, HandlerSeesClosed, HandlerReports
  <1>8. CASE Main \/ Disconnects \/ TimerFires
    <2>1. op' = op \/ \E a \in Actor : op' = [op EXCEPT ![a] = "cc"]
      BY Zenon, <1>8 DEF Main, Dials, Fails, Spawns, Returns, Disconnects, TimerFires, StopFrom,
                         Panic, Actor
    <2>2. UNCHANGED <<nextId, id, out, hold, srv, down>>
      BY Zenon, <1>8 DEF Main, Dials, Fails, Spawns, Returns, Disconnects, TimerFires, Panic
    <2>3. op' \in [Actor -> Op]
      BY Zenon, <2>1 DEF QueueType, Op
    <2> QED
      BY Zenon, <2>2, <2>3 DEF QueueType
  <1>9. CASE Answers
    BY <1>9 DEF Answers, QueueType
  <1>10. CASE Event \/ Breaks
    <2>1. srv' \subseteq srv /\ UNCHANGED <<nextId, id, op, out, hold, down>>
      BY Zenon, <1>10 DEF Event, Breaks
    <2> QED
      BY Zenon, <2>1 DEF QueueType
  <1>11. CASE UNCHANGED vars
    BY Zenon, <1>11, SameQueue DEF vars
  <1> QED
    BY Zenon, <1>1, <1>2, <1>3, <1>4, <1>5, <1>6, <1>7, <1>8, <1>9, <1>10, <1>11
       DEF Next, Receiver

\* Every variable keeps its type: ids stay within the counter's width, the
\* table holds requests, and events are not reported before they occur.
THEOREM TypeCorrect == Spec => []TypeOK
  <1>1. QueueType /\ FlagType /\ PlaceType /\ [Next]_vars
          => (QueueType /\ FlagType /\ PlaceType)'
    BY Zenon, QueueStep, FlagStep, PlaceStep
  <1>2. QueueType /\ FlagType /\ PlaceType /\ IInv => TypeOK
    <2> SUFFICES ASSUME QueueType, FlagType, PlaceType, PcType PROVE TypeOK
      BY Zenon DEF IInv
    <2>1. event \in 0..MaxEvent /\ events \in 0..MaxEvent
      BY TcpClientAssumption DEF PlaceType
    <2> QED
      BY Zenon, <2>1 DEF TypeOK, QueueType, FlagType, PlaceType, PcType, Places
  <1> QED
    BY <1>1, <1>2, InitTyped, Invariance, PTL DEF Spec

----------------------------------------------------------------------------
(* A session: nobody calls Stop from outside *)

\* Where a goroutine is while a request of its own is in the table or handed
\* over: it waits for the answer, or it has given up and sends nothing more.
\* keepAlive always has the same id, so that its requests replace each other.
Awaits(r) ==
    \/ /\ r.by = "main" /\ r.op \in {"connect", "identify", "log", "cc"}
       /\ pc["main"] \notin {"dial", "next", "send", "table", "return", "running"}
       /\ pc["main"] = "wait" => r.op = op["main"]
    \/ r = [by |-> "poll", op |-> "aer"] /\ pc["poll"] = "wait"
    \/ r = [by |-> "ka", op |-> "keepalive"] /\ pc["ka"] # "off"

\* Every request is awaited; only keepAlive may have more than one.
MayRepeat(by) == by \in {"nobody", "ka"}
Requests ==
    /\ recv = "hand" => hold # NoRequest
    /\ hold # NoRequest => Awaits(hold)
    /\ \A i \in Id : out[i] # NoRequest => Awaits(out[i])
    /\ \A i \in Id : out[i].by = hold.by => MayRepeat(hold.by)
    /\ \A i, j \in Id : out[i].by = out[j].by => i = j \/ MayRepeat(out[i].by)

\* What every goroutine sends, and which of them run at a time: Discover reads
\* before pollAEN and keepAlive start, and only a client without a keep-alive
\* timeout is stopped.
Roles ==
    /\ op["poll"] = "aer" /\ op["ka"] = "keepalive"
    /\ op["main"] \in {"connect", "identify", "log", "cc"}
    /\ pc["timer"] \in {"off", "armed"}
    /\ kato => /\ pc["main"] \in {"dial", "next", "send", "wait", "table", "return",
                                  "running", "fail", "failed"}
               /\ op["main"] # "cc" /\ ~ctx /\ ~aenClosed
    /\ ~kato => /\ pc["poll"] = "off" /\ pc["ka"] = "off" /\ handler = "off"
                /\ pc["main"] # "running"
    /\ pc["poll"] # "off" \/ pc["ka"] # "off" => pc["main"] \in {"return", "running"}
    /\ handler # "off" => pc["main"] = "running"
    /\ pc["main"] \in {"next", "send", "wait", "table", "return", "running"} => tcpQ
    /\ aenClosed => pc["main"] = "done"
    /\ pc["poll"] \notin {"table", "tick", "cancel", "destroy", "clear", "wg"}

Alone == Roles /\ Requests /\ foreign = {} /\ dead = "no"
Session == mayStop = {} => Alone

\* The initial states.
LEMMA InitSession == Init => Session
  <1> SUFFICES ASSUME Init PROVE Alone
    BY Zenon DEF Session
  <1>1. Roles
    BY Zenon DEF Init, Roles, Actor
  <1>2. Requests
    BY Zenon DEF Init, Requests, NoRequest, MayRepeat
  <1> QED
    BY Zenon, <1>1, <1>2 DEF Init, Alone

\* The requests stay awaited if nobody who awaits one goes on.
LEMMA StillAwaited ==
  ASSUME Requests, UNCHANGED <<out, hold>>, recv' = "hand" => recv = "hand",
         \A r \in {hold} \cup {out[i] : i \in Id} : Awaits(r) => Awaits(r)'
  PROVE  Requests'
  BY Zenon DEF Requests, MayRepeat, NoRequest

\* A goroutine goes from one place to another; neither is one at which others
\* rely on it.
Steps(a, l) ==
    /\ pc' = [pc EXCEPT ![a] = l]
    /\ pc[a] # "off" /\ l # "off"
    /\ a = "main" => \/ pc["main"] \in {"next", "send"} /\ l \in {"send", "wait"}
                     \/ pc["main"] \in {"send", "wait"} /\ l = OnError("main")
    /\ a = "poll" => pc["poll"] # "wait" /\ l \in {"next", "send", "wait"}
    /\ UNCHANGED <<op, kato, tcpQ, ctx, aenClosed, handler>>

\* Then what the goroutines are allowed to be doing stays the same ...
LEMMA RolesStep ==
  ASSUME PcType, Roles, NEW a \in {"main", "poll", "ka"}, NEW l, Steps(a, l)
  PROVE  Roles'
  <1>1. pc'[a] = l /\ \A b \in Actor \ {a} : pc'[b] = pc[b]
    BY Zenon DEF Steps, PcType, Actor
  <1>2. CASE a = "main"
    BY Zenon, <1>1, <1>2 DEF Steps, Roles, Actor, OnError, Reading
  <1>3. CASE a = "poll"
    BY Zenon, <1>1, <1>3 DEF Steps, Roles, Actor
  <1>4. CASE a = "ka"
    BY Zenon, <1>1, <1>4 DEF Steps, Roles, Actor
  <1> QED
    BY Zenon, <1>2, <1>3, <1>4

\* ... and so does what is awaited.
LEMMA AwaitsStep ==
  ASSUME PcType, Roles, NEW a \in {"main", "poll", "ka"}, NEW l, Steps(a, l),
         NEW r, Awaits(r)
  PROVE  Awaits(r)'
  <1>1. pc'[a] = l /\ \A b \in Actor \ {a} : pc'[b] = pc[b]
    BY Zenon DEF Steps, PcType, Actor
  <1> QED
    BY Zenon, <1>1 DEF Steps, Awaits, Actor, OnError, Reading

\* Such a step that leaves the table alone.
LEMMA Stepping ==
  ASSUME PcType, Alone, NEW a \in {"main", "poll", "ka"}, NEW l, Steps(a, l),
         UNCHANGED <<out, hold, recv, foreign, dead>>
  PROVE  Alone'
  <1>1. Roles'
    BY Zenon, RolesStep DEF Alone
  <1>2. Requests'
    BY Zenon, StillAwaited, AwaitsStep DEF Alone
  <1> QED
    BY Zenon, <1>1, <1>2 DEF Alone

\* Only three goroutines send commands: the timer does not fire.
LEMMA Senders ==
  ASSUME Alone, NEW a \in Actor, pc[a] \in {"next", "send", "wait"}
  PROVE  a \in {"main", "poll", "ka"}
  BY Zenon DEF Alone, Roles, Actor

\* Everybody who looks up the queue finds it.
LEMMA ReadsCounterAlone ==
  ASSUME PcType, Alone, NEW a \in Actor, ReadsCounter(a)
  PROVE  Alone'
  <1>1. pc[a] = "next" /\ a \in {"main", "poll", "ka"}
    BY Zenon, Senders DEF ReadsCounter
  <1>2. LooksUp(a) => tcpQ
    BY Zenon, <1>1 DEF LooksUp, Reading, Alone, Roles
  <1>3. Steps(a, "send")
    BY Zenon, <1>1, <1>2 DEF ReadsCounter, Steps, Goto, given, shared
  <1>4. UNCHANGED <<out, hold, recv, foreign, dead>>
    BY Zenon, <1>2 DEF ReadsCounter, queue, receiver
  <1> QED
    BY Zenon, <1>1, <1>3, <1>4, Stepping

\* Who sends has no request in the table, so that the new one is its only one.
LEMMA SendsAlone ==
  ASSUME QueueType, PcType, Alone, NEW a \in Actor, Sends(a)
  PROVE  Alone'
  <1>1. pc[a] = "send" /\ a \in {"main", "poll", "ka"}
    BY Zenon, Senders DEF Sends
  <1>2. PICK l \in {"wait", OnError(a)} : Goto(a, l)
    BY Zenon DEF Sends
  <1>3. Steps(a, l)
    BY Zenon, <1>1, <1>2 DEF Sends, Steps, Goto, OnError, given, shared
  <1>4. UNCHANGED <<hold, recv, foreign, dead>>
    BY Zenon DEF Sends, receiver
  <1>5. CASE UNCHANGED out
    BY Zenon, <1>1, <1>3, <1>4, <1>5, Stepping
  <1>6. CASE Arrives(a) /\ Goto(a, "wait")
    <2> DEFINE new == [by |-> a, op |-> op[a]]
    <2>1. Roles'
      BY Zenon, <1>1, <1>3, RolesStep DEF Alone
    <2>2. pc'[a] = "wait" /\ UNCHANGED op
      BY Zenon, <1>6 DEF Goto, PcType, Sends
    <2>3. Awaits(new)'
      BY Zenon, <1>1, <2>2 DEF Awaits, Alone, Roles
    <2>4. \A r : Awaits(r) => Awaits(r)'
      BY Zenon, <1>1, <1>3, AwaitsStep DEF Alone
    <2>5. \A r : Awaits(r) /\ r.by = a => a = "ka"
      BY <1>1 DEF Awaits
    <2>6. out' = [out EXCEPT ![id[a]] = new]
      BY Zenon, <1>6 DEF Arrives
    <2>7. \A i \in Id : out'[i] = new \/ out'[i] = out[i]
      BY Zenon, <2>6 DEF QueueType
    <2>8. \A i \in Id : out[i].by = a \/ hold.by = a => a = "ka"
      BY <1>1, <2>5 DEF Alone, Requests, NoRequest
    <2>9. ASSUME NEW i \in Id, out'[i] # NoRequest
          PROVE  Awaits(out[i])'
      <3>1. PICK r : r = out'[i]
        OBVIOUS
      <3>2. Awaits(r)'
        <4>1. CASE r = new
          BY Zenon, <2>2, <2>3, <4>1 DEF Awaits
        <4>2. CASE r = out[i]
          BY Zenon, <2>4, <2>9, <3>1, <4>2 DEF Alone, Requests
        <4> QED
          BY Zenon, <2>7, <3>1, <4>1, <4>2
      <3> QED
        BY Zenon, <3>1, <3>2 DEF Awaits
    <2>10. \A i \in Id : out'[i].by = hold.by => MayRepeat(hold.by)
      BY <2>7, <2>8 DEF Alone, Requests, MayRepeat
    <2>11. \A i, j \in Id : out'[i].by = out'[j].by => i = j \/ MayRepeat(out'[i].by)
      BY Zenon, <2>6, <2>8 DEF Alone, Requests, MayRepeat, QueueType
    <2>12. Requests'
      BY Zenon, <1>4, <2>4, <2>9, <2>10, <2>11 DEF Alone, Requests, NoRequest, MayRepeat
    <2> QED
      BY Zenon, <1>4, <2>1, <2>12 DEF Alone
  <1> QED
    BY Zenon, <1>5, <1>6 DEF Sends, Vanishes

\* Who times out leaves a request behind and sends no other.
LEMMA TimesOutAlone ==
  ASSUME PcType, Alone, NEW a \in Actor, TimesOut(a)
  PROVE  Alone'
  <1>1. pc[a] = "wait" /\ a \in {"main", "ka"}
    BY Zenon, Senders DEF TimesOut
  <1>2. Steps(a, OnError(a))
    BY Zenon, <1>1 DEF TimesOut, Steps, Goto, OnError, given, shared
  <1> QED
    BY Zenon, <1>1, <1>2, Stepping DEF TimesOut, queue, receiver

\* The answer is taken by the goroutine that asked for it: of those that wait
\* at the channel of its kind only one is running.
LEMMA TakenBySender ==
  ASSUME QueueType, Alone, NEW a \in Actor, recv = "hand", pc[a] = "wait", Channel(a)
  PROVE  /\ a \in {"main", "poll", "ka"} /\ hold = [by |-> a, op |-> op[a]]
         /\ \A i \in Id : out[i].by = a => a = "ka"
  <1>1. a \in {"main", "poll", "ka"} /\ Awaits(hold)
    BY Zenon, Senders DEF Alone, Requests
  <1>2. hold \in Request
    BY Zenon DEF Alone, Requests, QueueType
  <1>3. hold.by = a /\ hold.op = op[a]
    BY <1>1 DEF Channel, Awaits, Alone, Roles
  <1>4. hold = [by |-> a, op |-> op[a]]
    BY Zenon, <1>2, <1>3 DEF Request
  <1>5. \A i \in Id : out[i].by = a => a = "ka"
    BY Zenon, <1>1, <1>3 DEF Alone, Requests, MayRepeat
  <1> QED
    BY Zenon, <1>1, <1>4, <1>5

\* The goroutine goes on to the next command, or rests.
LEMMA HandsOverAlone ==
  ASSUME QueueType, PcType, Alone, NEW a \in Actor, HandsOver(a)
  PROVE  Alone'
  <1>1. recv = "hand" /\ pc[a] = "wait" /\ Channel(a)
    BY Zenon DEF HandsOver
  <1>2. /\ a \in {"main", "poll", "ka"} /\ hold = [by |-> a, op |-> op[a]]
        /\ \A i \in Id : out[i].by = a => a = "ka"
    BY Zenon, <1>1, TakenBySender
  <1>3. op[a] \in {"identify", "log"} => ~NoData(hold)
    BY Zenon, <1>2 DEF NoData
  <1>4. /\ Advances(a) /\ foreign' = foreign \cup IF hold.by = a THEN {} ELSE {a}
        /\ recv' = "loop" /\ hold' = NoRequest
        /\ UNCHANGED <<given, shared, queue, id, waiter, handler, network, dead>>
    BY Zenon, <1>3 DEF HandsOver
  <1>5. foreign' = {}
    BY Zenon, <1>2, <1>4 DEF Alone
  <1>6. PICK l : /\ Goto(a, l)
                 /\ a = "main" => l \in {"next", "table", "cancel"}
                 /\ a = "main" /\ l = "cancel" => op[a] = "cc"
                 /\ a = "poll" => l = "hold"
                 /\ a = "ka" => l = "tick"
    BY Zenon, <1>2, <1>4 DEF Advances, NextOp, Alone, Roles
  <1>7. pc'[a] = l /\ \A b \in Actor \ {a} : pc'[b] = pc[b]
    BY Zenon, <1>6 DEF Goto, PcType
  <1>8. /\ a = "main" => op'["main"] \in {"identify", "log", "cc"}
        /\ a = "main" /\ op'["main"] = "cc" => op["main"] = "cc"
        /\ \A b \in Actor \ {"main"} : op'[b] = op[b]
        /\ a # "main" => op'["main"] = op["main"]
    BY <1>2, <1>4 DEF Advances, NextOp, Alone, Roles, QueueType, Actor
  <1>9. Roles'
    BY ZenonT(30), <1>1, <1>2, <1>4, <1>6, <1>7, <1>8 DEF Alone, Roles, Actor, given, shared
  <1>10. ASSUME NEW i \in Id, out[i] # NoRequest
         PROVE  Awaits(out[i])'
    <2>1. Awaits(out[i]) /\ (out[i].by = a => a = "ka")
      BY Zenon, <1>2, <1>10 DEF Alone, Requests
    <2>2. UNCHANGED out
      BY Zenon, <1>4 DEF queue
    <2> QED
      BY <1>2, <1>6, <1>7, <1>8, <2>1, <2>2 DEF Awaits, Actor
  <1>11. Requests'
    BY Zenon, <1>4, <1>10 DEF Alone, Requests, queue, NoRequest, MayRepeat
  <1> QED
    BY Zenon, <1>4, <1>5, <1>9, <1>11 DEF Alone

\* recvPdu moves a request from the table into its hand.
LEMMA ReceiverAlone ==
  ASSUME QueueType, Alone, Receiver
  PROVE  Alone'
  <1> USE DEF given, shared, queue, actors
  <1>1. UNCHANGED <<kato, tcpQ, ctx, aenClosed, pc, op, foreign, handler, dead>>
    BY Zenon DEF Receiver, ReceiverLoops, Receives, ReadFails, WaiterEnds
  <1>2. Roles' /\ \A r : Awaits(r) => Awaits(r)'
    BY Zenon, <1>1 DEF Alone, Roles, Awaits
  <1>3. CASE Receives
    <2> DEFINE i0 == Head(down)
    <2>1. i0 \in Id
      BY <1>3 DEF Receives, QueueType
    <2>2. /\ out' = [out EXCEPT ![i0] = NoRequest] /\ hold' = out[i0]
          /\ recv' = "hand" => hold' # NoRequest
      BY Zenon, <1>3 DEF Receives
    <2>3. \A i \in Id : out'[i] = IF i = i0 THEN NoRequest ELSE out[i]
      BY Zenon, <2>2 DEF QueueType
    <2>4. hold' # NoRequest => Awaits(hold)'
      BY Zenon, <1>1, <2>1, <2>2 DEF Alone, Requests, Awaits
    <2>5. ASSUME NEW i \in Id, out'[i] # NoRequest
          PROVE  Awaits(out[i])'
      BY Zenon, <1>1, <2>3, <2>5 DEF Alone, Requests, Awaits
    <2>6. \A i \in Id : out'[i].by = hold'.by => MayRepeat(hold'.by)
      BY <2>1, <2>2, <2>3 DEF Alone, Requests, MayRepeat, NoRequest
    <2>7. \A i, j \in Id : out'[i].by = out'[j].by => i = j \/ MayRepeat(out'[i].by)
      BY <2>3 DEF Alone, Requests, MayRepeat, NoRequest
    <2>8. Requests'
      BY Zenon, <2>2, <2>4, <2>5, <2>6, <2>7 DEF Requests, MayRepeat, NoRequest
    <2> QED
      BY Zenon, <1>1, <1>2, <2>8 DEF Alone
  <1>4. CASE ReceiverLoops \/ ReadFails \/ WaiterEnds
    <2>1. UNCHANGED <<out, hold>> /\ (recv' = "hand" => recv = "hand")
      BY Zenon, <1>4 DEF ReceiverLoops, ReadFails, WaiterEnds
    <2>2. Requests'
      BY Zenon, <1>2, <2>1, StillAwaited DEF Alone
    <2> QED
      BY Zenon, <1>1, <1>2, <2>2 DEF Alone
  <1> QED
    BY Zenon, <1>3, <1>4 DEF Receiver

\* pollAEN gives an event to handleChannel; its context is never done.
LEMMA PollAlone ==
  ASSUME PcType, Alone, Poll
  PROVE  Alone'
  <1>1. ~PollEnds
    BY Zenon DEF PollEnds, Alone, Roles
  <1>2. PollDelivers
    BY Zenon, <1>1 DEF Poll
  <1>3. pc["poll"] = "hold" /\ pc'["poll"] = "next"
        /\ \A b \in Actor \ {"poll"} : pc'[b] = pc[b]
    BY Zenon, <1>2 DEF PollDelivers, Goto, PcType, Actor
  <1>4. handler = "select" /\ handler' = "aen"
        /\ UNCHANGED <<op, kato, tcpQ, ctx, aenClosed, out, hold, recv, foreign, dead>>
    BY Zenon, <1>2 DEF PollDelivers, given, shared, queue, receiver
  <1>5. Roles'
    BY Zenon, <1>3, <1>4 DEF Alone, Roles, Actor
  <1>6. \A r : Awaits(r) => Awaits(r)'
    BY Zenon, <1>3, <1>4 DEF Awaits, Actor
  <1>7. Requests'
    BY Zenon, <1>4, <1>6, StillAwaited DEF Alone
  <1> QED
    BY Zenon, <1>4, <1>5, <1>7 DEF Alone

\* keepAlive.
LEMMA KeepAliveAlone ==
  ASSUME PcType, Alone, KeepAlive
  PROVE  Alone'
  <1>1. PICK l \in {"send", "closed", "done"} : Goto("ka", l)
    BY Zenon DEF KeepAlive, KeepAliveTicks, KeepAliveCloses, KeepAliveEnds
  <1>2. /\ pc["ka"] # "off"
        /\ UNCHANGED <<op, kato, tcpQ, ctx, aenClosed, handler, out, hold, recv, foreign, dead>>
    BY Zenon DEF KeepAlive, KeepAliveTicks, KeepAliveCloses, KeepAliveEnds, given, shared, queue, receiver
  <1>3. Steps("ka", l)
    BY Zenon, <1>1, <1>2 DEF Steps, Goto
  <1> QED
    BY Zenon, <1>2, <1>3, Stepping

\* handleChannel finds its client and the queue.
LEMMA HandlerAlone ==
  ASSUME Alone, Handler
  PROVE  Alone'
  <1>1. handler # "off" /\ handler' # "off"
    BY Zenon DEF Handler, HandlerStarts, HandlerLoops, HandlerSeesClosed, HandlerReports
  <1>2. UNCHANGED <<op, kato, tcpQ, ctx, aenClosed, pc, out, hold, recv, foreign>>
    BY Zenon DEF Handler, HandlerStarts, HandlerLoops, HandlerSeesClosed, HandlerReports,
                 given, shared, queue, actors, receiver
  <1>3. UNCHANGED dead
    <2>1. pc["main"] = "running" /\ tcpQ
      BY Zenon, <1>1 DEF Alone, Roles
    <2> QED
      BY Zenon, <2>1 DEF Handler, HandlerStarts, HandlerLoops, HandlerSeesClosed, HandlerReports
  <1>4. Roles'
    BY Zenon, <1>1, <1>2 DEF Alone, Roles
  <1>5. Requests'
    BY Zenon, <1>2 DEF Alone, Requests, Awaits
  <1> QED
    BY Zenon, <1>2, <1>3, <1>4, <1>5 DEF Alone

\* Discover, and the Stop it ends with if there is no keep-alive timeout.
LEMMA MainAlone ==
  ASSUME QueueType, PcType, Alone, Main
  PROVE  Alone'
  <1> USE DEF given, shared, queue, receiver
  <1>1. UNCHANGED <<kato, ctx, aenClosed, out, hold, foreign, dead>>
    <2>1. pc["main"] = "table" /\ kato => tcpQ
      BY Zenon DEF Alone, Roles
    <2> QED
      BY Zenon, <2>1 DEF Main, Dials, Fails, Spawns, Returns
  <1>2. CASE Dials
    <2>1. /\ pc["main"] = "dial" /\ pc'["poll"] = pc["poll"] /\ pc'["ka"] = pc["ka"]
          /\ pc'["timer"] \in {pc["timer"], "armed"}
          /\ pc'["main"] \in {"fail", "next"} /\ (pc'["main"] = "next" => tcpQ')
      BY Zenon, <1>2 DEF Dials, Goto, PcType, Actor
    <2>2. UNCHANGED <<op, handler>> /\ (recv' = "hand" => recv = "hand")
      BY Zenon, <1>2 DEF Dials
    <2>3. Roles'
      BY Zenon, <1>1, <2>1, <2>2 DEF Alone, Roles
    <2>4. \A r : Awaits(r) => Awaits(r)'
      BY Zenon, <2>1, <2>2 DEF Awaits
    <2>5. Requests'
      BY Zenon, <1>1, <2>2, <2>4, StillAwaited DEF Alone
    <2> QED
      BY Zenon, <1>1, <2>3, <2>5 DEF Alone
  <1>3. CASE Fails
    <2>1. /\ pc["main"] = "fail" /\ pc'["poll"] = pc["poll"] /\ pc'["ka"] = pc["ka"]
          /\ pc'["timer"] \in {pc["timer"], "off"} /\ pc'["main"] = "failed"
      BY Zenon, <1>3 DEF Fails, Disarmed, PcType, Actor
    <2>2. UNCHANGED <<op, handler, recv, tcpQ>>
      BY Zenon, <1>3 DEF Fails
    <2>3. Roles'
      BY Zenon, <1>1, <2>1, <2>2 DEF Alone, Roles
    <2>4. \A r : Awaits(r) => Awaits(r)'
      BY Zenon, <2>1, <2>2 DEF Awaits
    <2>5. Requests'
      BY Zenon, <1>1, <2>2, <2>4, StillAwaited DEF Alone
    <2> QED
      BY Zenon, <1>1, <2>3, <2>5 DEF Alone
  <1>4. CASE Spawns
    <2>1. pc["main"] = "table" /\ tcpQ
      BY Zenon, <1>4 DEF Spawns, Alone, Roles
    <2>2. /\ pc' = [pc EXCEPT !["main"] = "return",
                              !["poll"] = IF kato THEN "next" ELSE @,
                              !["ka"] = IF kato THEN "tick" ELSE @]
          /\ UNCHANGED <<op, handler, recv, tcpQ>>
      BY Zenon, <1>4, <2>1 DEF Spawns
    <2>3. /\ pc'["main"] = "return" /\ pc'["timer"] = pc["timer"]
          /\ pc'["poll"] = IF kato THEN "next" ELSE pc["poll"]
          /\ pc'["ka"] = IF kato THEN "tick" ELSE pc["ka"]
      BY Zenon, <2>2 DEF PcType, Actor
    <2>4. Roles'
      BY <1>1, <2>1, <2>2, <2>3 DEF Alone, Roles
    <2>5. \A r : Awaits(r) => Awaits(r)'
      BY Zenon, <2>1, <2>2, <2>3 DEF Awaits, Alone, Roles
    <2>6. Requests'
      BY Zenon, <1>1, <2>2, <2>5, StillAwaited DEF Alone
    <2> QED
      BY Zenon, <1>1, <2>4, <2>6 DEF Alone
  <1>5. CASE Returns
    <2>1. pc["main"] = "return" /\ tcpQ
      BY Zenon, <1>5 DEF Returns, Alone, Roles
    <2>2. /\ pc'["poll"] = pc["poll"] /\ pc'["ka"] = pc["ka"]
          /\ pc'["timer"] \in {pc["timer"], "off"}
          /\ pc'["main"] = IF kato THEN "running" ELSE "next"
      BY Zenon, <1>5, <2>1 DEF Returns, StopFrom, Disarmed, PcType, Actor
    <2>3. /\ UNCHANGED <<recv, tcpQ>>
          /\ kato => UNCHANGED op
          /\ ~kato => op' = [op EXCEPT !["main"] = "cc"] /\ UNCHANGED handler
      BY Zenon, <1>5, <2>1 DEF Returns, StopFrom
    <2>4. /\ op'["poll"] = op["poll"] /\ op'["ka"] = op["ka"]
          /\ op'["main"] = IF kato THEN op["main"] ELSE "cc"
      BY Zenon, <2>3 DEF QueueType, Actor
    <2>5. Roles'
      BY Zenon, <1>1, <2>1, <2>2, <2>3, <2>4 DEF Alone, Roles
    <2>6. \A r : Awaits(r) => Awaits(r)'
      BY Zenon, <2>1, <2>2 DEF Awaits
    <2>7. Requests'
      BY Zenon, <1>1, <2>3, <2>6, StillAwaited DEF Alone
    <2> QED
      BY Zenon, <1>1, <2>5, <2>7 DEF Alone
  <1> QED
    BY Zenon, <1>2, <1>3, <1>4, <1>5 DEF Main

\* The steps of that Stop: by then no other goroutine has been started.
LEMMA StopsAlone ==
  ASSUME PcType, Alone, NEW a \in Stopper, Stops(a)
  PROVE  Alone'
  <1> USE DEF given, shared, queue, receiver
  <1>1. a = "main" /\ pc["main"] \in {"cancel", "destroy", "clear", "wg"}
    BY Zenon DEF Stops, StopCancels, StopDestroys, StopClears, StopCloses, Alone, Roles, Stopper
  <1>2. ~kato /\ pc["poll"] = "off" /\ pc["ka"] = "off" /\ ~aenClosed
    BY Zenon, <1>1 DEF Alone, Roles
  <1>3. PICK l \in {"destroy", "clear", "wg", "done"} :
             Goto("main", l) /\ (aenClosed' => l = "done")
    <2>1. pc["poll"] # "hold"
      BY Zenon, <1>2
    <2>2. CASE StopCancels(a)
      BY Zenon, <1>1, <1>2, <2>2 DEF StopCancels
    <2>3. CASE StopDestroys(a)
      BY Zenon, <1>1, <1>2, <2>3 DEF StopDestroys
    <2>4. CASE StopClears(a)
      BY Zenon, <1>1, <1>2, <2>1, <2>4 DEF StopClears
    <2>5. CASE StopCloses(a)
      BY Zenon, <1>1, <1>2, <2>5 DEF StopCloses
    <2> QED
      BY Zenon, <2>2, <2>3, <2>4, <2>5 DEF Stops
  <1>4. UNCHANGED <<kato, op, handler, out, hold, recv, foreign, dead>>
    BY Zenon, <1>2 DEF Stops, StopCancels, StopDestroys, StopClears, StopCloses
  <1>5. pc'["main"] = l /\ \A b \in Actor \ {"main"} : pc'[b] = pc[b]
    BY Zenon, <1>3 DEF Goto, PcType, Actor
  <1>6. Roles'
    BY Zenon, <1>2, <1>3, <1>4, <1>5 DEF Alone, Roles, Actor
  <1>7. \A r : Awaits(r) => Awaits(r)'
    BY Zenon, <1>1, <1>3, <1>4, <1>5 DEF Awaits, Actor
  <1>8. Requests'
    BY Zenon, <1>4, <1>7, StillAwaited DEF Alone
  <1> QED
    BY Zenon, <1>4, <1>6, <1>8 DEF Alone

\* Who may call Stop is fixed.
LEMMA NobodyElseStops ==
  ASSUME [Next]_vars
  PROVE  UNCHANGED mayStop
  <1> USE DEF given, shared, queue, actors, receiver, network
  <1> QED
    BY Zenon DEF vars, Next, Commands, ReadsCounter, Sends, TimesOut, HandsOver, Panic, Stops,
           StopCancels, StopDestroys, StopClears, StopCloses, Receiver, ReceiverLoops,
           Receives, ReadFails, WaiterEnds, Poll, PollEnds, PollDelivers, KeepAlive,
           KeepAliveTicks, KeepAliveCloses, KeepAliveEnds, Handler, HandlerStarts, HandlerLoops,
           HandlerSeesClosed, HandlerReports, Main, Dials, Fails, Spawns, Returns,
           Disconnects, TimerFires, Answers, Event, Breaks

\* Every step keeps what holds of a session.
LEMMA NextSession ==
  ASSUME QueueType, PcType, Session, [Next]_vars
  PROVE  Session'
  <1> USE DEF given, shared, queue, actors, receiver, network
  <1>1. UNCHANGED mayStop
    BY Zenon, NobodyElseStops
  <1> SUFFICES ASSUME mayStop = {}, Alone PROVE Alone'
    BY Zenon, <1>1 DEF Session
  <1>2. CASE \E a \in Actor : Commands(a)
    BY Zenon, <1>2, ReadsCounterAlone, SendsAlone, TimesOutAlone, HandsOverAlone DEF Commands
  <1>3. CASE Answers \/ Event \/ Breaks \/ UNCHANGED vars
    <2>1. UNCHANGED <<kato, tcpQ, ctx, aenClosed, pc, op, handler, out, hold, recv, foreign, dead>>
      BY Zenon, <1>3 DEF Answers, Event, Breaks, vars
    <2>2. Roles'
      BY Zenon, <2>1 DEF Alone, Roles
    <2>3. \A r : Awaits(r) => Awaits(r)'
      BY Zenon, <2>1 DEF Awaits
    <2>4. Requests'
      BY Zenon, <2>1, <2>3, StillAwaited DEF Alone
    <2> QED
      BY Zenon, <2>1, <2>2, <2>4 DEF Alone
  <1>4. ~Disconnects /\ ~TimerFires
    BY Zenon DEF Disconnects, TimerFires
  <1> QED
    BY Zenon, <1>2, <1>3, <1>4, StopsAlone, ReceiverAlone, PollAlone, KeepAliveAlone,
       HandlerAlone, MainAlone DEF Next, Stopper

\* What holds of a session holds throughout.
THEOREM SessionInvariance == Spec => []Session
  <1>1. IInv /\ QueueType /\ Session /\ [Next]_vars => Session'
    BY Zenon, NextSession DEF IInv
  <1>2. QueueType /\ [Next]_vars => QueueType'
    BY Zenon, QueueStep
  <1> QED
    BY <1>1, <1>2, InitTyped, InitSession, Invariance, PTL DEF Spec

\* Unless Stop is called from outside, every goroutine only takes completed
\* requests of its own, whatever the order of answers, losses and timeouts and
\* however the ids wrap around.
THEOREM RepliesReachTheirSender == Spec => [](mayStop = {} => foreign = {})
  <1>1. Session => (mayStop = {} => foreign = {})
    BY Zenon DEF Session, Alone
  <1> QED
    BY <1>1, SessionInvariance, PTL

\* An event that recvPdu hands over finds pollAEN waiting for it.
THEOREM EventsAreAwaited == Spec => []EventIsAwaited
  <1>1. Session => EventIsAwaited
    BY DEF Session, Alone, Requests, Awaits, EventIsAwaited, NoRequest
  <1> QED
    BY <1>1, SessionInvariance, PTL

\* No goroutine of a session panics.
THEOREM SessionsSurvive == Spec => []SessionSurvives
  <1>1. Session => SessionSurvives
    BY Zenon DEF Session, Alone, SessionSurvives
  <1> QED
    BY <1>1, SessionInvariance, PTL

----------------------------------------------------------------------------
(* Command ids of a session *)

\* The connection is not lost yet.
Usable == conn \in {"none", "open"}

\* keepAlive has id 0 for itself.  The others count up: whoever is about to
\* send has the next id, and the ids from there on are free.
Ids ==
    /\ pc["ka"] \in {"off", "tick", "send", "wait", "close", "closed", "done"} /\ id["ka"] = 0
    /\ out[0].by \in {"nobody", "ka"} /\ \A i \in Id : out[i].by = "ka" => i = 0
    /\ pc["main"] = "dial" => conn = "none"
    /\ pc["main"] \in {"table", "return", "running"} => op["main"] = "log"
    /\ Usable => /\ nextId >= 1 /\ \A i \in Id : i >= nextId => out[i] = NoRequest
                 /\ \A a \in {"main", "poll"} : pc[a] = "send" => id[a] = nextId

\* keepAlive sends nothing before its last request was taken.
OneKeepAlive ==
    /\ out[0].by = "ka" \/ hold.by = "ka" => pc["ka"] \in {"wait", "close", "closed", "done"}
    /\ out[0].by # "ka" \/ hold.by # "ka"

\* How many commands Discover and pollAEN have sent, at most: one for each of
\* its stages, and one for each event reported and one more.
Stage ==
    IF op["main"] = "connect" THEN 1 ELSE IF op["main"] = "identify" THEN 2
    ELSE IF op["main"] = "log" THEN 3 ELSE 4
ByMain == IF pc["main"] \in {"dial", "next", "send"} THEN Stage ELSE Stage + 1
Asked == IF \E r \in srv : r.op = "aer" THEN 1 ELSE 0
ByPoll == IF pc["poll"] = "off" THEN 0 ELSE (events - event) + Asked
Few == Usable => nextId <= ByMain + ByPoll

\* What the controller has and what it has answered is in the table, and no id
\* is on its way twice.
Flight ==
    /\ srv # {} => conn = "open"
    /\ \A r \in srv : out[r.id].op = r.op
    /\ \A k \in 1..Len(down) : out[down[k]] # NoRequest
    /\ \A k, l \in 1..Len(down) : down[k] = down[l] => k = l
    /\ \A r \in srv : \A k \in 1..Len(down) : r.id # down[k]

Numbers == Ids /\ OneKeepAlive /\ Few /\ Flight
Counting == mayStop = {} => Numbers

\* The sizes of these counts.
LEMMA Sizes ==
  ASSUME PlaceType
  PROVE  /\ Stage \in 1..4 /\ ByMain \in 1..5 /\ Asked \in 0..1
         /\ events - event \in 0..MaxEvent /\ ByPoll \in 0..(MaxEvent + 1)
  <1>1. Stage \in 1..4 /\ Asked \in 0..1
    BY DEF Stage, Asked
  <1>2. events - event \in 0..MaxEvent
    BY TcpClientAssumption DEF PlaceType
  <1> QED
    BY <1>1, <1>2, TcpClientAssumption DEF ByMain, ByPoll

\* The table's first entry is of keepAlive or none.
LEMMA FirstEntry ==
  ASSUME QueueType, Ids
  PROVE  0 \in Id /\ (out[0].by # "ka" => out[0] = NoRequest)
  <1>1. 0 \in Id
    BY TcpClientAssumption DEF Id
  <1>2. out[0] \in Request \cup {NoRequest}
    BY Zenon, <1>1 DEF QueueType
  <1> QED
    BY Zenon, <1>1, <1>2 DEF Ids, Request, Actor

\* Whoever sends has a free id.
LEMMA FreeId ==
  ASSUME QueueType, Alone, Numbers, NEW a \in Actor, pc[a] = "send", conn = "open"
  PROVE  id[a] \in Id /\ out[id[a]] = NoRequest
  <1>1. a \in {"main", "poll", "ka"} /\ id[a] \in Id
    BY Zenon, Senders DEF QueueType
  <1>2. CASE a = "ka"
    <2>1. id[a] = 0 /\ out[0].by # "ka"
      BY Zenon, <1>2 DEF Numbers, Ids, OneKeepAlive
    <2> QED
      BY Zenon, <1>1, <2>1, FirstEntry DEF Numbers
  <1>3. CASE a # "ka"
    <2>1. id[a] = nextId /\ \A i \in Id : i >= nextId => out[i] = NoRequest
      BY Zenon, <1>1, <1>3 DEF Numbers, Ids, Usable
    <2>2. nextId \in Nat /\ nextId >= nextId
      BY TcpClientAssumption DEF QueueType, Id
    <2> QED
      BY Zenon, <1>1, <2>1, <2>2
  <1> QED
    BY Zenon, <1>2, <1>3

\* The initial states.
LEMMA InitNumbers == Init => Numbers
  <1> SUFFICES ASSUME Init PROVE Numbers
    BY Zenon
  <1>1. /\ pc["ka"] = "off" /\ pc["main"] = "dial" /\ pc["poll"] = "off"
        /\ id["ka"] = 0 /\ op["main"] = "connect"
    BY DEF Init, Actor
  <1>2. /\ nextId = 1 /\ hold = NoRequest /\ conn = "none" /\ srv = {} /\ down = <<>>
        /\ \A i \in Id : out[i] = NoRequest
    BY Zenon DEF Init
  <1>3. 0 \in Id
    BY TcpClientAssumption DEF Id
  <1>4. Ids
    BY <1>1, <1>2, <1>3 DEF Ids, NoRequest
  <1>5. OneKeepAlive
    BY <1>2, <1>3 DEF OneKeepAlive, NoRequest
  <1>6. Few
    BY <1>1, <1>2 DEF Few, ByMain, ByPoll, Stage
  <1>7. Flight
    BY <1>2 DEF Flight
  <1> QED
    BY Zenon, <1>4, <1>5, <1>6, <1>7 DEF Numbers

\* Goroutines that move without touching the queue.
LEMMA SameIds ==
  ASSUME Ids, UNCHANGED <<nextId, id, out>>, Usable' => Usable,
         pc'["main"] = "dial" => pc["main"] = "dial" /\ UNCHANGED conn,
         pc'["main"] \in {"table", "return", "running"} =>
             /\ pc["main"] \in {"table", "return", "running"}
             /\ op'["main"] = op["main"],
         pc'["ka"] \in {"off", "tick", "send", "wait", "close", "closed", "done"},
         \A a \in {"main", "poll"} : pc'[a] = "send" => pc[a] = "send"
  PROVE  Ids'
  BY Zenon DEF Ids, Usable, NoRequest

\* keepAlive still waits if it did.
LEMMA SameKeepAlive ==
  ASSUME OneKeepAlive, UNCHANGED <<out, hold>>,
         pc["ka"] \in {"wait", "close", "closed", "done"} => pc'["ka"] \in {"wait", "close", "closed", "done"}
  PROVE  OneKeepAlive'
  BY Zenon DEF OneKeepAlive

\* The table and the answers are left alone; requests may get lost.
LEMMA SameFlight ==
  ASSUME Flight, UNCHANGED <<out, down>>,
         (srv' = srv /\ (conn = "open" => conn' = "open")) \/ srv' = {}
  PROVE  Flight'
  BY Zenon DEF Flight, NoRequest

\* A bound of summands.
LEMMA Sums ==
  ASSUME NEW n \in Nat, NEW m \in Nat, NEW p \in Nat, NEW m1 \in Nat, NEW p1 \in Nat,
         n <= m + p, m1 >= m, p1 >= p
  PROVE  n <= m1 + p1
  OBVIOUS

\* Not more events are open than occurred.
LEMMA Difference ==
  ASSUME NEW n \in 0..MaxEvent, NEW m \in 0..n
  PROVE  n - m \in Nat
  BY TcpClientAssumption

\* The counter stays where it is, and the bound does not shrink.
LEMMA MoreAllowed ==
  ASSUME QueueType, PlaceType, PlaceType', Few, UNCHANGED nextId, Usable' => Usable,
         Usable' => ByMain' >= ByMain /\ ByPoll' >= ByPoll
  PROVE  Few'
  <1>1. nextId \in Nat
    BY TcpClientAssumption DEF QueueType, Id
  <1>2. ByMain \in Nat /\ ByMain' \in Nat
    BY DEF ByMain, Stage
  <1>3. ByPoll \in Nat /\ ByPoll' \in Nat
    <2>1. events - event \in Nat
      BY TcpClientAssumption DEF PlaceType
    <2>2. events' \in 0..MaxEvent /\ event' \in 0..events'
      BY Zenon DEF PlaceType
    <2>3. events' - event' \in Nat
      BY Zenon, <2>2, Difference
    <2> QED
      BY <2>1, <2>3 DEF ByPoll, Asked
  <1>4. SUFFICES ASSUME Usable' PROVE nextId' <= ByMain' + ByPoll'
    BY Zenon DEF Few
  <1>5. /\ nextId' = nextId /\ nextId <= ByMain + ByPoll
        /\ ByMain' >= ByMain /\ ByPoll' >= ByPoll
    BY Zenon, <1>4 DEF Few
  <1> QED
    BY Zenon, <1>1, <1>2, <1>3, <1>5, Sums

\* Discover does not go back to an earlier stage, pollAEN keeps its request.
LEMMA MainGoesOn ==
  ASSUME op'["main"] = op["main"],
         pc'["main"] \in {"dial", "next", "send"} => pc["main"] \in {"dial", "next", "send"}
  PROVE  ByMain' >= ByMain
  BY DEF ByMain, Stage

\* And pollAEN is not undone.
LEMMA PollGoesOn ==
  ASSUME PlaceType, UNCHANGED <<srv, event, events>>,
         pc["poll"] # "off" => pc'["poll"] # "off"
  PROVE  ByPoll' >= ByPoll
  <1>1. events - event \in Nat
    BY TcpClientAssumption DEF PlaceType
  <1> QED
    BY <1>1 DEF ByPoll, Asked

\* What the steps below start from.
Ready == QueueType /\ PlaceType /\ PcType /\ Fresh /\ Alone /\ Numbers

\* A step that leaves the queue alone, and what it must not do.
Walks ==
    /\ UNCHANGED <<nextId, id, out, hold, down>>
    /\ (srv' = srv /\ (conn = "open" => conn' = "open")) \/ srv' = {}
    /\ Usable' => Usable /\ ByMain' >= ByMain /\ ByPoll' >= ByPoll
    /\ pc'["ka"] \in {"off", "tick", "send", "wait", "close", "closed", "done"}
    /\ pc["ka"] \in {"wait", "close", "closed", "done"} => pc'["ka"] \in {"wait", "close", "closed", "done"}
    /\ \A a \in {"main", "poll"} : pc'[a] = "send" => pc[a] = "send"
    /\ pc'["main"] = "dial" => pc["main"] = "dial" /\ UNCHANGED conn
    /\ pc'["main"] \in {"table", "return", "running"} =>
           pc["main"] \in {"table", "return", "running"} /\ op'["main"] = op["main"]

\* Such a step keeps what holds of the ids.
LEMMA Walking ==
  ASSUME Ready, PlaceType', Walks
  PROVE  Numbers'
  <1>1. Ids'
    BY Zenon, SameIds DEF Ready, Numbers, Walks
  <1>2. OneKeepAlive'
    BY Zenon, SameKeepAlive DEF Ready, Numbers, Walks
  <1>3. Few'
    BY Zenon, MoreAllowed DEF Ready, Numbers, Walks
  <1>4. Flight'
    BY Zenon, SameFlight DEF Ready, Numbers, Walks
  <1> QED
    BY Zenon, <1>1, <1>2, <1>3, <1>4 DEF Numbers

\* Nothing moves but recvPdu or handleChannel.
LEMMA Standing ==
  ASSUME Ready, PlaceType',
         UNCHANGED <<nextId, id, op, pc, out, hold, down, srv, conn, event, events>>
  PROVE  Numbers'
  <1>1. ByMain' >= ByMain
    BY Zenon, MainGoesOn
  <1>2. ByPoll' >= ByPoll
    BY Zenon, PollGoesOn DEF Ready
  <1>3. Walks
    BY Zenon, <1>1, <1>2 DEF Walks, Ready, Numbers, Ids, Usable
  <1> QED
    BY Zenon, <1>3, Walking

\* nextCmdID: only one goroutine at a time counts.
LEMMA ReadsCounterNumbers ==
  ASSUME Ready, PlaceType', NEW a \in Actor, ReadsCounter(a)
  PROVE  Numbers'
  <1>1. pc[a] = "next" /\ a \in {"main", "poll"}
    BY Zenon, Senders DEF ReadsCounter, Ready, Numbers, Ids
  <1>2. LooksUp(a) => tcpQ
    BY Zenon, <1>1 DEF LooksUp, Reading, Alone, Roles, Ready
  <1>3. /\ id' = [id EXCEPT ![a] = nextId] /\ Goto(a, "send")
        /\ UNCHANGED <<nextId, out, op, hold, conn, srv, down, event, events>>
    BY Zenon, <1>2 DEF ReadsCounter, queue, receiver, network
  <1>4. /\ pc'[a] = "send" /\ \A b \in Actor \ {a} : pc'[b] = pc[b]
        /\ id'[a] = nextId /\ \A b \in Actor \ {a} : id'[b] = id[b]
    BY Zenon, <1>3 DEF Goto, PcType, QueueType, Ready
  <1>5. Ids'
    BY Zenon, <1>1, <1>3, <1>4 DEF Ids, Ready, Numbers, Usable, Actor, NoRequest
  <1>6. OneKeepAlive'
    BY Zenon, <1>1, <1>3, <1>4, SameKeepAlive DEF Ready, Numbers, Actor
  <1>7. Flight'
    BY Zenon, <1>3, SameFlight DEF Ready, Numbers
  <1>8. ByMain' >= ByMain
    <2>1. /\ op'["main"] = op["main"]
          /\ pc'["main"] \in {"dial", "next", "send"} => pc["main"] \in {"dial", "next", "send"}
      BY Zenon, <1>1, <1>3, <1>4 DEF Actor
    <2> QED
      BY Zenon, <2>1, MainGoesOn
  <1>9. ByPoll' >= ByPoll
    BY Zenon, <1>1, <1>3, <1>4, PollGoesOn DEF Ready, Actor
  <1>10. Few'
    BY Zenon, <1>3, <1>8, <1>9, MoreAllowed DEF Ready, Numbers, Usable
  <1> QED
    BY Zenon, <1>5, <1>6, <1>7, <1>10 DEF Numbers

\* A goroutine gives up.
LEMMA TimesOutNumbers ==
  ASSUME Ready, PlaceType', NEW a \in Actor, TimesOut(a)
  PROVE  Numbers'
  <1>1. pc[a] = "wait" /\ a \in {"main", "ka"}
    BY Zenon, Senders DEF TimesOut, Ready
  <1>2. /\ pc'[a] = OnError(a) /\ \A b \in Actor \ {a} : pc'[b] = pc[b]
    BY Zenon DEF TimesOut, Goto, Ready, PcType
  <1>3. UNCHANGED <<nextId, id, op, out, hold, down, srv, conn, event, events>>
    BY Zenon DEF TimesOut, queue, receiver, network
  <1>4. a = "ka" => OnError(a) = "close"
    BY Zenon DEF OnError
  <1>5. a = "main" => OnError(a) \in {"fail", "cancel"}
    BY Zenon DEF OnError
  <1>6. ByMain' >= ByMain
    BY Zenon, <1>1, <1>2, <1>3, <1>5, MainGoesOn DEF Actor
  <1>7. ByPoll' >= ByPoll
    BY Zenon, <1>1, <1>2, <1>3, PollGoesOn DEF Ready, Actor
  <1>8. Walks
    BY Zenon, <1>1, <1>2, <1>3, <1>4, <1>5, <1>6, <1>7
       DEF Walks, Ready, Numbers, Ids, Usable, Actor
  <1> QED
    BY Zenon, <1>8, Walking

\* Discover and pollAEN use up an id: there are enough.
LEMMA CountsUp ==
  ASSUME IdSpace > MaxEvent + 5, Ready, NEW a \in {"main", "poll"}, pc[a] = "send", conn = "open",
         \A r \in srv : out[r.id].op = r.op
  PROVE  /\ id[a] = nextId /\ Counter(a) = nextId + 1
         /\ a = "main" => ByMain = Stage /\ pc["poll"] = "off"
         /\ a = "poll" => ByMain = 4 /\ Asked = 0 /\ pc["main"] \in {"return", "running"}
  <1>1. id[a] = nextId /\ nextId <= ByMain + ByPoll
    BY Zenon DEF Ready, Numbers, Ids, Few, Usable
  <1>2. nextId \in Nat
    BY TcpClientAssumption DEF Ready, QueueType, Id
  <1>3. events - event \in 0..MaxEvent /\ Stage \in 1..4
    BY Zenon, Sizes DEF Ready
  <1>4. CASE a = "main"
    <2>1. pc["poll"] = "off"
      BY Zenon, <1>4 DEF Ready, Alone, Roles
    <2>2. ByMain = Stage /\ ByPoll = 0
      BY Zenon, <1>4, <2>1 DEF ByMain, ByPoll
    <2>3. Counter(a) = nextId + 1
      BY <1>1, <1>2, <1>3, <1>4, <2>2, TcpClientAssumption DEF Counter
    <2> QED
      BY Zenon, <1>1, <1>4, <2>1, <2>2, <2>3
  <1>5. CASE a = "poll"
    <2>1. pc["main"] \in {"return", "running"} /\ op["main"] = "log"
      BY Zenon, <1>5 DEF Ready, Alone, Roles, Numbers, Ids
    <2>2. ASSUME NEW r \in srv, r.op = "aer" PROVE FALSE
      <3>1. r.id \in Id /\ out[r.id].op = "aer"
        BY Zenon, <2>2 DEF Ready, QueueType
      <3>2. out[r.id] # NoRequest
        BY <3>1 DEF NoRequest
      <3>3. Awaits(out[r.id])
        BY Zenon, <3>1, <3>2 DEF Ready, Alone, Requests
      <3> QED
        BY <1>5, <3>1, <3>3 DEF Awaits
    <2>3. Asked = 0
      BY Zenon, <2>2 DEF Asked
    <2>4. ByMain = 4
      BY <2>1 DEF ByMain, Stage
    <2>5. ByPoll = events - event
      BY <1>3, <1>5, <2>3 DEF ByPoll
    <2>6. Counter(a) = nextId + 1
      BY <1>1, <1>2, <1>3, <1>5, <2>4, <2>5, TcpClientAssumption DEF Counter
    <2> QED
      BY Zenon, <1>1, <1>5, <2>1, <2>3, <2>4, <2>6
  <1> QED
    BY Zenon, <1>4, <1>5

\* A request that arrives: its id was free.
LEMMA ArrivesNumbers ==
  ASSUME IdSpace > MaxEvent + 5, Ready, PlaceType', NEW a \in Actor, Sends(a), Arrives(a),
         Goto(a, "wait")
  PROVE  Numbers'
  <1> DEFINE i0 == id[a]
             new == [by |-> a, op |-> op[a]]
  <1>1. pc[a] = "send" /\ a \in {"main", "poll", "ka"} /\ conn = "open"
    BY Zenon, Senders DEF Sends, Arrives, Ready
  <1>2. i0 \in Id /\ out[i0] = NoRequest
    BY Zenon, <1>1, FreeId DEF Ready
  <1>3. /\ out' = [out EXCEPT ![i0] = new] /\ srv' = srv \cup {[id |-> i0, op |-> op[a]]}
        /\ nextId' = Counter(a) /\ id' = [id EXCEPT ![a] = 0]
        /\ UNCHANGED <<op, hold, down, conn, event, events>>
    BY Zenon DEF Sends, Arrives, receiver
  <1>4. /\ pc'[a] = "wait" /\ \A b \in Actor \ {a} : pc'[b] = pc[b]
        /\ id'[a] = 0 /\ \A b \in Actor \ {a} : id'[b] = id[b]
    BY Zenon, <1>3, TcpClientAssumption DEF Goto, PcType, QueueType, Ready
  <1>5. out'[i0] = new /\ \A i \in Id \ {i0} : out'[i] = out[i]
    BY Zenon, <1>2, <1>3 DEF QueueType, Ready
  <1>6. nextId \in Nat /\ nextId >= 1 /\ \A i \in Id : i >= nextId => out[i] = NoRequest
    BY <1>1, TcpClientAssumption DEF QueueType, Id, Ready, Numbers, Ids, Usable
  <1>7. a # "ka" => /\ a \in {"main", "poll"} /\ i0 = nextId /\ nextId' = nextId + 1
                    /\ a = "main" => ByMain = Stage /\ pc["poll"] = "off"
                    /\ a = "poll" => ByMain = 4 /\ Asked = 0 /\ pc["main"] \in {"return", "running"}
    BY Zenon, <1>1, <1>3, CountsUp DEF Ready, Numbers, Flight
  <1>8. a = "ka" => /\ i0 = 0 /\ nextId' = nextId /\ hold.by # "ka"
                    /\ pc["main"] \in {"return", "running"}
    BY Zenon, <1>1, <1>3 DEF Counter, Ready, Numbers, Ids, OneKeepAlive, Alone, Roles
  <1>9. 0 \in Id /\ (a # "ka" => i0 # 0)
    BY <1>6, <1>7, TcpClientAssumption DEF Id
  <1>10. Ids'
    <2>1. pc'["ka"] \in {"off", "tick", "send", "wait", "close", "closed", "done"} /\ id'["ka"] = 0
      BY Zenon, <1>1, <1>4 DEF Ready, Numbers, Ids, Actor
    <2>2. out'[0].by \in {"nobody", "ka"}
      BY <1>5, <1>7, <1>8, <1>9 DEF Ready, Numbers, Ids
    <2>3. \A i \in Id : out'[i].by = "ka" => i = 0
      BY <1>5, <1>8 DEF Ready, Numbers, Ids
    <2>4. /\ pc'["main"] = "dial" => conn' = "none"
          /\ pc'["main"] \in {"table", "return", "running"} => op'["main"] = "log"
      BY Zenon, <1>1, <1>3, <1>4 DEF Ready, Numbers, Ids, Actor
    <2>5. nextId' >= 1 /\ \A i \in Id : i >= nextId' => out'[i] = NoRequest
      <3>1. CASE a = "ka"
        BY <1>5, <1>6, <1>8, <3>1 DEF Id
      <3>2. CASE a # "ka"
        BY <1>5, <1>6, <1>7, <3>2, TcpClientAssumption DEF Id
      <3> QED
        BY Zenon, <3>1, <3>2
    <2>6. \A b \in {"main", "poll"} : pc'[b] = "send" => id'[b] = nextId'
      BY Zenon, <1>1, <1>4, <1>7, <1>8 DEF Ready, Numbers, Ids, Usable, Actor
    <2> QED
      BY Zenon, <2>1, <2>2, <2>3, <2>4, <2>5, <2>6 DEF Ids, NoRequest
  <1>11. OneKeepAlive'
    <2>1. CASE a = "ka"
      BY Zenon, <1>3, <1>4, <1>8, <2>1 DEF OneKeepAlive
    <2>2. CASE a # "ka"
      BY ZenonT(30), <1>1, <1>3, <1>4, <1>5, <1>9, <2>2 DEF OneKeepAlive, Ready, Numbers, Actor
    <2> QED
      BY Zenon, <2>1, <2>2
  <1>12. Few'
    <2>1. nextId <= ByMain + ByPoll /\ events - event \in 0..MaxEvent /\ Stage \in 1..4
      BY Zenon, <1>1, Sizes DEF Ready, Numbers, Few, Usable
    <2>2. Stage' = Stage /\ events' - event' = events - event
      BY Zenon, <1>3 DEF Stage
    <2>3. CASE a = "main"
      <3>1. ByMain' = Stage + 1 /\ ByPoll' = 0
        BY Zenon, <1>4, <1>7, <2>2, <2>3 DEF ByMain, ByPoll, Actor
      <3>2. ByPoll = 0
        BY Zenon, <1>7, <2>3 DEF ByPoll
      <3> QED
        BY <1>6, <1>7, <2>1, <2>3, <3>1, <3>2 DEF Few
    <2>4. CASE a = "poll"
      <3>1. ByMain' = 4
        BY <1>4, <1>7, <2>2, <2>4 DEF ByMain, Actor
      <3>2. Asked' = 1
        <4>1. op[a] = "aer"
          BY Zenon, <2>4 DEF Ready, Alone, Roles
        <4>2. PICK r \in srv' : r = [id |-> i0, op |-> op[a]]
          BY Zenon, <1>3
        <4>3. r.op = "aer"
          BY <4>1, <4>2
        <4> QED
          BY Zenon, <4>3 DEF Asked
      <3>3. ByPoll = events - event
        BY <1>1, <1>7, <2>1, <2>4 DEF ByPoll
      <3>4. ByPoll' = events - event + 1
        BY <1>4, <2>2, <2>4, <3>2 DEF ByPoll
      <3> QED
        BY <1>6, <1>7, <2>1, <2>4, <3>1, <3>3, <3>4 DEF Few
    <2>5. CASE a = "ka"
      <3>1. ByMain' = ByMain
        BY Zenon, <1>4, <2>2, <2>5 DEF ByMain, Actor
      <3>2. Asked' = Asked
        BY <1>3, <2>5 DEF Asked, Ready, Alone, Roles
      <3>3. ByPoll' = ByPoll
        BY Zenon, <1>4, <2>2, <2>5, <3>2 DEF ByPoll, Actor
      <3> QED
        BY Zenon, <1>8, <2>1, <2>5, <3>1, <3>3 DEF Few
    <2> QED
      BY Zenon, <1>1, <2>3, <2>4, <2>5
  <1>13. Flight'
    <2>1. \A r \in srv : r.id \in Id \ {i0} /\ out'[r.id].op = r.op
      <3>1. \A r \in srv : r.id \in Id /\ r.op \in Op /\ out[r.id].op = r.op
        BY Zenon DEF Ready, QueueType, Numbers, Flight
      <3>2. out[i0].op \notin Op
        BY <1>2 DEF NoRequest, Op
      <3> QED
        BY Zenon, <1>5, <3>1, <3>2
    <2>2. \A k \in 1..Len(down) : down[k] \in Id \ {i0} /\ out'[down[k]] # NoRequest
      <3>1. \A k \in 1..Len(down) : down[k] \in Id
        BY DEF Ready, QueueType
      <3> QED
        BY Zenon, <1>2, <1>5, <3>1 DEF Ready, Numbers, Flight
    <2>3. \A r \in srv' : r \in srv \/ (r.id = i0 /\ r.op = op[a])
      BY <1>3
    <2>4. \A r \in srv' : out'[r.id].op = r.op
      BY <1>5, <2>1, <2>3
    <2>5. \A r \in srv' : \A k \in 1..Len(down) : r.id # down[k]
      BY Zenon, <2>1, <2>2, <2>3 DEF Ready, Numbers, Flight
    <2>6. conn' = "open" /\ \A k, l \in 1..Len(down) : down[k] = down[l] => k = l
      BY Zenon, <1>1, <1>3 DEF Ready, Numbers, Flight
    <2>7. down' = down
      BY Zenon, <1>3
    <2> QED
      BY Zenon, <2>2, <2>4, <2>5, <2>6, <2>7 DEF Flight, NoRequest
  <1> QED
    BY Zenon, <1>10, <1>11, <1>12, <1>13 DEF Numbers

\* A request that does not arrive leaves no entry, and the connection is lost.
LEMMA SendsNumbers ==
  ASSUME IdSpace > MaxEvent + 5, Ready, PlaceType', NEW a \in Actor, Sends(a)
  PROVE  Numbers'
  <1>1. pc[a] = "send" /\ a \in {"main", "poll", "ka"}
    BY Zenon, Senders DEF Sends, Ready
  <1>2. CASE Arrives(a) /\ Goto(a, "wait")
    BY Zenon, <1>2, ArrivesNumbers
  <1>3. CASE ~(Arrives(a) /\ Goto(a, "wait"))
    <2>1. PICK l \in {"wait", OnError(a)} : Goto(a, l)
      BY Zenon DEF Sends
    <2>2. /\ UNCHANGED <<out, op, hold, down>> /\ id' = [id EXCEPT ![a] = 0]
          /\ conn' \in {"lost", "closed"}
          /\ (srv' = srv /\ conn' = conn) \/ srv' = {}
      BY Zenon, <1>3 DEF Sends, Vanishes, receiver
    <2>3. /\ pc'[a] = l /\ \A b \in Actor \ {a} : pc'[b] = pc[b]
          /\ \A b \in Actor : id'[b] \in {0, id[b]}
      BY Zenon, <2>1, <2>2 DEF Goto, PcType, QueueType, Ready
    <2>4. /\ a = "ka" => l \in {"wait", "close"}
          /\ a = "main" => l \in {"wait", "fail", "cancel"}
      BY Zenon DEF OnError
    <2>5. Ids'
      <3>1. pc'["ka"] \in {"off", "tick", "send", "wait", "close", "closed", "done"} /\ id'["ka"] = 0
        BY Zenon, <1>1, <2>3, <2>4 DEF Ids, Ready, Numbers, Actor
      <3>2. pc'["main"] # "dial"
        BY Zenon, <1>1, <2>3, <2>4 DEF Ready, Fresh, Actor
      <3>3. pc'["main"] \in {"table", "return", "running"} => op'["main"] = "log"
        BY Zenon, <1>1, <2>2, <2>3, <2>4 DEF Ids, Ready, Numbers, Actor
      <3> QED
        BY Zenon, <2>2, <3>1, <3>2, <3>3 DEF Ids, Ready, Numbers, Usable
    <2>6. OneKeepAlive'
      BY Zenon, <1>1, <2>2, <2>3, <2>4, SameKeepAlive DEF Ready, Numbers, Actor
    <2>7. Flight'
      BY Zenon, <2>2, SameFlight DEF Ready, Numbers
    <2>8. Few'
      BY Zenon, <2>2 DEF Few, Usable
    <2> QED
      BY Zenon, <2>5, <2>6, <2>7, <2>8 DEF Numbers
  <1> QED
    BY Zenon, <1>2, <1>3

\* The goroutine goes on to the next stage.
LEMMA HandsOverNumbers ==
  ASSUME Ready, PlaceType', NEW a \in Actor, HandsOver(a)
  PROVE  Numbers'
  <1>1. recv = "hand" /\ pc[a] = "wait" /\ Channel(a)
    BY Zenon DEF HandsOver
  <1>2. a \in {"main", "poll", "ka"} /\ hold = [by |-> a, op |-> op[a]]
    BY Zenon, <1>1, TakenBySender DEF Ready
  <1>3. op[a] \in {"identify", "log"} => ~NoData(hold)
    BY Zenon, <1>2 DEF NoData
  <1>4. /\ Advances(a) /\ hold' = NoRequest
        /\ UNCHANGED <<nextId, out, id, conn, srv, down, event, events>>
    BY Zenon, <1>3 DEF HandsOver, queue, network
  <1>5. PICK l : /\ Goto(a, l)
                 /\ a = "main" => l = CASE op[a] = "log" -> "table" [] op[a] = "cc" -> "cancel"
                                        [] OTHER -> "next"
                 /\ a = "poll" => l = "hold"
                 /\ a = "ka" => l = "tick"
    BY <1>2, <1>4 DEF Advances, NextOp, Ready, Alone, Roles
  <1>6. pc'[a] = l /\ \A b \in Actor \ {a} : pc'[b] = pc[b]
    BY Zenon, <1>5 DEF Goto, PcType, Ready
  <1>7. /\ a # "main" => op'["main"] = op["main"]
        /\ a = "main" /\ op["main"] = "connect" => op'["main"] = "identify"
        /\ a = "main" /\ op["main"] = "identify" => op'["main"] = "log"
        /\ a = "main" /\ op["main"] \in {"log", "cc"} => op'["main"] = op["main"]
    BY <1>2, <1>4 DEF Advances, NextOp, Ready, Alone, Roles, QueueType, Actor
  <1>8. op["main"] \in {"connect", "identify", "log", "cc"}
    BY Zenon DEF Ready, Alone, Roles
  <1>9. ByMain' >= ByMain
    <2>1. CASE a = "main"
      BY <1>1, <1>5, <1>6, <1>7, <1>8, <2>1 DEF ByMain, Stage
    <2>2. CASE a # "main"
      BY Zenon, <1>6, <1>7, <2>2, MainGoesOn DEF Actor
    <2> QED
      BY Zenon, <2>1, <2>2
  <1>10. ByPoll' >= ByPoll
    BY Zenon, <1>2, <1>4, <1>5, <1>6, PollGoesOn DEF Ready, Actor
  <1>11. Few'
    BY Zenon, <1>4, <1>9, <1>10, MoreAllowed DEF Ready, Numbers, Usable
  <1>12. Flight'
    BY Zenon, <1>4, SameFlight DEF Ready, Numbers
  <1>13. OneKeepAlive'
    <2>1. hold'.by # "ka" /\ (a = "ka" => out[0].by # "ka")
      BY <1>2, <1>4 DEF NoRequest, Ready, Numbers, OneKeepAlive
    <2> QED
      BY Zenon, <1>2, <1>4, <1>5, <1>6, <2>1 DEF OneKeepAlive, Ready, Numbers, Actor
  <1>14. Ids'
    <2>1. /\ a = "main" => l \in {"next", "table", "cancel"}
          /\ a = "main" /\ l = "table" => op["main"] = "log"
      BY Zenon, <1>5
    <2> QED
      BY Zenon, <1>2, <1>4, <1>5, <1>6, <1>7, <2>1
         DEF Ids, Ready, Numbers, Usable, Actor, NoRequest
  <1> QED
    BY Zenon, <1>11, <1>12, <1>13, <1>14 DEF Numbers

\* recvPdu finds the request of every answer in the table.
LEMMA ReceivesNumbers ==
  ASSUME Ready, PlaceType', Receives
  PROVE  Numbers'
  <1> DEFINE i0 == down[1]
  <1>1. down \in Seq(Id) /\ down # <<>> /\ Head(down) = i0 /\ down' = Tail(down)
    BY DEF Receives, Ready, QueueType
  <1>2. i0 \in Id /\ 1 \in 1..Len(down)
    BY <1>1
  <1>3. /\ out' = [out EXCEPT ![i0] = NoRequest] /\ hold' = out[i0]
        /\ UNCHANGED <<nextId, id, op, pc, srv, conn, event, events>>
    BY Zenon, <1>1 DEF Receives, actors
  <1>4. out'[i0] = NoRequest /\ \A i \in Id \ {i0} : out'[i] = out[i]
    BY Zenon, <1>2, <1>3 DEF QueueType, Ready
  <1>5. NoRequest.by = "nobody"
    BY DEF NoRequest
  <1>6. Ids'
    <2>1. 0 \in Id
      BY TcpClientAssumption DEF Id
    <2>2. \A i \in Id : out'[i] \in {out[i], NoRequest}
      BY Zenon, <1>4
    <2>3. out'[0].by \in {"nobody", "ka"} /\ \A i \in Id : out'[i].by = "ka" => i = 0
      BY <1>5, <2>1, <2>2 DEF Ready, Numbers, Ids
    <2>4. Usable => \A i \in Id : i >= nextId => out'[i] = NoRequest
      BY Zenon, <2>2 DEF Ready, Numbers, Ids
    <2> QED
      BY Zenon, <1>3, <2>3, <2>4 DEF Ids, Ready, Numbers, Usable, NoRequest
  <1>7. OneKeepAlive'
    <2>1. 0 \in Id
      BY TcpClientAssumption DEF Id
    <2>2. CASE i0 = 0
      <3>1. out'[0].by = "nobody" /\ hold' = out[0] /\ pc' = pc
        BY Zenon, <1>3, <1>4, <1>5, <2>2
      <3> QED
        BY Zenon, <3>1 DEF OneKeepAlive, Ready, Numbers
    <2>3. CASE i0 # 0
      <3>1. out'[0] = out[0] /\ hold'.by # "ka" /\ pc' = pc
        BY Zenon, <1>2, <1>3, <1>4, <2>1, <2>3 DEF Ready, Numbers, Ids
      <3> QED
        BY Zenon, <3>1 DEF OneKeepAlive, Ready, Numbers
    <2> QED
      BY Zenon, <2>2, <2>3
  <1>8. Few'
    <2>1. ByMain' >= ByMain
      BY Zenon, <1>3, MainGoesOn
    <2>2. ByPoll' >= ByPoll
      BY Zenon, <1>3, PollGoesOn DEF Ready
    <2> QED
      BY Zenon, <1>3, <2>1, <2>2, MoreAllowed DEF Ready, Numbers, Usable
  <1>9. Flight'
    <2>1. \A r \in srv : out'[r.id].op = r.op
      <3>1. \A r \in srv : r.id \in Id /\ out[r.id].op = r.op
        BY Zenon DEF Ready, QueueType, Numbers, Flight
      <3>2. \A r \in srv : r.id # i0
        BY Zenon, <1>2 DEF Ready, Numbers, Flight
      <3> QED
        BY Zenon, <1>4, <3>1, <3>2
    <2>2. \A k \in 1..Len(down') : down'[k] = down[k + 1] /\ k + 1 \in 1..Len(down) /\ k + 1 # 1
      BY <1>1
    <2>3. ASSUME NEW k \in 1..Len(down') PROVE out'[down'[k]] # NoRequest
      <3>1. down[k + 1] \in Id /\ down[k + 1] # i0 /\ out[down[k + 1]] # NoRequest
        <4>1. down[k + 1] \in Id
          BY <1>1, <2>2
        <4> QED
          BY Zenon, <1>2, <2>2, <4>1 DEF Ready, Numbers, Flight
      <3> QED
        BY Zenon, <1>4, <2>2, <3>1
    <2>4. ASSUME NEW k \in 1..Len(down'), NEW l \in 1..Len(down'), down'[k] = down'[l] PROVE k = l
      <3>1. \A m, n \in 1..Len(down) : down[m] = down[n] => m = n
        BY Zenon DEF Ready, Numbers, Flight
      <3>2. k + 1 = l + 1
        BY <2>2, <2>4, <3>1
      <3> QED
        BY <3>2
    <2>5. \A r \in srv : \A k \in 1..Len(down') : r.id # down'[k]
      <3>1. \A r \in srv : \A m \in 1..Len(down) : r.id # down[m]
        BY Zenon DEF Ready, Numbers, Flight
      <3> QED
        BY <2>2, <3>1
    <2> QED
      BY Zenon, <1>3, <2>1, <2>3, <2>4, <2>5 DEF Flight, Ready, Numbers, NoRequest
  <1> QED
    BY Zenon, <1>6, <1>7, <1>8, <1>9 DEF Numbers

\* pollAEN gives away an event; keepAlive sends the next request, or ends.
LEMMA PollNumbers ==
  ASSUME Ready, PlaceType', Poll
  PROVE  Numbers'
  <1>1. PollDelivers
    BY Zenon DEF Poll, PollEnds, Ready, Alone, Roles
  <1>2. pc'["poll"] = "next" /\ \A b \in Actor \ {"poll"} : pc'[b] = pc[b]
    BY Zenon, <1>1 DEF PollDelivers, Goto, PcType, Actor, Ready
  <1>3. UNCHANGED <<nextId, id, op, out, hold, down, srv, conn, event, events>>
    BY Zenon, <1>1 DEF PollDelivers, queue, receiver, network
  <1>4. ByMain' >= ByMain
    BY Zenon, <1>2, <1>3, MainGoesOn DEF Actor
  <1>5. ByPoll' >= ByPoll
    BY Zenon, <1>2, <1>3, PollGoesOn DEF Ready
  <1>6. Walks
    BY Zenon, <1>2, <1>3, <1>4, <1>5 DEF Walks, Ready, Numbers, Ids, Usable, Actor
  <1> QED
    BY Zenon, <1>6, Walking

\* keepAlive sends no request before it has the answer to the last one.
LEMMA KeepAliveNumbers ==
  ASSUME Ready, PlaceType', KeepAlive
  PROVE  Numbers'
  <1>1. PICK l \in {"send", "closed", "done"} :
             Goto("ka", l) /\ (l = "send" => pc["ka"] = "tick") /\ pc["ka"] # "off"
    BY Zenon DEF KeepAlive, KeepAliveTicks, KeepAliveCloses, KeepAliveEnds
  <1>2. pc'["ka"] = l /\ \A b \in Actor \ {"ka"} : pc'[b] = pc[b]
    BY Zenon, <1>1 DEF Goto, PcType, Actor, Ready
  <1>3. /\ UNCHANGED <<nextId, id, op, out, hold, down, event, events>>
        /\ (srv' = srv /\ conn' = conn) \/ (srv' = {} /\ conn' = "closed")
    <2>1. CASE KeepAliveTicks
      BY Zenon, <2>1 DEF KeepAliveTicks, queue, receiver, network
    <2>2. CASE KeepAliveCloses
      BY Zenon, <2>2 DEF KeepAliveCloses, queue, receiver
    <2>3. CASE KeepAliveEnds
      BY Zenon, <2>3 DEF KeepAliveEnds, queue, receiver, network
    <2> QED
      BY Zenon, <2>1, <2>2, <2>3 DEF KeepAlive
  <1>4. pc["main"] # "dial"
    BY Zenon, <1>1 DEF Ready, Fresh
  <1>5. ByMain' >= ByMain
    BY Zenon, <1>2, <1>3, MainGoesOn DEF Actor
  <1>6. Usable' => Usable /\ ByPoll' >= ByPoll
    BY Zenon, <1>2, <1>3, PollGoesOn DEF Ready, Usable, Actor
  <1>7. Walks
    BY Zenon, <1>1, <1>2, <1>3, <1>4, <1>5, <1>6 DEF Walks, Actor
  <1> QED
    BY Zenon, <1>7, Walking

\* Discover, and the Stop it ends with.
LEMMA MainNumbers ==
  ASSUME Ready, PlaceType', Main
  PROVE  Numbers'
  <1> USE DEF queue, receiver, network
  <1>1. UNCHANGED <<nextId, id, out, hold, down, srv, event, events>>
    BY Zenon DEF Main, Dials, Fails, Spawns, Returns, Panic, actors
  <1>2. CASE Dials
    <2>1. /\ pc["main"] = "dial" /\ pc'["poll"] = pc["poll"] /\ pc'["ka"] = pc["ka"]
          /\ pc'["main"] \in {"fail", "next"} /\ UNCHANGED op /\ conn' \in {conn, "open"}
      BY Zenon, <1>2 DEF Dials, Goto, PcType, Actor, Ready
    <2>2. conn = "none"
      BY Zenon, <2>1 DEF Ready, Numbers, Ids
    <2>3. ByMain' >= ByMain
      BY Zenon, <2>1, MainGoesOn
    <2>4. ByPoll' >= ByPoll
      BY Zenon, <1>1, <2>1, PollGoesOn DEF Ready
    <2>5. Walks
      BY Zenon, <1>1, <2>1, <2>2, <2>3, <2>4 DEF Walks, Ready, Numbers, Ids, Usable
    <2> QED
      BY Zenon, <2>5, Walking
  <1>3. CASE Fails
    <2>1. /\ pc'["poll"] = pc["poll"] /\ pc'["ka"] = pc["ka"]
          /\ pc'["main"] = "failed" /\ UNCHANGED <<op, conn>>
      BY Zenon, <1>3 DEF Fails, Disarmed, PcType, Actor, Ready
    <2>2. ByMain' >= ByMain
      BY Zenon, <2>1, MainGoesOn
    <2>3. ByPoll' >= ByPoll
      BY Zenon, <1>1, <2>1, PollGoesOn DEF Ready
    <2>4. Walks
      BY Zenon, <1>1, <2>1, <2>2, <2>3 DEF Walks, Ready, Numbers, Ids, Usable
    <2> QED
      BY Zenon, <2>4, Walking
  <1>4. CASE Spawns
    <2>1. pc["main"] = "table" /\ tcpQ
      BY Zenon, <1>4 DEF Spawns, Alone, Roles, Ready
    <2>2. /\ pc' = [pc EXCEPT !["main"] = "return",
                              !["poll"] = IF kato THEN "next" ELSE @,
                              !["ka"] = IF kato THEN "tick" ELSE @]
          /\ UNCHANGED <<op, conn>>
      BY Zenon, <1>4, <2>1 DEF Spawns
    <2>3. /\ pc'["main"] = "return" /\ pc'["poll"] \in {pc["poll"], "next"}
          /\ pc'["ka"] \in {pc["ka"], "tick"} /\ pc["ka"] = "off"
      BY Zenon, <2>1, <2>2 DEF PcType, Actor, Ready, Alone, Roles
    <2>4. ByMain' >= ByMain
      BY Zenon, <2>2, <2>3, MainGoesOn
    <2>5. ByPoll' >= ByPoll
      BY Zenon, <1>1, <2>3, PollGoesOn DEF Ready
    <2>6. Walks
      BY Zenon, <1>1, <2>1, <2>2, <2>3, <2>4, <2>5 DEF Walks, Usable
    <2> QED
      BY Zenon, <2>6, Walking
  <1>5. CASE Returns
    <2>1. pc["main"] = "return" /\ tcpQ /\ op["main"] = "log"
      BY Zenon, <1>5 DEF Returns, Alone, Roles, Ready, Numbers, Ids
    <2>2. /\ pc'["poll"] = pc["poll"] /\ pc'["ka"] = pc["ka"] /\ UNCHANGED conn
          /\ pc'["main"] = IF kato THEN "running" ELSE "next"
          /\ kato => UNCHANGED op
          /\ ~kato => op' = [op EXCEPT !["main"] = "cc"]
      BY Zenon, <1>5, <2>1 DEF Returns, StopFrom, Disarmed, PcType, Actor, Ready
    <2>3. op'["main"] = IF kato THEN "log" ELSE "cc"
      BY Zenon, <2>1, <2>2 DEF QueueType, Actor, Ready
    <2>4. ByMain' >= ByMain
      BY <2>1, <2>2, <2>3 DEF ByMain, Stage
    <2>5. ByPoll' >= ByPoll
      BY Zenon, <1>1, <2>2, PollGoesOn DEF Ready
    <2>6. Walks
      BY Zenon, <1>1, <2>1, <2>2, <2>3, <2>4, <2>5 DEF Walks, Ready, Numbers, Ids, Usable
    <2> QED
      BY Zenon, <2>6, Walking
  <1> QED
    BY Zenon, <1>2, <1>3, <1>4, <1>5 DEF Main

\* The Stop of a client without a keep-alive timeout.
LEMMA StopsNumbers ==
  ASSUME Ready, PlaceType', NEW a \in Stopper, Stops(a)
  PROVE  Numbers'
  <1> USE DEF queue, receiver, network
  <1>1. a = "main" /\ pc["main"] \in {"cancel", "destroy", "clear", "wg"}
    BY Zenon DEF Stops, StopCancels, StopDestroys, StopClears, StopCloses, Alone, Roles, Stopper,
                 Ready
  <1>2. pc["poll"] = "off" /\ ~aenClosed
    BY Zenon, <1>1 DEF Alone, Roles, Ready
  <1>3. PICK l \in {"destroy", "clear", "wg", "done"} : Goto("main", l)
    BY Zenon, <1>1, <1>2 DEF Stops, StopCancels, StopDestroys, StopClears, StopCloses
  <1>4. /\ UNCHANGED <<nextId, id, op, out, hold, down, event, events>>
        /\ (srv' = srv /\ conn' = conn) \/ (srv' = {} /\ conn' = "closed")
    <2>1. CASE StopCancels(a) \/ StopClears(a) \/ StopCloses(a)
      BY Zenon, <1>2, <2>1 DEF StopCancels, StopClears, StopCloses
    <2>2. CASE StopDestroys(a)
      BY Zenon, <2>2 DEF StopDestroys
    <2> QED
      BY Zenon, <2>1, <2>2 DEF Stops
  <1>5. pc'["main"] = l /\ \A b \in Actor \ {"main"} : pc'[b] = pc[b]
    BY Zenon, <1>3 DEF Goto, PcType, Actor, Ready
  <1>6. ByMain' >= ByMain
    BY Zenon, <1>4, <1>5, MainGoesOn
  <1>7. Usable' => Usable /\ ByPoll' >= ByPoll
    BY Zenon, <1>2, <1>4, PollGoesOn DEF Ready, Usable
  <1>8. Walks
    BY Zenon, <1>4, <1>5, <1>6, <1>7 DEF Walks, Ready, Numbers, Ids, Actor
  <1> QED
    BY Zenon, <1>8, Walking

\* The controller answers a request: its id is on its way once.
LEMMA AnswersNumbers ==
  ASSUME Ready, PlaceType', Answers
  PROVE  Numbers'
  <1>1. PICK r \in srv : /\ r.op = "aer" => event > 0
                         /\ event' = IF r.op = "aer" THEN event - 1 ELSE event
                         /\ srv' = srv \ {r} /\ down' = Append(down, r.id)
    BY Zenon DEF Answers
  <1>2. conn = "open" /\ UNCHANGED <<nextId, id, op, pc, out, hold, conn, events>>
    BY Zenon DEF Answers, queue, actors, receiver
  <1>3. Ids'
    BY Zenon, <1>2 DEF Ids, Ready, Numbers, Usable, NoRequest
  <1>4. OneKeepAlive'
    BY Zenon, <1>2, SameKeepAlive DEF Ready, Numbers
  <1>5. ByMain' >= ByMain
    BY Zenon, <1>2, MainGoesOn
  <1>6. ByPoll' >= ByPoll
    <2>1. events \in Nat /\ event \in Nat /\ events - event \in Nat
      BY TcpClientAssumption DEF PlaceType, Ready
    <2>2. CASE r.op = "aer"
      <3>1. events' - event' = (events - event) + 1
        BY <1>1, <1>2, <2>1, <2>2
      <3>2. Asked \in 0..1 /\ Asked' \in 0..1
        BY DEF Asked
      <3> QED
        BY <1>2, <2>1, <3>1, <3>2 DEF ByPoll
    <2>3. CASE r.op # "aer"
      <3>1. events' - event' = events - event
        BY Zenon, <1>1, <1>2, <2>3
      <3>2. Asked' = Asked
        BY Zenon, <1>1, <2>3 DEF Asked
      <3>3. ByPoll' = ByPoll /\ ByPoll \in Nat
        BY <1>2, <2>1, <3>1, <3>2 DEF ByPoll, Asked
      <3> QED
        BY <3>3
    <2> QED
      BY Zenon, <2>2, <2>3
  <1>7. Few'
    BY Zenon, <1>2, <1>5, <1>6, MoreAllowed DEF Ready, Numbers, Usable
  <1>8. Flight'
    <2>1. r.id \in Id /\ r.op \in Op /\ out[r.id].op = r.op
      BY Zenon, <1>1 DEF Ready, QueueType, Numbers, Flight
    <2>2. out[r.id] # NoRequest
      BY <2>1 DEF NoRequest, Op
    <2>3. down \in Seq(Id)
      BY Zenon DEF Ready, QueueType
    <2>4. /\ \A k \in 1..Len(down') : \/ k \in 1..Len(down) /\ down'[k] = down[k]
                                      \/ k = Len(down) + 1 /\ down'[k] = r.id
      BY <1>1, <2>1, <2>3
    <2>5. \A k \in 1..Len(down) : out[down[k]] # NoRequest /\ down[k] # r.id
      BY Zenon, <1>1 DEF Ready, Numbers, Flight
    <2>6. \A k \in 1..Len(down') : out'[down'[k]] # NoRequest
      BY Zenon, <1>2, <2>2, <2>4, <2>5
    <2>7. \A k, l \in 1..Len(down') : down'[k] = down'[l] => k = l
      BY Zenon, <2>4, <2>5 DEF Ready, Numbers, Flight
    <2>8. \A q \in srv' : q \in srv /\ q.id # r.id
      <3>1. \A q \in srv : q \in [id : Id, op : Op] /\ out[q.id].op = q.op
        BY Zenon DEF Ready, QueueType, Numbers, Flight
      <3>2. \A q \in srv : q.id = r.id => q = r
        BY <1>1, <3>1
      <3> QED
        BY Zenon, <1>1, <3>2
    <2>9. \A q \in srv' : \A k \in 1..Len(down') : q.id # down'[k]
      BY Zenon, <2>4, <2>8 DEF Ready, Numbers, Flight
    <2> QED
      BY Zenon, <1>2, <2>6, <2>7, <2>8, <2>9 DEF Flight, Ready, Numbers, NoRequest
  <1> QED
    BY Zenon, <1>3, <1>4, <1>7, <1>8 DEF Numbers

\* Events, and the loss of the connection.
LEMMA NetworkNumbers ==
  ASSUME Ready, PlaceType', Event \/ Breaks
  PROVE  Numbers'
  <1>1. UNCHANGED <<nextId, id, op, pc, out, hold, down>>
    BY Zenon DEF Event, Breaks, queue, actors, receiver
  <1>2. ByMain' >= ByMain
    BY Zenon, <1>1, MainGoesOn
  <1>3. CASE Event
    <2>1. UNCHANGED <<srv, conn>> /\ events' = events + 1 /\ event' = event + 1
      BY Zenon, <1>3 DEF Event
    <2>2. events \in Nat /\ event \in Nat /\ events - event \in Nat
      BY TcpClientAssumption DEF PlaceType, Ready
    <2>3. events' - event' = events - event
      BY <2>1, <2>2
    <2>4. ByPoll' >= ByPoll
      BY <1>1, <2>1, <2>2, <2>3 DEF ByPoll, Asked
    <2>5. Walks
      BY Zenon, <1>1, <1>2, <2>1, <2>4 DEF Walks, Ready, Numbers, Ids, Usable
    <2> QED
      BY Zenon, <2>5, Walking
  <1>4. CASE Breaks
    <2>1. conn = "open" /\ conn' = "lost" /\ srv' = {}
      BY Zenon, <1>4 DEF Breaks
    <2>2. pc["main"] # "dial"
      BY Zenon, <2>1 DEF Ready, Numbers, Ids
    <2>3. Walks
      BY Zenon, <1>1, <2>1, <2>2 DEF Walks, Ready, Numbers, Ids, Usable
    <2> QED
      BY Zenon, <2>3, Walking
  <1> QED
    BY Zenon, <1>3, <1>4

\* Only who sends and recvPdu touch the table.
LEMMA OthersKeepTable ==
  ASSUME Next, ~Receives, ~\E a \in Actor : Sends(a) /\ Arrives(a)
  PROVE  UNCHANGED out
  <1> USE DEF queue
  <1> QED
    BY Zenon DEF Next, Commands, ReadsCounter, Sends, Vanishes, TimesOut, HandsOver, Panic, Stops,
           StopCancels, StopDestroys, StopClears, StopCloses, Receiver, ReceiverLoops,
           ReadFails, WaiterEnds, Poll, PollEnds, PollDelivers, KeepAlive,
           KeepAliveTicks, KeepAliveCloses, KeepAliveEnds, Handler, HandlerStarts, HandlerLoops,
           HandlerSeesClosed, HandlerReports, Main, Dials, Fails, Spawns, Returns,
           Disconnects, TimerFires, Answers, Event, Breaks

\* Every step of a session.
LEMMA NextCounting ==
  ASSUME IdSpace > MaxEvent + 5, QueueType, PlaceType, PcType, Fresh, Session, Counting,
         [Next]_vars
  PROVE  Counting'
  <1>1. UNCHANGED mayStop /\ PlaceType'
    BY Zenon, NobodyElseStops, PlaceStep
  <1> SUFFICES ASSUME mayStop = {} PROVE Numbers'
    BY Zenon, <1>1 DEF Counting
  <1>2. Ready
    BY Zenon DEF Ready, Session, Counting
  <1>3. CASE \E a \in Actor : Commands(a)
    BY Zenon, <1>1, <1>2, <1>3, ReadsCounterNumbers, SendsNumbers, TimesOutNumbers,
       HandsOverNumbers DEF Commands
  <1>4. CASE Receiver \/ Handler \/ UNCHANGED vars
    <2>1. CASE Receives
      BY Zenon, <1>1, <1>2, <2>1, ReceivesNumbers
    <2>2. CASE ~Receives
      <3>1. UNCHANGED <<nextId, id, op, pc, out, hold, down, srv, conn, event, events>>
        BY Zenon, <1>4, <2>2 DEF Receiver, ReceiverLoops, ReadFails, WaiterEnds, Handler,
           HandlerStarts, HandlerLoops, HandlerSeesClosed, HandlerReports, vars, queue,
           actors, receiver, network
      <3> QED
        BY Zenon, <1>1, <1>2, <3>1, Standing
    <2> QED
      BY Zenon, <2>1, <2>2
  <1>5. ~Disconnects /\ ~TimerFires
    BY Zenon DEF Disconnects, TimerFires
  <1> QED
    BY Zenon, <1>1, <1>2, <1>3, <1>4, <1>5, StopsNumbers, PollNumbers, KeepAliveNumbers,
       MainNumbers, AnswersNumbers, NetworkNumbers DEF Next, Stopper

\* What holds of the ids holds throughout.
THEOREM CountingInvariance ==
  ASSUME IdSpace > MaxEvent + 5
  PROVE  Spec => []Counting
  <1>1. IInv /\ QueueType /\ PlaceType /\ Session /\ Counting /\ [Next]_vars => Counting'
    BY Zenon, NextCounting DEF IInv
  <1>2. QueueType /\ PlaceType /\ [Next]_vars => QueueType' /\ PlaceType'
    BY Zenon, QueueStep, PlaceStep
  <1>3. Init => Counting /\ QueueType /\ PlaceType
    BY Zenon, InitNumbers, InitTyped DEF Counting
  <1> QED
    BY <1>1, <1>2, <1>3, Invariance, SessionInvariance, PTL DEF Spec

\* While the ids of a session do not wrap around, every request the controller
\* has is the one in the table under its id, every answer on its way finds a
\* request, and the goroutine that sent it takes it.
THEOREM AnswersReachTheirSender ==
  ASSUME IdSpace > MaxEvent + 5
  PROVE  Spec => []RepliesReachSender
  <1>1. Session /\ Counting => RepliesReachSender
    BY Zenon DEF Session, Alone, Counting, Numbers, Flight, RepliesReachSender
  <1> QED
    BY <1>1, SessionInvariance, CountingInvariance, PTL

\* No entry of the table is replaced by another: a command gets an id under
\* which no request is outstanding, although nextCmdID never looks.
EntriesStay ==
    mayStop = {} => \A i \in Id : out'[i] # out[i] => NoRequest \in {out[i], out'[i]}

\* While the ids of a session do not wrap around, nextCmdID gives every command
\* an id under which the table has no request.
THEOREM IdsAreNotReused ==
  ASSUME IdSpace > MaxEvent + 5
  PROVE  Spec => [][EntriesStay]_vars
  <1>1. IInv /\ QueueType /\ PlaceType /\ Session /\ Counting /\ [Next]_vars => [EntriesStay]_vars
    <2> SUFFICES ASSUME QueueType, Alone, Numbers, Next, mayStop = {}, NEW i \in Id,
                        out'[i] # out[i]
                 PROVE  NoRequest \in {out[i], out'[i]}
      BY Zenon DEF EntriesStay, Session, Counting
    <2>1. CASE Receives
      BY Zenon, <2>1 DEF Receives, QueueType
    <2>2. CASE \E a \in Actor : Sends(a) /\ Arrives(a)
      <3>1. PICK a \in Actor : Sends(a) /\ Arrives(a)
        BY Zenon, <2>2
      <3>2. out[id[a]] = NoRequest
        BY Zenon, <3>1, FreeId DEF Sends, Arrives
      <3> QED
        BY Zenon, <3>1, <3>2 DEF Arrives, QueueType
    <2>3. CASE ~Receives /\ ~\E a \in Actor : Sends(a) /\ Arrives(a)
      <3>1. UNCHANGED out
        BY Zenon, <2>3, OthersKeepTable
      <3> QED
        BY Zenon, <3>1
    <2> QED
      BY Zenon, <2>1, <2>2, <2>3
  <1>2. QueueType /\ PlaceType /\ [Next]_vars => QueueType' /\ PlaceType'
    BY Zenon, QueueStep, PlaceStep
  <1>3. Init => QueueType /\ PlaceType
    BY Zenon, InitTyped
  <1> QED
    BY <1>1, <1>2, <1>3, Invariance, SessionInvariance, CountingInvariance, PTL DEF Spec
============================================================================

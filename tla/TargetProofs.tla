---------------------------- MODULE TargetProofs ----------------------------
(***************************************************************************)
(* For every set of commands, every limit and every number of commands and *)
(* events, of module Target: the pending requests are bounded and refused  *)
(* only at the bound, a controller that is ready is enabled, no command is *)
(* lost or answered twice, and events answer the requests in their order.  *)
(***************************************************************************)
EXTENDS Target, SequenceTheorems, TLAPS

\* The lock of the controller is the receiver's only while it refuses a
\* request, and nobody else changes the pending requests meanwhile.
LockHeld ==
    /\ lock = "recv" => recv = "send" /\ Len(pending) = Limit
    /\ io = "connect" => recv = "off"
Shape == n \in Nat /\ pending \in Seq(Nat) /\ Len(pending) <= Limit
PInv == Shape /\ LockHeld

\* What the registers of the controller are.
RInv ==
    /\ cc \in Config /\ ReadyIsEnabled
    /\ ctrl # "live" => csts = {} /\ ka \notin {"timer", "write"}

----------------------------------------------------------------------------
(* The pending requests *)

\* Nothing is pending at first.
LEMMA InitPending == Init => PInv
BY TargetAssumption DEF Init, PInv, Shape, LockHeld, queue

\* The commands, but for the registration of requests, leave the pending
\* requests and the lock alone.
LEMMA ExecutePending ==
    ASSUME PInv,
           Unparsed \/ Refused \/ RefusesConnect \/ Outline \/ Connect \/ Answers \/ SetsConfig
    PROVE  PInv'
<1>1. UNCHANGED <<n, pending, lock, io>> /\ recv = "exec"
  BY Zenon DEF Unparsed, Refused, RefusesConnect, Outline, Connect, Answers, SetsConfig, Completes,
         Executing, queue
<1>2. lock # "recv"
  BY Zenon, <1>1 DEF PInv, LockHeld, queue
<1> QED
  BY Zenon, <1>1, <1>2 DEF PInv, Shape, LockHeld, queue

\* A request is registered below the limit only.
LEMMA RegisterPending ==
    ASSUME PInv, Registers
    PROVE  PInv'
<1>1. CASE Len(pending) >= Limit /\ lock' = "recv" /\ Completes("limit", "read")
           /\ UNCHANGED pending
  BY <1>1, TargetAssumption DEF PInv, Shape, LockHeld, queue, Completes, Registers, Executing
<1>2. CASE Len(pending) < Limit /\ pending' = Append(pending, n) /\ UNCHANGED <<n, lock>>
  <2>1. pending' \in Seq(Nat) /\ Len(pending') = Len(pending) + 1
    BY <1>2 DEF PInv, Shape
  <2> QED
    BY <1>2, <2>1, TargetAssumption DEF PInv, Shape, LockHeld, queue, Registers, Executing
<1> QED
  BY Zenon, <1>1, <1>2 DEF Registers

\* The handler of events takes requests out while it has the lock.
LEMMA AenPending ==
    ASSUME PInv, Aen
    PROVE  PInv'
<1>1. CASE AenPops
  <2>1. CASE pending = <<>> /\ UNCHANGED <<pending, lock>>
    BY Zenon, <1>1, <2>1 DEF AenPops, PInv, Shape, LockHeld, queue, receiver
  <2>2. CASE pending # <<>> /\ lock' = "aenh" /\ pending' = Tail(pending)
    <3>1. pending' \in Seq(Nat) /\ Len(pending') = Len(pending) - 1 /\ Len(pending) \in Nat
      BY <2>2 DEF PInv, Shape
    <3> QED
      BY <1>1, <2>2, <3>1, TargetAssumption DEF AenPops, PInv, Shape, LockHeld, queue, receiver
  <2> QED
    BY Zenon, <1>1, <2>1, <2>2 DEF AenPops
<1>2. CASE AenTakesEvent \/ AenEnds
  BY Zenon, <1>2 DEF AenTakesEvent, AenEnds, PInv, Shape, LockHeld, queue, receiver
<1>3. CASE AenSends
  BY Zenon, <1>3 DEF AenSends, PInv, Shape, LockHeld, queue, receiver
<1> QED
  BY Zenon, <1>1, <1>2, <1>3 DEF Aen

\* The other goroutines do not touch the pending requests.
LEMMA OtherPending ==
    ASSUME PInv,
           \/ Io \/ Poll \/ (\E c \in AllCommands : Reads(c)) \/ ReadFails \/ RecvSends
           \/ Notifies \/ KeepAlive \/ WatchStops \/ Server \/ Loses
    PROVE  PInv'
<1>1. CASE Io \/ Poll \/ Notifies \/ KeepAlive \/ WatchStops \/ Loses
  BY Zenon, <1>1 DEF Io, Connects, IoEnds, Poll, PollWrites, PollEnds, Notifies, KeepAlive, KaFires,
              KaWrites, KaSignals, WatchStops, Loses, receiver, PInv, Shape, LockHeld, queue
<1>2. CASE \E c \in AllCommands : Reads(c)
  BY <1>2 DEF Reads, PInv, Shape, LockHeld, queue
<1>3. CASE ReadFails \/ RecvSends
  BY SMTT(30), <1>3 DEF ReadFails, RecvSends, PInv, Shape, LockHeld, queue
<1>4. CASE Closes \/ StopsWatch \/ Cancels
  BY Zenon, <1>4 DEF Closes, StopsWatch, Cancels, receiver, PInv, Shape, LockHeld, queue
<1>5. CASE Deletes
  <2>1. pending' \in Seq(Nat) /\ Len(pending') <= Limit
    BY <1>5, TargetAssumption DEF Deletes
  <2> QED
    BY Zenon, <1>5, <2>1 DEF Deletes, receiver, PInv, Shape, LockHeld, queue
<1> QED
  BY Zenon, <1>1, <1>2, <1>3, <1>4, <1>5 DEF Server

\* The bound of registerAsyncEventRequest, and its refusals, whatever the
\* receiver, the handler of events and destroy do at the same time.
THEOREM PendingIsBounded == Spec => []PendingBounded
<1>1. PInv /\ [Next]_vars => PInv'
  <2> SUFFICES ASSUME PInv, [Next]_vars PROVE PInv'
    OBVIOUS
  <2>1. CASE UNCHANGED vars
    BY Zenon, <2>1 DEF vars, receiver, PInv, Shape, LockHeld, queue
  <2>2. CASE Next
    BY Zenon, <2>2, ExecutePending, RegisterPending, AenPending, OtherPending DEF Next, Executes
  <2> QED
    BY Zenon, <2>1, <2>2
<1>2. PInv => PendingBounded
  BY Zenon DEF PInv, Shape, LockHeld, queue, PendingBounded
<1> QED
  BY InitPending, <1>1, <1>2, PTL DEF Spec

----------------------------------------------------------------------------
(* The registers *)

\* updateControllerConfiguration keeps a controller that is ready enabled.
LEMMA UpdateRegisters ==
    ASSUME RInv, NEW v \in Config,
           cc' = Updated(cc, csts, v).cc, csts' = Updated(cc, csts, v).csts,
           ctrl = "live", UNCHANGED ctrl, ka \in {"signal", "done"} => ka' = ka
    PROVE  RInv'
<1>1. cc' \in Config
  BY ZenonT(60) DEF RInv, Updated, Start, Clear, Zero, Config
<1>2. ReadyIsEnabled'
  BY ZenonT(60) DEF RInv, ReadyIsEnabled, Updated, Start, Clear, Zero, Config
<1> QED
  BY Zenon, <1>1, <1>2 DEF RInv

\* A step that leaves the registers alone.
LEMMA SameRegisters ==
    ASSUME RInv, UNCHANGED <<cc, csts, ctrl>>,
           ka' = ka \/ ka' \in {"signal", "done"} \/ (ka = "timer" /\ ka' = "write")
    PROVE  RInv'
BY Zenon DEF RInv, ReadyIsEnabled

\* Four steps write the registers, or make and delete them.
LEMMA RegistersStep ==
    ASSUME RInv, Next
    PROVE  RInv'
<1>1. CASE SetsConfig
  <2>1. PICK v \in Config : /\ cc' = Updated(cc, csts, v).cc
                            /\ csts' = Updated(cc, csts, v).csts
    BY Zenon, <1>1 DEF SetsConfig
  <2>2. ctrl = "live" /\ UNCHANGED ctrl /\ (ka \in {"signal", "done"} => ka' = ka)
    BY Zenon, <1>1 DEF SetsConfig, Executing, Parses
  <2> QED
    BY Zenon, <2>1, <2>2, UpdateRegisters
<1>2. CASE KaWrites
  BY Zenon, <1>2 DEF KaWrites, RInv, ReadyIsEnabled
<1>6. CASE Connect
  BY Zenon, <1>6 DEF Connect, Executing, Parses, Fabrics, Admin, RInv, ReadyIsEnabled
<1>7. CASE Deletes
  BY Zenon, <1>7 DEF Deletes, RInv, ReadyIsEnabled, Zero, Config
<1>3. CASE Io \/ Poll \/ (\E c \in AllCommands : Reads(c)) \/ ReadFails \/ RecvSends
  <2>1. UNCHANGED <<config, ka>>
    BY Zenon, <1>3 DEF Io, Connects, IoEnds, Poll, PollWrites, PollEnds, Reads, ReadFails,
                RecvSends, handlers
  <2> QED
    BY Zenon, <2>1, SameRegisters DEF config
<1>4. CASE Unparsed \/ Refused \/ RefusesConnect \/ Outline \/ Answers \/ Registers
  <2>1. UNCHANGED <<cc, csts, ctrl, ka>>
    BY Zenon, <1>4 DEF Unparsed, Refused, RefusesConnect, Outline, Answers, Registers, config,
                       handlers, Executing
  <2> QED
    BY Zenon, <2>1, SameRegisters
<1>5. CASE \/ Notifies \/ Aen \/ KaFires \/ KaSignals \/ WatchStops
           \/ Closes \/ StopsWatch \/ Cancels \/ Loses
  <2>1. /\ UNCHANGED <<cc, csts, ctrl>>
        /\ ka' = ka \/ ka' \in {"signal", "done"} \/ (ka = "timer" /\ ka' = "write")
    BY Zenon, <1>5 DEF Notifies, Aen, AenTakesEvent, AenPops, AenSends, AenEnds, KaFires, KaSignals,
                WatchStops, Closes, StopsWatch, Cancels, Loses, config, handlers
  <2> QED
    BY Zenon, <2>1, SameRegisters
<1> QED
  BY Zenon, <1>1, <1>2, <1>3, <1>4, <1>5, <1>6, <1>7 DEF Next, Executes, KeepAlive, Server

\* A controller that is ready is enabled and not shut down until its keep-alive
\* expires.  From then on keepAliveHandler, racing updateControllerConfiguration,
\* may have brought back a RDY that was cleared, and only together with CFS.
THEOREM ReadyMeansEnabled == Spec => []ReadyIsEnabled
<1>1. Init => RInv
  BY DEF Init, RInv, ReadyIsEnabled, Config, Zero
<1>2. RInv /\ [Next]_vars => RInv'
  <2> SUFFICES ASSUME RInv, [Next]_vars PROVE RInv'
    OBVIOUS
  <2>1. CASE UNCHANGED vars
    BY Zenon, <2>1, SameRegisters DEF vars, config, handlers
  <2> QED
    BY Zenon, <2>1, RegistersStep
<1>3. RInv => ReadyIsEnabled
  BY Zenon DEF RInv
<1> QED
  BY <1>1, <1>2, <1>3, PTL DEF Spec

----------------------------------------------------------------------------
(* Where the commands are.  Every command has at most one place, and one   *)
(* while the connection is served; events go to requests in their order.   *)

Response == [id : Nat, st : Status \cup {"none"}]

\* What the variables are.
TInv ==
    /\ n \in Nat /\ after \in {"read", "err", "done"}
    /\ answered \in Seq(Response) /\ pending \in Seq(Nat)
    /\ hold \in Response /\ aenHold \in Response /\ polled \in Response

\* Who holds an answer, and where the receiver is.
HInv ==
    /\ recv = "send" => hold.id = n /\ hold.st # "event"
    /\ recv # "send" => hold = None
    /\ recv \in {"exec", "send"} => n # 0
    /\ recv = "off" => n = 0
    /\ io = "connect" => recv = "off" /\ poll = "off"
    /\ aenh # "send" => aenHold = None
    /\ aenh \in {"select", "lock", "send"} => ctrl = "live"
    /\ aenh = "send" => aenHold.id # 0
    /\ poll # "write" => polled = None
    /\ poll = "write" => polled.id # 0

\* Every command that has a place was read.
BInv ==
    /\ aenHold.id <= n /\ polled.id <= n
    /\ \A k \in 1..Len(answered) : answered[k].id \in 1..n
    /\ \A k \in 1..Len(pending) : pending[k] \in 1..n

Busy == recv \in {"exec", "send"}

\* No two places have the same command.
DInv ==
    /\ \A k, l \in 1..Len(answered) : answered[k].id = answered[l].id => k = l
    /\ \A k \in 1..Len(answered) :
          /\ \A l \in 1..Len(pending) : answered[k].id # pending[l]
          /\ answered[k].id # aenHold.id /\ answered[k].id # polled.id
          /\ Busy => answered[k].id # n
    /\ \A l \in 1..Len(pending) :
          /\ pending[l] # aenHold.id /\ pending[l] # polled.id
          /\ Busy => pending[l] # n
    /\ aenHold.id # 0 => aenHold.id # polled.id /\ (Busy => aenHold.id # n)
    /\ polled.id # 0 /\ Busy => polled.id # n

\* Every command has a place.
CInv ==
    conn = "open" /\ recv \in {"read", "exec", "send"} =>
        \A i \in 1..n :
            \/ \E k \in 1..Len(answered) : answered[k].id = i
            \/ \E k \in 1..Len(pending) : pending[k] = i
            \/ i \in {hold.id, aenHold.id, polled.id}
            \/ recv = "exec" /\ i = n

\* Requests that got an event came before those that have yet to get one.
EInv ==
    /\ \A k, l \in 1..Len(pending) : k < l => pending[k] < pending[l]
    /\ \A k, l \in 1..Len(answered) :
          k < l /\ Event(answered[k]) /\ Event(answered[l]) => answered[k].id < answered[l].id
    /\ \A k \in 1..Len(answered) : Event(answered[k]) =>
          /\ \A l \in 1..Len(pending) : answered[k].id < pending[l]
          /\ Event(polled) => answered[k].id < polled.id
          /\ Event(aenHold) => answered[k].id < aenHold.id
    /\ Event(polled) =>
          /\ \A l \in 1..Len(pending) : polled.id < pending[l]
          /\ Event(aenHold) => polled.id < aenHold.id
    /\ Event(aenHold) => \A l \in 1..Len(pending) : aenHold.id < pending[l]

WInv == TInv /\ HInv /\ BInv /\ DInv /\ CInv /\ EInv

\* destroy closes the connection before anything else.
SInv == dst # "wait" => conn = "closed"

\* The places hold numbers.
LEMMA PlacesTyped ==
    ASSUME TInv
    PROVE  /\ n \in Nat /\ Len(answered) \in Nat /\ Len(pending) \in Nat
           /\ hold.id \in Nat /\ aenHold.id \in Nat /\ polled.id \in Nat
           /\ \A k \in 1..Len(answered) : answered[k].id \in Nat
           /\ \A k \in 1..Len(pending) : pending[k] \in Nat
<1>1. n \in Nat /\ Len(answered) \in Nat /\ Len(pending) \in Nat
  BY DEF TInv
<1>2. hold.id \in Nat /\ aenHold.id \in Nat /\ polled.id \in Nat
  BY Zenon DEF TInv, Response
<1>3. \A k \in 1..Len(answered) : answered[k].id \in Nat
  <2>1. \A k \in 1..Len(answered) : answered[k] \in Response
    BY DEF TInv
  <2> QED
    BY Zenon, <2>1 DEF Response
<1>4. \A k \in 1..Len(pending) : pending[k] \in Nat
  BY DEF TInv
<1> QED
  BY Zenon, <1>1, <1>2, <1>3, <1>4

\* The response that is none.
LEMMA NoneTyped == None \in Response /\ None.id = 0 /\ None.st # "event"
BY Zenon DEF None, Response, Status

\* Nothing is anywhere at first.
LEMMA InitPlaces == Init => WInv
<1> SUFFICES ASSUME Init PROVE WInv
  OBVIOUS
<1>1. /\ n = 0 /\ answered = <<>> /\ pending = <<>> /\ after = "read" /\ recv = "off"
      /\ hold = None /\ aenHold = None /\ polled = None
      /\ aenh = "off" /\ poll = "off"
  BY Zenon DEF Init
<1>2. TInv
  BY <1>1, NoneTyped DEF TInv
<1>3. HInv
  BY Zenon, <1>1 DEF HInv
<1>4. 1..Len(answered) = {} /\ 1..Len(pending) = {} /\ 1..n = {}
  BY <1>1
<1>5. BInv
  BY <1>1, <1>4, NoneTyped DEF BInv
<1>6. DInv
  BY Zenon, <1>1, <1>4, NoneTyped DEF DInv
<1>7. CInv
  BY <1>4, Zenon DEF CInv
<1>8. EInv
  BY Zenon, <1>1, <1>4, NoneTyped DEF EInv, Event
<1> QED
  BY Zenon, <1>2, <1>3, <1>5, <1>6, <1>7, <1>8 DEF WInv

\* Steps that leave the places alone keep what is said of them.
LEMMA SameTypes ==
    ASSUME TInv, UNCHANGED <<n, after, answered, pending, hold, aenHold, polled>>
    PROVE  TInv'
BY Zenon DEF TInv

\* Every place still has a command that was read.
LEMMA SameBounds ==
    ASSUME BInv, UNCHANGED <<n, answered, pending, aenHold, polled>>
    PROVE  BInv'
BY Zenon DEF BInv

\* No two places have the same one.
LEMMA SameDiffer ==
    ASSUME DInv, UNCHANGED <<n, answered, pending, aenHold, polled>>, Busy' => Busy
    PROVE  DInv'
BY Zenon DEF DInv

\* The order of the events stays.
LEMMA SameOrder ==
    ASSUME EInv, UNCHANGED <<answered, pending, aenHold, polled>>
    PROVE  EInv'
BY Zenon DEF EInv, Event

\* Steps that move no command: the receiver may end, and the connection.
Quiet ==
    /\ UNCHANGED <<answered, pending, hold, aenHold, polled, n, after>>
    /\ io' = io \/ io' # "connect"
    /\ aenh' = aenh \/ (aenh = "select" /\ aenh' \in {"lock", "done"})
    /\ ctrl' = ctrl \/ aenh' \in {"off", "done"}
    /\ poll' = poll \/ (poll = "range" /\ poll' = "done")
    /\ recv' = recv \/ (recv \in {"read", "err"} /\ recv' \in {"err", "done"})
    /\ conn' = conn \/ conn' # "open"

\* They keep all places.
LEMMA QuietPlaces == ASSUME WInv, Quiet PROVE WInv'
<1>1. TInv' /\ BInv' /\ EInv'
  BY Zenon, SameTypes, SameBounds, SameOrder DEF WInv, Quiet
<1>2. HInv'
  BY Zenon DEF WInv, HInv, Quiet
<1>3. DInv'
  BY Zenon, SameDiffer DEF WInv, Quiet, Busy
<1>4. CInv'
  BY Zenon DEF WInv, CInv, Quiet
<1> QED
  BY Zenon, <1>1, <1>2, <1>3, <1>4 DEF WInv

\* Most steps are quiet.
LEMMA QuietSteps ==
    ASSUME WInv,
           \/ IoEnds \/ PollEnds \/ ReadFails \/ Notifies \/ AenTakesEvent \/ AenEnds
           \/ KeepAlive \/ WatchStops \/ Closes \/ StopsWatch \/ Cancels \/ Loses
           \/ UNCHANGED vars
    PROVE  WInv'
<1>1. CASE IoEnds \/ PollEnds \/ ReadFails \/ Notifies \/ AenTakesEvent \/ AenEnds
  <2>1. Quiet
    BY Zenon, <1>1 DEF IoEnds, PollEnds, ReadFails, Notifies, AenTakesEvent, AenEnds, Quiet, queue,
                sender, receiver, handlers, config
  <2> QED
    BY Zenon, <2>1, QuietPlaces
<1>2. CASE KeepAlive \/ WatchStops \/ Loses \/ UNCHANGED vars
  <2>1. Quiet
    BY Zenon, <1>2 DEF KeepAlive, KaFires, KaWrites, KaSignals, WatchStops, Loses, vars, Quiet,
                       queue, sender, receiver, handlers, config
  <2> QED
    BY Zenon, <2>1, QuietPlaces
<1>3. CASE Closes \/ StopsWatch \/ Cancels
  <2>1. Quiet
    BY Zenon, <1>3 DEF Closes, StopsWatch, Cancels, Quiet, queue, sender, receiver, handlers, config
  <2> QED
    BY Zenon, <2>1, QuietPlaces
<1> QED
  BY Zenon, <1>1, <1>2, <1>3

\* With the controller the requests go that were pending.
LEMMA DeletesPlaces == ASSUME WInv, SInv, Deletes PROVE WInv'
<1>1. /\ pending' = <<>> /\ aenh = "done" /\ conn' # "open"
      /\ UNCHANGED <<n, answered, hold, aenHold, polled, after, recv, io, poll, aenh>>
  BY Zenon DEF Deletes, SInv, queue, sender, receiver
<1>2. pending' \in Seq(Nat) /\ 1..Len(pending') = {}
  BY <1>1
<1>3. TInv'
  BY Zenon, <1>1, <1>2 DEF WInv, TInv
<1>4. HInv'
  BY Zenon, <1>1 DEF WInv, HInv
<1>5. BInv'
  BY Zenon, <1>1, <1>2 DEF WInv, BInv
<1>6. DInv'
  BY Zenon, <1>1, <1>2 DEF WInv, DInv, Busy
<1>7. CInv'
  BY Zenon, <1>1 DEF CInv
<1>8. EInv'
  BY Zenon, <1>1, <1>2 DEF WInv, EInv, Event
<1> QED
  BY Zenon, <1>3, <1>4, <1>5, <1>6, <1>7, <1>8 DEF WInv

\* The connection stays closed.
LEMMA ClosedStep == SInv /\ [Next]_vars => SInv'
<1> SUFFICES ASSUME SInv, [Next]_vars PROVE SInv'
  OBVIOUS
<1>1. (UNCHANGED <<conn, dst>>) \/ conn' = "closed" \/ (conn = "open" /\ UNCHANGED dst)
      \/ (dst # "wait" /\ UNCHANGED conn)
  <2>1. CASE Io \/ Poll \/ (\E c \in AllCommands : Reads(c)) \/ ReadFails \/ RecvSends
    BY Zenon, <2>1 DEF Io, Connects, IoEnds, Poll, PollWrites, PollEnds, Reads, ReadFails,
                RecvSends, queue
  <2>2. CASE Executes
    BY Zenon, <2>2 DEF Executes, Unparsed, Refused, RefusesConnect, Outline, Connect, Answers,
                SetsConfig, Registers, queue
  <2>3. CASE Notifies \/ Aen \/ KeepAlive \/ WatchStops \/ Loses \/ UNCHANGED vars
    BY Zenon, <2>3 DEF Notifies, Aen, AenTakesEvent, AenPops, AenSends, AenEnds, KeepAlive, KaFires,
                KaWrites, KaSignals, WatchStops, Loses, vars, queue
  <2>4. CASE Server
    BY Zenon, <2>4 DEF Server, Closes, StopsWatch, Cancels, Deletes, queue
  <2> QED
    BY Zenon, <2>1, <2>2, <2>3, <2>4 DEF Next
<1> QED
  BY Zenon, <1>1 DEF SInv

\* The connection is made before the first command.
LEMMA ConnectsPlaces == ASSUME WInv, Connects PROVE WInv'
<1>1. /\ recv = "off" /\ n = 0 /\ recv' \in {"off", "read"} /\ polled = None
      /\ poll' \in {"off", "range"} /\ io' # "connect"
      /\ UNCHANGED <<n, answered, pending, hold, aenHold, polled, after, aenh, ctrl>>
  BY Zenon DEF WInv, HInv, Connects, handlers, config
<1>2. TInv' /\ BInv' /\ EInv'
  BY Zenon, <1>1, SameTypes, SameBounds, SameOrder DEF WInv
<1>3. HInv'
  BY Zenon, <1>1 DEF WInv, HInv
<1>4. DInv'
  BY Zenon, <1>1, SameDiffer DEF WInv, Busy
<1>5. CInv'
  <2>1. 1..n' = {}
    BY <1>1
  <2> QED
    BY Zenon, <2>1 DEF CInv
<1> QED
  BY Zenon, <1>2, <1>3, <1>4, <1>5 DEF WInv

\* A command that is read is new.
LEMMA ReadsPlaces == ASSUME WInv, NEW c \in AllCommands, Reads(c) PROVE WInv'
<1>1. /\ n' = n + 1 /\ recv = "read" /\ recv' = "exec"
      /\ UNCHANGED <<answered, pending, hold, aenHold, polled, after, io, aenh, poll, ctrl, conn>>
  BY Zenon DEF Reads, queue, sender, handlers, config
<1>2. /\ n \in Nat /\ aenHold.id \in Nat /\ polled.id \in Nat
      /\ n' \in Nat /\ n' # 0 /\ \A i \in 1..n : i \in 1..n' /\ i # n'
      /\ \A i \in Nat : i <= n => i <= n' /\ i # n'
      /\ \A i \in 1..n' : i \in 1..n \/ i = n'
  BY <1>1, PlacesTyped DEF WInv
<1>3. TInv'
  BY Zenon, <1>1, <1>2 DEF WInv, TInv
<1>4. HInv'
  BY Zenon, <1>1, <1>2 DEF WInv, HInv
<1>5. BInv'
  BY Zenon, <1>1, <1>2 DEF WInv, BInv
<1>6. DInv'
  <2>1. /\ \A k \in 1..Len(answered) : answered[k].id # n'
        /\ \A k \in 1..Len(pending) : pending[k] # n'
        /\ aenHold.id # n' /\ polled.id # n'
    BY Zenon, <1>2 DEF WInv, BInv
  <2> QED
    BY Zenon, <1>1, <2>1 DEF WInv, DInv, Busy
<1>7. CInv'
  BY Zenon, <1>1, <1>2 DEF WInv, CInv
<1>8. EInv'
  BY Zenon, <1>1, SameOrder DEF WInv
<1> QED
  BY Zenon, <1>3, <1>4, <1>5, <1>6, <1>7, <1>8 DEF WInv

\* The receiver completes its command.
LEMMA CompletesPlaces ==
    ASSUME WInv, recv = "exec", NEW st \in {"ok", "error", "limit"},
           NEW l \in {"read", "err", "done"}, Completes(st, l),
           UNCHANGED <<answered, pending, aenHold, polled, io, poll, conn>>,
           UNCHANGED <<aenh, ctrl>> \/ (aenh # "send" /\ aenh' = "select" /\ ctrl' = "live")
    PROVE  WInv'
<1>1. /\ recv' = "send" /\ hold' = [id |-> n, st |-> st] /\ n' = n /\ after' = l
      /\ hold = None /\ n \in Nat
  BY Zenon DEF WInv, TInv, HInv, Completes
<1>2. hold' \in Response /\ hold'.id = n /\ hold'.st # "event"
  BY Zenon, <1>1 DEF Response, Status
<1>3. TInv'
  BY Zenon, <1>1, <1>2 DEF WInv, TInv
<1>4. HInv'
  BY Zenon, <1>1, <1>2 DEF WInv, HInv
<1>5. BInv' /\ EInv'
  BY Zenon, <1>1, SameBounds, SameOrder DEF WInv
<1>6. DInv'
  BY Zenon, <1>1, SameDiffer DEF WInv, Busy
<1>7. CInv'
  <2>1. \A i \in 1..n : i # hold.id
    BY <1>1, NoneTyped
  <2> QED
    BY Zenon, <1>1, <1>2, <2>1 DEF WInv, CInv
<1> QED
  BY Zenon, <1>3, <1>4, <1>5, <1>6, <1>7 DEF WInv

\* Commands that are answered by the receiver, and the one that is not.
LEMMA ExecutePlaces ==
    ASSUME WInv,
           Unparsed \/ Refused \/ RefusesConnect \/ Outline \/ Connect \/ Answers \/ SetsConfig
    PROVE  WInv'
<1>1. CASE Unparsed \/ Refused \/ RefusesConnect \/ Answers \/ SetsConfig
  BY Zenon, <1>1, CompletesPlaces DEF Unparsed, Refused, RefusesConnect, Answers, SetsConfig,
           Executing, queue, sender, handlers, config
<1>2. CASE Connect
  <2>1. aenh # "send" /\ aenh' = "select" /\ ctrl' = "live"
    BY Zenon, <1>2 DEF Connect, Executing, Parses, Fabrics, Admin, WInv, HInv
  <2> QED
    BY Zenon, <1>2, <2>1, CompletesPlaces DEF Connect, Executing, queue, sender
<1>3. CASE Outline
  <2>1. /\ recv = "exec" /\ recv' \in {"err", "done"}
        /\ UNCHANGED <<n, answered, pending, hold, aenHold, polled, after, io, poll, aenh, ctrl>>
    BY Zenon, <1>3 DEF Outline, Executing, queue, sender, handlers, config
  <2>2. TInv' /\ BInv' /\ EInv'
    BY Zenon, <2>1, SameTypes, SameBounds, SameOrder DEF WInv
  <2>3. HInv'
    BY Zenon, <2>1 DEF WInv, HInv
  <2>4. DInv'
    BY Zenon, <2>1, SameDiffer DEF WInv, Busy
  <2>5. CInv'
    BY Zenon, <2>1 DEF CInv
  <2> QED
    BY Zenon, <2>2, <2>3, <2>4, <2>5 DEF WInv
<1> QED
  BY Zenon, <1>1, <1>2, <1>3

\* A request that is registered is newer than those that are pending.
LEMMA RegistersPlaces == ASSUME WInv, Registers PROVE WInv'
<1>1. recv = "exec" /\ UNCHANGED <<answered, aenHold, polled, io, poll, conn, aenh, ctrl>>
  BY Zenon DEF Registers, Executing, queue, sender, handlers, config
<1>2. CASE Completes("limit", "read") /\ UNCHANGED pending
  BY Zenon, <1>1, <1>2, CompletesPlaces
<1>3. CASE pending' = Append(pending, n) /\ recv' = "read" /\ UNCHANGED <<hold, after, n>>
  <2> DEFINE e == Len(pending) + 1
  <2>1. n # 0 /\ hold = None
    BY Zenon, <1>1 DEF WInv, HInv
  <2>2. pending \in Seq(Nat) /\ n \in Nat
    BY Zenon DEF WInv, TInv
  <2>3. /\ pending' \in Seq(Nat) /\ Len(pending') = e /\ pending'[e] = n /\ e \in Nat
        /\ \A k \in 1..Len(pending) : pending'[k] = pending[k]
        /\ 1..Len(pending') = 1..Len(pending) \cup {e}
        /\ \A k \in 1..Len(pending) : k < e
    BY <1>3, <2>2
  <2>4. \A k \in 1..Len(pending) : pending[k] < n /\ pending[k] \in 1..n
    <3>1. \A k \in 1..Len(pending) : pending[k] \in 1..n /\ pending[k] # n
      BY Zenon, <1>1 DEF WInv, BInv, DInv, Busy
    <3> QED
      BY <2>2, <3>1
  <2>5. \A k \in 1..Len(answered) : answered[k].id < n
    <3>1. \A k \in 1..Len(answered) : answered[k].id \in 1..n /\ answered[k].id # n
      BY Zenon, <1>1 DEF WInv, BInv, DInv, Busy
    <3> QED
      BY <2>2, <3>1
  <2>6. polled.id < n /\ aenHold.id < n
    <3>1. polled.id # n /\ aenHold.id # n
      BY <1>1, <2>1 DEF WInv, DInv, Busy
    <3> QED
      BY <2>2, <3>1, PlacesTyped DEF WInv, BInv
  <2> HIDE DEF e
  <2>7. TInv'
    BY Zenon, <1>1, <1>3, <2>3 DEF WInv, TInv
  <2>8. HInv'
    BY Zenon, <1>1, <1>3, <2>1 DEF WInv, HInv
  <2>9. BInv'
    <3>1. \A k \in 1..Len(pending') : pending'[k] \in 1..n
      <4>1. n \in 1..n
        BY <2>1, <2>2
      <4> QED
        BY Zenon, <2>3, <2>4, <4>1
    <3> QED
      BY Zenon, <1>1, <1>3, <3>1 DEF WInv, BInv
  <2>10. DInv'
    <3>1. \A k \in 1..Len(pending') :
             /\ pending'[k] # polled.id /\ pending'[k] # aenHold.id
             /\ \A l \in 1..Len(answered) : answered[l].id # pending'[k]
      <4>1. n # polled.id /\ n # aenHold.id /\ \A l \in 1..Len(answered) : answered[l].id # n
        BY <1>1, <2>1 DEF WInv, DInv, Busy
      <4>2. \A k \in 1..Len(pending) :
             /\ pending[k] # polled.id /\ pending[k] # aenHold.id
             /\ \A l \in 1..Len(answered) : answered[l].id # pending[k]
        BY Zenon DEF WInv, DInv
      <4> QED
        BY Zenon, <2>3, <4>1, <4>2
    <3>2. ~Busy'
      BY Zenon, <1>3 DEF Busy
    <3> QED
      BY Zenon, <1>1, <3>1, <3>2 DEF WInv, DInv
  <2>11. CInv'
    <3>1. ASSUME NEW i \in 1..n, i = n \/ \E k \in 1..Len(pending) : pending[k] = i
          PROVE  \E k \in 1..Len(pending') : pending'[k] = i
      BY Zenon, <2>3, <3>1
    <3> QED
      BY Zenon, <1>1, <1>3, <3>1 DEF WInv, CInv
  <2>12. EInv'
    <3>1. \A k, l \in 1..Len(pending') : k < l => pending'[k] < pending'[l]
      <4>1. \A k, l \in 1..Len(pending) : k < l => pending[k] < pending[l]
        BY Zenon DEF WInv, EInv
      <4>2. \A k \in 1..Len(pending') : k \in 1..Len(pending) \/ k = e
        BY Zenon, <2>3
      <4>3. \A k \in 1..Len(pending') : k <= e
        BY <2>3
      <4> QED
        BY <2>3, <2>4, <4>1, <4>2, <4>3
    <3>2. /\ \A k \in 1..Len(answered) : Event(answered[k]) =>
                \A l \in 1..Len(pending') : answered[k].id < pending'[l]
          /\ Event(polled) => \A l \in 1..Len(pending') : polled.id < pending'[l]
          /\ Event(aenHold) => \A l \in 1..Len(pending') : aenHold.id < pending'[l]
      BY Zenon, <2>3, <2>5, <2>6 DEF WInv, EInv
    <3> QED
      BY Zenon, <1>1, <3>1, <3>2 DEF WInv, EInv, Event
  <2> QED
    BY Zenon, <2>7, <2>8, <2>9, <2>10, <2>11, <2>12 DEF WInv
<1> QED
  BY Zenon, <1>2, <1>3 DEF Registers

\* pollResponseChannel takes the receiver's answer.
LEMMA RecvSendsPlaces == ASSUME WInv, RecvSends PROVE WInv'
<1>1. /\ recv = "send" /\ polled' = hold /\ hold' = None /\ recv' = after /\ after' = "read"
      /\ poll = "range" /\ poll' = "write"
      /\ UNCHANGED <<answered, pending, aenHold, n, io, conn, aenh, ctrl>>
  BY Zenon DEF RecvSends, Takes, queue, handlers, config
<1>2. /\ polled = None /\ hold.id = n /\ n # 0 /\ hold.st # "event"
  BY Zenon, <1>1 DEF WInv, HInv
<1>3. n \in Nat /\ hold \in Response /\ recv' \in {"read", "err", "done"}
  BY Zenon, <1>1 DEF WInv, TInv
<1>4. TInv'
  BY Zenon, <1>1, <1>3, NoneTyped DEF WInv, TInv
<1>5. HInv'
  BY Zenon, <1>1, <1>2, <1>3 DEF WInv, HInv
<1>6. BInv'
  BY <1>1, <1>2, <1>3 DEF WInv, BInv
<1>7. DInv'
  <2>1. /\ \A k \in 1..Len(answered) : answered[k].id # n
        /\ \A k \in 1..Len(pending) : pending[k] # n
        /\ aenHold.id # 0 => aenHold.id # n
    BY Zenon, <1>1 DEF WInv, DInv, Busy
  <2>2. ~Busy'
    BY Zenon, <1>3 DEF Busy
  <2> QED
    BY Zenon, <1>1, <1>2, <2>1, <2>2 DEF WInv, DInv
<1>8. CInv'
  <2>1. \A i \in 1..n : i # polled.id
    BY <1>2, NoneTyped
  <2> QED
    BY Zenon, <1>1, <2>1 DEF WInv, CInv
<1>9. EInv'
  BY Zenon, <1>1, <1>2 DEF WInv, EInv, Event
<1> QED
  BY Zenon, <1>4, <1>5, <1>6, <1>7, <1>8, <1>9 DEF WInv

\* The handler of events takes the oldest request.
LEMMA AenPopsPlaces == ASSUME WInv, AenPops PROVE WInv'
<1>1. /\ UNCHANGED <<answered, hold, polled, n, after, recv, io, conn, poll, ctrl>>
      /\ aenh = "lock"
  BY Zenon DEF AenPops, queue, sender, receiver, config
<1>2. aenHold = None
  BY Zenon, <1>1 DEF WInv, HInv
<1>3. CASE aenh' = "select" /\ UNCHANGED <<pending, aenHold>>
  <2>1. TInv' /\ BInv' /\ EInv'
    BY Zenon, <1>1, <1>3, SameTypes, SameBounds, SameOrder DEF WInv
  <2>2. HInv'
    BY Zenon, <1>1, <1>3 DEF WInv, HInv
  <2>3. DInv'
    BY Zenon, <1>1, <1>3, SameDiffer DEF WInv, Busy
  <2>4. CInv'
    BY Zenon, <1>1, <1>3 DEF WInv, CInv
  <2> QED
    BY Zenon, <2>1, <2>2, <2>3, <2>4 DEF WInv
<1>4. CASE /\ pending # <<>> /\ aenh' = "send" /\ pending' = Tail(pending)
           /\ aenHold' = [id |-> Head(pending), st |-> "event"]
  <2> DEFINE h == pending[1]
  <2>1. pending \in Seq(Nat) /\ n \in Nat
    BY Zenon DEF WInv, TInv
  <2>2. /\ Len(pending) >= 1 /\ 1 \in 1..Len(pending) /\ h \in Nat
        /\ aenHold'.id = h /\ aenHold'.st = "event"
    BY <1>4, <2>1
  <2>3. /\ pending' \in Seq(Nat) /\ Len(pending') = Len(pending) - 1
        /\ \A k \in 1..Len(pending') : k + 1 \in 1..Len(pending) /\ pending'[k] = pending[k + 1]
    BY <1>4, <2>1
  <2>4. /\ \A k, l \in 1..Len(pending) : k < l => pending[k] < pending[l]
        /\ \A k \in 1..Len(pending) : pending[k] \in 1..n
    BY Zenon DEF WInv, BInv, EInv
  <2>5. \A k \in 1..Len(pending') : h < pending'[k] /\ pending'[k] \in 1..n
    <3>1. \A k \in 1..Len(pending') : 1 < k + 1
      BY <2>1, <2>3
    <3> QED
      BY Zenon, <2>2, <2>3, <2>4, <3>1
  <2>6. \A k \in 1..Len(pending) : pending[k] = h \/ \E l \in 1..Len(pending') : pending'[l] = pending[k]
    <3> TAKE k \in 1..Len(pending)
    <3>1. CASE k # 1
      <4>1. k - 1 \in 1..Len(pending') /\ (k - 1) + 1 = k
        BY <2>1, <2>3, <3>1
      <4> QED
        BY Zenon, <2>3, <4>1
    <3> QED
      BY Zenon, <3>1
  <2>7. h \in 1..n /\ h <= n /\ h # 0
    <3>1. h \in 1..n
      BY Zenon, <2>2, <2>4
    <3> QED
      BY <2>1, <3>1
  <2>8. TInv'
    <3>1. aenHold' \in Response
      BY Zenon, <1>4, <2>1, <2>2 DEF Response, Status
    <3> QED
      BY Zenon, <1>1, <2>3, <3>1 DEF WInv, TInv
  <2>9. HInv'
    BY Zenon, <1>1, <1>4, <2>2, <2>7 DEF WInv, HInv
  <2>10. BInv'
    BY Zenon, <1>1, <2>2, <2>5, <2>7 DEF WInv, BInv
  <2>11. DInv'
    <3>1. /\ \A k \in 1..Len(answered) : answered[k].id # h
          /\ h # polled.id /\ (Busy => h # n)
      BY Zenon, <2>2 DEF WInv, DInv
    <3>2. \A k \in 1..Len(pending') : /\ pending'[k] # polled.id /\ (Busy => pending'[k] # n)
                                      /\ \A l \in 1..Len(answered) : answered[l].id # pending'[k]
      <4>1. \A k \in 1..Len(pending) : /\ pending[k] # polled.id /\ (Busy => pending[k] # n)
                                       /\ \A l \in 1..Len(answered) : answered[l].id # pending[k]
        BY Zenon DEF WInv, DInv
      <4> HIDE DEF h
      <4> QED
        BY Zenon, <2>3, <4>1
    <3>3. \A k \in 1..Len(pending') : pending'[k] # h
      BY <2>1, <2>2, <2>5
    <3>4. Busy' = Busy
      BY Zenon, <1>1 DEF Busy
    <3> HIDE DEF h
    <3> QED
      BY Zenon, <1>1, <2>2, <3>1, <3>2, <3>3, <3>4 DEF WInv, DInv
  <2>12. CInv'
    <3>1. ASSUME NEW i \in 1..n, \E k \in 1..Len(pending) : pending[k] = i
          PROVE  i = aenHold'.id \/ \E k \in 1..Len(pending') : pending'[k] = i
      BY Zenon, <2>2, <2>6, <3>1
    <3>2. \A i \in 1..n : i # aenHold.id
      BY <1>2, NoneTyped
    <3> QED
      BY Zenon, <1>1, <3>1, <3>2 DEF WInv, CInv
  <2>13. EInv'
    <3>1. \A k, l \in 1..Len(pending') : k < l => pending'[k] < pending'[l]
      <4>1. \A k, l \in 1..Len(pending') : k < l => k + 1 < l + 1
        OBVIOUS
      <4> QED
        BY Zenon, <2>3, <2>4, <4>1
    <3>2. /\ \A k \in 1..Len(answered) : Event(answered[k]) =>
                answered[k].id < h /\ \A l \in 1..Len(pending') : answered[k].id < pending'[l]
          /\ Event(polled) => polled.id < h /\ \A l \in 1..Len(pending') : polled.id < pending'[l]
      BY Zenon, <2>2, <2>3 DEF WInv, EInv
    <3> HIDE DEF h
    <3> QED
      BY Zenon, <1>1, <2>2, <2>5, <3>1, <3>2 DEF WInv, EInv, Event
  <2> QED
    BY Zenon, <2>8, <2>9, <2>10, <2>11, <2>12, <2>13 DEF WInv
<1> QED
  BY Zenon, <1>3, <1>4 DEF AenPops

\* pollResponseChannel takes the answer of the handler of events.
LEMMA AenSendsPlaces == ASSUME WInv, AenSends PROVE WInv'
<1>1. /\ polled' = aenHold /\ aenHold' = None /\ aenh = "send" /\ aenh' = "select"
      /\ poll = "range" /\ poll' = "write"
      /\ UNCHANGED <<answered, pending, hold, n, after, recv, io, conn, ctrl>>
  BY Zenon DEF AenSends, Takes, queue, receiver, config
<1>2. polled = None /\ aenHold.id # 0
  BY Zenon, <1>1 DEF WInv, HInv
<1>3. n \in Nat /\ 0 <= n
  BY DEF WInv, TInv
<1>4. TInv'
  BY Zenon, <1>1, NoneTyped DEF WInv, TInv
<1>5. HInv'
  BY Zenon, <1>1, <1>2 DEF WInv, HInv
<1>6. BInv'
  BY Zenon, <1>1, <1>3, NoneTyped DEF WInv, BInv
<1>7. DInv'
  <2>1. /\ \A k \in 1..Len(answered) : answered[k].id # 0
        /\ \A k \in 1..Len(pending) : pending[k] # 0
    BY <1>3 DEF WInv, BInv
  <2>2. Busy' = Busy
    BY Zenon, <1>1 DEF Busy
  <2> QED
    BY Zenon, <1>1, <1>2, <2>1, <2>2, NoneTyped DEF WInv, DInv
<1>8. CInv'
  <2>1. \A i \in 1..n : i # polled.id
    BY <1>2, NoneTyped
  <2> QED
    BY Zenon, <1>1, <2>1 DEF WInv, CInv
<1>9. EInv'
  BY Zenon, <1>1, NoneTyped DEF WInv, EInv, Event
<1> QED
  BY Zenon, <1>4, <1>5, <1>6, <1>7, <1>8, <1>9 DEF WInv

\* The answer is written, or lost with the connection.
LEMMA PollWritesPlaces == ASSUME WInv, PollWrites PROVE WInv'
<1>1. /\ polled' = None /\ poll = "write" /\ poll' # "write" /\ poll' # "off"
      /\ UNCHANGED <<pending, hold, aenHold, n, after, recv, io, conn, aenh, ctrl>>
  BY Zenon DEF PollWrites, queue, receiver, handlers, config
<1>2. polled.id # 0 /\ io # "connect"
  BY Zenon, <1>1 DEF WInv, HInv
<1>3. n \in Nat /\ 0 <= n /\ polled \in Response /\ answered \in Seq(Response)
  BY DEF WInv, TInv
<1>4. /\ \A k \in 1..Len(answered) : answered[k].id \in 1..n /\ answered[k].id # 0
      /\ \A k \in 1..Len(pending) : pending[k] \in 1..n /\ pending[k] # 0
  BY <1>3 DEF WInv, BInv
<1>5. HInv'
  BY Zenon, <1>1, <1>2 DEF WInv, HInv
<1>6. Busy' = Busy
  BY Zenon, <1>1 DEF Busy
<1>7. CASE conn # "open" /\ UNCHANGED answered
  <2>1. TInv'
    BY Zenon, <1>1, <1>7, NoneTyped DEF WInv, TInv
  <2>2. BInv'
    BY Zenon, <1>1, <1>3, <1>7, NoneTyped DEF WInv, BInv
  <2>3. DInv'
    BY Zenon, <1>1, <1>4, <1>6, <1>7, NoneTyped DEF WInv, DInv
  <2>4. CInv'
    BY Zenon, <1>1, <1>7 DEF CInv
  <2>5. EInv'
    BY ZenonT(30), <1>1, <1>7, NoneTyped DEF WInv, EInv, Event
  <2> QED
    BY Zenon, <1>5, <2>1, <2>2, <2>3, <2>4, <2>5 DEF WInv
<1>8. CASE answered' = Append(answered, polled)
  <2> DEFINE e == Len(answered) + 1
  <2>1. /\ answered' \in Seq(Response) /\ Len(answered') = e /\ answered'[e] = polled /\ e \in Nat
        /\ \A k \in 1..Len(answered) : answered'[k] = answered[k]
        /\ 1..Len(answered') = 1..Len(answered) \cup {e}
        /\ \A k \in 1..Len(answered) : k < e /\ k # e
    BY <1>3, <1>8
  <2> HIDE DEF e
  <2>2. polled.id \in 1..n
    <3>1. polled.id <= n /\ polled.id \in Nat
      BY Zenon, PlacesTyped DEF WInv, BInv
    <3> QED
      BY <1>2, <1>3, <3>1
  <2>3. TInv'
    BY Zenon, <1>1, <2>1, NoneTyped DEF WInv, TInv
  <2>4. BInv'
    <3>1. \A k \in 1..Len(answered') : answered'[k].id \in 1..n
      BY Zenon, <1>4, <2>1, <2>2
    <3> QED
      BY Zenon, <1>1, <1>3, <3>1, NoneTyped DEF WInv, BInv
  <2>5. DInv'
    <3>1. /\ \A k, l \in 1..Len(answered) : answered[k].id = answered[l].id => k = l
          /\ \A k \in 1..Len(answered) : answered[k].id # polled.id
      BY Zenon DEF WInv, DInv
    <3>2. \A k, l \in 1..Len(answered') : answered'[k].id = answered'[l].id => k = l
      BY Zenon, <2>1, <3>1
    <3>3. \A k \in 1..Len(answered') :
              /\ \A l \in 1..Len(pending) : answered'[k].id # pending[l]
              /\ answered'[k].id # aenHold.id /\ answered'[k].id # 0
              /\ Busy => answered'[k].id # n
      <4>1. /\ \A k \in 1..Len(answered) :
                  /\ \A l \in 1..Len(pending) : answered[k].id # pending[l]
                  /\ answered[k].id # aenHold.id /\ (Busy => answered[k].id # n)
            /\ \A l \in 1..Len(pending) : pending[l] # polled.id
            /\ aenHold.id # polled.id /\ (Busy => polled.id # n)
        BY Zenon, <1>2 DEF WInv, DInv
      <4> QED
        BY Zenon, <1>2, <1>4, <2>1, <4>1
    <3>4. /\ \A l \in 1..Len(pending) : pending[l] # aenHold.id /\ (Busy => pending[l] # n)
          /\ aenHold.id # 0 /\ Busy => aenHold.id # n
      BY Zenon DEF WInv, DInv
    <3> QED
      BY Zenon, <1>1, <1>4, <1>6, <3>2, <3>3, <3>4, NoneTyped DEF DInv
  <2>6. CInv'
    <3>1. ASSUME NEW i \in 1..n, i = polled.id \/ \E k \in 1..Len(answered) : answered[k].id = i
          PROVE  \E k \in 1..Len(answered') : answered'[k].id = i
      BY Zenon, <2>1, <3>1
    <3> QED
      BY Zenon, <1>1, <3>1 DEF WInv, CInv
  <2>7. EInv'
    <3>1. \A k, l \in 1..Len(answered') :
            k < l /\ Event(answered'[k]) /\ Event(answered'[l]) => answered'[k].id < answered'[l].id
      <4>1. /\ \A k, l \in 1..Len(answered) :
                  k < l /\ Event(answered[k]) /\ Event(answered[l]) => answered[k].id < answered[l].id
            /\ \A k \in 1..Len(answered) :
                  Event(answered[k]) /\ Event(polled) => answered[k].id < polled.id
        BY Zenon DEF WInv, EInv
      <4>2. \A k \in 1..Len(answered') : k \in 1..Len(answered) \/ k = e
        BY Zenon, <2>1
      <4>3. \A k \in 1..Len(answered') : ~(e < k)
        BY <2>1
      <4> QED
        BY Zenon, <2>1, <4>1, <4>2, <4>3
    <3>2. \A k \in 1..Len(answered') : Event(answered'[k]) =>
            /\ \A l \in 1..Len(pending) : answered'[k].id < pending[l]
            /\ Event(aenHold) => answered'[k].id < aenHold.id
      BY Zenon, <2>1 DEF WInv, EInv
    <3>3. /\ \A k, l \in 1..Len(pending) : k < l => pending[k] < pending[l]
          /\ Event(aenHold) => \A l \in 1..Len(pending) : aenHold.id < pending[l]
      BY Zenon DEF WInv, EInv
    <3>4. ~Event(None)
      BY Zenon, NoneTyped DEF Event
    <3> QED
      BY Zenon, <1>1, <3>1, <3>2, <3>3, <3>4 DEF EInv, Event
  <2> QED
    BY Zenon, <1>5, <2>3, <2>4, <2>5, <2>6, <2>7 DEF WInv
<1> QED
  BY Zenon, <1>7, <1>8 DEF PollWrites

\* The invariant at first, and step by step.
LEMMA PlacesInit == Init => WInv /\ SInv
BY Zenon, InitPlaces DEF Init, SInv

\* Every step keeps it.
LEMMA PlacesStep == WInv /\ SInv /\ [Next]_vars => WInv' /\ SInv'
BY Zenon, ClosedStep, QuietSteps, DeletesPlaces, ConnectsPlaces, ReadsPlaces, ExecutePlaces,
   RegistersPlaces, RecvSendsPlaces, AenPopsPlaces, AenSendsPlaces, PollWritesPlaces
   DEF Next, Io, Poll, Executes, Aen, Server

----------------------------------------------------------------------------
\* Places is the answers, the held requests and four single places.
LEMMA PlacesIndex ==
    ASSUME WInv
    PROVE  LET a == Len(answered)  p == Len(pending)
           IN  /\ a \in Nat /\ p \in Nat /\ Len(Places) = a + p + 4
               /\ \A i \in 1..a : Places[i] = answered[i].id
               /\ \A i \in 1..p : Places[a + i] = pending[i]
               /\ Places[a + p + 1] = hold.id /\ Places[a + p + 2] = aenHold.id
               /\ Places[a + p + 3] = polled.id
               /\ Places[a + p + 4] = IF recv = "exec" THEN n ELSE 0
<1> DEFINE A == [k \in 1..Len(answered) |-> answered[k].id]
           F == <<hold.id, aenHold.id, polled.id, IF recv = "exec" THEN n ELSE 0>>
<1>0. n \in Nat /\ Len(answered) \in Nat
      /\ hold.id \in Nat /\ aenHold.id \in Nat /\ polled.id \in Nat
      /\ \A k \in 1..Len(answered) : answered[k].id \in Nat
  BY PlacesTyped, Zenon DEF WInv
<1>1. A \in Seq(Nat) /\ Len(A) = Len(answered) /\ Len(answered) \in Nat
  BY <1>0
<1>2. F \in Seq(Nat) /\ Len(F) = 4
  BY <1>0
<1>3. F[1] = hold.id /\ F[2] = aenHold.id /\ F[3] = polled.id
      /\ F[4] = IF recv = "exec" THEN n ELSE 0
  OBVIOUS
<1>4. pending \in Seq(Nat) /\ Len(pending) \in Nat
  BY DEF WInv, TInv
<1>5. Places = (A \o pending) \o F
  BY Zenon DEF Places
<1>6. \A k \in 1..Len(answered) : A[k] = answered[k].id
  OBVIOUS
<1> HIDE DEF A, F
<1>7. /\ A \o pending \in Seq(Nat) /\ Len(A \o pending) = Len(answered) + Len(pending)
      /\ \A k \in 1..Len(A) + Len(pending) :
            (A \o pending)[k] = IF k <= Len(A) THEN A[k] ELSE pending[k - Len(A)]
  <2>1. /\ A \o pending \in Seq(Nat) /\ Len(A \o pending) = Len(A) + Len(pending)
        /\ \A k \in 1..Len(A) + Len(pending) :
              (A \o pending)[k] = IF k <= Len(A) THEN A[k] ELSE pending[k - Len(A)]
    BY <1>1, <1>4, ConcatProperties, Zenon
  <2> QED
    BY Zenon, <1>1, <2>1
<1>8. /\ Len(Places) = Len(answered) + Len(pending) + 4
      /\ \A k \in 1..Len(Places) :
            Places[k] = IF k <= Len(A \o pending) THEN (A \o pending)[k] ELSE F[k - Len(A \o pending)]
  <2> DEFINE B == A \o pending
  <2>1. B \in Seq(Nat) /\ Len(B) = Len(answered) + Len(pending) /\ Places = B \o F
    BY Zenon, <1>5, <1>7
  <2> HIDE DEF B
  <2>2. /\ Len(B \o F) = Len(B) + Len(F)
        /\ \A k \in 1..Len(B) + Len(F) : (B \o F)[k] = IF k <= Len(B) THEN B[k] ELSE F[k - Len(B)]
    <3>1. B \in Seq(Nat) /\ F \in Seq(Nat)
      BY Zenon, <1>2, <2>1
    <3> QED
      BY <3>1, ConcatProperties, Zenon
  <2>3. /\ Len(Places) = Len(answered) + Len(pending) + 4
        /\ \A k \in 1..Len(Places) : Places[k] = IF k <= Len(B) THEN B[k] ELSE F[k - Len(B)]
    BY Zenon, <1>2, <2>1, <2>2
  <2> QED
    BY Zenon, <2>3 DEF B
<1>9. ASSUME NEW i \in 1..Len(answered) PROVE Places[i] = answered[i].id
  <2>1. /\ i \in 1..Len(Places) /\ i \in 1..Len(A) + Len(pending)
        /\ i <= Len(A) /\ i <= Len(A \o pending)
    BY <1>1, <1>4, <1>7, <1>8
  <2> QED
    BY Zenon, <1>6, <1>7, <1>8, <2>1
<1>10. ASSUME NEW i \in 1..Len(pending) PROVE Places[Len(answered) + i] = pending[i]
  <2>1. /\ Len(answered) + i \in 1..Len(Places) /\ Len(answered) + i \in 1..Len(A) + Len(pending)
        /\ ~(Len(answered) + i <= Len(A)) /\ Len(answered) + i <= Len(A \o pending)
        /\ Len(answered) + i - Len(A) = i
    BY <1>1, <1>4, <1>7, <1>8
  <2> QED
    BY <1>7, <1>8, <2>1
<1>11. ASSUME NEW i \in 1..4 PROVE Places[Len(answered) + Len(pending) + i] = F[i]
  <2> DEFINE j == Len(answered) + Len(pending) + i
  <2>1. j \in 1..Len(Places) /\ ~(j <= Len(A \o pending)) /\ j - Len(A \o pending) = i
    BY <1>1, <1>4, <1>7, <1>8
  <2> HIDE DEF j
  <2>2. Places[j] = F[i]
    BY Zenon, <1>8, <2>1
  <2> QED
    BY Zenon, <2>2 DEF j
<1> QED
  BY <1>1, <1>3, <1>4, <1>8, <1>9, <1>10, <1>11

\* Line is the answers, the two on the way and the requests.
LEMMA LineIndex ==
    ASSUME WInv, NEW i \in 1..Len(Line)
    PROVE  \/ i \in 1..Len(answered) /\ Line[i] = answered[i]
           \/ i = Len(answered) + 1 /\ Line[i] = polled
           \/ i = Len(answered) + 2 /\ Line[i] = aenHold
           \/ /\ i - (Len(answered) + 2) \in 1..Len(pending)
              /\ Line[i] = [id |-> pending[i - (Len(answered) + 2)], st |-> "event"]
<1> DEFINE Q == [k \in 1..Len(pending) |-> [id |-> pending[k], st |-> "event"]]
           F == <<polled, aenHold>>
<1>1. answered \in Seq(Response) /\ Len(answered) \in Nat /\ Len(pending) \in Nat
  BY DEF WInv, TInv
<1>2. F \in Seq(Response) /\ Len(F) = 2 /\ F[1] = polled /\ F[2] = aenHold
  BY DEF WInv, TInv
<1>3. Q \in Seq(Response) /\ Len(Q) = Len(pending)
  <2>1. \A k \in 1..Len(pending) : [id |-> pending[k], st |-> "event"] \in Response
    BY Zenon, PlacesTyped DEF WInv, Response, Status
  <2> QED
    BY <1>1, <2>1
<1>4. \A k \in 1..Len(pending) : Q[k] = [id |-> pending[k], st |-> "event"]
  OBVIOUS
<1>5. Line = (answered \o F) \o Q
  BY Zenon DEF Line
<1> HIDE DEF Q, F
<1>6. /\ answered \o F \in Seq(Response) /\ Len(answered \o F) = Len(answered) + 2
      /\ \A k \in 1..Len(answered) + 2 :
            (answered \o F)[k] = IF k <= Len(answered) THEN answered[k] ELSE F[k - Len(answered)]
  <2>1. /\ answered \o F \in Seq(Response) /\ Len(answered \o F) = Len(answered) + Len(F)
        /\ \A k \in 1..Len(answered) + Len(F) :
              (answered \o F)[k] = IF k <= Len(answered) THEN answered[k] ELSE F[k - Len(answered)]
    BY <1>1, <1>2, ConcatProperties, Zenon
  <2> QED
    BY Zenon, <1>2, <2>1
<1>7. /\ Len(Line) = Len(answered) + 2 + Len(pending)
      /\ \A k \in 1..Len(Line) :
            Line[k] = IF k <= Len(answered) + 2 THEN (answered \o F)[k] ELSE Q[k - (Len(answered) + 2)]
  <2> DEFINE B == answered \o F
  <2>1. /\ B \in Seq(Response) /\ Len(B) = Len(answered) + 2 /\ Line = B \o Q
        /\ Q \in Seq(Response)
    BY Zenon, <1>3, <1>5, <1>6
  <2> HIDE DEF B
  <2>2. /\ Len(B \o Q) = Len(B) + Len(Q)
        /\ \A k \in 1..Len(B) + Len(Q) : (B \o Q)[k] = IF k <= Len(B) THEN B[k] ELSE Q[k - Len(B)]
    BY <2>1, ConcatProperties, Zenon
  <2>3. /\ Len(Line) = Len(answered) + 2 + Len(pending)
        /\ \A k \in 1..Len(Line) : Line[k] = IF k <= Len(B) THEN B[k] ELSE Q[k - Len(B)]
    BY Zenon, <1>3, <2>1, <2>2
  <2>4. \A k \in 1..Len(Line) :
            Line[k] = IF k <= Len(answered) + 2 THEN B[k] ELSE Q[k - (Len(answered) + 2)]
    BY Zenon, <2>1, <2>3
  <2> QED
    BY Zenon, <2>3, <2>4 DEF B
<1>8. CASE i <= Len(answered)
  BY <1>1, <1>6, <1>7, <1>8
<1>9. CASE i = Len(answered) + 1 \/ i = Len(answered) + 2
  BY <1>1, <1>2, <1>6, <1>7, <1>9
<1>10. CASE i > Len(answered) + 2
  <2>1. i - (Len(answered) + 2) \in 1..Len(pending)
    BY <1>1, <1>7, <1>10
  <2>2. Line[i] = Q[i - (Len(answered) + 2)]
    BY <1>1, <1>7, <1>10
  <2> QED
    BY Zenon, <1>4, <2>1, <2>2
<1> QED
  BY <1>1, <1>8, <1>9, <1>10

\* No two places have one command.
LEMMA PlacesDiffer == WInv => AnsweredOnce
<1> SUFFICES ASSUME WInv, NEW i \in 1..Len(Places), NEW j \in 1..Len(Places),
                    Places[i] = Places[j], Places[i] # 0
             PROVE  i = j
  BY Zenon DEF AnsweredOnce
<1> DEFINE a == Len(answered)
           p == Len(pending)
           At(k) == \/ k \in 1..a /\ Places[k] = answered[k].id
                    \/ k - a \in 1..p /\ Places[k] = pending[k - a]
                    \/ k = a + p + 1 /\ Places[k] = n /\ recv = "send"
                    \/ k = a + p + 2 /\ Places[k] = aenHold.id /\ aenHold.id # 0
                    \/ k = a + p + 3 /\ Places[k] = polled.id /\ polled.id # 0
                    \/ k = a + p + 4 /\ Places[k] = n /\ recv = "exec"
<1>1. ASSUME NEW k \in 1..Len(Places), Places[k] # 0 PROVE At(k)
  <2>1. /\ a \in Nat /\ p \in Nat /\ Len(Places) = a + p + 4
        /\ \A x \in 1..a : Places[x] = answered[x].id
        /\ \A x \in 1..p : Places[a + x] = pending[x]
        /\ Places[a + p + 1] = hold.id /\ Places[a + p + 2] = aenHold.id
        /\ Places[a + p + 3] = polled.id
        /\ Places[a + p + 4] = IF recv = "exec" THEN n ELSE 0
    BY Zenon, PlacesIndex
  <2>2. hold.id # 0 => recv = "send" /\ hold.id = n
    BY Zenon, NoneTyped DEF WInv, HInv
  <2>3. /\ k \in 1..a \/ (k - a \in 1..p /\ a + (k - a) = k)
           \/ k = a + p + 1 \/ k = a + p + 2 \/ k = a + p + 3 \/ k = a + p + 4
    <3>1. a \in Nat /\ p \in Nat /\ k \in 1..(a + p + 4)
      BY Zenon, <2>1
    <3> HIDE DEF a, p
    <3> QED
      BY <3>1
  <2> HIDE DEF a, p
  <2> QED
    BY Zenon, <1>1, <2>1, <2>2, <2>3
<1>2. At(i) /\ At(j)
  BY Zenon, <1>1
<1>3. /\ \A k, l \in 1..a : answered[k].id = answered[l].id => k = l
      /\ \A k \in 1..a : /\ \A l \in 1..p : answered[k].id # pending[l]
                         /\ answered[k].id # aenHold.id /\ answered[k].id # polled.id
                         /\ recv \in {"exec", "send"} => answered[k].id # n
      /\ \A l \in 1..p : /\ pending[l] # aenHold.id /\ pending[l] # polled.id
                         /\ recv \in {"exec", "send"} => pending[l] # n
      /\ aenHold.id # 0 => aenHold.id # polled.id
                           /\ (recv \in {"exec", "send"} => aenHold.id # n)
      /\ polled.id # 0 /\ recv \in {"exec", "send"} => polled.id # n
  BY Zenon DEF WInv, DInv, Busy
<1>4. \A k, l \in 1..p : pending[k] = pending[l] => k = l
  <2>1. /\ \A k, l \in 1..p : k < l => pending[k] < pending[l]
        /\ \A k \in 1..p : pending[k] \in Nat
    BY PlacesTyped, Zenon DEF WInv, EInv
  <2> SUFFICES ASSUME NEW k \in 1..p, NEW l \in 1..p, k # l PROVE pending[k] # pending[l]
    OBVIOUS
  <2>2. k < l \/ l < k
    OBVIOUS
  <2> QED
    BY <2>1, <2>2
<1>5. a \in Nat /\ p \in Nat
  BY Zenon, PlacesTyped DEF WInv
<1> HIDE DEF a, p
<1>6. CASE i - a \in 1..p /\ j - a \in 1..p /\ Places[i] = pending[i - a] /\ Places[j] = pending[j - a]
  <2>1. i - a = j - a
    BY Zenon, <1>4, <1>6
  <2> QED
    BY <1>5, <2>1
<1> QED
  BY <1>2, <1>3, <1>6

\* Where the parts of a sequence of this length are.
LEMMA Spots ==
  ASSUME NEW a \in Nat, NEW p \in Nat, NEW l, l = a + p + 4
  PROVE  /\ \A k \in 1..a : k \in 1..l
         /\ \A k \in 1..p : a + k \in 1..l
         /\ a + p + 1 \in 1..l /\ a + p + 2 \in 1..l
         /\ a + p + 3 \in 1..l /\ a + p + 4 \in 1..l
  OBVIOUS

\* While the connection is served, each has one.
LEMMA PlacesComplete == WInv => NoneLost
<1> SUFFICES ASSUME WInv, conn = "open", recv \in {"read", "exec", "send"}, NEW i \in 1..n
             PROVE  \E j \in 1..Len(Places) : Places[j] = i
  BY Zenon DEF NoneLost
<1> DEFINE a == Len(answered)
           p == Len(pending)
<1>1. /\ a \in Nat /\ p \in Nat /\ Len(Places) = a + p + 4
      /\ \A k \in 1..a : Places[k] = answered[k].id
      /\ \A k \in 1..p : Places[a + k] = pending[k]
      /\ Places[a + p + 1] = hold.id /\ Places[a + p + 2] = aenHold.id
      /\ Places[a + p + 3] = polled.id
      /\ Places[a + p + 4] = IF recv = "exec" THEN n ELSE 0
  BY Zenon, PlacesIndex
<1>2. \/ \E k \in 1..a : answered[k].id = i
      \/ \E k \in 1..p : pending[k] = i
      \/ i = hold.id \/ i = aenHold.id \/ i = polled.id
      \/ recv = "exec" /\ i = n
  BY Zenon DEF WInv, CInv
<1> HIDE DEF a, p
<1>3. /\ \A k \in 1..a : k \in 1..Len(Places)
      /\ \A k \in 1..p : a + k \in 1..Len(Places)
      /\ a + p + 1 \in 1..Len(Places) /\ a + p + 2 \in 1..Len(Places)
      /\ a + p + 3 \in 1..Len(Places) /\ a + p + 4 \in 1..Len(Places)
  BY Zenon, <1>1, Spots
<1> QED
  BY Zenon, <1>1, <1>2, <1>3

\* Events go to requests in the order in which these came.
LEMMA LineOrdered == WInv => EventsInOrder
<1> SUFFICES ASSUME WInv, NEW i \in 1..Len(Line), NEW j \in 1..Len(Line), i < j,
                    Event(Line[i]), Event(Line[j])
             PROVE  Line[i].id < Line[j].id
  BY Zenon DEF EventsInOrder
<1> DEFINE a == Len(answered)
           p == Len(pending)
           At(k) == \/ k \in 1..a /\ Line[k] = answered[k]
                    \/ k = a + 1 /\ Line[k] = polled
                    \/ k = a + 2 /\ Line[k] = aenHold
                    \/ k - (a + 2) \in 1..p /\ Line[k].id = pending[k - (a + 2)]
<1>1. At(i) /\ At(j)
  <2>1. ASSUME NEW k \in 1..Len(Line) PROVE At(k)
    <3>1. \/ k \in 1..Len(answered) /\ Line[k] = answered[k]
          \/ k = Len(answered) + 1 /\ Line[k] = polled
          \/ k = Len(answered) + 2 /\ Line[k] = aenHold
          \/ /\ k - (Len(answered) + 2) \in 1..Len(pending)
             /\ Line[k] = [id |-> pending[k - (Len(answered) + 2)], st |-> "event"]
      BY Zenon, LineIndex
    <3> QED
      BY <3>1
  <2> QED
    BY Zenon, <2>1
<1>2. /\ \A k, l \in 1..p : k < l => pending[k] < pending[l]
      /\ \A k, l \in 1..a :
            k < l /\ Event(answered[k]) /\ Event(answered[l]) => answered[k].id < answered[l].id
      /\ \A k \in 1..a : Event(answered[k]) =>
            /\ \A l \in 1..p : answered[k].id < pending[l]
            /\ Event(polled) => answered[k].id < polled.id
            /\ Event(aenHold) => answered[k].id < aenHold.id
      /\ Event(polled) =>
            /\ \A l \in 1..p : polled.id < pending[l]
            /\ Event(aenHold) => polled.id < aenHold.id
      /\ Event(aenHold) => \A l \in 1..p : aenHold.id < pending[l]
  BY Zenon DEF WInv, EInv
<1>3. a \in Nat /\ p \in Nat
  BY Zenon, PlacesTyped DEF WInv
<1> HIDE DEF a, p
<1>4. CASE i \in 1..a /\ Line[i] = answered[i]
  BY Zenon, <1>1, <1>2, <1>3, <1>4
<1>5. CASE i = a + 1 /\ Line[i] = polled
  BY <1>1, <1>2, <1>3, <1>5
<1>6. CASE i = a + 2 /\ Line[i] = aenHold
  BY <1>1, <1>2, <1>3, <1>6
<1>7. CASE i - (a + 2) \in 1..p /\ Line[i].id = pending[i - (a + 2)]
  <2>1. j - (a + 2) \in 1..p /\ Line[j].id = pending[j - (a + 2)] /\ i - (a + 2) < j - (a + 2)
    BY <1>1, <1>3, <1>7
  <2> QED
    BY Zenon, <1>2, <1>7, <2>1
<1> QED
  BY Zenon, <1>1, <1>4, <1>5, <1>6, <1>7

\* No command is answered twice, or answered while it is pending: whoever
\* answers it, the receiver or the handler of events, is the only one to hold it.
THEOREM CommandsAnsweredOnce == Spec => []AnsweredOnce
<1> QED
  BY PlacesInit, PlacesStep, PlacesDiffer, PTL DEF Spec

\* While the connection is served no command that was read is dropped.
THEOREM NoCommandIsLost == Spec => []NoneLost
<1> QED
  BY PlacesInit, PlacesStep, PlacesComplete, PTL DEF Spec

\* The oldest request gets the first event.
THEOREM EventsKeepOrder == Spec => []EventsInOrder
<1> QED
  BY PlacesInit, PlacesStep, LineOrdered, PTL DEF Spec
============================================================================

------------------------------- MODULE Target -------------------------------
(***************************************************************************)
(* One connection of the discovery controller of pkg/nvme: the tcpQueue    *)
(* with its goroutines ioWork ("io"), handleReceivePdu ("recv") and        *)
(* pollResponseChannel ("poll"), and the nvmeController with its           *)
(* keepAliveHandler ("ka"), handleAENEvents ("aenh") and the queue's       *)
(* watchKeepAliveExpired ("watch").  All channels are unbuffered: whoever  *)
(* completes a request blocks in queueResponse until pollResponseChannel   *)
(* takes it.                                                               *)
(*                                                                         *)
(* External: the host, the subsystem that calls NotifyAsyncEvent on        *)
(* registered controllers, and the server, which calls ioWork, waits for   *)
(* doneCh and then calls destroy.                                          *)
(*                                                                         *)
(* The keep-alive timer may fire at any time; what a keep-alive or the     *)
(* feature that sets its period do to the timer is left out, and both are  *)
(* "admin" commands like identify and the reading of the log.              *)
(***************************************************************************)
EXTENDS Naturals, Sequences

CONSTANTS Command,    \* what the host may send as its n-th command
          MaxCmd,     \* bound of the model: commands of the host
          MaxEvent,   \* bound of the model: events of the subsystem
          Limit,      \* maxPendingAsyncEventsRequestsLimit: 4 in the code
          MayExpire,  \* whether the keep-alive timer may fire
          MayLose     \* whether the host may close the connection

\* Commands, by what the queue tells apart.  "flags" has flags that are not
\* supported; "refused" is a connect whose data is refused, "outline" one
\* without inline data; "cc" and "get" are properties; "badsgl" is an admin
\* command whose data is in the wrong place; "otherlog" reads another log.
AllCommands == {"flags", "connect", "refused", "outline", "cc", "get", "admin",
                "setaen", "aer", "otherlog", "badsgl", "unknown"}

\* What may be sent, place by place.
Orders == [1..MaxCmd -> SUBSET AllCommands]

ASSUME TargetAssumption ==
    /\ Command \in Orders
    /\ MaxCmd \in Nat /\ MaxEvent \in Nat /\ Limit \in Nat \ {0}
    /\ MayExpire \in BOOLEAN /\ MayLose \in BOOLEAN

VARIABLES
    conn, chan,         \* the connection, and completedNvmeRequests
    io, poll, polled,   \* ioWork; pollResponseChannel and what it has taken
    recv, cmd, hold,    \* handleReceivePdu, its command and what it completes
    after,              \* where it goes from there
    n, answered,        \* commands read so far, answers written
    ctrl,               \* sq.ctrl
    cc, csts, aen,      \* its configuration, status and aenBitEnabled
    pending,            \* asyncEventPendingRequests
    lock, ctx,          \* who has the controller's lock; its context
    ka, seen,           \* keepAliveHandler, and the csts it has read
    aenh, aenHold,      \* handleAENEvents and what it completes
    watch, stopped,     \* watchKeepAliveExpired and its stop channel
    notify, events,     \* NotifyAsyncEvent, and events so far
    dst,                \* the server
    dead                \* a panic has ended the process

queue == <<conn, chan, io>>
sender == <<poll, polled, answered>>
receiver == <<recv, cmd, hold, after, n>>
config == <<ctrl, cc, csts, aen>>
handlers == <<ka, seen, aenh, aenHold, watch, stopped>>
subsystem == <<notify, events>>
vars == <<queue, sender, receiver, config, pending, lock, ctx, handlers, subsystem, dst,
          dead>>

Id == 1..MaxCmd
Status == {"ok", "error", "event", "limit"}
Answer == [id : Id, st : Status]
None == [id |-> 0, st |-> "none"]
\* What the properties need of a value of CC: the bits EN and SHN, and
\* whether the other fields are the supported ones.
Config == [en : BOOLEAN, shn : BOOLEAN, ok : BOOLEAN]
Zero == [en |-> FALSE, shn |-> FALSE, ok |-> FALSE]

\* Every variable has its type.
TypeOK ==
    /\ conn \in {"open", "lost", "closed"} /\ chan \in {"open", "closed"}
    /\ io \in {"connect", "select", "done"}
    /\ poll \in {"off", "range", "write", "done"} /\ polled \in Answer \cup {None}
    /\ recv \in {"off", "read", "exec", "send", "err", "done"}
    /\ cmd \in AllCommands \cup {"none"} /\ hold \in Answer \cup {None}
    /\ after \in {"read", "err", "done"} /\ n \in 0..MaxCmd
    /\ answered \in Seq(Answer)
    /\ ctrl \in {"none", "live"} /\ cc \in Config
    /\ csts \subseteq {"RDY", "CFS", "SHST"} /\ aen \in BOOLEAN
    /\ pending \in Seq(Id)
    /\ lock \in {"free", "recv", "aenh", "delete"} /\ ctx \in BOOLEAN
    /\ ka \in {"off", "timer", "write", "signal", "done"}
    /\ seen \subseteq {"RDY", "CFS", "SHST"}
    /\ aenh \in {"off", "select", "lock", "send", "done"}
    /\ aenHold \in Answer \cup {None}
    /\ watch \in {"off", "select", "send", "done"} /\ stopped \in BOOLEAN
    /\ notify \in {"idle", "send"} /\ events \in 0..MaxEvent
    /\ dst \in {"wait", "stop", "lock", "wg", "done"} /\ dead \in BOOLEAN

Init ==
    /\ conn = "open" /\ chan = "open" /\ io = "connect"
    /\ poll = "off" /\ polled = None /\ answered = <<>>
    /\ recv = "off" /\ cmd = "none" /\ hold = None /\ after = "read" /\ n = 0
    /\ ctrl = "none" /\ cc = Zero /\ csts = {} /\ aen = FALSE
    /\ pending = <<>> /\ lock = "free" /\ ctx = FALSE
    /\ ka = "off" /\ seen = {} /\ aenh = "off" /\ aenHold = None
    /\ watch = "off" /\ stopped = FALSE
    /\ notify = "idle" /\ events = 0 /\ dst = "wait" /\ dead = FALSE

----------------------------------------------------------------------------
(* ioWork and pollResponseChannel *)

\* The connection is initialised, or that fails.
Connects ==
    /\ io = "connect"
    /\ \/ io' = "select" /\ poll' = "range" /\ recv' = "read"
       \/ MayLose /\ io' = "done" /\ UNCHANGED <<poll, recv>>
    /\ UNCHANGED <<conn, chan, polled, answered, cmd, hold, after, n, config, pending, lock,
                   ctx, handlers, subsystem, dst, dead>>

\* ioWork ends with an error of the receiver, or when the keep-alive expired.
IoEnds ==
    /\ io = "select"
    /\ \/ recv = "err" /\ recv' = "done" /\ UNCHANGED watch
       \/ watch = "send" /\ watch' = "done" /\ UNCHANGED recv
    /\ io' = "done"
    /\ UNCHANGED <<conn, chan, sender, cmd, hold, after, n, config, pending, lock, ctx, ka,
                   seen, aenh, aenHold, stopped, subsystem, dst, dead>>

\* The answer is written.  Writing to a lost connection may fail.
PollWrites ==
    /\ poll = "write"
    /\ \/ /\ conn \in {"open", "lost"} /\ poll' = "range"
          /\ answered' = Append(answered, polled)
       \/ conn \in {"lost", "closed"} /\ poll' = "done" /\ UNCHANGED answered
    /\ polled' = None
    /\ UNCHANGED <<queue, receiver, config, pending, lock, ctx, handlers, subsystem, dst,
                   dead>>

PollEnds ==
    /\ poll = "range" /\ chan = "closed" /\ poll' = "done"
    /\ UNCHANGED <<queue, polled, answered, receiver, config, pending, lock, ctx, handlers,
                   subsystem, dst, dead>>

\* pollResponseChannel takes r.
Takes(r) ==
    /\ poll = "range" /\ chan = "open"
    /\ poll' = "write" /\ polled' = r /\ UNCHANGED answered

----------------------------------------------------------------------------
(* handleReceivePdu *)

\* A command is read; it may have come before the connection was lost or
\* closed and be in the buffer of the reader.
Reads(c) ==
    /\ recv = "read" /\ n < MaxCmd /\ c \in Command[n + 1]
    /\ recv' = "exec" /\ cmd' = c /\ n' = n + 1
    /\ UNCHANGED <<queue, sender, hold, after, config, pending, lock, ctx, handlers,
                   subsystem, dst, dead>>

\* The connection is lost or closed, or what comes is no command.
ReadFails ==
    /\ recv = "read" /\ recv' = "err"
    /\ UNCHANGED <<queue, sender, cmd, hold, after, n, config, pending, lock, ctx, handlers,
                   subsystem, dst, dead>>

\* The command is completed with status st; the receiver goes on at l.
Completes(st, l) ==
    /\ recv' = "send" /\ hold' = [id |-> n, st |-> st] /\ after' = l
    /\ cmd' = "none" /\ UNCHANGED n
Executing(c) == recv = "exec" /\ cmd = c

\* nvmetRequestInit and the parsers: without a controller only connect is
\* known, and admin commands only while it is ready.
Admin == {"admin", "setaen", "aer", "otherlog", "badsgl", "unknown"}
Fabrics == {"cc", "get"}
Parses(c) ==
    IF ctrl = "live" THEN c \in Fabrics \/ (c \in Admin \ {"unknown"} /\ "RDY" \in csts)
    ELSE c \in {"connect", "refused", "outline"}

\* A command that is not understood, a second connect for one, is refused and
\* ends the connection.
Unparsed ==
    /\ recv = "exec" /\ (cmd = "flags" \/ ~Parses(cmd))
    /\ Completes("error", "err")
    /\ UNCHANGED <<queue, sender, config, pending, lock, ctx, handlers, subsystem, dst, dead>>

\* The refusal of another log does not.  The error of mapData ends the
\* receiver, but without an error on its channel.
Refused ==
    /\ recv = "exec" /\ Parses(cmd)
    /\ \/ cmd = "otherlog" /\ Completes("error", "read")
       \/ cmd = "badsgl" /\ Completes("error", "done")
    /\ UNCHANGED <<queue, sender, config, pending, lock, ctx, handlers, subsystem, dst, dead>>

\* A connect to another subsystem, say, is refused when it is executed.  If
\* it is refused for a queue size of zero, a controller has been made whose two
\* goroutines stay forever; they touch nothing of the queue and are left out.
RefusesConnect ==
    /\ Executing("refused") /\ Parses(cmd) /\ Completes("error", "read")
    /\ UNCHANGED <<queue, sender, config, pending, lock, ctx, handlers, subsystem, dst, dead>>

\* A connect without inline data is not answered.
Outline ==
    /\ Executing("outline") /\ Parses(cmd)
    /\ recv' = "err" /\ cmd' = "none"
    /\ UNCHANGED <<queue, sender, hold, after, n, config, pending, lock, ctx, handlers,
                   subsystem, dst, dead>>

\* The controller is created with its goroutines, and registered.
Connect ==
    /\ Executing("connect") /\ Parses(cmd)
    /\ ctrl' = "live" /\ ka' = "timer" /\ aenh' = "select" /\ watch' = "select"
    /\ Completes("ok", "read")
    /\ UNCHANGED <<queue, sender, cc, csts, aen, pending, lock, ctx, seen, aenHold, stopped,
                   subsystem, dst, dead>>

\* Commands that are answered at once: properties and admin commands.
Answers ==
    /\ recv = "exec" /\ Parses(cmd)
    /\ \/ cmd \in {"get", "admin"} /\ UNCHANGED aen
       \/ cmd = "setaen" /\ aen' \in BOOLEAN
    /\ Completes("ok", "read")
    /\ UNCHANGED <<queue, sender, ctrl, cc, csts, pending, lock, ctx, handlers, subsystem,
                   dst, dead>>

\* updateControllerConfiguration, on a configuration and a status: each of
\* its four conditions looks at what the ones before have left.
Start(v) == [cc |-> v, csts |-> IF v.ok THEN {"RDY"} ELSE {"CFS"}]
Clear(s) == [cc |-> Zero, csts |-> s.csts \ {"RDY"}]

\* Mutant: a shutdown leaves the controller ready.
UpdatedReady(old, st, v) ==
    LET s1 == IF v.en /\ ~old.en THEN Start(v) ELSE [cc |-> v, csts |-> st]
        s2 == IF ~s1.cc.en /\ old.en THEN Clear(s1) ELSE s1
    IN  IF s2.cc.shn /\ ~old.shn THEN [cc |-> Zero, csts |-> s2.csts \cup {"SHST"}]
        ELSE s2

Updated(old, st, v) ==
    LET s1 == IF v.en /\ ~old.en THEN Start(v) ELSE [cc |-> v, csts |-> st]
        s2 == IF ~s1.cc.en /\ old.en THEN Clear(s1) ELSE s1
        s3 == IF s2.cc.shn /\ ~old.shn
              THEN [cc |-> Zero, csts |-> Clear(s2).csts \cup {"SHST"}] ELSE s2
    IN  IF ~s3.cc.shn /\ old.shn THEN [s3 EXCEPT !.csts = @ \ {"SHST"}] ELSE s3

\* The update is made with the lock; keepAliveHandler writes csts without
\* it, and what it writes meanwhile may be lost.
SetsConfig ==
    /\ Executing("cc") /\ Parses(cmd) /\ lock = "free"
    /\ \E v \in Config :
        /\ cc' = Updated(cc, csts, v).cc /\ csts' = Updated(cc, csts, v).csts
    /\ ka' \in IF ka = "write" THEN {"write", "signal"} ELSE {ka}
    /\ Completes("ok", "read")
    /\ UNCHANGED <<queue, sender, ctrl, aen, pending, lock, ctx, seen, aenh, aenHold, watch,
                   stopped, subsystem, dst, dead>>

\* Mutant: one request too many.
RegistersOneMore ==
    /\ Executing("aer") /\ Parses(cmd) /\ lock = "free"
    /\ \/ /\ Len(pending) > Limit /\ lock' = "recv"
          /\ Completes("limit", "read") /\ UNCHANGED pending
       \/ /\ Len(pending) <= Limit /\ pending' = Append(pending, n)
          /\ recv' = "read" /\ cmd' = "none" /\ UNCHANGED <<hold, after, n, lock>>
    /\ UNCHANGED <<queue, sender, config, ctx, handlers, subsystem, dst, dead>>

\* Mutant: a refused request is registered as well.
RegistersRefused ==
    /\ Executing("aer") /\ Parses(cmd) /\ lock = "free"
    /\ \/ /\ Len(pending) >= Limit /\ lock' = "recv"
          /\ Completes("limit", "read") /\ pending' = Append(Tail(pending), n)
       \/ /\ Len(pending) < Limit /\ pending' = Append(pending, n)
          /\ recv' = "read" /\ cmd' = "none" /\ UNCHANGED <<hold, after, n, lock>>
    /\ UNCHANGED <<queue, sender, config, ctx, handlers, subsystem, dst, dead>>

\* Mutant: a request beyond the limit is dropped.
RegistersDropped ==
    /\ Executing("aer") /\ Parses(cmd) /\ lock = "free"
    /\ pending' = IF Len(pending) < Limit THEN Append(pending, n) ELSE pending
    /\ recv' = "read" /\ cmd' = "none" /\ UNCHANGED <<hold, after, n, lock>>
    /\ UNCHANGED <<queue, sender, config, ctx, handlers, subsystem, dst, dead>>

\* registerAsyncEventRequest: beyond the limit the request is refused, with
\* the lock held until the answer is taken.
Registers ==
    /\ Executing("aer") /\ Parses(cmd) /\ lock = "free"
    /\ \/ /\ Len(pending) >= Limit /\ lock' = "recv"
          /\ Completes("limit", "read") /\ UNCHANGED pending
       \/ /\ Len(pending) < Limit /\ pending' = Append(pending, n)
          /\ recv' = "read" /\ cmd' = "none" /\ UNCHANGED <<hold, after, n, lock>>
    /\ UNCHANGED <<queue, sender, config, ctx, handlers, subsystem, dst, dead>>

\* queueResponse.
RecvSends ==
    /\ recv = "send" /\ Takes(hold)
    /\ recv' = after /\ hold' = None /\ after' = "read"
    /\ lock' = IF lock = "recv" THEN "free" ELSE lock
    /\ UNCHANGED <<queue, cmd, n, config, pending, ctx, handlers, subsystem, dst, dead>>

----------------------------------------------------------------------------
(* The controller: events and the keep-alive timer *)

\* The subsystem notifies a registered controller; with the feature off
\* nothing is sent.
Notifies ==
    /\ ctrl = "live" /\ dst \in {"wait", "stop", "done"} /\ notify = "idle" /\ events < MaxEvent
    /\ events' = events + 1
    /\ notify' = IF aen THEN "send" ELSE "idle"
    /\ UNCHANGED <<queue, sender, receiver, config, pending, lock, ctx, handlers, dst, dead>>

AenTakesEvent ==
    /\ aenh = "select" /\ notify = "send"
    /\ aenh' = "lock" /\ notify' = "idle"
    /\ UNCHANGED <<queue, sender, receiver, config, pending, lock, ctx, ka, seen, aenHold,
                   watch, stopped, events, dst, dead>>

\* Mutant: the last request is answered.
AenPopsLast ==
    /\ aenh = "lock" /\ lock = "free"
    /\ \/ /\ pending = <<>> /\ aenh' = "select" /\ UNCHANGED <<pending, lock, aenHold>>
       \/ /\ pending # <<>> /\ aenh' = "send" /\ lock' = "aenh"
          /\ aenHold' = [id |-> pending[Len(pending)], st |-> "event"]
          /\ pending' = SubSeq(pending, 1, Len(pending) - 1)
    /\ UNCHANGED <<queue, sender, receiver, config, ctx, ka, seen, watch, stopped, subsystem,
                   dst, dead>>

\* Mutant: a single request is taken for none.
AenPopsPair ==
    /\ aenh = "lock" /\ lock = "free"
    /\ \/ /\ Len(pending) <= 1 /\ aenh' = "select" /\ UNCHANGED <<pending, lock, aenHold>>
       \/ /\ Len(pending) > 1 /\ aenh' = "send" /\ lock' = "aenh"
          /\ aenHold' = [id |-> Head(pending), st |-> "event"]
          /\ pending' = Tail(pending)
    /\ UNCHANGED <<queue, sender, receiver, config, ctx, ka, seen, watch, stopped, subsystem,
                   dst, dead>>

\* The first request is taken out and completed, with the lock held.
AenPops ==
    /\ aenh = "lock" /\ lock = "free"
    /\ \/ /\ pending = <<>> /\ aenh' = "select" /\ UNCHANGED <<pending, lock, aenHold>>
       \/ /\ pending # <<>> /\ aenh' = "send" /\ lock' = "aenh"
          /\ aenHold' = [id |-> Head(pending), st |-> "event"]
          /\ pending' = Tail(pending)
    /\ UNCHANGED <<queue, sender, receiver, config, ctx, ka, seen, watch, stopped, subsystem,
                   dst, dead>>

AenSends ==
    /\ aenh = "send" /\ Takes(aenHold)
    /\ aenh' = "select" /\ aenHold' = None /\ lock' = "free"
    /\ UNCHANGED <<queue, receiver, config, pending, ctx, ka, seen, watch, stopped,
                   subsystem, dst, dead>>

AenEnds ==
    /\ aenh = "select" /\ ctx /\ aenh' = "done"
    /\ UNCHANGED <<queue, sender, receiver, config, pending, lock, ctx, ka, seen, aenHold,
                   watch, stopped, subsystem, dst, dead>>

\* Mutant: the context alone ends the handler.
KaFiresNever ==
    /\ ka = "timer" /\ ctx /\ ka' = "done"
    /\ UNCHANGED <<queue, sender, receiver, config, pending, lock, ctx, seen, aenh, aenHold,
                   watch, stopped, subsystem, dst, dead>>

\* keepAliveHandler: the timer fires, or the context is done.
KaFires ==
    /\ ka = "timer"
    /\ \/ MayExpire /\ "CFS" \notin csts /\ ka' = "write" /\ seen' = csts
       \/ MayExpire /\ "CFS" \in csts /\ ka' = "done" /\ UNCHANGED seen
       \/ ctx /\ ka' = "done" /\ UNCHANGED seen
    /\ UNCHANGED <<queue, sender, receiver, config, pending, lock, ctx, aenh, aenHold, watch,
                   stopped, subsystem, dst, dead>>

\* CFS is added to what it has read of csts, now or before.
KaWrites ==
    /\ ka = "write" /\ csts' \in {seen \cup {"CFS"}, csts \cup {"CFS"}}
    /\ ka' = "signal" /\ seen' = {}
    /\ UNCHANGED <<queue, sender, receiver, ctrl, cc, aen, pending, lock, ctx, aenh, aenHold,
                   watch, stopped, subsystem, dst, dead>>

KaSignals ==
    /\ ka = "signal" /\ watch = "select"
    /\ ka' = "done" /\ watch' = "send"
    /\ UNCHANGED <<queue, sender, receiver, config, pending, lock, ctx, seen, aenh, aenHold,
                   stopped, subsystem, dst, dead>>

WatchStops ==
    /\ watch = "select" /\ stopped /\ watch' = "done"
    /\ UNCHANGED <<queue, sender, receiver, config, pending, lock, ctx, ka, seen, aenh,
                   aenHold, stopped, subsystem, dst, dead>>

----------------------------------------------------------------------------
(* destroy, called by the server when ioWork is done *)

\* The connection and the channel are closed and the channel is set to nil.
\* Whoever is sending dies, or blocks forever if it only now looks it up.
Closes ==
    /\ dst = "wait" /\ io = "done"
    /\ conn' = "closed" /\ chan' = "closed" /\ dst' = "stop"
    /\ dead' \in IF recv = "send" \/ aenh = "send" THEN BOOLEAN ELSE {FALSE}
    /\ UNCHANGED <<io, sender, receiver, config, pending, lock, ctx, handlers, subsystem>>

\* The watch is stopped and the controller is no longer registered.
StopsWatch ==
    /\ dst = "stop"
    /\ IF ctrl = "live" THEN stopped' = TRUE /\ dst' = "lock"
       ELSE dst' = "done" /\ UNCHANGED stopped
    /\ UNCHANGED <<queue, sender, receiver, config, pending, lock, ctx, ka, seen, aenh,
                   aenHold, watch, subsystem, dead>>

\* Mutant: the context is not cancelled.
CancelsNothing ==
    /\ dst = "lock" /\ lock = "free" /\ lock' = "delete" /\ dst' = "wg"
    /\ UNCHANGED <<queue, sender, receiver, config, pending, ctx, handlers, subsystem, dead>>

\* delete: it takes the lock, cancels the context and, with the lock held,
\* waits for the controller's two goroutines.
Cancels ==
    /\ dst = "lock" /\ lock = "free" /\ lock' = "delete" /\ ctx' = TRUE /\ dst' = "wg"
    /\ UNCHANGED <<queue, sender, receiver, config, pending, handlers, subsystem, dead>>

\* sq.ctrl is set to nil, and with it goes what the controller had; a command
\* that has been parsed but not executed dies of it.  A connect that is still
\* in the buffer then makes another controller, which nobody deletes.
Deletes ==
    /\ dst = "wg" /\ ka = "done" /\ aenh = "done"
    /\ lock' = "free" /\ ctrl' = "none" /\ dst' = "done"
    /\ cc' = Zero /\ csts' = {} /\ aen' = FALSE /\ pending' = <<>> /\ ctx' = FALSE
    /\ stopped' = FALSE
    /\ dead' \in IF recv = "exec" THEN BOOLEAN ELSE {FALSE}
    /\ UNCHANGED <<queue, sender, receiver, ka, seen, aenh, aenHold, watch, subsystem>>

\* The host closes the connection.
Loses ==
    /\ MayLose /\ conn = "open" /\ conn' = "lost"
    /\ UNCHANGED <<chan, io, sender, receiver, config, pending, lock, ctx, handlers,
                   subsystem, dst, dead>>

----------------------------------------------------------------------------

Io == Connects \/ IoEnds
Poll == PollWrites \/ PollEnds
Executes ==
    \/ Unparsed \/ Refused \/ RefusesConnect \/ Outline \/ Connect \/ Answers \/ SetsConfig
    \/ Registers
Aen == AenTakesEvent \/ AenPops \/ AenSends \/ AenEnds
KeepAlive == KaFires \/ KaWrites \/ KaSignals
Server == Closes \/ StopsWatch \/ Cancels \/ Deletes

Next ==
    /\ ~dead
    /\ \/ Io \/ Poll \/ (\E c \in AllCommands : Reads(c)) \/ ReadFails \/ Executes \/ RecvSends
       \/ Notifies \/ Aen \/ KeepAlive \/ WatchStops \/ Server \/ Loses

Spec == Init /\ [][Next]_vars

\* Goroutines are scheduled, and reading from a connection that is gone fails in
\* the end; the timer fires, if it may, once the connection
\* is lost and no keep-alives arrive any more.  The host and the subsystem need
\* not do anything.
FairSpec ==
    /\ Spec
    /\ WF_vars(~dead /\ Io) /\ WF_vars(~dead /\ Poll)
    /\ WF_vars(~dead /\ conn # "open" /\ ReadFails)
    /\ WF_vars(~dead /\ Executes) /\ WF_vars(~dead /\ RecvSends)
    /\ WF_vars(~dead /\ AenTakesEvent) /\ WF_vars(~dead /\ AenPops)
    /\ WF_vars(~dead /\ AenSends) /\ WF_vars(~dead /\ AenEnds)
    /\ WF_vars(~dead /\ (conn # "open" \/ ctx) /\ KaFires)
    /\ WF_vars(~dead /\ (KaWrites \/ KaSignals)) /\ WF_vars(~dead /\ WatchStops)
    /\ WF_vars(~dead /\ Server)

----------------------------------------------------------------------------
(* Properties *)

\* Where the commands are: answered, pending, or on the way between the
\* receiver, the handler of events and pollResponseChannel.  Nobody holds 0.
Places == [i \in 1..Len(answered) |-> answered[i].id] \o pending
              \o <<hold.id, aenHold.id, polled.id, IF recv = "exec" THEN n ELSE 0>>

\* A command is never answered twice, nor answered and still pending.
AnsweredOnce ==
    \A i, j \in 1..Len(Places) : Places[i] = Places[j] /\ Places[i] # 0 => i = j

\* While the connection is served no command is lost: it is answered, pending
\* or on its way.
NoneLost ==
    conn = "open" /\ recv \in {"read", "exec", "send"} =>
        \A i \in 1..n : \E j \in 1..Len(Places) : Places[j] = i

\* The pending requests are bounded, and one is refused only if they are at
\* the bound.
PendingBounded ==
    /\ Len(pending) <= Limit
    /\ recv = "send" /\ hold.st = "limit" /\ lock = "recv" => Len(pending) = Limit

Event(r) == r.st = "event"
\* The requests that got, or will get, an event, the others being of no
\* interest, in the order in which they get it.
Line == answered \o <<polled, aenHold>>
            \o [i \in 1..Len(pending) |-> [id |-> pending[i], st |-> "event"]]

\* Events answer the requests in the order in which they were registered.
EventsInOrder ==
    \A i, j \in 1..Len(Line) :
        i < j /\ Event(Line[i]) /\ Event(Line[j]) => Line[i].id < Line[j].id

\* A controller that is ready is enabled and not shut down, unless the
\* keep-alive expired: keepAliveHandler, which writes the status without the
\* lock, may bring back a RDY that was cleared meanwhile, but never without CFS
\* and never before its timer fired.
ReadyIsEnabled ==
    "RDY" \in csts =>
        \/ cc.en /\ "SHST" \notin csts
        \/ "CFS" \in csts /\ ka \in {"signal", "done"}

\* A connection that is lost ends ioWork: if the receiver cannot tell, the
\* keep-alive timer does, unless the controller had already failed when the
\* timer fired.  So does a RDY that keepAliveHandler brought back.
LostIsNoticed ==
    /\ conn = "lost" /\ ctrl = "live" ~> io = "done" \/ (ka = "done" /\ watch = "select")
    /\ "RDY" \in csts /\ ~cc.en ~> io = "done"

\* An event for a controller with pending requests is answered while there is
\* a connection.
EventAnswered ==
    notify = "send" /\ pending # <<>> ~>
        conn # "open" \/ io = "done" \/ \E i \in 1..Len(answered) : Event(answered[i])

\* destroy returns, unless the process dies or somebody delete waits for is
\* stuck forever: a receiver or a handler of events that sends an answer with
\* the lock held and nobody to take it, a handler of events that took an event
\* and waits for the lock of delete, or a keep-alive handler whose timer fired
\* too late to be heard.
Stuck ==
    \/ lock \in {"recv", "aenh"}
    \/ lock = "delete" /\ aenh = "lock"
    \/ ka = "signal" /\ watch = "done"
DestroyEnds == io = "done" ~> (dst = "done" \/ dead \/ []Stuck)

\* What the comment on NotifyAsyncEvent says: an event triggers responses to
\* all the registered requests.
AllAnswered == [][AenPops => pending' = <<>>]_vars

\* What the comment in delete says: cancelling the context closes the loop
\* that handles events.
CancelClosesLoop == ctx ~> aenh = "done" \/ dead

\* What the comment on watchKeepAliveExpired says: an expired keep-alive
\* closes the queue.
ExpiryClosesQueue == ctrl = "live" /\ ka = "done" ~> io = "done"

\* What the comment on the watch says: it is notified on the channel.
ExpiryIsNotified == ka = "signal" ~> ka = "done" \/ dead

\* What the comment on handleReceivePdu says: an error is sent on the channel
\* before the method ends.
ErrorIsSent == recv = "done" => io = "done"
============================================================================

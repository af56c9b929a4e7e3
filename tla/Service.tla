------------------------------ MODULE Service ------------------------------
(***************************************************************************)
(* The service of the discovery client (service/service.go): its main loop *)
(* with the three channels it selects on, the goroutines that trigger and  *)
(* schedule reconnects, the multiplexers that forward asynchronous events  *)
(* (AENs) of a connection to the main loop, and, from pkg/nvme/nvmehost,   *)
(* the table of persistent clients with the handleChannel goroutine of     *)
(* each.  The cache is what module Cache shows it to be: a set of          *)
(* connection objects that changes, every change followed by a             *)
(* notification for its cluster that reads the connections on delivery.    *)
(*                                                                         *)
(* A connection object is <<e, g>>: the g-th object made for endpoint e.   *)
(* Only what is read later is kept: State and the metrics are left out.    *)
(***************************************************************************)
EXTENDS Naturals, Sequences, FiniteSets

CONSTANTS
    Ep, Cluster, ClusterOf, \* endpoints, and the client-cluster pair of each
    SelfRef,      \* for each endpoint, the one on port 8009 of its address
    Addr, AddrOf, \* what findClient compares: address, port and host NQN.
                  \* Endpoints of different clusters may have the same.
    None,
    AggCap,       \* the capacity of aggregateChan
    Slots,        \* how many persistent clients may exist at a time
    MaxGen,       \* bound of the model: objects per endpoint
    Budget        \* bound of the model: how often servers go up or down, send
                  \* events and the list changes, together

Slot == 1..Slots
Conn == Ep \X (1..MaxGen)
EpOf(c) == c[1]
ClusterOfConn(c) == ClusterOf[c[1]]
AddrOfConn(c) == AddrOf[c[1]]
EpsOf(cl) == {e \in Ep : ClusterOf[e] = cl}

ASSUME ConstantsOK ==
    /\ ClusterOf \in [Ep -> Cluster] /\ SelfRef \in [Ep -> Ep]
    /\ \A e \in Ep : ClusterOf[SelfRef[e]] = ClusterOf[e]
    /\ AddrOf \in [Ep -> Addr]
    /\ {AggCap, Slots, MaxGen} \subseteq Nat
    /\ Budget \subseteq [flaps : Nat, aens : Nat, changes : Nat]
    /\ AggCap > 0 /\ None \notin Conn

VARIABLES
    up,                  \* the endpoints whose server answers
    cached, gen, note,   \* the cache's objects, and pending notifications
    sconn, active,       \* s.connections: objects and ActiveConnection
    stopped,             \* the objects whose Stop has been called
    pc, rcl, untried, live, \* the main loop
    trig,                \* goroutines waiting to send a reconnect trigger
    stopCh, timer,       \* the reconnect scheduler
    agg,                 \* aggregateChan
    mux,                 \* the multiplexers of each object, by state
    tbl, ids,            \* ConnTbl, and the objects whose ConnectionID is in it
    sess,                \* the persistent clients, with their handlers
    stray,               \* objects whose client got a handler of another object
    panic,               \* the goroutine that died, if any did
    flaps, aens, changes \* used up bounds

env == <<up, flaps, aens, changes>>
cache == <<cached, gen, note>>
main == <<pc, rcl, untried, live>>
sched == <<trig, stopCh, timer>>
table == <<tbl, ids>>
host == <<table, sess, stray>>
vars == <<env, cache, sconn, active, stopped, main, sched, agg, mux, host,
          panic>>

Kind == {"aen", "ka"}
\* How many multiplexers of an object wait for an event, hold an event or a
\* keep-alive event; how many scheduled goroutines of a cluster have not yet
\* reached their select, wait in it, or wait in it with stopCh nil.
MuxState == {"idle"} \cup Kind
TimerState == {"unarmed", "armed", "orphan"}
\* A client: its connection object, whether it is lost or stopped, and events
\* on their way; where the handleChannel started for it is, and the client
\* which that one found in the table and serves.
Unused == [conn |-> None, lost |-> FALSE, stop |-> FALSE, aenq |-> 0,
           h |-> "unused", of |-> 0]

SessRec == [conn : Conn \cup {None}, lost : BOOLEAN, stop : BOOLEAN, aenq : Nat,
            h : {"unused", "start", "void", "select", "aen", "ka", "done"},
            of : 0..Slots]

EnvType == up \subseteq Ep /\ flaps \in Nat /\ aens \in Nat /\ changes \in Nat
CacheType ==
    /\ cached \in [Ep -> 0..MaxGen] /\ gen \in [Ep -> 0..MaxGen]
    /\ note \in [Cluster -> Nat]
MapType ==
    /\ sconn \in [Ep -> 0..MaxGen] /\ stopped \subseteq Conn
    /\ active \in [Cluster -> Conn \cup {None}]
LoopType ==
    /\ pc \in {"select", "reconnect", "push", "stuck", "removing"}
    /\ rcl \in Cluster \cup {None}
    /\ untried \subseteq Conn /\ live \in Conn \cup {None}
SchedType ==
    /\ trig \in [Cluster -> Nat] /\ stopCh \in BOOLEAN
    /\ timer \in [Cluster -> [TimerState -> Nat]]
MuxType ==
    /\ agg \in Seq(Conn \X Kind) /\ Len(agg) <= AggCap
    /\ mux \in [Conn -> [MuxState -> Nat]]
HostType ==
    /\ tbl \in [Addr -> 0..Slots] /\ sess \in [Slot -> SessRec]
    /\ ids \subseteq Conn /\ stray \subseteq Conn
    /\ panic \in {"no", "closed channel", "nil queue", "no entry"}

\* Every variable has its type; in particular aggregateChan never holds more
\* than its capacity and no count of goroutines is negative.
TypeOK ==
    /\ EnvType /\ CacheType /\ MapType /\ LoopType /\ SchedType /\ MuxType
    /\ HostType

Init ==
    /\ up \in SUBSET Ep
    /\ cached = [e \in Ep |-> 0] /\ gen = [e \in Ep |-> 0]
    /\ note = [cl \in Cluster |-> 0]
    /\ sconn = [e \in Ep |-> 0] /\ active = [cl \in Cluster |-> None]
    /\ stopped = {}
    /\ pc = "select" /\ rcl = None /\ untried = {} /\ live = None
    /\ trig = [cl \in Cluster |-> 0] /\ stopCh = FALSE
    /\ timer = [cl \in Cluster |-> [k \in TimerState |-> 0]]
    /\ agg = <<>>
    /\ mux = [c \in Conn |-> [k \in MuxState |-> 0]]
    /\ tbl = [a \in Addr |-> 0] /\ ids = {}
    /\ sess = [s \in Slot |-> Unused] /\ stray = {}
    /\ panic = "no" /\ flaps = 0 /\ aens = 0 /\ changes = 0

\* The environment may have done this much.
Within(f, a, c) == [flaps |-> f, aens |-> a, changes |-> c] \in Budget

---------------------------------------------------------------------------
(* The cache as the service sees it *)

\* The cache's objects of cluster cl become those of the endpoints R: an
\* endpoint that stays keeps its object, a new one gets a new object.
CacheBecomes(cl, R) ==
    LET fresh == {e \in EpsOf(cl) : e \in R /\ cached[e] = 0}
    IN  /\ \A e \in fresh : gen[e] < MaxGen
        /\ gen' = [e \in Ep |-> IF e \in fresh THEN gen[e] + 1 ELSE gen[e]]
        /\ cached' = [e \in Ep |-> IF ClusterOf[e] # cl THEN cached[e]
                                   ELSE IF e \in fresh THEN gen[e] + 1
                                   ELSE IF e \in R THEN cached[e] ELSE 0]
        /\ note' = [note EXCEPT ![cl] = IF cached' # cached THEN @ + 1 ELSE @]

Listed(cl) == {e \in EpsOf(cl) : cached[e] # 0}

\* The watcher reads a file that names the endpoints R of cl.
FileAdded(cl, R) ==
    /\ panic = "no" /\ Within(flaps, aens, changes + 1)
    /\ changes' = changes + 1
    /\ R \subseteq EpsOf(cl) /\ ~(R \subseteq Listed(cl))
    /\ CacheBecomes(cl, Listed(cl) \cup R)
    /\ UNCHANGED <<up, flaps, aens, sconn, active, stopped, main, sched, agg,
                   mux, host, panic>>

---------------------------------------------------------------------------
(* The servers *)

ServerFlaps(e) ==
    /\ panic = "no" /\ Within(flaps + 1, aens, changes)
    /\ flaps' = flaps + 1
    /\ up' = IF e \in up THEN up \ {e} ELSE up \cup {e}
    /\ UNCHANGED <<aens, changes, cache, sconn, active, stopped, main, sched,
                   agg, mux, host, panic>>

\* The slot of a stopped client is free when its handler has ended and none that
\* came late serves it.
Over(ss, s) ==
    /\ ss[s].h = "done" /\ ss[s].stop
    /\ \A x \in Slot : ss[x].of = s => ss[x].h = "done"
Tidy(ss) == [s \in Slot |-> IF Over(ss, s) THEN Unused ELSE ss[s]]

InUse(s) == sess[s].h \notin {"unused", "done"} /\ ~sess[s].stop

\* The server of a persistent client sends an asynchronous event.
ServerSendsAen(s) ==
    /\ panic = "no" /\ Within(flaps, aens + 1, changes)
    /\ InUse(s) /\ ~sess[s].lost /\ EpOf(sess[s].conn) \in up
    /\ aens' = aens + 1
    /\ sess' = [sess EXCEPT ![s].aenq = @ + 1]
    /\ UNCHANGED <<up, flaps, changes, cache, sconn, active, stopped, main,
                   sched, agg, mux, table, stray, panic>>

\* A keep alive of a persistent client fails: doneCh is closed.
KeepAliveFails(s) ==
    /\ panic = "no"
    /\ InUse(s) /\ ~sess[s].lost /\ EpOf(sess[s].conn) \notin up
    /\ sess' = [sess EXCEPT ![s].lost = TRUE]
    /\ UNCHANGED <<env, cache, sconn, active, stopped, main, sched, agg, mux,
                   table, stray, panic>>

---------------------------------------------------------------------------
(* handleChannel, one goroutine per persistent client *)

\* It looks up the client with the id it was started for, which is another one
\* when Discover has replaced it meanwhile ...
HandlerStarts(s) ==
    /\ panic = "no" /\ sess[s].h = "start"
    /\ \E t \in Slot :
        /\ tbl[AddrOfConn(sess[s].conn)] = t
        /\ sess' = [sess EXCEPT ![s].h = "select", ![s].of = t]
        /\ stray' = IF sess[t].conn = sess[s].conn THEN stray
                                                  ELSE stray \cup {sess[t].conn}
    /\ UNCHANGED <<env, cache, sconn, active, stopped, main, sched, agg, mux,
                   table, panic>>

\* ... and panics if the entry is gone, as it is for a while when a Discover
\* replaces it.
HandlerFindsNone(s) ==
    /\ panic = "no"
    /\ sess[s].h = "void" \/ (sess[s].h = "start" /\ pc = "reconnect")
    /\ panic' = "no entry"
    /\ UNCHANGED <<env, cache, sconn, active, stopped, main, sched, agg, mux, host>>

\* The select of handleChannel: an event, a closed doneCh, or a closed aenCh.
\* Stop closes both channels, so a stopped client may be seen either way.
HandlerSelects(s) ==
    LET t == sess[s].of
    IN  /\ panic = "no" /\ sess[s].h = "select"
        /\ \/ sess[t].aenq > 0
              /\ sess' = [sess EXCEPT ![s].h = "aen", ![t].aenq = @ - 1]
           \/ (sess[t].lost \/ sess[t].stop)
              /\ sess' = [sess EXCEPT ![s].h = "ka"]
           \/ sess[t].stop /\ sess' = Tidy([sess EXCEPT ![s].h = "done"])
        /\ UNCHANGED <<env, cache, sconn, active, stopped, main, sched, agg, mux,
                       table, stray, panic>>

\* Its send on the AENChan of the connection meets a multiplexer, or panics
\* on a closed channel.  After an event the loop evaluates KAChan() again,
\* which dereferences the queue that Stop has set to nil.
HandlerSends(s) ==
    LET t == sess[s].of
        c == sess[t].conn
        k == sess[s].h
    IN  /\ panic = "no" /\ k \in Kind
        /\ IF c \in stopped
           THEN panic' = "closed channel" /\ UNCHANGED <<sess, mux>>
           ELSE /\ mux[c]["idle"] > 0
                /\ mux' = [mux EXCEPT ![c]["idle"] = @ - 1, ![c][k] = @ + 1]
                /\ sess' = Tidy([sess EXCEPT ![s].h = IF k = "ka" THEN "done"
                                                      ELSE "select"])
                /\ panic' = IF k = "aen" /\ sess[t].stop THEN "nil queue"
                                                         ELSE "no"
        /\ UNCHANGED <<env, cache, sconn, active, stopped, main, sched, agg,
                       table, stray>>

---------------------------------------------------------------------------
(* multiplexNewConnection, one goroutine per successful reconnect *)

\* It forwards what it received; after a keep-alive event it returns.
MuxForwards(c, k) ==
    /\ panic = "no" /\ mux[c][k] > 0 /\ Len(agg) < AggCap
    /\ agg' = Append(agg, <<c, k>>)
    /\ mux' = [mux EXCEPT ![c][k] = @ - 1,
                          ![c]["idle"] = IF k = "aen" THEN @ + 1 ELSE @]
    /\ UNCHANGED <<env, cache, sconn, active, stopped, main, sched, host,
                   panic>>

\* The connection's context is done, or its AENChan closed.
MuxReturns(c) ==
    /\ panic = "no" /\ mux[c]["idle"] > 0 /\ c \in stopped
    /\ mux' = [mux EXCEPT ![c]["idle"] = @ - 1]
    /\ UNCHANGED <<env, cache, sconn, active, stopped, main, sched, agg, host,
                   panic>>

---------------------------------------------------------------------------
(* hostAPI *)

\* Mutant: Discover replaces the table entry but does not stop the old client.
AfterNoStop(ss, a) == ss

\* Stop of the client in the table's entry for address a, if there is one.
AfterStop(ss, a) ==
    IF tbl[a] = 0 THEN ss ELSE Tidy([ss EXCEPT ![tbl[a]].stop = TRUE])

\* Disconnect: a handleChannel that has not yet looked up its id will not find
\* it any more.
Disconnects(a) ==
    LET ss == AfterStop(sess, a)
    IN  /\ tbl' = [tbl EXCEPT ![a] = 0]
        /\ ids' = {c \in ids : AddrOfConn(c) # a}
        /\ sess' = [s \in Slot |->
                      IF ss[s].h = "start" /\ AddrOfConn(ss[s].conn) = a
                      THEN [ss[s] EXCEPT !.h = "void"] ELSE ss[s]]

\* Stop waits for pollAEN, which waits forever with an event that nobody takes
\* any more (see Blocked in module TcpClient).
MayHang(a) == tbl[a] # 0 /\ sess[tbl[a]].aenq > 0

FreeSlots == {s \in Slot : sess[s].h = "unused"}

\* A successful Discover with a keep-alive timeout: the client with the same
\* address is stopped and replaced, under its id.
NewClient(c) ==
    LET s == CHOOSE x \in FreeSlots : TRUE
        a == AddrOfConn(c)
    IN  /\ FreeSlots # {}
        /\ tbl' = [tbl EXCEPT ![a] = s]
        /\ ids' = ids \cup {c}
        /\ sess' = [AfterStop(sess, a) EXCEPT
                       ![s] = [Unused EXCEPT !.conn = c, !.h = "start", !.of = s]]
        /\ UNCHANGED stray

---------------------------------------------------------------------------
(* The main loop of Start *)

ClusterConns(cl) == {<<e, sconn[e]>> : e \in {x \in EpsOf(cl) : sconn[x] # 0}}

\* case <-triggerReconnectToClusterCh: stop the scheduler, then try the
\* cluster's connections in random order.
TakesTrigger(cl) ==
    /\ panic = "no" /\ pc = "select" /\ trig[cl] > 0
    /\ trig' = [trig EXCEPT ![cl] = @ - 1]
    /\ timer' = IF stopCh THEN [x \in Cluster |-> [timer[x] EXCEPT !["armed"] = 0]]
                          ELSE timer
    /\ stopCh' = FALSE
    /\ IF ClusterConns(cl) = {} THEN UNCHANGED main
       ELSE /\ pc' = "reconnect" /\ rcl' = cl
            /\ untried' = ClusterConns(cl) /\ UNCHANGED live
    /\ UNCHANGED <<env, cache, sconn, active, stopped, agg, mux, host, panic>>

\* Mutant: nothing is scheduled after the last connection failed.
DiscoverFailsForGood(c) ==
    /\ panic = "no" /\ pc = "reconnect" /\ c \in untried /\ EpOf(c) \notin up
    /\ untried' = untried \ {c}
    /\ IF untried' # {} THEN UNCHANGED <<pc, rcl>>
       ELSE pc' = "select" /\ rcl' = None
    /\ UNCHANGED <<env, cache, sconn, active, stopped, live, agg, mux, host,
                   panic, sched>>

\* getLiveConnection: Discover on the next connection fails.  After the last
\* one a goroutine is started that will trigger another reconnect.
DiscoverFails(c) ==
    /\ panic = "no" /\ pc = "reconnect" /\ c \in untried /\ EpOf(c) \notin up
    /\ untried' = untried \ {c}
    /\ IF untried' # {} THEN UNCHANGED <<pc, rcl, sched>>
       ELSE /\ pc' = "select" /\ rcl' = None
            /\ stopCh' = TRUE
            /\ timer' = [timer EXCEPT ![rcl]["unarmed"] = @ + 1]
            /\ UNCHANGED trig
    /\ UNCHANGED <<env, cache, sconn, active, stopped, live, agg, mux, host,
                   panic>>

\* Mutant: no new multiplexer for the connection that was active before.
DiscoverSucceedsNoMux(c) ==
    /\ panic = "no" /\ pc = "reconnect" /\ c \in untried /\ EpOf(c) \in up
    /\ NewClient(c)
    /\ active' = [active EXCEPT ![rcl] = c]
    /\ mux' = IF active[rcl] = c THEN mux ELSE [mux EXCEPT ![c]["idle"] = @ + 1]
    /\ pc' = "push" /\ live' = c /\ untried' = {} /\ rcl' = None
    /\ UNCHANGED <<env, cache, sconn, stopped, sched, agg, panic>>

\* getLiveConnection: Discover succeeds.  The connection becomes the active
\* one and gets a multiplexer.
DiscoverSucceeds(c) ==
    /\ panic = "no" /\ pc = "reconnect" /\ c \in untried /\ EpOf(c) \in up
    /\ NewClient(c)
    /\ active' = [active EXCEPT ![rcl] = c]
    /\ mux' = [mux EXCEPT ![c]["idle"] = @ + 1]
    /\ pc' = "push" /\ live' = c /\ untried' = {} /\ rcl' = None
    /\ UNCHANGED <<env, cache, sconn, stopped, sched, agg, panic>>

\* getLiveConnection: Discover succeeds, but the Stop of the client it replaces
\* does not return.  The new client gets neither an entry nor a handler.
DiscoverHangs(c) ==
    /\ panic = "no" /\ pc = "reconnect" /\ c \in untried /\ EpOf(c) \in up
    /\ MayHang(AddrOfConn(c)) /\ Disconnects(AddrOfConn(c))
    /\ pc' = "stuck" /\ untried' = {}
    /\ UNCHANGED <<env, cache, sconn, active, stopped, rcl, live, sched, agg, mux,
                   stray, panic>>

\* reconnectToCluster pushes an event to trigger a discovery ...
PushesAen ==
    /\ panic = "no" /\ pc = "push" /\ mux[live]["idle"] > 0
    /\ mux' = [mux EXCEPT ![live]["idle"] = @ - 1, ![live]["aen"] = @ + 1]
    /\ pc' = "select" /\ live' = None
    /\ UNCHANGED <<env, cache, sconn, active, stopped, rcl, untried, sched, agg,
                   host, panic>>

\* Mutant: the push has no timeout.
PushWaits == FALSE

\* ... and gives up when no multiplexer takes it for five seconds.
PushTimesOut ==
    /\ panic = "no" /\ pc = "push" /\ mux[live]["idle"] = 0
    /\ pc' = "select" /\ live' = None
    /\ UNCHANGED <<env, cache, sconn, active, stopped, rcl, untried, sched, agg,
                   mux, host, panic>>

\* The scheduled goroutine reaches its select and reads stopCh there: nil, or
\* the channel of the latest scheduler.
TimerArms(cl) ==
    /\ panic = "no" /\ timer[cl]["unarmed"] > 0
    /\ timer' = [timer EXCEPT ![cl]["unarmed"] = @ - 1,
                              ![cl]["armed"] = IF stopCh THEN @ + 1 ELSE @,
                              ![cl]["orphan"] = IF stopCh THEN @ ELSE @ + 1]
    /\ UNCHANGED <<env, cache, sconn, active, stopped, main, trig, stopCh, agg,
                   mux, host, panic>>

TimerFires(cl, k) ==
    /\ panic = "no" /\ k \in {"armed", "orphan"} /\ timer[cl][k] > 0
    /\ timer' = [timer EXCEPT ![cl][k] = @ - 1]
    /\ trig' = [trig EXCEPT ![cl] = @ + 1]
    /\ UNCHANGED <<env, cache, sconn, active, stopped, main, stopCh, agg, mux,
                   host, panic>>

\* removeConnections: objects the cache no longer has are disconnected if
\* active, dropped and stopped.  ActiveConnection is set to nil in a copy of
\* the cluster's record only.
Removed(cl) == {e \in EpsOf(cl) : sconn[e] # 0 /\ sconn[e] # cached[e]}

\* addConnections: objects the service does not have yet.
Added(cl) == {e \in EpsOf(cl) : cached[e] # 0 /\ sconn[e] # cached[e]}

\* Mutant: a removed connection is stopped but not deleted from the map.
ConnectionsNotDeleted(cl) ==
    [e \in Ep |-> IF e \in Added(cl) THEN cached[e] ELSE sconn[e]]

\* The map after both.
ConnectionsAfter(cl) ==
    [e \in Ep |-> IF e \in Added(cl) THEN cached[e]
                  ELSE IF e \in Removed(cl) THEN 0 ELSE sconn[e]]

\* The removed endpoint whose connection is the active one, if it is removed.
Cut(cl) == {e \in Removed(cl) : active[cl] = <<e, sconn[e]>>}
Known(cl) == {e \in Cut(cl) : <<e, sconn[e]>> \in ids}

\* case <-s.cache.Connections(): the service takes over the cache's objects
\* of the cluster and triggers a reconnect unless it believes to be connected.
TakesNotification(cl) ==
    /\ panic = "no" /\ pc = "select" /\ note[cl] > 0
    /\ note' = [note EXCEPT ![cl] = @ - 1]
    /\ \/ Known(cl) = {} /\ UNCHANGED host
       \/ \E e \in Known(cl) : Disconnects(AddrOf[e]) /\ UNCHANGED stray
    /\ stopped' = stopped \cup {<<e, sconn[e]>> : e \in Removed(cl)}
    /\ sconn' = ConnectionsAfter(cl)
    /\ trig' = IF Removed(cl) \cup Added(cl) # {} /\ active[cl] = None
               THEN [trig EXCEPT ![cl] = @ + 1] ELSE trig
    /\ UNCHANGED <<active, env, cached, gen, main, stopCh, timer, agg, mux, panic>>

\* The same, but the Stop of the active connection's client does not return.
\* Before it came to that, the connections of D were removed.
RemovalHangs(cl, D) ==
    /\ panic = "no" /\ pc = "select" /\ note[cl] > 0
    /\ note' = [note EXCEPT ![cl] = @ - 1]
    /\ \E e \in Known(cl) : MayHang(AddrOf[e]) /\ Disconnects(AddrOf[e])
    /\ D \subseteq Removed(cl) \ Cut(cl)
    /\ stopped' = stopped \cup {<<e, sconn[e]>> : e \in D}
    /\ sconn' = [e \in Ep |-> IF e \in D THEN 0 ELSE sconn[e]]
    /\ pc' = "removing" /\ rcl' = cl
    /\ UNCHANGED <<active, env, cached, gen, untried, live, sched, agg, mux, stray,
                   panic>>

\* Mutant: the event of a dead keep alive is only logged.
IgnoresKeepAliveLoss ==
    /\ panic = "no" /\ pc = "select" /\ agg # <<>> /\ Head(agg)[2] = "ka"
    /\ agg' = Tail(agg)
    /\ UNCHANGED <<env, cache, sconn, active, stopped, main, sched, mux, host,
                   panic>>

\* case <-s.aggregateChan: a dead keep alive triggers a reconnect ...
TakesKeepAliveLoss ==
    /\ panic = "no" /\ pc = "select" /\ agg # <<>> /\ Head(agg)[2] = "ka"
    /\ agg' = Tail(agg)
    /\ trig' = [trig EXCEPT ![ClusterOfConn(Head(agg)[1])] = @ + 1]
    /\ UNCHANGED <<env, cache, sconn, active, stopped, main, stopCh, timer, mux,
                   host, panic>>

\* ... an event leads to a discovery without keep alive on its connection,
\* whose referrals R, with the added self referral among them,
\* HandleReferrals makes the cache's list.
TakesAen(R) ==
    LET c == Head(agg)[1]
        cl == ClusterOfConn(c)
    IN  /\ panic = "no" /\ pc = "select" /\ agg # <<>> /\ Head(agg)[2] = "aen"
        /\ EpOf(c) \in up
        /\ R \subseteq EpsOf(cl)
        /\ SelfRef[EpOf(c)] \in R
        /\ R # Listed(cl) => Within(flaps, aens, changes + 1)
        /\ changes' = IF R # Listed(cl) THEN changes + 1 ELSE changes
        /\ agg' = Tail(agg)
        /\ active' = [active EXCEPT ![cl] = c]
        /\ CacheBecomes(cl, R)
        /\ UNCHANGED <<up, flaps, aens, sconn, stopped, main, sched, mux, host,
                       panic>>

\* The discovery's timeout comes just when it has succeeded: both call Stop, and
\* that of the main loop never gets to the end of aenCh (see Spins in module
\* TcpClient).
TakesAenHangs ==
    /\ panic = "no" /\ pc = "select" /\ agg # <<>> /\ Head(agg)[2] = "aen"
    /\ EpOf(Head(agg)[1]) \in up
    /\ agg' = Tail(agg) /\ pc' = "stuck"
    /\ UNCHANGED <<env, cache, sconn, active, stopped, rcl, untried, live, sched,
                   mux, host, panic>>

TakesAenFails ==
    LET c == Head(agg)[1]
    IN  /\ panic = "no" /\ pc = "select" /\ agg # <<>> /\ Head(agg)[2] = "aen"
        /\ EpOf(c) \notin up
        /\ agg' = Tail(agg)
        /\ trig' = [trig EXCEPT ![ClusterOfConn(c)] = @ + 1]
        /\ UNCHANGED <<env, cache, sconn, active, stopped, main, stopCh, timer,
                       mux, host, panic>>

---------------------------------------------------------------------------
TakesAggregate == (\E R \in SUBSET Ep : TakesAen(R)) \/ TakesAenFails
                  \/ TakesAenHangs \/ TakesKeepAliveLoss

Notified(cl) == TakesNotification(cl) \/ \E D \in SUBSET Ep : RemovalHangs(cl, D)

Reconnects ==
    \/ \E c \in untried :
          DiscoverFails(c) \/ DiscoverSucceeds(c) \/ DiscoverHangs(c)
    \/ PushesAen \/ PushTimesOut

Handler(s) == HandlerStarts(s) \/ HandlerFindsNone(s) \/ HandlerSelects(s)
              \/ HandlerSends(s)

Environment ==
    \/ \E cl \in Cluster, R \in SUBSET Ep : FileAdded(cl, R)
    \/ \E e \in Ep : ServerFlaps(e)
    \/ \E s \in Slot : ServerSendsAen(s)

Next ==
    \/ Environment \/ Reconnects \/ TakesAggregate
    \/ \E cl \in Cluster :
          \/ TakesTrigger(cl) \/ Notified(cl) \/ TimerArms(cl)
          \/ \E k \in {"armed", "orphan"} : TimerFires(cl, k)
    \/ \E s \in Slot : KeepAliveFails(s) \/ Handler(s)
    \/ \E c \in Conn : MuxReturns(c) \/ \E k \in Kind : MuxForwards(c, k)

Spec == Init /\ [][Next]_vars

\* Every goroutine that can run does; a channel operation that is possible
\* again and again happens, since Go serves the waiters of a channel in order
\* and chooses at random between the ready cases of a select.
Fairness ==
    /\ WF_vars(Reconnects) /\ SF_vars(TakesAggregate)
    /\ \A cl \in Cluster :
          /\ SF_vars(TakesTrigger(cl)) /\ SF_vars(Notified(cl))
          /\ WF_vars(TimerArms(cl))
          /\ \A k \in {"armed", "orphan"} : WF_vars(TimerFires(cl, k))
    /\ \A s \in Slot : /\ WF_vars(KeepAliveFails(s))
                       /\ WF_vars(HandlerStarts(s)) /\ WF_vars(HandlerSelects(s))
                       /\ SF_vars(HandlerSends(s))
    /\ \A c \in Conn : /\ WF_vars(MuxReturns(c))
                       /\ \A k \in Kind : WF_vars(MuxForwards(c, k))

FairSpec == Spec /\ Fairness

---------------------------------------------------------------------------
(* Properties *)

\* An object the main loop still works with (in its map, about to be tried, or
\* just connected) has not been stopped: Stop closes AENChan, so a second Stop
\* or the push of reconnectToCluster would panic.
WorksWithOpenObjects ==
    /\ \A e \in Ep : sconn[e] # 0 => <<e, sconn[e]>> \notin stopped
    /\ untried \cap stopped = {}
    /\ live \notin stopped

\* Towards the cache the service does what the cache implements: it sees
\* changes only through notifications, and takes over what the cache has.
Feed == INSTANCE ConnectionFeed WITH
            Key <- Ep, Pair <- Cluster, PairOf <- ClusterOf,
            have <- cached, last <- gen, given <- sconn,
            owed <- {cl \in Cluster : note[cl] > 0 \/ (pc = "removing" /\ rcl = cl)}
ImplementsFeed == Feed!Spec

\* hostAPI.Discover and Disconnect keep one running persistent client per
\* address, and ConnTbl knows it: no client that Discover has returned runs where
\* nobody can disconnect it.
RunningClientsAreInTable ==
    /\ \A s \in Slot : InUse(s) => tbl[AddrOfConn(sess[s].conn)] = s
    /\ \A a \in Addr : tbl[a] # 0 => /\ AddrOfConn(sess[tbl[a]].conn) = a
                                     /\ ~sess[tbl[a]].stop

\* The handleChannel goroutines that still may send on the AENChan of c, and
\* the multiplexers of c that still will receive.
Senders(c) == {s \in Slot : /\ sess[s].h \in {"start", "select", "aen", "ka"}
                            /\ sess[sess[s].of].conn = c}
Receivers(c) == mux[c]["idle"] + mux[c]["aen"]

\* A multiplexer returns after a keep-alive event, and only a successful
\* reconnect starts one; still no handleChannel is ever left without one to
\* take its events, except on an object whose client was also found by a
\* handleChannel that was started for another object and came late.
EverySenderHasReceiver ==
    \A c \in Conn \ (stopped \cup stray) :
        Cardinality(Senders(c)) <= Receivers(c)

\* A reconnect of cl is under way or will be triggered.
ReconnectPending(cl) ==
    \/ trig[cl] > 0 \/ rcl = cl
    \/ \E k \in TimerState : timer[cl][k] > 0

\* "reconnect failed. will schedule a reconnect goroutine." (service.go:224):
\* a cluster that has connections and was never connected will be tried again.
ReconnectIsScheduled ==
    \A cl \in Cluster :
        ClusterConns(cl) # {} /\ active[cl] = None => ReconnectPending(cl)

\* "disconnecting active connection and setting active connection to nil"
\* (service.go:391): a removed connection is not the active one any more.
ActiveIsListed ==
    \A cl \in Cluster : active[cl] # None => active[cl] \notin stopped

\* "if does not exists remove the connection and disconnect it"
\* (service.go:368): no persistent client is left on a removed connection.
RemovedIsDisconnected ==
    \A s \in Slot : InUse(s) => sess[s].conn \notin stopped

\* "incase ka closed we like to notify connection lost"
\* (nvmehost_impl.go:119): the keep-alive event is sent for a lost connection,
\* not for a client that Disconnect stopped.
LossIsReal == \A s \in Slot : sess[s].h = "ka" => sess[sess[s].of].lost

Connected(cl) ==
    /\ active[cl] # None
    /\ \E s \in Slot : InUse(s) /\ sess[s].conn = active[cl] /\ ~sess[s].lost
                       /\ sess[s].h # "ka"

Reachable(cl) == \E e \in EpsOf(cl) : sconn[e] # 0 /\ e \in up

\* The main loop waits for a Stop that does not return.
Hung == pc \in {"stuck", "removing"}

\* A cluster with a reachable endpoint gets connected, however its servers
\* went up and down and its list changed before, unless the main loop hangs in
\* the Stop of a client, or the service goes on believing in a connection that
\* it has removed (see ActiveIsListed).
Reconnected ==
    \A cl \in Cluster :
        /\ [](panic = "no" /\ ~Hung) /\ <>[]Reachable(cl)
        /\ []<>(active[cl] \notin stopped)
        => []<>Connected(cl)
============================================================================

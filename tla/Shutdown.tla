------------------------------ MODULE Shutdown ------------------------------
(***************************************************************************)
(* How the discovery client starts and ends: App.Start with its goroutine  *)
(* for signals (application/app.go), and Stop of the service, around the   *)
(* running service of module Service.  Its goroutines end with three       *)
(* contexts: the application's, and below it the service's and the         *)
(* cache's, to which the contexts of the connections belong.               *)
(*                                                                         *)
(* App never calls Stop of the service: the process ends when App.Start    *)
(* returns.  Stop is called by a program that has a Service of its own, as *)
(* service_test.go does.                                                   *)
(***************************************************************************)
EXTENDS Service, FiniteSetsExt

CONSTANTS
    Owners,       \* who has the service: "app", or a "caller" of Stop
    MaxSignal     \* bound of the model: signals sent to the process

ASSUME ShutdownAssumption ==
    Owners \subseteq {"app", "caller"} /\ MaxSignal \in Nat /\ IsFiniteSet(Ep)

VARIABLES
    owner,
    app,                 \* where App.Start is
    signals,             \* the signals so far: "TERM" also for INT and QUIT
    signalChan, sg,      \* the channel and where its goroutine is
    done,                \* the contexts that have been cancelled
    stop, owed, victim,  \* Stop: where it is, the connections it has yet to
                         \* visit, and the one it disconnects
    aggClosed,           \* aggregateChan is closed
    wg, adding           \* the wait group; main is between go and wg.Add

process == <<owner, app, signals, signalChan, sg>>
stopping == <<stop, owed, victim, aggClosed>>
group == <<wg, adding>>
allVars == <<vars, process, done, stopping, group>>

ShutdownInit ==
    /\ Init
    /\ owner \in Owners /\ app = IF owner = "app" THEN "dirs" ELSE "made"
    /\ signals = <<>> /\ signalChan = "empty" /\ sg = "wait" /\ done = {}
    /\ stop = "no" /\ owed = {} /\ victim = None
    /\ aggClosed = FALSE /\ wg = 0 /\ adding = FALSE

\* Every variable has its type; the main loop may have ended, and a panic has
\* more causes than in module Service.
ShutdownTypeOK ==
    /\ EnvType /\ CacheType /\ MapType /\ SchedType /\ MuxType
    /\ pc \in {"select", "reconnect", "push", "stuck", "removing", "ended"}
    /\ panic \in {"no", "closed channel", "nil queue", "no entry",
                  "negative counter", "concurrent map", "nil cache"}
    /\ owner \in Owners /\ app \in {"dirs", "made", "wait", "failed", "returned"}
    /\ signals \in Seq({"TERM", "HUP"}) /\ signalChan \in {"empty", "TERM", "HUP"}
    /\ sg \in {"wait", "cancel", "cache", "done"}
    /\ done \subseteq {"app", "service", "cache"}
    /\ stop \in {"no", "visit", "stuck", "close", "wait", "done"}
    /\ owed \subseteq Conn /\ victim \in Conn \cup {None}
    /\ aggClosed \in BOOLEAN /\ wg \in Nat /\ adding \in BOOLEAN

ServiceDone == done \cap {"app", "service"} # {}
CacheDone == done \cap {"app", "cache"} # {}
Dies(why) == panic' = why /\ UNCHANGED <<env, cache, sconn, active, stopped, main, sched,
                                         agg, mux, host, process, done, stopping, group>>

----------------------------------------------------------------------------
(* App.Start *)

\* The directories and the device.
AppFails ==
    /\ panic = "no" /\ app = "dirs" /\ app' = "failed"
    /\ UNCHANGED <<vars, owner, signals, signalChan, sg, done, stopping, group>>

\* NewCache, NewHostApi and NewServiceExtended.
AppCreates ==
    /\ panic = "no" /\ app = "dirs" /\ app' = "made"
    /\ UNCHANGED <<vars, owner, signals, signalChan, sg, done, stopping, group>>

\* Start of the service returns an error of the cache's Run, or has started
\* the main loop; then App waits for its context.
ServiceStarts ==
    /\ panic = "no" /\ app = "made" /\ app' \in {"failed", "wait"}
    /\ UNCHANGED <<vars, owner, signals, signalChan, sg, done, stopping, group>>

AppReturns ==
    /\ panic = "no" /\ owner = "app" /\ app = "wait" /\ "app" \in done
    /\ app' = "returned"
    /\ UNCHANGED <<vars, owner, signals, signalChan, sg, done, stopping, group>>

Ended == app \in {"failed", "returned"} \/ panic # "no"

\* A signal is dropped when the channel is full.
SignalArrives(s) ==
    /\ ~Ended /\ owner = "app" /\ Len(signals) < MaxSignal
    /\ signals' = Append(signals, s)
    /\ signalChan' = IF signalChan = "empty" THEN s ELSE signalChan
    /\ UNCHANGED <<vars, owner, app, sg, done, stopping, group>>

\* Mutant: the goroutine ends with any signal.
TakesAnySignal ==
    /\ ~Ended /\ sg = "wait" /\ signalChan # "empty"
    /\ signalChan' = "empty" /\ sg' = "done"
    /\ UNCHANGED <<vars, owner, app, signals, done, stopping, group>>

\* The goroutine takes one signal: it ends the application or is ignored.
TakesSignal ==
    /\ ~Ended /\ sg = "wait" /\ signalChan # "empty"
    /\ signalChan' = "empty" /\ sg' = IF signalChan = "TERM" THEN "cancel" ELSE "done"
    /\ UNCHANGED <<vars, owner, app, signals, done, stopping, group>>

\* App.Stop: the context, then the cache, if there is one yet.
AppCancels ==
    /\ ~Ended /\ sg = "cancel" /\ sg' = "cache" /\ done' = done \cup {"app"}
    /\ UNCHANGED <<vars, owner, app, signals, signalChan, stopping, group>>

AppStopsCache ==
    /\ ~Ended /\ sg = "cache"
    /\ \/ app = "dirs" /\ Dies("nil cache")
       \/ /\ app # "dirs" /\ sg' = "done" /\ done' = done \cup {"cache"}
          /\ UNCHANGED <<vars, owner, app, signals, signalChan, stopping, group>>

----------------------------------------------------------------------------
(* The service runs, with its wait group and its contexts *)

Runs == ~Ended /\ app = "wait"
SameProcess == UNCHANGED <<process, done, stopping>>

\* A step of module Service that the wait group and the contexts are no part of.
Plain(A) == Runs /\ A /\ SameProcess /\ UNCHANGED group

\* multiplexNewConnection starts the goroutine; it is counted after that.
Starts(c) == Runs /\ DiscoverSucceeds(c) /\ adding' = TRUE /\ UNCHANGED wg /\ SameProcess

CountsIt ==
    /\ Runs /\ adding
    /\ wg' = wg + 1 /\ adding' = FALSE /\ UNCHANGED vars /\ SameProcess

\* The push comes next, and dies on a channel that Stop has closed.
Pushes ==
    /\ pc = "push" /\ ~adding
    /\ \/ live \notin stopped /\ Plain(PushesAen \/ PushTimesOut)
       \/ live \in stopped /\ Runs /\ Dies("closed channel")

\* wg.Done for a multiplexer that returns with step A.
Leaves(A) ==
    /\ Runs
    /\ \/ wg > 0 /\ A /\ wg' = wg - 1 /\ UNCHANGED adding /\ SameProcess
       \/ wg = 0 /\ Dies("negative counter")

\* It forwards what it has, unless aggregateChan is closed.
Forwards(c, k) ==
    /\ mux[c][k] > 0
    /\ \/ ~aggClosed /\ k = "aen" /\ Plain(MuxForwards(c, k))
       \/ ~aggClosed /\ k = "ka" /\ Len(agg) < AggCap /\ Leaves(MuxForwards(c, k))
       \/ aggClosed /\ Runs /\ Dies("closed channel")

\* Mutant: it is not taken off the count when the channel is closed.
ReturnsUncounted(c) ==
    /\ Runs /\ mux[c]["idle"] > 0 /\ (c \in stopped \/ CacheDone)
    /\ mux' = [mux EXCEPT ![c]["idle"] = @ - 1]
    /\ UNCHANGED <<env, cache, sconn, active, stopped, main, sched, agg, host, panic, group>>
    /\ SameProcess

\* The context of the connection, which is below the cache's, is done, or
\* AENChan is closed.
Returns(c) ==
    /\ mux[c]["idle"] > 0 /\ (c \in stopped \/ CacheDone)
    /\ Leaves(/\ mux' = [mux EXCEPT ![c]["idle"] = @ - 1]
              /\ UNCHANGED <<env, cache, sconn, active, stopped, main, sched, agg, host,
                             panic>>)

\* case <-s.ctx.Done().
LoopEnds ==
    /\ ServiceDone /\ pc = "select"
    /\ Plain(/\ pc' = "ended"
             /\ UNCHANGED <<env, cache, sconn, active, stopped, rcl, untried, live, sched, agg,
                            mux, host, panic>>)

----------------------------------------------------------------------------
(* Stop of the service *)

Listening == {<<e, sconn[e]>> : e \in {x \in Ep : sconn[x] # 0}}

StopCancels ==
    /\ Runs /\ owner = "caller" /\ stop = "no"
    /\ done' = done \cup {"service"} /\ stop' = "visit" /\ owed' = Listening
    /\ UNCHANGED <<vars, process, victim, aggClosed, group>>

\* A connection of the map, also one that the main loop adds meanwhile, is
\* disconnected if its id is in the table ...
StopDisconnects(c) ==
    /\ Runs /\ stop = "visit" /\ victim = None /\ c \in Listening
    /\ victim' = c /\ owed' = owed \ {c}
    /\ IF c \in ids THEN Disconnects(AddrOfConn(c)) /\ UNCHANGED stray
                    ELSE UNCHANGED host
    /\ UNCHANGED <<env, cache, sconn, active, stopped, main, sched, agg, mux, panic, process,
                   done, stop, aggClosed, group>>

\* ... which may wait forever, as it may in the main loop ...
StopHangs(c) ==
    /\ Runs /\ stop = "visit" /\ victim = None /\ c \in Listening
    /\ stop' = "stuck" /\ owed' = owed \ {c}
    /\ c \in ids /\ MayHang(AddrOfConn(c)) /\ Disconnects(AddrOfConn(c))
    /\ UNCHANGED <<env, cache, sconn, active, stopped, main, sched, agg, mux, stray, panic,
                   process, done, victim, aggClosed, group>>

\* ... deleted from the map and stopped.
StopDeletes ==
    /\ Runs /\ victim # None
    /\ \/ victim \in stopped /\ Dies("closed channel")
       \/ /\ victim \notin stopped
          /\ sconn' = [sconn EXCEPT ![EpOf(victim)] = 0]
          /\ stopped' = stopped \cup {victim} /\ victim' = None
          /\ UNCHANGED <<env, cache, active, main, sched, agg, mux, host, panic, process,
                         done, stop, owed, aggClosed, group>>

\* The main loop writes to the map over which Stop ranges: the runtime may
\* notice and end the process.
MapFaults ==
    /\ Runs /\ stop = "visit"
    /\ pc = "reconnect" \/ (pc = "select" /\ \E cl \in Cluster : note[cl] > 0)
    /\ Dies("concurrent map")

\* The clusters in s.connections: they are never deleted.
Clusters == {ClusterOfConn(c) : c \in Listening \cup stopped}

\* What was in the map when the range began has been visited or removed.  Then
\* one alert is taken out for each cluster.
StopDrains ==
    /\ Runs /\ stop = "visit" /\ victim = None /\ owed \cap Listening = {}
    /\ stop' = "close"
    /\ agg' = SubSeq(agg, Cardinality(Clusters) + 1, Len(agg))
    /\ UNCHANGED <<env, cache, sconn, active, stopped, main, sched, mux, host, panic, process,
                   done, owed, victim, aggClosed, group>>

\* Mutant: the cache is not stopped.
StopClosesOnly ==
    /\ Runs /\ stop = "close" /\ stop' = "wait" /\ aggClosed' = TRUE
    /\ UNCHANGED <<vars, process, done, owed, victim, group>>

\* aggregateChan is closed and the cache stopped: one step, since the context
\* of the cache does no more than let the multiplexers return.
StopCloses ==
    /\ Runs /\ stop = "close" /\ stop' = "wait"
    /\ aggClosed' = TRUE /\ done' = done \cup {"cache"}
    /\ UNCHANGED <<vars, process, owed, victim, group>>

StopReturns ==
    /\ Runs /\ stop = "wait" /\ wg = 0 /\ stop' = "done"
    /\ UNCHANGED <<vars, process, done, owed, victim, aggClosed, group>>

----------------------------------------------------------------------------
Application == AppFails \/ AppCreates \/ ServiceStarts \/ AppReturns
SignalGoroutine == TakesSignal \/ AppCancels \/ AppStopsCache
Stop ==
    \/ (\E c \in Listening : StopDisconnects(c) \/ StopHangs(c)) \/ StopDeletes
    \/ StopDrains \/ StopCloses \/ StopReturns
Reconnect ==
    \/ \E c \in untried : Plain(DiscoverFails(c)) \/ Plain(DiscoverHangs(c)) \/ Starts(c)
    \/ CountsIt \/ Pushes
Multiplexer == \E c \in Conn : Returns(c) \/ \E k \in Kind : Forwards(c, k)

ShutdownNext ==
    \/ Application \/ SignalGoroutine \/ \E s \in {"TERM", "HUP"} : SignalArrives(s)
    \/ StopCancels \/ Stop \/ MapFaults
    \/ Reconnect \/ Multiplexer \/ LoopEnds
    \/ Plain(Environment) \/ Plain(TakesAggregate)
    \/ \E cl \in Cluster :
          \/ Plain(TakesTrigger(cl)) \/ Plain(Notified(cl)) \/ Plain(TimerArms(cl))
          \/ \E k \in {"armed", "orphan"} : Plain(TimerFires(cl, k))
    \/ \E s \in Slot : Plain(KeepAliveFails(s)) \/ Plain(Handler(s))

\* Goroutines that can run do, and the select of the main loop sees its context
\* done sooner or later, whatever else is ready.  Nothing is assumed of the
\* clients, the timers and what the main loop takes from its channels.
ShutdownFairness ==
    /\ WF_allVars(Application \/ SignalGoroutine) /\ WF_allVars(Stop)
    /\ WF_allVars(Reconnect) /\ WF_allVars(Multiplexer) /\ SF_allVars(LoopEnds)

ShutdownSpec == ShutdownInit /\ [][ShutdownNext]_allVars /\ ShutdownFairness

----------------------------------------------------------------------------
(* Properties *)

\* The wait group counts the multiplexers that run, but for the one that
\* reconnectToCluster has started and not yet counted: Stop waits for as many
\* as there are.
CountsMultiplexers ==
    MapThenSumSet(LAMBDA x : mux[x[1]][x[2]], Conn \X MuxState)
        = wg + IF adding THEN 1 ELSE 0

\* Stop returns, hangs in the Stop of a client, or the process dies: whatever
\* connections the main loop adds and whatever multiplexers it starts while Stop
\* runs, they all end.
StopEnds == stop = "visit" ~> stop \in {"done", "stuck"} \/ Ended

\* The main loop ends with its context, also when it is about to push an event
\* to a multiplexer that has gone already, unless it hangs in the Stop of a client.
MainLoopEnds == owner = "caller" /\ ServiceDone ~> pc = "ended" \/ Hung \/ Ended

\* If the first signal is to end the process and finds the cache made, App.Start
\* returns, also when the service does not run yet, unless the service has died of
\* one of its own panics.  App.Stop would dereference a cache that is not yet made.
SignalEnds ==
    signals # <<>> /\ Head(signals) = "TERM" /\ app # "dirs"
        ~> app \in {"failed", "returned"} \/ panic \notin {"no", "nil cache"}

\* What the comment in handleSignals says: "Wait for a SIGINT (perhaps
\* triggered by user with CTRL-C)", "Run cleanup when signal is received".
SignalsEnd == (\E i \in DOMAIN signals : signals[i] = "TERM") ~> Ended
=============================================================================

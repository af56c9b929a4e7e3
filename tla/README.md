# A TLA+ model of the discovery client

The discovery client is a daemon that keeps a host connected to NVMe/TCP
clusters. It collects discovery endpoints from files and referrals, holds one
persistent connection to a discovery controller per cluster, reads its log page,
follows its events and asks the kernel to connect what the log lists. The same
repository has the controller's side of the protocol (`pkg/nvme`).

This directory models both sides in TLA+, checks the models with TLC and proves
the central invariants with TLAPS. `PROJECT.json` maps every definition to the
lines it models and lists runs, mutants, hazards and theorems.

    tlc -workers 2 -config Cache.cfg MCCache     # a run: config and module
    tlapm ServiceProofs.tla                      # the proofs of a module

## The system and its models

| part of the program | state | operations | module |
|---|---|---|---|
| endpoint cache (`clientconfig/cache.go`) | entries, connections by pair and key, JSON file, pending notifications | sync, fileAdded, addEntry, deleteEntry, HandleReferrals, createReferralsFile, notifyChange | `Cache`, `CacheRace` |
| configuration directory, watcher, auto-detection (`watcher.go`, `conf_parser.go`, `configgen.go`) | files, queue of inotify events, times of files | put, edit, delete, move; the watcher's handler; shouldGenerateAutoDetectedEntries | `Cache` |
| service main loop (`service/service.go`) | active connection per cluster, `aggregateChan`, reconnect triggers and timers, multiplexers | the cases of the select, reconnectToCluster, the scheduled retry, multiplexNewConnection; Stop | `Service`, `Shutdown` |
| channel between cache and service (`Cache.Connections()`) | connections of both, notifications owed | change, tell, drop, restart | abstractly `ConnectionFeed` |
| application (`application/app.go`) | contexts, channel of signals | Start, Stop, handleSignals | `Shutdown` |
| host API (`nvmehost_impl.go`) | table of persistent clients | Discover, Disconnect, handleChannel | `Service` (many clients), `TcpClient` (one, in detail) |
| NVMe/TCP client (`tcp_client.go`, `nvmehost/tcp_queue.go`) | queue, command ids, outstanding requests, channels, context | Discover, pollAEN, keepAlive, recvPdu, Stop, timer | `TcpClient` |
| log page (host `tcp_queue.go`, controller `discovery.go`) | log and its generation; offset, entries read | getLogPageEntries; execute of Get Log Page | `LogPage` |
| discovery controller (`pkg/nvme`) | queue, registers, pending event requests, lock, context | ioWork, handleReceivePdu, pollResponseChannel, keepAliveHandler, handleAENEvents, destroy, delete | `Target` |
| scatter list (`sgl.go`) | buffers and two cursors | allocate, write, read | `ScatterList`, abstractly `ByteBuffer` |
| kernel connect client (`nvmeclient/nvme_client.go`) | controllers of the kernel, log read so far | Discover, Connect, ConnectAllNVMEDevices | `KernelClient` |

`Cache` sends the notifications that `Service` receives. `ConnectionFeed` says
what one promises the other; both modules are shown to implement it, the cache
from the sending end and the service from the receiving end, so what holds of the
feed holds where the two meet. `Shutdown` extends `Service` with the application
around it and with Stop. `Service` has of a
client only whether it runs, what it reports and where its `handleChannel` is;
`TcpClient` has the goroutines of one client. `LogPage` is the one command of
`TcpClient` that takes several requests; `Target` is what answers. `KernelClient`
runs the other way to the same log, through the kernel.

Each module `X` with proofs has a module `XProofs`; `MCX` holds the values of the
constants that TLC needs.

### How state and actions correspond to the code

- A goroutine is a program counter (a variable such as `recv`, `poll`, `pc[a]`)
  whose values are the places where it can be overtaken: before and after a
  channel operation, a lock, a system call, a lookup of shared state. What runs
  between two such places is one action.
- An unbuffered channel is a joint step of sender and receiver. A closed channel
  is a Boolean; a send on it, a second close and a nil dereference end the
  process (`dead`).
- A data race is a choice: `KaWrites` in `Target` writes either the status read
  before or the present one; `Garbled` in `TcpClient` is two goroutines in one
  buffered writer; `CacheRace` has two calls of `addEntry`, access by access.
- Messages, names and payloads are members of small sets. Sizes in `LogPage` are
  in units of 1024 bytes, the size of the header and of an entry.
- Definitions commented "Mutant" are altered copies of the definition that
  follows; no specification uses them. They show that the properties notice.

**Cache.** The main loop's HandleReferrals, the watcher (startup included), the
goroutines that deliver notifications, the user, the clock and a crash
interleave. Each call of `addEntry` or `deleteEntry` is one step. The code takes
no lock, so this holds only for calls that do not overlap; `CacheRace` has what
happens when they do. The error paths of the disk are there: the JSON file that
cannot be read, the copy that cannot be written or renamed, the temporary file that a
crash leaves behind (`tmp`, which keeps auto-detection from running again), the directory that cannot be read or watched. A file can be one that `parse` rejects (`Bad`), or
have a line that ends after a flag (`Short`), on which `parse` panics. A referral is
never passed to `verify`, but what is read from the JSON file is: a referral that
`verify` refuses (`Refused`) is listed and saved, and makes each later start from that
file fail (`RunFails`).

**Service.** Connection objects are endpoints with a generation, clients are
slots. Endpoints go up and down, send events and change their referrals; the
cache's own steps are reduced to "the list becomes this" with its notification.
`ConnTbl` has one entry per address, which endpoints may share (`AddrOf`); `ids` are
the connections that know the id of their client. A `handleChannel` looks up its client when
it starts, not when it is created: by then Discover may have replaced the client,
and the goroutine serves the new one (`of`), or there may be none, and it panics. An
object whose client got a goroutine of another object this way is a `stray`. The Stop of a
client with an undelivered event may not return, as `TcpClient` shows; then the main
loop hangs where it called it (`DiscoverHangs`, `TakesAenHangs`, `RemovalHangs`).

**ConnectionFeed.** The cache has at most one connection object per key, and a
new object is never an old one again (they are numbered). A change puts a pair
among those owed a notification, and a notification hands over what the cache has
when it is received, which may stand for several changes. The service may drop
connections that the cache has already replaced or removed before it takes over the
rest: that is what is seen of it while it hangs in the middle of removals. In `Cache` the owed
pairs are those of the watcher and of HandleReferrals, on their way to
notifyChange, and those of the goroutines that send; in `Service` they are the
clusters with a notification waiting or being handled.

**Shutdown.** The three contexts (application, service, cache) are the set
`done`. A multiplexer is started first and counted after (`Starts`, `CountsIt`),
as in the code. Stop visits the connections one by one while the main loop, whose
context is only looked at in its select, may go on adding, removing and
reconnecting; a second close, a send on a closed channel, a negative counter and,
possibly, the runtime's check of concurrent map accesses end the process. Only a
program that has a Service of its own calls Stop; App never does. Stop disconnects
the client of a connection before it stops the connection, and may hang there
(`StopHangs`). App.Stop dereferences the cache, which is nil while App.Start is still
preparing the directories. The cache is reduced to its context, as in `Service`.

**TcpClient.** Commands of Discover whose answers are not looked at are one
command, and so are the two of Stop. A case of the constant `Cases` says whether
there is a keep-alive timeout and who may call Stop. A keep-alive that fails closes
the connection and doneCh in two steps. ClearChannels takes the events that wait, one
by one, and never ends on a channel that another Stop has closed.

**LogPage.** Two error paths of execute cannot be taken and are left out: the
controller always has a subsystem, because the connect that comes first registers
with it, and a request for nothing, because the host always asks for at least one
unit.

**Target.** One connection, from the accept to the end of `destroy`. The server
that accepts connections and the subsystem that notifies are not in the
repository; they are external. Commands that were received before the connection
was lost or closed are still read and executed: a connect among them is not
understood while there is a controller, and makes another one, which nobody deletes,
after the first was deleted. A header that cannot be parsed ends
the receiver on any connection. A write of the configuration register updates cc and
csts in one step; `keepAliveHandler`, which takes no lock, reads csts before or after
it and writes later. A connect with a queue size of zero is refused like others; the
two goroutines that the code leaves running then touch nothing else and are left out.

**KernelClient.** One call of ConnectAllNVMEDevices. The log changes between and
within reads; a connect fails before the kernel is asked, because it has the
controller, or after it has added one.

## What the runs check

| run | properties | what it shows |
|---|---|---|
| `Cache` | NoDuplicates, EntriesMatchConnections, NoLostNotification, ReferralsKept, ImplementsFeed, RestoresSavedList, ServiceConverges, FileIsListed | see below |
| `CacheRaceDuplicates` | DuplicatesIgnored (violated) | two overlapping `addEntry` list one endpoint twice |
| `Service` | WorksWithOpenObjects, RunningClientsAreInTable, EverySenderHasReceiver, ReconnectIsScheduled, Reconnected, ImplementsFeed | one cluster, two endpoints: no stopped connection is used, no client runs outside the table, no `handleChannel` sends to nobody, a cluster that was never connected is tried again; one with a reachable endpoint gets connected again, unless the main loop hangs or believes in a removed connection; the service is the receiving end of `ConnectionFeed` |
| `ServiceClusters` | ReconnectIsScheduled (violated) | with two clusters, the reconnect of one cancels the scheduled reconnect of the other |
| `LogPage` | ReturnsOneVersion, ReadingEnds | what is returned is the whole log of one generation; reading ends, so no page is refused |
| `Client` | RepliesReachSender, EventIsAwaited, SessionSurvives, LossReported, EventReported, DiscoverEnds | a session without Stop, with a connection that may be lost, and a Discover whose timer fires |
| `ClientStop` | NoSendOnClosed, StopReturns | Stop by the caller or by the timer at any point: no event is sent on a closed channel; when all goroutines have come to rest a Stop has returned, spins on a channel closed by another Stop, or waits for a pollAEN with an event nobody takes |
| `Target` | ReadyIsEnabled, NoneLost, AnsweredOnce, PendingBounded, EventsInOrder, LostIsNoticed, EventAnswered, DestroyEnds | all commands, an event, expiry and loss of the connection at any point, and what the controller does in the end |
| `Kernel` | ConnectsOneLog, AllAttempted, ReportedOnce | connect-all against changing logs and failing connects: one log, all its entries; what is returned was added by this call, once, and what was added is returned, warned about or being retried, as long as the kernel has it |
| `ScatterList` | ImplementsBytes | chunks over several buffers are one byte buffer; every call returns |
| `Shutdown` | CountsMultiplexers, StopEnds, MainLoopEnds, SignalEnds | Stop at any point of the service's life, and a signal at any point of the application's start |
| `ShutdownSignals` | SignalsEnd (violated) | after a signal that is ignored no other is read |

The type invariants (`TypeOK`, `ShutdownTypeOK`) document the variables. They are
in no run; TLC confirms each in the instances above, and those of `Cache`,
`Service`, `LogPage` and `TcpClient` are proved or part of what is proved. Comments at the definitions
state each property in full.

The run `Cache` asks whether files and referrals, changing the list at the same
time, with saves that fail and a crash in between, keep the list free of
duplicates and in step with the connections; whether a change always has a
notification on its way that will tell the service of it; whether referrals
collected for removal never remove what the referrals list; and whether a restart
restores exactly the list that was saved, in its order, as far as startup gets.

The run `Target` asks of the registers that RDY is never set while the controller is
disabled or shut down. The exception is what the lack of a lock makes of it: an expired
keep-alive writes back a csts it read before RDY was cleared, with CFS added. LostIsNoticed
then says that the queue of such a controller ends.

The run `Shutdown` asks whether Stop ends, whatever the main loop still does: it
does, unless the Stop of a client hangs, because a multiplexer that is started late finds its connection stopped or
the cache's context done, and because one that is about to forward finds the
channel closed, which ends the process. MainLoopEnds needs the timeout of the push
in reconnectToCluster: the multiplexer it is meant for may have returned already.

There are three refinements. `ImplementsFeed` of `Cache` and of `Service` show
the two ends of `ConnectionFeed`. `ImplementsBytes`: `ScatterList`, with the bytes of its
buffers put one after the other and its cursors turned into positions,
implements `ByteBuffer`, one array with a position of the writer and one of the
reader that never go back; `ByteBuffer` also says that every call returns.

### Bounds, and why they are enough

- `Cache`: two clusters, three endpoints, one of them only in referrals and
  refused by `verify`; one file that is also the auto-detected one, with one of two
  contents, rejected or with a short line; one action of the user, two calls of
  HandleReferrals, one crash, one tick of the clock. A race needs two writers, and there are the
  watcher and the main loop; the second referral meets what the first left.
- `CacheRace`: three calls on two keys; two calls suffice for the violation.
- `Service`: two endpoints so that a reconnect has an alternative; two
  generations, so that an object can be removed and listed again; five slots for
  clients, as many as the changes need; `aggregateChan` of size one, so that it
  fills up. The constant `Budget` is a set of triples of what the environment may
  do (servers going up or down, events, changes of the list); `MCLive` is the
  union of four boxes, each of which lets one kind happen more often: one flap, one
  event and one change; three changes with an event; two events with a change; two
  flaps with a change. The two endpoints are alike, so `MCInit` leaves out the initial
  states in which only the second server is up. Each has an address of its own; that
  endpoints may share one is covered by the proofs.
- `Shutdown`: the same two endpoints with one generation, three slots and up to
  two changes, one of which can come while Stop runs; at most one server is up at
  first (which one does not matter, they are alike) and the other may come up. One
  signal; `ShutdownSignals` has two, and no service activity.
- `LogPage`: five entries with pages of four units take more than one page and
  end inside one; the log changes once, at any point of the reading and to any other
  log. More changes are covered by the proof.
- `Client`: eight ids are enough that none is used twice in a session, which
  the liveness properties need (a request whose id is taken over gets no answer);
  two events, the second while the first is being delivered. `ClientStop` has
  five ids, so that the counter wraps.
- `Target`: five commands are connect, enable, the feature that enables events
  and two event requests, or three event requests against the limit of two.
  `MCCommand` says which commands may come at which place: each kind at one where
  it is handled (before and after the connect, before and after enabling), and
  event requests at the end. A connect at the second place comes again on a
  connection that has a controller, or that had one. With one event a second request
  stays pending.
- `Kernel`: two entries, two changes of the log, one lost controller,
  three attempts. `ScatterList`: up to five bytes over buffers of up to three.

Deadlock is not checked: every model ends when its bounds are used up or the
process has ended, and most code here is waiting for input when it is done.
Liveness properties say what must not wait.

### Fairness

Weak fairness of each goroutine: the Go scheduler runs what is runnable. `Service`
also has strong fairness of channel operations, because Go serves the waiters of
a channel in order and a select picks among its ready cases at random, so that
what is possible again and again happens. Timers are fair where the code arms
them: the timer of Discover, the retry of the service, the keep-alives of a client
whose server is gone, and the controller's keep-alive timer once the connection is
lost. The receiver of the controller is sure to see an error only of a connection that
is lost or closed. `Shutdown` assumes less: weak fairness of App and its goroutine for
signals taken together, of Stop, of a reconnect that has begun (its timeout
included) and of the multiplexers taken together, and strong fairness of the
main loop's select for its context; nothing of the clients and the timers.
Nothing is assumed of the user, the crash, the network, the controller as seen
from the host, the host as seen from the controller, and the subsystem.

## What is proved

The theorems hold for every value of the constants that satisfies the module's
`ASSUME`: any number of endpoints, events, commands and log entries.

| theorem | property | argument |
|---|---|---|
| `ServiceProofs!TypeCorrect` | TypeOK | inductive; `aggregateChan` stays within its capacity |
| `ServiceProofs!OpenObjects` | WorksWithOpenObjects | part of `IInv == TypeOK /\ Objects /\ Clients /\ Control` |
| `ServiceProofs!ClientsInTable` | RunningClientsAreInTable | the same `IInv` |
| `ServiceProofs!ReconnectScheduled` | ReconnectIsScheduled | for a single cluster, on top of `IInv` |
| `ServiceCountProofs!SendersHaveReceivers` | EverySenderHasReceiver | the handlers of a connection that is no `stray` do not outnumber its multiplexers, step by step |
| `ServiceProofs!ServiceImplementsFeed` | ImplementsFeed (Service) | every action is a Change, a Tell, a Drop or a stutter of the feed, from `IInv` |
| `ShutdownProofs!WaitGroupCounts` | CountsMultiplexers | `Data /\ Counted`, with the sum over all connections followed term by term |
| `CacheProofs!ListHasNoDuplicates` | NoDuplicates | `IInv == TypeOK /\ Lists /\ Numbered /\ WorkerPlace /\ HandlerPlace /\ Restoring` |
| `CacheProofs!ListAndConnectionsAgree` | EntriesMatchConnections | the same `IInv` |
| `CacheProofs!PruningKeepsReferrals` | ReferralsKept | the same `IInv` |
| `CacheProofs!RestartRestoresList` | RestoresSavedList | the same `IInv` |
| `CacheProofs!CacheImplementsFeed` | ImplementsFeed (Cache) | every action is a Change, a Tell, a Restart or a stutter of the feed |
| `CacheProofs!FeedLosesNothing`, `FeedGivesNewer` | NothingLost, OnlyNewer of `ConnectionFeed` | from the feed's specification alone: `FeedInv == FeedType /\ FeedOrdered /\ NothingLost` |
| `CacheProofs!NoChangeIsLost` | NoLostNotification | CacheImplementsFeed and FeedLosesNothing |
| `CacheProofs!ServiceGetsNewer` | OnlyNewer (of the cache's feed) | CacheImplementsFeed and FeedGivesNewer |
| `LogPageProofs!OneVersion` | ReturnsOneVersion | `IInv == TypeOK /\ Progress /\ Prefix /\ Returned /\ PagesFit` |
| `LogPageProofs!PagesAlwaysFit` | PagesFit | the same `IInv` |
| `TcpClientProofs!NeverSendsOnClosed` | NoSendOnClosed | `IInv == PcType /\ Fresh /\ Closed` |
| `TcpClientProofs!TypeCorrect` | TypeOK | `QueueType /\ FlagType /\ PlaceType`, with `PcType` of `IInv` |
| `TcpClientProofs!RepliesReachTheirSender` | the last conjunct of RepliesReachSender | `Session == mayStop = {} => Roles /\ Requests /\ foreign = {} /\ dead = "no"`, on top of the types |
| `TcpClientProofs!AnswersReachTheirSender` | RepliesReachSender, while ids do not wrap | `Counting == mayStop = {} => Ids /\ OneKeepAlive /\ Few /\ Flight`, on top of `Session` |
| `TcpClientProofs!IdsAreNotReused` | no entry of the table is replaced, while ids do not wrap | the same `Counting` |
| `TcpClientProofs!EventsAreAwaited` | EventIsAwaited | the same `Session` |
| `TcpClientProofs!SessionsSurvive` | SessionSurvives | the same `Session` |
| `TargetProofs!PendingIsBounded` | PendingBounded | `PInv == Shape /\ LockHeld` |
| `TargetProofs!ReadyMeansEnabled` | ReadyIsEnabled | `RInv`: ReadyIsEnabled, and what holds while there is no controller |
| `TargetProofs!CommandsAnsweredOnce` | AnsweredOnce | `WInv == TInv /\ HInv /\ BInv /\ DInv /\ CInv /\ EInv` |
| `TargetProofs!NoCommandIsLost` | NoneLost | the same `WInv` |
| `TargetProofs!EventsKeepOrder` | EventsInOrder | the same `WInv` |
| `KernelProofs!OneLogIsConnected` | ConnectsOneLog | `OInv` |
| `KernelProofs!EveryEntryIsAttempted` | AllAttempted | `Attempted` |
| `KernelProofs!EachIsReportedOnce` | ReportedOnce | `Reported` |

Why the strengthenings are needed:

- *Service.* That the loop uses only open connections does not follow from
  itself: the candidates of a reconnect and the connection that a push is meant
  for were chosen earlier. `Objects` says that a new object has a fresh generation,
  so that a stopped one is never again that of the cache or of the service, and
  that candidates and pushed connection are the service's present ones. `Clients`
  says that the table and the clients in use agree, and (`Serves`) that a handler that
  may still send serves a slot that is not free for another client; `Control` what the
  loop's place implies of the connection and the cluster it works with.
- *Shutdown.* `Counted` is CountsMultiplexers with the types of the counts and one
  more fact: a multiplexer that is started and not yet counted belongs to the push
  that the main loop has still to do, so there is never a second one. `Data` has that
  only connections of the endpoints are tried, since a multiplexer of any other
  would be in no sum. That a sum over the connections changes by as much as its one
  changed term (`TotalChanges`) is shown by induction over the number of terms, as a
  statement about a set of naturals (`AllNaturals`); the set of endpoints has to be
  finite.
- *ConnectionFeed.* `FeedOrdered`: an object that the service has and the cache has
  replaced is older than the cache's present one. Without it a notification could
  hand the service an object it has stopped.
- *Cache.* The saved list is read back through addEntry, which drops duplicates and
  lets a referral inherit the CtrlLossTMO of the first user's entry that has one, of
  whatever cluster. That
  this changes nothing needs more than the absence of duplicates: `Inherited` says
  that no referral without a CtrlLossTMO comes after an entry it could have
  inherited one from. It has to hold of the list, of both copies about to be saved
  and of the file (`Lists`). `Restoring` says that what was added and what is left
  are the file's list; `Numbered` that a new connection gets a number nobody has;
  `WorkerPlace` and `HandlerPlace` say what each goroutine holds at each place, in
  particular that referrals already gone through are listed.
- *LogPage.* `Prefix` says that what was read is a prefix of the log, as long as
  the generation is still that of the first header; the last comparison of
  generations then gives the theorem. `Progress` has that the offset of a page is
  never one unit, where the controller would answer with a header.
- *TcpClient.* `Closed` says that who waits for the goroutines has taken the queue
  away, so that no pollAEN is started any more, and that it has ended when aenCh is
  closed; `Fresh` that nothing runs before the connection is made. All answers come through one table and are
  handed over on channels that several goroutines receive from, so that an answer
  reaches its sender only if nobody else receives there at the time. `Roles` says
  which goroutines run together: Discover is done before pollAEN and keepAlive
  start, and only a client without a keep-alive timeout stops itself. `Requests` says that
  every request in the table, and the one being handed over, has a sender that waits
  for it or has given up, and that only keepAlive, which always uses the same id,
  may have more than one. `Session` assumes nothing of the width of the id counter:
  when it wraps onto an id in use the older request is forgotten, its answer completes
  the newer one, and still nobody takes a request of another. That answers and
  requests belong together is more, and true only as long as the counter does not
  wrap within a session: `AnswersReachTheirSender` and `IdsAreNotReused` have the
  hypothesis `IdSpace > MaxEvent + 5`, one id for each event and five for the other
  commands of the model (the code has 2^16 ids, and Discover sends some commands more
  than the model; the keep-alives have the id 0). `Ids` says that the
  ids from the counter on are free and that whoever is about to send has the
  counter's present value; `Few` bounds the counter by the stage of Discover and
  the events reported; `Flight` that the ids of requests at the controller and of
  answers on their way are all different and in the table; `OneKeepAlive` that
  the next keep-alive waits for the last one's answer.
- *Target.* While the receiver refuses a request it holds the lock, so the
  pending requests cannot shrink in between (`LockHeld`). `RInv` is ReadyIsEnabled
  with the type of the configuration and the fact that without a controller csts is
  clear and no keep-alive handler is about to write it: otherwise a connect could find
  bits of the last controller. `SInv` has that destroy closes the connection first, so
  that what delete takes away belongs to no connection that is served. `WInv` follows a
  command through the places where it can be: `HInv` says who holds an answer at
  which place, `BInv` that every place has a command that was read, `DInv` that no two places have the same command, `CInv` that each
  command has one, `EInv` that what got an event came before what has yet to get one.
- *KernelClient.* `OInv` says what is known between the two reads of the header:
  nothing if the log has changed, and that the entries are the log's if not.
  `Attempted` adds the entries still to come to those found or given up;
  `Reported` says of every controller this call added where it is accounted for.

Each inductive invariant is proved to hold initially, to be preserved by every
action (one step of the proof per action) and to imply the property.

Every invariant and every action property of a passing run is proved, but for
StopReturns. Only model-checked: all liveness properties (liveness under fairness is
out of the prover's reach), StopReturns, which says ENABLED, and ImplementsBytes, what `ByteBuffer` and `ScatterList`
compute: the bytes of all buffers put one after the other are a fold over a
sequence, for which the library has no theorem without an operator as a parameter.
The induction of `ShutdownProofs` is over the number of the terms of a sum, which a
set of naturals can express. The three doc statements that
runs refute are, of course, not theorems.

## Where code and documentation disagree

Three runs expect a violation and carry a finding. The definitions below state
further things the repository says of itself. They belong to no run. TLC refutes
each in the instance named when it takes the place of the properties there.

| definition | instance | what happens |
|---|---|---|
| `SavedListIsCurrent` | `Cache.cfg`, Spec | two goroutines save; an older copy is renamed over a newer one |
| `UpdatedFileIsListed` | `Cache.cfg` | a file edited in place raises an event that is only logged |
| `RemovedFileIsForgotten` | `Cache.cfg` | the event of a removed file is skipped; its endpoints stay |
| `ConnectionsAreListed` | `CacheRaceDuplicates.cfg` | an entry is deleted before its connection is inserted |
| `ActiveIsListed` | `Service.cfg` | the active connection is cleared in a copy of the record |
| `RemovedIsDisconnected` | `Service.cfg` | the client of a connection replaced earlier is not disconnected |
| `LossIsReal` (Service) | `Service.cfg` | replacing a client reports a dead keep-alive |
| `FailedIsKilled` | `Client.cfg`, Spec | a failed Discover leaves connection and goroutines behind |
| `PollLoopEnds` | `ClientStop.cfg`, FairSpec, only the case of the caller's Stop | pollAEN blocks in a send after ClearChannels has looked; Stop waits forever |
| `SubroutinesClosed` | `ClientStop.cfg` | pollAEN uses the queue that Stop has set to nil |
| `KeepAliveIdIsFree` | `ClientStop.cfg` | the counter wraps to the id of the keep-alives |
| `HandlerFindsClient` | `ClientStop.cfg` | handleChannel first runs when the client is already removed |
| `AllAnswered` | `Target.cfg` | an event answers only the first pending request |
| `CancelClosesLoop` | `Target.cfg` | delete holds the lock that the handler of events waits for |
| `ExpiryClosesQueue` | `Target.cfg` | the timer is silent if the controller had already failed |
| `ExpiryIsNotified` | `Target.cfg` | the timer fires when nobody watches any more |
| `ErrorIsSent` | `Target.cfg` | the receiver ends without an error on its channel |
| `ConnectedIsNoError` | `Kernel.cfg` | a retry finds the controller and calls it an error |

`DestroyEnds`, `LostIsNoticed`, `StopReturns` and `Reconnected` name those of these
cases they have to exclude.

## What is not modelled

- The command line, metrics and logging: no state that the rest depends on.
  Helpers: their results are inputs of the actions.
- The debug web server and the notification of systemd in App.Start.
- What the cache's goroutines do after its context is cancelled: the watcher ends,
  and a goroutine that still has a notification to send blocks until the process
  ends.
- `Clear` of the cache, which nothing calls.
- Kernel connects made by the service after a discovery; `KernelClient` has the
  call by itself.
- The temporary files that writing the auto-detected file creates in the user's
  directory, and a left-over file that cannot be removed.
- The contents of PDUs, error statuses of single commands, permissions of files,
  the scan of `/sys`, host ids.
- The Go runtime's own detection of concurrent map accesses, but for the map over
  which Stop ranges.
- Sizes near 2^32 in requests for the log.

------------------------------- MODULE Cache -------------------------------
(***************************************************************************)
(* The endpoint cache of the discovery client (pkg/clientconfig/cache.go): *)
(* the list of discovery endpoints, the connection object kept for each of *)
(* them, the internal JSON file that persists the list, the user's         *)
(* configuration directory with the inotify watcher on it, and the         *)
(* notifications to the service.                                           *)
(*                                                                         *)
(* Two goroutines change the cache: the worker (sync at startup, then the  *)
(* watcher loop of Run) and the service's main loop, which calls           *)
(* HandleReferrals.  A step is one call of addEntry or deleteEntry, one    *)
(* parse, one snapshot of the list, one rename of the JSON file or one     *)
(* delivered notification, so the two goroutines interleave between those. *)
(* Calls of addEntry and deleteEntry do not overlap here; module CacheRace *)
(* has what happens when they do.                                          *)
(***************************************************************************)
EXTENDS Integers, Sequences, FiniteSetsExt

CONSTANTS
    Key,          \* TKey: transport, address, port, subsystem nqn, hostnqn
    Pair,         \* ClientClusterPair: subsystem nqn and hostnqn
    PairOf,       \* the pair of each key
    Tmo, NoTmo,   \* the values of CtrlLossTMO; NoTmo is the nil pointer
    FileName,     \* names in the user's directory that are not reserved
    Contents,     \* what a file may hold: a set of lines
    Absent, Bad,  \* no such file; a file that parse rejects
    Short,        \* a file with a line that ends after a flag
    Refused,      \* keys that verify refuses: no port or no address
    NoJson,       \* no internal JSON file
    AutoDetect,   \* is autoDetectEntries enabled?
    AutoFile, AutoLines, \* the file it writes and the lines it detects
    SaveMayFail,  \* may an access to the disk fail?
    MaxClock, MaxUser, MaxReferral, MaxCrash \* bounds of the model

TmoVal == Tmo \cup {NoTmo}
Line == [key : Key, tmo : TmoVal]
Source == {"user", "referral"}
Entry == [key : Key, source : Source, tmo : TmoVal]
Conn == [id : Nat, tmo : TmoVal]
NoConn == [id |-> 0, tmo |-> NoTmo]

ASSUME ConstantsOK ==
    /\ PairOf \in [Key -> Pair] /\ Pair # {}
    /\ NoTmo \notin Tmo
    /\ Contents \subseteq SUBSET Line
    /\ {Absent, Bad, Short} \cap Contents = {}
    /\ Refused \subseteq Key
    /\ \A c \in Contents : \A l \in c : l.key \notin Refused
    /\ AutoFile \in FileName /\ AutoLines \in Contents
    /\ AutoDetect \in BOOLEAN /\ SaveMayFail \in BOOLEAN
    /\ {MaxClock, MaxUser, MaxReferral, MaxCrash} \subseteq Nat

VARIABLES
    clock, dir, mtime, events,          \* the file system and inotify
    json, tmp,                          \* the internal JSON file; is a
                                        \* temporary file left beside it?
    mode,                               \* progress of Run
    entries, conns, nextConn,           \* cacheEntries, connections
    wpc, wtodo, fpairs, wpairs, wsnap,  \* the worker goroutine
    jleft, fleft,                       \* what sync has still to read
    hpc, hpair, hrefs, htodo, hdel, hchanged, hsnap, \* HandleReferrals
    notif,                              \* goroutines waiting to notify
    svc, met,                           \* the service's connections, and
                                        \* the pairs it has ever had any for
    users, refs, crashes                \* used up bounds

fs == <<clock, dir, mtime, events, users>>
list == <<entries, conns, nextConn>>
worker == <<wpc, wtodo, fpairs, wpairs, wsnap, jleft, fleft>>
handler == <<hpc, hpair, hrefs, htodo, hdel, hchanged, hsnap>>
svcs == <<svc, met>>
vars == <<fs, json, tmp, mode, list, worker, handler, notif, svcs, refs, crashes>>

Saved == [time : Nat, entries : Seq(Entry)]
Event == [op : {"Create", "Modify", "Remove", "Rename"}, file : FileName]
NoSnap == [time |-> 0, entries |-> <<>>]
NoPair == CHOOSE p \in Pair : TRUE

Keys(es) == {es[i].key : i \in DOMAIN es}
Outcome == IF SaveMayFail THEN BOOLEAN ELSE {TRUE}
KeysOf(p) == {k \in Key : PairOf[k] = p}

---------------------------------------------------------------------------
(* addEntry and deleteEntry *)

\* The CtrlLossTMO a referral takes over: that of the first user entry that
\* has one, whatever its cluster.
InheritedTmo ==
    LET S == {i \in DOMAIN entries :
                 entries[i].source = "user" /\ entries[i].tmo # NoTmo}
    IN  IF S = {} THEN NoTmo ELSE entries[Min(S)].tmo

Effective(e) ==
    IF e.source = "referral" /\ e.tmo = NoTmo
    THEN [e EXCEPT !.tmo = InheritedTmo] ELSE e

\* Mutant: only the entries that come from files are compared.
existUserEntry(k) ==
    \E i \in DOMAIN entries : entries[i].key = k /\ entries[i].source = "user"

existEntry(k) == k \in Keys(entries)

\* addEntry adds e to the list and opens a connection for it ...
AddsEntry(e) == ~existEntry(e.key)
OpensConn(e) == AddsEntry(e) /\ conns[e.key].id = 0
\* ... or finds a connection without an entry and reports a mismatch.
Mismatch(e) == AddsEntry(e) /\ conns[e.key].id # 0

addEntry(e) ==
    /\ entries' = IF AddsEntry(e) THEN Append(entries, Effective(e))
                                  ELSE entries
    /\ conns' = IF OpensConn(e)
                THEN [conns EXCEPT ![e.key] = [id |-> nextConn,
                                               tmo |-> Effective(e).tmo]]
                ELSE conns
    /\ nextConn' = IF OpensConn(e) THEN nextConn + 1 ELSE nextConn

\* The pairs addEntry(e) returns: none for a known entry.
NewPairs(e) == IF OpensConn(e) THEN {PairOf[e.key]} ELSE {}

\* s without its i-th element.
Without(s, i) == SubSeq(s, 1, i - 1) \o SubSeq(s, i + 1, Len(s))

\* Mutant: the entry goes, its connection stays.
deleteEntryOnly(k) ==
    /\ \E i \in DOMAIN entries :
          entries[i].key = k /\ entries' = Without(entries, i)
    /\ UNCHANGED <<conns, nextConn>>

deleteEntry(k) ==
    /\ \E i \in DOMAIN entries :
          entries[i].key = k /\ entries' = Without(entries, i)
    /\ conns' = [conns EXCEPT ![k] = NoConn]
    /\ UNCHANGED nextConn

\* go notifyChange(P): nothing is sent for an empty list of pairs.
Notified(P) == IF P = {} THEN notif ELSE [notif EXCEPT ![P] = @ + 1]

---------------------------------------------------------------------------
(* The user and the file system *)

Emit(op, f) ==
    events' = IF mode = "up" THEN Append(events, [op |-> op, file |-> f])
                             ELSE events

UserStep(f, c, op, touches) ==
    /\ users < MaxUser
    /\ users' = users + 1
    /\ dir' = [dir EXCEPT ![f] = c]
    /\ mtime' = IF touches THEN clock ELSE mtime
    /\ Emit(op, f)
    /\ UNCHANGED <<clock, json, tmp, mode, list, worker, handler, notif, svcs, refs,
                   crashes>>

\* A file moved into the directory, over an older one or not (CreateFile,
\* or the consumer's own mv).  inotify reports it as a creation.
UserPut(f, c) == UserStep(f, c, "Create", TRUE)

\* A file edited in place: the directory's own mtime does not change.
UserEdit(f, c) ==
    dir[f] \notin {Absent, c} /\ UserStep(f, c, "Modify", FALSE)

\* remove-hostnqn or rm.
UserDelete(f) == dir[f] # Absent /\ UserStep(f, Absent, "Remove", TRUE)

\* A file moved out of the directory.
UserMoveAway(f) == dir[f] # Absent /\ UserStep(f, Absent, "Rename", TRUE)

Tick ==
    /\ clock < MaxClock
    /\ clock' = clock + 1
    /\ UNCHANGED <<dir, mtime, events, users, json, tmp, mode, list, worker,
                   handler, notif, svcs, refs, crashes>>

---------------------------------------------------------------------------
(* Startup: Run up to the watcher *)

\* parse: the valid lines of f now, none if it cannot be read or is malformed.
\* A line that ends where the value of a flag is expected makes parse panic.
parse(f) == IF dir[f] \in {Absent, Bad, Short} THEN {} ELSE dir[f]
parsePanics(f) == dir[f] = Short

\* useInternalJson, with the directory's mtime m.
useInternalJson(m) ==
    /\ json # NoJson
    /\ json.entries # <<>>
    /\ ~(m > json.time)

\* Both directories are empty, of temporary files too.
ShouldGenerateAutoDetectedEntries ==
    AutoDetect /\ json = NoJson /\ ~tmp /\ \A f \in FileName : dir[f] = Absent

\* Run: store the detected entries if there is nothing else to start from,
\* then decide between the JSON file and the user's directory.  When the
\* JSON file or the directory cannot be read Run fails and the daemon ends.
Run ==
    /\ mode = "down"
    /\ \E stored, read \in Outcome :
         LET auto == ShouldGenerateAutoDetectedEntries /\ stored
             m == IF auto THEN clock ELSE mtime
             d == IF auto THEN [dir EXCEPT ![AutoFile] = AutoLines] ELSE dir
         IN  /\ dir' = d
             /\ mtime' = m
             /\ \/ ~read /\ UNCHANGED <<mode, jleft, fleft>>
                \/ /\ read /\ useInternalJson(m)
                   /\ mode' = "syncJson"
                   /\ jleft' = json.entries
                   /\ fleft' = {}
                \/ /\ read /\ ~useInternalJson(m)
                   /\ mode' = "syncFiles"
                   /\ jleft' = <<>>
                   /\ fleft' = {f \in FileName : d[f] # Absent}
    /\ UNCHANGED <<clock, events, users, json, tmp, list, wpc, wtodo, fpairs,
                   wpairs, wsnap, handler, notif, svcs, refs, crashes>>

\* Mutant: the loop variable is shared, so every addEntry sees the last entry
\* (the copy "var entry = e" is missing).
SyncJsonAddLast ==
    /\ mode = "syncJson" /\ jleft # <<>>
    /\ addEntry(json.entries[Len(json.entries)])
    /\ wpairs' = wpairs \cup NewPairs(json.entries[Len(json.entries)])
    /\ jleft' = Tail(jleft)
    /\ UNCHANGED <<fs, json, tmp, mode, wpc, wtodo, fpairs, wsnap, fleft, handler,
                   notif, svcs, refs, crashes>>

\* sync, JSON branch: one addEntry per saved entry that verify accepts.
SyncJsonAdd ==
    /\ mode = "syncJson" /\ jleft # <<>> /\ Head(jleft).key \notin Refused
    /\ addEntry(Head(jleft))
    /\ wpairs' = wpairs \cup NewPairs(Head(jleft))
    /\ jleft' = Tail(jleft)
    /\ UNCHANGED <<fs, json, tmp, mode, wpc, wtodo, fpairs, wsnap, fleft, handler,
                   notif, svcs, refs, crashes>>

SyncJsonDone ==
    /\ mode = "syncJson" /\ jleft = <<>>
    /\ mode' = "gap"
    /\ notif' = Notified(wpairs)
    /\ wpairs' = {}
    /\ UNCHANGED <<fs, json, tmp, list, wpc, wtodo, fpairs, wsnap, jleft, fleft,
                   handler, svcs, refs, crashes>>

\* sync, directory branch: parse the next file.
SyncFile(f) ==
    /\ mode = "syncFiles" /\ wpc = "idle" /\ f \in fleft /\ ~parsePanics(f)
    /\ fleft' = fleft \ {f}
    /\ wtodo' = parse(f)
    /\ fpairs' = {}
    /\ wpc' = "adding"
    /\ UNCHANGED <<fs, json, tmp, mode, list, wpairs, wsnap, jleft, handler, notif,
                   svcs, refs, crashes>>

\* fw.Watch: from here on the directory's changes are seen.
Watch ==
    /\ mode = "gap"
    /\ mode' = "up"
    /\ UNCHANGED <<fs, json, tmp, list, worker, handler, notif, svcs, refs, crashes>>

---------------------------------------------------------------------------
(* The worker: fileAdded, createReferralsFile and notifyChange *)

\* Mutant: the watcher loop reacts to renames only.
WatchEventRename ==
    /\ mode = "up" /\ wpc = "idle" /\ events # <<>>
    /\ events' = Tail(events)
    /\ IF Head(events).op = "Rename"
       THEN /\ wpc' = "adding"
            /\ wtodo' = parse(Head(events).file)
            /\ fpairs' = {}
       ELSE UNCHANGED <<wpc, wtodo, fpairs>>
    /\ UNCHANGED <<clock, dir, mtime, users, json, tmp, mode, list, wpairs, wsnap,
                   jleft, fleft, handler, notif, svcs, refs, crashes>>

\* The watcher loop takes an event.  The file is read only now.
WatchEvent ==
    /\ mode = "up" /\ wpc = "idle" /\ events # <<>>
    /\ events' = Tail(events)
    /\ IF Head(events).op \in {"Create", "Rename"}
       THEN /\ ~parsePanics(Head(events).file)
            /\ wpc' = "adding"
            /\ wtodo' = parse(Head(events).file)
            /\ fpairs' = {}
       ELSE UNCHANGED <<wpc, wtodo, fpairs>>
    /\ UNCHANGED <<clock, dir, mtime, users, json, tmp, mode, list, wpairs, wsnap,
                   jleft, fleft, handler, notif, svcs, refs, crashes>>

\* fileAdded: one addEntry.  A mismatch ends the file and drops its pairs.
WorkerAdd(l) ==
    LET e == [key |-> l.key, source |-> "user", tmo |-> l.tmo]
    IN  /\ wpc = "adding" /\ l \in wtodo
        /\ addEntry(e)
        /\ wtodo' = IF Mismatch(e) THEN {} ELSE wtodo \ {l}
        /\ fpairs' = IF Mismatch(e) THEN {} ELSE fpairs \cup NewPairs(e)
        /\ UNCHANGED <<fs, json, tmp, mode, wpc, wpairs, wsnap, jleft, fleft,
                       handler, notif, svcs, refs, crashes>>

\* fileAdded returns.  The watcher loop saves after every file, sync only
\* after the last one.
WorkerFileDone ==
    /\ wpc = "adding" /\ wtodo = {}
    /\ wpairs' = wpairs \cup fpairs
    /\ fpairs' = {}
    /\ wpc' = IF mode = "up" THEN "save" ELSE "idle"
    /\ UNCHANGED <<fs, json, tmp, mode, list, wtodo, wsnap, jleft, fleft, handler,
                   notif, svcs, refs, crashes>>

SyncFilesDone ==
    /\ mode = "syncFiles" /\ wpc = "idle" /\ fleft = {}
    /\ wpc' = "save"
    /\ UNCHANGED <<fs, json, tmp, mode, list, wtodo, fpairs, wpairs, wsnap, jleft,
                   fleft, handler, notif, svcs, refs, crashes>>

\* createReferralsFile: the list is copied and time-stamped ...
Snapshot == [time |-> clock, entries |-> entries]

WorkerSnapshot ==
    /\ wpc = "save"
    /\ wsnap' = Snapshot
    /\ wpc' = "rename"
    /\ UNCHANGED <<fs, json, tmp, mode, list, wtodo, fpairs, wpairs, jleft, fleft,
                   handler, notif, svcs, refs, crashes>>

\* ... and the finished temporary file renamed; errors are ignored.  The
\* watcher then notifies the service itself, sync leaves it to a goroutine.
WorkerRename ==
    /\ wpc = "rename"
    /\ \E ok \in Outcome : json' = IF ok THEN wsnap ELSE json
    /\ wsnap' = NoSnap
    /\ IF mode = "up"
       THEN /\ wpc' = IF wpairs = {} THEN "idle" ELSE "notify"
            /\ UNCHANGED <<mode, wpairs, notif>>
       ELSE /\ wpc' = "idle"
            /\ mode' = "gap"
            /\ notif' = Notified(wpairs)
            /\ wpairs' = {}
    /\ UNCHANGED <<fs, tmp, list, wtodo, fpairs, jleft, fleft, handler, svcs, refs,
                   crashes>>

---------------------------------------------------------------------------
(* HandleReferrals, called by the service's main loop *)

\* A discovery on a connection of p that the service has, or had until a
\* moment ago, returned the referrals R (never empty: the service adds one
\* for the endpoint it asked).
HandleReferrals(p, R) ==
    /\ mode = "up" /\ hpc = "idle" /\ refs < MaxReferral
    /\ p \in met /\ R # {} /\ R \subseteq KeysOf(p)
    /\ refs' = refs + 1
    /\ hpc' = "add"
    /\ hpair' = p
    /\ hrefs' = R
    /\ htodo' = R
    /\ hdel' = {}
    /\ hchanged' = FALSE
    /\ UNCHANGED <<fs, json, tmp, mode, list, worker, hsnap, notif, svcs, crashes>>

addConnectionsFromReferrals(k) ==
    LET e == [key |-> k, source |-> "referral", tmo |-> NoTmo]
    IN  /\ hpc = "add" /\ k \in htodo
        /\ addEntry(e)
        /\ htodo' = htodo \ {k}
        /\ hchanged' = (hchanged \/ OpensConn(e))
        /\ UNCHANGED <<fs, json, tmp, mode, worker, hpc, hpair, hrefs, hdel, hsnap,
                       notif, svcs, refs, crashes>>

\* Mutant: entries of every pair are collected.
CollectRemovedAll ==
    /\ hpc = "add" /\ htodo = {}
    /\ hpc' = "delete"
    /\ hdel' = Keys(entries) \ hrefs
    /\ UNCHANGED <<fs, json, tmp, mode, list, worker, hpair, hrefs, htodo, hchanged,
                   hsnap, notif, svcs, refs, crashes>>

\* removeConnectionsNotInReferrals collects the entries of the pair that
\* the referrals do not name ...
CollectRemoved ==
    /\ hpc = "add" /\ htodo = {}
    /\ hpc' = "delete"
    /\ hdel' = (Keys(entries) \cap KeysOf(hpair)) \ hrefs
    /\ UNCHANGED <<fs, json, tmp, mode, list, worker, hpair, hrefs, htodo, hchanged,
                   hsnap, notif, svcs, refs, crashes>>

\* Mutant: a deletion does not count as a change.
removeConnectionsSilently(k) ==
    /\ hpc = "delete" /\ k \in hdel
    /\ deleteEntry(k)
    /\ hdel' = hdel \ {k}
    /\ UNCHANGED <<fs, json, tmp, mode, worker, hpc, hpair, hrefs, htodo, hchanged,
                   hsnap, notif, svcs, refs, crashes>>

\* ... and deletes them one by one.
removeConnectionsNotInReferrals(k) ==
    /\ hpc = "delete" /\ k \in hdel
    /\ deleteEntry(k)
    /\ hdel' = hdel \ {k}
    /\ hchanged' = TRUE
    /\ UNCHANGED <<fs, json, tmp, mode, worker, hpc, hpair, hrefs, htodo, hsnap,
                   notif, svcs, refs, crashes>>

\* The JSON file is written and the service notified only after a change.
ReferralsSnapshot ==
    /\ hpc = "delete" /\ hdel = {}
    /\ IF hchanged
       THEN hpc' = "rename" /\ hsnap' = Snapshot /\ UNCHANGED <<hpair, hrefs>>
       ELSE hpc' = "idle" /\ UNCHANGED hsnap /\ hpair' = NoPair /\ hrefs' = {}
    /\ UNCHANGED <<fs, json, tmp, mode, list, worker, htodo, hdel, hchanged, notif,
                   svcs, refs, crashes>>

ReferralsRename ==
    /\ hpc = "rename"
    /\ \E ok \in Outcome : json' = IF ok THEN hsnap ELSE json
    /\ hsnap' = NoSnap
    /\ hpc' = "idle"
    /\ hchanged' = FALSE
    /\ notif' = Notified({hpair})
    /\ hpair' = NoPair
    /\ hrefs' = {}
    /\ UNCHANGED <<fs, tmp, mode, list, worker, htodo, hdel, svcs, refs, crashes>>

---------------------------------------------------------------------------
(* notifyChange meets the service's main loop.  What is sent refers to the *)
(* cache's live maps, so the service takes over the connections of now.    *)

\* Mutant: the service only adds connections, it removes none.
TakeNew(P) ==
    /\ svc' = [k \in Key |-> IF PairOf[k] \in P /\ conns[k].id # 0
                             THEN conns[k].id ELSE svc[k]]
    /\ met' = met \cup {PairOf[k] : k \in {l \in Key : svc'[l] # 0}}

Take(P) ==
    /\ svc' = [k \in Key |-> IF PairOf[k] \in P THEN conns[k].id ELSE svc[k]]
    /\ met' = met \cup {PairOf[k] : k \in {l \in Key : svc'[l] # 0}}

DeliverFromWatcher ==
    /\ mode = "up" /\ wpc = "notify" /\ hpc = "idle"
    /\ Take(wpairs)
    /\ wpc' = "idle"
    /\ wpairs' = {}
    /\ UNCHANGED <<fs, json, tmp, mode, list, wtodo, fpairs, wsnap, jleft, fleft,
                   handler, notif, refs, crashes>>

DeliverFromGoroutine(P) ==
    /\ mode = "up" /\ hpc = "idle" /\ notif[P] > 0
    /\ Take(P)
    /\ notif' = [notif EXCEPT ![P] = @ - 1]
    /\ UNCHANGED <<fs, json, tmp, mode, list, worker, handler, refs, crashes>>

---------------------------------------------------------------------------
(* The daemon ends; the JSON file and the user's directory stay. *)

Ends ==
    /\ mode' = "down" /\ events' = <<>>
    /\ entries' = <<>> /\ conns' = [k \in Key |-> NoConn] /\ nextConn' = 1
    /\ wpc' = "idle" /\ wtodo' = {} /\ fpairs' = {} /\ wpairs' = {}
    /\ wsnap' = NoSnap /\ jleft' = <<>> /\ fleft' = {}
    /\ hpc' = "idle" /\ hpair' = NoPair /\ hrefs' = {} /\ htodo' = {}
    /\ hdel' = {} /\ hchanged' = FALSE /\ hsnap' = NoSnap
    /\ notif' = [P \in SUBSET Pair |-> 0]
    /\ svc' = [k \in Key |-> 0] /\ met' = {}
    /\ UNCHANGED <<clock, dir, mtime, users, json, refs>>

\* It is killed.  A temporary file that was being written may be left over.
Crash ==
    /\ mode # "down" /\ crashes < MaxCrash
    /\ crashes' = crashes + 1
    /\ tmp' \in {tmp, tmp \/ "rename" \in {wpc, hpc}}
    /\ Ends

\* parse panics, in sync or in the watcher loop.
Panic ==
    /\ wpc = "idle"
    /\ \/ mode = "syncFiles" /\ \E f \in fleft : parsePanics(f)
       \/ /\ mode = "up" /\ events # <<>>
          /\ Head(events).op \in {"Create", "Rename"}
          /\ parsePanics(Head(events).file)
    /\ tmp' \in {tmp, tmp \/ hpc = "rename"}
    /\ UNCHANGED crashes
    /\ Ends

\* Run returns an error, and with it the daemon's Start: verify refuses an
\* entry of the JSON file, or the directory cannot be watched.
RunFails ==
    /\ \/ mode = "syncJson" /\ jleft # <<>> /\ Head(jleft).key \in Refused
       \/ mode = "gap" /\ FALSE \in Outcome
    /\ UNCHANGED <<tmp, crashes>>
    /\ Ends

Init ==
    /\ clock = 0 /\ mtime = 0 /\ dir = [f \in FileName |-> Absent]
    /\ json = NoJson /\ tmp = FALSE
    /\ mode = "down" /\ events = <<>>
    /\ entries = <<>> /\ conns = [k \in Key |-> NoConn] /\ nextConn = 1
    /\ wpc = "idle" /\ wtodo = {} /\ fpairs = {} /\ wpairs = {}
    /\ wsnap = NoSnap /\ jleft = <<>> /\ fleft = {}
    /\ hpc = "idle" /\ hpair = NoPair /\ hrefs = {} /\ htodo = {}
    /\ hdel = {} /\ hchanged = FALSE /\ hsnap = NoSnap
    /\ notif = [P \in SUBSET Pair |-> 0]
    /\ svc = [k \in Key |-> 0] /\ met = {}
    /\ users = 0 /\ refs = 0 /\ crashes = 0

User ==
    \E f \in FileName :
        \/ \E c \in Contents \cup {Bad, Short} : UserPut(f, c) \/ UserEdit(f, c)
        \/ UserDelete(f)
        \/ UserMoveAway(f)

Worker ==
    \/ SyncJsonAdd \/ SyncJsonDone \/ SyncFilesDone \/ Watch
    \/ \E f \in FileName : SyncFile(f)
    \/ WatchEvent
    \/ \E l \in wtodo : WorkerAdd(l)
    \/ WorkerFileDone \/ WorkerSnapshot \/ WorkerRename

Handler ==
    \/ \E k \in htodo : addConnectionsFromReferrals(k)
    \/ CollectRemoved
    \/ \E k \in hdel : removeConnectionsNotInReferrals(k)
    \/ ReferralsSnapshot \/ ReferralsRename

Deliver == DeliverFromWatcher \/ \E P \in SUBSET Pair : DeliverFromGoroutine(P)

Next ==
    \/ User \/ Tick \/ Run \/ Worker \/ Handler \/ Deliver
    \/ Crash \/ Panic \/ RunFails
    \/ \E p \in Pair, R \in SUBSET Key : HandleReferrals(p, R)

Spec == Init /\ [][Next]_vars

\* Goroutines are scheduled, and select picks at random among the channels
\* that are ready, so no step of the daemon is postponed forever.  Nothing
\* is assumed of the user, the clock, the discovered referrals or crashes.
Fairness ==
    /\ WF_vars(Run) /\ WF_vars(Worker \/ Panic \/ RunFails) /\ WF_vars(Handler)
    /\ WF_vars(DeliverFromWatcher)
    /\ \A P \in SUBSET Pair : WF_vars(DeliverFromGoroutine(P))

FairSpec == Spec /\ Fairness

---------------------------------------------------------------------------
\* Every variable has its type.
TypeOK ==
    /\ clock \in Nat /\ mtime \in Nat
    /\ dir \in [FileName -> Contents \cup {Absent, Bad, Short}]
    /\ events \in Seq(Event)
    /\ json \in Saved \cup {NoJson} /\ tmp \in BOOLEAN
    /\ mode \in {"down", "syncJson", "syncFiles", "gap", "up"}
    /\ entries \in Seq(Entry) /\ conns \in [Key -> Conn] /\ nextConn \in Nat
    /\ wpc \in {"idle", "adding", "save", "rename", "notify"}
    /\ wtodo \subseteq Line /\ fpairs \subseteq Pair /\ wpairs \subseteq Pair
    /\ wsnap \in Saved /\ jleft \in Seq(Entry) /\ fleft \subseteq FileName
    /\ hpc \in {"idle", "add", "delete", "rename"} /\ hpair \in Pair
    /\ hrefs \subseteq Key /\ htodo \subseteq Key /\ hdel \subseteq Key
    /\ hchanged \in BOOLEAN /\ hsnap \in Saved
    /\ notif \in [SUBSET Pair -> Nat]
    /\ svc \in [Key -> Nat] /\ met \subseteq Pair
    /\ users \in Nat /\ refs \in Nat /\ crashes \in Nat

\* "A single set of discovery controller endpoints without duplications":
\* however files and referrals interleave, addEntry never lists a key twice,
\* neither in memory nor in what is saved, as long as two calls of it do not
\* overlap.
NoDuplicates ==
    LET Distinct(es) == \A i, j \in DOMAIN es : es[i].key = es[j].key => i = j
    IN  /\ Distinct(entries)
        /\ json # NoJson => Distinct(json.entries)

\* A key has a connection exactly when it is listed, with the CtrlLossTMO of
\* its entry, and no two keys share a connection: the error "Mismatch between
\* cache entries and cache connections" of addEntry is never
\* reached, as long as its calls do not overlap.
EntriesMatchConnections ==
    /\ \A k \in Key : conns[k].id # 0 <=> k \in Keys(entries)
    /\ \A i \in DOMAIN entries : conns[entries[i].key].tmo = entries[i].tmo
    /\ \A k, l \in Key : conns[k].id = conns[l].id /\ k # l => conns[k].id = 0

\* The pairs for which a notification is on its way or still to be sent.
Owed ==
    fpairs \cup wpairs \cup (IF hchanged THEN {hpair} ELSE {})
    \cup UNION {P \in SUBSET Pair : notif[P] > 0}

\* The cache and its notifications implement what the service relies on:
\* the objects of the feed are the connections, and a pair is owed as long as
\* anybody has still to send for it.
Feed == INSTANCE ConnectionFeed WITH
            have <- [k \in Key |-> conns[k].id],
            last <- [k \in Key |-> nextConn - 1],
            given <- svc,
            owed <- Owed
ImplementsFeed == Feed!Spec

\* No change of the cache's connections is lost on the way to the service:
\* where the service's connection differs from the cache's, a notification
\* for the pair is owed.  In particular a connection that was deleted and
\* opened anew between two notifications is replaced in the service.
NoLostNotification ==
    \A k \in Key : svc[k] # conns[k].id => PairOf[k] \in Owed

\* While HandleReferrals prunes the list, and until it has saved it, every
\* referral it was given is listed, and nothing it has yet to delete is a
\* referral or of another cluster, whatever the watcher adds meanwhile.
ReferralsKept ==
    hpc \in {"delete", "rename"} =>
        /\ hrefs \subseteq Keys(entries)
        /\ hdel \subseteq (Keys(entries) \cap KeysOf(hpair)) \ hrefs

\* Restarting from the JSON file restores exactly the list that was saved,
\* in its order and with the CtrlLossTMO each entry had, although every
\* entry goes through addEntry and its inheritance of CtrlLossTMO again.
RestoresSavedList ==
    [][mode = "syncJson" /\ mode' = "gap" => entries = json.entries]_vars

\* Once changes stop the service works with the cache's connections.
ServiceConverges == <>[](mode = "up" => \A k \in Key : svc[k] = conns[k].id)

\* A file that was moved into the watched directory has its endpoints listed
\* at some time, unless it is changed again or the daemon dies.
FileIsListed ==
    \A f \in FileName, k \in Key :
        LET pending == /\ \E i \in DOMAIN events :
                            events[i] = [op |-> "Create", file |-> f]
                       /\ k \in {l.key : l \in parse(f)}
        IN  pending ~> (k \in Keys(entries) \/ k \notin {l.key : l \in parse(f)}
                        \/ mode = "down")

\* README: "Persistency of this list is ensured by writing it to a json file
\* after every update."  With no write failing, when both goroutines are at
\* rest the JSON file should hold the list.
SavedListIsCurrent ==
    mode = "up" /\ wpc = "idle" /\ hpc = "idle" =>
        json # NoJson /\ json.entries = entries

\* README: endpoints are added by "addition of a new configuration file (or
\* updating an existing one)".  A file edited while the daemon watches should
\* have its endpoints listed.
UpdatedFileIsListed ==
    \A f \in FileName, k \in Key :
        LET pending == /\ \E i \in DOMAIN events :
                            events[i] = [op |-> "Modify", file |-> f]
                       /\ k \in {l.key : l \in parse(f)}
        IN  pending ~> (k \in Keys(entries) \/ k \notin {l.key : l \in parse(f)}
                        \/ mode = "down")

\* README, of remove-hostnqn: deleting the file tells the discovery client
\* that it "should stop discovering this entry".  An endpoint that no file
\* names any more should leave the list.
RemovedFileIsForgotten ==
    \A k \in Key :
        LET named == \E f \in FileName : k \in {l.key : l \in parse(f)}
        IN  (k \in Keys(entries) /\ ~named) ~> (k \notin Keys(entries) \/ named)
============================================================================

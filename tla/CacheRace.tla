----------------------------- MODULE CacheRace -----------------------------
(***************************************************************************)
(* addEntry and deleteEntry of the cache, access by access.  The watcher   *)
(* goroutine (files of the user) and the service's main loop (referrals)   *)
(* call them without a lock.  Module Cache has each call as one step; here *)
(* the search of the list, the load and the store of the slice, and the    *)
(* look at and change of the map of connections are steps of their own.    *)
(*                                                                         *)
(* Two overlapping changes of the slice leave the one stored last.  The    *)
(* runtime may also notice overlapping accesses to the map and end the     *)
(* process; the behaviours here are those where it does not.               *)
(***************************************************************************)
EXTENDS Naturals, SequencesExt, Functions

CONSTANTS Key,       \* TKey
          MaxCalls   \* bound of the model: calls of addEntry and deleteEntry

VARIABLES list, conns,     \* cacheEntries, connections
          pc, entry, snap, \* each goroutine: where it is, its entry, the slice
          index,           \* deleteEntry: where it found its entry
          mismatches,      \* the keys addEntry reports a mismatch for
          calls            \* calls so far

vars == <<list, conns, pc, entry, snap, index, mismatches, calls>>

Goroutine == {"watcher", "main"}
NoEntry == [key |-> "none", call |-> 0]

Init ==
    /\ list = <<>> /\ conns = {} /\ index = 0 /\ mismatches = {} /\ calls = 0
    /\ pc = [g \in Goroutine |-> "idle"] /\ entry = [g \in Goroutine |-> NoEntry]
    /\ snap = [g \in Goroutine |-> <<>>]

Goto(g, l) == pc' = [pc EXCEPT ![g] = l]
existEntry(k) == \E i \in DOMAIN list : list[i].key = k

\* addEntry: an entry whose key is listed is not added.
AddStarts(g, k) ==
    /\ pc[g] = "idle" /\ calls < MaxCalls
    /\ calls' = calls + 1
    /\ entry' = [entry EXCEPT ![g] = [key |-> k, call |-> calls + 1]]
    /\ Goto(g, IF existEntry(k) THEN "idle" ELSE "load")
    /\ UNCHANGED <<list, conns, snap, index, mismatches>>

\* The append, and the removal of an entry from the slice, load it ...
Loads(g) ==
    /\ pc[g] \in {"load", "reload"}
    /\ snap' = [snap EXCEPT ![g] = list]
    /\ Goto(g, IF pc[g] = "load" THEN "append" ELSE "cut")
    /\ UNCHANGED <<list, conns, entry, index, mismatches, calls>>

\* ... and store it.
Appends(g) ==
    /\ pc[g] = "append"
    /\ list' = Append(snap[g], entry[g])
    /\ Goto(g, "lookup")
    /\ UNCHANGED <<conns, entry, snap, index, mismatches, calls>>

\* A connection without an entry is an error.
LooksUp(g) ==
    /\ pc[g] = "lookup"
    /\ IF entry[g].key \in conns
       THEN mismatches' = mismatches \cup {entry[g].key} /\ Goto(g, "idle")
       ELSE UNCHANGED mismatches /\ Goto(g, "insert")
    /\ UNCHANGED <<list, conns, entry, snap, index, calls>>

Inserts(g) ==
    /\ pc[g] = "insert"
    /\ conns' = conns \cup {entry[g].key} /\ Goto(g, "idle")
    /\ UNCHANGED <<list, entry, snap, index, mismatches, calls>>

\* removeConnectionsNotInReferrals, in the main loop: an entry of the list is
\* to be removed.
DeleteStarts(e) ==
    /\ pc["main"] = "idle" /\ calls < MaxCalls /\ e \in Range(list)
    /\ calls' = calls + 1 /\ entry' = [entry EXCEPT !["main"] = e]
    /\ Goto("main", "find")
    /\ UNCHANGED <<list, conns, snap, index, mismatches>>

\* deleteEntry: the entry itself is looked for, not one like it.
Finds ==
    /\ pc["main"] = "find"
    /\ IF entry["main"] \in Range(list)
       THEN /\ index' = CHOOSE i \in DOMAIN list : list[i] = entry["main"]
            /\ Goto("main", "reload")
       ELSE UNCHANGED index /\ Goto("main", "idle")
    /\ UNCHANGED <<list, conns, entry, snap, mismatches, calls>>

\* The slice loaded again is cut at that index.  Beyond its end the program
\* panics: there is no step.
Cuts ==
    /\ pc["main"] = "cut" /\ index <= Len(snap["main"])
    /\ list' = RemoveAt(snap["main"], index) /\ Goto("main", "close")
    /\ UNCHANGED <<conns, entry, snap, index, mismatches, calls>>

Closes ==
    /\ pc["main"] = "close"
    /\ conns' = conns \ {entry["main"].key} /\ Goto("main", "idle")
    /\ UNCHANGED <<list, entry, snap, index, mismatches, calls>>

Next ==
    \/ \E g \in Goroutine :
          \/ \E k \in Key : AddStarts(g, k)
          \/ Loads(g) \/ Appends(g) \/ LooksUp(g) \/ Inserts(g)
    \/ (\E e \in Range(list) : DeleteStarts(e)) \/ Finds \/ Cuts \/ Closes

Spec == Init /\ [][Next]_vars

\* README: "The discovery-client ignores (dedups) duplicate endpoints coming
\* from different sources."  No key should be listed twice, although existEntry
\* and append are not one step.
DuplicatesIgnored == \A i, j \in DOMAIN list : list[i].key = list[j].key => i = j

\* addEntry takes a connection without an entry for an error: when nobody is
\* at work every connection should have its entry.
ConnectionsAreListed ==
    (\A g \in Goroutine : pc[g] = "idle") => \A k \in conns : existEntry(k)
============================================================================

---------------------------- MODULE KernelClient ----------------------------
(***************************************************************************)
(* pkg/nvmeclient: ConnectAll, which has the kernel discover and then      *)
(* connects every I/O subsystem of the log, with retries.  Controllers are *)
(* added by writing to, and reading from, /dev/nvme-fabrics.               *)
(*                                                                         *)
(* External: the kernel, which has at most one controller for an entry of  *)
(* the log and may lose it, and the discovery service behind it, whose log *)
(* may change between, and within, the reads of it.  Names, addresses and  *)
(* options are left out; an entry stands for them.                         *)
(***************************************************************************)
EXTENDS Naturals, Sequences, FiniteSetsExt

CONSTANTS Subsystem,   \* entries of I/O subsystems
          Referral,    \* an entry that is none
          BadPort,     \* an entry without a port
          MaxLen,      \* bound of the model: length of the log
          MaxGen,      \* bound of the model: changes of the log
          MaxLoss,     \* bound of the model: controllers the kernel loses
          Attempts,    \* attempts of connectNVMEDevicesWithRetry: 5
          Kato         \* whether the discovery controller is persistent

ASSUME KernelAssumption ==
    /\ {Referral, BadPort} \cap Subsystem = {} /\ Referral # BadPort
    /\ MaxLen \in Nat /\ MaxGen \in Nat /\ MaxLoss \in Nat
    /\ Attempts \in Nat \ {0} /\ Kato \in BOOLEAN

Entry == Subsystem \cup {Referral, BadPort}
Log == UNION {[1..k -> Entry] : k \in 0..MaxLen}

VARIABLES
    history,          \* the logs so far, the last one being the current one
    disc, kernel,     \* controllers of the kernel: the discovery one, others
    made,             \* the entries of those it has added for this call
    removal,          \* what RemoveCtrl did
    losses,           \* how many were lost
    pc,               \* where ConnectAll is
    numRec, genCtr,   \* the header it has read
    entries,          \* what Discover returns
    todo, tries,      \* entries to connect; attempts for the first of them
    ctrls,            \* what is returned: instances, as indexes of made
    warned,           \* entries that are reported not to be connected
    found             \* entries the kernel was told, or said, to have

env == <<history, kernel, made, losses>>
loop == <<todo, tries, ctrls, warned, found>>
vars == <<env, disc, removal, pc, numRec, genCtr, entries, loop>>

Gen == Len(history)
log == history[Gen]

\* Every variable has its type.
TypeOK ==
    /\ history \in Seq(Log) /\ disc \in BOOLEAN /\ kernel \subseteq Subsystem
    /\ removal \in {"none", "done", "failed"}
    /\ losses \in 0..MaxLoss
    /\ pc \in {"add", "header", "read", "unpack", "again", "remove", "fail", "connect",
               "done", "failed"}
    /\ numRec \in 0..MaxLen /\ genCtr \in 0..(MaxGen + 1)
    /\ entries \in Log /\ todo \in Log /\ tries \in 0..Attempts
    /\ made \in Seq(Subsystem) /\ ctrls \in Seq(Nat) /\ warned \subseteq Subsystem /\ found \subseteq Subsystem

Init ==
    /\ \E l \in Log : history = <<l>>
    /\ disc = FALSE /\ removal = "none" /\ kernel \in SUBSET Subsystem
    /\ losses = 0 /\ pc = "add" /\ numRec = 0 /\ genCtr = 0 /\ entries = <<>>
    /\ todo = <<>> /\ tries = 0 /\ ctrls = <<>> /\ warned = {} /\ found = {} /\ made = <<>>

----------------------------------------------------------------------------
(* Discover *)

\* addCtrl: the write fails; or the controller is there and its identity is
\* read, or that fails.
AddsDiscovery ==
    /\ pc = "add"
    /\ \/ pc' = "failed" /\ UNCHANGED disc
       \/ disc' = TRUE /\ pc' \in {"header", "failed"}
    /\ UNCHANGED <<env, removal, numRec, genCtr, entries, loop>>

\* An error of one of the reads.
ReadFails ==
    /\ pc \in {"header", "read", "unpack", "again"} /\ pc' = "fail"
    /\ UNCHANGED <<env, disc, removal, numRec, genCtr, entries, loop>>

ReadsHeader ==
    /\ pc = "header"
    /\ numRec' = Len(log) /\ pc' = IF log = <<>> THEN "fail" ELSE "read"
    /\ UNCHANGED <<env, disc, removal, genCtr, entries, loop>>

\* The log is read into a buffer for numRec entries, beginning with a header,
\* which replaces the one read before.  More entries than that cannot be
\* unpacked.
ReadsLog ==
    /\ pc = "read"
    /\ numRec' = Len(log) /\ genCtr' = Gen
    /\ pc' = IF Len(log) > numRec THEN "fail" ELSE "unpack"
    /\ UNCHANGED <<env, disc, removal, entries, loop>>

\* The entries, perhaps of a later log.  Behind its end the buffer is empty.
Unpacks ==
    /\ pc = "unpack" /\ pc' = "again"
    /\ entries' = [i \in 1..numRec |-> IF i <= Len(log) THEN log[i] ELSE BadPort]
    /\ UNCHANGED <<env, disc, removal, numRec, genCtr, loop>>

\* Mutant: only the number of entries is compared.
ReadsAgainCount ==
    /\ pc = "again"
    /\ pc' = IF numRec = Len(log) THEN "remove" ELSE "fail"
    /\ UNCHANGED <<env, disc, removal, numRec, genCtr, entries, loop>>

\* The header is read again and must be the same.
ReadsAgain ==
    /\ pc = "again"
    /\ pc' = IF genCtr = Gen /\ numRec = Len(log) THEN "remove" ELSE "fail"
    /\ UNCHANGED <<env, disc, removal, numRec, genCtr, entries, loop>>

\* The deferred RemoveCtrl, with or without an error of Discover; its own is
\* not looked at.
Removes ==
    IF Kato THEN UNCHANGED <<disc, removal>>
    ELSE \/ disc' = FALSE /\ removal' = "done"
         \/ removal' = "failed" /\ UNCHANGED disc

\* Discover returns an error, or the entries.  It leaves out those whose port
\* cannot be parsed, which Skips stands for.
Returns ==
    /\ \/ pc = "remove" /\ pc' = "connect" /\ todo' = entries
       \/ pc = "fail" /\ pc' = "failed" /\ UNCHANGED todo
    /\ Removes
    /\ UNCHANGED <<env, numRec, genCtr, entries, tries, ctrls, warned, found>>

----------------------------------------------------------------------------
(* ConnectAllNVMEDevices *)

NextEntry == todo' = Tail(todo) /\ tries' = 0
First == todo # <<>> /\ pc = "connect"

\* An entry that is no I/O subsystem is passed over.
Skips ==
    /\ First /\ Head(todo) \in {Referral, BadPort} /\ NextEntry
    /\ UNCHANGED <<env, disc, removal, pc, numRec, genCtr, entries, ctrls, warned, found>>

\* The kernel adds a controller for e.
Adds(e) ==
    /\ kernel' = kernel \cup {e} /\ found' = found \cup {e}
    /\ made' = Append(made, e)

\* Connect succeeds, and reads which controller it is.
Connects ==
    /\ First /\ Head(todo) \in Subsystem \ kernel
    /\ Adds(Head(todo))
    /\ ctrls' = Append(ctrls, Len(made) + 1) /\ NextEntry
    /\ UNCHANGED <<history, losses, disc, removal, pc, numRec, genCtr, entries, warned>>

\* Mutant: the loop ends with the first entry that cannot be connected.
GivesUpAll(e) ==
    IF tries < Attempts THEN tries' = tries + 1 /\ UNCHANGED <<todo, warned>>
    ELSE warned' = warned \cup {e} /\ todo' = <<>> /\ tries' = 0

\* After the first attempt and the retries the entry is given up.
GivesUp(e) ==
    IF tries < Attempts THEN tries' = tries + 1 /\ UNCHANGED <<todo, warned>>
    ELSE warned' = warned \cup {e} /\ NextEntry

\* Connect fails: in the write or before it, or in the read after the kernel
\* has added the controller.
ConnectFails ==
    /\ First /\ Head(todo) \in Subsystem \ kernel
    /\ GivesUp(Head(todo))
    /\ \/ UNCHANGED <<kernel, found, made>>
       \/ Adds(Head(todo))
    /\ UNCHANGED <<history, losses, disc, removal, pc, numRec, genCtr, entries, ctrls>>

\* Mutant: a controller the kernel has is reported like a new one.
AlreadyReported ==
    /\ First /\ Head(todo) \in kernel
    /\ found' = found \cup {Head(todo)}
    /\ ctrls' = Append(ctrls, Max({0} \cup {n \in 1..Len(made) : made[n] = Head(todo)}))
    /\ NextEntry
    /\ UNCHANGED <<env, disc, removal, pc, numRec, genCtr, entries, warned>>

\* The kernel has a controller.  The first attempt goes on with the next
\* entry; for a retry it is an error like others.  Or the attempt fails before
\* the kernel is asked.
Already ==
    /\ First /\ Head(todo) \in kernel
    /\ \/ /\ found' = found \cup {Head(todo)}
          /\ IF tries = 0 THEN NextEntry /\ UNCHANGED warned ELSE GivesUp(Head(todo))
       \/ GivesUp(Head(todo)) /\ UNCHANGED found
    /\ UNCHANGED <<env, disc, removal, pc, numRec, genCtr, entries, ctrls>>

Ends ==
    /\ pc = "connect" /\ todo = <<>> /\ pc' = "done"
    /\ UNCHANGED <<env, disc, removal, numRec, genCtr, entries, loop>>

----------------------------------------------------------------------------
(* The environment *)

Changes ==
    /\ Gen <= MaxGen /\ pc \in {"header", "read", "unpack", "again"}
    /\ \E l \in Log : history' = Append(history, l)
    /\ UNCHANGED <<kernel, made, losses, disc, removal, pc, numRec, genCtr, entries, loop>>

Loses ==
    /\ losses < MaxLoss /\ pc = "connect"
    /\ \E e \in kernel : kernel' = kernel \ {e}
    /\ losses' = losses + 1
    /\ UNCHANGED <<history, made, disc, removal, pc, numRec, genCtr, entries, loop>>

Discover ==
    \/ AddsDiscovery \/ ReadFails \/ ReadsHeader \/ ReadsLog \/ Unpacks \/ ReadsAgain \/ Returns
ConnectAll == Skips \/ Connects \/ ConnectFails \/ Already \/ Ends

Next == Discover \/ ConnectAll \/ Changes \/ Loses

Spec == Init /\ [][Next]_vars

----------------------------------------------------------------------------
(* Properties *)

\* Only entries of one log are connected: what Discover returns is the log of
\* the generation it has read.
ConnectsOneLog == pc \in {"connect", "done"} => entries = history[genCtr]

\* At the end every I/O subsystem of the log has had its controller, or was
\* given up after all attempts; no failure keeps another entry from being
\* connected.
AllAttempted ==
    pc = "done" => \A i \in 1..Len(entries) :
        entries[i] \in Subsystem => entries[i] \in found \cup warned

\* The n-th controller added is the one the kernel has for its entry.
Current(n) == made[n] \in kernel /\ \A m \in 1..Len(made) : made[m] = made[n] => m <= n

Retrying(e) == First /\ tries > 0 /\ Head(todo) = e

\* Every controller that is returned was added by this call, and is returned
\* once.  Conversely a controller this call added, even in an attempt that
\* failed, and that the kernel still has, is returned, or its entry is
\* warned about, or the retries for it are not over.
ReportedOnce ==
    /\ \A i \in 1..Len(ctrls) : ctrls[i] \in 1..Len(made)
    /\ \A i, j \in 1..Len(ctrls) : ctrls[i] = ctrls[j] => i = j
    /\ \A n \in 1..Len(made) : Current(n) =>
          \/ \E i \in 1..Len(ctrls) : ctrls[i] = n
          \/ made[n] \in warned
          \/ Retrying(made[n])

\* What the comment in ConnectAllNVMEDevices says: that an entry is connected
\* already is an error one does not care about.
ConnectedIsNoError == losses = 0 => warned \cap kernel = {}
============================================================================

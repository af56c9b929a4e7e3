--------------------------- MODULE ConnectionFeed ---------------------------
(***************************************************************************)
(* What the endpoint cache promises the service, and all the service knows *)
(* of the cache: the channel Cache.Connections().  The cache has at most   *)
(* one connection object per key; objects are made and dropped, and a new  *)
(* one is never an old one again.  A change puts the pair of its key among *)
(* the pairs the service is owed a notification for; a notification hands  *)
(* over whatever the cache has for its pairs when it is received.  Modules *)
(* Cache and Service both implement this, from the two ends.               *)
(***************************************************************************)
EXTENDS Naturals

CONSTANTS Key, Pair, PairOf

VARIABLES
    have,   \* the cache's connection object of each key, 0 for none
    last,   \* no object made for the key so far has a higher number
    given,  \* the object the service has for each key
    owed    \* the pairs a notification is still to come for

vars == <<have, last, given, owed>>

Zeros == [k \in Key |-> 0]

Init == have = Zeros /\ last = Zeros /\ given = Zeros /\ owed = {}

\* Objects of pair p are dropped or made.  A key whose object was dropped and
\* made again since the last notification is no exception: it has a new one.
Change(p) ==
    /\ have' \in [Key -> Nat] /\ last' \in [Key -> Nat]
    /\ \A k \in Key : \/ have'[k] = have[k]
                      \/ PairOf[k] = p /\ (have'[k] = 0 \/ have'[k] > last[k])
    /\ \A k \in Key : last'[k] >= last[k] /\ last'[k] >= have'[k]
    /\ owed' = owed \cup {p}
    /\ UNCHANGED given

\* A notification for the pairs P is received; others for the same pairs may
\* be on their way.
Tell(P) ==
    /\ P \subseteq owed
    /\ given' = [k \in Key |-> IF PairOf[k] \in P THEN have[k] ELSE given[k]]
    /\ owed \ P \subseteq owed' /\ owed' \subseteq owed
    /\ UNCHANGED <<have, last>>

\* The service lets go of objects of a pair before the rest of a notification
\* reaches it, or instead.
Drop(p) ==
    /\ p \in owed
    /\ given' \in [Key -> Nat]
    /\ \A k \in Key : given'[k] = given[k] \/ (PairOf[k] = p /\ given'[k] = 0)
    /\ UNCHANGED <<have, last, owed>>

\* The daemon starts anew.
Restart == have' = Zeros /\ last' = Zeros /\ given' = Zeros /\ owed' = {}

Next ==
    \/ \E p \in Pair : Change(p) \/ Drop(p)
    \/ \E P \in SUBSET Pair : Tell(P)
    \/ Restart

Spec == Init /\ [][Next]_vars

----------------------------------------------------------------------------
\* Where the service's object is not the cache's a notification is owed, so
\* no change is lost, however many of them one notification stands for.
NothingLost == \A k \in Key : given[k] # have[k] => PairOf[k] \in owed

\* The service is never handed an object it has had and lost before: what it
\* gets for a key is newer than what it has.
OnlyNewer ==
    [][\A k \in Key : given'[k] \in {0, given[k]} \/ given'[k] > given[k]]_vars
=============================================================================

-------------------------- MODULE ShutdownProofs ---------------------------
(***************************************************************************)
(* Proofs about Shutdown, for every finite set of endpoints: the wait      *)
(* group of the service counts the multiplexers of all its connections.    *)
(*                                                                         *)
(* Their number is a sum over the connections.  How it changes with one of *)
(* its terms is shown by induction over the number of terms, with the      *)
(* induction written as a statement about a set of naturals.               *)
(***************************************************************************)
EXTENDS Shutdown, ServiceProofs, FiniteSetTheorems, WellFoundedInduction

----------------------------------------------------------------------------
(* Sums *)

\* Induction over a set of naturals.
LEMMA AllNaturals ==
    ASSUME NEW A \in SUBSET Nat, 0 \in A, \A n \in A : n + 1 \in A
    PROVE  A = Nat
  <1> SUFFICES ASSUME Nat \ A # {} PROVE FALSE
    BY Zenon
  <1> DEFINE Less == {xy \in Nat \X Nat : xy[1] < xy[2]}
  <1>1. IsWellFoundedOn(Less, Nat)
    BY Zenon, NatLessThanWellFounded DEF OpToRel
  <1>2. \A a, b \in Nat : a < b => <<a, b>> \in Less
    BY Zenon DEF Less
  <1> HIDE DEF Less
  <1>3. PICK x \in Nat \ A : \A y \in Nat \ A : ~(<<y, x>> \in Less)
    BY Zenon, <1>1, WFMin
  <1>4. x # 0 /\ x - 1 \in Nat /\ x - 1 < x /\ (x - 1) + 1 = x
    BY <1>3
  <1>5. x - 1 \in A
    BY Zenon, <1>2, <1>3, <1>4
  <1> QED
    BY Zenon, <1>3, <1>4, <1>5

\* The multiplexers by object and state, and their number with counts m.
Places == Conn \X MuxState
Total(m) == MapThenSumSet(LAMBDA x : m[x[1]][x[2]], Places)

\* How the sum goes through the subsets of Places.
Pick(s) == CHOOSE x \in s : TRUE
At(m, x) == m[x[1]][x[2]]
Sums(m, it) ==
    [s \in SUBSET Places |-> IF s = {} THEN 0 ELSE At(m, Pick(s)) + it[s \ {Pick(s)}]]
Iter(m) == CHOOSE it : it = Sums(m, it)

\* The sum of module Shutdown is the fold defined here.
LEMMA TotalIsIter == ASSUME NEW m PROVE Total(m) = Iter(m)[Places]
  BY Zenon DEF Total, MapThenSumSet, MapThenFoldSet, Iter, Sums, Pick, At

\* Taking the chosen place away leaves one place less.
LEMMA Subsets ==
    ASSUME IsFiniteSet(Places), NEW s \in SUBSET Places
    PROVE  /\ Cardinality(s) \in Nat
           /\ Cardinality(s) = 0 => s = {}
           /\ s # {} => /\ Pick(s) \in s /\ s \ {Pick(s)} \in SUBSET Places
                        /\ Cardinality(s \ {Pick(s)}) = Cardinality(s) - 1
  <1>1. IsFiniteSet(s)
    BY Zenon, FS_Subset
  <1>2. Cardinality(s) \in Nat /\ (Cardinality(s) = 0 => s = {})
    BY Zenon, <1>1, FS_CardinalityType, FS_EmptySet
  <1>3. ASSUME s # {}
        PROVE  /\ Pick(s) \in s /\ s \ {Pick(s)} \in SUBSET Places
               /\ Cardinality(s \ {Pick(s)}) = Cardinality(s) - 1
    <2>1. Pick(s) \in s
      BY Zenon, <1>3 DEF Pick
    <2> HIDE DEF Pick
    <2> QED
      BY Zenon, <1>1, <2>1, FS_RemoveElement
  <1> QED
    BY Zenon, <1>2, <1>3

\* The sum is defined: there is a function that satisfies its recursion.
LEMMA IterSums ==
    ASSUME IsFiniteSet(Places), NEW m, \A x \in Places : At(m, x) \in Nat
    PROVE  Iter(m) = Sums(m, Iter(m))
  <1> DEFINE Good(g, n) == \A s \in SUBSET Places : Cardinality(s) <= n => g[s] = Sums(m, g)[s]
             A == {n \in Nat : \E g \in [SUBSET Places -> Nat] : Good(g, n)}
  <1>1. \A g \in [SUBSET Places -> Nat], s \in SUBSET Places :
            /\ Sums(m, g)[s] = IF s = {} THEN 0 ELSE At(m, Pick(s)) + g[s \ {Pick(s)}]
            /\ Sums(m, g)[s] \in Nat
    <2> SUFFICES ASSUME NEW g \in [SUBSET Places -> Nat], NEW s \in SUBSET Places
                 PROVE  /\ Sums(m, g)[s] = IF s = {} THEN 0 ELSE At(m, Pick(s)) + g[s \ {Pick(s)}]
                        /\ Sums(m, g)[s] \in Nat
      BY Zenon
    <2>1. Sums(m, g)[s] = IF s = {} THEN 0 ELSE At(m, Pick(s)) + g[s \ {Pick(s)}]
      BY Zenon DEF Sums
    <2>2. s # {} => At(m, Pick(s)) \in Nat /\ g[s \ {Pick(s)}] \in Nat
      BY Zenon, Subsets
    <2> QED
      BY <2>1, <2>2
  <1>2. \A g \in [SUBSET Places -> Nat] : Sums(m, g) \in [SUBSET Places -> Nat]
    <2> SUFFICES ASSUME NEW g \in [SUBSET Places -> Nat]
                 PROVE  Sums(m, g) \in [SUBSET Places -> Nat]
      BY Zenon
    <2>1. \A s \in SUBSET Places : Sums(m, g)[s] \in Nat
      BY Zenon, <1>1
    <2>2. Sums(m, g) = [s \in SUBSET Places |-> Sums(m, g)[s]]
      BY Zenon DEF Sums
    <2> QED
      BY Zenon, <2>1, <2>2
  <1>3. 0 \in A
    <2> DEFINE g == [s \in SUBSET Places |-> 0]
    <2>1. g \in [SUBSET Places -> Nat]
      OBVIOUS
    <2>2. ASSUME NEW s \in SUBSET Places, Cardinality(s) <= 0
          PROVE  g[s] = Sums(m, g)[s]
      <3>1. Cardinality(s) \in Nat /\ (Cardinality(s) = 0 => s = {})
        BY Zenon, Subsets
      <3>2. s = {}
        BY <2>2, <3>1
      <3> QED
        BY Zenon, <1>1, <2>1, <3>2
    <2> QED
      BY Zenon, <2>1, <2>2
  <1>4. ASSUME NEW n \in A PROVE n + 1 \in A
    <2>1. PICK g \in [SUBSET Places -> Nat] : Good(g, n)
      BY Zenon
    <2>2. ASSUME NEW s \in SUBSET Places, Cardinality(s) <= n + 1
          PROVE  Sums(m, g)[s] = Sums(m, Sums(m, g))[s]
      <3>1. CASE s = {}
        BY Zenon, <1>1, <1>2, <3>1
      <3>2. CASE s # {}
        <4> DEFINE t == s \ {Pick(s)}
        <4>1. t \in SUBSET Places /\ Cardinality(t) = Cardinality(s) - 1 /\ Cardinality(s) \in Nat
          BY Zenon, <3>2, Subsets
        <4>2. Cardinality(t) <= n
          BY <2>2, <4>1
        <4>3. g[t] = Sums(m, g)[t]
          BY Zenon, <2>1, <4>1, <4>2
        <4>4. Sums(m, g)[s] = At(m, Pick(s)) + g[t]
          BY Zenon, <1>1, <3>2
        <4>5. Sums(m, Sums(m, g))[s] = At(m, Pick(s)) + Sums(m, g)[t]
          BY Zenon, <1>1, <1>2, <3>2
        <4> QED
          BY Zenon, <3>2, <4>3, <4>4, <4>5
      <3> QED
        BY Zenon, <3>1, <3>2
    <2>3. n + 1 \in Nat
      OBVIOUS
    <2> QED
      BY Zenon, <1>2, <2>2, <2>3
  <1>5. A = Nat
    <2> HIDE DEF A
    <2>1. A \in SUBSET Nat
      BY Zenon DEF A
    <2> QED
      BY Zenon, <1>3, <1>4, <2>1, AllNaturals
  <1>6. PICK g \in [SUBSET Places -> Nat] : Good(g, Cardinality(Places))
    BY Zenon, <1>5, Subsets
  <1>7. g = Sums(m, g)
    <2>1. \A s \in SUBSET Places : g[s] = Sums(m, g)[s]
      <3> SUFFICES ASSUME NEW s \in SUBSET Places PROVE g[s] = Sums(m, g)[s]
        BY Zenon
      <3>1. Cardinality(s) <= Cardinality(Places)
        BY Zenon, FS_Subset
      <3> QED
        BY Zenon, <1>6, <3>1
    <2>2. Sums(m, g) \in [SUBSET Places -> Nat]
      BY Zenon, <1>2
    <2> QED
      BY <2>1, <2>2
  <1> QED
    BY Zenon, <1>7 DEF Iter
\* The counts m and w differ at most in one.
DifferAt(m, w, c) ==
    /\ c \in Places
    /\ \A x \in Places : At(m, x) \in Nat /\ At(w, x) \in Nat
    /\ \A x \in Places : x # c => At(w, x) = At(m, x)

\* Then the sum changes by as much as that one.
LEMMA TotalChanges ==
    ASSUME IsFiniteSet(Places), NEW m, NEW w, NEW c, DifferAt(m, w, c)
    PROVE  Total(m) \in Nat /\ Total(w) \in Nat /\ Total(w) + At(m, c) = Total(m) + At(w, c)
  <1> DEFINE F == Iter(m)
             G == Iter(w)
             Good(s) == /\ F[s] \in Nat /\ G[s] \in Nat
                        /\ c \in s => G[s] + At(m, c) = F[s] + At(w, c)
                        /\ c \notin s => G[s] = F[s]
             A == {n \in Nat : \A s \in SUBSET Places : Cardinality(s) <= n => Good(s)}
  <1>1. \A s \in SUBSET Places :
            /\ F[s] = IF s = {} THEN 0 ELSE At(m, Pick(s)) + F[s \ {Pick(s)}]
            /\ G[s] = IF s = {} THEN 0 ELSE At(w, Pick(s)) + G[s \ {Pick(s)}]
    <2>1. F = Sums(m, F) /\ G = Sums(w, G)
      BY Zenon, IterSums DEF DifferAt
    <2> HIDE DEF F, G
    <2> QED
      BY Zenon, <2>1 DEF Sums
  <1> HIDE DEF F, G
  <1>2. Good({})
    <2>1. F[{}] = 0 /\ G[{}] = 0
      BY Zenon, <1>1
    <2> QED
      BY <2>1
  <1>3. 0 \in A
    <2> SUFFICES ASSUME NEW s \in SUBSET Places, Cardinality(s) <= 0 PROVE Good(s)
      BY Zenon
    <2>1. Cardinality(s) \in Nat /\ (Cardinality(s) = 0 => s = {})
      BY Zenon, Subsets
    <2>2. s = {}
      BY <2>1
    <2> QED
      BY Zenon, <1>2, <2>2
  <1>4. ASSUME NEW n \in A PROVE n + 1 \in A
    <2> SUFFICES ASSUME NEW s \in SUBSET Places, Cardinality(s) <= n + 1 PROVE Good(s)
      <3>1. n + 1 \in Nat
        OBVIOUS
      <3> QED
        BY Zenon, <3>1
    <2>1. CASE s = {}
      BY Zenon, <1>2, <2>1
    <2>2. CASE s # {}
      <3> DEFINE p == Pick(s)
                 t == s \ {p}
      <3>1. /\ p \in s /\ t \in SUBSET Places
            /\ Cardinality(t) = Cardinality(s) - 1 /\ Cardinality(s) \in Nat
        BY Zenon, <2>2, Subsets
      <3>2. Cardinality(t) <= n
        BY <3>1
      <3>3. Good(t)
        BY Zenon, <3>1, <3>2
      <3>4. F[s] = At(m, p) + F[t] /\ G[s] = At(w, p) + G[t]
        BY Zenon, <1>1, <2>2
      <3>5. /\ At(m, p) \in Nat /\ At(w, p) \in Nat /\ At(m, c) \in Nat /\ At(w, c) \in Nat
            /\ p # c => At(w, p) = At(m, p)
        BY Zenon, <3>1 DEF DifferAt
      <3>6. (c \in t) <=> (c \in s /\ c # p)
        BY Zenon
      <3> HIDE DEF p, t
      <3> QED
        BY <3>1, <3>3, <3>4, <3>5, <3>6
    <2> QED
      BY Zenon, <2>1, <2>2
  <1>5. A = Nat
    <2> HIDE DEF A
    <2>1. A \in SUBSET Nat
      BY Zenon DEF A
    <2> QED
      BY Zenon, <1>3, <1>4, <2>1, AllNaturals
  <1>6. Good(Places)
    <2>1. Cardinality(Places) \in Nat /\ Cardinality(Places) <= Cardinality(Places)
      <3>1. Cardinality(Places) \in Nat
        BY Zenon, Subsets
      <3> QED
        BY <3>1
    <2>2. Cardinality(Places) \in A /\ Places \in SUBSET Places
      BY Zenon, <1>5, <2>1
    <2> QED
      BY Zenon, <2>1, <2>2
  <1>7. Total(m) = F[Places] /\ Total(w) = G[Places]
    BY Zenon, TotalIsIter DEF F, G
  <1> QED
    BY Zenon, <1>6, <1>7 DEF DifferAt

\* Nothing is counted where there is nothing.
LEMMA TotalZero ==
    ASSUME IsFiniteSet(Places), NEW m, \A x \in Places : At(m, x) = 0
    PROVE  Total(m) = 0
  <1> DEFINE F == Iter(m)
             A == {n \in Nat : \A s \in SUBSET Places : Cardinality(s) <= n => F[s] = 0}
  <1>1. \A s \in SUBSET Places :
            F[s] = IF s = {} THEN 0 ELSE At(m, Pick(s)) + F[s \ {Pick(s)}]
    <2>1. \A x \in Places : At(m, x) \in Nat
      BY SMT
    <2>2. F = Sums(m, F)
      BY Zenon, <2>1, IterSums
    <2> HIDE DEF F
    <2> QED
      BY Zenon, <2>2 DEF Sums
  <1> HIDE DEF F
  <1>2. 0 \in A
    <2> SUFFICES ASSUME NEW s \in SUBSET Places, Cardinality(s) <= 0 PROVE F[s] = 0
      BY Zenon
    <2>1. Cardinality(s) \in Nat /\ (Cardinality(s) = 0 => s = {})
      BY Zenon, Subsets
    <2>2. s = {}
      BY <2>1
    <2> QED
      BY Zenon, <1>1, <2>2
  <1>3. ASSUME NEW n \in A PROVE n + 1 \in A
    <2> SUFFICES ASSUME NEW s \in SUBSET Places, Cardinality(s) <= n + 1 PROVE F[s] = 0
      <3>1. n + 1 \in Nat
        OBVIOUS
      <3> QED
        BY Zenon, <3>1
    <2>1. CASE s # {}
      <3> DEFINE p == Pick(s)
                 t == s \ {p}
      <3>1. /\ p \in s /\ t \in SUBSET Places
            /\ Cardinality(t) = Cardinality(s) - 1 /\ Cardinality(s) \in Nat
        BY Zenon, <2>1, Subsets
      <3>2. Cardinality(t) <= n
        BY <3>1
      <3>3. F[s] = At(m, p) + F[t] /\ At(m, p) = 0 /\ F[t] = 0
        BY Zenon, <1>1, <2>1, <3>1, <3>2
      <3> HIDE DEF p, t
      <3> QED
        BY <3>3
    <2> QED
      BY Zenon, <1>1, <2>1
  <1>4. A = Nat
    <2> HIDE DEF A
    <2>1. A \in SUBSET Nat
      BY Zenon DEF A
    <2> QED
      BY Zenon, <1>2, <1>3, <2>1, AllNaturals
  <1>5. Cardinality(Places) \in Nat
    BY Zenon, Subsets
  <1>6. Cardinality(Places) <= Cardinality(Places)
    BY <1>5
  <1>7. Cardinality(Places) \in A /\ Places \in SUBSET Places
    BY Zenon, <1>4, <1>5
  <1> QED
    BY Zenon, <1>6, <1>7, TotalIsIter DEF F

\* There are finitely many kinds of multiplexers.
LEMMA PlacesFinite == IsFiniteSet(Places)
  <1>1. IsFiniteSet(1..MaxGen)
    BY Bounds, FS_Interval
  <1>2. IsFiniteSet(Conn)
    BY Zenon, <1>1, ShutdownAssumption, FS_Product DEF Conn
  <1>3. IsFiniteSet(MuxState)
    <2>1. IsFiniteSet({}) /\ MuxState = (({} \cup {"idle"}) \cup {"aen"}) \cup {"ka"}
      BY Zenon, FS_EmptySet DEF MuxState, Kind
    <2> QED
      BY Zenon, <2>1, FS_AddElement
  <1> QED
    BY Zenon, <1>2, <1>3, FS_Product DEF Places

----------------------------------------------------------------------------
(* The wait group *)

Loads == [Conn -> [MuxState -> Nat]]

\* A single count is set.
Sets(m, w, c, k, v) ==
    /\ m \in Loads /\ c \in Conn /\ k \in MuxState /\ v \in Nat
    /\ w = [m EXCEPT ![c][k] = v]

\* One count changes: the sum changes by as much.
LEMMA CountSet ==
    ASSUME NEW m, NEW w, NEW c, NEW k, NEW v, Sets(m, w, c, k, v)
    PROVE  /\ w \in Loads /\ Total(m) \in Nat /\ Total(w) \in Nat /\ m[c][k] \in Nat
           /\ Total(w) + m[c][k] = Total(m) + v
  <1> DEFINE p == <<c, k>>
  <1>1. w \in Loads /\ m[c][k] \in Nat /\ w[c][k] = v
    BY Zenon DEF Sets, Loads
  <1>2. \A d \in Conn, j \in MuxState : <<d, j>> # <<c, k>> => w[d][j] = m[d][j]
    BY Zenon DEF Sets, Loads
  <1>3. \A d \in Conn, j \in MuxState : m[d][j] \in Nat /\ w[d][j] \in Nat
    BY <1>1 DEF Sets, Loads
  <1>4. p \in Places /\ At(m, p) = m[c][k] /\ At(w, p) = v
    BY Zenon, <1>1 DEF Sets, Places, At
  <1>5. \A x \in Places : At(m, x) \in Nat /\ At(w, x) \in Nat
    BY Zenon, <1>3 DEF Places, At
  <1>6. \A x \in Places : x # p => At(w, x) = At(m, x)
    BY <1>2 DEF Places, At
  <1> HIDE DEF p
  <1>7. DifferAt(m, w, p)
    BY Zenon, <1>4, <1>5, <1>6 DEF DifferAt
  <1>8. Total(m) \in Nat /\ Total(w) \in Nat /\ Total(w) + At(m, p) = Total(m) + At(w, p)
    BY Zenon, <1>7, PlacesFinite, TotalChanges
  <1> QED
    BY Zenon, <1>1, <1>4, <1>8

\* The types on which the counting rests: an object that is tried is one of
\* the endpoints'.
Data ==
    /\ CacheType
    /\ sconn \in [Ep -> 0..MaxGen] /\ untried \subseteq Conn

\* The wait group counts the multiplexers.  One that is not counted yet has
\* its event to be pushed, so that there is never a second one.
Counted ==
    /\ mux \in Loads /\ wg \in Nat
    /\ adding => pc = "push"
    /\ CountsMultiplexers

\* CountsMultiplexers in terms of the sum, before and after a step.
LEMMA CountsTotal ==
    /\ CountsMultiplexers <=> Total(mux) = wg + IF adding THEN 1 ELSE 0
    /\ CountsMultiplexers' <=> Total(mux') = wg' + IF adding' THEN 1 ELSE 0
  <1>1. CountsMultiplexers <=> Total(mux) = wg + IF adding THEN 1 ELSE 0
    BY Zenon DEF CountsMultiplexers, Total, Places
  <1>2. CountsMultiplexers' <=> Total(mux') = wg' + IF adding' THEN 1 ELSE 0
    BY Zenon DEF CountsMultiplexers, Total, Places, MapThenSumSet, MapThenFoldSet
  <1> QED
    BY Zenon, <1>1, <1>2

\* The objects of a cluster that the service knows.
LEMMA Tried ==
    ASSUME Data, NEW cl PROVE ClusterConns(cl) \subseteq Conn
  BY Bounds DEF Data, ClusterConns, EpsOf, Conn

\* Every step keeps the types and tries only connections of the endpoints.
LEMMA DataStep ==
    ASSUME Data, [ShutdownNext]_allVars PROVE Data'
  <1> USE DEF Plain, Dies, vars, cache, main
  <1>1. CASE UNCHANGED <<cached, gen, note, sconn, untried>>
    BY Zenon, <1>1 DEF Data, CacheType
  <1>2. CASE Application \/ SignalGoroutine \/ (\E s \in {"TERM", "HUP"} : SignalArrives(s))
             \/ StopCancels \/ MapFaults \/ UNCHANGED allVars
    BY Zenon, <1>1, <1>2 DEF Application, AppFails, AppCreates, ServiceStarts, AppReturns,
       SignalGoroutine, TakesSignal, AppCancels, AppStopsCache, SignalArrives, StopCancels,
       MapFaults, allVars
  <1>3. CASE Stop
    <2>1. ASSUME NEW c \in Listening, StopDisconnects(c) \/ StopHangs(c) PROVE Data'
      BY Zenon, <1>1, <2>1 DEF StopDisconnects, StopHangs
    <2>2. CASE StopDeletes
      <3>1. UNCHANGED <<cached, gen, note, untried>>
        BY Zenon, <2>2 DEF StopDeletes
      <3>2. sconn' = sconn \/ sconn' = [sconn EXCEPT ![EpOf(victim)] = 0]
        BY Zenon, <2>2 DEF StopDeletes
      <3>3. sconn' \in [Ep -> 0..MaxGen]
        BY <3>2, Bounds DEF Data
      <3> QED
        BY Zenon, <3>1, <3>3 DEF Data, CacheType
    <2>3. CASE StopDrains \/ StopCloses \/ StopReturns
      BY Zenon, <1>1, <2>3 DEF StopDrains, StopCloses, StopReturns
    <2> QED
      BY Zenon, <1>3, <2>1, <2>2, <2>3 DEF Stop
  <1>4. CASE Reconnect
    <2>1. ASSUME NEW c \in untried,
                 Plain(DiscoverFails(c)) \/ Plain(DiscoverHangs(c)) \/ Starts(c)
          PROVE  Data'
      <3>1. untried' \subseteq untried /\ UNCHANGED <<cached, gen, note, sconn>>
        BY Zenon, <2>1 DEF DiscoverFails, DiscoverHangs, Starts, DiscoverSucceeds
      <3> QED
        BY Zenon, <3>1 DEF Data, CacheType
    <2>2. CASE CountsIt \/ Pushes
      BY Zenon, <1>1, <2>2 DEF CountsIt, Pushes, PushesAen, PushTimesOut
    <2> QED
      BY Zenon, <1>4, <2>1, <2>2 DEF Reconnect
  <1>5. CASE Multiplexer \/ LoopEnds
    <2>1. ASSUME NEW c \in Conn, Returns(c) PROVE Data'
      BY Zenon, <1>1, <2>1 DEF Returns, Leaves
    <2>2. ASSUME NEW c \in Conn, NEW k \in Kind, Forwards(c, k) PROVE Data'
      BY Zenon, <1>1, <2>2 DEF Forwards, Leaves, MuxForwards
    <2>3. CASE LoopEnds
      BY Zenon, <1>1, <2>3 DEF LoopEnds
    <2> QED
      BY Zenon, <1>5, <2>1, <2>2, <2>3 DEF Multiplexer
  <1>6. CASE Plain(Environment)
    <2>1. ASSUME NEW cl \in Cluster, NEW R \in SUBSET Ep, FileAdded(cl, R) PROVE Data'
      <3>1. CacheType' /\ UNCHANGED <<sconn, untried>>
        BY Zenon, <2>1, CacheBecomesType DEF FileAdded, Data
      <3> QED
        BY Zenon, <3>1 DEF Data
    <2>2. ASSUME NEW e \in Ep, ServerFlaps(e) PROVE Data'
      BY Zenon, <1>1, <2>2 DEF ServerFlaps
    <2>3. ASSUME NEW s \in Slot, ServerSendsAen(s) PROVE Data'
      BY Zenon, <1>1, <2>3 DEF ServerSendsAen
    <2> QED
      BY Zenon, <1>6, <2>1, <2>2, <2>3 DEF Environment
  <1>7. CASE Plain(TakesAggregate)
    <2>1. ASSUME NEW R \in SUBSET Ep, TakesAen(R) PROVE Data'
      <3> DEFINE cl == ClusterOfConn(Head(agg)[1])
      <3>1. CacheBecomes(cl, R) /\ UNCHANGED <<sconn, untried>>
        BY Zenon, <2>1 DEF TakesAen
      <3> HIDE DEF cl
      <3>2. CacheType'
        BY Zenon, <3>1, CacheBecomesType DEF Data
      <3> QED
        BY Zenon, <3>1, <3>2 DEF Data
    <2>2. CASE TakesAenFails \/ TakesAenHangs \/ TakesKeepAliveLoss
      BY Zenon, <1>1, <2>2 DEF TakesAenFails, TakesAenHangs, TakesKeepAliveLoss
    <2> QED
      BY Zenon, <1>7, <2>1, <2>2 DEF TakesAggregate
  <1>8. ASSUME NEW cl \in Cluster,
               Plain(TakesTrigger(cl)) \/ Plain(Notified(cl)) \/ Plain(TimerArms(cl))
               \/ \E k \in {"armed", "orphan"} : Plain(TimerFires(cl, k))
        PROVE  Data'
    <2>1. CASE TakesTrigger(cl)
      <3>1. UNCHANGED <<cached, gen, note, sconn>>
            /\ (untried' = untried \/ untried' = ClusterConns(cl))
        BY Zenon, <2>1 DEF TakesTrigger
      <3>2. untried' \subseteq Conn
        BY Zenon, <3>1, Tried DEF Data
      <3> QED
        BY Zenon, <3>1, <3>2 DEF Data, CacheType
    <2>2. CASE TakesNotification(cl)
      <3>1. /\ UNCHANGED <<cached, gen, untried>> /\ note[cl] > 0
            /\ note' = [note EXCEPT ![cl] = @ - 1] /\ sconn' = ConnectionsAfter(cl)
        BY Zenon, <2>2 DEF TakesNotification
      <3>2. note' \in [Cluster -> Nat]
        BY <3>1 DEF Data, CacheType
      <3>3. sconn' \in [Ep -> 0..MaxGen]
        BY <3>1, Bounds DEF Data, CacheType, ConnectionsAfter
      <3> QED
        BY Zenon, <3>1, <3>2, <3>3 DEF Data, CacheType
    <2>4. ASSUME NEW D \in SUBSET Ep, RemovalHangs(cl, D) PROVE Data'
      <3>1. /\ UNCHANGED <<cached, gen, untried>> /\ note[cl] > 0
            /\ note' = [note EXCEPT ![cl] = @ - 1]
            /\ sconn' = [e \in Ep |-> IF e \in D THEN 0 ELSE sconn[e]]
        BY Zenon, <2>4 DEF RemovalHangs
      <3>2. note' \in [Cluster -> Nat]
        BY <3>1 DEF Data, CacheType
      <3>3. sconn' \in [Ep -> 0..MaxGen]
        BY <3>1, Bounds DEF Data
      <3> QED
        BY Zenon, <3>1, <3>2, <3>3 DEF Data, CacheType
    <2>3. CASE TimerArms(cl) \/ \E k \in {"armed", "orphan"} : TimerFires(cl, k)
      BY Zenon, <1>1, <2>3 DEF TimerArms, TimerFires
    <2> QED
      BY Zenon, <1>8, <2>1, <2>2, <2>3, <2>4 DEF Notified
  <1>9. ASSUME NEW s \in Slot, Plain(KeepAliveFails(s)) \/ Plain(Handler(s))
        PROVE  Data'
    BY Zenon, <1>1, <1>9 DEF KeepAliveFails, Handler, HandlerStarts, HandlerFindsNone,
       HandlerSelects, HandlerSends
  <1> QED
    BY Zenon, <1>2, <1>3, <1>4, <1>5, <1>6, <1>7, <1>8, <1>9 DEF ShutdownNext

\* Most steps neither start nor end a multiplexer, nor end a push.
LEMMA SameCount ==
    ASSUME Counted, UNCHANGED <<mux, wg, adding>>, adding => pc' = "push"
    PROVE  Counted'
  BY Zenon, CountsTotal DEF Counted

\* A multiplexer goes from one state to another.
LEMMA MovedCount ==
    ASSUME Counted, NEW c, NEW k \in MuxState, NEW j \in MuxState, j # k,
           c \in Conn => mux[c][k] > 0,
           mux' = [mux EXCEPT ![c][k] = @ - 1, ![c][j] = @ + 1],
           UNCHANGED <<wg, adding>>, adding => pc' = "push"
    PROVE  Counted'
  <1>1. mux \in Loads
    BY Zenon DEF Counted
  <1>2. CASE c \notin Conn
    <2>1. mux' = mux
      BY Zenon, <1>1, <1>2 DEF Loads
    <2> QED
      BY Zenon, <2>1, SameCount
  <1>3. CASE c \in Conn
    <2> DEFINE one == [mux EXCEPT ![c][k] = mux[c][k] - 1]
    <2>1. mux[c][k] \in Nat /\ mux[c][k] - 1 \in Nat
      BY <1>1, <1>3 DEF Loads
    <2>2. /\ one \in Loads /\ Total(one) \in Nat /\ Total(mux) \in Nat
          /\ Total(one) + mux[c][k] = Total(mux) + (mux[c][k] - 1)
      <3>1. Sets(mux, one, c, k, mux[c][k] - 1)
        BY Zenon, <1>1, <1>3, <2>1 DEF Sets
      <3> QED
        BY <3>1, CountSet
    <2>3. mux' = [one EXCEPT ![c][j] = one[c][j] + 1]
      BY Zenon, <1>1, <1>3 DEF Loads
    <2> HIDE DEF one
    <2>4. one[c][j] \in Nat /\ one[c][j] + 1 \in Nat
      BY <1>3, <2>2 DEF Loads
    <2>5. /\ mux' \in Loads /\ Total(mux') \in Nat
          /\ Total(mux') + one[c][j] = Total(one) + (one[c][j] + 1)
      <3>1. Sets(one, mux', c, j, one[c][j] + 1)
        BY Zenon, <1>3, <2>2, <2>3, <2>4 DEF Sets
      <3> QED
        BY <3>1, CountSet
    <2>6. Total(mux') = Total(mux)
      BY <2>1, <2>2, <2>4, <2>5
    <2> QED
      BY Zenon, <2>5, <2>6, CountsTotal DEF Counted
  <1> QED
    BY Zenon, <1>2, <1>3

\* A multiplexer returns, and the wait group is told.
LEMMA LeftCount ==
    ASSUME Counted, NEW c \in Conn, NEW k \in MuxState, mux[c][k] > 0,
           mux' = [mux EXCEPT ![c][k] = @ - 1],
           wg > 0, wg' = wg - 1, UNCHANGED adding, adding => pc' = "push"
    PROVE  Counted'
  <1>1. mux \in Loads /\ wg \in Nat
    BY Zenon DEF Counted
  <1>2. mux[c][k] \in Nat /\ mux[c][k] - 1 \in Nat /\ wg' \in Nat
    BY <1>1 DEF Loads
  <1>3. /\ mux' \in Loads /\ Total(mux') \in Nat /\ Total(mux) \in Nat
        /\ Total(mux') + mux[c][k] = Total(mux) + (mux[c][k] - 1)
    <2>1. Sets(mux, mux', c, k, mux[c][k] - 1)
      BY Zenon, <1>1, <1>2 DEF Sets
    <2> QED
      BY <2>1, CountSet
  <1>4. Total(mux) = wg + IF adding THEN 1 ELSE 0
    BY Zenon, CountsTotal DEF Counted
  <1>5. Total(mux') = wg' + IF adding THEN 1 ELSE 0
    BY <1>1, <1>2, <1>3, <1>4
  <1> QED
    BY Zenon, <1>2, <1>3, <1>5, CountsTotal DEF Counted

\* reconnectToCluster starts a multiplexer ...
LEMMA StartedCount ==
    ASSUME Data, Counted, NEW c \in untried, Starts(c)
    PROVE  Counted'
  <1>1. /\ pc = "reconnect" /\ pc' = "push" /\ adding' = TRUE /\ wg' = wg
        /\ mux' = [mux EXCEPT ![c]["idle"] = @ + 1]
    BY Zenon DEF Starts, DiscoverSucceeds
  <1>2. ~adding
    BY Zenon, <1>1 DEF Counted
  <1>3. mux \in Loads /\ wg \in Nat /\ c \in Conn /\ "idle" \in MuxState
    BY Zenon DEF Data, Counted, MuxState
  <1>4. mux[c]["idle"] \in Nat /\ mux[c]["idle"] + 1 \in Nat
    BY <1>3 DEF Loads
  <1>5. /\ mux' \in Loads /\ Total(mux') \in Nat /\ Total(mux) \in Nat
        /\ Total(mux') + mux[c]["idle"] = Total(mux) + (mux[c]["idle"] + 1)
    <2>1. Sets(mux, mux', c, "idle", mux[c]["idle"] + 1)
      BY Zenon, <1>1, <1>3, <1>4 DEF Sets
    <2> QED
      BY <2>1, CountSet
  <1>6. Total(mux) = wg + 0
    BY Zenon, <1>2, CountsTotal DEF Counted
  <1>7. Total(mux') = wg' + 1
    BY <1>1, <1>3, <1>4, <1>5, <1>6
  <1> QED
    BY Zenon, <1>1, <1>3, <1>5, <1>7, CountsTotal DEF Counted

\* ... and counts it.
LEMMA CountedCount ==
    ASSUME Counted, CountsIt
    PROVE  Counted'
  <1>1. mux' = mux /\ wg' = wg + 1 /\ adding' = FALSE
    BY Zenon DEF CountsIt, vars
  <1>2. wg \in Nat /\ adding /\ mux \in Loads
    BY Zenon DEF Counted, CountsIt
  <1>3. wg' \in Nat /\ wg' + 0 = wg + 1
    BY <1>1, <1>2
  <1>4. Total(mux) = wg + 1
    BY Zenon, <1>2, CountsTotal DEF Counted
  <1> QED
    BY Zenon, <1>1, <1>2, <1>3, <1>4, CountsTotal DEF Counted

\* The steps of module Service that leave the multiplexers alone.
LEMMA QuietCount ==
    ASSUME Counted, UNCHANGED <<mux, wg, adding>>, pc' = pc \/ pc # "push" \/ ~adding
    PROVE  Counted'
  BY Zenon, SameCount DEF Counted

\* Every step keeps the wait group at the number of multiplexers.
LEMMA CountedStep ==
    ASSUME Data, Counted, [ShutdownNext]_allVars PROVE Counted'
  <1> USE DEF Plain, Dies, vars, main, group
  <1>1. CASE UNCHANGED <<mux, wg, adding, pc>>
    BY Zenon, <1>1, QuietCount
  <1>2. CASE UNCHANGED <<mux, wg, adding>> /\ (pc # "push" \/ ~adding)
    BY Zenon, <1>2, QuietCount
  <1>3. CASE Application \/ SignalGoroutine \/ (\E s \in {"TERM", "HUP"} : SignalArrives(s))
             \/ StopCancels \/ MapFaults \/ UNCHANGED allVars
    BY Zenon, <1>1, <1>3 DEF Application, AppFails, AppCreates, ServiceStarts, AppReturns,
       SignalGoroutine, TakesSignal, AppCancels, AppStopsCache, SignalArrives, StopCancels,
       MapFaults, allVars
  <1>4. CASE Stop
    BY Zenon, <1>1, <1>4 DEF Stop, StopDisconnects, StopHangs, StopDeletes, StopDrains,
       StopCloses, StopReturns
  <1>5. CASE Reconnect
    <2>1. ASSUME NEW c \in untried, Plain(DiscoverFails(c)) \/ Plain(DiscoverHangs(c))
          PROVE  Counted'
      <3>1. UNCHANGED <<mux, wg, adding>> /\ pc # "push"
        BY Zenon, <2>1 DEF DiscoverFails, DiscoverHangs
      <3> QED
        BY Zenon, <1>2, <3>1
    <2>2. ASSUME NEW c \in untried, Starts(c) PROVE Counted'
      BY Zenon, <2>2, StartedCount
    <2>3. CASE CountsIt
      BY Zenon, <2>3, CountedCount
    <2>4. CASE Pushes
      <3>1. ~adding /\ UNCHANGED <<wg, adding>>
        BY Zenon, <2>4 DEF Pushes
      <3>2. CASE PushesAen
        <4>1. /\ mux[live]["idle"] > 0 /\ "idle" # "aen"
              /\ mux' = [mux EXCEPT ![live]["idle"] = @ - 1, ![live]["aen"] = @ + 1]
              /\ "idle" \in MuxState /\ "aen" \in MuxState
          BY Zenon, <3>2 DEF PushesAen, MuxState, Kind
        <4> QED
          BY Zenon, <3>1, <4>1, MovedCount
      <3>3. CASE PushTimesOut \/ Dies("closed channel")
        BY Zenon, <1>2, <3>1, <3>3 DEF PushTimesOut
      <3> QED
        BY Zenon, <2>4, <3>2, <3>3 DEF Pushes
    <2> QED
      BY Zenon, <1>5, <2>1, <2>2, <2>3, <2>4 DEF Reconnect
  <1>6. CASE Multiplexer
    <2>1. ASSUME NEW c \in Conn, Returns(c) PROVE Counted'
      <3>1. CASE Dies("negative counter")
        BY Zenon, <1>1, <3>1
      <3>2. CASE ~Dies("negative counter")
        <4>1. /\ mux[c]["idle"] > 0 /\ "idle" \in MuxState
              /\ mux' = [mux EXCEPT ![c]["idle"] = @ - 1]
              /\ wg > 0 /\ wg' = wg - 1 /\ UNCHANGED <<adding, pc>>
          BY Zenon, <2>1, <3>2 DEF Returns, Leaves, MuxState
        <4> QED
          BY Zenon, <4>1, LeftCount DEF Counted
      <3> QED
        BY Zenon, <3>1, <3>2
    <2>2. ASSUME NEW c \in Conn, NEW k \in Kind, Forwards(c, k) PROVE Counted'
      <3>1. CASE \E why : Dies(why)
        BY Zenon, <1>1, <3>1
      <3>2. CASE k = "aen" /\ Plain(MuxForwards(c, k))
        <4>1. /\ mux[c][k] > 0 /\ UNCHANGED <<wg, adding, pc>>
              /\ mux' = [mux EXCEPT ![c][k] = @ - 1, ![c]["idle"] = @ + 1]
              /\ k \in MuxState /\ "idle" \in MuxState /\ "idle" # k
          BY Zenon, <3>2 DEF MuxForwards, MuxState, Kind
        <4> QED
          BY Zenon, <4>1, MovedCount DEF Counted
      <3>3. CASE k = "ka" /\ wg > 0 /\ MuxForwards(c, k) /\ wg' = wg - 1 /\ UNCHANGED adding
        <4>1. /\ mux \in Loads /\ mux[c]["ka"] > 0 /\ UNCHANGED <<adding, pc>>
              /\ mux' = [mux EXCEPT ![c]["ka"] = @ - 1, ![c]["idle"] = @]
              /\ k \in MuxState
          BY Zenon, <3>3 DEF Counted, MuxForwards, MuxState
        <4>2. mux' = [mux EXCEPT ![c][k] = @ - 1]
          BY Zenon, <3>3, <4>1 DEF Loads, MuxState
        <4> QED
          BY Zenon, <3>3, <4>1, <4>2, LeftCount DEF Counted
      <3> QED
        BY Zenon, <2>2, <3>1, <3>2, <3>3 DEF Forwards, Leaves
    <2> QED
      BY Zenon, <1>6, <2>1, <2>2 DEF Multiplexer
  <1>7. CASE LoopEnds
    <2>1. UNCHANGED <<mux, wg, adding>> /\ pc # "push"
      BY Zenon, <1>7 DEF LoopEnds
    <2> QED
      BY Zenon, <1>2, <2>1
  <1>8. CASE Plain(Environment)
    BY Zenon, <1>1, <1>8 DEF Environment, FileAdded, ServerFlaps, ServerSendsAen
  <1>9. CASE Plain(TakesAggregate)
    <2>1. UNCHANGED <<mux, wg, adding>> /\ pc # "push"
      BY Zenon, <1>9 DEF TakesAggregate, TakesAen, TakesAenFails, TakesAenHangs,
         TakesKeepAliveLoss
    <2> QED
      BY Zenon, <1>2, <2>1
  <1>10. ASSUME NEW cl \in Cluster,
                Plain(TakesTrigger(cl)) \/ Plain(Notified(cl)) \/ Plain(TimerArms(cl))
                \/ \E k \in {"armed", "orphan"} : Plain(TimerFires(cl, k))
         PROVE  Counted'
    <2>1. CASE TakesTrigger(cl) \/ Notified(cl)
      <3>1. UNCHANGED <<mux, wg, adding>> /\ pc # "push"
        BY Zenon, <1>10, <2>1 DEF TakesTrigger, Notified, TakesNotification, RemovalHangs
      <3> QED
        BY Zenon, <1>2, <3>1
    <2>2. CASE TimerArms(cl) \/ \E k \in {"armed", "orphan"} : TimerFires(cl, k)
      <3>1. UNCHANGED <<mux, pc>>
        BY Zenon, <2>2 DEF TimerArms, TimerFires
      <3> QED
        BY Zenon, <1>1, <1>10, <3>1
    <2> QED
      BY Zenon, <1>10, <2>1, <2>2
  <1>11. ASSUME NEW s \in Slot, Plain(KeepAliveFails(s)) \/ Plain(Handler(s))
         PROVE  Counted'
    <2>1. CASE KeepAliveFails(s) \/ HandlerStarts(s) \/ HandlerFindsNone(s)
               \/ HandlerSelects(s)
      BY Zenon, <1>1, <1>11, <2>1 DEF KeepAliveFails, HandlerStarts, HandlerFindsNone,
         HandlerSelects
    <2>2. CASE HandlerSends(s)
      <3> DEFINE c == sess[sess[s].of].conn
                 k == sess[s].h
      <3>1. k \in Kind /\ UNCHANGED <<wg, adding, pc>>
        BY Zenon, <1>11, <2>2 DEF HandlerSends
      <3>2. \/ mux' = mux
            \/ /\ mux[c]["idle"] > 0
               /\ mux' = [mux EXCEPT ![c]["idle"] = @ - 1, ![c][k] = @ + 1]
        BY Zenon, <2>2 DEF HandlerSends
      <3> HIDE DEF c, k
      <3>3. "idle" \in MuxState /\ k \in MuxState /\ k # "idle"
        BY Zenon, <3>1 DEF MuxState, Kind
      <3>4. CASE mux' = mux
        BY Zenon, <1>1, <3>1, <3>4
      <3>5. CASE /\ mux[c]["idle"] > 0
                 /\ mux' = [mux EXCEPT ![c]["idle"] = @ - 1, ![c][k] = @ + 1]
        BY Zenon, <3>1, <3>3, <3>5, MovedCount DEF Counted
      <3> QED
        BY Zenon, <3>2, <3>4, <3>5
    <2> QED
      BY Zenon, <1>11, <2>1, <2>2 DEF Handler
  <1> QED
    BY Zenon, <1>3, <1>4, <1>5, <1>6, <1>7, <1>8, <1>9, <1>10, <1>11 DEF ShutdownNext

\* At first there is none.
LEMMA InitCounted == ShutdownInit => Data /\ Counted
  <1> SUFFICES ASSUME ShutdownInit PROVE Data /\ Counted
    BY Zenon
  <1>1. /\ cached = [e \in Ep |-> 0] /\ gen = [e \in Ep |-> 0]
        /\ note = [cl \in Cluster |-> 0] /\ sconn = [e \in Ep |-> 0] /\ untried = {}
        /\ mux = [c \in Conn |-> [k \in MuxState |-> 0]] /\ wg = 0 /\ adding = FALSE
    BY Zenon DEF ShutdownInit, Init
  <1>2. Data
    BY <1>1, Bounds DEF Data, CacheType
  <1>3. mux \in Loads /\ wg \in Nat
    BY Zenon, <1>1 DEF Loads
  <1>4. \A x \in Places : At(mux, x) = 0
    BY Zenon, <1>1 DEF Places, At
  <1>5. Total(mux) = 0
    BY Zenon, <1>4, PlacesFinite, TotalZero
  <1>6. Total(mux) = wg + 0
    BY <1>1, <1>5
  <1>7. CountsMultiplexers
    BY Zenon, <1>1, <1>6, CountsTotal
  <1> QED
    BY Zenon, <1>1, <1>2, <1>3, <1>7 DEF Counted

\* The wait group of the service counts the multiplexers that run, but for the
\* one that is started and about to be counted.
THEOREM WaitGroupCounts == ShutdownSpec => []CountsMultiplexers
  <1>1. Data /\ Counted /\ [ShutdownNext]_allVars => (Data /\ Counted)'
    BY Zenon, DataStep, CountedStep
  <1>2. Counted => CountsMultiplexers
    BY Zenon DEF Counted
  <1> QED
    BY <1>1, <1>2, InitCounted, PTL DEF ShutdownSpec
=============================================================================

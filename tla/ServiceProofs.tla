--------------------------- MODULE ServiceProofs ---------------------------
(* Proofs about module Service, for every set of endpoints and clusters,   *)
(* every capacity and every bound.                                         *)
EXTENDS Service, TLAPS

\* Objects are only made with a fresh generation, so a stopped one is never
\* the cache's or the service's again; between two steps of the select the
\* main loop holds no object.
Objects ==
    /\ \A e \in Ep : cached[e] <= gen[e] /\ sconn[e] <= gen[e]
    /\ \A e \in Ep, g \in 1..MaxGen : <<e, g>> \in stopped =>
           g <= gen[e] /\ g # cached[e] /\ g # sconn[e]
    /\ \A e \in Ep, g \in 1..MaxGen : <<e, g>> \in untried => g = sconn[e]
    /\ \A e \in Ep, g \in 1..MaxGen : live = <<e, g>> => g = sconn[e]
    /\ pc # "reconnect" => untried = {}
    /\ pc # "push" => live = None

\* The handlers that may still send, and the clients they serve.
Active == {"start", "select", "aen", "ka"}
Serves(ss) ==
    \A s \in Slot : ss[s].h \in Active =>
        /\ ss[s].of \in Slot /\ ss[ss[s].of].h # "unused"
        /\ ss[s].h = "start" => ss[s].of = s

\* A client has an object, the table holds clients of the right address that
\* were not stopped.
Clients ==
    /\ \A s \in Slot : sess[s].h # "unused" => sess[s].conn \in Conn
    /\ \A s \in Slot : InUse(s) => tbl[AddrOfConn(sess[s].conn)] = s
    /\ \A a \in Addr : tbl[a] # 0 => /\ sess[tbl[a]].h # "unused"
                                     /\ AddrOfConn(sess[tbl[a]].conn) = a
                                     /\ ~sess[tbl[a]].stop
    /\ Serves(sess)

Control ==
    /\ pc = "push" => live \in Conn
    /\ pc = "reconnect" => rcl \in Cluster

IInv == TypeOK /\ Objects /\ Clients /\ Control

\* The bounds are naturals.
LEMMA Bounds == AggCap \in Nat /\ Slots \in Nat /\ MaxGen \in Nat
  BY Zenon, ConstantsOK

\* The initial states satisfy the invariant.
LEMMA InitIInv == Init => IInv
  <1> SUFFICES ASSUME Init PROVE IInv
    OBVIOUS
  <1> USE ConstantsOK
  <1>1. TypeOK
    <2>1. EnvType /\ CacheType /\ LoopType
      BY DEF Init, EnvType, CacheType, LoopType
    <2>2. MapType
      BY DEF Init, MapType
    <2>3. SchedType
      BY Zenon DEF Init, SchedType, TimerState
    <2>4. MuxType
      BY DEF Init, MuxType
    <2>5. HostType
      BY DEF Init, HostType, SessRec, Unused
    <2> QED
      BY Zenon, <2>1, <2>2, <2>3, <2>4, <2>5 DEF TypeOK
  <1>2. Objects
    BY DEF Init, Objects, Conn
  <1>3. Clients
    BY Zenon DEF Init, Clients, Serves, Active, Unused, InUse, Slot
  <1>4. Control
    BY Zenon DEF Init, Control
  <1> QED
    BY Zenon, <1>1, <1>2, <1>3, <1>4 DEF IInv

----------------------------------------------------------------------------
\* What a step leaves alone keeps its type.
LEMMA Frame ==
    ASSUME TypeOK
    PROVE  /\ UNCHANGED env => EnvType'
           /\ UNCHANGED cache => CacheType'
           /\ UNCHANGED <<sconn, active, stopped>> => MapType'
           /\ UNCHANGED main => LoopType'
           /\ UNCHANGED sched => SchedType'
           /\ UNCHANGED <<agg, mux>> => MuxType'
           /\ UNCHANGED <<host, panic>> => HostType'
  <1>1. /\ UNCHANGED env => EnvType'
        /\ UNCHANGED cache => CacheType'
    BY Zenon DEF TypeOK, env, cache, EnvType, CacheType
  <1>2. /\ UNCHANGED <<sconn, active, stopped>> => MapType'
        /\ UNCHANGED main => LoopType'
    BY Zenon DEF TypeOK, main, MapType, LoopType
  <1>3. /\ UNCHANGED sched => SchedType'
        /\ UNCHANGED <<agg, mux>> => MuxType'
    BY Zenon DEF TypeOK, sched, MuxType, SchedType
  <1>4. UNCHANGED <<host, panic>> => HostType'
    BY Zenon DEF TypeOK, host, table, HostType
  <1> QED
    BY Zenon, <1>1, <1>2, <1>3, <1>4

----------------------------------------------------------------------------
(* The clients and their handlers: what a step does to them, as a relation *)
(* of the function ss before it and the function tt after it.              *)

\* Clients come only with NewClient, keep their object, and only the client z
\* is stopped.
Follows(ss, tt, z) ==
    /\ tt \in [Slot -> SessRec] /\ Serves(tt)
    /\ \A s \in Slot :
          /\ tt[s].h # "unused" => ss[s].h # "unused" /\ tt[s].conn = ss[s].conn
          /\ tt[s].h \notin {"unused", "done"} =>
                 ss[s].h \notin {"unused", "done"} /\ (ss[s].stop => tt[s].stop)
          /\ s # z /\ ~ss[s].stop /\ ss[s].h # "unused" =>
                 ~tt[s].stop /\ tt[s].h # "unused"
          /\ s = z => tt[s].h = "unused" \/ tt[s].stop

\* No handler begins to serve a client.
Served(ss, tt) ==
    \A s \in Slot : tt[s].h \in Active => ss[s].h \in Active /\ tt[s].of = ss[s].of

\* An entry of the table is no client or a slot.
LEMMA Slots0 ==
    ASSUME TypeOK, NEW a \in Addr
    PROVE  (tbl[a] = 0 \/ tbl[a] \in Slot) /\ 0 \notin Slot
  <1>1. tbl[a] \in 0..Slots
    BY Zenon DEF TypeOK, HostType
  <1> QED
    BY <1>1, Bounds DEF Slot

\* The fields of a client have their types.
LEMMA SessFields ==
    ASSUME NEW r \in SessRec
    PROVE  /\ r.conn \in Conn \cup {None} /\ r.of \in 0..Slots
           /\ r.lost \in BOOLEAN /\ r.stop \in BOOLEAN /\ r.aenq \in Nat
           /\ r.h \in {"unused", "start", "void", "select", "aen", "ka", "done"}
  BY Zenon DEF SessRec

\* An unused slot is a client record.
LEMMA UnusedType ==
    Unused \in SessRec /\ Unused.h = "unused"
  BY Bounds DEF Unused, SessRec

\* Nothing happens to the clients.
LEMMA FollowsSame ==
    ASSUME TypeOK, Clients PROVE Follows(sess, sess, 0) /\ Served(sess, sess)
  <1>1. 0 \notin Slot
    BY Bounds DEF Slot
  <1>2. sess \in [Slot -> SessRec]
    BY Zenon DEF TypeOK, HostType
  <1> QED
    BY Zenon, <1>1, <1>2 DEF Follows, Served, Clients

\* Handler s goes from where it is to v; nothing is stopped.
Shifts(f, s, v) ==
    /\ f \in [Slot -> SessRec] /\ f[s].h = v
    /\ \A x \in Slot : /\ f[x].conn = sess[x].conn /\ f[x].stop = sess[x].stop
                       /\ f[x].of = sess[x].of /\ (x # s => f[x].h = sess[x].h)

\* A handler that has looked up its client goes on.
LEMMA ShiftFollows ==
    ASSUME TypeOK, Clients, NEW s \in Slot, NEW f, NEW v, Shifts(f, s, v),
           \/ v = sess[s].h
           \/ sess[s].h \in {"select", "aen", "ka"} /\ v \in {"select", "aen", "ka", "done"}
    PROVE  Follows(sess, f, 0) /\ Served(sess, f)
  <1>1. 0 \notin Slot
    BY Bounds DEF Slot
  <1>2. \A x \in Slot : /\ f[x].h # "unused" <=> sess[x].h # "unused"
                        /\ f[x].h \in Active => sess[x].h \in Active
                        /\ f[x].h = "start" => sess[x].h = "start"
    BY Zenon DEF Shifts, Active
  <1>3. Serves(f)
    <2> SUFFICES ASSUME NEW x \in Slot, f[x].h \in Active
                 PROVE  /\ f[x].of \in Slot /\ f[f[x].of].h # "unused"
                        /\ f[x].h = "start" => f[x].of = x
      BY Zenon DEF Serves
    <2>1. sess[x].h \in Active /\ f[x].of = sess[x].of
          /\ (f[x].h = "start" => sess[x].h = "start")
      BY Zenon, <1>2 DEF Shifts
    <2>2. /\ sess[x].of \in Slot /\ sess[sess[x].of].h # "unused"
          /\ sess[x].h = "start" => sess[x].of = x
      BY Zenon, <2>1 DEF Serves, Clients
    <2> QED
      BY Zenon, <1>2, <2>1, <2>2
  <1>4. \A x \in Slot : f[x].h \notin {"unused", "done"} => sess[x].h \notin {"unused", "done"}
    BY Zenon DEF Shifts
  <1> QED
    BY Zenon, <1>1, <1>2, <1>3, <1>4 DEF Follows, Served, Shifts

\* What Tidy makes of a slot.
LEMMA TidySlot ==
    ASSUME NEW f, NEW s \in Slot
    PROVE  /\ Over(f, s) => Tidy(f)[s] = Unused
           /\ ~Over(f, s) => Tidy(f)[s] = f[s]
  BY Zenon DEF Tidy

\* Freeing slots takes nothing away that is in use.
LEMMA TidyFollows ==
    ASSUME NEW ss, NEW f, NEW z, Follows(ss, f, z)
    PROVE  Follows(ss, Tidy(f), z) /\ (Served(ss, f) => Served(ss, Tidy(f)))
  <1> DEFINE tt == Tidy(f)
  <1>1. f \in [Slot -> SessRec] /\ Serves(f)
    BY Zenon DEF Follows
  <1>2. tt \in [Slot -> SessRec]
    BY Zenon, <1>1, UnusedType DEF Tidy
  <1>3. \A s \in Slot : tt[s].h # "unused" => tt[s] = f[s] /\ ~Over(f, s)
    BY Zenon, TidySlot, UnusedType
  <1>4. \A s \in Slot : tt[s] = f[s] \/ (tt[s].h = "unused" /\ f[s].stop)
    BY Zenon, TidySlot, UnusedType DEF Over
  <1> HIDE DEF tt
  <1>5. Serves(tt)
    <2> SUFFICES ASSUME NEW s \in Slot, tt[s].h \in Active
                 PROVE  /\ tt[s].of \in Slot /\ tt[tt[s].of].h # "unused"
                        /\ tt[s].h = "start" => tt[s].of = s
      BY Zenon DEF Serves
    <2>1. tt[s] = f[s] /\ f[s].h # "done"
      BY Zenon, <1>3 DEF Active
    <2>2. /\ f[s].of \in Slot /\ f[f[s].of].h # "unused"
          /\ f[s].h = "start" => f[s].of = s
      BY Zenon, <1>1, <2>1 DEF Serves
    <2>3. ~Over(f, f[s].of)
      BY Zenon, <2>1, <2>2 DEF Over
    <2>4. tt[f[s].of] = f[f[s].of]
      BY Zenon, <2>2, <2>3, TidySlot DEF tt
    <2> QED
      BY Zenon, <2>1, <2>2, <2>4
  <1>6. Follows(ss, tt, z)
    <2> SUFFICES ASSUME NEW s \in Slot
          PROVE  /\ tt[s].h # "unused" => ss[s].h # "unused" /\ tt[s].conn = ss[s].conn
                 /\ tt[s].h \notin {"unused", "done"} =>
                       ss[s].h \notin {"unused", "done"} /\ (ss[s].stop => tt[s].stop)
                 /\ s # z /\ ~ss[s].stop /\ ss[s].h # "unused" =>
                       ~tt[s].stop /\ tt[s].h # "unused"
                 /\ s = z => tt[s].h = "unused" \/ tt[s].stop
      BY Zenon, <1>2, <1>5 DEF Follows
    <2>1. CASE tt[s] = f[s]
      BY Zenon, <2>1 DEF Follows
    <2>2. CASE tt[s].h = "unused" /\ f[s].stop
      BY Zenon, <2>2 DEF Follows
    <2> QED
      BY Zenon, <1>4, <2>1, <2>2
  <1>7. Served(ss, f) => Served(ss, tt)
    BY Zenon, <1>3 DEF Served, Active
  <1> QED
    BY Zenon, <1>6, <1>7 DEF tt

\* Stop of the client in an entry of the table.
LEMMA StopFollows ==
    ASSUME TypeOK, Clients, NEW a \in Addr
    PROVE  Follows(sess, AfterStop(sess, a), tbl[a]) /\ Served(sess, AfterStop(sess, a))
  <1>1. CASE tbl[a] = 0
    BY Zenon, <1>1, FollowsSame DEF AfterStop
  <1>2. CASE tbl[a] # 0
    <2> DEFINE z == tbl[a]
               f == [sess EXCEPT ![z].stop = TRUE]
    <2>1. z \in Slot /\ sess \in [Slot -> SessRec]
      BY Zenon, <1>2, Slots0 DEF TypeOK, HostType
    <2> HIDE DEF z
    <2>2. /\ f \in [Slot -> SessRec] /\ f[z].stop
          /\ \A x \in Slot : /\ f[x].conn = sess[x].conn /\ f[x].of = sess[x].of
                             /\ f[x].h = sess[x].h /\ (x # z => f[x].stop = sess[x].stop)
      BY ZenonT(30), <2>1 DEF SessRec
    <2> HIDE DEF f
    <2>3. Serves(f)
      <3> SUFFICES ASSUME NEW x \in Slot, f[x].h \in Active
                   PROVE  /\ f[x].of \in Slot /\ f[f[x].of].h # "unused"
                          /\ f[x].h = "start" => f[x].of = x
        BY Zenon DEF Serves
      <3>1. sess[x].h \in Active /\ f[x].of = sess[x].of
            /\ (f[x].h = "start" => sess[x].h = "start")
        BY Zenon, <2>2
      <3>2. /\ sess[x].of \in Slot /\ sess[sess[x].of].h # "unused"
            /\ sess[x].h = "start" => sess[x].of = x
        BY Zenon, <3>1 DEF Serves, Clients
      <3> QED
        <4>1. f[sess[x].of].h = sess[sess[x].of].h
          BY Zenon, <2>2, <3>2
        <4> QED
          BY Zenon, <3>1, <3>2, <4>1
    <2>4. Follows(sess, f, z) /\ Served(sess, f)
      BY Zenon, <2>2, <2>3 DEF Follows, Served
    <2>5. AfterStop(sess, a) = Tidy(f)
      BY Zenon, <1>2 DEF AfterStop, f, z
    <2> QED
      BY Zenon, <2>4, <2>5, TidyFollows DEF z
  <1> QED
    BY Zenon, <1>1, <1>2

\* Disconnect.
LEMMA DisconnectFollows ==
    ASSUME TypeOK, Clients, NEW a \in Addr, Disconnects(a)
    PROVE  Follows(sess, sess', tbl[a]) /\ Served(sess, sess')
  <1> DEFINE f == AfterStop(sess, a)
  <1>1. Follows(sess, f, tbl[a]) /\ Served(sess, f)
    BY Zenon, StopFollows
  <1>2. sess' = [s \in Slot |-> IF f[s].h = "start" /\ AddrOfConn(f[s].conn) = a
                                THEN [f[s] EXCEPT !.h = "void"] ELSE f[s]]
    BY Zenon DEF Disconnects
  <1> HIDE DEF f
  <1>3. f \in [Slot -> SessRec] /\ Serves(f)
    BY Zenon, <1>1 DEF Follows
  <1>4. \A s \in Slot :
           /\ sess'[s] \in SessRec
           /\ sess'[s].conn = f[s].conn /\ sess'[s].stop = f[s].stop
           /\ sess'[s].of = f[s].of
           /\ sess'[s].h = f[s].h \/ (f[s].h = "start" /\ sess'[s].h = "void")
    <2> SUFFICES ASSUME NEW s \in Slot
                 PROVE  /\ sess'[s] \in SessRec
                        /\ sess'[s].conn = f[s].conn /\ sess'[s].stop = f[s].stop
                        /\ sess'[s].of = f[s].of
                        /\ sess'[s].h = f[s].h \/ (f[s].h = "start" /\ sess'[s].h = "void")
      OBVIOUS
    <2> DEFINE r == f[s]
               v == [r EXCEPT !.h = "void"]
    <2>1. r \in SessRec
      BY Zenon, <1>3
    <2> HIDE DEF r
    <2>2. /\ v \in SessRec /\ v.conn = r.conn /\ v.stop = r.stop /\ v.of = r.of
          /\ v.h = "void"
      BY ZenonT(30), <2>1 DEF SessRec
    <2> HIDE DEF v
    <2>3. sess'[s] = r \/ (r.h = "start" /\ sess'[s] = v)
      BY Zenon, <1>2 DEF r, v
    <2> QED
      BY Zenon, <2>1, <2>2, <2>3 DEF r
  <1>5. sess' \in [Slot -> SessRec]
    BY Zenon, <1>2, <1>4
  <1>6. \A s \in Slot : /\ sess'[s].h # "unused" <=> f[s].h # "unused"
                        /\ sess'[s].h \in Active => sess'[s].h = f[s].h
                        /\ sess'[s].h = "done" <=> f[s].h = "done"
    BY Zenon, <1>4 DEF Active
  <1>7. Serves(sess')
    <2> SUFFICES ASSUME NEW x \in Slot, sess'[x].h \in Active
                 PROVE  /\ sess'[x].of \in Slot /\ sess'[sess'[x].of].h # "unused"
                        /\ sess'[x].h = "start" => sess'[x].of = x
      BY Zenon DEF Serves
    <2>1. f[x].h \in Active /\ sess'[x].of = f[x].of
          /\ (sess'[x].h = "start" => f[x].h = "start")
      BY Zenon, <1>4, <1>6
    <2>2. /\ f[x].of \in Slot /\ f[f[x].of].h # "unused"
          /\ f[x].h = "start" => f[x].of = x
      BY Zenon, <2>1, <1>3 DEF Serves
    <2>3. sess'[f[x].of].h # "unused"
      BY Zenon, <1>6, <2>2
    <2> QED
      BY Zenon, <2>1, <2>2, <2>3
  <1>8. Served(sess, sess')
    BY Zenon, <1>1, <1>4, <1>6 DEF Served
  <1> QED
    BY Zenon, <1>1, <1>4, <1>5, <1>6, <1>7, <1>8 DEF Follows

\* Connection objects have addresses, those removeConnections disconnects too.
LEMMA AddrType == \A c \in Conn : AddrOfConn(c) \in Addr
  BY Zenon, ConstantsOK DEF Conn, AddrOfConn

\* Every endpoint a removal may know of has an address.
LEMMA KnownAddr == \A cl : \A e \in Known(cl) : AddrOf[e] \in Addr
  BY Zenon, ConstantsOK DEF Known, Cut, Removed, EpsOf

\* A handler that may send serves a client with a connection object.
LEMMA ServesConn ==
    ASSUME Clients, NEW s \in Slot, sess[s].h \in Active
    PROVE  sess[s].of \in Slot /\ sess[sess[s].of].conn \in Conn
  BY Zenon DEF Clients, Serves

\* What a new place of a handler, and a new count of events, change.
LEMMA ShiftH ==
    ASSUME TypeOK, NEW s \in Slot, NEW v \in {"select", "aen", "ka", "done"}
    PROVE  Shifts([sess EXCEPT ![s].h = v], s, v)
  <1>1. sess \in [Slot -> SessRec]
    BY Zenon DEF TypeOK, HostType
  <1> QED
    BY ZenonT(30), <1>1 DEF Shifts, SessRec

\* Shifts is kept when a queue of events gets another length.
LEMMA ShiftAenq ==
    ASSUME NEW f, NEW s \in Slot, NEW v, Shifts(f, s, v), NEW t \in Slot, NEW n \in Nat
    PROVE  Shifts([f EXCEPT ![t].aenq = n], s, v)
  <1>1. f \in [Slot -> SessRec]
    BY Zenon DEF Shifts
  <1> DEFINE g == [f EXCEPT ![t].aenq = n]
  <1>2. /\ g \in [Slot -> SessRec]
        /\ \A x \in Slot : /\ g[x].conn = f[x].conn /\ g[x].stop = f[x].stop
                           /\ g[x].of = f[x].of /\ g[x].h = f[x].h
    BY ZenonT(30), <1>1 DEF SessRec
  <1> HIDE DEF g
  <1>3. Shifts(g, s, v)
    BY Zenon, <1>2 DEF Shifts
  <1> QED
    BY Zenon, <1>3 DEF g

\* An event of the server, and a keep alive that fails.
LEMMA EventFollows ==
    ASSUME TypeOK, Clients, NEW s \in Slot, ServerSendsAen(s)
    PROVE  Follows(sess, sess', 0) /\ Served(sess, sess')
  <1>1. sess' = [sess EXCEPT ![s].aenq = sess[s].aenq + 1]
    BY Zenon DEF ServerSendsAen
  <1>2. sess \in [Slot -> SessRec] /\ sess[s].aenq \in Nat
    BY Zenon, SessFields DEF TypeOK, HostType
  <1>3. sess[s].aenq + 1 \in Nat
    BY <1>2
  <1>4. Shifts(sess, s, sess[s].h)
    BY Zenon, <1>2 DEF Shifts
  <1>5. Shifts(sess', s, sess[s].h)
    BY Zenon, <1>1, <1>3, <1>4, ShiftAenq
  <1> QED
    BY Zenon, <1>5, ShiftFollows

\* The loss of a connection moves no handler.
LEMMA LossFollows ==
    ASSUME TypeOK, Clients, NEW s \in Slot, KeepAliveFails(s)
    PROVE  Follows(sess, sess', 0) /\ Served(sess, sess')
  <1>1. sess' = [sess EXCEPT ![s].lost = TRUE] /\ sess \in [Slot -> SessRec]
    BY Zenon DEF KeepAliveFails, TypeOK, HostType
  <1>2. Shifts(sess', s, sess[s].h)
    BY ZenonT(30), <1>1 DEF Shifts, SessRec
  <1> QED
    BY Zenon, <1>2, ShiftFollows

\* A handler that starts serves the client in the table.
LEMMA StartFollows ==
    ASSUME TypeOK, Clients, NEW s \in Slot, HandlerStarts(s)
    PROVE  Follows(sess, sess', 0) /\ stray' \subseteq stray \cup Conn
  <1>1. PICK t \in Slot :
           /\ tbl[AddrOfConn(sess[s].conn)] = t
           /\ sess' = [sess EXCEPT ![s].h = "select", ![s].of = t]
           /\ stray' = IF sess[t].conn = sess[s].conn THEN stray
                                                      ELSE stray \cup {sess[t].conn}
    BY Zenon DEF HandlerStarts
  <1>2. sess[s].h = "start" /\ sess \in [Slot -> SessRec] /\ sess[s].conn \in Conn
    BY Zenon DEF HandlerStarts, TypeOK, HostType, Clients
  <1>3. 0 \notin Slot /\ t \in 0..Slots
    BY Bounds DEF Slot
  <1>4. sess[t].h # "unused" /\ sess[t].conn \in Conn
    BY Zenon, <1>1, <1>2, <1>3, AddrType DEF Clients
  <1>5. /\ sess' \in [Slot -> SessRec]
        /\ \A x \in Slot : sess'[x].conn = sess[x].conn /\ sess'[x].stop = sess[x].stop
        /\ sess'[s].h = "select" /\ sess'[s].of = t
        /\ \A x \in Slot : x # s => sess'[x] = sess[x]
    BY ZenonT(30), <1>1, <1>2, <1>3 DEF SessRec
  <1>6. \A x \in Slot : sess'[x].h # "unused" <=> sess[x].h # "unused"
    BY Zenon, <1>2, <1>5
  <1>7. Serves(sess')
    <2> SUFFICES ASSUME NEW x \in Slot, sess'[x].h \in Active
                 PROVE  /\ sess'[x].of \in Slot /\ sess'[sess'[x].of].h # "unused"
                        /\ sess'[x].h = "start" => sess'[x].of = x
      BY Zenon DEF Serves
    <2>1. CASE x = s
      BY Zenon, <1>4, <1>5, <1>6, <2>1
    <2>2. CASE x # s
      <3>1. sess'[x] = sess[x]
        BY Zenon, <1>5, <2>2
      <3> QED
        BY Zenon, <1>6, <3>1 DEF Clients, Serves
    <2> QED
      BY Zenon, <2>1, <2>2
  <1>8. \A x \in Slot : sess'[x].h \notin {"unused", "done"} =>
                           sess[x].h \notin {"unused", "done"}
    BY Zenon, <1>2, <1>5
  <1>9. Follows(sess, sess', 0)
    BY Zenon, <1>3, <1>5, <1>6, <1>7, <1>8 DEF Follows
  <1> QED
    BY Zenon, <1>1, <1>4, <1>9

\* The select and the send of a handler.
LEMMA SelectFollows ==
    ASSUME TypeOK, Clients, NEW s \in Slot, HandlerSelects(s)
    PROVE  Follows(sess, sess', 0) /\ Served(sess, sess')
  <1> DEFINE t == sess[s].of
  <1>1. sess[s].h = "select" /\ t \in Slot
    BY Zenon, ServesConn DEF HandlerSelects, Active
  <1>2. CASE sess[t].aenq > 0 /\ sess' = [sess EXCEPT ![s].h = "aen", ![t].aenq = @ - 1]
    <2> DEFINE f == [sess EXCEPT ![s].h = "aen"]
    <2>1. Shifts(f, s, "aen")
      BY Zenon, ShiftH
    <2>2. f[t].aenq \in Nat /\ f[t].aenq = sess[t].aenq
      <3>1. sess \in [Slot -> SessRec] /\ sess[t].aenq \in Nat
        BY Zenon, <1>1, SessFields DEF TypeOK, HostType
      <3> QED
        BY ZenonT(30), <1>1, <3>1 DEF SessRec
    <2>3. sess' = [f EXCEPT ![t].aenq = f[t].aenq - 1]
      BY Zenon, <1>2
    <2> HIDE DEF f, t
    <2>4. f[t].aenq - 1 \in Nat
      <3> DEFINE n == f[t].aenq
      <3>1. n \in Nat /\ n > 0
        BY Zenon, <1>2, <2>2
      <3> HIDE DEF n
      <3>2. n - 1 \in Nat
        BY <3>1
      <3> QED
        BY Zenon, <3>2 DEF n
    <2>5. Shifts(sess', s, "aen")
      BY Zenon, <1>1, <2>1, <2>3, <2>4, ShiftAenq
    <2> QED
      BY Zenon, <1>1, <2>5, ShiftFollows
  <1>3. CASE sess' = [sess EXCEPT ![s].h = "ka"]
    <2>1. Shifts(sess', s, "ka")
      BY Zenon, <1>3, ShiftH
    <2> QED
      BY Zenon, <1>1, <2>1, ShiftFollows
  <1>4. CASE sess' = Tidy([sess EXCEPT ![s].h = "done"])
    <2> DEFINE f == [sess EXCEPT ![s].h = "done"]
    <2>1. Shifts(f, s, "done")
      BY Zenon, ShiftH
    <2> HIDE DEF f
    <2>2. Follows(sess, f, 0) /\ Served(sess, f)
      BY Zenon, <1>1, <2>1, ShiftFollows
    <2>3. sess' = Tidy(f)
      BY Zenon, <1>4 DEF f
    <2> QED
      BY Zenon, <2>2, <2>3, TidyFollows
  <1> QED
    BY Zenon, <1>2, <1>3, <1>4 DEF HandlerSelects

\* A send moves its own handler only, from a send back to the select or to its end.
LEMMA SendFollows ==
    ASSUME TypeOK, Clients, NEW s \in Slot, HandlerSends(s)
    PROVE  Follows(sess, sess', 0) /\ Served(sess, sess')
  <1>1. sess[s].h \in {"aen", "ka"}
    BY Zenon DEF HandlerSends, Kind
  <1>2. CASE sess' = sess
    BY Zenon, <1>2, FollowsSame
  <1>3. CASE sess' # sess
    <2> DEFINE v == IF sess[s].h = "ka" THEN "done" ELSE "select"
               f == [sess EXCEPT ![s].h = v]
    <2>1. v \in {"select", "done"}
      BY Zenon
    <2>2. sess' = Tidy(f)
      BY Zenon, <1>3 DEF HandlerSends
    <2> HIDE DEF v
    <2>3. Shifts(f, s, v)
      BY Zenon, <2>1, ShiftH
    <2> HIDE DEF f
    <2>4. Follows(sess, f, 0) /\ Served(sess, f)
      BY Zenon, <1>1, <2>1, <2>3, ShiftFollows
    <2> QED
      BY Zenon, <2>2, <2>4, TidyFollows
  <1> QED
    BY Zenon, <1>2, <1>3

\* The table without the entry of Disconnect.
LEMMA DisconnectType ==
    ASSUME TypeOK, Clients, NEW a \in Addr, Disconnects(a)
    PROVE  /\ tbl' \in [Addr -> 0..Slots] /\ ids' \subseteq Conn
           /\ sess' \in [Slot -> SessRec]
  <1>1. tbl \in [Addr -> 0..Slots] /\ tbl' = [tbl EXCEPT ![a] = 0]
    BY Zenon DEF TypeOK, HostType, Disconnects
  <1>2. tbl' \in [Addr -> 0..Slots]
    BY <1>1, Bounds
  <1>3. ids' \subseteq Conn
    BY Zenon DEF TypeOK, HostType, Disconnects
  <1> QED
    BY Zenon, <1>2, <1>3, DisconnectFollows DEF Follows

\* A client for c gets the slot s; the others are as in old.
NewIn(c, s, old) ==
    /\ sess[s].h = "unused" /\ old[s].h = "unused"
    /\ tbl' = [tbl EXCEPT ![AddrOfConn(c)] = s]
    /\ sess'[s].conn = c /\ sess'[s].h = "start" /\ ~sess'[s].stop
    /\ sess'[s].of = s
    /\ \A x \in Slot : x # s => sess'[x] = old[x]

\* A new client takes a free slot, which no handler serves.
LEMMA NewClientStep ==
    ASSUME TypeOK, Clients, NEW c \in Conn, NewClient(c)
    PROVE  /\ tbl' \in [Addr -> 0..Slots] /\ ids' \subseteq Conn /\ stray' = stray
           /\ sess' \in [Slot -> SessRec]
           /\ \E s \in Slot : NewIn(c, s, AfterStop(sess, AddrOfConn(c)))
  <1> DEFINE s == CHOOSE x \in FreeSlots : TRUE
             a == AddrOfConn(c)
             old == AfterStop(sess, a)
             new == [Unused EXCEPT !.conn = c, !.h = "start", !.of = s]
  <1>1. s \in Slot /\ sess[s].h = "unused"
    BY Zenon DEF NewClient, FreeSlots
  <1>2. /\ tbl' = [tbl EXCEPT ![a] = s] /\ sess' = [old EXCEPT ![s] = new]
        /\ ids' = ids \cup {c} /\ stray' = stray
    BY Zenon DEF NewClient
  <1>3. a \in Addr
    BY Zenon, AddrType
  <1>4. Follows(sess, old, tbl[a])
    BY Zenon, <1>3, StopFollows
  <1> HIDE DEF s, old, a
  <1>5. old \in [Slot -> SessRec] /\ old[s].h = "unused"
    BY Zenon, <1>1, <1>4 DEF Follows
  <1>6. s \in 0..Slots
    BY <1>1, Bounds DEF Slot
  <1>7. /\ new \in SessRec /\ new.conn = c /\ new.h = "start" /\ ~new.stop /\ new.of = s
    BY <1>6 DEF Unused, SessRec
  <1> HIDE DEF new
  <1>8. sess' \in [Slot -> SessRec] /\ sess'[s] = new
        /\ \A x \in Slot : x # s => sess'[x] = old[x]
    BY Zenon, <1>1, <1>2, <1>5, <1>7
  <1>9. tbl' \in [Addr -> 0..Slots] /\ ids' \subseteq Conn
    BY Zenon, <1>2, <1>3, <1>6 DEF TypeOK, HostType
  <1>10. NewIn(c, s, old)
    BY Zenon, <1>1, <1>2, <1>5, <1>7, <1>8 DEF NewIn, a
  <1> QED
    BY Zenon, <1>1, <1>2, <1>8, <1>9, <1>10 DEF old, a

----------------------------------------------------------------------------
\* A new list of the cache keeps the types.
LEMMA CacheBecomesType ==
    ASSUME CacheType, NEW cl, NEW R, CacheBecomes(cl, R)
    PROVE  CacheType'
  <1>1. gen' \in [Ep -> 0..MaxGen]
    BY Bounds DEF CacheBecomes, CacheType, EpsOf
  <1>2. cached' \in [Ep -> 0..MaxGen]
    BY Bounds DEF CacheBecomes, CacheType, EpsOf
  <1>3. PICK v : note' = [note EXCEPT ![cl] = v] /\ (cl \in Cluster => v \in Nat)
    <2>1. note' = [note EXCEPT ![cl] = IF cached' # cached THEN note[cl] + 1 ELSE note[cl]]
      BY Zenon DEF CacheBecomes
    <2>2. cl \in Cluster => note[cl] \in Nat /\ note[cl] + 1 \in Nat
      BY DEF CacheType
    <2> QED
      BY Zenon, <2>1, <2>2
  <1>4. note' \in [Cluster -> Nat]
    BY <1>3 DEF CacheType
  <1> QED
    BY Zenon, <1>1, <1>2, <1>4 DEF CacheType

\* Servers, events and referrals keep the types.
LEMMA EnvironmentType ==
    ASSUME TypeOK, Clients, Environment PROVE TypeOK'
  <1>1. ASSUME NEW cl \in Cluster, NEW R \in SUBSET Ep, FileAdded(cl, R)
        PROVE  TypeOK'
    <2>1. EnvType'
      BY <1>1 DEF TypeOK, EnvType, FileAdded
    <2>2. CacheType'
      BY Zenon, <1>1, CacheBecomesType DEF FileAdded, TypeOK
    <2> QED
      BY Zenon, <1>1, <2>1, <2>2, Frame DEF FileAdded, TypeOK
  <1>2. ASSUME NEW e \in Ep, ServerFlaps(e) PROVE TypeOK'
    <2>1. EnvType'
      BY <1>2 DEF TypeOK, EnvType, ServerFlaps
    <2> QED
      BY Zenon, <1>2, <2>1, Frame DEF ServerFlaps, TypeOK
  <1>3. ASSUME NEW s \in Slot, ServerSendsAen(s) PROVE TypeOK'
    <2>1. EnvType'
      BY <1>3 DEF TypeOK, EnvType, ServerSendsAen
    <2>2. HostType'
      BY Zenon, <1>3, EventFollows DEF TypeOK, HostType, ServerSendsAen, Follows, table
    <2> QED
      BY Zenon, <1>3, <2>1, <2>2, Frame DEF ServerSendsAen, TypeOK
  <1> QED
    BY Zenon, <1>1, <1>2, <1>3 DEF Environment

\* The goroutines of the clients and of the connections.
Goroutines ==
    \/ \E s \in Slot : KeepAliveFails(s) \/ Handler(s)
    \/ \E c \in Conn : MuxReturns(c) \/ \E k \in Kind : MuxForwards(c, k)

\* A multiplexer that takes an event keeps the types.
LEMMA MuxTakes ==
    ASSUME NEW m \in [MuxState -> Nat], NEW k \in Kind, m["idle"] > 0
    PROVE  [m EXCEPT !["idle"] = @ - 1, ![k] = @ + 1] \in [MuxState -> Nat]
  <1> DEFINE n == [m EXCEPT !["idle"] = @ - 1]
  <1>1. "idle" \in MuxState /\ k \in MuxState
    BY Zenon DEF MuxState
  <1>2. n \in [MuxState -> Nat]
    BY <1>1
  <1>3. [n EXCEPT ![k] = @ + 1] \in [MuxState -> Nat]
    BY <1>1, <1>2
  <1> QED
    BY <1>3

\* The goroutines beside the main loop keep the types.
LEMMA GoroutinesType ==
    ASSUME TypeOK, Clients, Goroutines PROVE TypeOK'
  <1>1. ASSUME NEW s \in Slot, KeepAliveFails(s) PROVE TypeOK'
    <2>1. HostType'
      BY Zenon, <1>1, LossFollows DEF TypeOK, HostType, KeepAliveFails, Follows, table
    <2> QED
      BY Zenon, <1>1, <2>1, Frame DEF KeepAliveFails, TypeOK
  <1>a. ASSUME NEW s \in Slot, HandlerStarts(s) PROVE TypeOK'
    <2>1. stray' \subseteq Conn
      BY Zenon, <1>a, StartFollows DEF TypeOK, HostType
    <2>2. HostType'
      BY Zenon, <1>a, <2>1, StartFollows
      DEF TypeOK, HostType, HandlerStarts, Follows, table
    <2> QED
      BY Zenon, <1>a, <2>2, Frame DEF HandlerStarts, TypeOK
  <1>b. ASSUME NEW s \in Slot, HandlerFindsNone(s) PROVE TypeOK'
    <2>1. HostType'
      BY Zenon, <1>b DEF TypeOK, HostType, HandlerFindsNone, host, table
    <2> QED
      BY Zenon, <1>b, <2>1, Frame DEF HandlerFindsNone, TypeOK
  <1>2. ASSUME NEW s \in Slot, HandlerSelects(s) PROVE TypeOK'
    <2>1. HostType'
      BY Zenon, <1>2, SelectFollows DEF TypeOK, HostType, HandlerSelects, Follows, table
    <2> QED
      BY Zenon, <1>2, <2>1, Frame DEF HandlerSelects, TypeOK
  <1>3. ASSUME NEW s \in Slot, HandlerSends(s) PROVE TypeOK'
    <2> DEFINE c == sess[sess[s].of].conn
               k == sess[s].h
    <2>1. c \in Conn /\ k \in Kind
      BY Zenon, <1>3, ServesConn DEF HandlerSends, Active, Kind
    <2>2. CASE c \in stopped
      <3>1. HostType'
        BY Zenon, <1>3, <2>2 DEF TypeOK, HostType, HandlerSends, table
      <3>2. MuxType'
        BY Zenon, <1>3, <2>2 DEF TypeOK, MuxType, HandlerSends
      <3> QED
        BY Zenon, <1>3, <3>1, <3>2, Frame DEF HandlerSends, TypeOK
    <2>3. CASE c \notin stopped
      <3>1. /\ mux[c]["idle"] > 0
            /\ mux' = [mux EXCEPT ![c]["idle"] = @ - 1, ![c][k] = @ + 1]
            /\ panic' \in {"no", "nil queue"} /\ UNCHANGED <<agg, table, stray>>
        BY Zenon, <1>3, <2>3 DEF HandlerSends
      <3>2. HostType'
        BY Zenon, <1>3, <3>1, SendFollows DEF TypeOK, HostType, Follows, table
      <3>3. mux[c] \in [MuxState -> Nat]
        BY Zenon, <2>1 DEF TypeOK, MuxType
      <3>4. [mux[c] EXCEPT !["idle"] = @ - 1, ![k] = @ + 1] \in [MuxState -> Nat]
        BY Zenon, <2>1, <3>1, <3>3, MuxTakes
      <3>5. mux' = [mux EXCEPT ![c] = [mux[c] EXCEPT !["idle"] = @ - 1, ![k] = @ + 1]]
        BY Zenon, <2>1, <3>1 DEF TypeOK, MuxType
      <3> HIDE DEF c, k
      <3>6. MuxType'
        BY Zenon, <2>1, <3>1, <3>4, <3>5 DEF TypeOK, MuxType
      <3> QED
        BY Zenon, <1>3, <3>2, <3>6, Frame DEF HandlerSends, TypeOK
    <2> QED
      BY Zenon, <2>2, <2>3
  <1>4. ASSUME NEW c \in Conn, MuxReturns(c) PROVE TypeOK'
    <2>1. mux[c] \in [MuxState -> Nat]
      BY Zenon DEF TypeOK, MuxType
    <2>2. [mux[c] EXCEPT !["idle"] = @ - 1] \in [MuxState -> Nat]
      BY <1>4, <2>1 DEF MuxReturns, MuxState, Kind
    <2>3. MuxType'
      BY SMTT(30), <1>4, <2>2 DEF TypeOK, MuxType, MuxReturns
    <2> QED
      BY Zenon, <1>4, <2>3, Frame DEF MuxReturns, TypeOK
  <1>5. ASSUME NEW c \in Conn, NEW k \in Kind, MuxForwards(c, k) PROVE TypeOK'
    <2> DEFINE r == [mux[c] EXCEPT ![k] = @ - 1,
                                   !["idle"] = IF k = "aen" THEN @ + 1 ELSE @]
    <2>a. mux[c] \in [MuxState -> Nat] /\ mux[c][k] > 0
      BY Zenon, <1>5 DEF TypeOK, MuxType, MuxForwards
    <2>b. r \in [MuxState -> Nat]
      BY <2>a DEF MuxState, Kind
    <2>c. mux' = [mux EXCEPT ![c] = r]
      BY Zenon, <1>5 DEF TypeOK, MuxType, MuxForwards
    <2>1. mux' \in [Conn -> [MuxState -> Nat]]
      BY Zenon, <2>b, <2>c DEF TypeOK, MuxType
    <2>2. agg' \in Seq(Conn \X Kind) /\ Len(agg') <= AggCap
      BY <1>5, ConstantsOK DEF TypeOK, MuxType, MuxForwards
    <2> QED
      BY Zenon, <1>5, <2>1, <2>2, Frame DEF MuxForwards, TypeOK, MuxType
  <1> QED
    BY Zenon, <1>1, <1>a, <1>b, <1>2, <1>3, <1>4, <1>5 DEF Goroutines, Handler

\* A counter that changes by one stays a natural.
LEMMA Counts ==
    ASSUME NEW D, NEW K, NEW f \in [D -> [K -> Nat]], NEW d \in D, NEW k \in K,
           NEW n \in Nat
    PROVE  [f EXCEPT ![d][k] = n] \in [D -> [K -> Nat]] /\ f[d][k] + 1 \in Nat
  OBVIOUS

\* The steps of reconnectToCluster keep the types.
LEMMA ReconnectsType ==
    ASSUME TypeOK, Clients, Control, Reconnects PROVE TypeOK'
  <1>1. ASSUME NEW c \in untried, DiscoverFails(c) PROVE TypeOK'
    <2>1. LoopType'
      BY Zenon, <1>1 DEF TypeOK, LoopType, DiscoverFails
    <2>2. rcl \in Cluster
      BY Zenon, <1>1 DEF DiscoverFails, Control
    <2>3. SchedType'
      <3>1. CASE untried' # {}
        BY Zenon, <1>1, <3>1 DEF TypeOK, SchedType, DiscoverFails, sched
      <3>2. CASE untried' = {}
        <4>1. "unarmed" \in TimerState
          BY Zenon DEF TimerState
        <4>2. timer' \in [Cluster -> [TimerState -> Nat]]
          BY <1>1, <2>2, <3>2, <4>1, Counts DEF TypeOK, SchedType, DiscoverFails
        <4> QED
          BY Zenon, <1>1, <3>2, <4>2 DEF TypeOK, SchedType, DiscoverFails
      <3> QED
        BY Zenon, <3>1, <3>2
    <2> QED
      BY Zenon, <1>1, <2>1, <2>3, Frame DEF DiscoverFails, TypeOK
  <1>2. ASSUME NEW c \in untried, DiscoverSucceeds(c) PROVE TypeOK'
    <2>1. c \in Conn /\ rcl \in Cluster
      BY Zenon, <1>2 DEF TypeOK, LoopType, DiscoverSucceeds, Control
    <2>2. LoopType'
      BY Zenon, <1>2, <2>1 DEF TypeOK, LoopType, DiscoverSucceeds
    <2>3. HostType'
      BY Zenon, <1>2, <2>1, NewClientStep DEF TypeOK, HostType, DiscoverSucceeds
    <2>4. MapType'
      BY Zenon, <1>2, <2>1 DEF TypeOK, MapType, DiscoverSucceeds
    <2>5. MuxType'
      <3>1. "idle" \in MuxState
        BY Zenon DEF MuxState
      <3>2. mux' \in [Conn -> [MuxState -> Nat]]
        BY <1>2, <2>1, <3>1, Counts DEF TypeOK, MuxType, DiscoverSucceeds
      <3> QED
        BY Zenon, <1>2, <3>2 DEF TypeOK, MuxType, DiscoverSucceeds
    <2> QED
      BY Zenon, <1>2, <2>2, <2>3, <2>4, <2>5, Frame DEF DiscoverSucceeds, TypeOK
  <1>a. ASSUME NEW c \in untried, DiscoverHangs(c) PROVE TypeOK'
    <2>1. AddrOfConn(c) \in Addr
      BY Zenon, <1>a, AddrType DEF TypeOK, LoopType
    <2>2. LoopType'
      BY Zenon, <1>a DEF TypeOK, LoopType, DiscoverHangs
    <2>3. HostType'
      BY Zenon, <1>a, <2>1, DisconnectType DEF TypeOK, HostType, DiscoverHangs
    <2> QED
      BY Zenon, <1>a, <2>2, <2>3, Frame DEF DiscoverHangs, TypeOK
  <1>3. ASSUME PushesAen PROVE TypeOK'
    <2>1. live \in Conn
      BY Zenon, <1>3 DEF PushesAen, Control
    <2>2. LoopType'
      BY Zenon, <1>3 DEF TypeOK, LoopType, PushesAen
    <2>3. mux[live] \in [MuxState -> Nat] /\ "aen" \in Kind
      BY Zenon, <2>1 DEF TypeOK, MuxType, Kind
    <2>4. [mux[live] EXCEPT !["idle"] = @ - 1, !["aen"] = @ + 1]
             \in [MuxState -> Nat]
      BY Zenon, <1>3, <2>3, MuxTakes DEF PushesAen
    <2>5. MuxType'
      BY Zenon, <1>3, <2>1, <2>4 DEF TypeOK, MuxType, PushesAen
    <2> QED
      BY Zenon, <1>3, <2>2, <2>5, Frame DEF PushesAen, TypeOK
  <1>4. ASSUME PushTimesOut PROVE TypeOK'
    <2>1. LoopType'
      BY Zenon, <1>4 DEF TypeOK, LoopType, PushTimesOut
    <2> QED
      BY Zenon, <1>4, <2>1, Frame DEF PushTimesOut, TypeOK
  <1> QED
    BY Zenon, <1>1, <1>2, <1>a, <1>3, <1>4 DEF Reconnects

\* What the main loop and the scheduled goroutines do for one cluster.
ClusterStep(cl) ==
    \/ TakesTrigger(cl) \/ Notified(cl) \/ TimerArms(cl)
    \/ \E k \in {"armed", "orphan"} : TimerFires(cl, k)

\* The connections of a cluster are connection objects.
LEMMA ClusterConnsType ==
    ASSUME TypeOK, NEW cl \in Cluster PROVE ClusterConns(cl) \subseteq Conn
  BY Bounds DEF TypeOK, MapType, ClusterConns, EpsOf, Conn

\* The cases of the select about a cluster keep the types.
LEMMA ClusterStepType ==
    ASSUME TypeOK, Clients, NEW cl \in Cluster, ClusterStep(cl) PROVE TypeOK'
  <1>1. CASE TakesTrigger(cl)
    <2>1. LoopType'
      BY Zenon, <1>1, ClusterConnsType DEF TypeOK, LoopType, TakesTrigger, main
    <2>2. SchedType'
      <3>1. \A x \in Cluster : [timer[x] EXCEPT !["armed"] = 0]
                                  \in [TimerState -> Nat]
        BY Zenon DEF TypeOK, SchedType
      <3>2. timer' \in [Cluster -> [TimerState -> Nat]]
        BY Zenon, <1>1, <3>1 DEF TypeOK, SchedType, TakesTrigger
      <3>3. trig' \in [Cluster -> Nat]
        BY <1>1 DEF TypeOK, SchedType, TakesTrigger
      <3>4. stopCh' \in BOOLEAN
        BY Zenon, <1>1 DEF TakesTrigger
      <3> QED
        BY Zenon, <3>2, <3>3, <3>4 DEF SchedType
    <2> QED
      BY Zenon, <1>1, <2>1, <2>2, Frame DEF TakesTrigger, TypeOK
  <1>2. CASE TakesNotification(cl)
    <2>1. CacheType'
      BY <1>2 DEF TypeOK, CacheType, TakesNotification
    <2>2. sconn' \in [Ep -> 0..MaxGen]
      BY SMTT(30), <1>2, Bounds DEF TypeOK, CacheType, MapType, TakesNotification,
                  ConnectionsAfter
    <2>3. stopped' \subseteq Conn
      BY SMTT(30), <1>2, Bounds DEF TypeOK, MapType, TakesNotification, Removed, EpsOf,
                          Conn
    <2>4. SchedType'
      BY SMTT(30), <1>2 DEF TypeOK, SchedType, TakesNotification
    <2>5. HostType'
      BY Zenon, <1>2, KnownAddr, DisconnectType
      DEF TypeOK, HostType, TakesNotification, host, table
    <2>7. MapType'
      BY Zenon, <1>2, <2>2, <2>3 DEF TypeOK, MapType, TakesNotification
    <2> QED
      BY Zenon, <1>2, <2>1, <2>4, <2>5, <2>7, Frame DEF TakesNotification, TypeOK
  <1>a. ASSUME NEW D \in SUBSET Ep, RemovalHangs(cl, D) PROVE TypeOK'
    <2>1. CacheType'
      BY <1>a DEF TypeOK, CacheType, RemovalHangs
    <2>2. sconn' \in [Ep -> 0..MaxGen]
      BY SMTT(30), <1>a, Bounds DEF TypeOK, MapType, RemovalHangs
    <2>3. stopped' \subseteq Conn
      <3>1. \A e \in D : e \in Ep /\ sconn[e] # 0
        BY Zenon, <1>a DEF RemovalHangs, Removed, EpsOf
      <3>2. \A e \in D : <<e, sconn[e]>> \in Conn
        BY <3>1, Bounds DEF TypeOK, MapType, Conn
      <3> QED
        BY Zenon, <1>a, <3>2 DEF TypeOK, MapType, RemovalHangs
    <2>4. MapType' /\ LoopType'
      BY Zenon, <1>a, <2>2, <2>3 DEF TypeOK, MapType, LoopType, RemovalHangs
    <2>5. HostType'
      BY Zenon, <1>a, KnownAddr, DisconnectType DEF TypeOK, HostType, RemovalHangs
    <2> QED
      BY Zenon, <1>a, <2>1, <2>4, <2>5, Frame DEF RemovalHangs, TypeOK
  <1>3. CASE TimerArms(cl)
    <2>1. SchedType'
      BY <1>3 DEF TypeOK, SchedType, TimerArms, TimerState
    <2> QED
      BY Zenon, <1>3, <2>1, Frame DEF TimerArms, TypeOK
  <1>4. ASSUME NEW k \in {"armed", "orphan"}, TimerFires(cl, k) PROVE TypeOK'
    <2>1. SchedType'
      BY <1>4 DEF TypeOK, SchedType, TimerFires, TimerState
    <2> QED
      BY Zenon, <1>4, <2>1, Frame DEF TimerFires, TypeOK
  <1> QED
    BY Zenon, <1>1, <1>2, <1>a, <1>3, <1>4 DEF ClusterStep, Notified

\* The handling of an event keeps the types.
LEMMA TakesAggregateType ==
    ASSUME TypeOK, TakesAggregate PROVE TypeOK'
  <1> DEFINE a == Head(agg)
  <1>1. agg # <<>>
    BY Zenon DEF TakesAggregate, TakesAen, TakesAenFails, TakesAenHangs,
       TakesKeepAliveLoss
  <1>2. a \in Conn \X Kind /\ Tail(agg) \in Seq(Conn \X Kind)
        /\ Len(Tail(agg)) <= AggCap
    BY <1>1, Bounds DEF TypeOK, MuxType
  <1>3. a[1] \in Conn /\ ClusterOfConn(a[1]) \in Cluster
    BY SMTT(30), <1>2, ConstantsOK DEF ClusterOfConn, Conn
  <1>4. (agg' = Tail(agg) /\ mux' = mux) => MuxType'
    BY Zenon, <1>2 DEF TypeOK, MuxType
  <1>5. ASSUME NEW R \in SUBSET Ep, TakesAen(R) PROVE TypeOK'
    <2>1. EnvType'
      BY SMTT(30), <1>5 DEF TypeOK, EnvType, TakesAen
    <2>2. CacheType'
      BY Zenon, <1>5, CacheBecomesType DEF TakesAen, TypeOK
    <2>3. MapType'
      BY Zenon, <1>3, <1>5 DEF TypeOK, MapType, TakesAen
    <2> QED
      BY Zenon, <1>4, <1>5, <2>1, <2>2, <2>3, Frame DEF TakesAen, TypeOK
  <1>6. CASE TakesAenFails
    <2>1. SchedType'
      BY SMTT(30), <1>3, <1>6 DEF TypeOK, SchedType, TakesAenFails
    <2> QED
      BY Zenon, <1>4, <1>6, <2>1, Frame DEF TakesAenFails, TypeOK
  <1>7. CASE TakesKeepAliveLoss
    <2>1. SchedType'
      BY <1>3, <1>7 DEF TypeOK, SchedType, TakesKeepAliveLoss
    <2> QED
      BY SMTT(30), <1>4, <1>7, <2>1, Frame DEF TakesKeepAliveLoss, TypeOK
  <1>8. CASE TakesAenHangs
    <2>1. LoopType'
      BY Zenon, <1>8 DEF TypeOK, LoopType, TakesAenHangs
    <2> QED
      BY Zenon, <1>4, <1>8, <2>1, Frame DEF TakesAenHangs, TypeOK
  <1> QED
    BY Zenon, <1>5, <1>6, <1>7, <1>8 DEF TakesAggregate

\* Every step is one of these.
LEMMA NextCases ==
    ASSUME Next
    PROVE  \/ Environment \/ Reconnects \/ TakesAggregate \/ Goroutines
           \/ \E cl \in Cluster : ClusterStep(cl)
  BY Zenon DEF Next, Goroutines, ClusterStep

\* Every step keeps the types.
LEMMA TypeStep == ASSUME IInv, Next PROVE TypeOK'
  BY SMTT(30), NextCases, EnvironmentType, ReconnectsType, TakesAggregateType,
     GoroutinesType, ClusterStepType DEF IInv

----------------------------------------------------------------------------
(* Objects *)

\* What leaves the objects alone keeps what is known of them.
LEMMA ObjectsFrame ==
    ASSUME Objects, UNCHANGED <<cached, gen, sconn, stopped, main>>
    PROVE  Objects'
  BY SMTT(30) DEF Objects, main

\* A fresh object has a higher generation than every stopped one.
LEMMA CacheBecomesObjects ==
    ASSUME TypeOK, Objects, NEW cl \in Cluster, NEW R, CacheBecomes(cl, R),
           UNCHANGED <<sconn, stopped, main>>
    PROVE  Objects'
  <1>1. ASSUME NEW e \in Ep
        PROVE  /\ cached'[e] <= gen'[e] /\ sconn[e] <= gen'[e]
               /\ \A g \in 1..MaxGen :
                     g <= gen[e] /\ g # cached[e] => g <= gen'[e] /\ g # cached'[e]
    <2>1. /\ gen[e] \in Nat /\ cached[e] \in Nat /\ sconn[e] \in Nat
          /\ cached[e] <= gen[e] /\ sconn[e] <= gen[e]
      BY Bounds DEF TypeOK, CacheType, MapType, Objects
    <2>2. \/ gen'[e] = gen[e] /\ cached'[e] \in {cached[e], 0}
          \/ gen'[e] = gen[e] + 1 /\ cached'[e] = gen[e] + 1
      BY SMTT(30) DEF CacheBecomes, TypeOK, CacheType, EpsOf
    <2> QED
      BY <2>1, <2>2, Bounds
  <1> QED
    BY SMTT(30), <1>1 DEF Objects, main

\* A notification of the cache keeps what is known of the objects.
LEMMA NotificationObjects ==
    ASSUME TypeOK, Objects, NEW cl \in Cluster, TakesNotification(cl)
    PROVE  Objects'
  <1>1. /\ pc = "select" /\ UNCHANGED <<cached, gen, main>>
        /\ stopped' = stopped \cup {<<e, sconn[e]>> : e \in Removed(cl)}
        /\ sconn' = ConnectionsAfter(cl)
    BY SMTT(30) DEF TakesNotification
  <1>2. untried = {} /\ live = None
    BY SMTT(30), <1>1 DEF Objects
  <1>3. ASSUME NEW e \in Ep
        PROVE  /\ gen[e] \in Nat /\ cached[e] \in Nat /\ sconn[e] \in Nat
               /\ cached[e] <= gen[e] /\ sconn[e] <= gen[e]
               /\ sconn'[e] \in {cached[e], sconn[e], 0}
               /\ e \in Removed(cl) => sconn'[e] # sconn[e] /\ sconn[e] # cached[e]
    BY <1>1, Bounds DEF TypeOK, CacheType, MapType, Objects, ConnectionsAfter,
                        Added, Removed
  <1>4. ASSUME NEW e \in Ep, NEW g \in 1..MaxGen, <<e, g>> \in stopped'
        PROVE  g <= gen[e] /\ g # cached[e] /\ g # sconn'[e]
    <2>1. CASE <<e, g>> \in stopped
      BY <1>3, <2>1 DEF Objects
    <2>2. CASE <<e, g>> \notin stopped
      <3>1. PICK x \in Removed(cl) : <<e, g>> = <<x, sconn[x]>>
        BY Zenon, <1>1, <1>4, <2>2
      <3>2. e \in Removed(cl) /\ g = sconn[e]
        BY Zenon, <3>1
      <3> QED
        BY Zenon, <1>3, <3>2
    <2> QED
      BY SMTT(30), <2>1, <2>2
  <1>5. \A e \in Ep : cached[e] <= gen[e] /\ sconn'[e] <= gen[e]
    BY <1>3
  <1> QED
    BY SMTT(30), <1>1, <1>2, <1>4, <1>5, ConstantsOK DEF Objects, main, Conn

\* So does one whose handling hangs.
LEMMA HangObjects ==
    ASSUME TypeOK, Objects, NEW cl \in Cluster, NEW D \in SUBSET Ep, RemovalHangs(cl, D)
    PROVE  Objects'
  <1>1. /\ pc = "select" /\ UNCHANGED <<cached, gen, untried, live>>
        /\ stopped' = stopped \cup {<<e, sconn[e]>> : e \in D}
        /\ sconn' = [e \in Ep |-> IF e \in D THEN 0 ELSE sconn[e]]
        /\ pc' = "removing" /\ D \subseteq Removed(cl)
    BY Zenon DEF RemovalHangs
  <1>2. untried = {} /\ live = None
    BY SMTT(30), <1>1 DEF Objects
  <1>3. ASSUME NEW e \in Ep
        PROVE  /\ gen[e] \in Nat /\ cached[e] \in Nat /\ sconn[e] \in Nat
               /\ cached[e] <= gen[e] /\ sconn[e] <= gen[e]
               /\ sconn'[e] \in {sconn[e], 0}
               /\ e \in D => sconn'[e] # sconn[e] /\ sconn[e] # cached[e]
    BY <1>1, Bounds DEF TypeOK, CacheType, MapType, Objects, Removed
  <1>4. ASSUME NEW e \in Ep, NEW g \in 1..MaxGen, <<e, g>> \in stopped'
        PROVE  g <= gen[e] /\ g # cached[e] /\ g # sconn'[e]
    <2>1. CASE <<e, g>> \in stopped
      BY <1>3, <2>1 DEF Objects
    <2>2. CASE <<e, g>> \notin stopped
      <3>1. PICK x \in D : <<e, g>> = <<x, sconn[x]>>
        BY Zenon, <1>1, <1>4, <2>2
      <3>2. e \in D /\ g = sconn[e]
        BY Zenon, <3>1
      <3> QED
        BY Zenon, <1>3, <3>2
    <2> QED
      BY Zenon, <2>1, <2>2
  <1>5. \A e \in Ep : cached[e] <= gen[e] /\ sconn'[e] <= gen[e]
    BY <1>3
  <1> QED
    BY SMTT(30), <1>1, <1>2, <1>4, <1>5, ConstantsOK DEF Objects, Conn

\* Every step keeps what is known of the objects.
LEMMA ObjectsStep == ASSUME IInv, Next PROVE Objects'
  <1> USE DEF IInv
  <1>1. CASE Environment
    <2>1. ASSUME NEW cl \in Cluster, NEW R \in SUBSET Ep, FileAdded(cl, R)
          PROVE  Objects'
      BY Zenon, <2>1, CacheBecomesObjects DEF FileAdded
    <2>2. ASSUME NEW e \in Ep, ServerFlaps(e) PROVE Objects'
      BY Zenon, <2>2, ObjectsFrame DEF ServerFlaps, cache
    <2>3. ASSUME NEW s \in Slot, ServerSendsAen(s) PROVE Objects'
      BY Zenon, <2>3, ObjectsFrame DEF ServerSendsAen, cache
    <2> QED
      BY Zenon, <1>1, <2>1, <2>2, <2>3 DEF Environment
  <1>2. CASE Reconnects
    <2>1. ASSUME NEW c \in untried, DiscoverFails(c) PROVE Objects'
      BY SMTT(30), <2>1 DEF DiscoverFails, Objects, cache
    <2>2. ASSUME NEW c \in untried, DiscoverSucceeds(c) PROVE Objects'
      <3>1. c \in Conn
        BY SMTT(30) DEF TypeOK, LoopType
      <3> QED
        BY Zenon, <2>2, <3>1 DEF DiscoverSucceeds, Objects, cache, Conn
    <2>a. ASSUME NEW c \in untried, DiscoverHangs(c) PROVE Objects'
      BY Zenon, <2>a DEF DiscoverHangs, Objects, cache
    <2>3. CASE PushesAen
      BY SMTT(30), <2>3, ConstantsOK DEF PushesAen, Objects, cache, Conn
    <2>4. CASE PushTimesOut
      BY <2>4, ConstantsOK DEF PushTimesOut, Objects, cache, Conn
    <2> QED
      BY Zenon, <1>2, <2>1, <2>2, <2>a, <2>3, <2>4 DEF Reconnects
  <1>3. CASE TakesAggregate
    <2>1. ASSUME NEW R \in SUBSET Ep, TakesAen(R) PROVE Objects'
      <3>1. Head(agg) \in Conn \X Kind
        BY SMTT(30), <2>1 DEF TakesAen, TypeOK, MuxType
      <3>2. ClusterOfConn(Head(agg)[1]) \in Cluster
        BY SMTT(30), <3>1, ConstantsOK DEF ClusterOfConn, Conn
      <3> QED
        BY SMTT(30), <2>1, <3>2, CacheBecomesObjects DEF TakesAen
    <2>2. CASE TakesAenFails
      BY Zenon, <2>2, ObjectsFrame DEF TakesAenFails, cache
    <2>3. CASE TakesKeepAliveLoss
      BY SMTT(30), <2>3, ObjectsFrame DEF TakesKeepAliveLoss, cache
    <2>4. CASE TakesAenHangs
      BY Zenon, <2>4 DEF TakesAenHangs, Objects, cache
    <2> QED
      BY Zenon, <1>3, <2>1, <2>2, <2>3, <2>4 DEF TakesAggregate
  <1>4. CASE Goroutines
    BY Zenon, <1>4, ObjectsFrame DEF Goroutines, Handler, KeepAliveFails, HandlerStarts,
       HandlerFindsNone, HandlerSelects, HandlerSends, MuxReturns, MuxForwards, cache
  <1>5. ASSUME NEW cl \in Cluster, ClusterStep(cl) PROVE Objects'
    <2>1. CASE TakesTrigger(cl)
      <3>1. UNCHANGED <<cached, gen, sconn, stopped, live>>
        BY Zenon, <2>1 DEF TakesTrigger, cache, main
      <3>2. CASE ClusterConns(cl) = {}
        BY SMTT(30), <2>1, <3>1, <3>2, ObjectsFrame DEF TakesTrigger, cache
      <3>3. CASE ClusterConns(cl) # {}
        <4>1. pc = "select" /\ pc' = "reconnect" /\ untried' = ClusterConns(cl)
          BY Zenon, <2>1, <3>3 DEF TakesTrigger
        <4>2. \A e \in Ep, g \in 1..MaxGen :
                 <<e, g>> \in ClusterConns(cl) => g = sconn[e]
          BY Zenon DEF ClusterConns
        <4> QED
          BY Zenon, <3>1, <4>1, <4>2 DEF Objects
      <3> QED
        BY Zenon, <3>2, <3>3
    <2>2. CASE TakesNotification(cl)
      BY SMTT(30), <2>2, NotificationObjects
    <2>a. ASSUME NEW D \in SUBSET Ep, RemovalHangs(cl, D) PROVE Objects'
      BY Zenon, <2>a, HangObjects
    <2>3. CASE TimerArms(cl)
      BY Zenon, <2>3, ObjectsFrame DEF TimerArms, cache
    <2>4. ASSUME NEW k \in {"armed", "orphan"}, TimerFires(cl, k) PROVE Objects'
      BY SMTT(30), <2>4, ObjectsFrame DEF TimerFires, cache
    <2> QED
      BY Zenon, <1>5, <2>1, <2>2, <2>a, <2>3, <2>4 DEF ClusterStep, Notified
  <1> QED
    BY Zenon, <1>1, <1>2, <1>3, <1>4, <1>5, NextCases

----------------------------------------------------------------------------
(* Clients *)

\* What Follows allows leaves the table right, if only the stopped client's
\* entry leaves it.
LEMMA FollowClients ==
    ASSUME TypeOK, Clients, NEW z, Follows(sess, sess', z),
           \A b \in Addr : tbl'[b] = tbl[b] \/ (tbl'[b] = 0 /\ tbl[b] = z),
           \A b \in Addr : tbl'[b] # 0 => tbl'[b] # z
    PROVE  Clients'
  <1>1. ASSUME NEW s \in Slot
        PROVE  /\ sess'[s].h # "unused" => sess'[s].conn \in Conn
               /\ InUse(s)' => tbl'[AddrOfConn(sess'[s].conn)] = s
    <2>1. sess'[s].h # "unused" => sess'[s].conn \in Conn /\ sess'[s].conn = sess[s].conn
      BY Zenon DEF Follows, Clients
    <2>2. ASSUME InUse(s)' PROVE tbl'[AddrOfConn(sess'[s].conn)] = s
      <3>1. sess'[s].h \notin {"unused", "done"} /\ ~sess'[s].stop
        BY Zenon, <2>2 DEF InUse
      <3>2. InUse(s) /\ s # z
        BY Zenon, <3>1 DEF Follows, InUse
      <3>3. tbl[AddrOfConn(sess[s].conn)] = s /\ AddrOfConn(sess[s].conn) \in Addr
        BY Zenon, <2>1, <3>1, <3>2, AddrType DEF Clients
      <3> QED
        BY Zenon, <2>1, <3>1, <3>2, <3>3
    <2> QED
      BY Zenon, <2>1, <2>2
  <1>2. ASSUME NEW b \in Addr, tbl'[b] # 0
        PROVE  /\ sess'[tbl'[b]].h # "unused"
               /\ AddrOfConn(sess'[tbl'[b]].conn) = b /\ ~sess'[tbl'[b]].stop
    <2>1. tbl'[b] = tbl[b] /\ tbl[b] # z /\ tbl[b] \in Slot
      BY Zenon, <1>2, Slots0
    <2>2. /\ sess[tbl[b]].h # "unused" /\ AddrOfConn(sess[tbl[b]].conn) = b
          /\ ~sess[tbl[b]].stop
      BY Zenon, <1>2, <2>1 DEF Clients
    <2> QED
      BY Zenon, <2>1, <2>2 DEF Follows
  <1> QED
    BY Zenon, <1>1, <1>2 DEF Clients, Follows

\* Goroutines that move on keep what is known of the clients.
LEMMA ClientsFollow ==
    ASSUME TypeOK, Clients, tbl' = tbl, Follows(sess, sess', 0)
    PROVE  Clients'
  BY Zenon, FollowClients

\* So does Disconnect.
LEMMA DisconnectClients ==
    ASSUME TypeOK, Clients, NEW a \in Addr, Disconnects(a)
    PROVE  Clients'
  <1>1. Follows(sess, sess', tbl[a])
    BY Zenon, DisconnectFollows
  <1>2. tbl'[a] = 0 /\ \A b \in Addr : b # a => tbl'[b] = tbl[b]
    BY Zenon DEF Disconnects, TypeOK, HostType
  <1>3. ASSUME NEW b \in Addr, tbl'[b] # 0 PROVE tbl'[b] # tbl[a]
    BY Zenon, <1>2, <1>3 DEF Clients
  <1>4. \A b \in Addr : tbl'[b] = tbl[b] \/ (tbl'[b] = 0 /\ tbl[b] = tbl[a])
    BY Zenon, <1>2
  <1> QED
    BY Zenon, <1>1, <1>3, <1>4, FollowClients

\* Discover keeps what is known of the clients and their table.
LEMMA NewClientClients ==
    ASSUME TypeOK, Clients, NEW c \in Conn, NewClient(c)
    PROVE  Clients'
  <1> DEFINE a == AddrOfConn(c)
             old == AfterStop(sess, a)
  <1>0. PICK s \in Slot : NewIn(c, s, old)
    BY Zenon, NewClientStep
  <1>1. /\ sess[s].h = "unused" /\ old[s].h = "unused" /\ tbl' = [tbl EXCEPT ![a] = s]
        /\ sess'[s].conn = c /\ sess'[s].h = "start" /\ ~sess'[s].stop
        /\ sess'[s].of = s
        /\ \A x \in Slot : x # s => sess'[x] = old[x]
    BY Zenon, <1>0 DEF NewIn
  <1>2. a \in Addr
    BY Zenon, AddrType
  <1>3. Follows(sess, old, tbl[a])
    BY Zenon, <1>2, StopFollows
  <1>4. tbl'[a] = s /\ \A b \in Addr : b # a => tbl'[b] = tbl[b]
    BY Zenon, <1>1, <1>2 DEF TypeOK, HostType
  <1> HIDE DEF old
  <1>5. ASSUME NEW x \in Slot
        PROVE  /\ sess'[x].h # "unused" => sess'[x].conn \in Conn
               /\ InUse(x)' => tbl'[AddrOfConn(sess'[x].conn)] = x
    <2>1. CASE x = s
      BY Zenon, <1>1, <1>4, <2>1
    <2>2. CASE x # s
      <3>1. sess'[x] = old[x]
        BY Zenon, <1>1, <2>2
      <3>2. old[x].h # "unused" => old[x].conn \in Conn /\ old[x].conn = sess[x].conn
        BY Zenon, <1>3 DEF Follows, Clients
      <3>3. ASSUME InUse(x)' PROVE tbl'[AddrOfConn(sess'[x].conn)] = x
        <4>1. ~old[x].stop /\ old[x].h \notin {"unused", "done"}
          BY Zenon, <3>1, <3>3 DEF InUse
        <4>2. InUse(x) /\ x # tbl[a]
          BY Zenon, <1>3, <4>1 DEF Follows, InUse
        <4>3. tbl[AddrOfConn(sess[x].conn)] = x /\ AddrOfConn(sess[x].conn) \in Addr
          BY Zenon, <3>2, <4>1, <4>2, AddrType DEF Clients
        <4> HIDE DEF a
        <4> QED
          BY Zenon, <1>4, <3>1, <3>2, <4>1, <4>2, <4>3
      <3> QED
        BY Zenon, <3>1, <3>2, <3>3
    <2> QED
      BY Zenon, <2>1, <2>2
  <1>6. ASSUME NEW b \in Addr, tbl'[b] # 0
        PROVE  /\ sess'[tbl'[b]].h # "unused"
               /\ AddrOfConn(sess'[tbl'[b]].conn) = b /\ ~sess'[tbl'[b]].stop
    <2>1. CASE b = a
      BY Zenon, <1>1, <1>4, <2>1
    <2>2. CASE b # a
      <3> HIDE DEF a
      <3>1. tbl'[b] = tbl[b] /\ tbl[b] # 0 /\ tbl[b] \in Slot
        BY Zenon, <1>4, <1>6, <2>2, Slots0
      <3>2. /\ sess[tbl[b]].h # "unused" /\ AddrOfConn(sess[tbl[b]].conn) = b
            /\ ~sess[tbl[b]].stop
        BY Zenon, <3>1 DEF Clients
      <3>3. tbl[b] # tbl[a] /\ tbl[b] # s
        BY Zenon, <1>1, <1>2, <2>2, <3>1, <3>2 DEF Clients
      <3>4. sess'[tbl[b]] = old[tbl[b]]
        BY Zenon, <1>1, <3>1, <3>3
      <3> QED
        BY Zenon, <1>3, <3>1, <3>2, <3>3, <3>4 DEF Follows
    <2> QED
      BY Zenon, <2>1, <2>2
  <1>7. Serves(sess')
    <2> SUFFICES ASSUME NEW x \in Slot, sess'[x].h \in Active
                 PROVE  /\ sess'[x].of \in Slot /\ sess'[sess'[x].of].h # "unused"
                        /\ sess'[x].h = "start" => sess'[x].of = x
      BY Zenon DEF Serves
    <2>1. CASE x = s
      BY Zenon, <1>1, <2>1
    <2>2. CASE x # s
      <3>1. sess'[x] = old[x] /\ Serves(old)
        BY Zenon, <1>1, <1>3, <2>2 DEF Follows
      <3>2. /\ old[x].of \in Slot /\ old[old[x].of].h # "unused"
            /\ old[x].h = "start" => old[x].of = x
        BY Zenon, <3>1 DEF Serves
      <3>3. old[x].of # s
        BY Zenon, <1>1, <3>2
      <3> QED
        BY Zenon, <1>1, <3>1, <3>2, <3>3
    <2> QED
      BY Zenon, <2>1, <2>2
  <1> QED
    BY Zenon, <1>5, <1>6, <1>7 DEF Clients

\* The goroutines leave the table alone and only move on.
LEMMA GoroutinesFollow ==
    ASSUME TypeOK, Clients, Goroutines
    PROVE  tbl' = tbl /\ Follows(sess, sess', 0)
  <1>1. ASSUME NEW s \in Slot, KeepAliveFails(s)
        PROVE  tbl' = tbl /\ Follows(sess, sess', 0)
    BY Zenon, <1>1, LossFollows DEF KeepAliveFails, table
  <1>2. ASSUME NEW s \in Slot, Handler(s)
        PROVE  tbl' = tbl /\ Follows(sess, sess', 0)
    <2>1. CASE HandlerStarts(s)
      BY Zenon, <2>1, StartFollows DEF HandlerStarts, table
    <2>2. CASE HandlerFindsNone(s)
      BY Zenon, <2>2, FollowsSame DEF HandlerFindsNone, host, table
    <2>3. CASE HandlerSelects(s)
      BY Zenon, <2>3, SelectFollows DEF HandlerSelects, table
    <2>4. CASE HandlerSends(s)
      BY Zenon, <2>4, SendFollows DEF HandlerSends, table
    <2> QED
      BY Zenon, <1>2, <2>1, <2>2, <2>3, <2>4 DEF Handler
  <1>3. ASSUME NEW c \in Conn, MuxReturns(c) \/ \E k \in Kind : MuxForwards(c, k)
        PROVE  tbl' = tbl /\ Follows(sess, sess', 0)
    BY Zenon, <1>3, FollowsSame DEF MuxReturns, MuxForwards, host, table
  <1> QED
    BY Zenon, <1>1, <1>2, <1>3 DEF Goroutines

\* Every step keeps what is known of the clients.
LEMMA ClientsStep == ASSUME IInv, Next PROVE Clients'
  <1> USE DEF IInv
  <1>1. UNCHANGED <<tbl, sess>> => Clients'
    BY Zenon, FollowsSame, ClientsFollow
  <1>2. CASE Environment
    <2>1. ASSUME NEW s \in Slot, ServerSendsAen(s) PROVE Clients'
      BY Zenon, <2>1, EventFollows, ClientsFollow DEF ServerSendsAen, table
    <2> QED
      BY Zenon, <1>1, <1>2, <2>1 DEF Environment, FileAdded, ServerFlaps, host, table
  <1>3. CASE Reconnects
    <2>1. ASSUME NEW c \in untried, DiscoverSucceeds(c) PROVE Clients'
      BY Zenon, <2>1, NewClientClients DEF DiscoverSucceeds, TypeOK, LoopType
    <2>2. ASSUME NEW c \in untried, DiscoverHangs(c) PROVE Clients'
      BY Zenon, <2>2, AddrType, DisconnectClients DEF DiscoverHangs, TypeOK, LoopType
    <2> QED
      BY Zenon, <1>1, <1>3, <2>1, <2>2
      DEF Reconnects, DiscoverFails, PushesAen, PushTimesOut, host, table
  <1>4. CASE TakesAggregate
    BY Zenon, <1>1, <1>4 DEF TakesAggregate, TakesAen, TakesAenFails, TakesAenHangs,
       TakesKeepAliveLoss, host, table
  <1>5. CASE Goroutines
    BY Zenon, <1>5, GoroutinesFollow, ClientsFollow
  <1>6. ASSUME NEW cl \in Cluster, ClusterStep(cl) PROVE Clients'
    <2>1. CASE TakesNotification(cl)
      BY Zenon, <1>1, <2>1, KnownAddr, DisconnectClients
      DEF TakesNotification, host, table
    <2>2. ASSUME NEW D \in SUBSET Ep, RemovalHangs(cl, D) PROVE Clients'
      BY Zenon, <2>2, KnownAddr, DisconnectClients DEF RemovalHangs
    <2> QED
      BY Zenon, <1>1, <1>6, <2>1, <2>2 DEF ClusterStep, Notified, TakesTrigger,
         TimerArms, TimerFires, host, table
  <1> QED
    BY Zenon, <1>2, <1>3, <1>4, <1>5, <1>6, NextCases

----------------------------------------------------------------------------
(* Control, and the invariant *)

\* Every step keeps what is known of the main loop.
LEMMA ControlStep == ASSUME IInv, Next PROVE Control'
  <1> USE DEF IInv, Control
  <1>1. CASE Environment
    BY ZenonT(30), <1>1 DEF Environment, FileAdded, ServerFlaps, ServerSendsAen, main
  <1>2. CASE Reconnects
    BY Zenon, <1>2 DEF Reconnects, DiscoverFails, DiscoverSucceeds, DiscoverHangs,
       PushesAen, PushTimesOut, TypeOK, LoopType
  <1>3. CASE TakesAggregate
    BY Zenon, <1>3 DEF TakesAggregate, TakesAen, TakesAenFails, TakesAenHangs,
       TakesKeepAliveLoss, main
  <1>4. CASE Goroutines
    BY ZenonT(30), <1>4 DEF Goroutines, Handler, KeepAliveFails, HandlerStarts,
       HandlerFindsNone, HandlerSelects, HandlerSends, MuxReturns, MuxForwards, main
  <1>5. ASSUME NEW cl \in Cluster, ClusterStep(cl) PROVE Control'
    BY Zenon, <1>5 DEF ClusterStep, Notified, TakesTrigger, TakesNotification,
       RemovalHangs, TimerArms, TimerFires, main
  <1> QED
    BY Zenon, <1>1, <1>2, <1>3, <1>4, <1>5, NextCases

\* So does a step that changes nothing.
LEMMA Stutters == ASSUME IInv, UNCHANGED vars PROVE IInv'
  <1>1. UNCHANGED <<env, cache, sconn, active, stopped, main, sched, agg, mux,
                    tbl, ids, sess, stray, panic>>
    BY SMTT(30) DEF vars, host, table
  <1>2. TypeOK'
    BY Zenon, <1>1 DEF IInv, TypeOK, EnvType, CacheType, MapType, LoopType, SchedType,
       MuxType, HostType, env, cache, main, sched
  <1>3. Objects'
    BY SMTT(30), <1>1, ObjectsFrame DEF IInv, cache
  <1>4. Clients'
    BY Zenon, <1>1, FollowsSame, ClientsFollow DEF IInv
  <1>5. Control'
    BY Zenon, <1>1 DEF IInv, Control, main
  <1> QED
    BY Zenon, <1>2, <1>3, <1>4, <1>5 DEF IInv

\* The inductive invariant holds in every reachable state.
THEOREM Invariance == Spec => []IInv
  <1>1. IInv /\ [Next]_vars => IInv'
    BY Zenon, TypeStep, ObjectsStep, ClientsStep, ControlStep, Stutters DEF IInv
  <1> QED
    BY <1>1, InitIInv, PTL DEF Spec

\* Every variable of the service keeps its type: aggregateChan stays within
\* its capacity and no goroutine count becomes negative.
THEOREM TypeCorrect == Spec => []TypeOK
  BY Invariance, PTL DEF IInv

\* Whatever the cache, the servers and the scheduling do, the main loop never
\* works with a connection object that it has stopped before.
THEOREM OpenObjects == Spec => []WorksWithOpenObjects
  <1>1. IInv => WorksWithOpenObjects
    <2> SUFFICES ASSUME IInv PROVE WorksWithOpenObjects
      OBVIOUS
    <2>1. stopped \subseteq Conn /\ untried \subseteq Conn
      BY SMTT(30) DEF IInv, TypeOK, MapType, LoopType
    <2>2. \A e \in Ep, g \in 1..MaxGen : <<e, g>> \in stopped => g # sconn[e]
      BY Zenon DEF IInv, Objects
    <2>3. ASSUME NEW e \in Ep, <<e, sconn[e]>> \in stopped PROVE FALSE
      BY SMTT(30), <2>1, <2>2, <2>3 DEF Conn
    <2>4. ASSUME NEW c \in Conn, c \in stopped, c \in untried \/ live = c
          PROVE  FALSE
      <3>1. PICK e \in Ep, g \in 1..MaxGen : c = <<e, g>>
        BY SMTT(30) DEF Conn
      <3> QED
        BY Zenon, <2>2, <2>4, <3>1 DEF IInv, Objects
    <2> QED
      BY Zenon, <2>1, <2>3, <2>4 DEF WorksWithOpenObjects
  <1> QED
    BY <1>1, Invariance, PTL

\* Every running persistent client is the one ConnTbl has for its address.
THEOREM ClientsInTable == Spec => []RunningClientsAreInTable
  <1>1. IInv => RunningClientsAreInTable
    BY SMTT(30) DEF IInv, Clients, RunningClientsAreInTable
  <1> QED
    BY <1>1, Invariance, PTL

----------------------------------------------------------------------------
(* One cluster: a reconnect stays scheduled *)

\* What a step that leaves the scheduler alone keeps.
LEMMA PendingFrame ==
    ASSUME NEW cl \in Cluster, UNCHANGED <<rcl, timer>>,
           trig \in [Cluster -> Nat], trig' \in [Cluster -> Nat],
           trig[cl] <= trig'[cl], ReconnectPending(cl)
    PROVE  ReconnectPending(cl)'
  BY DEF ReconnectPending

\* Every step keeps a reconnect pending.
LEMMA ReconnectStep ==
    ASSUME IInv, TypeOK', NEW cl, Cluster = {cl}, ReconnectIsScheduled, Next
    PROVE  ReconnectIsScheduled'
  <1> SUFFICES ASSUME ClusterConns(cl)' # {}, active'[cl] = None
               PROVE  ReconnectPending(cl)'
    BY SMTT(30) DEF ReconnectIsScheduled
  <1>1. /\ trig \in [Cluster -> Nat] /\ trig' \in [Cluster -> Nat]
        /\ timer \in [Cluster -> [TimerState -> Nat]]
        /\ active \in [Cluster -> Conn \cup {None}] /\ cl \in Cluster
        /\ trig[cl] \in Nat
    BY Zenon DEF IInv, TypeOK, SchedType, MapType
  <1>2. ASSUME UNCHANGED <<sconn, active, rcl, timer>>, trig[cl] <= trig'[cl]
        PROVE  ReconnectPending(cl)'
    <2>1. ReconnectPending(cl)
      BY Zenon, <1>1, <1>2 DEF ReconnectIsScheduled, ClusterConns
    <2> QED
      BY SMTT(30), <1>1, <1>2, <2>1, PendingFrame
  <1>3. trig' = trig => trig[cl] <= trig'[cl]
    BY <1>1
  <1>4. CASE Environment
    BY Zenon, <1>2, <1>3, <1>4 DEF Environment, FileAdded, ServerFlaps, ServerSendsAen,
       main, sched
  <1>5. CASE Reconnects
    <2>1. ASSUME NEW c \in untried, DiscoverFails(c) PROVE ReconnectPending(cl)'
      <3>1. CASE untried' # {}
        BY Zenon, <1>2, <1>3, <2>1, <3>1 DEF DiscoverFails, sched
      <3>2. CASE untried' = {}
        <4>1. rcl = cl /\ timer' = [timer EXCEPT ![rcl]["unarmed"] = @ + 1]
          BY Zenon, <2>1, <3>2 DEF DiscoverFails, IInv, Control
        <4>2. timer'[cl]["unarmed"] = timer[cl]["unarmed"] + 1
              /\ timer[cl]["unarmed"] \in Nat
          BY SMTT(30), <1>1, <4>1 DEF TimerState
        <4>3. timer'[cl]["unarmed"] > 0 /\ "unarmed" \in TimerState
          BY SMTT(30), <4>2 DEF TimerState
        <4> QED
          BY Zenon, <4>3 DEF ReconnectPending
      <3> QED
        BY Zenon, <3>1, <3>2
    <2>a. ASSUME NEW c \in untried, DiscoverHangs(c) PROVE ReconnectPending(cl)'
      BY Zenon, <1>2, <1>3, <2>a DEF DiscoverHangs, sched
    <2>2. ASSUME NEW c \in untried, DiscoverSucceeds(c) PROVE FALSE
      <3>1. rcl = cl /\ active' = [active EXCEPT ![rcl] = c]
        BY SMTT(30), <2>2 DEF DiscoverSucceeds, IInv, Control
      <3>2. active'[cl] = c /\ c \in Conn
        BY Zenon, <1>1, <3>1 DEF IInv, TypeOK, LoopType
      <3> QED
        BY SMTT(30), <3>2, ConstantsOK
    <2> QED
      BY Zenon, <1>2, <1>3, <1>5, <2>1, <2>a, <2>2
      DEF Reconnects, PushesAen, PushTimesOut, sched
  <1>6. CASE TakesAggregate
    <2>1. agg # <<>> /\ agg \in Seq(Conn \X Kind)
      BY Zenon, <1>6 DEF TakesAggregate, TakesAen, TakesAenFails, TakesAenHangs,
         TakesKeepAliveLoss, IInv, TypeOK, MuxType
    <2>2. Head(agg)[1] \in Conn
      BY SMTT(30), <2>1
    <2>3. ClusterOfConn(Head(agg)[1]) = cl
      BY SMTT(30), <2>2, ConstantsOK DEF ClusterOfConn, Conn
    <2>4. ASSUME NEW R \in SUBSET Ep, TakesAen(R) PROVE FALSE
      <3>1. active'[cl] = Head(agg)[1]
        BY ZenonT(30), <1>1, <2>3, <2>4 DEF TakesAen
      <3> QED
        BY SMTT(30), <2>2, <3>1, ConstantsOK
    <2>5. CASE TakesAenFails \/ TakesKeepAliveLoss
      <3>1. trig' = [trig EXCEPT ![cl] = @ + 1]
        BY Zenon, <2>3, <2>5 DEF TakesAenFails, TakesKeepAliveLoss
      <3>2. trig[cl] <= trig'[cl]
        BY SMTT(30), <1>1, <3>1
      <3> QED
        BY SMTT(30), <1>2, <2>5, <3>2 DEF TakesAenFails, TakesKeepAliveLoss, main
    <2>6. CASE TakesAenHangs
      BY Zenon, <1>2, <1>3, <2>6 DEF TakesAenHangs, sched
    <2> QED
      BY Zenon, <1>6, <2>4, <2>5, <2>6 DEF TakesAggregate
  <1>7. CASE Goroutines
    BY ZenonT(30), <1>2, <1>3, <1>7 DEF Goroutines, Handler, KeepAliveFails,
       HandlerStarts, HandlerFindsNone, HandlerSelects, HandlerSends, MuxReturns,
       MuxForwards, main, sched
  <1>8. CASE ClusterStep(cl)
    <2>1. CASE TakesTrigger(cl)
      <3>1. ClusterConns(cl) # {}
        BY Zenon, <2>1 DEF TakesTrigger, ClusterConns
      <3> QED
        BY Zenon, <2>1, <3>1 DEF TakesTrigger, ReconnectPending
    <2>2. CASE TakesNotification(cl)
      <3>1. CASE Removed(cl) \cup Added(cl) = {}
        <4>1. sconn' = sconn
          BY Zenon, <2>2, <3>1 DEF TakesNotification, ConnectionsAfter, IInv, TypeOK,
             MapType
        <4> QED
          BY SMTT(30), <1>2, <1>3, <2>2, <3>1, <4>1 DEF TakesNotification, main
      <3>2. CASE Removed(cl) \cup Added(cl) # {}
        <4>1. trig' = [trig EXCEPT ![cl] = @ + 1]
          BY Zenon, <2>2, <3>2 DEF TakesNotification
        <4>2. trig'[cl] > 0
          BY SMTT(30), <1>1, <4>1
        <4> QED
          BY SMTT(30), <4>2 DEF ReconnectPending
      <3> QED
        BY SMTT(30), <3>1, <3>2
    <2>a. ASSUME NEW D \in SUBSET Ep, RemovalHangs(cl, D) PROVE ReconnectPending(cl)'
      BY Zenon, <2>a DEF RemovalHangs, ReconnectPending
    <2>3. CASE TimerArms(cl)
      <3> DEFINE k == IF stopCh THEN "armed" ELSE "orphan"
      <3>1. k \in TimerState /\ k # "unarmed" /\ timer[cl][k] \in Nat
        BY SMTT(30), <1>1 DEF TimerState
      <3>2. timer'[cl][k] = timer[cl][k] + 1
        <4>1. timer'[cl] = [timer[cl] EXCEPT !["unarmed"] = @ - 1,
                              !["armed"] = IF stopCh THEN @ + 1 ELSE @,
                              !["orphan"] = IF stopCh THEN @ ELSE @ + 1]
          BY SMTT(30), <1>1, <2>3 DEF TimerArms
        <4>2. CASE stopCh
          BY SMTT(30), <1>1, <4>1, <4>2 DEF TimerState
        <4>3. CASE ~stopCh
          BY SMTT(30), <1>1, <4>1, <4>3 DEF TimerState
        <4> QED
          BY SMTT(30), <4>2, <4>3
      <3>3. timer'[cl][k] > 0
        BY <3>1, <3>2
      <3> HIDE DEF k
      <3> QED
        BY Zenon, <3>1, <3>3 DEF ReconnectPending
    <2>4. ASSUME NEW k \in {"armed", "orphan"}, TimerFires(cl, k)
          PROVE  ReconnectPending(cl)'
      <3>1. trig'[cl] > 0
        BY <1>1, <2>4 DEF TimerFires
      <3> QED
        BY SMTT(30), <3>1 DEF ReconnectPending
    <2> QED
      BY Zenon, <1>8, <2>1, <2>2, <2>a, <2>3, <2>4 DEF ClusterStep, Notified
  <1> QED
    BY SMTT(30), <1>4, <1>5, <1>6, <1>7, <1>8, NextCases

\* With a single cluster, "will schedule a reconnect goroutine" is kept: a
\* cluster with connections that was never connected has a trigger, a timer or
\* a reconnect under way.  With two clusters it is not (run ServiceClusters).
THEOREM ReconnectScheduled ==
    ASSUME NEW cl, Cluster = {cl}
    PROVE  Spec => []ReconnectIsScheduled
  <1>1. Init => ReconnectIsScheduled
    BY Zenon DEF Init, ReconnectIsScheduled, ClusterConns, EpsOf
  <1>2. IInv /\ IInv' /\ ReconnectIsScheduled /\ [Next]_vars
            => ReconnectIsScheduled'
    <2> SUFFICES ASSUME IInv, IInv', ReconnectIsScheduled, [Next]_vars
                 PROVE  ReconnectIsScheduled'
      OBVIOUS
    <2>1. CASE UNCHANGED vars
      <3>1. UNCHANGED <<sconn, active, trig, rcl, timer>>
        BY Zenon, <2>1 DEF vars, main, sched
      <3> QED
        BY SMTT(30), <3>1 DEF ReconnectIsScheduled, ReconnectPending, ClusterConns
    <2> QED
      BY Zenon, <2>1, ReconnectStep DEF IInv
  <1> QED
    BY <1>1, <1>2, Invariance, PTL DEF Spec

----------------------------------------------------------------------------
(* The service at its end of the feed *)

OwedNotes == {cl \in Cluster : note[cl] > 0 \/ (pc = "removing" /\ rcl = cl)}

\* A new list of the cache is a change of the feed, or none.
LEMMA CacheBecomesFeeds ==
    ASSUME IInv, NEW cl \in Cluster, NEW R, CacheBecomes(cl, R),
           UNCHANGED <<sconn, main>>
    PROVE  [Feed!Next]_(Feed!vars)
  <1>1. ASSUME NEW e \in Ep
        PROVE  /\ \/ cached'[e] = cached[e]
                  \/ ClusterOf[e] = cl /\ (cached'[e] = 0 \/ cached'[e] > gen[e])
               /\ gen'[e] >= gen[e] /\ gen'[e] >= cached'[e]
               /\ (cached'[e] = cached[e] \/ cached'[e] = 0) => gen'[e] = gen[e]
    <2>1. gen[e] \in Nat /\ cached[e] \in Nat /\ cached[e] <= gen[e]
      BY Bounds DEF IInv, TypeOK, CacheType, Objects
    <2>2. \/ gen'[e] = gen[e] /\ cached'[e] = cached[e]
          \/ ClusterOf[e] = cl /\ gen'[e] = gen[e] /\ cached'[e] = 0
          \/ ClusterOf[e] = cl /\ gen'[e] = gen[e] + 1 /\ cached'[e] = gen[e] + 1
      BY SMTT(30) DEF CacheBecomes, IInv, TypeOK, CacheType, EpsOf
    <2> QED
      BY SMTT(30), <2>1, <2>2
  <1>2. note \in [Cluster -> Nat] /\ cached \in [Ep -> 0..MaxGen]
        /\ gen \in [Ep -> 0..MaxGen]
    BY Zenon DEF IInv, TypeOK, CacheType
  <1>3. CASE cached' = cached
    <2>1. note' = note
      BY Zenon, <1>2, <1>3 DEF CacheBecomes
    <2>2. gen' = gen
      BY SMTT(30), <1>1, <1>2, <1>3 DEF CacheBecomes
    <2> QED
      BY Zenon, <1>3, <2>1, <2>2 DEF Feed!vars, main
  <1>4. CASE cached' # cached
    <2>1. note' = [note EXCEPT ![cl] = @ + 1]
      BY Zenon, <1>4 DEF CacheBecomes
    <2>2. OwedNotes' = OwedNotes \cup {cl}
      BY <1>2, <2>1 DEF OwedNotes, main
    <2>3. cached' \in [Ep -> Nat] /\ gen' \in [Ep -> Nat]
      BY Bounds, CacheBecomesType DEF IInv, TypeOK, CacheType
    <2>4. Feed!Change(cl)
      BY Zenon, <1>1, <2>2, <2>3 DEF Feed!Change, OwedNotes
    <2> QED
      BY Zenon, <2>4 DEF Feed!Next
  <1> QED
    BY Zenon, <1>3, <1>4

\* A notification is told: the service has what the cache has.
LEMMA NotificationTells ==
    ASSUME IInv, NEW cl \in Cluster, TakesNotification(cl)
    PROVE  Feed!Tell({cl})
  <1>1. /\ note \in [Cluster -> Nat] /\ cached \in [Ep -> 0..MaxGen]
        /\ sconn \in [Ep -> 0..MaxGen] /\ UNCHANGED <<cached, gen>>
        /\ note[cl] > 0 /\ note' = [note EXCEPT ![cl] = @ - 1] /\ UNCHANGED main
    BY Zenon DEF IInv, TypeOK, CacheType, MapType, TakesNotification
  <1>2. sconn' = [e \in Ep |-> IF ClusterOf[e] \in {cl} THEN cached[e] ELSE sconn[e]]
    <2>1. sconn' = ConnectionsAfter(cl)
      BY Zenon DEF TakesNotification
    <2>2. ASSUME NEW e \in Ep
          PROVE  sconn'[e] = IF ClusterOf[e] = cl THEN cached[e] ELSE sconn[e]
      BY SMTT(30), <1>1, <2>1 DEF ConnectionsAfter, Added, Removed, EpsOf
    <2>3. sconn' = [e \in Ep |-> sconn'[e]]
      BY Zenon, <2>1 DEF ConnectionsAfter
    <2> QED
      BY Zenon, <2>2, <2>3
  <1>3. /\ {cl} \subseteq OwedNotes
        /\ OwedNotes \ {cl} \subseteq OwedNotes' /\ OwedNotes' \subseteq OwedNotes
    BY Zenon, <1>1 DEF OwedNotes, main
  <1> QED
    BY Zenon, <1>1, <1>2, <1>3 DEF Feed!Tell, OwedNotes

\* A notification whose handling hangs stays owed; the service may have dropped
\* some of the cluster's connections.
LEMMA HangDrops ==
    ASSUME IInv, NEW cl \in Cluster, NEW D \in SUBSET Ep, RemovalHangs(cl, D)
    PROVE  Feed!Drop(cl)
  <1>1. /\ note \in [Cluster -> Nat] /\ sconn \in [Ep -> 0..MaxGen]
        /\ note[cl] > 0 /\ note' = [note EXCEPT ![cl] = @ - 1]
        /\ pc = "select" /\ pc' = "removing" /\ rcl' = cl /\ UNCHANGED <<cached, gen>>
        /\ sconn' = [e \in Ep |-> IF e \in D THEN 0 ELSE sconn[e]]
        /\ D \subseteq Removed(cl)
    BY Zenon DEF IInv, TypeOK, CacheType, MapType, RemovalHangs
  <1>2. OwedNotes' = OwedNotes /\ cl \in OwedNotes
    BY Zenon, <1>1 DEF OwedNotes
  <1>3. \A e \in D : ClusterOf[e] = cl
    BY Zenon, <1>1 DEF Removed, EpsOf
  <1>4. sconn' \in [Ep -> Nat]
    BY <1>1, Bounds
  <1>5. \A e \in Ep : sconn'[e] # sconn[e] => ClusterOf[e] = cl /\ sconn'[e] = 0
    BY Zenon, <1>1, <1>3
  <1> QED
    BY Zenon, <1>1, <1>2, <1>4, <1>5 DEF Feed!Drop, OwedNotes

\* Every step of the service is a step of the feed or leaves it alone.
LEMMA FeedStep == ASSUME IInv, [Next]_vars PROVE [Feed!Next]_(Feed!vars)
  <1> DEFINE Same == UNCHANGED <<cached, gen, note, sconn>> /\ OwedNotes' = OwedNotes
  <1>1. ASSUME Same PROVE [Feed!Next]_(Feed!vars)
    BY Zenon, <1>1 DEF Feed!vars, OwedNotes
  <1>2. CASE UNCHANGED vars
    BY Zenon, <1>1, <1>2 DEF vars, cache, main, OwedNotes
  <1>3. ASSUME Environment PROVE [Feed!Next]_(Feed!vars)
    <2>1. ASSUME NEW cl \in Cluster, NEW R \in SUBSET Ep, FileAdded(cl, R)
          PROVE  [Feed!Next]_(Feed!vars)
      BY Zenon, <2>1, CacheBecomesFeeds DEF FileAdded
    <2>2. ASSUME NEW e \in Ep, ServerFlaps(e) PROVE Same
      BY Zenon, <2>2 DEF ServerFlaps, cache, main, OwedNotes
    <2>3. ASSUME NEW s \in Slot, ServerSendsAen(s) PROVE Same
      BY Zenon, <2>3 DEF ServerSendsAen, cache, main, OwedNotes
    <2> QED
      BY Zenon, <1>1, <1>3, <2>1, <2>2, <2>3 DEF Environment
  <1>4. ASSUME Reconnects PROVE Same
    BY Zenon, <1>4 DEF Reconnects, DiscoverFails, DiscoverSucceeds, DiscoverHangs,
       PushesAen, PushTimesOut, cache, OwedNotes
  <1>5. ASSUME TakesAggregate PROVE [Feed!Next]_(Feed!vars)
    <2>1. ASSUME NEW R \in SUBSET Ep, TakesAen(R) PROVE [Feed!Next]_(Feed!vars)
      <3>1. ClusterOfConn(Head(agg)[1]) \in Cluster
        <4>1. agg \in Seq(Conn \X Kind) /\ agg # <<>>
          BY Zenon, <2>1 DEF IInv, TypeOK, MuxType, TakesAen
        <4>2. Head(agg) \in Conn \X Kind
          BY <4>1
        <4> QED
          BY Zenon, <4>2, ConstantsOK DEF Conn, ClusterOfConn
      <3> QED
        BY Zenon, <2>1, <3>1, CacheBecomesFeeds DEF TakesAen
    <2>2. ASSUME TakesAenFails \/ TakesAenHangs \/ TakesKeepAliveLoss PROVE Same
      BY Zenon, <2>2 DEF TakesAenFails, TakesAenHangs, TakesKeepAliveLoss, cache, main,
         OwedNotes
    <2> QED
      BY Zenon, <1>1, <1>5, <2>1, <2>2 DEF TakesAggregate
  <1>6. ASSUME Goroutines PROVE Same
    BY Zenon, <1>6 DEF Goroutines, Handler, KeepAliveFails, HandlerStarts,
       HandlerFindsNone, HandlerSelects, HandlerSends, MuxReturns, MuxForwards, cache,
       main, OwedNotes
  <1>7. ASSUME NEW cl \in Cluster, ClusterStep(cl) PROVE [Feed!Next]_(Feed!vars)
    <2>1. ASSUME TakesNotification(cl) PROVE [Feed!Next]_(Feed!vars)
      BY Zenon, <2>1, NotificationTells DEF Feed!Next
    <2>a. ASSUME NEW D \in SUBSET Ep, RemovalHangs(cl, D)
          PROVE  [Feed!Next]_(Feed!vars)
      BY Zenon, <2>a, HangDrops DEF Feed!Next
    <2>2. ASSUME TakesTrigger(cl) \/ TimerArms(cl) PROVE Same
      BY Zenon, <2>2 DEF TakesTrigger, TimerArms, cache, main, OwedNotes
    <2>3. ASSUME NEW k \in {"armed", "orphan"}, TimerFires(cl, k) PROVE Same
      BY Zenon, <2>3 DEF TimerFires, cache, main, OwedNotes
    <2> QED
      BY Zenon, <1>1, <1>7, <2>1, <2>a, <2>2, <2>3 DEF ClusterStep, Notified
  <1> QED
    BY Zenon, <1>1, <1>2, <1>3, <1>4, <1>5, <1>6, <1>7, NextCases

\* What the service does towards the cache is what the cache implements: it
\* sees the cache's connections only through notifications.
THEOREM ServiceImplementsFeed == Spec => ImplementsFeed
  <1>1. Init => Feed!Init
    BY DEF Init, Feed!Init, Feed!Zeros
  <1> QED
    BY <1>1, FeedStep, Invariance, PTL DEF Spec, ImplementsFeed, Feed!Spec
============================================================================

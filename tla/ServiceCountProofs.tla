------------------------ MODULE ServiceCountProofs -------------------------
(* Module Service: no handleChannel goroutine is ever left without a       *)
(* multiplexer.  The counts of both are compared step by step.             *)
EXTENDS ServiceProofs, FiniteSetTheorems

\* The senders of a connection are finitely many.
LEMMA SendersFinite ==
    ASSUME NEW c PROVE IsFiniteSet(Senders(c)) /\ Cardinality(Senders(c)) \in Nat
  <1>1. IsFiniteSet(Slot)
    BY Bounds, FS_Interval DEF Slot
  <1>2. Senders(c) \subseteq Slot
    BY Zenon DEF Senders
  <1> QED
    BY Zenon, <1>1, <1>2, FS_Subset, FS_CardinalityType

\* No sender more, no receiver less.
LEMMA CountKept ==
    ASSUME NEW c, Receivers(c) \in Nat, Receivers(c)' \in Nat,
           Cardinality(Senders(c)) <= Receivers(c),
           Senders(c)' \subseteq Senders(c), Receivers(c) <= Receivers(c)'
    PROVE  Cardinality(Senders(c)') <= Receivers(c)'
  <1> DEFINE S == Senders(c)
             T == Senders(c)'
  <1>1. IsFiniteSet(S) /\ Cardinality(S) \in Nat
    BY Zenon, SendersFinite
  <1> HIDE DEF S, T
  <1>2. Cardinality(T) <= Cardinality(S) /\ Cardinality(T) \in Nat
    BY Zenon, <1>1, FS_Subset, FS_CardinalityType DEF S, T
  <1> QED
    BY <1>1, <1>2 DEF S, T

\* The multiplexers of a connection are counted by naturals.
LEMMA ReceiversNat ==
    ASSUME TypeOK, TypeOK', NEW d \in Conn
    PROVE  /\ mux[d] \in [MuxState -> Nat] /\ mux'[d] \in [MuxState -> Nat]
           /\ mux[d]["idle"] \in Nat /\ mux[d]["aen"] \in Nat
           /\ Receivers(d) \in Nat /\ Receivers(d)' \in Nat
  <1>1. mux[d] \in [MuxState -> Nat] /\ mux'[d] \in [MuxState -> Nat]
    BY Zenon DEF TypeOK, MuxType
  <1>2. /\ mux[d]["idle"] \in Nat /\ mux[d]["aen"] \in Nat
        /\ mux'[d]["idle"] \in Nat /\ mux'[d]["aen"] \in Nat
    BY Zenon, <1>1 DEF MuxState, Kind
  <1> QED
    BY <1>1, <1>2 DEF Receivers

\* A handler that moves on does not become a sender.
LEMMA SendersShrink ==
    ASSUME NEW z, Follows(sess, sess', z), Served(sess, sess'), NEW c
    PROVE  Senders(c)' \subseteq Senders(c)
  <1> SUFFICES ASSUME NEW s \in Slot, sess'[s].h \in Active, sess'[sess'[s].of].conn = c
               PROVE  sess[s].h \in Active /\ sess[sess[s].of].conn = c
    BY Zenon DEF Senders, Active
  <1>1. sess[s].h \in Active /\ sess'[s].of = sess[s].of
    BY Zenon DEF Served
  <1>2. sess'[s].of \in Slot /\ sess'[sess'[s].of].h # "unused"
    BY Zenon DEF Follows, Serves
  <1>3. sess'[sess'[s].of].conn = sess[sess'[s].of].conn
    BY Zenon, <1>2 DEF Follows
  <1> QED
    BY Zenon, <1>1, <1>3

\* The multiplexers after one of them has taken an event of kind k.
Taken(m, k) == [m EXCEPT !["idle"] = @ - 1, ![k] = @ + 1]

\* A multiplexer that takes an event goes from waiting to forwarding it.
LEMMA TakenCounts ==
    ASSUME NEW m \in [MuxState -> Nat], NEW k \in Kind
    PROVE  /\ Taken(m, k)["idle"] = m["idle"] - 1
           /\ k = "aen" => Taken(m, k)["aen"] = m["aen"] + 1
           /\ k = "ka" => Taken(m, k)["aen"] = m["aen"]
  <1>1. "idle" \in MuxState /\ k \in MuxState /\ "aen" \in MuxState /\ k # "idle"
    BY Zenon DEF MuxState, Kind
  <1>2. \A j \in MuxState :
           Taken(m, k)[j] = IF j = k THEN m[j] + 1
                            ELSE IF j = "idle" THEN m[j] - 1 ELSE m[j]
    BY Zenon, <1>1 DEF Taken
  <1> QED
    BY Zenon, <1>1, <1>2

\* A handler that sends its keep-alive event takes one multiplexer with it.
LEMMA SendsCount ==
    ASSUME IInv, TypeOK', EverySenderHasReceiver, NEW s \in Slot, HandlerSends(s)
    PROVE  EverySenderHasReceiver'
  <1>1. PICK c \in Conn, k \in Kind :
            c = sess[sess[s].of].conn /\ k = sess[s].h /\ UNCHANGED <<stopped, stray>>
    BY Zenon, ServesConn DEF HandlerSends, IInv, Active, Kind
  <1>2. \A d \in Conn : /\ mux[d] \in [MuxState -> Nat]
                        /\ mux[d]["idle"] \in Nat /\ mux[d]["aen"] \in Nat
                        /\ Receivers(d) \in Nat /\ Receivers(d)' \in Nat
    BY Zenon, ReceiversNat DEF IInv
  <1>3. \A d \in Conn : Senders(d)' \subseteq Senders(d)
    BY Zenon, SendFollows, SendersShrink DEF IInv
  <1>4. CASE c \in stopped
    <2>1. mux' = mux
      BY Zenon, <1>1, <1>4 DEF HandlerSends
    <2>2. \A d \in Conn : Receivers(d) <= Receivers(d)'
      BY <1>2, <2>1 DEF Receivers
    <2> QED
      BY SMTT(30), <1>1, <1>2, <1>3, <2>2, CountKept DEF EverySenderHasReceiver
  <1>5. CASE c \notin stopped
    <2>1. /\ mux[c]["idle"] > 0
          /\ mux' = [mux EXCEPT ![c]["idle"] = @ - 1, ![c][k] = @ + 1]
          /\ sess' = Tidy([sess EXCEPT ![s].h = IF k = "ka" THEN "done" ELSE "select"])
      BY ZenonT(30), <1>1, <1>5 DEF HandlerSends
    <2>2. \A d \in Conn : d # c => mux'[d] = mux[d]
      <3>1. mux \in [Conn -> [MuxState -> Nat]]
        BY Zenon DEF IInv, TypeOK, MuxType
      <3> QED
        BY Zenon, <2>1, <3>1
    <2>3. mux'[c] = Taken(mux[c], k)
      BY Zenon, <1>1, <2>1 DEF IInv, TypeOK, MuxType, Taken
    <2>4. ASSUME NEW d \in Conn \ (stopped \cup stray), d # c
          PROVE  Cardinality(Senders(d)') <= Receivers(d)'
      <3>1. Receivers(d)' = Receivers(d)
        BY Zenon, <2>2, <2>4 DEF Receivers
      <3> QED
        BY <1>2, <1>3, <3>1, CountKept DEF EverySenderHasReceiver
    <2>5. CASE k = "aen"
      <3>1. Receivers(c)' = Receivers(c)
        <4>1. mux'[c]["idle"] = mux[c]["idle"] - 1 /\ mux'[c]["aen"] = mux[c]["aen"] + 1
          BY <1>2, <2>3, <2>5, TakenCounts
        <4>2. mux[c]["idle"] \in Nat /\ mux[c]["aen"] \in Nat
          BY Zenon, <1>2
        <4> QED
          BY <4>1, <4>2 DEF Receivers
      <3>2. c \notin stray => Cardinality(Senders(c)') <= Receivers(c)'
        BY SMTT(30), <1>1, <1>2, <1>3, <1>5, <3>1, CountKept DEF EverySenderHasReceiver
      <3> QED
        BY Zenon, <1>1, <2>4, <3>2 DEF EverySenderHasReceiver
    <2>6. CASE k = "ka"
      <3>1. Receivers(c)' = Receivers(c) - 1
        <4>1. mux'[c]["idle"] = mux[c]["idle"] - 1 /\ mux'[c]["aen"] = mux[c]["aen"]
          BY SMTT(30), <1>2, <2>3, <2>6, TakenCounts
        <4>2. mux[c]["idle"] \in Nat /\ mux[c]["aen"] \in Nat
          BY Zenon, <1>2
        <4> QED
          BY SMTT(30), <4>1, <4>2 DEF Receivers
      <3>2. s \in Senders(c) /\ s \notin Senders(c)'
        <4>1. s \in Senders(c)
          BY Zenon, <1>1, <2>6 DEF Senders
        <4>2. sess'[s].h \in {"done", "unused"}
          <5> DEFINE f == [sess EXCEPT ![s].h = "done"]
          <5>1. Shifts(f, s, "done")
            BY Zenon, ShiftH DEF IInv
          <5>2. sess' = Tidy(f)
            BY Zenon, <2>1, <2>6
          <5> HIDE DEF f
          <5> QED
            BY Zenon, <5>1, <5>2, TidySlot, UnusedType DEF Shifts
        <4> QED
          BY Zenon, <4>1, <4>2 DEF Senders
      <3>z. CASE c \in stray
        BY Zenon, <1>1, <2>4, <3>z DEF EverySenderHasReceiver
      <3> SUFFICES ASSUME c \notin stray PROVE EverySenderHasReceiver'
        BY Zenon, <3>z
      <3> DEFINE S == Senders(c)
                 T == Senders(c)'
      <3>3. IsFiniteSet(S) /\ Cardinality(S) \in Nat /\ Cardinality(S) <= Receivers(c)
        BY SMTT(30), <1>1, <1>5, SendersFinite DEF EverySenderHasReceiver
      <3>4. T \subseteq S \ {s} /\ s \in S
        BY SMTT(30), <1>1, <1>3, <3>2
      <3> HIDE DEF S, T
      <3>5. IsFiniteSet(S \ {s}) /\ Cardinality(S \ {s}) = Cardinality(S) - 1
        BY SMTT(30), <3>3, <3>4, FS_RemoveElement
      <3>6. Cardinality(T) <= Cardinality(S \ {s}) /\ Cardinality(T) \in Nat
        BY SMTT(30), <3>4, <3>5, FS_Subset, FS_CardinalityType
      <3>7. Cardinality(T) <= Receivers(c)'
        BY SMTT(30), <1>1, <1>2, <3>1, <3>3, <3>5, <3>6
      <3> QED
        BY SMTT(30), <1>1, <2>4, <3>7 DEF T, EverySenderHasReceiver
    <2> QED
      BY SMTT(30), <1>1, <2>5, <2>6 DEF Kind
  <1> QED
    BY SMTT(30), <1>4, <1>5

\* A successful reconnect starts one handler and one multiplexer.
LEMMA DiscoverCount ==
    ASSUME IInv, TypeOK', EverySenderHasReceiver,
           NEW c \in untried, DiscoverSucceeds(c)
    PROVE  EverySenderHasReceiver'
  <1>1. PICK b \in Conn : b = c
    BY Zenon DEF IInv, TypeOK, LoopType
  <1>2. \A d \in Conn : /\ mux[d] \in [MuxState -> Nat]
                        /\ mux[d]["idle"] \in Nat /\ mux[d]["aen"] \in Nat
                        /\ Receivers(d) \in Nat /\ Receivers(d)' \in Nat
    BY Zenon, ReceiversNat DEF IInv
  <1>3. /\ stopped' = stopped /\ NewClient(b) /\ stray' = stray
        /\ mux' = [mux EXCEPT ![b]["idle"] = @ + 1]
    BY Zenon, <1>1 DEF DiscoverSucceeds, NewClient
  <1>4. /\ \A d \in Conn : d # b => Receivers(d)' = Receivers(d)
        /\ Receivers(b)' = Receivers(b) + 1
    <2>1. mux \in [Conn -> [MuxState -> Nat]]
      BY Zenon DEF IInv, TypeOK, MuxType
    <2>2. \A d \in Conn : d # b => mux'[d] = mux[d]
      BY Zenon, <1>3, <2>1
    <2>3. mux'[b]["idle"] = mux[b]["idle"] + 1 /\ mux'[b]["aen"] = mux[b]["aen"]
      BY SMTT(30), <1>3, <2>1 DEF MuxState, Kind
    <2> QED
      BY SMTT(30), <1>2, <2>2, <2>3 DEF Receivers
  <1> DEFINE old == AfterStop(sess, AddrOfConn(b))
  <1>a. PICK x \in Slot : NewIn(b, x, old)
    BY Zenon, <1>3, NewClientStep DEF IInv
  <1>b. Follows(sess, old, tbl[AddrOfConn(b)]) /\ Served(sess, old)
    BY Zenon, AddrType, StopFollows DEF IInv
  <1> HIDE DEF old
  <1>5. ASSUME NEW y \in Slot, NEW d, y \in Senders(d)', y # x
        PROVE  y \in Senders(d)
    <2>1. old[y].h \in Active /\ sess'[old[y].of].conn = d
      BY Zenon, <1>5, <1>a DEF NewIn, Senders, Active
    <2>2. /\ old[y].of \in Slot /\ old[old[y].of].h # "unused"
          /\ sess[y].h \in Active /\ old[y].of = sess[y].of
      BY Zenon, <1>b, <2>1 DEF Follows, Serves, Served
    <2>3. old[y].of # x
      BY Zenon, <1>a, <2>2 DEF NewIn
    <2>4. sess'[old[y].of].conn = old[old[y].of].conn
      BY Zenon, <1>a, <2>2, <2>3 DEF NewIn
    <2>5. old[old[y].of].conn = sess[old[y].of].conn
      BY Zenon, <1>b, <2>2 DEF Follows
    <2> QED
      BY Zenon, <2>1, <2>2, <2>4, <2>5 DEF Senders, Active
  <1>c. \A d : x \in Senders(d)' => d = b
    BY Zenon, <1>a DEF NewIn, Senders
  <1>6. ASSUME NEW d \in Conn \ (stopped \cup stray), d # b
        PROVE  Cardinality(Senders(d)') <= Receivers(d)'
    <2>1. Senders(d)' \subseteq Senders(d)
      <3>1. Senders(d)' \subseteq Slot
        BY Zenon DEF Senders
      <3> QED
        BY Zenon, <1>5, <1>6, <1>c, <3>1
    <2> QED
      BY SMTT(30), <1>2, <1>4, <1>6, <2>1, CountKept DEF EverySenderHasReceiver
  <1>7. ASSUME b \notin stopped \cup stray
        PROVE  Cardinality(Senders(b)') <= Receivers(b)'
    <2> DEFINE S == Senders(b)
               T == Senders(b)'
    <2>1. T \subseteq S \cup {x}
      <3>1. T \subseteq Slot
        BY Zenon DEF Senders
      <3> QED
        BY Zenon, <1>5, <3>1
    <2>2. IsFiniteSet(S) /\ Cardinality(S) \in Nat /\ Cardinality(S) <= Receivers(b)
      BY Zenon, <1>7, SendersFinite DEF EverySenderHasReceiver
    <2> HIDE DEF S, T
    <2>3. /\ IsFiniteSet(S \cup {x}) /\ Cardinality(S \cup {x}) \in Nat
          /\ Cardinality(S \cup {x}) <= Cardinality(S) + 1
      <3>1. CASE x \in S
        <4>1. S \cup {x} = S
          BY Zenon, <3>1
        <4>2. /\ IsFiniteSet(S \cup {x}) /\ Cardinality(S \cup {x}) \in Nat
              /\ Cardinality(S \cup {x}) = Cardinality(S)
          BY <2>2, <4>1, Zenon
        <4> QED
          BY <4>2
      <3>2. CASE x \notin S
        <4>1. /\ IsFiniteSet(S \cup {x})
              /\ Cardinality(S \cup {x}) = Cardinality(S) + 1
          BY SMTT(30), <2>2, <3>2, FS_AddElement
        <4> QED
          BY <2>2, <4>1
      <3> QED
        BY Zenon, <3>1, <3>2
    <2>4. Cardinality(T) <= Cardinality(S \cup {x}) /\ Cardinality(T) \in Nat
      BY SMTT(30), <2>1, <2>3, FS_Subset, FS_CardinalityType
    <2>5. Cardinality(T) <= Receivers(b) + 1
      BY SMTT(30), <1>2, <2>2, <2>3, <2>4
    <2> QED
      BY SMTT(30), <1>4, <2>5 DEF T
  <1> QED
    BY SMTT(30), <1>3, <1>6, <1>7 DEF EverySenderHasReceiver

\* The steps that add no sender and take no receiver.
LEMMA OtherCount ==
    ASSUME IInv, TypeOK', EverySenderHasReceiver, stopped \subseteq stopped',
           stray \subseteq stray',
           \A c \in Conn \ stopped' : Receivers(c) <= Receivers(c)',
           \A c \in Conn \ stray' : Senders(c)' \subseteq Senders(c)
    PROVE  EverySenderHasReceiver'
  <1>1. \A c \in Conn : Receivers(c) \in Nat /\ Receivers(c)' \in Nat
    BY Zenon, ReceiversNat DEF IInv
  <1> QED
    BY Zenon, <1>1, CountKept DEF EverySenderHasReceiver

\* Senders are told by the clients alone.
LEMMA SameSess ==
    ASSUME sess' = sess, NEW c PROVE Senders(c)' \subseteq Senders(c)
  BY Zenon DEF Senders

\* Receivers are told by the multiplexers alone.
LEMMA SameMux ==
    ASSUME IInv, mux' = mux
    PROVE  \A c \in Conn : Receivers(c) <= Receivers(c)'
  <1> SUFFICES ASSUME NEW c \in Conn PROVE Receivers(c) <= Receivers(c)'
    OBVIOUS
  <1>1. mux[c] \in [MuxState -> Nat]
    BY Zenon DEF IInv, TypeOK, MuxType
  <1>2. mux[c]["idle"] \in Nat /\ mux[c]["aen"] \in Nat
    BY Zenon, <1>1 DEF MuxState, Kind
  <1> QED
    BY <1>2 DEF Receivers

\* A multiplexer that forwards an event goes on; the one that forwards a
\* keep-alive event was no receiver any more.
LEMMA ForwardCount ==
    ASSUME IInv, TypeOK', EverySenderHasReceiver,
           NEW c \in Conn, NEW k \in Kind, MuxForwards(c, k)
    PROVE  EverySenderHasReceiver'
  <1>1. /\ stopped' = stopped /\ sess' = sess /\ stray' = stray /\ mux[c][k] > 0
        /\ mux' = [mux EXCEPT ![c][k] = @ - 1,
                              ![c]["idle"] = IF k = "aen" THEN @ + 1 ELSE @]
    BY Zenon DEF MuxForwards, host
  <1>2. mux \in [Conn -> [MuxState -> Nat]]
    BY Zenon DEF IInv, TypeOK, MuxType
  <1>3. \A d \in Conn : d # c => mux'[d] = mux[d]
    BY Zenon, <1>1, <1>2
  <1>4. /\ mux[c]["idle"] \in Nat /\ mux[c]["aen"] \in Nat
        /\ k \in MuxState /\ k # "idle" /\ "idle" \in MuxState /\ "aen" \in MuxState
    BY Zenon, <1>2 DEF MuxState, Kind
  <1>5. mux'[c]["idle"] + mux'[c]["aen"] = mux[c]["idle"] + mux[c]["aen"]
    <2>1. CASE k = "aen"
      BY SMTT(30), <1>1, <1>2, <1>4, <2>1
    <2>2. CASE k # "aen"
      BY SMTT(30), <1>1, <1>2, <1>4, <2>2
    <2> QED
      BY SMTT(30), <2>1, <2>2
  <1>6. ASSUME NEW d \in Conn PROVE Receivers(d) <= Receivers(d)'
    <2>1. Receivers(d) \in Nat
      BY SMTT(30), ReceiversNat DEF IInv
    <2>2. Receivers(d)' = Receivers(d)
      BY SMTT(30), <1>3, <1>5 DEF Receivers
    <2> QED
      BY SMTT(30), <2>1, <2>2
  <1> QED
    BY SMTT(30), <1>1, <1>6, SameSess, OtherCount

\* A multiplexer that takes the event of the main loop stays a receiver.
LEMMA PushCount ==
    ASSUME IInv, TypeOK', EverySenderHasReceiver, PushesAen
    PROVE  EverySenderHasReceiver'
  <1>1. PICK c \in Conn : c = live
    BY Zenon DEF PushesAen, IInv, Control
  <1>2. /\ stopped' = stopped /\ sess' = sess /\ stray' = stray
        /\ mux' = [mux EXCEPT ![c]["idle"] = @ - 1, ![c]["aen"] = @ + 1]
    BY Zenon, <1>1 DEF PushesAen, host
  <1>3. mux \in [Conn -> [MuxState -> Nat]] /\ "aen" \in Kind
    BY Zenon DEF IInv, TypeOK, MuxType, Kind
  <1>4. \A d \in Conn : d # c => mux'[d] = mux[d]
    BY Zenon, <1>2, <1>3
  <1>5. mux'[c] = Taken(mux[c], "aen")
    BY SMTT(30), <1>2, <1>3 DEF Taken
  <1>6. /\ mux'[c]["idle"] = mux[c]["idle"] - 1 /\ mux'[c]["aen"] = mux[c]["aen"] + 1
        /\ mux[c]["idle"] \in Nat /\ mux[c]["aen"] \in Nat
    BY SMTT(30), <1>3, <1>5, TakenCounts, ReceiversNat DEF IInv
  <1>7. ASSUME NEW d \in Conn PROVE Receivers(d) <= Receivers(d)'
    <2>1. Receivers(d) \in Nat
      BY SMTT(30), ReceiversNat DEF IInv
    <2>2. Receivers(d)' = Receivers(d)
      BY <1>4, <1>6 DEF Receivers
    <2> QED
      BY <2>1, <2>2
  <1> QED
    BY SMTT(30), <1>2, <1>7, SameSess, OtherCount

\* A handler that looks up its client serves that of its own object, or one
\* whose object is a stray from now on.
LEMMA StartsCount ==
    ASSUME IInv, TypeOK', EverySenderHasReceiver, NEW s \in Slot, HandlerStarts(s)
    PROVE  EverySenderHasReceiver'
  <1>1. PICK t \in Slot :
           /\ sess' = [sess EXCEPT ![s].h = "select", ![s].of = t]
           /\ stray' = IF sess[t].conn = sess[s].conn THEN stray
                                                      ELSE stray \cup {sess[t].conn}
    BY Zenon DEF HandlerStarts
  <1>2. /\ sess[s].h = "start" /\ sess[s].of = s /\ sess \in [Slot -> SessRec]
        /\ UNCHANGED <<stopped, mux>>
    BY Zenon DEF HandlerStarts, IInv, TypeOK, HostType, Clients, Serves, Active
  <1>3. /\ \A x \in Slot : sess'[x].conn = sess[x].conn
        /\ sess'[s].of = t /\ \A x \in Slot : x # s => sess'[x] = sess[x]
    BY ZenonT(30), <1>1, <1>2 DEF SessRec
  <1>4. ASSUME NEW d \in Conn \ stray', NEW x \in Senders(d)' PROVE x \in Senders(d)
    <2>0. x \in Slot
      BY Zenon DEF Senders
    <2>1. CASE x = s
      <3>1. d = sess[t].conn
        BY Zenon, <1>3, <2>1 DEF Senders
      <3>2. sess[s].conn = d
        BY Zenon, <1>1, <1>4, <3>1
      <3> QED
        BY Zenon, <1>2, <2>1, <3>2 DEF Senders
    <2>2. CASE x # s
      <3>1. sess'[x] = sess[x]
        BY Zenon, <1>3, <2>0, <2>2
      <3>2. sess[x].h \in Active /\ sess'[sess[x].of].conn = d
        BY Zenon, <3>1 DEF Senders, Active
      <3>3. sess[x].of \in Slot
        BY Zenon, <2>0, <3>2, ServesConn DEF IInv
      <3>4. sess[sess[x].of].conn = d
        BY Zenon, <1>3, <3>2, <3>3
      <3> QED
        BY Zenon, <2>0, <3>2, <3>4 DEF Senders, Active
    <2> QED
      BY Zenon, <2>1, <2>2
  <1>5. stray \subseteq stray'
    BY Zenon, <1>1
  <1> QED
    BY Zenon, <1>2, <1>4, <1>5, SameMux, OtherCount

\* Each step keeps the senders within the receivers.
LEMMA CountStep ==
    ASSUME IInv, TypeOK', EverySenderHasReceiver, Next
    PROVE  EverySenderHasReceiver'
  <1>1. ASSUME stopped \subseteq stopped', UNCHANGED <<mux, stray>>, NEW z,
               Follows(sess, sess', z), Served(sess, sess')
        PROVE  EverySenderHasReceiver'
    BY Zenon, <1>1, SameMux, SendersShrink, OtherCount
  <1>2. ASSUME stopped' = stopped, UNCHANGED <<mux, stray, sess>>
        PROVE  EverySenderHasReceiver'
    BY Zenon, <1>2, SameMux, SameSess, OtherCount
  <1>3. CASE Environment
    <2>1. ASSUME NEW s \in Slot, ServerSendsAen(s) PROVE EverySenderHasReceiver'
      BY Zenon, <1>1, <2>1, EventFollows DEF ServerSendsAen, IInv
    <2> QED
      BY Zenon, <1>2, <1>3, <2>1 DEF Environment, FileAdded, ServerFlaps, host
  <1>4. CASE Reconnects
    <2>1. ASSUME NEW c \in untried, DiscoverFails(c) PROVE EverySenderHasReceiver'
      BY Zenon, <1>2, <2>1 DEF DiscoverFails, host
    <2>2. CASE PushTimesOut
      BY Zenon, <1>2, <2>2 DEF PushTimesOut, host
    <2>3. ASSUME NEW c \in untried, DiscoverHangs(c) PROVE EverySenderHasReceiver'
      <3>1. AddrOfConn(c) \in Addr
        BY Zenon, AddrType DEF IInv, TypeOK, LoopType
      <3> QED
        BY Zenon, <1>1, <2>3, <3>1, DisconnectFollows DEF DiscoverHangs, IInv
    <2> QED
      BY Zenon, <1>4, <2>1, <2>2, <2>3, DiscoverCount, PushCount DEF Reconnects
  <1>5. CASE TakesAggregate
    BY Zenon, <1>2, <1>5 DEF TakesAggregate, TakesAen, TakesAenFails, TakesAenHangs,
       TakesKeepAliveLoss, host
  <1>6. CASE Goroutines
    <2>1. ASSUME NEW s \in Slot, KeepAliveFails(s) PROVE EverySenderHasReceiver'
      BY Zenon, <1>1, <2>1, LossFollows DEF KeepAliveFails, IInv
    <2>2. ASSUME NEW s \in Slot, HandlerFindsNone(s) PROVE EverySenderHasReceiver'
      BY Zenon, <1>2, <2>2 DEF HandlerFindsNone, host
    <2>3. ASSUME NEW s \in Slot, HandlerSelects(s) PROVE EverySenderHasReceiver'
      BY Zenon, <1>1, <2>3, SelectFollows DEF HandlerSelects, IInv
    <2>4. ASSUME NEW c \in Conn, MuxReturns(c) PROVE EverySenderHasReceiver'
      <3>1. /\ c \in stopped /\ UNCHANGED <<stopped, stray, sess>>
            /\ mux' = [mux EXCEPT ![c]["idle"] = @ - 1]
        BY Zenon, <2>4 DEF MuxReturns, host
      <3>2. ASSUME NEW d \in Conn \ stopped PROVE Receivers(d) <= Receivers(d)'
        <4>1. mux'[d] = mux[d]
          BY SMTT(30), <3>1, <3>2 DEF IInv, TypeOK, MuxType
        <4>2. Receivers(d)' = Receivers(d) /\ Receivers(d) \in Nat
          BY SMTT(30), <4>1, ReceiversNat DEF Receivers, IInv
        <4> QED
          BY <4>2
      <3> QED
        BY Zenon, <3>1, <3>2, SameSess, OtherCount
    <2> QED
      BY Zenon, <1>6, <2>1, <2>2, <2>3, <2>4, StartsCount, SendsCount, ForwardCount
      DEF Goroutines, Handler
  <1>7. ASSUME NEW cl \in Cluster, ClusterStep(cl) PROVE EverySenderHasReceiver'
    <2>1. CASE TakesNotification(cl)
      <3>1. stopped \subseteq stopped' /\ UNCHANGED <<mux, stray>>
        BY Zenon, <2>1 DEF TakesNotification, host
      <3>2. CASE sess' = sess
        BY Zenon, <1>1, <3>1, <3>2, FollowsSame DEF IInv
      <3>3. ASSUME NEW e \in Known(cl), Disconnects(AddrOf[e])
            PROVE  EverySenderHasReceiver'
        BY Zenon, <1>1, <3>1, <3>3, KnownAddr, DisconnectFollows DEF IInv
      <3> QED
        BY Zenon, <2>1, <3>2, <3>3 DEF TakesNotification, host
    <2>2. ASSUME NEW D \in SUBSET Ep, RemovalHangs(cl, D) PROVE EverySenderHasReceiver'
      <3>1. stopped \subseteq stopped' /\ UNCHANGED <<mux, stray>>
        BY Zenon, <2>2 DEF RemovalHangs
      <3>2. PICK e \in Known(cl) : Disconnects(AddrOf[e])
        BY Zenon, <2>2 DEF RemovalHangs
      <3> QED
        BY Zenon, <1>1, <3>1, <3>2, KnownAddr, DisconnectFollows DEF IInv
    <2> QED
      BY Zenon, <1>2, <1>7, <2>1, <2>2 DEF ClusterStep, Notified, TakesTrigger,
         TimerArms, TimerFires, host
  <1> QED
    BY Zenon, <1>3, <1>4, <1>5, <1>6, <1>7, NextCases

\* However often a cluster is reconnected and its connections are dropped, no
\* handleChannel goroutine of an open connection waits for a multiplexer that
\* has returned.
THEOREM SendersHaveReceivers == Spec => []EverySenderHasReceiver
  <1>1. Init => EverySenderHasReceiver
    <2> SUFFICES ASSUME Init, NEW c \in Conn
                 PROVE  Cardinality(Senders(c)) <= Receivers(c)
      BY Zenon DEF EverySenderHasReceiver
    <2>1. Senders(c) = {}
      BY Zenon DEF Init, Senders, Unused
    <2>2. Receivers(c) = 0
      BY DEF Init, Receivers, MuxState, Kind
    <2> QED
      BY <2>1, <2>2, FS_EmptySet
  <1>2. IInv /\ IInv' /\ EverySenderHasReceiver /\ [Next]_vars
            => EverySenderHasReceiver'
    <2> SUFFICES ASSUME IInv, IInv', EverySenderHasReceiver, [Next]_vars
                 PROVE  EverySenderHasReceiver'
      OBVIOUS
    <2>1. CASE UNCHANGED vars
      BY Zenon, <2>1, SameMux, SameSess, OtherCount DEF vars, host, IInv
    <2> QED
      BY Zenon, <2>1, CountStep DEF IInv
  <1> QED
    BY <1>1, <1>2, Invariance, PTL DEF Spec
============================================================================

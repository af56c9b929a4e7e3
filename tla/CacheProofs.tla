---------------------------- MODULE CacheProofs ----------------------------
(* Proofs about module Cache, for every set of keys, pairs and files,      *)
(* every number of changes, referrals and crashes.                         *)
EXTENDS Cache, SequenceTheorems, WellFoundedInduction, TLAPS

----------------------------------------------------------------------------
(* The inductive invariant *)

\* A list that addEntry and deleteEntry can have made: no key twice, and no
\* referral without a CtrlLossTMO that could have inherited one.
Distinct(es) == \A i, j \in DOMAIN es : es[i].key = es[j].key => i = j
HasTmo(e) == e.source = "user" /\ e.tmo # NoTmo
Inherited(es) ==
    \A i, j \in DOMAIN es :
        es[j].source = "referral" /\ es[j].tmo = NoTmo /\ HasTmo(es[i]) => j < i
GoodList(es) == es \in Seq(Entry) /\ Distinct(es) /\ Inherited(es)

\* The list, the copies that are about to be saved and the saved one.
Lists ==
    /\ GoodList(entries) /\ GoodList(wsnap.entries) /\ GoodList(hsnap.entries)
    /\ json # NoJson => GoodList(json.entries)

\* Connections are those of the entries, with ids not given to others before.
Numbered ==
    /\ EntriesMatchConnections
    /\ nextConn > 0 /\ \A k \in Key : conns[k].id < nextConn

\* What the place of the worker says.
WorkerPlace ==
    /\ wpc # "adding" => fpairs = {} /\ wtodo = {}
    /\ mode \notin {"syncFiles", "up"} => wpc = "idle"
    /\ mode = "down" => entries = <<>>

\* What the place of HandleReferrals says: referrals are of its pair, and
\* those it has gone through are listed.
HandlerPlace ==
    /\ hpc # "idle" => mode = "up" /\ hrefs \subseteq KeysOf(hpair)
    /\ hpc = "idle" => ~hchanged
    /\ hpc = "rename" => hchanged
    /\ hpc = "add" => htodo \subseteq hrefs /\ hrefs \ htodo \subseteq Keys(entries)
    /\ hpc # "add" => htodo = {}
    /\ hpc # "delete" => hdel = {}
    /\ ReferralsKept

\* While sync reads the saved list, what it has added and what it has still
\* to add are that list.
Restoring ==
    mode = "syncJson" => json # NoJson /\ entries \o jleft = json.entries

IInv ==
    TypeOK /\ Lists /\ Numbered /\ WorkerPlace /\ HandlerPlace /\ Restoring

\* The entries that fileAdded and addConnectionsFromReferrals add.
FromFile(l) == [key |-> l.key, source |-> "user", tmo |-> l.tmo]
FromReferral(k) == [key |-> k, source |-> "referral", tmo |-> NoTmo]

----------------------------------------------------------------------------
(* Lists *)

\* The empty list is a good list.
LEMMA EmptyList == GoodList(<<>>)
  BY DEF GoodList, Distinct, Inherited

\* Nothing to save, and the pair that stands for none.
LEMMA NothingSaved == NoSnap \in Saved /\ NoPair \in Pair
  <1>1. <<>> \in Seq(Entry) /\ NoPair \in Pair
    BY ConstantsOK DEF NoPair
  <1> QED
    BY Zenon, <1>1 DEF NoSnap, Saved

\* The highest number given before the next one.
LEMMA OneLess ==
    \A a, b \in Nat : a > 0 /\ b > 0 /\ b >= a => a > a - 1 /\ b - 1 >= a - 1 /\ b - 1 \in Nat
  OBVIOUS

\* What makes a step a change of the feed.
LEMMA MakesChange ==
    ASSUME NEW p \in Pair, Owed' = Owed \cup {p}, svc' = svc,
           nextConn \in Nat, nextConn > 0, nextConn' \in Nat, nextConn' > 0,
           nextConn' >= nextConn,
           \A k \in Key : conns'[k].id \in Nat /\ conns'[k].id < nextConn',
           \A k \in Key : \/ conns'[k].id = conns[k].id
                          \/ PairOf[k] = p /\ conns'[k].id \in {0, nextConn}
    PROVE  Feed!Change(p)
  <1>1. /\ nextConn > nextConn - 1 /\ nextConn' - 1 >= nextConn - 1
        /\ nextConn' - 1 \in Nat
    BY Zenon, OneLess
  <1>2. \A k \in Key : nextConn' - 1 >= conns'[k].id
    OBVIOUS
  <1> DEFINE Have == [k \in Key |-> conns[k].id]
             Last == [k \in Key |-> nextConn - 1]
  <1>3. Have' \in [Key -> Nat] /\ Last' \in [Key -> Nat]
    BY Zenon, <1>1
  <1>4. \A k \in Key : /\ Have[k] = conns[k].id /\ Have'[k] = conns'[k].id
                       /\ Last[k] = nextConn - 1 /\ Last'[k] = nextConn' - 1
    OBVIOUS
  <1> HIDE DEF Have, Last
  <1>5. \A k \in Key : \/ Have'[k] = Have[k]
                       \/ PairOf[k] = p /\ (Have'[k] = 0 \/ Have'[k] > Last[k])
    BY Zenon, <1>1, <1>4
  <1>6. \A k \in Key : Last'[k] >= Last[k] /\ Last'[k] >= Have'[k]
    BY Zenon, <1>1, <1>2, <1>4
  <1> QED
    BY Zenon, <1>3, <1>5, <1>6 DEF Feed!Change, Have, Last

\* The keys of a list that an entry is added to.
LEMMA KeysAppend ==
    ASSUME NEW es \in Seq(Entry), NEW e \in Entry
    PROVE  Keys(Append(es, e)) = Keys(es) \cup {e.key}
  <1>1. DOMAIN es = 1..Len(es) /\ DOMAIN Append(es, e) = 1..(Len(es) + 1)
    OBVIOUS
  <1>2. ASSUME NEW i \in 1..(Len(es) + 1)
        PROVE  Append(es, e)[i] = IF i <= Len(es) THEN es[i] ELSE e
    OBVIOUS
  <1>3. ASSUME NEW x \in Keys(Append(es, e)) PROVE x \in Keys(es) \cup {e.key}
    BY <1>1, <1>2 DEF Keys
  <1>4. ASSUME NEW x \in Keys(es) PROVE x \in Keys(Append(es, e))
    BY <1>1, <1>2 DEF Keys
  <1>5. e.key \in Keys(Append(es, e))
    <2>1. Append(es, e)[Len(es) + 1] = e /\ Len(es) + 1 \in 1..(Len(es) + 1)
      OBVIOUS
    <2> QED
      BY Zenon, <1>1, <2>1 DEF Keys
  <1> QED
    BY Zenon, <1>3, <1>4, <1>5

\* An entry with a new key, which has inherited what there was to inherit,
\* may be added to a good list.
LEMMA ListAppend ==
    ASSUME NEW es, GoodList(es), NEW e \in Entry, e.key \notin Keys(es),
           e.source = "referral" /\ e.tmo = NoTmo =>
               \A i \in DOMAIN es : ~HasTmo(es[i])
    PROVE  GoodList(Append(es, e))
  <1>1. es \in Seq(Entry) /\ Append(es, e) \in Seq(Entry)
    BY DEF GoodList
  <1>2. DOMAIN es = 1..Len(es) /\ DOMAIN Append(es, e) = 1..(Len(es) + 1)
    BY <1>1
  <1>3. ASSUME NEW i \in 1..(Len(es) + 1)
        PROVE  Append(es, e)[i] = IF i <= Len(es) THEN es[i] ELSE e
    BY <1>1
  <1>4. \A i \in 1..Len(es) : es[i].key # e.key
    BY Zenon, <1>2 DEF Keys
  <1>5. Distinct(Append(es, e))
    BY <1>1, <1>2, <1>3, <1>4 DEF GoodList, Distinct
  <1>6. ASSUME NEW i \in 1..(Len(es) + 1), NEW j \in 1..(Len(es) + 1),
               Append(es, e)[j].source = "referral", Append(es, e)[j].tmo = NoTmo,
               HasTmo(Append(es, e)[i])
        PROVE  j < i
    <2>1. CASE i <= Len(es) /\ j <= Len(es)
      BY <1>1, <1>2, <1>3, <1>6, <2>1 DEF GoodList, Inherited
    <2>2. CASE i <= Len(es) /\ j = Len(es) + 1
      BY <1>1, <1>2, <1>3, <1>6, <2>2
    <2>3. CASE i = Len(es) + 1
      BY <1>1, <1>2, <1>3, <1>6, <2>3 DEF HasTmo
    <2> QED
      BY <1>1, <2>1, <2>2, <2>3
  <1>7. Inherited(Append(es, e))
    BY Zenon, <1>2, <1>6 DEF Inherited
  <1> QED
    BY Zenon, <1>1, <1>5, <1>7 DEF GoodList

\* What Without leaves.
LEMMA WithoutProperties ==
    ASSUME NEW S, NEW s \in Seq(S), NEW i \in 1..Len(s)
    PROVE  /\ Without(s, i) \in Seq(S) /\ Len(Without(s, i)) = Len(s) - 1
           /\ \A j \in 1..(Len(s) - 1) :
                  Without(s, i)[j] = IF j < i THEN s[j] ELSE s[j + 1]
  <1> DEFINE a == SubSeq(s, 1, i - 1)
             b == SubSeq(s, i + 1, Len(s))
  <1>1. a \in Seq(S) /\ Len(a) = i - 1 /\ \A j \in 1..(i - 1) : a[j] = s[j]
    OBVIOUS
  <1>2. /\ b \in Seq(S) /\ Len(b) = Len(s) - i
        /\ \A j \in 1..(Len(s) - i) : b[j] = s[i + j]
    OBVIOUS
  <1>3. Without(s, i) = a \o b
    BY Zenon DEF Without
  <1> HIDE DEF a, b
  <1>4. a \o b \in Seq(S) /\ Len(a \o b) = Len(s) - 1
    <2>1. a \o b \in Seq(S) /\ Len(a \o b) = Len(a) + Len(b)
      BY Zenon, <1>1, <1>2, ConcatProperties
    <2> QED
      BY <1>1, <1>2, <2>1
  <1>5. ASSUME NEW j \in 1..(Len(s) - 1)
        PROVE  (a \o b)[j] = IF j < i THEN s[j] ELSE s[j + 1]
    <2>1. (a \o b)[j] = IF j <= Len(a) THEN a[j] ELSE b[j - Len(a)]
      BY <1>1, <1>2
    <2> QED
      BY <1>1, <1>2, <2>1
  <1> QED
    BY Zenon, <1>3, <1>4, <1>5

\* An entry may be removed from a good list, and its key goes with it.
LEMMA ListRemove ==
    ASSUME NEW es, GoodList(es), NEW i \in DOMAIN es
    PROVE  /\ GoodList(Without(es, i))
           /\ Keys(Without(es, i)) = Keys(es) \ {es[i].key}
  <1> DEFINE rs == Without(es, i)
             at(j) == IF j < i THEN j ELSE j + 1
  <1>1. es \in Seq(Entry) /\ i \in 1..Len(es) /\ DOMAIN es = 1..Len(es)
    BY DEF GoodList
  <1>2. rs \in Seq(Entry) /\ Len(rs) = Len(es) - 1 /\ DOMAIN rs = 1..(Len(es) - 1)
    <2>1. rs \in Seq(Entry) /\ Len(rs) = Len(es) - 1
      BY Zenon, <1>1, WithoutProperties
    <2> HIDE DEF rs
    <2> QED
      BY <2>1
  <1>3. ASSUME NEW j \in DOMAIN rs
        PROVE  at(j) \in DOMAIN es /\ at(j) # i /\ rs[j] = es[at(j)]
    <2>1. \A m \in 1..(Len(es) - 1) : rs[m] = IF m < i THEN es[m] ELSE es[m + 1]
      BY Zenon, <1>1, WithoutProperties
    <2> HIDE DEF rs
    <2> QED
      BY <1>1, <1>2, <2>1
  <1>4. ASSUME NEW m \in DOMAIN es, m # i
        PROVE  \E j \in DOMAIN rs : rs[j] = es[m]
    <2> DEFINE j == IF m < i THEN m ELSE m - 1
    <2>1. j \in DOMAIN rs /\ at(j) = m
      BY <1>1, <1>2, <1>4
    <2> QED
      BY Zenon, <1>3, <2>1
  <1>5. \A j, m \in DOMAIN rs : j # m => at(j) # at(m)
    BY <1>1, <1>2
  <1>6. \A j, m \in DOMAIN rs : at(j) < at(m) => j < m
    BY <1>1, <1>2
  <1> HIDE DEF at, rs
  <1>7. Distinct(rs)
    BY ZenonT(30), <1>3, <1>5 DEF GoodList, Distinct
  <1>8. Inherited(rs)
    BY ZenonT(30), <1>3, <1>6 DEF GoodList, Inherited
  <1>9. Keys(rs) = Keys(es) \ {es[i].key}
    <2>1. ASSUME NEW j \in DOMAIN rs PROVE rs[j].key \in Keys(es) \ {es[i].key}
      BY ZenonT(30), <1>3 DEF GoodList, Distinct, Keys
    <2>2. ASSUME NEW m \in DOMAIN es, es[m].key # es[i].key
          PROVE  es[m].key \in Keys(rs)
      BY Zenon, <1>4, <2>2 DEF Keys
    <2> QED
      BY Zenon, <2>1, <2>2 DEF Keys
  <1> QED
    BY Zenon, <1>2, <1>7, <1>8, <1>9 DEF GoodList, rs

----------------------------------------------------------------------------
(* addEntry and deleteEntry *)

\* A nonempty set of naturals has a least element.
LEMMA MinExists ==
    ASSUME NEW S \in SUBSET Nat, S # {} PROVE Min(S) \in S
  <1> DEFINE Less == {xy \in Nat \X Nat : xy[1] < xy[2]}
  <1>1. IsWellFoundedOn(Less, Nat)
    BY Zenon, NatLessThanWellFounded DEF OpToRel
  <1> HIDE DEF Less
  <1>2. PICK x \in S : \A y \in S : ~(<<y, x>> \in Less)
    BY Zenon, <1>1, WFMin
  <1>3. \A y \in S : x <= y
    <2>1. \A a, b \in Nat : a < b => <<a, b>> \in Less
      BY Zenon DEF Less
    <2>2. \A y \in S : ~(y < x)
      BY Zenon, <1>2, <2>1
    <2> QED
      BY <2>2
  <1> QED
    BY Zenon, <1>3 DEF Min

\* The fields of an entry.
LEMMA EntryFields ==
    \A e \in Entry : e.key \in Key /\ e.source \in Source /\ e.tmo \in TmoVal
  BY Zenon DEF Entry

\* A referral inherits a CtrlLossTMO if there is a user entry with one.
LEMMA InheritsTmo ==
    ASSUME entries \in Seq(Entry)
    PROVE  /\ InheritedTmo \in TmoVal
           /\ InheritedTmo = NoTmo => \A i \in DOMAIN entries : ~HasTmo(entries[i])
  <1> DEFINE S == {i \in DOMAIN entries :
                      entries[i].source = "user" /\ entries[i].tmo # NoTmo}
  <1>1. DOMAIN entries = 1..Len(entries) /\ S \subseteq Nat
    OBVIOUS
  <1>2. CASE S = {}
    BY Zenon, <1>2 DEF InheritedTmo, HasTmo, TmoVal
  <1>3. CASE S # {}
    <2>1. Min(S) \in S
      BY Zenon, <1>1, <1>3, MinExists
    <2>2. InheritedTmo = entries[Min(S)].tmo
      BY Zenon, <1>3 DEF InheritedTmo
    <2>3. \A i \in S : entries[i].tmo \in TmoVal /\ entries[i].tmo # NoTmo
      <3>1. \A i \in DOMAIN entries : entries[i] \in Entry
        OBVIOUS
      <3> QED
        BY Zenon, <3>1, EntryFields
    <2> HIDE DEF S
    <2> QED
      BY Zenon, <2>1, <2>2, <2>3
  <1> QED
    BY Zenon, <1>2, <1>3

\* What addEntry appends is an entry of the same key, and may be appended.
LEMMA EffectiveEntry ==
    ASSUME GoodList(entries), NEW e \in Entry
    PROVE  /\ Effective(e) \in Entry /\ Effective(e).key = e.key
           /\ e.key \notin Keys(entries) => GoodList(Append(entries, Effective(e)))
  <1>1. entries \in Seq(Entry)
    BY Zenon DEF GoodList
  <1>2. Effective(e) \in Entry /\ Effective(e).key = e.key
    BY Zenon, <1>1, InheritsTmo DEF Effective, Entry
  <1>3. Effective(e).source = "referral" /\ Effective(e).tmo = NoTmo =>
            \A i \in DOMAIN entries : ~HasTmo(entries[i])
    BY Zenon, <1>1, InheritsTmo DEF Effective, Entry
  <1> QED
    BY Zenon, <1>2, <1>3, ListAppend

\* The three variables of the list have their types.
ListType == entries \in Seq(Entry) /\ conns \in [Key -> Conn] /\ nextConn \in Nat

\* addEntry keeps list and connections in step; it changes at most the
\* connection of its key, which then has a new number.
LEMMA AddEntryKeeps ==
    ASSUME ListType, GoodList(entries), Numbered, NEW e \in Entry, addEntry(e)
    PROVE  /\ ListType' /\ GoodList(entries') /\ Numbered'
           /\ Keys(entries') = Keys(entries) \cup {e.key}
           /\ ~Mismatch(e) /\ (OpensConn(e) <=> e.key \notin Keys(entries))
           /\ nextConn' >= nextConn
           /\ \A k \in Key : \/ conns'[k].id = conns[k].id
                             \/ k = e.key /\ OpensConn(e) /\ conns'[k].id = nextConn
  <1>1. e.key \in Key /\ Effective(e) \in Entry /\ Effective(e).key = e.key
    BY Zenon, EffectiveEntry DEF Entry
  <1>2. e.key \notin Keys(entries) => conns[e.key].id = 0
    BY Zenon, <1>1 DEF Numbered, EntriesMatchConnections
  <1>3. ~Mismatch(e) /\ (OpensConn(e) <=> e.key \notin Keys(entries))
    BY Zenon, <1>2 DEF Mismatch, OpensConn, AddsEntry, existEntry
  <1>4. CASE e.key \in Keys(entries)
    <2>1. UNCHANGED <<entries, conns, nextConn>>
      BY Zenon, <1>3, <1>4 DEF addEntry, AddsEntry, existEntry
    <2> QED
      BY <1>3, <1>4, <2>1 DEF ListType, Numbered, EntriesMatchConnections, Keys
  <1>5. CASE e.key \notin Keys(entries)
    <2> DEFINE c == [id |-> nextConn, tmo |-> Effective(e).tmo]
    <2>1. /\ entries' = Append(entries, Effective(e)) /\ nextConn' = nextConn + 1
          /\ conns' = [conns EXCEPT ![e.key] = c]
      BY Zenon, <1>3, <1>5 DEF addEntry, AddsEntry, existEntry
    <2>2. GoodList(entries') /\ entries' \in Seq(Entry)
      BY Zenon, <1>5, <2>1, EffectiveEntry DEF GoodList
    <2>3. Keys(entries') = Keys(entries) \cup {e.key}
      BY Zenon, <1>1, <2>1, KeysAppend DEF ListType
    <2>4. c \in Conn /\ c.id = nextConn /\ c.tmo = Effective(e).tmo
      BY Zenon, <1>1 DEF Conn, Entry, ListType
    <2> HIDE DEF c
    <2>5. ListType'
      BY <1>1, <2>1, <2>2, <2>4 DEF ListType
    <2>6. /\ conns'[e.key] = c
          /\ \A k \in Key \ {e.key} : conns'[k] = conns[k]
      BY Zenon, <1>1, <2>1 DEF ListType
    <2>7. nextConn \in Nat /\ nextConn > 0
      BY Zenon DEF ListType, Numbered
    <2>8. Numbered'
      <3>1. \A k \in Key : conns[k].id \in Nat /\ conns[k].id < nextConn
        BY Zenon DEF ListType, Conn, Numbered
      <3>2. \A k \in Key : conns'[k].id # 0 <=> k \in Keys(entries')
        BY <2>3, <2>4, <2>6, <2>7 DEF Numbered, EntriesMatchConnections
      <3>3. ASSUME NEW i \in DOMAIN entries'
            PROVE  conns'[entries'[i].key].tmo = entries'[i].tmo
        <4>1. DOMAIN entries = 1..Len(entries) /\ DOMAIN entries' = 1..(Len(entries) + 1)
          BY <2>1 DEF ListType
        <4>2. CASE i <= Len(entries)
          <5>1. entries'[i] = entries[i] /\ i \in DOMAIN entries
            BY <2>1, <4>1, <4>2 DEF ListType
          <5>2. entries[i].key \in Key /\ entries[i].key \in Keys(entries)
            <6>1. entries[i] \in Entry
              BY <5>1 DEF ListType
            <6> QED
              BY Zenon, <5>1, <6>1, EntryFields DEF Keys
          <5> QED
            BY ZenonT(30), <1>5, <2>6, <5>1, <5>2 DEF Numbered, EntriesMatchConnections
        <4>3. CASE i = Len(entries) + 1
          <5>1. entries'[i] = Effective(e)
            BY <2>1, <4>1, <4>3 DEF ListType
          <5> QED
            BY Zenon, <1>1, <2>4, <2>6, <5>1
        <4> QED
          BY <4>1, <4>2, <4>3 DEF ListType
      <3>4. ASSUME NEW k \in Key, NEW l \in Key, conns'[k].id = conns'[l].id, k # l
            PROVE  conns'[k].id = 0
        BY <2>4, <2>6, <2>7, <3>1, <3>4 DEF Numbered, EntriesMatchConnections
      <3>5. nextConn' > 0 /\ \A k \in Key : conns'[k].id < nextConn'
        BY <2>1, <2>4, <2>6, <2>7, <3>1
      <3> QED
        BY Zenon, <3>2, <3>3, <3>4, <3>5 DEF Numbered, EntriesMatchConnections
    <2> QED
      BY <1>3, <1>5, <2>1, <2>2, <2>3, <2>4, <2>5, <2>6, <2>7, <2>8
  <1> QED
    BY Zenon, <1>4, <1>5

\* deleteEntry keeps list and connections in step; it removes the connection
\* of its key.
LEMMA DeleteEntryKeeps ==
    ASSUME ListType, GoodList(entries), Numbered, NEW k \in Key, deleteEntry(k)
    PROVE  /\ ListType' /\ GoodList(entries') /\ Numbered'
           /\ Keys(entries') = Keys(entries) \ {k}
           /\ nextConn' = nextConn /\ conns'[k].id = 0
           /\ \A l \in Key \ {k} : conns'[l].id = conns[l].id
  <1>1. PICK i \in DOMAIN entries : entries[i].key = k /\ entries' = Without(entries, i)
    BY Zenon DEF deleteEntry
  <1>2. conns' = [conns EXCEPT ![k] = NoConn] /\ nextConn' = nextConn
    BY Zenon DEF deleteEntry
  <1>3. GoodList(entries') /\ Keys(entries') = Keys(entries) \ {k}
    BY Zenon, <1>1, ListRemove
  <1>4. NoConn \in Conn /\ NoConn.id = 0
    BY Zenon DEF NoConn, Conn, TmoVal
  <1>5. ListType'
    BY Zenon, <1>2, <1>3, <1>4 DEF ListType, GoodList
  <1>6. conns'[k].id = 0 /\ \A l \in Key \ {k} : conns'[l] = conns[l]
    BY Zenon, <1>2, <1>4 DEF ListType
  <1>7. Numbered'
    <2>1. \A l \in Key : conns'[l].id # 0 <=> l \in Keys(entries')
      BY Zenon, <1>3, <1>6 DEF Numbered, EntriesMatchConnections
    <2>2. ASSUME NEW j \in DOMAIN entries'
          PROVE  conns'[entries'[j].key].tmo = entries'[j].tmo
      <3>1. \E m \in DOMAIN entries : entries'[j] = entries[m]
        <4>1. entries \in Seq(Entry) /\ i \in 1..Len(entries)
              /\ DOMAIN entries = 1..Len(entries)
          BY DEF ListType
        <4>2. /\ entries' \in Seq(Entry) /\ Len(entries') = Len(entries) - 1
              /\ \A m \in 1..(Len(entries) - 1) :
                    entries'[m] = IF m < i THEN entries[m] ELSE entries[m + 1]
          BY Zenon, <1>1, <4>1, WithoutProperties
        <4>3. j \in 1..(Len(entries) - 1)
          BY <4>2
        <4> QED
          BY <4>1, <4>2, <4>3
      <3>2. entries'[j].key \in Keys(entries')
        BY Zenon DEF Keys
      <3>3. entries'[j].key # k /\ entries'[j].key \in Key
        <4>1. entries'[j] \in Entry
          BY <1>5 DEF ListType
        <4> QED
          BY Zenon, <1>3, <3>2, <4>1, EntryFields
      <3> QED
        BY <1>6, <3>1, <3>3 DEF Numbered, EntriesMatchConnections
    <2>3. \A l, m \in Key : conns'[l].id = conns'[m].id /\ l # m => conns'[l].id = 0
      BY Zenon, <1>6 DEF Numbered, EntriesMatchConnections
    <2>4. nextConn' > 0 /\ \A l \in Key : conns'[l].id < nextConn'
      BY Zenon, <1>2, <1>6 DEF Numbered, ListType
    <2> QED
      BY Zenon, <2>1, <2>2, <2>3, <2>4 DEF Numbered, EntriesMatchConnections
  <1> QED
    BY Zenon, <1>2, <1>3, <1>5, <1>6, <1>7

----------------------------------------------------------------------------
(* The steps, by what they do to the list *)

\* What addEntry is called with is an entry.
LEMMA AddedAreEntries ==
    ASSUME TypeOK
    PROVE  /\ jleft # <<>> => Head(jleft) \in Entry
           /\ \A l \in wtodo : FromFile(l) \in Entry
           /\ \A k \in htodo : FromReferral(k) \in Entry
  <1>1. \A l \in wtodo : l.key \in Key /\ l.tmo \in TmoVal
    BY Zenon DEF TypeOK, Line
  <1>2. jleft # <<>> => Head(jleft) \in Entry
    BY DEF TypeOK
  <1>3. \A k \in htodo : k \in Key
    BY Zenon DEF TypeOK
  <1> QED
    BY Zenon, <1>1, <1>2, <1>3 DEF Entry, Source, TmoVal, FromFile, FromReferral

\* The ways the daemon ends.
Stops == Crash \/ Panic \/ RunFails

\* They all leave what a new start finds.
LEMMA StopsEnds == Stops => Ends
  BY Zenon DEF Stops, Crash, Panic, RunFails

\* Besides, they count crashes and may leave a temporary file.
LEMMA StopsCounts ==
    ASSUME tmp \in BOOLEAN, Stops
    PROVE  tmp' \in BOOLEAN /\ crashes' \in {crashes, crashes + 1}
  <1>1. CASE Crash
    BY Zenon, <1>1 DEF Crash
  <1>2. CASE Panic
    BY Zenon, <1>2 DEF Panic
  <1>3. CASE RunFails
    BY Zenon, <1>3 DEF RunFails
  <1> QED
    BY Zenon, <1>1, <1>2, <1>3 DEF Stops

\* The steps that leave the list alone.
OtherSteps ==
    \/ UNCHANGED vars \/ User \/ Tick \/ Run
    \/ SyncJsonDone \/ SyncFilesDone \/ Watch \/ (\E f \in FileName : SyncFile(f))
    \/ WatchEvent \/ WorkerFileDone \/ WorkerSnapshot \/ WorkerRename
    \/ CollectRemoved \/ ReferralsSnapshot \/ ReferralsRename
    \/ Deliver \/ (\E p \in Pair, R \in SUBSET Key : HandleReferrals(p, R))

\* The list changes only through addEntry and deleteEntry, called one at a
\* time by sync, the watcher and HandleReferrals, and when the daemon ends.
LEMMA NextCases ==
    [Next]_vars => \/ OtherSteps \/ Stops \/ SyncJsonAdd
                   \/ \E l \in wtodo : WorkerAdd(l)
                   \/ \E k \in htodo : addConnectionsFromReferrals(k)
                   \/ \E k \in hdel : removeConnectionsNotInReferrals(k)
  BY Zenon DEF Next, Worker, Handler, OtherSteps, Stops

\* No other step touches the list.
LEMMA OthersKeepList == OtherSteps => UNCHANGED list
  <1>1. User => UNCHANGED list
    BY Zenon DEF User, UserPut, UserEdit, UserDelete, UserMoveAway, UserStep
  <1>2. Deliver => UNCHANGED list
    BY Zenon DEF Deliver, DeliverFromWatcher, DeliverFromGoroutine
  <1> QED
    BY Zenon, <1>1, <1>2 DEF OtherSteps, vars, Tick, Run, SyncJsonDone, SyncFilesDone,
       Watch, SyncFile, WatchEvent, WorkerFileDone, WorkerSnapshot, WorkerRename,
       CollectRemoved, ReferralsSnapshot, ReferralsRename, HandleReferrals

\* The list stays good and its connections numbered.
LEMMA ListStep ==
    ASSUME IInv, [Next]_vars PROVE ListType' /\ GoodList(entries') /\ Numbered'
  <1>1. ListType /\ GoodList(entries) /\ Numbered /\ TypeOK
    BY Zenon DEF IInv, TypeOK, ListType, Lists
  <1>2. CASE OtherSteps
    BY SMTT(60), <1>1, <1>2, OthersKeepList
       DEF list, ListType, Numbered, EntriesMatchConnections, Keys
  <1>3. CASE Stops
    <2>1. entries' = <<>> /\ conns' = [k \in Key |-> NoConn] /\ nextConn' = 1
      BY Zenon, <1>3, StopsEnds DEF Ends
    <2>2. ListType' /\ GoodList(entries')
      BY Zenon, <2>1, EmptyList DEF ListType, GoodList, NoConn, Conn, TmoVal
    <2>3. Keys(entries') = {}
      BY <2>1 DEF Keys
    <2> QED
      BY <2>1, <2>2, <2>3 DEF Numbered, EntriesMatchConnections, NoConn
  <1>4. CASE SyncJsonAdd
    BY Zenon, <1>1, <1>4, AddedAreEntries, AddEntryKeeps DEF SyncJsonAdd
  <1>5. ASSUME NEW l \in wtodo, WorkerAdd(l) PROVE ListType' /\ GoodList(entries') /\ Numbered'
    BY Zenon, <1>1, <1>5, AddedAreEntries, AddEntryKeeps DEF WorkerAdd, FromFile
  <1>6. ASSUME NEW k \in htodo, addConnectionsFromReferrals(k)
        PROVE  ListType' /\ GoodList(entries') /\ Numbered'
    BY Zenon, <1>1, <1>6, AddedAreEntries, AddEntryKeeps
       DEF addConnectionsFromReferrals, FromReferral
  <1>7. ASSUME NEW k \in hdel, removeConnectionsNotInReferrals(k)
        PROVE  ListType' /\ GoodList(entries') /\ Numbered'
    BY Zenon, <1>1, <1>7, DeleteEntryKeeps DEF removeConnectionsNotInReferrals, TypeOK
  <1> QED
    BY Zenon, <1>2, <1>3, <1>4, <1>5, <1>6, <1>7, NextCases

----------------------------------------------------------------------------
(* Types *)

\* The types of the user's directory and of the events.
FsType ==
    /\ clock \in Nat /\ mtime \in Nat /\ users \in Nat
    /\ dir \in [FileName -> Contents \cup {Absent, Bad, Short}] /\ events \in Seq(Event)

WorkerType ==
    /\ mode \in {"down", "syncJson", "syncFiles", "gap", "up"}
    /\ wpc \in {"idle", "adding", "save", "rename", "notify"}
    /\ wtodo \subseteq Line /\ fpairs \subseteq Pair /\ wpairs \subseteq Pair
    /\ jleft \in Seq(Entry) /\ fleft \subseteq FileName

HandlerType ==
    /\ hpc \in {"idle", "add", "delete", "rename"} /\ hpair \in Pair
    /\ hrefs \subseteq Key /\ htodo \subseteq Key /\ hdel \subseteq Key
    /\ hchanged \in BOOLEAN /\ refs \in Nat

SaveType ==
    /\ json \in Saved \cup {NoJson} /\ wsnap \in Saved /\ hsnap \in Saved
    /\ tmp \in BOOLEAN

SvcType ==
    /\ notif \in [SUBSET Pair -> Nat] /\ svc \in [Key -> Nat] /\ met \subseteq Pair
    /\ crashes \in Nat

\* The type invariant, part by part.
LEMMA TypeParts ==
    TypeOK <=> FsType /\ WorkerType /\ HandlerType /\ SaveType /\ SvcType /\ ListType
  BY Zenon DEF TypeOK, FsType, WorkerType, HandlerType, SaveType, SvcType, ListType

\* The user's changes keep the file system's types.
LEMMA FsTypeStep == ASSUME TypeOK, [Next]_vars PROVE FsType'
  <1> USE TypeParts DEF FsType
  <1>1. ASSUME NEW f \in FileName, NEW c \in Contents \cup {Absent, Bad, Short},
               NEW op \in {"Create", "Modify", "Remove", "Rename"},
               NEW t \in BOOLEAN, UserStep(f, c, op, t)
        PROVE  FsType'
    <2>1. [op |-> op, file |-> f] \in Event
      BY Zenon DEF Event
    <2> QED
      BY <1>1, <2>1 DEF UserStep, Emit
  <1>2. CASE User
    BY Zenon, <1>1, <1>2 DEF User, UserPut, UserEdit, UserDelete, UserMoveAway
  <1>3. CASE Run
    <2>1. AutoFile \in FileName /\ AutoLines \in Contents
      BY Zenon, ConstantsOK
    <2> QED
      BY Zenon, <1>3, <2>1 DEF Run
  <1>4. CASE WatchEvent
    BY <1>4 DEF WatchEvent
  <1>5. CASE Stops
    BY <1>5, StopsEnds DEF Ends
  <1>6. CASE Tick
    BY <1>6 DEF Tick
  <1>7. CASE UNCHANGED fs
    BY Zenon, <1>7 DEF fs
  <1> QED
    BY Zenon, <1>2, <1>3, <1>4, <1>5, <1>6, <1>7
       DEF Next, Stops, Worker, Handler, Deliver, SyncJsonAdd, SyncJsonDone, SyncFilesDone,
           Watch, SyncFile, WorkerAdd, WorkerFileDone, WorkerSnapshot, WorkerRename,
           addConnectionsFromReferrals, CollectRemoved,
           removeConnectionsNotInReferrals, ReferralsSnapshot, ReferralsRename,
           DeliverFromWatcher, DeliverFromGoroutine, HandleReferrals, vars

\* parse returns lines.
LEMMA ParsesLines ==
    ASSUME FsType PROVE \A f \in FileName : parse(f) \subseteq Line
  BY Zenon, ConstantsOK DEF FsType, parse

\* The pair addEntry returns is one.
LEMMA NewPairsType == \A e \in Entry : NewPairs(e) \subseteq Pair
  BY Zenon, ConstantsOK, EntryFields DEF NewPairs

\* The worker's variables keep their types.
LEMMA WorkerTypeStep == ASSUME TypeOK, [Next]_vars PROVE WorkerType'
  <1> USE TypeParts DEF WorkerType
  <1>1. CASE UNCHANGED <<mode, worker>>
    BY Zenon, <1>1 DEF worker
  <1>2. CASE Run
    <2>1. json # NoJson => json.entries \in Seq(Entry)
      BY Zenon DEF SaveType, Saved
    <2>2. /\ mode' \in {mode, "syncJson", "syncFiles"} /\ jleft' \in {jleft, <<>>, json.entries}
          /\ (json = NoJson => jleft' \in {jleft, <<>>}) /\ fleft' \subseteq FileName
          /\ UNCHANGED <<wpc, wtodo, fpairs, wpairs>>
      BY Zenon, <1>2 DEF Run, useInternalJson
    <2>3. <<>> \in Seq(Entry)
      OBVIOUS
    <2> QED
      BY Zenon, <2>1, <2>2, <2>3
  <1>3. CASE SyncJsonAdd
    <2>1. NewPairs(Head(jleft)) \subseteq Pair
      BY Zenon, <1>3, AddedAreEntries, NewPairsType DEF SyncJsonAdd
    <2> QED
      BY <1>3, <2>1 DEF SyncJsonAdd
  <1>4. CASE SyncJsonDone \/ SyncFilesDone \/ Watch
    BY Zenon, <1>4 DEF SyncJsonDone, SyncFilesDone, Watch, worker
  <1>5. ASSUME NEW f \in FileName, SyncFile(f) PROVE WorkerType'
    BY Zenon, <1>5, ParsesLines DEF SyncFile
  <1>6. CASE WatchEvent
    <2>1. Head(events).file \in FileName
      <3>1. Head(events) \in Event
        BY <1>6 DEF FsType, WatchEvent
      <3> QED
        BY Zenon, <3>1 DEF Event
    <2>2. parse(Head(events).file) \subseteq Line
      BY Zenon, <2>1, ParsesLines
    <2> QED
      BY Zenon, <1>6, <2>2 DEF WatchEvent
  <1>7. ASSUME NEW l \in wtodo, WorkerAdd(l) PROVE WorkerType'
    <2>1. NewPairs(FromFile(l)) \subseteq Pair
      BY Zenon, AddedAreEntries, NewPairsType
    <2> QED
      BY Zenon, <1>7, <2>1 DEF WorkerAdd, FromFile
  <1>8. CASE WorkerFileDone \/ WorkerSnapshot \/ WorkerRename
    BY Zenon, <1>8 DEF WorkerFileDone, WorkerSnapshot, WorkerRename
  <1>9. CASE DeliverFromWatcher
    BY Zenon, <1>9 DEF DeliverFromWatcher
  <1>10. CASE Stops
    BY <1>10, StopsEnds DEF Ends
  <1> QED
    BY Zenon, <1>1, <1>2, <1>3, <1>4, <1>5, <1>6, <1>7, <1>8, <1>9, <1>10
       DEF Next, Stops, Worker, Handler, Deliver, User, UserPut, UserEdit, UserDelete,
           UserMoveAway, UserStep, Tick, addConnectionsFromReferrals, CollectRemoved,
           removeConnectionsNotInReferrals, ReferralsSnapshot, ReferralsRename,
           DeliverFromGoroutine, HandleReferrals, vars

\* HandleReferrals' variables keep their types.
LEMMA HandlerTypeStep == ASSUME TypeOK, [Next]_vars PROVE HandlerType'
  <1> USE TypeParts DEF HandlerType
  <1>1. CASE UNCHANGED <<handler, refs>>
    BY Zenon, <1>1 DEF handler
  <1>2. NoPair \in Pair
    BY Zenon, ConstantsOK DEF NoPair
  <1>3. ASSUME NEW p \in Pair, NEW R \in SUBSET Key, HandleReferrals(p, R)
        PROVE  HandlerType'
    <2>1. /\ refs' = refs + 1 /\ hpc' = "add" /\ hpair' = p /\ hrefs' = R
          /\ htodo' = R /\ hdel' = {} /\ hchanged' = FALSE
      BY Zenon, <1>3 DEF HandleReferrals
    <2>2. refs' \in Nat
      BY <2>1
    <2>3. /\ hpc' \in {"idle", "add", "delete", "rename"} /\ hpair' \in Pair
          /\ hrefs' \subseteq Key /\ htodo' \subseteq Key /\ hdel' \subseteq Key
          /\ hchanged' \in BOOLEAN
      BY Zenon, <2>1
    <2> QED
      BY Zenon, <2>2, <2>3
  <1>4. ASSUME NEW k \in htodo, addConnectionsFromReferrals(k) PROVE HandlerType'
    <2>1. hchanged' \in BOOLEAN
      BY <1>4, Zenon DEF addConnectionsFromReferrals
    <2> QED
      BY Zenon, <1>4, <2>1 DEF addConnectionsFromReferrals
  <1>5. CASE CollectRemoved
    BY Zenon, <1>5 DEF CollectRemoved, KeysOf
  <1>6. ASSUME NEW k \in hdel, removeConnectionsNotInReferrals(k) PROVE HandlerType'
    BY Zenon, <1>6 DEF removeConnectionsNotInReferrals
  <1>7. CASE ReferralsSnapshot
    BY Zenon, <1>2, <1>7 DEF ReferralsSnapshot
  <1>8. CASE ReferralsRename
    BY Zenon, <1>2, <1>8 DEF ReferralsRename
  <1>9. CASE Stops
    BY Zenon, <1>2, <1>9, StopsEnds DEF Ends
  <1> QED
    BY Zenon, <1>1, <1>3, <1>4, <1>5, <1>6, <1>7, <1>8, <1>9
       DEF Next, Stops, Worker, Handler, Deliver, User, UserPut, UserEdit, UserDelete,
           UserMoveAway, UserStep, Tick, Run, SyncJsonAdd, SyncJsonDone,
           SyncFilesDone, Watch, SyncFile, WatchEvent, WorkerAdd, WorkerFileDone,
           WorkerSnapshot, WorkerRename, DeliverFromWatcher, DeliverFromGoroutine, vars

\* What is saved, and what is about to be, are lists that were in memory.
LEMMA SaveStep ==
    ASSUME TypeOK, [Next]_vars
    PROVE  /\ wsnap' \in {wsnap, Snapshot, NoSnap} /\ hsnap' \in {hsnap, Snapshot, NoSnap}
           /\ json' \in {json, wsnap, hsnap}
  <1>1. CASE UNCHANGED <<json, wsnap, hsnap>>
    BY Zenon, <1>1
  <1>2. CASE WorkerSnapshot \/ WorkerRename
    BY Zenon, <1>2 DEF WorkerSnapshot, WorkerRename, handler
  <1>3. CASE ReferralsSnapshot \/ ReferralsRename
    BY Zenon, <1>3 DEF ReferralsSnapshot, ReferralsRename, worker
  <1>4. CASE Stops
    BY Zenon, <1>4, StopsEnds DEF Ends
  <1> QED
    BY Zenon, <1>1, <1>2, <1>3, <1>4
       DEF Next, Stops, Worker, Handler, Deliver, User, UserPut, UserEdit, UserDelete,
           UserMoveAway, UserStep, Tick, Run, SyncJsonAdd, SyncJsonDone,
           SyncFilesDone, Watch, SyncFile, WatchEvent, WorkerAdd, WorkerFileDone,
           HandleReferrals, addConnectionsFromReferrals, CollectRemoved,
           removeConnectionsNotInReferrals, DeliverFromWatcher, DeliverFromGoroutine,
           vars, worker, handler

\* Only the daemon's end leaves a temporary file.
LEMMA TmpStep == ASSUME TypeOK, [Next]_vars PROVE tmp' \in BOOLEAN
  <1>1. tmp \in BOOLEAN
    BY Zenon DEF TypeOK
  <1>2. CASE Stops
    BY Zenon, <1>1, <1>2, StopsCounts
  <1>3. CASE UNCHANGED tmp
    BY Zenon, <1>1, <1>3
  <1> QED
    BY Zenon, <1>2, <1>3
       DEF Next, Stops, Worker, Handler, Deliver, User, UserPut, UserEdit, UserDelete,
           UserMoveAway, UserStep, Tick, Run, SyncJsonAdd, SyncJsonDone,
           SyncFilesDone, Watch, SyncFile, WatchEvent, WorkerAdd, WorkerFileDone,
           WorkerSnapshot, WorkerRename, HandleReferrals, addConnectionsFromReferrals,
           CollectRemoved, removeConnectionsNotInReferrals, ReferralsSnapshot,
           ReferralsRename, DeliverFromWatcher, DeliverFromGoroutine, vars

\* The notifications of a goroutine more.
LEMMA NotifiedType ==
    ASSUME notif \in [SUBSET Pair -> Nat], NEW P \in SUBSET Pair
    PROVE  Notified(P) \in [SUBSET Pair -> Nat]
  BY DEF Notified

\* Every variable keeps its type.
LEMMA TypeStep == ASSUME IInv, [Next]_vars PROVE TypeOK'
  <1>1. TypeOK /\ FsType /\ WorkerType /\ HandlerType /\ SaveType /\ SvcType /\ ListType
    BY Zenon, TypeParts DEF IInv
  <1>2. FsType' /\ WorkerType' /\ HandlerType' /\ ListType'
    BY Zenon, <1>1, FsTypeStep, WorkerTypeStep, HandlerTypeStep, ListStep
  <1>3. SaveType'
    <2>1. Snapshot \in Saved /\ NoSnap \in Saved
      BY SMTT(60), <1>1 DEF Snapshot, NoSnap, Saved, FsType, ListType
    <2> QED
      BY Zenon, <1>1, <2>1, SaveStep, TmpStep DEF SaveType
  <1>4. SvcType'
    <2> USE DEF SvcType
    <2>1. ASSUME NEW P \in SUBSET Pair, Take(P)
          PROVE  svc' \in [Key -> Nat] /\ met' \subseteq Pair
      <3>1. \A k \in Key : conns[k].id \in Nat
        BY Zenon, <1>1 DEF ListType, Conn
      <3>2. svc' \in [Key -> Nat]
        BY Zenon, <1>1, <2>1, <3>1 DEF Take
      <3> QED
        BY <1>1, <2>1, <3>2, ConstantsOK DEF Take
    <2>2. CASE UNCHANGED <<notif, svcs, crashes>>
      BY Zenon, <1>1, <2>2 DEF svcs
    <2>3. CASE SyncJsonDone \/ WorkerRename
      <3>1. Notified(wpairs) \in [SUBSET Pair -> Nat]
        BY Zenon, <1>1, NotifiedType DEF WorkerType
      <3> QED
        BY Zenon, <1>1, <2>3, <3>1 DEF SyncJsonDone, WorkerRename, svcs
    <2>4. CASE ReferralsRename
      <3>1. Notified({hpair}) \in [SUBSET Pair -> Nat]
        BY Zenon, <1>1, NotifiedType DEF HandlerType
      <3> QED
        BY Zenon, <1>1, <2>4, <3>1 DEF ReferralsRename, svcs
    <2>5. CASE DeliverFromWatcher
      BY Zenon, <1>1, <2>1, <2>5 DEF DeliverFromWatcher, WorkerType
    <2>6. ASSUME NEW P \in SUBSET Pair, DeliverFromGoroutine(P) PROVE SvcType'
      <3>1. svc' \in [Key -> Nat] /\ met' \subseteq Pair
        BY Zenon, <2>1, <2>6 DEF DeliverFromGoroutine
      <3>2. notif[P] \in Nat /\ notif[P] - 1 \in Nat
        BY <1>1, <2>6 DEF DeliverFromGoroutine
      <3> QED
        BY Zenon, <1>1, <2>6, <3>1, <3>2 DEF DeliverFromGoroutine
    <2>7. CASE Stops
      <3>1. crashes' \in {crashes, crashes + 1}
        BY Zenon, <1>1, <2>7, StopsCounts DEF SaveType
      <3>2. crashes' \in Nat
        BY <1>1, <3>1
      <3>3. notif' = [P \in SUBSET Pair |-> 0] /\ svc' = [k \in Key |-> 0] /\ met' = {}
        BY Zenon, <2>7, StopsEnds DEF Ends
      <3> QED
        BY <3>2, <3>3
    <2> QED
      BY Zenon, <2>2, <2>3, <2>4, <2>5, <2>6, <2>7
         DEF Next, Stops, Worker, Handler, Deliver, User, UserPut, UserEdit, UserDelete,
             UserMoveAway, UserStep, Tick, Run, SyncJsonAdd, SyncFilesDone, Watch,
             SyncFile, WatchEvent, WorkerAdd, WorkerFileDone, WorkerSnapshot,
             HandleReferrals, addConnectionsFromReferrals, CollectRemoved,
             removeConnectionsNotInReferrals, ReferralsSnapshot, vars
  <1> QED
    BY Zenon, <1>2, <1>3, <1>4 DEF TypeOK, FsType, WorkerType, HandlerType, SaveType,
       SvcType, ListType

----------------------------------------------------------------------------
(* The rest of the invariant *)

\* What is saved has been a list in memory, so it is a good one.
LEMMA ListsStep == ASSUME IInv, [Next]_vars PROVE Lists'
  <1>1. Lists /\ TypeOK
    BY Zenon DEF IInv
  <1>2. GoodList(Snapshot.entries) /\ GoodList(NoSnap.entries)
    BY Zenon, <1>1, EmptyList DEF Lists, Snapshot, NoSnap
  <1>3. GoodList(entries')
    BY Zenon, ListStep
  <1> HIDE DEF GoodList
  <1> QED
    BY Zenon, <1>1, <1>2, <1>3, SaveStep DEF Lists

\* The worker's variables fit the place it is at.
LEMMA WorkerPlaceStep == ASSUME IInv, [Next]_vars PROVE WorkerPlace'
  <1> USE DEF IInv, WorkerPlace
  <1>1. CASE UNCHANGED <<mode, worker, list>>
    BY Zenon, <1>1 DEF worker, list
  <1>2. CASE Run
    BY Zenon, <1>2 DEF Run, list
  <1>3. CASE SyncJsonAdd \/ SyncJsonDone
    BY Zenon, <1>3 DEF SyncJsonAdd, SyncJsonDone, list
  <1>4. CASE SyncFilesDone \/ Watch
    BY Zenon, <1>4 DEF SyncFilesDone, Watch, list, worker
  <1>5. ASSUME NEW f \in FileName, SyncFile(f) PROVE WorkerPlace'
    BY Zenon, <1>5 DEF SyncFile, list
  <1>6. CASE WatchEvent
    BY Zenon, <1>6 DEF WatchEvent, list
  <1>7. ASSUME NEW l \in wtodo, WorkerAdd(l) PROVE WorkerPlace'
    BY Zenon, <1>7 DEF WorkerAdd
  <1>8. CASE WorkerFileDone \/ WorkerSnapshot
    BY Zenon, <1>8 DEF WorkerFileDone, WorkerSnapshot, list
  <1>9. CASE WorkerRename
    BY Zenon, <1>9 DEF WorkerRename, list
  <1>10. ASSUME NEW k, \/ addConnectionsFromReferrals(k)
                       \/ removeConnectionsNotInReferrals(k)
         PROVE  WorkerPlace'
    BY Zenon, <1>10 DEF addConnectionsFromReferrals, removeConnectionsNotInReferrals,
       HandlerPlace, worker
  <1>11. CASE DeliverFromWatcher
    BY Zenon, <1>11 DEF DeliverFromWatcher, list
  <1>12. CASE Stops
    BY Zenon, <1>12, StopsEnds DEF Ends
  <1> QED
    BY Zenon, <1>1, <1>2, <1>3, <1>4, <1>5, <1>6, <1>7, <1>8, <1>9, <1>10, <1>11, <1>12
       DEF Next, Stops, Worker, Handler, Deliver, User, UserPut, UserEdit, UserDelete,
           UserMoveAway, UserStep, Tick, HandleReferrals, CollectRemoved,
           ReferralsSnapshot, ReferralsRename, DeliverFromGoroutine, vars

\* addEntry removes no key from the list.
LEMMA AddEntryGrows ==
    ASSUME IInv, NEW e \in Entry, addEntry(e)
    PROVE  Keys(entries') = Keys(entries) \cup {e.key}
  BY Zenon, AddEntryKeeps DEF IInv, TypeOK, ListType, Lists

\* HandleReferrals keeps its place whatever the worker adds between its steps.
LEMMA HandlerPlaceStep == ASSUME IInv, [Next]_vars PROVE HandlerPlace'
  <1> USE DEF IInv, HandlerPlace, ReferralsKept
  <1>1. CASE UNCHANGED <<mode, handler, list>>
    BY Zenon, <1>1 DEF handler, list, Keys
  <1>2. ASSUME UNCHANGED handler, hpc = "idle" PROVE HandlerPlace'
    BY Zenon, <1>2 DEF handler
  <1>3. ASSUME NEW p \in Pair, NEW R \in SUBSET Key, HandleReferrals(p, R)
        PROVE  HandlerPlace'
    BY Zenon, <1>3 DEF HandleReferrals
  <1>4. ASSUME NEW k \in htodo, addConnectionsFromReferrals(k) PROVE HandlerPlace'
    <2>1. Keys(entries') = Keys(entries) \cup {k}
      BY Zenon, <1>4, AddedAreEntries, AddEntryGrows
         DEF addConnectionsFromReferrals, FromReferral
    <2> QED
      BY Zenon, <1>4, <2>1 DEF addConnectionsFromReferrals
  <1>5. CASE CollectRemoved
    BY Zenon, <1>5 DEF CollectRemoved, list
  <1>6. ASSUME NEW k \in hdel, removeConnectionsNotInReferrals(k) PROVE HandlerPlace'
    <2>1. Keys(entries') = Keys(entries) \ {k}
      BY Zenon, <1>6, DeleteEntryKeeps
         DEF removeConnectionsNotInReferrals, TypeOK, ListType, Lists
    <2> QED
      BY Zenon, <1>6, <2>1 DEF removeConnectionsNotInReferrals
  <1>7. CASE ReferralsSnapshot
    BY Zenon, <1>7 DEF ReferralsSnapshot, list
  <1>8. CASE ReferralsRename
    BY Zenon, <1>8 DEF ReferralsRename, list
  <1>9. ASSUME NEW l \in wtodo, WorkerAdd(l) PROVE HandlerPlace'
    <2>1. Keys(entries') = Keys(entries) \cup {l.key}
      BY Zenon, <1>9, AddedAreEntries, AddEntryGrows DEF WorkerAdd, FromFile
    <2> QED
      BY Zenon, <1>9, <2>1 DEF WorkerAdd, handler
  <1>10. CASE WorkerRename
    BY Zenon, <1>10 DEF WorkerRename, handler, list
  <1>11. CASE Stops
    BY Zenon, <1>11, StopsEnds DEF Ends
  <1>12. CASE Run \/ SyncJsonAdd \/ SyncJsonDone \/ Watch
    BY Zenon, <1>2, <1>12 DEF Run, SyncJsonAdd, SyncJsonDone, Watch
  <1> QED
    BY Zenon, <1>1, <1>3, <1>4, <1>5, <1>6, <1>7, <1>8, <1>9, <1>10, <1>11, <1>12
       DEF Next, Stops, Worker, Handler, Deliver, User, UserPut, UserEdit, UserDelete,
           UserMoveAway, UserStep, Tick, SyncFilesDone, SyncFile, WatchEvent,
           WorkerFileDone, WorkerSnapshot, DeliverFromWatcher, DeliverFromGoroutine,
           vars

\* A saved entry goes through addEntry unchanged: its key is not yet listed,
\* and an entry before it that it could inherit from it would have inherited
\* from when it was first added.
LEMMA RestoresNext ==
    ASSUME IInv, mode = "syncJson", jleft # <<>>, addEntry(Head(jleft))
    PROVE  entries' \o Tail(jleft) = json.entries
  <1> DEFINE e == Head(jleft)
             n == Len(entries)
  <1>1. /\ entries \in Seq(Entry) /\ jleft \in Seq(Entry) /\ e \in Entry
        /\ Tail(jleft) \in Seq(Entry) /\ json # NoJson
        /\ entries \o jleft = json.entries /\ GoodList(json.entries)
    <2>1. jleft \in Seq(Entry)
      BY Zenon DEF IInv, TypeOK
    <2> QED
      BY <2>1 DEF IInv, TypeOK, Restoring, Lists
  <1>2. /\ Len(json.entries) = n + Len(jleft) /\ Len(jleft) > 0
        /\ json.entries[n + 1] = e
        /\ \A i \in 1..n : json.entries[i] = entries[i]
    <2>1. /\ Len(entries \o jleft) = n + Len(jleft)
          /\ \A i \in 1..(n + Len(jleft)) :
                (entries \o jleft)[i] = IF i <= n THEN entries[i] ELSE jleft[i - n]
      BY Zenon, <1>1, ConcatProperties
    <2>2. Len(jleft) > 0 /\ jleft[1] = e
      BY <1>1
    <2>3. n \in Nat /\ Len(jleft) \in Nat
      BY <1>1
    <2> HIDE DEF e, n
    <2>4. n + 1 \in 1..(n + Len(jleft)) /\ (n + 1) - n = 1 /\ ~(n + 1 <= n)
      BY <2>2, <2>3
    <2>5. (entries \o jleft)[n + 1] = e
      BY Zenon, <2>1, <2>2, <2>4
    <2>6. ASSUME NEW i \in 1..n PROVE (entries \o jleft)[i] = entries[i]
      BY <2>1, <2>3
    <2> QED
      BY Zenon, <1>1, <2>1, <2>2, <2>5, <2>6
  <1>3. n \in Nat /\ DOMAIN json.entries = 1..Len(json.entries) /\ DOMAIN entries = 1..n
    BY <1>1 DEF GoodList
  <1>4. e.key \notin Keys(entries)
    <2>1. ASSUME NEW i \in 1..n PROVE entries[i].key # e.key
      <3>1. i \in DOMAIN json.entries /\ n + 1 \in DOMAIN json.entries /\ i # n + 1
        BY <1>2, <1>3
      <3> QED
        BY Zenon, <1>1, <1>2, <3>1 DEF GoodList, Distinct
    <2> QED
      BY Zenon, <1>3, <2>1 DEF Keys
  <1>5. Effective(e) = e
    <2>1. CASE e.source = "referral" /\ e.tmo = NoTmo
      <3>1. ASSUME NEW i \in 1..n PROVE ~HasTmo(entries[i])
        <4>1. i \in DOMAIN json.entries /\ n + 1 \in DOMAIN json.entries /\ ~(n + 1 < i)
          BY <1>2, <1>3
        <4> QED
          BY Zenon, <1>1, <1>2, <2>1, <4>1 DEF GoodList, Inherited
      <3>2. InheritedTmo = NoTmo
        BY Zenon, <1>3, <3>1 DEF InheritedTmo, HasTmo
      <3>3. [e EXCEPT !.tmo = NoTmo] = e
        BY Zenon, <1>1, <2>1 DEF Entry
      <3> QED
        BY Zenon, <2>1, <3>2, <3>3 DEF Effective
    <2> QED
      BY Zenon, <2>1 DEF Effective
  <1>6. entries' = Append(entries, e)
    BY Zenon, <1>4, <1>5 DEF addEntry, AddsEntry, existEntry
  <1> HIDE DEF e, n
  <1>7. Append(entries, e) \o Tail(jleft) = entries \o jleft
    BY <1>1 DEF e
  <1> QED
    BY Zenon, <1>1, <1>6, <1>7

\* While sync adds the JSON file's entries, what it has added and what is left
\* make up the file.
LEMMA RestoringStep == ASSUME IInv, [Next]_vars PROVE Restoring'
  <1> USE DEF Restoring
  <1>1. CASE Run
    <2>1. entries' = entries /\ entries = <<>> /\ json' = json
      BY Zenon, <1>1 DEF Run, list, IInv, WorkerPlace
    <2>2. mode' = "syncJson" => json # NoJson /\ jleft' = json.entries
      BY Zenon, <1>1 DEF Run, useInternalJson
    <2>3. json # NoJson => json.entries \in Seq(Entry)
      BY Zenon DEF IInv, Lists, GoodList
    <2> QED
      BY <2>1, <2>2, <2>3
  <1>2. CASE SyncJsonAdd
    <2>1. entries' \o Tail(jleft) = json.entries
      BY Zenon, <1>2, RestoresNext DEF SyncJsonAdd
    <2> QED
      BY Zenon, <1>2, <2>1 DEF SyncJsonAdd, IInv
  <1>3. ASSUME mode' # "syncJson" PROVE Restoring'
    BY Zenon, <1>3
  <1>4. ASSUME mode' = mode, mode # "syncJson" PROVE Restoring'
    BY Zenon, <1>4
  <1>5. CASE UNCHANGED <<mode, list, json, jleft>>
    BY Zenon, <1>5 DEF IInv, list
  <1>6. mode # "up" => hpc = "idle" /\ ~hchanged
    BY Zenon DEF IInv, HandlerPlace
  <1>7. mode = "syncJson" => wpc = "idle"
    BY Zenon DEF IInv, WorkerPlace
  <1>8. CASE Stops \/ SyncJsonDone \/ Watch \/ WorkerRename
    BY Zenon, <1>3, <1>4, <1>7, <1>8, StopsEnds DEF Ends, SyncJsonDone, Watch, WorkerRename
  <1>9. ASSUME NEW l \in wtodo, WorkerAdd(l) PROVE Restoring'
    BY Zenon, <1>4, <1>7, <1>9 DEF WorkerAdd
  <1>10. CASE Handler
    BY Zenon, <1>4, <1>6, <1>10 DEF Handler, addConnectionsFromReferrals, CollectRemoved,
       removeConnectionsNotInReferrals, ReferralsSnapshot, ReferralsRename
  <1> QED
    BY ZenonT(30), <1>1, <1>2, <1>5, <1>8, <1>9, <1>10
       DEF Next, Stops, Worker, Deliver, User, UserPut, UserEdit, UserDelete,
           UserMoveAway, UserStep, Tick, SyncFilesDone, SyncFile, WatchEvent,
           WorkerFileDone, WorkerSnapshot, HandleReferrals, DeliverFromWatcher,
           DeliverFromGoroutine, vars, worker, list

----------------------------------------------------------------------------
(* Theorems *)

\* The inductive invariant holds at the start.
LEMMA InitInv == Init => IInv
  <1> SUFFICES ASSUME Init PROVE IInv
    OBVIOUS
  <1> USE DEF Init
  <1>1. ListType /\ GoodList(entries) /\ Keys(entries) = {}
    BY EmptyList DEF ListType, NoConn, Conn, TmoVal, Keys
  <1>2. Numbered
    BY <1>1 DEF Numbered, EntriesMatchConnections, NoConn
  <1>3. NoSnap \in Saved /\ NoPair \in Pair
    BY Zenon, NothingSaved
  <1>4. TypeOK
    <2>1. FsType /\ SvcType
      BY DEF FsType, SvcType
    <2>2. WorkerType /\ HandlerType /\ SaveType
      <3>1. WorkerType
        BY DEF WorkerType
      <3>2. HandlerType
        BY Zenon, <1>3 DEF HandlerType
      <3>3. SaveType
        BY Zenon, <1>3 DEF SaveType
      <3> QED
        BY Zenon, <3>1, <3>2, <3>3
    <2> QED
      BY Zenon, <1>1, <2>1, <2>2, TypeParts
  <1>5. Lists
    BY Zenon, EmptyList DEF Lists, NoSnap
  <1> QED
    BY Zenon, <1>2, <1>4, <1>5 DEF IInv, WorkerPlace, HandlerPlace, ReferralsKept, Restoring

\* The inductive invariant: lists are as addEntry and deleteEntry make them,
\* list and connections agree, and the two goroutines are at their places.
THEOREM Invariance == Spec => []IInv
  <1>1. IInv /\ [Next]_vars => IInv'
    <2> SUFFICES ASSUME IInv, [Next]_vars PROVE IInv'
      OBVIOUS
    <2> QED
      BY Zenon, TypeStep, ListsStep, ListStep, WorkerPlaceStep, HandlerPlaceStep,
         RestoringStep DEF IInv
  <1> QED
    BY InitInv, <1>1, PTL DEF Spec

\* No endpoint is listed or saved twice, as long as two calls of addEntry do
\* not overlap.
THEOREM ListHasNoDuplicates == Spec => []NoDuplicates
  <1>1. IInv => NoDuplicates
    BY Zenon DEF IInv, Lists, GoodList, Distinct, NoDuplicates
  <1> QED
    BY <1>1, Invariance, PTL

\* addEntry's error "Mismatch between cache entries and cache connections" is
\* never reached.
THEOREM ListAndConnectionsAgree == Spec => []EntriesMatchConnections
  <1>1. IInv => EntriesMatchConnections
    BY Zenon DEF IInv, Numbered
  <1> QED
    BY <1>1, Invariance, PTL

\* HandleReferrals deletes no referral it was given and no entry of another
\* cluster, whatever files the watcher adds between its steps.
THEOREM PruningKeepsReferrals == Spec => []ReferralsKept
  <1>1. IInv => ReferralsKept
    BY Zenon DEF IInv, HandlerPlace
  <1> QED
    BY <1>1, Invariance, PTL

\* A restart from the JSON file restores the saved list exactly.
THEOREM RestartRestoresList == Spec => RestoresSavedList
  <1>1. IInv /\ [Next]_vars =>
            [mode = "syncJson" /\ mode' = "gap" => entries = json.entries]_vars
    <2> SUFFICES ASSUME IInv, [Next]_vars, mode = "syncJson", mode' = "gap"
                 PROVE  entries = json.entries
      OBVIOUS
    <2>1. wpc = "idle" /\ hpc = "idle"
      BY Zenon DEF IInv, WorkerPlace, HandlerPlace
    <2>2. SyncJsonDone
      BY Zenon, <2>1 DEF Next, Stops, Worker, Handler, Deliver, User, UserPut, UserEdit,
         UserDelete, UserMoveAway, UserStep, Tick, Run, SyncJsonAdd, SyncFilesDone,
         Watch, SyncFile, WatchEvent, WorkerAdd, WorkerFileDone, WorkerSnapshot,
         WorkerRename, addConnectionsFromReferrals, CollectRemoved,
         removeConnectionsNotInReferrals, ReferralsSnapshot, ReferralsRename,
         DeliverFromWatcher, DeliverFromGoroutine, HandleReferrals, Crash, Panic, RunFails,
         Ends, vars
    <2> QED
      BY <2>2 DEF SyncJsonDone, IInv, Restoring, TypeOK
  <1> QED
    BY <1>1, Invariance, PTL DEF Spec, RestoresSavedList

----------------------------------------------------------------------------
(* The cache at its end of the feed *)

\* The pairs that goroutines wait to notify for.
Waiting == UNION {P \in SUBSET Pair : notif[P] > 0}

\* One goroutine more adds the pairs it was started with.
LEMMA NotifiedWaits ==
    ASSUME notif \in [SUBSET Pair -> Nat], NEW P \in SUBSET Pair, notif' = Notified(P)
    PROVE  Waiting' = Waiting \cup P
  <1>1. CASE P = {}
    BY Zenon, <1>1 DEF Notified, Waiting
  <1>2. CASE P # {}
    <2>1. \A Q \in SUBSET Pair : notif'[Q] > 0 <=> notif[Q] > 0 \/ Q = P
      BY <1>2 DEF Notified
    <2> QED
      BY Zenon, <2>1 DEF Waiting
  <1> QED
    BY Zenon, <1>1, <1>2

\* The steps between a change and its notification only hand the pairs on,
\* from the file to the worker, from there or from HandleReferrals to a
\* goroutine.
LEMMA OthersKeepOwed ==
    ASSUME IInv, OtherSteps, ~Deliver PROVE Owed' = Owed /\ svc' = svc
  <1> USE DEF Owed
  <1>1. CASE UNCHANGED <<fpairs, wpairs, hchanged, hpair, notif, svc>>
    BY Zenon, <1>1
  <1>2. /\ notif \in [SUBSET Pair -> Nat] /\ wpairs \in SUBSET Pair /\ {hpair} \in SUBSET Pair
        /\ Owed = fpairs \cup wpairs \cup (IF hchanged THEN {hpair} ELSE {}) \cup Waiting
    BY Zenon DEF IInv, TypeOK, Waiting
  <1>3. Owed' = fpairs' \cup wpairs' \cup (IF hchanged' THEN {hpair'} ELSE {}) \cup Waiting'
    BY Zenon DEF Waiting
  <1>4. CASE SyncJsonDone
    BY Zenon, <1>2, <1>3, <1>4, NotifiedWaits DEF SyncJsonDone, handler, svcs
  <1>5. CASE \E f \in FileName : SyncFile(f)
    BY <1>5 DEF SyncFile, handler, svcs, IInv, WorkerPlace
  <1>6. CASE WatchEvent
    BY Zenon, <1>6 DEF WatchEvent, handler, svcs, IInv, WorkerPlace
  <1>7. CASE WorkerFileDone
    BY Zenon, <1>7 DEF WorkerFileDone, handler, svcs
  <1>8. CASE WorkerRename
    BY Zenon, <1>1, <1>2, <1>3, <1>8, NotifiedWaits DEF WorkerRename, handler, svcs
  <1>9. CASE ReferralsSnapshot
    BY Zenon, <1>9 DEF ReferralsSnapshot, worker, svcs
  <1>10. CASE ReferralsRename
    BY Zenon, <1>2, <1>3, <1>10, NotifiedWaits
       DEF ReferralsRename, worker, svcs, IInv, HandlerPlace
  <1>11. ASSUME NEW p \in Pair, NEW R \in SUBSET Key, HandleReferrals(p, R)
         PROVE  Owed' = Owed /\ svc' = svc
    BY Zenon, <1>11 DEF HandleReferrals, worker, svcs, IInv, HandlerPlace
  <1>12. CASE UNCHANGED vars \/ User \/ Tick \/ Run
    BY Zenon, <1>1, <1>12 DEF vars, worker, handler, svcs, User, UserPut, UserEdit,
       UserDelete, UserMoveAway, UserStep, Tick, Run
  <1>13. CASE SyncFilesDone \/ Watch \/ WorkerSnapshot \/ CollectRemoved
    BY Zenon, <1>1, <1>13 DEF worker, handler, svcs, SyncFilesDone, Watch, WorkerSnapshot,
       CollectRemoved
  <1> QED
    BY Zenon, <1>4, <1>5, <1>6, <1>7, <1>8, <1>9, <1>10, <1>11, <1>12, <1>13 DEF OtherSteps

\* A connection opened or removed is a change of the feed for its pair.
LEMMA Changes ==
    ASSUME IInv, [Next]_vars, NEW p \in Pair, Owed' = Owed \cup {p}, svc' = svc,
           nextConn' >= nextConn,
           \A k \in Key : \/ conns'[k].id = conns[k].id
                          \/ PairOf[k] = p /\ conns'[k].id \in {0, nextConn}
    PROVE  Feed!Change(p)
  <1>1. /\ nextConn \in Nat /\ nextConn > 0 /\ nextConn' \in Nat /\ nextConn' > 0
        /\ \A k \in Key : conns'[k].id \in Nat /\ conns'[k].id < nextConn'
    BY Zenon, ListStep DEF IInv, Numbered, TypeOK, ListType, Conn
  <1> QED
    BY Zenon, <1>1, MakesChange

\* So is an addEntry whose pair, if any, the caller keeps to notify for.
LEMMA AddFeeds ==
    ASSUME IInv, [Next]_vars, NEW e \in Entry, addEntry(e), svc' = svc,
           Owed' = Owed \cup NewPairs(e)
    PROVE  [Feed!Next]_(Feed!vars)
  <1>1. /\ nextConn' >= nextConn
        /\ \A k \in Key : \/ conns'[k].id = conns[k].id
                          \/ k = e.key /\ OpensConn(e) /\ conns'[k].id = nextConn
    BY Zenon, AddEntryKeeps DEF IInv, TypeOK, ListType, Lists
  <1>2. CASE OpensConn(e)
    <2>1. PairOf[e.key] \in Pair /\ Owed' = Owed \cup {PairOf[e.key]}
      BY Zenon, <1>2, EntryFields, ConstantsOK DEF NewPairs
    <2>2. Feed!Change(PairOf[e.key])
      BY Zenon, <1>1, <2>1, Changes
    <2> QED
      BY Zenon, <2>1, <2>2 DEF Feed!Next
  <1>3. CASE ~OpensConn(e)
    <2>1. conns' = conns /\ nextConn' = nextConn /\ Owed' = Owed
      BY Zenon, <1>3 DEF addEntry, NewPairs
    <2> QED
      BY Zenon, <2>1 DEF Feed!vars
  <1> QED
    BY Zenon, <1>2, <1>3

\* A notification delivered is a notification of the feed.
LEMMA DeliverTells ==
    ASSUME IInv, NEW P \in SUBSET Pair, Take(P), UNCHANGED list,
           P \subseteq Owed, Owed \ P \subseteq Owed', Owed' \subseteq Owed
    PROVE  Feed!Tell(P)
  <1>1. svc' = [k \in Key |-> IF PairOf[k] \in P THEN conns[k].id ELSE svc[k]]
    BY Zenon DEF Take
  <1>2. conns' = conns /\ nextConn' = nextConn
    BY Zenon DEF list
  <1> QED
    BY Zenon, <1>1, <1>2 DEF Feed!Tell

\* Every step of the cache is a step of the feed or leaves it alone.
LEMMA FeedStep == ASSUME IInv, [Next]_vars PROVE [Feed!Next]_(Feed!vars)
  <1> DEFINE Goal == [Feed!Next]_(Feed!vars)
  <1>1. TypeOK /\ WorkerPlace /\ HandlerPlace
    BY Zenon DEF IInv
  <1>2. ASSUME OtherSteps, ~Deliver PROVE Goal
    <2>1. conns' = conns /\ nextConn' = nextConn /\ Owed' = Owed /\ svc' = svc
      BY Zenon, <1>2, OthersKeepList, OthersKeepOwed DEF list
    <2> QED
      BY Zenon, <2>1 DEF Feed!vars
  <1>3. CASE SyncJsonAdd
    <2>1. Owed' = Owed \cup NewPairs(Head(jleft)) /\ svc' = svc
      BY Zenon, <1>3 DEF SyncJsonAdd, Owed, handler, svcs
    <2> QED
      BY Zenon, <1>1, <1>3, <2>1, AddedAreEntries, AddFeeds DEF SyncJsonAdd
  <1>4. ASSUME NEW l \in wtodo, WorkerAdd(l) PROVE Goal
    <2>1. FromFile(l) \in Entry /\ addEntry(FromFile(l))
      BY Zenon, <1>1, <1>4, AddedAreEntries DEF WorkerAdd, FromFile
    <2>2. ~Mismatch(FromFile(l))
      BY Zenon, <2>1, AddEntryKeeps DEF IInv, TypeOK, ListType, Lists
    <2>3. Owed' = Owed \cup NewPairs(FromFile(l)) /\ svc' = svc
      BY Zenon, <1>4, <2>2 DEF WorkerAdd, FromFile, Owed, handler, svcs
    <2> QED
      BY Zenon, <2>1, <2>3, AddFeeds
  <1>5. ASSUME NEW k \in htodo, addConnectionsFromReferrals(k) PROVE Goal
    <2>1. FromReferral(k) \in Entry /\ addEntry(FromReferral(k))
      BY Zenon, <1>1, <1>5, AddedAreEntries DEF addConnectionsFromReferrals, FromReferral
    <2>2. PairOf[k] = hpair /\ hpair' = hpair /\ UNCHANGED <<fpairs, wpairs, notif, svc>>
      BY Zenon, <1>1, <1>5 DEF addConnectionsFromReferrals, HandlerPlace, KeysOf, worker, svcs
    <2>3. hchanged' <=> hchanged \/ OpensConn(FromReferral(k))
      BY Zenon, <1>5 DEF addConnectionsFromReferrals, FromReferral
    <2>4. NewPairs(FromReferral(k)) = IF OpensConn(FromReferral(k)) THEN {hpair} ELSE {}
      BY Zenon, <2>2 DEF NewPairs, FromReferral
    <2>5. Owed' = Owed \cup NewPairs(FromReferral(k))
      BY Zenon, <2>2, <2>3, <2>4 DEF Owed
    <2> QED
      BY Zenon, <2>1, <2>2, <2>5, AddFeeds
  <1>6. ASSUME NEW k \in hdel, removeConnectionsNotInReferrals(k) PROVE Goal
    <2>1. /\ k \in Key /\ deleteEntry(k) /\ hchanged' /\ hpair' = hpair
          /\ UNCHANGED <<fpairs, wpairs, notif, svc>>
      BY Zenon, <1>1, <1>6 DEF removeConnectionsNotInReferrals, TypeOK, worker, svcs
    <2>2. PairOf[k] = hpair /\ hpair \in Pair
      BY Zenon, <1>1, <1>6 DEF removeConnectionsNotInReferrals, HandlerPlace, ReferralsKept,
         KeysOf, TypeOK
    <2>3. /\ nextConn' = nextConn /\ conns'[k].id = 0 /\ nextConn \in Nat
          /\ \A l \in Key \ {k} : conns'[l].id = conns[l].id
      BY Zenon, <2>1, DeleteEntryKeeps DEF IInv, TypeOK, ListType, Lists
    <2>4. PICK p \in Pair : p = hpair /\ Owed' = Owed \cup {p}
      BY Zenon, <2>1, <2>2 DEF Owed
    <2>5. Feed!Change(p)
      <3>1. ASSUME NEW l \in Key
            PROVE  \/ conns'[l].id = conns[l].id
                   \/ PairOf[l] = p /\ conns'[l].id \in {0, nextConn}
        <4>1. CASE l = k
          BY Zenon, <2>2, <2>3, <2>4, <4>1
        <4>2. CASE l # k
          BY Zenon, <2>3, <4>2
        <4> QED
          BY Zenon, <4>1, <4>2
      <3>2. svc' = svc /\ nextConn' >= nextConn
        BY <2>1, <2>3
      <3> QED
        BY Zenon, <2>4, <3>1, <3>2, Changes
    <2> QED
      BY Zenon, <2>5 DEF Feed!Next
  <1>7. CASE DeliverFromWatcher
    <2>1. /\ wpairs \in SUBSET Pair /\ fpairs = {} /\ Take(wpairs) /\ UNCHANGED list
          /\ wpairs' = {} /\ fpairs' = {} /\ UNCHANGED <<hchanged, hpair, notif>>
      BY Zenon, <1>1, <1>7 DEF DeliverFromWatcher, TypeOK, WorkerPlace, handler
    <2>2. wpairs \subseteq Owed /\ Owed \ wpairs \subseteq Owed' /\ Owed' \subseteq Owed
      BY Zenon, <2>1 DEF Owed
    <2>3. Feed!Tell(wpairs)
      BY Zenon, <2>1, <2>2, DeliverTells
    <2> QED
      BY Zenon, <2>1, <2>3 DEF Feed!Next
  <1>8. ASSUME NEW P \in SUBSET Pair, DeliverFromGoroutine(P) PROVE Goal
    <2>1. /\ Take(P) /\ UNCHANGED list /\ notif \in [SUBSET Pair -> Nat] /\ notif[P] > 0
          /\ notif' = [notif EXCEPT ![P] = @ - 1]
          /\ UNCHANGED <<fpairs, wpairs, hchanged, hpair>>
      BY Zenon, <1>1, <1>8 DEF DeliverFromGoroutine, TypeOK, handler, worker
    <2>2. /\ \A Q \in SUBSET Pair : notif'[Q] > 0 => notif[Q] > 0
          /\ \A Q \in SUBSET Pair : notif[Q] > 0 /\ Q # P => notif'[Q] > 0
      BY Zenon, <2>1
    <2>3. P \subseteq Waiting /\ Waiting \ P \subseteq Waiting' /\ Waiting' \subseteq Waiting
      BY Zenon, <2>1, <2>2 DEF Waiting
    <2>4. P \subseteq Owed /\ Owed \ P \subseteq Owed' /\ Owed' \subseteq Owed
      BY Zenon, <2>1, <2>3 DEF Owed, Waiting
    <2>5. Feed!Tell(P)
      BY Zenon, <2>1, <2>4, DeliverTells
    <2> QED
      BY Zenon, <2>5 DEF Feed!Next
  <1>9. CASE Stops
    <2>1. Owed' = {}
      BY <1>9, StopsEnds DEF Ends, Owed
    <2>2. /\ conns' = [k \in Key |-> NoConn] /\ nextConn' = 1 /\ svc' = [k \in Key |-> 0]
      BY Zenon, <1>9, StopsEnds DEF Ends
    <2>3. Feed!Restart
      BY <2>1, <2>2 DEF Feed!Restart, Feed!Zeros, NoConn
    <2> QED
      BY Zenon, <2>3 DEF Feed!Next
  <1> QED
    BY Zenon, <1>2, <1>3, <1>4, <1>5, <1>6, <1>7, <1>8, <1>9, NextCases DEF Deliver

\* The cache implements the feed the service relies on.
THEOREM CacheImplementsFeed == Spec => ImplementsFeed
  <1>1. Init => Feed!Init
    BY DEF Init, Feed!Init, Feed!Zeros, NoConn, Owed
  <1> QED
    BY <1>1, FeedStep, Invariance, PTL DEF Spec, ImplementsFeed, Feed!Spec

----------------------------------------------------------------------------
(* What the feed promises *)

\* The objects of the feed are numbers.
FeedType ==
    /\ [k \in Key |-> conns[k].id] \in [Key -> Nat]
    /\ [k \in Key |-> nextConn - 1] \in [Key -> Nat]
    /\ svc \in [Key -> Nat]

\* An object that the service has and the cache has replaced is older than
\* the one the cache has now.
FeedOrdered ==
    \A k \in Key : /\ conns[k].id <= nextConn - 1 /\ svc[k] <= nextConn - 1
                   /\ conns[k].id # 0 => svc[k] <= conns[k].id

FeedInv == FeedType /\ FeedOrdered /\ Feed!NothingLost

\* The feed keeps its invariant, from nothing but its own specification.
LEMMA FeedInvariance == Feed!Spec => []FeedInv
  <1>1. Feed!Init => FeedInv
    <2> SUFFICES ASSUME Feed!Init PROVE FeedInv
      BY Zenon
    <2>1. \A k \in Key : conns[k].id = 0 /\ nextConn - 1 = 0 /\ svc[k] = 0
      BY DEF Feed!Init, Feed!Zeros
    <2>2. svc = [k \in Key |-> 0]
      BY Zenon DEF Feed!Init, Feed!Zeros
    <2> QED
      BY <2>1, <2>2 DEF FeedInv, FeedType, FeedOrdered, Feed!NothingLost
  <1>2. FeedInv /\ [Feed!Next]_(Feed!vars) => FeedInv'
    <2> SUFFICES ASSUME FeedInv, [Feed!Next]_(Feed!vars) PROVE FeedInv'
      BY Zenon
    <2>1. ASSUME NEW p \in Pair, Feed!Change(p) PROVE FeedInv'
      <3>1. FeedType'
        BY Zenon, <2>1 DEF FeedInv, FeedType, Feed!Change
      <3>2. FeedOrdered'
        BY <2>1, <3>1 DEF FeedInv, FeedType, FeedOrdered, Feed!Change
      <3>3. Feed!NothingLost'
        BY <2>1 DEF FeedInv, Feed!NothingLost, Feed!Change
      <3> QED
        BY Zenon, <3>1, <3>2, <3>3 DEF FeedInv
    <2>2. ASSUME NEW P \in SUBSET Pair, Feed!Tell(P) PROVE FeedInv'
      <3>1. FeedType'
        BY <2>2 DEF FeedInv, FeedType, Feed!Tell
      <3>2. FeedOrdered'
        BY <2>2 DEF FeedInv, FeedType, FeedOrdered, Feed!Tell
      <3>3. Feed!NothingLost'
        BY <2>2 DEF FeedInv, Feed!NothingLost, Feed!Tell
      <3> QED
        BY ZenonT(30), <3>1, <3>2, <3>3 DEF FeedInv
    <2>5. ASSUME NEW p \in Pair, Feed!Drop(p) PROVE FeedInv'
      <3>1. /\ conns' = conns \/ \A k \in Key : conns'[k].id = conns[k].id
            /\ \A k \in Key : nextConn' - 1 = nextConn - 1
            /\ \A k \in Key : svc'[k] = svc[k] \/ (PairOf[k] = p /\ svc'[k] = 0)
            /\ svc' \in [Key -> Nat] /\ p \in Owed /\ Owed' = Owed
        BY <2>5 DEF Feed!Drop
      <3>2. FeedType'
        BY Zenon, <2>5 DEF FeedInv, FeedType, Feed!Drop
      <3>3. FeedOrdered'
        BY <3>1 DEF FeedInv, FeedType, FeedOrdered
      <3>4. Feed!NothingLost'
        BY <3>1 DEF FeedInv, Feed!NothingLost
      <3> QED
        BY Zenon, <3>2, <3>3, <3>4 DEF FeedInv
    <2>3. CASE Feed!Restart
      <3>1. \A k \in Key : conns'[k].id = 0 /\ nextConn' - 1 = 0 /\ svc'[k] = 0
        BY <2>3 DEF Feed!Restart, Feed!Zeros
      <3>2. svc' = [k \in Key |-> 0]
        BY Zenon, <2>3 DEF Feed!Restart, Feed!Zeros
      <3> QED
        BY <3>1, <3>2 DEF FeedInv, FeedType, FeedOrdered, Feed!NothingLost
    <2>4. CASE UNCHANGED Feed!vars
      BY <2>4 DEF Feed!vars, FeedInv, FeedType, FeedOrdered, Feed!NothingLost
    <2> QED
      BY Zenon, <2>1, <2>2, <2>3, <2>4, <2>5 DEF Feed!Next
  <1> QED
    BY <1>1, <1>2, PTL DEF Feed!Spec

\* What implements the feed never leaves the service behind without a
\* notification to come ...
THEOREM FeedLosesNothing == Feed!Spec => []Feed!NothingLost
  BY FeedInvariance, PTL DEF FeedInv

\* ... and never hands it a connection object that it has had and lost.
THEOREM FeedGivesNewer == Feed!Spec => Feed!OnlyNewer
  <1>1. FeedInv /\ [Feed!Next]_(Feed!vars) =>
            [\A k \in Key : svc'[k] \in {0, svc[k]} \/ svc'[k] > svc[k]]_(Feed!vars)
    <2> SUFFICES ASSUME FeedInv, [Feed!Next]_(Feed!vars), NEW k \in Key
                 PROVE  svc'[k] \in {0, svc[k]} \/ svc'[k] > svc[k]
      BY Zenon
    <2>1. /\ conns[k].id \in Nat /\ svc[k] \in Nat
          /\ conns[k].id # 0 => svc[k] <= conns[k].id
      BY SMTT(30) DEF FeedInv, FeedType, FeedOrdered
    <2>2. svc'[k] \in {0, conns[k].id, svc[k]}
      BY DEF Feed!Next, Feed!Change, Feed!Drop, Feed!Tell, Feed!Restart, Feed!Zeros, Feed!vars
    <2> QED
      BY <2>1, <2>2
  <1> QED
    BY <1>1, FeedInvariance, PTL DEF Feed!Spec, Feed!OnlyNewer

\* No change of the cache's connections is lost on the way to the service.
THEOREM NoChangeIsLost == Spec => []NoLostNotification
  <1>1. Feed!NothingLost => NoLostNotification
    BY DEF Feed!NothingLost, NoLostNotification
  <1> QED
    BY <1>1, CacheImplementsFeed, FeedLosesNothing, PTL DEF ImplementsFeed

\* Between two starts of the daemon the service is never handed a connection
\* that it has had and lost: what it gets for a key is newer than what it has.
THEOREM ServiceGetsNewer == Spec => Feed!OnlyNewer
  BY CacheImplementsFeed, FeedGivesNewer, PTL DEF ImplementsFeed
============================================================================

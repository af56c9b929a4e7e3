---------------------------- MODULE KernelProofs ----------------------------
(***************************************************************************)
(* Proof that ConnectAll connects the entries of one log.  The header is   *)
(* read before the entries and again after them.  The inductive invariant  *)
(* says what is known between these reads: nothing if the log has changed  *)
(* since the header, and that the entries are the log's if it has not.     *)
(* Then, what becomes of these entries.                                    *)
(***************************************************************************)
EXTENDS KernelClient, TLAPS

Histories == history \in Seq(Seq(Entry)) /\ Gen >= 1

OInv ==
    /\ Histories
    /\ genCtr \in Nat /\ genCtr <= Gen
    /\ pc = "unpack" /\ genCtr = Gen => numRec = Len(log)
    /\ pc = "again" /\ genCtr = Gen => entries = log
    /\ pc \in {"remove", "connect", "done"} => genCtr >= 1 /\ entries = history[genCtr]
    /\ pc \in {"unpack", "again"} => genCtr >= 1

\* A log is a sequence of entries.
LEMMA LogsAreSequences == Log \subseteq Seq(Entry)
BY DEF Log

\* What is unpacked of a log with the length of the header is that log.
LEMMA UnpackedLog ==
    ASSUME NEW l \in Seq(Entry)
    PROVE  [i \in 1..Len(l) |-> IF i <= Len(l) THEN l[i] ELSE BadPort] = l
OBVIOUS

\* A new log leaves the ones before as they are.
LEMMA HistoryGrows ==
    ASSUME Histories, NEW l \in Log, history' = Append(history, l)
    PROVE  Histories' /\ Gen' = Gen + 1 /\ \A g \in 1..Gen : history'[g] = history[g]
BY LogsAreSequences DEF Histories, Gen

\* The invariant holds when ConnectAll is called.
LEMMA OneLogInit == Init => OInv
<1> SUFFICES ASSUME Init PROVE OInv
  OBVIOUS
<1>1. history \in Seq(Seq(Entry)) /\ Len(history) = 1
  BY LogsAreSequences DEF Init
<1>2. QED
  BY <1>1 DEF Init, OInv, Histories, Gen

\* Each step of the call and of its environment preserves the invariant.
LEMMA OneLogStep == OInv /\ [Next]_vars => OInv'
<1> SUFFICES ASSUME OInv, [Next]_vars PROVE OInv'
  OBVIOUS
<1>1. CASE Changes
  <2>1. PICK l \in Log : history' = Append(history, l)
    BY <1>1 DEF Changes
  <2>2. Histories' /\ Gen' = Gen + 1 /\ \A g \in 1..Gen : history'[g] = history[g]
    BY <2>1, HistoryGrows DEF OInv
  <2>3. UNCHANGED <<pc, numRec, genCtr, entries>>
    BY <1>1 DEF Changes, loop
  <2>4. Gen \in Nat
    BY DEF OInv, Histories, Gen
  <2>5. QED
    BY <2>2, <2>3, <2>4 DEF OInv
<1>2. CASE AddsDiscovery \/ ReadFails \/ ReadsHeader
  BY <1>2 DEF AddsDiscovery, ReadFails, ReadsHeader, env, OInv, Histories, Gen, log
<1>3. CASE ReadsLog
  BY <1>3 DEF ReadsLog, env, OInv, Histories, Gen, log
<1>4. CASE Unpacks
  <2>1. log \in Seq(Entry)
    BY DEF OInv, Histories, Gen, log
  <2>2. genCtr = Gen => entries' = log
    BY <1>4, <2>1, UnpackedLog DEF Unpacks, OInv
  <2>3. UNCHANGED <<history, genCtr>> /\ pc = "unpack" /\ pc' = "again"
    BY <1>4 DEF Unpacks, env
  <2>4. QED
    BY <2>2, <2>3 DEF OInv, Histories, Gen, log
<1>5. CASE ReadsAgain
  BY <1>5 DEF ReadsAgain, env, OInv, Histories, Gen, log
<1>6. CASE Returns
  BY <1>6 DEF Returns, env, OInv, Histories, Gen, log
<1>7. CASE ConnectAll \/ Loses \/ UNCHANGED vars
  <2>1. UNCHANGED <<history, numRec, genCtr, entries>>
    BY <1>7 DEF ConnectAll, Skips, Connects, ConnectFails, Already, Ends, Loses, vars, env
  <2>2. pc' = pc \/ (pc = "connect" /\ pc' = "done")
    BY <1>7 DEF ConnectAll, Skips, Connects, ConnectFails, Already, Ends, Loses, vars
  <2>3. QED
    BY <2>1, <2>2 DEF OInv, Histories, Gen, log
<1>8. QED
  BY <1>1, <1>2, <1>3, <1>4, <1>5, <1>6, <1>7 DEF Next, Discover

\* What is connected is the log of the generation whose header was read, for
\* every length of the log and however often it changes.
THEOREM OneLogIsConnected == Spec => []ConnectsOneLog
<1>1. OInv => ConnectsOneLog
  BY DEF OInv, ConnectsOneLog
<1>2. QED
  BY OneLogInit, OneLogStep, <1>1, PTL DEF Spec

----------------------------------------------------------------------------
(* What becomes of the entries.  Each I/O subsystem of the log is found,   *)
(* given up or still to come, and each controller added for one is         *)
(* returned, warned about or about to be tried again.                      *)

Attempted ==
    /\ entries \in Seq(Entry) /\ todo \in Seq(Entry) /\ numRec \in Nat
    /\ history \in Seq(Seq(Entry)) /\ Gen >= 1
    /\ pc = "done" => todo = <<>>
    /\ pc \in {"connect", "done"} =>
          \A i \in 1..Len(entries) : entries[i] \in Subsystem =>
              \/ entries[i] \in found \cup warned
              \/ \E j \in 1..Len(todo) : todo[j] = entries[i]

Reported == made \in Seq(Subsystem) /\ ctrls \in Seq(Nat) /\ tries \in Nat /\ ReportedOnce

\* The loop goes on with the rest only when its first entry is accounted for.
LEMMA NextEntryAttempted ==
    ASSUME Attempted, First, todo' = Tail(todo), UNCHANGED <<pc, entries, numRec, history>>,
           found \subseteq found', warned \subseteq warned',
           Head(todo) \in Subsystem => Head(todo) \in found' \cup warned'
    PROVE  Attempted'
<1>1. todo' \in Seq(Entry) /\ Len(todo') = Len(todo) - 1 /\ Head(todo) = todo[1]
  BY DEF Attempted, First
<1>2. ASSUME NEW j \in 1..Len(todo), j # 1 PROVE j - 1 \in 1..Len(todo') /\ todo'[j - 1] = todo[j]
  BY <1>1, <1>2 DEF Attempted, First
<1>3. ASSUME NEW i \in 1..Len(entries), entries[i] \in Subsystem
      PROVE  entries[i] \in found' \cup warned' \/ \E j \in 1..Len(todo') : todo'[j] = entries[i]
  <2>1. CASE entries[i] \in found \cup warned
    BY <2>1
  <2>2. CASE \E j \in 1..Len(todo) : todo[j] = entries[i]
    <3>1. PICK j \in 1..Len(todo) : todo[j] = entries[i]
      BY <2>2
    <3>2. CASE j = 1
      BY <1>1, <1>3, <3>1, <3>2
    <3>3. CASE j # 1
      BY <1>2, <3>1, <3>3
    <3>4. QED
      BY <3>2, <3>3
  <2>3. QED
    BY <1>3, <2>1, <2>2 DEF Attempted, First
<1>4. QED
  BY <1>1, <1>3 DEF Attempted, First, Gen

\* No step forgets an entry of the log.
LEMMA AttemptedStep == Attempted /\ [Next]_vars => Attempted'
<1> SUFFICES ASSUME Attempted, [Next]_vars PROVE Attempted'
  OBVIOUS
<1>1. CASE Changes
  <2>1. PICK l \in Log : history' = Append(history, l)
    BY <1>1 DEF Changes
  <2>2. history' \in Seq(Seq(Entry)) /\ Gen' >= 1
    BY <2>1, LogsAreSequences DEF Attempted, Gen
  <2>3. QED
    BY <1>1, <2>2 DEF Changes, Attempted, loop
<1>2. CASE AddsDiscovery \/ ReadFails \/ ReadsHeader \/ ReadsLog \/ ReadsAgain
  <2>1. log \in Seq(Entry)
    BY DEF Attempted, Gen, log
  <2>2. CASE AddsDiscovery \/ ReadFails
    BY <2>1, <2>2 DEF AddsDiscovery, ReadFails, env, loop, Attempted, Gen
  <2>3. CASE ReadsHeader
    BY <2>1, <2>3 DEF ReadsHeader, env, loop, Attempted, Gen
  <2>4. CASE ReadsLog
    BY <2>1, <2>4 DEF ReadsLog, env, loop, Attempted, Gen
  <2>5. CASE ReadsAgain
    BY <2>1, <2>5 DEF ReadsAgain, env, loop, Attempted, Gen
  <2>6. QED
    BY <1>2, <2>2, <2>3, <2>4, <2>5
<1>3. CASE Unpacks
  <2>1. log \in Seq(Entry) /\ BadPort \in Entry
    BY DEF Attempted, Gen, log, Entry
  <2>2. entries' \in Seq(Entry)
    <3>1. \A i \in 1..numRec : (IF i <= Len(log) THEN log[i] ELSE BadPort) \in Entry
      BY <2>1 DEF Attempted
    <3>2. QED
      BY <1>3, <3>1 DEF Unpacks, Attempted
  <2>3. QED
    BY <1>3, <2>2 DEF Unpacks, env, loop, Attempted, Gen
<1>4. CASE Returns
  BY <1>4 DEF Returns, env, Attempted, Gen
<1>5. CASE Skips
  <2>1. Head(todo) \notin Subsystem
    BY <1>5, KernelAssumption DEF Skips
  <2>2. QED
    BY <1>5, <2>1, NextEntryAttempted DEF Skips, NextEntry, env
<1>6. CASE Connects
  BY <1>6, NextEntryAttempted DEF Connects, Adds, NextEntry
<1>7. CASE ConnectFails \/ Already
  <2>1. First /\ UNCHANGED <<pc, entries, numRec, history>> /\ found \subseteq found'
    BY <1>7 DEF ConnectFails, Adds, Already, env
  <2>2. CASE NextEntry /\ ((UNCHANGED warned /\ Head(todo) \in found') \/ warned' = warned \cup {Head(todo)})
    BY <2>1, <2>2, NextEntryAttempted DEF NextEntry
  <2>3. CASE UNCHANGED <<todo, warned>>
    BY <2>1, <2>3 DEF Attempted, Gen
  <2>4. QED
    BY <1>7, <2>2, <2>3 DEF ConnectFails, Already, GivesUp
<1>8. CASE Ends \/ Loses \/ UNCHANGED vars
  BY <1>8 DEF Ends, Loses, vars, env, loop, Attempted, Gen
<1>9. QED
  BY <1>1, <1>2, <1>3, <1>4, <1>5, <1>6, <1>7, <1>8 DEF Next, Discover, ConnectAll

\* At the end every I/O subsystem of the log has its controller or was given
\* up, for every log, number of attempts and pattern of failures.
THEOREM EveryEntryIsAttempted == Spec => []AllAttempted
<1>1. Init => Attempted
  BY LogsAreSequences DEF Init, Attempted, Gen
<1>2. Attempted => AllAttempted
  BY DEF Attempted, AllAttempted
<1>3. QED
  BY <1>1, <1>2, AttemptedStep, PTL DEF Spec

\* A controller that is not one of ctrls is warned about or tried again.
Accounted(n) ==
    \/ \E i \in 1..Len(ctrls) : ctrls[i] = n
    \/ made[n] \in warned
    \/ Retrying(made[n])

\* Adding a controller for e: it is the last, and those before it that stay
\* current are of other entries.
LEMMA AddsOne ==
    ASSUME Reported, NEW e \in Subsystem, e \notin kernel, Adds(e)
    PROVE  /\ made' \in Seq(Subsystem) /\ Len(made) \in Nat /\ Len(made') = Len(made) + 1
           /\ made'[Len(made) + 1] = e
           /\ \A n \in 1..Len(made) : made'[n] = made[n]
           /\ \A n \in 1..Len(made) : Current(n)' => Current(n) /\ made[n] # e
<1>1. /\ made' \in Seq(Subsystem) /\ Len(made) \in Nat /\ Len(made') = Len(made) + 1
      /\ made'[Len(made) + 1] = e
      /\ \A n \in 1..Len(made) : made'[n] = made[n]
  BY DEF Reported, Adds
<1>2. ASSUME NEW n \in 1..Len(made), Current(n)' PROVE Current(n) /\ made[n] # e
  <2>1. made[n] \in kernel' /\ \A m \in 1..Len(made') : made'[m] = made[n] => m <= n
    BY <1>1, <1>2 DEF Current
  <2>2. Len(made) + 1 \in 1..Len(made') /\ ~(Len(made) + 1 <= n)
    BY <1>1
  <2>3. made[n] # e
    BY <1>1, <2>1, <2>2
  <2>4. made[n] \in kernel
    BY <2>1, <2>3 DEF Adds
  <2>5. ASSUME NEW m \in 1..Len(made), made[m] = made[n] PROVE m <= n
    BY <1>1, <2>1, <2>5
  <2> QED
    BY Zenon, <2>3, <2>4, <2>5 DEF Current
<1> QED
  BY Zenon, <1>1, <1>2

\* Nothing is forgotten by a step that adds and returns no controller, if it
\* ends no retries without a warning.
LEMMA NothingAdded ==
    ASSUME Reported, UNCHANGED <<made, ctrls>>, kernel' \subseteq kernel, warned \subseteq warned',
           tries' \in Nat,
           \A e \in Subsystem : Retrying(e) => Retrying(e)' \/ e \in warned'
    PROVE  Reported'
<1>1. ASSUME NEW n \in 1..Len(made), Current(n)' PROVE Accounted(n)'
  <2>1. Current(n)
    BY Zenon, <1>1 DEF Current
  <2>2. Accounted(n) /\ made[n] \in Subsystem
    BY <2>1 DEF Reported, ReportedOnce, Accounted
  <2> QED
    BY Zenon, <2>2 DEF Accounted
<1> QED
  BY Zenon, <1>1 DEF Reported, ReportedOnce, Accounted

\* Giving an entry up ends its retries with a warning.
LEMMA GivesUpWarns ==
    ASSUME Reported, First, NEW e, e = Head(todo), GivesUp(e), UNCHANGED pc
    PROVE  /\ warned \subseteq warned' /\ tries' \in Nat
           /\ Retrying(e)' \/ e \in warned'
           /\ \A f \in Subsystem : Retrying(f) => f = e
<1>1. CASE tries < Attempts
  <2>1. tries' = tries + 1 /\ todo' = todo /\ warned' = warned /\ tries \in Nat
    BY Zenon, <1>1 DEF GivesUp, Reported
  <2>2. tries' > 0 /\ tries' \in Nat
    BY <2>1
  <2> QED
    BY Zenon, <2>1, <2>2 DEF Retrying, First
<1>2. CASE ~(tries < Attempts)
  <2>1. tries' = 0 /\ warned' = warned \cup {e}
    BY Zenon, <1>2 DEF GivesUp, NextEntry
  <2>2. tries' \in Nat
    BY <2>1
  <2> QED
    BY Zenon, <2>1, <2>2 DEF Retrying
<1> QED
  BY Zenon, <1>1, <1>2

\* What was added is returned, warned about or tried again, step by step.
LEMMA ReportedStep == Reported /\ [Next]_vars => Reported'
<1> SUFFICES ASSUME Reported, [Next]_vars PROVE Reported'
  OBVIOUS
<1>1. CASE Connects
  <2> DEFINE k == Len(made) + 1
  <2>e. PICK e : e = Head(todo)
    BY Zenon
  <2>1. /\ e \in Subsystem /\ e \notin kernel /\ Adds(e) /\ ctrls' = Append(ctrls, k)
        /\ warned' = warned /\ tries' = 0 /\ \A f \in Subsystem : Retrying(f) => f = e
    BY Zenon, <1>1, <2>e DEF Connects, NextEntry, Retrying
  <2>2. /\ made' \in Seq(Subsystem) /\ Len(made) \in Nat /\ Len(made') = k
        /\ \A n \in 1..Len(made) : made'[n] = made[n]
        /\ \A n \in 1..Len(made) : Current(n)' => Current(n) /\ made[n] # e
    BY Zenon, <2>1, AddsOne
  <2>3. /\ ctrls' \in Seq(Nat) /\ Len(ctrls) \in Nat /\ Len(ctrls') = Len(ctrls) + 1
        /\ ctrls'[Len(ctrls) + 1] = k
        /\ \A i \in 1..Len(ctrls) : ctrls'[i] = ctrls[i] /\ ctrls[i] \in 1..Len(made)
    BY <2>1, <2>2 DEF Reported, ReportedOnce
  <2>4. ASSUME NEW i \in 1..Len(ctrls') PROVE ctrls'[i] \in 1..Len(made')
    BY <2>2, <2>3
  <2>5. ASSUME NEW i \in 1..Len(ctrls'), NEW j \in 1..Len(ctrls'), ctrls'[i] = ctrls'[j]
        PROVE  i = j
    <3>1. \A a, b \in 1..Len(ctrls) : ctrls[a] = ctrls[b] => a = b
      BY Zenon DEF Reported, ReportedOnce
    <3>2. \A a \in 1..Len(ctrls') : a \in 1..Len(ctrls) \/ a = Len(ctrls) + 1
      BY <2>3
    <3>3. \A a \in 1..Len(ctrls) : ctrls'[a] # k
      <4>1. \A n \in 1..Len(made) : n # k
        BY <2>2
      <4> QED
        BY Zenon, <2>3, <4>1
    <3> QED
      BY Zenon, <2>3, <2>5, <3>1, <3>2, <3>3
  <2>6. ASSUME NEW n \in 1..Len(made'), Current(n)' PROVE Accounted(n)'
    <3>1. CASE n = k
      <4>1. Len(ctrls) + 1 \in 1..Len(ctrls') /\ ctrls'[Len(ctrls) + 1] = n
        BY <2>3, <3>1
      <4> QED
        BY Zenon, <4>1 DEF Accounted
    <3>2. CASE n # k
      <4>1. n \in 1..Len(made)
        BY <2>2, <3>2
      <4>2. Current(n) /\ made[n] # e /\ made'[n] = made[n]
        BY Zenon, <2>2, <2>6, <4>1
      <4>3. made[n] \in Subsystem
        BY <4>1 DEF Reported
      <4>4. Accounted(n) /\ ~Retrying(made[n])
        BY Zenon, <2>1, <4>1, <4>2, <4>3 DEF Reported, ReportedOnce, Accounted
      <4>5. \A i \in 1..Len(ctrls) : i \in 1..Len(ctrls')
        BY <2>3
      <4> QED
        BY Zenon, <2>1, <2>3, <4>2, <4>4, <4>5 DEF Accounted
    <3> QED
      BY Zenon, <3>1, <3>2
  <2> QED
    BY <2>1, <2>2, <2>3, <2>4, <2>5, <2>6 DEF Reported, ReportedOnce, Accounted
<1>2. CASE ConnectFails /\ ~Adds(Head(todo))
  <2>1. PICK e : e = Head(todo)
    BY Zenon
  <2>2. First /\ GivesUp(e) /\ UNCHANGED <<pc, kernel, made, ctrls>>
    BY Zenon, <1>2, <2>1 DEF ConnectFails
  <2>3. /\ warned \subseteq warned' /\ tries' \in Nat /\ (Retrying(e)' \/ e \in warned')
        /\ \A f \in Subsystem : Retrying(f) => f = e
    BY Zenon, <2>1, <2>2, GivesUpWarns
  <2> QED
    BY Zenon, <2>2, <2>3, NothingAdded
<1>3. CASE ConnectFails /\ Adds(Head(todo))
  <2> DEFINE k == Len(made) + 1
  <2>e. PICK e : e = Head(todo)
    BY Zenon
  <2>1. /\ e \in Subsystem /\ e \notin kernel /\ Adds(e) /\ ctrls' = ctrls
        /\ First /\ GivesUp(e) /\ UNCHANGED pc
    BY Zenon, <1>3, <2>e DEF ConnectFails
  <2>2. /\ warned \subseteq warned' /\ tries' \in Nat /\ (Retrying(e)' \/ e \in warned')
        /\ \A f \in Subsystem : Retrying(f) => f = e
    BY Zenon, <2>1, <2>e, GivesUpWarns
  <2>3. /\ made' \in Seq(Subsystem) /\ Len(made) \in Nat /\ Len(made') = k /\ made'[k] = e
        /\ \A n \in 1..Len(made) : made'[n] = made[n]
        /\ \A n \in 1..Len(made) : Current(n)' => Current(n) /\ made[n] # e
    BY Zenon, <2>1, AddsOne
  <2>4. ASSUME NEW i \in 1..Len(ctrls) PROVE ctrls[i] \in 1..Len(made')
    <3>1. ctrls[i] \in 1..Len(made)
      BY Zenon DEF Reported, ReportedOnce
    <3> QED
      BY <2>3, <3>1
  <2>5. ASSUME NEW n \in 1..Len(made'), Current(n)' PROVE Accounted(n)'
    <3>1. CASE n = k
      BY Zenon, <2>2, <2>3, <3>1 DEF Accounted, Retrying, First
    <3>2. CASE n # k
      <4>1. n \in 1..Len(made)
        BY <2>3, <3>2
      <4>2. Current(n) /\ made[n] # e /\ made'[n] = made[n]
        BY Zenon, <2>3, <2>5, <4>1
      <4>3. made[n] \in Subsystem
        BY <4>1 DEF Reported
      <4>4. Accounted(n) /\ ~Retrying(made[n])
        BY Zenon, <2>2, <4>1, <4>2, <4>3 DEF Reported, ReportedOnce, Accounted
      <4> QED
        BY Zenon, <2>1, <2>2, <4>2, <4>4 DEF Accounted
    <3> QED
      BY Zenon, <3>1, <3>2
  <2> QED
    BY Zenon, <2>1, <2>2, <2>3, <2>4, <2>5 DEF Reported, ReportedOnce, Accounted
<1>4. CASE Already
  <2>1. First /\ UNCHANGED <<pc, made, ctrls, kernel>>
    BY Zenon, <1>4 DEF Already, env
  <2>2. CASE GivesUp(Head(todo))
    <3>1. PICK e : e = Head(todo)
      BY Zenon
    <3>2. /\ warned \subseteq warned' /\ tries' \in Nat /\ (Retrying(e)' \/ e \in warned')
          /\ \A f \in Subsystem : Retrying(f) => f = e
      BY Zenon, <2>1, <2>2, <3>1, GivesUpWarns
    <3> QED
      BY Zenon, <2>1, <3>2, NothingAdded
  <2>3. CASE tries = 0 /\ NextEntry /\ UNCHANGED warned
    <3>1. tries' = 0 /\ \A e \in Subsystem : ~Retrying(e)
      BY <2>3 DEF NextEntry, Retrying
    <3>2. tries' \in Nat
      BY <3>1
    <3> QED
      BY Zenon, <2>1, <2>3, <3>1, <3>2, NothingAdded
  <2> QED
    BY Zenon, <1>4, <2>2, <2>3 DEF Already
<1>5. CASE Skips
  <2>1. UNCHANGED <<made, ctrls, kernel, warned>> /\ tries' = 0 /\ Head(todo) \notin Subsystem
    BY Zenon, <1>5, KernelAssumption DEF Skips, NextEntry, env
  <2>2. tries' \in Nat /\ \A e \in Subsystem : ~Retrying(e)
    BY <2>1 DEF Retrying
  <2> QED
    BY Zenon, <2>1, <2>2, NothingAdded
<1>6. CASE Discover \/ Ends
  <2>1. UNCHANGED <<made, ctrls, kernel, warned, tries>> /\ ~First
    BY Zenon, <1>6 DEF Discover, AddsDiscovery, ReadFails, ReadsHeader, ReadsLog, Unpacks,
       ReadsAgain, Returns, Ends, env, loop, First
  <2> QED
    BY Zenon, <2>1, NothingAdded DEF Reported, Retrying
<1>7. CASE Changes \/ Loses \/ UNCHANGED vars
  <2>1. UNCHANGED <<made, ctrls, warned, tries, pc, todo>> /\ kernel' \subseteq kernel
    BY Zenon, <1>7 DEF Changes, Loses, vars, env, loop
  <2> QED
    BY Zenon, <2>1, NothingAdded DEF Reported, Retrying, First
<1>8. QED
  BY Zenon, <1>1, <1>2, <1>3, <1>4, <1>5, <1>6, <1>7 DEF Next, ConnectAll

\* ConnectAll returns what it added, once each, and warns about the rest, for
\* every log, however many of its entries are the same, every number of
\* attempts and every pattern of failures and losses.
THEOREM EachIsReportedOnce == Spec => []ReportedOnce
<1>1. Init => Reported
  BY DEF Init, Reported, ReportedOnce
<1>2. Reported => ReportedOnce
  BY Zenon DEF Reported
<1>3. QED
  BY <1>1, <1>2, ReportedStep, PTL DEF Spec
============================================================================

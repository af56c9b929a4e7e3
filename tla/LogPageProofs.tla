--------------------------- MODULE LogPageProofs ---------------------------
(***************************************************************************)
(* What getLogPageEntries returns is one generation of the log, for every  *)
(* set of entries, page size (of three units or more), length of the log   *)
(* and number of changes.                                                  *)
(***************************************************************************)
EXTENDS LogPage, SequenceTheorems, TLAPS

Unit == Entry \cup {Zero}

\* The offset the next request has is never one: only then would the answer
\* start with a header and not with the entry before the ones wanted.
Progress ==
    /\ pc = "header" => res = <<>>
    /\ pc \in {"entries", "check", "done"} => genCtr \in 1..GenCounter
    /\ pc \in {"entries", "check"} => Len(res) <= numRec
    /\ pc = "entries" /\ paged => Len(res) # 1
    /\ pc = "entries" /\ ~paged => res = <<>>
    /\ pc = "check" => Len(res) = numRec

\* While the generation is the one of the first header, what was read so far
\* is the beginning of the log.
Prefix ==
    pc \in {"entries", "check"} /\ genCtr = GenCounter =>
        /\ numRec = Len(Log)
        /\ \A i \in 1..Len(res) : res[i] = Log[i]

\* What was returned is the log of its generation, element by element.
Returned ==
    pc = "done" =>
        /\ Len(res) = Len(versions[genCtr])
        /\ \A i \in 1..Len(res) : res[i] = versions[genCtr][i]

IInv == TypeOK /\ Progress /\ Prefix /\ Returned /\ PagesFit

\* The logs of the model are sequences of entries.
LEMMA LogsAreSequences == Logs \subseteq Seq(Entry)
  BY SeqDef, LogPageAssumption DEF Logs

\* The current log is one.
LEMMA LogIsSequence ==
  ASSUME TypeOK
  PROVE  Log \in Seq(Entry) /\ Len(Log) \in Nat /\ GenCounter \in Nat \ {0}
  <1>1. GenCounter \in Nat \ {0}
    BY LenProperties DEF TypeOK, GenCounter
  <1>2. Log \in Seq(Entry)
    BY <1>1, ElementOfSeq DEF TypeOK, Log, GenCounter
  <1> QED
    BY <1>1, <1>2, LenProperties

\* The initial states satisfy the invariant.
LEMMA InitIInv == Init => IInv
  <1> SUFFICES ASSUME Init PROVE IInv
    OBVIOUS
  <1>1. PICK l \in Logs : versions = <<l>>
    BY DEF Init
  <1>2. versions \in Seq(Seq(Entry)) /\ Len(versions) = 1
    BY <1>1, LogsAreSequences
  <1>3. res \in Seq(Unit)
    BY EmptySeq DEF Init
  <1> QED
    BY <1>2, <1>3 DEF Init, IInv, TypeOK, Progress, Prefix, Returned, PagesFit,
       GenCounter, Unit

\* The shape of the first answer and of the others.
Shaped(offset, size) ==
    \/ /\ offset = 0 /\ LogOffset(offset) = 0 /\ HeaderUnits(offset) = 1
       /\ Filled(offset, size) =
            IF Len(Log) < size - 1 THEN Len(Log) ELSE size - 1
    \/ /\ offset > 1 /\ LogOffset(offset) = offset - 1
       /\ HeaderUnits(offset) = 0
       /\ Filled(offset, size) =
            IF Len(Log) < offset THEN 0
            ELSE IF Len(Log) - offset < size - 1 THEN Len(Log) - offset + 1
            ELSE size

\* Every answer has it unless its offset is one.
LEMMA Shape ==
  ASSUME TypeOK, NEW offset \in Nat, NEW size \in Nat \ {0}, offset # 1
  PROVE  Shaped(offset, size)
  <1>1. CASE offset = 0
    <2>1. LogOffset(offset) = 0 /\ NumEntries(offset, size) = size - 1
      BY <1>1 DEF LogOffset, NumEntries
    <2> QED
      BY <1>1, <2>1, LogIsSequence DEF Filled, HeaderUnits, Shaped
  <1>2. CASE offset > 1
    <2>1. LogOffset(offset) = offset - 1 /\ NumEntries(offset, size) = size
      BY <1>2 DEF LogOffset, NumEntries
    <2> QED
      BY <1>2, <2>1, LogIsSequence DEF Filled, HeaderUnits, Shaped
  <1> QED
    BY <1>1, <1>2

\* An answer fits unless its offset is one.
LEMMA Fits ==
  ASSUME TypeOK, NEW offset \in Nat, NEW size \in Nat \ {0}, offset # 1
  PROVE  /\ Filled(offset, size) \in Nat
         /\ ~Overflows(offset, size)
  <1>1. Shaped(offset, size)
    BY Shape
  <1> QED
    BY <1>1, LogIsSequence DEF Overflows, Shaped

\* The entries the host takes from an answer are as many as fit behind the
\* first unit and are wanted, and if the log has the length the host expects
\* they are the ones behind the offset.
LEMMA Batch ==
  ASSUME TypeOK, NEW offset \in Nat, NEW size \in Nat \ {0}, offset # 1,
         offset <= numRec
  PROVE  LET b == EntriesOf(Answer(offset, size), offset)
         IN  /\ b \in Seq(Unit)
             /\ Len(b) = IF size - 1 < numRec - offset THEN size - 1
                         ELSE numRec - offset
             /\ numRec = Len(Log) =>
                    \A i \in 1..Len(b) : b[i] = Log[offset + i]
  <1> DEFINE n == IF size - 1 < numRec - offset THEN size - 1 ELSE numRec - offset
             b == EntriesOf(Answer(offset, size), offset)
  <1>0. Shaped(offset, size)
    BY Shape
  <1>1. n \in Nat /\ n <= size - 1
    BY DEF TypeOK
  <1>2. Len(Answer(offset, size)) = size
    BY DEF Answer
  <1>3. b = [i \in 1..n |-> Answer(offset, size)[i + 1]]
    BY <1>2 DEF EntriesOf
  <1>4. \A i \in 1..n : Answer(offset, size)[i + 1] \in Unit
    <2> SUFFICES ASSUME NEW i \in 1..n
                 PROVE  Answer(offset, size)[i + 1] \in Unit
      OBVIOUS
    <2> DEFINE h == HeaderUnits(offset)
               j == LogOffset(offset) + (i + 1) - h
    <2>1. i + 1 \in 1..size /\ ~(i + 1 <= h)
      BY <1>1 DEF HeaderUnits
    <2>2. Answer(offset, size)[i + 1] =
            IF i + 1 <= h + Filled(offset, size) THEN Log[j] ELSE Zero
      BY <2>1 DEF Answer
    <2>3. ASSUME i + 1 <= h + Filled(offset, size) PROVE j \in 1..Len(Log)
      BY SMTT(30), <1>0, <2>1, <2>3, LogIsSequence DEF Shaped
    <2>4. ASSUME i + 1 <= h + Filled(offset, size) PROVE Log[j] \in Entry
      BY <2>3, <2>4, LogIsSequence, ElementOfSeq
    <2> QED
      BY <2>2, <2>4 DEF Unit
  <1>5. b \in Seq(Unit) /\ Len(b) = n
    <2> HIDE DEF n
    <2>1. b \in [1..n -> Unit]
      BY <1>3, <1>4
    <2> QED
      BY <2>1, <1>1, SeqDef
  <1>6. ASSUME numRec = Len(Log), NEW i \in 1..n
        PROVE  b[i] = Log[offset + i]
    <2>1. b[i] = Answer(offset, size)[i + 1] /\ i + 1 \in 1..size
      BY <1>1, <1>3
    <2>2. ~(i + 1 <= HeaderUnits(offset))
      BY DEF HeaderUnits
    <2>3. i + 1 <= HeaderUnits(offset) + Filled(offset, size)
      BY SMTT(30), <1>0, <1>6, <2>1, LogIsSequence DEF Shaped
    <2>4. LogOffset(offset) + (i + 1) - HeaderUnits(offset) = offset + i
      BY DEF LogOffset, HeaderUnits
    <2> QED
      BY <2>1, <2>2, <2>3, <2>4 DEF Answer
  <1> QED
    BY <1>5, <1>6

\* A request for entries keeps the invariant, whatever its size, if the
\* offset is the number of entries read so far.
LEMMA EntriesStep ==
  ASSUME IInv, pc = "entries", NEW size \in Nat \ {0},
         ReadsEntries(Len(res), size),
         paged => size >= 3, ~paged => size = 1 + numRec,
         UNCHANGED <<versions, paged, numRec, genCtr>>
  PROVE  IInv'
  <1> DEFINE b == EntriesOf(Answer(Len(res), size), Len(res))
  <1>1. Len(res) \in Nat /\ Len(res) # 1 /\ Len(res) <= numRec /\ res \in Seq(Unit)
    <2>1. res \in Seq(Unit) /\ Len(res) \in Nat
      BY LenProperties DEF IInv, TypeOK, Unit
    <2>2. ~paged => Len(res) = 0
      BY EmptySeq DEF IInv, Progress
    <2>3. Len(res) # 1
      BY <2>2 DEF IInv, Progress
    <2> QED
      BY <2>1, <2>3 DEF IInv, Progress
  <1>2. /\ b \in Seq(Unit)
        /\ Len(b) = IF size - 1 < numRec - Len(res) THEN size - 1
                    ELSE numRec - Len(res)
        /\ numRec = Len(Log) => \A i \in 1..Len(b) : b[i] = Log[Len(res) + i]
    BY Zenon, <1>1, Batch DEF IInv
  <1>3. ~Overflows(Len(res), size)
    BY <1>1, Fits DEF IInv
  <1>4. res' = res \o b
    BY <1>3 DEF ReadsEntries
  <1>5. pc' = IF paged /\ Len(res') < numRec THEN "entries" ELSE "check"
    BY <1>3 DEF ReadsEntries
  <1> HIDE DEF b
  <1>6. /\ res' \in Seq(Unit) /\ Len(res') = Len(res) + Len(b)
        /\ \A i \in 1..Len(res) + Len(b) :
              res'[i] = IF i <= Len(res) THEN res[i] ELSE b[i - Len(res)]
    BY <1>1, <1>2, <1>4, ConcatProperties
  <1>7. Len(b) \in Nat /\ numRec \in Nat
    BY <1>2, LenProperties DEF IInv, TypeOK
  <1>8. TypeOK'
    BY <1>5, <1>6 DEF IInv, TypeOK, Unit, GenCounter
  <1>9. Len(res') <= numRec /\ Len(res') \in Nat
    BY <1>1, <1>2, <1>6, <1>7
  <1>10. pc' = "entries" => paged /\ Len(res') # 1
    BY <1>1, <1>2, <1>5, <1>6, <1>7
  <1>11. pc' = "check" => Len(res') = numRec
    <2>1. CASE paged
      BY <2>1, <1>5, <1>9, <1>7
    <2>2. CASE ~paged
      <3>1. Len(res) = 0
        BY <2>2, EmptySeq DEF IInv, Progress
      <3> QED
        BY <2>2, <3>1, <1>2, <1>6, <1>7
    <2> QED
      BY <2>1, <2>2
  <1>12. Progress'
    BY <1>5, <1>9, <1>10, <1>11 DEF IInv, Progress, GenCounter
  <1>13. Prefix'
    <2> SUFFICES ASSUME genCtr = GenCounter, NEW i \in 1..Len(res')
                 PROVE  numRec = Len(Log) /\ res'[i] = Log[i]
      <3>1. ASSUME genCtr = GenCounter PROVE numRec = Len(Log)
        BY <3>1 DEF IInv, Prefix
      <3> QED
        BY <3>1 DEF Prefix, Log, GenCounter
    <2>1. numRec = Len(Log) /\ \A j \in 1..Len(res) : res[j] = Log[j]
      BY DEF IInv, Prefix
    <2>2. CASE i <= Len(res)
      BY <2>1, <2>2, <1>1, <1>6, <1>7
    <2>3. CASE ~(i <= Len(res))
      <3>1. i - Len(res) \in 1..Len(b) /\ Len(res) + (i - Len(res)) = i
        BY <2>3, <1>1, <1>6, <1>7
      <3>2. b[i - Len(res)] = Log[Len(res) + (i - Len(res))]
        BY SMTT(30), <3>1, <2>1, <1>2
      <3> QED
        BY <2>1, <2>3, <3>1, <3>2, <1>1, <1>6, <1>7
    <2> QED
      BY <2>2, <2>3
  <1> QED
    BY <1>5, <1>8, <1>12, <1>13 DEF IInv, Returned, PagesFit

\* A change of the log keeps it: the versions that were there stay.
LEMMA ChangeStep ==
  ASSUME IInv, LogChanges
  PROVE  IInv'
  <1>1. PICK l \in Logs : versions' = Append(versions, l)
    BY DEF LogChanges
  <1>2. /\ versions' \in Seq(Seq(Entry)) /\ Len(versions') = Len(versions) + 1
        /\ \A i \in 1..Len(versions) : versions'[i] = versions[i]
    BY <1>1, LogsAreSequences, AppendProperties DEF IInv, TypeOK
  <1>3. GenCounter \in Nat \ {0} /\ GenCounter' = GenCounter + 1
    BY <1>2, LogIsSequence DEF IInv, GenCounter
  <1>4. TypeOK'
    BY <1>2, <1>3 DEF IInv, TypeOK, LogChanges
  <1>5. Progress'
    BY <1>3 DEF IInv, Progress, LogChanges
  <1>6. Prefix'
    BY <1>3, <1>5 DEF Progress, Prefix, IInv, LogChanges
  <1>7. Returned'
    BY <1>2 DEF IInv, Returned, Progress, LogChanges, GenCounter
  <1> QED
    BY <1>4, <1>5, <1>6, <1>7 DEF IInv, PagesFit, LogChanges

\* Every step keeps the invariant.
LEMMA NextIInv ==
  ASSUME IInv, [Next]_vars
  PROVE  IInv'
  <1>1. CASE ReadsHeader
    <2>1. Header.n = Len(Log) /\ Header.g = GenCounter
      BY DEF Header
    <2>2. numRec' = Len(Log) /\ genCtr' = GenCounter /\ res' = <<>> /\ res = <<>>
      BY <1>1, <2>1 DEF ReadsHeader, IInv, Progress
    <2>3. Log' = Log /\ GenCounter' = GenCounter
      BY <1>1 DEF ReadsHeader, Log, GenCounter
    <2>4. Len(res') = 0 /\ Len(Log) \in Nat /\ GenCounter \in Nat \ {0}
      BY <2>2, LogIsSequence, EmptySeq DEF IInv
    <2>5. pc' \in {"entries", "check"} /\ (pc' = "check" => Len(Log) = 0)
      BY <1>1, <2>1 DEF ReadsHeader
    <2>6. TypeOK'
      BY <1>1, <2>2, <2>3, <2>4, <2>5 DEF TypeOK, IInv, ReadsHeader
    <2>7. Progress'
      BY <2>2, <2>3, <2>4, <2>5 DEF Progress
    <2>8. Prefix'
      BY <2>2, <2>3, <2>4 DEF Prefix
    <2> QED
      BY <2>5, <2>6, <2>7, <2>8 DEF IInv, Returned, PagesFit
  <1>2. CASE ReadsPage
    BY <1>2, EntriesStep, LogPageAssumption DEF ReadsPage
  <1>3. CASE ReadsAll
    <2>1. Len(res) = 0 /\ 1 + numRec \in Nat \ {0}
      BY <1>3, EmptySeq DEF ReadsAll, IInv, Progress, TypeOK
    <2> QED
      BY <1>3, <2>1, EntriesStep DEF ReadsAll
  <1>4. CASE ChecksHeader
    BY <1>4, LogIsSequence
    DEF ChecksHeader, IInv, TypeOK, Progress, Prefix, Returned, PagesFit, Header,
        GenCounter, Log
  <1>5. CASE Aborts
    BY <1>5 DEF Aborts, IInv, TypeOK, Progress, Prefix, Returned, PagesFit, GenCounter
  <1>6. CASE LogChanges
    BY <1>6, ChangeStep
  <1>7. CASE UNCHANGED vars
    BY <1>7 DEF vars, IInv, TypeOK, Progress, Prefix, Returned, PagesFit, GenCounter, Log
  <1> QED
    BY <1>1, <1>2, <1>3, <1>4, <1>5, <1>6, <1>7 DEF Next, Reads

\* The invariant holds throughout.
THEOREM Invariance == Spec => []IInv
  BY InitIInv, NextIInv, PTL DEF Spec

\* No page is refused, for every page size of three units or more.
THEOREM PagesAlwaysFit == Spec => []PagesFit
  <1>1. IInv => PagesFit
    BY DEF IInv
  <1> QED
    BY <1>1, Invariance, PTL

\* What getLogPageEntries returns is the whole log of one generation.
THEOREM OneVersion == Spec => []ReturnsOneVersion
  <1>1. IInv => ReturnsOneVersion
    <2> SUFFICES ASSUME IInv, pc = "done" PROVE res = versions[genCtr]
      BY DEF ReturnsOneVersion
    <2>1. genCtr \in 1..Len(versions)
      BY DEF IInv, Progress, GenCounter
    <2>2. versions[genCtr] \in Seq(Entry)
      BY <2>1, ElementOfSeq DEF IInv, TypeOK
    <2>3. versions[genCtr] \in Seq(Unit) /\ res \in Seq(Unit)
      BY <2>2, SeqMonotonic DEF IInv, TypeOK, Unit
    <2> QED
      BY <2>3, SeqEqual DEF IInv, Returned
  <1> QED
    BY <1>1, Invariance, PTL
============================================================================

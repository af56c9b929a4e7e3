------------------------------ MODULE LogPage ------------------------------
(***************************************************************************)
(* Reading the discovery log (nvmehost/tcp_queue.go, getLogPageEntries)    *)
(* from the discovery controller of pkg/nvme/discovery.go while the log    *)
(* changes.  The host asks for the header, for the entries, in pages or at *)
(* once, and for the header again; a changed generation counter makes it   *)
(* fail.  It waits for every answer, so a request and its answer are one   *)
(* step.  Sizes and offsets are in units of 1024 bytes: the size of the    *)
(* header and of an entry.                                                 *)
(***************************************************************************)
EXTENDS Naturals, Sequences

CONSTANTS Entry, Zero,  \* what an entry may be, and 1024 zero bytes
          PageUnits,    \* the size of a page: 4 in the code
          MaxLen, MaxVersion \* bounds of the model

ASSUME LogPageAssumption ==
    /\ PageUnits \in Nat /\ PageUnits >= 3
    /\ MaxLen \in Nat /\ MaxVersion \in Nat

VARIABLES versions,     \* the logs of all generations up to the current one
          paged,        \* logPagePaginationEnabled
          pc, numRec, genCtr, res

vars == <<versions, paged, pc, numRec, genCtr, res>>

Logs == UNION {[1..n -> Entry] : n \in 0..MaxLen}
GenCounter == Len(versions)
Log == versions[GenCounter]

\* Every variable has its type; in particular no header is returned as an
\* entry, although the entries of all pages but the first follow no header.
TypeOK ==
    /\ versions \in Seq(Seq(Entry)) /\ GenCounter >= 1
    /\ paged \in BOOLEAN
    /\ pc \in {"header", "entries", "check", "done", "failed", "panic"}
    /\ numRec \in Nat /\ genCtr \in Nat
    /\ res \in Seq(Entry \cup {Zero})

Init ==
    /\ versions \in {<<l>> : l \in Logs}
    /\ paged \in BOOLEAN
    /\ pc = "header" /\ numRec = 0 /\ genCtr = 0 /\ res = <<>>

----------------------------------------------------------------------------
(* The controller *)

Header == [g |-> GenCounter, n |-> Len(Log)]

\* Where in the log the entries of an answer start.
LogOffset(offset) == IF offset > 0 THEN offset - 1 ELSE 0

\* How many entries fit, the header taken off on the first page only ...
NumEntries(offset, size) == IF offset = 0 THEN size - 1 ELSE size

\* ... and how many the log has to offer.
Filled(offset, size) ==
    LET left == Len(Log) - LogOffset(offset)
    IN  IF Len(Log) <= LogOffset(offset) THEN 0
        ELSE IF left < NumEntries(offset, size) THEN left
        ELSE NumEntries(offset, size)

\* The header is written if the entries start with the first one.
HeaderUnits(offset) == IF LogOffset(offset) = 0 THEN 1 ELSE 0

\* Writing past the end of the answer is an error.  execute has another one,
\* for a queue without a discovery subsystem; no log page is read on such a
\* queue, because its connect would have registered with the subsystem.
Overflows(offset, size) == HeaderUnits(offset) + Filled(offset, size) > size

\* Mutant: the answer ends with the last entry.
AnswerShort(offset, size) ==
    LET h == HeaderUnits(offset)
    IN  [i \in 1..(h + Filled(offset, size)) |->
            IF i <= h THEN Header ELSE Log[LogOffset(offset) + i - h]]

\* The answer: header, entries, and zeros up to the size asked for.
Answer(offset, size) ==
    LET h == HeaderUnits(offset)
    IN  [i \in 1..size |-> IF i <= h THEN Header
                           ELSE IF i <= h + Filled(offset, size)
                           THEN Log[LogOffset(offset) + i - h] ELSE Zero]

LogChanges ==
    /\ GenCounter < MaxVersion
    /\ \E l \in Logs : l # Log /\ versions' = Append(versions, l)
    /\ UNCHANGED <<paged, pc, numRec, genCtr, res>>

----------------------------------------------------------------------------
(* The host *)

\* recvLogPageDataPdu: behind the first unit, which is taken for a header,
\* the entries number offset and up, below numRec.
EntriesOf(data, offset) ==
    [i \in 1..(IF Len(data) - 1 < numRec - offset THEN Len(data) - 1
               ELSE numRec - offset) |-> data[i + 1]]

\* The first request: the header alone.
ReadsHeader ==
    /\ pc = "header"
    /\ numRec' = Header.n /\ genCtr' = Header.g
    /\ pc' = IF paged /\ Header.n = 0 THEN "check" ELSE "entries"
    /\ UNCHANGED <<versions, paged, res>>

\* A request for entries.  An answer with an error status carries no data,
\* which sendDiscLogPageRequest dereferences.  What it does with data of size
\* zero does not matter: it asks for a unit or more, and gets them.
ReadsEntries(offset, size) ==
    IF Overflows(offset, size) THEN pc' = "panic" /\ UNCHANGED res
    ELSE /\ res' = res \o EntriesOf(Answer(offset, size), offset)
         /\ pc' = IF paged /\ Len(res') < numRec THEN "entries" ELSE "check"

\* With pagination the offset is the number of entries read so far.
ReadsPage ==
    /\ pc = "entries" /\ paged
    /\ ReadsEntries(Len(res), PageUnits)
    /\ UNCHANGED <<versions, paged, numRec, genCtr>>

ReadsAll ==
    /\ pc = "entries" /\ ~paged
    /\ ReadsEntries(0, 1 + numRec)
    /\ UNCHANGED <<versions, paged, numRec, genCtr>>

\* Mutant: the generation counter is not compared.
ChecksNothing ==
    /\ pc = "check"
    /\ pc' = IF Len(res) = numRec THEN "done" ELSE "failed"
    /\ UNCHANGED <<versions, paged, numRec, genCtr, res>>

\* The header once more: nothing may have changed.
ChecksHeader ==
    /\ pc = "check"
    /\ pc' = IF Len(res) = numRec /\ genCtr = Header.g THEN "done" ELSE "failed"
    /\ UNCHANGED <<versions, paged, numRec, genCtr, res>>

\* The connection fails or the client is stopped.
Aborts ==
    /\ pc \in {"header", "entries", "check"}
    /\ pc' = "failed"
    /\ UNCHANGED <<versions, paged, numRec, genCtr, res>>

Reads == ReadsHeader \/ ReadsPage \/ ReadsAll \/ ChecksHeader
Next == Reads \/ Aborts \/ LogChanges

Spec == Init /\ [][Next]_vars

\* The host goes on as long as it gets answers.
FairSpec == Spec /\ WF_vars(Reads)

----------------------------------------------------------------------------
(* Properties *)

\* What getLogPageEntries returns is the whole log of one generation, the one
\* that was current when the last header was read, however the pages overlap
\* and whatever changed in between.
ReturnsOneVersion == pc = "done" => res = versions[genCtr]

\* The controller never has to refuse a page of this host, so the missing
\* data of a refused one is never dereferenced.
PagesFit == pc # "panic"

\* Reading ends, also when the log shrinks while it is read: every page
\* brings entries, zeros if need be.
ReadingEnds == <>(pc \in {"done", "failed"})
============================================================================

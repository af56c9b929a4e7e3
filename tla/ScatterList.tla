---------------------------- MODULE ScatterList ----------------------------
(***************************************************************************)
(* pkg/nvme/sgl.go: a list of buffers of bufferLen bytes, the last one     *)
(* possibly shorter, with a writer and a reader that go through it with an *)
(* index and an offset.  One step is one iteration of a loop.  Indices     *)
(* start at 0, as in the code.                                             *)
(***************************************************************************)
EXTENDS Naturals, Sequences, SequencesExt

CONSTANTS Capacities,  \* the values of datalen
          BufferLens,  \* the values of bufferLen
          MaxStream,   \* bound of the model: bytes passed to Write
          MaxOut       \* bound of the model: bytes asked of Read

VARIABLES capacity, bufferLen,   \* the arguments of NewScatterList
          left,                  \* what it has yet to allocate
          buffers, len,          \* the list, and the bytes written
          writer, reader,        \* index and offset of each
          op, todo, n,           \* the call: what is left of it, what is done
          stream, out, asked,    \* as in ByteBuffer
          ret                    \* the result of the last call

list == <<capacity, bufferLen, left>>
call == <<op, todo, n, ret>>
vars == <<list, buffers, len, writer, reader, call, stream, out, asked>>

Cursor == [index : Nat, offset : Nat]
Start == [index |-> 0, offset |-> 0]

\* Every variable has its type; a cursor is inside a buffer, or at the end of
\* the list.
Inside(c) ==
    \/ c.index < Len(buffers) /\ c.offset < Len(buffers[c.index + 1])
    \/ c = [index |-> Len(buffers), offset |-> 0]
TypeOK ==
    /\ capacity \in Capacities /\ bufferLen \in BufferLens /\ left \in 0..capacity
    /\ buffers \in Seq(Seq(0..MaxStream)) /\ len \in 0..capacity
    /\ writer \in Cursor /\ reader \in Cursor
    /\ left = 0 => Inside(writer) /\ Inside(reader)
    /\ op \in {"idle", "write", "read"} /\ todo \in Nat /\ n \in Nat
    /\ stream \in 0..MaxStream /\ asked \in 0..MaxOut /\ out \in Seq(0..MaxStream)

\* Every caller whose data is not empty passes a buffer length that is not 0.
Init ==
    /\ capacity \in Capacities /\ bufferLen \in BufferLens
    /\ capacity > 0 => bufferLen > 0
    /\ left = capacity /\ buffers = <<>> /\ len = 0
    /\ writer = Start /\ reader = Start
    /\ op = "idle" /\ todo = 0 /\ n = 0 /\ ret = [n |-> 0, short |-> FALSE]
    /\ stream = 0 /\ out = <<>> /\ asked = 0

minInt(a, b) == IF a < b THEN a ELSE b

\* Mutant: the last buffer is as long as the others.
AllocatesWhole ==
    /\ left > 0
    /\ buffers' = Append(buffers, [i \in 1..bufferLen |-> 0])
    /\ left' = left - minInt(left, bufferLen)
    /\ UNCHANGED <<capacity, bufferLen, len, writer, reader, call, stream, out, asked>>

\* The loop of NewScatterList.
Allocates ==
    /\ left > 0
    /\ LET bufferSize == minInt(left, bufferLen)
       IN  /\ buffers' = Append(buffers, [i \in 1..bufferSize |-> 0])
           /\ left' = left - bufferSize
    /\ UNCHANGED <<capacity, bufferLen, len, writer, reader, call, stream, out, asked>>

\* A call of Write, or Read, with k bytes.
Write(k) ==
    /\ left = 0 /\ op = "idle" /\ stream + k <= MaxStream
    /\ op' = "write" /\ todo' = k /\ n' = 0 /\ stream' = stream + k
    /\ UNCHANGED <<list, buffers, len, writer, reader, ret, out, asked>>

Read(k) ==
    /\ left = 0 /\ op = "idle" /\ asked + k <= MaxOut
    /\ op' = "read" /\ todo' = k /\ n' = 0 /\ asked' = asked + k
    /\ UNCHANGED <<list, buffers, len, writer, reader, ret, stream, out>>

\* A cursor leaves a buffer when it has used all of it.
Advanced(c, k) ==
    IF c.offset + k < Len(buffers[c.index + 1]) THEN [c EXCEPT !.offset = @ + k]
    ELSE [index |-> c.index + 1, offset |-> 0]

\* The loop of Write: as much as fits into the buffer at the cursor.
WritesChunk ==
    /\ op = "write" /\ todo > 0 /\ writer.index < Len(buffers)
    /\ LET buffer == buffers[writer.index + 1]
           k == minInt(Len(buffer) - writer.offset, todo)
       IN  /\ buffers' = [buffers EXCEPT ![writer.index + 1] =
                            [i \in 1..Len(buffer) |->
                               IF i > writer.offset /\ i <= writer.offset + k
                               THEN stream - todo + (i - writer.offset) ELSE buffer[i]]]
           /\ todo' = todo - k /\ n' = n + k /\ len' = len + k
           /\ writer' = Advanced(writer, k)
    /\ UNCHANGED <<list, reader, op, ret, stream, out, asked>>

\* The loop of Read.
ReadsChunk ==
    /\ op = "read" /\ todo > 0 /\ reader.index < Len(buffers)
    /\ LET buffer == buffers[reader.index + 1]
           k == minInt(Len(buffer) - reader.offset, todo)
       IN  /\ out' = out \o SubSeq(buffer, reader.offset + 1, reader.offset + k)
           /\ todo' = todo - k /\ n' = n + k
           /\ reader' = Advanced(reader, k)
    /\ UNCHANGED <<list, buffers, len, writer, op, ret, stream, asked>>

\* ErrShortBuffer of Write and EOF of Read are ret.short.
Returns ==
    /\ \/ op = "write" /\ (todo = 0 \/ writer.index >= Len(buffers))
       \/ op = "read" /\ (todo = 0 \/ reader.index >= Len(buffers))
    /\ op' = "idle" /\ todo' = 0 /\ n' = 0 /\ ret' = [n |-> n, short |-> todo > 0]
    /\ UNCHANGED <<list, buffers, len, writer, reader, stream, out, asked>>

Next ==
    \/ Allocates \/ WritesChunk \/ ReadsChunk \/ Returns
    \/ \E k \in 0..MaxStream : Write(k)
    \/ \E k \in 0..MaxOut : Read(k)

Spec == Init /\ [][Next]_vars
\* The loops run; nobody need call.
FairSpec == Spec /\ WF_vars(Allocates \/ WritesChunk \/ ReadsChunk \/ Returns)

----------------------------------------------------------------------------
(* Properties *)

\* Where a cursor is, counted from the first byte: the methods Len of the
\* writer and the reader.
Position(c) == FoldSeq(+, 0, [i \in 1..c.index |-> Len(buffers[i])]) + c.offset

Flat == IF left > 0 THEN [i \in 1..capacity |-> 0] ELSE FlattenSeq(buffers)
Bytes == INSTANCE ByteBuffer
           WITH data <- Flat, wpos <- Position(writer), rpos <- Position(reader)

\* A scatter list is an array of bytes: no byte is lost, moved or written
\* twice where a call crosses the border of a buffer, ends at one or is empty,
\* an error is returned exactly if the array is too short, and every call
\* returns, on empty lists too.
ImplementsBytes == Bytes!Spec
============================================================================

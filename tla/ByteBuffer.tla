----------------------------- MODULE ByteBuffer -----------------------------
(***************************************************************************)
(* What pkg/nvme's scatter lists promise: an array of bytes with a writer  *)
(* and a reader that each start at the first byte and never go back.  A    *)
(* call copies as much as there is room, or data, for, in portions of any  *)
(* size, and reports an error if that is less than what was asked for.     *)
(*                                                                         *)
(* The bytes written are numbered: a call of length k writes the numbers   *)
(* that follow those of all calls before, so that a byte which is lost,    *)
(* moved or written twice can be told.  A byte never written is 0.         *)
(***************************************************************************)
EXTENDS Naturals, Sequences

CONSTANTS MaxStream,   \* bound of the model: bytes passed to Write
          MaxOut       \* bound of the model: bytes asked of Read

VARIABLES capacity,      \* how many bytes there is room for
          data,          \* the bytes
          wpos, rpos,    \* how many of them are written, and read
          op, todo, n,   \* the call: what is left of it, what is done
          stream, out,   \* all bytes passed to Write, all bytes read
          asked,         \* the number of bytes asked of Read
          ret            \* the result of the last call

vars == <<capacity, data, wpos, rpos, op, todo, n, stream, out, asked, ret>>

Init ==
    /\ capacity \in Nat /\ data = [i \in 1..capacity |-> 0] /\ wpos = 0 /\ rpos = 0
    /\ op = "idle" /\ todo = 0 /\ n = 0 /\ stream = 0 /\ out = <<>> /\ asked = 0
    /\ ret = [n |-> 0, short |-> FALSE]

Write(k) ==
    /\ op = "idle" /\ stream + k <= MaxStream
    /\ op' = "write" /\ todo' = k /\ n' = 0 /\ stream' = stream + k
    /\ UNCHANGED <<data, wpos, rpos, out, asked, ret>>

Read(k) ==
    /\ op = "idle" /\ asked + k <= MaxOut
    /\ op' = "read" /\ todo' = k /\ n' = 0 /\ asked' = asked + k
    /\ UNCHANGED <<data, wpos, rpos, stream, out, ret>>

CopyIn(k) ==
    /\ op = "write" /\ k <= todo /\ wpos + k <= Len(data)
    /\ data' = [i \in 1..Len(data) |->
                  IF i > wpos /\ i <= wpos + k THEN stream - todo + (i - wpos)
                  ELSE data[i]]
    /\ wpos' = wpos + k /\ todo' = todo - k /\ n' = n + k
    /\ UNCHANGED <<rpos, op, stream, out, asked, ret>>

CopyOut(k) ==
    /\ op = "read" /\ k <= todo /\ rpos + k <= Len(data)
    /\ out' = out \o SubSeq(data, rpos + 1, rpos + k)
    /\ rpos' = rpos + k /\ todo' = todo - k /\ n' = n + k
    /\ UNCHANGED <<data, wpos, op, stream, asked, ret>>

\* A call returns early only at the end of the array.
Return ==
    /\ \/ op = "write" /\ (todo = 0 \/ wpos = Len(data))
       \/ op = "read" /\ (todo = 0 \/ rpos = Len(data))
    /\ op' = "idle" /\ todo' = 0 /\ n' = 0 /\ ret' = [n |-> n, short |-> todo > 0]
    /\ UNCHANGED <<data, wpos, rpos, stream, out, asked>>

Next ==
    /\ \/ \E k \in 0..MaxStream : Write(k)
       \/ \E k \in 0..MaxOut : Read(k)
       \/ \E k \in 1..Len(data) : CopyIn(k) \/ CopyOut(k)
       \/ Return
    /\ UNCHANGED capacity

\* Every call returns.
Spec == Init /\ [][Next]_vars /\ []<>(op = "idle")
============================================================================

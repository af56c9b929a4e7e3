------------------------------ MODULE MCCache ------------------------------
(* Instances of Cache for TLC: two clusters A and B seen by one host, with *)
(* two endpoints in A and one in B.  The files name a1 and b1; a2 is a     *)
(* referral's, and without a port.                                         *)
EXTENDS Cache

MCKey == {"a1", "a2", "b1"}
MCPair == {"A", "B"}
MCPairOf == [k \in MCKey |-> IF k = "b1" THEN "B" ELSE "A"]

L(k, t) == [key |-> k, tmo |-> t]
MCContents == {{L("a1", NoTmo), L("b1", "t1")}, {L("a1", "t2")}}
MCAutoLines == {L("a1", "t2")}
============================================================================

----------------------------- MODULE MCService -----------------------------
(* Instances of Service for TLC. *)
EXTENDS Service

\* What may still happen: servers going up or down, events, changes.
Box(f, a, c) == [flaps : 0..f, aens : 0..a, changes : 0..c]
MCLive == Box(1, 1, 1) \cup Box(0, 1, 3) \cup Box(0, 2, 1) \cup Box(2, 0, 1)
MCClusters == Box(1, 0, 2)

MCEp2 == {"a1", "a2"}
MCOneCluster == [e \in MCEp2 |-> "A"]
MCTwoClusters == [e \in MCEp2 |-> IF e = "a1" THEN "A" ELSE "B"]
MCSelf == [e \in MCEp2 |-> e]

\* If one of the two servers answers at first, it may as well be the first.
MCInit == Init /\ up # {"a2"}
MCFairSpec == MCInit /\ [][Next]_vars /\ Fairness
============================================================================

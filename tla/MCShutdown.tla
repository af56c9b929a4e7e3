----------------------------- MODULE MCShutdown -----------------------------
(* Instances of Shutdown for TLC. *)
EXTENDS Shutdown

\* What may still happen: servers going up or down, events, changes.
Box(f, a, c) == [flaps : 0..f, aens : 0..a, changes : 0..c]
MCBudget == Box(0, 1, 1) \cup Box(1, 0, 1) \cup Box(0, 0, 2)

MCEp == {"a1", "a2"}
MCOneCluster == [e \in MCEp |-> "A"]
MCSelf == [e \in MCEp |-> e]

\* At first at most one server answers, which may as well be the first.
MCInit == ShutdownInit /\ up \subseteq {"a1"}
MCSpec == MCInit /\ [][ShutdownNext]_allVars /\ ShutdownFairness
=============================================================================

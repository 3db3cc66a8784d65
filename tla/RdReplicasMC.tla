----------------------------- MODULE RdReplicasMC ------------------------------
(***************************************************************************)
(* RdReplicas for TLC.  Keys and values are compared and never ordered, so *)
(* they are symmetric.  The call shares nothing with the other entities    *)
(* but the bound on changes, so that nothing is lost by having a behaviour *)
(* change other entities or make calls.                                    *)
(***************************************************************************)
EXTENDS RdReplicas

Symmetry == Permutations(Keys) \cup Permutations(Values)

CallsApart == tasks \in {0, changes}
===============================================================================

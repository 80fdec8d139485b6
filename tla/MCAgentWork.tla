---------------------------- MODULE MCAgentWork ----------------------------
(* One item, asked of a department or given to oneself, two agents, two    *)
(* bookings (a claim after a release needs a second), the calls it files   *)
(* for approval, one end of the process.                                   *)
EXTENDS AgentWork, TLC

CONSTANTS i1, r1, r2, asker, other, d1, d2

MCItems == {i1}
MCResources == {r1, r2}
MCCapacity == [r \in MCResources |-> 1]
MCEligible == MCResources \X MCItems
MCDependsOn == [i \in MCItems |-> {}]
MCTypes == {"task"}
MCLives == [i \in MCItems |-> {"running"}]
MCCharges == {0}
MCNone == {}
MCOpening == {0}
MCDeciders == {d1, d2}
MCSymmetry == Permutations(MCResources) \cup Permutations(Bookings) \cup Permutations(MCDeciders)
=============================================================================

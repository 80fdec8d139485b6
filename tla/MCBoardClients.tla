--------------------------- MODULE MCBoardClients --------------------------
(* One item, a task (which may be cancelled while open) or an incident     *)
(* (which may not), one dispatched agent beside another resource, one      *)
(* booking: every interleaving of the sweep, the dispatch, PATCH and the   *)
(* store's own operations.                                                 *)
EXTENDS BoardClients, TLC

CONSTANTS i1, r1, r2

MCItems == {i1}
MCResources == {r1, r2}
MCCapacity == [r \in MCResources |-> 1]
MCEligible == MCResources \X MCItems
MCDependsOn == [i \in MCItems |-> {}]
MCTypes == {"task", "incident"}
MCAgents == {r1}
MCLives == [i \in MCItems |-> {"running"}]
MCPatchStatuses == {"open", "blocked", "done"}
MCCharges == {0}
MCNone == {}
MCOpening == {0}
=============================================================================

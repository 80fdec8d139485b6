----------------------------- MODULE MCTickets -----------------------------
(* Up to four tickets, room for three at a time; the work of one principal *)
(* asks for less scope, that of the other for a ceiling.                   *)
EXTENDS Tickets

CONSTANTS tool, egress, p1, p2

MCEffects == {tool, egress}
MCPrincipals == {p1, p2}
MCAsks == [p \in MCPrincipals |->
             IF p = p1 THEN {[scope |-> {tool}, ceiling |-> Unbounded]}
                       ELSE {[scope |-> {tool, egress}, ceiling |-> 1]}]
=============================================================================

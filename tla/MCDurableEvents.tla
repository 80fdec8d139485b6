-------------------------- MODULE MCDurableEvents --------------------------
(* Three records of two events, a queue of one place, two bindings with a  *)
(* drain between them, and markers that keep one name.                     *)
EXTENDS DurableEvents, TLC

CONSTANTS r1, r2, r3, e1, e2

MCRecords == {r1, r2, r3}
MCEvents == {e1, e2}
TwoRecords == {r1, r3}
TwoEventOf == (r1 :> e1) @@ (r3 :> e2)
MCEventOf == (r1 :> e1) @@ (r2 :> e1) @@ (r3 :> e2)
=============================================================================

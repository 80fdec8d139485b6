-------------------------- MODULE MCDurableAnswer --------------------------
(* Two records of two events, one to be lost while the other marks its     *)
(* loss, a third event that has no records, and a scan of one marker.      *)
EXTENDS DurableAnswer, TLC

CONSTANTS r1, r2, e1, e2, e3

MCRecords == {r1, r2}
MCEvents == {e1, e2, e3}
MCEventOf == (r1 :> e1) @@ (r2 :> e2)
=============================================================================

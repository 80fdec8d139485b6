---------------------------- MODULE MCWorkBoard ----------------------------
(* A small board for TLC: two items (the second waits for the first), two  *)
(* resources (r1 holds one booking at a time, r2 two), three bookings.     *)
EXTENDS WorkBoard, TLC

CONSTANTS i1, i2, r1, r2

MCItems == {i1, i2}
MCResources == {r1, r2}
MCCapacity == (r1 :> 1) @@ (r2 :> 2)
MCEligible == MCResources \X MCItems
MCDependsOn == (i1 :> {}) @@ (i2 :> {i1})
MCTaskOnly == {"task"}
MCCharges == {2}
MCNoNames == {}
MCNamed == {"in_progress"}
MCOpening == {0, 2}
MCDeltas == {2}
MCNoDeltas == {}
MCLives == (i1 :> {"none"}) @@ (i2 :> {"running"})
MCNoTtl == [i \in MCItems |-> {"none"}]

BookingSymmetry == Permutations(Bookings)
=============================================================================

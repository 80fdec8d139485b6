-------------------------- MODULE MCEnvelopeGuard --------------------------
(* A ship that starts with key k0, rotates to k1, and is recovered from k0  *)
(* by r1, whose event has the number of k1's; one restart of the sender.    *)
EXTENDS EnvelopeGuard

CONSTANTS k0, k1, r1

MCKeys == {k0, k1, r1}
MCKeySeq == [k \in MCKeys |-> IF k = k0 THEN 0 ELSE 1]
MCExtends == {<<k1, k0>>, <<r1, k0>>}
MCOverrides == {<<r1, k1>>}
=============================================================================

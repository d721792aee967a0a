------------------------------ MODULE MCWorker ------------------------------
(***************************************************************************)
(* Instances of Worker for TLC: two urls of one domain, or of two domains. *)
(***************************************************************************)
EXTENDS Worker, TLC

CONSTANTS u1, u2, d1, d2, p1, p2, r1

SameDomain == u1 :> d1 @@ u2 :> d1
OwnDomain == u1 :> d1 @@ u2 :> d2
OnePartition == d1 :> p1 @@ d2 :> p1
TwoPartitions == d1 :> p1 @@ d2 :> p2
OneResultPartition == u1 :> r1 @@ u2 :> r1
AnyOutcome == u1 :> {"ok", "error"} @@ u2 :> {"error"}

WorkerSymmetry == Permutations(Workers)
=============================================================================

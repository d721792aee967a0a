---------------------------- MODULE MCApiProcess ----------------------------
(***************************************************************************)
(* An instance of ApiProcess, and so of JobsApi, for TLC: two urls of      *)
(* different domains, whose requests go to two partitions, posted alone,   *)
(* together, repeated or not at all, and an image that gets a second       *)
(* migration.                                                              *)
(***************************************************************************)
EXTENDS ApiProcess, TLC

CONSTANTS u1, u2, d1, d2, p1, p2

OwnDomain == u1 :> d1 @@ u2 :> d2
TwoPartitions == d1 :> p1 @@ d2 :> p2
SomeBodies == {<<>>} \cup {SeedUrls(<<u1, u2>>, n) : n \in {1, 2, 3, 5}}

JobSymmetry == Permutations(Jobs)
=============================================================================

---------------------------- MODULE MCAggregator ----------------------------
(***************************************************************************)
(* Instances of Aggregator for TLC: one job of up to two urls of one       *)
(* domain, so one partition of each topic carries it.                      *)
(***************************************************************************)
EXTENDS Aggregator, TLC

CONSTANTS u1, u2, d1, p1, r1

SameDomain == u1 :> d1 @@ u2 :> d1
OneRequestPartition == d1 :> p1
OneResultPartition == u1 :> r1 @@ u2 :> r1
AnyOutcome == u1 :> {"ok", "error"} @@ u2 :> {"error"}
FixedOutcome == u1 :> {"ok"} @@ u2 :> {"error"}

DistinctUrls == {<<u1, u2>>}
RepeatedUrl == {<<u1, u1>>}   \* what submit_job.js and bench_job.js post for one seed
OneUrl == {<<u1>>}
=============================================================================

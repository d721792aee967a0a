----------------------------- MODULE MCReadApi ------------------------------
(***************************************************************************)
(* An instance of ReadApi for TLC: two jobs, of two urls and of one.       *)
(***************************************************************************)
EXTENDS ReadApi, TLC

CONSTANTS j1, j2, u1, u2

SomeUrls == j1 :> {u1, u2} @@ j2 :> {u1}

SomeLimits == {-1, 0, 3}

ReadSymmetry == Permutations(Sinks)
=============================================================================

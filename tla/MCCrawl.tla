------------------------------ MODULE MCCrawl -------------------------------
(***************************************************************************)
(* An instance of Crawl for TLC: two origins of one host, each with a page *)
(* its robots.txt forbids.                                                 *)
(***************************************************************************)
EXTENDS Crawl, TLC

CONSTANTS u1, u2, d1, o1, o2

OneHost == u1 :> d1 @@ u2 :> d1
TwoOrigins == u1 :> o1 @@ u2 :> o2

HandlerSymmetry == Permutations(Handlers)
=============================================================================

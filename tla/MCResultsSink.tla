--------------------------- MODULE MCResultsSink ---------------------------
(***************************************************************************)
(* Instances of ResultsSink for TLC: two urls of one job whose results     *)
(* share a partition, or go to two.                                        *)
(***************************************************************************)
EXTENDS ResultsSink, TLC

CONSTANTS u1, u2, p1, p2

OnePartition == u1 :> p1 @@ u2 :> p1
TwoPartitions == u1 :> p1 @@ u2 :> p2

(***************************************************************************)
(* Sinks are interchangeable, and so are the two urls where each has a     *)
(* partition of its own, if the partitions change places with them.        *)
(***************************************************************************)
SinkSymmetry == Permutations(Sinks)

UrlSymmetry == {(u1 :> u1 @@ u2 :> u2 @@ p1 :> p1 @@ p2 :> p2),
                (u1 :> u2 @@ u2 :> u1 @@ p1 :> p2 @@ p2 :> p1)}

TwoPartitionSymmetry == {f @@ g : f \in SinkSymmetry, g \in UrlSymmetry}

(***************************************************************************)
(* Three messages and one fault, two and two, or one and three.            *)
(***************************************************************************)
FourMessagesAndFaults == Cardinality(Published) + failures + stops + evictions <= 4
=============================================================================

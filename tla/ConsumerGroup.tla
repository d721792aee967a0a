--------------------------- MODULE ConsumerGroup ---------------------------
(***************************************************************************)
(* One Kafka topic read by one consumer group, as the two services use it  *)
(* through kafkajs: worker/src/index.js for crawl_requests and             *)
(* api/src/consumers/resultsSink.js for crawl_results.  The broker and     *)
(* kafkajs are not part of the repository; what is kept of them is what    *)
(* the handlers depend on:                                                 *)
(*                                                                         *)
(*  - a partition is an append-only log, message number o (from 0) is      *)
(*    log[p][o + 1];                                                       *)
(*  - a partition has at most one owner in the group at a time;            *)
(*  - the owner reads from its position, which lives in its memory and is  *)
(*    set from the committed offset whenever the partition is assigned;    *)
(*  - with autoCommit: false the committed offset moves only when the      *)
(*    handler calls commitOffsets, but the position moves past a message   *)
(*    whenever its handler RESOLVES, committed or not;                     *)
(*  - commitOffsets of a member that lost the partition is refused;        *)
(*  - subscribe(fromBeginning: false): without a committed offset the      *)
(*    position starts at the end of the log.                               *)
(***************************************************************************)
EXTENDS Naturals, Sequences

CONSTANTS Partitions,  \* partitions of the topic
          Members,     \* consumer processes of the group
          Nobody,      \* the owner of an unassigned partition
          NoOffset     \* the committed offset of a partition never committed

VARIABLES log,         \* log[p]: every message appended to partition p
          committed,   \* committed[p]: the group's committed offset, or NoOffset
          owner,       \* owner[p]: the member that partition p is assigned to
          position     \* position[p]: offset the owner's consumer delivers next

(***************************************************************************)
(* The offset a newly assigned partition is read from.                     *)
(***************************************************************************)
StartOffset(p) == IF committed[p] = NoOffset THEN Len(log[p]) ELSE committed[p]

Ready(p, m) == owner[p] = m /\ position[p] < Len(log[p])

(***************************************************************************)
(* producer.send of one message.                                           *)
(***************************************************************************)
Publish(p, x) == log' = [log EXCEPT ![p] = Append(@, x)]

Assign(p, m) ==
    /\ owner[p] = Nobody
    /\ owner' = [owner EXCEPT ![p] = m]
    /\ position' = [position EXCEPT ![p] = StartOffset(p)]

(***************************************************************************)
(* The coordinator takes p away from its owner: another member joined, or  *)
(* the owner sent no heartbeat for a session timeout because its handler   *)
(* was still running.  The owner itself does not notice.                   *)
(***************************************************************************)
Evict(p) ==
    /\ owner[p] # Nobody
    /\ owner' = [owner EXCEPT ![p] = Nobody]

(***************************************************************************)
(* A member is gone from the group: all its partitions are free.           *)
(***************************************************************************)
Leave(m) ==
    owner' = [p \in Partitions |-> IF owner[p] = m THEN Nobody ELSE owner[p]]

(***************************************************************************)
(* commitOffsets([{partition: p, offset: o + 1}]) called by member m.      *)
(***************************************************************************)
CommitAccepted(p, m, o) ==
    /\ owner[p] = m
    /\ committed' = [committed EXCEPT ![p] = o + 1]

CommitRefused(p, m) == owner[p] # m

(***************************************************************************)
(* eachMessage resolved for message o: the owner's consumer moves on.      *)
(***************************************************************************)
Resolve(p, m, o) ==
    position' = IF owner[p] = m THEN [position EXCEPT ![p] = o + 1] ELSE position
=============================================================================

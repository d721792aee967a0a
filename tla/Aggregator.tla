----------------------------- MODULE Aggregator -----------------------------
(***************************************************************************)
(* The whole service: one api process, which answers POST /jobs (JobsApi)  *)
(* and runs the results sink (ResultsSink), and a group of workers         *)
(* (Worker).  They share the table jobs and the two topics:                *)
(*                                                                         *)
(*   POST /jobs --jobs row--------------------------------> PostgreSQL     *)
(*      \--requests--> workers --results--> sink --rows, counters--^       *)
(*                                                                         *)
(* Every step is a step of one component, except that the api process has  *)
(* one life: what stops it stops its handlers and its sink together.       *)
(***************************************************************************)
EXTENDS Naturals, Sequences, FiniteSets, SequencesExt

CONSTANTS Jobs, Urls, Domains, DomainOf, Workers, ApiProcess,
          RequestPartitions, RequestPartition, ResultPartitions, ResultPartition,
          Outcomes, Bodies, MaxUrls, ChunkSize,
          NotCreated, Deleted, NoBody, Garbage, NoWork, NoResult, Nobody, NoOffset,
          FreshGroup,    \* TRUE: first start, no group has committed an offset
          MaxFailures, MaxStops, MaxEvictions

VARIABLES jobs, articles, errors, rowLock,
          requests, reqCommitted, reqOwner, reqPosition,
          results, resCommitted, resOwner, resPosition,
          server, post, body, sent,
          wpc, wwork, wresult,
          spc, swork, sinserted,
          failures, stops, evictions

dbVars == <<articles, errors, rowLock>>   \* and jobs, which the api writes too
reqGroupVars == <<reqCommitted, reqOwner, reqPosition>>
resGroupVars == <<resCommitted, resOwner, resPosition>>
apiVars == <<server, post, body, sent>>
workerVars == <<wpc, wwork, wresult>>
sinkVars == <<spc, swork, sinserted>>
vars == <<jobs, dbVars, requests, reqGroupVars, results, resGroupVars,
          apiVars, workerVars, sinkVars, failures, stops, evictions>>

(***************************************************************************)
(* The bounds on the environments of Worker and ResultsSink are not used:  *)
(* here the api and the workers are their environment.                     *)
(***************************************************************************)
Api == INSTANCE JobsApi
Crawler == INSTANCE Worker WITH MaxRequests <- 0
Sink == INSTANCE ResultsSink
    WITH Sinks <- {ApiProcess}, MaxTotal <- MaxUrls, MaxResults <- 0

(***************************************************************************)
(* The components' assumptions on the constants they share.                *)
(***************************************************************************)
ASSUME AggregatorAssumption ==
    /\ IsFiniteSet(Urls)
    /\ DomainOf \in [Urls -> Domains]
    /\ RequestPartition \in [Domains -> RequestPartitions]
    /\ ResultPartition \in [Urls -> ResultPartitions]
    /\ Outcomes \in [Urls -> SUBSET {"ok", "error"}]
    /\ \A u \in Urls : Outcomes[u] # {}
    /\ Bodies \subseteq Seq(Urls)
    /\ MaxUrls \in Nat \ {0} /\ ChunkSize \in Nat \ {0}
    /\ FreshGroup \in BOOLEAN
    /\ MaxFailures \in Nat /\ MaxStops \in Nat /\ MaxEvictions \in Nat

ASSUME SentinelAssumption ==
    /\ NotCreated # Deleted
    /\ {NotCreated, Deleted} \cap (Sink!JobRow \cup Sink!Entry) = {}
    /\ NoBody \notin Seq(Urls)
    /\ Garbage \notin Crawler!Request \cup Sink!Event
    /\ NoWork \notin Crawler!Work \cup Sink!Work
    /\ NoResult \notin {"ok", "error"}
    /\ Nobody \notin Workers \cup {ApiProcess}
    /\ NoOffset \notin Nat

Init == Api!NothingPosted /\ server = "up" /\ Crawler!Init /\ Sink!Init
-----------------------------------------------------------------------------
PostStep ==
    /\ Api!PostNext
    /\ UNCHANGED <<dbVars, reqGroupVars, results, resGroupVars, workerVars, sinkVars,
                   evictions>>

CrawlerStep(A) ==
    A /\ UNCHANGED <<jobs, dbVars, resGroupVars, apiVars, sinkVars>>

SinkStep(A) ==
    A /\ UNCHANGED <<requests, reqGroupVars, apiVars, workerVars>>

(***************************************************************************)
(* The life of the api process.  SIGTERM disconnects the sink first, and   *)
(* that waits for the sink's handler; the steps of shutdown() after it     *)
(* touch only the server.  A start connects the sink, then listens.        *)
(***************************************************************************)
ApiOnly(A) ==
    /\ A
    /\ UNCHANGED <<jobs, dbVars, requests, reqGroupVars, results, resGroupVars,
                   workerVars, sinkVars, failures, stops, evictions>>

ApiBeginsShutdown ==
    /\ Api!BeginShutdown
    /\ Sink!Shutdown(ApiProcess)
    /\ UNCHANGED <<requests, reqGroupVars, workerVars>>

ApiShutsDown == ApiOnly(Api!DisconnectProducer \/ Api!CloseServer \/ Api!Exit)

ApiKilled ==
    /\ Api!Die
    /\ Sink!StopSink(ApiProcess)
    /\ UNCHANGED <<requests, reqGroupVars, workerVars>>

ApiStarts ==
    /\ Api!Start
    /\ Sink!Restart(ApiProcess)
    /\ UNCHANGED <<requests, reqGroupVars, workerVars>>

Next ==
    \/ PostStep
    \/ CrawlerStep(Crawler!WorkerNext)
    \/ SinkStep(Sink!Handle(ApiProcess))
    \/ \E p \in ResultPartitions : SinkStep(Sink!Rebalance(p))
    \/ ApiBeginsShutdown
    \/ ApiShutsDown
    \/ ApiKilled
    \/ ApiStarts

Spec == Init /\ [][Next]_vars
-----------------------------------------------------------------------------
(***************************************************************************)
(* Node keeps running a handler that is in progress, a call it awaits is   *)
(* answered or rejected, kafkajs delivers what there is to deliver, and    *)
(* the coordinator gives a free partition to a member that is there.       *)
(* Nothing makes a stopped process start again: docker-compose.yml has no  *)
(* restart policy.                                                         *)
(***************************************************************************)
Answering(j) ==
    /\ Api!InsertJob(j) \/ Api!InsertRejects(j) \/ Api!SendChunk(j) \/ Api!SendRejects(j)
    /\ UNCHANGED <<dbVars, reqGroupVars, results, resGroupVars, workerVars, sinkVars,
                   evictions>>

Fairness ==
    /\ \A j \in Jobs : WF_vars(Answering(j))
    /\ \A w \in Workers : WF_vars(CrawlerStep(Crawler!Handle(w)))
    /\ \A p \in RequestPartitions :
        WF_vars(CrawlerStep(\E w \in Workers : Crawler!AssignRequests(p, w)))
    /\ WF_vars(SinkStep(Sink!Handle(ApiProcess)))
    /\ \A p \in ResultPartitions :
        WF_vars(SinkStep(Sink!AssignResults(p, ApiProcess)))

FairSpec == Spec /\ Fairness
-----------------------------------------------------------------------------
(***************************************************************************)
(* Types of all variables.                                                 *)
(***************************************************************************)
TypeOK == Api!TypeOK /\ Crawler!TypeOK /\ Sink!TypeOK

Answered(j) == articles[j] \cup errors[j]

(***************************************************************************)
(* The poll loop of scripts/bench_job.js:58-66 ends: a job whose POST was  *)
(* answered 200 is done some day, provided that the api and some worker    *)
(* finally stay up, that no call is rejected (MaxFailures = 0: a rejected  *)
(* one may cost a result) and that both groups have committed before       *)
(* (FreshGroup = FALSE: a new group skips what it finds in its topic).     *)
(***************************************************************************)
JobFinishes ==
    <>[](server = "up" /\ \E w \in Workers : wpc[w] # "down")
        => \A j \in Jobs : post[j] = "200" ~> jobs[j] # NotCreated /\ jobs[j].state = "done"

(***************************************************************************)
(* 'done' is honest as long as nothing went wrong: if the urls of the job  *)
(* are distinct, each of them has its article or its error, not both.      *)
(***************************************************************************)
HonestDone ==
    failures + stops + evictions = 0 =>
        \A j \in Jobs :
            jobs[j] # NotCreated /\ jobs[j].state = "done" /\ IsInjective(body[j]) =>
                /\ Answered(j) = Range(body[j])
                /\ articles[j] \cap errors[j] = {}

(***************************************************************************)
(* done + failed exceeds the number of urls answered, and so can exceed    *)
(* total, only by faults: a url that is listed once is counted twice at    *)
(* most as often as a call was rejected, a process stopped or a partition  *)
(* lost.                                                                   *)
(***************************************************************************)
Repeated(j) == {u \in Range(body[j]) : Api!Occurrences(u, body[j]) > 1}

OvercountNeedsFaults ==
    \A j \in Jobs : jobs[j] # NotCreated =>
        /\ Answered(j) \subseteq Range(body[j])
        /\ jobs[j].done + jobs[j].failed
             <= Cardinality(Answered(j)) + Cardinality(Repeated(j))
                  + failures + stops + evictions
=============================================================================

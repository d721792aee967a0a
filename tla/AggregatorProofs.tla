-------------------------- MODULE AggregatorProofs --------------------------
(***************************************************************************)
(* What is proved of the whole service, for any number of jobs, urls,      *)
(* partitions, workers and faults.                                         *)
(*                                                                         *)
(* The invariant is the conjunction of the invariants of the api, of the   *)
(* workers and of the sink, each from the proofs of its own module; a step *)
(* of one component is, for the others, a step of their environment.  With *)
(* it a counter leads back to the rows it counts, a row to a result in the *)
(* topic, a result to a request, and a request to the body that was posted.*)
(***************************************************************************)
EXTENDS Aggregator, FiniteSetTheorems, TLAPS

Posting == INSTANCE ApiProcessProofs
    WITH MaxFiles <- 1, files <- 1, recorded <- {}, schema <- <<>>,
         at <- "serving", already <- {}, file <- 0
Crawling == INSTANCE WorkerProofs WITH MaxRequests <- 0
Recording == INSTANCE ResultsSinkProofs
    WITH Sinks <- {ApiProcess}, MaxTotal <- MaxUrls, MaxResults <- 0
-----------------------------------------------------------------------------
(***************************************************************************)
(* The components of Aggregator are the ones the instances above prove     *)
(* about: the same definitions, instantiated twice.                        *)
(***************************************************************************)
LEMMA ChunkIs ==
    \A j, p : Api!ChunkOn(j, p) = Posting!ChunkOn(j, p)
<1>1. \A T : Api!Cardinality(T) = Posting!Cardinality(T)
  BY DEF Api!Cardinality, Posting!Cardinality
<1>2. \A j : Api!Chunk(j) = Posting!Chunk(j)
  BY DEF Api!Chunk, Posting!Chunk, Api!ChunkEnd, Posting!ChunkEnd
<1>3. \A j, p : Api!PlacesOn(j, p) = Posting!PlacesOn(j, p)
  BY <1>2 DEF Api!PlacesOn, Posting!PlacesOn
<1>4. \A T, n : Api!Nth(T, n) = Posting!Nth(T, n)
  BY <1>1 DEF Api!Nth, Posting!Nth, Api!Rank, Posting!Rank
<1> QED BY <1>1, <1>2, <1>3, <1>4 DEF Api!ChunkOn, Posting!ChunkOn

LEMMA PostIs == Api!PostNext => Posting!PostNext
BY ChunkIs
DEF Api!PostNext, Posting!PostNext, Api!Submit, Posting!Submit,
    Api!InsertJob, Posting!InsertJob, Api!InsertRejects, Posting!InsertRejects,
    Api!SendChunk, Posting!SendChunk, Api!SendRejects, Posting!SendRejects,
    Api!Listening, Posting!Listening, Api!Producing, Posting!Producing,
    Api!Valid, Posting!Valid, Api!NewRow, Posting!NewRow, Api!Goto, Posting!Goto,
    Api!RemoteFailure, Posting!RemoteFailure, Api!ChunkEnd, Posting!ChunkEnd,
    Api!AppendChunk, Posting!AppendChunk

LEMMA ServerIs ==
    /\ Api!BeginShutdown => Posting!BeginShutdown
    /\ Api!DisconnectProducer => Posting!DisconnectProducer
    /\ Api!CloseServer => Posting!CloseServer
    /\ Api!Exit => Posting!Exit
    /\ Api!Die => Posting!Die
    /\ Api!Start => Posting!Start
BY DEF Api!BeginShutdown, Posting!BeginShutdown, Api!Exit, Posting!Exit,
       Api!DisconnectProducer, Posting!DisconnectProducer,
       Api!CloseServer, Posting!CloseServer, Api!Die, Posting!Die, Api!Start, Posting!Start,
       Api!postVars, Posting!postVars, Api!InProgress, Posting!InProgress

LEMMA CrawlHandlerIs ==
    ASSUME NEW w \in Workers, Crawler!Handle(w)
    PROVE  Crawling!Handle(w)
BY DEF Crawler!Handle, Crawling!Handle, Crawler!Deliver, Crawling!Deliver,
       Crawler!Crawl, Crawling!Crawl, Crawler!Produce, Crawling!Produce,
       Crawler!ProduceRejects, Crawling!ProduceRejects,
       Crawler!CommitOffset, Crawling!CommitOffset,
       Crawler!OffsetRejects, Crawling!OffsetRejects,
       Crawler!Goto, Crawling!Goto, Crawler!EndHandler, Crawling!EndHandler,
       Crawler!Return, Crawling!Return, Crawler!Throw, Crawling!Throw,
       Crawler!RemoteFailure, Crawling!RemoteFailure,
       Crawler!AppendResult, Crawling!AppendResult,
       Crawler!Answer, Crawling!Answer, Crawler!Req, Crawling!Req,
       Crawler!CommitsOffset, Crawling!CommitsOffset,
       Crawler!requestVars, Crawling!requestVars, Crawler!faultVars, Crawling!faultVars,
       Crawler!Group!Resolve, Crawling!Group!Resolve,
       Crawler!Group!Ready, Crawling!Group!Ready,
       Crawler!Group!CommitAccepted, Crawling!Group!CommitAccepted,
       Crawler!Group!CommitRefused, Crawling!Group!CommitRefused

LEMMA WorkerIs == Crawler!WorkerNext => Crawling!WorkerNext
BY CrawlHandlerIs
DEF Crawler!WorkerNext, Crawling!WorkerNext, Crawler!Shutdown, Crawling!Shutdown,
    Crawler!Kill, Crawling!Kill, Crawler!StopWorker, Crawling!StopWorker,
    Crawler!Restart, Crawling!Restart, Crawler!Rebalance, Crawling!Rebalance,
    Crawler!AssignRequests, Crawling!AssignRequests,
    Crawler!EvictRequests, Crawling!EvictRequests,
    Crawler!Goto, Crawling!Goto, Crawler!EndHandler, Crawling!EndHandler,
    Crawler!requestVars, Crawling!requestVars, Crawler!workerVars, Crawling!workerVars,
    Crawler!faultVars, Crawling!faultVars,
    Crawler!Group!Leave, Crawling!Group!Leave, Crawler!Group!Assign, Crawling!Group!Assign,
    Crawler!Group!Evict, Crawling!Group!Evict,
    Crawler!Group!StartOffset, Crawling!Group!StartOffset

LEMMA SinkHandlerIs == Sink!Handle(ApiProcess) => Recording!Handle(ApiProcess)
BY DEF Sink!Handle, Recording!Handle, Sink!Deliver, Recording!Deliver,
       Sink!Connect, Recording!Connect, Sink!SelectJob, Recording!SelectJob,
       Sink!InsertRow, Recording!InsertRow, Sink!CommitTx, Recording!CommitTx,
       Sink!CommitAckLost, Recording!CommitAckLost,
       Sink!QueryRejects, Recording!QueryRejects,
       Sink!CommitOffset, Recording!CommitOffset, Sink!OffsetRejects, Recording!OffsetRejects,
       Sink!ApplyTx, Recording!ApplyTx, Sink!Counted, Recording!Counted,
       Sink!Goto, Recording!Goto, Sink!EndHandler, Recording!EndHandler,
       Sink!Return, Recording!Return, Sink!Throw, Recording!Throw,
       Sink!ReleaseLocks, Recording!ReleaseLocks,
       Sink!RemoteFailure, Recording!RemoteFailure, Sink!Msg, Recording!Msg,
       Sink!Exists, Recording!Exists, Sink!Rows, Recording!Rows,
       Sink!CommitsOffset, Recording!CommitsOffset,
       Sink!dbVars, Recording!dbVars, Sink!topicVars, Recording!topicVars,
       Sink!faultVars, Recording!faultVars,
       Sink!Group!Resolve, Recording!Group!Resolve, Sink!Group!Ready, Recording!Group!Ready,
       Sink!Group!CommitAccepted, Recording!Group!CommitAccepted,
       Sink!Group!CommitRefused, Recording!Group!CommitRefused

LEMMA SinkLifeIs ==
    /\ \A p \in ResultPartitions : Sink!Rebalance(p) => Recording!Rebalance(p)
    /\ Sink!Shutdown(ApiProcess) => Recording!StopSink(ApiProcess)
    /\ Sink!StopSink(ApiProcess) => Recording!StopSink(ApiProcess)
    /\ Sink!Restart(ApiProcess) => Recording!Restart(ApiProcess)
BY DEF Sink!Rebalance, Recording!Rebalance, Sink!EvictResults, Recording!EvictResults,
       Sink!AssignResults, Recording!AssignResults, Sink!Shutdown,
       Sink!StopSink, Recording!StopSink, Sink!Restart, Recording!Restart,
       Sink!Goto, Recording!Goto, Sink!ReleaseLocks, Recording!ReleaseLocks,
       Sink!dbVars, Recording!dbVars, Sink!topicVars, Recording!topicVars,
       Sink!sinkVars, Recording!sinkVars, Sink!faultVars, Recording!faultVars,
       Sink!Group!Evict, Recording!Group!Evict, Sink!Group!Assign, Recording!Group!Assign,
       Sink!Group!Leave, Recording!Group!Leave,
       Sink!Group!StartOffset, Recording!Group!StartOffset

LEMMA InitIs ==
    Init => /\ Posting!NothingPosted /\ server = "up"
            /\ Crawling!Init /\ Recording!Init
BY DEF Init, Api!NothingPosted, Posting!NothingPosted, Crawler!Init, Crawling!Init,
       Sink!Init, Recording!Init

(***************************************************************************)
(* The types of the components are the ones their theorems are about.      *)
(***************************************************************************)
LEMMA TypesAre ==
    Posting!TypeOK /\ Crawling!TypeOK /\ Recording!TypeOK => TypeOK
BY DEF TypeOK, Api!TypeOK, Posting!TypeOK, Crawler!TypeOK, Crawling!TypeOK,
       Sink!TypeOK, Recording!TypeOK, Api!Request, Posting!Request, Api!JobRow, Posting!JobRow,
       Crawler!Request, Crawling!Request, Crawler!Event, Crawling!Event,
       Crawler!Work, Crawling!Work, Sink!JobRow, Recording!JobRow,
       Sink!Event, Recording!Event, Sink!Work, Recording!Work,
       Sink!Locations, Recording!Locations

LEMMA ConstantsAre ==
    /\ DomainOf \in [Urls -> Domains]
    /\ RequestPartition \in [Domains -> RequestPartitions]
    /\ ResultPartition \in [Urls -> ResultPartitions]
    /\ Outcomes \in [Urls -> SUBSET {"ok", "error"}]
    /\ \A u \in Urls : Outcomes[u] # {}
    /\ Bodies \subseteq Seq(Urls)
    /\ MaxUrls \in Nat \ {0} /\ ChunkSize \in Nat \ {0} /\ MaxUrls \in Nat /\ 0 \in Nat
    /\ 1 \in Nat \ {0}
    /\ FreshGroup \in BOOLEAN
    /\ MaxFailures \in Nat /\ MaxStops \in Nat /\ MaxEvictions \in Nat
    /\ NotCreated \notin Posting!JobRow /\ NoBody \notin Seq(Urls)
    /\ Garbage \notin Crawling!Request /\ NoWork \notin Crawling!Work
    /\ NoResult \notin {"ok", "error"} /\ Nobody \notin Workers /\ NoOffset \notin Nat
    /\ Recording!IsFiniteSet(Urls)
    /\ NotCreated # Deleted
    /\ {NotCreated, Deleted} \cap (Recording!JobRow \cup Recording!Entry) = {}
    /\ Garbage \notin Recording!Event /\ NoWork \notin Recording!Work
    /\ Nobody \notin {ApiProcess}
<1>1. 1 \in Nat \ {0} /\ MaxUrls \in Nat /\ 0 \in Nat
  BY AggregatorAssumption
<1> QED
  BY <1>1, AggregatorAssumption, SentinelAssumption
  DEF Posting!JobRow, Sink!JobRow, Recording!JobRow, Sink!Entry, Recording!Entry,
      Sink!Event, Recording!Event, Sink!Work, Recording!Work, Crawler!Work, Crawling!Work,
      Crawler!Request, Crawling!Request, IsFiniteSet, Recording!IsFiniteSet
-----------------------------------------------------------------------------
(***************************************************************************)
(* The inductive invariant: what the api, the workers and the sink keep,   *)
(* and that a row comes from a result and a result from a request.         *)
(***************************************************************************)
AggregatorInvariant ==
    /\ Posting!PostInvariant
    /\ Crawling!Typed /\ Crawling!InPlace /\ Crawling!Charged /\ Crawling!Sourced
    /\ Recording!SinkInvariant /\ Recording!RowsFromLog

LEMMA InvariantInit == Init => AggregatorInvariant
<1> SUFFICES ASSUME Init PROVE AggregatorInvariant
  OBVIOUS
<1>1. Posting!NothingPosted /\ server = "up" /\ Crawling!Init /\ Recording!Init
  BY InitIs
<1>2. Posting!PostInvariant
  BY <1>1, ConstantsAre, Posting!NothingPostedAgrees
<1>3. Crawling!Typed
  BY <1>1, ConstantsAre, Crawling!TypedInit
<1>4. Crawling!InPlace /\ Crawling!Charged
  BY <1>1, ConstantsAre, Crawling!ChargedInit
<1>5. Crawling!Sourced
  BY <1>1, ConstantsAre, Crawling!SourcedInit
<1>6. Recording!SinkInvariant
  BY <1>1, ConstantsAre, Recording!InvariantInit
<1>7. Recording!RowsFromLog
  BY <1>1, ConstantsAre, Recording!RowsFromLogInit
<1> QED BY <1>2, <1>3, <1>4, <1>5, <1>6, <1>7 DEF AggregatorInvariant

(***************************************************************************)
(* A step that leaves the requests and the POST handlers alone.            *)
(***************************************************************************)
LEMMA PostsStay ==
    ASSUME AggregatorInvariant, UNCHANGED <<jobs, requests, apiVars>>,
           failures' \in Nat, stops' \in Nat, failures' >= failures, stops' >= stops
    PROVE  Posting!PostInvariant'
<1>1. /\ UNCHANGED <<requests, body, sent>> /\ UNCHANGED <<server, post>>
      /\ Posting!PostInvariant
  BY DEF apiVars, AggregatorInvariant
<1>2. /\ jobs' \in [Jobs -> Posting!JobRow \cup {NotCreated}]
      /\ \A k \in Jobs : Posting!RowKept(k)
  BY <1>1 DEF Posting!PostInvariant, Posting!TypeOK, Posting!RowKept
<1> QED BY <1>1, <1>2, ConstantsAre, Posting!ServerStepKeeps

LEMMA CrawlerStepKeeps ==
    ASSUME AggregatorInvariant, CrawlerStep(Crawler!WorkerNext)
    PROVE  AggregatorInvariant'
<1>0. /\ Crawling!WorkerNext
      /\ UNCHANGED <<jobs, articles, errors, rowLock, resCommitted, resOwner, resPosition>>
      /\ UNCHANGED <<apiVars, spc, swork, sinserted>>
  BY WorkerIs DEF CrawlerStep, dbVars, resGroupVars, sinkVars
<1>1. [Crawling!Next]_(Crawling!vars)
  BY <1>0 DEF Crawling!Next
<1>2. Crawling!Typed /\ Crawling!InPlace /\ Crawling!Charged /\ Crawling!Sourced
  BY DEF AggregatorInvariant
<1>3. Crawling!Typed'
  BY <1>1, <1>2, ConstantsAre, Crawling!TypedNext
<1>4. Crawling!InPlace'
  BY <1>1, <1>2, ConstantsAre, Crawling!PlaceNext
<1>5. Crawling!Charged'
  BY <1>1, <1>2, <1>3, ConstantsAre, Crawling!ChargedNext
<1>6. Crawling!Sourced'
  BY <1>0, <1>2, ConstantsAre, Crawling!SourcedStep
<1>7. Crawling!ResultsAdded /\ Crawling!FaultsGrow
  BY <1>0, <1>2, ConstantsAre, Crawling!WorkerStepAdds
<1>8. requests' = requests
  BY <1>0, <1>2, ConstantsAre, Crawling!WorkerStep
<1>9. Recording!LogExtended
  <2>1. results' \in [ResultPartitions -> Seq(Recording!Event)]
    BY <1>7 DEF Crawling!ResultsAdded, Crawling!Event, Recording!Event
  <2>2. ASSUME NEW p \in ResultPartitions
        PROVE  results'[p] \in Seq(Recording!Event \cup {Garbage})
    <3>1. results'[p] \in Seq(Recording!Event)
      BY <2>1
    <3> QED BY <3>1
  <2>3. results' \in [ResultPartitions -> Seq(Recording!Event \cup {Garbage})]
    BY <2>1, <2>2
  <2> QED BY <1>7, <2>3 DEF Crawling!ResultsAdded, Recording!LogExtended
<1>10. Recording!SinkInvariant'
  <2>1. Recording!FaultsGrow
    BY <1>7 DEF Crawling!FaultsGrow, Recording!FaultsGrow
  <2>2. Recording!SinkIdle
    BY <1>0 DEF Recording!SinkIdle, Recording!sinkVars
  <2> QED BY <1>0, <1>9, <2>1, <2>2, ConstantsAre, Recording!LogExtendedKeeps
          DEF AggregatorInvariant
<1>11. Recording!RowsFromLog'
  BY <1>0, <1>9, ConstantsAre, Recording!RowsFromLogStays DEF AggregatorInvariant
<1>12. Posting!PostInvariant'
  BY <1>0, <1>7, <1>8, PostsStay DEF Crawling!FaultsGrow
<1> QED BY <1>3, <1>4, <1>5, <1>6, <1>10, <1>11, <1>12 DEF AggregatorInvariant

LEMMA SumGrows ==
    ASSUME NEW a \in Nat, NEW b \in Nat, NEW c \in Nat,
           NEW x \in Nat, NEW y \in Nat, NEW z \in Nat, a <= x, b <= y, c <= z
    PROVE  a + b + c <= x + y + z
OBVIOUS

(***************************************************************************)
(* What the workers' part of the invariant needs of a step that is none of *)
(* theirs: the topic only grows where it may, and faults do not go back.   *)
(***************************************************************************)
LEMMA WorkersStay ==
    ASSUME AggregatorInvariant, Crawling!Arrivals,
           UNCHANGED <<reqGroupVars, results, workerVars>>,
           failures' \in Nat, stops' \in Nat, evictions' \in Nat,
           failures' >= failures, stops' >= stops, evictions' >= evictions
    PROVE  Crawling!Typed' /\ Crawling!InPlace' /\ Crawling!Charged' /\ Crawling!Sourced'
<1>1. Crawling!Typed /\ Crawling!InPlace /\ Crawling!Charged /\ Crawling!Sourced
  BY DEF AggregatorInvariant
<1>2. Crawling!GroupStays /\ results' = results
  BY DEF Crawling!GroupStays, reqGroupVars, workerVars, Crawling!workerVars
<1>3. Crawling!Typed'
  BY <1>1, <1>2, ConstantsAre, Crawling!TypedArrivals
<1>4. Crawling!InPlace'
  BY <1>1, <1>2, ConstantsAre, Crawling!PlaceArrivals
<1>5. Crawling!Faults <= Crawling!Faults'
  <2>1. failures \in Nat /\ stops \in Nat /\ evictions \in Nat
    BY <1>1 DEF Crawling!Typed, Crawling!TypeOK
  <2>2. failures + stops + evictions <= failures' + stops' + evictions'
    BY <2>1, SumGrows
  <2> QED BY <2>2 DEF Crawling!Faults
<1>6. Crawling!Charged'
  BY <1>1, <1>2, <1>3, <1>5, ConstantsAre, Crawling!ChargeArrivals
<1>7. Crawling!Sourced'
  BY <1>1, <1>2, ConstantsAre, Crawling!SourcedArrivals
<1> QED BY <1>3, <1>4, <1>6, <1>7

LEMMA NoArrivals ==
    ASSUME AggregatorInvariant, requests' = requests
    PROVE  Crawling!Arrivals
BY DEF AggregatorInvariant, Crawling!Typed, Crawling!TypeOK, Crawling!Arrivals

LEMMA TopicArrivals ==
    ASSUME AggregatorInvariant, Posting!TopicGrows
    PROVE  Crawling!Arrivals
<1>1. requests' \in [RequestPartitions -> Seq(Crawling!Request)]
  BY DEF Posting!TopicGrows, Posting!Request, Crawling!Request
<1>2. ASSUME NEW p \in RequestPartitions
      PROVE  requests'[p] \in Seq(Crawling!Request \cup {Garbage})
  <2>1. requests'[p] \in Seq(Crawling!Request)
    BY <1>1
  <2> QED BY <2>1
<1>3. requests' \in [RequestPartitions -> Seq(Crawling!Request \cup {Garbage})]
  BY <1>1, <1>2
<1> QED BY <1>3 DEF Posting!TopicGrows, Crawling!Arrivals, Crawling!PartitionOf

LEMMA PostStepKeeps ==
    ASSUME AggregatorInvariant, PostStep
    PROVE  AggregatorInvariant'
<1>0. /\ Posting!PostNext /\ evictions' = evictions
      /\ UNCHANGED <<articles, errors, rowLock, results, resCommitted, resOwner, resPosition>>
      /\ UNCHANGED <<spc, swork, sinserted>>
      /\ UNCHANGED <<reqGroupVars, results, workerVars>>
  BY PostIs DEF PostStep, dbVars, resGroupVars, sinkVars
<1>1. Posting!PostInvariant /\ Recording!SinkInvariant /\ Recording!RowsFromLog
  BY DEF AggregatorInvariant
<1>2. Posting!PostInvariant'
  BY <1>0, <1>1, ConstantsAre, Posting!PostKeeps
<1>3. /\ Posting!TopicGrows
      /\ \/ jobs' = jobs
         \/ \E j \in Jobs, n \in Nat \ {0} :
               /\ jobs[j] = NotCreated
               /\ jobs' = [jobs EXCEPT ![j] = [total |-> n, done |-> 0, failed |-> 0,
                                               state |-> "queued"]]
      /\ failures' \in Nat /\ failures' >= failures /\ stops' = stops
  BY <1>0, <1>1, ConstantsAre, Posting!PostMoves
<1>4. failures \in Nat /\ stops \in Nat /\ evictions \in Nat
  BY <1>1 DEF Recording!SinkInvariant, Recording!TypeOK
<1>5. Recording!FaultsGrow
  BY <1>0, <1>3, <1>4 DEF Recording!FaultsGrow
<1>6. Recording!LogExtended
  BY <1>0, <1>1, ConstantsAre, Recording!LogSame
<1>7. Recording!SinkIdle
  BY <1>0 DEF Recording!SinkIdle, Recording!sinkVars
<1>8. Recording!SinkInvariant'
  <2>1. CASE jobs' = jobs
    BY <1>1, <1>5, <1>6, <1>7, <2>1, ConstantsAre, Recording!LogExtendedKeeps
  <2>2. CASE \E j \in Jobs, n \in Nat \ {0} : Recording!RowInserted(j, n)
    BY <1>0, <1>1, <1>5, <1>7, <2>2, ConstantsAre, Recording!RowInsertedKeeps
  <2> QED BY <1>3, <2>1, <2>2 DEF Recording!RowInserted
<1>9. Recording!RowsFromLog'
  BY <1>0, <1>1, <1>6, ConstantsAre, Recording!RowsFromLogStays
<1>10. Crawling!Typed' /\ Crawling!InPlace' /\ Crawling!Charged' /\ Crawling!Sourced'
  BY <1>0, <1>3, <1>4, TopicArrivals, WorkersStay
<1> QED BY <1>2, <1>8, <1>9, <1>10 DEF AggregatorInvariant

(***************************************************************************)
(* A step that moves a job's counters or nothing of the table jobs.        *)
(***************************************************************************)
LEMMA CountersKeepRows ==
    ASSUME AggregatorInvariant, jobs' = jobs \/ Recording!CounterMoves
    PROVE  /\ jobs' \in [Jobs -> Posting!JobRow \cup {NotCreated}]
           /\ \A k \in Jobs : Posting!RowKept(k)
<1>1. jobs \in [Jobs -> Posting!JobRow \cup {NotCreated}]
  BY DEF AggregatorInvariant, Posting!PostInvariant, Posting!TypeOK
<1>2. CASE jobs' = jobs
  BY <1>1, <1>2 DEF Posting!RowKept
<1>3. CASE Recording!CounterMoves
  <2>1. PICK j \in Jobs, d \in Nat, f \in Nat :
            /\ jobs[j] \in Recording!JobRow
            /\ jobs' = [jobs EXCEPT ![j] = Recording!Counted(jobs[j], d, f)]
    BY <1>3 DEF Recording!CounterMoves
  <2>2. Recording!Counted(jobs[j], d, f) \in Recording!JobRow
    BY <2>1, ConstantsAre, Recording!CountedType
  <2>3. Recording!Counted(jobs[j], d, f).total = jobs[j].total
    BY <2>1 DEF Recording!Counted, Recording!JobRow
  <2>4. Posting!JobRow = Recording!JobRow /\ NotCreated \notin Recording!JobRow
    BY ConstantsAre DEF Posting!JobRow, Recording!JobRow
  <2> QED BY <1>1, <2>1, <2>2, <2>3, <2>4 DEF Posting!RowKept
<1> QED BY <1>2, <1>3

LEMMA SinkStepKeeps ==
    ASSUME AggregatorInvariant,
           \/ SinkStep(Sink!Handle(ApiProcess))
           \/ \E p \in ResultPartitions : SinkStep(Sink!Rebalance(p))
    PROVE  AggregatorInvariant'
<1>0. /\ Recording!Handle(ApiProcess) \/ \E p \in ResultPartitions : Recording!Rebalance(p)
      /\ UNCHANGED requests /\ UNCHANGED <<server, post, body, sent>>
      /\ UNCHANGED <<reqGroupVars, workerVars>>
  BY SinkHandlerIs, SinkLifeIs DEF SinkStep, apiVars
<1>1. Recording!SinkInvariant /\ Recording!RowsFromLog /\ Posting!PostInvariant
  BY DEF AggregatorInvariant
<1>2. /\ Recording!SinkInvariant' /\ Recording!RowsFromLog' /\ Recording!FaultsGrow
      /\ results' = results
      /\ jobs' = jobs \/ Recording!CounterMoves
  <2>1. CASE Recording!Handle(ApiProcess)
    <3>1. ApiProcess \in {ApiProcess}
      OBVIOUS
    <3>2. Recording!SinkInvariant'
      BY <1>1, <2>1, <3>1, ConstantsAre, Recording!HandleKeeps
    <3>3. Recording!RowsFromLog'
      BY <1>1, <2>1, <3>1, ConstantsAre, Recording!RowsFromLogStep
    <3>4. /\ results' = results /\ Recording!FaultsGrow
          /\ jobs' = jobs \/ Recording!CounterMoves
      BY <1>1, <2>1, <3>1, ConstantsAre, Recording!HandleStep
    <3> QED BY <3>2, <3>3, <3>4
  <2>2. CASE \E p \in ResultPartitions : Recording!Rebalance(p)
    <3>1. /\ Recording!SinkInvariant' /\ Recording!FaultsGrow
          /\ UNCHANGED <<results, jobs, articles, errors>>
      BY <1>1, <2>2, ConstantsAre, Recording!LifeStep
    <3>2. Recording!LogExtended
      BY <1>1, <3>1, ConstantsAre, Recording!LogSame
    <3>3. Recording!RowsFromLog'
      BY <1>1, <3>1, <3>2, ConstantsAre, Recording!RowsFromLogStays
    <3> QED BY <3>1, <3>3
  <2> QED BY <1>0, <2>1, <2>2
<1>3. /\ failures' \in Nat /\ stops' \in Nat /\ evictions' \in Nat
      /\ failures' >= failures /\ stops' >= stops /\ evictions' >= evictions
  BY <1>2 DEF Recording!FaultsGrow
<1>4. Posting!PostInvariant'
  <2>1. /\ jobs' \in [Jobs -> Posting!JobRow \cup {NotCreated}]
        /\ \A k \in Jobs : Posting!RowKept(k)
    BY <1>2, CountersKeepRows
  <2>2. UNCHANGED <<requests, body, sent>> /\ UNCHANGED <<server, post>>
    BY <1>0
  <2> QED BY <1>1, <1>3, <2>1, <2>2, ConstantsAre, Posting!ServerStepKeeps
<1>5. Crawling!Typed' /\ Crawling!InPlace' /\ Crawling!Charged' /\ Crawling!Sourced'
  <2>1. UNCHANGED <<reqGroupVars, results, workerVars>>
    BY <1>0, <1>2
  <2> QED BY <1>0, <1>3, <2>1, NoArrivals, WorkersStay
<1> QED BY <1>2, <1>4, <1>5 DEF AggregatorInvariant

LEMMA LifeStepKeeps ==
    ASSUME AggregatorInvariant, ApiBeginsShutdown \/ ApiShutsDown \/ ApiKilled \/ ApiStarts
    PROVE  AggregatorInvariant'
<1>1. Recording!SinkInvariant /\ Recording!RowsFromLog /\ Posting!PostInvariant
  BY DEF AggregatorInvariant
<1>2. failures \in Nat /\ stops \in Nat /\ evictions \in Nat
  BY <1>1 DEF Recording!SinkInvariant, Recording!TypeOK
<1>3. /\ UNCHANGED requests /\ UNCHANGED <<body, sent>>
      /\ UNCHANGED <<reqGroupVars, workerVars>>
      /\ \/ UNCHANGED post /\ Posting!BeginShutdown /\ stops' = stops + 1
         \/ UNCHANGED post /\ (\/ Posting!DisconnectProducer \/ Posting!CloseServer
                               \/ Posting!Exit \/ Posting!Start)
         \/ Posting!Die /\ stops' = stops + 1
  BY ServerIs, SinkLifeIs
  DEF ApiBeginsShutdown, ApiShutsDown, ApiOnly, ApiKilled, ApiStarts,
      Api!BeginShutdown, Api!DisconnectProducer, Api!CloseServer, Api!Exit, Api!Die,
      Api!Start, Api!postVars, Recording!StopSink
<1>4. /\ Recording!SinkInvariant' /\ Recording!FaultsGrow
      /\ UNCHANGED <<results, jobs, articles, errors>>
  <2>1. CASE ApiShutsDown
    <3>1. /\ UNCHANGED <<results, jobs, articles, errors, failures, stops, evictions>>
          /\ Recording!SinkIdle
      BY <2>1 DEF ApiShutsDown, ApiOnly, dbVars, resGroupVars, sinkVars,
                  Recording!SinkIdle, Recording!sinkVars
    <3>2. Recording!FaultsGrow
      BY <1>2, <3>1 DEF Recording!FaultsGrow
    <3>3. Recording!LogExtended
      BY <1>1, <3>1, ConstantsAre, Recording!LogSame
    <3>4. Recording!SinkInvariant'
      BY <1>1, <3>1, <3>2, <3>3, ConstantsAre, Recording!LogExtendedKeeps
    <3> QED BY <3>1, <3>2, <3>4
  <2>2. CASE ApiBeginsShutdown \/ ApiKilled \/ ApiStarts
    <3>1. \E s \in {ApiProcess} : Recording!StopSink(s) \/ Recording!Restart(s)
      BY <2>2, SinkLifeIs DEF ApiBeginsShutdown, ApiKilled, ApiStarts
    <3> QED BY <1>1, <3>1, ConstantsAre, Recording!LifeStep
  <2> QED BY <2>1, <2>2
<1>5. /\ failures' \in Nat /\ stops' \in Nat /\ evictions' \in Nat
      /\ failures' >= failures /\ stops' >= stops /\ evictions' >= evictions
  BY <1>4 DEF Recording!FaultsGrow
<1>6. Recording!RowsFromLog'
  <2>1. Recording!LogExtended
    BY <1>1, <1>4, ConstantsAre, Recording!LogSame
  <2> QED BY <1>1, <1>4, <2>1, ConstantsAre, Recording!RowsFromLogStays
<1>7. Posting!PostInvariant'
  <2>1. /\ jobs' \in [Jobs -> Posting!JobRow \cup {NotCreated}]
        /\ \A k \in Jobs : Posting!RowKept(k)
    BY <1>4, CountersKeepRows
  <2> QED BY <1>1, <1>3, <1>5, <2>1, ConstantsAre, Posting!ServerStepKeeps
<1>8. Crawling!Typed' /\ Crawling!InPlace' /\ Crawling!Charged' /\ Crawling!Sourced'
  <2>1. UNCHANGED <<reqGroupVars, results, workerVars>>
    BY <1>3, <1>4
  <2> QED BY <1>3, <1>5, <2>1, NoArrivals, WorkersStay
<1> QED BY <1>4, <1>6, <1>7, <1>8 DEF AggregatorInvariant

LEMMA InvariantStutter ==
    ASSUME AggregatorInvariant, UNCHANGED vars
    PROVE  AggregatorInvariant'
<1>1. /\ UNCHANGED <<jobs, requests, apiVars>> /\ UNCHANGED <<jobs, articles, errors, results>>
      /\ UNCHANGED <<reqGroupVars, results, workerVars>> /\ UNCHANGED <<failures, stops, evictions>>
  BY DEF vars, dbVars
<1>2. Recording!SinkInvariant /\ Recording!RowsFromLog
  BY DEF AggregatorInvariant
<1>3. failures \in Nat /\ stops \in Nat /\ evictions \in Nat
  BY <1>2 DEF Recording!SinkInvariant, Recording!TypeOK
<1>4. Recording!LogExtended
  BY <1>1, <1>2, ConstantsAre, Recording!LogSame
<1>5. Recording!SinkInvariant'
  <2>1. Recording!SinkIdle /\ Recording!FaultsGrow
    BY <1>1, <1>3 DEF vars, dbVars, resGroupVars, sinkVars,
                      Recording!SinkIdle, Recording!sinkVars, Recording!FaultsGrow
  <2> QED BY <1>1, <1>2, <1>4, <2>1, ConstantsAre, Recording!LogExtendedKeeps
<1>6. Recording!RowsFromLog'
  BY <1>1, <1>2, <1>4, ConstantsAre, Recording!RowsFromLogStays
<1>7. /\ failures' \in Nat /\ stops' \in Nat /\ evictions' \in Nat
      /\ failures' >= failures /\ stops' >= stops /\ evictions' >= evictions
  BY <1>1, <1>3
<1>8. Posting!PostInvariant'
  BY <1>1, <1>7, PostsStay
<1>9. Crawling!Typed' /\ Crawling!InPlace' /\ Crawling!Charged' /\ Crawling!Sourced'
  BY <1>1, <1>7, NoArrivals, WorkersStay
<1> QED BY <1>5, <1>6, <1>8, <1>9 DEF AggregatorInvariant

LEMMA InvariantHolds == Spec => []AggregatorInvariant
<1>1. AggregatorInvariant /\ [Next]_vars => AggregatorInvariant'
  BY PostStepKeeps, CrawlerStepKeeps, SinkStepKeeps, LifeStepKeeps, InvariantStutter DEF Next
<1> QED BY <1>1, InvariantInit, PTL DEF Spec

(***************************************************************************)
(* Every variable of the service keeps its type.                           *)
(***************************************************************************)
THEOREM TypeCorrect == Spec => []TypeOK
<1>1. AggregatorInvariant => TypeOK
  BY TypesAre DEF AggregatorInvariant, Posting!PostInvariant, Crawling!Typed,
                  Recording!SinkInvariant
<1> QED BY <1>1, InvariantHolds, PTL
-----------------------------------------------------------------------------
(***************************************************************************)
(* From the counters of a job back to the urls that were posted.           *)
(***************************************************************************)
RequestFor(j, u) == [job |-> j, url |-> u]

(***************************************************************************)
(* A row stands for a result in the topic, and that for a request.         *)
(***************************************************************************)
LEMMA RowHasResult ==
    ASSUME AggregatorInvariant, NEW j \in Jobs, NEW u \in Urls,
           NEW status \in {"ok", "error"},
           u \in IF status = "ok" THEN articles[j] ELSE errors[j]
    PROVE  \E o \in 1..Len(results[ResultPartition[u]]) :
              results[ResultPartition[u]][o] = [job |-> j, url |-> u, status |-> status]
<1> DEFINE m == [job |-> j, url |-> u, status |-> status]
<1>1. Recording!InLog(m)
  BY DEF AggregatorInvariant, Recording!RowsFromLog
<1>2. PICK p \in ResultPartitions : \E o \in 1..Len(results[p]) : results[p][o] = m
  BY <1>1 DEF Recording!InLog
<1>3. PICK o \in 1..Len(results[p]) : results[p][o] = m
  BY <1>2
<1>4. ResultPartition[m.url] = p
  BY <1>3 DEF AggregatorInvariant, Crawling!Sourced
<1>5. m.url = u
  OBVIOUS
<1> QED BY <1>3, <1>4, <1>5

LEMMA OccurrencesAre == \A x, t : Posting!Occurrences(x, t) = Api!Occurrences(x, t)
BY DEF Posting!Occurrences, Api!Occurrences, Posting!Cardinality, Api!Cardinality

LEMMA AskedIsPublished ==
    ASSUME NEW j \in Jobs, NEW u \in Urls
    PROVE  Crawling!Asked(RequestFor(j, u)) = Posting!Published(j, u)
BY DEF Crawling!Asked, Crawling!Cardinality, Posting!Published, Posting!Occurrences,
       Posting!Cardinality, RequestFor

LEMMA RowIsListed ==
    ASSUME AggregatorInvariant, NEW j \in Jobs, jobs[j] # NotCreated,
           NEW u \in articles[j] \cup errors[j]
    PROVE  /\ u \in Range(body[j])
           /\ Crawling!Asked(RequestFor(j, u)) <= Api!Occurrences(u, body[j])
           /\ Crawling!Asked(RequestFor(j, u)) \in Nat
<1>1. u \in Urls
  BY DEF AggregatorInvariant, Recording!SinkInvariant, Recording!TypeOK
<1>2. Posting!NeverMore(j)
  BY ConstantsAre, Posting!RowIsNoMore DEF AggregatorInvariant
<1>3. /\ body[j] \in Seq(Urls)
      /\ Posting!Published(j, u) <= Posting!Occurrences(u, body[j])
  BY <1>1, <1>2 DEF Posting!NeverMore
<1> DEFINE r == RequestFor(j, u)
           q == RequestPartition[DomainOf[u]]
<1>4. \E i \in 1..Len(requests[q]) : requests[q][i] = r
  <2>1. PICK status \in {"ok", "error"} : u \in IF status = "ok" THEN articles[j] ELSE errors[j]
    OBVIOUS
  <2>2. PICK o \in 1..Len(results[ResultPartition[u]]) :
              results[ResultPartition[u]][o] = [job |-> j, url |-> u, status |-> status]
    BY <1>1, <2>1, RowHasResult
  <2>3. Crawling!RequestOf(results[ResultPartition[u]][o]) = r /\ r.url = u
    BY <2>2 DEF Crawling!RequestOf, RequestFor
  <2>4. ResultPartition[u] \in ResultPartitions
    BY <1>1, ConstantsAre
  <2>5. \E i \in 1..Len(requests[Crawling!PartitionOf(r)]) :
              requests[Crawling!PartitionOf(r)][i] = r
    BY <2>3, <2>4 DEF AggregatorInvariant, Crawling!Sourced
  <2>6. Crawling!PartitionOf(r) = q
    BY <2>3 DEF Crawling!PartitionOf
  <2> QED BY <2>5, <2>6
<1>5. q \in RequestPartitions /\ requests[q] \in Seq(Posting!Request)
  BY <1>1, ConstantsAre DEF AggregatorInvariant, Posting!PostInvariant, Posting!TypeOK
<1>6. Posting!Published(j, u) \in Nat /\ Posting!Published(j, u) > 0
  <2> DEFINE places == {i \in DOMAIN requests[q] : requests[q][i] = r}
  <2>1. Posting!Published(j, u) = Cardinality(places)
    BY DEF Posting!Published, Posting!Occurrences, Posting!Cardinality, Cardinality, RequestFor
  <2>2. DOMAIN requests[q] = 1..Len(requests[q]) /\ Len(requests[q]) \in Nat
    BY <1>5
  <2>3. IsFiniteSet(places)
    <3>1. IsFiniteSet(1..Len(requests[q])) /\ places \subseteq 1..Len(requests[q])
      BY <2>2, FS_Interval
    <3> HIDE DEF places
    <3> QED BY <3>1, FS_Subset
  <2>4. places # {}
    BY <1>4, <2>2
  <2>5. Cardinality(places) \in Nat /\ Cardinality(places) # 0
    BY <2>3, <2>4, FS_CardinalityType, FS_EmptySet
  <2> QED BY <2>1, <2>5
<1>7. Posting!Occurrences(u, body[j]) \in Nat /\ Posting!Occurrences(u, body[j]) > 0
  <2>1. Posting!Occurrences(u, body[j]) \in Nat
    BY <1>3, ConstantsAre, Posting!OccurrencesType
  <2> QED BY <1>3, <1>6, <2>1
<1>8. u \in Range(body[j])
  <2>1. CASE {i \in DOMAIN body[j] : body[j][i] = u} = {}
    <3>1. Posting!Occurrences(u, body[j]) = 0
      BY <2>1, FS_EmptySet DEF Posting!Occurrences, Posting!Cardinality, Cardinality
    <3> QED BY <1>7, <3>1
  <2>2. CASE {i \in DOMAIN body[j] : body[j][i] = u} # {}
    BY <2>2 DEF Range
  <2> QED BY <2>1, <2>2
<1> QED BY <1>1, <1>3, <1>6, <1>8, OccurrencesAre, AskedIsPublished

(***************************************************************************)
(* A url listed once that has an article and an error was answered more    *)
(* often than asked for.                                                   *)
(***************************************************************************)
LEMMA CountedTwice ==
    ASSUME AggregatorInvariant, NEW j \in Jobs, jobs[j] # NotCreated,
           NEW u \in articles[j] \cap errors[j], u \notin Repeated(j)
    PROVE  /\ RequestFor(j, u) \in Crawling!Request
           /\ Crawling!Asked(RequestFor(j, u)) <= 1
           /\ Crawling!Answered(RequestFor(j, u)) >= 2
<1> DEFINE r == RequestFor(j, u)
           log == results[ResultPartition[u]]
<1>1. u \in Urls
  BY DEF AggregatorInvariant, Recording!SinkInvariant, Recording!TypeOK
<1>2. r \in Crawling!Request /\ r.url = u /\ r.job = j
  BY <1>1 DEF RequestFor, Crawling!Request
<1>3. Crawling!Asked(r) <= 1
  <2>1. /\ u \in Range(body[j])
        /\ Crawling!Asked(r) <= Api!Occurrences(u, body[j]) /\ Crawling!Asked(r) \in Nat
    BY RowIsListed
  <2>2. ~(Api!Occurrences(u, body[j]) > 1)
    BY <2>1 DEF Repeated
  <2>3. Api!Occurrences(u, body[j]) \in Nat
    <3>1. body[j] \in Seq(Urls)
      BY ConstantsAre, Posting!RowIsNoMore DEF AggregatorInvariant, Posting!NeverMore
    <3>2. Posting!Occurrences(u, body[j]) \in Nat
      BY <3>1, ConstantsAre, Posting!OccurrencesType
    <3> QED BY <3>2, OccurrencesAre
  <2> DEFINE x == Crawling!Asked(r)
             y == Api!Occurrences(u, body[j])
  <2>4. x <= y /\ x \in Nat /\ y \in Nat /\ ~(y > 1)
    BY <2>1, <2>2, <2>3
  <2> HIDE DEF x, y
  <2>5. x <= 1
    BY <2>4
  <2> QED BY <2>5 DEF x
<1>4. PICK a \in 1..Len(log) : log[a] = [job |-> j, url |-> u, status |-> "ok"]
  BY <1>1, RowHasResult
<1>5. PICK b \in 1..Len(log) : log[b] = [job |-> j, url |-> u, status |-> "error"]
  BY <1>1, RowHasResult
<1>6. a # b
  BY <1>4, <1>5
<1>7. \A o \in {a, b} : log[o].job = r.job /\ log[o].url = r.url
  BY <1>2, <1>4, <1>5
<1>8. Crawling!Answered(r) >= 2
  BY <1>2, <1>4, <1>5, <1>6, <1>7, ConstantsAre, Crawling!TwoAnswers DEF AggregatorInvariant
<1> QED BY <1>2, <1>3, <1>8

(***************************************************************************)
(* So the faults pay for what is counted twice.                            *)
(***************************************************************************)
LEMMA BothAreFew ==
    ASSUME AggregatorInvariant, NEW j \in Jobs, jobs[j] # NotCreated
    PROVE  LET both == (articles[j] \cap errors[j]) \ Repeated(j)
           IN  /\ IsFiniteSet(both) /\ Cardinality(both) \in Nat
               /\ Cardinality(both) <= failures + stops + evictions
<1> DEFINE both == (articles[j] \cap errors[j]) \ Repeated(j)
           R == {RequestFor(j, u) : u \in both}
           f == [u \in both |-> RequestFor(j, u)]
<1>1. /\ R \in SUBSET Crawling!Request
      /\ \A r \in R : Crawling!Asked(r) <= 1 /\ Crawling!Answered(r) >= 2
  BY CountedTwice
<1>2. Crawling!IsFiniteSet(R) /\ Crawling!Cardinality(R) <= Crawling!Faults
  <2> HIDE DEF R
  <2> QED BY <1>1, ConstantsAre, Crawling!RepeatsPaid DEF AggregatorInvariant
<1>3. IsFiniteSet(R) /\ Cardinality(R) <= failures + stops + evictions
  <2> HIDE DEF R
  <2>1. /\ Crawling!Cardinality(R) = Cardinality(R)
        /\ Crawling!IsFiniteSet(R) <=> IsFiniteSet(R)
    BY DEF Crawling!Cardinality, Crawling!IsFiniteSet, Cardinality, IsFiniteSet
  <2> QED BY <1>2, <2>1 DEF Crawling!Faults
<1>4. f \in Injection(both, R)
  <2>1. f \in [both -> R]
    OBVIOUS
  <2>2. \A u, v \in both : f[u] = f[v] => u = v
    BY DEF RequestFor
  <2> QED BY <2>1, <2>2 DEF Injection, IsInjective
<1>5. IsFiniteSet(both) /\ Cardinality(both) <= Cardinality(R)
  <2> HIDE DEF f, both, R
  <2> QED BY <1>3, <1>4, FS_Injection
<1>6. Cardinality(both) \in Nat /\ Cardinality(R) \in Nat
  BY <1>3, <1>5, FS_CardinalityType
<1>7. failures \in Nat /\ stops \in Nat /\ evictions \in Nat
  BY DEF AggregatorInvariant, Recording!SinkInvariant, Recording!TypeOK
<1> HIDE DEF both, R
<1>8. Cardinality(both) <= failures + stops + evictions
  BY <1>3, <1>5, <1>6, <1>7
<1> QED BY <1>5, <1>6, <1>8 DEF both

(***************************************************************************)
(* What is counted of a job that has a row.                                *)
(***************************************************************************)
LEMMA Counts ==
    ASSUME AggregatorInvariant, NEW j \in Jobs, jobs[j] # NotCreated
    PROVE  /\ Answered(j) \subseteq Range(body[j]) /\ body[j] \in Seq(Urls)
           /\ IsFiniteSet(Answered(j)) /\ Cardinality(Answered(j)) \in Nat
           /\ IsFiniteSet(articles[j] \cap errors[j])
           /\ Cardinality(articles[j] \cap errors[j]) \in Nat
           /\ Cardinality(articles[j] \cap errors[j])
                 <= Cardinality(Repeated(j)) + failures + stops + evictions
           /\ jobs[j].done + jobs[j].failed
                 = Cardinality(Answered(j)) + Cardinality(articles[j] \cap errors[j])
           /\ Cardinality(Repeated(j)) \in Nat
<1>1. Answered(j) \subseteq Range(body[j])
  BY RowIsListed DEF Answered
<1>2. body[j] \in Seq(Urls)
  BY ConstantsAre, Posting!RowIsNoMore DEF AggregatorInvariant, Posting!NeverMore
<1>3. articles[j] \subseteq Urls /\ errors[j] \subseteq Urls /\ Repeated(j) \subseteq Urls
  BY <1>2 DEF AggregatorInvariant, Recording!SinkInvariant, Recording!TypeOK, Repeated, Range
<1>4. /\ IsFiniteSet(articles[j]) /\ IsFiniteSet(errors[j]) /\ IsFiniteSet(Repeated(j))
      /\ IsFiniteSet(articles[j] \cap errors[j])
  BY <1>3, AggregatorAssumption, FS_Subset
<1>5. /\ IsFiniteSet(articles[j] \cup errors[j])
      /\ Cardinality(articles[j] \cup errors[j]) =
            Cardinality(articles[j]) + Cardinality(errors[j])
              - Cardinality(articles[j] \cap errors[j])
  BY <1>4, FS_Union
<1> DEFINE A == Cardinality(articles[j])
           E == Cardinality(errors[j])
           B == Cardinality(articles[j] \cap errors[j])
           U == Cardinality(articles[j] \cup errors[j])
           T == Cardinality(Repeated(j))
<1>6. A \in Nat /\ E \in Nat /\ B \in Nat /\ U \in Nat /\ T \in Nat
  BY <1>4, <1>5, FS_CardinalityType
<1>7. jobs[j].done = A /\ jobs[j].failed = E
  <2>1. Recording!Exists(j)
    <3>1. jobs[j] \in Recording!JobRow
      BY DEF AggregatorInvariant, Posting!PostInvariant, Posting!TypeOK,
             Posting!JobRow, Recording!JobRow
    <3> QED BY <3>1, ConstantsAre DEF Recording!Exists
  <2>2. /\ jobs[j].done = Recording!Cardinality(articles[j])
        /\ jobs[j].failed = Recording!Cardinality(errors[j])
    BY <2>1 DEF AggregatorInvariant, Recording!SinkInvariant, Recording!CountersMatchRows
  <2>3. /\ Recording!Cardinality(articles[j]) = Cardinality(articles[j])
        /\ Recording!Cardinality(errors[j]) = Cardinality(errors[j])
    BY DEF Recording!Cardinality, Cardinality
  <2> QED BY <2>2, <2>3
<1>8. B <= T + failures + stops + evictions
  <2> DEFINE both == (articles[j] \cap errors[j]) \ Repeated(j)
             F == failures + stops + evictions
  <2>1. /\ IsFiniteSet(both) /\ Cardinality(both) \in Nat
        /\ Cardinality(both) <= F
    BY BothAreFew
  <2>2. /\ IsFiniteSet(both \cup Repeated(j))
        /\ Cardinality(both \cup Repeated(j)) =
              Cardinality(both) + Cardinality(Repeated(j)) - Cardinality(both \cap Repeated(j))
    BY <1>4, <2>1, FS_Union
  <2>3. both \cap Repeated(j) = {}
    OBVIOUS
  <2>4. articles[j] \cap errors[j] \subseteq both \cup Repeated(j)
    OBVIOUS
  <2>5. B <= Cardinality(both \cup Repeated(j))
    BY <2>2, <2>4, FS_Subset
  <2>6. failures \in Nat /\ stops \in Nat /\ evictions \in Nat
    BY DEF AggregatorInvariant, Recording!SinkInvariant, Recording!TypeOK
  <2>7. Cardinality(both \cap Repeated(j)) = 0
    BY <2>3, FS_EmptySet
  <2> HIDE DEF both, B, T
  <2>8. Cardinality(both \cup Repeated(j)) = Cardinality(both) + T
    BY <1>6, <2>1, <2>2, <2>7 DEF T
  <2> DEFINE c == Cardinality(both)
  <2>9. c \in Nat /\ c <= failures + stops + evictions /\ B <= c + T
    BY <2>1, <2>5, <2>8
  <2> HIDE DEF c
  <2> QED BY <1>6, <2>6, <2>9
<1>9. jobs[j].done + jobs[j].failed = U + B
  <2> HIDE DEF A, E, B, U
  <2>1. U = A + E - B
    BY <1>5 DEF A, E, B, U
  <2>2. A + E = U + B
    BY <1>6, <2>1
  <2> QED BY <1>7, <2>2
<1> QED BY <1>1, <1>2, <1>4, <1>5, <1>6, <1>8, <1>9 DEF Answered

(***************************************************************************)
(* From end to end, whatever is rejected, killed, evicted, delivered again *)
(* or out of order: no url is recorded that the client did not list, and   *)
(* each url counted twice in a job has its own fault, or is listed twice.  *)
(***************************************************************************)
THEOREM OvercountPaidByFaults == Spec => []OvercountNeedsFaults
<1>1. AggregatorInvariant => OvercountNeedsFaults
  <2> SUFFICES ASSUME AggregatorInvariant, NEW j \in Jobs, jobs[j] # NotCreated
               PROVE  /\ Answered(j) \subseteq Range(body[j])
                      /\ jobs[j].done + jobs[j].failed
                           <= Cardinality(Answered(j)) + Cardinality(Repeated(j))
                                + failures + stops + evictions
    BY DEF OvercountNeedsFaults
  <2> DEFINE B == Cardinality(articles[j] \cap errors[j])
             U == Cardinality(Answered(j))
             T == Cardinality(Repeated(j))
             n == jobs[j].done + jobs[j].failed
  <2>1. /\ Answered(j) \subseteq Range(body[j])
        /\ B \in Nat /\ U \in Nat /\ T \in Nat /\ n = U + B
        /\ B <= T + failures + stops + evictions
    BY Counts
  <2>2. failures \in Nat /\ stops \in Nat /\ evictions \in Nat
    BY DEF AggregatorInvariant, Recording!SinkInvariant, Recording!TypeOK
  <2> HIDE DEF B, U, T, n
  <2>3. n <= U + T + failures + stops + evictions
    BY <2>1, <2>2
  <2> QED BY <2>1, <2>3 DEF U, T, n
<1> QED BY <1>1, InvariantHolds, PTL

LEMMA RepeatsOfDistinct ==
    ASSUME NEW j \in Jobs, body[j] \in Seq(Urls), IsInjective(body[j])
    PROVE  Repeated(j) = {}
<1> SUFFICES ASSUME NEW u \in Range(body[j]) PROVE ~(Api!Occurrences(u, body[j]) > 1)
  BY DEF Repeated
<1>1. PICK i \in DOMAIN body[j] : body[j][i] = u
  BY DEF Range
<1>2. {k \in DOMAIN body[j] : body[j][k] = u} = {i}
  BY <1>1 DEF IsInjective
<1>3. Api!Occurrences(u, body[j]) = Cardinality({i})
  BY <1>2 DEF Api!Occurrences, Api!Cardinality, Cardinality
<1>4. Cardinality({i}) = 1
  BY FS_Singleton
<1> QED BY <1>3, <1>4

(***************************************************************************)
(* A sequence has no more values than places.                              *)
(***************************************************************************)
LEMMA RangeIsSmall ==
    ASSUME NEW T, NEW s \in Seq(T)
    PROVE  IsFiniteSet(Range(s)) /\ Cardinality(Range(s)) <= Len(s)
<1>1. s \in [1..Len(s) -> Range(s)] /\ Len(s) \in Nat
  BY DEF Range
<1>2. s \in Surjection(1..Len(s), Range(s))
  BY <1>1 DEF Range, Surjection
<1>3. IsFiniteSet(1..Len(s)) /\ Cardinality(1..Len(s)) = Len(s)
  <2> DEFINE n == Len(s)
  <2>1. n \in Nat
    BY <1>1
  <2> HIDE DEF n
  <2>2. IsFiniteSet(1..n) /\ Cardinality(1..n) = IF 1 > n THEN 0 ELSE n - 1 + 1
    BY <2>1, FS_Interval
  <2>3. IsFiniteSet(1..n) /\ Cardinality(1..n) = n
    BY <2>1, <2>2
  <2> QED BY <2>3 DEF n
<1> QED BY <1>2, <1>3, FS_Surjection

(***************************************************************************)
(* 'done' is honest: without a fault, each of the distinct urls of a job   *)
(* that is done has its article or its error, and none of them has both.   *)
(***************************************************************************)
THEOREM DoneIsHonest == Spec => []HonestDone
<1>1. AggregatorInvariant => HonestDone
  <2> SUFFICES ASSUME AggregatorInvariant, failures + stops + evictions = 0, NEW j \in Jobs,
                      jobs[j] # NotCreated, jobs[j].state = "done", IsInjective(body[j])
               PROVE  /\ Answered(j) = Range(body[j])
                      /\ articles[j] \cap errors[j] = {}
    BY DEF HonestDone
  <2> DEFINE B == Cardinality(articles[j] \cap errors[j])
             U == Cardinality(Answered(j))
             n == jobs[j].done + jobs[j].failed
             L == Len(body[j])
             V == Cardinality(Range(body[j]))
  <2>1. failures = 0 /\ stops = 0 /\ evictions = 0
    BY DEF AggregatorInvariant, Recording!SinkInvariant, Recording!TypeOK
  <2>2. /\ Answered(j) \subseteq Range(body[j]) /\ body[j] \in Seq(Urls)
        /\ IsFiniteSet(articles[j] \cap errors[j])
        /\ B \in Nat /\ U \in Nat /\ n = U + B
        /\ B <= Cardinality(Repeated(j)) + failures + stops + evictions
    BY Counts
  <2>3. Cardinality(Repeated(j)) = 0
    BY <2>2, RepeatsOfDistinct, FS_EmptySet
  <2>4. B = 0
    <3> HIDE DEF B
    <3> QED BY <2>1, <2>2, <2>3
  <2>5. articles[j] \cap errors[j] = {}
    BY <2>2, <2>4, FS_EmptySet
  <2>6. n >= L
    <3>1. jobs[j].total = L
      BY <2>1, ConstantsAre, Posting!RowIsNoMore DEF AggregatorInvariant
    <3>2. jobs[j] \in Recording!JobRow
      BY DEF AggregatorInvariant, Posting!PostInvariant, Posting!TypeOK,
             Posting!JobRow, Recording!JobRow
    <3>3. Recording!Exists(j)
      BY <3>2, ConstantsAre DEF Recording!Exists
    <3>4. jobs[j].state = IF n >= jobs[j].total THEN "done"
                          ELSE IF n > 0 THEN "running" ELSE "queued"
      BY <3>3 DEF AggregatorInvariant, Recording!SinkInvariant, Recording!StateMatchesCounters
    <3> QED BY <3>1, <3>4
  <2>7. IsFiniteSet(Range(body[j])) /\ V <= L
    BY <2>2, RangeIsSmall
  <2>8. U <= V /\ (U = V => Answered(j) = Range(body[j]))
    BY <2>2, <2>7, FS_Subset
  <2>9. L \in Nat /\ V \in Nat
    BY <2>2, <2>7, FS_CardinalityType
  <2> HIDE DEF B, U, n, L, V
  <2>10. U = V
    BY <2>2, <2>4, <2>6, <2>7, <2>8, <2>9
  <2> QED BY <2>5, <2>8, <2>10
<1> QED BY <1>1, InvariantHolds, PTL
=============================================================================

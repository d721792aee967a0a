------------------------------- MODULE Worker -------------------------------
(***************************************************************************)
(* The crawling worker (services/worker/src/index.js): a consumer of       *)
(* crawl_requests that crawls the url of each request, publishes the       *)
(* outcome to crawl_results and then commits the request's offset.         *)
(*                                                                         *)
(* kafkajs hands a process one message at a time, so the two semaphores    *)
(* the handler passes through never make it wait and are left out.  What   *)
(* the web answers, through robots.js, fetcher.js and extractor.js, is any *)
(* member of Outcomes[u], chosen afresh each time the url is crawled: a    *)
(* site may serve a page now and fail later.                               *)
(***************************************************************************)
EXTENDS Naturals, Sequences, FiniteSets

CONSTANTS Jobs, Urls,
          Workers,            \* worker processes
          Domains,
          DomainOf,           \* DomainOf[u]: domainKey(u), the Kafka key
          RequestPartitions,  \* partitions of crawl_requests
          RequestPartition,   \* RequestPartition[d]: where key d goes
          ResultPartitions,   \* partitions of crawl_results
          ResultPartition,    \* ResultPartition[u]: where the key of u goes
          Outcomes,           \* Outcomes[u]: how crawling u may end
          Garbage, NoWork, NoResult, Nobody, NoOffset,
          FreshGroup,         \* TRUE: the group has never committed an offset
          MaxRequests,        \* bound on the messages of one partition
          MaxFailures, MaxStops, MaxEvictions

VARIABLES requests,                             \* topic crawl_requests
          reqCommitted, reqOwner, reqPosition,  \* group crawler-workers
          results,                              \* topic crawl_results
          wpc,       \* wpc[w]: what the handler of w does next
          wwork,     \* wwork[w]: partition and offset being handled
          wresult,   \* wresult[w]: status of the result it has built
          failures, stops, evictions

requestVars == <<requests, reqCommitted, reqOwner, reqPosition>>
workerVars == <<wpc, wwork, wresult>>
faultVars == <<failures, stops, evictions>>
vars == <<requestVars, results, workerVars, faultVars>>

Group == INSTANCE ConsumerGroup
    WITH Partitions <- RequestPartitions, Members <- Workers, log <- requests,
         committed <- reqCommitted, owner <- reqOwner, position <- reqPosition

Request == [job : Jobs, url : Urls]
Event == [job : Jobs, url : Urls, status : {"ok", "error"}]
Work == [part : RequestPartitions, off : Nat]

ASSUME WorkerAssumption ==
    /\ DomainOf \in [Urls -> Domains]
    /\ RequestPartition \in [Domains -> RequestPartitions]
    /\ ResultPartition \in [Urls -> ResultPartitions]
    /\ Outcomes \in [Urls -> SUBSET {"ok", "error"}]
    /\ \A u \in Urls : Outcomes[u] # {}
    /\ FreshGroup \in BOOLEAN
    /\ MaxRequests \in Nat
    /\ MaxFailures \in Nat /\ MaxStops \in Nat /\ MaxEvictions \in Nat
    /\ Garbage \notin Request
    /\ NoWork \notin Work
    /\ NoResult \notin {"ok", "error"}
    /\ Nobody \notin Workers
    /\ NoOffset \notin Nat

Req(w) == requests[wwork[w].part][wwork[w].off + 1]
-----------------------------------------------------------------------------
Init ==
    /\ requests = [p \in RequestPartitions |-> <<>>]
    /\ reqCommitted = [p \in RequestPartitions |-> IF FreshGroup THEN NoOffset ELSE 0]
    /\ reqOwner = [p \in RequestPartitions |-> Nobody]
    /\ reqPosition = [p \in RequestPartitions |-> 0]
    /\ results = [p \in ResultPartitions |-> <<>>]
    /\ wpc = [w \in Workers |-> "idle"]
    /\ wwork = [w \in Workers |-> NoWork]
    /\ wresult = [w \in Workers |-> NoResult]
    /\ failures = 0 /\ stops = 0 /\ evictions = 0
-----------------------------------------------------------------------------
Goto(w, loc) == wpc' = [wpc EXCEPT ![w] = loc]

EndHandler(w, loc) ==
    /\ Goto(w, loc)
    /\ wwork' = [wwork EXCEPT ![w] = NoWork]
    /\ wresult' = [wresult EXCEPT ![w] = NoResult]

(***************************************************************************)
(* eachMessage resolves: kafkajs moves past the message.  When it rejects, *)
(* kafkajs delivers the message again.  (ReturnInPlace is a slip: it does  *)
(* not move.)                                                              *)
(***************************************************************************)
ReturnInPlace(w) == EndHandler(w, "idle") /\ UNCHANGED reqPosition
Return(w) == EndHandler(w, "idle") /\ Group!Resolve(wwork[w].part, w, wwork[w].off)
Throw(w) == EndHandler(w, "idle") /\ UNCHANGED reqPosition

RemoteFailure == failures < MaxFailures /\ failures' = failures + 1

Deliver(w, p) ==
    /\ wpc[w] = "idle"
    /\ Group!Ready(p, w)
    /\ wwork' = [wwork EXCEPT ![w] = [part |-> p, off |-> reqPosition[p]]]
    /\ Goto(w, IF requests[p][reqPosition[p] + 1] = Garbage THEN "garbage"
               ELSE "crawl")
    /\ UNCHANGED <<requestVars, results, wresult, faultVars>>

(***************************************************************************)
(* A slip of the crawl: a path on which the result's status is not set.    *)
(***************************************************************************)
CrawlWithoutStatus(w) ==
    /\ wpc[w] = "crawl"
    /\ Goto(w, "produce")
    /\ UNCHANGED <<requestVars, results, wwork, wresult, faultVars>>

(***************************************************************************)
(* robots check, fetch with retries and extraction.  None of them makes    *)
(* the handler reject: each failure becomes a result with status "error".  *)
(***************************************************************************)
Crawl(w) ==
    /\ wpc[w] = "crawl"
    /\ \E status \in Outcomes[Req(w).url] :
        wresult' = [wresult EXCEPT ![w] = status]
    /\ Goto(w, "produce")
    /\ UNCHANGED <<requestVars, results, wwork, faultVars>>

Answer(w) == [job |-> Req(w).job, url |-> Req(w).url, status |-> wresult[w]]

(***************************************************************************)
(* The broker appends the result of w, n times: the producer is not        *)
(* idempotent, so a send that kafkajs retries may be appended twice.       *)
(***************************************************************************)
AppendResult(w, n) ==
    LET p == ResultPartition[Req(w).url] IN
    results' = [results EXCEPT ![p] = @ \o [i \in 1..n |-> Answer(w)]]

Produce(w) ==
    /\ wpc[w] = "produce"
    /\ Goto(w, "commit")
    /\ \/ AppendResult(w, 1) /\ UNCHANGED failures
       \/ AppendResult(w, 2) /\ RemoteFailure
    /\ UNCHANGED <<requestVars, wwork, wresult, stops, evictions>>

(***************************************************************************)
(* producer.send rejects, before or after the broker appended the result.  *)
(* The catch block logs "will retry via Kafka" and the handler resolves.   *)
(***************************************************************************)
ProduceRejects(w) ==
    /\ wpc[w] = "produce"
    /\ \E n \in {0, 1} : AppendResult(w, n)
    /\ Return(w)
    /\ RemoteFailure
    /\ UNCHANGED <<requests, reqCommitted, reqOwner, stops, evictions>>

(***************************************************************************)
(* Where the handler calls commitOffsets; and a slip, where it does so     *)
(* before it has produced the result.                                      *)
(***************************************************************************)
CommitsOffsetEarly == {"produce", "commit", "garbage"}

CommitsOffset == {"commit", "garbage"}

CommitOffset(w) ==
    /\ wpc[w] \in CommitsOffset
    /\ Group!CommitAccepted(wwork[w].part, w, wwork[w].off)
    /\ Return(w)
    /\ UNCHANGED <<requests, reqOwner, results, faultVars>>

(***************************************************************************)
(* commitOffsets rejects, because the partition is no longer ours or       *)
(* because the call failed, before or after the broker took the offset.    *)
(* After a crawl the catch block swallows that; for garbage the call is    *)
(* outside try.                                                            *)
(***************************************************************************)
OffsetRejects(w) ==
    /\ wpc[w] \in CommitsOffset
    /\ \/ /\ Group!CommitRefused(wwork[w].part, w)
          /\ UNCHANGED <<reqCommitted, failures>>
       \/ /\ UNCHANGED reqCommitted \/ Group!CommitAccepted(wwork[w].part, w, wwork[w].off)
          /\ RemoteFailure
    /\ IF wpc[w] = "garbage" THEN Throw(w) ELSE Return(w)
    /\ UNCHANGED <<requests, reqOwner, results, stops, evictions>>
-----------------------------------------------------------------------------
(***************************************************************************)
(* SIGTERM: shutdown() disconnects the consumer, which waits for the       *)
(* handler in progress; a kill comes at any point of it.                   *)
(***************************************************************************)
StopWorker(w) ==
    /\ stops < MaxStops
    /\ stops' = stops + 1
    /\ EndHandler(w, "down")
    /\ Group!Leave(w)
    /\ UNCHANGED <<requests, reqCommitted, reqPosition, results, failures, evictions>>

Shutdown(w) == wpc[w] = "idle" /\ StopWorker(w)
Kill(w) == wpc[w] \notin {"idle", "down"} /\ StopWorker(w)

Restart(w) ==
    /\ wpc[w] = "down"
    /\ Goto(w, "idle")
    /\ UNCHANGED <<requestVars, results, wwork, wresult, faultVars>>

AssignRequests(p, w) ==
    /\ wpc[w] = "idle"
    /\ Group!Assign(p, w)
    /\ UNCHANGED <<requests, reqCommitted, results, workerVars, faultVars>>

EvictRequests(p) ==
    /\ evictions < MaxEvictions
    /\ evictions' = evictions + 1
    /\ Group!Evict(p)
    /\ UNCHANGED <<requests, reqCommitted, reqPosition, results, workerVars,
                   failures, stops>>

(***************************************************************************)
(* One step of the handler of w.                                           *)
(***************************************************************************)
Handle(w) ==
    \/ \E p \in RequestPartitions : Deliver(w, p)
    \/ Crawl(w)
    \/ Produce(w)
    \/ ProduceRejects(w)
    \/ CommitOffset(w)
    \/ OffsetRejects(w)

Rebalance(p) == EvictRequests(p) \/ \E w \in Workers : AssignRequests(p, w)

WorkerNext ==
    \/ \E w \in Workers : Handle(w) \/ Shutdown(w) \/ Kill(w) \/ Restart(w)
    \/ \E p \in RequestPartitions : Rebalance(p)
-----------------------------------------------------------------------------
(***************************************************************************)
(* A slip of the producer of requests: they carry no key.                  *)
(***************************************************************************)
PublishWithoutKey(m) ==
    \E p \in RequestPartitions :
        /\ Len(requests[p]) < MaxRequests
        /\ Group!Publish(p, m)
        /\ UNCHANGED <<reqCommitted, reqOwner, reqPosition, results, workerVars,
                       faultVars>>

(***************************************************************************)
(* The environment: POST /jobs publishes a request under the key of its    *)
(* domain; anything else that is in the topic is not JSON.                 *)
(***************************************************************************)
PublishRequest(m) ==
    LET p == RequestPartition[DomainOf[m.url]] IN
    /\ Len(requests[p]) < MaxRequests
    /\ Group!Publish(p, m)
    /\ UNCHANGED <<reqCommitted, reqOwner, reqPosition, results, workerVars, faultVars>>

PublishGarbage(p) ==
    /\ Len(requests[p]) < MaxRequests
    /\ Group!Publish(p, Garbage)
    /\ UNCHANGED <<reqCommitted, reqOwner, reqPosition, results, workerVars, faultVars>>

Next ==
    \/ WorkerNext
    \/ \E m \in Request : PublishRequest(m)
    \/ \E p \in RequestPartitions : PublishGarbage(p)

Spec == Init /\ [][Next]_vars
-----------------------------------------------------------------------------
(***************************************************************************)
(* Types of all variables.                                                 *)
(***************************************************************************)
TypeOK ==
    /\ requests \in [RequestPartitions -> Seq(Request \cup {Garbage})]
    /\ reqCommitted \in [RequestPartitions -> Nat \cup {NoOffset}]
    /\ reqOwner \in [RequestPartitions -> Workers \cup {Nobody}]
    /\ reqPosition \in [RequestPartitions -> Nat]
    /\ results \in [ResultPartitions -> Seq(Event)]
    /\ wpc \in [Workers -> {"down", "idle", "garbage", "crawl", "produce", "commit"}]
    /\ wwork \in [Workers -> Work \cup {NoWork}]
    /\ wresult \in [Workers -> {"ok", "error", NoResult}]
    /\ failures \in Nat /\ stops \in Nat /\ evictions \in Nat

Asked(r) ==
    LET log == requests[RequestPartition[DomainOf[r.url]]] IN
    Cardinality({o \in DOMAIN log : log[o] = r})

Answered(r) ==
    LET log == results[ResultPartition[r.url]] IN
    Cardinality({o \in DOMAIN log : log[o].job = r.job /\ log[o].url = r.url})

AskedBefore(r) ==
    LET p == RequestPartition[DomainOf[r.url]] IN
    Cardinality({o \in 1..reqCommitted[p] : requests[p][o] = r})

(***************************************************************************)
(* What the code does guarantee ("commit offset only after producing       *)
(* result", worker/src/index.js:213): while no remote call has rejected,   *)
(* every request below the committed offset has its own result, whichever  *)
(* workers were killed, stopped or robbed of the partition on the way.     *)
(***************************************************************************)
AtLeastOnceUnlessRejected ==
    failures = 0 /\ ~FreshGroup => \A r \in Request : AskedBefore(r) <= Answered(r)

(***************************************************************************)
(* And what a rejected call may cost ("will retry via Kafka",              *)
(* worker/src/index.js:236, which happens only if no later request of the  *)
(* partition is committed first): one answer, its own.  The results that   *)
(* the requests below the committed offsets lack, over all requests        *)
(* together, are at most as many as the calls that rejected.               *)
(***************************************************************************)
Lacking == UNION {{r} \X ((Answered(r) + 1)..AskedBefore(r)) : r \in Request}

LossesNeedRejections == ~FreshGroup => Cardinality(Lacking) <= failures

(***************************************************************************)
(* A url is crawled again only because something went wrong: the results   *)
(* in excess of the requests, over all requests together, are at most as   *)
(* many as the rejected calls, stopped processes and lost partitions.      *)
(***************************************************************************)
InExcess == UNION {{r} \X ((Asked(r) + 1)..Answered(r)) : r \in Request}

DuplicatesNeedFaults == Cardinality(InExcess) <= failures + stops + evictions

Crawling(w) == wpc[w] \in {"crawl", "produce", "commit"}

(***************************************************************************)
(* Requests carry their domain as the Kafka key, so two processes never    *)
(* visit the same domain at the same time, however many are running:       *)
(* nothing in the code but the key keeps the per-process limit of          *)
(* limiter.js a limit for all of them.  Only a handler that outlives its   *)
(* partition breaks it.                                                    *)
(***************************************************************************)
OneVisitorPerDomain ==
    evictions = 0 =>
        \A v, w \in Workers :
            Crawling(v) /\ Crawling(w) /\ DomainOf[Req(v).url] = DomainOf[Req(w).url]
                => v = w
=============================================================================

---------------------------- MODULE WorkerProofs -----------------------------
(***************************************************************************)
(* What is proved of Worker for any number of workers, urls, partitions,   *)
(* requests and faults: its types, that one process at a time visits a     *)
(* domain, and that no request is passed over without a result.            *)
(*                                                                         *)
(* Typed says what a busy handler has in its hands and where a request may *)
(* be; OwnsItsWork and InStep relate a handler to the partition it reads;  *)
(* EachDueAnswered counts.  Charged, the last, holds whatever is rejected: *)
(* each fault pays for one result more than was asked for.                 *)
(***************************************************************************)
EXTENDS Worker, FiniteSetTheorems, SequenceTheorems, TLAPS

Locations == {"down", "idle", "garbage", "crawl", "produce", "commit"}

Busy(w) == wpc[w] \notin {"idle", "down"}

(***************************************************************************)
(* A busy handler has a message of its partition, parsed unless it is      *)
(* garbage, and a result once it has crawled.                              *)
(***************************************************************************)
HandlerHasWork ==
    \A w \in Workers : Busy(w) =>
        /\ wwork[w] \in Work
        /\ wwork[w].off < Len(requests[wwork[w].part])
        /\ wpc[w] = "garbage" <=> Req(w) = Garbage
        /\ wpc[w] \in {"produce", "commit"} => wresult[w] \in {"ok", "error"}

(***************************************************************************)
(* A request is only where the key of its domain goes.                     *)
(***************************************************************************)
KeyedRequests ==
    \A p \in RequestPartitions : \A o \in 1..Len(requests[p]) :
        requests[p][o] # Garbage => RequestPartition[DomainOf[requests[p][o].url]] = p

Typed == TypeOK /\ HandlerHasWork /\ KeyedRequests

(***************************************************************************)
(* No handler outlives its partition while no partition is taken away.     *)
(***************************************************************************)
OwnsItsWork ==
    evictions = 0 =>
        \A w \in Workers : Busy(w) => reqOwner[wwork[w].part] = w

NothingRejected == failures = 0 /\ ~FreshGroup

(***************************************************************************)
(* While no call is rejected, an owner reads where the group has committed *)
(* and its handler is at that very message.                                *)
(***************************************************************************)
InStep ==
    NothingRejected =>
        \A p \in RequestPartitions :
            /\ reqCommitted[p] \in Nat /\ reqCommitted[p] <= Len(requests[p])
            /\ reqOwner[p] # Nobody => reqPosition[p] = reqCommitted[p]
            /\ \A w \in Workers :
                   Busy(w) /\ wwork[w].part = p /\ reqOwner[p] = w
                       => wwork[w].off = reqPosition[p]

(***************************************************************************)
(* The offsets of r that are committed or are about to be by an owner      *)
(* that has published: each is due a result of its own.                    *)
(***************************************************************************)
PartitionOf(r) == RequestPartition[DomainOf[r.url]]

AboutToCommit(p, o) ==
    \E w \in Workers : wpc[w] = "commit" /\ reqOwner[p] = w /\ wwork[w].part = p
                       /\ o = wwork[w].off + 1

Due(r) ==
    {o \in 1..Len(requests[PartitionOf(r)]) :
        /\ requests[PartitionOf(r)][o] = r
        /\ o <= reqCommitted[PartitionOf(r)] \/ AboutToCommit(PartitionOf(r), o)}

Answers(r) ==
    {o \in 1..Len(results[ResultPartition[r.url]]) :
        /\ results[ResultPartition[r.url]][o].job = r.job
        /\ results[ResultPartition[r.url]][o].url = r.url}

EachDueAnswered ==
    NothingRejected => \A r \in Request : Cardinality(Due(r)) <= Cardinality(Answers(r))

WorkerInvariant == Typed /\ OwnsItsWork /\ InStep /\ EachDueAnswered
-----------------------------------------------------------------------------
(***************************************************************************)
(* First layer: types.                                                     *)
(***************************************************************************)
LEMMA TypedInit == Init => Typed
BY WorkerAssumption
DEF Init, Typed, TypeOK, HandlerHasWork, KeyedRequests, Busy

LEMMA ReqType ==
    ASSUME Typed, NEW w \in Workers, Busy(w), wpc[w] # "garbage"
    PROVE  /\ Req(w) \in Request
           /\ PartitionOf(Req(w)) = wwork[w].part
           /\ wwork[w] \in Work /\ wwork[w].off + 1 \in 1..Len(requests[wwork[w].part])
<1>1. /\ wwork[w] \in Work /\ wwork[w].off < Len(requests[wwork[w].part])
      /\ Req(w) # Garbage
  BY DEF Typed, HandlerHasWork
<1>2. wwork[w].part \in RequestPartitions /\ wwork[w].off \in Nat
  BY <1>1 DEF Work
<1>3. requests[wwork[w].part] \in Seq(Request \cup {Garbage})
  BY <1>2 DEF Typed, TypeOK
<1>4. wwork[w].off + 1 \in 1..Len(requests[wwork[w].part])
  BY <1>1, <1>2, <1>3
<1>5. Req(w) \in Request
  BY <1>1, <1>3, <1>4 DEF Req
<1> QED BY <1>1, <1>2, <1>4, <1>5 DEF Typed, KeyedRequests, Req, PartitionOf

LEMMA EndHandlerTyped ==
    ASSUME Typed, NEW w \in Workers, NEW loc \in {"idle", "down"}, EndHandler(w, loc),
           UNCHANGED requests
    PROVE  /\ wpc' \in [Workers -> Locations]
           /\ wwork' \in [Workers -> Work \cup {NoWork}]
           /\ wresult' \in [Workers -> {"ok", "error", NoResult}]
           /\ HandlerHasWork' /\ KeyedRequests'
BY DEF Typed, TypeOK, EndHandler, Goto, HandlerHasWork, KeyedRequests, Busy, Req, Locations

LEMMA GotoTyped ==
    ASSUME Typed, NEW w \in Workers, NEW loc \in {"produce", "commit"}, Goto(w, loc),
           Busy(w), wpc[w] # "garbage", UNCHANGED <<requests, wwork>>,
           wresult' \in [Workers -> {"ok", "error", NoResult}],
           wresult'[w] \in {"ok", "error"},
           \A v \in Workers \ {w} : wresult'[v] = wresult[v]
    PROVE  /\ wpc' \in [Workers -> Locations]
           /\ HandlerHasWork' /\ KeyedRequests'
BY DEF Typed, TypeOK, Goto, HandlerHasWork, KeyedRequests, Busy, Req, Locations

LEMMA ResolveType ==
    ASSUME TypeOK, NEW k \in Work, NEW w, Group!Resolve(k.part, w, k.off)
    PROVE  reqPosition' \in [RequestPartitions -> Nat]
BY DEF TypeOK, Work, Group!Resolve

LEMMA ReturnTyped ==
    ASSUME Typed, NEW w \in Workers, Busy(w), Return(w) \/ Throw(w), UNCHANGED requests
    PROVE  /\ wpc' \in [Workers -> Locations]
           /\ wwork' \in [Workers -> Work \cup {NoWork}]
           /\ wresult' \in [Workers -> {"ok", "error", NoResult}]
           /\ reqPosition' \in [RequestPartitions -> Nat]
           /\ HandlerHasWork' /\ KeyedRequests'
<1>1. EndHandler(w, "idle")
  BY DEF Return, Throw
<1>2. wwork[w] \in Work /\ TypeOK
  BY DEF Typed, HandlerHasWork
<1>3. reqPosition' \in [RequestPartitions -> Nat]
  <2>1. CASE Throw(w)
    BY <1>2, <2>1 DEF Throw, TypeOK
  <2>2. CASE Return(w)
    BY <1>2, <2>2, ResolveType DEF Return
  <2> QED BY <2>1, <2>2
<1> QED BY <1>1, <1>3, EndHandlerTyped

LEMMA AppendResultType ==
    ASSUME Typed, NEW w \in Workers, wpc[w] = "produce", NEW n \in Nat, AppendResult(w, n)
    PROVE  results' \in [ResultPartitions -> Seq(Event)]
<1>1. Req(w) \in Request /\ wresult[w] \in {"ok", "error"}
  BY ReqType DEF Busy, Typed, HandlerHasWork
<1>2. Answer(w) \in Event /\ ResultPartition[Req(w).url] \in ResultPartitions
  BY <1>1, WorkerAssumption DEF Answer, Request, Event
<1>3. [i \in 1..n |-> Answer(w)] \in Seq(Event)
  BY <1>2
<1>4. results \in [ResultPartitions -> Seq(Event)]
  BY DEF Typed, TypeOK
<1> DEFINE p == ResultPartition[Req(w).url]
<1>5. results[p] \o [i \in 1..n |-> Answer(w)] \in Seq(Event)
  BY <1>2, <1>3, <1>4
<1>6. results' = [results EXCEPT ![p] = results[p] \o [i \in 1..n |-> Answer(w)]]
  BY DEF AppendResult
<1> QED BY <1>2, <1>4, <1>5, <1>6

LEMMA TypedDeliver ==
    ASSUME Typed, NEW w \in Workers, NEW p \in RequestPartitions, Deliver(w, p)
    PROVE  Typed'
<1> DEFINE k == [part |-> p, off |-> reqPosition[p]]
           loc == IF requests[p][reqPosition[p] + 1] = Garbage THEN "garbage" ELSE "crawl"
<1>1. k \in Work /\ k.off < Len(requests[k.part])
  BY DEF Typed, TypeOK, Work, Deliver, Group!Ready
<1>2. /\ wwork' = [wwork EXCEPT ![w] = k] /\ wpc' = [wpc EXCEPT ![w] = loc]
      /\ UNCHANGED <<requestVars, results, wresult, faultVars>>
  BY DEF Deliver, Goto
<1>3. loc \in {"garbage", "crawl"}
  OBVIOUS
<1>4. TypeOK'
  BY <1>1, <1>2, <1>3 DEF Typed, TypeOK, requestVars, faultVars
<1>5. KeyedRequests'
  BY <1>2 DEF Typed, KeyedRequests, requestVars
<1>6. ASSUME NEW v \in Workers, Busy(v)'
      PROVE  /\ wwork'[v] \in Work
             /\ wwork'[v].off < Len(requests'[wwork'[v].part])
             /\ wpc'[v] = "garbage" <=> Req(v)' = Garbage
             /\ wpc'[v] \in {"produce", "commit"} => wresult'[v] \in {"ok", "error"}
  <2>1. CASE v = w
    <3>1. wwork'[v] = k /\ wpc'[v] = loc /\ requests' = requests
      BY <1>2, <2>1 DEF Typed, TypeOK, requestVars
    <3>2. Req(v)' = requests[p][reqPosition[p] + 1]
      BY <3>1 DEF Req
    <3>3. loc = "garbage" <=> requests[p][reqPosition[p] + 1] = Garbage
      OBVIOUS
    <3> HIDE DEF loc, k
    <3> QED BY <1>1, <1>3, <3>1, <3>2, <3>3
  <2>2. CASE v # w
    BY <1>2, <1>6, <2>2 DEF Typed, TypeOK, HandlerHasWork, Busy, Req, requestVars
  <2> QED BY <2>1, <2>2
<1>7. HandlerHasWork'
  BY <1>6 DEF HandlerHasWork
<1> QED BY <1>4, <1>5, <1>7 DEF Typed

LEMMA TypedCrawl ==
    ASSUME Typed, NEW w \in Workers, Crawl(w)
    PROVE  Typed'
<1>1. Busy(w) /\ wpc[w] # "garbage"
  BY DEF Crawl, Busy
<1>2. Req(w).url \in Urls
  BY <1>1, ReqType DEF Request
<1>3. Outcomes[Req(w).url] \subseteq {"ok", "error"}
  BY <1>2, WorkerAssumption
<1>3b. PICK status \in Outcomes[Req(w).url] : wresult' = [wresult EXCEPT ![w] = status]
  BY DEF Crawl
<1>4. /\ wresult' \in [Workers -> {"ok", "error", NoResult}]
      /\ wresult'[w] \in {"ok", "error"}
      /\ \A v \in Workers \ {w} : wresult'[v] = wresult[v]
  BY <1>3, <1>3b DEF Typed, TypeOK
<1>5. /\ Goto(w, "produce") /\ UNCHANGED <<requests, wwork>>
  BY DEF Crawl, requestVars
<1>6. wpc' \in [Workers -> Locations] /\ HandlerHasWork' /\ KeyedRequests'
  BY <1>1, <1>4, <1>5, GotoTyped
<1> QED BY <1>4, <1>6 DEF Typed, TypeOK, Crawl, requestVars, faultVars, Locations

LEMMA TypedProduce ==
    ASSUME Typed, NEW w \in Workers, Produce(w)
    PROVE  Typed'
<1>1. Busy(w) /\ wpc[w] = "produce"
  BY DEF Produce, Busy
<1>2. /\ wresult[w] \in {"ok", "error"} /\ UNCHANGED <<requests, wwork, wresult>>
      /\ Goto(w, "commit") /\ wresult \in [Workers -> {"ok", "error", NoResult}]
  BY <1>1 DEF Produce, Typed, TypeOK, HandlerHasWork, requestVars
<1>3. wpc' \in [Workers -> Locations] /\ HandlerHasWork' /\ KeyedRequests'
  BY <1>1, <1>2, GotoTyped
<1>4. results' \in [ResultPartitions -> Seq(Event)]
  BY <1>1, AppendResultType DEF Produce
<1>5. failures' \in Nat
  BY DEF Produce, Typed, TypeOK, RemoteFailure
<1> QED BY <1>2, <1>3, <1>4, <1>5 DEF Typed, TypeOK, Produce, requestVars, Locations

LEMMA TypedProduceRejects ==
    ASSUME Typed, NEW w \in Workers, ProduceRejects(w)
    PROVE  Typed'
<1>1. Busy(w) /\ wpc[w] = "produce" /\ Return(w) /\ UNCHANGED requests
  BY DEF ProduceRejects, Busy
<1>2. results' \in [ResultPartitions -> Seq(Event)]
  BY <1>1, AppendResultType DEF ProduceRejects
<1>3. failures' \in Nat
  BY DEF ProduceRejects, Typed, TypeOK, RemoteFailure
<1> QED BY <1>1, <1>2, <1>3, ReturnTyped DEF Typed, TypeOK, ProduceRejects, Locations

LEMMA TypedCommitOffset ==
    ASSUME Typed, NEW w \in Workers, CommitOffset(w)
    PROVE  Typed'
<1>1. Busy(w) /\ Return(w) /\ UNCHANGED requests
  BY DEF CommitOffset, CommitsOffset, Busy
<1>2. wwork[w] \in Work
  BY <1>1 DEF Typed, HandlerHasWork
<1>3. reqCommitted' = [reqCommitted EXCEPT ![wwork[w].part] = wwork[w].off + 1]
  BY DEF CommitOffset, Group!CommitAccepted
<1>4. reqCommitted' \in [RequestPartitions -> Nat \cup {NoOffset}]
  BY <1>2, <1>3 DEF Typed, TypeOK, Work
<1> QED BY <1>1, <1>4, ReturnTyped DEF Typed, TypeOK, CommitOffset, faultVars, Locations

LEMMA TypedOffsetRejects ==
    ASSUME Typed, NEW w \in Workers, OffsetRejects(w)
    PROVE  Typed'
<1>1. Busy(w) /\ (Return(w) \/ Throw(w)) /\ UNCHANGED requests
  BY DEF OffsetRejects, CommitsOffset, Busy
<1>2. failures' \in Nat
  BY DEF OffsetRejects, Typed, TypeOK, RemoteFailure
<1>3. wwork[w] \in Work
  BY <1>1 DEF Typed, HandlerHasWork
<1>4. \/ UNCHANGED reqCommitted
      \/ reqCommitted' = [reqCommitted EXCEPT ![wwork[w].part] = wwork[w].off + 1]
  BY DEF OffsetRejects, Group!CommitAccepted
<1>5. reqCommitted' \in [RequestPartitions -> Nat \cup {NoOffset}]
  <2>1. CASE UNCHANGED reqCommitted
    BY <2>1 DEF Typed, TypeOK
  <2>2. CASE reqCommitted' = [reqCommitted EXCEPT ![wwork[w].part] = wwork[w].off + 1]
    BY <1>3, <2>2 DEF Typed, TypeOK, Work
  <2> QED BY <1>4, <2>1, <2>2
<1> QED BY <1>1, <1>2, <1>5, ReturnTyped DEF Typed, TypeOK, OffsetRejects, Locations

LEMMA TypedStopWorker ==
    ASSUME Typed, NEW w \in Workers, StopWorker(w)
    PROVE  Typed'
<1>1. EndHandler(w, "down") /\ UNCHANGED requests
  BY DEF StopWorker
<1>2. reqOwner' \in [RequestPartitions -> Workers \cup {Nobody}]
  BY DEF StopWorker, Group!Leave, Typed, TypeOK
<1> QED BY <1>1, <1>2, EndHandlerTyped DEF Typed, TypeOK, StopWorker, Locations

LEMMA TypedRestart ==
    ASSUME Typed, NEW w \in Workers, Restart(w)
    PROVE  Typed'
<1>1. TypeOK'
  BY DEF Typed, TypeOK, Restart, Goto, requestVars, faultVars
<1>2. HandlerHasWork' /\ KeyedRequests'
  BY DEF Typed, TypeOK, HandlerHasWork, KeyedRequests, Restart, Goto, Busy, Req, requestVars
<1> QED BY <1>1, <1>2 DEF Typed

LEMMA TypedRebalance ==
    ASSUME Typed, NEW p \in RequestPartitions, Rebalance(p)
    PROVE  Typed'
<1>1. UNCHANGED <<requests, reqCommitted, results, workerVars, failures, stops>>
  BY DEF Rebalance, EvictRequests, AssignRequests, faultVars
<1>2. HandlerHasWork' /\ KeyedRequests'
  BY <1>1 DEF Typed, HandlerHasWork, KeyedRequests, Busy, Req, workerVars
<1>3. evictions' \in Nat
  BY DEF Rebalance, EvictRequests, AssignRequests, Typed, TypeOK, faultVars
<1>3b. reqOwner' \in [RequestPartitions -> Workers \cup {Nobody}]
  <2>1. CASE EvictRequests(p)
    BY <2>1 DEF EvictRequests, Group!Evict, Typed, TypeOK
  <2>2. CASE \E w \in Workers : AssignRequests(p, w)
    <3>1. PICK w \in Workers : reqOwner' = [reqOwner EXCEPT ![p] = w]
      BY <2>2 DEF AssignRequests, Group!Assign
    <3> QED BY <3>1 DEF Typed, TypeOK
  <2> QED BY <2>1, <2>2 DEF Rebalance
<1>4. reqPosition' \in [RequestPartitions -> Nat]
  <2>1. Group!StartOffset(p) \in Nat
    BY DEF Group!StartOffset, Typed, TypeOK
  <2> QED BY <2>1 DEF Rebalance, EvictRequests, AssignRequests, Group!Assign, Typed, TypeOK
<1> QED BY <1>1, <1>2, <1>3, <1>3b, <1>4 DEF Typed, TypeOK, workerVars

(***************************************************************************)
(* Somebody publishes requests: what is in the topic stays where it is,    *)
(* and what comes lies in the partition of its key or is not JSON.         *)
(***************************************************************************)
Arrivals ==
    /\ requests' \in [RequestPartitions -> Seq(Request \cup {Garbage})]
    /\ \A q \in RequestPartitions :
           /\ Len(requests'[q]) \in Nat /\ Len(requests[q]) <= Len(requests'[q])
           /\ \A o \in 1..Len(requests[q]) : requests'[q][o] = requests[q][o]
           /\ \A o \in 1..Len(requests'[q]) :
                  \/ o \in 1..Len(requests[q])
                  \/ requests'[q][o] = Garbage
                  \/ PartitionOf(requests'[q][o]) = q

GroupStays == UNCHANGED <<reqCommitted, reqOwner, reqPosition, results, workerVars>>

LEMMA PublishArrives ==
    ASSUME Typed, NEW p \in RequestPartitions, NEW m \in Request \cup {Garbage},
           m # Garbage => PartitionOf(m) = p, Group!Publish(p, m)
    PROVE  Arrivals
<1>1. requests \in [RequestPartitions -> Seq(Request \cup {Garbage})]
  BY DEF Typed, TypeOK
<1>2. requests' = [requests EXCEPT ![p] = Append(requests[p], m)]
  BY DEF Group!Publish
<1>3. requests' \in [RequestPartitions -> Seq(Request \cup {Garbage})]
  BY <1>1, <1>2
<1>4. ASSUME NEW q \in RequestPartitions
      PROVE  /\ Len(requests'[q]) \in Nat /\ Len(requests[q]) <= Len(requests'[q])
             /\ \A o \in 1..Len(requests[q]) : requests'[q][o] = requests[q][o]
             /\ \A o \in 1..Len(requests'[q]) :
                    \/ o \in 1..Len(requests[q])
                    \/ q = p /\ requests'[q][o] = m
  <2>1. CASE q = p
    <3> DEFINE log == requests[q]
    <3>1. log \in Seq(Request \cup {Garbage}) /\ requests'[q] = Append(log, m)
      BY <1>1, <1>2, <2>1
    <3> HIDE DEF log
    <3>2. /\ Len(Append(log, m)) = Len(log) + 1 /\ Len(log) \in Nat
          /\ \A o \in 1..Len(log) : Append(log, m)[o] = log[o]
          /\ Append(log, m)[Len(log) + 1] = m
      BY <3>1
    <3> QED BY <2>1, <3>1, <3>2 DEF log
  <2>2. CASE q # p
    BY <1>1, <1>2, <2>2
  <2> QED BY <2>1, <2>2
<1> QED BY <1>3, <1>4 DEF Arrivals

LEMMA EnvironmentPublishes ==
    ASSUME Typed,
           \/ \E m \in Request : PublishRequest(m)
           \/ \E p \in RequestPartitions : PublishGarbage(p)
    PROVE  Arrivals /\ GroupStays /\ UNCHANGED faultVars
<1>1. CASE \E m \in Request : PublishRequest(m)
  <2>1. PICK m \in Request : PublishRequest(m)
    BY <1>1
  <2>2. PartitionOf(m) \in RequestPartitions
    BY WorkerAssumption DEF Request, PartitionOf
  <2>3. /\ Group!Publish(PartitionOf(m), m)
        /\ GroupStays /\ UNCHANGED faultVars
    BY <2>1 DEF PublishRequest, PartitionOf, GroupStays
  <2> QED BY <2>2, <2>3, PublishArrives
<1>2. CASE \E p \in RequestPartitions : PublishGarbage(p)
  <2>1. PICK p \in RequestPartitions : PublishGarbage(p)
    BY <1>2
  <2> QED BY <2>1, PublishArrives DEF PublishGarbage, GroupStays
<1> QED BY <1>1, <1>2

LEMMA TypedArrivals ==
    ASSUME Typed, Arrivals, GroupStays,
           failures' \in Nat, stops' \in Nat, evictions' \in Nat
    PROVE  Typed'
<1>1. TypeOK'
  BY DEF Arrivals, GroupStays, Typed, TypeOK, workerVars
<1>2. ASSUME NEW w \in Workers, Busy(w)
      PROVE  Req(w)' = Req(w) /\ wwork[w].off < Len(requests'[wwork[w].part])
  <2>1. wwork[w] \in Work /\ wwork[w].off < Len(requests[wwork[w].part])
    BY <1>2 DEF Typed, HandlerHasWork
  <2>2. wwork[w].part \in RequestPartitions /\ wwork[w].off \in Nat
        /\ Len(requests[wwork[w].part]) \in Nat
    BY <2>1 DEF Work, Typed, TypeOK
  <2>3. wwork[w].off + 1 \in 1..Len(requests[wwork[w].part])
    BY <2>1, <2>2
  <2>4. /\ wwork' = wwork /\ Len(requests'[wwork[w].part]) \in Nat
        /\ Len(requests[wwork[w].part]) <= Len(requests'[wwork[w].part])
        /\ requests'[wwork[w].part][wwork[w].off + 1] = requests[wwork[w].part][wwork[w].off + 1]
    BY <2>2, <2>3 DEF Arrivals, GroupStays, workerVars
  <2>5. Req(w)' = Req(w)
    BY <2>4 DEF Req
  <2> QED BY <2>1, <2>2, <2>4, <2>5
<1>3. HandlerHasWork'
  BY <1>2 DEF Typed, HandlerHasWork, Busy, GroupStays, workerVars
<1>4. KeyedRequests'
  BY DEF Arrivals, Typed, KeyedRequests, PartitionOf
<1> QED BY <1>1, <1>2, <1>3, <1>4 DEF Typed

LEMMA TypedNext == ASSUME Typed, [Next]_vars PROVE Typed'
<1>1. CASE UNCHANGED vars
  BY <1>1 DEF Typed, TypeOK, HandlerHasWork, KeyedRequests, Busy, Req,
              vars, requestVars, workerVars, faultVars
<1>2. CASE \E w \in Workers : Handle(w)
  BY <1>2, TypedDeliver, TypedCrawl, TypedProduce, TypedProduceRejects,
     TypedCommitOffset, TypedOffsetRejects DEF Handle
<1>3. CASE \E w \in Workers : Shutdown(w) \/ Kill(w) \/ Restart(w)
  BY <1>3, TypedStopWorker, TypedRestart DEF Shutdown, Kill
<1>4. CASE \E p \in RequestPartitions : Rebalance(p)
  BY <1>4, TypedRebalance
<1>5. CASE \/ \E m \in Request : PublishRequest(m)
           \/ \E p \in RequestPartitions : PublishGarbage(p)
  <2>1. failures' \in Nat /\ stops' \in Nat /\ evictions' \in Nat
    BY <1>5, EnvironmentPublishes DEF faultVars, Typed, TypeOK
  <2> QED BY <1>5, <2>1, EnvironmentPublishes, TypedArrivals
<1> QED BY <1>1, <1>2, <1>3, <1>4, <1>5 DEF Next, WorkerNext

(***************************************************************************)
(* Every variable keeps its type.                                          *)
(***************************************************************************)
THEOREM TypeCorrect == Spec => []TypeOK
<1>1. Typed => TypeOK
  BY DEF Typed
<1> QED BY <1>1, TypedInit, TypedNext, PTL DEF Spec
-----------------------------------------------------------------------------
(***************************************************************************)
(* Second layer: who owns what.                                            *)
(***************************************************************************)
LEMMA OwnerInit == Init => OwnsItsWork /\ InStep
BY WorkerAssumption DEF Init, OwnsItsWork, InStep, NothingRejected, Busy

(***************************************************************************)
(* The handler of w goes on with the message it has.                       *)
(***************************************************************************)
LEMMA OwnerStays ==
    ASSUME Typed, OwnsItsWork, InStep, NEW w \in Workers, NEW loc, Busy(w), Goto(w, loc),
           UNCHANGED <<requests, reqCommitted, reqOwner, reqPosition, wwork, evictions>>,
           failures' \in Nat, failures' >= failures
    PROVE  OwnsItsWork' /\ InStep'
<1>1. \A v \in Workers : Busy(v)' => Busy(v)
  BY DEF Goto, Busy, Typed, TypeOK
<1>2. NothingRejected' => NothingRejected
  BY DEF NothingRejected, Typed, TypeOK
<1> QED BY <1>1, <1>2 DEF OwnsItsWork, InStep

(***************************************************************************)
(* The handler of w ends, its position where the group has committed.      *)
(***************************************************************************)
LEMMA OwnerEnds ==
    ASSUME Typed, OwnsItsWork, InStep, NEW w \in Workers, NEW loc \in {"idle", "down"},
           EndHandler(w, loc)
    PROVE  /\ \A v \in Workers : Busy(v)' => v # w /\ Busy(v) /\ wwork'[v] = wwork[v]
           /\ UNCHANGED <<reqOwner, evictions>> => OwnsItsWork'
<1>1. \A v \in Workers : Busy(v)' => v # w /\ Busy(v) /\ wwork'[v] = wwork[v]
  BY DEF EndHandler, Goto, Busy, Typed, TypeOK
<1> QED BY <1>1 DEF OwnsItsWork

LEMMA OwnerDeliver ==
    ASSUME Typed, OwnsItsWork, InStep, NEW w \in Workers, NEW p \in RequestPartitions,
           Deliver(w, p)
    PROVE  OwnsItsWork' /\ InStep'
<1> DEFINE k == [part |-> p, off |-> reqPosition[p]]
<1>1. /\ wwork' = [wwork EXCEPT ![w] = k]
      /\ UNCHANGED <<requests, reqCommitted, reqOwner, reqPosition, failures, evictions>>
  BY DEF Deliver, requestVars, faultVars
<1>2. reqOwner[p] = w
  BY DEF Deliver, Group!Ready
<1>3. wwork'[w] = k /\ \A v \in Workers \ {w} : wwork'[v] = wwork[v]
  BY <1>1 DEF Typed, TypeOK
<1>4. \A v \in Workers \ {w} : Busy(v)' => Busy(v)
  BY DEF Deliver, Goto, Busy, Typed, TypeOK
<1>5. OwnsItsWork'
  BY <1>1, <1>2, <1>3, <1>4 DEF OwnsItsWork
<1>6. InStep'
  BY <1>1, <1>2, <1>3, <1>4 DEF InStep, NothingRejected
<1> QED BY <1>5, <1>6

LEMMA OwnerCommit ==
    ASSUME Typed, OwnsItsWork, InStep, NEW w \in Workers, CommitOffset(w)
    PROVE  OwnsItsWork' /\ InStep'
<1> DEFINE p == wwork[w].part
           o == wwork[w].off
<1>1. /\ EndHandler(w, "idle") /\ Busy(w) /\ reqOwner[p] = w
      /\ UNCHANGED <<requests, reqOwner, failures, evictions>>
  BY DEF CommitOffset, CommitsOffset, Return, Group!CommitAccepted, faultVars, Busy
<1>2. /\ p \in RequestPartitions /\ o \in Nat /\ o + 1 <= Len(requests[p])
  BY <1>1 DEF Typed, TypeOK, HandlerHasWork, Work
<1>3. /\ reqCommitted' = [reqCommitted EXCEPT ![p] = o + 1]
      /\ reqPosition' = [reqPosition EXCEPT ![p] = o + 1]
  BY <1>1 DEF CommitOffset, Return, Group!CommitAccepted, Group!Resolve
<1>4. \A v \in Workers : Busy(v)' => v # w /\ Busy(v) /\ wwork'[v] = wwork[v]
  BY <1>1, OwnerEnds
<1>5. /\ reqCommitted'[p] = o + 1 /\ reqPosition'[p] = o + 1
      /\ \A q \in RequestPartitions \ {p} :
             reqCommitted'[q] = reqCommitted[q] /\ reqPosition'[q] = reqPosition[q]
  BY <1>2, <1>3 DEF Typed, TypeOK
<1>6. InStep'
  <2> SUFFICES ASSUME NothingRejected', NEW q \in RequestPartitions
               PROVE  /\ reqCommitted'[q] \in Nat /\ reqCommitted'[q] <= Len(requests'[q])
                      /\ reqOwner'[q] # Nobody => reqPosition'[q] = reqCommitted'[q]
                      /\ \A v \in Workers :
                             Busy(v)' /\ wwork'[v].part = q /\ reqOwner'[q] = v
                                 => wwork'[v].off = reqPosition'[q]
    BY DEF InStep
  <2>1. NothingRejected
    BY <1>1 DEF NothingRejected
  <2>2. CASE q = p
    <3> HIDE DEF p, o
    <3> QED BY <1>1, <1>2, <1>4, <1>5, <2>2
  <2>3. CASE q # p
    <3> HIDE DEF p, o
    <3> QED BY <1>1, <1>4, <1>5, <2>1, <2>3 DEF InStep
  <2> QED BY <2>2, <2>3
<1>7. OwnsItsWork'
  BY <1>1, OwnerEnds
<1> QED BY <1>6, <1>7

LEMMA OwnerRejects ==
    ASSUME Typed, OwnsItsWork, InStep, NEW w \in Workers, ProduceRejects(w) \/ OffsetRejects(w)
    PROVE  OwnsItsWork' /\ InStep'
<1>1. /\ EndHandler(w, "idle") /\ Busy(w)
      /\ UNCHANGED <<requests, reqOwner, evictions>>
  BY DEF ProduceRejects, OffsetRejects, CommitsOffset, Return, Throw, Busy
<1>2. OwnsItsWork'
  BY <1>1, OwnerEnds
<1>3. CASE RemoteFailure
  BY <1>2, <1>3 DEF RemoteFailure, InStep, NothingRejected, Typed, TypeOK
<1>4. CASE /\ OffsetRejects(w) /\ reqOwner[wwork[w].part] # w
           /\ UNCHANGED <<reqCommitted, failures>>
  <2>1. reqPosition' = reqPosition
    BY <1>4 DEF OffsetRejects, Return, Throw, Group!Resolve
  <2>2. \A v \in Workers : Busy(v)' => Busy(v) /\ wwork'[v] = wwork[v]
    BY <1>1, OwnerEnds
  <2> QED BY <1>1, <1>2, <1>4, <2>1, <2>2 DEF InStep, NothingRejected
<1> QED BY <1>2, <1>3, <1>4 DEF ProduceRejects, OffsetRejects, Group!CommitRefused

LEMMA OwnerStopWorker ==
    ASSUME Typed, OwnsItsWork, InStep, NEW w \in Workers, StopWorker(w)
    PROVE  OwnsItsWork' /\ InStep'
<1>1. /\ EndHandler(w, "down")
      /\ UNCHANGED <<requests, reqCommitted, reqPosition, failures, evictions>>
  BY DEF StopWorker
<1>2. \A v \in Workers : Busy(v)' => v # w /\ Busy(v) /\ wwork'[v] = wwork[v]
  BY <1>1, OwnerEnds
<1>3. \A q \in RequestPartitions :
          reqOwner'[q] = IF reqOwner[q] = w THEN Nobody ELSE reqOwner[q]
  BY DEF StopWorker, Group!Leave
<1>4. \A v \in Workers : Busy(v) => wwork[v].part \in RequestPartitions
  BY DEF Typed, HandlerHasWork, Work
<1>5. Nobody \notin Workers
  BY WorkerAssumption
<1>6. OwnsItsWork'
  BY <1>1, <1>2, <1>3, <1>4 DEF OwnsItsWork
<1>7. InStep'
  BY <1>1, <1>2, <1>3, <1>5 DEF InStep, NothingRejected
<1> QED BY <1>6, <1>7

LEMMA OwnerRestart ==
    ASSUME Typed, OwnsItsWork, InStep, NEW w \in Workers, Restart(w)
    PROVE  OwnsItsWork' /\ InStep'
<1>1. \A v \in Workers : Busy(v)' => Busy(v)
  BY DEF Restart, Goto, Busy, Typed, TypeOK
<1> QED BY <1>1 DEF OwnsItsWork, InStep, NothingRejected, Restart, requestVars, faultVars

LEMMA OwnerRebalance ==
    ASSUME Typed, OwnsItsWork, InStep, NEW p \in RequestPartitions, Rebalance(p)
    PROVE  OwnsItsWork' /\ InStep'
<1>1. /\ UNCHANGED <<requests, reqCommitted, wwork, failures>>
      /\ \A v \in Workers : Busy(v)' <=> Busy(v)
  BY DEF Rebalance, EvictRequests, AssignRequests, workerVars, faultVars, Busy
<1>2. Nobody \notin Workers
  BY WorkerAssumption
<1>3. CASE EvictRequests(p)
  <2>1. /\ reqOwner'[p] = Nobody
        /\ \A q \in RequestPartitions \ {p} : reqOwner'[q] = reqOwner[q]
        /\ reqPosition' = reqPosition /\ evictions' # 0
    BY <1>3 DEF EvictRequests, Group!Evict, Typed, TypeOK
  <2> QED BY <1>1, <1>2, <2>1 DEF OwnsItsWork, InStep, NothingRejected
<1>4. CASE \E w \in Workers : AssignRequests(p, w)
  <2>1. PICK w \in Workers : AssignRequests(p, w)
    BY <1>4
  <2>2. /\ reqOwner[p] = Nobody /\ wpc[w] = "idle" /\ evictions' = evictions
        /\ reqOwner' = [reqOwner EXCEPT ![p] = w]
        /\ reqPosition' = [reqPosition EXCEPT ![p] = Group!StartOffset(p)]
    BY <2>1 DEF AssignRequests, Group!Assign, faultVars
  <2>3. /\ reqOwner'[p] = w /\ reqPosition'[p] = Group!StartOffset(p)
        /\ \A q \in RequestPartitions \ {p} :
               reqOwner'[q] = reqOwner[q] /\ reqPosition'[q] = reqPosition[q]
    BY <2>2 DEF Typed, TypeOK
  <2>4. ~Busy(w)
    BY <2>2 DEF Busy
  <2>5. \A v \in Workers : Busy(v) => wwork[v].part \in RequestPartitions
    BY DEF Typed, HandlerHasWork, Work
  <2>6. OwnsItsWork'
    <3> SUFFICES ASSUME evictions' = 0, NEW v \in Workers, Busy(v)'
                 PROVE  reqOwner'[wwork'[v].part] = v
      BY DEF OwnsItsWork
    <3>1. reqOwner[wwork[v].part] = v /\ wwork[v].part \in RequestPartitions
      BY <1>1, <2>2, <2>5 DEF OwnsItsWork
    <3>2. wwork[v].part # p
      BY <1>2, <2>2, <3>1
    <3> QED BY <1>1, <2>3, <3>1, <3>2
  <2>7. NothingRejected => Group!StartOffset(p) = reqCommitted[p]
    BY WorkerAssumption DEF InStep, Group!StartOffset
  <2>8. InStep'
    <3> SUFFICES ASSUME NothingRejected', NEW q \in RequestPartitions
                 PROVE  /\ reqCommitted'[q] \in Nat
                        /\ reqCommitted'[q] <= Len(requests'[q])
                        /\ reqOwner'[q] # Nobody => reqPosition'[q] = reqCommitted'[q]
                        /\ \A v \in Workers :
                               Busy(v)' /\ wwork'[v].part = q /\ reqOwner'[q] = v
                                   => wwork'[v].off = reqPosition'[q]
      BY DEF InStep
    <3>1. NothingRejected
      BY <1>1 DEF NothingRejected
    <3>2. CASE q = p
      BY <1>1, <2>3, <2>4, <2>7, <3>1, <3>2 DEF InStep
    <3>3. CASE q # p
      BY <1>1, <2>3, <3>1, <3>3 DEF InStep
    <3> QED BY <3>2, <3>3
  <2> QED BY <2>6, <2>8
<1> QED BY <1>3, <1>4 DEF Rebalance

LEMMA OwnerArrivals ==
    ASSUME Typed, OwnsItsWork, InStep, Arrivals, GroupStays, UNCHANGED faultVars
    PROVE  OwnsItsWork' /\ InStep'
<1>1. /\ UNCHANGED <<wwork, failures, evictions>>
      /\ \A v \in Workers : Busy(v)' <=> Busy(v)
  BY DEF GroupStays, workerVars, faultVars, Busy
<1>2. \A q \in RequestPartitions : /\ Len(requests[q]) \in Nat /\ Len(requests'[q]) \in Nat
                                   /\ Len(requests[q]) <= Len(requests'[q])
  BY DEF Arrivals, Typed, TypeOK
<1> QED BY <1>1, <1>2 DEF GroupStays, OwnsItsWork, InStep, NothingRejected

LEMMA OwnerNext ==
    ASSUME Typed, OwnsItsWork, InStep, [Next]_vars
    PROVE  OwnsItsWork' /\ InStep'
<1>1. CASE UNCHANGED vars
  BY <1>1 DEF OwnsItsWork, InStep, NothingRejected, Busy,
              vars, requestVars, workerVars, faultVars
<1>2. CASE \E w \in Workers : Handle(w)
  <2>1. PICK w \in Workers : Handle(w)
    BY <1>2
  <2>2. CASE Crawl(w) \/ Produce(w)
    <3>1. Busy(w) /\ \E loc \in {"produce", "commit"} : Goto(w, loc)
      BY <2>2 DEF Crawl, Produce, Busy
    <3>2. UNCHANGED <<requests, reqCommitted, reqOwner, reqPosition, wwork, evictions>>
      BY <2>2 DEF Crawl, Produce, requestVars, faultVars
    <3>3. failures' \in Nat /\ failures' >= failures
      BY <2>2 DEF Crawl, Produce, RemoteFailure, faultVars, Typed, TypeOK
    <3> QED BY <3>1, <3>2, <3>3, OwnerStays
  <2> QED BY <2>1, <2>2, OwnerDeliver, OwnerRejects, OwnerCommit DEF Handle
<1>3. CASE \E w \in Workers : Shutdown(w) \/ Kill(w) \/ Restart(w)
  BY <1>3, OwnerStopWorker, OwnerRestart DEF Shutdown, Kill
<1>4. CASE \E p \in RequestPartitions : Rebalance(p)
  BY <1>4, OwnerRebalance
<1>5. CASE \/ \E m \in Request : PublishRequest(m)
           \/ \E p \in RequestPartitions : PublishGarbage(p)
  BY <1>5, EnvironmentPublishes, OwnerArrivals
<1> QED BY <1>1, <1>2, <1>3, <1>4, <1>5 DEF Next, WorkerNext

(***************************************************************************)
(* Whatever the number of workers, partitions and requests and whoever is  *)
(* killed or restarted, two processes never visit one domain at the same   *)
(* time while no partition is taken from a busy handler.                   *)
(***************************************************************************)
THEOREM OneVisitor == Spec => []OneVisitorPerDomain
<1>1. ASSUME Typed, OwnsItsWork
      PROVE  OneVisitorPerDomain
  <2> SUFFICES ASSUME evictions = 0, NEW v \in Workers, NEW w \in Workers,
                      Crawling(v), Crawling(w),
                      DomainOf[Req(v).url] = DomainOf[Req(w).url]
               PROVE  v = w
    BY DEF OneVisitorPerDomain
  <2>1. Busy(v) /\ Busy(w) /\ wpc[v] # "garbage" /\ wpc[w] # "garbage"
    BY DEF Crawling, Busy
  <2>2. wwork[v].part = wwork[w].part
    BY <1>1, <2>1, ReqType DEF PartitionOf
  <2> QED BY <1>1, <2>1, <2>2 DEF OwnsItsWork
<1> QED BY <1>1, TypedInit, TypedNext, OwnerInit, OwnerNext, PTL DEF Spec
-----------------------------------------------------------------------------
(***************************************************************************)
(* Third layer: counting.                                                  *)
(***************************************************************************)
LEMMA DueInit == Init => EachDueAnswered
<1> SUFFICES ASSUME Init, NEW r \in Request
             PROVE  Cardinality(Due(r)) <= Cardinality(Answers(r))
  BY DEF EachDueAnswered
<1>1. PartitionOf(r) \in RequestPartitions /\ ResultPartition[r.url] \in ResultPartitions
  BY WorkerAssumption DEF Request, PartitionOf
<1>2. Due(r) = {} /\ Answers(r) = {}
  BY <1>1 DEF Init, Due, Answers
<1> QED BY <1>2, FS_EmptySet

LEMMA OffsetsFinite ==
    ASSUME NEW n \in Nat, NEW S \in SUBSET (1..n)
    PROVE  IsFiniteSet(S)
<1>1. IsFiniteSet(1..n)
  BY FS_Interval
<1> QED BY <1>1, FS_Subset

LEMMA OneMore ==
    ASSUME NEW S, NEW x, IsFiniteSet(S)
    PROVE  /\ IsFiniteSet(S \cup {x})
           /\ Cardinality(S) \in Nat /\ Cardinality(S \cup {x}) \in Nat
           /\ Cardinality(S \cup {x}) <= Cardinality(S) + 1
           /\ x \notin S => Cardinality(S \cup {x}) = Cardinality(S) + 1
<1>1. Cardinality(S) \in Nat
  BY FS_CardinalityType
<1> QED BY <1>1, FS_AddElement

LEMMA CountsFinite ==
    ASSUME Typed, NEW r \in Request
    PROVE  /\ PartitionOf(r) \in RequestPartitions
           /\ ResultPartition[r.url] \in ResultPartitions
           /\ Len(requests[PartitionOf(r)]) \in Nat
           /\ Len(results[ResultPartition[r.url]]) \in Nat
           /\ IsFiniteSet(Due(r)) /\ IsFiniteSet(Answers(r))
<1>1. PartitionOf(r) \in RequestPartitions /\ ResultPartition[r.url] \in ResultPartitions
  BY WorkerAssumption DEF Request, PartitionOf
<1>2. /\ Len(requests[PartitionOf(r)]) \in Nat
      /\ Len(results[ResultPartition[r.url]]) \in Nat
  BY <1>1 DEF Typed, TypeOK
<1>3. /\ Due(r) \subseteq 1..Len(requests[PartitionOf(r)])
      /\ Answers(r) \subseteq 1..Len(results[ResultPartition[r.url]])
  BY DEF Due, Answers
<1>4. IsFiniteSet(Due(r)) /\ IsFiniteSet(Answers(r))
  BY <1>2, <1>3, OffsetsFinite
<1> QED BY <1>1, <1>2, <1>4

(***************************************************************************)
(* What falls due without a new result was due before.                     *)
(***************************************************************************)
LEMMA NothingNewDue ==
    ASSUME Typed, Typed', EachDueAnswered, failures \in Nat,
           NothingRejected' => NothingRejected,
           NothingRejected' => \A r \in Request : /\ Due(r)' \subseteq Due(r)
                                                   /\ Answers(r) \subseteq Answers(r)'
    PROVE  EachDueAnswered'
<1> SUFFICES ASSUME NothingRejected', NEW r \in Request
             PROVE  Cardinality(Due(r)') <= Cardinality(Answers(r)')
  BY DEF EachDueAnswered
<1>1. IsFiniteSet(Due(r)) /\ IsFiniteSet(Answers(r))
  BY CountsFinite
<1>2. IsFiniteSet(Answers(r)')
  <2>1. Len(results'[ResultPartition[r.url]]) \in Nat
    BY CountsFinite DEF Typed, TypeOK
  <2>2. Answers(r)' \subseteq 1..Len(results'[ResultPartition[r.url]])
    BY DEF Answers
  <2> QED BY <2>1, <2>2, OffsetsFinite
<1>3. /\ Cardinality(Due(r)') <= Cardinality(Due(r))
      /\ Cardinality(Answers(r)) <= Cardinality(Answers(r)')
  BY <1>1, <1>2, FS_Subset
<1>4. Cardinality(Due(r)) <= Cardinality(Answers(r))
  BY DEF EachDueAnswered
<1>5. IsFiniteSet(Due(r)')
  BY <1>1, FS_Subset
<1>6. /\ Cardinality(Due(r)') \in Nat /\ Cardinality(Due(r)) \in Nat
      /\ Cardinality(Answers(r)) \in Nat /\ Cardinality(Answers(r)') \in Nat
  BY <1>1, <1>2, <1>5, FS_CardinalityType
<1> QED BY <1>3, <1>4, <1>6

LEMMA DueSteady ==
    ASSUME UNCHANGED <<requests, reqCommitted>>,
           \A v \in Workers : wpc'[v] = "commit" =>
               /\ wpc[v] = "commit" /\ wwork'[v] = wwork[v]
               /\ \A q \in RequestPartitions : reqOwner'[q] = v => reqOwner[q] = v
    PROVE  \A r \in Request : Due(r)' \subseteq Due(r)
<1> SUFFICES ASSUME NEW r \in Request, NEW o \in Due(r)'
             PROVE  o \in Due(r)
  OBVIOUS
<1>1. PartitionOf(r) \in RequestPartitions
  BY WorkerAssumption DEF Request, PartitionOf
<1>2. AboutToCommit(PartitionOf(r), o)' => AboutToCommit(PartitionOf(r), o)
  BY <1>1 DEF AboutToCommit, PartitionOf
<1> QED BY <1>1, <1>2 DEF Due, PartitionOf

(***************************************************************************)
(* A step that appends no result and commits nothing.                      *)
(***************************************************************************)
LEMMA SteadyStep ==
    ASSUME Typed, Typed', EachDueAnswered, NothingRejected' => NothingRejected,
           UNCHANGED <<requests, reqCommitted>>,
           NothingRejected' => results' = results,
           \A v \in Workers : wpc'[v] = "commit" =>
               /\ wpc[v] = "commit" /\ wwork'[v] = wwork[v]
               /\ \A q \in RequestPartitions : reqOwner'[q] = v => reqOwner[q] = v
    PROVE  EachDueAnswered'
<1>1. \A r \in Request : Due(r)' \subseteq Due(r)
  BY DueSteady
<1>2. NothingRejected' => \A r \in Request : Answers(r) \subseteq Answers(r)'
  BY DEF Answers
<1> QED BY <1>1, <1>2, NothingNewDue DEF Typed, TypeOK

LEMMA CountProduce ==
    ASSUME Typed, Typed', EachDueAnswered, NEW w \in Workers, Produce(w)
    PROVE  EachDueAnswered'
<1> SUFFICES ASSUME NothingRejected', NEW r \in Request
             PROVE  Cardinality(Due(r)') <= Cardinality(Answers(r)')
  BY DEF EachDueAnswered
<1>1. failures \in Nat
  BY DEF Typed, TypeOK
<1>2. NothingRejected /\ AppendResult(w, 1)
  BY <1>1 DEF Produce, RemoteFailure, NothingRejected
<1>3. /\ wpc[w] = "produce" /\ wpc' = [wpc EXCEPT ![w] = "commit"]
      /\ UNCHANGED <<requests, reqCommitted, reqOwner, wwork>>
  BY DEF Produce, Goto, requestVars
<1>4. /\ Req(w) \in Request /\ PartitionOf(Req(w)) = wwork[w].part /\ wwork[w] \in Work
      /\ wresult[w] \in {"ok", "error"}
  BY <1>3, ReqType DEF Busy, Typed, HandlerHasWork
<1> DEFINE rp == ResultPartition[Req(w).url]
           log == results[rp]
           one == [i \in 1..1 |-> Answer(w)]
<1>5. rp \in ResultPartitions /\ Answer(w) \in Event
  BY <1>4, WorkerAssumption DEF Request, Answer, Event
<1>6. log \in Seq(Event) /\ one \in Seq(Event) /\ Len(one) = 1 /\ one[1] = Answer(w)
  BY <1>5 DEF Typed, TypeOK
<1>7. results' = [results EXCEPT ![rp] = log \o one] /\ results \in [ResultPartitions -> Seq(Event)]
  BY <1>2 DEF AppendResult, Typed, TypeOK
<1>8. /\ results'[rp] = log \o one
      /\ \A q \in ResultPartitions \ {rp} : results'[q] = results[q]
  BY <1>5, <1>7
<1>9. /\ Len(log \o one) = Len(log) + 1 /\ Len(log) \in Nat
      /\ \A o \in 1..Len(log) : (log \o one)[o] = log[o]
      /\ (log \o one)[Len(log) + 1] = Answer(w)
  <2>1. Len(log) \in Nat
    BY <1>6
  <2>2. /\ Len(log \o one) = Len(log) + Len(one)
        /\ \A o \in 1..(Len(log) + Len(one)) :
               (log \o one)[o] = IF o <= Len(log) THEN log[o] ELSE one[o - Len(log)]
    <3> HIDE DEF log, one
    <3> QED BY <1>6, ConcatProperties, Zenon
  <2> HIDE DEF log, one
  <2> QED BY <1>6, <2>1, <2>2
<1>10. ResultPartition[r.url] \in ResultPartitions
  BY CountsFinite
<1>11. Answers(r) \subseteq Answers(r)'
  <2>1. CASE ResultPartition[r.url] = rp
    <3> SUFFICES ASSUME NEW o \in Answers(r)
                 PROVE  o \in Answers(r)'
      OBVIOUS
    <3>1. o \in 1..Len(log) /\ log[o].job = r.job /\ log[o].url = r.url
      BY <2>1 DEF Answers
    <3>2. o \in 1..Len(results'[rp]) /\ results'[rp][o] = log[o]
      <4> HIDE DEF log, one
      <4> QED BY <1>8, <1>9, <3>1
    <3> QED BY <2>1, <3>1, <3>2 DEF Answers
  <2>2. CASE ResultPartition[r.url] # rp
    BY <1>8, <1>10, <2>2 DEF Answers
  <2> QED BY <2>1, <2>2
<1>12. r = Req(w) => Len(log) + 1 \in Answers(r)' /\ Len(log) + 1 \notin Answers(r)
  <2> SUFFICES ASSUME r = Req(w)
               PROVE  Len(log) + 1 \in Answers(r)' /\ Len(log) + 1 \notin Answers(r)
    OBVIOUS
  <2>1. Answer(w).job = r.job /\ Answer(w).url = r.url
    BY DEF Answer
  <2>2. Len(log) + 1 \in 1..Len(results'[rp]) /\ Len(log) + 1 \notin 1..Len(log)
    BY <1>8, <1>9
  <2>3. results'[rp][Len(log) + 1] = Answer(w)
    BY <1>8, <1>9
  <2> QED BY <2>1, <2>2, <2>3 DEF Answers
<1>13. Due(r)' \subseteq Due(r) \cup (IF r = Req(w) THEN {wwork[w].off + 1} ELSE {})
  <2> SUFFICES ASSUME NEW o \in Due(r)', o \notin Due(r)
               PROVE  r = Req(w) /\ o = wwork[w].off + 1
    OBVIOUS
  <2>1. /\ requests[PartitionOf(r)][o] = r
        /\ o \in 1..Len(requests[PartitionOf(r)])
        /\ o <= reqCommitted[PartitionOf(r)] \/ AboutToCommit(PartitionOf(r), o)'
    BY <1>3 DEF Due, PartitionOf
  <2>2. AboutToCommit(PartitionOf(r), o)' /\ ~AboutToCommit(PartitionOf(r), o)
    BY <2>1 DEF Due
  <2>3. PICK v \in Workers : /\ wpc'[v] = "commit" /\ reqOwner[PartitionOf(r)] = v
                             /\ wwork[v].part = PartitionOf(r) /\ o = wwork[v].off + 1
    BY <1>3, <2>2 DEF AboutToCommit, PartitionOf
  <2>4. v = w
    BY <1>3, <2>2, <2>3 DEF AboutToCommit, Typed, TypeOK
  <2> QED BY <2>1, <2>3, <2>4 DEF Req
<1>14. /\ IsFiniteSet(Due(r)) /\ IsFiniteSet(Answers(r))
       /\ Cardinality(Due(r)) <= Cardinality(Answers(r))
  BY <1>2, CountsFinite DEF EachDueAnswered
<1>15. IsFiniteSet(Answers(r)')
  <2>1. Len(results'[ResultPartition[r.url]]) \in Nat
    BY <1>10 DEF Typed, TypeOK
  <2>2. Answers(r)' \subseteq 1..Len(results'[ResultPartition[r.url]])
    BY DEF Answers
  <2> QED BY <2>1, <2>2, OffsetsFinite
<1>16. CASE r # Req(w)
  <2>1. Due(r)' \subseteq Due(r)
    BY <1>13, <1>16
  <2>2. /\ Cardinality(Due(r)') <= Cardinality(Due(r)) /\ IsFiniteSet(Due(r)')
        /\ Cardinality(Answers(r)) <= Cardinality(Answers(r)')
    BY <1>11, <1>14, <1>15, <2>1, FS_Subset
  <2>3. /\ Cardinality(Due(r)') \in Nat /\ Cardinality(Due(r)) \in Nat
        /\ Cardinality(Answers(r)) \in Nat /\ Cardinality(Answers(r)') \in Nat
    BY <1>14, <1>15, <2>2, FS_CardinalityType
  <2> QED BY <1>14, <2>2, <2>3
<1>17. CASE r = Req(w)
  <2> DEFINE D == Due(r) \cup {wwork[w].off + 1}
             A == Answers(r) \cup {Len(log) + 1}
  <2>1. Due(r)' \subseteq D /\ A \subseteq Answers(r)'
    BY <1>11, <1>12, <1>13, <1>17
  <2>2. /\ IsFiniteSet(D) /\ Cardinality(D) <= Cardinality(Due(r)) + 1
        /\ Cardinality(Due(r)) \in Nat /\ Cardinality(D) \in Nat
    BY <1>14, OneMore
  <2>3. /\ IsFiniteSet(A) /\ Cardinality(A) = Cardinality(Answers(r)) + 1
        /\ Cardinality(Answers(r)) \in Nat
    BY <1>12, <1>14, <1>17, OneMore
  <2> HIDE DEF D, A
  <2>4. /\ Cardinality(Due(r)') <= Cardinality(D) /\ IsFiniteSet(Due(r)')
        /\ Cardinality(A) <= Cardinality(Answers(r)')
    BY <1>15, <2>1, <2>2, FS_Subset
  <2>5. Cardinality(Due(r)') \in Nat /\ Cardinality(Answers(r)') \in Nat
    BY <1>15, <2>4, FS_CardinalityType
  <2> QED BY <1>14, <2>2, <2>3, <2>4, <2>5
<1> QED BY <1>16, <1>17

LEMMA CountCommit ==
    ASSUME Typed, Typed', InStep, EachDueAnswered, NEW w \in Workers, CommitOffset(w)
    PROVE  EachDueAnswered'
<1> DEFINE p == wwork[w].part
           off == wwork[w].off
<1>1. /\ Busy(w) /\ wpc[w] \in {"commit", "garbage"} /\ reqOwner[p] = w
      /\ UNCHANGED <<requests, reqOwner, results, failures>> /\ EndHandler(w, "idle")
      /\ reqCommitted' = [reqCommitted EXCEPT ![p] = off + 1]
  BY DEF CommitOffset, CommitsOffset, Return, Group!CommitAccepted, faultVars, Busy
<1>2. p \in RequestPartitions /\ off \in Nat
  BY <1>1 DEF Typed, HandlerHasWork, Work
<1>3. \A v \in Workers : wpc'[v] = "commit" =>
          v # w /\ wpc[v] = "commit" /\ wwork'[v] = wwork[v]
  BY <1>1 DEF EndHandler, Goto, Typed, TypeOK
<1>4. /\ reqCommitted'[p] = off + 1
      /\ \A q \in RequestPartitions \ {p} : reqCommitted'[q] = reqCommitted[q]
  BY <1>1, <1>2 DEF Typed, TypeOK
<1>5. NothingRejected' => NothingRejected
  BY <1>1 DEF NothingRejected
<1>6. NothingRejected => off = reqCommitted[p]
  BY <1>1, <1>2, WorkerAssumption DEF InStep
<1>7. ASSUME NothingRejected', NEW r \in Request, NEW o \in Due(r)'
      PROVE  o \in Due(r)
  <2>1. PartitionOf(r) \in RequestPartitions
    BY CountsFinite
  <2>2. /\ o \in 1..Len(requests[PartitionOf(r)]) /\ requests[PartitionOf(r)][o] = r
        /\ o <= reqCommitted'[PartitionOf(r)] \/ AboutToCommit(PartitionOf(r), o)'
    BY <1>1, <1>7 DEF Due, PartitionOf
  <2>3. AboutToCommit(PartitionOf(r), o)' => AboutToCommit(PartitionOf(r), o)
    BY <1>1, <1>3 DEF AboutToCommit, PartitionOf
  <2>4. CASE PartitionOf(r) = p /\ o = off + 1
    <3>1. requests[p][off + 1] = r /\ Req(w) = r
      BY <2>2, <2>4 DEF Req
    <3>2. r # Garbage
      BY WorkerAssumption
    <3>3. wpc[w] = "commit"
      BY <1>1, <3>1, <3>2 DEF Typed, HandlerHasWork
    <3>4. AboutToCommit(p, off + 1)
      BY <1>1, <3>3 DEF AboutToCommit
    <3> HIDE DEF p, off
    <3> QED BY <2>2, <2>4, <3>4 DEF Due
  <2>5. CASE PartitionOf(r) = p /\ o # off + 1
    <3>1. o <= off + 1 => o <= off
      BY <1>2, <2>2, <2>5
    <3> HIDE DEF p, off
    <3> QED BY <1>4, <1>5, <1>6, <1>7, <2>2, <2>3, <2>5, <3>1 DEF Due
  <2>6. CASE PartitionOf(r) # p
    <3> HIDE DEF p, off
    <3> QED BY <1>4, <2>1, <2>2, <2>3, <2>6 DEF Due
  <2> QED BY <2>4, <2>5, <2>6
<1>8. \A r \in Request : Answers(r) \subseteq Answers(r)'
  BY <1>1 DEF Answers
<1> QED BY <1>5, <1>7, <1>8, NothingNewDue DEF Typed, TypeOK

LEMMA CountArrivals ==
    ASSUME Typed, Typed', InStep, EachDueAnswered, Arrivals, GroupStays,
           UNCHANGED faultVars
    PROVE  EachDueAnswered'
<1>1. NothingRejected' => NothingRejected
  BY DEF NothingRejected, faultVars
<1>2. ASSUME NothingRejected', NEW r \in Request, NEW o \in Due(r)'
      PROVE  o \in Due(r)
  <2> DEFINE q == PartitionOf(r)
  <2>1. q \in RequestPartitions /\ Len(requests[q]) \in Nat
    BY CountsFinite
  <2>2. /\ o \in 1..Len(requests'[q]) /\ requests'[q][o] = r
        /\ o <= reqCommitted[q] \/ AboutToCommit(q, o)'
    BY <1>2 DEF Due, PartitionOf, GroupStays
  <2>3. AboutToCommit(q, o)' => AboutToCommit(q, o)
    BY DEF AboutToCommit, PartitionOf, GroupStays, workerVars
  <2>4. o \in Nat \ {0}
    BY <2>1, <2>2 DEF Arrivals
  <2>5. o <= Len(requests[q])
    <3>1. CASE o <= reqCommitted[q]
      BY <1>1, <1>2, <2>1, <2>4, <3>1 DEF InStep
    <3>2. CASE AboutToCommit(q, o)
      <4>1. PICK w \in Workers : wpc[w] = "commit" /\ wwork[w].part = q /\ o = wwork[w].off + 1
        BY <3>2 DEF AboutToCommit
      <4>2. wwork[w] \in Work /\ wwork[w].off < Len(requests[q])
        BY <4>1 DEF Typed, HandlerHasWork, Busy
      <4>3. wwork[w].off \in Nat
        BY <4>2 DEF Work
      <4> HIDE DEF q
      <4> QED BY <2>1, <4>1, <4>2, <4>3
    <3> QED BY <2>2, <2>3, <3>1, <3>2
  <2>6. o \in 1..Len(requests[q]) /\ requests[q][o] = r
    BY <2>1, <2>2, <2>4, <2>5 DEF Arrivals
  <2> QED BY <2>2, <2>3, <2>6 DEF Due
<1>3. \A r \in Request : Answers(r) \subseteq Answers(r)'
  BY DEF GroupStays, Answers
<1> QED BY <1>1, <1>2, <1>3, NothingNewDue DEF Typed, TypeOK

LEMMA CountNext ==
    ASSUME Typed, Typed', InStep, EachDueAnswered, [Next]_vars
    PROVE  EachDueAnswered'
<1>0. failures \in Nat
  BY DEF Typed, TypeOK
<1>1. CASE UNCHANGED vars
  BY <1>1, SteadyStep DEF vars, requestVars, workerVars, faultVars, NothingRejected
<1>2. CASE \E w \in Workers : Handle(w)
  <2>1. PICK w \in Workers : Handle(w)
    BY <1>2
  <2>2. CASE (\E p \in RequestPartitions : Deliver(w, p)) \/ Crawl(w)
    <3>1. /\ UNCHANGED <<requests, reqCommitted, reqOwner, results, failures>>
          /\ \A v \in Workers : wpc'[v] = "commit" =>
                 wpc[v] = "commit" /\ wwork'[v] = wwork[v]
      BY <2>2 DEF Deliver, Crawl, Goto, requestVars, faultVars, Typed, TypeOK
    <3> QED BY <3>1, SteadyStep DEF NothingRejected
  <2>3. CASE ProduceRejects(w) \/ OffsetRejects(w)
    <3>1. UNCHANGED <<requests, reqOwner>> /\ EndHandler(w, "idle")
      BY <2>3 DEF ProduceRejects, OffsetRejects, Return, Throw
    <3>2. \A v \in Workers : wpc'[v] = "commit" =>
              wpc[v] = "commit" /\ wwork'[v] = wwork[v]
      BY <3>1 DEF EndHandler, Goto, Typed, TypeOK
    <3>3. NothingRejected' =>
              NothingRejected /\ UNCHANGED <<results, reqCommitted>>
      BY <1>0, <2>3 DEF ProduceRejects, OffsetRejects, RemoteFailure, NothingRejected
    <3>4. CASE NothingRejected'
      BY <3>1, <3>2, <3>3, <3>4, SteadyStep
    <3>5. CASE ~NothingRejected'
      BY <3>5 DEF EachDueAnswered
    <3> QED BY <3>4, <3>5
  <2> QED BY <2>1, <2>2, <2>3, CountProduce, CountCommit DEF Handle
<1>3. CASE \E w \in Workers : Shutdown(w) \/ Kill(w) \/ Restart(w)
  <2>1. PICK w \in Workers : StopWorker(w) \/ Restart(w)
    BY <1>3 DEF Shutdown, Kill
  <2>2. UNCHANGED <<requests, reqCommitted, results, failures>>
    BY <2>1 DEF StopWorker, Restart, requestVars, faultVars
  <2>3. \A v \in Workers : wpc'[v] = "commit" =>
            wpc[v] = "commit" /\ wwork'[v] = wwork[v]
    BY <2>1 DEF StopWorker, EndHandler, Restart, Goto, Typed, TypeOK
  <2>4. \A v \in Workers, q \in RequestPartitions : reqOwner'[q] = v => reqOwner[q] = v
    BY <2>1, WorkerAssumption DEF StopWorker, Restart, Group!Leave, requestVars
  <2> QED BY <2>2, <2>3, <2>4, SteadyStep DEF NothingRejected
<1>4. CASE \E p \in RequestPartitions : Rebalance(p)
  <2>1. PICK p \in RequestPartitions : Rebalance(p)
    BY <1>4
  <2>2. UNCHANGED <<requests, reqCommitted, results, workerVars, failures>>
    BY <2>1 DEF Rebalance, EvictRequests, AssignRequests, faultVars
  <2>3. ASSUME NEW v \in Workers, wpc[v] = "commit", NEW q \in RequestPartitions,
               reqOwner'[q] = v
        PROVE  reqOwner[q] = v
    <3>1. CASE EvictRequests(p)
      BY <2>3, <3>1, WorkerAssumption DEF EvictRequests, Group!Evict, Typed, TypeOK
    <3>2. CASE \E w \in Workers : AssignRequests(p, w)
      <4>1. PICK w \in Workers : wpc[w] = "idle" /\ reqOwner' = [reqOwner EXCEPT ![p] = w]
        BY <3>2 DEF AssignRequests, Group!Assign
      <4> QED BY <2>3, <4>1 DEF Typed, TypeOK
    <3> QED BY <2>1, <3>1, <3>2 DEF Rebalance
  <2>4. \A v \in Workers : wpc'[v] = "commit" =>
            /\ wpc[v] = "commit" /\ wwork'[v] = wwork[v]
            /\ \A q \in RequestPartitions : reqOwner'[q] = v => reqOwner[q] = v
    BY <2>2, <2>3 DEF workerVars
  <2> QED BY <2>2, <2>4, SteadyStep DEF NothingRejected
<1>5. CASE \/ \E m \in Request : PublishRequest(m)
           \/ \E p \in RequestPartitions : PublishGarbage(p)
  BY <1>5, EnvironmentPublishes, CountArrivals
<1> QED BY <1>1, <1>2, <1>3, <1>4, <1>5 DEF Next, WorkerNext

LEMMA WorkerInvariantAlways == Spec => []WorkerInvariant
<1>1. Init => WorkerInvariant
  BY TypedInit, OwnerInit, DueInit DEF WorkerInvariant
<1>2. WorkerInvariant /\ [Next]_vars => WorkerInvariant'
  BY TypedNext, OwnerNext, CountNext DEF WorkerInvariant
<1> QED BY <1>1, <1>2, PTL DEF Spec

(***************************************************************************)
(* While no remote call has rejected, every request below the committed    *)
(* offset has a result of its own in crawl_results, whichever workers were *)
(* killed, stopped or robbed of their partitions on the way.               *)
(***************************************************************************)
THEOREM AnsweredBeforeCommitted == Spec => []AtLeastOnceUnlessRejected
<1>1. ASSUME WorkerInvariant
      PROVE  AtLeastOnceUnlessRejected
  <2> SUFFICES ASSUME NothingRejected, NEW r \in Request
               PROVE  Cardinality({o \in 1..reqCommitted[PartitionOf(r)] :
                                      requests[PartitionOf(r)][o] = r}) <= Answered(r)
    BY DEF AtLeastOnceUnlessRejected, AskedBefore, NothingRejected, PartitionOf
  <2> DEFINE C == {o \in 1..reqCommitted[PartitionOf(r)] : requests[PartitionOf(r)][o] = r}
  <2>0. Typed /\ InStep /\ EachDueAnswered
    BY <1>1 DEF WorkerInvariant
  <2>1. /\ PartitionOf(r) \in RequestPartitions
        /\ ResultPartition[r.url] \in ResultPartitions
        /\ Len(requests[PartitionOf(r)]) \in Nat
        /\ IsFiniteSet(Due(r)) /\ IsFiniteSet(Answers(r))
    BY <2>0, CountsFinite
  <2>2. /\ reqCommitted[PartitionOf(r)] \in Nat
        /\ reqCommitted[PartitionOf(r)] <= Len(requests[PartitionOf(r)])
    BY <2>0, <2>1 DEF InStep
  <2>3. C \subseteq Due(r)
    BY <2>1, <2>2 DEF Due
  <2>4. Answered(r) = Cardinality(Answers(r))
    <3>1. DOMAIN results[ResultPartition[r.url]] = 1..Len(results[ResultPartition[r.url]])
      BY <2>0, <2>1 DEF Typed, TypeOK
    <3> QED BY <3>1 DEF Answered, Answers
  <2> HIDE DEF C
  <2>5. Cardinality(C) <= Cardinality(Due(r)) /\ IsFiniteSet(C)
    BY <2>1, <2>3, FS_Subset
  <2>6. Cardinality(Due(r)) <= Cardinality(Answers(r))
    BY <2>0 DEF EachDueAnswered
  <2>7. /\ Cardinality(C) \in Nat /\ Cardinality(Due(r)) \in Nat
        /\ Cardinality(Answers(r)) \in Nat
    BY <2>1, <2>5, FS_CardinalityType
  <2>8. Cardinality(C) <= Answered(r)
    BY <2>4, <2>5, <2>6, <2>7
  <2> QED BY <2>8 DEF C
<1> QED BY <1>1, WorkerInvariantAlways, PTL
-----------------------------------------------------------------------------
(***************************************************************************)
(* Fourth layer: results in excess.  All but n of the results P can each   *)
(* be laid to one of the requests A that asked for it.                     *)
(***************************************************************************)
Covered(P, A, n) ==
    \E S \in SUBSET P : \E h \in [P \ S -> A] :
        /\ IsFiniteSet(S) /\ Cardinality(S) <= n
        /\ \A a \in P \ S : h[a].req = a.req
        /\ \A a, b \in P \ S : h[a] = h[b] => a = b

LEMMA SmallSubset ==
    ASSUME NEW S, IsFiniteSet(S), NEW T, T \subseteq S
    PROVE  /\ IsFiniteSet(T) /\ Cardinality(T) <= Cardinality(S)
           /\ Cardinality(T) \in Nat /\ Cardinality(S) \in Nat
<1>1. IsFiniteSet(T) /\ Cardinality(T) <= Cardinality(S)
  BY FS_Subset
<1> QED BY <1>1, FS_CardinalityType

LEMMA SmallUnion ==
    ASSUME NEW S, NEW T, IsFiniteSet(S), IsFiniteSet(T)
    PROVE  /\ IsFiniteSet(S \cup T)
           /\ Cardinality(S \cup T) <= Cardinality(S) + Cardinality(T)
           /\ Cardinality(S \cup T) \in Nat /\ Cardinality(S) \in Nat /\ Cardinality(T) \in Nat
<1>1. IsFiniteSet(S \cap T)
  BY FS_Subset
<1>2. /\ Cardinality(S \cap T) \in Nat /\ Cardinality(S) \in Nat /\ Cardinality(T) \in Nat
  BY <1>1, FS_CardinalityType
<1>3. IsFiniteSet(S \cup T)
      /\ Cardinality(S \cup T) = Cardinality(S) + Cardinality(T) - Cardinality(S \cap T)
  BY FS_Union
<1>4. Cardinality(S \cup T) \in Nat
  BY <1>3, FS_CardinalityType
<1> QED BY <1>2, <1>3, <1>4

(***************************************************************************)
(* Results whose requests are gone from A are in excess, one for each.     *)
(***************************************************************************)
LEMMA CoveredByFewer ==
    ASSUME NEW P, NEW A, NEW B, NEW n \in Nat, Covered(P, A, n), IsFiniteSet(A \ B)
    PROVE  Covered(P, B, n + Cardinality(A \ B))
<1>1. PICK S \in SUBSET P : \E h \in [P \ S -> A] :
          /\ IsFiniteSet(S) /\ Cardinality(S) <= n
          /\ \A a \in P \ S : h[a].req = a.req
          /\ \A a, b \in P \ S : h[a] = h[b] => a = b
  BY DEF Covered
<1>2. PICK h \in [P \ S -> A] :
          /\ IsFiniteSet(S) /\ Cardinality(S) <= n
          /\ \A a \in P \ S : h[a].req = a.req
          /\ \A a, b \in P \ S : h[a] = h[b] => a = b
  BY <1>1
<1> DEFINE L == {a \in P \ S : h[a] \notin B}
           g == [a \in L |-> h[a]]
           T == S \cup L
           k == [a \in P \ T |-> h[a]]
<1>3. g \in Injection(L, A \ B)
  <2>1. g \in [L -> A \ B]
    OBVIOUS
  <2>2. \A a, b \in L : g[a] = g[b] => a = b
    BY <1>2
  <2> HIDE DEF g, L
  <2> QED BY <2>1, <2>2 DEF Injection, IsInjective
<1>4. IsFiniteSet(L) /\ Cardinality(L) <= Cardinality(A \ B)
  <2> HIDE DEF g, L
  <2> QED BY <1>3, FS_Injection
<1>5. IsFiniteSet(T) /\ Cardinality(T) <= n + Cardinality(A \ B)
  <2>1. Cardinality(A \ B) \in Nat
    BY FS_CardinalityType
  <2> HIDE DEF L
  <2>2. /\ IsFiniteSet(T) /\ Cardinality(T) <= Cardinality(S) + Cardinality(L)
        /\ Cardinality(T) \in Nat /\ Cardinality(S) \in Nat /\ Cardinality(L) \in Nat
    BY <1>2, <1>4, SmallUnion
  <2> QED BY <1>2, <1>4, <2>1, <2>2
<1>6. k \in [P \ T -> B]
  OBVIOUS
<1>7. /\ \A a \in P \ T : k[a].req = a.req
      /\ \A a, b \in P \ T : k[a] = k[b] => a = b
  BY <1>2
<1>8. T \in SUBSET P
  OBVIOUS
<1> HIDE DEF T, k
<1> QED BY <1>5, <1>6, <1>7, <1>8 DEF Covered

LEMMA CoveredByMore ==
    ASSUME NEW P, NEW A, NEW B, NEW n \in Nat, NEW m \in Nat, Covered(P, A, n),
           A \subseteq B, n <= m
    PROVE  Covered(P, B, m)
<1>1. PICK S \in SUBSET P : \E h \in [P \ S -> A] :
          /\ IsFiniteSet(S) /\ Cardinality(S) <= n
          /\ \A a \in P \ S : h[a].req = a.req
          /\ \A a, b \in P \ S : h[a] = h[b] => a = b
  BY DEF Covered
<1>2. IsFiniteSet(S) /\ Cardinality(S) \in Nat /\ Cardinality(S) <= n
  BY <1>1, FS_CardinalityType
<1>3. Cardinality(S) <= m
  BY <1>2
<1>4. PICK h \in [P \ S -> A] : /\ \A a \in P \ S : h[a].req = a.req
                                /\ \A a, b \in P \ S : h[a] = h[b] => a = b
  BY <1>1
<1>5. h \in [P \ S -> B]
  BY <1>4
<1> QED BY <1>2, <1>3, <1>4, <1>5 DEF Covered

(***************************************************************************)
(* A result more, and the request that asked for it.                       *)
(***************************************************************************)
LEMMA CoveredPair ==
    ASSUME NEW P, NEW A, NEW n \in Nat, Covered(P, A, n),
           NEW x, x \notin P, NEW y, y \notin A, x.req = y.req
    PROVE  Covered(P \cup {x}, A \cup {y}, n)
<1>1. PICK S \in SUBSET P : \E h \in [P \ S -> A] :
          /\ IsFiniteSet(S) /\ Cardinality(S) <= n
          /\ \A a \in P \ S : h[a].req = a.req
          /\ \A a, b \in P \ S : h[a] = h[b] => a = b
  BY DEF Covered
<1>2. PICK h \in [P \ S -> A] :
          /\ \A a \in P \ S : h[a].req = a.req
          /\ \A a, b \in P \ S : h[a] = h[b] => a = b
  BY <1>1
<1> DEFINE Q == P \cup {x}
           k == [a \in Q \ S |-> IF a = x THEN y ELSE h[a]]
<1>3. k \in [Q \ S -> A \cup {y}]
  OBVIOUS
<1>4. /\ \A a \in Q \ S : k[a].req = a.req
      /\ \A a, b \in Q \ S : k[a] = k[b] => a = b
  BY <1>2
<1>5. S \in SUBSET Q
  OBVIOUS
<1> HIDE DEF k
<1> QED BY <1>1, <1>3, <1>4, <1>5 DEF Covered

(***************************************************************************)
(* A result more that nobody asked for.                                    *)
(***************************************************************************)
LEMMA CoveredExtra ==
    ASSUME NEW P, NEW A, NEW n \in Nat, Covered(P, A, n), NEW x, x \notin P
    PROVE  Covered(P \cup {x}, A, n + 1)
<1>1. PICK S \in SUBSET P : \E h \in [P \ S -> A] :
          /\ IsFiniteSet(S) /\ Cardinality(S) <= n
          /\ \A a \in P \ S : h[a].req = a.req
          /\ \A a, b \in P \ S : h[a] = h[b] => a = b
  BY DEF Covered
<1>2. /\ IsFiniteSet(S \cup {x}) /\ Cardinality(S \cup {x}) <= n + 1
  <2>1. Cardinality(S) \in Nat /\ Cardinality(S) <= n
    BY <1>1, FS_CardinalityType
  <2>2. /\ IsFiniteSet(S \cup {x}) /\ Cardinality(S \cup {x}) <= Cardinality(S) + 1
        /\ Cardinality(S \cup {x}) \in Nat
    BY <1>1, OneMore
  <2> QED BY <2>1, <2>2
<1> DEFINE Q == P \cup {x}
           T == S \cup {x}
<1>3. T \in SUBSET Q /\ Q \ T = P \ S
  OBVIOUS
<1>4. IsFiniteSet(T) /\ Cardinality(T) <= n + 1
  BY <1>2
<1> HIDE DEF Q, T
<1>5. PICK h \in [P \ S -> A] :
          /\ \A a \in P \ S : h[a].req = a.req
          /\ \A a, b \in P \ S : h[a] = h[b] => a = b
  BY <1>1
<1>6. /\ h \in [Q \ T -> A]
      /\ \A a \in Q \ T : h[a].req = a.req
      /\ \A a, b \in Q \ T : h[a] = h[b] => a = b
  BY <1>3, <1>5
<1>7. Covered(Q, A, n + 1)
  BY <1>3, <1>4, <1>6 DEF Covered
<1> QED BY <1>7 DEF Q

For(X, r) == {a \in X : a.req = r}

Excess(R, ask, ans) == UNION {{r} \X ((ask[r] + 1)..ans[r]) : r \in R}

(***************************************************************************)
(* What covers all results but n leaves no more than n in excess of what   *)
(* was asked for, over all requests R together.                            *)
(***************************************************************************)
LEMMA ExcessBounded ==
    ASSUME NEW R, NEW P, NEW A, NEW n \in Nat, Covered(P, A, n),
           NEW ask \in [R -> Nat], NEW ans \in [R -> Nat],
           \A r \in R : /\ IsFiniteSet(For(P, r)) /\ Cardinality(For(P, r)) = ans[r]
                       /\ IsFiniteSet(For(A, r)) /\ Cardinality(For(A, r)) <= ask[r]
    PROVE  /\ IsFiniteSet(Excess(R, ask, ans)) /\ Cardinality(Excess(R, ask, ans)) \in Nat
           /\ Cardinality(Excess(R, ask, ans)) <= n
<1>0. \A r \in R : /\ IsFiniteSet({a \in P : a.req = r})
                   /\ Cardinality({a \in P : a.req = r}) = ans[r]
                   /\ IsFiniteSet({a \in A : a.req = r})
                   /\ Cardinality({a \in A : a.req = r}) <= ask[r]
  BY DEF For
<1>1. PICK S \in SUBSET P : \E h \in [P \ S -> A] :
          /\ IsFiniteSet(S) /\ Cardinality(S) <= n
          /\ \A a \in P \ S : h[a].req = a.req
          /\ \A a, b \in P \ S : h[a] = h[b] => a = b
  BY DEF Covered
<1>2. PICK h \in [P \ S -> A] :
          /\ IsFiniteSet(S) /\ Cardinality(S) <= n
          /\ \A a \in P \ S : h[a].req = a.req
          /\ \A a, b \in P \ S : h[a] = h[b] => a = b
  BY <1>1
<1> DEFINE Of(r) == {a \in P : a.req = r}
           Extra(r) == {a \in S : a.req = r}
           B(r) == CHOOSE f : f \in Bijection(1..Cardinality(Extra(r)), Extra(r))
           E == UNION {{r} \X ((ask[r] + 1)..ans[r]) : r \in R}
           g == [x \in E |-> B(x[1])[x[2] - ask[x[1]]]]
<1>3. ASSUME NEW r \in R
      PROVE  /\ Cardinality(Extra(r)) \in Nat
             /\ ans[r] <= ask[r] + Cardinality(Extra(r))
             /\ B(r) \in Bijection(1..Cardinality(Extra(r)), Extra(r))
  <2> DEFINE F == Of(r) \ S
             T == {a \in A : a.req = r}
             f == [a \in F |-> h[a]]
  <2>1. IsFiniteSet(Extra(r)) /\ Cardinality(Extra(r)) \in Nat
    BY <1>2, SmallSubset
  <2>2. B(r) \in Bijection(1..Cardinality(Extra(r)), Extra(r))
    <3>1. ExistsBijection(1..Cardinality(Extra(r)), Extra(r))
      BY <2>1, FS_CardinalityType
    <3> QED BY <3>1 DEF ExistsBijection
  <2>3. f \in Injection(F, T)
    <3>1. f \in [F -> T]
      BY <1>2
    <3>2. \A a, b \in F : f[a] = f[b] => a = b
      BY <1>2
    <3> HIDE DEF f, F, T
    <3> QED BY <3>1, <3>2 DEF Injection, IsInjective
  <2>4. /\ IsFiniteSet(F) /\ Cardinality(F) <= Cardinality(T)
        /\ Cardinality(F) \in Nat /\ Cardinality(T) \in Nat
        /\ Cardinality(T) <= ask[r]
    <3>1. IsFiniteSet(T) /\ Cardinality(T) <= ask[r]
      BY <1>0
    <3> HIDE DEF f, F, T
    <3>2. IsFiniteSet(F) /\ Cardinality(F) <= Cardinality(T)
      BY <2>3, <3>1, FS_Injection
    <3> QED BY <3>1, <3>2, FS_CardinalityType
  <2>5. Of(r) = Extra(r) \cup F
    OBVIOUS
  <2>6. Cardinality(Of(r)) = ans[r] /\ ans[r] \in Nat /\ ask[r] \in Nat
    BY <1>0
  <2> HIDE DEF F, T, f, Extra, Of, B
  <2>7. Cardinality(Of(r)) <= Cardinality(Extra(r)) + Cardinality(F)
    BY <2>1, <2>4, <2>5, SmallUnion
  <2> QED BY <2>1, <2>2, <2>4, <2>6, <2>7
<1>4. ASSUME NEW x \in E
      PROVE  /\ x[1] \in R /\ x[2] - ask[x[1]] \in 1..Cardinality(Extra(x[1]))
             /\ x = <<x[1], x[2]>> /\ x[2] \in Nat /\ ask[x[1]] \in Nat
             /\ g[x] \in Extra(x[1])
  <2>1. PICK r \in R : x \in {r} \X ((ask[r] + 1)..ans[r])
    OBVIOUS
  <2>2. /\ x[1] = r /\ x[2] \in (ask[r] + 1)..ans[r] /\ x = <<x[1], x[2]>>
        /\ ask[r] \in Nat /\ ans[r] \in Nat
    BY <2>1
  <2>3. /\ Cardinality(Extra(r)) \in Nat /\ ans[r] <= ask[r] + Cardinality(Extra(r))
        /\ B(r) \in [1..Cardinality(Extra(r)) -> Extra(r)]
    <3> HIDE DEF Extra, B
    <3> QED BY <1>3 DEF Bijection, Injection
  <2>4. x[2] \in Nat /\ x[2] - ask[r] \in 1..Cardinality(Extra(r))
    <3> HIDE DEF Extra, B
    <3> QED BY <2>2, <2>3
  <2>5. g[x] = B(r)[x[2] - ask[r]]
    <3> HIDE DEF E, B
    <3> QED BY <2>2
  <2> HIDE DEF E, B, Extra, g
  <2> QED BY <2>2, <2>3, <2>4, <2>5
<1>5. ASSUME NEW x \in E, NEW y \in E, g[x] = g[y]
      PROVE  x = y
  <2>1. x[1] = y[1]
    <3>1. g[x].req = x[1] /\ g[y].req = y[1]
      <4> HIDE DEF E, g
      <4> QED BY <1>4
    <3> QED BY <1>5, <3>1
  <2> DEFINE r == x[1]
  <2>2. g[x] = B(r)[x[2] - ask[r]] /\ g[y] = B(r)[y[2] - ask[r]]
    <3> HIDE DEF E, B
    <3> QED BY <2>1
  <2>3. /\ r \in R /\ x[2] - ask[r] \in 1..Cardinality(Extra(r))
        /\ y[2] - ask[r] \in 1..Cardinality(Extra(r))
        /\ x[2] \in Nat /\ y[2] \in Nat /\ ask[r] \in Nat
        /\ x = <<x[1], x[2]>> /\ y = <<y[1], y[2]>>
    <3> HIDE DEF E, B, Extra, g
    <3> QED BY <1>4, <2>1
  <2>4. x[2] - ask[r] = y[2] - ask[r]
    <3> HIDE DEF E, B, Extra, g, r
    <3>1. B(r) \in Injection(1..Cardinality(Extra(r)), Extra(r))
      BY <1>3, <2>3 DEF Bijection
    <3> QED BY <1>5, <2>2, <2>3, <3>1 DEF Injection, IsInjective
  <2>5. x[2] = y[2]
    <3> HIDE DEF r, E
    <3> QED BY <2>3, <2>4
  <2> HIDE DEF E
  <2> QED BY <2>1, <2>3, <2>5
<1>6. g \in Injection(E, S)
  <2>1. g = [x \in E |-> g[x]]
    OBVIOUS
  <2>2. \A x \in E : g[x] \in S
    BY <1>4
  <2> HIDE DEF g, E
  <2> QED BY <1>5, <2>1, <2>2 DEF Injection, IsInjective
<1>7. /\ IsFiniteSet(E) /\ Cardinality(E) <= Cardinality(S)
  <2> HIDE DEF g, E
  <2> QED BY <1>2, <1>6, FS_Injection
<1>8. Cardinality(E) \in Nat /\ Cardinality(S) \in Nat
  <2> HIDE DEF g, E
  <2> QED BY <1>2, <1>7, FS_CardinalityType
<1> HIDE DEF E
<1>9. Cardinality(E) <= n
  BY <1>2, <1>7, <1>8
<1> QED BY <1>7, <1>8, <1>9 DEF E, Excess
-----------------------------------------------------------------------------
(***************************************************************************)
(* Whatever was rejected: no position and no committed offset is beyond    *)
(* the end, and the handler of an owner is at the message it reads.        *)
(***************************************************************************)
InPlace ==
    \A p \in RequestPartitions :
        /\ reqPosition[p] <= Len(requests[p])
        /\ reqCommitted[p] # NoOffset => reqCommitted[p] <= Len(requests[p])
        /\ \A w \in Workers :
               Busy(w) /\ wwork[w].part = p /\ reqOwner[p] = w
                   => wwork[w].off = reqPosition[p]

(***************************************************************************)
(* The n-th message or result of a request.                                *)
(***************************************************************************)
Place == [num : Nat, req : Request]

Replies == {a \in Place : a.num \in Answers(a.req)}

(***************************************************************************)
(* Requests the group has come past, or whose owner has published.  Some   *)
(* of them are not committed and will be delivered to the next owner.      *)
(***************************************************************************)
Asks(a) ==
    /\ a.num \in 1..Len(requests[PartitionOf(a.req)])
    /\ requests[PartitionOf(a.req)][a.num] = a.req

Handled ==
    {a \in Place :
        /\ Asks(a)
        /\ \/ a.num <= reqPosition[PartitionOf(a.req)]
           \/ AboutToCommit(PartitionOf(a.req), a.num)}

Uncommitted ==
    {a \in Place :
        /\ Asks(a)
        /\ reqCommitted[PartitionOf(a.req)] # NoOffset
        /\ reqCommitted[PartitionOf(a.req)] < a.num
        /\ a.num <= reqPosition[PartitionOf(a.req)]}

(***************************************************************************)
(* Handlers that have lost their partition and will publish all the same.  *)
(***************************************************************************)
Strays == {w \in Workers : wpc[w] \in {"crawl", "produce"} /\ reqOwner[wwork[w].part] # w}

Faults == failures + stops + evictions

(***************************************************************************)
(* Each fault pays for one result in excess, or for one to come.           *)
(***************************************************************************)
Charged ==
    /\ IsFiniteSet(Uncommitted) /\ IsFiniteSet(Strays)
    /\ \E n \in Nat :
          /\ Covered(Replies, Handled, n)
          /\ n + Cardinality(Uncommitted) + Cardinality(Strays) <= Faults

LEMMA ChargedInit == Init => InPlace /\ Charged
<1> SUFFICES ASSUME Init PROVE InPlace /\ Charged
  OBVIOUS
<1>1. InPlace
  BY DEF Init, InPlace, Busy
<1>2. ASSUME NEW r \in Request
      PROVE  Answers(r) = {} /\ 1..Len(requests[PartitionOf(r)]) = {}
  <2>1. PartitionOf(r) \in RequestPartitions /\ ResultPartition[r.url] \in ResultPartitions
    BY WorkerAssumption DEF Request, PartitionOf
  <2> QED BY <2>1 DEF Init, Answers
<1>3. Replies = {} /\ Handled = {}
  BY <1>2 DEF Replies, Handled, Place, Asks
<1>4. Uncommitted = {} /\ Strays = {}
  BY <1>2 DEF Uncommitted, Strays, Init, Place, Asks
<1>5. IsFiniteSet({}) /\ Cardinality({}) = 0
  BY FS_EmptySet
<1>6. Covered({}, {}, 0)
  <2> DEFINE S == {}
  <2>1. S \in SUBSET {} /\ IsFiniteSet(S) /\ Cardinality(S) <= 0
    BY <1>5
  <2>2. [a \in {} |-> a] \in [{} \ S -> {}]
    OBVIOUS
  <2> QED BY <2>1, <2>2 DEF Covered
<1>7. Faults = 0
  BY DEF Init, Faults
<1> QED BY <1>1, <1>3, <1>4, <1>5, <1>6, <1>7 DEF Charged
-----------------------------------------------------------------------------
(***************************************************************************)
(* InPlace, action by action.                                              *)
(***************************************************************************)
LEMMA BusyWork ==
    ASSUME Typed, NEW w \in Workers, Busy(w)
    PROVE  /\ wwork[w] \in Work /\ wwork[w].part \in RequestPartitions
           /\ wwork[w].off \in Nat /\ Len(requests[wwork[w].part]) \in Nat
           /\ wwork[w].off + 1 <= Len(requests[wwork[w].part])
<1>1. wwork[w] \in Work /\ wwork[w].off < Len(requests[wwork[w].part])
  BY DEF Typed, HandlerHasWork
<1>2. wwork[w].part \in RequestPartitions /\ wwork[w].off \in Nat
  BY <1>1 DEF Work
<1> QED BY <1>1, <1>2 DEF Typed, TypeOK

LEMMA PlaceStays ==
    ASSUME Typed, InPlace, UNCHANGED <<requests, reqCommitted, reqPosition>>,
           \A v \in Workers : Busy(v)' => Busy(v) /\ wwork'[v] = wwork[v],
           \A v \in Workers, q \in RequestPartitions : reqOwner'[q] = v => reqOwner[q] = v
    PROVE  InPlace'
BY DEF InPlace

LEMMA PlaceDeliver ==
    ASSUME Typed, InPlace, NEW w \in Workers, NEW p \in RequestPartitions, Deliver(w, p)
    PROVE  InPlace'
<1> DEFINE k == [part |-> p, off |-> reqPosition[p]]
<1>1. UNCHANGED <<requests, reqCommitted, reqOwner, reqPosition>>
  BY DEF Deliver, requestVars
<1>2. wwork'[w] = k /\ \A v \in Workers \ {w} : wwork'[v] = wwork[v]
  BY DEF Deliver, Typed, TypeOK
<1>3. \A v \in Workers \ {w} : Busy(v)' => Busy(v)
  BY DEF Deliver, Goto, Busy, Typed, TypeOK
<1> QED BY <1>1, <1>2, <1>3 DEF InPlace

(***************************************************************************)
(* The handler of w returns, and with it the position moves on if w still  *)
(* owns the partition.                                                     *)
(***************************************************************************)
LEMMA HandlerReturns ==
    ASSUME Typed, InPlace, NEW w \in Workers, Busy(w), Return(w),
           UNCHANGED <<requests, reqOwner>>
    PROVE  /\ \A v \in Workers : Busy(v)' => v # w /\ Busy(v) /\ wwork'[v] = wwork[v]
           /\ \A v \in Workers \ {w} : wpc'[v] = wpc[v] /\ wwork'[v] = wwork[v]
           /\ wpc'[w] = "idle"
           /\ reqOwner[wwork[w].part] = w =>
                 /\ reqPosition'[wwork[w].part] = reqPosition[wwork[w].part] + 1
                 /\ reqPosition[wwork[w].part] = wwork[w].off
           /\ \A q \in RequestPartitions :
                 q # wwork[w].part \/ reqOwner[q] # w => reqPosition'[q] = reqPosition[q]
<1>1. EndHandler(w, "idle") /\ Group!Resolve(wwork[w].part, w, wwork[w].off)
  BY DEF Return
<1>2. wwork[w].part \in RequestPartitions /\ reqPosition \in [RequestPartitions -> Nat]
  BY BusyWork DEF Typed, TypeOK
<1>3. reqOwner[wwork[w].part] = w => wwork[w].off = reqPosition[wwork[w].part]
  BY <1>2 DEF InPlace
<1>4. /\ \A v \in Workers \ {w} : wpc'[v] = wpc[v] /\ wwork'[v] = wwork[v]
      /\ wpc'[w] = "idle"
  BY <1>1 DEF EndHandler, Goto, Typed, TypeOK
<1>5. \A v \in Workers : Busy(v)' => v # w /\ Busy(v)
  BY <1>4 DEF Busy
<1> QED BY <1>1, <1>2, <1>3, <1>4, <1>5 DEF Group!Resolve

(***************************************************************************)
(* The offset of the message w has in hand is committed, or it is not.     *)
(***************************************************************************)
MayCommit(w) ==
    \/ UNCHANGED reqCommitted
    \/ Group!CommitAccepted(wwork[w].part, w, wwork[w].off)

LEMMA OffsetsWithin ==
    ASSUME Typed, InPlace, NEW w \in Workers, Busy(w), MayCommit(w), UNCHANGED requests,
           NEW q \in RequestPartitions
    PROVE  /\ reqCommitted'[q] # NoOffset => reqCommitted'[q] <= Len(requests'[q])
           /\ q # wwork[w].part => reqCommitted'[q] = reqCommitted[q]
<1>1. /\ wwork[w].part \in RequestPartitions
      /\ wwork[w].off + 1 <= Len(requests[wwork[w].part])
  BY BusyWork
<1>2. reqCommitted \in [RequestPartitions -> Nat \cup {NoOffset}]
  BY DEF Typed, TypeOK
<1> QED BY <1>1, <1>2 DEF MayCommit, Group!CommitAccepted, InPlace

LEMMA PlaceReturn ==
    ASSUME Typed, InPlace, NEW w \in Workers, Busy(w), Return(w),
           UNCHANGED <<requests, reqOwner>>, MayCommit(w)
    PROVE  InPlace'
<1> DEFINE p == wwork[w].part
<1>1. /\ p \in RequestPartitions /\ wwork[w].off \in Nat
      /\ Len(requests[p]) \in Nat /\ wwork[w].off + 1 <= Len(requests[p])
  BY BusyWork
<1> SUFFICES ASSUME NEW q \in RequestPartitions
             PROVE  /\ reqPosition'[q] <= Len(requests[q])
                    /\ \A v \in Workers :
                           Busy(v)' /\ wwork'[v].part = q /\ reqOwner[q] = v
                               => wwork'[v].off = reqPosition'[q]
  BY OffsetsWithin DEF InPlace
<1>4. CASE q = p /\ reqOwner[q] = w
  <2> HIDE DEF p
  <2>1. reqPosition'[q] = reqPosition[q] + 1 /\ reqPosition[q] = wwork[w].off
    BY <1>4, HandlerReturns DEF p
  <2>2. reqPosition'[q] <= Len(requests[q])
    BY <1>1, <1>4, <2>1
  <2>3. \A v \in Workers : Busy(v)' => v # w
    BY HandlerReturns
  <2> QED BY <1>4, <2>2, <2>3
<1>5. CASE q # p \/ reqOwner[q] # w
  <2>1. reqPosition'[q] = reqPosition[q]
    BY <1>5, HandlerReturns
  <2>2. \A v \in Workers : Busy(v)' => Busy(v) /\ wwork'[v] = wwork[v]
    BY HandlerReturns
  <2> QED BY <2>1, <2>2 DEF InPlace
<1> QED BY <1>4, <1>5

LEMMA PlaceAssign ==
    ASSUME Typed, InPlace, NEW p \in RequestPartitions, NEW w \in Workers,
           AssignRequests(p, w)
    PROVE  InPlace'
<1>1. /\ wpc[w] = "idle" /\ UNCHANGED <<requests, reqCommitted, wpc, wwork>>
      /\ reqOwner' = [reqOwner EXCEPT ![p] = w]
      /\ reqPosition' = [reqPosition EXCEPT ![p] = Group!StartOffset(p)]
  BY DEF AssignRequests, Group!Assign, workerVars
<1>2. /\ reqPosition'[p] = Group!StartOffset(p) /\ reqOwner'[p] = w
      /\ \A q \in RequestPartitions \ {p} :
             reqPosition'[q] = reqPosition[q] /\ reqOwner'[q] = reqOwner[q]
  BY <1>1 DEF Typed, TypeOK
<1>3. /\ Len(requests[p]) \in Nat /\ reqPosition[p] \in Nat
      /\ reqCommitted[p] \in Nat \cup {NoOffset}
  BY DEF Typed, TypeOK
<1>4. Group!StartOffset(p) <= Len(requests[p])
  BY <1>3 DEF Group!StartOffset, InPlace
<1>5. ~Busy(w) /\ \A v \in Workers : Busy(v)' <=> Busy(v)
  BY <1>1 DEF Busy
<1> QED BY <1>1, <1>2, <1>4, <1>5 DEF InPlace

LEMMA PlaceArrivals ==
    ASSUME Typed, InPlace, Arrivals, GroupStays
    PROVE  InPlace'
<1>1. UNCHANGED wwork /\ \A v \in Workers : Busy(v)' <=> Busy(v)
  BY DEF GroupStays, workerVars, Busy
<1>2. \A q \in RequestPartitions : /\ Len(requests[q]) \in Nat /\ Len(requests'[q]) \in Nat
                                   /\ Len(requests[q]) <= Len(requests'[q])
                                   /\ reqPosition[q] \in Nat
                                   /\ reqCommitted[q] \in Nat \cup {NoOffset}
  BY DEF Arrivals, Typed, TypeOK
<1> QED BY <1>1, <1>2 DEF GroupStays, InPlace

LEMMA PlaceNext ==
    ASSUME Typed, InPlace, [Next]_vars
    PROVE  InPlace'
<1>1. CASE UNCHANGED vars
  BY <1>1 DEF InPlace, Busy, vars, requestVars, workerVars, faultVars
<1>2. CASE \E w \in Workers : Handle(w)
  <2>1. PICK w \in Workers : Handle(w)
    BY <1>2
  <2>2. CASE Crawl(w) \/ Produce(w)
    <3>1. /\ UNCHANGED <<requests, reqCommitted, reqOwner, reqPosition, wwork>>
          /\ \A v \in Workers : Busy(v)' => Busy(v)
      BY <2>2 DEF Crawl, Produce, Goto, Busy, requestVars, Typed, TypeOK
    <3> QED BY <3>1, PlaceStays
  <2>3. CASE ProduceRejects(w) \/ CommitOffset(w)
    <3>1. Busy(w) /\ Return(w) /\ UNCHANGED <<requests, reqOwner>>
      BY <2>3 DEF ProduceRejects, CommitOffset, CommitsOffset, Busy
    <3> QED BY <2>3, <3>1, PlaceReturn DEF ProduceRejects, CommitOffset, MayCommit
  <2>4. CASE OffsetRejects(w)
    <3>1. Busy(w) /\ UNCHANGED <<requests, reqOwner>> /\ MayCommit(w)
      BY <2>4 DEF OffsetRejects, CommitsOffset, Busy, MayCommit
    <3>2. CASE Return(w)
      BY <3>1, <3>2, PlaceReturn
    <3>3. CASE Throw(w)
      <4>1. \A v \in Workers : Busy(v)' => Busy(v) /\ wwork'[v] = wwork[v]
        BY <3>3 DEF Throw, EndHandler, Goto, Busy, Typed, TypeOK
      <4>2. UNCHANGED reqPosition
        BY <3>3 DEF Throw
      <4> QED BY <3>1, <4>1, <4>2, OffsetsWithin DEF InPlace
    <3> QED BY <2>4, <3>2, <3>3 DEF OffsetRejects
  <2> QED BY <2>1, <2>2, <2>3, <2>4, PlaceDeliver DEF Handle
<1>3. CASE \E w \in Workers : Shutdown(w) \/ Kill(w) \/ Restart(w)
  <2>1. PICK w \in Workers : StopWorker(w) \/ Restart(w)
    BY <1>3 DEF Shutdown, Kill
  <2>2. UNCHANGED <<requests, reqCommitted, reqPosition>>
    BY <2>1 DEF StopWorker, Restart, requestVars
  <2>3. \A v \in Workers : Busy(v)' => Busy(v) /\ wwork'[v] = wwork[v]
    BY <2>1 DEF StopWorker, EndHandler, Restart, Goto, Busy, Typed, TypeOK
  <2>4. \A v \in Workers, q \in RequestPartitions : reqOwner'[q] = v => reqOwner[q] = v
    BY <2>1, WorkerAssumption DEF StopWorker, Restart, Group!Leave, requestVars
  <2> QED BY <2>2, <2>3, <2>4, PlaceStays
<1>4. CASE \E p \in RequestPartitions : Rebalance(p)
  <2>1. PICK p \in RequestPartitions : Rebalance(p)
    BY <1>4
  <2>2. CASE EvictRequests(p)
    <3>1. /\ UNCHANGED <<requests, reqCommitted, reqPosition, wwork>>
          /\ \A v \in Workers : Busy(v)' => Busy(v)
      BY <2>2 DEF EvictRequests, workerVars, Busy
    <3>2. \A v \in Workers, q \in RequestPartitions : reqOwner'[q] = v => reqOwner[q] = v
      BY <2>2, WorkerAssumption DEF EvictRequests, Group!Evict, Typed, TypeOK
    <3> QED BY <3>1, <3>2, PlaceStays
  <2> QED BY <2>1, <2>2, PlaceAssign DEF Rebalance
<1>5. CASE \/ \E m \in Request : PublishRequest(m)
           \/ \E p \in RequestPartitions : PublishGarbage(p)
  BY <1>5, EnvironmentPublishes, PlaceArrivals
<1> QED BY <1>1, <1>2, <1>3, <1>4, <1>5 DEF Next, WorkerNext
-----------------------------------------------------------------------------
(***************************************************************************)
(* Charged, action by action: first what pays for what.                    *)
(***************************************************************************)
LEMMA ThreeFaults ==
    ASSUME NEW a \in Nat, NEW b \in Nat, NEW c \in Nat
    PROVE  a + b + c \in Nat
OBVIOUS

LEMMA FaultsType ==
    ASSUME Typed, Typed'
    PROVE  Faults \in Nat /\ Faults' \in Nat
<1>1. failures \in Nat /\ stops \in Nat /\ evictions \in Nat
  BY DEF Typed, TypeOK
<1>2. failures' \in Nat /\ stops' \in Nat /\ evictions' \in Nat
  BY DEF Typed, TypeOK
<1>3. Faults \in Nat
  BY <1>1 DEF Faults
<1>4. Faults' \in Nat
  BY <1>2, ThreeFaults DEF Faults
<1> QED BY <1>3, <1>4

LEMMA Budget ==
    ASSUME NEW n \in Nat, NEW u \in Nat, NEW s \in Nat, NEW f \in Nat, NEW l \in Nat,
           NEW v \in Nat, NEW t \in Nat, NEW g \in Nat,
           n + u + s <= f, l + v + t + f <= u + s + g
    PROVE  (n + l) + v + t <= g
OBVIOUS

(***************************************************************************)
(* Without a new result: requests that are no longer handled leave results *)
(* in excess, paid for by what is no longer to come and by new faults.     *)
(***************************************************************************)
LEMMA Recharge ==
    ASSUME Typed, Typed', Charged, Replies' = Replies,
           IsFiniteSet(Handled \ Handled'), IsFiniteSet(Uncommitted'), IsFiniteSet(Strays'),
           Cardinality(Handled \ Handled') + Cardinality(Uncommitted')
               + Cardinality(Strays') + Faults
               <= Cardinality(Uncommitted) + Cardinality(Strays) + Faults'
    PROVE  Charged'
<1>1. PICK n \in Nat : /\ Covered(Replies, Handled, n)
                       /\ n + Cardinality(Uncommitted) + Cardinality(Strays) <= Faults
  BY DEF Charged
<1> DEFINE l == Cardinality(Handled \ Handled')
<1>2. /\ l \in Nat
      /\ Cardinality(Uncommitted) \in Nat /\ Cardinality(Strays) \in Nat
      /\ Cardinality(Uncommitted') \in Nat /\ Cardinality(Strays') \in Nat
  BY FS_CardinalityType DEF Charged
<1>3. Faults \in Nat /\ Faults' \in Nat
  BY FaultsType
<1>4. Covered(Replies', Handled', n + l)
  BY <1>1, CoveredByFewer
<1> HIDE DEF l
<1>5. l + Cardinality(Uncommitted') + Cardinality(Strays') + Faults
          <= Cardinality(Uncommitted) + Cardinality(Strays) + Faults'
  BY DEF l
<1>6. n + l \in Nat /\ (n + l) + Cardinality(Uncommitted') + Cardinality(Strays') <= Faults'
  BY <1>1, <1>2, <1>3, <1>5, Budget
<1> QED BY <1>4, <1>6 DEF Charged

LEMMA Nothing == IsFiniteSet({}) /\ Cardinality({}) = 0
BY FS_EmptySet

LEMMA Sums ==
    ASSUME NEW l \in Nat, NEW v \in Nat, NEW t \in Nat, NEW f \in Nat,
           NEW u \in Nat, NEW s \in Nat, NEW g \in Nat,
           v <= u, t <= s, f <= g, l = 0
    PROVE  l + v + t + f <= u + s + g
OBVIOUS

LEMMA FreeStep ==
    ASSUME Typed, Typed', Charged, Replies' = Replies, Handled \subseteq Handled',
           Uncommitted' \subseteq Uncommitted, Strays' \subseteq Strays, Faults <= Faults'
    PROVE  Charged'
<1>1. IsFiniteSet(Uncommitted) /\ IsFiniteSet(Strays)
  BY DEF Charged
<1>2. /\ IsFiniteSet(Uncommitted') /\ IsFiniteSet(Strays')
      /\ Cardinality(Uncommitted') <= Cardinality(Uncommitted)
      /\ Cardinality(Strays') <= Cardinality(Strays)
      /\ Cardinality(Uncommitted) \in Nat /\ Cardinality(Strays) \in Nat
      /\ Cardinality(Uncommitted') \in Nat /\ Cardinality(Strays') \in Nat
  BY <1>1, SmallSubset
<1> DEFINE L == Handled \ Handled'
<1>3. L = {}
  OBVIOUS
<1>4. IsFiniteSet(L) /\ Cardinality(L) = 0
  BY <1>3, Nothing
<1>5. Faults \in Nat /\ Faults' \in Nat
  BY FaultsType
<1> HIDE DEF L
<1>6. Cardinality(L) + Cardinality(Uncommitted') + Cardinality(Strays') + Faults
          <= Cardinality(Uncommitted) + Cardinality(Strays) + Faults'
  BY <1>2, <1>4, <1>5, Sums
<1> QED BY <1>2, <1>4, <1>6, Recharge DEF L

(***************************************************************************)
(* A fault pays for one request that is handled again, or one result more  *)
(* that is to come.                                                        *)
(***************************************************************************)
LEMMA SumsOne ==
    ASSUME NEW l \in Nat, NEW v \in Nat, NEW t \in Nat, NEW f \in Nat,
           NEW u \in Nat, NEW s \in Nat, NEW g \in Nat,
           \/ l <= 1 /\ v <= u /\ t <= s
           \/ l = 0 /\ v <= u + 1 /\ t <= s
           \/ l = 0 /\ v <= u /\ t <= s + 1,
           g = f + 1
    PROVE  l + v + t + f <= u + s + g
OBVIOUS

LEMMA PaidStep ==
    ASSUME Typed, Typed', Charged, Replies' = Replies, Faults' = Faults + 1, NEW x,
           \/ /\ Handled \subseteq Handled' \cup {x}
              /\ Uncommitted' \subseteq Uncommitted /\ Strays' \subseteq Strays
           \/ /\ Handled \subseteq Handled'
              /\ Uncommitted' \subseteq Uncommitted \cup {x} /\ Strays' \subseteq Strays
           \/ /\ Handled \subseteq Handled'
              /\ Uncommitted' \subseteq Uncommitted /\ Strays' \subseteq Strays \cup {x}
    PROVE  Charged'
<1> DEFINE L == Handled \ Handled'
           l == Cardinality(L)
           v == Cardinality(Uncommitted')
           t == Cardinality(Strays')
           u == Cardinality(Uncommitted)
           s == Cardinality(Strays)
<1>1. /\ IsFiniteSet(Uncommitted) /\ IsFiniteSet(Strays)
      /\ IsFiniteSet(Uncommitted \cup {x}) /\ IsFiniteSet(Strays \cup {x})
      /\ Cardinality(Uncommitted \cup {x}) <= u + 1
      /\ Cardinality(Strays \cup {x}) <= s + 1
      /\ u \in Nat /\ s \in Nat
      /\ Cardinality(Uncommitted \cup {x}) \in Nat /\ Cardinality(Strays \cup {x}) \in Nat
  BY OneMore DEF Charged
<1>2. L \subseteq {x} /\ IsFiniteSet({x}) /\ Cardinality({x}) = 1
  BY FS_Singleton
<1>3. IsFiniteSet(L) /\ l <= 1 /\ l \in Nat
  BY <1>2, SmallSubset
<1>4. Handled \subseteq Handled' => l = 0
  <2> SUFFICES ASSUME Handled \subseteq Handled' PROVE L = {}
    BY Nothing
  <2> QED OBVIOUS
<1>5. /\ Uncommitted' \subseteq Uncommitted \cup {x} /\ Strays' \subseteq Strays \cup {x}
  OBVIOUS
<1>6. /\ IsFiniteSet(Uncommitted') /\ v \in Nat /\ v <= Cardinality(Uncommitted \cup {x})
      /\ IsFiniteSet(Strays') /\ t \in Nat /\ t <= Cardinality(Strays \cup {x})
  BY <1>1, <1>5, SmallSubset
<1>7. /\ Uncommitted' \subseteq Uncommitted => v <= u
      /\ Strays' \subseteq Strays => t <= s
  BY <1>1, SmallSubset
<1>8. v <= u + 1 /\ t <= s + 1
  <2> HIDE DEF u, v, s, t
  <2> QED BY <1>1, <1>6
<1>9. Faults \in Nat /\ Faults' \in Nat
  BY FaultsType
<1>10. \/ l <= 1 /\ v <= u /\ t <= s
       \/ l = 0 /\ v <= u + 1 /\ t <= s
       \/ l = 0 /\ v <= u /\ t <= s + 1
  <2> HIDE DEF l, u, v, s, t
  <2> QED BY <1>3, <1>4, <1>7, <1>8
<1>11. l + v + t + Faults <= u + s + Faults'
  <2> HIDE DEF l, u, v, s, t
  <2> QED BY <1>1, <1>3, <1>6, <1>9, <1>10, SumsOne
<1> QED BY <1>3, <1>6, <1>11, Recharge

(***************************************************************************)
(* Requests that were not committed are handled again.                     *)
(***************************************************************************)
LEMMA RewindStep ==
    ASSUME Typed, Typed', Charged, Replies' = Replies, Faults' = Faults,
           NEW X, X \subseteq Uncommitted, Handled \subseteq Handled' \cup X,
           Uncommitted' \subseteq Uncommitted \ X, Strays' \subseteq Strays
    PROVE  Charged'
<1> DEFINE L == Handled \ Handled'
           R == Uncommitted \ X
<1>1. IsFiniteSet(Uncommitted) /\ IsFiniteSet(Strays)
  BY DEF Charged
<1>2. /\ IsFiniteSet(X) /\ Cardinality(X) \in Nat /\ Cardinality(Uncommitted) \in Nat
      /\ IsFiniteSet(R) /\ Cardinality(R) \in Nat
  BY <1>1, SmallSubset
<1>3. Cardinality(R) = Cardinality(Uncommitted) - Cardinality(X)
  <2>1. Uncommitted \cap X = X
    OBVIOUS
  <2> QED BY <1>1, <2>1, FS_Difference
<1>4. L \subseteq X
  OBVIOUS
<1>5. IsFiniteSet(L) /\ Cardinality(L) \in Nat /\ Cardinality(L) <= Cardinality(X)
  <2> HIDE DEF L
  <2> QED BY <1>2, <1>4, SmallSubset
<1>6. /\ IsFiniteSet(Uncommitted') /\ Cardinality(Uncommitted') \in Nat
      /\ Cardinality(Uncommitted') <= Cardinality(R)
  BY <1>2, SmallSubset
<1>7. /\ IsFiniteSet(Strays') /\ Cardinality(Strays') \in Nat /\ Cardinality(Strays) \in Nat
      /\ Cardinality(Strays') <= Cardinality(Strays)
  BY <1>1, SmallSubset
<1>8. Faults \in Nat
  BY FaultsType
<1> HIDE DEF L, R
<1>9. Cardinality(L) + Cardinality(Uncommitted') + Cardinality(Strays') + Faults
          <= Cardinality(Uncommitted) + Cardinality(Strays) + Faults'
  BY <1>2, <1>3, <1>5, <1>6, <1>7, <1>8
<1> QED BY <1>5, <1>6, <1>7, <1>9, Recharge DEF L
-----------------------------------------------------------------------------
LEMMA PlaceType ==
    ASSUME NEW a \in Place
    PROVE  /\ a.num \in Nat /\ a.req \in Request /\ PartitionOf(a.req) \in RequestPartitions
           /\ ResultPartition[a.req.url] \in ResultPartitions
           /\ a = [num |-> a.num, req |-> a.req]
<1>1. a.num \in Nat /\ a.req \in Request /\ a = [num |-> a.num, req |-> a.req]
  BY DEF Place
<1> QED BY <1>1, WorkerAssumption DEF Request, PartitionOf

LEMMA RepliesSame == ASSUME results' = results PROVE Replies' = Replies
<1>1. \A r \in Request : Answers(r)' = Answers(r)
  BY DEF Answers
<1> QED BY <1>1 DEF Replies, Place

LEMMA OneFault ==
    ASSUME Typed, RemoteFailure, UNCHANGED <<stops, evictions>>
    PROVE  Faults' = Faults + 1
BY DEF Typed, TypeOK, Faults, RemoteFailure

LEMMA SameFaults ==
    ASSUME Typed, UNCHANGED faultVars
    PROVE  Faults' = Faults /\ Faults <= Faults'
<1>1. failures \in Nat /\ stops \in Nat /\ evictions \in Nat
  BY DEF Typed, TypeOK
<1> QED BY <1>1 DEF Faults, faultVars

(***************************************************************************)
(* The message in the hands of the handler of w.                           *)
(***************************************************************************)
InHand(w) == [num |-> wwork[w].off + 1, req |-> Req(w)]

(***************************************************************************)
(* A request stays handled where positions only grow, unless it is the one *)
(* that an owner who has published loses.                                  *)
(***************************************************************************)
LEMMA StaysHandled ==
    ASSUME Typed, NEW a \in Handled, requests' = requests,
           \A q \in RequestPartitions : reqPosition[q] <= reqPosition'[q],
           \A q \in RequestPartitions : reqPosition'[q] \in Nat
    PROVE  \/ a \in Handled'
           \/ \E v \in Workers :
                 /\ wpc[v] = "commit" /\ wwork[v].part = PartitionOf(a.req)
                 /\ reqOwner[wwork[v].part] = v
                 /\ a.num = wwork[v].off + 1 /\ a = InHand(v)
                 /\ ~(a.num <= reqPosition'[PartitionOf(a.req)])
                 /\ ~(/\ wpc'[v] = "commit" /\ wwork'[v] = wwork[v]
                      /\ reqOwner'[wwork[v].part] = v)
<1> DEFINE q == PartitionOf(a.req)
<1>1. a \in Place /\ Asks(a) /\ (a.num <= reqPosition[q] \/ AboutToCommit(q, a.num))
  BY DEF Handled
<1>2. /\ a.num \in Nat /\ q \in RequestPartitions
      /\ a = [num |-> a.num, req |-> a.req]
  BY <1>1, PlaceType
<1>3. reqPosition[q] \in Nat /\ reqPosition'[q] \in Nat /\ reqPosition[q] <= reqPosition'[q]
  BY <1>2 DEF Typed, TypeOK
<1>4. Asks(a)' /\ PartitionOf(a.req)' = q
  BY <1>1 DEF Asks, PartitionOf
<1>5. CASE a.num <= reqPosition'[q]
  BY <1>1, <1>4, <1>5 DEF Handled
<1>6. CASE ~(a.num <= reqPosition'[q])
  <2>1. ~(a.num <= reqPosition[q])
    BY <1>2, <1>3, <1>6
  <2>2. PICK v \in Workers : /\ wpc[v] = "commit" /\ reqOwner[q] = v /\ wwork[v].part = q
                             /\ a.num = wwork[v].off + 1
    BY <1>1, <2>1 DEF AboutToCommit
  <2>3. a = InHand(v)
    <3>1. requests[q][wwork[v].off + 1] = a.req
      BY <1>1, <2>2 DEF Asks
    <3> QED BY <1>2, <2>2, <3>1 DEF InHand, Req
  <2>4. CASE wpc'[v] = "commit" /\ wwork'[v] = wwork[v] /\ reqOwner'[wwork[v].part] = v
    <3>1. AboutToCommit(q, a.num)'
      BY <2>2, <2>4, <1>4 DEF AboutToCommit
    <3> QED BY <1>1, <1>4, <3>1 DEF Handled
  <2> QED BY <1>6, <2>2, <2>3, <2>4
<1> QED BY <1>5, <1>6

LEMMA SamePositions ==
    ASSUME Typed, UNCHANGED reqPosition
    PROVE  /\ \A q \in RequestPartitions : reqPosition[q] <= reqPosition'[q]
           /\ \A q \in RequestPartitions : reqPosition'[q] \in Nat
BY DEF Typed, TypeOK

LEMMA SameUncommitted ==
    ASSUME UNCHANGED <<requests, reqCommitted, reqPosition>>
    PROVE  Uncommitted' = Uncommitted
BY DEF Uncommitted, Asks, Place, PartitionOf

(***************************************************************************)
(* A step of w that leaves the partitions alone and, unless it was about   *)
(* to, does not commit.                                                    *)
(***************************************************************************)
LEMMA QuietCharge ==
    ASSUME Typed, Typed', Charged, NEW w \in Workers, wpc[w] # "commit",
           UNCHANGED <<requestVars, results>>, Faults <= Faults',
           \A v \in Workers \ {w} : wpc'[v] = wpc[v] /\ wwork'[v] = wwork[v],
           wpc'[w] \in {"crawl", "produce"} =>
               \/ reqOwner[wwork'[w].part] = w
               \/ wpc[w] \in {"crawl", "produce"} /\ wwork'[w] = wwork[w]
    PROVE  Charged'
<1>1. UNCHANGED <<requests, reqCommitted, reqOwner, reqPosition, results>>
  BY DEF requestVars
<1>2. Handled \subseteq Handled'
  <2> SUFFICES ASSUME NEW a \in Handled PROVE a \in Handled'
    OBVIOUS
  <2> QED BY <1>1, SamePositions, StaysHandled
<1>3. Strays' \subseteq Strays
  BY <1>1 DEF Strays
<1>4. Uncommitted' = Uncommitted /\ Replies' = Replies
  BY <1>1, SameUncommitted, RepliesSame
<1> QED BY <1>2, <1>3, <1>4, FreeStep

(***************************************************************************)
(* The handler of w returns and its offset is committed, whatever it was   *)
(* told: what it has in hand was handled, and is committed.                *)
(***************************************************************************)
LEMMA ReturnsCommitted ==
    ASSUME Typed, Typed', InPlace, NEW w \in Workers, Busy(w), Return(w),
           UNCHANGED <<requests, reqOwner>>,
           Group!CommitAccepted(wwork[w].part, w, wwork[w].off)
    PROVE  /\ Handled \subseteq Handled' /\ Uncommitted' \subseteq Uncommitted
           /\ Strays' \subseteq Strays
<1> DEFINE p == wwork[w].part
<1>1. /\ reqOwner[p] = w
      /\ reqCommitted' = [reqCommitted EXCEPT ![p] = wwork[w].off + 1]
  BY DEF Group!CommitAccepted
<1>2. /\ p \in RequestPartitions /\ wwork[w].off \in Nat
  BY BusyWork
<1>3. /\ \A v \in Workers \ {w} : wpc'[v] = wpc[v] /\ wwork'[v] = wwork[v]
      /\ wpc'[w] = "idle"
      /\ reqPosition'[p] = reqPosition[p] + 1 /\ reqPosition[p] = wwork[w].off
      /\ \A q \in RequestPartitions \ {p} : reqPosition'[q] = reqPosition[q]
  BY <1>1, HandlerReturns
<1>4. /\ reqCommitted'[p] = reqPosition'[p]
      /\ \A q \in RequestPartitions \ {p} : reqCommitted'[q] = reqCommitted[q]
  BY <1>1, <1>2, <1>3 DEF Typed, TypeOK
<1>5. /\ \A q \in RequestPartitions : reqPosition[q] \in Nat /\ reqPosition'[q] \in Nat
      /\ \A q \in RequestPartitions : reqPosition[q] <= reqPosition'[q]
  <2>1. \A q \in RequestPartitions : reqPosition[q] \in Nat
    BY DEF Typed, TypeOK
  <2> HIDE DEF p
  <2> QED BY <1>3, <2>1
<1>6. Handled \subseteq Handled'
  <2> SUFFICES ASSUME NEW a \in Handled, a \notin Handled' PROVE FALSE
    OBVIOUS
  <2>1. PICK v \in Workers :
            /\ wpc[v] = "commit" /\ wwork[v].part = PartitionOf(a.req)
            /\ reqOwner[wwork[v].part] = v /\ a.num = wwork[v].off + 1
            /\ ~(a.num <= reqPosition'[PartitionOf(a.req)])
            /\ ~(/\ wpc'[v] = "commit" /\ wwork'[v] = wwork[v]
                 /\ reqOwner'[wwork[v].part] = v)
    BY <1>5, StaysHandled
  <2>2. v = w
    BY <1>1, <1>3, <2>1
  <2> QED BY <1>2, <1>3, <2>1, <2>2
<1>7. Uncommitted' \subseteq Uncommitted
  <2> SUFFICES ASSUME NEW a \in Uncommitted' PROVE a \in Uncommitted
    OBVIOUS
  <2>1. /\ a \in Place /\ Asks(a) /\ reqCommitted'[PartitionOf(a.req)] # NoOffset
        /\ reqCommitted'[PartitionOf(a.req)] < a.num
        /\ a.num <= reqPosition'[PartitionOf(a.req)]
    BY <1>1 DEF Uncommitted, Asks, Place, PartitionOf
  <2>2. a.num \in Nat /\ PartitionOf(a.req) \in RequestPartitions
    BY <2>1, PlaceType
  <2>3. PartitionOf(a.req) # p
    BY <1>4, <1>5, <2>1, <2>2
  <2> QED BY <1>3, <1>4, <2>1, <2>2, <2>3 DEF Uncommitted
<1>8. Strays' \subseteq Strays
  BY <1>3 DEF Strays
<1> QED BY <1>6, <1>7, <1>8

LEMMA ChargeCommit ==
    ASSUME Typed, Typed', InPlace, Charged, NEW w \in Workers, CommitOffset(w)
    PROVE  Charged'
<1>1. /\ Busy(w) /\ Return(w) /\ Group!CommitAccepted(wwork[w].part, w, wwork[w].off)
      /\ UNCHANGED <<requests, reqOwner, results, faultVars>>
  BY DEF CommitOffset, CommitsOffset, Busy
<1> QED BY <1>1, ReturnsCommitted, RepliesSame, SameFaults, FreeStep

(***************************************************************************)
(* The handler of w returns without a commit: what the owner has in hand   *)
(* is handled, but not committed.                                          *)
(***************************************************************************)
LEMMA ReturnsUncommitted ==
    ASSUME Typed, Typed', InPlace, NEW w \in Workers, Busy(w), Return(w),
           UNCHANGED <<requests, reqCommitted, reqOwner>>
    PROVE  /\ Handled \subseteq Handled'
           /\ Uncommitted' \subseteq Uncommitted \cup {InHand(w)}
           /\ reqOwner[wwork[w].part] # w => Uncommitted' = Uncommitted
           /\ Strays' \subseteq Strays \ {w}
<1> DEFINE p == wwork[w].part
<1>2. /\ p \in RequestPartitions /\ wwork[w].off \in Nat
  BY BusyWork
<1>3. /\ \A v \in Workers \ {w} : wpc'[v] = wpc[v] /\ wwork'[v] = wwork[v]
      /\ wpc'[w] = "idle"
      /\ reqOwner[p] = w =>
            reqPosition'[p] = reqPosition[p] + 1 /\ reqPosition[p] = wwork[w].off
      /\ \A q \in RequestPartitions :
            q # p \/ reqOwner[q] # w => reqPosition'[q] = reqPosition[q]
  BY HandlerReturns
<1>5. /\ \A q \in RequestPartitions : reqPosition[q] \in Nat /\ reqPosition'[q] \in Nat
      /\ \A q \in RequestPartitions : reqPosition[q] <= reqPosition'[q]
  <2>1. \A q \in RequestPartitions : reqPosition[q] \in Nat
    BY DEF Typed, TypeOK
  <2> SUFFICES ASSUME NEW q \in RequestPartitions
               PROVE  reqPosition'[q] \in Nat /\ reqPosition[q] <= reqPosition'[q]
    BY <2>1
  <2>2. reqPosition[q] \in Nat
    BY <2>1
  <2>3. CASE q = p /\ reqOwner[q] = w
    <3>1. reqPosition'[q] = reqPosition[q] + 1
      BY <1>3, <2>3
    <3> QED BY <2>2, <3>1
  <2>4. CASE q # p \/ reqOwner[q] # w
    BY <1>3, <2>2, <2>4
  <2> QED BY <2>3, <2>4
<1>6. Handled \subseteq Handled'
  <2> SUFFICES ASSUME NEW a \in Handled, a \notin Handled' PROVE FALSE
    OBVIOUS
  <2>1. PICK v \in Workers :
            /\ wpc[v] = "commit" /\ wwork[v].part = PartitionOf(a.req)
            /\ reqOwner[wwork[v].part] = v /\ a.num = wwork[v].off + 1
            /\ ~(a.num <= reqPosition'[PartitionOf(a.req)])
            /\ ~(/\ wpc'[v] = "commit" /\ wwork'[v] = wwork[v]
                 /\ reqOwner'[wwork[v].part] = v)
    BY <1>5, StaysHandled
  <2>2. v = w
    BY <1>3, <2>1
  <2> QED BY <1>2, <1>3, <2>1, <2>2
<1>7. ASSUME NEW a \in Uncommitted', a \notin Uncommitted
      PROVE  a = InHand(w) /\ reqOwner[p] = w
  <2>1. /\ a \in Place /\ Asks(a) /\ reqCommitted[PartitionOf(a.req)] # NoOffset
        /\ reqCommitted[PartitionOf(a.req)] < a.num
        /\ a.num <= reqPosition'[PartitionOf(a.req)]
    BY DEF Uncommitted, Asks, Place, PartitionOf
  <2>2. /\ a.num \in Nat /\ PartitionOf(a.req) \in RequestPartitions
        /\ a = [num |-> a.num, req |-> a.req]
    BY <2>1, PlaceType
  <2>3. ~(a.num <= reqPosition[PartitionOf(a.req)])
    BY <1>7, <2>1 DEF Uncommitted
  <2>4. PartitionOf(a.req) = p /\ reqOwner[p] = w
    BY <1>3, <2>1, <2>2, <2>3
  <2>5. a.num = wwork[w].off + 1
    BY <1>2, <1>3, <2>1, <2>2, <2>3, <2>4
  <2>6. requests[p][a.num] = a.req
    BY <2>1, <2>4 DEF Asks
  <2> QED BY <2>2, <2>4, <2>5, <2>6 DEF InHand, Req
<1>8. reqOwner[p] # w => Uncommitted \subseteq Uncommitted'
  <2> SUFFICES ASSUME reqOwner[p] # w, NEW a \in Uncommitted
               PROVE  a \in Uncommitted'
    OBVIOUS
  <2>1. a \in Place /\ PartitionOf(a.req) \in RequestPartitions
    BY PlaceType DEF Uncommitted
  <2>2. reqPosition'[PartitionOf(a.req)] = reqPosition[PartitionOf(a.req)]
    BY <1>3, <2>1
  <2> QED BY <2>2 DEF Uncommitted, Asks, Place, PartitionOf
<1>9. Strays' \subseteq Strays \ {w}
  BY <1>3 DEF Strays
<1> QED BY <1>6, <1>7, <1>8, <1>9

(***************************************************************************)
(* commitOffsets rejects for garbage: the owner stays where it is, though  *)
(* the broker may have moved the offset past the message.                  *)
(***************************************************************************)
LEMMA ChargeGarbageRejects ==
    ASSUME Typed, Typed', InPlace, Charged, NEW w \in Workers, OffsetRejects(w),
           wpc[w] = "garbage", Faults <= Faults'
    PROVE  Charged'
<1> DEFINE p == wwork[w].part
<1>1. /\ EndHandler(w, "idle") /\ MayCommit(w)
      /\ UNCHANGED <<requests, reqOwner, reqPosition, results>>
  BY DEF OffsetRejects, Throw, MayCommit
<1>2. /\ \A v \in Workers \ {w} : wpc'[v] = wpc[v] /\ wwork'[v] = wwork[v]
      /\ wpc'[w] = "idle"
  BY <1>1 DEF EndHandler, Goto, Typed, TypeOK
<1>3. Handled \subseteq Handled'
  <2> SUFFICES ASSUME NEW a \in Handled PROVE a \in Handled'
    OBVIOUS
  <2> QED BY <1>1, <1>2, SamePositions, StaysHandled
<1>4. Strays' \subseteq Strays
  BY <1>1, <1>2 DEF Strays
<1>5. Uncommitted' \subseteq Uncommitted
  <2>1. CASE UNCHANGED reqCommitted
    BY <1>1, <2>1, SameUncommitted
  <2>2. CASE Group!CommitAccepted(p, w, wwork[w].off)
    <3>1. p \in RequestPartitions /\ wwork[w].off \in Nat /\ Busy(w)
      BY BusyWork DEF Busy
    <3>2. reqPosition[p] = wwork[w].off
      BY <2>2, <3>1 DEF InPlace, Group!CommitAccepted
    <3>3. /\ reqCommitted'[p] = wwork[w].off + 1
          /\ \A q \in RequestPartitions \ {p} : reqCommitted'[q] = reqCommitted[q]
      BY <2>2, <3>1 DEF Group!CommitAccepted, Typed, TypeOK
    <3> SUFFICES ASSUME NEW a \in Uncommitted' PROVE a \in Uncommitted
      OBVIOUS
    <3>4. /\ a \in Place /\ Asks(a) /\ reqCommitted'[PartitionOf(a.req)] # NoOffset
          /\ reqCommitted'[PartitionOf(a.req)] < a.num
          /\ a.num <= reqPosition[PartitionOf(a.req)]
      BY <1>1 DEF Uncommitted, Asks, Place, PartitionOf
    <3>5. a.num \in Nat /\ PartitionOf(a.req) \in RequestPartitions
      BY <3>4, PlaceType
    <3>6. PartitionOf(a.req) # p
      <4> HIDE DEF p
      <4> QED BY <3>1, <3>2, <3>3, <3>4, <3>5
    <3> QED BY <3>3, <3>4, <3>5, <3>6 DEF Uncommitted
  <2> QED BY <1>1, <2>1, <2>2 DEF MayCommit
<1> QED BY <1>1, <1>3, <1>4, <1>5, RepliesSame, FreeStep

LEMMA ChargeOffsetRejects ==
    ASSUME Typed, Typed', InPlace, Charged, NEW w \in Workers, OffsetRejects(w)
    PROVE  Charged'
<1>1. /\ Busy(w) /\ UNCHANGED <<requests, reqOwner, results, stops, evictions>>
      /\ wpc[w] \in {"commit", "garbage"}
  BY DEF OffsetRejects, CommitsOffset, Busy
<1>2. Replies' = Replies
  BY <1>1, RepliesSame
<1>3. Faults <= Faults'
  BY <1>1, OneFault, SameFaults, FaultsType DEF OffsetRejects, faultVars
<1>4. CASE wpc[w] = "garbage"
  BY <1>3, <1>4, ChargeGarbageRejects
<1>5. CASE wpc[w] = "commit" /\ Group!CommitAccepted(wwork[w].part, w, wwork[w].off)
  BY <1>1, <1>2, <1>3, <1>5, ReturnsCommitted, FreeStep DEF OffsetRejects
<1>6. CASE wpc[w] = "commit" /\ UNCHANGED reqCommitted
  <2>1. Return(w)
    BY <1>6 DEF OffsetRejects
  <2>2. /\ Handled \subseteq Handled'
        /\ Uncommitted' \subseteq Uncommitted \cup {InHand(w)}
        /\ reqOwner[wwork[w].part] # w => Uncommitted' = Uncommitted
        /\ Strays' \subseteq Strays
    BY <1>1, <1>6, <2>1, ReturnsUncommitted
  <2>3. CASE RemoteFailure
    <3>1. Faults' = Faults + 1
      BY <1>1, <2>3, OneFault
    <3> QED BY <1>2, <2>2, <3>1, PaidStep
  <2>4. CASE reqOwner[wwork[w].part] # w
    BY <1>2, <1>3, <2>2, <2>4, FreeStep
  <2> QED BY <2>3, <2>4 DEF OffsetRejects, Group!CommitRefused
<1> QED BY <1>1, <1>4, <1>5, <1>6 DEF OffsetRejects

LEMMA ChargeStop ==
    ASSUME Typed, Typed', Charged, NEW w \in Workers, StopWorker(w)
    PROVE  Charged'
<1>1. /\ EndHandler(w, "down") /\ stops' = stops + 1
      /\ UNCHANGED <<requests, reqCommitted, reqPosition, results, failures, evictions>>
      /\ \A q \in RequestPartitions :
             reqOwner'[q] = IF reqOwner[q] = w THEN Nobody ELSE reqOwner[q]
  BY DEF StopWorker, Group!Leave
<1>2. /\ \A v \in Workers \ {w} : wpc'[v] = wpc[v] /\ wwork'[v] = wwork[v]
      /\ wpc'[w] = "down"
  BY <1>1 DEF EndHandler, Goto, Typed, TypeOK
<1>3. Replies' = Replies /\ Uncommitted' = Uncommitted
  BY <1>1, RepliesSame, SameUncommitted
<1>4. Handled \subseteq Handled' \cup {InHand(w)}
  <2> SUFFICES ASSUME NEW a \in Handled, a \notin Handled' PROVE a = InHand(w)
    OBVIOUS
  <2>1. PICK v \in Workers :
            /\ wpc[v] = "commit" /\ wwork[v].part = PartitionOf(a.req)
            /\ reqOwner[wwork[v].part] = v /\ a = InHand(v)
            /\ ~(/\ wpc'[v] = "commit" /\ wwork'[v] = wwork[v]
                 /\ reqOwner'[wwork[v].part] = v)
    BY <1>1, SamePositions, StaysHandled
  <2>2. wwork[v].part \in RequestPartitions
    BY <2>1, BusyWork DEF Busy
  <2>3. v = w
    BY <1>1, <1>2, <2>1, <2>2
  <2> QED BY <2>1, <2>3
<1>5. Strays' \subseteq Strays
  <2> SUFFICES ASSUME NEW v \in Strays' PROVE v \in Strays
    OBVIOUS
  <2>1. v \in Workers /\ v # w /\ wpc[v] \in {"crawl", "produce"}
        /\ reqOwner'[wwork[v].part] # v
    BY <1>2 DEF Strays
  <2>2. wwork[v].part \in RequestPartitions
    BY <2>1, BusyWork DEF Busy
  <2> QED BY <1>1, <2>1, <2>2 DEF Strays
<1>6. Faults' = Faults + 1
  BY <1>1 DEF Faults, Typed, TypeOK
<1> QED BY <1>3, <1>4, <1>5, <1>6, PaidStep

LEMMA ChargeEvict ==
    ASSUME Typed, Typed', Charged, NEW p \in RequestPartitions, EvictRequests(p)
    PROVE  Charged'
<1>1. /\ UNCHANGED <<requests, reqCommitted, reqPosition, results, wpc, wwork, failures, stops>>
      /\ evictions' = evictions + 1 /\ reqOwner[p] # Nobody
      /\ reqOwner'[p] = Nobody
      /\ \A q \in RequestPartitions \ {p} : reqOwner'[q] = reqOwner[q]
  BY DEF EvictRequests, Group!Evict, workerVars, Typed, TypeOK
<1> DEFINE w == reqOwner[p]
<1>2. w \in Workers
  BY <1>1 DEF Typed, TypeOK
<1>3. Replies' = Replies /\ Uncommitted' = Uncommitted
  BY <1>1, RepliesSame, SameUncommitted
<1>4. ASSUME NEW a \in Handled, a \notin Handled'
      PROVE  a = InHand(w) /\ wpc[w] = "commit" /\ wwork[w].part = p
  <2>1. PICK v \in Workers :
            /\ wpc[v] = "commit" /\ wwork[v].part = PartitionOf(a.req)
            /\ reqOwner[wwork[v].part] = v /\ a = InHand(v)
            /\ ~(/\ wpc'[v] = "commit" /\ wwork'[v] = wwork[v]
                 /\ reqOwner'[wwork[v].part] = v)
    BY <1>1, <1>4, SamePositions, StaysHandled
  <2>2. wwork[v].part \in RequestPartitions
    BY <2>1, BusyWork DEF Busy
  <2>3. wwork[v].part = p /\ v = w
    BY <1>1, <2>1, <2>2
  <2> QED BY <2>1, <2>3
<1>5. ASSUME NEW v \in Strays', v \notin Strays
      PROVE  v = w /\ wpc[w] # "commit"
  <2>1. /\ v \in Workers /\ wpc[v] \in {"crawl", "produce"}
        /\ reqOwner'[wwork[v].part] # v /\ reqOwner[wwork[v].part] = v
    BY <1>1, <1>5 DEF Strays
  <2>2. wwork[v].part \in RequestPartitions
    BY <2>1, BusyWork DEF Busy
  <2> QED BY <1>1, <2>1, <2>2
<1>6. Faults' = Faults + 1
  BY <1>1 DEF Faults, Typed, TypeOK
<1>7. CASE wpc[w] = "commit"
  <2>1. Handled \subseteq Handled' \cup {InHand(w)} /\ Strays' \subseteq Strays
    BY <1>4, <1>5, <1>7
  <2> QED BY <1>3, <1>6, <2>1, PaidStep
<1>8. CASE wpc[w] # "commit"
  <2>1. Handled \subseteq Handled' /\ Strays' \subseteq Strays \cup {w}
    BY <1>4, <1>5, <1>8
  <2> QED BY <1>3, <1>6, <2>1, PaidStep
<1> QED BY <1>7, <1>8

LEMMA ChargeAssign ==
    ASSUME Typed, Typed', InPlace, Charged, NEW p \in RequestPartitions, NEW w \in Workers,
           AssignRequests(p, w)
    PROVE  Charged'
<1>1. /\ wpc[w] = "idle" /\ UNCHANGED <<requests, reqCommitted, results, wpc, wwork, faultVars>>
      /\ reqOwner[p] = Nobody
      /\ reqOwner' = [reqOwner EXCEPT ![p] = w]
      /\ reqPosition' = [reqPosition EXCEPT ![p] = Group!StartOffset(p)]
  BY DEF AssignRequests, Group!Assign, workerVars
<1>2. /\ reqPosition'[p] = Group!StartOffset(p) /\ reqOwner'[p] = w
      /\ \A q \in RequestPartitions \ {p} :
             reqPosition'[q] = reqPosition[q] /\ reqOwner'[q] = reqOwner[q]
  BY <1>1 DEF Typed, TypeOK
<1>3. /\ Len(requests[p]) \in Nat /\ reqPosition[p] \in Nat
      /\ reqCommitted[p] # NoOffset => reqCommitted[p] \in Nat
      /\ reqPosition[p] <= Len(requests[p])
  BY DEF Typed, TypeOK, InPlace
<1> DEFINE X == {a \in Uncommitted : PartitionOf(a.req) = p}
<1>4. Handled \subseteq Handled' \cup X
  <2> SUFFICES ASSUME NEW a \in Handled, a \notin Handled' PROVE a \in X
    OBVIOUS
  <2> DEFINE q == PartitionOf(a.req)
  <2>1. a \in Place /\ Asks(a) /\ (a.num <= reqPosition[q] \/ AboutToCommit(q, a.num))
    BY DEF Handled
  <2>2. a.num \in Nat /\ q \in RequestPartitions
    BY <2>1, PlaceType
  <2>3. Asks(a)' /\ PartitionOf(a.req)' = q
    BY <1>1, <2>1 DEF Asks, PartitionOf
  <2>4. CASE q # p
    <3>1. AboutToCommit(q, a.num) => AboutToCommit(q, a.num)'
      BY <1>1, <1>2, <2>2, <2>3, <2>4 DEF AboutToCommit
    <3> QED BY <1>2, <2>1, <2>2, <2>3, <2>4, <3>1 DEF Handled
  <2>5. CASE q = p
    <3>1. ~AboutToCommit(p, a.num)
      BY <1>1, WorkerAssumption DEF AboutToCommit
    <3>2. a.num <= reqPosition[p] /\ a.num <= Len(requests[p])
      BY <1>3, <2>1, <2>2, <2>5, <3>1
    <3>3. ~(a.num <= reqPosition'[p])
      BY <2>1, <2>3, <2>5 DEF Handled
    <3>4. reqCommitted[p] # NoOffset /\ reqCommitted[p] < a.num
      BY <1>2, <1>3, <2>2, <3>2, <3>3 DEF Group!StartOffset
    <3> QED BY <2>1, <2>5, <3>2, <3>4 DEF Uncommitted
  <2> QED BY <2>4, <2>5
<1>5. Uncommitted' \subseteq Uncommitted \ X
  <2> SUFFICES ASSUME NEW a \in Uncommitted' PROVE a \in Uncommitted \ X
    OBVIOUS
  <2>1. /\ a \in Place /\ Asks(a) /\ reqCommitted[PartitionOf(a.req)] # NoOffset
        /\ reqCommitted[PartitionOf(a.req)] < a.num
        /\ a.num <= reqPosition'[PartitionOf(a.req)]
    BY <1>1 DEF Uncommitted, Asks, Place, PartitionOf
  <2>2. /\ a.num \in Nat /\ PartitionOf(a.req) \in RequestPartitions
    BY <2>1, PlaceType
  <2>3. PartitionOf(a.req) # p
    BY <1>2, <1>3, <2>1, <2>2 DEF Group!StartOffset
  <2> QED BY <1>2, <2>1, <2>2, <2>3 DEF Uncommitted
<1>6. Strays' \subseteq Strays
  <2> SUFFICES ASSUME NEW v \in Strays' PROVE v \in Strays
    OBVIOUS
  <2>1. /\ v \in Workers /\ wpc[v] \in {"crawl", "produce"}
        /\ reqOwner'[wwork[v].part] # v
    BY <1>1 DEF Strays
  <2>2. wwork[v].part \in RequestPartitions
    BY <2>1, BusyWork DEF Busy
  <2> QED BY <1>1, <1>2, <2>1, <2>2, WorkerAssumption DEF Strays
<1>7. X \subseteq Uncommitted
  OBVIOUS
<1>8. Replies' = Replies /\ Faults' = Faults
  BY <1>1, RepliesSame, SameFaults
<1> HIDE DEF X
<1> QED BY <1>4, <1>5, <1>6, <1>7, <1>8, RewindStep

LEMMA ChargeArrivals ==
    ASSUME Typed, Typed', InPlace, Charged, Arrivals, GroupStays, Faults <= Faults'
    PROVE  Charged'
<1>1. UNCHANGED <<reqCommitted, reqOwner, reqPosition, results, wpc, wwork>>
  BY DEF GroupStays, workerVars
<1>2. \A a \in Place : Asks(a) => Asks(a)'
  <2> SUFFICES ASSUME NEW a \in Place, Asks(a) PROVE Asks(a)'
    OBVIOUS
  <2> DEFINE q == PartitionOf(a.req)
  <2>1. q \in RequestPartitions /\ PartitionOf(a.req)' = q
    BY PlaceType DEF PartitionOf
  <2>2. a.num \in 1..Len(requests[q]) /\ requests[q][a.num] = a.req
    BY DEF Asks
  <2>3. /\ Len(requests'[q]) \in Nat /\ Len(requests[q]) <= Len(requests'[q])
        /\ \A o \in 1..Len(requests[q]) : requests'[q][o] = requests[q][o]
    BY <2>1 DEF Arrivals
  <2>3b. Len(requests[q]) \in Nat
    BY <2>1 DEF Typed, TypeOK
  <2>4. a.num \in 1..Len(requests'[q])
    <3> HIDE DEF q
    <3> QED BY <2>2, <2>3, <2>3b
  <2> QED BY <2>1, <2>2, <2>3, <2>4 DEF Asks
<1>3. Handled \subseteq Handled'
  <2> SUFFICES ASSUME NEW a \in Handled PROVE a \in Handled'
    OBVIOUS
  <2>1. AboutToCommit(PartitionOf(a.req), a.num) => AboutToCommit(PartitionOf(a.req), a.num)'
    BY <1>1 DEF AboutToCommit, PartitionOf
  <2> QED BY <1>1, <1>2, <2>1 DEF Handled, PartitionOf
<1>4. Uncommitted' \subseteq Uncommitted
  <2> SUFFICES ASSUME NEW a \in Uncommitted' PROVE a \in Uncommitted
    OBVIOUS
  <2> DEFINE q == PartitionOf(a.req)
  <2>1. /\ a \in Place /\ Asks(a)' /\ reqCommitted[q] # NoOffset
        /\ reqCommitted[q] < a.num /\ a.num <= reqPosition[q]
    BY <1>1 DEF Uncommitted, Place, PartitionOf
  <2>2. a.num \in Nat /\ q \in RequestPartitions /\ PartitionOf(a.req)' = q
    BY <2>1, PlaceType DEF PartitionOf
  <2>3. /\ a.num \in 1..Len(requests'[q]) /\ requests'[q][a.num] = a.req
    BY <2>1, <2>2 DEF Asks
  <2>4. reqPosition[q] <= Len(requests[q]) /\ Len(requests[q]) \in Nat /\ reqPosition[q] \in Nat
    BY <2>2 DEF InPlace, Typed, TypeOK
  <2>5. a.num \in 1..Len(requests[q])
    <3>1. 1 <= a.num
      BY <2>3
    <3> HIDE DEF q
    <3> QED BY <2>1, <2>2, <2>4, <3>1
  <2>6. requests'[q][a.num] = requests[q][a.num]
    BY <2>2, <2>5 DEF Arrivals
  <2>7. Asks(a)
    BY <2>3, <2>5, <2>6 DEF Asks
  <2> QED BY <2>1, <2>7 DEF Uncommitted
<1>5. Strays' \subseteq Strays
  BY <1>1 DEF Strays
<1> QED BY <1>1, <1>3, <1>4, <1>5, RepliesSame, FreeStep
-----------------------------------------------------------------------------
(***************************************************************************)
(* The i-th result that w appends.                                         *)
(***************************************************************************)
Fresh(w, i) ==
    [num |-> Len(results[ResultPartition[Req(w).url]]) + i, req |-> Req(w)]

LEMMA RepliesGrow ==
    ASSUME Typed, NEW w \in Workers, wpc[w] = "produce", NEW n \in {0, 1, 2},
           AppendResult(w, n)
    PROVE  /\ Fresh(w, 1) \notin Replies
           /\ Fresh(w, 2) \notin Replies \cup {Fresh(w, 1)}
           /\ n = 0 => Replies' = Replies
           /\ n = 1 => Replies' = Replies \cup {Fresh(w, 1)}
           /\ n = 2 => Replies' = (Replies \cup {Fresh(w, 1)}) \cup {Fresh(w, 2)}
<1> DEFINE rp == ResultPartition[Req(w).url]
           log == results[rp]
           new == [i \in 1..n |-> Answer(w)]
<1>1. Req(w) \in Request /\ wresult[w] \in {"ok", "error"}
  BY ReqType DEF Busy, Typed, HandlerHasWork
<1>2. rp \in ResultPartitions /\ Answer(w) \in Event
  BY <1>1, WorkerAssumption DEF Request, Answer, Event
<1>3. /\ log \in Seq(Event) /\ new \in Seq(Event) /\ Len(new) = n
      /\ \A i \in 1..n : new[i] = Answer(w)
  <2>1. log \in Seq(Event)
    BY <1>2 DEF Typed, TypeOK
  <2>2. n \in Nat
    OBVIOUS
  <2> HIDE DEF log
  <2> QED BY <1>2, <2>1, <2>2
<1>4. /\ results' = [results EXCEPT ![rp] = log \o new]
      /\ results \in [ResultPartitions -> Seq(Event)]
  BY DEF AppendResult, Typed, TypeOK
<1>5. /\ results'[rp] = log \o new
      /\ \A q \in ResultPartitions \ {rp} : results'[q] = results[q]
  BY <1>2, <1>4
<1>6. Len(log) \in Nat /\ n \in Nat
  BY <1>3
<1>7. /\ Len(log \o new) = Len(log) + n
      /\ \A o \in 1..Len(log) : (log \o new)[o] = log[o]
      /\ \A o \in (Len(log) + 1)..(Len(log) + n) : (log \o new)[o] = Answer(w)
  <2>1. /\ Len(log \o new) = Len(log) + Len(new)
        /\ \A o \in 1..(Len(log) + Len(new)) :
               (log \o new)[o] = IF o <= Len(log) THEN log[o] ELSE new[o - Len(log)]
    <3> HIDE DEF log, new
    <3> QED BY <1>3, ConcatProperties, Zenon
  <2> HIDE DEF log, new
  <2> QED BY <1>3, <1>6, <2>1
<1>8. ASSUME NEW a \in Place
      PROVE  a \in Replies' <=> \/ a \in Replies
                                \/ a.req = Req(w) /\ a.num \in (Len(log) + 1)..(Len(log) + n)
  <2>1. /\ a.num \in Nat /\ a.req \in Request
        /\ ResultPartition[a.req.url] \in ResultPartitions
    BY PlaceType
  <2>2. /\ a \in Replies <=> a.num \in Answers(a.req)
        /\ a \in Replies' <=> a.num \in Answers(a.req)'
    BY DEF Replies, Place
  <2>3. CASE ResultPartition[a.req.url] # rp
    <3>1. Answers(a.req)' = Answers(a.req)
      BY <1>5, <2>1, <2>3 DEF Answers
    <3> QED BY <2>2, <2>3, <3>1
  <2>4. CASE ResultPartition[a.req.url] = rp
    <3>1. Answer(w).job = a.req.job /\ Answer(w).url = a.req.url <=> a.req = Req(w)
      BY <1>1, <2>1 DEF Answer, Request
    <3>2. a.num \in Answers(a.req) <=>
              a.num \in 1..Len(log) /\ log[a.num].job = a.req.job /\ log[a.num].url = a.req.url
      BY <2>4 DEF Answers
    <3>3. a.num \in Answers(a.req)' <=>
              /\ a.num \in 1..Len(log \o new)
              /\ (log \o new)[a.num].job = a.req.job /\ (log \o new)[a.num].url = a.req.url
      BY <1>5, <2>4 DEF Answers
    <3> HIDE DEF log, new, rp
    <3> QED BY <1>6, <1>7, <2>1, <2>2, <3>1, <3>2, <3>3
  <2> QED BY <2>3, <2>4
<1>9. \A i \in {1, 2} : /\ Fresh(w, i) \in Place
                        /\ Fresh(w, i).num = Len(log) + i /\ Fresh(w, i).req = Req(w)
  BY <1>1, <1>6 DEF Fresh, Place
<1>10. \A i \in {1, 2} : Fresh(w, i) \notin Replies
  <2>1. \A i \in {1, 2} : Len(log) + i \notin 1..Len(log)
    BY <1>6
  <2> QED BY <1>9, <2>1 DEF Replies, Answers
<1>11. Fresh(w, 1) # Fresh(w, 2)
  <2>1. Len(log) + 1 # Len(log) + 2
    BY <1>6
  <2> QED BY <1>9, <2>1
<1>12. ASSUME NEW a \in Place, a.req = Req(w), NEW i \in {1, 2}, a.num = Len(log) + i
       PROVE  a = Fresh(w, i)
  BY <1>12, PlaceType DEF Fresh
<1>13. Replies \subseteq Place /\ Replies' \subseteq Place
  BY DEF Replies, Place
<1> HIDE DEF log, new, rp
<1>14. CASE n = 0
  <2>1. (Len(log) + 1)..(Len(log) + n) = {}
    BY <1>6, <1>14
  <2>2. Replies' = Replies
    BY <1>8, <1>13, <2>1
  <2> QED BY <1>10, <1>11, <1>14, <2>2
<1>15. CASE n = 1
  <2>1. (Len(log) + 1)..(Len(log) + n) = {Len(log) + 1}
    BY <1>6, <1>15
  <2>2. Replies' = Replies \cup {Fresh(w, 1)}
    BY <1>8, <1>9, <1>12, <1>13, <2>1
  <2> QED BY <1>10, <1>11, <1>15, <2>2
<1>16. CASE n = 2
  <2>1. (Len(log) + 1)..(Len(log) + n) = {Len(log) + 1, Len(log) + 2}
    BY <1>6, <1>16
  <2>2. Replies' = (Replies \cup {Fresh(w, 1)}) \cup {Fresh(w, 2)}
    BY <1>8, <1>9, <1>12, <1>13, <2>1
  <2> QED BY <1>10, <1>11, <1>16, <2>2
<1> QED BY <1>14, <1>15, <1>16

(***************************************************************************)
(* An owner that has published has handled the message in its hands.       *)
(***************************************************************************)
LEMMA PublishedIsHandled ==
    ASSUME Typed, InPlace, NEW w \in Workers, wpc[w] = "produce",
           reqOwner[wwork[w].part] = w, requests' = requests,
           \/ wpc'[w] = "commit" /\ UNCHANGED <<wwork, reqOwner>>
           \/ reqPosition'[wwork[w].part] = reqPosition[wwork[w].part] + 1
    PROVE  InHand(w) \notin Handled /\ InHand(w) \in Handled'
<1> SUFFICES ASSUME NEW p, p = wwork[w].part, NEW x, x = InHand(w)
             PROVE  x \notin Handled /\ x \in Handled'
  OBVIOUS
<1>1. /\ p \in RequestPartitions /\ wwork[w].off \in Nat
      /\ Len(requests[p]) \in Nat /\ wwork[w].off + 1 <= Len(requests[p])
      /\ Busy(w)
  BY BusyWork DEF Busy
<1>2. Req(w) \in Request /\ PartitionOf(Req(w)) = p
  BY <1>1, ReqType
<1>3. x \in Place /\ x.num = wwork[w].off + 1 /\ x.req = Req(w)
  BY <1>1, <1>2 DEF InHand, Place
<1>4. reqPosition[p] = wwork[w].off
  BY <1>1 DEF InPlace
<1>5. Asks(x)
  <2>1. x.num \in 1..Len(requests[p])
    BY <1>1, <1>3
  <2> QED BY <1>2, <1>3, <2>1 DEF Asks, Req
<1>6. x \notin Handled
  <2>1. ~(x.num <= reqPosition[p])
    BY <1>1, <1>3, <1>4
  <2>2. ~AboutToCommit(p, x.num)
    BY DEF AboutToCommit
  <2> QED BY <1>2, <1>3, <2>1, <2>2 DEF Handled
<1>7. Asks(x)' /\ PartitionOf(x.req)' = p
  BY <1>2, <1>3, <1>5 DEF Asks, PartitionOf
<1>8. x.num <= reqPosition'[p] \/ AboutToCommit(p, x.num)'
  <2>1. CASE wpc'[w] = "commit" /\ UNCHANGED <<wwork, reqOwner>>
    BY <1>3, <2>1 DEF AboutToCommit
  <2>2. CASE reqPosition'[p] = reqPosition[p] + 1
    BY <1>1, <1>3, <1>4, <2>2
  <2> QED BY <2>1, <2>2
<1>9. x \in Handled'
  BY <1>3, <1>7, <1>8 DEF Handled, Place
<1> QED BY <1>6, <1>9

(***************************************************************************)
(* The result of an owner is the one its request asked for.                *)
(***************************************************************************)
LEMMA CoveredReply ==
    ASSUME NEW n \in Nat, Covered(Replies, Handled, n), NEW w,
           Fresh(w, 1) \notin Replies, InHand(w) \notin Handled,
           InHand(w) \in Handled', Handled \subseteq Handled'
    PROVE  Covered(Replies \cup {Fresh(w, 1)}, Handled', n)
<1>1. Fresh(w, 1).req = InHand(w).req
  BY DEF Fresh, InHand
<1>2. Covered(Replies \cup {Fresh(w, 1)}, Handled \cup {InHand(w)}, n)
  BY <1>1, CoveredPair
<1>3. Handled \cup {InHand(w)} \subseteq Handled'
  OBVIOUS
<1> QED BY <1>2, <1>3, CoveredByMore

LEMMA ProduceBudget ==
    ASSUME NEW n \in Nat, NEW u \in Nat, NEW s \in Nat, NEW f \in Nat,
           NEW m \in Nat, NEW t \in Nat, NEW g \in Nat, n + u + s <= f,
           \/ m = n /\ t <= s /\ g = f
           \/ m = n + 1 /\ t <= s /\ g = f + 1
           \/ m = n + 1 /\ t <= s - 1 /\ g = f
           \/ m = n + 2 /\ t <= s - 1 /\ g = f + 1
    PROVE  m + u + t <= g
OBVIOUS

LEMMA ChargeProduce ==
    ASSUME Typed, Typed', InPlace, Charged, NEW w \in Workers, Produce(w)
    PROVE  Charged'
<1>1. /\ wpc[w] = "produce" /\ wpc' = [wpc EXCEPT ![w] = "commit"]
      /\ UNCHANGED <<requests, reqCommitted, reqOwner, reqPosition, wwork, stops, evictions>>
  BY DEF Produce, Goto, requestVars
<1>2. wpc'[w] = "commit" /\ \A v \in Workers \ {w} : wpc'[v] = wpc[v]
  BY <1>1 DEF Typed, TypeOK
<1>3. Handled \subseteq Handled'
  <2> SUFFICES ASSUME NEW a \in Handled PROVE a \in Handled'
    OBVIOUS
  <2> QED BY <1>1, <1>2, SamePositions, StaysHandled
<1>4. Uncommitted' = Uncommitted
  BY <1>1, SameUncommitted
<1>5. Strays' \subseteq Strays \ {w}
  BY <1>1, <1>2 DEF Strays
<1>6. PICK n \in Nat : /\ Covered(Replies, Handled, n)
                       /\ n + Cardinality(Uncommitted) + Cardinality(Strays) <= Faults
  BY DEF Charged
<1>7. /\ IsFiniteSet(Uncommitted) /\ IsFiniteSet(Strays)
      /\ Cardinality(Uncommitted) \in Nat /\ Cardinality(Strays) \in Nat
  BY FS_CardinalityType DEF Charged
<1>8. /\ IsFiniteSet(Strays \ {w}) /\ Cardinality(Strays \ {w}) \in Nat
      /\ w \in Strays => Cardinality(Strays \ {w}) = Cardinality(Strays) - 1
      /\ Cardinality(Strays \ {w}) <= Cardinality(Strays)
  BY <1>7, FS_RemoveElement, SmallSubset
<1>9. /\ IsFiniteSet(Strays') /\ Cardinality(Strays') \in Nat
      /\ Cardinality(Strays') <= Cardinality(Strays)
      /\ w \in Strays => Cardinality(Strays') <= Cardinality(Strays) - 1
  <2>1. /\ IsFiniteSet(Strays') /\ Cardinality(Strays') \in Nat
        /\ Cardinality(Strays') <= Cardinality(Strays \ {w})
    BY <1>5, <1>8, SmallSubset
  <2> QED BY <1>7, <1>8, <2>1
<1>10. Faults \in Nat /\ Faults' \in Nat
  BY FaultsType
<1>11. \/ /\ AppendResult(w, 1) /\ Faults' = Faults
          /\ Replies' = Replies \cup {Fresh(w, 1)}
       \/ /\ AppendResult(w, 2) /\ Faults' = Faults + 1
          /\ Replies' = (Replies \cup {Fresh(w, 1)}) \cup {Fresh(w, 2)}
  <2>1. CASE AppendResult(w, 1) /\ UNCHANGED failures
    <3>1. Faults' = Faults
      BY <1>1, <2>1 DEF Faults
    <3> QED BY <1>1, <2>1, <3>1, RepliesGrow
  <2>2. CASE AppendResult(w, 2) /\ RemoteFailure
    BY <1>1, <2>2, OneFault, RepliesGrow
  <2> QED BY <2>1, <2>2 DEF Produce
<1>12. /\ Fresh(w, 1) \notin Replies
       /\ Fresh(w, 2) \notin Replies \cup {Fresh(w, 1)}
  BY <1>1, <1>11, RepliesGrow
<1> DEFINE e == IF w \in Strays THEN 1 ELSE 0
<1>13. Covered(Replies \cup {Fresh(w, 1)}, Handled', n + e)
  <2>1. CASE w \in Strays
    <3>1. Covered(Replies, Handled', n)
      BY <1>3, <1>6, CoveredByMore
    <3> QED BY <1>12, <2>1, <3>1, CoveredExtra
  <2>2. CASE w \notin Strays
    <3>1. reqOwner[wwork[w].part] = w
      BY <1>1, <2>2 DEF Strays
    <3>2. InHand(w) \notin Handled /\ InHand(w) \in Handled'
      BY <1>1, <1>2, <3>1, PublishedIsHandled
    <3>3. Covered(Replies \cup {Fresh(w, 1)}, Handled', n)
      BY <1>3, <1>6, <1>12, <3>2, CoveredReply
    <3> QED BY <2>2, <3>3
  <2> QED BY <2>1, <2>2
<1>14. \E m \in Nat : /\ Covered(Replies', Handled', m)
                      /\ m + Cardinality(Uncommitted) + Cardinality(Strays') <= Faults'
  <2>1. e \in Nat /\ n + e \in Nat /\ (n + e) + 1 \in Nat
    OBVIOUS
  <2>2. \/ /\ e = 0
           /\ Cardinality(Strays') <= Cardinality(Strays)
        \/ /\ e = 1
           /\ Cardinality(Strays') <= Cardinality(Strays) - 1
    <3>1. CASE w \in Strays
      BY <1>9, <3>1
    <3>2. CASE w \notin Strays
      BY <1>9, <3>2
    <3> QED BY <3>1, <3>2
  <2> HIDE DEF e
  <2>3. CASE /\ Faults' = Faults /\ Replies' = Replies \cup {Fresh(w, 1)}
    <3>1. Covered(Replies', Handled', n + e)
      BY <1>13, <2>3
    <3>2. (n + e) + Cardinality(Uncommitted) + Cardinality(Strays') <= Faults'
      BY <1>6, <1>7, <1>9, <1>10, <2>1, <2>2, <2>3, ProduceBudget
    <3> QED BY <2>1, <3>1, <3>2
  <2>4. CASE /\ Faults' = Faults + 1
             /\ Replies' = (Replies \cup {Fresh(w, 1)}) \cup {Fresh(w, 2)}
    <3>1. Covered(Replies', Handled', (n + e) + 1)
      BY <1>12, <1>13, <2>1, <2>4, CoveredExtra
    <3>2. ((n + e) + 1) + Cardinality(Uncommitted) + Cardinality(Strays') <= Faults'
      BY <1>6, <1>7, <1>9, <1>10, <2>1, <2>2, <2>4, ProduceBudget
    <3> QED BY <2>1, <3>1, <3>2
  <2> QED BY <1>11, <2>3, <2>4
<1>15. PICK m \in Nat : /\ Covered(Replies', Handled', m)
                        /\ m + Cardinality(Uncommitted') + Cardinality(Strays') <= Faults'
  BY <1>4, <1>14
<1>16. IsFiniteSet(Uncommitted')
  BY <1>4, <1>7
<1> QED BY <1>9, <1>15, <1>16 DEF Charged

LEMMA RejectBudget ==
    ASSUME NEW n \in Nat, NEW u \in Nat, NEW s \in Nat, NEW f \in Nat,
           NEW m \in Nat, NEW v \in Nat, NEW t \in Nat, NEW g \in Nat,
           n + u + s <= f, g = f + 1, t <= s,
           (m = n /\ v <= u + 1) \/ (m = n + 1 /\ v <= u)
    PROVE  m + v + t <= g
OBVIOUS

LEMMA ChargeProduceRejects ==
    ASSUME Typed, Typed', InPlace, Charged, NEW w \in Workers, ProduceRejects(w)
    PROVE  Charged'
<1>1. /\ wpc[w] = "produce" /\ Busy(w) /\ Return(w) /\ RemoteFailure
      /\ UNCHANGED <<requests, reqCommitted, reqOwner, stops, evictions>>
  BY DEF ProduceRejects, Busy
<1>2. /\ Handled \subseteq Handled'
      /\ Uncommitted' \subseteq Uncommitted \cup {InHand(w)}
      /\ reqOwner[wwork[w].part] # w => Uncommitted' = Uncommitted
      /\ Strays' \subseteq Strays
  BY <1>1, ReturnsUncommitted
<1>3. Faults' = Faults + 1 /\ Faults \in Nat /\ Faults' \in Nat
  BY <1>1, OneFault, FaultsType
<1>4. PICK i \in {0, 1} : AppendResult(w, i)
  BY DEF ProduceRejects
<1>5. /\ Fresh(w, 1) \notin Replies
      /\ i = 0 => Replies' = Replies
      /\ i = 1 => Replies' = Replies \cup {Fresh(w, 1)}
  BY <1>1, <1>4, RepliesGrow
<1>6. PICK n \in Nat : /\ Covered(Replies, Handled, n)
                       /\ n + Cardinality(Uncommitted) + Cardinality(Strays) <= Faults
  BY DEF Charged
<1>7. /\ IsFiniteSet(Uncommitted) /\ IsFiniteSet(Strays)
      /\ Cardinality(Uncommitted) \in Nat /\ Cardinality(Strays) \in Nat
      /\ IsFiniteSet(Uncommitted \cup {InHand(w)})
      /\ Cardinality(Uncommitted \cup {InHand(w)}) \in Nat
      /\ Cardinality(Uncommitted \cup {InHand(w)}) <= Cardinality(Uncommitted) + 1
  BY FS_CardinalityType, OneMore DEF Charged
<1>8. /\ IsFiniteSet(Uncommitted') /\ Cardinality(Uncommitted') \in Nat
      /\ Cardinality(Uncommitted') <= Cardinality(Uncommitted) + 1
  <2>1. /\ IsFiniteSet(Uncommitted') /\ Cardinality(Uncommitted') \in Nat
        /\ Cardinality(Uncommitted') <= Cardinality(Uncommitted \cup {InHand(w)})
    BY <1>2, <1>7, SmallSubset
  <2> QED BY <1>7, <2>1
<1>9. /\ IsFiniteSet(Strays') /\ Cardinality(Strays') \in Nat
      /\ Cardinality(Strays') <= Cardinality(Strays)
  BY <1>2, <1>7, SmallSubset
<1>10. Covered(Replies, Handled', n)
  BY <1>2, <1>6, CoveredByMore
<1>11. CASE i = 0
  <2>1. Covered(Replies', Handled', n)
    BY <1>5, <1>10, <1>11
  <2>2. n + Cardinality(Uncommitted') + Cardinality(Strays') <= Faults'
    BY <1>3, <1>6, <1>7, <1>8, <1>9, RejectBudget
  <2> QED BY <1>8, <1>9, <2>1, <2>2 DEF Charged
<1>12. CASE i = 1 /\ reqOwner[wwork[w].part] = w
  <2>1. reqPosition'[wwork[w].part] = reqPosition[wwork[w].part] + 1
    BY <1>1, <1>12, HandlerReturns
  <2>2. InHand(w) \notin Handled /\ InHand(w) \in Handled'
    BY <1>1, <1>12, <2>1, PublishedIsHandled
  <2>3. Covered(Replies', Handled', n)
    BY <1>2, <1>5, <1>6, <1>12, <2>2, CoveredReply
  <2>4. n + Cardinality(Uncommitted') + Cardinality(Strays') <= Faults'
    BY <1>3, <1>6, <1>7, <1>8, <1>9, RejectBudget
  <2> QED BY <1>8, <1>9, <2>3, <2>4 DEF Charged
<1>13. CASE i = 1 /\ reqOwner[wwork[w].part] # w
  <2>1. Covered(Replies', Handled', n + 1)
    BY <1>5, <1>10, <1>13, CoveredExtra
  <2>2. Cardinality(Uncommitted') <= Cardinality(Uncommitted)
    BY <1>2, <1>7, <1>13
  <2>3. n + 1 \in Nat /\ (n + 1) + Cardinality(Uncommitted') + Cardinality(Strays') <= Faults'
    BY <1>3, <1>6, <1>7, <1>8, <1>9, <2>2, RejectBudget
  <2> QED BY <1>8, <1>9, <2>1, <2>3 DEF Charged
<1> QED BY <1>11, <1>12, <1>13

LEMMA ChargedNext ==
    ASSUME Typed, Typed', InPlace, Charged, [Next]_vars
    PROVE  Charged'
<1>1. CASE UNCHANGED vars
  <2>1. UNCHANGED <<requests, reqCommitted, reqOwner, reqPosition, results, wpc, wwork, faultVars>>
    BY <1>1 DEF vars, requestVars, workerVars
  <2>2. Handled' = Handled
    BY <2>1 DEF Handled, Asks, AboutToCommit, PartitionOf, Place
  <2>3. Strays' = Strays
    BY <2>1 DEF Strays
  <2> QED BY <2>1, <2>2, <2>3, RepliesSame, SameUncommitted, SameFaults, FreeStep
<1>2. CASE \E w \in Workers : Handle(w)
  <2>1. PICK w \in Workers : Handle(w)
    BY <1>2
  <2>2. CASE \E p \in RequestPartitions : Deliver(w, p)
    <3>1. PICK p \in RequestPartitions : Deliver(w, p)
      BY <2>2
    <3>2. /\ wpc[w] = "idle" /\ reqOwner[p] = w
          /\ UNCHANGED <<requestVars, results, faultVars>>
          /\ wwork'[w].part = p
          /\ \A v \in Workers \ {w} : wpc'[v] = wpc[v] /\ wwork'[v] = wwork[v]
      BY <3>1 DEF Deliver, Goto, Group!Ready, Typed, TypeOK
    <3> QED BY <3>2, QuietCharge, SameFaults
  <2>3. CASE Crawl(w)
    <3>1. /\ wpc[w] = "crawl" /\ wwork' = wwork
          /\ UNCHANGED <<requestVars, results, faultVars>>
          /\ \A v \in Workers \ {w} : wpc'[v] = wpc[v]
      BY <2>3 DEF Crawl, Goto, Typed, TypeOK
    <3> QED BY <3>1, QuietCharge, SameFaults
  <2> QED BY <2>1, <2>2, <2>3, ChargeProduce, ChargeProduceRejects, ChargeCommit,
             ChargeOffsetRejects DEF Handle
<1>3. CASE \E w \in Workers : Shutdown(w) \/ Kill(w) \/ Restart(w)
  <2>1. PICK w \in Workers : StopWorker(w) \/ Restart(w)
    BY <1>3 DEF Shutdown, Kill
  <2>2. CASE Restart(w)
    <3>1. /\ wpc[w] = "down" /\ wpc'[w] = "idle" /\ wwork' = wwork
          /\ UNCHANGED <<requestVars, results, faultVars>>
          /\ \A v \in Workers \ {w} : wpc'[v] = wpc[v]
      BY <2>2 DEF Restart, Goto, Typed, TypeOK
    <3> QED BY <3>1, QuietCharge, SameFaults
  <2> QED BY <2>1, <2>2, ChargeStop
<1>4. CASE \E p \in RequestPartitions : Rebalance(p)
  BY <1>4, ChargeEvict, ChargeAssign DEF Rebalance
<1>5. CASE \/ \E m \in Request : PublishRequest(m)
           \/ \E p \in RequestPartitions : PublishGarbage(p)
  BY <1>5, EnvironmentPublishes, SameFaults, ChargeArrivals
<1> QED BY <1>1, <1>2, <1>3, <1>4, <1>5 DEF Next, WorkerNext

(***************************************************************************)
(* The requests of r that are handled are no more than were asked for; its *)
(* results are the answers.                                                *)
(***************************************************************************)
LEMMA CountsOf ==
    ASSUME Typed, NEW r \in Request
    PROVE  /\ Asked(r) \in Nat /\ Answered(r) \in Nat
           /\ IsFiniteSet({a \in Replies : a.req = r})
           /\ Cardinality({a \in Replies : a.req = r}) = Answered(r)
           /\ IsFiniteSet({a \in Handled : a.req = r})
           /\ Cardinality({a \in Handled : a.req = r}) <= Asked(r)
<1> DEFINE log == requests[PartitionOf(r)]
           out == results[ResultPartition[r.url]]
           A == {o \in 1..Len(log) : log[o] = r}
           P == {a \in Replies : a.req = r}
           H == {a \in Handled : a.req = r}
           f == [a \in H |-> a.num]
           g == [o \in Answers(r) |-> [num |-> o, req |-> r]]
<1>1. /\ PartitionOf(r) \in RequestPartitions /\ ResultPartition[r.url] \in ResultPartitions
      /\ Len(log) \in Nat /\ Len(out) \in Nat /\ IsFiniteSet(Answers(r))
  BY CountsFinite
<1>2. DOMAIN log = 1..Len(log) /\ DOMAIN out = 1..Len(out)
  BY <1>1 DEF Typed, TypeOK
<1>3. Asked(r) = Cardinality(A) /\ Answered(r) = Cardinality(Answers(r))
  BY <1>2 DEF Asked, Answered, Answers, PartitionOf
<1>4. IsFiniteSet(A) /\ Cardinality(A) \in Nat /\ Cardinality(Answers(r)) \in Nat
  <2>1. IsFiniteSet(A)
    <3> HIDE DEF log
    <3> QED BY <1>1, OffsetsFinite
  <2> QED BY <1>1, <2>1, FS_CardinalityType
<1>5. f \in Injection(H, A)
  <2>1. ASSUME NEW a \in H
        PROVE  a.num \in A /\ a = [num |-> a.num, req |-> r]
    <3>1. a \in Place /\ a.req = r /\ Asks(a)
      BY DEF Handled
    <3> QED BY <3>1, PlaceType DEF Asks
  <2>2. f \in [H -> A]
    BY <2>1
  <2>3. \A a, b \in H : f[a] = f[b] => a = b
    BY <2>1
  <2> HIDE DEF f, H, A
  <2> QED BY <2>2, <2>3 DEF Injection, IsInjective
<1>6. IsFiniteSet(H) /\ Cardinality(H) <= Cardinality(A)
  <2> HIDE DEF f, H, A
  <2> QED BY <1>4, <1>5, FS_Injection
<1>7. g \in Bijection(Answers(r), P)
  <2>1. ASSUME NEW o \in Answers(r)
        PROVE  [num |-> o, req |-> r] \in P
    <3>1. o \in Nat
      BY <1>1 DEF Answers
    <3> QED BY <3>1 DEF Replies, Place
  <2>2. ASSUME NEW a \in P
        PROVE  a.num \in Answers(r) /\ a = [num |-> a.num, req |-> r]
    <3>1. a \in Place /\ a.req = r /\ a.num \in Answers(a.req)
      BY DEF Replies
    <3> QED BY <3>1, PlaceType
  <2>3. g \in [Answers(r) -> P]
    BY <2>1
  <2>4. \A o, i \in Answers(r) : g[o] = g[i] => o = i
    <3> SUFFICES ASSUME NEW o \in Answers(r), NEW i \in Answers(r), g[o] = g[i]
                 PROVE  o = i
      OBVIOUS
    <3>1. g[o].num = o /\ g[i].num = i
      OBVIOUS
    <3> HIDE DEF g
    <3> QED BY <3>1
  <2>5. \A a \in P : \E o \in Answers(r) : g[o] = a
    BY <2>2
  <2> HIDE DEF g, P
  <2> QED BY <2>3, <2>4, <2>5 DEF Bijection, Injection, Surjection, IsInjective
<1>8. IsFiniteSet(P) /\ Cardinality(P) = Cardinality(Answers(r))
  <2> HIDE DEF g, P
  <2>1. ExistsBijection(Answers(r), P)
    BY <1>7 DEF ExistsBijection
  <2> QED BY <1>1, <2>1, FS_Bijection
<1> QED BY <1>3, <1>4, <1>6, <1>8

(***************************************************************************)
(* What the budget says of the counts.                                     *)
(***************************************************************************)
LEMMA ExcessPaid ==
    ASSUME Typed, Charged
    PROVE  IsFiniteSet(InExcess) /\ DuplicatesNeedFaults
<1>1. PICK n \in Nat : /\ Covered(Replies, Handled, n)
                       /\ n + Cardinality(Uncommitted) + Cardinality(Strays) <= Faults
  BY DEF Charged
<1>2. PICK ask \in [Request -> Nat] : \A r \in Request : ask[r] = Asked(r)
  <2>1. [r \in Request |-> Asked(r)] \in [Request -> Nat]
    BY CountsOf
  <2> QED BY <2>1
<1>3. PICK ans \in [Request -> Nat] : \A r \in Request : ans[r] = Answered(r)
  <2>1. [r \in Request |-> Answered(r)] \in [Request -> Nat]
    BY CountsOf
  <2> QED BY <2>1
<1>4. \A r \in Request : /\ IsFiniteSet(For(Replies, r)) /\ Cardinality(For(Replies, r)) = ans[r]
                         /\ IsFiniteSet(For(Handled, r)) /\ Cardinality(For(Handled, r)) <= ask[r]
  BY <1>2, <1>3, CountsOf DEF For
<1>5. /\ IsFiniteSet(Excess(Request, ask, ans))
      /\ Cardinality(Excess(Request, ask, ans)) \in Nat
      /\ Cardinality(Excess(Request, ask, ans)) <= n
  BY <1>1, <1>4, ExcessBounded
<1>6. Excess(Request, ask, ans) = InExcess
  BY <1>2, <1>3 DEF InExcess, Excess
<1>7. /\ Cardinality(Uncommitted) \in Nat /\ Cardinality(Strays) \in Nat
      /\ Faults \in Nat
  <2>1. failures \in Nat /\ stops \in Nat /\ evictions \in Nat
    BY DEF Typed, TypeOK
  <2> QED BY <2>1, FS_CardinalityType DEF Charged, Faults
<1>8. n <= Faults
  BY <1>1, <1>7
<1>9. Cardinality(Excess(Request, ask, ans)) <= Faults
  BY <1>1, <1>5, <1>7, <1>8
<1> QED BY <1>5, <1>6, <1>9 DEF DuplicatesNeedFaults, Faults

(***************************************************************************)
(* Whatever happens to workers and partitions, a url is crawled once more  *)
(* than asked for only if a call was rejected, a process stopped or a      *)
(* partition lost, and each of these accounts for one result at most.      *)
(***************************************************************************)
THEOREM EachDuplicateHasAFault == Spec => []DuplicatesNeedFaults
<1>1. Typed /\ Charged => DuplicatesNeedFaults
  BY ExcessPaid
<1>2. Init => Typed /\ InPlace /\ Charged
  BY TypedInit, ChargedInit
<1>3. Typed /\ InPlace /\ Charged /\ [Next]_vars => (Typed /\ InPlace /\ Charged)'
  BY TypedNext, PlaceNext, ChargedNext
<1> QED BY <1>1, <1>2, <1>3, PTL DEF Spec
-----------------------------------------------------------------------------
(***************************************************************************)
(* Fifth layer: results that are lacking.  Settled are the requests that   *)
(* will not be delivered again while their owner lives: those below the    *)
(* committed offset, those an owner has come past, and those it is about   *)
(* to commit.  All but one for each rejected call have a result.           *)
(***************************************************************************)
Passed(p, o) ==
    \/ o <= reqCommitted[p]
    \/ reqOwner[p] # Nobody /\ o <= reqPosition[p]
    \/ AboutToCommit(p, o)

Settled == {a \in Place : Asks(a) /\ Passed(PartitionOf(a.req), a.num)}

LossesPaid ==
    ~FreshGroup => /\ \A p \in RequestPartitions : reqCommitted[p] \in Nat
                   /\ Covered(Settled, Replies, failures)

LEMMA CoveredLess ==
    ASSUME NEW P, NEW Q, Q \subseteq P, NEW A, NEW B, A \subseteq B,
           NEW n \in Nat, NEW m \in Nat, n <= m, Covered(P, A, n)
    PROVE  Covered(Q, B, m)
<1>1. Covered(P, B, m)
  BY CoveredByMore
<1>2. PICK S \in SUBSET P : \E h \in [P \ S -> B] :
          /\ IsFiniteSet(S) /\ Cardinality(S) <= m
          /\ \A a \in P \ S : h[a].req = a.req
          /\ \A a, b \in P \ S : h[a] = h[b] => a = b
  BY <1>1 DEF Covered
<1>3. PICK h \in [P \ S -> B] : /\ \A a \in P \ S : h[a].req = a.req
                                /\ \A a, b \in P \ S : h[a] = h[b] => a = b
  BY <1>2
<1> DEFINE T == S \cap Q
           k == [a \in Q \ T |-> h[a]]
<1>4. IsFiniteSet(T) /\ Cardinality(T) <= m
  <2>1. /\ IsFiniteSet(T) /\ Cardinality(T) <= Cardinality(S)
        /\ Cardinality(T) \in Nat /\ Cardinality(S) \in Nat
    BY <1>2, SmallSubset
  <2> QED BY <1>2, <2>1
<1>5. T \in SUBSET Q /\ Q \ T \subseteq P \ S
  OBVIOUS
<1>6. k \in [Q \ T -> B]
  BY <1>5
<1>7. /\ \A a \in Q \ T : k[a].req = a.req
      /\ \A a, b \in Q \ T : k[a] = k[b] => a = b
  BY <1>3, <1>5
<1> HIDE DEF T, k
<1> QED BY <1>4, <1>5, <1>6, <1>7 DEF Covered

LEMMA PaidInit == Init => LossesPaid
<1> SUFFICES ASSUME Init, ~FreshGroup PROVE LossesPaid
  BY DEF LossesPaid
<1>1. \A p \in RequestPartitions : reqCommitted[p] \in Nat
  BY DEF Init
<1>2. ASSUME NEW r \in Request
      PROVE  1..Len(requests[PartitionOf(r)]) = {}
  <2>1. PartitionOf(r) \in RequestPartitions
    BY WorkerAssumption DEF Request, PartitionOf
  <2> QED BY <2>1 DEF Init
<1>3. Settled = {}
  BY <1>2 DEF Settled, Place, Asks
<1>4. Covered({}, Replies, 0)
  <2> DEFINE S == {}
  <2>1. S \in SUBSET {} /\ IsFiniteSet(S) /\ Cardinality(S) <= 0
    BY FS_EmptySet
  <2>2. [a \in {} |-> a] \in [{} \ S -> Replies]
    OBVIOUS
  <2> QED BY <2>1, <2>2 DEF Covered
<1>5. failures = 0
  BY DEF Init
<1> QED BY <1>1, <1>3, <1>4, <1>5 DEF LossesPaid

(***************************************************************************)
(* A step after which nothing more is settled and no result is gone.       *)
(***************************************************************************)
LEMMA FreeOfLoss ==
    ASSUME Typed, LossesPaid, failures' \in Nat, failures <= failures',
           \A p \in RequestPartitions : reqCommitted[p] \in Nat => reqCommitted'[p] \in Nat,
           ~FreshGroup => Settled' \subseteq Settled, Replies \subseteq Replies'
    PROVE  LossesPaid'
<1>1. failures \in Nat
  BY DEF Typed, TypeOK
<1> QED BY <1>1, CoveredLess DEF LossesPaid

(***************************************************************************)
(* Nobody commits or moves on, and nobody comes to own anything.           *)
(***************************************************************************)
LEMMA QuietSettled ==
    ASSUME UNCHANGED <<requests, reqCommitted, reqPosition>>,
           \A q \in RequestPartitions : reqOwner'[q] # Nobody => reqOwner'[q] = reqOwner[q],
           \A v \in Workers : wpc'[v] = "commit" => wpc[v] = "commit" /\ wwork'[v] = wwork[v]
    PROVE  Settled' \subseteq Settled
<1> SUFFICES ASSUME NEW a \in Settled' PROVE a \in Settled
  OBVIOUS
<1>1. /\ a \in Place /\ Asks(a)' /\ Passed(PartitionOf(a.req), a.num)'
  BY DEF Settled, Place
<1>2. PartitionOf(a.req) \in RequestPartitions
  BY <1>1, PlaceType
<1>3. Asks(a)
  BY <1>1 DEF Asks, PartitionOf
<1>4. AboutToCommit(PartitionOf(a.req), a.num)' => AboutToCommit(PartitionOf(a.req), a.num)
  BY <1>2, WorkerAssumption DEF AboutToCommit, PartitionOf
<1>5. Passed(PartitionOf(a.req), a.num)
  BY <1>1, <1>2, <1>4 DEF Passed, PartitionOf
<1> QED BY <1>1, <1>3, <1>5 DEF Settled

(***************************************************************************)
(* The handler of w goes on or ends, with whatever that moves: only the    *)
(* message it has in hand is settled by it, and only if w is the owner.    *)
(***************************************************************************)
LEMMA HandlerSettles ==
    ASSUME Typed, InPlace, NEW w \in Workers, Busy(w), UNCHANGED <<requests, reqOwner>>,
           MayCommit(w),
           \A v \in Workers \ {w} : wpc'[v] = wpc[v] /\ wwork'[v] = wwork[v],
           wpc'[w] = "commit" => wwork'[w] = wwork[w],
           \A q \in RequestPartitions :
               \/ reqPosition'[q] = reqPosition[q]
               \/ q = wwork[w].part /\ reqOwner[q] = w /\ reqPosition'[q] = reqPosition[q] + 1
    PROVE  /\ Settled' \subseteq Settled \cup {InHand(w)}
           /\ reqOwner[wwork[w].part] # w => Settled' \subseteq Settled
<1> DEFINE p == wwork[w].part
<1>1. /\ p \in RequestPartitions /\ wwork[w].off \in Nat
      /\ reqOwner[p] = w => wwork[w].off = reqPosition[p]
  BY BusyWork DEF InPlace
<1>2. SUFFICES ASSUME NEW a \in Settled', a \notin Settled
               PROVE  reqOwner[p] = w /\ a = InHand(w)
  OBVIOUS
<1> DEFINE q == PartitionOf(a.req)
<1>3. a \in Place /\ Asks(a)' /\ Passed(q, a.num)'
  BY DEF Settled, Place
<1>4. /\ q \in RequestPartitions /\ q' = q /\ a.num \in Nat
      /\ a = [num |-> a.num, req |-> a.req]
  BY <1>3, PlaceType DEF PartitionOf
<1>5. Asks(a)
  BY <1>3, <1>4 DEF Asks
<1>6. ~Passed(q, a.num)
  BY <1>2, <1>3, <1>5 DEF Settled
<1>7. /\ reqPosition[q] \in Nat
      /\ reqCommitted \in [RequestPartitions -> Nat \cup {NoOffset}]
  BY <1>4 DEF Typed, TypeOK
<1>8. Nobody \notin Workers
  BY WorkerAssumption
<1>9. q = p /\ reqOwner[p] = w /\ a.num = wwork[w].off + 1
  <2>1. CASE a.num <= reqCommitted'[q]
    <3>1. reqCommitted'[q] # reqCommitted[q]
      BY <1>6, <2>1 DEF Passed
    <3>2. /\ reqOwner[p] = w
          /\ reqCommitted' = [reqCommitted EXCEPT ![p] = wwork[w].off + 1]
      BY <3>1 DEF MayCommit, Group!CommitAccepted
    <3> HIDE DEF p, q
    <3>3. q = p /\ reqCommitted'[q] = wwork[w].off + 1
      BY <1>1, <1>4, <1>7, <3>1, <3>2
    <3>4. ~(a.num <= reqPosition[q])
      BY <1>6, <1>8, <3>2, <3>3 DEF Passed
    <3> QED BY <1>1, <1>4, <1>7, <2>1, <3>2, <3>3, <3>4
  <2>2. CASE reqOwner'[q] # Nobody /\ a.num <= reqPosition'[q]
    <3> HIDE DEF p, q
    <3>1. ~(a.num <= reqPosition[q])
      BY <1>6, <2>2 DEF Passed
    <3>2. q = p /\ reqOwner[q] = w /\ reqPosition'[q] = reqPosition[q] + 1
      BY <1>4, <2>2, <3>1 DEF p
    <3> QED BY <1>1, <1>4, <1>7, <2>2, <3>1, <3>2
  <2>3. CASE AboutToCommit(q, a.num)'
    <3>1. PICK v \in Workers : /\ wpc'[v] = "commit" /\ reqOwner'[q] = v
                               /\ wwork'[v].part = q /\ a.num = wwork'[v].off + 1
      BY <1>4, <2>3 DEF AboutToCommit
    <3>2. v = w
      <4> SUFFICES ASSUME v # w PROVE FALSE
        OBVIOUS
      <4>1. AboutToCommit(q, a.num)
        BY <3>1 DEF AboutToCommit
      <4> QED BY <1>6, <4>1 DEF Passed
    <3> QED BY <3>1, <3>2
  <2> QED BY <1>3, <1>4, <2>1, <2>2, <2>3 DEF Passed
<1>10. a.req = Req(w)
  BY <1>5, <1>9 DEF Asks, Req
<1> QED BY <1>4, <1>9, <1>10 DEF InHand

(***************************************************************************)
(* What a handler at the offset commit has in hand was settled before, and *)
(* garbage asks for nothing.                                               *)
(***************************************************************************)
LEMMA CommitSettlesNothing ==
    ASSUME Typed, NEW w \in Workers, wpc[w] \in {"commit", "garbage"},
           UNCHANGED requests, reqOwner[wwork[w].part] = w,
           Settled' \subseteq Settled \cup {InHand(w)}
    PROVE  Settled' \subseteq Settled
<1> SUFFICES ASSUME NEW x, x = InHand(w), x \in Settled' PROVE x \in Settled
  OBVIOUS
<1>1. /\ x \in Place /\ Asks(x)' /\ x.num = wwork[w].off + 1 /\ x.req = Req(w)
  BY DEF Settled, Place, InHand
<1>2. Req(w) \in Request /\ Busy(w)
  BY <1>1, PlaceType DEF Busy
<1>3. wpc[w] = "commit"
  BY <1>2, WorkerAssumption DEF Typed, HandlerHasWork
<1>4. PartitionOf(Req(w)) = wwork[w].part
  BY <1>2, <1>3, ReqType
<1>5. AboutToCommit(PartitionOf(x.req), x.num)
  BY <1>1, <1>3, <1>4 DEF AboutToCommit
<1>6. Asks(x)
  BY <1>1 DEF Asks, PartitionOf
<1> QED BY <1>1, <1>5, <1>6 DEF Settled, Passed

(***************************************************************************)
(* LossesPaid, action by action.                                           *)
(***************************************************************************)
LEMMA PaidReturn ==
    ASSUME Typed, Typed', InPlace, LossesPaid, NEW w \in Workers,
           CommitOffset(w) \/ OffsetRejects(w)
    PROVE  LossesPaid'
<1>1. /\ Busy(w) /\ wpc[w] \in {"commit", "garbage"} /\ EndHandler(w, "idle")
      /\ UNCHANGED <<requests, reqOwner, results>> /\ MayCommit(w)
      /\ failures \in Nat /\ failures' \in Nat /\ failures <= failures'
  BY DEF CommitOffset, OffsetRejects, CommitsOffset, Busy, Return, Throw, MayCommit,
         RemoteFailure, faultVars, Typed, TypeOK
<1>2. /\ \A v \in Workers \ {w} : wpc'[v] = wpc[v] /\ wwork'[v] = wwork[v]
      /\ wpc'[w] = "idle"
  BY <1>1 DEF EndHandler, Goto, Typed, TypeOK
<1>3. \A q \in RequestPartitions :
          \/ reqPosition'[q] = reqPosition[q]
          \/ q = wwork[w].part /\ reqOwner[q] = w /\ reqPosition'[q] = reqPosition[q] + 1
  <2>1. CASE Return(w)
    BY <1>1, <2>1, HandlerReturns
  <2>2. CASE UNCHANGED reqPosition
    BY <2>2
  <2> QED BY <2>1, <2>2 DEF CommitOffset, OffsetRejects, Throw
<1>4. /\ Settled' \subseteq Settled \cup {InHand(w)}
      /\ reqOwner[wwork[w].part] # w => Settled' \subseteq Settled
  BY <1>1, <1>2, <1>3, HandlerSettles
<1>5. Settled' \subseteq Settled
  BY <1>1, <1>4, CommitSettlesNothing
<1>6. \A p \in RequestPartitions : reqCommitted[p] \in Nat => reqCommitted'[p] \in Nat
  <2>1. wwork[w].part \in RequestPartitions /\ wwork[w].off + 1 \in Nat
    BY <1>1, BusyWork
  <2>2. CASE reqCommitted' = reqCommitted
    BY <2>2
  <2>3. CASE reqCommitted' = [reqCommitted EXCEPT ![wwork[w].part] = wwork[w].off + 1]
    <3>1. reqCommitted \in [RequestPartitions -> Nat \cup {NoOffset}]
      BY DEF Typed, TypeOK
    <3> QED BY <2>1, <2>3, <3>1
  <2> QED BY <1>1, <2>2, <2>3 DEF MayCommit, Group!CommitAccepted
<1> QED BY <1>1, <1>5, <1>6, RepliesSame, FreeOfLoss

LEMMA PaidProduce ==
    ASSUME Typed, Typed', InPlace, LossesPaid, NEW w \in Workers, Produce(w)
    PROVE  LossesPaid'
<1>1. /\ wpc[w] = "produce" /\ Busy(w) /\ wpc' = [wpc EXCEPT ![w] = "commit"]
      /\ UNCHANGED <<requests, reqCommitted, reqOwner, reqPosition, wwork>>
      /\ failures \in Nat /\ failures' \in Nat /\ failures <= failures'
  BY DEF Produce, Goto, Busy, RemoteFailure, requestVars, Typed, TypeOK
<1>2. /\ wpc'[w] = "commit" /\ \A v \in Workers \ {w} : wpc'[v] = wpc[v]
      /\ MayCommit(w)
  BY <1>1 DEF MayCommit, Typed, TypeOK
<1>3. Settled' \subseteq Settled \cup {InHand(w)}
  BY <1>1, <1>2, HandlerSettles
<1>4. /\ Fresh(w, 1) \notin Replies
      /\ Replies \cup {Fresh(w, 1)} \subseteq Replies'
  <2>1. AppendResult(w, 1) \/ AppendResult(w, 2)
    BY DEF Produce
  <2> QED BY <1>1, <2>1, RepliesGrow
<1>5. CASE InHand(w) \in Settled
  BY <1>1, <1>3, <1>4, <1>5, FreeOfLoss
<1>6. CASE InHand(w) \notin Settled
  <2> SUFFICES ASSUME ~FreshGroup
               PROVE  Covered(Settled', Replies', failures')
    BY <1>1 DEF LossesPaid
  <2>1. Covered(Settled, Replies, failures)
    BY DEF LossesPaid
  <2>2. Fresh(w, 1).req = InHand(w).req
    BY DEF Fresh, InHand
  <2>3. Covered(Settled \cup {InHand(w)}, Replies \cup {Fresh(w, 1)}, failures)
    BY <1>1, <1>4, <1>6, <2>1, <2>2, CoveredPair
  <2> QED BY <1>1, <1>3, <1>4, <2>3, CoveredLess
<1> QED BY <1>5, <1>6

LEMMA PaidProduceRejects ==
    ASSUME Typed, Typed', InPlace, LossesPaid, NEW w \in Workers, ProduceRejects(w)
    PROVE  LossesPaid'
<1>1. /\ wpc[w] = "produce" /\ Busy(w) /\ Return(w)
      /\ UNCHANGED <<requests, reqCommitted, reqOwner>> /\ MayCommit(w)
      /\ failures \in Nat /\ failures' = failures + 1
  BY DEF ProduceRejects, Busy, RemoteFailure, MayCommit, Typed, TypeOK
<1>2. /\ \A v \in Workers \ {w} : wpc'[v] = wpc[v] /\ wwork'[v] = wwork[v]
      /\ wpc'[w] = "idle"
      /\ \A q \in RequestPartitions :
             \/ reqPosition'[q] = reqPosition[q]
             \/ q = wwork[w].part /\ reqOwner[q] = w /\ reqPosition'[q] = reqPosition[q] + 1
  BY <1>1, HandlerReturns
<1>3. Settled' \subseteq Settled \cup {InHand(w)}
  BY <1>1, <1>2, HandlerSettles
<1>4. Replies \subseteq Replies'
  <2>1. PICK n \in {0, 1} : AppendResult(w, n)
    BY DEF ProduceRejects
  <2> QED BY <1>1, <2>1, RepliesGrow
<1>5. CASE InHand(w) \in Settled
  BY <1>1, <1>3, <1>4, <1>5, FreeOfLoss
<1>6. CASE InHand(w) \notin Settled
  <2> SUFFICES ASSUME ~FreshGroup
               PROVE  Covered(Settled', Replies', failures')
    BY <1>1 DEF LossesPaid
  <2>1. Covered(Settled, Replies, failures)
    BY DEF LossesPaid
  <2>2. Covered(Settled \cup {InHand(w)}, Replies, failures + 1)
    BY <1>1, <1>6, <2>1, CoveredExtra
  <2> QED BY <1>1, <1>3, <1>4, <2>2, CoveredLess
<1> QED BY <1>5, <1>6

LEMMA PaidAssign ==
    ASSUME Typed, Typed', LossesPaid, NEW p \in RequestPartitions, NEW w \in Workers,
           AssignRequests(p, w)
    PROVE  LossesPaid'
<1>1. /\ UNCHANGED <<requests, reqCommitted, results, wpc, wwork, failures>>
      /\ reqOwner[p] = Nobody /\ wpc[w] = "idle"
      /\ reqOwner' = [reqOwner EXCEPT ![p] = w]
      /\ reqPosition' = [reqPosition EXCEPT ![p] = Group!StartOffset(p)]
  BY DEF AssignRequests, Group!Assign, workerVars, faultVars
<1>2. /\ reqPosition'[p] = Group!StartOffset(p) /\ reqOwner'[p] = w
      /\ \A q \in RequestPartitions \ {p} :
             reqPosition'[q] = reqPosition[q] /\ reqOwner'[q] = reqOwner[q]
  BY <1>1 DEF Typed, TypeOK
<1>3. ASSUME ~FreshGroup, NEW a \in Settled'
      PROVE  a \in Settled
  <2> DEFINE q == PartitionOf(a.req)
  <2>1. a \in Place /\ Asks(a)' /\ Passed(q, a.num)'
    BY <1>3 DEF Settled, Place
  <2>2. q \in RequestPartitions /\ q' = q
    BY <2>1, PlaceType DEF PartitionOf
  <2>3. Asks(a)
    BY <1>1, <2>1, <2>2 DEF Asks
  <2>4. AboutToCommit(q, a.num)' => AboutToCommit(q, a.num)
    BY <1>1, <1>2, <2>2 DEF AboutToCommit
  <2>5. reqPosition'[p] = reqCommitted[p]
    BY <1>2, <1>3, WorkerAssumption DEF LossesPaid, Group!StartOffset
  <2>6. Passed(q, a.num)
    BY <1>1, <1>2, <2>1, <2>2, <2>4, <2>5 DEF Passed
  <2> QED BY <2>1, <2>3, <2>6 DEF Settled
<1>4. failures \in Nat
  BY DEF Typed, TypeOK
<1> QED BY <1>1, <1>3, <1>4, RepliesSame, FreeOfLoss

LEMMA PaidArrivals ==
    ASSUME Typed, Typed', InPlace, LossesPaid, Arrivals, GroupStays,
           failures' \in Nat, failures <= failures'
    PROVE  LossesPaid'
<1>1. UNCHANGED <<reqCommitted, reqOwner, reqPosition, results, wpc, wwork>>
  BY DEF GroupStays, workerVars
<1>2. ASSUME ~FreshGroup, NEW a \in Settled'
      PROVE  a \in Settled
  <2> DEFINE q == PartitionOf(a.req)
  <2>1. a \in Place /\ Asks(a)' /\ Passed(q, a.num)'
    BY <1>2 DEF Settled, Place
  <2>2. q \in RequestPartitions /\ q' = q /\ a.num \in Nat
    BY <2>1, PlaceType DEF PartitionOf
  <2>3. a.num \in 1..Len(requests'[q]) /\ requests'[q][a.num] = a.req
    BY <2>1, <2>2 DEF Asks
  <2>4. Passed(q, a.num)
    <3>1. AboutToCommit(q, a.num)' => AboutToCommit(q, a.num)
      BY <1>1, <2>2 DEF AboutToCommit
    <3> QED BY <1>1, <2>1, <2>2, <3>1 DEF Passed
  <2>5. a.num <= Len(requests[q]) /\ Len(requests[q]) \in Nat
    <3>1. /\ reqCommitted[q] \in Nat /\ reqPosition[q] \in Nat /\ Len(requests[q]) \in Nat
          /\ reqCommitted[q] <= Len(requests[q]) /\ reqPosition[q] <= Len(requests[q])
      BY <1>2, <2>2, WorkerAssumption DEF LossesPaid, InPlace, Typed, TypeOK
    <3>2. AboutToCommit(q, a.num) => a.num <= Len(requests[q])
      BY BusyWork DEF AboutToCommit, Busy
    <3> HIDE DEF q
    <3> QED BY <2>2, <2>4, <3>1, <3>2 DEF Passed
  <2>6. a.num \in 1..Len(requests[q])
    <3>1. 1 <= a.num
      BY <2>3
    <3> HIDE DEF q
    <3> QED BY <2>2, <2>5, <3>1
  <2>7. Asks(a)
    BY <2>2, <2>3, <2>6 DEF Asks, Arrivals
  <2> QED BY <2>1, <2>4, <2>7 DEF Settled
<1> QED BY <1>1, <1>2, RepliesSame, FreeOfLoss

LEMMA PaidNext ==
    ASSUME Typed, Typed', InPlace, LossesPaid, [Next]_vars
    PROVE  LossesPaid'
<1>0. failures \in Nat
  BY DEF Typed, TypeOK
<1>1. CASE UNCHANGED vars
  <2>1. /\ UNCHANGED <<requests, reqCommitted, reqOwner, reqPosition, results, wpc, wwork>>
        /\ failures' = failures /\ failures' \in Nat /\ failures <= failures'
    BY <1>0, <1>1 DEF vars, requestVars, workerVars, faultVars
  <2> QED BY <2>1, QuietSettled, RepliesSame, FreeOfLoss
<1>2. CASE \E w \in Workers : Handle(w)
  <2>1. PICK w \in Workers : Handle(w)
    BY <1>2
  <2>2. CASE Crawl(w) \/ \E p \in RequestPartitions : Deliver(w, p)
    <3>1. /\ UNCHANGED <<requests, reqCommitted, reqOwner, reqPosition, results>>
          /\ failures' \in Nat /\ failures <= failures'
      BY <1>0, <2>2 DEF Crawl, Deliver, requestVars, faultVars
    <3>2. \E l \in {"garbage", "crawl", "produce"} : Goto(w, l)
      BY <2>2 DEF Crawl, Deliver
    <3>3. \A v \in Workers \ {w} : wwork'[v] = wwork[v]
      BY <2>2 DEF Crawl, Deliver, Typed, TypeOK
    <3>4. \A v \in Workers : wpc'[v] = "commit" => v # w /\ wpc'[v] = wpc[v]
      BY <3>2 DEF Goto, Typed, TypeOK
    <3> QED BY <3>1, <3>3, <3>4, QuietSettled, RepliesSame, FreeOfLoss
  <2> QED BY <2>1, <2>2, PaidProduce, PaidProduceRejects, PaidReturn DEF Handle
<1>3. CASE \E w \in Workers : Shutdown(w) \/ Kill(w) \/ Restart(w)
  <2>1. PICK w \in Workers : StopWorker(w) \/ Restart(w)
    BY <1>3 DEF Shutdown, Kill
  <2>2. /\ UNCHANGED <<requests, reqCommitted, reqPosition, results>>
        /\ failures' \in Nat /\ failures <= failures'
    BY <1>0, <2>1 DEF StopWorker, Restart, requestVars, faultVars
  <2>3. \A v \in Workers : wpc'[v] = "commit" => wpc[v] = "commit" /\ wwork'[v] = wwork[v]
    <3>1. \E l \in {"down", "idle"} : Goto(w, l)
      BY <2>1 DEF StopWorker, EndHandler, Restart
    <3>2. \A v \in Workers \ {w} : wwork'[v] = wwork[v]
      BY <2>1 DEF StopWorker, EndHandler, Restart, Typed, TypeOK
    <3> QED BY <3>1, <3>2 DEF Goto, Typed, TypeOK
  <2>4. \A q \in RequestPartitions : reqOwner'[q] # Nobody => reqOwner'[q] = reqOwner[q]
    BY <2>1 DEF StopWorker, Restart, Group!Leave, requestVars
  <2> QED BY <2>2, <2>3, <2>4, QuietSettled, RepliesSame, FreeOfLoss
<1>4. CASE \E p \in RequestPartitions : Rebalance(p)
  <2>1. PICK p \in RequestPartitions : Rebalance(p)
    BY <1>4
  <2>2. CASE EvictRequests(p)
    <3>1. /\ UNCHANGED <<requests, reqCommitted, reqPosition, results, wpc, wwork>>
          /\ failures' \in Nat /\ failures <= failures'
      BY <1>0, <2>2 DEF EvictRequests, workerVars
    <3>2. \A q \in RequestPartitions : reqOwner'[q] # Nobody => reqOwner'[q] = reqOwner[q]
      BY <2>2 DEF EvictRequests, Group!Evict
    <3> QED BY <3>1, <3>2, QuietSettled, RepliesSame, FreeOfLoss
  <2> QED BY <2>1, <2>2, PaidAssign DEF Rebalance
<1>5. CASE \/ \E m \in Request : PublishRequest(m)
           \/ \E p \in RequestPartitions : PublishGarbage(p)
  <2>1. Arrivals /\ GroupStays /\ failures' \in Nat /\ failures <= failures'
    BY <1>0, <1>5, EnvironmentPublishes DEF faultVars
  <2> QED BY <2>1, PaidArrivals
<1> QED BY <1>1, <1>2, <1>3, <1>4, <1>5 DEF Next, WorkerNext

(***************************************************************************)
(* Among the settled requests of r are those below the committed offset,   *)
(* AskedBefore(r) of them.                                                 *)
(***************************************************************************)
Overdue == {a \in Settled : a.num \in 1..reqCommitted[PartitionOf(a.req)]}

LEMMA CountsOfOverdue ==
    ASSUME Typed, InPlace, NEW r \in Request,
           \A p \in RequestPartitions : reqCommitted[p] \in Nat
    PROVE  /\ AskedBefore(r) \in Nat
           /\ IsFiniteSet(For(Overdue, r)) /\ Cardinality(For(Overdue, r)) = AskedBefore(r)
<1> DEFINE p == PartitionOf(r)
           A == {o \in 1..reqCommitted[p] : requests[p][o] = r}
           P == For(Overdue, r)
           g == [o \in A |-> [num |-> o, req |-> r]]
<1>1. /\ p \in RequestPartitions /\ reqCommitted[p] \in Nat /\ Len(requests[p]) \in Nat
      /\ reqCommitted[p] <= Len(requests[p])
  BY CountsFinite, WorkerAssumption DEF InPlace
<1>2. AskedBefore(r) = Cardinality(A)
  BY DEF AskedBefore, PartitionOf
<1>3. IsFiniteSet(A) /\ Cardinality(A) \in Nat
  <2>1. A \in SUBSET (1..reqCommitted[p])
    OBVIOUS
  <2>2. IsFiniteSet(A)
    <3> HIDE DEF A
    <3> QED BY <1>1, <2>1, OffsetsFinite
  <2> QED BY <2>2, FS_CardinalityType
<1>4. g \in Bijection(A, P)
  <2>1. ASSUME NEW o \in A
        PROVE  [num |-> o, req |-> r] \in P
    <3>1. o \in 1..reqCommitted[p] /\ requests[p][o] = r
      OBVIOUS
    <3>2. o \in Nat /\ o \in 1..Len(requests[p]) /\ o <= reqCommitted[p]
      <4> HIDE DEF p
      <4> QED BY <1>1, <3>1
    <3>3. Asks([num |-> o, req |-> r])
      BY <3>1, <3>2 DEF Asks
    <3>4. Passed(p, o)
      BY <3>2 DEF Passed
    <3> QED BY <3>1, <3>2, <3>3, <3>4 DEF For, Overdue, Settled, Place
  <2>2. ASSUME NEW a \in P
        PROVE  a.num \in A /\ a = [num |-> a.num, req |-> r]
    <3>1. a \in Place /\ a.req = r /\ Asks(a) /\ a.num \in 1..reqCommitted[p]
      BY DEF For, Overdue, Settled
    <3> QED BY <3>1, PlaceType DEF Asks
  <2>3. g \in [A -> P]
    BY <2>1
  <2>4. \A o, i \in A : g[o] = g[i] => o = i
    <3> SUFFICES ASSUME NEW o \in A, NEW i \in A, g[o] = g[i]
                 PROVE  o = i
      OBVIOUS
    <3>1. g[o].num = o /\ g[i].num = i
      OBVIOUS
    <3> HIDE DEF g
    <3> QED BY <3>1
  <2>5. \A a \in P : \E o \in A : g[o] = a
    BY <2>2
  <2> HIDE DEF g, P, A
  <2> QED BY <2>3, <2>4, <2>5 DEF Bijection, Injection, Surjection, IsInjective
<1>5. IsFiniteSet(P) /\ Cardinality(P) = Cardinality(A)
  <2> HIDE DEF g, P, A
  <2>1. ExistsBijection(A, P)
    BY <1>4 DEF ExistsBijection
  <2> QED BY <1>3, <2>1, FS_Bijection
<1> QED BY <1>2, <1>3, <1>5

LEMMA LackingPaid ==
    ASSUME Typed, InPlace, LossesPaid
    PROVE  LossesNeedRejections
<1> SUFFICES ASSUME ~FreshGroup PROVE Cardinality(Lacking) <= failures
  BY DEF LossesNeedRejections
<1>1. failures \in Nat /\ \A p \in RequestPartitions : reqCommitted[p] \in Nat
  BY DEF LossesPaid, Typed, TypeOK
<1>2. Covered(Overdue, Replies, failures)
  <2>1. Overdue \subseteq Settled
    BY DEF Overdue
  <2> QED BY <1>1, <2>1, CoveredLess DEF LossesPaid
<1>3. PICK ask \in [Request -> Nat] : \A r \in Request : ask[r] = Answered(r)
  <2>1. [r \in Request |-> Answered(r)] \in [Request -> Nat]
    BY CountsOf
  <2> QED BY <2>1
<1>4. PICK ans \in [Request -> Nat] : \A r \in Request : ans[r] = AskedBefore(r)
  <2>1. [r \in Request |-> AskedBefore(r)] \in [Request -> Nat]
    BY <1>1, CountsOfOverdue
  <2> QED BY <2>1
<1>5. ASSUME NEW r \in Request
      PROVE  /\ IsFiniteSet(For(Overdue, r)) /\ Cardinality(For(Overdue, r)) = ans[r]
             /\ IsFiniteSet(For(Replies, r)) /\ Cardinality(For(Replies, r)) <= ask[r]
  <2>1. IsFiniteSet(For(Overdue, r)) /\ Cardinality(For(Overdue, r)) = ans[r]
    BY <1>1, <1>4, CountsOfOverdue
  <2>2. IsFiniteSet(For(Replies, r)) /\ Cardinality(For(Replies, r)) = ask[r] /\ ask[r] \in Nat
    BY <1>3, CountsOf DEF For
  <2> QED BY <2>1, <2>2
<1>6. Cardinality(Excess(Request, ask, ans)) <= failures
  BY <1>1, <1>2, <1>5, ExcessBounded
<1>7. Excess(Request, ask, ans) = Lacking
  BY <1>3, <1>4 DEF Excess, Lacking
<1> QED BY <1>6, <1>7

(***************************************************************************)
(* However calls are rejected, workers killed and partitions taken away,   *)
(* each result that a request below a committed offset lacks, over all     *)
(* requests together, has a rejected call of its own.                      *)
(***************************************************************************)
THEOREM EachLossNeedsARejection == Spec => []LossesNeedRejections
<1>1. Typed /\ InPlace /\ LossesPaid => LossesNeedRejections
  BY LackingPaid
<1>2. Init => Typed /\ InPlace /\ LossesPaid
  BY TypedInit, ChargedInit, PaidInit
<1>3. Typed /\ InPlace /\ LossesPaid /\ [Next]_vars => (Typed /\ InPlace /\ LossesPaid)'
  BY TypedNext, PlaceNext, PaidNext
<1> QED BY <1>1, <1>2, <1>3, PTL DEF Spec
-----------------------------------------------------------------------------
(***************************************************************************)
(* For whoever composes the workers with the rest of the service: every    *)
(* result answers a request of the topic and lies in the partition of its  *)
(* url, results are only added, and faults are only counted up.            *)
(***************************************************************************)
RequestOf(e) == [job |-> e.job, url |-> e.url]

Sourced ==
    \A p \in ResultPartitions : \A o \in 1..Len(results[p]) :
        /\ ResultPartition[results[p][o].url] = p
        /\ \E i \in 1..Len(requests[PartitionOf(RequestOf(results[p][o]))]) :
              requests[PartitionOf(RequestOf(results[p][o]))][i] = RequestOf(results[p][o])

ResultsAdded ==
    /\ results' \in [ResultPartitions -> Seq(Event)]
    /\ \A q \in ResultPartitions :
           /\ Len(results'[q]) \in Nat /\ Len(results[q]) <= Len(results'[q])
           /\ \A o \in 1..Len(results[q]) : results'[q][o] = results[q][o]

FaultsGrow ==
    /\ failures' \in Nat /\ stops' \in Nat /\ evictions' \in Nat
    /\ failures' >= failures /\ stops' >= stops /\ evictions' >= evictions

LEMMA AppendAdds ==
    ASSUME Typed, NEW w \in Workers, wpc[w] = "produce", NEW n \in Nat, AppendResult(w, n)
    PROVE  /\ ResultsAdded
           /\ \A q \in ResultPartitions : \A o \in 1..Len(results'[q]) :
                 \/ o \in 1..Len(results[q])
                 \/ q = ResultPartition[Req(w).url] /\ results'[q][o] = Answer(w)
<1> DEFINE rp == ResultPartition[Req(w).url]
           new == [i \in 1..n |-> Answer(w)]
<1>1. Req(w) \in Request /\ wresult[w] \in {"ok", "error"}
  BY ReqType DEF Busy, Typed, HandlerHasWork
<1>2. rp \in ResultPartitions /\ Answer(w) \in Event
  BY <1>1, WorkerAssumption DEF Request, Answer, Event
<1>3. new \in Seq(Event) /\ Len(new) = n /\ \A i \in 1..n : new[i] = Answer(w)
  BY <1>2
<1>4. /\ results' = [results EXCEPT ![rp] = results[rp] \o new]
      /\ results \in [ResultPartitions -> Seq(Event)]
  BY DEF AppendResult, Typed, TypeOK
<1>5. ASSUME NEW q \in ResultPartitions
      PROVE  /\ Len(results'[q]) \in Nat /\ Len(results[q]) <= Len(results'[q])
             /\ \A o \in 1..Len(results[q]) : results'[q][o] = results[q][o]
             /\ \A o \in 1..Len(results'[q]) :
                   \/ o \in 1..Len(results[q])
                   \/ q = rp /\ results'[q][o] = Answer(w)
  <2> DEFINE s == results[q]
             r == results'[q]
  <2>1. s \in Seq(Event) /\ Len(s) \in Nat
    BY <1>4
  <2>2. CASE q = rp
    <3>1. r = s \o new
      BY <1>2, <1>4, <2>2
    <3> HIDE DEF s, r, new
    <3>2. /\ Len(r) = Len(s) + Len(new)
          /\ \A o \in 1..(Len(s) + Len(new)) :
                r[o] = IF o <= Len(s) THEN s[o] ELSE new[o - Len(s)]
      BY <1>3, <2>1, <3>1, ConcatProperties
    <3>3. \A o \in 1..Len(s) : r[o] = s[o]
      BY <1>3, <2>1, <3>2
    <3>4. ASSUME NEW o \in 1..Len(r), o \notin 1..Len(s)
          PROVE  r[o] = Answer(w)
      <4>1. o - Len(s) \in 1..n /\ r[o] = new[o - Len(s)]
        BY <1>3, <2>1, <3>2, <3>4
      <4> QED BY <1>3, <4>1
    <3>5. Len(r) \in Nat /\ Len(s) <= Len(r)
      BY <1>3, <2>1, <3>2
    <3> QED BY <2>2, <3>3, <3>4, <3>5 DEF r, s
  <2>3. CASE q # rp
    <3>1. r = s
      BY <1>4, <2>3
    <3> QED BY <2>1, <3>1
  <2> QED BY <2>2, <2>3
<1> QED BY <1>5, AppendResultType DEF ResultsAdded

LEMMA WorkerStep ==
    ASSUME Typed, WorkerNext
    PROVE  /\ requests' = requests /\ FaultsGrow
           /\ \/ results' = results
              \/ \E w \in Workers, n \in Nat : wpc[w] = "produce" /\ AppendResult(w, n)
<1>0. failures \in Nat /\ stops \in Nat /\ evictions \in Nat
  BY DEF Typed, TypeOK
<1>1. ASSUME NEW w \in Workers, Produce(w) \/ ProduceRejects(w)
      PROVE  /\ requests' = requests /\ FaultsGrow
             /\ \E n \in Nat : wpc[w] = "produce" /\ AppendResult(w, n)
  <2>1. requests' = requests /\ FaultsGrow /\ wpc[w] = "produce"
    BY <1>0, <1>1 DEF Produce, ProduceRejects, RemoteFailure, requestVars, FaultsGrow
  <2>2. \E n \in {0, 1, 2} : AppendResult(w, n)
    BY <1>1 DEF Produce, ProduceRejects
  <2> QED BY <2>1, <2>2
<1>2. ASSUME NEW w \in Workers, Handle(w), ~(Produce(w) \/ ProduceRejects(w))
      PROVE  requests' = requests /\ FaultsGrow /\ results' = results
  BY <1>0, <1>2
  DEF Handle, Deliver, Crawl, CommitOffset, OffsetRejects, RemoteFailure, requestVars,
      faultVars, FaultsGrow
<1>3. ASSUME NEW w \in Workers, Shutdown(w) \/ Kill(w) \/ Restart(w)
      PROVE  requests' = requests /\ FaultsGrow /\ results' = results
  BY <1>0, <1>3
  DEF Shutdown, Kill, StopWorker, Restart, requestVars, faultVars, FaultsGrow
<1>4. ASSUME NEW p \in RequestPartitions, Rebalance(p)
      PROVE  requests' = requests /\ FaultsGrow /\ results' = results
  BY <1>0, <1>4 DEF Rebalance, EvictRequests, AssignRequests, faultVars, FaultsGrow
<1> QED BY <1>1, <1>2, <1>3, <1>4 DEF WorkerNext

LEMMA ResultsKept == ASSUME Typed, results' = results PROVE ResultsAdded
BY DEF ResultsAdded, Typed, TypeOK

LEMMA WorkerStepAdds ==
    ASSUME Typed, WorkerNext
    PROVE  ResultsAdded /\ FaultsGrow
BY WorkerStep, AppendAdds, ResultsKept

LEMMA SourcedAgain ==
    ASSUME requests' = requests,
           \A p \in ResultPartitions : \A o \in 1..Len(results'[p]) :
              /\ ResultPartition[results'[p][o].url] = p
              /\ \E x \in 1..Len(requests[PartitionOf(RequestOf(results'[p][o]))]) :
                    requests[PartitionOf(RequestOf(results'[p][o]))][x]
                       = RequestOf(results'[p][o])
    PROVE  Sourced'
BY DEF Sourced, PartitionOf, RequestOf

LEMMA SourcedStep ==
    ASSUME Typed, Sourced, WorkerNext
    PROVE  Sourced'
<1>1. requests' = requests
  BY WorkerStep
<1>2. CASE results' = results
  BY <1>1, <1>2 DEF Sourced, PartitionOf, RequestOf
<1>3. CASE \E w \in Workers, n \in Nat : wpc[w] = "produce" /\ AppendResult(w, n)
  <2>1. PICK w \in Workers, n \in Nat : wpc[w] = "produce" /\ AppendResult(w, n)
    BY <1>3
  <2> DEFINE k == wwork[w].part
             i == wwork[w].off + 1
  <2>2. /\ Req(w) \in Request /\ PartitionOf(Req(w)) = k
        /\ i \in 1..Len(requests[k]) /\ requests[k][i] = Req(w)
    BY <2>1, ReqType DEF Busy, Req
  <2>3. RequestOf(Answer(w)) = Req(w) /\ Answer(w).url = Req(w).url
    BY <2>2 DEF RequestOf, Answer, Request
  <2>4. /\ ResultPartition[Answer(w).url] = ResultPartition[Req(w).url]
        /\ \E x \in 1..Len(requests[PartitionOf(RequestOf(Answer(w)))]) :
              requests[PartitionOf(RequestOf(Answer(w)))][x] = RequestOf(Answer(w))
    <3> HIDE DEF k, i
    <3> QED BY <2>2, <2>3
  <2>5. ASSUME NEW p \in ResultPartitions, NEW o \in 1..Len(results'[p])
        PROVE  /\ ResultPartition[results'[p][o].url] = p
               /\ \E x \in 1..Len(requests[PartitionOf(RequestOf(results'[p][o]))]) :
                     requests[PartitionOf(RequestOf(results'[p][o]))][x]
                        = RequestOf(results'[p][o])
    <3>1. CASE o \in 1..Len(results[p])
      <4>1. results'[p][o] = results[p][o]
        BY <2>1, <3>1, AppendAdds DEF ResultsAdded
      <4> QED BY <3>1, <4>1 DEF Sourced
    <3>2. CASE o \notin 1..Len(results[p])
      <4>1. p = ResultPartition[Req(w).url] /\ results'[p][o] = Answer(w)
        BY <2>1, <3>2, AppendAdds
      <4> QED BY <2>4, <4>1
    <3> QED BY <3>1, <3>2
  <2> QED BY <1>1, <2>5, SourcedAgain
<1> QED BY <1>2, <1>3, WorkerStep

LEMMA SourcedArrivals ==
    ASSUME Typed, Sourced, Arrivals, results' = results
    PROVE  Sourced'
<1> SUFFICES ASSUME NEW p \in ResultPartitions, NEW o \in 1..Len(results[p])
             PROVE  /\ ResultPartition[results[p][o].url] = p
                    /\ \E i \in 1..Len(requests'[PartitionOf(RequestOf(results[p][o]))]) :
                          requests'[PartitionOf(RequestOf(results[p][o]))][i]
                             = RequestOf(results[p][o])
  BY DEF Sourced, PartitionOf, RequestOf
<1> DEFINE r == RequestOf(results[p][o])
           q == PartitionOf(r)
<1>1. q \in RequestPartitions
  <2>1. results[p] \in Seq(Event)
    BY DEF Typed, TypeOK
  <2>2. results[p][o] \in Event
    BY <2>1
  <2> QED BY <2>2, WorkerAssumption DEF RequestOf, PartitionOf, Event
<1>2. PICK i \in 1..Len(requests[q]) : requests[q][i] = r
  BY DEF Sourced
<1>3. requests'[q][i] = r /\ Len(requests[q]) <= Len(requests'[q]) /\ Len(requests'[q]) \in Nat
  BY <1>1, <1>2 DEF Arrivals
<1>4. Len(requests[q]) \in Nat
  BY <1>1 DEF Typed, TypeOK
<1>5. i \in 1..Len(requests'[q])
  <2> HIDE DEF q, r
  <2> QED BY <1>3, <1>4
<1>6. ResultPartition[results[p][o].url] = p
  BY DEF Sourced
<1> QED BY <1>3, <1>5, <1>6

LEMMA SourcedInit == Init => Sourced
BY DEF Init, Sourced

(***************************************************************************)
(* Requests that were asked once and answered twice are paid by faults.    *)
(***************************************************************************)
LEMMA TwoAnswers ==
    ASSUME Typed, NEW r \in Request,
           NEW a \in 1..Len(results[ResultPartition[r.url]]),
           NEW b \in 1..Len(results[ResultPartition[r.url]]), a # b,
           \A o \in {a, b} : /\ results[ResultPartition[r.url]][o].job = r.job
                             /\ results[ResultPartition[r.url]][o].url = r.url
    PROVE  Answered(r) >= 2
<1>1. {a, b} \subseteq Answers(r) /\ IsFiniteSet(Answers(r))
  BY CountsFinite DEF Answers
<1>2. Cardinality({a, b}) = 2
  <2>1. IsFiniteSet({a}) /\ Cardinality({a}) = 1
    BY FS_Singleton
  <2>2. b \notin {a} /\ {a} \cup {b} = {a, b}
    OBVIOUS
  <2>3. Cardinality({a} \cup {b}) = Cardinality({a}) + 1
    BY <2>1, <2>2, OneMore
  <2>4. Cardinality({a} \cup {b}) = 2
    BY <2>1, <2>3
  <2> QED BY <2>2, <2>4, Zenon
<1>3. Cardinality({a, b}) <= Cardinality(Answers(r)) /\ Cardinality(Answers(r)) \in Nat
  BY <1>1, SmallSubset
<1>4. Answered(r) = Cardinality(Answers(r))
  <2>1. results[ResultPartition[r.url]] \in Seq(Event)
    BY CountsFinite DEF Typed, TypeOK
  <2>2. DOMAIN results[ResultPartition[r.url]] = 1..Len(results[ResultPartition[r.url]])
    BY <2>1
  <2> QED BY <2>2 DEF Answered, Answers
<1> QED BY <1>2, <1>3, <1>4

LEMMA RepeatsPaid ==
    ASSUME Typed, Charged, NEW R \in SUBSET Request,
           \A r \in R : Asked(r) <= 1 /\ Answered(r) >= 2
    PROVE  IsFiniteSet(R) /\ Cardinality(R) <= Faults
<1> DEFINE f == [r \in R |-> <<r, 2>>]
<1>1. IsFiniteSet(InExcess) /\ Cardinality(InExcess) <= Faults
  BY ExcessPaid DEF DuplicatesNeedFaults, Faults
<1>2. f \in [R -> InExcess]
  <2> SUFFICES ASSUME NEW r \in R PROVE <<r, 2>> \in InExcess
    OBVIOUS
  <2>1. r \in Request
    OBVIOUS
  <2>2. Asked(r) \in Nat /\ Answered(r) \in Nat
    BY <2>1, CountsOf
  <2>3. 2 \in (Asked(r) + 1)..Answered(r)
    <3> DEFINE x == Asked(r)
               y == Answered(r)
    <3>1. x \in Nat /\ y \in Nat /\ x <= 1 /\ y >= 2
      BY <2>2
    <3> HIDE DEF x, y
    <3>2. 2 \in (x + 1)..y
      BY <3>1
    <3> QED BY <3>2 DEF x, y
  <2> QED BY <2>1, <2>3 DEF InExcess
<1>3. \A r, s \in R : f[r] = f[s] => r = s
  OBVIOUS
<1>4. IsFiniteSet(R) /\ Cardinality(R) <= Cardinality(InExcess)
  <2> HIDE DEF f
  <2>1. f \in Injection(R, InExcess)
    BY <1>2, <1>3 DEF Injection, IsInjective
  <2> QED BY <1>1, <2>1, FS_Injection
<1>5. Cardinality(R) \in Nat /\ Cardinality(InExcess) \in Nat
  BY <1>1, <1>4, FS_CardinalityType
<1>6. Faults \in Nat
  <2>1. failures \in Nat /\ stops \in Nat /\ evictions \in Nat
    BY DEF Typed, TypeOK
  <2> QED BY <2>1, ThreeFaults DEF Faults
<1> QED BY <1>1, <1>4, <1>5, <1>6
=============================================================================

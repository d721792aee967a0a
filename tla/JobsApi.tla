------------------------------ MODULE JobsApi -------------------------------
(***************************************************************************)
(* POST /jobs of the api service (routes/jobs.js) and the life of the      *)
(* process that serves it (index.js).                                      *)
(*                                                                         *)
(* A request validates its body, inserts the job's row and then publishes  *)
(* one crawl request per url, a chunk at a time.  The row and the messages *)
(* are not written together: a rejected call, a kill or a shutdown between *)
(* them leaves a job with some of its urls never published.  Any number of *)
(* requests are in progress at once, one per fresh job id.                 *)
(***************************************************************************)
EXTENDS Naturals, Sequences, FiniteSets

CONSTANTS Jobs, Urls,
          Domains, DomainOf,                    \* domainKey(url), the Kafka key
          RequestPartitions, RequestPartition,  \* where a key goes
          Bodies,             \* the url lists clients post, valid or not
          MaxUrls,            \* z.array(...).max(5000)
          ChunkSize,          \* chunkSize = 200
          NotCreated, NoBody,
          MaxFailures, MaxStops

VARIABLES jobs,      \* table jobs
          requests,  \* topic crawl_requests
          server,    \* the api process: up, or how far its shutdown() is
          post,      \* post[j]: where the handler of the POST of job j is
          body,      \* body[j]: the urls posted
          sent,      \* sent[j]: how many of them have been published
          failures, stops

postVars == <<post, body, sent>>
vars == <<jobs, requests, server, postVars, failures, stops>>

Request == [job : Jobs, url : Urls]
JobRow == [total : Nat \ {0}, done : Nat, failed : Nat,
           state : {"queued", "running", "done"}]

ASSUME ApiAssumption ==
    /\ DomainOf \in [Urls -> Domains]
    /\ RequestPartition \in [Domains -> RequestPartitions]
    /\ Bodies \subseteq Seq(Urls)
    /\ MaxUrls \in Nat \ {0} /\ ChunkSize \in Nat \ {0}
    /\ MaxFailures \in Nat /\ MaxStops \in Nat
    /\ NotCreated \notin JobRow
    /\ NoBody \notin Seq(Urls)

NothingPosted ==
    /\ jobs = [j \in Jobs |-> NotCreated]
    /\ requests = [p \in RequestPartitions |-> <<>>]
    /\ post = [j \in Jobs |-> "none"]
    /\ body = [j \in Jobs |-> NoBody]
    /\ sent = [j \in Jobs |-> 0]
    /\ failures = 0 /\ stops = 0

Init == NothingPosted /\ server = "down"

Goto(j, loc) == post' = [post EXCEPT ![j] = loc]

RemoteFailure == failures < MaxFailures /\ failures' = failures + 1
-----------------------------------------------------------------------------
(***************************************************************************)
(* The process accepts connections until app.close(), which shutdown()     *)
(* calls last but one; the producer is disconnected before it.             *)
(***************************************************************************)
Listening == server \in {"up", "nosink", "noproducer"}
Producing == server \in {"up", "nosink"}

(***************************************************************************)
(* The list scripts/submit_job.js and bench_job.js post for --n n: the     *)
(* seed urls, from the start again when there are fewer than n.            *)
(***************************************************************************)
SeedUrls(urls, n) == [i \in 1..n |-> urls[((i - 1) % Len(urls)) + 1]]

(***************************************************************************)
(* z.array(...).min(1).max(5000); and a slip without the bounds.           *)
(***************************************************************************)
AnyBody(b) == TRUE

Valid(b) == Len(b) \in 1..MaxUrls

(***************************************************************************)
(* A slip: the messages are sent before the row is inserted.               *)
(***************************************************************************)
SubmitSendsFirst(j, b) ==
    /\ Listening
    /\ post[j] = "none"
    /\ Goto(j, IF Valid(b) THEN "send" ELSE "400")
    /\ body' = [body EXCEPT ![j] = b]
    /\ UNCHANGED <<jobs, requests, server, sent, failures, stops>>

Submit(j, b) ==
    /\ Listening
    /\ post[j] = "none"
    /\ Goto(j, IF Valid(b) THEN "insert" ELSE "400")
    /\ body' = [body EXCEPT ![j] = b]
    /\ UNCHANGED <<jobs, requests, server, sent, failures, stops>>

NewRow(j) ==
    jobs' = [jobs EXCEPT ![j] = [total |-> Len(body[j]), done |-> 0, failed |-> 0,
                                 state |-> "queued"]]

InsertJob(j) ==
    /\ post[j] = "insert"
    /\ NewRow(j)
    /\ Goto(j, "send")
    /\ UNCHANGED <<requests, server, body, sent, failures, stops>>

(***************************************************************************)
(* db.query rejects, the row being there or not: Fastify answers 500.      *)
(***************************************************************************)
InsertRejects(j) ==
    /\ post[j] = "insert"
    /\ NewRow(j) \/ UNCHANGED jobs
    /\ Goto(j, "500")
    /\ RemoteFailure
    /\ UNCHANGED <<requests, server, body, sent, stops>>

(***************************************************************************)
(* messages.slice(i, i + chunkSize).  ChunkShort is a slip that loses the  *)
(* last message of each slice.                                             *)
(***************************************************************************)
ChunkEnd(j) == IF sent[j] + ChunkSize < Len(body[j]) THEN sent[j] + ChunkSize
               ELSE Len(body[j])

ChunkShort(j) == [i \in 1..(ChunkEnd(j) - sent[j] - 1) |->
                     [job |-> j, url |-> body[j][sent[j] + i]]]

Chunk(j) == [i \in 1..(ChunkEnd(j) - sent[j]) |->
                [job |-> j, url |-> body[j][sent[j] + i]]]

(***************************************************************************)
(* The producer splits a chunk by partition and keeps its order: on        *)
(* partition p the n-th message is the one of the n-th place with a key    *)
(* that goes there.                                                        *)
(***************************************************************************)
Rank(S, i) == Cardinality({k \in S : k <= i})
Nth(S, n) == CHOOSE i \in S : Rank(S, i) = n

PlacesOn(j, p) ==
    {i \in DOMAIN Chunk(j) : RequestPartition[DomainOf[Chunk(j)[i].url]] = p}

ChunkOn(j, p) ==
    [n \in 1..Cardinality(PlacesOn(j, p)) |-> Chunk(j)[Nth(PlacesOn(j, p), n)]]

AppendChunk(j, on) ==
    requests' = [p \in RequestPartitions |->
                    IF p \in on THEN requests[p] \o ChunkOn(j, p) ELSE requests[p]]

SendChunk(j) ==
    /\ post[j] = "send"
    /\ Producing
    /\ AppendChunk(j, RequestPartitions)
    /\ sent' = [sent EXCEPT ![j] = ChunkEnd(j)]
    /\ Goto(j, IF ChunkEnd(j) = Len(body[j]) THEN "200" ELSE "send")
    /\ UNCHANGED <<jobs, server, body, failures, stops>>

(***************************************************************************)
(* A slip: the rejection is logged and the loop goes on.                   *)
(***************************************************************************)
SendRejectionIgnored(j) ==
    /\ post[j] = "send"
    /\ Producing /\ RemoteFailure
    /\ sent' = [sent EXCEPT ![j] = ChunkEnd(j)]
    /\ Goto(j, IF ChunkEnd(j) = Len(body[j]) THEN "200" ELSE "send")
    /\ UNCHANGED <<jobs, requests, server, body, stops>>

(***************************************************************************)
(* producer.send rejects.  The partitions of a chunk are appended to one   *)
(* by one, so any of them may have got its part; a disconnected producer   *)
(* sends nothing.  The answer is 500 and the row stays.                    *)
(***************************************************************************)
SendRejects(j) ==
    /\ post[j] = "send"
    /\ \/ /\ Producing
          /\ RemoteFailure
          /\ \E on \in SUBSET RequestPartitions : AppendChunk(j, on)
       \/ ~Producing /\ UNCHANGED <<failures, requests>>
    /\ Goto(j, "500")
    /\ UNCHANGED <<jobs, server, body, sent, stops>>
-----------------------------------------------------------------------------
InProgress == {"insert", "send"}

(***************************************************************************)
(* shutdown(): the sink's consumer, the producer, the server, the pool.    *)
(* app.close() waits for the requests in progress.                         *)
(***************************************************************************)
BeginShutdown == server = "up" /\ server' = "nosink" /\ UNCHANGED postVars
DisconnectProducer == server = "nosink" /\ server' = "noproducer" /\ UNCHANGED postVars
CloseServer == server = "noproducer" /\ server' = "closing" /\ UNCHANGED postVars
Exit ==
    /\ server = "closing"
    /\ \A j \in Jobs : post[j] \notin InProgress
    /\ server' = "down"
    /\ UNCHANGED postVars

(***************************************************************************)
(* A kill cuts the connections: no client gets an answer.                  *)
(***************************************************************************)
Die ==
    /\ server # "down"
    /\ server' = "down"
    /\ post' = [j \in Jobs |-> IF post[j] \in InProgress THEN "cut" ELSE post[j]]
    /\ UNCHANGED <<body, sent>>

Start == server = "down" /\ server' = "up" /\ UNCHANGED postVars

PostNext ==
    \E j \in Jobs :
        \/ \E b \in Bodies : Submit(j, b)
        \/ InsertJob(j)
        \/ InsertRejects(j)
        \/ SendChunk(j)
        \/ SendRejects(j)

Next ==
    \/ PostNext
    \/ /\ UNCHANGED <<jobs, requests, failures>>
       /\ \/ (BeginShutdown \/ Die) /\ stops < MaxStops /\ stops' = stops + 1
          \/ (DisconnectProducer \/ CloseServer \/ Exit \/ Start) /\ UNCHANGED stops

Spec == Init /\ [][Next]_vars
-----------------------------------------------------------------------------
(***************************************************************************)
(* Types of all variables.                                                 *)
(***************************************************************************)
TypeOK ==
    /\ jobs \in [Jobs -> JobRow \cup {NotCreated}]
    /\ requests \in [RequestPartitions -> Seq(Request)]
    /\ server \in {"up", "nosink", "noproducer", "closing", "down"}
    /\ post \in [Jobs -> {"none", "400", "insert", "send", "200", "500", "cut"}]
    /\ body \in [Jobs -> Seq(Urls) \cup {NoBody}]
    /\ sent \in [Jobs -> Nat]
    /\ failures \in Nat /\ stops \in Nat

Occurrences(x, seq) == Cardinality({i \in DOMAIN seq : seq[i] = x})

Published(j, u) ==
    Occurrences([job |-> j, url |-> u], requests[RequestPartition[DomainOf[u]]])

(***************************************************************************)
(* Each url of a posted body was published as often as it was listed.      *)
(***************************************************************************)
FullyPublished(j) == \A u \in Urls : Published(j, u) = Occurrences(u, body[j])

(***************************************************************************)
(* An answer 200 {job_id, queued: urls.length} (jobs.js:77) is the truth:  *)
(* the row has that total and every url was published exactly as often as  *)
(* it was listed, across chunks, partitions and other requests.            *)
(***************************************************************************)
AcceptedMeansPublished ==
    \A j \in Jobs : post[j] = "200" =>
        /\ FullyPublished(j)
        /\ jobs[j] # NotCreated /\ jobs[j].total = Len(body[j])

(***************************************************************************)
(* No crawl request is in the topic before its job has a row whose total   *)
(* is the length of the whole list that was posted (jobs.js:48-71): the    *)
(* sink throws away a result whose job it does not find                    *)
(* (resultsSink.js:51-62) and compares its counters with that total, so a  *)
(* request published before it could lose its result for good, or finish   *)
(* the job early.                                                          *)
(***************************************************************************)
RowBeforeRequests ==
    \A p \in RequestPartitions : \A o \in DOMAIN requests[p] :
        LET j == requests[p][o].job IN
        jobs[j] # NotCreated /\ jobs[j].total = Len(body[j])

(***************************************************************************)
(* A row whose POST is over and whose urls are not all published, a job    *)
(* that can never be done, exists only after a rejected call, a kill or a  *)
(* shutdown.                                                               *)
(***************************************************************************)
OrphansNeedFaults ==
    \A j \in Jobs :
        jobs[j] # NotCreated /\ post[j] \notin InProgress /\ ~FullyPublished(j)
            => failures + stops > 0
=============================================================================

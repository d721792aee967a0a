---------------------------- MODULE ResultsSink ----------------------------
(***************************************************************************)
(* The results sink of the api service (consumers/resultsSink.js): a       *)
(* consumer of crawl_results that records every crawl result in PostgreSQL *)
(* and counts it in the job's row.                                         *)
(*                                                                         *)
(* One sink process handles one message at a time; each remote call of its *)
(* handler is one step, so that other sinks, the coordinator, the operator *)
(* and a kill of the process come between any two of them.  The            *)
(* transaction is the code's: BEGIN, SELECT ... FOR UPDATE, one INSERT,    *)
(* one UPDATE, COMMIT.  Its writes become visible at COMMIT, and the row   *)
(* lock it takes on the job is held until COMMIT or ROLLBACK.              *)
(*                                                                         *)
(* The environment (the api's POST handler, an operator who deletes jobs,  *)
(* the workers that publish results) is left as free as it can be, so what *)
(* holds here holds whatever the workers publish.                          *)
(***************************************************************************)
EXTENDS Naturals, Sequences, FiniteSets

CONSTANTS Jobs,              \* job ids
          Urls,              \* urls a job may list
          Sinks,             \* processes that run a results sink
          ResultPartitions,  \* partitions of crawl_results
          ResultPartition,   \* ResultPartition[u]: where the key of url u goes
          NotCreated,        \* jobs[j] before POST /jobs inserts the row
          Deleted,           \* jobs[j] after the row was removed
          Garbage,           \* a message that is not JSON
          NoWork, Nobody, NoOffset,
          FreshGroup,        \* TRUE: the group has never committed an offset
          MaxTotal,          \* bound on jobs.total
          MaxResults,        \* bound on the messages of all partitions
          MaxFailures,       \* bound on remote calls that reject
          MaxStops,          \* bound on kills and shutdowns of a process
          MaxEvictions       \* bound on partitions taken from a live member

VARIABLES jobs,              \* table jobs: the row, NotCreated or Deleted
          articles,          \* table articles: urls that have a row, per job
          errors,            \* table errors: urls that have a row, per job
          rowLock,           \* holder of the lock on the job's row
          results,           \* topic crawl_results
          resCommitted, resOwner, resPosition,  \* group results-sink
          spc,               \* spc[s]: the call the handler of s makes next
          swork,             \* swork[s]: partition and offset being handled
          sinserted,         \* sinserted[s]: INSERT ... RETURNING gave a row
          failures, stops, evictions

dbVars == <<jobs, articles, errors, rowLock>>
topicVars == <<results, resCommitted, resOwner, resPosition>>
sinkVars == <<spc, swork, sinserted>>
faultVars == <<failures, stops, evictions>>
vars == <<dbVars, topicVars, sinkVars, faultVars>>

Group == INSTANCE ConsumerGroup
    WITH Partitions <- ResultPartitions, Members <- Sinks, log <- results,
         committed <- resCommitted, owner <- resOwner, position <- resPosition

JobRow == [total : Nat \ {0}, done : Nat, failed : Nat,
           state : {"queued", "running", "done"}]
Entry == [total : Nat \ {0}, ok : SUBSET Urls, bad : SUBSET Urls]
Event == [job : Jobs, url : Urls, status : {"ok", "error"}]
Work == [part : ResultPartitions, off : Nat]
Locations == {"down", "idle", "garbage", "connect", "select", "missing", "insert",
              "commit", "offset"}

ASSUME ConstantsAssumption ==
    /\ IsFiniteSet(Urls)
    /\ ResultPartition \in [Urls -> ResultPartitions]
    /\ FreshGroup \in BOOLEAN
    /\ MaxTotal \in Nat /\ MaxResults \in Nat
    /\ MaxFailures \in Nat /\ MaxStops \in Nat /\ MaxEvictions \in Nat

(***************************************************************************)
(* The sentinels are told apart from the values they stand beside.         *)
(***************************************************************************)
ASSUME SentinelAssumption ==
    /\ NotCreated # Deleted
    /\ {NotCreated, Deleted} \cap (JobRow \cup Entry) = {}
    /\ Garbage \notin Event
    /\ NoWork \notin Work
    /\ Nobody \notin Sinks
    /\ NoOffset \notin Nat

Exists(j) == jobs[j] \notin {NotCreated, Deleted}

Msg(s) == results[swork[s].part][swork[s].off + 1]

(***************************************************************************)
(* Rows of the table a result of the given status goes to.                 *)
(***************************************************************************)
Rows(status) == IF status = "ok" THEN articles ELSE errors

(***************************************************************************)
(* Slips of the UPDATE below, for mutation testing of the properties: an   *)
(* outcome too early or too late for 'done'; a state the column does not   *)
(* have; an error counted as done too.                                     *)
(***************************************************************************)
CountedAs(row, d, f, state) ==
    [row EXCEPT !.done = @ + d, !.failed = @ + f, !.state = state]

CountedEarly(row, d, f) ==
    CountedAs(row, d, f, IF row.done + d + row.failed + f >= row.total - 1
                         THEN "done" ELSE "running")

CountedLate(row, d, f) ==
    CountedAs(row, d, f, IF row.done + d + row.failed + f > row.total
                         THEN "done" ELSE "running")

CountedFailedState(row, d, f) ==
    CountedAs(row, d, f, IF row.failed + f >= row.total THEN "failed" ELSE "running")

CountedTwice(row, d, f) ==
    [row EXCEPT !.done = @ + 1, !.failed = @ + f]

(***************************************************************************)
(* UPDATE jobs SET done = done + d, failed = failed + f, state = CASE ...  *)
(***************************************************************************)
Counted(row, d, f) ==
    [row EXCEPT
        !.done = @ + d,
        !.failed = @ + f,
        !.state = IF row.done + d + row.failed + f >= row.total THEN "done"
                  ELSE IF @ = "queued" /\ d + f > 0 THEN "running"
                  ELSE @]
-----------------------------------------------------------------------------
Init ==
    /\ jobs = [j \in Jobs |-> NotCreated]
    /\ articles = [j \in Jobs |-> {}]
    /\ errors = [j \in Jobs |-> {}]
    /\ rowLock = [j \in Jobs |-> Nobody]
    /\ results = [p \in ResultPartitions |-> <<>>]
    /\ resCommitted = [p \in ResultPartitions |-> IF FreshGroup THEN NoOffset ELSE 0]
    /\ resOwner = [p \in ResultPartitions |-> Nobody]
    /\ resPosition = [p \in ResultPartitions |-> 0]
    /\ spc = [s \in Sinks |-> "idle"]
    /\ swork = [s \in Sinks |-> NoWork]
    /\ sinserted = [s \in Sinks |-> FALSE]
    /\ failures = 0 /\ stops = 0 /\ evictions = 0
-----------------------------------------------------------------------------
(***************************************************************************)
(* Ways an invocation of the handler ends.                                 *)
(***************************************************************************)
Goto(s, loc) == spc' = [spc EXCEPT ![s] = loc]

EndHandler(s) ==
    /\ Goto(s, "idle")
    /\ swork' = [swork EXCEPT ![s] = NoWork]
    /\ sinserted' = [sinserted EXCEPT ![s] = FALSE]

(***************************************************************************)
(* eachMessage resolves, so kafkajs moves past the message.                *)
(***************************************************************************)
Return(s) == EndHandler(s) /\ Group!Resolve(swork[s].part, s, swork[s].off)

(***************************************************************************)
(* eachMessage rejects, so kafkajs delivers the same message again.        *)
(***************************************************************************)
Throw(s) == EndHandler(s) /\ UNCHANGED resPosition

ReleaseLocks(s) ==
    rowLock' = [j \in Jobs |-> IF rowLock[j] = s THEN Nobody ELSE rowLock[j]]

RemoteFailure == failures < MaxFailures /\ failures' = failures + 1

(***************************************************************************)
(* kafkajs hands the next message to the handler, which parses it.         *)
(***************************************************************************)
Deliver(s, p) ==
    /\ spc[s] = "idle"
    /\ Group!Ready(p, s)
    /\ swork' = [swork EXCEPT ![s] = [part |-> p, off |-> resPosition[p]]]
    /\ Goto(s, IF results[p][resPosition[p] + 1] = Garbage THEN "garbage"
               ELSE "connect")
    /\ UNCHANGED <<dbVars, topicVars, sinserted, faultVars>>

(***************************************************************************)
(* db.connect(): it is awaited before the try block.                       *)
(***************************************************************************)
Connect(s) ==
    /\ spc[s] = "connect"
    /\ \/ Goto(s, "select") /\ UNCHANGED <<resPosition, swork, sinserted, failures>>
       \/ Throw(s) /\ RemoteFailure
    /\ UNCHANGED <<dbVars, results, resCommitted, resOwner, stops, evictions>>

(***************************************************************************)
(* A slip of the SELECT: with SKIP LOCKED a job whose row another sink has *)
(* locked looks like a job that has none.                                  *)
(***************************************************************************)
SelectSkipLocked(s) ==
    LET j == Msg(s).job IN
    /\ spc[s] = "select"
    /\ IF Exists(j) /\ rowLock[j] = Nobody
       THEN rowLock' = [rowLock EXCEPT ![j] = s] /\ Goto(s, "insert")
       ELSE Goto(s, "missing") /\ UNCHANGED rowLock
    /\ UNCHANGED <<jobs, articles, errors, topicVars, swork, sinserted, faultVars>>

(***************************************************************************)
(* BEGIN; SELECT job_id FROM jobs WHERE job_id=$1 FOR UPDATE.  A job that  *)
(* has no row leads to ROLLBACK.                                           *)
(***************************************************************************)
SelectJob(s) ==
    LET j == Msg(s).job IN
    /\ spc[s] = "select"
    /\ \/ /\ Exists(j)
          /\ rowLock[j] = Nobody
          /\ rowLock' = [rowLock EXCEPT ![j] = s]
          /\ Goto(s, "insert")
       \/ /\ ~Exists(j)
          /\ Goto(s, "missing")
          /\ UNCHANGED rowLock
    /\ UNCHANGED <<jobs, articles, errors, topicVars, swork, sinserted, faultVars>>

(***************************************************************************)
(* A slip of the INSERT: no unique index, so it always returns a row.      *)
(***************************************************************************)
InsertWithoutIndex(s) ==
    /\ spc[s] = "insert"
    /\ sinserted' = [sinserted EXCEPT ![s] = TRUE]
    /\ Goto(s, "commit")
    /\ UNCHANGED <<dbVars, topicVars, swork, faultVars>>

(***************************************************************************)
(* INSERT INTO articles / errors ... ON CONFLICT DO NOTHING RETURNING id.  *)
(***************************************************************************)
InsertRow(s) ==
    /\ spc[s] = "insert"
    /\ sinserted' = [sinserted EXCEPT
                        ![s] = Msg(s).url \notin Rows(Msg(s).status)[Msg(s).job]]
    /\ Goto(s, "commit")
    /\ UNCHANGED <<dbVars, topicVars, swork, faultVars>>

(***************************************************************************)
(* A slip of the transaction: it counts a row that was there already.      *)
(***************************************************************************)
ApplyTxUnguarded(s) ==
    LET m == Msg(s)
        ok == m.status = "ok" IN
    /\ jobs' = [jobs EXCEPT ![m.job] =
                    Counted(@, IF ok THEN 1 ELSE 0, IF ok THEN 0 ELSE 1)]
    /\ articles' = [articles EXCEPT ![m.job] = IF ok THEN @ \cup {m.url} ELSE @]
    /\ errors' = [errors EXCEPT ![m.job] = IF ok THEN @ ELSE @ \cup {m.url}]
    /\ ReleaseLocks(s)

(***************************************************************************)
(* What the transaction of s leaves behind when it commits: the inserted   *)
(* row, and, if there is one, the job's counters moved by it.              *)
(***************************************************************************)
ApplyTx(s) ==
    LET m == Msg(s)
        ok == m.status = "ok" IN
    /\ IF sinserted[s]
       THEN jobs' = [jobs EXCEPT ![m.job] =
                        Counted(@, IF ok THEN 1 ELSE 0, IF ok THEN 0 ELSE 1)]
       ELSE UNCHANGED jobs
    /\ articles' = [articles EXCEPT ![m.job] = IF ok THEN @ \cup {m.url} ELSE @]
    /\ errors' = [errors EXCEPT ![m.job] = IF ok THEN @ ELSE @ \cup {m.url}]
    /\ ReleaseLocks(s)

CommitTx(s) ==
    /\ spc[s] = "commit"
    /\ ApplyTx(s)
    /\ Goto(s, "offset")
    /\ UNCHANGED <<topicVars, swork, sinserted, faultVars>>

(***************************************************************************)
(* The server committed and the answer was lost: the handler sees COMMIT   *)
(* reject, runs its catch block and resolves.                              *)
(***************************************************************************)
CommitAckLost(s) ==
    /\ spc[s] = "commit"
    /\ ApplyTx(s)
    /\ Return(s)
    /\ RemoteFailure
    /\ UNCHANGED <<results, resCommitted, resOwner, stops, evictions>>

(***************************************************************************)
(* A slip of the catch block: no ROLLBACK before the client is released.   *)
(***************************************************************************)
QueryRejectsNoRollback(s) ==
    /\ spc[s] \in {"select", "insert", "commit"}
    /\ Return(s)
    /\ RemoteFailure
    /\ UNCHANGED <<dbVars, results, resCommitted, resOwner, stops, evictions>>

(***************************************************************************)
(* A query rejects: catch rolls back, logs "will retry via Kafka", commits *)
(* no offset and resolves.                                                 *)
(***************************************************************************)
QueryRejects(s) ==
    /\ spc[s] \in {"select", "insert", "commit"}
    /\ ReleaseLocks(s)
    /\ Return(s)
    /\ RemoteFailure
    /\ UNCHANGED <<jobs, articles, errors, results, resCommitted, resOwner,
                   stops, evictions>>

(***************************************************************************)
(* Where the handler calls commitOffsets; and a slip, where it does so     *)
(* before COMMIT.                                                          *)
(***************************************************************************)
CommitsOffsetEarly == {"garbage", "missing", "commit", "offset"}

CommitsOffset == {"garbage", "missing", "offset"}

CommitOffset(s) ==
    /\ spc[s] \in CommitsOffset
    /\ Group!CommitAccepted(swork[s].part, s, swork[s].off)
    /\ Return(s)
    /\ UNCHANGED <<dbVars, results, resOwner, faultVars>>

(***************************************************************************)
(* commitOffsets rejects, because the partition is no longer ours or       *)
(* because the call failed, before or after the broker took the offset.    *)
(* For garbage it is awaited outside try.                                  *)
(***************************************************************************)
OffsetRejects(s) ==
    /\ spc[s] \in CommitsOffset
    /\ \/ /\ Group!CommitRefused(swork[s].part, s)
          /\ UNCHANGED <<resCommitted, failures>>
       \/ /\ UNCHANGED resCommitted \/ Group!CommitAccepted(swork[s].part, s, swork[s].off)
          /\ RemoteFailure
    /\ IF spc[s] = "garbage" THEN Throw(s) ELSE Return(s)
    /\ UNCHANGED <<dbVars, results, resOwner, stops, evictions>>
-----------------------------------------------------------------------------
(***************************************************************************)
(* SIGTERM: shutdown() disconnects the consumer, which waits for the       *)
(* handler in progress.  A kill does not wait: PostgreSQL rolls back.      *)
(***************************************************************************)
StopSink(s) ==
    /\ stops < MaxStops
    /\ stops' = stops + 1
    /\ spc' = [spc EXCEPT ![s] = "down"]
    /\ swork' = [swork EXCEPT ![s] = NoWork]
    /\ sinserted' = [sinserted EXCEPT ![s] = FALSE]
    /\ Group!Leave(s)
    /\ ReleaseLocks(s)
    /\ UNCHANGED <<jobs, articles, errors, results, resCommitted, resPosition,
                   failures, evictions>>

Shutdown(s) == spc[s] = "idle" /\ StopSink(s)
Kill(s) == spc[s] \notin {"idle", "down"} /\ StopSink(s)

Restart(s) ==
    /\ spc[s] = "down"
    /\ Goto(s, "idle")
    /\ UNCHANGED <<dbVars, topicVars, swork, sinserted, faultVars>>

AssignResults(p, s) ==
    /\ spc[s] = "idle"
    /\ Group!Assign(p, s)
    /\ UNCHANGED <<dbVars, results, resCommitted, sinkVars, faultVars>>

EvictResults(p) ==
    /\ evictions < MaxEvictions
    /\ evictions' = evictions + 1
    /\ Group!Evict(p)
    /\ UNCHANGED <<dbVars, results, resCommitted, resPosition, sinkVars,
                   failures, stops>>

(***************************************************************************)
(* One step of the handler of s.                                           *)
(***************************************************************************)
Handle(s) ==
    \/ \E p \in ResultPartitions : Deliver(s, p)
    \/ Connect(s)
    \/ SelectJob(s)
    \/ InsertRow(s)
    \/ CommitTx(s)
    \/ CommitAckLost(s)
    \/ QueryRejects(s)
    \/ CommitOffset(s)
    \/ OffsetRejects(s)

Rebalance(p) == EvictResults(p) \/ \E s \in Sinks : AssignResults(p, s)

SinkNext ==
    \/ \E s \in Sinks : Handle(s) \/ Shutdown(s) \/ Kill(s) \/ Restart(s)
    \/ \E p \in ResultPartitions : Rebalance(p)
-----------------------------------------------------------------------------
(***************************************************************************)
(* The environment.                                                        *)
(***************************************************************************)

(***************************************************************************)
(* INSERT INTO jobs ... VALUES($1,$2,0,0,'queued') of POST /jobs.          *)
(***************************************************************************)
CreateJob(j, total) ==
    /\ jobs[j] = NotCreated
    /\ jobs' = [jobs EXCEPT ![j] = [total |-> total, done |-> 0, failed |-> 0,
                                    state |-> "queued"]]
    /\ UNCHANGED <<articles, errors, rowLock, topicVars, sinkVars, faultVars>>

(***************************************************************************)
(* A slip of the schema: articles and errors do not refer to jobs.         *)
(***************************************************************************)
DeleteJobNoCascade(j) ==
    /\ Exists(j)
    /\ rowLock[j] = Nobody
    /\ jobs' = [jobs EXCEPT ![j] = Deleted]
    /\ UNCHANGED <<articles, errors, rowLock, topicVars, sinkVars, faultVars>>

(***************************************************************************)
(* Somebody deletes the job, which no code of the repository does but the  *)
(* handler expects; articles and errors go with it (ON DELETE CASCADE).    *)
(***************************************************************************)
DeleteJob(j) ==
    /\ Exists(j)
    /\ rowLock[j] = Nobody
    /\ jobs' = [jobs EXCEPT ![j] = Deleted]
    /\ articles' = [articles EXCEPT ![j] = {}]
    /\ errors' = [errors EXCEPT ![j] = {}]
    /\ UNCHANGED <<rowLock, topicVars, sinkVars, faultVars>>

Published == UNION {{p} \X DOMAIN results[p] : p \in ResultPartitions}

(***************************************************************************)
(* A worker publishes a result of a job that exists or existed.            *)
(***************************************************************************)
PublishResult(m) ==
    /\ jobs[m.job] # NotCreated
    /\ Cardinality(Published) < MaxResults
    /\ Group!Publish(ResultPartition[m.url], m)
    /\ UNCHANGED <<dbVars, resCommitted, resOwner, resPosition, sinkVars, faultVars>>

PublishGarbage(p) ==
    /\ Cardinality(Published) < MaxResults
    /\ Group!Publish(p, Garbage)
    /\ UNCHANGED <<dbVars, resCommitted, resOwner, resPosition, sinkVars, faultVars>>

EnvNext ==
    \/ \E j \in Jobs, n \in 1..MaxTotal : CreateJob(j, n)
    \/ \E j \in Jobs : DeleteJob(j)
    \/ \E m \in Event : PublishResult(m)
    \/ \E p \in ResultPartitions : PublishGarbage(p)

Next == SinkNext \/ EnvNext

Spec == Init /\ [][Next]_vars
-----------------------------------------------------------------------------
(***************************************************************************)
(* Types of all variables.                                                 *)
(***************************************************************************)
TypeOK ==
    /\ jobs \in [Jobs -> JobRow \cup {NotCreated, Deleted}]
    /\ articles \in [Jobs -> SUBSET Urls]
    /\ errors \in [Jobs -> SUBSET Urls]
    /\ rowLock \in [Jobs -> Sinks \cup {Nobody}]
    /\ results \in [ResultPartitions -> Seq(Event \cup {Garbage})]
    /\ resCommitted \in [ResultPartitions -> Nat \cup {NoOffset}]
    /\ resOwner \in [ResultPartitions -> Sinks \cup {Nobody}]
    /\ resPosition \in [ResultPartitions -> Nat]
    /\ spc \in [Sinks -> Locations]
    /\ swork \in [Sinks -> Work \cup {NoWork}]
    /\ sinserted \in [Sinks -> BOOLEAN]
    /\ failures \in Nat /\ stops \in Nat /\ evictions \in Nat

(***************************************************************************)
(* The counters of a job are the numbers of its rows: however often a      *)
(* result is delivered, to however many sinks, whatever fails between      *)
(* INSERT, UPDATE, COMMIT and the offset commit, each row is counted once  *)
(* and nothing else is ("counters only if the insert really happened",     *)
(* resultsSink.js:41-42).                                                  *)
(***************************************************************************)
CountersMatchRows ==
    \A j \in Jobs : Exists(j) =>
        /\ jobs[j].done = Cardinality(articles[j])
        /\ jobs[j].failed = Cardinality(errors[j])

(***************************************************************************)
(* The state column is a function of the counters: the CASE of the UPDATE, *)
(* applied step by step, never skips 'running', never leaves a job that    *)
(* has all its outcomes short of 'done', and never takes 'done' back.      *)
(***************************************************************************)
StateMatchesCounters ==
    \A j \in Jobs : Exists(j) =>
        LET answered == jobs[j].done + jobs[j].failed IN
        jobs[j].state = IF answered >= jobs[j].total THEN "done"
                        ELSE IF answered > 0 THEN "running" ELSE "queued"

(***************************************************************************)
(* A row lock never outlives the transaction that took it: every path out  *)
(* of the handler (return, catch, kill) has committed or rolled back, so a *)
(* later result of the job is never blocked by a lock nobody holds.        *)
(***************************************************************************)
NoLockLeak ==
    \A j \in Jobs : rowLock[j] # Nobody =>
        /\ spc[rowLock[j]] \in {"insert", "commit"}
        /\ Msg(rowLock[j]).job = j

(***************************************************************************)
(* A handler in progress has a message of the log, and, past the parse, a  *)
(* crawl result.                                                           *)
(***************************************************************************)
HandlerHasWork ==
    \A s \in Sinks : spc[s] \notin {"idle", "down"} =>
        /\ swork[s] \in Work
        /\ swork[s].off < Len(results[swork[s].part])
        /\ spc[s] # "garbage" => Msg(s) # Garbage

(***************************************************************************)
(* What a transaction in progress knows: it holds the lock of a job that   *)
(* exists, so nothing it read can change before it commits; after the      *)
(* INSERT it knows whether its row was there.                              *)
(***************************************************************************)
Isolated(s) ==
    /\ spc[s] \in {"insert", "commit"} =>
        rowLock[Msg(s).job] = s /\ Exists(Msg(s).job)
    /\ spc[s] = "commit" =>
        (sinserted[s] <=> Msg(s).url \notin Rows(Msg(s).status)[Msg(s).job])

TransactionIsolated == \A s \in Sinks : Isolated(s)

(***************************************************************************)
(* Articles and errors belong to jobs that exist.                          *)
(***************************************************************************)
RowsHaveJob == \A j \in Jobs : ~Exists(j) => articles[j] = {} /\ errors[j] = {}

(***************************************************************************)
(* The inductive invariant behind the four invariants above.               *)
(***************************************************************************)
SinkInvariant ==
    /\ TypeOK
    /\ HandlerHasWork
    /\ NoLockLeak
    /\ TransactionIsolated
    /\ RowsHaveJob
    /\ CountersMatchRows
    /\ StateMatchesCounters

Recorded(m) ==
    \/ m = Garbage
    \/ ~Exists(m.job)
    \/ m.url \in Rows(m.status)[m.job]

(***************************************************************************)
(* At least once, as the comment at resultsSink.js:140 has it: a result    *)
(* below the committed offset has been recorded, or its job is gone.       *)
(***************************************************************************)
AtLeastOnce ==
    \A p \in ResultPartitions : resCommitted[p] # NoOffset =>
        \A o \in 0..(resCommitted[p] - 1) : Recorded(results[p][o + 1])

(***************************************************************************)
(* What the code does guarantee: as long as no remote call has rejected    *)
(* and the group did not start without offsets, kills, shutdowns, lost     *)
(* partitions and handlers that go on without their partition leave no     *)
(* result behind the committed offset unrecorded.                          *)
(***************************************************************************)
AtLeastOnceUnlessRejected == failures = 0 /\ ~FreshGroup => AtLeastOnce

(***************************************************************************)
(* What a rejected call may cost ("will retry via Kafka",                  *)
(* resultsSink.js:138, which happens only if no later message of the       *)
(* partition is committed first): one result, its own.  However calls,     *)
(* kills, evictions, redeliveries and deletions interleave, the results    *)
(* behind the committed offsets that have no row, though their job has     *)
(* one, are at most as many as the calls that rejected.                    *)
(***************************************************************************)
Overlooked ==
    UNION {{p} \X {o \in 0..(resCommitted[p] - 1) : ~Recorded(results[p][o + 1])} :
             p \in ResultPartitions}

LossesNeedRejections == ~FreshGroup => Cardinality(Overlooked) <= failures

(***************************************************************************)
(* The sink implements JobBoard: each of its steps is invisible to a       *)
(* client or records exactly one outcome together with its effect on the   *)
(* row.                                                                    *)
(***************************************************************************)
Board == INSTANCE JobBoard
    WITH board <- [j \in Jobs |-> IF Exists(j)
                                  THEN [total |-> jobs[j].total,
                                        ok |-> articles[j], bad |-> errors[j]]
                                  ELSE jobs[j]],
         shown <- jobs

ImplementsJobBoard == Board!Spec
=============================================================================

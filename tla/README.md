# TLA+ models of unix_lab1

This directory holds TLA+ models of the programs of this repository, the TLC
configurations that check them on small instances, and TLAPS proofs of what
matters most about them. Paths below are relative to the repository; `agg/`
stands for `unix_lab4/aggregator/`.

```
tlc -workers 2 -config sink.cfg MCResultsSink.tla     # check a run
tlapm ResultsSinkProofs.tla                           # check proofs
```

## 1. The system

The repository is a set of course projects. One of them is a distributed
service, the *aggregator*; the others are small programs.

### 1.1 The aggregator (`agg/`)

A client posts a list of urls as a *job*. The api stores a row for the job in
PostgreSQL and publishes one crawl request per url on the Kafka topic
`crawl_requests`. Workers crawl the urls and publish the outcomes on
`crawl_results`. The results sink, which runs inside the api process, records
each outcome as a row of `articles` or `errors` and counts it in the job's row.
A client polls `GET /jobs/:job_id` until the state is `done`.

```
 POST /jobs ── row of jobs ────────────────────────────────► PostgreSQL
     └── crawl_requests ──► workers ── crawl_results ──► sink ──┘
 GET /jobs/:job_id ◄────────────────────────────────────────────
```

| component | source | state | operations | interacts through |
|---|---|---|---|---|
| jobs api | `services/api/src/routes/jobs.js`, `index.js`, `server.js` | rows of `jobs`; the requests in progress; how far `shutdown()` is | POST (validate, insert, send in chunks of 200, answer), GETs, start, shutdown, death | table `jobs`, topic `crawl_requests` |
| results sink | `services/api/src/consumers/resultsSink.js`, `migrations/001_init.sql` | `jobs`, `articles`, `errors`, row locks, committed offsets | one handler: parse, BEGIN, SELECT FOR UPDATE, INSERT, UPDATE, COMMIT, commitOffsets, ROLLBACK | topic `crawl_results`, PostgreSQL |
| worker | `services/worker/src/index.js` | committed offsets; per-process semaphores | one handler: parse, crawl, produce, commitOffsets | both topics |
| fetcher, robots, extractor | `services/worker/src/{fetcher,robots,extractor}.js` | robots cache, kept as long as the process lives | retries with back-off, robots.txt lookup, text extraction | called by the worker |
| limiter | `services/worker/src/limiter.js` | counter and waiters of a semaphore, one per domain | acquire, release | called by the worker |
| migrations, pool | `services/api/src/{migrate,db}.js` | table of migrations | run at start | PostgreSQL |
| env, logger, kafka, routes/health | | none of their own | | |
| scripts, infra | `scripts/*.js`, `infra/kafka/*` | none | clients of the api; topic creation | HTTP |

What is hard here: two logs, a database and three kinds of process without a
transaction across them; delivery at least once with hand-made offset commits;
handlers that go on after their partition was given to another member; error
handlers that swallow; a shutdown that closes things in an order of its own.

What makes it correct: the counters are those of the rows, whatever is
redelivered; the state is that of the counters; every result and request is
handled at least once; a 200 is true; one process at a time visits a domain;
every accepted job is done some day, and `done` is honest.

### 1.2 The small programs

| component | source | state | hard part | correct if |
|---|---|---|---|---|
| event monitor | `os_lab1/monitor.cpp` | mutex, one condition variable, one slot, flags, three threads | notify_one on a shared condition variable, spurious wakeups, shutdown against a late consumer | no event lost, repeated or reordered; no lost wakeup; ends |
| shared files | `unix_lab2/entrypoint.sh` | files on a volume, flock, several containers | scan under the lock against writes and removals without it; kills | names exclusive, contents own, lock released |
| SIGHUP server | `os_lab2/main.cpp` | signal mask, flag, listener, one client | signals between pselect calls | each SIGHUP burst reported, none interrupts I/O |
| kernel module | `os_lab3/main.c` | /proc entry | 64-bit arithmetic, clock set back | arithmetic in range |
| build script | `unix_lab1/lab1.sh` | temporary directory, exit code | EXIT trap with `sh -e` | directory removed, exit code true |
| hard links | `unix_lab3/main.cpp` | files, groups by hash | remove before link; last partial block not hashed | no content lost |

`PROJECT.json` lists every hazard found in this code at its line, with the
properties that would catch it, or the reason why none does yet.

## 2. Modules

| module | models | checked by |
|---|---|---|
| `ConsumerGroup` | one topic and one consumer group as the two services use them through kafkajs (external) | through its instances |
| `ResultsSink` | the sink's handler, transactions, offsets, faults | `sink`, `sink_lost` |
| `JobBoard` | abstract: what a client who polls is promised | property `ImplementsJobBoard` |
| `ReadApi` | the GET routes, their paging clients and `bench_job.js`, over a `JobBoard` | `read_api` |
| `Worker` | the worker's handler, offsets, faults; the crawl is one step | `worker` |
| `Limiter` | the class `Semaphore` | through `Crawl` |
| `Crawl` | the crawl of one url inside a worker: semaphores, robots, downloads, extraction | `crawl` |
| `JobsApi` | POST /jobs and the server's shutdown | through `ApiProcess` |
| `Migrations` | `main()` of the api up to `app.listen`, with `runMigrations` | through `ApiProcess` |
| `ApiProcess` | the composition: one api process from start to end | `api_posts` |
| `Aggregator` | the composition: JobsApi, Worker, ResultsSink over shared variables | `aggregator`, `agg_repeated` |
| `EventMonitor` | os_lab1 | `monitor` |
| `SharedFiles` | unix_lab2 | `shared_files` |
| `SighupServer` | os_lab2 | `sighup` |
| `HardLinks` | unix_lab3 | `hardlinks` |
| `ResultsSinkProofs`, `WorkerProofs`, `CrawlProofs`, `ApiProcessProofs`, `ReadApiProofs`, `AggregatorProofs`, `HardLinksProofs` | proofs about the module each is named for | tlapm |
| `LabProofs` | proofs about `SharedFiles`, `EventMonitor` and `SighupServer` | tlapm |

`MC*` modules only give values to constants. `PROJECT.json` maps each
definition to the lines it stands for.

### 2.1 State and actions against the code

**ConsumerGroup.** `log[p]` is a partition, `committed[p]` the group's offset,
`owner[p]` the assignment, `position[p]` the offset kafkajs delivers next. What
the handlers depend on is in three facts: the position moves past a message
when its handler *resolves*, whether or not an offset was committed;
`commitOffsets` of a member that lost the partition is refused; and, with
`fromBeginning: false`, a group without an offset starts at the end of the log.
Kafka and kafkajs are not in the repository; the module is what the services
assume of them, and is marked external in the map.

**ResultsSink.** `spc[s]` is the call the handler of sink `s` awaits next:
`connect` (pool.connect and BEGIN), `select` (FOR UPDATE), `insert`, `commit`
(UPDATE and COMMIT), `offset` (commitOffsets), with `missing` (the job is
gone, ROLLBACK and commit the offset) and `garbage` (not JSON, commit the offset
outside `try`). The writes of a transaction appear at COMMIT, and the row lock
is held from SELECT to COMMIT or ROLLBACK, which is why UPDATE and COMMIT may
be one step: nobody else can see the difference. Every remote call can reject
(`QueryRejects`, `OffsetRejects`), COMMIT can succeed and its answer be lost
(`CommitAckLost`), and so can commitOffsets (`OffsetRejects`), the process can be killed at any step (`Kill`: PostgreSQL
rolls back) or shut down between messages, and the coordinator can take a
partition from a handler in progress, which then continues unaware. An INSERT
knows at once whether it gives a row, because the lock on the job's row keeps
every other sink from inserting for it.

**Worker.** `crawl` (robots, fetch, extraction: any of `Outcomes[u]`), then
`produce`, then `commit`. A rejected `producer.send` may or may not have
appended, and a rejected `commitOffsets` may or may not have committed. The domain
is the Kafka key, so `RequestPartition[DomainOf[u]]` is the partition.

**Crawl.** What `Worker` has in one step. `pc[h]` follows one invocation of
`eachMessage` through `globalSem.use` and `domainLimiter.use`, the robots cache,
`fetchWithRetries` and `extractArticle`. `release()` shifts the queue and wakes
its first waiter, but that waiter increments the counter only when its promise
callback runs (`wokenGlobal`, `wokenDomain`); another handler may find the slot
free in between, so with more than one handler at a time a semaphore lets in
more than its maximum for a while. kafkajs runs one handler per process unless
`partitionsConsumedConcurrently` says otherwise, which `worker/src/index.js`
does not, so no property forbids it; what the counter must be, and that nobody
waits for ever behind an empty semaphore, is `SemaphoresSound`. Downloads end in
a status or an exception, and which of them are tried again is `CanRetry`, from
the text of the message as in `classifyError`. The robots cache never expires and
keeps `null` for an origin whose robots.txt could not be had, which allows
everything.

**JobsApi.** `post[j]` follows the handler of the POST of job `j`; several are
in progress at once. A chunk goes to several partitions and a rejected send
may have reached any of them; what a partition gets of a chunk is given by the
rank of each place among the places that go there (`ChunkOn`). `server` follows `shutdown()`: sink disconnected,
producer disconnected, server closed, exit; the server still listens while the
producer is already gone, as in `index.js:50-65`.

**Migrations, ApiProcess.** `at` is what `main()` awaits. The queries are awaited
one after the other, so `pool.query` takes the same idle client each time, and
BEGIN, the file, its id and COMMIT are one transaction; what was written before
COMMIT is in no variable. The end of the process at COMMIT may find it carried
out or not. `Deploy` is an image with one more file. `JobsApi` can act only
from `Serve` (app.listen) on. The pool has no listener for errors of idle
clients, so a lost connection ends the process: that is a kill.

**ReadApi.** Instead of the sink's steps it has the `JobBoard`, which the sink
implements, and the one thing that the order of pages adds: INSERT draws an id
before COMMIT shows the row. The list of a job's articles is its rows by the rank
of their ids. `client` is a client's walk through pages, or
`bench_job.js`.

**Aggregator.** Uses the actions of the three modules unchanged. Its only
definitions are which variables a step of one component leaves alone, and that
the api process has one life: `BeginShutdown` and the sink's `Shutdown`, `Die`
and `StopSink`, `Start` and `Restart` are one step.

**EventMonitor.** What a method does between taking the mutex and releasing or
waiting is one step, as the mutex guarantees. `waitSet` is the set of threads
blocked in `cond_.wait`.

**SighupServer.** `pc` is the call main makes next. SIGHUP is fatal before
`sigaction`, sets the flag at once between `sigaction` and `sigprocmask`, and is
pending, at most once, after it. If descriptors are ready and the signal is
pending, pselect may report either. After EINTR the set is what was passed, so
it names descriptors that are not ready; `accept` and `recv` are disabled where
they would block, so a server that called them would be stuck in the model as
in reality. The second connection is accepted and closed in one step. `accept`
itself may fail, which ends the server (`AcceptFails`). A peer that gives up before
it is accepted leaves its connection in the queue on Linux, so the queue gets
shorter by `accept` only; on systems that take it out, `accept` would fail as in
`AcceptFails`.

**SharedFiles.** `cmd[c]` is the command container `c` runs next. One command of
the script is one step, since another container can come in between: the test for a name, the creation of the empty file, the
unlocking, each of the two lines written, the removal. Sleeps order nothing.

**HardLinks.** `entry[n]` is an inode, a symbolic link or nothing; `Hash` keeps
the full 4096-byte blocks of a file, as the read loop of `calculateSHA1` does,
so that all files shorter than a block have one hash. A file that cannot be opened is
skipped; a read that fails midway ends the loop like the end of the file does, so
any hash may be recorded (`Scan`); an exception of the directory iterator ends the
scan, and what was found so far is linked (`ScanEnds`). Removing a duplicate
and linking its name anew are two steps; `file_size` and `last_write_time` of a
name that leads nowhere throw outside `try` and end the program. `expect` is what
a reader of each name should see, changed only by writers. `EachLossHasAFault`
names three excuses (a symbolic link among the files, a recorded hash that is not
that of the file, tails that differ), and each of them is needed: without any of
the three TLC finds a loss without a fault. `OriginalSurvives` and `OneFilePerHash` say what
becomes of the files nonetheless.

Next to some definitions stands a variant named for a *slip* a programmer could
make there (`ApplyTxUnguarded`, `CountedEarly`, `FlockSkipped`, ...). No
specification uses them. Each property is tested by exchanging a definition
for one of its slips, after which TLC must find the property violated; the
pairs are listed under `mutants` in `PROJECT.json`.

## 3. Runs

| run | instance | properties | shows |
|---|---|---|---|
| `sink` | 2 sinks, 2 partitions, 1 job of total 1 or 2, up to 3 messages, two rejected calls, one fault of the other kinds, 4 messages and faults in all | `CountersMatchRows`, `SinkInvariant` (`StateMatchesCounters` is part of it), `AtLeastOnceUnlessRejected`, `LossesNeedRejections`, `ImplementsJobBoard` | the counters survive redelivery, concurrency, deletion and every combination of faults within the bounds; each result passed over has a rejected call of its own; the sink implements the board |
| `sink_lost` | as above, one rejected call | `AtLeastOnce` | *violated*, finding 2 |
| `worker` | 2 workers, 2 partitions, 2 urls of one domain, 2 requests a partition, two rejected calls, a stop, an eviction | `AtLeastOnceUnlessRejected`, `LossesNeedRejections`, `DuplicatesNeedFaults`, `OneVisitorPerDomain` | delivery and politeness |
| `crawl` | 3 handlers at once, 2 urls on 2 origins of one host, concurrency 2 and 1, 3 attempts, four ways a download ends | `SemaphoresSound`, `HonestResult`, `RobotsRespected`, no deadlock | no slot or waiter is lost, results are honest, forbidden pages stay unvisited where robots.txt was had |
| `api_posts` | images with 1 to 3 migrations, 2 concurrent posts of 0 to 5 urls, chunks of 2, two rejections, two stops | `AcceptedMeansPublished`, `RowBeforeRequests`, `OrphansNeedFaults`, `MigratedOnceBeforeServing` | what a 200 and a row mean; the schema is complete before anybody is served |
| `read_api` | 2 jobs, 2 sinks, 3 ids, page limits missing, within, above the maximum and negative | `PagesArePrefix`, `NoJobSkipped`, `BenchReportsRecorded` | pages neither skip nor repeat articles while rows are recorded |
| `aggregator` | 1 job of 2 distinct urls, 2 workers, a stop, an eviction | `HonestDone`, `OvercountNeedsFaults`, `JobFinishes` | end to end, safety and liveness; the groups have committed before and no call is rejected |
| `agg_repeated` | body `<<u1, u1>>`, no fault | `JobFinishes` | *violated*, finding 1 |
| `monitor` | 8 events | `NeverBothWaiting`, `InOrder`, `AllProcessed`, `Ends`, no deadlock | the monitor is correct |
| `sighup` | 3 signals, 3 connections, 3 packets | `NeverBlocks`, `NoPhantomReport`, `HupReported`, `Served` | signals and sockets do not disturb each other |
| `shared_files` | 2 containers, 2 rounds each, 2 kills | `NameExclusive`, `OwnContent`, `NamesBounded`, `LockIsReleased` | naming and locking are correct, kills included |
| `hardlinks` | every directory of 3 names with links and symbolic links, 2 blocks and 2 tails, 2 failures or kills, 1 file written to, two of these in all | `EachLossHasAFault`, `OriginalSurvives`, `OneFilePerHash` | what a run of unix_lab3 can lose, and what it cannot; that it links all duplicates to the oldest |

`aggregator` and `shared_files` also check their module's `TypeOK`, `sighup`
`ServerTypeOK`; in `sink` it is part of `SinkInvariant`, in `crawl` of
`SemaphoresSound`. That of the monitor is proved (section 5). `CHECK_DEADLOCK FALSE` stands in every configuration but
`monitor` and `crawl`: the services and containers stop when the bounds on
messages, rounds and faults are used up, and the client programs end.

### 3.1 Bounds, and why they are enough

* *Messages* (`MaxResults` over all partitions, `MaxRequests` in each): a
  message passed over needs two in one partition; a repeated result and
  one of another partition need three.
* *Total* 1 or 2 with two urls gives `queued`, `running`, `done` and results
  beyond the total.
* *Faults* (`MaxFailures`, `MaxStops`, `MaxEvictions`, one of each kind): the
  interesting behaviours need a handler that lost its partition and another
  fault while it runs. Where losses are counted against rejected calls, in `sink` and
  `worker`, there are two of those. `TwoDisturbances` bounds `hardlinks` to two
  failures, kills and written files together. `FourMessagesAndFaults` bounds `sink` to three messages
  with one fault, two with two, or one with three, which keeps the state space
  small and both kinds of depth.
* *Two processes* are what an interleaving needs; the proofs of section 5 hold
  for any number.
* *Chunks* of 2 with up to 5 urls gives one, exactly filled, and several chunks
  with a rest; `MaxUrls` stands for the 5000 of the schema, of which one more
  is tried.
* *Crawl*: three handlers are one inside, one waiting and one that comes by
  between a wakeup and its increment; three attempts are a first, a middle and a
  last one; the ends of a download are one of each class.
* *Migrations*: an image with one more file than the last start knew, twice;
  with two rejections and two stops a start can be cut short twice in a row.
* *Directories* of three names are an original and two duplicates, or a pair
  and a symbolic link.
* *Pages*: a limit of 1 of up to three articles, so that rows are recorded
  between pages.
* *Symmetry* is used in safety runs only: sinks and workers are
  interchangeable, as are handlers, jobs and file contents where nothing tells
  them apart, and in `sink` the two urls together with their partitions.

### 3.2 Fairness

`Aggregator!FairSpec` has weak fairness of: the next call of each POST in
progress, each worker's handler, the sink's handler, and the assignment of each
free partition to some member that is there. These are what Node (a handler
whose promise settles goes on), kafkajs (delivers what there is) and the
coordinator provide. Nothing makes a stopped process start again, because
`docker-compose.yml` has no restart policy, and no fault is fair; so
`JobFinishes` presupposes that the api and some worker finally stay up. Its run has
no rejected call (one may lose a result for good, finding 2) and consumer groups
that have committed before (`FreshGroup = FALSE`, see section 4).
`EventMonitor!FairMonitorSpec`: each thread that can run is run; spurious wakeups are
not counted on. `SighupServer!FairServerSpec`: the
process is scheduled and pselect returns if it has a reason to; peers and
senders of signals owe nothing. As traffic is bounded, `HupReported` says that a
signal is reported once the traffic pauses: Linux may prefer ready descriptors
to a pending signal for as long as there are any. `SharedFiles!FairSpec`: each container that can run is run;
flock is not assumed to queue, so no container is promised the lock.

## 4. Findings

1. `total` counts the urls as listed, rows are unique per url: a job that lists
   a url twice is never `done`, and `bench_job.js`, which repeats urls
   itself, polls for ever (`agg_repeated`).
2. Both handlers swallow errors in `catch` and resolve. kafkajs goes on to the
   next message, whose offset commit covers the failed one. The comments claim
   at-least-once and a retry (`sink_lost`). What does hold, of both, is
   `AtLeastOnceUnlessRejected` and, when calls are rejected, `LossesNeedRejections`: no
   more is lost than calls were rejected.

Four more facts came out of the models. No run of their own shows them:

* `calculateSHA1` ("Вычисление SHA1 хэша файла", main.cpp:29) does not hash the last
  partial block, so unix_lab3 links different files to one another, all files shorter
  than 4096 bytes among them, and an undisturbed run leaves only the oldest content.
  Without the excuse `TailsDiffer`, TLC finds `EachLossHasAFault` violated.
* A symbolic link to a regular file is scanned, hashed and sorted as that file. If it
  comes first in its group, the file is removed and its name linked to the link, which
  then leads to itself, and the content is gone. Without the excuse `LinkAmong`, TLC
  finds `EachLossHasAFault` violated.
* `unique(job_id, url)` is per table. A url that is crawled twice with different
  outcomes is counted in `done` and in `failed`, for which one eviction is enough.
  `OvercountNeedsFaults` bounds the damage.
* `fromBeginning: false` loses what was published before a group's first commit:
  with `FreshGroup = TRUE`, `JobFinishes` fails without any fault.

## 5. Proofs

| theorem | states | run |
|---|---|---|
| `ResultsSinkProofs!SinkInvariantHolds`, `TypeCorrect`, `CountersCorrect`, `StateCorrect`, `LocksReleased` | `Spec => []P` for `SinkInvariant`, `TypeOK`, `CountersMatchRows`, `StateMatchesCounters`, `NoLockLeak` | `sink` |
| `ResultsSinkProofs!NothingLostUnlessRejected`, `EachLossNeedsARejection` | `AtLeastOnceUnlessRejected`, `LossesNeedRejections` | `sink` |
| `ResultsSinkProofs!SinkImplementsJobBoard` | `Spec => ImplementsJobBoard` | `sink` |
| `WorkerProofs!TypeCorrect`, `OneVisitor`, `AnsweredBeforeCommitted`, `EachLossNeedsARejection`, `EachDuplicateHasAFault` | `TypeOK`, `OneVisitorPerDomain`, `AtLeastOnceUnlessRejected`, `LossesNeedRejections`, `DuplicatesNeedFaults` | `worker` |
| `CrawlProofs!SlotsAndWaitersKept`, `ResultsAreHonest`, `ForbiddenNeedsFailedRobots` | `SemaphoresSound`, `HonestResult`, `RobotsRespected` | `crawl` |
| `ApiProcessProofs!EachMigrationOnce` | `MigratedOnceBeforeServing` | `api_posts` |
| `ApiProcessProofs!AcceptedJobsArePublished`, `RowsComeFirst`, `OrphansTakeFaults` | `AcceptedMeansPublished`, `RowBeforeRequests`, `OrphansNeedFaults` | `api_posts` |
| `ReadApiProofs!PagesNeitherSkipNorRepeat`, `WalksSeeEveryJob`, `BenchIsRight` | `PagesArePrefix`, `NoJobSkipped`, `BenchReportsRecorded` | `read_api` |
| `AggregatorProofs!TypeCorrect`, `OvercountPaidByFaults`, `DoneIsHonest` | `TypeOK`, `OvercountNeedsFaults`, `HonestDone` | `aggregator` |
| `LabProofs!MonitorTypeCorrect`, `WaitersExclusive`, `SlotInOrder`, `FinalMessageTrue` | `MonitorTypeOK`, `NeverBothWaiting`, `InOrder`, `AllProcessed` | `monitor` |
| `LabProofs!ServerTypeCorrect`, `NeverBlocksAnywhere`, `EachSignalOnce` | `ServerTypeOK`, `NeverBlocks`, `NoPhantomReport` | `sighup` |
| `LabProofs!TypeCorrect`, `NamesExclusive`, `ContentsOwn`, `NamesStayLow` | `TypeOK`, `NameExclusive`, `OwnContent`, `NamesBounded` | `shared_files` |
| `HardLinksProofs!LossesArePaid`, `OldestFileSurvives`, `TypeCorrect` | `EachLossHasAFault`, `OriginalSurvives`, `TypeOK` | `hardlinks` (the first two) |

They hold for every value of the constants that satisfies the modules'
assumptions: finite sets where cardinalities are taken, functions of the right
type, natural bounds, sentinels that differ from the values they stand beside.

*Sink.* `CountersMatchRows` is not inductive: a handler at `commit` adds 1 to a
counter because its INSERT gave a row, so one must know that the row is still
absent. `TransactionIsolated` says so: from SELECT to COMMIT the handler holds
the lock of a job that exists, and `sinserted` is true exactly if the row is
absent. It is preserved because only the lock's holder writes rows of that job,
and deletion needs the lock. `NoLockLeak` gives exclusivity between two
handlers, `HandlerHasWork` that the message of a handler exists and stays the
same while the log grows, `RowsHaveJob` that a created job starts without rows.
The proof first carries the types and `HandlerHasWork` through every action
(`Typed...`), then consistency (`...Consistent`), with one lemma per action;
steps that leave the database alone share `QuietStep`, the two that apply a
transaction share `ApplyTxStep`.

*Delivery of the sink.* `LossesNeedRejections` needs to know where a position
may be. `PositionsSound`: a handler whose process still owns the partition works
on the message at the partition's position, and positions and committed offsets stay
within the log; a handler that has lost its partition cannot commit. `Settled`: a
handler about to commit has recorded its message. `JobsKnown`:
the topic speaks of created jobs only, so what counts as recorded stays
recorded. `PassedPaid` counts: of the messages behind a committed offset or a
position, no more are unrecorded than calls were rejected, because a handler that ends
passes the one message it has in hand, and has not recorded it only if its call
was rejected. `NothingLostUnlessRejected` is the case of none.

*Refinement.* The board's row is the job's row with the urls of its articles and
errors. `SinkInvariant` makes the row a client sees a function of them, so the
step that applies a transaction is the board's `RecordArticle` or `RecordError`, one
that gives no row is a stutter, and `shown` never disagrees with the board.

*Worker.* `HandlerHasWork` and `KeyedRequests` put a handler's request on the
partition of its domain; `OwnsItsWork` says that without evictions a busy handler's
process owns that partition, so that two handlers on one domain are one. For
`AtLeastOnceUnlessRejected` it is not enough that requests are answered: with a
url listed twice each request needs a result of its own. `EachDueAnswered` counts
the offsets of a request that are committed, or that an owner which has
produced its result is about to commit; `Produce` adds one offset and one result,
and `CommitOffset` only turns the second kind into the first, because `InStep`
puts an owner's handler exactly at the committed offset. Once calls are rejected that no
longer holds, and `LossesNeedRejections` is counted otherwise: `Settled` are the
requests below a committed offset or an owner's position, or about to be
committed; they can be matched one to one with results, all but one for each
rejected call (`LossesPaid`), since only `Produce` and its rejection settle anything.

*Duplicates.* `DuplicatesNeedFaults` compares two totals, and no step without a
fault may move them apart. `Charged` is the account that shows it. A request is
`Handled` once its partition's position is past it or its owner has produced; all
results but `n` can be matched one to one with handled requests (`Covered`). What
will be crawled again must have been paid for beforehand: the handled requests at
or above the committed offset (`Uncommitted`), which the next owner is given
again, and the handlers that have lost their partition and will still produce
(`Strays`). `n` and the sizes of these two sets together never exceed the number
of faults. A step takes at most one of them up by one if it is a fault
(`PaidStep`), and otherwise only moves an amount from one to another: `Assign`
turns `Uncommitted` into `n`, and a stray's `Produce` turns itself into `n`.
`InPlace` puts an owner's handler at its position, committed or not.

*Crawl.* `Sound` speaks of one semaphore and the sets of handlers that are inside,
wait, and have been woken; each operation of the class `Semaphore` moves one
handler from set to set, which is shown once and then used for the global limit
and for that of a domain. That a woken handler may find its slot taken is no
harm: it comes after a release, and whoever holds the slot will release again.

*Posts.* `PostAgrees(j)` says what each stage of the POST of `j` has published:
nothing before its row; while it sends, and when it has answered 200, each url as
often as it occurs in the first `sent[j]` places. An answer 500 or none at all
needs a fault, because `ServerAgrees` allows a disconnected producer only in a
shutdown. A chunk is
split by partition, so one needs that ranking the places of a partition is a
bijection (`RankInjective`, `NthOfRank`): then `ChunkOnOccurrences` counts a url in
its partition's part as often as in the chunk.

*The composed service.* `AggregatorInvariant` is the conjunction of the three
components' invariants. `AggregatorProofs` takes them from the proof modules by
INSTANCE; so that they can be composed, each of those modules says what
its invariant needs of a step of the others: `TopicGrows` of the POSTs is `Arrivals`
to the workers, `ResultsAdded` of the workers is `LogExtended` to the sink,
`CounterMoves` of the sink is `RowKept` to the POSTs. Two more parts link the topics:
`RowsFromLog`, a row comes from a result of its status, and `Sourced`, a result from a
request on the partition of its domain. With them a url that has a row was
published (`NeverMore`: no more often than it was listed). If it was listed once and has
both an article and an error, it was asked for once and answered twice, so it
is in `InExcess`, and the account of the workers has a fault for it. `HonestDone` is
the case without faults: `done + failed >= total`, no url is in both tables, and
a set of recorded urls as large as the set of listed ones is that set.

*Migrations.* `RunAgrees` relates the run in progress to the database: the ids it
has read are those of the first migrations, and the file it has come to is the
first that is missing or one that it knows. One process at a time is what
makes this inductive.

*Pages.* `IdsAhead`: the row lock admits one transaction to a job, and it has drawn
an id above those of all rows of the job, or has yet to draw one. So a row that
becomes visible comes last in the list, and what a client has got stays the
beginning of it (`ArticleWalk`). `RowsRanked` makes the list by rank a list of the
rows, each once. Jobs are listed newest first, so new ones move the rest back;
`JobWalk` says that a job not yet seen is still to come. `BenchAgrees` bounds what
the last poll returned by what the board has.

*Monitor.* `WaitersHaveReason` (a producer waits only while the slot is full, a
consumer only while it is empty) makes the wait sets exclusive and notify_one
safe; `ThreadsInStep` ties the producer's loop variable, the slot and the
histories, and gives that the consumer leaves only with an empty slot.

*SIGHUP server.* `SetIsReady`: past the test of the flag, what is in the descriptor
set is ready since pselect returned; between pselect and the test it may not be,
but then the flag is up and the test goes back to pselect.

*Shared files.* `LockHeld`: who scans or creates has the lock, and the name it is
about to create is free. That is all exclusivity needs, because names vanish
but never appear without the lock.

*Names stay low.* This one is counting. `FilesAccounted`: there are at most as many
files as containers that hold one, plus one for each kill. `ScansAccounted`: of the
names a scan has passed, no more have vanished since than there are other
containers without a file, because whoever removes its file while the scan has
the lock cannot create another. So the name found free is at most one more
than the files and the vanished names together.

*Hard links.* Names come and go, so `EntriesFromPeers` says where one leads: to the
entry that some file of the same hash had at the start. Without symbolic links
among those, that is an inode. `ReadersVouched`: some name of this inode reads what it
should, and it is the name itself or one that will not be removed any more
(`Safe`), because a name that was linked got the inode of its original, and a write
changes what all names of an inode read and should read. If no hash is stale and no
tails differ, both should read the same (`ReadsAsExpected`). So only a name that is gone
is lost, and `AbsentPaid` counts those. `GroupInHand`: the original is there when
its group is begun, since sort() has looked at it, and no name is twice in a
group. For `OriginalSurvives`, `OldestInvariant`: nothing of a group is touched before it is
begun (`GroupsIntact`), the original of the group in hand is its oldest file
(`OriginalOldest`), and it is never removed, so each hashed file keeps a peer no
newer than it where it was (`OlderKept`), whose inode is as it should be
(`InodesAsExpected`).

Only model-checked: `Ends`, `LockIsReleased`, `JobFinishes`, `HupReported`, `Served`
(liveness under fairness and `ENABLED` are out of the prover's reach). Every
invariant and action property of a passing run is stated by a theorem.

## 6. Not modelled, and why

* `os_lab3`: `/proc/tsulab` is a function of the clock; nothing changes between
  load and unload. Its `km * 1000` wraps only for a clock set back.
* `unix_lab1/lab1.sh`: one process, commands in a row. Its trap for INT and TERM
  cleans up but does not exit, which is a fact of one line.
* Configuration, logging and the kafka clients are constants and wiring;
  `create-topics.sh` fixes the numbers of partitions, which are parameters here.
* The text of pages, all metadata but the source of the text, HTTP routing, the
  health check: no state of their own.
* A message that is JSON but not an object, or a request whose url does not
  parse, makes a handler throw outside `try` (`resultsSink.js:36`,
  `worker/src/index.js:68`). What kafkajs does then is its own affair, and only
  a foreign producer writes such a message. The models' garbage is not JSON.
* kafkajs's retries of a single call are inside that call.
* Two api processes at once: `docker-compose.yml` runs one.
* A migration file whose name sorts before one that was applied: `Deploy` adds files
  that sort last. (`migrate.js` would apply it when it comes, after later ones.)
* `GET /jobs` orders by `created_at`; `ReadApi` orders jobs as their rows appeared,
  which may differ for two rows inserted at the same moment.
* The `catch` of os_lab1's consumer (`monitor.cpp:188`): nothing in its loop throws.
* Contention for `limiter.js`: it is in `Crawl`, which runs several handlers at once, but
  not in the service, which runs one.
* `flock` failing (`entrypoint.sh:29`), statistics and recursive symbolic links of
  unix_lab3, and a move between file systems.
* A SIGHUP in the window between `sigaction` and `sigprocmask` (`os_lab2/main.cpp:85-89`)
  is in the model, and is reported only when something else wakes the server; no
  property says otherwise.

## 7. What is left

The inventory of section 1 is modelled except for what section 6 names, and
every safety property that a run checks is proved. What remains model-checked
only is liveness.

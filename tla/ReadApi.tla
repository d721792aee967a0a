------------------------------- MODULE ReadApi ------------------------------
(***************************************************************************)
(* The GET routes of the api (routes/jobs.js) and their clients: a client  *)
(* that pages through GET /jobs or GET /jobs/:job_id/articles by limit and *)
(* offset while sinks go on recording, and scripts/bench_job.js, which     *)
(* posts a job and polls it until it is done.                              *)
(*                                                                         *)
(* The database is a JobBoard, which ResultsSink implements, with what the *)
(* order of pages rests on: the ids that INSERT draws from a sequence      *)
(* before its transaction commits.                                         *)
(***************************************************************************)
EXTENDS Naturals, Integers, Sequences, FiniteSets, SequencesExt

CONSTANTS Jobs, Urls, NotCreated, Deleted,
          JobUrls,        \* JobUrls[j]: the urls job j is posted with, all different
          Sinks, NoTx,
          Limits,         \* values of ?limit clients send
          DefaultLimit,   \* 50
          MaxLimit,       \* 200
          NoJob,
          MaxIds          \* bound on the ids drawn

VARIABLES board, shown,  \* the tables jobs, articles, errors; see JobBoard
          created,       \* jobs in the order of created_at
          articles,      \* articles[j]: committed rows [id, url]
          nextId,        \* sequence of articles.id
          tx,            \* tx[s]: transaction a sink has in progress
          client         \* the client: what it wants, asks and has got

Article == [id : Nat, url : Urls]
Outcome == [total : Nat, ok : SUBSET Urls, bad : SUBSET Urls]   \* of a job, in board
Tx == [job : Jobs, url : Urls, ok : BOOLEAN, id : Nat]

MaxTotal == Cardinality(Urls)
Board == INSTANCE JobBoard

tables == <<board, shown, created, articles>>
vars == <<tables, nextId, tx, client>>

ASSUME ReadAssumption ==
    /\ JobUrls \in [Jobs -> (SUBSET Urls) \ {{}}]
    /\ \A j \in Jobs : IsFiniteSet(JobUrls[j])
    /\ Limits \subseteq Int
    /\ DefaultLimit \in Nat \ {0} /\ MaxLimit \in Nat \ {0}
    /\ MaxIds \in Nat
    /\ NoTx \notin Tx /\ NoJob \notin Jobs
    /\ NotCreated \notin Outcome /\ Deleted \notin Outcome

Init ==
    /\ Board!Init
    /\ created = <<>>
    /\ articles = [j \in Jobs |-> {}]
    /\ nextId = 1
    /\ tx = [s \in Sinks |-> NoTx]
    /\ client = [kind |-> "new", job |-> NoJob, limit |-> 0, got |-> <<>>, had |-> {}]
-----------------------------------------------------------------------------
(***************************************************************************)
(* POST /jobs, by anybody.                                                 *)
(***************************************************************************)
CreateJob(j) ==
    /\ board[j] = NotCreated
    /\ Board!Post(j, [total |-> Cardinality(JobUrls[j]), ok |-> {}, bad |-> {}])
    /\ created' = Append(created, j)
    /\ UNCHANGED <<articles, nextId, tx>>

(***************************************************************************)
(* SELECT ... FOR UPDATE: one transaction per job at a time.               *)
(* (NoRowLock is a slip without FOR UPDATE.)                               *)
(***************************************************************************)
NoRowLock(j) == TRUE

RowFree(j) == \A s \in Sinks : tx[s] # NoTx => tx[s].job # j

Begin(s, j, u, ok) ==
    /\ tx[s] = NoTx
    /\ Board!Open(j) /\ RowFree(j)
    /\ tx' = [tx EXCEPT ![s] = [job |-> j, url |-> u, ok |-> ok, id |-> 0]]
    /\ UNCHANGED <<tables, nextId, client>>

(***************************************************************************)
(* INSERT INTO articles draws an id, whatever becomes of the row.          *)
(***************************************************************************)
Insert(s) ==
    /\ tx[s] # NoTx /\ tx[s].ok /\ tx[s].id = 0
    /\ nextId <= MaxIds
    /\ nextId' = nextId + 1
    /\ tx' = [tx EXCEPT ![s].id = nextId]
    /\ UNCHANGED <<tables, client>>

(***************************************************************************)
(* COMMIT makes row and counters visible together; ON CONFLICT DO NOTHING  *)
(* leaves both as they are.                                                *)
(***************************************************************************)
Commit(s) ==
    LET t == tx[s] IN
    /\ t # NoTx
    /\ t.ok => t.id > 0
    /\ \/ /\ t.ok
          /\ Board!RecordArticle(t.job, t.url)
          /\ articles' = [articles EXCEPT ![t.job] = @ \cup {[id |-> t.id, url |-> t.url]}]
       \/ ~t.ok /\ Board!RecordError(t.job, t.url) /\ UNCHANGED articles
       \/ /\ t.url \in IF t.ok THEN board[t.job].ok ELSE board[t.job].bad
          /\ UNCHANGED <<board, shown, articles>>
    /\ tx' = [tx EXCEPT ![s] = NoTx]
    /\ UNCHANGED <<created, nextId, client>>

Rollback(s) ==
    /\ tx[s] # NoTx
    /\ tx' = [tx EXCEPT ![s] = NoTx]
    /\ UNCHANGED <<tables, nextId, client>>
-----------------------------------------------------------------------------
(***************************************************************************)
(* Math.min(Number(limit || 50) || 50, 200).  A negative one passes, and   *)
(* the query rejects.                                                      *)
(***************************************************************************)
Limit(q) ==
    LET asked == IF q = 0 THEN DefaultLimit ELSE q
    IN IF asked < MaxLimit THEN asked ELSE MaxLimit

(***************************************************************************)
(* LIMIT and OFFSET of the sorted rows; and a slip in the offset.          *)
(***************************************************************************)
PageShifted(rows, limit, offset) ==
    SubSeq(rows, offset + 2, IF offset + 1 + limit < Len(rows) THEN offset + 1 + limit
                             ELSE Len(rows))

Page(rows, limit, offset) ==
    SubSeq(rows, offset + 1, IF offset + limit < Len(rows) THEN offset + limit
                             ELSE Len(rows))

(***************************************************************************)
(* ORDER BY id ASC: the n-th row has n ids up to its own.                  *)
(***************************************************************************)
IdRank(rows, a) == Cardinality({b \in rows : b.id <= a.id})

SortedById(rows) ==
    [n \in 1..Cardinality(rows) |-> CHOOSE a \in rows : IdRank(rows, a) = n]

ById(j) == SortedById(articles[j])
NewestFirst == Reverse(created)

Rows == IF client.kind = "jobs" THEN NewestFirst ELSE ById(client.job)

(***************************************************************************)
(* A client starts to walk through pages, from offset 0 on.                *)
(***************************************************************************)
StartWalk(kind, j, limit) ==
    /\ client.kind = "new"
    /\ client' = [client EXCEPT !.kind = IF kind = "articles" /\ ~Board!Open(j)
                                         THEN "404" ELSE kind,
                                !.job = j, !.limit = limit,
                                !.had = ToSet(created)]
    /\ UNCHANGED <<tables, nextId, tx>>

(***************************************************************************)
(* The next page, at the offset of what it has got; an empty one is the    *)
(* last.                                                                   *)
(***************************************************************************)
Ended(kind) == IF kind = "jobs" THEN "endjobs" ELSE "endarticles"

NextPage ==
    /\ client.kind \in {"jobs", "articles"}
    /\ IF Limit(client.limit) < 0
       THEN client' = [client EXCEPT !.kind = "500"]
       ELSE LET page == Page(Rows, Limit(client.limit), Len(client.got)) IN
            client' = [client EXCEPT !.kind = IF page = <<>> THEN Ended(@) ELSE @,
                                     !.got = @ \o page]
    /\ UNCHANGED <<tables, nextId, tx>>

(***************************************************************************)
(* bench_job.js: POST, then GET /jobs/:job_id until state is "done".       *)
(***************************************************************************)
SubmitJob(j) ==
    /\ client.kind = "new"
    /\ CreateJob(j)
    /\ client' = [client EXCEPT !.kind = "poll", !.job = j]

GetJob ==
    /\ client.kind = "poll"
    /\ client' = [client EXCEPT !.kind = IF shown[client.job].state = "done"
                                         THEN "finished" ELSE "poll",
                                !.got = <<shown[client.job]>>]
    /\ UNCHANGED <<tables, nextId, tx>>

SinkStep(s) ==
    \/ \E j \in Jobs, ok \in BOOLEAN : \E u \in JobUrls[j] : Begin(s, j, u, ok)
    \/ Insert(s)
    \/ Commit(s)
    \/ Rollback(s)

ClientStep ==
    \/ \E j \in Jobs, limit \in Limits : StartWalk("articles", j, limit)
    \/ \E limit \in Limits : StartWalk("jobs", NoJob, limit)
    \/ NextPage
    \/ \E j \in Jobs : SubmitJob(j)
    \/ GetJob

Next ==
    \/ \E j \in Jobs : CreateJob(j) /\ UNCHANGED client
    \/ \E s \in Sinks : SinkStep(s)
    \/ ClientStep

Spec == Init /\ [][Next]_vars
-----------------------------------------------------------------------------
(***************************************************************************)
(* Whoever pages through the articles of a running job sees each of them   *)
(* once, in order: what it has got is at every moment the beginning of the *)
(* list (ORDER BY id ASC, jobs.js:106).  Ids are drawn before COMMIT, so   *)
(* this rests on resultsSink.js:48 letting one transaction of a job in at  *)
(* a time.                                                                 *)
(***************************************************************************)
PagesArePrefix ==
    client.kind \in {"articles", "endarticles"} => IsPrefix(client.got, ById(client.job))

(***************************************************************************)
(* Whoever pages through GET /jobs while jobs are posted sees every job    *)
(* that was there at the start, some of them twice: ORDER BY created_at    *)
(* DESC moves rows to later pages, never to earlier ones (jobs.js:27).     *)
(***************************************************************************)
NoJobSkipped ==
    client.kind = "endjobs" => client.had \subseteq ToSet(client.got)

(***************************************************************************)
(* What bench_job.js reports as processed (bench_job.js:69) is never more  *)
(* than what is recorded, nor, at the end, less than what it submitted.    *)
(***************************************************************************)
BenchReportsRecorded ==
    client.got # <<>> /\ client.kind \in {"poll", "finished"} =>
        LET last == client.got[1]
            b == board[client.job]
        IN /\ last.done <= Cardinality(b.ok) /\ last.failed <= Cardinality(b.bad)
           /\ client.kind = "finished" => last.done + last.failed >= Cardinality(JobUrls[client.job])
=============================================================================

----------------------------- MODULE JobBoard ------------------------------
(***************************************************************************)
(* What the service promises a client that polls GET /jobs/:job_id and     *)
(* GET /jobs/:job_id/articles (api/src/routes/jobs.js), with no consumers, *)
(* transactions, offsets or processes: a job collects outcomes, an url's   *)
(* article or error is recorded at most once and never withdrawn, and the  *)
(* row that is shown is at every moment the one computed from exactly the  *)
(* outcomes recorded so far.  ResultsSink implements it.                   *)
(***************************************************************************)
EXTENDS Naturals, FiniteSets

CONSTANTS Jobs, Urls, NotCreated, Deleted, MaxTotal

VARIABLES board,   \* board[j]: the outcomes of job j, NotCreated or Deleted
          shown    \* shown[j]: the row a client reads, NotCreated or Deleted

\* A slip: the job is called done one outcome early.
StateEarly(total, answered) ==
    CASE answered = 0 -> "queued"
      [] answered \in 1..(total - 2) -> "running"
      [] answered >= total - 1 -> "done"

State(total, answered) ==
    CASE answered = 0 -> "queued"
      [] answered \in 1..(total - 1) -> "running"
      [] answered >= total -> "done"

Row(b) ==
    LET done == Cardinality(b.ok)
        failed == Cardinality(b.bad)
    IN [total |-> b.total, done |-> done, failed |-> failed,
        state |-> State(b.total, done + failed)]

Open(j) == board[j] \notin {NotCreated, Deleted}

Init ==
    /\ board = [j \in Jobs |-> NotCreated]
    /\ shown = [j \in Jobs |-> NotCreated]

Post(j, b) ==
    /\ board' = [board EXCEPT ![j] = b]
    /\ shown' = [shown EXCEPT ![j] = Row(b)]

Create(j) ==
    /\ board[j] = NotCreated
    /\ \E n \in 1..MaxTotal : Post(j, [total |-> n, ok |-> {}, bad |-> {}])

RecordArticle(j, u) ==
    /\ Open(j)
    /\ u \notin board[j].ok
    /\ Post(j, [board[j] EXCEPT !.ok = @ \cup {u}])

RecordError(j, u) ==
    /\ Open(j)
    /\ u \notin board[j].bad
    /\ Post(j, [board[j] EXCEPT !.bad = @ \cup {u}])

Remove(j) ==
    /\ Open(j)
    /\ board' = [board EXCEPT ![j] = Deleted]
    /\ shown' = [shown EXCEPT ![j] = Deleted]

Next ==
    \E j \in Jobs :
        \/ Create(j)
        \/ \E u \in Urls : RecordArticle(j, u) \/ RecordError(j, u)
        \/ Remove(j)

Spec == Init /\ [][Next]_<<board, shown>>
=============================================================================

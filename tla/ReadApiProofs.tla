---------------------------- MODULE ReadApiProofs -----------------------------
(***************************************************************************)
(* What is proved of ReadApi for any jobs, urls, sinks, limits and bounds: *)
(* a client that pages through articles gets the beginning of the list, a  *)
(* client that pages through jobs misses none, and bench_job.js reports    *)
(* what is recorded.                                                       *)
(*                                                                         *)
(* IdsAhead is what the pages of articles rest on: the one transaction     *)
(* that may still add to a job has drawn an id above those of all its      *)
(* rows, or has yet to draw one.                                           *)
(***************************************************************************)
EXTENDS ReadApi, FiniteSetTheorems, SequenceTheorems, TLAPS

JobRow == [total : Nat, done : Nat, failed : Nat, state : {"queued", "running", "done"}]

Kinds == {"new", "jobs", "articles", "endjobs", "endarticles", "404", "500", "poll", "finished"}

\* What a client gets: articles, jobs, or the row of its job.
Reply == Article \cup Jobs \cup JobRow

TypeOK ==
    /\ board \in [Jobs -> Outcome \cup {NotCreated}]
    /\ shown \in [Jobs -> JobRow \cup {NotCreated}]
    /\ created \in Seq(Jobs)
    /\ articles \in [Jobs -> SUBSET Article]
    /\ nextId \in Nat \ {0}
    /\ tx \in [Sinks -> Tx \cup {NoTx}]
    /\ client \in [kind : Kinds, job : Jobs \cup {NoJob}, limit : Int,
                   got : Seq(Reply), had : SUBSET Jobs]

(***************************************************************************)
(* The row that is shown is the one computed from the outcomes.            *)
(***************************************************************************)
BoardAgrees ==
    \A j \in Jobs : Board!Open(j) =>
        /\ IsFiniteSet(board[j].ok) /\ IsFiniteSet(board[j].bad)
        /\ board[j].total = Cardinality(JobUrls[j])
        /\ shown[j] = Board!Row(board[j])

OneTxPerJob ==
    \A s, t \in Sinks :
        tx[s] # NoTx /\ tx[t] # NoTx /\ tx[s].job = tx[t].job => s = t

IdsAhead ==
    /\ \A j \in Jobs : \A a \in articles[j] : a.id < nextId
    /\ \A s \in Sinks : tx[s] # NoTx =>
           /\ Board!Open(tx[s].job)
           /\ tx[s].id < nextId
           /\ tx[s].id > 0 => \A a \in articles[tx[s].job] : a.id < tx[s].id

(***************************************************************************)
(* There is one row of each rank.                                          *)
(***************************************************************************)
Ranked(A) ==
    /\ IsFiniteSet(A)
    /\ \A a \in A : IdRank(A, a) \in 1..Cardinality(A)
    /\ \A a, b \in A : IdRank(A, a) = IdRank(A, b) => a = b
    /\ \A n \in 1..Cardinality(A) : \E a \in A : IdRank(A, a) = n

RowsRanked == \A j \in Jobs : Ranked(articles[j])

Begins(s, t) == Len(s) <= Len(t) /\ \A i \in 1..Len(s) : s[i] = t[i]

(***************************************************************************)
(* Where each client stands.                                               *)
(***************************************************************************)
ArticleWalk ==
    client.kind \in {"articles", "endarticles"} =>
        client.job \in Jobs /\ Begins(client.got, ById(client.job))

JobWalk ==
    client.kind = "jobs" =>
        \A j \in client.had :
            \/ j \in ToSet(client.got)
            \/ \E i \in 1..Len(created) : i > Len(client.got) /\ NewestFirst[i] = j

BenchAgrees ==
    client.kind \in {"poll", "finished"} =>
        /\ client.job \in Jobs
        /\ Board!Open(client.job)
        /\ client.got # <<>> =>
               LET last == client.got[1]
                   b == board[client.job]
               IN /\ last \in JobRow
                  /\ last.done <= Cardinality(b.ok) /\ last.failed <= Cardinality(b.bad)
                  /\ client.kind = "finished" =>
                         last.done + last.failed >= Cardinality(JobUrls[client.job])

ClientAgrees ==
    /\ client.kind = "new" => client.got = <<>>
    /\ ArticleWalk /\ JobWalk /\ NoJobSkipped /\ BenchAgrees

ReadInvariant ==
    TypeOK /\ BoardAgrees /\ OneTxPerJob /\ IdsAhead /\ RowsRanked /\ ClientAgrees
-----------------------------------------------------------------------------
(***************************************************************************)
(* Pages, and rows in the order of their ids.                              *)
(***************************************************************************)
LEMMA Prefix ==
    ASSUME NEW T, NEW s \in Seq(T), NEW t \in Seq(T), Begins(s, t)
    PROVE  IsPrefix(s, t)
<1>1. Len(s) \in Nat /\ Len(t) \in Nat /\ Len(s) <= Len(t)
  BY DEF Begins
<1>2. /\ \A i \in 1..Len(s) : s[i] \in T /\ t[i] \in T /\ s[i] = t[i]
  BY <1>1, ElementOfSeq DEF Begins
<1> DEFINE k == Len(s)
           a == SubSeq(s, 1, k)
           b == SubSeq(t, 1, k)
<1>3. k \in Nat /\ 1 \in Int /\ k \in Int
  BY <1>1
<1>4. \A i \in 1..k : s[i] \in T /\ t[i] \in T
  BY <1>2
<1> HIDE DEF k
<1>5. /\ a \in Seq(T) /\ Len(a) = (IF 1 <= k THEN k - 1 + 1 ELSE 0)
      /\ \A i \in 1..(k - 1 + 1) : a[i] = s[1 + i - 1]
  BY <1>3, <1>4, SubSeqProperties
<1>6. /\ b \in Seq(T) /\ Len(b) = (IF 1 <= k THEN k - 1 + 1 ELSE 0)
      /\ \A i \in 1..(k - 1 + 1) : b[i] = t[1 + i - 1]
  BY <1>3, <1>4, SubSeqProperties
<1> HIDE DEF a, b
<1>7. Len(a) = k /\ Len(b) = k /\ \A i \in 1..k : a[i] = s[i] /\ b[i] = t[i]
  BY <1>3, <1>5, <1>6
<1>8. \A i \in 1..k : s[i] = t[i]
  BY <1>2 DEF k
<1>9. a = b
  BY <1>5, <1>6, <1>7, <1>8, SeqEqual
<1> QED BY <1>1, <1>9 DEF IsPrefix, a, b, k

LEMMA PageFacts ==
    ASSUME NEW T, NEW rows \in Seq(T), NEW limit \in Nat \ {0}, NEW offset \in Nat
    PROVE  /\ Page(rows, limit, offset) \in Seq(T)
           /\ offset < Len(rows) => Page(rows, limit, offset) # <<>>
           /\ offset + Len(Page(rows, limit, offset)) <= Len(rows) \/ Page(rows, limit, offset) = <<>>
           /\ \A i \in 1..Len(Page(rows, limit, offset)) :
                  Page(rows, limit, offset)[i] = rows[offset + i]
<1> DEFINE m == offset + 1
           n == IF offset + limit < Len(rows) THEN offset + limit ELSE Len(rows)
           page == SubSeq(rows, m, n)
<1>1. Len(rows) \in Nat /\ m \in Int /\ m >= 1 /\ n \in Int /\ n <= Len(rows)
  OBVIOUS
<1>2. offset < Len(rows) => m <= n
  OBVIOUS
<1>3. page = Page(rows, limit, offset)
  BY DEF Page
<1>4. m = offset + 1
  OBVIOUS
<1> HIDE DEF m, n, page
<1>5. \A i \in m..n : rows[i] \in T
  BY <1>1, ElementOfSeq
<1>6. /\ page \in Seq(T) /\ Len(page) = (IF m <= n THEN n - m + 1 ELSE 0)
      /\ \A i \in 1..(n - m + 1) : page[i] = rows[m + i - 1]
  BY <1>1, <1>5, SubSeqProperties DEF page
<1>7. offset < Len(rows) => page # <<>>
  BY <1>1, <1>2, <1>6
<1>8. offset + Len(page) <= Len(rows) \/ page = <<>>
  <2>1. CASE m <= n
    BY <1>1, <1>4, <1>6, <2>1
  <2>2. CASE ~(m <= n)
    BY <1>1, <1>6, <2>2, EmptySeq
  <2> QED BY <2>1, <2>2
<1>9. \A i \in 1..Len(page) : page[i] = rows[offset + i]
  <2> SUFFICES ASSUME NEW i \in 1..Len(page) PROVE page[i] = rows[offset + i]
    OBVIOUS
  <2>1. i \in 1..(n - m + 1) /\ m + i - 1 = offset + i
    BY <1>1, <1>4, <1>6
  <2> QED BY <1>6, <2>1
<1> QED BY <1>3, <1>6, <1>7, <1>8, <1>9

LEMMA NextPageBegins ==
    ASSUME NEW T, NEW rows \in Seq(T), NEW got \in Seq(T), NEW limit \in Nat \ {0},
           Begins(got, rows)
    PROVE  Begins(got \o Page(rows, limit, Len(got)), rows)
<1> DEFINE page == Page(rows, limit, Len(got))
<1>1. Len(got) \in Nat /\ Len(rows) \in Nat
  OBVIOUS
<1>2. /\ page \in Seq(T)
      /\ Len(got) + Len(page) <= Len(rows) \/ page = <<>>
      /\ \A i \in 1..Len(page) : page[i] = rows[Len(got) + i]
  BY <1>1, PageFacts
<1> HIDE DEF page
<1>3. /\ Len(got \o page) = Len(got) + Len(page) /\ Len(page) \in Nat
      /\ \A i \in 1..(Len(got) + Len(page)) :
             (got \o page)[i] = IF i <= Len(got) THEN got[i] ELSE page[i - Len(got)]
  BY <1>2, ConcatProperties, LenProperties
<1>4. Len(got \o page) <= Len(rows)
  BY <1>1, <1>2, <1>3, EmptySeq DEF Begins
<1>5. ASSUME NEW i \in 1..Len(got \o page)
      PROVE  (got \o page)[i] = rows[i]
  <2>1. CASE i <= Len(got)
    BY <1>1, <1>3, <2>1 DEF Begins
  <2>2. CASE i > Len(got)
    <3>1. /\ i - Len(got) \in 1..Len(page) /\ Len(got) + (i - Len(got)) = i
          /\ (got \o page)[i] = page[i - Len(got)]
      BY <1>1, <1>3, <2>2
    <3> QED BY <1>2, <3>1
  <2> QED BY <1>1, <2>1, <2>2
<1> QED BY <1>4, <1>5 DEF Begins, page

(***************************************************************************)
(* A row whose id is above all others comes last and moves none.           *)
(***************************************************************************)
LEMMA RankOfNewest ==
    ASSUME NEW A \in SUBSET Article, Ranked(A), NEW x \in Article, \A a \in A : a.id < x.id
    PROVE  /\ Ranked(A \cup {x})
           /\ Cardinality(A \cup {x}) = Cardinality(A) + 1 /\ Cardinality(A) \in Nat
           /\ \A a \in A : IdRank(A \cup {x}, a) = IdRank(A, a)
           /\ IdRank(A \cup {x}, x) = Cardinality(A) + 1
<1> DEFINE B == A \cup {x}
           N == Cardinality(A)
<1>1. x \notin A
  BY DEF Article
<1>2. IsFiniteSet(B) /\ Cardinality(B) = N + 1 /\ N \in Nat
  BY <1>1, FS_AddElement, FS_CardinalityType DEF Ranked
<1>3. ASSUME NEW a \in A PROVE IdRank(B, a) = IdRank(A, a)
  <2>1. {b \in B : b.id <= a.id} = {b \in A : b.id <= a.id}
    BY DEF Article
  <2> QED BY <2>1 DEF IdRank
<1>4. IdRank(B, x) = N + 1
  <2>1. {b \in B : b.id <= x.id} = B
    BY DEF Article
  <2> QED BY <1>2, <2>1 DEF IdRank
<1>5. \A a \in A : IdRank(A, a) \in 1..N
  BY DEF Ranked
<1>6. \A a \in B : (a \in A /\ IdRank(B, a) = IdRank(A, a) /\ IdRank(B, a) \in 1..N)
                   \/ (a = x /\ IdRank(B, a) = N + 1)
  BY <1>3, <1>4, <1>5
<1>7. \A a \in B : IdRank(B, a) \in 1..(N + 1)
  BY <1>2, <1>6
<1>8. ASSUME NEW a \in B, NEW b \in B, IdRank(B, a) = IdRank(B, b) PROVE a = b
  <2>1. (a \in A /\ b \in A /\ IdRank(A, a) = IdRank(A, b)) \/ (a = x /\ b = x)
    BY <1>2, <1>6, <1>8
  <2> QED BY <2>1 DEF Ranked
<1>9. ASSUME NEW n \in 1..(N + 1) PROVE \E a \in B : IdRank(B, a) = n
  <2>1. CASE n = N + 1
    BY <1>4, <2>1
  <2>2. CASE n # N + 1
    <3>1. n \in 1..N
      BY <1>2, <2>2
    <3>2. PICK a \in A : IdRank(A, a) = n
      BY <3>1 DEF Ranked
    <3> QED BY <1>3, <3>2
  <2> QED BY <2>1, <2>2
<1>10. Ranked(B)
  <2> HIDE DEF B, N
  <2> QED BY <1>2, <1>7, <1>8, <1>9 DEF Ranked
<1> QED BY <1>2, <1>3, <1>4, <1>10

LEMMA PickRanked ==
    ASSUME NEW A, Ranked(A), NEW a \in A
    PROVE  (CHOOSE b \in A : IdRank(A, b) = IdRank(A, a)) = a
BY DEF Ranked

LEMMA SortedType ==
    ASSUME NEW A \in SUBSET Article, Ranked(A)
    PROVE  /\ SortedById(A) \in Seq(Article)
           /\ Len(SortedById(A)) = Cardinality(A)
           /\ \A n \in 1..Cardinality(A) : /\ SortedById(A)[n] \in A
                                          /\ IdRank(A, SortedById(A)[n]) = n
<1> DEFINE N == Cardinality(A)
           q == SortedById(A)
<1>1. N \in Nat
  BY FS_CardinalityType DEF Ranked
<1>2. \A n \in 1..N : q[n] = CHOOSE a \in A : IdRank(A, a) = n
  BY DEF SortedById
<1>3. ASSUME NEW n \in 1..N PROVE q[n] \in A /\ IdRank(A, q[n]) = n
  BY <1>2 DEF Ranked
<1>4. q = [n \in 1..N |-> q[n]]
  BY DEF SortedById
<1>5. q \in [1..N -> Article]
  <2> HIDE DEF N, q
  <2> QED BY <1>3, <1>4
<1>6. q \in Seq(Article) /\ Len(q) = N
  <2> HIDE DEF N, q
  <2>1. q \in Seq(Article)
    BY <1>1, <1>5, SeqDef
  <2> QED BY <1>1, <1>5, <2>1, LenProperties
<1> QED BY <1>3, <1>6

LEMMA SortedGrows ==
    ASSUME NEW A \in SUBSET Article, Ranked(A), NEW x \in Article, \A a \in A : a.id < x.id,
           NEW got, Begins(got, SortedById(A)), Len(got) \in Nat
    PROVE  Begins(got, SortedById(A \cup {x}))
<1> DEFINE B == A \cup {x}
           N == Cardinality(A)
<1>1. /\ Ranked(B) /\ Cardinality(B) = N + 1 /\ N \in Nat
      /\ \A a \in A : IdRank(B, a) = IdRank(A, a)
  BY RankOfNewest
<1>2. B \in SUBSET Article
  OBVIOUS
<1> HIDE DEF B
<1>3. /\ Len(SortedById(A)) = N
      /\ \A n \in 1..N : SortedById(A)[n] \in A /\ IdRank(A, SortedById(A)[n]) = n
  BY SortedType
<1>4. /\ Len(SortedById(B)) = N + 1
      /\ \A n \in 1..(N + 1) : SortedById(B)[n] \in B /\ IdRank(B, SortedById(B)[n]) = n
  BY <1>1, <1>2, SortedType
<1>5. ASSUME NEW n \in 1..N PROVE SortedById(B)[n] = SortedById(A)[n]
  <2>1. SortedById(A)[n] \in A /\ IdRank(B, SortedById(A)[n]) = n
    BY <1>1, <1>3
  <2>2. SortedById(A)[n] \in B
    BY <2>1 DEF B
  <2>3. SortedById(B)[n] \in B /\ IdRank(B, SortedById(B)[n]) = n
    BY <1>1, <1>4
  <2> QED BY <1>1, <2>1, <2>2, <2>3 DEF Ranked
<1> HIDE DEF N
<1>6. Len(got) <= N /\ \A i \in 1..Len(got) : got[i] = SortedById(A)[i]
  BY <1>3 DEF Begins
<1>7. Len(got) <= N + 1 /\ \A i \in 1..Len(got) : i \in 1..N
  BY <1>1, <1>6
<1>8. Begins(got, SortedById(B))
  BY <1>4, <1>5, <1>6, <1>7 DEF Begins
<1> QED BY <1>8 DEF B
-----------------------------------------------------------------------------
(***************************************************************************)
(* The tables.                                                             *)
(***************************************************************************)
LEMMA OpenType ==
    ASSUME TypeOK, NEW j \in Jobs
    PROVE  Board!Open(j) <=> board[j] \in Outcome
BY ReadAssumption DEF TypeOK, Board!Open

LEMMA UrlsCount ==
    ASSUME NEW j \in Jobs
    PROVE  Cardinality(JobUrls[j]) \in Nat \ {0}
<1>1. JobUrls[j] \in (SUBSET Urls) \ {{}} /\ IsFiniteSet(JobUrls[j])
  <2>1. JobUrls \in [Jobs -> (SUBSET Urls) \ {{}}] /\ \A k \in Jobs : IsFiniteSet(JobUrls[k])
    BY ReadAssumption
  <2> QED BY <2>1
<1> QED BY <1>1, FS_CardinalityType, FS_EmptySet

LEMMA SameCardinality == \A S : Board!Cardinality(S) = Cardinality(S)
BY DEF Cardinality, Board!Cardinality

LEMMA RowType ==
    ASSUME NEW b \in Outcome, IsFiniteSet(b.ok), IsFiniteSet(b.bad), b.total > 0
    PROVE  /\ Board!Row(b) \in JobRow
           /\ Board!Row(b).done = Cardinality(b.ok) /\ Board!Row(b).failed = Cardinality(b.bad)
           /\ Board!Row(b).state = "done" =>
                  Board!Row(b).done + Board!Row(b).failed >= b.total
<1> DEFINE n == Cardinality(b.ok)
           m == Cardinality(b.bad)
<1>1. n \in Nat /\ m \in Nat /\ b.total \in Nat
  BY FS_CardinalityType DEF Outcome
<1>2. Board!Row(b) = [total |-> b.total, done |-> n, failed |-> m,
                      state |-> Board!State(b.total, n + m)]
  BY SameCardinality DEF Board!Row
<1> HIDE DEF n, m
<1>3. /\ Board!State(b.total, n + m) \in {"queued", "running", "done"}
      /\ Board!State(b.total, n + m) = "done" => n + m >= b.total
  BY <1>1 DEF Board!State
<1>4. Board!Row(b) \in JobRow
  BY <1>1, <1>2, <1>3 DEF JobRow
<1> QED BY <1>2, <1>3, <1>4 DEF n, m

LEMMA PostKeeps ==
    ASSUME TypeOK, BoardAgrees, NEW j \in Jobs, NEW b \in Outcome, Board!Post(j, b),
           IsFiniteSet(b.ok), IsFiniteSet(b.bad), b.total = Cardinality(JobUrls[j])
    PROVE  /\ board' \in [Jobs -> Outcome \cup {NotCreated}]
           /\ shown' \in [Jobs -> JobRow \cup {NotCreated}]
           /\ BoardAgrees'
           /\ board'[j] = b /\ Board!Open(j)'
           /\ \A k \in Jobs \ {j} : board'[k] = board[k] /\ shown'[k] = shown[k]
           /\ \A k \in Jobs : Board!Open(k) => Board!Open(k)'
<1>1. /\ board' = [board EXCEPT ![j] = b] /\ shown' = [shown EXCEPT ![j] = Board!Row(b)]
      /\ Board!Row(b) \in JobRow
  BY UrlsCount, RowType DEF Board!Post
<1>2. /\ board' \in [Jobs -> Outcome \cup {NotCreated}]
      /\ shown' \in [Jobs -> JobRow \cup {NotCreated}]
      /\ board'[j] = b /\ shown'[j] = Board!Row(b)
      /\ \A k \in Jobs \ {j} : board'[k] = board[k] /\ shown'[k] = shown[k]
  BY <1>1 DEF TypeOK
<1>3. Board!Open(j)'
  BY <1>2, ReadAssumption DEF Board!Open
<1>4. \A k \in Jobs \ {j} : Board!Open(k)' <=> Board!Open(k)
  BY <1>2 DEF Board!Open
<1>5. BoardAgrees'
  <2> SUFFICES ASSUME NEW k \in Jobs, Board!Open(k)'
               PROVE  /\ IsFiniteSet(board'[k].ok) /\ IsFiniteSet(board'[k].bad)
                      /\ board'[k].total = Cardinality(JobUrls[k])
                      /\ shown'[k] = Board!Row(board'[k])
    BY DEF BoardAgrees, Board!Row, Board!State
  <2>1. CASE k = j
    BY <1>2, <2>1
  <2>2. CASE k # j
    BY <1>2, <1>4, <2>2 DEF BoardAgrees
  <2> QED BY <2>1, <2>2
<1> QED BY <1>2, <1>3, <1>4, <1>5

LEMMA TablesStay ==
    ASSUME BoardAgrees, RowsRanked, UNCHANGED tables
    PROVE  /\ BoardAgrees' /\ RowsRanked'
           /\ \A j \in Jobs : Board!Open(j)' <=> Board!Open(j)
BY DEF tables, BoardAgrees, RowsRanked, Board!Open, Board!Row, Board!State

(***************************************************************************)
(* A client that does nothing sees no less while the tables grow.          *)
(***************************************************************************)
LEMMA ArticleWalkKept ==
    ASSUME TypeOK, ArticleWalk, RowsRanked, client' = client, NEW j \in Jobs,
           \A k \in Jobs \ {j} : articles'[k] = articles[k],
           \/ articles'[j] = articles[j]
           \/ \E x \in Article : /\ articles'[j] = articles[j] \cup {x}
                                 /\ \A a \in articles[j] : a.id < x.id
    PROVE  ArticleWalk'
<1>0. \A k \in Jobs : ById(k)' = SortedById(articles'[k])
  BY DEF ById, SortedById, IdRank
<1> SUFFICES ASSUME client.kind \in {"articles", "endarticles"}
             PROVE  client.job \in Jobs /\ Begins(client.got, SortedById(articles'[client.job]))
  BY <1>0 DEF ArticleWalk, Begins
<1>1. client.job \in Jobs /\ Begins(client.got, SortedById(articles[client.job]))
  BY DEF ArticleWalk, ById
<1>2. CASE articles'[client.job] = articles[client.job]
  BY <1>1, <1>2
<1>3. CASE articles'[client.job] # articles[client.job]
  <2>1. client.job = j
    BY <1>1, <1>3
  <2>2. PICK x \in Article : /\ articles'[j] = articles[j] \cup {x}
                             /\ \A a \in articles[j] : a.id < x.id
    BY <1>3, <2>1
  <2>3. Len(client.got) \in Nat
    BY DEF TypeOK
  <2>4. articles[j] \in SUBSET Article /\ Ranked(articles[j])
    BY DEF TypeOK, RowsRanked
  <2> QED BY <1>1, <2>1, <2>2, <2>3, <2>4, SortedGrows
<1> QED BY <1>2, <1>3

LEMMA BenchKept ==
    ASSUME TypeOK, BoardAgrees, BenchAgrees, client' = client,
           \A k \in Jobs : Board!Open(k) =>
               /\ Board!Open(k)'
               /\ IsFiniteSet(board'[k].ok) /\ IsFiniteSet(board'[k].bad)
               /\ board[k].ok \subseteq board'[k].ok /\ board[k].bad \subseteq board'[k].bad
    PROVE  BenchAgrees'
<1> SUFFICES ASSUME client.kind \in {"poll", "finished"}
             PROVE  BenchAgrees'
  BY DEF BenchAgrees
<1> DEFINE b == board[client.job]
           c == board'[client.job]
<1>1. client.job \in Jobs /\ Board!Open(client.job)
  BY DEF BenchAgrees
<1>2. /\ Cardinality(b.ok) <= Cardinality(c.ok) /\ Cardinality(b.bad) <= Cardinality(c.bad)
      /\ Cardinality(c.ok) \in Nat /\ Cardinality(c.bad) \in Nat
      /\ Cardinality(b.ok) \in Nat /\ Cardinality(b.bad) \in Nat
  BY <1>1, FS_Subset, FS_CardinalityType
<1>3. Board!Open(client.job)'
  BY <1>1
<1>4. ASSUME client.got # <<>>
      PROVE  LET last == client.got[1]
             IN /\ last \in JobRow
                /\ last.done <= Cardinality(c.ok) /\ last.failed <= Cardinality(c.bad)
                /\ client.kind = "finished" =>
                       last.done + last.failed >= Cardinality(JobUrls[client.job])
  <2>1. /\ client.got[1] \in JobRow
        /\ client.got[1].done <= Cardinality(b.ok)
        /\ client.got[1].failed <= Cardinality(b.bad)
        /\ client.kind = "finished" =>
               client.got[1].done + client.got[1].failed >= Cardinality(JobUrls[client.job])
    BY <1>4 DEF BenchAgrees
  <2>2. client.got[1].done \in Nat /\ client.got[1].failed \in Nat
    BY <2>1 DEF JobRow
  <2> HIDE DEF b, c
  <2> QED BY <1>2, <2>1, <2>2
<1> QED BY <1>1, <1>3, <1>4 DEF BenchAgrees, Board!Open

LEMMA ReverseIs ==
    ASSUME NEW T, NEW s \in Seq(T)
    PROVE  /\ Len(s) \in Nat
           /\ Reverse(s) \in Seq(T) /\ Len(Reverse(s)) = Len(s)
           /\ \A i \in 1..Len(s) : Reverse(s)[i] = s[Len(s) - i + 1]
<1> DEFINE n == Len(s)
<1>1. n \in Nat /\ s \in [1..n -> T]
  BY LenProperties
<1>2. Reverse(s) = [i \in 1..n |-> s[(n - i) + 1]]
  BY DEF Reverse
<1> HIDE DEF n
<1>3. \A i \in 1..n : (n - i) + 1 \in 1..n
  BY <1>1
<1>4. Reverse(s) \in [1..n -> T]
  BY <1>1, <1>2, <1>3
<1>5. Reverse(s) \in Seq(T)
  BY <1>1, <1>4, SeqDef
<1>6. Len(Reverse(s)) = n
  BY <1>1, <1>4, <1>5, LenProperties
<1> QED BY <1>1, <1>2, <1>5, <1>6 DEF n

LEMMA NewestFirstIs ==
    ASSUME TypeOK
    PROVE  /\ Len(created) \in Nat
           /\ NewestFirst \in Seq(Jobs) /\ Len(NewestFirst) = Len(created)
           /\ \A i \in 1..Len(created) : NewestFirst[i] = created[Len(created) - i + 1]
<1>1. created \in Seq(Jobs)
  BY DEF TypeOK
<1> QED BY <1>1, ReverseIs DEF NewestFirst

LEMMA JobWalkKept ==
    ASSUME TypeOK, TypeOK', JobWalk, client' = client,
           \/ created' = created
           \/ \E j \in Jobs : created' = Append(created, j)
    PROVE  JobWalk'
<1>1. CASE created' = created
  BY <1>1 DEF JobWalk, NewestFirst
<1>2. CASE \E j \in Jobs : created' = Append(created, j)
  <2>1. PICK j \in Jobs : created' = Append(created, j)
    BY <1>2
  <2> DEFINE n == Len(created)
  <2>2. /\ n \in Nat
        /\ \A i \in 1..n : NewestFirst[i] = created[n - i + 1]
    BY NewestFirstIs
  <2>3. \A i \in 1..Len(created') : NewestFirst'[i] = created'[Len(created') - i + 1]
    <3>1. created' \in Seq(Jobs)
      BY DEF TypeOK
    <3> QED BY <3>1, ReverseIs DEF NewestFirst
  <2>4. Len(created') = n + 1 /\ \A i \in 1..n : created'[i] = created[i]
    BY <2>1, AppendProperties DEF TypeOK
  <2> HIDE DEF n
  <2>5. ASSUME NEW i \in 1..n
        PROVE  i + 1 \in 1..Len(created') /\ NewestFirst'[i + 1] = NewestFirst[i] /\ i \in Nat
    <3>1. i + 1 \in 1..(n + 1) /\ (n + 1) - (i + 1) + 1 = n - i + 1 /\ n - i + 1 \in 1..n
      BY <2>2
    <3>2. NewestFirst'[i + 1] = created'[n - i + 1]
      BY <2>3, <2>4, <3>1
    <3> QED BY <2>2, <2>4, <3>1, <3>2
  <2>6. Len(client.got) \in Nat
    BY DEF TypeOK
  <2> SUFFICES ASSUME client.kind = "jobs", NEW k \in client.had, k \notin ToSet(client.got)
               PROVE  \E i \in 1..Len(created') : i > Len(client.got) /\ NewestFirst'[i] = k
    BY DEF JobWalk
  <2>7. PICK i \in 1..n : i > Len(client.got) /\ NewestFirst[i] = k
    BY DEF JobWalk, n
  <2>8. i + 1 \in 1..Len(created') /\ NewestFirst'[i + 1] = k /\ i + 1 > Len(client.got)
    BY <2>5, <2>6, <2>7
  <2> QED BY <2>8
<1> QED BY <1>1, <1>2
-----------------------------------------------------------------------------
(***************************************************************************)
(* What a client does.                                                     *)
(***************************************************************************)
LEMMA Untouched ==
    ASSUME OneTxPerJob, IdsAhead, UNCHANGED <<tables, nextId, tx>>
    PROVE  OneTxPerJob' /\ IdsAhead'
BY DEF OneTxPerJob, IdsAhead, tables, Board!Open

LEMMA StartWalkStep ==
    ASSUME ReadInvariant, NEW j \in Jobs \cup {NoJob}, NEW limit \in Limits,
           NEW kind \in {"articles", "jobs"}, kind = "articles" => j \in Jobs,
           StartWalk(kind, j, limit)
    PROVE  ReadInvariant'
<1> USE DEF ReadInvariant
<1>1. /\ client.kind = "new" /\ client.got = <<>>
      /\ UNCHANGED <<tables, nextId, tx>>
  BY DEF StartWalk, ClientAgrees
<1>2. ToSet(created) \in SUBSET Jobs
  BY DEF TypeOK, ToSet
<1>3. limit \in Int
  BY ReadAssumption
<1>4. /\ client'.kind \in {"404", kind} /\ client'.job = j
      /\ client'.limit = limit /\ client'.got = <<>> /\ client'.had = ToSet(created)
      /\ client' \in [kind : Kinds, job : Jobs \cup {NoJob}, limit : Int,
                      got : Seq(Reply), had : SUBSET Jobs]
  BY <1>1, <1>2, <1>3 DEF StartWalk, TypeOK, Kinds
<1>5. TypeOK'
  BY <1>1, <1>4 DEF TypeOK, tables
<1>6. BoardAgrees' /\ RowsRanked' /\ OneTxPerJob' /\ IdsAhead'
  BY <1>1, TablesStay, Untouched
<1>7. ArticleWalk'
  <2>1. client'.kind \in {"articles", "endarticles"} => j \in Jobs
    BY <1>4
  <2>2. ASSUME j \in Jobs PROVE Begins(<<>>, ById(j)')
    <3>1. articles[j] \in SUBSET Article /\ Ranked(articles[j])
      BY <2>2 DEF TypeOK, RowsRanked
    <3>2. Len(SortedById(articles[j])) = Cardinality(articles[j])
          /\ Cardinality(articles[j]) \in Nat
      BY <3>1, SortedType, FS_CardinalityType DEF Ranked
    <3>3. ById(j)' = SortedById(articles[j])
      BY <1>1 DEF ById, SortedById, IdRank, tables
    <3> QED BY <3>2, <3>3, EmptySeq DEF Begins
  <2> QED BY <1>4, <2>1, <2>2 DEF ArticleWalk
<1>8. JobWalk'
  <2>1. NewestFirst' = NewestFirst /\ created' = created
    BY <1>1 DEF NewestFirst, tables
  <2>2. ASSUME NEW k \in ToSet(created)
        PROVE  \E i \in 1..Len(created) : i > 0 /\ NewestFirst[i] = k
    <3> DEFINE n == Len(created)
    <3>1. n \in Nat /\ DOMAIN created = 1..n
      BY DEF TypeOK
    <3>2. PICK i \in 1..n : created[i] = k
      BY <3>1 DEF ToSet
    <3>3. n - i + 1 \in 1..n /\ n - i + 1 > 0 /\ n - (n - i + 1) + 1 = i
      BY <3>1, <3>2
    <3>4. NewestFirst[n - i + 1] = created[n - (n - i + 1) + 1]
      BY <3>3, NewestFirstIs
    <3>5. NewestFirst[n - i + 1] = k
      BY <3>2, <3>3, <3>4
    <3> QED BY <3>3, <3>5
  <2> QED BY <1>4, <2>1, <2>2, EmptySeq DEF JobWalk
<1>9. ClientAgrees'
  BY <1>4, <1>7, <1>8 DEF ClientAgrees, NoJobSkipped, BenchAgrees
<1> QED BY <1>5, <1>6, <1>9

LEMMA LimitPositive ==
    ASSUME NEW q \in Int, ~(Limit(q) < 0)
    PROVE  Limit(q) \in Nat \ {0}
BY ReadAssumption DEF Limit

LEMMA NextPageStep ==
    ASSUME ReadInvariant, NextPage
    PROVE  ReadInvariant'
<1> USE DEF ReadInvariant
<1> DEFINE limit == Limit(client.limit)
           L == Len(client.got)
           page == Page(Rows, limit, L)
<1>1. client.kind \in {"jobs", "articles"} /\ UNCHANGED <<tables, nextId, tx>>
  BY DEF NextPage
<1>2. BoardAgrees' /\ RowsRanked' /\ OneTxPerJob' /\ IdsAhead'
  BY <1>1, TablesStay, Untouched
<1>3. CASE limit < 0
  <2>1. client' = [client EXCEPT !.kind = "500"]
    BY <1>3 DEF NextPage
  <2>2. TypeOK'
    BY <1>1, <2>1 DEF TypeOK, tables, Kinds
  <2>3. ClientAgrees'
    BY <2>1 DEF TypeOK, ClientAgrees, ArticleWalk, JobWalk, NoJobSkipped, BenchAgrees
  <2> QED BY <1>2, <2>2, <2>3
<1>4. CASE ~(limit < 0)
  <2>1. limit \in Nat \ {0} /\ L \in Nat /\ client.got \in Seq(Reply)
    BY <1>4, LimitPositive DEF TypeOK
  <2>2. client' = [client EXCEPT !.kind = IF page = <<>> THEN Ended(@) ELSE @,
                                 !.got = @ \o page]
    BY <1>4 DEF NextPage
  <2>3. Rows \in Seq(Reply)
    <3>1. CASE client.kind = "jobs"
      <4>1. NewestFirst \in Seq(Jobs) /\ Jobs \subseteq Reply
        BY NewestFirstIs DEF Reply
      <4> QED BY <3>1, <4>1, SeqMonotonic DEF Rows
    <3>2. CASE client.kind = "articles"
      <4>1. client.job \in Jobs
        BY <3>2 DEF ClientAgrees, ArticleWalk
      <4>2. articles[client.job] \in SUBSET Article /\ Ranked(articles[client.job])
        BY <4>1 DEF TypeOK, RowsRanked
      <4>3. ById(client.job) \in Seq(Article) /\ Article \subseteq Reply
        BY <4>2, SortedType DEF ById, Reply
      <4> QED BY <3>2, <4>3, SeqMonotonic DEF Rows
    <3> QED BY <1>1, <3>1, <3>2
  <2>4. /\ page \in Seq(Reply)
        /\ L < Len(Rows) => page # <<>>
        /\ \A i \in 1..Len(page) : page[i] = Rows[L + i]
    <3> HIDE DEF limit, L
    <3> QED BY <2>1, <2>3, PageFacts
  <2>5. client.got \o page \in Seq(Reply)
    BY <2>1, <2>4, ConcatProperties
  <2>6. /\ client'.kind = (IF page = <<>> THEN Ended(client.kind) ELSE client.kind)
        /\ client'.got = client.got \o page
        /\ client'.job = client.job /\ client'.had = client.had /\ client'.limit = client.limit
        /\ client' \in [kind : Kinds, job : Jobs \cup {NoJob}, limit : Int,
                        got : Seq(Reply), had : SUBSET Jobs]
    <3> HIDE DEF page
    <3> QED BY <1>1, <2>2, <2>5 DEF TypeOK, Kinds, Ended
  <2>7. TypeOK'
    BY <1>1, <2>6 DEF TypeOK, tables
  <2>8. CASE client.kind = "articles"
    <3>1. client'.kind \in {"articles", "endarticles"}
      BY <2>6, <2>8 DEF Ended
    <3>2. Rows = ById(client.job) /\ client.job \in Jobs /\ Begins(client.got, Rows)
      BY <2>8 DEF Rows, ClientAgrees, ArticleWalk
    <3>3. Begins(client.got \o page, Rows)
      <4> HIDE DEF limit
      <4> QED BY <2>1, <2>3, <3>2, NextPageBegins
    <3>4. \A k \in Jobs : ById(k)' = ById(k)
      BY <1>1 DEF ById, SortedById, IdRank, tables
    <3>6. ArticleWalk'
      <4> HIDE DEF page
      <4>1. client'.job \in Jobs /\ Begins(client'.got, ById(client.job))
        BY <2>6, <3>2, <3>3
      <4>2. \A k \in Jobs : k = client.job => Begins(client'.got, ById(k)')
        BY <3>4, <4>1
      <4> QED BY <2>6, <3>2, <4>1, <4>2 DEF ArticleWalk, Begins
    <3> QED BY <1>2, <2>7, <3>1, <3>6 DEF ClientAgrees, JobWalk, NoJobSkipped, BenchAgrees
  <2>9. CASE client.kind = "jobs"
    <3>1. client'.kind \in {"jobs", "endjobs"}
      BY <2>6, <2>9 DEF Ended
    <3>2. /\ Rows = NewestFirst /\ Len(Rows) = Len(created) /\ Len(created) \in Nat
          /\ NewestFirst' = NewestFirst /\ created' = created
      BY <1>1, <2>9, NewestFirstIs DEF Rows, NewestFirst, tables
    <3>3. /\ Len(client'.got) = L + Len(page) /\ Len(page) \in Nat
          /\ \A i \in 1..(L + Len(page)) :
                 client'.got[i] = IF i <= L THEN client.got[i] ELSE page[i - L]
      <4> HIDE DEF page
      <4> QED BY <2>1, <2>4, <2>6, ConcatProperties, LenProperties
    <3>4. DOMAIN client'.got = 1..(L + Len(page)) /\ DOMAIN client.got = 1..L
      <4> HIDE DEF page
      <4> QED BY <2>1, <2>5, <2>6, <3>3, LenProperties
    <3>5. ASSUME NEW k \in client.had, k \notin ToSet(client'.got)
          PROVE  \E i \in 1..Len(created) : i > L + Len(page) /\ NewestFirst[i] = k
      <4> HIDE DEF page, L
      <4>1. k \notin ToSet(client.got)
        BY <2>1, <3>3, <3>4, <3>5 DEF ToSet
      <4>2. PICK i \in 1..Len(created) : i > L /\ NewestFirst[i] = k
        BY <2>9, <4>1 DEF ClientAgrees, JobWalk, L
      <4>3. ASSUME ~(i > L + Len(page)) PROVE FALSE
        <5>1. i - L \in 1..Len(page) /\ L + (i - L) = i /\ i \in 1..(L + Len(page)) /\ ~(i <= L)
          BY <2>1, <3>2, <3>3, <4>2, <4>3
        <5>2. client'.got[i] = k
          BY <2>4, <3>2, <3>3, <4>2, <5>1
        <5> QED BY <3>4, <3>5, <5>1, <5>2 DEF ToSet
      <4> QED BY <4>2, <4>3
    <3>6. JobWalk'
      <4> HIDE DEF page, L
      <4> QED BY <2>6, <3>2, <3>3, <3>5 DEF JobWalk
    <3>7. NoJobSkipped'
      <4> SUFFICES ASSUME client'.kind = "endjobs", NEW k \in client'.had
                   PROVE  k \in ToSet(client'.got)
        BY DEF NoJobSkipped
      <4>1. page = <<>>
        BY <2>6, <2>9
      <4>2. ~(L < Len(created)) /\ Len(page) = 0
        BY <2>4, <3>2, <4>1, EmptySeq
      <4> HIDE DEF page, L
      <4>3. \A i \in 1..Len(created) : ~(i > L + Len(page))
        BY <2>1, <3>2, <4>2
      <4> QED BY <2>6, <3>5, <4>3
    <3> QED BY <1>2, <2>7, <3>1, <3>6, <3>7 DEF ClientAgrees, ArticleWalk, BenchAgrees
  <2> QED BY <1>1, <2>8, <2>9
<1> QED BY <1>3, <1>4

LEMMA GetJobStep ==
    ASSUME ReadInvariant, GetJob
    PROVE  ReadInvariant'
<1> USE DEF ReadInvariant
<1> DEFINE row == shown[client.job]
           b == board[client.job]
<1>1. /\ client.kind = "poll" /\ UNCHANGED <<tables, nextId, tx>>
      /\ client' = [client EXCEPT !.kind = IF row.state = "done" THEN "finished" ELSE "poll",
                                  !.got = <<row>>]
  BY DEF GetJob
<1>2. client.job \in Jobs /\ Board!Open(client.job) /\ b \in Outcome
  BY <1>1, OpenType DEF ClientAgrees, BenchAgrees
<1>3. /\ row = Board!Row(b) /\ b.total = Cardinality(JobUrls[client.job])
      /\ IsFiniteSet(b.ok) /\ IsFiniteSet(b.bad)
  BY <1>2 DEF BoardAgrees
<1>4. /\ row \in JobRow /\ row.done = Cardinality(b.ok) /\ row.failed = Cardinality(b.bad)
      /\ row.state = "done" => row.done + row.failed >= Cardinality(JobUrls[client.job])
      /\ row.done \in Nat /\ row.failed \in Nat
  BY <1>2, <1>3, RowType, UrlsCount, FS_CardinalityType
<1> HIDE DEF row, b
<1>5. <<row>> \in Seq(Reply) /\ <<row>>[1] = row
  BY <1>4 DEF Reply
<1>6. /\ client'.kind \in {"poll", "finished"}
      /\ client'.kind = "finished" => row.state = "done"
      /\ client'.job = client.job /\ client'.got = <<row>>
      /\ client' \in [kind : Kinds, job : Jobs \cup {NoJob}, limit : Int,
                      got : Seq(Reply), had : SUBSET Jobs]
  BY <1>1, <1>5 DEF TypeOK, Kinds
<1>7. TypeOK'
  BY <1>1, <1>6 DEF TypeOK, tables
<1>8. BoardAgrees' /\ RowsRanked' /\ OneTxPerJob' /\ IdsAhead'
  BY <1>1, TablesStay, Untouched
<1>9. BenchAgrees'
  <2>1. board' = board
    BY <1>1 DEF tables
  <2>2. \A k \in Jobs : Board!Open(k)' <=> Board!Open(k)
    BY <2>1 DEF Board!Open
  <2>3. /\ row.done <= Cardinality(b.ok) /\ row.failed <= Cardinality(b.bad)
        /\ client'.kind = "finished" =>
               row.done + row.failed >= Cardinality(JobUrls[client.job])
    BY <1>4, <1>6
  <2> QED BY <1>2, <1>4, <1>5, <1>6, <2>1, <2>2, <2>3 DEF BenchAgrees, b
<1> QED BY <1>6, <1>7, <1>8, <1>9 DEF ClientAgrees, ArticleWalk, JobWalk, NoJobSkipped
-----------------------------------------------------------------------------
(***************************************************************************)
(* What clients post and sinks record.                                     *)
(***************************************************************************)
LEMMA CreateJobKeeps ==
    ASSUME ReadInvariant, NEW j \in Jobs, CreateJob(j)
    PROVE  /\ board' \in [Jobs -> Outcome \cup {NotCreated}]
           /\ shown' \in [Jobs -> JobRow \cup {NotCreated}]
           /\ created' = Append(created, j) /\ created' \in Seq(Jobs)
           /\ BoardAgrees' /\ RowsRanked' /\ OneTxPerJob' /\ IdsAhead'
           /\ \A k \in Jobs : Board!Open(k) => Board!Open(k)' /\ board'[k] = board[k]
           /\ Board!Open(j)'
           /\ UNCHANGED <<articles, nextId, tx>>
<1> USE DEF ReadInvariant
<1> DEFINE b == [total |-> Cardinality(JobUrls[j]), ok |-> {}, bad |-> {}]
<1>1. /\ board[j] = NotCreated /\ Board!Post(j, b)
      /\ created' = Append(created, j) /\ UNCHANGED <<articles, nextId, tx>>
  BY DEF CreateJob
<1>2. b \in Outcome /\ IsFiniteSet(b.ok) /\ IsFiniteSet(b.bad)
      /\ b.total = Cardinality(JobUrls[j])
  BY UrlsCount, FS_EmptySet DEF Outcome
<1> HIDE DEF b
<1>3. /\ board' \in [Jobs -> Outcome \cup {NotCreated}]
      /\ shown' \in [Jobs -> JobRow \cup {NotCreated}]
      /\ BoardAgrees' /\ Board!Open(j)'
      /\ \A k \in Jobs \ {j} : board'[k] = board[k]
      /\ \A k \in Jobs : Board!Open(k) => Board!Open(k)'
  BY <1>1, <1>2, PostKeeps
<1>4. \A k \in Jobs : Board!Open(k) => k # j
  BY <1>1 DEF Board!Open
<1>5. OneTxPerJob' /\ RowsRanked'
  BY <1>1 DEF OneTxPerJob, RowsRanked
<1>6. IdsAhead'
  <2>1. \A s \in Sinks : tx[s] # NoTx => tx[s].job \in Jobs /\ Board!Open(tx[s].job)'
    BY <1>1, <1>3 DEF IdsAhead, TypeOK, Tx, Board!Open
  <2> QED BY <1>1, <2>1 DEF IdsAhead, Board!Open
<1>7. created' \in Seq(Jobs)
  BY <1>1 DEF TypeOK
<1> QED BY <1>1, <1>3, <1>4, <1>5, <1>6, <1>7

LEMMA BoardFinite ==
    ASSUME BoardAgrees, NEW j \in Jobs, Board!Open(j)
    PROVE  IsFiniteSet(board[j].ok) /\ IsFiniteSet(board[j].bad)
BY DEF BoardAgrees

LEMMA CreateJobStep ==
    ASSUME ReadInvariant, NEW j \in Jobs, CreateJob(j), UNCHANGED client
    PROVE  ReadInvariant'
<1> USE DEF ReadInvariant
<1>1. TypeOK'
  BY CreateJobKeeps DEF TypeOK
<1>2. ArticleWalk'
  <2>1. articles' = articles
    BY CreateJobKeeps
  <2> QED BY <2>1, ArticleWalkKept DEF ClientAgrees
<1>3. JobWalk'
  BY <1>1, CreateJobKeeps, JobWalkKept DEF ClientAgrees
<1>4. BenchAgrees'
  <2>1. \A k \in Jobs : Board!Open(k) =>
            /\ Board!Open(k)'
            /\ IsFiniteSet(board'[k].ok) /\ IsFiniteSet(board'[k].bad)
            /\ board[k].ok \subseteq board'[k].ok /\ board[k].bad \subseteq board'[k].bad
    BY CreateJobKeeps, BoardFinite
  <2> QED BY <2>1, BenchKept DEF ClientAgrees
<1>5. ClientAgrees'
  BY <1>2, <1>3, <1>4 DEF ClientAgrees, NoJobSkipped
<1> QED BY <1>1, <1>5, CreateJobKeeps

LEMMA SubmitJobStep ==
    ASSUME ReadInvariant, NEW j \in Jobs, SubmitJob(j)
    PROVE  ReadInvariant'
<1> USE DEF ReadInvariant
<1>1. /\ client.kind = "new" /\ client.got = <<>> /\ CreateJob(j)
      /\ client' = [client EXCEPT !.kind = "poll", !.job = j]
  BY DEF SubmitJob, ClientAgrees
<1>2. /\ client'.kind = "poll" /\ client'.job = j /\ client'.got = <<>>
      /\ client' \in [kind : Kinds, job : Jobs \cup {NoJob}, limit : Int,
                      got : Seq(Reply), had : SUBSET Jobs]
  BY <1>1 DEF TypeOK, Kinds
<1>3. TypeOK'
  BY <1>1, <1>2, CreateJobKeeps DEF TypeOK
<1>4. ClientAgrees'
  <2>1. Board!Open(j)'
    BY <1>1, CreateJobKeeps
  <2> QED BY <1>2, <2>1 DEF ClientAgrees, ArticleWalk, JobWalk, NoJobSkipped, BenchAgrees, Board!Open
<1> QED BY <1>1, <1>3, <1>4, CreateJobKeeps

(***************************************************************************)
(* Steps of a sink that leave the tables alone.                            *)
(***************************************************************************)
LEMMA TxStep ==
    ASSUME ReadInvariant, UNCHANGED <<tables, client>>, nextId' \in Nat \ {0},
           tx' \in [Sinks -> Tx \cup {NoTx}], OneTxPerJob', IdsAhead'
    PROVE  ReadInvariant'
<1> USE DEF ReadInvariant
<1>1. TypeOK'
  BY DEF TypeOK, tables
<1>2. BoardAgrees' /\ RowsRanked'
  BY TablesStay
<1>3. ClientAgrees'
  BY DEF ClientAgrees, ArticleWalk, ById, SortedById, IdRank, JobWalk, NewestFirst,
         NoJobSkipped, BenchAgrees, Board!Open, tables
<1> QED BY <1>1, <1>2, <1>3

LEMMA BeginStep ==
    ASSUME ReadInvariant, NEW s \in Sinks, NEW j \in Jobs, NEW ok \in BOOLEAN,
           NEW u \in JobUrls[j], Begin(s, j, u, ok)
    PROVE  ReadInvariant'
<1> USE DEF ReadInvariant
<1> DEFINE t == [job |-> j, url |-> u, ok |-> ok, id |-> 0]
<1>1. /\ tx[s] = NoTx /\ Board!Open(j) /\ RowFree(j) /\ tx' = [tx EXCEPT ![s] = t]
      /\ UNCHANGED <<tables, nextId, client>>
  BY DEF Begin
<1>2. t \in Tx
  <2>1. JobUrls[j] \in (SUBSET Urls) \ {{}}
    BY ReadAssumption
  <2>2. u \in Urls
    BY <2>1
  <2> QED BY <2>2 DEF Tx
<1>3. t.job = j /\ t.id = 0
  OBVIOUS
<1> HIDE DEF t
<1>4. /\ tx' \in [Sinks -> Tx \cup {NoTx}] /\ tx'[s] = t
      /\ \A r \in Sinks \ {s} : tx'[r] = tx[r]
  BY <1>1, <1>2 DEF TypeOK
<1>5. OneTxPerJob'
  <2>1. \A r \in Sinks : tx[r] # NoTx => tx[r].job # j
    BY <1>1 DEF RowFree
  <2> SUFFICES ASSUME NEW a \in Sinks, NEW b \in Sinks, tx'[a] # NoTx, tx'[b] # NoTx,
                      tx'[a].job = tx'[b].job
               PROVE  a = b
    BY DEF OneTxPerJob
  <2> QED BY <1>3, <1>4, <2>1 DEF OneTxPerJob
<1>6. IdsAhead'
  <2>1. \A k \in Jobs : Board!Open(k)' <=> Board!Open(k)
    BY <1>1, TablesStay
  <2>2. board' = board /\ articles' = articles /\ nextId' = nextId /\ nextId \in Nat \ {0}
    BY <1>1 DEF tables, TypeOK
  <2>3. ASSUME NEW r \in Sinks, tx'[r] # NoTx
        PROVE  /\ Board!Open(tx'[r].job)
               /\ tx'[r].id < nextId
               /\ tx'[r].id > 0 => \A a \in articles[tx'[r].job] : a.id < tx'[r].id
    <3>1. CASE r = s
      BY <1>1, <1>3, <1>4, <2>2, <3>1
    <3>2. CASE r # s
      BY <1>4, <2>3, <3>2 DEF IdsAhead
    <3> QED BY <3>1, <3>2
  <2> QED BY <2>2, <2>3 DEF IdsAhead, Board!Open
<1> QED BY <1>1, <1>4, <1>5, <1>6, TxStep DEF TypeOK

LEMMA InsertStep ==
    ASSUME ReadInvariant, NEW s \in Sinks, Insert(s)
    PROVE  ReadInvariant'
<1> USE DEF ReadInvariant
<1>1. /\ tx[s] # NoTx /\ tx[s] \in Tx /\ tx[s].job \in Jobs
      /\ nextId' = nextId + 1 /\ tx' = [tx EXCEPT ![s].id = nextId]
      /\ UNCHANGED <<tables, client>> /\ nextId \in Nat \ {0}
  BY DEF Insert, TypeOK, Tx
<1>2. /\ tx' \in [Sinks -> Tx \cup {NoTx}]
      /\ tx'[s].job = tx[s].job /\ tx'[s].id = nextId
      /\ \A r \in Sinks \ {s} : tx'[r] = tx[r]
  <2>1. [tx[s] EXCEPT !.id = nextId] \in Tx
    BY <1>1 DEF Tx
  <2>2. /\ [tx[s] EXCEPT !.id = nextId].job = tx[s].job
        /\ [tx[s] EXCEPT !.id = nextId].id = nextId
    BY <1>1 DEF Tx
  <2>3. tx' = [tx EXCEPT ![s] = [tx[s] EXCEPT !.id = nextId]]
    BY <1>1
  <2> QED BY <2>1, <2>2, <2>3 DEF TypeOK
<1>3. OneTxPerJob'
  <2> SUFFICES ASSUME NEW a \in Sinks, NEW b \in Sinks, tx'[a] # NoTx, tx'[b] # NoTx,
                      tx'[a].job = tx'[b].job
               PROVE  a = b
    BY DEF OneTxPerJob
  <2>1. \A r \in Sinks : tx'[r] # NoTx => tx[r] # NoTx /\ tx'[r].job = tx[r].job
    BY <1>1, <1>2
  <2> QED BY <2>1 DEF OneTxPerJob
<1>4. IdsAhead'
  <2>1. board' = board /\ articles' = articles
    BY <1>1 DEF tables
  <2>2. ASSUME NEW k \in Jobs, NEW a \in articles[k]
        PROVE  a.id < nextId /\ a.id < nextId'
    <3>1. a.id < nextId /\ a.id \in Nat
      BY <2>2 DEF IdsAhead, TypeOK, Article
    <3> QED BY <1>1, <3>1
  <2>3. ASSUME NEW r \in Sinks, tx'[r] # NoTx
        PROVE  /\ Board!Open(tx'[r].job)
               /\ tx'[r].id < nextId'
               /\ tx'[r].id > 0 => \A a \in articles[tx'[r].job] : a.id < tx'[r].id
    <3>1. CASE r = s
      BY <1>1, <1>2, <2>2, <3>1 DEF IdsAhead
    <3>2. CASE r # s
      <4>1. tx'[r] = tx[r] /\ tx[r].id \in Nat /\ tx[r].id < nextId
        BY <1>2, <2>3, <3>2 DEF IdsAhead, TypeOK, Tx
      <4> QED BY <1>1, <2>3, <4>1 DEF IdsAhead
    <3> QED BY <3>1, <3>2
  <2> QED BY <2>1, <2>2, <2>3 DEF IdsAhead, Board!Open
<1>5. nextId' \in Nat \ {0}
  BY <1>1
<1> QED BY <1>1, <1>2, <1>3, <1>4, <1>5, TxStep

LEMMA EndTx ==
    ASSUME OneTxPerJob, NEW s \in Sinks, tx \in [Sinks -> Tx \cup {NoTx}],
           tx' = [tx EXCEPT ![s] = NoTx]
    PROVE  /\ tx' \in [Sinks -> Tx \cup {NoTx}]
           /\ OneTxPerJob'
           /\ \A r \in Sinks : tx'[r] # NoTx => r # s /\ tx'[r] = tx[r]
<1>1. /\ tx' \in [Sinks -> Tx \cup {NoTx}]
      /\ \A r \in Sinks : tx'[r] # NoTx => r # s /\ tx'[r] = tx[r]
  OBVIOUS
<1>2. OneTxPerJob'
  BY <1>1 DEF OneTxPerJob
<1> QED BY <1>1, <1>2

LEMMA RollbackStep ==
    ASSUME ReadInvariant, NEW s \in Sinks, Rollback(s)
    PROVE  ReadInvariant'
<1> USE DEF ReadInvariant
<1>1. tx' = [tx EXCEPT ![s] = NoTx] /\ UNCHANGED <<tables, nextId, client>>
  BY DEF Rollback
<1>2. /\ tx' \in [Sinks -> Tx \cup {NoTx}] /\ OneTxPerJob'
      /\ \A r \in Sinks : tx'[r] # NoTx => r # s /\ tx'[r] = tx[r]
  BY <1>1, EndTx DEF TypeOK
<1>3. IdsAhead'
  BY <1>1, <1>2 DEF IdsAhead, tables, Board!Open
<1> QED BY <1>1, <1>2, <1>3, TxStep DEF TypeOK

(***************************************************************************)
(* COMMIT: the tables, then everything.                                    *)
(***************************************************************************)
LEMMA CommitTables ==
    ASSUME ReadInvariant, NEW s \in Sinks, Commit(s)
    PROVE  /\ board' \in [Jobs -> Outcome \cup {NotCreated}]
           /\ shown' \in [Jobs -> JobRow \cup {NotCreated}]
           /\ BoardAgrees'
           /\ \A k \in Jobs : Board!Open(k) =>
                  /\ Board!Open(k)'
                  /\ IsFiniteSet(board'[k].ok) /\ IsFiniteSet(board'[k].bad)
                  /\ board[k].ok \subseteq board'[k].ok /\ board[k].bad \subseteq board'[k].bad
<1> USE DEF ReadInvariant
<1> DEFINE t == tx[s]
           b == board[t.job]
<1>1. t \in Tx /\ t.job \in Jobs /\ t.url \in Urls
  BY DEF Commit, TypeOK, Tx
<1>2. ASSUME NEW c \in Outcome, Board!Post(t.job, c), Board!Open(t.job),
             IsFiniteSet(c.ok), IsFiniteSet(c.bad), c.total = b.total,
             b.ok \subseteq c.ok, b.bad \subseteq c.bad
      PROVE  /\ board' \in [Jobs -> Outcome \cup {NotCreated}]
             /\ shown' \in [Jobs -> JobRow \cup {NotCreated}]
             /\ BoardAgrees'
             /\ \A k \in Jobs : Board!Open(k) =>
                    /\ Board!Open(k)'
                    /\ IsFiniteSet(board'[k].ok) /\ IsFiniteSet(board'[k].bad)
                    /\ board[k].ok \subseteq board'[k].ok
                    /\ board[k].bad \subseteq board'[k].bad
  <2>1. c.total = Cardinality(JobUrls[t.job])
    BY <1>1, <1>2 DEF BoardAgrees
  <2> HIDE DEF t
  <2>2. /\ board' \in [Jobs -> Outcome \cup {NotCreated}]
        /\ shown' \in [Jobs -> JobRow \cup {NotCreated}]
        /\ BoardAgrees' /\ board'[t.job] = c
        /\ \A k \in Jobs \ {t.job} : board'[k] = board[k]
        /\ \A k \in Jobs : Board!Open(k) => Board!Open(k)'
    BY <1>1, <1>2, <2>1, PostKeeps
  <2> QED BY <1>2, <2>2, BoardFinite
<1>3. Board!Open(t.job) => /\ b \in Outcome /\ IsFiniteSet(b.ok) /\ IsFiniteSet(b.bad)
                           /\ IsFiniteSet(b.ok \cup {t.url})
                           /\ IsFiniteSet(b.bad \cup {t.url})
  BY <1>1, OpenType, BoardFinite, FS_AddElement
<1>4. CASE Board!RecordArticle(t.job, t.url)
  <2> DEFINE c == [b EXCEPT !.ok = @ \cup {t.url}]
  <2>1. Board!Open(t.job) /\ Board!Post(t.job, c)
    BY <1>4 DEF Board!RecordArticle
  <2>2. /\ c \in Outcome /\ c.ok = b.ok \cup {t.url} /\ c.bad = b.bad /\ c.total = b.total
    BY <1>1, <1>3, <2>1 DEF Outcome
  <2> HIDE DEF c, b, t
  <2>3. IsFiniteSet(c.ok) /\ IsFiniteSet(c.bad) /\ b.ok \subseteq c.ok /\ b.bad \subseteq c.bad
    BY <1>3, <2>1, <2>2
  <2> QED BY <1>2, <2>1, <2>2, <2>3
<1>5. CASE Board!RecordError(t.job, t.url)
  <2> DEFINE c == [b EXCEPT !.bad = @ \cup {t.url}]
  <2>1. Board!Open(t.job) /\ Board!Post(t.job, c)
    BY <1>5 DEF Board!RecordError
  <2>2. /\ c \in Outcome /\ c.bad = b.bad \cup {t.url} /\ c.ok = b.ok /\ c.total = b.total
    BY <1>1, <1>3, <2>1 DEF Outcome
  <2> HIDE DEF c, b, t
  <2>3. IsFiniteSet(c.ok) /\ IsFiniteSet(c.bad) /\ b.ok \subseteq c.ok /\ b.bad \subseteq c.bad
    BY <1>3, <2>1, <2>2
  <2> QED BY <1>2, <2>1, <2>2, <2>3
<1>6. CASE UNCHANGED <<board, shown>>
  <2>1. /\ BoardAgrees' /\ \A k \in Jobs : Board!Open(k)' <=> Board!Open(k)
    BY <1>6 DEF BoardAgrees, Board!Open, Board!Row, Board!State
  <2> QED BY <1>6, <2>1, BoardFinite DEF TypeOK
<1> QED BY <1>4, <1>5, <1>6 DEF Commit

LEMMA CommitStep ==
    ASSUME ReadInvariant, NEW s \in Sinks, Commit(s)
    PROVE  ReadInvariant'
<1> USE DEF ReadInvariant
<1> DEFINE t == tx[s]
           x == [id |-> t.id, url |-> t.url]
<1>1. /\ t \in Tx /\ t # NoTx /\ t.job \in Jobs /\ x \in Article /\ x.id = t.id
      /\ t.id < nextId
      /\ tx' = [tx EXCEPT ![s] = NoTx] /\ UNCHANGED <<created, nextId, client>>
  BY DEF Commit, TypeOK, Tx, Article, IdsAhead
<1>2. \/ articles' = articles
      \/ /\ articles' = [articles EXCEPT ![t.job] = @ \cup {x}]
         /\ \A a \in articles[t.job] : a.id < x.id
  <2>1. t.id > 0 => \A a \in articles[t.job] : a.id < t.id
    BY <1>1 DEF IdsAhead
  <2> QED BY <1>1, <2>1 DEF Commit
<1> HIDE DEF t, x
<1>3. /\ \A k \in Jobs \ {t.job} : articles'[k] = articles[k]
      /\ articles' \in [Jobs -> SUBSET Article]
      /\ \/ articles'[t.job] = articles[t.job]
         \/ /\ articles'[t.job] = articles[t.job] \cup {x}
            /\ \A a \in articles[t.job] : a.id < x.id
  BY <1>1, <1>2 DEF TypeOK
<1>4. /\ tx' \in [Sinks -> Tx \cup {NoTx}] /\ OneTxPerJob'
      /\ \A r \in Sinks : tx'[r] # NoTx => r # s /\ tx'[r] = tx[r]
  BY <1>1, EndTx DEF TypeOK
<1>5. TypeOK'
  BY <1>1, <1>3, <1>4, CommitTables DEF TypeOK
<1>6. RowsRanked'
  <2> SUFFICES ASSUME NEW k \in Jobs PROVE Ranked(articles'[k])
    BY DEF RowsRanked, Ranked, IdRank
  <2>1. articles[k] \in SUBSET Article /\ Ranked(articles[k])
    BY DEF TypeOK, RowsRanked
  <2>2. CASE articles'[k] = articles[k]
    BY <2>1, <2>2
  <2>3. CASE articles'[k] # articles[k]
    BY <1>1, <1>3, <2>1, <2>3, RankOfNewest
  <2> QED BY <2>2, <2>3
<1>7. IdsAhead'
  <2>1. ASSUME NEW k \in Jobs, NEW a \in articles'[k] PROVE a.id < nextId
    <3>1. a \in articles[k] \/ a = x
      BY <1>3, <2>1
    <3> QED BY <1>1, <3>1 DEF IdsAhead
  <2>2. ASSUME NEW r \in Sinks, tx'[r] # NoTx
        PROVE  /\ board'[tx'[r].job] \notin {NotCreated, Deleted}
               /\ tx'[r].id < nextId
               /\ tx'[r].id > 0 => \A a \in articles'[tx'[r].job] : a.id < tx'[r].id
    <3>1. r # s /\ tx'[r] = tx[r] /\ tx[r] # NoTx /\ tx[r].job \in Jobs
      BY <1>4, <2>2 DEF TypeOK, Tx
    <3>2. tx[r].job # t.job
      BY <1>1, <3>1 DEF OneTxPerJob, t
    <3>3. /\ Board!Open(tx[r].job) /\ tx[r].id < nextId
          /\ tx[r].id > 0 => \A a \in articles[tx[r].job] : a.id < tx[r].id
      BY <3>1 DEF IdsAhead
    <3>4. \A k \in Jobs : Board!Open(k) => board'[k] \notin {NotCreated, Deleted}
      BY CommitTables DEF Board!Open
    <3>5. articles'[tx[r].job] = articles[tx[r].job]
      BY <1>3, <3>1, <3>2
    <3> QED BY <3>1, <3>3, <3>4, <3>5
  <2> QED BY <1>1, <2>1, <2>2 DEF IdsAhead, Board!Open
<1>8. ArticleWalk'
  BY <1>1, <1>3, ArticleWalkKept DEF ClientAgrees
<1>9. JobWalk'
  BY <1>1, <1>5, JobWalkKept DEF ClientAgrees
<1>10. BenchAgrees'
  <2>1. \A k \in Jobs : Board!Open(k) =>
            /\ Board!Open(k)'
            /\ IsFiniteSet(board'[k].ok) /\ IsFiniteSet(board'[k].bad)
            /\ board[k].ok \subseteq board'[k].ok /\ board[k].bad \subseteq board'[k].bad
    BY CommitTables
  <2> QED BY <1>1, <2>1, BenchKept DEF ClientAgrees
<1>11. ClientAgrees'
  BY <1>1, <1>8, <1>9, <1>10 DEF ClientAgrees, NoJobSkipped
<1> QED BY <1>4, <1>5, <1>6, <1>7, <1>11, CommitTables
-----------------------------------------------------------------------------
LEMMA ReadInit == Init => ReadInvariant
<1> SUFFICES ASSUME Init PROVE ReadInvariant
  OBVIOUS
<1>1. /\ board = [j \in Jobs |-> NotCreated] /\ shown = [j \in Jobs |-> NotCreated]
      /\ created = <<>> /\ articles = [j \in Jobs |-> {}] /\ nextId = 1
      /\ tx = [s \in Sinks |-> NoTx]
      /\ client = [kind |-> "new", job |-> NoJob, limit |-> 0, got |-> <<>>, had |-> {}]
  BY DEF Init, Board!Init
<1>2. TypeOK
  <2>1. <<>> \in Seq(Jobs) /\ <<>> \in Seq(Reply)
    BY EmptySeq
  <2>2. client \in [kind : Kinds, job : Jobs \cup {NoJob}, limit : Int,
                    got : Seq(Reply), had : SUBSET Jobs]
    BY <1>1, <2>1 DEF Kinds
  <2> QED BY <1>1, <2>1, <2>2 DEF TypeOK
<1>3. \A j \in Jobs : ~Board!Open(j)
  BY <1>1 DEF Board!Open
<1>4. RowsRanked
  <2>1. Ranked({})
    BY FS_EmptySet DEF Ranked
  <2> QED BY <1>1, <2>1 DEF RowsRanked
<1>5. OneTxPerJob /\ IdsAhead
  BY <1>1 DEF OneTxPerJob, IdsAhead
<1>6. ClientAgrees
  BY <1>1 DEF ClientAgrees, ArticleWalk, JobWalk, NoJobSkipped, BenchAgrees
<1> QED BY <1>2, <1>3, <1>4, <1>5, <1>6 DEF ReadInvariant, BoardAgrees

LEMMA ReadNext == ReadInvariant /\ [Next]_vars => ReadInvariant'
<1> SUFFICES ASSUME ReadInvariant, [Next]_vars PROVE ReadInvariant'
  OBVIOUS
<1>1. CASE \E j \in Jobs : CreateJob(j) /\ UNCHANGED client
  BY <1>1, CreateJobStep
<1>2. CASE \E s \in Sinks : SinkStep(s)
  <2>1. PICK s \in Sinks : SinkStep(s)
    BY <1>2
  <2> QED BY <2>1, BeginStep, InsertStep, CommitStep, RollbackStep DEF SinkStep
<1>3. CASE ClientStep
  <2>1. CASE \E j \in Jobs, limit \in Limits : StartWalk("articles", j, limit)
    BY <2>1, StartWalkStep
  <2>2. CASE \E limit \in Limits : StartWalk("jobs", NoJob, limit)
    BY <2>2, StartWalkStep
  <2> QED BY <1>3, <2>1, <2>2, NextPageStep, SubmitJobStep, GetJobStep DEF ClientStep
<1>4. CASE UNCHANGED vars
  <2>1. UNCHANGED <<tables, client>> /\ nextId' = nextId /\ tx' = tx
    BY <1>4 DEF vars
  <2>2. OneTxPerJob' /\ IdsAhead'
    BY <2>1, Untouched DEF ReadInvariant
  <2> QED BY <2>1, <2>2, TxStep DEF ReadInvariant, TypeOK
<1> QED BY <1>1, <1>2, <1>3, <1>4 DEF Next

(***************************************************************************)
(* Whatever is recorded meanwhile, whoever pages through the articles of a *)
(* job has got the beginning of the list: no row twice, none missed.       *)
(***************************************************************************)
THEOREM PagesNeitherSkipNorRepeat == Spec => []PagesArePrefix
<1>1. ReadInvariant => PagesArePrefix
  <2> SUFFICES ASSUME ReadInvariant, client.kind \in {"articles", "endarticles"}
               PROVE  IsPrefix(client.got, ById(client.job))
    BY DEF PagesArePrefix
  <2> DEFINE rows == ById(client.job)
  <2>1. client.job \in Jobs /\ Begins(client.got, rows)
    BY DEF ReadInvariant, ClientAgrees, ArticleWalk
  <2>2. articles[client.job] \in SUBSET Article /\ Ranked(articles[client.job])
    BY <2>1 DEF ReadInvariant, TypeOK, RowsRanked
  <2>3. rows \in Seq(Reply) /\ client.got \in Seq(Reply)
    <3>1. ById(client.job) \in Seq(Article) /\ Article \subseteq Reply
      BY <2>2, SortedType DEF ById, Reply
    <3> QED BY <3>1, SeqMonotonic DEF ReadInvariant, TypeOK
  <2> HIDE DEF rows
  <2>4. IsPrefix(client.got, rows)
    BY <2>1, <2>3, Prefix
  <2> QED BY <2>4 DEF rows
<1> QED BY <1>1, ReadInit, ReadNext, PTL DEF Spec

(***************************************************************************)
(* Whoever pages through all jobs has seen each that was there at the      *)
(* start, however many are posted meanwhile.                               *)
(***************************************************************************)
THEOREM WalksSeeEveryJob == Spec => []NoJobSkipped
<1>1. ReadInvariant => NoJobSkipped
  BY DEF ReadInvariant, ClientAgrees
<1> QED BY <1>1, ReadInit, ReadNext, PTL DEF Spec

(***************************************************************************)
(* bench_job.js never reports more than is recorded, and reports all urls  *)
(* when it ends.                                                           *)
(***************************************************************************)
THEOREM BenchIsRight == Spec => []BenchReportsRecorded
<1>1. ReadInvariant => BenchReportsRecorded
  BY DEF ReadInvariant, ClientAgrees, BenchAgrees, BenchReportsRecorded
<1> QED BY <1>1, ReadInit, ReadNext, PTL DEF Spec
=============================================================================

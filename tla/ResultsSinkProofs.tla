------------------------- MODULE ResultsSinkProofs --------------------------
(***************************************************************************)
(* What is proved of ResultsSink for every number of jobs, urls, sinks,    *)
(* partitions, messages and faults.                                        *)
(*                                                                         *)
(* SinkInvariant is inductive.  Its proof has two halves: every action     *)
(* preserves Typed (types, and each busy handler has its message), and     *)
(* every action preserves Consistent (locks, rows and counters).  On it    *)
(* rest the two parts that follow: no result is lost, and the sink         *)
(* implements JobBoard.                                                    *)
(***************************************************************************)
EXTENDS ResultsSink, FiniteSetTheorems, TLAPS

Typed == TypeOK /\ HandlerHasWork

Consistent ==
    /\ NoLockLeak
    /\ TransactionIsolated
    /\ RowsHaveJob
    /\ CountersMatchRows
    /\ StateMatchesCounters

-----------------------------------------------------------------------------
(***************************************************************************)
(* What the ways a handler ends leave behind.                              *)
(***************************************************************************)
LEMMA EndHandlerType ==
    ASSUME TypeOK, NEW s \in Sinks, EndHandler(s)
    PROVE  /\ spc' \in [Sinks -> Locations]
           /\ swork' \in [Sinks -> Work \cup {NoWork}]
           /\ sinserted' \in [Sinks -> BOOLEAN]
BY DEF TypeOK, EndHandler, Goto, Locations

LEMMA ResolveType ==
    ASSUME TypeOK, NEW w \in Work, NEW s, Group!Resolve(w.part, s, w.off)
    PROVE  resPosition' \in [ResultPartitions -> Nat]
BY DEF TypeOK, Work, Group!Resolve

LEMMA ReturnType ==
    ASSUME TypeOK, NEW s \in Sinks, swork[s] \in Work, Return(s)
    PROVE  /\ spc' \in [Sinks -> Locations]
           /\ swork' \in [Sinks -> Work \cup {NoWork}]
           /\ sinserted' \in [Sinks -> BOOLEAN]
           /\ resPosition' \in [ResultPartitions -> Nat]
BY EndHandlerType, ResolveType DEF Return

LEMMA ReleaseLocksType ==
    ASSUME TypeOK, NEW s \in Sinks, ReleaseLocks(s)
    PROVE  rowLock' \in [Jobs -> Sinks \cup {Nobody}]
BY DEF TypeOK, ReleaseLocks

(***************************************************************************)
(* A handler that has parsed its message holds a crawl result.             *)
(***************************************************************************)
LEMMA MsgType ==
    ASSUME Typed, NEW s \in Sinks, spc[s] \notin {"idle", "down", "garbage"}
    PROVE  Msg(s) \in Event
<1>1. /\ swork[s] \in Work
      /\ swork[s].off < Len(results[swork[s].part])
      /\ Msg(s) # Garbage
  BY DEF Typed, HandlerHasWork
<1>2. /\ results[swork[s].part] \in Seq(Event \cup {Garbage})
      /\ swork[s].off + 1 \in 1..Len(results[swork[s].part])
  BY <1>1 DEF Typed, TypeOK, Work
<1> QED BY <1>1, <1>2 DEF Msg

LEMMA CountedType ==
    ASSUME NEW row \in JobRow, NEW d \in Nat, NEW f \in Nat
    PROVE  Counted(row, d, f) \in JobRow
<1> DEFINE st == IF row.done + d + row.failed + f >= row.total THEN "done"
                 ELSE IF row.state = "queued" /\ d + f > 0 THEN "running"
                 ELSE row.state
<1>1. /\ row.total \in Nat \ {0} /\ row.done \in Nat /\ row.failed \in Nat
      /\ row.state \in {"queued", "running", "done"}
  BY DEF JobRow
<1>2. Counted(row, d, f) = [row EXCEPT !.done = row.done + d, !.failed = row.failed + f,
                                       !.state = st]
  BY DEF Counted
<1>3. row.done + d \in Nat /\ row.failed + f \in Nat
  BY <1>1
<1>4. st \in {"queued", "running", "done"}
  BY <1>1
<1> HIDE DEF st
<1> QED BY <1>2, <1>3, <1>4 DEF JobRow

(***************************************************************************)
(* The end of one handler does not disturb the work of the others.         *)
(***************************************************************************)
LEMMA EndHandlerWork ==
    ASSUME Typed, NEW s \in Sinks, EndHandler(s), UNCHANGED results
    PROVE  HandlerHasWork'
BY DEF Typed, TypeOK, EndHandler, Goto, HandlerHasWork, Msg

LEMMA GotoWork ==
    ASSUME Typed, NEW s \in Sinks, spc[s] \notin {"idle", "down", "garbage"},
           NEW loc \in Locations, Goto(s, loc), UNCHANGED <<swork, results>>
    PROVE  HandlerHasWork' /\ spc' \in [Sinks -> Locations]
BY DEF Typed, TypeOK, Goto, HandlerHasWork, Msg

(***************************************************************************)
(* Appending to the topic changes no message a handler works on.           *)
(***************************************************************************)
LEMMA PublishWork ==
    ASSUME Typed, NEW p \in ResultPartitions, NEW m \in Event \cup {Garbage},
           Group!Publish(p, m), UNCHANGED sinkVars
    PROVE  /\ results' \in [ResultPartitions -> Seq(Event \cup {Garbage})]
           /\ HandlerHasWork'
           /\ \A s \in Sinks : spc[s] \notin {"idle", "down"} => Msg(s)' = Msg(s)
<1>1. results' \in [ResultPartitions -> Seq(Event \cup {Garbage})]
  BY DEF Typed, TypeOK, Group!Publish
<1>2. ASSUME NEW s \in Sinks, spc[s] \notin {"idle", "down"}
      PROVE  /\ swork[s].off < Len(results'[swork[s].part])
             /\ Msg(s)' = Msg(s)
  <2>1. /\ swork[s] \in Work
        /\ swork[s].off < Len(results[swork[s].part])
    BY <1>2 DEF Typed, HandlerHasWork
  <2>2. swork' = swork
    BY DEF sinkVars
  <2>3. CASE swork[s].part = p
    <3> DEFINE log == results[p]
    <3>1. log \in Seq(Event \cup {Garbage}) /\ results'[p] = Append(log, m)
      BY DEF Typed, TypeOK, Group!Publish
    <3>2. swork[s].off \in Nat /\ swork[s].off + 1 \in 1..Len(log)
      BY <2>1, <2>3, <3>1 DEF Work
    <3>3. /\ Len(Append(log, m)) = Len(log) + 1
          /\ Append(log, m)[swork[s].off + 1] = log[swork[s].off + 1]
      BY <3>1, <3>2
    <3> QED BY <2>2, <2>3, <3>1, <3>2, <3>3 DEF Msg
  <2>4. CASE swork[s].part # p
    BY <2>1, <2>2, <2>4 DEF Typed, TypeOK, Group!Publish, Msg, Work
  <2> QED BY <2>3, <2>4
<1> QED BY <1>1, <1>2 DEF HandlerHasWork, Typed, sinkVars
-----------------------------------------------------------------------------
(***************************************************************************)
(* First layer: types.                                                     *)
(***************************************************************************)
LEMMA TypedInit == Init => Typed
BY ConstantsAssumption DEF Init, Typed, TypeOK, HandlerHasWork, Locations

LEMMA TypedDeliver ==
    ASSUME Typed, NEW s \in Sinks, NEW p \in ResultPartitions, Deliver(s, p)
    PROVE  Typed'
<1> DEFINE w == [part |-> p, off |-> resPosition[p]]
           loc == IF results[p][resPosition[p] + 1] = Garbage THEN "garbage"
                  ELSE "connect"
<1>1. w \in Work /\ w.off < Len(results[w.part])
  BY DEF Typed, TypeOK, Work, Deliver, Group!Ready
<1>2. loc \in Locations \ {"idle", "down"}
  BY DEF Locations
<1>3. swork' = [swork EXCEPT ![s] = w] /\ spc' = [spc EXCEPT ![s] = loc]
  BY DEF Deliver, Goto
<1>4. UNCHANGED results
  BY DEF Deliver, topicVars
<1>5. TypeOK'
  BY <1>1, <1>2, <1>3 DEF Typed, TypeOK, Deliver, dbVars, topicVars, faultVars
<1>6. HandlerHasWork'
  <2> SUFFICES ASSUME NEW t \in Sinks, spc'[t] \notin {"idle", "down"}
               PROVE  /\ swork'[t] \in Work
                      /\ swork'[t].off < Len(results'[swork'[t].part])
                      /\ spc'[t] # "garbage" => Msg(t)' # Garbage
    BY DEF HandlerHasWork
  <2>1. CASE t = s
    <3>1. swork'[t] = w /\ spc'[t] = loc
      BY <1>3, <2>1 DEF Typed, TypeOK
    <3>2. Msg(t)' = results[p][resPosition[p] + 1]
      BY <1>4, <3>1 DEF Msg
    <3>3. loc # "garbage" => results[p][resPosition[p] + 1] # Garbage
      OBVIOUS
    <3> HIDE DEF loc, w
    <3> QED BY <1>1, <1>4, <3>1, <3>2, <3>3
  <2>2. CASE t # s
    BY <1>3, <1>4, <2>2 DEF Typed, TypeOK, HandlerHasWork, Msg
  <2> QED BY <2>1, <2>2
<1> QED BY <1>5, <1>6 DEF Typed

LEMMA TypedConnect ==
    ASSUME Typed, NEW s \in Sinks, Connect(s)
    PROVE  Typed'
<1>1. CASE Goto(s, "select") /\ UNCHANGED <<resPosition, swork, sinserted, failures>>
  <2>1. HandlerHasWork' /\ spc' \in [Sinks -> Locations]
    BY <1>1, GotoWork DEF Connect, Locations
  <2> QED BY <1>1, <2>1 DEF Typed, TypeOK, Connect, dbVars
<1>2. CASE Throw(s) /\ RemoteFailure
  BY <1>2, EndHandlerType, EndHandlerWork
  DEF Typed, TypeOK, Connect, Throw, RemoteFailure, dbVars
<1> QED BY <1>1, <1>2 DEF Connect

LEMMA TypedSelectJob ==
    ASSUME Typed, NEW s \in Sinks, SelectJob(s)
    PROVE  Typed'
<1>1. PICK loc \in Locations : Goto(s, loc)
  BY DEF SelectJob, Locations
<1>2. HandlerHasWork' /\ spc' \in [Sinks -> Locations]
  BY <1>1, GotoWork DEF SelectJob, topicVars
<1>3. rowLock' \in [Jobs -> Sinks \cup {Nobody}]
  BY DEF Typed, TypeOK, SelectJob
<1> QED BY <1>2, <1>3 DEF Typed, TypeOK, SelectJob, topicVars, faultVars

LEMMA TypedInsertRow ==
    ASSUME Typed, NEW s \in Sinks, InsertRow(s)
    PROVE  Typed'
<1>1. HandlerHasWork' /\ spc' \in [Sinks -> Locations]
  BY GotoWork DEF InsertRow, topicVars, Locations
<1>2. sinserted' \in [Sinks -> BOOLEAN]
  BY DEF Typed, TypeOK, InsertRow
<1> QED BY <1>1, <1>2 DEF Typed, TypeOK, InsertRow, dbVars, topicVars, faultVars

LEMMA ApplyTxType ==
    ASSUME Typed, NEW s \in Sinks, spc[s] = "commit", ApplyTx(s), TransactionIsolated
    PROVE  /\ jobs' \in [Jobs -> JobRow \cup {NotCreated, Deleted}]
           /\ articles' \in [Jobs -> SUBSET Urls]
           /\ errors' \in [Jobs -> SUBSET Urls]
           /\ rowLock' \in [Jobs -> Sinks \cup {Nobody}]
<1> DEFINE m == Msg(s)
           d == IF m.status = "ok" THEN 1 ELSE 0
           f == IF m.status = "ok" THEN 0 ELSE 1
<1>1. m \in Event
  BY MsgType
<1>2. m.job \in Jobs /\ m.url \in Urls
  BY <1>1 DEF Event
<1>3. jobs[m.job] \in JobRow
  BY <1>2 DEF TransactionIsolated, Isolated, Exists, Typed, TypeOK
<1>4. Counted(jobs[m.job], d, f) \in JobRow
  BY <1>3, CountedType
<1>5. \/ jobs' = [jobs EXCEPT ![m.job] = Counted(jobs[m.job], d, f)]
      \/ jobs' = jobs
  BY DEF ApplyTx
<1>6. jobs' \in [Jobs -> JobRow \cup {NotCreated, Deleted}]
  BY <1>2, <1>4, <1>5 DEF Typed, TypeOK
<1>7. articles' \in [Jobs -> SUBSET Urls] /\ errors' \in [Jobs -> SUBSET Urls]
  BY <1>2 DEF Typed, TypeOK, ApplyTx
<1> QED BY <1>6, <1>7, ReleaseLocksType DEF ApplyTx, Typed

LEMMA TypedCommitTx ==
    ASSUME Typed, TransactionIsolated, NEW s \in Sinks, CommitTx(s)
    PROVE  Typed'
<1>1. HandlerHasWork' /\ spc' \in [Sinks -> Locations]
  BY GotoWork DEF CommitTx, topicVars, Locations
<1> QED BY <1>1, ApplyTxType DEF Typed, TypeOK, CommitTx, topicVars, faultVars

LEMMA ReturnTyped ==
    ASSUME Typed, NEW s \in Sinks, spc[s] \notin {"idle", "down"}, Return(s),
           UNCHANGED results
    PROVE  /\ spc' \in [Sinks -> Locations]
           /\ swork' \in [Sinks -> Work \cup {NoWork}]
           /\ sinserted' \in [Sinks -> BOOLEAN]
           /\ resPosition' \in [ResultPartitions -> Nat]
           /\ HandlerHasWork'
<1>1. swork[s] \in Work
  BY DEF Typed, HandlerHasWork
<1>2. HandlerHasWork'
  BY EndHandlerWork DEF Return
<1> QED BY <1>1, <1>2, ReturnType DEF Typed

LEMMA TypedCommitAckLost ==
    ASSUME Typed, TransactionIsolated, NEW s \in Sinks, CommitAckLost(s)
    PROVE  Typed'
<1>1. /\ jobs' \in [Jobs -> JobRow \cup {NotCreated, Deleted}]
      /\ articles' \in [Jobs -> SUBSET Urls]
      /\ errors' \in [Jobs -> SUBSET Urls]
      /\ rowLock' \in [Jobs -> Sinks \cup {Nobody}]
  BY ApplyTxType DEF CommitAckLost
<1>2. /\ spc' \in [Sinks -> Locations]
      /\ swork' \in [Sinks -> Work \cup {NoWork}]
      /\ sinserted' \in [Sinks -> BOOLEAN]
      /\ resPosition' \in [ResultPartitions -> Nat]
      /\ HandlerHasWork'
  BY ReturnTyped DEF CommitAckLost
<1>3. /\ UNCHANGED <<results, resCommitted, resOwner, stops, evictions>>
      /\ failures' \in Nat
  BY DEF CommitAckLost, RemoteFailure, Typed, TypeOK
<1>4. TypeOK'
  BY <1>1, <1>2, <1>3 DEF Typed, TypeOK
<1> QED BY <1>2, <1>4 DEF Typed

LEMMA TypedQueryRejects ==
    ASSUME Typed, NEW s \in Sinks, QueryRejects(s)
    PROVE  Typed'
<1>1. rowLock' \in [Jobs -> Sinks \cup {Nobody}]
  BY ReleaseLocksType DEF QueryRejects, Typed
<1> QED BY <1>1, ReturnTyped DEF Typed, TypeOK, QueryRejects, RemoteFailure

LEMMA TypedCommitOffset ==
    ASSUME Typed, NEW s \in Sinks, CommitOffset(s)
    PROVE  Typed'
<1>1. swork[s].off \in Nat
  BY DEF CommitOffset, CommitsOffset, Typed, HandlerHasWork, Work
<1>2. resCommitted' \in [ResultPartitions -> Nat \cup {NoOffset}]
  <2>1. resCommitted' = [resCommitted EXCEPT ![swork[s].part] = swork[s].off + 1]
    BY DEF CommitOffset, Group!CommitAccepted
  <2>2. swork[s].off + 1 \in Nat \cup {NoOffset}
    BY <1>1
  <2> QED BY <2>1, <2>2 DEF Typed, TypeOK
<1>3. /\ spc' \in [Sinks -> Locations]
      /\ swork' \in [Sinks -> Work \cup {NoWork}]
      /\ sinserted' \in [Sinks -> BOOLEAN]
      /\ resPosition' \in [ResultPartitions -> Nat]
      /\ HandlerHasWork'
  <2>1. spc[s] \notin {"idle", "down"}
    BY DEF CommitOffset, CommitsOffset
  <2> QED BY <2>1, ReturnTyped DEF CommitOffset
<1> QED BY <1>2, <1>3 DEF Typed, TypeOK, CommitOffset, dbVars, faultVars

LEMMA TypedOffsetRejects ==
    ASSUME Typed, NEW s \in Sinks, OffsetRejects(s)
    PROVE  Typed'
<1>1. spc[s] \notin {"idle", "down"}
  BY DEF OffsetRejects, CommitsOffset
<1>2. swork[s].off \in Nat
  BY <1>1 DEF Typed, HandlerHasWork, Work
<1>3. failures' \in Nat /\ resCommitted' \in [ResultPartitions -> Nat \cup {NoOffset}]
  <2>1. \/ resCommitted' = resCommitted
        \/ resCommitted' = [resCommitted EXCEPT ![swork[s].part] = swork[s].off + 1]
    BY DEF OffsetRejects, Group!CommitAccepted
  <2>2. swork[s].off + 1 \in Nat \cup {NoOffset}
    BY <1>2
  <2>3. resCommitted' \in [ResultPartitions -> Nat \cup {NoOffset}]
    BY <2>1, <2>2 DEF Typed, TypeOK
  <2> QED BY <2>3 DEF OffsetRejects, RemoteFailure, Typed, TypeOK
<1>4. CASE Return(s)
  BY <1>1, <1>3, <1>4, ReturnTyped DEF Typed, TypeOK, OffsetRejects, dbVars
<1>5. CASE Throw(s)
  BY <1>3, <1>5, EndHandlerType, EndHandlerWork
  DEF Typed, TypeOK, OffsetRejects, Throw, dbVars
<1> QED BY <1>4, <1>5 DEF OffsetRejects

LEMMA TypedStopSink ==
    ASSUME Typed, NEW s \in Sinks, StopSink(s)
    PROVE  Typed'
<1>1. resOwner' \in [ResultPartitions -> Sinks \cup {Nobody}]
  BY DEF StopSink, Group!Leave, Typed, TypeOK
<1>2. rowLock' \in [Jobs -> Sinks \cup {Nobody}]
  BY ReleaseLocksType DEF StopSink, Typed
<1>3. TypeOK'
  BY <1>1, <1>2 DEF StopSink, Typed, TypeOK, Locations
<1>4. HandlerHasWork'
  BY DEF StopSink, Typed, TypeOK, HandlerHasWork, Msg
<1> QED BY <1>3, <1>4 DEF Typed

LEMMA TypedRestart ==
    ASSUME Typed, NEW s \in Sinks, Restart(s)
    PROVE  Typed'
<1>1. TypeOK'
  BY DEF Restart, Goto, Typed, TypeOK, dbVars, topicVars, faultVars, Locations
<1>2. HandlerHasWork'
  BY DEF Restart, Goto, Typed, TypeOK, HandlerHasWork, Msg, topicVars
<1> QED BY <1>1, <1>2 DEF Typed

(***************************************************************************)
(* Steps that leave the handlers and the topic alone.                      *)
(***************************************************************************)
LEMMA WorkUnchanged ==
    ASSUME HandlerHasWork, UNCHANGED <<sinkVars, results>>
    PROVE  HandlerHasWork'
BY DEF HandlerHasWork, sinkVars, Msg

LEMMA TypedRebalance ==
    ASSUME Typed, NEW p \in ResultPartitions, Rebalance(p)
    PROVE  Typed'
<1>1. CASE EvictResults(p)
  <2>1. HandlerHasWork'
    BY <1>1, WorkUnchanged DEF EvictResults, Typed
  <2> QED BY <1>1, <2>1
          DEF EvictResults, Group!Evict, Typed, TypeOK, dbVars, sinkVars
<1>2. ASSUME NEW s \in Sinks, AssignResults(p, s)
      PROVE  Typed'
  <2>1. HandlerHasWork'
    BY <1>2, WorkUnchanged DEF AssignResults, Typed
  <2>2. Group!StartOffset(p) \in Nat
    BY DEF Group!StartOffset, Typed, TypeOK
  <2> QED BY <1>2, <2>1, <2>2
          DEF AssignResults, Group!Assign, Typed, TypeOK, dbVars, sinkVars, faultVars
<1> QED BY <1>1, <1>2 DEF Rebalance

LEMMA TypedEnv ==
    ASSUME Typed, EnvNext
    PROVE  Typed'
<1>1. ASSUME NEW j \in Jobs, NEW n \in 1..MaxTotal, CreateJob(j, n)
      PROVE  Typed'
  <2>1. HandlerHasWork'
    BY <1>1, WorkUnchanged DEF CreateJob, Typed, topicVars
  <2>2. [total |-> n, done |-> 0, failed |-> 0, state |-> "queued"] \in JobRow
    BY ConstantsAssumption DEF JobRow
  <2> QED BY <1>1, <2>1, <2>2
          DEF CreateJob, Typed, TypeOK, topicVars, sinkVars, faultVars
<1>2. ASSUME NEW j \in Jobs, DeleteJob(j)
      PROVE  Typed'
  <2>1. HandlerHasWork'
    BY <1>2, WorkUnchanged DEF DeleteJob, Typed, topicVars
  <2> QED BY <1>2, <2>1
          DEF DeleteJob, Typed, TypeOK, topicVars, sinkVars, faultVars
<1>3. ASSUME NEW m \in Event, PublishResult(m)
      PROVE  Typed'
  <2>1. ResultPartition[m.url] \in ResultPartitions
    BY ConstantsAssumption DEF Event
  <2> QED BY <1>3, <2>1, PublishWork
          DEF PublishResult, Typed, TypeOK, dbVars, sinkVars, faultVars
<1>4. ASSUME NEW p \in ResultPartitions, PublishGarbage(p)
      PROVE  Typed'
  BY <1>4, PublishWork DEF PublishGarbage, Typed, TypeOK, dbVars, sinkVars, faultVars
<1> QED BY <1>1, <1>2, <1>3, <1>4 DEF EnvNext
-----------------------------------------------------------------------------
(***************************************************************************)
(* Second half: locks, rows and counters.                                  *)
(***************************************************************************)
InTransaction(s) == spc[s] \in {"insert", "commit"}

(***************************************************************************)
(* A step of the handler of s, seen by the other sinks.                    *)
(***************************************************************************)
OthersUnchanged(s) ==
    /\ results' = results
    /\ \A t \in Sinks \ {s} :
        spc'[t] = spc[t] /\ swork'[t] = swork[t] /\ sinserted'[t] = sinserted[t]

LEMMA EndHandlerOthers ==
    ASSUME TypeOK, NEW s \in Sinks, EndHandler(s), results' = results
    PROVE  OthersUnchanged(s) /\ ~InTransaction(s)'
BY DEF TypeOK, EndHandler, Goto, OthersUnchanged, InTransaction

(***************************************************************************)
(* A step outside every transaction that writes no table.                  *)
(***************************************************************************)
LEMMA QuietStep ==
    ASSUME SinkInvariant, NEW s \in Sinks, OthersUnchanged(s), UNCHANGED dbVars,
           ~InTransaction(s), ~InTransaction(s)'
    PROVE  Consistent'
<1>1. RowsHaveJob' /\ CountersMatchRows' /\ StateMatchesCounters'
  BY DEF SinkInvariant, RowsHaveJob, CountersMatchRows, StateMatchesCounters,
         dbVars, Exists
<1>2. ASSUME NEW t \in Sinks, InTransaction(t) \/ InTransaction(t)'
      PROVE  spc'[t] = spc[t] /\ Msg(t)' = Msg(t) /\ sinserted'[t] = sinserted[t]
  BY <1>2 DEF OthersUnchanged, InTransaction, Msg
<1>3. NoLockLeak'
  <2> SUFFICES ASSUME NEW j \in Jobs, rowLock'[j] # Nobody
               PROVE  /\ spc'[rowLock'[j]] \in {"insert", "commit"}
                      /\ Msg(rowLock[j])'.job = j
    BY DEF NoLockLeak
  <2>1. rowLock' = rowLock /\ rowLock[j] \in Sinks
    BY DEF dbVars, SinkInvariant, TypeOK
  <2>2. InTransaction(rowLock[j]) /\ Msg(rowLock[j]).job = j
    BY <2>1 DEF SinkInvariant, NoLockLeak, InTransaction
  <2>3. spc'[rowLock[j]] = spc[rowLock[j]] /\ swork'[rowLock[j]] = swork[rowLock[j]]
    BY <2>1, <2>2 DEF OthersUnchanged, InTransaction
  <2> QED BY <2>1, <2>2, <2>3 DEF Msg, InTransaction, OthersUnchanged
<1>4. ASSUME NEW t \in Sinks
      PROVE  Isolated(t)'
  <2>1. Isolated(t)
    BY DEF SinkInvariant, TransactionIsolated
  <2>2. CASE InTransaction(t)'
    BY <1>2, <2>1, <2>2 DEF Isolated, dbVars, InTransaction, Exists, Rows
  <2>3. CASE ~InTransaction(t)'
    BY <2>3 DEF Isolated, InTransaction
  <2> QED BY <2>2, <2>3
<1>5. TransactionIsolated'
  BY <1>4 DEF TransactionIsolated
<1> QED BY <1>1, <1>3, <1>5 DEF Consistent

(***************************************************************************)
(* What becomes of the locks and of the other transactions when s leaves   *)
(* its transaction, whatever s wrote to the job it holds.                  *)
(***************************************************************************)
LEMMA LeaveTransaction ==
    ASSUME SinkInvariant, NEW s \in Sinks, OthersUnchanged(s), ReleaseLocks(s),
           ~InTransaction(s)',
           \A j \in Jobs : rowLock[j] # s =>
               jobs'[j] = jobs[j] /\ articles'[j] = articles[j] /\ errors'[j] = errors[j]
    PROVE  NoLockLeak' /\ TransactionIsolated'
<1>1. ASSUME NEW t \in Sinks \ {s}
      PROVE  spc'[t] = spc[t] /\ Msg(t)' = Msg(t) /\ sinserted'[t] = sinserted[t]
  BY DEF OthersUnchanged, Msg
<1>2. \A j \in Jobs : rowLock'[j] = IF rowLock[j] = s THEN Nobody ELSE rowLock[j]
  BY DEF ReleaseLocks
<1>3. NoLockLeak'
  BY <1>1, <1>2, SentinelAssumption DEF SinkInvariant, TypeOK, NoLockLeak
<1>4. ASSUME NEW t \in Sinks, InTransaction(t)'
      PROVE  Isolated(t)'
  <2>1. t # s /\ InTransaction(t) /\ Msg(t)' = Msg(t)
    BY <1>1, <1>4 DEF InTransaction
  <2>2. Msg(t) \in Event
    BY <2>1, MsgType DEF SinkInvariant, Typed, InTransaction
  <2>3. Msg(t).job \in Jobs /\ Isolated(t) /\ rowLock[Msg(t).job] = t
    BY <2>1, <2>2 DEF SinkInvariant, TransactionIsolated, Isolated, InTransaction, Event
  <2>4. /\ rowLock'[Msg(t).job] = t
        /\ jobs'[Msg(t).job] = jobs[Msg(t).job]
        /\ articles'[Msg(t).job] = articles[Msg(t).job]
        /\ errors'[Msg(t).job] = errors[Msg(t).job]
    BY <1>2, <2>1, <2>3
  <2> QED BY <1>1, <2>1, <2>3, <2>4 DEF Isolated, InTransaction, Exists, Rows
<1>5. TransactionIsolated'
  BY <1>4 DEF TransactionIsolated, Isolated, InTransaction
<1> QED BY <1>3, <1>5

(***************************************************************************)
(* A transaction that leaves the tables as they were.                      *)
(***************************************************************************)
LEMMA RollbackStep ==
    ASSUME SinkInvariant, NEW s \in Sinks, OthersUnchanged(s), ReleaseLocks(s),
           ~InTransaction(s)', UNCHANGED <<jobs, articles, errors>>
    PROVE  Consistent'
<1>1. RowsHaveJob' /\ CountersMatchRows' /\ StateMatchesCounters'
  BY DEF SinkInvariant, RowsHaveJob, CountersMatchRows, StateMatchesCounters, Exists
<1> QED BY <1>1, LeaveTransaction DEF Consistent

(***************************************************************************)
(* Adding an url to the rows of a job adds one, unless it was there.       *)
(***************************************************************************)
LEMMA AddRow ==
    ASSUME NEW S \in SUBSET Urls, NEW u \in Urls
    PROVE  /\ Cardinality(S) \in Nat
           /\ u \in S => Cardinality(S \cup {u}) = Cardinality(S)
           /\ u \notin S => Cardinality(S \cup {u}) = Cardinality(S) + 1
<1>1. IsFiniteSet(S)
  BY ConstantsAssumption, FS_Subset
<1> QED BY <1>1, FS_CardinalityType, FS_AddElement

(***************************************************************************)
(* A transaction that commits.                                             *)
(***************************************************************************)
LEMMA ApplyTxStep ==
    ASSUME SinkInvariant, NEW s \in Sinks, spc[s] = "commit", ApplyTx(s),
           OthersUnchanged(s), ~InTransaction(s)'
    PROVE  Consistent'
<1> DEFINE m == Msg(s)
           d == IF m.status = "ok" THEN 1 ELSE 0
           f == IF m.status = "ok" THEN 0 ELSE 1
           row == jobs[m.job]
<1>1. m \in Event
  BY MsgType DEF SinkInvariant, Typed
<1>2. m.job \in Jobs /\ m.url \in Urls /\ m.status \in {"ok", "error"}
  BY <1>1 DEF Event
<1>3. /\ rowLock[m.job] = s
      /\ Exists(m.job)
      /\ sinserted[s] <=> m.url \notin Rows(m.status)[m.job]
  BY DEF SinkInvariant, TransactionIsolated, Isolated
<1>4. row \in JobRow
  BY <1>2, <1>3 DEF SinkInvariant, TypeOK, Exists
<1>5. \A j \in Jobs : j # m.job =>
        jobs'[j] = jobs[j] /\ articles'[j] = articles[j] /\ errors'[j] = errors[j]
  BY <1>2 DEF ApplyTx, SinkInvariant, TypeOK
<1>6. \A j \in Jobs : rowLock[j] # s => j # m.job
  BY <1>3
<1>7. NoLockLeak' /\ TransactionIsolated'
  BY <1>5, <1>6, LeaveTransaction DEF ApplyTx
<1>8. jobs'[m.job] = IF sinserted[s] THEN Counted(row, d, f) ELSE row
  BY <1>2 DEF ApplyTx, SinkInvariant, TypeOK
<1>9. /\ articles'[m.job] = IF m.status = "ok" THEN articles[m.job] \cup {m.url}
                            ELSE articles[m.job]
      /\ errors'[m.job] = IF m.status = "ok" THEN errors[m.job]
                          ELSE errors[m.job] \cup {m.url}
  BY <1>2 DEF ApplyTx, SinkInvariant, TypeOK
<1>10. /\ row.done = Cardinality(articles[m.job])
       /\ row.failed = Cardinality(errors[m.job])
       /\ row.done \in Nat /\ row.failed \in Nat /\ row.total \in Nat \ {0}
       /\ row.state = IF row.done + row.failed >= row.total THEN "done"
                      ELSE IF row.done + row.failed > 0 THEN "running" ELSE "queued"
  BY <1>2, <1>3, <1>4
  DEF SinkInvariant, CountersMatchRows, StateMatchesCounters, JobRow
<1>11. articles[m.job] \in SUBSET Urls /\ errors[m.job] \in SUBSET Urls
  BY <1>2 DEF SinkInvariant, TypeOK
<1>12. /\ Counted(row, d, f).done = row.done + d
       /\ Counted(row, d, f).failed = row.failed + f
       /\ Counted(row, d, f).total = row.total
       /\ Counted(row, d, f).state =
             IF row.done + d + row.failed + f >= row.total THEN "done"
             ELSE IF row.state = "queued" /\ d + f > 0 THEN "running" ELSE row.state
  BY <1>4 DEF Counted, JobRow
<1>13. /\ jobs'[m.job].done = Cardinality(articles'[m.job])
       /\ jobs'[m.job].failed = Cardinality(errors'[m.job])
  <2>1. CASE m.status = "ok"
    <3>1. sinserted[s] <=> m.url \notin articles[m.job]
      BY <1>3, <2>1 DEF Rows
    <3>2. d = 1 /\ f = 0
      BY <2>1
    <3> QED BY <1>2, <1>8, <1>9, <1>10, <1>11, <1>12, <2>1, <3>1, <3>2, AddRow
  <2>2. CASE m.status = "error"
    <3>1. sinserted[s] <=> m.url \notin errors[m.job]
      BY <1>3, <2>2 DEF Rows
    <3>2. d = 0 /\ f = 1
      BY <2>2
    <3> QED BY <1>2, <1>8, <1>9, <1>10, <1>11, <1>12, <2>2, <3>1, <3>2, AddRow
  <2> QED BY <1>2, <2>1, <2>2
<1>14. jobs'[m.job].state =
          LET answered == jobs'[m.job].done + jobs'[m.job].failed IN
          IF answered >= jobs'[m.job].total THEN "done"
          ELSE IF answered > 0 THEN "running" ELSE "queued"
  <2>1. CASE ~sinserted[s]
    BY <1>8, <1>10, <2>1
  <2>2. CASE sinserted[s]
    <3>1. /\ jobs'[m.job].done = row.done + d
          /\ jobs'[m.job].failed = row.failed + f
          /\ jobs'[m.job].total = row.total
          /\ jobs'[m.job].state =
                IF row.done + d + row.failed + f >= row.total THEN "done"
                ELSE IF row.state = "queued" /\ d + f > 0 THEN "running" ELSE row.state
      BY <1>8, <1>12, <2>2
    <3>2. d \in Nat /\ f \in Nat /\ d + f = 1
      OBVIOUS
    <3> HIDE DEF d, f, m, row
    <3> QED BY <1>10, <3>1, <3>2
  <2> QED BY <2>1, <2>2
<1>15. \A j \in Jobs : Exists(j)' => Exists(j)
  BY <1>3, <1>5 DEF Exists
<1>16. CountersMatchRows' /\ StateMatchesCounters'
  <2> SUFFICES ASSUME NEW j \in Jobs, Exists(j)'
               PROVE  /\ jobs'[j].done = Cardinality(articles'[j])
                      /\ jobs'[j].failed = Cardinality(errors'[j])
                      /\ jobs'[j].state =
                            LET answered == jobs'[j].done + jobs'[j].failed IN
                            IF answered >= jobs'[j].total THEN "done"
                            ELSE IF answered > 0 THEN "running" ELSE "queued"
    BY DEF CountersMatchRows, StateMatchesCounters
  <2>1. CASE j = m.job
    BY <1>13, <1>14, <2>1
  <2>2. CASE j # m.job
    BY <1>5, <1>15, <2>2 DEF SinkInvariant, CountersMatchRows, StateMatchesCounters
  <2> QED BY <2>1, <2>2
<1>17. jobs'[m.job] \notin {NotCreated, Deleted}
  <2>0. d \in Nat /\ f \in Nat
    OBVIOUS
  <2> HIDE DEF d, f, m, row
  <2>1. Counted(row, d, f) \in JobRow
    BY <1>4, <2>0, CountedType
  <2>2. jobs'[m.job] \in JobRow
    BY <1>4, <1>8, <2>1
  <2> QED BY <2>2, SentinelAssumption
<1>18. RowsHaveJob'
  <2> SUFFICES ASSUME NEW j \in Jobs, ~Exists(j)'
               PROVE  articles'[j] = {} /\ errors'[j] = {}
    BY DEF RowsHaveJob
  <2>1. j # m.job
    BY <1>17 DEF Exists
  <2> QED BY <1>5, <2>1 DEF SinkInvariant, RowsHaveJob, Exists
<1> QED BY <1>7, <1>16, <1>18 DEF Consistent
-----------------------------------------------------------------------------
(***************************************************************************)
(* Every step of a handler, of the coordinator and of the environment.     *)
(***************************************************************************)
LEMMA ReturnOthers ==
    ASSUME SinkInvariant, NEW s \in Sinks, Return(s) \/ Throw(s), results' = results
    PROVE  OthersUnchanged(s) /\ ~InTransaction(s)'
BY EndHandlerOthers DEF SinkInvariant, Return, Throw

LEMMA GotoOthers ==
    ASSUME SinkInvariant, NEW s \in Sinks, NEW loc, Goto(s, loc), results' = results,
           UNCHANGED swork, \A t \in Sinks \ {s} : sinserted'[t] = sinserted[t]
    PROVE  OthersUnchanged(s) /\ spc'[s] = loc
BY DEF SinkInvariant, TypeOK, Goto, OthersUnchanged

LEMMA HandleConsistent ==
    ASSUME SinkInvariant, NEW s \in Sinks, Handle(s)
    PROVE  Consistent'
<1>1. ASSUME NEW p \in ResultPartitions, Deliver(s, p)
      PROVE  Consistent'
  <2>1. OthersUnchanged(s) /\ ~InTransaction(s) /\ ~InTransaction(s)'
    BY <1>1 DEF Deliver, Goto, OthersUnchanged, InTransaction, SinkInvariant, TypeOK,
                topicVars
  <2> QED BY <1>1, <2>1, QuietStep DEF Deliver
<1>2. CASE Connect(s)
  <2>1. ~InTransaction(s) /\ results' = results /\ UNCHANGED dbVars
    BY <1>2 DEF Connect, InTransaction
  <2>2. CASE Goto(s, "select") /\ UNCHANGED <<resPosition, swork, sinserted, failures>>
    <3>1. OthersUnchanged(s) /\ spc'[s] = "select"
      BY <2>1, <2>2, GotoOthers
    <3> QED BY <2>1, <3>1, QuietStep DEF InTransaction
  <2>3. CASE Throw(s)
    BY <2>1, <2>3, ReturnOthers, QuietStep
  <2> QED BY <1>2, <2>2, <2>3 DEF Connect
<1>3. CASE SelectJob(s)
  <2>1. /\ results' = results
        /\ UNCHANGED <<jobs, articles, errors, swork, sinserted>>
        /\ ~InTransaction(s)
    BY <1>3 DEF SelectJob, topicVars, InTransaction
  <2>2. Msg(s) \in Event /\ Msg(s)' = Msg(s)
    BY <1>3, <2>1, MsgType DEF SelectJob, SinkInvariant, Typed, Msg
  <2>3. CASE /\ Exists(Msg(s).job)
             /\ rowLock[Msg(s).job] = Nobody
             /\ rowLock' = [rowLock EXCEPT ![Msg(s).job] = s]
             /\ Goto(s, "insert")
    <3>1. OthersUnchanged(s) /\ spc'[s] = "insert"
      BY <2>1, <2>3, GotoOthers
    <3>2. Msg(s).job \in Jobs
      BY <2>2 DEF Event
    <3>3. ASSUME NEW t \in Sinks
          PROVE  Isolated(t)'
      <4>1. CASE t = s
        <5>1. rowLock'[Msg(s).job] = s
          BY <2>3, <3>2 DEF SinkInvariant, TypeOK
        <5>2. jobs'[Msg(s).job] \notin {NotCreated, Deleted}
          BY <2>1, <2>3 DEF Exists
        <5> QED BY <2>2, <3>1, <4>1, <5>1, <5>2 DEF Isolated, Exists
      <4>2. CASE t # s
        <5>1. Isolated(t)
          BY DEF SinkInvariant, TransactionIsolated
        <5>2. spc'[t] = spc[t] /\ Msg(t)' = Msg(t) /\ sinserted' = sinserted
          BY <2>1, <3>1, <4>2 DEF OthersUnchanged, Msg
        <5>3. InTransaction(t) => Msg(t).job # Msg(s).job
          BY <2>3, <5>1, SentinelAssumption DEF Isolated, InTransaction
        <5>4. InTransaction(t) => rowLock'[Msg(t).job] = rowLock[Msg(t).job]
          BY <2>3, <5>3 DEF SinkInvariant, TypeOK
        <5> QED BY <2>1, <5>1, <5>2, <5>4 DEF Isolated, InTransaction, Exists, Rows
      <4> QED BY <4>1, <4>2
    <3>4. NoLockLeak'
      <4> SUFFICES ASSUME NEW j \in Jobs, rowLock'[j] # Nobody
                   PROVE  /\ spc'[rowLock'[j]] \in {"insert", "commit"}
                          /\ Msg(rowLock[j])'.job = j
        BY DEF NoLockLeak
      <4>1. CASE j = Msg(s).job
        <5>1. rowLock'[j] = s
          BY <2>3, <3>2, <4>1 DEF SinkInvariant, TypeOK
        <5>2. Msg(s)'.job = j
          BY <2>2, <4>1
        <5> QED BY <3>1, <5>1, <5>2 DEF Msg
      <4>2. CASE j # Msg(s).job
        <5>1. rowLock'[j] = rowLock[j] /\ rowLock[j] \in Sinks
          BY <2>3, <3>2, <4>2 DEF SinkInvariant, TypeOK
        <5>2. InTransaction(rowLock[j]) /\ Msg(rowLock[j]).job = j
          BY <5>1 DEF SinkInvariant, NoLockLeak, InTransaction
        <5>3. spc'[rowLock[j]] = spc[rowLock[j]]
          BY <2>1, <3>1, <5>1, <5>2 DEF OthersUnchanged, InTransaction
        <5> QED BY <2>1, <5>1, <5>2, <5>3 DEF Msg, InTransaction
      <4> QED BY <4>1, <4>2
    <3>5. RowsHaveJob' /\ CountersMatchRows' /\ StateMatchesCounters'
      BY <2>1 DEF SinkInvariant, RowsHaveJob, CountersMatchRows, StateMatchesCounters,
                  Exists
    <3> QED BY <3>3, <3>4, <3>5 DEF Consistent, TransactionIsolated
  <2>4. CASE Goto(s, "missing") /\ UNCHANGED rowLock
    <3>1. OthersUnchanged(s) /\ spc'[s] = "missing"
      BY <2>1, <2>4, GotoOthers
    <3> QED BY <2>1, <2>4, <3>1, QuietStep DEF InTransaction, dbVars
  <2> QED BY <1>3, <2>3, <2>4 DEF SelectJob
<1>4. CASE InsertRow(s)
  <2>1. /\ results' = results
        /\ UNCHANGED <<dbVars, swork>>
        /\ Goto(s, "commit")
        /\ spc[s] = "insert"
        /\ sinserted' = [sinserted EXCEPT
                           ![s] = Msg(s).url \notin Rows(Msg(s).status)[Msg(s).job]]
    BY <1>4 DEF InsertRow, topicVars
  <2>2. OthersUnchanged(s) /\ spc'[s] = "commit"
    BY <2>1, GotoOthers DEF SinkInvariant, TypeOK
  <2>3. ASSUME NEW t \in Sinks
        PROVE  Isolated(t)'
    <3>1. Isolated(t) /\ Msg(t)' = Msg(t)
      BY <2>1 DEF SinkInvariant, TransactionIsolated, Msg
    <3>2. CASE t = s
      <4>1. sinserted'[s] = (Msg(s).url \notin Rows(Msg(s).status)[Msg(s).job])
        BY <2>1 DEF SinkInvariant, TypeOK
      <4>2. rowLock[Msg(s).job] = s /\ Exists(Msg(s).job)
        BY <2>1, <3>1, <3>2 DEF Isolated
      <4> QED BY <2>1, <3>1, <3>2, <4>1, <4>2 DEF Isolated, dbVars, Exists, Rows
    <3>3. CASE t # s
      BY <2>1, <2>2, <3>1, <3>3 DEF Isolated, OthersUnchanged, dbVars, Exists, Rows
    <3> QED BY <3>2, <3>3
  <2>4. NoLockLeak'
    <3> SUFFICES ASSUME NEW j \in Jobs, rowLock'[j] # Nobody
                 PROVE  /\ spc'[rowLock'[j]] \in {"insert", "commit"}
                        /\ Msg(rowLock[j])'.job = j
      BY DEF NoLockLeak
    <3>1. rowLock' = rowLock /\ rowLock[j] \in Sinks
      BY <2>1 DEF dbVars, SinkInvariant, TypeOK
    <3>2. InTransaction(rowLock[j]) /\ Msg(rowLock[j]).job = j
      BY <3>1 DEF SinkInvariant, NoLockLeak, InTransaction
    <3>3. spc'[rowLock[j]] \in {"insert", "commit"}
      BY <2>2, <3>1, <3>2 DEF OthersUnchanged, InTransaction
    <3> QED BY <2>1, <3>1, <3>2, <3>3 DEF Msg
  <2>5. RowsHaveJob' /\ CountersMatchRows' /\ StateMatchesCounters'
    BY <2>1 DEF SinkInvariant, RowsHaveJob, CountersMatchRows, StateMatchesCounters,
                dbVars, Exists
  <2> QED BY <2>3, <2>4, <2>5 DEF Consistent, TransactionIsolated
<1>5. CASE CommitTx(s)
  <2>1. OthersUnchanged(s) /\ spc'[s] = "offset"
    BY <1>5, GotoOthers DEF CommitTx, topicVars
  <2> QED BY <1>5, <2>1, ApplyTxStep DEF CommitTx, InTransaction
<1>6. CASE CommitAckLost(s)
  BY <1>6, ReturnOthers, ApplyTxStep DEF CommitAckLost
<1>7. CASE QueryRejects(s)
  BY <1>7, ReturnOthers, RollbackStep DEF QueryRejects
<1>8. CASE CommitOffset(s)
  <2>1. ~InTransaction(s)
    BY <1>8 DEF CommitOffset, CommitsOffset, InTransaction
  <2> QED BY <1>8, <2>1, ReturnOthers, QuietStep DEF CommitOffset
<1>9. CASE OffsetRejects(s)
  <2>1. ~InTransaction(s)
    BY <1>9 DEF OffsetRejects, CommitsOffset, InTransaction
  <2>2. (Return(s) \/ Throw(s)) /\ results' = results /\ UNCHANGED dbVars
    BY <1>9 DEF OffsetRejects
  <2> QED BY <2>1, <2>2, ReturnOthers, QuietStep
<1> QED BY <1>1, <1>2, <1>3, <1>4, <1>5, <1>6, <1>7, <1>8, <1>9 DEF Handle

LEMMA StopConsistent ==
    ASSUME SinkInvariant, NEW s \in Sinks, StopSink(s)
    PROVE  Consistent'
<1>1. OthersUnchanged(s) /\ ~InTransaction(s)'
  BY DEF StopSink, OthersUnchanged, InTransaction, SinkInvariant, TypeOK
<1> QED BY <1>1, RollbackStep DEF StopSink

LEMMA RestartConsistent ==
    ASSUME SinkInvariant, NEW s \in Sinks, Restart(s)
    PROVE  Consistent'
<1>1. OthersUnchanged(s) /\ spc'[s] = "idle"
  BY GotoOthers DEF Restart, topicVars
<1> QED BY <1>1, QuietStep DEF Restart, InTransaction

(***************************************************************************)
(* Steps that leave the handlers, their messages and the locks alone.      *)
(***************************************************************************)
LEMMA HandlersUnchanged ==
    ASSUME SinkInvariant, UNCHANGED <<rowLock, sinkVars>>,
           \A s \in Sinks : spc[s] \notin {"idle", "down"} => Msg(s)' = Msg(s),
           \A j \in Jobs : rowLock[j] # Nobody =>
               jobs'[j] = jobs[j] /\ articles'[j] = articles[j] /\ errors'[j] = errors[j]
    PROVE  NoLockLeak' /\ TransactionIsolated'
<1>1. NoLockLeak'
  <2> SUFFICES ASSUME NEW j \in Jobs, rowLock'[j] # Nobody
               PROVE  /\ spc'[rowLock'[j]] \in {"insert", "commit"}
                      /\ Msg(rowLock[j])'.job = j
    BY DEF NoLockLeak
  <2>1. rowLock' = rowLock /\ spc' = spc /\ rowLock[j] \in Sinks
    BY DEF sinkVars, SinkInvariant, TypeOK
  <2>2. spc[rowLock[j]] \in {"insert", "commit"} /\ Msg(rowLock[j]).job = j
    BY <2>1 DEF SinkInvariant, NoLockLeak
  <2>3. results'[swork'[rowLock[j]].part][swork'[rowLock[j]].off + 1] = Msg(rowLock[j])
    BY <2>1, <2>2 DEF Msg
  <2> QED BY <2>1, <2>2, <2>3 DEF Msg
<1>2. ASSUME NEW t \in Sinks
      PROVE  Isolated(t)'
  <2>1. Isolated(t) /\ spc' = spc /\ sinserted' = sinserted /\ rowLock' = rowLock
    BY DEF SinkInvariant, TransactionIsolated, sinkVars
  <2>2. CASE InTransaction(t)
    <3>1. Msg(t)' = Msg(t)
      BY <2>2 DEF InTransaction
    <3>2. Msg(t) \in Event
      BY <2>2, MsgType DEF SinkInvariant, Typed, InTransaction
    <3>3. Msg(t).job \in Jobs /\ rowLock[Msg(t).job] # Nobody
      BY <2>1, <2>2, <3>2, SentinelAssumption DEF Isolated, InTransaction, Event
    <3> QED BY <2>1, <3>1, <3>3 DEF Isolated, Exists, Rows
  <2>3. CASE ~InTransaction(t)
    BY <2>1, <2>3 DEF Isolated, InTransaction
  <2> QED BY <2>2, <2>3
<1> QED BY <1>1, <1>2 DEF TransactionIsolated

LEMMA RebalanceConsistent ==
    ASSUME SinkInvariant, NEW p \in ResultPartitions, Rebalance(p)
    PROVE  Consistent'
<1>1. UNCHANGED <<dbVars, sinkVars, results>>
  BY DEF Rebalance, EvictResults, AssignResults
<1>2. NoLockLeak' /\ TransactionIsolated'
  BY <1>1, HandlersUnchanged DEF dbVars, sinkVars, Msg
<1>3. RowsHaveJob' /\ CountersMatchRows' /\ StateMatchesCounters'
  BY <1>1 DEF SinkInvariant, RowsHaveJob, CountersMatchRows, StateMatchesCounters,
              dbVars, Exists
<1> QED BY <1>2, <1>3 DEF Consistent

(***************************************************************************)
(* Only the job of a transaction in progress is locked, and it exists.     *)
(***************************************************************************)
LEMMA LockedJobExists ==
    ASSUME SinkInvariant, NEW j \in Jobs, rowLock[j] # Nobody
    PROVE  Exists(j)
<1>1. rowLock[j] \in Sinks
  BY DEF SinkInvariant, TypeOK
<1>2. spc[rowLock[j]] \in {"insert", "commit"} /\ Msg(rowLock[j]).job = j
  BY DEF SinkInvariant, NoLockLeak
<1>3. Isolated(rowLock[j])
  BY <1>1 DEF SinkInvariant, TransactionIsolated
<1> QED BY <1>2, <1>3 DEF Isolated

LEMMA RowConsistent ==
    ASSUME SinkInvariant, NEW j \in Jobs, NEW n \in Nat \ {0}, jobs[j] = NotCreated,
           jobs' = [jobs EXCEPT ![j] = [total |-> n, done |-> 0, failed |-> 0,
                                        state |-> "queued"]],
           UNCHANGED <<articles, errors, rowLock, sinkVars, results>>
    PROVE  Consistent'
<1> DEFINE row == [total |-> n, done |-> 0, failed |-> 0, state |-> "queued"]
<1>1. /\ UNCHANGED <<articles, errors, rowLock, sinkVars, results>>
      /\ jobs' = [jobs EXCEPT ![j] = row]
      /\ jobs[j] = NotCreated
  OBVIOUS
<1>2. n \in Nat \ {0} /\ row \in JobRow
  BY DEF JobRow
<1>3. \A k \in Jobs : rowLock[k] # Nobody => jobs'[k] = jobs[k]
  <2>1. rowLock[j] = Nobody
    BY <1>1, LockedJobExists DEF Exists
  <2> HIDE DEF row
  <2> QED BY <1>1, <2>1 DEF SinkInvariant, TypeOK
<1>4. NoLockLeak' /\ TransactionIsolated'
  BY <1>1, <1>3, HandlersUnchanged DEF sinkVars, Msg
<1>5. articles[j] = {} /\ errors[j] = {} /\ Cardinality({}) = 0
  BY <1>1, FS_EmptySet DEF SinkInvariant, RowsHaveJob, Exists
<1>6. \A k \in Jobs : jobs'[k] = IF k = j THEN row ELSE jobs[k]
  BY <1>1 DEF SinkInvariant, TypeOK
<1>7. CountersMatchRows'
  <2>1. /\ row.done = 0 /\ row.failed = 0
        /\ articles'[j] = {} /\ errors'[j] = {} /\ Cardinality({}) = 0
    BY <1>1, <1>5
  <2> HIDE DEF row
  <2>2. CountersMatchRows /\ articles' = articles /\ errors' = errors
    BY <1>1 DEF SinkInvariant
  <2> QED BY <1>6, <2>1, <2>2 DEF CountersMatchRows, Exists
<1>8. StateMatchesCounters'
  <2>1. /\ row.done = 0 /\ row.failed = 0 /\ row.state = "queued"
        /\ ~(0 + 0 >= row.total) /\ ~(0 + 0 > 0)
    BY <1>2
  <2> HIDE DEF row
  <2> QED BY <1>6, <2>1 DEF SinkInvariant, StateMatchesCounters, Exists
<1>9. RowsHaveJob'
  BY <1>1, <1>5, <1>6 DEF SinkInvariant, RowsHaveJob, Exists
<1> QED BY <1>4, <1>7, <1>8, <1>9 DEF Consistent

LEMMA EnvConsistent ==
    ASSUME SinkInvariant, EnvNext
    PROVE  Consistent'
<1>1. ASSUME NEW j \in Jobs, NEW n \in 1..MaxTotal, CreateJob(j, n)
      PROVE  Consistent'
  <2>1. n \in Nat \ {0}
    BY ConstantsAssumption
  <2> QED BY <1>1, <2>1, RowConsistent DEF CreateJob, topicVars
<1>2. ASSUME NEW j \in Jobs, DeleteJob(j)
      PROVE  Consistent'
  <2>1. /\ UNCHANGED <<rowLock, sinkVars, results>>
        /\ rowLock[j] = Nobody
        /\ \A k \in Jobs : /\ jobs'[k] = IF k = j THEN Deleted ELSE jobs[k]
                           /\ articles'[k] = IF k = j THEN {} ELSE articles[k]
                           /\ errors'[k] = IF k = j THEN {} ELSE errors[k]
    BY <1>2 DEF DeleteJob, topicVars, SinkInvariant, TypeOK
  <2>2. NoLockLeak' /\ TransactionIsolated'
    BY <2>1, HandlersUnchanged DEF sinkVars, Msg
  <2>3. RowsHaveJob' /\ CountersMatchRows' /\ StateMatchesCounters'
    BY <2>1 DEF SinkInvariant, RowsHaveJob, CountersMatchRows, StateMatchesCounters,
                Exists
  <2> QED BY <2>2, <2>3 DEF Consistent
<1>3. ASSUME NEW p \in ResultPartitions, NEW m \in Event \cup {Garbage},
             Group!Publish(p, m), UNCHANGED <<dbVars, sinkVars>>
      PROVE  Consistent'
  <2>1. \A s \in Sinks : spc[s] \notin {"idle", "down"} => Msg(s)' = Msg(s)
    BY <1>3, PublishWork DEF SinkInvariant, Typed
  <2>2. NoLockLeak' /\ TransactionIsolated'
    BY <1>3, <2>1, HandlersUnchanged DEF dbVars
  <2>3. RowsHaveJob' /\ CountersMatchRows' /\ StateMatchesCounters'
    BY <1>3 DEF SinkInvariant, RowsHaveJob, CountersMatchRows, StateMatchesCounters,
                dbVars, Exists
  <2> QED BY <2>2, <2>3 DEF Consistent
<1>4. ASSUME NEW m \in Event, PublishResult(m)
      PROVE  Consistent'
  <2>1. ResultPartition[m.url] \in ResultPartitions
    BY ConstantsAssumption DEF Event
  <2> QED BY <1>3, <1>4, <2>1 DEF PublishResult
<1>5. ASSUME NEW p \in ResultPartitions, PublishGarbage(p)
      PROVE  Consistent'
  BY <1>3, <1>5 DEF PublishGarbage
<1> QED BY <1>1, <1>2, <1>4, <1>5 DEF EnvNext
-----------------------------------------------------------------------------
LEMMA InvariantInit == Init => SinkInvariant
<1> SUFFICES ASSUME Init PROVE SinkInvariant
  OBVIOUS
<1>1. TypeOK /\ HandlerHasWork
  BY TypedInit DEF Typed
<1>2. \A j \in Jobs : ~Exists(j) /\ rowLock[j] = Nobody
                    /\ articles[j] = {} /\ errors[j] = {}
  BY DEF Init, Exists
<1>3. NoLockLeak /\ RowsHaveJob /\ CountersMatchRows /\ StateMatchesCounters
  BY <1>2 DEF NoLockLeak, RowsHaveJob, CountersMatchRows, StateMatchesCounters
<1>4. TransactionIsolated
  BY DEF Init, TransactionIsolated, Isolated
<1> QED BY <1>1, <1>3, <1>4 DEF SinkInvariant

LEMMA TypedNext ==
    ASSUME SinkInvariant, Next
    PROVE  Typed'
<1>1. Typed /\ TransactionIsolated
  BY DEF SinkInvariant, Typed
<1>2. ASSUME NEW s \in Sinks, Handle(s)
      PROVE  Typed'
  BY <1>1, <1>2, TypedDeliver, TypedConnect, TypedSelectJob, TypedInsertRow,
     TypedCommitTx, TypedCommitAckLost, TypedQueryRejects, TypedCommitOffset,
     TypedOffsetRejects
  DEF Handle
<1>3. ASSUME NEW s \in Sinks, Shutdown(s) \/ Kill(s) \/ Restart(s)
      PROVE  Typed'
  BY <1>1, <1>3, TypedStopSink, TypedRestart DEF Shutdown, Kill
<1> QED BY <1>1, <1>2, <1>3, TypedRebalance, TypedEnv DEF Next, SinkNext

LEMMA ConsistentNext ==
    ASSUME SinkInvariant, Next
    PROVE  Consistent'
<1>1. ASSUME NEW s \in Sinks, Shutdown(s) \/ Kill(s) \/ Restart(s)
      PROVE  Consistent'
  BY <1>1, StopConsistent, RestartConsistent DEF Shutdown, Kill
<1> QED BY <1>1, HandleConsistent, RebalanceConsistent, EnvConsistent DEF Next, SinkNext

LEMMA InvariantStutter ==
    ASSUME SinkInvariant, UNCHANGED vars
    PROVE  SinkInvariant'
<1>1. UNCHANGED <<dbVars, sinkVars, results>>
  BY DEF vars, topicVars
<1>2. TypeOK' /\ HandlerHasWork'
  BY WorkUnchanged DEF SinkInvariant, TypeOK, vars, dbVars, topicVars, sinkVars, faultVars
<1>3. NoLockLeak' /\ TransactionIsolated'
  BY <1>1, HandlersUnchanged DEF dbVars, sinkVars, Msg
<1>4. RowsHaveJob' /\ CountersMatchRows' /\ StateMatchesCounters'
  BY <1>1 DEF SinkInvariant, RowsHaveJob, CountersMatchRows, StateMatchesCounters,
              dbVars, Exists
<1> QED BY <1>2, <1>3, <1>4 DEF SinkInvariant

(***************************************************************************)
(* SinkInvariant holds in every reachable state: types, locks, isolation   *)
(* of the transactions, counters and state, together.                      *)
(***************************************************************************)
THEOREM SinkInvariantHolds == Spec => []SinkInvariant
<1>1. SinkInvariant /\ [Next]_vars => SinkInvariant'
  BY TypedNext, ConsistentNext, InvariantStutter DEF SinkInvariant, Typed, Consistent
<1> QED BY InvariantInit, <1>1, PTL DEF Spec

(***************************************************************************)
(* The variables keep their types.                                         *)
(***************************************************************************)
THEOREM TypeCorrect == Spec => []TypeOK
<1>1. SinkInvariant => TypeOK
  BY DEF SinkInvariant
<1> QED BY <1>1, SinkInvariantHolds, PTL

(***************************************************************************)
(* done and failed are always the numbers of articles and errors of the    *)
(* job, whatever is redelivered, killed, refused or published twice.       *)
(***************************************************************************)
THEOREM CountersCorrect == Spec => []CountersMatchRows
<1>1. SinkInvariant => CountersMatchRows
  BY DEF SinkInvariant
<1> QED BY <1>1, SinkInvariantHolds, PTL

(***************************************************************************)
(* state is always the one the counters call for.                          *)
(***************************************************************************)
THEOREM StateCorrect == Spec => []StateMatchesCounters
<1>1. SinkInvariant => StateMatchesCounters
  BY DEF SinkInvariant
<1> QED BY <1>1, SinkInvariantHolds, PTL

(***************************************************************************)
(* No row lock outlives its transaction.                                   *)
(***************************************************************************)
THEOREM LocksReleased == Spec => []NoLockLeak
<1>1. SinkInvariant => NoLockLeak
  BY DEF SinkInvariant
<1> QED BY <1>1, SinkInvariantHolds, PTL
-----------------------------------------------------------------------------
(***************************************************************************)
(* Why a lost result takes a rejected call of its own, for every number of *)
(* sinks, partitions, messages, kills and evictions.                       *)
(*                                                                         *)
(* The argument: a handler whose process still owns the partition works on *)
(* the message at the partition's position (PositionsSound), so what it    *)
(* ends with, a position or an offset, passes one message more than was    *)
(* passed already.  A handler that is about to commit an offset has        *)
(* recorded that message (Settled); and what is recorded stays so, because *)
(* the jobs the topic speaks of have been created (JobsKnown) and come     *)
(* back never.  So only a handler that resolves after a rejected call      *)
(* passes a message that is not recorded, and the number of those passed   *)
(* is at most that of the rejected calls (PassedPaid).                     *)
(***************************************************************************)

Busy(s) == spc[s] \notin {"idle", "down"}

AtPosition ==
    \A s \in Sinks : Busy(s) /\ resOwner[swork[s].part] = s =>
        swork[s].off = resPosition[swork[s].part]

OffsetsInLog ==
    \A p \in ResultPartitions :
        /\ resPosition[p] <= Len(results[p])
        /\ resCommitted[p] # NoOffset => resCommitted[p] <= Len(results[p])

PositionsSound == AtPosition /\ OffsetsInLog

JobsKnown ==
    \A p \in ResultPartitions : \A i \in 1..Len(results[p]) :
        results[p][i] # Garbage => jobs[results[p][i].job] # NotCreated

Settled == \A s \in Sinks : spc[s] \in CommitsOffset => Recorded(Msg(s))

(***************************************************************************)
(* Messages behind a committed offset or a position that have no row.      *)
(***************************************************************************)
Passed ==
    {x \in ResultPartitions \X Nat :
        /\ x[2] < resCommitted[x[1]] \/ x[2] < resPosition[x[1]]
        /\ ~Recorded(results[x[1]][x[2] + 1])}

PassedPaid ==
    ~FreshGroup =>
        /\ \A p \in ResultPartitions : resCommitted[p] # NoOffset
        /\ IsFiniteSet(Passed) /\ Cardinality(Passed) <= failures

DeliveryInvariant == PositionsSound /\ JobsKnown /\ Settled /\ PassedPaid
-----------------------------------------------------------------------------
(***************************************************************************)
(* What a step does to the topic and its group.                            *)
(***************************************************************************)
BusyAsBefore == \A s \in Sinks : Busy(s)' => Busy(s) /\ swork'[s] = swork[s]

GroupQuiet == UNCHANGED topicVars /\ BusyAsBefore

TakesMessage(s, p) ==
    /\ UNCHANGED topicVars
    /\ resPosition[p] < Len(results[p])
    /\ swork'[s] = [part |-> p, off |-> resPosition[p]]
    /\ \A t \in Sinks \ {s} : Busy(t)' => Busy(t) /\ swork'[t] = swork[t]

MovesOn(s) ==
    /\ UNCHANGED <<results, resOwner>>
    /\ Busy(s) /\ ~Busy(s)' /\ BusyAsBefore
    /\ UNCHANGED resPosition \/ Group!Resolve(swork[s].part, s, swork[s].off)

GivesUp(s) ==
    /\ MovesOn(s)
    /\ UNCHANGED resCommitted
    /\ resOwner[swork[s].part] = s /\ resPosition' # resPosition => failures' = failures + 1

Commits(s) ==
    /\ MovesOn(s)
    /\ spc[s] \in CommitsOffset
    /\ Group!CommitAccepted(swork[s].part, s, swork[s].off)

LetsGo ==
    /\ UNCHANGED <<results, resCommitted, resPosition>> /\ BusyAsBefore
    /\ \A p \in ResultPartitions : resOwner'[p] # Nobody => resOwner'[p] = resOwner[p]

Takes(p, s) ==
    /\ UNCHANGED <<results, resCommitted, sinkVars>>
    /\ spc[s] = "idle"
    /\ Group!Assign(p, s)

Grows ==
    /\ UNCHANGED <<resCommitted, resPosition, resOwner, sinkVars>>
    /\ \E p \in ResultPartitions, m \in Event \cup {Garbage} : Group!Publish(p, m)

(***************************************************************************)
(* Every step is of one of these kinds.                                    *)
(***************************************************************************)
LEMMA GotoBusy ==
    ASSUME Typed, NEW s \in Sinks, NEW loc, Goto(s, loc), UNCHANGED swork,
           Busy(s) \/ loc = "idle"
    PROVE  BusyAsBefore
BY DEF Typed, TypeOK, Goto, BusyAsBefore, Busy

LEMMA EndBusy ==
    ASSUME Typed, NEW s \in Sinks, EndHandler(s)
    PROVE  BusyAsBefore /\ ~Busy(s)'
BY DEF Typed, TypeOK, EndHandler, Goto, BusyAsBefore, Busy

LEMMA HandleGroupStep ==
    ASSUME SinkInvariant, NEW s \in Sinks, Handle(s)
    PROVE  \/ GroupQuiet
           \/ \E p \in ResultPartitions : TakesMessage(s, p)
           \/ GivesUp(s)
           \/ Commits(s)
<1> USE DEF SinkInvariant
<1>0. Typed
  BY DEF Typed
<1>1. ASSUME NEW p \in ResultPartitions, Deliver(s, p)
      PROVE  TakesMessage(s, p)
  BY <1>1 DEF Deliver, Goto, TakesMessage, Busy, TypeOK, Group!Ready
<1>2. CASE Connect(s)
  <2>1. CASE Goto(s, "select") /\ UNCHANGED <<resPosition, swork, sinserted, failures>>
    BY <1>0, <1>2, <2>1, GotoBusy DEF Connect, Busy, GroupQuiet, topicVars
  <2>2. CASE Throw(s)
    BY <1>0, <1>2, <2>2, EndBusy DEF Connect, Throw, GroupQuiet, topicVars
  <2> QED BY <1>2, <2>1, <2>2 DEF Connect
<1>3. CASE SelectJob(s)
  BY <1>0, <1>3, GotoBusy DEF SelectJob, Busy, GroupQuiet
<1>4. CASE InsertRow(s)
  BY <1>0, <1>4, GotoBusy DEF InsertRow, Busy, GroupQuiet
<1>5. CASE CommitTx(s)
  BY <1>0, <1>5, GotoBusy DEF CommitTx, Busy, GroupQuiet
<1>6. CASE CommitAckLost(s)
  BY <1>0, <1>6, EndBusy DEF CommitAckLost, Return, RemoteFailure, GivesUp, MovesOn, Busy, TypeOK
<1>7. CASE QueryRejects(s)
  BY <1>0, <1>7, EndBusy DEF QueryRejects, Return, RemoteFailure, GivesUp, MovesOn, Busy, TypeOK
<1>8. CASE CommitOffset(s)
  BY <1>0, <1>8, EndBusy DEF CommitOffset, CommitsOffset, Return, Commits, MovesOn, Busy
<1>9. CASE OffsetRejects(s)
  <2>1. /\ spc[s] \in CommitsOffset /\ Busy(s) /\ UNCHANGED <<results, resOwner>>
        /\ EndHandler(s)
        /\ UNCHANGED resPosition \/ Group!Resolve(swork[s].part, s, swork[s].off)
    BY <1>9 DEF OffsetRejects, CommitsOffset, Return, Throw, Busy
  <2>2. MovesOn(s)
    BY <1>0, <2>1, EndBusy DEF MovesOn
  <2>3. \/ UNCHANGED resCommitted /\ resOwner[swork[s].part] # s
        \/ UNCHANGED resCommitted /\ failures' = failures + 1
        \/ Group!CommitAccepted(swork[s].part, s, swork[s].off)
    BY <1>9 DEF OffsetRejects, RemoteFailure, Group!CommitRefused
  <2> QED BY <2>1, <2>2, <2>3 DEF GivesUp, Commits
<1> QED BY <1>1, <1>2, <1>3, <1>4, <1>5, <1>6, <1>7, <1>8, <1>9 DEF Handle

LEMMA OtherGroupStep ==
    ASSUME SinkInvariant, [Next]_vars, \A s \in Sinks : ~Handle(s)
    PROVE  \/ GroupQuiet
           \/ LetsGo
           \/ \E p \in ResultPartitions, s \in Sinks : Takes(p, s)
           \/ Grows
<1> USE DEF SinkInvariant
<1>0. Typed
  BY DEF Typed
<1>1. ASSUME NEW s \in Sinks, StopSink(s)
      PROVE  LetsGo
  BY <1>1 DEF StopSink, LetsGo, BusyAsBefore, Busy, Group!Leave, TypeOK
<1>2. ASSUME NEW s \in Sinks, Restart(s)
      PROVE  GroupQuiet
  BY <1>0, <1>2, GotoBusy DEF Restart, GroupQuiet
<1>3. ASSUME NEW p \in ResultPartitions, EvictResults(p)
      PROVE  LetsGo
  BY <1>3 DEF EvictResults, LetsGo, BusyAsBefore, Busy, Group!Evict, TypeOK, sinkVars
<1>4. ASSUME NEW p \in ResultPartitions, NEW s \in Sinks, AssignResults(p, s)
      PROVE  Takes(p, s)
  BY <1>4 DEF AssignResults, Takes
<1>5. ASSUME EnvNext
      PROVE  GroupQuiet \/ Grows
  <2>1. ASSUME NEW j \in Jobs, (\E n \in 1..MaxTotal : CreateJob(j, n)) \/ DeleteJob(j)
        PROVE  GroupQuiet
    BY <2>1 DEF CreateJob, DeleteJob, GroupQuiet, BusyAsBefore, Busy, sinkVars
  <2>2. ASSUME NEW m \in Event, PublishResult(m)
        PROVE  Grows
    BY <2>2, ConstantsAssumption DEF PublishResult, Grows, Event
  <2>3. ASSUME NEW p \in ResultPartitions, PublishGarbage(p)
        PROVE  Grows
    BY <2>3 DEF PublishGarbage, Grows
  <2> QED BY <1>5, <2>1, <2>2, <2>3 DEF EnvNext
<1>6. CASE UNCHANGED vars
  BY <1>6 DEF vars, GroupQuiet, BusyAsBefore, Busy, sinkVars
<1> QED BY <1>1, <1>2, <1>3, <1>4, <1>5, <1>6
        DEF Next, SinkNext, Rebalance, Shutdown, Kill
-----------------------------------------------------------------------------
(***************************************************************************)
(* First: an owner's handler works at the position, and the committed      *)
(* offset of an owned partition is not ahead of it.                        *)
(***************************************************************************)
LEMMA GroupTypes ==
    ASSUME SinkInvariant
    PROVE  /\ resPosition \in [ResultPartitions -> Nat]
           /\ resCommitted \in [ResultPartitions -> Nat \cup {NoOffset}]
           /\ resOwner \in [ResultPartitions -> Sinks \cup {Nobody}]
           /\ results \in [ResultPartitions -> Seq(Event \cup {Garbage})]
           /\ \A p \in ResultPartitions : Len(results[p]) \in Nat
           /\ \A s \in Sinks : Busy(s) =>
                 /\ swork[s].part \in ResultPartitions /\ swork[s].off \in Nat
                 /\ swork[s].off < Len(results[swork[s].part])
<1>1. results \in [ResultPartitions -> Seq(Event \cup {Garbage})]
  BY DEF SinkInvariant, TypeOK
<1>2. \A p \in ResultPartitions : Len(results[p]) \in Nat
  BY <1>1
<1> QED BY <1>1, <1>2 DEF SinkInvariant, TypeOK, HandlerHasWork, Busy, Work

LEMMA PositionsMoveOn ==
    ASSUME SinkInvariant, PositionsSound, NEW s \in Sinks, GivesUp(s) \/ Commits(s)
    PROVE  /\ PositionsSound'
           /\ \A p \in ResultPartitions :
                 \/ resPosition'[p] = resPosition[p]
                 \/ /\ p = swork[s].part /\ resOwner[p] = s
                    /\ resPosition'[p] = resPosition[p] + 1
           /\ \A p \in ResultPartitions :
                 \/ resCommitted'[p] = resCommitted[p]
                 \/ /\ p = swork[s].part /\ resOwner[p] = s /\ Commits(s)
                    /\ resCommitted'[p] = resPosition[p] + 1
           /\ resOwner[swork[s].part] = s => swork[s].off = resPosition[swork[s].part]
<1> DEFINE q == swork[s].part
           o == swork[s].off
<1>1. q \in ResultPartitions /\ o \in Nat /\ o < Len(results[q])
  BY GroupTypes DEF MovesOn, GivesUp, Commits
<1>2. resOwner[q] = s => o = resPosition[q]
  BY DEF PositionsSound, AtPosition, MovesOn, GivesUp, Commits
<1>3. \A p \in ResultPartitions :
        \/ resPosition'[p] = resPosition[p]
        \/ p = q /\ resOwner[p] = s /\ resPosition'[p] = o + 1
  BY <1>1, GroupTypes DEF MovesOn, GivesUp, Commits, Group!Resolve
<1>4. \A p \in ResultPartitions :
        \/ resCommitted'[p] = resCommitted[p]
        \/ p = q /\ resOwner[p] = s /\ Commits(s) /\ resCommitted'[p] = o + 1
  BY <1>1, GroupTypes DEF GivesUp, Commits, Group!CommitAccepted
<1>5. resOwner' = resOwner /\ results' = results /\ BusyAsBefore /\ ~Busy(s)'
  BY DEF MovesOn, GivesUp, Commits
<1> HIDE DEF q, o
<1>6. AtPosition'
  <2> SUFFICES ASSUME NEW t \in Sinks, Busy(t)', resOwner'[swork'[t].part] = t
               PROVE  swork'[t].off = resPosition'[swork'[t].part]
    BY DEF AtPosition, Busy
  <2>1. t # s /\ Busy(t) /\ swork'[t] = swork[t]
    BY <1>5 DEF BusyAsBefore
  <2>2. swork[t].off = resPosition[swork[t].part] /\ swork[t].part \in ResultPartitions
    BY <1>5, <2>1, GroupTypes DEF PositionsSound, AtPosition
  <2> QED BY <1>3, <1>5, <2>1, <2>2
<1>7. OffsetsInLog'
  <2> SUFFICES ASSUME NEW p \in ResultPartitions
               PROVE  /\ resPosition'[p] <= Len(results[p])
                      /\ resCommitted'[p] # NoOffset => resCommitted'[p] <= Len(results[p])
    BY <1>5 DEF OffsetsInLog
  <2>1. /\ resPosition[p] <= Len(results[p])
        /\ resCommitted[p] # NoOffset => resCommitted[p] <= Len(results[p])
        /\ Len(results[p]) \in Nat
    BY GroupTypes DEF PositionsSound, OffsetsInLog
  <2> QED BY <1>1, <1>3, <1>4, <2>1
<1> QED BY <1>2, <1>3, <1>4, <1>6, <1>7 DEF PositionsSound, q, o

LEMMA PositionsQuiet ==
    ASSUME SinkInvariant, PositionsSound, GroupQuiet
    PROVE  PositionsSound'
BY DEF GroupQuiet, topicVars, BusyAsBefore, Busy, PositionsSound, AtPosition, OffsetsInLog

LEMMA PositionsTake ==
    ASSUME SinkInvariant, PositionsSound, NEW s \in Sinks, NEW p \in ResultPartitions,
           TakesMessage(s, p)
    PROVE  PositionsSound'
<1>1. OffsetsInLog'
  BY DEF TakesMessage, topicVars, PositionsSound, OffsetsInLog
<1>2. AtPosition'
  BY DEF TakesMessage, topicVars, PositionsSound, AtPosition, Busy
<1> QED BY <1>1, <1>2 DEF PositionsSound

LEMMA PositionsLetGo ==
    ASSUME SinkInvariant, PositionsSound, LetsGo
    PROVE  PositionsSound'
<1>1. OffsetsInLog'
  BY DEF LetsGo, PositionsSound, OffsetsInLog
<1>2. AtPosition'
  <2> SUFFICES ASSUME NEW t \in Sinks, Busy(t)', resOwner'[swork'[t].part] = t
               PROVE  swork'[t].off = resPosition'[swork'[t].part]
    BY DEF AtPosition, Busy
  <2>1. Busy(t) /\ swork'[t] = swork[t] /\ swork[t].part \in ResultPartitions
    BY GroupTypes DEF LetsGo, BusyAsBefore
  <2>2. resOwner[swork[t].part] = t
    BY <2>1, SentinelAssumption DEF LetsGo
  <2> QED BY <2>1, <2>2 DEF LetsGo, PositionsSound, AtPosition
<1> QED BY <1>1, <1>2 DEF PositionsSound

LEMMA PositionsAssign ==
    ASSUME SinkInvariant, PositionsSound, NEW p \in ResultPartitions, NEW s \in Sinks,
           Takes(p, s)
    PROVE  /\ PositionsSound'
           /\ \A q \in ResultPartitions :
                 resPosition'[q] = IF q = p THEN Group!StartOffset(p) ELSE resPosition[q]
<1>1. /\ results' = results /\ resCommitted' = resCommitted
      /\ spc' = spc /\ swork' = swork /\ spc[s] = "idle"
      /\ resOwner[p] = Nobody
  BY DEF Takes, sinkVars, Group!Assign
<1>2. \A q \in ResultPartitions :
        /\ resPosition'[q] = IF q = p THEN Group!StartOffset(p) ELSE resPosition[q]
        /\ resOwner'[q] = IF q = p THEN s ELSE resOwner[q]
  BY GroupTypes DEF Takes, Group!Assign
<1>3. AtPosition'
  <2> SUFFICES ASSUME NEW t \in Sinks, Busy(t), resOwner'[swork[t].part] = t
               PROVE  swork[t].off = resPosition'[swork[t].part]
    BY <1>1 DEF AtPosition, Busy
  <2>1. swork[t].part \in ResultPartitions /\ t # s
    BY <1>1, GroupTypes DEF Busy
  <2> QED BY <1>2, <2>1 DEF PositionsSound, AtPosition
<1>4. OffsetsInLog'
  <2> SUFFICES ASSUME NEW q \in ResultPartitions
               PROVE  /\ resPosition'[q] <= Len(results[q])
                      /\ resCommitted[q] # NoOffset => resCommitted[q] <= Len(results[q])
    BY <1>1 DEF OffsetsInLog
  <2>1. Len(results[q]) \in Nat /\ resCommitted[q] \in Nat \cup {NoOffset}
    BY GroupTypes
  <2> QED BY <1>2, <2>1 DEF PositionsSound, OffsetsInLog, Group!StartOffset
<1> QED BY <1>2, <1>3, <1>4 DEF PositionsSound

LEMMA LogGrows ==
    ASSUME SinkInvariant, Grows
    PROVE  \A p \in ResultPartitions :
              /\ Len(results'[p]) \in Nat /\ Len(results[p]) <= Len(results'[p])
              /\ \A i \in 1..Len(results[p]) : results'[p][i] = results[p][i]
<1> PICK q \in ResultPartitions, m \in Event \cup {Garbage} : Group!Publish(q, m)
  BY DEF Grows
<1> SUFFICES ASSUME NEW p \in ResultPartitions
             PROVE  /\ Len(results'[p]) \in Nat /\ Len(results[p]) <= Len(results'[p])
                    /\ \A i \in 1..Len(results[p]) : results'[p][i] = results[p][i]
  OBVIOUS
<1>1. results[p] \in Seq(Event \cup {Garbage})
  BY GroupTypes
<1>2. results'[p] = IF p = q THEN Append(results[p], m) ELSE results[p]
  BY GroupTypes DEF Group!Publish
<1>3. CASE p = q
  BY <1>1, <1>2, <1>3
<1>4. CASE p # q
  BY <1>1, <1>2, <1>4
<1> QED BY <1>3, <1>4

LEMMA PositionsGrow ==
    ASSUME SinkInvariant, PositionsSound, Grows
    PROVE  PositionsSound'
<1>1. /\ resCommitted' = resCommitted /\ resPosition' = resPosition
      /\ resOwner' = resOwner /\ spc' = spc /\ swork' = swork
  BY DEF Grows, sinkVars
<1>2. AtPosition'
  BY <1>1 DEF PositionsSound, AtPosition, Busy
<1>3. OffsetsInLog'
  <2> SUFFICES ASSUME NEW p \in ResultPartitions
               PROVE  /\ resPosition[p] <= Len(results'[p])
                      /\ resCommitted[p] # NoOffset => resCommitted[p] <= Len(results'[p])
    BY <1>1 DEF OffsetsInLog
  <2>1. /\ Len(results[p]) \in Nat /\ Len(results'[p]) \in Nat
        /\ Len(results[p]) <= Len(results'[p])
    BY LogGrows, GroupTypes
  <2>2. resPosition[p] \in Nat /\ resCommitted[p] \in Nat \cup {NoOffset}
    BY GroupTypes
  <2> QED BY <2>1, <2>2 DEF PositionsSound, OffsetsInLog
<1> QED BY <1>2, <1>3 DEF PositionsSound

LEMMA PositionsNext ==
    ASSUME SinkInvariant, PositionsSound, [Next]_vars
    PROVE  PositionsSound'
<1>1. ASSUME NEW s \in Sinks, Handle(s)
      PROVE  PositionsSound'
  BY <1>1, HandleGroupStep, PositionsQuiet, PositionsTake, PositionsMoveOn
<1>2. CASE \A s \in Sinks : ~Handle(s)
  BY <1>2, OtherGroupStep, PositionsQuiet, PositionsLetGo, PositionsAssign, PositionsGrow
<1> QED BY <1>1, <1>2

LEMMA PositionsInit == Init => PositionsSound
<1> SUFFICES ASSUME Init PROVE PositionsSound
  OBVIOUS
<1>1. \A p \in ResultPartitions : /\ resPosition[p] = 0 /\ Len(results[p]) = 0
                                  /\ resCommitted[p] \in {NoOffset, 0}
  BY DEF Init
<1>2. \A s \in Sinks : ~Busy(s)
  BY DEF Init, Busy
<1> QED BY <1>1, <1>2 DEF PositionsSound, AtPosition, OffsetsInLog
-----------------------------------------------------------------------------
(***************************************************************************)
(* Second: what is recorded stays so.                                      *)
(***************************************************************************)
TablesGrow ==
    \A j \in Jobs :
        /\ jobs[j] # NotCreated => jobs'[j] # NotCreated
        /\ jobs[j] = Deleted => jobs'[j] = Deleted
        /\ \/ jobs'[j] = Deleted
           \/ articles[j] \subseteq articles'[j] /\ errors[j] \subseteq errors'[j]

LEMMA ApplyTxGrows ==
    ASSUME SinkInvariant, NEW s \in Sinks, spc[s] = "commit", ApplyTx(s)
    PROVE  /\ TablesGrow
           /\ Msg(s).url \in
                (IF Msg(s).status = "ok" THEN articles' ELSE errors')[Msg(s).job]
<1>0. Msg(s) \in Event
  BY MsgType DEF SinkInvariant, Typed
<1> PICK m \in Event : m = Msg(s)
  BY <1>0
<1> DEFINE d == IF m.status = "ok" THEN 1 ELSE 0
           f == IF m.status = "ok" THEN 0 ELSE 1
<1>1. m.job \in Jobs /\ m.url \in Urls /\ d \in Nat /\ f \in Nat
  BY DEF Event
<1>2. Exists(m.job)
  BY DEF SinkInvariant, TransactionIsolated, Isolated
<1>3. /\ jobs \in [Jobs -> JobRow \cup {NotCreated, Deleted}]
      /\ articles \in [Jobs -> SUBSET Urls] /\ errors \in [Jobs -> SUBSET Urls]
  BY DEF SinkInvariant, TypeOK
<1>4. /\ articles' = [articles EXCEPT ![m.job] = IF m.status = "ok" THEN @ \cup {m.url} ELSE @]
      /\ errors' = [errors EXCEPT ![m.job] = IF m.status = "ok" THEN @ ELSE @ \cup {m.url}]
      /\ jobs' = [jobs EXCEPT ![m.job] = Counted(jobs[m.job], d, f)] \/ jobs' = jobs
  BY DEF ApplyTx
<1> HIDE DEF d, f
<1>5. Counted(jobs[m.job], d, f) \in JobRow
  BY <1>1, <1>2, <1>3, CountedType DEF Exists
<1>6. \A j \in Jobs : jobs'[j] = jobs[j] \/ (j = m.job /\ jobs'[j] \in JobRow)
  BY <1>1, <1>3, <1>4, <1>5
<1>7. \A j \in Jobs : articles[j] \subseteq articles'[j] /\ errors[j] \subseteq errors'[j]
  BY <1>1, <1>3, <1>4
<1>8. m.url \in (IF m.status = "ok" THEN articles' ELSE errors')[m.job]
  BY <1>1, <1>3, <1>4
<1>9. TablesGrow
  <2> SUFFICES ASSUME NEW j \in Jobs
               PROVE  /\ jobs[j] # NotCreated => jobs'[j] # NotCreated
                      /\ jobs[j] = Deleted => jobs'[j] = Deleted
    BY <1>7 DEF TablesGrow
  <2>1. jobs'[j] = jobs[j] \/ (j = m.job /\ jobs'[j] \in JobRow)
    BY <1>6
  <2>2. CASE jobs'[j] = jobs[j]
    BY <2>2
  <2>3. CASE j = m.job /\ jobs'[j] \in JobRow
    <3>1. jobs[j] # Deleted
      BY <1>2, <2>3 DEF Exists
    <3>2. jobs'[j] # NotCreated
      BY <2>3, SentinelAssumption
    <3> QED BY <3>1, <3>2
  <2> QED BY <2>1, <2>2, <2>3
<1> QED BY <1>8, <1>9

LEMMA TablesGrowQuiet ==
    ASSUME UNCHANGED <<jobs, articles, errors>>
    PROVE  TablesGrow
BY DEF TablesGrow

LEMMA TablesGrowNext ==
    ASSUME SinkInvariant, [Next]_vars
    PROVE  TablesGrow
<1>1. ASSUME NEW s \in Sinks, Handle(s)
      PROVE  TablesGrow
  BY <1>1, ApplyTxGrows, TablesGrowQuiet
  DEF Handle, Deliver, Connect, SelectJob, InsertRow, CommitTx, CommitAckLost,
      QueryRejects, CommitOffset, OffsetRejects, dbVars
<1>2. ASSUME NEW s \in Sinks, Shutdown(s) \/ Kill(s) \/ Restart(s)
      PROVE  TablesGrow
  BY <1>2, TablesGrowQuiet DEF Shutdown, Kill, StopSink, Restart, dbVars
<1>3. ASSUME NEW p \in ResultPartitions, Rebalance(p)
      PROVE  TablesGrow
  BY <1>3, TablesGrowQuiet DEF Rebalance, EvictResults, AssignResults, dbVars
<1>4. ASSUME NEW j \in Jobs, NEW n \in 1..MaxTotal, CreateJob(j, n)
      PROVE  TablesGrow
  <2> DEFINE row == [total |-> n, done |-> 0, failed |-> 0, state |-> "queued"]
  <2>1. /\ jobs' = [jobs EXCEPT ![j] = row] /\ jobs[j] = NotCreated
        /\ articles' = articles /\ errors' = errors
    BY <1>4 DEF CreateJob
  <2>2. row \in JobRow
    BY ConstantsAssumption DEF JobRow
  <2> HIDE DEF row
  <2>3. jobs \in [Jobs -> JobRow \cup {NotCreated, Deleted}]
    BY DEF SinkInvariant, TypeOK
  <2>4. \A k \in Jobs : jobs'[k] = IF k = j THEN row ELSE jobs[k]
    BY <2>1, <2>3
  <2> QED BY <2>1, <2>2, <2>4, SentinelAssumption DEF TablesGrow
<1>5. ASSUME NEW j \in Jobs, DeleteJob(j)
      PROVE  TablesGrow
  <2>1. \A k \in Jobs : /\ jobs'[k] = IF k = j THEN Deleted ELSE jobs[k]
                        /\ articles'[k] = IF k = j THEN {} ELSE articles[k]
                        /\ errors'[k] = IF k = j THEN {} ELSE errors[k]
    BY <1>5 DEF DeleteJob, SinkInvariant, TypeOK
  <2>2. \A k \in Jobs : articles[k] \subseteq articles'[k] \/ k = j
    BY <2>1
  <2>3. \A k \in Jobs : errors[k] \subseteq errors'[k] \/ k = j
    BY <2>1
  <2>4. Deleted # NotCreated
    BY SentinelAssumption
  <2> QED BY <2>1, <2>2, <2>3, <2>4 DEF TablesGrow
<1>6. ASSUME \/ \E m \in Event : PublishResult(m)
             \/ \E p \in ResultPartitions : PublishGarbage(p)
      PROVE  TablesGrow
  BY <1>6, TablesGrowQuiet DEF PublishResult, PublishGarbage, dbVars
<1>7. CASE UNCHANGED vars
  BY <1>7, TablesGrowQuiet DEF vars, dbVars
<1> QED BY <1>1, <1>2, <1>3, <1>4, <1>5, <1>6, <1>7 DEF Next, SinkNext, EnvNext

LEMMA RecordedStays ==
    ASSUME SinkInvariant, TablesGrow, NEW m \in Event \cup {Garbage}, Recorded(m),
           m # Garbage => jobs[m.job] # NotCreated
    PROVE  Recorded(m)'
<1>1. CASE m = Garbage
  BY <1>1 DEF Recorded
<1>2. CASE m # Garbage
  <2>1. m.job \in Jobs
    BY <1>2 DEF Event
  <2>2. CASE ~Exists(m.job)
    BY <1>2, <2>1, <2>2 DEF TablesGrow, Exists, Recorded
  <2>3. CASE m.url \in Rows(m.status)[m.job]
    BY <2>1, <2>3 DEF TablesGrow, Exists, Recorded, Rows
  <2> QED BY <1>2, <2>2, <2>3 DEF Recorded
<1> QED BY <1>1, <1>2
(***************************************************************************)
(* Third: the topic speaks of created jobs only, and a handler about to    *)
(* commit an offset has recorded its message.                              *)
(***************************************************************************)
LEMMA JobsKnownNext ==
    ASSUME SinkInvariant, JobsKnown, [Next]_vars
    PROVE  JobsKnown'
<1>0. TablesGrow
  BY TablesGrowNext
<1>1. CASE results' = results
  <2> SUFFICES ASSUME NEW p \in ResultPartitions, NEW i \in 1..Len(results[p]),
                      results[p][i] # Garbage
               PROVE  jobs'[results[p][i].job] # NotCreated
    BY <1>1 DEF JobsKnown
  <2>1. results[p][i] \in Event \cup {Garbage}
    BY GroupTypes
  <2>2. results[p][i].job \in Jobs
    BY <2>1 DEF Event
  <2> QED BY <1>0, <2>2 DEF JobsKnown, TablesGrow
<1>2. ASSUME NEW q \in ResultPartitions, NEW m \in Event \cup {Garbage},
             Group!Publish(q, m), m # Garbage => jobs[m.job] # NotCreated,
             jobs' = jobs
      PROVE  JobsKnown'
  <2> SUFFICES ASSUME NEW p \in ResultPartitions, NEW i \in 1..Len(results'[p]),
                      results'[p][i] # Garbage
               PROVE  jobs[results'[p][i].job] # NotCreated
    BY <1>2 DEF JobsKnown
  <2>1. results[p] \in Seq(Event \cup {Garbage})
    BY GroupTypes
  <2>2. results'[p] = IF p = q THEN Append(results[p], m) ELSE results[p]
    BY <1>2, GroupTypes DEF Group!Publish
  <2>3. \/ i \in 1..Len(results[p]) /\ results'[p][i] = results[p][i]
        \/ results'[p][i] = m
    BY <2>1, <2>2
  <2> QED BY <1>2, <2>3 DEF JobsKnown
<1>3. ASSUME NEW m \in Event, PublishResult(m)
      PROVE  JobsKnown'
  BY <1>2, <1>3, ConstantsAssumption DEF PublishResult, Event, dbVars
<1>4. ASSUME NEW p \in ResultPartitions, PublishGarbage(p)
      PROVE  JobsKnown'
  BY <1>2, <1>4 DEF PublishGarbage, dbVars
<1>5. ASSUME NEW s \in Sinks, Handle(s)
      PROVE  results' = results
  BY <1>5, HandleGroupStep
  DEF GroupQuiet, TakesMessage, GivesUp, Commits, MovesOn, topicVars
<1>6. CASE /\ [Next]_vars
           /\ \A s \in Sinks : ~Handle(s)
           /\ \A m \in Event : ~PublishResult(m)
           /\ \A p \in ResultPartitions : ~PublishGarbage(p)
  BY <1>1, <1>6
  DEF Next, SinkNext, EnvNext, Shutdown, Kill, StopSink, Restart, Rebalance,
      EvictResults, AssignResults, CreateJob, DeleteJob, topicVars, vars
<1> QED BY <1>1, <1>3, <1>4, <1>5, <1>6

LEMMA MsgKnown ==
    ASSUME SinkInvariant, JobsKnown, NEW s \in Sinks, Busy(s)
    PROVE  /\ Msg(s) \in Event \cup {Garbage}
           /\ Msg(s) # Garbage => jobs[Msg(s).job] # NotCreated
<1>1. /\ results[swork[s].part] \in Seq(Event \cup {Garbage})
      /\ swork[s].part \in ResultPartitions
      /\ swork[s].off + 1 \in 1..Len(results[swork[s].part])
  BY GroupTypes
<1> QED BY <1>1 DEF Msg, JobsKnown

LEMMA SettledStep ==
    ASSUME SinkInvariant, JobsKnown, NEW s \in Sinks, Handle(s), spc'[s] \in CommitsOffset
    PROVE  Recorded(Msg(s))'
<1>1. CASE \E p \in ResultPartitions : Deliver(s, p)
  <2>1. PICK p \in ResultPartitions : Deliver(s, p)
    BY <1>1
  <2>2. /\ swork'[s] = [part |-> p, off |-> resPosition[p]]
        /\ results' = results
        /\ results[p][resPosition[p] + 1] = Garbage
    BY <2>1, GroupTypes
    DEF Deliver, Goto, CommitsOffset, SinkInvariant, TypeOK, topicVars
  <2>3. Msg(s)' = Garbage
    BY <2>2 DEF Msg
  <2> QED BY <2>3 DEF Recorded
<1>2. CASE SelectJob(s)
  <2>1. /\ ~Exists(Msg(s).job)
        /\ UNCHANGED <<jobs, results, swork>>
    BY <1>2 DEF SelectJob, Goto, CommitsOffset, SinkInvariant, TypeOK, topicVars
  <2>2. Msg(s)' = Msg(s) /\ ~Exists(Msg(s).job)'
    BY <2>1 DEF Msg, Exists
  <2> QED BY <2>2 DEF Recorded
<1>3. CASE CommitTx(s)
  <2>1. results' = results /\ swork' = swork
    BY <1>3 DEF CommitTx, topicVars
  <2>2. Msg(s)' = Msg(s)
    BY <2>1 DEF Msg
  <2>3. Msg(s).url \in (IF Msg(s).status = "ok" THEN articles' ELSE errors')[Msg(s).job]
    BY <1>3, ApplyTxGrows DEF CommitTx
  <2> QED BY <2>2, <2>3 DEF Recorded, Rows
<1>4. CASE \/ Connect(s) \/ InsertRow(s) \/ CommitAckLost(s) \/ QueryRejects(s)
           \/ CommitOffset(s) \/ OffsetRejects(s)
  BY <1>4
  DEF Connect, InsertRow, CommitAckLost, QueryRejects, CommitOffset, OffsetRejects,
      Return, Throw, EndHandler, Goto, CommitsOffset, SinkInvariant, TypeOK
<1> QED BY <1>1, <1>2, <1>3, <1>4 DEF Handle

(***************************************************************************)
(* The other handlers keep their place and their message.                  *)
(***************************************************************************)
LEMMA KeepsMessage ==
    ASSUME SinkInvariant, [Next]_vars, NEW t \in Sinks, ~Handle(t), Busy(t)'
    PROVE  Busy(t) /\ spc'[t] = spc[t] /\ Msg(t)' = Msg(t)
<1>1. ASSUME NEW s \in Sinks, Handle(s)
      PROVE  Busy(t) /\ spc'[t] = spc[t] /\ Msg(t)' = Msg(t)
  <2>1. t # s
    BY <1>1
  <2>2. spc'[t] = spc[t] /\ swork'[t] = swork[t]
    BY <1>1, <2>1
    DEF Handle, Deliver, Connect, SelectJob, InsertRow, CommitTx, CommitAckLost,
        QueryRejects, CommitOffset, OffsetRejects, Return, Throw, EndHandler, Goto,
        SinkInvariant, TypeOK
  <2>3. results' = results
    BY <1>1, HandleGroupStep DEF GroupQuiet, TakesMessage, GivesUp, Commits, MovesOn, topicVars
  <2> QED BY <2>2, <2>3 DEF Busy, Msg
<1>2. ASSUME NEW s \in Sinks, Shutdown(s) \/ Kill(s) \/ Restart(s)
      PROVE  Busy(t) /\ spc'[t] = spc[t] /\ Msg(t)' = Msg(t)
  BY <1>2 DEF Shutdown, Kill, StopSink, Restart, Goto, Busy, Msg, topicVars,
              SinkInvariant, TypeOK
<1>3. ASSUME NEW p \in ResultPartitions, Rebalance(p)
      PROVE  Busy(t) /\ spc'[t] = spc[t] /\ Msg(t)' = Msg(t)
  BY <1>3 DEF Rebalance, EvictResults, AssignResults, Busy, Msg, sinkVars
<1>4. ASSUME EnvNext
      PROVE  Busy(t) /\ spc'[t] = spc[t] /\ Msg(t)' = Msg(t)
  <2>1. UNCHANGED sinkVars
    BY <1>4 DEF EnvNext, CreateJob, DeleteJob, PublishResult, PublishGarbage
  <2>2. Busy(t) /\ spc' = spc /\ swork' = swork
    BY <2>1 DEF sinkVars, Busy
  <2>3. CASE results' = results
    BY <2>2, <2>3 DEF Msg
  <2>4. CASE Grows
    <3>1. /\ swork[t].part \in ResultPartitions
          /\ swork[t].off + 1 \in 1..Len(results[swork[t].part])
      BY <2>2, GroupTypes
    <3>2. results'[swork[t].part][swork[t].off + 1] = results[swork[t].part][swork[t].off + 1]
      BY <2>4, <3>1, LogGrows
    <3> QED BY <2>2, <3>2 DEF Msg
  <2>5. results' = results \/ Grows
    BY <1>4, ConstantsAssumption
    DEF EnvNext, CreateJob, DeleteJob, PublishResult, PublishGarbage, Grows, Event,
        topicVars
  <2> QED BY <2>3, <2>4, <2>5
<1>5. CASE UNCHANGED vars
  BY <1>5 DEF vars, sinkVars, topicVars, Busy, Msg
<1> QED BY <1>1, <1>2, <1>3, <1>4, <1>5 DEF Next, SinkNext

LEMMA SettledNext ==
    ASSUME SinkInvariant, JobsKnown, Settled, [Next]_vars
    PROVE  Settled'
<1> SUFFICES ASSUME NEW t \in Sinks, spc'[t] \in CommitsOffset
             PROVE  Recorded(Msg(t))'
  BY DEF Settled, CommitsOffset
<1>1. CASE Handle(t)
  BY <1>1, SettledStep
<1>2. CASE ~Handle(t)
  <2>1. Busy(t) /\ spc'[t] = spc[t] /\ Msg(t)' = Msg(t)
    BY <1>2, KeepsMessage DEF Busy, CommitsOffset
  <2>2. /\ Recorded(Msg(t)) /\ Msg(t) \in Event \cup {Garbage}
        /\ Msg(t) # Garbage => jobs[Msg(t).job] # NotCreated
    BY <2>1, MsgKnown DEF Settled
  <2>3. PICK m \in Event \cup {Garbage} : m = Msg(t)
    BY <2>2
  <2>4. Recorded(m)'
    BY <2>2, <2>3, TablesGrowNext, RecordedStays
  <2> QED BY <2>1, <2>3, <2>4 DEF Recorded, Exists, Rows
<1> QED BY <1>1, <1>2
-----------------------------------------------------------------------------
(***************************************************************************)
(* Together: what passes a message that is not recorded.                   *)
(***************************************************************************)
LEMMA FailuresMount ==
    ASSUME SinkInvariant, [Next]_vars
    PROVE  /\ failures \in Nat /\ failures' \in Nat
           /\ failures' = failures \/ failures' = failures + 1
BY DEF SinkInvariant, TypeOK, Next, SinkNext, Handle, EnvNext, Deliver, Connect,
       SelectJob, InsertRow, CommitTx, CommitAckLost, QueryRejects, CommitOffset,
       OffsetRejects, RemoteFailure, Shutdown, Kill, StopSink, Restart, Rebalance,
       EvictResults, AssignResults, CreateJob, DeleteJob, PublishResult,
       PublishGarbage, faultVars, vars

(***************************************************************************)
(* A recorded message of the topic stays where it is, and recorded.        *)
(***************************************************************************)
LEMMA MessageStays ==
    ASSUME SinkInvariant, JobsKnown, [Next]_vars, NEW p \in ResultPartitions,
           NEW o \in Nat, o < Len(results[p]), Recorded(results[p][o + 1]),
           results' = results \/ Grows
    PROVE  Recorded(results[p][o + 1])'
<1>1. /\ o + 1 \in 1..Len(results[p])
      /\ results[p] \in Seq(Event \cup {Garbage})
  BY GroupTypes
<1>2. results'[p][o + 1] = results[p][o + 1]
  BY <1>1, LogGrows
<1>3. PICK m \in Event \cup {Garbage} : m = results[p][o + 1]
  BY <1>1
<1>4. Recorded(m) /\ (m # Garbage => jobs[m.job] # NotCreated)
  BY <1>1, <1>3 DEF JobsKnown
<1>5. Recorded(m)'
  BY <1>4, TablesGrowNext, RecordedStays
<1> QED BY <1>2, <1>3, <1>5 DEF Recorded, Exists, Rows

(***************************************************************************)
(* How far a partition has been passed, and how far it is after a step.    *)
(***************************************************************************)
LEMMA PassesOneMore ==
    ASSUME SinkInvariant, PositionsSound, [Next]_vars,
           \A p \in ResultPartitions : resCommitted[p] # NoOffset
    PROVE  /\ results' = results \/ Grows
           /\ \A p \in ResultPartitions : resCommitted'[p] # NoOffset
           /\ \/ \A p \in ResultPartitions :
                    /\ resCommitted'[p] = resCommitted[p]
                    /\ resPosition'[p] \in {resCommitted[p], resPosition[p]}
              \/ \E s \in Sinks, q \in ResultPartitions :
                    /\ Busy(s) /\ results' = results
                    /\ q = swork[s].part /\ swork[s].off = resPosition[q]
                    /\ Commits(s) \/ failures' = failures + 1
                    /\ resCommitted'[q] \in {resCommitted[q], resPosition[q] + 1}
                    /\ resPosition'[q] \in {resPosition[q], resPosition[q] + 1}
                    /\ \A p \in ResultPartitions \ {q} :
                          /\ resCommitted'[p] = resCommitted[p]
                          /\ resPosition'[p] = resPosition[p]
<1> DEFINE Same == \A p \in ResultPartitions :
                      /\ resCommitted'[p] = resCommitted[p]
                      /\ resPosition'[p] \in {resCommitted[p], resPosition[p]}
<1>1. CASE GroupQuiet \/ LetsGo \/ Grows
           \/ \E s \in Sinks, p \in ResultPartitions : TakesMessage(s, p)
  BY <1>1 DEF GroupQuiet, LetsGo, Grows, TakesMessage, topicVars
<1>2. CASE \E p \in ResultPartitions, s \in Sinks : Takes(p, s)
  <2>1. resCommitted' = resCommitted /\ results' = results
    BY <1>2 DEF Takes
  <2>2. \A p \in ResultPartitions : resPosition'[p] \in {resCommitted[p], resPosition[p]}
    BY <1>2, PositionsAssign DEF Group!StartOffset
  <2> QED BY <2>1, <2>2
<1>3. ASSUME NEW s \in Sinks, GivesUp(s) \/ Commits(s), ~Same
      PROVE  \E q \in ResultPartitions :
                /\ Busy(s) /\ results' = results
                /\ q = swork[s].part /\ swork[s].off = resPosition[q]
                /\ Commits(s) \/ failures' = failures + 1
                /\ resCommitted'[q] \in {resCommitted[q], resPosition[q] + 1}
                /\ resPosition'[q] \in {resPosition[q], resPosition[q] + 1}
                /\ \A p \in ResultPartitions \ {q} :
                      /\ resCommitted'[p] = resCommitted[p]
                      /\ resPosition'[p] = resPosition[p]
  <2>1. Busy(s) /\ results' = results /\ swork[s].part \in ResultPartitions
    BY <1>3, GroupTypes DEF GivesUp, Commits, MovesOn
  <2>2. PICK q \in ResultPartitions : q = swork[s].part
    BY <2>1
  <2>3. \A p \in ResultPartitions \ {q} : /\ resCommitted'[p] = resCommitted[p]
                                         /\ resPosition'[p] = resPosition[p]
    BY <1>3, <2>2, PositionsMoveOn
  <2>4. resOwner[q] = s
    BY <1>3, <2>2, <2>3, PositionsMoveOn
  <2>5. /\ resCommitted'[q] \in {resCommitted[q], resPosition[q] + 1}
        /\ resPosition'[q] \in {resPosition[q], resPosition[q] + 1}
        /\ swork[s].off = resPosition[q]
    BY <1>3, <2>2, <2>4, PositionsMoveOn
  <2>6. Commits(s) \/ failures' = failures + 1
    <3>1. CASE resPosition' = resPosition /\ ~Commits(s)
      BY <1>3, <3>1 DEF GivesUp
    <3>2. CASE resPosition' # resPosition /\ ~Commits(s)
      BY <1>3, <2>2, <2>4, <3>2 DEF GivesUp
    <3> QED BY <3>1, <3>2
  <2> QED BY <2>1, <2>2, <2>3, <2>5, <2>6
<1>4. ASSUME NEW s \in Sinks, GivesUp(s) \/ Commits(s)
      PROVE  /\ results' = results
             /\ \A p \in ResultPartitions : resCommitted'[p] # NoOffset
  <2>1. \A p \in ResultPartitions : resPosition[p] + 1 # NoOffset
    BY GroupTypes, SentinelAssumption
  <2> QED BY <1>4, <2>1, PositionsMoveOn DEF GivesUp, Commits, MovesOn
<1>5. ASSUME NEW s \in Sinks, Handle(s)
      PROVE  \/ GroupQuiet \/ \E p \in ResultPartitions : TakesMessage(s, p)
             \/ GivesUp(s) \/ Commits(s)
  BY <1>5, HandleGroupStep
<1>6. CASE \A s \in Sinks : ~Handle(s)
  BY <1>1, <1>2, <1>6, OtherGroupStep
<1>7. CASE \E s \in Sinks : GivesUp(s) \/ Commits(s)
  BY <1>3, <1>4, <1>7
<1> QED BY <1>1, <1>5, <1>6, <1>7

LEMMA PassedNext ==
    ASSUME SinkInvariant, DeliveryInvariant, [Next]_vars, ~FreshGroup
    PROVE  \/ Passed' \subseteq Passed
           \/ /\ failures' = failures + 1
              /\ \E e : Passed' \subseteq Passed \cup {e}
<1>1. /\ \A p \in ResultPartitions : resCommitted[p] \in Nat /\ resPosition[p] \in Nat
      /\ \A p \in ResultPartitions : resCommitted[p] # NoOffset
      /\ \A p \in ResultPartitions : /\ resCommitted[p] <= Len(results[p])
                                     /\ resPosition[p] <= Len(results[p])
                                     /\ Len(results[p]) \in Nat
  BY GroupTypes DEF DeliveryInvariant, PassedPaid, PositionsSound, OffsetsInLog
<1>2. results' = results \/ Grows
  BY <1>1, PassesOneMore DEF DeliveryInvariant
<1>3. ASSUME NEW x \in Passed', x \notin Passed
      PROVE  /\ x[1] \in ResultPartitions /\ x[2] \in Nat /\ x = <<x[1], x[2]>>
             /\ x[2] < resCommitted'[x[1]] \/ x[2] < resPosition'[x[1]]
             /\ x[2] >= resCommitted[x[1]] /\ x[2] >= resPosition[x[1]]
             /\ ~Recorded(results[x[1]][x[2] + 1])'
  <2>1. /\ x[1] \in ResultPartitions /\ x[2] \in Nat /\ x = <<x[1], x[2]>>
        /\ x[2] < resCommitted'[x[1]] \/ x[2] < resPosition'[x[1]]
        /\ ~Recorded(results[x[1]][x[2] + 1])'
    BY <1>3 DEF Passed
  <2>2. ASSUME x[2] < resCommitted[x[1]] \/ x[2] < resPosition[x[1]]
        PROVE  FALSE
    <3>1. Recorded(results[x[1]][x[2] + 1])
      BY <1>3, <2>1, <2>2 DEF Passed
    <3>2. x[2] < Len(results[x[1]])
      BY <1>1, <2>1, <2>2
    <3> QED BY <1>2, <2>1, <3>1, <3>2, MessageStays DEF DeliveryInvariant
  <2> QED BY <1>1, <2>1, <2>2
<1>4. CASE \A p \in ResultPartitions :
              /\ resCommitted'[p] = resCommitted[p]
              /\ resPosition'[p] \in {resCommitted[p], resPosition[p]}
  BY <1>1, <1>3, <1>4
<1>5. ASSUME NEW s \in Sinks, NEW q \in ResultPartitions,
             Busy(s), results' = results, q = swork[s].part, swork[s].off = resPosition[q],
             Commits(s) \/ failures' = failures + 1,
             resCommitted'[q] \in {resCommitted[q], resPosition[q] + 1},
             resPosition'[q] \in {resPosition[q], resPosition[q] + 1},
             \A p \in ResultPartitions \ {q} : /\ resCommitted'[p] = resCommitted[p]
                                             /\ resPosition'[p] = resPosition[p]
      PROVE  \/ Passed' \subseteq Passed
             \/ /\ failures' = failures + 1
                /\ \E e : Passed' \subseteq Passed \cup {e}
  <2>1. PICK o \in Nat : o = swork[s].off /\ o < Len(results[q])
    BY <1>5, GroupTypes
  <2>2. ASSUME NEW x \in Passed', x \notin Passed
        PROVE  x = <<q, o>> /\ ~Recorded(results[q][o + 1])'
    <3>1. x[1] = q
      BY <1>1, <1>3, <1>5, <2>2
    <3>2. x[2] = o
      BY <1>1, <1>3, <1>5, <2>1, <2>2, <3>1
    <3> QED BY <1>3, <2>2, <3>1, <3>2
  <2>3. CASE Commits(s)
    <3>1. Recorded(results[q][o + 1])
      BY <1>5, <2>1, <2>3 DEF DeliveryInvariant, Settled, Commits, Msg
    <3>2. Recorded(results[q][o + 1])'
      BY <1>5, <2>1, <3>1, MessageStays DEF DeliveryInvariant
    <3> QED BY <2>2, <3>2
  <2>4. CASE failures' = failures + 1
    <3>1. Passed' \subseteq Passed \cup {<<q, o>>}
      BY <2>2
    <3> QED BY <2>4, <3>1
  <2> QED BY <1>5, <2>3, <2>4
<1> QED BY <1>1, <1>4, <1>5, PassesOneMore DEF DeliveryInvariant

LEMMA PassedPaidNext ==
    ASSUME SinkInvariant, DeliveryInvariant, [Next]_vars
    PROVE  PassedPaid'
<1> SUFFICES ASSUME ~FreshGroup
             PROVE  /\ \A p \in ResultPartitions : resCommitted'[p] # NoOffset
                    /\ IsFiniteSet(Passed') /\ Cardinality(Passed') <= failures'
  BY DEF PassedPaid
<1>1. /\ \A p \in ResultPartitions : resCommitted[p] # NoOffset
      /\ IsFiniteSet(Passed) /\ Cardinality(Passed) <= failures
  BY DEF DeliveryInvariant, PassedPaid
<1>2. \A p \in ResultPartitions : resCommitted'[p] # NoOffset
  BY <1>1, PassesOneMore DEF DeliveryInvariant
<1>3. /\ failures \in Nat /\ failures' \in Nat
      /\ failures' = failures \/ failures' = failures + 1
  BY FailuresMount
<1>4. Cardinality(Passed) \in Nat
  BY <1>1, FS_CardinalityType
<1>5. CASE Passed' \subseteq Passed
  <2>1. IsFiniteSet(Passed') /\ Cardinality(Passed') <= Cardinality(Passed)
    BY <1>1, <1>5, FS_Subset
  <2>2. Cardinality(Passed') \in Nat
    BY <2>1, FS_CardinalityType
  <2> QED BY <1>1, <1>2, <1>3, <1>4, <2>1, <2>2
<1>6. ASSUME NEW e, Passed' \subseteq Passed \cup {e}, failures' = failures + 1
      PROVE  IsFiniteSet(Passed') /\ Cardinality(Passed') <= failures'
  <2>1. /\ IsFiniteSet(Passed \cup {e})
        /\ Cardinality(Passed \cup {e}) \in {Cardinality(Passed), Cardinality(Passed) + 1}
    BY <1>1, FS_AddElement
  <2>2. IsFiniteSet(Passed') /\ Cardinality(Passed') <= Cardinality(Passed \cup {e})
    BY <1>6, <2>1, FS_Subset
  <2>3. Cardinality(Passed') \in Nat
    BY <2>2, FS_CardinalityType
  <2> QED BY <1>1, <1>3, <1>4, <1>6, <2>1, <2>2, <2>3
<1> QED BY <1>2, <1>5, <1>6, PassedNext

LEMMA DeliveryInit == Init => DeliveryInvariant
<1> SUFFICES ASSUME Init PROVE DeliveryInvariant
  OBVIOUS
<1>1. \A p \in ResultPartitions : /\ resPosition[p] = 0 /\ Len(results[p]) = 0
                                  /\ ~FreshGroup => resCommitted[p] = 0
  BY DEF Init
<1>2. JobsKnown
  BY <1>1 DEF JobsKnown
<1>3. Settled
  BY DEF Init, Settled, CommitsOffset
<1>4. PassedPaid
  <2> SUFFICES ASSUME ~FreshGroup
               PROVE  /\ \A p \in ResultPartitions : resCommitted[p] # NoOffset
                      /\ IsFiniteSet(Passed) /\ Cardinality(Passed) <= failures
    BY DEF PassedPaid
  <2>1. Passed = {}
    BY <1>1 DEF Passed
  <2>2. failures = 0
    BY DEF Init
  <2> QED BY <1>1, <2>1, <2>2, FS_EmptySet, SentinelAssumption
<1> QED BY <1>2, <1>3, <1>4, PositionsInit DEF DeliveryInvariant

LEMMA DeliveryHolds == Spec => []DeliveryInvariant
<1>1. SinkInvariant /\ DeliveryInvariant /\ [Next]_vars => DeliveryInvariant'
  BY PositionsNext, JobsKnownNext, SettledNext, PassedPaidNext DEF DeliveryInvariant
<1> QED BY DeliveryInit, <1>1, SinkInvariantHolds, PTL DEF Spec

LEMMA OverlookedPassed ==
    ASSUME SinkInvariant, DeliveryInvariant, ~FreshGroup
    PROVE  IsFiniteSet(Overlooked) /\ Cardinality(Overlooked) <= failures
<1>1. /\ \A p \in ResultPartitions : resCommitted[p] \in Nat
      /\ IsFiniteSet(Passed) /\ Cardinality(Passed) <= failures /\ failures \in Nat
  BY GroupTypes DEF DeliveryInvariant, PassedPaid, SinkInvariant, TypeOK
<1>2. Overlooked \subseteq Passed
  BY <1>1 DEF Overlooked, Passed
<1>3. Cardinality(Overlooked) <= Cardinality(Passed)
  BY <1>1, <1>2, FS_Subset
<1> QED BY <1>1, <1>2, <1>3, FS_Subset, FS_CardinalityType

(***************************************************************************)
(* Each result behind a committed offset that has no row, though its job   *)
(* has one, was passed over by a handler whose call had rejected, and no   *)
(* two of them by the same (resultsSink.js:134-141).                       *)
(***************************************************************************)
THEOREM EachLossNeedsARejection == Spec => []LossesNeedRejections
<1>1. SinkInvariant /\ DeliveryInvariant => LossesNeedRejections
  BY OverlookedPassed DEF LossesNeedRejections
<1> QED BY <1>1, SinkInvariantHolds, DeliveryHolds, PTL

(***************************************************************************)
(* As long as no remote call has rejected, every result behind the         *)
(* committed offset has its row, or its job is gone, in spite of kills,    *)
(* shutdowns, lost partitions and handlers that outlive their ownership.   *)
(***************************************************************************)
THEOREM NothingLostUnlessRejected == Spec => []AtLeastOnceUnlessRejected
<1>1. SinkInvariant /\ DeliveryInvariant => AtLeastOnceUnlessRejected
  <2> SUFFICES ASSUME SinkInvariant, DeliveryInvariant, failures = 0, ~FreshGroup,
                      NEW p \in ResultPartitions, resCommitted[p] # NoOffset,
                      NEW o \in 0..(resCommitted[p] - 1), ~Recorded(results[p][o + 1])
               PROVE  FALSE
    BY DEF AtLeastOnceUnlessRejected, AtLeastOnce
  <2>1. IsFiniteSet(Overlooked) /\ Cardinality(Overlooked) = 0
    BY OverlookedPassed, FS_CardinalityType
  <2>2. Overlooked = {}
    BY <2>1, FS_EmptySet
  <2>3. <<p, o>> \in Overlooked
    BY DEF Overlooked
  <2> QED BY <2>2, <2>3
<1> QED BY <1>1, SinkInvariantHolds, DeliveryHolds, PTL
-----------------------------------------------------------------------------
(***************************************************************************)
(* The results sink implements JobBoard, for every number of jobs, urls,   *)
(* sinks, partitions, messages and faults.  The argument rests on          *)
(* SinkInvariant before and after the step: the invariant says that a row  *)
(* is the one computed from the outcomes recorded, so it is enough to show *)
(* that each step adds one outcome, creates or deletes a job, or changes   *)
(* no table.                                                               *)
(***************************************************************************)

(***************************************************************************)
(* The refinement mapping.                                                 *)
(***************************************************************************)
EntryOf(j) == IF Exists(j)
              THEN [total |-> jobs[j].total, ok |-> articles[j], bad |-> errors[j]]
              ELSE jobs[j]

BoardOf == [j \in Jobs |-> EntryOf(j)]

(***************************************************************************)
(* JobBoard counts with the same Cardinality.                              *)
(***************************************************************************)
LEMMA SameCardinality == \A S : Board!Cardinality(S) = Cardinality(S)
BY DEF Cardinality, Board!Cardinality

(***************************************************************************)
(* A row whose counters and state match its outcomes is the row JobBoard   *)
(* shows.                                                                  *)
(***************************************************************************)
LEMMA MatchingRow ==
    ASSUME NEW row \in JobRow, NEW a \in SUBSET Urls, NEW e \in SUBSET Urls,
           row.done = Cardinality(a), row.failed = Cardinality(e),
           row.state = IF row.done + row.failed >= row.total THEN "done"
                       ELSE IF row.done + row.failed > 0 THEN "running" ELSE "queued"
    PROVE  row = Board!Row([total |-> row.total, ok |-> a, bad |-> e])
<1> DEFINE b == [total |-> row.total, ok |-> a, bad |-> e]
           answered == row.done + row.failed
<1>1. /\ row.total \in Nat \ {0} /\ row.done \in Nat /\ row.failed \in Nat
      /\ row = [total |-> row.total, done |-> row.done, failed |-> row.failed,
                state |-> row.state]
  BY DEF JobRow
<1>2. row.state = Board!State(row.total, answered)
  <2>1. CASE answered = 0
    BY <1>1, <2>1 DEF Board!State
  <2>2. CASE answered \in 1..(row.total - 1)
    BY <1>1, <2>2 DEF Board!State
  <2>3. CASE answered >= row.total
    BY <1>1, <2>3 DEF Board!State
  <2> QED BY <1>1, <2>1, <2>2, <2>3
<1>3. Board!Row(b) = [total |-> row.total, done |-> row.done, failed |-> row.failed,
                      state |-> Board!State(row.total, answered)]
  BY SameCardinality DEF Board!Row
<1> QED BY <1>1, <1>2, <1>3

(***************************************************************************)
(* A row that exists maps to a row of the board.                           *)
(***************************************************************************)
LEMMA EntryType ==
    ASSUME SinkInvariant, NEW j \in Jobs
    PROVE  Exists(j) <=> Board!Open(j)
<1>1. BoardOf[j] = EntryOf(j)
  BY DEF BoardOf
<1>2. CASE Exists(j)
  <2>1. jobs[j] \in JobRow /\ articles[j] \in SUBSET Urls /\ errors[j] \in SUBSET Urls
    BY <1>2 DEF SinkInvariant, TypeOK, Exists
  <2>2. EntryOf(j) \in Entry
    BY <1>2, <2>1 DEF EntryOf, Entry, JobRow
  <2>3. BoardOf[j] \notin {NotCreated, Deleted}
    BY <1>1, <2>2, SentinelAssumption
  <2> QED BY <1>2, <2>3 DEF Board!Open, BoardOf, EntryOf
<1>3. CASE ~Exists(j)
  BY <1>3 DEF Board!Open, Exists
<1> QED BY <1>2, <1>3

(***************************************************************************)
(* A step that leaves job j existing and touches no other job posts the    *)
(* outcomes of j.                                                          *)
(***************************************************************************)
LEMMA PostStep ==
    ASSUME SinkInvariant, SinkInvariant', NEW j \in Jobs, Exists(j)',
           \A k \in Jobs \ {j} : /\ jobs'[k] = jobs[k]
                                 /\ articles'[k] = articles[k]
                                 /\ errors'[k] = errors[k],
           NEW b, b = [total |-> jobs'[j].total, ok |-> articles'[j], bad |-> errors'[j]]
    PROVE  BoardOf' = [BoardOf EXCEPT ![j] = b] /\ jobs' = [jobs EXCEPT ![j] = Board!Row(b)]
<1>1. /\ jobs \in [Jobs -> JobRow \cup {NotCreated, Deleted}]
      /\ jobs' \in [Jobs -> JobRow \cup {NotCreated, Deleted}]
      /\ articles'[j] \in SUBSET Urls /\ errors'[j] \in SUBSET Urls
  BY DEF SinkInvariant, TypeOK
<1>2. jobs'[j] \in JobRow
  BY <1>1 DEF Exists
<1>3. /\ jobs'[j].done = Cardinality(articles'[j])
      /\ jobs'[j].failed = Cardinality(errors'[j])
  BY DEF SinkInvariant, CountersMatchRows
<1>4. jobs'[j].state = IF jobs'[j].done + jobs'[j].failed >= jobs'[j].total THEN "done"
                       ELSE IF jobs'[j].done + jobs'[j].failed > 0 THEN "running"
                       ELSE "queued"
  BY DEF SinkInvariant, StateMatchesCounters
<1>5. jobs'[j] = Board!Row(b)
  BY <1>1, <1>2, <1>3, <1>4, MatchingRow
<1>6. jobs' = [jobs EXCEPT ![j] = Board!Row(b)]
  BY <1>1, <1>5
<1>7. EntryOf(j)' = b
  BY DEF EntryOf
<1>8. \A k \in Jobs \ {j} : EntryOf(k)' = EntryOf(k)
  BY DEF EntryOf, Exists
<1>9. BoardOf' = [BoardOf EXCEPT ![j] = b]
  BY <1>7, <1>8 DEF BoardOf
<1> QED BY <1>6, <1>9

(***************************************************************************)
(* JobBoard's actions, in terms of BoardOf.                                *)
(***************************************************************************)
LEMMA CreateAction ==
    ASSUME NEW j \in Jobs, NEW n \in 1..MaxTotal, BoardOf[j] = NotCreated,
           NEW b, b = [total |-> n, ok |-> {}, bad |-> {}],
           BoardOf' = [BoardOf EXCEPT ![j] = b], jobs' = [jobs EXCEPT ![j] = Board!Row(b)]
    PROVE  Board!Next
<1>1. Board!Create(j)
  BY DEF Board!Create, Board!Post, BoardOf, EntryOf
<1> QED BY <1>1 DEF Board!Next

LEMMA ArticleAction ==
    ASSUME NEW j \in Jobs, NEW u \in Urls, Board!Open(j), u \notin BoardOf[j].ok,
           NEW b, b = [BoardOf[j] EXCEPT !.ok = @ \cup {u}],
           BoardOf' = [BoardOf EXCEPT ![j] = b], jobs' = [jobs EXCEPT ![j] = Board!Row(b)]
    PROVE  Board!Next
<1>1. Board!RecordArticle(j, u)
  BY DEF Board!RecordArticle, Board!Post, BoardOf, EntryOf
<1> QED BY <1>1 DEF Board!Next

LEMMA ErrorAction ==
    ASSUME NEW j \in Jobs, NEW u \in Urls, Board!Open(j), u \notin BoardOf[j].bad,
           NEW b, b = [BoardOf[j] EXCEPT !.bad = @ \cup {u}],
           BoardOf' = [BoardOf EXCEPT ![j] = b], jobs' = [jobs EXCEPT ![j] = Board!Row(b)]
    PROVE  Board!Next
<1>1. Board!RecordError(j, u)
  BY DEF Board!RecordError, Board!Post, BoardOf, EntryOf
<1> QED BY <1>1 DEF Board!Next
-----------------------------------------------------------------------------
(***************************************************************************)
(* A commit records one outcome, or, when the row was there already,       *)
(* nothing.                                                                *)
(***************************************************************************)
LEMMA CommitRefines ==
    ASSUME SinkInvariant, SinkInvariant', NEW s \in Sinks, spc[s] = "commit", ApplyTx(s)
    PROVE  Board!Next \/ UNCHANGED <<jobs, articles, errors>>
<1>0. Msg(s) \in Event
  BY MsgType DEF SinkInvariant, Typed
<1> PICK m \in Event : m = Msg(s)
  BY <1>0
<1> PICK j \in Jobs, u \in Urls : j = m.job /\ u = m.url
  BY DEF Event
<1>1. m.status \in {"ok", "error"}
  BY DEF Event
<1>2. Exists(j) /\ (sinserted[s] <=> u \notin Rows(m.status)[j])
  BY DEF SinkInvariant, TransactionIsolated, Isolated
<1>3. /\ jobs \in [Jobs -> JobRow \cup {NotCreated, Deleted}]
      /\ articles \in [Jobs -> SUBSET Urls] /\ errors \in [Jobs -> SUBSET Urls]
      /\ jobs' \in [Jobs -> JobRow \cup {NotCreated, Deleted}]
  BY DEF SinkInvariant, TypeOK
<1>4. /\ articles' = [articles EXCEPT ![j] = IF m.status = "ok" THEN @ \cup {u} ELSE @]
      /\ errors' = [errors EXCEPT ![j] = IF m.status = "ok" THEN @ ELSE @ \cup {u}]
  BY DEF ApplyTx
<1>5. CASE ~sinserted[s]
  <2>1. jobs' = jobs
    BY <1>5 DEF ApplyTx
  <2>2. articles' = articles /\ errors' = errors
    <3>1. CASE m.status = "ok"
      <4>1. u \in articles[j]
        BY <1>2, <1>5, <3>1 DEF Rows
      <4> QED BY <1>1, <1>3, <1>4, <3>1, <4>1
    <3>2. CASE m.status = "error"
      <4>1. u \in errors[j]
        BY <1>2, <1>5, <3>2 DEF Rows
      <4> QED BY <1>1, <1>3, <1>4, <3>2, <4>1
    <3> QED BY <1>1, <3>1, <3>2
  <2> QED BY <2>1, <2>2
<1>6. CASE sinserted[s]
  <2> DEFINE d == IF m.status = "ok" THEN 1 ELSE 0
             f == IF m.status = "ok" THEN 0 ELSE 1
  <2> PICK b : b = [total |-> jobs'[j].total, ok |-> articles'[j], bad |-> errors'[j]]
    OBVIOUS
  <2>1. jobs' = [jobs EXCEPT ![j] = Counted(jobs[j], d, f)]
    BY <1>6 DEF ApplyTx
  <2>2. jobs[j] \in JobRow /\ d \in Nat /\ f \in Nat
    BY <1>1, <1>2, <1>3 DEF Exists
  <2> HIDE DEF d, f
  <2>3. Counted(jobs[j], d, f).total = jobs[j].total
    BY <2>2 DEF Counted, JobRow
  <2>4. Counted(jobs[j], d, f) \in JobRow
    BY <2>2, CountedType
  <2>5. jobs'[j] = Counted(jobs[j], d, f)
    BY <1>1, <1>3, <2>1
  <2>6. jobs'[j] \notin {NotCreated, Deleted}
    BY <2>4, <2>5, SentinelAssumption
  <2>7. \A k \in Jobs \ {j} : /\ jobs'[k] = jobs[k]
                              /\ articles'[k] = articles[k]
                              /\ errors'[k] = errors[k]
    BY <1>3, <1>4, <2>1
  <2>8. BoardOf' = [BoardOf EXCEPT ![j] = b] /\ jobs' = [jobs EXCEPT ![j] = Board!Row(b)]
    <3>1. Exists(j)'
      BY <2>6 DEF Exists
    <3> QED BY <1>1, <2>7, <3>1, PostStep
  <2>9. BoardOf[j] = [total |-> jobs[j].total, ok |-> articles[j], bad |-> errors[j]]
    BY <1>1, <1>2 DEF BoardOf, EntryOf
  <2>10. Board!Open(j)
    BY <1>1, <1>2, EntryType
  <2>11. PICK t, a, e : /\ t = jobs[j].total /\ a = articles[j] /\ e = errors[j]
                        /\ BoardOf[j] = [total |-> t, ok |-> a, bad |-> e]
    BY <2>9
  <2>12. CASE m.status = "ok"
    <3>1. u \notin articles[j]
      BY <1>2, <1>6, <2>12 DEF Rows
    <3>2. /\ jobs'[j].total = jobs[j].total
          /\ articles'[j] = articles[j] \cup {u}
          /\ errors'[j] = errors[j]
      BY <1>1, <1>3, <1>4, <2>3, <2>5, <2>12
    <3>3. b = [BoardOf[j] EXCEPT !.ok = @ \cup {u}] /\ u \notin BoardOf[j].ok
      BY <2>11, <3>1, <3>2
    <3> QED BY <2>8, <2>10, <3>3, ArticleAction
  <2>13. CASE m.status = "error"
    <3>1. u \notin errors[j]
      BY <1>2, <1>6, <2>13 DEF Rows
    <3>2. /\ jobs'[j].total = jobs[j].total
          /\ articles'[j] = articles[j]
          /\ errors'[j] = errors[j] \cup {u}
      BY <1>1, <1>3, <1>4, <2>3, <2>5, <2>13
    <3>3. b = [total |-> t, ok |-> a, bad |-> e \cup {u}]
      BY <2>11, <3>2
    <3>4. [[total |-> t, ok |-> a, bad |-> e] EXCEPT !.bad = @ \cup {u}]
             = [total |-> t, ok |-> a, bad |-> e \cup {u}]
      OBVIOUS
    <3>5. u \notin BoardOf[j].bad
      BY <2>11, <3>1
    <3>6. b = [BoardOf[j] EXCEPT !.bad = @ \cup {u}]
      BY <2>11, <3>3, <3>4, Zenon
    <3> QED BY <2>8, <2>10, <3>5, <3>6, ErrorAction
  <2> QED BY <1>1, <2>12, <2>13
<1> QED BY <1>5, <1>6

(***************************************************************************)
(* The environment creates and removes jobs; publishing shows nothing.     *)
(***************************************************************************)
LEMMA EnvRefines ==
    ASSUME SinkInvariant, SinkInvariant', EnvNext
    PROVE  Board!Next \/ UNCHANGED <<jobs, articles, errors>>
<1>0. jobs \in [Jobs -> JobRow \cup {NotCreated, Deleted}]
  BY DEF SinkInvariant, TypeOK
<1>1. ASSUME NEW j \in Jobs, NEW n \in 1..MaxTotal, CreateJob(j, n)
      PROVE  Board!Next
  <2> DEFINE row == [total |-> n, done |-> 0, failed |-> 0, state |-> "queued"]
             b == [total |-> n, ok |-> {}, bad |-> {}]
  <2>1. jobs[j] = NotCreated /\ jobs' = [jobs EXCEPT ![j] = row]
        /\ articles' = articles /\ errors' = errors
    BY <1>1 DEF CreateJob
  <2>2. row \in JobRow /\ row.total = n
    BY ConstantsAssumption DEF JobRow
  <2> HIDE DEF row
  <2>3. jobs'[j] = row /\ \A k \in Jobs \ {j} : jobs'[k] = jobs[k]
    BY <1>0, <2>1
  <2>4. jobs'[j] \notin {NotCreated, Deleted}
    BY <2>2, <2>3, SentinelAssumption
  <2>5. articles'[j] = {} /\ errors'[j] = {}
    BY <2>1 DEF SinkInvariant, RowsHaveJob, Exists
  <2>6. [total |-> jobs'[j].total, ok |-> articles'[j], bad |-> errors'[j]] = b
    BY <2>2, <2>3, <2>5
  <2>7. BoardOf' = [BoardOf EXCEPT ![j] = b] /\ jobs' = [jobs EXCEPT ![j] = Board!Row(b)]
    <3>1. Exists(j)'
      BY <2>4 DEF Exists
    <3> HIDE DEF b
    <3> QED BY <2>1, <2>3, <2>6, <3>1, PostStep
  <2>8. BoardOf[j] = NotCreated
    BY <2>1 DEF BoardOf, EntryOf, Exists
  <2> QED BY <2>7, <2>8, CreateAction
<1>2. ASSUME NEW j \in Jobs, DeleteJob(j)
      PROVE  Board!Next
  <2>1. /\ Exists(j)
        /\ jobs' = [jobs EXCEPT ![j] = Deleted]
        /\ \A k \in Jobs \ {j} : articles'[k] = articles[k] /\ errors'[k] = errors[k]
    BY <1>2 DEF DeleteJob, SinkInvariant, TypeOK
  <2>2. jobs'[j] = Deleted /\ \A k \in Jobs \ {j} : jobs'[k] = jobs[k]
    BY <1>0, <2>1
  <2>3. EntryOf(j)' = Deleted
    BY <2>2 DEF EntryOf, Exists
  <2>4. \A k \in Jobs \ {j} : EntryOf(k)' = EntryOf(k)
    BY <2>1, <2>2 DEF EntryOf, Exists
  <2>5. BoardOf' = [BoardOf EXCEPT ![j] = Deleted]
    BY <2>3, <2>4 DEF BoardOf
  <2>6. Board!Open(j)
    BY <2>1, EntryType
  <2>7. Board!Remove(j)
    BY <2>1, <2>5, <2>6 DEF Board!Remove, BoardOf, EntryOf
  <2> QED BY <2>7 DEF Board!Next
<1>3. ASSUME NEW m \in Event, PublishResult(m)
      PROVE  UNCHANGED <<jobs, articles, errors>>
  BY <1>3 DEF PublishResult, dbVars
<1>4. ASSUME NEW p \in ResultPartitions, PublishGarbage(p)
      PROVE  UNCHANGED <<jobs, articles, errors>>
  BY <1>4 DEF PublishGarbage, dbVars
<1> QED BY <1>1, <1>2, <1>3, <1>4 DEF EnvNext

(***************************************************************************)
(* Of a sink's steps, only a commit touches the tables.                    *)
(***************************************************************************)
LEMMA SinkRefines ==
    ASSUME SinkInvariant, SinkInvariant', SinkNext
    PROVE  Board!Next \/ UNCHANGED <<jobs, articles, errors>>
<1>1. ASSUME NEW s \in Sinks, CommitTx(s) \/ CommitAckLost(s)
      PROVE  Board!Next \/ UNCHANGED <<jobs, articles, errors>>
  BY <1>1, CommitRefines DEF CommitTx, CommitAckLost
<1>2. ASSUME NEW s \in Sinks,
             \/ \E p \in ResultPartitions : Deliver(s, p)
             \/ Connect(s) \/ SelectJob(s) \/ InsertRow(s) \/ QueryRejects(s)
             \/ CommitOffset(s) \/ OffsetRejects(s)
             \/ Shutdown(s) \/ Kill(s) \/ Restart(s)
      PROVE  UNCHANGED <<jobs, articles, errors>>
  BY <1>2 DEF Deliver, Connect, SelectJob, InsertRow, QueryRejects, CommitOffset,
              OffsetRejects, Shutdown, Kill, StopSink, Restart, dbVars
<1>3. ASSUME NEW p \in ResultPartitions, Rebalance(p)
      PROVE  UNCHANGED <<jobs, articles, errors>>
  BY <1>3 DEF Rebalance, EvictResults, AssignResults, dbVars
<1> QED BY <1>1, <1>2, <1>3 DEF SinkNext, Handle

(***************************************************************************)
(* What a client of the sink's tables sees is a behaviour of JobBoard: one *)
(* outcome at a time, none twice, none withdrawn, and the row that goes    *)
(* with them.                                                              *)
(***************************************************************************)
THEOREM SinkImplementsJobBoard == Spec => ImplementsJobBoard
<1>1. Init => Board!Init
  <2> SUFFICES ASSUME Init PROVE Board!Init
    OBVIOUS
  <2>1. jobs = [j \in Jobs |-> NotCreated]
    BY DEF Init
  <2>2. \A j \in Jobs : EntryOf(j) = NotCreated
    BY <2>1 DEF EntryOf, Exists
  <2>3. BoardOf = [j \in Jobs |-> NotCreated]
    BY <2>2 DEF BoardOf
  <2> QED BY <2>1, <2>3 DEF Board!Init, BoardOf, EntryOf
<1>2. ASSUME SinkInvariant, SinkInvariant', [Next]_vars
      PROVE  Board!Next \/ UNCHANGED <<jobs, articles, errors>>
  BY <1>2, SinkRefines, EnvRefines DEF Next, vars, dbVars
<1>3. ASSUME UNCHANGED <<jobs, articles, errors>>
      PROVE  BoardOf' = BoardOf /\ jobs' = jobs
  BY <1>3 DEF BoardOf, EntryOf, Exists
<1>4. SinkInvariant /\ SinkInvariant' /\ [Next]_vars
         => [Board!Next]_<<BoardOf, jobs>>
  BY <1>2, <1>3
<1>5. SinkInvariant /\ SinkInvariant' /\ [Next]_vars
         => [Board!Next]_<<[j \in Jobs |-> IF Exists(j)
                                  THEN [total |-> jobs[j].total,
                                        ok |-> articles[j], bad |-> errors[j]]
                                  ELSE jobs[j]], jobs>>
  BY <1>4 DEF BoardOf, EntryOf
<1> QED BY <1>1, <1>5, SinkInvariantHolds, PTL DEF Spec, ImplementsJobBoard, Board!Spec
-----------------------------------------------------------------------------
(***************************************************************************)
(* For whoever composes the sink with the rest of the service.  What an    *)
(* environment may do: insert a job's row, or add messages to the topic,   *)
(* and count faults; the invariant survives it.                            *)
(***************************************************************************)
LogExtended ==
    /\ results' \in [ResultPartitions -> Seq(Event \cup {Garbage})]
    /\ \A p \in ResultPartitions :
           /\ Len(results'[p]) \in Nat /\ Len(results[p]) <= Len(results'[p])
           /\ \A o \in 1..Len(results[p]) : results'[p][o] = results[p][o]

RowInserted(j, n) ==
    /\ jobs[j] = NotCreated
    /\ jobs' = [jobs EXCEPT ![j] = [total |-> n, done |-> 0, failed |-> 0,
                                    state |-> "queued"]]

FaultsGrow ==
    /\ failures' \in Nat /\ stops' \in Nat /\ evictions' \in Nat
    /\ failures' >= failures /\ stops' >= stops /\ evictions' >= evictions

SinkIdle ==
    UNCHANGED <<articles, errors, rowLock, resCommitted, resOwner, resPosition, sinkVars>>

LEMMA LogExtendedKeeps ==
    ASSUME SinkInvariant, LogExtended, SinkIdle, jobs' = jobs, FaultsGrow
    PROVE  SinkInvariant'
<1>1. /\ UNCHANGED <<articles, errors, rowLock, spc, swork, sinserted>>
      /\ UNCHANGED <<resCommitted, resOwner, resPosition>>
  BY DEF SinkIdle, sinkVars
<1>2. TypeOK'
  BY <1>1 DEF SinkInvariant, TypeOK, LogExtended, FaultsGrow
<1>3. ASSUME NEW s \in Sinks, spc[s] \notin {"idle", "down"}
      PROVE  Msg(s)' = Msg(s) /\ swork[s].off < Len(results'[swork[s].part])
  <2>1. swork[s] \in Work /\ swork[s].off < Len(results[swork[s].part])
    BY <1>3 DEF SinkInvariant, HandlerHasWork
  <2>2. /\ swork[s].part \in ResultPartitions /\ swork[s].off \in Nat
        /\ Len(results[swork[s].part]) \in Nat
    BY <2>1 DEF Work, SinkInvariant, TypeOK
  <2>3. swork[s].off + 1 \in 1..Len(results[swork[s].part])
    BY <2>1, <2>2
  <2>4. /\ results'[swork[s].part][swork[s].off + 1] = results[swork[s].part][swork[s].off + 1]
        /\ Len(results'[swork[s].part]) \in Nat
        /\ Len(results[swork[s].part]) <= Len(results'[swork[s].part])
    BY <2>2, <2>3 DEF LogExtended
  <2>5. Msg(s)' = Msg(s)
    BY <1>1, <2>4 DEF Msg
  <2> QED BY <2>1, <2>2, <2>4, <2>5
<1>4. HandlerHasWork'
  BY <1>1, <1>3 DEF SinkInvariant, HandlerHasWork
<1>5. NoLockLeak' /\ TransactionIsolated'
  BY <1>1, <1>3, HandlersUnchanged DEF sinkVars
<1>6. RowsHaveJob' /\ CountersMatchRows' /\ StateMatchesCounters'
  BY <1>1 DEF SinkInvariant, RowsHaveJob, CountersMatchRows, StateMatchesCounters, Exists
<1> QED BY <1>2, <1>4, <1>5, <1>6 DEF SinkInvariant

LEMMA RowInsertedKeeps ==
    ASSUME SinkInvariant, NEW j \in Jobs, NEW n \in Nat \ {0}, RowInserted(j, n), SinkIdle,
           results' = results, FaultsGrow
    PROVE  SinkInvariant'
<1>1. Consistent'
  BY RowConsistent DEF RowInserted, SinkIdle
<1>2. [total |-> n, done |-> 0, failed |-> 0, state |-> "queued"] \in JobRow
  BY DEF JobRow
<1>3. HandlerHasWork'
  BY WorkUnchanged DEF SinkIdle, SinkInvariant
<1>4. TypeOK'
  BY <1>2 DEF SinkInvariant, TypeOK, RowInserted, SinkIdle, sinkVars, FaultsGrow
<1> QED BY <1>1, <1>3, <1>4 DEF SinkInvariant, Consistent

(***************************************************************************)
(* What the sink's steps do to what it shares: a row of a job changes only *)
(* by Counted, the topic not at all, and faults are counted up.            *)
(***************************************************************************)
CounterMoves ==
    \E j \in Jobs, d \in Nat, f \in Nat :
        jobs[j] \in JobRow /\ jobs' = [jobs EXCEPT ![j] = Counted(jobs[j], d, f)]

LEMMA HandleStep ==
    ASSUME SinkInvariant, NEW s \in Sinks, Handle(s)
    PROVE  results' = results /\ FaultsGrow /\ (jobs' = jobs \/ CounterMoves)
<1>0. failures \in Nat /\ stops \in Nat /\ evictions \in Nat
  BY DEF SinkInvariant, TypeOK
<1>1. CASE CommitTx(s) \/ CommitAckLost(s)
  <2>1. spc[s] = "commit" /\ ApplyTx(s) /\ results' = results /\ FaultsGrow
    BY <1>0, <1>1 DEF CommitTx, CommitAckLost, RemoteFailure, topicVars, faultVars, FaultsGrow
  <2>2. Msg(s) \in Event
    BY <2>1, MsgType DEF SinkInvariant, Typed
  <2>3. Msg(s).job \in Jobs /\ Exists(Msg(s).job)
    BY <2>1, <2>2 DEF Event, SinkInvariant, TransactionIsolated, Isolated
  <2>4. jobs[Msg(s).job] \in JobRow
    BY <2>3 DEF Exists, SinkInvariant, TypeOK
  <2>5. jobs' = jobs \/ CounterMoves
    <3> DEFINE d == IF Msg(s).status = "ok" THEN 1 ELSE 0
               f == IF Msg(s).status = "ok" THEN 0 ELSE 1
               j == Msg(s).job
    <3>1. jobs' = jobs \/ jobs' = [jobs EXCEPT ![j] = Counted(jobs[j], d, f)]
      BY <2>1 DEF ApplyTx
    <3>2. d \in Nat /\ f \in Nat /\ j \in Jobs /\ jobs[j] \in JobRow
      BY <2>3, <2>4
    <3> HIDE DEF d, f, j
    <3> QED BY <3>1, <3>2 DEF CounterMoves
  <2> QED BY <2>1, <2>5
<1>2. CASE ~(CommitTx(s) \/ CommitAckLost(s))
  BY <1>0, <1>2
  DEF Handle, Deliver, Connect, SelectJob, InsertRow, QueryRejects, CommitOffset,
      OffsetRejects, RemoteFailure, dbVars, topicVars, faultVars, FaultsGrow
<1> QED BY <1>1, <1>2

LEMMA LifeStep ==
    ASSUME SinkInvariant,
           \/ \E p \in ResultPartitions : Rebalance(p)
           \/ \E s \in Sinks : StopSink(s) \/ Restart(s)
    PROVE  /\ SinkInvariant' /\ FaultsGrow
           /\ UNCHANGED <<results, jobs, articles, errors>>
<1>0. /\ failures \in Nat /\ stops \in Nat /\ evictions \in Nat
      /\ Typed
  BY DEF SinkInvariant, TypeOK, Typed
<1>1. CASE \E p \in ResultPartitions : Rebalance(p)
  <2>1. FaultsGrow /\ UNCHANGED <<results, jobs, articles, errors>>
    BY <1>0, <1>1 DEF Rebalance, EvictResults, AssignResults, dbVars, faultVars, FaultsGrow
  <2> QED BY <1>0, <1>1, <2>1, TypedRebalance, RebalanceConsistent
          DEF SinkInvariant, Typed, Consistent
<1>2. CASE \E s \in Sinks : StopSink(s) \/ Restart(s)
  <2>1. FaultsGrow /\ UNCHANGED <<results, jobs, articles, errors>>
    BY <1>0, <1>2 DEF StopSink, Restart, dbVars, topicVars, faultVars, FaultsGrow
  <2> QED BY <1>0, <1>2, <2>1, TypedStopSink, TypedRestart, StopConsistent, RestartConsistent
          DEF SinkInvariant, Typed, Consistent
<1> QED BY <1>1, <1>2

LEMMA HandleKeeps ==
    ASSUME SinkInvariant, NEW s \in Sinks, Handle(s)
    PROVE  SinkInvariant'
BY TypedNext, ConsistentNext DEF SinkInvariant, Typed, Consistent, Next, SinkNext

(***************************************************************************)
(* A row of articles or errors comes from a result of the topic.           *)
(***************************************************************************)
InLog(m) == \E p \in ResultPartitions : \E o \in 1..Len(results[p]) : results[p][o] = m

RowsFromLog ==
    \A j \in Jobs, u \in Urls :
        /\ u \in articles[j] => InLog([job |-> j, url |-> u, status |-> "ok"])
        /\ u \in errors[j] => InLog([job |-> j, url |-> u, status |-> "error"])

LEMMA RowsFromLogInit == Init => RowsFromLog
BY DEF Init, RowsFromLog

LEMMA RowsFromLogStays ==
    ASSUME SinkInvariant, RowsFromLog, LogExtended, UNCHANGED <<articles, errors>>
    PROVE  RowsFromLog'
<1>1. ASSUME NEW m, InLog(m)
      PROVE  InLog(m)'
  <2>1. PICK p \in ResultPartitions : \E o \in 1..Len(results[p]) : results[p][o] = m
    BY <1>1 DEF InLog
  <2>2. PICK o \in 1..Len(results[p]) : results[p][o] = m
    BY <2>1
  <2>5. /\ results[p] \in Seq(Event \cup {Garbage})
        /\ results'[p] \in Seq(Event \cup {Garbage})
    BY DEF LogExtended, SinkInvariant, Typed, TypeOK
  <2>6. Len(results[p]) \in Nat /\ Len(results'[p]) \in Nat
    BY <2>5
  <2>7. Len(results[p]) <= Len(results'[p]) /\ results'[p][o] = m
    BY <2>2 DEF LogExtended
  <2>3. /\ results'[p][o] = m /\ Len(results'[p]) \in Nat
        /\ Len(results[p]) <= Len(results'[p]) /\ Len(results[p]) \in Nat
    BY <2>6, <2>7
  <2>4. o \in 1..Len(results'[p])
    BY <2>3
  <2> QED BY <2>3, <2>4 DEF InLog
<1>2. ASSUME NEW j \in Jobs, NEW u \in Urls
      PROVE  /\ u \in articles[j] => InLog([job |-> j, url |-> u, status |-> "ok"])'
             /\ u \in errors[j] => InLog([job |-> j, url |-> u, status |-> "error"])'
  BY <1>1 DEF RowsFromLog
<1> QED BY <1>2 DEF RowsFromLog, InLog

LEMMA LogSame == ASSUME SinkInvariant, results' = results PROVE LogExtended
BY DEF LogExtended, SinkInvariant, TypeOK

LEMMA RowsFromLogStep ==
    ASSUME SinkInvariant, RowsFromLog, NEW s \in Sinks, Handle(s)
    PROVE  RowsFromLog'
<1>1. CASE CommitTx(s) \/ CommitAckLost(s)
  <2>1. spc[s] = "commit" /\ ApplyTx(s) /\ results' = results
    BY <1>1 DEF CommitTx, CommitAckLost, topicVars
  <2>2. Msg(s) \in Event
    BY <2>1, MsgType DEF SinkInvariant, Typed
  <2> DEFINE m == Msg(s)
  <2>3. InLog(m)
    <3>1. swork[s] \in Work /\ swork[s].off < Len(results[swork[s].part])
      BY <2>1 DEF SinkInvariant, HandlerHasWork
    <3>2. /\ swork[s].part \in ResultPartitions /\ swork[s].off \in Nat
          /\ Len(results[swork[s].part]) \in Nat
      BY <3>1 DEF Work, SinkInvariant, TypeOK
    <3>3. swork[s].off + 1 \in 1..Len(results[swork[s].part])
      BY <3>1, <3>2
    <3> QED BY <3>2, <3>3 DEF InLog, Msg
  <2>4. /\ articles' = [articles EXCEPT ![m.job] = IF m.status = "ok" THEN @ \cup {m.url} ELSE @]
        /\ errors' = [errors EXCEPT ![m.job] = IF m.status = "ok" THEN @ ELSE @ \cup {m.url}]
    BY <2>1 DEF ApplyTx
  <2>5. /\ m.job \in Jobs /\ m.status \in {"ok", "error"}
        /\ m = [job |-> m.job, url |-> m.url, status |-> m.status]
    BY <2>2 DEF Event
  <2> HIDE DEF m
  <2>6. ASSUME NEW j \in Jobs, NEW u \in Urls
        PROVE  /\ u \in articles'[j] => InLog([job |-> j, url |-> u, status |-> "ok"])
               /\ u \in errors'[j] => InLog([job |-> j, url |-> u, status |-> "error"])
    <3>1. u \in articles'[j] => u \in articles[j] \/ (j = m.job /\ u = m.url /\ m.status = "ok")
      BY <2>4 DEF SinkInvariant, TypeOK
    <3>2. u \in errors'[j] => u \in errors[j] \/ (j = m.job /\ u = m.url /\ m.status = "error")
      BY <2>4, <2>5 DEF SinkInvariant, TypeOK
    <3> QED BY <2>3, <2>5, <3>1, <3>2 DEF RowsFromLog
  <2> QED BY <2>1, <2>6 DEF RowsFromLog, InLog
<1>2. CASE ~(CommitTx(s) \/ CommitAckLost(s))
  <2>1. UNCHANGED <<articles, errors>>
    BY <1>2
    DEF Handle, Deliver, Connect, SelectJob, InsertRow, QueryRejects, CommitOffset,
        OffsetRejects, dbVars
  <2> QED BY <2>1, HandleStep, LogSame, RowsFromLogStays
<1> QED BY <1>1, <1>2
=============================================================================

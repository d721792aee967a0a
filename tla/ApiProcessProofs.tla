-------------------------- MODULE ApiProcessProofs ---------------------------
(***************************************************************************)
(* What is proved of ApiProcess for any number of migrations, jobs, urls,  *)
(* partitions, kills and rejected calls: what POST /jobs publishes, and    *)
(* that every migration takes effect once, in order and before a request   *)
(* is served.                                                              *)
(*                                                                         *)
(* The first part is about the steps of JobsApi alone.  AggregatorProofs,  *)
(* which composes them with other parts of the system, builds on it too.   *)
(***************************************************************************)
EXTENDS ApiProcess, TLAPS, SequenceTheorems, FiniteSetTheorems
-----------------------------------------------------------------------------
(***************************************************************************)
(* Lemmas about the operators POST /jobs is built from.                    *)
(***************************************************************************)

(***************************************************************************)
(* Rank numbers the members of a finite set of naturals from 1 on, and Nth *)
(* is its inverse.                                                         *)
(***************************************************************************)
LEMMA RankType ==
    ASSUME NEW S \in SUBSET Nat, IsFiniteSet(S), NEW i \in S
    PROVE  Rank(S, i) \in 1..Cardinality(S) /\ Cardinality(S) \in Nat
<1> DEFINE Below == {k \in S : k <= i}
<1>1. IsFiniteSet(Below) /\ Cardinality(Below) <= Cardinality(S)
  BY FS_Subset
<1>2. Cardinality(Below) \in Nat /\ Cardinality(S) \in Nat
  BY <1>1, FS_CardinalityType
<1>3. i \in Below
  OBVIOUS
<1>4. Cardinality(Below) # 0
  BY <1>1, <1>3, FS_EmptySet
<1> QED BY <1>1, <1>2, <1>4 DEF Rank

LEMMA RankInjective ==
    ASSUME NEW S \in SUBSET Nat, IsFiniteSet(S), NEW i \in S, NEW k \in S,
           Rank(S, i) = Rank(S, k)
    PROVE  i = k
<1>1. ASSUME NEW a \in S, NEW b \in S, a < b, Rank(S, a) = Rank(S, b) PROVE FALSE
  <2> DEFINE A == {x \in S : x <= a}
             B == {x \in S : x <= b}
  <2>1. a \in Nat /\ b \in Nat /\ b <= b /\ ~(b <= a)
    BY <1>1
  <2>0. A \subseteq B /\ b \in B /\ b \notin A
    <3>1. ASSUME NEW x \in A PROVE x \in B
      <4>1. x \in Nat /\ x <= a /\ x \in S
        OBVIOUS
      <4> QED BY <1>1, <2>1, <4>1
    <3>2. b \in B
      BY <2>1
    <3>3. b \notin A
      BY <2>1
    <3> QED BY <3>1, <3>2, <3>3
  <2>2. IsFiniteSet(B)
    BY FS_Subset
  <2>3. Cardinality(A) = Cardinality(B)
    BY <1>1 DEF Rank
  <2>4. A = B
    <3> HIDE DEF A, B
    <3> QED BY <2>0, <2>2, <2>3, FS_Subset
  <2> QED BY <2>0, <2>4
<1>2. i \in Nat /\ k \in Nat
  OBVIOUS
<1> QED BY <1>1, <1>2

LEMMA NthOfRank ==
    ASSUME NEW S \in SUBSET Nat, IsFiniteSet(S)
    PROVE  /\ \A n \in 1..Cardinality(S) : Nth(S, n) \in S /\ Rank(S, Nth(S, n)) = n
           /\ \A i \in S : Nth(S, Rank(S, i)) = i
<1> DEFINE N == Cardinality(S)
           f == [i \in S |-> Rank(S, i)]
<1>1. N \in Nat
  BY FS_CardinalityType
<1>2. IsFiniteSet(1..N) /\ Cardinality(1..N) = N
  BY <1>1, FS_Interval
<1>3. f \in Injection(S, 1..N)
  BY RankType, RankInjective DEF Injection, IsInjective
<1>4. f \in Surjection(S, 1..N)
  <2> HIDE DEF f
  <2> QED BY <1>2, <1>3, FS_Injection
<1>5. ASSUME NEW n \in 1..N PROVE \E i \in S : Rank(S, i) = n
  BY <1>4 DEF Surjection
<1>6. ASSUME NEW n \in 1..N PROVE Nth(S, n) \in S /\ Rank(S, Nth(S, n)) = n
  BY <1>5 DEF Nth
<1>7. ASSUME NEW i \in S PROVE Nth(S, Rank(S, i)) = i
  <2>1. Rank(S, i) \in 1..N
    BY RankType
  <2> DEFINE m == Nth(S, Rank(S, i))
  <2>2. m \in S /\ Rank(S, m) = Rank(S, i)
    BY <1>6, <2>1
  <2> HIDE DEF m
  <2>3. m = i
    BY <2>2, RankInjective
  <2> QED BY <2>3 DEF m
<1> QED BY <1>6, <1>7

(***************************************************************************)
(* How often x occurs: in a concatenation, the sum; in a sequence picked   *)
(* from the places K of c, the number of places of K with x.               *)
(***************************************************************************)
LEMMA OccurrencesType ==
    ASSUME NEW T, NEW s \in Seq(T), NEW x
    PROVE  IsFiniteSet({i \in DOMAIN s : s[i] = x}) /\ Occurrences(x, s) \in Nat
<1>1. IsFiniteSet(1..Len(s)) /\ DOMAIN s = 1..Len(s)
  BY FS_Interval
<1>2. IsFiniteSet({i \in DOMAIN s : s[i] = x})
  BY <1>1, FS_Subset
<1> QED BY <1>2, FS_CardinalityType DEF Occurrences

LEMMA OccurrencesConcat ==
    ASSUME NEW T, NEW s \in Seq(T), NEW t \in Seq(T), NEW x
    PROVE  Occurrences(x, s \o t) = Occurrences(x, s) + Occurrences(x, t)
<1> DEFINE A == {i \in DOMAIN s : s[i] = x}
           B == {i \in DOMAIN t : t[i] = x}
           C == {i \in DOMAIN (s \o t) : (s \o t)[i] = x}
           D == {i \in DOMAIN (s \o t) : i > Len(s) /\ (s \o t)[i] = x}
           f == [i \in B |-> i + Len(s)]
<1>1. /\ DOMAIN s = 1..Len(s) /\ DOMAIN t = 1..Len(t) /\ Len(s) \in Nat /\ Len(t) \in Nat
      /\ DOMAIN (s \o t) = 1..(Len(s) + Len(t))
      /\ \A i \in 1..(Len(s) + Len(t)) :
            (s \o t)[i] = IF i <= Len(s) THEN s[i] ELSE t[i - Len(s)]
  BY ConcatProperties
<1>2. C = A \cup D /\ A \cap D = {}
  BY <1>1
<1>3. f \in Bijection(B, D)
  <2>1. f \in [B -> D]
    BY <1>1
  <2>2. \A i, k \in B : f[i] = f[k] => i = k
    BY <1>1
  <2>3. \A d \in D : d - Len(s) \in B /\ f[d - Len(s)] = d
    BY <1>1
  <2> QED BY <2>1, <2>2, <2>3 DEF Bijection, Injection, Surjection, IsInjective
<1>4. IsFiniteSet(A) /\ IsFiniteSet(B)
  BY OccurrencesType
<1>5. IsFiniteSet(D) /\ Cardinality(D) = Cardinality(B)
  <2> HIDE DEF f, B, D
  <2> QED BY <1>3, <1>4, FS_Bijection DEF ExistsBijection
<1>6. Cardinality(A) \in Nat /\ Cardinality(D) \in Nat
  BY <1>4, <1>5, FS_CardinalityType
<1>7. Cardinality(C) = Cardinality(A) + Cardinality(D)
  <2> HIDE DEF A, C, D
  <2>1. Cardinality(C) = Cardinality(A) + Cardinality(D) - Cardinality(A \cap D)
    BY <1>2, <1>4, <1>5, FS_Union
  <2>2. Cardinality(A \cap D) = 0
    BY <1>2, FS_EmptySet
  <2> QED BY <1>6, <2>1, <2>2
<1> QED BY <1>5, <1>7 DEF Occurrences

LEMMA OccurrencesPicked ==
    ASSUME NEW T, NEW c \in Seq(T), NEW K \in SUBSET (DOMAIN c), NEW x
    PROVE  Occurrences(x, [n \in 1..Cardinality(K) |-> c[Nth(K, n)]])
             = Cardinality({i \in K : c[i] = x})
<1> DEFINE N == Cardinality(K)
           picked == [n \in 1..N |-> c[Nth(K, n)]]
           A == {i \in K : c[i] = x}
           B == {n \in DOMAIN picked : picked[n] = x}
           f == [i \in A |-> Rank(K, i)]
<1>1. K \in SUBSET Nat /\ IsFiniteSet(K) /\ IsFiniteSet(A)
  <2>1. IsFiniteSet(DOMAIN c) /\ DOMAIN c \subseteq Nat
    BY FS_Interval
  <2>2. K \in SUBSET Nat /\ IsFiniteSet(K)
    BY <2>1, FS_Subset
  <2> QED BY <2>2, FS_Subset
<1>2. f \in Bijection(A, B)
  <2>1. f \in [A -> B]
    <3> SUFFICES ASSUME NEW i \in A PROVE Rank(K, i) \in B
      OBVIOUS
    <3>1. Rank(K, i) \in 1..N /\ Nth(K, Rank(K, i)) = i
      BY <1>1, RankType, NthOfRank
    <3> QED BY <3>1
  <2>2. \A i, k \in A : f[i] = f[k] => i = k
    BY <1>1, RankInjective
  <2>3. \A n \in B : Nth(K, n) \in A /\ f[Nth(K, n)] = n
    BY <1>1, NthOfRank
  <2> QED BY <2>1, <2>2, <2>3 DEF Bijection, Injection, Surjection, IsInjective
<1>3. Cardinality(B) = Cardinality(A)
  <2> HIDE DEF f, A, B
  <2> QED BY <1>1, <1>2, FS_Bijection DEF ExistsBijection
<1> QED BY <1>3 DEF Occurrences

LEMMA OccurrencesPrefix ==
    ASSUME NEW T, NEW s \in Seq(T), NEW n \in 0..Len(s), NEW x
    PROVE  Occurrences(x, SubSeq(s, 1, n)) <= Occurrences(x, s)
<1> DEFINE A == {i \in DOMAIN SubSeq(s, 1, n) : SubSeq(s, 1, n)[i] = x}
           B == {i \in DOMAIN s : s[i] = x}
<1>1. A \subseteq B
  <2>1. n \in Nat /\ n <= Len(s) /\ Len(s) \in Nat
    OBVIOUS
  <2>2. /\ DOMAIN SubSeq(s, 1, n) = 1..n /\ DOMAIN s = 1..Len(s)
        /\ \A i \in 1..n : SubSeq(s, 1, n)[i] = s[i]
    BY <2>1
  <2> QED BY <2>1, <2>2
<1>2. IsFiniteSet(B)
  BY OccurrencesType
<1> QED
  <2> HIDE DEF A, B
  <2>1. Cardinality(A) <= Cardinality(B)
    BY <1>1, <1>2, FS_Subset
  <2> QED BY <2>1 DEF A, B, Occurrences
-----------------------------------------------------------------------------
(***************************************************************************)
(* PostInvariant says where each POST is and what it has published: before *)
(* its row, nothing; while it sends and when it has answered 200, the row  *)
(* and as much as it has sent; and an answer 500 or none at all, only      *)
(* after a fault.  What is published never exceeds what was listed.        *)
(***************************************************************************)
NothingYet(j) ==
    /\ sent[j] = 0 /\ jobs[j] = NotCreated
    /\ \A u \in Urls : Published(j, u) = 0

SentSoFar(j) ==
    /\ body[j] \in Seq(Urls) /\ jobs[j] # NotCreated
    /\ jobs[j].total = Len(body[j])
    /\ sent[j] <= Len(body[j])
    /\ \A u \in Urls : Published(j, u) = Occurrences(u, SubSeq(body[j], 1, sent[j]))

NeverMore(j) ==
    /\ body[j] \in Seq(Urls)
    /\ \A u \in Urls : Published(j, u) <= Occurrences(u, body[j])

PostAgrees(j) ==
    /\ post[j] \in {"none", "400", "insert"} => NothingYet(j)
    /\ post[j] = "insert" => body[j] \in Seq(Urls) /\ Len(body[j]) > 0
    /\ post[j] \in {"send", "200"} => SentSoFar(j)
    /\ post[j] = "send" => sent[j] < Len(body[j])
    /\ post[j] = "200" => sent[j] = Len(body[j])
    /\ post[j] \in {"500", "cut"} => failures + stops > 0 /\ NeverMore(j)
    /\ jobs[j] # NotCreated => jobs[j].total = Len(body[j])

(***************************************************************************)
(* The producer is gone only in a shutdown, and no request is in progress  *)
(* when no process runs.                                                   *)
(***************************************************************************)
ServerAgrees ==
    /\ server \in {"nosink", "noproducer", "closing"} => stops > 0
    /\ server = "down" => \A j \in Jobs : post[j] \notin InProgress

(***************************************************************************)
(* A request in the topic is one of a job that has a row.                  *)
(***************************************************************************)
RowsFirst ==
    \A p \in RequestPartitions : \A o \in DOMAIN requests[p] :
        jobs[requests[p][o].job] # NotCreated

PostInvariant ==
    /\ TypeOK
    /\ \A j \in Jobs : PostAgrees(j)
    /\ ServerAgrees
    /\ RowsFirst

Sending(j) == SentSoFar(j) /\ sent[j] < Len(body[j])

(***************************************************************************)
(* A chunk carries the next urls of the body, one message each.            *)
(***************************************************************************)
LEMMA ChunkFacts ==
    ASSUME TypeOK, NEW j \in Jobs, Sending(j)
    PROVE  /\ ChunkEnd(j) \in (sent[j] + 1)..Len(body[j])
           /\ sent[j] \in Nat /\ body[j] \in Seq(Urls)
           /\ Chunk(j) \in Seq(Request)
           /\ DOMAIN Chunk(j) = 1..(ChunkEnd(j) - sent[j])
           /\ \A i \in 1..(ChunkEnd(j) - sent[j]) :
                 /\ body[j][sent[j] + i] \in Urls
                 /\ Chunk(j)[i] = [job |-> j, url |-> body[j][sent[j] + i]]
<1>1. /\ sent[j] \in Nat /\ body[j] \in Seq(Urls) /\ Len(body[j]) \in Nat
      /\ sent[j] < Len(body[j])
  BY DEF TypeOK, Sending, SentSoFar
<1>2. ChunkEnd(j) \in (sent[j] + 1)..Len(body[j])
  BY <1>1, ApiAssumption DEF ChunkEnd
<1>3. \A i \in 1..(ChunkEnd(j) - sent[j]) : body[j][sent[j] + i] \in Urls
  BY <1>1, <1>2
<1>4. Chunk(j) \in [1..(ChunkEnd(j) - sent[j]) -> Request]
  BY <1>3 DEF Chunk, Request
<1>5. ChunkEnd(j) - sent[j] \in Nat
  BY <1>1, <1>2
<1>6. Chunk(j) \in Seq(Request)
  BY <1>4, <1>5
<1> QED BY <1>1, <1>2, <1>3, <1>6 DEF Chunk

LEMMA ChunkOnFacts ==
    ASSUME TypeOK, NEW j \in Jobs, Sending(j), NEW p \in RequestPartitions
    PROVE  /\ ChunkOn(j, p) \in Seq(Request)
           /\ \A n \in DOMAIN ChunkOn(j, p) :
                 /\ ChunkOn(j, p)[n].job = j
                 /\ RequestPartition[DomainOf[ChunkOn(j, p)[n].url]] = p
<1> DEFINE K == PlacesOn(j, p)
           N == Cardinality(K)
<1>1. /\ K \subseteq DOMAIN Chunk(j) /\ DOMAIN Chunk(j) \subseteq Nat
      /\ IsFiniteSet(DOMAIN Chunk(j))
  <2> DEFINE m == ChunkEnd(j) - sent[j]
  <2>1. m \in Int /\ DOMAIN Chunk(j) = 1..m
    BY ChunkFacts
  <2>2. IsFiniteSet(1..m) /\ 1..m \subseteq Nat
    <3> HIDE DEF m
    <3> QED BY <2>1, FS_Interval
  <2>3. K \subseteq DOMAIN Chunk(j)
    BY DEF PlacesOn
  <2> QED BY <2>1, <2>2, <2>3
<1>2. IsFiniteSet(K) /\ K \in SUBSET Nat
  BY <1>1, FS_Subset
<1>3. N \in Nat
  BY <1>2, FS_CardinalityType
<1>4. \A n \in 1..N : Nth(K, n) \in K /\ Nth(K, n) \in DOMAIN Chunk(j)
  BY <1>1, <1>2, NthOfRank
<1>5. ASSUME NEW i \in DOMAIN Chunk(j) PROVE Chunk(j)[i] \in Request /\ Chunk(j)[i].job = j
  <2>1. Chunk(j) \in Seq(Request)
    BY ChunkFacts
  <2>2. Chunk(j)[i] = [job |-> j, url |-> body[j][sent[j] + i]]
    BY ChunkFacts
  <2>3. Chunk(j)[i].job = j
    BY <2>2
  <2> QED BY <2>1, <2>3
<1>6. ChunkOn(j, p) \in [1..N -> Request]
  BY <1>4, <1>5 DEF ChunkOn
<1>7. \A n \in 1..N : ChunkOn(j, p)[n].job = j
  BY <1>4, <1>5 DEF ChunkOn
<1>8. \A n \in 1..N : RequestPartition[DomainOf[ChunkOn(j, p)[n].url]] = p
  BY <1>4 DEF ChunkOn, PlacesOn
<1> QED BY <1>3, <1>6, <1>7, <1>8

LEMMA ChunkOnOccurrences ==
    ASSUME TypeOK, NEW j \in Jobs, Sending(j), NEW u \in Urls
    PROVE  Occurrences([job |-> j, url |-> u], ChunkOn(j, RequestPartition[DomainOf[u]]))
             = Occurrences(u, SubSeq(body[j], sent[j] + 1, ChunkEnd(j)))
<1> DEFINE p == RequestPartition[DomainOf[u]]
           K == PlacesOn(j, p)
           r == [job |-> j, url |-> u]
           rest == SubSeq(body[j], sent[j] + 1, ChunkEnd(j))
           c == Chunk(j)
<1>1. Occurrences(r, ChunkOn(j, p)) = Cardinality({i \in K : c[i] = r})
  <2>1. c \in Seq(Request) /\ K \in SUBSET (DOMAIN c)
    BY ChunkFacts DEF PlacesOn
  <2>2. ChunkOn(j, p) = [n \in 1..Cardinality(K) |-> c[Nth(K, n)]]
    BY DEF ChunkOn
  <2> HIDE DEF c, K, p, r
  <2> QED BY <2>1, <2>2, OccurrencesPicked
<1>2. /\ DOMAIN rest = DOMAIN c
      /\ \A i \in DOMAIN c : rest[i] = body[j][sent[j] + i]
  <2> DEFINE a == sent[j] + 1
             b == ChunkEnd(j)
  <2>1. a \in Int /\ b \in Int /\ a <= b /\ DOMAIN c = 1..(b - a + 1)
    BY ChunkFacts
  <2>2. \A i \in a..b : body[j][i] \in Urls
    BY ChunkFacts
  <2>3. /\ rest \in Seq(Urls) /\ Len(rest) = b - a + 1
        /\ \A i \in 1..(b - a + 1) : rest[i] = body[j][a + i - 1]
    <3>1. rest = SubSeq(body[j], a, b)
      OBVIOUS
    <3> HIDE DEF a, b, rest
    <3>2. /\ rest \in Seq(Urls)
          /\ Len(rest) = IF a <= b THEN b - a + 1 ELSE 0
          /\ \A i \in 1..(b - a + 1) : rest[i] = body[j][a + i - 1]
      BY <2>1, <2>2, <3>1, SubSeqProperties
    <3> QED BY <2>1, <3>2
  <2>4. \A i \in 1..(b - a + 1) : a + i - 1 = sent[j] + i
    BY ChunkFacts
  <2> QED BY <2>1, <2>3, <2>4
<1>3. ASSUME NEW i \in DOMAIN c PROVE c[i] = r <=> rest[i] = u
  <2> DEFINE v == body[j][sent[j] + i]
  <2>1. c[i] = [job |-> j, url |-> v]
    BY ChunkFacts
  <2>2. rest[i] = v
    BY <1>2
  <2> HIDE DEF c, v, rest
  <2>3. [job |-> j, url |-> v] = [job |-> j, url |-> u] <=> v = u
    OBVIOUS
  <2> QED BY <2>1, <2>2, <2>3
<1>4. \A i \in DOMAIN c : c[i] = r => i \in K
  BY DEF PlacesOn
<1>5. {i \in K : c[i] = r} = {i \in DOMAIN rest : rest[i] = u}
  BY <1>2, <1>3, <1>4 DEF PlacesOn
<1> QED BY <1>1, <1>5 DEF Occurrences

(***************************************************************************)
(* A chunk of one job, on whichever partitions, leaves the others as they  *)
(* were.                                                                   *)
(***************************************************************************)
LEMMA AppendChunkKeeps ==
    ASSUME TypeOK, RowsFirst, NEW j \in Jobs, Sending(j),
           NEW on \in SUBSET RequestPartitions, AppendChunk(j, on), jobs' = jobs
    PROVE  /\ requests' \in [RequestPartitions -> Seq(Request)]
           /\ RowsFirst'
           /\ \A k \in Jobs \ {j}, u \in Urls : Published(k, u)' = Published(k, u)
<1>0. requests \in [RequestPartitions -> Seq(Request)]
  BY DEF TypeOK
<1>1. /\ DOMAIN requests' = RequestPartitions
      /\ \A p \in RequestPartitions :
            requests'[p] = requests[p] \o ChunkOn(j, p) \/ requests'[p] = requests[p]
  BY DEF AppendChunk
<1>2. ASSUME NEW p \in RequestPartitions PROVE requests'[p] \in Seq(Request)
  <2> DEFINE t == ChunkOn(j, p)
  <2>1. requests[p] \in Seq(Request) /\ t \in Seq(Request)
    BY <1>0, ChunkOnFacts
  <2> HIDE DEF t
  <2>2. requests[p] \o t \in Seq(Request)
    BY <2>1
  <2> QED BY <1>1, <2>1, <2>2 DEF t
<1>3. requests' \in [RequestPartitions -> Seq(Request)]
  BY <1>1, <1>2 DEF AppendChunk
<1>4. RowsFirst'
  <2> SUFFICES ASSUME NEW p \in RequestPartitions, NEW o \in DOMAIN requests'[p]
               PROVE  jobs[requests'[p][o].job] # NotCreated
    BY DEF RowsFirst
  <2>1. \A n \in DOMAIN requests[p] : jobs[requests[p][n].job] # NotCreated
    BY DEF RowsFirst
  <2>2. CASE requests'[p] = requests[p] \o ChunkOn(j, p)
    <3> DEFINE s == requests[p]
               t == ChunkOn(j, p)
    <3>1. s \in Seq(Request) /\ t \in Seq(Request)
      BY <1>0, ChunkOnFacts
    <3>2. /\ o \in 1..(Len(s) + Len(t)) /\ Len(s) \in Nat /\ Len(t) \in Nat
          /\ requests'[p][o] = IF o <= Len(s) THEN s[o] ELSE t[o - Len(s)]
      <4> HIDE DEF s, t
      <4>1. requests'[p] = s \o t
        BY <2>2 DEF s, t
      <4> QED BY <3>1, <4>1, ConcatProperties
    <3>3. CASE o <= Len(s)
      BY <2>1, <3>1, <3>2, <3>3
    <3>4. CASE ~(o <= Len(s))
      <4>1. o - Len(s) \in DOMAIN t
        BY <3>1, <3>2, <3>4
      <4>2. requests'[p][o].job = j
        BY <3>2, <3>4, <4>1, ChunkOnFacts
      <4> QED BY <4>2 DEF Sending, SentSoFar
    <3> QED BY <3>3, <3>4
  <2> QED BY <1>1, <2>1, <2>2
<1>5. ASSUME NEW k \in Jobs \ {j}, NEW u \in Urls
      PROVE  Published(k, u)' = Published(k, u)
  <2> DEFINE p == RequestPartition[DomainOf[u]]
             r == [job |-> k, url |-> u]
             t == ChunkOn(j, p)
  <2>1. p \in RequestPartitions
    BY ApiAssumption
  <2>2. t \in Seq(Request) /\ requests[p] \in Seq(Request)
    BY <1>0, <2>1, ChunkOnFacts
  <2>3. Occurrences(r, t) = 0
    <3>1. {i \in DOMAIN t : t[i] = r} = {}
      BY <2>1, ChunkOnFacts
    <3> HIDE DEF t, r
    <3> QED BY <3>1, FS_EmptySet DEF Occurrences
  <2>4. Occurrences(r, requests[p]) \in Nat
    BY <2>2, OccurrencesType
  <2>5. Occurrences(r, requests[p] \o t) = Occurrences(r, requests[p])
    <3> HIDE DEF t, r, p
    <3> QED BY <2>2, <2>3, <2>4, OccurrencesConcat
  <2>6. Occurrences(r, requests'[p]) = Occurrences(r, requests[p])
    BY <1>1, <2>1, <2>5
  <2> QED BY <2>6 DEF Published, Occurrences
<1> QED BY <1>3, <1>4, <1>5

(***************************************************************************)
(* What is in the topic stays where it is; what comes lies in the          *)
(* partition of its key.                                                   *)
(***************************************************************************)
TopicGrows ==
    /\ requests' \in [RequestPartitions -> Seq(Request)]
    /\ \A q \in RequestPartitions :
           /\ Len(requests'[q]) \in Nat /\ Len(requests[q]) <= Len(requests'[q])
           /\ \A o \in 1..Len(requests[q]) : requests'[q][o] = requests[q][o]
           /\ \A o \in 1..Len(requests'[q]) :
                  \/ o \in 1..Len(requests[q])
                  \/ RequestPartition[DomainOf[requests'[q][o].url]] = q

LEMMA AppendChunkGrows ==
    ASSUME TypeOK, RowsFirst, NEW j \in Jobs, Sending(j),
           NEW on \in SUBSET RequestPartitions, AppendChunk(j, on), jobs' = jobs
    PROVE  TopicGrows
<1>1. requests' \in [RequestPartitions -> Seq(Request)]
  BY AppendChunkKeeps
<1>2. ASSUME NEW q \in RequestPartitions
      PROVE  /\ Len(requests'[q]) \in Nat /\ Len(requests[q]) <= Len(requests'[q])
             /\ \A o \in 1..Len(requests[q]) : requests'[q][o] = requests[q][o]
             /\ \A o \in 1..Len(requests'[q]) :
                    \/ o \in 1..Len(requests[q])
                    \/ RequestPartition[DomainOf[requests'[q][o].url]] = q
  <2> DEFINE s == requests[q]
             t == ChunkOn(j, q)
             r == requests'[q]
  <2>1. /\ s \in Seq(Request) /\ t \in Seq(Request)
        /\ \A n \in DOMAIN t : RequestPartition[DomainOf[t[n].url]] = q
    BY ChunkOnFacts DEF TypeOK
  <2>2. r = s \o t \/ r = s
    BY DEF AppendChunk
  <2> HIDE DEF s, t, r
  <2>3. CASE r = s \o t
    <3>1. /\ Len(s) \in Nat /\ Len(t) \in Nat /\ Len(r) = Len(s) + Len(t)
          /\ \A o \in 1..(Len(s) + Len(t)) : r[o] = IF o <= Len(s) THEN s[o] ELSE t[o - Len(s)]
      BY <2>1, <2>3, ConcatProperties
    <3>2. \A o \in 1..Len(s) : r[o] = s[o]
      BY <3>1
    <3>3. ASSUME NEW o \in 1..Len(r), o \notin 1..Len(s)
          PROVE  RequestPartition[DomainOf[r[o].url]] = q
      <4>1. o - Len(s) \in DOMAIN t /\ r[o] = t[o - Len(s)]
        BY <2>1, <3>1, <3>3
      <4> QED BY <2>1, <4>1
    <3>4. Len(r) \in Nat /\ Len(s) <= Len(r)
      BY <3>1
    <3> QED BY <3>2, <3>3, <3>4 DEF r, s
  <2>4. CASE r = s
    BY <2>1, <2>4 DEF r, s
  <2> QED BY <2>2, <2>3, <2>4
<1> QED BY <1>1, <1>2 DEF TopicGrows

LEMMA AppendChunkPublishes ==
    ASSUME TypeOK, NEW j \in Jobs, Sending(j), NEW on \in SUBSET RequestPartitions,
           AppendChunk(j, on), NEW u \in Urls
    PROVE  Published(j, u)' = IF RequestPartition[DomainOf[u]] \in on
                              THEN Occurrences(u, SubSeq(body[j], 1, ChunkEnd(j)))
                              ELSE Published(j, u)
<1> DEFINE p == RequestPartition[DomainOf[u]]
           r == [job |-> j, url |-> u]
           t == ChunkOn(j, p)
           first == SubSeq(body[j], 1, sent[j])
           rest == SubSeq(body[j], sent[j] + 1, ChunkEnd(j))
<1>1. p \in RequestPartitions
  BY ApiAssumption
<1>2. t \in Seq(Request) /\ requests[p] \in Seq(Request)
  BY <1>1, ChunkOnFacts DEF TypeOK
<1>3. requests'[p] = IF p \in on THEN requests[p] \o t ELSE requests[p]
  BY <1>1 DEF AppendChunk
<1>4. p \in on => Occurrences(r, requests'[p]) = Occurrences(r, requests[p]) + Occurrences(r, t)
  <2> HIDE DEF p, r, t
  <2> QED BY <1>2, <1>3, OccurrencesConcat
<1>5. Occurrences(r, requests[p]) = Occurrences(u, first)
  BY DEF Sending, SentSoFar, Published
<1>6. Occurrences(r, t) = Occurrences(u, rest)
  BY ChunkOnOccurrences
<1>7. first \in Seq(Urls) /\ rest \in Seq(Urls)
  BY ChunkFacts
<1>8. SubSeq(body[j], 1, ChunkEnd(j)) = first \o rest
  <2>1. /\ 1 \in 1..(Len(body[j]) + 1) /\ sent[j] \in (1 - 1)..Len(body[j])
        /\ ChunkEnd(j) \in sent[j]..Len(body[j]) /\ body[j] \in Seq(Urls)
    BY ChunkFacts
  <2> QED BY <2>1, ConcatAdjacentSubSeq
<1>9. Occurrences(u, SubSeq(body[j], 1, ChunkEnd(j))) = Occurrences(u, first) + Occurrences(u, rest)
  <2> HIDE DEF first, rest
  <2> QED BY <1>7, <1>8, OccurrencesConcat
<1>10. Published(j, u)' = Occurrences(r, requests'[p])
  BY DEF Published, Occurrences
<1> QED BY <1>3, <1>4, <1>5, <1>6, <1>9, <1>10 DEF Published

(***************************************************************************)
(* The counters of the faults never fall.                                  *)
(***************************************************************************)
LEMMA FaultsStay ==
    ASSUME NEW a \in Nat, NEW b \in Nat, NEW c \in Nat, NEW d \in Nat, c >= a, d >= b
    PROVE  /\ a + b > 0 => c + d > 0
           /\ a > 0 => c > 0
           /\ b > 0 => d > 0 /\ c + d > 0
OBVIOUS

LEMMA NewFault ==
    ASSUME NEW b \in Nat, NEW c \in Nat, NEW d \in Nat, d = b + 1
    PROVE  c + d > 0
OBVIOUS

LEMMA SentIsNoMore ==
    ASSUME TypeOK, NEW j \in Jobs, SentSoFar(j)
    PROVE  NeverMore(j)
<1>1. body[j] \in Seq(Urls) /\ sent[j] \in 0..Len(body[j])
  BY DEF TypeOK, SentSoFar
<1>2. \A u \in Urls : Published(j, u) <= Occurrences(u, body[j])
  BY <1>1, OccurrencesPrefix DEF SentSoFar
<1> QED BY <1>1, <1>2 DEF NeverMore

LEMMA NothingIsNoMore ==
    ASSUME NEW j \in Jobs, NothingYet(j), body[j] \in Seq(Urls)
    PROVE  NeverMore(j)
<1>1. \A u \in Urls : Occurrences(u, body[j]) \in Nat
  BY OccurrencesType
<1> QED BY <1>1 DEF NeverMore, NothingYet

(***************************************************************************)
(* A job whose POST a step does not touch stays where it is; the counters  *)
(* of its row may move.                                                    *)
(***************************************************************************)
RowKept(k) ==
    \/ jobs'[k] = jobs[k]
    \/ /\ jobs[k] # NotCreated /\ jobs'[k] # NotCreated
       /\ jobs'[k].total = jobs[k].total

LEMMA UntouchedAgrees ==
    ASSUME NEW k \in Jobs, PostAgrees(k),
           post'[k] = post[k], body'[k] = body[k], sent'[k] = sent[k], RowKept(k),
           \A u \in Urls : Published(k, u)' = Published(k, u),
           failures + stops > 0 => failures' + stops' > 0
    PROVE  PostAgrees(k)'
<1>1. NothingYet(k) => NothingYet(k)'
  BY DEF NothingYet, RowKept
<1>2. SentSoFar(k) => SentSoFar(k)'
  BY DEF SentSoFar, Occurrences, RowKept
<1>3. NeverMore(k) => NeverMore(k)'
  BY DEF NeverMore, Occurrences
<1>4. jobs'[k] # NotCreated => jobs'[k].total = Len(body'[k])
  BY DEF PostAgrees, RowKept
<1> QED BY <1>1, <1>2, <1>3, <1>4 DEF PostAgrees

LEMMA PublishedStays ==
    ASSUME requests' = requests
    PROVE  \A k \in Jobs, u \in Urls : Published(k, u)' = Published(k, u)
BY DEF Published, Occurrences

LEMMA RowStays ==
    ASSUME RowsFirst, requests' = requests, TypeOK,
           \A j \in Jobs : jobs[j] # NotCreated => jobs'[j] # NotCreated
    PROVE  RowsFirst'
<1> SUFFICES ASSUME NEW p \in RequestPartitions, NEW o \in DOMAIN requests[p]
             PROVE  jobs'[requests[p][o].job] # NotCreated
  BY DEF RowsFirst
<1>1. requests[p] \in Seq(Request)
  BY DEF TypeOK
<1>2. requests[p][o] \in Request
  BY <1>1
<1>3. requests[p][o].job \in Jobs
  BY <1>2 DEF Request
<1> QED BY <1>3 DEF RowsFirst

LEMMA SubmitKeeps ==
    ASSUME PostInvariant, NEW j \in Jobs, NEW b \in Bodies, Submit(j, b)
    PROVE  PostInvariant'
<1> USE DEF PostInvariant
<1>1. /\ server # "down" /\ post[j] = "none" /\ b \in Seq(Urls)
      /\ post' = [post EXCEPT ![j] = IF Valid(b) THEN "insert" ELSE "400"]
      /\ body' = [body EXCEPT ![j] = b]
      /\ UNCHANGED <<jobs, requests, server, sent, failures, stops>>
  BY ApiAssumption DEF Submit, Goto, Listening
<1>2. TypeOK'
  BY <1>1 DEF TypeOK
<1>3. Valid(b) => Len(b) > 0
  BY <1>1, ApiAssumption DEF Valid
<1>4. ASSUME NEW k \in Jobs PROVE PostAgrees(k)'
  <2>1. CASE k = j
    <3>1. NothingYet(j)'
      BY <1>1, PublishedStays DEF PostAgrees, NothingYet
    <3>2. post'[j] \in {"insert", "400"} /\ (post'[j] = "insert" => Valid(b)) /\ body'[j] = b
      BY <1>1 DEF TypeOK
    <3>3. jobs'[j] = NotCreated
      BY <3>1 DEF NothingYet
    <3> QED BY <1>1, <1>3, <2>1, <3>1, <3>2, <3>3 DEF PostAgrees
  <2>2. CASE k # j
    BY <1>1, <2>2, UntouchedAgrees, PublishedStays DEF TypeOK, RowKept
  <2> QED BY <2>1, <2>2
<1>5. ServerAgrees'
  BY <1>1 DEF ServerAgrees
<1>6. RowsFirst'
  BY <1>1, RowStays
<1> QED BY <1>2, <1>4, <1>5, <1>6

(***************************************************************************)
(* The row of a job that is in progress.                                   *)
(***************************************************************************)
LEMMA InsertKeeps ==
    ASSUME PostInvariant, NEW j \in Jobs, InsertJob(j) \/ InsertRejects(j)
    PROVE  PostInvariant'
<1> USE DEF PostInvariant
<1>0. failures \in Nat /\ stops \in Nat /\ failures' \in Nat /\ failures' >= failures
  BY DEF TypeOK, InsertJob, InsertRejects, RemoteFailure
<1>1. /\ post[j] = "insert" /\ UNCHANGED <<requests, server, body, sent, stops>>
      /\ \/ jobs' = [jobs EXCEPT ![j] = [total |-> Len(body[j]), done |-> 0,
                                         failed |-> 0, state |-> "queued"]]
         \/ jobs' = jobs
  BY DEF InsertJob, InsertRejects, NewRow
<1>2. /\ body[j] \in Seq(Urls) /\ Len(body[j]) > 0 /\ Len(body[j]) \in Nat
      /\ NothingYet(j) /\ jobs[j] = NotCreated /\ sent[j] = 0
  BY <1>1 DEF PostAgrees, NothingYet
<1> DEFINE row == [total |-> Len(body[j]), done |-> 0, failed |-> 0, state |-> "queued"]
<1>3. row \in JobRow /\ row # NotCreated /\ row.total = Len(body[j])
  BY <1>2, ApiAssumption DEF JobRow
<1>4. \/ /\ post' = [post EXCEPT ![j] = "send"] /\ failures' = failures
         /\ jobs' = [jobs EXCEPT ![j] = row]
      \/ post' = [post EXCEPT ![j] = "500"] /\ failures' = failures + 1
  BY DEF InsertJob, InsertRejects, NewRow, Goto, RemoteFailure
<1>5. TypeOK'
  <2>1. jobs' \in [Jobs -> JobRow \cup {NotCreated}]
    <3> HIDE DEF row
    <3> QED BY <1>1, <1>3 DEF TypeOK, row
  <2>2. post' \in [Jobs -> {"none", "400", "insert", "send", "200", "500", "cut"}]
    BY <1>4 DEF TypeOK
  <2> QED BY <1>0, <1>1, <2>1, <2>2 DEF TypeOK
<1>6. ASSUME NEW k \in Jobs PROVE PostAgrees(k)'
  <2>1. CASE k = j
    <3>1. CASE /\ post' = [post EXCEPT ![j] = "send"] /\ failures' = failures
               /\ jobs' = [jobs EXCEPT ![j] = row]
      <4>1. post'[j] = "send" /\ jobs'[j] = row
        BY <3>1 DEF TypeOK
      <4>2. \A u \in Urls : Occurrences(u, SubSeq(body[j], 1, 0)) = 0
        <5>1. SubSeq(body[j], 1, 0) = << >>
          BY <1>2
        <5>2. \A u : {i \in DOMAIN << >> : << >>[i] = u} = {}
          OBVIOUS
        <5> QED BY <5>1, <5>2, FS_EmptySet DEF Occurrences
      <4>3. \A u \in Urls : Published(j, u)' = 0
        BY <1>1, <1>2, PublishedStays DEF NothingYet
      <4>4. SentSoFar(j)'
        <5> HIDE DEF row
        <5>1. \A u \in Urls : Occurrences(u, SubSeq(body[j], 1, 0))' = 0
          BY <1>1, <4>2 DEF Occurrences
        <5>2. body'[j] = body[j] /\ sent'[j] = 0 /\ SubSeq(body[j], 1, 0)' = SubSeq(body[j], 1, 0)
          BY <1>1, <1>2
        <5> QED BY <1>2, <1>3, <4>1, <4>2, <4>3, <5>1, <5>2 DEF SentSoFar, Occurrences
      <4> QED BY <1>1, <1>2, <2>1, <4>1, <4>4 DEF PostAgrees
    <3>2. CASE post' = [post EXCEPT ![j] = "500"] /\ failures' = failures + 1
      <4>1. post'[j] = "500" /\ failures' + stops' > 0
        BY <1>0, <1>1, <3>2 DEF TypeOK
      <4>2. NeverMore(j)'
        <5>1. NeverMore(j)
          BY <1>2, NothingIsNoMore
        <5> QED BY <1>1, <5>1, PublishedStays DEF NeverMore, Occurrences
      <4>3. jobs'[j] # NotCreated => jobs'[j].total = Len(body'[j])
        <5> HIDE DEF row
        <5>1. jobs'[j] = row \/ jobs'[j] = NotCreated
          BY <1>1, <1>2 DEF TypeOK, row
        <5> QED BY <1>1, <1>3, <5>1
      <4> QED BY <2>1, <4>1, <4>2, <4>3 DEF PostAgrees
    <3> QED BY <1>4, <3>1, <3>2
  <2>2. CASE k # j
    <3>1. post'[k] = post[k] /\ jobs'[k] = jobs[k]
      BY <1>1, <1>4, <2>2 DEF TypeOK
    <3>2. failures + stops > 0 => failures' + stops' > 0
      <4>1. stops' \in Nat /\ stops' >= stops
        BY <1>0, <1>1
      <4> QED BY <1>0, <4>1, FaultsStay
    <3> QED BY <1>1, <3>1, <3>2, UntouchedAgrees, PublishedStays DEF RowKept
  <2> QED BY <2>1, <2>2
<1>7. ServerAgrees'
  BY <1>1, <1>0 DEF ServerAgrees, InProgress
<1>8. RowsFirst'
  <2>1. \A k \in Jobs : jobs[k] # NotCreated => jobs'[k] # NotCreated
    BY <1>1, <1>2, <1>3 DEF TypeOK
  <2> QED BY <1>1, <2>1, RowStays
<1> QED BY <1>5, <1>6, <1>7, <1>8

LEMMA SendChunkKeeps ==
    ASSUME PostInvariant, NEW j \in Jobs, SendChunk(j)
    PROVE  PostInvariant'
<1> USE DEF PostInvariant
<1>1. /\ post[j] = "send" /\ server # "down" /\ AppendChunk(j, RequestPartitions)
      /\ sent' = [sent EXCEPT ![j] = ChunkEnd(j)]
      /\ post' = [post EXCEPT ![j] = IF ChunkEnd(j) = Len(body[j]) THEN "200" ELSE "send"]
      /\ UNCHANGED <<jobs, server, body, failures, stops>>
  BY DEF SendChunk, Goto, Producing
<1>2. Sending(j)
  BY <1>1 DEF PostAgrees, Sending
<1>3. ChunkEnd(j) \in Nat /\ ChunkEnd(j) <= Len(body[j]) /\ body[j] \in Seq(Urls)
  BY <1>2, ChunkFacts DEF TypeOK
<1>4. /\ requests' \in [RequestPartitions -> Seq(Request)] /\ RowsFirst'
      /\ \A k \in Jobs \ {j}, u \in Urls : Published(k, u)' = Published(k, u)
  BY <1>1, <1>2, AppendChunkKeeps
<1>5. TypeOK'
  BY <1>1, <1>3, <1>4 DEF TypeOK
<1>6. ASSUME NEW k \in Jobs PROVE PostAgrees(k)'
  <2>1. CASE k = j
    <3>1. /\ sent'[j] = ChunkEnd(j)
          /\ post'[j] = IF ChunkEnd(j) = Len(body[j]) THEN "200" ELSE "send"
      BY <1>1 DEF TypeOK
    <3>2. SentSoFar(j)'
      <4>1. \A u \in Urls : Published(j, u)' = Occurrences(u, SubSeq(body[j], 1, ChunkEnd(j)))
        BY <1>1, <1>2, ApiAssumption, AppendChunkPublishes
      <4>2. \A u \in Urls : Published(j, u)' = Occurrences(u, SubSeq(body[j], 1, sent[j]))'
        BY <1>1, <3>1, <4>1 DEF Occurrences
      <4> QED BY <1>1, <1>2, <1>3, <3>1, <4>2 DEF SentSoFar, Sending
    <3>3. jobs'[j].total = Len(body'[j])
      BY <3>2 DEF SentSoFar
    <3> QED BY <1>1, <1>3, <2>1, <3>1, <3>2, <3>3 DEF PostAgrees
  <2>2. CASE k # j
    <3>1. post'[k] = post[k] /\ sent'[k] = sent[k]
      BY <1>1, <2>2 DEF TypeOK
    <3> QED BY <1>1, <1>4, <2>2, <3>1, UntouchedAgrees DEF RowKept
  <2> QED BY <2>1, <2>2
<1>7. ServerAgrees'
  BY <1>1 DEF ServerAgrees
<1> QED BY <1>4, <1>5, <1>6, <1>7

LEMMA SendRejectsKeeps ==
    ASSUME PostInvariant, NEW j \in Jobs, SendRejects(j)
    PROVE  PostInvariant'
<1> USE DEF PostInvariant
<1>0. failures \in Nat /\ stops \in Nat /\ failures' \in Nat /\ failures' >= failures
  BY DEF TypeOK, SendRejects, RemoteFailure
<1>1. /\ post[j] = "send" /\ post' = [post EXCEPT ![j] = "500"]
      /\ UNCHANGED <<jobs, server, body, sent, stops>>
  BY DEF SendRejects, Goto
<1>2. Sending(j)
  BY <1>1 DEF PostAgrees, Sending
<1>3. /\ requests' \in [RequestPartitions -> Seq(Request)] /\ RowsFirst'
      /\ \A k \in Jobs \ {j}, u \in Urls : Published(k, u)' = Published(k, u)
  <2>1. CASE \E on \in SUBSET RequestPartitions : AppendChunk(j, on)
    BY <1>1, <1>2, <2>1, AppendChunkKeeps
  <2>2. CASE requests' = requests
    BY <1>1, <2>2, RowStays, PublishedStays DEF TypeOK
  <2> QED BY <2>1, <2>2 DEF SendRejects
<1>4. failures' + stops' > 0
  <2>1. CASE failures' = failures + 1
    BY <1>0, <1>1, <2>1
  <2>2. CASE ~Producing
    <3>1. server \in {"noproducer", "closing"}
      BY <1>1, <2>2 DEF Producing, ServerAgrees, InProgress, TypeOK
    <3>2. stops > 0
      BY <3>1 DEF ServerAgrees
    <3>3. stops' \in Nat /\ stops' >= stops
      BY <1>0, <1>1
    <3> QED BY <1>0, <3>2, <3>3, FaultsStay
  <2> QED BY <2>1, <2>2 DEF SendRejects, RemoteFailure
<1>5. TypeOK'
  BY <1>0, <1>1, <1>3 DEF TypeOK
<1>6. ASSUME NEW k \in Jobs PROVE PostAgrees(k)'
  <2>1. CASE k = j
    <3>1. post'[j] = "500"
      BY <1>1 DEF TypeOK
    <3>2. NeverMore(j)'
      <4>1. NeverMore(j)
        BY <1>2, SentIsNoMore DEF Sending
      <4>2. CASE \E on \in SUBSET RequestPartitions : AppendChunk(j, on)
        <5>1. PICK on \in SUBSET RequestPartitions : AppendChunk(j, on)
          BY <4>2
        <5>2. body[j] \in Seq(Urls) /\ ChunkEnd(j) \in 0..Len(body[j])
          BY <1>2, ChunkFacts
        <5>3. \A u \in Urls : Published(j, u)' <= Occurrences(u, body[j])
          BY <1>2, <4>1, <5>1, <5>2, AppendChunkPublishes, OccurrencesPrefix DEF NeverMore
        <5> QED BY <1>1, <5>2, <5>3 DEF NeverMore, Occurrences
      <4>3. CASE requests' = requests
        BY <1>1, <4>1, <4>3, PublishedStays DEF NeverMore, Occurrences
      <4> QED BY <4>2, <4>3 DEF SendRejects
    <3>3. jobs'[j] # NotCreated => jobs'[j].total = Len(body'[j])
      BY <1>1 DEF PostAgrees
    <3> QED BY <1>4, <2>1, <3>1, <3>2, <3>3 DEF PostAgrees
  <2>2. CASE k # j
    <3>1. post'[k] = post[k]
      BY <1>1, <2>2 DEF TypeOK
    <3> QED BY <1>1, <1>3, <1>4, <2>2, <3>1, UntouchedAgrees DEF RowKept
  <2> QED BY <2>1, <2>2
<1>7. ServerAgrees'
  BY <1>1 DEF ServerAgrees, InProgress
<1> QED BY <1>3, <1>5, <1>6, <1>7

(***************************************************************************)
(* Steps of the process, and of its start, leave the posts alone but for   *)
(* the connections a kill cuts.                                            *)
(***************************************************************************)
LEMMA ServerStepKeeps ==
    ASSUME PostInvariant, UNCHANGED <<requests, body, sent>>,
           jobs' \in [Jobs -> JobRow \cup {NotCreated}], \A k \in Jobs : RowKept(k),
           failures' \in Nat, stops' \in Nat, failures' >= failures, stops' >= stops,
           \/ UNCHANGED <<server, post>>
           \/ UNCHANGED post /\ BeginShutdown /\ stops' = stops + 1
           \/ UNCHANGED post /\ (DisconnectProducer \/ CloseServer \/ Exit \/ Start)
           \/ Die /\ stops' = stops + 1
    PROVE  PostInvariant'
<1> USE DEF PostInvariant
<1>0. /\ failures \in Nat /\ stops \in Nat /\ failures' \in Nat /\ stops' \in Nat
      /\ failures' >= failures /\ stops' >= stops
  BY DEF TypeOK
<1>1. TypeOK'
  BY DEF TypeOK, BeginShutdown, DisconnectProducer, CloseServer, Exit, Start, Die
<1>2. ASSUME NEW k \in Jobs PROVE PostAgrees(k)'
  <2>1. CASE post'[k] = post[k]
    <3>1. failures + stops > 0 => failures' + stops' > 0
      BY <1>0, FaultsStay
    <3>2. PostAgrees(k)
      OBVIOUS
    <3> QED BY <2>1, <3>1, <3>2, UntouchedAgrees, PublishedStays
  <2>2. CASE post'[k] = "cut" /\ Die /\ stops' = stops + 1
    <3>0. stops' = stops + 1
      BY <2>2
    <3>1. failures' + stops' > 0
      BY <1>0, <3>0, NewFault
    <3>2. post[k] \in InProgress \/ post[k] = "cut"
      BY <2>2 DEF Die, InProgress
    <3>3. NeverMore(k)
      BY <3>2, SentIsNoMore, NothingIsNoMore DEF PostAgrees, InProgress
    <3>4. NeverMore(k)'
      BY <3>3, PublishedStays DEF NeverMore, Occurrences
    <3>5. jobs'[k] # NotCreated => jobs'[k].total = Len(body'[k])
      BY DEF PostAgrees, RowKept
    <3> QED BY <2>2, <3>1, <3>4, <3>5 DEF PostAgrees
  <2> QED BY <2>1, <2>2 DEF Die
<1>3. ServerAgrees'
  <2>1. CASE Die /\ stops' = stops + 1
    <3>1. \A k \in Jobs : post'[k] \notin InProgress
      BY <2>1 DEF Die, InProgress
    <3>2. server' = "down"
      BY <2>1 DEF Die
    <3> QED BY <3>1, <3>2 DEF ServerAgrees
  <2>2. CASE UNCHANGED post
    <3>1. stops > 0 => stops' > 0
      BY <1>0, FaultsStay
    <3>2. CASE UNCHANGED server
      BY <2>2, <3>1, <3>2 DEF ServerAgrees
    <3>3. CASE BeginShutdown /\ stops' = stops + 1
      <4>1. server' = "nosink" /\ stops' > 0
        BY <1>0, <3>3 DEF BeginShutdown
      <4> QED BY <4>1 DEF ServerAgrees
    <3>4. CASE DisconnectProducer \/ CloseServer
      BY <3>1, <3>4 DEF ServerAgrees, DisconnectProducer, CloseServer
    <3>5. CASE Exit \/ Start
      BY <2>2, <3>5 DEF ServerAgrees, Exit, Start
    <3> QED BY <2>1, <3>2, <3>3, <3>4, <3>5
  <2> QED BY <2>1, <2>2
<1>4. RowsFirst'
  BY RowStays DEF RowKept
<1> QED BY <1>1, <1>2, <1>3, <1>4

(***************************************************************************)
(* Any step of a POST; and what it does to the row and to the topic.       *)
(***************************************************************************)
LEMMA PostKeeps ==
    ASSUME PostInvariant, PostNext
    PROVE  PostInvariant'
BY SubmitKeeps, InsertKeeps, SendChunkKeeps, SendRejectsKeeps DEF PostNext

LEMMA PostMoves ==
    ASSUME PostInvariant, PostNext
    PROVE  /\ TopicGrows
           /\ \/ jobs' = jobs
              \/ \E j \in Jobs, n \in Nat \ {0} :
                    /\ jobs[j] = NotCreated
                    /\ jobs' = [jobs EXCEPT ![j] = [total |-> n, done |-> 0, failed |-> 0,
                                                    state |-> "queued"]]
           /\ failures' \in Nat /\ failures' >= failures /\ stops' = stops
<1> USE DEF PostInvariant
<1>0. PICK j \in Jobs : \/ \E b \in Bodies : Submit(j, b)
                        \/ InsertJob(j) \/ InsertRejects(j)
                        \/ SendChunk(j) \/ SendRejects(j)
  BY DEF PostNext
<1>1. requests' = requests => TopicGrows
  BY DEF TopicGrows, TypeOK
<1>2. CASE \E b \in Bodies : Submit(j, b)
  BY <1>1, <1>2 DEF Submit, TypeOK
<1>3. CASE InsertJob(j) \/ InsertRejects(j)
  <2>1. post[j] = "insert" /\ requests' = requests /\ stops' = stops
    BY <1>3 DEF InsertJob, InsertRejects
  <2>2. jobs[j] = NotCreated /\ Len(body[j]) \in Nat \ {0}
    BY <2>1 DEF PostAgrees, NothingYet
  <2>3. jobs' = jobs \/ NewRow(j)
    BY <1>3 DEF InsertJob, InsertRejects
  <2>4. failures' \in Nat /\ failures' >= failures
    BY <1>3 DEF InsertJob, InsertRejects, RemoteFailure, TypeOK
  <2> QED BY <1>1, <2>1, <2>2, <2>3, <2>4 DEF NewRow
<1>4. CASE SendChunk(j) \/ SendRejects(j)
  <2>1. post[j] = "send" /\ jobs' = jobs /\ stops' = stops
    BY <1>4 DEF SendChunk, SendRejects
  <2>2. Sending(j)
    BY <2>1 DEF PostAgrees, Sending
  <2>3. requests' = requests \/ \E on \in SUBSET RequestPartitions : AppendChunk(j, on)
    BY <1>4 DEF SendChunk, SendRejects
  <2>4. failures' \in Nat /\ failures' >= failures
    BY <1>4 DEF SendChunk, SendRejects, RemoteFailure, TypeOK
  <2> QED BY <1>1, <2>1, <2>2, <2>3, <2>4, AppendChunkGrows
<1> QED BY <1>0, <1>2, <1>3, <1>4

LEMMA NothingPostedAgrees ==
    ASSUME NothingPosted, server \in {"up", "down"}
    PROVE  PostInvariant
<1>0. /\ jobs = [j \in Jobs |-> NotCreated]
      /\ requests = [p \in RequestPartitions |-> <<>>]
      /\ post = [j \in Jobs |-> "none"] /\ body = [j \in Jobs |-> NoBody]
      /\ sent = [j \in Jobs |-> 0] /\ failures = 0 /\ stops = 0
  BY DEF NothingPosted
<1>1. TypeOK
  BY <1>0 DEF TypeOK
<1>2. ASSUME NEW j \in Jobs PROVE PostAgrees(j)
  <2>1. ASSUME NEW u \in Urls PROVE Published(j, u) = 0
    <3> DEFINE s == requests[RequestPartition[DomainOf[u]]]
               r == [job |-> j, url |-> u]
    <3>1. s = <<>>
      BY <1>0, ApiAssumption
    <3>2. {i \in DOMAIN s : s[i] = r} = {}
      BY <3>1
    <3> QED BY <3>2, FS_EmptySet DEF Published, Occurrences
  <2> QED BY <1>0, <2>1 DEF PostAgrees, NothingYet
<1>3. ServerAgrees
  BY <1>0 DEF ServerAgrees, InProgress
<1>4. RowsFirst
  BY <1>0 DEF RowsFirst
<1> QED BY <1>1, <1>2, <1>3, <1>4 DEF PostInvariant

(***************************************************************************)
(* What the invariant says of a job that has a row.                        *)
(***************************************************************************)
LEMMA RowIsNoMore ==
    ASSUME PostInvariant, NEW j \in Jobs, jobs[j] # NotCreated
    PROVE  /\ NeverMore(j)
           /\ failures + stops = 0 => jobs[j].total = Len(body[j])
<1>1. PostAgrees(j) /\ TypeOK
  BY DEF PostInvariant
<1>2. post[j] \in {"send", "200", "500", "cut"}
  BY <1>1 DEF PostAgrees, NothingYet, TypeOK
<1> QED BY <1>1, <1>2, SentIsNoMore DEF PostAgrees, SentSoFar

LEMMA AnsweredIsPublished ==
    ASSUME NEW j \in Jobs, PostAgrees(j), post[j] = "200"
    PROVE  FullyPublished(j)
<1>1. SentSoFar(j) /\ sent[j] = Len(body[j])
  BY DEF PostAgrees
<1>2. body[j] \in Seq(Urls) /\ SubSeq(body[j], 1, Len(body[j])) = body[j]
  BY <1>1 DEF SentSoFar
<1> QED BY <1>1, <1>2 DEF SentSoFar, FullyPublished
-----------------------------------------------------------------------------
(***************************************************************************)
(* How a process starts.  BootInvariant relates the run in progress to the *)
(* database.  The ids it has read are those of the migrations done when it *)
(* read them; no other process runs, so what was done since is what the    *)
(* run itself has done.                                                    *)
(***************************************************************************)
Done == Len(schema)

BootTypeOK ==
    /\ files \in Nat /\ file \in Nat
    /\ recorded \in SUBSET Nat /\ already \in SUBSET Nat
    /\ schema \in Seq(Nat)
    /\ at \in {"off", "ready", "ensure", "applied", "next", "sql", "record",
               "commit", "connect", "listen", "serving"}

(***************************************************************************)
(* The database: migrations 1 to Done have taken effect and are recorded.  *)
(***************************************************************************)
StoredInOrder ==
    /\ schema = [i \in 1..Done |-> i]
    /\ recorded = 1..Done
    /\ Done <= files

(***************************************************************************)
(* The run: while it goes through the files, it has come to the first that *)
(* is missing or to one of those it knows.                                 *)
(***************************************************************************)
RunAgrees ==
    /\ at = "next" =>
          \E n \in Nat : /\ already = 1..n
                         /\ Done = IF file <= n THEN n ELSE file - 1
    /\ at \in {"next", "sql", "record", "commit"} => file > 0
    /\ at \in {"sql", "record", "commit"} =>
          /\ file = Done + 1 /\ file <= files
          /\ \E n \in Nat : already = 1..n /\ n <= Done
    /\ at \in {"connect", "listen", "serving"} => Done = files
    /\ server # "down" => at = "serving"

BootInvariant == BootTypeOK /\ StoredInOrder /\ RunAgrees

(***************************************************************************)
(* One migration more.                                                     *)
(***************************************************************************)
LEMMA CommittedStep ==
    ASSUME BootTypeOK, StoredInOrder, file = Done + 1, file <= files, Committed
    PROVE  /\ schema' \in Seq(Nat) /\ recorded' \in SUBSET Nat
           /\ StoredInOrder' /\ Done' = file
<1>1. schema' = Append(schema, file) /\ recorded' = recorded \cup {file} /\ files' = files
  BY DEF Committed
<1>2. Done \in Nat /\ schema \in Seq(Nat) /\ file \in Nat
  BY DEF BootTypeOK, Done
<1>3. schema' \in Seq(Nat) /\ Len(schema') = Done + 1
  BY <1>1, <1>2 DEF Done
<1>4. \A i \in 1..(Done + 1) : schema'[i] = i
  <2> SUFFICES ASSUME NEW i \in 1..(Done + 1) PROVE schema'[i] = i
    OBVIOUS
  <2>1. CASE i = Done + 1
    BY <1>1, <1>2, <2>1 DEF Done
  <2>2. CASE i \in 1..Done
    <3>1. schema'[i] = schema[i]
      BY <1>1, <1>2, <2>2 DEF Done
    <3> QED BY <2>2, <3>1 DEF StoredInOrder
  <2> QED BY <1>2, <2>1, <2>2
<1>5. schema' = [i \in 1..(Done + 1) |-> i]
  BY <1>3, <1>4
<1>6. recorded' = 1..(Done + 1)
  BY <1>1, <1>2 DEF StoredInOrder
<1> QED BY <1>1, <1>2, <1>3, <1>5, <1>6 DEF StoredInOrder, Done

LEMMA StoredStays ==
    ASSUME BootTypeOK, StoredInOrder, UNCHANGED <<schema, recorded>>,
           files' \in Nat, files' >= files
    PROVE  StoredInOrder' /\ Done' = Done /\ Done \in Nat
BY DEF BootTypeOK, StoredInOrder, Done

(***************************************************************************)
(* The process ends: what was committed stays, and nothing else does.      *)
(***************************************************************************)
LEMMA EndStep ==
    ASSUME BootInvariant, at' = "off", server' = "down", UNCHANGED <<already, file>>,
           (at = "commit" /\ Committed) \/ UNCHANGED stored
    PROVE  BootInvariant'
<1>1. CASE at = "commit" /\ Committed
  <2>1. file = Done + 1 /\ file <= files
    BY <1>1 DEF BootInvariant, RunAgrees
  <2> QED BY <1>1, <2>1, CommittedStep
          DEF BootInvariant, BootTypeOK, RunAgrees, Committed
<1>2. CASE UNCHANGED stored
  BY <1>2, StoredStays DEF BootInvariant, BootTypeOK, RunAgrees, stored
<1> QED BY <1>1, <1>2

LEMMA BootStepKeeps ==
    ASSUME BootInvariant, BootStep \/ Deploy, UNCHANGED vars
    PROVE  BootInvariant'
<1> USE DEF BootInvariant
<1>0. Done \in Nat /\ server' = server
  BY DEF BootTypeOK, Done, vars
<1>1. CASE Deploy
  <2>1. /\ at = "off" /\ at' = "off" /\ files' = files + 1
        /\ UNCHANGED <<recorded, schema, already, file>>
    BY <1>1 DEF Deploy
  <2>2. files \in Nat
    BY DEF BootTypeOK
  <2>3. StoredInOrder'
    BY <2>1, <2>2, StoredStays
  <2> QED BY <1>0, <2>1, <2>2, <2>3 DEF BootTypeOK, RunAgrees
<1>2. CASE Launch \/ Ready \/ EnsureMigrationsTable
  <2>1. /\ UNCHANGED <<files, recorded, schema, already, file>>
        /\ at' \in {"ready", "ensure", "applied"} /\ at \in {"off", "ready", "ensure"}
    BY <1>2 DEF Launch, Ready, EnsureMigrationsTable, stored
  <2> QED BY <1>0, <2>1, StoredStays DEF BootTypeOK, RunAgrees
<1>3. CASE AppliedIds
  <2>1. /\ UNCHANGED <<files, recorded, schema>>
        /\ at = "applied" /\ at' = "next" /\ already' = recorded /\ file' = 1
    BY <1>3 DEF AppliedIds, stored
  <2>2. StoredInOrder' /\ Done' = Done
    BY <2>1, StoredStays DEF BootTypeOK
  <2>3. already' = 1..Done /\ Done = IF 1 <= Done THEN Done ELSE 1 - 1
    BY <1>0, <2>1 DEF StoredInOrder
  <2> QED BY <1>0, <2>1, <2>2, <2>3 DEF BootTypeOK, RunAgrees
<1>4. CASE SkipApplied
  <2>1. /\ UNCHANGED <<files, recorded, schema, at, already>>
        /\ at = "next" /\ file \in already /\ file' = file + 1
    BY <1>4 DEF SkipApplied, stored
  <2>2. StoredInOrder' /\ Done' = Done
    BY <2>1, StoredStays DEF BootTypeOK
  <2>3. PICK n \in Nat : already = 1..n /\ Done = IF file <= n THEN n ELSE file - 1
    BY <2>1 DEF RunAgrees
  <2>4. file \in Nat /\ file <= n /\ Done = n
    BY <2>1, <2>3 DEF BootTypeOK
  <2>5. Done = IF file' <= n THEN n ELSE file' - 1
    BY <2>1, <2>4
  <2>6. at' = "next" /\ server' = "down"
    BY <1>0, <2>1 DEF RunAgrees
  <2>7. already' = 1..n /\ Done' = IF file' <= n THEN n ELSE file' - 1
    BY <2>1, <2>2, <2>3, <2>5
  <2>8. file' \in Nat /\ file' > 0 /\ BootTypeOK'
    BY <2>1, <2>4 DEF BootTypeOK
  <2>9. RunAgrees'
    BY <2>6, <2>7, <2>8 DEF RunAgrees
  <2> QED BY <2>2, <2>8, <2>9
<1>5. CASE BeginMigration
  <2>1. /\ UNCHANGED <<files, recorded, schema, already, file>>
        /\ at = "next" /\ at' = "sql" /\ file <= files /\ file \notin already
    BY <1>5 DEF BeginMigration, stored
  <2>2. StoredInOrder' /\ Done' = Done
    BY <2>1, StoredStays DEF BootTypeOK
  <2>3. PICK n \in Nat : already = 1..n /\ Done = IF file <= n THEN n ELSE file - 1
    BY <2>1 DEF RunAgrees
  <2>4. file \in Nat /\ file > 0
    BY <2>1 DEF BootTypeOK, RunAgrees
  <2>5. file = Done + 1 /\ n <= Done
    BY <2>1, <2>3, <2>4
  <2> QED BY <1>0, <2>1, <2>2, <2>3, <2>4, <2>5 DEF BootTypeOK, RunAgrees
<1>6. CASE RunSql \/ RecordId
  <2>1. /\ UNCHANGED <<files, recorded, schema, already, file>>
        /\ at \in {"sql", "record"} /\ at' \in {"record", "commit"}
    BY <1>6 DEF RunSql, RecordId, stored
  <2>2. StoredInOrder' /\ Done' = Done
    BY <2>1, StoredStays DEF BootTypeOK
  <2> QED BY <1>0, <2>1, <2>2 DEF BootTypeOK, RunAgrees
<1>7. CASE Commit
  <2>1. /\ Committed /\ UNCHANGED <<files, already>>
        /\ at = "commit" /\ at' = "next" /\ file' = file + 1
    BY <1>7 DEF Commit, Committed
  <2>2. file = Done + 1 /\ file <= files
    BY <2>1 DEF RunAgrees
  <2>3. /\ schema' \in Seq(Nat) /\ recorded' \in SUBSET Nat
        /\ StoredInOrder' /\ Done' = file
    BY <2>1, <2>2, CommittedStep
  <2>4. PICK n \in Nat : already = 1..n /\ n <= Done
    BY <2>1 DEF RunAgrees
  <2>5. Done' = IF file' <= n THEN n ELSE file' - 1
    BY <1>0, <2>1, <2>2, <2>3, <2>4
  <2> QED BY <1>0, <2>1, <2>2, <2>3, <2>4, <2>5 DEF BootTypeOK, RunAgrees
<1>8. CASE Migrated
  <2>1. /\ UNCHANGED <<files, recorded, schema, already, file>>
        /\ at = "next" /\ at' = "connect" /\ file > files /\ file \notin already
    BY <1>8 DEF Migrated, stored
  <2>2. StoredInOrder' /\ Done' = Done
    BY <2>1, StoredStays DEF BootTypeOK
  <2>3. PICK n \in Nat : already = 1..n /\ Done = IF file <= n THEN n ELSE file - 1
    BY <2>1 DEF RunAgrees
  <2>4. file \in Nat /\ files \in Nat /\ Done <= files
    BY DEF BootTypeOK, StoredInOrder
  <2>5. Done = files
    BY <1>0, <2>1, <2>3, <2>4
  <2> QED BY <1>0, <2>1, <2>2, <2>5 DEF BootTypeOK, RunAgrees
<1>9. CASE Connect
  <2>1. /\ UNCHANGED <<files, recorded, schema, already, file>>
        /\ at = "connect" /\ at' = "listen"
    BY <1>9 DEF Connect, stored
  <2> QED BY <1>0, <2>1, StoredStays DEF BootTypeOK, RunAgrees
<1> QED BY <1>1, <1>2, <1>3, <1>4, <1>5, <1>6, <1>7, <1>8, <1>9 DEF BootStep

LEMMA BootInvariantNext ==
    ASSUME BootInvariant, [ProcessNext]_processVars
    PROVE  BootInvariant'
<1>1. CASE Boots
  BY <1>1, BootStepKeeps DEF Boots
<1>2. CASE BootFails \/ KilledBooting
  <2>1. server = "down" /\ server' = server
    BY <1>2 DEF BootFails, KilledBooting, BootRejects, Booting, BootInvariant, RunAgrees
  <2> QED BY <1>2, <2>1, EndStep DEF BootFails, KilledBooting, BootRejects, End
<1>3. CASE Serve
  <2>1. /\ UNCHANGED <<files, recorded, schema, already, file>>
        /\ at = "listen" /\ at' = "serving"
    BY <1>3 DEF Serve, Listen, stored
  <2> QED BY <2>1, StoredStays DEF BootInvariant, BootTypeOK, RunAgrees
<1>4. CASE (Stops \/ Exits) /\ End
  <2>1. /\ at # "off" /\ at' = "off" /\ UNCHANGED <<already, file>>
        /\ (at = "commit" /\ Committed) \/ UNCHANGED stored
    BY <1>4 DEF End
  <2>2. CASE server' = "down"
    BY <2>1, <2>2, EndStep
  <2>3. CASE UNCHANGED bootVars
    BY <2>1, <2>3 DEF bootVars
  <2> QED BY <1>4, <2>2, <2>3 DEF Stops, Exits, Die, Exit
<1>5. ASSUME UNCHANGED bootVars, server # "down" \/ server' = server
      PROVE  BootInvariant'
  BY <1>5 DEF bootVars, BootInvariant, BootTypeOK, StoredInOrder, RunAgrees, Done
<1>6. CASE Serving \/ (Stops /\ UNCHANGED bootVars) \/ UNCHANGED processVars
  <2>1. server # "down" \/ server' = server
    BY <1>6
    DEF Serving, Stops, BeginShutdown, Die, DisconnectProducer, CloseServer, PostNext,
        Submit, InsertJob, InsertRejects, SendChunk, SendRejects, processVars, vars
  <2> QED BY <1>5, <1>6, <2>1 DEF Serving, processVars
<1> QED BY <1>1, <1>2, <1>3, <1>4, <1>6 DEF ProcessNext, Stops, Exits

LEMMA BootInvariantInit == ProcessInit => BootInvariant
<1> SUFFICES ASSUME ProcessInit PROVE BootInvariant
  OBVIOUS
<1>1. /\ files = 1 /\ recorded = {} /\ schema = <<>> /\ at = "off"
      /\ already = {} /\ file = 0 /\ server = "down"
  BY DEF ProcessInit, BootInit, Init
<1>2. Done = 0
  BY <1>1 DEF Done
<1> QED BY <1>1, <1>2 DEF BootInvariant, BootTypeOK, StoredInOrder, RunAgrees

(***************************************************************************)
(* Whatever starts are cut short and whatever images follow each other,    *)
(* each migration takes effect once, in order, is recorded exactly if it   *)
(* did, and no request is served before all of the image's have.           *)
(***************************************************************************)
THEOREM EachMigrationOnce == ProcessSpec => []MigratedOnceBeforeServing
<1>1. BootInvariant => MigratedOnceBeforeServing
  BY DEF BootInvariant, StoredInOrder, RunAgrees, MigratedOnceBeforeServing, Done
<1> QED BY <1>1, BootInvariantInit, BootInvariantNext, PTL DEF ProcessSpec
-----------------------------------------------------------------------------
LEMMA PostInvariantNext ==
    ASSUME PostInvariant, [ProcessNext]_processVars
    PROVE  PostInvariant'
<1>0. /\ failures \in Nat /\ stops \in Nat
      /\ jobs' = jobs =>
            jobs' \in [Jobs -> JobRow \cup {NotCreated}] /\ \A k \in Jobs : RowKept(k)
  BY DEF PostInvariant, TypeOK, RowKept
<1>1. CASE PostNext
  BY <1>1, PostKeeps
<1>2. CASE Boots \/ BootFails \/ KilledBooting \/ UNCHANGED processVars
  <2>1. /\ UNCHANGED <<jobs, requests, server, post, body, sent>>
        /\ failures' \in Nat /\ stops' \in Nat /\ failures' >= failures /\ stops' >= stops
    BY <1>0, <1>2
    DEF Boots, BootFails, KilledBooting, RemoteFailure, processVars, vars, postVars
  <2> QED BY <1>0, <2>1, ServerStepKeeps
<1>3. CASE Serve \/ Exits \/ (Serving /\ ~PostNext)
  <2>1. /\ UNCHANGED <<jobs, requests, body, sent, post, failures, stops>>
        /\ DisconnectProducer \/ CloseServer \/ Exit \/ Start
    BY <1>3
    DEF Serve, Exits, Serving, DisconnectProducer, CloseServer, Exit, Start, postVars
  <2> QED BY <1>0, <2>1, ServerStepKeeps
<1>4. CASE Stops
  <2>1. /\ UNCHANGED <<jobs, requests, body, sent, failures>> /\ stops' = stops + 1
        /\ (UNCHANGED post /\ BeginShutdown) \/ Die
    BY <1>4 DEF Stops, BeginShutdown, Die, postVars
  <2> QED BY <1>0, <2>1, ServerStepKeeps
<1> QED BY <1>1, <1>2, <1>3, <1>4 DEF ProcessNext

LEMMA PostInvariantInit == ProcessInit => PostInvariant
BY NothingPostedAgrees DEF ProcessInit, Init

LEMMA PostInvariantHolds == ProcessSpec => []PostInvariant
BY PostInvariantInit, PostInvariantNext, PTL DEF ProcessSpec

(***************************************************************************)
(* Every 200 is the truth, with any number of requests in progress, of     *)
(* urls, partitions, failures and stops, and chunks of any size: the       *)
(* job's row is there and each url was published as often as it was        *)
(* listed.                                                                 *)
(***************************************************************************)
THEOREM AcceptedJobsArePublished == ProcessSpec => []AcceptedMeansPublished
<1>1. PostInvariant => AcceptedMeansPublished
  BY AnsweredIsPublished DEF PostInvariant, AcceptedMeansPublished, PostAgrees, SentSoFar
<1> QED BY <1>1, PostInvariantHolds, PTL

(***************************************************************************)
(* Before any crawl request of a job, its row is there, with the length of *)
(* the whole posted list as its total.                                     *)
(***************************************************************************)
THEOREM RowsComeFirst == ProcessSpec => []RowBeforeRequests
<1>1. ASSUME PostInvariant PROVE RowBeforeRequests
  <2> SUFFICES ASSUME NEW p \in RequestPartitions, NEW o \in DOMAIN requests[p]
               PROVE  /\ jobs[requests[p][o].job] # NotCreated
                      /\ jobs[requests[p][o].job].total = Len(body[requests[p][o].job])
    BY DEF RowBeforeRequests
  <2>1. requests[p] \in Seq(Request)
    BY <1>1 DEF PostInvariant, TypeOK
  <2>2. requests[p][o] \in Request
    BY <2>1
  <2>3. requests[p][o].job \in Jobs
    BY <2>2 DEF Request
  <2>4. jobs[requests[p][o].job] # NotCreated
    BY <1>1 DEF PostInvariant, RowsFirst
  <2> QED BY <1>1, <2>3, <2>4 DEF PostInvariant, PostAgrees
<1> QED BY <1>1, PostInvariantHolds, PTL

(***************************************************************************)
(* A job that can never be done takes a rejected call, a kill or a         *)
(* shutdown.                                                               *)
(***************************************************************************)
THEOREM OrphansTakeFaults == ProcessSpec => []OrphansNeedFaults
<1>1. PostInvariant => OrphansNeedFaults
  <2> SUFFICES ASSUME PostInvariant, NEW j \in Jobs, jobs[j] # NotCreated,
                      post[j] \notin InProgress, ~FullyPublished(j)
               PROVE  failures + stops > 0
    BY DEF OrphansNeedFaults
  <2>1. PostAgrees(j) /\ post[j] \in {"none", "400", "insert", "send", "200", "500", "cut"}
    BY DEF PostInvariant, TypeOK
  <2>2. post[j] # "200"
    BY <2>1, AnsweredIsPublished
  <2> QED BY <2>1, <2>2 DEF PostAgrees, NothingYet, InProgress
<1> QED BY <1>1, PostInvariantHolds, PTL
=============================================================================

------------------------------- MODULE Crawl --------------------------------
(***************************************************************************)
(* What a worker process does between the delivery of a crawl request and  *)
(* the result it publishes (worker/src/index.js:74-241): it passes the     *)
(* global and the domain's semaphore (limiter.js), asks the robots cache   *)
(* (robots.js), fetches the page with retries (fetcher.js) and extracts    *)
(* the article (extractor.js).  Worker has all of this in one step.        *)
(*                                                                         *)
(* Handlers are the invocations of eachMessage that run at once.  kafkajs  *)
(* runs one of them per process unless consumer.run is told otherwise, and *)
(* index.js does not tell it; the classes are written for                  *)
(* WORKER_CONCURRENCY of them and are modelled for any number.             *)
(***************************************************************************)
EXTENDS Naturals, Sequences, FiniteSets

CONSTANTS Handlers, Urls,
          Domains, DomainOf,    \* new URL(url).hostname
          Origins, OriginOf,    \* new URL(url).origin
          Disallowed,           \* the urls their robots.txt forbids
          NoUrl,
          Concurrency,          \* WORKER_CONCURRENCY
          DomainConcurrency,    \* WORKER_DOMAIN_CONCURRENCY
          MaxAttempts,          \* WORKER_MAX_ATTEMPTS
          Endings,              \* how downloads may end
          MaxRequests           \* bound on the requests delivered

VARIABLES global,        \* globalSem
          domains,       \* domainLimiter.map
          cache,         \* RobotsCache.cache: origin -> robots, null or undefined
          robotsFailed,  \* history: origins whose robots.txt could not be had
          pc,            \* pc[h]: what the handler does next
          url, obey,     \* url and respect_robots of its request
          tried,         \* tried[h]: how its downloads ended, in order
          result,        \* result[h]: the result it has built
          delivered

limiterVars == <<global, domains>>
robotsVars == <<cache, robotsFailed>>
requestVars == <<url, obey, delivered>>
vars == <<limiterVars, robotsVars, pc, requestVars, tried, result>>

INSTANCE Limiter WITH Callers <- Handlers

-----------------------------------------------------------------------------
(***************************************************************************)
(* How a download ends: with a status, or with an exception, named by what *)
(* its message contains.  "Connect Timeout Error" is undici's own.         *)
(***************************************************************************)
Statuses == {"200", "404", "429", "503"}
Exceptions == {"timeout", "Connect Timeout Error", "ECONNRESET", "max_bytes_exceeded"}

IsRetryableStatus(s) == s \in {"429", "503"}

ASSUME CrawlAssumption ==
    /\ IsFiniteSet(Handlers)
    /\ DomainOf \in [Urls -> Domains]
    /\ OriginOf \in [Urls -> Origins]
    /\ Disallowed \subseteq Urls
    /\ NoUrl \notin Urls
    /\ Concurrency \in Nat \ {0} /\ DomainConcurrency \in Nat \ {0}
    /\ MaxAttempts \in Nat \ {0} /\ MaxRequests \in Nat
    /\ Endings \subseteq Statuses \cup Exceptions

(***************************************************************************)
(* classifyError: the tests are case-sensitive.                            *)
(***************************************************************************)
ClassifyError(e) ==
    IF e \in {"timeout", "max_bytes_exceeded"} THEN e ELSE "download_failed"

(***************************************************************************)
(* What is tried again; and a slip, where every exception is.              *)
(***************************************************************************)
CanRetryAll(r) == r \in Exceptions \/ IsRetryableStatus(r)

CanRetry(r) ==
    \/ r \in Statuses /\ IsRetryableStatus(r)
    \/ r \in Exceptions /\ ClassifyError(r) \in {"timeout", "download_failed"}

HttpError(s) ==
    CASE s = "404" -> "http_404" [] s = "429" -> "http_429" [] s = "503" -> "http_503"

(***************************************************************************)
(* Where the text of an article comes from: extractus, which never throws  *)
(* but may find nothing, or else Readability.  A page neither finds a text *)
(* in is published with an empty one.                                      *)
(***************************************************************************)
Extractors == {"extractus", "readability"}

TextFrom(found) ==
    IF "extractus" \in found THEN "extractus"
    ELSE IF "readability" \in found THEN "readability" ELSE ""

NoResult == [error |-> "none", text |-> ""]
Failed(error) == [error |-> error, text |-> ""]
Article(found) == [error |-> "null", text |-> TextFrom(found)]

Errors == {"none", "null", "robots_disallowed", "timeout", "download_failed",
           "max_bytes_exceeded", "http_404", "http_429", "http_503",
           "extraction_failed"}
Result == [error : Errors, text : Extractors \cup {""}]
-----------------------------------------------------------------------------
Init ==
    /\ global = NewSemaphore
    /\ domains = [d \in Domains |-> NewSemaphore]
    /\ cache = [o \in Origins |-> "undefined"]
    /\ robotsFailed = {}
    /\ pc = [h \in Handlers |-> "idle"]
    /\ url = [h \in Handlers |-> NoUrl]
    /\ obey = [h \in Handlers |-> FALSE]
    /\ tried = [h \in Handlers |-> <<>>]
    /\ result = [h \in Handlers |-> NoResult]
    /\ delivered = 0

Goto(h, loc) == pc' = [pc EXCEPT ![h] = loc]
DomainSem(h) == domains[DomainOf[url[h]]]
SetDomainSem(h, s) == domains' = [domains EXCEPT ![DomainOf[url[h]]] = s]

(***************************************************************************)
(* eachMessage: the request is read and globalSem.use() called.            *)
(***************************************************************************)
Deliver(h, u, respect) ==
    /\ pc[h] = "idle"
    /\ delivered < MaxRequests
    /\ delivered' = delivered + 1
    /\ url' = [url EXCEPT ![h] = u]
    /\ obey' = [obey EXCEPT ![h] = respect]
    /\ IF Full(global, Concurrency)
       THEN global' = Wait(global, h) /\ Goto(h, "waitGlobal")
       ELSE global' = Enter(global) /\ Goto(h, "domain")
    /\ UNCHANGED <<domains, robotsVars, tried, result>>

(***************************************************************************)
(* The .then() of a woken waiter of globalSem.                             *)
(***************************************************************************)
ResumeGlobal(h) ==
    /\ pc[h] = "wokenGlobal"
    /\ global' = Enter(global)
    /\ Goto(h, "domain")
    /\ UNCHANGED <<domains, robotsVars, requestVars, tried, result>>

First(h) == IF obey[h] THEN "robots" ELSE "fetch"

EnterDomain(h) ==
    /\ pc[h] = "domain"
    /\ IF Full(DomainSem(h), DomainConcurrency)
       THEN SetDomainSem(h, Wait(DomainSem(h), h)) /\ Goto(h, "waitDomain")
       ELSE SetDomainSem(h, Enter(DomainSem(h))) /\ Goto(h, First(h))
    /\ UNCHANGED <<global, robotsVars, requestVars, tried, result>>

ResumeDomain(h) ==
    /\ pc[h] = "wokenDomain"
    /\ SetDomainSem(h, Enter(DomainSem(h)))
    /\ Goto(h, First(h))
    /\ UNCHANGED <<global, robotsVars, requestVars, tried, result>>

Finish(h, res) ==
    /\ result' = [result EXCEPT ![h] = res]
    /\ Goto(h, "publish")

(***************************************************************************)
(* allowed(): no robots.txt allows everything.                             *)
(***************************************************************************)
Decide(h, robots) ==
    IF robots = "rules" /\ url[h] \in Disallowed
    THEN Finish(h, Failed("robots_disallowed"))
    ELSE Goto(h, "fetch") /\ UNCHANGED result

CheckRobots(h) ==
    /\ pc[h] = "robots"
    /\ IF cache[OriginOf[url[h]]] = "undefined"
       THEN Goto(h, "askRobots") /\ UNCHANGED result
       ELSE Decide(h, cache[OriginOf[url[h]]])
    /\ UNCHANGED <<limiterVars, robotsVars, requestVars, tried>>

(***************************************************************************)
(* _fetchRobots answers; a timeout, an error and a status from 400 on are  *)
(* all null, and null is cached like rules.  (RobotsAnswerPerHost is a     *)
(* slip: the cache is keyed by host, not by origin.)                       *)
(***************************************************************************)
RobotsAnswerPerHost(h, robots) ==
    /\ pc[h] = "askRobots"
    /\ cache' = [o \in Origins |->
                    IF \E u \in Urls : OriginOf[u] = o /\ DomainOf[u] = DomainOf[url[h]]
                    THEN robots ELSE cache[o]]
    /\ robotsFailed' = IF robots = "null" THEN robotsFailed \cup {OriginOf[url[h]]}
                       ELSE robotsFailed
    /\ Decide(h, robots)
    /\ UNCHANGED <<limiterVars, requestVars, tried>>

RobotsAnswer(h, robots) ==
    /\ pc[h] = "askRobots"
    /\ cache' = [cache EXCEPT ![OriginOf[url[h]]] = robots]
    /\ robotsFailed' = IF robots = "null" THEN robotsFailed \cup {OriginOf[url[h]]}
                       ELSE robotsFailed
    /\ Decide(h, robots)
    /\ UNCHANGED <<limiterVars, requestVars, tried>>

(***************************************************************************)
(* A download of fetchWithRetries ends; attempt is Len(tried[h]).          *)
(***************************************************************************)
Download(h, r) ==
    /\ pc[h] = "fetch"
    /\ tried' = [tried EXCEPT ![h] = Append(@, r)]
    /\ \/ /\ CanRetry(r) /\ Len(tried[h]) < MaxAttempts - 1
          /\ Goto(h, "backoff")
          /\ UNCHANGED result
       \/ /\ ~(CanRetry(r) /\ Len(tried[h]) < MaxAttempts - 1)
          /\ \/ r = "200" /\ Goto(h, "extract") /\ UNCHANGED result
             \/ r \in Statuses \ {"200"} /\ Finish(h, Failed(HttpError(r)))
             \/ r \in Exceptions /\ Finish(h, Failed(ClassifyError(r)))
    /\ UNCHANGED <<limiterVars, robotsVars, requestVars>>

(***************************************************************************)
(* sleep(backoff) is over.                                                 *)
(***************************************************************************)
Retry(h) ==
    /\ pc[h] = "backoff"
    /\ Goto(h, "fetch")
    /\ UNCHANGED <<limiterVars, robotsVars, requestVars, tried, result>>

ExtractArticle(h) ==
    /\ pc[h] = "extract"
    /\ \/ \E found \in SUBSET Extractors : Finish(h, Article(found))
       \/ Finish(h, Failed("extraction_failed"))
    /\ UNCHANGED <<limiterVars, robotsVars, requestVars, tried>>

(***************************************************************************)
(* The result is sent and the offset committed, or one of the calls        *)
(* rejects and is caught; either way use() of the domain's semaphore       *)
(* releases it, and then use() of the global one does.                     *)
(***************************************************************************)
LeaveDomain(h) ==
    /\ pc[h] = "publish"
    /\ SetDomainSem(h, Release(DomainSem(h)))
    /\ pc' = [g \in Handlers |->
                 IF g = h THEN "leave"
                 ELSE IF g \in Woken(DomainSem(h)) THEN "wokenDomain" ELSE pc[g]]
    /\ UNCHANGED <<global, robotsVars, requestVars, tried, result>>

LeaveGlobal(h) ==
    /\ pc[h] = "leave"
    /\ global' = Release(global)
    /\ pc' = [g \in Handlers |->
                 IF g = h THEN "idle"
                 ELSE IF g \in Woken(global) THEN "wokenGlobal" ELSE pc[g]]
    /\ url' = [url EXCEPT ![h] = NoUrl]
    /\ obey' = [obey EXCEPT ![h] = FALSE]
    /\ tried' = [tried EXCEPT ![h] = <<>>]
    /\ result' = [result EXCEPT ![h] = NoResult]
    /\ UNCHANGED <<domains, robotsVars, delivered>>

HandlerStep(h) ==
    \/ ResumeGlobal(h)
    \/ EnterDomain(h)
    \/ ResumeDomain(h)
    \/ CheckRobots(h)
    \/ \E robots \in {"rules", "null"} : RobotsAnswer(h, robots)
    \/ \E r \in Endings : Download(h, r)
    \/ Retry(h)
    \/ ExtractArticle(h)
    \/ LeaveDomain(h)
    \/ LeaveGlobal(h)

(***************************************************************************)
(* The bound on the requests is reached and every one of them has left.    *)
(***************************************************************************)
Quiet ==
    /\ delivered = MaxRequests /\ \A h \in Handlers : pc[h] = "idle"
    /\ UNCHANGED vars

Next ==
    \/ \E h \in Handlers :
           \/ \E u \in Urls, respect \in BOOLEAN : Deliver(h, u, respect)
           \/ HandlerStep(h)
    \/ Quiet

Spec == Init /\ [][Next]_vars
-----------------------------------------------------------------------------
InDomain == {"robots", "askRobots", "fetch", "backoff", "extract", "publish"}
InGlobal == InDomain \cup {"domain", "waitDomain", "wokenDomain", "leave"}

UsersOf(d) == {h \in Handlers : pc[h] \in InDomain /\ DomainOf[url[h]] = d}
Users == {h \in Handlers : pc[h] \in InGlobal}

TypeOK ==
    /\ global \in Semaphore
    /\ domains \in [Domains -> Semaphore]
    /\ cache \in [Origins -> {"undefined", "null", "rules"}]
    /\ robotsFailed \in SUBSET Origins
    /\ pc \in [Handlers -> InGlobal \cup {"idle", "waitGlobal", "wokenGlobal"}]
    /\ url \in [Handlers -> Urls \cup {NoUrl}]
    /\ \A h \in Handlers : pc[h] # "idle" => url[h] \in Urls
    /\ obey \in [Handlers -> BOOLEAN]
    /\ tried \in [Handlers -> Seq(Statuses \cup Exceptions)]
    /\ result \in [Handlers -> Result]
    /\ delivered \in Nat

(***************************************************************************)
(* A semaphore's counter is the number of handlers inside: no path through *)
(* use(), its errors included, leaks a slot or gives it back twice.        *)
(***************************************************************************)
CountersExact ==
    /\ global.current = Cardinality(Users)
    /\ \A d \in Domains : domains[d].current = Cardinality(UsersOf(d))

(***************************************************************************)
(* Who waits is in the queue, once, and behind somebody who will release:  *)
(* as long as the queue is not empty, a handler is inside or woken.        *)
(***************************************************************************)
QueueExact(s, waiting) ==
    /\ \A h \in Handlers : h \in waiting <=> \E i \in 1..Len(s.queue) : s.queue[i] = h
    /\ \A i, k \in 1..Len(s.queue) : s.queue[i] = s.queue[k] => i = k

WaitingFor(d) == {h \in Handlers : pc[h] = "waitDomain" /\ DomainOf[url[h]] = d}
WokenFor(d) == {h \in Handlers : pc[h] = "wokenDomain" /\ DomainOf[url[h]] = d}

NoLostWaiter ==
    /\ QueueExact(global, {h \in Handlers : pc[h] = "waitGlobal"})
    /\ global.queue # <<>> =>
           Users \cup {h \in Handlers : pc[h] = "wokenGlobal"} # {}
    /\ \A d \in Domains :
           /\ QueueExact(domains[d], WaitingFor(d))
           /\ domains[d].queue # <<>> => UsersOf(d) \cup WokenFor(d) # {}

(***************************************************************************)
(* The semaphores of limiter.js lose neither slots nor waiters, although   *)
(* acquire() and release() of any callers fall between a wakeup and the    *)
(* increment that belongs to it.                                           *)
(***************************************************************************)
SemaphoresSound == TypeOK /\ CountersExact /\ NoLostWaiter

(***************************************************************************)
(* A result tells what happened: a page is fetched at most                 *)
(* WORKER_MAX_ATTEMPTS times, again only after an end that may be          *)
(* transient, given up only after the last attempt or an end that is not,  *)
(* and the result is the verdict on the last download (fetcher.js:62-101,  *)
(* index.js:117-195); a url robots.txt forbids is not fetched at all.      *)
(***************************************************************************)
Verdicts(r) ==
    IF r = "200" THEN {"null", "extraction_failed"}
    ELSE IF r \in Exceptions THEN {ClassifyError(r)} ELSE {HttpError(r)}

HonestResult ==
    \A h \in Handlers :
        LET downloads == Len(tried[h]) IN
        /\ downloads <= MaxAttempts
        /\ \A i \in 1..(downloads - 1) :
               tried[h][i] \in {"429", "503"} \cup (Exceptions \ {"max_bytes_exceeded"})
        /\ result[h] = Failed("robots_disallowed") => downloads = 0 /\ obey[h]
        /\ result[h] \notin {NoResult, Failed("robots_disallowed")} =>
               /\ downloads > 0
               /\ result[h].error \in Verdicts(tried[h][downloads])
               /\ CanRetry(tried[h][downloads]) => downloads = MaxAttempts

(***************************************************************************)
(* A page its robots.txt forbids is visited for a request that respects it *)
(* only if this process once failed to get that robots.txt (robots.js:42,  *)
(* fail-open); what a url, or another handler at the same time, has cached *)
(* for an origin never opens another origin.                               *)
(***************************************************************************)
RobotsRespected ==
    \A h \in Handlers :
        pc[h] = "fetch" /\ obey[h] /\ url[h] \in Disallowed
            => OriginOf[url[h]] \in robotsFailed
=============================================================================

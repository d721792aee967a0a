----------------------------- MODULE CrawlProofs -----------------------------
(***************************************************************************)
(* What is proved of Crawl for any number of handlers, urls, domains,      *)
(* origins and attempts, and any limits of the semaphores: slots and       *)
(* waiters are never lost, a result is the verdict on what happened, and a *)
(* forbidden page is visited only when its robots.txt could not be had.    *)
(*                                                                         *)
(* A semaphore is sound for the sets of the handlers that are inside, wait *)
(* and have been woken.  Each operation of the class Semaphore moves one   *)
(* handler from set to set, which is shown once for both limits; the steps *)
(* of a handler then only have to name the sets they change.               *)
(***************************************************************************)
EXTENDS Crawl, TLAPS, SequenceTheorems, FiniteSetTheorems

Sound(s, users, waiting, woken) ==
    /\ s \in Semaphore
    /\ users \subseteq Handlers /\ s.current = Cardinality(users)
    /\ QueueExact(s, waiting)
    /\ s.queue # <<>> => users \cup woken # {}

(***************************************************************************)
(* acquire() that finds a slot, at once or after a wakeup.                 *)
(***************************************************************************)
LEMMA EnterSound ==
    ASSUME NEW s, NEW users, NEW waiting, NEW woken, Sound(s, users, waiting, woken),
           NEW h \in Handlers, h \notin users, NEW woken2
    PROVE  Sound(Enter(s), users \cup {h}, waiting, woken2)
<1>1. s.current \in Nat /\ s.queue \in Seq(Handlers) /\ s \in Semaphore
  BY DEF Sound, Semaphore
<1>2. /\ Enter(s) \in Semaphore
      /\ Enter(s).current = s.current + 1 /\ Enter(s).queue = s.queue
  BY <1>1 DEF Enter, Semaphore
<1>3. IsFiniteSet(users)
  BY CrawlAssumption, FS_Subset DEF Sound
<1>4. Cardinality(users \cup {h}) = s.current + 1
  BY <1>3, FS_AddElement DEF Sound
<1>5. QueueExact(Enter(s), waiting)
  BY <1>2 DEF Sound, QueueExact
<1> HIDE DEF Enter
<1> QED BY <1>2, <1>4, <1>5 DEF Sound

(***************************************************************************)
(* A caller that waits changes the queue and nothing else.                 *)
(***************************************************************************)
LEMMA WaitIs ==
    ASSUME NEW s \in Semaphore, NEW h \in Handlers
    PROVE  /\ Wait(s, h) \in Semaphore
           /\ Wait(s, h).current = s.current /\ Wait(s, h).queue = Append(s.queue, h)
<1>1. s.current \in Nat /\ s.queue \in Seq(Handlers)
  BY DEF Semaphore
<1>2. Append(s.queue, h) \in Seq(Handlers)
  BY <1>1
<1> DEFINE q == Append(s.queue, h)
<1>3. q \in Seq(Handlers)
  BY <1>2
<1>4. Wait(s, h) = [s EXCEPT !.queue = q]
  BY DEF Wait
<1> HIDE DEF q
<1>5. [s EXCEPT !.queue = q] \in Semaphore
  BY <1>3 DEF Semaphore
<1>6. [s EXCEPT !.queue = q].current = s.current /\ [s EXCEPT !.queue = q].queue = q
  BY DEF Semaphore
<1> QED BY <1>4, <1>5, <1>6 DEF q

(***************************************************************************)
(* acquire() that finds none: whoever has the slots will release them.     *)
(***************************************************************************)
LEMMA WaitSound ==
    ASSUME NEW s, NEW users, NEW waiting, NEW woken, Sound(s, users, waiting, woken),
           NEW h \in Handlers, h \notin waiting,
           NEW max \in Nat \ {0}, Full(s, max)
    PROVE  Sound(Wait(s, h), users, waiting \cup {h}, woken)
<1> DEFINE q == s.queue
           r == Wait(s, h).queue
<1>1. s.current \in Nat /\ q \in Seq(Handlers) /\ s \in Semaphore
  BY DEF Sound, Semaphore
<1>2. Wait(s, h).current = s.current /\ r = Append(q, h) /\ Wait(s, h) \in Semaphore
  BY <1>1, WaitIs
<1>3. users # {}
  <2>1. s.current # 0
    BY <1>1 DEF Full
  <2> QED BY <2>1, FS_EmptySet DEF Sound
<1>4. /\ Len(q) \in Nat /\ Len(r) = Len(q) + 1 /\ r[Len(q) + 1] = h
      /\ \A i \in 1..Len(q) : r[i] = q[i]
  BY <1>1, <1>2
<1>5. /\ \A g \in Handlers : g \in waiting <=> \E i \in 1..Len(q) : q[i] = g
      /\ \A i, k \in 1..Len(q) : q[i] = q[k] => i = k
  BY DEF Sound, QueueExact
<1>6. \A i \in 1..Len(q) : q[i] # h
  BY <1>5
<1> HIDE DEF q, r
<1>7. \A i \in 1..Len(r) : i \in 1..Len(q) \/ i = Len(q) + 1
  BY <1>4
<1>8. \A g \in Handlers : g \in waiting \cup {h} <=> \E i \in 1..Len(r) : r[i] = g
  BY <1>4, <1>5, <1>7
<1>9. \A i, k \in 1..Len(r) : r[i] = r[k] => i = k
  BY <1>4, <1>5, <1>6, <1>7
<1>10. QueueExact(Wait(s, h), waiting \cup {h})
  BY <1>8, <1>9 DEF QueueExact, r
<1> QED BY <1>2, <1>3, <1>10 DEF Sound

(***************************************************************************)
(* release(): the first that waits is woken.                               *)
(***************************************************************************)
LEMMA ReleaseSound ==
    ASSUME NEW s, NEW users, NEW waiting, NEW woken, Sound(s, users, waiting, woken),
           waiting \subseteq Handlers, NEW h \in users
    PROVE  /\ Woken(s) \subseteq waiting
           /\ Sound(Release(s), users \ {h}, waiting \ Woken(s), woken \cup Woken(s))
<1> DEFINE q == s.queue
           r == Release(s).queue
<1>1. s.current \in Nat /\ q \in Seq(Handlers) /\ s \in Semaphore
  BY DEF Sound, Semaphore
<1>2. IsFiniteSet(users) /\ Cardinality(users) = s.current
  BY CrawlAssumption, FS_Subset DEF Sound
<1>3. Cardinality(users \ {h}) = s.current - 1 /\ Cardinality(users \ {h}) \in Nat
  BY <1>2, FS_RemoveElement, FS_CardinalityType
<1>4. Release(s).current = s.current - 1
  BY <1>1, <1>3 DEF Release
<1>5. /\ \A g \in Handlers : g \in waiting <=> \E i \in 1..Len(q) : q[i] = g
      /\ \A i, k \in 1..Len(q) : q[i] = q[k] => i = k
  BY DEF Sound, QueueExact
<1>6. CASE q = <<>>
  <2>1. r = <<>> /\ Woken(s) = {}
    BY <1>6 DEF Release, Woken
  <2>2. Release(s) \in Semaphore
    BY <1>1, <1>3, <1>4, <1>6 DEF Release, Semaphore
  <2>3. QueueExact(Release(s), waiting)
    BY <1>5, <1>6, <2>1 DEF QueueExact
  <2>4. waiting \ {} = waiting
    OBVIOUS
  <2> QED BY <1>3, <1>4, <2>1, <2>2, <2>3, <2>4 DEF Sound
<1>7. CASE q # <<>>
  <2>1. r = Tail(q) /\ Woken(s) = {q[1]}
    BY <1>1, <1>7 DEF Release, Woken
  <2>2. /\ Len(q) \in Nat \ {0} /\ r \in Seq(Handlers) /\ Len(r) = Len(q) - 1
        /\ \A i \in 1..Len(r) : r[i] = q[i + 1]
    BY <1>1, <1>7, <2>1
  <2>3. Release(s) = [current |-> s.current - 1, queue |-> r]
    BY <1>1, <1>4 DEF Release
  <2>4. Release(s) \in Semaphore
    BY <1>3, <2>2, <2>3 DEF Semaphore
  <2> HIDE DEF q, r
  <2>5. q[1] \in Handlers /\ q[1] \in waiting
    BY <1>1, <1>5, <2>2
  <2>6. ASSUME NEW g \in Handlers
        PROVE  g \in waiting \ {q[1]} <=> \E i \in 1..Len(r) : r[i] = g
    <3>1. ASSUME g \in waiting, g # q[1] PROVE \E i \in 1..Len(r) : r[i] = g
      <4>1. PICK k \in 1..Len(q) : q[k] = g
        BY <1>5, <3>1
      <4>2. k # 1
        BY <3>1, <4>1
      <4>3. k - 1 \in 1..Len(r) /\ r[k - 1] = g
        BY <2>2, <4>1, <4>2
      <4> QED BY <4>3
    <3>2. ASSUME NEW i \in 1..Len(r), r[i] = g PROVE g \in waiting /\ g # q[1]
      <4>1. i + 1 \in 1..Len(q) /\ q[i + 1] = g /\ i + 1 # 1 /\ 1 \in 1..Len(q)
        BY <2>2, <3>2
      <4> QED BY <1>5, <4>1
    <3> QED BY <3>1, <3>2
  <2>7. ASSUME NEW i \in 1..Len(r), NEW k \in 1..Len(r), r[i] = r[k] PROVE i = k
    <3>1. i + 1 \in 1..Len(q) /\ k + 1 \in 1..Len(q) /\ q[i + 1] = q[k + 1]
      BY <2>2, <2>7
    <3>2. i + 1 = k + 1
      BY <1>5, <3>1
    <3> QED BY <2>2, <3>2
  <2>8. QueueExact(Release(s), waiting \ Woken(s))
    BY <2>1, <2>6, <2>7 DEF QueueExact, r
  <2>9. woken \cup Woken(s) # {}
    BY <2>1
  <2> QED BY <1>3, <1>4, <2>1, <2>4, <2>5, <2>8, <2>9 DEF Sound
<1> QED BY <1>6, <1>7
-----------------------------------------------------------------------------
Waiting == {h \in Handlers : pc[h] = "waitGlobal"}
WokenUp == {h \in Handlers : pc[h] = "wokenGlobal"}

GlobalSound == Sound(global, Users, Waiting, WokenUp)
DomainSound(d) == Sound(domains[d], UsersOf(d), WaitingFor(d), WokenFor(d))

Slots == GlobalSound /\ \A d \in Domains : DomainSound(d)

LEMMA SlotsMean ==
    ASSUME TypeOK, Slots
    PROVE  SemaphoresSound
<1>1. GlobalSound <=>
        /\ global.current = Cardinality(Users)
        /\ QueueExact(global, Waiting)
        /\ global.queue # <<>> => Users \cup WokenUp # {}
  BY DEF GlobalSound, Sound, TypeOK, Users
<1>2. ASSUME NEW d \in Domains
      PROVE  DomainSound(d) <=>
        /\ domains[d].current = Cardinality(UsersOf(d))
        /\ QueueExact(domains[d], WaitingFor(d))
        /\ domains[d].queue # <<>> => UsersOf(d) \cup WokenFor(d) # {}
  BY DEF DomainSound, Sound, TypeOK, UsersOf
<1> QED BY <1>1, <1>2
        DEF Slots, SemaphoresSound, CountersExact, NoLostWaiter, Waiting, WokenUp

(***************************************************************************)
(* Steps that leave a semaphore and the handlers' sides of it alone.       *)
(***************************************************************************)
AtDomain == InDomain \cup {"waitDomain", "wokenDomain"}

LEMMA GlobalUntouched ==
    ASSUME GlobalSound, global' = global,
           \A g \in Handlers : pc'[g] = pc[g] \/ {pc[g], pc'[g]} \subseteq InGlobal
    PROVE  GlobalSound'
<1>1. Users' = Users /\ Waiting' = Waiting /\ WokenUp' = WokenUp
  BY DEF Users, Waiting, WokenUp, InGlobal, InDomain
<1> QED BY <1>1 DEF GlobalSound

LEMMA DomainUntouched ==
    ASSUME NEW d \in Domains, DomainSound(d), domains'[d] = domains[d],
           \A g \in Handlers :
              \/ pc'[g] = pc[g] /\ url'[g] = url[g]
              \/ {pc[g], pc'[g]} \subseteq InDomain /\ url'[g] = url[g]
              \/ pc[g] \notin AtDomain /\ pc'[g] \notin AtDomain
              \/ url'[g] = url[g] /\ DomainOf[url[g]] # d
    PROVE  DomainSound(d)'
<1>1. /\ UsersOf(d)' = UsersOf(d) /\ WaitingFor(d)' = WaitingFor(d)
      /\ WokenFor(d)' = WokenFor(d)
  BY DEF UsersOf, WaitingFor, WokenFor, AtDomain, InDomain
<1> QED BY <1>1 DEF DomainSound
-----------------------------------------------------------------------------
(***************************************************************************)
(* The steps at the semaphores.                                            *)
(***************************************************************************)
LEMMA Places ==
    /\ InDomain \subseteq InGlobal /\ InDomain \subseteq AtDomain
    /\ {"domain", "waitDomain", "wokenDomain", "leave"} \subseteq InGlobal
    /\ {"waitDomain", "wokenDomain"} \subseteq AtDomain
    /\ {"waitDomain", "wokenDomain", "domain", "leave"} \cap InDomain = {}
    /\ {"idle", "waitGlobal", "wokenGlobal"} \cap InGlobal = {}
    /\ {"idle", "waitGlobal", "wokenGlobal", "domain", "leave"} \cap AtDomain = {}
    /\ {"robots", "fetch", "publish"} \subseteq InDomain
BY DEF InGlobal, AtDomain, InDomain

LEMMA DeliverKeepsSlots ==
    ASSUME TypeOK, Slots, NEW h \in Handlers, NEW u \in Urls, NEW respect \in BOOLEAN,
           Deliver(h, u, respect)
    PROVE  Slots'
<1> USE DEF Slots
<1>1. /\ pc[h] = "idle" /\ domains' = domains /\ url' = [url EXCEPT ![h] = u]
      /\ \/ /\ Full(global, Concurrency)
            /\ global' = Wait(global, h) /\ pc' = [pc EXCEPT ![h] = "waitGlobal"]
         \/ /\ global' = Enter(global) /\ pc' = [pc EXCEPT ![h] = "domain"]
  BY DEF Deliver, Goto
<1>2. \A g \in Handlers \ {h} : pc'[g] = pc[g] /\ url'[g] = url[g]
  BY <1>1 DEF TypeOK
<1>3. ASSUME NEW d \in Domains PROVE DomainSound(d)'
  <2>1. pc[h] \notin AtDomain /\ pc'[h] \notin AtDomain
    BY <1>1, Places DEF TypeOK
  <2> QED BY <1>1, <1>2, <2>1, DomainUntouched
<1>4. h \notin Users /\ h \notin Waiting
  BY <1>1, Places DEF Users, Waiting
<1>5. CASE /\ Full(global, Concurrency)
           /\ global' = Wait(global, h) /\ pc' = [pc EXCEPT ![h] = "waitGlobal"]
  <2>1. pc'[h] = "waitGlobal"
    BY <1>5 DEF TypeOK
  <2>2. Users' = Users /\ Waiting' = Waiting \cup {h} /\ WokenUp' = WokenUp
    BY <1>1, <1>2, <2>1, Places DEF Users, Waiting, WokenUp
  <2>3. Sound(Wait(global, h), Users, Waiting \cup {h}, WokenUp)
    BY <1>4, <1>5, WaitSound, CrawlAssumption DEF GlobalSound
  <2> QED BY <1>3, <1>5, <2>2, <2>3 DEF GlobalSound
<1>6. CASE global' = Enter(global) /\ pc' = [pc EXCEPT ![h] = "domain"]
  <2>1. pc'[h] = "domain"
    BY <1>6 DEF TypeOK
  <2>2. Users' = Users \cup {h} /\ Waiting' = Waiting
    BY <1>1, <1>2, <2>1, Places DEF Users, Waiting
  <2>3. Sound(Enter(global), Users \cup {h}, Waiting, WokenUp')
    BY <1>4, EnterSound DEF GlobalSound
  <2> QED BY <1>3, <1>6, <2>2, <2>3 DEF GlobalSound
<1> QED BY <1>1, <1>5, <1>6

LEMMA ResumeGlobalKeepsSlots ==
    ASSUME TypeOK, Slots, NEW h \in Handlers, ResumeGlobal(h)
    PROVE  Slots'
<1> USE DEF Slots
<1>1. /\ pc[h] = "wokenGlobal" /\ global' = Enter(global) /\ UNCHANGED <<domains, url>>
      /\ pc'[h] = "domain" /\ \A g \in Handlers \ {h} : pc'[g] = pc[g]
  BY DEF ResumeGlobal, Goto, requestVars, TypeOK
<1>2. ASSUME NEW d \in Domains PROVE DomainSound(d)'
  <2>1. pc[h] \notin AtDomain /\ pc'[h] \notin AtDomain
    BY <1>1, Places
  <2> QED BY <1>1, <2>1, DomainUntouched
<1>3. h \notin Users /\ Users' = Users \cup {h} /\ Waiting' = Waiting
  BY <1>1, Places DEF Users, Waiting
<1>4. Sound(Enter(global), Users \cup {h}, Waiting, WokenUp')
  BY <1>3, EnterSound DEF GlobalSound
<1> QED BY <1>1, <1>2, <1>3, <1>4 DEF GlobalSound

(***************************************************************************)
(* A step of h at the semaphore of its domain leaves those of the others   *)
(* alone, and the global one.                                              *)
(***************************************************************************)
LEMMA OwnDomainOnly ==
    ASSUME TypeOK, Slots, NEW h \in Handlers, NEW s, SetDomainSem(h, s),
           global' = global, url' = url, url[h] \in Urls,
           {pc[h], pc'[h]} \subseteq InGlobal,
           \A g \in Handlers \ {h} :
              \/ pc'[g] = pc[g]
              \/ {pc[g], pc'[g]} \subseteq InGlobal /\ DomainOf[url[g]] = DomainOf[url[h]],
           Sound(s, UsersOf(DomainOf[url[h]])', WaitingFor(DomainOf[url[h]])',
                 WokenFor(DomainOf[url[h]])')
    PROVE  Slots'
<1> DEFINE e == DomainOf[url[h]]
<1>1. e \in Domains /\ domains' = [domains EXCEPT ![e] = s]
  BY CrawlAssumption DEF SetDomainSem
<1>2. GlobalSound'
  BY GlobalUntouched DEF Slots
<1>3. DomainSound(e)'
  <2>1. domains'[e] = s
    BY <1>1 DEF TypeOK
  <2>2. Sound(s, UsersOf(e)', WaitingFor(e)', WokenFor(e)')
    OBVIOUS
  <2>3. DomainSound(e)' <=> Sound(domains'[e], UsersOf(e)', WaitingFor(e)', WokenFor(e)')
    BY DEF DomainSound, UsersOf, WaitingFor, WokenFor
  <2> QED BY <2>1, <2>2, <2>3
<1>4. ASSUME NEW d \in Domains \ {e} PROVE DomainSound(d)'
  <2>1. domains'[d] = domains[d]
    BY <1>1 DEF TypeOK
  <2>2. \A g \in Handlers : (pc'[g] = pc[g] \/ DomainOf[url[g]] # d) /\ url'[g] = url[g]
    OBVIOUS
  <2> QED BY <2>1, <2>2, DomainUntouched DEF Slots
<1> QED BY <1>2, <1>3, <1>4 DEF Slots

LEMMA AcquireDomainKeepsSlots ==
    ASSUME TypeOK, Slots, NEW h \in Handlers, EnterDomain(h) \/ ResumeDomain(h)
    PROVE  Slots'
<1> DEFINE e == DomainOf[url[h]]
<1>1. /\ pc[h] \in {"domain", "wokenDomain"} /\ url[h] \in Urls
      /\ global' = global /\ url' = url
      /\ First(h) \in {"robots", "fetch"}
  BY DEF EnterDomain, ResumeDomain, requestVars, TypeOK, First
<1>2. e \in Domains /\ DomainSound(e)
  BY <1>1, CrawlAssumption DEF Slots
<1>3. \/ /\ pc[h] = "domain" /\ Full(domains[e], DomainConcurrency)
         /\ SetDomainSem(h, Wait(domains[e], h))
         /\ pc' = [pc EXCEPT ![h] = "waitDomain"]
      \/ /\ SetDomainSem(h, Enter(domains[e]))
         /\ pc' = [pc EXCEPT ![h] = First(h)]
  BY DEF EnterDomain, ResumeDomain, Goto, DomainSem
<1>4. \A g \in Handlers \ {h} : pc'[g] = pc[g]
  BY <1>3 DEF TypeOK
<1>5. h \notin UsersOf(e) /\ (pc[h] = "domain" => h \notin WaitingFor(e))
  BY <1>1, Places DEF UsersOf, WaitingFor
<1>6. CASE /\ pc[h] = "domain" /\ Full(domains[e], DomainConcurrency)
           /\ SetDomainSem(h, Wait(domains[e], h))
           /\ pc' = [pc EXCEPT ![h] = "waitDomain"]
  <2>1. pc'[h] = "waitDomain"
    BY <1>6 DEF TypeOK
  <2>2. /\ UsersOf(e)' = UsersOf(e) /\ WaitingFor(e)' = WaitingFor(e) \cup {h}
        /\ WokenFor(e)' = WokenFor(e)
    BY <1>1, <1>4, <1>6, <2>1, Places DEF UsersOf, WaitingFor, WokenFor
  <2>3. Sound(Wait(domains[e], h), UsersOf(e)', WaitingFor(e)', WokenFor(e)')
    BY <1>2, <1>5, <1>6, <2>2, WaitSound, CrawlAssumption DEF DomainSound
  <2>4. {pc[h], pc'[h]} \subseteq InGlobal
    BY <1>1, <2>1, Places
  <2> QED BY <1>1, <1>4, <1>6, <2>3, <2>4, OwnDomainOnly
<1>7. CASE SetDomainSem(h, Enter(domains[e])) /\ pc' = [pc EXCEPT ![h] = First(h)]
  <2>1. pc'[h] \in InDomain
    BY <1>1, <1>7, Places DEF TypeOK
  <2>2. UsersOf(e)' = UsersOf(e) \cup {h} /\ WaitingFor(e)' = WaitingFor(e) \ {h}
    BY <1>1, <1>4, <2>1, Places DEF UsersOf, WaitingFor
  <2>3. h \notin WaitingFor(e)
    BY <1>1 DEF WaitingFor
  <2>4. Sound(Enter(domains[e]), UsersOf(e)', WaitingFor(e)', WokenFor(e)')
    <3>1. WaitingFor(e)' = WaitingFor(e)
      BY <2>2, <2>3
    <3> QED BY <1>2, <1>5, <2>2, <3>1, EnterSound DEF DomainSound
  <2>5. {pc[h], pc'[h]} \subseteq InGlobal
    BY <1>1, <2>1, Places
  <2> QED BY <1>1, <1>4, <1>7, <2>4, <2>5, OwnDomainOnly
<1> QED BY <1>3, <1>6, <1>7

(***************************************************************************)
(* What is done inside both semaphores.                                    *)
(***************************************************************************)
LEMMA InsideKeepsSlots ==
    ASSUME TypeOK, Slots, NEW h \in Handlers, UNCHANGED <<limiterVars, url>>,
           {pc[h], pc'[h]} \subseteq InDomain,
           \A g \in Handlers \ {h} : pc'[g] = pc[g]
    PROVE  Slots'
<1>1. {pc[h], pc'[h]} \subseteq InGlobal
  BY Places
<1>2. GlobalSound'
  BY <1>1, GlobalUntouched DEF Slots, limiterVars
<1>3. \A d \in Domains : DomainSound(d)'
  BY DomainUntouched DEF Slots, limiterVars
<1> QED BY <1>2, <1>3 DEF Slots

LEMMA LeaveDomainKeepsSlots ==
    ASSUME TypeOK, Slots, NEW h \in Handlers, LeaveDomain(h)
    PROVE  Slots'
<1> DEFINE e == DomainOf[url[h]]
           w == Woken(domains[e])
<1>1. /\ pc[h] = "publish" /\ url[h] \in Urls /\ global' = global /\ url' = url
      /\ SetDomainSem(h, Release(domains[e]))
      /\ pc' = [g \in Handlers |->
                   IF g = h THEN "leave" ELSE IF g \in w THEN "wokenDomain" ELSE pc[g]]
  BY DEF LeaveDomain, DomainSem, requestVars, TypeOK
<1>2. e \in Domains /\ DomainSound(e)
  BY <1>1, CrawlAssumption DEF Slots
<1>3. h \in UsersOf(e) /\ WaitingFor(e) \subseteq Handlers
  BY <1>1, Places DEF UsersOf, WaitingFor
<1>4. /\ w \subseteq WaitingFor(e)
      /\ Sound(Release(domains[e]), UsersOf(e) \ {h}, WaitingFor(e) \ w, WokenFor(e) \cup w)
  <2> HIDE DEF e
  <2> QED BY <1>2, <1>3, ReleaseSound DEF DomainSound
<1>5. \A g \in w : g # h /\ pc[g] = "waitDomain" /\ DomainOf[url[g]] = e /\ g \in Handlers
  BY <1>1, <1>4 DEF WaitingFor
<1> HIDE DEF w
<1>6. /\ pc'[h] = "leave" /\ \A g \in w : pc'[g] = "wokenDomain"
      /\ \A g \in Handlers \ ({h} \cup w) : pc'[g] = pc[g]
  BY <1>1, <1>5
<1>7. UsersOf(e)' = UsersOf(e) \ {h}
  BY <1>1, <1>5, <1>6, Places DEF UsersOf
<1>8. WaitingFor(e)' = WaitingFor(e) \ w
  BY <1>1, <1>5, <1>6 DEF WaitingFor
<1>9. WokenFor(e)' = WokenFor(e) \cup w
  BY <1>1, <1>5, <1>6 DEF WokenFor
<1>10. \A g \in Handlers \ {h} :
          \/ pc'[g] = pc[g]
          \/ {pc[g], pc'[g]} \subseteq InGlobal /\ DomainOf[url[g]] = e
  BY <1>5, <1>6, Places
<1>11. {pc[h], pc'[h]} \subseteq InGlobal
  BY <1>1, <1>6, Places
<1> QED BY <1>1, <1>4, <1>7, <1>8, <1>9, <1>10, <1>11, OwnDomainOnly

LEMMA LeaveGlobalKeepsSlots ==
    ASSUME TypeOK, Slots, NEW h \in Handlers, LeaveGlobal(h)
    PROVE  Slots'
<1> DEFINE w == Woken(global)
<1>1. /\ pc[h] = "leave" /\ domains' = domains /\ url' = [url EXCEPT ![h] = NoUrl]
      /\ global' = Release(global)
      /\ pc' = [g \in Handlers |->
                   IF g = h THEN "idle" ELSE IF g \in w THEN "wokenGlobal" ELSE pc[g]]
  BY DEF LeaveGlobal
<1>2. h \in Users /\ Waiting \subseteq Handlers
  BY <1>1, Places DEF Users, Waiting
<1>3. /\ w \subseteq Waiting
      /\ Sound(Release(global), Users \ {h}, Waiting \ w, WokenUp \cup w)
  BY <1>2, ReleaseSound DEF Slots, GlobalSound
<1>4. \A g \in w : g # h /\ pc[g] = "waitGlobal" /\ g \in Handlers
  BY <1>1, <1>3 DEF Waiting
<1> HIDE DEF w
<1>5. /\ pc'[h] = "idle" /\ \A g \in w : pc'[g] = "wokenGlobal"
      /\ \A g \in Handlers \ ({h} \cup w) : pc'[g] = pc[g]
      /\ \A g \in Handlers \ {h} : url'[g] = url[g]
  BY <1>1, <1>4 DEF TypeOK
<1>6. Users' = Users \ {h}
  BY <1>4, <1>5, Places DEF Users
<1>7. Waiting' = Waiting \ w /\ WokenUp' = WokenUp \cup w
  BY <1>1, <1>4, <1>5 DEF Waiting, WokenUp
<1>8. GlobalSound'
  BY <1>1, <1>3, <1>6, <1>7 DEF GlobalSound
<1>9. ASSUME NEW d \in Domains PROVE DomainSound(d)'
  <2>1. \A g \in {h} \cup w : pc[g] \notin AtDomain /\ pc'[g] \notin AtDomain
    BY <1>1, <1>4, <1>5, Places
  <2> QED BY <1>1, <1>5, <2>1, DomainUntouched DEF Slots
<1> QED BY <1>8, <1>9 DEF Slots
-----------------------------------------------------------------------------
(***************************************************************************)
(* Where a handler is, by what it has downloaded and decided.              *)
(***************************************************************************)
BeforeFetch == {"idle", "waitGlobal", "wokenGlobal", "domain", "waitDomain",
                "wokenDomain", "robots", "askRobots"}

RetriedUpTo(h, n) == \A i \in 1..n : CanRetry(tried[h][i])

(***************************************************************************)
(* The result is the verdict on the last of the downloads.                 *)
(***************************************************************************)
Concluded(h) ==
    LET downloads == Len(tried[h]) IN
    /\ downloads \in 1..MaxAttempts
    /\ RetriedUpTo(h, downloads - 1)
    /\ CanRetry(tried[h][downloads]) => downloads = MaxAttempts
    /\ result[h].error \in Verdicts(tried[h][downloads])

Forbidden(h) ==
    result[h] = Failed("robots_disallowed") /\ tried[h] = <<>> /\ obey[h]

Progress(h) ==
    /\ pc[h] \in BeforeFetch => tried[h] = <<>> /\ result[h] = NoResult
    /\ pc[h] \in {"robots", "askRobots"} => obey[h]
    /\ pc[h] \in {"fetch", "backoff"} =>
          /\ result[h] = NoResult
          /\ Len(tried[h]) < MaxAttempts /\ RetriedUpTo(h, Len(tried[h]))
    /\ pc[h] = "extract" =>
          /\ result[h] = NoResult
          /\ Len(tried[h]) \in 1..MaxAttempts /\ RetriedUpTo(h, Len(tried[h]) - 1)
          /\ tried[h][Len(tried[h])] = "200"
    /\ pc[h] \in {"publish", "leave"} => Forbidden(h) \/ Concluded(h)

(***************************************************************************)
(* The cache opens an origin only if its robots.txt could not be had, and  *)
(* nothing else lets a handler on to a page that is forbidden to it.       *)
(***************************************************************************)
RobotsKnown ==
    /\ \A o \in Origins : cache[o] = "null" => o \in robotsFailed
    /\ \A h \in Handlers :
          pc[h] \in {"fetch", "backoff"} /\ obey[h] /\ url[h] \in Disallowed
              => OriginOf[url[h]] \in robotsFailed

CrawlInvariant ==
    /\ TypeOK /\ Slots
    /\ \A h \in Handlers : Progress(h)
    /\ RobotsKnown

LEMMA WokenWaited ==
    ASSUME NEW s, NEW users, NEW waiting, NEW woken, Sound(s, users, waiting, woken)
    PROVE  Woken(s) \subseteq waiting
<1>1. CASE s.queue = <<>>
  BY <1>1 DEF Woken
<1>2. CASE s.queue # <<>>
  <2>1. s.queue \in Seq(Handlers) /\ 1 \in 1..Len(s.queue) /\ Woken(s) = {s.queue[1]}
    BY <1>2 DEF Woken, Sound, Semaphore
  <2>2. s.queue[1] \in Handlers
    BY <2>1
  <2> QED BY <2>1, <2>2 DEF Sound, QueueExact
<1> QED BY <1>1, <1>2

(***************************************************************************)
(* Whoever does not take the step is at most woken by it.                  *)
(***************************************************************************)
Queued == {"waitGlobal", "wokenGlobal", "waitDomain", "wokenDomain"}

Still(g) ==
    /\ url'[g] = url[g] /\ obey'[g] = obey[g]
    /\ tried'[g] = tried[g] /\ result'[g] = result[g]
    /\ pc'[g] = pc[g] \/ {pc[g], pc'[g]} \subseteq Queued

LEMMA OthersStill ==
    ASSUME TypeOK, Slots, NEW h \in Handlers, NEW g \in Handlers \ {h},
           (\E u \in Urls, respect \in BOOLEAN : Deliver(h, u, respect)) \/ HandlerStep(h)
    PROVE  Still(g)
<1> USE DEF TypeOK, Still
<1>1. CASE \E u \in Urls, respect \in BOOLEAN : Deliver(h, u, respect)
  BY <1>1 DEF Deliver, Goto
<1>2. CASE ResumeGlobal(h) \/ EnterDomain(h) \/ ResumeDomain(h)
  BY <1>2 DEF ResumeGlobal, EnterDomain, ResumeDomain, Goto, requestVars
<1>3. CASE CheckRobots(h) \/ \E robots \in {"rules", "null"} : RobotsAnswer(h, robots)
  BY <1>3 DEF CheckRobots, RobotsAnswer, Decide, Finish, Goto, requestVars
<1>4. CASE \E r \in Endings : Download(h, r)
  BY <1>4 DEF Download, Finish, Goto, requestVars
<1>5. CASE Retry(h) \/ ExtractArticle(h)
  BY <1>5 DEF Retry, ExtractArticle, Finish, Goto, requestVars
<1>6. CASE LeaveDomain(h)
  <2>1. url[h] \in Urls
    BY <1>6 DEF LeaveDomain
  <2>2. Woken(DomainSem(h)) \subseteq WaitingFor(DomainOf[url[h]])
    BY <2>1, WokenWaited, CrawlAssumption DEF Slots, DomainSound, DomainSem
  <2>3. g \in Woken(DomainSem(h)) => pc[g] = "waitDomain"
    BY <2>2 DEF WaitingFor
  <2> QED BY <1>6, <2>3 DEF LeaveDomain, requestVars, Queued
<1>7. CASE LeaveGlobal(h)
  <2>1. Woken(global) \subseteq Waiting
    BY WokenWaited DEF Slots, GlobalSound
  <2>2. g \in Woken(global) => pc[g] = "waitGlobal"
    BY <2>1 DEF Waiting
  <2> QED BY <1>7, <2>2 DEF LeaveGlobal, Queued
<1> QED BY <1>1, <1>2, <1>3, <1>4, <1>5, <1>6, <1>7 DEF HandlerStep

LEMMA StillProgress ==
    ASSUME NEW g \in Handlers, Progress(g), Still(g)
    PROVE  Progress(g)'
<1>1. CASE pc'[g] = pc[g]
  BY <1>1 DEF Progress, Still, Forbidden, Concluded, RetriedUpTo
<1>2. CASE {pc[g], pc'[g]} \subseteq Queued
  BY <1>2 DEF Progress, Still, BeforeFetch, Queued
<1> QED BY <1>1, <1>2 DEF Still

Inside(h) ==
    \/ CheckRobots(h)
    \/ \E robots \in {"rules", "null"} : RobotsAnswer(h, robots)
    \/ \E r \in Endings : Download(h, r)
    \/ Retry(h)
    \/ ExtractArticle(h)

LEMMA InsideMoves ==
    ASSUME TypeOK, NEW h \in Handlers, Inside(h)
    PROVE  /\ UNCHANGED <<limiterVars, requestVars>>
           /\ {pc[h], pc'[h]} \subseteq InDomain
           /\ pc' = [pc EXCEPT ![h] = pc'[h]]
<1> USE DEF Goto, Finish, Decide, InDomain, TypeOK
<1>1. CASE CheckRobots(h) \/ \E robots \in {"rules", "null"} : RobotsAnswer(h, robots)
  BY <1>1 DEF CheckRobots, RobotsAnswer
<1>2. CASE \E r \in Endings : Download(h, r)
  BY <1>2 DEF Download
<1>3. CASE Retry(h) \/ ExtractArticle(h)
  BY <1>3 DEF Retry, ExtractArticle
<1> QED BY <1>1, <1>2, <1>3 DEF Inside

LEMMA SlotsNext ==
    ASSUME TypeOK, Slots, [Next]_vars
    PROVE  Slots'
<1>1. ASSUME NEW h \in Handlers, NEW u \in Urls, NEW respect \in BOOLEAN,
             Deliver(h, u, respect)
      PROVE  Slots'
  BY <1>1, DeliverKeepsSlots
<1>2. ASSUME NEW h \in Handlers, HandlerStep(h) PROVE Slots'
  <2>1. CASE Inside(h)
    <3>1. \A g \in Handlers \ {h} : pc'[g] = pc[g]
      BY <2>1, InsideMoves DEF TypeOK
    <3>2. UNCHANGED <<limiterVars, url>> /\ {pc[h], pc'[h]} \subseteq InDomain
      BY <2>1, InsideMoves DEF requestVars
    <3> QED BY <3>1, <3>2, InsideKeepsSlots
  <2>2. CASE ResumeGlobal(h)
    BY <2>2, ResumeGlobalKeepsSlots
  <2>3. CASE EnterDomain(h) \/ ResumeDomain(h)
    BY <2>3, AcquireDomainKeepsSlots
  <2>4. CASE LeaveDomain(h)
    BY <2>4, LeaveDomainKeepsSlots
  <2>5. CASE LeaveGlobal(h)
    BY <2>5, LeaveGlobalKeepsSlots
  <2> QED BY <1>2, <2>1, <2>2, <2>3, <2>4, <2>5 DEF HandlerStep, Inside
<1>3. CASE UNCHANGED vars
  <2>1. GlobalSound'
    BY <1>3, GlobalUntouched DEF Slots, vars, limiterVars
  <2>2. \A d \in Domains : DomainSound(d)'
    BY <1>3, DomainUntouched DEF Slots, vars, limiterVars, requestVars
  <2> QED BY <2>1, <2>2 DEF Slots
<1> QED BY <1>1, <1>2, <1>3 DEF Next, Quiet

(***************************************************************************)
(* Types.  Those of the semaphores are part of their soundness.            *)
(***************************************************************************)
LEMMA ResultType ==
    /\ NoResult \in Result
    /\ \A found \in SUBSET Extractors : Article(found) \in Result
    /\ \A e \in {"robots_disallowed", "extraction_failed"} : Failed(e) \in Result
    /\ \A r \in Exceptions : Failed(ClassifyError(r)) \in Result
    /\ \A r \in Statuses \ {"200"} : Failed(HttpError(r)) \in Result
<1>1. \A found \in SUBSET Extractors : Article(found) \in Result
  BY DEF Article, TextFrom, Extractors, Result, Errors
<1>2. \A e \in Errors : Failed(e) \in Result
  BY DEF Failed, Result
<1>3. \A r \in Exceptions : ClassifyError(r) \in Errors
  BY DEF Exceptions, ClassifyError, Errors
<1>4. \A r \in Statuses \ {"200"} : HttpError(r) \in Errors
  BY DEF Statuses, HttpError, Errors
<1>5. NoResult \in Result
  BY DEF NoResult, Result, Errors
<1>6. {"robots_disallowed", "extraction_failed"} \subseteq Errors
  BY DEF Errors
<1> QED BY <1>1, <1>2, <1>3, <1>4, <1>5, <1>6

LEMMA InsideTypes ==
    ASSUME TypeOK, NEW h \in Handlers, Inside(h)
    PROVE  /\ cache' \in [Origins -> {"undefined", "null", "rules"}]
           /\ robotsFailed' \in SUBSET Origins
           /\ tried' \in [Handlers -> Seq(Statuses \cup Exceptions)]
           /\ result' \in [Handlers -> Result]
<1> USE DEF TypeOK
<1>0. url[h] \in Urls /\ OriginOf[url[h]] \in Origins
  BY CrawlAssumption
     DEF Inside, CheckRobots, RobotsAnswer, Download, Retry, ExtractArticle
<1>1. CASE CheckRobots(h) \/ \E robots \in {"rules", "null"} : RobotsAnswer(h, robots)
  <2>1. tried' = tried /\ (result' = result \/
           result' = [result EXCEPT ![h] = Failed("robots_disallowed")])
    BY <1>1 DEF CheckRobots, RobotsAnswer, Decide, Finish
  <2>2. /\ cache' \in [Origins -> {"undefined", "null", "rules"}]
        /\ robotsFailed' \in SUBSET Origins
    BY <1>0, <1>1 DEF CheckRobots, RobotsAnswer, robotsVars
  <2> QED BY <2>1, <2>2, ResultType
<1>2. ASSUME NEW r \in Endings, Download(h, r)
      PROVE  /\ tried' \in [Handlers -> Seq(Statuses \cup Exceptions)]
             /\ result' \in [Handlers -> Result]
             /\ UNCHANGED <<cache, robotsFailed>>
  <2>1. r \in Statuses \cup Exceptions
    BY CrawlAssumption
  <2>2. Append(tried[h], r) \in Seq(Statuses \cup Exceptions)
    BY <2>1
  <2>3. tried' = [tried EXCEPT ![h] = Append(tried[h], r)] /\ UNCHANGED <<cache, robotsFailed>>
    BY <1>2 DEF Download, robotsVars
  <2>4. \/ result' = result
        \/ r \in Statuses \ {"200"} /\ result' = [result EXCEPT ![h] = Failed(HttpError(r))]
        \/ r \in Exceptions /\ result' = [result EXCEPT ![h] = Failed(ClassifyError(r))]
    BY <1>2 DEF Download, Finish
  <2>5. result' \in [Handlers -> Result]
    BY <2>4, ResultType
  <2> QED BY <2>2, <2>3, <2>5
<1>3. CASE Retry(h) \/ ExtractArticle(h)
  <2>1. UNCHANGED <<cache, robotsFailed, tried>>
    BY <1>3 DEF Retry, ExtractArticle, robotsVars
  <2>2. \/ result' = result
        \/ \E found \in SUBSET Extractors : result' = [result EXCEPT ![h] = Article(found)]
        \/ result' = [result EXCEPT ![h] = Failed("extraction_failed")]
    BY <1>3 DEF Retry, ExtractArticle, Finish
  <2> QED BY <2>1, <2>2, ResultType
<1> QED BY <1>1, <1>2, <1>3 DEF Inside

LEMMA DomainsStayFunction ==
    ASSUME TypeOK, [Next]_vars
    PROVE  domains' = [d \in Domains |-> domains'[d]]
<1>1. CASE domains' = domains
  BY <1>1 DEF TypeOK
<1>2. ASSUME NEW h \in Handlers, NEW s, SetDomainSem(h, s)
      PROVE  domains' = [d \in Domains |-> domains'[d]]
  BY <1>2 DEF SetDomainSem, TypeOK
<1>3. ASSUME NEW h \in Handlers, HandlerStep(h)
      PROVE  domains' = domains \/ \E s : SetDomainSem(h, s)
  BY <1>3
  DEF HandlerStep, ResumeGlobal, EnterDomain, ResumeDomain, CheckRobots, RobotsAnswer,
      Download, Retry, ExtractArticle, LeaveDomain, LeaveGlobal, limiterVars
<1> QED BY <1>1, <1>2, <1>3 DEF Next, Quiet, Deliver, vars, limiterVars

LEMMA TypeNext ==
    ASSUME TypeOK, Slots, Slots', [Next]_vars
    PROVE  TypeOK'
<1>0. global' \in Semaphore /\ domains' \in [Domains -> Semaphore]
  <2>1. global' \in Semaphore /\ \A d \in Domains : domains'[d] \in Semaphore
    BY DEF Slots, GlobalSound, DomainSound, Sound
  <2>2. domains' = [d \in Domains |-> domains'[d]]
    BY DomainsStayFunction
  <2> QED BY <2>1, <2>2
<1> USE DEF TypeOK
<1>1. ASSUME NEW h \in Handlers, NEW u \in Urls, NEW respect \in BOOLEAN,
             Deliver(h, u, respect)
      PROVE  TypeOK'
  <2>1. /\ UNCHANGED <<cache, robotsFailed, tried, result>> /\ delivered' = delivered + 1
        /\ url' = [url EXCEPT ![h] = u] /\ obey' = [obey EXCEPT ![h] = respect]
        /\ \E loc \in {"waitGlobal", "domain"} : pc' = [pc EXCEPT ![h] = loc]
    BY <1>1 DEF Deliver, Goto, robotsVars
  <2> QED BY <1>0, <2>1 DEF InGlobal
<1>2. ASSUME NEW h \in Handlers, HandlerStep(h) PROVE TypeOK'
  <2>1. CASE Inside(h)
    <3>1. UNCHANGED <<url, obey, delivered>> /\ pc[h] \in InDomain /\ pc'[h] \in InGlobal
      BY <2>1, InsideMoves, Places DEF requestVars
    <3>2. pc' = [pc EXCEPT ![h] = pc'[h]] /\ pc[h] # "idle"
      BY <2>1, <3>1, InsideMoves, Places
    <3>3. pc' \in [Handlers -> InGlobal \cup {"idle", "waitGlobal", "wokenGlobal"}]
      BY <3>1, <3>2
    <3> QED BY <1>0, <2>1, <3>1, <3>2, <3>3, InsideTypes
  <2>2. CASE ResumeGlobal(h) \/ EnterDomain(h) \/ ResumeDomain(h)
    <3>1. /\ UNCHANGED <<cache, robotsFailed, url, obey, delivered, tried, result>>
          /\ pc[h] # "idle"
          /\ \E loc \in {"domain", "waitDomain", "robots", "fetch"} :
                pc' = [pc EXCEPT ![h] = loc]
      BY <2>2 DEF ResumeGlobal, EnterDomain, ResumeDomain, Goto, First, requestVars, robotsVars
    <3> QED BY <1>0, <3>1, Places
  <2>3. CASE LeaveDomain(h) \/ LeaveGlobal(h)
    <3>1. /\ UNCHANGED <<cache, robotsFailed, delivered>>
          /\ pc[h] # "idle" /\ pc'[h] \in {"leave", "idle"} /\ url[h] \in Urls
          /\ DOMAIN pc' = Handlers
      BY <2>3 DEF LeaveDomain, LeaveGlobal, requestVars, robotsVars
    <3>2. ASSUME NEW g \in Handlers
          PROVE  /\ pc'[g] \in InGlobal \cup {"idle", "waitGlobal", "wokenGlobal"}
                 /\ g # h /\ pc'[g] # "idle" => url[g] \in Urls /\ url'[g] = url[g]
      <4>1. CASE g = h
        BY <3>1, <4>1, Places
      <4>2. CASE g # h
        <5>1. Still(g)
          BY <1>2, <4>2, OthersStill
        <5> QED BY <5>1, Places DEF Still, Queued
      <4> QED BY <4>1, <4>2
    <3>3. pc' \in [Handlers -> InGlobal \cup {"idle", "waitGlobal", "wokenGlobal"}]
      <4>1. pc' = [g \in Handlers |-> pc'[g]]
        BY <2>3 DEF LeaveDomain, LeaveGlobal
      <4> QED BY <3>2, <4>1
    <3>4. /\ obey' \in [Handlers -> BOOLEAN] /\ result' \in [Handlers -> Result]
          /\ tried' \in [Handlers -> Seq(Statuses \cup Exceptions)]
          /\ url' \in [Handlers -> Urls \cup {NoUrl}]
      <4>1. CASE LeaveDomain(h)
        BY <4>1 DEF LeaveDomain, requestVars
      <4>2. CASE LeaveGlobal(h)
        <5>1. NoResult \in Result /\ <<>> \in Seq(Statuses \cup Exceptions)
          BY ResultType
        <5> QED BY <4>2, <5>1 DEF LeaveGlobal
      <4> QED BY <2>3, <4>1, <4>2
    <3>5. pc'[h] # "idle" => url'[h] \in Urls
      BY <2>3, <3>1 DEF LeaveDomain, LeaveGlobal, requestVars
    <3> QED BY <1>0, <3>1, <3>2, <3>3, <3>4, <3>5
  <2> QED BY <1>2, <2>1, <2>2, <2>3 DEF HandlerStep, Inside
<1>3. CASE UNCHANGED vars
  BY <1>3 DEF vars, limiterVars, robotsVars, requestVars
<1> QED BY <1>1, <1>2, <1>3 DEF Next, Quiet

LEMMA ErrorIs ==
    /\ \A e : Failed(e).error = e
    /\ \A found : Article(found).error = "null"
BY DEF Failed, Article

(***************************************************************************)
(* What the handler that takes the step has downloaded and concluded.      *)
(***************************************************************************)
LEMMA OwnProgress ==
    ASSUME TypeOK, NEW h \in Handlers, Progress(h),
           (\E u \in Urls, respect \in BOOLEAN : Deliver(h, u, respect)) \/ HandlerStep(h)
    PROVE  Progress(h)'
<1>1. CASE \E u \in Urls, respect \in BOOLEAN : Deliver(h, u, respect)
  <2>1. /\ pc[h] = "idle" /\ pc'[h] \in {"waitGlobal", "domain"}
        /\ tried' = tried /\ result' = result
    BY <1>1 DEF Deliver, Goto, TypeOK
  <2> QED BY <2>1 DEF Progress, BeforeFetch
<1>2. CASE ResumeGlobal(h) \/ EnterDomain(h) \/ ResumeDomain(h)
  <2>1. /\ pc[h] \in {"wokenGlobal", "domain", "wokenDomain"}
        /\ tried' = tried /\ result' = result /\ obey' = obey
        /\ \/ pc'[h] \in {"domain", "waitDomain"}
           \/ obey[h] /\ pc'[h] = "robots"
           \/ pc'[h] = "fetch"
    BY <1>2 DEF ResumeGlobal, EnterDomain, ResumeDomain, Goto, First, requestVars, TypeOK
  <2>2. tried[h] = <<>> /\ result[h] = NoResult
    BY <2>1 DEF Progress, BeforeFetch
  <2>3. Len(tried[h]) = 0 /\ MaxAttempts \in Nat \ {0}
    BY <2>2, CrawlAssumption
  <2> QED BY <2>1, <2>2, <2>3 DEF Progress, BeforeFetch, RetriedUpTo
<1>3. CASE CheckRobots(h) \/ \E robots \in {"rules", "null"} : RobotsAnswer(h, robots)
  <2>1. /\ pc[h] \in {"robots", "askRobots"} /\ tried' = tried /\ obey' = obey
        /\ \/ pc'[h] = "publish" /\ result'[h] = Failed("robots_disallowed")
           \/ pc'[h] \in {"fetch", "askRobots"} /\ result'[h] = result[h]
    BY <1>3
    DEF CheckRobots, RobotsAnswer, Decide, Finish, Goto, requestVars, TypeOK
  <2>2. tried[h] = <<>> /\ result[h] = NoResult /\ obey[h]
    BY <2>1 DEF Progress, BeforeFetch
  <2>3. Len(tried[h]) = 0 /\ MaxAttempts \in Nat \ {0}
    BY <2>2, CrawlAssumption
  <2> QED BY <2>1, <2>2, <2>3 DEF Progress, BeforeFetch, RetriedUpTo, Forbidden
<1>4. ASSUME NEW r \in Endings, Download(h, r) PROVE Progress(h)'
  <2> DEFINE n == Len(tried[h])
             s == tried'[h]
  <2>1. /\ pc[h] = "fetch" /\ n < MaxAttempts /\ n \in Nat /\ MaxAttempts \in Nat \ {0}
        /\ result[h] = NoResult /\ \A i \in 1..n : CanRetry(tried[h][i])
        /\ tried[h] \in Seq(Statuses \cup Exceptions)
        /\ r \in Statuses \cup Exceptions
    BY <1>4, CrawlAssumption DEF Download, Progress, RetriedUpTo, TypeOK
  <2>2. s = Append(tried[h], r)
    BY <1>4 DEF Download, TypeOK
  <2>3. /\ Len(s) = n + 1 /\ s[n + 1] = r
        /\ \A i \in 1..n : s[i] = tried[h][i]
    BY <2>1, <2>2
  <2>4. \A i \in 1..n : CanRetry(s[i])
    BY <2>1, <2>3
  <2>5. CASE CanRetry(r) /\ n < MaxAttempts - 1 /\ pc'[h] = "backoff" /\ result'[h] = NoResult
    <3>1. \A i \in 1..(n + 1) : CanRetry(s[i])
      BY <2>1, <2>3, <2>4, <2>5
    <3>2. n + 1 < MaxAttempts
      BY <2>1, <2>5
    <3> QED BY <2>3, <2>5, <3>1, <3>2 DEF Progress, BeforeFetch, RetriedUpTo
  <2>6. CASE r = "200" /\ pc'[h] = "extract" /\ result'[h] = NoResult
    <3>1. Len(s) \in 1..MaxAttempts /\ Len(s) - 1 = n
      BY <2>1, <2>3
    <3> QED BY <2>3, <2>4, <2>6, <3>1 DEF Progress, BeforeFetch, RetriedUpTo
  <2>7. CASE /\ pc'[h] = "publish" /\ ~(CanRetry(r) /\ n < MaxAttempts - 1)
             /\ \/ r \in Statuses \ {"200"} /\ result'[h] = Failed(HttpError(r))
                \/ r \in Exceptions /\ result'[h] = Failed(ClassifyError(r))
    <3>1. Len(s) \in 1..MaxAttempts /\ Len(s) - 1 = n
      BY <2>1, <2>3
    <3>2. CanRetry(r) => Len(s) = MaxAttempts
      BY <2>1, <2>3, <2>7
    <3>3. result'[h].error \in Verdicts(r)
      <4>1. CASE r \in Statuses \ {"200"} /\ result'[h] = Failed(HttpError(r))
        <5>1. result'[h].error = HttpError(r)
          BY <4>1, ErrorIs
        <5>2. r # "200" /\ r \notin Exceptions
          BY <4>1 DEF Statuses, Exceptions
        <5> QED BY <5>1, <5>2 DEF Verdicts
      <4>2. CASE r \in Exceptions /\ result'[h] = Failed(ClassifyError(r))
        <5>1. result'[h].error = ClassifyError(r)
          BY <4>2, ErrorIs
        <5>2. r # "200"
          BY <4>2 DEF Exceptions
        <5> QED BY <4>2, <5>1, <5>2 DEF Verdicts
      <4> QED BY <2>7, <4>1, <4>2
    <3>4. Concluded(h)'
      BY <2>3, <2>4, <3>1, <3>2, <3>3 DEF Concluded, RetriedUpTo
    <3> QED BY <2>7, <3>4 DEF Progress, BeforeFetch
  <2> QED BY <1>4, <2>1, <2>5, <2>6, <2>7 DEF Download, Finish, Goto, TypeOK
<1>5. CASE Retry(h)
  <2>1. /\ pc[h] = "backoff" /\ pc'[h] = "fetch"
        /\ tried' = tried /\ result' = result
    BY <1>5 DEF Retry, Goto, TypeOK
  <2> QED BY <2>1 DEF Progress, BeforeFetch, RetriedUpTo
<1>6. CASE ExtractArticle(h)
  <2>1. /\ pc[h] = "extract" /\ pc'[h] = "publish" /\ tried' = tried
        /\ \/ \E found \in SUBSET Extractors : result'[h] = Article(found)
           \/ result'[h] = Failed("extraction_failed")
    BY <1>6 DEF ExtractArticle, Finish, Goto, TypeOK
  <2>2. result'[h].error \in Verdicts("200")
    <3>1. result'[h].error \in {"null", "extraction_failed"}
      BY <2>1, ErrorIs
    <3> QED BY <3>1 DEF Verdicts
  <2>3. ~CanRetry("200")
    BY DEF CanRetry, IsRetryableStatus, Exceptions
  <2>4. Concluded(h)'
    BY <2>1, <2>2, <2>3 DEF Progress, Concluded, RetriedUpTo
  <2> QED BY <2>1, <2>4 DEF Progress, BeforeFetch
<1>7. CASE LeaveDomain(h)
  <2>1. /\ pc[h] = "publish" /\ pc'[h] = "leave"
        /\ tried' = tried /\ result' = result /\ obey' = obey
    BY <1>7 DEF LeaveDomain, requestVars
  <2> QED BY <2>1 DEF Progress, BeforeFetch, Forbidden, Concluded, RetriedUpTo
<1>8. CASE LeaveGlobal(h)
  <2>1. pc'[h] = "idle" /\ tried'[h] = <<>> /\ result'[h] = NoResult
    BY <1>8 DEF LeaveGlobal, TypeOK
  <2> QED BY <2>1 DEF Progress, BeforeFetch
<1> QED BY <1>1, <1>2, <1>3, <1>4, <1>5, <1>6, <1>7, <1>8 DEF HandlerStep

(***************************************************************************)
(* Nobody gets on to a forbidden page but past a robots.txt that failed.   *)
(***************************************************************************)
MayFetch(h) ==
    pc[h] \in {"fetch", "backoff"} /\ obey[h] /\ url[h] \in Disallowed
        => OriginOf[url[h]] \in robotsFailed

LEMMA RobotsNext ==
    ASSUME TypeOK, RobotsKnown, NEW h \in Handlers, \A g \in Handlers \ {h} : Still(g),
           (\E u \in Urls, respect \in BOOLEAN : Deliver(h, u, respect)) \/ HandlerStep(h)
    PROVE  RobotsKnown'
<1>1. robotsFailed \subseteq robotsFailed'
  BY DEF Deliver, HandlerStep, ResumeGlobal, EnterDomain, ResumeDomain, CheckRobots,
         RobotsAnswer, Download, Retry, ExtractArticle, LeaveDomain, LeaveGlobal, robotsVars
<1>2. ASSUME NEW o \in Origins, cache'[o] = "null" PROVE o \in robotsFailed'
  <2>1. CASE cache' = cache
    BY <1>1, <1>2, <2>1 DEF RobotsKnown
  <2>2. ASSUME NEW robots \in {"rules", "null"}, RobotsAnswer(h, robots)
        PROVE  o \in robotsFailed'
    BY <1>2, <2>2 DEF RobotsAnswer, RobotsKnown, TypeOK
  <2> QED
    BY <2>1, <2>2
    DEF Deliver, HandlerStep, ResumeGlobal, EnterDomain, ResumeDomain, CheckRobots,
        Download, Retry, ExtractArticle, LeaveDomain, LeaveGlobal, robotsVars
<1>3. ASSUME NEW g \in Handlers \ {h} PROVE MayFetch(g)'
  BY <1>1 DEF Still, Queued, MayFetch, RobotsKnown
<1>4. MayFetch(h)'
  <2>1. CASE pc[h] \in {"fetch", "backoff"} /\ UNCHANGED <<url, obey>>
    BY <1>1, <2>1 DEF MayFetch, RobotsKnown
  <2>2. CASE pc'[h] \notin {"fetch", "backoff"}
    BY <2>2 DEF MayFetch
  <2>3. CASE EnterDomain(h) \/ ResumeDomain(h)
    <3>1. pc'[h] = "fetch" => ~obey'[h]
      BY <2>3 DEF EnterDomain, ResumeDomain, Goto, First, requestVars, TypeOK
    <3>2. pc'[h] # "backoff"
      BY <2>3 DEF EnterDomain, ResumeDomain, Goto, First, TypeOK
    <3> QED BY <3>1, <3>2 DEF MayFetch
  <2>4. CASE CheckRobots(h)
    <3> DEFINE o == OriginOf[url[h]]
    <3>1. url' = url /\ robotsFailed' = robotsFailed /\ o \in Origins
      BY <2>4, CrawlAssumption DEF CheckRobots, requestVars, robotsVars, TypeOK
    <3>2. pc'[h] = "fetch" => cache[o] = "null" \/ url[h] \notin Disallowed
      BY <2>4, <3>1 DEF CheckRobots, Decide, Finish, Goto, TypeOK
    <3>3. pc'[h] # "backoff"
      BY <2>4 DEF CheckRobots, Decide, Finish, Goto, TypeOK
    <3> QED BY <3>1, <3>2, <3>3 DEF MayFetch, RobotsKnown
  <2>5. ASSUME NEW robots \in {"rules", "null"}, RobotsAnswer(h, robots)
        PROVE  MayFetch(h)'
    <3>1. url' = url /\ (robots = "null" => OriginOf[url[h]] \in robotsFailed')
      BY <2>5 DEF RobotsAnswer, requestVars
    <3>2. pc'[h] = "fetch" => robots = "null" \/ url[h] \notin Disallowed
      BY <2>5 DEF RobotsAnswer, Decide, Finish, Goto, TypeOK
    <3>3. pc'[h] # "backoff"
      BY <2>5 DEF RobotsAnswer, Decide, Finish, Goto, TypeOK
    <3> QED BY <3>1, <3>2, <3>3 DEF MayFetch
  <2>6. CASE (\E r \in Endings : Download(h, r)) \/ Retry(h)
    BY <2>1, <2>6 DEF Download, Retry, requestVars
  <2>7. CASE \E u \in Urls, respect \in BOOLEAN : Deliver(h, u, respect)
    BY <2>2, <2>7 DEF Deliver, Goto, TypeOK
  <2>8. CASE ResumeGlobal(h) \/ ExtractArticle(h) \/ LeaveDomain(h) \/ LeaveGlobal(h)
    BY <2>2, <2>8
    DEF ResumeGlobal, ExtractArticle, Finish, LeaveDomain, LeaveGlobal, Goto, TypeOK
  <2> QED BY <2>3, <2>4, <2>5, <2>6, <2>7, <2>8 DEF HandlerStep
<1> QED BY <1>2, <1>3, <1>4 DEF RobotsKnown, MayFetch
-----------------------------------------------------------------------------
LEMMA CrawlInvariantInit == Init => CrawlInvariant
<1> SUFFICES ASSUME Init PROVE CrawlInvariant
  OBVIOUS
<1>1. NewSemaphore \in Semaphore /\ NewSemaphore.current = 0 /\ NewSemaphore.queue = <<>>
  BY DEF NewSemaphore, Semaphore
<1>2. ASSUME NEW users, NEW waiting, NEW woken, users = {}, waiting = {}
      PROVE  Sound(NewSemaphore, users, waiting, woken)
  BY <1>1, <1>2, FS_EmptySet DEF Sound, QueueExact
<1>3. TypeOK
  BY <1>1, ResultType DEF Init, TypeOK
<1>4. Users = {} /\ Waiting = {}
  BY Places DEF Init, Users, Waiting
<1>5. \A d \in Domains : UsersOf(d) = {} /\ WaitingFor(d) = {}
  BY Places DEF Init, UsersOf, WaitingFor, AtDomain
<1>6. Slots
  <2>1. GlobalSound
    BY <1>2, <1>4 DEF Init, GlobalSound
  <2>2. ASSUME NEW d \in Domains PROVE DomainSound(d)
    BY <1>2, <1>5 DEF Init, DomainSound
  <2> QED BY <2>1, <2>2 DEF Slots
<1>7. \A h \in Handlers : Progress(h)
  BY DEF Init, Progress, BeforeFetch
<1>8. RobotsKnown
  BY DEF Init, RobotsKnown
<1> QED BY <1>3, <1>6, <1>7, <1>8 DEF CrawlInvariant

LEMMA CrawlInvariantNext ==
    ASSUME CrawlInvariant, [Next]_vars
    PROVE  CrawlInvariant'
<1> USE DEF CrawlInvariant
<1>1. Slots'
  BY SlotsNext
<1>2. TypeOK'
  BY <1>1, TypeNext
<1>3. ASSUME NEW h \in Handlers,
             (\E u \in Urls, respect \in BOOLEAN : Deliver(h, u, respect)) \/ HandlerStep(h)
      PROVE  CrawlInvariant'
  <2>1. \A g \in Handlers \ {h} : Still(g)
    BY <1>3, OthersStill
  <2>2. \A g \in Handlers : Progress(g)'
    BY <1>3, <2>1, StillProgress, OwnProgress
  <2>3. RobotsKnown'
    BY <1>3, <2>1, RobotsNext
  <2> QED BY <1>1, <1>2, <2>2, <2>3
<1>4. CASE UNCHANGED vars
  <2>1. \A g \in Handlers : Still(g)
    BY <1>4 DEF vars, requestVars, Still
  <2>2. \A g \in Handlers : Progress(g)'
    BY <2>1, StillProgress
  <2>3. RobotsKnown'
    BY <1>4 DEF RobotsKnown, vars, robotsVars, requestVars
  <2> QED BY <1>1, <1>2, <2>2, <2>3
<1> QED BY <1>3, <1>4 DEF Next, Quiet

LEMMA CrawlInvariantHolds == Spec => []CrawlInvariant
BY CrawlInvariantInit, CrawlInvariantNext, PTL DEF Spec

(***************************************************************************)
(* The semaphores of limiter.js lose neither slots nor waiters, however    *)
(* many handlers come and go between a wakeup and its increment, and       *)
(* whatever the limits are.                                                *)
(***************************************************************************)
THEOREM SlotsAndWaitersKept == Spec => []SemaphoresSound
<1>1. CrawlInvariant => SemaphoresSound
  BY SlotsMean DEF CrawlInvariant
<1> QED BY <1>1, CrawlInvariantHolds, PTL

Honest(h) ==
    LET downloads == Len(tried[h]) IN
    /\ downloads <= MaxAttempts
    /\ \A i \in 1..(downloads - 1) :
           tried[h][i] \in {"429", "503"} \cup (Exceptions \ {"max_bytes_exceeded"})
    /\ result[h] = Failed("robots_disallowed") => downloads = 0 /\ obey[h]
    /\ result[h] \notin {NoResult, Failed("robots_disallowed")} =>
           /\ downloads > 0
           /\ result[h].error \in Verdicts(tried[h][downloads])
           /\ CanRetry(tried[h][downloads]) => downloads = MaxAttempts

(***************************************************************************)
(* A result is the verdict on the last download, after as many as there    *)
(* may be and no more.                                                     *)
(***************************************************************************)
THEOREM ResultsAreHonest == Spec => []HonestResult
<1>1. ASSUME NEW r \in Statuses \cup Exceptions, CanRetry(r)
      PROVE  r \in {"429", "503"} \cup (Exceptions \ {"max_bytes_exceeded"})
  BY <1>1 DEF CanRetry, IsRetryableStatus, ClassifyError, Statuses, Exceptions
<1>2. \A r \in Statuses \cup Exceptions : "robots_disallowed" \notin Verdicts(r)
  BY DEF Verdicts, ClassifyError, HttpError, Statuses, Exceptions
<1>3. NoResult # Failed("robots_disallowed")
  BY DEF NoResult, Failed
<1>4. ASSUME CrawlInvariant, NEW h \in Handlers PROVE Honest(h)
  <2> DEFINE n == Len(tried[h])
  <2>1. /\ n \in Nat /\ MaxAttempts \in Nat \ {0} /\ Progress(h)
        /\ \A i \in 1..n : tried[h][i] \in Statuses \cup Exceptions
        /\ pc[h] \in BeforeFetch \cup {"fetch", "backoff", "extract", "publish", "leave"}
    BY <1>4, CrawlAssumption
    DEF CrawlInvariant, TypeOK, InGlobal, InDomain, BeforeFetch
  <2>2. ASSUME RetriedUpTo(h, n - 1), NEW i \in 1..(n - 1)
        PROVE  tried[h][i] \in {"429", "503"} \cup (Exceptions \ {"max_bytes_exceeded"})
    <3>1. tried[h][i] \in Statuses \cup Exceptions /\ CanRetry(tried[h][i])
      BY <2>1, <2>2 DEF RetriedUpTo
    <3> QED BY <1>1, <3>1
  <2>3. CASE result[h] = NoResult /\ n <= MaxAttempts /\ RetriedUpTo(h, n - 1)
    BY <1>3, <2>2, <2>3 DEF Honest
  <2>4. CASE Forbidden(h)
    <3>1. n = 0
      BY <2>4 DEF Forbidden
    <3> QED BY <2>1, <2>4, <3>1 DEF Honest, Forbidden
  <2>5. CASE Concluded(h)
    <3>1. /\ n \in 1..MaxAttempts /\ RetriedUpTo(h, n - 1)
          /\ result[h].error \in Verdicts(tried[h][n])
          /\ CanRetry(tried[h][n]) => n = MaxAttempts
      BY <2>5 DEF Concluded
    <3>2. result[h].error # "robots_disallowed"
      BY <1>2, <2>1, <3>1
    <3>3. result[h] # Failed("robots_disallowed")
      BY <3>2, ErrorIs
    <3> QED BY <2>1, <2>2, <3>1, <3>3 DEF Honest
  <2>6. CASE pc[h] \in BeforeFetch
    <3>1. n = 0 /\ result[h] = NoResult
      BY <2>1, <2>6 DEF Progress
    <3> QED BY <2>1, <2>3, <3>1 DEF RetriedUpTo
  <2>7. CASE pc[h] \in {"fetch", "backoff", "extract"}
    <3>1. result[h] = NoResult /\ n <= MaxAttempts /\ RetriedUpTo(h, n - 1)
      BY <2>1, <2>7 DEF Progress, RetriedUpTo
    <3> QED BY <2>3, <3>1
  <2> QED BY <2>1, <2>4, <2>5, <2>6, <2>7 DEF Progress
<1>5. CrawlInvariant => HonestResult
  BY <1>4 DEF HonestResult, Honest
<1> QED BY <1>5, CrawlInvariantHolds, PTL

(***************************************************************************)
(* Whatever other handlers cache meanwhile, a forbidden page is visited    *)
(* for a request that respects robots.txt only if that file could not be   *)
(* had.                                                                    *)
(***************************************************************************)
THEOREM ForbiddenNeedsFailedRobots == Spec => []RobotsRespected
<1>1. CrawlInvariant => RobotsRespected
  BY DEF CrawlInvariant, RobotsKnown, RobotsRespected
<1> QED BY <1>1, CrawlInvariantHolds, PTL
=============================================================================

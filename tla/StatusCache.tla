---------------------------- MODULE StatusCache ----------------------------
(***************************************************************************)
(* The website status cache (internal/cache/status.go) with its Redis copy *)
(* (internal/cache/status_persistent.go) and the requests that go through  *)
(* Gateway.CheckAccess (internal/gateway/gateway.go) or the certificate    *)
(* question of Server.allowedHandler (internal/server/server.go), for one  *)
(* domain: domains meet only in the LRU's evictions.                       *)
(*                                                                         *)
(* Every access to the LRU, to Redis or to the portal is a step of its     *)
(* own, so that requests, background revalidations and invalidations       *)
(* interleave between them.  Time is a Tick; an entry carries the ticks    *)
(* left until it expires and its age.  Each change of the website at the   *)
(* portal has a version, and an entry carries the version it was read at.  *)
(***************************************************************************)
EXTENDS Integers

CONSTANTS
  Requests,       \* concurrent requests for the domain
  RequestKinds,   \* "visit": CheckAccess, "allowed": allowedHandler
  Workers,        \* slots for revalidation jobs
  SiteStates,     \* the states the portal may give the website
  Failures,       \* the ways a portal call may fail
  Ttl, ShortTtl, StaleTtl,   \* in ticks
  UseRedis,       \* TRUE: a Redis client is configured
  RedisFailures,  \* the Redis operations that may fail: get, set, del
  MaxVersion      \* bound: changes of the website at the portal

\* What GetWebsite tells of a website: a response with a status, or an error
\* that is an answer.
Responses == {"active", "pending", "broken", "inactive"}
ErrorAnswers == {"notFound", "gone"}
\* Calls that fail: denied, abandoned by the client, timed out, or broken.
AllFailures == {"unauthorized", "canceled", "deadline", "transport"}

ASSUME KindsAssumption == RequestKinds \subseteq {"visit", "allowed"}
ASSUME StatesAssumption == SiteStates \subseteq Responses \cup ErrorAnswers
ASSUME FailuresAssumption == Failures \subseteq AllFailures
ASSUME RedisAssumption == RedisFailures \subseteq {"get", "set", "del"}
ASSUME TtlAssumption == /\ Ttl \in Nat /\ ShortTtl \in Nat /\ StaleTtl \in Nat
                        /\ 0 < ShortTtl /\ ShortTtl <= Ttl /\ 0 < StaleTtl

VARIABLES
  portal,       \* the website at the portal: [val, ver]
  portalUp,     \* whether the portal can be reached
  lru, redis,   \* the domain's entry in each store, or NoEntry
  pending,      \* the domain is in StatusCache.pending
  job,          \* job[w]: a revalidation in the worker pool
  req,          \* req[r]: a request
  inv,          \* the Invalidate call in progress: [pc, ver]
  invalidated   \* history: the version at which the last completed one began

vars == <<portal, portalUp, lru, redis, pending, job, req, inv, invalidated>>

NoEntry == [val |-> "none"]
IdleReq == [pc |-> "idle", kind |-> "visit", val |-> "none", ver |-> 0, entry |-> NoEntry, floor |-> 0]
NoJob == [pc |-> "none", val |-> "none", ver |-> 0, entry |-> NoEntry]
NoInv == [pc |-> "none", ver |-> 0]

Init ==
  /\ portal \in [val : SiteStates, ver : {1}]
  /\ portalUp = TRUE
  /\ lru = NoEntry /\ redis = NoEntry
  /\ pending = FALSE
  /\ job = [w \in Workers |-> NoJob]
  /\ req = [r \in Requests |-> IdleReq]
  /\ inv = NoInv
  /\ invalidated = 1

-----------------------------------------------------------------------------
(* Entries.                                                                *)

MaxAge == Ttl + StaleTtl + 1

\* A new entry: typed is lost once an error has been through Redis, kept is set
\* by KeepAlive.
Entry(val, ver, ttl) ==
  [val |-> val, ver |-> ver, left |-> ttl, age |-> 0, typed |-> TRUE, kept |-> FALSE]

\* SetFromAPI, SetError, SetErrorShortTTL: the TTL of what a call returned.
TtlFor(val) ==
  IF val \in {"active", "inactive", "notFound"} THEN Ttl ELSE ShortTtl

\* StatusPersistentCache.Set then Get or LoadAll: an error survives as its text,
\* which errors.Is no longer recognises.
Persisted(e) == [e EXCEPT !.typed = e.val \in Responses]

\* Classify(e.Response).IsServiceable()
Serviceable(e) == e.val = "active"

Fresh(e) == e.left >= 0
WithinStale(e) == e.left >= -StaleTtl

\* One tick later.
Older(e) ==
  IF e = NoEntry THEN e
  ELSE [e EXCEPT !.left = IF @ < -StaleTtl THEN @ ELSE @ - 1,
                 !.age = IF @ < MaxAge THEN @ + 1 ELSE @]
\* Redis drops an expired key.
OlderKey(e) == LET o == Older(e) IN IF o # NoEntry /\ ~Fresh(o) THEN NoEntry ELSE o

\* persistToRedis: an entry with no time left is not written; a failure is only
\* logged.
PersistToRedis(e) ==
  redis' \in (IF ~UseRedis \/ e.left <= 0 THEN {redis}
              ELSE IF "set" \in RedisFailures THEN {redis, Persisted(e)} ELSE {Persisted(e)})

\* getFromRedis up to the LRU insert: the entries the read may yield.
ReadRedis ==
  IF ~UseRedis THEN {NoEntry}
  ELSE IF "get" \in RedisFailures THEN {redis, NoEntry} ELSE {redis}

\* GetWebsite: the answers the portal may give now.
Answers ==
  (IF portalUp THEN {portal} ELSE {})
  \cup {[val |-> f, ver |-> 0] :
          f \in IF portalUp THEN Failures \cap {"unauthorized", "canceled"} ELSE Failures}

-----------------------------------------------------------------------------
(* The environment.                                                        *)

\* The website is published, removed or changes status.
PortalChange ==
  /\ portal.ver < MaxVersion
  /\ \E v \in SiteStates : portal' = [val |-> v, ver |-> portal.ver + 1]
  /\ UNCHANGED <<portalUp, lru, redis, pending, job, req, inv, invalidated>>

PortalToggle ==
  /\ portalUp' = ~portalUp
  /\ UNCHANGED <<portal, lru, redis, pending, job, req, inv, invalidated>>

\* Time passes while calls are in progress.  None is between reading an entry
\* from Redis and inserting it into the LRU, and what has been returned stays.
Tick ==
  /\ \A r \in Requests : req[r].pc \notin {"redisAdd", "keepAdd"}
  /\ lru' = Older(lru)
  /\ redis' = OlderKey(redis)
  /\ req' = [r \in Requests |->
               IF req[r].pc = "done" THEN req[r] ELSE [req[r] EXCEPT !.entry = Older(@)]]
  /\ job' = [w \in Workers |-> [job[w] EXCEPT !.entry = Older(@)]]
  /\ UNCHANGED <<portal, portalUp, pending, inv, invalidated>>

\* Entries of other domains push this one out of the LRU.
Evict ==
  /\ lru # NoEntry
  /\ lru' = NoEntry
  /\ UNCHANGED <<portal, portalUp, redis, pending, job, req, inv, invalidated>>

\* The process stops and starts: loadFromRedis fills the new LRU.
Restart ==
  /\ lru' \in ReadRedis
  /\ pending' = FALSE
  /\ job' = [w \in Workers |-> NoJob]
  /\ req' = [r \in Requests |-> IdleReq]
  /\ inv' = NoInv
  /\ UNCHANGED <<portal, portalUp, redis, invalidated>>

-----------------------------------------------------------------------------
(* Invalidate, called for a change the SSE stream or the journal reports.  *)

InvalidateLRU ==
  /\ inv.pc = "none"
  /\ lru' = NoEntry
  /\ inv' = [pc |-> "redis", ver |-> portal.ver]
  /\ UNCHANGED <<portal, portalUp, redis, pending, job, req, invalidated>>

InvalidateRedis ==
  /\ inv.pc = "redis"
  /\ redis' \in (IF "del" \in RedisFailures THEN {redis, NoEntry} ELSE {NoEntry})
  /\ inv' = NoInv
  /\ invalidated' = inv.ver
  /\ UNCHANGED <<portal, portalUp, lru, pending, job, req>>

-----------------------------------------------------------------------------
(* revalidate and its job.                                                 *)

\* revalidate(domain): one job per domain at a time.
Revalidate ==
  IF pending
    THEN UNCHANGED <<pending, job>>
    ELSE /\ pending' = TRUE
         /\ \E w \in Workers :
              /\ job[w].pc = "none"
              /\ job' = [job EXCEPT ![w].pc = "queued"]

\* The job asks the portal.  An error, whatever it says, leaves the cache alone.
JobFetch(w) ==
  /\ job[w].pc = "queued"
  /\ \E a \in Answers :
       IF a.val \in Responses
         THEN /\ job' = [job EXCEPT ![w] = [@ EXCEPT !.pc = "install", !.val = a.val, !.ver = a.ver]]
              /\ UNCHANGED pending
         ELSE /\ job' = [job EXCEPT ![w] = NoJob]
              /\ pending' = FALSE
  /\ UNCHANGED <<portal, portalUp, lru, redis, req, inv, invalidated>>

\* SetFromAPI(domain, website).
JobInstall(w) ==
  /\ job[w].pc = "install"
  /\ LET e == Entry(job[w].val, job[w].ver, TtlFor(job[w].val)) IN
       /\ lru' = e
       /\ job' = [job EXCEPT ![w] = [@ EXCEPT !.pc = "persist", !.entry = e]]
  /\ UNCHANGED <<portal, portalUp, redis, pending, req, inv, invalidated>>

\* persistToRedis, then the deferred pending.Delete.
JobPersist(w) ==
  /\ job[w].pc = "persist"
  /\ PersistToRedis(job[w].entry)
  /\ job' = [job EXCEPT ![w] = NoJob]
  /\ pending' = FALSE
  /\ UNCHANGED <<portal, portalUp, lru, req, inv, invalidated>>

JobStep(w) == JobFetch(w) \/ JobInstall(w) \/ JobPersist(w)

-----------------------------------------------------------------------------
(* CheckAccess, and allowedHandler where it differs.                       *)

\* The request moves on, and returns entry e.
Goto(r, pc) == req' = [req EXCEPT ![r] = [@ EXCEPT !.pc = pc]]
GotoWith(r, pc, e) == req' = [req EXCEPT ![r] = [@ EXCEPT !.pc = pc, !.entry = e]]
Return(r, e) == req' = [req EXCEPT ![r] = [IdleReq EXCEPT !.pc = "done", !.kind = req[r].kind,
                                           !.entry = e, !.floor = req[r].floor]]

\* A request begins, once an /allowed one has passed its checks of the name; floor
\* remembers the last completed Invalidate.
Begin(r) ==
  /\ req[r].pc = "idle"
  /\ \E k \in RequestKinds :
       req' = [req EXCEPT ![r] = [IdleReq EXCEPT !.pc = "get", !.kind = k, !.floor = invalidated]]
  /\ UNCHANGED <<portal, portalUp, lru, redis, pending, job, inv, invalidated>>

\* Mutant of IsDomainActive: an expired entry is good enough.
IsDomainActiveStale(e) == e.val = "active"

\* StatusCache.IsDomainActive, of the entry Get returns.
IsDomainActive(e) == Fresh(e) /\ e.val = "active"

\* Get found e: a visit is answered from it, a certificate only if it is active.
Hit(r, e) ==
  IF req[r].kind = "allowed" /\ ~IsDomainActive(e)
    THEN Goto(r, "allowFetch") ELSE Return(r, e)
\* Get found nothing to serve: ask the portal.
Miss(r) == Goto(r, IF req[r].kind = "allowed" THEN "allowFetch" ELSE "fetch")

\* Mutant of Get: an entry past its stale window is still served.
GetForever(r) ==
  /\ req[r].pc = "get"
  /\ \/ lru = NoEntry /\ Goto(r, "redisGet") /\ UNCHANGED <<pending, job>>
     \/ lru # NoEntry /\ Fresh(lru) /\ Hit(r, lru) /\ UNCHANGED <<pending, job>>
     \/ lru # NoEntry /\ ~Fresh(lru) /\ Revalidate /\ Hit(r, lru)
  /\ UNCHANGED <<portal, portalUp, lru, redis, inv, invalidated>>

\* StatusCache.Get on the LRU: fresh, stale (served while it is revalidated), too
\* old, or absent.
Get(r) ==
  /\ req[r].pc = "get"
  /\ \/ /\ lru = NoEntry
        /\ Goto(r, "redisGet")
        /\ UNCHANGED <<pending, job>>
     \/ /\ lru # NoEntry /\ Fresh(lru)
        /\ Hit(r, lru)
        /\ UNCHANGED <<pending, job>>
     \/ /\ lru # NoEntry /\ ~Fresh(lru) /\ WithinStale(lru)
        /\ Revalidate
        /\ Hit(r, lru)
     \/ /\ lru # NoEntry /\ ~WithinStale(lru)
        /\ Miss(r)
        /\ UNCHANGED <<pending, job>>
  /\ UNCHANGED <<portal, portalUp, lru, redis, inv, invalidated>>

\* getFromRedis: read, then (a step of its own) insert into the LRU.
RedisGet(r) ==
  /\ req[r].pc = "redisGet"
  /\ \E e \in ReadRedis :
       IF e = NoEntry THEN Miss(r) ELSE GotoWith(r, "redisAdd", e)
  /\ UNCHANGED <<portal, portalUp, lru, redis, pending, job, inv, invalidated>>

RedisAdd(r) ==
  /\ req[r].pc = "redisAdd"
  /\ lru' = req[r].entry
  /\ Hit(r, req[r].entry)
  /\ UNCHANGED <<portal, portalUp, redis, pending, job, inv, invalidated>>

\* allowedHandler asks the portal and answers; it caches nothing.
AllowFetch(r) ==
  /\ req[r].pc = "allowFetch"
  /\ \E a \in Answers : Return(r, Entry(a.val, a.ver, 0))
  /\ UNCHANGED <<portal, portalUp, lru, redis, pending, job, inv, invalidated>>

\* api.GetWebsite.
Fetch(r) ==
  /\ req[r].pc = "fetch"
  /\ \E a \in Answers :
       req' = [req EXCEPT ![r] = [@ EXCEPT !.pc = "answer", !.val = a.val, !.ver = a.ver]]
  /\ UNCHANGED <<portal, portalUp, lru, redis, pending, job, inv, invalidated>>

\* Put what the call returned into the LRU, with its TTL; Persist follows.
Install(r) ==
  LET e == Entry(req[r].val, req[r].ver, TtlFor(req[r].val)) IN
    /\ lru' = e
    /\ GotoWith(r, "persist", e)

\* An answer of the portal is cached; a canceled request is dropped; an
\* unreachable portal leads to degraded mode.
Answer(r) ==
  /\ req[r].pc = "answer"
  /\ \/ /\ req[r].val \in Responses \cup ErrorAnswers \cup {"unauthorized"}
        /\ Install(r)
     \/ /\ req[r].val = "canceled"
        /\ Return(r, Entry("canceled", 0, 0))
        /\ UNCHANGED lru
     \/ /\ req[r].val \in {"deadline", "transport"}
        /\ Goto(r, "keepAlive")
        /\ UNCHANGED lru
  /\ UNCHANGED <<portal, portalUp, redis, pending, job, inv, invalidated>>

Persist(r) ==
  /\ req[r].pc = "persist"
  /\ PersistToRedis(req[r].entry)
  /\ Return(r, req[r].entry)
  /\ UNCHANGED <<portal, portalUp, lru, pending, job, inv, invalidated>>

\* KeepAlive: whatever is cached, read from the LRU or through Redis, is re-armed
\* for shortTTL, content unchanged, whatever the LRU holds by then.
Rearmed(e) == [e EXCEPT !.left = ShortTtl, !.kept = TRUE]

KeepAlive(r) ==
  /\ req[r].pc = "keepAlive"
  /\ IF lru = NoEntry THEN Goto(r, "keepRedis") ELSE GotoWith(r, "rearm", lru)
  /\ UNCHANGED <<portal, portalUp, lru, redis, pending, job, inv, invalidated>>

KeepRedis(r) ==
  /\ req[r].pc = "keepRedis"
  /\ \E e \in ReadRedis :
       IF e = NoEntry THEN Goto(r, "fallback") ELSE GotoWith(r, "keepAdd", e)
  /\ UNCHANGED <<portal, portalUp, lru, redis, pending, job, inv, invalidated>>

KeepAdd(r) ==
  /\ req[r].pc = "keepAdd"
  /\ lru' = req[r].entry
  /\ Goto(r, "rearm")
  /\ UNCHANGED <<portal, portalUp, redis, pending, job, inv, invalidated>>

KeepRearm(r) ==
  /\ req[r].pc = "rearm"
  /\ lru' = Rearmed(req[r].entry)
  /\ GotoWith(r, "keepPersist", Rearmed(req[r].entry))
  /\ UNCHANGED <<portal, portalUp, redis, pending, job, inv, invalidated>>

KeepPersist(r) ==
  /\ req[r].pc = "keepPersist"
  /\ PersistToRedis(req[r].entry)
  /\ Revalidate
  /\ Goto(r, "fallback")
  /\ UNCHANGED <<portal, portalUp, lru, inv, invalidated>>

\* degradedResponse: serve the cached response if it is serviceable; otherwise
\* the error, cached for shortTTL unless the deadline was exceeded.
Fallback(r) ==
  /\ req[r].pc = "fallback"
  /\ \/ /\ req[r].entry # NoEntry /\ Serviceable(req[r].entry)
        /\ Return(r, req[r].entry)
        /\ UNCHANGED lru
     \/ /\ ~(req[r].entry # NoEntry /\ Serviceable(req[r].entry))
        /\ req[r].val = "deadline"
        /\ Return(r, Entry("deadline", 0, 0))
        /\ UNCHANGED lru
     \/ /\ ~(req[r].entry # NoEntry /\ Serviceable(req[r].entry))
        /\ req[r].val = "transport"
        /\ Install(r)
  /\ UNCHANGED <<portal, portalUp, redis, pending, job, inv, invalidated>>

\* The response has been written.
Finish(r) ==
  /\ req[r].pc = "done"
  /\ req' = [req EXCEPT ![r] = IdleReq]
  /\ UNCHANGED <<portal, portalUp, lru, redis, pending, job, inv, invalidated>>

ReqStep(r) ==
  \/ Get(r) \/ RedisGet(r) \/ RedisAdd(r) \/ AllowFetch(r)
  \/ Fetch(r) \/ Answer(r) \/ Persist(r)
  \/ KeepAlive(r) \/ KeepRedis(r) \/ KeepAdd(r) \/ KeepRearm(r)
  \/ KeepPersist(r)
  \/ Fallback(r) \/ Finish(r)

-----------------------------------------------------------------------------
Next ==
  \/ PortalChange \/ PortalToggle \/ Tick \/ Evict \/ Restart
  \/ InvalidateLRU \/ InvalidateRedis
  \/ \E w \in Workers : JobStep(w)
  \/ \E r \in Requests : Begin(r) \/ ReqStep(r)

\* Requests keep coming; the calls of requests and jobs are bounded by timeouts;
\* time passes, restarts or not.  Nothing makes the portal come back.
Fairness ==
  /\ SF_vars(Tick)
  /\ \A w \in Workers : WF_vars(JobStep(w))
  /\ \A r \in Requests : WF_vars(Begin(r)) /\ WF_vars(ReqStep(r))

Spec == Init /\ [][Next]_vars /\ Fairness

-----------------------------------------------------------------------------
(* AccessControlMiddleware.Wrap: the HTTP status of what CheckAccess       *)
(* returned.                                                               *)

StatusCode(e) ==
  CASE e.val \in {"active", "pending"} -> 200
    [] e.val = "broken" -> 410
    [] e.val = "gone" /\ e.typed -> 410
    [] OTHER -> 404

-----------------------------------------------------------------------------
(* Properties.                                                             *)

\* The entry request r returns.
Served(r) == IF req[r].pc = "done" THEN req[r].entry ELSE NoEntry

\* The longest an entry may be served after it was cached.
Lifetime(e) ==
  (IF e.val \in {"active", "inactive", "notFound"} THEN Ttl ELSE ShortTtl) + StaleTtl

\* What the cache answers is never older than its TTL and the stale window,
\* through LRU, Redis and restarts alike, unless degraded mode re-armed it.
BoundedStaleness ==
  [][\A r \in Requests :
       (Served(r) = NoEntry /\ Served(r)' # NoEntry /\ req[r].pc \in {"get", "redisAdd"})
         => Served(r)'.kept \/ Served(r)'.age <= Lifetime(Served(r)')]_vars

\* A certificate is allowed from the cache only for an active website and within
\* the entry's TTL: the stale window, in which visits are still served, does not
\* extend it, through LRU, Redis and restarts alike.  Degraded mode may.
CertificateWithinTtl ==
  [][\A r \in Requests :
       (/\ Served(r) = NoEntry /\ Served(r)' # NoEntry
        /\ req[r].kind = "allowed" /\ req[r].pc \in {"get", "redisAdd"})
         => /\ Served(r)'.val = "active"
            /\ Served(r)'.kept \/ Served(r)'.age <= Ttl]_vars

\* What a visitor of a website in state v is told: its own status, or 404 for a
\* removed one whose error has lost its type on the way through Redis.
Codes(v) ==
  {StatusCode(Entry(v, 0, 0))} \cup (IF v = "gone" THEN {StatusCode(Persisted(Entry(v, 0, 0)))} ELSE {})

\* Once the portal stays reachable, requests of either kind end up being answered
\* with the website's current version, and visitors with the status that goes with
\* it, whatever raced before: no superseded response and no error of the outage is
\* served for ever.  A client that hangs up, or a portal that denies the gateway,
\* still gets its error.
Converges ==
  <>[]portalUp =>
    <>[](\A r \in Requests :
           Served(r) # NoEntry /\ Served(r).val \notin {"canceled", "unauthorized"}
             => /\ Served(r).ver = portal.ver
                /\ StatusCode(Served(r)) \in Codes(portal.val))

\* "forcing the next request to revalidate from the API": a request that begins
\* after an Invalidate completed is not answered with what preceded it.
InvalidateForcesRevalidation ==
  \A r \in Requests :
    (Served(r) # NoEntry /\ Served(r).val \in Responses \cup ErrorAnswers) =>
      Served(r).ver >= req[r].floor
=============================================================================

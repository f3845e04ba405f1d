------------------------------- MODULE Namesys -------------------------------
(***************************************************************************)
(* The stale-while-revalidate name system (internal/namesys/stale.go) on   *)
(* its store (internal/namesys/store.go), an LRU with a copy in Redis      *)
(* (internal/cache/ipns_stale.go), for one IPNS key.  The entries of other *)
(* keys push this one out of the LRU, and the eviction callback runs after *)
(* the LRU has dropped the entry and its lock.                             *)
(*                                                                         *)
(* Requests, revalidations in the worker pool, the pubsub watchers and the *)
(* eviction callback write the same entry: each access to the LRU, Redis,  *)
(* the sync.Maps or the inner name system is a step.  A published record   *)
(* is a version, and a call of the inner name system answers with the one  *)
(* that is current at some moment of the call.                             *)
(***************************************************************************)
EXTENDS Naturals

CONSTANTS
  Requests,       \* bound: concurrent calls of Resolve or ResolveAsync
  Jobs,           \* bound: revalidation tasks in the pool
  Watchers,       \* bound: watchLoop goroutines alive at once
  RedisMayFail,   \* TRUE: a Redis operation may fail
  MaxVersion,     \* bound: records published
  None

ASSUME VersionAssumption == MaxVersion \in Nat \ {0}
ASSUME NoneAssumption == None \notin Watchers

VARIABLES
  published,   \* the version of the name's record
  lru, redis,  \* the entry in IPNSStore.stale and in Redis, or NoEntry
  pending,     \* the key is in pending
  job,         \* job[j]: a revalidation
  req,         \* req[r]: a Resolve or ResolveAsync
  reg,         \* the watcher in watchers, or None
  watch,       \* watch[w]: a watchLoop goroutine
  evict,       \* where the eviction callback is: "none", "redis" or "watcher"
  phase        \* "boot" (before WarmSubscriptions), "up", and in Stop: "cancelled"
               \* (the contexts), "stopping" (the pool is closed) and "stopped"

vars == <<published, lru, redis, pending, job, req, reg, watch, evict, phase>>

NoEntry == [ver |-> 0, fresh |-> FALSE]
Entry(v) == [ver |-> v, fresh |-> TRUE]      \* cachedAt is now
IdleReq == [pc |-> "idle", ver |-> 0]
NoJob == [pc |-> "none", ver |-> 0]
NoWatch == [pc |-> "none", ver |-> 0, cancelled |-> FALSE]

Init ==
  /\ published = 1
  /\ lru = NoEntry /\ redis = NoEntry
  /\ pending = FALSE
  /\ job = [j \in Jobs |-> NoJob]
  /\ req = [r \in Requests |-> IdleReq]
  /\ reg = None /\ watch = [w \in Watchers |-> NoWatch]
  /\ evict = "none"
  /\ phase = "boot"

-----------------------------------------------------------------------------
(* The environment.                                                        *)

Publish ==
  /\ published < MaxVersion
  /\ published' = published + 1
  /\ UNCHANGED <<lru, redis, pending, job, req, reg, watch, evict, phase>>

\* freshTTL passes.
Expire ==
  /\ lru.fresh \/ redis.fresh
  /\ lru' = [lru EXCEPT !.fresh = FALSE]
  /\ redis' = [redis EXCEPT !.fresh = FALSE]
  /\ UNCHANGED <<published, pending, job, req, reg, watch, evict, phase>>

\* The process starts again; NewIPNSStore loads what Redis has.
Restart ==
  /\ lru' \in {redis} \cup (IF RedisMayFail THEN {NoEntry} ELSE {})
  /\ pending' = FALSE
  /\ job' = [j \in Jobs |-> NoJob]
  /\ req' = [r \in Requests |-> IdleReq]
  /\ reg' = None /\ watch' = [w \in Watchers |-> NoWatch]
  /\ evict' = "none" /\ phase' = "boot"
  /\ UNCHANGED <<published, redis>>

-----------------------------------------------------------------------------
(* The store.                                                              *)

\* PutStale after the LRU: Redis has no expiry, and a failure is only logged.
RedisPut(v) == redis' \in {Entry(v)} \cup (IF RedisMayFail THEN {redis} ELSE {})

\* startWatcher: a watcher is registered and started unless there is one.
StartWatcher ==
  IF reg # None THEN UNCHANGED <<reg, watch>>
  ELSE \E w \in Watchers :
         /\ watch[w].pc = "none"
         /\ reg' = w
         /\ watch' = [watch EXCEPT ![w].pc = "listen"]

\* Another key's PutStale pushes the entry out.
Evict ==
  /\ evict = "none" /\ lru # NoEntry
  /\ lru' = NoEntry
  /\ evict' = "redis"
  /\ UNCHANGED <<published, redis, pending, job, req, reg, watch, phase>>

\* The callback deletes the copy in Redis...
EvictRedis ==
  /\ evict = "redis"
  /\ redis' \in {NoEntry} \cup (IF RedisMayFail THEN {redis} ELSE {})
  /\ evict' = "watcher"
  /\ UNCHANGED <<published, lru, pending, job, req, reg, watch, phase>>

\* Mutant of EvictWatcher: the watcher is cancelled and stays registered.
EvictWatcherKeeps ==
  /\ evict = "watcher"
  /\ evict' = "none"
  /\ watch' = [w \in Watchers |-> IF w = reg THEN [watch[w] EXCEPT !.cancelled = TRUE] ELSE watch[w]]
  /\ UNCHANGED <<published, lru, redis, pending, job, req, reg, phase>>

\* ...then takes the watcher off the map and cancels it.
EvictWatcher ==
  /\ evict = "watcher"
  /\ evict' = "none"
  /\ watch' = [w \in Watchers |-> IF w = reg THEN [watch[w] EXCEPT !.cancelled = TRUE] ELSE watch[w]]
  /\ reg' = None
  /\ UNCHANGED <<published, lru, redis, pending, job, req, phase>>

\* WarmSubscriptions.
Warm ==
  /\ phase = "boot"
  /\ phase' = "up"
  /\ IF lru # NoEntry THEN StartWatcher ELSE UNCHANGED <<reg, watch>>
  /\ UNCHANGED <<published, lru, redis, pending, job, req, evict>>

-----------------------------------------------------------------------------
(* revalidate.                                                             *)

PoolOpen == phase \in {"up", "cancelled"}

\* The key is marked before pool.Submit, which takes the job unless the pool is closed.
Revalidate ==
  /\ pending' = TRUE
  /\ IF pending \/ ~PoolOpen THEN UNCHANGED job
     ELSE \E j \in Jobs :
            /\ job[j].pc = "none"
            /\ job' = [job EXCEPT ![j].pc = "resolve"]

\* inner.Resolve answers.
JobResolve(j) ==
  /\ job[j].pc = "resolve"
  /\ job' = [job EXCEPT ![j] = [pc |-> "put", ver |-> published]]
  /\ UNCHANGED <<published, lru, redis, pending, req, reg, watch, evict, phase>>

\* It fails or times out: the entry stays as it is.
JobFails(j) ==
  /\ job[j].pc = "resolve"
  /\ job' = [job EXCEPT ![j] = NoJob]
  /\ pending' = FALSE
  /\ UNCHANGED <<published, lru, redis, req, reg, watch, evict, phase>>

JobPut(j) ==
  /\ job[j].pc = "put"
  /\ lru' = Entry(job[j].ver)
  /\ job' = [job EXCEPT ![j].pc = "persist"]
  /\ UNCHANGED <<published, redis, pending, req, reg, watch, evict, phase>>

JobPersist(j) ==
  /\ job[j].pc = "persist"
  /\ RedisPut(job[j].ver)
  /\ job' = [job EXCEPT ![j] = [NoJob EXCEPT !.pc = "watch"]]
  /\ UNCHANGED <<published, lru, pending, req, reg, watch, evict, phase>>

\* startWatcher, the prewarm callback and the deferred pending.Delete.
JobWatch(j) ==
  /\ job[j].pc = "watch"
  /\ StartWatcher
  /\ job' = [job EXCEPT ![j] = NoJob]
  /\ pending' = FALSE
  /\ UNCHANGED <<published, lru, redis, req, evict, phase>>

\* What a job does next, but for a failure of the inner name system.
JobStep(j) == JobResolve(j) \/ JobPut(j) \/ JobPersist(j) \/ JobWatch(j)

-----------------------------------------------------------------------------
(* Resolve and ResolveAsync.                                               *)

\* Mutant of Begin: an entry counts as fresh whatever its age.
BeginAlwaysFresh(r) ==
  /\ phase # "boot"
  /\ req[r].pc = "idle"
  /\ req' = [req EXCEPT ![r] = IF lru = NoEntry THEN [pc |-> "resolve", ver |-> 0]
                               ELSE [pc |-> "done", ver |-> lru.ver]]
  /\ UNCHANGED <<published, lru, redis, pending, job, reg, watch, evict, phase>>

\* A cached entry is the answer, and is revalidated in the background if it is not
\* fresh; without one the inner name system is asked.  Stop does not wait for requests:
\* one that the server left running at its graceful timeout comes here afterwards too.
Begin(r) ==
  /\ phase # "boot"
  /\ req[r].pc = "idle"
  /\ \/ /\ lru = NoEntry
        /\ req' = [req EXCEPT ![r].pc = "resolve"]
        /\ UNCHANGED <<pending, job>>
     \/ /\ lru # NoEntry
        /\ req' = [req EXCEPT ![r] = [pc |-> "done", ver |-> lru.ver]]
        /\ IF lru.fresh THEN UNCHANGED <<pending, job>> ELSE Revalidate
  /\ UNCHANGED <<published, lru, redis, reg, watch, evict, phase>>

ReqResolve(r) ==
  /\ req[r].pc = "resolve"
  /\ req' = [req EXCEPT ![r] = [pc |-> "put", ver |-> published]]
  /\ UNCHANGED <<published, lru, redis, pending, job, reg, watch, evict, phase>>

\* An error, no result, or the timeout: nothing is stored, and a result that comes
\* later is dropped.
ReqFails(r) ==
  /\ req[r].pc = "resolve"
  /\ req' = [req EXCEPT ![r].pc = "done"]
  /\ UNCHANGED <<published, lru, redis, pending, job, reg, watch, evict, phase>>

ReqPut(r) ==
  /\ req[r].pc = "put"
  /\ lru' = Entry(req[r].ver)
  /\ req' = [req EXCEPT ![r].pc = "persist"]
  /\ UNCHANGED <<published, redis, pending, job, reg, watch, evict, phase>>

ReqPersist(r) ==
  /\ req[r].pc = "persist"
  /\ RedisPut(req[r].ver)
  /\ req' = [req EXCEPT ![r].pc = "watch"]
  /\ UNCHANGED <<published, lru, pending, job, reg, watch, evict, phase>>

ReqWatch(r) ==
  /\ req[r].pc = "watch"
  /\ StartWatcher
  /\ req' = [req EXCEPT ![r].pc = "done"]
  /\ UNCHANGED <<published, lru, redis, pending, job, evict, phase>>

Finish(r) ==
  /\ req[r].pc = "done"
  /\ req' = [req EXCEPT ![r] = IdleReq]
  /\ UNCHANGED <<published, lru, redis, pending, job, reg, watch, evict, phase>>

ReqStep(r) ==
  ReqResolve(r) \/ ReqFails(r) \/ ReqPut(r) \/ ReqPersist(r) \/ ReqWatch(r) \/ Finish(r)

-----------------------------------------------------------------------------
(* watchLoop.                                                              *)

\* ctx.Done(): cancelled by an eviction or by Stop, for the watchers started later as
\* well, whose contexts derive from the cancelled one.
Cancelled(w) == watch[w].cancelled \/ phase \in {"cancelled", "stopping", "stopped"}

\* A result: an unchanged path is ignored, a new one is stored.  An error, and a new
\* call of ResolveAsync, leave the loop where it is.
WatchResult(w) ==
  /\ watch[w].pc = "listen"
  /\ lru.ver # published
  /\ watch' = [watch EXCEPT ![w] = [@ EXCEPT !.pc = "put", !.ver = published]]
  /\ UNCHANGED <<published, lru, redis, pending, job, req, reg, evict, phase>>

WatchPut(w) ==
  /\ watch[w].pc = "put"
  /\ lru' = Entry(watch[w].ver)
  /\ watch' = [watch EXCEPT ![w].pc = "persist"]
  /\ UNCHANGED <<published, redis, pending, job, req, reg, evict, phase>>

WatchPersist(w) ==
  /\ watch[w].pc = "persist"
  /\ RedisPut(watch[w].ver)
  /\ watch' = [watch EXCEPT ![w] = [@ EXCEPT !.pc = "listen", !.ver = 0]]
  /\ UNCHANGED <<published, lru, pending, job, req, reg, evict, phase>>

\* The channel of ResolveAsync is closed.
WatchClosed(w) ==
  /\ watch[w].pc = "listen"
  /\ watch' = [watch EXCEPT ![w].pc = "exit"]
  /\ UNCHANGED <<published, lru, redis, pending, job, req, reg, evict, phase>>

\* Mutant of WatchDone: the loop looks at the channel only.
WatchDoneNever(w) ==
  /\ FALSE
  /\ UNCHANGED vars

WatchDone(w) ==
  /\ watch[w].pc = "listen" /\ Cancelled(w)
  /\ watch' = [watch EXCEPT ![w].pc = "exit"]
  /\ UNCHANGED <<published, lru, redis, pending, job, req, reg, evict, phase>>

\* The deferred function: Load and compare, then (a step of its own) Delete.
WatchExit(w) ==
  /\ watch[w].pc = "exit"
  /\ watch' = [watch EXCEPT ![w] = IF reg = w THEN [@ EXCEPT !.pc = "delete"] ELSE NoWatch]
  /\ UNCHANGED <<published, lru, redis, pending, job, req, reg, evict, phase>>

WatchDelete(w) ==
  /\ watch[w].pc = "delete"
  /\ reg' = None
  /\ watch' = [watch EXCEPT ![w] = NoWatch]
  /\ UNCHANGED <<published, lru, redis, pending, job, req, evict, phase>>

\* What the loop does without an event.
WatchStep(w) == WatchPut(w) \/ WatchPersist(w) \/ WatchDone(w) \/ WatchExit(w) \/ WatchDelete(w)

-----------------------------------------------------------------------------
(* Stop, called by Gateway.Close whether requests are left or not.         *)

\* s.cancel().
StopBegin ==
  /\ phase = "up"
  /\ phase' = "cancelled"
  /\ UNCHANGED <<published, lru, redis, pending, job, req, reg, watch, evict>>

\* pool.StopWait closes the pool...
StopPool ==
  /\ phase = "cancelled"
  /\ phase' = "stopping"
  /\ UNCHANGED <<published, lru, redis, pending, job, req, reg, watch, evict>>

\* ...and waits for the jobs that it has taken.
StopReturn ==
  /\ phase = "stopping"
  /\ \A j \in Jobs : job[j].pc = "none"
  /\ phase' = "stopped"
  /\ UNCHANGED <<published, lru, redis, pending, job, req, reg, watch, evict>>

-----------------------------------------------------------------------------
Next ==
  \/ Publish \/ Expire \/ Restart
  \/ Evict \/ EvictRedis \/ EvictWatcher \/ Warm
  \/ \E j \in Jobs : JobStep(j) \/ JobFails(j)
  \/ \E r \in Requests : Begin(r) \/ ReqStep(r)
  \/ \E w \in Watchers : WatchResult(w) \/ WatchClosed(w) \/ WatchStep(w)
  \/ StopBegin \/ StopPool \/ StopReturn

\* Time passes, requests keep coming until Stop, goroutines run, and a name that is
\* asked for again and again is resolved some time.  A select with two ready cases
\* picks at random, so ctx.Done() is taken some time.  Nothing makes a watcher hear of
\* a record: pubsub may lose it.
Fairness ==
  /\ SF_vars(Expire) /\ WF_vars(Warm) /\ WF_vars(StopPool) /\ WF_vars(StopReturn)
  /\ WF_vars(EvictRedis) /\ WF_vars(EvictWatcher)
  /\ \A j \in Jobs : WF_vars(JobStep(j) \/ JobFails(j)) /\ SF_vars(JobResolve(j))
  /\ \A r \in Requests : WF_vars(phase = "up" /\ Begin(r)) /\ WF_vars(ReqStep(r))
  /\ \A w \in Watchers : WF_vars(WatchStep(w)) /\ SF_vars(WatchDone(w))

Spec == Init /\ [][Next]_vars /\ Fairness

-----------------------------------------------------------------------------
(* Properties.                                                             *)

\* The watcher on the map is one that has not ended (it may be in its deferred function)
\* and that no eviction has cancelled: startWatcher takes the map's word, so that a dead
\* one there would end the pubsub updates of the key.
RegisteredWatcherLives ==
  reg # None => watch[reg].pc # "none" /\ ~watch[reg].cancelled

\* Once publishing stops, and the gateway stays up, requests end up being answered
\* with the last record even if pubsub never delivers it, whatever older results
\* raced with newer ones before.
Converges ==
  <>[](phase = "up") =>
    <>[](\A r \in Requests : (req[r].pc = "done" /\ req[r].ver # 0) => req[r].ver = published)

\* Once Stop has begun every watcher ends: those on the map, one that an eviction has
\* taken off it, and one that a running revalidation, or a request that has outlived
\* the server, starts when the others have been told to end.
StopEndsWatchers ==
  \A w \in Watchers :
    (phase \in {"cancelled", "stopping", "stopped"} /\ watch[w].pc # "none")
      ~> (phase = "boot" \/ watch[w].pc = "none")
=============================================================================

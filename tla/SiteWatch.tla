----------------------------- MODULE SiteWatch -----------------------------
(***************************************************************************)
(* How a website that was served as broken is served again: the broken-    *)
(* site watcher (BrokenWatcher), the reconciler in the form it promises    *)
(* (Replay), the event client between them (internal/event,                *)
(* cmd/gateway/main.go) and the statuses that requests find in the cache   *)
(* (internal/cache/status.go).                                             *)
(*                                                                         *)
(* The watcher asks the event client whether it is connected and the       *)
(* reconciler whether it is ready: connected is the client's own flag, and *)
(* told what the client has told the reconciler so far.  The stored        *)
(* position concerns the reconciler alone and is hidden; the steps of Stop *)
(* are left to BrokenWatcher.                                              *)
(*                                                                         *)
(* A status is an entry of StatusCache without its times, in the LRU and   *)
(* in Redis.  Invalidate is two steps, the second of which may fail, and   *)
(* so is each way a status is put back: by a request or a revalidation     *)
(* that asked the portal, that found it in Redis, or that keeps it alive.  *)
(* A gateway without Redis is one whose writes to it all fail.             *)
(***************************************************************************)
EXTENDS BrokenWatcher, Sequences

CONSTANTS
  Fills,           \* requests and revalidations that store a status, at a time
  MaxChanges       \* bound: changes the portal journals

ASSUME ChangesAssumption == MaxChanges \in Nat

VARIABLES
  told,                   \* the state of the stream that the reconciler was told
  subject,                \* the journal: the domain of each change
  done, mark,             \* the rest of Replay's state
  applying,     \* changes whose Invalidate has yet to delete the Redis copy
  purging,      \* the same of the watcher's recover
  lru, redis,   \* the status of each domain in the LRU and in Redis
  fill,         \* fill[f]: a status on its way into the cache
  serving,      \* domains of which a request was answered as broken, not marked yet
  asked         \* history: the mark, when the watcher last asked for readiness

R == INSTANCE Replay WITH last <- Len(subject), saved <- 0, connected <- told

replay == <<subject, done, told, ready, mark>>
watcher == <<broken, notFound, pc, todo, cur, answer, callbacks, stop, streak>>
cache == <<lru, redis, fill>>
siteVars == <<connected, replay, applying, site, watcher, purging, cache, serving, asked>>

\* "broken" is a response in that state or ErrGone, both answered with 410; "none" is
\* no status, or an error of another kind, which says nothing that a change ends (and
\* then Redis may be read although the LRU has the error, as it may once that is
\* evicted).  late (history): the status is out of date, and the invalidation for
\* the last change of its domain could not prevent it.
Status(st) == [st |-> st, late |-> FALSE]
NoStatus == Status("none")
NoFill == [pc |-> "idle", dom |-> NoDomain, status |-> NoStatus]

SiteInit ==
  /\ subject = <<>> /\ R!Init
  /\ Init
  /\ applying = {} /\ purging = FALSE
  /\ lru = [d \in Domains |-> NoStatus]
  /\ redis = [d \in Domains |-> NoStatus]
  /\ fill = [f \in Fills |-> NoFill]
  /\ serving = {}
  /\ asked = 0

\* Visitors are told something the last change, which was journaled, has ended.
Outdated(d, st) ==
  \/ site[d] = "active" /\ st = "broken"
  \/ site[d] = "deleted" /\ st = "active"

Late(d, s) == [s EXCEPT !.late = @ \/ Outdated(d, s.st)]

-----------------------------------------------------------------------------
(* The portal and the event client.                                        *)

\* A website becomes active or is removed, which the portal journals, or breaks,
\* which it does not.
PortalChange(d) ==
  /\ \E s \in SiteStates \ {site[d]} :
       /\ site' = [site EXCEPT ![d] = s]
       /\ IF s = "broken"
            THEN UNCHANGED <<subject, done>>
            ELSE /\ Len(subject) < MaxChanges
                 /\ subject' = Append(subject, d)
                 /\ UNCHANGED done /\ R!Change
  /\ lru' = [lru EXCEPT ![d].late = FALSE]
  /\ redis' = [redis EXCEPT ![d].late = FALSE]
  /\ fill' = [f \in Fills |->
                IF fill[f].dom = d THEN [fill[f] EXCEPT !.status.late = FALSE] ELSE fill[f]]
  /\ UNCHANGED <<connected, told, ready, mark, applying, watcher, purging, serving, asked>>

\* The client connects or loses the stream, once it has reported the last change.
LinkChange ==
  /\ connected = told
  /\ connected' = ~connected
  /\ UNCHANGED <<replay, applying, site, watcher, purging, cache, serving, asked>>

\* wireSSEStats: the client reports its state to Reconciler.OnConnect.
Report ==
  /\ connected # told
  /\ UNCHANGED subject
  /\ IF connected THEN R!Up ELSE R!Down
  /\ UNCHANGED <<connected, applying, site, watcher, purging, cache, serving, asked>>

-----------------------------------------------------------------------------
(* The reconciler and the realtime handler.                                *)

\* Mutant of RemoveLRU: the status in the LRU is left alone.
RemoveNothing(d) == lru' = lru

\* Invalidate(d), first step: cache.Remove.
RemoveLRU(d) == lru' = [lru EXCEPT ![d] = NoStatus]

\* A change is applied, from the stream or from the journal, more than once perhaps.
\* What is on its way into the cache, Remove comes too early for.
ApplyChange(e) ==
  /\ e \notin applying
  /\ applying' = applying \cup {e}
  /\ RemoveLRU(subject[e])
  /\ fill' = [f \in Fills |->
                IF fill[f].dom = subject[e]
                  THEN [fill[f] EXCEPT !.status = Late(subject[e], @)] ELSE fill[f]]
  /\ UNCHANGED <<connected, replay, site, watcher, purging, redis, serving, asked>>

\* Mutant of DeleteRedis: the copy in Redis is left alone.
DeleteNothing(d) == redis' = redis

\* Invalidate(d), second step: redis.Delete, whose error is ignored.
DeleteRedis(d) == redis' \in {[redis EXCEPT ![d] = s] : s \in {NoStatus, Late(d, redis[d])}}

\* The second step of Invalidate, after which the change has had its effect.
FinishChange(e) ==
  /\ e \in applying
  /\ applying' = applying \ {e}
  /\ DeleteRedis(subject[e])
  /\ UNCHANGED subject
  /\ R!Effect(e)
  /\ UNCHANGED <<connected, site, watcher, purging, lru, fill, serving, asked>>

\* The stream delivers a change of this session, which had no effect yet.
Deliver ==
  /\ connected /\ told
  /\ \E e \in 1..Len(subject) : e > mark /\ e \notin done /\ ApplyChange(e)

BecomeReady ==
  /\ ~ready
  /\ UNCHANGED subject
  /\ R!BecomeReady
  /\ UNCHANGED <<connected, applying, site, watcher, purging, cache, serving, asked>>

-----------------------------------------------------------------------------
(* Requests and revalidations: a status on its way into the cache.         *)

Start(f, label, d, s) == fill' = [fill EXCEPT ![f] = [pc |-> label, dom |-> d, status |-> s]]
MoveOn(f, label) == fill' = [fill EXCEPT ![f].pc = label]
FillOnly ==
  UNCHANGED <<connected, replay, applying, site, watcher, purging, asked>>

\* What GetWebsite gives for d: a removed website is gone, or not found, and requests
\* cache a call that fails, too.
Fetched(d) ==
  {"none", IF site[d] = "active" THEN "active" ELSE "broken"}

\* Nothing is cached, it expired, or it is being revalidated: the portal is asked.
Ask(f, d) ==
  /\ fill[f].pc = "idle"
  /\ \E st \in Fetched(d) : Start(f, "add", d, Status(st))
  /\ FillOnly /\ UNCHANGED <<lru, redis, serving>>

\* getFromRedis, for Get or KeepAlive: the LRU has no status, and Redis one that
\* the Invalidate in progress, if any, will delete too late.
ReadRedis(f, d) ==
  /\ fill[f].pc = "idle"
  /\ lru[d] = NoStatus /\ redis[d] # NoStatus
  /\ Start(f, "insert", d,
           IF \E e \in applying : subject[e] = d THEN Late(d, redis[d]) ELSE redis[d])
  /\ FillOnly /\ UNCHANGED <<lru, redis, serving>>

\* The request is answered, and if it found the website broken, marks it later.
Answered(d, s) ==
  serving' \in (IF s.st = "broken" THEN {serving, serving \cup {d}} ELSE {serving})

\* The status read from Redis enters the LRU, whatever that holds by now.  Get
\* returns it, KeepAlive stores it once more.
Insert(f) ==
  /\ fill[f].pc = "insert"
  /\ lru' = [lru EXCEPT ![fill[f].dom] = fill[f].status]
  /\ \/ /\ fill' = [fill EXCEPT ![f] = NoFill]
        /\ Answered(fill[f].dom, fill[f].status)
     \/ MoveOn(f, "add") /\ UNCHANGED serving
  /\ FillOnly /\ UNCHANGED redis

\* KeepAlive: the status in the LRU, however old, is stored again.
KeepAlive(f, d) ==
  /\ fill[f].pc = "idle"
  /\ lru[d] # NoStatus
  /\ Start(f, "add", d, lru[d])
  /\ FillOnly /\ UNCHANGED <<lru, redis, serving>>

\* The status enters the LRU, whatever has happened meanwhile.
Add(f) ==
  /\ fill[f].pc = "add"
  /\ lru' = [lru EXCEPT ![fill[f].dom] = fill[f].status]
  /\ MoveOn(f, "persist")
  /\ FillOnly /\ UNCHANGED <<redis, serving>>

\* What Redis keeps of a status: an error loses its type.
Persisted(s) == {s} \cup (IF s.st = "broken" THEN {NoStatus} ELSE {})

\* persistToRedis, which may fail.
Persist(f) ==
  /\ fill[f].pc = "persist"
  /\ redis' \in {redis} \cup {[redis EXCEPT ![fill[f].dom] = s] : s \in Persisted(fill[f].status)}
  /\ fill' = [fill EXCEPT ![f] = NoFill]
  /\ Answered(fill[f].dom, fill[f].status)
  /\ FillOnly /\ UNCHANGED lru

\* A request finds the website broken in the LRU.
ServeBroken(d) ==
  /\ lru[d].st = "broken"
  /\ serving' = serving \cup {d}
  /\ FillOnly /\ UNCHANGED cache

\* A request answered with 410 marks the domain.
Mark(d) ==
  /\ d \in serving
  /\ MarkBroken(d)
  /\ serving' = serving \ {d}
  /\ UNCHANGED <<subject, done, told, mark, applying, purging, cache, asked>>

\* The LRU evicts the status, or Redis drops the expired copy.
Expire(d) ==
  /\ \/ /\ lru[d] # NoStatus
        /\ lru' = [lru EXCEPT ![d] = NoStatus]
        /\ UNCHANGED redis
     \/ /\ redis[d] # NoStatus
        /\ redis' = [redis EXCEPT ![d] = NoStatus]
        /\ UNCHANGED lru
  /\ FillOnly /\ UNCHANGED <<fill, serving>>

-----------------------------------------------------------------------------
(* The watcher.                                                            *)

WatcherOnly == UNCHANGED <<subject, done, told, mark, applying, fill, serving>>

AskReadiness ==
  /\ AskReady
  /\ asked' = IF pc' = "clear" THEN mark ELSE 0
  /\ WatcherOnly /\ UNCHANGED <<lru, redis, purging>>

\* recover: cache.Invalidate(domain), in two steps, then the callback.
RecoverInvalidate ==
  /\ pc = "callback" /\ ~purging
  /\ RemoveLRU(cur)
  /\ purging' = TRUE
  /\ UNCHANGED <<connected, ready, site, watcher, redis, asked>>
  /\ WatcherOnly

Recover ==
  /\ purging
  /\ RecoverCallback
  /\ redis' \in {redis, [redis EXCEPT ![cur] = NoStatus]}
  /\ purging' = FALSE
  /\ WatcherOnly /\ UNCHANGED <<lru, asked>>

WatcherStep ==
  \/ /\ \/ TickConnected \/ TickDisconnected \/ Clear
        \/ Snapshot \/ PollNext \/ PollDone \/ ConfirmNotFound
        \/ DropDeleted \/ ResetNotFound \/ RecoverForget
     /\ asked' = 0
     /\ WatcherOnly /\ UNCHANGED <<lru, redis, purging>>
  \/ AskReadiness
  \/ RecoverInvalidate
  \/ Recover

RecoverReturns(d) ==
  CallbackReturns(d) /\ WatcherOnly /\ UNCHANGED <<lru, redis, purging, asked>>

-----------------------------------------------------------------------------
\* The process stops and starts: the watch set is gone, Redis keeps its statuses,
\* and loadFromRedis brings back those of them that it can read.
Crash ==
  /\ UNCHANGED <<subject, site, stop, redis>>
  /\ connected' = FALSE
  /\ R!Crash
  /\ applying' = {} /\ purging' = FALSE
  /\ broken' = {}
  /\ notFound' = [d \in Domains |-> 0] /\ streak' = notFound'
  /\ pc' = "select" /\ todo' = {} /\ cur' = NoDomain /\ answer' = "none"
  /\ callbacks' = [d \in Domains |-> 0]
  /\ \E loaded \in SUBSET Domains :
       lru' = [d \in Domains |-> IF d \in loaded THEN redis[d] ELSE NoStatus]
  /\ fill' = [f \in Fills |-> NoFill]
  /\ serving' = {}
  /\ asked' = 0

SiteNext ==
  \/ LinkChange \/ Report \/ Deliver \/ BecomeReady \/ Crash
  \/ \E e \in 1..Len(subject) : ApplyChange(e) \/ FinishChange(e)
  \/ \E f \in Fills : Insert(f) \/ Add(f) \/ Persist(f)
  \/ \E f \in Fills, d \in Domains : Ask(f, d) \/ ReadRedis(f, d) \/ KeepAlive(f, d)
  \/ \E d \in Domains :
       PortalChange(d) \/ ServeBroken(d) \/ Mark(d) \/ Expire(d) \/ RecoverReturns(d)
  \/ WatcherStep

\* Callbacks of the client are called, a stream that is up delivers, what is being
\* applied is finished, requests keep coming, and the watcher's goroutines run
\* (BrokenWatcher).  Nothing makes a status expire, the stream come back or a
\* reconcile run succeed.
SiteFairness ==
  /\ WF_siteVars(Report) /\ WF_siteVars(Deliver)
  /\ WF_siteVars(\E e \in applying : FinishChange(e))
  /\ WF_siteVars(WatcherStep)
  /\ \A d \in Domains :
       WF_siteVars(ServeBroken(d)) /\ WF_siteVars(Mark(d)) /\ WF_siteVars(RecoverReturns(d))

SiteSpec == SiteInit /\ [][SiteNext]_siteVars /\ SiteFairness

-----------------------------------------------------------------------------
(* Properties.                                                             *)

\* The watch set is cleared only after every change older than the session in which
\* the watcher asked has been applied, although the stream may have dropped and the
\* watcher may have been told of new broken sites since: what a clear forgets about
\* the time before, the journal has made good.
ClearIsJustified == pc = "clear" => 1..asked \subseteq done

\* A website that is active again but cached as broken, or removed but cached as
\* active, in the LRU or in Redis, has a change on its way that will invalidate it,
\* through disconnects, restarts and recoveries, unless the Invalidate of the last
\* change came too early for a status on its way into the cache, or failed in Redis.
ChangePending ==
  \A d \in Domains : \A s \in {lru[d], redis[d]} :
    Outdated(d, s.st) /\ ~s.late
      => \E e \in 1..Len(subject) : e \notin done /\ subject[e] = d

\* A website that stays active does not stay broken for its visitors, even if no
\* status ever expires.  While the stream stays down, the polls see to it, whatever
\* crossed or outlived an invalidation; while it stays up and reconciled, the events
\* do, unless the status is one of those.  Exempt are polls that all fail and
\* endless restarts.
SiteRecovers ==
  \A d \in Domains :
    (/\ <>[](site[d] = "active")
     /\ <>[][PollNext /\ cur' = d => answer' # "error"]_siteVars
     /\ <>[][~Crash]_siteVars)
      => /\ <>[]~connected => []<>(lru[d].st # "broken")
         /\ <>[]ready => []<>(lru[d].st # "broken" \/ lru[d].late)
=============================================================================

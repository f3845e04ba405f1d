------------------------- MODULE StatusCacheProofs -------------------------
(***************************************************************************)
(* How old an answer of StatusCache may be, for every choice of the TTLs   *)
(* and of the failures, and any number of requests, jobs and versions; and *)
(* that a domain is revalidated by one job at a time.                      *)
(***************************************************************************)
EXTENDS StatusCache, TLAPS

Vals == Responses \cup ErrorAnswers \cup AllFailures
EntryType == [val : Vals, ver : Nat, left : Int, age : Nat, typed : BOOLEAN, kept : BOOLEAN]

\* An entry that no outage has re-armed is as old as the time it has used of its
\* TTL, until it has left the stale window.
AgeKnown(e) == e.kept \/ e.left < -StaleTtl \/ e.age + e.left <= TtlFor(e.val)

EntryOK(e) == e \in EntryType /\ AgeKnown(e)
MaybeEntry(e) == e = NoEntry \/ EntryOK(e)

ReqPcs == {"idle", "get", "redisGet", "redisAdd", "allowFetch", "fetch", "answer", "persist",
           "keepAlive", "keepRedis", "keepAdd", "rearm", "keepPersist", "fallback", "done"}
ReqType == [pc : ReqPcs, kind : {"visit", "allowed"}, val : Vals \cup {"none"}, ver : Nat,
            entry : EntryType \cup {NoEntry}, floor : Nat]
JobType == [pc : {"none", "queued", "install", "persist"}, val : Responses \cup {"none"},
            ver : Nat, entry : EntryType \cup {NoEntry}]

\* A request holds an entry whose age is known, and one from where it inserts,
\* stores or returns it; what it has read from Redis has not expired.
ReqOK(q) ==
  /\ q \in ReqType
  /\ MaybeEntry(q.entry)
  /\ q.pc \in {"redisAdd", "keepAdd", "rearm", "keepPersist", "persist", "done"} => q.entry # NoEntry
  /\ q.pc = "redisAdd" => Fresh(q.entry)

\* So does a job, which installs only what the portal answered.
JobOK(k) ==
  /\ k \in JobType
  /\ MaybeEntry(k.entry)
  /\ k.pc = "install" => k.val # "none"
  /\ k.pc = "persist" => k.entry # NoEntry

\* Both stores hold entries whose age is known, and Redis none that has expired.
StoresOK ==
  /\ MaybeEntry(lru)
  /\ MaybeEntry(redis)
  /\ redis # NoEntry => Fresh(redis)

VersionsOK ==
  /\ portal \in [val : SiteStates, ver : Nat]
  /\ inv \in [pc : {"none", "redis"}, ver : Nat]
  /\ invalidated \in Nat

RequestsOK == req \in [Requests -> ReqType] /\ \A r \in Requests : ReqOK(req[r])
JobsOK == job \in [Workers -> JobType] /\ \A w \in Workers : JobOK(job[w])

\* The domain is pending exactly while a job works for it, and only one does:
\* LoadOrStore and the deferred Delete pair up, so that a stale domain neither
\* floods the pool nor stays pending, never to be revalidated again.
OneRevalidation ==
  /\ pending \in BOOLEAN
  /\ \A v, w \in Workers : job[v].pc # "none" /\ job[w].pc # "none" => v = w
  /\ pending <=> \E w \in Workers : job[w].pc # "none"

StatusInv == VersionsOK /\ StoresOK /\ RequestsOK /\ JobsOK /\ OneRevalidation

-----------------------------------------------------------------------------
(* Entries.                                                                *)

LEMMA Ttls == \A v : TtlFor(v) \in Nat /\ TtlFor(v) <= Ttl
  BY TtlAssumption DEF TtlFor

LEMMA EntryIsSome == ASSUME NEW e, EntryOK(e) PROVE e # NoEntry
  BY DEF EntryOK, EntryType, NoEntry, Vals, Responses, ErrorAnswers, AllFailures

LEMMA NewEntry ==
  ASSUME NEW v \in Vals, NEW n \in Nat, NEW t \in Nat, t <= TtlFor(v)
  PROVE  EntryOK(Entry(v, n, t)) /\ Entry(v, n, t).val = v
  BY Ttls DEF Entry, EntryOK, EntryType, AgeKnown

\* A tick keeps what is known of an entry's age.
LEMMA OlderKeeps == ASSUME NEW e, MaybeEntry(e) PROVE MaybeEntry(Older(e))
  <1>1. CASE e = NoEntry BY <1>1 DEF Older, MaybeEntry
  <1>2. CASE e # NoEntry
    <2> DEFINE l == IF e.left < -StaleTtl THEN e.left ELSE e.left - 1
               a == IF e.age < MaxAge THEN e.age + 1 ELSE e.age
    <2>1. e \in EntryType /\ AgeKnown(e)
      BY <1>2 DEF MaybeEntry, EntryOK
    <2>2. Older(e) = [e EXCEPT !.left = l, !.age = a]
      BY <1>2, <2>1 DEF Older, EntryType
    <2>3. l \in Int /\ a \in Nat
      BY <2>1, TtlAssumption DEF EntryType, MaxAge
    <2>4. e.kept \/ l < -StaleTtl \/ a + l <= TtlFor(e.val)
      BY <2>1, Ttls, TtlAssumption DEF EntryType, AgeKnown, MaxAge
    <2> HIDE DEF l, a
    <2>5. /\ Older(e) \in EntryType /\ Older(e).kept = e.kept /\ Older(e).val = e.val
          /\ Older(e).left = l /\ Older(e).age = a
      BY <2>1, <2>2, <2>3 DEF EntryType
    <2> QED BY <2>4, <2>5 DEF MaybeEntry, EntryOK, AgeKnown
  <1> QED BY <1>1, <1>2

LEMMA OlderIsSome == ASSUME NEW e, EntryOK(e) PROVE Older(e) # NoEntry
  BY EntryIsSome DEF Older, EntryOK, EntryType, NoEntry, Vals, Responses, ErrorAnswers, AllFailures

LEMMA OlderKeyKeeps ==
  ASSUME NEW e, MaybeEntry(e)
  PROVE  MaybeEntry(OlderKey(e)) /\ (OlderKey(e) # NoEntry => Fresh(OlderKey(e)))
  BY OlderKeeps DEF OlderKey, MaybeEntry

LEMMA PersistedKeeps ==
  ASSUME NEW e, EntryOK(e)
  PROVE  EntryOK(Persisted(e)) /\ Persisted(e).left = e.left
  <1> DEFINE b == e.val \in Responses
  <1>1. b \in BOOLEAN /\ Persisted(e) = [e EXCEPT !.typed = b]
    BY DEF Persisted
  <1> HIDE DEF b
  <1>2. /\ Persisted(e) \in EntryType /\ Persisted(e).val = e.val /\ Persisted(e).left = e.left
        /\ Persisted(e).age = e.age /\ Persisted(e).kept = e.kept
    BY <1>1 DEF EntryOK, EntryType
  <1> QED BY <1>2 DEF EntryOK, AgeKnown

LEMMA RearmedKeeps == ASSUME NEW e, EntryOK(e) PROVE EntryOK(Rearmed(e))
  <1>1. ShortTtl \in Int
    BY TtlAssumption
  <1>2. Rearmed(e) \in EntryType
    BY <1>1 DEF Rearmed, EntryOK, EntryType
  <1>3. Rearmed(e).kept = TRUE
    BY DEF Rearmed, EntryOK, EntryType
  <1> QED BY <1>2, <1>3 DEF EntryOK, AgeKnown

\* What PersistToRedis leaves in Redis.
LEMMA PersistKeeps ==
  ASSUME StoresOK, NEW e, EntryOK(e), PersistToRedis(e), UNCHANGED lru
  PROVE  StoresOK'
  <1>1. redis' = redis \/ (redis' = Persisted(e) /\ ~(e.left <= 0))
    BY DEF PersistToRedis
  <1>2. e.left \in Int
    BY DEF EntryOK, EntryType
  <1> QED BY <1>1, <1>2, PersistedKeeps DEF StoresOK, MaybeEntry, Fresh

\* What a read of Redis yields.
LEMMA ReadKeeps ==
  ASSUME StoresOK, NEW e \in ReadRedis
  PROVE  MaybeEntry(e) /\ (e # NoEntry => EntryOK(e) /\ Fresh(e))
  BY DEF StoresOK, ReadRedis, MaybeEntry

\* What a portal call returns.
LEMMA AnswerTypes ==
  ASSUME VersionsOK, NEW a \in Answers
  PROVE  a.val \in Vals /\ a.ver \in Nat
  BY StatesAssumption, FailuresAssumption DEF VersionsOK, Answers, Vals

LEMMA Records ==
  /\ NoJob \in JobType /\ JobOK(NoJob) /\ NoJob.pc = "none"
  /\ IdleReq \in ReqType /\ ReqOK(IdleReq) /\ IdleReq.pc = "idle"
  BY DEF NoJob, JobType, JobOK, IdleReq, ReqType, ReqOK, ReqPcs, MaybeEntry

-----------------------------------------------------------------------------
(* Steps of a request.                                                     *)

\* Request r becomes q.
Becomes(r, q) == ReqOK(q) /\ req' = [req EXCEPT ![r] = q]

LEMMA RequestMoves ==
  ASSUME RequestsOK, NEW r \in Requests, NEW q, Becomes(r, q)
  PROVE  RequestsOK' /\ req'[r] = q
  <1>1. q \in ReqType
    BY DEF Becomes, ReqOK
  <1> QED BY <1>1 DEF RequestsOK, Becomes

\* It moves on, with its entry or another, or returns one.
LEMMA Gotos ==
  ASSUME RequestsOK, NEW r \in Requests, NEW pc \in ReqPcs
  PROVE  /\ Goto(r, pc) /\ pc \in {"redisGet", "fetch", "allowFetch", "keepAlive", "keepRedis", "fallback"}
               => RequestsOK' /\ req'[r].pc = pc
         /\ Goto(r, pc) /\ pc \notin {"redisAdd", "done"} /\ req[r].entry # NoEntry
               => RequestsOK' /\ req'[r].pc = pc
         /\ \A e : GotoWith(r, pc, e) /\ EntryOK(e) /\ (pc = "redisAdd" => Fresh(e))
               => RequestsOK' /\ req'[r].pc = pc
         /\ \A e : Return(r, e) /\ EntryOK(e) => RequestsOK' /\ req'[r].pc = "done" /\ req'[r].entry = e
  <1>0. ReqOK(req[r]) /\ req[r] \in ReqType
    BY DEF RequestsOK
  <1>1. ASSUME Goto(r, pc),
               \/ pc \in {"redisGet", "fetch", "allowFetch", "keepAlive", "keepRedis", "fallback"}
               \/ pc \notin {"redisAdd", "done"} /\ req[r].entry # NoEntry
        PROVE  RequestsOK' /\ req'[r].pc = pc
    <2> DEFINE q == [req[r] EXCEPT !.pc = pc]
    <2>1. q \in ReqType /\ q.pc = pc /\ q.entry = req[r].entry
      BY <1>0 DEF ReqType
    <2>2. req' = [req EXCEPT ![r] = q]
      BY <1>1 DEF Goto
    <2> HIDE DEF q
    <2>3. ReqOK(q)
      BY <1>0, <1>1, <2>1 DEF ReqOK
    <2> QED BY <2>1, <2>2, <2>3, RequestMoves DEF Becomes
  <1>2. ASSUME NEW e, GotoWith(r, pc, e), EntryOK(e), pc = "redisAdd" => Fresh(e)
        PROVE  RequestsOK' /\ req'[r].pc = pc
    <2> DEFINE q == [req[r] EXCEPT !.pc = pc, !.entry = e]
    <2>1. q \in ReqType /\ q.pc = pc /\ q.entry = e
      BY <1>0, <1>2 DEF ReqType, EntryOK
    <2>2. req' = [req EXCEPT ![r] = q]
      BY <1>2 DEF GotoWith
    <2> HIDE DEF q
    <2>3. ReqOK(q)
      BY <1>2, <2>1, EntryIsSome DEF ReqOK, MaybeEntry
    <2> QED BY <2>1, <2>2, <2>3, RequestMoves DEF Becomes
  <1>3. ASSUME NEW e, Return(r, e), EntryOK(e)
        PROVE  RequestsOK' /\ req'[r].pc = "done" /\ req'[r].entry = e
    <2> DEFINE q == [IdleReq EXCEPT !.pc = "done", !.kind = req[r].kind,
                                    !.entry = e, !.floor = req[r].floor]
    <2>1. q \in ReqType /\ q.pc = "done" /\ q.entry = e
      BY <1>0, <1>3, Records DEF ReqType, EntryOK, ReqPcs
    <2>2. req' = [req EXCEPT ![r] = q]
      BY <1>3 DEF Return
    <2> HIDE DEF q
    <2>3. ReqOK(q)
      BY <1>3, <2>1, EntryIsSome DEF ReqOK, MaybeEntry
    <2> QED BY <2>1, <2>2, <2>3, RequestMoves DEF Becomes
  <1> QED BY <1>1, <1>2, <1>3

\* The outcomes of Get: a visit is answered, a certificate question may go on.
LEMMA HitKeeps ==
  ASSUME RequestsOK, NEW r \in Requests, NEW e, EntryOK(e), Hit(r, e)
  PROVE  /\ RequestsOK'
         /\ req'[r].pc = "done" =>
              req'[r].entry = e /\ (req[r].kind = "allowed" => IsDomainActive(e))
  <1>1. CASE req[r].kind = "allowed" /\ ~IsDomainActive(e)
    <2>1. Goto(r, "allowFetch") /\ "allowFetch" \in ReqPcs
      BY <1>1 DEF Hit, ReqPcs
    <2> QED BY <2>1, Gotos
  <1>2. CASE ~(req[r].kind = "allowed" /\ ~IsDomainActive(e))
    <2>1. Return(r, e) /\ "done" \in ReqPcs
      BY <1>2 DEF Hit, ReqPcs
    <2> QED BY <1>2, <2>1, Gotos
  <1> QED BY <1>1, <1>2

LEMMA MissKeeps ==
  ASSUME RequestsOK, NEW r \in Requests, Miss(r)
  PROVE  RequestsOK' /\ req'[r].pc # "done"
  <1>1. PICK pc \in {"allowFetch", "fetch"} : Goto(r, pc)
    BY DEF Miss
  <1>2. pc \in ReqPcs
    BY DEF ReqPcs
  <1> QED BY <1>1, <1>2, Gotos

\* revalidate, and the steps of a job, keep one job for the domain.
LEMMA RevalidateKeeps ==
  ASSUME JobsOK, OneRevalidation, Revalidate
  PROVE  JobsOK' /\ OneRevalidation'
  <1>1. CASE pending
    BY <1>1 DEF Revalidate, JobsOK, OneRevalidation
  <1>2. CASE ~pending
    <2>1. PICK w \in Workers : job[w].pc = "none" /\ job' = [job EXCEPT ![w].pc = "queued"]
      BY <1>2 DEF Revalidate
    <2>2. pending' = TRUE
      BY <1>2 DEF Revalidate
    <2> DEFINE k == [job[w] EXCEPT !.pc = "queued"]
    <2>3. job[w] \in JobType /\ JobOK(job[w])
      BY DEF JobsOK
    <2>4. k \in JobType /\ k.pc = "queued" /\ k.entry = job[w].entry
      BY <2>3 DEF JobType
    <2>5. job' = [job EXCEPT ![w] = k]
      BY <2>1
    <2> HIDE DEF k
    <2>6. JobOK(k)
      BY <2>3, <2>4 DEF JobOK
    <2>7. \A v \in Workers : job'[v] = IF v = w THEN k ELSE job[v]
      BY <2>5 DEF JobsOK
    <2>8. JobsOK'
      BY <2>4, <2>5, <2>6, <2>7 DEF JobsOK
    <2>9. OneRevalidation'
      BY <1>2, <2>2, <2>4, <2>7 DEF OneRevalidation
    <2> QED BY <2>8, <2>9
  <1> QED BY <1>1, <1>2

\* A request asks, keeps its answer, and goes through the stores.
LEMMA RequestKeeps ==
  ASSUME StatusInv, NEW r \in Requests, Begin(r) \/ ReqStep(r)
  PROVE  StatusInv'
  <1>0. /\ VersionsOK /\ StoresOK /\ RequestsOK /\ JobsOK /\ OneRevalidation
        /\ ReqOK(req[r]) /\ req[r] \in ReqType /\ req[r].ver \in Nat
    BY DEF StatusInv, RequestsOK, ReqType
  <1>u. /\ UNCHANGED <<portal, inv, invalidated>> => VersionsOK'
        /\ UNCHANGED <<lru, redis>> => StoresOK'
        /\ UNCHANGED <<pending, job>> => JobsOK' /\ OneRevalidation'
    BY <1>0 DEF VersionsOK, StoresOK, JobsOK, OneRevalidation
  <1>l. ASSUME EntryOK(lru)', UNCHANGED redis PROVE StoresOK'
    BY <1>0, <1>l DEF StoresOK, MaybeEntry
  <1>p. /\ {"redisGet", "redisAdd", "keepAlive", "keepRedis", "keepAdd", "rearm"} \subseteq ReqPcs
        /\ {"keepPersist", "fallback", "persist", "done"} \subseteq ReqPcs
    BY DEF ReqPcs
  <1>i. ASSUME Install(r), req[r].val \in Vals, UNCHANGED redis PROVE RequestsOK' /\ StoresOK'
    <2> DEFINE e == Entry(req[r].val, req[r].ver, TtlFor(req[r].val))
    <2>1. EntryOK(e)
      BY <1>0, <1>i, Ttls, NewEntry
    <2>2. lru' = e /\ GotoWith(r, "persist", e)
      BY <1>i DEF Install
    <2> HIDE DEF e
    <2> QED BY <1>0, <1>i, <1>l, <1>p, <2>1, <2>2, Gotos
  <1>1. CASE Begin(r)
    <2>1. PICK k \in RequestKinds :
            req' = [req EXCEPT ![r] = [IdleReq EXCEPT !.pc = "get", !.kind = k, !.floor = invalidated]]
      BY <1>1 DEF Begin
    <2> DEFINE q == [IdleReq EXCEPT !.pc = "get", !.kind = k, !.floor = invalidated]
    <2>2. q \in ReqType /\ q.pc = "get" /\ q.entry = NoEntry
      BY <1>0, Records, KindsAssumption DEF VersionsOK, ReqType, ReqPcs, IdleReq
    <2>3. req' = [req EXCEPT ![r] = q]
      BY <2>1
    <2> HIDE DEF q
    <2>4. Becomes(r, q)
      BY <2>2, <2>3 DEF Becomes, ReqOK, MaybeEntry
    <2>5. RequestsOK'
      BY <1>0, <2>4, RequestMoves
    <2> QED BY <1>1, <1>u, <2>5 DEF Begin, StatusInv
  <1>2. CASE Get(r)
    <2>1. RequestsOK'
      <3>1. CASE lru = NoEntry BY <1>0, <1>2, <1>p, <3>1, Gotos DEF Get
      <3>2. CASE lru # NoEntry
        <4>1. EntryOK(lru)
          BY <1>0, <3>2 DEF StoresOK, MaybeEntry
        <4>2. Hit(r, lru) \/ Miss(r)
          BY <1>2, <3>2 DEF Get
        <4> QED BY <1>0, <4>1, <4>2, HitKeeps, MissKeeps
      <3> QED BY <3>1, <3>2
    <2>2. JobsOK' /\ OneRevalidation'
      BY <1>0, <1>2, <1>u, RevalidateKeeps DEF Get
    <2> QED BY <1>2, <1>u, <2>1, <2>2 DEF Get, StatusInv
  <1>3. CASE RedisGet(r)
    <2>1. PICK e \in ReadRedis : IF e = NoEntry THEN Miss(r) ELSE GotoWith(r, "redisAdd", e)
      BY <1>3 DEF RedisGet
    <2>2. RequestsOK'
      BY <1>0, <1>p, <2>1, ReadKeeps, MissKeeps, Gotos
    <2> QED BY <1>3, <1>u, <2>2 DEF RedisGet, StatusInv
  <1>4. CASE RedisAdd(r)
    <2>1. EntryOK(req[r].entry)
      BY <1>0, <1>4 DEF RedisAdd, ReqOK, MaybeEntry
    <2>2. RequestsOK'
      BY <1>0, <1>4, <2>1, HitKeeps DEF RedisAdd
    <2>3. StoresOK'
      BY <1>4, <1>l, <2>1 DEF RedisAdd
    <2> QED BY <1>4, <1>u, <2>2, <2>3 DEF RedisAdd, StatusInv
  <1>5. CASE AllowFetch(r)
    <2>1. PICK a \in Answers : Return(r, Entry(a.val, a.ver, 0))
      BY <1>5 DEF AllowFetch
    <2>2. EntryOK(Entry(a.val, a.ver, 0))
      BY <1>0, AnswerTypes, NewEntry, Ttls
    <2>3. RequestsOK'
      BY <1>0, <1>p, <2>1, <2>2, Gotos
    <2> QED BY <1>5, <1>u, <2>3 DEF AllowFetch, StatusInv
  <1>6. CASE Fetch(r)
    <2>1. PICK a \in Answers :
            req' = [req EXCEPT ![r] = [@ EXCEPT !.pc = "answer", !.val = a.val, !.ver = a.ver]]
      BY <1>6 DEF Fetch
    <2> DEFINE q == [req[r] EXCEPT !.pc = "answer", !.val = a.val, !.ver = a.ver]
    <2>2. q \in ReqType /\ q.pc = "answer" /\ q.entry = req[r].entry
      BY <1>0, AnswerTypes DEF ReqType, ReqPcs
    <2>3. req' = [req EXCEPT ![r] = q]
      BY <2>1
    <2> HIDE DEF q
    <2>4. Becomes(r, q)
      BY <1>0, <2>2, <2>3 DEF Becomes, ReqOK
    <2>5. RequestsOK'
      BY <1>0, <2>4, RequestMoves
    <2> QED BY <1>6, <1>u, <2>5 DEF Fetch, StatusInv
  <1>7. CASE Answer(r)
    <2>1. CASE Install(r)
      <3>1. req[r].val \in Vals
        BY <1>7, <1>0 DEF Answer, Vals, AllFailures
      <3> QED BY <1>7, <1>i, <1>u, <2>1, <3>1 DEF Answer, StatusInv
    <2>2. CASE ~Install(r)
      <3>1. EntryOK(Entry("canceled", 0, 0))
        BY NewEntry, Ttls DEF Vals, AllFailures
      <3>2. RequestsOK' /\ UNCHANGED lru
        BY <1>0, <1>7, <1>p, <2>2, <3>1, Gotos DEF Answer
      <3> QED BY <1>7, <1>u, <3>2 DEF Answer, StatusInv
    <2> QED BY <2>1, <2>2
  <1>8. CASE Persist(r)
    <2>1. EntryOK(req[r].entry)
      BY <1>0, <1>8 DEF Persist, ReqOK, MaybeEntry
    <2>2. RequestsOK'
      BY <1>0, <1>8, <1>p, <2>1, Gotos DEF Persist
    <2>3. StoresOK'
      BY <1>0, <1>8, <2>1, PersistKeeps DEF Persist
    <2> QED BY <1>8, <1>u, <2>2, <2>3 DEF Persist, StatusInv
  <1>9. CASE KeepAlive(r)
    <2>1. RequestsOK'
      BY <1>0, <1>9, <1>p, Gotos DEF KeepAlive, StoresOK, MaybeEntry
    <2> QED BY <1>9, <1>u, <2>1 DEF KeepAlive, StatusInv
  <1>10. CASE KeepRedis(r)
    <2>1. PICK e \in ReadRedis : IF e = NoEntry THEN Goto(r, "fallback") ELSE GotoWith(r, "keepAdd", e)
      BY <1>10 DEF KeepRedis
    <2>2. RequestsOK'
      BY <1>0, <1>p, <2>1, ReadKeeps, Gotos
    <2> QED BY <1>10, <1>u, <2>2 DEF KeepRedis, StatusInv
  <1>11. CASE KeepAdd(r)
    <2>1. EntryOK(req[r].entry) /\ req[r].entry # NoEntry
      BY <1>0, <1>11 DEF KeepAdd, ReqOK, MaybeEntry
    <2>2. RequestsOK'
      BY <1>0, <1>11, <1>p, <2>1, Gotos DEF KeepAdd
    <2>3. StoresOK'
      BY <1>11, <1>l, <2>1 DEF KeepAdd
    <2> QED BY <1>11, <1>u, <2>2, <2>3 DEF KeepAdd, StatusInv
  <1>12. CASE KeepRearm(r)
    <2>1. EntryOK(Rearmed(req[r].entry))
      BY <1>0, <1>12, RearmedKeeps DEF KeepRearm, ReqOK, MaybeEntry
    <2>2. RequestsOK'
      BY <1>0, <1>12, <1>p, <2>1, Gotos DEF KeepRearm
    <2>3. StoresOK'
      BY <1>12, <1>l, <2>1 DEF KeepRearm
    <2> QED BY <1>12, <1>u, <2>2, <2>3 DEF KeepRearm, StatusInv
  <1>13. CASE KeepPersist(r)
    <2>1. EntryOK(req[r].entry) /\ req[r].entry # NoEntry
      BY <1>0, <1>13 DEF KeepPersist, ReqOK, MaybeEntry
    <2>2. RequestsOK'
      BY <1>0, <1>13, <1>p, <2>1, Gotos DEF KeepPersist
    <2>3. StoresOK'
      BY <1>0, <1>13, <2>1, PersistKeeps DEF KeepPersist
    <2>4. JobsOK' /\ OneRevalidation'
      BY <1>0, <1>13, RevalidateKeeps DEF KeepPersist
    <2> QED BY <1>13, <1>u, <2>2, <2>3, <2>4 DEF KeepPersist, StatusInv
  <1>14. CASE Fallback(r)
    <2>1. CASE Install(r) /\ req[r].val = "transport"
      <3>1. req[r].val \in Vals
        BY <2>1 DEF Vals, AllFailures
      <3> QED BY <1>14, <1>i, <1>u, <2>1, <3>1 DEF Fallback, StatusInv
    <2>2. CASE ~(Install(r) /\ req[r].val = "transport")
      <3>1. EntryOK(Entry("deadline", 0, 0))
        BY NewEntry, Ttls DEF Vals, AllFailures
      <3>2. RequestsOK' /\ UNCHANGED lru
        BY <1>0, <1>14, <1>p, <2>2, <3>1, Gotos DEF Fallback, ReqOK, MaybeEntry
      <3> QED BY <1>14, <1>u, <3>2 DEF Fallback, StatusInv
    <2> QED BY <2>1, <2>2
  <1>15. CASE Finish(r)
    <2>1. RequestsOK'
      BY <1>0, <1>15, Records, RequestMoves DEF Finish, Becomes
    <2> QED BY <1>15, <1>u, <2>1 DEF Finish, StatusInv
  <1> QED BY <1>1, <1>2, <1>3, <1>4, <1>5, <1>6, <1>7, <1>8, <1>9, <1>10, <1>11, <1>12, <1>13,
             <1>14, <1>15 DEF ReqStep

-----------------------------------------------------------------------------
(* Jobs, time, invalidations and restarts.                                 *)

LEMMA JobKeeps ==
  ASSUME StatusInv, NEW w \in Workers, JobStep(w)
  PROVE  StatusInv'
  <1>0. /\ VersionsOK /\ StoresOK /\ RequestsOK /\ JobsOK /\ OneRevalidation
        /\ JobOK(job[w]) /\ job[w] \in JobType /\ job[w].pc # "none"
    BY DEF StatusInv, JobsOK, JobStep, JobFetch, JobInstall, JobPersist
  <1>u. UNCHANGED <<portal, req, inv, invalidated>> => VersionsOK' /\ RequestsOK'
    BY <1>0 DEF VersionsOK, RequestsOK
  <1>e. ASSUME job' = [job EXCEPT ![w] = NoJob], pending' = FALSE
        PROVE  JobsOK' /\ OneRevalidation'
    <2>1. \A v \in Workers : job'[v] = IF v = w THEN NoJob ELSE job[v]
      BY <1>0, <1>e DEF JobsOK
    <2>2. JobsOK'
      BY <1>0, <1>e, <2>1, Records DEF JobsOK
    <2>3. \A v \in Workers : job'[v].pc = "none"
      BY <1>0, <2>1, Records DEF OneRevalidation
    <2>4. OneRevalidation'
      BY <1>e, <2>3 DEF OneRevalidation
    <2> QED BY <2>2, <2>4
  <1>g. ASSUME NEW k, k \in JobType, JobOK(k), k.pc # "none", job' = [job EXCEPT ![w] = k],
               UNCHANGED pending
        PROVE  JobsOK' /\ OneRevalidation'
    <2>1. \A v \in Workers : job'[v] = IF v = w THEN k ELSE job[v]
      BY <1>0, <1>g DEF JobsOK
    <2>2. JobsOK'
      BY <1>0, <1>g, <2>1 DEF JobsOK
    <2>3. OneRevalidation'
      BY <1>0, <1>g, <2>1 DEF OneRevalidation
    <2> QED BY <2>2, <2>3
  <1>1. CASE JobFetch(w)
    <2>1. PICK a \in Answers :
            IF a.val \in Responses
              THEN /\ job' = [job EXCEPT ![w] = [@ EXCEPT !.pc = "install", !.val = a.val, !.ver = a.ver]]
                   /\ UNCHANGED pending
              ELSE /\ job' = [job EXCEPT ![w] = NoJob]
                   /\ pending' = FALSE
      BY <1>1 DEF JobFetch
    <2>2. CASE a.val \in Responses
      <3> DEFINE k == [job[w] EXCEPT !.pc = "install", !.val = a.val, !.ver = a.ver]
      <3>1. k \in JobType /\ k.pc = "install" /\ k.entry = job[w].entry /\ k.val = a.val
        BY <1>0, <2>2, AnswerTypes DEF JobType
      <3>2. job' = [job EXCEPT ![w] = k] /\ UNCHANGED pending
        BY <2>1, <2>2
      <3> HIDE DEF k
      <3>3. JobOK(k)
        BY <1>0, <2>2, <3>1 DEF JobOK, Responses
      <3>4. JobsOK' /\ OneRevalidation'
        BY <1>g, <3>1, <3>2, <3>3
      <3> QED BY <1>0, <1>1, <1>u, <3>4 DEF JobFetch, StatusInv, StoresOK
    <2>3. CASE a.val \notin Responses
      BY <1>0, <1>1, <1>e, <1>u, <2>1, <2>3 DEF JobFetch, StatusInv, StoresOK
    <2> QED BY <2>2, <2>3
  <1>2. CASE JobInstall(w)
    <2> DEFINE e == Entry(job[w].val, job[w].ver, TtlFor(job[w].val))
               k == [job[w] EXCEPT !.pc = "persist", !.entry = e]
    <2>1. job[w].val \in Vals /\ job[w].ver \in Nat
      BY <1>0, <1>2 DEF JobInstall, JobOK, JobType, Vals
    <2>2. EntryOK(e)
      BY <2>1, Ttls, NewEntry
    <2>3. lru' = e /\ job' = [job EXCEPT ![w] = k]
      BY <1>2 DEF JobInstall
    <2> HIDE DEF e
    <2>4. k \in JobType /\ k.pc = "persist" /\ k.entry = e
      BY <1>0, <2>2 DEF JobType, EntryOK
    <2> HIDE DEF k
    <2>5. JobOK(k)
      BY <2>2, <2>4, EntryIsSome DEF JobOK, MaybeEntry
    <2>6. JobsOK' /\ OneRevalidation'
      BY <1>2, <1>g, <2>3, <2>4, <2>5 DEF JobInstall
    <2>7. StoresOK'
      BY <1>0, <1>2, <2>2, <2>3 DEF JobInstall, StoresOK, MaybeEntry
    <2> QED BY <1>2, <1>u, <2>6, <2>7 DEF JobInstall, StatusInv
  <1>3. CASE JobPersist(w)
    <2>1. EntryOK(job[w].entry)
      BY <1>0, <1>3 DEF JobPersist, JobOK, MaybeEntry
    <2>2. StoresOK'
      BY <1>0, <1>3, <2>1, PersistKeeps DEF JobPersist
    <2> QED BY <1>3, <1>e, <1>u, <2>2 DEF JobPersist, StatusInv
  <1> QED BY <1>1, <1>2, <1>3 DEF JobStep

\* A tick makes every entry older, but for those on their way into the LRU: there
\* are none.
LEMMA TickKeeps == StatusInv /\ Tick => StatusInv'
  <1> SUFFICES ASSUME StatusInv, Tick PROVE StatusInv'
    OBVIOUS
  <1>1. StoresOK'
    BY OlderKeeps, OlderKeyKeeps DEF StatusInv, StoresOK, Tick
  <1>2. ASSUME NEW r \in Requests PROVE req'[r] \in ReqType /\ ReqOK(req'[r])
    <2>0. ReqOK(req[r]) /\ req[r] \in ReqType /\ req[r].pc \notin {"redisAdd", "keepAdd"}
      BY DEF StatusInv, RequestsOK, Tick
    <2>1. CASE req[r].pc = "done" BY <2>0, <2>1 DEF Tick
    <2>2. CASE req[r].pc # "done"
      <3> DEFINE e == Older(req[r].entry)
                 q == [req[r] EXCEPT !.entry = e]
      <3>1. req'[r] = q
        BY <2>2 DEF Tick
      <3>2. MaybeEntry(e) /\ (req[r].entry # NoEntry => e # NoEntry)
        BY <2>0, OlderKeeps, OlderIsSome DEF ReqOK, MaybeEntry
      <3>3. e \in EntryType \cup {NoEntry}
        BY <3>2 DEF MaybeEntry, EntryOK
      <3> HIDE DEF e
      <3>4. q \in ReqType /\ q.pc = req[r].pc /\ q.entry = e
        BY <2>0, <3>3 DEF ReqType
      <3> QED BY <2>0, <3>1, <3>2, <3>4 DEF ReqOK
    <2> QED BY <2>1, <2>2
  <1>3. RequestsOK'
    BY <1>2 DEF RequestsOK, Tick
  <1>4. ASSUME NEW w \in Workers
        PROVE  job'[w] \in JobType /\ JobOK(job'[w]) /\ job'[w].pc = job[w].pc
    <2>0. JobOK(job[w]) /\ job[w] \in JobType
      BY DEF StatusInv, JobsOK
    <2> DEFINE e == Older(job[w].entry)
               k == [job[w] EXCEPT !.entry = e]
    <2>1. job'[w] = k
      BY DEF Tick
    <2>2. MaybeEntry(e) /\ (job[w].entry # NoEntry => e # NoEntry)
      BY <2>0, OlderKeeps, OlderIsSome DEF JobOK, MaybeEntry
    <2>3. e \in EntryType \cup {NoEntry}
      BY <2>2 DEF MaybeEntry, EntryOK
    <2> HIDE DEF e
    <2>4. k \in JobType /\ k.pc = job[w].pc /\ k.entry = e /\ k.val = job[w].val
      BY <2>0, <2>3 DEF JobType
    <2> QED BY <2>0, <2>1, <2>2, <2>4 DEF JobOK
  <1>5. JobsOK' /\ OneRevalidation'
    BY <1>4 DEF JobsOK, OneRevalidation, StatusInv, Tick
  <1> QED BY <1>1, <1>3, <1>5 DEF StatusInv, VersionsOK, Tick

\* Every step keeps the invariant.
LEMMA Inductive == StatusInv /\ [Next]_vars => StatusInv'
  <1> SUFFICES ASSUME StatusInv, [Next]_vars PROVE StatusInv'
    OBVIOUS
  <1> USE DEF VersionsOK, StoresOK, RequestsOK, JobsOK, OneRevalidation
  <1>1. CASE PortalChange
    <2>1. PICK v \in SiteStates : portal' = [val |-> v, ver |-> portal.ver + 1]
      BY <1>1 DEF PortalChange
    <2>2. portal' \in [val : SiteStates, ver : Nat]
      BY <2>1 DEF StatusInv
    <2> QED BY <1>1, <2>2 DEF PortalChange, StatusInv
  <1>2. CASE PortalToggle BY <1>2 DEF PortalToggle, StatusInv
  <1>3. CASE Tick BY <1>3, TickKeeps
  <1>4. CASE Evict BY <1>4 DEF Evict, StatusInv, MaybeEntry
  <1>5. CASE Restart
    <2>1. MaybeEntry(lru')
      BY <1>5, ReadKeeps DEF Restart, StatusInv
    <2>2. inv' \in [pc : {"none", "redis"}, ver : Nat]
      BY <1>5 DEF Restart, NoInv
    <2> QED BY <1>5, <2>1, <2>2, Records DEF Restart, StatusInv
  <1>6. CASE InvalidateLRU
    <2>1. inv' \in [pc : {"none", "redis"}, ver : Nat]
      BY <1>6 DEF InvalidateLRU, StatusInv
    <2> QED BY <1>6, <2>1 DEF InvalidateLRU, StatusInv, MaybeEntry
  <1>7. CASE InvalidateRedis
    <2>1. inv' \in [pc : {"none", "redis"}, ver : Nat] /\ invalidated' \in Nat
      BY <1>7 DEF InvalidateRedis, StatusInv, NoInv
    <2>2. redis' = redis \/ redis' = NoEntry
      BY <1>7 DEF InvalidateRedis
    <2> QED BY <1>7, <2>1, <2>2 DEF InvalidateRedis, StatusInv, MaybeEntry
  <1>8. CASE \E w \in Workers : JobStep(w)
    BY <1>8, JobKeeps
  <1>9. CASE \E r \in Requests : Begin(r) \/ ReqStep(r)
    BY <1>9, RequestKeeps
  <1>10. CASE UNCHANGED vars BY <1>10 DEF vars, StatusInv
  <1> QED BY <1>1, <1>2, <1>3, <1>4, <1>5, <1>6, <1>7, <1>8, <1>9, <1>10 DEF Next

LEMMA Initially == Init => StatusInv
  <1> SUFFICES ASSUME Init PROVE StatusInv
    OBVIOUS
  <1>1. VersionsOK
    BY DEF Init, VersionsOK, NoInv
  <1> QED BY <1>1, Records
          DEF Init, StatusInv, StoresOK, MaybeEntry, RequestsOK, JobsOK, OneRevalidation

LEMMA Invariance == Spec => []StatusInv
  BY Initially, Inductive, PTL DEF Spec

-----------------------------------------------------------------------------
(* What is served.                                                         *)

\* The answer from the cache to a request that was looking there: an entry within
\* its stale window, and for a certificate an active one that has not expired.
LEMMA ServedFromCache ==
  ASSUME StatusInv, [Next]_vars, NEW r \in Requests,
         req[r].pc \in {"get", "redisAdd"}, req'[r].pc = "done"
  PROVE  /\ EntryOK(req'[r].entry) /\ WithinStale(req'[r].entry)
         /\ req[r].kind = "allowed" => IsDomainActive(req'[r].entry)
  <1>0. RequestsOK /\ StoresOK /\ ReqOK(req[r])
    BY DEF StatusInv, RequestsOK
  <1>f. ASSUME NEW e, EntryOK(e), Fresh(e) PROVE WithinStale(e)
    BY <1>f, TtlAssumption DEF EntryOK, EntryType, Fresh, WithinStale
  <1>2. CASE Get(r)
    <2>1. CASE Hit(r, lru) /\ lru # NoEntry /\ (Fresh(lru) \/ WithinStale(lru))
      <3>1. EntryOK(lru)
        BY <1>0, <2>1 DEF StoresOK, MaybeEntry
      <3> QED BY <1>0, <1>f, <2>1, <3>1, HitKeeps
    <2>2. CASE ~(Hit(r, lru) /\ lru # NoEntry /\ (Fresh(lru) \/ WithinStale(lru)))
      <3>1. Goto(r, "redisGet") \/ Miss(r)
        BY <1>2, <2>2 DEF Get
      <3>2. "redisGet" \in ReqPcs
        BY DEF ReqPcs
      <3> QED BY <1>0, <3>1, <3>2, Gotos, MissKeeps
    <2> QED BY <2>1, <2>2
  <1>3. CASE RedisAdd(r)
    <2>1. EntryOK(req[r].entry) /\ Fresh(req[r].entry)
      BY <1>0, <1>3 DEF RedisAdd, ReqOK, MaybeEntry
    <2> QED BY <1>0, <1>3, <1>f, <2>1, HitKeeps DEF RedisAdd
  <1>4. ASSUME ~Get(r), ~RedisAdd(r) PROVE FALSE
    <2>1. ASSUME NEW q \in Requests, Begin(q) \/ ReqStep(q) PROVE q = r
      <3> USE <1>0 DEF Goto, GotoWith, Return, Install, Hit, Miss, RequestsOK
      <3> SUFFICES ASSUME q # r PROVE req'[r] = req[r]
        OBVIOUS
      <3>1. CASE Begin(q) BY <3>1 DEF Begin
      <3>2. CASE Get(q) BY <3>2 DEF Get
      <3>3. CASE RedisGet(q) BY <3>3 DEF RedisGet
      <3>4. CASE RedisAdd(q) BY <3>4 DEF RedisAdd
      <3>5. CASE AllowFetch(q) BY <3>5 DEF AllowFetch
      <3>6. CASE Fetch(q) BY <3>6 DEF Fetch
      <3>7. CASE Answer(q) BY <3>7 DEF Answer
      <3>8. CASE Persist(q) BY <3>8 DEF Persist
      <3>9. CASE KeepAlive(q) BY <3>9 DEF KeepAlive
      <3>10. CASE KeepRedis(q) BY <3>10 DEF KeepRedis
      <3>11. CASE KeepAdd(q) BY <3>11 DEF KeepAdd
      <3>12. CASE KeepRearm(q) BY <3>12 DEF KeepRearm
      <3>13. CASE KeepPersist(q) BY <3>13 DEF KeepPersist
      <3>14. CASE Fallback(q) BY <3>14 DEF Fallback
      <3>15. CASE Finish(q) BY <3>15 DEF Finish
      <3> QED BY <2>1, <3>1, <3>2, <3>3, <3>4, <3>5, <3>6, <3>7, <3>8, <3>9, <3>10, <3>11,
                 <3>12, <3>13, <3>14, <3>15 DEF ReqStep
    <2>2. ASSUME Begin(r) \/ ReqStep(r) PROVE FALSE
      BY <1>4, <2>2 DEF Begin, ReqStep, RedisGet, AllowFetch, Fetch, Answer, Persist, KeepAlive,
                        KeepRedis, KeepAdd, KeepRearm, KeepPersist, Fallback, Finish
    <2>3. ASSUME req'[r].pc = req[r].pc \/ req'[r].pc = "idle" PROVE FALSE
      BY <2>3
    <2>4. CASE Tick
      <3>1. req'[r] = [req[r] EXCEPT !.entry = Older(req[r].entry)]
        BY <2>4 DEF Tick
      <3> QED BY <1>0, <2>3, <3>1 DEF ReqOK, ReqType
    <2>5. CASE Restart BY <2>3, <2>5, Records DEF Restart
    <2>6. CASE UNCHANGED req BY <2>3, <2>6
    <2> QED BY <2>1, <2>2, <2>4, <2>5, <2>6
            DEF Next, vars, PortalChange, PortalToggle, Evict, InvalidateLRU, InvalidateRedis,
                JobStep, JobFetch, JobInstall, JobPersist
  <1> QED BY <1>2, <1>3, <1>4

-----------------------------------------------------------------------------
(* Theorems.                                                               *)

\* Whatever the TTLs, an answer from the cache is never older than its TTL and the
\* stale window, through LRU, Redis and restarts, unless degraded mode re-armed it.
THEOREM StalenessIsBounded == Spec => BoundedStaleness
  <1> DEFINE A(r) ==
        (Served(r) = NoEntry /\ Served(r)' # NoEntry /\ req[r].pc \in {"get", "redisAdd"})
          => Served(r)'.kept \/ Served(r)'.age <= Lifetime(Served(r)')
  <1>1. ASSUME StatusInv, [Next]_vars PROVE \A r \in Requests : A(r)
    <2> SUFFICES ASSUME NEW r \in Requests, Served(r) = NoEntry, Served(r)' # NoEntry,
                        req[r].pc \in {"get", "redisAdd"}
                 PROVE  Served(r)'.kept \/ Served(r)'.age <= Lifetime(Served(r)')
      OBVIOUS
    <2> DEFINE e == req'[r].entry
    <2>0. req'[r].pc = "done" /\ Served(r)' = e
      BY DEF Served
    <2>1. EntryOK(e) /\ WithinStale(e)
      BY <1>1, <2>0, ServedFromCache
    <2> HIDE DEF e
    <2>2. e.kept \/ e.age <= Lifetime(e)
      BY <2>1, Ttls, TtlAssumption DEF EntryOK, EntryType, AgeKnown, WithinStale, Lifetime, TtlFor
    <2> QED BY <2>0, <2>1, <2>2
  <1>2. StatusInv /\ [Next]_vars => [\A r \in Requests : A(r)]_vars
    BY <1>1
  <1>3. Spec => [][\A r \in Requests : A(r)]_vars
    BY <1>2, Invariance, PTL DEF Spec
  <1> QED BY <1>3 DEF BoundedStaleness

\* A certificate is allowed from the cache only for an active website within its TTL,
\* which the stale window does not extend, unless degraded mode re-armed the entry.
THEOREM CertificatesRespectTheTtl == Spec => CertificateWithinTtl
  <1> DEFINE A(r) ==
        (/\ Served(r) = NoEntry /\ Served(r)' # NoEntry
         /\ req[r].kind = "allowed" /\ req[r].pc \in {"get", "redisAdd"})
          => /\ Served(r)'.val = "active"
             /\ Served(r)'.kept \/ Served(r)'.age <= Ttl
  <1>1. ASSUME StatusInv, [Next]_vars PROVE \A r \in Requests : A(r)
    <2> SUFFICES ASSUME NEW r \in Requests, Served(r) = NoEntry, Served(r)' # NoEntry,
                        req[r].kind = "allowed", req[r].pc \in {"get", "redisAdd"}
                 PROVE  /\ Served(r)'.val = "active"
                        /\ Served(r)'.kept \/ Served(r)'.age <= Ttl
      OBVIOUS
    <2> DEFINE e == req'[r].entry
    <2>0. req'[r].pc = "done" /\ Served(r)' = e
      BY DEF Served
    <2>1. EntryOK(e) /\ IsDomainActive(e)
      BY <1>1, <2>0, ServedFromCache
    <2> HIDE DEF e
    <2>2. e.kept \/ e.age <= Ttl
      BY <2>1, Ttls, TtlAssumption DEF EntryOK, EntryType, AgeKnown, IsDomainActive, Fresh
    <2> QED BY <2>0, <2>1, <2>2 DEF IsDomainActive
  <1>2. StatusInv /\ [Next]_vars => [\A r \in Requests : A(r)]_vars
    BY <1>1
  <1>3. Spec => [][\A r \in Requests : A(r)]_vars
    BY <1>2, Invariance, PTL DEF Spec
  <1> QED BY <1>3 DEF CertificateWithinTtl

\* A domain is pending exactly while one job revalidates it.
THEOREM RevalidationIsExclusive == Spec => []OneRevalidation
  BY Invariance, PTL DEF StatusInv
=============================================================================

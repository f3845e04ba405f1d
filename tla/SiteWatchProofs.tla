--------------------------- MODULE SiteWatchProofs ---------------------------
(***************************************************************************)
(* The safety properties of SiteWatch and of the watcher alone, for any    *)
(* set of domains, any number of journaled changes and of callbacks, and   *)
(* every threshold of 404s.                                                *)
(***************************************************************************)
EXTENDS SiteWatch, TLAPS

Statuses == [st : {"none", "active", "broken"}, late : BOOLEAN]
FillTypes == [pc : {"idle", "insert", "add", "persist"}, dom : Domains \cup {NoDomain}, status : Statuses]

\* The variables that the properties of SiteWatch depend on have their types.
TypeOK ==
  /\ subject \in Seq(Domains)
  /\ done \subseteq 1..Len(subject) /\ applying \subseteq 1..Len(subject)
  /\ site \in [Domains -> SiteStates]
  /\ lru \in [Domains -> Statuses] /\ redis \in [Domains -> Statuses]
  /\ fill \in [Fills -> FillTypes]
  /\ \A f \in Fills : fill[f] = NoFill \/ (fill[f].pc # "idle" /\ fill[f].dom \in Domains)
  /\ purging => pc = "callback"

\* What the reconciler promises (Replay).
ReadyIsReplayed == ready => 1..mark \subseteq done

\* A change of d is on its way, and its Invalidate has not begun; has not ended.
Ahead(d) == \E e \in 1..Len(subject) : e \notin done \cup applying /\ subject[e] = d
Pending(d) == \E e \in 1..Len(subject) : e \notin done /\ subject[e] = d

Wrong(d, s) == Outdated(d, s.st) /\ ~s.late

\* A status that is out of date has a change on its way whose Invalidate has yet to
\* remove it: from Redis, or, in the LRU and on its way into the cache, from both.
LruAhead == \A d \in Domains : Wrong(d, lru[d]) => Ahead(d)
FillAhead == \A f \in Fills : Wrong(fill[f].dom, fill[f].status) => Ahead(fill[f].dom)
RedisPending == \A d \in Domains : Wrong(d, redis[d]) => Pending(d)

SiteWatchInv ==
  /\ TypeOK
  /\ ReadyIsReplayed
  /\ ClearIsJustified
  /\ LruAhead /\ FillAhead /\ RedisPending

-----------------------------------------------------------------------------
(* Steps of SiteWatch.                                                     *)

LEMMA NothingIsWrong == \A d : ~Wrong(d, NoStatus)
  BY DEF Wrong, Outdated, NoStatus, Status

LEMMA TypesOfStatuses ==
  /\ NoStatus \in Statuses
  /\ NoFill \in FillTypes /\ NoFill.pc = "idle" /\ NoFill.status = NoStatus
  /\ NoFill.dom \notin Domains
  BY NoDomainAssumption DEF NoStatus, NoFill, Status, Statuses, FillTypes

LEMMA LateIsNotWrong ==
  \A d, s : s \in Statuses => /\ Late(d, s) \in Statuses
                              /\ ~Wrong(d, Late(d, s))
                              /\ Late(d, s).st = s.st
  <1> SUFFICES ASSUME NEW d, NEW s \in Statuses
               PROVE  Late(d, s) \in Statuses /\ ~Wrong(d, Late(d, s)) /\ Late(d, s).st = s.st
    OBVIOUS
  <1>1. PICK b \in BOOLEAN : b = (s.late \/ Outdated(d, s.st))
    BY DEF Statuses
  <1>2. Late(d, s) = [s EXCEPT !.late = b]
    BY <1>1 DEF Late
  <1>3. Late(d, s).st = s.st /\ Late(d, s).late = b /\ Late(d, s) \in Statuses
    BY <1>2 DEF Statuses
  <1> QED BY <1>1, <1>3, Zenon DEF Wrong

\* A step that leaves the journal, what is being applied, the sites and the
\* reconciler alone: it is enough that each status it moves was known about.
Still == UNCHANGED <<subject, done, applying, site, ready, mark>>

LEMMA CacheKeeps ==
  SiteWatchInv /\ Still /\ TypeOK'
  /\ (pc' = "clear" => 1..asked' \subseteq done)
  /\ (\A d \in Domains : Wrong(d, lru'[d]) => Ahead(d))
  /\ (\A f \in Fills : Wrong(fill'[f].dom, fill'[f].status) => Ahead(fill'[f].dom))
  /\ (\A d \in Domains : Wrong(d, redis'[d]) => Pending(d))
    => SiteWatchInv'
  BY DEF Still, SiteWatchInv, ReadyIsReplayed, ClearIsJustified, LruAhead, FillAhead, RedisPending,
         Ahead, Pending, Wrong, Outdated

\* Requests and revalidations.
LEMMA AskKeeps ==
  ASSUME SiteWatchInv, NEW f \in Fills, NEW d \in Domains, Ask(f, d)
  PROVE  SiteWatchInv'
  <1>1. PICK st \in {"none", "active", "broken"} :
          /\ st # "none" => st = IF site[d] = "active" THEN "active" ELSE "broken"
          /\ fill' = [fill EXCEPT ![f] = [pc |-> "add", dom |-> d, status |-> Status(st)]]
    BY DEF Ask, Fetched, Start
  <1>2. UNCHANGED <<pc, asked, lru, redis, purging, cur>> /\ Still
    BY DEF Ask, FillOnly, Still, replay, watcher
  <1>3. ~Wrong(d, Status(st)) /\ Status(st) \in Statuses
    BY <1>1 DEF Wrong, Outdated, Status, Statuses, SiteWatchInv, TypeOK, SiteStates
  <1>4. fill'[f].dom = d /\ fill'[f].status = Status(st) /\ \A g \in Fills \ {f} : fill'[g] = fill[g]
    BY <1>1 DEF SiteWatchInv, TypeOK
  <1>5. TypeOK'
    BY <1>1, <1>2, <1>3, <1>4 DEF Still, SiteWatchInv, TypeOK, FillTypes
  <1> QED BY <1>2, <1>3, <1>4, <1>5, CacheKeeps
          DEF SiteWatchInv, ClearIsJustified, LruAhead, FillAhead, RedisPending

LEMMA ReadRedisKeeps ==
  ASSUME SiteWatchInv, NEW f \in Fills, NEW d \in Domains, ReadRedis(f, d)
  PROVE  SiteWatchInv'
  <1>1. PICK s :
          /\ s = IF \E e \in applying : subject[e] = d THEN Late(d, redis[d]) ELSE redis[d]
          /\ fill' = [fill EXCEPT ![f] = [pc |-> "insert", dom |-> d, status |-> s]]
    BY DEF ReadRedis, Start
  <1>2. UNCHANGED <<pc, asked, lru, redis, purging, cur>> /\ Still
    BY DEF ReadRedis, FillOnly, Still, replay, watcher
  <1>3. s \in Statuses
    BY <1>1, LateIsNotWrong DEF SiteWatchInv, TypeOK
  <1>4. Wrong(d, s) => Ahead(d)
    <2> SUFFICES ASSUME Wrong(d, s) PROVE Ahead(d)
      OBVIOUS
    <2>1. s = redis[d] /\ \A e \in applying : subject[e] # d
      BY <1>1, LateIsNotWrong DEF SiteWatchInv, TypeOK
    <2>2. Pending(d)
      BY <2>1 DEF SiteWatchInv, RedisPending
    <2> QED BY <2>1, <2>2 DEF Ahead, Pending
  <1>5. fill'[f].dom = d /\ fill'[f].status = s /\ \A g \in Fills \ {f} : fill'[g] = fill[g]
    BY <1>1 DEF SiteWatchInv, TypeOK
  <1>6. TypeOK'
    BY <1>1, <1>2, <1>3, <1>5 DEF Still, SiteWatchInv, TypeOK, FillTypes
  <1> QED BY <1>2, <1>4, <1>5, <1>6, CacheKeeps
          DEF SiteWatchInv, ClearIsJustified, LruAhead, FillAhead, RedisPending

LEMMA KeepAliveKeeps ==
  ASSUME SiteWatchInv, NEW f \in Fills, NEW d \in Domains, KeepAlive(f, d)
  PROVE  SiteWatchInv'
  <1>1. fill' = [fill EXCEPT ![f] = [pc |-> "add", dom |-> d, status |-> lru[d]]]
    BY DEF KeepAlive, Start
  <1>2. UNCHANGED <<pc, asked, lru, redis, purging, cur>> /\ Still
    BY DEF KeepAlive, FillOnly, Still, replay, watcher
  <1>3. fill'[f].dom = d /\ fill'[f].status = lru[d] /\ \A g \in Fills \ {f} : fill'[g] = fill[g]
    BY <1>1 DEF SiteWatchInv, TypeOK
  <1>4. TypeOK'
    BY <1>1, <1>2, <1>3 DEF Still, SiteWatchInv, TypeOK, FillTypes
  <1> QED BY <1>2, <1>3, <1>4, CacheKeeps
          DEF SiteWatchInv, ClearIsJustified, LruAhead, FillAhead, RedisPending

\* A status enters the LRU: what was known of it on its way is known of it there.
LEMMA EntersLRU ==
  ASSUME SiteWatchInv, Still, NEW f \in Fills, fill[f].pc # "idle",
         UNCHANGED <<pc, asked, redis, purging, cur>>,
         lru' = [lru EXCEPT ![fill[f].dom] = fill[f].status],
         \/ fill' = [fill EXCEPT ![f] = NoFill]
         \/ \E label \in {"add", "persist"} : fill' = [fill EXCEPT ![f].pc = label]
  PROVE  SiteWatchInv'
  <1>1. /\ \A g \in Fills \ {f} : fill'[g] = fill[g]
        /\ \/ fill'[f] = NoFill
           \/ /\ fill'[f].dom = fill[f].dom /\ fill'[f].status = fill[f].status
              /\ fill'[f].pc \in {"add", "persist"}
        /\ fill' \in [Fills -> FillTypes]
    <2>1. fill \in [Fills -> FillTypes] /\ fill[f] \in FillTypes
      BY DEF SiteWatchInv, TypeOK
    <2>2. CASE fill' = [fill EXCEPT ![f] = NoFill]
      BY <2>1, <2>2, TypesOfStatuses
    <2>3. ASSUME NEW label \in {"add", "persist"}, fill' = [fill EXCEPT ![f].pc = label]
          PROVE  /\ \A g \in Fills \ {f} : fill'[g] = fill[g]
                 /\ fill'[f].dom = fill[f].dom /\ fill'[f].status = fill[f].status
                 /\ fill'[f].pc \in {"add", "persist"}
                 /\ fill' \in [Fills -> FillTypes]
      BY <2>1, <2>3 DEF FillTypes
    <2> QED BY <2>2, <2>3
  <1>2. fill[f].dom \in Domains /\ fill[f].status \in Statuses
    BY TypesOfStatuses DEF SiteWatchInv, TypeOK, FillTypes
  <1>3. TypeOK'
    BY <1>1, <1>2, TypesOfStatuses DEF Still, SiteWatchInv, TypeOK
  <1>4. \A d \in Domains : Wrong(d, lru'[d]) => Ahead(d)
    BY <1>2 DEF SiteWatchInv, TypeOK, LruAhead, FillAhead
  <1>5. \A g \in Fills : Wrong(fill'[g].dom, fill'[g].status) => Ahead(fill'[g].dom)
    BY <1>1, TypesOfStatuses, NothingIsWrong DEF SiteWatchInv, FillAhead
  <1> QED BY <1>3, <1>4, <1>5, CacheKeeps DEF SiteWatchInv, ClearIsJustified, RedisPending

LEMMA InsertKeeps ==
  ASSUME SiteWatchInv, NEW f \in Fills, Insert(f)
  PROVE  SiteWatchInv'
  BY EntersLRU DEF Insert, MoveOn, FillOnly, Still, replay, watcher

LEMMA AddKeeps ==
  ASSUME SiteWatchInv, NEW f \in Fills, Add(f)
  PROVE  SiteWatchInv'
  BY EntersLRU DEF Add, MoveOn, FillOnly, Still, replay, watcher

LEMMA PersistKeeps ==
  ASSUME SiteWatchInv, NEW f \in Fills, Persist(f)
  PROVE  SiteWatchInv'
  <1>1. /\ fill[f].pc # "idle" /\ fill' = [fill EXCEPT ![f] = NoFill]
        /\ UNCHANGED <<pc, asked, lru, purging, cur>> /\ Still
    BY DEF Persist, FillOnly, Still, replay, watcher
  <1>2. fill[f].dom \in Domains /\ fill[f].status \in Statuses
    BY <1>1, TypesOfStatuses DEF SiteWatchInv, TypeOK, FillTypes
  <1>3. \/ redis' = redis
        \/ \E s \in {fill[f].status, NoStatus} : redis' = [redis EXCEPT ![fill[f].dom] = s]
    BY DEF Persist, Persisted
  <1>4. \A g \in Fills : fill'[g] = fill[g] \/ fill'[g] = NoFill
    BY <1>1 DEF SiteWatchInv, TypeOK
  <1>5. TypeOK'
    <2>1. fill' \in [Fills -> FillTypes] /\ redis' \in [Domains -> Statuses]
      BY <1>1, <1>2, <1>3, TypesOfStatuses DEF SiteWatchInv, TypeOK
    <2> QED BY <1>1, <1>4, <2>1, TypesOfStatuses DEF Still, SiteWatchInv, TypeOK
  <1>6. \A d \in Domains : Wrong(d, redis'[d]) => Pending(d)
    <2>1. Wrong(fill[f].dom, fill[f].status) => Pending(fill[f].dom)
      BY DEF SiteWatchInv, FillAhead, Ahead, Pending
    <2> QED BY <1>2, <1>3, <2>1, NothingIsWrong DEF SiteWatchInv, TypeOK, RedisPending
  <1>7. \A g \in Fills : Wrong(fill'[g].dom, fill'[g].status) => Ahead(fill'[g].dom)
    BY <1>4, TypesOfStatuses, NothingIsWrong DEF SiteWatchInv, FillAhead
  <1> QED BY <1>1, <1>5, <1>6, <1>7, CacheKeeps DEF SiteWatchInv, ClearIsJustified, LruAhead

\* The LRU, Redis, or both forget a status.
LEMMA Forgets ==
  ASSUME SiteWatchInv, Still, pc' = "clear" => 1..asked' \subseteq done, UNCHANGED fill,
         purging' => pc' = "callback",
         \A d \in Domains : lru'[d] \in {lru[d], NoStatus} /\ redis'[d] \in {redis[d], NoStatus},
         lru' \in [Domains -> Statuses], redis' \in [Domains -> Statuses]
  PROVE  SiteWatchInv'
  <1>1. TypeOK'
    BY DEF Still, SiteWatchInv, TypeOK
  <1> QED BY <1>1, CacheKeeps, NothingIsWrong
          DEF SiteWatchInv, LruAhead, FillAhead, RedisPending

LEMMA ExpireKeeps ==
  ASSUME SiteWatchInv, NEW d \in Domains, Expire(d)
  PROVE  SiteWatchInv'
  <1>1. /\ Still /\ UNCHANGED <<pc, asked, purging, cur, fill>>
        /\ lru' \in {lru, [lru EXCEPT ![d] = NoStatus]}
        /\ redis' \in {redis, [redis EXCEPT ![d] = NoStatus]}
    BY DEF Expire, FillOnly, Still, replay, watcher
  <1> QED BY <1>1, Forgets, TypesOfStatuses DEF SiteWatchInv, TypeOK, ClearIsJustified

\* The first step of an Invalidate: the status in the LRU is gone, those on their
\* way into it are late, and the copy in Redis still has its change pending.
LEMMA ApplyChangeKeeps ==
  ASSUME SiteWatchInv, NEW e \in 1..Len(subject), ApplyChange(e)
  PROVE  SiteWatchInv'
  <1>1. /\ applying' = applying \cup {e}
        /\ lru' = [lru EXCEPT ![subject[e]] = NoStatus]
        /\ UNCHANGED <<subject, done, site, ready, mark, pc, asked, purging, cur, redis>>
    BY DEF ApplyChange, RemoveLRU, replay, watcher
  <1>2. fill' = [f \in Fills |->
                  IF fill[f].dom = subject[e]
                    THEN [fill[f] EXCEPT !.status = Late(subject[e], @)] ELSE fill[f]]
    BY DEF ApplyChange
  <1>3. subject[e] \in Domains
    BY DEF SiteWatchInv, TypeOK
  <1>4. \A f \in Fills :
          /\ fill'[f].dom = fill[f].dom /\ fill'[f].pc = fill[f].pc
          /\ fill'[f] \in FillTypes
          /\ IF fill[f].dom = subject[e]
               THEN fill'[f].status = Late(subject[e], fill[f].status)
               ELSE fill'[f].status = fill[f].status
    <2> SUFFICES ASSUME NEW f \in Fills
                 PROVE  /\ fill'[f].dom = fill[f].dom /\ fill'[f].pc = fill[f].pc
                        /\ fill'[f] \in FillTypes
                        /\ IF fill[f].dom = subject[e]
                             THEN fill'[f].status = Late(subject[e], fill[f].status)
                             ELSE fill'[f].status = fill[f].status
      OBVIOUS
    <2>1. fill[f] \in FillTypes /\ fill[f].status \in Statuses
      BY DEF SiteWatchInv, TypeOK, FillTypes
    <2>2. PICK s : s = Late(subject[e], fill[f].status)
      OBVIOUS
    <2>3. s \in Statuses
      BY <2>1, <2>2, LateIsNotWrong
    <2>4. fill'[f] = IF fill[f].dom = subject[e] THEN [fill[f] EXCEPT !.status = s] ELSE fill[f]
      BY <1>2, <2>2
    <2> QED BY <2>1, <2>2, <2>3, <2>4 DEF FillTypes
  <1>5. TypeOK'
    <2>1. fill' \in [Fills -> FillTypes] /\ lru' \in [Domains -> Statuses]
      BY <1>1, <1>2, <1>4, TypesOfStatuses DEF SiteWatchInv, TypeOK
    <2>2. \A f \in Fills : fill[f] = NoFill => fill'[f] = NoFill
      BY <1>2, <1>3, TypesOfStatuses
    <2>3. \A f \in Fills : fill'[f] = NoFill \/ (fill'[f].pc # "idle" /\ fill'[f].dom \in Domains)
      BY <1>4, <2>2 DEF SiteWatchInv, TypeOK
    <2> QED BY <1>1, <2>1, <2>3 DEF SiteWatchInv, TypeOK
  <1>6. \A d : d # subject[e] => Ahead(d)' = Ahead(d)
    BY <1>1 DEF Ahead
  <1>7. \A d, s : Wrong(d, s)' = Wrong(d, s)
    BY <1>1 DEF Wrong, Outdated
  <1>8. LruAhead'
    <2> SUFFICES ASSUME NEW d \in Domains, Wrong(d, lru'[d])
                 PROVE  Ahead(d)'
      BY <1>1 DEF LruAhead, Wrong, Outdated
    <2>1. d # subject[e] /\ lru'[d] = lru[d]
      BY <1>1, <1>3, NothingIsWrong DEF SiteWatchInv, TypeOK
    <2> QED BY <1>1, <2>1 DEF SiteWatchInv, LruAhead, Ahead
  <1>9. FillAhead'
    <2> SUFFICES ASSUME NEW f \in Fills, Wrong(fill[f].dom, fill[f].status)'
                 PROVE  Ahead(fill[f].dom)'
      BY DEF FillAhead
    <2>0. Wrong(fill'[f].dom, fill'[f].status)
      BY <1>1 DEF Wrong, Outdated
    <2>1. fill[f].status \in Statuses
      BY DEF SiteWatchInv, TypeOK, FillTypes
    <2>2. fill[f].dom # subject[e]
      BY <1>4, <2>0, <2>1, LateIsNotWrong
    <2>3. Ahead(fill[f].dom)
      BY <1>4, <2>0, <2>2 DEF SiteWatchInv, FillAhead
    <2> QED BY <1>1, <1>4, <2>2, <2>3 DEF Ahead
  <1>10. RedisPending'
    BY <1>1 DEF SiteWatchInv, RedisPending, Pending, Wrong, Outdated
  <1> QED BY <1>1, <1>5, <1>8, <1>9, <1>10 DEF SiteWatchInv, ReadyIsReplayed, ClearIsJustified

\* The second step: the change is done, and its copy in Redis deleted or late.
LEMMA FinishChangeKeeps ==
  ASSUME SiteWatchInv, NEW e \in 1..Len(subject), FinishChange(e)
  PROVE  SiteWatchInv'
  <1>1. /\ e \in applying /\ applying' = applying \ {e} /\ done' = done \cup {e}
        /\ UNCHANGED <<subject, site, ready, mark, pc, asked, purging, cur, lru, fill>>
    BY DEF FinishChange, R!Effect, watcher
  <1>2. PICK s \in {NoStatus, Late(subject[e], redis[subject[e]])} :
          redis' = [redis EXCEPT ![subject[e]] = s]
    BY DEF FinishChange, DeleteRedis
  <1>3. subject[e] \in Domains /\ s \in Statuses /\ ~Wrong(subject[e], s)
    BY TypesOfStatuses, LateIsNotWrong, NothingIsWrong DEF SiteWatchInv, TypeOK
  <1>4. TypeOK'
    <2>1. redis' \in [Domains -> Statuses]
      BY <1>2, <1>3 DEF SiteWatchInv, TypeOK
    <2> QED BY <1>1, <2>1 DEF SiteWatchInv, TypeOK
  <1>5. done' \cup applying' = done \cup applying
    BY <1>1
  <1>6. LruAhead' /\ FillAhead'
    BY <1>1, <1>5 DEF SiteWatchInv, LruAhead, FillAhead, Ahead, Wrong, Outdated
  <1>7. RedisPending'
    <2> SUFFICES ASSUME NEW d \in Domains, Wrong(d, redis'[d])
                 PROVE  Pending(d)'
      BY <1>1 DEF RedisPending, Wrong, Outdated
    <2>1. d # subject[e] /\ redis'[d] = redis[d]
      BY <1>2, <1>3 DEF SiteWatchInv, TypeOK
    <2> QED BY <1>1, <2>1 DEF SiteWatchInv, RedisPending, Pending
  <1> QED BY <1>1, <1>4, <1>6, <1>7 DEF SiteWatchInv, ReadyIsReplayed, ClearIsJustified

\* The portal's side changes: what that makes out of date has this change pending.
LEMMA SiteChangeKeeps ==
  ASSUME SiteWatchInv, NEW d \in Domains, PortalChange(d)
  PROVE  SiteWatchInv'
  <1>1. PICK s \in SiteStates \ {site[d]} :
          /\ site' = [site EXCEPT ![d] = s]
          /\ IF s = "broken" THEN UNCHANGED <<subject, done>>
             ELSE subject' = Append(subject, d) /\ UNCHANGED done
    BY DEF PortalChange
  <1>2. UNCHANGED <<ready, mark, applying, pc, asked, purging, cur>>
    BY DEF PortalChange, watcher
  <1>3. /\ lru' = [lru EXCEPT ![d].late = FALSE] /\ redis' = [redis EXCEPT ![d].late = FALSE]
        /\ fill' = [f \in Fills |->
              IF fill[f].dom = d THEN [fill[f] EXCEPT !.status.late = FALSE] ELSE fill[f]]
    BY DEF PortalChange
  <1>n. Len(subject) \in Nat /\ done \subseteq 1..Len(subject) /\ applying \subseteq 1..Len(subject)
    BY DEF SiteWatchInv, TypeOK
  <1>4. \/ subject' = subject
        \/ /\ Len(subject') = Len(subject) + 1 /\ subject'[Len(subject) + 1] = d
           /\ \A e \in 1..Len(subject) : subject'[e] = subject[e]
    BY <1>1 DEF SiteWatchInv, TypeOK
  <1>5. /\ lru' \in [Domains -> Statuses] /\ redis' \in [Domains -> Statuses]
        /\ \A x \in Domains \ {d} : lru'[x] = lru[x] /\ redis'[x] = redis[x]
    BY <1>3 DEF SiteWatchInv, TypeOK, Statuses
  <1>6. \A f \in Fills : /\ fill'[f] \in FillTypes
                         /\ fill'[f].dom = fill[f].dom /\ fill'[f].pc = fill[f].pc
                         /\ fill[f].dom # d => fill'[f] = fill[f]
    BY <1>3 DEF SiteWatchInv, TypeOK, FillTypes, Statuses
  <1>7. TypeOK'
    <2>1. subject' \in Seq(Domains)
      BY <1>1 DEF SiteWatchInv, TypeOK
    <2>2. done' \subseteq 1..Len(subject') /\ applying' \subseteq 1..Len(subject')
      <3>1. done' = done /\ Len(subject') \in Nat /\ Len(subject) <= Len(subject')
        BY <1>1, <1>4, <1>n
      <3> QED BY <1>2, <1>n, <3>1
    <2>3. fill' \in [Fills -> FillTypes] /\ \A f \in Fills : fill'[f] = NoFill \/ (fill'[f].pc # "idle" /\ fill'[f].dom \in Domains)
      <3>1. \A f \in Fills : fill[f] = NoFill => fill'[f] = NoFill
        BY <1>3, TypesOfStatuses
      <3>2. fill' \in [Fills -> FillTypes]
        BY <1>3, <1>6
      <3> QED BY <1>6, <3>1, <3>2 DEF SiteWatchInv, TypeOK
    <2>4. site' \in [Domains -> SiteStates] /\ (purging' => pc' = "callback")
      BY <1>1, <1>2 DEF SiteWatchInv, TypeOK
    <2> QED BY <1>5, <2>1, <2>2, <2>3, <2>4 DEF TypeOK
  <1>8. \A x \in Domains \ {d} : (Ahead(x) => Ahead(x)') /\ (Pending(x) => Pending(x)')
    BY <1>1, <1>2, <1>4, <1>n DEF Ahead, Pending
  <1>9. (\E st : Wrong(d, st)') => Ahead(d)' /\ Pending(d)'
    <2> SUFFICES ASSUME NEW st, Wrong(d, st)' PROVE Ahead(d)' /\ Pending(d)'
      OBVIOUS
    <2>1. s # "broken"
      BY <1>1 DEF Wrong, Outdated, SiteWatchInv, TypeOK
    <2>2. subject' = Append(subject, d) /\ UNCHANGED done
      BY <1>1, <2>1
    <2>3. Len(subject') = Len(subject) + 1 /\ subject'[Len(subject) + 1] = d
      BY <2>2 DEF SiteWatchInv, TypeOK
    <2>4. Len(subject) + 1 \in 1..Len(subject') /\ Len(subject) + 1 \notin done' \cup applying'
      BY <1>2, <1>n, <2>2, <2>3
    <2> QED BY <2>3, <2>4 DEF Ahead, Pending
  <1>10. \A x \in Domains \ {d} : \A st : Wrong(x, st)' => Wrong(x, st)
    BY <1>1 DEF Wrong, Outdated, SiteWatchInv, TypeOK
  <1>11. LruAhead' /\ RedisPending'
    BY <1>5, <1>8, <1>9, <1>10 DEF SiteWatchInv, LruAhead, RedisPending
  <1>12. FillAhead'
    <2> SUFFICES ASSUME NEW f \in Fills, Wrong(fill[f].dom, fill[f].status)'
                 PROVE  Ahead(fill[f].dom)'
      BY DEF FillAhead
    <2>1. CASE fill[f].dom = d
      BY <1>6, <1>9, <2>1
    <2>2. CASE fill[f].dom # d
      <3>1. fill'[f] = fill[f]
        BY <1>6, <2>2
      <3>2. fill[f].dom \in Domains
        BY <3>1, TypesOfStatuses DEF Wrong, Outdated, NoStatus, Status, SiteWatchInv, TypeOK
      <3> QED BY <1>8, <1>10, <2>2, <3>1, <3>2 DEF SiteWatchInv, FillAhead
    <2> QED BY <2>1, <2>2
  <1>13. done' = done
    BY <1>1
  <1> QED BY <1>2, <1>7, <1>11, <1>12, <1>13 DEF SiteWatchInv, ReadyIsReplayed, ClearIsJustified

\* A step of the watcher's own state.
LEMMA WatcherKeeps ==
  ASSUME SiteWatchInv, UNCHANGED <<subject, done, applying, mark, site, lru, redis, fill>>,
         ready' = ready \/ ~ready', pc' = "clear" => 1..asked' \subseteq done,
         purging' => pc' = "callback"
  PROVE  SiteWatchInv'
  BY DEF SiteWatchInv, TypeOK, ReadyIsReplayed, ClearIsJustified, LruAhead, FillAhead,
         RedisPending, Ahead, Pending, Wrong, Outdated

LEMMA LoopKeeps ==
  ASSUME SiteWatchInv, WatcherStep
  PROVE  SiteWatchInv'
  <1> USE DEF WatcherOnly, env, watch, loop, Goto
  <1>1. CASE /\ \/ TickConnected \/ TickDisconnected \/ Clear
                \/ Snapshot \/ PollNext \/ PollDone \/ ConfirmNotFound
                \/ DropDeleted \/ ResetNotFound \/ RecoverForget
             /\ asked' = 0
             /\ WatcherOnly /\ UNCHANGED <<lru, redis, purging>>
    <2>1. /\ pc' # "clear" /\ UNCHANGED <<ready, site>>
          /\ pc # "callback"
      BY <1>1 DEF TickConnected, TickDisconnected, Clear, Snapshot, PollNext,
                  PollDone, ConfirmNotFound, DropDeleted, ResetNotFound, RecoverForget
    <2>2. ~purging
      BY <2>1 DEF SiteWatchInv, TypeOK
    <2> QED BY <1>1, <2>1, <2>2, WatcherKeeps
  <1>2. CASE AskReadiness
    <2>1. pc' = "clear" => 1..asked' \subseteq done
      BY <1>2 DEF AskReadiness, AskReady, SiteWatchInv, ReadyIsReplayed
    <2>2. ~purging
      BY <1>2 DEF AskReadiness, AskReady, SiteWatchInv, TypeOK
    <2> QED BY <1>2, <2>1, <2>2, WatcherKeeps DEF AskReadiness, AskReady
  <1>3. CASE RecoverInvalidate
    <2>1. /\ pc = "callback" /\ UNCHANGED <<pc, cur, asked, redis, fill>> /\ Still
          /\ lru' = [lru EXCEPT ![cur] = NoStatus]
      BY <1>3 DEF RecoverInvalidate, RemoveLRU, Still, watcher
    <2> QED BY <2>1, Forgets, TypesOfStatuses DEF SiteWatchInv, TypeOK
  <1>4. CASE Recover
    <2>1. /\ pc' = "poll" /\ UNCHANGED <<lru, fill>> /\ ~purging' /\ Still
          /\ redis' \in {redis, [redis EXCEPT ![cur] = NoStatus]}
      BY <1>4 DEF Recover, RecoverCallback, Still
    <2> QED BY <2>1, Forgets, TypesOfStatuses DEF SiteWatchInv, TypeOK
  <1> QED BY <1>1, <1>2, <1>3, <1>4 DEF WatcherStep

\* The process starts again with what it can read from Redis.
LEMMA CrashKeeps ==
  ASSUME SiteWatchInv, Crash
  PROVE  SiteWatchInv'
  <1>1. PICK loaded \in SUBSET Domains :
          lru' = [d \in Domains |-> IF d \in loaded THEN redis[d] ELSE NoStatus]
    BY DEF Crash
  <1>2. /\ UNCHANGED <<subject, done, site, redis>> /\ ready' = FALSE /\ pc' = "select"
        /\ fill' = [f \in Fills |-> NoFill] /\ applying' = {} /\ purging' = FALSE
    BY DEF Crash, R!Crash
  <1>3. TypeOK'
    <2>1. lru' \in [Domains -> Statuses] /\ fill' \in [Fills -> FillTypes]
      BY <1>1, <1>2, TypesOfStatuses DEF SiteWatchInv, TypeOK
    <2> QED BY <1>2, <2>1 DEF SiteWatchInv, TypeOK
  <1>4. RedisPending'
    BY <1>2 DEF SiteWatchInv, RedisPending, Pending, Wrong, Outdated
  <1>5. LruAhead'
    <2>1. \A d \in Domains : Wrong(d, lru[d])' => Wrong(d, redis[d])
      BY <1>1, <1>2 DEF Wrong, Outdated, NoStatus, Status
    <2>2. \A d \in Domains : Pending(d) => Ahead(d)'
      BY <1>2 DEF Pending, Ahead
    <2> QED BY <2>1, <2>2 DEF SiteWatchInv, RedisPending, LruAhead
  <1>6. FillAhead'
    BY <1>2, TypesOfStatuses DEF FillAhead, Wrong, Outdated, NoStatus, Status
  <1> QED BY <1>2, <1>3, <1>4, <1>5, <1>6 DEF SiteWatchInv, ReadyIsReplayed, ClearIsJustified

\* Every step keeps the invariant.
LEMMA Inductive == SiteWatchInv /\ [SiteNext]_siteVars => SiteWatchInv'
  <1> SUFFICES ASSUME SiteWatchInv, [SiteNext]_siteVars PROVE SiteWatchInv'
    OBVIOUS
  <1> USE DEF replay, watcher, cache
  <1>0. (pc = "clear" => 1..asked \subseteq done) /\ (purging => pc = "callback")
    BY DEF SiteWatchInv, ClearIsJustified, TypeOK
  <1>1. CASE LinkChange
    BY <1>0, <1>1, WatcherKeeps DEF LinkChange
  <1>2. CASE Report
    BY <1>2 DEF Report, R!Up, R!Down, SiteWatchInv, TypeOK, ReadyIsReplayed, ClearIsJustified,
                LruAhead, FillAhead, RedisPending, Ahead, Pending, Wrong, Outdated
  <1>3. CASE Deliver
    BY <1>3, ApplyChangeKeeps DEF Deliver
  <1>4. CASE BecomeReady
    BY <1>4 DEF BecomeReady, R!BecomeReady, SiteWatchInv, TypeOK, ReadyIsReplayed,
                ClearIsJustified, LruAhead, FillAhead, RedisPending, Ahead, Pending, Wrong, Outdated
  <1>5. CASE Crash
    BY <1>5, CrashKeeps
  <1>6. CASE \E e \in 1..Len(subject) : ApplyChange(e) \/ FinishChange(e)
    BY <1>6, ApplyChangeKeeps, FinishChangeKeeps
  <1>7. CASE \E f \in Fills : Insert(f) \/ Add(f) \/ Persist(f)
    BY <1>7, InsertKeeps, AddKeeps, PersistKeeps
  <1>8. CASE \E f \in Fills, d \in Domains : Ask(f, d) \/ ReadRedis(f, d) \/ KeepAlive(f, d)
    BY <1>8, AskKeeps, ReadRedisKeeps, KeepAliveKeeps
  <1>9. ASSUME NEW d \in Domains, PortalChange(d) PROVE SiteWatchInv'
    BY <1>9, SiteChangeKeeps
  <1>10. ASSUME NEW d \in Domains, Expire(d) PROVE SiteWatchInv'
    BY <1>10, ExpireKeeps
  <1>11. ASSUME NEW d \in Domains, ServeBroken(d) \/ Mark(d) \/ RecoverReturns(d)
         PROVE  SiteWatchInv'
    BY <1>0, <1>11, WatcherKeeps
    DEF ServeBroken, FillOnly, Mark, MarkBroken, RecoverReturns, CallbackReturns, WatcherOnly,
        env, loop
  <1>12. CASE WatcherStep BY <1>12, LoopKeeps
  <1>13. CASE UNCHANGED siteVars
    BY <1>0, <1>13, WatcherKeeps DEF siteVars
  <1> QED BY <1>1, <1>2, <1>3, <1>4, <1>5, <1>6, <1>7, <1>8, <1>9, <1>10, <1>11, <1>12, <1>13
          DEF SiteNext

LEMMA Initially == SiteInit => SiteWatchInv
  <1> SUFFICES ASSUME SiteInit PROVE SiteWatchInv
    OBVIOUS
  <1>1. /\ subject = <<>> /\ done = {} /\ applying = {} /\ ~ready /\ pc = "select" /\ ~purging
        /\ site \in [Domains -> SiteStates]
        /\ lru = [d \in Domains |-> NoStatus] /\ redis = [d \in Domains |-> NoStatus]
        /\ fill = [f \in Fills |-> NoFill]
    BY DEF SiteInit, R!Init, Init
  <1>2. TypeOK
    BY <1>1, TypesOfStatuses DEF TypeOK
  <1> QED BY <1>1, <1>2, TypesOfStatuses, NothingIsWrong
          DEF SiteWatchInv, ReadyIsReplayed, ClearIsJustified, LruAhead, FillAhead, RedisPending

LEMMA Invariance == SiteSpec => []SiteWatchInv
  BY Initially, Inductive, PTL DEF SiteSpec

LEMMA InvImplies == SiteWatchInv => ClearIsJustified /\ ChangePending
  BY DEF SiteWatchInv, LruAhead, RedisPending, Ahead, Pending, Wrong, ChangePending

\* Whatever the number of domains and changes, the watch set is cleared only after
\* every change older than the session the watcher asked about has been applied,
\* although asking and clearing are two steps between which the stream may drop.
THEOREM ClearsAreJustified == SiteSpec => []ClearIsJustified
  BY Invariance, InvImplies, PTL

\* A status that is out of date, in the LRU or in Redis, has a change on its way
\* that will invalidate it, unless it crossed the Invalidate of the last change on
\* its way into the cache, or Redis failed to delete it: the two steps of Invalidate,
\* and those of any number of requests and revalidations, open no other gap.
THEOREM ChangesArePending == SiteSpec => []ChangePending
  BY Invariance, InvImplies, PTL

-----------------------------------------------------------------------------
(* The watcher alone.                                                      *)

AtDomain == {"confirm", "drop", "reset", "recover", "callback"}

\* The variables of the loop have their types.
WatcherTypeOK ==
  /\ broken \subseteq Domains /\ todo \subseteq Domains
  /\ notFound \in [Domains -> Nat] /\ streak \in [Domains -> Nat]
  /\ pc \in AtDomain => cur \in Domains

\* The count of a domain stays within the 404s its polls really met in a row, but
\* while an answer that ends the row is about to reset it; one that has just been
\* met is still to be counted.
CountedIsMet ==
  \A d \in Domains : /\ notFound[d] <= streak[d] \/ (pc = "reset" /\ d = cur)
                     /\ pc = "confirm" /\ d = cur => notFound[d] + 1 <= streak[d]

\* A count that has reached the threshold is acted upon at once.
BelowThreshold ==
  \A d \in Domains : notFound[d] < DeletedConfirmCount \/ (pc = "drop" /\ d = cur)

WatcherInv == WatcherTypeOK /\ CountedIsMet /\ BelowThreshold /\ DeletionConfirmed

LEMMA WatcherLoop == WatcherInv /\ LoopStep => WatcherInv'
  <1> SUFFICES ASSUME WatcherInv, LoopStep PROVE WatcherInv'
    OBVIOUS
  <1> USE DEF WatcherInv, WatcherTypeOK, CountedIsMet, BelowThreshold, DeletionConfirmed,
              AtDomain, env, watch, loop, Goto
  <1>1. CASE TickConnected \/ TickDisconnected \/ LoopExit \/ AskReady
    BY <1>1 DEF TickConnected, TickDisconnected, LoopExit, AskReady
  <1>2. CASE Clear BY <1>2, ConfirmAssumption DEF Clear
  <1>3. CASE Snapshot \/ PollDone BY <1>3 DEF Snapshot, PollDone
  <1>4. CASE PollNext
    <2>0. PICK d \in todo : \E a \in Answers(d) :
            /\ cur' = d /\ todo' = todo \ {d}
            /\ pc' = IF a = "notFound" THEN "confirm" ELSE "reset"
            /\ streak' = [streak EXCEPT ![d] =
                            IF a # "notFound" THEN 0
                            ELSE IF @ < DeletedConfirmCount THEN @ + 1 ELSE @]
      BY <1>4 DEF PollNext
    <2>1. PICK a :
            /\ cur' = d /\ todo' = todo \ {d}
            /\ pc' = IF a = "notFound" THEN "confirm" ELSE "reset"
            /\ streak' = [streak EXCEPT ![d] =
                            IF a # "notFound" THEN 0
                            ELSE IF @ < DeletedConfirmCount THEN @ + 1 ELSE @]
      BY <2>0
    <2>2. pc = "poll" /\ UNCHANGED <<broken, notFound>> /\ d \in Domains
      BY <1>4 DEF PollNext
    <2>3. WatcherTypeOK'
      BY <2>1, <2>2, ConfirmAssumption
    <2>4. \A x \in Domains : x # d => streak'[x] = streak[x]
      BY <2>1
    <2>5. CASE a = "notFound"
      <3>1. pc' = "confirm" /\ notFound[d] + 1 <= streak'[d]
        BY <2>1, <2>2, <2>5, ConfirmAssumption
      <3>2. CountedIsMet'
        BY <2>1, <2>2, <2>3, <2>4, <3>1
      <3>3. BelowThreshold' /\ DeletionConfirmed'
        BY <2>2, <3>1
      <3> QED BY <2>3, <3>2, <3>3
    <2>6. CASE a # "notFound"
      <3>1. pc' = "reset"
        BY <2>1, <2>6
      <3>2. CountedIsMet'
        BY <2>1, <2>2, <2>4, <3>1
      <3>3. BelowThreshold' /\ DeletionConfirmed'
        BY <2>2, <3>1
      <3> QED BY <2>3, <3>2, <3>3
    <2> QED BY <2>5, <2>6
  <1>5. CASE ConfirmNotFound
    <2>1. /\ pc = "confirm" /\ cur \in Domains /\ UNCHANGED <<broken, todo, cur, streak>>
          /\ notFound' = [notFound EXCEPT ![cur] = notFound[cur] + 1]
          /\ pc' = IF notFound[cur] + 1 >= DeletedConfirmCount THEN "drop" ELSE "poll"
      BY <1>5 DEF ConfirmNotFound
    <2>2. \A d \in Domains : notFound'[d] = IF d = cur THEN notFound[d] + 1 ELSE notFound[d]
      BY <2>1
    <2>3. WatcherTypeOK'
      BY <2>1
    <2>4. CountedIsMet'
      BY <2>1, <2>2
    <2>5. BelowThreshold' /\ DeletionConfirmed'
      BY <2>1, <2>2, ConfirmAssumption
    <2> QED BY <2>3, <2>4, <2>5
  <1>6. CASE DropDeleted BY <1>6, ConfirmAssumption DEF DropDeleted
  <1>7. CASE ResetNotFound BY <1>7, ConfirmAssumption DEF ResetNotFound
  <1>8. CASE RecoverForget BY <1>8, ConfirmAssumption DEF RecoverForget
  <1>9. CASE RecoverCallback BY <1>9 DEF RecoverCallback
  <1> QED BY <1>1, <1>2, <1>3, <1>4, <1>5, <1>6, <1>7, <1>8, <1>9 DEF LoopStep

LEMMA WatcherInductive == WatcherInv /\ [Next]_vars => WatcherInv'
  <1> SUFFICES ASSUME WatcherInv, [Next]_vars PROVE WatcherInv'
    OBVIOUS
  <1> USE DEF env, watch, loop
  <1>1. CASE LoopStep BY <1>1, WatcherLoop
  <1>2. ASSUME NEW d \in Domains, MarkBroken(d) PROVE WatcherInv'
    BY <1>2 DEF MarkBroken, WatcherInv, WatcherTypeOK, CountedIsMet, BelowThreshold,
                DeletionConfirmed
  <1>3. ASSUME UNCHANGED <<broken, notFound, pc, todo, cur, streak>> PROVE WatcherInv'
    BY <1>3 DEF WatcherInv, WatcherTypeOK, CountedIsMet, BelowThreshold, DeletionConfirmed
  <1> QED BY <1>1, <1>2, <1>3
          DEF Next, vars, StreamUp, StreamDown, Reconciled, SiteChange,
              CallbackReturns, StopClose, StopWait, WaitInTurn

LEMMA WatcherInitially == Init => WatcherInv
  BY ConfirmAssumption
  DEF Init, WatcherInv, WatcherTypeOK, CountedIsMet, BelowThreshold, DeletionConfirmed,
      AtDomain

\* For every threshold and set of domains, a domain is dropped as deleted only after
\* that many 404s in a row: the counts neither outlive another answer nor a drop.
THEOREM DeletionsAreConfirmed == Spec => []DeletionConfirmed
  <1>1. Spec => []WatcherInv
    BY WatcherInitially, WatcherInductive, PTL DEF Spec
  <1>2. WatcherInv => DeletionConfirmed
    BY DEF WatcherInv
  <1> QED BY <1>1, <1>2, PTL

\* The steps of SiteWatch keep what is known of the watcher's counts: they are steps
\* of its loop, leave the counts alone or start afresh.
LEMMA ComposedInductive == WatcherInv /\ [SiteNext]_siteVars => WatcherInv'
  <1> SUFFICES ASSUME WatcherInv, [SiteNext]_siteVars PROVE WatcherInv'
    OBVIOUS
  <1>1. CASE WatcherStep /\ ~RecoverInvalidate
    BY <1>1, WatcherLoop DEF WatcherStep, AskReadiness, Recover, LoopStep
  <1>2. ASSUME NEW d \in Domains, Mark(d) PROVE WatcherInv'
    BY <1>2 DEF Mark, MarkBroken, loop, WatcherInv, WatcherTypeOK, CountedIsMet, BelowThreshold,
                DeletionConfirmed
  <1>3. CASE Crash
    BY <1>3, ConfirmAssumption
    DEF Crash, WatcherInv, WatcherTypeOK, CountedIsMet, BelowThreshold, DeletionConfirmed, AtDomain
  <1>4. ASSUME UNCHANGED <<broken, notFound, pc, todo, cur, streak>> PROVE WatcherInv'
    BY <1>4 DEF WatcherInv, WatcherTypeOK, CountedIsMet, BelowThreshold, DeletionConfirmed
  <1>5. CASE \/ LinkChange \/ Report \/ BecomeReady \/ Deliver \/ RecoverInvalidate
             \/ \E e \in 1..Len(subject) : ApplyChange(e) \/ FinishChange(e)
    BY <1>4, <1>5 DEF LinkChange, Report, BecomeReady, ApplyChange, FinishChange, Deliver, RecoverInvalidate,
                      watcher
  <1>6. ASSUME NEW d \in Domains,
               PortalChange(d) \/ ServeBroken(d) \/ Expire(d) \/ RecoverReturns(d)
        PROVE  WatcherInv'
    BY <1>4, <1>6 DEF PortalChange, ServeBroken, Expire, RecoverReturns, CallbackReturns,
                      FillOnly, watch, loop, watcher
  <1>7. ASSUME NEW f \in Fills, Insert(f) \/ Add(f) \/ Persist(f) PROVE WatcherInv'
    BY <1>4, <1>7 DEF Insert, Add, Persist, FillOnly, watcher
  <1>8. ASSUME NEW f \in Fills, NEW d \in Domains, Ask(f, d) \/ ReadRedis(f, d) \/ KeepAlive(f, d)
        PROVE  WatcherInv'
    BY <1>4, <1>8 DEF Ask, ReadRedis, KeepAlive, FillOnly, watcher
  <1>9. CASE UNCHANGED siteVars
    BY <1>4, <1>9 DEF siteVars, watcher
  <1> QED BY <1>1, <1>2, <1>3, <1>5, <1>6, <1>7, <1>8, <1>9 DEF SiteNext

\* So does the watcher in the gateway, among requests, reconnects and restarts.
THEOREM ComposedDeletionsAreConfirmed == SiteSpec => []DeletionConfirmed
  <1>1. SiteInit => WatcherInv
    BY WatcherInitially DEF SiteInit
  <1>2. WatcherInv => DeletionConfirmed
    BY DEF WatcherInv
  <1> QED BY <1>1, <1>2, ComposedInductive, PTL DEF SiteSpec

-----------------------------------------------------------------------------
(* Stop.                                                                   *)

\* The loop has ended once Stop has waited for it, and with it what starts callbacks.
QuietInv ==
  /\ stop \in {"waited", "returned"} => LoopEnded
  /\ StoppedIsQuiet

LEMMA QuietInductive == QuietInv /\ [Next]_vars => QuietInv'
  <1> SUFFICES ASSUME QuietInv, [Next]_vars PROVE QuietInv'
    OBVIOUS
  <1> USE DEF QuietInv, StoppedIsQuiet, LoopEnded, CallbacksEnded
  <1>1. CASE LoopStep
    BY <1>1 DEF LoopStep, TickConnected, TickDisconnected, LoopExit, AskReady, Clear, Snapshot,
                PollNext, PollDone, ConfirmNotFound, DropDeleted, ResetNotFound, RecoverForget,
                RecoverCallback, Goto
  <1>2. ASSUME NEW d \in Domains, MarkBroken(d) PROVE QuietInv'
    BY <1>2 DEF MarkBroken, loop
  <1>3. ASSUME NEW d \in Domains, CallbackReturns(d) PROVE QuietInv'
    <2>1. callbacks[d] # 0
      BY <1>3 DEF CallbackReturns
    <2> QED BY <1>3, <2>1 DEF CallbackReturns, loop
  <1>4. CASE StreamUp \/ StreamDown \/ Reconciled \/ SiteChange
    BY <1>4 DEF StreamUp, StreamDown, Reconciled, SiteChange, loop
  <1>5. CASE StopClose \/ StopWait
    BY <1>5 DEF StopClose, StopWait, WaitInTurn, loop
  <1>6. CASE UNCHANGED vars
    BY <1>6 DEF vars, loop
  <1> QED BY <1>1, <1>2, <1>3, <1>4, <1>5, <1>6 DEF Next

\* Stop leaves nothing running: what it waits for second cannot be started again.
THEOREM StopLeavesNothing == Spec => []StoppedIsQuiet
  <1>1. Init => QuietInv
    BY DEF Init, QuietInv, StoppedIsQuiet
  <1>2. QuietInv => StoppedIsQuiet
    BY DEF QuietInv
  <1> QED BY <1>1, <1>2, QuietInductive, PTL DEF Spec
=============================================================================

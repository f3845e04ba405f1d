---------------------------- MODULE LookupProofs ----------------------------
(***************************************************************************)
(* The lookups of names and the checks made through them.  First the       *)
(* safety properties of PubsubRouting and Health, for any number of        *)
(* websites and of records a router may deliver; then the registry of      *)
(* watchers and the pending set of Namesys, for any number of requests,    *)
(* revalidations, watchers and published records.                          *)
(***************************************************************************)
EXTENDS Health, Namesys, TLAPS


\* The variables of the searches have their types.
RoutingTypeOK ==
    /\ call \in [Calls -> {"idle", "failed", "direct", "merge", "merged"}]
    /\ chan \in [Calls -> [Sources -> {"none", "failed", "open", "closed"}]]
    /\ left \in [Calls -> [Sources -> Nat]]
    /\ listens \in [Calls -> SUBSET Sources]
    /\ out \in [Calls -> {0, 1}]
    /\ ctx \in [Calls -> {"live", "done"}]
    /\ got \in [Calls -> BOOLEAN]

\* A channel that was closed while the context is live had no record left.
ClosedIsEmpty ==
    \A c \in Calls, s \in Sources : chan[c][s] = "closed" => left[c][s] = 0

\* The merge has set to nil only channels that are closed.
NilIsClosed ==
    \A c \in Calls : call[c] = "merge" =>
        \A s \in Sources \ listens[c] : chan[c][s] = "closed"

RoutingInv == RoutingTypeOK /\ ClosedIsEmpty /\ NilIsClosed /\ SearchDelivers

\* So have the checker's.
HealthTypeOK ==
    /\ status \in [Checks -> {"unknown", "up", "down"}]
    /\ round \in {"idle", "running", "abandoned"}
    /\ pc \in [Websites -> {"idle", "dns", "search", "block", "finished"}]
    /\ gauge \in [Websites -> {"unknown", "up", "down"}]
    /\ failures \subseteq Websites
    /\ aggregate \in {"unknown", "up", "down"}

\* A goroutine that has finished in this round has reported either way: in its
\* metric and among the failures.
FinishedAgrees ==
    round # "idle" =>
        /\ \A w \in failures : pc[w] = "finished"
        /\ \A w \in Websites : pc[w] = "finished" => (gauge[w] = "up" <=> w \notin failures)

\* Between rounds nothing is at work.
IdleIsQuiet == round = "idle" => \A w \in Websites : pc[w] \in {"idle", "finished"}

\* What the library tells of the check is what the last round said, or an error.
StatusFollows ==
    /\ status["website_retrieval"] = "up" => aggregate = "up"
    /\ round = "abandoned" => status["website_retrieval"] = "down"

HealthInv ==
    /\ HealthTypeOK /\ FinishedAgrees /\ IdleIsQuiet /\ StatusFollows
    /\ RoundAgrees

----------------------------------------------------------------------------
(* A search.                                                               *)

\* Every step of a search keeps what is known of it.
LEMMA RoutingKeeps ==
    ASSUME RoutingInv, NEW c \in Calls, RoutingStep(c)
    PROVE  RoutingInv'
  <1> USE DEF RoutingInv, RoutingTypeOK
  <1>1. ASSUME NEW s \in Sources, SourceClose(c, s) PROVE RoutingInv'
    <2>1. RoutingTypeOK'
      BY <1>1 DEF SourceClose
    <2>2. ClosedIsEmpty' /\ NilIsClosed'
      BY <1>1 DEF SourceClose, ClosedIsEmpty, NilIsClosed
    <2>3. SearchDelivers'
      BY <1>1 DEF SourceClose, SearchDelivers
    <2> QED BY <2>1, <2>2, <2>3
  <1>2. ASSUME NEW s \in Sources, MergeTake(c, s) PROVE RoutingInv'
    <2>1. RoutingTypeOK'
      BY <1>2 DEF MergeTake, Receive, Offers
    <2>2. ClosedIsEmpty' /\ NilIsClosed'
      BY <1>2 DEF MergeTake, Receive, Offers, ClosedIsEmpty, NilIsClosed
    <2>3. SearchDelivers'
      BY <1>2 DEF MergeTake, Receive, Offers, SearchDelivers
    <2> QED BY <2>1, <2>2, <2>3
  <1>3. ASSUME NEW s \in Sources, MergeClosed(c, s) PROVE RoutingInv'
    <2>1. RoutingTypeOK'
      BY <1>3 DEF MergeClosed
    <2>2. ClosedIsEmpty' /\ NilIsClosed'
      BY <1>3 DEF MergeClosed, ClosedIsEmpty, NilIsClosed
    <2>3. SearchDelivers'
      BY <1>3 DEF MergeClosed, ClosedIsEmpty, NilIsClosed, SearchDelivers
    <2> QED BY <2>1, <2>2, <2>3
  <1>4. ASSUME NEW s \in Sources, DrainTake(c, s) PROVE RoutingInv'
    <2>1. RoutingTypeOK'
      BY <1>4 DEF DrainTake, Receive, Offers
    <2>2. ClosedIsEmpty' /\ NilIsClosed'
      BY <1>4 DEF DrainTake, Receive, Offers, ClosedIsEmpty, NilIsClosed
    <2>3. SearchDelivers'
      BY <1>4 DEF DrainTake, Receive, Offers, SearchDelivers
    <2> QED BY <2>1, <2>2, <2>3
  <1>5. ASSUME NEW s \in Sources, DrainEnd(c, s) PROVE RoutingInv'
    BY <1>5 DEF DrainEnd, ClosedIsEmpty, NilIsClosed, SearchDelivers
  <1>6. CASE MergeCancelled(c)
    <2>1. RoutingTypeOK'
      BY <1>6 DEF MergeCancelled
    <2>2. ClosedIsEmpty' /\ NilIsClosed' /\ SearchDelivers'
      BY <1>6 DEF MergeCancelled, ClosedIsEmpty, NilIsClosed, SearchDelivers
    <2> QED BY <2>1, <2>2
  <1>7. CASE ConsumerTake(c)
    <2>0. /\ got' = [got EXCEPT ![c] = TRUE] /\ UNCHANGED <<call, chan, listens, ctx>>
      BY <1>7 DEF ConsumerTake
    <2>1. ASSUME NEW s \in Sources, Offers(c, s), Receive(c, s), UNCHANGED out
          PROVE  RoutingInv'
      <3>1. RoutingTypeOK'
        BY <2>0, <2>1 DEF Offers, Receive
      <3>2. ClosedIsEmpty' /\ NilIsClosed'
        BY <2>0, <2>1 DEF Offers, Receive, ClosedIsEmpty, NilIsClosed
      <3>3. SearchDelivers'
        BY <2>0, <2>1 DEF Offers, Receive, SearchDelivers
      <3> QED BY <3>1, <3>2, <3>3
    <2>2. CASE out' = [out EXCEPT ![c] = 0] /\ UNCHANGED left
      <3>1. RoutingTypeOK'
        BY <2>0, <2>2
      <3>2. ClosedIsEmpty' /\ NilIsClosed'
        BY <2>0, <2>2 DEF ClosedIsEmpty, NilIsClosed
      <3>3. SearchDelivers'
        BY <2>0, <2>2 DEF SearchDelivers
      <3> QED BY <3>1, <3>2, <3>3
    <2> QED BY <1>7, <2>1, <2>2 DEF ConsumerTake
  <1> QED BY <1>1, <1>2, <1>3, <1>4, <1>5, <1>6, <1>7 DEF RoutingStep

LEMMA SearchKeeps ==
    ASSUME RoutingInv, NEW c \in Calls, SearchValue(c)
    PROVE  RoutingInv'
  <1>1. PICK ok \in SUBSET Sources, n \in [Sources -> 0..MaxValues] :
          /\ \A s \in Sources \ ok : n[s] = 0
          /\ chan' = [chan EXCEPT ![c] =
                        [s \in Sources |-> IF s \in ok THEN "open" ELSE "failed"]]
          /\ left' = [left EXCEPT ![c] = n]
          /\ call' = [call EXCEPT ![c] = CASE ok = {}      -> "failed"
                                           [] ok = Sources -> "merge"
                                           [] OTHER        -> "direct"]
          /\ listens' = [listens EXCEPT ![c] = IF ok = Sources THEN Sources ELSE {}]
    BY DEF SearchValue
  <1>2. PICK k \in {"failed", "merge", "direct"} :
          call' = [call EXCEPT ![c] = k] /\ (k = "merge" => ok = Sources)
    BY <1>1 DEF Sources
  <1>3. UNCHANGED <<out, ctx, got>>
    BY DEF SearchValue
  <1>4. n \in [Sources -> Nat]
    BY MaxValuesAssumption
  <1>5. [s \in Sources |-> IF s \in ok THEN "open" ELSE "failed"]
           \in [Sources -> {"none", "failed", "open", "closed"}]
    OBVIOUS
  <1>6. RoutingTypeOK'
    BY <1>1, <1>2, <1>3, <1>4, <1>5 DEF RoutingInv, RoutingTypeOK
  <1>7. \A d \in Calls :
          IF d = c THEN /\ call'[d] = k
                        /\ \A s \in Sources : chan'[d][s] \in {"open", "failed"}
                        /\ k = "merge" => listens'[d] = Sources
          ELSE UNCHANGED <<call[d], chan[d], left[d], listens[d]>>
    BY <1>1, <1>2 DEF RoutingInv, RoutingTypeOK
  <1>8. ClosedIsEmpty' /\ NilIsClosed'
    BY <1>7 DEF RoutingInv, ClosedIsEmpty, NilIsClosed
  <1>9. SearchDelivers'
    BY <1>3, <1>7 DEF RoutingInv, SearchDelivers
  <1> QED BY <1>6, <1>8, <1>9 DEF RoutingInv

\* Ending a context keeps what is known of the searches.
LEMMA ContextEnds ==
    ASSUME RoutingInv, ctx' \in [Calls -> {"live", "done"}],
           \A c \in Calls : ctx'[c] = "live" => ctx[c] = "live",
           UNCHANGED <<call, chan, left, listens, out, got>>
    PROVE  RoutingInv'
  BY DEF RoutingInv, RoutingTypeOK, ClosedIsEmpty, NilIsClosed, SearchDelivers

LEMMA RoutingStutters == RoutingInv /\ UNCHANGED routingVars => RoutingInv'
  BY DEF routingVars, RoutingInv, RoutingTypeOK, ClosedIsEmpty, NilIsClosed, SearchDelivers

\* A new round forgets the searches of the last one.
LEMMA RoutingStarts ==
    /\ RoutingInit => RoutingInv
    /\ StartRound => RoutingInv'
  <1>1. RoutingInit => RoutingInv
    BY DEF RoutingInit, RoutingInv, RoutingTypeOK, ClosedIsEmpty, NilIsClosed, SearchDelivers
  <1>2. StartRound => RoutingInv'
    BY WebsitesAssumption
    DEF StartRound, RoutingInv, RoutingTypeOK, ClosedIsEmpty, NilIsClosed, SearchDelivers
  <1> QED BY <1>1, <1>2

----------------------------------------------------------------------------
(* The checker.                                                            *)

LEMMA Results == \A b \in BOOLEAN : Result(b) \in {"up", "down"} /\ (Result(b) = "up" <=> b)
  BY DEF Result

\* The goroutine of a website moves on within its round.
LEMMA WebsiteMoves ==
    ASSUME HealthInv, NEW w \in Websites, pc[w] \in {"dns", "search", "block"},
           NEW p \in {"search", "block"}, pc' = [pc EXCEPT ![w] = p],
           UNCHANGED <<status, round, failures, gauge, aggregate>>
    PROVE  HealthInv'
  <1>1. round # "idle"
    BY DEF HealthInv, IdleIsQuiet
  <1>2. HealthTypeOK'
    BY DEF HealthInv, HealthTypeOK
  <1>3. FinishedAgrees'
    BY DEF HealthInv, HealthTypeOK, FinishedAgrees
  <1> QED BY <1>1, <1>2, <1>3 DEF HealthInv, IdleIsQuiet, StatusFollows, RoundAgrees

\* It ends, and reports its result twice.
LEMMA WebsiteFinishes ==
    ASSUME HealthInv, RoutingInv, NEW w \in Websites, pc[w] \in {"dns", "search", "block"},
           NEW ok \in BOOLEAN, FinishWebsite(w, ok)
    PROVE  HealthInv' /\ RoutingInv'
  <1>1. round # "idle"
    BY DEF HealthInv, IdleIsQuiet
  <1>2. HealthTypeOK'
    BY Results DEF HealthInv, HealthTypeOK, FinishWebsite
  <1>3. FinishedAgrees'
    <2>1. \A v \in Websites : /\ v # w => pc'[v] = pc[v] /\ gauge'[v] = gauge[v]
                              /\ v = w => pc'[v] = "finished" /\ gauge'[v] = Result(ok)
      BY DEF HealthInv, HealthTypeOK, FinishWebsite
    <2>2. \A v \in Websites : /\ v # w => (v \in failures' <=> v \in failures)
                              /\ v = w /\ ~ok => v \in failures'
                              /\ v = w /\ ok => v \notin failures'
      BY DEF HealthInv, HealthTypeOK, FinishedAgrees, IdleIsQuiet, FinishWebsite
    <2>3. failures' \subseteq Websites
      BY <1>2 DEF HealthTypeOK
    <2> QED BY <2>1, <2>2, <2>3, Results DEF HealthInv, FinishedAgrees, FinishWebsite, IdleIsQuiet
  <1>4. RoutingInv'
    <2>1. /\ ctx' \in [Calls -> {"live", "done"}]
          /\ \A c \in Calls : ctx'[c] = "live" => ctx[c] = "live"
      BY WebsitesAssumption DEF FinishWebsite, RoutingInv, RoutingTypeOK
    <2> QED BY <2>1, ContextEnds DEF FinishWebsite
  <1> QED BY <1>1, <1>2, <1>3, <1>4
          DEF HealthInv, IdleIsQuiet, StatusFollows, RoundAgrees, FinishWebsite

\* Every step keeps both invariants.
LEMMA HealthInductive == HealthInv /\ RoutingInv /\ [HealthNext]_allVars => HealthInv' /\ RoutingInv'
  <1> SUFFICES ASSUME HealthInv, RoutingInv, [HealthNext]_allVars PROVE HealthInv' /\ RoutingInv'
    OBVIOUS
  <1>c. "internal_api" \in Checks /\ "ipfs_peer" \in Checks /\ "website_retrieval" \in Checks
    BY DEF Checks
  <1>s. ASSUME NEW k \in {"internal_api", "ipfs_peer"}, NEW b \in BOOLEAN,
               status' = [status EXCEPT ![k] = Result(b)],
               UNCHANGED <<round, pc, failures, gauge, aggregate>>
        PROVE  HealthInv'
    <2>1. HealthTypeOK' /\ status'["website_retrieval"] = status["website_retrieval"]
      BY <1>c, <1>s, Results DEF HealthInv, HealthTypeOK
    <2>2. RoundAgrees'
      BY <1>c, <1>s, <2>1 DEF HealthInv, StatusFollows, RoundAgrees, Healthy
    <2> QED BY <1>s, <2>1, <2>2 DEF HealthInv, FinishedAgrees, IdleIsQuiet, StatusFollows
  <1>1. CASE SeedChange
    BY <1>1, RoutingStutters
    DEF SeedChange, HealthInv, HealthTypeOK, FinishedAgrees, IdleIsQuiet, StatusFollows,
        RoundAgrees, Healthy
  <1>2. CASE CheckAPI BY <1>2, <1>s, RoutingStutters DEF CheckAPI
  <1>3. CASE CheckPeer
    <2>1. status' = [status EXCEPT !["ipfs_peer"] = Result(TRUE)]
            \/ status' = [status EXCEPT !["ipfs_peer"] = Result(FALSE)]
      BY <1>3 DEF CheckPeer, Result
    <2> QED BY <1>3, <1>s, <2>1, RoutingStutters DEF CheckPeer
  <1>4. CASE StartRound
    <2>1. HealthTypeOK'
      BY <1>4 DEF StartRound, HealthInv, HealthTypeOK
    <2>2. FinishedAgrees' /\ IdleIsQuiet' /\ StatusFollows' /\ RoundAgrees'
      BY <1>4 DEF StartRound, HealthInv, FinishedAgrees, IdleIsQuiet, StatusFollows, RoundAgrees
    <2> QED BY <1>4, <2>1, <2>2, RoutingStarts DEF HealthInv
  <1>5. CASE Abandon
    <2>1. HealthTypeOK' /\ status'["website_retrieval"] = "down"
      BY <1>5, <1>c DEF Abandon, HealthInv, HealthTypeOK
    <2>2. FinishedAgrees' /\ IdleIsQuiet' /\ StatusFollows' /\ RoundAgrees'
      BY <1>5, <2>1
      DEF Abandon, HealthInv, FinishedAgrees, IdleIsQuiet, StatusFollows, RoundAgrees
    <2>3. RoutingInv'
      BY <1>5, ContextEnds, WebsitesAssumption DEF Abandon
    <2> QED BY <2>1, <2>2, <2>3 DEF HealthInv
  <1>6. CASE EndRound
    <2>1. aggregate' \in {"up", "down"} /\ (aggregate' = "up" <=> failures = {})
      BY <1>6 DEF EndRound, Report, Result
    <2>2. /\ round = "running" => status' = [status EXCEPT !["website_retrieval"] = aggregate']
          /\ round # "running" => status' = status
          /\ round' = "idle" /\ UNCHANGED <<routingVars, pc, failures, gauge>>
      BY <1>6 DEF EndRound, Report
    <2>3. HealthTypeOK'
      BY <2>1, <2>2 DEF HealthInv, HealthTypeOK
    <2>4. status'["website_retrieval"] = "up" => aggregate' = "up"
      BY <1>6, <1>c, <2>2 DEF EndRound, HealthInv, HealthTypeOK, StatusFollows
    <2>5. aggregate' = "up" <=> \A w \in Websites : gauge[w] = "up"
      BY <1>6, <2>1 DEF EndRound, HealthInv, HealthTypeOK, FinishedAgrees
    <2>6. RoundAgrees'
      BY <1>c, <2>2, <2>4, <2>5 DEF RoundAgrees, Healthy
    <2>7. FinishedAgrees' /\ IdleIsQuiet' /\ StatusFollows'
      BY <1>6, <2>2, <2>4 DEF EndRound, FinishedAgrees, IdleIsQuiet, StatusFollows
    <2> QED BY <2>2, <2>3, <2>6, <2>7, RoutingStutters DEF HealthInv
  <1>7. ASSUME NEW w \in Websites, Timeout(w) \/ WebsiteStep(w) \/ Search(w)
        PROVE  HealthInv' /\ RoutingInv'
    <2>h. UNCHANGED healthVars => HealthInv'
      BY DEF healthVars, HealthInv, HealthTypeOK, FinishedAgrees, IdleIsQuiet, StatusFollows,
             RoundAgrees, Healthy
    <2>1. CASE Timeout(w)
      <3>1. RoutingInv'
        BY <2>1, ContextEnds, WebsitesAssumption DEF Timeout, RoutingInv, RoutingTypeOK
      <3> QED BY <2>1, <2>h, <3>1 DEF Timeout
    <2>2. CASE DNSLink(w)
      <3>1. CASE FinishWebsite(w, FALSE) BY <2>2, <3>1, WebsiteFinishes DEF DNSLink
      <3>2. CASE ~FinishWebsite(w, FALSE)
        <4>1. RoutingInv'
          BY <2>2, <3>2, SearchKeeps, RoutingStutters, WebsitesAssumption DEF DNSLink
        <4>2. HealthInv'
          BY <2>2, <3>2, WebsiteMoves DEF DNSLink
        <4> QED BY <4>1, <4>2
      <3> QED BY <3>1, <3>2
    <2>3. CASE ResolveIPNS(w)
      <3>1. CASE FinishWebsite(w, FALSE) BY <2>3, <3>1, WebsiteFinishes DEF ResolveIPNS
      <3>2. CASE ~FinishWebsite(w, FALSE)
        BY <2>3, <3>2, WebsiteMoves, RoutingStutters DEF ResolveIPNS
      <3> QED BY <3>1, <3>2
    <2>4. CASE GetBlock(w) BY <2>4, WebsiteFinishes DEF GetBlock
    <2>5. CASE Search(w) BY <2>5, <2>h, RoutingKeeps, WebsitesAssumption DEF Search
    <2> QED BY <1>7, <2>1, <2>2, <2>3, <2>4, <2>5 DEF WebsiteStep
  <1>8. CASE UNCHANGED allVars
    BY <1>8, RoutingStutters
    DEF allVars, healthVars, HealthInv, HealthTypeOK, FinishedAgrees, IdleIsQuiet, StatusFollows,
        RoundAgrees, Healthy
  <1> QED BY <1>1, <1>2, <1>3, <1>4, <1>5, <1>6, <1>7, <1>8 DEF HealthNext

LEMMA HealthInitially == HealthInit => HealthInv /\ RoutingInv
  <1> SUFFICES ASSUME HealthInit PROVE HealthInv /\ RoutingInv
    OBVIOUS
  <1>1. HealthTypeOK
    BY DEF HealthInit, HealthTypeOK
  <1>2. status["website_retrieval"] = "unknown"
    BY DEF HealthInit, Checks
  <1>3. ~Healthy
    BY <1>2 DEF Healthy, Checks
  <1> QED BY <1>1, <1>2, <1>3, RoutingStarts
          DEF HealthInit, HealthInv, FinishedAgrees, IdleIsQuiet, StatusFollows, RoundAgrees

LEMMA HealthInvariance == HealthSpec => [](HealthInv /\ RoutingInv)
  BY HealthInitially, HealthInductive, PTL DEF HealthSpec

----------------------------------------------------------------------------
(* Theorems.                                                               *)

\* However many records the routers deliver, a merged search that ends empty while
\* its context is live ends so because neither router had a record: the loop that
\* sets closed channels to nil gives up only after both.
THEOREM SearchesDeliver == HealthSpec => []SearchDelivers
  BY HealthInvariance, PTL DEF RoutingInv

\* For any set of websites, the aggregate result and the results each goroutine
\* reported agree between rounds, and /healthz hears of success only then, also when
\* the library gave up on a round that went on.
THEOREM RoundsAgree == HealthSpec => []RoundAgrees
  BY HealthInvariance, PTL DEF HealthInv

-----------------------------------------------------------------------------
(* The name system.                                                        *)

WatchType == [pc : {"none", "listen", "put", "persist", "exit", "delete"}, ver : Nat,
              cancelled : BOOLEAN]
JobType == [pc : {"none", "resolve", "put", "persist", "watch"}, ver : Nat]

Phases == {"boot", "up", "cancelled", "stopping", "stopped"}

\* The variables that the two properties depend on have their types.
NamesysTypeOK ==
  /\ published \in Nat
  /\ reg \in Watchers \cup {None}
  /\ watch \in [Watchers -> WatchType]
  /\ pending \in BOOLEAN
  /\ job \in [Jobs -> JobType]
  /\ phase \in Phases

\* A slot whose goroutine has ended carries no cancellation to the next one.
CleanSlots == \A w \in Watchers : watch[w].pc = "none" => ~watch[w].cancelled

\* One job at a time revalidates the key, which is pending meanwhile, and pending
\* without one only when Stop has closed the pool.
OneRevalidation ==
  /\ \A i, j \in Jobs : job[i].pc # "none" /\ job[j].pc # "none" => i = j
  /\ \A j \in Jobs : job[j].pc # "none" => pending
  /\ pending => phase \in {"stopping", "stopped"} \/ \E j \in Jobs : job[j].pc # "none"

NamesysInv == NamesysTypeOK /\ CleanSlots /\ RegisteredWatcherLives /\ OneRevalidation

WatchersOK == /\ reg \in Watchers \cup {None} /\ watch \in [Watchers -> WatchType]
              /\ CleanSlots /\ RegisteredWatcherLives
JobsOK == /\ pending \in BOOLEAN /\ job \in [Jobs -> JobType] /\ phase \in Phases
          /\ OneRevalidation

-----------------------------------------------------------------------------
(* The registry.                                                           *)

LEMMA Records == NoWatch \in WatchType /\ NoJob \in JobType /\ NoWatch.pc = "none"
                   /\ ~NoWatch.cancelled /\ NoJob.pc = "none"
  BY DEF NoWatch, WatchType, NoJob, JobType

\* A watcher that goes on keeps its place, and one that ends has none.
LEMMA WatcherMoves ==
  ASSUME WatchersOK, NEW w \in Watchers, NEW k \in WatchType,
         watch' = [watch EXCEPT ![w] = k],
         k.cancelled = watch[w].cancelled \/ ~k.cancelled,
         k.pc = "none" => ~k.cancelled,
         k.pc = "none" => reg # w,
         UNCHANGED reg
  PROVE  WatchersOK'
  <1>1. \A v \in Watchers : watch'[v] = IF v = w THEN k ELSE watch[v]
    BY DEF WatchersOK
  <1>2. CleanSlots'
    BY <1>1 DEF WatchersOK, CleanSlots
  <1>3. RegisteredWatcherLives'
    BY <1>1 DEF WatchersOK, RegisteredWatcherLives
  <1> QED BY <1>2, <1>3 DEF WatchersOK

LEMMA StartKeeps == WatchersOK /\ StartWatcher => WatchersOK'
  <1> SUFFICES ASSUME WatchersOK, StartWatcher PROVE WatchersOK'
    OBVIOUS
  <1>1. CASE reg # None
    BY <1>1 DEF StartWatcher, WatchersOK, CleanSlots, RegisteredWatcherLives
  <1>2. CASE reg = None
    <2>1. PICK w \in Watchers : /\ watch[w].pc = "none" /\ reg' = w
                                /\ watch' = [watch EXCEPT ![w].pc = "listen"]
      BY <1>2 DEF StartWatcher
    <2> DEFINE k == [watch[w] EXCEPT !.pc = "listen"]
    <2>2. k \in WatchType /\ k.pc = "listen" /\ k.cancelled = watch[w].cancelled
      BY DEF WatchersOK, WatchType
    <2>3. watch' = [watch EXCEPT ![w] = k]
      BY <2>1
    <2> HIDE DEF k
    <2>4. \A v \in Watchers : watch'[v] = IF v = w THEN k ELSE watch[v]
      BY <2>3 DEF WatchersOK
    <2>5. CleanSlots' /\ RegisteredWatcherLives'
      BY <2>1, <2>2, <2>4 DEF WatchersOK, CleanSlots, RegisteredWatcherLives
    <2> QED BY <2>1, <2>2, <2>3, <2>5 DEF WatchersOK
  <1> QED BY <1>1, <1>2

\* The callback takes off the map the watcher that it cancels.
LEMMA EvictKeeps == WatchersOK /\ EvictWatcher => WatchersOK'
  <1> SUFFICES ASSUME WatchersOK, EvictWatcher PROVE WatchersOK'
    OBVIOUS
  <1>1. \A w \in Watchers : [watch[w] EXCEPT !.cancelled = TRUE] \in WatchType
    BY DEF WatchersOK, WatchType
  <1>2. watch' \in [Watchers -> WatchType]
    BY <1>1 DEF WatchersOK, EvictWatcher
  <1>3. \A w \in Watchers : /\ watch'[w].pc = watch[w].pc
                            /\ w # reg => watch'[w] = watch[w]
    BY DEF WatchersOK, EvictWatcher, WatchType
  <1>4. CleanSlots'
    BY <1>3, NoneAssumption DEF WatchersOK, CleanSlots, RegisteredWatcherLives
  <1> QED BY <1>2, <1>4 DEF WatchersOK, EvictWatcher, RegisteredWatcherLives

-----------------------------------------------------------------------------
(* The pending set.                                                        *)

LEMMA RevalidateKeeps == JobsOK /\ phase # "boot" /\ UNCHANGED phase /\ Revalidate => JobsOK'
  <1> SUFFICES ASSUME JobsOK, phase # "boot", UNCHANGED phase, Revalidate PROVE JobsOK'
    OBVIOUS
  <1>1. CASE pending \/ ~PoolOpen
    BY <1>1 DEF Revalidate, PoolOpen, Phases, JobsOK, OneRevalidation
  <1>2. CASE ~pending /\ PoolOpen
    <2>1. PICK j \in Jobs : job[j].pc = "none" /\ job' = [job EXCEPT ![j].pc = "resolve"]
      BY <1>2 DEF Revalidate
    <2> DEFINE k == [job[j] EXCEPT !.pc = "resolve"]
    <2>2. k \in JobType /\ k.pc = "resolve"
      BY DEF JobsOK, JobType
    <2>3. job' = [job EXCEPT ![j] = k] /\ pending' = TRUE
      BY <1>2, <2>1 DEF Revalidate
    <2> HIDE DEF k
    <2>4. \A i \in Jobs : job'[i] = IF i = j THEN k ELSE job[i]
      BY <2>3 DEF JobsOK
    <2>5. \A i \in Jobs : job[i].pc = "none"
      BY <1>2 DEF JobsOK, OneRevalidation
    <2>6. OneRevalidation'
      BY <2>2, <2>3, <2>4, <2>5 DEF OneRevalidation
    <2> QED BY <2>2, <2>3, <2>6 DEF JobsOK
  <1> QED BY <1>1, <1>2

\* A job goes on...
LEMMA JobMoves ==
  ASSUME JobsOK, NEW j \in Jobs, job[j].pc # "none", NEW k \in JobType, k.pc # "none",
         job' = [job EXCEPT ![j] = k], UNCHANGED <<pending, phase>>
  PROVE  JobsOK'
  <1>1. \A i \in Jobs : job'[i] = IF i = j THEN k ELSE job[i]
    BY DEF JobsOK
  <1>2. OneRevalidation'
    BY <1>1 DEF JobsOK, OneRevalidation
  <1> QED BY <1>2 DEF JobsOK

\* ...or ends, and takes the key off the pending set.
LEMMA JobEnds ==
  ASSUME JobsOK, NEW j \in Jobs, job[j].pc # "none",
         job' = [job EXCEPT ![j] = NoJob], pending' = FALSE, UNCHANGED phase
  PROVE  JobsOK'
  <1>1. \A i \in Jobs : job'[i] = IF i = j THEN NoJob ELSE job[i]
    BY DEF JobsOK
  <1>2. \A i \in Jobs : job'[i].pc = "none"
    BY <1>1, Records DEF JobsOK, OneRevalidation
  <1>3. OneRevalidation'
    BY <1>2 DEF OneRevalidation
  <1> QED BY <1>3, Records DEF JobsOK

-----------------------------------------------------------------------------
(* The invariant.                                                          *)

\* Every step keeps the invariant.
LEMMA NamesysInductive == NamesysInv /\ [Next]_vars => NamesysInv'
  <1> SUFFICES ASSUME NamesysInv, [Next]_vars PROVE NamesysInv'
    OBVIOUS
  <1>0. published \in Nat /\ WatchersOK /\ JobsOK
    BY DEF NamesysInv, NamesysTypeOK, WatchersOK, JobsOK
  <1>q. ASSUME published' \in Nat, WatchersOK', JobsOK' PROVE NamesysInv'
    BY <1>q DEF NamesysInv, NamesysTypeOK, WatchersOK, JobsOK
  <1>u. /\ UNCHANGED published => published' \in Nat
        /\ UNCHANGED <<reg, watch>> => WatchersOK'
        /\ UNCHANGED <<pending, job, phase>> => JobsOK'
    BY <1>0 DEF WatchersOK, CleanSlots, RegisteredWatcherLives, JobsOK, OneRevalidation
  <1>1. CASE Publish BY <1>0, <1>1, <1>q, <1>u DEF Publish
  <1>2. CASE Expire BY <1>2, <1>q, <1>u DEF Expire
  <1>3. CASE Restart
    <2>1. WatchersOK'
      BY <1>3, Records DEF Restart, WatchersOK, CleanSlots, RegisteredWatcherLives
    <2>2. JobsOK'
      BY <1>3, Records DEF Restart, Phases, JobsOK, OneRevalidation
    <2> QED BY <1>3, <1>q, <1>u, <2>1, <2>2 DEF Restart
  <1>4. CASE Evict BY <1>4, <1>q, <1>u DEF Evict
  <1>5. CASE EvictRedis BY <1>5, <1>q, <1>u DEF EvictRedis
  <1>6. CASE EvictWatcher BY <1>0, <1>6, <1>q, <1>u, EvictKeeps DEF EvictWatcher
  <1>p. ASSUME UNCHANGED <<pending, job>>, phase' \in Phases,
               phase \in {"stopping", "stopped"} => phase' \in {"stopping", "stopped"}
        PROVE  JobsOK'
    BY <1>0, <1>p DEF JobsOK, OneRevalidation
  <1>7. CASE Warm
    <2>1. JobsOK'
      BY <1>7, <1>p DEF Warm, Phases
    <2>2. WatchersOK'
      BY <1>0, <1>7, <1>u, StartKeeps DEF Warm
    <2> QED BY <1>7, <1>q, <1>u, <2>1, <2>2 DEF Warm
  <1>8. ASSUME NEW j \in Jobs, JobStep(j) \/ JobFails(j) PROVE NamesysInv'
    <2>0. job[j] \in JobType /\ job[j].pc # "none"
      BY <1>0, <1>8 DEF JobsOK, JobStep, JobFails, JobResolve, JobPut, JobPersist, JobWatch
    <2>1. CASE JobResolve(j)
      <3>1. [pc |-> "put", ver |-> published] \in JobType
        BY <1>0 DEF JobType
      <3> QED BY <1>0, <1>q, <1>u, <2>0, <2>1, <3>1, JobMoves DEF JobResolve
    <2>2. CASE JobPut(j)
      <3> DEFINE k == [job[j] EXCEPT !.pc = "persist"]
      <3>1. k \in JobType /\ k.pc = "persist"
        BY <2>0 DEF JobType
      <3>2. job' = [job EXCEPT ![j] = k]
        BY <2>2 DEF JobPut
      <3> HIDE DEF k
      <3> QED BY <1>0, <1>q, <1>u, <2>0, <2>2, <3>1, <3>2, JobMoves DEF JobPut
    <2>3. CASE JobPersist(j)
      <3> DEFINE k == [NoJob EXCEPT !.pc = "watch"]
      <3>1. k \in JobType /\ k.pc = "watch"
        BY DEF JobType, NoJob
      <3>2. job' = [job EXCEPT ![j] = k]
        BY <2>3 DEF JobPersist
      <3> HIDE DEF k
      <3> QED BY <1>0, <1>q, <1>u, <2>0, <2>3, <3>1, <3>2, JobMoves DEF JobPersist
    <2>4. CASE JobWatch(j)
      BY <1>0, <1>q, <1>u, <2>0, <2>4, StartKeeps, JobEnds DEF JobWatch
    <2>5. CASE JobFails(j)
      BY <1>0, <1>q, <1>u, <2>0, <2>5, JobEnds DEF JobFails
    <2> QED BY <1>8, <2>1, <2>2, <2>3, <2>4, <2>5 DEF JobStep
  <1>9. ASSUME NEW r \in Requests, Begin(r) \/ ReqStep(r) PROVE NamesysInv'
    <2>1. CASE Begin(r) BY <1>0, <1>q, <1>u, <2>1, RevalidateKeeps DEF Begin
    <2>2. CASE ReqWatch(r) BY <1>0, <1>q, <1>u, <2>2, StartKeeps DEF ReqWatch
    <2>3. CASE ReqResolve(r) \/ ReqFails(r) \/ ReqPut(r) \/ ReqPersist(r) \/ Finish(r)
      BY <1>q, <1>u, <2>3 DEF ReqResolve, ReqFails, ReqPut, ReqPersist, Finish
    <2> QED BY <1>9, <2>1, <2>2, <2>3 DEF ReqStep
  <1>10. ASSUME NEW w \in Watchers, WatchResult(w) \/ WatchClosed(w) \/ WatchStep(w)
         PROVE  NamesysInv'
    <2>0. watch[w] \in WatchType
      BY <1>0 DEF WatchersOK
    <2>k. ASSUME NEW k \in WatchType, k.pc # "none", k.cancelled = watch[w].cancelled,
                 watch' = [watch EXCEPT ![w] = k], UNCHANGED <<published, pending, job, phase, reg>>
          PROVE  NamesysInv'
      BY <1>0, <1>q, <1>u, <2>k, WatcherMoves
    <2>1. CASE WatchResult(w)
      <3>1. [watch[w] EXCEPT !.pc = "put", !.ver = published] \in WatchType
        BY <1>0, <2>0 DEF WatchType
      <3> QED BY <2>0, <2>1, <2>k, <3>1 DEF WatchResult, WatchType
    <2>2. CASE WatchPut(w)
      BY <2>0, <2>2, <2>k DEF WatchPut, WatchType
    <2>3. CASE WatchPersist(w)
      <3>1. [watch[w] EXCEPT !.pc = "listen", !.ver = 0] \in WatchType
        BY <2>0 DEF WatchType
      <3> QED BY <2>0, <2>3, <2>k, <3>1 DEF WatchPersist, WatchType
    <2>4. CASE WatchClosed(w) \/ WatchDone(w)
      BY <2>0, <2>4, <2>k DEF WatchClosed, WatchDone, WatchType
    <2>5. CASE WatchExit(w)
      <3>1. CASE reg = w
        <4>1. [watch[w] EXCEPT !.pc = "delete"] \in WatchType
          BY <2>0 DEF WatchType
        <4> QED BY <2>0, <2>5, <2>k, <3>1, <4>1 DEF WatchExit, WatchType
      <3>2. CASE reg # w
        <4>1. watch' = [watch EXCEPT ![w] = NoWatch]
          BY <2>5, <3>2 DEF WatchExit
        <4> QED BY <1>0, <1>q, <1>u, <2>5, <3>2, <4>1, Records, WatcherMoves DEF WatchExit
      <3> QED BY <3>1, <3>2
    <2>6. CASE WatchDelete(w)
      <3>1. \A v \in Watchers : watch'[v] = IF v = w THEN NoWatch ELSE watch[v]
        BY <1>0, <2>6 DEF WatchDelete, WatchersOK
      <3>2. WatchersOK'
        BY <1>0, <2>6, <3>1, Records
        DEF WatchDelete, WatchersOK, CleanSlots, RegisteredWatcherLives
      <3> QED BY <1>q, <1>u, <2>6, <3>2 DEF WatchDelete
    <2> QED BY <1>10, <2>1, <2>2, <2>3, <2>4, <2>5, <2>6 DEF WatchStep
  <1>11. CASE StopBegin \/ StopPool \/ StopReturn
    <2>1. JobsOK'
      BY <1>11, <1>p DEF StopBegin, StopPool, StopReturn, Phases
    <2> QED BY <1>11, <1>q, <1>u, <2>1 DEF StopBegin, StopPool, StopReturn
  <1>12. CASE UNCHANGED vars
    BY <1>12, <1>q, <1>u DEF vars
  <1> QED BY <1>1, <1>2, <1>3, <1>4, <1>5, <1>6, <1>7, <1>8, <1>9, <1>10, <1>11, <1>12
      DEF Next

LEMMA NamesysInitially == Init => NamesysInv
  <1> SUFFICES ASSUME Init PROVE NamesysInv
    OBVIOUS
  <1>1. NamesysTypeOK
    BY Records DEF Init, NamesysTypeOK, Phases
  <1>2. CleanSlots /\ RegisteredWatcherLives
    BY Records DEF Init, CleanSlots, RegisteredWatcherLives
  <1>3. OneRevalidation
    BY Records DEF Init, OneRevalidation
  <1> QED BY <1>1, <1>2, <1>3 DEF NamesysInv

LEMMA NamesysInvariance == Spec => []NamesysInv
  BY NamesysInitially, NamesysInductive, PTL DEF Spec

-----------------------------------------------------------------------------
(* Theorems.                                                               *)

\* With any number of watchers coming and going, the one on the map runs and no
\* eviction has cancelled it, although a watcher that ends compares and deletes in
\* two steps: what it may take off the map by mistake is another's entry, but it
\* never leaves its own there.
THEOREM WatchersOnTheMapLive == Spec => []RegisteredWatcherLives
  BY NamesysInvariance, PTL DEF NamesysInv

\* At most one job at a time revalidates a key, and a key is pending only while one
\* does, or once Stop has closed the pool: stale answers neither fill the pool nor stop
\* being revalidated before that.
THEOREM NameRevalidationIsExclusive == Spec => []OneRevalidation
  BY NamesysInvariance, PTL DEF NamesysInv
=============================================================================

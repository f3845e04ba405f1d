--------------------------- MODULE ProcessProofs ---------------------------
(***************************************************************************)
(* The shutdown properties of Process, for every bound on the prewarmer's  *)
(* walks, and the stability of the config search, for every list of search *)
(* paths and every disk.                                                   *)
(***************************************************************************)
EXTENDS Process, TLAPS

----------------------------------------------------------------------------
(* The config search. *)

(* At most one path ends the search. *)
LEMMA OneReturn ==
    ASSUME NEW d \in Disks, NEW i \in DOMAIN d, NEW j \in DOMAIN d,
           ReturnsAt(d, i), ReturnsAt(d, j)
    PROVE  i = j
<1>1. DOMAIN d = 1..Len(ConfigPaths) /\ Len(ConfigPaths) \in Nat
  BY PathsAssumption DEF Disks
<1>2. i \in Nat /\ j \in Nat /\ i >= 1 /\ j >= 1
  BY <1>1
<1>3. ~(i < j) /\ ~(j < i)
  <2>1. ASSUME i < j PROVE FALSE
    BY <2>1, <1>2 DEF ReturnsAt
  <2>2. ASSUME j < i PROVE FALSE
    BY <2>2, <1>2 DEF ReturnsAt
  <2> QED BY <2>1, <2>2
<1> QED BY <1>2, <1>3

(* Creating the default file leaves every path skipped or not as it was,   *)
(* so that a second search ends where the first one did.                   *)
LEMMA SearchIsStable ==
    ASSUME NEW d \in Disks
    PROVE  /\ CreateDefaultConfig(d) \in Disks
           /\ FindConfigFile(CreateDefaultConfig(d)) = FindConfigFile(d)
           /\ FindConfigFile(d) \in DOMAIN ConfigPaths \cup {NoFile}
<1> DEFINE e == CreateDefaultConfig(d)
<1>1. e \in Disks /\ DOMAIN e = DOMAIN d /\ DOMAIN d = DOMAIN ConfigPaths
  BY DEF CreateDefaultConfig, Disks, FileStates
<1>2. DOMAIN d = 1..Len(ConfigPaths) /\ Len(ConfigPaths) \in Nat
  BY PathsAssumption DEF Disks
<1>3. \A i \in DOMAIN d : Skipped(e, i) <=> Skipped(d, i)
  BY DEF CreateDefaultConfig, Skipped
<1>4. \A i \in DOMAIN d : ReturnsAt(e, i) <=> ReturnsAt(d, i)
  BY <1>2, <1>3 DEF ReturnsAt
<1>5. \A i \in DOMAIN d : e[i] = "unmakeable" <=> d[i] = "unmakeable"
  BY DEF CreateDefaultConfig
<1>6. CASE \E i \in DOMAIN d : ReturnsAt(d, i) /\ d[i] # "unmakeable"
  <2> DEFINE x == CHOOSE i \in DOMAIN d : ReturnsAt(d, i)
             y == CHOOSE i \in DOMAIN e : ReturnsAt(e, i)
  <2>1. x \in DOMAIN d /\ ReturnsAt(d, x)
    BY <1>6
  <2>2. y \in DOMAIN d /\ ReturnsAt(d, y)
    BY <1>6, <1>4, <1>1
  <2>3. x = y
    BY <2>1, <2>2, OneReturn
  <2>4. FindConfigFile(d) = x /\ FindConfigFile(e) = y
    BY <1>6, <1>1, <1>4, <1>5 DEF FindConfigFile
  <2> QED BY <2>1, <2>3, <2>4, <1>1
<1>7. CASE ~\E i \in DOMAIN d : ReturnsAt(d, i) /\ d[i] # "unmakeable"
  BY <1>7, <1>1, <1>4, <1>5 DEF FindConfigFile
<1> QED BY <1>6, <1>7, <1>1

----------------------------------------------------------------------------
(* Types. *)

(* A submission keeps the number of walks within its bound. *)
LEMMA SubmitTypes ==
    ASSUME tasks \in 0..MaxTasks, refused \subseteq {"handler", "callback"},
           NEW who, Submit(who)
    PROVE  tasks' \in 0..MaxTasks /\ refused' \subseteq {"handler", "callback"}
<1>1. tasks' \in 0..MaxTasks
  BY DEF Submit
<1>2. refused' \subseteq {"handler", "callback"}
  BY Zenon DEF Submit
<1> QED BY <1>1, <1>2

(* No walk is a number of walks. *)
LEMMA ZeroTasks == 0 \in 0..MaxTasks
  BY MaxTasksAssumption

(* Every step keeps the types. *)
LEMMA TypeStep == TypeOK /\ [Next]_vars => TypeOK'
<1> SUFFICES ASSUME TypeOK, [Next]_vars PROVE TypeOK' OBVIOUS
<1> USE DEF TypeOK, Stages, Stops
<1>1. CASE Boot
  BY <1>1, SearchIsStable DEF Boot, parts
<1>2. CASE StartFails BY <1>2 DEF StartFails, parts, settings
<1>3. CASE Open BY <1>3 DEF Open, After, parts, settings
<1>4. CASE StartPrewarmer BY <1>4 DEF StartPrewarmer, settings
<1>5. CASE StartStream BY <1>5 DEF StartStream, settings
<1>6. CASE StartWatcher BY <1>6 DEF StartWatcher, settings
<1>7. CASE StartChecker BY <1>7 DEF StartChecker, settings
<1>8. CASE ServerFails BY <1>8 DEF ServerFails, parts, settings
<1>9. CASE TaskEnds BY <1>9, MaxTasksAssumption DEF TaskEnds, settings
<1>10. CASE Event BY <1>10 DEF Event, settings
<1>11. CASE HandlerReturns BY <1>11, SubmitTypes DEF HandlerReturns, settings
<1>12. CASE RunStep
  <2>1. tasks' \in 0..MaxTasks /\ refused' \subseteq {"handler", "callback"}
    BY <1>12, SubmitTypes DEF RunStep
  <2> QED BY <1>12, <2>1 DEF RunStep, settings
<1>13. CASE Poll BY <1>13 DEF Poll, settings
<1>14. CASE Recover BY <1>14 DEF Recover, settings
<1>15. CASE PollDone BY <1>15 DEF PollDone, settings
<1>16. CASE WatcherExits BY <1>16 DEF WatcherExits, settings
<1>17. CASE CallbackReturns
  <2>1. tasks' \in 0..MaxTasks /\ refused' \subseteq {"handler", "callback"}
    BY <1>17, SubmitTypes DEF CallbackReturns
  <2>2. /\ callback' \in BOOLEAN
        /\ UNCHANGED <<phase, graceful, open, closing, stream, handler, run, watcher, visit, names,
                       pool, checker, disk, config, prev>>
    BY <1>17 DEF CallbackReturns, settings
  <2> QED BY <2>1, <2>2
<1>18. CASE VisitBegins BY <1>18 DEF VisitBegins, settings
<1>19. CASE VisitStep
  <2>1. tasks' \in 0..MaxTasks /\ refused' \subseteq {"handler", "callback"}
    BY <1>19, SubmitTypes DEF VisitStep
  <2>2. visit' \in BOOLEAN /\ names' \subseteq {"watcher", "revalidation"}
    BY <1>19 DEF VisitStep
  <2>3. UNCHANGED <<phase, graceful, open, closing, stream, handler, run, watcher, callback, pool,
                    checker, disk, config, prev>>
    BY <1>19 DEF VisitStep, settings
  <2> QED BY <2>1, <2>2, <2>3
<1>20. CASE NamesSubmit BY <1>20, SubmitTypes DEF NamesSubmit, settings
<1>21. CASE RevalidationEnds BY <1>21 DEF RevalidationEnds, settings
<1>22. CASE NameWatcherEnds BY <1>22 DEF NameWatcherEnds, settings
<1>23. CASE Signal BY <1>23 DEF Signal, parts, settings
<1>24. CASE Drained BY <1>24 DEF Drained, NextStop, parts, settings
<1>25. CASE StopStream BY <1>25 DEF StopStream, NextStop, settings
<1>26. CASE StopWatcher BY <1>26 DEF StopWatcher, NextStop, parts, settings
<1>27. CASE StopPool BY <1>27 DEF StopPool, settings
<1>28. CASE StopPrewarmer BY <1>28 DEF StopPrewarmer, NextStop, parts, settings
<1>29. CASE StopChecker BY <1>29 DEF StopChecker, NextStop, settings
<1>30. ASSUME NEW d \in {"redis", "node", "gateway"}, CloseNames \/ Close(d) PROVE TypeOK'
  <2>1. CASE CloseNames BY <2>1 DEF CloseNames, parts, settings
  <2>2. CASE Close(d) BY <2>2 DEF Close, parts, settings
  <2> QED BY <1>30, <2>1, <2>2
<1>31. CASE Exit BY <1>31, ZeroTasks DEF Exit, NothingRuns, settings
<1>32. CASE Crash BY <1>32, ZeroTasks DEF Crash, NothingRuns, settings
<1>33. CASE UNCHANGED vars BY <1>33 DEF vars, parts, settings
<1> QED BY <1>1, <1>2, <1>3, <1>4, <1>5, <1>6, <1>7, <1>8, <1>9, <1>10, <1>11, <1>12,
           <1>13, <1>14, <1>15, <1>16, <1>17, <1>18, <1>19, <1>20, <1>21, <1>22, <1>23,
           <1>24, <1>25, <1>26, <1>27, <1>28, <1>29, <1>30, <1>31, <1>32, <1>33
        DEF Next, Start, Work, Stop

----------------------------------------------------------------------------
(* The inductive invariant. *)

(* How far a shutdown that follows a signal has come. *)
PastPrewarmer == phase = "stopChecker" \/ (graceful /\ phase = "unwind")
PastWatcher == phase = "stopPrewarmer" \/ PastPrewarmer
PastStream == phase = "stopWatcher" \/ PastWatcher

(* What is open is opened in order, all of it while the gateway serves,    *)
(* and closed in the reverse order.                                        *)
OpenInOrder ==
    /\ phase \in {"down", "redis"} => open = {}
    /\ phase = "node" => open = {"redis"}
    /\ phase = "gateway" => open = {"redis", "node"}
    /\ phase \notin {"down", "redis", "node", "gateway", "unwind"} =>
           open = {"redis", "node", "gateway"}
    /\ "node" \in open => "redis" \in open
    /\ "gateway" \in open => "node" \in open

(* Requests begin when the server does and may outlive the gateway.  What  *)
(* they start as long as the pool takes it needs the gateway, which waits  *)
(* for it after the pool has closed.                                       *)
NamesNeedGateway ==
    /\ visit => phase \notin {"down"} \cup Stages
    /\ visit /\ ~closing => "gateway" \in open
    /\ "revalidation" \in names => "gateway" \in open

GracefulAfterSignal ==
    /\ phase \in {"draining"} \cup Stops => graceful
    /\ phase \in {"down", "serving"} \cup Stages => ~graceful

(* What each Stop call has ended stays ended. *)
StreamEnds ==
    /\ handler = "submit" => stream
    /\ phase \in {"down", "redis", "node", "gateway", "prewarmer", "stream"} => ~stream
    /\ PastStream => ~stream

WatcherEnds == PastWatcher => watcher = "off" /\ ~callback

PoolEnds ==
    /\ PastPrewarmer => pool # "on" /\ tasks = 0
    /\ pool = "stopped" => PastWatcher

(* The config file that this start and the one before have found is the    *)
(* one that a search would find now.                                       *)
ConfigIsFound ==
    \A c \in {config, prev} : c # NoFile => FindConfigFile(disk) = c

ProcessInv ==
    /\ TypeOK
    /\ OpenInOrder
    /\ NamesNeedGateway
    /\ GracefulAfterSignal
    /\ StreamEnds
    /\ WatcherEnds
    /\ PoolEnds
    /\ EventsAreAccepted
    /\ ConfigIsFound

(* Every step of the process keeps the invariant. *)
LEMMA Inductive == ProcessInv /\ [Next]_vars => ProcessInv'
<1> SUFFICES ASSUME ProcessInv, [Next]_vars PROVE ProcessInv'
  OBVIOUS
<1>0. TypeOK /\ TypeOK'
  BY TypeStep DEF ProcessInv
<1> USE <1>0 DEF ProcessInv, TypeOK, Stages, Stops, OpenInOrder, NamesNeedGateway,
        GracefulAfterSignal, StreamEnds, WatcherEnds, PoolEnds, PastStream, PastWatcher,
        PastPrewarmer, EventsAreAccepted, ConfigIsFound
<1>1. CASE Boot
  BY <1>1, SearchIsStable DEF Boot, parts
<1>2. CASE StartFails BY <1>2 DEF StartFails, parts, settings
<1>3. CASE Open
  <2>1. CASE phase = "redis" BY <1>3, <2>1 DEF Open, After, parts, settings
  <2>2. CASE phase = "node" BY <1>3, <2>2 DEF Open, After, parts, settings
  <2>3. CASE phase = "gateway" BY <1>3, <2>3 DEF Open, After, parts, settings
  <2> QED BY <1>3, <2>1, <2>2, <2>3 DEF Open
<1>4. CASE StartPrewarmer BY <1>4 DEF StartPrewarmer, settings
<1>5. CASE StartStream
  <2>1. phase' \in {"watcher", "checker"}
    BY <1>5 DEF StartStream
  <2>2. CASE phase' = "watcher" BY <1>5, <2>2 DEF StartStream, settings
  <2>3. CASE phase' = "checker" BY <1>5, <2>3 DEF StartStream, settings
  <2> QED BY <2>1, <2>2, <2>3
<1>6. CASE StartWatcher BY <1>6 DEF StartWatcher, settings
<1>7. CASE StartChecker BY <1>7 DEF StartChecker, settings
<1>8. CASE ServerFails BY <1>8 DEF ServerFails, parts, settings
<1>9. CASE TaskEnds BY <1>9 DEF TaskEnds, settings
<1>10. CASE Event BY <1>10 DEF Event, settings
<1>11. CASE HandlerReturns BY <1>11 DEF HandlerReturns, Submit, settings
<1>12. CASE RunStep BY <1>12 DEF RunStep, Submit, settings
<1>13. CASE Poll BY <1>13 DEF Poll, settings
<1>14. CASE Recover BY <1>14 DEF Recover, settings
<1>15. CASE PollDone BY <1>15 DEF PollDone, settings
<1>16. CASE WatcherExits BY <1>16 DEF WatcherExits, settings
<1>17. CASE CallbackReturns BY <1>17 DEF CallbackReturns, Submit, settings
<1>18. CASE VisitBegins BY <1>18 DEF VisitBegins, settings
<1>19. CASE VisitStep BY <1>19 DEF VisitStep, Submit, settings
<1>20. CASE NamesSubmit BY <1>20 DEF NamesSubmit, Submit, settings
<1>21. CASE RevalidationEnds BY <1>21 DEF RevalidationEnds, settings
<1>22. CASE NameWatcherEnds BY <1>22 DEF NameWatcherEnds, settings
<1>23. CASE Signal BY <1>23 DEF Signal, parts, settings
<1>24. CASE Drained BY <1>24 DEF Drained, NextStop, parts, settings
<1>25. CASE StopStream BY <1>25 DEF StopStream, NextStop, settings
<1>26. CASE StopWatcher BY <1>26 DEF StopWatcher, NextStop, parts, settings
<1>27. CASE StopPool BY <1>27 DEF StopPool, settings
<1>28. CASE StopPrewarmer
  <2>1. phase = "stopPrewarmer" /\ phase' = "stopChecker" /\ pool # "on" /\ tasks = 0
    BY <1>28 DEF StopPrewarmer, NextStop
  <2> QED BY <1>28, <2>1 DEF StopPrewarmer, parts, settings
<1>29. CASE StopChecker
  <2>1. phase = "stopChecker" /\ phase' = "unwind"
    BY <1>29 DEF StopChecker, NextStop
  <2> QED BY <1>29, <2>1 DEF StopChecker, settings
<1>30. ASSUME NEW d \in {"redis", "node", "gateway"}, CloseNames \/ Close(d) PROVE ProcessInv'
  <2>1. CASE CloseNames BY <2>1 DEF CloseNames, CanClose, parts, settings
  <2>2. CASE Close(d) BY <2>2 DEF Close, CanClose, ClosedBefore, parts, settings
  <2> QED BY <1>30, <2>1, <2>2
<1>31. CASE Exit BY <1>31 DEF Exit, NothingRuns, settings
<1>32. CASE Crash BY <1>32 DEF Crash, NothingRuns, settings
<1>33. CASE UNCHANGED vars BY <1>33 DEF vars, parts, settings
<1> QED BY <1>1, <1>2, <1>3, <1>4, <1>5, <1>6, <1>7, <1>8, <1>9, <1>10, <1>11, <1>12,
           <1>13, <1>14, <1>15, <1>16, <1>17, <1>18, <1>19, <1>20, <1>21, <1>22, <1>23,
           <1>24, <1>25, <1>26, <1>27, <1>28, <1>29, <1>30, <1>31, <1>32, <1>33
        DEF Next, Start, Work, Stop

(* The invariant holds in every reachable state. *)
LEMMA Invariance == Spec => []ProcessInv
<1>1. Init => ProcessInv
  <2>1. Init => TypeOK
    BY ZeroTasks DEF Init, TypeOK, Stages, Stops
  <2> QED
    BY <2>1 DEF Init, ProcessInv, Stages, Stops, OpenInOrder, NamesNeedGateway,
       GracefulAfterSignal, StreamEnds, WatcherEnds, PoolEnds, PastStream, PastWatcher,
       PastPrewarmer, EventsAreAccepted, ConfigIsFound
<1> QED BY <1>1, Inductive, PTL DEF Spec

----------------------------------------------------------------------------
(* What runGateway guarantees. *)

(* Every variable has its type in every reachable state. *)
THEOREM TypesHold == Spec => []TypeOK
<1>1. ProcessInv => TypeOK
  BY DEF ProcessInv
<1> QED BY <1>1, Invariance, PTL

(* After a signal, runGateway closes the node only when the walks, the     *)
(* event handler, the broken-site watcher with its callbacks and the       *)
(* revalidations have ended, however many walks the pool may hold.         *)
THEOREM QuietWhenClosed == Spec => []QuietBeforeClose
<1>1. ProcessInv => QuietBeforeClose
  <2> SUFFICES ASSUME ProcessInv, graceful, phase = "unwind", "node" \notin open
               PROVE  tasks = 0 /\ handler = "idle" /\ watcher = "off" /\ ~callback
                          /\ "revalidation" \notin names
    BY DEF QuietBeforeClose
  <2>1. PastPrewarmer /\ PastWatcher /\ PastStream
    BY DEF PastPrewarmer, PastWatcher, PastStream
  <2>2. tasks = 0 /\ watcher = "off" /\ ~callback
    BY <2>1 DEF ProcessInv, PoolEnds, WatcherEnds
  <2>3. handler = "idle"
    BY <2>1 DEF ProcessInv, StreamEnds, TypeOK
  <2>4. "revalidation" \notin names
    BY DEF ProcessInv, OpenInOrder, NamesNeedGateway
  <2> QED BY <2>2, <2>3, <2>4
<1> QED BY <1>1, Invariance, PTL

(* The order of the Stop calls lets every walk that the event handler and  *)
(* the recovery callbacks ask for into the pool.                           *)
THEOREM NoEventRefused == Spec => []EventsAreAccepted
<1>1. ProcessInv => EventsAreAccepted
  BY DEF ProcessInv
<1> QED BY <1>1, Invariance, PTL

(* On every exit, the deferred closes keep the node and the Redis client   *)
(* open for the gateway and for its revalidations.                         *)
THEOREM UsersCloseFirst == Spec => []ClosedLast
<1>1. ProcessInv => ClosedLast
  BY DEF ProcessInv, OpenInOrder, NamesNeedGateway, ClosedLast
<1> QED BY <1>1, Invariance, PTL

(* For every list of search paths and every disk, a restart finds the      *)
(* config file that the start before has found or created.                 *)
THEOREM SameConfig == Spec => []ConfigStable
<1>1. ProcessInv => ConfigStable
  BY DEF ProcessInv, ConfigIsFound, ConfigStable
<1> QED BY <1>1, Invariance, PTL

============================================================================

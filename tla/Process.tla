------------------------------ MODULE Process ------------------------------
(***************************************************************************)
(* runGateway (cmd/gateway/main.go): start-up with its early returns,      *)
(* serving, the order of shutdown and the deferred closes, while the parts *)
(* it started are at work: the event handler, the reconcile run, the       *)
(* broken-site watcher, requests, the name system's watchers and           *)
(* revalidations, and the walks of the prewarmer.  What each part's own    *)
(* Stop waits for is in the part's module (StopWait of BrokenWatcher,      *)
(* StopReturn of Prewarmer and Namesys); here they meet.                   *)
(***************************************************************************)
EXTENDS ConfigSearch

CONSTANT MaxTasks   \* bound: walks queued or running in the prewarmer

ASSUME MaxTasksAssumption == MaxTasks \in Nat \ {0}

VARIABLES phase,     \* where runGateway is; "down": there is no process
          graceful,  \* this shutdown follows a signal
          open,      \* what has a deferred Close: redis, node, gateway
          closing,   \* Gateway.Close has closed the pool of the name system
          stream,    \* the event client is on
          handler,   \* the realtime handler: idle, submit
          run,       \* the reconcile run: none, submit, save
          watcher,   \* the broken-site loop: off, waiting, polling
          callback,  \* a recovery callback is running
          visit,     \* a request is being served
          names,     \* the name system: watchers and revalidations that live
          pool,      \* the prewarmer: none, on, stopped
          tasks,     \* its walks
          checker,   \* the health checker is on
          refused,   \* of the handler and the callbacks: whose submission was refused
          disk,      \* the config search paths
          config,    \* the config file of this process
          prev       \* the config file of the one before

parts == <<stream, handler, run, watcher, callback, visit, names, pool, tasks, checker, refused>>
settings == <<disk, config, prev>>
vars == <<phase, graceful, open, closing, parts, settings>>

(* Mutant: the prewarmer is stopped first. *)
NextStopSwapped ==
    [draining |-> "stopPrewarmer", stopPrewarmer |-> "stopStream",
     stopStream |-> "stopWatcher", stopWatcher |-> "stopChecker", stopChecker |-> "unwind"]

(* What runGateway does after the server and after each of its Stop calls. *)
NextStop ==
    [draining |-> "stopStream", stopStream |-> "stopWatcher",
     stopWatcher |-> "stopPrewarmer", stopPrewarmer |-> "stopChecker", stopChecker |-> "unwind"]

(* Mutant: the closes run in the order of their registration. *)
ClosedBeforeForward ==
    [redis |-> {}, node |-> {"redis"}, gateway |-> {"redis", "node"}]

(* The deferred closes run in the reverse order of their registration:     *)
(* what is closed before each of them.                                     *)
ClosedBefore ==
    [redis |-> {"node", "gateway"}, node |-> {"gateway"}, gateway |-> {}]

Stages == {"redis", "node", "gateway", "prewarmer", "stream", "watcher", "checker"}
Stops == {"stopStream", "stopWatcher", "stopPrewarmer", "stopChecker"}

(* Every variable has its type. *)
TypeOK ==
    /\ phase \in {"down", "serving", "draining", "unwind"} \cup Stages \cup Stops
    /\ graceful \in BOOLEAN /\ closing \in BOOLEAN /\ stream \in BOOLEAN /\ callback \in BOOLEAN
    /\ visit \in BOOLEAN /\ pool \in {"none", "on", "stopped"} /\ checker \in BOOLEAN
    /\ open \subseteq {"redis", "node", "gateway"}
    /\ handler \in {"idle", "submit"}
    /\ run \in {"none", "submit", "save"}
    /\ watcher \in {"off", "waiting", "polling"}
    /\ names \subseteq {"watcher", "revalidation"}
    /\ tasks \in 0..MaxTasks
    /\ refused \subseteq {"handler", "callback"}
    /\ disk \in Disks
    /\ {config, prev} \subseteq DOMAIN ConfigPaths \cup {NoFile}

(* Whatever runs ends with the process. *)
NothingRuns ==
    /\ graceful' = FALSE /\ closing' = FALSE
    /\ open' = {} /\ stream' = FALSE /\ handler' = "idle" /\ run' = "none"
    /\ watcher' = "off" /\ callback' = FALSE /\ visit' = FALSE /\ names' = {}
    /\ pool' = "none" /\ tasks' = 0 /\ checker' = FALSE /\ refused' = {}

Init ==
    /\ phase = "down" /\ graceful = FALSE /\ closing = FALSE
    /\ open = {} /\ stream = FALSE /\ handler = "idle" /\ run = "none"
    /\ watcher = "off" /\ callback = FALSE /\ visit = FALSE /\ names = {}
    /\ pool = "none" /\ tasks = 0 /\ checker = FALSE /\ refused = {}
    /\ disk \in Disks /\ config = NoFile /\ prev = NoFile

----------------------------------------------------------------------------
(* Start-up.  NewManager finds or creates the config file, and the process *)
(* ends at once if it cannot.                                              *)
Boot ==
    /\ phase = "down"
    /\ disk' = CreateDefaultConfig(disk)
    /\ config' = FindConfigFile(disk)
    /\ prev' = IF config = NoFile THEN prev ELSE config
    /\ phase' = IF config' = NoFile THEN "down" ELSE "redis"
    /\ UNCHANGED <<graceful, open, closing, parts>>

(* A step that fails returns, which runs the deferred closes so far: the   *)
(* config, logger and API client before Redis; the status cache, the       *)
(* content cache and the node; the gateway; the prewarmer; the event       *)
(* client.                                                                 *)
StartFails ==
    /\ phase \in {"redis", "node", "gateway", "prewarmer", "stream"}
    /\ phase' = "unwind"
    /\ UNCHANGED <<graceful, open, closing, parts, settings>>

After == [redis |-> "node", node |-> "gateway", gateway |-> "prewarmer"]

Open ==
    /\ phase \in {"redis", "node", "gateway"}
    /\ open' = open \cup {phase}
    /\ phase' = After[phase]
    /\ UNCHANGED <<graceful, closing, parts, settings>>

(* The prewarmer, the event client and, with it, the watcher are optional. *)
StartPrewarmer ==
    /\ phase = "prewarmer"
    /\ pool' \in {"none", "on"}
    /\ phase' = "stream"
    /\ UNCHANGED <<graceful, open, closing, stream, handler, run, watcher, callback, visit, names,
                   tasks, checker, refused, settings>>

StartStream ==
    /\ phase = "stream"
    /\ stream' \in BOOLEAN
    /\ phase' = IF stream' THEN "watcher" ELSE "checker"
    /\ UNCHANGED <<graceful, open, closing, handler, run, watcher, callback, visit, names, pool,
                   tasks, checker, refused, settings>>

StartWatcher ==
    /\ phase = "watcher"
    /\ watcher' \in {"off", "waiting"}
    /\ phase' = "checker"
    /\ UNCHANGED <<graceful, open, closing, stream, handler, run, callback, visit, names, pool,
                   tasks, checker, refused, settings>>

StartChecker ==
    /\ phase = "checker"
    /\ checker' = TRUE
    /\ phase' = "serving"
    /\ UNCHANGED <<graceful, open, closing, stream, handler, run, watcher, callback, visit, names,
                   pool, tasks, refused, settings>>

(* The server cannot listen, or stops by itself: runGateway returns its    *)
(* error and stops nothing before the deferred closes.                     *)
ServerFails ==
    /\ phase = "serving"
    /\ phase' = "unwind"
    /\ UNCHANGED <<graceful, open, closing, parts, settings>>

----------------------------------------------------------------------------
(* The parts at work.  A submission is dropped without a prewarmer, is     *)
(* refused by a stopped pool, and may find its root active already.        *)
Submit(who) ==
    \/ /\ pool = "none"
       /\ UNCHANGED <<tasks, refused>>
    \/ /\ pool = "stopped"
       /\ refused' = refused \cup ({who} \cap {"handler", "callback"})
       /\ UNCHANGED tasks
    \/ /\ pool = "on"
       /\ tasks' \in {tasks, tasks + 1} \cap 0..MaxTasks
       /\ UNCHANGED refused

(* A walk ends, by itself or by the timeouts of its fetches. *)
TaskEnds ==
    /\ tasks > 0
    /\ tasks' = tasks - 1
    /\ UNCHANGED <<phase, graceful, open, closing, stream, handler, run, watcher, callback, visit,
                   names, pool, checker, refused, settings>>

(* The stream delivers an event: the handler invalidates, then submits. *)
Event ==
    /\ stream /\ phase # "stopStream" /\ handler = "idle"
    /\ handler' = "submit"
    /\ UNCHANGED <<phase, graceful, open, closing, stream, run, watcher, callback, visit, names,
                   pool, tasks, checker, refused, settings>>

HandlerReturns ==
    /\ handler = "submit"
    /\ handler' = "idle"
    /\ Submit("handler")
    /\ UNCHANGED <<phase, graceful, open, closing, stream, run, watcher, callback, visit, names,
                   pool, checker, settings>>

(* A connection starts a run, which has a context that no signal cancels:  *)
(* it goes on until it has drained the journal or the process ends.        *)
RunStep ==
    /\ \/ /\ run = "none" /\ stream /\ phase # "stopStream"
          /\ run' = "submit"
          /\ UNCHANGED <<tasks, refused>>
       \/ /\ run = "submit"
          /\ run' = "save"
          /\ Submit("run")
       \/ /\ run = "save"
          /\ run' \in {"submit", "none"}
          /\ UNCHANGED <<tasks, refused>>
    /\ UNCHANGED <<phase, graceful, open, closing, stream, handler, watcher, callback, visit, names,
                   pool, checker, settings>>

(* The loop of the watcher polls what it has marked, and starts a callback *)
(* for a website that has recovered; a tick may win over a closed stop     *)
(* channel.                                                                *)
Poll ==
    /\ watcher = "waiting"
    /\ watcher' = "polling"
    /\ UNCHANGED <<phase, graceful, open, closing, stream, handler, run, callback, visit, names,
                   pool, tasks, checker, refused, settings>>

Recover ==
    /\ watcher = "polling" /\ ~callback
    /\ callback' = TRUE
    /\ UNCHANGED <<phase, graceful, open, closing, stream, handler, run, watcher, visit, names,
                   pool, tasks, checker, refused, settings>>

PollDone ==
    /\ watcher = "polling"
    /\ watcher' = "waiting"
    /\ UNCHANGED <<phase, graceful, open, closing, stream, handler, run, callback, visit, names,
                   pool, tasks, checker, refused, settings>>

WatcherExits ==
    /\ phase = "stopWatcher" /\ watcher = "waiting"
    /\ watcher' = "off"
    /\ UNCHANGED <<phase, graceful, open, closing, stream, handler, run, callback, visit, names,
                   pool, tasks, checker, refused, settings>>

CallbackReturns ==
    /\ callback
    /\ callback' = FALSE
    /\ Submit("callback")
    /\ UNCHANGED <<phase, graceful, open, closing, stream, handler, run, watcher, visit, names,
                   pool, checker, settings>>

(* A request, which may submit a walk, start a watcher for its name and    *)
(* start a revalidation, until the name system's pool is closed.  Nothing  *)
(* makes it end: the client may be slow.                                   *)
VisitBegins ==
    /\ phase = "serving" /\ ~visit
    /\ visit' = TRUE
    /\ UNCHANGED <<phase, graceful, open, closing, stream, handler, run, watcher, callback, names,
                   pool, tasks, checker, refused, settings>>

VisitStep ==
    /\ visit
    /\ \/ Submit("visit") /\ UNCHANGED <<visit, names>>
       \/ names' = names \cup {"watcher"} /\ UNCHANGED <<visit, tasks, refused>>
       \/ /\ ~closing
          /\ names' = names \cup {"revalidation"}
          /\ UNCHANGED <<visit, tasks, refused>>
       \/ visit' = FALSE /\ UNCHANGED <<names, tasks, refused>>
    /\ UNCHANGED <<phase, graceful, open, closing, stream, handler, run, watcher, callback, pool,
                   checker, settings>>

(* A watcher or a revalidation has a new record: the prewarm callback. *)
NamesSubmit ==
    /\ names # {}
    /\ Submit("names")
    /\ UNCHANGED <<phase, graceful, open, closing, stream, handler, run, watcher, callback, visit,
                   names, pool, checker, settings>>

(* A revalidation ends by its timeout at the latest, and may have started  *)
(* a watcher.                                                              *)
RevalidationEnds ==
    /\ "revalidation" \in names
    /\ names' \in {names \ {"revalidation"}, {"watcher"}}
    /\ UNCHANGED <<phase, graceful, open, closing, stream, handler, run, watcher, callback, visit,
                   pool, tasks, checker, refused, settings>>

(* A watcher ends with its subscription or its context. *)
NameWatcherEnds ==
    /\ "watcher" \in names
    /\ names' = names \ {"watcher"}
    /\ UNCHANGED <<phase, graceful, open, closing, stream, handler, run, watcher, callback, visit,
                   pool, tasks, checker, refused, settings>>

----------------------------------------------------------------------------
(* Shutdown. *)
Signal ==
    /\ phase = "serving"
    /\ phase' = "draining"
    /\ graceful' = TRUE
    /\ UNCHANGED <<open, closing, parts, settings>>

(* Mutant: the server waits for its requests without a limit. *)
DrainedOnly ==
    /\ phase = "draining" /\ ~visit
    /\ phase' = NextStop[phase]
    /\ UNCHANGED <<graceful, open, closing, parts, settings>>

(* Server.Start returns when its requests have ended or the graceful       *)
(* timeout has passed.                                                     *)
Drained ==
    /\ phase = "draining"
    /\ phase' = NextStop[phase]
    /\ UNCHANGED <<graceful, open, closing, parts, settings>>

(* PortalEventClient.Stop disconnects and waits for the handler. *)
StopStream ==
    /\ phase = "stopStream" /\ handler = "idle"
    /\ stream' = FALSE
    /\ phase' = NextStop[phase]
    /\ UNCHANGED <<graceful, open, closing, handler, run, watcher, callback, visit, names, pool,
                   tasks, checker, refused, settings>>

(* BrokenWatcher.Stop waits for the loop and then for the callbacks. *)
StopWatcher ==
    /\ phase = "stopWatcher" /\ watcher = "off" /\ ~callback
    /\ phase' = NextStop[phase]
    /\ UNCHANGED <<graceful, open, closing, parts, settings>>

(* Prewarmer.Stop: the pool refuses what comes and StopWait waits for what *)
(* it has accepted.                                                        *)
StopPool ==
    /\ phase = "stopPrewarmer" /\ pool = "on"
    /\ pool' = "stopped"
    /\ UNCHANGED <<phase, graceful, open, closing, stream, handler, run, watcher, callback, visit,
                   names, tasks, checker, refused, settings>>

(* Mutant: the pool is stopped and not waited for. *)
StopPrewarmerNoWait ==
    /\ phase = "stopPrewarmer" /\ pool # "on"
    /\ phase' = NextStop[phase]
    /\ UNCHANGED <<graceful, open, closing, parts, settings>>

StopPrewarmer ==
    /\ phase = "stopPrewarmer" /\ pool # "on" /\ tasks = 0
    /\ phase' = NextStop[phase]
    /\ UNCHANGED <<graceful, open, closing, parts, settings>>

StopChecker ==
    /\ phase = "stopChecker"
    /\ checker' = FALSE
    /\ phase' = NextStop[phase]
    /\ UNCHANGED <<graceful, open, closing, stream, handler, run, watcher, callback, visit, names,
                   pool, tasks, refused, settings>>

(* The deferred closes, one after the other.                               *)
CanClose(d) == phase = "unwind" /\ d \in open /\ ClosedBefore[d] \cap open = {}

(* Gateway.Close stops the name system: it cancels the watchers and closes *)
(* the pool, which refuses a revalidation from here on...                  *)
CloseNames ==
    /\ CanClose("gateway") /\ ~closing
    /\ closing' = TRUE
    /\ UNCHANGED <<phase, graceful, open, parts, settings>>

(* ...and waits for the revalidations that the pool has taken.             *)
Close(d) ==
    /\ CanClose(d)
    /\ d = "gateway" => closing /\ "revalidation" \notin names
    /\ open' = open \ {d}
    /\ UNCHANGED <<phase, graceful, closing, parts, settings>>

(* main returns, or os.Exit after an error. *)
Exit ==
    /\ phase = "unwind" /\ open = {}
    /\ phase' = "down"
    /\ NothingRuns
    /\ UNCHANGED settings

(* The process is killed. *)
Crash ==
    /\ phase # "down"
    /\ phase' = "down"
    /\ NothingRuns
    /\ UNCHANGED settings

Start ==
    \/ Boot \/ StartFails \/ Open \/ StartPrewarmer \/ StartStream \/ StartWatcher
    \/ StartChecker \/ ServerFails

Work ==
    \/ TaskEnds \/ Event \/ HandlerReturns \/ RunStep \/ Poll \/ Recover \/ PollDone
    \/ WatcherExits \/ CallbackReturns \/ VisitBegins \/ VisitStep \/ NamesSubmit
    \/ RevalidationEnds \/ NameWatcherEnds

Stop ==
    \/ Drained \/ StopStream \/ StopWatcher \/ StopPool \/ StopPrewarmer \/ StopChecker
    \/ CloseNames
    \/ \E d \in {"redis", "node", "gateway"} : Close(d)
    \/ Exit

Next == Start \/ Work \/ Signal \/ Stop \/ Crash

(* runGateway proceeds; a handler, a callback and a poll return, because   *)
(* what they call has a timeout; a walk ends although others are submitted *)
(* as long as the pool accepts, and the loop's select does not prefer its  *)
(* ticks to a closed channel for ever.  A request need not end, nor the    *)
(* reconcile run.                                                          *)
Fairness ==
    /\ WF_vars(Stop)
    /\ WF_vars(HandlerReturns) /\ WF_vars(CallbackReturns) /\ WF_vars(TaskEnds)
    /\ WF_vars(RevalidationEnds) /\ WF_vars(PollDone) /\ SF_vars(WatcherExits)

Spec == Init /\ [][Next]_vars /\ Fairness

----------------------------------------------------------------------------
(* After a signal, nothing that the Stop calls wait for - walks, the event *)
(* handler, the watcher and its callbacks, the name system's revalidations *)
(* - runs once the node is closed, in whatever order they submit work to   *)
(* one another on the way.                                                 *)
QuietBeforeClose ==
    graceful /\ phase = "unwind" /\ "node" \notin open =>
        tasks = 0 /\ handler = "idle" /\ watcher = "off" /\ ~callback
            /\ "revalidation" \notin names

(* The prewarmer outlives the handler and the watcher: a walk that a       *)
(* published event or a recovered website asks for is never refused, not   *)
(* even during shutdown.                                                   *)
EventsAreAccepted == refused = {}

(* The gateway and the revalidations of its name system end before the     *)
(* node and the Redis client that they use are closed, on every exit,      *)
(* failed start-ups and server errors included, although a request may     *)
(* start a revalidation until the name system refuses it.  Name-system     *)
(* watchers, requests and the reconcile run are not waited for.            *)
ClosedLast ==
    "gateway" \in open \/ "revalidation" \in names => {"node", "redis"} \subseteq open

(* Every start of the gateway that finds a config file finds the one of    *)
(* the start before, which may have created it: the search's own result    *)
(* does not move it.                                                       *)
ConfigStable == config # NoFile /\ prev # NoFile => config = prev

(* A signal ends the process, although requests may hang and the           *)
(* reconciler may go on for ever.                                          *)
SignalExits == phase = "draining" ~> phase = "down"

============================================================================

----------------------------- MODULE Prewarmer -----------------------------
(***************************************************************************)
(* The prewarmer (internal/prewarm/prewarm.go): submissions deduplicated   *)
(* by the active set, the worker pool, the batch walk with its fallback to *)
(* the sequential walk, and the warmed marks, which the eviction callback  *)
(* of the content cache clears (cmd/gateway/main.go).                      *)
(*                                                                         *)
(* The pool's tasks, the callers and the content cache run side by side:   *)
(* every locked section, block fetch and access to the sync.Map is a step. *)
(***************************************************************************)
EXTENDS FiniteSets, Naturals

CONSTANTS
  Cids,         \* blocks
  Roots,        \* the CIDs that are submitted
  Links,        \* Links[c]: the children of a block
  Reach,        \* Reach[c]: the blocks of the DAG below c, c included
  Submitters,   \* bound: concurrent calls of Submit and SubmitPath
  Tasks,        \* bound: tasks queued or running in the pool
  MaxConc,      \* maxConcurrency
  UseResolver,  \* TRUE: a DAG resolver is configured
  None

ASSUME DagAssumption ==
  /\ Roots \subseteq Cids
  /\ Links \in [Cids -> SUBSET Cids] /\ Reach \in [Cids -> SUBSET Cids]
  /\ \A c \in Cids : Reach[c] = {c} \cup UNION {Reach[d] : d \in Links[c]}
ASSUME ConcAssumption == MaxConc \in Nat /\ MaxConc > 0
ASSUME NoneAssumption == None \notin Cids

VARIABLES
  active,     \* Prewarmer.active
  warmed,     \* Prewarmer.warmed
  cached,     \* the blocks in the content cache
  evicting,   \* a block removed whose onEvict call is still to come, or None
  caller,     \* caller[s]: a Submit or SubmitPath
  task,       \* task[t]: a function submitted to the pool
  pool        \* "open", "stopping" or "stopped"

vars == <<active, warmed, cached, evicting, caller, task, pool>>

IdleCaller == [pc |-> "idle", root |-> None, path |-> FALSE]
\* batch: in walkBatch; todo: blocks to fetch; visited: whether one was; owed
\* (history): the blocks the walk answers for, those it was given or can reach, less
\* the ones it gave up on and the ones removed under it.
NoTask == [pc |-> "none", root |-> None, path |-> FALSE, batch |-> FALSE,
           todo |-> {}, visited |-> FALSE, owed |-> {}]

Init ==
  /\ active = {} /\ warmed = {}
  /\ cached = {} /\ evicting = None
  /\ caller = [s \in Submitters |-> IdleCaller]
  /\ task = [t \in Tasks |-> NoTask]
  /\ pool = "open"

-----------------------------------------------------------------------------
(* The content cache.                                                      *)

Removed(c) ==
  /\ cached' = cached \ {c}
  /\ task' = [t \in Tasks |-> [task[t] EXCEPT !.owed = @ \ {c}]]

\* evictLocked removes a file; the callback follows, under the cache's lock.
EvictFile ==
  /\ evicting = None
  /\ \E c \in cached : Removed(c) /\ evicting' = c
  /\ UNCHANGED <<active, warmed, caller, pool>>

\* onEvict is ClearWarmed.
ClearWarmed ==
  /\ evicting # None
  /\ warmed' = warmed \ {evicting}
  /\ evicting' = None
  /\ UNCHANGED <<active, cached, caller, task, pool>>

\* DeleteBlock and Clear remove blocks without the callback.
DeleteBlock ==
  /\ \E c \in cached : Removed(c)
  /\ UNCHANGED <<active, warmed, evicting, caller, pool>>

-----------------------------------------------------------------------------
(* Submit and SubmitPath.                                                  *)

\* Mutant of SubmitLock: a root being walked is accepted again.
SubmitUnchecked(s) ==
  /\ caller[s].pc = "idle"
  /\ \E c \in Roots, p \in BOOLEAN :
       /\ p => c \notin warmed
       /\ active' = active \cup {c}
       /\ caller' = [caller EXCEPT ![s] = [pc |-> "do", root |-> c, path |-> p]]
  /\ UNCHANGED <<warmed, cached, evicting, task, pool>>

\* The locked section: a root that is being walked is skipped, and SubmitPath skips
\* one marked as warmed.
SubmitLock(s) ==
  /\ caller[s].pc = "idle"
  /\ \E c \in Roots, p \in BOOLEAN :
       /\ c \notin active
       /\ p => c \notin warmed
       /\ active' = active \cup {c}
       /\ caller' = [caller EXCEPT ![s] = [pc |-> "do", root |-> c, path |-> p]]
  /\ UNCHANGED <<warmed, cached, evicting, task, pool>>

\* pool.Do takes the task, or refuses it once the pool is stopped.
SubmitDo(s) ==
  /\ caller[s].pc = "do"
  /\ IF pool = "open"
       THEN /\ \E t \in Tasks :
                 /\ task[t].pc = "none"
                 /\ task' = [task EXCEPT ![t] = [NoTask EXCEPT !.pc = "queued",
                               !.root = caller[s].root, !.path = caller[s].path]]
            /\ caller' = [caller EXCEPT ![s] = IdleCaller]
       ELSE /\ caller' = [caller EXCEPT ![s].pc = "drop"]
            /\ UNCHANGED task
  /\ UNCHANGED <<active, warmed, cached, evicting, pool>>

\* Mutant of SubmitDrop: a dropped submission keeps its place.
SubmitDropKeeps(s) ==
  /\ caller[s].pc = "drop"
  /\ caller' = [caller EXCEPT ![s] = IdleCaller]
  /\ UNCHANGED <<active, warmed, cached, evicting, task, pool>>

SubmitDrop(s) ==
  /\ caller[s].pc = "drop"
  /\ active' = active \ {caller[s].root}
  /\ caller' = [caller EXCEPT ![s] = IdleCaller]
  /\ UNCHANGED <<warmed, cached, evicting, task, pool>>

-----------------------------------------------------------------------------
(* A task in the pool.                                                     *)

Busy == {t \in Tasks : task[t].pc \notin {"none", "queued"}}

Start(t) ==
  /\ task[t].pc = "queued"
  /\ Cardinality(Busy) < MaxConc
  /\ task' = [task EXCEPT ![t] = [@ EXCEPT !.pc = IF task[t].path THEN "path" ELSE "prewarm",
                                        !.path = FALSE]]
  /\ UNCHANGED <<active, warmed, cached, evicting, caller, pool>>

\* resolvePathBlocks: the blocks along one path from the root, as far as it gets.
ResolvePath(t) ==
  /\ task[t].pc = "path"
  /\ \E got \in SUBSET Reach[task[t].root] :
       /\ got # {} => task[t].root \in got
       /\ cached' = cached \cup got
  /\ task' = [task EXCEPT ![t].pc = "prewarm"]
  /\ UNCHANGED <<active, warmed, evicting, caller, pool>>

\* walk begins: the frontier of merkledag.Walk is the root.
BeginWalk(t) ==
  task' = [task EXCEPT ![t] = [@ EXCEPT !.pc = "fetch", !.batch = FALSE,
                                        !.todo = {task[t].root}, !.visited = FALSE,
                                        !.owed = Reach[task[t].root]]]

\* Mutant of Wanted: the mark alone makes walkBatch skip a block.
WantedMark(c) == c \notin warmed

\* walkBatch skips a block that is marked and still in the blockstore.
Wanted(c) == ~(c \in warmed /\ c \in cached)

\* The task ends, but for its deferred function.
End(t) == task' = [task EXCEPT ![t] = [NoTask EXCEPT !.pc = "release", !.root = task[t].root]]

\* prewarm: walkBatch if there is a resolver and it answers, walk otherwise.  The
\* list may be partial: the resolver passes on what the backend names, and a CID that
\* does not parse is skipped.  A batch with nothing to fetch visits no block, and the
\* task ends without a mark.
Prewarm(t) ==
  /\ task[t].pc = "prewarm"
  /\ \/ BeginWalk(t)
     \/ /\ UseResolver
        /\ \E nodes \in SUBSET Reach[task[t].root] :
             LET pending == {c \in nodes : Wanted(c)} IN
               IF pending = {} THEN End(t)
               ELSE task' = [task EXCEPT ![t] = [@ EXCEPT !.pc = "fetch", !.batch = TRUE,
                                                          !.todo = pending, !.owed = nodes]]
  /\ UNCHANGED <<active, warmed, cached, evicting, caller, pool>>

\* A block is fetched, into the cache; walk goes on with its children.
FetchOk(t) ==
  /\ task[t].pc = "fetch"
  /\ \E c \in task[t].todo :
       /\ cached' = cached \cup {c}
       /\ task' = [task EXCEPT ![t] = [@ EXCEPT
            !.todo = (task[t].todo \ {c}) \cup (IF task[t].batch THEN {} ELSE Links[c]),
            !.visited = TRUE]]
  /\ UNCHANGED <<active, warmed, evicting, caller, pool>>

\* Every attempt failed: the block, and in walk what is below it, is skipped.
FetchFails(t) ==
  /\ task[t].pc = "fetch"
  /\ \E c \in task[t].todo :
       task' = [task EXCEPT ![t] = [@ EXCEPT
         !.todo = task[t].todo \ {c},
         !.owed = task[t].owed \ (IF task[t].batch THEN {c} ELSE Reach[c])]]
  /\ UNCHANGED <<active, warmed, cached, evicting, caller, pool>>

\* walk's context ends: an error, and no mark.
WalkTimeout(t) ==
  /\ task[t].pc = "fetch" /\ ~task[t].batch
  /\ End(t)
  /\ UNCHANGED <<active, warmed, cached, evicting, caller, pool>>

\* Nothing is left: the root may be marked if a block was visited.  A batch that got
\* none of its blocks falls back to walk; a walk without one ends without a mark.
WalkDone(t) ==
  /\ task[t].pc = "fetch" /\ task[t].todo = {}
  /\ \/ /\ task[t].visited
        /\ task' = [task EXCEPT ![t] = [NoTask EXCEPT !.pc = "mark", !.root = task[t].root,
                                                      !.owed = task[t].owed]]
     \/ /\ ~task[t].visited /\ task[t].batch
        /\ BeginWalk(t)
     \/ /\ ~task[t].visited /\ ~task[t].batch
        /\ End(t)
  /\ UNCHANGED <<active, warmed, cached, evicting, caller, pool>>

\* warmed.Store.
Mark(t) ==
  /\ task[t].pc = "mark"
  /\ warmed' = warmed \cup {task[t].root}
  /\ End(t)
  /\ UNCHANGED <<active, cached, evicting, caller, pool>>

\* The deferred function.
Release(t) ==
  /\ task[t].pc = "release"
  /\ active' = active \ {task[t].root}
  /\ task' = [task EXCEPT ![t] = NoTask]
  /\ UNCHANGED <<warmed, cached, evicting, caller, pool>>

TaskStep(t) ==
  \/ Start(t) \/ ResolvePath(t) \/ Prewarm(t) \/ FetchOk(t) \/ FetchFails(t)
  \/ WalkTimeout(t) \/ WalkDone(t) \/ Mark(t) \/ Release(t)

-----------------------------------------------------------------------------
(* Stop.                                                                   *)

StopBegin ==
  /\ pool = "open"
  /\ pool' = "stopping"
  /\ UNCHANGED <<active, warmed, cached, evicting, caller, task>>

\* pool.StopWait: queued tasks still run, and it returns after the last.
StopReturn ==
  /\ pool = "stopping"
  /\ \A t \in Tasks : task[t].pc = "none"
  /\ pool' = "stopped"
  /\ UNCHANGED <<active, warmed, cached, evicting, caller, task>>

-----------------------------------------------------------------------------
Next ==
  \/ EvictFile \/ ClearWarmed \/ DeleteBlock
  \/ \E s \in Submitters : SubmitLock(s) \/ SubmitDo(s) \/ SubmitDrop(s)
  \/ \E t \in Tasks : TaskStep(t)
  \/ StopBegin \/ StopReturn

\* Goroutines run and every fetch is bounded by the task's timeout.
Fairness ==
  /\ WF_vars(ClearWarmed) /\ WF_vars(StopReturn)
  /\ \A s \in Submitters : WF_vars(SubmitDo(s) \/ SubmitDrop(s))
  /\ \A t \in Tasks : WF_vars(TaskStep(t))

Spec == Init /\ [][Next]_vars /\ Fairness

-----------------------------------------------------------------------------
(* Properties.                                                             *)

\* Who is working on root c: a call that has not handed it over, or a task.
Holders(c) ==
  {s \in Submitters : caller[s].root = c} \cup {t \in Tasks : task[t].root = c}

\* A root is walked by at most one task, and is in the active set exactly while
\* some call or task answers for it: an entry left behind would keep the root from
\* ever being warmed again, an entry removed early would let a second walk start.
OneWalkPerRoot ==
  \A c \in Roots :
    /\ Cardinality(Holders(c)) <= 1
    /\ c \in active <=> Holders(c) # {}

\* When a walk marks its root, every block it answers for is in the cache: in a batch
\* each block it was listed, in the sequential walk each block below the root that is
\* not below one it gave up on, less the blocks whose fetch failed or that were removed
\* under the walk.  A block left out for the mark of an earlier walk must still be
\* there, although marks are cleared behind the cache's back.  It does not say that
\* the DAG is complete: a partial list earns the mark as well.
MarkedWalkCovers ==
  \A t \in Tasks : task[t].pc = "mark" => task[t].owed \subseteq cached

\* Every accepted root is given up again, walked or dropped, Stop or not.
Released == \A c \in Roots : (c \in active) ~> (c \notin active)
=============================================================================

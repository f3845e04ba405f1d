-------------------------- MODULE PrewarmerProofs --------------------------
(***************************************************************************)
(* The safety properties of Prewarmer, for every DAG, every set of roots,  *)
(* and any number of callers, tasks and concurrent walks.                  *)
(***************************************************************************)
EXTENDS Prewarmer, FiniteSetTheorems, TLAPS

TaskPcs == {"none", "queued", "path", "prewarm", "fetch", "mark", "release"}
CallerType == [pc : {"idle", "do", "drop"}, root : Roots \cup {None}, path : BOOLEAN]
TaskType == [pc : TaskPcs, root : Roots \cup {None}, path : BOOLEAN, batch : BOOLEAN,
             todo : SUBSET Cids, visited : BOOLEAN, owed : SUBSET Cids]

\* Every variable has its type.
TypeOK ==
  /\ active \subseteq Roots /\ warmed \subseteq Roots
  /\ cached \subseteq Cids /\ evicting \in Cids \cup {None}
  /\ caller \in [Submitters -> CallerType]
  /\ task \in [Tasks -> TaskType]

\* A call or a task has a root exactly while it is at work.
RootAtWork ==
  /\ \A s \in Submitters : caller[s].pc = "idle" <=> caller[s].root = None
  /\ \A t \in Tasks : task[t].pc = "none" <=> task[t].root = None

\* A root is with one call or with one task, never with both.
OneHolder ==
  /\ \A s1, s2 \in Submitters : caller[s1].root = caller[s2].root /\ caller[s1].root # None => s1 = s2
  /\ \A t1, t2 \in Tasks : task[t1].root = task[t2].root /\ task[t1].root # None => t1 = t2
  /\ \A s \in Submitters, t \in Tasks : caller[s].root = task[t].root => caller[s].root = None

\* The active set holds the roots somebody answers for.
ActiveIsHeld ==
  \A c \in Roots : c \in active <=> \/ \E s \in Submitters : caller[s].root = c
                                    \/ \E t \in Tasks : task[t].root = c

\* What a walk has still to cover: the blocks of its batch, or the DAGs below its
\* frontier.
Ahead(k) == IF k.batch THEN k.todo ELSE UNION {Reach[c] : c \in k.todo}

\* A walk has fetched, or found in the cache, everything it answers for but that.
WalkCovers ==
  \A t \in Tasks : task[t].pc = "fetch" => task[t].owed \subseteq cached \cup Ahead(task[t])

PrewarmerInv ==
  /\ TypeOK
  /\ RootAtWork
  /\ OneHolder
  /\ ActiveIsHeld
  /\ WalkCovers
  /\ MarkedWalkCovers

-----------------------------------------------------------------------------
(* Types.                                                                  *)

LEMMA Records == NoTask \in TaskType /\ IdleCaller \in CallerType
  BY DEF NoTask, TaskType, TaskPcs, IdleCaller, CallerType

\* The record End(t) leaves.
Ended(t) == [NoTask EXCEPT !.pc = "release", !.root = task[t].root]

\* The record BeginWalk(t) leaves.
Begun(t) == [task[t] EXCEPT !.pc = "fetch", !.batch = FALSE,
                            !.todo = {task[t].root}, !.visited = FALSE,
                            !.owed = Reach[task[t].root]]

LEMMA TaskRecords ==
  ASSUME TypeOK, NEW t \in Tasks
  PROVE  /\ task[t] \in TaskType /\ Ended(t) \in TaskType
         /\ Ended(t).pc = "release" /\ Ended(t).root = task[t].root
         /\ task[t].root # None => Begun(t) \in TaskType
         /\ Begun(t).pc = "fetch" /\ Begun(t).root = task[t].root
         /\ Begun(t).todo = {task[t].root} /\ ~Begun(t).batch
         /\ Begun(t).owed = Reach[task[t].root]
         /\ task[t].root # None => task[t].root \in Roots /\ Reach[task[t].root] \subseteq Cids
  BY DagAssumption DEF TypeOK, Ended, Begun, NoTask, TaskType, TaskPcs

\* Task t becomes k and keeps its root.
Becomes(t, k) ==
  /\ k \in TaskType /\ k.root = task[t].root
  /\ task' = [task EXCEPT ![t] = k]
  /\ task[t].pc # "none" /\ k.pc # "none"

\* Task t becomes k, which has covered as much as WalkCovers and MarkedWalkCovers ask.
Moves(t, k) ==
  /\ Becomes(t, k)
  /\ cached \subseteq cached' /\ cached' \subseteq Cids
  /\ k.pc = "fetch" => k.owed \subseteq cached' \cup Ahead(k)
  /\ k.pc = "mark" => k.owed \subseteq cached'
  /\ UNCHANGED <<active, evicting, caller>>

\* A task that moves keeps everything but the type of the marks.
LEMMA TaskMoves ==
  ASSUME PrewarmerInv, NEW t \in Tasks, NEW k, Moves(t, k)
  PROVE  /\ task' \in [Tasks -> TaskType] /\ caller' \in [Submitters -> CallerType]
         /\ RootAtWork' /\ OneHolder' /\ ActiveIsHeld'
         /\ WalkCovers' /\ MarkedWalkCovers'
  <1>1. \A u \in Tasks : task'[u] = IF u = t THEN k ELSE task[u]
    BY DEF PrewarmerInv, TypeOK, Moves, Becomes
  <1>2. \A u \in Tasks : task'[u].root = task[u].root
    BY <1>1 DEF Moves, Becomes
  <1>3. RootAtWork'
    BY <1>1 DEF PrewarmerInv, RootAtWork, Moves, Becomes
  <1>4. OneHolder' /\ ActiveIsHeld'
    BY <1>2 DEF PrewarmerInv, OneHolder, ActiveIsHeld, Moves
  <1>5. WalkCovers'
    <2> SUFFICES ASSUME NEW u \in Tasks, task'[u].pc = "fetch"
                 PROVE  task'[u].owed \subseteq cached' \cup Ahead(task'[u])
      BY DEF WalkCovers
    <2>1. CASE u = t BY <1>1, <2>1 DEF Moves
    <2>2. CASE u # t BY <1>1, <2>2 DEF Moves, PrewarmerInv, WalkCovers
    <2> QED BY <2>1, <2>2
  <1>6. MarkedWalkCovers'
    BY <1>1 DEF PrewarmerInv, MarkedWalkCovers, Moves
  <1>7. task' \in [Tasks -> TaskType] /\ caller' \in [Submitters -> CallerType]
    BY DEF PrewarmerInv, TypeOK, Moves, Becomes
  <1> QED BY <1>3, <1>4, <1>5, <1>6, <1>7

\* A task that moves without touching the marks keeps the invariant.
LEMMA TaskOnly ==
  ASSUME PrewarmerInv, NEW t \in Tasks, NEW k, Moves(t, k), UNCHANGED warmed
  PROVE  PrewarmerInv'
  BY TaskMoves DEF PrewarmerInv, TypeOK, Moves

-----------------------------------------------------------------------------
(* The steps of a task.                                                    *)

LEMMA TaskKeeps ==
  ASSUME PrewarmerInv, NEW t \in Tasks, TaskStep(t)
  PROVE  PrewarmerInv'
  <1>0. TypeOK /\ task[t] \in TaskType
    BY DEF PrewarmerInv, TypeOK
  <1>r. task[t].pc # "none" => task[t].root \in Roots /\ task[t].root # None
    BY <1>0, DagAssumption, NoneAssumption DEF PrewarmerInv, RootAtWork, TaskType
  <1>e. ASSUME task[t].pc # "none", End(t), UNCHANGED <<active, cached, evicting, caller>>
        PROVE  Moves(t, Ended(t))
    BY <1>0, <1>e, TaskRecords DEF End, Ended, Moves, Becomes, TypeOK
  <1>b. ASSUME task[t].pc # "none", BeginWalk(t), UNCHANGED <<active, cached, evicting, caller>>
        PROVE  Moves(t, Begun(t))
    <2>1. Reach[task[t].root] \subseteq Ahead(Begun(t))
      BY <1>0, TaskRecords DEF Ahead
    <2> QED BY <1>0, <1>b, <1>r, <2>1, TaskRecords DEF BeginWalk, Begun, Moves, Becomes, TypeOK
  <1>1. CASE Start(t)
    <2> DEFINE k == [task[t] EXCEPT !.pc = IF task[t].path THEN "path" ELSE "prewarm", !.path = FALSE]
    <2>1. k \in TaskType /\ k.root = task[t].root /\ k.pc \in {"path", "prewarm"}
      BY <1>0 DEF TaskType, TaskPcs
    <2>2. task' = [task EXCEPT ![t] = k]
      BY <1>1 DEF Start
    <2> HIDE DEF k
    <2>3. Moves(t, k)
      BY <1>0, <1>1, <2>1, <2>2 DEF Start, Moves, Becomes, TypeOK
    <2> QED BY <1>1, <2>3, TaskOnly DEF Start
  <1>2. CASE ResolvePath(t)
    <2> DEFINE k == [task[t] EXCEPT !.pc = "prewarm"]
    <2>1. k \in TaskType /\ k.root = task[t].root /\ k.pc = "prewarm"
      BY <1>0 DEF TaskType, TaskPcs
    <2>2. task' = [task EXCEPT ![t] = k]
      BY <1>2 DEF ResolvePath
    <2> HIDE DEF k
    <2>3. cached \subseteq cached' /\ cached' \subseteq Cids
      BY <1>0, <1>2, <1>r, TaskRecords DEF ResolvePath, TypeOK
    <2>4. Moves(t, k)
      BY <1>2, <2>1, <2>2, <2>3 DEF ResolvePath, Moves, Becomes
    <2> QED BY <1>2, <2>4, TaskOnly DEF ResolvePath
  <1>3. CASE Prewarm(t)
    <2>1. CASE BeginWalk(t)
      BY <1>3, <1>b, <2>1, TaskOnly DEF Prewarm
    <2>2. CASE End(t)
      BY <1>3, <1>e, <2>2, TaskOnly DEF Prewarm
    <2>3. CASE ~BeginWalk(t) /\ ~End(t)
      <3>1. PICK nodes \in SUBSET Reach[task[t].root] :
              LET pending == {c \in nodes : Wanted(c)} IN
                IF pending = {} THEN End(t)
                ELSE task' = [task EXCEPT ![t] = [@ EXCEPT !.pc = "fetch", !.batch = TRUE,
                                                           !.todo = pending, !.owed = nodes]]
        BY <1>3, <2>3 DEF Prewarm
      <3> DEFINE pending == {c \in nodes : Wanted(c)}
                 k == [task[t] EXCEPT !.pc = "fetch", !.batch = TRUE, !.todo = pending,
                                  !.owed = nodes]
      <3>2. pending # {} /\ task' = [task EXCEPT ![t] = k]
        BY <2>3, <3>1
      <3>3. nodes \subseteq Cids /\ pending \subseteq Cids
        BY <1>0, <1>3, <1>r, <3>2, TaskRecords DEF Prewarm
      <3>4. nodes \subseteq cached \cup pending
        BY <3>3 DEF Wanted
      <3> HIDE DEF pending
      <3>5. /\ k \in TaskType /\ k.root = task[t].root /\ k.pc = "fetch"
            /\ k.batch /\ k.todo = pending /\ k.owed = nodes
        BY <1>0, <3>3 DEF TaskType, TaskPcs
      <3> HIDE DEF k
      <3>6. Ahead(k) = pending
        BY <3>5 DEF Ahead
      <3>7. Moves(t, k)
        BY <1>0, <1>3, <3>2, <3>4, <3>5, <3>6 DEF Prewarm, Moves, Becomes, TypeOK
      <3> QED BY <1>3, <3>7, TaskOnly DEF Prewarm
    <2> QED BY <2>1, <2>2, <2>3
  <1>4. CASE FetchOk(t)
    <2>1. PICK c \in task[t].todo :
            /\ cached' = cached \cup {c}
            /\ task' = [task EXCEPT ![t] = [@ EXCEPT
                 !.todo = (task[t].todo \ {c}) \cup (IF task[t].batch THEN {} ELSE Links[c]),
                 !.visited = TRUE]]
      BY <1>4 DEF FetchOk
    <2> DEFINE left == (task[t].todo \ {c}) \cup (IF task[t].batch THEN {} ELSE Links[c])
               k == [task[t] EXCEPT !.todo = left, !.visited = TRUE]
    <2>2. task' = [task EXCEPT ![t] = k]
      BY <1>0, <2>1
    <2>3. c \in Cids /\ task[t].todo \subseteq Cids /\ left \subseteq Cids
      BY <1>0, DagAssumption DEF TaskType
    <2>4. CASE task[t].batch
      <3>1. left = task[t].todo \ {c}
        BY <2>4
      <3> HIDE DEF left
      <3>2. /\ k \in TaskType /\ k.root = task[t].root /\ k.pc = task[t].pc
            /\ k.batch /\ k.todo = left /\ k.owed = task[t].owed
        BY <1>0, <2>3, <2>4 DEF TaskType
      <3> HIDE DEF k
      <3>3. cached \cup Ahead(task[t]) \subseteq cached' \cup Ahead(k)
        BY <2>1, <2>4, <3>1, <3>2 DEF Ahead
      <3>4. Moves(t, k)
        BY <1>0, <1>4, <2>1, <2>2, <2>3, <3>2, <3>3
        DEF FetchOk, Moves, Becomes, TypeOK, PrewarmerInv, WalkCovers
      <3> QED BY <1>4, <3>4, TaskOnly DEF FetchOk
    <2>5. CASE ~task[t].batch
      <3>1. left = (task[t].todo \ {c}) \cup Links[c]
        BY <2>5
      <3> HIDE DEF left
      <3>2. /\ k \in TaskType /\ k.root = task[t].root /\ k.pc = task[t].pc
            /\ ~k.batch /\ k.todo = left /\ k.owed = task[t].owed
        BY <1>0, <2>3, <2>5 DEF TaskType
      <3> HIDE DEF k
      <3>3. Reach[c] = {c} \cup UNION {Reach[d] : d \in Links[c]}
        BY <2>3, DagAssumption
      <3>4. ASSUME NEW x \in UNION {Reach[d] : d \in task[t].todo}
            PROVE  x \in cached' \cup UNION {Reach[d] : d \in left}
        <4>1. PICK d \in task[t].todo : x \in Reach[d]
          OBVIOUS
        <4>2. CASE d # c BY <3>1, <4>1, <4>2
        <4>3. CASE d = c
          <5>1. x = c \/ \E e \in Links[c] : x \in Reach[e]
            BY <3>3, <4>1, <4>3
          <5> QED BY <2>1, <3>1, <5>1
        <4> QED BY <4>2, <4>3
      <3>5. cached \cup Ahead(task[t]) \subseteq cached' \cup Ahead(k)
        BY <2>1, <2>5, <3>2, <3>4 DEF Ahead
      <3>6. Moves(t, k)
        BY <1>0, <1>4, <2>1, <2>2, <2>3, <3>2, <3>5
        DEF FetchOk, Moves, Becomes, TypeOK, PrewarmerInv, WalkCovers
      <3> QED BY <1>4, <3>6, TaskOnly DEF FetchOk
    <2> QED BY <2>4, <2>5
  <1>5. CASE FetchFails(t)
    <2>1. PICK c \in task[t].todo :
            task' = [task EXCEPT ![t] = [@ EXCEPT
              !.todo = task[t].todo \ {c},
              !.owed = task[t].owed \ (IF task[t].batch THEN {c} ELSE Reach[c])]]
      BY <1>5 DEF FetchFails
    <2> DEFINE lost == IF task[t].batch THEN {c} ELSE Reach[c]
               k == [task[t] EXCEPT !.todo = task[t].todo \ {c}, !.owed = task[t].owed \ lost]
    <2>2. task' = [task EXCEPT ![t] = k]
      BY <1>0, <2>1
    <2>3. Ahead(task[t]) \subseteq lost \cup Ahead([task[t] EXCEPT !.todo = task[t].todo \ {c}])
      BY <1>0 DEF Ahead, TaskType
    <2> HIDE DEF lost
    <2>4. /\ k \in TaskType /\ k.root = task[t].root /\ k.pc = task[t].pc
          /\ k.batch = task[t].batch /\ k.todo = task[t].todo \ {c} /\ k.owed = task[t].owed \ lost
      BY <1>0 DEF TaskType
    <2> HIDE DEF k
    <2>5. Ahead(task[t]) \subseteq lost \cup Ahead(k)
      BY <1>0, <2>3, <2>4 DEF Ahead, TaskType
    <2>6. task[t].owed \subseteq cached \cup Ahead(task[t])
      BY <1>5 DEF FetchFails, PrewarmerInv, WalkCovers
    <2>7. Moves(t, k)
      BY <1>0, <1>5, <2>2, <2>4, <2>5, <2>6 DEF FetchFails, Moves, Becomes, TypeOK
    <2> QED BY <1>5, <2>7, TaskOnly DEF FetchFails
  <1>6. CASE WalkTimeout(t)
    BY <1>6, <1>e, TaskOnly DEF WalkTimeout
  <1>7. CASE WalkDone(t)
    <2>1. CASE BeginWalk(t)
      BY <1>7, <1>b, <2>1, TaskOnly DEF WalkDone
    <2>2. CASE End(t)
      BY <1>7, <1>e, <2>2, TaskOnly DEF WalkDone
    <2>3. CASE ~BeginWalk(t) /\ ~End(t)
      <3> DEFINE k == [NoTask EXCEPT !.pc = "mark", !.root = task[t].root, !.owed = task[t].owed]
      <3>1. task' = [task EXCEPT ![t] = k]
        BY <1>7, <2>3 DEF WalkDone
      <3>2. k \in TaskType /\ k.root = task[t].root /\ k.pc = "mark" /\ k.owed = task[t].owed
        BY <1>0 DEF TaskType, TaskPcs, NoTask
      <3> HIDE DEF k
      <3>3. Ahead(task[t]) = {}
        BY <1>7 DEF WalkDone, Ahead
      <3>4. Moves(t, k)
        BY <1>0, <1>7, <3>1, <3>2, <3>3
        DEF WalkDone, Moves, Becomes, TypeOK, PrewarmerInv, WalkCovers
      <3> QED BY <1>7, <3>4, TaskOnly DEF WalkDone
    <2> QED BY <2>1, <2>2, <2>3
  <1>8. CASE Mark(t)
    <2>1. Moves(t, Ended(t))
      BY <1>8, <1>e DEF Mark
    <2>2. warmed' \subseteq Roots
      BY <1>0, <1>8, <1>r DEF Mark, TypeOK
    <2> QED BY <1>8, <2>1, <2>2, TaskMoves DEF Mark, PrewarmerInv, TypeOK, Moves
  <1>9. CASE Release(t)
    <2>1. \A u \in Tasks : task'[u] = IF u = t THEN NoTask ELSE task[u]
      BY <1>0, <1>9 DEF Release, TypeOK
    <2>2. NoTask.pc = "none" /\ NoTask.root = None
      BY DEF NoTask
    <2>3. TypeOK'
      BY <1>0, <1>9, Records DEF Release, TypeOK
    <2>4. RootAtWork'
      BY <1>9, <2>1, <2>2 DEF Release, PrewarmerInv, RootAtWork
    <2>5. OneHolder'
      BY <1>9, <2>1, <2>2 DEF Release, PrewarmerInv, OneHolder
    <2>6. ActiveIsHeld'
      BY <1>9, <1>r, <2>1, <2>2, DagAssumption, NoneAssumption
      DEF Release, PrewarmerInv, OneHolder, ActiveIsHeld
    <2>7. WalkCovers' /\ MarkedWalkCovers'
      BY <1>9, <2>1, <2>2 DEF Release, PrewarmerInv, WalkCovers, MarkedWalkCovers
    <2> QED BY <2>3, <2>4, <2>5, <2>6, <2>7 DEF PrewarmerInv
  <1> QED BY <1>1, <1>2, <1>3, <1>4, <1>5, <1>6, <1>7, <1>8, <1>9 DEF TaskStep

-----------------------------------------------------------------------------
(* The cache, the callers and Stop.                                        *)

\* A block that is removed takes the walks under way with it.
LEMMA RemovedKeeps ==
  ASSUME PrewarmerInv, NEW c \in cached, Removed(c), UNCHANGED <<active, caller>>
  PROVE  /\ task' \in [Tasks -> TaskType] /\ cached' \subseteq Cids
         /\ RootAtWork' /\ OneHolder' /\ ActiveIsHeld'
         /\ WalkCovers' /\ MarkedWalkCovers'
  <1>1. \A t \in Tasks : [task[t] EXCEPT !.owed = task[t].owed \ {c}] \in TaskType
    BY DEF PrewarmerInv, TypeOK, TaskType
  <1>2. task' \in [Tasks -> TaskType] /\ cached' \subseteq Cids
    BY <1>1 DEF PrewarmerInv, TypeOK, Removed
  <1>3. \A t \in Tasks : /\ task'[t].pc = task[t].pc /\ task'[t].root = task[t].root
                         /\ task'[t].owed = task[t].owed \ {c}
                         /\ task'[t].batch = task[t].batch /\ task'[t].todo = task[t].todo
    BY DEF PrewarmerInv, TypeOK, TaskType, Removed
  <1>4. WalkCovers' /\ MarkedWalkCovers'
    <2>1. \A t \in Tasks : Ahead(task'[t]) = Ahead(task[t])
      BY <1>3 DEF Ahead
    <2> QED BY <1>3, <2>1 DEF PrewarmerInv, WalkCovers, MarkedWalkCovers, Removed
  <1> QED BY <1>2, <1>3, <1>4 DEF PrewarmerInv, RootAtWork, OneHolder, ActiveIsHeld

\* A call's step keeps the invariant.
LEMMA CallerKeeps ==
  ASSUME PrewarmerInv, NEW s \in Submitters, SubmitLock(s) \/ SubmitDo(s) \/ SubmitDrop(s)
  PROVE  PrewarmerInv'
  <1>0. TypeOK /\ caller[s] \in CallerType
    BY DEF PrewarmerInv, TypeOK
  <1>r. caller[s].pc # "idle" => caller[s].root \in Roots /\ caller[s].root # None
    BY <1>0 DEF PrewarmerInv, RootAtWork, CallerType
  <1>n. None \notin Roots
    BY DagAssumption, NoneAssumption
  <1>i. IdleCaller.pc = "idle" /\ IdleCaller.root = None
    BY DEF IdleCaller
  <1>1. CASE SubmitLock(s)
    <2>1. PICK c \in Roots, p \in BOOLEAN :
            /\ c \notin active
            /\ active' = active \cup {c}
            /\ caller' = [caller EXCEPT ![s] = [pc |-> "do", root |-> c, path |-> p]]
      BY <1>1 DEF SubmitLock
    <2>2. [pc |-> "do", root |-> c, path |-> p] \in CallerType
      BY DEF CallerType
    <2>3. TypeOK'
      BY <1>0, <1>1, <2>1, <2>2 DEF SubmitLock, TypeOK
    <2>4. \A r \in Submitters :
            /\ r # s => caller'[r] = caller[r]
            /\ r = s => caller'[r].root = c /\ caller'[r].pc = "do"
      BY <1>0, <2>1 DEF TypeOK
    <2>5. UNCHANGED <<warmed, cached, evicting, task>>
      BY <1>1 DEF SubmitLock
    <2>6. RootAtWork'
      BY <1>n, <2>4, <2>5 DEF PrewarmerInv, RootAtWork
    <2>7. /\ \A r \in Submitters : caller[r].root # c
          /\ \A t \in Tasks : task[t].root # c
      BY <2>1 DEF PrewarmerInv, ActiveIsHeld
    <2>8. OneHolder'
      BY <1>n, <2>4, <2>5, <2>7 DEF PrewarmerInv, OneHolder
    <2>9. ActiveIsHeld'
      <3>1. caller[s].root = None
        BY <1>1 DEF SubmitLock, PrewarmerInv, RootAtWork
      <3> QED BY <1>n, <2>1, <2>4, <2>5, <3>1 DEF PrewarmerInv, ActiveIsHeld
    <2>10. WalkCovers' /\ MarkedWalkCovers'
      BY <2>5 DEF PrewarmerInv, WalkCovers, MarkedWalkCovers
    <2> QED BY <2>3, <2>6, <2>8, <2>9, <2>10 DEF PrewarmerInv
  <1>2. CASE SubmitDo(s) /\ pool = "open"
    <2> DEFINE k == [NoTask EXCEPT !.pc = "queued", !.root = caller[s].root, !.path = caller[s].path]
    <2>1. PICK t \in Tasks : /\ task[t].pc = "none"
                             /\ task' = [task EXCEPT ![t] = k]
      BY <1>2 DEF SubmitDo
    <2>2. k \in TaskType /\ k.pc = "queued" /\ k.root = caller[s].root
      BY <1>0 DEF TaskType, TaskPcs, NoTask, CallerType
    <2> HIDE DEF k
    <2>3. /\ caller' = [caller EXCEPT ![s] = IdleCaller] /\ caller[s].pc = "do"
          /\ UNCHANGED <<active, warmed, cached, evicting>>
      BY <1>2 DEF SubmitDo
    <2>4. TypeOK'
      BY <1>0, <2>1, <2>2, <2>3, Records DEF TypeOK
    <2>5. /\ \A r \in Submitters : caller'[r] = IF r = s THEN IdleCaller ELSE caller[r]
          /\ \A u \in Tasks : task'[u] = IF u = t THEN k ELSE task[u]
      BY <1>0, <2>1, <2>3 DEF TypeOK
    <2>6. RootAtWork'
      BY <1>i, <1>r, <2>2, <2>3, <2>5 DEF PrewarmerInv, RootAtWork
    <2>7. OneHolder'
      BY <1>i, <1>r, <2>2, <2>3, <2>5 DEF PrewarmerInv, OneHolder
    <2>8. ActiveIsHeld'
      <3>1. task[t].root = None
        BY <2>1 DEF PrewarmerInv, RootAtWork
      <3>2. ASSUME NEW c \in Roots
            PROVE  (\/ \E r \in Submitters : caller'[r].root = c
                    \/ \E u \in Tasks : task'[u].root = c) <=> c \in active
        <4>1. CASE c = caller[s].root BY <2>2, <2>5, <4>1 DEF PrewarmerInv, ActiveIsHeld
        <4>2. CASE c # caller[s].root
          BY <1>i, <1>n, <2>2, <2>5, <3>1, <4>2 DEF PrewarmerInv, ActiveIsHeld
        <4> QED BY <4>1, <4>2
      <3> QED BY <2>3, <3>2 DEF ActiveIsHeld
    <2>9. WalkCovers' /\ MarkedWalkCovers'
      BY <2>2, <2>3, <2>5 DEF PrewarmerInv, WalkCovers, MarkedWalkCovers
    <2> QED BY <2>4, <2>6, <2>7, <2>8, <2>9 DEF PrewarmerInv
  <1>3. CASE SubmitDo(s) /\ pool # "open"
    <2>1. /\ caller' = [caller EXCEPT ![s].pc = "drop"] /\ caller[s].pc = "do"
          /\ UNCHANGED <<active, warmed, cached, evicting, task>>
      BY <1>3 DEF SubmitDo
    <2>2. [caller[s] EXCEPT !.pc = "drop"] \in CallerType
      BY <1>0 DEF CallerType
    <2>3. TypeOK'
      BY <1>0, <2>1, <2>2 DEF TypeOK
    <2>4. \A r \in Submitters : /\ caller'[r].root = caller[r].root
                               /\ caller'[r].pc = "idle" <=> caller[r].pc = "idle"
      BY <1>0, <2>1 DEF TypeOK, CallerType
    <2> QED BY <2>1, <2>3, <2>4
            DEF PrewarmerInv, RootAtWork, OneHolder, ActiveIsHeld, WalkCovers, MarkedWalkCovers
  <1>4. CASE SubmitDrop(s)
    <2>1. TypeOK'
      BY <1>0, <1>4, Records DEF SubmitDrop, TypeOK
    <2>2. \A r \in Submitters : caller'[r] = IF r = s THEN IdleCaller ELSE caller[r]
      BY <1>0, <1>4 DEF SubmitDrop, TypeOK
    <2>3. RootAtWork'
      BY <1>4, <1>i, <2>2 DEF SubmitDrop, PrewarmerInv, RootAtWork
    <2>4. OneHolder'
      BY <1>4, <1>i, <2>2 DEF SubmitDrop, PrewarmerInv, OneHolder
    <2>5. ActiveIsHeld'
      BY <1>4, <1>i, <1>n, <1>r, <2>2 DEF SubmitDrop, PrewarmerInv, OneHolder, ActiveIsHeld
    <2>6. WalkCovers' /\ MarkedWalkCovers'
      BY <1>4 DEF SubmitDrop, PrewarmerInv, WalkCovers, MarkedWalkCovers
    <2> QED BY <2>1, <2>3, <2>4, <2>5, <2>6 DEF PrewarmerInv
  <1> QED BY <1>1, <1>2, <1>3, <1>4

-----------------------------------------------------------------------------
(* The invariant.                                                          *)

\* Every step keeps the invariant.
LEMMA Inductive == PrewarmerInv /\ [Next]_vars => PrewarmerInv'
  <1> SUFFICES ASSUME PrewarmerInv, [Next]_vars PROVE PrewarmerInv'
    OBVIOUS
  <1>1. CASE EvictFile
    <2>1. PICK c \in cached : Removed(c) /\ evicting' = c
      BY <1>1 DEF EvictFile
    <2>2. UNCHANGED <<active, warmed, caller>>
      BY <1>1 DEF EvictFile
    <2>3. c \in Cids
      BY DEF PrewarmerInv, TypeOK
    <2> QED BY <2>1, <2>2, <2>3, RemovedKeeps DEF PrewarmerInv, TypeOK
  <1>2. CASE ClearWarmed
    BY <1>2 DEF ClearWarmed, PrewarmerInv, TypeOK, RootAtWork, OneHolder, ActiveIsHeld,
                WalkCovers, MarkedWalkCovers
  <1>3. CASE DeleteBlock
    <2>1. PICK c \in cached : Removed(c)
      BY <1>3 DEF DeleteBlock
    <2>2. UNCHANGED <<active, warmed, evicting, caller>>
      BY <1>3 DEF DeleteBlock
    <2> QED BY <2>1, <2>2, RemovedKeeps DEF PrewarmerInv, TypeOK
  <1>4. ASSUME NEW s \in Submitters, SubmitLock(s) \/ SubmitDo(s) \/ SubmitDrop(s)
        PROVE  PrewarmerInv'
    BY <1>4, CallerKeeps
  <1>5. ASSUME NEW t \in Tasks, TaskStep(t)
        PROVE  PrewarmerInv'
    BY <1>5, TaskKeeps
  <1>6. CASE StopBegin \/ StopReturn \/ UNCHANGED vars
    BY <1>6 DEF StopBegin, StopReturn, vars, PrewarmerInv, TypeOK, RootAtWork, OneHolder,
                ActiveIsHeld, WalkCovers, MarkedWalkCovers
  <1> QED BY <1>1, <1>2, <1>3, <1>4, <1>5, <1>6 DEF Next

LEMMA Initially == Init => PrewarmerInv
  <1> SUFFICES ASSUME Init PROVE PrewarmerInv
    OBVIOUS
  <1>1. TypeOK
    BY Records DEF Init, TypeOK
  <1>2. /\ \A s \in Submitters : caller[s].pc = "idle" /\ caller[s].root = None
        /\ \A t \in Tasks : task[t].pc = "none" /\ task[t].root = None
    BY DEF Init, IdleCaller, NoTask
  <1>3. ActiveIsHeld
    BY <1>2, DagAssumption, NoneAssumption DEF Init, ActiveIsHeld
  <1> QED BY <1>1, <1>2, <1>3
          DEF Init, PrewarmerInv, RootAtWork, OneHolder, WalkCovers, MarkedWalkCovers

LEMMA Invariance == Spec => []PrewarmerInv
  BY Initially, Inductive, PTL DEF Spec

-----------------------------------------------------------------------------
(* Theorems.                                                               *)

\* However many calls and tasks there are, a root is walked by at most one of them,
\* and it is in the active set exactly while one of them answers for it: Submit's
\* check and the deferred release are enough, whether the pool takes the task or not.
THEOREM RootsAreWalkedOnce == Spec => []OneWalkPerRoot
  <1>1. ASSUME PrewarmerInv PROVE OneWalkPerRoot
    <2> SUFFICES ASSUME NEW c \in Roots
                 PROVE  Cardinality(Holders(c)) <= 1 /\ (c \in active <=> Holders(c) # {})
      BY DEF OneWalkPerRoot
    <2>1. c \in active <=> Holders(c) # {}
      BY <1>1 DEF PrewarmerInv, ActiveIsHeld, Holders
    <2>2. ASSUME NEW x \in Holders(c), NEW y \in Holders(c)
          PROVE  x = y
      BY <1>1, <2>2, DagAssumption, NoneAssumption DEF PrewarmerInv, OneHolder, Holders
    <2>3. CASE Holders(c) = {}
      BY <2>1, <2>3, FS_EmptySet
    <2>4. CASE Holders(c) # {}
      <3>1. PICK x : x \in Holders(c)
        BY <2>4
      <3>2. Holders(c) = {x}
        BY <2>2, <3>1
      <3>3. Cardinality({x}) = 1
        BY FS_Singleton
      <3> QED BY <2>1, <3>2, <3>3
    <2> QED BY <2>3, <2>4
  <1> QED BY <1>1, Invariance, PTL

\* For every DAG and every list the resolver may give of it, a walk that marks its
\* root has in the cache every block it answers for: those it was listed, or can reach
\* without passing one it gave up on, less the ones that failed or were removed under
\* it.  The blocks that walkBatch leaves out for an earlier mark are among them.
THEOREM MarkedWalksCover == Spec => []MarkedWalkCovers
  BY Invariance, PTL DEF PrewarmerInv
=============================================================================

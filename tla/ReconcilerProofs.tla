-------------------------- MODULE ReconcilerProofs --------------------------
(***************************************************************************)
(* Proofs about Reconciler, for every journal bound, number of sessions,   *)
(* page cap, cursor store and set of kinds: its safety properties, and     *)
(* that it implements Replay.                                              *)
(***************************************************************************)
EXTENDS Reconciler, TLAPS

\* A page the portal answers with: a mark inside the journal; not truncated only
\* at its end; advancing when truncated, unless the portal may stall.
LEMMA PagesFacts ==
  ASSUME journal \in Seq(Kinds), NEW a \in Nat, a <= Len(journal),
         NEW p \in Pages(a)
  PROVE  /\ p.next \in Nat /\ p.truncated \in BOOLEAN
         /\ p.next <= Len(journal)
         /\ ~p.truncated => p.next = Len(journal)
         /\ ~PortalMayStall /\ p.truncated => p.next > a
  <1>1. \/ \E n \in Nat : /\ p = [next |-> n, truncated |-> n < Len(journal)]
                           /\ n \in (a + 1)..Len(journal)
        \/ p = [next |-> Len(journal), truncated |-> FALSE]
        \/ /\ PortalMayStall
           /\ \E n \in 0..a : p = [next |-> n, truncated |-> TRUE]
    BY DEF Pages
  <1>2. Len(journal) \in Nat
    OBVIOUS
  <1>3. CASE \E n \in Nat : /\ p = [next |-> n, truncated |-> n < Len(journal)]
                            /\ n \in (a + 1)..Len(journal)
    <2>1. PICK n \in Nat : /\ p = [next |-> n, truncated |-> n < Len(journal)]
                           /\ n \in (a + 1)..Len(journal)
      BY <1>3
    <2>2. p.truncated = (n < Len(journal)) /\ p.next = n
      BY <2>1
    <2>3. CASE n < Len(journal)
      <3>1. p.truncated = TRUE
        BY <2>2, <2>3
      <3> QED
        BY <1>2, <2>1, <2>2, <2>3, <3>1
    <2>4. CASE n = Len(journal)
      BY <1>2, <2>1, <2>2, <2>4
    <2> QED
      BY <1>2, <2>1, <2>3, <2>4
  <1>4. CASE p = [next |-> Len(journal), truncated |-> FALSE]
    BY <1>2, <1>4
  <1>5. CASE /\ PortalMayStall
             /\ \E n \in 0..a : p = [next |-> n, truncated |-> TRUE]
    BY <1>2, <1>5
  <1> QED
    BY <1>1, <1>3, <1>4, <1>5

\* The new run and the absent run have the type of a run.
LEMMA NewRunType == NoRun \in RunType /\ NewRun \in RunType
  <1>1. NoRun \in RunType
    BY BoundsAssumption DEF NoRun, RunType, PCs
  <1>2. NewRun \in RunType
    BY <1>1 DEF NewRun, RunType, PCs
  <1> QED
    BY <1>1, <1>2

\* The fields of a new run and of an absent one that the invariant speaks of.
LEMMA NewRunFields ==
  /\ NoRun.pc = "none" /\ NoRun.page = 1
  /\ NewRun.pc = "start" /\ NewRun.page = 1 /\ NewRun.after = 0
  BY DEF NoRun, NewRun

\* The initial state satisfies the inductive invariant.
LEMMA InitInv == Init => IndInv
  <1> SUFFICES ASSUME Init PROVE IndInv
    OBVIOUS
  <1>1. TypeOK
    <2>1. run \in [Generations -> RunType]
      BY NewRunType DEF Init
    <2>2. \A g \in Generations : run[g].pc = "apply" => run[g].page <= MaxReconcilePages
      BY NewRunFields DEF Init
    <2>3. journal \in Seq(Kinds) /\ generation \in 0..MaxGeneration
      BY BoundsAssumption DEF Init
    <2> QED
      BY <2>1, <2>2, <2>3 DEF Init, TypeOK
  <1>2. Live = {}
    BY DEF Init, Live, NoRun
  <1>3. CaughtUpTo(0)
    BY DEF Init, CaughtUpTo
  <1> QED
    BY <1>1, <1>2, <1>3 DEF Init, IndInv, OneRunAtATime, CursorBehindEffects,
       NoSessionForgotten, ReadyMeansCaughtUp, RunKnows, NoRun

\* Every step preserves the types (the page bound included).  The invariant is
\* needed for the changes a run applies to be changes of the journal.
LEMMA TypeStep == IndInv /\ [Next]_vars => TypeOK'
  <1> SUFFICES ASSUME IndInv, [Next]_vars PROVE TypeOK'
    OBVIOUS
  <1> USE BoundsAssumption
  <1>t. TypeOK
    BY DEF IndInv
  <1>1. CASE PortalChange
    BY <1>1, <1>t DEF PortalChange, TypeOK, flags, effects, history
  <1>2. CASE RealtimeEvent
    BY <1>2, <1>t DEF RealtimeEvent, Apply, TypeOK, flags, history
  <1>3. CASE Disconnect
    BY <1>3, <1>t DEF Disconnect, TypeOK, effects, history
  <1>4. CASE RepeatConnect
    BY <1>4, <1>t DEF RepeatConnect, TypeOK, vars, flags, effects, history
  <1>5. CASE Connect
    <2>1. generation' \in 0..MaxGeneration /\ generation + 1 \in Generations
      BY <1>5, <1>t DEF Connect, TypeOK, Generations
    <2>2. run' \in [Generations -> RunType]
      BY <1>5, <1>t, <2>1, NewRunType DEF Connect, TypeOK
    <2>4. /\ connected' \in BOOLEAN /\ ready' \in BOOLEAN
          /\ running' \in BOOLEAN /\ pending' \in BOOLEAN
      BY <1>5, <1>t DEF Connect, TypeOK
    <2>5. mark' \in Nat
      BY <1>5, <1>t DEF Connect, TypeOK
    <2>3. \A g \in Generations : run'[g].pc = "apply" => run'[g].page <= MaxReconcilePages
      BY <1>5, <1>t, <2>1, NewRunFields DEF Connect, TypeOK
    <2> QED
      BY <1>5, <1>t, <2>1, <2>2, <2>3, <2>4, <2>5 DEF Connect, TypeOK, effects
  <1>6. ASSUME NEW g \in Generations, RunStep(g) PROVE TypeOK'
    <2>0. run[g] \in RunType
      BY <1>t DEF TypeOK
    <2>1. CASE LoadCursor(g)
      <3>1. PICK a \in Nat : run' = [run EXCEPT ![g].pc = "page", ![g].after = a]
        BY <2>1, <1>t DEF LoadCursor, CursorGet, TypeOK
      <3>2. run' \in [Generations -> RunType]
        BY <1>t, <3>1 DEF TypeOK, RunType, PCs
      <3>3. \A h \in Generations : run'[h].pc = "apply" => run'[h].page <= MaxReconcilePages
        BY <1>t, <3>1 DEF TypeOK, RunType, PCs
      <3> QED
        BY <2>1, <1>t, <3>2, <3>3 DEF LoadCursor, CursorGet, TypeOK, flags, effects, history
    <2>2. CASE FetchPage(g)
      <3>1. CaughtUpTo(run[g].after)
        BY <2>2 DEF FetchPage, IndInv, RunKnows
      <3>2. PICK p \in Pages(run[g].after) :
              run' = [run EXCEPT ![g].pc = "apply", ![g].next = p.next,
                          ![g].truncated = p.truncated, ![g].applied = run[g].after]
        BY <2>2 DEF FetchPage
      <3>3. p.next \in Nat /\ p.truncated \in BOOLEAN
        BY <3>1, <2>0, <1>t, PagesFacts DEF CaughtUpTo, TypeOK, RunType
      <3> QED
        BY <2>2, <2>0, <1>t, <3>2, <3>3
        DEF FetchPage, TypeOK, RunType, PCs, flags, effects, history
    <2>3. CASE FetchFails(g)
      BY <2>3, <2>0, <1>t DEF FetchFails, TypeOK, RunType, PCs, flags, effects, history
    <2>4. CASE ApplyEvent(g)
      <3>1. run[g].applied + 1 \in Nat
        BY <2>0 DEF RunType
      <3>2. run' = [run EXCEPT ![g].applied = run[g].applied + 1]
        BY <2>4 DEF ApplyEvent
      <3>3. run' \in [Generations -> RunType]
        BY <1>t, <3>1, <3>2 DEF TypeOK, RunType
      <3>4. \A h \in Generations : run'[h].pc = "apply" => run'[h].page <= MaxReconcilePages
        BY <1>t, <3>2 DEF TypeOK, RunType
      <3>5. invalidated' \subseteq Nat /\ submitted' \subseteq Nat
        BY <2>4, <1>t, <3>1 DEF ApplyEvent, Apply, TypeOK
      <3> QED
        BY <2>4, <1>t, <3>3, <3>4, <3>5 DEF ApplyEvent, TypeOK, flags, history
    <2>5. CASE SaveCursor(g)
      <3>1. /\ run[g].next \in Nat /\ cursor' \in Nat
            /\ run[g].page + 1 \in 1..(MaxReconcilePages + 1)
        BY <2>5, <2>0, <1>t DEF SaveCursor, CursorSet, TypeOK, RunType
      <3>2. CASE LastPage(run[g])
        <4>1. run' = [run EXCEPT ![g].pc = "ok", ![g].after = run[g].next]
          BY <2>5, <3>2 DEF SaveCursor, CursorSet
        <4>2. run' \in [Generations -> RunType]
          BY <1>t, <3>1, <4>1 DEF TypeOK, RunType, PCs
        <4>3. \A h \in Generations : run'[h].pc = "apply" => run'[h].page <= MaxReconcilePages
          BY <1>t, <4>1 DEF TypeOK, RunType
        <4> QED
          BY <2>5, <1>t, <3>1, <4>2, <4>3 DEF SaveCursor, CursorSet, TypeOK, flags, effects, history
      <3>3. CASE ~LastPage(run[g])
        <4>1. run' = [run EXCEPT ![g].pc = "page", ![g].after = run[g].next,
                                 ![g].page = run[g].page + 1]
          BY <2>5, <3>3 DEF SaveCursor, CursorSet
        <4>2. run' \in [Generations -> RunType]
          BY <1>t, <3>1, <4>1 DEF TypeOK, RunType, PCs
        <4>3. \A h \in Generations : run'[h].pc = "apply" => run'[h].page <= MaxReconcilePages
          BY <1>t, <4>1 DEF TypeOK, RunType
        <4> QED
          BY <2>5, <1>t, <3>1, <4>2, <4>3 DEF SaveCursor, CursorSet, TypeOK, flags, effects, history
      <3> QED
        BY <3>2, <3>3
    <2>6. CASE Finish(g)
      <3>1. pending => generation \in Generations
        BY <1>t DEF IndInv, OneRunAtATime, Live, RunKnows, TypeOK, Generations
      <3>2. run' \in [Generations -> RunType]
        BY <2>6, <1>t, NewRunType DEF Finish, TypeOK
      <3>3. \A h \in Generations : run'[h].pc = "apply" => run'[h].page <= MaxReconcilePages
        BY <2>6, <1>t, <3>1, NewRunFields DEF Finish, TypeOK
      <3> QED
        BY <2>6, <1>t, <3>2, <3>3 DEF Finish, TypeOK, effects
    <2> QED
      BY <1>6, <2>1, <2>2, <2>3, <2>4, <2>5, <2>6 DEF RunStep
  <1>7. CASE Restart
    <2>1. run' \in [Generations -> RunType]
      BY <1>7, NewRunType DEF Restart
    <2>2. \A g \in Generations : run'[g].pc = "apply" => run'[g].page <= MaxReconcilePages
      BY <1>7, NewRunFields DEF Restart
    <2>3. cursor' \in Nat /\ generation' \in 0..MaxGeneration
      BY <1>7, <1>t DEF Restart, TypeOK
    <2> QED
      BY <1>7, <1>t, <2>1, <2>2, <2>3 DEF Restart, TypeOK, effects
  <1>8. CASE UNCHANGED vars
    BY <1>8, <1>t DEF TypeOK, vars, flags, effects, history
  <1> QED
    BY <1>1, <1>2, <1>3, <1>4, <1>5, <1>6, <1>7, <1>8 DEF Next

-----------------------------------------------------------------------------
(* Nothing that has been replayed is ever un-replayed.                     *)

\* Every step extends the journal and the effects.
LEMMA Grows ==
  ASSUME TypeOK, [Next]_vars
  PROVE  /\ journal' = journal \/ \E k \in Kinds : journal' = Append(journal, k)
         /\ invalidated \subseteq invalidated'
         /\ submitted \subseteq submitted'
  BY DEF Next, vars, flags, effects, history, PortalChange, RealtimeEvent, Apply,
     Disconnect, RepeatConnect, Connect, RunStep, LoadCursor, CursorGet, FetchPage,
     FetchFails, ApplyEvent, SaveCursor, CursorSet, Finish, Restart

\* So a prefix of the journal that has been replayed stays replayed.
LEMMA CaughtUpStays ==
  ASSUME TypeOK, [Next]_vars, NEW n \in Nat, CaughtUpTo(n)
  PROVE  CaughtUpTo(n)' /\ Len(journal') >= Len(journal)
  <1>1. Len(journal') \in Nat /\ Len(journal') >= Len(journal)
    BY Grows DEF TypeOK
  <1>2. \A e \in 1..n : journal'[e] = journal[e]
    BY Grows DEF TypeOK, CaughtUpTo
  <1>3. \A e \in 1..n : Replayed(e)'
    BY <1>2, Grows DEF CaughtUpTo, Replayed, Invalidates, Submits
  <1> QED
    BY <1>1, <1>3 DEF CaughtUpTo, TypeOK

-----------------------------------------------------------------------------
(* Which goroutines exist.                                                 *)

\* A step inside reconcile neither launches nor ends a run.
LEMMA LiveInside ==
  ASSUME IndInv, NEW g \in Generations,
         \/ LoadCursor(g) \/ FetchPage(g) \/ FetchFails(g)
         \/ ApplyEvent(g) \/ SaveCursor(g)
  PROVE  Live' = Live /\ g \in Live
  <1>1. run \in [Generations -> RunType] /\ run' \in [Generations -> RunType]
    <2>1. [Next]_vars
      BY DEF Next, RunStep
    <2> QED
      BY <2>1, TypeStep DEF IndInv, TypeOK
  <1>2. run[g].pc # "none" /\ run'[g].pc # "none"
    <2>1. CASE LoadCursor(g)
      <3>1. PICK a : run' = [run EXCEPT ![g].pc = "page", ![g].after = a]
        BY <2>1 DEF LoadCursor, CursorGet
      <3> QED
        BY <1>1, <2>1, <3>1 DEF LoadCursor, CursorGet, RunType
    <2>2. CASE FetchPage(g)
      <3>1. PICK p : run' = [run EXCEPT ![g].pc = "apply", ![g].next = p.next,
                          ![g].truncated = p.truncated, ![g].applied = run[g].after]
        BY <2>2 DEF FetchPage
      <3> QED
        BY <1>1, <2>2, <3>1 DEF FetchPage, RunType
    <2>3. CASE FetchFails(g)
      BY <1>1, <2>3 DEF FetchFails, RunType
    <2>4. CASE ApplyEvent(g)
      <3>1. run' = [run EXCEPT ![g].applied = run[g].applied + 1]
        BY <2>4 DEF ApplyEvent
      <3> QED
        BY <1>1, <2>4, <3>1 DEF ApplyEvent, RunType
    <2>5. CASE SaveCursor(g)
      <3>1. run' \in {[run EXCEPT ![g].pc = "ok", ![g].after = run[g].next],
                      [run EXCEPT ![g].pc = "page", ![g].after = run[g].next,
                                  ![g].page = run[g].page + 1]}
        BY <2>5 DEF SaveCursor, CursorSet
      <3> QED
        BY <1>1, <2>5, <3>1 DEF SaveCursor, CursorSet, RunType
    <2> QED
      BY <2>1, <2>2, <2>3, <2>4, <2>5
  <1>3. \A h \in Generations : h # g => run'[h] = run[h]
    BY <1>1 DEF LoadCursor, CursorGet, FetchPage, FetchFails, ApplyEvent, SaveCursor, CursorSet
  <1> QED
    BY <1>2, <1>3 DEF Live

\* Connect launches a run only when there is none.
LEMMA LiveConnect ==
  ASSUME IndInv, Connect
  PROVE  /\ generation + 1 \in Generations
         /\ running => Live' = Live
         /\ ~running => Live = {} /\ Live' = {generation + 1}
  <1>1. generation + 1 \in Generations /\ run \in [Generations -> RunType]
    BY BoundsAssumption DEF IndInv, TypeOK, Connect, Generations
  <1>2. CASE running
    BY <1>1, <1>2 DEF Connect, Live
  <1>3. CASE ~running
    <2>1. Live = {}
      BY <1>3 DEF IndInv, OneRunAtATime
    <2>2. run' = [run EXCEPT ![generation + 1] = NewRun]
      BY <1>3 DEF Connect
    <2> QED
      BY <1>1, <1>3, <2>1, <2>2, NewRunFields DEF Live
  <1> QED
    BY <1>1, <1>2, <1>3

\* Finish ends the only run and launches the queued one, if any.
LEMMA LiveFinish ==
  ASSUME IndInv, NEW g \in Generations, Finish(g)
  PROVE  /\ Live = {g} /\ running
         /\ generation \in Generations
         /\ pending => Live' = {generation}
         /\ ~pending => Live' = {}
  <1>1. run \in [Generations -> RunType] /\ generation \in 0..MaxGeneration
    BY DEF IndInv, TypeOK
  <1>2. g \in Live
    BY DEF Finish, Live
  <1>3. Live = {g} /\ running
    BY <1>2 DEF IndInv, OneRunAtATime
  <1>4. generation \in Generations
    BY <1>1, <1>2, BoundsAssumption DEF IndInv, RunKnows, Live, Generations
  <1>5. CASE pending
    <2>1. run' = [run EXCEPT ![g] = NoRun, ![generation] = NewRun]
      BY <1>5 DEF Finish
    <2> QED
      BY <1>1, <1>3, <1>4, <1>5, <2>1, NewRunFields DEF Live
  <1>6. CASE ~pending
    <2>1. run' = [run EXCEPT ![g] = NoRun]
      BY <1>6 DEF Finish
    <2> QED
      BY <1>1, <1>3, <1>4, <1>6, <2>1, NewRunFields DEF Live
  <1> QED
    BY <1>3, <1>4, <1>5, <1>6

\* Every step keeps at most one run, with running in step with it, and queues a
\* session only behind a run.
LEMMA OneRunStep == IndInv /\ [Next]_vars => (OneRunAtATime /\ (pending => running))'
  <1> SUFFICES ASSUME IndInv, [Next]_vars
               PROVE  (OneRunAtATime /\ (pending => running))'
    OBVIOUS
  <1>t. OneRunAtATime /\ (pending => running) /\ TypeOK
    BY DEF IndInv
  <1>1. CASE PortalChange \/ RealtimeEvent \/ Disconnect \/ RepeatConnect \/ UNCHANGED vars
    <2>1. run' = run /\ running' = running /\ pending' = pending
      BY <1>1 DEF PortalChange, RealtimeEvent, Disconnect, RepeatConnect, vars, flags
    <2> QED
      BY <2>1, <1>t DEF OneRunAtATime, Live
  <1>2. CASE Connect
    <2>1. CASE running
      BY <1>2, <2>1, <1>t, LiveConnect DEF Connect, OneRunAtATime
    <2>2. CASE ~running
      BY <1>2, <2>2, <1>t, LiveConnect DEF Connect, OneRunAtATime
    <2> QED
      BY <2>1, <2>2
  <1>3. ASSUME NEW g \in Generations, RunStep(g)
        PROVE  (OneRunAtATime /\ (pending => running))'
    <2>1. CASE Finish(g)
      <3>1. CASE pending
        BY <2>1, <3>1, LiveFinish DEF Finish, OneRunAtATime
      <3>2. CASE ~pending
        BY <2>1, <3>2, LiveFinish DEF Finish, OneRunAtATime
      <3> QED
        BY <3>1, <3>2
    <2>2. CASE ~Finish(g)
      <3>1. Live' = Live
        BY <1>3, <2>2, LiveInside DEF RunStep
      <3>2. running' = running /\ pending' = pending
        BY <1>3, <2>2 DEF RunStep, LoadCursor, CursorGet, FetchPage, FetchFails, ApplyEvent,
           SaveCursor, CursorSet, flags
      <3> QED
        BY <3>1, <3>2, <1>t DEF OneRunAtATime
    <2> QED
      BY <2>1, <2>2
  <1>4. CASE Restart
    <2>1. Live' = {}
      BY <1>4, NewRunFields DEF Restart, Live
    <2> QED
      BY <1>4, <2>1 DEF Restart, OneRunAtATime
  <1> QED
    BY <1>1, <1>2, <1>3, <1>4 DEF Next

\* Every step keeps the promise that no connected session is forgotten, and that
\* only a connected reconciler is ready.
LEMMA SessionStep ==
  IndInv /\ [Next]_vars => (NoSessionForgotten /\ (ready => connected))'
  <1> SUFFICES ASSUME IndInv, [Next]_vars
               PROVE  (NoSessionForgotten /\ (ready => connected))'
    OBVIOUS
  <1>t. NoSessionForgotten /\ (ready => connected) /\ TypeOK
    BY DEF IndInv
  <1>1. CASE PortalChange \/ RealtimeEvent \/ RepeatConnect \/ UNCHANGED vars
    <2>1. run' = run /\ flags' = flags /\ failed' = failed
      BY <1>1 DEF PortalChange, RealtimeEvent, RepeatConnect, vars, history
    <2> QED
      BY <2>1, <1>t DEF NoSessionForgotten, Live, flags
  <1>2. CASE Disconnect
    BY <1>2 DEF Disconnect, NoSessionForgotten
  <1>3. CASE Connect
    <2>1. CASE running
      BY <1>3, <2>1 DEF Connect, NoSessionForgotten
    <2>2. CASE ~running
      BY <1>3, <2>2, LiveConnect DEF Connect, NoSessionForgotten
    <2> QED
      BY <2>1, <2>2
  <1>4. ASSUME NEW g \in Generations, RunStep(g)
        PROVE  (NoSessionForgotten /\ (ready => connected))'
    <2>1. CASE Finish(g)
      <3>1. Live = {g}
        BY <2>1, LiveFinish
      <3>2. (ready => connected)'
        BY <2>1, <1>t DEF Finish
      <3>3. CASE pending
        BY <2>1, <3>2, <3>3, LiveFinish DEF Finish, NoSessionForgotten
      <3>4. CASE ~pending /\ generation = g
        BY <2>1, <3>2, <3>4 DEF Finish, NoSessionForgotten
      <3>5. CASE ~pending /\ generation # g
        BY <2>1, <1>t, <3>1, <3>2, <3>5 DEF Finish, NoSessionForgotten
      <3> QED
        BY <3>3, <3>4, <3>5
    <2>2. CASE ~Finish(g)
      <3>1. Live' = Live
        BY <1>4, <2>2, LiveInside DEF RunStep
      <3>2. flags' = flags /\ failed' = failed
        BY <1>4, <2>2 DEF RunStep, LoadCursor, CursorGet, FetchPage, FetchFails, ApplyEvent,
           SaveCursor, CursorSet, history
      <3> QED
        BY <3>1, <3>2, <1>t DEF NoSessionForgotten, flags
    <2> QED
      BY <2>1, <2>2
  <1>5. CASE Restart
    BY <1>5 DEF Restart, NoSessionForgotten
  <1> QED
    BY <1>1, <1>2, <1>3, <1>4, <1>5 DEF Next

-----------------------------------------------------------------------------
(* What the runs and the cursor know.                                      *)

\* The stored cursor stays behind the effects: it is only ever set to a mark
\* whose page has been applied.
LEMMA CursorStep == IndInv /\ [Next]_vars => CursorBehindEffects'
  <1> SUFFICES ASSUME IndInv, [Next]_vars PROVE CursorBehindEffects'
    OBVIOUS
  <1>t. TypeOK /\ CaughtUpTo(cursor) /\ cursor \in Nat
    BY DEF IndInv, CursorBehindEffects, TypeOK
  <1>k. ASSUME cursor' = cursor PROVE CursorBehindEffects'
    <2>1. CaughtUpTo(cursor)'
      BY <1>t, <1>k, CaughtUpStays DEF CaughtUpTo, Replayed
    <2> QED
      BY <2>1 DEF CursorBehindEffects
  <1>1. CASE ~Restart /\ ~(\E g \in Generations : SaveCursor(g))
    BY <1>1, <1>k DEF Next, vars, flags, effects, history, PortalChange,
       RealtimeEvent, Disconnect, RepeatConnect, Connect, RunStep, LoadCursor, CursorGet,
       FetchPage, FetchFails, ApplyEvent, Finish
  <1>2. CASE Restart
    <2>1. CASE UseRedis
      BY <1>2, <1>k, <2>1 DEF Restart
    <2>2. CASE ~UseRedis
      BY <1>2, <1>t, <2>2 DEF Restart, CursorBehindEffects, CaughtUpTo, TypeOK
    <2> QED
      BY <2>1, <2>2
  <1>3. ASSUME NEW g \in Generations, SaveCursor(g) PROVE CursorBehindEffects'
    <2>1. run[g] \in RunType
      BY <1>t DEF TypeOK
    <2>2. CASE cursor' = cursor
      BY <1>k, <2>2
    <2>3. CASE cursor' = run[g].next
      <3>1. CaughtUpTo(run[g].next)
        BY <1>3, <2>1 DEF SaveCursor, CursorSet, IndInv, RunKnows, CaughtUpTo, RunType
      <3>2. journal' = journal /\ invalidated' = invalidated /\ submitted' = submitted
        BY <1>3 DEF SaveCursor, CursorSet, effects
      <3> QED
        BY <2>3, <3>1, <3>2 DEF CursorBehindEffects, CaughtUpTo, Replayed
    <2> QED
      BY <1>3, <2>2, <2>3 DEF SaveCursor, CursorSet
  <1> QED
    BY <1>1, <1>2, <1>3

\* Every step keeps what the live runs know.
LEMMA KnowsStep == IndInv /\ [Next]_vars => (\A h \in Generations : RunKnows(h))'
  <1> SUFFICES ASSUME IndInv, [Next]_vars, NEW h \in Generations
               PROVE  RunKnows(h)'
    OBVIOUS
  <1>t. /\ TypeOK /\ TypeOK' /\ RunKnows(h)
        /\ run[h] \in RunType /\ run'[h] \in RunType
    BY TypeStep DEF IndInv, TypeOK
  <1>m. Len(journal) \in Nat /\ Len(journal') \in Nat /\ Len(journal') >= Len(journal)
    BY <1>t, Grows DEF TypeOK
  \* A run that a step leaves alone, in a session it does not end.
  <1>k. ASSUME run'[h] = run[h], generation' = generation, mark' = mark
        PROVE  RunKnows(h)'
    <2>1. run[h].pc # "none" => CaughtUpTo(run[h].after)'
      BY <1>t, <1>k, CaughtUpStays DEF RunKnows, RunType
    <2>2. run[h].pc = "apply" => CaughtUpTo(run[h].applied)'
      BY <1>t, <1>k, CaughtUpStays DEF RunKnows, RunType
    <2>3. run[h].pc = "apply" => run[h].next <= Len(journal')
      BY <1>t, <1>m DEF RunKnows, RunType
    <2> QED
      BY <1>t, <1>k, <2>1, <2>2, <2>3 DEF RunKnows, CaughtUpTo, Replayed
  <1>n. ASSUME run'[h].pc = "none" PROVE RunKnows(h)'
    BY <1>n DEF RunKnows
  <1>1. CASE PortalChange \/ RealtimeEvent \/ Disconnect \/ RepeatConnect \/ UNCHANGED vars
    BY <1>1, <1>k DEF PortalChange, RealtimeEvent, Disconnect, RepeatConnect, vars,
       flags, history
  <1>2. CASE Connect
    <2>0. generation \in Nat
      BY <1>t DEF TypeOK
    <2>1. /\ generation \in Nat /\ generation' = generation + 1
          /\ generation + 1 \in Generations
      BY <1>2, <2>0, LiveConnect DEF Connect
    <2>2. CASE running
      <3>1. run' = run
        BY <1>2, <2>2 DEF Connect
      <3>2. run[h].pc # "none" => h <= generation
        BY <1>t DEF RunKnows
      <3>3. run[h].pc # "none" => CaughtUpTo(run[h].after)'
        BY <1>t, <3>1, CaughtUpStays DEF RunKnows, RunType
      <3>4. run[h].pc = "apply" => CaughtUpTo(run[h].applied)' /\ run[h].next <= Len(journal')
        BY <1>2, <1>t, <3>1, CaughtUpStays DEF RunKnows, RunType, Connect
      <3>5. h \in Nat
        BY DEF Generations
      <3> QED
        BY <2>1, <3>1, <3>2, <3>3, <3>4, <3>5 DEF RunKnows, CaughtUpTo, Replayed
    <2>3. CASE ~running /\ h = generation + 1
      <3>1. run'[h] = NewRun
        BY <1>2, <1>t, <2>1, <2>3 DEF Connect, TypeOK
      <3>2. CaughtUpTo(run[h].after)'
        BY <1>m, <3>1, NewRunFields DEF CaughtUpTo
      <3> QED
        BY <2>1, <2>3, <3>1, <3>2, NewRunFields DEF RunKnows
    <2>4. CASE ~running /\ h # generation + 1
      BY <1>2, <1>n, <2>4, LiveConnect DEF Live
    <2> QED
      BY <2>2, <2>3, <2>4
  <1>3. ASSUME NEW g \in Generations, RunStep(g) PROVE RunKnows(h)'
    <2>1. CASE Finish(g)
      <3>1. CASE pending /\ h = generation
        <4>1. run'[h] = NewRun
          BY <1>t, <2>1, <3>1 DEF Finish, TypeOK
        <4>2. CaughtUpTo(run[h].after)'
          BY <1>m, <4>1, NewRunFields DEF CaughtUpTo
        <4>3. h <= generation' /\ run'[h].pc = "start"
          BY <1>t, <2>1, <3>1, <4>1, NewRunFields DEF Finish, TypeOK, Generations
        <4> QED
          BY <4>2, <4>3 DEF RunKnows
      <3>2. CASE ~(pending /\ h = generation)
        BY <1>n, <2>1, <3>2, LiveFinish DEF Live
      <3> QED
        BY <3>1, <3>2
    <2>2. CASE ~Finish(g) /\ h # g
      BY <1>3, <1>t, <1>k, <2>2 DEF RunStep, LoadCursor, CursorGet, FetchPage, FetchFails,
         ApplyEvent, SaveCursor, CursorSet, flags, history, TypeOK
    <2>3. CASE ~Finish(g) /\ h = g
      <3>0. /\ generation' = generation /\ mark' = mark
            /\ mark \in Nat /\ mark <= Len(journal)
        BY <1>3, <1>t, <2>3 DEF RunStep, LoadCursor, CursorGet, FetchPage, FetchFails,
           ApplyEvent, SaveCursor, CursorSet, flags, history, IndInv, TypeOK
      <3>g. /\ h <= generation /\ CaughtUpTo(run[h].after) /\ CaughtUpTo(cursor)
        BY <1>3, <1>t, <2>3, LiveInside
        DEF RunStep, RunKnows, Live, IndInv, CursorBehindEffects
      <3>1. CASE LoadCursor(g)
        <4>1. PICK a \in {cursor, 0} :
                run' = [run EXCEPT ![g].pc = "page", ![g].after = a]
          BY <3>1 DEF LoadCursor, CursorGet
        <4>2. CaughtUpTo(a) /\ a \in Nat
          BY <1>t, <1>m, <3>g, <4>1 DEF CaughtUpTo, TypeOK
        <4>3. run'[h].pc = "page" /\ run'[h].after = a
          BY <1>t, <2>3, <4>1 DEF TypeOK, RunType
        <4>4. CaughtUpTo(run[h].after)'
          BY <1>t, <4>2, <4>3, CaughtUpStays DEF CaughtUpTo, Replayed
        <4> QED
          BY <3>0, <3>g, <4>3, <4>4 DEF RunKnows
      <3>2. CASE FetchPage(g)
        <4>1. PICK p \in Pages(run[g].after) :
                run' = [run EXCEPT ![g].pc = "apply", ![g].next = p.next,
                          ![g].truncated = p.truncated, ![g].applied = run[g].after]
          BY <3>2 DEF FetchPage
        <4>2. /\ p.next \in Nat /\ p.truncated \in BOOLEAN
              /\ p.next <= Len(journal)
              /\ ~p.truncated => p.next = Len(journal)
              /\ ~PortalMayStall /\ p.truncated => p.next > run[g].after
          BY <1>t, <2>3, <3>g, PagesFacts DEF CaughtUpTo, TypeOK, RunType
        <4>3. /\ run'[h].pc = "apply" /\ run'[h].next = p.next
              /\ run'[h].truncated = p.truncated /\ run'[h].after = run[h].after
              /\ run'[h].applied = run[h].after
          BY <1>t, <2>3, <4>1 DEF TypeOK, RunType
        <4>4. CaughtUpTo(run[h].after)' /\ CaughtUpTo(run[h].applied)'
          BY <1>t, <3>g, <4>3, CaughtUpStays DEF CaughtUpTo, Replayed, RunType
        <4>5. journal' = journal
          BY <3>2 DEF FetchPage
        <4>6. ~p.truncated => p.next >= mark
          BY <1>m, <3>0, <4>2
        <4>7. ~run'[h].truncated => run'[h].next >= mark'
          BY <3>0, <4>3, <4>6
        <4>8. ~PortalMayStall /\ run'[h].truncated => run'[h].next > run'[h].after
          BY <2>3, <4>2, <4>3
        <4>9. run'[h].next <= Len(journal') /\ h <= generation' /\ run'[h].pc = "apply"
          BY <3>0, <3>g, <4>2, <4>3, <4>5
        <4> QED
          BY <4>4, <4>7, <4>8, <4>9 DEF RunKnows
      <3>3. CASE FetchFails(g)
        <4>1. run'[h].pc = "error" /\ run'[h].after = run[h].after
          BY <1>t, <2>3, <3>3 DEF FetchFails, TypeOK, RunType
        <4>2. CaughtUpTo(run[h].after)'
          BY <1>t, <3>g, <4>1, CaughtUpStays DEF CaughtUpTo, Replayed, RunType
        <4> QED
          BY <3>0, <3>g, <4>1, <4>2 DEF RunKnows
      <3>4. CASE ApplyEvent(g)
        <4>1. run' = [run EXCEPT ![g].applied = run[g].applied + 1]
          BY <3>4 DEF ApplyEvent
        <4>2. /\ run[h].pc = "apply" /\ run'[h].pc = "apply"
              /\ run'[h].after = run[h].after /\ run'[h].next = run[h].next
              /\ run'[h].truncated = run[h].truncated
              /\ run'[h].applied = run[h].applied + 1
              /\ run[h].applied \in Nat /\ run[h].next \in Nat
          BY <1>t, <2>3, <3>4, <4>1 DEF ApplyEvent, TypeOK, RunType
        <4>3. /\ run[h].next <= Len(journal) /\ CaughtUpTo(run[h].applied)
              /\ run[h].applied < run[h].next /\ journal' = journal
          BY <1>t, <2>3, <3>4, <4>2 DEF ApplyEvent, RunKnows
        <4>4. CaughtUpTo(run[h].after)'
          BY <1>t, <3>g, <4>2, CaughtUpStays DEF CaughtUpTo, Replayed, RunType
        <4>5. ASSUME NEW k \in Nat, k = run[h].applied + 1 PROVE Replayed(k)'
          BY <2>3, <3>4, <4>3, <4>5 DEF ApplyEvent, Apply, Replayed, Invalidates, Submits
        <4>6. CaughtUpTo(run[h].applied)'
          <5>1. ASSUME NEW e \in 1..(run[h].applied + 1) PROVE Replayed(e)'
            <6>1. CASE e \in 1..run[h].applied
              BY <1>t, <4>2, <4>3, <6>1, CaughtUpStays DEF CaughtUpTo
            <6>2. CASE e = run[h].applied + 1
              BY <4>2, <4>5, <6>2
            <6> QED
              BY <4>2, <6>1, <6>2
          <5> QED
            BY <1>m, <4>2, <4>3, <5>1 DEF CaughtUpTo
        <4> QED
          BY <1>t, <3>0, <3>g, <4>2, <4>3, <4>4, <4>6 DEF RunKnows
      <3>5. CASE SaveCursor(g)
        <4>1. /\ run[h].pc = "apply" /\ run[h].applied >= run[h].next
              /\ run'[h].after = run[h].next
              /\ \/ run'[h].pc = "page"
                 \/ run'[h].pc = "ok" /\ LastPage(run[h])
          BY <1>t, <2>3, <3>5 DEF SaveCursor, CursorSet, TypeOK, RunType
        <4>2. CaughtUpTo(run[h].next)
          BY <1>t, <4>1 DEF RunKnows, CaughtUpTo, RunType
        <4>3. CaughtUpTo(run[h].after)'
          BY <1>t, <4>1, <4>2, CaughtUpStays DEF CaughtUpTo, Replayed, RunType
        <4>4. (~PortalMayStall /\ h = generation /\ LastPage(run[h])) => run[h].next >= mark
          BY <1>t, <4>1 DEF RunKnows, LastPage, RunType
        <4> QED
          BY <3>0, <3>g, <4>1, <4>3, <4>4 DEF RunKnows
      <3> QED
        BY <1>3, <2>3, <3>1, <3>2, <3>3, <3>4, <3>5 DEF RunStep
    <2> QED
      BY <2>1, <2>2, <2>3
  <1>4. CASE Restart
    BY <1>4, <1>n, NewRunFields DEF Restart
  <1> QED
    BY <1>1, <1>2, <1>3, <1>4 DEF Next

\* Every step keeps ready a promise about the current session's mark.
LEMMA ReadyStep ==
  IndInv /\ [Next]_vars =>
    (mark <= Len(journal) /\ (~PortalMayStall => ReadyMeansCaughtUp))'
  <1> SUFFICES ASSUME IndInv, [Next]_vars
               PROVE  /\ mark' <= Len(journal')
                      /\ ~PortalMayStall => ReadyMeansCaughtUp'
    OBVIOUS
  <1>t. TypeOK /\ mark \in Nat /\ mark <= Len(journal)
    BY DEF IndInv, TypeOK
  <1>m. Len(journal) \in Nat /\ Len(journal') \in Nat /\ Len(journal') >= Len(journal)
    BY <1>t, Grows DEF TypeOK
  <1>c. (ready => connected)'
    BY SessionStep
  <1>k. ASSUME mark' = mark, ready' => ready
        PROVE  /\ mark' <= Len(journal')
               /\ ~PortalMayStall => ReadyMeansCaughtUp'
    <2>1. mark' <= Len(journal')
      BY <1>t, <1>m, <1>k
    <2>2. CaughtUpTo(mark) => CaughtUpTo(mark)'
      BY <1>t, <1>k, CaughtUpStays DEF CaughtUpTo, Replayed
    <2> QED
      BY <1>c, <1>k, <2>1, <2>2 DEF IndInv, ReadyMeansCaughtUp
  <1>1. CASE PortalChange \/ RealtimeEvent \/ Disconnect \/ RepeatConnect \/ UNCHANGED vars
    BY <1>1, <1>k DEF PortalChange, RealtimeEvent, Disconnect, RepeatConnect, vars,
       flags, history
  <1>2. CASE Connect
    BY <1>2, <1>m DEF Connect, ReadyMeansCaughtUp
  <1>3. ASSUME NEW g \in Generations, RunStep(g)
        PROVE  /\ mark' <= Len(journal')
               /\ ~PortalMayStall => ReadyMeansCaughtUp'
    <2>1. CASE Finish(g) /\ ~ready /\ run[g].pc = "ok" /\ generation = g /\ ~PortalMayStall
      <3>1. /\ run[g].after >= mark /\ CaughtUpTo(run[g].after)
            /\ run[g].after \in Nat
        BY <1>t, <2>1 DEF IndInv, RunKnows, TypeOK, RunType
      <3>2. CaughtUpTo(mark)
        BY <1>t, <3>1 DEF CaughtUpTo
      <3>3. mark' = mark
        BY <2>1 DEF Finish
      <3>4. CaughtUpTo(mark)'
        BY <1>t, <3>2, <3>3, CaughtUpStays DEF CaughtUpTo, Replayed
      <3> QED
        BY <1>c, <1>t, <1>m, <3>3, <3>4 DEF ReadyMeansCaughtUp
    <2>2. CASE Finish(g) /\ (ready \/ run[g].pc # "ok" \/ generation # g)
      BY <1>k, <2>2 DEF Finish
    <2>3. CASE Finish(g) /\ PortalMayStall
      BY <1>t, <1>m, <2>3 DEF Finish
    <2>4. CASE ~Finish(g)
      <3>1. flags' = flags /\ history' = history
        BY <1>3, <2>4 DEF RunStep, LoadCursor, CursorGet, FetchPage, FetchFails, ApplyEvent, SaveCursor, CursorSet
      <3> QED
        BY <1>k, <3>1 DEF flags, history
    <2> QED
      BY <2>1, <2>2, <2>3, <2>4
  <1>4. CASE Restart
    BY <1>4, <1>m DEF Restart, ReadyMeansCaughtUp
  <1> QED
    BY <1>1, <1>2, <1>3, <1>4 DEF Next

-----------------------------------------------------------------------------
(* The theorems.                                                           *)

\* The inductive invariant holds of every reachable state.
THEOREM Invariance == Spec => []IndInv
  <1>1. IndInv /\ [Next]_vars => IndInv'
    BY TypeStep, OneRunStep, CursorStep, SessionStep, KnowsStep, ReadyStep DEF IndInv
  <1> QED
    BY InitInv, <1>1, PTL DEF Spec

\* Type correctness: in particular the page cap bounds every run.
THEOREM TypeCorrect == Spec => []TypeOK
  <1>1. IndInv => TypeOK
    BY DEF IndInv
  <1> QED
    BY Invariance, <1>1, PTL

\* OnConnect and run never let two reconciliations overlap.
THEOREM RunsAreSerialized == Spec => []OneRunAtATime
  <1>1. IndInv => OneRunAtATime
    BY DEF IndInv
  <1> QED
    BY Invariance, <1>1, PTL

\* A crash, a failed cursor load or a failed cursor write never skips a change.
THEOREM CursorNeverSkips == Spec => []CursorBehindEffects
  <1>1. IndInv => CursorBehindEffects
    BY DEF IndInv
  <1> QED
    BY Invariance, <1>1, PTL

\* The pending flag loses no session.
THEOREM SessionsAreRemembered == Spec => []NoSessionForgotten
  <1>1. IndInv => NoSessionForgotten
    BY DEF IndInv
  <1> QED
    BY Invariance, <1>1, PTL

\* With a portal whose truncated pages advance, Ready means what its comment
\* says: the session has reached the journal's high-water mark.
THEOREM ReadyIsCaughtUp ==
  ASSUME ~PortalMayStall
  PROVE  Spec => []ReadyMeansCaughtUp
  <1>1. IndInv => ReadyMeansCaughtUp
    BY DEF IndInv
  <1> QED
    BY Invariance, <1>1, PTL

-----------------------------------------------------------------------------
(* The refinement of Replay, by a portal whose truncated pages advance.    *)

\* The refinement mapping of done.
Done == {e \in 1..Len(journal) : Replayed(e)}

\* The initial states map to the initial state.
LEMMA RefinesInit == Init => Abstract!Init
  <1>1. ASSUME Init PROVE Done = {} /\ Len(journal) = 0
    BY <1>1 DEF Init, Done
  <1> QED
    BY <1>1 DEF Init, Abstract!Init, Done

\* A step that leaves the journal and the effects alone leaves done alone.
LEMMA DoneStays ==
  ASSUME journal' = journal, effects' = effects
  PROVE  Done' = Done /\ Len(journal') = Len(journal)
  BY DEF effects, Done, Replayed, Invalidates, Submits

\* Applying change e makes it, and nothing else, done.
LEMMA ApplyIsEffect ==
  ASSUME TypeOK, NEW e \in 1..Len(journal), Apply(e), journal' = journal,
         UNCHANGED <<cursor, connected, ready, mark>>
  PROVE  Abstract!Effect(e)
  <1>1. ASSUME NEW f \in 1..Len(journal)
        PROVE  Replayed(f)' <=> (Replayed(f) \/ f = e)
    BY DEF Apply, Replayed, Invalidates, Submits, TypeOK
  <1>2. Done' = Done \cup {e}
    BY <1>1 DEF Done
  <1> QED
    BY <1>2 DEF Abstract!Effect, Done

\* A journaled change is a Change.
LEMMA PortalChangeIsChange ==
  ASSUME TypeOK, PortalChange
  PROVE  Abstract!Change
  <1>1. PICK k \in Kinds : journal' = Append(journal, k)
    BY DEF PortalChange
  <1>2. /\ Len(journal) \in Nat /\ Len(journal') = Len(journal) + 1
        /\ \A e \in 1..Len(journal) : journal'[e] = journal[e]
    BY <1>1 DEF TypeOK
  <1>3. \A e \in 1..Len(journal) : Replayed(e)' <=> Replayed(e)
    BY <1>2 DEF PortalChange, effects, Replayed, Invalidates, Submits
  <1>4. Done' \in {Done, Done \cup {Len(journal) + 1}}
    <2>0. PICK n \in Nat : n = Len(journal) + 1
      BY <1>2
    <2>1. 1..Len(journal') = 1..Len(journal) \cup {n}
      BY <1>2, <2>0
    <2>2. CASE Replayed(n)'
      BY <1>2, <1>3, <2>0, <2>1, <2>2 DEF Done
    <2>3. CASE ~Replayed(n)'
      BY <1>2, <1>3, <2>0, <2>1, <2>3 DEF Done
    <2> QED
      BY <2>2, <2>3
  <1> QED
    BY <1>2, <1>4 DEF Abstract!Change, PortalChange, flags, history, Done

\* Being caught up to n, in terms of the abstract state.
LEMMA CaughtUpIsDone ==
  ASSUME TypeOK, NEW n \in Nat, CaughtUpTo(n)
  PROVE  n \in 0..Len(journal) /\ 1..n \subseteq Done
  <1>1. Len(journal) \in Nat
    BY DEF TypeOK
  <1> QED
    BY <1>1 DEF CaughtUpTo, Done

\* Every step of the reconciler is a step of the abstract one or leaves it alone.
LEMMA RefinesStep ==
  ASSUME ~PortalMayStall, IndInv, [Next]_vars
  PROVE  [Abstract!Next]_(Abstract!vars)
  <1>t. TypeOK
    BY DEF IndInv
  <1>0. ASSUME journal' = journal, effects' = effects,
               UNCHANGED <<cursor, connected, ready, mark>>
        PROVE  UNCHANGED Abstract!vars
    BY <1>0, DoneStays DEF Abstract!vars, Done
  <1>1. CASE PortalChange
    BY <1>1, <1>t, PortalChangeIsChange DEF Abstract!Next
  <1>2. CASE RealtimeEvent
    <2>1. PICK e \in (mark + 1)..Len(journal) : Apply(e)
      BY <1>2 DEF RealtimeEvent
    <2>2. e \in 1..Len(journal)
      BY <1>t, <2>1 DEF TypeOK
    <2>3. Abstract!Effect(e)
      BY <1>2, <1>t, <2>1, <2>2, ApplyIsEffect DEF RealtimeEvent, flags, history
    <2> QED
      BY <2>2, <2>3 DEF Abstract!Next
  <1>3. CASE Disconnect
    <2>1. Abstract!Down
      BY <1>3, DoneStays DEF Disconnect, history, Abstract!Down, Done
    <2> QED
      BY <2>1 DEF Abstract!Next
  <1>4. CASE RepeatConnect \/ UNCHANGED vars
    BY <1>0, <1>4 DEF RepeatConnect, vars, flags, history
  <1>5. CASE Connect
    <2>1. Abstract!Up
      BY <1>5, DoneStays DEF Connect, Abstract!Up, Done
    <2> QED
      BY <2>1 DEF Abstract!Next
  <1>6. ASSUME NEW g \in Generations, RunStep(g)
        PROVE  [Abstract!Next]_(Abstract!vars)
    <2>0. run[g] \in RunType
      BY <1>t DEF TypeOK
    <2>1. CASE LoadCursor(g) \/ FetchPage(g) \/ FetchFails(g)
      BY <1>0, <2>1 DEF LoadCursor, CursorGet, FetchPage, FetchFails, flags, history
    <2>2. CASE ApplyEvent(g)
      <3>1. /\ run[g].applied + 1 \in 1..Len(journal)
            /\ Apply(run[g].applied + 1)
        BY <1>t, <2>0, <2>2 DEF ApplyEvent, IndInv, RunKnows, TypeOK, RunType
      <3>2. Abstract!Effect(run[g].applied + 1)
        BY <1>t, <2>2, <3>1, ApplyIsEffect DEF ApplyEvent, flags, history
      <3> QED
        BY <3>1, <3>2 DEF Abstract!Next
    <2>3. CASE SaveCursor(g)
      <3>1. run[g].next \in Nat /\ CaughtUpTo(run[g].next)
        BY <1>t, <2>0, <2>3
        DEF SaveCursor, IndInv, RunKnows, RunType, CaughtUpTo, TypeOK
      <3>2. run[g].next \in 0..Len(journal) /\ 1..run[g].next \subseteq Done
        BY <1>t, <3>1, CaughtUpIsDone
      <3>3. CASE cursor' = cursor
        BY <1>0, <2>3, <3>3 DEF SaveCursor, flags, history
      <3>4. CASE cursor' = run[g].next
        <4>1. Abstract!Save(run[g].next)
          BY <2>3, <3>2, <3>4, DoneStays
          DEF SaveCursor, flags, history, Abstract!Save, Done
        <4> QED
          BY <3>2, <4>1 DEF Abstract!Next
      <3> QED
        BY <2>3, <3>3, <3>4 DEF SaveCursor, CursorSet
    <2>4. CASE Finish(g)
      <3>1. CASE ~ready /\ ready'
        <4>1. /\ connected /\ mark \in Nat /\ CaughtUpTo(mark)
          <5>1. /\ connected /\ run[g].pc = "ok" /\ generation = g
            BY <1>t, <2>4, <3>1 DEF Finish, TypeOK
          <5>2. /\ run[g].after >= mark /\ CaughtUpTo(run[g].after)
                /\ run[g].after \in Nat /\ mark \in Nat
            BY <1>t, <2>0, <5>1 DEF IndInv, RunKnows, TypeOK, RunType
          <5> QED
            BY <1>t, <5>1, <5>2 DEF CaughtUpTo, TypeOK
        <4>2. Abstract!BecomeReady
          <5>1. 1..mark \subseteq Done
            BY <1>t, <4>1, CaughtUpIsDone
          <5>2. ready' = TRUE
            BY <1>t, <2>4, <3>1 DEF Finish, TypeOK
          <5> QED
            BY <2>4, <4>1, <5>1, <5>2, DoneStays DEF Finish, Abstract!BecomeReady, Done
        <4> QED
          BY <4>2 DEF Abstract!Next
      <3>2. CASE ready \/ ~ready'
        <4>1. ready' = ready
          BY <1>t, <2>4, <3>2 DEF Finish, TypeOK
        <4> QED
          BY <1>0, <2>4, <4>1 DEF Finish
      <3> QED
        BY <3>1, <3>2
    <2> QED
      BY <1>6, <2>1, <2>2, <2>3, <2>4 DEF RunStep
  <1>7. CASE Restart
    <2>1. Abstract!Crash
      BY <1>7, DoneStays DEF Restart, Abstract!Crash, Done
    <2> QED
      BY <2>1 DEF Abstract!Next
  <1> QED
    BY <1>1, <1>2, <1>3, <1>4, <1>5, <1>6, <1>7 DEF Next

\* The reconciler, with its sessions, pages, goroutines, lost cursor writes and
\* restarts, implements the abstract replay.
THEOREM ReconcilerImplementsReplay ==
  ASSUME ~PortalMayStall
  PROVE  Spec => ImplementsReplay
  <1>1. IndInv /\ [Next]_vars => [Abstract!Next]_(Abstract!vars)
    BY RefinesStep
  <1> QED
    BY Invariance, RefinesInit, <1>1, PTL DEF Spec, ImplementsReplay, Abstract!Spec
=============================================================================

--------------------------- MODULE SeedPeerProofs ---------------------------
(***************************************************************************)
(* The safety properties of SeedPeer, for any number of workers, of calls  *)
(* that overlap, of connections and of late notifications.                 *)
(***************************************************************************)
EXTENDS SeedPeer, TLAPS

Pcs == {"none", "top", "dial", "notify", "store", "check", "wait", "stop", "down",
        "exit", "gone"}

WorkerType == [pc : Pcs, cancelled : BOOLEAN, token : BOOLEAN, registered : BOOLEAN,
               once : BOOLEAN, quit : BOOLEAN]
CallType == [pc : {"idle", "cancel", "wait", "close", "returned"},
             kind : {"disconnect", "close"}, held : Workers \cup {None}]

\* Every variable the properties depend on has its type.
TypeOK ==
  /\ active \in BOOLEAN /\ connected \in BOOLEAN /\ closed \in BOOLEAN
  /\ cancelOf \in Workers \cup {None} /\ current \in Workers \cup {None}
  /\ worker \in [Workers -> WorkerType]
  /\ call \in [Callers -> CallType]

\* seedPeerActive and seedPeerCancel agree, and the function cancels the worker
\* whose ID is stored: what Exit clears is its own, or nobody's.
CancelIsCurrent ==
  /\ active <=> cancelOf # None
  /\ cancelOf # None => cancelOf = current

\* A worker hears of disconnects from Notify to StopNotify.
RegisteredInRound(k) == k.registered => k.pc \in {"store", "check", "wait", "stop"}

\* The signal of a round is sent once and taken, or the worker has been stopped.
SignalInRound(k) ==
  /\ k.quit => k.pc \in {"stop", "down", "exit", "gone"}
  /\ k.pc = "none" => ~k.token
  /\ k.pc \in {"top", "dial", "notify"} => ~k.token
  /\ k.pc \in {"store", "check", "wait"} /\ k.token => k.once
  /\ k.pc = "stop" /\ ~k.quit => k.once /\ ~k.token
  /\ k.pc = "down" /\ ~k.quit => ~k.token

\* A call holds a cancel function only until it has called it.
HeldUntilCancel == \A d \in Callers : call[d].pc # "cancel" => call[d].held = None

SeedPeerInv ==
  /\ TypeOK
  /\ HeldUntilCancel
  /\ CancelIsCurrent
  /\ \A w \in Workers : RegisteredInRound(worker[w]) /\ SignalInRound(worker[w])
  /\ NoOrphan
  /\ FlagHasOwner

-----------------------------------------------------------------------------
(* Types.                                                                  *)

LEMMA Records == NoWorker \in WorkerType /\ NoCall \in CallType
  BY DEF NoWorker, WorkerType, Pcs, NoCall, CallType

\* Every step keeps the types.
LEMMA TypeStep == TypeOK /\ [Next]_vars => TypeOK'
  <1> SUFFICES ASSUME TypeOK, [Next]_vars PROVE TypeOK'
    OBVIOUS
  <1> USE Records DEF TypeOK
  <1>1. CASE LinkUp BY <1>1 DEF LinkUp
  <1>2. CASE LinkDrop BY <1>2 DEF LinkDrop
  <1>3. CASE Deliver
    <2>1. \A k \in WorkerType : Signal(k) \in WorkerType
      BY DEF Signal, WorkerType
    <2> QED BY <1>3, <2>1 DEF Deliver
  <1>4. CASE Connect BY <1>4 DEF Connect, WorkerType, Pcs
  <1>5. ASSUME NEW d \in Callers, DisconnectLock(d) \/ CallStep(d) \/ Again(d)
        PROVE  TypeOK'
    <2>1. CASE DisconnectLock(d)
      <3>1. PICK k \in {"disconnect", "close"} :
              call' = [call EXCEPT ![d] = [pc |-> "cancel", kind |-> k, held |-> cancelOf]]
        BY <2>1 DEF DisconnectLock
      <3>2. [pc |-> "cancel", kind |-> k, held |-> cancelOf] \in CallType
        BY DEF CallType
      <3> QED BY <2>1, <3>1, <3>2 DEF DisconnectLock
    <2>2. CASE DisconnectCancel(d)
      <3>1. worker' \in [Workers -> WorkerType]
        BY <2>2 DEF DisconnectCancel, WorkerType
      <3>2. call' \in [Callers -> CallType]
        BY <2>2 DEF DisconnectCancel, CallType
      <3> QED BY <2>2, <3>1, <3>2 DEF DisconnectCancel
    <2>3. CASE DisconnectReturn(d) BY <2>3 DEF DisconnectReturn, CallType
    <2>4. CASE CloseNode(d) BY <2>4 DEF CloseNode, CallType
    <2>5. CASE Again(d) BY <2>5 DEF Again
    <2> QED BY <1>5, <2>1, <2>2, <2>3, <2>4, <2>5 DEF CallStep
  <1>6. ASSUME NEW w \in Workers, DialOk(w) \/ WorkerStep(w)
        PROVE  TypeOK'
    <2> USE DEF WorkerType, Pcs, Step
    <2>1. CASE DialOk(w) BY <2>1 DEF DialOk
    <2>2. CASE Top(w) BY <2>2 DEF Top
    <2>3. CASE DialCancelled(w) BY <2>3 DEF DialCancelled
    <2>4. CASE Notify(w) BY <2>4 DEF Notify
    <2>5. CASE StoreTrue(w) BY <2>5 DEF StoreTrue
    <2>6. CASE Check(w)
      <3>1. \A k \in WorkerType : Signal(k) \in WorkerType /\ [k EXCEPT !.pc = "wait"] \in WorkerType
        BY DEF Signal
      <3>2. worker[w] \in WorkerType
        BY DEF TypeOK
      <3>3. worker' \in [Workers -> WorkerType]
        BY <2>6, <3>1, <3>2 DEF Check
      <3> QED BY <2>6, <3>3 DEF Check
    <2>7. CASE Wait(w)
      <3>1. [worker[w] EXCEPT !.pc = "stop", !.token = FALSE] \in WorkerType
        OBVIOUS
      <3>2. [worker[w] EXCEPT !.pc = "stop", !.quit = TRUE] \in WorkerType
        OBVIOUS
      <3>3. worker' \in [Workers -> WorkerType]
        BY <2>7, <3>1, <3>2 DEF Wait
      <3> QED BY <2>7, <3>3 DEF Wait
    <2>8. CASE StopNotify(w) BY <2>8 DEF StopNotify
    <2>9. CASE StoreFalse(w) BY <2>9 DEF StoreFalse
    <2>10. CASE Exit(w) BY <2>10 DEF Exit
    <2>11. CASE Gone(w) BY <2>11 DEF Gone
    <2> QED BY <1>6, <2>1, <2>2, <2>3, <2>4, <2>5, <2>6, <2>7, <2>8, <2>9, <2>10, <2>11
            DEF WorkerStep
  <1>7. CASE UNCHANGED vars BY <1>7 DEF vars
  <1> QED BY <1>1, <1>2, <1>3, <1>4, <1>5, <1>6, <1>7 DEF Next

-----------------------------------------------------------------------------
(* The invariant.                                                          *)

\* A step of worker w that leaves the calls, the fields and the node's context alone
\* and keeps what the others depend on.
LEMMA WorkerOnly ==
  ASSUME SeedPeerInv, TypeOK', NEW w \in Workers, NEW k \in WorkerType,
         worker' = [worker EXCEPT ![w] = k],
         RegisteredInRound(k), SignalInRound(k),
         UNCHANGED <<active, cancelOf, current, closed, call>>,
         k.pc = "none" \/ k.cancelled = worker[w].cancelled,
         worker[w].pc \in {"none", "exit", "gone"} => k.pc \in {"none", "exit", "gone"},
         connected' => \/ connected /\ worker[w].pc \notin {"check", "wait", "stop", "down"}
                       \/ k.pc \in {"check", "wait", "stop", "down"}
  PROVE  SeedPeerInv'
  <1>1. CancelIsCurrent'
    BY DEF SeedPeerInv, CancelIsCurrent
  <1>2. \A v \in Workers : worker'[v] = IF v = w THEN k ELSE worker[v]
    BY DEF SeedPeerInv, TypeOK
  <1>3. \A v \in Workers : RegisteredInRound(worker'[v]) /\ SignalInRound(worker'[v])
    BY <1>2 DEF SeedPeerInv
  <1>4. NoOrphan'
    BY <1>2 DEF SeedPeerInv, NoOrphan, Live, Done
  <1>5. FlagHasOwner'
    BY <1>2 DEF SeedPeerInv, FlagHasOwner
  <1> QED BY <1>1, <1>3, <1>4, <1>5 DEF SeedPeerInv, HeldUntilCancel

\* A step that changes no worker and no field.
LEMMA NoWorkerStep ==
  ASSUME SeedPeerInv, TypeOK', UNCHANGED <<active, cancelOf, current, connected, worker>>,
         closed => closed',
         \A d \in Callers : call'[d].held = call[d].held,
         HeldUntilCancel'
  PROVE  SeedPeerInv'
  BY DEF SeedPeerInv, CancelIsCurrent, NoOrphan, Live, Done, FlagHasOwner

\* Every step keeps the invariant.
LEMMA Inductive == SeedPeerInv /\ [Next]_vars => SeedPeerInv'
  <1> SUFFICES ASSUME SeedPeerInv, [Next]_vars PROVE SeedPeerInv'
    OBVIOUS
  <1>0. TypeOK /\ TypeOK'
    BY TypeStep DEF SeedPeerInv
  <1>w. \A v \in Workers : worker[v] \in WorkerType /\ RegisteredInRound(worker[v])
                             /\ SignalInRound(worker[v])
    BY DEF SeedPeerInv, TypeOK
  <1>1. CASE LinkUp BY <1>0, <1>1, NoWorkerStep DEF LinkUp, SeedPeerInv, HeldUntilCancel
  <1>2. CASE LinkDrop BY <1>0, <1>2, NoWorkerStep DEF LinkDrop, SeedPeerInv, HeldUntilCancel
  <1>3. CASE Deliver
    <2>1. \A v \in Workers :
            /\ worker'[v].pc = worker[v].pc /\ worker'[v].cancelled = worker[v].cancelled
            /\ RegisteredInRound(worker'[v]) /\ SignalInRound(worker'[v])
      <3> SUFFICES ASSUME NEW v \in Workers
                   PROVE  /\ worker'[v].pc = worker[v].pc /\ worker'[v].cancelled = worker[v].cancelled
                          /\ RegisteredInRound(worker'[v]) /\ SignalInRound(worker'[v])
        OBVIOUS
      <3>1. CASE worker[v].registered /\ ~worker[v].once
        <4>1. worker'[v] = [worker[v] EXCEPT !.token = TRUE, !.once = TRUE]
          BY <1>3, <3>1 DEF Deliver, Signal
        <4>2. \/ worker[v].pc \in {"store", "check", "wait"}
              \/ worker[v].pc = "stop" /\ worker[v].quit
          BY <1>w, <3>1 DEF RegisteredInRound, SignalInRound
        <4> QED BY <1>w, <4>1, <4>2 DEF RegisteredInRound, SignalInRound, WorkerType
      <3>2. CASE ~(worker[v].registered /\ ~worker[v].once)
        <4>1. worker'[v] = worker[v]
          BY <1>3, <3>2 DEF Deliver, Signal
        <4> QED BY <1>w, <4>1
      <3> QED BY <3>1, <3>2
    <2>2. UNCHANGED <<active, cancelOf, current, connected, closed, call>>
      BY <1>3 DEF Deliver
    <2> QED BY <1>0, <2>1, <2>2
            DEF SeedPeerInv, CancelIsCurrent, NoOrphan, Live, Done, FlagHasOwner, HeldUntilCancel
  <1>4. CASE Connect
    <2>1. PICK w \in Workers : /\ worker[w].pc = "none"
                               /\ worker' = [worker EXCEPT ![w].pc = "top"]
                               /\ cancelOf' = w /\ current' = w
      BY <1>4 DEF Connect
    <2>2. cancelOf = None /\ active' = TRUE /\ UNCHANGED <<connected, closed, call>>
      BY <1>4 DEF Connect, SeedPeerInv, CancelIsCurrent
    <2>3. \A v \in Workers : worker'[v] = IF v = w THEN [worker[w] EXCEPT !.pc = "top"] ELSE worker[v]
      BY <1>0, <2>1 DEF TypeOK
    <2>4. RegisteredInRound(worker'[w]) /\ SignalInRound(worker'[w])
      BY <1>w, <2>1, <2>3 DEF RegisteredInRound, SignalInRound, WorkerType
    <2>5. CancelIsCurrent'
      BY <2>1, <2>2, NoneAssumption DEF CancelIsCurrent
    <2>6. NoOrphan'
      BY <2>1, <2>2, <2>3, NoneAssumption DEF SeedPeerInv, NoOrphan, Live, Done
    <2>7. FlagHasOwner'
      BY <2>1, <2>2, <2>3 DEF SeedPeerInv, FlagHasOwner
    <2> QED BY <1>0, <1>w, <2>2, <2>3, <2>4, <2>5, <2>6, <2>7 DEF SeedPeerInv, HeldUntilCancel
  <1>5. ASSUME NEW d \in Callers, DisconnectLock(d) \/ CallStep(d) \/ Again(d)
        PROVE  SeedPeerInv'
    <2>1. CASE DisconnectLock(d)
      <3>1. /\ call'[d].held = cancelOf /\ call'[d].pc = "cancel"
            /\ \A e \in Callers \ {d} : call'[e] = call[e]
        BY <1>0, <2>1 DEF DisconnectLock, TypeOK
      <3>2. NoOrphan'
        BY <2>1, <3>1, NoneAssumption
        DEF DisconnectLock, SeedPeerInv, HeldUntilCancel, NoOrphan, Live, Done
      <3> QED BY <1>0, <2>1, <3>1, <3>2
              DEF DisconnectLock, SeedPeerInv, CancelIsCurrent, FlagHasOwner, HeldUntilCancel
    <2>2. CASE DisconnectCancel(d)
      <3>1. \A v \in Workers :
              worker'[v] = IF v = call[d].held /\ worker[v].pc # "none"
                             THEN [worker[v] EXCEPT !.cancelled = TRUE] ELSE worker[v]
        BY <2>2 DEF DisconnectCancel
      <3>2. /\ call'[d].held = None
            /\ \A e \in Callers \ {d} : call'[e] = call[e]
        BY <1>0, <2>2 DEF DisconnectCancel, TypeOK, CallType
      <3>3. \A v \in Workers :
              /\ worker'[v].pc = worker[v].pc
              /\ RegisteredInRound(worker'[v]) /\ SignalInRound(worker'[v])
              /\ worker[v].cancelled \/ call[d].held = v => worker'[v].cancelled \/ worker[v].pc = "none"
        BY <1>w, <3>1 DEF RegisteredInRound, SignalInRound, WorkerType
      <3>4. NoOrphan'
        BY <2>2, <3>2, <3>3 DEF DisconnectCancel, SeedPeerInv, NoOrphan, Live, Done
      <3>5. FlagHasOwner'
        BY <2>2, <3>3 DEF DisconnectCancel, SeedPeerInv, FlagHasOwner
      <3> QED BY <1>0, <2>2, <3>2, <3>3, <3>4, <3>5
              DEF DisconnectCancel, SeedPeerInv, CancelIsCurrent, HeldUntilCancel
    <2>3. CASE DisconnectReturn(d)
      <3>1. /\ \A e \in Callers : call'[e].held = call[e].held
            /\ HeldUntilCancel'
        BY <1>0, <2>3 DEF DisconnectReturn, TypeOK, CallType, SeedPeerInv, HeldUntilCancel
      <3> QED BY <1>0, <2>3, <3>1, NoWorkerStep DEF DisconnectReturn
    <2>4. CASE CloseNode(d)
      <3>1. /\ \A e \in Callers : call'[e].held = call[e].held
            /\ HeldUntilCancel'
        BY <1>0, <2>4 DEF CloseNode, TypeOK, CallType, SeedPeerInv, HeldUntilCancel
      <3> QED BY <1>0, <2>4, <3>1, NoWorkerStep DEF CloseNode
    <2>5. CASE Again(d)
      <3>1. /\ \A e \in Callers : call'[e].held = call[e].held
            /\ HeldUntilCancel'
        BY <1>0, <2>5 DEF Again, TypeOK, CallType, NoCall, SeedPeerInv, HeldUntilCancel
      <3> QED BY <1>0, <2>5, <3>1, NoWorkerStep DEF Again
    <2> QED BY <1>5, <2>1, <2>2, <2>3, <2>4, <2>5 DEF CallStep
  <1>6. ASSUME NEW w \in Workers, DialOk(w) \/ WorkerStep(w)
        PROVE  SeedPeerInv'
    <2> USE DEF RegisteredInRound, SignalInRound
    <2>0. worker[w] \in WorkerType /\ RegisteredInRound(worker[w]) /\ SignalInRound(worker[w])
      BY <1>w
    <2>1. CASE DialOk(w)
      <3> DEFINE k == [worker[w] EXCEPT !.pc = "notify"]
      <3>1. worker' = [worker EXCEPT ![w] = k] /\ k \in WorkerType
        BY <2>0, <2>1 DEF DialOk, Step, WorkerType, Pcs
      <3>2. RegisteredInRound(k) /\ SignalInRound(k) /\ k.cancelled = worker[w].cancelled
        BY <2>0, <2>1 DEF DialOk, Step, WorkerType
      <3> QED BY <1>0, <2>0, <2>1, <3>1, <3>2, WorkerOnly DEF DialOk, Step, WorkerType
    <2>2. CASE Top(w)
      <3> DEFINE k == [worker[w] EXCEPT !.pc = IF Done(w) THEN "exit" ELSE "dial"]
      <3>1. worker' = [worker EXCEPT ![w] = k] /\ k \in WorkerType
        BY <2>0, <2>2 DEF Top, Step, WorkerType, Pcs
      <3>2. RegisteredInRound(k) /\ SignalInRound(k) /\ k.cancelled = worker[w].cancelled
        BY <2>0, <2>2 DEF Top, Step, WorkerType
      <3> QED BY <1>0, <2>0, <2>2, <3>1, <3>2, WorkerOnly DEF Top, Step, WorkerType
    <2>3. CASE DialCancelled(w)
      <3> DEFINE k == [worker[w] EXCEPT !.pc = "exit"]
      <3>1. worker' = [worker EXCEPT ![w] = k] /\ k \in WorkerType
        BY <2>0, <2>3 DEF DialCancelled, Step, WorkerType, Pcs
      <3>2. RegisteredInRound(k) /\ SignalInRound(k) /\ k.cancelled = worker[w].cancelled
        BY <2>0, <2>3 DEF DialCancelled, Step, WorkerType
      <3> QED BY <1>0, <2>0, <2>3, <3>1, <3>2, WorkerOnly DEF DialCancelled, Step, WorkerType
    <2>4. CASE Notify(w)
      <3> DEFINE k == [worker[w] EXCEPT !.pc = "store", !.registered = TRUE, !.once = FALSE]
      <3>1. worker' = [worker EXCEPT ![w] = k] /\ k \in WorkerType
        BY <2>0, <2>4 DEF Notify, WorkerType, Pcs
      <3>2. RegisteredInRound(k) /\ SignalInRound(k) /\ k.cancelled = worker[w].cancelled
        BY <2>0, <2>4 DEF Notify, WorkerType
      <3> QED BY <1>0, <2>0, <2>4, <3>1, <3>2, WorkerOnly DEF Notify, WorkerType
    <2>5. CASE StoreTrue(w)
      <3> DEFINE k == [worker[w] EXCEPT !.pc = "check"]
      <3>1. worker' = [worker EXCEPT ![w] = k] /\ k \in WorkerType
        BY <2>0, <2>5 DEF StoreTrue, Step, WorkerType, Pcs
      <3>2. RegisteredInRound(k) /\ SignalInRound(k) /\ k.cancelled = worker[w].cancelled
        BY <2>0, <2>5 DEF StoreTrue, Step, WorkerType
      <3> QED BY <1>0, <2>0, <2>5, <3>1, <3>2, WorkerOnly DEF StoreTrue, Step, WorkerType
    <2>6. CASE Check(w)
      <3> DEFINE j == IF conns = 0 THEN Signal(worker[w]) ELSE worker[w]
                 k == [j EXCEPT !.pc = "wait"]
      <3>1. worker' = [worker EXCEPT ![w] = k]
        BY <2>6 DEF Check
      <3>2. /\ k \in WorkerType /\ k.pc = "wait" /\ k.cancelled = worker[w].cancelled
            /\ RegisteredInRound(k) /\ SignalInRound(k)
        BY <2>0, <2>6 DEF Check, Signal, WorkerType, Pcs
      <3> HIDE DEF k
      <3> QED BY <1>0, <2>6, <3>1, <3>2, WorkerOnly DEF Check
    <2>7. CASE Wait(w)
      <3>1. CASE /\ worker[w].token
                 /\ worker' = [worker EXCEPT ![w] = [@ EXCEPT !.pc = "stop", !.token = FALSE]]
        <4> DEFINE k == [worker[w] EXCEPT !.pc = "stop", !.token = FALSE]
        <4>1. worker' = [worker EXCEPT ![w] = k]
          BY <3>1
        <4>2. /\ k \in WorkerType /\ k.pc = "stop" /\ k.cancelled = worker[w].cancelled
              /\ RegisteredInRound(k) /\ SignalInRound(k)
          BY <2>0, <2>7, <3>1 DEF Wait, WorkerType, Pcs
        <4> HIDE DEF k
        <4> QED BY <1>0, <2>7, <4>1, <4>2, WorkerOnly DEF Wait
      <3>2. CASE worker' = [worker EXCEPT ![w] = [@ EXCEPT !.pc = "stop", !.quit = TRUE]]
        <4> DEFINE k == [worker[w] EXCEPT !.pc = "stop", !.quit = TRUE]
        <4>1. worker' = [worker EXCEPT ![w] = k]
          BY <3>2
        <4>2. /\ k \in WorkerType /\ k.pc = "stop" /\ k.cancelled = worker[w].cancelled
              /\ RegisteredInRound(k) /\ SignalInRound(k)
          BY <2>0, <2>7, <3>2 DEF Wait, WorkerType, Pcs
        <4> HIDE DEF k
        <4> QED BY <1>0, <2>7, <4>1, <4>2, WorkerOnly DEF Wait
      <3> QED BY <2>7, <3>1, <3>2 DEF Wait
    <2>8. CASE StopNotify(w)
      <3> DEFINE k == [worker[w] EXCEPT !.pc = "down", !.registered = FALSE]
      <3>1. worker' = [worker EXCEPT ![w] = k] /\ k \in WorkerType
        BY <2>0, <2>8 DEF StopNotify, WorkerType, Pcs
      <3>2. RegisteredInRound(k) /\ SignalInRound(k) /\ k.cancelled = worker[w].cancelled
        BY <2>0, <2>8 DEF StopNotify, WorkerType
      <3> QED BY <1>0, <2>0, <2>8, <3>1, <3>2, WorkerOnly DEF StopNotify, WorkerType
    <2>9. CASE StoreFalse(w)
      <3> DEFINE k == [worker[w] EXCEPT !.pc = IF worker[w].quit THEN "exit" ELSE "top"]
      <3>1. worker' = [worker EXCEPT ![w] = k] /\ k \in WorkerType
        BY <2>0, <2>9 DEF StoreFalse, Step, WorkerType, Pcs
      <3>2. RegisteredInRound(k) /\ SignalInRound(k) /\ k.cancelled = worker[w].cancelled
        BY <2>0, <2>9 DEF StoreFalse, Step, WorkerType
      <3> QED BY <1>0, <2>0, <2>9, <3>1, <3>2, WorkerOnly DEF StoreFalse, Step, WorkerType
    <2>10. CASE Exit(w)
      <3>1. \A v \in Workers : worker'[v] = IF v = w THEN [worker[w] EXCEPT !.pc = "gone"] ELSE worker[v]
        BY <1>0, <2>10 DEF Exit, Step, TypeOK
      <3>2. RegisteredInRound(worker'[w]) /\ SignalInRound(worker'[w])
        BY <2>0, <2>10, <3>1 DEF Exit, Step, WorkerType
      <3>3. CancelIsCurrent'
        BY <2>10 DEF Exit, SeedPeerInv, CancelIsCurrent
      <3>4. worker[w].pc = "exit" /\ worker'[w].pc = "gone"
        BY <2>0, <2>10, <3>1 DEF Exit, Step, WorkerType
      <3>5. NoOrphan'
        <4>1. ASSUME NEW v \in Workers, v # w, Live(v)'
              PROVE  cancelOf' = v \/ \E d \in Callers : call'[d].held = v
          BY <2>10, <3>1, <4>1 DEF Exit, SeedPeerInv, CancelIsCurrent, NoOrphan, Live, Done
        <4> QED BY <3>4, <4>1 DEF NoOrphan, Live
      <3>6. FlagHasOwner'
        BY <2>10, <3>1, <3>4 DEF Exit, SeedPeerInv, FlagHasOwner
      <3>7. HeldUntilCancel'
        BY <2>10 DEF Exit, SeedPeerInv, HeldUntilCancel
      <3> QED BY <1>0, <1>w, <3>1, <3>2, <3>3, <3>5, <3>6, <3>7 DEF SeedPeerInv
    <2>11. CASE Gone(w)
      <3>1. RegisteredInRound(NoWorker) /\ SignalInRound(NoWorker) /\ NoWorker.pc = "none"
        BY DEF NoWorker
      <3> QED BY <1>0, <2>11, <3>1, Records, WorkerOnly DEF Gone
    <2> QED BY <1>6, <2>1, <2>2, <2>3, <2>4, <2>5, <2>6, <2>7, <2>8, <2>9, <2>10, <2>11
            DEF WorkerStep
  <1>7. CASE UNCHANGED vars
    BY <1>0, <1>7, NoWorkerStep DEF vars, SeedPeerInv, HeldUntilCancel
  <1> QED BY <1>1, <1>2, <1>3, <1>4, <1>5, <1>6, <1>7 DEF Next

\* The invariant holds in every reachable state.
LEMMA Invariance == Spec => []SeedPeerInv
  <1>1. ASSUME Init PROVE SeedPeerInv
    <2>1. TypeOK
      BY <1>1, Records DEF Init, TypeOK
    <2>2. \A w \in Workers : RegisteredInRound(worker[w]) /\ SignalInRound(worker[w])
      BY <1>1 DEF Init, NoWorker, RegisteredInRound, SignalInRound
    <2> QED BY <1>1, <2>1, <2>2
            DEF Init, NoWorker, NoCall, SeedPeerInv, HeldUntilCancel, CancelIsCurrent,
                NoOrphan, Live, FlagHasOwner
  <1> QED BY <1>1, Inductive, PTL DEF Spec

-----------------------------------------------------------------------------
(* What the seed peer worker guarantees.                                   *)

\* However calls of ConnectSeedPeer, DisconnectSeedPeer and Close overlap, and
\* however late a stopped worker ends, no worker is left that nothing can cancel.
THEOREM WorkersCanBeStopped == Spec => []NoOrphan
  <1>1. SeedPeerInv => NoOrphan
    BY DEF SeedPeerInv
  <1> QED BY <1>1, Invariance, PTL

\* The connected flag, which the health check reads, is up only while a worker
\* watches the connection: every way out of seedPeerWorker takes it back.
THEOREM FlagIsOwned == Spec => []FlagHasOwner
  <1>1. SeedPeerInv => FlagHasOwner
    BY DEF SeedPeerInv
  <1> QED BY <1>1, Invariance, PTL

\* No disconnect signal of one round of seedPeerWorker is left for the next, however
\* many notifications arrive late or twice.
THEOREM NoSignalLeaks == Spec => []TokenIsCurrent
  <1>1. SeedPeerInv => TokenIsCurrent
    BY DEF SeedPeerInv, SignalInRound, TokenIsCurrent
  <1> QED BY <1>1, Invariance, PTL
=============================================================================

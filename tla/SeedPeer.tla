------------------------------ MODULE SeedPeer ------------------------------
(***************************************************************************)
(* The seed peer worker of the IPFS node (internal/ipfs/node.go):          *)
(* ConnectSeedPeer starts it, DisconnectSeedPeer and Close cancel it and   *)
(* wait, and the worker keeps dialling the peer, registers for disconnect  *)
(* notifications, publishes seedPeerConnected and waits for the link to    *)
(* drop.  libp2p delivers a notification some time after the connection    *)
(* closed, to whoever is registered then.                                  *)
(*                                                                         *)
(* Calls may overlap: ConnectSeedPeer is possible while the worker that a  *)
(* DisconnectSeedPeer has cancelled is still on its way out, which is what *)
(* the worker IDs are for.  A worker slot is free again when its goroutine *)
(* has ended.                                                              *)
(***************************************************************************)
EXTENDS Naturals

CONSTANTS
  Workers,      \* bound: worker goroutines alive at once
  Callers,      \* bound: overlapping calls of DisconnectSeedPeer or Close
  MaxConns,     \* bound: connections to the seed peer at once
  MaxNotices,   \* bound: undelivered disconnect notifications
  None

ASSUME NoneAssumption == None \notin Workers

VARIABLES
  active,      \* seedPeerActive
  cancelOf,    \* seedPeerCancel: the worker it cancels, or None
  current,     \* seedPeerWorkerID: the latest worker started, or None
  connected,   \* seedPeerConnected
  worker,      \* worker[w]: a goroutine of seedPeerWorker
  closed,      \* the node's context is cancelled
  call,        \* call[d]: a DisconnectSeedPeer or a Close
  conns,       \* open connections to the seed peer
  notices      \* closed connections not yet notified

vars == <<active, cancelOf, current, connected, worker, closed, call, conns, notices>>

NoWorker == [pc |-> "none", cancelled |-> FALSE, token |-> FALSE,
             registered |-> FALSE, once |-> FALSE, quit |-> FALSE]
NoCall == [pc |-> "idle", kind |-> "disconnect", held |-> None]

\* NewNode before it starts the worker; the address is configured.
Init ==
  /\ active = FALSE /\ cancelOf = None /\ current = None
  /\ connected = FALSE
  /\ worker = [w \in Workers |-> NoWorker]
  /\ closed = FALSE
  /\ call = [d \in Callers |-> NoCall]
  /\ conns = 0 /\ notices = 0

\* ctx.Done() of a worker: its own cancel or the node's.
Done(w) == worker[w].cancelled \/ closed

\* seedPeerWg counts the goroutines.
Running == {w \in Workers : worker[w].pc # "none"}

-----------------------------------------------------------------------------
(* The network.                                                            *)

\* The peer dials this node.
LinkUp ==
  /\ ~closed /\ conns < MaxConns
  /\ conns' = conns + 1
  /\ UNCHANGED <<active, cancelOf, current, connected, worker, closed, call, notices>>

LinkDrop ==
  /\ conns > 0 /\ notices < MaxNotices
  /\ conns' = conns - 1
  /\ notices' = notices + 1
  /\ UNCHANGED <<active, cancelOf, current, connected, worker, closed, call>>

\* Mutant of Signal: the notification is not limited to one per round.
SignalAlways(k) == [k EXCEPT !.token = TRUE, !.once = TRUE]

\* notifyOnce.Do: put one token into the channel, which holds one.
Signal(k) == IF k.once THEN k ELSE [k EXCEPT !.token = TRUE, !.once = TRUE]

\* DisconnectedF runs for every registered bundle.
Deliver ==
  /\ notices > 0
  /\ notices' = notices - 1
  /\ worker' = [w \in Workers |-> IF worker[w].registered THEN Signal(worker[w]) ELSE worker[w]]
  /\ UNCHANGED <<active, cancelOf, current, connected, closed, call, conns>>

-----------------------------------------------------------------------------
(* ConnectSeedPeer: one locked section.  If no ID can be generated it      *)
(* restores the fields, which is no step.                                  *)

Connect ==
  /\ ~active
  /\ \E w \in Workers :
       /\ worker[w].pc = "none"
       /\ worker' = [worker EXCEPT ![w].pc = "top"]
       /\ cancelOf' = w /\ current' = w
  /\ active' = TRUE
  /\ UNCHANGED <<connected, closed, call, conns, notices>>

-----------------------------------------------------------------------------
(* DisconnectSeedPeer and Close.                                           *)

\* The locked section: take the cancel function.
DisconnectLock(d) ==
  /\ call[d].pc = "idle"
  /\ \E k \in {"disconnect", "close"} :
       call' = [call EXCEPT ![d] = [pc |-> "cancel", kind |-> k, held |-> cancelOf]]
  /\ cancelOf' = None
  /\ active' = FALSE
  /\ UNCHANGED <<current, connected, worker, closed, conns, notices>>

\* cancel(): of a worker that may have ended meanwhile.
DisconnectCancel(d) ==
  /\ call[d].pc = "cancel"
  /\ call' = [call EXCEPT ![d] = [@ EXCEPT !.pc = "wait", !.held = None]]
  /\ worker' = [w \in Workers |->
                  IF w = call[d].held /\ worker[w].pc # "none"
                    THEN [worker[w] EXCEPT !.cancelled = TRUE] ELSE worker[w]]
  /\ UNCHANGED <<active, cancelOf, current, connected, closed, conns, notices>>

\* seedPeerWg.Wait returns; Close goes on to cancel the node's context and to
\* close the host, which drops every connection.
DisconnectReturn(d) ==
  /\ call[d].pc = "wait"
  /\ Running = {}
  /\ call' = [call EXCEPT ![d].pc = IF call[d].kind = "close" THEN "close" ELSE "returned"]
  /\ UNCHANGED <<active, cancelOf, current, connected, worker, closed, conns, notices>>

CloseNode(d) ==
  /\ call[d].pc = "close"
  /\ closed' = TRUE
  /\ conns' = 0
  /\ call' = [call EXCEPT ![d].pc = "returned"]
  /\ UNCHANGED <<active, cancelOf, current, connected, worker, notices>>

\* The caller is free to call again.
Again(d) ==
  /\ call[d].pc = "returned"
  /\ call' = [call EXCEPT ![d] = NoCall]
  /\ UNCHANGED <<active, cancelOf, current, connected, worker, closed, conns, notices>>

CallStep(d) ==
  DisconnectCancel(d) \/ DisconnectReturn(d) \/ CloseNode(d)

-----------------------------------------------------------------------------
(* seedPeerWorker.                                                         *)

Step(w, from, to) ==
  /\ worker[w].pc = from
  /\ worker' = [worker EXCEPT ![w].pc = to]

\* The head of the loop, after the reconnect delay from the second round on.
Top(w) ==
  /\ Step(w, "top", IF Done(w) THEN "exit" ELSE "dial")
  /\ UNCHANGED <<active, cancelOf, current, connected, closed, call, conns, notices>>

\* connectSeedPeerWithRetry succeeds: Host.Connect reuses an open connection, whether
\* or not the context has ended.  A failed attempt changes nothing, and attempts are
\* unlimited.
DialOk(w) ==
  /\ ~closed
  /\ Step(w, "dial", "notify")
  /\ conns' = IF conns = 0 THEN 1 ELSE conns
  /\ UNCHANGED <<active, cancelOf, current, connected, closed, call, notices>>

\* It gives up only when the context ends.
DialCancelled(w) ==
  /\ Done(w)
  /\ Step(w, "dial", "exit")
  /\ UNCHANGED <<active, cancelOf, current, connected, closed, call, conns, notices>>

\* A new notifyOnce, and Notify.
Notify(w) ==
  /\ worker[w].pc = "notify"
  /\ worker' = [worker EXCEPT ![w] = [@ EXCEPT !.pc = "store", !.registered = TRUE, !.once = FALSE]]
  /\ UNCHANGED <<active, cancelOf, current, connected, closed, call, conns, notices>>

StoreTrue(w) ==
  /\ Step(w, "store", "check")
  /\ connected' = TRUE
  /\ UNCHANGED <<active, cancelOf, current, closed, call, conns, notices>>

\* Mutant of Check: a disconnect before the registration is not looked for.
CheckNothing(w) ==
  /\ Step(w, "check", "wait")
  /\ UNCHANGED <<active, cancelOf, current, connected, closed, call, conns, notices>>

\* isConnectedTo.
Check(w) ==
  /\ worker[w].pc = "check"
  /\ LET k == IF conns = 0 THEN Signal(worker[w]) ELSE worker[w] IN
       worker' = [worker EXCEPT ![w] = [k EXCEPT !.pc = "wait"]]
  /\ UNCHANGED <<active, cancelOf, current, connected, closed, call, conns, notices>>

\* Mutant of Wait: only the disconnect ends it.
WaitToken(w) ==
  /\ worker[w].pc = "wait"
  /\ worker[w].token
  /\ worker' = [worker EXCEPT ![w] = [@ EXCEPT !.pc = "stop", !.token = FALSE]]
  /\ UNCHANGED <<active, cancelOf, current, connected, closed, call, conns, notices>>

\* The select on ctx.Done() and disconnected: either, when both are ready.
Wait(w) ==
  /\ worker[w].pc = "wait"
  /\ \/ /\ worker[w].token
        /\ worker' = [worker EXCEPT ![w] = [@ EXCEPT !.pc = "stop", !.token = FALSE]]
     \/ /\ Done(w)
        /\ worker' = [worker EXCEPT ![w] = [@ EXCEPT !.pc = "stop", !.quit = TRUE]]
  /\ UNCHANGED <<active, cancelOf, current, connected, closed, call, conns, notices>>

StopNotify(w) ==
  /\ worker[w].pc = "stop"
  /\ worker' = [worker EXCEPT ![w] = [@ EXCEPT !.pc = "down", !.registered = FALSE]]
  /\ UNCHANGED <<active, cancelOf, current, connected, closed, call, conns, notices>>

\* Mutant of StoreFalse: a cancelled worker leaves the flag.
StoreFalseOnDrop(w) ==
  /\ Step(w, "down", IF worker[w].quit THEN "exit" ELSE "top")
  /\ connected' = (connected /\ worker[w].quit)
  /\ UNCHANGED <<active, cancelOf, current, closed, call, conns, notices>>

StoreFalse(w) ==
  /\ Step(w, "down", IF worker[w].quit THEN "exit" ELSE "top")
  /\ connected' = FALSE
  /\ UNCHANGED <<active, cancelOf, current, closed, call, conns, notices>>

\* Mutant of Exit: the worker clears the fields whoever they belong to.
ExitAny(w) ==
  /\ Step(w, "exit", "gone")
  /\ active' = FALSE /\ cancelOf' = None
  /\ UNCHANGED <<current, connected, closed, call, conns, notices>>

\* The deferred locked section.
Exit(w) ==
  /\ Step(w, "exit", "gone")
  /\ IF current = w
       THEN active' = FALSE /\ cancelOf' = None
       ELSE UNCHANGED <<active, cancelOf>>
  /\ UNCHANGED <<current, connected, closed, call, conns, notices>>

\* seedPeerWg.Done.
Gone(w) ==
  /\ worker[w].pc = "gone"
  /\ worker' = [worker EXCEPT ![w] = NoWorker]
  /\ UNCHANGED <<active, cancelOf, current, connected, closed, call, conns, notices>>

WorkerStep(w) ==
  \/ Top(w) \/ DialCancelled(w) \/ Notify(w) \/ StoreTrue(w) \/ Check(w)
  \/ Wait(w) \/ StopNotify(w) \/ StoreFalse(w) \/ Exit(w) \/ Gone(w)

-----------------------------------------------------------------------------
Next ==
  \/ LinkUp \/ LinkDrop \/ Deliver
  \/ Connect
  \/ \E d \in Callers : DisconnectLock(d) \/ CallStep(d) \/ Again(d)
  \/ \E w \in Workers : DialOk(w) \/ WorkerStep(w)

\* Goroutines run, notifications are delivered, and an attempt that is repeated for
\* ever succeeds some time: the seed peer is not gone for good.
Fairness ==
  /\ WF_vars(Deliver)
  /\ \A d \in Callers : WF_vars(CallStep(d))
  /\ \A w \in Workers : WF_vars(WorkerStep(w)) /\ SF_vars(DialOk(w))

Spec == Init /\ [][Next]_vars /\ Fairness

-----------------------------------------------------------------------------
(* Properties.                                                             *)

\* A worker that nobody has stopped and that is not ending by itself.
Live(w) == worker[w].pc \notin {"none", "exit", "gone"} /\ ~Done(w)

\* No worker is orphaned: each one that has not been stopped can be, through
\* seedPeerCancel or by the DisconnectSeedPeer that took its cancel function.  A
\* predecessor that ends late must not clear the fields of its successor: the next
\* DisconnectSeedPeer would wait for a worker that nothing cancels.
NoOrphan ==
  \A w \in Workers : Live(w) => cancelOf = w \/ \E d \in Callers : call[d].held = w

\* SeedPeerConnected answers yes only while some worker watches the connection: no
\* way out of the worker leaves the flag behind.
FlagHasOwner == connected => \E w \in Workers : worker[w].pc \in {"check", "wait", "stop", "down"}

\* A disconnect signal belongs to the round it was sent in: a token left in the
\* channel would make the next round give up a connection that is up.
TokenIsCurrent ==
  \A w \in Workers : worker[w].pc \in {"top", "dial", "notify"} => ~worker[w].token

\* A worker that is not stopped gets the link back: no drop of the connection,
\* before, during or after the registration, leaves it waiting for ever.
Reconnects ==
  \A w \in Workers : (Live(w) /\ conns = 0) ~> (conns > 0 \/ ~Live(w))

\* DisconnectSeedPeer and Close return, unless ConnectSeedPeer is called meanwhile.
DisconnectReturns ==
  \A d \in Callers : (call[d].pc = "wait") ~> (call[d].pc # "wait" \/ active)
=============================================================================

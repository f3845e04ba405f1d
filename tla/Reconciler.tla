----------------------------- MODULE Reconciler -----------------------------
(***************************************************************************)
(* The SSE reconciler (internal/sitewatch/reconciler.go) with the cursor   *)
(* store it resumes from (internal/cache/sse_cursor.go), the realtime      *)
(* event handler of cmd/gateway/main.go and, as environment, the portal's  *)
(* durable journal of website changes.                                     *)
(*                                                                         *)
(* A change is identified by its position in the journal.  A run of        *)
(* Reconciler.run is a goroutine of its own, identified by the generation  *)
(* it was launched for, so that nothing in the state prevents two of them  *)
(* from existing at once.                                                  *)
(***************************************************************************)
EXTENDS Naturals, Sequences

CONSTANTS
  Kinds,              \* the kinds of change the portal journals
  MaxJournal,         \* bound: changes the portal ever journals
  MaxGeneration,      \* bound: connection sessions of one process
  MaxReconcilePages,  \* Reconciler.maxReconcilePages
  UseRedis,           \* TRUE: the cursor survives a restart
  PortalMayStall      \* TRUE: a truncated page need not advance the mark

\* Every kind of change: the two event types, a publish whose CID is missing,
\* and a type this gateway does not know.
AllKinds == {"published", "publishedNoCid", "removed", "unknown"}

ASSUME KindsAssumption == Kinds \subseteq AllKinds
ASSUME BoundsAssumption == /\ MaxJournal \in Nat
                           /\ MaxGeneration \in Nat
                           /\ MaxReconcilePages \in Nat
ASSUME FlagsAssumption == UseRedis \in BOOLEAN /\ PortalMayStall \in BOOLEAN

VARIABLES
  journal,      \* the portal's journal, oldest change first
  cursor,       \* the stored high-water mark (Redis key, or SSECursorStore.mem)
  connected, ready, running, pending, generation,   \* Reconciler's fields
  run,          \* run[g]: the goroutine run(g) and its local variables
  invalidated,  \* changes whose domain was invalidated since they happened
  submitted,    \* changes whose CID was submitted for prewarm
  mark,         \* history: length of the journal when this session connected
  failed        \* history: sessions whose run returned an error

flags == <<connected, ready, running, pending, generation>>
effects == <<invalidated, submitted>>
history == <<mark, failed>>
vars == <<journal, cursor, flags, run, effects, history>>

Generations == 1..MaxGeneration

\* A run that does not exist (not launched, or returned), and a launched one.
NoRun == [pc |-> "none", after |-> 0, page |-> 1, next |-> 0,
          truncated |-> FALSE, applied |-> 0]
NewRun == [NoRun EXCEPT !.pc = "start"]

\* The goroutines that exist.
Live == {g \in Generations : run[g].pc # "none"}

Init ==
  /\ journal = <<>>
  /\ cursor = 0
  /\ connected = FALSE /\ ready = FALSE
  /\ running = FALSE /\ pending = FALSE
  /\ generation = 0
  /\ run = [g \in Generations |-> NoRun]
  /\ invalidated = {} /\ submitted = {}
  /\ mark = 0
  /\ failed = {}

-----------------------------------------------------------------------------
(* The effect of a change, replayed or delivered in real time.             *)

\* statusCache.Invalidate(domain): every known change.
Invalidates(kind) == kind \in {"published", "publishedNoCid", "removed"}
\* prewarm(domain, cid): a publish that carries a CID.
Submits(kind) == kind = "published"

\* apply(ev): what replaying change e does.
Apply(e) ==
  /\ invalidated' = IF Invalidates(journal[e]) THEN invalidated \cup {e} ELSE invalidated
  /\ submitted' = IF Submits(journal[e]) THEN submitted \cup {e} ELSE submitted

-----------------------------------------------------------------------------
(* The portal and the stream.                                              *)

\* A website is published or removed: the portal journals the change.
PortalChange ==
  /\ Len(journal) < MaxJournal
  /\ \E k \in Kinds : journal' = Append(journal, k)
  /\ UNCHANGED <<cursor, flags, run, effects, history>>

\* The stream delivers a change of this session to the handler in main.go. It
\* may deliver it again, or lose it when the connection drops.
RealtimeEvent ==
  /\ connected
  /\ \E e \in (mark + 1)..Len(journal) : Apply(e)
  /\ UNCHANGED <<journal, cursor, flags, run, history>>

\* A page of the journal after position a: some of the changes that follow it,
\* truncated when others are left.  A stalled portal asks for one more page
\* without advancing its mark (stuckHWMAPI in reconciler_test.go).
Pages(a) ==
  (IF a < Len(journal)
   THEN {[next |-> n, truncated |-> n < Len(journal)] : n \in (a + 1)..Len(journal)}
   ELSE {[next |-> Len(journal), truncated |-> FALSE]})
  \cup
  (IF PortalMayStall THEN {[next |-> n, truncated |-> TRUE] : n \in 0..a} ELSE {})

-----------------------------------------------------------------------------
(* OnConnect: the connection-state callback of the SSE client.             *)

\* Mutant of Disconnect: ready outlives the connection.
DisconnectKeepsReady ==
  /\ connected' = FALSE
  /\ UNCHANGED <<journal, cursor, ready, running, pending, generation, run, effects, history>>

\* OnConnect(false).
Disconnect ==
  /\ connected' = FALSE
  /\ ready' = FALSE
  /\ UNCHANGED <<journal, cursor, running, pending, generation, run, effects, history>>

\* OnConnect(true) while connected: the telemetry poller repeats the report.
RepeatConnect ==
  /\ connected
  /\ UNCHANGED vars

\* Mutant of Connect: launches a run without looking at running.
ConnectWithoutQueue ==
  /\ ~connected
  /\ generation < MaxGeneration
  /\ connected' = TRUE /\ ready' = FALSE /\ running' = TRUE
  /\ generation' = generation + 1
  /\ mark' = Len(journal)
  /\ run' = [run EXCEPT ![generation + 1] = NewRun]
  /\ UNCHANGED <<journal, cursor, pending, effects, failed>>

\* OnConnect(true), disconnected -> connected: a new session, with a run of its
\* own unless one is still draining.
Connect ==
  /\ ~connected
  /\ generation < MaxGeneration
  /\ connected' = TRUE
  /\ ready' = FALSE
  /\ generation' = generation + 1
  /\ mark' = Len(journal)
  /\ IF running
       THEN /\ pending' = TRUE
            /\ UNCHANGED <<running, run>>
       ELSE /\ running' = TRUE
            /\ run' = [run EXCEPT ![generation + 1] = NewRun]
            /\ UNCHANGED pending
  /\ UNCHANGED <<journal, cursor, effects, failed>>

-----------------------------------------------------------------------------
(* One run: reconcile, then the locked section of run.                     *)

\* SSECursorStore.Get: what a load may yield.  A failed one (Redis only) yields 0.
CursorGet == IF UseRedis THEN {cursor, 0} ELSE {cursor}

\* SSECursorStore.Set: what the store may hold afterwards.  A failed write (Redis
\* only) may have reached Redis all the same.
CursorSet(n) == IF UseRedis THEN {cursor, n} ELSE {n}

\* A failed load starts from the retained window.
LoadCursor(g) ==
  /\ run[g].pc = "start"
  /\ \E a \in CursorGet :
       run' = [run EXCEPT ![g].pc = "page", ![g].after = a]
  /\ UNCHANGED <<journal, cursor, flags, effects, history>>

\* Mutant of FetchPage: no page cap.
FetchPageUncapped(g) ==
  /\ run[g].pc = "page"
  /\ \E p \in Pages(run[g].after) :
       run' = [run EXCEPT ![g].pc = "apply", ![g].next = p.next,
                          ![g].truncated = p.truncated, ![g].applied = run[g].after]
  /\ UNCHANGED <<journal, cursor, flags, effects, history>>

\* Mutant of FetchPage: the cursor is stored before the page is applied.
FetchPageAndSave(g) ==
  /\ run[g].pc = "page"
  /\ run[g].page <= MaxReconcilePages
  /\ \E p \in Pages(run[g].after) :
       /\ cursor' = p.next
       /\ run' = [run EXCEPT ![g].pc = "apply", ![g].next = p.next,
                             ![g].truncated = p.truncated, ![g].applied = run[g].after]
  /\ UNCHANGED <<journal, flags, effects, history>>

\* ReconcileWebsiteChanges(after) answers with a page.
FetchPage(g) ==
  /\ run[g].pc = "page"
  /\ run[g].page <= MaxReconcilePages
  /\ \E p \in Pages(run[g].after) :
       run' = [run EXCEPT ![g].pc = "apply", ![g].next = p.next,
                          ![g].truncated = p.truncated, ![g].applied = run[g].after]
  /\ UNCHANGED <<journal, cursor, flags, effects, history>>

\* The context ended, the page cap is exceeded, or the request failed or timed
\* out: reconcile returns an error.
FetchFails(g) ==
  /\ run[g].pc = "page"
  /\ run' = [run EXCEPT ![g].pc = "error"]
  /\ UNCHANGED <<journal, cursor, flags, effects, history>>

\* The event loop applies the next change of the page.
ApplyEvent(g) ==
  /\ run[g].pc = "apply"
  /\ run[g].applied < run[g].next
  /\ Apply(run[g].applied + 1)
  /\ run' = [run EXCEPT ![g].applied = @ + 1]
  /\ UNCHANGED <<journal, cursor, flags, history>>

\* The stop test of the page loop: drained, or the mark failed to advance.
LastPage(r) == ~r.truncated \/ r.next <= r.after

\* cursor.Set(next), whose failure is only logged, then the stop test.
SaveCursor(g) ==
  /\ run[g].pc = "apply"
  /\ run[g].applied >= run[g].next
  /\ cursor' \in CursorSet(run[g].next)
  /\ run' = IF LastPage(run[g])
             THEN [run EXCEPT ![g].pc = "ok", ![g].after = run[g].next]
             ELSE [run EXCEPT ![g].pc = "page", ![g].after = run[g].next,
                              ![g].page = run[g].page + 1]
  /\ UNCHANGED <<journal, flags, effects, history>>

\* Mutant of Finish: any successful run of a connected reconciler sets ready.
FinishAnySession(g) ==
  /\ run[g].pc \in {"ok", "error"}
  /\ ready' = (ready \/ (run[g].pc = "ok" /\ connected))
  /\ IF pending
       THEN /\ pending' = FALSE
            /\ run' = [run EXCEPT ![g] = NoRun, ![generation] = NewRun]
            /\ UNCHANGED running
       ELSE /\ running' = FALSE
            /\ run' = [run EXCEPT ![g] = NoRun]
            /\ UNCHANGED pending
  /\ failed' = IF run[g].pc = "error" THEN failed \cup {g} ELSE failed
  /\ UNCHANGED <<journal, cursor, connected, generation, effects, mark>>

\* Mutant of Finish: the queued session is dropped.
FinishDropsPending(g) ==
  /\ run[g].pc \in {"ok", "error"}
  /\ ready' = (ready \/ (run[g].pc = "ok" /\ connected /\ generation = g))
  /\ pending' = FALSE /\ running' = FALSE
  /\ run' = [run EXCEPT ![g] = NoRun]
  /\ failed' = IF run[g].pc = "error" THEN failed \cup {g} ELSE failed
  /\ UNCHANGED <<journal, cursor, connected, generation, effects, mark>>

\* The locked section of run(g): ready only for the current, connected session;
\* a session that connected meanwhile is reconciled by a new goroutine.
Finish(g) ==
  /\ run[g].pc \in {"ok", "error"}
  /\ ready' = (ready \/ (run[g].pc = "ok" /\ connected /\ generation = g))
  /\ IF pending
       THEN /\ pending' = FALSE
            /\ run' = [run EXCEPT ![g] = NoRun, ![generation] = NewRun]
            /\ UNCHANGED running
       ELSE /\ running' = FALSE
            /\ run' = [run EXCEPT ![g] = NoRun]
            /\ UNCHANGED pending
  /\ failed' = IF run[g].pc = "error" THEN failed \cup {g} ELSE failed
  /\ UNCHANGED <<journal, cursor, connected, generation, effects, mark>>

RunStep(g) ==
  \/ LoadCursor(g)
  \/ FetchPage(g)
  \/ FetchFails(g)
  \/ ApplyEvent(g)
  \/ SaveCursor(g)
  \/ Finish(g)

-----------------------------------------------------------------------------
\* The process stops at any point and starts again: the Reconciler is new, the
\* cursor is what Redis holds, or 0 when it lived in memory.
Restart ==
  /\ cursor' = IF UseRedis THEN cursor ELSE 0
  /\ connected' = FALSE /\ ready' = FALSE
  /\ running' = FALSE /\ pending' = FALSE
  /\ generation' = 0
  /\ run' = [g \in Generations |-> NoRun]
  /\ mark' = 0
  /\ failed' = {}
  /\ UNCHANGED <<journal, effects>>

Next ==
  \/ PortalChange
  \/ RealtimeEvent
  \/ Disconnect
  \/ RepeatConnect
  \/ Connect
  \/ \E g \in Generations : RunStep(g)
  \/ Restart

\* Every blocking call of a run is bounded by requestTimeout or
\* reconcileTimeout, so a run always takes its next step.  Nothing else is fair.
Fairness == \A g \in Generations : WF_vars(RunStep(g))

Spec == Init /\ [][Next]_vars /\ Fairness

-----------------------------------------------------------------------------
(* Properties.                                                             *)

PCs == {"none", "start", "page", "apply", "ok", "error"}

RunType ==
  [pc : PCs, after : Nat, page : 1..(MaxReconcilePages + 1), next : Nat,
   truncated : BOOLEAN, applied : Nat]

\* Every variable has its type, and no run handles a page beyond
\* maxReconcilePages, however the portal pages its journal.
TypeOK ==
  /\ journal \in Seq(Kinds)
  /\ cursor \in Nat
  /\ connected \in BOOLEAN /\ ready \in BOOLEAN
  /\ running \in BOOLEAN /\ pending \in BOOLEAN
  /\ generation \in 0..MaxGeneration
  /\ run \in [Generations -> RunType]
  /\ \A g \in Generations :
       run[g].pc = "apply" => run[g].page <= MaxReconcilePages
  /\ invalidated \subseteq Nat /\ submitted \subseteq Nat
  /\ mark \in Nat
  /\ failed \subseteq Generations

\* Change e has had its whole effect on the gateway.
Replayed(e) ==
  /\ Invalidates(journal[e]) => e \in invalidated
  /\ Submits(journal[e]) => e \in submitted

\* The first n changes of the journal have.
CaughtUpTo(n) ==
  /\ n <= Len(journal)
  /\ \A e \in 1..n : Replayed(e)

\* Only one run executes at a time, whatever the order of disconnects,
\* reconnects and completions, and running says whether there is one.
OneRunAtATime ==
  /\ \A g, h \in Live : g = h
  /\ running <=> Live # {}

\* Ready promises that every change journaled before this connection session
\* began has been applied: a run of an earlier session cannot promise it.
ReadyMeansCaughtUp == ready => connected /\ CaughtUpTo(mark)

\* The stored cursor never passes a change that has not been applied, so that a
\* crash anywhere in a run, or a lost cursor write, replays and never skips.
CursorBehindEffects == CaughtUpTo(cursor)

\* No session is forgotten: while connected and not ready, the session's own run
\* failed, or is executing, or is queued behind the run that is.
NoSessionForgotten ==
  connected /\ ~ready =>
    \/ generation \in failed
    \/ generation \in Live
    \/ pending /\ running

\* A session that stays connected and whose run does not fail becomes ready.
EventuallyReady ==
  <>[](connected /\ generation \notin failed) => <>[]ready

\* "so a gap cannot lose a deployment": the changes missed before a session that
\* stays connected are replayed.
GapLosesNothing ==
  \A e \in 1..MaxJournal :
    <>[](connected /\ e <= mark) => <>(e <= Len(journal) /\ Replayed(e))

\* The abstract reconciler, with the changes that have had their whole effect for
\* done and the stored cursor for the saved position.
Abstract == INSTANCE Replay WITH
  last <- Len(journal),
  done <- {e \in 1..Len(journal) : Replayed(e)},
  saved <- cursor

\* Runs, pages, the queued session and lost cursor writes implement the abstract
\* replay: every step is one of its steps or none, so that whoever uses Ready and
\* the effects may rely on Replay alone.
ImplementsReplay == Abstract!Spec

-----------------------------------------------------------------------------
(* The inductive invariant behind the safety properties.                   *)

\* What a live run knows.  The last two conjuncts are about the current session's
\* run and a portal whose truncated pages advance: a page that is not truncated
\* reaches at least the mark at which the session began.
RunKnows(g) ==
  run[g].pc # "none" =>
    /\ g <= generation
    /\ CaughtUpTo(run[g].after)
    /\ run[g].pc = "apply" => run[g].next <= Len(journal) /\ CaughtUpTo(run[g].applied)
    /\ (~PortalMayStall /\ g = generation) =>
         /\ run[g].pc = "apply" /\ ~run[g].truncated => run[g].next >= mark
         /\ run[g].pc = "apply" /\ run[g].truncated => run[g].next > run[g].after
         /\ run[g].pc = "ok" => run[g].after >= mark

IndInv ==
  /\ TypeOK
  /\ OneRunAtATime
  /\ pending => running
  /\ CursorBehindEffects
  /\ NoSessionForgotten
  /\ mark <= Len(journal)
  /\ ready => connected
  /\ ~PortalMayStall => ReadyMeansCaughtUp
  /\ \A g \in Generations : RunKnows(g)
=============================================================================

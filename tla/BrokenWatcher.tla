--------------------------- MODULE BrokenWatcher ---------------------------
(***************************************************************************)
(* The broken-site watcher (internal/sitewatch/broken_watcher.go): the set *)
(* of domains served as broken, the loop that polls them while the SSE     *)
(* stream is down and forgets them once it is back, and Stop.              *)
(*                                                                         *)
(* Requests call MarkBroken from their own goroutines; the loop takes the  *)
(* watcher's lock once per step below, and calls the portal between two of *)
(* them.  The stream and Reconciler.Ready change at any time.              *)
(***************************************************************************)
EXTENDS Naturals

CONSTANTS
  Domains,
  NoDomain,             \* not a domain: no poll is in progress
  DeletedConfirmCount,  \* consecutive 404s that confirm a deletion
  MaxCallbacks          \* bound: onRecover callbacks of one domain in flight

ASSUME NoDomainAssumption == NoDomain \notin Domains
ASSUME ConfirmAssumption == DeletedConfirmCount \in Nat /\ DeletedConfirmCount > 0
ASSUME CallbacksAssumption == MaxCallbacks \in Nat /\ MaxCallbacks > 0

VARIABLES
  connected, ready,   \* conn.IsConnected() and reconcileReady()
  site,               \* site[d]: what the portal knows of d
  broken, notFound,   \* the watch set and the 404 streaks
  pc, todo, cur, answer,   \* the loop: domains left to poll, the one being polled
  callbacks,          \* callbacks[d]: onRecover goroutines running
  stop,               \* "no", "closed" (done is closed), "waited" (for one of the
                      \* two groups), "returned"
  streak              \* history: consecutive 404s the polls of d really met

watch == <<broken, notFound>>
loop == <<pc, todo, cur, answer>>
env == <<connected, ready, site>>
vars == <<env, watch, loop, callbacks, stop, streak>>

SiteStates == {"active", "broken", "deleted"}

Init ==
  /\ connected = FALSE /\ ready = FALSE
  /\ site \in [Domains -> SiteStates]
  /\ broken = {}
  /\ notFound = [d \in Domains |-> 0]
  /\ pc = "select" /\ todo = {} /\ cur = NoDomain /\ answer = "none"
  /\ callbacks = [d \in Domains |-> 0]
  /\ stop = "no"
  /\ streak = [d \in Domains |-> 0]

-----------------------------------------------------------------------------
(* The environment.                                                        *)

\* The stream disconnects or reconnects.  A reconcile that completes sets ready;
\* a disconnect clears it.
StreamUp ==
  /\ ~connected
  /\ connected' = TRUE
  /\ UNCHANGED <<ready, site, watch, loop, callbacks, stop, streak>>

StreamDown ==
  /\ connected
  /\ connected' = FALSE /\ ready' = FALSE
  /\ UNCHANGED <<site, watch, loop, callbacks, stop, streak>>

\* The session's reconcile completes.
Reconciled ==
  /\ connected /\ ~ready
  /\ ready' = TRUE
  /\ UNCHANGED <<connected, site, watch, loop, callbacks, stop, streak>>

SiteChange ==
  /\ \E d \in Domains, s \in SiteStates : site' = [site EXCEPT ![d] = s]
  /\ UNCHANGED <<connected, ready, watch, loop, callbacks, stop, streak>>

-----------------------------------------------------------------------------
\* MarkBroken(d), from a request answered with 410.
MarkBroken(d) ==
  /\ broken' = broken \cup {d}
  /\ UNCHANGED <<env, notFound, loop, callbacks, stop, streak>>

-----------------------------------------------------------------------------
(* The loop.                                                               *)

Goto(label) == pc' = label /\ UNCHANGED <<todo, cur, answer>>

\* The ticker fires: ask the stream whether it is connected.
TickConnected ==
  /\ pc = "select" /\ connected
  /\ Goto("ready")
  /\ UNCHANGED <<env, watch, callbacks, stop, streak>>

TickDisconnected ==
  /\ pc = "select" /\ ~connected
  /\ Goto("snapshot")
  /\ UNCHANGED <<env, watch, callbacks, stop, streak>>

\* Mutant of LoopExit: the watch set is emptied first.
LoopExitDrained ==
  /\ pc = "select" /\ stop # "no" /\ broken = {}
  /\ Goto("exit")
  /\ UNCHANGED <<env, watch, callbacks, stop, streak>>

\* done is closed.
LoopExit ==
  /\ pc = "select" /\ stop # "no"
  /\ Goto("exit")
  /\ UNCHANGED <<env, watch, callbacks, stop, streak>>

\* Mutant of AskReady: the connection alone is enough.
AskNothing ==
  /\ pc = "ready"
  /\ Goto("clear")
  /\ UNCHANGED <<env, watch, callbacks, stop, streak>>

\* reconcileReady().
AskReady ==
  /\ pc = "ready"
  /\ Goto(IF ready THEN "clear" ELSE "select")
  /\ UNCHANGED <<env, watch, callbacks, stop, streak>>

\* clear().
Clear ==
  /\ pc = "clear"
  /\ broken' = {}
  /\ notFound' = [d \in Domains |-> 0]
  /\ Goto("select")
  /\ UNCHANGED <<env, callbacks, stop, streak>>

\* poll(): copy the watch set.
Snapshot ==
  /\ pc = "snapshot"
  /\ todo' = broken
  /\ pc' = "poll"
  /\ UNCHANGED <<cur, answer, env, watch, callbacks, stop, streak>>

\* What GetWebsite may answer for d: an error other than 404 at any time.
Answers(d) ==
  CASE site[d] = "active" -> {"active", "error"}
    [] site[d] = "broken" -> {"broken", "error"}
    [] site[d] = "deleted" -> {"notFound", "error"}

\* GetWebsite of the next domain.
PollNext ==
  /\ pc = "poll" /\ todo # {}
  /\ \E d \in todo : \E a \in Answers(d) :
       /\ cur' = d
       /\ todo' = todo \ {d}
       /\ answer' = a
       /\ pc' = IF a = "notFound" THEN "confirm" ELSE "reset"
       /\ streak' = [streak EXCEPT ![d] =
                       IF a # "notFound" THEN 0
                       ELSE IF @ < DeletedConfirmCount THEN @ + 1 ELSE @]
  /\ UNCHANGED <<env, watch, callbacks, stop>>

PollDone ==
  /\ pc = "poll" /\ todo = {}
  /\ pc' = "select" /\ cur' = NoDomain /\ answer' = "none"
  /\ UNCHANGED <<todo, env, watch, callbacks, stop, streak>>

\* confirmNotFound(domain).
ConfirmNotFound ==
  /\ pc = "confirm"
  /\ notFound' = [notFound EXCEPT ![cur] = @ + 1]
  /\ Goto(IF notFound[cur] + 1 >= DeletedConfirmCount THEN "drop" ELSE "poll")
  /\ UNCHANGED <<env, broken, callbacks, stop, streak>>

\* The deletion is confirmed: forget the domain and its streak.
DropDeleted ==
  /\ pc = "drop"
  /\ broken' = broken \ {cur}
  /\ notFound' = [notFound EXCEPT ![cur] = 0]
  /\ streak' = [streak EXCEPT ![cur] = 0]
  /\ Goto("poll")
  /\ UNCHANGED <<env, callbacks, stop>>

\* Mutant of ResetNotFound: a failed poll ends the round.
ResetEndsRound ==
  /\ pc = "reset"
  /\ notFound' = [notFound EXCEPT ![cur] = 0]
  /\ IF answer = "error"
       THEN todo' = {} /\ pc' = "poll" /\ UNCHANGED <<cur, answer>>
       ELSE Goto(IF answer = "active" THEN "recover" ELSE "poll")
  /\ UNCHANGED <<env, broken, callbacks, stop, streak>>

\* Mutant of ResetNotFound: only a response resets the streak.
ResetOnResponse ==
  /\ pc = "reset"
  /\ notFound' = IF answer = "error" THEN notFound ELSE [notFound EXCEPT ![cur] = 0]
  /\ Goto(IF answer = "active" THEN "recover" ELSE "poll")
  /\ UNCHANGED <<env, broken, callbacks, stop, streak>>

\* resetNotFound(domain): any outcome but 404.
ResetNotFound ==
  /\ pc = "reset"
  /\ notFound' = [notFound EXCEPT ![cur] = 0]
  /\ Goto(IF answer = "active" THEN "recover" ELSE "poll")
  /\ UNCHANGED <<env, broken, callbacks, stop, streak>>

\* recover(domain): forget it, then invalidate its status and start onRecover.
RecoverForget ==
  /\ pc = "recover"
  /\ broken' = broken \ {cur}
  /\ notFound' = [notFound EXCEPT ![cur] = 0]
  /\ Goto("callback")
  /\ UNCHANGED <<env, callbacks, stop, streak>>

RecoverCallback ==
  /\ pc = "callback"
  /\ callbacks[cur] < MaxCallbacks
  /\ callbacks' = [callbacks EXCEPT ![cur] = @ + 1]
  /\ Goto("poll")
  /\ UNCHANGED <<env, watch, stop, streak>>

\* onRecover(domain, targetHash) returns.
CallbackReturns(d) ==
  /\ callbacks[d] > 0
  /\ callbacks' = [callbacks EXCEPT ![d] = @ - 1]
  /\ UNCHANGED <<env, watch, loop, stop, streak>>

LoopStep ==
  \/ TickConnected \/ TickDisconnected \/ LoopExit \/ AskReady \/ Clear
  \/ Snapshot \/ PollNext \/ PollDone \/ ConfirmNotFound \/ DropDeleted
  \/ ResetNotFound \/ RecoverForget \/ RecoverCallback

-----------------------------------------------------------------------------
(* Stop.                                                                   *)

StopClose ==
  /\ stop = "no"
  /\ stop' = "closed"
  /\ UNCHANGED <<env, watch, loop, callbacks, streak>>

LoopEnded == pc = "exit"
CallbacksEnded == \A d \in Domains : callbacks[d] = 0

\* The waits of Stop, one after the other.
WaitInTurn(first, second) ==
  /\ \/ stop = "closed" /\ first /\ stop' = "waited"
     \/ stop = "waited" /\ second /\ stop' = "returned"
  /\ UNCHANGED <<env, watch, loop, callbacks, streak>>

\* Mutant of StopWait: the callbacks first, although the loop may start more.
StopWaitSwapped == WaitInTurn(CallbacksEnded, LoopEnded)

\* loopWG.Wait(), then recoverWG.Wait().
StopWait == WaitInTurn(LoopEnded, CallbacksEnded)

Next ==
  \/ StreamUp \/ StreamDown \/ Reconciled \/ SiteChange
  \/ \E d \in Domains : MarkBroken(d) \/ CallbackReturns(d)
  \/ LoopStep
  \/ StopClose \/ StopWait

\* The ticker keeps firing, polls are bounded by pollTimeout and callbacks only
\* submit work; a closed done is eventually picked by the select.
Fairness ==
  /\ WF_vars(LoopStep)
  /\ SF_vars(LoopExit)
  /\ WF_vars(StopWait)
  /\ \A d \in Domains : WF_vars(CallbackReturns(d))

Spec == Init /\ [][Next]_vars /\ Fairness

-----------------------------------------------------------------------------
(* Properties.                                                             *)

\* A domain is dropped as deleted only after that many 404s in a row, none of
\* them left from before another outcome or an earlier deletion.
DeletionConfirmed == pc = "drop" => streak[cur] >= DeletedConfirmCount

\* When Stop has returned, neither the loop nor a callback it started is running: the
\* callbacks are waited for when no more can be started.
StoppedIsQuiet == stop = "returned" => LoopEnded /\ CallbacksEnded

\* Stop returns.
StopReturns == (stop = "closed") ~> (stop = "returned")

\* While the stream stays down, a tracked website that is active again does not
\* stay in the watch set, whatever the polls of the others meet, provided its own
\* polls do not all fail.
Recovers ==
  \A d \in Domains :
    (/\ <>[](~connected /\ site[d] = "active" /\ stop = "no")
     /\ <>[][PollNext /\ cur' = d => answer' # "error"]_vars)
      => []<>(d \notin broken)
=============================================================================

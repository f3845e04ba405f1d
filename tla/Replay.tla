------------------------------- MODULE Replay -------------------------------
(***************************************************************************)
(* What the reconciler promises the rest of the gateway                    *)
(* (internal/sitewatch/reconciler.go), without sessions, pages or          *)
(* goroutines: changes are numbered in the order the portal journals them, *)
(* each of them has its effect at some time, a stored position never       *)
(* passes one that has not, and Ready is a statement about every change    *)
(* older than the connection.                                              *)
(*                                                                         *)
(* Reconciler implements this module; SiteWatch composes it with the       *)
(* broken-site watcher in the reconciler's place.                          *)
(***************************************************************************)
EXTENDS Naturals

VARIABLES
  last,       \* number of changes journaled so far
  done,       \* the changes that have had their effect
  saved,      \* the position a restart resumes from
  connected, ready,
  mark        \* last, when the connection was made

vars == <<last, done, saved, connected, ready, mark>>

Init ==
  /\ last = 0 /\ done = {} /\ saved = 0
  /\ connected = FALSE /\ ready = FALSE /\ mark = 0

\* A change; one without an effect on the gateway counts as done at once.
Change ==
  /\ last' = last + 1
  /\ done' \in {done, done \cup {last + 1}}
  /\ UNCHANGED <<saved, connected, ready, mark>>

Up ==
  /\ ~connected
  /\ connected' = TRUE /\ ready' = FALSE
  /\ mark' = last
  /\ UNCHANGED <<last, done, saved>>

Down ==
  /\ connected' = FALSE /\ ready' = FALSE
  /\ UNCHANGED <<last, done, saved, mark>>

\* Change e has its effect, replayed from the journal or delivered by the stream.
Effect(e) ==
  /\ e \in 1..last
  /\ done' = done \cup {e}
  /\ UNCHANGED <<last, saved, connected, ready, mark>>

\* The position moves to n, backwards too, but never beyond what is done.
Save(n) ==
  /\ n \in 0..last
  /\ 1..n \subseteq done
  /\ saved' = n
  /\ UNCHANGED <<last, done, connected, ready, mark>>

BecomeReady ==
  /\ connected
  /\ 1..mark \subseteq done
  /\ ready' = TRUE
  /\ UNCHANGED <<last, done, saved, connected, mark>>

\* The process stops and starts again; the position survives, or is lost.
Crash ==
  /\ connected' = FALSE /\ ready' = FALSE /\ mark' = 0
  /\ saved' \in {saved, 0}
  /\ UNCHANGED <<last, done>>

Next ==
  \/ Change \/ Up \/ Down \/ BecomeReady \/ Crash
  \/ \E e \in 1..last : Effect(e)
  \/ \E n \in 0..last : Save(n)

Spec == Init /\ [][Next]_vars
=============================================================================

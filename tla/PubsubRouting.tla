--------------------------- MODULE PubsubRouting ---------------------------
(***************************************************************************)
(* pubsubFirstRouting.SearchValue: an IPNS search asks the pubsub router   *)
(* and the HTTP router and merges their channels.  Each element of Calls   *)
(* is one search, with its context; the two routers and the consumer of    *)
(* the result are outside this repository and are modelled by what the     *)
(* merge relies on.                                                        *)
(***************************************************************************)
EXTENDS Naturals

CONSTANTS Calls,      \* searches
          MaxValues   \* bound: records a router delivers for one search

ASSUME MaxValuesAssumption == MaxValues \in Nat

VARIABLES call,     \* idle, failed (an error), direct (one router's channel), merge, merged
          chan,     \* the channel of each router: none, failed, open, closed
          left,     \* records each router has still to send
          listens,  \* the channels the merge goroutine has not set to nil
          out,      \* records buffered in the merged channel, 0 or 1
          drains,   \* the channels a drainChannel goroutine is reading
          ctx,      \* live or done
          got       \* the consumer has received a record

routingVars == <<call, chan, left, listens, out, drains, ctx, got>>

Sources == {"pubsub", "dht"}

RoutingInit ==
    /\ call = [c \in Calls |-> "idle"]
    /\ chan = [c \in Calls |-> [s \in Sources |-> "none"]]
    /\ left = [c \in Calls |-> [s \in Sources |-> 0]]
    /\ listens = [c \in Calls |-> {}]
    /\ out = [c \in Calls |-> 0]
    /\ drains = [c \in Calls |-> {}]
    /\ ctx = [c \in Calls |-> "done"]
    /\ got = [c \in Calls |-> FALSE]

----------------------------------------------------------------------------
(* SearchValue: both routers are asked; an error of both is returned, the  *)
(* channel of one is returned as it is if the other failed, and two        *)
(* channels are merged by a goroutine.                                     *)
SearchValue(c) ==
    /\ call[c] = "idle"
    /\ \E ok \in SUBSET Sources, n \in [Sources -> 0..MaxValues] :
         /\ \A s \in Sources \ ok : n[s] = 0
         /\ chan' = [chan EXCEPT ![c] =
                       [s \in Sources |-> IF s \in ok THEN "open" ELSE "failed"]]
         /\ left' = [left EXCEPT ![c] = n]
         /\ call' = [call EXCEPT ![c] = CASE ok = {}      -> "failed"
                                          [] ok = Sources -> "merge"
                                          [] OTHER        -> "direct"]
         /\ listens' = [listens EXCEPT ![c] = IF ok = Sources THEN Sources ELSE {}]
    /\ UNCHANGED <<out, drains, ctx, got>>

(* A router has a record ready on its (unbuffered) channel. *)
Offers(c, s) == chan[c][s] = "open" /\ left[c][s] > 0

(* The receiver takes it. *)
Receive(c, s) == left' = [left EXCEPT ![c][s] = @ - 1]

(* A router closes its channel after its last record - the pubsub router   *)
(* may leave it open for as long as the context lives - and when the       *)
(* context is done.                                                        *)
SourceClose(c, s) ==
    /\ chan[c][s] = "open"
    /\ left[c][s] = 0 \/ ctx[c] = "done"
    /\ chan' = [chan EXCEPT ![c][s] = "closed"]
    /\ left' = [left EXCEPT ![c][s] = 0]
    /\ UNCHANGED <<call, listens, out, drains, ctx, got>>

(* Mutant: the merged channel has no buffer, so that the goroutine stays   *)
(* in its send until the consumer takes the record.                        *)
MergeTakeUnbuffered(c, s) ==
    /\ call[c] = "merge" /\ s \in listens[c] /\ Offers(c, s)
    /\ Receive(c, s)
    /\ out' = [out EXCEPT ![c] = 1]
    /\ drains' = [drains EXCEPT ![c] = listens[c] \ {s}]
    /\ listens' = [listens EXCEPT ![c] = {}]
    /\ UNCHANGED <<call, chan, ctx, got>>

(* The first record of either channel is put into the buffer, the other    *)
(* channel is drained if it is not nil, and the deferred close ends the    *)
(* merged channel.                                                         *)
MergeTake(c, s) ==
    /\ call[c] = "merge" /\ s \in listens[c] /\ Offers(c, s)
    /\ Receive(c, s)
    /\ out' = [out EXCEPT ![c] = 1]
    /\ drains' = [drains EXCEPT ![c] = listens[c] \ {s}]
    /\ call' = [call EXCEPT ![c] = "merged"]
    /\ UNCHANGED <<chan, listens, ctx, got>>

(* Mutant: the loop runs while both channels are open. *)
MergeClosedOne(c, s) ==
    /\ call[c] = "merge" /\ s \in listens[c] /\ chan[c][s] = "closed"
    /\ listens' = [listens EXCEPT ![c] = @ \ {s}]
    /\ call' = [call EXCEPT ![c] = "merged"]
    /\ UNCHANGED <<chan, left, out, drains, ctx, got>>

(* A closed channel is set to nil; the loop ends when both are. *)
MergeClosed(c, s) ==
    /\ call[c] = "merge" /\ s \in listens[c] /\ chan[c][s] = "closed"
    /\ listens' = [listens EXCEPT ![c] = @ \ {s}]
    /\ call' = [call EXCEPT ![c] = IF listens[c] = {s} THEN "merged" ELSE @]
    /\ UNCHANGED <<chan, left, out, drains, ctx, got>>

(* The context is done while the goroutine is in its select: it returns    *)
(* without draining.                                                       *)
MergeCancelled(c) ==
    /\ call[c] = "merge" /\ ctx[c] = "done" /\ out[c] = 0
    /\ call' = [call EXCEPT ![c] = "merged"]
    /\ UNCHANGED <<chan, left, listens, out, drains, ctx, got>>

(* drainChannel throws records away until the channel is closed. *)
DrainTake(c, s) ==
    /\ s \in drains[c] /\ Offers(c, s)
    /\ Receive(c, s)
    /\ UNCHANGED <<call, chan, listens, out, drains, ctx, got>>

DrainEnd(c, s) ==
    /\ s \in drains[c] /\ chan[c][s] = "closed"
    /\ drains' = [drains EXCEPT ![c] = @ \ {s}]
    /\ UNCHANGED <<call, chan, left, listens, out, ctx, got>>

(* The consumer receives a record of the channel SearchValue returned. *)
ConsumerTake(c) ==
    /\ ctx[c] = "live"
    /\ \/ /\ call[c] = "direct"
          /\ \E s \in Sources : Offers(c, s) /\ Receive(c, s)
          /\ UNCHANGED out
       \/ /\ call[c] \in {"merge", "merged"} /\ out[c] = 1
          /\ out' = [out EXCEPT ![c] = 0]
          /\ UNCHANGED left
    /\ got' = [got EXCEPT ![c] = TRUE]
    /\ UNCHANGED <<call, chan, listens, drains, ctx>>

(* The channel SearchValue returned is closed and empty. *)
ResultClosed(c) ==
    \/ call[c] = "direct" /\ \A s \in Sources : chan[c][s] # "open"
    \/ call[c] = "merged" /\ out[c] = 0

(* Nothing of a search is running: no router, no merge and no drain. *)
SearchOver(c) ==
    /\ call[c] # "merge"
    /\ drains[c] = {}
    /\ \A s \in Sources : chan[c][s] # "open"

RoutingStep(c) ==
    \/ \E s \in Sources : \/ SourceClose(c, s)
                          \/ MergeTake(c, s) \/ MergeClosed(c, s)
                          \/ DrainTake(c, s) \/ DrainEnd(c, s)
    \/ MergeCancelled(c)
    \/ ConsumerTake(c)

(* The goroutines run; a router closes its channel once the context is     *)
(* done, and otherwise only if it wants to.                                *)
RoutingFairness ==
    \A c \in Calls :
      /\ \A s \in Sources :
           /\ WF_routingVars(ctx[c] = "done" /\ SourceClose(c, s))
           /\ WF_routingVars(MergeTake(c, s) \/ MergeClosed(c, s) \/ MergeCancelled(c))
           /\ WF_routingVars(DrainTake(c, s) \/ DrainEnd(c, s))
      /\ WF_routingVars(ConsumerTake(c))

----------------------------------------------------------------------------
(* A merged search that ends empty although its context is live has lost   *)
(* nothing: no router had a record to give.  A router that fails, closes   *)
(* early or is merely slower must not hide the other one's record          *)
(* (pubsub_routing.go, the loop over both channels).                       *)
SearchDelivers ==
    \A c \in Calls :
        call[c] = "merged" /\ ctx[c] = "live" /\ ~got[c] /\ out[c] = 0
            => \A s \in Sources : left[c][s] = 0

(* Every goroutine of a search ends once its context is done, whether or   *)
(* not anybody reads the result: the merge does not wait for its consumer, *)
(* nor a drain for a record.                                               *)
SearchEnds == \A c \in Calls : ctx[c] = "done" ~> (SearchOver(c) \/ ctx[c] = "live")

============================================================================

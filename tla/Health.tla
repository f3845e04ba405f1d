------------------------------- MODULE Health -------------------------------
(***************************************************************************)
(* The health checker (health.go) with the searches it makes through       *)
(* pubsubFirstRouting.  Three periodic checks - the portal's ping, the     *)
(* seed peer, the retrieval of the configured websites - keep their last   *)
(* result, and /healthz answers 200 when all of them are up.  The checker  *)
(* library that runs the checks is external: it calls each check again and *)
(* again with a context of the configured timeout, and keeps what it       *)
(* returned, or an error if the timeout has passed before it returned.     *)
(***************************************************************************)
EXTENDS PubsubRouting

CONSTANTS Websites,   \* the websites of HealthCheckConfig, each with a context of its own
          IpnsSites   \* those whose DNSLink may be an /ipns/ path

ASSUME WebsitesAssumption == Calls = Websites /\ IpnsSites \subseteq Websites

VARIABLES status,    \* the last result of each check: unknown, up, down
          seed,      \* Node.SeedPeerConnected
          round,     \* checkWebsiteRetrieval: idle, running, abandoned by the library
          pc,        \* the goroutine of each website
          failures,  \* the websites that failed in this round
          gauge,     \* the website's own result, the metric of setCheckResult
          aggregate  \* that metric for the whole check (timedCheck)

healthVars == <<status, seed, round, pc, failures, gauge, aggregate>>
allVars == <<routingVars, healthVars>>

Checks == {"internal_api", "ipfs_peer", "website_retrieval"}

HealthInit ==
    /\ RoutingInit
    /\ status = [k \in Checks |-> "unknown"]
    /\ seed = FALSE
    /\ round = "idle"
    /\ pc = [w \in Websites |-> "idle"]
    /\ failures = {}
    /\ gauge = [w \in Websites |-> "unknown"]
    /\ aggregate = "unknown"

Result(ok) == IF ok THEN "up" ELSE "down"

----------------------------------------------------------------------------
(* The seed peer comes and goes (SeedPeer). *)
SeedChange ==
    /\ seed' = ~seed
    /\ UNCHANGED <<routingVars, status, round, pc, failures, gauge, aggregate>>

(* checkAPIHealth: the portal answers the ping or it does not. *)
CheckAPI ==
    /\ \E ok \in BOOLEAN : status' = [status EXCEPT !["internal_api"] = Result(ok)]
    /\ UNCHANGED <<routingVars, seed, round, pc, failures, gauge, aggregate>>

(* checkIPFSPeerHealth: the node listens and its seed peer is connected. *)
CheckPeer ==
    /\ status' = [status EXCEPT !["ipfs_peer"] = Result(seed)]
    /\ UNCHANGED <<routingVars, seed, round, pc, failures, gauge, aggregate>>

----------------------------------------------------------------------------
(* checkWebsiteRetrieval starts one goroutine per website, each with a     *)
(* context of its own.  Bound: a round starts when the goroutines that the *)
(* searches of the last one left behind have ended (SearchEnds says that   *)
(* they do), so that each website has one search at a time.                *)
StartRound ==
    /\ round = "idle"
    /\ \A w \in Websites : SearchOver(w)
    /\ round' = "running"
    /\ pc' = [w \in Websites |-> "dns"]
    /\ failures' = {}
    /\ ctx' = [w \in Websites |-> "live"]
    /\ call' = [w \in Websites |-> "idle"]
    /\ chan' = [w \in Websites |-> [s \in Sources |-> "none"]]
    /\ left' = [w \in Websites |-> [s \in Sources |-> 0]]
    /\ listens' = [w \in Websites |-> {}]
    /\ out' = [w \in Websites |-> 0]
    /\ drains' = [w \in Websites |-> {}]
    /\ got' = [w \in Websites |-> FALSE]
    /\ UNCHANGED <<status, seed, gauge, aggregate>>

(* The timeout of the website's context. *)
Timeout(w) ==
    /\ pc[w] \in {"dns", "search", "block"} /\ ctx[w] = "live"
    /\ ctx' = [ctx EXCEPT ![w] = "done"]
    /\ UNCHANGED <<call, chan, left, listens, out, drains, got, healthVars>>

(* The timeout of the whole check: the library reports an error, and the   *)
(* contexts of the websites end with their parent.                         *)
Abandon ==
    /\ round = "running"
    /\ round' = "abandoned"
    /\ status' = [status EXCEPT !["website_retrieval"] = "down"]
    /\ ctx' = [w \in Websites |-> "done"]
    /\ UNCHANGED <<call, chan, left, listens, out, drains, got, seed, pc, failures, gauge,
                   aggregate>>

(* The goroutine ends with or without an error: its metric, its failure,   *)
(* the deferred cancel of its context, wg.Done.                            *)
FinishWebsite(w, ok) ==
    /\ pc' = [pc EXCEPT ![w] = "finished"]
    /\ gauge' = [gauge EXCEPT ![w] = Result(ok)]
    /\ failures' = IF ok THEN failures ELSE failures \cup {w}
    /\ ctx' = [ctx EXCEPT ![w] = "done"]
    /\ UNCHANGED <<call, chan, left, listens, out, drains, got, status, seed, round,
                   aggregate>>

(* ValidateDNSLink: an error or a path resolveRootCID does not accept, an  *)
(* /ipfs/ path, or an /ipns/ path, for which ResolveIPNS searches.         *)
DNSLink(w) ==
    /\ pc[w] = "dns"
    /\ \/ FinishWebsite(w, FALSE)
       \/ /\ ctx[w] = "live"
          /\ pc' = [pc EXCEPT ![w] = "block"]
          /\ UNCHANGED <<routingVars, status, seed, round, failures, gauge, aggregate>>
       \/ /\ ctx[w] = "live" /\ w \in IpnsSites
          /\ SearchValue(w)
          /\ pc' = [pc EXCEPT ![w] = "search"]
          /\ UNCHANGED <<status, seed, round, failures, gauge, aggregate>>

(* Mutant: the search is given no context, so that it ends only with its   *)
(* channel.                                                                *)
ResolveIPNSNoContext(w) ==
    /\ pc[w] = "search"
    /\ \/ /\ \/ call[w] = "failed"
             \/ ResultClosed(w) /\ ~got[w]
          /\ FinishWebsite(w, FALSE)
       \/ /\ ResultClosed(w) /\ got[w]
          /\ pc' = [pc EXCEPT ![w] = "block"]
          /\ UNCHANGED <<routingVars, status, seed, round, failures, gauge, aggregate>>

(* ResolveIPNS returns: with an error if SearchValue failed, if no usable  *)
(* record came before the channel closed or the context ended, or with the *)
(* CID of the last record.                                                 *)
ResolveIPNS(w) ==
    /\ pc[w] = "search"
    /\ \/ /\ \/ call[w] = "failed"
             \/ ResultClosed(w) /\ ~got[w]
             \/ ctx[w] = "done"
          /\ FinishWebsite(w, FALSE)
       \/ /\ got[w] /\ (ResultClosed(w) \/ ctx[w] = "done")
          /\ pc' = [pc EXCEPT ![w] = "block"]
          /\ UNCHANGED <<routingVars, status, seed, round, failures, gauge, aggregate>>

(* GetBlock: the block, an error or a nil block. *)
GetBlock(w) ==
    /\ pc[w] = "block"
    /\ \E ok \in BOOLEAN : (ok => ctx[w] = "live") /\ FinishWebsite(w, ok)

(* wg.Wait has returned: the result of the round, which the library keeps  *)
(* unless it has given up.                                                 *)
Report ==
    /\ round' = "idle"
    /\ aggregate' = Result(failures = {})
    /\ status' = IF round = "running"
                   THEN [status EXCEPT !["website_retrieval"] = aggregate']
                   ELSE status
    /\ UNCHANGED <<routingVars, seed, pc, failures, gauge>>

(* Mutant: the check returns when one of its goroutines has. *)
EndRoundEarly ==
    /\ round # "idle"
    /\ \E w \in Websites : pc[w] = "finished"
    /\ Report

EndRound ==
    /\ round # "idle"
    /\ \A w \in Websites : pc[w] = "finished"
    /\ Report

WebsiteStep(w) == DNSLink(w) \/ ResolveIPNS(w) \/ GetBlock(w)

(* The searches go on beside the checks. *)
Search(w) == RoutingStep(w) /\ UNCHANGED healthVars

HealthNext ==
    \/ SeedChange \/ CheckAPI \/ CheckPeer
    \/ StartRound \/ Abandon \/ EndRound
    \/ \E w \in Websites : Timeout(w) \/ WebsiteStep(w) \/ Search(w)

(* The periodic checks run again and again, and every context has a        *)
(* deadline; a DNS lookup and a block fetch return when it has passed.     *)
HealthFairness ==
    /\ RoutingFairness
    /\ WF_allVars(CheckPeer) /\ WF_allVars(StartRound) /\ WF_allVars(EndRound)
    /\ \A w \in Websites : /\ WF_allVars(Timeout(w))
                           /\ WF_allVars(ctx[w] = "done" /\ WebsiteStep(w))

HealthSpec == HealthInit /\ [][HealthNext]_allVars /\ HealthFairness

----------------------------------------------------------------------------
(* healthCheckHandler answers 200. *)
Healthy == \A k \in Checks : status[k] = "up"

(* Between two rounds the aggregate result of website_retrieval and the    *)
(* per-website results that its goroutines reported on their own agree, it *)
(* is up exactly when every one of them retrieved its website, and         *)
(* /healthz is told of it only then, however they interleave and time out. *)
RoundAgrees ==
    round = "idle" =>
        /\ aggregate # "unknown" =>
               (aggregate = "up" <=> \A w \in Websites : gauge[w] = "up")
        /\ Healthy => aggregate = "up"

(* A round ends although a router may keep its channel open and silent:    *)
(* the deadline of every website's context reaches each call it makes.     *)
RoundEnds == round # "idle" ~> round = "idle"

============================================================================

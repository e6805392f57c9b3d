------------------------------ MODULE Ingress -------------------------------
(***************************************************************************)
(* The two ways a seller order enters the service, on one delivery row:    *)
(* the seller-order-ready webhook (SafeDispatch) and POST /deliveries      *)
(* behind the idempotency interceptor (Idempotency).                       *)
(***************************************************************************)
EXTENDS SafeDispatch

CONSTANTS
    Posts,         \* POST /deliveries requests that carry one idempotency key
    Configs,       \* the ROLLOUT_SETTINGS an operator may store
    MaxOrders      \* bound: requests of both kinds, in all

ASSUME ConfigsAssumption ==
    \A c \in Configs : c \in [rollout : Nat, minAcceptance : Nat]

VARIABLES record, post, writes

INSTANCE Idempotency

vars == <<delivery, offers, eventKeys, decisions, config, stats, scores, req, arrivals,
          record, post, writes>>

IngressInit == Init /\ IdempotencyInit

Orders == arrivals + Cardinality({p \in Posts : ~PostAt(p, "idle")})

Webhook ==
    /\ \/ Orders < MaxOrders /\ \E r \in Requests : Arrive(r)
       \/ \E r \in Requests : Handle(r) \/ Die(r) \/ SendAgain(r)
       \/ \E e \in Events : EventKeyExpires(e)
       \/ \E d \in Drivers : ScoreExpires(d)
       \/ \E c \in Configs : SetConfig(c)
       \/ DeliveryMoves
    /\ UNCHANGED <<record, post, writes>>

Create ==
    /\ \/ Orders < MaxOrders /\ \E p \in Posts : PostArrives(p)
       \/ \E p \in Posts : PostProceeds(p)
       \/ \E w \in writes : WriteArrives(w) \/ WriteLost(w)
       \/ KeyExpires
    /\ UNCHANGED <<offers, eventKeys, decisions, config, stats, scores, req, arrivals>>

Next == Webhook \/ Create

Spec == IngressInit /\ [][Next]_vars

-----------------------------------------------------------------------------
IsClaim(d) == d.claim
IsAssignedClaim(d) == d.claim /\ d.status = "ASSIGNED"

(***************************************************************************)
(* The claims of executeIdempotentFallback account for the offers: a claim *)
(* settled ASSIGNED has made its offer, and no offer is made outside a     *)
(* claim, whatever dies, breaks or runs twice.                             *)
(***************************************************************************)
OffersMatchClaims == Rows(IsAssignedClaim) <= offers /\ offers <= Rows(IsClaim)

(***************************************************************************)
(* shouldFallback counts the PENDING decision its own request has just     *)
(* stored, so while every acceptance threshold stored is above zero no     *)
(* scoring decision is ever ASSIGNED.  The settings change at any time: a  *)
(* request may be judged by one threshold and assigned under another.      *)
(***************************************************************************)
ScoringNeedsZeroThreshold == Rows(IsScoringAssigned) > 0 => config.lowest = 0

(***************************************************************************)
(* A request answered from the cache repeats a success: a COMPLETED record *)
(* (stored, or on its way to Redis) is always that of a delivery that was  *)
(* inserted.                                                               *)
(***************************************************************************)
ReplayIsReal ==
    \/ record = "COMPLETED"
    \/ \E w \in writes : w.state = "COMPLETED"
    \/ \E p \in Posts : post[p].answer = "replayed"
    => delivery # "none"
=============================================================================

---------------------------- MODULE SafeDispatch ----------------------------
(***************************************************************************)
(* The seller-order-ready webhook for one seller order: the handler of     *)
(* events.controller.ts, SafeDispatchService.executeSafeDispatch under it  *)
(* and the dispatch decisions it stores.  Several requests for the order   *)
(* run at once (the shop retries a job that got no 2xx answer, and may     *)
(* announce one order in two events); each step below is one statement or  *)
(* transaction of the handler, and a process may die between two of them.  *)
(***************************************************************************)
EXTENDS Integers, Sequences, FiniteSets, DispatchScoring

CONSTANTS
    Requests,      \* HTTP requests in flight
    Events,        \* the event ids they carry
    Drivers,       \* drivers within the radius of the pickup
    Seed,          \* hashString(deliveryId) % 100
    StatsRows,     \* the driver_stats rows a driver may have
    NoStats,       \* a driver without one
    MaxArrivals    \* bound: webhook requests that reach the service, in all

ASSUME SafeDispatchAssumption ==
    /\ Seed \in 0 .. 99
    /\ MaxArrivals \in Nat
    /\ NoStats \notin StatsRows

VARIABLES
    delivery,      \* status of the order's delivery row, "none" before the insert
    offers,        \* driver offers stored for the delivery
    eventKeys,     \* events whose Redis key is set
    decisions,     \* dispatch_decisions, in the order of insertion
    config,        \* the active ROLLOUT_SETTINGS row
    stats,         \* driver_stats
    scores,        \* the latest OVERALL dispatch score of a driver: row or 0
    req,           \* what each request is doing
    arrivals       \* requests that reached the service so far

-----------------------------------------------------------------------------
(* State *)

NoId == 0
NoScore == [score |-> 0, row |-> FALSE, valid |-> FALSE]

(***************************************************************************)
(* own: the decision of executeSafeDispatch; claimed: the claim of         *)
(* executeIdempotentFallback; rows: the rows its locking query returned;   *)
(* attempt: 1 under the try of executeSafeDispatch, 2 in its catch;        *)
(* scoring: the cohort; outcome: what the settling update has to store.    *)
(***************************************************************************)
IdleRequest(e) ==
    [step |-> "idle", event |-> e, answer |-> "none", own |-> NoId, claimed |-> NoId,
     rows |-> {}, attempt |-> 1, scoring |-> FALSE, eligible |-> {}, outcome |-> "none"]

(* minAcceptance is fallbackThresholds.minAcceptanceRate in tenths; the    *)
(* other two thresholds keep their defaults.                               *)
DefaultConfig == [rollout |-> 0, minAcceptance |-> 7, lowest |-> 7]

Init ==
    /\ delivery = "none"
    /\ offers = 0
    /\ eventKeys = {}
    /\ decisions = <<>>
    /\ config = DefaultConfig
    /\ stats \in [Drivers -> StatsRows \cup {NoStats}]
    /\ scores = [d \in Drivers |-> NoScore]
    /\ req \in {f \in [Requests -> {IdleRequest(e) : e \in Events}] :
                   \A e \in Events : \E r \in Requests : f[r].event = e}
    /\ arrivals = 0

At(r, step) == req[r].step = step
Goto(r, step) == req' = [req EXCEPT ![r].step = step]
Ended(r, step, a) ==
    req' = [req EXCEPT ![r] = [IdleRequest(@.event) EXCEPT !.step = step, !.answer = a]]
Answer(r, a) == Ended(r, "answered", a)
InFlight(r) == req[r].step \notin {"idle", "answered", "died"}

(* a row of dispatch_decisions; claim is metadata.fallbackClaim            *)
NewDecision(method, claim) == [method |-> method, status |-> "PENDING", claim |-> claim]

(* an HTTP exception leaves the handler as it is; any other error becomes  *)
(* a 200 answer with status "error"                                        *)
Store(id, status) == decisions' = [decisions EXCEPT ![id].status = status]

-----------------------------------------------------------------------------
(* EventsController.onSellerOrderReady *)

Arrive(r) ==
    /\ At(r, "idle")
    /\ arrivals < MaxArrivals
    /\ arrivals' = arrivals + 1
    /\ Goto(r, "key")
    /\ UNCHANGED <<delivery, offers, eventKeys, decisions, config, stats, scores>>

(* a wrong secret, a stale timestamp or a wrong signature: 400 *)
ValidateSignature(r) ==
    /\ At(r, "key")
    /\ Answer(r, "rejected")
    /\ UNCHANGED <<delivery, offers, eventKeys, decisions, config, stats, scores, arrivals>>

CheckEventKey(r) ==
    /\ At(r, "key")
    /\ IF req[r].event \in eventKeys THEN Answer(r, "ignored") ELSE Goto(r, "find")
    /\ UNCHANGED <<delivery, offers, eventKeys, decisions, config, stats, scores, arrivals>>

FindDelivery(r) ==
    /\ At(r, "find")
    /\ \/ delivery = "none" /\ Goto(r, "create")
       \/ delivery = "ASSIGNED"
            /\ req' = [req EXCEPT ![r].step = "mark", ![r].answer = "success"]
       \/ delivery \in {"PENDING", "CANCELLED"} /\ Goto(r, "eligible")
    /\ UNCHANGED <<delivery, offers, eventKeys, decisions, config, stats, scores, arrivals>>

(* sellerOrderId is unique: the second insert is refused and the event     *)
(* still counts as processed                                               *)
CreateDelivery(r) ==
    /\ At(r, "create")
    /\ IF delivery = "none"
       THEN delivery' = "PENDING" /\ Goto(r, "eligible")
       ELSE /\ req' = [req EXCEPT ![r].step = "mark", ![r].answer = "ignored"]
            /\ UNCHANGED delivery
    /\ UNCHANGED <<offers, eventKeys, decisions, config, stats, scores, arrivals>>

MarkEventKey(r) ==
    /\ At(r, "mark")
    /\ eventKeys' = eventKeys \cup {req[r].event}
    /\ Answer(r, req[r].answer)
    /\ UNCHANGED <<delivery, offers, decisions, config, stats, scores, arrivals>>

-----------------------------------------------------------------------------
(* DispatchScoringService: getCurrentScores and areDriversEligible *)

(* a driver without a valid row gets a new one, or 0 without statistics *)
CurrentScoreRow(d) ==
    IF scores[d].valid THEN scores[d]
    ELSE IF stats[d] = NoStats THEN scores[d]
    ELSE [score |-> DispatchScoreOf(stats[d]), row |-> TRUE, valid |-> TRUE]

CurrentScore(d) == IF CurrentScoreRow(d).valid THEN CurrentScoreRow(d).score ELSE 0

IsEligible(d) == stats[d] = NoStats \/ CurrentScore(d) >= MinimumScore

(* getEligibleDrivers over the drivers Redis finds in the radius *)
GetEligibleDrivers(r) ==
    /\ At(r, "eligible")
    /\ \E available \in SUBSET Drivers :
          /\ scores' = [d \in Drivers |->
                          IF d \in available THEN CurrentScoreRow(d) ELSE scores[d]]
          /\ req' = [req EXCEPT ![r].step = "decide",
                                ![r].eligible = {d \in available : IsEligible(d)}]
    /\ UNCHANGED <<delivery, offers, eventKeys, decisions, config, stats, arrivals>>

(* a score is valid for one hour, no request lasts that long *)
ScoreExpires(d) ==
    /\ ~\E r \in Requests : InFlight(r)
    /\ scores[d].valid
    /\ scores' = [scores EXCEPT ![d].valid = FALSE]
    /\ UNCHANGED <<delivery, offers, eventKeys, decisions, config, stats, req, arrivals>>

-----------------------------------------------------------------------------
(* SafeDispatchService.executeSafeDispatch *)

InScoringCohort == Seed < config.rollout

PersistDecision(r) ==
    /\ At(r, "decide")
    /\ decisions' = Append(decisions,
         NewDecision(IF InScoringCohort THEN "SCORING_BASED" ELSE "LEGACY", FALSE))
    /\ req' = [req EXCEPT ![r].own = Len(decisions) + 1,
                          ![r].scoring = InScoringCohort,
                          ![r].step = IF InScoringCohort THEN "health" ELSE "query"]
    /\ UNCHANGED <<delivery, offers, eventKeys, config, stats, scores, arrivals>>

Rows(P(_)) == Cardinality({i \in DOMAIN decisions : P(decisions[i])})
IsFailed(d) == d.status = "FAILED"
IsScoring(d) == d.method = "SCORING_BASED"
IsScoringAssigned(d) == IsScoring(d) /\ d.status = "ASSIGNED"

(* getRecentFailureRate > 10% *)
HighFailureRate == 10 * Rows(IsFailed) > Len(decisions)

LowAcceptanceRate_Settled ==     \* seeded fault: PENDING decisions do not count
    LET settled == {i \in DOMAIN decisions : IsScoring(decisions[i]) /\ decisions[i].status # "PENDING"}
    IN  /\ settled # {}
        /\ 10 * Rows(IsScoringAssigned) < config.minAcceptance * Cardinality(settled)

(* getRecentAcceptanceRate < minAcceptanceRate; without a scoring decision *)
(* the rate counts as 1                                                    *)
LowAcceptanceRate ==
    /\ Rows(IsScoring) > 0
    /\ 10 * Rows(IsScoringAssigned) < config.minAcceptance * Rows(IsScoring)

(* getAverageProcessingTime is over the limit or not: `slow' *)
ShouldFallback(slow) == HighFailureRate \/ slow \/ LowAcceptanceRate

HealthCheck(r) ==
    /\ At(r, "health")
    /\ \E slow \in BOOLEAN :
          IF ShouldFallback(slow)
          THEN Store(req[r].own, "FAILED") /\ Goto(r, "query")
          ELSE UNCHANGED decisions /\ Goto(r, "scoring")
    /\ UNCHANGED <<delivery, offers, eventKeys, config, stats, scores, arrivals>>

(***************************************************************************)
(* executeScoringDispatch picks the best eligible driver and creates no    *)
(* offer; without one it throws a 400 and the decision stays PENDING.      *)
(***************************************************************************)
ExecuteScoringDispatch(r) ==
    /\ At(r, "scoring")
    /\ IF req[r].eligible = {}
       THEN Answer(r, "rejected") /\ UNCHANGED decisions
       ELSE /\ Store(req[r].own, "ASSIGNED")
            /\ req' = [req EXCEPT ![r].step = "mark", ![r].answer = "success"]
    /\ UNCHANGED <<delivery, offers, eventKeys, config, stats, scores, arrivals>>

(***************************************************************************)
(* executeIdempotentFallback.  The locking query sees the LEGACY rows      *)
(* committed when the statement started; it may then wait for the          *)
(* transaction that holds them, reads their new status, and takes one of   *)
(* them (getOne states no order).                                          *)
(***************************************************************************)
ClaimQuery(r) ==
    /\ At(r, "query")
    /\ req' = [req EXCEPT ![r].step = "claim",
                 ![r].rows = {i \in DOMAIN decisions : decisions[i].method = "LEGACY"}]
    /\ UNCHANGED <<delivery, offers, eventKeys, decisions, config, stats, scores, arrivals>>

InProgress(d) == d.status = "PENDING" /\ d.claim

(* the fallback returned: under the control cohort the own decision is     *)
(* settled as well, then the controller marks the event                    *)
FallbackReturned(r) ==
    IF req[r].scoring \/ req[r].attempt = 2
    THEN [req[r] EXCEPT !.step = "mark", !.answer = "success"]
    ELSE [req[r] EXCEPT !.step = "settle", !.outcome = "ASSIGNED"]

Claim(r) ==
    LET rows == req[r].rows
        Takes(d) == d.status # "ASSIGNED" /\ ~InProgress(d)
        Insert ==
            /\ decisions' = Append(decisions, NewDecision("LEGACY", TRUE))
            /\ req' = [req EXCEPT ![r].step = "callback", ![r].rows = {},
                                  ![r].claimed = Len(decisions) + 1]
    IN  /\ At(r, "claim")
        /\ \/ rows = {} /\ Insert
           \/ \E i \in rows : Takes(decisions[i]) /\ Insert
           \/ \E i \in rows : /\ ~Takes(decisions[i])
                              /\ req' = [req EXCEPT ![r] = [FallbackReturned(r) EXCEPT !.rows = {}]]
                              /\ UNCHANGED decisions
        /\ UNCHANGED <<delivery, offers, eventKeys, config, stats, scores, arrivals>>

(* the callback offers the delivery to the nearest driver *)
OfferNearest(r) ==
    /\ At(r, "callback")
    /\ delivery = "PENDING"
    /\ offers' = offers + 1
    /\ Goto(r, "offered")
    /\ UNCHANGED <<delivery, eventKeys, decisions, config, stats, scores, arrivals>>

ClaimAssigned(r) ==
    /\ At(r, "offered")
    /\ Store(req[r].claimed, "ASSIGNED")
    /\ req' = [req EXCEPT ![r] = FallbackReturned(r)]
    /\ UNCHANGED <<delivery, offers, eventKeys, config, stats, scores, arrivals>>

CallbackRefused_Kept(r) ==       \* seeded fault: the claim is settled as if it had worked
    /\ At(r, "callback")
    /\ Store(req[r].claimed, "ASSIGNED")
    /\ Answer(r, "unavailable")
    /\ UNCHANGED <<delivery, offers, eventKeys, config, stats, scores, arrivals>>

(* no driver (503), or the driver or the delivery is taken (409)           *)
CallbackRefused(r) ==
    /\ At(r, "callback")
    /\ Store(req[r].claimed, "FAILED")
    /\ Answer(r, "unavailable")
    /\ UNCHANGED <<delivery, offers, eventKeys, config, stats, scores, arrivals>>

(***************************************************************************)
(* The database, Redis or the socket fails, before the offer is stored or  *)
(* after it: the claim fails, and what is left to do is the catch of       *)
(* executeSafeDispatch (attempt 1) or of the controller (attempt 2).       *)
(***************************************************************************)
CallbackBreaks(r) ==
    /\ At(r, "callback")
    /\ \/ UNCHANGED offers
       \/ delivery = "PENDING" /\ offers' = offers + 1
    /\ Store(req[r].claimed, "FAILED")
    /\ IF req[r].attempt = 1
       THEN req' = [req EXCEPT ![r].step = "settle", ![r].outcome = "FAILED"]
       ELSE Answer(r, "error")
    /\ UNCHANGED <<delivery, eventKeys, config, stats, scores, arrivals>>

(* updateDispatchDecision of the own decision; after a failure the         *)
(* fallback is executed once more                                          *)
SettleDecision(r) ==
    /\ At(r, "settle")
    /\ Store(req[r].own, req[r].outcome)
    /\ req' = [req EXCEPT ![r] =
         IF @.outcome = "FAILED"
         THEN [@ EXCEPT !.step = "query", !.attempt = 2, !.claimed = NoId, !.outcome = "none"]
         ELSE [@ EXCEPT !.step = "mark", !.answer = "success", !.outcome = "none"]]
    /\ UNCHANGED <<delivery, offers, eventKeys, config, stats, scores, arrivals>>

-----------------------------------------------------------------------------
(* What happens around the handler *)

(* the process dies; nothing undoes the rows it committed *)
Die(r) ==
    /\ InFlight(r)
    /\ Ended(r, "died", "none")
    /\ UNCHANGED <<delivery, offers, eventKeys, decisions, config, stats, scores, arrivals>>

(* the shop sends an event again when it got no 2xx answer *)
SendAgain(r) ==
    /\ \/ At(r, "died")
       \/ At(r, "answered") /\ req[r].answer \in {"rejected", "unavailable"}
    /\ req' = [req EXCEPT ![r] = IdleRequest(@.event)]
    /\ UNCHANGED <<delivery, offers, eventKeys, decisions, config, stats, scores, arrivals>>

(* the key of an event lives for a day, no request lasts that long *)
EventKeyExpires(e) ==
    /\ ~\E r \in Requests : InFlight(r)
    /\ e \in eventKeys
    /\ eventKeys' = eventKeys \ {e}
    /\ UNCHANGED <<delivery, offers, decisions, config, stats, scores, req, arrivals>>

(* a driver accepts one of the offers, or the order is cancelled *)
DeliveryMoves ==
    /\ delivery = "PENDING"
    /\ \/ offers > 0 /\ delivery' = "ASSIGNED"
       \/ delivery' = "CANCELLED"
    /\ UNCHANGED <<offers, eventKeys, decisions, config, stats, scores, req, arrivals>>

(***************************************************************************)
(* DispatchConfigService.setConfig / updateRolloutSettings: a new version  *)
(* of ROLLOUT_SETTINGS becomes the active one, any number of times.  The   *)
(* table keeps the versions before it: `lowest' is the lowest threshold of *)
(* them all.                                                               *)
(***************************************************************************)
SetConfig(c) ==
    /\ config' = [config EXCEPT !.rollout = c.rollout,
                                !.minAcceptance = c.minAcceptance,
                                !.lowest = IF c.minAcceptance < @ THEN c.minAcceptance ELSE @]
    /\ config' # config
    /\ UNCHANGED <<delivery, offers, eventKeys, decisions, stats, scores, req, arrivals>>

Handle(r) ==
    \/ ValidateSignature(r) \/ CheckEventKey(r) \/ FindDelivery(r)
    \/ CreateDelivery(r) \/ MarkEventKey(r) \/ GetEligibleDrivers(r)
    \/ PersistDecision(r) \/ HealthCheck(r) \/ ExecuteScoringDispatch(r)
    \/ ClaimQuery(r) \/ Claim(r) \/ OfferNearest(r) \/ ClaimAssigned(r)
    \/ CallbackRefused(r) \/ CallbackBreaks(r) \/ SettleDecision(r)
=============================================================================

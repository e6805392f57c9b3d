--------------------------- MODULE IngressProofs ----------------------------
(***************************************************************************)
(* Proofs about Ingress for every number of requests, posts, events and    *)
(* drivers, every set of configurations and every bound.                   *)
(***************************************************************************)
EXTENDS Ingress, FiniteSetTheorems, TLAPS

USE SafeDispatchAssumption, ConfigsAssumption

Decisions == [method : {"LEGACY", "SCORING_BASED"}, status : {"PENDING", "ASSIGNED", "FAILED"},
              claim : BOOLEAN]

Loose == {"idle", "key", "find", "create", "eligible", "decide", "mark", "answered", "died"}
Scoring == {"health", "scoring"}
Claiming == {"callback", "offered"}
Steps == Loose \cup Scoring \cup Claiming \cup {"query", "claim", "settle"}

RequestRows ==
    [step : Steps, event : Events,
     answer : {"none", "success", "ignored", "rejected", "unavailable", "error"},
     own : Nat, claimed : Nat, rows : SUBSET Nat, attempt : {1, 2}, scoring : BOOLEAN,
     eligible : SUBSET Drivers, outcome : {"none", "ASSIGNED", "FAILED"}]

TypeOK ==
    /\ delivery \in {"none", "PENDING", "ASSIGNED", "CANCELLED"}
    /\ offers \in Nat
    /\ decisions \in Seq(Decisions)
    /\ config \in [rollout : Nat, minAcceptance : Nat, lowest : Nat]
    /\ config.lowest <= config.minAcceptance
    /\ req \in [Requests -> RequestRows]

(* A request past its decision owns a row of its cohort, and one that makes *)
(* an offer holds a claim that is still PENDING.                            *)
ReqOK(k, ds, minimum) ==
    /\ k.step \notin Loose =>
         /\ k.own \in DOMAIN ds
         /\ ~ds[k.own].claim
         /\ ds[k.own].method = IF k.scoring THEN "SCORING_BASED" ELSE "LEGACY"
    /\ k.step \in Scoring => k.scoring
    /\ k.step \in Claiming =>
         /\ k.claimed \in DOMAIN ds
         /\ ds[k.claimed].claim
         /\ ds[k.claimed].status = "PENDING"
    /\ k.step = "settle" => k.outcome = "FAILED" \/ (k.outcome = "ASSIGNED" /\ ~k.scoring)
    /\ k.step = "scoring" => minimum = 0

RequestInv ==
    /\ \A r \in Requests : ReqOK(req[r], decisions, config.lowest)
    /\ \A r, s \in Requests :
         /\ req[r].step \in Claiming /\ req[s].step \in Claiming
         /\ req[r].claimed = req[s].claimed
         => r = s

DecisionInv ==
    \A i \in DOMAIN decisions :
        /\ decisions[i].claim => decisions[i].method = "LEGACY"
        /\ decisions[i].method = "SCORING_BASED" /\ decisions[i].status = "ASSIGNED"
             => config.lowest = 0

(* The claims whose offer is known to be made, and those where it may be.   *)
Held(step) == {req[r].claimed : r \in {s \in Requests : req[s].step = step}}
Claims == {i \in DOMAIN decisions : decisions[i].claim}
Made == {i \in Claims : decisions[i].status = "ASSIGNED"} \cup (Held("offered") \cap Claims)
Free == Claims \ Held("callback")

OfferInv == Cardinality(Made) <= offers /\ offers <= Cardinality(Free)

PostRows == [step : {"idle", "claim", "read", "reclaimGone", "reclaim", "handler",
                     "answered", "died"},
             answer : {"none", "replayed", "conflict", "failed", "created"},
             ran : BOOLEAN]

ReplayInv == post \in [Posts -> PostRows] /\ ReplayIsReal

DispatchInv == TypeOK /\ RequestInv /\ DecisionInv /\ OfferInv

-----------------------------------------------------------------------------
(* Requests.                                                                *)

LEMMA IdleRows ==
  ASSUME NEW e \in Events, NEW st \in Loose,
         NEW a \in {"none", "success", "ignored", "rejected", "unavailable", "error"}
  PROVE  /\ IdleRequest(e) \in RequestRows /\ IdleRequest(e).step \in Loose
         /\ [IdleRequest(e) EXCEPT !.step = st, !.answer = a] \in RequestRows
         /\ [IdleRequest(e) EXCEPT !.step = st, !.answer = a].step \in Loose
<1>1. IdleRequest(e) \in RequestRows /\ IdleRequest(e).step \in Loose
  BY DEF IdleRequest, RequestRows, Steps, Loose, NoId
<1>2. /\ [IdleRequest(e) EXCEPT !.step = st, !.answer = a] \in RequestRows
      /\ [IdleRequest(e) EXCEPT !.step = st, !.answer = a].step = st
  BY <1>1 DEF RequestRows, Steps
<1> QED BY <1>1, <1>2

LEMMA LooseOK ==
  ASSUME NEW k, NEW ds, NEW n, k.step \in Loose
  PROVE  ReqOK(k, ds, n)
  BY DEF ReqOK, Loose, Scoring, Claiming

LEMMA RequestUpdate ==
  ASSUME req \in [Requests -> RequestRows], NEW r \in Requests, NEW k \in RequestRows,
         req' = [req EXCEPT ![r] = k]
  PROVE  /\ req' \in [Requests -> RequestRows]
         /\ req'[r] = k
         /\ \A s \in Requests \ {r} : req'[s] = req[s]
  OBVIOUS

LEMMA FiniteClaims ==
  ASSUME NEW ds \in Seq(Decisions), NEW S, S \subseteq DOMAIN ds
  PROVE  IsFiniteSet(S) /\ Cardinality(S) \in Nat
<1>1. DOMAIN ds = 1 .. Len(ds) /\ Len(ds) \in Nat
  OBVIOUS
<1>2. IsFiniteSet(DOMAIN ds)
  BY <1>1, FS_Interval
<1>3. IsFiniteSet(S)
  BY <1>2, FS_Subset
<1> QED BY <1>3, FS_CardinalityType

(* What the rows of the others rest on is not touched.                      *)
LEMMA OthersKept ==
  ASSUME TypeOK, RequestInv, NEW r \in Requests, NEW k \in RequestRows,
         req' = [req EXCEPT ![r] = k], UNCHANGED config,
         ReqOK(k, decisions', config.lowest),
         \A i \in DOMAIN decisions :
           /\ i \in DOMAIN decisions'
           /\ decisions'[i].method = decisions[i].method
           /\ decisions'[i].claim = decisions[i].claim
           /\ decisions'[i].claim =>
                \/ decisions'[i].status = decisions[i].status
                \/ req[r].step \in Claiming /\ i = req[r].claimed,
         k.step \in Claiming => \/ k.claimed \notin DOMAIN decisions
                                \/ req[r].step \in Claiming /\ k.claimed = req[r].claimed
  PROVE  RequestInv'
<1>1. req \in [Requests -> RequestRows]
  BY DEF TypeOK
<1>2. /\ req'[r] = k
      /\ \A s \in Requests \ {r} : req'[s] = req[s]
  BY <1>1, RequestUpdate
<1>3. ASSUME NEW s \in Requests PROVE ReqOK(req'[s], decisions', config'.lowest)
  <2>1. CASE s = r
    BY <1>2, <2>1
  <2>2. CASE s # r
    <3>1. req'[s] = req[s] /\ ReqOK(req[s], decisions, config.lowest)
      BY <1>2, <2>2 DEF RequestInv
    <3>2. req[s].step \in Claiming /\ req[r].step \in Claiming => req[s].claimed # req[r].claimed
      BY <2>2 DEF RequestInv
    <3> QED BY <3>1, <3>2 DEF ReqOK
  <2> QED BY <2>1, <2>2
<1>4. ASSUME NEW s \in Requests, NEW u \in Requests, req'[s].step \in Claiming,
             req'[u].step \in Claiming, req'[s].claimed = req'[u].claimed
      PROVE  s = u
  <2>1. \A v \in Requests : req[v].step \in Claiming => req[v].claimed \in DOMAIN decisions
    BY DEF RequestInv, ReqOK
  <2>2. CASE s # r /\ u # r
    BY <1>2, <1>4, <2>2 DEF RequestInv
  <2>3. CASE s = r /\ u # r
    BY <1>2, <1>4, <2>1, <2>3 DEF RequestInv
  <2>4. CASE s # r /\ u = r
    BY <1>2, <1>4, <2>1, <2>4 DEF RequestInv
  <2> QED BY <2>2, <2>3, <2>4
<1> QED BY <1>3, <1>4 DEF RequestInv

(* Whatever leaves the count of the offers between its two bounds.          *)
LEMMA OffersBounded ==
  ASSUME TypeOK, TypeOK', OfferInv, NEW c,
         \/ offers' = offers /\ Made' \subseteq Made /\ Free \subseteq Free'
         \/ /\ offers' = offers + 1 /\ Made' \subseteq Made \cup {c}
            /\ Free \cup {c} \subseteq Free' /\ c \notin Free
  PROVE  OfferInv'
<1>1. /\ IsFiniteSet(Made) /\ IsFiniteSet(Free) /\ IsFiniteSet(Made') /\ IsFiniteSet(Free')
      /\ Cardinality(Made) \in Nat /\ Cardinality(Free) \in Nat
      /\ Cardinality(Made') \in Nat /\ Cardinality(Free') \in Nat
  <2>1. decisions \in Seq(Decisions) /\ decisions' \in Seq(Decisions)
    BY DEF TypeOK
  <2>2. /\ Made \subseteq DOMAIN decisions /\ Free \subseteq DOMAIN decisions
        /\ Made' \subseteq DOMAIN decisions' /\ Free' \subseteq DOMAIN decisions'
    BY DEF Made, Free, Claims
  <2> QED BY <2>1, <2>2, FiniteClaims
<1>2. offers \in Nat
  BY DEF TypeOK
<1>3. CASE offers' = offers /\ Made' \subseteq Made /\ Free \subseteq Free'
  <2>1. Cardinality(Made') <= Cardinality(Made) /\ Cardinality(Free) <= Cardinality(Free')
    BY <1>1, <1>3, FS_Subset
  <2> QED BY <1>1, <1>2, <1>3, <2>1 DEF OfferInv
<1>4. CASE /\ offers' = offers + 1 /\ Made' \subseteq Made \cup {c}
           /\ Free \cup {c} \subseteq Free' /\ c \notin Free
  <2>1. /\ IsFiniteSet(Made \cup {c}) /\ Cardinality(Made \cup {c}) \in Nat
        /\ Cardinality(Made \cup {c}) <= Cardinality(Made) + 1
    <3>1. /\ IsFiniteSet(Made \cup {c})
          /\ Cardinality(Made \cup {c}) =
               IF c \in Made THEN Cardinality(Made) ELSE Cardinality(Made) + 1
      BY <1>1, FS_AddElement
    <3> QED BY <1>1, <3>1
  <2>2. /\ IsFiniteSet(Free \cup {c})
        /\ Cardinality(Free \cup {c}) = Cardinality(Free) + 1
    BY <1>1, <1>4, FS_AddElement
  <2>3. Cardinality(Made') <= Cardinality(Made \cup {c})
    BY <1>4, <2>1, FS_Subset
  <2>4. Cardinality(Free \cup {c}) <= Cardinality(Free')
    BY <1>1, <1>4, FS_Subset
  <2> QED BY <1>1, <1>2, <1>4, <2>1, <2>2, <2>3, <2>4 DEF OfferInv
<1> QED BY <1>3, <1>4

(* A request moves on, and none of its claims is in its hands afterwards.   *)
LEMMA HeldShrinks ==
  ASSUME TypeOK, RequestInv, NEW r \in Requests, NEW k \in RequestRows,
         req' = [req EXCEPT ![r] = k], k.step \notin Claiming
  PROVE  /\ Held("offered")' \subseteq Held("offered")
         /\ Held("callback")' \subseteq Held("callback")
         /\ req[r].step \in Claiming => req[r].claimed \notin Held("callback")'
<1>1. /\ req'[r] = k
      /\ \A s \in Requests \ {r} : req'[s] = req[s]
  BY RequestUpdate DEF TypeOK
<1>2. \A s \in Requests : req'[s].step \in Claiming => s # r /\ req'[s] = req[s]
  BY <1>1
<1> QED BY <1>2 DEF Held, Claiming, RequestInv

LEMMA Quiet ==
  ASSUME DispatchInv, NEW r \in Requests, NEW k \in RequestRows, req' = [req EXCEPT ![r] = k],
         k.step \notin Claiming, ReqOK(k, decisions, config.lowest),
         UNCHANGED <<offers, decisions, config>>,
         delivery' \in {"none", "PENDING", "ASSIGNED", "CANCELLED"}
  PROVE  DispatchInv'
<1>1. TypeOK'
  BY RequestUpdate DEF DispatchInv, TypeOK
<1>2. RequestInv'
  BY OthersKept DEF DispatchInv
<1>3. DecisionInv'
  BY DEF DispatchInv, DecisionInv
<1>4. Made' \subseteq Made /\ Free \subseteq Free'
  BY HeldShrinks DEF DispatchInv, Made, Free, Claims
<1>5. OfferInv'
  BY <1>1, <1>4, OffersBounded DEF DispatchInv
<1> QED BY <1>1, <1>2, <1>3, <1>5 DEF DispatchInv

LEMMA StatusUpdate ==
  ASSUME decisions \in Seq(Decisions), NEW id \in DOMAIN decisions,
         NEW st \in {"PENDING", "ASSIGNED", "FAILED"},
         decisions' = [decisions EXCEPT ![id].status = st]
  PROVE  /\ decisions' \in Seq(Decisions)
         /\ DOMAIN decisions' = DOMAIN decisions
         /\ \A i \in DOMAIN decisions :
              /\ decisions'[i].method = decisions[i].method
              /\ decisions'[i].claim = decisions[i].claim
              /\ decisions'[i].status = IF i = id THEN st ELSE decisions[i].status
<1> DEFINE d == [decisions[id] EXCEPT !.status = st]
<1>1. decisions[id] \in Decisions
  OBVIOUS
<1>2. d \in Decisions /\ d.method = decisions[id].method /\ d.claim = decisions[id].claim /\ d.status = st
  BY <1>1 DEF Decisions
<1>3. decisions' = [decisions EXCEPT ![id] = d]
  OBVIOUS
<1> HIDE DEF d
<1> QED BY <1>2, <1>3

(* A request stores the outcome of its own decision or of its claim.        *)
LEMMA Stored ==
  ASSUME DispatchInv, NEW r \in Requests, NEW k \in RequestRows, req' = [req EXCEPT ![r] = k],
         k.step \notin Claiming, ReqOK(k, decisions, config.lowest),
         NEW id \in DOMAIN decisions, NEW st \in {"ASSIGNED", "FAILED"}, Store(id, st),
         UNCHANGED <<config, delivery>>,
         decisions[id].claim => req[r].step \in Claiming /\ id = req[r].claimed,
         decisions[id].claim /\ st = "ASSIGNED" => req[r].step = "offered",
         decisions[id].method = "SCORING_BASED" /\ st = "ASSIGNED" => config.lowest = 0,
         offers' = offers \/ (offers' = offers + 1 /\ req[r].step = "callback")
  PROVE  DispatchInv'
<1> USE DEF DispatchInv
<1>1. /\ decisions' \in Seq(Decisions)
      /\ DOMAIN decisions' = DOMAIN decisions
      /\ \A i \in DOMAIN decisions :
           /\ decisions'[i].method = decisions[i].method
           /\ decisions'[i].claim = decisions[i].claim
           /\ decisions'[i].status = IF i = id THEN st ELSE decisions[i].status
  <2>1. /\ st \in {"PENDING", "ASSIGNED", "FAILED"} /\ decisions \in Seq(Decisions)
        /\ decisions' = [decisions EXCEPT ![id].status = st]
    BY DEF Store, TypeOK
  <2> QED BY <2>1, StatusUpdate
<1>2. TypeOK'
  <2>1. req' \in [Requests -> RequestRows]
    BY RequestUpdate DEF TypeOK
  <2>2. offers' \in Nat
    BY DEF TypeOK
  <2> QED BY <1>1, <2>1, <2>2 DEF TypeOK
<1>3. ReqOK(k, decisions', config.lowest)
  BY <1>1 DEF ReqOK
<1>4. RequestInv'
  BY <1>1, <1>3, OthersKept
<1>5. DecisionInv'
  BY <1>1 DEF DecisionInv
<1>6. /\ Held("offered")' \subseteq Held("offered")
      /\ Held("callback")' \subseteq Held("callback")
      /\ req[r].step \in Claiming => req[r].claimed \notin Held("callback")'
  BY HeldShrinks
<1>7. Claims' = Claims
  BY <1>1 DEF Claims
<1>8. Made' \subseteq Made
  <2>1. decisions[id].claim /\ st = "ASSIGNED" => id \in Held("offered")
    BY DEF Held
  <2> QED BY <1>1, <1>6, <1>7, <2>1 DEF Made, Claims
<1>9. Free \subseteq Free'
  BY <1>6, <1>7 DEF Free
<1>10. req[r].step = "callback" =>
         LET c == req[r].claimed IN c \in Free' /\ c \notin Free
  <2> SUFFICES ASSUME req[r].step = "callback"
               PROVE  req[r].claimed \in Free' /\ req[r].claimed \notin Free
    OBVIOUS
  <2>1. req[r].claimed \in Claims /\ req[r].claimed \in Held("callback")
    BY DEF RequestInv, ReqOK, Claiming, Claims, Held
  <2> QED BY <1>6, <1>7, <2>1 DEF Free, Claiming
<1>11. OfferInv'
  <2>1. CASE offers' = offers
    BY <1>2, <1>8, <1>9, <2>1, OffersBounded
  <2>2. CASE offers' = offers + 1 /\ req[r].step = "callback"
    BY <1>2, <1>8, <1>9, <1>10, <2>2, OffersBounded
  <2> QED BY <2>1, <2>2
<1> QED BY <1>2, <1>4, <1>5, <1>11

(* A row is appended, which no claim in hand refers to.                     *)
LEMMA Appended ==
  ASSUME DispatchInv, NEW r \in Requests, NEW k \in RequestRows, req' = [req EXCEPT ![r] = k],
         NEW method \in {"LEGACY", "SCORING_BASED"}, NEW claim \in BOOLEAN,
         decisions' = Append(decisions, NewDecision(method, claim)),
         claim => method = "LEGACY" /\ k.step = "callback" /\ k.claimed = Len(decisions) + 1,
         ~claim => k.step \notin Claiming,
         req[r].step \notin Claiming,
         ReqOK(k, decisions', config.lowest), UNCHANGED <<config, delivery, offers>>
  PROVE  DispatchInv'
<1> USE DEF DispatchInv
<1> DEFINE n == Len(decisions) + 1
           d == NewDecision(method, claim)
<1>1. d \in Decisions /\ d.method = method /\ d.claim = claim /\ d.status = "PENDING"
  BY DEF NewDecision, Decisions
<1> HIDE DEF d
<1>2. /\ decisions' \in Seq(Decisions) /\ n \notin DOMAIN decisions
      /\ DOMAIN decisions' = DOMAIN decisions \cup {n}
      /\ decisions'[n] = d
      /\ \A i \in DOMAIN decisions : decisions'[i] = decisions[i]
  BY <1>1 DEF TypeOK, d
<1> HIDE DEF n
<1>3. TypeOK'
  BY <1>2, RequestUpdate DEF TypeOK
<1>4. RequestInv'
  BY <1>2, OthersKept DEF Claiming, n
<1>5. DecisionInv'
  BY <1>1, <1>2 DEF DecisionInv
<1>6. /\ req'[r] = k
      /\ \A s \in Requests \ {r} : req'[s] = req[s]
  BY RequestUpdate DEF TypeOK
<1>7. Claims' = IF claim THEN Claims \cup {n} ELSE Claims
  BY <1>1, <1>2 DEF Claims
<1>8. Held("offered")' = Held("offered")
  <2>1. k.step # "offered" /\ req[r].step # "offered"
    BY DEF Claiming
  <2> QED BY <1>6, <2>1 DEF Held
<1>9. Held("callback")' = IF claim THEN Held("callback") \cup {n} ELSE Held("callback")
  <2>1. req[r].step # "callback" /\ (~claim => k.step # "callback")
    BY DEF Claiming
  <2> QED BY <1>6, <2>1 DEF Held, n
<1>10. n \notin Held("offered")
  BY <1>2 DEF Held, RequestInv, ReqOK, Claiming
<1>11. Made' \subseteq Made /\ Free \subseteq Free'
  <2>1. Made' \subseteq Made
    BY <1>1, <1>2, <1>7, <1>8, <1>10 DEF Made, Claims
  <2>2. Free \subseteq Free'
    BY <1>2, <1>7, <1>9 DEF Free, Claims
  <2> QED BY <2>1, <2>2
<1>12. OfferInv'
  BY <1>3, <1>11, OffersBounded
<1> QED BY <1>3, <1>4, <1>5, <1>12

-----------------------------------------------------------------------------
(* The steps of a request.                                                  *)

LEMMA EndedInv ==
  ASSUME DispatchInv, NEW r \in Requests, NEW st \in Loose,
         NEW a \in {"none", "success", "ignored", "rejected", "unavailable", "error"},
         Ended(r, st, a), UNCHANGED <<delivery, offers, decisions, config>>
  PROVE  DispatchInv'
<1> DEFINE k == [IdleRequest(req[r].event) EXCEPT !.step = st, !.answer = a]
<1>1. req[r].event \in Events
  BY DEF DispatchInv, TypeOK, RequestRows
<1>2. k \in RequestRows /\ k.step \in Loose
  BY <1>1, IdleRows
<1>3. req' = [req EXCEPT ![r] = k]
  BY DEF Ended
<1> HIDE DEF k
<1>4. k.step \notin Claiming /\ ReqOK(k, decisions, config.lowest)
  BY <1>2, LooseOK DEF Loose, Claiming
<1>5. delivery' \in {"none", "PENDING", "ASSIGNED", "CANCELLED"}
  BY DEF DispatchInv, TypeOK
<1> QED BY <1>2, <1>3, <1>4, <1>5, Quiet

(* Steps up to the decision, and the last one, keep nothing of decisions.   *)
LEMMA LooseStepInv ==
  ASSUME DispatchInv, NEW r \in Requests, NEW st \in Loose,
         NEW a \in {"none", "success", "ignored", "rejected", "unavailable", "error"},
         req' = [req EXCEPT ![r].step = st, ![r].answer = a],
         UNCHANGED <<offers, decisions, config>>,
         delivery' \in {"none", "PENDING", "ASSIGNED", "CANCELLED"}
  PROVE  DispatchInv'
<1> DEFINE k == [req[r] EXCEPT !.step = st, !.answer = a]
<1>1. req[r] \in RequestRows
  BY DEF DispatchInv, TypeOK
<1>2. k \in RequestRows /\ k.step = st
  BY <1>1 DEF RequestRows, Steps
<1>3. req' = [req EXCEPT ![r] = k]
  BY DEF DispatchInv, TypeOK
<1> HIDE DEF k
<1>4. k.step \notin Claiming /\ ReqOK(k, decisions, config.lowest)
  BY <1>2, LooseOK DEF Loose, Claiming
<1> QED BY <1>2, <1>3, <1>4, Quiet

LEMMA LooseGotoInv ==
  ASSUME DispatchInv, NEW r \in Requests, NEW st \in Loose, Goto(r, st),
         UNCHANGED <<offers, decisions, config>>,
         delivery' \in {"none", "PENDING", "ASSIGNED", "CANCELLED"}
  PROVE  DispatchInv'
<1>1. req[r] \in RequestRows
  BY DEF DispatchInv, TypeOK
<1>2. req' = [req EXCEPT ![r].step = st, ![r].answer = req[r].answer]
  <2>1. [req[r] EXCEPT !.step = st] = [req[r] EXCEPT !.step = st, !.answer = req[r].answer]
    BY <1>1 DEF RequestRows
  <2>2. req' = [req EXCEPT ![r] = [req[r] EXCEPT !.step = st]]
    BY DEF Goto
  <2>3. req' = [req EXCEPT ![r] = [req[r] EXCEPT !.step = st, !.answer = req[r].answer]]
    BY <2>1, <2>2
  <2> QED BY <2>3 DEF DispatchInv, TypeOK
<1>3. req[r].answer \in {"none", "success", "ignored", "rejected", "unavailable", "error"}
  BY <1>1 DEF RequestRows
<1> QED BY <1>2, <1>3, LooseStepInv

LEMMA EarlyStepsInv ==
  ASSUME DispatchInv, NEW r \in Requests,
         \/ Arrive(r) \/ ValidateSignature(r) \/ CheckEventKey(r) \/ FindDelivery(r)
         \/ CreateDelivery(r) \/ MarkEventKey(r) \/ Die(r)
  PROVE  DispatchInv'
<1>1. delivery \in {"none", "PENDING", "ASSIGNED", "CANCELLED"} /\ req[r] \in RequestRows
  BY DEF DispatchInv, TypeOK
<1>2. {"key", "find", "create", "mark", "eligible", "answered", "died"} \subseteq Loose
  BY DEF Loose
<1>3. CASE Arrive(r)
  BY <1>1, <1>2, <1>3, LooseGotoInv DEF Arrive
<1>4. CASE ValidateSignature(r)
  BY <1>2, <1>4, EndedInv DEF ValidateSignature, Answer
<1>5. CASE CheckEventKey(r)
  BY <1>1, <1>2, <1>5, EndedInv, LooseGotoInv DEF CheckEventKey, Answer
<1>6. CASE FindDelivery(r)
  BY <1>1, <1>2, <1>6, LooseStepInv, LooseGotoInv DEF FindDelivery
<1>7. CASE CreateDelivery(r)
  <2>1. CASE delivery = "none"
    BY <1>1, <1>2, <1>7, <2>1, LooseGotoInv DEF CreateDelivery
  <2>2. CASE delivery # "none"
    BY <1>1, <1>2, <1>7, <2>2, LooseStepInv DEF CreateDelivery
  <2> QED BY <2>1, <2>2
<1>8. CASE MarkEventKey(r)
  <2>1. req[r].answer \in {"none", "success", "ignored", "rejected", "unavailable", "error"}
    BY <1>1 DEF RequestRows
  <2> QED BY <1>2, <1>8, <2>1, EndedInv DEF MarkEventKey, Answer
<1>9. CASE Die(r)
  BY <1>2, <1>9, EndedInv DEF Die
<1> QED BY <1>3, <1>4, <1>5, <1>6, <1>7, <1>8, <1>9

LEMMA SendAgainInv ==
  ASSUME DispatchInv, NEW r \in Requests, SendAgain(r)
  PROVE  DispatchInv'
<1> DEFINE k == IdleRequest(req[r].event)
<1>1. req[r].event \in Events
  BY DEF DispatchInv, TypeOK, RequestRows
<1>2. k \in RequestRows /\ k.step \in Loose
  <2>1. "idle" \in Loose
    BY DEF Loose
  <2> QED BY <1>1, <2>1, IdleRows
<1>3. /\ req' = [req EXCEPT ![r] = k]
      /\ UNCHANGED <<delivery, offers, decisions, config>>
  BY DEF SendAgain
<1> HIDE DEF k
<1>4. k.step \notin Claiming /\ ReqOK(k, decisions, config.lowest)
  BY <1>2, LooseOK DEF Loose, Claiming
<1>5. delivery' \in {"none", "PENDING", "ASSIGNED", "CANCELLED"}
  BY <1>3 DEF DispatchInv, TypeOK
<1> QED BY <1>2, <1>3, <1>4, <1>5, Quiet

LEMMA EligibleInv ==
  ASSUME DispatchInv, NEW r \in Requests, GetEligibleDrivers(r)
  PROVE  DispatchInv'
<1>1. PICK available \in SUBSET Drivers :
        req' = [req EXCEPT ![r].step = "decide",
                           ![r].eligible = {d \in available : IsEligible(d)}]
  BY DEF GetEligibleDrivers
<1> DEFINE e == {d \in available : IsEligible(d)}
           k == [req[r] EXCEPT !.step = "decide", !.eligible = e]
<1>2. e \in SUBSET Drivers
  OBVIOUS
<1>3. req' = [req EXCEPT ![r] = k] /\ req[r] \in RequestRows
  BY <1>1 DEF DispatchInv, TypeOK
<1> HIDE DEF e
<1>4. k \in RequestRows /\ k.step \in Loose
  BY <1>2, <1>3 DEF RequestRows, Steps, Loose
<1> HIDE DEF k
<1>5. k.step \notin Claiming /\ ReqOK(k, decisions, config.lowest)
  BY <1>4, LooseOK DEF Loose, Claiming
<1>6. /\ UNCHANGED <<offers, decisions, config>>
      /\ delivery' \in {"none", "PENDING", "ASSIGNED", "CANCELLED"}
  BY DEF GetEligibleDrivers, DispatchInv, TypeOK
<1> QED BY <1>3, <1>4, <1>5, <1>6, Quiet

LEMMA PersistDecisionInv ==
  ASSUME DispatchInv, NEW r \in Requests, PersistDecision(r)
  PROVE  DispatchInv'
<1> DEFINE scoring == InScoringCohort
           method == IF scoring THEN "SCORING_BASED" ELSE "LEGACY"
           n == Len(decisions) + 1
           st == IF scoring THEN "health" ELSE "query"
           k == [req[r] EXCEPT !.own = n, !.scoring = scoring, !.step = st]
<1>1. /\ req[r] \in RequestRows /\ req[r].step = "decide" /\ n \in Nat
      /\ decisions \in Seq(Decisions)
  BY DEF DispatchInv, TypeOK, PersistDecision, At
<1>2. /\ req' = [req EXCEPT ![r] = k]
      /\ decisions' = Append(decisions, NewDecision(method, FALSE))
      /\ UNCHANGED <<config, delivery, offers>>
  BY DEF PersistDecision, DispatchInv, TypeOK
<1>3. scoring \in BOOLEAN
  BY DEF InScoringCohort
<1>4. st \in {"health", "query"} /\ method \in {"LEGACY", "SCORING_BASED"}
  OBVIOUS
<1>5. n \in DOMAIN decisions' /\ decisions'[n] = NewDecision(method, FALSE)
  <2> DEFINE d == NewDecision(method, FALSE)
  <2>1. d \in Decisions
    BY <1>4 DEF NewDecision, Decisions
  <2>2. decisions' = Append(decisions, d)
    BY <1>2
  <2> HIDE DEF d
  <2>3. n \in DOMAIN decisions' /\ decisions'[n] = d
    BY <1>1, <2>1, <2>2
  <2> QED BY <2>3 DEF d
<1>6. ~decisions'[n].claim /\ decisions'[n].method = method
  BY <1>5 DEF NewDecision
<1>7. st = "health" <=> scoring
  OBVIOUS
<1>8. method = IF scoring THEN "SCORING_BASED" ELSE "LEGACY"
  OBVIOUS
<1> HIDE DEF n, st, scoring, method
<1>9. /\ k \in RequestRows /\ k.step = st /\ k.own = n /\ k.scoring = scoring
  BY <1>1, <1>3, <1>4 DEF RequestRows, Steps, Scoring
<1> HIDE DEF k
<1>10. ReqOK(k, decisions', config.lowest)
  BY <1>4, <1>5, <1>6, <1>7, <1>8, <1>9 DEF ReqOK, Scoring, Claiming
<1>11. k.step \notin Claiming /\ req[r].step \notin Claiming
  BY <1>1, <1>4, <1>9 DEF Claiming
<1> QED BY <1>2, <1>4, <1>9, <1>10, <1>11, Appended

(* The request's own PENDING decision counts, so a threshold above zero and *)
(* no scoring decision ASSIGNED mean a low acceptance rate.                 *)
LEMMA OwnDecisionCounts ==
  ASSUME DispatchInv, NEW r \in Requests, req[r].step = "health", ~LowAcceptanceRate
  PROVE  config.lowest = 0
<1> SUFFICES ASSUME config.lowest # 0 PROVE FALSE
  OBVIOUS
<1> DEFINE S == {i \in DOMAIN decisions : IsScoring(decisions[i])}
           A == {i \in DOMAIN decisions : IsScoringAssigned(decisions[i])}
<1>1. config.minAcceptance \in Nat /\ config.minAcceptance > 0 /\ decisions \in Seq(Decisions)
  BY DEF DispatchInv, TypeOK
<1>2. A = {}
  BY DEF DispatchInv, DecisionInv, IsScoringAssigned, IsScoring
<1>3. Cardinality(A) = 0
  BY <1>2, FS_EmptySet
<1>4. S # {}
  <2>1. ReqOK(req[r], decisions, config.lowest)
    BY DEF DispatchInv, RequestInv
  <2>2. req[r].step \notin Loose /\ req[r].step \in Scoring
    BY DEF Loose, Scoring
  <2>3. req[r].own \in S
    BY <2>1, <2>2 DEF ReqOK, IsScoring
  <2> QED BY <2>3
<1>5. IsFiniteSet(S) /\ Cardinality(S) \in Nat
  BY <1>1, FiniteClaims
<1>6. Cardinality(S) > 0
  BY <1>4, <1>5, FS_EmptySet
<1>7. Rows(IsScoring) = Cardinality(S) /\ Rows(IsScoringAssigned) = Cardinality(A)
  BY DEF Rows
<1>8. \A a, b \in Nat : a > 0 /\ b > 0 => a * b > 0
  OBVIOUS
<1>9. config.minAcceptance * Cardinality(S) > 0
  BY <1>1, <1>5, <1>6, <1>8
<1> HIDE DEF S, A
<1> QED BY <1>3, <1>6, <1>7, <1>9 DEF LowAcceptanceRate

LEMMA HealthCheckInv ==
  ASSUME DispatchInv, NEW r \in Requests, HealthCheck(r)
  PROVE  DispatchInv'
<1>1. /\ req[r] \in RequestRows /\ req[r].step = "health"
      /\ ReqOK(req[r], decisions, config.lowest)
  BY DEF DispatchInv, TypeOK, RequestInv, HealthCheck, At
<1>2. UNCHANGED <<config, delivery, offers>>
  BY DEF HealthCheck
<1>3. PICK slow \in BOOLEAN :
         IF ShouldFallback(slow)
         THEN Store(req[r].own, "FAILED") /\ Goto(r, "query")
         ELSE UNCHANGED decisions /\ Goto(r, "scoring")
  BY DEF HealthCheck
<1>4. /\ req[r].own \in DOMAIN decisions /\ ~decisions[req[r].own].claim
      /\ decisions[req[r].own].method = "SCORING_BASED" /\ req[r].scoring
  BY <1>1 DEF ReqOK, Loose, Scoring
<1>5. CASE ShouldFallback(slow)
  <2> DEFINE k == [req[r] EXCEPT !.step = "query"]
  <2>1. req' = [req EXCEPT ![r] = k] /\ Store(req[r].own, "FAILED")
    BY <1>3, <1>5 DEF Goto
  <2>2. k \in RequestRows /\ k.step = "query" /\ k.own = req[r].own /\ k.scoring = req[r].scoring
    BY <1>1 DEF RequestRows, Steps
  <2> HIDE DEF k
  <2>3. ReqOK(k, decisions, config.lowest) /\ k.step \notin Claiming
    BY <1>4, <2>2 DEF ReqOK, Scoring, Claiming
  <2> QED BY <1>2, <1>4, <2>1, <2>2, <2>3, Stored
<1>6. CASE ~ShouldFallback(slow)
  <2> DEFINE k == [req[r] EXCEPT !.step = "scoring"]
  <2>1. req' = [req EXCEPT ![r] = k] /\ UNCHANGED decisions
    BY <1>3, <1>6 DEF Goto
  <2>2. k \in RequestRows /\ k.step = "scoring" /\ k.own = req[r].own /\ k.scoring = req[r].scoring
    BY <1>1 DEF RequestRows, Steps, Scoring
  <2> HIDE DEF k
  <2>3. config.lowest = 0
    BY <1>1, <1>6, OwnDecisionCounts DEF ShouldFallback
  <2>4. ReqOK(k, decisions, config.lowest) /\ k.step \notin Claiming
    BY <1>4, <2>2, <2>3 DEF ReqOK, Claiming
  <2>5. delivery' \in {"none", "PENDING", "ASSIGNED", "CANCELLED"}
    BY <1>2 DEF DispatchInv, TypeOK
  <2> QED BY <1>2, <2>1, <2>2, <2>4, <2>5, Quiet
<1> QED BY <1>5, <1>6

LEMMA ScoringInv ==
  ASSUME DispatchInv, NEW r \in Requests, ExecuteScoringDispatch(r)
  PROVE  DispatchInv'
<1>1. /\ req[r] \in RequestRows /\ req[r].step = "scoring"
      /\ ReqOK(req[r], decisions, config.lowest)
  BY DEF DispatchInv, TypeOK, RequestInv, ExecuteScoringDispatch, At
<1>2. UNCHANGED <<config, delivery, offers>>
  BY DEF ExecuteScoringDispatch
<1>3. CASE req[r].eligible = {}
  <2>1. "answered" \in Loose
    BY DEF Loose
  <2> QED BY <1>2, <1>3, <2>1, EndedInv DEF ExecuteScoringDispatch, Answer
<1>4. CASE req[r].eligible # {}
  <2> DEFINE k == [req[r] EXCEPT !.step = "mark", !.answer = "success"]
  <2>1. req' = [req EXCEPT ![r] = k] /\ Store(req[r].own, "ASSIGNED")
    BY <1>4 DEF ExecuteScoringDispatch, DispatchInv, TypeOK
  <2>2. k \in RequestRows /\ k.step \in Loose
    BY <1>1 DEF RequestRows, Steps, Loose
  <2> HIDE DEF k
  <2>3. ReqOK(k, decisions, config.lowest) /\ k.step \notin Claiming
    BY <2>2, LooseOK DEF Loose, Claiming
  <2>4. /\ req[r].own \in DOMAIN decisions /\ ~decisions[req[r].own].claim
        /\ config.lowest = 0
    BY <1>1 DEF ReqOK, Loose
  <2> QED BY <1>2, <2>1, <2>2, <2>3, <2>4, Stored
<1> QED BY <1>3, <1>4

(* What FallbackReturned makes of a request that has no claim in hand.      *)
LEMMA FallbackRows ==
  ASSUME NEW r \in Requests, NEW m, req[r] \in RequestRows, req[r].step \notin Loose,
         ReqOK(req[r], decisions, m)
  PROVE  /\ FallbackReturned(r) \in RequestRows
         /\ FallbackReturned(r).step \notin Claiming
         /\ ReqOK(FallbackReturned(r), decisions, m)
<1>1. CASE req[r].scoring \/ req[r].attempt = 2
  <2> DEFINE k == [req[r] EXCEPT !.step = "mark", !.answer = "success"]
  <2>1. k \in RequestRows /\ k.step \in Loose
    BY DEF RequestRows, Steps, Loose
  <2>2. FallbackReturned(r) = k
    BY <1>1 DEF FallbackReturned
  <2> HIDE DEF k
  <2> QED BY <2>1, <2>2, LooseOK DEF Loose, Claiming
<1>2. CASE ~(req[r].scoring \/ req[r].attempt = 2)
  <2> DEFINE k == [req[r] EXCEPT !.step = "settle", !.outcome = "ASSIGNED"]
  <2>1. /\ k \in RequestRows /\ k.step = "settle" /\ k.outcome = "ASSIGNED"
        /\ k.own = req[r].own /\ k.scoring = req[r].scoring
    BY DEF RequestRows, Steps
  <2>2. FallbackReturned(r) = k
    BY <1>2 DEF FallbackReturned
  <2> HIDE DEF k
  <2> QED BY <1>2, <2>1, <2>2 DEF ReqOK, Scoring, Claiming
<1> QED BY <1>1, <1>2

LEMMA ClaimQueryInv ==
  ASSUME DispatchInv, NEW r \in Requests, ClaimQuery(r)
  PROVE  DispatchInv'
<1> DEFINE q == {i \in DOMAIN decisions : decisions[i].method = "LEGACY"}
           k == [req[r] EXCEPT !.step = "claim", !.rows = q]
<1>1. /\ req[r] \in RequestRows /\ req[r].step = "query"
      /\ ReqOK(req[r], decisions, config.lowest)
  BY DEF DispatchInv, TypeOK, RequestInv, ClaimQuery, At
<1>2. q \in SUBSET Nat
  BY DEF DispatchInv, TypeOK
<1>3. req' = [req EXCEPT ![r] = k] /\ UNCHANGED <<offers, decisions, config>>
  BY DEF ClaimQuery, DispatchInv, TypeOK
<1> HIDE DEF q
<1>4. k \in RequestRows /\ k.step = "claim" /\ k.own = req[r].own /\ k.scoring = req[r].scoring
  BY <1>1, <1>2 DEF RequestRows, Steps
<1> HIDE DEF k
<1>5. ReqOK(k, decisions, config.lowest) /\ k.step \notin Claiming
  BY <1>1, <1>4 DEF ReqOK, Scoring, Claiming, Loose
<1>6. delivery' \in {"none", "PENDING", "ASSIGNED", "CANCELLED"}
  BY DEF ClaimQuery, DispatchInv, TypeOK
<1> QED BY <1>3, <1>4, <1>5, <1>6, Quiet

LEMMA ClaimInv ==
  ASSUME DispatchInv, NEW r \in Requests, Claim(r)
  PROVE  DispatchInv'
<1>1. /\ req[r] \in RequestRows /\ req[r].step = "claim"
      /\ ReqOK(req[r], decisions, config.lowest)
      /\ decisions \in Seq(Decisions)
  BY DEF DispatchInv, TypeOK, RequestInv, Claim, At
<1>2. UNCHANGED <<config, delivery, offers>>
  BY DEF Claim
<1>3. \/ /\ decisions' = Append(decisions, NewDecision("LEGACY", TRUE))
         /\ req' = [req EXCEPT ![r].step = "callback", ![r].rows = {},
                               ![r].claimed = Len(decisions) + 1]
      \/ /\ req' = [req EXCEPT ![r] = [FallbackReturned(r) EXCEPT !.rows = {}]]
         /\ UNCHANGED decisions
  BY DEF Claim
<1>4. CASE /\ decisions' = Append(decisions, NewDecision("LEGACY", TRUE))
           /\ req' = [req EXCEPT ![r].step = "callback", ![r].rows = {},
                                 ![r].claimed = Len(decisions) + 1]
  <2> DEFINE n == Len(decisions) + 1
             d == NewDecision("LEGACY", TRUE)
             k == [req[r] EXCEPT !.step = "callback", !.rows = {}, !.claimed = n]
  <2>1. d \in Decisions /\ d.claim /\ d.status = "PENDING"
    BY DEF NewDecision, Decisions
  <2>2. decisions' = Append(decisions, d) /\ n \in Nat
    BY <1>1, <1>4
  <2>3. req' = [req EXCEPT ![r] = k]
    BY <1>4 DEF DispatchInv, TypeOK
  <2> HIDE DEF d
  <2>4. /\ n \in DOMAIN decisions' /\ decisions'[n] = d
        /\ \A i \in DOMAIN decisions : i \in DOMAIN decisions' /\ decisions'[i] = decisions[i]
    BY <1>1, <2>1, <2>2
  <2> HIDE DEF n
  <2>5. /\ k \in RequestRows /\ k.step = "callback" /\ k.claimed = n
        /\ k.own = req[r].own /\ k.scoring = req[r].scoring
    BY <1>1, <2>2 DEF RequestRows, Steps, Claiming
  <2> HIDE DEF k
  <2>6. ReqOK(k, decisions', config.lowest)
    BY <1>1, <2>1, <2>4, <2>5 DEF ReqOK, Loose, Scoring
  <2>7. req[r].step \notin Claiming
    BY <1>1 DEF Claiming
  <2> QED BY <1>2, <2>2, <2>3, <2>5, <2>6, <2>7, Appended DEF d, n
<1>5. CASE /\ req' = [req EXCEPT ![r] = [FallbackReturned(r) EXCEPT !.rows = {}]]
           /\ UNCHANGED decisions
  <2> DEFINE f == FallbackReturned(r)
             k == [f EXCEPT !.rows = {}]
  <2>1. f \in RequestRows /\ f.step \notin Claiming /\ ReqOK(f, decisions, config.lowest)
    BY <1>1, FallbackRows DEF Loose
  <2>2. req' = [req EXCEPT ![r] = k]
    BY <1>5
  <2> HIDE DEF f
  <2>3. /\ k \in RequestRows /\ k.step = f.step /\ k.own = f.own /\ k.scoring = f.scoring
        /\ k.outcome = f.outcome /\ k.claimed = f.claimed
    BY <2>1 DEF RequestRows
  <2> HIDE DEF k
  <2>4. ReqOK(k, decisions, config.lowest)
    BY <2>1, <2>3 DEF ReqOK
  <2>5. delivery' \in {"none", "PENDING", "ASSIGNED", "CANCELLED"}
    BY <1>2 DEF DispatchInv, TypeOK
  <2> QED BY <1>2, <1>5, <2>1, <2>2, <2>3, <2>4, <2>5, Quiet
<1> QED BY <1>3, <1>4, <1>5

(* The claim in hand becomes one whose offer is made.                       *)
LEMMA OfferNearestInv ==
  ASSUME DispatchInv, NEW r \in Requests, OfferNearest(r)
  PROVE  DispatchInv'
<1> USE DEF DispatchInv
<1> DEFINE k == [req[r] EXCEPT !.step = "offered"]
           c == req[r].claimed
<1>1. /\ req[r] \in RequestRows /\ req[r].step = "callback"
      /\ ReqOK(req[r], decisions, config.lowest)
  BY DEF TypeOK, RequestInv, OfferNearest, At
<1>2. /\ req' = [req EXCEPT ![r] = k] /\ offers' = offers + 1
      /\ UNCHANGED <<decisions, config, delivery>>
  BY DEF OfferNearest, Goto
<1>3. /\ k \in RequestRows /\ k.step = "offered" /\ k.own = req[r].own
      /\ k.scoring = req[r].scoring /\ k.claimed = c
  BY <1>1 DEF RequestRows, Steps, Claiming
<1> HIDE DEF k
<1>4. ReqOK(k, decisions', config.lowest)
  BY <1>1, <1>2, <1>3 DEF ReqOK, Loose, Scoring, Claiming
<1>5. TypeOK'
  <2>1. req' \in [Requests -> RequestRows]
    BY <1>2, <1>3, RequestUpdate DEF TypeOK
  <2> QED BY <1>2, <2>1 DEF TypeOK
<1>6. RequestInv'
  <2>1. req[r].step \in Claiming
    BY <1>1 DEF Claiming
  <2> QED BY <1>2, <1>3, <1>4, <2>1, OthersKept
<1>7. DecisionInv'
  BY <1>2 DEF DecisionInv
<1>8. /\ req'[r] = k
      /\ \A s \in Requests \ {r} : req'[s] = req[s]
  BY <1>2, <1>3, RequestUpdate DEF TypeOK
<1>9. Held("offered")' = Held("offered") \cup {c}
  BY <1>1, <1>3, <1>8 DEF Held
<1>10. Held("callback")' \subseteq Held("callback") /\ c \notin Held("callback")'
  BY <1>1, <1>3, <1>8 DEF Held, RequestInv, Claiming
<1>11. c \in Claims /\ c \in Held("callback") /\ Claims' = Claims
  BY <1>1, <1>2 DEF ReqOK, Claiming, Claims, Held
<1>12. Made' \subseteq Made \cup {c}
  BY <1>2, <1>9, <1>11 DEF Made
<1>13. Free \cup {c} \subseteq Free' /\ c \notin Free
  BY <1>10, <1>11 DEF Free
<1>14. OfferInv'
  BY <1>2, <1>5, <1>12, <1>13, OffersBounded
<1> QED BY <1>5, <1>6, <1>7, <1>14

LEMMA ClaimAssignedInv ==
  ASSUME DispatchInv, NEW r \in Requests, ClaimAssigned(r)
  PROVE  DispatchInv'
<1> DEFINE k == FallbackReturned(r)
<1>1. /\ req[r] \in RequestRows /\ req[r].step = "offered"
      /\ ReqOK(req[r], decisions, config.lowest)
  BY DEF DispatchInv, TypeOK, RequestInv, ClaimAssigned, At
<1>2. k \in RequestRows /\ k.step \notin Claiming /\ ReqOK(k, decisions, config.lowest)
  BY <1>1, FallbackRows DEF Loose
<1>3. /\ req' = [req EXCEPT ![r] = k] /\ Store(req[r].claimed, "ASSIGNED")
      /\ UNCHANGED <<config, delivery, offers>>
  BY DEF ClaimAssigned
<1> HIDE DEF k
<1>4. /\ req[r].claimed \in DOMAIN decisions /\ decisions[req[r].claimed].claim
      /\ req[r].step \in Claiming
  BY <1>1 DEF ReqOK, Claiming
<1>5. decisions[req[r].claimed].method = "LEGACY"
  BY <1>4 DEF DispatchInv, DecisionInv
<1> QED BY <1>1, <1>2, <1>3, <1>4, <1>5, Stored

LEMMA CallbackFailsInv ==
  ASSUME DispatchInv, NEW r \in Requests, CallbackRefused(r) \/ CallbackBreaks(r)
  PROVE  DispatchInv'
<1>1. /\ req[r] \in RequestRows /\ req[r].step = "callback"
      /\ ReqOK(req[r], decisions, config.lowest)
  BY DEF DispatchInv, TypeOK, RequestInv, CallbackRefused, CallbackBreaks, At
<1>2. /\ Store(req[r].claimed, "FAILED") /\ UNCHANGED <<config, delivery>>
      /\ offers' = offers \/ offers' = offers + 1
  BY DEF CallbackRefused, CallbackBreaks
<1>3. /\ req[r].claimed \in DOMAIN decisions /\ req[r].step \in Claiming
  BY <1>1 DEF ReqOK, Claiming
<1>4. \E k \in RequestRows : /\ req' = [req EXCEPT ![r] = k] /\ k.step \notin Claiming
                             /\ ReqOK(k, decisions, config.lowest)
  <2>1. ASSUME NEW a \in {"unavailable", "error"}, Answer(r, a)
        PROVE  \E k \in RequestRows : /\ req' = [req EXCEPT ![r] = k] /\ k.step \notin Claiming
                                      /\ ReqOK(k, decisions, config.lowest)
    <3> DEFINE k == [IdleRequest(req[r].event) EXCEPT !.step = "answered", !.answer = a]
    <3>1. req[r].event \in Events /\ "answered" \in Loose
      BY <1>1 DEF RequestRows, Loose
    <3>2. k \in RequestRows /\ k.step \in Loose
      BY <2>1, <3>1, IdleRows
    <3>3. req' = [req EXCEPT ![r] = k]
      BY <2>1 DEF Answer, Ended
    <3> HIDE DEF k
    <3>4. k.step \notin Claiming /\ ReqOK(k, decisions, config.lowest)
      BY <3>2, LooseOK DEF Loose, Claiming
    <3> QED BY <3>2, <3>3, <3>4
  <2>2. CASE req' = [req EXCEPT ![r].step = "settle", ![r].outcome = "FAILED"]
    <3> DEFINE k == [req[r] EXCEPT !.step = "settle", !.outcome = "FAILED"]
    <3>1. req' = [req EXCEPT ![r] = k]
      BY <2>2 DEF DispatchInv, TypeOK
    <3>2. /\ k \in RequestRows /\ k.step = "settle" /\ k.outcome = "FAILED"
          /\ k.own = req[r].own /\ k.scoring = req[r].scoring
      BY <1>1 DEF RequestRows, Steps
    <3> HIDE DEF k
    <3>3. ReqOK(k, decisions, config.lowest) /\ k.step \notin Claiming
      BY <1>1, <3>2 DEF ReqOK, Scoring, Claiming, Loose
    <3> QED BY <3>1, <3>2, <3>3
  <2> QED BY <2>1, <2>2 DEF CallbackRefused, CallbackBreaks
<1> QED BY <1>1, <1>2, <1>3, <1>4, Stored

LEMMA SettleInv ==
  ASSUME DispatchInv, NEW r \in Requests, SettleDecision(r)
  PROVE  DispatchInv'
<1>1. /\ req[r] \in RequestRows /\ req[r].step = "settle"
      /\ ReqOK(req[r], decisions, config.lowest)
  BY DEF DispatchInv, TypeOK, RequestInv, SettleDecision, At
<1>2. Store(req[r].own, req[r].outcome) /\ UNCHANGED <<config, delivery, offers>>
  BY DEF SettleDecision
<1>3. /\ req[r].own \in DOMAIN decisions /\ ~decisions[req[r].own].claim
      /\ decisions[req[r].own].method = IF req[r].scoring THEN "SCORING_BASED" ELSE "LEGACY"
      /\ req[r].outcome \in {"ASSIGNED", "FAILED"}
      /\ req[r].outcome = "ASSIGNED" => ~req[r].scoring
  BY <1>1 DEF ReqOK, Loose
<1>4. CASE req[r].outcome = "FAILED"
  <2> DEFINE k == [req[r] EXCEPT !.step = "query", !.attempt = 2, !.claimed = NoId,
                                 !.outcome = "none"]
  <2>1. req' = [req EXCEPT ![r] = k]
    BY <1>4 DEF SettleDecision
  <2>2. /\ k \in RequestRows /\ k.step = "query" /\ k.own = req[r].own
        /\ k.scoring = req[r].scoring
    BY <1>1 DEF RequestRows, Steps, NoId
  <2> HIDE DEF k
  <2>3. ReqOK(k, decisions, config.lowest) /\ k.step \notin Claiming
    BY <1>3, <2>2 DEF ReqOK, Scoring, Claiming
  <2> QED BY <1>2, <1>3, <1>4, <2>1, <2>2, <2>3, Stored
<1>5. CASE req[r].outcome # "FAILED"
  <2> DEFINE k == [req[r] EXCEPT !.step = "mark", !.answer = "success", !.outcome = "none"]
  <2>1. req' = [req EXCEPT ![r] = k]
    BY <1>5 DEF SettleDecision
  <2>2. k \in RequestRows /\ k.step \in Loose
    BY <1>1 DEF RequestRows, Steps, Loose
  <2> HIDE DEF k
  <2>3. ReqOK(k, decisions, config.lowest) /\ k.step \notin Claiming
    BY <2>2, LooseOK DEF Loose, Claiming
  <2> QED BY <1>2, <1>3, <1>5, <2>1, <2>2, <2>3, Stored
<1> QED BY <1>4, <1>5
(* Steps in which no request moves and no row is stored.                    *)
LEMMA DispatchIdle ==
  ASSUME DispatchInv, UNCHANGED <<req, decisions, offers, config>>,
         delivery' \in {"none", "PENDING", "ASSIGNED", "CANCELLED"}
  PROVE  DispatchInv'
  BY DEF DispatchInv, TypeOK, RequestInv, ReqOK, DecisionInv, OfferInv, Made, Free, Claims, Held

(* The lowest threshold ever stored only goes down, and at zero it stays.   *)
LEMMA SetConfigInv ==
  ASSUME DispatchInv, NEW c \in Configs, SetConfig(c)
  PROVE  DispatchInv'
<1> USE DEF DispatchInv
<1>1. /\ config \in [rollout : Nat, minAcceptance : Nat, lowest : Nat]
      /\ c \in [rollout : Nat, minAcceptance : Nat]
  BY ConfigsAssumption DEF TypeOK
<1>2. /\ config'.rollout = c.rollout /\ config'.minAcceptance = c.minAcceptance
      /\ config'.lowest = IF c.minAcceptance < config.lowest THEN c.minAcceptance ELSE config.lowest
      /\ config' \in [rollout : Nat, minAcceptance : Nat, lowest : Nat]
      /\ UNCHANGED <<delivery, offers, decisions, req>>
  BY <1>1 DEF SetConfig
<1>3. config.lowest = 0 => config'.lowest = 0
  BY <1>1, <1>2
<1>4. TypeOK'
  <2>1. config'.lowest <= config'.minAcceptance
    BY <1>1, <1>2
  <2> QED BY <1>2, <2>1 DEF TypeOK
<1>5. RequestInv'
  <2>1. ASSUME NEW r \in Requests
        PROVE  ReqOK(req[r], decisions, config'.lowest)
    <3>1. ReqOK(req[r], decisions, config.lowest)
      BY DEF RequestInv
    <3> QED BY <1>3, <3>1 DEF ReqOK
  <2> QED BY <1>2, <2>1 DEF RequestInv
<1>6. DecisionInv'
  BY <1>2, <1>3 DEF DecisionInv
<1>7. OfferInv'
  BY <1>2 DEF OfferInv, Made, Free, Claims, Held
<1> QED BY <1>4, <1>5, <1>6, <1>7

LEMMA HandleInv ==
  ASSUME DispatchInv, NEW r \in Requests, Handle(r)
  PROVE  DispatchInv'
<1>1. CASE \/ ValidateSignature(r) \/ CheckEventKey(r) \/ FindDelivery(r)
           \/ CreateDelivery(r) \/ MarkEventKey(r)
  BY <1>1, EarlyStepsInv
<1>2. CASE GetEligibleDrivers(r)
  BY <1>2, EligibleInv
<1>3. CASE PersistDecision(r)
  BY <1>3, PersistDecisionInv
<1>4. CASE HealthCheck(r)
  BY <1>4, HealthCheckInv
<1>5. CASE ExecuteScoringDispatch(r)
  BY <1>5, ScoringInv
<1>6. CASE ClaimQuery(r)
  BY <1>6, ClaimQueryInv
<1>7. CASE Claim(r)
  BY <1>7, ClaimInv
<1>8. CASE OfferNearest(r)
  BY <1>8, OfferNearestInv
<1>9. CASE ClaimAssigned(r)
  BY <1>9, ClaimAssignedInv
<1>10. CASE CallbackRefused(r) \/ CallbackBreaks(r)
  BY <1>10, CallbackFailsInv
<1>11. CASE SettleDecision(r)
  BY <1>11, SettleInv
<1> QED
  BY <1>1, <1>2, <1>3, <1>4, <1>5, <1>6, <1>7, <1>8, <1>9, <1>10, <1>11 DEF Handle

LEMMA CreateKeepsDelivery ==
  ASSUME Create
  PROVE  delivery' = delivery \/ delivery' = "PENDING"
  BY DEF Create, PostArrives, PostProceeds, ClaimKey, ReadKey, ClaimExpiredKey, ReclaimKey,
         HandlerSucceeds, HandlerFailsRetryable, HandlerFailsForGood, PostDies, WriteArrives,
         WriteLost, KeyExpires

LEMMA InitDispatch ==
  ASSUME IngressInit
  PROVE  DispatchInv
<1>1. /\ decisions = <<>> /\ offers = 0 /\ delivery = "none" /\ config = DefaultConfig
      /\ req \in [Requests -> {IdleRequest(e) : e \in Events}]
  BY DEF IngressInit, Init
<1>2. \A r \in Requests : req[r] \in RequestRows /\ req[r].step \in Loose
  <2> TAKE r \in Requests
  <2>1. PICK e \in Events : req[r] = IdleRequest(e)
    BY <1>1
  <2>2. "idle" \in Loose
    BY DEF Loose
  <2> QED BY <2>1, <2>2, IdleRows
<1>3. TypeOK
  <2>1. decisions \in Seq(Decisions)
    BY <1>1
  <2>2. /\ config \in [rollout : Nat, minAcceptance : Nat, lowest : Nat]
        /\ config.lowest <= config.minAcceptance
    BY <1>1 DEF DefaultConfig
  <2> QED BY <1>1, <1>2, <2>1, <2>2 DEF TypeOK
<1>4. RequestInv
  BY <1>2, LooseOK DEF RequestInv, Loose, Claiming
<1>5. DecisionInv
  BY <1>1 DEF DecisionInv
<1>6. OfferInv
  <2>1. Made = {} /\ Free = {}
    BY <1>1 DEF Made, Free, Claims
  <2> QED BY <1>1, <2>1, FS_EmptySet DEF OfferInv
<1> QED BY <1>3, <1>4, <1>5, <1>6 DEF DispatchInv

(***************************************************************************)
(* The inductive invariant of the seller-order-ready handler: the claim a  *)
(* request works under is its own and PENDING, the scoring path is entered *)
(* only at threshold zero, and the offers lie between the claims known to  *)
(* have made one and the claims not waiting to make theirs.                *)
(***************************************************************************)
THEOREM DispatchInvariant == Spec => []DispatchInv
<1>1. IngressInit => DispatchInv
  BY InitDispatch
<1>2. DispatchInv /\ [Next]_vars => DispatchInv'
  <2> SUFFICES ASSUME DispatchInv, [Next]_vars
               PROVE  DispatchInv'
    OBVIOUS
  <2>1. delivery \in {"none", "PENDING", "ASSIGNED", "CANCELLED"}
    BY DEF DispatchInv, TypeOK
  <2>2. ASSUME NEW r \in Requests, Arrive(r) \/ Handle(r) \/ Die(r) \/ SendAgain(r)
        PROVE  DispatchInv'
    BY <2>2, EarlyStepsInv, HandleInv, SendAgainInv
  <2>3. ASSUME NEW e \in Events, EventKeyExpires(e)
        PROVE  DispatchInv'
    BY <2>1, <2>3, DispatchIdle DEF EventKeyExpires
  <2>4. ASSUME NEW d \in Drivers, ScoreExpires(d)
        PROVE  DispatchInv'
    BY <2>1, <2>4, DispatchIdle DEF ScoreExpires
  <2>5. ASSUME NEW c \in Configs, SetConfig(c)
        PROVE  DispatchInv'
    BY <2>5, SetConfigInv
  <2>6. CASE DeliveryMoves
    BY <2>6, DispatchIdle DEF DeliveryMoves
  <2>7. CASE Create
    BY <2>1, <2>7, CreateKeepsDelivery, DispatchIdle DEF Create
  <2>8. CASE UNCHANGED vars
    BY <2>1, <2>8, DispatchIdle DEF vars
  <2> QED BY <2>2, <2>3, <2>4, <2>5, <2>6, <2>7, <2>8 DEF Next, Webhook
<1> QED BY <1>1, <1>2, PTL DEF Spec

(***************************************************************************)
(* The claims of executeIdempotentFallback account for the offers, for any *)
(* number of concurrent webhook requests and whatever dies between two of  *)
(* their statements.                                                       *)
(***************************************************************************)
THEOREM OffersAreAccounted == Spec => []OffersMatchClaims
<1>1. DispatchInv => OffersMatchClaims
  <2> SUFFICES ASSUME DispatchInv PROVE OffersMatchClaims
    OBVIOUS
  <2> DEFINE A == {i \in DOMAIN decisions : IsAssignedClaim(decisions[i])}
             C == {i \in DOMAIN decisions : IsClaim(decisions[i])}
  <2>1. A \subseteq Made /\ Free \subseteq C /\ Made \subseteq DOMAIN decisions
    BY DEF Made, Free, Claims, IsAssignedClaim, IsClaim
  <2>2. /\ IsFiniteSet(Made) /\ IsFiniteSet(C)
        /\ Cardinality(Made) \in Nat /\ Cardinality(C) \in Nat
        /\ Cardinality(A) \in Nat /\ Cardinality(Free) \in Nat
    <3>1. decisions \in Seq(Decisions) /\ Free \subseteq DOMAIN decisions
      BY <2>1 DEF DispatchInv, TypeOK
    <3> QED BY <2>1, <3>1, FiniteClaims
  <2>3. Cardinality(A) <= Cardinality(Made) /\ Cardinality(Free) <= Cardinality(C)
    BY <2>1, <2>2, FS_Subset
  <2>4. Rows(IsAssignedClaim) = Cardinality(A) /\ Rows(IsClaim) = Cardinality(C)
    BY DEF Rows
  <2> HIDE DEF A, C
  <2>5. offers \in Nat /\ Cardinality(Made) <= offers /\ offers <= Cardinality(Free)
    BY DEF DispatchInv, TypeOK, OfferInv
  <2> QED BY <2>2, <2>3, <2>4, <2>5 DEF OffersMatchClaims
<1> QED BY <1>1, DispatchInvariant, PTL

(***************************************************************************)
(* shouldFallback counts its own PENDING decision: however often rollout   *)
(* and threshold change, a scoring decision becomes ASSIGNED only where a  *)
(* threshold of zero has been stored.                                      *)
(***************************************************************************)
THEOREM ScoringIsClosed == Spec => []ScoringNeedsZeroThreshold
<1>1. DispatchInv => ScoringNeedsZeroThreshold
  <2> SUFFICES ASSUME DispatchInv, Rows(IsScoringAssigned) > 0
               PROVE  config.lowest = 0
    BY DEF ScoringNeedsZeroThreshold
  <2> DEFINE A == {i \in DOMAIN decisions : IsScoringAssigned(decisions[i])}
  <2>1. Cardinality(A) > 0
    BY DEF Rows
  <2>2. A # {}
    BY <2>1, FS_EmptySet
  <2> QED BY <2>2 DEF DispatchInv, DecisionInv, IsScoringAssigned, IsScoring
<1> QED BY <1>1, DispatchInvariant, PTL

-----------------------------------------------------------------------------
(* The idempotency record.                                                  *)

(* Once the delivery row is inserted it is never gone again.                *)
LEMMA DeliveryStays ==
  ASSUME Next
  PROVE  delivery' = delivery \/ delivery' # "none"
<1>1. ASSUME NEW r \in Requests, Handle(r)
      PROVE  delivery' = delivery \/ delivery' # "none"
  BY <1>1 DEF Handle, ValidateSignature, CheckEventKey, FindDelivery, CreateDelivery,
              MarkEventKey, GetEligibleDrivers, PersistDecision, HealthCheck,
              ExecuteScoringDispatch, ClaimQuery, Claim, OfferNearest, ClaimAssigned,
              CallbackRefused, CallbackBreaks, SettleDecision
<1>2. CASE Webhook
  BY <1>1, <1>2 DEF Webhook, Arrive, Die, SendAgain, EventKeyExpires, ScoreExpires,
                    SetConfig, DeliveryMoves
<1>3. CASE Create
  BY <1>3, CreateKeepsDelivery
<1> QED BY <1>2, <1>3 DEF Next

LEMMA PostMoves ==
  ASSUME ReplayInv, NEW p \in Posts, NEW k \in PostRows, post' = [post EXCEPT ![p] = k]
  PROVE  /\ post' \in [Posts -> PostRows]
         /\ (\E q \in Posts : post'[q].answer = "replayed") =>
              \/ k.answer = "replayed"
              \/ \E q \in Posts : post[q].answer = "replayed"
  BY DEF ReplayInv, PostRows

LEMMA PostGoes ==
  ASSUME ReplayInv, NEW p \in Posts, NEW st, PostGoto(p, st),
         st \in {"claim", "read", "reclaimGone", "reclaim", "handler", "died"}
  PROVE  /\ post' \in [Posts -> PostRows]
         /\ (\E q \in Posts : post'[q].answer = "replayed") =>
              \E q \in Posts : post[q].answer = "replayed"
<1> DEFINE k == [post[p] EXCEPT !.step = st]
<1>1. post[p] \in PostRows
  BY DEF ReplayInv, PostRows
<1>2. k \in PostRows /\ k.answer = post[p].answer
  BY <1>1 DEF PostRows
<1>3. post' = [post EXCEPT ![p] = k]
  BY DEF PostGoto
<1> HIDE DEF k
<1> QED BY <1>2, <1>3, PostMoves

LEMMA PostIsAnswered ==
  ASSUME ReplayInv, NEW p \in Posts, NEW a, PostAnswer(p, a),
         a \in {"replayed", "conflict", "failed"}
  PROVE  /\ post' \in [Posts -> PostRows]
         /\ (\E q \in Posts : post'[q].answer = "replayed") =>
              \/ a = "replayed"
              \/ \E q \in Posts : post[q].answer = "replayed"
<1> DEFINE k == [post[p] EXCEPT !.step = "answered", !.answer = a]
<1>1. post[p] \in PostRows
  BY DEF ReplayInv, PostRows
<1>2. k \in PostRows /\ k.answer = a
  BY <1>1 DEF PostRows
<1>3. post' = [post EXCEPT ![p] = k]
  BY DEF PostAnswer
<1> HIDE DEF k
<1> QED BY <1>2, <1>3, PostMoves

LEMMA PostProceedsReplay ==
  ASSUME ReplayInv, NEW p \in Posts, PostProceeds(p)
  PROVE  ReplayInv'
<1>1. CASE ClaimKey(p)
  BY <1>1, PostGoes DEF ClaimKey, ReplayInv, ReplayIsReal, PostRows
<1>2. CASE ReadKey(p)
  BY <1>2, PostGoes, PostIsAnswered DEF ReadKey, ReplayInv, ReplayIsReal, PostRows
<1>3. CASE ClaimExpiredKey(p)
  BY <1>3, PostGoes, PostIsAnswered DEF ClaimExpiredKey, ReplayInv, ReplayIsReal, PostRows
<1>4. CASE ReclaimKey(p)
  BY <1>4, PostGoes, PostIsAnswered DEF ReclaimKey, ReplayInv, ReplayIsReal, PostRows
<1>5. CASE HandlerSucceeds(p)
  <2> DEFINE k == [step |-> "answered", answer |-> "created", ran |-> TRUE]
  <2>1. k \in PostRows /\ post' = [post EXCEPT ![p] = k] /\ delivery' = "PENDING"
    BY <1>5 DEF PostRows, HandlerSucceeds
  <2> HIDE DEF k
  <2>2. post' \in [Posts -> PostRows]
    BY <2>1, PostMoves
  <2> QED BY <2>1, <2>2 DEF ReplayInv, ReplayIsReal, PostRows
<1>6. CASE HandlerFailsRetryable(p) \/ HandlerFailsForGood(p)
  <2>1. PostAnswer(p, "failed") /\ UNCHANGED <<record, delivery>>
    BY <1>6 DEF HandlerFailsRetryable, HandlerFailsForGood
  <2>2. \A w \in writes' : w \in writes \/ w.state # "COMPLETED"
    BY <1>6 DEF HandlerFailsRetryable, HandlerFailsForGood, Send
  <2> QED BY <2>1, <2>2, PostIsAnswered DEF ReplayInv, ReplayIsReal, PostRows
<1>7. CASE PostDies(p)
  BY <1>7, PostGoes DEF PostDies, ReplayInv, ReplayIsReal, PostRows
<1> QED BY <1>1, <1>2, <1>3, <1>4, <1>5, <1>6, <1>7 DEF PostProceeds

(***************************************************************************)
(* A request answered from the cache repeats a success: the COMPLETED      *)
(* record of IdempotencyInterceptor, however late its write arrives and    *)
(* whoever reclaimed the key meanwhile, is that of an inserted delivery.   *)
(***************************************************************************)
THEOREM RepliesAreReal == Spec => []ReplayIsReal
<1>1. IngressInit => ReplayInv
  BY DEF IngressInit, IdempotencyInit, IdlePost, PostRows, ReplayInv, ReplayIsReal
<1>2. ReplayInv /\ [Next]_vars => ReplayInv'
  <2> SUFFICES ASSUME ReplayInv, [Next]_vars
               PROVE  ReplayInv'
    OBVIOUS
  <2>1. CASE Webhook
    <3>1. delivery' = delivery \/ delivery' # "none"
      BY <2>1, DeliveryStays DEF Next
    <3>2. UNCHANGED <<record, post, writes>>
      BY <2>1 DEF Webhook
    <3> QED BY <3>1, <3>2 DEF ReplayInv, ReplayIsReal
  <2>2. ASSUME NEW p \in Posts, PostArrives(p)
        PROVE  ReplayInv'
    BY <2>2, PostGoes DEF PostArrives, ReplayInv, ReplayIsReal, PostRows
  <2>3. ASSUME NEW p \in Posts, PostProceeds(p)
        PROVE  ReplayInv'
    BY <2>3, PostProceedsReplay
  <2>4. ASSUME NEW w \in writes, WriteArrives(w) \/ WriteLost(w)
        PROVE  ReplayInv'
    BY <2>4 DEF WriteArrives, WriteLost, ReplayInv, ReplayIsReal
  <2>5. CASE KeyExpires
    BY <2>5 DEF KeyExpires, ReplayInv, ReplayIsReal
  <2>6. CASE UNCHANGED vars
    BY <2>6 DEF vars, ReplayInv, ReplayIsReal
  <2> QED BY <2>1, <2>2, <2>3, <2>4, <2>5, <2>6 DEF Next, Create
<1>3. ReplayInv => ReplayIsReal
  BY DEF ReplayInv
<1> QED BY <1>1, <1>2, <1>3, PTL DEF Spec
=============================================================================

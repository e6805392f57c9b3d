---------------------------- MODULE OutboxPromise ----------------------------
(***************************************************************************)
(* What the outbox promises, without workers, locks or retries: an event   *)
(* waits until its handler has succeeded (done) or the attempts are used   *)
(* up (dead), and a done event stays done.  The exception is part of the   *)
(* promise: an event is suspect once a claim on it was taken from its      *)
(* owner, by the lock timeout or by a dead-letter retry, and from then on  *)
(* a late writer may put it back.                                          *)
(***************************************************************************)
CONSTANT Ids   \* the events

VARIABLES
  state,    \* [Ids -> "absent", "waiting", "done" or "dead"]
  handled,  \* events whose handler has succeeded
  suspect   \* events with more than one owner

Init ==
  /\ state = [i \in Ids |-> "absent"]
  /\ handled = {}
  /\ suspect = {}

Becomes(i, s) == state' = [state EXCEPT ![i] = s]

(* The event is published.                                                  *)
Accept(i) == state[i] = "absent" /\ Becomes(i, "waiting") /\ UNCHANGED <<handled, suspect>>

(* Its handler succeeds, once more perhaps: at least once is the promise.   *)
Take(i) == state[i] # "absent" /\ handled' = handled \cup {i} /\ UNCHANGED <<state, suspect>>

(* Somebody records the success.                                            *)
Settle(i) ==
  /\ state[i] # "absent" /\ i \in handled
  /\ Becomes(i, "done")
  /\ UNCHANGED <<handled, suspect>>

(* Somebody records the last failure, or a late writer an earlier one.      *)
GiveUp(i) ==
  /\ state[i] = "waiting" \/ (state[i] # "absent" /\ i \in suspect)
  /\ Becomes(i, "dead")
  /\ UNCHANGED <<handled, suspect>>
PutBack(i) ==
  /\ state[i] # "absent" /\ i \in suspect
  /\ Becomes(i, "waiting")
  /\ UNCHANGED <<handled, suspect>>

(* An operator has a dead event tried again.                                *)
Revive(i) ==
  /\ state[i] = "dead" \/ (state[i] # "absent" /\ i \in suspect)
  /\ Becomes(i, "waiting")
  /\ suspect' = suspect \cup {i}
  /\ UNCHANGED handled

(* Claims on waiting events are taken from their owners.                    *)
Overtake(S) ==
  /\ \A i \in S : state[i] = "waiting"
  /\ suspect' = suspect \cup S
  /\ UNCHANGED <<state, handled>>

Next ==
  \/ \E i \in Ids : \/ Accept(i) \/ Take(i) \/ Settle(i)
                    \/ GiveUp(i) \/ PutBack(i) \/ Revive(i)
  \/ \E S \in SUBSET Ids : Overtake(S)

Spec == Init /\ [][Next]_<<state, handled, suspect>>
=============================================================================

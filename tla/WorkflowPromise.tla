--------------------------- MODULE WorkflowPromise ---------------------------
(***************************************************************************)
(* What event processing promises, without workers, transactions, locks or *)
(* receipts: an event has one workflow run, which makes a bounded number   *)
(* of attempts; business effects are committed with the attempt that ends  *)
(* the run or that pauses it; and an event is only acknowledged when its   *)
(* first attempt is over.                                                  *)
(***************************************************************************)
EXTENDS Naturals

CONSTANTS Event, MaxAttempts

VARIABLES
  life,      \* how far the run of each event has come
  attempts,  \* the attempts it has made
  effects,   \* how often its business effects were committed
  acked      \* the acknowledged events

vars == <<life, attempts, effects, acked>>

Init ==
  /\ life = [e \in Event |-> "absent"]
  /\ attempts = [e \in Event |-> 0]
  /\ effects = [e \in Event |-> 0]
  /\ acked = {}

Publish(e) ==
  /\ life[e] = "absent"
  /\ life' = [life EXCEPT ![e] = "queued"]
  /\ UNCHANGED <<attempts, effects, acked>>

\* The runs of the events S make an attempt, or time out, in one transaction.
Attempt(S) ==
  /\ S # {}
  /\ \A e \in S :
       /\ life[e] \in {"queued", "retrying"}
       /\ \/ /\ attempts'[e] = attempts[e] + 1
             /\ attempts'[e] <= MaxAttempts
             /\ life'[e] \in {"retrying", "waiting", "succeeded", "failed"}
             /\ life'[e] = "retrying" => attempts'[e] < MaxAttempts
          \/ attempts'[e] = attempts[e] /\ life'[e] = "failed"
       /\ effects'[e] = effects[e]
            + IF life'[e] \in {"waiting", "succeeded"} THEN 1 ELSE 0
  /\ \A e \in Event \ S : /\ life'[e] = life[e]
                          /\ attempts'[e] = attempts[e]
                          /\ effects'[e] = effects[e]
  /\ UNCHANGED acked

\* A human decision releases a paused run.
Grant(e) ==
  /\ life[e] = "waiting"
  /\ life' = [life EXCEPT ![e] = "granted"]
  /\ UNCHANGED <<attempts, effects, acked>>

Acknowledge(e) ==
  /\ life[e] \notin {"absent", "queued"}
  /\ acked' = acked \cup {e}
  /\ UNCHANGED <<life, attempts, effects>>

\* A failed redelivery opens the event again; it will be acknowledged anew.
Reopen(e) ==
  /\ acked' = acked \ {e}
  /\ UNCHANGED <<life, attempts, effects>>

Next ==
  \/ \E e \in Event : Publish(e) \/ Grant(e) \/ Acknowledge(e) \/ Reopen(e)
  \/ \E S \in SUBSET Event : Attempt(S)

Spec == Init /\ [][Next]_vars
=============================================================================

----------------------------- MODULE EventWorker -----------------------------
(***************************************************************************)
(* The transactional outbox, the event processor, the worker loop and the  *)
(* workflow engine.  Several worker processes poll the same outbox.  Each  *)
(* event type has one handler, the workflow definition of its route, and   *)
(* runs it in a transaction that locks the event, inserts the handler      *)
(* receipt and commits together with the workflow run and the effects of   *)
(* its step.  Rows are versioned: an UPDATE of a row that somebody else    *)
(* has updated since it was loaded raises StaleDataError.                  *)
(*                                                                         *)
(* Time is kept as countdowns: wait is next_retry_at and left is           *)
(* deadline_at, both seen from now.                                        *)
(***************************************************************************)
EXTENDS Integers, FiniteSets

CONSTANTS
  NumEvents,    \* events, numbered in the order of created_at
  Worker,       \* worker processes
  BatchSize,    \* worker_batch_size
  MaxAttempts,  \* workflow_max_attempts
  RetryDelay,   \* workflow_retry_delay_seconds, in ticks
  Timeout,      \* workflow_timeout_seconds, in ticks
  MaxFaults,    \* bound: crashes and database errors of a behaviour
  NoRun         \* no workflow_runs row

ASSUME WorkerAssumption ==
  /\ NumEvents \in Nat /\ BatchSize \in Nat \ {0} /\ MaxFaults \in Nat
  /\ MaxAttempts \in Nat \ {0} /\ RetryDelay \in Nat /\ Timeout \in Nat \ {0}
  /\ IsFiniteSet(Worker)

Event == 1 .. NumEvents

VARIABLES
  outbox,    \* publication_status of every event, "none" before it is stored
  receipts,  \* events with a handler receipt
  run,       \* their workflow runs
  effects,   \* how often the effects of the step were committed
  reports,   \* WORKFLOW_FAILED events of each run
  approval,  \* the approval that a run waits for
  phase,     \* what a worker does next
  queue,     \* the events it has selected
  stale,     \* the event row it has loaded has been updated by another worker
  batch,     \* the due runs it has locked
  late,      \* those of them that are past their deadline
  faults     \* faults so far

rows == <<outbox, receipts, run, effects, reports, approval>>
vars == <<outbox, receipts, run, effects, reports, approval, phase, queue,
          stale, batch, late, faults>>

(***************************************************************************)
(* Workflow runs                                                           *)
(***************************************************************************)

RunStatus == {"pending", "running", "retrying", "succeeded", "failed"}
Terminal == {"succeeded", "failed"}
Run == [status : RunStatus, attempts : 0 .. MaxAttempts,
        wait : Nat, left : 0 .. Timeout]
ASSUME NoRunAssumption == NoRun \notin Run
NewRun == [status |-> "pending", attempts |-> 0, wait |-> 0, left |-> Timeout]

\* How a step ends: a WorkflowOutcome, a NonRetryableWorkflowError or any other
\* exception, in the last two cases without effects.
Outcome == {"completed", "waiting", "nonRetryable", "error"}

\* The countdowns of a run that is not to be retried are never read again.
Finish(r, status) == [r EXCEPT !.status = status, !.wait = 0, !.left = 0]

\* An error of the last attempt is final.
LastAttemptPassed(a) == a > MaxAttempts
LastAttempt(a) == a >= MaxAttempts

\* _execute: one attempt of run r whose step ends with o.  The deadline is the
\* first thing it looks at.
Execute(r, o, expired) ==
  LET a == r.attempts + 1 IN
  CASE expired -> Finish(r, "failed")
    [] ~ expired /\ o = "completed" ->
         [Finish(r, "succeeded") EXCEPT !.attempts = a]
    [] ~ expired /\ o = "waiting" ->
         [Finish(r, "pending") EXCEPT !.attempts = a]
    [] ~ expired /\ o = "error" /\ ~ LastAttempt(a) ->
         [r EXCEPT !.status = "retrying", !.attempts = a,
                   !.wait = RetryDelay * a]
    [] OTHER -> [Finish(r, "failed") EXCEPT !.attempts = a]

\* The step runs in a savepoint, which an exception rolls back.
KeepsWithoutSavepoint(o) == o # "nonRetryable"
Keeps(o) == o \in {"completed", "waiting"}

\* A run that fails publishes WORKFLOW_FAILED in the same transaction.
ReportsExhausted(r) == r.status = "failed" /\ r.attempts = MaxAttempts
Reports(r) == r.status = "failed"

\* The attempts of the runs of S, with the outcomes o, commit together with
\* their effects; X are those that are past their deadline.
Started(e) == IF run[e] = NoRun THEN NewRun ELSE run[e]
Attempt(S, o, X) ==
  LET new == [e \in S |-> Execute(Started(e), o[e], e \in X)]
      kept == {e \in S \ X : Keeps(o[e])}
  IN /\ run' = [e \in Event |-> IF e \in S THEN new[e] ELSE run[e]]
     /\ effects' = [e \in Event |->
          IF e \in kept THEN effects[e] + 1 ELSE effects[e]]
     /\ reports' = [e \in Event |->
          IF e \in S /\ Reports(new[e]) THEN reports[e] + 1 ELSE reports[e]]
     /\ approval' = [e \in Event |->
          IF e \in kept /\ o[e] = "waiting" THEN "pending" ELSE approval[e]]

(***************************************************************************)
(* The worker                                                              *)
(***************************************************************************)

Goto(w, p) == phase' = [phase EXCEPT ![w] = p]

\* process() handles the selected events in the order of created_at.
Current(w, e) == e \in queue[w] /\ \A d \in queue[w] : e <= d

\* The transaction of the handler holds the row lock of the event.
LockedByOther(w, e) == \E v \in Worker \ {w} :
                         phase[v] = "handler" /\ Current(v, e)

\* store.pending: the oldest events that are not published.
PendingOnly == {e \in Event : outbox[e] = "pending"}
Pending == {e \in Event : outbox[e] \in {"pending", "failed"}}
Poll(w) ==
  /\ phase[w] = "poll"
  /\ queue' = [queue EXCEPT ![w] =
       {e \in Pending : Cardinality({d \in Pending : d < e}) < BatchSize}]
  /\ Goto(w, "event")
  /\ UNCHANGED <<rows, stale, batch, late, faults>>

\* _process_handler: SELECT the event FOR UPDATE, then its receipt.
LockEventOnly(w, e) ==
  /\ phase[w] = "event"
  /\ Current(w, e)
  /\ ~ LockedByOther(w, e)
  /\ Goto(w, "handler")
  /\ UNCHANGED <<rows, queue, stale, batch, late, faults>>
LockEvent(w, e) ==
  /\ phase[w] = "event"
  /\ Current(w, e)
  /\ ~ LockedByOther(w, e)
  /\ Goto(w, IF e \in receipts THEN "complete" ELSE "handler")
  /\ UNCHANGED <<rows, queue, stale, batch, late, faults>>

\* ... run handle_event and commit.  A run that is over would be left alone.
RunHandler(w, e) ==
  /\ phase[w] = "handler"
  /\ Current(w, e)
  /\ receipts' = receipts \cup {e}
  /\ IF Started(e).status \in Terminal
     THEN UNCHANGED <<run, effects, reports, approval>>
     ELSE \E o \in [{e} -> Outcome] : Attempt({e}, o, {})
  /\ Goto(w, "complete")
  /\ UNCHANGED <<outbox, queue, stale, batch, late, faults>>

\* ... or the database fails: the handler's transaction is rolled back.
HandlerRaisesKeepingReceipt(w, e) ==
  /\ phase[w] = "handler"
  /\ Current(w, e)
  /\ faults < MaxFaults
  /\ faults' = faults + 1
  /\ receipts' = receipts \cup {e}
  /\ Goto(w, "failure")
  /\ UNCHANGED <<outbox, run, effects, reports, approval, queue, stale, batch,
                 late>>
HandlerRaises(w, e) ==
  /\ phase[w] = "handler"
  /\ Current(w, e)
  /\ faults < MaxFaults
  /\ faults' = faults + 1
  /\ Goto(w, "failure")
  /\ UNCHANGED <<rows, queue, stale, batch, late>>

\* _mark_complete and _record_failure load the event without a lock ...
LoadEvent(w) ==
  /\ \/ phase[w] = "complete" /\ Goto(w, "completing")
     \/ phase[w] = "failure" /\ Goto(w, "failing")
  /\ stale' = [stale EXCEPT ![w] = FALSE]
  /\ UNCHANGED <<rows, queue, batch, late, faults>>

\* ... and update its row: the version check fails when it is stale.
Updating(v, e) == phase[v] \in {"completing", "failing"} /\ Current(v, e)
UpdateEvent(w, e, status) ==
  /\ Updating(w, e)
  /\ ~ LockedByOther(w, e)
  /\ ~ stale[w]
  /\ outbox' = [outbox EXCEPT ![e] = status]
  /\ stale' = [v \in Worker |-> v # w /\ (stale[v] \/ Updating(v, e))]
  /\ queue' = [queue EXCEPT ![w] = @ \ {e}]
  /\ Goto(w, "event")
  /\ UNCHANGED <<receipts, run, effects, reports, approval, batch, late, faults>>

MarkComplete(w, e) == phase[w] = "completing" /\ UpdateEvent(w, e, "published")
RecordFailure(w, e) == phase[w] = "failing" /\ UpdateEvent(w, e, "failed")

\* The process ends and with it all its transactions.
Exit(w) ==
  /\ Goto(w, "down")
  /\ queue' = [queue EXCEPT ![w] = {}]
  /\ stale' = [stale EXCEPT ![w] = FALSE]
  /\ batch' = [batch EXCEPT ![w] = {}]
  /\ late' = [late EXCEPT ![w] = {}]
  /\ UNCHANGED rows

\* StaleDataError is not an EventProcessingError: it leaves run_once and ends
\* the process.
StaleData(w, e) ==
  /\ Updating(w, e)
  /\ ~ LockedByOther(w, e)
  /\ stale[w]
  /\ Exit(w)
  /\ UNCHANGED faults

\* retry_due: SELECT the due runs FOR UPDATE SKIP LOCKED, at most BatchSize.
DueUnlocked(w) ==
  {e \in Event : run[e] # NoRun /\ run[e].status = "retrying" /\ run[e].wait = 0}
DueInTime(w) ==
  {e \in Event : /\ run[e] # NoRun
                 /\ run[e].status = "retrying"
                 /\ run[e].wait = 0 /\ run[e].left > 0
                 /\ \A v \in Worker \ {w} : e \notin batch[v]}
DueWhateverStatus(w) ==
  {e \in Event : /\ run[e] # NoRun
                 /\ run[e].wait = 0
                 /\ \A v \in Worker \ {w} : e \notin batch[v]}
Due(w) ==
  {e \in Event : /\ run[e] # NoRun
                 /\ run[e].status = "retrying"
                 /\ run[e].wait = 0
                 /\ \A v \in Worker \ {w} : e \notin batch[v]}
LockRuns(w) ==
  /\ phase[w] = "event"
  /\ queue[w] = {}
  /\ \E S \in SUBSET Due(w) :
       /\ IF Cardinality(Due(w)) <= BatchSize THEN S = Due(w)
          ELSE Cardinality(S) = BatchSize
       /\ batch' = [batch EXCEPT ![w] = S]
       /\ late' = [late EXCEPT ![w] = {e \in S : run[e].left = 0}]
  /\ Goto(w, "retry")
  /\ UNCHANGED <<rows, queue, stale, faults>>

\* ... and resume them, all in one transaction.
RetryDue(w) ==
  /\ phase[w] = "retry"
  /\ \E o \in [batch[w] -> Outcome] : Attempt(batch[w], o, late[w])
  /\ batch' = [batch EXCEPT ![w] = {}]
  /\ late' = [late EXCEPT ![w] = {}]
  /\ Goto(w, "poll")
  /\ UNCHANGED <<outbox, receipts, queue, stale, faults>>

\* The process is killed, or an exception leaves run_once ...
Crash(w) ==
  /\ phase[w] # "down"
  /\ faults < MaxFaults
  /\ faults' = faults + 1
  /\ Exit(w)

\* ... and the container is started again.
Restart(w) ==
  /\ phase[w] = "down"
  /\ Goto(w, "poll")
  /\ UNCHANGED <<rows, queue, stale, batch, late, faults>>

(***************************************************************************)
(* The environment                                                         *)
(***************************************************************************)
workers == <<phase, queue, stale, batch, late, faults>>

\* A business transaction that publishes e commits.  Commits may come in
\* another order than created_at.
Publish(e) ==
  /\ outbox[e] = "none"
  /\ outbox' = [outbox EXCEPT ![e] = "pending"]
  /\ UNCHANGED <<receipts, run, effects, reports, approval, workers>>

\* ApprovalEngine.approve: _resume_action sets the linked run RUNNING.
Approve(e) ==
  /\ approval[e] = "pending"
  /\ approval' = [approval EXCEPT ![e] = "approved"]
  /\ run' = [run EXCEPT ![e].status = "running"]
  /\ UNCHANGED <<outbox, receipts, effects, reports, workers>>

Reject(e) ==
  /\ approval[e] = "pending"
  /\ approval' = [approval EXCEPT ![e] = "rejected"]
  /\ UNCHANGED <<outbox, receipts, run, effects, reports, workers>>

Earlier(n) == IF n = 0 THEN 0 ELSE n - 1
Tick ==
  /\ \E e \in Event : run[e] # NoRun /\ run[e].wait + run[e].left > 0
  /\ run' = [e \in Event |->
       IF run[e] = NoRun THEN NoRun
       ELSE [run[e] EXCEPT !.wait = Earlier(@), !.left = Earlier(@)]]
  /\ UNCHANGED <<outbox, receipts, effects, reports, approval, workers>>

(***************************************************************************)
(* The specification                                                       *)
(***************************************************************************)

Init ==
  /\ outbox = [e \in Event |-> "none"]
  /\ receipts = {}
  /\ run = [e \in Event |-> NoRun]
  /\ effects = [e \in Event |-> 0]
  /\ reports = [e \in Event |-> 0]
  /\ approval = [e \in Event |-> "none"]
  /\ phase = [w \in Worker |-> "poll"]
  /\ queue = [w \in Worker |-> {}]
  /\ stale = [w \in Worker |-> FALSE]
  /\ batch = [w \in Worker |-> {}]
  /\ late = [w \in Worker |-> {}]
  /\ faults = 0

Work(w) ==
  \/ Poll(w) \/ LoadEvent(w) \/ LockRuns(w) \/ RetryDue(w) \/ Restart(w)
  \/ \E e \in Event : \/ LockEvent(w, e) \/ RunHandler(w, e)
                      \/ MarkComplete(w, e) \/ RecordFailure(w, e)
                      \/ StaleData(w, e)

Next ==
  \/ \E w \in Worker : \/ Work(w)
                      \/ \E e \in Event : HandlerRaises(w, e)
                      \/ Crash(w)
  \/ \E e \in Event : Publish(e) \/ Approve(e) \/ Reject(e)
  \/ Tick

Spec == Init /\ [][Next]_vars

\* Workers poll for ever, containers are restarted, row locks are granted in
\* the order of arrival, and time passes.
FairSpec ==
  /\ Spec
  /\ \A w \in Worker : SF_vars(Work(w))
  /\ WF_vars(Tick)

(***************************************************************************)
(* Properties                                                              *)
(***************************************************************************)

Phase == {"poll", "event", "handler", "complete", "completing", "failure",
          "failing", "retry", "down"}

\* The tables and the local state of the workers are well formed.
TypeOK ==
  /\ outbox \in [Event -> {"none", "pending", "failed", "published"}]
  /\ receipts \in SUBSET Event
  /\ run \in [Event -> Run \cup {NoRun}]
  /\ effects \in [Event -> Nat]
  /\ reports \in [Event -> Nat]
  /\ approval \in [Event -> {"none", "pending", "approved", "rejected"}]
  /\ phase \in [Worker -> Phase]
  /\ queue \in [Worker -> SUBSET Event]
  /\ stale \in [Worker -> BOOLEAN]
  /\ batch \in [Worker -> SUBSET Event]
  /\ late \in [Worker -> SUBSET Event]
  /\ faults \in 0 .. MaxFaults

RunOf(e) == IF run[e] = NoRun THEN "none" ELSE run[e].status

\* Redelivery, crashes, a second worker and retries never repeat the business
\* effects of an event: they are committed once, with the attempt that ends
\* or pauses its run, and not at all when the run fails.
EffectsOnce ==
  \A e \in Event :
    effects[e] = IF RunOf(e) \in {"succeeded", "pending", "running"}
                 THEN 1 ELSE 0

\* "Terminal failures publish one idempotent WORKFLOW_FAILED event": it is
\* stored if and only if the run has failed (docs/workflows.md).
FailureReportedOnce ==
  \A e \in Event : reports[e] = IF RunOf(e) = "failed" THEN 1 ELSE 0

\* The receipt of the handler, its workflow run and the attempts of the run
\* stand and fall together; only handled events are acknowledged.
ReceiptsMatchRuns ==
  \A e \in Event :
    /\ e \in receipts <=> run[e] # NoRun
    /\ outbox[e] = "published" => e \in receipts
    /\ e \in receipts => outbox[e] # "none" /\ run[e].attempts > 0

\* A run that is over is never taken up again, neither by a redelivery of its
\* event nor by the scheduler or an approval.
FinishedRunsStay ==
  [][\A e \in Event : RunOf(e) \in Terminal => run'[e] = run[e]]_run

\* The bookkeeping of the retries: no attempt beyond the configured number,
\* and no two workers that resume the same run.
RetriesBounded ==
  /\ \A e \in Event : RunOf(e) = "retrying" => run[e].attempts < MaxAttempts
  /\ \A v, w \in Worker : v # w => batch[v] \cap batch[w] = {}
  /\ \A w \in Worker : \A e \in batch[w] : RunOf(e) = "retrying"

\* At-least-once delivery: every stored event is acknowledged in the end,
\* although handlers fail, workers crash and loaded rows are stale.
EveryEventAcknowledged ==
  \A e \in Event : outbox[e] = "pending" ~> outbox[e] = "published"

\* A run that waits for a retry is retried until it ends or pauses.
EveryRetryEnds ==
  \A e \in Event : RunOf(e) = "retrying" ~> RunOf(e) # "retrying"

\* "approval callbacks call `resume()` after approval": a run whose approval
\* is granted is completed.
ApprovedRunsFinish ==
  \A e \in Event : approval[e] = "approved" ~> RunOf(e) \in Terminal

\* Every commit of a worker is one step of the promise.
Life(e) ==
  CASE RunOf(e) = "none" -> IF outbox[e] = "none" THEN "absent" ELSE "queued"
    [] RunOf(e) = "pending" -> "waiting"
    [] RunOf(e) = "running" -> "granted"
    [] OTHER -> RunOf(e)
Tries(e) == IF run[e] = NoRun THEN 0 ELSE run[e].attempts
Promise == INSTANCE WorkflowPromise WITH
  life <- [e \in Event |-> Life(e)],
  attempts <- [e \in Event |-> Tries(e)],
  acked <- {e \in Event : outbox[e] = "published"}
ImplementsPromise == Promise!Spec
=============================================================================

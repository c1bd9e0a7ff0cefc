-------------------------- MODULE EventWorkerProofs --------------------------
(***************************************************************************)
(* Proofs about the event worker, for any number of workers and events:    *)
(* effects are committed once, failures are reported once, and a finished  *)
(* run is never taken up again.                                            *)
(***************************************************************************)
EXTENDS EventWorker, TLAPS

\* What the workers have read is still true when they act on it: the event
\* whose handler runs is locked and has no receipt, an event that is being
\* acknowledged has one, and only stored events are selected.
Reads ==
  /\ \A w \in Worker : \A e \in queue[w] : outbox[e] # "none"
  /\ \A w \in Worker : \A e \in Event : Current(w, e) =>
       /\ phase[w] = "handler" => e \notin receipts
       /\ phase[w] \in {"complete", "completing"} => e \in receipts
  /\ \A v, w \in Worker : \A e \in Event :
       /\ phase[v] = "handler" /\ Current(v, e)
       /\ phase[w] = "handler" /\ Current(w, e)
       => v = w

\* An open approval belongs to a paused run, and the countdowns of a run that
\* is over are cleared.
Pauses ==
  \A e \in Event :
    /\ approval[e] = "pending" => RunOf(e) = "pending"
    /\ RunOf(e) \in Terminal => run[e].wait = 0 /\ run[e].left = 0

WorkerInv ==
  /\ TypeOK
  /\ EffectsOnce
  /\ FailureReportedOnce
  /\ ReceiptsMatchRuns
  /\ RetriesBounded
  /\ Reads
  /\ Pauses

(***************************************************************************)
(* Attempts                                                                *)
(***************************************************************************)

LEMMA NewRunIsRun == NewRun \in Run
  BY WorkerAssumption DEF NewRun, Run, RunStatus

\* Run m is what an attempt of event e makes of run r: o is the outcome of the
\* step and X holds the events that are past their deadline.
Attempted(r, o, e, X, m) ==
  /\ m \in Run
  /\ m.status \in {"pending", "retrying", "succeeded", "failed"}
  /\ m.status \in {"pending", "succeeded"} <=> e \notin X /\ Keeps(o)
  /\ m.status = "pending" <=> e \notin X /\ o = "waiting"
  /\ m.status = "retrying" => e \notin X /\ m.attempts < MaxAttempts
  /\ m.status \in Terminal => m.wait = 0 /\ m.left = 0
  /\ m.attempts = IF e \in X THEN r.attempts ELSE r.attempts + 1

\* What _execute makes of a run that has an attempt left.
LEMMA ExecuteResult ==
  ASSUME NEW r \in Run, r.status \in {"pending", "retrying"},
         r.attempts < MaxAttempts, NEW o \in Outcome, NEW e, NEW X
  PROVE  Attempted(r, o, e, X, Execute(r, o, e \in X))
<1> USE DEF Attempted
<1> DEFINE n == Execute(r, o, e \in X)
           a == r.attempts + 1
<1>1. /\ a \in 1 .. MaxAttempts /\ RetryDelay * a \in Nat
      /\ r.status \in RunStatus /\ r.wait \in Nat /\ r.left \in 0 .. Timeout
      /\ r = [status |-> r.status, attempts |-> r.attempts,
              wait |-> r.wait, left |-> r.left]
  BY WorkerAssumption DEF Run
<1>2. CASE e \in X
  <2>1. n = [status |-> "failed", attempts |-> r.attempts, wait |-> 0,
             left |-> 0]
    BY <1>1, <1>2 DEF Execute, Finish
  <2> QED BY <1>1, <1>2, <2>1, WorkerAssumption
            DEF Run, RunStatus, Terminal, Keeps
<1>3. CASE e \notin X /\ o = "completed"
  <2>1. n = [status |-> "succeeded", attempts |-> a, wait |-> 0, left |-> 0]
    BY <1>1, <1>3 DEF Execute, Finish
  <2> QED BY <1>1, <1>3, <2>1, WorkerAssumption
            DEF Run, RunStatus, Terminal, Keeps
<1>4. CASE e \notin X /\ o = "waiting"
  <2>1. n = [status |-> "pending", attempts |-> a, wait |-> 0, left |-> 0]
    BY <1>1, <1>4 DEF Execute, Finish
  <2> QED BY <1>1, <1>4, <2>1, WorkerAssumption
            DEF Run, RunStatus, Terminal, Keeps
<1>5. CASE e \notin X /\ o = "error" /\ ~ LastAttempt(a)
  <2>1. n = [status |-> "retrying", attempts |-> a, wait |-> RetryDelay * a,
             left |-> r.left]
    BY <1>1, <1>5 DEF Execute
  <2>2. a < MaxAttempts
    BY <1>1, <1>5, WorkerAssumption DEF LastAttempt
  <2> HIDE DEF n
  <2>3. n \in Run
    BY <1>1, <2>1 DEF Run, RunStatus
  <2>4. n.status = "retrying" /\ n.attempts = a
    BY <2>1
  <2> QED BY <1>5, <2>2, <2>3, <2>4 DEF Terminal, Keeps, n
<1>6. CASE e \notin X /\ (o = "nonRetryable" \/ (o = "error" /\ LastAttempt(a)))
  <2>1. n = [status |-> "failed", attempts |-> a, wait |-> 0, left |-> 0]
    BY <1>1, <1>6 DEF Execute, Finish
  <2> QED BY <1>1, <1>6, <2>1, WorkerAssumption
            DEF Run, RunStatus, Terminal, Keeps
<1> QED BY <1>2, <1>3, <1>4, <1>5, <1>6 DEF Outcome

\* Runs that have not started, or that wait for a retry, make an attempt:
\* their effects, reports and approvals go with the new status.
LEMMA AttemptResult ==
  ASSUME WorkerInv, NEW S \in SUBSET Event, NEW X,
         NEW o \in [S -> Outcome], Attempt(S, o, X),
         \A e \in S : run[e] = NoRun \/ RunOf(e) = "retrying",
         \A e \in S : run[e] = NoRun => e \notin X
  PROVE  /\ run' \in [Event -> Run \cup {NoRun}]
         /\ effects' \in [Event -> Nat]
         /\ reports' \in [Event -> Nat]
         /\ approval' \in [Event -> {"none", "pending", "approved", "rejected"}]
         /\ \A e \in Event \ S : /\ run'[e] = run[e]
                                 /\ approval'[e] = approval[e]
         /\ \A e \in S : run'[e] # NoRun /\ run'[e].attempts > 0
         /\ EffectsOnce' /\ FailureReportedOnce'
         /\ \A e \in Event :
              RunOf(e)' = "retrying" => run'[e].attempts < MaxAttempts
         /\ Pauses'
<1> DEFINE n(e) == Execute(Started(e), o[e], e \in X)
<1>1. \A e \in Event \ S :
        /\ run'[e] = run[e] /\ effects'[e] = effects[e]
        /\ reports'[e] = reports[e] /\ approval'[e] = approval[e]
  BY DEF Attempt
<1>2. \A e \in S :
        /\ run'[e] = n(e)
        /\ effects'[e] = IF e \notin X /\ Keeps(o[e]) THEN effects[e] + 1
                                                     ELSE effects[e]
        /\ reports'[e] = IF n(e).status = "failed" THEN reports[e] + 1
                                                   ELSE reports[e]
        /\ approval'[e] = IF e \notin X /\ Keeps(o[e]) /\ o[e] = "waiting"
                          THEN "pending" ELSE approval[e]
  BY DEF Attempt, Reports
<1> HIDE DEF n
<1>3. \A e \in S : /\ Started(e) \in Run
                   /\ Started(e).status \in {"pending", "retrying"}
                   /\ Started(e).attempts < MaxAttempts
                   /\ run[e] # NoRun => Started(e).attempts > 0
                   /\ o[e] \in Outcome
                   /\ effects[e] = 0 /\ reports[e] = 0
  <2> SUFFICES ASSUME NEW e \in S
               PROVE  /\ Started(e) \in Run
                      /\ Started(e).status \in {"pending", "retrying"}
                      /\ Started(e).attempts < MaxAttempts
                      /\ run[e] # NoRun => Started(e).attempts > 0
                      /\ effects[e] = 0 /\ reports[e] = 0
    OBVIOUS
  <2>1. effects[e] = 0 /\ reports[e] = 0
    BY DEF WorkerInv, EffectsOnce, FailureReportedOnce, RunOf
  <2>2. CASE run[e] = NoRun
    BY <2>1, <2>2, NewRunIsRun, WorkerAssumption DEF Started, NewRun
  <2>3. CASE run[e] # NoRun
    BY <2>1, <2>3 DEF Started, WorkerInv, TypeOK, RunOf, RetriesBounded,
                      ReceiptsMatchRuns
  <2> QED BY <2>2, <2>3
<1>4. \A e \in S : /\ Attempted(Started(e), o[e], e, X, n(e))
                   /\ n(e).attempts > 0
  <2> TAKE e \in S
  <2>1. /\ Started(e) \in Run
        /\ Started(e).status \in {"pending", "retrying"}
        /\ Started(e).attempts < MaxAttempts
        /\ o[e] \in Outcome
    BY <1>3
  <2>2. Attempted(Started(e), o[e], e, X, n(e))
    BY <2>1, ExecuteResult DEF n
  <2>3. Started(e).attempts \in Nat
    BY <2>1 DEF Run
  <2> QED BY <1>3, <2>2, <2>3 DEF Attempted
<1> USE DEF Attempted
<1>5. /\ run' = [e \in Event |-> run'[e]]
      /\ effects' = [e \in Event |-> effects'[e]]
      /\ reports' = [e \in Event |-> reports'[e]]
      /\ approval' = [e \in Event |-> approval'[e]]
  BY DEF Attempt
<1>6. \A e \in S : n(e) # NoRun
  BY <1>4, NoRunAssumption
<1>7. \A e \in Event : RunOf(e)' = IF e \in S THEN n(e).status ELSE RunOf(e)
  BY <1>1, <1>2, <1>6 DEF RunOf
<1>8. /\ run' \in [Event -> Run \cup {NoRun}]
      /\ effects' \in [Event -> Nat]
      /\ reports' \in [Event -> Nat]
      /\ approval' \in [Event -> {"none", "pending", "approved", "rejected"}]
  <2>1. \A e \in Event : run'[e] \in Run \cup {NoRun}
    BY <1>1, <1>2, <1>4 DEF WorkerInv, TypeOK
  <2>2. \A e \in Event : effects'[e] \in Nat /\ reports'[e] \in Nat
    BY <1>1, <1>2 DEF WorkerInv, TypeOK
  <2>3. \A e \in Event : approval'[e] \in {"none", "pending", "approved", "rejected"}
    BY <1>1, <1>2 DEF WorkerInv, TypeOK
  <2> QED BY <1>5, <2>1, <2>2, <2>3
<1>9. EffectsOnce'
  BY <1>1, <1>2, <1>3, <1>4, <1>7 DEF WorkerInv, EffectsOnce
<1>10. FailureReportedOnce'
  BY <1>1, <1>2, <1>3, <1>4, <1>7 DEF WorkerInv, FailureReportedOnce
<1>11. \A e \in Event : RunOf(e)' = "retrying" => run'[e].attempts < MaxAttempts
  BY <1>1, <1>2, <1>4, <1>7 DEF WorkerInv, RetriesBounded
<1>12. Pauses'
  <2> SUFFICES ASSUME NEW e \in Event
               PROVE  /\ approval'[e] = "pending" => RunOf(e)' = "pending"
                      /\ RunOf(e)' \in Terminal =>
                           run'[e].wait = 0 /\ run'[e].left = 0
    BY DEF Pauses
  <2>1. approval[e] = "pending" => RunOf(e) = "pending"
    BY DEF WorkerInv, Pauses
  <2>2. CASE e \in S
    BY <1>2, <1>4, <1>7, <2>1, <2>2 DEF RunOf, Keeps
  <2>3. CASE e \notin S
    BY <1>1, <1>7, <2>3 DEF WorkerInv, Pauses
  <2> QED BY <2>2, <2>3
<1> QED BY <1>1, <1>2, <1>4, <1>6, <1>8, <1>9, <1>10, <1>11, <1>12
(***************************************************************************)
(* The steps                                                               *)
(***************************************************************************)

LEMMA InitWorkerInv == Init => WorkerInv
<1> SUFFICES ASSUME Init PROVE WorkerInv
  OBVIOUS
<1>1. TypeOK
  BY WorkerAssumption DEF Init, TypeOK, Phase
<1>2. EffectsOnce /\ FailureReportedOnce /\ ReceiptsMatchRuns /\ RetriesBounded
  BY DEF Init, EffectsOnce, FailureReportedOnce, ReceiptsMatchRuns,
         RetriesBounded, RunOf
<1>3. Reads /\ Pauses
  BY DEF Init, Reads, Pauses, RunOf, Terminal
<1> QED BY <1>1, <1>2, <1>3 DEF WorkerInv

\* A step that leaves the tables alone preserves what is said about them.
LEMMA RowsUnchanged ==
  ASSUME WorkerInv, UNCHANGED rows
  PROVE  EffectsOnce' /\ FailureReportedOnce' /\ ReceiptsMatchRuns' /\ Pauses'
<1>1. \A e \in Event : RunOf(e)' = RunOf(e)
  BY DEF rows, RunOf
<1> QED BY <1>1 DEF WorkerInv, rows, EffectsOnce, FailureReportedOnce,
                    ReceiptsMatchRuns, Pauses

\* A step that leaves runs and locked batches alone preserves RetriesBounded.
LEMMA BatchesUnchanged ==
  ASSUME WorkerInv, run' = run, batch' = batch
  PROVE  RetriesBounded'
BY DEF WorkerInv, RetriesBounded, RunOf

LEMMA PollStep ==
  ASSUME WorkerInv, NEW w \in Worker, Poll(w)
  PROVE  WorkerInv'
<1>1. TypeOK'
  BY DEF WorkerInv, TypeOK, Poll, Goto, rows, Phase, Pending
<1>2. Reads'
  <2>1. \A v \in Worker : v # w => queue'[v] = queue[v] /\ phase'[v] = phase[v]
    BY DEF Poll, Goto, WorkerInv, TypeOK
  <2>2. phase'[w] = "event" /\ queue'[w] \subseteq Pending
    BY DEF Poll, Goto, WorkerInv, TypeOK
  <2>3. \A e \in Pending : outbox[e] # "none"
    BY DEF Pending
  <2> QED BY <2>1, <2>2, <2>3 DEF Poll, rows, WorkerInv, Reads, Current
<1> QED BY <1>1, <1>2, RowsUnchanged, BatchesUnchanged DEF Poll, rows, WorkerInv

LEMMA LockEventStep ==
  ASSUME WorkerInv, NEW w \in Worker, NEW e \in Event, LockEvent(w, e)
  PROVE  WorkerInv'
<1>1. TypeOK'
  BY DEF WorkerInv, TypeOK, LockEvent, Goto, rows, Phase
<1>2. Reads'
  <2>1. \A v \in Worker : v # w => phase'[v] = phase[v]
    BY DEF LockEvent, Goto, WorkerInv, TypeOK
  <2>2. phase'[w] = IF e \in receipts THEN "complete" ELSE "handler"
    BY DEF LockEvent, Goto, WorkerInv, TypeOK
  <2>3. \A v \in Worker : \A d \in Event : Current(v, d)' <=> Current(v, d)
    BY DEF LockEvent, Current
  <2>4. \A d \in Event : Current(w, d) => d = e
    BY DEF LockEvent, Current, Event
  <2>5. \A v \in Worker \ {w} : ~ (phase[v] = "handler" /\ Current(v, e))
    BY DEF LockEvent, LockedByOther
  <2> QED BY <2>1, <2>2, <2>3, <2>4, <2>5
          DEF LockEvent, rows, WorkerInv, Reads
<1> QED BY <1>1, <1>2, RowsUnchanged, BatchesUnchanged
        DEF LockEvent, rows, WorkerInv

LEMMA RunHandlerStep ==
  ASSUME WorkerInv, NEW w \in Worker, NEW e \in Event, RunHandler(w, e)
  PROVE  WorkerInv'
<1>1. e \notin receipts /\ run[e] = NoRun /\ outbox[e] # "none"
  BY DEF RunHandler, WorkerInv, Reads, ReceiptsMatchRuns, Current
<1>2. PICK o \in [{e} -> Outcome] : Attempt({e}, o, {})
  BY <1>1 DEF RunHandler, Started, NewRun, Terminal
<1>3. /\ run' \in [Event -> Run \cup {NoRun}]
      /\ effects' \in [Event -> Nat]
      /\ reports' \in [Event -> Nat]
      /\ approval' \in [Event -> {"none", "pending", "approved", "rejected"}]
      /\ \A d \in Event \ {e} : run'[d] = run[d]
      /\ run'[e] # NoRun /\ run'[e].attempts > 0
      /\ EffectsOnce' /\ FailureReportedOnce' /\ Pauses'
      /\ \A d \in Event : RunOf(d)' = "retrying" => run'[d].attempts < MaxAttempts
  <2> DEFINE S == {e}
             X == {}
  <2>1. /\ S \in SUBSET Event /\ o \in [S -> Outcome] /\ Attempt(S, o, X)
        /\ \A d \in S : run[d] = NoRun \/ RunOf(d) = "retrying"
        /\ \A d \in S : run[d] = NoRun => d \notin X
    BY <1>1, <1>2
  <2>2. e \in S /\ \A d \in Event \ {e} : d \in Event \ S
    OBVIOUS
  <2> HIDE DEF S, X
  <2> QED BY <2>1, <2>2, AttemptResult
<1>4. TypeOK'
  BY <1>3 DEF RunHandler, WorkerInv, TypeOK, Goto, Phase
<1>5. ReceiptsMatchRuns'
  BY <1>1, <1>3 DEF RunHandler, WorkerInv, ReceiptsMatchRuns
<1>6. RetriesBounded'
  <2>1. \A v \in Worker : e \notin batch[v]
    BY <1>1 DEF WorkerInv, RetriesBounded, RunOf
  <2>2. \A v \in Worker : \A d \in batch[v] : d \in Event /\ d # e
    BY <2>1 DEF WorkerInv, TypeOK
  <2> QED BY <1>3, <2>2 DEF RunHandler, WorkerInv, RetriesBounded, RunOf
<1>7. Reads'
  <2>1. \A v \in Worker : v # w => phase'[v] = phase[v]
    BY DEF RunHandler, Goto, WorkerInv, TypeOK
  <2>2. phase'[w] = "complete"
    BY DEF RunHandler, Goto, WorkerInv, TypeOK
  <2>3. \A v \in Worker : \A d \in Event : Current(v, d)' <=> Current(v, d)
    BY DEF RunHandler, Current
  <2>4. \A d \in Event : Current(w, d) => d = e
    BY DEF RunHandler, Current, Event
  <2>5. phase[w] = "handler" /\ Current(w, e)
    BY DEF RunHandler
  <2> QED BY <2>1, <2>2, <2>3, <2>4, <2>5 DEF RunHandler, WorkerInv, Reads
<1> QED BY <1>3, <1>4, <1>5, <1>6, <1>7 DEF WorkerInv

LEMMA HandlerRaisesStep ==
  ASSUME WorkerInv, NEW w \in Worker, NEW e \in Event, HandlerRaises(w, e)
  PROVE  WorkerInv'
<1>1. TypeOK'
  BY WorkerAssumption DEF WorkerInv, TypeOK, HandlerRaises, Goto, rows, Phase
<1>2. Reads'
  BY DEF WorkerInv, TypeOK, Reads, HandlerRaises, Goto, rows, Current
<1> QED BY <1>1, <1>2, RowsUnchanged, BatchesUnchanged
        DEF HandlerRaises, rows, WorkerInv

LEMMA LoadEventStep ==
  ASSUME WorkerInv, NEW w \in Worker, LoadEvent(w)
  PROVE  WorkerInv'
<1>1. TypeOK'
  BY DEF WorkerInv, TypeOK, LoadEvent, Goto, rows, Phase
<1>2. Reads'
  BY SMTT(30) DEF WorkerInv, TypeOK, Reads, LoadEvent, Goto, rows, Current
<1> QED BY <1>1, <1>2, RowsUnchanged, BatchesUnchanged
        DEF LoadEvent, rows, WorkerInv

LEMMA UpdateEventStep ==
  ASSUME WorkerInv, NEW w \in Worker, NEW e \in Event,
         MarkComplete(w, e) \/ RecordFailure(w, e)
  PROVE  WorkerInv'
<1> PICK status \in {"published", "failed"} :
      /\ UpdateEvent(w, e, status)
      /\ status = "published" => e \in receipts
  BY DEF MarkComplete, RecordFailure, WorkerInv, Reads, UpdateEvent, Updating
<1>1. TypeOK'
  BY DEF WorkerInv, TypeOK, UpdateEvent, Goto, Phase
<1>2. /\ \A d \in Event : RunOf(d)' = RunOf(d)
      /\ \A d \in Event \ {e} : outbox'[d] = outbox[d]
      /\ outbox'[e] = status /\ outbox[e] # "none"
  BY DEF UpdateEvent, Updating, Current, RunOf, WorkerInv, TypeOK, Reads
<1>3. EffectsOnce' /\ FailureReportedOnce' /\ ReceiptsMatchRuns' /\ Pauses'
  BY <1>2 DEF WorkerInv, UpdateEvent, EffectsOnce, FailureReportedOnce,
              ReceiptsMatchRuns, Pauses
<1>4. Reads'
  <2>1. \A v \in Worker : v # w => queue'[v] = queue[v] /\ phase'[v] = phase[v]
    BY DEF UpdateEvent, Goto, WorkerInv, TypeOK
  <2>2. phase'[w] = "event" /\ queue'[w] \subseteq queue[w]
    BY DEF UpdateEvent, Goto, WorkerInv, TypeOK
  <2>3. \A v \in Worker : queue'[v] \subseteq Event
    BY <1>1 DEF TypeOK
  <2> QED BY <1>2, <2>1, <2>2, <2>3
          DEF UpdateEvent, WorkerInv, Reads, Current
<1> QED BY <1>1, <1>3, <1>4, BatchesUnchanged DEF UpdateEvent, WorkerInv

LEMMA ExitStep ==
  ASSUME WorkerInv, NEW w \in Worker, Exit(w), faults' \in 0 .. MaxFaults
  PROVE  WorkerInv'
<1>1. TypeOK'
  BY DEF WorkerInv, TypeOK, Exit, Goto, rows, Phase
<1>2. Reads'
  BY DEF WorkerInv, TypeOK, Reads, Exit, Goto, rows, Current
<1>3. RetriesBounded'
  <2>1. \A v \in Worker : batch'[v] \subseteq batch[v]
    BY DEF WorkerInv, TypeOK, Exit
  <2> QED BY <2>1 DEF WorkerInv, TypeOK, RetriesBounded, Exit, rows, RunOf
<1> QED BY <1>1, <1>2, <1>3, RowsUnchanged DEF Exit, WorkerInv

LEMMA LockRunsStep ==
  ASSUME WorkerInv, NEW w \in Worker, LockRuns(w)
  PROVE  WorkerInv'
<1>1. PICK S \in SUBSET Due(w) :
        /\ batch' = [batch EXCEPT ![w] = S]
        /\ late' = [late EXCEPT ![w] = {e \in S : run[e].left = 0}]
  BY DEF LockRuns
<1>2. S \subseteq Event
  BY DEF Due
<1>3. TypeOK'
  BY <1>1, <1>2 DEF WorkerInv, TypeOK, LockRuns, Goto, rows, Phase
<1>4. Reads'
  BY DEF WorkerInv, TypeOK, Reads, LockRuns, Goto, rows, Current
<1>5. RetriesBounded'
  <2>1. \A v \in Worker : batch'[v] = IF v = w THEN S ELSE batch[v]
    BY <1>1 DEF WorkerInv, TypeOK
  <2>2. \A v \in Worker \ {w} : S \cap batch[v] = {}
    BY DEF Due
  <2>3. \A e \in S : RunOf(e) = "retrying"
    BY DEF Due, RunOf
  <2> QED BY <2>1, <2>2, <2>3
          DEF WorkerInv, RetriesBounded, LockRuns, rows, RunOf
<1> QED BY <1>3, <1>4, <1>5, RowsUnchanged DEF LockRuns, WorkerInv

LEMMA RetryDueStep ==
  ASSUME WorkerInv, NEW w \in Worker, RetryDue(w)
  PROVE  WorkerInv'
<1>1. PICK o \in [batch[w] -> Outcome] : Attempt(batch[w], o, late[w])
  BY DEF RetryDue
<1>2. /\ batch[w] \in SUBSET Event
      /\ \A e \in batch[w] : RunOf(e) = "retrying" /\ run[e] # NoRun
  BY DEF WorkerInv, TypeOK, RetriesBounded, RunOf
<1>3. /\ run' \in [Event -> Run \cup {NoRun}]
      /\ effects' \in [Event -> Nat]
      /\ reports' \in [Event -> Nat]
      /\ approval' \in [Event -> {"none", "pending", "approved", "rejected"}]
      /\ \A e \in Event \ batch[w] : run'[e] = run[e]
      /\ \A e \in batch[w] : run'[e] # NoRun /\ run'[e].attempts > 0
      /\ EffectsOnce' /\ FailureReportedOnce' /\ Pauses'
      /\ \A e \in Event : RunOf(e)' = "retrying" => run'[e].attempts < MaxAttempts
  BY <1>1, <1>2, AttemptResult
<1>4. TypeOK'
  BY <1>3 DEF RetryDue, WorkerInv, TypeOK, Goto, Phase
<1>5. ReceiptsMatchRuns'
  BY <1>2, <1>3 DEF RetryDue, WorkerInv, ReceiptsMatchRuns
<1>6. RetriesBounded'
  <2>1. \A v \in Worker : batch'[v] = IF v = w THEN {} ELSE batch[v]
    BY DEF RetryDue, WorkerInv, TypeOK
  <2>2. \A v \in Worker \ {w} : batch[v] \subseteq Event \ batch[w]
    BY DEF WorkerInv, TypeOK, RetriesBounded
  <2> QED BY <1>3, <2>1, <2>2 DEF WorkerInv, RetriesBounded, RunOf
<1>7. Reads'
  BY DEF WorkerInv, TypeOK, Reads, RetryDue, Goto, Current
<1> QED BY <1>3, <1>4, <1>5, <1>6, <1>7 DEF WorkerInv

LEMMA RestartStep ==
  ASSUME WorkerInv, NEW w \in Worker, Restart(w)
  PROVE  WorkerInv'
<1>1. TypeOK'
  BY DEF WorkerInv, TypeOK, Restart, Goto, rows, Phase
<1>2. Reads'
  BY DEF WorkerInv, TypeOK, Reads, Restart, Goto, rows, Current
<1> QED BY <1>1, <1>2, RowsUnchanged, BatchesUnchanged
        DEF Restart, rows, WorkerInv

LEMMA PublishStep ==
  ASSUME WorkerInv, NEW e \in Event, Publish(e)
  PROVE  WorkerInv'
<1>1. TypeOK'
  BY DEF WorkerInv, TypeOK, Publish, workers
<1>2. \A d \in Event : RunOf(d)' = RunOf(d)
  BY DEF Publish, RunOf
<1>3. \A d \in Event : outbox'[d] = IF d = e THEN "pending" ELSE outbox[d]
  BY DEF Publish, WorkerInv, TypeOK
<1>4. EffectsOnce' /\ FailureReportedOnce' /\ ReceiptsMatchRuns' /\ Pauses'
  BY <1>2, <1>3 DEF WorkerInv, Publish, EffectsOnce, FailureReportedOnce,
                    ReceiptsMatchRuns, Pauses
<1>5. Reads'
  <2>1. \A v \in Worker : queue[v] \subseteq Event
    BY DEF WorkerInv, TypeOK
  <2> QED BY <1>3, <2>1 DEF WorkerInv, Publish, workers, Reads, Current
<1> QED BY <1>1, <1>4, <1>5, BatchesUnchanged DEF Publish, workers, WorkerInv

LEMMA DecisionStep ==
  ASSUME WorkerInv, NEW e \in Event, Approve(e) \/ Reject(e)
  PROVE  WorkerInv'
<1>1. /\ approval[e] = "pending" /\ RunOf(e) = "pending" /\ run[e] \in Run
      /\ run' = run \/ run' = [run EXCEPT ![e].status = "running"]
      /\ approval' = [approval EXCEPT ![e] = "approved"]
         \/ approval' = [approval EXCEPT ![e] = "rejected"]
  BY DEF Approve, Reject, WorkerInv, Pauses, RunOf, TypeOK
<1>2. /\ \A d \in Event \ {e} : run'[d] = run[d] /\ approval'[d] = approval[d]
      /\ run'[e] \in Run /\ run'[e] # NoRun
      /\ run'[e].attempts = run[e].attempts
      /\ run'[e].status \in {"pending", "running"}
      /\ approval'[e] \in {"approved", "rejected"}
      /\ run' \in [Event -> Run \cup {NoRun}]
  <2>1. run[e].status = "pending"
    BY <1>1, NoRunAssumption DEF RunOf
  <2>2. [run[e] EXCEPT !.status = "running"] \in Run
    BY <1>1 DEF Run, RunStatus
  <2>3. [run[e] EXCEPT !.status = "running"].attempts = run[e].attempts
        /\ [run[e] EXCEPT !.status = "running"].status = "running"
    BY <1>1 DEF Run
  <2>4. /\ \A d \in Event \ {e} : run'[d] = run[d] /\ approval'[d] = approval[d]
        /\ run'[e] = run[e] \/ run'[e] = [run[e] EXCEPT !.status = "running"]
        /\ approval'[e] \in {"approved", "rejected"}
    BY <1>1 DEF WorkerInv, TypeOK
  <2>5. /\ run'[e] \in Run
        /\ run'[e].attempts = run[e].attempts
        /\ run'[e].status \in {"pending", "running"}
    BY <1>1, <2>1, <2>2, <2>3, <2>4
  <2>6. run' \in [Event -> Run \cup {NoRun}]
    BY <1>1, <2>2 DEF WorkerInv, TypeOK
  <2> QED BY <2>4, <2>5, <2>6, NoRunAssumption
<1>3. /\ \A d \in Event \ {e} : RunOf(d)' = RunOf(d)
      /\ RunOf(e)' \in {"pending", "running"}
  BY <1>2 DEF RunOf
<1>4. /\ UNCHANGED <<outbox, receipts, effects, reports, phase, queue, stale,
                     batch, late, faults>>
  BY DEF Approve, Reject, workers
<1>5. TypeOK'
  BY <1>1, <1>2, <1>4 DEF WorkerInv, TypeOK
<1>6. EffectsOnce' /\ FailureReportedOnce'
  BY <1>1, <1>3, <1>4 DEF WorkerInv, EffectsOnce, FailureReportedOnce
<1>7. ReceiptsMatchRuns'
  BY <1>1, <1>2, <1>4, NoRunAssumption DEF WorkerInv, ReceiptsMatchRuns
<1>8. RetriesBounded'
  <2>1. \A v \in Worker : \A d \in batch[v] : d \in Event /\ d # e
    BY <1>1 DEF WorkerInv, TypeOK, RetriesBounded
  <2> QED BY <1>2, <1>3, <1>4, <2>1 DEF WorkerInv, RetriesBounded
<1>9. Reads'
  BY <1>4 DEF WorkerInv, Reads, Current
<1>10. Pauses'
  BY <1>2, <1>3 DEF WorkerInv, Pauses, Terminal
<1> QED BY <1>5, <1>6, <1>7, <1>8, <1>9, <1>10 DEF WorkerInv

LEMMA TickStep ==
  ASSUME WorkerInv, Tick
  PROVE  /\ WorkerInv'
         /\ \A e \in Event : RunOf(e) \in Terminal => run'[e] = run[e]
         /\ \A e \in Event : RunOf(e)' = RunOf(e) /\ Tries(e)' = Tries(e)
<1>1. ASSUME NEW e \in Event, run[e] # NoRun
      PROVE  /\ run'[e] \in Run
             /\ run'[e].status = run[e].status
             /\ run'[e].attempts = run[e].attempts
             /\ run[e].wait = 0 => run'[e].wait = 0
             /\ run[e].left = 0 => run'[e].left = 0
             /\ run[e].wait = 0 /\ run[e].left = 0 => run'[e] = run[e]
  <2>1. run[e] \in Run
    BY <1>1 DEF WorkerInv, TypeOK
  <2>2. run'[e] = [status |-> run[e].status, attempts |-> run[e].attempts,
                   wait |-> Earlier(run[e].wait), left |-> Earlier(run[e].left)]
    BY <1>1, <2>1 DEF Tick, Run
  <2>3. Earlier(run[e].wait) \in Nat /\ Earlier(run[e].left) \in 0 .. Timeout
    BY <2>1, WorkerAssumption DEF Run, Earlier
  <2>4. run[e] = [status |-> run[e].status, attempts |-> run[e].attempts,
                  wait |-> run[e].wait, left |-> run[e].left]
    BY <2>1 DEF Run
  <2>5. run'[e] \in Run
    BY <2>1, <2>2, <2>3 DEF Run
  <2> QED BY <2>2, <2>4, <2>5 DEF Earlier
<1>2. \A e \in Event : run[e] = NoRun => run'[e] = NoRun
  BY DEF Tick
<1>3. \A e \in Event : RunOf(e)' = RunOf(e)
  BY <1>1, <1>2, NoRunAssumption DEF RunOf
<1>4. UNCHANGED <<outbox, receipts, effects, reports, approval, workers>>
  BY DEF Tick
<1>5. TypeOK'
  <2>1. run' \in [Event -> Run \cup {NoRun}]
    BY <1>1, <1>2 DEF Tick
  <2> QED BY <1>4, <2>1 DEF WorkerInv, TypeOK, workers
<1>6. EffectsOnce' /\ FailureReportedOnce'
  BY <1>3, <1>4 DEF WorkerInv, EffectsOnce, FailureReportedOnce
<1>7. ReceiptsMatchRuns'
  BY <1>1, <1>2, <1>4, NoRunAssumption DEF WorkerInv, ReceiptsMatchRuns
<1>8. RetriesBounded'
  <2>1. \A e \in Event : RunOf(e) = "retrying" => run[e] # NoRun
    BY DEF RunOf
  <2>2. \A e \in Event : RunOf(e)' = "retrying" => run'[e].attempts < MaxAttempts
    BY <1>1, <1>3, <2>1 DEF WorkerInv, RetriesBounded
  <2>3. \A w \in Worker : batch[w] \subseteq Event
    BY DEF WorkerInv, TypeOK
  <2> QED BY <1>3, <1>4, <2>2, <2>3 DEF WorkerInv, RetriesBounded, workers
<1>9. Reads'
  BY <1>4 DEF WorkerInv, Reads, Current, workers
<1>10. Pauses' /\ \A e \in Event : RunOf(e) \in Terminal => run'[e] = run[e]
  <2>1. \A e \in Event : RunOf(e) \in Terminal => run[e] # NoRun
    BY DEF RunOf, Terminal
  <2> QED BY <1>1, <1>3, <1>4, <2>1 DEF WorkerInv, Pauses
<1>11. \A e \in Event : Tries(e)' = Tries(e)
  BY <1>1, <1>2, NoRunAssumption DEF Tries
<1> QED BY <1>3, <1>5, <1>6, <1>7, <1>8, <1>9, <1>10, <1>11 DEF WorkerInv

(***************************************************************************)
(* The theorems                                                            *)
(***************************************************************************)

LEMMA NextWorkerInv ==
  ASSUME WorkerInv, [Next]_vars
  PROVE  WorkerInv'
<1>1. CASE UNCHANGED vars
  <2>1. TypeOK' /\ Reads'
    BY <1>1 DEF vars, WorkerInv, TypeOK, Reads, Current
  <2> QED BY <1>1, <2>1, RowsUnchanged, BatchesUnchanged
          DEF vars, rows, WorkerInv
<1>2. ASSUME NEW w \in Worker, Work(w) PROVE WorkerInv'
  <2>1. CASE Poll(w) \/ LoadEvent(w) \/ LockRuns(w) \/ RetryDue(w) \/ Restart(w)
    BY <2>1, PollStep, LoadEventStep, LockRunsStep, RetryDueStep, RestartStep
  <2>2. ASSUME NEW e \in Event,
               \/ LockEvent(w, e) \/ RunHandler(w, e) \/ MarkComplete(w, e)
               \/ RecordFailure(w, e)
        PROVE  WorkerInv'
    BY <2>2, LockEventStep, RunHandlerStep, UpdateEventStep
  <2>3. ASSUME NEW e \in Event, StaleData(w, e) PROVE WorkerInv'
    BY <2>3, ExitStep DEF StaleData, WorkerInv, TypeOK
  <2> QED BY <1>2, <2>1, <2>2, <2>3 DEF Work
<1>3. ASSUME NEW w \in Worker, NEW e \in Event, HandlerRaises(w, e)
      PROVE  WorkerInv'
  BY <1>3, HandlerRaisesStep
<1>4. ASSUME NEW w \in Worker, Crash(w) PROVE WorkerInv'
  BY <1>4, ExitStep, WorkerAssumption DEF Crash, WorkerInv, TypeOK
<1>5. ASSUME NEW e \in Event, Publish(e) \/ Approve(e) \/ Reject(e)
      PROVE  WorkerInv'
  BY <1>5, PublishStep, DecisionStep
<1>6. CASE Tick
  BY <1>6, TickStep
<1> QED BY <1>1, <1>2, <1>3, <1>4, <1>5, <1>6 DEF Next

THEOREM WorkerInvariant == Spec => []WorkerInv
<1> QED BY InitWorkerInv, NextWorkerInv, PTL DEF Spec

\* The tables and the processes stay well formed.
THEOREM WorkersStayWellFormed == Spec => []TypeOK
<1>1. WorkerInv => TypeOK
  BY DEF WorkerInv
<1> QED BY <1>1, WorkerInvariant, PTL

\* However many workers redeliver, crash and retry, the effects of an event are
\* committed exactly when its run has succeeded or waits for a decision.
THEOREM EffectsAreCommittedOnce == Spec => []EffectsOnce
<1>1. WorkerInv => EffectsOnce
  BY DEF WorkerInv
<1> QED BY <1>1, WorkerInvariant, PTL

\* A failed run has published exactly one WORKFLOW_FAILED.
THEOREM FailuresAreReportedOnce == Spec => []FailureReportedOnce
<1>1. WorkerInv => FailureReportedOnce
  BY DEF WorkerInv
<1> QED BY <1>1, WorkerInvariant, PTL

\* Receipt, run and acknowledgement stand and fall together.
THEOREM ReceiptsMeanRuns == Spec => []ReceiptsMatchRuns
<1>1. WorkerInv => ReceiptsMatchRuns
  BY DEF WorkerInv
<1> QED BY <1>1, WorkerInvariant, PTL

\* No run makes more attempts than configured, and no two workers resume the
\* same run.
THEOREM RetriesAreBounded == Spec => []RetriesBounded
<1>1. WorkerInv => RetriesBounded
  BY DEF WorkerInv
<1> QED BY <1>1, WorkerInvariant, PTL

\* No step of any process changes a run that is over.
LEMMA StepKeepsFinishedRuns ==
  ASSUME WorkerInv, [Next]_vars
  PROVE  [\A e \in Event : RunOf(e) \in Terminal => run'[e] = run[e]]_run
<1> DEFINE Kept == \A e \in Event : RunOf(e) \in Terminal => run'[e] = run[e]
<1>1. CASE UNCHANGED run
  BY <1>1
<1>2. ASSUME NEW w \in Worker, NEW e \in Event, RunHandler(w, e)
      PROVE  Kept
  <2>1. run[e] = NoRun
    BY <1>2 DEF RunHandler, WorkerInv, Reads, ReceiptsMatchRuns
  <2>2. \A d \in Event \ {e} : run'[d] = run[d]
    BY <1>2, <2>1 DEF RunHandler, Attempt
  <2> QED BY <2>1, <2>2 DEF RunOf, Terminal
<1>3. ASSUME NEW w \in Worker, RetryDue(w)
      PROVE  Kept
  <2>1. \A d \in batch[w] : RunOf(d) = "retrying"
    BY DEF WorkerInv, RetriesBounded
  <2>2. \A d \in Event \ batch[w] : run'[d] = run[d]
    BY <1>3 DEF RetryDue, Attempt
  <2> QED BY <2>1, <2>2 DEF Terminal
<1>4. ASSUME NEW e \in Event, Approve(e)
      PROVE  Kept
  BY <1>4 DEF Approve, WorkerInv, TypeOK, Pauses, Terminal
<1>5. CASE Tick
  BY <1>5, TickStep
<1> QED
  BY <1>1, <1>2, <1>3, <1>4, <1>5
  DEF Next, Work, vars, Poll, LoadEvent, LockRuns, Restart, LockEvent,
      MarkComplete, RecordFailure, UpdateEvent, StaleData, Exit, HandlerRaises,
      Crash, Publish, Reject, rows

THEOREM FinishedRunsAreKept == Spec => FinishedRunsStay
<1> QED BY WorkerInvariant, StepKeepsFinishedRuns, PTL DEF Spec, FinishedRunsStay

(***************************************************************************)
(* The worker implements the promise                                       *)
(***************************************************************************)

\* A step that changes neither the outbox nor how far a run has come is not
\* seen in the promise.
LEMMA PromiseStutters ==
  ASSUME \A e \in Event : RunOf(e)' = RunOf(e) /\ Tries(e)' = Tries(e),
         outbox' = outbox, effects' = effects
  PROVE  UNCHANGED Promise!vars
<1>1. \A e \in Event : Life(e)' = Life(e)
  BY DEF Life
<1>2. [e \in Event |-> Life(e)]' = [e \in Event |-> Life(e)]
  BY <1>1
<1>3. [e \in Event |-> Tries(e)]' = [e \in Event |-> Tries(e)]
  OBVIOUS
<1> QED BY <1>2, <1>3 DEF Promise!vars

LEMMA RunsUnseen ==
  ASSUME run' = run, outbox' = outbox, effects' = effects
  PROVE  UNCHANGED Promise!vars
<1>1. \A e \in Event : RunOf(e)' = RunOf(e) /\ Tries(e)' = Tries(e)
  BY DEF RunOf, Tries
<1> QED BY <1>1, PromiseStutters

\* An attempt of the worker is an attempt of the promise.
LEMMA AttemptPromised ==
  ASSUME WorkerInv, NEW S \in SUBSET Event, S # {}, NEW X,
         NEW o \in [S -> Outcome], Attempt(S, o, X), outbox' = outbox,
         \A e \in S : \/ run[e] = NoRun /\ e \notin X /\ outbox[e] # "none"
                      \/ RunOf(e) = "retrying"
  PROVE  Promise!Attempt(S)
<1>1. /\ \A e \in Event \ S : run'[e] = run[e] /\ effects'[e] = effects[e]
      /\ \A e \in S :
           /\ run'[e] = Execute(Started(e), o[e], e \in X)
           /\ effects'[e] = IF e \notin X /\ Keeps(o[e]) THEN effects[e] + 1
                                                        ELSE effects[e]
  BY DEF Attempt
<1>2. ASSUME NEW e \in S
      PROVE  /\ Started(e) \in Run
             /\ Started(e).attempts = Tries(e)
             /\ Life(e) \in {"queued", "retrying"}
             /\ Attempted(Started(e), o[e], e, X, run'[e])
  <2>1. CASE run[e] = NoRun
    <3>1. Started(e) = NewRun /\ Tries(e) = 0 /\ Life(e) = "queued"
      BY <1>2, <2>1 DEF Started, Tries, Life, RunOf
    <3>2. Attempted(NewRun, o[e], e, X, Execute(NewRun, o[e], e \in X))
      <4>1. NewRun.status = "pending" /\ NewRun.attempts < MaxAttempts
        BY WorkerAssumption DEF NewRun
      <4> QED BY <4>1, NewRunIsRun, ExecuteResult
    <3> QED BY <1>1, <3>1, <3>2, NewRunIsRun DEF NewRun
  <2>2. CASE run[e] # NoRun
    <3>1. RunOf(e) = "retrying" /\ RunOf(e) = run[e].status
      BY <1>2, <2>2 DEF RunOf
    <3>2. /\ Started(e) = run[e] /\ run[e] \in Run /\ run[e].attempts < MaxAttempts
          /\ Tries(e) = run[e].attempts /\ Life(e) = "retrying"
      BY <2>2, <3>1
      DEF Started, WorkerInv, TypeOK, RetriesBounded, Tries, Life
    <3>3. Attempted(run[e], o[e], e, X, Execute(run[e], o[e], e \in X))
      BY <3>1, <3>2, ExecuteResult
    <3> QED BY <1>1, <3>2, <3>3
  <2> QED BY <2>1, <2>2
<1>3. ASSUME NEW e \in S
      PROVE  /\ \/ /\ Tries(e)' = Tries(e) + 1
                   /\ Tries(e)' <= MaxAttempts
                   /\ Life(e)' \in {"retrying", "waiting", "succeeded", "failed"}
                   /\ Life(e)' = "retrying" => Tries(e)' < MaxAttempts
                \/ Tries(e)' = Tries(e) /\ Life(e)' = "failed"
             /\ effects'[e] = effects[e]
                  + IF Life(e)' \in {"waiting", "succeeded"} THEN 1 ELSE 0
  <2> DEFINE m == run'[e]
  <2>1. /\ Attempted(Started(e), o[e], e, X, m)
        /\ Started(e).attempts = Tries(e) /\ Tries(e) \in Nat
    BY <1>2, <1>3 DEF Run
  <2> HIDE DEF m
  <2>2. m \in Run /\ m # NoRun /\ m.attempts \in 0 .. MaxAttempts
    BY <2>1, NoRunAssumption DEF Attempted, Run
  <2>3. /\ RunOf(e)' = m.status /\ Tries(e)' = m.attempts
        /\ Life(e)' = IF m.status = "pending" THEN "waiting" ELSE m.status
    BY <2>1, <2>2 DEF RunOf, Tries, Life, m, Attempted
  <2>4. effects[e] \in Nat
    BY <1>3 DEF WorkerInv, TypeOK
  <2>5. effects'[e] = IF e \notin X /\ Keeps(o[e]) THEN effects[e] + 1
                                                   ELSE effects[e]
    BY <1>1, <1>3
  <2>6. m.status \in {"pending", "succeeded"} <=> e \notin X /\ Keeps(o[e])
    BY <2>1 DEF Attempted
  <2>7. effects'[e] = effects[e]
                  + IF Life(e)' \in {"waiting", "succeeded"} THEN 1 ELSE 0
    BY <2>1, <2>3, <2>4, <2>5, <2>6 DEF Attempted
  <2>8. CASE e \in X
    BY <2>1, <2>2, <2>3, <2>6, <2>7, <2>8 DEF Attempted
  <2>9. CASE e \notin X
    BY <2>1, <2>2, <2>3, <2>7, <2>9 DEF Attempted
  <2> QED BY <2>8, <2>9
<1>4. ASSUME NEW e \in Event \ S
      PROVE  Life(e)' = Life(e) /\ Tries(e)' = Tries(e) /\ effects'[e] = effects[e]
  BY <1>1, <1>4 DEF Life, Tries, RunOf
<1> QED BY <1>2, <1>3, <1>4 DEF Promise!Attempt

LEMMA InitPromised == Init => Promise!Init
  BY DEF Init, Promise!Init, Life, Tries, RunOf

LEMMA StepPromised ==
  ASSUME WorkerInv, WorkerInv', [Next]_vars
  PROVE  [Promise!Next]_(Promise!vars)
<1>1. CASE run' = run /\ outbox' = outbox /\ effects' = effects
  BY <1>1, RunsUnseen
<1>2. ASSUME NEW w \in Worker, NEW e \in Event, RunHandler(w, e)
      PROVE  Promise!Next
  <2>1. e \notin receipts /\ run[e] = NoRun /\ outbox[e] # "none"
    BY <1>2 DEF RunHandler, WorkerInv, Reads, ReceiptsMatchRuns, Current
  <2>2. PICK o \in [{e} -> Outcome] : Attempt({e}, o, {})
    BY <1>2, <2>1 DEF RunHandler, Started, NewRun, Terminal
  <2>3. outbox' = outbox
    BY <1>2 DEF RunHandler
  <2> DEFINE S == {e}
             X == {}
  <2>4. /\ S \in SUBSET Event /\ S # {} /\ o \in [S -> Outcome]
        /\ Attempt(S, o, X)
        /\ \A d \in S : run[d] = NoRun /\ d \notin X /\ outbox[d] # "none"
    BY <2>1, <2>2
  <2> HIDE DEF S, X
  <2>5. Promise!Attempt(S)
    BY <2>3, <2>4, AttemptPromised
  <2> QED BY <2>4, <2>5 DEF Promise!Next
<1>3. ASSUME NEW w \in Worker, RetryDue(w)
      PROVE  Promise!Next \/ UNCHANGED Promise!vars
  <2>1. PICK o \in [batch[w] -> Outcome] : Attempt(batch[w], o, late[w])
    BY <1>3 DEF RetryDue
  <2>2. /\ batch[w] \in SUBSET Event
        /\ \A e \in batch[w] : RunOf(e) = "retrying"
    BY DEF WorkerInv, TypeOK, RetriesBounded
  <2>3. outbox' = outbox
    BY <1>3 DEF RetryDue
  <2>4. CASE batch[w] # {}
    <3>1. Promise!Attempt(batch[w])
      BY <2>1, <2>2, <2>3, <2>4, AttemptPromised
    <3> QED BY <2>2, <3>1 DEF Promise!Next
  <2>5. CASE batch[w] = {}
    <3>1. /\ run' = [e \in Event |-> run[e]]
          /\ effects' = [e \in Event |-> effects[e]]
      BY <2>1, <2>5 DEF Attempt
    <3>2. run' = run /\ effects' = effects
      BY <3>1 DEF WorkerInv, TypeOK
    <3> QED BY <2>3, <3>2, RunsUnseen
  <2> QED BY <2>4, <2>5
<1>4. ASSUME NEW w \in Worker, NEW e \in Event, MarkComplete(w, e)
      PROVE  Promise!Acknowledge(e)
  <2>1. e \in receipts /\ run[e] # NoRun
    BY <1>4 DEF MarkComplete, UpdateEvent, Updating, WorkerInv, Reads,
                ReceiptsMatchRuns
  <2>2. run[e].status \in RunStatus
    BY <2>1 DEF WorkerInv, TypeOK, Run
  <2>3. Life(e) \notin {"absent", "queued"}
    BY <2>1, <2>2 DEF Life, RunOf, RunStatus
  <2>4. run' = run /\ effects' = effects
    BY <1>4 DEF MarkComplete, UpdateEvent
  <2>5. /\ outbox' = [outbox EXCEPT ![e] = "published"]
        /\ outbox[e] # "none" /\ DOMAIN outbox = Event
    BY <2>1, <1>4 DEF MarkComplete, UpdateEvent, WorkerInv, ReceiptsMatchRuns, TypeOK
  <2>6. \A d \in Event : Life(d)' = Life(d) /\ Tries(d)' = Tries(d)
    BY <2>1, <2>4, <2>5 DEF Life, Tries, RunOf
  <2>7. {d \in Event : outbox'[d] = "published"}
          = {d \in Event : outbox[d] = "published"} \cup {e}
    BY <2>5
  <2> QED BY <2>3, <2>4, <2>6, <2>7 DEF Promise!Acknowledge
<1>5. ASSUME NEW w \in Worker, NEW e \in Event, RecordFailure(w, e)
      PROVE  Promise!Reopen(e)
  <2>1. run' = run /\ effects' = effects
    BY <1>5 DEF RecordFailure, UpdateEvent
  <2>2. /\ outbox' = [outbox EXCEPT ![e] = "failed"]
        /\ outbox[e] # "none" /\ DOMAIN outbox = Event
    BY <1>5 DEF RecordFailure, UpdateEvent, Updating, Current, WorkerInv,
                Reads, TypeOK
  <2>3. \A d \in Event : Life(d)' = Life(d) /\ Tries(d)' = Tries(d)
    BY <2>1, <2>2 DEF Life, Tries, RunOf
  <2>4. {d \in Event : outbox'[d] = "published"}
          = {d \in Event : outbox[d] = "published"} \ {e}
    BY <2>2
  <2> QED BY <2>1, <2>3, <2>4 DEF Promise!Reopen
<1>6. ASSUME NEW e \in Event, Publish(e)
      PROVE  Promise!Publish(e)
  <2>1. run[e] = NoRun
    BY <1>6 DEF Publish, WorkerInv, ReceiptsMatchRuns
  <2>2. /\ outbox' = [outbox EXCEPT ![e] = "pending"]
        /\ outbox[e] = "none" /\ DOMAIN outbox = Event
        /\ run' = run /\ effects' = effects
    BY <1>6 DEF Publish, WorkerInv, TypeOK
  <2>3. /\ Life(e) = "absent" /\ Life(e)' = "queued"
        /\ \A d \in Event \ {e} : Life(d)' = Life(d)
        /\ \A d \in Event : Tries(d)' = Tries(d)
    BY <2>1, <2>2 DEF Life, Tries, RunOf
  <2>4. {d \in Event : outbox'[d] = "published"}
          = {d \in Event : outbox[d] = "published"}
    BY <2>2
  <2> QED BY <2>2, <2>3, <2>4 DEF Promise!Publish
<1>7. ASSUME NEW e \in Event, Approve(e)
      PROVE  Promise!Grant(e)
  <2>1. /\ RunOf(e) = "pending" /\ run[e] # NoRun /\ run[e] \in Run
    BY <1>7 DEF Approve, WorkerInv, Pauses, RunOf, TypeOK
  <2>2. /\ run' = [run EXCEPT ![e].status = "running"]
        /\ outbox' = outbox /\ effects' = effects
        /\ run \in [Event -> Run \cup {NoRun}]
    BY <1>7 DEF Approve, WorkerInv, TypeOK
  <2>3. /\ run'[e] \in Run /\ run'[e].status = "running"
        /\ run'[e].attempts = run[e].attempts
    BY <2>1, <2>2 DEF Run, RunStatus
  <2>4. /\ Life(e) = "waiting" /\ Life(e)' = "granted" /\ Tries(e)' = Tries(e)
    BY <2>1, <2>3, NoRunAssumption DEF Life, Tries, RunOf
  <2>5. \A d \in Event \ {e} : Life(d)' = Life(d) /\ Tries(d)' = Tries(d)
    BY <2>2 DEF Life, Tries, RunOf
  <2> QED BY <2>2, <2>4, <2>5 DEF Promise!Grant
<1>8. CASE Tick
  <2>1. outbox' = outbox /\ effects' = effects
    BY <1>8 DEF Tick
  <2>2. \A e \in Event : RunOf(e)' = RunOf(e) /\ Tries(e)' = Tries(e)
    BY <1>8, TickStep
  <2> QED BY <2>1, <2>2, PromiseStutters
<1> QED
  BY <1>1, <1>2, <1>3, <1>4, <1>5, <1>6, <1>7, <1>8
  DEF Next, Work, vars, Poll, LoadEvent, LockRuns, Restart, LockEvent,
      StaleData, Exit, HandlerRaises, Crash, Reject, rows, Promise!Next

\* Every commit of a worker, however the processes crash, repeat and retry, is
\* one step of the promise or none: one run per event, effects with the attempt
\* that ends or pauses it, and no acknowledgement before the first attempt.
THEOREM WorkersKeepThePromise == Spec => ImplementsPromise
<1>1. Init => Promise!Init
  BY InitPromised
<1>2. WorkerInv /\ WorkerInv' /\ [Next]_vars => [Promise!Next]_(Promise!vars)
  BY StepPromised
<1> QED BY <1>1, <1>2, WorkerInvariant, PTL
        DEF Spec, ImplementsPromise, Promise!Spec
=============================================================================

------------------------------- MODULE AiBudget -------------------------------
(***************************************************************************)
(* The accounting of language model calls against the spending limit.  A   *)
(* call is authorised from the recorded costs that its transaction can     *)
(* see; its own cost is recorded when that transaction commits, and lost   *)
(* when it is rolled back.                                                 *)
(*                                                                         *)
(* One month, and costs in the currency of the limit.                      *)
(***************************************************************************)
EXTENDS Integers, FiniteSets

CONSTANTS
  Agent,          \* transactions that call the model
  Step,           \* those of STOCK_RECEIVED; the others are customer messages
  MonthlyLimit,   \* ai_monthly_spending_limit
  MaxCost,        \* what one call costs at most
  Calls           \* listing agents, each of which a step has make one call

ASSUME BudgetAssumption ==
  /\ Step \subseteq Agent /\ IsFiniteSet(Agent)
  /\ MonthlyLimit \in Nat /\ MaxCost \in Nat
  /\ Calls \in Nat \ {0}

VARIABLES
  recorded,  \* committed cost_amount of the agent runs
  session    \* each transaction: its uncommitted cost, calls made, call open
budgetVars == <<recorded, session>>

Closed == [cost |-> 0, calls |-> 0, open |-> FALSE]

\* SpendingLimitExceeded above the limit, or at the limit.
OverLimit(a) == recorded + session[a].cost > MonthlyLimit
LimitReached(a) == recorded + session[a].cost >= MonthlyLimit

\* The monthly limit is all that refuses a call.  workflow_spending_limit never
\* does: a listing agent authorises its only call against the WorkflowRun that it
\* has just made, which has no cost_currency yet, and a message names no workflow.
Authorize(a) ==
  /\ ~ session[a].open
  /\ session[a].calls < IF a \in Step THEN Calls ELSE 1
  /\ ~ LimitReached(a)
  /\ session' = [session EXCEPT ![a].open = TRUE, ![a].calls = @ + 1]
  /\ UNCHANGED recorded

RecordCall(a) ==
  /\ session[a].open
  /\ \E cost \in 0 .. MaxCost :
       session' = [session EXCEPT ![a].open = FALSE, ![a].cost = @ + cost]
  /\ UNCHANGED recorded

CommitCalls(a) ==
  /\ ~ session[a].open /\ session[a].calls > 0
  /\ recorded' = recorded + session[a].cost
  /\ session' = [session EXCEPT ![a] = Closed]

\* A failed attempt: what the calls have cost is not recorded.
RollBackCalls(a) ==
  /\ session[a].calls > 0
  /\ session' = [session EXCEPT ![a] = Closed]
  /\ UNCHANGED recorded

BudgetInit == recorded = 0 /\ session = [a \in Agent |-> Closed]
BudgetNext ==
  \E a \in Agent :
    Authorize(a) \/ RecordCall(a) \/ CommitCalls(a) \/ RollBackCalls(a)
BudgetSpec == BudgetInit /\ [][BudgetNext]_budgetVars

\* Transactions do not see each other's costs, so the monthly limit is overrun;
\* but by no more than the calls that all of them can make at once, and a limit
\* of nothing never.
AllCalls == Cardinality(Agent \ Step) + Calls * Cardinality(Step)
OverrunIsBounded ==
  recorded <= IF MonthlyLimit = 0 THEN 0 ELSE MonthlyLimit - 1 + MaxCost * AllCalls
=============================================================================

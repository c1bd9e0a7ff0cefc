--------------------------- MODULE CustomerService ---------------------------
(***************************************************************************)
(* One customer conversation: inbound messages are screened, classified by *)
(* the language model and answered, drafted for approval or escalated; a   *)
(* CUSTOMER_MESSAGE_RECEIVED event links the run of each message to its    *)
(* approval; people decide the approvals.                                  *)
(*                                                                         *)
(* Handling a message locks the conversation, so that it is one step after *)
(* the unlocked lookup.  Routing locks the message and then updates the    *)
(* approval; approving locks the approval, then the message, and updates   *)
(* the conversation it has read without a lock.  Updates carry the version *)
(* that was read.                                                          *)
(***************************************************************************)
EXTENDS Naturals

CONSTANTS
  Handler,    \* concurrent calls of handle_message
  Message,    \* external message ids
  Text,       \* contents of messages
  RiskyText,  \* contents that a rule of CustomerRiskScreen matches
  NoMessage   \* no customer_messages row

ASSUME ServiceAssumption == RiskyText \subseteq Text

VARIABLES
  conversation,  \* the customer_conversations row
  published,     \* conversation versions that carry a received event
  messages,      \* customer_messages
  approvals,     \* the approval of each message
  routing,       \* the workflow run of each message's event
  deciding,      \* the approver of each approval
  handling,      \* the handlers
  refused        \* messages whose handling raised an error
serviceVars == <<conversation, published, messages, approvals, routing,
                 deciding, handling, refused>>

Inbound == [id : Message, text : Text]
Verdict == {"auto_respond", "draft_for_approval", "human_escalation"}

\* classification and assignee change with the risk: "none" is unclassified,
\* "low" AUTO_RESPOND, "medium" DRAFT_FOR_APPROVAL, "high" HUMAN_ESCALATION
\* with the human queue.
Conversation == [version : Nat, risk : {"none", "low", "medium", "high"},
                 status : {"open", "awaiting_approval", "escalated"}]

(***************************************************************************)
(* CustomerRiskScreen and _classify_with_ai                                *)
(***************************************************************************)

\* What the model says, and its failure or an exceeded budget.
Output == [intent : {"safe", "sensitive", "unknown"}, decision : Verdict,
           high : BOOLEAN, response : BOOLEAN]
Failure == [intent |-> "unknown", decision |-> "human_escalation",
            high |-> TRUE, response |-> FALSE]

Row == [text : Text, out : Output, class : Verdict, sent : BOOLEAN]
ASSUME NoMessageAssumption == NoMessage \notin Row

RulesOnly(text) == text \in RiskyText
Risks(text) == text \in RiskyText \/ conversation.risk = "high"

\* Safe intents are product, order, delivery and common questions, sensitive
\* ones returns, refunds and complaints.
TrustDecision(out) ==
  IF \/ out.intent = "unknown" \/ out.high
     \/ out.decision = "human_escalation" \/ ~ out.response
  THEN "human_escalation" ELSE out.decision
Classify(out) ==
  IF \/ out.intent = "unknown" \/ out.high
     \/ out.decision = "human_escalation" \/ ~ out.response
  THEN "human_escalation"
  ELSE IF out.decision = "draft_for_approval" \/ out.intent = "sensitive"
       THEN "draft_for_approval" ELSE "auto_respond"

RiskOf(class) == CASE class = "auto_respond" -> "low"
                   [] class = "draft_for_approval" -> "medium"
                   [] class = "human_escalation" -> "high"
StatusOf(class) == CASE class = "auto_respond" -> "open"
                     [] class = "draft_for_approval" -> "awaiting_approval"
                     [] class = "human_escalation" -> "escalated"

\* An UPDATE is emitted, and the version counted, only when a value differs.
Update(old, risk, status) ==
  IF old.risk = risk /\ old.status = status THEN old
  ELSE [version |-> old.version + 1, risk |-> risk, status |-> status]

(***************************************************************************)
(* CustomerServiceAgent.handle_message                                     *)
(***************************************************************************)

\* A message that is stored is answered from its row, or its id is in conflict
\* with other content.
Lookup(h, in) ==
  /\ handling[h] = NoMessage
  /\ messages[in.id] = NoMessage
  /\ handling' = [handling EXCEPT ![h] = in]
  /\ UNCHANGED <<conversation, published, messages, approvals, routing,
                 deciding, refused>>

\* The event's unique key: aggregate, version and type.
VersionUsed == conversation.version \in published

\* The message was stored while this call waited for the conversation, or its
\* event has the version of an earlier one: nothing is stored.
RefuseMessage(h) ==
  /\ handling[h] # NoMessage
  /\ messages[handling[h].id] # NoMessage \/ VersionUsed
  /\ refused' = refused \cup {handling[h].id}
  /\ handling' = [handling EXCEPT ![h] = NoMessage]
  /\ UNCHANGED <<conversation, published, messages, approvals, routing, deciding>>

StoreMessage(h) ==
  LET in == handling[h] IN
  /\ in # NoMessage
  /\ messages[in.id] = NoMessage /\ ~ VersionUsed
  /\ \E out \in Output \cup {Failure} :
       LET class == IF Risks(in.text) THEN "human_escalation" ELSE Classify(out)
       IN /\ messages' = [messages EXCEPT ![in.id] =
               [text |-> in.text, out |-> IF Risks(in.text) THEN Failure ELSE out,
                class |-> class, sent |-> class = "auto_respond"]]
          /\ approvals' = [approvals EXCEPT ![in.id] =
               IF class = "draft_for_approval" THEN "pending" ELSE "none"]
          /\ conversation' =
               Update(conversation, RiskOf(class), StatusOf(class))
  /\ published' = published \cup {conversation.version}
  /\ routing' = [routing EXCEPT ![in.id] = [st |-> "queued", seen |-> "none"]]
  /\ handling' = [handling EXCEPT ![h] = NoMessage]
  /\ UNCHANGED <<deciding, refused>>

(***************************************************************************)
(* _message_to_customer_service: the message is classified already         *)
(***************************************************************************)

\* It locks the message and reads the approval.
RouteAnyway(m) ==
  /\ routing[m].st = "queued"
  /\ deciding[m].at # "message"
  /\ routing' = [routing EXCEPT ![m] =
       [st |-> IF approvals[m] = "none" THEN "done" ELSE "linking",
        seen |-> approvals[m]]]
  /\ UNCHANGED <<conversation, published, messages, approvals, deciding,
                 handling, refused>>
Route(m) ==
  /\ routing[m].st = "queued"
  /\ deciding[m].at # "message"
  /\ routing' = [routing EXCEPT ![m] =
       [st |-> IF approvals[m] \in {"none", "approved"} THEN "done"
               ELSE "linking",
        seen |-> approvals[m]]]
  /\ UNCHANGED <<conversation, published, messages, approvals, deciding,
                 handling, refused>>

\* An attempt that fails is retried until workflow_max_attempts.
RouteFails(m) ==
  \E st \in {"queued", "failed"} :
    routing' = [routing EXCEPT ![m] = [st |-> st, seen |-> "none"]]

\* The link waits for an approver and fails when the approval has changed.
Link(m) ==
  /\ routing[m].st = "linking"
  /\ deciding[m].at = "none"
  /\ IF approvals[m] = routing[m].seen
     THEN routing' = [routing EXCEPT ![m] = [st |-> "waiting", seen |-> "none"]]
     ELSE RouteFails(m)
  /\ UNCHANGED <<conversation, published, messages, approvals, deciding,
                 handling, refused>>

(***************************************************************************)
(* ApprovalEngine with CustomerResponseApprovalService                     *)
(***************************************************************************)

Stop(m) == deciding' = [deciding EXCEPT ![m] = [at |-> "none", seen |-> NoMessage]]

LockApproval(m) ==
  /\ approvals[m] = "pending" /\ deciding[m].at = "none"
  /\ deciding' = [deciding EXCEPT ![m].at = "approval"]
  /\ UNCHANGED <<conversation, published, messages, approvals, routing,
                 handling, refused>>

\* The message is locked, the conversation only read.
LockMessage(m) ==
  /\ deciding[m].at = "approval"
  /\ routing[m].st # "linking"
  /\ deciding' = [deciding EXCEPT ![m] = [at |-> "message", seen |-> conversation]]
  /\ UNCHANGED <<conversation, published, messages, approvals, routing,
                 handling, refused>>

\* The conversation becomes OPEN if it has its version still; _resume_action
\* sets a linked run to RUNNING.
ApproveResponse(m) ==
  LET opened == Update(deciding[m].seen, deciding[m].seen.risk, "open") IN
  /\ deciding[m].at = "message"
  /\ opened # deciding[m].seen => conversation = deciding[m].seen
  /\ conversation' = IF opened # deciding[m].seen THEN opened ELSE conversation
  /\ approvals' = [approvals EXCEPT ![m] = "approved"]
  /\ messages' = [messages EXCEPT ![m].sent = TRUE]
  /\ routing' = [routing EXCEPT ![m].st = IF @ = "waiting" THEN "running" ELSE @]
  /\ Stop(m)
  /\ UNCHANGED <<published, handling, refused>>

\* StaleDataError: the request fails and the approval stays pending.
ApproveStale(m) ==
  /\ deciding[m].at = "message"
  /\ conversation # deciding[m].seen
  /\ deciding[m].seen.status # "open"
  /\ Stop(m)
  /\ UNCHANGED <<conversation, published, messages, approvals, routing,
                 handling, refused>>

\* The approver waits for the message and the router for the approval; the
\* database ends one of them.
BreakDeadlock(m) ==
  /\ deciding[m].at = "approval" /\ routing[m].st = "linking"
  /\ \/ Stop(m) /\ UNCHANGED routing
     \/ RouteFails(m) /\ UNCHANGED deciding
  /\ UNCHANGED <<conversation, published, messages, approvals, handling, refused>>

\* A rejection or an expiry changes the approval and nothing else.
DeclineResponse(m) ==
  /\ approvals[m] = "pending" /\ deciding[m].at = "none"
  /\ \E a \in {"rejected", "expired"} : approvals' = [approvals EXCEPT ![m] = a]
  /\ UNCHANGED <<conversation, published, messages, routing, deciding,
                 handling, refused>>

(***************************************************************************)
(* The specification                                                       *)
(***************************************************************************)

ServiceInit ==
  /\ conversation = [version |-> 1, risk |-> "none", status |-> "open"]
  /\ published = {}
  /\ messages = [m \in Message |-> NoMessage]
  /\ approvals = [m \in Message |-> "none"]
  /\ routing = [m \in Message |-> [st |-> "none", seen |-> "none"]]
  /\ deciding = [m \in Message |-> [at |-> "none", seen |-> NoMessage]]
  /\ handling = [h \in Handler |-> NoMessage]
  /\ refused = {}

ServiceNext ==
  \/ \E h \in Handler :
       \/ \E in \in Inbound : Lookup(h, in)
       \/ RefuseMessage(h) \/ StoreMessage(h)
  \/ \E m \in Message :
       \/ Route(m) \/ Link(m)
       \/ LockApproval(m) \/ LockMessage(m) \/ ApproveResponse(m)
       \/ ApproveStale(m) \/ BreakDeadlock(m) \/ DeclineResponse(m)

ServiceSpec == ServiceInit /\ [][ServiceNext]_serviceVars

(***************************************************************************)
(* Properties                                                              *)
(***************************************************************************)

Stored == {m \in Message : messages[m] # NoMessage}

\* "Returns, refunds and complaints cannot be promoted to automatic response by
\* the model": a reply is sent only to a message that no rule and no answer of
\* the model found risky, without a person only to a safe intent, and otherwise
\* with an approved approval, which is never approved without its reply.
RepliesAreSafe ==
  \A m \in Stored :
    LET msg == messages[m] IN
    /\ msg.sent =>
         /\ msg.text \notin RiskyText
         /\ msg.out.intent # "unknown" /\ ~ msg.out.high /\ msg.out.response
         /\ \/ approvals[m] = "approved"
            \/ msg.out.intent = "safe" /\ msg.out.decision = "auto_respond"
    /\ approvals[m] = "approved" => msg.sent

\* "Non-downgradable escalations": no later message, however it is classified,
\* and no approval of an older draft lowers the risk of a conversation.
RiskStays == [][conversation.risk = "high" => conversation'.risk = "high"]_serviceVars

\* Whichever of the approver and the workflow of the event comes first, a run
\* never waits for an approval that has been given.
ApprovedNeverWaits ==
  \A m \in Message : routing[m].st = "waiting" => approvals[m] # "approved"

\* "Verify and idempotently store the inbound message": a message is refused
\* only while the same message is stored by another call.
EveryMessageStored == refused \subseteq Stored
=============================================================================

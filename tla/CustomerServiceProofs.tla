------------------------ MODULE CustomerServiceProofs ------------------------
(***************************************************************************)
(* Safety of the customer service for any number of messages, texts and    *)
(* concurrent handlers.                                                    *)
(***************************************************************************)
EXTENDS CustomerService, TLAPS

Approval == {"none", "pending", "approved", "rejected", "expired"}
RouteState == {"none", "queued", "linking", "waiting", "running", "done", "failed"}

ServiceTypeOK ==
  /\ conversation \in Conversation
  /\ messages \in [Message -> Row \cup {NoMessage}]
  /\ approvals \in [Message -> Approval]
  /\ routing \in [Message -> [st : RouteState, seen : Approval]]
  /\ deciding \in [Message -> [at : {"none", "approval", "message"},
                               seen : Conversation \cup {NoMessage}]]
  /\ handling \in [Handler -> Inbound \cup {NoMessage}]

\* What the class of a stored message says about its text and its answer.
Sound(msg) ==
  /\ msg.class # "human_escalation" =>
       /\ msg.text \notin RiskyText
       /\ msg.out.intent # "unknown" /\ ~ msg.out.high /\ msg.out.response
  /\ msg.class = "auto_respond" =>
       msg.out.intent = "safe" /\ msg.out.decision = "auto_respond"

\* An approval belongs to a drafted answer, which is sent with the approval.
Answered(m) ==
  LET msg == messages[m] IN
  /\ Sound(msg)
  /\ msg.sent => msg.class = "auto_respond" \/ approvals[m] = "approved"
  /\ approvals[m] # "none" => msg.class = "draft_for_approval"
  /\ approvals[m] = "approved" => msg.sent

Untouched(m) ==
  approvals[m] = "none" /\ deciding[m].at = "none" /\ routing[m].st = "none"

\* An approver has the lock of a pending approval; a router that links has read
\* an approval that was not granted.
Linked(m) ==
  /\ deciding[m].at # "none" => approvals[m] = "pending"
  /\ deciding[m].at = "message" => deciding[m].seen \in Conversation
  /\ routing[m].st = "linking" => routing[m].seen \notin {"none", "approved"}
  /\ routing[m].st = "waiting" => approvals[m] # "approved"

ServiceInv ==
  /\ ServiceTypeOK
  /\ \A m \in Message :
       /\ messages[m] # NoMessage => Answered(m)
       /\ messages[m] = NoMessage => Untouched(m)
       /\ Linked(m)

\* An answer of the model, or its failure, is classified so that what is said
\* to the customer is safe.
LEMMA Classified ==
  ASSUME ServiceTypeOK, NEW in \in Inbound, NEW out \in Output \cup {Failure},
         NEW class, class = IF Risks(in.text) THEN "human_escalation"
                            ELSE Classify(out),
         NEW o, o = IF Risks(in.text) THEN Failure ELSE out
  PROVE  /\ class \in Verdict /\ o \in Output /\ out \in Output
         /\ Sound([text |-> in.text, out |-> o, class |-> class,
                   sent |-> class = "auto_respond"])
<1>1. Failure \in Output
  BY DEF Failure, Output, Verdict
<1>2. CASE Risks(in.text)
  BY <1>1, <1>2 DEF Sound, Verdict
<1>3. CASE ~ Risks(in.text)
  <2>1. in.text \notin RiskyText
    BY <1>3 DEF Risks
  <2>2. class = Classify(out) /\ o = out /\ out \in Output
    BY <1>1, <1>3
  <2>3. class \in Verdict
    BY <2>2 DEF Classify, Verdict, Output
  <2>4. class # "human_escalation" =>
          out.intent # "unknown" /\ ~ out.high /\ out.response
    BY <2>2 DEF Classify, Output, Verdict
  <2>5. class = "auto_respond" =>
          out.intent = "safe" /\ out.decision = "auto_respond"
    BY <2>2 DEF Classify, Output, Verdict
  <2> QED BY <2>1, <2>2, <2>3, <2>4, <2>5 DEF Sound
<1> QED BY <1>2, <1>3

\* An update of the conversation is a conversation.
LEMMA Updated ==
  ASSUME NEW old \in Conversation, NEW risk \in {"none", "low", "medium", "high"},
         NEW status \in {"open", "awaiting_approval", "escalated"}
  PROVE  /\ Update(old, risk, status) \in Conversation
         /\ Update(old, risk, status).risk = risk
BY DEF Update, Conversation

LEMMA Classes ==
  ASSUME NEW class \in Verdict
  PROVE  /\ RiskOf(class) \in {"none", "low", "medium", "high"}
         /\ StatusOf(class) \in {"open", "awaiting_approval", "escalated"}
         /\ class = "human_escalation" => RiskOf(class) = "high"
BY DEF RiskOf, StatusOf, Verdict

LEMMA ServiceInitInv == ServiceInit => ServiceInv
BY DEF ServiceInit, ServiceInv, ServiceTypeOK, Conversation, Approval,
       RouteState, Untouched, Linked

\* The message becomes a row with a sound class; its approval is new.
LEMMA StorePreserves ==
  ASSUME ServiceInv, NEW h \in Handler, StoreMessage(h)
  PROVE  ServiceInv'
<1> DEFINE in == handling[h]
<1>1. PICK out \in Output \cup {Failure} :
        LET class == IF Risks(in.text) THEN "human_escalation" ELSE Classify(out)
        IN /\ messages' = [messages EXCEPT ![in.id] =
                [text |-> in.text, out |-> IF Risks(in.text) THEN Failure ELSE out,
                 class |-> class, sent |-> class = "auto_respond"]]
           /\ approvals' = [approvals EXCEPT ![in.id] =
                IF class = "draft_for_approval" THEN "pending" ELSE "none"]
           /\ conversation' =
                Update(conversation, RiskOf(class), StatusOf(class))
  BY DEF StoreMessage
<1> DEFINE class == IF Risks(in.text) THEN "human_escalation" ELSE Classify(out)
           o == IF Risks(in.text) THEN Failure ELSE out
           row == [text |-> in.text, out |-> o, class |-> class,
                   sent |-> class = "auto_respond"]
<1>2. /\ in \in Inbound /\ in.id \in Message /\ in.text \in Text
      /\ messages[in.id] = NoMessage
      /\ routing' = [routing EXCEPT ![in.id] = [st |-> "queued", seen |-> "none"]]
      /\ handling' = [handling EXCEPT ![h] = NoMessage]
      /\ deciding' = deciding
  BY DEF StoreMessage, ServiceInv, ServiceTypeOK, Inbound
<1>3. /\ messages' = [messages EXCEPT ![in.id] = row]
      /\ approvals' = [approvals EXCEPT ![in.id] =
           IF class = "draft_for_approval" THEN "pending" ELSE "none"]
      /\ conversation' = Update(conversation, RiskOf(class), StatusOf(class))
  BY <1>1
<1>4. class \in Verdict /\ o \in Output /\ Sound(row)
  BY <1>2, Classified DEF ServiceInv
<1> HIDE DEF class, o
<1>5. /\ row \in Row /\ row # NoMessage
      /\ row.class = class /\ (row.sent <=> class = "auto_respond")
  <2>1. (class = "auto_respond") \in BOOLEAN
    OBVIOUS
  <2>2. row \in Row
    BY <1>2, <1>4, <2>1 DEF Row
  <2> QED BY <2>2, NoMessageAssumption
<1> HIDE DEF row
<1>6. conversation' \in Conversation
  BY <1>3, <1>4, Classes, Updated DEF ServiceInv, ServiceTypeOK
<1>7. ServiceTypeOK'
  BY <1>2, <1>3, <1>5, <1>6 DEF ServiceInv, ServiceTypeOK, Approval, RouteState
<1>8. ASSUME NEW m \in Message
      PROVE  /\ messages'[m] # NoMessage => Answered(m)'
             /\ messages'[m] = NoMessage => Untouched(m)'
             /\ Linked(m)'
  <2>1. CASE m = in.id
    <3>1. /\ messages'[m] = row
          /\ approvals'[m] = IF class = "draft_for_approval" THEN "pending" ELSE "none"
          /\ routing'[m] = [st |-> "queued", seen |-> "none"]
          /\ deciding'[m].at = "none"
      BY <1>2, <1>3, <2>1 DEF ServiceInv, ServiceTypeOK, Untouched
    <3> QED BY <3>1, <1>4, <1>5 DEF Answered, Linked, Verdict
  <2>2. CASE m # in.id
    <3>1. /\ messages'[m] = messages[m] /\ approvals'[m] = approvals[m]
          /\ routing'[m] = routing[m] /\ deciding'[m] = deciding[m]
      BY <1>2, <1>3, <2>2 DEF ServiceInv, ServiceTypeOK
    <3> QED BY <3>1 DEF ServiceInv, Answered, Untouched, Linked
  <2> QED BY <2>1, <2>2
<1> QED BY <1>7, <1>8 DEF ServiceInv

\* Handling a message up to its row, or refusing it, touches nothing else.
LEMMA HandlingPreserves ==
  ASSUME ServiceInv, NEW h \in Handler,
         RefuseMessage(h) \/ \E in \in Inbound : Lookup(h, in)
  PROVE  ServiceInv'
<1>1. /\ UNCHANGED <<conversation, messages, approvals, routing, deciding>>
      /\ handling' \in [Handler -> Inbound \cup {NoMessage}]
  BY DEF RefuseMessage, Lookup, ServiceInv, ServiceTypeOK
<1> QED
  BY <1>1 DEF ServiceInv, ServiceTypeOK, Answered, Untouched, Linked

\* A route changes the state of one run, which is stored with its message.
LEMMA RoutePreserves ==
  ASSUME ServiceInv, NEW m \in Message, Route(m) \/ Link(m)
  PROVE  ServiceInv'
<1>1. /\ UNCHANGED <<conversation, messages, approvals, deciding, handling>>
      /\ routing[m].st # "none"
  BY DEF Route, Link
<1>2. routing[m] \in [st : RouteState, seen : Approval] /\ approvals[m] \in Approval
  BY DEF ServiceInv, ServiceTypeOK
<1>3. PICK r \in [st : RouteState, seen : Approval] :
        /\ routing' = [routing EXCEPT ![m] = r]
        /\ r.st = "linking" => r.seen \notin {"none", "approved"}
        /\ r.st = "waiting" => approvals[m] # "approved"
  <2>1. CASE Route(m)
    <3> DEFINE r == [st |-> IF approvals[m] \in {"none", "approved"} THEN "done"
                            ELSE "linking",
                     seen |-> approvals[m]]
    <3>1. routing' = [routing EXCEPT ![m] = r]
      BY <2>1 DEF Route
    <3>2. /\ r \in [st : RouteState, seen : Approval]
          /\ r.st = "linking" => r.seen \notin {"none", "approved"}
          /\ r.st # "waiting"
      BY <1>2 DEF RouteState
    <3> HIDE DEF r
    <3> QED BY <3>1, <3>2
  <2>2. CASE Link(m) /\ approvals[m] = routing[m].seen
    <3> DEFINE r == [st |-> "waiting", seen |-> "none"]
    <3>1. routing' = [routing EXCEPT ![m] = r]
      BY <2>2, <1>2 DEF Link, ServiceInv, ServiceTypeOK
    <3>2. approvals[m] # "approved"
      BY <2>2 DEF Link, ServiceInv, Linked
    <3>3. r \in [st : RouteState, seen : Approval] /\ r.st = "waiting"
      BY DEF RouteState, Approval
    <3> HIDE DEF r
    <3> QED BY <3>1, <3>2, <3>3
  <2>3. CASE Link(m) /\ approvals[m] # routing[m].seen
    <3>1. PICK st \in {"queued", "failed"} :
            routing' = [routing EXCEPT ![m] = [st |-> st, seen |-> "none"]]
      BY <2>3 DEF Link, RouteFails
    <3> DEFINE r == [st |-> st, seen |-> "none"]
    <3>2. routing' = [routing EXCEPT ![m] = r]
      BY <3>1
    <3>3. /\ r \in [st : RouteState, seen : Approval]
          /\ r.st \notin {"linking", "waiting"}
      BY DEF RouteState, Approval
    <3> HIDE DEF r
    <3> QED BY <3>2, <3>3
  <2> QED BY <2>1, <2>2, <2>3
<1>4. routing'[m] = r /\ \A k \in Message \ {m} : routing'[k] = routing[k]
  BY <1>3 DEF ServiceInv, ServiceTypeOK
<1>5. messages[m] # NoMessage
  BY <1>1 DEF ServiceInv, Untouched
<1>6. ServiceTypeOK'
  BY <1>1, <1>3 DEF ServiceInv, ServiceTypeOK
<1>7. \A k \in Message : /\ messages'[k] # NoMessage => Answered(k)'
                         /\ messages'[k] = NoMessage => Untouched(k)'
                         /\ Linked(k)'
  BY <1>1, <1>3, <1>4, <1>5 DEF ServiceInv, Answered, Untouched, Linked
<1> QED BY <1>6, <1>7 DEF ServiceInv
\* The approver and the router of one message.
LEMMA DecisionPreserves ==
  ASSUME ServiceInv, NEW m \in Message,
         LockApproval(m) \/ LockMessage(m) \/ ApproveStale(m)
  PROVE  ServiceInv'
<1>1. UNCHANGED <<conversation, messages, approvals, routing, handling>>
  BY DEF LockApproval, LockMessage, ApproveStale
<1>2. /\ approvals[m] = "pending"
      /\ deciding[m] \in [at : {"none", "approval", "message"},
                           seen : Conversation \cup {NoMessage}]
  BY DEF LockApproval, LockMessage, ApproveStale, ServiceInv, ServiceTypeOK, Linked
<1>3. PICK w \in [at : {"none", "approval", "message"},
                  seen : Conversation \cup {NoMessage}] :
        /\ deciding' = [deciding EXCEPT ![m] = w]
        /\ w.at = "message" => w.seen \in Conversation
  <2>1. CASE LockApproval(m)
    <3> DEFINE w == [deciding[m] EXCEPT !.at = "approval"]
    <3>1. deciding' = [deciding EXCEPT ![m] = w]
      BY <1>2, <2>1 DEF LockApproval, ServiceInv, ServiceTypeOK
    <3>2. /\ w \in [at : {"none", "approval", "message"},
                     seen : Conversation \cup {NoMessage}]
          /\ w.at # "message"
      BY <1>2
    <3> HIDE DEF w
    <3> QED BY <3>1, <3>2
  <2>2. CASE LockMessage(m)
    <3> DEFINE w == [at |-> "message", seen |-> conversation]
    <3>1. deciding' = [deciding EXCEPT ![m] = w]
      BY <2>2 DEF LockMessage
    <3>2. /\ w \in [at : {"none", "approval", "message"},
                     seen : Conversation \cup {NoMessage}]
          /\ w.seen \in Conversation
      BY DEF ServiceInv, ServiceTypeOK
    <3> HIDE DEF w
    <3> QED BY <3>1, <3>2
  <2>3. CASE ApproveStale(m)
    <3> DEFINE w == [at |-> "none", seen |-> NoMessage]
    <3>1. deciding' = [deciding EXCEPT ![m] = w]
      BY <2>3 DEF ApproveStale, Stop
    <3>2. /\ w \in [at : {"none", "approval", "message"},
                     seen : Conversation \cup {NoMessage}]
          /\ w.at # "message"
      OBVIOUS
    <3> HIDE DEF w
    <3> QED BY <3>1, <3>2
  <2> QED BY <2>1, <2>2, <2>3
<1>4. deciding'[m] = w /\ \A k \in Message \ {m} : deciding'[k] = deciding[k]
  BY <1>3 DEF ServiceInv, ServiceTypeOK
<1>5. messages[m] # NoMessage
  BY <1>2 DEF ServiceInv, Untouched
<1>6. ServiceTypeOK'
  BY <1>1, <1>3 DEF ServiceInv, ServiceTypeOK
<1>7. \A k \in Message : /\ messages'[k] # NoMessage => Answered(k)'
                         /\ messages'[k] = NoMessage => Untouched(k)'
                         /\ Linked(k)'
  BY <1>1, <1>2, <1>3, <1>4, <1>5
     DEF ServiceInv, Answered, Untouched, Linked
<1> QED BY <1>6, <1>7 DEF ServiceInv

LEMMA DeclinePreserves ==
  ASSUME ServiceInv, NEW m \in Message, DeclineResponse(m)
  PROVE  ServiceInv'
<1>1. /\ UNCHANGED <<conversation, messages, routing, deciding, handling>>
      /\ approvals[m] = "pending" /\ deciding[m].at = "none"
  BY DEF DeclineResponse
<1>2. PICK a \in {"rejected", "expired"} : approvals' = [approvals EXCEPT ![m] = a]
  BY DEF DeclineResponse
<1>3. messages[m] # NoMessage
  BY <1>1 DEF ServiceInv, Untouched
<1>4. approvals'[m] = a /\ \A k \in Message \ {m} : approvals'[k] = approvals[k]
  BY <1>2 DEF ServiceInv, ServiceTypeOK
<1>5. ServiceTypeOK'
  BY <1>1, <1>2 DEF ServiceInv, ServiceTypeOK, Approval
<1>6. \A k \in Message : /\ messages'[k] # NoMessage => Answered(k)'
                         /\ messages'[k] = NoMessage => Untouched(k)'
                         /\ Linked(k)'
  BY <1>1, <1>3, <1>4 DEF ServiceInv, Answered, Untouched, Linked
<1> QED BY <1>5, <1>6 DEF ServiceInv

\* The conversation that an approval leaves.
LEMMA Opened ==
  ASSUME ServiceInv, NEW m \in Message, ApproveResponse(m)
  PROVE  conversation' \in Conversation /\ conversation'.risk = conversation.risk
<1> DEFINE opened == Update(deciding[m].seen, deciding[m].seen.risk, "open")
<1>1. deciding[m].seen \in Conversation
  BY DEF ApproveResponse, ServiceInv, Linked
<1>2. opened \in Conversation /\ opened.risk = deciding[m].seen.risk
  BY <1>1, Updated DEF Conversation
<1> HIDE DEF opened
<1>3. /\ opened # deciding[m].seen => conversation = deciding[m].seen
      /\ conversation' = IF opened # deciding[m].seen THEN opened ELSE conversation
  BY DEF ApproveResponse, opened
<1> QED BY <1>1, <1>2, <1>3 DEF ServiceInv, ServiceTypeOK

LEMMA ApprovePreserves ==
  ASSUME ServiceInv, NEW m \in Message, ApproveResponse(m)
  PROVE  ServiceInv'
<1> DEFINE row == [messages[m] EXCEPT !.sent = TRUE]
           r == [routing[m] EXCEPT !.st = IF @ = "waiting" THEN "running" ELSE @]
           w == [at |-> "none", seen |-> NoMessage]
<1>1. /\ deciding[m].at = "message" /\ approvals[m] = "pending"
      /\ approvals' = [approvals EXCEPT ![m] = "approved"]
      /\ messages' = [messages EXCEPT ![m] = row]
      /\ routing' = [routing EXCEPT ![m] = r]
      /\ deciding' = [deciding EXCEPT ![m] = w]
      /\ UNCHANGED handling
  BY DEF ApproveResponse, Stop, ServiceInv, ServiceTypeOK, Linked
<1>2. messages[m] \in Row /\ Answered(m)
  BY <1>1 DEF ServiceInv, ServiceTypeOK, Untouched
<1>3. /\ row \in Row /\ row # NoMessage /\ row.sent
      /\ row.class = messages[m].class /\ row.text = messages[m].text
      /\ row.out = messages[m].out
  BY <1>2, NoMessageAssumption DEF Row
<1>4. r \in [st : RouteState, seen : Approval] /\ r.st # "waiting"
      /\ (r.st = "linking" => routing[m].st = "linking") /\ r.seen = routing[m].seen
  BY DEF ServiceInv, ServiceTypeOK, RouteState
<1>5. w \in [at : {"none", "approval", "message"}, seen : Conversation \cup {NoMessage}]
      /\ w.at = "none"
  BY DEF ServiceInv, ServiceTypeOK
<1> HIDE DEF row, r, w
<1>6. ServiceTypeOK'
  BY <1>1, <1>3, <1>4, <1>5, Opened DEF ServiceInv, ServiceTypeOK, Approval
<1>7. ASSUME NEW k \in Message
      PROVE  /\ messages'[k] # NoMessage => Answered(k)'
             /\ messages'[k] = NoMessage => Untouched(k)'
             /\ Linked(k)'
  <2>1. CASE k = m
    <3>1. /\ messages'[k] = row /\ approvals'[k] = "approved"
          /\ routing'[k] = r /\ deciding'[k] = w
      BY <1>1, <2>1 DEF ServiceInv, ServiceTypeOK
    <3>2. messages[m].class = "draft_for_approval"
      BY <1>1, <1>2 DEF Answered
    <3> QED BY <3>1, <3>2, <1>2, <1>3, <1>4, <1>5, <2>1
              DEF ServiceInv, Answered, Sound, Linked
  <2>2. CASE k # m
    <3>1. /\ messages'[k] = messages[k] /\ approvals'[k] = approvals[k]
          /\ routing'[k] = routing[k] /\ deciding'[k] = deciding[k]
      BY <1>1, <2>2 DEF ServiceInv, ServiceTypeOK
    <3> QED BY <3>1 DEF ServiceInv, Answered, Untouched, Linked
  <2> QED BY <2>1, <2>2
<1> QED BY <1>6, <1>7 DEF ServiceInv

\* The database ends the approver or the router.
LEMMA DeadlockPreserves ==
  ASSUME ServiceInv, NEW m \in Message, BreakDeadlock(m)
  PROVE  ServiceInv'
<1>1. /\ UNCHANGED <<conversation, messages, approvals, handling>>
      /\ deciding[m].at = "approval" /\ routing[m].st = "linking"
  BY DEF BreakDeadlock
<1>2. approvals[m] = "pending" /\ messages[m] # NoMessage
  BY <1>1 DEF ServiceInv, Linked, Untouched
<1>3. CASE Stop(m) /\ UNCHANGED routing
  <2> DEFINE w == [at |-> "none", seen |-> NoMessage]
  <2>1. deciding' = [deciding EXCEPT ![m] = w]
    BY <1>3 DEF Stop
  <2>2. /\ w \in [at : {"none", "approval", "message"},
                   seen : Conversation \cup {NoMessage}]
        /\ w.at = "none"
    BY DEF ServiceInv, ServiceTypeOK
  <2> HIDE DEF w
  <2>3. deciding'[m] = w /\ \A k \in Message \ {m} : deciding'[k] = deciding[k]
    BY <2>1 DEF ServiceInv, ServiceTypeOK
  <2>4. ServiceTypeOK'
    BY <1>1, <1>3, <2>1, <2>2 DEF ServiceInv, ServiceTypeOK
  <2>5. \A k \in Message : /\ messages'[k] # NoMessage => Answered(k)'
                           /\ messages'[k] = NoMessage => Untouched(k)'
                           /\ Linked(k)'
    BY <1>1, <1>2, <1>3, <2>2, <2>3 DEF ServiceInv, Answered, Untouched, Linked
  <2> QED BY <2>4, <2>5 DEF ServiceInv
<1>4. CASE RouteFails(m) /\ UNCHANGED deciding
  <2>1. PICK st \in {"queued", "failed"} :
          routing' = [routing EXCEPT ![m] = [st |-> st, seen |-> "none"]]
    BY <1>4 DEF RouteFails
  <2> DEFINE r == [st |-> st, seen |-> "none"]
  <2>2. routing' = [routing EXCEPT ![m] = r]
    BY <2>1
  <2>3. r \in [st : RouteState, seen : Approval] /\ r.st \notin {"linking", "waiting"}
    BY DEF RouteState, Approval
  <2> HIDE DEF r
  <2>4. routing'[m] = r /\ \A k \in Message \ {m} : routing'[k] = routing[k]
    BY <2>2 DEF ServiceInv, ServiceTypeOK
  <2>5. ServiceTypeOK'
    BY <1>1, <1>4, <2>2, <2>3 DEF ServiceInv, ServiceTypeOK
  <2>6. \A k \in Message : /\ messages'[k] # NoMessage => Answered(k)'
                           /\ messages'[k] = NoMessage => Untouched(k)'
                           /\ Linked(k)'
    BY <1>1, <1>2, <1>4, <2>3, <2>4 DEF ServiceInv, Answered, Untouched, Linked
  <2> QED BY <2>5, <2>6 DEF ServiceInv
<1> QED BY <1>3, <1>4 DEF BreakDeadlock

LEMMA StutterPreserves ==
  ASSUME ServiceInv, UNCHANGED serviceVars
  PROVE  ServiceInv'
BY DEF serviceVars, ServiceInv, ServiceTypeOK, Answered, Untouched, Linked

\* ServiceInv holds in every state, whatever the handlers, the model, the
\* approvers and the routes do.
THEOREM ServiceInvariant == ServiceSpec => []ServiceInv
<1>1. ServiceInv /\ [ServiceNext]_serviceVars => ServiceInv'
  <2> SUFFICES ASSUME ServiceInv, ServiceNext PROVE ServiceInv'
    BY StutterPreserves
  <2>1. CASE \E h \in Handler : \/ \E in \in Inbound : Lookup(h, in)
                               \/ RefuseMessage(h)
    BY <2>1, HandlingPreserves
  <2>2. CASE \E h \in Handler : StoreMessage(h)
    BY <2>2, StorePreserves
  <2>3. CASE \E m \in Message : Route(m) \/ Link(m)
    BY <2>3, RoutePreserves
  <2>4. CASE \E m \in Message : LockApproval(m) \/ LockMessage(m) \/ ApproveStale(m)
    BY <2>4, DecisionPreserves
  <2>5. CASE \E m \in Message : ApproveResponse(m)
    BY <2>5, ApprovePreserves
  <2>6. CASE \E m \in Message : BreakDeadlock(m)
    BY <2>6, DeadlockPreserves
  <2>7. CASE \E m \in Message : DeclineResponse(m)
    BY <2>7, DeclinePreserves
  <2> QED BY <2>1, <2>2, <2>3, <2>4, <2>5, <2>6, <2>7 DEF ServiceNext
<1> QED BY <1>1, ServiceInitInv, PTL DEF ServiceSpec

\* Replies go only to messages that neither a rule nor the model found risky,
\* and those of the model alone to safe intents: docs/workflows.md.
THEOREM RepliesStaySafe == ServiceSpec => []RepliesAreSafe
<1>1. ServiceInv => RepliesAreSafe
  <2> SUFFICES ASSUME ServiceInv, NEW m \in Stored
               PROVE  LET msg == messages[m] IN
                      /\ msg.sent =>
                           /\ msg.text \notin RiskyText
                           /\ msg.out.intent # "unknown" /\ ~ msg.out.high
                           /\ msg.out.response
                           /\ \/ approvals[m] = "approved"
                              \/ /\ msg.out.intent = "safe"
                                 /\ msg.out.decision = "auto_respond"
                      /\ approvals[m] = "approved" => msg.sent
    BY DEF RepliesAreSafe
  <2>1. m \in Message /\ Answered(m)
    BY DEF Stored, ServiceInv
  <2> QED BY <2>1 DEF Answered, Sound
<1> QED BY <1>1, ServiceInvariant, PTL

\* No run of a message waits for an approval that has been given.
THEOREM NeverWaitsForApproved == ServiceSpec => []ApprovedNeverWaits
<1>1. ServiceInv => ApprovedNeverWaits
  BY DEF ServiceInv, Linked, ApprovedNeverWaits
<1> QED BY <1>1, ServiceInvariant, PTL

\* No step lowers the risk of an escalated conversation.
THEOREM EscalationsKeepTheirRisk == ServiceSpec => RiskStays
<1>1. ServiceInv /\ [ServiceNext]_serviceVars =>
        [conversation.risk = "high" => conversation'.risk = "high"]_serviceVars
  <2> SUFFICES ASSUME ServiceInv, ServiceNext, conversation.risk = "high"
               PROVE  conversation'.risk = "high"
    OBVIOUS
  <2>1. CASE UNCHANGED conversation
    BY <2>1
  <2>2. CASE \E h \in Handler : StoreMessage(h)
    <3>1. PICK h \in Handler : StoreMessage(h)
      BY <2>2
    <3>2. Risks(handling[h].text)
      BY DEF Risks
    <3>3. conversation' = Update(conversation, RiskOf("human_escalation"),
                                 StatusOf("human_escalation"))
      BY <3>1, <3>2 DEF StoreMessage
    <3> QED BY <3>3, Classes, Updated DEF ServiceInv, ServiceTypeOK, Verdict
  <2>3. CASE \E m \in Message : ApproveResponse(m)
    BY <2>3, Opened
  <2> QED BY <2>1, <2>2, <2>3
        DEF ServiceNext, Lookup, RefuseMessage, Route, Link, LockApproval,
            LockMessage, ApproveStale, BreakDeadlock, DeclineResponse
<1> QED BY <1>1, ServiceInvariant, PTL DEF ServiceSpec, RiskStays
=============================================================================

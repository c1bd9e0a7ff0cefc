-------------------------- MODULE ProcurementProofs --------------------------
(***************************************************************************)
(* Proofs about procurement, for any number of purchases, units and        *)
(* concurrent calls: the rows of a purchase agree after every commit,      *)
(* decisions and closed purchases are final, and the ledger adds up.       *)
(***************************************************************************)
EXTENDS Procurement, Sums, TLAPS

\* The operation of a call fits to the place that it has reached, and a
\* receipt knows whether it completes its purchase and finds its row.
Program(t) ==
  /\ pc[t] = "approval" => call[t].op \in Decision
  /\ pc[t] \in {"request", "finish"} => call[t].op # "reject"
  /\ pc[t] \in {"lookup", "order", "item", "insert", "movement"} =>
       call[t].op = "receive"
  /\ pc[t] = "request" /\ LocksOrder(t) =>
       Completes(call[t].purchase, call[t].quantity)
  /\ pc[t] # "item" /\ LocksOrder(t) /\ ~ call[t].inserts =>
       stock[call[t].place] # NoStock

\* What a call has checked of the rows that it has locked is still true.
Knows(t) ==
  LET p == call[t].purchase IN
  /\ LocksApproval(t) => approval[p] = "pending"
  /\ LocksOrder(t) => order[p] = "shipped" /\ call[t].quantity <= Remaining(p)
  /\ LocksRequest(t) => MayChange(t)

\* Two calls have not locked the same row.
Apart(s, t) ==
  /\ ~ (LocksApproval(s) /\ LocksApproval(t))
  /\ ~ (LocksOrder(s) /\ LocksOrder(t))
  /\ ~ (LocksRequest(s) /\ LocksRequest(t))

PurchaseInv ==
  /\ TypeOK
  /\ StagesAgree
  /\ \A t \in Thread : Program(t) /\ Knows(t)
  /\ \A t \in Thread : pc[t] # "idle" => \A s \in Rivals(t) : Apart(s, t)

(***************************************************************************)
(* Calls                                                                   *)
(***************************************************************************)

LEMMA CallFields ==
  ASSUME NEW c \in Call
  PROVE  /\ c.purchase \in Purchase
         /\ c.op \in {"submit", "approve", "reject", "order", "ship",
                     "cancel", "receive"}
         /\ c.op = "receive" => /\ c.key \in Key /\ c.place \in Place
                                /\ c.quantity \in 1 .. MaxReceipt
                                /\ c.retried \in BOOLEAN
                                /\ c.inserts \in BOOLEAN
  BY DEF Call, Decision

\* The call of a thread that is not idle.
LEMMA Active ==
  ASSUME TypeOK, NEW t \in Thread, pc[t] # "idle"
  PROVE  call[t] \in Call /\ call[t].purchase \in Purchase
  BY CallFields DEF TypeOK

\* The rows that calls have locked depend on their own state, and for the
\* request on the units received so far.
LEMMA OthersKeepTheirLocks ==
  ASSUME NEW s, pc'[s] = pc[s], call'[s] = call[s]
  PROVE  /\ LocksApproval(s)' = LocksApproval(s)
         /\ LocksOrder(s)' = LocksOrder(s)
         /\ received'[call[s].purchase] = received[call[s].purchase] =>
              LocksRequest(s)' = LocksRequest(s)
  BY DEF LocksApproval, LocksOrder, LocksRequest, Completes

(***************************************************************************)
(* Steps of one call that write nothing                                    *)
(***************************************************************************)

\* Thread t, and no other, takes a step to place l with call c.
Steps(t, l, c) ==
  /\ pc' = [pc EXCEPT ![t] = l]
  /\ call' = [call EXCEPT ![t] = c]
  /\ answer' \in [Thread -> {"none", "done", "replayed", "refused", "error"}]

LEMMA StepsOf ==
  ASSUME TypeOK, NEW t \in Thread, NEW l \in Pc, NEW c \in Call \cup {NoCall},
         Steps(t, l, c), c = NoCall <=> l = "idle"
  PROVE  /\ pc' \in [Thread -> Pc] /\ call' \in [Thread -> Call \cup {NoCall}]
         /\ \A s \in Thread : call'[s] = NoCall <=> pc'[s] = "idle"
         /\ pc'[t] = l /\ call'[t] = c
         /\ \A s \in Thread \ {t} : pc'[s] = pc[s] /\ call'[s] = call[s]
  BY DEF TypeOK, Steps

LEMMA Moves ==
  ASSUME PurchaseInv, NEW t \in Thread, NEW l \in Pc,
         NEW c \in Call \cup {NoCall}, Steps(t, l, c), c = NoCall <=> l = "idle",
         UNCHANGED <<purchases, inventory>>, overdue' \in SUBSET Purchase,
         Program(t)', Knows(t)',
         l # "idle" => \A s \in Rivals(t)' : Apart(s, t)'
  PROVE  PurchaseInv'
<1>1. /\ pc' \in [Thread -> Pc] /\ call' \in [Thread -> Call \cup {NoCall}]
      /\ \A s \in Thread : call'[s] = NoCall <=> pc'[s] = "idle"
      /\ pc'[t] = l /\ call'[t] = c
      /\ \A s \in Thread \ {t} : pc'[s] = pc[s] /\ call'[s] = call[s]
  BY StepsOf DEF PurchaseInv
<1>2. TypeOK'
  BY <1>1 DEF PurchaseInv, TypeOK, Steps, purchases, inventory
<1>3. StagesAgree'
  BY DEF PurchaseInv, StagesAgree, Agrees, purchases, inventory
<1>4. \A s \in Thread \ {t} : /\ LocksApproval(s)' = LocksApproval(s)
                             /\ LocksOrder(s)' = LocksOrder(s)
                             /\ LocksRequest(s)' = LocksRequest(s)
  BY <1>1, OthersKeepTheirLocks DEF inventory
<1>5. ASSUME NEW s \in Thread \ {t} PROVE Program(s)' /\ Knows(s)'
  <2>1. Program(s) /\ Knows(s)
    BY DEF PurchaseInv
  <2>2. Program(s)'
    BY <1>1, <1>4, <2>1 DEF Program, Completes, inventory
  <2>3. Knows(s)'
    BY <1>1, <1>4, <2>1 DEF Knows, Remaining, MayChange, purchases, inventory
  <2> QED BY <2>2, <2>3
<1>6. ASSUME NEW u \in Thread, pc'[u] # "idle", NEW s \in Rivals(u)'
      PROVE  Apart(s, u)'
  <2>1. CASE u = t
    BY <1>1, <1>6, <2>1
  <2>2. CASE u # t /\ s = t
    <3>1. l # "idle" /\ u \in Rivals(t)'
      BY <1>1, <1>6, <2>2 DEF Rivals
    <3> QED BY <2>2, <3>1 DEF Apart
  <2>3. CASE u # t /\ s # t
    <3>1. s \in Rivals(u) /\ pc[u] # "idle" /\ s \in Thread
      BY <1>1, <1>6, <2>3 DEF Rivals
    <3>2. Apart(s, u)
      BY <3>1 DEF PurchaseInv
    <3> QED BY <1>4, <2>3, <3>1, <3>2 DEF Apart
  <2> QED BY <2>1, <2>2, <2>3
<1> QED BY <1>2, <1>3, <1>5, <1>6 DEF PurchaseInv

\* A call that ends without a commit leaves nothing behind.
LEMMA Ends ==
  ASSUME PurchaseInv, NEW t \in Thread, pc[t] # "idle",
         NEW a \in {"done", "replayed", "refused", "error"}, End(t, a),
         UNCHANGED <<purchases, overdue, inventory>>
  PROVE  PurchaseInv'
<1>1. Steps(t, "idle", NoCall)
  BY DEF PurchaseInv, TypeOK, Steps, End
<1>2. pc'[t] = "idle"
  BY DEF PurchaseInv, TypeOK, End
<1>3. Program(t)' /\ Knows(t)'
  BY <1>2 DEF Program, Knows, LocksApproval, LocksOrder, LocksRequest
<1>4. overdue' \in SUBSET Purchase
  BY DEF PurchaseInv, TypeOK
<1> QED BY <1>1, <1>3, <1>4, Moves DEF Pc

\* An IntegrityError ends the call or lets it begin again without a lock.
LEMMA IntegrityMoves ==
  ASSUME PurchaseInv, NEW t \in Thread, pc[t] # "idle",
         call[t].op = "receive", Integrity(t),
         UNCHANGED <<purchases, overdue, inventory>>
  PROVE  PurchaseInv'
<1>1. CASE call[t].retried
  BY <1>1, Ends DEF Integrity
<1>2. CASE ~ call[t].retried
  <2> DEFINE c == [call[t] EXCEPT !.retried = TRUE, !.inserts = FALSE]
  <2>1. call[t] \in Call
    BY Active DEF PurchaseInv
  <2>2. c \in Call /\ c.op = "receive"
    BY <2>1 DEF Call, Decision
  <2>3. Steps(t, "lookup", c) /\ pc'[t] = "lookup" /\ call'[t] = c
    BY <1>2 DEF PurchaseInv, TypeOK, Steps, Integrity
  <2>4. Program(t)' /\ Knows(t)'
    BY <2>2, <2>3
       DEF Program, Knows, LocksApproval, LocksOrder, LocksRequest, Decision
  <2>5. \A s \in Rivals(t)' : Apart(s, t)'
    BY <2>3 DEF Apart, LocksApproval, LocksOrder, LocksRequest
  <2>6. overdue' \in SUBSET Purchase /\ c # NoCall
    BY <2>2, NoValueAssumption DEF PurchaseInv, TypeOK
  <2> QED BY <2>2, <2>3, <2>4, <2>5, <2>6, Moves DEF Pc
<1> QED BY <1>1, <1>2

LEMMA BeginKeeps ==
  ASSUME PurchaseInv, NEW t \in Thread, NEW c \in Call, Begin(t, c)
  PROVE  PurchaseInv'
<1>1. /\ First(c.op) \in {"lookup", "approval", "request"}
      /\ First(c.op) = "lookup" <=> c.op = "receive"
      /\ First(c.op) = "approval" <=> c.op \in Decision
  BY CallFields DEF First, Decision
<1>2. /\ Steps(t, First(c.op), c)
      /\ pc'[t] = First(c.op) /\ call'[t] = c
  BY <1>1 DEF PurchaseInv, TypeOK, Steps, Begin
<1>3. ~ LocksApproval(t)' /\ ~ LocksOrder(t)' /\ ~ LocksRequest(t)'
  BY <1>1, <1>2 DEF LocksApproval, LocksOrder, LocksRequest, Decision
<1>4. Program(t)' /\ Knows(t)'
  BY <1>1, <1>2, <1>3 DEF Program, Knows, Decision
<1>5. \A s \in Rivals(t)' : Apart(s, t)'
  BY <1>3 DEF Apart
<1>6. overdue' \in SUBSET Purchase /\ c # NoCall
  BY NoValueAssumption DEF PurchaseInv, TypeOK, Begin
<1>7. UNCHANGED <<purchases, inventory>>
  BY DEF Begin
<1> QED BY <1>1, <1>2, <1>4, <1>5, <1>6, <1>7, Moves DEF Pc

\* A call that goes on, with the locks that it had before and perhaps one
\* more, which it has found free.
LEMMA GoesOn ==
  ASSUME PurchaseInv, NEW t \in Thread, pc[t] # "idle", NEW l \in Pc \ {"idle"},
         NEW c \in Call, Steps(t, l, c), c.purchase = call[t].purchase,
         UNCHANGED <<purchases, overdue, inventory>>,
         Program(t)', Knows(t)',
         LocksApproval(t)' => LocksApproval(t) \/ ~ ApprovalLocked(t),
         LocksOrder(t)' => LocksOrder(t) \/ ~ OrderLocked(t),
         LocksRequest(t)' => LocksRequest(t) \/ ~ RequestLocked(t)
  PROVE  PurchaseInv'
<1>1. /\ c # NoCall /\ overdue' \in SUBSET Purchase
      /\ pc'[t] = l /\ call'[t] = c
      /\ \A s \in Thread \ {t} : pc'[s] = pc[s] /\ call'[s] = call[s]
  BY NoValueAssumption DEF PurchaseInv, TypeOK, Steps
<1>2. ASSUME NEW s \in Rivals(t)' PROVE Apart(s, t)'
  <2>1. s \in Rivals(t) /\ s \in Thread \ {t}
    BY <1>1 DEF Rivals
  <2>2. /\ LocksApproval(s)' = LocksApproval(s)
        /\ LocksOrder(s)' = LocksOrder(s)
        /\ LocksRequest(s)' = LocksRequest(s)
    BY <1>1, <2>1, OthersKeepTheirLocks DEF inventory
  <2>3. Apart(s, t)
    BY <2>1 DEF PurchaseInv
  <2> QED BY <2>1, <2>2, <2>3
          DEF Apart, ApprovalLocked, OrderLocked, RequestLocked
<1> QED BY <1>1, <1>2, Moves

LEMMA LockApprovalKeeps ==
  ASSUME PurchaseInv, NEW t \in Thread, LockApproval(t)
  PROVE  PurchaseInv'
<1>1. Steps(t, "request", call[t]) /\ pc'[t] = "request" /\ call'[t] = call[t]
  BY DEF PurchaseInv, TypeOK, Steps, LockApproval, Goto
<1>2. /\ LocksApproval(t)' /\ ~ LocksOrder(t)' /\ ~ LocksRequest(t)'
      /\ call[t].op = "approve" /\ pc[t] # "idle"
  BY <1>1 DEF LocksApproval, LocksOrder, LocksRequest, LockApproval
<1>3. Program(t)'
  BY <1>1, <1>2 DEF Program, Decision
<1>4. Knows(t)'
  BY <1>1, <1>2 DEF Knows, LockApproval, MayDecide, purchases
<1>5. /\ call[t] \in Call /\ ~ ApprovalLocked(t)
      /\ UNCHANGED <<purchases, overdue, inventory>>
  BY <1>2, Active DEF PurchaseInv, LockApproval
<1> QED BY <1>1, <1>2, <1>3, <1>4, <1>5, GoesOn DEF Pc

LEMMA LockRequestKeeps ==
  ASSUME PurchaseInv, NEW t \in Thread, LockRequest(t)
  PROVE  PurchaseInv'
<1>1. Steps(t, "finish", call[t]) /\ pc'[t] = "finish" /\ call'[t] = call[t]
  BY DEF PurchaseInv, TypeOK, Steps, LockRequest, Goto
<1>2. /\ LocksApproval(t)' = LocksApproval(t) /\ LocksOrder(t)' = LocksOrder(t)
      /\ pc[t] = "request" /\ Program(t) /\ Knows(t)
      /\ UNCHANGED <<purchases, overdue, inventory>>
  BY <1>1 DEF LocksApproval, LocksOrder, LockRequest, PurchaseInv
<1>3. Program(t)'
  BY <1>1, <1>2 DEF Program, LocksOrder, inventory
<1>4. Knows(t)'
  BY <1>1, <1>2
     DEF Knows, LockRequest, MayChange, Remaining, purchases, inventory
<1>5. call[t] \in Call /\ ~ RequestLocked(t)
  BY <1>2, Active DEF PurchaseInv, LockRequest
<1> QED BY <1>1, <1>2, <1>3, <1>4, <1>5, GoesOn DEF Pc

LEMMA LookupMovementKeeps ==
  ASSUME PurchaseInv, NEW t \in Thread, LookupMovement(t)
  PROVE  PurchaseInv'
<1>1. Steps(t, "order", call[t]) /\ pc'[t] = "order" /\ call'[t] = call[t]
  BY DEF PurchaseInv, TypeOK, Steps, LookupMovement, Goto
<1>2. /\ ~ LocksApproval(t)' /\ ~ LocksOrder(t)' /\ ~ LocksRequest(t)'
      /\ pc[t] = "lookup" /\ Program(t)
      /\ UNCHANGED <<purchases, overdue, inventory>>
  BY <1>1 DEF LocksApproval, LocksOrder, LocksRequest, LookupMovement, PurchaseInv
<1>3. Program(t)' /\ Knows(t)'
  BY <1>1, <1>2 DEF Program, Knows
<1>4. call[t] \in Call
  BY <1>2, Active DEF PurchaseInv
<1> QED BY <1>1, <1>2, <1>3, <1>4, GoesOn DEF Pc

LEMMA LockOrderKeeps ==
  ASSUME PurchaseInv, NEW t \in Thread, LockOrder(t)
  PROVE  PurchaseInv'
<1>1. Steps(t, "item", call[t]) /\ pc'[t] = "item" /\ call'[t] = call[t]
  BY DEF PurchaseInv, TypeOK, Steps, LockOrder, Goto
<1>2. /\ ~ LocksApproval(t)' /\ LocksOrder(t)' /\ ~ LocksRequest(t)'
      /\ pc[t] = "order" /\ Program(t) /\ call[t].op = "receive"
      /\ UNCHANGED <<purchases, overdue, inventory>>
  BY <1>1 DEF LocksApproval, LocksOrder, LocksRequest, LockOrder, PurchaseInv,
              Program
<1>3. Program(t)'
  BY <1>1, <1>2 DEF Program
<1>4. Knows(t)'
  BY <1>1, <1>2 DEF Knows, LockOrder, Receivable, Remaining, purchases, inventory
<1>5. call[t] \in Call /\ ~ OrderLocked(t)
  BY <1>2, Active DEF PurchaseInv, LockOrder
<1> QED BY <1>1, <1>2, <1>3, <1>4, <1>5, GoesOn DEF Pc

LEMMA MissItemKeeps ==
  ASSUME PurchaseInv, NEW t \in Thread, MissItem(t)
  PROVE  PurchaseInv'
<1> DEFINE c == [call[t] EXCEPT !.inserts = TRUE]
<1>1. call[t] \in Call /\ pc[t] = "item" /\ Program(t) /\ Knows(t)
  BY Active DEF PurchaseInv, MissItem
<1>2. /\ call[t].op = "receive"
      /\ c \in Call /\ c.op = "receive" /\ c.inserts
      /\ c.purchase = call[t].purchase /\ c.quantity = call[t].quantity
  BY <1>1 DEF Program, Call, Decision
<1>3. Steps(t, "insert", c) /\ pc'[t] = "insert" /\ call'[t] = c
  BY DEF PurchaseInv, TypeOK, Steps, MissItem
<1> HIDE DEF c
<1>4. /\ LocksOrder(t) /\ LocksOrder(t)'
      /\ ~ LocksApproval(t)' /\ ~ LocksRequest(t)'
      /\ UNCHANGED <<purchases, overdue, inventory>>
  BY <1>1, <1>2, <1>3 DEF LocksApproval, LocksOrder, LocksRequest, MissItem
<1>5. Program(t)' /\ Knows(t)'
  BY <1>1, <1>2, <1>3, <1>4 DEF Program, Knows, Remaining, purchases, inventory
<1> QED BY <1>1, <1>2, <1>3, <1>4, <1>5, GoesOn DEF Pc

LEMMA LockItemKeeps ==
  ASSUME PurchaseInv, NEW t \in Thread, LockItem(t)
  PROVE  PurchaseInv'
<1>1. /\ call[t] \in Call /\ pc[t] = "item" /\ Program(t) /\ Knows(t)
      /\ UNCHANGED <<purchases, overdue, inventory>>
  BY Active DEF PurchaseInv, LockItem
<1>2. CASE End(t, "refused")
  BY <1>1, <1>2, Ends
<1>3. CASE Goto(t, "insert")
  <2>1. Steps(t, "insert", call[t]) /\ pc'[t] = "insert" /\ call'[t] = call[t]
    BY <1>3 DEF PurchaseInv, TypeOK, Steps, Goto
  <2>2. /\ LocksOrder(t) /\ LocksOrder(t)' /\ call[t].op = "receive"
        /\ ~ LocksApproval(t)' /\ ~ LocksRequest(t)'
    BY <1>1, <2>1 DEF LocksApproval, LocksOrder, LocksRequest, Program
  <2>3. Program(t)' /\ Knows(t)'
    BY <1>1, <2>1, <2>2
       DEF Program, Knows, Remaining, purchases, inventory, LockItem
  <2> QED BY <1>1, <2>1, <2>2, <2>3, GoesOn DEF Pc
<1> QED BY <1>2, <1>3 DEF LockItem

LEMMA InsertItemKeeps ==
  ASSUME PurchaseInv, NEW t \in Thread, InsertItem(t)
  PROVE  PurchaseInv'
<1>1. /\ call[t] \in Call /\ pc[t] = "insert" /\ Program(t) /\ Knows(t)
      /\ call[t].op = "receive"
      /\ UNCHANGED <<purchases, overdue, inventory>>
  BY Active DEF PurchaseInv, InsertItem, Program
<1>2. CASE Integrity(t)
  BY <1>1, <1>2, IntegrityMoves
<1>3. CASE Goto(t, "movement")
  <2>1. Steps(t, "movement", call[t]) /\ pc'[t] = "movement" /\ call'[t] = call[t]
    BY <1>3 DEF PurchaseInv, TypeOK, Steps, Goto
  <2>2. /\ LocksOrder(t) /\ LocksOrder(t)'
        /\ ~ LocksApproval(t)' /\ ~ LocksRequest(t)'
    BY <1>1, <2>1 DEF LocksApproval, LocksOrder, LocksRequest
  <2>3. Program(t)' /\ Knows(t)'
    BY <1>1, <2>1, <2>2 DEF Program, Knows, Remaining, purchases, inventory
  <2> QED BY <1>1, <2>1, <2>2, <2>3, GoesOn DEF Pc
<1> QED BY <1>2, <1>3 DEF InsertItem

LEMMA InsertMovementKeeps ==
  ASSUME PurchaseInv, NEW t \in Thread, InsertMovement(t)
  PROVE  PurchaseInv'
<1> DEFINE l == IF Completes(call[t].purchase, call[t].quantity)
                THEN "request" ELSE "finish"
<1>1. /\ call[t] \in Call /\ pc[t] = "movement" /\ Program(t) /\ Knows(t)
      /\ call[t].op = "receive"
      /\ UNCHANGED <<purchases, overdue, inventory>>
  BY Active DEF PurchaseInv, InsertMovement, Program
<1>2. CASE Integrity(t)
  BY <1>1, <1>2, IntegrityMoves
<1>3. CASE Goto(t, l)
  <2>1. Steps(t, l, call[t]) /\ pc'[t] = l /\ call'[t] = call[t]
    BY <1>3 DEF PurchaseInv, TypeOK, Steps, Goto
  <2>2. /\ LocksOrder(t) /\ LocksOrder(t)'
        /\ ~ LocksApproval(t)' /\ ~ LocksRequest(t)'
        /\ Completes(call[t].purchase, call[t].quantity)' =
              Completes(call[t].purchase, call[t].quantity)
    BY <1>1, <2>1
       DEF LocksApproval, LocksOrder, LocksRequest, Completes, inventory
  <2>3. Program(t)' /\ Knows(t)'
    BY <1>1, <2>1, <2>2 DEF Program, Knows, Remaining, purchases, inventory
  <2> QED BY <1>1, <2>1, <2>2, <2>3, GoesOn DEF Pc
<1> QED BY <1>2, <1>3 DEF InsertMovement

(***************************************************************************)
(* Commits                                                                 *)
(***************************************************************************)

\* The calls of T end, and what is written leaves alone the rows that the
\* other calls have locked.
LEMMA Writes ==
  ASSUME PurchaseInv, TypeOK', StagesAgree', NEW T \in SUBSET Thread,
         \A s \in T : pc'[s] = "idle",
         \A s \in Thread \ T : pc'[s] = pc[s] /\ call'[s] = call[s],
         \A i \in Place : stock[i] # NoStock => stock'[i] # NoStock,
         \A s \in Thread \ T : pc[s] # "idle" =>
           LET p == call[s].purchase IN
           /\ LocksApproval(s) => approval'[p] = approval[p]
           /\ LocksOrder(s) => order'[p] = order[p] /\ received'[p] = received[p]
           /\ LocksRequest(s) => request'[p] = request[p] /\ order'[p] = order[p]
  PROVE  PurchaseInv'
<1>1. ASSUME NEW s \in T PROVE Program(s)' /\ Knows(s)'
  BY <1>1 DEF Program, Knows, LocksApproval, LocksOrder, LocksRequest
<1>2. ASSUME NEW s \in Thread \ T, pc[s] # "idle"
      PROVE  /\ LocksApproval(s)' = LocksApproval(s)
             /\ LocksOrder(s)' = LocksOrder(s)
             /\ LocksRequest(s)' = LocksRequest(s)
  <2>1. call[s].op = "receive" /\ pc[s] = "finish" => LocksOrder(s)
    BY DEF LocksOrder
  <2> QED BY <1>2, <2>1
          DEF LocksApproval, LocksOrder, LocksRequest, Completes
<1>3. ASSUME NEW s \in Thread \ T, pc[s] # "idle" PROVE Program(s)' /\ Knows(s)'
  <2>1. Program(s) /\ Knows(s) /\ call[s] \in Call
    BY <1>3, Active DEF PurchaseInv
  <2>2. Program(s)'
    <3>1. LocksOrder(s) => call[s].place \in Place
      BY <2>1, CallFields DEF LocksOrder
    <3> QED BY <1>2, <1>3, <2>1, <3>1 DEF Program, Completes
  <2>3. Knows(s)'
    BY <1>2, <1>3, <2>1 DEF Knows, Remaining, MayChange
  <2> QED BY <2>2, <2>3
<1>4. ASSUME NEW s \in Thread \ T, pc[s] = "idle" PROVE Program(s)' /\ Knows(s)'
  BY <1>4 DEF Program, Knows, LocksApproval, LocksOrder, LocksRequest
<1>5. ASSUME NEW t \in Thread, pc'[t] # "idle", NEW s \in Rivals(t)'
      PROVE  Apart(s, t)'
  <2>1. /\ t \in Thread \ T /\ s \in Thread \ T
        /\ pc[t] # "idle" /\ pc[s] # "idle" /\ s \in Rivals(t)
    BY <1>5 DEF Rivals
  <2>2. Apart(s, t)
    BY <2>1 DEF PurchaseInv
  <2> QED BY <1>2, <2>1, <2>2 DEF Apart
<1> QED BY <1>1, <1>3, <1>4, <1>5 DEF PurchaseInv

\* Pending approvals that no call has locked are rejected or expire.
LEMMA Decides ==
  ASSUME PurchaseInv, NEW D \in SUBSET Purchase, NEW d \in {"rejected", "expired"},
         \A p \in D : approval[p] = "pending",
         approval' = [p \in Purchase |-> IF p \in D THEN d ELSE approval[p]],
         UNCHANGED <<request, order, run, overdue, inventory>>,
         NEW T \in SUBSET Thread, \A s \in T : pc'[s] = "idle",
         \A s \in Thread \ T : pc'[s] = pc[s] /\ call'[s] = call[s],
         \A s \in Thread \ T : LocksApproval(s) => call[s].purchase \notin D,
         pc' \in [Thread -> Pc], call' \in [Thread -> Call \cup {NoCall}],
         \A s \in Thread : call'[s] = NoCall <=> pc'[s] = "idle",
         answer' \in [Thread -> {"none", "done", "replayed", "refused", "error"}]
  PROVE  PurchaseInv'
<1>1. TypeOK'
  BY DEF PurchaseInv, TypeOK, ApprovalStatus, inventory
<1>2. StagesAgree'
  BY ZenonT(40) DEF PurchaseInv, StagesAgree, Agrees, inventory
<1>3. ASSUME NEW s \in Thread \ T, pc[s] # "idle", LocksApproval(s)
      PROVE  approval'[call[s].purchase] = approval[call[s].purchase]
  BY <1>3, Active DEF PurchaseInv
<1> QED BY <1>1, <1>2, <1>3, Writes DEF inventory

LEMMA DecisionKeeps ==
  ASSUME PurchaseInv, NEW t \in Thread, ExpireOnDecision(t) \/ Reject(t)
  PROVE  PurchaseInv'
<1> DEFINE p == call[t].purchase
<1>1. /\ pc[t] = "approval" /\ p \in Purchase /\ approval[p] = "pending"
      /\ ~ ApprovalLocked(t)
      /\ UNCHANGED <<request, order, run, overdue, inventory>>
  BY Active DEF PurchaseInv, ExpireOnDecision, Reject, MayDecide
<1>2. PICK d \in {"rejected", "expired"} :
        approval' = [approval EXCEPT ![p] = d]
  BY DEF ExpireOnDecision, Reject
<1>3. approval' = [q \in Purchase |-> IF q \in {p} THEN d ELSE approval[q]]
  BY <1>2 DEF PurchaseInv, TypeOK
<1>4. PICK a \in {"done", "refused"} : End(t, a)
  BY DEF ExpireOnDecision, Reject
<1>5. /\ pc' \in [Thread -> Pc] /\ call' \in [Thread -> Call \cup {NoCall}]
      /\ \A s \in Thread : call'[s] = NoCall <=> pc'[s] = "idle"
      /\ answer' \in [Thread -> {"none", "done", "replayed", "refused", "error"}]
      /\ pc'[t] = "idle"
      /\ \A s \in Thread \ {t} : pc'[s] = pc[s] /\ call'[s] = call[s]
  BY <1>4 DEF PurchaseInv, TypeOK, End, Pc
<1>6. \A s \in Thread \ {t} : LocksApproval(s) => call[s].purchase \notin {p}
  BY <1>1 DEF ApprovalLocked, Rivals, LocksApproval
<1>7. /\ {t} \in SUBSET Thread /\ \A s \in {t} : pc'[s] = "idle"
      /\ {p} \in SUBSET Purchase /\ \A q \in {p} : approval[q] = "pending"
  BY <1>1, <1>5
<1> HIDE DEF p
<1> QED BY <1>1, <1>3, <1>5, <1>6, <1>7, Decides

LEMMA ExpireDueKeeps ==
  ASSUME PurchaseInv, ExpireDue
  PROVE  PurchaseInv'
<1>1. /\ Undecided \in SUBSET Purchase
      /\ \A p \in Undecided : approval[p] = "pending"
  BY DEF Undecided
<1>2. UNCHANGED calls /\ UNCHANGED <<request, order, run, overdue, inventory>>
  BY DEF ExpireDue
<1>3. \A s \in Thread \ {} : LocksApproval(s) => call[s].purchase \notin Undecided
  BY DEF ExpireDue
<1>4. approval' = [p \in Purchase |->
                    IF p \in Undecided THEN "expired" ELSE approval[p]]
  BY DEF ExpireDue
<1>5. /\ pc' \in [Thread -> Pc] /\ call' \in [Thread -> Call \cup {NoCall}]
      /\ \A s \in Thread : call'[s] = NoCall <=> pc'[s] = "idle"
      /\ answer' \in [Thread -> {"none", "done", "replayed", "refused", "error"}]
      /\ \A s \in Thread \ {} : pc'[s] = pc[s] /\ call'[s] = call[s]
  BY <1>2 DEF PurchaseInv, TypeOK, calls
<1>6. {} \in SUBSET Thread /\ \A s \in {} : pc'[s] = "idle"
  OBVIOUS
<1> QED BY <1>1, <1>2, <1>3, <1>4, <1>5, <1>6, Decides

LEMMA PassExpiryKeeps ==
  ASSUME PurchaseInv, NEW p \in Purchase, PassExpiry(p)
  PROVE  PurchaseInv'
<1>1. TypeOK' /\ StagesAgree'
  BY DEF PurchaseInv, TypeOK, StagesAgree, Agrees, PassExpiry, purchases, inventory, calls
<1>2. /\ {} \in SUBSET Thread /\ \A s \in {} : pc'[s] = "idle"
      /\ \A s \in Thread \ {} : pc'[s] = pc[s] /\ call'[s] = call[s]
      /\ UNCHANGED <<request, approval, order, received, stock>>
  BY DEF PassExpiry, purchases, inventory, calls
<1> QED BY <1>1, <1>2, Writes

\* The states from which each operation may start.
LEMMA ChangesFrom ==
  ASSUME NEW t, MayChange(t), NEW p, p = call[t].purchase,
         request[p] \in RequestStatus,
         call[t].op \in {"submit", "approve", "order", "ship", "cancel", "receive"}
  PROVE  /\ call[t].op = "submit" => request[p] = "proposed"
         /\ call[t].op = "approve" => request[p] = "awaiting_approval"
         /\ call[t].op = "order" => request[p] = "approved"
         /\ call[t].op = "ship" => request[p] = "ordered"
         /\ call[t].op = "receive" => request[p] = "shipped"
         /\ call[t].op = "cancel" =>
              request[p] \in {"proposed", "awaiting_approval", "approved"}
  BY DEF MayChange, Target, AllowedTransitions, RequestStatus

\* A call that is about to commit.
LEMMA Committing ==
  ASSUME PurchaseInv, NEW t \in Thread, pc[t] = "finish", End(t, "done")
  PROVE  /\ call[t] \in Call /\ call[t].purchase \in Purchase
         /\ Program(t) /\ Knows(t)
         /\ call[t].op # "receive" => LocksRequest(t) /\ MayChange(t)
         /\ \A s \in Rivals(t) : Apart(s, t)
         /\ pc' \in [Thread -> Pc] /\ call' \in [Thread -> Call \cup {NoCall}]
         /\ \A s \in Thread : call'[s] = NoCall <=> pc'[s] = "idle"
         /\ answer' \in [Thread -> {"none", "done", "replayed", "refused", "error"}]
         /\ pc'[t] = "idle"
         /\ \A s \in Thread \ {t} : pc'[s] = pc[s] /\ call'[s] = call[s]
<1>1. call[t] \in Call /\ call[t].purchase \in Purchase
  BY Active DEF PurchaseInv
<1>2. Program(t) /\ Knows(t) /\ \A s \in Rivals(t) : Apart(s, t)
  BY DEF PurchaseInv
<1>3. call[t].op # "receive" => LocksRequest(t) /\ MayChange(t)
  BY <1>2 DEF LocksRequest, Knows
<1>4. /\ pc' \in [Thread -> Pc] /\ call' \in [Thread -> Call \cup {NoCall}]
      /\ answer' \in [Thread -> {"none", "done", "replayed", "refused", "error"}]
      /\ pc'[t] = "idle" /\ call'[t] = NoCall
      /\ \A s \in Thread \ {t} : pc'[s] = pc[s] /\ call'[s] = call[s]
  BY DEF PurchaseInv, TypeOK, End, Pc
<1>5. \A s \in Thread : call'[s] = NoCall <=> pc'[s] = "idle"
  BY <1>4 DEF PurchaseInv, TypeOK
<1> QED BY <1>1, <1>2, <1>3, <1>4, <1>5

\* The commit of an operation on the request disturbs no other call.
LEMMA ChangeKeeps ==
  ASSUME PurchaseInv, NEW t \in Thread, pc[t] = "finish", End(t, "done"),
         NEW p, p = call[t].purchase, call[t].op # "receive",
         TypeOK', StagesAgree', UNCHANGED inventory,
         \A q \in Purchase \ {p} : /\ request'[q] = request[q]
                                   /\ order'[q] = order[q]
                                   /\ approval'[q] = approval[q],
         approval'[p] = approval[p] \/ approval[p] = "none" \/ LocksApproval(t),
         order'[p] = order[p] \/ order[p] # "shipped" \/ ~ OrderLocked(t)
  PROVE  PurchaseInv'
<1>1. /\ pc'[t] = "idle" /\ LocksRequest(t)
      /\ \A s \in Thread \ {t} : pc'[s] = pc[s] /\ call'[s] = call[s]
      /\ \A s \in Rivals(t) : Apart(s, t)
  BY Committing
<1>2. ASSUME NEW s \in Thread \ {t}, pc[s] # "idle", NEW q, q = call[s].purchase
      PROVE  /\ LocksApproval(s) => approval'[q] = approval[q]
             /\ LocksOrder(s) => order'[q] = order[q] /\ received'[q] = received[q]
             /\ LocksRequest(s) => request'[q] = request[q] /\ order'[q] = order[q]
  <2>1. CASE q # p
    <3>1. q \in Purchase \ {p}
      BY <1>2, <2>1, Active DEF PurchaseInv
    <3> QED BY <3>1 DEF inventory
  <2>2. CASE q = p
    <3>1. s \in Rivals(t) /\ Apart(s, t) /\ Knows(s)
      BY <1>1, <1>2, <2>2 DEF Rivals, PurchaseInv
    <3> QED BY <1>1, <1>2, <2>2, <3>1 DEF Apart, Knows, OrderLocked, inventory
  <2> QED BY <2>1, <2>2
<1>3. {t} \in SUBSET Thread /\ \A s \in {t} : pc'[s] = "idle"
  BY <1>1
<1> QED BY <1>1, <1>2, <1>3, Writes DEF inventory

\* A commit changes the rows of one purchase only.
LEMMA OnePurchase ==
  ASSUME PurchaseInv, NEW p \in Purchase, Agrees(p)',
         \A q \in Purchase \ {p} :
           /\ request'[q] = request[q] /\ order'[q] = order[q]
           /\ approval'[q] = approval[q] /\ run'[q] = run[q]
           /\ received'[q] = received[q]
  PROVE  StagesAgree'
<1> SUFFICES ASSUME NEW q \in Purchase PROVE Agrees(q)'
  BY DEF StagesAgree
<1>1. CASE q = p
  BY <1>1
<1>2. CASE q # p
  <2>1. Agrees(q)
    BY DEF PurchaseInv, StagesAgree
  <2> QED BY <1>2, <2>1 DEF Agrees
<1> QED BY <1>1, <1>2

LEMMA SubmitKeeps ==
  ASSUME PurchaseInv, NEW t \in Thread, Submit(t)
  PROVE  PurchaseInv'
<1> PICK p : p = call[t].purchase
  OBVIOUS
<1>1. pc[t] = "finish" /\ End(t, "done") /\ call[t].op = "submit"
  BY DEF Submit, Finishes
<1>2. p \in Purchase /\ MayChange(t) /\ request[p] \in RequestStatus /\ Agrees(p)
  BY <1>1, Committing DEF PurchaseInv, TypeOK, StagesAgree
<1>3. request[p] = "proposed" /\ approval[p] = "none"
  BY <1>1, <1>2, ChangesFrom DEF Agrees
<1>4. /\ request' = [request EXCEPT ![p] = "awaiting_approval"]
      /\ approval' = [approval EXCEPT ![p] = "pending"]
      /\ UNCHANGED <<order, run, overdue, inventory>>
  BY <1>1, <1>2, <1>3 DEF Submit, Finishes, SetRequest, Target
<1>5. /\ TypeOK'
      /\ \A q \in Purchase \ {p} : /\ request'[q] = request[q]
                                   /\ approval'[q] = approval[q]
  BY <1>1, <1>2, <1>4, Committing
     DEF PurchaseInv, TypeOK, inventory, RequestStatus, ApprovalStatus
<1>6. Agrees(p)'
  BY <1>2, <1>3, <1>4 DEF PurchaseInv, TypeOK, Agrees, inventory
<1>7. StagesAgree'
  BY <1>2, <1>4, <1>5, <1>6, OnePurchase DEF inventory
<1> QED BY <1>1, <1>2, <1>3, <1>4, <1>5, <1>7, ChangeKeeps

LEMMA ApproveKeeps ==
  ASSUME PurchaseInv, NEW t \in Thread, Approve(t)
  PROVE  PurchaseInv'
<1> PICK p : p = call[t].purchase
  OBVIOUS
<1>1. /\ pc[t] = "finish" /\ End(t, "done") /\ call[t].op = "approve"
      /\ LocksApproval(t)
  BY DEF Approve, Finishes, LocksApproval
<1>2. /\ p \in Purchase /\ MayChange(t) /\ request[p] \in RequestStatus
      /\ Agrees(p) /\ approval[p] = "pending"
  BY <1>1, Committing DEF PurchaseInv, TypeOK, StagesAgree, Knows
<1>3. request[p] = "awaiting_approval" /\ order[p] = "none"
  BY <1>1, <1>2, ChangesFrom DEF Agrees
<1>4. /\ request' = [request EXCEPT ![p] = "approved"]
      /\ approval' = [approval EXCEPT ![p] = "approved"]
      /\ order' = [order EXCEPT ![p] = "approved"]
      /\ run' = [run EXCEPT ![p] = "running"]
      /\ UNCHANGED <<overdue, inventory>>
  BY <1>1 DEF Approve, Finishes, SetRequest, SetOrder, SetRun, Target
<1>5. /\ TypeOK'
      /\ \A q \in Purchase \ {p} : /\ request'[q] = request[q]
                                   /\ approval'[q] = approval[q]
                                   /\ order'[q] = order[q] /\ run'[q] = run[q]
  BY <1>1, <1>2, <1>4, Committing
     DEF PurchaseInv, TypeOK, inventory, RequestStatus, ApprovalStatus, OrderStatus
<1>6. Agrees(p)'
  BY <1>2, <1>3, <1>4 DEF PurchaseInv, TypeOK, Agrees, inventory
<1>7. StagesAgree'
  BY <1>2, <1>4, <1>5, <1>6, OnePurchase DEF inventory
<1> QED BY <1>1, <1>2, <1>3, <1>4, <1>5, <1>7, ChangeKeeps

LEMMA OrderAndShipKeep ==
  ASSUME PurchaseInv, NEW t \in Thread, MarkOrdered(t) \/ MarkShipped(t)
  PROVE  PurchaseInv'
<1> PICK p : p = call[t].purchase
  OBVIOUS
<1>1. /\ pc[t] = "finish" /\ End(t, "done") /\ call[t].op \in {"order", "ship"}
      /\ ~ OrderLocked(t)
  BY DEF MarkOrdered, MarkShipped, Finishes
<1>2. /\ p \in Purchase /\ MayChange(t) /\ request[p] \in RequestStatus
      /\ Agrees(p)
  BY <1>1, Committing DEF PurchaseInv, TypeOK, StagesAgree
<1>3. PICK r \in {"ordered", "shipped"}, o \in {"submitted", "shipped"} :
        /\ request[p] \in {"approved", "ordered"}
        /\ r = "ordered" <=> o = "submitted"
        /\ request' = [request EXCEPT ![p] = r]
        /\ order' = [order EXCEPT ![p] = o]
        /\ UNCHANGED <<approval, run, overdue, inventory>>
  <2>1. CASE MarkOrdered(t)
    BY <1>1, <1>2, <2>1, ChangesFrom
       DEF MarkOrdered, Finishes, SetRequest, SetOrder, Target
  <2>2. CASE MarkShipped(t)
    BY <1>1, <1>2, <2>2, ChangesFrom
       DEF MarkShipped, Finishes, SetRequest, SetOrder, Target
  <2> QED BY <2>1, <2>2
<1>5. /\ TypeOK'
      /\ \A q \in Purchase \ {p} : /\ request'[q] = request[q]
                                   /\ order'[q] = order[q]
  BY <1>1, <1>2, <1>3, Committing
     DEF PurchaseInv, TypeOK, inventory, RequestStatus, OrderStatus
<1>6. Agrees(p)'
  BY <1>2, <1>3 DEF PurchaseInv, TypeOK, Agrees, inventory
<1>7. StagesAgree'
  BY <1>2, <1>3, <1>5, <1>6, OnePurchase DEF inventory
<1> QED BY <1>1, <1>2, <1>3, <1>5, <1>7, ChangeKeeps

LEMMA CancelKeeps ==
  ASSUME PurchaseInv, NEW t \in Thread, Cancel(t)
  PROVE  PurchaseInv'
<1> PICK p : p = call[t].purchase
  OBVIOUS
<1>1. /\ pc[t] = "finish" /\ End(t, "done") /\ call[t].op = "cancel"
      /\ ~ OrderLocked(t)
  BY DEF Cancel, Finishes
<1>2. /\ p \in Purchase /\ MayChange(t) /\ request[p] \in RequestStatus
      /\ Agrees(p)
  BY <1>1, Committing DEF PurchaseInv, TypeOK, StagesAgree
<1>3. request[p] \in {"proposed", "awaiting_approval", "approved"}
  BY <1>1, <1>2, ChangesFrom
<1>4. /\ request' = [request EXCEPT ![p] = "cancelled"]
      /\ order' = [order EXCEPT ![p] = IF @ = "none" THEN "none" ELSE "cancelled"]
      /\ run' = [run EXCEPT ![p] = "cancelled"]
      /\ UNCHANGED <<approval, overdue, inventory>>
  BY <1>1 DEF Cancel, Finishes, SetRequest, SetRun, Target
<1>5. /\ TypeOK'
      /\ \A q \in Purchase \ {p} : /\ request'[q] = request[q]
                                   /\ order'[q] = order[q] /\ run'[q] = run[q]
  BY <1>1, <1>2, <1>4, Committing
     DEF PurchaseInv, TypeOK, inventory, RequestStatus, OrderStatus
<1>6. Agrees(p)'
  BY <1>2, <1>3, <1>4 DEF PurchaseInv, TypeOK, Agrees, inventory
<1>7. StagesAgree'
  BY <1>2, <1>4, <1>5, <1>6, OnePurchase DEF inventory
<1> QED BY <1>1, <1>2, <1>3, <1>4, <1>5, <1>7, ChangeKeeps

LEMMA ReceiveKeeps ==
  ASSUME PurchaseInv, NEW t \in Thread, Receive(t)
  PROVE  PurchaseInv'
<1> PICK c : c = call[t]
  OBVIOUS
<1> PICK p : p = c.purchase
  OBVIOUS
<1>1. /\ pc[t] = "finish" /\ End(t, "done") /\ c.op = "receive"
      /\ LocksOrder(t) /\ UNCHANGED <<approval, overdue>>
  BY DEF Receive, Finishes, LocksOrder
<1>2. /\ p \in Purchase /\ Agrees(p) /\ order[p] = "shipped"
      /\ c.quantity \in 1 .. MaxReceipt /\ c.quantity <= Ordered[p] - received[p]
      /\ c.key \in Key /\ c.place \in Place /\ c.inserts \in BOOLEAN
      /\ c.quantity \in Nat \ {0}
  BY <1>1, Committing, CallFields, ProcurementAssumption
     DEF PurchaseInv, StagesAgree, Knows, Remaining
<1>3. /\ request[p] = "shipped" /\ received[p] \in Nat /\ Ordered[p] \in Nat
      /\ request[p] \in RequestStatus
  BY <1>2, ProcurementAssumption
     DEF Agrees, PurchaseInv, TypeOK, RequestStatus
<1>4. PICK n \in Nat : stock' = [stock EXCEPT ![c.place] =
                          [product |-> p, onHand |-> n]]
  <2> DEFINE onHand == IF c.inserts THEN 0 ELSE stock[c.place].onHand
  <2>1. onHand \in Nat
    <3>1. ~ c.inserts => stock[c.place] \in Stock
      BY <1>1, <1>2, Committing DEF Program, PurchaseInv, TypeOK
    <3> QED BY <3>1 DEF Stock
  <2>2. stock' = [stock EXCEPT ![c.place] =
                    [product |-> p, onHand |-> onHand + c.quantity]]
    BY DEF Receive
  <2>3. onHand + c.quantity \in Nat
    BY <1>2, <2>1
  <2> HIDE DEF onHand
  <2> QED BY <2>2, <2>3
<1>5. /\ received' = [received EXCEPT ![p] = @ + c.quantity]
      /\ movements' = movements \cup {[key |-> c.key, purchase |-> p,
                           quantity |-> c.quantity, place |-> c.place]}
  BY DEF Receive
<1>6. IF received[p] + c.quantity = Ordered[p]
      THEN /\ request' = [request EXCEPT ![p] = "received"]
           /\ order' = [order EXCEPT ![p] = "received"]
           /\ run' = [run EXCEPT ![p] = "succeeded"]
      ELSE UNCHANGED <<request, order, run>>
  BY <1>1 DEF Receive, Completes, SetRequest, SetOrder, SetRun, Target
<1>7. stock' \in [Place -> Stock \cup {NoStock}]
      /\ \A i \in Place : stock[i] # NoStock => stock'[i] # NoStock
  <2>1. [product |-> p, onHand |-> n] \in Stock
    BY <1>2 DEF Stock
  <2>2. stock' \in [Place -> Stock \cup {NoStock}]
    BY <1>2, <1>4, <2>1 DEF PurchaseInv, TypeOK
  <2>3. ASSUME NEW i \in Place, stock[i] # NoStock PROVE stock'[i] # NoStock
    BY <1>4, <2>1, <2>3, NoValueAssumption DEF PurchaseInv, TypeOK
  <2> QED BY <2>2, <2>3
<1>8. /\ received' \in [Purchase -> Nat]
      /\ \A q \in Purchase : received'[q] <= Ordered[q]
      /\ received'[p] = received[p] + c.quantity
      /\ \A q \in Purchase \ {p} : received'[q] = received[q]
  <2>1. received \in [Purchase -> Nat] /\ \A q \in Purchase : received[q] <= Ordered[q]
    BY DEF PurchaseInv, TypeOK
  <2>2. \A q \in Purchase :
          received'[q] = IF q = p THEN received[p] + c.quantity ELSE received[q]
    BY <1>5, <2>1
  <2>3. received[p] + c.quantity \in Nat /\ received[p] + c.quantity <= Ordered[p]
    BY <1>2, <1>3
  <2>4. received' \in [Purchase -> Nat]
    BY <1>5, <2>1, <2>3
  <2> QED BY <1>2, <2>1, <2>2, <2>3, <2>4
<1>9. movements' \in SUBSET Movement
  BY <1>2, <1>5 DEF PurchaseInv, TypeOK, Movement
<1>10. \A q \in Purchase \ {p} : /\ request'[q] = request[q]
                                /\ order'[q] = order[q] /\ run'[q] = run[q]
  BY <1>6 DEF PurchaseInv, TypeOK
<1>11. TypeOK'
  <2>1. /\ request' \in [Purchase -> RequestStatus]
        /\ order' \in [Purchase -> OrderStatus]
        /\ run' \in [Purchase -> {"pending", "running", "succeeded", "cancelled"}]
    BY <1>6 DEF PurchaseInv, TypeOK, RequestStatus, OrderStatus
  <2>2. /\ approval' \in [Purchase -> ApprovalStatus]
        /\ overdue' \in SUBSET Purchase
    BY <1>1 DEF PurchaseInv, TypeOK
  <2> QED BY <1>1, <1>7, <1>8, <1>9, <2>1, <2>2, Committing DEF TypeOK
<1>12. Agrees(p)'
  <2>1. CASE received[p] + c.quantity = Ordered[p]
    <3>1. request'[p] = "received" /\ order'[p] = "received" /\ run'[p] = "succeeded"
      BY <1>2, <1>6, <2>1 DEF PurchaseInv, TypeOK
    <3> QED BY <1>1, <1>2, <1>3, <1>8, <2>1, <3>1 DEF Agrees
  <2>2. CASE received[p] + c.quantity # Ordered[p]
    BY <1>1, <1>2, <1>3, <1>6, <1>8, <2>2 DEF Agrees
  <2> QED BY <2>1, <2>2
<1>13. StagesAgree'
  BY <1>1, <1>2, <1>8, <1>10, <1>12, OnePurchase
<1>14. ASSUME NEW s \in Thread \ {t}, pc[s] # "idle", NEW q, q = call[s].purchase
       PROVE  /\ LocksApproval(s) => approval'[q] = approval[q]
              /\ LocksOrder(s) => order'[q] = order[q] /\ received'[q] = received[q]
              /\ LocksRequest(s) => request'[q] = request[q] /\ order'[q] = order[q]
  <2>1. CASE q # p
    BY <1>1, <1>8, <1>10, <1>14, <2>1, Active DEF PurchaseInv
  <2>2. CASE q = p
    <3>1. s \in Rivals(t) /\ Apart(s, t)
      BY <1>1, <1>14, <2>2, Committing DEF Rivals
    <3>2. received[p] + c.quantity = Ordered[p] => LocksRequest(t)
      BY <1>1 DEF LocksRequest, Completes
    <3> QED BY <1>1, <1>6, <2>2, <3>1, <3>2 DEF Apart
  <2> QED BY <2>1, <2>2
<1>15. /\ {t} \in SUBSET Thread /\ \A s \in {t} : pc'[s] = "idle"
       /\ \A s \in Thread \ {t} : pc'[s] = pc[s] /\ call'[s] = call[s]
  BY <1>1, Committing
<1> QED BY <1>7, <1>11, <1>13, <1>14, <1>15, Writes

(***************************************************************************)
(* Theorems                                                                *)
(***************************************************************************)

LEMMA InitHolds == Init => PurchaseInv
<1> SUFFICES ASSUME Init PROVE PurchaseInv
  OBVIOUS
<1>1. TypeOK
  BY ProcurementAssumption DEF Init, TypeOK, RequestStatus, ApprovalStatus, OrderStatus, Pc
<1>2. StagesAgree
  BY ProcurementAssumption DEF Init, StagesAgree, Agrees
<1>3. \A t \in Thread : pc[t] = "idle"
  BY DEF Init
<1>4. \A t \in Thread : Program(t) /\ Knows(t)
  BY <1>3 DEF Program, Knows, LocksApproval, LocksOrder, LocksRequest
<1> QED BY <1>1, <1>2, <1>3, <1>4 DEF PurchaseInv

LEMMA WorkKeeps ==
  ASSUME PurchaseInv, NEW t \in Thread, Work(t)
  PROVE  PurchaseInv'
<1>1. CASE RefuseDecision(t)
  BY <1>1, Ends DEF RefuseDecision
<1>2. CASE ExpireOnDecision(t) \/ Reject(t)
  BY <1>2, DecisionKeeps
<1>3. CASE LockApproval(t)
  BY <1>3, LockApprovalKeeps
<1>4. CASE LockRequest(t)
  BY <1>4, LockRequestKeeps
<1>5. CASE RefuseChange(t)
  BY <1>5, Ends DEF RefuseChange
<1>6. CASE Submit(t)
  BY <1>6, SubmitKeeps
<1>7. CASE Approve(t)
  BY <1>7, ApproveKeeps
<1>8. CASE MarkOrdered(t) \/ MarkShipped(t)
  BY <1>8, OrderAndShipKeep
<1>9. CASE Cancel(t)
  BY <1>9, CancelKeeps
<1>10. CASE Replay(t)
  <2>1. PICK a \in {"replayed", "refused"} : End(t, a)
    BY <1>10 DEF Replay
  <2> QED BY <1>10, <2>1, Ends DEF Replay
<1>11. CASE LookupMovement(t)
  BY <1>11, LookupMovementKeeps
<1>12. CASE LockOrder(t)
  BY <1>12, LockOrderKeeps
<1>13. CASE RefuseReceipt(t)
  BY <1>13, Ends DEF RefuseReceipt
<1>14. CASE MissItem(t)
  BY <1>14, MissItemKeeps
<1>15. CASE LockItem(t)
  BY <1>15, LockItemKeeps
<1>16. CASE InsertItem(t)
  BY <1>16, InsertItemKeeps
<1>17. CASE InsertMovement(t)
  BY <1>17, InsertMovementKeeps
<1>18. CASE Receive(t)
  BY <1>18, ReceiveKeeps
<1> QED BY <1>1, <1>2, <1>3, <1>4, <1>5, <1>6, <1>7, <1>8, <1>9, <1>10, <1>11,
           <1>12, <1>13, <1>14, <1>15, <1>16, <1>17, <1>18 DEF Work

LEMMA NextKeeps == PurchaseInv /\ [Next]_vars => PurchaseInv'
<1> SUFFICES ASSUME PurchaseInv, [Next]_vars PROVE PurchaseInv'
  OBVIOUS
<1>1. ASSUME NEW t \in Thread, NEW c \in Call, Begin(t, c) PROVE PurchaseInv'
  BY <1>1, BeginKeeps
<1>2. ASSUME NEW t \in Thread, Work(t) PROVE PurchaseInv'
  BY <1>2, WorkKeeps
<1>3. ASSUME NEW t \in Thread, Crash(t) PROVE PurchaseInv'
  BY <1>3, Ends DEF Crash
<1>4. ASSUME NEW p \in Purchase, PassExpiry(p) PROVE PurchaseInv'
  BY <1>4, PassExpiryKeeps
<1>5. CASE ExpireDue
  BY <1>5, ExpireDueKeeps
<1>6. CASE UNCHANGED vars
  <2>1. TypeOK' /\ StagesAgree'
    BY <1>6 DEF vars, PurchaseInv, TypeOK, StagesAgree, Agrees
  <2>2. /\ {} \in SUBSET Thread /\ \A s \in {} : pc'[s] = "idle"
        /\ \A s \in Thread \ {} : pc'[s] = pc[s] /\ call'[s] = call[s]
        /\ UNCHANGED <<request, approval, order, received, stock>>
    BY <1>6 DEF vars
  <2> QED BY <2>1, <2>2, Writes
<1> QED BY <1>1, <1>2, <1>3, <1>4, <1>5, <1>6 DEF Next

\* The purchase rows, the locks and what the calls know about locked rows are
\* consistent after every step of the procurement and inventory services.
THEOREM PurchaseInvariant == Spec => []PurchaseInv
  BY InitHolds, NextKeeps, PTL DEF Spec

\* The status, the approval, the order, the run and the received units of a
\* purchase agree, whatever calls submit, decide, cancel and receive at once.
THEOREM StagesAlwaysAgree == Spec => []StagesAgree
<1>1. PurchaseInv => StagesAgree
  BY DEF PurchaseInv
<1> QED BY <1>1, PurchaseInvariant, PTL

\* Tables and calls are well formed, and no receipt exceeds what was ordered.
THEOREM TypeCorrect == Spec => []TypeOK
<1>1. PurchaseInv => TypeOK
  BY DEF PurchaseInv
<1> QED BY <1>1, PurchaseInvariant, PTL

\* A commit finds its purchase open, and an approval undecided.
LEMMA CommitsFindOpen ==
  ASSUME PurchaseInv, NEW t \in Thread, pc[t] = "finish", End(t, "done"),
         NEW p, p = call[t].purchase
  PROVE  /\ request[p] \notin {"received", "cancelled"}
         /\ call[t].op = "approve" => approval[p] = "pending"
<1>1. /\ p \in Purchase /\ Agrees(p) /\ Knows(t) /\ request[p] \in RequestStatus
      /\ call[t].op \in {"submit", "approve", "order", "ship", "cancel", "receive"}
  BY Committing, CallFields DEF PurchaseInv, StagesAgree, TypeOK, Program
<1>2. CASE call[t].op = "receive"
  BY <1>1, <1>2 DEF Knows, LocksOrder, Agrees
<1>3. CASE call[t].op # "receive"
  <2>1. MayChange(t)
    BY <1>3, Committing
  <2>2. request[p] \notin {"received", "cancelled"}
    BY <1>1, <1>3, <2>1, ChangesFrom
  <2> QED BY <1>1, <2>2 DEF Knows, LocksApproval
<1> QED BY <1>2, <1>3

\* The action of DecisionsAreFinal for one purchase.
Final(p) ==
  /\ approval[p] \notin {"none", "pending"} => approval'[p] = approval[p]
  /\ request[p] \in {"received", "cancelled"} =>
       /\ request'[p] = request[p] /\ order'[p] = order[p]
       /\ run'[p] = run[p] /\ received'[p] = received[p]

LEMMA CommitsAreFinal ==
  ASSUME PurchaseInv, NEW t \in Thread, NEW q \in Purchase,
         \/ Submit(t) \/ Approve(t) \/ MarkOrdered(t) \/ MarkShipped(t)
         \/ Cancel(t) \/ Receive(t)
  PROVE  Final(q)
<1> PICK p : p = call[t].purchase
  OBVIOUS
<1>1. pc[t] = "finish" /\ End(t, "done")
  BY DEF Submit, Approve, MarkOrdered, MarkShipped, Cancel, Receive, Finishes
<1>2. request[p] \notin {"received", "cancelled"}
  BY <1>1, CommitsFindOpen
<1>3. Approve(t) => approval[p] = "pending"
  BY <1>1, CommitsFindOpen DEF Approve, Finishes
<1>4. q # p => /\ request'[q] = request[q] /\ order'[q] = order[q]
               /\ run'[q] = run[q] /\ received'[q] = received[q]
               /\ approval'[q] = approval[q]
  BY DEF Submit, Approve, MarkOrdered, MarkShipped, Cancel, Receive, SetRequest,
         SetOrder, SetRun, inventory, PurchaseInv, TypeOK
<1>5. approval[p] \notin {"none", "pending"} => approval'[p] = approval[p]
  BY <1>3 DEF Submit, Approve, MarkOrdered, MarkShipped, Cancel, Receive,
              PurchaseInv, TypeOK
<1> QED BY <1>2, <1>4, <1>5 DEF Final

LEMMA StepsAreFinal ==
  ASSUME PurchaseInv, Next, NEW q \in Purchase
  PROVE  Final(q)
<1>1. ASSUME NEW t \in Thread, NEW c \in Call, Begin(t, c) PROVE Final(q)
  BY <1>1 DEF Begin, Final, purchases, inventory
<1>2. ASSUME NEW t \in Thread, Work(t) PROVE Final(q)
  <2>1. CASE UNCHANGED <<purchases, inventory>>
    BY <2>1 DEF Final, purchases, inventory
  <2>2. CASE ExpireOnDecision(t) \/ Reject(t)
    BY <2>2 DEF ExpireOnDecision, Reject, MayDecide, Final, inventory, PurchaseInv,
                TypeOK
  <2>3. CASE \/ Submit(t) \/ Approve(t) \/ MarkOrdered(t) \/ MarkShipped(t)
             \/ Cancel(t) \/ Receive(t)
    BY <2>3, CommitsAreFinal
  <2> QED BY <1>2, <2>1, <2>2, <2>3
          DEF Work, RefuseDecision, LockApproval, LockRequest, RefuseChange, Replay,
              LookupMovement, LockOrder, RefuseReceipt, MissItem, LockItem,
              InsertItem, InsertMovement
<1>3. ASSUME NEW t \in Thread, Crash(t) PROVE Final(q)
  BY <1>3 DEF Crash, Final, purchases, inventory
<1>4. ASSUME NEW p \in Purchase, PassExpiry(p) PROVE Final(q)
  BY <1>4 DEF PassExpiry, Final, purchases, inventory
<1>5. CASE ExpireDue
  BY <1>5 DEF ExpireDue, Undecided, Final, inventory
<1> QED BY <1>1, <1>2, <1>3, <1>4, <1>5 DEF Next

\* No call changes a decision that has been made, and none takes up a purchase
\* that has been received or cancelled.
THEOREM DecisionsStayFinal == Spec => DecisionsAreFinal
<1>1. PurchaseInv /\ [Next]_vars =>
        [\A p \in Purchase :
           /\ approval[p] \notin {"none", "pending"} => approval'[p] = approval[p]
           /\ request[p] \in {"received", "cancelled"} =>
                /\ request'[p] = request[p] /\ order'[p] = order[p]
                /\ run'[p] = run[p] /\ received'[p] = received[p]]_vars
  BY StepsAreFinal DEF Final
<1> QED BY <1>1, PurchaseInvariant, PTL DEF Spec, DecisionsAreFinal

(***************************************************************************)
(* The transactions implement the purchase book                            *)
(***************************************************************************)

\* The unique keys that the transaction of a goods receipt holds: that of its
\* movement and that of its inventory row.
HoldsKey(s) == pc[s] \in {"request", "finish"} /\ call[s].op = "receive"
HoldsPlace(s) ==
  /\ call[s].op = "receive"
  /\ \/ pc[s] \in {"movement", "request", "finish"}
     \/ pc[s] = "insert" /\ ~ call[s].inserts

\* What it holds is its own: the key has not been booked, the row it inserts
\* does not exist, and no other receipt holds the same.
Fresh(s) ==
  /\ HoldsKey(s) => ~ KeyTaken(call[s].key)
  /\ HoldsPlace(s) /\ call[s].inserts => stock[call[s].place] = NoStock
Separate(s, t) ==
  /\ HoldsKey(s) /\ HoldsKey(t) => call[s].key # call[t].key
  /\ HoldsPlace(s) /\ HoldsPlace(t) => call[s].place # call[t].place
BookingInv ==
  /\ \A s \in Thread : Fresh(s)
  /\ \A s, t \in Thread : s # t => Separate(s, t)

\* A step of t that writes neither stock nor movements.
LEMMA BookingMoves ==
  ASSUME BookingInv, NEW t \in Thread, UNCHANGED <<stock, movements>>,
         \A s \in Thread \ {t} : pc'[s] = pc[s] /\ call'[s] = call[s],
         Fresh(t)',
         HoldsKey(t)' => \A s \in Thread \ {t} :
                           HoldsKey(s) => call[s].key # call'[t].key,
         HoldsPlace(t)' => \A s \in Thread \ {t} :
                             HoldsPlace(s) => call[s].place # call'[t].place
  PROVE  BookingInv'
<1>1. \A s \in Thread \ {t} : /\ HoldsKey(s)' = HoldsKey(s)
                             /\ HoldsPlace(s)' = HoldsPlace(s)
  BY DEF HoldsKey, HoldsPlace
<1>2. ASSUME NEW s \in Thread \ {t} PROVE Fresh(s)'
  <2>1. Fresh(s)
    BY DEF BookingInv
  <2> QED BY <1>1, <2>1 DEF Fresh, KeyTaken, Booked
<1>3. ASSUME NEW s \in Thread, NEW u \in Thread, s # u PROVE Separate(s, u)'
  <2>1. CASE s # t /\ u # t
    <3>1. Separate(s, u)
      BY <1>3 DEF BookingInv
    <3> QED BY <1>1, <2>1, <3>1 DEF Separate
  <2>2. CASE s = t
    BY <1>1, <1>3, <2>2 DEF Separate
  <2>3. CASE u = t
    BY <1>1, <1>3, <2>3 DEF Separate
  <2> QED BY <2>1, <2>2, <2>3
<1> QED BY <1>2, <1>3 DEF BookingInv

\* ... in particular one that leaves t without anything.
LEMMA LetsGo ==
  ASSUME BookingInv, NEW t \in Thread, UNCHANGED <<stock, movements>>,
         \A s \in Thread \ {t} : pc'[s] = pc[s] /\ call'[s] = call[s],
         ~ HoldsKey(t)', ~ HoldsPlace(t)'
  PROVE  BookingInv'
<1>1. Fresh(t)'
  BY DEF Fresh
<1> QED BY <1>1, BookingMoves

\* A step of t to the place l with the call that it has.
LEMMA GoesTo ==
  ASSUME PurchaseInv, NEW t \in Thread, NEW l, Goto(t, l)
  PROVE  /\ pc'[t] = l /\ call'[t] = call[t]
         /\ \A s \in Thread \ {t} : pc'[s] = pc[s] /\ call'[s] = call[s]
  BY DEF PurchaseInv, TypeOK, Goto

LEMMA EndsBooking ==
  ASSUME PurchaseInv, BookingInv, NEW t \in Thread, NEW a, End(t, a),
         UNCHANGED <<stock, movements>>
  PROVE  BookingInv'
<1>1. /\ pc'[t] = "idle"
      /\ \A s \in Thread \ {t} : pc'[s] = pc[s] /\ call'[s] = call[s]
  BY DEF PurchaseInv, TypeOK, End
<1>2. ~ HoldsKey(t)' /\ ~ HoldsPlace(t)'
  BY <1>1 DEF HoldsKey, HoldsPlace
<1> QED BY <1>1, <1>2, LetsGo

LEMMA IntegrityBooking ==
  ASSUME PurchaseInv, BookingInv, NEW t \in Thread, Integrity(t),
         UNCHANGED <<stock, movements>>
  PROVE  BookingInv'
<1>1. CASE call[t].retried
  BY <1>1, EndsBooking DEF Integrity
<1>2. CASE ~ call[t].retried
  <2>1. /\ pc'[t] = "lookup"
        /\ \A s \in Thread \ {t} : pc'[s] = pc[s] /\ call'[s] = call[s]
    BY <1>2 DEF PurchaseInv, TypeOK, Integrity
  <2>2. ~ HoldsKey(t)' /\ ~ HoldsPlace(t)'
    BY <2>1 DEF HoldsKey, HoldsPlace
  <2> QED BY <2>1, <2>2, LetsGo
<1> QED BY <1>1, <1>2

LEMMA BeginBooking ==
  ASSUME PurchaseInv, BookingInv, NEW t \in Thread, NEW c \in Call, Begin(t, c)
  PROVE  BookingInv'
<1>1. /\ First(c.op) = "request" => c.op # "receive"
      /\ First(c.op) \in {"lookup", "approval", "request"}
  BY CallFields DEF First, Decision
<1>2. /\ pc'[t] = First(c.op) /\ call'[t] = c
      /\ \A s \in Thread \ {t} : pc'[s] = pc[s] /\ call'[s] = call[s]
      /\ UNCHANGED <<stock, movements>>
  BY DEF PurchaseInv, TypeOK, Begin, inventory
<1>3. ~ HoldsKey(t)' /\ ~ HoldsPlace(t)'
  BY <1>1, <1>2 DEF HoldsKey, HoldsPlace
<1> QED BY <1>2, <1>3, LetsGo

LEMMA MissItemBooking ==
  ASSUME PurchaseInv, BookingInv, NEW t \in Thread, MissItem(t)
  PROVE  BookingInv'
<1>1. call[t] \in Call /\ call[t].op = "receive"
  BY Active DEF PurchaseInv, MissItem, Program
<1>2. [call[t] EXCEPT !.inserts = TRUE].inserts
  BY <1>1 DEF Call, Decision
<1>3. /\ pc'[t] = "insert" /\ call'[t].inserts
      /\ \A s \in Thread \ {t} : pc'[s] = pc[s] /\ call'[s] = call[s]
      /\ UNCHANGED <<stock, movements>>
  BY <1>2 DEF PurchaseInv, TypeOK, MissItem, inventory
<1>4. ~ HoldsKey(t)' /\ ~ HoldsPlace(t)'
  BY <1>3 DEF HoldsKey, HoldsPlace
<1> QED BY <1>3, <1>4, LetsGo

\* The row is locked, or its insert is alone.
LEMMA PlaceIsFree ==
  ASSUME NEW t \in Thread, ~ PlaceLocked(t), NEW s \in Thread \ {t}, HoldsPlace(s)
  PROVE  call[s].place # call[t].place
  BY DEF PlaceLocked, HoldsPlace

LEMMA LockItemBooking ==
  ASSUME PurchaseInv, BookingInv, NEW t \in Thread, LockItem(t)
  PROVE  BookingInv'
<1>1. /\ ~ PlaceLocked(t) /\ stock[call[t].place] # NoStock
      /\ pc[t] = "item" /\ UNCHANGED <<stock, movements>>
  BY DEF LockItem, inventory
<1>2. CASE End(t, "refused")
  BY <1>1, <1>2, EndsBooking
<1>3. CASE Goto(t, "insert")
  <2>1. /\ pc'[t] = "insert" /\ call'[t] = call[t]
        /\ \A s \in Thread \ {t} : pc'[s] = pc[s] /\ call'[s] = call[s]
    BY <1>3, GoesTo
  <2>2. Fresh(t)' /\ ~ HoldsKey(t)'
    BY <2>1 DEF Fresh, HoldsKey, HoldsPlace
  <2>3. \A s \in Thread \ {t} : HoldsPlace(s) => call[s].place # call'[t].place
    BY <1>1, <2>1, PlaceIsFree
  <2> QED BY <1>1, <2>1, <2>2, <2>3, BookingMoves
<1> QED BY <1>2, <1>3 DEF LockItem

LEMMA InsertItemBooking ==
  ASSUME PurchaseInv, BookingInv, NEW t \in Thread, InsertItem(t)
  PROVE  BookingInv'
<1>1. pc[t] = "insert" /\ call[t].op = "receive" /\ UNCHANGED <<stock, movements>>
  BY DEF InsertItem, inventory, PurchaseInv, Program
<1>2. CASE Integrity(t)
  BY <1>1, <1>2, IntegrityBooking
<1>3. CASE Goto(t, "movement") /\ ~ call[t].inserts
  <2>1. /\ pc'[t] = "movement" /\ call'[t] = call[t]
        /\ \A s \in Thread \ {t} : pc'[s] = pc[s] /\ call'[s] = call[s]
    BY <1>3, GoesTo
  <2>2. Fresh(t)' /\ ~ HoldsKey(t)' /\ HoldsPlace(t)
    BY <1>1, <1>3, <2>1 DEF Fresh, HoldsKey, HoldsPlace
  <2>3. \A s \in Thread \ {t} : HoldsPlace(s) => call[s].place # call'[t].place
    BY <2>1, <2>2 DEF BookingInv, Separate
  <2> QED BY <1>1, <2>1, <2>2, <2>3, BookingMoves
<1>4. CASE /\ Goto(t, "movement") /\ ~ PlaceLocked(t)
           /\ stock[call[t].place] = NoStock
  <2>1. /\ pc'[t] = "movement" /\ call'[t] = call[t]
        /\ \A s \in Thread \ {t} : pc'[s] = pc[s] /\ call'[s] = call[s]
    BY <1>4, GoesTo
  <2>2. Fresh(t)' /\ ~ HoldsKey(t)'
    BY <1>1, <1>4, <2>1 DEF Fresh, HoldsKey
  <2>3. \A s \in Thread \ {t} : HoldsPlace(s) => call[s].place # call'[t].place
    BY <1>4, <2>1, PlaceIsFree
  <2> QED BY <1>1, <2>1, <2>2, <2>3, BookingMoves
<1> QED BY <1>2, <1>3, <1>4 DEF InsertItem

LEMMA InsertMovementBooking ==
  ASSUME PurchaseInv, BookingInv, NEW t \in Thread, InsertMovement(t)
  PROVE  BookingInv'
<1>1. /\ pc[t] = "movement" /\ call[t].op = "receive" /\ ~ KeyLocked(t)
      /\ UNCHANGED <<stock, movements>>
  BY DEF InsertMovement, inventory, PurchaseInv, Program
<1>2. CASE Integrity(t)
  BY <1>1, <1>2, IntegrityBooking
<1>3. CASE ~ Integrity(t)
  <2>1. PICK l \in {"request", "finish"} : Goto(t, l) /\ ~ KeyTaken(call[t].key)
    BY <1>3 DEF InsertMovement
  <2>2. /\ pc'[t] = l /\ call'[t] = call[t]
        /\ \A s \in Thread \ {t} : pc'[s] = pc[s] /\ call'[s] = call[s]
    BY <2>1, GoesTo
  <2>3. HoldsPlace(t) /\ Fresh(t)
    BY <1>1 DEF HoldsPlace, BookingInv
  <2>4. Fresh(t)'
    BY <1>1, <2>1, <2>2, <2>3 DEF Fresh, KeyTaken, Booked
  <2>5. ASSUME NEW s \in Thread \ {t}
        PROVE  /\ HoldsPlace(s) => call[s].place # call'[t].place
               /\ HoldsKey(s) => call[s].key # call'[t].key
    BY <1>1, <2>2, <2>3 DEF BookingInv, Separate, KeyLocked, HoldsKey
  <2> QED BY <1>1, <2>2, <2>4, <2>5, BookingMoves
<1> QED BY <1>2, <1>3

\* A receipt that goes on to mark_received keeps what it holds.
LEMMA LockRequestBooking ==
  ASSUME PurchaseInv, BookingInv, NEW t \in Thread, LockRequest(t)
  PROVE  BookingInv'
<1>1. /\ pc[t] = "request" /\ pc'[t] = "finish" /\ call'[t] = call[t]
      /\ \A s \in Thread \ {t} : pc'[s] = pc[s] /\ call'[s] = call[s]
      /\ UNCHANGED <<stock, movements>>
  BY GoesTo DEF LockRequest, inventory
<1>2. HoldsKey(t)' = HoldsKey(t) /\ HoldsPlace(t)' = HoldsPlace(t) /\ Fresh(t)
  BY <1>1 DEF HoldsKey, HoldsPlace, BookingInv
<1>3. Fresh(t)'
  BY <1>1, <1>2 DEF Fresh, KeyTaken, Booked
<1>4. \A s \in Thread \ {t} : Separate(s, t)
  BY DEF BookingInv
<1> QED BY <1>1, <1>2, <1>3, <1>4, BookingMoves DEF Separate

\* The commit of a receipt books its key and writes its inventory row.
LEMMA ReceiveBooking ==
  ASSUME PurchaseInv, BookingInv, NEW t \in Thread, Receive(t)
  PROVE  BookingInv'
<1> PICK c : c = call[t]
  OBVIOUS
<1>1. /\ pc[t] = "finish" /\ End(t, "done") /\ c.op = "receive"
  BY DEF Receive, Finishes
<1>2. /\ pc'[t] = "idle"
      /\ \A s \in Thread \ {t} : pc'[s] = pc[s] /\ call'[s] = call[s]
      /\ HoldsKey(t) /\ HoldsPlace(t)
  BY <1>1, Committing DEF HoldsKey, HoldsPlace
<1>3. /\ \A k : KeyTaken(k)' => KeyTaken(k) \/ k = c.key
      /\ \A i \in Place \ {c.place} : stock'[i] = stock[i]
  BY DEF Receive, KeyTaken, Booked, PurchaseInv, TypeOK
<1>4. \A s \in Thread \ {t} : /\ HoldsKey(s)' = HoldsKey(s)
                             /\ HoldsPlace(s)' = HoldsPlace(s)
  BY <1>2 DEF HoldsKey, HoldsPlace
<1>5. ~ HoldsKey(t)' /\ ~ HoldsPlace(t)'
  BY <1>2 DEF HoldsKey, HoldsPlace
<1>6. ASSUME NEW s \in Thread PROVE Fresh(s)'
  <2>1. CASE s = t
    BY <1>5, <2>1 DEF Fresh
  <2>2. CASE s # t
    <3>1. Fresh(s) /\ Separate(s, t)
      BY <2>2 DEF BookingInv
    <3>2. HoldsPlace(s) => call[s].place \in Place \ {c.place}
      <4>1. HoldsPlace(s) => call[s] \in Call /\ call[s].op = "receive"
        BY Active DEF HoldsPlace, PurchaseInv
      <4> QED BY <1>2, <3>1, <4>1, CallFields DEF Separate
    <3>3. HoldsKey(s) => call[s].key # c.key
      BY <1>2, <3>1 DEF Separate
    <3> QED BY <1>2, <1>3, <1>4, <2>2, <3>1, <3>2, <3>3 DEF Fresh
  <2> QED BY <2>1, <2>2
<1>7. ASSUME NEW s \in Thread, NEW u \in Thread, s # u PROVE Separate(s, u)'
  <2>1. CASE s = t \/ u = t
    BY <1>5, <2>1 DEF Separate
  <2>2. CASE s # t /\ u # t
    <3>1. Separate(s, u)
      BY <1>7 DEF BookingInv
    <3> QED BY <1>2, <1>4, <2>2, <3>1 DEF Separate
  <2> QED BY <2>1, <2>2
<1> QED BY <1>6, <1>7 DEF BookingInv

LEMMA WorkBooking ==
  ASSUME PurchaseInv, BookingInv, NEW t \in Thread, Work(t)
  PROVE  BookingInv'
<1>1. ASSUME NEW a, End(t, a), UNCHANGED inventory PROVE BookingInv'
  BY <1>1, EndsBooking DEF inventory
<1>2. CASE RefuseDecision(t) \/ ExpireOnDecision(t) \/ Reject(t)
           \/ RefuseChange(t) \/ RefuseReceipt(t)
  BY <1>1, <1>2 DEF RefuseDecision, ExpireOnDecision, Reject, RefuseChange,
                    RefuseReceipt
<1>3. CASE Submit(t) \/ Approve(t) \/ MarkOrdered(t) \/ MarkShipped(t) \/ Cancel(t)
  BY <1>1, <1>3 DEF Submit, Approve, MarkOrdered, MarkShipped, Cancel, Finishes
<1>4. CASE Replay(t)
  <2>1. PICK a : End(t, a)
    BY <1>4 DEF Replay
  <2> QED BY <1>1, <1>4, <2>1 DEF Replay
<1>5. CASE LockApproval(t)
  <2>1. /\ pc'[t] = "request" /\ call'[t] = call[t] /\ call[t].op = "approve"
        /\ \A s \in Thread \ {t} : pc'[s] = pc[s] /\ call'[s] = call[s]
        /\ UNCHANGED <<stock, movements>>
    BY <1>5, GoesTo DEF LockApproval, inventory
  <2>2. ~ HoldsKey(t)' /\ ~ HoldsPlace(t)'
    BY <2>1 DEF HoldsKey, HoldsPlace
  <2> QED BY <2>1, <2>2, LetsGo
<1>6. CASE LookupMovement(t) \/ LockOrder(t)
  <2>1. PICK l \in {"order", "item"} : Goto(t, l)
    BY <1>6 DEF LookupMovement, LockOrder
  <2>2. /\ pc'[t] = l
        /\ \A s \in Thread \ {t} : pc'[s] = pc[s] /\ call'[s] = call[s]
        /\ UNCHANGED <<stock, movements>>
    BY <1>6, <2>1, GoesTo DEF LookupMovement, LockOrder, inventory
  <2>3. ~ HoldsKey(t)' /\ ~ HoldsPlace(t)'
    BY <2>2 DEF HoldsKey, HoldsPlace
  <2> QED BY <2>2, <2>3, LetsGo
<1>7. CASE LockRequest(t)
  BY <1>7, LockRequestBooking
<1>8. CASE MissItem(t)
  BY <1>8, MissItemBooking
<1>9. CASE LockItem(t)
  BY <1>9, LockItemBooking
<1>10. CASE InsertItem(t)
  BY <1>10, InsertItemBooking
<1>11. CASE InsertMovement(t)
  BY <1>11, InsertMovementBooking
<1>12. CASE Receive(t)
  BY <1>12, ReceiveBooking
<1> QED BY <1>2, <1>3, <1>4, <1>5, <1>6, <1>7, <1>8, <1>9, <1>10, <1>11, <1>12
        DEF Work

LEMMA NextBooking == PurchaseInv /\ BookingInv /\ [Next]_vars => BookingInv'
<1> SUFFICES ASSUME PurchaseInv, BookingInv, [Next]_vars PROVE BookingInv'
  OBVIOUS
<1>1. ASSUME NEW t \in Thread, NEW c \in Call, Begin(t, c) PROVE BookingInv'
  BY <1>1, BeginBooking
<1>2. ASSUME NEW t \in Thread, Work(t) PROVE BookingInv'
  BY <1>2, WorkBooking
<1>3. ASSUME NEW t \in Thread, Crash(t) PROVE BookingInv'
  BY <1>3, EndsBooking DEF Crash, inventory
<1>4. CASE UNCHANGED <<pc, call, stock, movements>>
  BY <1>4 DEF BookingInv, Fresh, Separate, HoldsKey, HoldsPlace, KeyTaken, Booked
<1> QED BY <1>1, <1>2, <1>3, <1>4
        DEF Next, PassExpiry, ExpireDue, calls, inventory, vars

LEMMA InitBooking == Init => BookingInv
  BY DEF Init, BookingInv, Fresh, Separate, HoldsKey, HoldsPlace

\* Keys and inventory rows are held by one receipt at a time, and a held key
\* has not been booked.
THEOREM BookingInvariant == Spec => []BookingInv
  BY InitBooking, NextBooking, PurchaseInvariant, PTL DEF Spec

\* The stock that the book sees, and the keys it knows.
Shelf == [i \in Place |-> OnHand(i)]
Keys == {m.key : m \in movements}

LEMMA InventoryUnseen ==
  ASSUME UNCHANGED inventory
  PROVE  UNCHANGED <<received, Shelf, Keys>>
  BY DEF inventory, Shelf, Keys, OnHand

LEMMA AdvanceBooked ==
  ASSUME PurchaseInv, NEW t \in Thread,
         Submit(t) \/ Approve(t) \/ MarkOrdered(t) \/ MarkShipped(t)
  PROVE  Book!Advance(call[t].purchase)
<1> PICK p : p = call[t].purchase
  OBVIOUS
<1>1. /\ pc[t] = "finish" /\ End(t, "done") /\ UNCHANGED inventory
      /\ call[t].op \in {"submit", "approve", "order", "ship"}
      /\ request' = [request EXCEPT ![p] = Target[call[t].op]]
  BY DEF Submit, Approve, MarkOrdered, MarkShipped, Finishes, SetRequest
<1>2. p \in Purchase /\ MayChange(t) /\ request[p] \in RequestStatus
  BY <1>1, Committing DEF PurchaseInv, TypeOK
<1>3. /\ request[p] \in {"proposed", "awaiting_approval", "approved", "ordered"}
      /\ Target[call[t].op] = Book!Following(request[p])
  BY <1>1, <1>2, ChangesFrom DEF Target, Book!Following
<1>4. UNCHANGED <<received, Shelf, Keys>>
  BY <1>1, InventoryUnseen
<1> QED BY <1>1, <1>3, <1>4 DEF Book!Advance, Shelf, Keys

LEMMA CancelBooked ==
  ASSUME PurchaseInv, NEW t \in Thread, Cancel(t)
  PROVE  Book!Cancel(call[t].purchase)
<1> PICK p : p = call[t].purchase
  OBVIOUS
<1>1. /\ pc[t] = "finish" /\ End(t, "done") /\ UNCHANGED inventory
      /\ call[t].op = "cancel"
      /\ request' = [request EXCEPT ![p] = "cancelled"]
  BY DEF Cancel, Finishes, SetRequest, Target
<1>2. p \in Purchase /\ MayChange(t) /\ request[p] \in RequestStatus
  BY <1>1, Committing DEF PurchaseInv, TypeOK
<1>3. request[p] \in {"proposed", "awaiting_approval", "approved"}
  BY <1>1, <1>2, ChangesFrom
<1>4. UNCHANGED <<received, Shelf, Keys>>
  BY <1>1, InventoryUnseen
<1> QED BY <1>1, <1>3, <1>4 DEF Book!Cancel, Shelf, Keys

\* A receipt at an inventory row: its key is new, and the row holds its units.
LEMMA ReceiveShelves ==
  ASSUME PurchaseInv, BookingInv, NEW t \in Thread, Receive(t),
         NEW c, c = call[t]
  PROVE  LET p == c.purchase
             i == c.place
             k == c.key
             q == c.quantity
         IN
         /\ p \in Purchase /\ request[p] = "shipped"
         /\ q \in Nat \ {0} /\ q <= Ordered[p] - received[p]
         /\ k \in Key /\ i \in Place /\ k \notin Keys
         /\ received[p] \in Nat /\ Ordered[p] \in Nat /\ OnHand(i) \in Nat
         /\ \A j \in Place : OnHand(j)' = IF j = i THEN OnHand(j) + q ELSE OnHand(j)
         /\ received' = [received EXCEPT ![p] = @ + q]
<1> PICK p, i, k, q : p = c.purchase /\ i = c.place /\ k = c.key /\ q = c.quantity
  OBVIOUS
<1>1. /\ pc[t] = "finish" /\ End(t, "done") /\ c.op = "receive"
      /\ LocksOrder(t) /\ HoldsKey(t) /\ HoldsPlace(t)
  BY DEF Receive, Finishes, LocksOrder, HoldsKey, HoldsPlace
<1>2. /\ p \in Purchase /\ request[p] = "shipped"
      /\ q \in Nat \ {0} /\ q <= Ordered[p] - received[p]
      /\ k \in Key /\ i \in Place /\ c.inserts \in BOOLEAN
      /\ received[p] \in Nat /\ Ordered[p] \in Nat
  <2>1. /\ p \in Purchase /\ c \in Call /\ order[p] = "shipped" /\ Agrees(p)
        /\ q <= Ordered[p] - received[p] /\ request[p] \in RequestStatus
    BY <1>1, Committing DEF PurchaseInv, StagesAgree, TypeOK, Knows, Remaining
  <2>2. q \in Nat \ {0} /\ received[p] \in Nat /\ Ordered[p] \in Nat
    BY <1>1, <2>1, CallFields, ProcurementAssumption DEF PurchaseInv, TypeOK
  <2> QED BY <1>1, <2>1, <2>2, CallFields DEF Agrees, RequestStatus
<1>3. k \notin Keys /\ (c.inserts => stock[i] = NoStock)
  BY <1>1 DEF BookingInv, Fresh, KeyTaken, Booked, Keys
<1>4. ~ c.inserts => stock[i] \in Stock
  BY <1>1, <1>2 DEF PurchaseInv, Program, TypeOK
<1>5. OnHand(i) = IF c.inserts THEN 0 ELSE stock[i].onHand
  BY <1>2, <1>3, <1>4, NoValueAssumption DEF OnHand
<1>6. OnHand(i) \in Nat
  BY <1>2, <1>4, <1>5 DEF Stock
<1>7. stock' = [stock EXCEPT ![i] =
                  [product |-> p, onHand |-> OnHand(i) + q]]
  BY <1>5 DEF Receive
<1>8. [product |-> p, onHand |-> OnHand(i) + q] \in Stock
  BY <1>2, <1>6 DEF Stock
<1>9. \A j \in Place : OnHand(j)' = IF j = i THEN OnHand(j) + q ELSE OnHand(j)
  BY <1>2, <1>7, <1>8, NoValueAssumption DEF OnHand, PurchaseInv, TypeOK
<1>10. received' = [received EXCEPT ![p] = @ + q]
  BY DEF Receive
<1> QED BY <1>2, <1>3, <1>6, <1>9, <1>10

LEMMA ReceiveBooked ==
  ASSUME PurchaseInv, BookingInv, NEW t \in Thread, Receive(t)
  PROVE  Book!Next
<1> PICK c : c = call[t]
  OBVIOUS
<1> PICK p, i, k, q : p = c.purchase /\ i = c.place /\ k = c.key /\ q = c.quantity
  OBVIOUS
<1>1. /\ p \in Purchase /\ request[p] = "shipped"
      /\ q \in Nat \ {0} /\ q <= Ordered[p] - received[p]
      /\ k \in Key /\ i \in Place /\ k \notin Keys
      /\ received[p] \in Nat /\ Ordered[p] \in Nat /\ OnHand(i) \in Nat
      /\ \A j \in Place : OnHand(j)' = IF j = i THEN OnHand(j) + q ELSE OnHand(j)
      /\ received' = [received EXCEPT ![p] = @ + q]
  BY ReceiveShelves
<1>2. q \in 1 .. Ordered[p] - received[p]
  BY <1>1
<1>3. Shelf' = [Shelf EXCEPT ![i] = @ + q]
  BY <1>1 DEF Shelf
<1>4. Keys' = Keys \cup {k}
  <2> DEFINE m == [key |-> c.key, purchase |-> c.purchase,
                   quantity |-> c.quantity, place |-> c.place]
  <2>1. movements' = movements \cup {m}
    BY DEF Receive
  <2>2. m.key = k
    OBVIOUS
  <2> HIDE DEF m
  <2> QED BY <2>1, <2>2 DEF Keys
<1>5. request' = [request EXCEPT ![p] =
                     IF q = Ordered[p] - received[p] THEN "received" ELSE "shipped"]
  <2>1. received[p] + q = Ordered[p] <=> q = Ordered[p] - received[p]
    BY <1>1
  <2>2. IF received[p] + q = Ordered[p]
        THEN request' = [request EXCEPT ![p] = "received"] ELSE request' = request
    BY DEF Receive, Finishes, Completes, SetRequest, Target
  <2> QED BY <1>1, <2>1, <2>2 DEF PurchaseInv, TypeOK
<1>6. Book!Receive(p, i, k)
  BY <1>1, <1>2, <1>3, <1>4, <1>5 DEF Book!Receive, Shelf, Keys
<1> QED BY <1>1, <1>6 DEF Book!Next

LEMMA InitBooked == Init => Book!Init
  BY DEF Init, Book!Init, OnHand

LEMMA StepBooked ==
  ASSUME PurchaseInv, BookingInv, [Next]_vars
  PROVE  [Book!Next]_(Book!vars)
<1>1. CASE UNCHANGED <<request, received, stock, movements>>
  <2>1. UNCHANGED <<received, Shelf, Keys>>
    BY <1>1, InventoryUnseen DEF inventory
  <2> QED BY <1>1, <2>1 DEF Book!vars, Shelf, Keys
<1>2. ASSUME NEW t \in Thread, pc[t] = "finish", End(t, "done")
      PROVE  call[t].purchase \in Purchase
  BY <1>2, Committing
<1>3. ASSUME NEW t \in Thread,
             Submit(t) \/ Approve(t) \/ MarkOrdered(t) \/ MarkShipped(t)
      PROVE  Book!Next
  <2>1. call[t].purchase \in Purchase
    BY <1>2, <1>3 DEF Submit, Approve, MarkOrdered, MarkShipped, Finishes
  <2> QED BY <1>3, <2>1, AdvanceBooked DEF Book!Next
<1>4. ASSUME NEW t \in Thread, Cancel(t) PROVE Book!Next
  <2>1. call[t].purchase \in Purchase
    BY <1>2, <1>4 DEF Cancel, Finishes
  <2> QED BY <1>4, <2>1, CancelBooked DEF Book!Next
<1>5. ASSUME NEW t \in Thread, Receive(t) PROVE Book!Next
  BY <1>5, ReceiveBooked
<1> QED BY <1>1, <1>3, <1>4, <1>5
        DEF Next, Work, Begin, RefuseDecision, ExpireOnDecision, Reject,
            LockApproval, LockRequest, RefuseChange, Replay, LookupMovement,
            LockOrder, RefuseReceipt, MissItem, LockItem, InsertItem,
            InsertMovement, Crash, PassExpiry, ExpireDue, vars, purchases, inventory

\* However the calls interleave, wait, repeat and fail, each commit is one step
\* of the book or none: a purchase goes through its stages one by one, and what
\* is received for it, each key once, adds up to its order and to the stock.
THEOREM ProcurementKeepsTheBook == Spec => ImplementsBook
<1>1. PurchaseInv /\ BookingInv /\ [Next]_vars => [Book!Next]_(Book!vars)
  BY StepBooked
<1> QED BY <1>1, InitBooked, PurchaseInvariant, BookingInvariant, PTL
        DEF Spec, ImplementsBook, Book!Spec

(***************************************************************************)
(* The ledger of goods receipts adds up.                                   *)
(***************************************************************************)
LedgerInv == IsFiniteSet(movements) /\ ReceiptsAddUp

LEMMA UnitsOfNone == Units({}) = 0
  BY SumEmpty DEF Units

\* Another movement adds its units.
LEMMA UnitsAdd ==
  ASSUME NEW M \in SUBSET Movement, IsFiniteSet(M),
         NEW m \in Movement, m \notin M
  PROVE  Units(M) \in Int /\ Units(M \cup {m}) = Units(M) + m.quantity
<1> DEFINE N == M \cup {m}
           f == [n \in M |-> n.quantity]
           g == [n \in N |-> n.quantity]
<1>1. /\ \A n \in M : f[n] \in Int /\ g[n] \in Int /\ f[n] = g[n]
      /\ g[m] \in Int /\ g[m] = m.quantity
  BY DEF Movement
<1>2. Units(M) = SumFunctionOnSet(f, M) /\ Units(N) = SumFunctionOnSet(g, N)
  BY DEF Units
<1> HIDE DEF f, g
<1>3. SumFunctionOnSet(f, M) \in Int
  BY <1>1, SumInt
<1>4. SumFunctionOnSet(f, M) = SumFunctionOnSet(g, M)
  BY <1>1, SumSame
<1>5. SumFunctionOnSet(g, N) = g[m] + SumFunctionOnSet(g, M)
  BY <1>1, SumAdd
<1> QED BY <1>1, <1>2, <1>3, <1>4, <1>5

LEMMA ReceiveAddsUp ==
  ASSUME PurchaseInv, BookingInv, LedgerInv, NEW t \in Thread, Receive(t)
  PROVE  LedgerInv'
<1> PICK c : c = call[t]
  OBVIOUS
<1> DEFINE m == [key |-> c.key, purchase |-> c.purchase,
                 quantity |-> c.quantity, place |-> c.place]
<1>1. /\ c.purchase \in Purchase /\ c.key \notin Keys /\ c.place \in Place
      /\ c.quantity \in Nat /\ received[c.purchase] \in Nat
      /\ \A j \in Place :
           OnHand(j)' = IF j = c.place THEN OnHand(j) + c.quantity ELSE OnHand(j)
      /\ received' = [received EXCEPT ![c.purchase] = @ + c.quantity]
  BY ReceiveShelves
<1>2. m \in Movement
  <2>1. pc[t] = "finish" /\ c.op = "receive" /\ c \in Call
    BY Committing DEF Receive, Finishes
  <2> QED BY <2>1, CallFields DEF Movement
<1>3. movements' = movements \cup {m} /\ movements \in SUBSET Movement
  BY DEF Receive, PurchaseInv, TypeOK
<1>4. /\ m.key = c.key /\ m.purchase = c.purchase
      /\ m.quantity = c.quantity /\ m.place = c.place
  OBVIOUS
<1> HIDE DEF m
<1>5. m \notin movements
  BY <1>1, <1>4 DEF Keys
<1>6. IsFiniteSet(movements) /\ IsFiniteSet(movements')
  BY <1>3, FS_AddElement DEF LedgerInv
<1>7. ASSUME NEW p \in Purchase
      PROVE  received'[p] = Units({n \in movements' : n.purchase = p})
  <2> DEFINE M == {n \in movements : n.purchase = p}
             N == {n \in movements' : n.purchase = p}
  <2>1. M \in SUBSET Movement /\ IsFiniteSet(M) /\ m \notin M
    BY <1>3, <1>5, <1>6, FS_Subset
  <2>2. received[p] = Units(M)
    BY DEF LedgerInv, ReceiptsAddUp
  <2>3. CASE p = c.purchase
    <3>1. N = M \cup {m}
      BY <1>3, <1>4, <2>3
    <3>2. Units(M \cup {m}) = Units(M) + m.quantity
      BY <1>2, <2>1, UnitsAdd
    <3>3. received'[p] = received[p] + c.quantity
      BY <1>1, <2>3 DEF PurchaseInv, TypeOK
    <3> QED BY <1>4, <2>2, <3>1, <3>2, <3>3
  <2>4. CASE p # c.purchase
    <3>1. N = M
      BY <1>3, <1>4, <2>4
    <3>2. received'[p] = received[p]
      BY <1>1, <2>4 DEF PurchaseInv, TypeOK
    <3> QED BY <2>2, <3>1, <3>2
  <2> QED BY <2>3, <2>4
<1>8. ASSUME NEW i \in Place
      PROVE  OnHand(i)' = Units({n \in movements' : n.place = i})
  <2> DEFINE M == {n \in movements : n.place = i}
             N == {n \in movements' : n.place = i}
  <2>1. M \in SUBSET Movement /\ IsFiniteSet(M) /\ m \notin M
    BY <1>3, <1>5, <1>6, FS_Subset
  <2>2. OnHand(i) = Units(M)
    BY DEF LedgerInv, ReceiptsAddUp
  <2>3. CASE i = c.place
    <3>1. N = M \cup {m}
      BY <1>3, <1>4, <2>3
    <3>2. Units(M \cup {m}) = Units(M) + m.quantity
      BY <1>2, <2>1, UnitsAdd
    <3> QED BY <1>1, <1>4, <2>2, <2>3, <3>1, <3>2
  <2>4. CASE i # c.place
    <3>1. N = M
      BY <1>3, <1>4, <2>4
    <3> QED BY <1>1, <2>2, <2>4, <3>1
  <2> QED BY <2>3, <2>4
<1>9. ASSUME NEW n \in movements', NEW o \in movements', n.key = o.key
      PROVE  n = o
  <2>1. CASE n = m \/ o = m
    BY <1>1, <1>3, <1>4, <1>9, <2>1 DEF Keys
  <2>2. CASE n \in movements /\ o \in movements
    BY <1>9, <2>2 DEF LedgerInv, ReceiptsAddUp
  <2> QED BY <1>3, <2>1, <2>2
<1> QED BY <1>6, <1>7, <1>8, <1>9 DEF LedgerInv, ReceiptsAddUp, OnHand

LEMMA LedgerUnseen ==
  ASSUME LedgerInv, UNCHANGED inventory
  PROVE  LedgerInv'
<1>1. UNCHANGED <<received, movements>> /\ \A i : OnHand(i)' = OnHand(i)
  BY DEF inventory, OnHand
<1> QED BY <1>1 DEF LedgerInv, ReceiptsAddUp, OnHand

LEMMA StepAddsUp ==
  ASSUME PurchaseInv, BookingInv, LedgerInv, [Next]_vars
  PROVE  LedgerInv'
<1>1. CASE UNCHANGED inventory
  BY <1>1, LedgerUnseen
<1>2. ASSUME NEW t \in Thread, Receive(t) PROVE LedgerInv'
  BY <1>2, ReceiveAddsUp
<1> QED BY <1>1, <1>2
        DEF Next, Work, Begin, RefuseDecision, ExpireOnDecision, Reject,
            LockApproval, LockRequest, RefuseChange, Submit, Approve,
            MarkOrdered, MarkShipped, Cancel, Replay, LookupMovement,
            LockOrder, RefuseReceipt, MissItem, LockItem, InsertItem,
            InsertMovement, Crash, PassExpiry, ExpireDue, vars, inventory

LEMMA InitAddsUp == Init => LedgerInv
<1> SUFFICES ASSUME Init PROVE LedgerInv
  OBVIOUS
<1>1. IsFiniteSet(movements) /\ movements = {}
  BY FS_EmptySet DEF Init
<1>2. ASSUME NEW p \in Purchase
      PROVE  received[p] = Units({m \in movements : m.purchase = p})
  <2>1. {m \in movements : m.purchase = p} = {}
    BY <1>1
  <2> QED BY <2>1, UnitsOfNone DEF Init
<1>3. ASSUME NEW i \in Place
      PROVE  OnHand(i) = Units({m \in movements : m.place = i})
  <2>1. {m \in movements : m.place = i} = {}
    BY <1>1
  <2> QED BY <2>1, UnitsOfNone DEF Init, OnHand
<1> QED BY <1>1, <1>2, <1>3 DEF LedgerInv, ReceiptsAddUp

\* However receipts of one key, of one purchase and at one place race, the
\* units received for a purchase and the stock at a place are the sums of their
\* movements in the ledger, and no key is booked twice.
THEOREM ReceiptsAlwaysAddUp == Spec => []ReceiptsAddUp
<1>1. PurchaseInv /\ BookingInv /\ LedgerInv /\ [Next]_vars => LedgerInv'
  BY StepAddsUp
<1>2. LedgerInv => ReceiptsAddUp
  BY DEF LedgerInv
<1> QED BY <1>1, <1>2, InitAddsUp, PurchaseInvariant, BookingInvariant, PTL DEF Spec
=============================================================================

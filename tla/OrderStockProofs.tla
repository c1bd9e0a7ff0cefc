-------------------------- MODULE OrderStockProofs --------------------------
(***************************************************************************)
(* For every set of threads, rows, orders and requests: OrderStock keeps   *)
(* its type invariant, never oversells, never rewrites an order, and       *)
(* implements StockBook: what is reserved is what the open orders hold,    *)
(* and the ledger of movements adds up to every balance.                   *)
(***************************************************************************)
EXTENDS OrderStock, Sums, FiniteSetTheorems, TLAPS

\* The quantity of available units is an integer.
LEMMA AvailableInt ==
  ASSUME NEW b \in Balance
  PROVE  Available(b) \in Int
  BY DEF Balance, Available

\* What a statement reads from an inventory row is a balance in order.
LEMMA VisibleBalanced ==
  ASSUME StockInv, NEW t \in Thread, NEW i \in Item
  PROVE  /\ Visible(t, i) \in Balance
         /\ Balanced(Visible(t, i))
  BY DEF StockInv, TypeOK, NoOversell, WorkBalanced, Visible

\* A transaction that ends without a commit leaves the invariant intact.
LEMMA RollbackInv ==
  ASSUME StockInv, NEW t \in Thread, NEW a \in Answer, Rollback(t, a)
  PROVE  StockInv'
  <1> USE DEF Rollback, Reply, Forget, db, StockInv
  <1>1. TypeOK'
    BY DEF TypeOK, Label, Balance, NoBalance
  <1>2. NoOversell'
    BY DEF NoOversell, TypeOK
  <1>3. LocksExclusive' /\ WorkBalanced'
    BY DEF LocksExclusive, WorkBalanced, TypeOK
  <1>4. RowsAllocated'
    BY DEF RowsAllocated, TypeOK
  <1>5. Control'
    BY DEF Control, ControlOf, TypeOK, NoRequest, AdjustRequest, IngestRequest, StatusRequest
  <1> QED BY <1>1, <1>2, <1>3, <1>4, <1>5

\* So does the retry after an IntegrityError, when it starts the command of
\* the request again.
LEMMA IntegrityInv ==
  ASSUME StockInv, NEW t \in Thread, NEW first \in Label, Integrity(t, first),
         \/ first = "lookupOrder" /\ req[t] \in IngestRequest
         \/ first = "lookupMovement" /\ req[t] \in AdjustRequest
  PROVE  StockInv'
  <1>1. CASE attempt[t] = 2
    BY <1>1, RollbackInv DEF Integrity, Answer
  <1>2. CASE attempt[t] # 2
    <2>0. /\ attempt' = [attempt EXCEPT ![t] = 2]
          /\ pc' = [pc EXCEPT ![t] = first]
          /\ Forget(t)
          /\ UNCHANGED <<inventory, orders, movements, req, answer>>
      BY <1>2 DEF Integrity
    <2> USE <2>0 DEF Forget, StockInv
    <2>1. TypeOK'
      BY DEF TypeOK, Label, Balance, NoBalance
    <2>2. NoOversell'
      BY DEF NoOversell, TypeOK
    <2>3. LocksExclusive' /\ WorkBalanced'
      BY DEF LocksExclusive, WorkBalanced, TypeOK
    <2>4. RowsAllocated'
      BY DEF RowsAllocated, TypeOK
    <2>5. Control'
      BY DEF Control, ControlOf, TypeOK, NoRequest, AdjustRequest, IngestRequest,
             StatusRequest
    <2> QED BY <2>1, <2>2, <2>3, <2>4, <2>5
  <1> QED BY <1>1, <1>2

\* A new request only sets the request and the label of its thread.
LEMMA BeginInv ==
  ASSUME StockInv, NEW t \in Thread, NEW r, NEW label, Begin(t, r, label),
         \/ r \in IngestRequest /\ label = "lookupOrder"
         \/ r \in StatusRequest /\ label = "lockOrder"
         \/ r \in AdjustRequest /\ label = "lookupMovement"
  PROVE  StockInv'
  <1>0. r \in Request /\ label \in Label \ {"commit"}
    BY DEF Request, Label
  <1>1. /\ pc[t] = "idle"
        /\ req' = [req EXCEPT ![t] = r]
        /\ pc' = [pc EXCEPT ![t] = label]
        /\ answer' = [answer EXCEPT ![t] = "none"]
        /\ UNCHANGED <<inventory, orders, movements, attempt, todo, line, cand,
                       before, locked, work, row, staged>>
    BY DEF Begin, tx
  <1>a. row[t] = NoOrder
    BY <1>1 DEF StockInv, Control, ControlOf
  <1> USE <1>0, <1>1, <1>a DEF StockInv
  <1>2. TypeOK'
    BY DEF TypeOK, Answer
  <1>3. NoOversell' /\ LocksExclusive' /\ WorkBalanced'
    BY DEF NoOversell, LocksExclusive, WorkBalanced, TypeOK
  <1>4. RowsAllocated'
    BY DEF RowsAllocated, TypeOK
  <1>5. Control'
    BY DEF Control, ControlOf, TypeOK, NoRequest, AdjustRequest, IngestRequest,
           StatusRequest
  <1> QED BY <1>2, <1>3, <1>4, <1>5

\* The SELECTs of an ingestion end the request or go on.
LEMMA LookupInv ==
  ASSUME StockInv, NEW t \in Thread,
         LookupOrder(t) \/ LookupEvent(t) \/ LookupMovement(t)
  PROVE  StockInv'
  <1>1. CASE \E a \in Answer : Rollback(t, a)
    BY <1>1, RollbackInv
  <1>2. CASE ~ \E a \in Answer : Rollback(t, a)
    <2>1. /\ \/ req[t] \in IngestRequest /\ pc[t] \in {"lookupOrder", "lookupEvent"}
             \/ req[t] \in AdjustRequest /\ pc[t] = "lookupMovement"
          /\ \/ req[t] \in IngestRequest
                /\ pc' = [pc EXCEPT ![t] = "lookupEvent"]
             \/ req[t] \in IngestRequest
                /\ pc' = [pc EXCEPT ![t] = "insertOrder"]
             \/ req[t] \in AdjustRequest
                /\ pc' = [pc EXCEPT ![t] = "lockItem"]
          /\ UNCHANGED <<inventory, orders, movements, req, attempt, answer>>
          /\ UNCHANGED <<todo, line, cand, before, locked, work, row, staged>>
      BY <1>2 DEF LookupOrder, LookupEvent, LookupMovement, Goto, tx, Answer,
                  StockInv, Control, ControlOf
    <2> USE <2>1 DEF StockInv
    <2>2. TypeOK'
      BY DEF TypeOK, Label
    <2>3. NoOversell' /\ LocksExclusive' /\ WorkBalanced' /\ RowsAllocated'
      BY DEF NoOversell, LocksExclusive, WorkBalanced, RowsAllocated
    <2>4. Control'
      BY DEF Control, ControlOf, TypeOK, AdjustRequest, IngestRequest
    <2> QED BY <2>2, <2>3, <2>4
  <1> QED BY <1>1, <1>2

\* The new order row has all its lines to do and none allocated.
LEMMA InsertOrderInv ==
  ASSUME StockInv, NEW t \in Thread, InsertOrder(t)
  PROVE  StockInv'
  <1> DEFINE w == req[t].hook
             new == [payload |-> w.payload, evt |-> w.evt,
                     status |-> FirstStatus[w.payload],
                     alloc |-> [l \in Line |-> NoItem]]
  <1>0. req[t] \in IngestRequest /\ w \in Webhook
    BY DEF InsertOrder, StockInv, Control, ControlOf, IngestRequest
  <1>1. CASE Integrity(t, "lookupOrder")
    BY <1>0, <1>1, IntegrityInv DEF Label
  <1>2. CASE ~ Integrity(t, "lookupOrder")
    <2>1. /\ row' = [row EXCEPT ![t] = new]
          /\ todo' = [todo EXCEPT ![t] = LinesOf[w.payload]]
          /\ pc' = [pc EXCEPT ![t] = "candidates"]
          /\ UNCHANGED <<inventory, orders, movements, req, attempt, answer>>
          /\ UNCHANGED <<line, cand, before, locked, work, staged>>
      BY <1>2 DEF InsertOrder, Goto
    <2>2. new \in OrderRow /\ new # NoOrder /\ LinesOf[w.payload] \in SUBSET Line
      BY <1>0, StockAssumption, OrderStockAssumption DEF OrderRow
    <2> HIDE DEF new
    <2> USE <2>1, <2>2 DEF StockInv
    <2>3. TypeOK'
      BY DEF TypeOK, Label
    <2>4. NoOversell' /\ LocksExclusive' /\ WorkBalanced'
      BY DEF NoOversell, LocksExclusive, WorkBalanced
    <2>5. RowsAllocated'
      BY <1>0 DEF RowsAllocated, TypeOK, new
    <2>6. Control'
      BY <1>0 DEF Control, ControlOf, TypeOK, AdjustRequest, IngestRequest, NoRequest,
                  StatusRequest
    <2> QED BY <2>3, <2>4, <2>5, <2>6
  <1> QED BY <1>1, <1>2

\* The order in which the candidates are tried is a sequence of rows.
LEMMA ByAvailabilitySeq ==
  ASSUME NEW t, NEW l \in Line, NEW s \in ByAvailability(t, l)
  PROVE  s \in Seq(Item)
  <1>1. Candidates[l] \subseteq Item /\ IsFiniteSet(Candidates[l])
    BY StockAssumption, FS_Subset
  <1>2. Cardinality(Candidates[l]) \in Nat
    BY <1>1, FS_CardinalityType
  <1>3. s \in [1 .. Cardinality(Candidates[l]) -> Item]
    BY <1>1 DEF ByAvailability
  <1> QED BY <1>2, <1>3

\* The statements that only read leave every table and lock alone.
LEMMA ReadInv ==
  ASSUME StockInv, NEW t \in Thread,
         SelectCandidates(t) \/ ReadBefore(t) \/ ReadItem(t)
  PROVE  StockInv'
  <1>1. CASE \E a \in Answer : Rollback(t, a)
    BY <1>1, RollbackInv
  <1>2. CASE ~ \E a \in Answer : Rollback(t, a)
    <2>1. PICK l \in Line \cup {NoItem}, s \in Seq(Item), n \in Int, label \in Label :
            /\ line' = [line EXCEPT ![t] = l]
            /\ cand' = [cand EXCEPT ![t] = s]
            /\ before' = [before EXCEPT ![t] = n]
            /\ pc' = [pc EXCEPT ![t] = label]
            /\ \/ /\ req[t] \in IngestRequest
                  /\ label \in {"readBefore", "reserve"}
                  /\ label = "reserve" => s # <<>>
               \/ req[t] \in StatusRequest /\ label = "moveItem"
            /\ l \in todo[t]
            /\ row[t] # NoOrder
            /\ UNCHANGED <<inventory, orders, movements, req, attempt, answer>>
            /\ UNCHANGED <<todo, locked, work, row, staged>>
      <3>1. CASE SelectCandidates(t)
        <4>0. PICK l \in todo[t] : \E s \in ByAvailability(t, l) :
                /\ line' = [line EXCEPT ![t] = l]
                /\ cand' = [cand EXCEPT ![t] = s]
          BY <3>1 DEF SelectCandidates
        <4>1. PICK s \in ByAvailability(t, l) :
                /\ line' = [line EXCEPT ![t] = l]
                /\ cand' = [cand EXCEPT ![t] = s]
          BY <4>0
        <4>2. l \in Line /\ s \in Seq(Item)
          BY ByAvailabilitySeq DEF StockInv, TypeOK
        <4>3. before' = [before EXCEPT ![t] = before[t]] /\ before[t] \in Int
          BY <3>1 DEF SelectCandidates, StockInv, TypeOK
        <4> QED BY <3>1, <4>1, <4>2, <4>3
                DEF SelectCandidates, Goto, StockInv, Control, ControlOf, Label
      <3>2. CASE ReadBefore(t)
        <4>1. cand[t] \in Seq(Item) /\ cand[t] # <<>>
          BY <1>2, <3>2 DEF ReadBefore, Answer, StockInv, TypeOK
        <4>2. Available(Visible(t, Head(cand[t]))) \in Int
          BY <4>1, VisibleBalanced, AvailableInt
        <4>3. /\ line' = [line EXCEPT ![t] = line[t]]
              /\ cand' = [cand EXCEPT ![t] = cand[t]]
          BY <1>2, <3>2 DEF ReadBefore, Answer, StockInv, TypeOK
        <4>4. line[t] \in todo[t] /\ line[t] \in Line \cup {NoItem}
          BY <3>2 DEF ReadBefore, StockInv, Control, ControlOf, TypeOK
        <4> QED BY <1>2, <3>2, <4>1, <4>2, <4>3, <4>4
                DEF ReadBefore, Answer, Goto, StockInv, Control, ControlOf, Label
      <3>3. CASE ReadItem(t)
        <4>0. req[t] \in StatusRequest /\ row[t] # NoOrder
          BY <3>3 DEF ReadItem, StockInv, Control, ControlOf
        <4>1. PICK l \in todo[t] :
                /\ line' = [line EXCEPT ![t] = l]
                /\ before' = [before EXCEPT ![t] =
                     Available(Visible(t, row[t].alloc[l]))]
          BY <3>3 DEF ReadItem
        <4>2. l \in Line /\ row[t].alloc[l] \in Item
          BY <4>0 DEF StockInv, TypeOK, RowsAllocated, IngestRequest, StatusRequest
        <4>3. Available(Visible(t, row[t].alloc[l])) \in Int
          BY <4>2, VisibleBalanced, AvailableInt
        <4>4. cand' = [cand EXCEPT ![t] = cand[t]] /\ cand[t] \in Seq(Item)
          BY <3>3 DEF ReadItem, StockInv, TypeOK
        <4> QED BY <3>3, <4>0, <4>1, <4>2, <4>3, <4>4 DEF ReadItem, Goto, Label
      <3> QED BY <3>1, <3>2, <3>3
    <2> USE <2>1 DEF StockInv
    <2>2. TypeOK'
      BY DEF TypeOK
    <2>3. NoOversell' /\ LocksExclusive' /\ WorkBalanced' /\ RowsAllocated'
      BY DEF NoOversell, LocksExclusive, WorkBalanced, RowsAllocated
    <2>4. Control'
      BY DEF Control, ControlOf, TypeOK, IngestRequest, StatusRequest, AdjustRequest,
             NoRequest
    <2> QED BY <2>2, <2>3, <2>4
  <1> QED BY <1>1, <1>2

\* A conditional UPDATE of a row that nobody else has locked, to a balance in
\* order, keeps the locks exclusive and the uncommitted rows in order.
LEMMA WriteKeeps ==
  ASSUME StockInv, NEW t \in Thread, NEW i \in Item, NEW new \in Balance,
         Balanced(new), ~ LockedByOther(t, i),
         NEW kind \in {"reservation", "release", "shipment", "adjustment"},
         NEW key \in (ExtId \X Line) \cup {a.key : a \in Adjustment},
         NEW delta \in Int, Write(t, i, new, kind, key, delta),
         UNCHANGED inventory
  PROVE  /\ locked' \in [Thread -> SUBSET Item]
         /\ work' \in [Thread -> [Item -> Balance]]
         /\ staged' \in [Thread -> SUBSET MovementRow]
         /\ NoOversell' /\ LocksExclusive' /\ WorkBalanced'
  <1>1. PICK m \in MovementRow :
          /\ locked' = [locked EXCEPT ![t] = @ \cup {i}]
          /\ work' = [work EXCEPT ![t][i] = new]
          /\ staged' = [staged EXCEPT ![t] = @ \cup {m}]
    <2> DEFINE low == LowStock(i, before[t], Available(new))
               crossed == /\ Available(Visible(t, i)) > Threshold[i]
                          /\ Threshold[i] >= Available(new)
    <2>1. low \in BOOLEAN /\ crossed \in BOOLEAN
      BY DEF LowStock
    <2>2. /\ locked' = [locked EXCEPT ![t] = @ \cup {i}]
          /\ work' = [work EXCEPT ![t][i] = new]
          /\ staged' = [staged EXCEPT ![t] =
               @ \cup {Movement(kind, key, i, delta, low, crossed)}]
      BY DEF Write
    <2> HIDE DEF low, crossed
    <2>3. Movement(kind, key, i, delta, low, crossed) \in MovementRow
      BY <2>1 DEF Movement, MovementRow
    <2> QED BY <2>2, <2>3
  <1>2. TypeOK /\ LocksExclusive /\ WorkBalanced /\ NoOversell
    BY DEF StockInv
  <1>3. /\ locked' \in [Thread -> SUBSET Item]
        /\ work' \in [Thread -> [Item -> Balance]]
        /\ staged' \in [Thread -> SUBSET MovementRow]
    BY <1>1, <1>2 DEF TypeOK
  <1>4. NoOversell'
    BY <1>2 DEF NoOversell
  <1>5. LocksExclusive'
    BY <1>1, <1>2 DEF LocksExclusive, LockedByOther, TypeOK
  <1>6. WorkBalanced'
    BY <1>1, <1>2 DEF WorkBalanced, TypeOK
  <1> QED BY <1>3, <1>4, <1>5, <1>6

\* Reserving takes available units only.
LEMMA ReserveInv ==
  ASSUME StockInv, NEW t \in Thread, Reserve(t)
  PROVE  StockInv'
  <1> DEFINE i == Head(cand[t])
             b == Visible(t, i)
             q == Quantity[line[t]]
             new == [b EXCEPT !.reserved = @ + q]
  <1>0. /\ pc[t] = "reserve"
        /\ req[t] \in IngestRequest
        /\ row[t] # NoOrder
        /\ line[t] \in todo[t]
        /\ cand[t] \in Seq(Item) /\ cand[t] # <<>>
        /\ line[t] \in Line /\ row[t] \in OrderRow
    BY DEF Reserve, StockInv, Control, ControlOf, TypeOK
  <1>1. i \in Item /\ Tail(cand[t]) \in Seq(Item)
    BY <1>0
  <1>2. q \in Nat \ {0}
    BY <1>0, StockAssumption
  <1>3. b \in Balance /\ Balanced(b)
    BY <1>1, VisibleBalanced
  <1> HIDE DEF i, b, q
  <1>4. CASE Available(b) < q
    <2>1. /\ pc' = [pc EXCEPT ![t] = "readBefore"]
          /\ cand' = [cand EXCEPT ![t] = Tail(@)]
          /\ before' = [before EXCEPT ![t] = 0]
          /\ UNCHANGED <<inventory, orders, movements, req, attempt, answer>>
          /\ UNCHANGED <<todo, line, locked, work, row, staged>>
      BY <1>2, <1>3, <1>4 DEF Reserve, Goto, i, b, q, Available, Balance
    <2> USE <1>0, <1>1, <2>1 DEF StockInv
    <2>2. TypeOK'
      BY DEF TypeOK, Label
    <2>3. NoOversell' /\ LocksExclusive' /\ WorkBalanced' /\ RowsAllocated'
      BY DEF NoOversell, LocksExclusive, WorkBalanced, RowsAllocated
    <2>4. Control'
      BY DEF Control, ControlOf, TypeOK, IngestRequest, StatusRequest, AdjustRequest,
             NoRequest
    <2> QED BY <2>2, <2>3, <2>4
  <1>5. CASE Available(b) >= q
    <2>1. /\ ~ LockedByOther(t, i)
          /\ Write(t, i, new, "reservation", <<req[t].hook.ext, line[t]>>, q)
          /\ row' = [row EXCEPT ![t].alloc[line[t]] = i]
          /\ cand' = [cand EXCEPT ![t] = <<>>]
          /\ todo' = [todo EXCEPT ![t] = todo[t] \ {line[t]}]
          /\ line' = [line EXCEPT ![t] = NoItem]
          /\ before' = [before EXCEPT ![t] = 0]
          /\ pc' = [pc EXCEPT ![t] = IF todo[t] \ {line[t]} = {}
                                     THEN "commit" ELSE "candidates"]
          /\ UNCHANGED <<inventory, orders, movements, req, attempt, answer>>
      BY <1>2, <1>3, <1>5 DEF Reserve, NextLine, Goto, i, b, q, Available, Balance
    <2>2. new \in Balance /\ Balanced(new)
      BY <1>2, <1>3, <1>5 DEF Balance, Balanced, Available
    <2>3. <<req[t].hook.ext, line[t]>> \in ExtId \X Line
      BY <1>0, OrderStockAssumption DEF IngestRequest
    <2> HIDE DEF new
    <2>4. /\ locked' \in [Thread -> SUBSET Item]
          /\ work' \in [Thread -> [Item -> Balance]]
          /\ staged' \in [Thread -> SUBSET MovementRow]
          /\ NoOversell' /\ LocksExclusive' /\ WorkBalanced'
      BY <1>1, <1>2, <2>1, <2>2, <2>3, WriteKeeps
    <2>5. row' \in [Thread -> OrderRow \cup {NoOrder}] /\ row'[t] # NoOrder
      <3>1. [row[t] EXCEPT !.alloc[line[t]] = i] \in OrderRow
        BY <1>0, <1>1 DEF OrderRow
      <3>2. row' = [row EXCEPT ![t] = [row[t] EXCEPT !.alloc[line[t]] = i]]
        BY <2>1
      <3> QED BY <3>1, <3>2, StockAssumption DEF StockInv, TypeOK
    <2>6. TypeOK'
      BY <1>0, <2>1, <2>4, <2>5 DEF StockInv, TypeOK, Label
    <2>7. RowsAllocated'
      BY <1>0, <1>1, <2>1, <2>5 DEF StockInv, RowsAllocated, TypeOK, OrderRow
    <2>8. Control'
      <3>1. \A u \in Thread \ {t} : locked'[u] = locked[u] /\ work'[u] = work[u]
        BY <2>1 DEF Write, StockInv, TypeOK
      <3> QED BY <1>0, <2>1, <2>5, <3>1
              DEF StockInv, Control, ControlOf, TypeOK, IngestRequest, StatusRequest,
                  AdjustRequest, NoRequest, Request
    <2> QED BY <2>4, <2>6, <2>7, <2>8 DEF StockInv
  <1> QED BY <1>2, <1>3, <1>4, <1>5 DEF Available, Balance

\* A status change works on a copy of the committed order.
LEMMA LockOrderInv ==
  ASSUME StockInv, NEW t \in Thread, LockOrder(t)
  PROVE  StockInv'
  <1> DEFINE o == orders[req[t].ext]
             s == req[t].target
             new == [o EXCEPT !.status = s]
             moved == IF MovesStock(s) THEN LinesOf[o.payload] ELSE {}
  <1>1. CASE \E a \in Answer : Rollback(t, a)
    BY <1>1, RollbackInv
  <1>2. CASE ~ \E a \in Answer : Rollback(t, a)
    <2>0. req[t] \in StatusRequest /\ req[t].ext \in ExtId /\ s \in Status
      BY OrderStockAssumption DEF LockOrder, StockInv, Control, ControlOf, StatusRequest
    <2>1. /\ o # NoOrder
          /\ todo' = [todo EXCEPT ![t] = moved]
          /\ pc' = [pc EXCEPT ![t] = IF moved = {} THEN "commit" ELSE "readItem"]
          /\ row' = [row EXCEPT ![t] = new]
          /\ UNCHANGED <<inventory, orders, movements, req, attempt, answer>>
          /\ UNCHANGED <<line, cand, before, locked, work, staged>>
      BY <1>2 DEF LockOrder, Goto, Answer
    <2>2. o \in OrderRow
      BY <2>0, <2>1 DEF StockInv, TypeOK
    <2>3. /\ new \in OrderRow /\ new # NoOrder
          /\ new.payload = o.payload /\ new.alloc = o.alloc
          /\ moved \in SUBSET Line /\ moved \subseteq LinesOf[o.payload]
      BY <2>0, <2>2, StockAssumption DEF OrderRow
    <2>4. \A l \in LinesOf[new.payload] : new.alloc[l] \in Item
      BY <2>0, <2>1, <2>3 DEF StockInv, RowsAllocated
    <2> HIDE DEF new, moved, o, s
    <2> USE <2>0, <2>1, <2>3 DEF StockInv
    <2>5. TypeOK'
      BY DEF TypeOK, Label
    <2>6. NoOversell' /\ LocksExclusive' /\ WorkBalanced'
      BY DEF NoOversell, LocksExclusive, WorkBalanced
    <2>7. RowsAllocated'
      BY <2>4 DEF RowsAllocated, TypeOK
    <2>8. Control'
      BY DEF Control, ControlOf, TypeOK, AdjustRequest, IngestRequest, NoRequest,
             StatusRequest, Request
    <2> QED BY <2>5, <2>6, <2>7, <2>8
  <1> QED BY <1>1, <1>2

\* Releasing and shipping take reserved units, which are on hand, and no line
\* of the order twice.
LEMMA MoveItemInv ==
  ASSUME StockInv, NEW t \in Thread, Release(t) \/ Ship(t)
  PROVE  StockInv'
  <1> DEFINE i == row[t].alloc[line[t]]
             b == Visible(t, i)
             q == Quantity[line[t]]
  <1>0. /\ pc[t] = "moveItem"
        /\ req[t] \in StatusRequest
        /\ row[t] # NoOrder /\ row[t] \in OrderRow
        /\ line[t] \in todo[t] /\ line[t] \in Line
    BY DEF Release, Ship, StockInv, Control, ControlOf, TypeOK
  <1>1. i \in Item
    BY <1>0 DEF StockInv, TypeOK, RowsAllocated, IngestRequest, StatusRequest
  <1>2. q \in Nat \ {0} /\ b \in Balance /\ Balanced(b)
    BY <1>0, <1>1, StockAssumption, VisibleBalanced
  <1> HIDE DEF i, b, q
  <1>3. CASE Rollback(t, "missing")
    BY <1>3, RollbackInv DEF Answer
  <1>4. CASE ~ Rollback(t, "missing")
    <2>1. PICK new \in Balance, kind \in {"release", "shipment"} :
            /\ Balanced(new)
            /\ ~ LockedByOther(t, i)
            /\ Write(t, i, new, kind, <<req[t].ext, line[t]>>, -q)
            /\ NextLine(t, "readItem")
            /\ UNCHANGED <<cand, row>>
      <3>1. CASE Release(t)
        <4>1. [b EXCEPT !.reserved = @ - q] \in Balance
              /\ (b.reserved >= q => Balanced([b EXCEPT !.reserved = @ - q]))
          BY <1>2 DEF Balance, Balanced
        <4> QED BY <1>4, <3>1, <4>1 DEF Release, i, b, q
      <3>2. CASE Ship(t)
        <4>1. LET n == [onHand |-> b.onHand - q, reserved |-> b.reserved - q]
              IN n \in Balance /\ (b.reserved >= q => Balanced(n))
          BY <1>2 DEF Balance, Balanced
        <4> QED BY <1>4, <3>2, <4>1 DEF Ship, i, b, q
      <3> QED BY <3>1, <3>2
    <2>2. /\ todo' = [todo EXCEPT ![t] = todo[t] \ {line[t]}]
          /\ line' = [line EXCEPT ![t] = NoItem]
          /\ before' = [before EXCEPT ![t] = 0]
          /\ pc' = [pc EXCEPT ![t] = IF todo[t] \ {line[t]} = {}
                                     THEN "commit" ELSE "readItem"]
          /\ UNCHANGED <<inventory, orders, movements, req, attempt, answer>>
      BY <2>1 DEF NextLine, Goto
    <2>3. <<req[t].ext, line[t]>> \in ExtId \X Line /\ -q \in Int
      BY <1>0, <1>2 DEF StatusRequest
    <2>4. /\ locked' \in [Thread -> SUBSET Item]
          /\ work' \in [Thread -> [Item -> Balance]]
          /\ staged' \in [Thread -> SUBSET MovementRow]
          /\ NoOversell' /\ LocksExclusive' /\ WorkBalanced'
      BY <1>1, <2>1, <2>2, <2>3, WriteKeeps
    <2>5. TypeOK'
      <3>1. /\ todo' \in [Thread -> SUBSET Line]
            /\ line' \in [Thread -> Line \cup {NoItem}]
            /\ before' \in [Thread -> Int]
        BY <2>2 DEF StockInv, TypeOK
      <3>2. pc' \in [Thread -> Label]
        BY <2>2 DEF StockInv, TypeOK, Label
      <3>3. UNCHANGED <<inventory, orders, movements, req, attempt, answer,
                        cand, row>>
        BY <2>1, <2>2
      <3> QED BY <2>4, <3>1, <3>2, <3>3 DEF StockInv, TypeOK
    <2>6. RowsAllocated'
      <3>1. \A u \in Thread : todo'[u] \subseteq todo[u] /\ row'[u] = row[u]
        BY <2>1, <2>2 DEF StockInv, TypeOK
      <3>2. \A u \in Thread \ {t} : todo'[u] = todo[u]
        BY <2>2 DEF StockInv, TypeOK
      <3>3. req[t] \notin IngestRequest
        BY <1>0 DEF IngestRequest, StatusRequest
      <3> QED BY <2>2, <3>1, <3>2, <3>3 DEF StockInv, RowsAllocated
    <2>7. Control'
      <3>1. \A u \in Thread \ {t} : locked'[u] = locked[u] /\ work'[u] = work[u]
        BY <2>1 DEF Write, StockInv, TypeOK
      <3>2. \/ pc'[t] = "commit" /\ todo'[t] = {}
            \/ pc'[t] = "readItem"
        BY <2>2 DEF StockInv, TypeOK
      <3>3. /\ req[t] \in Request
            /\ req[t] \notin IngestRequest \cup AdjustRequest \cup {NoRequest}
        BY <1>0 DEF Request, IngestRequest, StatusRequest, AdjustRequest, NoRequest
      <3>4. /\ \A u \in Thread \ {t} : pc'[u] = pc[u] /\ todo'[u] = todo[u]
                                     /\ line'[u] = line[u]
            /\ req' = req /\ row' = row /\ cand' = cand
        BY <2>1, <2>2 DEF StockInv, TypeOK
      <3>5. ControlOf(t)'
        BY <1>0, <3>2, <3>3, <3>4 DEF ControlOf
      <3>6. ASSUME NEW u \in Thread \ {t} PROVE ControlOf(u)'
        BY <3>1, <3>4 DEF StockInv, Control, ControlOf
      <3> QED BY <3>5, <3>6 DEF Control
    <2> QED BY <2>4, <2>5, <2>6, <2>7 DEF StockInv
  <1> QED BY <1>3, <1>4

\* A correction starts from the newest version of a row that it has locked.
LEMMA LockItemInv ==
  ASSUME StockInv, NEW t \in Thread, LockItem(t)
  PROVE  StockInv'
  <1> DEFINE i == req[t].adj.item
             d == req[t].adj.delta
             b == Visible(t, i)
  <1>0. /\ req[t] \in AdjustRequest /\ pc[t] = "lockItem"
        /\ i \in Item /\ d \in Int
    BY StockAssumption DEF LockItem, StockInv, Control, ControlOf, AdjustRequest
  <1>1. b \in Balance /\ Balanced(b) /\ Available(b) \in Int
    BY <1>0, VisibleBalanced, AvailableInt
  <1>2. CASE Rollback(t, "rejected")
    BY <1>2, RollbackInv DEF Answer
  <1>3. CASE ~ Rollback(t, "rejected")
    <2>1. /\ MayAdjust(b, d)
          /\ ~ LockedByOther(t, i)
          /\ locked' = [locked EXCEPT ![t] = {i}]
          /\ work' = [work EXCEPT ![t][i] = b]
          /\ before' = [before EXCEPT ![t] = Available(b)]
          /\ pc' = [pc EXCEPT ![t] = "adjust"]
          /\ UNCHANGED <<inventory, orders, movements, req, attempt, answer>>
          /\ UNCHANGED <<todo, line, cand, row, staged>>
      BY <1>3 DEF LockItem, Goto
    <2> HIDE DEF b, i, d
    <2> USE <1>0, <1>1, <2>1 DEF StockInv
    <2>2. TypeOK'
      BY DEF TypeOK, Label
    <2>3. NoOversell' /\ RowsAllocated'
      BY DEF NoOversell, RowsAllocated
    <2>4. LocksExclusive'
      BY DEF LocksExclusive, LockedByOther, TypeOK
    <2>5. WorkBalanced'
      BY DEF WorkBalanced, TypeOK
    <2>6. Control'
      <3>1. work'[t][i] = b /\ i \in locked'[t]
        BY DEF TypeOK
      <3>2. ControlOf(t)'
        BY <3>1 DEF Control, ControlOf, TypeOK, MayAdjust, i, d, AdjustRequest,
                    IngestRequest, StatusRequest, NoRequest
      <3>3. ASSUME NEW u \in Thread \ {t} PROVE ControlOf(u)'
        BY DEF Control, ControlOf, TypeOK
      <3> QED BY <3>2, <3>3 DEF Control
    <2> QED BY <2>2, <2>3, <2>4, <2>5, <2>6
  <1> QED BY <1>2, <1>3

\* It writes the balance that it has checked.
LEMMA AdjustInv ==
  ASSUME StockInv, NEW t \in Thread, Adjust(t)
  PROVE  StockInv'
  <1> DEFINE a == req[t].adj
             i == a.item
             b == Visible(t, i)
             new == [b EXCEPT !.onHand = @ + a.delta]
  <1>0. /\ req[t] \in AdjustRequest /\ pc[t] = "adjust"
        /\ a \in Adjustment
        /\ i \in Item /\ a.delta \in Int /\ a.key \in {x.key : x \in Adjustment}
    BY StockAssumption
       DEF Adjust, StockInv, Control, ControlOf, AdjustRequest
  <1>1. b \in Balance /\ Balanced(b) /\ MayAdjust(b, a.delta)
    BY <1>0, VisibleBalanced DEF StockInv, Control, ControlOf, Visible
  <1>2. CASE Integrity(t, "lookupMovement")
    BY <1>0, <1>2, IntegrityInv DEF Label
  <1>3. CASE ~ Integrity(t, "lookupMovement")
    <2>0. /\ Write(t, i, new, "adjustment", a.key, a.delta)
          /\ before' = [before EXCEPT ![t] = 0]
          /\ Goto(t, "commit")
          /\ UNCHANGED <<todo, line, cand, row>>
      BY <1>3 DEF Adjust
    <2>1. /\ before' = [before EXCEPT ![t] = 0]
          /\ pc' = [pc EXCEPT ![t] = "commit"]
          /\ UNCHANGED <<inventory, orders, movements, req, attempt, answer>>
          /\ UNCHANGED <<todo, line, cand, row>>
      BY <2>0 DEF Goto
    <2>2. new \in Balance /\ Balanced(new)
      BY <1>0, <1>1 DEF Balance, Balanced, MayAdjust
    <2>3. ~ LockedByOther(t, i)
      BY <1>0 DEF StockInv, Control, ControlOf, LocksExclusive, LockedByOther
    <2>4. todo[t] = {}
      BY <1>0 DEF StockInv, Control, ControlOf
    <2> HIDE DEF new, b, i, a
    <2>5. /\ locked' \in [Thread -> SUBSET Item]
          /\ work' \in [Thread -> [Item -> Balance]]
          /\ staged' \in [Thread -> SUBSET MovementRow]
          /\ NoOversell' /\ LocksExclusive' /\ WorkBalanced'
      BY <1>0, <2>0, <2>1, <2>2, <2>3, WriteKeeps
    <2>6. TypeOK'
      <3>1. before' \in [Thread -> Int] /\ pc' \in [Thread -> Label]
        BY <2>1 DEF StockInv, TypeOK, Label
      <3> QED BY <2>1, <2>5, <3>1 DEF StockInv, TypeOK
    <2>7. RowsAllocated'
      BY <2>1 DEF StockInv, RowsAllocated
    <2>8. Control'
      <3>1. \A u \in Thread \ {t} : locked'[u] = locked[u] /\ work'[u] = work[u]
        BY <2>0 DEF Write, StockInv, TypeOK
      <3>2. ControlOf(t)'
        <4>1. pc'[t] = "commit" /\ todo'[t] = {} /\ req'[t] = req[t]
              /\ row'[t] = NoOrder
          BY <1>0, <2>1, <2>4 DEF StockInv, TypeOK, Control, ControlOf
        <4> QED BY <1>0, <4>1 DEF ControlOf, Request
      <3>3. ASSUME NEW u \in Thread \ {t} PROVE ControlOf(u)'
        BY <2>1, <3>1 DEF StockInv, TypeOK, Control, ControlOf
      <3> QED BY <3>2, <3>3 DEF Control
    <2> QED BY <2>5, <2>6, <2>7, <2>8 DEF StockInv
  <1> QED BY <1>2, <1>3

\* A commit publishes balances in order and completely allocated orders.
LEMMA CommitInv ==
  ASSUME StockInv, NEW t \in Thread, Commit(t)
  PROVE  StockInv'
  <1>0. pc[t] = "commit" /\ todo[t] = {} /\ req[t] \in Request
    BY DEF Commit, StockInv, Control, ControlOf
  <1>1. /\ pc' = [pc EXCEPT ![t] = "idle"]
        /\ req' = [req EXCEPT ![t] = NoRequest]
        /\ attempt' = [attempt EXCEPT ![t] = 1]
        /\ answer' = [answer EXCEPT ![t] = "accepted"]
        /\ Forget(t)
    BY DEF Commit, Reply
  <1>2. \A i \in Item : inventory'[i] \in Balance /\ Balanced(inventory'[i])
    BY VisibleBalanced DEF Commit
  <1>3. inventory' \in [Item -> Balance] /\ NoOversell'
    <2>1. NoOversell'
      BY <1>2 DEF NoOversell
    <2>2. inventory' = [i \in Item |-> Visible(t, i)]
      BY DEF Commit
    <2>3. \A i \in Item : Visible(t, i) \in Balance
      BY VisibleBalanced
    <2> QED BY <2>1, <2>2, <2>3
  <1>4. \A e \in ExtId : \/ orders'[e] = orders[e]
                         \/ orders'[e] = row[t] /\ row[t] # NoOrder
    <2> DEFINE own == {e \in ExtId :
                         /\ row[t] # NoOrder
                         /\ e = IF req[t].op = "ingest"
                                THEN req[t].hook.ext ELSE req[t].ext}
    <2>1. orders' = [e \in ExtId |-> IF e \in own THEN row[t] ELSE orders[e]]
      BY DEF Commit
    <2>2. \A e \in own : row[t] # NoOrder
      OBVIOUS
    <2> HIDE DEF own
    <2> QED BY <2>1, <2>2
  <1>5. /\ orders' \in [ExtId -> OrderRow \cup {NoOrder}]
        /\ movements' \in SUBSET MovementRow
    <2>1. \A e \in ExtId : orders'[e] \in OrderRow \cup {NoOrder}
      BY <1>4 DEF StockInv, TypeOK
    <2>2. orders' = [e \in ExtId |-> orders'[e]]
      BY DEF Commit
    <2>3. movements' \in SUBSET MovementRow
      BY DEF Commit, StockInv, TypeOK
    <2> QED BY <2>1, <2>2, <2>3
  <1>6. TypeOK'
    <2>1. NoBalance \in Balance
      BY DEF NoBalance, Balance
    <2>2. /\ todo' \in [Thread -> SUBSET Line]
          /\ line' \in [Thread -> Line \cup {NoItem}]
          /\ cand' \in [Thread -> Seq(Item)]
          /\ before' \in [Thread -> Int]
          /\ locked' \in [Thread -> SUBSET Item]
          /\ work' \in [Thread -> [Item -> Balance]]
          /\ row' \in [Thread -> OrderRow \cup {NoOrder}]
          /\ staged' \in [Thread -> SUBSET MovementRow]
      BY <1>1, <2>1 DEF StockInv, TypeOK, Forget
    <2>3. /\ pc' \in [Thread -> Label]
          /\ req' \in [Thread -> Request \cup {NoRequest}]
          /\ attempt' \in [Thread -> {1, 2}]
          /\ answer' \in [Thread -> Answer]
      BY <1>1 DEF StockInv, TypeOK, Label, Answer
    <2> QED BY <1>3, <1>5, <2>2, <2>3 DEF TypeOK
  <1>7. LocksExclusive' /\ WorkBalanced'
    BY <1>1 DEF StockInv, TypeOK, Forget, LocksExclusive, WorkBalanced
  <1>8. RowsAllocated'
    <2>1. row[t] # NoOrder =>
            \A l \in LinesOf[row[t].payload] : row[t].alloc[l] \in Item
      BY <1>0 DEF StockInv, RowsAllocated
    <2>2. ASSUME NEW e \in ExtId, orders'[e] # NoOrder
          PROVE  \A l \in LinesOf[orders'[e].payload] :
                   orders'[e].alloc[l] \in Item
      BY <1>4, <2>1, <2>2 DEF StockInv, RowsAllocated
    <2>3. ASSUME NEW u \in Thread, row'[u] # NoOrder
          PROVE  u # t /\ row'[u] = row[u] /\ todo'[u] = todo[u]
                 /\ req'[u] = req[u]
      BY <1>1, <2>3 DEF Forget, StockInv, TypeOK
    <2>4. ASSUME NEW u \in Thread, row'[u] # NoOrder
          PROVE  /\ todo'[u] \subseteq LinesOf[row'[u].payload]
                 /\ \A l \in LinesOf[row'[u].payload] :
                      \/ row'[u].alloc[l] \in Item
                      \/ l \in todo'[u] /\ req'[u] \in IngestRequest
      BY <2>3, <2>4 DEF StockInv, RowsAllocated
    <2> QED BY <2>2, <2>4 DEF RowsAllocated
  <1>9. Control'
    <2>1. ControlOf(t)'
      BY <1>1 DEF StockInv, TypeOK, Forget, ControlOf
    <2>2. ASSUME NEW u \in Thread \ {t} PROVE ControlOf(u)'
      BY <1>1 DEF StockInv, TypeOK, Forget, Control, ControlOf
    <2> QED BY <2>1, <2>2 DEF Control
  <1> QED BY <1>3, <1>6, <1>7, <1>8, <1>9 DEF StockInv

\* No thread has begun.
LEMMA InitInv ==
  ASSUME Init
  PROVE  StockInv
  <1> USE DEF Init, StockInv
  <1>1. TypeOK
    BY StockAssumption
       DEF TypeOK, Balance, NoBalance, Label, Answer, NoRequest
  <1>2. NoOversell /\ LocksExclusive /\ WorkBalanced
    BY StockAssumption DEF NoOversell, Balanced, LocksExclusive, WorkBalanced
  <1>3. RowsAllocated
    BY DEF RowsAllocated
  <1>4. Control
    BY DEF Control, ControlOf, NoRequest, AdjustRequest
  <1> QED BY <1>1, <1>2, <1>3, <1>4

\* StockInv is inductive: every request, statement, commit, rollback, retry
\* and crash of a thread keeps it, and so does a step of nobody.
LEMMA NextInv ==
  ASSUME StockInv, [Next]_vars
  PROVE  StockInv'
  <1>1. CASE UNCHANGED vars
    BY <1>1 DEF vars, StockInv, TypeOK, NoOversell, LocksExclusive,
                WorkBalanced, RowsAllocated, Control, ControlOf
  <1>2. ASSUME NEW t \in Thread,
               Ingest(t) \/ UpdateStatus(t) \/ RequestAdjustment(t)
        PROVE  StockInv'
    <2>1. CASE Ingest(t)
      BY <2>1, BeginInv DEF Ingest, IngestRequest
    <2>2. CASE UpdateStatus(t)
      BY <2>2, BeginInv, OrderStockAssumption DEF UpdateStatus, StatusRequest
    <2>3. CASE RequestAdjustment(t)
      BY <2>3, BeginInv DEF RequestAdjustment, AdjustRequest
    <2> QED BY <1>2, <2>1, <2>2, <2>3
  <1>3. ASSUME NEW t \in Thread, Step(t)
        PROVE  StockInv'
    <2>1. CASE LookupOrder(t) \/ LookupEvent(t) \/ LookupMovement(t)
      BY <2>1, LookupInv
    <2>2. CASE InsertOrder(t)
      BY <2>2, InsertOrderInv
    <2>3. CASE SelectCandidates(t) \/ ReadBefore(t) \/ ReadItem(t)
      BY <2>3, ReadInv
    <2>4. CASE Reserve(t)
      BY <2>4, ReserveInv
    <2>5. CASE LockOrder(t)
      BY <2>5, LockOrderInv
    <2>6. CASE Release(t) \/ Ship(t)
      BY <2>6, MoveItemInv
    <2>7. CASE LockItem(t)
      BY <2>7, LockItemInv
    <2>8. CASE Adjust(t)
      BY <2>8, AdjustInv
    <2>9. CASE Commit(t)
      BY <2>9, CommitInv
    <2>10. CASE Deadlock(t)
      BY <2>10, RollbackInv DEF Deadlock, Answer
    <2> QED BY <1>3, <2>1, <2>2, <2>3, <2>4, <2>5, <2>6, <2>7, <2>8, <2>9,
               <2>10 DEF Step
  <1>4. ASSUME NEW t \in Thread, Crash(t)
        PROVE  StockInv'
    BY <1>4, RollbackInv DEF Crash, Answer
  <1> QED BY <1>1, <1>2, <1>3, <1>4 DEF Next

\* The inductive invariant holds in every reachable state: whatever requests
\* run concurrently, fail or are retried, locks are exclusive and the rows
\* that a transaction is about to commit are complete and in order.
THEOREM InvariantHolds == Spec => []StockInv
  <1>1. Init => StockInv
    BY InitInv
  <1>2. StockInv /\ [Next]_vars => StockInv'
    BY NextInv
  <1> QED BY <1>1, <1>2, PTL DEF Spec

\* The tables and the local state of every thread stay well formed.
THEOREM TypeCorrect == Spec => []TypeOK
  <1>1. StockInv => TypeOK
    BY DEF StockInv
  <1> QED BY <1>1, InvariantHolds, PTL

\* No interleaving of ingestions, status changes, corrections, rollbacks and
\* retries (orders.py _reserve, _release_order, _ship_order; inventory.py
\* adjust) reserves a unit that is not on hand.
THEOREM NeverOversells == Spec => []NoOversell
  <1>1. StockInv => NoOversell
    BY DEF StockInv
  <1> QED BY <1>1, InvariantHolds, PTL

(***************************************************************************)
(* Orders only advance: the row that a transaction is about to commit is   *)
(* a new order, or the committed row with an allowed status, and no other  *)
(* transaction is about to commit a row of that order.                     *)
(***************************************************************************)
OrderOf(t) == IF req[t].op = "ingest" THEN req[t].hook.ext ELSE req[t].ext

RowCurrent(t) ==
  row[t] # NoOrder =>
    \/ req[t] \in IngestRequest /\ orders[req[t].hook.ext] = NoOrder
    \/ /\ req[t] \in StatusRequest
       /\ orders[req[t].ext] # NoOrder
       /\ row[t] = [orders[req[t].ext] EXCEPT !.status = row[t].status]
       /\ row[t].status \in AllowedTransitions[orders[req[t].ext].status]
RowsApart ==
  \A t, u \in Thread :
    row[t] # NoOrder /\ row[u] # NoOrder /\ OrderOf(t) = OrderOf(u) => t = u
RowsInv == RowsApart /\ \A t \in Thread : RowCurrent(t)

\* A step after which every uncommitted row is one from before, or one of an
\* ingestion that has allocated a line.
LEMMA RowsStay ==
  ASSUME RowsInv, UNCHANGED orders,
         \A u \in Thread : \/ row'[u] = NoOrder
                           \/ /\ row[u] # NoOrder /\ req'[u] = req[u]
                              /\ row'[u] = row[u] \/ req[u] \in IngestRequest
  PROVE  RowsInv'
  <1>1. \A u \in Thread : row'[u] # NoOrder => OrderOf(u)' = OrderOf(u)
    BY DEF OrderOf
  <1>2. RowsApart'
    BY <1>1 DEF RowsInv, RowsApart
  <1>3. ASSUME NEW u \in Thread PROVE RowCurrent(u)'
    <2>1. CASE row'[u] = NoOrder
      BY <2>1 DEF RowCurrent
    <2>2. CASE row'[u] # NoOrder /\ req[u] \in IngestRequest
      BY <2>2 DEF RowsInv, RowCurrent, IngestRequest, StatusRequest
    <2>3. CASE row'[u] # NoOrder /\ row'[u] = row[u]
      BY <2>3 DEF RowsInv, RowCurrent
    <2> QED BY <2>1, <2>2, <2>3
  <1> QED BY <1>2, <1>3 DEF RowsInv

\* The transaction of t ends and nothing is committed.
LEMMA RollbackKeepsRows ==
  ASSUME StockInv, RowsInv, NEW t \in Thread, Forget(t), UNCHANGED orders,
         \A u \in Thread \ {t} : req'[u] = req[u]
  PROVE  RowsInv'
  BY RowsStay DEF Forget, StockInv, TypeOK

\* The row that a thread gets is that of an order which no other has.
LEMMA NewRow ==
  ASSUME RowsInv, NEW t \in Thread, UNCHANGED <<orders, req>>,
         \A u \in Thread \ {t} : row'[u] = row[u],
         RowCurrent(t)',
         \A u \in Thread \ {t} : row[u] # NoOrder => OrderOf(u) # OrderOf(t)
  PROVE  RowsInv'
  <1>1. \A u \in Thread : OrderOf(u)' = OrderOf(u)
    BY DEF OrderOf
  <1>2. RowsApart'
    BY <1>1 DEF RowsInv, RowsApart
  <1>3. \A u \in Thread \ {t} : RowCurrent(u)'
    BY DEF RowsInv, RowCurrent
  <1> QED BY <1>2, <1>3 DEF RowsInv

\* InsertOrder waits for the unique key, LockOrder for the row lock.
LEMMA InsertKeepsRows ==
  ASSUME StockInv, RowsInv, NEW t \in Thread, InsertOrder(t)
  PROVE  RowsInv' /\ UNCHANGED orders
  <1> DEFINE e == req[t].hook.ext
  <1>1. req[t] \in IngestRequest /\ req[t].op = "ingest" /\ OrderOf(t) = e
    BY DEF InsertOrder, StockInv, Control, ControlOf, IngestRequest, OrderOf
  <1>2. CASE orders[e] # NoOrder \/ EventOwner(req[t].hook.evt) # {}
    <2>1. Integrity(t, "lookupOrder")
      BY <1>2 DEF InsertOrder
    <2>2. Forget(t) /\ UNCHANGED orders /\ \A u \in Thread \ {t} : req'[u] = req[u]
      BY <2>1 DEF Integrity, Rollback, Reply, db, StockInv, TypeOK
    <2> QED BY <2>2, RollbackKeepsRows
  <1>3. CASE ~ (orders[e] # NoOrder \/ EventOwner(req[t].hook.evt) # {})
    <2>1. /\ orders[e] = NoOrder /\ UNCHANGED <<orders, req>>
          /\ \A u \in Thread \ {t} : row'[u] = row[u]
      BY <1>3 DEF InsertOrder, Goto, StockInv, TypeOK
    <2>2. RowCurrent(t)'
      BY <1>1, <2>1 DEF RowCurrent
    <2>3. ASSUME NEW u \in Thread \ {t}, row[u] # NoOrder
          PROVE  OrderOf(u) # OrderOf(t)
      <3>1. RowCurrent(u)
        BY DEF RowsInv
      <3>2. CASE req[u] \in IngestRequest
        <4>1. Holds(u, "ingest") /\ OrderOf(u) = req[u].hook.ext
          BY <2>3, <3>2 DEF Holds, IngestRequest, OrderOf
        <4> QED BY <1>1, <4>1 DEF InsertOrder
      <3>3. CASE req[u] \in StatusRequest
        <4>1. OrderOf(u) = req[u].ext /\ orders[req[u].ext] # NoOrder
          BY <2>3, <3>1, <3>3 DEF RowCurrent, IngestRequest, StatusRequest, OrderOf
        <4> QED BY <1>1, <2>1, <4>1
      <3> QED BY <2>3, <3>1, <3>2, <3>3 DEF RowCurrent
    <2> QED BY <2>1, <2>2, <2>3, NewRow
  <1> QED BY <1>2, <1>3

LEMMA LockKeepsRows ==
  ASSUME StockInv, RowsInv, NEW t \in Thread, LockOrder(t)
  PROVE  RowsInv' /\ UNCHANGED orders
  <1> DEFINE o == orders[req[t].ext]
             s == req[t].target
  <1>1. /\ req[t] \in StatusRequest /\ req[t].op = "status" /\ OrderOf(t) = req[t].ext
        /\ req[t].ext \in ExtId
    BY DEF LockOrder, StockInv, Control, ControlOf, StatusRequest, OrderOf
  <1>2. CASE \E a \in Answer : Rollback(t, a)
    <2>1. Forget(t) /\ UNCHANGED orders /\ \A u \in Thread \ {t} : req'[u] = req[u]
      BY <1>2 DEF Rollback, Reply, db, StockInv, TypeOK
    <2> QED BY <2>1, RollbackKeepsRows
  <1>3. CASE ~ \E a \in Answer : Rollback(t, a)
    <2>1. /\ o # NoOrder /\ s # o.status /\ MayBecome(o.status, s)
          /\ row' = [row EXCEPT ![t] = [o EXCEPT !.status = s]]
          /\ UNCHANGED <<orders, req>>
      BY <1>3 DEF LockOrder, Goto, Answer
    <2>2. o \in OrderRow /\ row'[t] = [o EXCEPT !.status = s]
          /\ \A u \in Thread \ {t} : row'[u] = row[u]
      BY <1>1, <2>1 DEF StockInv, TypeOK
    <2>3. RowCurrent(t)'
      <3>1. row'[t].status = s /\ s \in AllowedTransitions[o.status]
        BY <2>1, <2>2 DEF OrderRow, MayBecome
      <3> QED BY <1>1, <2>1, <2>2, <3>1 DEF RowCurrent
    <2>4. ASSUME NEW u \in Thread \ {t}, row[u] # NoOrder
          PROVE  OrderOf(u) # OrderOf(t)
      <3>1. RowCurrent(u)
        BY DEF RowsInv
      <3>2. CASE req[u] \in IngestRequest
        <4>1. OrderOf(u) = req[u].hook.ext /\ orders[req[u].hook.ext] = NoOrder
          BY <2>4, <3>1, <3>2 DEF RowCurrent, IngestRequest, StatusRequest, OrderOf
        <4> QED BY <1>1, <2>1, <4>1
      <3>3. CASE req[u] \in StatusRequest
        <4>1. Holds(u, "status") /\ OrderOf(u) = req[u].ext
          BY <2>4, <3>3 DEF Holds, StatusRequest, OrderOf
        <4> QED BY <1>1, <4>1 DEF LockOrder
      <3> QED BY <2>4, <3>1, <3>2, <3>3 DEF RowCurrent
    <2> QED BY <2>1, <2>2, <2>3, <2>4, NewRow
  <1> QED BY <1>2, <1>3

\* A commit writes the row of one order, which is in no other transaction.
LEMMA CommitKeepsRows ==
  ASSUME StockInv, RowsInv, NEW t \in Thread, Commit(t)
  PROVE  /\ RowsInv'
         /\ \A e \in ExtId :
              orders'[e] # orders[e] =>
                row[t] # NoOrder /\ e = OrderOf(t) /\ orders'[e] = row[t]
  <1>1. /\ Forget(t)
        /\ \A u \in Thread \ {t} : req'[u] = req[u] /\ row'[u] = row[u]
        /\ row'[t] = NoOrder
    BY DEF Commit, Reply, Forget, StockInv, TypeOK
  <1>2. \A e \in ExtId :
          orders'[e] = IF row[t] # NoOrder /\ e = OrderOf(t) THEN row[t] ELSE orders[e]
    BY DEF Commit, OrderOf
  <1>3. \A u \in Thread \ {t} : OrderOf(u)' = OrderOf(u)
    BY <1>1 DEF OrderOf
  <1>4. RowsApart'
    BY <1>1, <1>3 DEF RowsInv, RowsApart
  <1>5. ASSUME NEW u \in Thread PROVE RowCurrent(u)'
    <2>1. CASE row'[u] = NoOrder
      BY <2>1 DEF RowCurrent
    <2>2. CASE row'[u] # NoOrder
      <3>1. u # t /\ row[u] # NoOrder /\ RowCurrent(u)
        BY <1>1, <2>2 DEF RowsInv
      <3>2. row[t] # NoOrder => OrderOf(u) # OrderOf(t)
        BY <3>1 DEF RowsInv, RowsApart
      <3>3. CASE req[u] \in IngestRequest
        <4>1. /\ OrderOf(u) = req[u].hook.ext /\ req[u].hook.ext \in ExtId
              /\ orders[req[u].hook.ext] = NoOrder
          BY <3>1, <3>3, OrderStockAssumption
             DEF RowCurrent, IngestRequest, StatusRequest, OrderOf
        <4> QED BY <1>1, <1>2, <3>1, <3>2, <3>3, <4>1 DEF RowCurrent
      <3>4. CASE req[u] \in StatusRequest
        <4>1. OrderOf(u) = req[u].ext /\ req[u].ext \in ExtId
          BY <3>4 DEF StatusRequest, OrderOf
        <4>2. orders'[req[u].ext] = orders[req[u].ext]
          BY <1>2, <3>2, <4>1
        <4>3. req'[u] = req[u] /\ row'[u] = row[u]
          BY <1>1, <3>1
        <4>4. req[u] \notin IngestRequest
          BY <3>4 DEF IngestRequest, StatusRequest
        <4> QED BY <3>1, <3>4, <4>2, <4>3, <4>4 DEF RowCurrent
      <3> QED BY <3>1, <3>3, <3>4 DEF RowCurrent
    <2> QED BY <2>1, <2>2
  <1> QED BY <1>2, <1>4, <1>5 DEF RowsInv

\* The remaining steps commit nothing and lock no order.
LEMMA OthersKeepRows ==
  ASSUME StockInv, RowsInv, NEW t \in Thread,
         \/ Ingest(t) \/ UpdateStatus(t) \/ RequestAdjustment(t)
         \/ LookupOrder(t) \/ LookupEvent(t) \/ LookupMovement(t)
         \/ SelectCandidates(t) \/ ReadBefore(t) \/ Reserve(t) \/ ReadItem(t)
         \/ Release(t) \/ Ship(t) \/ LockItem(t) \/ Adjust(t)
         \/ Deadlock(t) \/ Crash(t)
  PROVE  RowsInv' /\ UNCHANGED orders
  <1>1. CASE Ingest(t) \/ UpdateStatus(t) \/ RequestAdjustment(t)
    <2>1. /\ pc[t] = "idle" /\ UNCHANGED <<orders, row>>
          /\ \A u \in Thread \ {t} : req'[u] = req[u]
      BY <1>1 DEF Ingest, UpdateStatus, RequestAdjustment, Begin, tx, StockInv, TypeOK
    <2>2. row[t] = NoOrder
      BY <2>1 DEF StockInv, Control, ControlOf
    <2> QED BY <2>1, <2>2, RowsStay
  <1>2. CASE \/ LookupOrder(t) \/ LookupEvent(t) \/ LookupMovement(t)
             \/ SelectCandidates(t) \/ ReadBefore(t) \/ ReadItem(t)
             \/ Release(t) \/ Ship(t) \/ LockItem(t) \/ Adjust(t)
             \/ Deadlock(t) \/ Crash(t)
    <2>1. /\ UNCHANGED orders
          /\ \/ UNCHANGED <<req, row>>
             \/ Forget(t) /\ \A u \in Thread \ {t} : req'[u] = req[u]
      BY <1>2 DEF LookupOrder, LookupEvent, LookupMovement, SelectCandidates, ReadBefore,
                  ReadItem, Release, Ship, LockItem, Adjust, Deadlock, Crash, Rollback,
                  Reply, Goto, Integrity, NextLine, tx, db, StockInv, TypeOK
    <2>2. CASE UNCHANGED <<req, row>>
      BY <2>1, <2>2, RowsStay
    <2> QED BY <2>1, <2>2, RollbackKeepsRows
  <1>3. CASE Reserve(t)
    <2>1. /\ UNCHANGED <<orders, req>>
          /\ \A u \in Thread \ {t} : row'[u] = row[u]
          /\ req[t] \in IngestRequest /\ row[t] # NoOrder
      BY <1>3 DEF Reserve, Goto, NextLine, StockInv, TypeOK, Control, ControlOf
    <2> QED BY <2>1, RowsStay
  <1> QED BY <1>1, <1>2, <1>3

\* Redeliveries and concurrent status requests never rewrite an order: its
\* contents stay and its status takes allowed steps only.
THEOREM OrdersAreKept == Spec => OrdersOnlyAdvance
  <1> DEFINE Advance == \A e \in ExtId : orders[e] # NoOrder =>
                /\ orders'[e] # NoOrder
                /\ orders'[e] = [orders[e] EXCEPT !.status = orders'[e].status]
                /\ orders'[e].status \in
                     {orders[e].status} \cup AllowedTransitions[orders[e].status]
  <1>1. Init => RowsInv
    BY DEF Init, RowsInv, RowsApart, RowCurrent
  <1>2. StockInv /\ RowsInv /\ [Next]_vars => RowsInv'
    <2> SUFFICES ASSUME StockInv, RowsInv, [Next]_vars PROVE RowsInv'
      OBVIOUS
    <2>1. CASE UNCHANGED vars
      BY <2>1, RowsStay DEF vars
    <2>2. ASSUME NEW t \in Thread, InsertOrder(t) \/ LockOrder(t) \/ Commit(t)
          PROVE  RowsInv'
      BY <2>2, InsertKeepsRows, LockKeepsRows, CommitKeepsRows
    <2>3. CASE Next
      BY <2>2, <2>3, OthersKeepRows DEF Next, Step
    <2> QED BY <2>1, <2>3
  <1>3. StockInv /\ RowsInv /\ [Next]_vars => [Advance]_orders
    <2> SUFFICES ASSUME StockInv, RowsInv, [Next]_vars, orders' # orders PROVE Advance
      OBVIOUS
    <2>1. PICK t \in Thread : Commit(t)
      <3>1. PICK t \in Thread : \/ Ingest(t) \/ UpdateStatus(t) \/ RequestAdjustment(t)
                               \/ Step(t) \/ Crash(t)
        BY DEF Next, vars
      <3>2. Commit(t)
        BY <3>1, OthersKeepRows, InsertKeepsRows, LockKeepsRows DEF Step
      <3> QED BY <3>2
    <2>2. \A e \in ExtId :
            orders'[e] # orders[e] =>
              row[t] # NoOrder /\ e = OrderOf(t) /\ orders'[e] = row[t]
      BY <2>1, CommitKeepsRows
    <2>3. RowCurrent(t)
      BY DEF RowsInv
    <2>4. ASSUME NEW e \in ExtId, orders[e] # NoOrder
          PROVE  /\ orders'[e] # NoOrder
                 /\ orders'[e] = [orders[e] EXCEPT !.status = orders'[e].status]
                 /\ orders'[e].status \in
                      {orders[e].status} \cup AllowedTransitions[orders[e].status]
      <3>1. CASE orders'[e] = orders[e]
        <4>1. orders[e] \in OrderRow
          BY <2>4 DEF StockInv, TypeOK
        <4> QED BY <2>4, <3>1, <4>1 DEF OrderRow
      <3>2. CASE orders'[e] # orders[e]
        <4>1. row[t] # NoOrder /\ e = OrderOf(t) /\ orders'[e] = row[t]
          BY <2>2, <3>2
        <4>2. req[t] \in StatusRequest /\ OrderOf(t) = req[t].ext
          BY <2>3, <2>4, <4>1 DEF RowCurrent, IngestRequest, StatusRequest, OrderOf
        <4> QED BY <2>3, <4>1, <4>2 DEF RowCurrent, IngestRequest, StatusRequest
      <3> QED BY <3>1, <3>2
    <2> QED BY <2>4
  <1> QED BY <1>1, <1>2, <1>3, InvariantHolds, PTL DEF Spec, OrdersOnlyAdvance

(***************************************************************************)
(* Quantities as cardinalities: the units that an allocation gives to an   *)
(* inventory row are finitely many, a line more adds its quantity, and an  *)
(* order more adds its units.                                              *)
(***************************************************************************)

\* The units of the lines K at item i.
UnitsOf(alloc, K, i) ==
  UNION {{l} \X (1 .. Quantity[l]) : l \in {k \in K : alloc[k] = i}}

\* One set of units for each line.
LEMMA LineUnits ==
  ASSUME NEW l \in Line
  PROVE  /\ IsFiniteSet({l} \X (1 .. Quantity[l]))
         /\ Cardinality({l} \X (1 .. Quantity[l])) = Quantity[l]
  <1>1. Quantity[l] \in Nat \ {0}
    BY StockAssumption
  <1>2. IsFiniteSet(1 .. Quantity[l]) /\ Cardinality(1 .. Quantity[l]) = Quantity[l]
    <2>1. /\ IsFiniteSet(1 .. Quantity[l])
          /\ Cardinality(1 .. Quantity[l]) = IF 1 > Quantity[l] THEN 0 ELSE Quantity[l] - 1 + 1
      BY SMTT(30), <1>1, FS_Interval
    <2> QED BY <1>1, <2>1
  <1>3. IsFiniteSet({l}) /\ Cardinality({l}) = 1
    BY FS_Singleton
  <1> DEFINE U == {l} \X (1 .. Quantity[l])
  <1>4. /\ IsFiniteSet(U)
        /\ Cardinality(U) = Cardinality({l}) * Cardinality(1 .. Quantity[l])
    BY <1>2, <1>3, FS_Product
  <1> HIDE DEF U
  <1>5. Cardinality(U) = Quantity[l]
    BY <1>1, <1>2, <1>3, <1>4
  <1> QED BY <1>4, <1>5 DEF U

LEMMA UnitsFinite ==
  ASSUME NEW alloc, NEW K \in SUBSET Line, NEW i
  PROVE  IsFiniteSet(UnitsOf(alloc, K, i)) /\ Cardinality(UnitsOf(alloc, K, i)) \in Nat
  <1> DEFINE L == {k \in K : alloc[k] = i}
             f == [l \in L |-> {l} \X (1 .. Quantity[l])]
             R == {{l} \X (1 .. Quantity[l]) : l \in L}
  <1>1. L \subseteq Line /\ IsFiniteSet(L)
    BY StockAssumption, FS_Subset
  <1>2. f \in Surjection(L, R)
    BY DEF Surjection
  <1>3. IsFiniteSet(R)
    BY <1>1, <1>2, FS_Surjection
  <1>4. \A T \in R : IsFiniteSet(T)
    BY <1>1, LineUnits
  <1>5. IsFiniteSet(UNION R)
    BY <1>3, <1>4, FS_UNION
  <1> QED BY <1>5, FS_CardinalityType DEF UnitsOf

\* No line has no units.
LEMMA NoUnits ==
  ASSUME NEW alloc, NEW i
  PROVE  Cardinality(UnitsOf(alloc, {}, i)) = 0
  <1>1. UnitsOf(alloc, {}, i) = {}
    BY DEF UnitsOf
  <1> QED BY <1>1, FS_EmptySet

\* The units of lines depend on the allocation of these lines only.
LEMMA SameUnits ==
  ASSUME NEW alloc, NEW other, NEW K, \A l \in K : alloc[l] = other[l], NEW i
  PROVE  UnitsOf(alloc, K, i) = UnitsOf(other, K, i)
  BY DEF UnitsOf

\* A line more adds its quantity to the item that it is allocated at.
LEMMA LineAdds ==
  ASSUME NEW alloc, NEW K \in SUBSET Line, NEW l \in Line \ K, NEW i
  PROVE  Cardinality(UnitsOf(alloc, K \cup {l}, i)) =
           Cardinality(UnitsOf(alloc, K, i)) + (IF alloc[l] = i THEN Quantity[l] ELSE 0)
  <1> DEFINE A == UnitsOf(alloc, K, i)
             B == {l} \X (1 .. Quantity[l])
  <1>1. IsFiniteSet(A) /\ Cardinality(A) \in Nat
    BY UnitsFinite
  <1>2. CASE alloc[l] = i
    <2>1. UnitsOf(alloc, K \cup {l}, i) = A \cup B
      BY <1>2 DEF UnitsOf
    <2>2. A \cap B = {}
      BY DEF UnitsOf
    <2>3. IsFiniteSet(B) /\ Cardinality(B) = Quantity[l] /\ Quantity[l] \in Nat
      BY LineUnits, StockAssumption
    <2> HIDE DEF A, B
    <2>4. Cardinality(A \cup B) = Cardinality(A) + Cardinality(B) - Cardinality(A \cap B)
      BY <1>1, <2>3, FS_Union
    <2>5. Cardinality(A \cap B) = 0
      BY <2>2, FS_EmptySet
    <2>6. Cardinality(A \cup B) = Cardinality(A) + Quantity[l]
      BY <1>1, <2>3, <2>4, <2>5
    <2> QED BY <1>2, <2>1, <2>6 DEF A
  <1>3. CASE alloc[l] # i
    <2>1. UnitsOf(alloc, K \cup {l}, i) = A
      BY <1>3 DEF UnitsOf
    <2> HIDE DEF A
    <2> QED BY <1>1, <1>3, <2>1 DEF A
  <1> QED BY <1>2, <1>3

\* Fewer lines have no more units.
LEMMA FewerUnits ==
  ASSUME NEW alloc, NEW K \in SUBSET Line, NEW J \in SUBSET K, NEW i
  PROVE  Cardinality(UnitsOf(alloc, J, i)) <= Cardinality(UnitsOf(alloc, K, i))
  <1>1. UnitsOf(alloc, J, i) \in SUBSET UnitsOf(alloc, K, i)
    BY DEF UnitsOf
  <1>2. IsFiniteSet(UnitsOf(alloc, K, i))
    BY UnitsFinite
  <1> QED BY <1>1, <1>2, FS_Subset

\* The units of a row are those of its lines, when only these are allocated.
Fits(r, K) ==
  \A l \in Line : IF l \in LinesOf[r.payload] \ K THEN r.alloc[l] \in Candidates[l]
                                                   ELSE r.alloc[l] = NoItem
LEMMA RowUnits ==
  ASSUME NEW r \in OrderRow, Fits(r, {}), NEW i \in Item
  PROVE  /\ Units(r, i) = UnitsOf(r.alloc, LinesOf[r.payload], i)
         /\ IsFiniteSet(Units(r, i))
         /\ QuantityAt(r, i) = Cardinality(UnitsOf(r.alloc, LinesOf[r.payload], i))
         /\ QuantityAt(r, i) \in Nat
  <1>1. LinesOf[r.payload] \in SUBSET Line
    BY StockAssumption DEF OrderRow
  <1>2. {k \in Line : r.alloc[k] = i} = {k \in LinesOf[r.payload] : r.alloc[k] = i}
    BY <1>1, StockAssumption DEF Fits
  <1>3. Units(r, i) = UnitsOf(r.alloc, LinesOf[r.payload], i)
    BY <1>2 DEF Units, UnitsOf
  <1> QED BY <1>1, <1>3, UnitsFinite DEF QuantityAt

\* The units that a table holds are finitely many.
LEMMA HeldFinite ==
  ASSUME NEW table,
         \A e \in ExtId : table[e] # NoOrder => table[e] \in OrderRow /\ Fits(table[e], {}),
         NEW S, NEW i \in Item
  PROVE  IsFiniteSet(UnitsHeld(table, S, i)) /\ Cardinality(UnitsHeld(table, S, i)) \in Nat
  <1> DEFINE E == OrdersIn(table, S)
             f == [e \in E |-> {e} \X Units(table[e], i)]
             R == {{e} \X Units(table[e], i) : e \in E}
  <1>1. E \subseteq ExtId /\ IsFiniteSet(E)
    BY StockAssumption, FS_Subset DEF OrdersIn
  <1>2. f \in Surjection(E, R)
    BY DEF Surjection
  <1>3. IsFiniteSet(R)
    BY <1>1, <1>2, FS_Surjection
  <1>4. ASSUME NEW e \in E PROVE IsFiniteSet({e} \X Units(table[e], i))
    <2>1. IsFiniteSet(Units(table[e], i))
      BY <1>1, RowUnits DEF OrdersIn
    <2> QED BY <2>1, FS_Singleton, FS_Product
  <1>5. IsFiniteSet(UNION R)
    BY <1>3, <1>4, FS_UNION
  <1> QED BY <1>5, FS_CardinalityType DEF UnitsHeld

\* What one order holds.
LEMMA OrderUnits ==
  ASSUME NEW r \in OrderRow, Fits(r, {}), NEW e, NEW i \in Item
  PROVE  /\ IsFiniteSet({e} \X Units(r, i))
         /\ Cardinality({e} \X Units(r, i)) = QuantityAt(r, i)
  <1>1. IsFiniteSet(Units(r, i)) /\ Cardinality(Units(r, i)) \in Nat
    BY RowUnits DEF QuantityAt
  <1>2. IsFiniteSet({e}) /\ Cardinality({e}) = 1
    BY FS_Singleton
  <1>3. /\ IsFiniteSet({e} \X Units(r, i))
        /\ Cardinality({e} \X Units(r, i)) = 1 * Cardinality(Units(r, i))
    BY <1>1, <1>2, FS_Product
  <1> QED BY <1>1, <1>3 DEF QuantityAt

\* An open order is part of what is held.
LEMMA OpenHolds ==
  ASSUME NEW table,
         \A e \in ExtId : table[e] # NoOrder => table[e] \in OrderRow /\ Fits(table[e], {}),
         NEW e \in ExtId, table[e] # NoOrder, table[e].status \in Open, NEW i \in Item
  PROVE  QuantityAt(table[e], i) <= Cardinality(UnitsHeld(table, Open, i))
  <1>1. {e} \X Units(table[e], i) \in SUBSET UnitsHeld(table, Open, i)
    BY DEF UnitsHeld, OrdersIn
  <1>2. Cardinality({e} \X Units(table[e], i)) <= Cardinality(UnitsHeld(table, Open, i))
    BY <1>1, HeldFinite, FS_Subset
  <1> QED BY <1>2, OrderUnits

\* A new open order adds its units.
LEMMA OrderAdds ==
  ASSUME NEW table, NEW new,
         \A x \in ExtId : table[x] # NoOrder => table[x] \in OrderRow /\ Fits(table[x], {}),
         NEW e \in ExtId, table[e] = NoOrder, new[e] \in OrderRow, Fits(new[e], {}),
         new[e].status \in Open, \A x \in ExtId \ {e} : new[x] = table[x],
         NEW i \in Item
  PROVE  Cardinality(UnitsHeld(new, Open, i)) =
           Cardinality(UnitsHeld(table, Open, i)) + QuantityAt(new[e], i)
  <1> DEFINE A == UnitsHeld(table, Open, i)
             B == {e} \X Units(new[e], i)
  <1>1. OrdersIn(new, Open) = OrdersIn(table, Open) \cup {e}
    BY StockAssumption DEF OrdersIn
  <1>2. UnitsHeld(new, Open, i) = A \cup B
    <2>1. \A x \in OrdersIn(table, Open) : new[x] = table[x]
      BY DEF OrdersIn
    <2> QED BY <1>1, <2>1 DEF UnitsHeld
  <1>3. A \cap B = {}
    BY DEF UnitsHeld, OrdersIn
  <1>4. IsFiniteSet(A) /\ Cardinality(A) \in Nat
    BY HeldFinite
  <1>5. IsFiniteSet(B) /\ Cardinality(B) = QuantityAt(new[e], i) /\ QuantityAt(new[e], i) \in Nat
    BY ZenonT(40), OrderUnits, RowUnits
  <1> HIDE DEF A, B
  <1>6. Cardinality(A \cup B) = Cardinality(A) + Cardinality(B) - Cardinality(A \cap B)
    BY <1>4, <1>5, FS_Union
  <1>7. Cardinality(A \cap B) = 0
    BY <1>3, FS_EmptySet
  <1>8. Cardinality(A \cup B) = Cardinality(A) + QuantityAt(new[e], i)
    BY <1>4, <1>5, <1>6, <1>7
  <1> QED BY <1>2, <1>8 DEF A

\* An order that is no longer open takes its units away.
LEMMA OrderLeaves ==
  ASSUME NEW table, NEW new,
         \A x \in ExtId : table[x] # NoOrder => table[x] \in OrderRow /\ Fits(table[x], {}),
         NEW e \in ExtId, table[e] # NoOrder, table[e].status \in Open,
         new[e].status \notin Open, \A x \in ExtId \ {e} : new[x] = table[x],
         NEW i \in Item
  PROVE  Cardinality(UnitsHeld(new, Open, i)) =
           Cardinality(UnitsHeld(table, Open, i)) - QuantityAt(table[e], i)
  <1> DEFINE A == UnitsHeld(table, Open, i)
             B == {e} \X Units(table[e], i)
  <1>1. OrdersIn(new, Open) = OrdersIn(table, Open) \ {e}
    BY DEF OrdersIn
  <1>2. UnitsHeld(new, Open, i) = A \ B
    <2>1. \A x \in OrdersIn(table, Open) \ {e} : new[x] = table[x]
      BY DEF OrdersIn
    <2> QED BY <1>1, <2>1 DEF UnitsHeld
  <1>3. A \cap B = B
    BY DEF UnitsHeld, OrdersIn
  <1>4. IsFiniteSet(A)
    BY HeldFinite
  <1>5. Cardinality(B) = QuantityAt(table[e], i)
    BY OrderUnits
  <1> HIDE DEF A, B
  <1>6. Cardinality(A \ B) = Cardinality(A) - Cardinality(A \cap B)
    BY <1>4, FS_Difference
  <1> QED BY <1>2, <1>3, <1>5, <1>6 DEF A

\* A status change between open states, or others, changes nothing of it.
LEMMA OrderStays ==
  ASSUME NEW table, NEW new, NEW e \in ExtId, table[e] # NoOrder, new[e] # NoOrder,
         new[e].alloc = table[e].alloc,
         new[e].status \in Open <=> table[e].status \in Open,
         \A x \in ExtId \ {e} : new[x] = table[x],
         NEW i \in Item
  PROVE  UnitsHeld(new, Open, i) = UnitsHeld(table, Open, i)
  <1>1. OrdersIn(new, Open) = OrdersIn(table, Open)
    BY DEF OrdersIn
  <1>2. \A x \in OrdersIn(table, Open) : Units(new[x], i) = Units(table[x], i)
    BY DEF OrdersIn, Units
  <1> QED BY <1>1, <1>2 DEF UnitsHeld

(***************************************************************************)
(* What a transaction has done so far: its rows differ from the committed  *)
(* ones by the units of the lines it has handled, or by its correction.    *)
(***************************************************************************)
Done(t) == LinesOf[row[t].payload] \ todo[t]
Moved(t, i) ==
  IF row[t] = NoOrder THEN 0 ELSE Cardinality(UnitsOf(row[t].alloc, Done(t), i))

Placed(t) == req[t] \in IngestRequest /\ row[t] # NoOrder
Corrects(t) == req[t] \in AdjustRequest /\ pc[t] = "commit"

ReservedBy(t, i) ==
  IF req[t] \in IngestRequest THEN Moved(t, i)
  ELSE IF req[t] \in StatusRequest /\ MovesStock(req[t].target) THEN 0 - Moved(t, i)
  ELSE 0
OnHandBy(t, i) ==
  IF req[t] \in StatusRequest /\ req[t].target = "dispatched" THEN 0 - Moved(t, i)
  ELSE IF Corrects(t) /\ req[t].adj.item = i THEN req[t].adj.delta
  ELSE 0
Works(t) ==
  \A i \in Item :
    /\ Visible(t, i).onHand = inventory[i].onHand + OnHandBy(t, i)
    /\ Visible(t, i).reserved = inventory[i].reserved + ReservedBy(t, i)

\* An ingestion has a new order under a new event id, in an initial status,
\* with the lines that are done at rows of their SKU.
Placing(t) ==
  req[t] \in IngestRequest =>
    /\ pc[t] \in {"lookupOrder", "lookupEvent", "insertOrder"} => row[t] = NoOrder
    /\ pc[t] = "insertOrder" => FirstStatus[req[t].hook.payload] \in {"pending", "paid"}
    /\ pc[t] = "commit" => row[t] # NoOrder
    /\ pc[t] \in {"readBefore", "reserve"} =>
         \A n \in 1 .. Len(cand[t]) : cand[t][n] \in Candidates[line[t]]
    /\ row[t] # NoOrder => /\ row[t].status \in {"pending", "paid"}
                           /\ row[t].evt = req[t].hook.evt
                           /\ EventOwner(req[t].hook.evt) = {}
                           /\ Fits(row[t], todo[t])

\* A status change has the order with the status asked for.
Changing(t) ==
  req[t] \in StatusRequest =>
    /\ pc[t] = "lockOrder" => row[t] = NoOrder
    /\ pc[t] = "commit" => row[t] # NoOrder
    /\ row[t] # NoOrder => row[t].status = req[t].target

\* A correction commits one movement, under a key that is not booked.
Adjusting(t) ==
  /\ \A m \in staged[t] : m.kind = "adjustment" =>
       /\ Corrects(t) /\ m.key = req[t].adj.key
       /\ m.item = req[t].adj.item /\ m.delta = req[t].adj.delta
  /\ Corrects(t) => /\ Existing(req[t].adj.key) = {}
                    /\ \E m \in staged[t] : m.kind = "adjustment"

ThreadInv(t) == Works(t) /\ Placing(t) /\ Changing(t) /\ Adjusting(t)

\* The unique keys: no two transactions have inserted the same.
EventsApart ==
  \A t, u \in Thread :
    Placed(t) /\ Placed(u) /\ req[t].hook.evt = req[u].hook.evt => t = u
KeysApart ==
  \A t, u \in Thread :
    Corrects(t) /\ Corrects(u) /\ req[t].adj.key = req[u].adj.key => t = u
OrdersFit == \A e \in ExtId : orders[e] # NoOrder => Fits(orders[e], {})

BookInv ==
  /\ RowsInv /\ EventsApart /\ KeysApart /\ OrdersFit
  /\ \A t \in Thread : ThreadInv(t)
  /\ ReservedByOpenOrders

\* The local state of a thread stays.
Rests(u) ==
  /\ pc'[u] = pc[u] /\ req'[u] = req[u] /\ todo'[u] = todo[u] /\ line'[u] = line[u]
  /\ cand'[u] = cand[u] /\ locked'[u] = locked[u] /\ work'[u] = work[u]
  /\ row'[u] = row[u] /\ staged'[u] = staged[u]

LEMMA OtherThreads ==
  ASSUME NEW u \in Thread, ThreadInv(u), Rests(u), UNCHANGED db
  PROVE  ThreadInv(u)'
  <1>1. UNCHANGED <<inventory, orders, movements>>
    BY DEF db
  <1>2. Corrects(u)' = Corrects(u)
    BY DEF Rests, Corrects
  <1>3. Works(u)'
    <2>1. ASSUME NEW i \in Item PROVE Moved(u, i)' = Moved(u, i) /\ Visible(u, i)' = Visible(u, i)
      BY <1>1 DEF Rests, Moved, Done, Visible
    <2>2. ASSUME NEW i \in Item
          PROVE  OnHandBy(u, i)' = OnHandBy(u, i) /\ ReservedBy(u, i)' = ReservedBy(u, i)
      BY <1>2, <2>1 DEF Rests, OnHandBy, ReservedBy
    <2> QED BY <1>1, <2>1, <2>2 DEF ThreadInv, Works
  <1>4. Placing(u)'
    BY <1>1 DEF Rests, ThreadInv, Placing, EventOwner
  <1>5. Changing(u)'
    BY <1>1 DEF Rests, ThreadInv, Changing
  <1>6. Adjusting(u)'
    BY <1>1, <1>2 DEF Rests, ThreadInv, Adjusting, Existing
  <1> QED BY <1>3, <1>4, <1>5, <1>6 DEF ThreadInv

\* A step of one thread without a commit.
LEMMA OneThread ==
  ASSUME BookInv, NEW t \in Thread, UNCHANGED db, RowsInv', ThreadInv(t)',
         \A u \in Thread \ {t} : Rests(u),
         Placed(t)' => \/ Placed(t) /\ req'[t] = req[t]
                       \/ \A u \in Thread \ {t} :
                            Placed(u) => req[u].hook.evt # req'[t].hook.evt,
         Corrects(t)' => \A u \in Thread \ {t} :
                           Corrects(u) => req[u].adj.key # req'[t].adj.key
  PROVE  BookInv'
  <1>1. UNCHANGED <<inventory, orders, movements>>
    BY DEF db
  <1>2. \A u \in Thread \ {t} : /\ Placed(u)' = Placed(u) /\ Corrects(u)' = Corrects(u)
                                /\ req'[u] = req[u]
    BY DEF Rests, Placed, Corrects
  <1>3. EventsApart'
    BY <1>2 DEF BookInv, EventsApart
  <1>4. KeysApart'
    BY <1>2 DEF BookInv, KeysApart
  <1>5. OrdersFit' /\ ReservedByOpenOrders'
    BY <1>1 DEF BookInv, OrdersFit, ReservedByOpenOrders
  <1>6. \A u \in Thread : ThreadInv(u)'
    BY OtherThreads DEF BookInv
  <1> QED BY <1>3, <1>4, <1>5, <1>6 DEF BookInv

\* A transaction that has changed nothing yet.
LEMMA NothingMoved ==
  ASSUME NEW t \in Thread, row[t] = NoOrder, ~ Corrects(t), NEW i \in Item
  PROVE  OnHandBy(t, i) = 0 /\ ReservedBy(t, i) = 0
  <1>1. Moved(t, i) = 0
    BY DEF Moved
  <1> QED BY <1>1 DEF OnHandBy, ReservedBy

LEMMA ForgetsAll ==
  ASSUME StockInv, StockInv', BookInv, NEW t \in Thread, UNCHANGED db, RowsInv', Forget(t),
         \A u \in Thread \ {t} : req'[u] = req[u] /\ pc'[u] = pc[u],
         pc'[t] \in {"idle", "lookupOrder", "lookupMovement"}
  PROVE  BookInv'
  <1>1. \A u \in Thread \ {t} : Rests(u)
    BY DEF Forget, Rests, StockInv, TypeOK
  <1>2. row'[t] = NoOrder /\ locked'[t] = {} /\ staged'[t] = {}
    BY DEF Forget, StockInv, TypeOK
  <1>3. ~ Placed(t)' /\ ~ Corrects(t)'
    BY <1>2 DEF Placed, Corrects
  <1>4. Works(t)'
    <2>1. ASSUME NEW i \in Item PROVE OnHandBy(t, i)' = 0 /\ ReservedBy(t, i)' = 0
      <3>1. Moved(t, i)' = 0
        BY <1>2 DEF Moved
      <3> QED BY <1>3, <3>1 DEF OnHandBy, ReservedBy
    <2>2. ASSUME NEW i \in Item PROVE Visible(t, i)' = inventory'[i]
      BY <1>2 DEF Visible
    <2>3. ASSUME NEW i \in Item PROVE inventory'[i].onHand \in Int /\ inventory'[i].reserved \in Int
      BY DEF StockInv, TypeOK, Balance
    <2> QED BY <2>1, <2>2, <2>3 DEF Works
  <1>5. Placing(t)' /\ Changing(t)' /\ Adjusting(t)'
    BY <1>2, <1>3 DEF Placing, Changing, Adjusting
  <1> QED BY <1>1, <1>3, <1>4, <1>5, OneThread DEF ThreadInv

\* A transaction that ends without a commit.
LEMMA RollbackKeepsBook ==
  ASSUME StockInv, BookInv, NEW t \in Thread, NEW a \in Answer, Rollback(t, a)
  PROVE  BookInv' /\ UNCHANGED db
  <1>1. /\ Forget(t) /\ UNCHANGED db /\ pc'[t] = "idle"
        /\ \A u \in Thread \ {t} : req'[u] = req[u] /\ pc'[u] = pc[u]
    BY DEF Rollback, Reply, StockInv, TypeOK
  <1>2. StockInv'
    BY RollbackInv
  <1>3. RowsInv'
    BY <1>1, RollbackKeepsRows DEF BookInv, db
  <1> QED BY <1>1, <1>2, <1>3, ForgetsAll

LEMMA IntegrityKeepsBook ==
  ASSUME StockInv, BookInv, NEW t \in Thread, NEW first, Integrity(t, first),
         \/ first = "lookupOrder" /\ req[t] \in IngestRequest
         \/ first = "lookupMovement" /\ req[t] \in AdjustRequest
  PROVE  BookInv' /\ UNCHANGED db
  <1>1. CASE attempt[t] = 2
    BY <1>1, RollbackKeepsBook DEF Integrity, Answer
  <1>2. CASE attempt[t] # 2
    <2>1. /\ Forget(t) /\ UNCHANGED db /\ pc'[t] = first
          /\ \A u \in Thread \ {t} : req'[u] = req[u] /\ pc'[u] = pc[u]
      BY <1>2 DEF Integrity, StockInv, TypeOK, db
    <2>2. StockInv'
      BY IntegrityInv DEF Label
    <2>3. RowsInv'
      BY <2>1, RollbackKeepsRows DEF BookInv, db
    <2> QED BY <2>1, <2>2, <2>3, ForgetsAll
  <1> QED BY <1>1, <1>2

\* A request that begins.
LEMMA BeginKeepsBook ==
  ASSUME StockInv, BookInv, NEW t \in Thread, NEW r, NEW label, Begin(t, r, label),
         RowsInv',
         \/ r \in IngestRequest /\ label = "lookupOrder"
         \/ r \in StatusRequest /\ label = "lockOrder"
         \/ r \in AdjustRequest /\ label = "lookupMovement"
  PROVE  BookInv' /\ UNCHANGED db
  <1>1. /\ UNCHANGED <<inventory, orders, movements, todo, line, cand, locked, work, row, staged>>
        /\ \A u \in Thread \ {t} : req'[u] = req[u] /\ pc'[u] = pc[u]
        /\ req'[t] = r /\ pc'[t] = label /\ pc[t] = "idle"
    BY DEF Begin, tx, StockInv, TypeOK
  <1>2. /\ row[t] = NoOrder /\ row'[t] = NoOrder
        /\ ~ Corrects(t) /\ ~ Corrects(t)' /\ ~ Placed(t)'
    BY <1>1 DEF StockInv, Control, ControlOf, Corrects, Placed
  <1>3. \A u \in Thread \ {t} : Rests(u)
    BY <1>1 DEF Rests
  <1>4. Works(t)'
    <2>1. ASSUME NEW i \in Item PROVE OnHandBy(t, i)' = 0 /\ ReservedBy(t, i)' = 0
      <3>1. Moved(t, i)' = 0
        BY <1>2 DEF Moved
      <3> QED BY <1>2, <3>1 DEF OnHandBy, ReservedBy
    <2>2. ASSUME NEW i \in Item PROVE Visible(t, i)' = Visible(t, i)
      BY <1>1 DEF Visible
    <2> QED BY <1>1, <1>2, <2>1, <2>2, NothingMoved DEF BookInv, ThreadInv, Works
  <1>5. Placing(t)' /\ Changing(t)'
    BY <1>1, <1>2 DEF Placing, Changing
  <1>6. Adjusting(t)'
    BY <1>1, <1>2 DEF BookInv, ThreadInv, Adjusting
  <1> QED BY <1>1, <1>2, <1>3, <1>4, <1>5, <1>6, OneThread DEF ThreadInv, db

\* A statement that only reads.
LEMMA ReadingKeepsBook ==
  ASSUME StockInv, BookInv, NEW t \in Thread,
         UNCHANGED <<inventory, orders, movements, req, todo, locked, work, row, staged>>,
         \A u \in Thread \ {t} : pc'[u] = pc[u] /\ line'[u] = line[u] /\ cand'[u] = cand[u],
         pc[t] # "commit", pc'[t] # "commit", Placing(t)', Changing(t)'
  PROVE  BookInv' /\ UNCHANGED db
  <1>1. \A u \in Thread \ {t} : Rests(u)
    BY DEF Rests
  <1>2. RowsInv'
    BY RowsStay DEF BookInv
  <1>3. ~ Corrects(t) /\ ~ Corrects(t)' /\ (Placed(t)' => Placed(t))
    BY DEF Corrects, Placed
  <1>4. Works(t)'
    <2>1. ASSUME NEW i \in Item PROVE Moved(t, i)' = Moved(t, i) /\ Visible(t, i)' = Visible(t, i)
      BY DEF Moved, Done, Visible
    <2>2. ASSUME NEW i \in Item
          PROVE  OnHandBy(t, i)' = OnHandBy(t, i) /\ ReservedBy(t, i)' = ReservedBy(t, i)
      BY <1>3, <2>1 DEF OnHandBy, ReservedBy
    <2> QED BY <2>1, <2>2 DEF BookInv, ThreadInv, Works
  <1>5. Adjusting(t)'
    BY <1>3 DEF BookInv, ThreadInv, Adjusting
  <1> QED BY <1>1, <1>2, <1>3, <1>4, <1>5, OneThread DEF ThreadInv, db

LEMMA LookupsKeepBook ==
  ASSUME StockInv, BookInv, NEW t \in Thread,
         LookupOrder(t) \/ LookupEvent(t) \/ LookupMovement(t)
  PROVE  BookInv' /\ UNCHANGED db
  <1>1. CASE \E a \in Answer : Rollback(t, a)
    BY <1>1, RollbackKeepsBook
  <1>2. CASE ~ \E a \in Answer : Rollback(t, a)
    <2>1. /\ pc[t] \in {"lookupOrder", "lookupEvent", "lookupMovement"}
          /\ UNCHANGED <<inventory, orders, movements, req, todo, line, cand, locked,
                         work, row, staged>>
          /\ \A u \in Thread \ {t} : pc'[u] = pc[u]
          /\ \/ pc'[t] \in {"lookupEvent", "lockItem"}
             \/ /\ pc'[t] = "insertOrder"
                /\ FirstStatus[req[t].hook.payload] \in {"pending", "paid"}
      BY <1>2 DEF LookupOrder, LookupEvent, LookupMovement, Goto, tx, Answer, StockInv, TypeOK
    <2>2. Placing(t)'
      <3>1. req[t] \in IngestRequest => row[t] = NoOrder
        BY <2>1 DEF StockInv, Control, ControlOf, BookInv, ThreadInv, Placing,
                    IngestRequest, AdjustRequest
      <3> QED BY <2>1, <3>1 DEF Placing
    <2>3. Changing(t)'
      BY <2>1 DEF StockInv, Control, ControlOf, Changing, StatusRequest, IngestRequest,
                     AdjustRequest
    <2> QED BY <2>1, <2>2, <2>3, ReadingKeepsBook
  <1> QED BY <1>1, <1>2

LEMMA ReadsKeepBook ==
  ASSUME StockInv, BookInv, NEW t \in Thread,
         SelectCandidates(t) \/ ReadBefore(t) \/ ReadItem(t)
  PROVE  BookInv' /\ UNCHANGED db
  <1>1. CASE \E a \in Answer : Rollback(t, a)
    BY <1>1, RollbackKeepsBook
  <1>2. CASE ~ \E a \in Answer : Rollback(t, a)
    <2>1. /\ UNCHANGED <<inventory, orders, movements, req, todo, locked, work, row, staged>>
          /\ pc[t] \in {"candidates", "readBefore", "readItem"}
          /\ pc'[t] \in {"readBefore", "reserve", "moveItem"}
          /\ \A u \in Thread \ {t} : /\ pc'[u] = pc[u] /\ line'[u] = line[u]
                                     /\ cand'[u] = cand[u]
      BY <1>2 DEF SelectCandidates, ReadBefore, ReadItem, Goto, Answer, StockInv, TypeOK
    <2>2. Changing(t)'
      BY <2>1 DEF BookInv, ThreadInv, Changing
    <2>3. Placing(t)'
      <3>1. CASE SelectCandidates(t)
        <4>0. PICK l \in todo[t] : \E s \in ByAvailability(t, l) :
                /\ line' = [line EXCEPT ![t] = l]
                /\ cand' = [cand EXCEPT ![t] = s]
          BY <3>1 DEF SelectCandidates
        <4>1. PICK s \in ByAvailability(t, l) :
                /\ line' = [line EXCEPT ![t] = l]
                /\ cand' = [cand EXCEPT ![t] = s]
          BY <4>0
        <4>2. l \in Line
          BY DEF StockInv, TypeOK
        <4>3. Cardinality(Candidates[l]) \in Nat
          BY <4>2, StockAssumption, FS_Subset, FS_CardinalityType
        <4>4. \A n \in 1 .. Len(s) : s[n] \in Candidates[l]
          <5>1. s \in [1 .. Cardinality(Candidates[l]) -> Candidates[l]]
            BY DEF ByAvailability
          <5>2. Len(s) = Cardinality(Candidates[l])
            BY <4>3, <5>1
          <5> QED BY <5>1, <5>2
        <4>5. line'[t] = l /\ cand'[t] = s
          BY <4>1 DEF StockInv, TypeOK
        <4> QED BY <2>1, <4>4, <4>5 DEF BookInv, ThreadInv, Placing, EventOwner
      <3>2. CASE ReadBefore(t)
        <4>1. cand'[t] = cand[t] /\ line'[t] = line[t] /\ pc[t] = "readBefore" /\ pc'[t] = "reserve"
          BY <1>2, <3>2 DEF ReadBefore, Goto, Answer, StockInv, TypeOK
        <4> QED BY <2>1, <4>1 DEF BookInv, ThreadInv, Placing, EventOwner
      <3>3. CASE ReadItem(t)
        <4>1. req[t] \notin IngestRequest
          BY <3>3 DEF ReadItem, StockInv, Control, ControlOf, IngestRequest, StatusRequest
        <4> QED BY <2>1, <4>1 DEF Placing
      <3> QED BY <3>1, <3>2, <3>3
    <2> QED BY <2>1, <2>2, <2>3, ReadingKeepsBook
  <1> QED BY <1>1, <1>2

\* A new order has moved nothing yet, and its event is nobody's.
LEMMA InsertKeepsBook ==
  ASSUME StockInv, BookInv, NEW t \in Thread, InsertOrder(t)
  PROVE  BookInv' /\ UNCHANGED db
  <1> DEFINE w == req[t].hook
             new == [payload |-> w.payload, evt |-> w.evt,
                     status |-> FirstStatus[w.payload],
                     alloc |-> [l \in Line |-> NoItem]]
  <1>0. /\ req[t] \in IngestRequest /\ w \in Webhook /\ pc[t] = "insertOrder"
        /\ req[t] \notin StatusRequest /\ req[t] \notin AdjustRequest
    BY DEF InsertOrder, StockInv, Control, ControlOf, IngestRequest, StatusRequest, AdjustRequest
  <1>1. CASE orders[w.ext] # NoOrder \/ EventOwner(w.evt) # {}
    BY <1>0, <1>1, IntegrityKeepsBook DEF InsertOrder
  <1>2. CASE ~ (orders[w.ext] # NoOrder \/ EventOwner(w.evt) # {})
    <2>1. /\ row' = [row EXCEPT ![t] = new]
          /\ todo' = [todo EXCEPT ![t] = LinesOf[w.payload]]
          /\ pc' = [pc EXCEPT ![t] = "candidates"]
          /\ UNCHANGED <<inventory, orders, movements, req>>
          /\ UNCHANGED <<line, cand, locked, work, staged>>
      BY <1>2 DEF InsertOrder, Goto
    <2>2. /\ row'[t] = new /\ todo'[t] = LinesOf[w.payload] /\ pc'[t] = "candidates"
          /\ \A u \in Thread \ {t} : row'[u] = row[u] /\ todo'[u] = todo[u] /\ pc'[u] = pc[u]
      BY <2>1 DEF StockInv, TypeOK
    <2>3. new \in OrderRow /\ new # NoOrder
      BY <1>0, StockAssumption, OrderStockAssumption DEF OrderRow
    <2>4. row[t] = NoOrder /\ FirstStatus[w.payload] \in {"pending", "paid"}
      BY <1>0 DEF BookInv, ThreadInv, Placing
    <2>5. ~ Corrects(t) /\ ~ Corrects(t)'
      BY <1>0, <2>1 DEF Corrects
    <2>6. \A u \in Thread \ {t} : Rests(u)
      BY <2>1, <2>2 DEF Rests
    <2>7. Works(t)'
      <3>1. ASSUME NEW i \in Item PROVE Moved(t, i)' = 0
        <4>1. Done(t)' = {}
          BY <2>2 DEF Done
        <4> QED BY <2>2, <2>3, <4>1, NoUnits DEF Moved
      <3>2. ASSUME NEW i \in Item PROVE OnHandBy(t, i)' = 0 /\ ReservedBy(t, i)' = 0
        BY <1>0, <2>1, <2>5, <3>1 DEF OnHandBy, ReservedBy
      <3>3. ASSUME NEW i \in Item PROVE Visible(t, i)' = Visible(t, i)
        BY <2>1 DEF Visible
      <3>4. ASSUME NEW i \in Item PROVE OnHandBy(t, i) = 0 /\ ReservedBy(t, i) = 0
        BY <2>4, <2>5, NothingMoved
      <3> QED BY <2>1, <3>2, <3>3, <3>4 DEF BookInv, ThreadInv, Works
    <2>8. Placing(t)'
      <3>1. Fits(new, LinesOf[w.payload])
        BY DEF Fits
      <3>2. EventOwner(w.evt)' = {}
        BY <1>2, <2>1 DEF EventOwner
      <3> QED BY <2>1, <2>2, <2>4, <3>1, <3>2 DEF Placing
    <2>9. Changing(t)' /\ Adjusting(t)'
      BY <1>0, <2>1, <2>5 DEF BookInv, ThreadInv, Changing, Adjusting
    <2>10. \A u \in Thread \ {t} : Placed(u) => req[u].hook.evt # req'[t].hook.evt
      BY <2>1 DEF InsertOrder, Placed, Holds, IngestRequest
    <2>11. RowsInv'
      BY InsertKeepsRows DEF BookInv
    <2> QED BY <2>1, <2>5, <2>6, <2>7, <2>8, <2>9, <2>10, <2>11, OneThread DEF ThreadInv, db
  <1> QED BY <1>1, <1>2

\* The effect of a Write on what t sees.
LEMMA WriteShows ==
  ASSUME StockInv, NEW t \in Thread, NEW i \in Item, NEW new, NEW kind, NEW key, NEW delta,
         Write(t, i, new, kind, key, delta), UNCHANGED inventory
  PROVE  /\ Visible(t, i)' = new
         /\ \A j \in Item \ {i} : Visible(t, j)' = Visible(t, j)
         /\ \A u \in Thread \ {t} : /\ locked'[u] = locked[u] /\ work'[u] = work[u]
                                    /\ staged'[u] = staged[u]
         /\ \E m : /\ staged'[t] = staged[t] \cup {m} /\ m.kind = kind /\ m.key = key
                   /\ m.item = i /\ m.delta = delta
  <1>1. /\ locked'[t] = locked[t] \cup {i}
        /\ work'[t] = [work[t] EXCEPT ![i] = new]
        /\ \A u \in Thread \ {t} : /\ locked'[u] = locked[u] /\ work'[u] = work[u]
                                   /\ staged'[u] = staged[u]
    BY DEF Write, StockInv, TypeOK
  <1>2. work'[t][i] = new /\ \A j \in Item \ {i} : work'[t][j] = work[t][j]
    BY <1>1 DEF StockInv, TypeOK
  <1>3. \E m : /\ staged'[t] = staged[t] \cup {m} /\ m.kind = kind /\ m.key = key
               /\ m.item = i /\ m.delta = delta
    <2> DEFINE low == LowStock(i, before[t], Available(new))
               crossed == /\ Available(Visible(t, i)) > Threshold[i]
                          /\ Threshold[i] >= Available(new)
               m == Movement(kind, key, i, delta, low, crossed)
    <2>1. staged' = [staged EXCEPT ![t] = @ \cup {m}]
      BY DEF Write
    <2>2. m.kind = kind /\ m.key = key /\ m.item = i /\ m.delta = delta
      BY DEF Movement
    <2> HIDE DEF m
    <2> QED BY <2>1, <2>2 DEF StockInv, TypeOK
  <1> QED BY <1>1, <1>2, <1>3 DEF Visible

\* A line more has been moved.
LEMMA LineMoved ==
  ASSUME StockInv, NEW t \in Thread, row[t] # NoOrder, row'[t] # NoOrder,
         row'[t].payload = row[t].payload,
         line[t] \in todo[t], todo'[t] = todo[t] \ {line[t]},
         \A l \in Done(t) : row'[t].alloc[l] = row[t].alloc[l],
         NEW i \in Item
  PROVE  Moved(t, i)' = Moved(t, i) + (IF row'[t].alloc[line[t]] = i THEN Quantity[line[t]] ELSE 0)
  <1>1. /\ line[t] \in LinesOf[row[t].payload] /\ LinesOf[row[t].payload] \in SUBSET Line
        /\ todo[t] \subseteq LinesOf[row[t].payload]
    BY StockAssumption DEF StockInv, RowsAllocated, TypeOK, OrderRow
  <1>2. Done(t)' = Done(t) \cup {line[t]}
    BY <1>1 DEF Done
  <1>a. line[t] \in Line \ Done(t)
    BY <1>1 DEF Done
  <1>b. Done(t) \in SUBSET Line
    BY <1>1 DEF Done
  <1>3. UnitsOf(row'[t].alloc, Done(t), i) = UnitsOf(row[t].alloc, Done(t), i)
    BY SameUnits
  <1>c. ASSUME NEW alloc
        PROVE  Cardinality(UnitsOf(alloc, Done(t) \cup {line[t]}, i)) =
                 Cardinality(UnitsOf(alloc, Done(t), i))
                   + (IF alloc[line[t]] = i THEN Quantity[line[t]] ELSE 0)
    BY ONLY <1>a, <1>b, LineAdds
  <1>4. Cardinality(UnitsOf(row'[t].alloc, Done(t) \cup {line[t]}, i)) =
           Cardinality(UnitsOf(row[t].alloc, Done(t), i))
             + (IF row'[t].alloc[line[t]] = i THEN Quantity[line[t]] ELSE 0)
    BY <1>3, <1>c
  <1>5. Moved(t, i) = Cardinality(UnitsOf(row[t].alloc, Done(t), i))
    BY DEF Moved
  <1>6. Moved(t, i)' = Cardinality(UnitsOf(row'[t].alloc, Done(t) \cup {line[t]}, i))
    BY <1>2 DEF Moved
  <1> QED BY <1>4, <1>5, <1>6

LEMMA MovedNat ==
  ASSUME StockInv, NEW t \in Thread, NEW i \in Item
  PROVE  Moved(t, i) \in Nat
  <1>1. row[t] # NoOrder => LinesOf[row[t].payload] \in SUBSET Line
    BY StockAssumption DEF StockInv, TypeOK, OrderRow
  <1>2. row[t] # NoOrder => Done(t) \in SUBSET Line
    BY <1>1 DEF Done
  <1> QED BY <1>2, UnitsFinite DEF Moved

\* A reservation adds the line to what has been moved.
LEMMA ReserveKeepsBook ==
  ASSUME StockInv, BookInv, NEW t \in Thread, Reserve(t)
  PROVE  BookInv' /\ UNCHANGED db
  <1>0. /\ pc[t] = "reserve"
        /\ req[t] \in IngestRequest
        /\ row[t] # NoOrder
        /\ line[t] \in todo[t] /\ line[t] \in Line
        /\ cand[t] \in Seq(Item) /\ cand[t] # <<>>
        /\ row[t] \in OrderRow
    BY DEF Reserve, StockInv, Control, ControlOf, TypeOK
  <1>a. req[t] \notin StatusRequest /\ req[t] \notin AdjustRequest
    BY <1>0 DEF IngestRequest, StatusRequest, AdjustRequest
  <1>1. \A n \in 1 .. Len(cand[t]) : cand[t][n] \in Candidates[line[t]]
    BY <1>0 DEF BookInv, ThreadInv, Placing
  <1>2. PICK i \in Item : i = Head(cand[t]) /\ i \in Candidates[line[t]]
    BY <1>0, <1>1
  <1> DEFINE b == Visible(t, i)
             q == Quantity[line[t]]
  <1>3. q \in Nat \ {0} /\ b \in Balance
    BY <1>0, <1>2, StockAssumption, VisibleBalanced
  <1>4. CASE Available(b) < q
    <2> HIDE DEF b, q
    <2>1. /\ pc' = [pc EXCEPT ![t] = "readBefore"]
          /\ cand' = [cand EXCEPT ![t] = Tail(@)]
          /\ UNCHANGED <<inventory, orders, movements, req>>
          /\ UNCHANGED <<todo, line, locked, work, row, staged>>
      BY <1>2, <1>3, <1>4 DEF Reserve, Goto, b, q, Available, Balance
    <2>2. /\ pc'[t] = "readBefore" /\ cand'[t] = Tail(cand[t])
          /\ \A u \in Thread \ {t} : pc'[u] = pc[u] /\ line'[u] = line[u] /\ cand'[u] = cand[u]
      BY <2>1 DEF StockInv, TypeOK
    <2>3. \A n \in 1 .. Len(cand'[t]) : cand'[t][n] \in Candidates[line'[t]]
      BY <1>0, <1>1, <2>1, <2>2
    <2>4. Placing(t)' /\ Changing(t)'
      <3>1. Changing(t)'
        BY <1>a, <2>1 DEF Changing
      <3>2. Placing(t)'
        BY <1>0, <2>1, <2>2, <2>3 DEF BookInv, ThreadInv, Placing, EventOwner
      <3> QED BY <3>1, <3>2
    <2> QED BY <1>0, <2>1, <2>2, <2>4, ReadingKeepsBook
  <1>5. CASE Available(b) >= q
    <2> DEFINE new == [b EXCEPT !.reserved = @ + q]
    <2> HIDE DEF b, q
    <2>1. /\ Write(t, i, new, "reservation", <<req[t].hook.ext, line[t]>>, q)
          /\ row' = [row EXCEPT ![t].alloc[line[t]] = i]
          /\ cand' = [cand EXCEPT ![t] = <<>>]
          /\ todo' = [todo EXCEPT ![t] = todo[t] \ {line[t]}]
          /\ line' = [line EXCEPT ![t] = NoItem]
          /\ pc' = [pc EXCEPT ![t] = IF todo[t] \ {line[t]} = {}
                                     THEN "commit" ELSE "candidates"]
          /\ UNCHANGED <<inventory, orders, movements, req>>
      BY <1>2, <1>3, <1>5 DEF Reserve, NextLine, Goto, b, q, Available, Balance
    <2>2. /\ row'[t] = [row[t] EXCEPT !.alloc[line[t]] = i]
          /\ todo'[t] = todo[t] \ {line[t]}
          /\ pc'[t] \in {"commit", "candidates"}
          /\ \A u \in Thread \ {t} : /\ row'[u] = row[u] /\ todo'[u] = todo[u]
                                     /\ pc'[u] = pc[u] /\ line'[u] = line[u]
                                     /\ cand'[u] = cand[u]
      BY <2>1 DEF StockInv, TypeOK
    <2>3. /\ row'[t] \in OrderRow /\ row'[t] # NoOrder
          /\ row'[t].payload = row[t].payload /\ row'[t].evt = row[t].evt
          /\ row'[t].status = row[t].status
          /\ row'[t].alloc[line[t]] = i
          /\ \A l \in Line \ {line[t]} : row'[t].alloc[l] = row[t].alloc[l]
      <3>1. row'[t].alloc = [row[t].alloc EXCEPT ![line[t]] = i]
        BY <1>0, <2>2 DEF OrderRow
      <3>2. row'[t] \in OrderRow
        <4>1. [row[t] EXCEPT !.alloc[line[t]] = i] \in OrderRow
          BY <1>0, <1>2 DEF OrderRow
        <4> QED BY <2>2, <4>1
      <3>3. row[t].alloc \in [Line -> Item \cup {NoItem}]
        BY <1>0 DEF OrderRow
      <3> QED BY ZenonT(40), <1>0, <2>2, <3>1, <3>2, <3>3, StockAssumption DEF OrderRow
    <2>4. /\ Visible(t, i)' = new
          /\ \A j \in Item \ {i} : Visible(t, j)' = Visible(t, j)
          /\ \A u \in Thread \ {t} : /\ locked'[u] = locked[u] /\ work'[u] = work[u]
                                     /\ staged'[u] = staged[u]
          /\ \E m : /\ staged'[t] = staged[t] \cup {m} /\ m.kind = "reservation"
      <3> HIDE DEF new
      <3>1. /\ Visible(t, i)' = new
            /\ \A j \in Item \ {i} : Visible(t, j)' = Visible(t, j)
            /\ \A u \in Thread \ {t} : /\ locked'[u] = locked[u] /\ work'[u] = work[u]
                                       /\ staged'[u] = staged[u]
            /\ \E m : /\ staged'[t] = staged[t] \cup {m} /\ m.kind = "reservation"
                      /\ m.key = <<req[t].hook.ext, line[t]>> /\ m.item = i /\ m.delta = q
        BY <2>1, WriteShows
      <3> QED BY <3>1
    <2>5. \A u \in Thread \ {t} : Rests(u)
      BY <2>1, <2>2, <2>4 DEF Rests
    <2>6. ~ Corrects(t) /\ ~ Corrects(t)'
      BY <1>a, <2>1 DEF Corrects
    <2>7. Works(t)'
      <3>1. ASSUME NEW j \in Item
            PROVE  /\ Moved(t, j)' = Moved(t, j) + (IF i = j THEN q ELSE 0)
                   /\ Moved(t, j) \in Nat
        <4>1. \A l \in Done(t) : row'[t].alloc[l] = row[t].alloc[l]
          <5>1. Done(t) \subseteq Line \ {line[t]}
            BY <1>0, StockAssumption DEF Done, OrderRow
          <5> QED BY <2>3, <5>1
        <4>2. Moved(t, j)' =
              Moved(t, j) + (IF row'[t].alloc[line[t]] = j THEN Quantity[line[t]] ELSE 0)
          BY <1>0, <2>2, <2>3, <4>1, LineMoved
        <4> QED BY <2>3, <4>2, MovedNat DEF q
      <3>2. ASSUME NEW j \in Item
            PROVE  /\ OnHandBy(t, j) = 0 /\ ReservedBy(t, j) = Moved(t, j)
                   /\ OnHandBy(t, j)' = 0 /\ ReservedBy(t, j)' = Moved(t, j)'
        BY <1>0, <1>a, <2>1, <2>6 DEF OnHandBy, ReservedBy
      <3>3. ASSUME NEW j \in Item
            PROVE  /\ Visible(t, j)'.onHand = Visible(t, j).onHand
                   /\ Visible(t, j)'.reserved = Visible(t, j).reserved + (IF i = j THEN q ELSE 0)
                   /\ Visible(t, j) \in Balance
        <4>1. Visible(t, j) \in Balance
          BY VisibleBalanced
        <4>2. CASE i = j
          BY <1>3, <2>4, <4>1, <4>2 DEF b, Balance
        <4>3. CASE i # j
          <5>1. Visible(t, j)' = Visible(t, j)
            BY <2>4, <4>3
          <5> QED BY <4>1, <4>3, <5>1 DEF Balance
        <4> QED BY <4>2, <4>3
      <3>4. ASSUME NEW j \in Item
            PROVE  /\ Visible(t, j).onHand = inventory[j].onHand + OnHandBy(t, j)
                   /\ Visible(t, j).reserved = inventory[j].reserved + ReservedBy(t, j)
                   /\ inventory[j] \in Balance
        BY DEF BookInv, ThreadInv, Works, StockInv, TypeOK
      <3>5. ASSUME NEW j \in Item
            PROVE  /\ Visible(t, j)'.onHand = inventory'[j].onHand + OnHandBy(t, j)'
                   /\ Visible(t, j)'.reserved = inventory'[j].reserved + ReservedBy(t, j)'
        <4>1. inventory'[j] = inventory[j]
          BY <2>1
        <4>2. /\ inventory[j].onHand \in Int /\ inventory[j].reserved \in Int
              /\ Visible(t, j).onHand \in Int /\ Visible(t, j).reserved \in Int
          BY <3>3, <3>4 DEF Balance
        <4>3. Visible(t, j)'.onHand = inventory'[j].onHand + OnHandBy(t, j)'
          BY <3>2, <3>3, <3>4, <4>1, <4>2
        <4>4. (IF i = j THEN q ELSE 0) \in Int
          BY <1>3
        <4>5. Visible(t, j)'.reserved = inventory[j].reserved + Moved(t, j)'
          BY <3>1, <3>2, <3>3, <3>4, <4>2, <4>4
        <4> QED BY <3>2, <4>1, <4>3, <4>5
      <3> QED BY <3>5 DEF Works
    <2>8. Placing(t)'
      <3>1. Fits(row[t], todo[t])
        BY <1>0 DEF BookInv, ThreadInv, Placing
      <3>2. line[t] \in LinesOf[row[t].payload]
        BY <1>0 DEF StockInv, RowsAllocated
      <3>3. Fits(row'[t], todo'[t])
        BY <1>2, <2>2, <2>3, <3>1, <3>2 DEF Fits
      <3>4. /\ row[t].status \in {"pending", "paid"} /\ row[t].evt = req[t].hook.evt
            /\ EventOwner(req[t].hook.evt) = {}
        BY <1>0 DEF BookInv, ThreadInv, Placing
      <3>5. EventOwner(req[t].hook.evt)' = EventOwner(req[t].hook.evt)
        BY <2>1 DEF EventOwner
      <3> QED BY <2>1, <2>2, <2>3, <3>3, <3>4, <3>5 DEF Placing
    <2>9. Changing(t)' /\ Adjusting(t)'
      BY <1>a, <2>1, <2>4, <2>6 DEF BookInv, ThreadInv, Changing, Adjusting
    <2>10. RowsInv'
      BY OthersKeepRows DEF BookInv
    <2>11. Placed(t) /\ req'[t] = req[t]
      BY <1>0, <2>1 DEF Placed
    <2> QED BY <2>1, <2>5, <2>6, <2>7, <2>8, <2>9, <2>10, <2>11, OneThread DEF ThreadInv, db
  <1> QED BY <1>3, <1>4, <1>5 DEF Available, Balance

\* A status change that has moved nothing yet, or moves nothing.
LEMMA LockOrderKeepsBook ==
  ASSUME StockInv, BookInv, NEW t \in Thread, LockOrder(t)
  PROVE  BookInv' /\ UNCHANGED db
  <1> DEFINE o == orders[req[t].ext]
             s == req[t].target
             new == [o EXCEPT !.status = s]
             moved == IF MovesStock(s) THEN LinesOf[o.payload] ELSE {}
  <1>1. CASE \E a \in Answer : Rollback(t, a)
    BY <1>1, RollbackKeepsBook
  <1>2. CASE ~ \E a \in Answer : Rollback(t, a)
    <2>0. /\ req[t] \in StatusRequest /\ req[t].ext \in ExtId /\ s \in Status /\ pc[t] = "lockOrder"
      BY OrderStockAssumption DEF LockOrder, StockInv, Control, ControlOf, StatusRequest
    <2>a. req[t] \notin IngestRequest /\ req[t] \notin AdjustRequest
      BY <2>0 DEF IngestRequest, StatusRequest, AdjustRequest
    <2>1. /\ o # NoOrder
          /\ todo' = [todo EXCEPT ![t] = moved]
          /\ pc' = [pc EXCEPT ![t] = IF moved = {} THEN "commit" ELSE "readItem"]
          /\ row' = [row EXCEPT ![t] = new]
          /\ UNCHANGED <<inventory, orders, movements, req>>
          /\ UNCHANGED <<line, cand, locked, work, staged>>
      BY <1>2 DEF LockOrder, Goto, Answer
    <2>2. /\ row'[t] = new /\ todo'[t] = moved /\ pc'[t] \in {"commit", "readItem"}
          /\ \A u \in Thread \ {t} : row'[u] = row[u] /\ todo'[u] = todo[u] /\ pc'[u] = pc[u]
      BY <2>1 DEF StockInv, TypeOK
    <2>3. o \in OrderRow
      BY <2>0, <2>1 DEF StockInv, TypeOK
    <2>4. new \in OrderRow /\ new # NoOrder /\ new.payload = o.payload /\ new.status = s
      BY <2>0, <2>3, StockAssumption DEF OrderRow
    <2>5. row[t] = NoOrder
      BY <2>0 DEF BookInv, ThreadInv, Changing
    <2>6. ~ Corrects(t) /\ ~ Corrects(t)' /\ ~ Placed(t)'
      BY <2>a, <2>1 DEF Corrects, Placed
    <2>7. \A u \in Thread \ {t} : Rests(u)
      BY <2>1, <2>2 DEF Rests
    <2>8. Works(t)'
      <3>1. ASSUME NEW i \in Item PROVE OnHandBy(t, i)' = 0 /\ ReservedBy(t, i)' = 0
        <4>1. CASE MovesStock(s)
          <5>1. Done(t)' = {}
            BY <2>2, <2>4, <4>1 DEF Done
          <5>2. Moved(t, i)' = 0
            BY <2>2, <2>4, <5>1, NoUnits DEF Moved
          <5> QED BY <2>a, <2>1, <2>6, <5>2 DEF OnHandBy, ReservedBy
        <4>2. CASE ~ MovesStock(s)
          BY <2>a, <2>1, <2>6, <4>2 DEF OnHandBy, ReservedBy, MovesStock
        <4> QED BY <4>1, <4>2
      <3>2. ASSUME NEW i \in Item PROVE Visible(t, i)' = Visible(t, i)
        BY <2>1 DEF Visible
      <3>3. ASSUME NEW i \in Item PROVE OnHandBy(t, i) = 0 /\ ReservedBy(t, i) = 0
        BY <2>5, <2>6, NothingMoved
      <3> QED BY <2>1, <3>1, <3>2, <3>3 DEF BookInv, ThreadInv, Works
    <2>9. Placing(t)' /\ Changing(t)' /\ Adjusting(t)'
      <3>1. Placing(t)'
        BY <2>a, <2>1 DEF Placing
      <3>2. Changing(t)'
        BY <2>1, <2>2, <2>4 DEF Changing
      <3>3. Adjusting(t)'
        BY <2>1, <2>6 DEF BookInv, ThreadInv, Adjusting
      <3> QED BY <3>1, <3>2, <3>3
    <2>10. RowsInv'
      BY LockKeepsRows DEF BookInv
    <2> QED BY <2>1, <2>6, <2>7, <2>8, <2>9, <2>10, OneThread DEF ThreadInv, db
  <1> QED BY <1>1, <1>2

\* The reservation that a status change gives back or ships is still there.
LEMMA ReservationThere ==
  ASSUME StockInv, BookInv, NEW t \in Thread, pc[t] = "moveItem",
         MovesStock(req[t].target), NEW i \in Item, row[t].alloc[line[t]] = i
  PROVE  Visible(t, i).reserved >= Quantity[line[t]] /\ Visible(t, i).onHand >= Quantity[line[t]]
  <1> DEFINE e == req[t].ext
             L == LinesOf[row[t].payload]
  <1>1. /\ req[t] \in StatusRequest /\ req[t] \notin IngestRequest /\ e \in ExtId
        /\ row[t] # NoOrder /\ row[t] \in OrderRow
        /\ line[t] \in todo[t] /\ line[t] \in Line /\ todo[t] \subseteq L
    BY DEF StockInv, Control, ControlOf, TypeOK, RowsAllocated, IngestRequest, StatusRequest
  <1>2. /\ orders[e] # NoOrder
        /\ row[t] = [orders[e] EXCEPT !.status = row[t].status]
        /\ row[t].status \in AllowedTransitions[orders[e].status]
        /\ row[t].status = req[t].target
    BY <1>1 DEF BookInv, RowsInv, RowCurrent, ThreadInv, Changing
  <1>3. orders[e] \in OrderRow /\ Fits(orders[e], {})
    BY <1>1, <1>2 DEF StockInv, TypeOK, BookInv, OrdersFit
  <1>4. orders[e].alloc = row[t].alloc /\ orders[e].payload = row[t].payload
    BY <1>2, <1>3 DEF OrderRow
  <1>5. orders[e].status \in Open
    BY <1>2, <1>3 DEF OrderRow, AllowedTransitions, MovesStock, Open, Status
  <1>6. QuantityAt(orders[e], i) <= Cardinality(UnitsHeld(orders, Open, i))
    <2>1. \A x \in ExtId : orders[x] # NoOrder => orders[x] \in OrderRow /\ Fits(orders[x], {})
      BY DEF StockInv, TypeOK, BookInv, OrdersFit
    <2> QED BY <1>1, <1>2, <1>5, <2>1, OpenHolds
  <1>7. QuantityAt(orders[e], i) = Cardinality(UnitsOf(row[t].alloc, L, i))
    BY <1>3, <1>4, RowUnits
  <1>8. L \in SUBSET Line
    BY <1>1, StockAssumption DEF OrderRow
  <1>9. Done(t) \in SUBSET Line /\ line[t] \in Line \ Done(t) /\ Done(t) \cup {line[t]} \in SUBSET L
    BY <1>1, <1>8 DEF Done
  <1> HIDE DEF L, e
  <1>10. Cardinality(UnitsOf(row[t].alloc, Done(t) \cup {line[t]}, i)) =
           Cardinality(UnitsOf(row[t].alloc, Done(t), i))
             + (IF row[t].alloc[line[t]] = i THEN Quantity[line[t]] ELSE 0)
    <2>1. Done(t) \in SUBSET Line
      BY <1>9
    <2>2. line[t] \in Line \ Done(t)
      BY <1>9
    <2>3. ASSUME NEW alloc
          PROVE  Cardinality(UnitsOf(alloc, Done(t) \cup {line[t]}, i)) =
                   Cardinality(UnitsOf(alloc, Done(t), i))
                     + (IF alloc[line[t]] = i THEN Quantity[line[t]] ELSE 0)
      BY ONLY <2>1, <2>2, LineAdds
    <2> QED BY <2>3
  <1>11. Cardinality(UnitsOf(row[t].alloc, Done(t) \cup {line[t]}, i))
           <= Cardinality(UnitsOf(row[t].alloc, L, i))
    BY ONLY <1>8, <1>9, FewerUnits
  <1>12. /\ Cardinality(UnitsOf(row[t].alloc, L, i)) \in Nat
         /\ Cardinality(UnitsOf(row[t].alloc, Done(t), i)) \in Nat
    BY <1>8, <1>9, UnitsFinite
  <1>13. Quantity[line[t]] \in Nat
    BY <1>1, StockAssumption
  <1>14. inventory[i].reserved = Cardinality(UnitsHeld(orders, Open, i))
    BY DEF BookInv, ReservedByOpenOrders
  <1>15. inventory[i].reserved \in Int
    BY DEF StockInv, TypeOK, Balance
  <1>16. Visible(t, i).reserved = inventory[i].reserved + (0 - Moved(t, i))
    BY <1>1 DEF BookInv, ThreadInv, Works, ReservedBy
  <1>17. Moved(t, i) = Cardinality(UnitsOf(row[t].alloc, Done(t), i))
    BY <1>1 DEF Moved
  <1>18. Visible(t, i).reserved >= Quantity[line[t]]
    <2>1. Moved(t, i) + Quantity[line[t]] <= inventory[i].reserved
      BY <1>6, <1>7, <1>10, <1>11, <1>12, <1>13, <1>14, <1>15, <1>17
    <2> QED BY <1>12, <1>13, <1>15, <1>16, <1>17, <2>1
  <1>19. Visible(t, i) \in Balance /\ Balanced(Visible(t, i))
    BY VisibleBalanced
  <1> QED BY <1>13, <1>18, <1>19 DEF Balance, Balanced

\* A release or a shipment takes the line from what is reserved and, for a
\* shipment, from the shelf; it is never refused.
LEMMA MoveItemKeepsBook ==
  ASSUME StockInv, BookInv, NEW t \in Thread, Release(t) \/ Ship(t)
  PROVE  BookInv' /\ UNCHANGED db /\ UNCHANGED answer
  <1>0. /\ pc[t] = "moveItem"
        /\ req[t] \in StatusRequest
        /\ row[t] # NoOrder /\ row[t] \in OrderRow
        /\ line[t] \in todo[t] /\ line[t] \in Line
    BY DEF Release, Ship, StockInv, Control, ControlOf, TypeOK
  <1>a. req[t] \notin IngestRequest /\ req[t] \notin AdjustRequest
    BY <1>0 DEF IngestRequest, StatusRequest, AdjustRequest
  <1>1. PICK i \in Item : i = row[t].alloc[line[t]]
    BY <1>0, <1>a DEF StockInv, TypeOK, RowsAllocated
  <1> DEFINE b == Visible(t, i)
             q == Quantity[line[t]]
             s == IF req[t].target = "dispatched" THEN q ELSE 0
             new == [onHand |-> b.onHand - s, reserved |-> b.reserved - q]
  <1>2. q \in Nat \ {0} /\ b \in Balance /\ s \in Int
    BY <1>0, StockAssumption, VisibleBalanced
  <1>3. MovesStock(req[t].target)
    BY DEF Release, Ship, MovesStock
  <1>4. b.reserved >= q /\ b.onHand >= q
    BY <1>0, <1>1, <1>3, ReservationThere
  <1>5. /\ \E kind \in {"release", "shipment"} :
             Write(t, i, new, kind, <<req[t].ext, line[t]>>, -q)
        /\ NextLine(t, "readItem")
        /\ UNCHANGED <<cand, row>>
    <2>1. CASE Release(t)
      <3>1. [b EXCEPT !.reserved = @ - q] = new
        <4>1. b = [onHand |-> b.onHand, reserved |-> b.reserved] /\ b.onHand \in Int
          BY <1>2 DEF Balance
        <4>2. s = 0
          BY <2>1 DEF Release
        <4> QED BY <4>1, <4>2
      <3>2. ~ b.reserved < q
        BY <1>2, <1>4 DEF Balance
      <3> HIDE DEF b, q, new
      <3>3. Release(t) => /\ Write(t, i, [b EXCEPT !.reserved = @ - q], "release",
                                     <<req[t].ext, line[t]>>, -q)
                          /\ NextLine(t, "readItem")
                          /\ UNCHANGED <<cand, row>>
        BY <1>1, <3>2 DEF Release, b, q
      <3> QED BY <2>1, <3>1, <3>3
    <2>2. CASE Ship(t)
      <3>1. [onHand |-> b.onHand - q, reserved |-> b.reserved - q] = new
        BY <2>2 DEF Ship
      <3>2. ~ b.reserved < q /\ ~ b.onHand < q
        BY <1>2, <1>4 DEF Balance
      <3> HIDE DEF b, q, new
      <3>3. Ship(t) => /\ Write(t, i, [onHand |-> b.onHand - q, reserved |-> b.reserved - q],
                                "shipment", <<req[t].ext, line[t]>>, -q)
                       /\ NextLine(t, "readItem")
                       /\ UNCHANGED <<cand, row>>
        BY <1>1, <3>2 DEF Ship, b, q
      <3> QED BY <2>2, <3>1, <3>3
    <2> QED BY <2>1, <2>2
  <1> HIDE DEF b, q, s, new
  <1>6. /\ todo' = [todo EXCEPT ![t] = todo[t] \ {line[t]}]
        /\ line' = [line EXCEPT ![t] = NoItem]
        /\ pc' = [pc EXCEPT ![t] = IF todo[t] \ {line[t]} = {} THEN "commit" ELSE "readItem"]
        /\ UNCHANGED <<inventory, orders, movements, req, answer>>
    BY <1>5 DEF NextLine, Goto
  <1>7. /\ todo'[t] = todo[t] \ {line[t]}
        /\ pc'[t] \in {"commit", "readItem"}
        /\ \A u \in Thread \ {t} : /\ todo'[u] = todo[u] /\ pc'[u] = pc[u] /\ line'[u] = line[u]
    BY <1>6 DEF StockInv, TypeOK
  <1>8. /\ Visible(t, i)' = new
        /\ \A j \in Item \ {i} : Visible(t, j)' = Visible(t, j)
        /\ \A u \in Thread \ {t} : /\ locked'[u] = locked[u] /\ work'[u] = work[u]
                                   /\ staged'[u] = staged[u]
        /\ \E m : /\ staged'[t] = staged[t] \cup {m} /\ m.kind # "adjustment"
    <2>1. PICK kind \in {"release", "shipment"} :
            Write(t, i, new, kind, <<req[t].ext, line[t]>>, -q)
      BY <1>5
    <2>2. /\ Visible(t, i)' = new
          /\ \A j \in Item \ {i} : Visible(t, j)' = Visible(t, j)
          /\ \A u \in Thread \ {t} : /\ locked'[u] = locked[u] /\ work'[u] = work[u]
                                     /\ staged'[u] = staged[u]
          /\ \E m : /\ staged'[t] = staged[t] \cup {m} /\ m.kind = kind
                    /\ m.key = <<req[t].ext, line[t]>> /\ m.item = i /\ m.delta = -q
      BY <1>6, <2>1, WriteShows
    <2> QED BY <2>2
  <1>9. \A u \in Thread \ {t} : Rests(u)
    BY <1>5, <1>6, <1>7, <1>8 DEF Rests
  <1>10. ~ Corrects(t) /\ ~ Corrects(t)' /\ ~ Placed(t)'
    BY <1>a, <1>6 DEF Corrects, Placed
  <1>11. Works(t)'
    <2>1. ASSUME NEW j \in Item
          PROVE  /\ Moved(t, j)' = Moved(t, j) + (IF i = j THEN q ELSE 0)
                 /\ Moved(t, j) \in Nat
      <3>1. row'[t] = row[t]
        BY <1>5
      <3>2. Moved(t, j)' =
              Moved(t, j) + (IF row'[t].alloc[line[t]] = j THEN Quantity[line[t]] ELSE 0)
        BY <1>0, <1>7, <3>1, LineMoved
      <3> QED BY <1>1, <3>1, <3>2, MovedNat DEF q
    <2>2. ASSUME NEW j \in Item
          PROVE  /\ ReservedBy(t, j) = 0 - Moved(t, j) /\ ReservedBy(t, j)' = 0 - Moved(t, j)'
                 /\ OnHandBy(t, j) = IF req[t].target = "dispatched" THEN 0 - Moved(t, j) ELSE 0
                 /\ OnHandBy(t, j)' = IF req[t].target = "dispatched" THEN 0 - Moved(t, j)' ELSE 0
      BY <1>0, <1>a, <1>3, <1>6, <1>10 DEF OnHandBy, ReservedBy
    <2>3. ASSUME NEW j \in Item
          PROVE  /\ Visible(t, j)'.onHand = Visible(t, j).onHand - (IF i = j THEN s ELSE 0)
                 /\ Visible(t, j)'.reserved = Visible(t, j).reserved - (IF i = j THEN q ELSE 0)
                 /\ Visible(t, j).onHand \in Int /\ Visible(t, j).reserved \in Int
      <3>1. Visible(t, j).onHand \in Int /\ Visible(t, j).reserved \in Int
        BY VisibleBalanced DEF Balance
      <3>2. CASE i = j
        BY <1>2, <1>8, <3>1, <3>2 DEF b, new
      <3>3. CASE i # j
        <4>1. Visible(t, j)' = Visible(t, j)
          BY <1>8, <3>3
        <4> QED BY <3>1, <3>3, <4>1
      <3> QED BY <3>2, <3>3
    <2>4. ASSUME NEW j \in Item
          PROVE  /\ Visible(t, j).onHand = inventory[j].onHand + OnHandBy(t, j)
                 /\ Visible(t, j).reserved = inventory[j].reserved + ReservedBy(t, j)
                 /\ inventory[j].onHand \in Int /\ inventory[j].reserved \in Int
                 /\ inventory'[j] = inventory[j]
      BY <1>6 DEF BookInv, ThreadInv, Works, StockInv, TypeOK, Balance
    <2>5. ASSUME NEW j \in Item
          PROVE  /\ Visible(t, j)'.onHand = inventory[j].onHand + OnHandBy(t, j)'
                 /\ Visible(t, j)'.reserved = inventory[j].reserved + ReservedBy(t, j)'
      <3>1. CASE i = j
        BY <1>2, <2>1, <2>2, <2>3, <2>4, <3>1 DEF s
      <3>2. CASE i # j
        BY <2>1, <2>2, <2>3, <2>4, <3>2
      <3> QED BY <3>1, <3>2
    <2> QED BY <2>4, <2>5 DEF Works
  <1>12. Placing(t)' /\ Changing(t)' /\ Adjusting(t)'
    <2>1. Placing(t)'
      BY <1>a, <1>6 DEF Placing
    <2>2. Changing(t)'
      BY <1>0, <1>5, <1>6, <1>7 DEF BookInv, ThreadInv, Changing
    <2>3. Adjusting(t)'
      BY <1>6, <1>8, <1>10 DEF BookInv, ThreadInv, Adjusting
    <2> QED BY <2>1, <2>2, <2>3
  <1>13. RowsInv'
    BY OthersKeepRows DEF BookInv
  <1> QED BY <1>6, <1>9, <1>10, <1>11, <1>12, <1>13, OneThread DEF ThreadInv, db

\* A correction locks its row without a change of it.
LEMMA LockItemKeepsBook ==
  ASSUME StockInv, BookInv, NEW t \in Thread, LockItem(t)
  PROVE  BookInv' /\ UNCHANGED db
  <1> DEFINE i == req[t].adj.item
             b == Visible(t, i)
  <1>0. /\ req[t] \in AdjustRequest /\ pc[t] = "lockItem" /\ i \in Item
        /\ req[t] \notin IngestRequest /\ req[t] \notin StatusRequest
        /\ row[t] = NoOrder
    BY StockAssumption DEF LockItem, StockInv, Control, ControlOf, AdjustRequest,
                           IngestRequest, StatusRequest
  <1>1. CASE Rollback(t, "rejected")
    BY <1>1, RollbackKeepsBook DEF Answer
  <1>2. CASE ~ Rollback(t, "rejected")
    <2>1. /\ locked' = [locked EXCEPT ![t] = {i}]
          /\ work' = [work EXCEPT ![t][i] = b]
          /\ pc' = [pc EXCEPT ![t] = "adjust"]
          /\ UNCHANGED <<inventory, orders, movements, req>>
          /\ UNCHANGED <<todo, line, cand, row, staged>>
      BY <1>2 DEF LockItem, Goto
    <2>2. /\ locked'[t] = {i} /\ work'[t][i] = b /\ pc'[t] = "adjust"
          /\ \A u \in Thread \ {t} : locked'[u] = locked[u] /\ work'[u] = work[u] /\ pc'[u] = pc[u]
      BY <1>0, <2>1 DEF StockInv, TypeOK
    <2>3. \A u \in Thread \ {t} : Rests(u)
      BY <2>1, <2>2 DEF Rests
    <2>4. ~ Corrects(t) /\ ~ Corrects(t)' /\ ~ Placed(t)'
      BY <1>0, <2>1, <2>2 DEF Corrects, Placed
    <2>5. Works(t)'
      <3>1. ASSUME NEW j \in Item PROVE OnHandBy(t, j)' = 0 /\ ReservedBy(t, j)' = 0
        BY <1>0, <2>1, <2>4 DEF OnHandBy, ReservedBy
      <3>2. ASSUME NEW j \in Item PROVE OnHandBy(t, j) = 0 /\ ReservedBy(t, j) = 0
        BY <1>0, <2>4, NothingMoved
      <3>3. ASSUME NEW j \in Item
            PROVE  /\ Visible(t, j).onHand = inventory[j].onHand
                   /\ Visible(t, j).reserved = inventory[j].reserved
                   /\ inventory[j].onHand \in Int /\ inventory[j].reserved \in Int
        BY <3>2 DEF BookInv, ThreadInv, Works, StockInv, TypeOK, Balance
      <3>4. ASSUME NEW j \in Item
            PROVE  /\ Visible(t, j)'.onHand = inventory[j].onHand
                   /\ Visible(t, j)'.reserved = inventory[j].reserved
        <4>1. CASE j = i
          <5>1. Visible(t, j)' = Visible(t, j)
            BY <2>2, <4>1 DEF Visible
          <5> QED BY <3>3, <5>1
        <4>2. CASE j # i
          <5>1. Visible(t, j)' = inventory[j]
            BY <2>1, <2>2, <4>2 DEF Visible
          <5> QED BY <5>1
        <4> QED BY <4>1, <4>2
      <3>5. ASSUME NEW j \in Item PROVE inventory'[j] = inventory[j]
        BY <2>1
      <3> QED BY <3>1, <3>3, <3>4, <3>5 DEF Works
    <2>6. Placing(t)' /\ Changing(t)' /\ Adjusting(t)'
      BY <1>0, <2>1, <2>2, <2>4 DEF BookInv, ThreadInv, Placing, Changing, Adjusting
    <2>7. RowsInv'
      BY OthersKeepRows DEF BookInv
    <2> QED BY <2>1, <2>3, <2>4, <2>5, <2>6, <2>7, OneThread DEF ThreadInv, db
  <1> QED BY <1>1, <1>2

\* Its one movement is staged under a key that no other transaction has.
LEMMA AdjustKeepsBook ==
  ASSUME StockInv, BookInv, NEW t \in Thread, Adjust(t)
  PROVE  BookInv' /\ UNCHANGED db
  <1> DEFINE a == req[t].adj
  <1>0. /\ req[t] \in AdjustRequest /\ pc[t] = "adjust" /\ a \in Adjustment
        /\ a.item \in Item /\ a.delta \in Int
        /\ req[t] \notin IngestRequest /\ req[t] \notin StatusRequest
        /\ row[t] = NoOrder
    BY StockAssumption DEF Adjust, StockInv, Control, ControlOf, AdjustRequest,
                           IngestRequest, StatusRequest
  <1>1. CASE Existing(a.key) # {}
    BY <1>0, <1>1, IntegrityKeepsBook DEF Adjust
  <1>2. CASE Existing(a.key) = {}
    <2>0. PICK i \in Item : i = a.item
      BY <1>0
    <2> DEFINE b == Visible(t, i)
               new == [b EXCEPT !.onHand = @ + a.delta]
    <2>1. /\ Write(t, i, new, "adjustment", a.key, a.delta)
          /\ pc' = [pc EXCEPT ![t] = "commit"]
          /\ UNCHANGED <<inventory, orders, movements, req>>
          /\ UNCHANGED <<todo, line, cand, row>>
      BY <1>2, <2>0 DEF Adjust, Goto
    <2> HIDE DEF new, b
    <2>2. pc'[t] = "commit" /\ \A u \in Thread \ {t} : pc'[u] = pc[u]
      BY <2>1 DEF StockInv, TypeOK
    <2>3. /\ Visible(t, i)' = new
          /\ \A j \in Item \ {i} : Visible(t, j)' = Visible(t, j)
          /\ \A u \in Thread \ {t} : /\ locked'[u] = locked[u] /\ work'[u] = work[u]
                                     /\ staged'[u] = staged[u]
          /\ \E m : /\ staged'[t] = staged[t] \cup {m} /\ m.kind = "adjustment" /\ m.key = a.key
                    /\ m.item = i /\ m.delta = a.delta
      BY <2>1, WriteShows
    <2>4. \A u \in Thread \ {t} : Rests(u)
      BY <2>1, <2>2, <2>3 DEF Rests
    <2>5. ~ Corrects(t) /\ Corrects(t)' /\ ~ Placed(t)'
      BY <1>0, <2>1, <2>2 DEF Corrects, Placed
    <2>6. Works(t)'
      <3>1. ASSUME NEW j \in Item
            PROVE  /\ OnHandBy(t, j)' = (IF j = i THEN a.delta ELSE 0)
                   /\ ReservedBy(t, j)' = 0
        BY <1>0, <2>0, <2>1, <2>5 DEF OnHandBy, ReservedBy
      <3>2. ASSUME NEW j \in Item PROVE OnHandBy(t, j) = 0 /\ ReservedBy(t, j) = 0
        BY <1>0, <2>5, NothingMoved
      <3>3. ASSUME NEW j \in Item
            PROVE  /\ Visible(t, j).onHand = inventory[j].onHand
                   /\ Visible(t, j).reserved = inventory[j].reserved
                   /\ inventory[j].onHand \in Int /\ inventory[j].reserved \in Int
        BY <3>2 DEF BookInv, ThreadInv, Works, StockInv, TypeOK, Balance
      <3>4. ASSUME NEW j \in Item
            PROVE  /\ Visible(t, j)'.onHand = inventory[j].onHand + (IF j = i THEN a.delta ELSE 0)
                   /\ Visible(t, j)'.reserved = inventory[j].reserved
        <4>1. CASE j = i
          <5>1. b \in Balance
            BY VisibleBalanced DEF b
          <5>2. new.onHand = b.onHand + a.delta /\ new.reserved = b.reserved
            BY <5>1 DEF new, Balance
          <5> QED BY <2>3, <3>3, <4>1, <5>2 DEF b
        <4>2. CASE j # i
          <5>1. Visible(t, j)' = Visible(t, j)
            BY <2>3, <4>2
          <5> QED BY <3>3, <4>2, <5>1
        <4> QED BY <4>1, <4>2
      <3>5. ASSUME NEW j \in Item PROVE inventory'[j] = inventory[j]
        BY <2>1
      <3> QED BY <3>1, <3>3, <3>4, <3>5 DEF Works
    <2>7. Placing(t)' /\ Changing(t)'
      BY <1>0, <2>1 DEF Placing, Changing
    <2>8. Adjusting(t)'
      <3>1. \A m \in staged[t] : m.kind # "adjustment"
        BY <2>5 DEF BookInv, ThreadInv, Adjusting
      <3>2. Existing(a.key)' = {}
        BY <1>2, <2>1 DEF Existing
      <3> QED BY <2>0, <2>1, <2>3, <2>5, <3>1, <3>2 DEF Adjusting
    <2>9. ASSUME NEW u \in Thread \ {t}, Corrects(u)
          PROVE  req[u].adj.key # req'[t].adj.key
      <3>1. \E m \in staged[u] : m.kind = "adjustment" /\ m.key = req[u].adj.key
        BY <2>9 DEF BookInv, ThreadInv, Adjusting
      <3>2. \A m \in staged[u] : ~ (m.kind = "adjustment" /\ m.key = a.key)
        BY DEF Adjust
      <3> QED BY <2>1, <3>1, <3>2
    <2>10. RowsInv'
      BY OthersKeepRows DEF BookInv
    <2> QED BY <2>1, <2>4, <2>5, <2>6, <2>7, <2>8, <2>9, <2>10, OneThread DEF ThreadInv, db
  <1> QED BY <1>1, <1>2

\* What every commit does.
LEMMA CommitDoes ==
  ASSUME StockInv, BookInv, NEW t \in Thread, Commit(t)
  PROVE  /\ pc[t] = "commit" /\ todo[t] = {} /\ req[t] \in Request
         /\ pc'[t] = "idle" /\ req'[t] = NoRequest
         /\ Forget(t)
         /\ \A u \in Thread \ {t} : Rests(u)
         /\ \A e \in ExtId :
              orders'[e] = IF row[t] # NoOrder /\ e = OrderOf(t) THEN row[t] ELSE orders[e]
         /\ orders' = [e \in ExtId |-> orders'[e]]
         /\ inventory' = [i \in Item |-> Visible(t, i)]
         /\ movements' = movements \cup staged[t]
         /\ \A i \in Item : /\ Visible(t, i) \in Balance /\ inventory[i] \in Balance
                            /\ Visible(t, i).onHand = inventory[i].onHand + OnHandBy(t, i)
                            /\ Visible(t, i).reserved = inventory[i].reserved + ReservedBy(t, i)
  <1>1. pc[t] = "commit" /\ todo[t] = {} /\ req[t] \in Request
    BY DEF Commit, StockInv, Control, ControlOf
  <1>2. /\ pc'[t] = "idle" /\ req'[t] = NoRequest /\ Forget(t)
        /\ \A u \in Thread \ {t} : pc'[u] = pc[u] /\ req'[u] = req[u]
    BY DEF Commit, Reply, StockInv, TypeOK
  <1>3. \A u \in Thread \ {t} : Rests(u)
    BY <1>2 DEF Forget, Rests, StockInv, TypeOK
  <1>4. \A e \in ExtId :
          orders'[e] = IF row[t] # NoOrder /\ e = OrderOf(t) THEN row[t] ELSE orders[e]
    BY DEF Commit, OrderOf
  <1>5. /\ orders' = [e \in ExtId |-> orders'[e]]
        /\ inventory' = [i \in Item |-> Visible(t, i)]
        /\ movements' = movements \cup staged[t]
    BY DEF Commit
  <1>6. \A i \in Item : /\ Visible(t, i) \in Balance /\ inventory[i] \in Balance
                        /\ Visible(t, i).onHand = inventory[i].onHand + OnHandBy(t, i)
                        /\ Visible(t, i).reserved = inventory[i].reserved + ReservedBy(t, i)
    BY VisibleBalanced DEF BookInv, ThreadInv, Works, StockInv, TypeOK
  <1> QED BY <1>1, <1>2, <1>3, <1>4, <1>5, <1>6

\* All lines have been moved.
LEMMA AllMoved ==
  ASSUME StockInv, NEW t \in Thread, todo[t] = {}, row[t] # NoOrder, Fits(row[t], {}),
         NEW i \in Item
  PROVE  Moved(t, i) = QuantityAt(row[t], i) /\ QuantityAt(row[t], i) \in Nat
  <1>1. row[t] \in OrderRow
    BY DEF StockInv, TypeOK
  <1>2. Done(t) = LinesOf[row[t].payload]
    BY DEF Done
  <1> QED BY <1>1, <1>2, RowUnits DEF Moved

\* The commit of an ingestion places its order.
LEMMA CommitPlaces ==
  ASSUME StockInv, BookInv, NEW t \in Thread, Commit(t), req[t] \in IngestRequest
  PROVE  LET e == req[t].hook.ext IN
         /\ e \in ExtId /\ orders[e] = NoOrder
         /\ row[t] \in OrderRow /\ row[t] # NoOrder /\ Fits(row[t], {})
         /\ row[t].status \in {"pending", "paid"}
         /\ row[t].evt = req[t].hook.evt
         /\ \A x \in ExtId : orders[x] = NoOrder \/ orders[x].evt # row[t].evt
         /\ orders'[e] = row[t] /\ \A x \in ExtId \ {e} : orders'[x] = orders[x]
         /\ \A i \in Item : inventory'[i] = [inventory[i] EXCEPT !.reserved =
                                               @ + QuantityAt(row[t], i)]
         /\ \A m \in staged[t] : m.kind # "adjustment"
  <1> DEFINE e == req[t].hook.ext
  <1>0. pc[t] = "commit" /\ todo[t] = {}
    BY CommitDoes
  <1>1. e \in ExtId /\ OrderOf(t) = e /\ req[t] \notin StatusRequest /\ req[t] \notin AdjustRequest
    BY OrderStockAssumption DEF IngestRequest, OrderOf, StatusRequest, AdjustRequest
  <1>2. /\ row[t] # NoOrder /\ Fits(row[t], {}) /\ row[t].status \in {"pending", "paid"}
        /\ row[t].evt = req[t].hook.evt /\ EventOwner(req[t].hook.evt) = {}
    BY <1>0 DEF BookInv, ThreadInv, Placing
  <1>3. row[t] \in OrderRow /\ orders[e] = NoOrder
    BY <1>1, <1>2 DEF StockInv, TypeOK, BookInv, RowsInv, RowCurrent
  <1>4. \A x \in ExtId : orders[x] = NoOrder \/ orders[x].evt # row[t].evt
    BY <1>2 DEF EventOwner
  <1>5. orders'[e] = row[t] /\ \A x \in ExtId \ {e} : orders'[x] = orders[x]
    <2> HIDE DEF e
    <2> QED BY <1>1, <1>2, CommitDoes
  <1>6. ~ Corrects(t)
    BY <1>1 DEF Corrects
  <1>7. ASSUME NEW i \in Item
        PROVE  inventory'[i] = [inventory[i] EXCEPT !.reserved = @ + QuantityAt(row[t], i)]
    <2>1. Moved(t, i) = QuantityAt(row[t], i)
      BY <1>0, <1>2, AllMoved
    <2>2. OnHandBy(t, i) = 0 /\ ReservedBy(t, i) = QuantityAt(row[t], i)
      BY <1>1, <1>6, <2>1 DEF OnHandBy, ReservedBy
    <2>3. /\ inventory'[i] \in Balance /\ inventory[i] \in Balance
          /\ inventory'[i].onHand = inventory[i].onHand + 0
          /\ inventory'[i].reserved = inventory[i].reserved + QuantityAt(row[t], i)
      BY <2>2, CommitDoes
    <2> QED BY <2>3 DEF Balance
  <1>8. \A m \in staged[t] : m.kind # "adjustment"
    BY <1>6 DEF BookInv, ThreadInv, Adjusting
  <1> QED BY <1>1, <1>2, <1>3, <1>4, <1>5, <1>7, <1>8

\* The commit of a status change changes the status, and the stock when the
\* order is cancelled or dispatched.
LEMMA CommitChanges ==
  ASSUME StockInv, BookInv, NEW t \in Thread, Commit(t), req[t] \in StatusRequest
  PROVE  LET e == req[t].ext
             s == req[t].target
             q(i) == QuantityAt(orders[e], i)
         IN
         /\ e \in ExtId /\ orders[e] # NoOrder /\ orders[e] \in OrderRow
         /\ s \in AllowedTransitions[orders[e].status]
         /\ orders'[e] = [orders[e] EXCEPT !.status = s]
         /\ \A x \in ExtId \ {e} : orders'[x] = orders[x]
         /\ \A i \in Item :
              /\ q(i) \in Nat
              /\ inventory'[i] =
                   IF s = "cancelled" THEN [inventory[i] EXCEPT !.reserved = @ - q(i)]
                   ELSE IF s = "dispatched"
                        THEN [onHand |-> inventory[i].onHand - q(i),
                              reserved |-> inventory[i].reserved - q(i)]
                        ELSE inventory[i]
         /\ \A m \in staged[t] : m.kind # "adjustment"
  <1> DEFINE e == req[t].ext
             s == req[t].target
             q(i) == QuantityAt(orders[e], i)
  <1>0. pc[t] = "commit" /\ todo[t] = {}
    BY CommitDoes
  <1>1. e \in ExtId /\ OrderOf(t) = e /\ req[t] \notin IngestRequest /\ req[t] \notin AdjustRequest
    BY DEF IngestRequest, OrderOf, StatusRequest, AdjustRequest
  <1>2. /\ row[t] # NoOrder /\ row[t].status = s /\ orders[e] # NoOrder
        /\ row[t] = [orders[e] EXCEPT !.status = s]
        /\ s \in AllowedTransitions[orders[e].status]
    BY <1>0, <1>1 DEF BookInv, ThreadInv, Changing, RowsInv, RowCurrent
  <1>3. orders[e] \in OrderRow /\ Fits(orders[e], {})
    BY <1>1, <1>2 DEF StockInv, TypeOK, BookInv, OrdersFit
  <1>4. row[t].alloc = orders[e].alloc /\ row[t].payload = orders[e].payload
    BY <1>2, <1>3 DEF OrderRow
  <1>5. orders'[e] = row[t] /\ \A x \in ExtId \ {e} : orders'[x] = orders[x]
    <2> HIDE DEF e
    <2> QED BY <1>1, <1>2, CommitDoes
  <1>6. ~ Corrects(t)
    BY <1>1 DEF Corrects
  <1>7. Fits(row[t], {})
    BY <1>3, <1>4 DEF Fits
  <1>8. ASSUME NEW i \in Item PROVE Moved(t, i) = q(i) /\ q(i) \in Nat
    <2>1. QuantityAt(row[t], i) = q(i)
      BY <1>4 DEF QuantityAt, Units
    <2> QED BY <1>0, <1>2, <1>7, <2>1, AllMoved
  <1>9. ASSUME NEW i \in Item
        PROVE  inventory'[i] =
                 IF s = "cancelled" THEN [inventory[i] EXCEPT !.reserved = @ - q(i)]
                 ELSE IF s = "dispatched"
                      THEN [onHand |-> inventory[i].onHand - q(i),
                            reserved |-> inventory[i].reserved - q(i)]
                      ELSE inventory[i]
    <2>1. /\ OnHandBy(t, i) = IF s = "dispatched" THEN 0 - q(i) ELSE 0
          /\ ReservedBy(t, i) = IF MovesStock(s) THEN 0 - q(i) ELSE 0
      BY <1>1, <1>6, <1>8 DEF OnHandBy, ReservedBy
    <2>2. /\ inventory'[i] \in Balance /\ inventory[i] \in Balance
          /\ inventory'[i].onHand = inventory[i].onHand + OnHandBy(t, i)
          /\ inventory'[i].reserved = inventory[i].reserved + ReservedBy(t, i)
      BY CommitDoes
    <2>3. q(i) \in Nat
      BY <1>8
    <2> HIDE DEF q, s
    <2>4. CASE s = "cancelled"
      BY <2>1, <2>2, <2>3, <2>4 DEF Balance, MovesStock
    <2>5. CASE s = "dispatched"
      BY <2>1, <2>2, <2>3, <2>5 DEF Balance, MovesStock
    <2>6. CASE s \notin {"cancelled", "dispatched"}
      BY <2>1, <2>2, <2>3, <2>6 DEF Balance, MovesStock
    <2> QED BY <2>4, <2>5, <2>6
  <1>10. \A m \in staged[t] : m.kind # "adjustment"
    BY <1>6 DEF BookInv, ThreadInv, Adjusting
  <1> QED BY <1>1, <1>2, <1>3, <1>5, <1>8, <1>9, <1>10

\* The commit of a correction changes one row and books its key.
LEMMA CommitAdjusts ==
  ASSUME StockInv, BookInv, NEW t \in Thread, Commit(t), req[t] \in AdjustRequest
  PROVE  LET a == req[t].adj IN
         /\ a \in Adjustment /\ a.item \in Item
         /\ UNCHANGED orders
         /\ \A i \in Item : inventory'[i] =
              IF i = a.item THEN [inventory[i] EXCEPT !.onHand = @ + a.delta] ELSE inventory[i]
         /\ inventory'[a.item].reserved <= inventory'[a.item].onHand
         /\ Existing(a.key) = {}
         /\ \A m \in staged[t] : m.kind = "adjustment" =>
              m.key = a.key /\ m.item = a.item /\ m.delta = a.delta
         /\ \E m \in staged[t] : m.kind = "adjustment"
  <1> DEFINE a == req[t].adj
  <1>0. pc[t] = "commit"
    BY CommitDoes
  <1>1. /\ a \in Adjustment /\ a.item \in Item /\ a.delta \in Int
        /\ req[t] \notin IngestRequest /\ req[t] \notin StatusRequest
        /\ row[t] = NoOrder
    BY StockAssumption DEF AdjustRequest, IngestRequest, StatusRequest, StockInv, Control, ControlOf
  <1>2. Corrects(t)
    BY <1>0 DEF Corrects
  <1>3. /\ Existing(a.key) = {}
        /\ \A m \in staged[t] : m.kind = "adjustment" =>
             m.key = a.key /\ m.item = a.item /\ m.delta = a.delta
        /\ \E m \in staged[t] : m.kind = "adjustment"
    BY <1>2 DEF BookInv, ThreadInv, Adjusting
  <1>4. UNCHANGED orders
    <2>1. \A e \in ExtId : orders'[e] = orders[e]
      BY <1>1, CommitDoes
    <2>2. orders = [e \in ExtId |-> orders[e]]
      BY DEF StockInv, TypeOK
    <2>3. orders' = [e \in ExtId |-> orders'[e]]
      BY CommitDoes
    <2> QED BY <2>1, <2>2, <2>3
  <1>5. ASSUME NEW i \in Item
        PROVE  inventory'[i] =
                 IF i = a.item THEN [inventory[i] EXCEPT !.onHand = @ + a.delta] ELSE inventory[i]
    <2>1. OnHandBy(t, i) = (IF i = a.item THEN a.delta ELSE 0) /\ ReservedBy(t, i) = 0
      BY <1>1, <1>2 DEF OnHandBy, ReservedBy
    <2>2. /\ inventory'[i] \in Balance /\ inventory[i] \in Balance
          /\ inventory'[i].onHand = inventory[i].onHand + OnHandBy(t, i)
          /\ inventory'[i].reserved = inventory[i].reserved + ReservedBy(t, i)
      BY CommitDoes
    <2> HIDE DEF a
    <2>3. CASE i = a.item
      BY <1>1, <2>1, <2>2, <2>3 DEF Balance
    <2>4. CASE i # a.item
      BY <1>1, <2>1, <2>2, <2>4 DEF Balance
    <2> QED BY <2>3, <2>4
  <1>6. inventory'[a.item].reserved <= inventory'[a.item].onHand
    BY <1>1, CommitDoes, VisibleBalanced DEF Balanced
  <1> QED BY <1>1, <1>3, <1>4, <1>5, <1>6

\* A status change that moves stock closes an open order, and no other does.
LEMMA StatusSteps ==
  ASSUME NEW s \in Status, NEW n \in AllowedTransitions[s]
  PROVE  /\ n \in Status
         /\ MovesStock(n) => s \in Open /\ n \notin Open
         /\ ~ MovesStock(n) => (s \in Open <=> n \in Open)
  BY DEF Status, AllowedTransitions, MovesStock, Open

\* The committed orders stay allocated, and the reservations are theirs.
LEMMA CommitKeepsReservations ==
  ASSUME StockInv, BookInv, NEW t \in Thread, Commit(t)
  PROVE  OrdersFit' /\ ReservedByOpenOrders'
  <1>1. \A x \in ExtId : orders[x] # NoOrder => orders[x] \in OrderRow /\ Fits(orders[x], {})
    BY DEF StockInv, TypeOK, BookInv, OrdersFit
  <1>2. \A i \in Item : /\ inventory[i].reserved = Cardinality(UnitsHeld(orders, Open, i))
                        /\ inventory[i] \in Balance
    BY DEF BookInv, ReservedByOpenOrders, StockInv, TypeOK
  <1>3. CASE req[t] \in IngestRequest
    <2> DEFINE e == req[t].hook.ext
    <2>1. /\ e \in ExtId /\ orders[e] = NoOrder
          /\ row[t] \in OrderRow /\ row[t] # NoOrder /\ Fits(row[t], {})
          /\ row[t].status \in {"pending", "paid"}
          /\ orders'[e] = row[t] /\ \A x \in ExtId \ {e} : orders'[x] = orders[x]
          /\ \A i \in Item : inventory'[i] = [inventory[i] EXCEPT !.reserved =
                                                @ + QuantityAt(row[t], i)]
      BY <1>3, CommitPlaces
    <2> HIDE DEF e
    <2>2. OrdersFit'
      <3>1. ASSUME NEW x \in ExtId, orders'[x] # NoOrder PROVE Fits(orders'[x], {})
        BY <1>1, <2>1, <3>1
      <3> QED BY <3>1 DEF OrdersFit
    <2>3. ASSUME NEW i \in Item
          PROVE  inventory'[i].reserved = Cardinality(UnitsHeld(orders', Open, i))
      <3>1. orders'[e] \in OrderRow /\ Fits(orders'[e], {}) /\ orders'[e].status \in Open
        BY <2>1 DEF Open
      <3>2. Cardinality(UnitsHeld(orders', Open, i)) =
              Cardinality(UnitsHeld(orders, Open, i)) + QuantityAt(orders'[e], i)
        BY <1>1, <2>1, <3>1, OrderAdds
      <3>3. inventory'[i].reserved = inventory[i].reserved + QuantityAt(row[t], i)
        BY <1>2, <2>1 DEF Balance
      <3> QED BY <1>2, <2>1, <3>2, <3>3
    <2> QED BY <2>2, <2>3 DEF ReservedByOpenOrders
  <1>4. CASE req[t] \in StatusRequest
    <2> DEFINE e == req[t].ext
               s == req[t].target
               q(i) == QuantityAt(orders[e], i)
    <2>1. /\ e \in ExtId /\ orders[e] # NoOrder /\ orders[e] \in OrderRow
          /\ s \in AllowedTransitions[orders[e].status]
          /\ orders'[e] = [orders[e] EXCEPT !.status = s]
          /\ \A x \in ExtId \ {e} : orders'[x] = orders[x]
          /\ \A i \in Item :
               /\ q(i) \in Nat
               /\ inventory'[i] =
                    IF s = "cancelled" THEN [inventory[i] EXCEPT !.reserved = @ - q(i)]
                    ELSE IF s = "dispatched"
                         THEN [onHand |-> inventory[i].onHand - q(i),
                               reserved |-> inventory[i].reserved - q(i)]
                         ELSE inventory[i]
      BY <1>4, CommitChanges
    <2>2. /\ orders'[e].status = s /\ orders'[e].alloc = orders[e].alloc
          /\ orders'[e].payload = orders[e].payload
          /\ orders'[e] # NoOrder
      <3>1. s \in Status
        BY <2>1, StatusSteps DEF OrderRow
      <3>2. [orders[e] EXCEPT !.status = s] \in OrderRow
        BY <2>1, <3>1 DEF OrderRow
      <3> QED BY <2>1, <3>2, StockAssumption DEF OrderRow
    <2>5. orders[e].status \in Status
      BY <2>1 DEF OrderRow
    <2> HIDE DEF e, s
    <2>6. s \in AllowedTransitions[orders[e].status]
      BY <2>1
    <2>7. /\ MovesStock(s) => orders[e].status \in Open /\ s \notin Open
          /\ ~ MovesStock(s) => (orders[e].status \in Open <=> s \in Open)
      BY ONLY <2>5, <2>6, StatusSteps
    <2>8. e \in ExtId /\ orders[e] # NoOrder /\ \A x \in ExtId \ {e} : orders'[x] = orders[x]
      BY <2>1
    <2>3. OrdersFit'
      <3>1. Fits(orders'[e], {})
        BY <1>1, <2>1, <2>2 DEF Fits
      <3>2. ASSUME NEW x \in ExtId, orders'[x] # NoOrder PROVE Fits(orders'[x], {})
        BY <1>1, <2>1, <3>1, <3>2
      <3> QED BY <3>2 DEF OrdersFit
    <2>4. ASSUME NEW i \in Item
          PROVE  inventory'[i].reserved = Cardinality(UnitsHeld(orders', Open, i))
      <3>1. CASE MovesStock(s)
        <4>1. orders[e].status \in Open /\ orders'[e].status \notin Open
          BY <2>2, <2>7, <3>1
        <4>2. Cardinality(UnitsHeld(orders', Open, i)) =
                Cardinality(UnitsHeld(orders, Open, i)) - QuantityAt(orders[e], i)
          <5>1. /\ orders[e].status \in Open
                /\ orders'[e].status \notin Open
            BY <4>1
          <5>2. ASSUME NEW new, new[e].status \notin Open, \A x \in ExtId \ {e} : new[x] = orders[x]
                PROVE  Cardinality(UnitsHeld(new, Open, i)) =
                         Cardinality(UnitsHeld(orders, Open, i)) - QuantityAt(orders[e], i)
            BY ONLY <1>1, <2>8, <5>1, <5>2, OrderLeaves, i \in Item
          <5> QED BY ONLY <2>8, <5>1, <5>2
        <4>3. inventory'[i].reserved = inventory[i].reserved - q(i)
          <5>1. CASE s = "cancelled"
            <6>1. inventory'[i] = [inventory[i] EXCEPT !.reserved = @ - q(i)]
              BY <2>1, <5>1
            <6> HIDE DEF q
            <6> QED BY <1>2, <6>1 DEF Balance
          <5>2. CASE s = "dispatched"
            <6>1. inventory'[i] = [onHand |-> inventory[i].onHand - q(i),
                                  reserved |-> inventory[i].reserved - q(i)]
              BY <2>1, <5>2
            <6> HIDE DEF q
            <6> QED BY <6>1
          <5> QED BY <3>1, <5>1, <5>2 DEF MovesStock
        <4> QED BY <1>2, <4>2, <4>3
      <3>2. CASE ~ MovesStock(s)
        <4>1. orders[e].status \in Open <=> orders'[e].status \in Open
          BY ONLY <2>2, <2>7, <3>2
        <4>2. UnitsHeld(orders', Open, i) = UnitsHeld(orders, Open, i)
          <5>1. ASSUME NEW new, new[e] # NoOrder, new[e].alloc = orders[e].alloc,
                       new[e].status \in Open <=> orders[e].status \in Open,
                       \A x \in ExtId \ {e} : new[x] = orders[x]
                PROVE  UnitsHeld(new, Open, i) = UnitsHeld(orders, Open, i)
            BY ONLY <2>8, <5>1, OrderStays, i \in Item
          <5> QED BY <2>2, <2>8, <4>1, <5>1
        <4>3. inventory'[i] = inventory[i]
          BY <2>1, <3>2 DEF MovesStock
        <4> QED BY <1>2, <4>2, <4>3
      <3> QED BY <3>1, <3>2
    <2> QED BY <2>3, <2>4 DEF ReservedByOpenOrders
  <1>5. CASE req[t] \in AdjustRequest
    <2>1. /\ UNCHANGED orders
          /\ \A i \in Item : inventory'[i] =
               IF i = req[t].adj.item THEN [inventory[i] EXCEPT !.onHand = @ + req[t].adj.delta]
                                      ELSE inventory[i]
      BY <1>5, CommitAdjusts
    <2>2. \A i \in Item : inventory'[i].reserved = inventory[i].reserved
      BY <1>2, <2>1 DEF Balance
    <2> QED BY <2>1, <2>2 DEF BookInv, OrdersFit, ReservedByOpenOrders
  <1> QED BY <1>3, <1>4, <1>5, CommitDoes DEF Request

\* Another transaction does not notice the commit: its rows are locked, and
\* its keys are not those of the commit.
LEMMA CommitLeavesOthers ==
  ASSUME StockInv, BookInv, NEW t \in Thread, Commit(t), NEW u \in Thread \ {t}
  PROVE  ThreadInv(u)'
  <1>1. Rests(u) /\ ThreadInv(u)
    BY CommitDoes DEF BookInv
  <1>2. Corrects(u)' = Corrects(u) /\ Placed(u)' = Placed(u)
    BY <1>1 DEF Rests, Corrects, Placed
  <1>3. Works(u)'
    <2>1. ASSUME NEW i \in Item
          PROVE  /\ OnHandBy(u, i)' = OnHandBy(u, i) /\ ReservedBy(u, i)' = ReservedBy(u, i)
                 /\ OnHandBy(u, i) \in Int /\ ReservedBy(u, i) \in Int
      <3>1. Moved(u, i)' = Moved(u, i)
        BY <1>1 DEF Rests, Moved, Done
      <3>2. Moved(u, i) \in Int
        BY MovedNat
      <3>3. Corrects(u) => req[u].adj.delta \in Int
        BY StockAssumption DEF Corrects, AdjustRequest
      <3> QED BY <1>1, <1>2, <3>1, <3>2, <3>3 DEF Rests, OnHandBy, ReservedBy
    <2>2. ASSUME NEW i \in Item
          PROVE  /\ Visible(u, i).onHand = inventory[i].onHand + OnHandBy(u, i)
                 /\ Visible(u, i).reserved = inventory[i].reserved + ReservedBy(u, i)
                 /\ inventory[i].onHand \in Int /\ inventory[i].reserved \in Int
                 /\ inventory'[i] = Visible(t, i)
                 /\ Visible(t, i).onHand \in Int /\ Visible(t, i).reserved \in Int
      <3>1. Visible(t, i) \in Balance /\ inventory[i] \in Balance /\ inventory'[i] = Visible(t, i)
        BY CommitDoes
      <3> QED BY <1>1, <3>1 DEF ThreadInv, Works, Balance
    <2>3. ASSUME NEW i \in Item
          PROVE  /\ Visible(u, i)'.onHand = inventory'[i].onHand + OnHandBy(u, i)'
                 /\ Visible(u, i)'.reserved = inventory'[i].reserved + ReservedBy(u, i)'
      <3>1. CASE i \in locked[u]
        <4>1. Visible(t, i) = inventory[i]
          BY <3>1 DEF StockInv, LocksExclusive, Visible
        <4>2. Visible(u, i)' = Visible(u, i)
          BY <1>1, <3>1 DEF Rests, Visible
        <4> QED BY <2>1, <2>2, <4>1, <4>2
      <3>2. CASE i \notin locked[u]
        <4>1. Visible(u, i)' = inventory'[i] /\ Visible(u, i) = inventory[i]
          BY <1>1, <3>2 DEF Rests, Visible
        <4>2. OnHandBy(u, i) = 0 /\ ReservedBy(u, i) = 0
          BY <2>1, <2>2, <4>1
        <4> QED BY <2>1, <2>2, <4>1, <4>2
      <3> QED BY <3>1, <3>2
    <2> QED BY <2>3 DEF Works
  <1>4. Placing(u)'
    <2>1. ASSUME req[u] \in IngestRequest, row[u] # NoOrder
          PROVE  EventOwner(req[u].hook.evt)' = {}
      <3> DEFINE v == req[u].hook.evt
      <3>1. EventOwner(v) = {} /\ Placed(u)
        BY <1>1, <2>1 DEF ThreadInv, Placing, Placed
      <3>2. \A x \in ExtId : orders[x] = NoOrder \/ orders[x].evt # v
        BY <3>1 DEF EventOwner
      <3>3. ASSUME NEW x \in ExtId PROVE orders'[x] = NoOrder \/ orders'[x].evt # v
        <4>1. CASE req[t] \in IngestRequest
          <5>1. /\ orders'[req[t].hook.ext] = row[t] /\ row[t].evt = req[t].hook.evt
                /\ row[t] # NoOrder
                /\ \A y \in ExtId \ {req[t].hook.ext} : orders'[y] = orders[y]
            BY <4>1, CommitPlaces
          <5>2. Placed(t)
            BY <4>1, <5>1 DEF Placed
          <5>3. req[t].hook.evt # v
            BY <3>1, <5>2 DEF BookInv, EventsApart
          <5> HIDE DEF v
          <5> QED BY <3>2, <5>1, <5>3
        <4>2. CASE req[t] \in StatusRequest
          <5>1. /\ orders[req[t].ext] # NoOrder /\ orders[req[t].ext] \in OrderRow
                /\ orders'[req[t].ext] = [orders[req[t].ext] EXCEPT !.status = req[t].target]
                /\ \A y \in ExtId \ {req[t].ext} : orders'[y] = orders[y]
            BY <4>2, CommitChanges
          <5>2. orders'[req[t].ext].evt = orders[req[t].ext].evt
            BY <5>1 DEF OrderRow
          <5> HIDE DEF v
          <5> QED BY <3>2, <5>1, <5>2
        <4>3. CASE req[t] \in AdjustRequest
          BY <3>2, <4>3, CommitAdjusts
        <4> QED BY <4>1, <4>2, <4>3, CommitDoes DEF Request
      <3>4. req'[u] = req[u]
        BY <1>1 DEF Rests
      <3> QED BY <3>3, <3>4 DEF EventOwner
    <2> QED BY <1>1, <2>1 DEF Rests, ThreadInv, Placing
  <1>5. Changing(u)'
    BY <1>1 DEF Rests, ThreadInv, Changing
  <1>6. Adjusting(u)'
    <2>1. ASSUME Corrects(u)
          PROVE  Existing(req[u].adj.key)' = {}
      <3>1. \A m \in movements : ~ (m.kind = "adjustment" /\ m.key = req[u].adj.key)
        BY <1>1, <2>1 DEF ThreadInv, Adjusting, Existing
      <3>2. \A m \in staged[t] : ~ (m.kind = "adjustment" /\ m.key = req[u].adj.key)
        BY <2>1 DEF BookInv, ThreadInv, Adjusting, KeysApart
      <3>3. movements' = movements \cup staged[t] /\ req'[u] = req[u]
        BY <1>1, CommitDoes DEF Rests
      <3> QED BY <3>1, <3>2, <3>3 DEF Existing
    <2> QED BY <1>1, <1>2, <2>1 DEF Rests, ThreadInv, Adjusting
  <1> QED BY <1>3, <1>4, <1>5, <1>6 DEF ThreadInv

LEMMA CommitKeepsBook ==
  ASSUME StockInv, BookInv, NEW t \in Thread, Commit(t)
  PROVE  BookInv'
  <1>1. /\ row'[t] = NoOrder /\ locked'[t] = {} /\ staged'[t] = {} /\ pc'[t] = "idle"
        /\ req'[t] = NoRequest
    BY CommitDoes DEF Forget, StockInv, TypeOK
  <1>2. \A u \in Thread \ {t} : Rests(u)
    BY CommitDoes
  <1>3. ~ Placed(t)' /\ ~ Corrects(t)'
    BY <1>1 DEF Placed, Corrects
  <1>4. \A u \in Thread \ {t} : /\ Placed(u)' = Placed(u) /\ Corrects(u)' = Corrects(u)
                                /\ req'[u] = req[u]
    BY <1>2 DEF Rests, Placed, Corrects
  <1>5. EventsApart' /\ KeysApart'
    <2>1. EventsApart'
      BY <1>3, <1>4 DEF BookInv, EventsApart
    <2>2. KeysApart'
      BY <1>3, <1>4 DEF BookInv, KeysApart
    <2> QED BY <2>1, <2>2
  <1>6. ThreadInv(t)'
    <2>1. Works(t)'
      <3>1. ASSUME NEW i \in Item PROVE OnHandBy(t, i)' = 0 /\ ReservedBy(t, i)' = 0
        <4>1. Moved(t, i)' = 0
          BY <1>1 DEF Moved
        <4> QED BY <1>3, <4>1 DEF OnHandBy, ReservedBy
      <3>2. ASSUME NEW i \in Item PROVE Visible(t, i)' = inventory'[i]
        BY <1>1 DEF Visible
      <3>3. ASSUME NEW i \in Item
            PROVE  inventory'[i].onHand \in Int /\ inventory'[i].reserved \in Int
        BY CommitDoes DEF Balance
      <3> QED BY <3>1, <3>2, <3>3 DEF Works
    <2>2. Placing(t)' /\ Changing(t)' /\ Adjusting(t)'
      BY <1>1, <1>3 DEF Placing, Changing, Adjusting
    <2> QED BY <2>1, <2>2 DEF ThreadInv
  <1>7. RowsInv'
    BY CommitKeepsRows DEF BookInv
  <1>8. OrdersFit' /\ ReservedByOpenOrders'
    BY CommitKeepsReservations
  <1>9. \A u \in Thread : ThreadInv(u)'
    BY <1>6, CommitLeavesOthers
  <1> QED BY <1>5, <1>7, <1>8, <1>9 DEF BookInv

\* Nothing is reserved and nobody has begun.
LEMMA InitKeepsBook ==
  ASSUME Init
  PROVE  BookInv
  <1>1. \A t \in Thread : /\ row[t] = NoOrder /\ pc[t] = "idle" /\ req[t] = NoRequest
                          /\ staged[t] = {} /\ locked[t] = {}
    BY DEF Init
  <1>2. RowsInv /\ OrdersFit
    BY <1>1 DEF Init, RowsInv, RowsApart, RowCurrent, OrdersFit
  <1>3. EventsApart /\ KeysApart
    BY <1>1 DEF EventsApart, KeysApart, Placed, Corrects
  <1>4. ASSUME NEW t \in Thread PROVE ThreadInv(t)
    <2>1. ~ Corrects(t)
      BY <1>1 DEF Corrects
    <2>2. ASSUME NEW i \in Item PROVE OnHandBy(t, i) = 0 /\ ReservedBy(t, i) = 0
      BY <1>1, <2>1, NothingMoved
    <2>3. ASSUME NEW i \in Item PROVE inventory[i].onHand \in Int /\ inventory[i].reserved \in Int
      BY StockAssumption DEF Init
    <2>4. ASSUME NEW i \in Item PROVE Visible(t, i) = inventory[i]
      BY <1>1 DEF Visible
    <2>5. Works(t)
      BY <2>2, <2>3, <2>4 DEF Works
    <2>6. Placing(t) /\ Changing(t) /\ Adjusting(t)
      BY <1>1, <2>1 DEF Placing, Changing, Adjusting
    <2> QED BY <2>5, <2>6 DEF ThreadInv
  <1>5. ReservedByOpenOrders
    <2>1. ASSUME NEW i \in Item PROVE UnitsHeld(orders, Open, i) = {}
      BY DEF Init, UnitsHeld, OrdersIn
    <2>2. ASSUME NEW i \in Item PROVE inventory[i].reserved = 0
      BY DEF Init
    <2> QED BY <2>1, <2>2, FS_EmptySet DEF ReservedByOpenOrders
  <1> QED BY <1>2, <1>3, <1>4, <1>5 DEF BookInv

\* Every step but a commit leaves the tables alone.
LEMMA OthersKeepBook ==
  ASSUME StockInv, BookInv, NEW t \in Thread,
         Ingest(t) \/ UpdateStatus(t) \/ RequestAdjustment(t) \/ Step(t) \/ Crash(t),
         ~ Commit(t)
  PROVE  BookInv' /\ UNCHANGED db
  <1>1. CASE Ingest(t) \/ UpdateStatus(t) \/ RequestAdjustment(t)
    <2>1. RowsInv'
      BY <1>1, OthersKeepRows DEF BookInv
    <2>2. CASE Ingest(t)
      BY <2>1, <2>2, BeginKeepsBook DEF Ingest, IngestRequest
    <2>3. CASE UpdateStatus(t)
      BY <2>1, <2>3, BeginKeepsBook, OrderStockAssumption DEF UpdateStatus, StatusRequest
    <2>4. CASE RequestAdjustment(t)
      BY <2>1, <2>4, BeginKeepsBook DEF RequestAdjustment, AdjustRequest
    <2> QED BY <1>1, <2>2, <2>3, <2>4
  <1>2. CASE Step(t)
    <2>1. CASE LookupOrder(t) \/ LookupEvent(t) \/ LookupMovement(t)
      BY <2>1, LookupsKeepBook
    <2>2. CASE SelectCandidates(t) \/ ReadBefore(t) \/ ReadItem(t)
      BY <2>2, ReadsKeepBook
    <2>3. CASE InsertOrder(t)
      BY <2>3, InsertKeepsBook
    <2>4. CASE Reserve(t)
      BY <2>4, ReserveKeepsBook
    <2>5. CASE LockOrder(t)
      BY <2>5, LockOrderKeepsBook
    <2>6. CASE Release(t) \/ Ship(t)
      BY <2>6, MoveItemKeepsBook
    <2>7. CASE LockItem(t)
      BY <2>7, LockItemKeepsBook
    <2>8. CASE Adjust(t)
      BY <2>8, AdjustKeepsBook
    <2>9. CASE Deadlock(t)
      BY <2>9, RollbackKeepsBook DEF Deadlock, Answer
    <2> QED BY <1>2, <2>1, <2>2, <2>3, <2>4, <2>5, <2>6, <2>7, <2>8, <2>9 DEF Step
  <1>3. CASE Crash(t)
    BY <1>3, RollbackKeepsBook DEF Crash, Answer
  <1> QED BY <1>1, <1>2, <1>3

LEMMA NextKeepsBook ==
  ASSUME StockInv, BookInv, [Next]_vars
  PROVE  BookInv'
  <1>1. CASE UNCHANGED vars
    <2>1. UNCHANGED <<inventory, orders, movements>> /\ \A u \in Thread : Rests(u)
      BY <1>1 DEF vars, Rests
    <2>2. \A u \in Thread : /\ Placed(u)' = Placed(u) /\ Corrects(u)' = Corrects(u)
                            /\ req'[u] = req[u]
      BY <2>1 DEF Rests, Placed, Corrects
    <2>3. EventsApart'
      BY <2>2 DEF BookInv, EventsApart
    <2>4. KeysApart'
      BY <2>2 DEF BookInv, KeysApart
    <2>5. OrdersFit' /\ ReservedByOpenOrders'
      BY <2>1 DEF BookInv, OrdersFit, ReservedByOpenOrders
    <2>6. \A u \in Thread : ThreadInv(u)'
      BY <2>1, OtherThreads DEF BookInv, db
    <2>7. RowsInv'
      BY <1>1, RowsStay DEF vars, BookInv
    <2> QED BY <2>3, <2>4, <2>5, <2>6, <2>7 DEF BookInv
  <1>2. CASE Next
    BY <1>2, OthersKeepBook, CommitKeepsBook DEF Next
  <1> QED BY <1>1, <1>2

\* What every transaction has done so far accounts for what it sees, and the
\* committed reservations are those of the open orders.
THEOREM BookHolds == Spec => []BookInv
  <1>1. Init => BookInv
    BY InitKeepsBook
  <1>2. StockInv /\ BookInv /\ [Next]_vars => BookInv'
    BY NextKeepsBook
  <1> QED BY <1>1, <1>2, InvariantHolds, PTL DEF Spec

\* No reservation leaks when an order is cancelled, dispatched, rolled back or
\* redelivered, and none is given back twice (orders.py _reserve,
\* _release_order, _ship_order).
THEOREM ReservationsAreKept == Spec => []ReservedByOpenOrders
  <1>1. BookInv => ReservedByOpenOrders
    BY DEF BookInv
  <1> QED BY <1>1, BookHolds, PTL

\* "Order reservation is missing" and "Reserved inventory cannot be dispatched"
\* (orders.py _release_order, _ship_order) are never answered.
THEOREM ReservationsAreFound == Spec => []ReservationsNeverMissing
  <1>1. Init => ReservationsNeverMissing
    BY DEF Init, ReservationsNeverMissing
  <1>2. StockInv /\ BookInv /\ ReservationsNeverMissing /\ [Next]_vars
          => ReservationsNeverMissing'
    <2> SUFFICES ASSUME StockInv, BookInv, ReservationsNeverMissing, [Next]_vars
                 PROVE  ReservationsNeverMissing'
      OBVIOUS
    <2>1. CASE UNCHANGED vars
      BY <2>1 DEF vars, ReservationsNeverMissing
    <2>2. ASSUME NEW t \in Thread, Release(t) \/ Ship(t)
          PROVE  ReservationsNeverMissing'
      BY <2>2, MoveItemKeepsBook DEF ReservationsNeverMissing
    <2>3. ASSUME NEW t \in Thread,
                 \/ Ingest(t) \/ UpdateStatus(t) \/ RequestAdjustment(t) \/ Crash(t)
                 \/ LookupOrder(t) \/ LookupEvent(t) \/ InsertOrder(t)
                 \/ SelectCandidates(t) \/ ReadBefore(t) \/ Reserve(t)
                 \/ LockOrder(t) \/ ReadItem(t) \/ LookupMovement(t) \/ LockItem(t)
                 \/ Adjust(t) \/ Commit(t) \/ Deadlock(t)
          PROVE  ReservationsNeverMissing'
      <3>1. \/ UNCHANGED answer
            \/ \E a \in Answer \ {"missing"} : answer' = [answer EXCEPT ![t] = a]
        BY <2>3 DEF Ingest, UpdateStatus, RequestAdjustment, Begin, Crash, LookupOrder,
             LookupEvent, InsertOrder, SelectCandidates, ReadBefore, Reserve, LockOrder,
             ReadItem, LookupMovement, LockItem, Adjust, Commit, Deadlock, Integrity,
             Rollback, Reply, Goto, NextLine, Answer
      <3> QED BY <3>1 DEF ReservationsNeverMissing, StockInv, TypeOK
    <2> QED BY <2>1, <2>2, <2>3 DEF Next, Step
  <1> QED BY <1>1, <1>2, InvariantHolds, BookHolds, PTL DEF Spec

(***************************************************************************)
(* The refinement: a commit is one operation of the stock book, and every  *)
(* other step leaves the book alone.                                       *)
(***************************************************************************)

\* The adjustments that the ledger shows.
Applied ==
  {a \in Adjustment :
     \E m \in movements : /\ m.kind = "adjustment"
                          /\ m.key = a.key
                          /\ m.item = a.item
                          /\ m.delta = a.delta}

\* The operators of the book are those of the vocabulary.
LEMMA SameWords ==
  /\ \A r, i : Book!QuantityAt(r, i) = QuantityAt(r, i)
  /\ \A b : Book!Available(b) = Available(b)
  /\ Book!OrderRow = OrderRow /\ Book!AllowedTransitions = AllowedTransitions
  /\ Book!Status = Status
  <1>1. \A r, i : Book!QuantityAt(r, i) = QuantityAt(r, i)
    <2>1. ASSUME NEW r, NEW i PROVE Book!QuantityAt(r, i) = QuantityAt(r, i)
      <3>1. Book!Units(r, i) = Units(r, i)
        BY Zenon DEF Book!Units, Units
      <3> QED BY <3>1, Zenon DEF Book!QuantityAt, QuantityAt, Book!Cardinality, Cardinality
    <2> QED BY <2>1
  <1>2. \A b : Book!Available(b) = Available(b)
    BY DEF Book!Available, Available
  <1>3. Book!Status = Status
    BY DEF Book!Status, Status
  <1>4. Book!OrderRow = OrderRow
    BY <1>3 DEF Book!OrderRow, OrderRow
  <1>5. Book!AllowedTransitions = AllowedTransitions
    BY <1>3 DEF Book!AllowedTransitions, AllowedTransitions
  <1> QED BY <1>1, <1>2, <1>3, <1>4, <1>5

\* A transaction without a correction applies none.
LEMMA NothingApplied ==
  ASSUME StockInv, BookInv, NEW t \in Thread, Commit(t),
         \A m \in staged[t] : m.kind # "adjustment"
  PROVE  Applied' = Applied
  <1>1. movements' = movements \cup staged[t]
    BY CommitDoes
  <1> QED BY <1>1 DEF Applied

LEMMA PlacesInBook ==
  ASSUME StockInv, BookInv, NEW t \in Thread, Commit(t), req[t] \in IngestRequest
  PROVE  Book!Next
  <1> DEFINE e == req[t].hook.ext
             r == row[t]
  <1>1. /\ e \in ExtId /\ orders[e] = NoOrder
        /\ r \in OrderRow /\ Fits(r, {})
        /\ r.status \in {"pending", "paid"}
        /\ \A x \in ExtId : orders[x] = NoOrder \/ orders[x].evt # r.evt
        /\ orders'[e] = r /\ \A x \in ExtId \ {e} : orders'[x] = orders[x]
        /\ \A i \in Item : inventory'[i] = [inventory[i] EXCEPT !.reserved = @ + QuantityAt(r, i)]
        /\ \A m \in staged[t] : m.kind # "adjustment"
    BY CommitPlaces
  <1> HIDE DEF e, r
  <1>2. orders' = [orders EXCEPT ![e] = r]
    <2>1. orders' = [x \in ExtId |-> orders'[x]]
      BY CommitDoes
    <2>2. orders \in [ExtId -> OrderRow \cup {NoOrder}]
      BY DEF StockInv, TypeOK
    <2> QED BY <1>1, <2>1, <2>2
  <1>3. inventory' = [i \in Item |-> [inventory[i] EXCEPT !.reserved = @ + QuantityAt(r, i)]]
    <2>1. inventory' = [i \in Item |-> Visible(t, i)]
      BY CommitDoes
    <2>2. \A i \in Item : Visible(t, i) = [inventory[i] EXCEPT !.reserved = @ + QuantityAt(r, i)]
      BY <1>1, <2>1
    <2> QED BY <2>1, <2>2
  <1>4. ASSUME NEW i \in Item PROVE QuantityAt(r, i) <= Available(inventory[i])
    <2>1. QuantityAt(r, i) \in Nat
      BY <1>1, RowUnits
    <2>2. inventory[i] \in Balance /\ inventory'[i] = Visible(t, i) /\ Balanced(Visible(t, i))
      BY CommitDoes, VisibleBalanced
    <2>3. inventory'[i] = [inventory[i] EXCEPT !.reserved = @ + QuantityAt(r, i)]
      BY <1>1
    <2> QED BY <2>1, <2>2, <2>3 DEF Balance, Balanced, Available
  <1>5. Book!WellAllocated(r)
    BY <1>1 DEF Book!WellAllocated, Fits
  <1>6. Applied' = Applied
    BY <1>1, NothingApplied
  <1>7. Book!Place(e)
    BY <1>1, <1>2, <1>3, <1>4, <1>5, <1>6, SameWords DEF Book!Place, Applied
  <1> QED BY <1>1, <1>7 DEF Book!Next

LEMMA ChangesInBook ==
  ASSUME StockInv, BookInv, NEW t \in Thread, Commit(t), req[t] \in StatusRequest
  PROVE  Book!Next
  <1> DEFINE e == req[t].ext
             s == req[t].target
             q(i) == QuantityAt(orders[e], i)
  <1>1. /\ e \in ExtId /\ orders[e] # NoOrder /\ orders[e] \in OrderRow
        /\ s \in AllowedTransitions[orders[e].status]
        /\ orders'[e] = [orders[e] EXCEPT !.status = s]
        /\ \A x \in ExtId \ {e} : orders'[x] = orders[x]
        /\ \A i \in Item :
             /\ q(i) \in Nat
             /\ inventory'[i] =
                  IF s = "cancelled" THEN [inventory[i] EXCEPT !.reserved = @ - q(i)]
                  ELSE IF s = "dispatched"
                       THEN [onHand |-> inventory[i].onHand - q(i),
                             reserved |-> inventory[i].reserved - q(i)]
                       ELSE inventory[i]
        /\ \A m \in staged[t] : m.kind # "adjustment"
    BY CommitChanges
  <1>a. s \in Status
    <2>1. orders[e].status \in Status
      BY <1>1 DEF OrderRow
    <2>2. s \in AllowedTransitions[orders[e].status]
      BY <1>1
    <2> HIDE DEF s, e
    <2> QED BY ONLY <2>1, <2>2, StatusSteps
  <1> HIDE DEF e, s, q
  <1>2. orders' = [orders EXCEPT ![e].status = s]
    <2>1. orders' = [x \in ExtId |-> orders'[x]]
      BY CommitDoes
    <2>2. orders \in [ExtId -> OrderRow \cup {NoOrder}]
      BY DEF StockInv, TypeOK
    <2> QED BY <1>1, <2>1, <2>2
  <1>3. inventory' = [i \in Item |-> inventory'[i]]
    BY CommitDoes
  <1>4. Applied' = Applied
    BY <1>1, NothingApplied
  <1>5. CASE s = "cancelled"
    <2>1. inventory' = [i \in Item |-> [inventory[i] EXCEPT !.reserved = @ - q(i)]]
      BY <1>1, <1>3, <1>5
    <2>2. Book!Cancel(e)
      BY <1>1, <1>2, <1>4, <1>5, <2>1, SameWords DEF Book!Cancel, Applied, q
    <2> QED BY <1>1, <2>2 DEF Book!Next
  <1>6. CASE s = "dispatched"
    <2>1. inventory' = [i \in Item |-> [onHand |-> inventory[i].onHand - q(i),
                                        reserved |-> inventory[i].reserved - q(i)]]
      BY <1>1, <1>3, <1>6
    <2>2. Book!Dispatch(e)
      BY <1>1, <1>2, <1>4, <1>6, <2>1, SameWords DEF Book!Dispatch, Applied, q
    <2> QED BY <1>1, <2>2 DEF Book!Next
  <1>7. CASE s \notin {"cancelled", "dispatched"}
    <2>1. inventory' = inventory
      <3>1. \A i \in Item : inventory'[i] = inventory[i]
        BY <1>1, <1>7
      <3>2. inventory = [i \in Item |-> inventory[i]]
        BY DEF StockInv, TypeOK
      <3> QED BY <1>3, <3>1, <3>2
    <2>2. Book!Advance(e, s)
      BY <1>1, <1>2, <1>4, <1>7, <2>1, SameWords DEF Book!Advance, Applied
    <2> QED BY <1>1, <1>a, <2>2, SameWords DEF Book!Next
  <1> QED BY <1>5, <1>6, <1>7

LEMMA AdjustsInBook ==
  ASSUME StockInv, BookInv, NEW t \in Thread, Commit(t), req[t] \in AdjustRequest
  PROVE  Book!Next
  <1>0. PICK a : a = req[t].adj
    OBVIOUS
  <1>1. /\ a \in Adjustment /\ a.item \in Item
        /\ UNCHANGED orders
        /\ \A i \in Item : inventory'[i] =
             IF i = a.item THEN [inventory[i] EXCEPT !.onHand = @ + a.delta] ELSE inventory[i]
        /\ inventory'[a.item].reserved <= inventory'[a.item].onHand
        /\ Existing(a.key) = {}
        /\ \A m \in staged[t] : m.kind = "adjustment" =>
             m.key = a.key /\ m.item = a.item /\ m.delta = a.delta
        /\ \E m \in staged[t] : m.kind = "adjustment"
    BY <1>0, CommitAdjusts
  <1>2. a.delta \in Int
    BY <1>1, StockAssumption
  <1>3. inventory' = [inventory EXCEPT ![a.item].onHand = @ + a.delta]
    <2>1. inventory' = [i \in Item |-> inventory'[i]]
      BY CommitDoes
    <2>2. inventory \in [Item -> Balance]
      BY DEF StockInv, TypeOK
    <2> QED BY <1>1, <2>1, <2>2
  <1>4. inventory[a.item].onHand + a.delta >= inventory[a.item].reserved
    <2>1. inventory[a.item] \in Balance
      BY <1>1 DEF StockInv, TypeOK
    <2>2. inventory'[a.item] = [inventory[a.item] EXCEPT !.onHand = @ + a.delta]
      BY <1>1
    <2> QED BY <1>1, <1>2, <2>1, <2>2 DEF Balance
  <1>5. a.key \notin {x.key : x \in Applied}
    BY <1>1 DEF Existing, Applied
  <1>6. Applied' = Applied \cup {a}
    <2>1. movements' = movements \cup staged[t]
      BY CommitDoes
    <2>2. ASSUME NEW x \in Adjustment, x.key = a.key, x.item = a.item, x.delta = a.delta
          PROVE  x = a
      BY <1>1, <2>2, StockAssumption
    <2> QED BY <1>1, <2>1, <2>2 DEF Applied
  <1>7. Book!Adjust(a)
    BY <1>1, <1>3, <1>4, <1>5, <1>6 DEF Book!Adjust, Applied
  <1> QED BY <1>1, <1>7 DEF Book!Next

\* However the statements of the requests interleave, wait, fail and repeat,
\* each commit is one operation of the stock book and nothing else changes it.
THEOREM OrdersKeepTheBook == Spec => ImplementsBook
  <1>1. Init => Book!Init
    BY DEF Init, Book!Init
  <1>2. StockInv /\ BookInv /\ [Next]_vars => [Book!Next]_(Book!vars)
    <2> SUFFICES ASSUME StockInv, BookInv, [Next]_vars
                 PROVE  [Book!Next]_(Book!vars)
      OBVIOUS
    <2>1. CASE UNCHANGED db
      BY <2>1 DEF db, Book!vars
    <2>2. ASSUME NEW t \in Thread, Commit(t) PROVE Book!Next
      BY <2>2, PlacesInBook, ChangesInBook, AdjustsInBook, CommitDoes DEF Request
    <2> QED BY <2>1, <2>2, OthersKeepBook DEF Next, vars, db
  <1> QED BY <1>1, <1>2, InvariantHolds, BookHolds, PTL DEF Spec, ImplementsBook, Book!Spec

(***************************************************************************)
(* One retry is enough: a command runs again only when the key that it     *)
(* collided with is committed, and committed keys stay.                    *)
(***************************************************************************)
Retried(t) ==
  attempt[t] = 2 =>
    \/ /\ req[t] \in IngestRequest
       /\ \/ /\ pc[t] = "lookupOrder"
             /\ orders[req[t].hook.ext] # NoOrder \/ EventOwner(req[t].hook.evt) # {}
          \/ pc[t] = "lookupEvent" /\ EventOwner(req[t].hook.evt) # {}
    \/ /\ req[t] \in AdjustRequest
       /\ pc[t] = "lookupMovement"
       /\ Existing(req[t].adj.key) # {}

\* Nothing that is committed is taken back.
KeysStay ==
  /\ \A e \in ExtId : orders[e] # NoOrder =>
       orders'[e] # NoOrder /\ orders'[e].evt = orders[e].evt
  /\ movements \subseteq movements'

LEMMA StepsKeepKeys ==
  ASSUME StockInv, BookInv, [Next]_vars
  PROVE  KeysStay
  <1>1. CASE UNCHANGED db
    BY <1>1 DEF db, KeysStay
  <1>2. ASSUME NEW t \in Thread, Commit(t) PROVE KeysStay
    <2>1. movements \subseteq movements'
      BY <1>2, CommitDoes
    <2>2. CASE req[t] \in IngestRequest
      <3>1. /\ orders[req[t].hook.ext] = NoOrder
            /\ \A x \in ExtId \ {req[t].hook.ext} : orders'[x] = orders[x]
        BY <1>2, <2>2, CommitPlaces
      <3> QED BY <2>1, <3>1 DEF KeysStay
    <2>3. CASE req[t] \in StatusRequest
      <3> DEFINE e == req[t].ext
      <3>1. /\ orders[e] # NoOrder /\ orders[e] \in OrderRow
            /\ req[t].target \in AllowedTransitions[orders[e].status]
            /\ orders'[e] = [orders[e] EXCEPT !.status = req[t].target]
            /\ \A x \in ExtId \ {e} : orders'[x] = orders[x]
        BY <1>2, <2>3, CommitChanges
      <3> HIDE DEF e
      <3>2. orders[e].status \in Status /\ req[t].target \in AllowedTransitions[orders[e].status]
        BY <3>1 DEF OrderRow
      <3>3. req[t].target \in Status
        BY ONLY <3>2, StatusSteps
      <3>4. orders'[e] \in OrderRow /\ orders'[e].evt = orders[e].evt
        BY <3>1, <3>3 DEF OrderRow
      <3> QED BY <2>1, <3>1, <3>4, StockAssumption DEF KeysStay
    <2>4. CASE req[t] \in AdjustRequest
      BY <1>2, <2>1, <2>4, CommitAdjusts DEF KeysStay
    <2> QED BY <1>2, <2>2, <2>3, <2>4, CommitDoes DEF Request
  <1> QED BY <1>1, <1>2, OthersKeepBook DEF Next, vars, db

\* A thread whose state stays, and whose keys are still committed.
LEMMA RetryStays ==
  ASSUME StockInv, NEW u \in Thread, Retried(u), KeysStay,
         attempt'[u] = attempt[u], pc'[u] = pc[u], req'[u] = req[u]
  PROVE  Retried(u)'
  <1>1. ASSUME NEW v, EventOwner(v) # {} PROVE EventOwner(v)' # {}
    BY <1>1 DEF KeysStay, EventOwner
  <1>2. ASSUME NEW k, Existing(k) # {} PROVE Existing(k)' # {}
    BY <1>2 DEF KeysStay, Existing
  <1>3. req[u] \in IngestRequest => req[u].hook.ext \in ExtId
    BY OrderStockAssumption DEF IngestRequest
  <1>4. CASE req[u] \in IngestRequest /\ EventOwner(req[u].hook.evt) # {}
    <2>1. EventOwner(req[u].hook.evt)' # {}
      <3>1. PICK v : v = req[u].hook.evt
        OBVIOUS
      <3>2. EventOwner(v)' # {}
        BY <1>1, <1>4, <3>1
      <3>3. req'[u].hook.evt = v
        BY <3>1
      <3> QED BY <3>2, <3>3 DEF EventOwner
    <2> QED BY <1>4, <2>1 DEF Retried, IngestRequest, AdjustRequest
  <1>5. CASE req[u] \in AdjustRequest /\ Existing(req[u].adj.key) # {}
    <2>1. Existing(req[u].adj.key)' # {}
      <3>1. PICK k : k = req[u].adj.key
        OBVIOUS
      <3>2. Existing(k)' # {}
        BY <1>2, <1>5, <3>1
      <3>3. req'[u].adj.key = k
        BY <3>1
      <3> QED BY <3>2, <3>3 DEF Existing
    <2> QED BY <1>5, <2>1 DEF Retried, IngestRequest, AdjustRequest
  <1>6. CASE /\ req[u] \in IngestRequest
            /\ orders[req[u].hook.ext] # NoOrder /\ EventOwner(req[u].hook.evt) = {}
    BY <1>3, <1>6 DEF Retried, KeysStay, IngestRequest, AdjustRequest
  <1>7. CASE attempt[u] # 2
    BY <1>7 DEF Retried
  <1> QED BY <1>4, <1>5, <1>6, <1>7 DEF Retried

\* Each step of a thread ends its request, runs it again for a committed key,
\* or goes on; the second run goes on only to look up the event.
LEMMA RetryGoesOn ==
  ASSUME StockInv, NEW t \in Thread, Retried(t), answer[t] # "integrity",
         Ingest(t) \/ UpdateStatus(t) \/ RequestAdjustment(t) \/ Step(t) \/ Crash(t)
  PROVE  /\ answer'[t] # "integrity"
         /\ \/ attempt'[t] = 1
            \/ UNCHANGED <<orders, movements, req>> /\ Retried(t)'
  <1> DEFINE Gives(a) == attempt'[t] = 1 /\ answer'[t] = a
             Goes == attempt'[t] = attempt[t] /\ answer'[t] = answer[t]
  <1>1. ASSUME NEW a \in Answer, Rollback(t, a) PROVE Gives(a)
    BY <1>1 DEF Rollback, Reply, StockInv, TypeOK
  <1>2. ASSUME NEW label, Goto(t, label) PROVE Goes
    BY <1>2 DEF Goto
  <1>3. attempt[t] \in {1, 2}
    BY DEF StockInv, TypeOK
  <1>4. CASE Ingest(t) \/ UpdateStatus(t) \/ RequestAdjustment(t)
    <2>1. pc[t] = "idle" /\ attempt' = attempt /\ answer'[t] = "none"
      BY <1>4 DEF Ingest, UpdateStatus, RequestAdjustment, Begin, StockInv, TypeOK
    <2> QED BY <1>3, <2>1 DEF Retried
  <1>5. CASE LookupOrder(t)
    <2>1. CASE \E a \in {"changed", "duplicate"} : Rollback(t, a)
      BY <1>1, <2>1 DEF Answer
    <2>2. CASE orders[req[t].hook.ext] = NoOrder /\ Goto(t, "lookupEvent")
      <3>1. /\ pc[t] = "lookupOrder" /\ pc'[t] = "lookupEvent"
            /\ UNCHANGED <<orders, movements, req, attempt, answer>>
        BY <1>5, <2>2 DEF LookupOrder, Goto, StockInv, TypeOK
      <3> QED BY <2>2, <3>1 DEF Retried, EventOwner
    <2> QED BY <1>5, <2>1, <2>2 DEF LookupOrder
  <1>6. CASE LookupEvent(t)
    <2>1. CASE \E a \in {"reused", "rejected"} : Rollback(t, a)
      BY <1>1, <2>1 DEF Answer
    <2>2. CASE EventOwner(req[t].hook.evt) = {} /\ Goto(t, "insertOrder")
      <3>1. pc[t] = "lookupEvent"
        BY <1>6 DEF LookupEvent
      <3>2. attempt[t] = 1
        BY <1>3, <2>2, <3>1 DEF Retried
      <3> QED BY <1>2, <2>2, <3>2
    <2> QED BY <1>6, <2>1, <2>2 DEF LookupEvent
  <1>7. CASE LookupMovement(t)
    <2>1. CASE \E a \in {"duplicate", "changed"} : Rollback(t, a)
      BY <1>1, <2>1 DEF Answer
    <2>2. CASE Existing(req[t].adj.key) = {} /\ Goto(t, "lockItem")
      <3>1. pc[t] = "lookupMovement"
        BY <1>7 DEF LookupMovement
      <3>2. attempt[t] = 1
        BY <1>3, <2>2, <3>1 DEF Retried
      <3> QED BY <1>2, <2>2, <3>2
    <2> QED BY <1>7, <2>1, <2>2 DEF LookupMovement
  <1>8. ASSUME pc[t] \in {"insertOrder", "adjust"},
               Integrity(t, IF pc[t] = "insertOrder" THEN "lookupOrder" ELSE "lookupMovement"),
               \/ /\ pc[t] = "insertOrder"
                  /\ orders[req[t].hook.ext] # NoOrder \/ EventOwner(req[t].hook.evt) # {}
               \/ pc[t] = "adjust" /\ Existing(req[t].adj.key) # {}
        PROVE  /\ answer'[t] # "integrity"
               /\ UNCHANGED <<orders, movements, req>> /\ Retried(t)'
    <2>1. attempt[t] = 1
      BY <1>3, <1>8 DEF Retried
    <2>2. /\ pc'[t] = IF pc[t] = "insertOrder" THEN "lookupOrder" ELSE "lookupMovement"
          /\ UNCHANGED <<orders, movements, req, answer>>
      BY <1>8, <2>1 DEF Integrity, StockInv, TypeOK
    <2>3. /\ pc[t] = "insertOrder" => req[t] \in IngestRequest
          /\ pc[t] = "adjust" => req[t] \in AdjustRequest
      BY DEF StockInv, Control, ControlOf
    <2> QED BY <1>8, <2>2, <2>3 DEF Retried, EventOwner, Existing
  <1>9. CASE InsertOrder(t)
    <2>1. CASE orders[req[t].hook.ext] # NoOrder \/ EventOwner(req[t].hook.evt) # {}
      BY <1>8, <1>9, <2>1 DEF InsertOrder
    <2>2. CASE ~ (orders[req[t].hook.ext] # NoOrder \/ EventOwner(req[t].hook.evt) # {})
      <3>1. pc[t] = "insertOrder" /\ Goto(t, "candidates")
        BY <1>9, <2>2 DEF InsertOrder
      <3> QED BY <1>2, <1>3, <3>1 DEF Retried
    <2> QED BY <2>1, <2>2
  <1>10. CASE Adjust(t)
    <2>1. CASE Existing(req[t].adj.key) # {}
      BY <1>8, <1>10, <2>1 DEF Adjust
    <2>2. CASE Existing(req[t].adj.key) = {}
      <3>1. pc[t] = "adjust" /\ Goto(t, "commit")
        BY <1>10, <2>2 DEF Adjust
      <3> QED BY <1>2, <1>3, <3>1 DEF Retried
    <2> QED BY <2>1, <2>2
  <1>11. CASE \/ SelectCandidates(t) \/ ReadBefore(t) \/ Reserve(t) \/ LockOrder(t)
              \/ ReadItem(t) \/ Release(t) \/ Ship(t) \/ LockItem(t)
    <2>1. pc[t] \in {"candidates", "readBefore", "reserve", "lockOrder", "readItem",
                     "moveItem", "lockItem"}
      BY <1>11 DEF SelectCandidates, ReadBefore, Reserve, LockOrder, ReadItem, Release,
                   Ship, LockItem
    <2>2. \/ \E a \in {"accepted", "rejected", "missing"} : Rollback(t, a)
          \/ \E label : Goto(t, label)
      BY <1>11 DEF SelectCandidates, ReadBefore, Reserve, LockOrder, ReadItem, Release,
                   Ship, LockItem, NextLine
    <2>3. attempt[t] = 1
      BY <1>3, <2>1 DEF Retried
    <2> QED BY <1>1, <1>2, <2>2, <2>3 DEF Answer
  <1>12. CASE Commit(t)
    BY <1>12 DEF Commit, Reply, StockInv, TypeOK
  <1>13. CASE Deadlock(t) \/ Crash(t)
    BY <1>1, <1>13 DEF Deadlock, Crash, Answer
  <1> QED BY <1>4, <1>5, <1>6, <1>7, <1>9, <1>10, <1>11, <1>12, <1>13 DEF Step

\* Only the thread of a step changes its attempt, its label and its answer.
LEMMA OthersGoOn ==
  ASSUME StockInv, NEW t \in Thread, NEW u \in Thread \ {t},
         Ingest(t) \/ UpdateStatus(t) \/ RequestAdjustment(t) \/ Step(t) \/ Crash(t)
  PROVE  attempt'[u] = attempt[u] /\ pc'[u] = pc[u] /\ req'[u] = req[u] /\ answer'[u] = answer[u]
  <1>1. \A a : Rollback(t, a) => /\ attempt'[u] = attempt[u] /\ pc'[u] = pc[u]
                                 /\ req'[u] = req[u] /\ answer'[u] = answer[u]
    BY DEF Rollback, Reply, StockInv, TypeOK
  <1>2. \A label : Goto(t, label) => /\ attempt'[u] = attempt[u] /\ pc'[u] = pc[u]
                                     /\ req'[u] = req[u] /\ answer'[u] = answer[u]
    BY DEF Goto, StockInv, TypeOK
  <1>3. \A first : Integrity(t, first) => /\ attempt'[u] = attempt[u] /\ pc'[u] = pc[u]
                                          /\ req'[u] = req[u] /\ answer'[u] = answer[u]
    BY <1>1 DEF Integrity, StockInv, TypeOK
  <1>4. CASE \/ Ingest(t) \/ UpdateStatus(t) \/ RequestAdjustment(t) \/ Commit(t)
    BY <1>4 DEF Ingest, UpdateStatus, RequestAdjustment, Begin, Commit, Reply, StockInv, TypeOK
  <1>5. CASE (Step(t) /\ ~ Commit(t)) \/ Crash(t)
    BY <1>1, <1>2, <1>3, <1>5
       DEF Step, Crash, LookupOrder, LookupEvent, InsertOrder, SelectCandidates, ReadBefore,
           Reserve, LockOrder, ReadItem, Release, Ship, LookupMovement, LockItem, Adjust,
           Deadlock, NextLine
  <1> QED BY <1>4, <1>5

\* The second run of a command finds the committed duplicate of its key
\* (orders.py, inventory.py: except IntegrityError) and is not answered 500.
THEOREM RetriesSettle == Spec => []OneRetrySettles
  <1> DEFINE Inv == OneRetrySettles /\ \A t \in Thread : Retried(t)
  <1>1. Init => Inv
    BY DEF Init, OneRetrySettles, Retried
  <1>2. StockInv /\ BookInv /\ Inv /\ [Next]_vars => Inv'
    <2> SUFFICES ASSUME StockInv, BookInv, Inv, [Next]_vars PROVE Inv'
      OBVIOUS
    <2>1. KeysStay
      BY StepsKeepKeys
    <2>2. CASE UNCHANGED vars
      BY <2>1, <2>2, RetryStays DEF vars, OneRetrySettles
    <2>3. ASSUME NEW t \in Thread,
                 Ingest(t) \/ UpdateStatus(t) \/ RequestAdjustment(t) \/ Step(t) \/ Crash(t)
          PROVE  Inv'
      <3>1. /\ answer'[t] # "integrity"
            /\ \/ attempt'[t] = 1
               \/ UNCHANGED <<orders, movements, req>> /\ Retried(t)'
        BY <2>3, RetryGoesOn DEF OneRetrySettles
      <3>2. Retried(t)'
        BY <3>1 DEF Retried
      <3>3. \A u \in Thread \ {t} : Retried(u)' /\ answer'[u] = answer[u]
        BY <2>1, <2>3, OthersGoOn, RetryStays
      <3> QED BY <3>1, <3>2, <3>3 DEF OneRetrySettles
    <2> QED BY <2>2, <2>3 DEF Next
  <1>3. Inv => OneRetrySettles
    OBVIOUS
  <1> QED BY <1>1, <1>2, <1>3, InvariantHolds, BookHolds, PTL DEF Spec

(***************************************************************************)
(* The ledger: the movements that a transaction has staged are those of    *)
(* the lines it has handled, and add up to what its rows differ by.        *)
(***************************************************************************)
ReservedKinds == {"reservation", "release", "shipment"}
OnHandKinds == {"shipment", "adjustment"}

\* The sum of a part of a ledger, and of two ledgers that share no movement.
LEMMA TotalIs ==
  ASSUME NEW S, IsFiniteSet(S), NEW T, S \subseteq T
  PROVE  Total(S) = SumFunctionOnSet([m \in T |-> m.delta], S)
  <1> DEFINE f == [m \in S |-> m.delta]
             g == [m \in T |-> m.delta]
  <1>1. \A x \in S : f[x] = g[x]
    OBVIOUS
  <1> HIDE DEF f, g
  <1>2. SumFunctionOnSet(f, S) = SumFunctionOnSet(g, S)
    BY <1>1, SumSame
  <1> QED BY <1>2 DEF Total, f, g

LEMMA TotalInt ==
  ASSUME NEW S, IsFiniteSet(S), \A m \in S : m.delta \in Int
  PROVE  Total(S) \in Int
  <1> DEFINE f == [m \in S |-> m.delta]
  <1>1. \A x \in S : f[x] \in Int
    OBVIOUS
  <1> HIDE DEF f
  <1> QED BY <1>1, SumInt DEF Total, f

LEMMA TotalOfNone == Total({}) = 0
  BY SumEmpty DEF Total

LEMMA TotalUnion ==
  ASSUME NEW S, NEW R, IsFiniteSet(S), IsFiniteSet(R), S \cap R = {},
         \A m \in S \cup R : m.delta \in Int
  PROVE  Total(S \cup R) = Total(S) + Total(R)
  <1> DEFINE T == S \cup R
             f == [m \in T |-> m.delta]
  <1>1. IsFiniteSet(T) /\ S \subseteq T /\ R \subseteq T /\ \A x \in S \cup R : f[x] \in Int
    BY FS_Union
  <1> HIDE DEF f
  <1>2. SumFunctionOnSet(f, S \cup R) = SumFunctionOnSet(f, S) + SumFunctionOnSet(f, R)
    BY <1>1, SumUnion
  <1>3. /\ Total(S) = SumFunctionOnSet(f, S) /\ Total(R) = SumFunctionOnSet(f, R)
        /\ Total(T) = SumFunctionOnSet(f, T)
    BY <1>1, TotalIs DEF f
  <1> QED BY <1>2, <1>3

\* The same for the movements of some kinds at an item.
Ledger(M) == IsFiniteSet(M) /\ \A m \in M : m.delta \in Int

LEMMA EntriesUnion ==
  ASSUME NEW M, NEW N, Ledger(M), Ledger(N), M \cap N = {}, NEW kinds, NEW i
  PROVE  /\ Total(Entries(M \cup N, kinds, i)) =
              Total(Entries(M, kinds, i)) + Total(Entries(N, kinds, i))
         /\ Total(Entries(M, kinds, i)) \in Int /\ Total(Entries(N, kinds, i)) \in Int
  <1> DEFINE S == Entries(M, kinds, i)
             R == Entries(N, kinds, i)
  <1>1. S \subseteq M /\ R \subseteq N /\ Entries(M \cup N, kinds, i) = S \cup R
    BY DEF Entries
  <1> HIDE DEF S, R
  <1>2. IsFiniteSet(S) /\ IsFiniteSet(R)
    BY <1>1, FS_Subset DEF Ledger
  <1>3. S \cap R = {} /\ \A m \in S \cup R : m.delta \in Int
    BY <1>1 DEF Ledger
  <1>4. Total(S) \in Int /\ Total(R) \in Int
    BY <1>2, <1>3, TotalInt
  <1>5. Total(S \cup R) = Total(S) + Total(R)
    BY <1>2, <1>3, TotalUnion
  <1> QED BY <1>1, <1>4, <1>5 DEF S, R

LEMMA EntriesOfOne ==
  ASSUME NEW m, m.delta \in Int, NEW kinds, NEW i
  PROVE  Total(Entries({m}, kinds, i)) =
           IF m.item = i /\ m.kind \in kinds THEN m.delta ELSE 0
  <1>1. CASE m.item = i /\ m.kind \in kinds
    <2> DEFINE f == [x \in {m} |-> x.delta]
    <2>1. Entries({m}, kinds, i) = {m}
      BY <1>1 DEF Entries
    <2>2. f[m] = m.delta /\ \A x \in {m} : f[x] \in Int
      OBVIOUS
    <2> HIDE DEF f
    <2>3. IsFiniteSet({m}) /\ {m} \ {m} = {} /\ m \in {m}
      BY FS_Singleton
    <2>4. SumFunctionOnSet(f, {m}) = f[m] + SumFunctionOnSet(f, {m} \ {m})
      BY <2>2, <2>3, SumRemove
    <2>5. SumFunctionOnSet(f, {}) = 0
      BY SumEmpty
    <2>6. Total({m}) = m.delta
      <3>1. Total({m}) = SumFunctionOnSet(f, {m})
        BY DEF Total, f
      <3> QED BY <2>2, <2>3, <2>4, <2>5, <3>1
    <2> QED BY <1>1, <2>1, <2>6
  <1>2. CASE ~ (m.item = i /\ m.kind \in kinds)
    <2>1. Entries({m}, kinds, i) = {}
      BY <1>2 DEF Entries
    <2> QED BY <1>2, <2>1, TotalOfNone
  <1> QED BY <1>1, <1>2

\* The lines whose movement a transaction has staged, and that movement.
Booked(t) ==
  IF row[t] = NoOrder \/ (req[t] \in StatusRequest /\ ~ MovesStock(req[t].target))
  THEN {} ELSE Done(t)
BookedKind(t) ==
  IF req[t] \in IngestRequest THEN "reservation"
  ELSE IF req[t].target = "cancelled" THEN "release" ELSE "shipment"
Books(t, l, m) ==
  m.kind = BookedKind(t) /\ m.key = <<OrderOf(t), l>> /\ m.item = row[t].alloc[l]
Traced(t) ==
  /\ IsFiniteSet(staged[t])
  /\ \A m \in staged[t] : m.kind # "adjustment" => \E l \in Booked(t) : Books(t, l, m)
  /\ \A l \in Booked(t) : \E m \in staged[t] : Books(t, l, m)
Summed(t) ==
  \A i \in Item :
    /\ Total(Entries(staged[t], ReservedKinds, i)) = ReservedBy(t, i)
    /\ Total(Entries(staged[t], OnHandKinds, i)) = OnHandBy(t, i)
Staging(t) == Traced(t) /\ Summed(t)

LedgerInv ==
  /\ IsFiniteSet(movements) /\ LedgerReplays /\ LedgerMatchesOrders
  /\ \A t \in Thread : Staging(t)

\* What a transaction has staged stays with what it has done.
LEMMA StagingStays ==
  ASSUME NEW t \in Thread, Staging(t), Corrects(t)' = Corrects(t),
         req'[t] = req[t], row'[t] = row[t], todo'[t] = todo[t], staged'[t] = staged[t]
  PROVE  Staging(t)'
  <1>1. /\ Done(t)' = Done(t) /\ Booked(t)' = Booked(t) /\ BookedKind(t)' = BookedKind(t)
        /\ OrderOf(t)' = OrderOf(t)
    BY DEF Done, Booked, BookedKind, OrderOf
  <1>2. \A l, m : Books(t, l, m)' <=> Books(t, l, m)
    BY <1>1 DEF Books
  <1>3. Traced(t)'
    BY <1>1, <1>2 DEF Staging, Traced
  <1>4. ASSUME NEW i \in Item
        PROVE  ReservedBy(t, i)' = ReservedBy(t, i) /\ OnHandBy(t, i)' = OnHandBy(t, i)
    <2>1. Moved(t, i)' = Moved(t, i)
      BY <1>1 DEF Moved
    <2> QED BY <2>1 DEF ReservedBy, OnHandBy
  <1>5. Summed(t)'
    BY <1>4 DEF Staging, Summed
  <1> QED BY <1>3, <1>5 DEF Staging

\* A transaction that has done nothing has staged nothing.
LEMMA NothingStaged ==
  ASSUME BookInv, NEW t \in Thread, Staging(t), Booked(t) = {}, ~ Corrects(t)
  PROVE  staged[t] = {}
  BY DEF BookInv, ThreadInv, Adjusting, Staging, Traced

LEMMA StagesNothing ==
  ASSUME BookInv', NEW t \in Thread, staged'[t] = {}, Booked(t)' = {}
  PROVE  Staging(t)'
  <1>1. Traced(t)'
    BY FS_EmptySet DEF Traced
  <1>2. ~ Corrects(t)'
    BY DEF BookInv, ThreadInv, Adjusting
  <1>3. ASSUME NEW i \in Item PROVE ReservedBy(t, i)' = 0 /\ OnHandBy(t, i)' = 0
    <2>1. \/ req'[t] \in StatusRequest /\ ~ MovesStock(req'[t].target)
          \/ Moved(t, i)' = 0
      <3>1. Done(t)' = {} => Cardinality(UnitsOf(row'[t].alloc, Done(t)', i)) = 0
        BY NoUnits
      <3> QED BY <3>1 DEF Booked, Moved
    <2> QED BY <1>2, <2>1 DEF ReservedBy, OnHandBy, MovesStock, IngestRequest, StatusRequest
  <1>4. Summed(t)'
    <2>1. \A kinds, i : Entries(staged'[t], kinds, i) = {}
      BY DEF Entries
    <2> QED BY <1>3, <2>1, TotalOfNone DEF Summed
  <1> QED BY <1>1, <1>4 DEF Staging

\* A movement more is staged, and the row that it changes shows its delta.
LEMMA MovementStaged ==
  ASSUME StockInv, StockInv', BookInv, BookInv', NEW t \in Thread, Staging(t),
         UNCHANGED inventory, NEW m \in MovementRow, m \notin staged[t],
         staged'[t] = staged[t] \cup {m},
         \A j \in Item :
           /\ Visible(t, j)'.reserved = Visible(t, j).reserved
                + (IF m.item = j /\ m.kind \in ReservedKinds THEN m.delta ELSE 0)
           /\ Visible(t, j)'.onHand = Visible(t, j).onHand
                + (IF m.item = j /\ m.kind \in OnHandKinds THEN m.delta ELSE 0)
  PROVE  IsFiniteSet(staged'[t]) /\ Summed(t)'
  <1>1. IsFiniteSet(staged[t]) /\ staged[t] \in SUBSET MovementRow
    BY DEF Staging, Traced, StockInv, TypeOK
  <1>2. Ledger(staged[t])
    BY <1>1 DEF Ledger, MovementRow
  <1>a. m.delta \in Int
    BY DEF MovementRow
  <1>b. Ledger({m}) /\ staged[t] \cap {m} = {}
    BY <1>a, FS_Singleton DEF Ledger
  <1>3. IsFiniteSet(staged'[t])
    BY <1>1, FS_AddElement
  <1>4. ASSUME NEW kinds, NEW j
        PROVE  /\ Total(Entries(staged'[t], kinds, j)) = Total(Entries(staged[t], kinds, j))
                    + (IF m.item = j /\ m.kind \in kinds THEN m.delta ELSE 0)
               /\ Total(Entries(staged[t], kinds, j)) \in Int
    <2> PICK M, N : M = staged[t] /\ N = {m}
      OBVIOUS
    <2>1. Ledger(M) /\ Ledger(N) /\ M \cap N = {}
      BY <1>2, <1>b
    <2>2. Total(Entries(N, kinds, j)) = IF m.item = j /\ m.kind \in kinds THEN m.delta ELSE 0
      BY <1>a, EntriesOfOne
    <2>3. staged'[t] = M \cup N
      OBVIOUS
    <2>4. /\ Total(Entries(M \cup N, kinds, j)) =
              Total(Entries(M, kinds, j)) + Total(Entries(N, kinds, j))
          /\ Total(Entries(M, kinds, j)) \in Int
      BY ONLY <2>1, EntriesUnion
    <2> QED BY <2>2, <2>3, <2>4
  <1>5. ASSUME NEW j \in Item
        PROVE  /\ Visible(t, j).onHand = inventory[j].onHand + OnHandBy(t, j)
               /\ Visible(t, j).reserved = inventory[j].reserved + ReservedBy(t, j)
               /\ inventory[j].onHand \in Int /\ inventory[j].reserved \in Int
               /\ Total(Entries(staged[t], ReservedKinds, j)) = ReservedBy(t, j)
               /\ Total(Entries(staged[t], OnHandKinds, j)) = OnHandBy(t, j)
    BY DEF BookInv, ThreadInv, Works, Staging, Summed, StockInv, TypeOK, Balance
  <1>6. ASSUME NEW j \in Item
        PROVE  /\ Visible(t, j)'.onHand = inventory[j].onHand + OnHandBy(t, j)'
               /\ Visible(t, j)'.reserved = inventory[j].reserved + ReservedBy(t, j)'
    BY DEF BookInv, ThreadInv, Works
  <1>7. ASSUME NEW j \in Item PROVE ReservedBy(t, j)' \in Int /\ OnHandBy(t, j)' \in Int
    <2>1. Moved(t, j)' \in Int
      <3>1. CASE row'[t] = NoOrder
        BY <3>1 DEF Moved
      <3>2. CASE row'[t] # NoOrder
        <4>1. Done(t)' \in SUBSET Line
          BY <3>2, StockAssumption DEF Done, StockInv, TypeOK, OrderRow
        <4>2. Cardinality(UnitsOf(row'[t].alloc, Done(t)', j)) \in Int
          BY <4>1, UnitsFinite
        <4> QED BY <3>2, <4>2 DEF Moved
      <3> QED BY <3>1, <3>2
    <2>2. Corrects(t)' => req'[t].adj.delta \in Int
      BY StockAssumption DEF Corrects, AdjustRequest
    <2> QED BY <2>1, <2>2 DEF ReservedBy, OnHandBy
  <1>8. ASSUME NEW j \in Item
        PROVE  /\ Total(Entries(staged'[t], ReservedKinds, j)) = ReservedBy(t, j)'
               /\ Total(Entries(staged'[t], OnHandKinds, j)) = OnHandBy(t, j)'
    <2>1. Total(Entries(staged'[t], ReservedKinds, j)) = ReservedBy(t, j)'
      <3> PICK d : d = IF m.item = j /\ m.kind \in ReservedKinds THEN m.delta ELSE 0
        OBVIOUS
      <3>1. d \in Int
        BY <1>a
      <3>2. Total(Entries(staged'[t], ReservedKinds, j))
              = Total(Entries(staged[t], ReservedKinds, j)) + d
        BY <1>4
      <3>3. Visible(t, j)'.reserved = Visible(t, j).reserved + d
        OBVIOUS
      <3> PICK c, b, a : c = inventory[j].reserved /\ b = ReservedBy(t, j) /\ a = ReservedBy(t, j)'
        OBVIOUS
      <3>4. c \in Int /\ b \in Int /\ a \in Int /\ c + a = (c + b) + d
        BY <1>4, <1>5, <1>6, <1>7, <3>3
      <3>5. a = b + d
        BY ONLY <3>1, <3>4
      <3> QED BY <1>5, <3>2, <3>5
    <2>2. Total(Entries(staged'[t], OnHandKinds, j)) = OnHandBy(t, j)'
      <3> PICK d : d = IF m.item = j /\ m.kind \in OnHandKinds THEN m.delta ELSE 0
        OBVIOUS
      <3>1. d \in Int
        BY <1>a
      <3>2. Total(Entries(staged'[t], OnHandKinds, j))
              = Total(Entries(staged[t], OnHandKinds, j)) + d
        BY <1>4
      <3>3. Visible(t, j)'.onHand = Visible(t, j).onHand + d
        OBVIOUS
      <3> PICK c, b, a : c = inventory[j].onHand /\ b = OnHandBy(t, j) /\ a = OnHandBy(t, j)'
        OBVIOUS
      <3>4. c \in Int /\ b \in Int /\ a \in Int /\ c + a = (c + b) + d
        BY <1>4, <1>5, <1>6, <1>7, <3>3
      <3>5. a = b + d
        BY ONLY <3>1, <3>4
      <3> QED BY <1>5, <3>2, <3>5
    <2> QED BY <2>1, <2>2
  <1> QED BY <1>3, <1>8 DEF Summed

\* What a Write stages.
LEMMA WriteStages ==
  ASSUME StockInv, StockInv', BookInv, BookInv', NEW t \in Thread, Staging(t),
         NEW i \in Item, NEW new, NEW kind, NEW key, NEW delta \in Int,
         Write(t, i, new, kind, key, delta), UNCHANGED inventory,
         \A m \in staged[t] : m.key # key,
         new.reserved = Visible(t, i).reserved + (IF kind \in ReservedKinds THEN delta ELSE 0),
         new.onHand = Visible(t, i).onHand + (IF kind \in OnHandKinds THEN delta ELSE 0)
  PROVE  /\ IsFiniteSet(staged'[t]) /\ Summed(t)'
         /\ \E m : /\ staged'[t] = staged[t] \cup {m} /\ m.kind = kind /\ m.key = key
                   /\ m.item = i
  <1>1. /\ Visible(t, i)' = new
        /\ \A j \in Item \ {i} : Visible(t, j)' = Visible(t, j)
        /\ \E m : /\ staged'[t] = staged[t] \cup {m} /\ m.kind = kind /\ m.key = key
                  /\ m.item = i /\ m.delta = delta
    BY WriteShows
  <1>2. PICK m : /\ staged'[t] = staged[t] \cup {m} /\ m.kind = kind /\ m.key = key
                 /\ m.item = i /\ m.delta = delta
    BY <1>1
  <1>3. m \in MovementRow /\ m \notin staged[t]
    BY <1>2 DEF StockInv, TypeOK
  <1>4. ASSUME NEW j \in Item
        PROVE  /\ Visible(t, j)'.reserved = Visible(t, j).reserved
                    + (IF m.item = j /\ m.kind \in ReservedKinds THEN m.delta ELSE 0)
               /\ Visible(t, j)'.onHand = Visible(t, j).onHand
                    + (IF m.item = j /\ m.kind \in OnHandKinds THEN m.delta ELSE 0)
    <2>1. Visible(t, j).reserved \in Int /\ Visible(t, j).onHand \in Int
      BY VisibleBalanced DEF Balance
    <2>2. CASE j = i
      BY <1>1, <1>2, <2>2
    <2>3. CASE j # i
      <3>1. Visible(t, j)' = Visible(t, j)
        BY <1>1, <2>3
      <3> QED BY <1>2, <2>1, <2>3, <3>1
    <2> QED BY <2>2, <2>3
  <1> QED BY <1>2, <1>3, <1>4, MovementStaged

\* The movement of a line.
LEMMA LineStaged ==
  ASSUME StockInv, StockInv', BookInv, BookInv', NEW t \in Thread, Staging(t),
         ~ Corrects(t), row[t] # NoOrder, row'[t] # NoOrder,
         req'[t] = req[t], row'[t].payload = row[t].payload,
         req[t] \in StatusRequest => MovesStock(req[t].target),
         line[t] \in todo[t], todo'[t] = todo[t] \ {line[t]},
         \A l \in Done(t) : row'[t].alloc[l] = row[t].alloc[l],
         NEW i \in Item, i = row'[t].alloc[line[t]], NEW new, NEW delta \in Int,
         Write(t, i, new, BookedKind(t), <<OrderOf(t), line[t]>>, delta), UNCHANGED inventory,
         new.reserved = Visible(t, i).reserved + delta,
         new.onHand = Visible(t, i).onHand + (IF BookedKind(t) = "shipment" THEN delta ELSE 0)
  PROVE  Staging(t)'
  <1>1. /\ line[t] \in LinesOf[row[t].payload] /\ todo[t] \subseteq LinesOf[row[t].payload]
    BY DEF StockInv, RowsAllocated
  <1>2. Done(t)' = Done(t) \cup {line[t]} /\ line[t] \notin Done(t)
    BY <1>1 DEF Done
  <1>3. Booked(t) = Done(t) /\ Booked(t)' = Done(t)'
    BY DEF Booked
  <1>4. BookedKind(t)' = BookedKind(t) /\ OrderOf(t)' = OrderOf(t)
    BY DEF BookedKind, OrderOf
  <1>5. BookedKind(t) \in ReservedKinds
        /\ (BookedKind(t) \in OnHandKinds <=> BookedKind(t) = "shipment")
    BY DEF BookedKind, ReservedKinds, OnHandKinds
  <1>6. \A m \in staged[t] : \E l \in Done(t) : Books(t, l, m)
    BY <1>3 DEF BookInv, ThreadInv, Adjusting, Staging, Traced
  <1>7. \A m \in staged[t] : m.key # <<OrderOf(t), line[t]>>
    BY <1>2, <1>6 DEF Books
  <1> PICK kind, key : kind = BookedKind(t) /\ key = <<OrderOf(t), line[t]>>
    OBVIOUS
  <1>8. /\ IsFiniteSet(staged'[t]) /\ Summed(t)'
        /\ \E m : /\ staged'[t] = staged[t] \cup {m} /\ m.kind = kind /\ m.key = key
                  /\ m.item = i
    <2>1. /\ Write(t, i, new, kind, key, delta) /\ \A m \in staged[t] : m.key # key
          /\ new.reserved = Visible(t, i).reserved + (IF kind \in ReservedKinds THEN delta ELSE 0)
          /\ new.onHand = Visible(t, i).onHand + (IF kind \in OnHandKinds THEN delta ELSE 0)
      BY <1>5, <1>7
    <2> QED BY <2>1, WriteStages
  <1>9. PICK m : /\ staged'[t] = staged[t] \cup {m} /\ m.kind = kind /\ m.key = key
                 /\ m.item = i
    BY <1>8
  <1> PICK ln : ln = line[t]
    OBVIOUS
  <1>10. Books(t, ln, m)'
    BY <1>4, <1>9 DEF Books
  <1>11. \A l \in Done(t) : \A x : Books(t, l, x)' <=> Books(t, l, x)
    BY <1>4 DEF Books
  <1>12. \A l \in Done(t) : \E x \in staged[t] : Books(t, l, x)
    BY <1>3 DEF Staging, Traced
  <1>13. Booked(t)' = Done(t) \cup {ln}
    BY <1>2, <1>3
  <1>14. Traced(t)'
    <2>1. ASSUME NEW x \in staged'[t] PROVE \E l \in Booked(t)' : Books(t, l, x)'
      BY <1>6, <1>9, <1>10, <1>11, <1>13
    <2>2. ASSUME NEW l \in Booked(t)' PROVE \E x \in staged'[t] : Books(t, l, x)'
      BY <1>9, <1>10, <1>11, <1>12, <1>13
    <2> QED BY <1>8, <2>1, <2>2 DEF Traced
  <1> QED BY <1>8, <1>14 DEF Staging

\* A step of one thread leaves the others where they are.
LEMMA OthersRest ==
  ASSUME StockInv, NEW t \in Thread,
         Ingest(t) \/ UpdateStatus(t) \/ RequestAdjustment(t) \/ Step(t) \/ Crash(t),
         ~ Commit(t)
  PROVE  \A u \in Thread \ {t} : Rests(u)
  <1> USE DEF StockInv, TypeOK, Rests
  <1>1. CASE Ingest(t) \/ UpdateStatus(t) \/ RequestAdjustment(t)
    BY <1>1 DEF Ingest, UpdateStatus, RequestAdjustment, Begin, tx
  <1>2. CASE \E a : Rollback(t, a)
    BY <1>2 DEF Rollback, Reply, Forget
  <1>3. CASE \E first : Integrity(t, first)
    BY <1>2, <1>3 DEF Integrity, Forget
  <1>4. CASE Step(t) /\ ~ (\E a : Rollback(t, a)) /\ ~ (\E first : Integrity(t, first))
    <2>1. CASE LookupOrder(t)
      BY <1>4, <2>1 DEF LookupOrder, Goto, tx
    <2>2. CASE LookupEvent(t)
      BY <1>4, <2>2 DEF LookupEvent, Goto, tx
    <2>3. CASE LookupMovement(t)
      BY <1>4, <2>3 DEF LookupMovement, Goto, tx
    <2>4. CASE SelectCandidates(t)
      BY <1>4, <2>4 DEF SelectCandidates, Goto
    <2>5. CASE ReadBefore(t)
      BY <1>4, <2>5 DEF ReadBefore, Goto
    <2>6. CASE ReadItem(t)
      BY <1>4, <2>6 DEF ReadItem, Goto
    <2>7. CASE InsertOrder(t)
      BY <1>4, <2>7 DEF InsertOrder, Goto
    <2>8. CASE Reserve(t)
      BY ZenonT(40), <1>4, <2>8 DEF Reserve, Write, NextLine, Goto
    <2>9. CASE LockOrder(t)
      BY <1>4, <2>9 DEF LockOrder, Goto
    <2>10. CASE Release(t)
      BY ZenonT(40), <1>4, <2>10 DEF Release, Write, NextLine, Goto
    <2>11. CASE Ship(t)
      BY ZenonT(40), <1>4, <2>11 DEF Ship, Write, NextLine, Goto
    <2>12. CASE LockItem(t)
      BY <1>4, <2>12 DEF LockItem, Goto
    <2>13. CASE Adjust(t)
      <3>1. /\ \E new : Write(t, req[t].adj.item, new, "adjustment", req[t].adj.key,
                              req[t].adj.delta)
            /\ pc' = [pc EXCEPT ![t] = "commit"]
            /\ UNCHANGED <<req, todo, line, cand, row>>
        BY <1>4, <2>13 DEF Adjust, Goto
      <3> QED BY <3>1 DEF Write
    <2>14. CASE Deadlock(t)
      BY <1>4, <2>14 DEF Deadlock
    <2> QED BY <1>4, <2>1, <2>2, <2>3, <2>4, <2>5, <2>6, <2>7, <2>8, <2>9, <2>10, <2>11,
               <2>12, <2>13, <2>14 DEF Step
  <1>5. CASE Crash(t)
    BY <1>2, <1>5 DEF Crash
  <1> QED BY <1>1, <1>2, <1>3, <1>4, <1>5

\* A transaction that ends without a commit has staged nothing.
LEMMA ForgetsStaged ==
  ASSUME StockInv, BookInv', NEW t \in Thread, Forget(t)
  PROVE  Staging(t)'
  <1>1. staged'[t] = {} /\ row'[t] = NoOrder
    BY DEF Forget, StockInv, TypeOK
  <1>2. Booked(t)' = {}
    BY <1>1 DEF Booked
  <1> QED BY <1>1, <1>2, StagesNothing

\* A statement that only reads.
LEMMA ReadingStages ==
  ASSUME NEW t \in Thread, Staging(t), UNCHANGED <<req, row, todo, staged>>,
         pc[t] # "commit", pc'[t] # "commit"
  PROVE  Staging(t)'
  <1>1. Corrects(t)' = Corrects(t)
    BY DEF Corrects
  <1> QED BY <1>1, StagingStays

LEMMA ReadsStage ==
  ASSUME StockInv, BookInv', NEW t \in Thread, Staging(t),
         \/ LookupOrder(t) \/ LookupEvent(t) \/ LookupMovement(t) \/ LockItem(t)
         \/ SelectCandidates(t) \/ ReadBefore(t) \/ ReadItem(t)
  PROVE  Staging(t)'
  <1>1. CASE \E a : Rollback(t, a)
    BY <1>1, ForgetsStaged DEF Rollback, Reply
  <1>2. CASE ~ \E a : Rollback(t, a)
    <2>1. /\ UNCHANGED <<req, row, todo, staged>>
          /\ pc[t] # "commit" /\ pc'[t] # "commit"
      BY <1>2 DEF LookupOrder, LookupEvent, LookupMovement, LockItem, SelectCandidates,
                  ReadBefore, ReadItem, Goto, tx, StockInv, TypeOK
    <2> QED BY <2>1, ReadingStages
  <1> QED BY <1>1, <1>2

\* A request begins with nothing.
LEMMA BeginStages ==
  ASSUME StockInv, BookInv, BookInv', NEW t \in Thread, Staging(t),
         \E r, label : Begin(t, r, label)
  PROVE  Staging(t)'
  <1>1. pc[t] = "idle" /\ UNCHANGED <<row, staged>>
    BY DEF Begin, tx
  <1>2. row[t] = NoOrder /\ ~ Corrects(t)
    BY <1>1 DEF StockInv, Control, ControlOf, Corrects
  <1>3. Booked(t) = {} /\ Booked(t)' = {}
    BY <1>1, <1>2 DEF Booked
  <1>4. staged[t] = {}
    BY <1>2, <1>3, NothingStaged
  <1> QED BY <1>1, <1>3, <1>4, StagesNothing

\* An order that is inserted, or locked, has no line done.
LEMMA InsertStages ==
  ASSUME StockInv, BookInv, BookInv', NEW t \in Thread, Staging(t), InsertOrder(t)
  PROVE  Staging(t)'
  <1> DEFINE w == req[t].hook
             new == [payload |-> w.payload, evt |-> w.evt,
                     status |-> FirstStatus[w.payload],
                     alloc |-> [l \in Line |-> NoItem]]
  <1>1. req[t] \in IngestRequest /\ pc[t] = "insertOrder" /\ req[t] \notin AdjustRequest
    BY DEF InsertOrder, StockInv, Control, ControlOf, IngestRequest, AdjustRequest
  <1>2. CASE orders[w.ext] # NoOrder \/ EventOwner(w.evt) # {}
    <2>1. Forget(t)
      BY <1>2 DEF InsertOrder, Integrity, Rollback, Reply
    <2> QED BY <2>1, ForgetsStaged
  <1>3. CASE ~ (orders[w.ext] # NoOrder \/ EventOwner(w.evt) # {})
    <2>1. /\ row' = [row EXCEPT ![t] = new]
          /\ todo' = [todo EXCEPT ![t] = LinesOf[w.payload]]
          /\ UNCHANGED <<req, staged>>
      BY <1>3 DEF InsertOrder, Goto
    <2>2. row'[t] = new /\ todo'[t] = LinesOf[w.payload]
      BY <2>1 DEF StockInv, TypeOK
    <2>3. Booked(t)' = {}
      BY <2>2 DEF Booked, Done
    <2>4. row[t] = NoOrder /\ ~ Corrects(t)
      BY <1>1 DEF BookInv, ThreadInv, Placing, Corrects
    <2>5. staged[t] = {}
      <3>1. Booked(t) = {}
        BY <2>4 DEF Booked
      <3> QED BY <2>4, <3>1, NothingStaged
    <2> QED BY <2>1, <2>3, <2>5, StagesNothing
  <1> QED BY <1>2, <1>3

LEMMA LockStages ==
  ASSUME StockInv, BookInv, BookInv', NEW t \in Thread, Staging(t), LockOrder(t)
  PROVE  Staging(t)'
  <1> DEFINE o == orders[req[t].ext]
             s == req[t].target
             new == [o EXCEPT !.status = s]
             moved == IF MovesStock(s) THEN LinesOf[o.payload] ELSE {}
  <1>1. CASE \E a : Rollback(t, a)
    BY <1>1, ForgetsStaged DEF Rollback, Reply
  <1>2. CASE ~ \E a : Rollback(t, a)
    <2>1. /\ req[t] \in StatusRequest /\ req[t].ext \in ExtId /\ s \in Status
          /\ pc[t] = "lockOrder" /\ req[t] \notin AdjustRequest
      BY OrderStockAssumption
         DEF LockOrder, StockInv, Control, ControlOf, StatusRequest, AdjustRequest
    <2>2. /\ o # NoOrder
          /\ todo' = [todo EXCEPT ![t] = moved]
          /\ row' = [row EXCEPT ![t] = new]
          /\ UNCHANGED <<req, staged>>
      BY <1>2 DEF LockOrder, Goto
    <2>3. row'[t] = new /\ todo'[t] = moved
      BY <2>2 DEF StockInv, TypeOK
    <2>4. new.payload = o.payload
      BY <2>1, <2>2 DEF StockInv, TypeOK, OrderRow
    <2>5. Booked(t)' = {}
      <3>1. MovesStock(s) => Done(t)' = {}
        BY <2>3, <2>4 DEF Done
      <3> QED BY <2>1, <2>2, <3>1 DEF Booked
    <2>6. row[t] = NoOrder /\ ~ Corrects(t)
      BY <2>1 DEF BookInv, ThreadInv, Changing, Corrects
    <2>7. staged[t] = {}
      <3>1. Booked(t) = {}
        BY <2>6 DEF Booked
      <3> QED BY <2>6, <3>1, NothingStaged
    <2> QED BY <2>2, <2>5, <2>7, StagesNothing
  <1> QED BY <1>1, <1>2

\* A reservation stages the movement of its line.
LEMMA ReserveStages ==
  ASSUME StockInv, StockInv', BookInv, BookInv', NEW t \in Thread, Staging(t), Reserve(t)
  PROVE  Staging(t)'
  <1>0. /\ pc[t] = "reserve" /\ req[t] \in IngestRequest /\ row[t] # NoOrder
        /\ line[t] \in todo[t] /\ line[t] \in Line
        /\ cand[t] \in Seq(Item) /\ cand[t] # <<>> /\ row[t] \in OrderRow
    BY DEF Reserve, StockInv, Control, ControlOf, TypeOK
  <1>a. req[t] \notin StatusRequest /\ req[t] \notin AdjustRequest
    BY <1>0 DEF IngestRequest, StatusRequest, AdjustRequest
  <1>2. PICK i \in Item : i = Head(cand[t])
    BY <1>0
  <1> DEFINE b == Visible(t, i)
             q == Quantity[line[t]]
             new == [b EXCEPT !.reserved = @ + q]
  <1>3. q \in Int /\ b \in Balance
    BY <1>0, <1>2, StockAssumption, VisibleBalanced
  <1>4. CASE Available(b) < q
    <2> HIDE DEF b, q
    <2>1. /\ pc' = [pc EXCEPT ![t] = "readBefore"]
          /\ UNCHANGED <<req, row, todo, staged>>
      BY <1>2, <1>3, <1>4 DEF Reserve, Goto, b, q, Available, Balance
    <2>2. pc'[t] # "commit"
      BY <2>1 DEF StockInv, TypeOK
    <2> QED BY <1>0, <2>1, <2>2, ReadingStages
  <1>5. CASE Available(b) >= q
    <2> HIDE DEF b, q
    <2>1. /\ Write(t, i, new, "reservation", <<req[t].hook.ext, line[t]>>, q)
          /\ row' = [row EXCEPT ![t].alloc[line[t]] = i]
          /\ todo' = [todo EXCEPT ![t] = todo[t] \ {line[t]}]
          /\ UNCHANGED <<inventory, req>>
      BY <1>2, <1>3, <1>5 DEF Reserve, NextLine, Goto, b, q, Available, Balance
    <2>2. /\ row'[t] = [row[t] EXCEPT !.alloc[line[t]] = i]
          /\ todo'[t] = todo[t] \ {line[t]}
      BY <2>1 DEF StockInv, TypeOK
    <2>3. [row[t] EXCEPT !.alloc[line[t]] = i] \in OrderRow
      BY <1>0, <1>2 DEF OrderRow
    <2>4. /\ row'[t].alloc = [row[t].alloc EXCEPT ![line[t]] = i]
          /\ row'[t].payload = row[t].payload
          /\ row[t].alloc \in [Line -> Item \cup {NoItem}]
      BY <1>0, <2>2 DEF OrderRow
    <2>5. row'[t] # NoOrder
      BY <2>2, <2>3, StockAssumption
    <2>6. i = row'[t].alloc[line[t]]
      BY <1>0, <2>4
    <2>7. \A l \in Done(t) : row'[t].alloc[l] = row[t].alloc[l]
      <3>1. Done(t) \subseteq Line \ {line[t]}
        BY <1>0, StockAssumption DEF Done, OrderRow
      <3> QED BY <2>4, <3>1
    <2>8. BookedKind(t) = "reservation" /\ OrderOf(t) = req[t].hook.ext /\ ~ Corrects(t)
      BY <1>0, <1>a DEF BookedKind, OrderOf, IngestRequest, Corrects
    <2>9. new.reserved = b.reserved + q /\ new.onHand = b.onHand + 0
      BY <1>3 DEF Balance
    <2> HIDE DEF new
    <2>10. PICK n, d : n = new /\ d = q
      OBVIOUS
    <2>11. /\ d \in Int /\ Write(t, i, n, BookedKind(t), <<OrderOf(t), line[t]>>, d)
           /\ n.reserved = Visible(t, i).reserved + d
           /\ n.onHand = Visible(t, i).onHand + (IF BookedKind(t) = "shipment" THEN d ELSE 0)
      BY <1>3, <2>1, <2>8, <2>9, <2>10 DEF b
    <2>12. req'[t] = req[t] /\ (req[t] \in StatusRequest => MovesStock(req[t].target))
      BY <1>a, <2>1
    <2>13. /\ ~ Corrects(t) /\ row[t] # NoOrder /\ row'[t] # NoOrder
           /\ row'[t].payload = row[t].payload
           /\ line[t] \in todo[t] /\ todo'[t] = todo[t] \ {line[t]} /\ UNCHANGED inventory
      BY <1>0, <2>1, <2>2, <2>4, <2>5, <2>8
    <2> QED BY ONLY SMTT(30), StockInv, StockInv', BookInv, BookInv', t \in Thread, Staging(t),
                    i \in Item, <2>6, <2>7, <2>11, <2>12, <2>13, LineStaged
  <1> QED BY <1>3, <1>4, <1>5 DEF Available, Balance

\* So does a release, and a shipment.
LEMMA MoveItemStages ==
  ASSUME StockInv, StockInv', BookInv, BookInv', NEW t \in Thread, Staging(t),
         Release(t) \/ Ship(t)
  PROVE  Staging(t)'
  <1>0. /\ pc[t] = "moveItem" /\ req[t] \in StatusRequest
        /\ row[t] # NoOrder /\ row[t] \in OrderRow
        /\ line[t] \in todo[t] /\ line[t] \in Line
    BY DEF Release, Ship, StockInv, Control, ControlOf, TypeOK
  <1>a. req[t] \notin IngestRequest /\ req[t] \notin AdjustRequest
    BY <1>0 DEF IngestRequest, StatusRequest, AdjustRequest
  <1>1. PICK i \in Item : i = row[t].alloc[line[t]]
    BY <1>0, <1>a DEF StockInv, TypeOK, RowsAllocated
  <1>2. CASE \E a : Rollback(t, a)
    BY <1>2, ForgetsStaged DEF Rollback, Reply
  <1>3. CASE ~ \E a : Rollback(t, a)
    <2>1. PICK b, q : b = Visible(t, i) /\ q = Quantity[line[t]]
      OBVIOUS
    <2>2. q \in Int /\ b \in Balance
      BY <1>0, <2>1, StockAssumption, VisibleBalanced
    <2>3. OrderOf(t) = req[t].ext /\ ~ Corrects(t) /\ MovesStock(req[t].target)
      BY <1>0, <1>a DEF OrderOf, StatusRequest, Corrects, Release, Ship, MovesStock
    <2>4. \E new : /\ Write(t, i, new, BookedKind(t), <<OrderOf(t), line[t]>>, -q)
                   /\ new.reserved = b.reserved + (-q)
                   /\ new.onHand = b.onHand + (IF BookedKind(t) = "shipment" THEN -q ELSE 0)
      <3>1. CASE Release(t)
        <4>1. Write(t, i, [b EXCEPT !.reserved = @ - q], "release", <<req[t].ext, line[t]>>, -q)
          BY <1>1, <1>3, <2>1, <3>1 DEF Release
        <4>2. BookedKind(t) = "release"
          BY <1>a, <3>1 DEF BookedKind, Release
        <4>3. /\ [b EXCEPT !.reserved = @ - q].reserved = b.reserved + (-q)
              /\ [b EXCEPT !.reserved = @ - q].onHand = b.onHand + 0
          BY <2>2 DEF Balance
        <4> QED BY <2>3, <4>1, <4>2, <4>3
      <3>2. CASE Ship(t)
        <4>1. Write(t, i, [onHand |-> b.onHand - q, reserved |-> b.reserved - q],
                    "shipment", <<req[t].ext, line[t]>>, -q)
          BY <1>1, <1>3, <2>1, <3>2 DEF Ship
        <4>2. BookedKind(t) = "shipment"
          BY <1>a, <3>2 DEF BookedKind, Ship
        <4>3. b.onHand - q = b.onHand + (-q) /\ b.reserved - q = b.reserved + (-q)
          BY <2>2 DEF Balance
        <4> DEFINE new == [onHand |-> b.onHand - q, reserved |-> b.reserved - q]
        <4>4. new.onHand = b.onHand - q /\ new.reserved = b.reserved - q
          OBVIOUS
        <4> HIDE DEF new
        <4> QED BY <2>3, <4>1, <4>2, <4>3, <4>4 DEF new
      <3> QED BY <3>1, <3>2
    <2>5. PICK new : /\ Write(t, i, new, BookedKind(t), <<OrderOf(t), line[t]>>, -q)
                     /\ new.reserved = b.reserved + (-q)
                     /\ new.onHand = b.onHand + (IF BookedKind(t) = "shipment" THEN -q ELSE 0)
      BY <2>4
    <2>6. /\ todo' = [todo EXCEPT ![t] = todo[t] \ {line[t]}]
          /\ UNCHANGED <<inventory, req, row>>
      BY <1>3 DEF Release, Ship, NextLine, Goto
    <2>7. todo'[t] = todo[t] \ {line[t]} /\ row'[t] = row[t] /\ req'[t] = req[t]
      BY <2>6 DEF StockInv, TypeOK
    <2>8. row'[t].alloc = row[t].alloc /\ row'[t].payload = row[t].payload /\ row'[t] # NoOrder
      BY <1>0, <2>7
    <2>9. PICK d : d = -q
      OBVIOUS
    <2>10. /\ d \in Int /\ Write(t, i, new, BookedKind(t), <<OrderOf(t), line[t]>>, d)
           /\ new.reserved = Visible(t, i).reserved + d
           /\ new.onHand = Visible(t, i).onHand + (IF BookedKind(t) = "shipment" THEN d ELSE 0)
      BY <2>1, <2>2, <2>5, <2>9
    <2> QED BY <1>0, <1>1, <2>3, <2>6, <2>7, <2>8, <2>10, LineStaged
  <1> QED BY <1>2, <1>3

\* A correction stages its one movement.
LEMMA AdjustStages ==
  ASSUME StockInv, StockInv', BookInv, BookInv', NEW t \in Thread, Staging(t), Adjust(t)
  PROVE  Staging(t)'
  <1> DEFINE a == req[t].adj
  <1>0. /\ req[t] \in AdjustRequest /\ pc[t] = "adjust"
        /\ a.item \in Item /\ a.delta \in Int /\ row[t] = NoOrder
    BY StockAssumption DEF Adjust, StockInv, Control, ControlOf, AdjustRequest,
                           IngestRequest, StatusRequest
  <1>1. CASE Existing(a.key) # {}
    <2>1. Forget(t)
      BY <1>1 DEF Adjust, Integrity, Rollback, Reply
    <2> QED BY <2>1, ForgetsStaged
  <1>2. CASE Existing(a.key) = {}
    <2>a. PICK i \in Item, d \in Int : i = a.item /\ d = a.delta
      BY <1>0
    <2>0. PICK key, b : key = a.key /\ b = Visible(t, i)
      OBVIOUS
    <2> DEFINE new == [b EXCEPT !.onHand = @ + d]
    <2>1. /\ Write(t, i, new, "adjustment", key, d)
          /\ UNCHANGED <<inventory, req, todo, row>>
      BY <1>2, <2>0, <2>a DEF Adjust, Goto
    <2>2. Booked(t) = {} /\ Booked(t)' = {} /\ ~ Corrects(t)
      BY <1>0, <2>1 DEF Booked, Corrects
    <2>3. staged[t] = {}
      BY <2>2, NothingStaged
    <2>4. b \in Balance
      BY <2>0, VisibleBalanced
    <2>5. new.reserved = b.reserved /\ new.onHand = b.onHand + d /\ b.reserved \in Int
      BY <2>4 DEF Balance
    <2> HIDE DEF new
    <2> PICK kind : kind = "adjustment"
      OBVIOUS
    <2>6. /\ new.reserved = Visible(t, i).reserved + (IF kind \in ReservedKinds THEN d ELSE 0)
          /\ new.onHand = Visible(t, i).onHand + (IF kind \in OnHandKinds THEN d ELSE 0)
      BY <2>0, <2>5 DEF ReservedKinds, OnHandKinds
    <2>7. Write(t, i, new, kind, key, d) /\ \A m \in staged[t] : m.key # key
      BY <2>1, <2>3
    <2>8. /\ IsFiniteSet(staged'[t]) /\ Summed(t)'
          /\ \E m : /\ staged'[t] = staged[t] \cup {m} /\ m.kind = kind /\ m.key = key
                    /\ m.item = i
      BY <2>1, <2>6, <2>7, WriteStages
    <2>9. Traced(t)'
      BY <2>2, <2>3, <2>8 DEF Traced
    <2> QED BY <2>8, <2>9 DEF Staging
  <1> QED BY <1>1, <1>2

\* Every step but a commit.
LEMMA OthersStage ==
  ASSUME StockInv, StockInv', BookInv, BookInv', NEW t \in Thread,
         Ingest(t) \/ UpdateStatus(t) \/ RequestAdjustment(t) \/ Step(t) \/ Crash(t),
         ~ Commit(t), \A u \in Thread : Staging(u)
  PROVE  \A u \in Thread : Staging(u)'
  <1>1. Staging(t)'
    <2>1. CASE Ingest(t) \/ UpdateStatus(t) \/ RequestAdjustment(t)
      BY <2>1, BeginStages DEF Ingest, UpdateStatus, RequestAdjustment
    <2>2. CASE Step(t)
      <3>1. CASE Deadlock(t)
        BY <3>1, ForgetsStaged DEF Deadlock, Rollback, Reply
      <3> QED BY <2>2, <3>1, ReadsStage, InsertStages, LockStages, ReserveStages,
                 MoveItemStages, AdjustStages DEF Step
    <2>3. CASE Crash(t)
      BY <2>3, ForgetsStaged DEF Crash, Rollback, Reply
    <2> QED BY <2>1, <2>2, <2>3
  <1>2. ASSUME NEW u \in Thread \ {t} PROVE Staging(u)'
    <2>1. Rests(u)
      BY OthersRest
    <2>2. Corrects(u)' = Corrects(u)
      BY <2>1 DEF Rests, Corrects
    <2> QED BY <2>1, <2>2, StagingStays DEF Rests
  <1> QED BY <1>1, <1>2

\* What a transaction has staged for a line of an order.
LEMMA LineEntriesUnion ==
  ASSUME NEW M, NEW N, NEW e, NEW l
  PROVE  LineEntries(M \cup N, e, l) = LineEntries(M, e, l) \cup LineEntries(N, e, l)
  BY DEF LineEntries

LEMMA LineEntriesStaged ==
  ASSUME NEW t \in Thread, Traced(t), NEW e, NEW l
  PROVE  LineEntries(staged[t], e, l) =
           IF e = OrderOf(t) /\ l \in Booked(t) THEN {<<BookedKind(t), row[t].alloc[l]>>} ELSE {}
  <1>1. BookedKind(t) # "adjustment"
    BY DEF BookedKind
  <1>2. ASSUME NEW m \in staged[t], m.kind # "adjustment", m.key = <<e, l>>
        PROVE  /\ e = OrderOf(t) /\ l \in Booked(t)
               /\ <<m.kind, m.item>> = <<BookedKind(t), row[t].alloc[l]>>
    <2>1. PICK k \in Booked(t) : Books(t, k, m)
      BY <1>2 DEF Traced
    <2>2. e = OrderOf(t) /\ l = k
      BY <1>2, <2>1 DEF Books
    <2> QED BY <2>1, <2>2 DEF Books
  <1>3. ASSUME e = OrderOf(t), l \in Booked(t)
        PROVE  \E m \in staged[t] : /\ m.kind # "adjustment" /\ m.key = <<e, l>>
                                    /\ <<m.kind, m.item>> = <<BookedKind(t), row[t].alloc[l]>>
    BY <1>1, <1>3 DEF Traced, Books
  <1> QED BY <1>2, <1>3 DEF LineEntries

\* The lines booked when a transaction commits, and nothing of them is in the
\* ledger yet.
LEMMA CommitLines ==
  ASSUME StockInv, BookInv, LedgerMatchesOrders, NEW t \in Thread, Commit(t),
         NEW l \in Booked(t)
  PROVE  /\ OrderOf(t) \in ExtId /\ l \in Line
         /\ \A i : <<BookedKind(t), i>> \notin LineEntries(movements, OrderOf(t), l)
  <1>1. /\ row[t] # NoOrder /\ todo[t] = {} /\ req[t] \in Request
        /\ row[t] \in OrderRow
    BY CommitDoes DEF Booked, StockInv, TypeOK
  <1>2. l \in LinesOf[row[t].payload] /\ l \in Line
    BY <1>1, StockAssumption DEF Booked, Done, OrderRow
  <1>3. req[t] \notin AdjustRequest
    BY <1>1 DEF StockInv, Control, ControlOf
  <1>4. CASE req[t] \in IngestRequest
    <2>1. OrderOf(t) = req[t].hook.ext
      BY <1>4 DEF OrderOf, IngestRequest
    <2>2. OrderOf(t) \in ExtId /\ orders[OrderOf(t)] = NoOrder
      BY <1>4, <2>1, CommitPlaces
    <2>3. LineEntries(movements, OrderOf(t), l) = {}
      BY <1>2, <2>2 DEF LedgerMatchesOrders
    <2> QED BY <1>2, <2>2, <2>3
  <1>5. CASE req[t] \in StatusRequest
    <2>1. OrderOf(t) = req[t].ext /\ MovesStock(req[t].target) /\ req[t] \notin IngestRequest
      BY <1>1, <1>5 DEF OrderOf, StatusRequest, IngestRequest, Booked
    <2> DEFINE e == OrderOf(t)
    <2>2. /\ e \in ExtId /\ orders[e] # NoOrder /\ orders[e] \in OrderRow
          /\ req[t].target \in AllowedTransitions[orders[e].status]
      BY <1>5, <2>1, CommitChanges
    <2>3. row[t].payload = orders[e].payload
      <3>1. row[t] = [orders[e] EXCEPT !.status = row[t].status]
        BY <1>1, <2>1 DEF BookInv, RowsInv, RowCurrent
      <3> HIDE DEF e
      <3> QED BY <2>2, <3>1 DEF OrderRow
    <2>4. LineEntries(movements, e, l) = ExpectedEntries(orders[e], l)
      BY <1>2, <2>2, <2>3 DEF LedgerMatchesOrders
    <2>5. orders[e].status \in Open
      BY <2>1, <2>2 DEF OrderRow, AllowedTransitions, MovesStock, Open, Status
    <2>6. ExpectedEntries(orders[e], l) = {<<"reservation", orders[e].alloc[l]>>}
      BY <2>5 DEF ExpectedEntries, Open, Shipped
    <2>7. BookedKind(t) # "reservation"
      BY <2>1 DEF BookedKind
    <2> QED BY <1>2, <2>2, <2>4, <2>6, <2>7
  <1> QED BY <1>1, <1>3, <1>4, <1>5 DEF Request

LEMMA CommitApart ==
  ASSUME StockInv, BookInv, LedgerMatchesOrders, NEW t \in Thread, Commit(t), Traced(t)
  PROVE  movements \cap staged[t] = {}
  <1> SUFFICES ASSUME NEW m \in staged[t], m \in movements PROVE FALSE
    OBVIOUS
  <1>1. CASE m.kind = "adjustment"
    BY <1>1 DEF BookInv, ThreadInv, Adjusting, Existing
  <1>2. CASE m.kind # "adjustment"
    <2>1. PICK l \in Booked(t) : Books(t, l, m)
      BY <1>2 DEF Traced
    <2>2. <<BookedKind(t), m.item>> \in LineEntries(movements, OrderOf(t), l)
      BY <1>2, <2>1 DEF Books, LineEntries
    <2> QED BY <2>2, CommitLines
  <1> QED BY <1>1, <1>2

\* A commit books what its rows differ by.
LEMMA CommitReplays ==
  ASSUME StockInv, BookInv, LedgerInv, NEW t \in Thread, Commit(t)
  PROVE  IsFiniteSet(movements') /\ LedgerReplays'
  <1>1. movements' = movements \cup staged[t] /\ IsFiniteSet(movements) /\ IsFiniteSet(staged[t])
    BY CommitDoes DEF LedgerInv, Staging, Traced
  <1>2. movements \cap staged[t] = {}
    BY CommitApart DEF LedgerInv, Staging
  <1>3. Ledger(movements) /\ Ledger(staged[t])
    BY <1>1 DEF Ledger, StockInv, TypeOK, MovementRow
  <1>4. ASSUME NEW kinds, NEW i
        PROVE  /\ Total(Entries(movements', kinds, i)) =
                    Total(Entries(movements, kinds, i)) + Total(Entries(staged[t], kinds, i))
               /\ Total(Entries(movements, kinds, i)) \in Int
               /\ Total(Entries(staged[t], kinds, i)) \in Int
    <2> PICK M, N : M = movements /\ N = staged[t]
      OBVIOUS
    <2>1. Ledger(M) /\ Ledger(N) /\ M \cap N = {}
      BY <1>2, <1>3
    <2>2. /\ Total(Entries(M \cup N, kinds, i)) =
              Total(Entries(M, kinds, i)) + Total(Entries(N, kinds, i))
          /\ Total(Entries(M, kinds, i)) \in Int /\ Total(Entries(N, kinds, i)) \in Int
      BY ONLY <2>1, EntriesUnion
    <2> QED BY <1>1, <2>2
  <1>5. ASSUME NEW i \in Item
        PROVE  /\ inventory'[i].reserved = Total(Entries(movements', ReservedKinds, i))
               /\ inventory'[i].onHand = InitialOnHand[i] + Total(Entries(movements', OnHandKinds, i))
    <2>1. /\ inventory'[i].reserved = inventory[i].reserved + ReservedBy(t, i)
          /\ inventory'[i].onHand = inventory[i].onHand + OnHandBy(t, i)
      BY CommitDoes
    <2>2. /\ inventory[i].reserved = Total(Entries(movements, ReservedKinds, i))
          /\ inventory[i].onHand = InitialOnHand[i] + Total(Entries(movements, OnHandKinds, i))
      BY DEF LedgerInv, LedgerReplays, ReservedKinds, OnHandKinds
    <2>3. /\ Total(Entries(staged[t], ReservedKinds, i)) = ReservedBy(t, i)
          /\ Total(Entries(staged[t], OnHandKinds, i)) = OnHandBy(t, i)
      BY DEF LedgerInv, Staging, Summed
    <2>4. InitialOnHand[i] \in Int
      BY StockAssumption
    <2>5. inventory'[i].reserved = Total(Entries(movements', ReservedKinds, i))
      BY <1>4, <2>1, <2>2, <2>3
    <2>6. inventory'[i].onHand = InitialOnHand[i] + Total(Entries(movements', OnHandKinds, i))
      <3> PICK z, a, b : /\ z = InitialOnHand[i]
                         /\ a = Total(Entries(movements, OnHandKinds, i))
                         /\ b = Total(Entries(staged[t], OnHandKinds, i))
        OBVIOUS
      <3>1. /\ z \in Int /\ a \in Int /\ b \in Int /\ inventory'[i].onHand = (z + a) + b
            /\ Total(Entries(movements', OnHandKinds, i)) = a + b
        BY <1>4, <2>1, <2>2, <2>3, <2>4
      <3>2. (z + a) + b = z + (a + b)
        BY ONLY <3>1
      <3> QED BY <3>1, <3>2
    <2> QED BY <2>5, <2>6
  <1>6. IsFiniteSet(movements')
    BY <1>1, FS_Union
  <1> QED BY <1>5, <1>6 DEF LedgerReplays, ReservedKinds, OnHandKinds

\* A commit books each line of its order.
LEMMA CommitMatches ==
  ASSUME StockInv, BookInv, LedgerMatchesOrders, NEW t \in Thread, Commit(t), Traced(t)
  PROVE  LedgerMatchesOrders'
  <1>1. /\ movements' = movements \cup staged[t] /\ todo[t] = {} /\ req[t] \in Request
    BY CommitDoes
  <1>2. ASSUME NEW x \in ExtId, NEW l \in Line
        PROVE  LineEntries(movements', x, l) =
                 IF x = OrderOf(t) /\ l \in Booked(t)
                 THEN LineEntries(movements, x, l) \cup {<<BookedKind(t), row[t].alloc[l]>>}
                 ELSE LineEntries(movements, x, l)
    <2> PICK M, N, p : M = movements /\ N = staged[t] /\ p = <<BookedKind(t), row[t].alloc[l]>>
      OBVIOUS
    <2>1. LineEntries(M \cup N, x, l) = LineEntries(M, x, l) \cup LineEntries(N, x, l)
      BY LineEntriesUnion
    <2>2. LineEntries(N, x, l) = IF x = OrderOf(t) /\ l \in Booked(t) THEN {p} ELSE {}
      BY LineEntriesStaged
    <2>3. CASE x = OrderOf(t) /\ l \in Booked(t)
      BY <1>1, <2>1, <2>2, <2>3
    <2>4. CASE ~ (x = OrderOf(t) /\ l \in Booked(t))
      <3>1. LineEntries(M, x, l) \cup {} = LineEntries(M, x, l)
        OBVIOUS
      <3> QED BY <1>1, <2>1, <2>2, <2>4, <3>1
    <2> QED BY <2>3, <2>4
  <1> DEFINE Fine(table, M, x, l) ==
               IF table[x] # NoOrder /\ l \in LinesOf[table[x].payload]
               THEN /\ table[x].alloc[l] \in Candidates[l]
                    /\ LineEntries(M, x, l) = ExpectedEntries(table[x], l)
               ELSE LineEntries(M, x, l) = {}
  <1>3. \A x \in ExtId, l \in Line : Fine(orders, movements, x, l)
    BY DEF LedgerMatchesOrders
  <1>4. CASE req[t] \in IngestRequest
    <2> PICK e : e = req[t].hook.ext
      OBVIOUS
    <2>1. /\ e \in ExtId /\ orders[e] = NoOrder
          /\ row[t] \in OrderRow /\ row[t] # NoOrder /\ Fits(row[t], {})
          /\ row[t].status \in {"pending", "paid"}
          /\ orders'[e] = row[t] /\ \A x \in ExtId \ {e} : orders'[x] = orders[x]
      BY <1>4, CommitPlaces
    <2>2. OrderOf(t) = e /\ BookedKind(t) = "reservation" /\ Booked(t) = LinesOf[row[t].payload]
      BY <1>1, <1>4, <2>1 DEF OrderOf, BookedKind, Booked, Done, IngestRequest, StatusRequest
    <2>3. ASSUME NEW x \in ExtId, NEW l \in Line PROVE Fine(orders', movements', x, l)
      <3>1. CASE x = e
        <4>1. LineEntries(movements, e, l) = {}
          BY <1>3, <2>1
        <4>2. ExpectedEntries(row[t], l) = {<<"reservation", row[t].alloc[l]>>}
          BY <2>1 DEF ExpectedEntries, Shipped
        <4>3. l \in LinesOf[row[t].payload] => row[t].alloc[l] \in Candidates[l]
          BY <2>1 DEF Fits
        <4>4. CASE l \in LinesOf[row[t].payload]
          <5> PICK p : p = <<"reservation", row[t].alloc[l]>>
            OBVIOUS
          <5>1. LineEntries(movements', x, l) = {} \cup {p}
            BY <1>2, <2>2, <3>1, <4>1, <4>4
          <5>2. {} \cup {p} = {p}
            OBVIOUS
          <5> QED BY <2>1, <3>1, <4>2, <4>3, <4>4, <5>1, <5>2
        <4>5. CASE l \notin LinesOf[row[t].payload]
          <5>1. LineEntries(movements', x, l) = {}
            BY <1>2, <2>2, <3>1, <4>1, <4>5
          <5> QED BY <2>1, <3>1, <4>5, <5>1
        <4> QED BY <4>4, <4>5
      <3>2. CASE x # e
        <4>1. LineEntries(movements', x, l) = LineEntries(movements, x, l) /\ orders'[x] = orders[x]
          BY <1>2, <2>1, <2>2, <3>2
        <4> QED BY <1>3, <4>1
      <3> QED BY <3>1, <3>2
    <2> QED BY <2>3 DEF LedgerMatchesOrders
  <1>5. CASE req[t] \in StatusRequest
    <2> PICK e, s : e = req[t].ext /\ s = req[t].target
      OBVIOUS
    <2>1. /\ e \in ExtId /\ orders[e] # NoOrder /\ orders[e] \in OrderRow
          /\ s \in AllowedTransitions[orders[e].status]
          /\ orders'[e] = [orders[e] EXCEPT !.status = s]
          /\ \A x \in ExtId \ {e} : orders'[x] = orders[x]
      BY <1>5, CommitChanges
    <2>2. s \in Status /\ orders[e].status \in Status
      BY <2>1, StatusSteps DEF OrderRow
    <2>3. /\ orders'[e].status = s /\ orders'[e].alloc = orders[e].alloc
          /\ orders'[e].payload = orders[e].payload /\ orders'[e] # NoOrder
      <3>1. [orders[e] EXCEPT !.status = s] \in OrderRow
        BY <2>1, <2>2 DEF OrderRow
      <3> QED BY <2>1, <3>1, StockAssumption DEF OrderRow
    <2>4. OrderOf(t) = e /\ BookedKind(t) = IF s = "cancelled" THEN "release" ELSE "shipment"
      BY <1>5 DEF OrderOf, BookedKind, IngestRequest, StatusRequest
    <2>5. row[t] # NoOrder /\ row[t].alloc = orders[e].alloc /\ row[t].payload = orders[e].payload
      <3>1. row[t] # NoOrder
        BY <1>5, CommitDoes DEF BookInv, ThreadInv, Changing
      <3>2. orders'[e] = row[t]
        BY <2>1, <2>4, <3>1, CommitDoes
      <3> QED BY <2>3, <3>1, <3>2
    <2>6. Booked(t) = IF MovesStock(s) THEN LinesOf[orders[e].payload] ELSE {}
      BY <1>1, <1>5, <2>5 DEF Booked, Done
    <2>7. ASSUME NEW l
          PROVE  ExpectedEntries(orders'[e], l) =
                   ExpectedEntries(orders[e], l)
                   \cup (IF MovesStock(s) THEN {<<BookedKind(t), orders[e].alloc[l]>>} ELSE {})
      <3> PICK o, n, i : o = orders[e].status /\ n = orders'[e].status /\ i = orders[e].alloc[l]
        OBVIOUS
      <3>1. o \in Status /\ n = s /\ s \in AllowedTransitions[o]
        BY <2>1, <2>2, <2>3
      <3>2. /\ s = "cancelled" => o \notin Shipped /\ o # "cancelled"
            /\ s = "dispatched" => o \notin Shipped /\ o # "cancelled"
            /\ ~ MovesStock(s) => /\ (s \in Shipped <=> o \in Shipped)
                                  /\ s # "cancelled" /\ o # "cancelled"
        BY <3>1 DEF Status, AllowedTransitions, Shipped, MovesStock
      <3>3. MovesStock(s) <=> s = "cancelled" \/ s = "dispatched"
        BY DEF MovesStock
      <3>4. "cancelled" \notin Shipped /\ "dispatched" \in Shipped
        BY DEF Shipped
      <3>5. ExpectedEntries(orders[e], l) =
              {<<"reservation", i>>}
              \cup (IF o = "cancelled" THEN {<<"release", i>>} ELSE {})
              \cup (IF o \in Shipped THEN {<<"shipment", i>>} ELSE {})
        BY DEF ExpectedEntries
      <3>6. ExpectedEntries(orders'[e], l) =
              {<<"reservation", i>>}
              \cup (IF s = "cancelled" THEN {<<"release", i>>} ELSE {})
              \cup (IF s \in Shipped THEN {<<"shipment", i>>} ELSE {})
        BY <2>3 DEF ExpectedEntries
      <3>7. CASE s = "cancelled"
        BY <2>4, <3>2, <3>3, <3>4, <3>5, <3>6, <3>7
      <3>8. CASE s = "dispatched"
        BY <2>4, <3>2, <3>3, <3>4, <3>5, <3>6, <3>8
      <3>9. CASE ~ MovesStock(s)
        BY <3>2, <3>5, <3>6, <3>9
      <3> QED BY <3>3, <3>7, <3>8, <3>9
    <2>8. ASSUME NEW x \in ExtId, NEW l \in Line PROVE Fine(orders', movements', x, l)
      <3>1. CASE x = e
        <4>1. CASE l \in LinesOf[orders[e].payload]
          <5>1. /\ orders[e].alloc[l] \in Candidates[l]
                /\ LineEntries(movements, e, l) = ExpectedEntries(orders[e], l)
            BY <1>3, <2>1, <4>1
          <5>2. LineEntries(movements', e, l) = ExpectedEntries(orders'[e], l)
            <6>1. CASE MovesStock(s)
              <7> PICK p : p = <<BookedKind(t), orders[e].alloc[l]>>
                OBVIOUS
              <7>1. ExpectedEntries(orders'[e], l) = ExpectedEntries(orders[e], l) \cup {p}
                BY <2>7, <6>1
              <7>2. LineEntries(movements', e, l) = LineEntries(movements, e, l) \cup {p}
                BY SMTT(30), <1>2, <2>1, <2>4, <2>5, <2>6, <4>1, <6>1
              <7> QED BY <5>1, <7>1, <7>2
            <6>2. CASE ~ MovesStock(s)
              <7>1. ExpectedEntries(orders'[e], l) = ExpectedEntries(orders[e], l) \cup {}
                BY <2>7, <6>2
              <7>2. ExpectedEntries(orders[e], l) \cup {} = ExpectedEntries(orders[e], l)
                OBVIOUS
              <7>3. LineEntries(movements', e, l) = LineEntries(movements, e, l)
                BY <1>2, <2>1, <2>6, <6>2
              <7> QED BY <5>1, <7>1, <7>2, <7>3
            <6> QED BY <6>1, <6>2
          <5> QED BY <2>3, <3>1, <4>1, <5>1, <5>2
        <4>2. CASE l \notin LinesOf[orders[e].payload]
          <5>1. LineEntries(movements, e, l) = {}
            BY <1>3, <2>1, <4>2
          <5>2. LineEntries(movements', e, l) = LineEntries(movements, e, l)
            BY <1>2, <2>1, <2>6, <4>2
          <5> QED BY <2>3, <3>1, <4>2, <5>1, <5>2
        <4> QED BY <4>1, <4>2
      <3>2. CASE x # e
        <4>1. LineEntries(movements', x, l) = LineEntries(movements, x, l) /\ orders'[x] = orders[x]
          BY <1>2, <2>1, <2>4, <3>2
        <4> QED BY <1>3, <4>1
      <3> QED BY <3>1, <3>2
    <2> QED BY <2>8 DEF LedgerMatchesOrders
  <1>6. CASE req[t] \in AdjustRequest
    <2>1. UNCHANGED orders
      BY <1>6, CommitAdjusts
    <2>2. Booked(t) = {}
      BY <1>6 DEF Booked, StockInv, Control, ControlOf
    <2>3. ASSUME NEW x \in ExtId, NEW l \in Line PROVE Fine(orders', movements', x, l)
      <3>1. LineEntries(movements', x, l) = LineEntries(movements, x, l) /\ orders'[x] = orders[x]
        BY <1>2, <2>1, <2>2
      <3> QED BY <1>3, <3>1
    <2> QED BY <2>3 DEF LedgerMatchesOrders
  <1> QED BY <1>1, <1>4, <1>5, <1>6 DEF Request

LEMMA CommitKeepsLedger ==
  ASSUME StockInv, BookInv, BookInv', LedgerInv, NEW t \in Thread, Commit(t)
  PROVE  LedgerInv'
  <1>1. IsFiniteSet(movements') /\ LedgerReplays'
    BY CommitReplays
  <1>2. LedgerMatchesOrders'
    BY CommitMatches DEF LedgerInv, Staging
  <1>3. Staging(t)'
    BY CommitDoes, ForgetsStaged
  <1>4. ASSUME NEW u \in Thread \ {t} PROVE Staging(u)'
    <2>1. Rests(u) /\ Staging(u)
      BY CommitDoes DEF LedgerInv
    <2>2. Corrects(u)' = Corrects(u)
      BY <2>1 DEF Rests, Corrects
    <2> QED BY <2>1, <2>2, StagingStays DEF Rests
  <1> QED BY <1>1, <1>2, <1>3, <1>4 DEF LedgerInv

LEMMA NextKeepsLedger ==
  ASSUME StockInv, StockInv', BookInv, BookInv', LedgerInv, [Next]_vars
  PROVE  LedgerInv'
  <1>1. ASSUME UNCHANGED db, \A u \in Thread : Staging(u)' PROVE LedgerInv'
    <2>1. UNCHANGED <<inventory, orders, movements>>
      BY <1>1 DEF db
    <2>2. LedgerReplays' /\ LedgerMatchesOrders'
      BY <2>1 DEF LedgerInv, LedgerReplays, LedgerMatchesOrders
    <2> QED BY <1>1, <2>1, <2>2 DEF LedgerInv
  <1>2. CASE UNCHANGED vars
    <2>1. ASSUME NEW u \in Thread PROVE Staging(u)'
      <3>1. Corrects(u)' = Corrects(u) /\ UNCHANGED <<req, row, todo, staged>>
        BY <1>2 DEF vars, Corrects
      <3> QED BY <3>1, StagingStays DEF LedgerInv
    <2> QED BY <1>1, <1>2, <2>1 DEF vars, db
  <1>3. ASSUME NEW t \in Thread, Commit(t) PROVE LedgerInv'
    BY <1>3, CommitKeepsLedger
  <1>4. ASSUME NEW t \in Thread,
               Ingest(t) \/ UpdateStatus(t) \/ RequestAdjustment(t) \/ Step(t) \/ Crash(t),
               ~ Commit(t)
        PROVE  LedgerInv'
    BY <1>1, <1>4, OthersStage, OthersKeepBook DEF LedgerInv
  <1> QED BY <1>2, <1>3, <1>4 DEF Next

LEMMA InitKeepsLedger ==
  ASSUME Init
  PROVE  LedgerInv
  <1>1. movements = {} /\ \A t \in Thread : row[t] = NoOrder /\ staged[t] = {}
    BY DEF Init
  <1>2. \A M, kinds, i : M = {} => Total(Entries(M, kinds, i)) = 0
    <2>1. \A kinds, i : Entries({}, kinds, i) = {}
      BY DEF Entries
    <2> QED BY <2>1, TotalOfNone
  <1>3. LedgerReplays
    <2>1. \A i \in Item : inventory[i].reserved = 0 /\ inventory[i].onHand = InitialOnHand[i]
      BY DEF Init
    <2>2. \A i \in Item : InitialOnHand[i] + 0 = InitialOnHand[i]
      BY StockAssumption
    <2> QED BY <1>1, <1>2, <2>1, <2>2 DEF LedgerReplays
  <1>4. LedgerMatchesOrders
    BY <1>1 DEF Init, LedgerMatchesOrders, LineEntries
  <1>5. ASSUME NEW t \in Thread PROVE Staging(t)
    <2>1. ~ Corrects(t) /\ Booked(t) = {}
      BY <1>1 DEF Init, Corrects, Booked
    <2>2. ASSUME NEW i \in Item PROVE OnHandBy(t, i) = 0 /\ ReservedBy(t, i) = 0
      BY <1>1, <2>1, NothingMoved
    <2>3. Traced(t)
      BY <1>1, <2>1, FS_EmptySet DEF Traced
    <2>4. Summed(t)
      BY <1>1, <1>2, <2>2 DEF Summed
    <2> QED BY <2>3, <2>4 DEF Staging
  <1> QED BY <1>1, <1>3, <1>4, <1>5, FS_EmptySet DEF LedgerInv

\* What every transaction has staged accounts for what its rows differ by.
THEOREM LedgerHolds == Spec => []LedgerInv
  <1>1. Init => LedgerInv
    BY InitKeepsLedger
  <1>2. StockInv /\ StockInv' /\ BookInv /\ BookInv' /\ LedgerInv /\ [Next]_vars => LedgerInv'
    BY NextKeepsLedger
  <1> QED BY <1>1, <1>2, InvariantHolds, BookHolds, PTL DEF Spec

\* Replaying inventory_movements gives both quantities of every inventory row
\* (orders.py _inventory_events, inventory/service.py adjust).
THEOREM LedgerAlwaysReplays == Spec => []LedgerReplays
  <1>1. LedgerInv => LedgerReplays
    BY DEF LedgerInv
  <1> QED BY <1>1, LedgerHolds, PTL

\* Every line of an order is reserved at one row of its SKU and leaves that
\* reservation once (orders.py _reserve, _release_order, _ship_order).
THEOREM LedgerAlwaysMatches == Spec => []LedgerMatchesOrders
  <1>1. LedgerInv => LedgerMatchesOrders
    BY DEF LedgerInv
  <1> QED BY <1>1, LedgerHolds, PTL
=============================================================================

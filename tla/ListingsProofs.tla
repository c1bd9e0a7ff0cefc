--------------------------- MODULE ListingsProofs ---------------------------
(***************************************************************************)
(* Safety of drafts and publications for any number of deliveries, SKUs    *)
(* and attempts, on every marketplace.                                     *)
(***************************************************************************)
EXTENDS Listings, TLAPS

\* A draft is written with the success of its run, and an agent that is about
\* to write one has read a version that there is.
DraftOK(d) ==
  /\ writing[d].st # "succeeded" => drafts[d] = NoDraft
  /\ writing[d].st = "busy" =>
       \/ writing[d].seen = 0
       \/ \E e \in Drafted(SkuOf[d]) : drafts[e].version = writing[d].seen

\* A publication is of an approved draft.
Granted(d) ==
  /\ drafts[d] # NoDraft /\ drafts[d].valid /\ drafts[d].status = "approved"
  /\ consent[d] = "approved"
ConsentOK(d) ==
  /\ consent[d] # "none" => drafts[d] # NoDraft
  /\ sending[d].st # "none" => Granted(d)
  /\ flow[d] = "succeeded" <=> d \in listings

\* What the calls of a publication have reached at the marketplace.
Reached(d) ==
  /\ market = "ebay" /\ sending[d].at # "item" => item[SkuOf[d]] = d
  /\ sending[d].at = "save" => OnSale(d)
  /\ sending[d].at \in {"item", "offers", "offer", "publish"} => market = "ebay"
  /\ sending[d].at = "create" => market # "ebay"

\* The row of a publication keeps every other draft of its SKU out.
InsertOK(d) ==
  Inserted(d) => /\ drafts[d].complete
                 /\ ~ SkuTaken(d)
                 /\ \A e \in Delivery : Inserted(e) /\ SkuOf[e] = SkuOf[d] => e = d
                 /\ Reached(d)
ShownOK(d) == d \in Shown => sending[d].st # "none" /\ drafts[d].complete
ListedOK(d) ==
  d \in listings => /\ sending[d].st = "succeeded" /\ OnSale(d)
                    /\ \A e \in listings : SkuOf[e] = SkuOf[d] => e = d

ListingsInv ==
  /\ ListingsTypeOK /\ VersionsCount
  /\ \A d \in Delivery : /\ DraftOK(d) /\ ConsentOK(d) /\ InsertOK(d)
                         /\ ShownOK(d) /\ ListedOK(d)

LEMMA ListingsInitInv == ListingsInit => ListingsInv
<1> SUFFICES ASSUME ListingsInit PROVE ListingsInv
  OBVIOUS
<1>1. ListingsTypeOK
  BY DEF ListingsInit, ListingsTypeOK, Writing, Sending, RunState
<1>2. VersionsCount
  BY DEF ListingsInit, VersionsCount, Drafted
<1>3. Shown = {}
  BY ListingsAssumption DEF ListingsInit, Shown
<1>4. ASSUME NEW d \in Delivery
      PROVE  /\ DraftOK(d) /\ ConsentOK(d) /\ InsertOK(d)
             /\ ShownOK(d) /\ ListedOK(d)
  <2>1. DraftOK(d) /\ ConsentOK(d)
    BY DEF ListingsInit, DraftOK, ConsentOK
  <2>2. InsertOK(d) /\ ShownOK(d) /\ ListedOK(d)
    BY <1>3 DEF ListingsInit, InsertOK, ShownOK, ListedOK, Inserted
  <2> QED BY <2>1, <2>2
<1> QED BY <1>1, <1>2, <1>4 DEF ListingsInv

\* The next state of a run that makes an attempt.
LEMMA AttemptTypes ==
  ASSUME NEW run
  PROVE  /\ run \in Writing =>
              /\ AttemptFailed(run) \in Writing
              /\ AttemptFailed(run).st \in {"failed", "retrying"}
              /\ \A s \in RunState : RunOver(run, s) \in Writing /\ RunOver(run, s).st = s
         /\ run \in Sending =>
              /\ AttemptFailed(run) \in Sending
              /\ AttemptFailed(run).st \in {"failed", "retrying"}
              /\ \A s \in RunState : RunOver(run, s) \in Sending /\ RunOver(run, s).st = s
         /\ Resumed(run) \in {"queued", "retrying"}
<1>1. ASSUME run \in Writing
      PROVE  /\ AttemptFailed(run) \in Writing
             /\ AttemptFailed(run).st \in {"failed", "retrying"}
             /\ \A s \in RunState : RunOver(run, s) \in Writing /\ RunOver(run, s).st = s
  <2> DEFINE st == IF run.tries + 1 >= MaxTries THEN "failed" ELSE "retrying"
  <2>1. run.tries + 1 \in Nat /\ st \in {"failed", "retrying"} /\ st \in RunState
    BY <1>1 DEF Writing, RunState
  <2>2. AttemptFailed(run) = [run EXCEPT !.tries = run.tries + 1, !.st = st]
    BY DEF AttemptFailed
  <2> HIDE DEF st
  <2>3. AttemptFailed(run) \in Writing /\ AttemptFailed(run).st = st
    BY <1>1, <2>1, <2>2 DEF Writing
  <2>4. \A s \in RunState : RunOver(run, s) \in Writing /\ RunOver(run, s).st = s
    BY <1>1, <2>1 DEF RunOver, Writing
  <2> QED BY <2>1, <2>3, <2>4
<1>2. ASSUME run \in Sending
      PROVE  /\ AttemptFailed(run) \in Sending
             /\ AttemptFailed(run).st \in {"failed", "retrying"}
             /\ \A s \in RunState : RunOver(run, s) \in Sending /\ RunOver(run, s).st = s
  <2> DEFINE st == IF run.tries + 1 >= MaxTries THEN "failed" ELSE "retrying"
  <2>1. run.tries + 1 \in Nat /\ st \in {"failed", "retrying"} /\ st \in RunState
    BY <1>2 DEF Sending, RunState
  <2>2. AttemptFailed(run) = [run EXCEPT !.tries = run.tries + 1, !.st = st]
    BY DEF AttemptFailed
  <2> HIDE DEF st
  <2>3. AttemptFailed(run) \in Sending /\ AttemptFailed(run).st = st
    BY <1>2, <2>1, <2>2 DEF Sending
  <2>4. \A s \in RunState : RunOver(run, s) \in Sending /\ RunOver(run, s).st = s
    BY <1>2, <2>1 DEF RunOver, Sending
  <2> QED BY <2>1, <2>3, <2>4
<1>3. Resumed(run) \in {"queued", "retrying"}
  BY DEF Resumed
<1> QED BY <1>1, <1>2, <1>3

(***************************************************************************)
(* Drafts                                                                  *)
(***************************************************************************)

\* A step of the run of an agent that writes no draft.
LEMMA WritingPreserves ==
  ASSUME ListingsInv, NEW d \in Delivery, NEW w \in Writing,
         writing' = [writing EXCEPT ![d] = w],
         w.st # "succeeded", writing[d].st # "succeeded",
         w.st = "busy" => \/ w.seen = 0
                          \/ \E e \in Drafted(SkuOf[d]) : drafts[e].version = w.seen,
         listingFaults' \in Nat,
         UNCHANGED <<market, connected, local, sending, remote>>
  PROVE  ListingsInv'
<1>1. writing'[d] = w /\ \A e \in Delivery \ {d} : writing'[e] = writing[e]
  BY DEF ListingsInv, ListingsTypeOK
<1>2. ListingsTypeOK'
  BY DEF ListingsInv, ListingsTypeOK, local, remote
<1>3. VersionsCount'
  BY DEF ListingsInv, VersionsCount, Drafted, local
<1>4. \A e \in Delivery : DraftOK(e)'
  BY <1>1 DEF ListingsInv, DraftOK, Drafted, local
<1>5. \A e \in Delivery : ConsentOK(e)' /\ InsertOK(e)' /\ ShownOK(e)' /\ ListedOK(e)'
  BY DEF ListingsInv, ConsentOK, Granted, InsertOK, Inserted, SkuTaken, Reached,
         OnSale, ShownOK, Shown, ListedOK, local, remote
<1> QED BY <1>2, <1>3, <1>4, <1>5 DEF ListingsInv

LEMMA AgentPreserves ==
  ASSUME ListingsInv, NEW d \in Delivery,
         ReadVersion(d) \/ GenerationFails(d) \/ LoseVersion(d)
  PROVE  ListingsInv'
<1>1. /\ UNCHANGED <<market, connected, local, sending, remote>>
      /\ listingFaults' \in Nat
      /\ writing[d] \in Writing /\ writing[d].st \in {"queued", "retrying", "busy"}
  BY DEF ReadVersion, GenerationFails, LoseVersion, ListingFault, Idle,
         ListingsInv, ListingsTypeOK
<1>2. CASE ReadVersion(d)
  <2>1. PICK v \in {0} \cup {drafts[e].version : e \in Drafted(SkuOf[d])} :
          writing' = [writing EXCEPT ![d].st = "busy", ![d].seen = v]
    BY <1>2 DEF ReadVersion
  <2> DEFINE w == [writing[d] EXCEPT !.st = "busy", !.seen = v]
  <2>2. v \in Nat
    BY <2>1 DEF Drafted, ListingsInv, ListingsTypeOK, Draft
  <2>3. writing' = [writing EXCEPT ![d] = w]
    BY <2>1 DEF ListingsInv, ListingsTypeOK
  <2>4. w \in Writing /\ w.st = "busy" /\ w.seen = v
    BY <1>1, <2>2 DEF Writing, RunState
  <2> HIDE DEF w
  <2> QED BY <1>1, <2>1, <2>3, <2>4, WritingPreserves
<1>3. CASE GenerationFails(d) \/ LoseVersion(d)
  <2> DEFINE w == [AttemptFailed(writing[d]) EXCEPT !.seen = 0]
  <2>1. writing' = [writing EXCEPT ![d] = w]
    BY <1>3 DEF GenerationFails, LoseVersion, ListingsInv, ListingsTypeOK
  <2>2. w \in Writing /\ w.st \in {"failed", "retrying"}
    <3>1. /\ AttemptFailed(writing[d]) \in Writing
          /\ AttemptFailed(writing[d]).st \in {"failed", "retrying"}
      BY <1>1, AttemptTypes
    <3> QED BY <3>1 DEF Writing
  <2> HIDE DEF w
  <2> QED BY <1>1, <2>1, <2>2, WritingPreserves
<1> QED BY <1>2, <1>3
\* The draft gets a version that no other has, the next after one that has.
LEMMA SavePreserves ==
  ASSUME ListingsInv, NEW d \in Delivery, SaveDraft(d)
  PROVE  ListingsInv'
<1>1. PICK valid \in BOOLEAN, complete \in BOOLEAN :
        /\ drafts' = [drafts EXCEPT ![d] =
             [version |-> NextVersion(d), valid |-> valid, complete |-> complete,
              status |-> IF valid THEN "pending" ELSE "rejected"]]
        /\ consent' = [consent EXCEPT ![d] = IF valid THEN "pending" ELSE "none"]
        /\ flow' = [flow EXCEPT ![d] = IF valid THEN "pending" ELSE "failed"]
  BY DEF SaveDraft, Valid, Complete
<1> DEFINE status == IF valid THEN "pending" ELSE "rejected"
           row == [version |-> NextVersion(d), valid |-> valid,
                   complete |-> complete, status |-> status]
           w == [RunOver(writing[d], "succeeded") EXCEPT !.seen = 0]
<1>2. /\ writing[d].st = "busy" /\ ~ VersionTaken(d)
      /\ writing' = [writing EXCEPT ![d] = w]
      /\ UNCHANGED <<market, connected, sending, listings, remote, listingFaults>>
  BY DEF SaveDraft, ListingsInv, ListingsTypeOK
<1>3. /\ writing[d] \in Writing /\ NextVersion(d) \in Nat \ {0}
      /\ drafts[d] = NoDraft /\ sending[d].st = "none" /\ d \notin listings
  BY <1>2 DEF ListingsInv, ListingsTypeOK, Writing, NextVersion, DraftOK, ConsentOK,
              Granted, ListedOK
<1>4. row \in Draft /\ row # NoDraft /\ row.version = NextVersion(d)
  <2>1. status \in {"pending", "approved", "rejected"}
    OBVIOUS
  <2>2. row \in Draft
    BY <1>3, <2>1 DEF Draft
  <2> QED BY <2>2, NoDraftAssumption
<1>5. w \in Writing /\ w.st = "succeeded"
  <2>1. /\ RunOver(writing[d], "succeeded") \in Writing
        /\ RunOver(writing[d], "succeeded").st = "succeeded"
    BY <1>3, AttemptTypes DEF RunState
  <2> QED BY <2>1 DEF Writing
<1>6. drafts' = [drafts EXCEPT ![d] = row]
  BY <1>1
<1> HIDE DEF row, w
<1>7. /\ drafts'[d] = row /\ writing'[d] = w
      /\ consent'[d] \in {"pending", "none"} /\ flow'[d] \in {"pending", "failed"}
      /\ \A e \in Delivery \ {d} :
           /\ drafts'[e] = drafts[e] /\ writing'[e] = writing[e]
           /\ consent'[e] = consent[e] /\ flow'[e] = flow[e]
  BY <1>1, <1>2, <1>6 DEF ListingsInv, ListingsTypeOK
<1>8. ListingsTypeOK'
  BY <1>1, <1>2, <1>4, <1>5, <1>6 DEF ListingsInv, ListingsTypeOK, remote
<1>9. \A s \in Sku : /\ Drafted(s) \subseteq Drafted(s)'
                     /\ Drafted(s)' \subseteq Drafted(s) \cup {d}
                     /\ d \in Drafted(s)' => SkuOf[d] = s
                     /\ d \notin Drafted(s)
  BY <1>3, <1>4, <1>7 DEF Drafted
<1>10. VersionsCount'
  <2> SUFFICES ASSUME NEW s \in Sku, NEW x \in Drafted(s)'
               PROVE  /\ \A e \in Drafted(s)' :
                           drafts'[e].version = drafts'[x].version => e = x
                      /\ \/ drafts'[x].version = 1
                         \/ \E e \in Drafted(s)' :
                              drafts'[e].version + 1 = drafts'[x].version
    BY DEF VersionsCount
  <2>1. ASSUME NEW e \in Drafted(s), SkuOf[d] = s
        PROVE  e # d /\ drafts'[e] = drafts[e] /\ drafts[e].version # row.version
    BY <1>2, <1>4, <1>7, <1>9, <2>1 DEF VersionTaken, Drafted
  <2>2. CASE x = d
    <3>1. SkuOf[d] = s
      BY <1>9, <2>2
    <3>2. \/ row.version = 1
          \/ \E e \in Drafted(s) : drafts[e].version + 1 = row.version
      BY <1>2, <1>4, <3>1 DEF ListingsInv, DraftOK, NextVersion
    <3> QED BY <1>7, <1>9, <2>1, <2>2, <3>1, <3>2
  <2>3. CASE x # d
    <3>1. x \in Drafted(s) /\ drafts'[x] = drafts[x]
      BY <1>7, <1>9, <2>3 DEF Drafted
    <3>2. /\ \A e \in Drafted(s) : drafts[e].version = drafts[x].version => e = x
          /\ \/ drafts[x].version = 1
             \/ \E e \in Drafted(s) : drafts[e].version + 1 = drafts[x].version
      BY <3>1 DEF ListingsInv, VersionsCount
    <3>3. \A e \in Drafted(s) : drafts'[e] = drafts[e]
      BY <1>7, <1>9 DEF Drafted
    <3>4. d \in Drafted(s)' => drafts'[d].version # drafts[x].version
      BY <1>7, <1>9, <2>1, <3>1
    <3> QED BY <1>9, <3>1, <3>2, <3>3, <3>4
  <2> QED BY <2>2, <2>3
<1>11. \A e \in Delivery : DraftOK(e)'
  <2> SUFFICES ASSUME NEW e \in Delivery PROVE DraftOK(e)'
    OBVIOUS
  <2>1. CASE e = d
    BY <1>5, <1>7, <2>1 DEF DraftOK
  <2>2. CASE e # d
    <3>1. \A x \in Drafted(SkuOf[e]) : drafts'[x] = drafts[x]
      BY <1>7, <1>9, ListingsAssumption DEF Drafted
    <3>2. SkuOf[e] \in Sku
      BY ListingsAssumption
    <3> QED BY <1>7, <1>9, <2>2, <3>1, <3>2 DEF ListingsInv, DraftOK
  <2> QED BY <2>1, <2>2
<1>12. ASSUME NEW e \in Delivery
       PROVE  ConsentOK(e)' /\ InsertOK(e)' /\ ShownOK(e)' /\ ListedOK(e)'
  <2>1. UNCHANGED <<market, sending, listings, item, offer, onSale, posted>>
    BY <1>2 DEF remote
  <2>2. ConsentOK(e)'
    BY <1>3, <1>4, <1>7, <2>1 DEF ListingsInv, ConsentOK, Granted
  <2>3. InsertOK(e)' /\ ShownOK(e)'
    BY <1>3, <1>7, <2>1 DEF ListingsInv, InsertOK, Inserted, SkuTaken, Reached,
                            OnSale, ShownOK, Shown
  <2>4. ListedOK(e)'
    BY <2>1 DEF ListingsInv, ListedOK, OnSale
  <2> QED BY <2>2, <2>3, <2>4
<1> QED BY <1>8, <1>10, <1>11, <1>12 DEF ListingsInv

\* The drafts of a step that changes none.
LEMMA DraftsStay ==
  ASSUME ListingsInv, UNCHANGED <<writing, drafts>>
  PROVE  VersionsCount' /\ \A d \in Delivery : DraftOK(d)'
BY DEF ListingsInv, VersionsCount, DraftOK, Drafted

\* A person decides on a pending approval.
LEMMA DecisionPreserves ==
  ASSUME ListingsInv, NEW d \in Delivery, ApproveListing(d) \/ DeclineListing(d)
  PROVE  ListingsInv'
<1>1. /\ consent[d] = "pending" /\ sending[d].st = "none" /\ drafts[d] # NoDraft
      /\ d \notin listings /\ drafts[d] \in Draft
      /\ UNCHANGED <<market, connected, writing, listings, remote, listingFaults>>
  BY DEF ApproveListing, DeclineListing, ListingsInv, ListingsTypeOK, ConsentOK,
         Granted, ListedOK
<1>2. CASE DeclineListing(d)
  <2>1. PICK a \in {"rejected", "expired"} : consent' = [consent EXCEPT ![d] = a]
    BY <1>2 DEF DeclineListing
  <2>2. UNCHANGED <<drafts, flow, sending, item, offer, onSale, posted>>
    BY <1>2 DEF DeclineListing, remote
  <2>3. ListingsTypeOK'
    BY <1>1, <2>1, <2>2 DEF ListingsInv, ListingsTypeOK
  <2>4. \A e \in Delivery : ConsentOK(e)'
    BY <1>1, <2>1, <2>2 DEF ListingsInv, ListingsTypeOK, ConsentOK, Granted
  <2>5. \A e \in Delivery : InsertOK(e)' /\ ShownOK(e)' /\ ListedOK(e)'
    BY <1>1, <2>2 DEF ListingsInv, InsertOK, Inserted, SkuTaken, Reached, OnSale,
                      ShownOK, Shown, ListedOK
  <2> QED BY <1>1, <2>2, <2>3, <2>4, <2>5, DraftsStay DEF ListingsInv
<1>3. CASE ApproveListing(d)
  <2> DEFINE row == [drafts[d] EXCEPT !.status = "approved"]
             r == [sending[d] EXCEPT !.st = "queued"]
  <2>1. /\ drafts[d].valid
        /\ consent' = [consent EXCEPT ![d] = "approved"]
        /\ drafts' = [drafts EXCEPT ![d] = row]
        /\ flow' = [flow EXCEPT ![d] = "running"]
        /\ sending' = [sending EXCEPT ![d] = r]
        /\ UNCHANGED <<item, offer, onSale, posted>>
    BY <1>3 DEF ApproveListing, ListingsInv, ListingsTypeOK, remote
  <2>2. /\ row \in Draft /\ row # NoDraft /\ row.status = "approved"
        /\ row.valid = drafts[d].valid /\ row.version = drafts[d].version
        /\ row.complete = drafts[d].complete
    BY <1>1, NoDraftAssumption DEF Draft
  <2>3. r \in Sending /\ r.st = "queued"
    BY DEF ListingsInv, ListingsTypeOK, Sending, RunState
  <2> HIDE DEF row, r
  <2>4. /\ drafts'[d] = row /\ sending'[d] = r /\ consent'[d] = "approved"
        /\ flow'[d] = "running"
        /\ \A e \in Delivery \ {d} :
             /\ drafts'[e] = drafts[e] /\ sending'[e] = sending[e]
             /\ consent'[e] = consent[e] /\ flow'[e] = flow[e]
    BY <2>1 DEF ListingsInv, ListingsTypeOK
  <2>5. ListingsTypeOK'
    BY <1>1, <2>1, <2>2, <2>3 DEF ListingsInv, ListingsTypeOK
  <2>6. /\ \A s \in Sku : Drafted(s)' = Drafted(s)
        /\ \A e \in Delivery : drafts'[e] = NoDraft <=> drafts[e] = NoDraft
        /\ \A e \in Delivery : drafts[e] # NoDraft =>
                                drafts'[e].version = drafts[e].version
    BY <1>1, <2>2, <2>4 DEF Drafted
  <2>7. VersionsCount'
    BY <2>6 DEF ListingsInv, VersionsCount, Drafted
  <2>8. \A e \in Delivery : DraftOK(e)'
    BY <1>1, <2>6, ListingsAssumption DEF ListingsInv, DraftOK, Drafted
  <2>9. ASSUME NEW e \in Delivery PROVE ConsentOK(e)'
    <3>1. CASE e = d
      <4>1. Granted(d)' /\ d \notin listings' /\ flow'[d] = "running"
        BY <1>1, <2>1, <2>2, <2>4 DEF Granted
      <4> QED BY <3>1, <4>1 DEF ConsentOK, Granted
    <3>2. CASE e # d
      BY <1>1, <2>4, <3>2 DEF ListingsInv, ConsentOK, Granted
    <3> QED BY <3>1, <3>2
  <2>10. \A e \in Delivery : InsertOK(e)' /\ ShownOK(e)' /\ ListedOK(e)'
    <3>1. \A e \in Delivery : Inserted(e)' => Inserted(e) /\ e # d
      BY <2>3, <2>4 DEF Inserted
    <3>2. \A e \in Delivery : InsertOK(e)'
      BY <1>1, <2>1, <2>4, <3>1 DEF ListingsInv, InsertOK, SkuTaken, Reached, OnSale
    <3>3. \A e \in Delivery : ShownOK(e)' /\ ListedOK(e)'
      BY <1>1, <2>1, <2>4 DEF ListingsInv, ShownOK, Shown, ListedOK, OnSale
    <3> QED BY <3>2, <3>3
  <2> QED BY <2>5, <2>7, <2>8, <2>9, <2>10 DEF ListingsInv
<1> QED BY <1>2, <1>3
(***************************************************************************)
(* Publications                                                            *)
(***************************************************************************)

\* At most what belongs to the SKU of a draft has changed at the marketplace,
\* and then to what the draft says.
Touched(d) ==
  LET s == SkuOf[d] IN
  /\ item' \in [Sku -> Delivery \cup {Nobody}]
  /\ offer' \in [Sku -> Delivery \cup {Nobody}]
  /\ onSale' \in SUBSET Sku /\ posted' \in [Delivery -> Nat]
  /\ \A t \in Sku \ {s} : /\ item'[t] = item[t] /\ offer'[t] = offer[t]
                          /\ t \in onSale' <=> t \in onSale
  /\ item'[s] \in {item[s], d} /\ offer'[s] \in {offer[s], d}
  /\ \A e \in Delivery \ {d} : posted'[e] = posted[e]

LEMMA UntouchedIsTouched ==
  ASSUME ListingsInv, NEW d \in Delivery, UNCHANGED remote
  PROVE  Touched(d)
BY DEF remote, Touched, ListingsInv, ListingsTypeOK

LEMMA EffectTouches ==
  ASSUME ListingsInv, NEW d \in Delivery, Effect(d)
  PROVE  Touched(d)
<1> DEFINE s == SkuOf[d]
<1>1. /\ s \in Sku
      /\ item \in [Sku -> Delivery \cup {Nobody}]
      /\ offer \in [Sku -> Delivery \cup {Nobody}]
      /\ onSale \in SUBSET Sku /\ posted \in [Delivery -> Nat]
  BY ListingsAssumption DEF ListingsInv, ListingsTypeOK
<1>2. CASE market = "ebay"
  <2>1. /\ item' \in {item, [item EXCEPT ![s] = d]}
        /\ offer' \in {offer, [offer EXCEPT ![s] = d]}
        /\ onSale' \in {onSale, onSale \cup {s}}
        /\ posted' = posted
    BY <1>2 DEF Effect, EbayEffect
  <2> QED BY <1>1, <2>1 DEF Touched
<1>3. CASE market = "amazon"
  <2>1. /\ offer' = [offer EXCEPT ![s] = d] /\ onSale' = onSale \cup {s}
        /\ UNCHANGED <<item, posted>>
    BY <1>3 DEF Effect, AmazonEffect
  <2> QED BY <1>1, <2>1 DEF Touched
<1>4. CASE market \notin {"ebay", "amazon"}
  <2>1. /\ posted' = [posted EXCEPT ![d] = @ + 1]
        /\ UNCHANGED <<item, offer, onSale>>
    BY <1>4 DEF Effect, KeyedEffect, FacebookCreate, TikTokCreate
  <2> QED BY <1>1, <2>1 DEF Touched
<1> QED BY <1>2, <1>3, <1>4

\* A step of the run of a publication, before the listing is saved.
LEMMA SendingPreserves ==
  ASSUME ListingsInv, NEW d \in Delivery, NEW r \in Sending,
         sending' = [sending EXCEPT ![d] = r],
         sending[d].st # "none", r.st # "none", d \notin listings,
         Touched(d), UNCHANGED remote \/ Inserted(d),
         r.st = "busy" /\ r.at # "insert" =>
           /\ drafts[d].complete /\ ~ SkuTaken(d) /\ Reached(d)'
           /\ \A e \in Delivery : Inserted(e) /\ SkuOf[e] = SkuOf[d] => e = d,
         listingFaults' \in Nat,
         UNCHANGED <<market, connected, writing, local>>
  PROVE  ListingsInv'
<1>1. UNCHANGED <<writing, drafts, consent, flow, listings>>
  BY DEF local
<1>2. sending'[d] = r /\ \A e \in Delivery \ {d} : sending'[e] = sending[e]
  BY DEF ListingsInv, ListingsTypeOK
<1>3. ListingsTypeOK'
  BY <1>1 DEF ListingsInv, ListingsTypeOK, Touched
<1>4. VersionsCount' /\ \A e \in Delivery : DraftOK(e)'
  BY <1>1, DraftsStay
<1>5. \A e \in Delivery : ConsentOK(e)'
  BY <1>1, <1>2 DEF ListingsInv, ConsentOK, Granted
<1>6. SkuOf \in [Delivery -> Sku] /\ Nobody \notin Delivery
  BY ListingsAssumption
<1>7. ASSUME NEW e \in Delivery, e # d, SkuOf[e] # SkuOf[d] \/ UNCHANGED remote
      PROVE  (OnSale(e) => OnSale(e)') /\ (Reached(e) => Reached(e)')
  <2>1. /\ SkuOf[e] \in Sku /\ item'[SkuOf[e]] = item[SkuOf[e]]
        /\ offer'[SkuOf[e]] = offer[SkuOf[e]] /\ posted'[e] = posted[e]
        /\ SkuOf[e] \in onSale' <=> SkuOf[e] \in onSale
    BY <1>6, <1>7 DEF Touched, remote
  <2>2. OnSale(e) => OnSale(e)'
    BY <2>1 DEF OnSale
  <2>3. Reached(e) => Reached(e)'
    BY <1>2, <1>7, <2>1, <2>2 DEF Reached
  <2> QED BY <2>2, <2>3
<1>8. ASSUME NEW e \in Delivery PROVE InsertOK(e)'
  <2>1. CASE e = d
    <3>1. \A x \in Delivery : Inserted(x)' /\ x # d => Inserted(x)
      BY <1>2 DEF Inserted
    <3> QED BY <1>1, <1>2, <2>1, <3>1 DEF InsertOK, Inserted, SkuTaken
  <2>2. CASE e # d
    <3> SUFFICES ASSUME Inserted(e)'
                 PROVE  /\ drafts'[e].complete /\ ~ SkuTaken(e)' /\ Reached(e)'
                        /\ \A x \in Delivery :
                             Inserted(x)' /\ SkuOf[x] = SkuOf[e] => x = e
      BY DEF InsertOK
    <3>1. Inserted(e)
      BY <1>2, <2>2 DEF Inserted
    <3>2. /\ drafts[e].complete /\ ~ SkuTaken(e) /\ Reached(e)
          /\ \A x \in Delivery : Inserted(x) /\ SkuOf[x] = SkuOf[e] => x = e
      BY <3>1 DEF ListingsInv, InsertOK
    <3>3. \A x \in Delivery : Inserted(x)' /\ SkuOf[x] = SkuOf[e] => x = e
      <4> SUFFICES ASSUME NEW x \in Delivery, Inserted(x)', SkuOf[x] = SkuOf[e]
                   PROVE  x = e
        OBVIOUS
      <4>1. CASE x = d
        BY <1>2, <2>2, <3>1, <4>1 DEF Inserted
      <4>2. CASE x # d
        BY <1>2, <3>2, <4>2 DEF Inserted
      <4> QED BY <4>1, <4>2
    <3>4. SkuOf[e] # SkuOf[d] \/ UNCHANGED remote
      BY <2>2, <3>2
    <3> QED BY <1>1, <1>7, <2>2, <3>2, <3>3, <3>4 DEF SkuTaken
  <2> QED BY <2>1, <2>2
<1>9. ASSUME NEW e \in Delivery PROVE ShownOK(e)'
  <2>1. ASSUME e \in Shown', e # d PROVE e \in Shown
    <3>1. CASE posted'[e] > 0
      BY <2>1, <3>1 DEF Touched, Shown
    <3>2. CASE \E s \in Sku : item'[s] = e \/ offer'[s] = e
      <4>1. PICK s \in Sku : item'[s] = e \/ offer'[s] = e
        BY <3>2
      <4>2. item[s] = e \/ offer[s] = e
        BY <2>1, <4>1 DEF Touched
      <4> QED BY <4>2 DEF Shown
    <3> QED BY <2>1, <3>1, <3>2 DEF Shown
  <2>2. ASSUME d \in Shown' PROVE drafts[d].complete
    <3>1. CASE Inserted(d)
      BY <3>1 DEF ListingsInv, InsertOK
    <3>2. CASE UNCHANGED remote
      <4>1. d \in Shown
        BY <2>2, <3>2 DEF Shown, remote
      <4> QED BY <4>1 DEF ListingsInv, ShownOK
    <3> QED BY <3>1, <3>2
  <2> QED BY <1>1, <1>2, <2>1, <2>2 DEF ListingsInv, ShownOK
<1>10. ASSUME NEW e \in Delivery PROVE ListedOK(e)'
  <2> SUFFICES ASSUME e \in listings
               PROVE  /\ sending'[e].st = "succeeded" /\ OnSale(e)'
                      /\ \A x \in listings : SkuOf[x] = SkuOf[e] => x = e
    BY <1>1 DEF ListedOK
  <2>1. e # d /\ ListedOK(e)
    BY DEF ListingsInv
  <2>2. SkuOf[e] # SkuOf[d] \/ UNCHANGED remote
    BY DEF ListingsInv, InsertOK, SkuTaken
  <2> QED BY <1>2, <1>7, <2>1, <2>2 DEF ListedOK
<1> QED BY <1>3, <1>4, <1>5, <1>8, <1>9, <1>10 DEF ListingsInv

\* What the run of a publication is before one of its steps.
LEMMA SendingFacts ==
  ASSUME ListingsInv, NEW d \in Delivery, sending[d].st \in {"queued", "retrying", "busy"}
  PROVE  /\ sending[d] \in Sending /\ d \notin listings
         /\ AttemptFailed(sending[d]) \in Sending
         /\ AttemptFailed(sending[d]).st \in {"failed", "retrying"}
         /\ listingFaults \in Nat
<1>1. sending[d] \in Sending /\ d \notin listings /\ listingFaults \in Nat
  BY DEF ListingsInv, ListingsTypeOK, ListedOK
<1> QED BY <1>1, AttemptTypes

\* An attempt begins, or ends without a row.
LEMMA AttemptPreserves ==
  ASSUME ListingsInv, NEW d \in Delivery,
         StartPublication(d) \/ LoseSku(d) \/ RefuseListing(d)
  PROVE  ListingsInv'
<1>1. sending[d].st \in {"queued", "retrying", "busy"}
  BY DEF StartPublication, LoseSku, RefuseListing, Idle
<1>2. /\ UNCHANGED <<market, connected, writing, local, remote, listingFaults>>
      /\ sending \in [Delivery -> Sending]
  BY DEF StartPublication, LoseSku, RefuseListing, ListingsInv, ListingsTypeOK
<1>3. Touched(d) /\ listingFaults' \in Nat
  BY <1>1, <1>2, UntouchedIsTouched, SendingFacts
<1>4. CASE StartPublication(d) /\ connected
  <2> DEFINE r == [sending[d] EXCEPT !.st = "busy", !.at = "insert"]
  <2>1. sending' = [sending EXCEPT ![d] = r]
    BY <1>2, <1>4 DEF StartPublication
  <2>2. r \in Sending /\ r.st = "busy" /\ r.at = "insert"
    BY <1>1, SendingFacts DEF Sending, RunState
  <2> HIDE DEF r
  <2> QED BY <1>1, <1>2, <1>3, <2>1, <2>2, SendingFacts, SendingPreserves
<1>5. CASE StartPublication(d) /\ ~ connected
  <2> DEFINE r == AttemptFailed(sending[d])
  <2>1. sending' = [sending EXCEPT ![d] = r]
    BY <1>2, <1>5 DEF StartPublication
  <2>2. r \in Sending /\ r.st \in {"failed", "retrying"}
    BY <1>1, SendingFacts
  <2> HIDE DEF r
  <2> QED BY <1>1, <1>2, <1>3, <2>1, <2>2, SendingFacts, SendingPreserves
<1>6. CASE LoseSku(d)
  <2> DEFINE r == [AttemptFailed(sending[d]) EXCEPT !.at = "insert"]
  <2>1. sending' = [sending EXCEPT ![d] = r]
    BY <1>2, <1>6 DEF LoseSku, PublicationFails
  <2>2. r \in Sending /\ r.st \in {"failed", "retrying"}
    BY <1>1, SendingFacts DEF Sending
  <2> HIDE DEF r
  <2> QED BY <1>1, <1>2, <1>3, <2>1, <2>2, SendingFacts, SendingPreserves
<1>7. CASE RefuseListing(d)
  <2> DEFINE r == RunOver(sending[d], "failed")
  <2>1. sending' = [sending EXCEPT ![d] = r]
    BY <1>2, <1>7 DEF RefuseListing
  <2>2. r \in Sending /\ r.st = "failed"
    BY <1>2, AttemptTypes DEF RunState
  <2> HIDE DEF r
  <2> QED BY <1>1, <1>2, <1>3, <2>1, <2>2, SendingFacts, SendingPreserves
<1> QED BY <1>4, <1>5, <1>6, <1>7

\* The row is inserted: no other draft of the SKU has one.
LEMMA InsertPreserves ==
  ASSUME ListingsInv, NEW d \in Delivery, InsertListing(d)
  PROVE  ListingsInv'
<1> DEFINE a == IF market = "ebay" THEN "item" ELSE "create"
           r == [sending[d] EXCEPT !.at = a]
<1>1. /\ sending[d].st = "busy" /\ ~ Waits(d) /\ ~ SkuTaken(d) /\ drafts[d].complete
      /\ sending' = [sending EXCEPT ![d] = r]
      /\ UNCHANGED <<market, connected, writing, local, remote, listingFaults>>
      /\ sending \in [Delivery -> Sending]
  BY DEF InsertListing, ListingsInv, ListingsTypeOK
<1>2. a \in {"item", "create"} /\ (a = "item" <=> market = "ebay")
  OBVIOUS
<1> HIDE DEF a
<1>3. r \in Sending /\ r.st = "busy" /\ r.at = a /\ d \notin listings
      /\ listingFaults \in Nat
  <2>1. sending[d] \in Sending
    BY <1>1
  <2>2. r \in Sending /\ r.st = "busy" /\ r.at = a
    BY <1>1, <1>2, <2>1 DEF Sending
  <2> QED BY <1>1, <2>2, SendingFacts
<1> HIDE DEF r
<1>4. sending'[d] = r /\ market' = market
  BY <1>1
<1>5. Reached(d)'
  BY <1>2, <1>3, <1>4 DEF Reached
<1>6. \A e \in Delivery : Inserted(e) /\ SkuOf[e] = SkuOf[d] => e = d
  BY <1>1 DEF Waits
<1>7. Touched(d)
  BY <1>1, UntouchedIsTouched
<1> QED BY <1>1, <1>3, <1>5, <1>6, <1>7, SendingPreserves

\* A call is answered: on every marketplace the draft is on sale once the last
\* answer is there.
LEMMA AnswerPreserves ==
  ASSUME ListingsInv, NEW d \in Delivery, CallAnswered(d)
  PROVE  ListingsInv'
<1> DEFINE a == IF market = "ebay" THEN EbayNext(d) ELSE "save"
           r == [sending[d] EXCEPT !.at = a]
<1>1. /\ Inserted(d) /\ sending[d].st = "busy" /\ sending[d].at # "save"
      /\ sending[d].at # "insert" /\ Effect(d)
      /\ sending' = [sending EXCEPT ![d] = r]
      /\ UNCHANGED <<market, connected, writing, local, listingFaults>>
      /\ sending \in [Delivery -> Sending]
  BY DEF CallAnswered, Calling, Inserted, ListingsInv, ListingsTypeOK
<1>2. /\ drafts[d].complete /\ ~ SkuTaken(d) /\ Reached(d)
      /\ \A e \in Delivery : Inserted(e) /\ SkuOf[e] = SkuOf[d] => e = d
  BY <1>1 DEF ListingsInv, InsertOK
<1>3. /\ SkuOf[d] \in Sku /\ sending[d] \in Sending
      /\ item \in [Sku -> Delivery \cup {Nobody}]
      /\ offer \in [Sku -> Delivery \cup {Nobody}]
      /\ posted \in [Delivery -> Nat]
  BY <1>1, ListingsAssumption DEF ListingsInv, ListingsTypeOK
<1>4. market = "ebay" => sending[d].at \in {"item", "offers", "offer", "publish"}
  BY <1>1, <1>2, <1>3 DEF Reached, Sending
<1>5. a \in {"offers", "offer", "publish", "save"} /\ (a # "save" => market = "ebay")
  BY <1>4 DEF EbayNext
<1>6. r \in Sending /\ r.st = "busy" /\ r.at = a /\ d \notin listings
      /\ listingFaults \in Nat
  <2> HIDE DEF a
  <2>1. r \in Sending /\ r.st = "busy" /\ r.at = a
    BY <1>1, <1>3, <1>5 DEF Sending
  <2> QED BY <1>1, <2>1, SendingFacts
<1>7. sending'[d] = r /\ market' = market
  BY <1>1
<1>8. market = "ebay" => /\ item'[SkuOf[d]] = d
                         /\ a = "save" => SkuOf[d] \in onSale'
  <2> SUFFICES ASSUME market = "ebay"
               PROVE  item'[SkuOf[d]] = d /\ (a = "save" => SkuOf[d] \in onSale')
    OBVIOUS
  <2>1. EbayEffect(d) /\ a = EbayNext(d)
    BY <1>1 DEF Effect
  <2>2. CASE sending[d].at = "item"
    BY <1>3, <2>1, <2>2 DEF EbayEffect, EbayNext
  <2>3. CASE sending[d].at = "offers"
    BY <1>2, <1>3, <2>1, <2>3 DEF EbayEffect, EbayNext, Reached
  <2>4. CASE sending[d].at = "offer"
    BY <1>2, <1>3, <2>1, <2>4 DEF EbayEffect, EbayNext, Reached
  <2>5. CASE sending[d].at = "publish"
    BY <1>2, <1>3, <2>1, <2>5 DEF EbayEffect, EbayNext, Reached
  <2> QED BY <1>4, <2>2, <2>3, <2>4, <2>5
<1>9. market = "amazon" => SkuOf[d] \in onSale' /\ offer'[SkuOf[d]] = d
  BY <1>1, <1>3 DEF Effect, AmazonEffect
<1>10. market \notin {"ebay", "amazon"} => posted'[d] > 0
  <2> SUFFICES ASSUME market \notin {"ebay", "amazon"} PROVE posted'[d] > 0
    OBVIOUS
  <2>1. posted' = [posted EXCEPT ![d] = @ + 1]
    BY <1>1 DEF Effect, KeyedEffect, FacebookCreate, TikTokCreate
  <2> QED BY <1>3, <2>1
<1> HIDE DEF a, r
<1>11. a = "save" => OnSale(d)'
  BY <1>7, <1>8, <1>9, <1>10 DEF OnSale
<1>12. Reached(d)'
  BY <1>5, <1>6, <1>7, <1>8, <1>11 DEF Reached
<1>13. Touched(d)
  BY <1>1, EffectTouches
<1> QED BY <1>1, <1>2, <1>6, <1>12, <1>13, SendingPreserves

\* A call fails, with or without its effect: the row is rolled back.
LEMMA FailurePreserves ==
  ASSUME ListingsInv, NEW d \in Delivery, CallFails(d)
  PROVE  ListingsInv'
<1> DEFINE r == [AttemptFailed(sending[d]) EXCEPT !.at = "insert"]
<1>1. /\ Inserted(d) /\ sending[d].st = "busy"
      /\ Effect(d) \/ UNCHANGED remote
      /\ sending' = [sending EXCEPT ![d] = r]
      /\ UNCHANGED <<market, connected, writing, local>>
      /\ listingFaults' \in Nat
  BY DEF CallFails, Calling, Inserted, PublicationFails, ListingFault, ListingsInv,
         ListingsTypeOK
<1>2. /\ AttemptFailed(sending[d]) \in Sending
      /\ AttemptFailed(sending[d]).st \in {"failed", "retrying"} /\ d \notin listings
  BY <1>1, SendingFacts
<1>3. r \in Sending /\ r.st \in {"failed", "retrying"}
  BY <1>2 DEF Sending
<1>4. Touched(d)
  BY <1>1, EffectTouches, UntouchedIsTouched
<1> HIDE DEF r
<1> QED BY <1>1, <1>2, <1>3, <1>4, SendingPreserves

\* The listing is recorded.
LEMMA PublishPreserves ==
  ASSUME ListingsInv, NEW d \in Delivery, SavePublished(d)
  PROVE  ListingsInv'
<1> DEFINE r == RunOver(sending[d], "succeeded")
<1>1. /\ Inserted(d) /\ sending[d].st = "busy" /\ sending[d].at = "save"
      /\ listings' = listings \cup {d}
      /\ flow' = [flow EXCEPT ![d] = "succeeded"]
      /\ sending' = [sending EXCEPT ![d] = r]
      /\ UNCHANGED <<market, connected, writing, drafts, consent, item, offer, onSale,
                     posted, listingFaults>>
      /\ sending \in [Delivery -> Sending] /\ sending[d] \in Sending
  BY DEF SavePublished, Inserted, remote, ListingsInv, ListingsTypeOK
<1>2. r \in Sending /\ r.st = "succeeded"
  BY <1>1, AttemptTypes DEF RunState
<1> HIDE DEF r
<1>3. /\ sending'[d] = r /\ flow'[d] = "succeeded"
      /\ \A e \in Delivery \ {d} : sending'[e] = sending[e] /\ flow'[e] = flow[e]
  BY <1>1 DEF ListingsInv, ListingsTypeOK
<1>4. /\ ~ SkuTaken(d) /\ OnSale(d)
      /\ \A e \in Delivery : Inserted(e) /\ SkuOf[e] = SkuOf[d] => e = d
  BY <1>1 DEF ListingsInv, InsertOK, Reached
<1>5. ListingsTypeOK'
  BY <1>1, <1>2 DEF ListingsInv, ListingsTypeOK
<1>6. VersionsCount' /\ \A e \in Delivery : DraftOK(e)'
  BY <1>1, DraftsStay
<1>7. \A e \in Delivery : ConsentOK(e)'
  BY <1>1, <1>2, <1>3 DEF ListingsInv, ConsentOK, Granted
<1>8. \A e \in Delivery : /\ (Inserted(e)' => Inserted(e) /\ e # d)
                          /\ OnSale(e)' <=> OnSale(e)
                          /\ e # d => (Reached(e)' <=> Reached(e))
  BY <1>1, <1>2, <1>3 DEF Inserted, OnSale, Reached
<1>9. \A e \in Delivery : InsertOK(e)'
  <2> SUFFICES ASSUME NEW e \in Delivery, Inserted(e)'
               PROVE  /\ drafts'[e].complete /\ ~ SkuTaken(e)' /\ Reached(e)'
                      /\ \A x \in Delivery : Inserted(x)' /\ SkuOf[x] = SkuOf[e] => x = e
    BY DEF InsertOK
  <2>1. Inserted(e) /\ e # d /\ InsertOK(e)
    BY <1>8 DEF ListingsInv
  <2>2. SkuOf[e] # SkuOf[d]
    BY <1>4, <2>1
  <2>3. ~ SkuTaken(e)'
    BY <1>1, <2>1, <2>2 DEF InsertOK, SkuTaken
  <2> QED BY <1>1, <1>8, <2>1, <2>3 DEF InsertOK
<1>10. \A e \in Delivery : ShownOK(e)'
  BY <1>1, <1>2, <1>3 DEF ListingsInv, ShownOK, Shown
<1>11. \A e \in Delivery : ListedOK(e)'
  <2> SUFFICES ASSUME NEW e \in Delivery, e \in listings'
               PROVE  /\ sending'[e].st = "succeeded" /\ OnSale(e)'
                      /\ \A x \in listings' : SkuOf[x] = SkuOf[e] => x = e
    BY DEF ListedOK
  <2>1. \A x \in listings : SkuOf[x] # SkuOf[d]
    BY <1>4 DEF SkuTaken
  <2> QED BY <1>1, <1>2, <1>3, <1>4, <1>8, <2>1 DEF ListingsInv, ListedOK
<1> QED BY <1>5, <1>6, <1>7, <1>9, <1>10, <1>11 DEF ListingsInv

\* The worker dies in an attempt: its transaction leaves nothing.
LEMMA CrashPreserves ==
  ASSUME ListingsInv, NEW d \in Delivery, ListingCrash(d)
  PROVE  ListingsInv'
<1>1. /\ listingFaults' \in Nat
      /\ UNCHANGED <<market, connected, local, remote>>
      /\ writing \in [Delivery -> Writing] /\ sending \in [Delivery -> Sending]
  BY DEF ListingCrash, ListingFault, ListingsInv, ListingsTypeOK
<1>2. CASE writing[d].st = "busy" /\ UNCHANGED sending
           /\ writing' = [writing EXCEPT ![d].st = Resumed(writing[d]), ![d].seen = 0]
  <2> DEFINE w == [writing[d] EXCEPT !.st = Resumed(writing[d]), !.seen = 0]
  <2>1. writing' = [writing EXCEPT ![d] = w]
    BY <1>1, <1>2
  <2>2. w \in Writing /\ w.st \in {"queued", "retrying"}
    <3>1. Resumed(writing[d]) \in {"queued", "retrying"}
      BY AttemptTypes
    <3> QED BY <1>1, <3>1 DEF Writing, RunState
  <2> HIDE DEF w
  <2> QED BY <1>1, <1>2, <2>1, <2>2, WritingPreserves
<1>3. CASE sending[d].st = "busy" /\ UNCHANGED writing
           /\ sending' = [sending EXCEPT ![d].st = Resumed(sending[d]), ![d].at = "insert"]
  <2> DEFINE r == [sending[d] EXCEPT !.st = Resumed(sending[d]), !.at = "insert"]
  <2>1. sending' = [sending EXCEPT ![d] = r]
    BY <1>1, <1>3
  <2>2. r \in Sending /\ r.st \in {"queued", "retrying"}
    <3>1. Resumed(sending[d]) \in {"queued", "retrying"}
      BY AttemptTypes
    <3> QED BY <1>1, <3>1 DEF Sending, RunState
  <2>3. Touched(d) /\ d \notin listings
    BY <1>1, <1>3, UntouchedIsTouched, SendingFacts
  <2> HIDE DEF r
  <2> QED BY <1>1, <1>3, <2>1, <2>2, <2>3, SendingPreserves
<1> QED BY <1>2, <1>3 DEF ListingCrash

LEMMA ListingsStutter ==
  ASSUME ListingsInv, UNCHANGED listingVars
  PROVE  ListingsInv'
<1>1. UNCHANGED <<market, connected, writing, drafts, consent, flow, sending, listings,
                  item, offer, onSale, posted, listingFaults>>
  BY DEF listingVars, local, remote
<1>2. ListingsTypeOK'
  BY <1>1 DEF ListingsInv, ListingsTypeOK
<1>3. VersionsCount' /\ \A d \in Delivery : DraftOK(d)'
  BY <1>1, DraftsStay
<1>4. \A d \in Delivery : /\ ConsentOK(d)' /\ InsertOK(d)' /\ ShownOK(d)' /\ ListedOK(d)'
  BY <1>1 DEF ListingsInv, ConsentOK, Granted, InsertOK, Inserted, SkuTaken, Reached,
              OnSale, ShownOK, Shown, ListedOK
<1> QED BY <1>2, <1>3, <1>4 DEF ListingsInv

(***************************************************************************)
(* The invariant and what follows from it                                  *)
(***************************************************************************)

\* Drafts, approvals, rows and what the marketplace shows agree in every
\* reachable state.
THEOREM ListingsInvariant == ListingsSpec => []ListingsInv
<1>1. ListingsInit => ListingsInv
  BY ListingsInitInv
<1>2. ListingsInv /\ [ListingsNext]_listingVars => ListingsInv'
  <2> SUFFICES ASSUME ListingsInv, [ListingsNext]_listingVars PROVE ListingsInv'
    OBVIOUS
  <2>1. CASE ListingsNext
    <3>1. PICK d \in Delivery :
            \/ ReadVersion(d) \/ GenerationFails(d) \/ LoseVersion(d) \/ SaveDraft(d)
            \/ ApproveListing(d) \/ DeclineListing(d)
            \/ StartPublication(d) \/ LoseSku(d) \/ RefuseListing(d) \/ InsertListing(d)
            \/ CallAnswered(d) \/ CallFails(d) \/ SavePublished(d) \/ ListingCrash(d)
      BY <2>1 DEF ListingsNext
    <3>2. CASE ReadVersion(d) \/ GenerationFails(d) \/ LoseVersion(d)
      BY <3>2, AgentPreserves
    <3>3. CASE SaveDraft(d)
      BY <3>3, SavePreserves
    <3>4. CASE ApproveListing(d) \/ DeclineListing(d)
      BY <3>4, DecisionPreserves
    <3>5. CASE StartPublication(d) \/ LoseSku(d) \/ RefuseListing(d)
      BY <3>5, AttemptPreserves
    <3>6. CASE InsertListing(d)
      BY <3>6, InsertPreserves
    <3>7. CASE CallAnswered(d)
      BY <3>7, AnswerPreserves
    <3>8. CASE CallFails(d)
      BY <3>8, FailurePreserves
    <3>9. CASE SavePublished(d)
      BY <3>9, PublishPreserves
    <3>10. CASE ListingCrash(d)
      BY <3>10, CrashPreserves
    <3> QED BY <3>1, <3>2, <3>3, <3>4, <3>5, <3>6, <3>7, <3>8, <3>9, <3>10
  <2>2. CASE UNCHANGED listingVars
    BY <2>2, ListingsStutter
  <2> QED BY <2>1, <2>2
<1> QED BY <1>1, <1>2, PTL DEF ListingsSpec

\* Whatever fails, is lost or crashes, the marketplace sees no draft that was
\* not validated and approved.
THEOREM ApprovalComesFirst == ListingsSpec => []OnlyApprovedShown
<1>1. ListingsInv => OnlyApprovedShown
  BY DEF ListingsInv, ConsentOK, Granted, ShownOK, OnlyApprovedShown, Shown
<1> QED BY <1>1, ListingsInvariant, PTL

\* Agents that work at once give every draft of an SKU the next version.
THEOREM VersionsHaveNoGaps == ListingsSpec => []VersionsCount
<1>1. ListingsInv => VersionsCount
  BY DEF ListingsInv
<1> QED BY <1>1, ListingsInvariant, PTL

\* A recorded listing is on sale, alone for its SKU, and its workflow has
\* succeeded.
THEOREM RecordsAreOnSale == ListingsSpec => []PublishedIsOnSale
<1>1. ListingsInv => PublishedIsOnSale
  BY DEF ListingsInv, ListingsTypeOK, ConsentOK, ListedOK, PublishedIsOnSale
<1> QED BY <1>1, ListingsInvariant, PTL

\* A publication makes calls only while its row keeps the other drafts of the
\* SKU out, and its row fails once the SKU is listed: nobody touches what the
\* marketplace has of a listed SKU.
THEOREM RecordsAreLeftAlone == ListingsSpec => ListedIsLeftAlone
<1> DEFINE Untouched ==
      \A d \in listings :
        LET s == SkuOf[d] IN
        /\ item'[s] = item[s] /\ offer'[s] = offer[s]
        /\ s \in onSale' <=> s \in onSale
        /\ \A e \in Delivery : SkuOf[e] = s => posted'[e] = posted[e]
<1>1. ListingsInv /\ [ListingsNext]_listingVars => [Untouched]_listingVars
  <2> SUFFICES ASSUME ListingsInv, ListingsNext PROVE Untouched
    OBVIOUS
  <2>1. CASE UNCHANGED remote
    BY <2>1 DEF remote
  <2>2. ASSUME NEW d \in Delivery, CallAnswered(d) \/ CallFails(d), ~ UNCHANGED remote
        PROVE  Untouched
    <3>1. Inserted(d) /\ Effect(d)
      BY <2>2 DEF CallAnswered, CallFails, Calling
    <3>2. Touched(d) /\ ~ SkuTaken(d)
      BY <3>1, EffectTouches DEF ListingsInv, InsertOK
    <3> SUFFICES ASSUME NEW l \in listings
                 PROVE  /\ item'[SkuOf[l]] = item[SkuOf[l]]
                        /\ offer'[SkuOf[l]] = offer[SkuOf[l]]
                        /\ SkuOf[l] \in onSale' <=> SkuOf[l] \in onSale
                        /\ \A e \in Delivery :
                             SkuOf[e] = SkuOf[l] => posted'[e] = posted[e]
      OBVIOUS
    <3>3. SkuOf[l] \in Sku /\ SkuOf[l] # SkuOf[d]
      BY <3>2, ListingsAssumption DEF SkuTaken, ListingsInv, ListingsTypeOK
    <3>4. \A e \in Delivery : SkuOf[e] = SkuOf[l] => e # d
      BY <3>3
    <3> QED BY <3>2, <3>3, <3>4 DEF Touched
  <2>3. UNCHANGED remote \/ \E d \in Delivery : CallAnswered(d) \/ CallFails(d)
    <3>1. PICK d \in Delivery :
            \/ ReadVersion(d) \/ GenerationFails(d) \/ LoseVersion(d) \/ SaveDraft(d)
            \/ ApproveListing(d) \/ DeclineListing(d)
            \/ StartPublication(d) \/ LoseSku(d) \/ RefuseListing(d) \/ InsertListing(d)
            \/ CallAnswered(d) \/ CallFails(d) \/ SavePublished(d) \/ ListingCrash(d)
      BY DEF ListingsNext
    <3>2. CASE ReadVersion(d) \/ GenerationFails(d) \/ LoseVersion(d) \/ SaveDraft(d)
               \/ ApproveListing(d) \/ DeclineListing(d)
      BY <3>2 DEF ReadVersion, GenerationFails, LoseVersion, SaveDraft, ApproveListing,
                  DeclineListing
    <3>3. CASE StartPublication(d) \/ LoseSku(d) \/ RefuseListing(d) \/ InsertListing(d)
               \/ SavePublished(d) \/ ListingCrash(d)
      BY <3>3 DEF StartPublication, LoseSku, RefuseListing, InsertListing, SavePublished,
                  ListingCrash
    <3> QED BY <3>1, <3>2, <3>3
  <2> QED BY <2>1, <2>2, <2>3
<1> QED BY <1>1, ListingsInvariant, PTL DEF ListingsSpec, ListedIsLeftAlone
=============================================================================

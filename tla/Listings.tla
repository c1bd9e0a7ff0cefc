------------------------------ MODULE Listings ------------------------------
(***************************************************************************)
(* From received stock to a listing on sale.  A STOCK_RECEIVED event makes *)
(* the listing agent write a draft; a person approves it; LISTING_APPROVED *)
(* makes the publication service call the marketplace and record the       *)
(* listing.  Both events are handled by workflow runs of the orchestrator, *)
(* whose attempts are transactions: an attempt that fails leaves nothing   *)
(* in the database, but what it has done at the marketplace stays.         *)
(*                                                                         *)
(* A draft is named by its event.  The marketplaces are external: they do  *)
(* what the connectors rely on, and an answer of theirs may get lost after *)
(* the call has taken effect.                                              *)
(***************************************************************************)
EXTENDS Naturals

CONSTANTS
  Delivery,   \* STOCK_RECEIVED events
  Sku,        \* inventory items
  SkuOf,      \* the inventory item that a delivery fills
  Market,     \* marketplaces
  MaxTries,   \* workflow_max_attempts
  MaxFaults,  \* bound: failures of a behaviour
  NoDraft,    \* no listing_drafts row
  Nobody      \* no draft

ASSUME ListingsAssumption ==
  /\ SkuOf \in [Delivery -> Sku]
  /\ Market \subseteq {"ebay", "amazon", "facebook", "tiktok"}
  /\ MaxTries \in Nat \ {0} /\ MaxFaults \in Nat
  /\ Nobody \notin Delivery

VARIABLES
  market,    \* the marketplace of the agent and of its drafts
  connected, \* whether the registry has a connector for it
  writing,   \* the workflow run of each STOCK_RECEIVED event
  drafts,    \* listing_drafts
  consent,   \* the approval of each draft
  flow,      \* the marketplace-listing workflow run of each draft
  sending,   \* the workflow run of each LISTING_APPROVED event
  listings,  \* drafts with a marketplace_listings row, all PUBLISHED
  item,      \* at eBay: the draft whose content the inventory item shows
  offer,     \* at eBay and Amazon: the draft whose terms are offered
  onSale,    \* at eBay and Amazon: SKUs whose offer is a public listing
  posted,    \* at Facebook and TikTok: creations sent with a draft's key
  listingFaults

remote == <<item, offer, onSale, posted>>
local == <<drafts, consent, flow, listings>>
listingVars == <<market, connected, writing, drafts, consent, flow, sending, listings,
                 item, offer, onSale, posted, listingFaults>>

(***************************************************************************)
(* Rows                                                                    *)
(***************************************************************************)

Draft == [version : Nat \ {0}, valid : BOOLEAN, complete : BOOLEAN,
          status : {"pending", "approved", "rejected"}]
ASSUME NoDraftAssumption == NoDraft \notin Draft

\* A run is queued with its event, busy in an attempt, retrying after one that
\* failed, and over.  at is the next call of a publication, seen the listing
\* version that an agent has read.
RunState == {"none", "queued", "busy", "retrying", "succeeded", "failed"}
Writing == [st : RunState, tries : Nat, seen : Nat]
Sending == [st : RunState, tries : Nat,
            at : {"insert", "item", "offers", "offer", "publish", "create",
                  "save"}]
Idle(run) == run.st \in {"queued", "retrying"}

\* WorkflowEngine: an exception ends the attempt, the last one the run.
AttemptFailed(run) ==
  [run EXCEPT !.tries = @ + 1,
              !.st = IF run.tries + 1 >= MaxTries THEN "failed" ELSE "retrying"]
RunOver(run, status) == [run EXCEPT !.tries = @ + 1, !.st = status]

Drafted(s) == {d \in Delivery : SkuOf[d] = s /\ drafts[d] # NoDraft}

\* Bound: an error, a lost answer or a crash.
ListingFault ==
  /\ listingFaults < MaxFaults
  /\ listingFaults' = listingFaults + 1

(***************************************************************************)
(* MarketplaceListingAgent.generate, run for STOCK_RECEIVED                *)
(***************************************************************************)

\* It reads max(listing_version) without a lock before it asks the model ...
ReadVersion(d) ==
  LET old == Drafted(SkuOf[d]) IN
  /\ Idle(writing[d])
  /\ \E v \in {0} \cup {drafts[e].version : e \in old} :
       /\ \A e \in old : drafts[e].version <= v
       /\ writing' = [writing EXCEPT ![d].st = "busy", ![d].seen = v]
  /\ UNCHANGED <<market, connected, local, sending, remote, listingFaults>>

\* Not listing-ready, over the AI budget, no usable answer of the model.
GenerationFails(d) ==
  /\ writing[d].st = "busy"
  /\ ListingFault
  /\ writing' = [writing EXCEPT ![d] = [AttemptFailed(@) EXCEPT !.seen = 0]]
  /\ UNCHANGED <<market, connected, local, sending, remote>>

\* ... and inserts the next version: the unique key of item, marketplace and
\* version fails the attempt of an agent that was overtaken.
SeenVersion(d) == writing[d].seen
NextVersion(d) == writing[d].seen + 1
VersionNeverTaken(d) == FALSE
VersionTaken(d) ==
  \E e \in Drafted(SkuOf[d]) : drafts[e].version = NextVersion(d)
LoseVersion(d) ==
  /\ writing[d].st = "busy"
  /\ VersionTaken(d)
  /\ writing' = [writing EXCEPT ![d] = [AttemptFailed(@) EXCEPT !.seen = 0]]
  /\ UNCHANGED <<market, connected, local, sending, remote, listingFaults>>

\* What the adapter finds in the texts, the price and the images that the model
\* has generated, and whether the payload that it builds from them has what the
\* connector requires.
Valid == BOOLEAN
Complete == BOOLEAN

\* A valid draft asks for approval, an invalid one ends its workflow.
SaveDraft(d) ==
  /\ writing[d].st = "busy"
  /\ ~ VersionTaken(d)
  /\ \E valid \in Valid, complete \in Complete :
       /\ drafts' = [drafts EXCEPT ![d] =
            [version |-> NextVersion(d), valid |-> valid, complete |-> complete,
             status |-> IF valid THEN "pending" ELSE "rejected"]]
       /\ consent' = [consent EXCEPT ![d] = IF valid THEN "pending" ELSE "none"]
       /\ flow' = [flow EXCEPT ![d] = IF valid THEN "pending" ELSE "failed"]
  /\ writing' = [writing EXCEPT ![d] = [RunOver(@, "succeeded") EXCEPT !.seen = 0]]
  /\ UNCHANGED <<market, connected, sending, listings, remote, listingFaults>>

(***************************************************************************)
(* The approval of a first publication                                     *)
(***************************************************************************)

\* approve_listing publishes LISTING_APPROVED; _resume_action then sets the
\* linked workflow, SUCCEEDED by the handler, to RUNNING.
ApproveAnyDraft(d) ==
  /\ drafts[d] # NoDraft
  /\ drafts[d].status # "approved"
  /\ consent' = [consent EXCEPT ![d] = "approved"]
  /\ drafts' = [drafts EXCEPT ![d].status = "approved"]
  /\ flow' = [flow EXCEPT ![d] = "running"]
  /\ sending' = [sending EXCEPT ![d].st = "queued"]
  /\ UNCHANGED <<market, connected, writing, listings, remote, listingFaults>>
ApproveListing(d) ==
  /\ consent[d] = "pending"
  /\ drafts[d].status = "pending" /\ drafts[d].valid
  /\ consent' = [consent EXCEPT ![d] = "approved"]
  /\ drafts' = [drafts EXCEPT ![d].status = "approved"]
  /\ flow' = [flow EXCEPT ![d] = "running"]
  /\ sending' = [sending EXCEPT ![d].st = "queued"]
  /\ UNCHANGED <<market, connected, writing, listings, remote, listingFaults>>

\* A rejection or an expiry changes the approval and nothing else.
DeclineListing(d) ==
  /\ consent[d] = "pending"
  /\ \E a \in {"rejected", "expired"} : consent' = [consent EXCEPT ![d] = a]
  /\ UNCHANGED <<market, connected, writing, drafts, flow, listings, sending, remote,
                 listingFaults>>

(***************************************************************************)
(* MarketplacePublicationService.handle_listing_approved                   *)
(***************************************************************************)

\* build_marketplace_connectors: the configuration of an enabled marketplace is
\* complete, or the program does not start.
Connectors(demoMode, enabled) == IF demoMode THEN {} ELSE enabled

\* The row of a draft is inserted and flushed before the first call.
Inserted(d) == sending[d].st = "busy" /\ sending[d].at # "insert"

\* A marketplace without a connector is a LookupError, which is retried.
StartPublication(d) ==
  /\ Idle(sending[d])
  /\ sending' = [sending EXCEPT ![d] =
       IF connected THEN [@ EXCEPT !.st = "busy", !.at = "insert"]
       ELSE AttemptFailed(@)]
  /\ UNCHANGED <<market, connected, writing, local, remote, listingFaults>>

PublicationFails(d) ==
  sending' = [sending EXCEPT ![d] = [AttemptFailed(@) EXCEPT !.at = "insert"]]

\* One row for an SKU: the insert waits for an uncommitted row, for none if the
\* others were not flushed before their calls, and fails with IntegrityError
\* when the SKU is listed already.
WaitsForNobody(d) == FALSE
Waits(d) ==
  \E e \in Delivery \ {d} : SkuOf[e] = SkuOf[d] /\ Inserted(e)
NeverTakenSku(d) == FALSE
SkuTaken(d) == \E e \in listings : SkuOf[e] = SkuOf[d]
LoseSku(d) ==
  /\ sending[d].st = "busy" /\ sending[d].at = "insert"
  /\ ~ Waits(d)
  /\ SkuTaken(d)
  /\ PublicationFails(d)
  /\ UNCHANGED <<market, connected, writing, local, remote, listingFaults>>

\* validate_listing finds issues: the row becomes FAILED, the step then raises
\* NonRetryableWorkflowError and the row is rolled back.
RefuseListing(d) ==
  /\ sending[d].st = "busy" /\ sending[d].at = "insert"
  /\ ~ Waits(d) /\ ~ SkuTaken(d)
  /\ ~ drafts[d].complete
  /\ sending' = [sending EXCEPT ![d] = RunOver(@, "failed")]
  /\ UNCHANGED <<market, connected, writing, local, remote, listingFaults>>

InsertListing(d) ==
  /\ sending[d].st = "busy" /\ sending[d].at = "insert"
  /\ ~ Waits(d) /\ ~ SkuTaken(d)
  /\ drafts[d].complete
  /\ sending' = [sending EXCEPT ![d].at =
       IF market = "ebay" THEN "item" ELSE "create"]
  /\ UNCHANGED <<market, connected, writing, local, remote, listingFaults>>

(***************************************************************************)
(* create_listing of the connectors, call by call: what the call does at   *)
(* the marketplace and which call follows its answer.                      *)
(***************************************************************************)

\* eBay: PUT the inventory item of the SKU, GET its offers, POST an offer
\* unless there is one, and publish it unless it is published.
EbayEffect(d) ==
  LET s == SkuOf[d] IN
  /\ item' = IF sending[d].at = "item" THEN [item EXCEPT ![s] = d] ELSE item
  /\ offer' = IF sending[d].at = "offer" THEN [offer EXCEPT ![s] = d] ELSE offer
  /\ onSale' = IF sending[d].at = "publish" THEN onSale \cup {s} ELSE onSale
  /\ UNCHANGED posted
EbayNext(d) ==
  CASE sending[d].at = "item" -> "offers"
    [] sending[d].at = "offers" ->
         IF SkuOf[d] \in onSale THEN "save"
         ELSE IF offer[SkuOf[d]] # Nobody THEN "publish" ELSE "offer"
    [] sending[d].at = "offer" -> "publish"
    [] sending[d].at = "publish" -> "save"

\* Amazon: PUT the listing of the SKU.
AmazonEffect(d) ==
  /\ offer' = [offer EXCEPT ![SkuOf[d]] = d]
  /\ onSale' = onSale \cup {SkuOf[d]}
  /\ UNCHANGED <<item, posted>>

\* Facebook and TikTok: POST a product with the key listing-draft:{draft.id}.
\* What the marketplace makes of a key that it has seen before is not assumed.
FacebookCreate(d) == posted' = [posted EXCEPT ![d] = @ + 1]
TikTokCreate(d) == posted' = [posted EXCEPT ![d] = @ + 1]
KeyedEffect(d) ==
  /\ IF market = "facebook" THEN FacebookCreate(d) ELSE TikTokCreate(d)
  /\ UNCHANGED <<item, offer, onSale>>

Effect(d) == CASE market = "ebay" -> EbayEffect(d)
               [] market = "amazon" -> AmazonEffect(d)
               [] OTHER -> KeyedEffect(d)

Calling(d) == Inserted(d) /\ sending[d].at # "save"

\* The call is answered ...
CallAnswered(d) ==
  /\ Calling(d)
  /\ Effect(d)
  /\ sending' = [sending EXCEPT ![d].at =
       IF market = "ebay" THEN EbayNext(d) ELSE "save"]
  /\ UNCHANGED <<market, connected, writing, local, listingFaults>>

\* ... or MarketplaceConnectorError: the call was refused, or it took effect
\* and its answer is lost.
CallFails(d) ==
  /\ Calling(d)
  /\ ListingFault
  /\ Effect(d) \/ UNCHANGED remote
  /\ PublicationFails(d)
  /\ UNCHANGED <<market, connected, writing, local>>

\* The listing becomes PUBLISHED and the draft's workflow SUCCEEDED.
SavePublished(d) ==
  /\ sending[d].st = "busy" /\ sending[d].at = "save"
  /\ listings' = listings \cup {d}
  /\ flow' = [flow EXCEPT ![d] = "succeeded"]
  /\ sending' = [sending EXCEPT ![d] = RunOver(@, "succeeded")]
  /\ UNCHANGED <<market, connected, writing, drafts, consent, remote, listingFaults>>

\* The worker dies; its transaction is rolled back and the event, or the due
\* run, is found again.
Resumed(run) == IF run.tries = 0 THEN "queued" ELSE "retrying"
ListingCrash(d) ==
  /\ ListingFault
  /\ \/ /\ writing[d].st = "busy"
        /\ writing' = [writing EXCEPT ![d].st = Resumed(writing[d]),
                                      ![d].seen = 0]
        /\ UNCHANGED sending
     \/ /\ sending[d].st = "busy"
        /\ sending' = [sending EXCEPT ![d].st = Resumed(sending[d]),
                                      ![d].at = "insert"]
        /\ UNCHANGED writing
  /\ UNCHANGED <<market, connected, local, remote>>

(***************************************************************************)
(* The specification                                                       *)
(***************************************************************************)

ListingsInit ==
  /\ market \in Market
  /\ \E demoMode \in BOOLEAN, enabled \in SUBSET Market :
       connected = (market \in Connectors(demoMode, enabled))
  /\ writing = [d \in Delivery |-> [st |-> "queued", tries |-> 0, seen |-> 0]]
  /\ drafts = [d \in Delivery |-> NoDraft]
  /\ consent = [d \in Delivery |-> "none"]
  /\ flow = [d \in Delivery |-> "none"]
  /\ sending = [d \in Delivery |-> [st |-> "none", tries |-> 0, at |-> "insert"]]
  /\ listings = {}
  /\ item = [s \in Sku |-> Nobody]
  /\ offer = [s \in Sku |-> Nobody]
  /\ onSale = {}
  /\ posted = [d \in Delivery |-> 0]
  /\ listingFaults = 0

ListingsNext ==
  \E d \in Delivery :
    \/ ReadVersion(d) \/ GenerationFails(d) \/ LoseVersion(d) \/ SaveDraft(d)
    \/ ApproveListing(d) \/ DeclineListing(d)
    \/ StartPublication(d) \/ LoseSku(d) \/ RefuseListing(d) \/ InsertListing(d)
    \/ CallAnswered(d) \/ CallFails(d) \/ SavePublished(d) \/ ListingCrash(d)

ListingsSpec == ListingsInit /\ [][ListingsNext]_listingVars

(***************************************************************************)
(* Properties                                                              *)
(***************************************************************************)

\* The rows of the drafts, of their runs and of the marketplace.
ListingsTypeOK ==
  /\ market \in Market /\ connected \in BOOLEAN
  /\ writing \in [Delivery -> Writing]
  /\ drafts \in [Delivery -> Draft \cup {NoDraft}]
  /\ consent \in [Delivery -> {"none", "pending", "approved", "rejected", "expired"}]
  /\ flow \in [Delivery -> {"none", "pending", "running", "succeeded", "failed"}]
  /\ sending \in [Delivery -> Sending]
  /\ listings \in SUBSET Delivery
  /\ item \in [Sku -> Delivery \cup {Nobody}]
  /\ offer \in [Sku -> Delivery \cup {Nobody}]
  /\ onSale \in SUBSET Sku
  /\ posted \in [Delivery -> Nat]
  /\ listingFaults \in Nat

\* Agents that write drafts of one SKU at once never give out a version twice
\* nor skip one: the drafts of an SKU are its versions 1, 2, ...
VersionsCount ==
  \A s \in Sku : \A d \in Drafted(s) :
    /\ \A e \in Drafted(s) : drafts[e].version = drafts[d].version => e = d
    /\ \/ drafts[d].version = 1
       \/ \E e \in Drafted(s) : drafts[e].version + 1 = drafts[d].version

\* Drafts that the marketplace has seen anything of.
Shown == {d \in Delivery : \/ posted[d] > 0
                           \/ \E s \in Sku : item[s] = d \/ offer[s] = d}

\* "Publication always targets an approved version": whatever is lost, retried
\* or crashes, no draft reaches the marketplace that was not validated and
\* approved, nor one whose approval was rejected or expired.
OnlyApprovedShown ==
  \A d \in Shown : /\ drafts[d] # NoDraft
                   /\ drafts[d].valid /\ drafts[d].complete
                   /\ drafts[d].status = "approved"
                   /\ consent[d] = "approved"

\* A recorded listing is on sale with the content of the recorded draft, it is
\* the only one recorded for its SKU, and exactly then the workflow of its draft
\* has succeeded.
OnSale(d) ==
  CASE market = "ebay" -> SkuOf[d] \in onSale /\ item[SkuOf[d]] = d
    [] market = "amazon" -> SkuOf[d] \in onSale /\ offer[SkuOf[d]] = d
    [] OTHER -> posted[d] > 0
PublishedIsOnSale ==
  /\ \A d \in listings :
       /\ OnSale(d)
       /\ \A e \in listings : SkuOf[e] = SkuOf[d] => e = d
  /\ \A d \in Delivery : flow[d] = "succeeded" <=> d \in listings

\* Once a listing of an SKU is recorded no publication touches what the
\* marketplace has of that SKU: neither the repetition of its own calls nor a
\* second draft that was approved before or since.
ListedIsLeftAlone ==
  [][\A d \in listings :
       LET s == SkuOf[d] IN
       /\ item'[s] = item[s] /\ offer'[s] = offer[s]
       /\ s \in onSale' <=> s \in onSale
       /\ \A e \in Delivery : SkuOf[e] = s => posted'[e] = posted[e]]_listingVars
=============================================================================

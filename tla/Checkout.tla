------------------------------ MODULE Checkout ------------------------------
(***************************************************************************)
(* A customer puts an order together in the bot                             *)
(* (bot/handlers/checkout.py, core/services/orders.py): boxes one by one,   *)
(* pickup point, recipient, summary, payment. Meanwhile the owner edits the *)
(* catalogue and the carriers.                                              *)
(*                                                                          *)
(* One update of Telegram is one step: updates of a user are served one     *)
(* after another. The draft is in PostgreSQL, the conversation in Redis, so *)
(* a failing update takes back what it did to the one and not to the other. *)
(* The buttons one can press are those of the screen, and, with a second tap *)
(* or when the next screen was not drawn, those of the screen before it.    *)
(***************************************************************************)
EXTENDS Naturals, FiniteSets, Functions

CONSTANTS
    Menu,           \* all <<product, spoons>> the catalogue may offer
    MaxBoxes,       \* setting max_boxes_per_order
    MaxOrders,      \* bound: drafts ever begun
    MaxItems,       \* bound: boxes ever added
    MaxUpsets,      \* bound: failed updates and changes of catalogue, carriers, intake
    None

ASSUME MenuAssumption == \A box \in Menu : DOMAIN box = 1..2 /\ None \notin {box[1], box[2]}
ASSUME BoundsAssumption == MaxBoxes \in Nat /\ MaxItems \in Nat /\ MaxOrders \in Nat

VARIABLES
    conv,           \* FSM state and data of the conversation
    db,             \* the customer's rows
    shop            \* catalogue, carriers, intake

vars == <<conv, db, shop>>

Products == {box[1] : box \in Menu}
Counts == {box[2] : box \in Menu}
Places == {"point", "manual"}
Steps == {"product", "spoons", "video", "comment", "avoid_colors", "cart",
          "pickup", "pickup_confirm", "pickup_manual", "recipient_confirm",
          "recipient_name", "recipient_phone", "recipient_email", "summary",
          "contact", None}

\* A box: what was chosen, and what its name and price were made for and when.
\* priced = None is the price 0 of a row that was never calculated.
Box == [choice : Menu, video : BOOLEAN, priced : Menu, at : Nat]

\* subtotal: the prices that were added up; quoted: when delivery was priced,
\* 0 if it is not in the total; recipient: name, phone and email are known.
IsOrder(o) ==
    /\ o.id \in 1..MaxOrders
    /\ o.status \in {"draft", "waiting_payment"}
    /\ DOMAIN o.boxes \subseteq 1..MaxItems
    /\ \A i \in DOMAIN o.boxes : o.boxes[i] \in Box
    /\ DOMAIN o.subtotal \subseteq 1..MaxItems
    /\ o.pickup \in Places \cup {None}
    /\ o.quoted \in Nat
    /\ o.recipient \in BOOLEAN

CheckoutOK ==
    /\ conv.step \in Steps
    /\ conv.order \in 1..MaxOrders \cup {None}
    /\ conv.product \in Products \cup {None}
    /\ conv.spoons \in Counts \cup {None}
    /\ conv.edit \in 1..MaxItems \cup {None}
    /\ {conv.video, conv.editing} \subseteq BOOLEAN
    /\ db.order # None => IsOrder(db.order)
    /\ db.orders \in 0..MaxOrders /\ db.items \in 0..MaxItems
    /\ {db.consent, db.known, db.visited} \subseteq BOOLEAN
    /\ shop.offers \subseteq Menu
    /\ shop.open \subseteq Places

\* state.clear()
NoConversation ==
    [step |-> None, order |-> None, product |-> None, spoons |-> None,
     video |-> FALSE, edit |-> None, editing |-> FALSE]

\* A new customer, or one with an earlier order: consent, contacts, pickup point.
Init ==
    /\ conv = NoConversation
    /\ \E regular \in BOOLEAN :
          db = [order |-> None, consent |-> regular, known |-> regular, visited |-> regular,
                orders |-> 0, items |-> 0]
    /\ shop = [offers |-> Menu, video |-> TRUE, open |-> Places, intake |-> TRUE,
               edition |-> 1, upsets |-> 0]

\* get_draft: the latest order, unless it has been submitted.
draft == IF db.order # None /\ db.order.status = "draft" THEN db.order ELSE None

\* An order the customer can be offered to go on with.
Unfinished == draft # None /\ draft.boxes # <<>>

\* Mutant of Current: any draft will do.
AnyDraft == draft # None

\* _draft: the order the conversation is about is the customer's draft.
Current == draft # None /\ conv.order = draft.id

\* A button (an answer) that the customer may press (give) at these steps.
On(steps) == conv.step \in steps /\ Current

-----------------------------------------------------------------------------
(* How an update ends. *)

\* Something comes in between: a failure, or a change in the shop.
Upset == shop.upsets < MaxUpsets /\ shop' = [shop EXCEPT !.upsets = @ + 1]

\* The handler leaves the conversation c and the rows d. Telegram or the commit
\* may still fail: the rows are rolled back, the conversation and the numbers
\* drawn from the sequences are not.
Answer(c, d) ==
    /\ conv' = c
    /\ \/ db' = d /\ UNCHANGED shop
       \/ /\ d # db
          /\ db' = [db EXCEPT !.orders = d.orders, !.items = d.items]
          /\ Upset

\* As above, in a handler that talks to Telegram after it wrote the rows and
\* before it moves the conversation: on an outage the rows are committed.
AnswerOrOutage(c, d) ==
    \/ Answer(c, d)
    \/ conv' = conv /\ db' = d /\ Upset

-----------------------------------------------------------------------------
(* Prices: price_order and _recalculate. *)

\* price_for_spoons, _load_variants and _load_addons raise for none of them.
Priceable(boxes) ==
    \A i \in DOMAIN boxes : /\ boxes[i].choice \in shop.offers
                            /\ boxes[i].video => shop.video

Prices(boxes) == [i \in DOMAIN boxes |-> <<boxes[i].priced, boxes[i].at>>]

\* Mutant of Requoted: the place is not looked at again.
RequotedAnywhere(o) ==
    [o EXCEPT !.quoted = IF o.boxes = <<>> \/ o.pickup = None THEN 0 ELSE shop.edition]

\* A place that is closed, or whose carrier is switched off, is dropped.
Requoted(o) ==
    IF o.boxes = <<>> \/ o.pickup = None THEN [o EXCEPT !.quoted = 0]
    ELSE IF o.pickup \in shop.open THEN [o EXCEPT !.quoted = shop.edition]
    ELSE [o EXCEPT !.quoted = 0, !.pickup = None]

\* Mutant of Recalculated: the sum is taken before the new prices.
RecalculatedLate(o, boxes) ==
    LET priced == [i \in DOMAIN boxes |->
                      [boxes[i] EXCEPT !.priced = boxes[i].choice, !.at = shop.edition]]
    IN  Requoted([o EXCEPT !.boxes = priced, !.subtotal = Prices(boxes)])

Recalculated(o, boxes) ==
    LET priced == [i \in DOMAIN boxes |->
                      [boxes[i] EXCEPT !.priced = boxes[i].choice, !.at = shop.edition]]
    IN  Requoted([o EXCEPT !.boxes = priced, !.subtotal = Prices(priced)])

\* Rows with the order o.
With(o) == [db EXCEPT !.order = o]

-----------------------------------------------------------------------------
(* Screens: where the conversation c goes next. *)

\* Mutant of NoBox: the finished box stays.
KeepBox(c) == [c EXCEPT !.edit = None]

NoBox(c) == [c EXCEPT !.product = None, !.spoons = None, !.video = FALSE, !.edit = None]

ShowProduct(c) == IF shop.offers = {} THEN c ELSE [c EXCEPT !.step = "product"]

StartBox(c) == ShowProduct(NoBox(c))

ShowSpoons(c) ==
    IF \E box \in shop.offers : box[1] = c.product THEN [c EXCEPT !.step = "spoons"]
    ELSE ShowProduct(c)

ShowVideo(c) ==
    IF shop.video THEN [c EXCEPT !.step = "video"]
    ELSE [c EXCEPT !.step = "comment", !.video = FALSE]

\* The cart, or the first box of an empty order.
ShowCart(c, o) == IF o.boxes = <<>> THEN StartBox(c) ELSE [c EXCEPT !.step = "cart"]

\* The summary, or the step whose answer is missing.
ShowSummary(c, o) ==
    CASE o.boxes = <<>>  -> StartBox(c)
      [] o.boxes # <<>> /\ o.pickup = None ->
            [c EXCEPT !.step = "pickup", !.editing = TRUE]
      [] o.boxes # <<>> /\ o.pickup # None /\ ~o.recipient ->
            [c EXCEPT !.step = "recipient_name", !.editing = TRUE]
      [] OTHER -> [c EXCEPT !.step = "summary", !.editing = FALSE]

AfterPickup(c, o) ==
    IF c.editing THEN ShowSummary(c, o)
    ELSE [c EXCEPT !.step = IF o.recipient THEN "recipient_confirm" ELSE "recipient_name"]

-----------------------------------------------------------------------------
(* Beginning and leaving. *)

\* create_draft replaces the old draft and fills in what is known.
BeginNewOrder(d) ==
    LET o == [id |-> d.orders + 1, status |-> "draft", boxes |-> <<>>, subtotal |-> <<>>, quoted |-> 0,
              pickup |-> IF d.visited /\ "point" \in shop.open THEN "point" ELSE None,
              recipient |-> d.known]
    IN  /\ d.orders < MaxOrders
        /\ AnswerOrOutage(StartBox([NoConversation EXCEPT !.order = o.id]),
                          [d EXCEPT !.order = o, !.orders = o.id])

\* «Заказать»: intake closed, consent missing, a draft to go on with, or a new one.
StartCheckout ==
    \/ /\ ~shop.intake \/ ~db.consent
       /\ Answer(NoConversation, db)
    \/ /\ shop.intake /\ db.consent
       /\ Unfinished
       /\ Answer([NoConversation EXCEPT !.order = draft.id], db)
    \/ /\ shop.intake /\ db.consent
       /\ ~Unfinished
       /\ BeginNewOrder(db)

AcceptConsent == BeginNewOrder([db EXCEPT !.consent = TRUE])

Restart == BeginNewOrder(db)

\* «Продолжить»; an order that cannot be priced ends in an unanswered error.
Continue ==
    /\ On({None, "cart", "product"})
    /\ Priceable(draft.boxes)
    /\ LET o == Recalculated(draft, draft.boxes)
       IN  Answer(ShowCart(conv, o), With(o))

CancelCheckout == AnswerOrOutage(NoConversation, IF draft = None THEN db ELSE With(None))

\* /start and /menu; also the conversation may be lost with Redis.
LeaveCheckout == Answer(NoConversation, db)

\* «Связаться с нами»: the order stays in the conversation, until a message is
\* sent or the customer goes home.
WriteToUs ==
    \/ Answer([conv EXCEPT !.step = "contact"], db)
    \/ conv.step = "contact" /\ Answer(NoConversation, db)

\* Any button or answer about an order that is not the draft.
StaleButton ==
    /\ ~Current
    /\ Answer(NoConversation, db)

-----------------------------------------------------------------------------
(* One box: product, spoons, video, wishes. *)

ChooseProduct(p) ==
    /\ On({"product", "spoons"})
    /\ Answer(ShowSpoons([conv EXCEPT !.product = p,
                                      !.spoons = IF conv.product = p THEN @ ELSE None]), db)

ChooseSpoons(n) ==
    /\ On({"spoons", "video", "comment"})
    /\ <<conv.product, n>> \in Menu
    /\ Answer(ShowVideo([conv EXCEPT !.spoons = n]), db)

ChooseVideo(yes) ==
    /\ On({"video", "comment"})
    /\ Answer([conv EXCEPT !.video = yes, !.step = "comment"], db)

\* Text of the wishes, or «пропустить».
GiveComment ==
    /\ On({"comment", "avoid_colors"})
    /\ Answer([conv EXCEPT !.step = "avoid_colors"], db)

\* The box in the making: wishes are texts and are left out.
Chosen == <<conv.product, conv.spoons>>
ChosenVideo == conv.video /\ shop.video

\* The last step of a box came, but the box has no product or spoons.
FinishTooEarly ==
    /\ On({"avoid_colors", "cart", "product"})
    /\ conv.product = None \/ conv.spoons = None
    /\ Answer(ShowProduct(conv), db)

\* save_box adds a box or replaces the one being edited.
FinishBox ==
    LET i == IF conv.edit = None THEN db.items + 1 ELSE conv.edit
        box == [choice |-> Chosen, video |-> ChosenVideo, priced |-> Chosen, at |-> 0]
        boxes == [j \in DOMAIN draft.boxes \cup {i} |->
                     IF j = i THEN box ELSE draft.boxes[j]]
        o == Recalculated(draft, boxes)
    IN  /\ On({"avoid_colors", "cart", "product"})
        /\ Chosen \in shop.offers
        /\ IF conv.edit = None
           THEN Cardinality(DOMAIN draft.boxes) < MaxBoxes /\ i <= MaxItems
           ELSE i \in DOMAIN draft.boxes
        /\ Priceable(boxes)
        /\ Answer(ShowCart(NoBox(conv), o),
                  [With(o) EXCEPT !.items = IF i > @ THEN i ELSE @])

\* Another box of the order cannot be priced any more. The refusal is shown and
\* the update committed, with the new choice in the row: name, price and video
\* are still those of the old one. (A box being added has no id yet; drawing the
\* cart then fails and the update is rolled back.)
EditRefusedHalfway ==
    LET i == conv.edit
    IN  /\ On({"avoid_colors", "cart", "product"})
        /\ Chosen \in shop.offers
        /\ i \in DOMAIN draft.boxes
        /\ ~Priceable([draft.boxes EXCEPT ![i].choice = Chosen, ![i].video = ChosenVideo])
        /\ Answer(conv, With([draft EXCEPT !.boxes[i].choice = Chosen]))

-----------------------------------------------------------------------------
(* The cart. *)

CartAdd ==
    /\ On({"cart", "avoid_colors", "product"})
    /\ Cardinality(DOMAIN draft.boxes) < MaxBoxes
    /\ Answer(StartBox(conv), db)

CartEdit(i) ==
    /\ On({"cart", "avoid_colors", "product"})
    /\ i \in DOMAIN draft.boxes
    /\ LET box == draft.boxes[i]
       IN  Answer(ShowProduct([conv EXCEPT !.edit = i, !.product = box.choice[1],
                                           !.spoons = box.choice[2], !.video = box.video]), db)

\* If the boxes left cannot be priced, nothing is removed.
CartRemove(i) ==
    LET left == Restrict(draft.boxes, DOMAIN draft.boxes \ {i})
        o == Recalculated(draft, left)
    IN  /\ On({"cart", "avoid_colors", "product"})
        /\ i \in DOMAIN draft.boxes
        /\ Priceable(left)
        /\ AnswerOrOutage(ShowCart(conv, o), With(o))

\* A button of a box that is gone.
CartMissed(i) ==
    /\ On({"cart", "avoid_colors", "product"})
    /\ i \notin DOMAIN draft.boxes
    /\ Answer([conv EXCEPT !.step = "cart"], db)

CartNext ==
    /\ On({"cart", "avoid_colors", "pickup", "pickup_confirm", "summary"})
    /\ Answer(CASE draft.boxes = <<>> -> StartBox(conv)
                [] draft.boxes # <<>> /\ conv.editing -> ShowSummary(conv, draft)
                [] OTHER -> [conv EXCEPT !.step = IF draft.pickup = "point"
                                                  THEN "pickup_confirm" ELSE "pickup"], db)

-----------------------------------------------------------------------------
(* Delivery and recipient. Searching for points does not change the order. *)

ConfirmPickup(use) ==
    /\ On({"pickup_confirm", "pickup", "recipient_confirm", "recipient_name", "summary"})
    /\ Answer(IF use /\ draft.pickup = "point" THEN AfterPickup(conv, draft)
              ELSE [conv EXCEPT !.step = "pickup"], db)

\* set_pickup_point and set_manual_pickup, each with the price of delivery.
SetPickup(place) == Requoted([draft EXCEPT !.pickup = place])

ChoosePickupPoint ==
    /\ On({"pickup", "recipient_confirm", "recipient_name", "summary"})
    /\ "point" \in shop.open
    /\ LET o == SetPickup("point") IN AnswerOrOutage(AfterPickup(conv, o), With(o))

ManualPickupProvider ==
    /\ On({"pickup", "pickup_manual"})
    /\ Answer([conv EXCEPT !.step = "pickup"], db)

ManualPickupAddress ==
    /\ On({"pickup", "pickup_manual"})
    /\ Answer([conv EXCEPT !.step = "pickup_manual"], db)

ReceiveManualAddress ==
    /\ On({"pickup_manual"})
    /\ "manual" \in shop.open
    /\ LET o == SetPickup("manual")
       IN  Answer(AfterPickup([conv EXCEPT !.step = "pickup"], o), With(o))

ConfirmRecipient(use) ==
    /\ On({"recipient_confirm", "recipient_name", "summary"})
    /\ Answer(IF use THEN ShowSummary(conv, draft)
              ELSE [conv EXCEPT !.step = "recipient_name"], db)

ReceiveName ==
    /\ On({"recipient_name"})
    /\ Answer([conv EXCEPT !.step = "recipient_phone"], db)

ReceivePhone ==
    /\ On({"recipient_phone"})
    /\ Answer([conv EXCEPT !.step = "recipient_email"], db)

\* A new email (name and phone have been asked before), or «оставить этот email»,
\* which is refused if there is none.
SaveRecipient(keep) ==
    /\ On({"recipient_email"} \cup IF keep THEN {"recipient_name", "summary"} ELSE {})
    /\ LET o == [draft EXCEPT !.recipient = TRUE]
       IN  IF keep /\ ~draft.recipient THEN Answer([conv EXCEPT !.step = "recipient_name"], db)
           ELSE Answer(ShowSummary(conv, o), [With(o) EXCEPT !.known = TRUE])

-----------------------------------------------------------------------------
(* Payment and navigation. *)

\* _check_ready_to_submit
Ready(o) == o.boxes # <<>> /\ o.pickup # None /\ o.recipient

\* submit and create_payment. A refusal after the recalculation is committed:
\* new prices, perhaps without the pickup point. Other refusals change nothing.
Pay ==
    LET o == Recalculated(draft, draft.boxes)
    IN  /\ On({"summary"})
        /\ shop.intake
        /\ Priceable(draft.boxes)
        /\ IF Ready(o)
           THEN AnswerOrOutage(NoConversation, With([o EXCEPT !.status = "waiting_payment"]))
           ELSE Answer(conv, With(o))

\* «Назад» and «Изменить»: from the summary one comes back to the summary.
Navigate ==
    LET c == [conv EXCEPT !.editing = @ \/ conv.step = "summary"]
    IN  \/ On({"spoons", "product"}) /\ Answer(ShowProduct(c), db)
        \/ /\ On({"video", "comment", "spoons"})
           /\ Answer(IF c.product = None THEN ShowProduct(c) ELSE ShowSpoons(c), db)
        \/ /\ On({"comment", "video"})
           /\ Answer(IF c.product = None THEN ShowProduct(c) ELSE ShowVideo(c), db)
        \/ On({"avoid_colors", "comment"}) /\ Answer([c EXCEPT !.step = "comment"], db)
        \/ On({"product", "pickup", "summary", "cart"}) /\ Answer(ShowCart(NoBox(c), draft), db)
        \/ On({"summary", "pickup", "pickup_manual"}) /\ Answer([c EXCEPT !.step = "pickup"], db)
        \/ /\ On({"summary", "recipient_name"})
           /\ Answer([c EXCEPT !.step = "recipient_name"], db)

-----------------------------------------------------------------------------
(* The owner, the pickup synchronisation, the load of the shop, the worker. *)

Toggle(set, x) == IF x \in set THEN set \ {x} ELSE set \cup {x}

ShopChanges ==
    /\ shop.upsets < MaxUpsets
    /\ \E new \in {[shop EXCEPT !.offers = Toggle(@, box)] : box \in Menu}
              \cup {[shop EXCEPT !.open = Toggle(@, place)] : place \in Places}
              \cup {[shop EXCEPT !.video = ~@], [shop EXCEPT !.intake = ~@],
                    [shop EXCEPT !.edition = @ + 1]} :
          shop' = [new EXCEPT !.upsets = @ + 1]
    /\ UNCHANGED <<conv, db>>

Customer ==
    \/ StartCheckout \/ AcceptConsent \/ Restart \/ Continue
    \/ CancelCheckout \/ LeaveCheckout \/ WriteToUs \/ StaleButton
    \/ \E p \in Products : ChooseProduct(p)
    \/ \E n \in Counts : ChooseSpoons(n)
    \/ \E yes \in BOOLEAN : ChooseVideo(yes)
    \/ GiveComment \/ FinishTooEarly \/ FinishBox \/ EditRefusedHalfway
    \/ CartAdd \/ CartNext
    \/ \E i \in 1..MaxItems : CartEdit(i) \/ CartRemove(i) \/ CartMissed(i)
    \/ \E use \in BOOLEAN : ConfirmPickup(use) \/ ConfirmRecipient(use)
    \/ ChoosePickupPoint \/ ManualPickupProvider \/ ManualPickupAddress
    \/ ReceiveManualAddress \/ ReceiveName \/ ReceivePhone
    \/ \E keep \in BOOLEAN : SaveRecipient(keep)
    \/ Pay \/ Navigate

\* delete_stale_drafts of the worker, which knows nothing of the conversation.
DeleteStaleDraft ==
    /\ draft # None
    /\ Upset
    /\ db' = With(None)
    /\ UNCHANGED conv

Next == Customer \/ ShopChanges \/ DeleteStaleDraft

CheckoutSpec == Init /\ [][Next]_vars

-----------------------------------------------------------------------------
(* Properties. *)

\* The total of an order adds up after every update, failed ones included: the
\* subtotal is the sum of its boxes' prices, and delivery is in the total exactly
\* if there is something to deliver and a place to deliver it to.
TotalAddsUp ==
    db.order # None =>
        /\ db.order.subtotal = Prices(db.order.boxes)
        /\ db.order.quoted # 0 <=> db.order.boxes # <<>> /\ db.order.pickup # None

\* The step makes an order wait for payment; what it is then like.
Placed == db'.order # None /\ db'.order.status = "waiting_payment" /\ db'.order # db.order

AsOffered ==
    LET o == db'.order
    IN  /\ o.boxes # <<>> /\ o.recipient
        /\ shop.intake
        /\ Priceable(o.boxes)
        /\ \A i \in DOMAIN o.boxes : /\ o.boxes[i].priced = o.boxes[i].choice
                                     /\ o.boxes[i].at = shop.edition
        /\ o.pickup \in shop.open
        /\ o.quoted = shop.edition

\* A customer is sent to pay only for what the shop offers at that moment, at the
\* prices of that moment, whatever happened to catalogue and carriers since the
\* boxes were chosen, and only with a place and a recipient
\* (submit, _check_ready_to_submit).
PlacedAsOffered == [][Placed => AsOffered]_vars

\* Going once through the steps of a box puts one box into the order: a second
\* tap on the last step, or a step repeated after a failure, finds no box to add
\* (the double tap of bot/middlewares/serial.py:4-9).
OneBoxPerPass ==
    [][db.order # None /\ db'.order # None /\ db'.order.id = db.order.id
         /\ DOMAIN db'.order.boxes \ DOMAIN db.order.boxes # {}
       => conv.product # None /\ conv.edit = None /\ conv'.product = None]_vars

\* The step puts a new draft in the place of the customer's latest order.
Begun == db'.orders = db.orders + 1 /\ db'.order.id = db'.orders

\* An order that is placed, or that the conversation is not about, stays as it is, whatever
\* buttons of earlier messages are pressed and whatever updates fail (_draft). The exceptions
\* are named. The cancel button and the worker remove a draft without a look at the
\* conversation: the docstring of the handlers says of every button that it looks
\* (bot/handlers/checkout.py:7), this one does not. And a new order takes the draft's place,
\* that of a draft with boxes only if the customer starts anew or gives her consent.
StaleChangesNothing ==
    [][db.order # None /\ db'.order # db.order
         /\ (conv.order # db.order.id \/ db.order.status # "draft")
       => \/ draft # None /\ db'.order = None /\ (CancelCheckout \/ DeleteStaleDraft)
          \/ Begun /\ (Unfinished => AcceptConsent \/ Restart)]_vars

\* The comment of save_box (core/services/orders.py:188-190): the choice is checked
\* first, so that no box without its own name and price stays in the draft when the
\* bot shows the refusal and commits.
BoxesPricedAsChosen ==
    db.order # None =>
        \A i \in DOMAIN db.order.boxes : db.order.boxes[i].priced = db.order.boxes[i].choice
=============================================================================

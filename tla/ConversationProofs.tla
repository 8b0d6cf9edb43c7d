------------------------- MODULE ConversationProofs -------------------------
(* The conversation of the bot. First theorems about Checkout, for every menu  *)
(* and every bound: those about the rows alone (totals, what is placed), then  *)
(* those that need what the conversation holds (types, which order it may      *)
(* change, what a pass may add). Last those about SerialUpdates, which Checkout *)
(* rests on: the updates of one user take effect one by one.                   *)
EXTENDS Checkout, SerialUpdates, FiniteSetTheorems, SequenceTheorems, TLAPS

\* The fields the records have; what they hold is needed only where it is said.
IsBox(b) == DOMAIN b = {"choice", "video", "priced", "at"}

IsRow(o) == DOMAIN o = {"id", "status", "boxes", "subtotal", "pickup", "quoted", "recipient"}

AllBoxes(boxes) == \A i \in DOMAIN boxes : IsBox(boxes[i])

DeliveryAddsUp(o) == o.quoted # 0 <=> o.boxes # <<>> /\ o.pickup # None

Sound(o) ==
    /\ IsRow(o)
    /\ AllBoxes(o.boxes)
    /\ o.subtotal = Prices(o.boxes)
    /\ DeliveryAddsUp(o)

ShopInv ==
    /\ DOMAIN shop = {"offers", "video", "open", "intake", "edition", "upsets"}
    /\ shop.edition \in Nat \ {0}

RowsInv ==
    /\ DOMAIN db = {"order", "consent", "known", "visited", "orders", "items"}
    /\ db.order # None => Sound(db.order)

CheckoutInv == ShopInv /\ RowsInv

-----------------------------------------------------------------------------
(* Prices. *)

\* Delivery is priced with the current edition for a place that is open, or it is
\* not in the total; the rest of the order stays.
LEMMA RequotedSound ==
    ASSUME NEW o, IsRow(o), ShopInv
    PROVE  LET q == Requoted(o)
           IN  /\ IsRow(q)
               /\ DeliveryAddsUp(q)
               /\ q.status = o.status /\ q.boxes = o.boxes /\ q.subtotal = o.subtotal
               /\ q.recipient = o.recipient
               /\ q.boxes # <<>> /\ q.pickup # None
                    => q.pickup \in shop.open /\ q.quoted = shop.edition
<1>1. CASE o.boxes = <<>> \/ o.pickup = None
  BY <1>1 DEF Requoted, IsRow, DeliveryAddsUp
<1>2. CASE ~(o.boxes = <<>> \/ o.pickup = None) /\ o.pickup \in shop.open
  BY <1>2 DEF Requoted, IsRow, DeliveryAddsUp, ShopInv
<1>3. CASE ~(o.boxes = <<>> \/ o.pickup = None) /\ o.pickup \notin shop.open
  BY <1>3 DEF Requoted, IsRow, DeliveryAddsUp
<1> QED BY <1>1, <1>2, <1>3

\* A recalculated order adds up, and each of its boxes is priced as chosen, by the
\* current edition.
LEMMA RecalculatedSound ==
    ASSUME NEW o, IsRow(o), NEW boxes, AllBoxes(boxes), ShopInv
    PROVE  LET r == Recalculated(o, boxes)
           IN  /\ Sound(r)
               /\ r.status = o.status /\ r.recipient = o.recipient
               /\ DOMAIN r.boxes = DOMAIN boxes
               /\ \A i \in DOMAIN boxes :
                     /\ r.boxes[i].choice = boxes[i].choice
                     /\ r.boxes[i].video = boxes[i].video
                     /\ r.boxes[i].priced = boxes[i].choice
                     /\ r.boxes[i].at = shop.edition
               /\ r.boxes # <<>> /\ r.pickup # None
                    => r.pickup \in shop.open /\ r.quoted = shop.edition
<1> DEFINE priced == [i \in DOMAIN boxes |->
                         [boxes[i] EXCEPT !.priced = boxes[i].choice, !.at = shop.edition]]
           whole == [o EXCEPT !.boxes = priced, !.subtotal = Prices(priced)]
<1>1. /\ DOMAIN priced = DOMAIN boxes
      /\ \A i \in DOMAIN boxes :
            /\ IsBox(priced[i])
            /\ priced[i].choice = boxes[i].choice /\ priced[i].video = boxes[i].video
            /\ priced[i].priced = boxes[i].choice /\ priced[i].at = shop.edition
  BY DEF AllBoxes, IsBox
<1>2. /\ IsRow(whole)
      /\ whole.boxes = priced /\ whole.subtotal = Prices(priced)
      /\ whole.status = o.status /\ whole.recipient = o.recipient
  BY DEF IsRow
<1>3. Recalculated(o, boxes) = Requoted(whole)
  BY DEF Recalculated
<1> HIDE DEF priced, whole
<1> QED BY <1>1, <1>2, <1>3, RequotedSound DEF Sound, AllBoxes

-----------------------------------------------------------------------------
(* How an update ends. *)

\* Rows that keep the invariant.
Fine(d) == DOMAIN d = DOMAIN db /\ (d.order # None => Sound(d.order))

\* The step placed no order.
PlacesNothing == db'.order = None \/ db'.order = db.order \/ db'.order.status = "draft"

Step == CheckoutInv' /\ PlacesNothing

LEMMA AnswerFine ==
    ASSUME CheckoutInv, NEW c, NEW d, Fine(d), AnswerOrOutage(c, d)
    PROVE  CheckoutInv' /\ (db'.order = d.order \/ db'.order = db.order)
<1>1. ShopInv'
  BY DEF AnswerOrOutage, Answer, Upset, CheckoutInv, ShopInv
<1>2. CASE db' = d
  BY <1>1, <1>2 DEF CheckoutInv, RowsInv, Fine
<1>3. CASE db' = [db EXCEPT !.orders = d.orders, !.items = d.items]
  <2>1. DOMAIN db' = DOMAIN db /\ db'.order = db.order
    BY <1>3 DEF CheckoutInv, RowsInv
  <2> QED BY <1>1, <2>1 DEF CheckoutInv, RowsInv
<1> QED BY <1>2, <1>3 DEF AnswerOrOutage, Answer

\* An update that is about the conversation alone.
LEMMA TalkOnly ==
    ASSUME CheckoutInv, NEW c, Answer(c, db)
    PROVE  Step
BY DEF Answer, Step, PlacesNothing, CheckoutInv, ShopInv, RowsInv

LEMMA WithFine ==
    ASSUME CheckoutInv, NEW o, o # None => Sound(o)
    PROVE  Fine(With(o)) /\ With(o).order = o
BY DEF With, Fine, CheckoutInv, RowsInv

\* An update that leaves a draft.
LEMMA DraftLeft ==
    ASSUME CheckoutInv, NEW c, NEW d, Fine(d), AnswerOrOutage(c, d),
           d.order = None \/ d.order.status = "draft"
    PROVE  Step
BY AnswerFine DEF Step, PlacesNothing

LEMMA DraftSound ==
    ASSUME CheckoutInv, draft # None
    PROVE  draft = db.order /\ Sound(draft) /\ draft.status = "draft"
BY DEF draft, CheckoutInv, RowsInv

-----------------------------------------------------------------------------
(* The actions that write rows. *)

LEMMA BeginStep ==
    ASSUME CheckoutInv, NEW d, Fine(d), BeginNewOrder(d)
    PROVE  Step
<1> DEFINE o == [id |-> d.orders + 1, status |-> "draft", boxes |-> <<>>, subtotal |-> <<>>,
                 quoted |-> 0,
                 pickup |-> IF d.visited /\ "point" \in shop.open THEN "point" ELSE None,
                 recipient |-> d.known]
           e == [d EXCEPT !.order = o, !.orders = o.id]
<1>1. IsRow(o) /\ o.boxes = <<>> /\ o.subtotal = <<>> /\ o.quoted = 0 /\ o.status = "draft"
  BY DEF IsRow
<1>2. AllBoxes(<<>>) /\ Prices(<<>>) = <<>>
  BY DEF AllBoxes, Prices
<1>3. DOMAIN e = DOMAIN d /\ e.order = o
  BY DEF Fine, CheckoutInv, RowsInv
<1>4. PICK c : AnswerOrOutage(c, e)
  BY DEF BeginNewOrder
<1> HIDE DEF o, e
<1>5. Sound(o)
  BY <1>1, <1>2 DEF Sound, DeliveryAddsUp
<1>6. Fine(e)
  BY <1>3, <1>5 DEF Fine
<1> QED BY <1>1, <1>3, <1>4, <1>6, DraftLeft

LEMMA RepriceStep ==
    ASSUME CheckoutInv, Current, NEW c, NEW boxes, AllBoxes(boxes), NEW d,
           DOMAIN d = DOMAIN db, d.order = Recalculated(draft, boxes), AnswerOrOutage(c, d)
    PROVE  Step
<1>1. IsRow(draft) /\ draft.status = "draft"
  BY DraftSound DEF Current, Sound
<1>2. Sound(d.order) /\ d.order.status = "draft"
  BY <1>1, RecalculatedSound DEF CheckoutInv
<1> QED BY <1>2, DraftLeft DEF Fine

LEMMA FinishStep == ASSUME CheckoutInv, FinishBox PROVE Step
<1> DEFINE i == IF conv.edit = None THEN db.items + 1 ELSE conv.edit
           box == [choice |-> Chosen, video |-> ChosenVideo, priced |-> Chosen, at |-> 0]
           boxes == [j \in DOMAIN draft.boxes \cup {i} |->
                        IF j = i THEN box ELSE draft.boxes[j]]
           d == [With(Recalculated(draft, boxes)) EXCEPT !.items = IF i > @ THEN i ELSE @]
<1>1. Current /\ \E c : Answer(c, d)
  BY DEF FinishBox, On
<1>2. IsBox(box)
  BY DEF IsBox
<1>3. AllBoxes(draft.boxes)
  BY <1>1, DraftSound DEF Current, Sound
<1>4. AllBoxes(boxes)
  BY <1>2, <1>3 DEF AllBoxes
<1>5. DOMAIN d = DOMAIN db /\ d.order = Recalculated(draft, boxes)
  BY DEF With, CheckoutInv, RowsInv
<1> HIDE DEF i, box, boxes, d
<1> QED BY <1>1, <1>4, <1>5, RepriceStep DEF AnswerOrOutage

\* The box keeps its price, so the sum keeps adding up.
LEMMA RefusedEditStep == ASSUME CheckoutInv, EditRefusedHalfway PROVE Step
<1> DEFINE i == conv.edit
           boxes == draft.boxes
           o == [draft EXCEPT !.boxes[i].choice = Chosen]
<1>1. Current /\ i \in DOMAIN boxes /\ \E c : Answer(c, With(o))
  BY DEF EditRefusedHalfway, On
<1>2. Sound(draft) /\ draft.status = "draft"
  BY <1>1, DraftSound DEF Current
<1>3. /\ IsRow(o) /\ o.status = "draft" /\ o.subtotal = draft.subtotal
      /\ o.pickup = draft.pickup /\ o.quoted = draft.quoted
      /\ o.boxes = [boxes EXCEPT ![i] = [boxes[i] EXCEPT !.choice = Chosen]]
  BY <1>2 DEF Sound, IsRow
<1>4. /\ DOMAIN o.boxes = DOMAIN boxes
      /\ \A j \in DOMAIN boxes : /\ IsBox(o.boxes[j])
                                /\ o.boxes[j].priced = boxes[j].priced
                                /\ o.boxes[j].at = boxes[j].at
  BY <1>2, <1>3 DEF Sound, AllBoxes, IsBox
<1>5. o.boxes # <<>> /\ boxes # <<>>
  <2>1. DOMAIN <<>> = {}
    OBVIOUS
  <2> QED BY <1>1, <1>4, <2>1
<1> HIDE DEF o
<1>6. Prices(o.boxes) = Prices(boxes)
  BY <1>4 DEF Prices
<1>7. Sound(o)
  BY <1>2, <1>3, <1>4, <1>5, <1>6 DEF Sound, AllBoxes, DeliveryAddsUp
<1> QED BY <1>1, <1>3, <1>7, WithFine, DraftLeft DEF AnswerOrOutage

LEMMA RemoveStep == ASSUME CheckoutInv, NEW i, CartRemove(i) PROVE Step
<1> DEFINE left == Restrict(draft.boxes, DOMAIN draft.boxes \ {i})
           d == With(Recalculated(draft, left))
<1>1. Current /\ \E c : AnswerOrOutage(c, d)
  BY DEF CartRemove, On
<1>2. AllBoxes(draft.boxes)
  BY <1>1, DraftSound DEF Current, Sound
<1>3. AllBoxes(left)
  BY <1>2 DEF AllBoxes, Restrict
<1>4. DOMAIN d = DOMAIN db /\ d.order = Recalculated(draft, left)
  BY DEF With, CheckoutInv, RowsInv
<1> HIDE DEF left, d
<1> QED BY <1>1, <1>3, <1>4, RepriceStep

LEMMA ContinueStep == ASSUME CheckoutInv, Continue PROVE Step
<1> DEFINE d == With(Recalculated(draft, draft.boxes))
<1>1. Current /\ \E c : Answer(c, d)
  BY DEF Continue, On
<1>2. AllBoxes(draft.boxes)
  BY <1>1, DraftSound DEF Current, Sound
<1>3. DOMAIN d = DOMAIN db /\ d.order = Recalculated(draft, draft.boxes)
  BY DEF With, CheckoutInv, RowsInv
<1> HIDE DEF d
<1> QED BY <1>1, <1>2, <1>3, RepriceStep DEF AnswerOrOutage

LEMMA PickupStep ==
    ASSUME CheckoutInv, Current, NEW place, NEW c, AnswerOrOutage(c, With(SetPickup(place)))
    PROVE  Step
<1> DEFINE o == [draft EXCEPT !.pickup = place]
<1>1. Sound(draft) /\ draft.status = "draft"
  BY DraftSound DEF Current
<1>2. IsRow(o) /\ o.boxes = draft.boxes /\ o.subtotal = draft.subtotal /\ o.status = "draft"
  BY <1>1 DEF Sound, IsRow
<1>3. SetPickup(place) = Requoted(o)
  BY DEF SetPickup
<1> HIDE DEF o
<1>4. Sound(SetPickup(place)) /\ SetPickup(place).status = "draft"
  BY <1>1, <1>2, <1>3, RequotedSound DEF Sound, CheckoutInv
<1> QED BY <1>4, WithFine, DraftLeft

LEMMA RecipientStep == ASSUME CheckoutInv, NEW keep, SaveRecipient(keep) PROVE Step
<1> DEFINE o == [draft EXCEPT !.recipient = TRUE]
           d == [With(o) EXCEPT !.known = TRUE]
<1>1. Current /\ \E c : Answer(c, db) \/ Answer(c, d)
  BY DEF SaveRecipient, On
<1>2. Sound(draft) /\ draft.status = "draft"
  BY <1>1, DraftSound DEF Current
<1>3. Sound(o) /\ o.status = "draft"
  BY <1>2 DEF Sound, IsRow, DeliveryAddsUp
<1>4. DOMAIN d = DOMAIN db /\ d.order = o
  BY DEF With, CheckoutInv, RowsInv
<1> HIDE DEF o, d
<1> QED BY <1>1, <1>3, <1>4, TalkOnly, DraftLeft DEF AnswerOrOutage, Fine

LEMMA PayStep == ASSUME CheckoutInv, Pay PROVE CheckoutInv' /\ (PlacesNothing \/ AsOffered)
<1> DEFINE o == Recalculated(draft, draft.boxes)
           placed == [o EXCEPT !.status = "waiting_payment"]
<1>1. /\ Current /\ shop.intake /\ Priceable(draft.boxes)
      /\ \E c : \/ Ready(o) /\ AnswerOrOutage(c, With(placed))
                \/ ~Ready(o) /\ Answer(c, With(o))
  BY DEF Pay, On
<1>2. Sound(draft) /\ draft.status = "draft"
  BY <1>1, DraftSound DEF Current
<1>3. /\ Sound(o) /\ o.status = "draft"
      /\ DOMAIN o.boxes = DOMAIN draft.boxes
      /\ \A i \in DOMAIN draft.boxes :
            /\ o.boxes[i].choice = draft.boxes[i].choice
            /\ o.boxes[i].video = draft.boxes[i].video
            /\ o.boxes[i].priced = draft.boxes[i].choice
            /\ o.boxes[i].at = shop.edition
      /\ o.boxes # <<>> /\ o.pickup # None => o.pickup \in shop.open /\ o.quoted = shop.edition
  <2>1. IsRow(draft) /\ AllBoxes(draft.boxes) /\ ShopInv
    BY <1>2 DEF Sound, CheckoutInv
  <2> HIDE DEF o
  <2>2. o = Recalculated(draft, draft.boxes)
    BY DEF o
  <2> QED BY <1>2, <2>1, <2>2, RecalculatedSound
<1> HIDE DEF o
<1>4. CASE ~Ready(o) /\ \E c : Answer(c, With(o))
  BY <1>3, <1>4, WithFine, DraftLeft DEF AnswerOrOutage, Step
<1>5. CASE Ready(o) /\ \E c : AnswerOrOutage(c, With(placed))
  <2>1. /\ Sound(placed) /\ placed.boxes = o.boxes /\ placed.pickup = o.pickup
        /\ placed.quoted = o.quoted /\ placed.recipient = o.recipient
    BY <1>3 DEF Sound, IsRow, DeliveryAddsUp
  <2> HIDE DEF placed
  <2>2. CheckoutInv' /\ (db'.order = placed \/ db'.order = db.order)
    BY <1>5, <2>1, WithFine, AnswerFine
  <2>3. CASE db'.order = placed
    <3>1. Priceable(o.boxes)
      BY <1>1, <1>3 DEF Priceable
    <3> QED BY <1>1, <1>3, <1>5, <2>1, <2>2, <2>3, <3>1, ZenonT(30) DEF Ready, AsOffered
  <2> QED BY <2>2, <2>3 DEF PlacesNothing
<1> QED BY <1>1, <1>4, <1>5

-----------------------------------------------------------------------------
(* All steps. *)

LEMMA BeginningStep ==
    ASSUME CheckoutInv, StartCheckout \/ AcceptConsent \/ Restart PROVE Step
<1>1. Fine(db) /\ Fine([db EXCEPT !.consent = TRUE])
  BY DEF Fine, CheckoutInv, RowsInv
<1>2. CASE \E c : Answer(c, db)
  BY <1>2, TalkOnly
<1>3. CASE \E d : Fine(d) /\ BeginNewOrder(d)
  BY <1>3, BeginStep
<1> QED BY <1>1, <1>2, <1>3 DEF StartCheckout, AcceptConsent, Restart

LEMMA CancelStep ==
    ASSUME CheckoutInv, CancelCheckout \/ DeleteStaleDraft \/ ShopChanges PROVE Step
<1>1. CASE CancelCheckout
  <2>1. Fine(With(None)) /\ With(None).order = None /\ Fine(db)
    BY WithFine DEF Fine, CheckoutInv, RowsInv
  <2>2. PICK d : Fine(d) /\ (d.order = None \/ d = db) /\ \E c : AnswerOrOutage(c, d)
    BY <1>1, <2>1 DEF CancelCheckout
  <2> QED BY <2>2, AnswerFine DEF Step, PlacesNothing
<1>2. CASE DeleteStaleDraft
  <2>1. Fine(With(None)) /\ With(None).order = None
    BY WithFine
  <2>2. ShopInv'
    BY <1>2 DEF DeleteStaleDraft, Upset, CheckoutInv, ShopInv
  <2> QED BY <1>2, <2>1, <2>2
          DEF DeleteStaleDraft, Fine, Step, PlacesNothing, CheckoutInv, RowsInv
<1>3. CASE ShopChanges
  <2>1. ShopInv'
    BY <1>3 DEF ShopChanges, CheckoutInv, ShopInv
  <2> QED BY <1>3, <2>1 DEF ShopChanges, Step, PlacesNothing, CheckoutInv, RowsInv
<1> QED BY <1>1, <1>2, <1>3

LEMMA NextStep ==
    ASSUME CheckoutInv, [Next]_vars
    PROVE  CheckoutInv' /\ (PlacesNothing \/ AsOffered)
<1>1. CASE \E c : Answer(c, db)
  BY <1>1, TalkOnly DEF Step
<1>2. CASE StartCheckout \/ AcceptConsent \/ Restart
  BY <1>2, BeginningStep DEF Step
<1>3. CASE CancelCheckout \/ DeleteStaleDraft \/ ShopChanges
  BY <1>3, CancelStep DEF Step
<1>4. CASE Continue \/ FinishBox \/ EditRefusedHalfway
  BY <1>4, ContinueStep, FinishStep, RefusedEditStep DEF Step
<1>5. CASE \E i \in 1..MaxItems : CartRemove(i)
  BY <1>5, RemoveStep DEF Step
<1>6. CASE ChoosePickupPoint \/ ReceiveManualAddress
  BY <1>6, PickupStep
     DEF ChoosePickupPoint, ReceiveManualAddress, On, AnswerOrOutage, Step
<1>7. CASE \E keep \in BOOLEAN : SaveRecipient(keep)
  BY <1>7, RecipientStep DEF Step
<1>8. CASE Pay
  BY <1>8, PayStep
<1>9. CASE UNCHANGED vars
  BY <1>9 DEF vars, CheckoutInv, ShopInv, RowsInv, PlacesNothing
<1>10. ASSUME \/ LeaveCheckout \/ WriteToUs \/ StaleButton
              \/ \E p \in Products : ChooseProduct(p)
              \/ \E n \in Counts : ChooseSpoons(n)
              \/ \E yes \in BOOLEAN : ChooseVideo(yes)
              \/ GiveComment \/ FinishTooEarly \/ CartAdd \/ CartNext
              \/ \E i \in 1..MaxItems : CartEdit(i) \/ CartMissed(i)
              \/ \E use \in BOOLEAN : ConfirmPickup(use) \/ ConfirmRecipient(use)
              \/ ManualPickupProvider \/ ManualPickupAddress
              \/ ReceiveName \/ ReceivePhone \/ Navigate
       PROVE  \E c : Answer(c, db)
  BY <1>10 DEF LeaveCheckout, WriteToUs, StaleButton, ChooseProduct, ChooseSpoons,
       ChooseVideo, GiveComment, FinishTooEarly, CartAdd, CartNext, CartEdit, CartMissed,
       ConfirmPickup, ConfirmRecipient, ManualPickupProvider, ManualPickupAddress,
       ReceiveName, ReceivePhone, Navigate
<1> QED BY <1>1, <1>2, <1>3, <1>4, <1>5, <1>6, <1>7, <1>8, <1>9, <1>10 DEF Next, Customer

LEMMA CheckoutInit == Init => CheckoutInv
BY DEF Init, CheckoutInv, ShopInv, RowsInv

\* However updates fail and whatever the owner changes, the total of an order is
\* the sum of its boxes, with delivery exactly if it can be delivered.
THEOREM CheckoutAddsUp == CheckoutSpec => []TotalAddsUp
<1>1. CheckoutInv => TotalAddsUp
  BY DEF CheckoutInv, RowsInv, Sound, DeliveryAddsUp, TotalAddsUp
<1>2. CheckoutInv /\ [Next]_vars => CheckoutInv'
  BY NextStep
<1> QED BY <1>1, <1>2, CheckoutInit, PTL DEF CheckoutSpec

\* An order is placed only with boxes, a place and a recipient that the shop can
\* serve at that moment, at the prices of that moment.
THEOREM CheckoutPlacesAsOffered == CheckoutSpec => PlacedAsOffered
<1>1. CheckoutInv /\ [Next]_vars => CheckoutInv'
  BY NextStep
<1>2. CheckoutInv /\ [Next]_vars => [Placed => AsOffered]_vars
  BY NextStep DEF Placed, PlacesNothing
<1> QED BY <1>1, <1>2, CheckoutInit, PTL DEF CheckoutSpec, PlacedAsOffered
-----------------------------------------------------------------------------
(* What needs the conversation, not the rows alone. *)

OrderIds == 1..MaxOrders \cup {None}
ItemIds == 1..MaxItems \cup {None}
SomeProduct == Products \cup {None}
SomeCount == Counts \cup {None}

Conv == [step : Steps, order : OrderIds, product : SomeProduct, spoons : SomeCount,
         video : BOOLEAN, edit : ItemIds, editing : BOOLEAN]

\* Rows that keep the types.
Typed(d) ==
    /\ Fine(d)
    /\ d.order # None => IsOrder(d.order) /\ d.order.id <= d.orders
    /\ d.orders \in 0..MaxOrders /\ d.items \in 0..MaxItems
    /\ db.orders <= d.orders
    /\ d.consent \in BOOLEAN /\ d.known \in BOOLEAN /\ d.visited \in BOOLEAN

Shop ==
    /\ shop.offers \subseteq Menu /\ shop.open \subseteq Places
    /\ shop.video \in BOOLEAN /\ shop.intake \in BOOLEAN

TypesInv ==
    /\ CheckoutInv
    /\ conv \in Conv
    /\ Typed(db)
    /\ Shop

------------------------------------------------------------------------------
(* Where the conversation may go.                                           *)

LEMMA Fields ==
    ASSUME NEW c \in Conv, NEW s \in Steps, NEW b \in BOOLEAN, NEW p \in SomeProduct,
           NEW n \in SomeCount, NEW i \in ItemIds, NEW o \in OrderIds
    PROVE  /\ [c EXCEPT !.step = s] \in Conv
           /\ [c EXCEPT !.editing = b] \in Conv
           /\ [c EXCEPT !.step = s, !.editing = b] \in Conv
           /\ [c EXCEPT !.video = b] \in Conv
           /\ [c EXCEPT !.step = s, !.video = b] \in Conv
           /\ [c EXCEPT !.video = b, !.step = s] \in Conv
           /\ [c EXCEPT !.order = o] \in Conv
           /\ [c EXCEPT !.spoons = n] \in Conv
           /\ [c EXCEPT !.product = p, !.spoons = n] \in Conv
           /\ [c EXCEPT !.product = p, !.spoons = n, !.video = b, !.edit = i] \in Conv
           /\ [c EXCEPT !.edit = i, !.product = p, !.spoons = n, !.video = b] \in Conv
  BY DEF Conv

LEMMA Nothing ==
    /\ None \in OrderIds /\ None \in ItemIds /\ None \in SomeProduct /\ None \in SomeCount
    /\ None \in Steps
    /\ NoConversation \in Conv
  BY DEF OrderIds, ItemIds, SomeProduct, SomeCount, Steps, NoConversation, Conv

LEMMA Screens ==
    ASSUME NEW c \in Conv, NEW o
    PROVE  /\ NoBox(c) \in Conv /\ ShowProduct(c) \in Conv /\ StartBox(c) \in Conv
           /\ ShowSpoons(c) \in Conv /\ ShowVideo(c) \in Conv
           /\ ShowCart(c, o) \in Conv /\ ShowSummary(c, o) \in Conv
           /\ AfterPickup(c, o) \in Conv
  <1>1. NoBox(c) \in Conv
    BY Fields, Nothing DEF NoBox
  <1>2. \A x \in Conv : \A s \in Steps, b \in BOOLEAN :
            /\ [x EXCEPT !.step = s] \in Conv
            /\ [x EXCEPT !.step = s, !.editing = b] \in Conv
            /\ [x EXCEPT !.step = s, !.video = b] \in Conv
    BY Fields, Nothing
  <1>3. {"product", "spoons", "video", "comment", "cart", "pickup", "recipient_name",
         "recipient_confirm", "summary"} \subseteq Steps
    BY DEF Steps
  <1>4. \A x \in Conv : ShowProduct(x) \in Conv
    BY <1>2, <1>3 DEF ShowProduct
  <1>5. \A x \in Conv : ShowSpoons(x) \in Conv
    BY <1>2, <1>3, <1>4 DEF ShowSpoons
  <1>6. ShowVideo(c) \in Conv
    BY <1>2, <1>3 DEF ShowVideo
  <1>7. StartBox(c) \in Conv
    BY <1>1, <1>4 DEF StartBox
  <1>8. ShowCart(c, o) \in Conv
    BY <1>2, <1>3, <1>7 DEF ShowCart
  <1>9. ShowSummary(c, o) \in Conv
    BY <1>2, <1>3, <1>7 DEF ShowSummary
  <1>10. AfterPickup(c, o) \in Conv
    BY <1>2, <1>3, <1>9 DEF AfterPickup
  <1> QED
    BY <1>1, <1>4, <1>5, <1>6, <1>7, <1>8, <1>9, <1>10

------------------------------------------------------------------------------
(* How an update ends.                                                      *)

LEMMA AnswerTyped ==
    ASSUME TypesInv, NEW c \in Conv, NEW d, Typed(d), AnswerOrOutage(c, d)
    PROVE  TypesInv'
  <1>1. CheckoutInv'
    BY AnswerFine DEF TypesInv, Typed
  <1>2. conv' \in Conv
    BY DEF AnswerOrOutage, Answer, TypesInv
  <1>3. Shop'
    BY DEF AnswerOrOutage, Answer, Upset, TypesInv, CheckoutInv, ShopInv, Shop
  <1>4. Typed(db)'
    <2>1. CASE db' = d
      BY <1>1, <2>1 DEF Typed, Fine, CheckoutInv, RowsInv
    <2>2. CASE db' = [db EXCEPT !.orders = d.orders, !.items = d.items]
      <3>1. /\ DOMAIN db' = DOMAIN db /\ db'.order = db.order
            /\ db'.orders = d.orders /\ db'.items = d.items
            /\ db'.consent = db.consent /\ db'.known = db.known /\ db'.visited = db.visited
        BY <2>2 DEF TypesInv, CheckoutInv, RowsInv
      <3>2. db.order # None => db.order.id \in Int
        BY DEF TypesInv, Typed, IsOrder
      <3> QED
        BY <1>1, <3>1, <3>2, BoundsAssumption DEF TypesInv, Typed, Fine, CheckoutInv, RowsInv
    <2> QED
      BY <2>1, <2>2 DEF AnswerOrOutage, Answer
  <1> QED
    BY <1>1, <1>2, <1>3, <1>4 DEF TypesInv

------------------------------------------------------------------------------
(* Rows.                                                                    *)

BoxesOK(boxes) == DOMAIN boxes \subseteq 1..MaxItems /\ \A i \in DOMAIN boxes : boxes[i] \in Box

LEMMA BoxesHaveFields ==
    ASSUME NEW boxes, BoxesOK(boxes)
    PROVE  AllBoxes(boxes)
  BY DEF BoxesOK, Box, AllBoxes, IsBox

LEMMA RequotedTyped ==
    ASSUME NEW o, IsRow(o), IsOrder(o), ShopInv
    PROVE  IsOrder(Requoted(o)) /\ Requoted(o).id = o.id
  <1>1. shop.edition \in Nat
    BY DEF ShopInv
  <1>2. CASE o.boxes = <<>> \/ o.pickup = None
    BY <1>2 DEF Requoted, IsRow, IsOrder
  <1>3. CASE ~(o.boxes = <<>> \/ o.pickup = None) /\ o.pickup \in shop.open
    BY <1>1, <1>3 DEF Requoted, IsRow, IsOrder
  <1>4. CASE ~(o.boxes = <<>> \/ o.pickup = None) /\ o.pickup \notin shop.open
    BY <1>4 DEF Requoted, IsRow, IsOrder
  <1> QED
    BY <1>2, <1>3, <1>4

LEMMA RecalculatedTyped ==
    ASSUME NEW o, IsRow(o), IsOrder(o), NEW boxes, BoxesOK(boxes), ShopInv
    PROVE  /\ IsOrder(Recalculated(o, boxes))
           /\ Recalculated(o, boxes).id = o.id
           /\ DOMAIN Recalculated(o, boxes).boxes = DOMAIN boxes
  <1> DEFINE priced == [i \in DOMAIN boxes |->
                           [boxes[i] EXCEPT !.priced = boxes[i].choice, !.at = shop.edition]]
             whole == [o EXCEPT !.boxes = priced, !.subtotal = Prices(priced)]
  <1>1. shop.edition \in Nat
    BY DEF ShopInv
  <1>2. ASSUME NEW b \in Box
        PROVE  [b EXCEPT !.priced = b.choice, !.at = shop.edition] \in Box
    BY <1>1 DEF Box
  <1>3. DOMAIN priced = DOMAIN boxes /\ BoxesOK(priced)
    BY <1>2 DEF BoxesOK
  <1>4. DOMAIN Prices(priced) = DOMAIN boxes
    BY DEF Prices
  <1>5. /\ IsRow(whole) /\ whole.boxes = priced /\ whole.subtotal = Prices(priced)
        /\ whole.id = o.id /\ whole.status = o.status /\ whole.pickup = o.pickup
        /\ whole.quoted = o.quoted /\ whole.recipient = o.recipient
    BY DEF IsRow
  <1>6. Recalculated(o, boxes) = Requoted(whole)
    BY DEF Recalculated
  <1> HIDE DEF priced, whole
  <1>7. IsOrder(whole)
    BY <1>3, <1>4, <1>5 DEF IsOrder, BoxesOK
  <1>8. Requoted(whole).boxes = whole.boxes
    BY <1>5, RequotedSound
  <1> QED
    BY <1>3, <1>5, <1>6, <1>7, <1>8, RequotedTyped

LEMMA DraftTyped ==
    ASSUME TypesInv, Current
    PROVE  /\ draft = db.order /\ draft # None /\ conv.order = db.order.id
           /\ Sound(draft) /\ IsRow(draft) /\ IsOrder(draft) /\ draft.id <= db.orders
           /\ BoxesOK(draft.boxes) /\ draft.status = "draft"
  <1>1. draft # None /\ conv.order = draft.id
    BY DEF Current
  <1>2. draft = db.order /\ Sound(draft) /\ draft.status = "draft"
    BY <1>1, DraftSound DEF TypesInv
  <1>3. IsOrder(draft) /\ draft.id <= db.orders
    BY <1>1, <1>2 DEF TypesInv, Typed
  <1> QED
    BY <1>1, <1>2, <1>3 DEF Sound, IsOrder, BoxesOK

\* The rows with another order in them.
LEMMA WithTyped ==
    ASSUME TypesInv, NEW o, o # None => Sound(o) /\ IsOrder(o) /\ o.id <= db.orders
    PROVE  Typed(With(o)) /\ With(o).order = o
  <1>1. Fine(With(o)) /\ With(o).order = o
    BY WithFine DEF TypesInv
  <1>2. /\ With(o).orders = db.orders /\ With(o).items = db.items
        /\ With(o).consent = db.consent /\ With(o).known = db.known
        /\ With(o).visited = db.visited
    BY DEF With, TypesInv, CheckoutInv, RowsInv
  <1> QED
    BY <1>1, <1>2 DEF TypesInv, Typed

------------------------------------------------------------------------------
(* What a step does to the order of the rows.                               *)

\* What may end the draft of another conversation.
Ended ==
    \/ draft # None /\ db'.order = None /\ (CancelCheckout \/ DeleteStaleDraft)
    \/ Begun /\ (Unfinished => AcceptConsent \/ Restart)

\* The order stays, or is ended; or it is the draft the conversation is about, and has no box
\* more, or one that this pass has made.
Touched ==
    \/ db'.order = db.order \/ db.order = None
    \/ Ended /\ (db'.order # None => db'.order.id # db.order.id)
    \/ /\ conv.order = db.order.id /\ db.order.status = "draft"
       /\ \/ DOMAIN db'.order.boxes \subseteq DOMAIN db.order.boxes
          \/ conv.product # None /\ conv.edit = None /\ conv'.product = None

Moves == TypesInv' /\ Touched

\* An update that leaves the draft with the same boxes, or fewer.
LEMMA DraftMoves ==
    ASSUME TypesInv, Current, NEW c \in Conv, NEW o, Sound(o), IsOrder(o), o.id = draft.id,
           DOMAIN o.boxes \subseteq DOMAIN draft.boxes, AnswerOrOutage(c, With(o))
    PROVE  Moves
  <1>1. Typed(With(o)) /\ With(o).order = o
    <2>1. o.id <= db.orders
      BY DraftTyped
    <2> QED
      BY <2>1, WithTyped
  <1>2. TypesInv'
    BY <1>1, AnswerTyped
  <1>3. db'.order = o \/ db'.order = db.order
    BY <1>1, AnswerFine DEF TypesInv, Typed
  <1> QED
    BY <1>2, <1>3, DraftTyped DEF Moves, Touched

LEMMA TalkMoves ==
    ASSUME TypesInv, NEW c \in Conv, Answer(c, db)
    PROVE  Moves
  <1>1. TypesInv'
    BY AnswerTyped DEF TypesInv, AnswerOrOutage
  <1>2. db'.order = db.order
    BY DEF Answer, TypesInv, CheckoutInv, RowsInv
  <1> QED
    BY <1>1, <1>2 DEF Moves, Touched

------------------------------------------------------------------------------
(* The actions that write rows.                                             *)

LEMMA BeginMoves ==
    ASSUME TypesInv, NEW d, Typed(d), d.order = db.order, d.orders = db.orders,
           BeginNewOrder(d), Unfinished => AcceptConsent \/ Restart
    PROVE  Moves
  <1> DEFINE o == [id |-> d.orders + 1, status |-> "draft", boxes |-> <<>>, subtotal |-> <<>>,
                   quoted |-> 0,
                   pickup |-> IF d.visited /\ "point" \in shop.open THEN "point" ELSE None,
                   recipient |-> d.known]
             e == [d EXCEPT !.order = o, !.orders = o.id]
             c == StartBox([NoConversation EXCEPT !.order = o.id])
  <1>1. AnswerOrOutage(c, e) /\ d.orders < MaxOrders
    BY DEF BeginNewOrder
  <1>2. /\ IsRow(o) /\ o.boxes = <<>> /\ o.subtotal = <<>> /\ o.quoted = 0
        /\ o.status = "draft" /\ o.id = d.orders + 1
        /\ o.pickup \in Places \cup {None} /\ o.recipient = d.known
    BY DEF IsRow, Places
  <1>3. /\ DOMAIN e = DOMAIN d /\ e.order = o /\ e.orders = o.id /\ e.items = d.items
        /\ e.consent = d.consent /\ e.known = d.known /\ e.visited = d.visited
    BY DEF Typed, Fine, TypesInv, CheckoutInv, RowsInv
  <1>4. o.id \in OrderIds
    BY <1>1, <1>2, BoundsAssumption DEF Typed, TypesInv, OrderIds
  <1>5. c \in Conv
    <2>1. [NoConversation EXCEPT !.order = o.id] \in Conv
      BY <1>4, Fields, Nothing, ZenonT(30)
    <2> HIDE DEF o
    <2> QED
      BY <2>1, Screens
  <1> HIDE DEF o, e, c
  <1>6. DOMAIN <<>> = {} /\ AllBoxes(<<>>) /\ Prices(<<>>) = <<>>
    BY DEF AllBoxes, Prices
  <1>7. Sound(o)
    BY <1>2, <1>6 DEF Sound, DeliveryAddsUp
  <1>8. o.id \in 1..MaxOrders /\ 0 \in Nat
    BY <1>1, <1>2, BoundsAssumption DEF Typed, TypesInv
  <1>9. IsOrder(o)
    BY <1>2, <1>6, <1>8 DEF IsOrder, Typed
  <1>10. Typed(e)
    BY <1>2, <1>3, <1>7, <1>8, <1>9, BoundsAssumption DEF Typed, Fine, TypesInv
  <1>11. TypesInv'
    BY <1>1, <1>5, <1>10, AnswerTyped
  <1>12. db'.order = db.order \/ (db'.order = o /\ db'.orders = o.id)
    BY <1>1, <1>3 DEF AnswerOrOutage, Answer, TypesInv, CheckoutInv, RowsInv
  <1>13. db.order # None => o.id # db.order.id
    BY <1>2, <1>8, BoundsAssumption DEF TypesInv, Typed, IsOrder
  <1>14. db'.order = o /\ db'.orders = o.id => Begun
    BY <1>2 DEF Begun
  <1> QED
    BY <1>11, <1>12, <1>13, <1>14 DEF Moves, Touched, Ended

LEMMA BeginningMoves ==
    ASSUME TypesInv, StartCheckout \/ AcceptConsent \/ Restart
    PROVE  Moves
  <1>1. CASE \E c \in Conv : Answer(c, db)
    BY <1>1, TalkMoves
  <1>2. Typed(db) /\ Typed([db EXCEPT !.consent = TRUE])
    BY DEF TypesInv, Typed, Fine, CheckoutInv, RowsInv
  <1>3. [db EXCEPT !.consent = TRUE].order = db.order
        /\ [db EXCEPT !.consent = TRUE].orders = db.orders
    BY DEF TypesInv, CheckoutInv, RowsInv
  <1>4. CASE /\ BeginNewOrder(db) \/ BeginNewOrder([db EXCEPT !.consent = TRUE])
             /\ Unfinished => AcceptConsent \/ Restart
    BY <1>2, <1>3, <1>4, BeginMoves
  <1>5. ASSUME Unfinished
        PROVE  [NoConversation EXCEPT !.order = draft.id] \in Conv
    <2>1. draft # None
      BY <1>5 DEF Unfinished
    <2>2. draft.id \in OrderIds
      BY <2>1, DraftSound DEF TypesInv, Typed, IsOrder, OrderIds
    <2> QED
      BY <2>2, Fields, Nothing
  <1> QED
    BY <1>1, <1>4, <1>5, Nothing DEF StartCheckout, AcceptConsent, Restart

LEMMA CancelMoves ==
    ASSUME TypesInv, CancelCheckout \/ DeleteStaleDraft \/ ShopChanges
    PROVE  Moves
  <1>1. Typed(With(None)) /\ With(None).order = None
    BY WithTyped
  <1>2. CASE CancelCheckout
    <2>1. CASE AnswerOrOutage(NoConversation, With(None)) /\ draft # None
      <3>1. TypesInv'
        BY <1>1, <2>1, AnswerTyped, Nothing
      <3>2. db'.order = None \/ db'.order = db.order
        BY <1>1, <2>1, AnswerFine DEF TypesInv, Typed
      <3> QED
        BY <1>2, <2>1, <3>1, <3>2 DEF Moves, Touched, Ended
    <2>2. CASE AnswerOrOutage(NoConversation, db)
      <3>1. TypesInv'
        BY <2>2, AnswerTyped, Nothing DEF TypesInv
      <3>2. db'.order = db.order
        BY <2>2, AnswerFine DEF TypesInv, Typed
      <3> QED
        BY <3>1, <3>2 DEF Moves, Touched
    <2> QED
      BY <1>2, <2>1, <2>2 DEF CancelCheckout
  <1>3. CASE DeleteStaleDraft
    <2>1. CheckoutInv'
      BY <1>3, CancelStep DEF TypesInv, Step
    <2>2. Typed(db)' /\ db'.order = None
      BY <1>1, <1>3, <2>1
         DEF DeleteStaleDraft, Typed, Fine, CheckoutInv, RowsInv
    <2>3. conv' \in Conv /\ Shop'
      BY <1>3 DEF DeleteStaleDraft, Upset, TypesInv, CheckoutInv, ShopInv, Shop
    <2>4. draft # None
      BY <1>3 DEF DeleteStaleDraft
    <2> QED
      BY <1>3, <2>1, <2>2, <2>3, <2>4 DEF Moves, TypesInv, Touched, Ended
  <1>4. CASE ShopChanges
    <2>1. CheckoutInv'
      BY <1>4, CancelStep DEF TypesInv, Step
    <2>2. conv' \in Conv /\ db' = db
      BY <1>4 DEF ShopChanges, TypesInv
    <2>3. Typed(db)'
      BY <2>1, <2>2 DEF TypesInv, Typed, Fine, CheckoutInv, RowsInv
    <2>4. Shop'
      <3>1. PICK new : /\ shop' = [new EXCEPT !.upsets = @ + 1]
                       /\ \/ \E offers \in SUBSET Menu : new = [shop EXCEPT !.offers = offers]
                          \/ \E open \in SUBSET Places : new = [shop EXCEPT !.open = open]
                          \/ \E b \in BOOLEAN : new = [shop EXCEPT !.video = b]
                          \/ \E b \in BOOLEAN : new = [shop EXCEPT !.intake = b]
                          \/ new = [shop EXCEPT !.edition = @ + 1]
        <4>1. \A box \in Menu : Toggle(shop.offers, box) \in SUBSET Menu
          BY DEF Toggle, TypesInv, Shop
        <4>2. \A place \in Places : Toggle(shop.open, place) \in SUBSET Places
          BY DEF Toggle, TypesInv, Shop
        <4>3. (~shop.video) \in BOOLEAN /\ (~shop.intake) \in BOOLEAN
          BY Zenon
        <4>4. PICK new : /\ shop' = [new EXCEPT !.upsets = @ + 1]
                         /\ \/ \E box \in Menu : new = [shop EXCEPT !.offers = Toggle(@, box)]
                            \/ \E place \in Places : new = [shop EXCEPT !.open = Toggle(@, place)]
                            \/ new = [shop EXCEPT !.video = ~@]
                            \/ new = [shop EXCEPT !.intake = ~@]
                            \/ new = [shop EXCEPT !.edition = @ + 1]
          BY <1>4 DEF ShopChanges
        <4> QED
          BY <4>1, <4>2, <4>3, <4>4, Zenon
      <3>2. /\ DOMAIN new = DOMAIN shop
            /\ new.offers \subseteq Menu /\ new.open \subseteq Places
            /\ new.video \in BOOLEAN /\ new.intake \in BOOLEAN
        BY <3>1 DEF TypesInv, CheckoutInv, ShopInv, Shop
      <3> QED
        BY <3>1, <3>2 DEF TypesInv, CheckoutInv, ShopInv, Shop
    <2> QED
      BY <2>1, <2>2, <2>3, <2>4 DEF Moves, TypesInv, Touched
  <1> QED
    BY <1>2, <1>3, <1>4

\* The draft is priced anew, with the same boxes or fewer.
LEMMA RepriceMoves ==
    ASSUME TypesInv, Current, NEW c \in Conv, NEW boxes, BoxesOK(boxes),
           DOMAIN boxes \subseteq DOMAIN draft.boxes,
           AnswerOrOutage(c, With(Recalculated(draft, boxes)))
    PROVE  Moves
  <1>1. ShopInv /\ AllBoxes(boxes)
    BY BoxesHaveFields DEF TypesInv, CheckoutInv
  <1>2. IsRow(draft) /\ IsOrder(draft)
    BY DraftTyped
  <1> DEFINE r == Recalculated(draft, boxes)
  <1>3. IsOrder(r) /\ r.id = draft.id /\ DOMAIN r.boxes = DOMAIN boxes
    BY <1>1, <1>2, RecalculatedTyped
  <1>4. Sound(r)
    BY <1>1, <1>2, RecalculatedSound
  <1> HIDE DEF r
  <1> QED
    BY <1>3, <1>4, DraftMoves DEF r

LEMMA ContinueMoves ==
    ASSUME TypesInv, Continue
    PROVE  Moves
  <1> DEFINE o == Recalculated(draft, draft.boxes)
  <1>1. Current /\ Answer(ShowCart(conv, o), With(o))
    BY DEF Continue, On
  <1>2. ShowCart(conv, o) \in Conv
    BY Screens DEF TypesInv
  <1>3. BoxesOK(draft.boxes)
    BY <1>1, DraftTyped
  <1> QED
    BY <1>1, <1>2, <1>3, RepriceMoves DEF AnswerOrOutage

LEMMA RemoveMoves ==
    ASSUME TypesInv, NEW i, CartRemove(i)
    PROVE  Moves
  <1> DEFINE left == Restrict(draft.boxes, DOMAIN draft.boxes \ {i})
             o == Recalculated(draft, left)
  <1>1. Current /\ AnswerOrOutage(ShowCart(conv, o), With(o))
    BY DEF CartRemove, On
  <1>2. ShowCart(conv, o) \in Conv
    BY Screens DEF TypesInv
  <1>3. BoxesOK(draft.boxes)
    BY <1>1, DraftTyped
  <1>4. BoxesOK(left) /\ DOMAIN left \subseteq DOMAIN draft.boxes
    BY <1>3 DEF BoxesOK, Restrict
  <1> HIDE DEF left
  <1> QED
    BY <1>1, <1>2, <1>4, RepriceMoves

LEMMA RefusedEditMoves ==
    ASSUME TypesInv, EditRefusedHalfway
    PROVE  Moves
  <1> DEFINE i == conv.edit
             o == [draft EXCEPT !.boxes[i].choice = Chosen]
  <1>1. /\ Current /\ i \in DOMAIN draft.boxes /\ Chosen \in shop.offers
        /\ Answer(conv, With(o))
    BY DEF EditRefusedHalfway, On
  <1>2. Sound(draft) /\ IsRow(draft) /\ IsOrder(draft) /\ BoxesOK(draft.boxes)
    BY <1>1, DraftTyped
  <1>3. Chosen \in Menu
    BY <1>1 DEF TypesInv, Shop
  <1>4. /\ IsRow(o) /\ o.id = draft.id /\ o.status = draft.status
        /\ o.subtotal = draft.subtotal /\ o.pickup = draft.pickup
        /\ o.quoted = draft.quoted /\ o.recipient = draft.recipient
        /\ o.boxes = [draft.boxes EXCEPT ![i] = [draft.boxes[i] EXCEPT !.choice = Chosen]]
    BY <1>2 DEF IsRow
  <1>5. ASSUME NEW b \in Box
        PROVE  /\ [b EXCEPT !.choice = Chosen] \in Box
               /\ [b EXCEPT !.choice = Chosen].priced = b.priced
               /\ [b EXCEPT !.choice = Chosen].at = b.at
    BY <1>3 DEF Box
  <1>6. BoxesOK(o.boxes) /\ DOMAIN o.boxes = DOMAIN draft.boxes
    BY <1>1, <1>2, <1>4, <1>5 DEF BoxesOK
  <1>7. \A j \in DOMAIN draft.boxes :
            o.boxes[j].priced = draft.boxes[j].priced /\ o.boxes[j].at = draft.boxes[j].at
    BY <1>1, <1>2, <1>4, <1>5 DEF BoxesOK
  <1> HIDE DEF o
  <1>8. Prices(o.boxes) = Prices(draft.boxes)
    BY <1>6, <1>7 DEF Prices
  <1>9. o.boxes # <<>> /\ draft.boxes # <<>>
    <2>1. DOMAIN <<>> = {}
      OBVIOUS
    <2> QED
      BY <1>1, <1>6, <2>1
  <1>10. AllBoxes(o.boxes)
    BY <1>6, BoxesHaveFields
  <1>11. Sound(o)
    BY <1>2, <1>4, <1>8, <1>9, <1>10 DEF Sound, DeliveryAddsUp
  <1>12. IsOrder(o)
    BY <1>2, <1>4, <1>6 DEF IsOrder, BoxesOK
  <1> QED
    BY <1>1, <1>4, <1>6, <1>11, <1>12, DraftMoves DEF AnswerOrOutage, TypesInv

LEMMA PickupMoves ==
    ASSUME TypesInv, Current, NEW place \in Places, NEW c \in Conv,
           AnswerOrOutage(c, With(SetPickup(place)))
    PROVE  Moves
  <1> DEFINE o == [draft EXCEPT !.pickup = place]
  <1>1. Sound(draft) /\ IsRow(draft) /\ IsOrder(draft)
    BY DraftTyped
  <1>2. /\ IsRow(o) /\ o.id = draft.id /\ o.status = draft.status /\ o.boxes = draft.boxes
        /\ o.subtotal = draft.subtotal /\ o.pickup = place /\ o.quoted = draft.quoted
        /\ o.recipient = draft.recipient
    BY <1>1 DEF IsRow
  <1>3. SetPickup(place) = Requoted(o)
    BY DEF SetPickup
  <1> HIDE DEF o
  <1>4. IsOrder(o) /\ ShopInv
    BY <1>1, <1>2 DEF IsOrder, TypesInv, CheckoutInv
  <1> DEFINE q == Requoted(o)
  <1>5. Sound(q) /\ q.boxes = draft.boxes
    BY <1>1, <1>2, <1>4, RequotedSound DEF Sound
  <1>6. IsOrder(q) /\ q.id = draft.id
    BY <1>2, <1>4, RequotedTyped
  <1> HIDE DEF q
  <1> QED
    BY <1>3, <1>5, <1>6, DraftMoves DEF q

LEMMA RecipientMoves ==
    ASSUME TypesInv, NEW keep, SaveRecipient(keep)
    PROVE  Moves
  <1> DEFINE o == [draft EXCEPT !.recipient = TRUE]
             d == [With(o) EXCEPT !.known = TRUE]
  <1>1. /\ Current
        /\ \/ Answer([conv EXCEPT !.step = "recipient_name"], db)
           \/ Answer(ShowSummary(conv, o), d)
    BY DEF SaveRecipient, On
  <1>2. Sound(draft) /\ IsRow(draft) /\ IsOrder(draft) /\ draft.id <= db.orders
    BY <1>1, DraftTyped
  <1>3. /\ IsRow(o) /\ o.id = draft.id /\ o.status = draft.status /\ o.boxes = draft.boxes
        /\ o.subtotal = draft.subtotal /\ o.pickup = draft.pickup
        /\ o.quoted = draft.quoted /\ o.recipient = TRUE
    BY <1>2 DEF IsRow
  <1> HIDE DEF o
  <1>4. Sound(o) /\ IsOrder(o)
    BY <1>2, <1>3 DEF Sound, DeliveryAddsUp, IsOrder
  <1>5. /\ DOMAIN d = DOMAIN db /\ d.order = o /\ d.orders = db.orders /\ d.items = db.items
        /\ d.consent = db.consent /\ d.known = TRUE /\ d.visited = db.visited
    BY DEF With, TypesInv, CheckoutInv, RowsInv
  <1> HIDE DEF d
  <1>6. Typed(d)
    BY <1>2, <1>3, <1>4, <1>5 DEF Typed, Fine, TypesInv
  <1>7. ShowSummary(conv, o) \in Conv /\ [conv EXCEPT !.step = "recipient_name"] \in Conv
    <2>1. "recipient_name" \in Steps
      BY DEF Steps
    <2> QED
      BY <2>1, Screens, Fields, Nothing DEF TypesInv
  <1>8. CASE Answer(ShowSummary(conv, o), d)
    <2>1. TypesInv'
      BY <1>6, <1>7, <1>8, AnswerTyped DEF AnswerOrOutage
    <2>2. db'.order = o \/ db'.order = db.order
      BY <1>5, <1>6, <1>8, AnswerFine DEF TypesInv, Typed, AnswerOrOutage
    <2> QED
      BY <1>1, <1>3, <2>1, <2>2, DraftTyped DEF Moves, Touched
  <1> QED
    BY <1>1, <1>7, <1>8, TalkMoves

LEMMA PayMoves ==
    ASSUME TypesInv, Pay
    PROVE  Moves
  <1> DEFINE o == Recalculated(draft, draft.boxes)
             placed == [o EXCEPT !.status = "waiting_payment"]
  <1>1. /\ Current
        /\ AnswerOrOutage(NoConversation, With(placed)) \/ Answer(conv, With(o))
    BY DEF Pay, On, AnswerOrOutage
  <1>2. IsRow(draft) /\ IsOrder(draft) /\ BoxesOK(draft.boxes)
    BY <1>1, DraftTyped
  <1>3. ShopInv /\ AllBoxes(draft.boxes)
    BY <1>2, BoxesHaveFields DEF TypesInv, CheckoutInv
  <1>4. IsOrder(o) /\ o.id = draft.id /\ DOMAIN o.boxes = DOMAIN draft.boxes
    BY <1>2, <1>3, RecalculatedTyped
  <1>5. Sound(o)
    BY <1>2, <1>3, RecalculatedSound
  <1>6. CASE Answer(conv, With(o))
    BY <1>1, <1>2, <1>6, RepriceMoves DEF AnswerOrOutage, TypesInv
  <1> HIDE DEF o
  <1>7. CASE AnswerOrOutage(NoConversation, With(placed))
    <2>1. /\ IsRow(placed) /\ placed.id = o.id /\ placed.status = "waiting_payment"
          /\ placed.boxes = o.boxes /\ placed.subtotal = o.subtotal
          /\ placed.pickup = o.pickup /\ placed.quoted = o.quoted
          /\ placed.recipient = o.recipient
      BY <1>5 DEF Sound, IsRow
    <2> HIDE DEF placed
    <2>2. Sound(placed) /\ IsOrder(placed)
      BY <1>4, <1>5, <2>1 DEF Sound, DeliveryAddsUp, IsOrder
    <2> QED
      BY <1>1, <1>4, <1>7, <2>1, <2>2, DraftMoves, Nothing
  <1> QED
    BY <1>1, <1>6, <1>7

\* The last step of a box: one more, which this pass has made and which it forgets.
LEMMA FinishMoves ==
    ASSUME TypesInv, FinishBox
    PROVE  Moves
  <1> DEFINE i == IF conv.edit = None THEN db.items + 1 ELSE conv.edit
             box == [choice |-> Chosen, video |-> ChosenVideo, priced |-> Chosen, at |-> 0]
             boxes == [j \in DOMAIN draft.boxes \cup {i} |->
                          IF j = i THEN box ELSE draft.boxes[j]]
             o == Recalculated(draft, boxes)
             d == [With(o) EXCEPT !.items = IF i > @ THEN i ELSE @]
             c == ShowCart(NoBox(conv), o)
  <1>1. /\ Current /\ Chosen \in shop.offers /\ Answer(c, d)
        /\ IF conv.edit = None THEN i = db.items + 1 /\ i <= MaxItems
                               ELSE i \in DOMAIN draft.boxes
    BY DEF FinishBox, On
  <1>2. IsRow(draft) /\ IsOrder(draft) /\ BoxesOK(draft.boxes) /\ draft.id <= db.orders
    BY <1>1, DraftTyped
  <1>3. Chosen \in Menu /\ ChosenVideo \in BOOLEAN
    BY <1>1, Zenon DEF TypesInv, Shop, ChosenVideo, Conv
  <1>4. box \in Box
    <2>1. \A n \in Nat : [choice |-> Chosen, video |-> ChosenVideo, priced |-> Chosen, at |-> n]
                            \in Box
      BY <1>3 DEF Box
    <2>2. 0 \in Nat
      OBVIOUS
    <2> QED
      BY <2>1, <2>2, Zenon
  <1>5. i \in 1..MaxItems
    BY <1>1, <1>2, BoundsAssumption DEF BoxesOK, TypesInv, Typed
  <1> HIDE DEF box, i
  <1>6. BoxesOK(boxes) /\ DOMAIN boxes = DOMAIN draft.boxes \cup {i}
    BY <1>2, <1>4, <1>5 DEF BoxesOK
  <1> HIDE DEF boxes
  <1>7. ShopInv /\ AllBoxes(boxes)
    BY <1>6, BoxesHaveFields DEF TypesInv, CheckoutInv
  <1>8. IsOrder(o) /\ o.id = draft.id /\ DOMAIN o.boxes = DOMAIN boxes
    BY <1>2, <1>6, <1>7, RecalculatedTyped
  <1>9. Sound(o)
    BY <1>2, <1>7, RecalculatedSound
  <1> HIDE DEF o
  <1>10. /\ DOMAIN d = DOMAIN db /\ d.order = o /\ d.orders = db.orders
         /\ d.items = IF i > db.items THEN i ELSE db.items
         /\ d.consent = db.consent /\ d.known = db.known /\ d.visited = db.visited
    BY DEF With, TypesInv, CheckoutInv, RowsInv
  <1> HIDE DEF d
  <1>11. d.items \in 0..MaxItems
    BY <1>5, <1>10, BoundsAssumption DEF TypesInv, Typed
  <1>12. Typed(d)
    BY <1>2, <1>8, <1>9, <1>10, <1>11 DEF Typed, Fine, TypesInv
  <1>13. c \in Conv
    BY Screens DEF TypesInv
  <1>14. c.product = None
    BY DEF NoBox, ShowCart, StartBox, ShowProduct, TypesInv, Conv
  <1> HIDE DEF c
  <1>15. TypesInv'
    BY <1>1, <1>12, <1>13, AnswerTyped DEF AnswerOrOutage
  <1>16. db'.order = o \/ db'.order = db.order
    BY <1>1, <1>10, <1>12, AnswerFine DEF TypesInv, Typed, AnswerOrOutage
  <1>17. conv'.product = None
    BY <1>1, <1>14 DEF Answer
  <1>18. conv.product # None
    BY <1>3, MenuAssumption DEF Chosen
  <1>19. conv.edit # None => DOMAIN boxes = DOMAIN draft.boxes
    BY <1>1, <1>6
  <1> QED
    BY <1>1, <1>8, <1>15, <1>16, <1>17, <1>18, <1>19, DraftTyped DEF Moves, Touched

------------------------------------------------------------------------------
(* The actions that only talk.                                              *)

LEMMA AskingTalks ==
    ASSUME TypesInv,
           \/ LeaveCheckout \/ WriteToUs \/ StaleButton
           \/ \E p \in Products : ChooseProduct(p)
           \/ \E n \in Counts : ChooseSpoons(n)
           \/ \E yes \in BOOLEAN : ChooseVideo(yes)
           \/ GiveComment \/ FinishTooEarly \/ CartAdd
           \/ ManualPickupProvider \/ ManualPickupAddress \/ ReceiveName \/ ReceivePhone
    PROVE  \E c \in Conv : Answer(c, db)
  <1>1. conv \in Conv
    BY DEF TypesInv
  <1>2. {"contact", "comment", "avoid_colors", "pickup", "pickup_manual", "recipient_phone",
         "recipient_email"} \subseteq Steps
    BY DEF Steps
  <1>3. \A s \in Steps : [conv EXCEPT !.step = s] \in Conv
    BY <1>1, Fields, Nothing
  <1>4. ASSUME NEW p \in Products
        PROVE  [conv EXCEPT !.product = p, !.spoons = IF conv.product = p THEN @ ELSE None] \in Conv
    BY <1>1 DEF Conv, SomeProduct, SomeCount
  <1>5. ASSUME NEW n \in Counts
        PROVE  [conv EXCEPT !.spoons = n] \in Conv
    BY <1>1 DEF Conv, SomeCount
  <1>6. ASSUME NEW yes \in BOOLEAN
        PROVE  [conv EXCEPT !.video = yes, !.step = "comment"] \in Conv
    BY <1>1, <1>2, Fields, Nothing
  <1>7. CASE \/ LeaveCheckout \/ WriteToUs \/ StaleButton
    BY <1>2, <1>3, <1>7, Nothing DEF LeaveCheckout, WriteToUs, StaleButton
  <1>8. CASE \E p \in Products : ChooseProduct(p)
    BY <1>4, <1>8, Screens DEF ChooseProduct
  <1>9. CASE \E n \in Counts : ChooseSpoons(n)
    BY <1>5, <1>9, Screens DEF ChooseSpoons
  <1>10. CASE \E yes \in BOOLEAN : ChooseVideo(yes)
    BY <1>6, <1>10 DEF ChooseVideo
  <1>11. CASE GiveComment \/ FinishTooEarly \/ CartAdd
    BY <1>1, <1>2, <1>3, <1>11, Screens DEF GiveComment, FinishTooEarly, CartAdd
  <1>12. CASE ManualPickupProvider \/ ManualPickupAddress \/ ReceiveName \/ ReceivePhone
    BY <1>2, <1>3, <1>12
       DEF ManualPickupProvider, ManualPickupAddress, ReceiveName, ReceivePhone
  <1> QED
    BY <1>7, <1>8, <1>9, <1>10, <1>11, <1>12

LEMMA GoingOnTalks ==
    ASSUME TypesInv,
           \/ CartNext \/ Navigate
           \/ \E i \in 1..MaxItems : CartEdit(i) \/ CartMissed(i)
           \/ \E use \in BOOLEAN : ConfirmPickup(use) \/ ConfirmRecipient(use)
    PROVE  \E c \in Conv : Answer(c, db)
  <1>1. conv \in Conv
    BY DEF TypesInv
  <1>2. {"cart", "pickup", "pickup_confirm", "recipient_name", "comment"} \subseteq Steps
    BY DEF Steps
  <1>3. \A x \in Conv : \A s \in Steps : [x EXCEPT !.step = s] \in Conv
    BY Fields, Nothing
  <1>4. CASE CartNext
    <2> DEFINE c == CASE draft.boxes = <<>> -> StartBox(conv)
                      [] draft.boxes # <<>> /\ conv.editing -> ShowSummary(conv, draft)
                      [] OTHER -> [conv EXCEPT !.step = IF draft.pickup = "point"
                                                        THEN "pickup_confirm" ELSE "pickup"]
    <2>1. c \in Conv
      BY <1>1, <1>2, <1>3, Screens
    <2>2. Answer(c, db)
      BY <1>4 DEF CartNext
    <2> QED
      BY <2>1, <2>2
  <1>5. CASE Navigate
    <2> DEFINE c == [conv EXCEPT !.editing = @ \/ conv.step = "summary"]
    <2>1. c \in Conv
      <3>1. (conv.editing \/ conv.step = "summary") \in BOOLEAN
        BY Zenon
      <3> QED
        BY <1>1, <3>1 DEF Conv
    <2>2. \/ Answer(ShowProduct(c), db) \/ Answer(ShowSpoons(c), db)
          \/ Answer(ShowVideo(c), db) \/ Answer(ShowCart(NoBox(c), draft), db)
          \/ \E s \in Steps : Answer([c EXCEPT !.step = s], db)
      BY <1>2, <1>5 DEF Navigate
    <2> HIDE DEF c
    <2>3. /\ ShowProduct(c) \in Conv /\ ShowSpoons(c) \in Conv /\ ShowVideo(c) \in Conv
          /\ ShowCart(NoBox(c), draft) \in Conv
      BY <2>1, Screens
    <2> QED
      BY <1>3, <2>1, <2>2, <2>3
  <1>6. ASSUME NEW i \in 1..MaxItems, CartEdit(i) \/ CartMissed(i)
        PROVE  \E c \in Conv : Answer(c, db)
    <2>1. CASE CartMissed(i)
      BY <1>1, <1>2, <1>3, <2>1 DEF CartMissed
    <2>2. CASE CartEdit(i)
      <3> DEFINE box == draft.boxes[i]
                 c == [conv EXCEPT !.edit = i, !.product = box.choice[1],
                                   !.spoons = box.choice[2], !.video = box.video]
      <3>1. Current /\ i \in DOMAIN draft.boxes /\ Answer(ShowProduct(c), db)
        BY <2>2 DEF CartEdit, On
      <3>2. box \in Box
        BY <3>1, DraftTyped DEF BoxesOK
      <3>3. /\ box.choice[1] \in SomeProduct /\ box.choice[2] \in SomeCount
            /\ box.video \in BOOLEAN /\ i \in ItemIds
        BY <3>2 DEF Box, SomeProduct, SomeCount, Products, Counts, ItemIds
      <3>4. c \in Conv
        BY <1>1, <3>3, Fields, Nothing, ZenonT(30)
      <3> QED
        BY <3>1, <3>4, Screens
    <2> QED
      BY <1>6, <2>1, <2>2
  <1>7. ASSUME NEW use \in BOOLEAN, ConfirmPickup(use) \/ ConfirmRecipient(use)
        PROVE  \E c \in Conv : Answer(c, db)
    <2>1. AfterPickup(conv, draft) \in Conv /\ ShowSummary(conv, draft) \in Conv
      BY <1>1, Screens
    <2> QED
      BY <1>1, <1>2, <1>3, <1>7, <2>1 DEF ConfirmPickup, ConfirmRecipient
  <1> QED
    BY <1>4, <1>5, <1>6, <1>7

------------------------------------------------------------------------------
LEMMA NextMoves ==
    ASSUME TypesInv, [Next]_vars
    PROVE  Moves
  <1>1. CASE \E c \in Conv : Answer(c, db)
    BY <1>1, TalkMoves
  <1>2. CASE StartCheckout \/ AcceptConsent \/ Restart
    BY <1>2, BeginningMoves
  <1>3. CASE CancelCheckout \/ DeleteStaleDraft \/ ShopChanges
    BY <1>3, CancelMoves
  <1>4. CASE Continue \/ FinishBox \/ EditRefusedHalfway \/ Pay
    BY <1>4, ContinueMoves, FinishMoves, RefusedEditMoves, PayMoves
  <1>5. CASE \E i \in 1..MaxItems : CartRemove(i)
    BY <1>5, RemoveMoves
  <1>6. CASE ChoosePickupPoint \/ ReceiveManualAddress
    <2> DEFINE here == [conv EXCEPT !.step = "pickup"]
    <2>1. PICK place \in Places, c \in {conv, here} :
              Current /\ AnswerOrOutage(AfterPickup(c, SetPickup(place)), With(SetPickup(place)))
      BY <1>6 DEF ChoosePickupPoint, ReceiveManualAddress, On, AnswerOrOutage, Places
    <2>2. conv \in Conv /\ here \in Conv
      <3>1. "pickup" \in Steps
        BY DEF Steps
      <3> QED
        BY <3>1, Fields, Nothing DEF TypesInv
    <2>3. AfterPickup(c, SetPickup(place)) \in Conv
      BY <2>2, Screens
    <2> QED
      BY <2>1, <2>3, PickupMoves
  <1>7. CASE \E keep \in BOOLEAN : SaveRecipient(keep)
    BY <1>7, RecipientMoves
  <1>8. CASE UNCHANGED vars
    BY <1>8 DEF vars, TypesInv, CheckoutInv, ShopInv, RowsInv, Typed, Fine, Shop, Moves, Touched
  <1> QED
    BY <1>1, <1>2, <1>3, <1>4, <1>5, <1>6, <1>7, <1>8, AskingTalks, GoingOnTalks
       DEF Next, Customer

LEMMA InitTypes == Init => TypesInv
  <1> SUFFICES ASSUME Init PROVE TypesInv
    OBVIOUS
  <1>1. CheckoutInv
    BY CheckoutInit
  <1>2. conv \in Conv
    BY Nothing DEF Init
  <1>3. Typed(db)
    BY <1>1, BoundsAssumption DEF Init, Typed, Fine
  <1>4. Shop
    BY DEF Init, Shop
  <1> QED
    BY <1>1, <1>2, <1>3, <1>4 DEF TypesInv

LEMMA TypesInvariant == CheckoutSpec => []TypesInv
  <1>1. TypesInv /\ [Next]_vars => TypesInv'
    BY NextMoves DEF Moves
  <1> QED
    BY <1>1, InitTypes, PTL DEF CheckoutSpec

\* Conversation, rows and shop keep their types: the box being edited, the order talked
\* about and the choices in the boxes are ones that exist (bot/handlers/checkout.py).
THEOREM CheckoutTypes == CheckoutSpec => []CheckoutOK
  <1>1. TypesInv => CheckoutOK
    BY DEF TypesInv, Typed, Shop, Conv, OrderIds, ItemIds, SomeProduct, SomeCount, CheckoutOK
  <1> QED
    BY <1>1, TypesInvariant, PTL

\* An order that is placed, or that the conversation is not about, stays as it is, whatever
\* buttons of earlier messages are pressed and whatever updates fail (_draft): only the cancel
\* button and the worker end a draft, and a new order takes its place, that of a draft with
\* boxes only if the customer asks to start anew or gives her consent.
THEOREM CheckoutStaleChangesNothing == CheckoutSpec => StaleChangesNothing
  <1> DEFINE Stale == db.order # None /\ db'.order # db.order
                          /\ (conv.order # db.order.id \/ db.order.status # "draft")
                      => \/ draft # None /\ db'.order = None /\ (CancelCheckout \/ DeleteStaleDraft)
                         \/ Begun /\ (Unfinished => AcceptConsent \/ Restart)
  <1>1. TypesInv /\ [Next]_vars => [Stale]_vars
    BY NextMoves DEF Moves, Touched, Ended
  <1> QED
    BY <1>1, TypesInvariant, PTL DEF CheckoutSpec, StaleChangesNothing

\* A pass through the steps of a box puts one box into the order, and forgets it in the same
\* step: a second tap, or a step repeated after a failure, finds none to add.
THEOREM CheckoutOneBoxPerPass == CheckoutSpec => OneBoxPerPass
  <1> DEFINE Pass == db.order # None /\ db'.order # None /\ db'.order.id = db.order.id
                         /\ DOMAIN db'.order.boxes \ DOMAIN db.order.boxes # {}
                     => conv.product # None /\ conv.edit = None /\ conv'.product = None
  <1>1. TypesInv /\ [Next]_vars => [Pass]_vars
    BY NextMoves DEF Moves, Touched
  <1> QED
    BY <1>1, TypesInvariant, PTL DEF CheckoutSpec, OneBoxPerPass

-----------------------------------------------------------------------------
(* The updates of a user, one by one. *)

Single(s) == \A i, j \in 1..Len(s) : s[i] = s[j] => i = j

\* Of a list without doubles RemoveFirst takes the one element.
LEMMA RemoveOne ==
    ASSUME NEW S, NEW s \in Seq(S), Single(s), NEW i \in 1..Len(s)
    PROVE  /\ RemoveFirst(s, s[i]) \in Seq(S)
           /\ Len(RemoveFirst(s, s[i])) = Len(s) - 1
           /\ \A k \in 1..(Len(s) - 1) :
                 RemoveFirst(s, s[i])[k] = IF k < i THEN s[k] ELSE s[k + 1]
<1> DEFINE t == RemoveFirst(s, s[i])
           a == SubSeq(s, 1, i - 1)
           b == SubSeq(s, i + 1, Len(s))
<1>1. Len(s) \in Nat /\ i \in Nat /\ 1 <= i /\ i <= Len(s)
  OBVIOUS
<1>2. {k \in 1..Len(s) : s[k] = s[i]} = {i}
  BY DEF Single
<1>3. SelectInSeq(s, LAMBDA v : v = s[i]) = i
  <2>1. Min({i}) = i
    BY <1>1 DEF Min
  <2> QED BY <1>2, <2>1 DEF SelectInSeq
<1>4. t = a \o b
  BY <1>3 DEF RemoveFirst, RemoveAt
<1>5. /\ a \in Seq(S) /\ Len(a) = i - 1
      /\ \A k \in 1..(i - 1) : a[k] = s[k]
  BY <1>1
<1>6. /\ b \in Seq(S) /\ Len(b) = Len(s) - i
      /\ \A k \in 1..(Len(s) - i) : b[k] = s[k + i]
  BY <1>1
<1> HIDE DEF a, b
<1>7. /\ a \o b \in Seq(S) /\ Len(a \o b) = Len(s) - 1
      /\ \A k \in 1..(Len(s) - 1) : (a \o b)[k] = IF k <= i - 1 THEN a[k] ELSE b[k - (i - 1)]
  <2>1. Len(a) + Len(b) = Len(s) - 1
    BY <1>1, <1>5, <1>6
  <2>2. /\ a \o b \in Seq(S) /\ Len(a \o b) = Len(a) + Len(b)
        /\ \A k \in 1..(Len(a) + Len(b)) :
              (a \o b)[k] = IF k <= Len(a) THEN a[k] ELSE b[k - Len(a)]
    BY <1>5, <1>6, ConcatProperties
  <2> QED BY <1>5, <2>1, <2>2
<1>8. ASSUME NEW k \in 1..(Len(s) - 1) PROVE (a \o b)[k] = IF k < i THEN s[k] ELSE s[k + 1]
  <2>1. CASE k < i
    BY <1>1, <1>5, <1>7, <2>1
  <2>2. CASE ~(k < i)
    <3>1. k - (i - 1) \in 1..(Len(s) - i) /\ (k - (i - 1)) + i = k + 1 /\ ~(k <= i - 1)
      BY <1>1, <2>2
    <3> QED BY <1>6, <1>7, <2>2, <3>1
  <2> QED BY <2>1, <2>2
<1> QED BY <1>4, <1>7, <1>8

\* What is left has the rest, without doubles.
LEMMA RemovedRest ==
    ASSUME NEW S, NEW s \in Seq(S), Single(s), NEW u \in Range(s)
    PROVE  /\ RemoveFirst(s, u) \in Seq(S)
           /\ Len(RemoveFirst(s, u)) = Len(s) - 1
           /\ Single(RemoveFirst(s, u))
           /\ Range(RemoveFirst(s, u)) = Range(s) \ {u}
<1>1. Range(s) = {s[i] : i \in 1..Len(s)}
  BY RangeEquality
<1>2. PICK i \in 1..Len(s) : u = s[i]
  BY <1>1
<1>3. PICK t : t = RemoveFirst(s, u)
  OBVIOUS
<1>4. /\ t \in Seq(S) /\ Len(t) = Len(s) - 1
      /\ \A k \in 1..(Len(s) - 1) : t[k] = IF k < i THEN s[k] ELSE s[k + 1]
  BY <1>2, <1>3, RemoveOne
<1>5. Len(s) \in Nat \ {0} /\ i \in Nat
  BY <1>2
<1>6. Range(t) = {t[k] : k \in 1..Len(t)}
  BY <1>4, RangeEquality
<1>7. Single(t)
  <2> SUFFICES ASSUME NEW k \in 1..(Len(s) - 1), NEW l \in 1..(Len(s) - 1), t[k] = t[l]
               PROVE  k = l
    BY <1>4 DEF Single
  <2>1. \A m \in 1..(Len(s) - 1) : m \in 1..Len(s) /\ m + 1 \in 1..Len(s)
    BY <1>5
  <2>2. CASE k < i /\ l < i
    BY <1>4, <2>1, <2>2 DEF Single
  <2>3. CASE k < i /\ ~(l < i)
    <3>1. s[k] = s[l + 1]
      BY <1>4, <2>3
    <3>2. k = l + 1
      BY <2>1, <3>1 DEF Single
    <3> QED BY <1>5, <2>3, <3>2
  <2>4. CASE ~(k < i) /\ l < i
    <3>1. s[k + 1] = s[l]
      BY <1>4, <2>4
    <3>2. k + 1 = l
      BY <2>1, <3>1 DEF Single
    <3> QED BY <1>5, <2>4, <3>2
  <2>5. CASE ~(k < i) /\ ~(l < i)
    <3>1. s[k + 1] = s[l + 1]
      BY <1>4, <2>5
    <3>2. k + 1 = l + 1
      BY <2>1, <3>1 DEF Single
    <3> QED BY <3>2
  <2> QED BY <2>2, <2>3, <2>4, <2>5
<1>8. ASSUME NEW v \in Range(t) PROVE v \in Range(s) \ {u}
  <2>1. PICK k \in 1..(Len(s) - 1) : v = t[k]
    BY <1>4, <1>6
  <2>2. PICK m \in 1..Len(s) : v = s[m] /\ m # i
    <3>1. CASE k < i
      BY <1>4, <1>5, <2>1, <3>1
    <3>2. CASE ~(k < i)
      <4>1. k + 1 \in 1..Len(s) /\ k + 1 # i /\ v = s[k + 1]
        BY <1>2, <1>4, <1>5, <2>1, <3>2
      <4> QED BY <4>1
    <3> QED BY <3>1, <3>2
  <2> QED BY <1>1, <1>2, <2>2 DEF Single
<1>9. ASSUME NEW v \in Range(s) \ {u} PROVE v \in Range(t)
  <2>1. PICK m \in 1..Len(s) : v = s[m] /\ m # i
    BY <1>1, <1>2
  <2>2. CASE m < i
    <3>1. m \in 1..(Len(s) - 1) /\ t[m] = v
      BY <1>2, <1>4, <1>5, <2>1, <2>2
    <3> QED BY <1>4, <1>6, <3>1
  <2>3. CASE i < m
    <3>1. m - 1 \in 1..(Len(s) - 1) /\ ~(m - 1 < i) /\ (m - 1) + 1 = m
      BY <1>2, <1>5, <2>1, <2>3
    <3>2. t[m - 1] = v
      BY <1>4, <2>1, <3>1
    <3> QED BY <1>4, <1>6, <3>1, <3>2
  <2> QED BY <1>2, <1>5, <2>1, <2>2, <2>3
<1> QED BY <1>3, <1>4, <1>7, <1>8, <1>9

\* The first of a list is taken.
LEMMA RemoveHead ==
    ASSUME NEW S, NEW s \in Seq(S), Single(s), s # <<>>
    PROVE  RemoveFirst(s, Head(s)) = Tail(s) /\ Head(s) \in Range(s)
<1>1. /\ Head(s) = s[1] /\ Tail(s) \in Seq(S) /\ Len(Tail(s)) = Len(s) - 1
      /\ \A i \in 1..Len(Tail(s)) : Tail(s)[i] = s[i + 1]
  BY HeadTailProperties
<1>2. Len(s) \in Nat /\ Len(s) # 0 /\ 1 \in 1..Len(s)
  BY EmptySeq
<1>3. PICK t : t = RemoveFirst(s, s[1])
  OBVIOUS
<1>4. /\ t \in Seq(S) /\ Len(t) = Len(s) - 1
      /\ \A k \in 1..(Len(s) - 1) : t[k] = IF k < 1 THEN s[k] ELSE s[k + 1]
  BY <1>2, <1>3, RemoveOne
<1>5. PICK r : r = Tail(s)
  OBVIOUS
<1>6. r \in Seq(S) /\ Len(r) = Len(t) /\ \A i \in 1..Len(t) : t[i] = r[i]
  BY <1>1, <1>2, <1>4, <1>5
<1>7. t = r
  BY <1>4, <1>6, SeqEqual
<1>8. Head(s) \in Range(s)
  BY <1>1, <1>2, RangeEquality
<1> QED BY <1>1, <1>3, <1>5, <1>7, <1>8

\* One of those after the first is taken.
LEMMA RemoveLater ==
    ASSUME NEW S, NEW h \in S, NEW w \in Seq(S), Single(<<h>> \o w), NEW u \in Range(w)
    PROVE  RemoveFirst(<<h>> \o w, u) = <<h>> \o RemoveFirst(w, u)
<1>1. PICK one : one = <<h>>
  OBVIOUS
<1>2. one \in Seq(S) /\ Len(one) = 1 /\ one[1] = h
  BY <1>1
<1>3. PICK s : s = one \o w
  OBVIOUS
<1>4. /\ s \in Seq(S) /\ Len(s) = 1 + Len(w)
      /\ \A k \in 1..(1 + Len(w)) : s[k] = IF k <= 1 THEN one[k] ELSE w[k - 1]
  <2>1. /\ s \in Seq(S) /\ Len(s) = Len(one) + Len(w)
        /\ \A k \in 1..(Len(one) + Len(w)) :
              s[k] = IF k <= Len(one) THEN one[k] ELSE w[k - Len(one)]
    BY <1>2, <1>3, ConcatProperties
  <2> QED BY <1>2, <2>1
<1>5. Len(w) \in Nat
  OBVIOUS
<1>6. Single(s)
  BY <1>1, <1>3
<1>7. \A k \in 1..Len(w) : k + 1 \in 1..(1 + Len(w)) /\ s[k + 1] = w[k]
  BY <1>4, <1>5
<1>8. Single(w)
  <2> SUFFICES ASSUME NEW k \in 1..Len(w), NEW l \in 1..Len(w), w[k] = w[l] PROVE k = l
    BY DEF Single
  <2>1. s[k + 1] = s[l + 1]
    BY <1>7
  <2>2. k + 1 \in 1..Len(s) /\ l + 1 \in 1..Len(s)
    BY <1>4, <1>7
  <2>3. k + 1 = l + 1
    BY <1>6, <2>1, <2>2 DEF Single
  <2> QED BY <2>3
<1>9. PICK i \in 1..Len(w) : u = w[i]
  BY RangeEquality
<1>10. u = s[i + 1] /\ i + 1 \in 1..Len(s)
  BY <1>4, <1>7, <1>9
<1>11. PICK t : t = RemoveFirst(s, u)
  OBVIOUS
<1>12. /\ t \in Seq(S) /\ Len(t) = Len(w)
       /\ \A k \in 1..Len(w) : t[k] = IF k < i + 1 THEN s[k] ELSE s[k + 1]
  <2>1. Len(s) - 1 = Len(w)
    BY <1>4, <1>5
  <2> QED BY <1>4, <1>6, <1>10, <1>11, <2>1, RemoveOne
<1>13. PICK v : v = RemoveFirst(w, u)
  OBVIOUS
<1>14. /\ v \in Seq(S) /\ Len(v) = Len(w) - 1
       /\ \A k \in 1..(Len(w) - 1) : v[k] = IF k < i THEN w[k] ELSE w[k + 1]
  BY <1>8, <1>9, <1>13, RemoveOne
<1>15. PICK r : r = one \o v
  OBVIOUS
<1>16. /\ r \in Seq(S) /\ Len(r) = Len(w)
       /\ \A k \in 1..Len(w) : r[k] = IF k <= 1 THEN one[k] ELSE v[k - 1]
  <2>1. 1 + Len(v) = Len(w)
    BY <1>5, <1>14
  <2>2. /\ r \in Seq(S) /\ Len(r) = Len(one) + Len(v)
        /\ \A k \in 1..(Len(one) + Len(v)) :
              r[k] = IF k <= Len(one) THEN one[k] ELSE v[k - Len(one)]
    BY <1>2, <1>14, <1>15, ConcatProperties, ZenonT(30)
  <2> QED BY <1>2, <2>1, <2>2
<1>17. ASSUME NEW k \in 1..Len(w) PROVE t[k] = r[k]
  <2>1. CASE k = 1
    BY <1>4, <1>5, <1>9, <1>12, <1>16, <2>1
  <2>2. CASE k # 1 /\ k < i + 1
    <3>1. k - 1 \in 1..(Len(w) - 1) /\ k - 1 < i /\ ~(k <= 1) /\ k \in 1..(1 + Len(w))
      BY <1>5, <1>9, <2>2
    <3>2. t[k] = w[k - 1]
      BY <1>4, <1>12, <2>2, <3>1
    <3>3. r[k] = w[k - 1]
      BY <1>14, <1>16, <3>1
    <3> QED BY <3>2, <3>3
  <2>3. CASE k # 1 /\ ~(k < i + 1)
    <3>1. /\ k - 1 \in 1..(Len(w) - 1) /\ ~(k - 1 < i) /\ ~(k <= 1)
          /\ (k - 1) + 1 = k
      BY <1>5, <1>9, <2>3
    <3>2. t[k] = w[k]
      BY <1>7, <1>12, <2>3
    <3>3. r[k] = w[k]
      BY <1>14, <1>16, <3>1
    <3> QED BY <3>2, <3>3
  <2> QED BY <2>1, <2>2, <2>3
<1>18. t = r
  BY <1>12, <1>16, <1>17, SeqEqual
<1> QED BY <1>1, <1>3, <1>11, <1>13, <1>15, <1>18

\* Nothing is taken of a list that has it not.
LEMMA RemoveNone ==
    ASSUME NEW S, NEW s \in Seq(S), NEW u, u \notin Range(s)
    PROVE  RemoveFirst(s, u) = s
<1>1. \A i \in 1..Len(s) : s[i] # u
  BY RangeEquality
<1> QED BY <1>1 DEF RemoveFirst

SerialTyped ==
    /\ locks \in [Users -> Updates \cup {Gone}]
    /\ users \in [Updates -> Nat]
    /\ holder \in [Updates -> Updates \cup {Gone}]
    /\ waiters \in [Updates -> Seq(Updates)]
    /\ entry \in [Updates -> Updates \cup {Gone}]
    /\ seen \in [Updates -> Seq(Updates)]
    /\ conversation \in [Users -> Seq(Updates)]
    /\ arrived \in [Users -> Seq(Updates)]

\* Who has the lock of an entry and who waits for it, in order.
AtLock(e) == IF holder[e] = Gone THEN waiters[e] ELSE <<holder[e]>> \o waiters[e]

\* An entry of the dictionary is of that user, counts the updates under way
\* and has them in the order in which they came; its holder has read the
\* conversation as it is.
Entered(x) ==
    /\ UserOf[locks[x]] = x /\ entry[locks[x]] # Gone
    /\ arrived[x] = AtLock(locks[x]) /\ arrived[x] # <<>>
    /\ users[locks[x]] = Len(arrived[x])
    /\ holder[locks[x]] # Gone => seen[holder[locks[x]]] = conversation[x]

Served(x) ==
    /\ IF locks[x] = Gone THEN arrived[x] = <<>> ELSE Entered(x)
    /\ Single(arrived[x])
    /\ \A u \in Range(arrived[x]) : UserOf[u] = x /\ entry[u] = locks[x]
    /\ \A u \in Range(conversation[x]) : entry[u] # Gone /\ u \notin Range(arrived[x])

\* An entry that is not in the dictionary has nobody.
Vacant(e) == locks[UserOf[e]] # e => users[e] = 0 /\ holder[e] = Gone /\ waiters[e] = <<>>

SerialInv ==
    /\ SerialTyped
    /\ \A x \in Users : Served(x)
    /\ \A e \in Updates : Vacant(e)

LEMMA HeadOn ==
    ASSUME NEW S, NEW h \in S, NEW w \in Seq(S)
    PROVE  /\ <<h>> \o w \in Seq(S) /\ <<h>> \o w # <<>>
           /\ Len(<<h>> \o w) = Len(w) + 1
           /\ Head(<<h>> \o w) = h /\ Tail(<<h>> \o w) = w
           /\ Range(<<h>> \o w) = {h} \cup Range(w)
           /\ Single(<<h>> \o w) => h \notin Range(w)
<1>1. PICK one : one = <<h>>
  OBVIOUS
<1>2. one \in Seq(S) /\ Len(one) = 1 /\ one[1] = h
  BY <1>1
<1>3. PICK s : s = one \o w
  OBVIOUS
<1>4. Len(w) \in Nat
  OBVIOUS
<1>5. /\ s \in Seq(S) /\ Len(s) = Len(w) + 1 /\ s[1] = h
      /\ \A k \in 1..Len(w) : k + 1 \in 1..Len(s) /\ s[k + 1] = w[k]
  <2>1. /\ s \in Seq(S) /\ Len(s) = Len(one) + Len(w)
        /\ \A k \in 1..(Len(one) + Len(w)) :
              s[k] = IF k <= Len(one) THEN one[k] ELSE w[k - Len(one)]
    BY <1>2, <1>3, ConcatProperties
  <2>2. \A k \in 1..Len(w) : k + 1 \in 1..(1 + Len(w)) /\ ~(k + 1 <= 1) /\ (k + 1) - 1 = k
    BY <1>4
  <2>3. 1 \in 1..(1 + Len(w)) /\ 1 <= 1 /\ 1 + Len(w) = Len(w) + 1
    BY <1>4
  <2> QED BY <1>2, <2>1, <2>2, <2>3
<1>6. s # <<>>
  BY <1>4, <1>5
<1>7. PICK t : t = Tail(s)
  OBVIOUS
<1>8. /\ Head(s) = s[1] /\ t \in Seq(S) /\ Len(t) = Len(s) - 1
      /\ \A i \in 1..Len(t) : t[i] = s[i + 1]
  BY <1>5, <1>6, <1>7, HeadTailProperties
<1>9. Len(t) = Len(w) /\ \A i \in 1..Len(t) : t[i] = w[i]
  BY <1>4, <1>5, <1>8
<1>10. t = w
  BY <1>8, <1>9, SeqEqual
<1>11. one \in Seq(S) /\ Range(one) = {h}
  BY <1>2, RangeEquality
<1>12. Range(s) = {h} \cup Range(w)
  BY <1>3, <1>11, RangeConcatenation
<1>13. ASSUME Single(s), h \in Range(w) PROVE FALSE
  <2>1. PICK i \in 1..Len(w) : h = w[i]
    BY <1>13, RangeEquality
  <2>2. s[i + 1] = s[1] /\ i + 1 \in 1..Len(s) /\ 1 \in 1..Len(s) /\ i + 1 # 1
    BY <1>4, <1>5, <2>1
  <2> QED BY <1>13, <2>2 DEF Single
<1> QED BY <1>1, <1>3, <1>5, <1>6, <1>7, <1>8, <1>10, <1>12, <1>13

LEMMA HeadAndTail ==
    ASSUME NEW S, NEW s \in Seq(S), s # <<>>
    PROVE  /\ Head(s) \in S /\ Tail(s) \in Seq(S) /\ <<Head(s)>> \o Tail(s) = s
<1>1. PICK h : h = Head(s)
  OBVIOUS
<1>2. PICK t : t = Tail(s)
  OBVIOUS
<1>3. /\ h \in S /\ h = s[1] /\ t \in Seq(S) /\ Len(t) = Len(s) - 1
      /\ \A i \in 1..Len(t) : t[i] = s[i + 1]
  BY <1>1, <1>2, HeadTailProperties
<1>4. PICK one : one = <<h>>
  OBVIOUS
<1>5. one \in Seq(S) /\ Len(one) = 1 /\ one[1] = h
  BY <1>3, <1>4
<1>6. PICK r : r = one \o t
  OBVIOUS
<1>7. /\ r \in Seq(S) /\ Len(r) = Len(one) + Len(t)
      /\ \A k \in 1..(Len(one) + Len(t)) :
            r[k] = IF k <= Len(one) THEN one[k] ELSE t[k - Len(one)]
  <2>1. one \in Seq(S) /\ t \in Seq(S)
    BY <1>3, <1>5
  <2> QED BY <1>6, <2>1, ConcatProperties
<1>8. Len(s) \in Nat /\ Len(s) # 0
  BY EmptySeq
<1>9. Len(r) = Len(s)
  BY <1>3, <1>5, <1>7, <1>8
<1>10. ASSUME NEW k \in 1..Len(r) PROVE r[k] = s[k]
  <2>1. CASE k = 1
    BY <1>3, <1>5, <1>7, <1>8, <2>1
  <2>2. CASE k # 1
    <3>1. k - 1 \in 1..Len(t) /\ (k - 1) + 1 = k /\ ~(k <= 1)
      BY <1>3, <1>8, <1>9, <2>2
    <3> QED BY <1>3, <1>5, <1>7, <1>9, <3>1
  <2> QED BY <2>1, <2>2
<1>11. r = s
  BY <1>7, <1>9, <1>10, SeqEqual
<1> QED BY <1>1, <1>2, <1>3, <1>4, <1>6, <1>11

LEMMA Joined ==
    ASSUME NEW S, NEW s \in Seq(S), Single(s), NEW u \in S, u \notin Range(s)
    PROVE  /\ Append(s, u) \in Seq(S) /\ Append(s, u) # <<>>
           /\ Len(Append(s, u)) = Len(s) + 1
           /\ Range(Append(s, u)) = Range(s) \cup {u}
           /\ Single(Append(s, u))
<1>1. PICK t : t = Append(s, u)
  OBVIOUS
<1>2. /\ t \in Seq(S) /\ Len(t) = Len(s) + 1 /\ t[Len(s) + 1] = u
      /\ \A i \in 1..Len(s) : t[i] = s[i]
  BY <1>1, AppendProperties
<1>3. Len(s) \in Nat
  OBVIOUS
<1>4. Range(t) = {t[i] : i \in 1..Len(t)} /\ Range(s) = {s[i] : i \in 1..Len(s)}
  BY <1>2, RangeEquality
<1>5. \A i \in 1..Len(t) : i \in 1..Len(s) \/ i = Len(s) + 1
  BY <1>2, <1>3
<1>6. \A i \in 1..Len(s) : i \in 1..Len(t)
  BY <1>2, <1>3
<1>7. Len(s) + 1 \in 1..Len(t)
  BY <1>2, <1>3
<1>8. Range(t) = Range(s) \cup {u}
  BY <1>2, <1>4, <1>5, <1>6, <1>7
<1>9. Single(t)
  BY <1>2, <1>4, <1>5 DEF Single
<1>10. t # <<>>
  BY <1>2, <1>3
<1> QED BY <1>1, <1>2, <1>8, <1>9, <1>10

LEMMA EmptyLists ==
    ASSUME NEW S
    PROVE /\ <<>> \in Seq(S) /\ Single(<<>>) /\ Range(<<>>) = {} /\ Len(<<>>) = 0
          /\ \A s \in Seq(S) : Len(s) = 0 => s = <<>>
BY EmptySeq DEF Single, Range

\* The updates at a lock: the holder first.
LEMMA AtLockOrder ==
    ASSUME SerialTyped, NEW e \in Updates
    PROVE  /\ AtLock(e) \in Seq(Updates)
           /\ holder[e] # Gone =>
                /\ Head(AtLock(e)) = holder[e] /\ Tail(AtLock(e)) = waiters[e]
                /\ Range(AtLock(e)) = {holder[e]} \cup Range(waiters[e])
                /\ AtLock(e) # <<>>
                /\ Single(AtLock(e)) => holder[e] \notin Range(waiters[e])
           /\ holder[e] = Gone => AtLock(e) = waiters[e]
<1>1. waiters[e] \in Seq(Updates) /\ (holder[e] # Gone => holder[e] \in Updates)
  BY DEF SerialTyped
<1> QED BY <1>1, HeadOn DEF AtLock

\* Whoever is at a lock is at the lock of the entry of its user.
LEMMA AtOneLock ==
    ASSUME SerialInv, NEW e \in Updates, NEW u \in Updates,
           holder[e] = u \/ u \in Range(waiters[e])
    PROVE  /\ UserOf[u] = UserOf[e] /\ locks[UserOf[e]] = e /\ entry[u] = e
           /\ u \in Range(arrived[UserOf[e]])
           /\ UserOf[e] \in Users /\ Entered(UserOf[e])
           /\ Single(arrived[UserOf[e]])
<1>1. u # Gone /\ UserOf[e] \in Users /\ e # Gone /\ SerialTyped
  BY UpdatesAssumption DEF SerialInv
<1>2. holder[e] = Gone => waiters[e] # <<>>
  BY <1>1, EmptyLists
<1>3. locks[UserOf[e]] = e
  BY <1>1, <1>2 DEF SerialInv, Vacant
<1>4. Served(UserOf[e])
  BY <1>1 DEF SerialInv
<1>5. Entered(UserOf[e])
  BY <1>1, <1>3, <1>4 DEF Served
<1>6. u \in Range(arrived[UserOf[e]])
  BY <1>1, <1>3, <1>5, AtLockOrder DEF Entered
<1> QED BY <1>1, <1>3, <1>4, <1>5, <1>6 DEF Served

\* What a step leaves alone.
LEMMA OthersServed ==
    ASSUME SerialInv, NEW y \in Users,
           locks'[y] = locks[y] /\ arrived'[y] = arrived[y] /\ conversation'[y] = conversation[y],
           \A v \in Updates : UserOf[v] = y =>
               /\ users'[v] = users[v] /\ holder'[v] = holder[v] /\ waiters'[v] = waiters[v]
               /\ seen'[v] = seen[v],
           \A v \in Updates : entry[v] # Gone => entry'[v] = entry[v]
    PROVE  Served(y)'
<1>1. SerialTyped /\ Served(y) /\ Gone \notin Updates
  BY UpdatesAssumption DEF SerialInv
<1>2. /\ Single(arrived'[y])
      /\ \A u \in Range(arrived[y]) : u \in Updates
      /\ \A u \in Range(conversation[y]) : u \in Updates
  <2>1. arrived[y] \in Seq(Updates) /\ conversation[y] \in Seq(Updates)
    BY <1>1 DEF SerialTyped
  <2> QED BY <1>1, <2>1, RangeEquality DEF Served
<1>3. CASE locks[y] = Gone
  <2>1. arrived[y] = <<>> /\ Range(arrived[y]) = {}
    BY <1>1, <1>3, EmptyLists DEF Served
  <2> QED BY <1>1, <1>2, <1>3, <2>1 DEF Served
<1>4. CASE locks[y] # Gone
  <2>1. PICK e \in Updates : e = locks[y]
    BY <1>1, <1>4 DEF SerialTyped
  <2>2. Entered(y) /\ UserOf[e] = y
    BY <1>1, <1>4, <2>1 DEF Served, Entered
  <2>3. users'[e] = users[e] /\ holder'[e] = holder[e] /\ waiters'[e] = waiters[e]
    BY <2>2
  <2>4. AtLock(e)' = AtLock(e)
    BY <2>3 DEF AtLock
  <2>5. holder[e] # Gone => seen'[holder[e]] = seen[holder[e]]
    <3>1. SUFFICES ASSUME holder[e] # Gone PROVE seen'[holder[e]] = seen[holder[e]]
      OBVIOUS
    <3>2. PICK h \in Updates : h = holder[e]
      BY <1>1, <3>1 DEF SerialTyped
    <3>3. UserOf[h] = y
      BY <2>2, <3>2, AtOneLock
    <3> QED BY <3>2, <3>3
  <2>6. Entered(y)'
    BY <2>1, <2>2, <2>3, <2>4, <2>5 DEF Entered
  <2>7. \A u \in Range(arrived[y]) : UserOf[u] = y /\ entry'[u] = locks[y]
    BY <1>1, <1>2, <1>4 DEF Served
  <2>8. \A u \in Range(conversation[y]) : entry'[u] # Gone /\ u \notin Range(arrived[y])
    BY <1>1, <1>2 DEF Served
  <2> QED BY <1>2, <1>4, <2>6, <2>7, <2>8 DEF Served
<1> QED BY <1>3, <1>4

LEMMA ArriveKeeps == ASSUME SerialInv, NEW u \in Updates, Arrive(u) PROVE SerialInv'
<1>1. PICK x : x = UserOf[u]
  OBVIOUS
<1>2. PICK e : e = IF locks[x] = Gone THEN u ELSE locks[x]
  OBVIOUS
<1>3. /\ entry[u] = Gone
      /\ locks' = [locks EXCEPT ![x] = e]
      /\ users' = [users EXCEPT ![e] = users[e] + 1]
      /\ entry' = [entry EXCEPT ![u] = e]
      /\ waiters' = [waiters EXCEPT ![e] = Append(waiters[e], u)]
      /\ arrived' = [arrived EXCEPT ![x] = Append(arrived[x], u)]
      /\ UNCHANGED <<holder, seen, conversation>>
  BY <1>1, <1>2 DEF Arrive
<1>4. SerialTyped /\ x \in Users /\ Gone \notin Updates /\ Served(x)
  BY <1>1, UpdatesAssumption DEF SerialInv
<1>5. e \in Updates /\ UserOf[e] = x
  BY <1>1, <1>2, <1>4 DEF SerialTyped, Served, Entered
<1>6. /\ arrived[x] \in Seq(Updates) /\ waiters[e] \in Seq(Updates) /\ users[e] \in Nat
      /\ conversation[x] \in Seq(Updates)
  BY <1>4, <1>5 DEF SerialTyped
<1>7. u \notin Range(arrived[x]) /\ Single(arrived[x]) /\ u \notin Range(conversation[x])
  <2>1. CASE locks[x] = Gone
    BY <1>3, <1>4, <2>1, EmptyLists DEF Served
  <2>2. CASE locks[x] # Gone
    BY <1>3, <1>4, <2>2 DEF Served
  <2> QED BY <2>1, <2>2
<1>8. /\ Append(arrived[x], u) \in Seq(Updates) /\ Append(arrived[x], u) # <<>>
      /\ Len(Append(arrived[x], u)) = Len(arrived[x]) + 1
      /\ Range(Append(arrived[x], u)) = Range(arrived[x]) \cup {u}
      /\ Single(Append(arrived[x], u))
  BY <1>6, <1>7, Joined
<1>9. /\ AtLock(e) = arrived[x] /\ users[e] = Len(arrived[x])
      /\ holder[e] # Gone => seen[holder[e]] = conversation[x]
  <2>1. CASE locks[x] = Gone
    <3>1. users[e] = 0 /\ holder[e] = Gone /\ waiters[e] = <<>> /\ arrived[x] = <<>>
      BY <1>2, <1>4, <1>5, <2>1 DEF SerialInv, Vacant, Served
    <3> QED BY <3>1, EmptyLists DEF AtLock
  <2>2. CASE locks[x] # Gone
    BY <1>2, <1>4, <2>2 DEF Served, Entered
  <2> QED BY <2>1, <2>2
<1>10. AtLock(e)' = Append(arrived[x], u)
  <2>1. waiters'[e] = Append(waiters[e], u) /\ holder'[e] = holder[e]
    BY <1>3, <1>4, <1>5 DEF SerialTyped
  <2>2. CASE holder[e] = Gone
    BY <1>9, <2>1, <2>2 DEF AtLock
  <2>3. CASE holder[e] # Gone
    <3>1. PICK one : one = <<holder[e]>>
      OBVIOUS
    <3>2. one \in Seq(Updates)
      BY <1>4, <1>5, <2>3, <3>1 DEF SerialTyped
    <3>3. arrived[x] = one \o waiters[e] /\ AtLock(e)' = one \o Append(waiters[e], u)
      BY <1>9, <2>1, <2>3, <3>1 DEF AtLock
    <3>4. PICK l : l = <<u>>
      OBVIOUS
    <3>5. l \in Seq(Updates)
      BY <3>4
    <3>6. /\ Append(waiters[e], u) = waiters[e] \o l
          /\ Append(one \o waiters[e], u) = (one \o waiters[e]) \o l
      <4>1. one \o waiters[e] \in Seq(Updates)
        BY <1>6, <3>2, ConcatProperties
      <4> QED BY <1>6, <3>4, <4>1, AppendIsConcat
    <3>7. (one \o waiters[e]) \o l = one \o (waiters[e] \o l)
      <4>1. PICK w : w = waiters[e]
        OBVIOUS
      <4>2. w \in Seq(Updates)
        BY <1>6, <4>1
      <4>3. (one \o w) \o l = one \o (w \o l)
        BY <3>2, <3>5, <4>2, ConcatAssociative
      <4> QED BY <4>1, <4>3
    <3> QED BY <3>3, <3>6, <3>7
  <2> QED BY <2>2, <2>3
<1>11. SerialTyped'
  <2>1. Append(waiters[e], u) \in Seq(Updates)
    BY <1>6, AppendProperties
  <2>2. users[e] + 1 \in Nat
    BY <1>6
  <2>3. waiters' \in [Updates -> Seq(Updates)]
    BY <1>3, <1>4, <2>1 DEF SerialTyped
  <2>4. arrived' \in [Users -> Seq(Updates)]
    BY <1>3, <1>4, <1>8 DEF SerialTyped
  <2>5. users' \in [Updates -> Nat]
    BY <1>3, <1>4, <2>2 DEF SerialTyped
  <2>6. locks' \in [Users -> Updates \cup {Gone}] /\ entry' \in [Updates -> Updates \cup {Gone}]
    BY <1>3, <1>4, <1>5 DEF SerialTyped
  <2> QED BY <1>3, <1>4, <2>3, <2>4, <2>5, <2>6 DEF SerialTyped
<1>12. ASSUME NEW y \in Users, y # x PROVE Served(y)'
  <2>1. /\ locks'[y] = locks[y] /\ arrived'[y] = arrived[y]
        /\ conversation'[y] = conversation[y]
    BY <1>3, <1>4, <1>12 DEF SerialTyped
  <2>2. ASSUME NEW v \in Updates, UserOf[v] = y
        PROVE  /\ users'[v] = users[v] /\ holder'[v] = holder[v] /\ waiters'[v] = waiters[v]
               /\ seen'[v] = seen[v]
    BY <1>3, <1>4, <1>5, <1>12, <2>2 DEF SerialTyped
  <2>3. \A v \in Updates : entry[v] # Gone => entry'[v] = entry[v]
    BY <1>3, <1>4 DEF SerialTyped
  <2> QED BY <2>1, <2>2, <2>3, OthersServed
<1>13. Served(x)'
  <2>1. /\ locks'[x] = e /\ arrived'[x] = Append(arrived[x], u) /\ users'[e] = users[e] + 1
        /\ entry'[u] = e /\ conversation' = conversation /\ holder' = holder /\ seen' = seen
        /\ \A v \in Updates : v # u => entry'[v] = entry[v]
    BY <1>3, <1>4, <1>5 DEF SerialTyped
  <2>2. entry'[e] # Gone
    <3>1. e = u \/ entry[e] # Gone
      BY <1>2, <1>4 DEF Served, Entered
    <3> QED BY <1>3, <1>4, <1>5, <2>1, <3>1
  <2>3. Entered(x)'
    BY <1>5, <1>8, <1>9, <1>10, <2>1, <2>2 DEF Entered
  <2>4. ASSUME NEW v \in Range(arrived[x]) \cup {u} PROVE UserOf[v] = x /\ entry'[v] = e
    <3>1. CASE v = u
      BY <1>1, <2>1, <3>1
    <3>2. CASE v # u
      <4>1. v \in Range(arrived[x]) /\ v \in Updates
        BY <1>6, <2>4, <3>2, RangeEquality
      <4>2. locks[x] # Gone
        BY <1>4, <4>1, EmptyLists DEF Served
      <4> QED BY <1>2, <1>4, <2>1, <3>2, <4>1, <4>2 DEF Served
    <3> QED BY <3>1, <3>2
  <2>5. ASSUME NEW v \in Range(conversation[x])
        PROVE  entry'[v] # Gone /\ v \notin Range(arrived[x]) \cup {u}
    <3>1. v \in Updates /\ v # u
      BY <1>6, <1>7, RangeEquality
    <3> QED BY <1>4, <2>1, <3>1 DEF Served
  <2> QED BY <1>4, <1>5, <1>8, <2>1, <2>3, <2>4, <2>5 DEF Served
<1>14. ASSUME NEW v \in Updates PROVE Vacant(v)'
  <2>1. CASE v = e
    BY <1>3, <1>4, <1>5, <2>1 DEF Vacant, SerialTyped
  <2>2. CASE v # e
    <3>1. users'[v] = users[v] /\ holder'[v] = holder[v] /\ waiters'[v] = waiters[v] /\ Vacant(v)
      BY <1>3, <1>4, <1>5, <2>2 DEF SerialTyped, SerialInv
    <3>2. locks'[UserOf[v]] # v => locks[UserOf[v]] # v
      <4>1. CASE UserOf[v] = x
        BY <1>2, <1>4, <2>2, <4>1
      <4>2. CASE UserOf[v] # x
        <5>1. UserOf[v] \in Users
          BY UpdatesAssumption
        <5> QED BY <1>3, <1>4, <4>2, <5>1 DEF SerialTyped
      <4> QED BY <4>1, <4>2
    <3> QED BY <3>1, <3>2 DEF Vacant
  <2> QED BY <2>1, <2>2
<1> QED BY <1>4, <1>11, <1>12, <1>13, <1>14 DEF SerialInv

LEMMA EnterKeeps == ASSUME SerialInv, NEW u \in Updates, Enter(u) PROVE SerialInv'
<1>1. PICK e : e = entry[u]
  OBVIOUS
<1>2. /\ e # Gone /\ waiters[e] # <<>> /\ Head(waiters[e]) = u /\ holder[e] = Gone
      /\ holder' = [holder EXCEPT ![e] = u]
      /\ waiters' = [waiters EXCEPT ![e] = Tail(waiters[e])]
      /\ seen' = [seen EXCEPT ![u] = conversation[UserOf[u]]]
      /\ UNCHANGED <<locks, users, entry, conversation, arrived>>
  BY <1>1 DEF Enter
<1>3. SerialTyped /\ Gone \notin Updates /\ u # Gone
  BY UpdatesAssumption DEF SerialInv
<1>4. e \in Updates /\ waiters[e] \in Seq(Updates)
  BY <1>1, <1>2, <1>3 DEF SerialTyped
<1>5. /\ Tail(waiters[e]) \in Seq(Updates) /\ <<u>> \o Tail(waiters[e]) = waiters[e]
      /\ u \in Range(waiters[e])
  <2>1. PICK w : w = waiters[e]
    OBVIOUS
  <2>2. w \in Seq(Updates) /\ w # <<>> /\ Head(w) = u
    BY <1>2, <1>4, <2>1
  <2>3. Tail(w) \in Seq(Updates) /\ <<u>> \o Tail(w) = w
    BY <2>2, HeadAndTail
  <2>4. Range(<<u>> \o Tail(w)) = {u} \cup Range(Tail(w))
    BY <2>3, HeadOn
  <2> QED BY <2>1, <2>3, <2>4
<1>6. PICK x : x = UserOf[e]
  OBVIOUS
<1>7. /\ x \in Users /\ UserOf[u] = x /\ locks[x] = e /\ Entered(x)
      /\ UserOf \in [Updates -> Users] /\ Served(x)
  BY <1>3, <1>4, <1>5, <1>6, AtOneLock, UpdatesAssumption DEF SerialInv
<1>8. holder'[e] = u /\ waiters'[e] = Tail(waiters[e]) /\ seen'[u] = conversation[x]
  BY <1>2, <1>3, <1>4, <1>7 DEF SerialTyped
<1>9. AtLock(e)' = AtLock(e)
  BY <1>2, <1>3, <1>5, <1>8 DEF AtLock
<1>10. SerialTyped'
  <2>1. conversation[x] \in Seq(Updates)
    BY <1>3, <1>7 DEF SerialTyped
  <2>2. holder' \in [Updates -> Updates \cup {Gone}]
    BY <1>2, <1>3 DEF SerialTyped
  <2>3. waiters' \in [Updates -> Seq(Updates)]
    BY <1>2, <1>3, <1>5 DEF SerialTyped
  <2>4. seen' \in [Updates -> Seq(Updates)]
    BY <1>2, <1>3, <1>7, <2>1 DEF SerialTyped
  <2> QED BY <1>2, <1>3, <2>2, <2>3, <2>4 DEF SerialTyped
<1>11. ASSUME NEW y \in Users, y # x PROVE Served(y)'
  <2>1. /\ locks'[y] = locks[y] /\ arrived'[y] = arrived[y]
        /\ conversation'[y] = conversation[y]
    BY <1>2
  <2>2. ASSUME NEW v \in Updates, UserOf[v] = y
        PROVE  /\ users'[v] = users[v] /\ holder'[v] = holder[v] /\ waiters'[v] = waiters[v]
               /\ seen'[v] = seen[v]
    <3>1. v # e /\ v # u
      BY <1>6, <1>7, <1>11, <2>2
    <3> QED BY <1>2, <1>3, <3>1 DEF SerialTyped
  <2>3. \A v \in Updates : entry[v] # Gone => entry'[v] = entry[v]
    BY <1>2
  <2> QED BY <2>1, <2>2, <2>3, OthersServed
<1>12. Served(x)'
  <2>1. Entered(x)'
    BY <1>2, <1>7, <1>8, <1>9 DEF Entered
  <2> QED BY <1>2, <1>3, <1>4, <1>7, <2>1 DEF Served
<1>13. ASSUME NEW v \in Updates PROVE Vacant(v)'
  <2>1. CASE v = e
    BY <1>2, <1>6, <1>7, <2>1 DEF Vacant
  <2>2. CASE v # e
    <3>1. users'[v] = users[v] /\ holder'[v] = holder[v] /\ waiters'[v] = waiters[v] /\ Vacant(v)
      BY <1>2, <1>3, <2>2 DEF SerialTyped, SerialInv
    <3> QED BY <1>2, <3>1 DEF Vacant
  <2> QED BY <2>1, <2>2
<1> QED BY <1>10, <1>11, <1>12, <1>13 DEF SerialInv

\* Update u of user x is taken out of the line at entry e, which becomes r.
TakenOut(u, x, e, r) ==
    /\ x = UserOf[u] /\ x = UserOf[e] /\ e = locks[x] /\ e = entry[u]
    /\ u \in Range(arrived[x]) /\ Entered(x)
    /\ r = RemoveFirst(arrived[x], u)
    /\ r \in Seq(Updates) /\ Len(r) = Len(arrived[x]) - 1
    /\ Single(r) /\ Range(r) = Range(arrived[x]) \ {u}
    /\ arrived' = [arrived EXCEPT ![x] = r]
    /\ locks' = [locks EXCEPT ![x] = IF r = <<>> THEN Gone ELSE e]
    /\ users' = [users EXCEPT ![e] = Len(r)]
    /\ entry' = entry
    /\ \E h, w :
          /\ holder' = [holder EXCEPT ![e] = h] /\ waiters' = [waiters EXCEPT ![e] = w]
          /\ h = Gone \/ (h # u /\ h = holder[e] /\ h \in Updates)
          /\ w \in Seq(Updates)
          /\ r = IF h = Gone THEN w ELSE <<h>> \o w
    /\ Runs(u) => r = Tail(arrived[x]) /\ u = Head(arrived[x]) /\ seen[u] = conversation[x]
                  /\ holder[e] = u

\* An update that leaves is taken out of the line, wherever it stands in it.
LEMMA LineAfterLeave ==
    ASSUME SerialInv, NEW u \in Updates, Leave(u),
           Runs(u) \/ (entry[u] # Gone /\ u \in Range(waiters[entry[u]]))
    PROVE  \E x \in Users, e \in Updates, r \in Seq(Updates) : TakenOut(u, x, e, r)
<1>1. PICK e : e = entry[u]
  OBVIOUS
<1>2. SerialTyped /\ Gone \notin Updates /\ u # Gone
  BY UpdatesAssumption DEF SerialInv
<1>3. e \in Updates /\ (holder[e] = u \/ u \in Range(waiters[e])) /\ (Runs(u) <=> holder[e] = u)
  BY <1>1, <1>2 DEF SerialTyped, Runs
<1>4. PICK x : x = UserOf[e]
  OBVIOUS
<1>5. /\ x \in Users /\ UserOf[u] = x /\ locks[x] = e /\ u \in Range(arrived[x]) /\ Entered(x)
      /\ Single(arrived[x])
  BY <1>3, <1>4, AtOneLock
<1>6. PICK s : s = arrived[x]
  OBVIOUS
<1>7. PICK r : r = RemoveFirst(s, u)
  OBVIOUS
<1>8. PICK w : w = RemoveFirst(waiters[e], u)
  OBVIOUS
<1>9. PICK h : h = IF holder[e] = u THEN Gone ELSE holder[e]
  OBVIOUS
<1>10. /\ users' = [users EXCEPT ![e] = users[e] - 1]
       /\ locks' = [locks EXCEPT ![x] = IF users[e] - 1 = 0 /\ locks[x] = e THEN Gone ELSE locks[x]]
       /\ holder' = [holder EXCEPT ![e] = h]
       /\ waiters' = [waiters EXCEPT ![e] = w]
       /\ arrived' = [arrived EXCEPT ![x] = r]
       /\ entry' = entry
  BY <1>1, <1>5, <1>6, <1>7, <1>8, <1>9 DEF Leave
<1>11. /\ s \in Seq(Updates) /\ Single(s) /\ u \in Range(s) /\ s # <<>>
       /\ s = AtLock(e) /\ users[e] = Len(s) /\ waiters[e] \in Seq(Updates)
  BY <1>2, <1>3, <1>5, <1>6 DEF SerialTyped, Entered
<1>12. /\ r \in Seq(Updates) /\ Len(r) = Len(s) - 1 /\ Single(r)
       /\ Range(r) = Range(s) \ {u}
  BY <1>7, <1>11, RemovedRest
<1>13. /\ locks' = [locks EXCEPT ![x] = IF r = <<>> THEN Gone ELSE e]
       /\ users' = [users EXCEPT ![e] = Len(r)]
  <2>1. users[e] - 1 = Len(r)
    BY <1>11, <1>12
  <2>2. Len(r) = 0 <=> r = <<>>
    BY <1>12, EmptySeq
  <2> QED BY <1>5, <1>10, <2>1, <2>2
<1>14. /\ h = Gone \/ (h # u /\ h = holder[e] /\ h \in Updates)
       /\ w \in Seq(Updates)
       /\ (IF h = Gone THEN w ELSE <<h>> \o w) = r
       /\ holder[e] = u => r = Tail(s) /\ Head(s) = u
  <2>1. CASE holder[e] = u
    <3>1. /\ Head(s) = u /\ Tail(s) = waiters[e] /\ u \notin Range(waiters[e])
      BY <1>2, <1>3, <1>11, <2>1, AtLockOrder
    <3>2. r = Tail(s)
      BY <1>7, <1>11, <3>1, RemoveHead
    <3>3. w = waiters[e]
      BY <1>8, <1>11, <3>1, RemoveNone
    <3> QED BY <1>9, <1>11, <2>1, <3>1, <3>2, <3>3
  <2>2. CASE holder[e] = Gone
    <3>1. s = waiters[e]
      BY <1>2, <1>3, <1>11, <2>2, AtLockOrder
    <3> QED BY <1>2, <1>7, <1>8, <1>9, <1>12, <2>2, <3>1
  <2>3. CASE holder[e] # Gone /\ holder[e] # u
    <3>1. h = holder[e] /\ h \in Updates /\ h # u /\ h # Gone
      BY <1>2, <1>3, <1>9, <2>3 DEF SerialTyped
    <3>2. PICK v : v = waiters[e]
      OBVIOUS
    <3>3. v \in Seq(Updates) /\ s = <<h>> \o v /\ u \in Range(v)
      BY <1>3, <1>11, <2>3, <3>1, <3>2 DEF AtLock
    <3>4. r = <<h>> \o w
      <4>1. Single(<<h>> \o v)
        BY <1>11, <3>3
      <4>2. RemoveFirst(<<h>> \o v, u) = <<h>> \o RemoveFirst(v, u)
        BY <3>1, <3>3, <4>1, RemoveLater, ZenonT(30)
      <4> QED BY <1>7, <1>8, <3>2, <3>3, <4>2
    <3>5. Single(v)
      <4>1. Len(s) = Len(v) + 1 /\ s \in Seq(Updates) /\ Tail(s) = v /\ s # <<>>
        BY <1>11, <3>1, <3>3, HeadOn
      <4>2. \A i \in 1..Len(v) : v[i] = s[i + 1]
        BY <4>1, HeadTailProperties
      <4>3. \A i \in 1..Len(v) : i + 1 \in 1..Len(s)
        BY <3>3, <4>1
      <4>4. ASSUME NEW i \in 1..Len(v), NEW j \in 1..Len(v), v[i] = v[j] PROVE i = j
        <5>1. s[i + 1] = s[j + 1]
          BY <4>2, <4>4
        <5>2. i + 1 = j + 1
          BY <1>11, <4>3, <5>1 DEF Single
        <5> QED BY <5>2
      <4> QED BY <4>4 DEF Single
    <3>6. w \in Seq(Updates)
      BY <1>8, <3>2, <3>3, <3>5, RemovedRest
    <3> QED BY <2>3, <3>1, <3>4, <3>6
  <2> QED BY <2>1, <2>2, <2>3
<1>15. Runs(u) => seen[u] = conversation[x]
  BY <1>2, <1>3, <1>5 DEF Entered
<1>16. /\ x = UserOf[u] /\ x = UserOf[e] /\ e = locks[x] /\ e = entry[u]
       /\ u \in Range(arrived[x]) /\ Entered(x) /\ e \in Updates /\ x \in Users
  BY <1>1, <1>3, <1>4, <1>5
<1>17. \E h1, w1 : /\ holder' = [holder EXCEPT ![e] = h1]
                   /\ waiters' = [waiters EXCEPT ![e] = w1]
                   /\ h1 = Gone \/ (h1 # u /\ h1 = holder[e] /\ h1 \in Updates)
                   /\ w1 \in Seq(Updates)
                   /\ r = IF h1 = Gone THEN w1 ELSE <<h1>> \o w1
  BY <1>10, <1>14
<1>18. r = RemoveFirst(arrived[x], u) /\ s = arrived[x]
  BY <1>6, <1>7
<1>19. Runs(u) => r = Tail(s) /\ Head(s) = u /\ seen[u] = conversation[x] /\ holder[e] = u
  BY <1>3, <1>14, <1>15
<1>20. TakenOut(u, x, e, r)
  BY <1>10, <1>12, <1>13, <1>16, <1>17, <1>18, <1>19 DEF TakenOut
<1> QED BY <1>12, <1>16, <1>20

\* Whoever leaves leaves the others in order, whether it has written or not.
LEMMA LeaveKeeps ==
    ASSUME SerialInv, NEW u \in Updates, NEW x \in Users, NEW e \in Updates, NEW r,
           TakenOut(u, x, e, r), seen' = seen,
           \/ conversation' = conversation
           \/ Runs(u) /\ conversation' = [conversation EXCEPT ![x] = Append(seen[u], u)]
    PROVE  SerialInv'
<1>1. SerialTyped /\ Gone \notin Updates /\ Served(x) /\ UserOf \in [Updates -> Users]
  BY UpdatesAssumption DEF SerialInv
<1>2. /\ x = UserOf[u] /\ x = UserOf[e] /\ e = locks[x] /\ e = entry[u] /\ e # Gone
      /\ u \in Range(arrived[x]) /\ Entered(x)
      /\ r \in Seq(Updates) /\ Len(r) = Len(arrived[x]) - 1
      /\ Single(r) /\ Range(r) = Range(arrived[x]) \ {u}
      /\ arrived' = [arrived EXCEPT ![x] = r]
      /\ locks' = [locks EXCEPT ![x] = IF r = <<>> THEN Gone ELSE e]
      /\ users' = [users EXCEPT ![e] = Len(r)]
      /\ entry' = entry
      /\ Runs(u) => seen[u] = conversation[x] /\ holder[e] = u
  BY <1>1 DEF TakenOut
<1>3. PICK h, w :
        /\ holder' = [holder EXCEPT ![e] = h] /\ waiters' = [waiters EXCEPT ![e] = w]
        /\ h = Gone \/ (h # u /\ h = holder[e] /\ h \in Updates)
        /\ w \in Seq(Updates)
        /\ r = IF h = Gone THEN w ELSE <<h>> \o w
  BY DEF TakenOut
<1>4. /\ locks'[x] = (IF r = <<>> THEN Gone ELSE e) /\ arrived'[x] = r
      /\ users'[e] = Len(r) /\ holder'[e] = h /\ waiters'[e] = w
  BY <1>1, <1>2, <1>3 DEF SerialTyped
<1>5. AtLock(e)' = r
  BY <1>3, <1>4 DEF AtLock
<1>6. conversation[x] \in Seq(Updates) /\ Append(conversation[x], u) \in Seq(Updates)
  BY <1>1, AppendProperties DEF SerialTyped
<1>7. \/ conversation' = conversation
      \/ holder[e] = u /\ conversation' = [conversation EXCEPT ![x] = Append(conversation[x], u)]
  BY <1>2
<1>8. SerialTyped'
  <2>1. conversation' \in [Users -> Seq(Updates)]
    BY <1>1, <1>6, <1>7 DEF SerialTyped
  <2>2. locks' \in [Users -> Updates \cup {Gone}] /\ arrived' \in [Users -> Seq(Updates)]
    BY <1>1, <1>2 DEF SerialTyped
  <2>3. Len(r) \in Nat
    BY <1>2
  <2>4. users' \in [Updates -> Nat]
    BY <1>1, <1>2, <2>3 DEF SerialTyped
  <2>5. holder' \in [Updates -> Updates \cup {Gone}] /\ waiters' \in [Updates -> Seq(Updates)]
    BY <1>1, <1>3 DEF SerialTyped
  <2> QED BY <1>1, <1>2, <2>1, <2>2, <2>4, <2>5 DEF SerialTyped
<1>9. ASSUME NEW y \in Users, y # x PROVE Served(y)'
  <2>1. /\ locks'[y] = locks[y] /\ arrived'[y] = arrived[y]
        /\ conversation'[y] = conversation[y]
    BY <1>1, <1>2, <1>7, <1>9 DEF SerialTyped
  <2>2. ASSUME NEW v \in Updates, UserOf[v] = y
        PROVE  /\ users'[v] = users[v] /\ holder'[v] = holder[v] /\ waiters'[v] = waiters[v]
               /\ seen'[v] = seen[v]
    BY <1>1, <1>2, <1>3, <1>9, <2>2 DEF SerialTyped
  <2>3. \A v \in Updates : entry[v] # Gone => entry'[v] = entry[v]
    BY <1>2
  <2> QED BY <2>1, <2>2, <2>3, OthersServed
<1>10. Served(x)'
  <2>1. r # <<>> => Entered(x)'
    <3>1. SUFFICES ASSUME r # <<>> PROVE Entered(x)'
      OBVIOUS
    <3>2. locks'[x] = e
      BY <1>4, <3>1
    <3>3. h # Gone => seen'[h] = conversation'[x]
      <4>1. SUFFICES ASSUME h # Gone PROVE seen'[h] = conversation'[x]
        OBVIOUS
      <4>2. h = holder[e] /\ holder[e] # u
        BY <1>3, <4>1
      <4>3. conversation' = conversation
        BY <1>7, <4>2
      <4> QED BY <1>2, <4>1, <4>2, <4>3 DEF Entered
    <3>4. entry[e] # Gone
      BY <1>2 DEF Entered
    <3> QED BY <1>2, <1>4, <1>5, <3>1, <3>2, <3>3, <3>4 DEF Entered
  <2>2. ASSUME NEW v \in Range(r) PROVE UserOf[v] = x /\ entry'[v] = locks'[x]
    <3>1. r # <<>>
      BY EmptyLists
    <3> QED BY <1>1, <1>2, <1>4, <3>1 DEF Served
  <2>3. ASSUME NEW v \in Range(conversation'[x]) PROVE entry'[v] # Gone /\ v \notin Range(r)
    <3>1. v \in Range(conversation[x]) \/ v = u
      <4>1. CASE conversation'[x] = conversation[x]
        BY <2>3, <4>1
      <4>2. CASE conversation'[x] = Append(conversation[x], u)
        <5>1. PICK t : t = Append(conversation[x], u)
          OBVIOUS
        <5>2. /\ t \in Seq(Updates) /\ Len(t) = Len(conversation[x]) + 1
              /\ t[Len(conversation[x]) + 1] = u
              /\ \A i \in 1..Len(conversation[x]) : t[i] = conversation[x][i]
          BY <1>6, <5>1, AppendProperties
        <5>3. PICK i \in 1..Len(t) : v = t[i]
          <6>1. v \in Range(t)
            BY <2>3, <4>2, <5>1
          <6> QED BY <5>2, <6>1, RangeEquality
        <5>4. i \in 1..Len(conversation[x]) \/ i = Len(conversation[x]) + 1
          BY <1>6, <5>2
        <5> QED BY <1>6, <5>2, <5>3, <5>4, RangeEquality
      <4> QED BY <1>1, <1>7, <4>1, <4>2 DEF SerialTyped
    <3>2. CASE v \in Range(conversation[x])
      BY <1>1, <1>2, <3>2 DEF Served
    <3>3. CASE v = u
      BY <1>2, <3>3
    <3> QED BY <3>1, <3>2, <3>3
  <2> QED BY <1>2, <1>4, <2>1, <2>2, <2>3 DEF Served
<1>11. ASSUME NEW v \in Updates PROVE Vacant(v)'
  <2>1. CASE v = e
    <3>1. SUFFICES ASSUME r = <<>> PROVE users'[e] = 0 /\ holder'[e] = Gone /\ waiters'[e] = <<>>
      BY <1>2, <1>4, <2>1 DEF Vacant
    <3>2. h = Gone /\ w = <<>>
      BY <1>3, <3>1, HeadOn
    <3> QED BY <1>4, <3>1, <3>2, EmptyLists
  <2>2. CASE v # e
    <3>1. users'[v] = users[v] /\ holder'[v] = holder[v] /\ waiters'[v] = waiters[v] /\ Vacant(v)
      BY <1>1, <1>2, <1>3, <2>2 DEF SerialTyped, SerialInv
    <3>2. locks'[UserOf[v]] # v => locks[UserOf[v]] # v
      <4>1. CASE UserOf[v] = x
        BY <1>2, <2>2, <4>1
      <4>2. CASE UserOf[v] # x
        BY <1>1, <1>2, <4>2 DEF SerialTyped
      <4> QED BY <4>1, <4>2
    <3> QED BY <3>1, <3>2 DEF Vacant
  <2> QED BY <2>1, <2>2
<1> QED BY <1>8, <1>9, <1>10, <1>11 DEF SerialInv

LEMMA RestartKeeps == ASSUME SerialInv, ProcessRestarts PROVE SerialInv'
<1>1. SerialTyped /\ UserOf \in [Updates -> Users] /\ Gone \notin Updates
  BY UpdatesAssumption DEF SerialInv
<1>2. /\ locks' = [x \in Users |-> Gone] /\ users' = [u \in Updates |-> 0]
      /\ holder' = [u \in Updates |-> Gone] /\ waiters' = [u \in Updates |-> <<>>]
      /\ arrived' = [x \in Users |-> <<>>]
      /\ UNCHANGED <<entry, seen, conversation>>
  BY DEF ProcessRestarts
<1>3. SerialTyped'
  <2>1. <<>> \in Seq(Updates)
    BY EmptyLists
  <2> QED BY <1>1, <1>2, <2>1 DEF SerialTyped
<1>4. ASSUME NEW x \in Users PROVE Served(x)'
  <2>1. locks'[x] = Gone /\ arrived'[x] = <<>>
    BY <1>2
  <2>2. \A u \in Range(conversation[x]) : entry[u] # Gone
    BY DEF SerialInv, Served
  <2>3. Range(arrived'[x]) = {} /\ Single(arrived'[x])
    BY <2>1, EmptyLists
  <2> QED BY <1>2, <2>1, <2>2, <2>3 DEF Served
<1>5. ASSUME NEW v \in Updates PROVE Vacant(v)'
  BY <1>2 DEF Vacant
<1> QED BY <1>3, <1>4, <1>5 DEF SerialInv

LEMMA WaitersAsRange ==
    ASSUME SerialTyped, NEW e \in Updates
    PROVE  ToSet(waiters[e]) = Range(waiters[e])
BY DEF ToSet, Range

LEMMA SerialStart == SerialInit => SerialInv
<1> SUFFICES ASSUME SerialInit PROVE SerialInv
  OBVIOUS
<1>1. <<>> \in Seq(Updates) /\ UserOf \in [Updates -> Users]
  BY EmptyLists, UpdatesAssumption
<1>2. SerialTyped
  BY <1>1 DEF SerialInit, SerialTyped
<1>3. ASSUME NEW x \in Users PROVE Served(x)
  <2>1. locks[x] = Gone /\ arrived[x] = <<>> /\ conversation[x] = <<>>
    BY DEF SerialInit
  <2>2. Range(arrived[x]) = {} /\ Single(arrived[x]) /\ Range(conversation[x]) = {}
    BY <2>1, EmptyLists
  <2> QED BY <2>1, <2>2 DEF Served
<1>4. ASSUME NEW v \in Updates PROVE Vacant(v)
  BY DEF Vacant, SerialInit
<1> QED BY <1>2, <1>3, <1>4 DEF SerialInv

\* Which update takes effect, and which are over without one: the line of one
\* user loses one update, the first if it has written.
LEMMA LeaveDone ==
    ASSUME SerialInv, NEW u \in Updates, Finish(u) \/ Fail(u) \/ CancelWaiting(u)
    PROVE  \E x \in Users, e \in Updates, r \in Seq(Updates) :
              /\ TakenOut(u, x, e, r) /\ seen' = seen
              /\ \/ conversation' = conversation
                 \/ Runs(u) /\ conversation' = [conversation EXCEPT ![x] = Append(seen[u], u)]
<1>1. SerialTyped /\ Gone \notin Updates
  BY UpdatesAssumption DEF SerialInv
<1>2. Runs(u) \/ (entry[u] # Gone /\ u \in Range(waiters[entry[u]]))
  <2>1. CASE Finish(u) \/ Fail(u)
    BY <2>1 DEF Finish, Fail
  <2>2. CASE CancelWaiting(u)
    <3>1. entry[u] # Gone /\ u \in ToSet(waiters[entry[u]])
      BY <2>2 DEF CancelWaiting
    <3>2. entry[u] \in Updates
      BY <1>1, <3>1 DEF SerialTyped
    <3> QED BY <1>1, <3>1, <3>2, WaitersAsRange
  <2> QED BY <2>1, <2>2
<1>3. /\ Leave(u) /\ seen' = seen
      /\ \/ conversation' = conversation
         \/ Runs(u) /\ conversation' = [conversation EXCEPT ![UserOf[u]] = Append(seen[u], u)]
  BY DEF Finish, Fail, CancelWaiting
<1>4. PICK x \in Users, e \in Updates, r \in Seq(Updates) : TakenOut(u, x, e, r)
  BY <1>2, <1>3, LineAfterLeave
<1>5. x = UserOf[u]
  BY <1>4 DEF TakenOut
<1> QED BY <1>3, <1>4, <1>5

LEMMA SerialStep == SerialInv /\ [SerialNext]_serialVars => SerialInv'
<1> SUFFICES ASSUME SerialInv, [SerialNext]_serialVars PROVE SerialInv'
  OBVIOUS
<1>1. ASSUME NEW u \in Updates, Arrive(u) PROVE SerialInv'
  BY <1>1, ArriveKeeps
<1>2. ASSUME NEW u \in Updates, Enter(u) PROVE SerialInv'
  BY <1>2, EnterKeeps
<1>3. ASSUME NEW u \in Updates, Finish(u) \/ Fail(u) \/ CancelWaiting(u) PROVE SerialInv'
  BY <1>3, LeaveDone, LeaveKeeps
<1>4. CASE ProcessRestarts
  BY <1>4, RestartKeeps
<1>5. CASE UNCHANGED serialVars
  BY <1>5, SMTT(30) DEF serialVars, SerialInv, SerialTyped, Served, Entered, AtLock, Vacant
<1> QED BY <1>1, <1>2, <1>3, <1>4, <1>5 DEF SerialNext

LEMMA SerialInvariant == SerialSpec => []SerialInv
BY SerialStart, SerialStep, PTL DEF SerialSpec

\* A list without doubles is as long at most as there are updates.
LEMMA SingleShort ==
    ASSUME NEW s \in Seq(Updates), Single(s)
    PROVE  Len(s) <= Cardinality(Updates) /\ Cardinality(Updates) \in Nat
<1>1. IsFiniteSet(Updates) /\ Cardinality(Updates) \in Nat
  BY UpdatesAssumption, FS_CardinalityType
<1>2. PICK n : n = Len(s)
  OBVIOUS
<1>3. n \in Nat /\ s \in [1..n -> Updates]
  BY <1>2
<1>4. s \in Injection(1..n, Updates)
  BY <1>2, <1>3 DEF Single, Injection, IsInjective
<1>5. IsFiniteSet(1..n) /\ Cardinality(1..n) = n
  BY <1>3, FS_Interval
<1>6. Cardinality(1..n) <= Cardinality(Updates)
  BY <1>1, <1>4, <1>5, FS_Injection
<1> QED BY <1>1, <1>2, <1>5, <1>6

\* For any number of users and updates, however they fail, are cancelled or
\* lost with the process: the dictionary has an entry for exactly the users
\* with updates under way, with all of them at it and counted.
THEOREM SerialOneEntryWhileBusy == SerialSpec => []OneEntryWhileBusy
<1>1. SerialInv => OneEntryWhileBusy
  <2> SUFFICES ASSUME SerialInv PROVE OneEntryWhileBusy
    OBVIOUS
  <2>1. SerialTyped /\ Gone \notin Updates
    BY UpdatesAssumption DEF SerialInv
  <2>2. ASSUME NEW x \in Users
        PROVE  /\ Served(x) /\ arrived[x] \in Seq(Updates)
               /\ ToSet(arrived[x]) = Range(arrived[x])
               /\ ToSet(conversation[x]) = Range(conversation[x])
    BY <2>1 DEF SerialInv, SerialTyped, ToSet, Range
  <2>3. ASSUME NEW e \in Updates PROVE users[e] \in 0..Cardinality(Updates)
    <3>1. Cardinality(Updates) \in Nat
      BY UpdatesAssumption, FS_CardinalityType
    <3>2. CASE locks[UserOf[e]] # e
      BY <3>1, <3>2 DEF SerialInv, Vacant
    <3>3. CASE locks[UserOf[e]] = e
      <4>1. PICK x \in Users : x = UserOf[e]
        BY UpdatesAssumption
      <4>2. users[e] = Len(arrived[x]) /\ Single(arrived[x])
        BY <2>1, <2>2, <3>3, <4>1 DEF Served, Entered
      <4>3. Len(arrived[x]) <= Cardinality(Updates) /\ Len(arrived[x]) \in Nat
        BY <2>2, <4>2, SingleShort
      <4> QED BY <3>1, <4>2, <4>3
    <3> QED BY <3>2, <3>3
  <2>4. \A x \in Users : ToSet(conversation[x]) \cap ToSet(arrived[x]) = {}
    BY <2>2 DEF Served
  <2>5. SerialOK
    <3>1. users \in [Updates -> 0..Cardinality(Updates)]
      BY <2>1, <2>3 DEF SerialTyped
    <3> QED BY <2>1, <2>4, <3>1 DEF SerialOK, SerialTyped
  <2>6. ASSUME NEW x \in Users
        PROVE  /\ locks[x] = Gone <=> arrived[x] = <<>>
               /\ \A u \in ToSet(arrived[x]) : entry[u] = locks[x]
               /\ arrived[x] # <<>> => users[locks[x]] = Len(arrived[x])
    BY <2>2 DEF Served, Entered
  <2> QED BY <2>5, <2>6 DEF OneEntryWhileBusy
<1> QED BY <1>1, SerialInvariant, PTL

\* The safety of OneAtATime: every step of the middleware is a step of what it
\* promises or none. An update takes effect only as the oldest of its user and
\* on top of all before it.
THEOREM SerialAppliesInOrder == SerialSpec => P!PromiseInit /\ [][P!PromiseNext]_(P!promiseVars)
<1>1. SerialInit => P!PromiseInit
  BY DEF SerialInit, P!PromiseInit
<1>2. ASSUME SerialInv, NEW u \in Updates, Arrive(u) PROVE P!PromiseNext
  <2>1. \A x \in Users : u \notin ToSet(arrived[x]) \cup ToSet(conversation[x])
    <3> SUFFICES ASSUME NEW x \in Users, u \in ToSet(arrived[x]) \cup ToSet(conversation[x])
                 PROVE  FALSE
      OBVIOUS
    <3>1. u \in Range(arrived[x]) \cup Range(conversation[x])
      BY DEF ToSet, Range
    <3>2. Served(x) /\ entry[u] = Gone
      BY <1>2 DEF SerialInv, Arrive
    <3>3. locks[x] = Gone /\ u \in Range(arrived[x])
      BY <3>1, <3>2 DEF Served
    <3> QED BY <3>2, <3>3, EmptyLists DEF Served
  <2>2. /\ arrived' = [arrived EXCEPT ![UserOf[u]] = Append(@, u)]
        /\ UNCHANGED conversation
    BY <1>2 DEF Arrive
  <2> QED BY <2>1, <2>2 DEF P!PromiseNext, P!Receive, P!ToSet, ToSet
<1>3. ASSUME SerialInv, NEW u \in Updates, Finish(u) \/ Fail(u) \/ CancelWaiting(u)
      PROVE  P!PromiseNext
  <2>1. PICK x \in Users, e \in Updates, r \in Seq(Updates) :
          /\ TakenOut(u, x, e, r)
          /\ \/ conversation' = conversation
             \/ Runs(u) /\ conversation' = [conversation EXCEPT ![x] = Append(seen[u], u)]
    BY <1>3, LeaveDone
  <2>2. CASE conversation' = conversation
    <3>1. u \in ToSet(arrived[x]) /\ arrived' = [arrived EXCEPT ![x] = RemoveFirst(@, u)]
      BY <2>1 DEF TakenOut, ToSet, Range
    <3> QED BY <2>2, <3>1 DEF P!PromiseNext, P!Drop, P!ToSet, ToSet, P!RemoveFirst, RemoveFirst,
                            P!RemoveAt, RemoveAt, P!SelectInSeq, SelectInSeq, P!Min, Min
  <2>3. CASE Runs(u) /\ conversation' = [conversation EXCEPT ![x] = Append(seen[u], u)]
    <3>1. /\ u = Head(arrived[x]) /\ seen[u] = conversation[x] /\ arrived[x] # <<>>
          /\ arrived' = [arrived EXCEPT ![x] = Tail(@)]
      BY <2>1, <2>3 DEF TakenOut, Entered
    <3>2. conversation' = [conversation EXCEPT ![x] = Append(@, Head(arrived[x]))]
      BY <2>3, <3>1
    <3> QED BY <3>1, <3>2 DEF P!PromiseNext, P!Apply
  <2> QED BY <2>1, <2>2, <2>3
<1>4. SerialInv /\ [SerialNext]_serialVars => [P!PromiseNext]_(P!promiseVars)
  <2> SUFFICES ASSUME SerialInv, [SerialNext]_serialVars
               PROVE  P!PromiseNext \/ UNCHANGED P!promiseVars
    OBVIOUS
  <2>1. ASSUME NEW u \in Updates, Enter(u) PROVE UNCHANGED P!promiseVars
    BY <2>1 DEF Enter, P!promiseVars
  <2>2. CASE ProcessRestarts
    BY <2>2 DEF ProcessRestarts, P!PromiseNext, P!DropAll
  <2>3. CASE UNCHANGED serialVars
    BY <2>3 DEF serialVars, P!promiseVars
  <2> QED BY <1>2, <1>3, <2>1, <2>2, <2>3 DEF SerialNext
<1> QED BY <1>1, <1>4, SerialInvariant, PTL DEF SerialSpec
=============================================================================

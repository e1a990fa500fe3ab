--------------------------- MODULE MerchSyncProofs ---------------------------
(***************************************************************************)
(* The safety of the outbox, for any number of orders, chats, faults,      *)
(* moves and batches: cards that are right when their flag is down,        *)
(* notices in order, repeats with a cause, and no message lost.            *)
(***************************************************************************)
EXTENDS MerchSync, FiniteSetTheorems, WellFoundedInduction, TLAPS

(***************************************************************************)
(* Helpers                                                                 *)
(***************************************************************************)
\* The worker takes a row of its batch, one whose id is the smallest.
LEMMA CurrentIn ==
    ASSUME TypeOK, batch # {}
    PROVE  Current \in batch /\ Current.order \in Known /\ Current.order \in Orders
<1> DEFINE T == {row.order : row \in batch}
<1>1. T \subseteq Nat /\ T # {}
  <2>1. \A row \in batch : row.order \in Nat
    BY IdsAssumption DEF TypeOK, WorkerTypes, Known
  <2>2. QED
    BY <2>1
<1>2. \E x \in T : \A y \in T : ~ (<<y, x>> \in OpToRel(<, Nat))
  <2> HIDE DEF T
  <2>1. QED
    BY <1>1, NatLessThanWellFounded, WFMin
<1>3. \E x \in T : \A y \in T : x <= y
  <2>1. \A x, y \in Nat : y < x => <<y, x>> \in OpToRel(<, Nat)
    BY DEF OpToRel
  <2>2. PICK x \in T : \A y \in T : ~ (<<y, x>> \in OpToRel(<, Nat))
    BY <1>2
  <2> HIDE DEF T
  <2>3. \A y \in T : ~ (y < x) /\ x \in Nat /\ y \in Nat
    BY <1>1, <2>1, <2>2
  <2>4. QED
    BY <2>3
<1>4. \E row \in batch : \A other \in batch : row.order <= other.order
  BY <1>3
<1>5. Current \in batch
  BY <1>4 DEF Current
<1>6. QED
  BY <1>5 DEF TypeOK, WorkerTypes, Known

LEMMA SameCurrent ==
    ASSUME batch' = batch
    PROVE  Current' = Current
  BY DEF Current

\* Where the statuses lead.
LEMMA LaterIs ==
    /\ Later("PENDING") = {"IN_PROCESS", "READY_FOR_PICKUP", "COMPLETED", "CANCELLED"}
    /\ Later("IN_PROCESS") = {"READY_FOR_PICKUP", "COMPLETED", "CANCELLED"}
    /\ Later("READY_FOR_PICKUP") = {"COMPLETED", "CANCELLED"}
    /\ Later("COMPLETED") = {}
    /\ Later("CANCELLED") = {}
<1>1. /\ TRANSITIONS["PENDING"] = {"IN_PROCESS", "CANCELLED"}
      /\ TRANSITIONS["IN_PROCESS"] = {"READY_FOR_PICKUP", "COMPLETED", "CANCELLED"}
      /\ TRANSITIONS["READY_FOR_PICKUP"] = {"COMPLETED", "CANCELLED"}
      /\ TRANSITIONS["COMPLETED"] = {}
      /\ TRANSITIONS["CANCELLED"] = {}
  BY DEF TRANSITIONS
<1>2. Later("COMPLETED") = {} /\ Later("CANCELLED") = {}
  BY <1>1 DEF Later, After
<1>3. /\ After({"COMPLETED", "CANCELLED"}) = {"COMPLETED", "CANCELLED"}
      /\ After({"READY_FOR_PICKUP", "COMPLETED", "CANCELLED"})
             = {"READY_FOR_PICKUP", "COMPLETED", "CANCELLED"}
      /\ After({"IN_PROCESS", "READY_FOR_PICKUP", "COMPLETED", "CANCELLED"})
             = {"IN_PROCESS", "READY_FOR_PICKUP", "COMPLETED", "CANCELLED"}
      /\ After({"IN_PROCESS", "CANCELLED"})
             = {"IN_PROCESS", "READY_FOR_PICKUP", "COMPLETED", "CANCELLED"}
  BY <1>1 DEF After
<1>4. QED
  BY <1>1, <1>2, <1>3 DEF Later

\* The graph of the statuses has no way back.
LEMMA LaterFacts ==
    /\ \A s \in Status : s \notin Later(s) /\ TRANSITIONS[s] \subseteq Later(s)
    /\ \A s \in Status : \A t \in Later(s) : t \in Status /\ TRANSITIONS[t] \subseteq Later(s)
    /\ \A s \in Status : \A t \in Later(s) : s \notin Later(t)
<1>1. /\ TRANSITIONS["PENDING"] = {"IN_PROCESS", "CANCELLED"}
      /\ TRANSITIONS["IN_PROCESS"] = {"READY_FOR_PICKUP", "COMPLETED", "CANCELLED"}
      /\ TRANSITIONS["READY_FOR_PICKUP"] = {"COMPLETED", "CANCELLED"}
      /\ TRANSITIONS["COMPLETED"] = {}
      /\ TRANSITIONS["CANCELLED"] = {}
  BY DEF TRANSITIONS
<1>2. QED
  BY <1>1, LaterIs DEF Status

(***************************************************************************)
(* Types                                                                   *)
(***************************************************************************)
LEMMA SameOrders ==
    ASSUME status' = status
    PROVE  Known' = Known /\ Placed' = Placed
  BY DEF Known, Placed

LEMMA RowsRead ==
    ASSUME OrderTypes, NEW flagged \in SUBSET Placed
    PROVE  Rows(flagged) \subseteq
               [order : Known, status : Status, id : Nat \cup {None}, blocked : BOOLEAN]
<1> SUFFICES ASSUME NEW p \in flagged
             PROVE  Row(p) \in [order : Known, status : Status, id : Nat \cup {None},
                                blocked : BOOLEAN]
  BY DEF Rows
<1>1. p \in Known /\ status[p] \in Status
  BY DEF OrderTypes, Placed, Known
<1>2. cardId[p] \in Nat \cup {None}
  BY <1>1 DEF OrderTypes, Known
<1>3. QED
  BY <1>1, <1>2 DEF Row

\* The bounded counters stay in their bounds.
LEMMA SpendTypes ==
    ASSUME ShopTypes,
           \/ Spend("moves", MaxMoves) \/ Spend("toggles", MaxToggles)
           \/ Spend("faults", MaxFaults) \/ Spend("clears", MaxClears)
    PROVE  spent' \in [moves : 0 .. MaxMoves, toggles : 0 .. MaxToggles,
                       faults : 0 .. MaxFaults, clears : 0 .. MaxClears]
<1> DEFINE R == [moves : 0 .. MaxMoves, toggles : 0 .. MaxToggles, faults : 0 .. MaxFaults,
                 clears : 0 .. MaxClears]
<1>1. spent \in R
  BY DEF ShopTypes
<1>2. CASE Spend("moves", MaxMoves)
  BY <1>1, <1>2, SyncBounds DEF Spend
<1>3. CASE Spend("toggles", MaxToggles)
  BY <1>1, <1>3, SyncBounds DEF Spend
<1>4. CASE Spend("faults", MaxFaults)
  BY <1>1, <1>4, SyncBounds DEF Spend
<1>5. CASE Spend("clears", MaxClears)
  BY <1>1, <1>5, SyncBounds DEF Spend
<1>6. QED
  BY <1>2, <1>3, <1>4, <1>5

\* A card that was sent or edited.
LEMMA DeliverTypes ==
    ASSUME TypeOK, chat \in Chats, batch # {}, Deliver(Current)
    PROVE  SentTypes'
<1> DEFINE R == [order : Orders, status : Status, blocked : BOOLEAN]
<1>1. CardOf(Current) \in R
  BY CurrentIn DEF TypeOK, WorkerTypes, CardOf, Known
<1>2. cards \in [Chats -> Seq(R)] /\ cards[chat] \in Seq(R)
  BY DEF TypeOK, SentTypes
<1>3. Append(cards[chat], CardOf(Current)) \in Seq(R)
  BY <1>1, <1>2
<1>4. \A i \in DOMAIN cards[chat] : [cards[chat] EXCEPT ![i] = CardOf(Current)] \in Seq(R)
  BY <1>1, <1>2
<1> HIDE DEF R
<1>5. cards' \in [Chats -> Seq(R)]
  BY <1>2, <1>3, <1>4 DEF Deliver, CanEdit
<1>6. spoilt' \in [deleted : SUBSET (Chats \X Nat), refused : SUBSET (Chats \X Nat)]
  BY DEF Deliver, TypeOK, SentTypes
<1>7. inbox' \in [Orders -> Seq(Status \cup {"pickup"})]
  BY DEF Deliver, TypeOK, SentTypes
<1>8. QED
  BY <1>5, <1>6, <1>7 DEF R, SentTypes

\* A message that was read.
LEMMA ReadTypes ==
    ASSUME TypeOK, batch # {}, Read
    PROVE  inbox' \in [Orders -> Seq(Status \cup {"pickup"})]
<1> DEFINE R == Status \cup {"pickup"}
<1>1. Current.order \in Orders /\ Message \in R
  BY CurrentIn DEF TypeOK, WorkerTypes, Message
<1>2. inbox \in [Orders -> Seq(R)] /\ inbox[Current.order] \in Seq(R)
  BY <1>1 DEF TypeOK, SentTypes
<1>3. Append(inbox[Current.order], Message) \in Seq(R)
  BY <1>1, <1>2
<1> HIDE DEF R
<1>4. inbox' \in [Orders -> Seq(R)]
  BY <1>2, <1>3 DEF Read
<1>5. QED
  BY <1>4 DEF R

\* Every step keeps the types.
LEMMA TypeStep == TypeOK /\ WorkerFacts /\ [Next]_vars => TypeOK'
<1> SUFFICES ASSUME TypeOK, WorkerFacts, [Next]_vars PROVE TypeOK'
  OBVIOUS
<1> USE DEF orderVars, shopVars, customerVars, workerVars, chatVars, outsideVars,
            othersThanRows, hands
<1>1. ASSUME NEW o \in Orders, PlaceOrder(o)
      PROVE  TypeOK'
  <2>1. OrderTypes'
    <3> DEFINE C == dirty.card \cup {o}
               N == dirty.notify \cup {o}
               P == dirty.pickup
    <3>1. Status \cap {None, "deleted"} = {}
      BY ChatsAssumption DEF Status
    <3>2. /\ status' \in [Orders -> Status \cup {None, "deleted"}]
          /\ cardId' \in [Orders -> Nat \cup {None}]
          /\ Known \subseteq Known' /\ Placed \subseteq Placed'
      BY <1>1, <3>1 DEF PlaceOrder, Owe, TypeOK, OrderTypes, Known, Placed, Status
    <3>3. C \subseteq Placed' /\ N \subseteq Placed' /\ P \subseteq Placed'
      <4>1. status'[o] = "PENDING" /\ o \in Placed'
        BY <1>1, <3>1 DEF PlaceOrder, TypeOK, OrderTypes, Known, Placed, Status
      <4>2. QED
        BY <3>2, <4>1 DEF TypeOK, OrderTypes
    <3>4. dirty' \in [card : SUBSET (Placed'), notify : SUBSET (Placed'),
                      pickup : SUBSET (Placed')]
      <4>1. dirty = [card |-> dirty.card, notify |-> dirty.notify, pickup |-> dirty.pickup]
        BY DEF TypeOK, OrderTypes
      <4>2. dirty' = [card |-> C, notify |-> N, pickup |-> P]
        BY <1>1, <4>1 DEF PlaceOrder, Owe
      <4>3. QED
        BY <3>3, <4>2
    <3>5. chosen' \cup noted' \cup gaveUp' \subseteq Known'
      BY <1>1, <3>1, <3>2 DEF PlaceOrder, Owe, TypeOK, OrderTypes, Known, Placed, Status
    <3>6. QED
      BY <3>2, <3>4, <3>5 DEF OrderTypes
  <2>2. ShopTypes'
    BY <1>1 DEF PlaceOrder, Owe, TypeOK, ShopTypes
  <2>3. WorkerTypes'
    BY <1>1 DEF PlaceOrder, Owe, TypeOK, WorkerTypes, Known, OrderTypes
  <2>4. SentTypes'
    BY <1>1 DEF PlaceOrder, Owe, TypeOK, SentTypes
  <2>5. QED
    BY <2>1, <2>2, <2>3, <2>4 DEF TypeOK
<1>2. ASSUME NEW o \in Orders, ChoosePickup(o)
      PROVE  TypeOK'
  <2>1. OrderTypes'
    <3> DEFINE C == dirty.card
               N == dirty.notify
               P == dirty.pickup \cup {o}
    <3>1. Status \cap {None, "deleted"} = {}
      BY ChatsAssumption DEF Status
    <3>2. /\ status' \in [Orders -> Status \cup {None, "deleted"}]
          /\ cardId' \in [Orders -> Nat \cup {None}]
          /\ Known \subseteq Known' /\ Placed \subseteq Placed'
      BY <1>2, <3>1 DEF ChoosePickup, TypeOK, OrderTypes, Known, Placed, Status
    <3>3. C \subseteq Placed' /\ N \subseteq Placed' /\ P \subseteq Placed'
      BY <1>2, <3>1, <3>2 DEF ChoosePickup, TypeOK, OrderTypes, Known, Placed, Status
    <3>4. dirty' \in [card : SUBSET (Placed'), notify : SUBSET (Placed'),
                      pickup : SUBSET (Placed')]
      <4>1. dirty = [card |-> dirty.card, notify |-> dirty.notify, pickup |-> dirty.pickup]
        BY DEF TypeOK, OrderTypes
      <4>2. dirty' = [card |-> C, notify |-> N, pickup |-> P]
        BY <1>2, <4>1 DEF ChoosePickup
      <4>3. QED
        BY <3>3, <4>2
    <3>5. chosen' \cup noted' \cup gaveUp' \subseteq Known'
      BY <1>2, <3>1, <3>2 DEF ChoosePickup, TypeOK, OrderTypes, Known, Placed, Status
    <3>6. QED
      BY <3>2, <3>4, <3>5 DEF OrderTypes
  <2>2. ShopTypes'
    BY <1>2 DEF ChoosePickup, TypeOK, ShopTypes
  <2>3. WorkerTypes'
    BY <1>2, SameOrders DEF ChoosePickup, TypeOK, WorkerTypes
  <2>4. SentTypes'
    BY <1>2 DEF ChoosePickup, TypeOK, SentTypes
  <2>5. QED
    BY <2>1, <2>2, <2>3, <2>4 DEF TypeOK
<1>3. ASSUME NEW o \in Orders, NEW to \in Status, ChangeStatus(o, to)
      PROVE  TypeOK'
  <2>1. OrderTypes'
    <3> DEFINE C == dirty.card \cup {o}
               N == dirty.notify \cup {o}
               P == dirty.pickup
    <3>1. Status \cap {None, "deleted"} = {}
      BY ChatsAssumption DEF Status
    <3>2. /\ status' \in [Orders -> Status \cup {None, "deleted"}]
          /\ cardId' \in [Orders -> Nat \cup {None}]
          /\ Known \subseteq Known' /\ Placed \subseteq Placed'
      BY <1>3, <3>1 DEF ChangeStatus, Owe, SourcesOf, TypeOK, OrderTypes, Known, Placed, Status
    <3>3. C \subseteq Placed' /\ N \subseteq Placed' /\ P \subseteq Placed'
      BY <1>3, <3>1, <3>2
         DEF ChangeStatus, Owe, SourcesOf, TypeOK, OrderTypes, Known, Placed, Status
    <3>4. dirty' \in [card : SUBSET (Placed'), notify : SUBSET (Placed'),
                      pickup : SUBSET (Placed')]
      <4>1. dirty = [card |-> dirty.card, notify |-> dirty.notify, pickup |-> dirty.pickup]
        BY DEF TypeOK, OrderTypes
      <4>2. dirty' = [card |-> C, notify |-> N, pickup |-> P]
        BY <1>3, <4>1 DEF ChangeStatus, Owe, SourcesOf
      <4>3. QED
        BY <3>3, <4>2
    <3>5. chosen' \cup noted' \cup gaveUp' \subseteq Known'
      BY <1>3, <3>1, <3>2
         DEF ChangeStatus, Owe, SourcesOf, TypeOK, OrderTypes, Known, Placed, Status
    <3>6. QED
      BY <3>2, <3>4, <3>5 DEF OrderTypes
  <2>2. ShopTypes'
    BY <1>3 DEF ChangeStatus, Owe, TypeOK, ShopTypes
  <2>3. WorkerTypes'
    <3>1. Known \subseteq Known'
      BY <1>3, ChatsAssumption DEF ChangeStatus, Owe, Known, TypeOK, OrderTypes, Placed
    <3>2. UNCHANGED <<phase, step, batch, reply, chat>>
      BY <1>3 DEF ChangeStatus, Owe
    <3>3. QED
      BY <3>1, <3>2 DEF TypeOK, WorkerTypes
  <2>4. SentTypes'
    BY <1>3 DEF ChangeStatus, Owe, TypeOK, SentTypes
  <2>5. QED
    BY <2>1, <2>2, <2>3, <2>4 DEF TypeOK
<1>4. ASSUME NEW o \in Orders, NEW to \in Status, StaleButton(o, to)
      PROVE  TypeOK'
  <2>1. OrderTypes'
    BY <1>4, SameOrders DEF StaleButton, TypeOK, OrderTypes, Placed, Known
  <2>2. ShopTypes'
    BY <1>4 DEF StaleButton, TypeOK, ShopTypes
  <2>3. WorkerTypes'
    BY <1>4, SameOrders DEF StaleButton, TypeOK, WorkerTypes
  <2>4. SentTypes'
    BY <1>4 DEF StaleButton, TypeOK, SentTypes
  <2>5. QED
    BY <2>1, <2>2, <2>3, <2>4 DEF TypeOK
<1>5. CASE ClearOrders
  <2>1. OrderTypes'
    <3>1. status' \in [Orders -> Status \cup {None, "deleted"}]
      BY <1>5 DEF ClearOrders, TypeOK, OrderTypes
    <3>2. Known' = Known
      BY <1>5, ChatsAssumption DEF ClearOrders, TypeOK, OrderTypes, Known, Placed, Status
    <3>3. dirty' \in [card : SUBSET (Placed'), notify : SUBSET (Placed'),
                      pickup : SUBSET (Placed')]
      BY <1>5 DEF ClearOrders
    <3>4. QED
      BY <1>5, <3>1, <3>2, <3>3 DEF ClearOrders, TypeOK, OrderTypes
  <2>2. ShopTypes'
    BY <1>5, SpendTypes DEF ClearOrders, TypeOK, ShopTypes
  <2>3. WorkerTypes'
    <3>1. Known \subseteq Known'
      BY <1>5, ChatsAssumption DEF ClearOrders, Spend, Known, TypeOK, OrderTypes, Placed
    <3>2. UNCHANGED <<phase, step, batch, reply, chat>>
      BY <1>5 DEF ClearOrders, Spend
    <3>3. QED
      BY <3>1, <3>2 DEF TypeOK, WorkerTypes
  <2>4. SentTypes'
    BY <1>5 DEF ClearOrders, Spend, TypeOK, SentTypes
  <2>5. QED
    BY <2>1, <2>2, <2>3, <2>4 DEF TypeOK
<1>6. ASSUME NEW c \in Customers, ToggleBlock(c)
      PROVE  TypeOK'
  <2>1. OrderTypes'
    BY <1>6, SameOrders DEF ToggleBlock, Spend, TypeOK, OrderTypes
  <2>2. ShopTypes'
    BY <1>6, SpendTypes DEF ToggleBlock, TypeOK, ShopTypes
  <2>3. WorkerTypes'
    BY <1>6, SameOrders DEF ToggleBlock, Spend, TypeOK, WorkerTypes
  <2>4. SentTypes'
    BY <1>6 DEF ToggleBlock, Spend, TypeOK, SentTypes
  <2>5. QED
    BY <2>1, <2>2, <2>3, <2>4 DEF TypeOK
<1>7. ASSUME NEW c \in Chats, BindChat(c)
      PROVE  TypeOK'
  <2>1. OrderTypes'
    BY <1>7, SameOrders DEF BindChat, MoveTo, Spend, TypeOK, OrderTypes
  <2>2. ShopTypes'
    BY <1>7, SpendTypes DEF BindChat, MoveTo, TypeOK, ShopTypes
  <2>3. WorkerTypes'
    BY <1>7, SameOrders, ChatsAssumption DEF BindChat, MoveTo, Spend, TypeOK, WorkerTypes
  <2>4. SentTypes'
    BY <1>7 DEF BindChat, MoveTo, Spend, TypeOK, SentTypes
  <2>5. QED
    BY <2>1, <2>2, <2>3, <2>4 DEF TypeOK
<1>8. ASSUME NEW c \in Chats, UpgradeChat(c)
      PROVE  TypeOK'
  <2>1. OrderTypes'
    BY <1>8, SameOrders DEF UpgradeChat, Spend, TypeOK, OrderTypes
  <2>2. ShopTypes'
    BY <1>8, SpendTypes DEF UpgradeChat, TypeOK, ShopTypes
  <2>3. WorkerTypes'
    BY <1>8, SameOrders DEF UpgradeChat, Spend, TypeOK, WorkerTypes
  <2>4. SentTypes'
    BY <1>8 DEF UpgradeChat, Spend, TypeOK, SentTypes
  <2>5. QED
    BY <2>1, <2>2, <2>3, <2>4 DEF TypeOK
<1>9. CASE FollowUpgrade
  <2>1. OrderTypes'
    BY <1>9, SameOrders DEF FollowUpgrade, MoveTo, TypeOK, OrderTypes
  <2>2. ShopTypes'
    BY <1>9, ChatsAssumption DEF FollowUpgrade, MoveTo, TypeOK, ShopTypes, WorkerFacts
  <2>3. WorkerTypes'
    BY <1>9, SameOrders, ChatsAssumption
       DEF FollowUpgrade, MoveTo, TypeOK, WorkerTypes, WorkerFacts
  <2>4. SentTypes'
    BY <1>9 DEF FollowUpgrade, MoveTo, TypeOK, SentTypes
  <2>5. QED
    BY <2>1, <2>2, <2>3, <2>4 DEF TypeOK
<1>10. CASE FinishMove
  <2>1. OrderTypes'
    <3> DEFINE C == dirty.card \cup {o \in Orders : IsOpen(o)}
               N == dirty.notify
               P == dirty.pickup
    <3>1. Status \cap {None, "deleted"} = {}
      BY ChatsAssumption DEF Status
    <3>2. /\ status' \in [Orders -> Status \cup {None, "deleted"}]
          /\ cardId' \in [Orders -> Nat \cup {None}]
          /\ Known \subseteq Known' /\ Placed \subseteq Placed'
      BY <1>10, <3>1
         DEF FinishMove, ResendOpenCards, IsOpen, OPEN_STATUSES, TypeOK, OrderTypes, Known,
         Placed, Status
    <3>3. C \subseteq Placed' /\ N \subseteq Placed' /\ P \subseteq Placed'
      BY <1>10, <3>1, <3>2
         DEF FinishMove, ResendOpenCards, IsOpen, OPEN_STATUSES, TypeOK, OrderTypes, Known,
         Placed, Status
    <3>4. dirty' \in [card : SUBSET (Placed'), notify : SUBSET (Placed'),
                      pickup : SUBSET (Placed')]
      <4>1. dirty = [card |-> dirty.card, notify |-> dirty.notify, pickup |-> dirty.pickup]
        BY DEF TypeOK, OrderTypes
      <4>2. dirty' = [card |-> C, notify |-> N, pickup |-> P]
        BY <1>10, <4>1 DEF FinishMove, ResendOpenCards, IsOpen, OPEN_STATUSES
      <4>3. QED
        BY <3>3, <4>2
    <3>5. chosen' \cup noted' \cup gaveUp' \subseteq Known'
      BY <1>10, <3>1, <3>2
         DEF FinishMove, ResendOpenCards, IsOpen, OPEN_STATUSES, TypeOK, OrderTypes, Known,
         Placed, Status
    <3>6. QED
      BY <3>2, <3>4, <3>5 DEF OrderTypes
  <2>2. ShopTypes'
    BY <1>10 DEF FinishMove, ResendOpenCards, TypeOK, ShopTypes
  <2>3. WorkerTypes'
    BY <1>10, SameOrders DEF FinishMove, ResendOpenCards, TypeOK, WorkerTypes
  <2>4. SentTypes'
    BY <1>10 DEF FinishMove, ResendOpenCards, TypeOK, SentTypes
  <2>5. QED
    BY <2>1, <2>2, <2>3, <2>4 DEF TypeOK
<1>11. ASSUME NEW c \in Customers, HandleUpdate(c)
      PROVE  TypeOK'
  <2>1. OrderTypes'
    BY <1>11, SameOrders DEF HandleUpdate, SetBlocked, TypeOK, OrderTypes
  <2>2. ShopTypes'
    BY <1>11 DEF HandleUpdate, SetBlocked, TypeOK, ShopTypes
  <2>3. WorkerTypes'
    BY <1>11, SameOrders DEF HandleUpdate, SetBlocked, TypeOK, WorkerTypes
  <2>4. SentTypes'
    BY <1>11 DEF HandleUpdate, SetBlocked, TypeOK, SentTypes
  <2>5. QED
    BY <2>1, <2>2, <2>3, <2>4 DEF TypeOK
<1>12. ASSUME NEW c \in Customers, NEW who \in {"chat", "worker"}, MarkCards(c, who)
      PROVE  TypeOK'
  <2>1. OrderTypes'
    <3> DEFINE C == dirty.card \cup OpenOf(c)
               N == dirty.notify
               P == dirty.pickup
    <3>1. Status \cap {None, "deleted"} = {}
      BY ChatsAssumption DEF Status
    <3>2. /\ status' \in [Orders -> Status \cup {None, "deleted"}]
          /\ cardId' \in [Orders -> Nat \cup {None}]
          /\ Known \subseteq Known' /\ Placed \subseteq Placed'
      BY <1>12, <3>1
         DEF MarkCards, OpenOf, IsOpen, OPEN_STATUSES, TypeOK, OrderTypes, Known, Placed, Status
    <3>3. C \subseteq Placed' /\ N \subseteq Placed' /\ P \subseteq Placed'
      BY <1>12, <3>1, <3>2
         DEF MarkCards, OpenOf, IsOpen, OPEN_STATUSES, TypeOK, OrderTypes, Known, Placed, Status
    <3>4. dirty' \in [card : SUBSET (Placed'), notify : SUBSET (Placed'),
                      pickup : SUBSET (Placed')]
      <4>1. dirty = [card |-> dirty.card, notify |-> dirty.notify, pickup |-> dirty.pickup]
        BY DEF TypeOK, OrderTypes
      <4>2. dirty' = [card |-> C, notify |-> N, pickup |-> P]
        BY <1>12, <4>1 DEF MarkCards, OpenOf, IsOpen, OPEN_STATUSES
      <4>3. QED
        BY <3>3, <4>2
    <3>5. chosen' \cup noted' \cup gaveUp' \subseteq Known'
      BY <1>12, <3>1, <3>2
         DEF MarkCards, OpenOf, IsOpen, OPEN_STATUSES, TypeOK, OrderTypes, Known, Placed, Status
    <3>6. QED
      BY <3>2, <3>4, <3>5 DEF OrderTypes
  <2>2. ShopTypes'
    BY <1>12 DEF MarkCards, TypeOK, ShopTypes
  <2>3. WorkerTypes'
    BY <1>12, SameOrders DEF MarkCards, TypeOK, WorkerTypes
  <2>4. SentTypes'
    BY <1>12 DEF MarkCards, TypeOK, SentTypes
  <2>5. QED
    BY <2>1, <2>2, <2>3, <2>4 DEF TypeOK
<1>13. CASE StartPass
  <2>1. OrderTypes'
    BY <1>13, SameOrders DEF StartPass, Enter, TypeOK, OrderTypes
  <2>2. ShopTypes'
    BY <1>13 DEF StartPass, Enter, TypeOK, ShopTypes
  <2>3. WorkerTypes'
    BY <1>13, RowsRead, SameOrders
       DEF StartPass, Enter, TypeOK, WorkerTypes, OrderTypes, NoReply
  <2>4. SentTypes'
    BY <1>13 DEF StartPass, Enter, TypeOK, SentTypes
  <2>5. QED
    BY <2>1, <2>2, <2>3, <2>4 DEF TypeOK
<1>14. CASE NextDrain
  <2>1. OrderTypes'
    BY <1>14, SameOrders DEF NextDrain, Enter, TypeOK, OrderTypes
  <2>2. ShopTypes'
    BY <1>14 DEF NextDrain, Enter, TypeOK, ShopTypes
  <2>3. WorkerTypes'
    BY <1>14, RowsRead, SameOrders
       DEF NextDrain, Enter, TypeOK, WorkerTypes, OrderTypes, NoReply
  <2>4. SentTypes'
    BY <1>14 DEF NextDrain, Enter, TypeOK, SentTypes
  <2>5. QED
    BY <2>1, <2>2, <2>3, <2>4 DEF TypeOK
<1>15. CASE SendCard
  <2>1. OrderTypes'
    BY <1>15, SameOrders DEF SendCard, Deliver, AtChat, At, Await, TypeOK, OrderTypes
  <2>2. ShopTypes'
    BY <1>15 DEF SendCard, Deliver, AtChat, At, Await, TypeOK, ShopTypes
  <2>3. WorkerTypes'
    BY <1>15, SameOrders DEF SendCard, Deliver, AtChat, At, Await, TypeOK, WorkerTypes
  <2>4. SentTypes'
    <3>1. chat \in Chats
      BY <1>15 DEF SendCard, AtChat, At, TypeOK, ShopTypes, WorkerTypes
    <3>2. QED
      BY <1>15, <3>1, DeliverTypes DEF SendCard, AtChat, At
  <2>5. QED
    BY <2>1, <2>2, <2>3, <2>4 DEF TypeOK
<1>16. CASE StoreCardId
  <2>1. OrderTypes'
    <3>1. Current.order \in Orders /\ reply.id \in Nat \cup {None}
      BY <1>16, CurrentIn DEF StoreCardId, At, WorkerFacts
    <3>2. cardId' \in [Orders -> Nat \cup {None}]
      BY <1>16, <3>1 DEF StoreCardId, TypeOK, OrderTypes
    <3>3. QED
      BY <1>16, <3>2, SameOrders DEF StoreCardId, TypeOK, OrderTypes
  <2>2. ShopTypes'
    BY <1>16 DEF StoreCardId, At, Await, TypeOK, ShopTypes
  <2>3. WorkerTypes'
    BY <1>16, SameOrders DEF StoreCardId, At, Await, TypeOK, WorkerTypes
  <2>4. SentTypes'
    BY <1>16 DEF StoreCardId, At, Await, TypeOK, SentTypes
  <2>5. QED
    BY <2>1, <2>2, <2>3, <2>4 DEF TypeOK
<1>17. CASE ClearCard
  <2>1. OrderTypes'
    BY <1>17, SameOrders DEF ClearCard, At, Skip, TypeOK, OrderTypes, Placed, Known
  <2>2. ShopTypes'
    BY <1>17 DEF ClearCard, At, Skip, TypeOK, ShopTypes
  <2>3. WorkerTypes'
    BY <1>17, SameOrders DEF ClearCard, At, Skip, TypeOK, WorkerTypes, NoReply
  <2>4. SentTypes'
    BY <1>17 DEF ClearCard, At, Skip, TypeOK, SentTypes
  <2>5. QED
    BY <2>1, <2>2, <2>3, <2>4 DEF TypeOK
<1>18. CASE CardRefused
  <2>1. OrderTypes'
    BY <1>18, SameOrders DEF CardRefused, AtChat, At, Skip, TypeOK, OrderTypes
  <2>2. ShopTypes'
    BY <1>18 DEF CardRefused, AtChat, At, Skip, TypeOK, ShopTypes
  <2>3. WorkerTypes'
    BY <1>18, SameOrders DEF CardRefused, AtChat, At, Skip, TypeOK, WorkerTypes, NoReply
  <2>4. SentTypes'
    BY <1>18 DEF CardRefused, AtChat, At, Skip, TypeOK, SentTypes
  <2>5. QED
    BY <2>1, <2>2, <2>3, <2>4 DEF TypeOK
<1>19. CASE MeetUpgrade
  <2>1. OrderTypes'
    BY <1>19, SameOrders DEF MeetUpgrade, At, Await, TypeOK, OrderTypes
  <2>2. ShopTypes'
    BY <1>19 DEF MeetUpgrade, At, Await, TypeOK, ShopTypes
  <2>3. WorkerTypes'
    <3>1. SuperOf[chat] \in Chats
      BY <1>19, ChatsAssumption DEF MeetUpgrade, WorkerFacts, TypeOK, ShopTypes
    <3>2. QED
      BY <1>19, <3>1, SameOrders DEF MeetUpgrade, Await, TypeOK, WorkerTypes
  <2>4. SentTypes'
    BY <1>19 DEF MeetUpgrade, At, Await, TypeOK, SentTypes
  <2>5. QED
    BY <2>1, <2>2, <2>3, <2>4 DEF TypeOK
<1>20. CASE AdoptUpgrade
  <2>1. OrderTypes'
    BY <1>20, SameOrders DEF AdoptUpgrade, Await, TypeOK, OrderTypes
  <2>2. ShopTypes'
    BY <1>20 DEF AdoptUpgrade, Await, TypeOK, ShopTypes, WorkerFacts
  <2>3. WorkerTypes'
    BY <1>20, SameOrders, ChatsAssumption
       DEF AdoptUpgrade, Await, TypeOK, WorkerTypes, WorkerFacts
  <2>4. SentTypes'
    BY <1>20 DEF AdoptUpgrade, Await, TypeOK, SentTypes
  <2>5. QED
    BY <2>1, <2>2, <2>3, <2>4 DEF TypeOK
<1>21. CASE ResendAfterUpgrade
  <2>1. OrderTypes'
    <3> DEFINE C == dirty.card \cup {o \in Orders : IsOpen(o)}
               N == dirty.notify
               P == dirty.pickup
    <3>1. Status \cap {None, "deleted"} = {}
      BY ChatsAssumption DEF Status
    <3>2. /\ status' \in [Orders -> Status \cup {None, "deleted"}]
          /\ cardId' \in [Orders -> Nat \cup {None}]
          /\ Known \subseteq Known' /\ Placed \subseteq Placed'
      BY <1>21, <3>1
         DEF ResendAfterUpgrade, ResendOpenCards, IsOpen, OPEN_STATUSES, TypeOK, OrderTypes,
         Known, Placed, Status
    <3>3. C \subseteq Placed' /\ N \subseteq Placed' /\ P \subseteq Placed'
      BY <1>21, <3>1, <3>2
         DEF ResendAfterUpgrade, ResendOpenCards, IsOpen, OPEN_STATUSES, TypeOK, OrderTypes,
         Known, Placed, Status
    <3>4. dirty' \in [card : SUBSET (Placed'), notify : SUBSET (Placed'),
                      pickup : SUBSET (Placed')]
      <4>1. dirty = [card |-> dirty.card, notify |-> dirty.notify, pickup |-> dirty.pickup]
        BY DEF TypeOK, OrderTypes
      <4>2. dirty' = [card |-> C, notify |-> N, pickup |-> P]
        BY <1>21, <4>1 DEF ResendAfterUpgrade, ResendOpenCards, IsOpen, OPEN_STATUSES
      <4>3. QED
        BY <3>3, <4>2
    <3>5. chosen' \cup noted' \cup gaveUp' \subseteq Known'
      BY <1>21, <3>1, <3>2
         DEF ResendAfterUpgrade, ResendOpenCards, IsOpen, OPEN_STATUSES, TypeOK, OrderTypes,
         Known, Placed, Status
    <3>6. QED
      BY <3>2, <3>4, <3>5 DEF OrderTypes
  <2>2. ShopTypes'
    BY <1>21 DEF ResendAfterUpgrade, ResendOpenCards, TypeOK, ShopTypes
  <2>3. WorkerTypes'
    BY <1>21, SameOrders DEF ResendAfterUpgrade, ResendOpenCards, TypeOK, WorkerTypes, NoReply
  <2>4. SentTypes'
    BY <1>21 DEF ResendAfterUpgrade, ResendOpenCards, TypeOK, SentTypes
  <2>5. QED
    BY <2>1, <2>2, <2>3, <2>4 DEF TypeOK
<1>22. CASE PostPickupNote
  <2>1. OrderTypes'
    BY <1>22, SameOrders, CurrentIn
       DEF PostPickupNote, PostNote, AtChat, At, Await, TypeOK, OrderTypes
  <2>2. ShopTypes'
    BY <1>22 DEF PostPickupNote, PostNote, AtChat, At, Await, TypeOK, ShopTypes
  <2>3. WorkerTypes'
    BY <1>22, SameOrders DEF PostPickupNote, PostNote, AtChat, At, Await, TypeOK, WorkerTypes
  <2>4. SentTypes'
    BY <1>22 DEF PostPickupNote, PostNote, AtChat, At, Await, TypeOK, SentTypes
  <2>5. QED
    BY <2>1, <2>2, <2>3, <2>4 DEF TypeOK
<1>23. CASE TellCustomer
  <2>1. OrderTypes'
    BY <1>23, SameOrders
       DEF TellCustomer, Read, AtMessage, At, Message, Await, TypeOK, OrderTypes
  <2>2. ShopTypes'
    BY <1>23 DEF TellCustomer, Read, AtMessage, At, Message, Await, TypeOK, ShopTypes
  <2>3. WorkerTypes'
    BY <1>23, SameOrders
       DEF TellCustomer, Read, AtMessage, At, Message, Await, TypeOK, WorkerTypes
  <2>4. SentTypes'
    BY <1>23, ReadTypes DEF TellCustomer, AtMessage, At, Read, TypeOK, SentTypes
  <2>5. QED
    BY <2>1, <2>2, <2>3, <2>4 DEF TypeOK
<1>24. CASE MeetBlock
  <2>1. OrderTypes'
    BY <1>24, SameOrders, CurrentIn
       DEF MeetBlock, SetBlocked, AtMessage, At, Await, TypeOK, OrderTypes
  <2>2. ShopTypes'
    BY <1>24 DEF MeetBlock, SetBlocked, AtMessage, At, Await, TypeOK, ShopTypes
  <2>3. WorkerTypes'
    BY <1>24, SameOrders DEF MeetBlock, SetBlocked, AtMessage, At, Await, TypeOK, WorkerTypes
  <2>4. SentTypes'
    BY <1>24 DEF MeetBlock, SetBlocked, AtMessage, At, Await, TypeOK, SentTypes
  <2>5. QED
    BY <2>1, <2>2, <2>3, <2>4 DEF TypeOK
<1>25. CASE ClearPickup
  <2>1. OrderTypes'
    BY <1>25, SameOrders, CurrentIn
       DEF ClearPickup, Told, At, Skip, BlockedCards, TypeOK, OrderTypes, Placed
  <2>2. ShopTypes'
    BY <1>25 DEF ClearPickup, Told, At, Skip, BlockedCards, TypeOK, ShopTypes
  <2>3. WorkerTypes'
    BY <1>25, SameOrders
       DEF ClearPickup, Told, At, Skip, BlockedCards, TypeOK, WorkerTypes, NoReply
  <2>4. SentTypes'
    BY <1>25 DEF ClearPickup, Told, At, Skip, BlockedCards, TypeOK, SentTypes
  <2>5. QED
    BY <2>1, <2>2, <2>3, <2>4 DEF TypeOK
<1>26. CASE ClearNotice
  <2>1. OrderTypes'
    BY <1>26, SameOrders, CurrentIn
       DEF ClearNotice, Told, At, Skip, BlockedCards, TypeOK, OrderTypes, Placed
  <2>2. ShopTypes'
    BY <1>26 DEF ClearNotice, Told, At, Skip, BlockedCards, TypeOK, ShopTypes
  <2>3. WorkerTypes'
    BY <1>26, SameOrders
       DEF ClearNotice, Told, At, Skip, BlockedCards, TypeOK, WorkerTypes, NoReply
  <2>4. SentTypes'
    BY <1>26 DEF ClearNotice, Told, At, Skip, BlockedCards, TypeOK, SentTypes
  <2>5. QED
    BY <2>1, <2>2, <2>3, <2>4 DEF TypeOK
<1>27. CASE RowMissing
  <2>1. OrderTypes'
    BY <1>27, SameOrders DEF RowMissing, Told, At, EndPass, TypeOK, OrderTypes
  <2>2. ShopTypes'
    BY <1>27 DEF RowMissing, Told, At, EndPass, TypeOK, ShopTypes
  <2>3. WorkerTypes'
    BY <1>27, SameOrders DEF RowMissing, Told, At, EndPass, TypeOK, WorkerTypes, NoReply
  <2>4. SentTypes'
    BY <1>27 DEF RowMissing, Told, At, EndPass, TypeOK, SentTypes
  <2>5. QED
    BY <2>1, <2>2, <2>3, <2>4 DEF TypeOK
<1>28. CASE Resume
  <2>1. OrderTypes'
    BY <1>28, SameOrders DEF Resume, TypeOK, OrderTypes
  <2>2. ShopTypes'
    BY <1>28 DEF Resume, TypeOK, ShopTypes
  <2>3. WorkerTypes'
    BY <1>28, SameOrders DEF Resume, TypeOK, WorkerTypes
  <2>4. SentTypes'
    BY <1>28 DEF Resume, TypeOK, SentTypes
  <2>5. QED
    BY <2>1, <2>2, <2>3, <2>4 DEF TypeOK
<1>29. CASE Unreachable
  <2>1. OrderTypes'
    BY <1>29, SameOrders
       DEF Unreachable, Calls, AtMessage, At, Skip, Fault, Spend, TypeOK, OrderTypes
  <2>2. ShopTypes'
    BY <1>29, SpendTypes DEF Unreachable, Calls, AtMessage, At, Skip, Fault, TypeOK, ShopTypes
  <2>3. WorkerTypes'
    BY <1>29, SameOrders
       DEF Unreachable, Calls, AtMessage, At, Skip, Fault, Spend, TypeOK, WorkerTypes, NoReply
  <2>4. SentTypes'
    BY <1>29 DEF Unreachable, Calls, AtMessage, At, Skip, Fault, Spend, TypeOK, SentTypes
  <2>5. QED
    BY <2>1, <2>2, <2>3, <2>4 DEF TypeOK
<1>30. CASE AnswerLost
  <2>1. OrderTypes'
    BY <1>30, SameOrders, CurrentIn
       DEF AnswerLost, AtChat, AtMessage, At, Deliver, PostNote, Read, Message, Skip, Fault,
       Spend, TypeOK, OrderTypes
  <2>2. ShopTypes'
    BY <1>30, SpendTypes
       DEF AnswerLost, AtChat, AtMessage, At, Deliver, PostNote, Read, Message, Skip, Fault,
       TypeOK, ShopTypes
  <2>3. WorkerTypes'
    BY <1>30, SameOrders
       DEF AnswerLost, AtChat, AtMessage, At, Deliver, PostNote, Read, Message, Skip, Fault,
       Spend, TypeOK, WorkerTypes, NoReply
  <2>4. SentTypes'
    <3>1. CASE AtChat("cards") /\ Deliver(Current)
      BY <3>1, DeliverTypes DEF AtChat, At, TypeOK, ShopTypes, WorkerTypes
    <3>2. CASE AtChat("pickups") /\ PostNote(Current.order)
      BY <3>2 DEF PostNote, TypeOK, SentTypes
    <3>3. CASE AtMessage /\ Read
      BY <3>3, ReadTypes DEF AtMessage, At, Read, TypeOK, SentTypes
    <3>4. QED
      BY <1>30, <3>1, <3>2, <3>3 DEF AnswerLost
  <2>5. QED
    BY <2>1, <2>2, <2>3, <2>4 DEF TypeOK
<1>31. CASE RateLimited
  <2>1. OrderTypes'
    BY <1>31, SameOrders
       DEF RateLimited, Calls, AtMessage, At, EndPass, Fault, Spend, TypeOK, OrderTypes
  <2>2. ShopTypes'
    BY <1>31, SpendTypes
       DEF RateLimited, Calls, AtMessage, At, EndPass, Fault, TypeOK, ShopTypes
  <2>3. WorkerTypes'
    BY <1>31, SameOrders
       DEF RateLimited, Calls, AtMessage, At, EndPass, Fault, Spend, TypeOK, WorkerTypes,
       NoReply
  <2>4. SentTypes'
    BY <1>31 DEF RateLimited, Calls, AtMessage, At, EndPass, Fault, Spend, TypeOK, SentTypes
  <2>5. QED
    BY <2>1, <2>2, <2>3, <2>4 DEF TypeOK
<1>32. CASE Dropped
  <2>1. OrderTypes'
    BY <1>32, SameOrders, CurrentIn
       DEF Dropped, AtMessage, At, Await, Fault, Spend, TypeOK, OrderTypes
  <2>2. ShopTypes'
    BY <1>32, SpendTypes DEF Dropped, AtMessage, At, Await, Fault, TypeOK, ShopTypes
  <2>3. WorkerTypes'
    BY <1>32, SameOrders DEF Dropped, AtMessage, At, Await, Fault, Spend, TypeOK, WorkerTypes
  <2>4. SentTypes'
    BY <1>32 DEF Dropped, AtMessage, At, Await, Fault, Spend, TypeOK, SentTypes
  <2>5. QED
    BY <2>1, <2>2, <2>3, <2>4 DEF TypeOK
<1>33. CASE Crash
  <2>1. OrderTypes'
    BY <1>33, SameOrders DEF Crash, EndPass, Fault, Spend, TypeOK, OrderTypes
  <2>2. ShopTypes'
    BY <1>33, SpendTypes DEF Crash, EndPass, Fault, TypeOK, ShopTypes
  <2>3. WorkerTypes'
    BY <1>33, SameOrders DEF Crash, EndPass, Fault, Spend, TypeOK, WorkerTypes, NoReply
  <2>4. SentTypes'
    BY <1>33 DEF Crash, EndPass, Fault, Spend, TypeOK, SentTypes
  <2>5. QED
    BY <2>1, <2>2, <2>3, <2>4 DEF TypeOK
<1>34. CASE UNCHANGED vars
  <2>1. OrderTypes'
    BY <1>34, SameOrders DEF vars, TypeOK, OrderTypes
  <2>2. ShopTypes'
    BY <1>34 DEF vars, TypeOK, ShopTypes
  <2>3. WorkerTypes'
    BY <1>34, SameOrders DEF vars, TypeOK, WorkerTypes
  <2>4. SentTypes'
    BY <1>34 DEF vars, TypeOK, SentTypes
  <2>5. QED
    BY <2>1, <2>2, <2>3, <2>4 DEF TypeOK
<1>35. ASSUME NEW c \in Chats, NEW i \in DOMAIN cards[c], DeleteCard(c, i)
       PROVE  TypeOK'
  <2>1. OrderTypes'
    BY <1>35, SameOrders DEF DeleteCard, TypeOK, OrderTypes
  <2>2. ShopTypes'
    BY <1>35 DEF DeleteCard, TypeOK, ShopTypes
  <2>3. WorkerTypes'
    BY <1>35, SameOrders DEF DeleteCard, TypeOK, WorkerTypes
  <2>4. SentTypes'
    <3>1. i \in Nat
      BY DEF TypeOK, SentTypes
    <3>2. /\ spoilt'.deleted = spoilt.deleted \cup {<<c, i>>}
          /\ spoilt' = [deleted |-> spoilt'.deleted, refused |-> spoilt.refused]
      BY <1>35 DEF DeleteCard, TypeOK, SentTypes
    <3>3. spoilt'.deleted \in SUBSET (Chats \X Nat)
      BY <3>1, <3>2 DEF TypeOK, SentTypes
    <3>4. spoilt' \in [deleted : SUBSET (Chats \X Nat), refused : SUBSET (Chats \X Nat)]
      BY <3>2, <3>3 DEF TypeOK, SentTypes
    <3>5. UNCHANGED <<cards, inbox>>
      BY <1>35 DEF DeleteCard
    <3>6. QED
      BY <3>4, <3>5 DEF TypeOK, SentTypes
  <2>5. QED
    BY <2>1, <2>2, <2>3, <2>4 DEF TypeOK
<1>36. CASE EditRefused
  <2>1. OrderTypes'
    BY <1>36, SameOrders DEF EditRefused, RefuseEdit, AtChat, At, Await, Fault, Spend, TypeOK, OrderTypes
  <2>2. ShopTypes'
    BY <1>36, SpendTypes DEF EditRefused, RefuseEdit, AtChat, At, Await, Fault, TypeOK, ShopTypes
  <2>3. WorkerTypes'
    BY <1>36, SameOrders
       DEF EditRefused, RefuseEdit, AtChat, At, Await, Fault, Spend, TypeOK, WorkerTypes
  <2>4. SentTypes'
    <3>1. chat \in Chats
      BY <1>36 DEF EditRefused, AtChat, At, TypeOK, ShopTypes, WorkerTypes
    <3>2. Current.id \in Nat
      BY <1>36, CurrentIn DEF EditRefused, RefuseEdit, AtChat, At, TypeOK, WorkerTypes
    <3>3. /\ spoilt'.refused = spoilt.refused \cup {<<chat, Current.id>>}
          /\ spoilt' = [deleted |-> spoilt.deleted, refused |-> spoilt'.refused]
      BY <1>36 DEF EditRefused, RefuseEdit, TypeOK, SentTypes
    <3>4. spoilt'.refused \in SUBSET (Chats \X Nat)
      BY <3>1, <3>2, <3>3 DEF TypeOK, SentTypes
    <3>5. spoilt' \in [deleted : SUBSET (Chats \X Nat), refused : SUBSET (Chats \X Nat)]
      BY <3>3, <3>4 DEF TypeOK, SentTypes
    <3>6. UNCHANGED <<cards, inbox>>
      BY <1>36 DEF EditRefused, RefuseEdit
    <3>7. QED
      BY <3>5, <3>6 DEF TypeOK, SentTypes
  <2>5. QED
    BY <2>1, <2>2, <2>3, <2>4 DEF TypeOK
<1>. QED
  BY <1>1, <1>2, <1>3, <1>4, <1>5, <1>6, <1>7, <1>8, <1>9, <1>10, <1>11, <1>12, <1>13, <1>14,
     <1>15, <1>16, <1>17, <1>18, <1>19, <1>20, <1>21, <1>22, <1>23, <1>24, <1>25, <1>26, <1>27,
     <1>28, <1>29, <1>30, <1>31, <1>32, <1>33, <1>34, <1>35, <1>36
     DEF Next, Drain, Handlers, Outside, Failures

(***************************************************************************)
(* Where the worker stands and what it has read                            *)
(***************************************************************************)
LEMMA RowsAre ==
    ASSUME NEW flagged
    PROVE  \A row \in Rows(flagged) : row.order \in flagged /\ row = Row(row.order)
<1> SUFFICES ASSUME NEW row \in Rows(flagged)
             PROVE  row.order \in flagged /\ row = Row(row.order)
  OBVIOUS
<1>1. PICK o \in flagged : row = Row(o)
  BY DEF Rows
<1>2. row.order = o
  BY <1>1 DEF Row
<1>3. QED
  BY <1>1, <1>2

\* Every step keeps what is known of the worker.
LEMMA WorkerStep == TypeOK /\ WorkerFacts /\ [Next]_vars => WorkerFacts'
<1> SUFFICES ASSUME TypeOK, WorkerFacts, [Next]_vars PROVE WorkerFacts'
  OBVIOUS
<1> USE DEF orderVars, shopVars, customerVars, workerVars, chatVars, outsideVars,
            othersThanRows, hands
<1> USE ChatsAssumption, SupergroupsStay
<1>1. ASSUME NEW o \in Orders, PlaceOrder(o)
      PROVE  WorkerFacts'
  BY <1>1 DEF PlaceOrder, Owe, WorkerFacts, TypeOK, ShopTypes, WorkerTypes, NoReply
<1>2. ASSUME NEW o \in Orders, ChoosePickup(o)
      PROVE  WorkerFacts'
  BY <1>2 DEF ChoosePickup, WorkerFacts, TypeOK, ShopTypes, WorkerTypes, NoReply
<1>3. ASSUME NEW o \in Orders, NEW to \in Status, ChangeStatus(o, to)
      PROVE  WorkerFacts'
  BY <1>3 DEF ChangeStatus, Owe, WorkerFacts, TypeOK, ShopTypes, WorkerTypes, NoReply
<1>4. ASSUME NEW o \in Orders, NEW to \in Status, StaleButton(o, to)
      PROVE  WorkerFacts'
  BY <1>4 DEF StaleButton, WorkerFacts, TypeOK, ShopTypes, WorkerTypes, NoReply
<1>5. CASE ClearOrders
  BY <1>5 DEF ClearOrders, Spend, WorkerFacts, TypeOK, ShopTypes, WorkerTypes, NoReply
<1>6. ASSUME NEW c \in Customers, ToggleBlock(c)
      PROVE  WorkerFacts'
  BY <1>6 DEF ToggleBlock, Spend, WorkerFacts, TypeOK, ShopTypes, WorkerTypes, NoReply
<1>7. ASSUME NEW c \in Chats, BindChat(c)
      PROVE  WorkerFacts'
  BY <1>7 DEF BindChat, MoveTo, Spend, WorkerFacts, TypeOK, ShopTypes, WorkerTypes, NoReply
<1>8. ASSUME NEW c \in Chats, UpgradeChat(c)
      PROVE  WorkerFacts'
  BY <1>8 DEF UpgradeChat, Spend, WorkerFacts, TypeOK, ShopTypes, WorkerTypes, NoReply
<1>9. CASE FollowUpgrade
  BY <1>9 DEF FollowUpgrade, MoveTo, WorkerFacts, TypeOK, ShopTypes, WorkerTypes, NoReply
<1>10. CASE FinishMove
  BY <1>10 DEF FinishMove, ResendOpenCards, WorkerFacts, TypeOK, ShopTypes, WorkerTypes, NoReply
<1>11. ASSUME NEW c \in Customers, HandleUpdate(c)
      PROVE  WorkerFacts'
  BY <1>11 DEF HandleUpdate, SetBlocked, WorkerFacts, TypeOK, ShopTypes, WorkerTypes, NoReply
<1>12. ASSUME NEW c \in Customers, NEW who \in {"chat", "worker"}, MarkCards(c, who)
      PROVE  WorkerFacts'
  BY <1>12 DEF MarkCards, WorkerFacts, TypeOK, ShopTypes, WorkerTypes, NoReply
<1>13. CASE StartPass
  BY <1>13 DEF StartPass, Enter, WorkerFacts, TypeOK, ShopTypes, WorkerTypes, NoReply
<1>14. CASE NextDrain
  BY <1>14, RowsAre DEF NextDrain, Enter, WorkerFacts, TypeOK, ShopTypes, WorkerTypes, NoReply
<1>15. CASE SendCard
  BY <1>15
     DEF SendCard, Deliver, AtChat, At, Await, WorkerFacts, TypeOK, ShopTypes, WorkerTypes,
     NoReply
<1>16. CASE StoreCardId
  BY <1>16 DEF StoreCardId, At, Await, WorkerFacts, TypeOK, ShopTypes, WorkerTypes, NoReply
<1>17. CASE ClearCard
  BY <1>17 DEF ClearCard, At, Skip, WorkerFacts, TypeOK, ShopTypes, WorkerTypes, NoReply
<1>18. CASE CardRefused
  BY <1>18
     DEF CardRefused, AtChat, At, Skip, WorkerFacts, TypeOK, ShopTypes, WorkerTypes, NoReply
<1>19. CASE MeetUpgrade
  BY <1>19 DEF MeetUpgrade, At, Await, WorkerFacts, TypeOK, ShopTypes, WorkerTypes, NoReply
<1>20. CASE AdoptUpgrade
  BY <1>20 DEF AdoptUpgrade, Await, WorkerFacts, TypeOK, ShopTypes, WorkerTypes, NoReply
<1>21. CASE ResendAfterUpgrade
  BY <1>21
     DEF ResendAfterUpgrade, ResendOpenCards, WorkerFacts, TypeOK, ShopTypes, WorkerTypes,
     NoReply
<1>22. CASE PostPickupNote
  BY <1>22
     DEF PostPickupNote, PostNote, AtChat, At, Await, WorkerFacts, TypeOK, ShopTypes,
     WorkerTypes, NoReply
<1>23. CASE TellCustomer
  BY <1>23
     DEF TellCustomer, Read, AtMessage, At, Message, Await, WorkerFacts, TypeOK, ShopTypes,
     WorkerTypes, NoReply
<1>24. CASE MeetBlock
  BY <1>24
     DEF MeetBlock, SetBlocked, AtMessage, At, Await, WorkerFacts, TypeOK, ShopTypes,
     WorkerTypes, NoReply
<1>25. CASE ClearPickup
  BY <1>25
     DEF ClearPickup, Told, At, Skip, BlockedCards, WorkerFacts, TypeOK, ShopTypes, WorkerTypes,
     NoReply
<1>26. CASE ClearNotice
  BY <1>26
     DEF ClearNotice, Told, At, Skip, BlockedCards, WorkerFacts, TypeOK, ShopTypes, WorkerTypes,
     NoReply
<1>27. CASE RowMissing
  BY <1>27
     DEF RowMissing, Told, At, EndPass, WorkerFacts, TypeOK, ShopTypes, WorkerTypes, NoReply
<1>28. CASE Resume
  BY <1>28 DEF Resume, WorkerFacts, TypeOK, ShopTypes, WorkerTypes, NoReply
<1>29. CASE Unreachable
  BY <1>29
     DEF Unreachable, Calls, AtMessage, At, Skip, Fault, Spend, WorkerFacts, TypeOK, ShopTypes,
     WorkerTypes, NoReply
<1>30. CASE AnswerLost
  BY <1>30
     DEF AnswerLost, AtChat, AtMessage, At, Deliver, PostNote, Read, Message, Skip, Fault,
     Spend, WorkerFacts, TypeOK, ShopTypes, WorkerTypes, NoReply
<1>31. CASE RateLimited
  BY <1>31
     DEF RateLimited, Calls, AtMessage, At, EndPass, Fault, Spend, WorkerFacts, TypeOK,
     ShopTypes, WorkerTypes, NoReply
<1>32. CASE Dropped
  BY <1>32
     DEF Dropped, AtMessage, At, Await, Fault, Spend, WorkerFacts, TypeOK, ShopTypes,
     WorkerTypes, NoReply
<1>33. CASE Crash
  BY <1>33
     DEF Crash, EndPass, Fault, Spend, WorkerFacts, TypeOK, ShopTypes, WorkerTypes, NoReply
<1>34. CASE UNCHANGED vars
  BY <1>34 DEF vars, WorkerFacts, TypeOK, ShopTypes, WorkerTypes, NoReply
<1>35. ASSUME NEW c \in Chats, NEW i \in DOMAIN cards[c], DeleteCard(c, i)
       PROVE  WorkerFacts'
  BY <1>35 DEF DeleteCard, WorkerFacts, TypeOK, ShopTypes, WorkerTypes, NoReply
<1>36. CASE EditRefused
  BY <1>36
     DEF EditRefused, RefuseEdit, AtChat, At, Await, Fault, Spend, WorkerFacts, TypeOK,
     ShopTypes, WorkerTypes, NoReply
<1>. QED
  BY <1>1, <1>2, <1>3, <1>4, <1>5, <1>6, <1>7, <1>8, <1>9, <1>10, <1>11, <1>12, <1>13, <1>14,
     <1>15, <1>16, <1>17, <1>18, <1>19, <1>20, <1>21, <1>22, <1>23, <1>24, <1>25, <1>26, <1>27,
     <1>28, <1>29, <1>30, <1>31, <1>32, <1>33, <1>34, <1>35, <1>36
     DEF Next, Drain, Handlers, Outside, Failures

\* Every step keeps what is known of the batch.
LEMMA RowStep == TypeOK /\ WorkerFacts /\ RowFacts /\ [Next]_vars => RowFacts'
<1> SUFFICES ASSUME TypeOK, WorkerFacts, RowFacts, [Next]_vars PROVE RowFacts'
  OBVIOUS
<1> USE DEF orderVars, shopVars, customerVars, workerVars, chatVars, outsideVars,
            othersThanRows, hands
<1>0. /\ Status \cap {None, "deleted"} = {}
      /\ dirty = [card |-> dirty.card, notify |-> dirty.notify, pickup |-> dirty.pickup]
  BY ChatsAssumption DEF Status, TypeOK, OrderTypes
<1>1. ASSUME NEW o \in Orders, PlaceOrder(o)
      PROVE  RowFacts'
  BY <1>0, <1>1, CurrentIn, RowsAre
     DEF PlaceOrder, Owe, RowFacts, WorkerFacts, TypeOK, WorkerTypes, OrderTypes, Known, Placed,
     Flagged
<1>2. ASSUME NEW o \in Orders, ChoosePickup(o)
      PROVE  RowFacts'
  BY <1>0, <1>2, CurrentIn, RowsAre
     DEF ChoosePickup, RowFacts, WorkerFacts, TypeOK, WorkerTypes, OrderTypes, Known, Placed,
     Flagged
<1>3. ASSUME NEW o \in Orders, NEW to \in Status, ChangeStatus(o, to)
      PROVE  RowFacts'
  <2>1. Known' = Known /\ Placed' = Placed
    BY <1>0, <1>3 DEF ChangeStatus, SourcesOf, Known, Placed, TypeOK, OrderTypes
  <2>2. dirty' = [card |-> dirty.card \cup {o}, notify |-> dirty.notify \cup {o},
                  pickup |-> dirty.pickup]
    BY <1>0, <1>3 DEF ChangeStatus, Owe
  <2>3. UNCHANGED <<phase, batch, chosen>>
    BY <1>3 DEF ChangeStatus
  <2>4. QED
    BY <2>1, <2>2, <2>3 DEF RowFacts, Flagged
<1>4. ASSUME NEW o \in Orders, NEW to \in Status, StaleButton(o, to)
      PROVE  RowFacts'
  BY <1>0, <1>4, CurrentIn, RowsAre
     DEF StaleButton, RowFacts, WorkerFacts, TypeOK, WorkerTypes, OrderTypes, Known, Placed,
     Flagged
<1>5. CASE ClearOrders
  BY <1>0, <1>5, CurrentIn, RowsAre
     DEF ClearOrders, Spend, RowFacts, WorkerFacts, TypeOK, WorkerTypes, OrderTypes, Known,
     Placed, Flagged
<1>6. ASSUME NEW c \in Customers, ToggleBlock(c)
      PROVE  RowFacts'
  BY <1>0, <1>6, CurrentIn, RowsAre
     DEF ToggleBlock, Spend, RowFacts, WorkerFacts, TypeOK, WorkerTypes, OrderTypes, Known,
     Placed, Flagged
<1>7. ASSUME NEW c \in Chats, BindChat(c)
      PROVE  RowFacts'
  BY <1>0, <1>7, CurrentIn, RowsAre
     DEF BindChat, MoveTo, Spend, RowFacts, WorkerFacts, TypeOK, WorkerTypes, OrderTypes, Known,
     Placed, Flagged
<1>8. ASSUME NEW c \in Chats, UpgradeChat(c)
      PROVE  RowFacts'
  BY <1>0, <1>8, CurrentIn, RowsAre
     DEF UpgradeChat, Spend, RowFacts, WorkerFacts, TypeOK, WorkerTypes, OrderTypes, Known,
     Placed, Flagged
<1>9. CASE FollowUpgrade
  BY <1>0, <1>9, CurrentIn, RowsAre
     DEF FollowUpgrade, MoveTo, RowFacts, WorkerFacts, TypeOK, WorkerTypes, OrderTypes, Known,
     Placed, Flagged
<1>10. CASE FinishMove
  BY <1>0, <1>10, CurrentIn, RowsAre
     DEF FinishMove, ResendOpenCards, RowFacts, WorkerFacts, TypeOK, WorkerTypes, OrderTypes,
     Known, Placed, Flagged
<1>11. ASSUME NEW c \in Customers, HandleUpdate(c)
      PROVE  RowFacts'
  BY <1>0, <1>11, CurrentIn, RowsAre
     DEF HandleUpdate, SetBlocked, RowFacts, WorkerFacts, TypeOK, WorkerTypes, OrderTypes,
     Known, Placed, Flagged
<1>12. ASSUME NEW c \in Customers, NEW who \in {"chat", "worker"}, MarkCards(c, who)
      PROVE  RowFacts'
  BY <1>0, <1>12, CurrentIn, RowsAre
     DEF MarkCards, RowFacts, WorkerFacts, TypeOK, WorkerTypes, OrderTypes, Known, Placed,
     Flagged
<1>13. CASE StartPass
  BY <1>0, <1>13, CurrentIn, RowsAre
     DEF StartPass, Enter, RowFacts, WorkerFacts, TypeOK, WorkerTypes, OrderTypes, Known,
     Placed, Flagged
<1>14. CASE NextDrain
  BY <1>0, <1>14, CurrentIn, RowsAre
     DEF NextDrain, Enter, RowFacts, WorkerFacts, TypeOK, WorkerTypes, OrderTypes, Known,
     Placed, Flagged
<1>15. CASE SendCard
  BY <1>0, <1>15, CurrentIn, RowsAre
     DEF SendCard, Deliver, AtChat, At, Await, RowFacts, WorkerFacts, TypeOK, WorkerTypes,
     OrderTypes, Known, Placed, Flagged
<1>16. CASE StoreCardId
  BY <1>0, <1>16, CurrentIn, RowsAre
     DEF StoreCardId, At, Await, RowFacts, WorkerFacts, TypeOK, WorkerTypes, OrderTypes, Known,
     Placed, Flagged
<1>17. CASE ClearCard
  BY <1>0, <1>17, CurrentIn, RowsAre
     DEF ClearCard, At, Skip, RowFacts, WorkerFacts, TypeOK, WorkerTypes, OrderTypes, Known,
     Placed, Flagged
<1>18. CASE CardRefused
  BY <1>0, <1>18, CurrentIn, RowsAre
     DEF CardRefused, AtChat, At, Skip, RowFacts, WorkerFacts, TypeOK, WorkerTypes, OrderTypes,
     Known, Placed, Flagged
<1>19. CASE MeetUpgrade
  BY <1>0, <1>19, CurrentIn, RowsAre
     DEF MeetUpgrade, At, Await, RowFacts, WorkerFacts, TypeOK, WorkerTypes, OrderTypes, Known,
     Placed, Flagged
<1>20. CASE AdoptUpgrade
  BY <1>0, <1>20, CurrentIn, RowsAre
     DEF AdoptUpgrade, Await, RowFacts, WorkerFacts, TypeOK, WorkerTypes, OrderTypes, Known,
     Placed, Flagged
<1>21. CASE ResendAfterUpgrade
  BY <1>0, <1>21, CurrentIn, RowsAre
     DEF ResendAfterUpgrade, ResendOpenCards, RowFacts, WorkerFacts, TypeOK, WorkerTypes,
     OrderTypes, Known, Placed, Flagged
<1>22. CASE PostPickupNote
  BY <1>0, <1>22, CurrentIn, RowsAre
     DEF PostPickupNote, PostNote, AtChat, At, Await, RowFacts, WorkerFacts, TypeOK,
     WorkerTypes, OrderTypes, Known, Placed, Flagged
<1>23. CASE TellCustomer
  BY <1>0, <1>23, CurrentIn, RowsAre
     DEF TellCustomer, Read, AtMessage, At, Message, Await, RowFacts, WorkerFacts, TypeOK,
     WorkerTypes, OrderTypes, Known, Placed, Flagged
<1>24. CASE MeetBlock
  BY <1>0, <1>24, CurrentIn, RowsAre
     DEF MeetBlock, SetBlocked, AtMessage, At, Await, RowFacts, WorkerFacts, TypeOK,
     WorkerTypes, OrderTypes, Known, Placed, Flagged
<1>25. CASE ClearPickup
  BY <1>0, <1>25, CurrentIn, RowsAre
     DEF ClearPickup, Told, At, Skip, BlockedCards, RowFacts, WorkerFacts, TypeOK, WorkerTypes,
     OrderTypes, Known, Placed, Flagged
<1>26. CASE ClearNotice
  BY <1>0, <1>26, CurrentIn, RowsAre
     DEF ClearNotice, Told, At, Skip, BlockedCards, RowFacts, WorkerFacts, TypeOK, WorkerTypes,
     OrderTypes, Known, Placed, Flagged
<1>27. CASE RowMissing
  BY <1>0, <1>27, CurrentIn, RowsAre
     DEF RowMissing, Told, At, EndPass, RowFacts, WorkerFacts, TypeOK, WorkerTypes, OrderTypes,
     Known, Placed, Flagged
<1>28. CASE Resume
  BY <1>0, <1>28, CurrentIn, RowsAre
     DEF Resume, RowFacts, WorkerFacts, TypeOK, WorkerTypes, OrderTypes, Known, Placed, Flagged
<1>29. CASE Unreachable
  BY <1>0, <1>29, CurrentIn, RowsAre
     DEF Unreachable, Calls, AtMessage, At, Skip, Fault, Spend, RowFacts, WorkerFacts, TypeOK,
     WorkerTypes, OrderTypes, Known, Placed, Flagged
<1>30. CASE AnswerLost
  BY <1>0, <1>30, CurrentIn, RowsAre
     DEF AnswerLost, AtChat, AtMessage, At, Deliver, PostNote, Read, Message, Skip, Fault,
     Spend, RowFacts, WorkerFacts, TypeOK, WorkerTypes, OrderTypes, Known, Placed, Flagged
<1>31. CASE RateLimited
  BY <1>0, <1>31, CurrentIn, RowsAre
     DEF RateLimited, Calls, AtMessage, At, EndPass, Fault, Spend, RowFacts, WorkerFacts,
     TypeOK, WorkerTypes, OrderTypes, Known, Placed, Flagged
<1>32. CASE Dropped
  BY <1>0, <1>32, CurrentIn, RowsAre
     DEF Dropped, AtMessage, At, Await, Fault, Spend, RowFacts, WorkerFacts, TypeOK,
     WorkerTypes, OrderTypes, Known, Placed, Flagged
<1>33. CASE Crash
  BY <1>0, <1>33, CurrentIn, RowsAre
     DEF Crash, EndPass, Fault, Spend, RowFacts, WorkerFacts, TypeOK, WorkerTypes, OrderTypes,
     Known, Placed, Flagged
<1>34. CASE UNCHANGED vars
  BY <1>0, <1>34, CurrentIn, RowsAre
     DEF vars, RowFacts, WorkerFacts, TypeOK, WorkerTypes, OrderTypes, Known, Placed, Flagged
<1>35. ASSUME NEW c \in Chats, NEW i \in DOMAIN cards[c], DeleteCard(c, i)
       PROVE  RowFacts'
  BY <1>0, <1>35, CurrentIn, RowsAre
     DEF DeleteCard, RowFacts, WorkerFacts, TypeOK, WorkerTypes, OrderTypes, Known, Placed,
     Flagged
<1>36. CASE EditRefused
  BY <1>0, <1>36, CurrentIn, RowsAre
     DEF EditRefused, RefuseEdit, AtChat, At, Await, Fault, Spend, RowFacts, WorkerFacts,
     TypeOK, WorkerTypes, OrderTypes, Known, Placed, Flagged
<1>. QED
  BY <1>1, <1>2, <1>3, <1>4, <1>5, <1>6, <1>7, <1>8, <1>9, <1>10, <1>11, <1>12, <1>13, <1>14,
     <1>15, <1>16, <1>17, <1>18, <1>19, <1>20, <1>21, <1>22, <1>23, <1>24, <1>25, <1>26, <1>27,
     <1>28, <1>29, <1>30, <1>31, <1>32, <1>33, <1>34, <1>35, <1>36
     DEF Next, Drain, Handlers, Outside, Failures

(***************************************************************************)
(* The order of the notices                                                *)
(***************************************************************************)
LEMMA ReachFacts ==
    \A s \in Status :
        /\ s \in Reach(s)
        /\ \A t \in Reach(s) : t \in Status /\ TRANSITIONS[t] \subseteq Reach(s)
  BY LaterFacts DEF Reach

\* What the customer of the current row has read after one more message.
LEMMA ReadEffect ==
    ASSUME TypeOK, batch # {}, Read
    PROVE  /\ \A o \in Orders : o # Current.order => inbox'[o] = inbox[o]
           /\ Len(inbox[Current.order]) \in Nat
           /\ DOMAIN inbox[Current.order] = 1 .. Len(inbox[Current.order])
           /\ DOMAIN inbox'[Current.order] = 1 .. Len(inbox[Current.order]) + 1
           /\ \A i \in DOMAIN inbox[Current.order] :
                  inbox'[Current.order][i] = inbox[Current.order][i]
           /\ inbox'[Current.order][Len(inbox[Current.order]) + 1] = Message
<1>1. inbox \in [Orders -> Seq(Status \cup {"pickup"})] /\ Current.order \in Orders
  BY CurrentIn DEF TypeOK, SentTypes
<1>2. inbox' = [inbox EXCEPT ![Current.order] = Append(@, Message)]
  BY DEF Read
<1>3. inbox'[Current.order] = Append(inbox[Current.order], Message)
  BY <1>1, <1>2
<1>4. inbox[Current.order] \in Seq(Status \cup {"pickup"})
  BY <1>1
<1>5. \A o \in Orders : o # Current.order => inbox'[o] = inbox[o]
  BY <1>1, <1>2
<1>6. QED
  BY <1>3, <1>4, <1>5

\* A step that sends nothing, changes no status and reads no row.
LEMMA NoticeKeeps ==
    ASSUME NoticeFacts, NoticesInOrder, UNCHANGED <<inbox, status>>, batch' \subseteq batch
    PROVE  NoticeFacts' /\ NoticesInOrder'
<1>1. Known' = Known /\ Placed' = Placed
  BY SameOrders
<1>2. \A o : Notices(o)' = Notices(o)
  BY DEF Notices
<1>3. NoticeFacts'
  BY <1>1, <1>2 DEF NoticeFacts
<1>4. NoticesInOrder'
  BY <1>2 DEF NoticesInOrder
<1>5. QED
  BY <1>3, <1>4

\* A step that reads the rows of orders with a flag.
LEMMA NoticeRows ==
    ASSUME TypeOK, NoticeFacts, NoticesInOrder, UNCHANGED <<inbox, status>>,
           NEW flagged \in SUBSET Placed, batch' = Rows(flagged)
    PROVE  NoticeFacts' /\ NoticesInOrder'
<1>1. Known' = Known /\ Placed' = Placed
  BY SameOrders
<1>2. \A o : Notices(o)' = Notices(o)
  BY DEF Notices
<1>3. \A row \in batch' : row.order \in Placed /\ row.status = status[row.order]
  BY RowsAre DEF Row
<1>4. \A o \in Placed : o \in Orders /\ status[o] \in Status
  BY DEF Placed, Known, TypeOK, OrderTypes
<1>5. \A row \in batch' :
        /\ row.order \in Placed' => status'[row.order] \in Reach(row.status)
        /\ \A i \in Notices(row.order)' : row.status \in Reach(inbox'[row.order][i])
  <2> SUFFICES ASSUME NEW row \in batch'
               PROVE  /\ status[row.order] \in Reach(row.status)
                      /\ \A i \in Notices(row.order) :
                             row.status \in Reach(inbox[row.order][i])
    BY <1>1, <1>2
  <2>1. QED
    BY <1>3, <1>4, ReachFacts DEF NoticeFacts
<1>6. NoticeFacts'
  BY <1>1, <1>2, <1>5 DEF NoticeFacts
<1>7. NoticesInOrder'
  BY <1>2 DEF NoticesInOrder
<1>8. QED
  BY <1>6, <1>7

\* A message that is read.
LEMMA NoticeRead ==
    ASSUME TypeOK, WorkerFacts, RowFacts, NoticeFacts, NoticesInOrder, AtMessage, Read,
           status' = status, batch' \subseteq batch
    PROVE  NoticeFacts' /\ NoticesInOrder'
<1>0. PICK c : c = Current.order
  OBVIOUS
<1>0a. PICK n : n = Len(inbox[c])
  OBVIOUS
<1>1. Known' = Known /\ Placed' = Placed
  BY SameOrders
<1>2. /\ batch # {} /\ Current \in batch /\ c \in Orders /\ c \in Known
      /\ Current.status \in Status
  BY <1>0, CurrentIn DEF AtMessage, At, TypeOK, WorkerTypes
<1>3. /\ \A o \in Orders : o # c => inbox'[o] = inbox[o]
      /\ n \in Nat /\ DOMAIN inbox[c] = 1 .. n /\ DOMAIN inbox'[c] = 1 .. n + 1
      /\ \A i \in DOMAIN inbox[c] : inbox'[c][i] = inbox[c][i]
      /\ inbox'[c][n + 1] = Message
  BY <1>0, <1>0a, <1>2, ReadEffect
<1>4. Message = "pickup" \/ Message = Current.status
  BY DEF Message
<1>5. \A o \in Orders : o # c => Notices(o)' = Notices(o)
  BY <1>3 DEF Notices
<1>6. \A i \in Notices(c)' :
        \/ i \in Notices(c) /\ inbox'[c][i] = inbox[c][i] /\ i <= n
        \/ i = n + 1 /\ inbox'[c][i] = Current.status
  BY <1>3, <1>4 DEF Notices
<1>7. \A i \in Notices(c)' : Current.status \in Reach(inbox'[c][i])
  BY <1>0, <1>2, <1>6, ReachFacts DEF NoticeFacts
<1>8. ASSUME NEW o \in Placed, NEW i \in Notices(o)'
      PROVE  status[o] \in Reach(inbox'[o][i])
  <2>1. o \in Orders
    BY DEF Placed, Known
  <2>2. CASE o # c
    BY <1>3, <1>5, <2>1, <2>2 DEF NoticeFacts
  <2>3. CASE o = c
    BY <1>0, <1>2, <1>6, <2>3 DEF NoticeFacts
  <2>4. QED
    BY <2>2, <2>3
<1>9. ASSUME NEW row \in batch', NEW i \in Notices(row.order)'
      PROVE  row.status \in Reach(inbox'[row.order][i])
  <2>1. row \in batch /\ row.order \in Orders
    BY DEF TypeOK, WorkerTypes, Known
  <2>2. CASE row.order # c
    BY <1>3, <1>5, <2>1, <2>2 DEF NoticeFacts
  <2>3. CASE row.order = c
    BY <1>0, <1>2, <1>7, <2>1, <2>3 DEF RowFacts
  <2>4. QED
    BY <2>2, <2>3
<1>10. \A o \in Orders \ Known : inbox'[o] = <<>>
  BY <1>2, <1>3 DEF NoticeFacts
<1>11. NoticeFacts'
  BY <1>1, <1>8, <1>9, <1>10 DEF NoticeFacts
<1>12. ASSUME NEW o \in Orders, NEW i \in Notices(o)', NEW j \in Notices(o)', i < j
       PROVE  inbox'[o][j] \in Reach(inbox'[o][i])
  <2>1. CASE o # c
    BY <1>3, <1>5, <1>12, <2>1 DEF NoticesInOrder, Reach
  <2>2. CASE o = c /\ j = n + 1
    <3>1. i \in Notices(c)' /\ j \in Notices(c)'
      BY <2>2
    <3>2. inbox'[c][j] = Current.status
      BY <1>3, <1>6, <2>2, <3>1
    <3>3. QED
      BY <1>7, <2>2, <3>1, <3>2
  <2>3. CASE o = c /\ j # n + 1
    <3>0. i \in Notices(c)' /\ j \in Notices(c)'
      BY <2>3
    <3>1. i \in Notices(c) /\ j \in Notices(c) /\ inbox'[c][i] = inbox[c][i]
          /\ inbox'[c][j] = inbox[c][j]
      <4>1. j \in Notices(c) /\ inbox'[c][j] = inbox[c][j] /\ j <= n
        BY <1>6, <2>3, <3>0
      <4>2. i # n + 1
        BY <1>0a, <1>3, <1>12, <4>1 DEF Notices
      <4>3. QED
        BY <1>6, <3>0, <4>1, <4>2
    <3>2. QED
      BY <1>2, <1>12, <2>3, <3>1 DEF NoticesInOrder, Reach
  <2>4. QED
    BY <2>1, <2>2, <2>3
<1>13. NoticesInOrder'
  BY <1>12 DEF NoticesInOrder, Reach
<1>14. QED
  BY <1>11, <1>13

\* Every step keeps the order of the notices.
LEMMA NoticeStep ==
    TypeOK /\ WorkerFacts /\ RowFacts /\ NoticeFacts /\ NoticesInOrder /\ [Next]_vars
    => NoticeFacts' /\ NoticesInOrder'
<1> SUFFICES ASSUME TypeOK, WorkerFacts, RowFacts, NoticeFacts, NoticesInOrder, [Next]_vars
             PROVE  NoticeFacts' /\ NoticesInOrder'
  OBVIOUS
<1> USE DEF orderVars, shopVars, customerVars, workerVars, chatVars, outsideVars,
            othersThanRows, hands
<1>0. /\ Status \cap {None, "deleted"} = {}
      /\ dirty.card \in SUBSET Placed /\ dirty.notify \in SUBSET Placed
      /\ dirty.pickup \in SUBSET Placed /\ {} \in SUBSET Placed
  BY ChatsAssumption DEF Status, TypeOK, OrderTypes
<1>1. ASSUME NEW o \in Orders, PlaceOrder(o)
      PROVE  NoticeFacts' /\ NoticesInOrder'
  <2>1. UNCHANGED <<inbox, batch>> /\ Known' = Known \cup {o} /\ Placed' = Placed \cup {o}
    BY <1>0, <1>1 DEF PlaceOrder, Known, Placed, Status, TypeOK, OrderTypes
  <2>2. \A x : Notices(x)' = Notices(x)
    BY <2>1 DEF Notices
  <2>3. o \notin Known /\ inbox[o] = <<>> /\ Notices(o) = {}
    BY <1>1 DEF PlaceOrder, Known, NoticeFacts, Notices
  <2>4. \A x \in Orders : x # o => status'[x] = status[x]
    BY <1>1 DEF PlaceOrder, TypeOK, OrderTypes
  <2>5. NoticeFacts'
    <3>1. \A x \in Placed' : \A j \in Notices(x)' : status'[x] \in Reach(inbox'[x][j])
      BY <2>1, <2>2, <2>3, <2>4 DEF NoticeFacts, Placed, Known
    <3>2. \A row \in batch : row.order \in Orders /\ row.order # o
      BY <2>3 DEF TypeOK, WorkerTypes, Known
    <3>3. \A row \in batch' :
            /\ row.order \in Placed' => status'[row.order] \in Reach(row.status)
            /\ \A j \in Notices(row.order)' : row.status \in Reach(inbox'[row.order][j])
      BY <2>1, <2>2, <2>4, <3>2 DEF NoticeFacts
    <3>4. QED
      BY <2>1, <3>1, <3>3 DEF NoticeFacts
  <2>6. NoticesInOrder'
    BY <2>1, <2>2 DEF NoticesInOrder
  <2>7. QED
    BY <2>5, <2>6
<1>2. ASSUME NEW o \in Orders, ChoosePickup(o)
      PROVE  NoticeFacts' /\ NoticesInOrder'
  BY <1>2, NoticeKeeps DEF ChoosePickup
<1>3. ASSUME NEW o \in Orders, NEW to \in Status, ChangeStatus(o, to)
      PROVE  NoticeFacts' /\ NoticesInOrder'
  <2>1. /\ UNCHANGED <<inbox, batch>> /\ Known' = Known /\ Placed' = Placed
        /\ o \in Placed /\ to \in TRANSITIONS[status[o]] /\ status'[o] = to
        /\ \A x \in Orders : x # o => status'[x] = status[x]
    BY <1>0, <1>3 DEF ChangeStatus, SourcesOf, Known, Placed, TypeOK, OrderTypes
  <2>2. \A x : Notices(x)' = Notices(x)
    BY <2>1 DEF Notices
  <2>3. \A x \in Placed, s \in Status : status[x] \in Reach(s) => status'[x] \in Reach(s)
    BY <2>1, ReachFacts DEF Placed, Known
  <2>4. \A x \in Placed : \A j \in Notices(x)' : status'[x] \in Reach(inbox'[x][j])
    <3>1. \A x \in Placed : \A j \in Notices(x) : inbox[x][j] \in Status
      BY DEF Notices, Placed, Known, TypeOK, SentTypes
    <3>2. QED
      BY <2>1, <2>2, <2>3, <3>1 DEF NoticeFacts
  <2>5. \A row \in batch' :
          /\ row.order \in Placed' => status'[row.order] \in Reach(row.status)
          /\ \A j \in Notices(row.order)' : row.status \in Reach(inbox'[row.order][j])
    <3>1. \A row \in batch : row.status \in Status
      BY DEF TypeOK, WorkerTypes
    <3>2. QED
      BY <2>1, <2>2, <2>3, <3>1 DEF NoticeFacts
  <2>6. NoticeFacts'
    BY <2>1, <2>4, <2>5 DEF NoticeFacts
  <2>7. NoticesInOrder'
    BY <2>1, <2>2 DEF NoticesInOrder
  <2>8. QED
    BY <2>6, <2>7
<1>4. ASSUME NEW o \in Orders, NEW to \in Status, StaleButton(o, to)
      PROVE  NoticeFacts' /\ NoticesInOrder'
  BY <1>4, NoticeKeeps DEF StaleButton
<1>5. CASE ClearOrders
  <2>1. UNCHANGED <<inbox, batch>> /\ Known' = Known /\ Placed' = {}
    BY <1>5, ChatsAssumption DEF ClearOrders, Known, Placed, TypeOK, OrderTypes
  <2>2. \A x : Notices(x)' = Notices(x)
    BY <2>1 DEF Notices
  <2>3. NoticeFacts'
    BY <2>1, <2>2 DEF NoticeFacts
  <2>4. NoticesInOrder'
    BY <2>1, <2>2 DEF NoticesInOrder
  <2>5. QED
    BY <2>3, <2>4
<1>6. ASSUME NEW c \in Customers, ToggleBlock(c)
      PROVE  NoticeFacts' /\ NoticesInOrder'
  BY <1>6, NoticeKeeps DEF ToggleBlock, Spend
<1>7. ASSUME NEW c \in Chats, BindChat(c)
      PROVE  NoticeFacts' /\ NoticesInOrder'
  BY <1>7, NoticeKeeps DEF BindChat, MoveTo, Spend
<1>8. ASSUME NEW c \in Chats, UpgradeChat(c)
      PROVE  NoticeFacts' /\ NoticesInOrder'
  BY <1>8, NoticeKeeps DEF UpgradeChat, Spend
<1>9. CASE FollowUpgrade
  BY <1>9, NoticeKeeps DEF FollowUpgrade, MoveTo
<1>10. CASE FinishMove
  BY <1>10, NoticeKeeps DEF FinishMove, ResendOpenCards
<1>11. ASSUME NEW c \in Customers, HandleUpdate(c)
      PROVE  NoticeFacts' /\ NoticesInOrder'
  BY <1>11, NoticeKeeps DEF HandleUpdate, SetBlocked
<1>12. ASSUME NEW c \in Customers, NEW who \in {"chat", "worker"}, MarkCards(c, who)
      PROVE  NoticeFacts' /\ NoticesInOrder'
  BY <1>12, NoticeKeeps DEF MarkCards
<1>13. CASE StartPass
  <2>1. UNCHANGED <<inbox, status>>
    BY <1>13 DEF StartPass, Enter
  <2>2. \E flagged \in SUBSET Placed : batch' = Rows(flagged)
    BY <1>0, <1>13 DEF StartPass, Enter
  <2>3. QED
    BY <2>1, <2>2, NoticeRows
<1>14. CASE NextDrain
  <2>1. UNCHANGED <<inbox, status>>
    BY <1>14 DEF NextDrain, Enter
  <2>2. \E flagged \in SUBSET Placed : batch' = Rows(flagged)
    BY <1>0, <1>14 DEF NextDrain, Enter
  <2>3. QED
    BY <2>1, <2>2, NoticeRows
<1>15. CASE SendCard
  BY <1>15, NoticeKeeps DEF SendCard, Deliver, AtChat, At, Await
<1>16. CASE StoreCardId
  BY <1>16, NoticeKeeps DEF StoreCardId, At, Await
<1>17. CASE ClearCard
  BY <1>17, NoticeKeeps DEF ClearCard, At, Skip
<1>18. CASE CardRefused
  BY <1>18, NoticeKeeps DEF CardRefused, AtChat, At, Skip
<1>19. CASE MeetUpgrade
  BY <1>19, NoticeKeeps DEF MeetUpgrade, At, Await
<1>20. CASE AdoptUpgrade
  BY <1>20, NoticeKeeps DEF AdoptUpgrade, Await
<1>21. CASE ResendAfterUpgrade
  BY <1>21, NoticeKeeps DEF ResendAfterUpgrade, ResendOpenCards
<1>22. CASE PostPickupNote
  BY <1>22, NoticeKeeps DEF PostPickupNote, PostNote, AtChat, At, Await
<1>23. CASE TellCustomer
  BY <1>23, NoticeRead DEF TellCustomer, Await
<1>24. CASE MeetBlock
  BY <1>24, NoticeKeeps DEF MeetBlock, SetBlocked, AtMessage, At, Await
<1>25. CASE ClearPickup
  BY <1>25, NoticeKeeps DEF ClearPickup, Told, At, Skip, BlockedCards
<1>26. CASE ClearNotice
  BY <1>26, NoticeKeeps DEF ClearNotice, Told, At, Skip, BlockedCards
<1>27. CASE RowMissing
  BY <1>27, NoticeKeeps DEF RowMissing, Told, At, EndPass
<1>28. CASE Resume
  BY <1>28, NoticeKeeps DEF Resume
<1>29. CASE Unreachable
  BY <1>29, NoticeKeeps DEF Unreachable, Calls, AtMessage, At, Skip, Fault, Spend
<1>30. CASE AnswerLost
  <2>1. CASE AtMessage /\ Read
    BY <1>30, <2>1, NoticeRead DEF AnswerLost, Skip
  <2>2. CASE ~ (AtMessage /\ Read)
    BY <1>30, <2>2, NoticeKeeps DEF AnswerLost, Skip, Deliver, PostNote
  <2>3. QED
    BY <2>1, <2>2
<1>31. CASE RateLimited
  BY <1>31, NoticeKeeps DEF RateLimited, Calls, AtMessage, At, EndPass, Fault, Spend
<1>32. CASE Dropped
  BY <1>32, NoticeKeeps DEF Dropped, AtMessage, At, Await, Fault, Spend
<1>33. CASE Crash
  BY <1>33, NoticeKeeps DEF Crash, EndPass, Fault, Spend
<1>34. CASE UNCHANGED vars
  BY <1>34, NoticeKeeps DEF vars
<1>35. ASSUME NEW c \in Chats, NEW i \in DOMAIN cards[c], DeleteCard(c, i)
       PROVE  NoticeFacts' /\ NoticesInOrder'
  BY <1>35, NoticeKeeps DEF DeleteCard
<1>36. CASE EditRefused
  BY <1>36, NoticeKeeps DEF EditRefused, RefuseEdit, AtChat, At, Await, Fault, Spend
<1>. QED
  BY <1>1, <1>2, <1>3, <1>4, <1>5, <1>6, <1>7, <1>8, <1>9, <1>10, <1>11, <1>12, <1>13, <1>14,
     <1>15, <1>16, <1>17, <1>18, <1>19, <1>20, <1>21, <1>22, <1>23, <1>24, <1>25, <1>26, <1>27,
     <1>28, <1>29, <1>30, <1>31, <1>32, <1>33, <1>34, <1>35, <1>36
     DEF Next, Drain, Handlers, Outside, Failures

(***************************************************************************)
(* How often a message is read                                             *)
(***************************************************************************)
LEMMA TimesFacts ==
    ASSUME TypeOK, NEW o \in Orders, NEW m
    PROVE  /\ Times(o, m) \in Nat
           /\ (\A i \in DOMAIN inbox[o] : inbox[o][i] # m) => Times(o, m) = 0
<1>1. IsFiniteSet(DOMAIN inbox[o])
  BY FS_Interval DEF TypeOK, SentTypes
<1>2. {i \in DOMAIN inbox[o] : inbox[o][i] = m} \subseteq DOMAIN inbox[o]
  OBVIOUS
<1>3. IsFiniteSet({i \in DOMAIN inbox[o] : inbox[o][i] = m})
  BY <1>1, <1>2, FS_Subset
<1>4. ASSUME \A i \in DOMAIN inbox[o] : inbox[o][i] # m
      PROVE  Times(o, m) = 0
  <2>1. {i \in DOMAIN inbox[o] : inbox[o][i] = m} = {}
    BY <1>4
  <2>2. QED
    BY <2>1, FS_EmptySet DEF Times
<1>5. QED
  BY <1>3, <1>4, FS_CardinalityType DEF Times

\* One message more, of one order.
LEMMA TimesRead ==
    ASSUME TypeOK, batch # {}, Read, NEW o \in Orders, NEW m
    PROVE  Times(o, m)' = IF o = Current.order /\ m = Message THEN Times(o, m) + 1
                          ELSE Times(o, m)
<1>0. PICK n : n = Len(inbox[Current.order])
  OBVIOUS
<1>1. CASE o # Current.order
  <2>1. inbox'[o] = inbox[o]
    BY <1>1, ReadEffect
  <2>2. QED
    BY <1>1, <2>1 DEF Times
<1>2. CASE o = Current.order
  <2>1. /\ n \in Nat /\ DOMAIN inbox[o] = 1 .. n /\ DOMAIN inbox'[o] = 1 .. n + 1
        /\ \A i \in 1 .. n : inbox'[o][i] = inbox[o][i]
        /\ inbox'[o][n + 1] = Message
    BY <1>0, <1>2, ReadEffect
  <2> DEFINE S == {i \in DOMAIN inbox[o] : inbox[o][i] = m}
             T == {i \in DOMAIN inbox'[o] : inbox'[o][i] = m}
  <2>2. T = IF m = Message THEN S \cup {n + 1} ELSE S
    BY <2>1
  <2>3. IsFiniteSet(S) /\ n + 1 \notin S
    <3>1. S \subseteq 1 .. n /\ IsFiniteSet(1 .. n)
      BY <2>1, FS_Interval
    <3>2. QED
      BY <2>1, <3>1, FS_Subset
  <2>4. Cardinality(S \cup {n + 1}) = Cardinality(S) + 1
    BY <2>3, FS_AddElement
  <2>5. QED
    BY <1>2, <2>2, <2>4 DEF Times
<1>3. QED
  BY <1>1, <1>2

\* A step that sends nothing and makes no message due, except at the price of a fault.
LEMMA MessageKeeps ==
    ASSUME TypeOK, MessageFacts, inbox' = inbox, chosen \subseteq chosen',
           spent'.faults \in Nat, spent'.faults >= spent.faults,
           \A o \in Orders, m \in Status \cup {"pickup"} :
               Due(o, m)' => Due(o, m) \/ Times(o, m) = 0 \/ spent'.faults > spent.faults
    PROVE  MessageFacts'
<1> SUFFICES ASSUME NEW o \in Orders
             PROVE  /\ \A m \in Status \cup {"pickup"} :
                        /\ Times(o, m)' <= 1 + spent'.faults
                        /\ Due(o, m)' => Times(o, m)' <= spent'.faults
                    /\ \A i \in DOMAIN inbox'[o] : inbox'[o][i] = "pickup" => o \in chosen'
  BY DEF MessageFacts
<1>1. spent.faults \in Nat
  BY SyncBounds DEF TypeOK, ShopTypes
<1>2. \A m : Times(o, m)' = Times(o, m)
  BY DEF Times
<1>3. \A m : Times(o, m) \in Nat
  BY TimesFacts
<1>4. \A i \in DOMAIN inbox'[o] : inbox'[o][i] = "pickup" => o \in chosen'
  BY DEF MessageFacts
<1>5. ASSUME NEW m \in Status \cup {"pickup"}
      PROVE  /\ Times(o, m)' <= 1 + spent'.faults
             /\ Due(o, m)' => Times(o, m)' <= spent'.faults
  BY <1>1, <1>2, <1>3, <1>5 DEF MessageFacts
<1>6. QED
  BY <1>4, <1>5

\* Every step keeps the count of the messages.
LEMMA MessageStep ==
    TypeOK /\ WorkerFacts /\ RowFacts /\ NoticeFacts /\ MessageFacts /\ [Next]_vars
    => MessageFacts'
<1> SUFFICES ASSUME TypeOK, WorkerFacts, RowFacts, NoticeFacts, MessageFacts, [Next]_vars
             PROVE  MessageFacts'
  OBVIOUS
<1> USE DEF orderVars, shopVars, customerVars, workerVars, chatVars, outsideVars,
            othersThanRows, hands
<1> DEFINE Caused == \A x \in Orders, m \in Status \cup {"pickup"} :
               Due(x, m)' => Due(x, m) \/ Times(x, m) = 0 \/ spent'.faults > spent.faults
<1>0. /\ Status \cap {None, "deleted", "pickup"} = {}
      /\ dirty = [card |-> dirty.card, notify |-> dirty.notify, pickup |-> dirty.pickup]
      /\ dirty.notify \subseteq Placed /\ dirty.pickup \subseteq Placed
      /\ \A k \in {"moves", "toggles", "faults", "clears"} : spent[k] \in Nat
      /\ spent.faults \in Nat
  BY ChatsAssumption, SyncBounds DEF Status, TypeOK, OrderTypes, ShopTypes
<1>1. ASSUME NEW o \in Orders, PlaceOrder(o)
      PROVE  MessageFacts'
  <2>1. \A m : Times(o, m) = 0
    BY <1>1, TimesFacts DEF PlaceOrder, Known, NoticeFacts
  <2>2. ASSUME NEW x \in Orders, NEW m \in Status \cup {"pickup"}, Due(x, m)', x # o
        PROVE  Due(x, m)
    BY <1>0, <1>1, <2>2, SameCurrent
       DEF PlaceOrder, Owe, Due, Settling, Asks, Carries, TypeOK, OrderTypes
  <2>3. Caused
    BY <2>1, <2>2
  <2>4. QED
    BY <1>0, <1>1, <2>3, MessageKeeps DEF PlaceOrder, TypeOK, ShopTypes
<1>2. ASSUME NEW o \in Orders, ChoosePickup(o)
      PROVE  MessageFacts'
  <2>1. Times(o, "pickup") = 0
    BY <1>2, TimesFacts DEF ChoosePickup, MessageFacts
  <2>2. ASSUME NEW x \in Orders, NEW m \in Status \cup {"pickup"}, Due(x, m)',
               ~ (x = o /\ m = "pickup")
        PROVE  Due(x, m)
    BY <1>0, <1>2, <2>2, SameCurrent DEF ChoosePickup, Due, Settling, Asks, Carries
  <2>3. Caused
    BY <2>1, <2>2
  <2>4. QED
    BY <1>0, <1>2, <2>3, MessageKeeps DEF ChoosePickup, TypeOK, ShopTypes
<1>3. ASSUME NEW o \in Orders, NEW to \in Status, ChangeStatus(o, to)
      PROVE  MessageFacts'
  <2>1. Times(o, to) = 0
    <3>1. o \in Placed /\ status[o] \in Status /\ to \in TRANSITIONS[status[o]]
      BY <1>0, <1>3 DEF ChangeStatus, SourcesOf, Placed, Known
    <3>2. status[o] \notin Reach(to)
      BY <3>1, LaterFacts DEF Reach
    <3>3. \A j \in DOMAIN inbox[o] : inbox[o][j] # to
      BY <1>0, <3>1, <3>2 DEF NoticeFacts, Notices
    <3>4. QED
      BY <3>3, TimesFacts
  <2>2. ASSUME NEW x \in Orders, NEW m \in Status \cup {"pickup"}, Due(x, m)',
               ~ (x = o /\ m = to)
        PROVE  Due(x, m)
    BY <1>0, <1>3, <2>2, SameCurrent
       DEF ChangeStatus, Owe, Due, Settling, Asks, Carries, TypeOK, OrderTypes
  <2>3. Caused
    BY <2>1, <2>2
  <2>4. QED
    BY <1>0, <1>3, <2>3, MessageKeeps DEF ChangeStatus, TypeOK, ShopTypes
<1>4. ASSUME NEW o \in Orders, NEW to \in Status, StaleButton(o, to)
      PROVE  MessageFacts'
  <2>1. UNCHANGED <<inbox, chosen>> /\ spent'.faults = spent.faults
    BY <1>0, <1>4 DEF StaleButton, TypeOK, ShopTypes
  <2>2. Caused
    BY <1>0, <1>4, SameCurrent DEF StaleButton, Due, Settling, Asks, Carries
  <2>3. QED
    BY <1>0, <2>1, <2>2, MessageKeeps
<1>5. CASE ClearOrders
  <2>1. UNCHANGED <<inbox, batch, phase, step, chosen>> /\ spent'.faults = spent.faults
    BY <1>0, <1>5 DEF ClearOrders, Spend, TypeOK, ShopTypes
  <2>2. dirty'.notify = {} /\ dirty'.pickup = {}
    BY <1>5 DEF ClearOrders
  <2>3. Caused
    BY <2>1, <2>2, SameCurrent DEF Due, Settling, Asks, Carries
  <2>4. QED
    BY <1>0, <2>1, <2>3, MessageKeeps
<1>6. ASSUME NEW c \in Customers, ToggleBlock(c)
      PROVE  MessageFacts'
  <2>1. UNCHANGED <<inbox, chosen>> /\ spent'.faults = spent.faults
    BY <1>0, <1>6 DEF ToggleBlock, Spend, TypeOK, ShopTypes
  <2>2. Caused
    BY <1>0, <1>6, SameCurrent DEF ToggleBlock, Spend, Due, Settling, Asks, Carries
  <2>3. QED
    BY <1>0, <2>1, <2>2, MessageKeeps
<1>7. ASSUME NEW c \in Chats, BindChat(c)
      PROVE  MessageFacts'
  <2>1. UNCHANGED <<inbox, chosen>> /\ spent'.faults = spent.faults
    BY <1>0, <1>7 DEF BindChat, MoveTo, Spend, TypeOK, ShopTypes
  <2>2. Caused
    BY <1>0, <1>7, SameCurrent DEF BindChat, MoveTo, Spend, Due, Settling, Asks, Carries
  <2>3. QED
    BY <1>0, <2>1, <2>2, MessageKeeps
<1>8. ASSUME NEW c \in Chats, UpgradeChat(c)
      PROVE  MessageFacts'
  <2>1. UNCHANGED <<inbox, chosen>> /\ spent'.faults = spent.faults
    BY <1>0, <1>8 DEF UpgradeChat, Spend, TypeOK, ShopTypes
  <2>2. Caused
    BY <1>0, <1>8, SameCurrent DEF UpgradeChat, Spend, Due, Settling, Asks, Carries
  <2>3. QED
    BY <1>0, <2>1, <2>2, MessageKeeps
<1>9. CASE FollowUpgrade
  <2>1. UNCHANGED <<inbox, chosen>> /\ spent'.faults = spent.faults
    BY <1>0, <1>9 DEF FollowUpgrade, MoveTo, TypeOK, ShopTypes
  <2>2. Caused
    BY <1>0, <1>9, SameCurrent DEF FollowUpgrade, MoveTo, Due, Settling, Asks, Carries
  <2>3. QED
    BY <1>0, <2>1, <2>2, MessageKeeps
<1>10. CASE FinishMove
  <2>1. UNCHANGED <<inbox, chosen>> /\ spent'.faults = spent.faults
    BY <1>0, <1>10 DEF FinishMove, ResendOpenCards, TypeOK, ShopTypes
  <2>2. Caused
    BY <1>0, <1>10, SameCurrent DEF FinishMove, ResendOpenCards, Due, Settling, Asks, Carries
  <2>3. QED
    BY <1>0, <2>1, <2>2, MessageKeeps
<1>11. ASSUME NEW c \in Customers, HandleUpdate(c)
      PROVE  MessageFacts'
  <2>1. UNCHANGED <<inbox, chosen>> /\ spent'.faults = spent.faults
    BY <1>0, <1>11 DEF HandleUpdate, SetBlocked, TypeOK, ShopTypes
  <2>2. Caused
    BY <1>0, <1>11, SameCurrent DEF HandleUpdate, SetBlocked, Due, Settling, Asks, Carries
  <2>3. QED
    BY <1>0, <2>1, <2>2, MessageKeeps
<1>12. ASSUME NEW c \in Customers, NEW who \in {"chat", "worker"}, MarkCards(c, who)
      PROVE  MessageFacts'
  <2>1. UNCHANGED <<inbox, chosen>> /\ spent'.faults = spent.faults
    BY <1>0, <1>12 DEF MarkCards, TypeOK, ShopTypes
  <2>2. Caused
    BY <1>0, <1>12, SameCurrent DEF MarkCards, Due, Settling, Asks, Carries
  <2>3. QED
    BY <1>0, <2>1, <2>2, MessageKeeps
<1>13. CASE StartPass
  <2>1. UNCHANGED <<inbox, chosen, dirty, status, spent>> /\ step' = "next" /\ step # "told"
    BY <1>13 DEF StartPass, Enter, WorkerFacts
  <2>2. \A row \in batch' : /\ row.order \in Placed /\ row.status = status[row.order]
                            /\ phase' = "pickups" => row.order \in dirty.pickup
                            /\ phase' = "notices" => row.order \in dirty.notify
    BY <1>0, <1>13, RowsAre DEF StartPass, Enter, Row, TypeOK, OrderTypes
  <2>3. Caused
    BY <1>0, <2>1, <2>2 DEF Due, Settling, Asks, Carries, Placed, Known, TypeOK, OrderTypes
  <2>4. QED
    BY <1>0, <2>1, <2>3, MessageKeeps
<1>14. CASE NextDrain
  <2>1. UNCHANGED <<inbox, chosen, dirty, status, spent>> /\ step' = "next" /\ step # "told"
    BY <1>14 DEF NextDrain, Enter, WorkerFacts
  <2>2. \A row \in batch' : /\ row.order \in Placed /\ row.status = status[row.order]
                            /\ phase' = "pickups" => row.order \in dirty.pickup
                            /\ phase' = "notices" => row.order \in dirty.notify
    BY <1>0, <1>14, RowsAre DEF NextDrain, Enter, Row, TypeOK, OrderTypes
  <2>3. Caused
    BY <1>0, <2>1, <2>2 DEF Due, Settling, Asks, Carries, Placed, Known, TypeOK, OrderTypes
  <2>4. QED
    BY <1>0, <2>1, <2>3, MessageKeeps
<1>15. CASE SendCard
  <2>1. UNCHANGED <<inbox, chosen>> /\ spent'.faults = spent.faults
    BY <1>0, <1>15 DEF SendCard, Deliver, AtChat, At, Await, TypeOK, ShopTypes
  <2>2. Caused
    BY <1>0, <1>15, SameCurrent
       DEF SendCard, Deliver, AtChat, At, Await, Due, Settling, Asks, Carries
  <2>3. QED
    BY <1>0, <2>1, <2>2, MessageKeeps
<1>16. CASE StoreCardId
  <2>1. UNCHANGED <<inbox, chosen>> /\ spent'.faults = spent.faults
    BY <1>0, <1>16 DEF StoreCardId, At, Await, TypeOK, ShopTypes
  <2>2. Caused
    BY <1>0, <1>16, SameCurrent DEF StoreCardId, At, Await, Due, Settling, Asks, Carries
  <2>3. QED
    BY <1>0, <2>1, <2>2, MessageKeeps
<1>17. CASE ClearCard
  <2>1. UNCHANGED <<inbox, chosen>> /\ spent'.faults = spent.faults
    BY <1>0, <1>17 DEF ClearCard, At, Skip, TypeOK, ShopTypes
  <2>2. Caused
    BY <1>0, <1>17, SameCurrent DEF ClearCard, At, Skip, Due, Settling, Asks, Carries
  <2>3. QED
    BY <1>0, <2>1, <2>2, MessageKeeps
<1>18. CASE CardRefused
  <2>1. UNCHANGED <<inbox, chosen>> /\ spent'.faults = spent.faults
    BY <1>0, <1>18 DEF CardRefused, AtChat, At, Skip, TypeOK, ShopTypes
  <2>2. Caused
    BY <1>0, <1>18, SameCurrent DEF CardRefused, AtChat, At, Skip, Due, Settling, Asks, Carries
  <2>3. QED
    BY <1>0, <2>1, <2>2, MessageKeeps
<1>19. CASE MeetUpgrade
  <2>1. UNCHANGED <<inbox, chosen>> /\ spent'.faults = spent.faults
    BY <1>0, <1>19 DEF MeetUpgrade, At, Await, TypeOK, ShopTypes
  <2>2. Caused
    BY <1>0, <1>19, SameCurrent DEF MeetUpgrade, At, Await, Due, Settling, Asks, Carries
  <2>3. QED
    BY <1>0, <2>1, <2>2, MessageKeeps
<1>20. CASE AdoptUpgrade
  <2>1. UNCHANGED <<inbox, chosen>> /\ spent'.faults = spent.faults
    BY <1>0, <1>20 DEF AdoptUpgrade, Await, TypeOK, ShopTypes
  <2>2. Caused
    BY <1>0, <1>20, SameCurrent DEF AdoptUpgrade, Await, Due, Settling, Asks, Carries
  <2>3. QED
    BY <1>0, <2>1, <2>2, MessageKeeps
<1>21. CASE ResendAfterUpgrade
  <2>1. UNCHANGED <<inbox, chosen>> /\ spent'.faults = spent.faults
    BY <1>0, <1>21 DEF ResendAfterUpgrade, ResendOpenCards, TypeOK, ShopTypes
  <2>2. Caused
    BY <1>0, <1>21, SameCurrent
       DEF ResendAfterUpgrade, ResendOpenCards, Due, Settling, Asks, Carries
  <2>3. QED
    BY <1>0, <2>1, <2>2, MessageKeeps
<1>22. CASE PostPickupNote
  <2>1. UNCHANGED <<inbox, chosen>> /\ spent'.faults = spent.faults
    BY <1>0, <1>22 DEF PostPickupNote, PostNote, AtChat, At, Await, TypeOK, ShopTypes
  <2>2. Caused
    BY <1>0, <1>22, SameCurrent
       DEF PostPickupNote, PostNote, AtChat, At, Await, Due, Settling, Asks, Carries
  <2>3. QED
    BY <1>0, <2>1, <2>2, MessageKeeps
<1>23. CASE TellCustomer
  <2>1. batch # {} /\ step # "told" /\ phase \in {"pickups", "notices"}
        /\ Current \in batch /\ Current.order \in Orders /\ Current.status \in Status
    BY <1>23, CurrentIn DEF TellCustomer, AtMessage, At, TypeOK, WorkerTypes
  <2>2. Carries(Current, Message) /\ Message \in Status \cup {"pickup"}
    BY <1>23, <2>1 DEF TellCustomer, AtMessage, At, Carries, Message
  <2>3. Due(Current.order, Message)
    BY <2>1, <2>2 DEF Due, Settling
  <2>4. PICK c, t : c = Current.order /\ t = Message
    OBVIOUS
  <2>5. UNCHANGED <<phase, batch, dirty, status, chosen, spent>> /\ Current' = Current
    BY <1>23, SameCurrent DEF TellCustomer, Await
  <2>6. \A x \in Orders : \A m :
            Times(x, m)' = IF x = c /\ m = t THEN Times(x, m) + 1 ELSE Times(x, m)
    BY <1>23, <2>1, <2>4, TimesRead DEF TellCustomer
  <2>7. ~ Due(c, t)'
    BY <1>23, <2>1, <2>2, <2>4, <2>5 DEF TellCustomer, Await, Due, Settling, Carries
  <2>8. ASSUME NEW x \in Orders, NEW m \in Status \cup {"pickup"}, Due(x, m)'
        PROVE  Due(x, m)
    BY <1>23, <2>1, <2>5, <2>8 DEF Due, Settling, Asks, Carries
  <2>9. \A x \in Orders : \A j \in DOMAIN inbox'[x] : inbox'[x][j] = "pickup" => x \in chosen'
    <3>1. t = "pickup" => c \in chosen
      BY <1>23, <1>0, <2>1, <2>4 DEF TellCustomer, AtMessage, At, Message, RowFacts
    <3>2. QED
      BY <1>23, <2>1, <2>4, <2>5, <3>1, ReadEffect DEF TellCustomer, MessageFacts
  <2>10. ASSUME NEW x \in Orders, NEW m \in Status \cup {"pickup"}
         PROVE  /\ Times(x, m)' <= 1 + spent'.faults
                /\ Due(x, m)' => Times(x, m)' <= spent'.faults
    BY <1>0, <2>3, <2>4, <2>5, <2>6, <2>7, <2>8, TimesFacts DEF MessageFacts
  <2>11. QED
    BY <2>9, <2>10 DEF MessageFacts
<1>24. CASE MeetBlock
  <2>1. UNCHANGED <<inbox, chosen>> /\ spent'.faults = spent.faults
    BY <1>0, <1>24 DEF MeetBlock, SetBlocked, AtMessage, At, Await, TypeOK, ShopTypes
  <2>2. Caused
    BY <1>0, <1>24, SameCurrent
       DEF MeetBlock, SetBlocked, AtMessage, At, Await, Due, Settling, Asks, Carries
  <2>3. QED
    BY <1>0, <2>1, <2>2, MessageKeeps
<1>25. CASE ClearPickup
  <2>1. /\ UNCHANGED <<inbox, chosen, status, spent, phase>> /\ step' = "next" /\ step = "told"
        /\ batch' = batch \ {Current} /\ Current \in batch /\ phase = "pickups"
        /\ Current.status \in Status
    BY <1>25, CurrentIn DEF ClearPickup, Told, At, Skip, BlockedCards, TypeOK, WorkerTypes
  <2>2. \A row \in batch' : row \in batch /\ row.order # Current.order
    BY <2>1 DEF RowFacts
  <2>3. dirty'.notify \subseteq dirty.notify /\ dirty'.pickup = dirty.pickup \ {Current.order}
    BY <1>0, <1>25 DEF ClearPickup
  <2>4. Caused
    BY <1>0, <2>1, <2>2, <2>3 DEF Due, Settling, Asks, Carries
  <2>5. QED
    BY <1>0, <2>1, <2>4, MessageKeeps
<1>26. CASE ClearNotice
  <2>1. /\ UNCHANGED <<inbox, chosen, status, spent, phase>> /\ step' = "next" /\ step = "told"
        /\ batch' = batch \ {Current} /\ Current \in batch /\ phase = "notices"
        /\ Current.status \in Status
    BY <1>26, CurrentIn DEF ClearNotice, Told, At, Skip, BlockedCards, TypeOK, WorkerTypes
  <2>2. \A row \in batch' : row \in batch /\ row.order # Current.order
    BY <2>1 DEF RowFacts
  <2>3. /\ dirty'.pickup = dirty.pickup /\ dirty'.notify \subseteq dirty.notify
        /\ Current.order \in dirty'.notify => status[Current.order] # Current.status
    BY <1>0, <1>26 DEF ClearNotice
  <2>4. Caused
    BY <1>0, <2>1, <2>2, <2>3 DEF Due, Settling, Asks, Carries
  <2>5. QED
    BY <1>0, <2>1, <2>4, MessageKeeps
<1>27. CASE RowMissing
  <2>1. /\ UNCHANGED <<inbox, chosen, status, spent, dirty>> /\ step' = "next" /\ batch' = {}
        /\ Current.order \notin dirty.notify \cup dirty.pickup
    BY <1>0, <1>27 DEF RowMissing, EndPass
  <2>2. Caused
    BY <1>0, <2>1 DEF Due, Settling, Asks, Carries
  <2>3. QED
    BY <1>0, <2>1, <2>2, MessageKeeps
<1>28. CASE Resume
  <2>1. UNCHANGED <<inbox, chosen>> /\ spent'.faults = spent.faults
    BY <1>0, <1>28 DEF Resume, TypeOK, ShopTypes
  <2>2. Caused
    BY <1>0, <1>28, SameCurrent DEF Resume, Due, Settling, Asks, Carries
  <2>3. QED
    BY <1>0, <2>1, <2>2, MessageKeeps
<1>29. CASE Unreachable
  <2>1. spent'.faults = spent.faults + 1 /\ UNCHANGED <<inbox, chosen>>
    BY <1>0, <1>29 DEF Unreachable, Calls, AtMessage, At, Skip, Fault, Spend, TypeOK, ShopTypes
  <2>2. QED
    BY <1>0, <2>1, MessageKeeps
<1>30. CASE AnswerLost
  <2>0. spent'.faults = spent.faults + 1
    BY <1>0, <1>30 DEF AnswerLost, Fault, Spend, TypeOK, ShopTypes
  <2>a. CASE inbox' = inbox
    BY <1>0, <1>30, <2>0, <2>a, MessageKeeps DEF AnswerLost
  <2>b. CASE AtMessage /\ Read
    <3>1. batch # {} /\ step # "told" /\ phase \in {"pickups", "notices"}
          /\ Current \in batch /\ Current.order \in Orders /\ Current.status \in Status
      BY <2>b, CurrentIn DEF AtMessage, At, TypeOK, WorkerTypes
    <3>2. Carries(Current, Message) /\ Message \in Status \cup {"pickup"}
      BY <2>b, <3>1 DEF AtMessage, At, Carries, Message
    <3>3. Due(Current.order, Message)
      BY <3>1, <3>2 DEF Due, Settling
    <3>4. PICK c, t : c = Current.order /\ t = Message
      OBVIOUS
    <3>5. UNCHANGED chosen
      BY <1>30 DEF AnswerLost
    <3>6. \A x \in Orders : \A m :
              Times(x, m)' = IF x = c /\ m = t THEN Times(x, m) + 1 ELSE Times(x, m)
      BY <2>b, <3>1, <3>4, TimesRead
    <3>7. \A x \in Orders : \A j \in DOMAIN inbox'[x] : inbox'[x][j] = "pickup" => x \in chosen'
      <4>1. t = "pickup" => c \in chosen
        BY <1>0, <2>b, <3>1, <3>4 DEF AtMessage, At, Message, RowFacts
      <4>2. QED
        BY <2>b, <3>1, <3>4, <3>5, <4>1, ReadEffect DEF MessageFacts
    <3>8. ASSUME NEW x \in Orders, NEW m \in Status \cup {"pickup"}
          PROVE  Times(x, m)' <= spent'.faults
      BY <1>0, <2>0, <3>3, <3>4, <3>6, TimesFacts DEF MessageFacts
    <3>9. ASSUME NEW x \in Orders, NEW m \in Status \cup {"pickup"}
          PROVE  Times(x, m)' <= 1 + spent'.faults
      BY <1>0, <2>0, <3>6, TimesFacts DEF MessageFacts
    <3>10. QED
      BY <3>7, <3>8, <3>9 DEF MessageFacts
  <2>4. QED
    BY <1>30, <2>a, <2>b DEF AnswerLost, Deliver, PostNote
<1>31. CASE RateLimited
  <2>1. spent'.faults = spent.faults + 1 /\ UNCHANGED <<inbox, chosen>>
    BY <1>0, <1>31
       DEF RateLimited, Calls, AtMessage, At, EndPass, Fault, Spend, TypeOK, ShopTypes
  <2>2. QED
    BY <1>0, <2>1, MessageKeeps
<1>32. CASE Dropped
  <2>1. spent'.faults = spent.faults + 1 /\ UNCHANGED <<inbox, chosen>>
    BY <1>0, <1>32 DEF Dropped, AtMessage, At, Await, Fault, Spend, TypeOK, ShopTypes
  <2>2. QED
    BY <1>0, <2>1, MessageKeeps
<1>33. CASE Crash
  <2>1. spent'.faults = spent.faults + 1 /\ UNCHANGED <<inbox, chosen>>
    BY <1>0, <1>33 DEF Crash, EndPass, Fault, Spend, TypeOK, ShopTypes
  <2>2. QED
    BY <1>0, <2>1, MessageKeeps
<1>34. CASE UNCHANGED vars
  <2>1. UNCHANGED <<inbox, chosen>> /\ spent'.faults = spent.faults
    BY <1>0, <1>34 DEF vars, TypeOK, ShopTypes
  <2>2. Caused
    BY <1>0, <1>34, SameCurrent DEF vars, Due, Settling, Asks, Carries
  <2>3. QED
    BY <1>0, <2>1, <2>2, MessageKeeps
<1>35. ASSUME NEW c \in Chats, NEW i \in DOMAIN cards[c], DeleteCard(c, i)
       PROVE  MessageFacts'
  <2>1. UNCHANGED <<inbox, chosen>> /\ spent'.faults = spent.faults
    BY <1>0, <1>35 DEF DeleteCard
  <2>2. Caused
    BY <1>0, <1>35, SameCurrent DEF DeleteCard, Due, Settling, Asks, Carries
  <2>3. QED
    BY <1>0, <2>1, <2>2, MessageKeeps
<1>36. CASE EditRefused
  <2>1. spent'.faults = spent.faults + 1 /\ UNCHANGED <<inbox, chosen>>
    BY <1>0, <1>36
       DEF EditRefused, RefuseEdit, AtChat, At, Await, Fault, Spend, TypeOK, ShopTypes
  <2>2. QED
    BY <1>0, <2>1, MessageKeeps
<1>. QED
  BY <1>1, <1>2, <1>3, <1>4, <1>5, <1>6, <1>7, <1>8, <1>9, <1>10, <1>11, <1>12, <1>13, <1>14,
     <1>15, <1>16, <1>17, <1>18, <1>19, <1>20, <1>21, <1>22, <1>23, <1>24, <1>25, <1>26, <1>27,
     <1>28, <1>29, <1>30, <1>31, <1>32, <1>33, <1>34, <1>35, <1>36
     DEF Next, Drain, Handlers, Outside, Failures

(***************************************************************************)
(* How many cards an order is sent                                         *)
(***************************************************************************)
LEMMA IdsWithin ==
    ASSUME NEW o, NEW T,
           \A c \in Chats : \A i \in DOMAIN cards'[c] : cards'[c][i].order = o => i \in T,
           cardId'[o] \in T \cup {None},
           \A row \in batch' : phase' = "cards" /\ row.order = o => row.id \in T \cup {None},
           Answered(o)' => reply'.id \in T \cup {None}
    PROVE  IdsOf(o)' \subseteq T
<1> SUFFICES ASSUME NEW x \in IdsOf(o)' PROVE x \in T
  OBVIOUS
<1>1. x # None /\ x \in ChatIds(o)' \cup RowIds(o)' \cup AnswerIds(o)' \cup {cardId'[o]}
  BY DEF IdsOf
<1>2. ChatIds(o)' \subseteq T
  BY DEF ChatIds
<1>3. RowIds(o)' \subseteq T \cup {None}
  BY DEF RowIds
<1>4. AnswerIds(o)' \subseteq T \cup {None}
  BY DEF AnswerIds
<1>5. QED
  BY <1>1, <1>2, <1>3, <1>4

LEMMA IdsHave ==
    ASSUME TypeOK, NEW o
    PROVE  /\ \A c \in Chats : \A i \in DOMAIN cards[c] :
                  cards[c][i].order = o => i \in IdsOf(o)
           /\ cardId[o] \in IdsOf(o) \cup {None}
           /\ \A row \in batch :
                  phase = "cards" /\ row.order = o => row.id \in IdsOf(o) \cup {None}
           /\ Answered(o) => reply.id \in IdsOf(o) \cup {None}
<1>1. \A c \in Chats : \A i \in DOMAIN cards[c] : i # None
  BY ChatsAssumption DEF TypeOK, SentTypes
<1>2. ASSUME NEW c \in Chats, NEW i \in DOMAIN cards[c], cards[c][i].order = o
      PROVE  i \in IdsOf(o)
  <2>1. i \in ChatIds(o)
    BY <1>2 DEF ChatIds
  <2>2. QED
    BY <1>1, <2>1 DEF IdsOf
<1>3. cardId[o] \in IdsOf(o) \cup {None}
  BY DEF IdsOf
<1>4. ASSUME NEW row \in batch, phase = "cards", row.order = o
      PROVE  row.id \in IdsOf(o) \cup {None}
  <2>1. row.id \in RowIds(o)
    BY <1>4 DEF RowIds
  <2>2. QED
    BY <2>1 DEF IdsOf
<1>5. Answered(o) => reply.id \in IdsOf(o) \cup {None}
  BY DEF IdsOf, AnswerIds
<1>6. QED
  BY <1>2, <1>3, <1>4, <1>5

LEMMA CreditTypes ==
    ASSUME TypeOK
    PROVE  /\ spent.faults \in Nat /\ spent.moves \in Nat /\ Allowed \in Nat
           /\ Pending \in 0 .. 4
           /\ \A o : Credits(o) = Pending \/ Credits(o) = Pending + 1
           /\ \A o : Fresh(o) => Credits(o) = Pending + 1
           /\ \A o : ~ Fresh(o) => Credits(o) = Pending
<1>1. spent.faults \in Nat /\ spent.moves \in Nat
  BY SyncBounds DEF TypeOK, ShopTypes
<1>2. Allowed \in Nat
  BY <1>1 DEF Allowed
<1>3. Pending \in 0 .. 4
  BY DEF Pending
<1>4. QED
  BY <1>1, <1>2, <1>3 DEF Credits

LEMMA CreditTypesNext ==
    ASSUME TypeOK'
    PROVE  /\ spent'.faults \in Nat /\ spent'.moves \in Nat /\ Allowed' \in Nat
           /\ Pending' \in 0 .. 4
           /\ \A o : Credits(o)' \in Nat
           /\ \A o : Credits(o)' = Pending' \/ Credits(o)' = Pending' + 1
           /\ \A o : Fresh(o)' => Credits(o)' = Pending' + 1
           /\ \A o : ~ Fresh(o)' => Credits(o)' = Pending'
<1>1. spent'.faults \in Nat /\ spent'.moves \in Nat
  BY SyncBounds DEF TypeOK, ShopTypes
<1>2. Allowed' \in Nat
  BY <1>1 DEF Allowed
<1>3. Pending' \in 0 .. 4
  BY DEF Pending
<1>4. ASSUME NEW o
      PROVE  /\ Credits(o)' \in Nat
             /\ Credits(o)' = Pending' \/ Credits(o)' = Pending' + 1
             /\ Fresh(o)' => Credits(o)' = Pending' + 1
             /\ ~ Fresh(o)' => Credits(o)' = Pending'
  <2>1. PICK p \in Nat : p = Pending'
    BY <1>3
  <2>2. CASE Fresh(o)'
    <3>1. Credits(o)' = p + 1
      BY <2>1, <2>2 DEF Credits
    <3>2. p + 1 \in Nat
      OBVIOUS
    <3>3. QED
      BY <2>1, <2>2, <3>1, <3>2
  <2>3. CASE ~ Fresh(o)'
    <3>1. Credits(o)' = 0 + p
      BY <2>1, <2>3 DEF Credits
    <3>2. 0 + p = p
      OBVIOUS
    <3>3. QED
      BY <2>1, <2>3, <3>1, <3>2
  <2>4. QED
    BY <2>2, <2>3
<1>5. QED
  BY <1>1, <1>2, <1>3, <1>4

\* A step that makes no new card: a fault or a move that is done pays for a fresh one.
LEMMA SendKeeps ==
    ASSUME TypeOK, TypeOK', SendFacts,
           \A o \in Orders : IdsOf(o)' \subseteq IdsOf(o),
           spent'.faults >= spent.faults,
           Pending' + 2 * spent.moves <= Pending + 2 * spent'.moves,
           \A o \in Orders :
               Fresh(o)' => \/ Fresh(o)
                            \/ spent'.faults > spent.faults
                            \/ (Pending' < Pending /\ spent'.moves = spent.moves)
    PROVE  \A o \in Orders :
               IsFiniteSet(IdsOf(o))' /\ Cardinality(IdsOf(o))' + Credits(o)' <= Allowed'
<1> SUFFICES ASSUME NEW o \in Orders
             PROVE  IsFiniteSet(IdsOf(o)') /\ Cardinality(IdsOf(o)') + Credits(o)' <= Allowed'
  OBVIOUS
<1>1. IsFiniteSet(IdsOf(o)) /\ Cardinality(IdsOf(o)) + Credits(o) <= Allowed
  BY DEF SendFacts
<1>2. /\ IsFiniteSet(IdsOf(o)') /\ Cardinality(IdsOf(o)') <= Cardinality(IdsOf(o))
      /\ Cardinality(IdsOf(o)') \in Nat /\ Cardinality(IdsOf(o)) \in Nat
  BY <1>1, FS_Subset, FS_CardinalityType
<1>3. PICK f, m, p, k : f = spent.faults /\ m = spent.moves /\ p = Pending /\ k = Credits(o)
  OBVIOUS
<1>4. PICK g, n, q, l :
          g = spent'.faults /\ n = spent'.moves /\ q = Pending' /\ l = Credits(o)'
  OBVIOUS
<1>5. f \in Nat /\ m \in Nat /\ p \in 0 .. 4 /\ g \in Nat /\ n \in Nat /\ q \in 0 .. 4
  BY <1>3, <1>4, CreditTypes, CreditTypesNext
<1>6. Allowed = 1 + f + 2 * m /\ Allowed' = 1 + g + 2 * n
  BY <1>3, <1>4 DEF Allowed
<1>7. /\ (k = p \/ k = p + 1) /\ (l = q \/ l = q + 1)
      /\ (Fresh(o) => k = p + 1) /\ (~ Fresh(o)' => l = q)
  BY <1>3, <1>4, CreditTypes, CreditTypesNext
<1>8. l + 1 + f + 2 * m <= k + 1 + g + 2 * n
  <2>1. g >= f /\ q + 2 * m <= p + 2 * n
    BY <1>3, <1>4
  <2>2. CASE Fresh(o)' => Fresh(o)
    <3>1. l = q \/ k = p + 1
      BY <1>7, <2>2
    <3>2. QED
      BY <1>5, <1>7, <2>1, <3>1
  <2>3. CASE g > f
    BY <1>5, <1>7, <2>1, <2>3
  <2>4. CASE q < p /\ n = m
    BY <1>5, <1>7, <2>1, <2>4
  <2>5. QED
    BY <1>3, <1>4, <2>2, <2>3, <2>4
<1>9. Cardinality(IdsOf(o)') + l <= 1 + g + 2 * n
  <2>1. Cardinality(IdsOf(o)) + k <= 1 + f + 2 * m
    BY <1>1, <1>3, <1>6
  <2>2. QED
    BY <1>2, <1>5, <1>7, <1>8, <2>1
<1>10. QED
  BY <1>2, <1>4, <1>6, <1>9

\* A step beside the cards and the worker.
LEMMA SendStays ==
    ASSUME TypeOK, TypeOK', SendFacts,
           UNCHANGED <<cards, cardId, phase, step, batch, reply, chat, moving, upgraded>>,
           spent'.faults = spent.faults, spent'.moves = spent.moves,
           \A o \in Orders : o \in Known \ Placed => o \in Known' \ Placed'
    PROVE  SendFacts'
<1>1. \A o : IdsOf(o)' = IdsOf(o)
  BY SameCurrent DEF IdsOf, ChatIds, RowIds, AnswerIds, Answered
<1>2. \A o \in Orders : Fresh(o)' => Fresh(o)
  BY SameCurrent DEF Fresh, Answered
<1>3. Pending' = Pending
  BY DEF Pending
<1>4. \A o \in Orders :
          IsFiniteSet(IdsOf(o))' /\ Cardinality(IdsOf(o))' + Credits(o)' <= Allowed'
  BY <1>1, <1>2, <1>3, CreditTypes, SendKeeps
<1>5. QED
  BY <1>4, SameCurrent DEF SendFacts

\* The indices of an order's cards after a call that arrived.
LEMMA DeliverIds ==
    ASSUME TypeOK, chat \in Chats, batch # {}, phase = "cards",
           Deliver(Current) \/ RefuseEdit(Current),
           NEW o \in Orders, NEW c \in Chats, NEW i \in DOMAIN cards'[c], cards'[c][i].order = o
    PROVE  \/ i \in IdsOf(o)
           \/ o = Current.order /\ Current.id = None /\ i = Len(cards[chat]) + 1
<1> DEFINE R == [order : Orders, status : Status, blocked : BOOLEAN]
<1>1. Current \in batch /\ CardOf(Current).order = Current.order
  BY CurrentIn DEF CardOf
<1>2. cards \in [Chats -> Seq(R)] /\ cards[chat] \in Seq(R)
  BY DEF TypeOK, SentTypes
<1> HIDE DEF R
<1>3. CASE cards' = cards \/ c # chat
  <2>1. cards'[c] = cards[c]
    BY <1>2, <1>3 DEF Deliver, RefuseEdit
  <2>2. QED
    BY <2>1, IdsHave
<1>4. CASE c = chat /\ Current.id = None
  <2>1. cards'[chat] = Append(cards[chat], CardOf(Current))
    BY <1>2, <1>4 DEF Deliver, RefuseEdit
  <2>2. i = Len(cards[chat]) + 1 => o = Current.order
    BY <1>1, <1>2, <1>4, <2>1
  <2>3. i # Len(cards[chat]) + 1 => i \in DOMAIN cards[chat] /\ cards[chat][i].order = o
    BY <1>2, <1>4, <2>1
  <2>4. QED
    BY <1>4, <2>2, <2>3, IdsHave
<1>5. CASE c = chat /\ Current.id # None /\ CanEdit(Current) /\ Deliver(Current)
  <2>0. Current.id \in DOMAIN cards[chat]
    BY <1>5 DEF CanEdit
  <2>1. cards'[chat] = [cards[chat] EXCEPT ![Current.id] = CardOf(Current)]
    BY <1>2, <1>5 DEF Deliver
  <2>2. i = Current.id => o = Current.order
    BY <1>1, <1>2, <1>5, <2>0, <2>1
  <2>3. i # Current.id => i \in DOMAIN cards[chat] /\ cards[chat][i].order = o
    BY <1>2, <1>5, <2>0, <2>1
  <2>4. QED
    BY <1>1, <1>5, <2>2, <2>3, IdsHave
<1>6. QED
  BY <1>3, <1>4, <1>5 DEF Deliver, RefuseEdit

\* A call that arrived: a new card takes the credit of a fresh order, or of the lost answer.
LEMMA SendOne ==
    ASSUME TypeOK, TypeOK', SendFacts, WorkerFacts, AtChat("cards"),
           Deliver(Current) \/ RefuseEdit(Current),
           UNCHANGED <<status, cardId, chat, moving, upgraded, phase>>,
           spent'.moves = spent.moves, batch' \subseteq batch,
           \/ step' = "next" /\ spent'.faults = spent.faults + 1
           \/ /\ step' = "replied" /\ batch' = batch /\ spent'.faults >= spent.faults
              /\ reply'.id = IF Current.id = None THEN Len(cards[chat]) + 1 ELSE None
    PROVE  \A o \in Orders :
               IsFiniteSet(IdsOf(o))' /\ Cardinality(IdsOf(o))' + Credits(o)' <= Allowed'
<1>0. PICK c, n : c = Current.order /\ n = Len(cards[chat]) + 1
  OBVIOUS
<1>1. /\ phase = "cards" /\ step = "next" /\ batch # {} /\ chat \in Chats
      /\ Current \in batch /\ c \in Orders /\ c \in Known
      /\ Known' = Known /\ Placed' = Placed
  BY <1>0, CurrentIn, SameOrders DEF AtChat, At, TypeOK, ShopTypes, WorkerTypes
<1>2. Pending' = Pending
  BY <1>1 DEF Pending
<1>3. \A x : Answered(x)' => x = c /\ step' = "replied"
  BY <1>0, SameCurrent DEF Answered
<1>4. n \in Nat /\ n # None
  BY <1>0, <1>1, ChatsAssumption DEF TypeOK, SentTypes
<1>5. ASSUME NEW o \in Orders
      PROVE  IdsOf(o)' \subseteq IdsOf(o) \cup (IF o = c /\ Current.id = None THEN {n} ELSE {})
  <2> DEFINE T == IdsOf(o) \cup (IF o = c /\ Current.id = None THEN {n} ELSE {})
  <2>1. \A d \in Chats : \A i \in DOMAIN cards'[d] : cards'[d][i].order = o => i \in T
    BY <1>0, <1>1, DeliverIds
  <2>2. cardId'[o] \in T \cup {None}
    BY IdsHave
  <2>3. \A row \in batch' : phase' = "cards" /\ row.order = o => row.id \in T \cup {None}
    BY <1>1, IdsHave
  <2>4. Answered(o)' => reply'.id \in T \cup {None}
    BY <1>0, <1>3
  <2> HIDE DEF T
  <2>5. IdsOf(o)' \subseteq T
    BY <2>1, <2>2, <2>3, <2>4, IdsWithin
  <2>6. QED
    BY <2>5 DEF T
<1>6. \A o \in Orders : Fresh(o)' => Fresh(o) \/ spent'.faults > spent.faults
  BY <1>1, CreditTypes DEF Fresh, Answered
<1>7. CASE Current.id # None
  <2>1. \A o \in Orders : IdsOf(o)' \subseteq IdsOf(o)
    BY <1>5, <1>7
  <2>2. QED
    BY <1>2, <1>6, <2>1, SendKeeps, CreditTypes
<1>8. CASE Current.id = None
  <2>1. Fresh(c) /\ (Fresh(c)' => spent'.faults = spent.faults + 1)
    <3>1. cardId[c] = None
      BY <1>0, <1>1, <1>8 DEF SendFacts
    <3>2. Fresh(c)
      BY <1>0, <1>1, <3>1 DEF Fresh, Answered
    <3>3. Fresh(c)' => spent'.faults = spent.faults + 1
      BY <1>0, <1>1, <1>4, <1>8, SameCurrent DEF Fresh, Answered
    <3>4. QED
      BY <3>2, <3>3
  <2>2. ASSUME NEW o \in Orders
        PROVE  IsFiniteSet(IdsOf(o)') /\ Cardinality(IdsOf(o)') + Credits(o)' <= Allowed'
    <3>1. IsFiniteSet(IdsOf(o)) /\ Cardinality(IdsOf(o)) + Credits(o) <= Allowed
      BY DEF SendFacts
    <3>2. /\ IsFiniteSet(IdsOf(o) \cup {n}) /\ Cardinality(IdsOf(o)) \in Nat
          /\ Cardinality(IdsOf(o) \cup {n}) <= Cardinality(IdsOf(o)) + 1
      <4>1. Cardinality(IdsOf(o)) \in Nat
        BY <3>1, FS_CardinalityType
      <4>2. /\ IsFiniteSet(IdsOf(o) \cup {n})
            /\ \/ Cardinality(IdsOf(o) \cup {n}) = Cardinality(IdsOf(o))
               \/ Cardinality(IdsOf(o) \cup {n}) = Cardinality(IdsOf(o)) + 1
        BY <3>1, FS_AddElement
      <4>3. QED
        BY <4>1, <4>2
    <3>3. IdsOf(o)' \subseteq IdsOf(o) \cup (IF o = c THEN {n} ELSE {})
      BY <1>5, <1>8
    <3>4. /\ IsFiniteSet(IdsOf(o)') /\ Cardinality(IdsOf(o)') \in Nat
          /\ o = c => Cardinality(IdsOf(o)') <= Cardinality(IdsOf(o)) + 1
          /\ o # c => Cardinality(IdsOf(o)') <= Cardinality(IdsOf(o))
      <4>1. CASE o = c
        <5>1. IdsOf(o)' \subseteq IdsOf(o) \cup {n}
          BY <3>3, <4>1
        <5>2. IsFiniteSet(IdsOf(o)') /\ Cardinality(IdsOf(o)') <= Cardinality(IdsOf(o) \cup {n})
          BY <3>2, <5>1, FS_Subset
        <5>3. Cardinality(IdsOf(o)') \in Nat /\ Cardinality(IdsOf(o) \cup {n}) \in Nat
          BY <3>2, <5>2, FS_CardinalityType
        <5>4. QED
          BY <3>2, <4>1, <5>2, <5>3
      <4>2. CASE o # c
        <5>1. IdsOf(o)' \subseteq IdsOf(o)
          BY <3>3, <4>2
        <5>2. QED
          BY <3>1, <4>2, <5>1, FS_Subset, FS_CardinalityType
      <4>3. QED
        BY <4>1, <4>2
    <3>5. PICK f, m, p, k : f = spent.faults /\ m = spent.moves /\ p = Pending /\ k = Credits(o)
      OBVIOUS
    <3>6. PICK g, l : g = spent'.faults /\ l = Credits(o)'
      OBVIOUS
    <3>7. /\ f \in Nat /\ m \in Nat /\ p \in 0 .. 4 /\ g \in Nat
          /\ Allowed = 1 + f + 2 * m /\ Allowed' = 1 + g + 2 * m
          /\ (k = p \/ k = p + 1) /\ (l = p \/ l = p + 1)
          /\ (Fresh(o) => k = p + 1) /\ (~ Fresh(o)' => l = p)
      BY <1>2, <3>5, <3>6, CreditTypes, CreditTypesNext DEF Allowed
    <3>a. PICK a, b : a = Cardinality(IdsOf(o)) /\ b = Cardinality(IdsOf(o)')
      OBVIOUS
    <3>b. a \in Nat /\ b \in Nat /\ a + k <= 1 + f + 2 * m
      BY <3>1, <3>2, <3>4, <3>5, <3>7, <3>a
    <3>8. CASE o = c
      <4>1. k = p + 1 /\ (g = f + 1 \/ l = p) /\ g >= f
        BY <2>1, <3>5, <3>6, <3>7, <3>8
      <4>2. b <= a + 1
        BY <3>4, <3>8, <3>a
      <4>3. b + l <= 1 + g + 2 * m
        <5>1. PICK r \in Nat : r = 2 * m
          BY <3>7
        <5>2. f \in Nat /\ p \in Nat /\ g \in Nat /\ (l = p \/ l = p + 1)
          BY <3>7
        <5>3. a + p <= f + r
          BY <3>b, <4>1, <5>1, <5>2
        <5>4. CASE l = p
          BY <3>b, <4>1, <4>2, <5>1, <5>2, <5>3, <5>4
        <5>5. CASE g = f + 1
          BY <3>b, <4>2, <5>1, <5>2, <5>3, <5>5
        <5>6. QED
          BY <4>1, <5>4, <5>5
      <4>4. QED
        BY <3>4, <3>6, <3>7, <3>a, <4>3
    <3>9. CASE o # c
      <4>1. g >= f /\ (l = p \/ k = p + 1 \/ g > f)
        BY <1>6, <3>5, <3>6, <3>7
      <4>2. b <= a
        BY <3>4, <3>9, <3>a
      <4>3. b + l <= 1 + g + 2 * m
        BY <3>7, <3>b, <4>1, <4>2
      <4>4. QED
        BY <3>4, <3>6, <3>7, <3>a, <4>3
    <3>10. QED
      BY <3>8, <3>9
  <2>3. QED
    BY <2>2
<1>9. QED
  BY <1>7, <1>8

\* A step that sends no card.
LEMMA IdsKeep ==
    ASSUME TypeOK, NEW o, cards' = cards,
           cardId'[o] \in {cardId[o], None} \/ (Answered(o) /\ cardId'[o] = reply.id),
           \A row \in batch' : phase' = "cards" /\ row.order = o =>
               (row \in batch /\ phase = "cards") \/ row.id = cardId[o],
           Answered(o)' => Answered(o) /\ reply' = reply
    PROVE  IdsOf(o)' \subseteq IdsOf(o)
<1>1. \A c \in Chats : \A i \in DOMAIN cards'[c] : cards'[c][i].order = o => i \in IdsOf(o)
  BY IdsHave
<1>2. cardId'[o] \in IdsOf(o) \cup {None}
  BY IdsHave
<1>3. \A row \in batch' : phase' = "cards" /\ row.order = o => row.id \in IdsOf(o) \cup {None}
  BY IdsHave
<1>4. Answered(o)' => reply'.id \in IdsOf(o) \cup {None}
  BY IdsHave
<1>5. QED
  BY <1>1, <1>2, <1>3, <1>4, IdsWithin

\* The worker goes on without a card that arrived: a fault or a lost row pays for an id.
LEMMA SendSkips ==
    ASSUME TypeOK, TypeOK', SendFacts,
           UNCHANGED <<status, cards, cardId, chat, moving, upgraded>>,
           spent'.moves = spent.moves, spent'.faults >= spent.faults,
           step \notin {"migrated", "resend"}, step' \notin {"migrated", "resend"},
           phase' = "cards" =>
               /\ phase = "cards" /\ step' = "next" /\ batch' \subseteq batch
               /\ step \in {"replied", "stored"} => Current \notin batch',
           \A o : Answered(o) /\ reply.id # None =>
               spent'.faults > spent.faults \/ (o \in Known \ Placed /\ phase' # "cards")
    PROVE  SendFacts'
<1>1. \A o \in Orders : IdsOf(o)' \subseteq IdsOf(o)
  BY IdsKeep DEF Answered
<1>2. Pending' = Pending
  BY DEF Pending
<1>3. \A o \in Orders : Fresh(o)' => Fresh(o) \/ spent'.faults > spent.faults
  BY SameOrders DEF Fresh
<1>4. \A o \in Orders :
          IsFiniteSet(IdsOf(o))' /\ Cardinality(IdsOf(o))' + Credits(o)' <= Allowed'
  BY <1>1, <1>2, <1>3, CreditTypes, SendKeeps
<1>5. phase' = "cards" =>
          \A row \in batch' : row.id = None => cardId'[row.order] = None
  BY DEF SendFacts
<1>6. QED
  BY <1>4, <1>5 DEF SendFacts

\* Every step keeps the count of the cards.
LEMMA SendStep ==
    TypeOK /\ TypeOK' /\ WorkerFacts /\ RowFacts /\ SendFacts /\ [Next]_vars => SendFacts'
<1> SUFFICES ASSUME TypeOK, TypeOK', WorkerFacts, RowFacts, SendFacts, [Next]_vars
             PROVE  SendFacts'
  OBVIOUS
<1> USE DEF orderVars, shopVars, customerVars, workerVars, chatVars, outsideVars,
            othersThanRows, hands
<1> DEFINE Counted == \A o \in Orders :
               IsFiniteSet(IdsOf(o))' /\ Cardinality(IdsOf(o))' + Credits(o)' <= Allowed'
           NewOnly == phase' = "cards" =>
               \A row \in batch' :
                   row.id = None /\ (step' \in {"replied", "stored"} => row # Current')
                       => cardId'[row.order] = None
<1>0. /\ \A k \in {"moves", "toggles", "faults", "clears"} : spent[k] \in Nat
      /\ spent.faults \in Nat /\ spent.moves \in Nat
      /\ Status \cap {None, "deleted"} = {}
      /\ \A o \in Orders : cardId[o] \in Nat \cup {None}
      /\ \A row \in batch : row.order \in Known /\ row.order \in Orders
      /\ upgraded \subseteq Chats /\ \A g \in upgraded : SuperOf[g] # None
      /\ \A g \in Chats : SuperOf[g] # None => SuperOf[SuperOf[g]] = None
  BY ChatsAssumption, SyncBounds, SupergroupsStay
     DEF Status, TypeOK, OrderTypes, ShopTypes, WorkerTypes, Known, WorkerFacts
<1>1. ASSUME NEW o \in Orders, PlaceOrder(o)
      PROVE  SendFacts'
  <2>1. /\ UNCHANGED <<cards, cardId, phase, step, batch, reply, chat, moving, upgraded>>
        /\ spent'.faults = spent.faults /\ spent'.moves = spent.moves
    BY <1>0, <1>1 DEF PlaceOrder, Owe, TypeOK, ShopTypes
  <2>2. \A x \in Orders : x \in Known \ Placed => x \in Known' \ Placed'
    BY <1>0, <1>1, ChatsAssumption
       DEF PlaceOrder, Owe, SourcesOf, Known, Placed, TypeOK, OrderTypes
  <2>3. QED
    BY <2>1, <2>2, SendStays
<1>2. ASSUME NEW o \in Orders, ChoosePickup(o)
      PROVE  SendFacts'
  <2>1. /\ UNCHANGED <<cards, cardId, phase, step, batch, reply, chat, moving, upgraded>>
        /\ spent'.faults = spent.faults /\ spent'.moves = spent.moves
    BY <1>0, <1>2 DEF ChoosePickup, TypeOK, ShopTypes
  <2>2. \A x \in Orders : x \in Known \ Placed => x \in Known' \ Placed'
    BY <1>0, <1>2, ChatsAssumption
       DEF ChoosePickup, SourcesOf, Known, Placed, TypeOK, OrderTypes
  <2>3. QED
    BY <2>1, <2>2, SendStays
<1>3. ASSUME NEW o \in Orders, NEW to \in Status, ChangeStatus(o, to)
      PROVE  SendFacts'
  <2>1. /\ UNCHANGED <<cards, cardId, phase, step, batch, reply, chat, moving, upgraded>>
        /\ spent'.faults = spent.faults /\ spent'.moves = spent.moves
    BY <1>0, <1>3 DEF ChangeStatus, Owe, TypeOK, ShopTypes
  <2>2. \A x \in Orders : x \in Known \ Placed => x \in Known' \ Placed'
    BY <1>0, <1>3, ChatsAssumption
       DEF ChangeStatus, Owe, SourcesOf, Known, Placed, TypeOK, OrderTypes
  <2>3. QED
    BY <2>1, <2>2, SendStays
<1>4. ASSUME NEW o \in Orders, NEW to \in Status, StaleButton(o, to)
      PROVE  SendFacts'
  <2>1. /\ UNCHANGED <<cards, cardId, phase, step, batch, reply, chat, moving, upgraded>>
        /\ spent'.faults = spent.faults /\ spent'.moves = spent.moves
    BY <1>0, <1>4 DEF StaleButton, TypeOK, ShopTypes
  <2>2. \A x \in Orders : x \in Known \ Placed => x \in Known' \ Placed'
    BY <1>0, <1>4, ChatsAssumption DEF StaleButton, SourcesOf, Known, Placed, TypeOK, OrderTypes
  <2>3. QED
    BY <2>1, <2>2, SendStays
<1>5. CASE ClearOrders
  <2>1. /\ UNCHANGED <<cards, cardId, phase, step, batch, reply, chat, moving, upgraded>>
        /\ spent'.faults = spent.faults /\ spent'.moves = spent.moves
    BY <1>0, <1>5 DEF ClearOrders, Spend, TypeOK, ShopTypes
  <2>2. \A x \in Orders : x \in Known \ Placed => x \in Known' \ Placed'
    BY <1>0, <1>5, ChatsAssumption
       DEF ClearOrders, Spend, SourcesOf, Known, Placed, TypeOK, OrderTypes
  <2>3. QED
    BY <2>1, <2>2, SendStays
<1>6. ASSUME NEW c \in Customers, ToggleBlock(c)
      PROVE  SendFacts'
  <2>1. /\ UNCHANGED <<cards, cardId, phase, step, batch, reply, chat, moving, upgraded>>
        /\ spent'.faults = spent.faults /\ spent'.moves = spent.moves
    BY <1>0, <1>6 DEF ToggleBlock, Spend, TypeOK, ShopTypes
  <2>2. \A x \in Orders : x \in Known \ Placed => x \in Known' \ Placed'
    BY <1>0, <1>6, ChatsAssumption
       DEF ToggleBlock, Spend, SourcesOf, Known, Placed, TypeOK, OrderTypes
  <2>3. QED
    BY <2>1, <2>2, SendStays
<1>7. ASSUME NEW c \in Chats, BindChat(c)
      PROVE  SendFacts'
  <2>1. \A x \in Orders : IdsOf(x)' \subseteq IdsOf(x)
    <3>1. SUFFICES ASSUME NEW x \in Orders PROVE IdsOf(x)' \subseteq IdsOf(x)
      OBVIOUS
    <3>2. /\ cards' = cards
          /\ cardId'[x] \in {cardId[x], None} \/ (Answered(x) /\ cardId'[x] = reply.id)
          /\ \A row \in batch' : phase' = "cards" /\ row.order = x =>
                 (row \in batch /\ phase = "cards") \/ row.id = cardId[x]
          /\ Answered(x)' => Answered(x) /\ reply' = reply
      BY <1>0, <1>7, SameCurrent DEF BindChat, MoveTo, Spend, Answered, WorkerFacts
    <3>3. QED
      BY <3>2, IdsKeep
  <2>2. /\ spent'.faults >= spent.faults
        /\ Pending' + 2 * spent.moves <= Pending + 2 * spent'.moves
    BY <1>0, <1>7 DEF BindChat, MoveTo, Spend, Exists, Pending, WorkerFacts, TypeOK, ShopTypes
  <2>3. \A x \in Orders :
            Fresh(x)' => \/ Fresh(x)
                         \/ spent'.faults > spent.faults
                         \/ (Pending' < Pending /\ spent'.moves = spent.moves)
    BY <1>0, <1>7, SameCurrent, SameOrders
       DEF BindChat, MoveTo, Spend, Fresh, Answered, Pending, WorkerFacts, TypeOK, OrderTypes,
       ShopTypes
  <2>4. Counted
    BY <2>1, <2>2, <2>3, SendKeeps
  <2>5. NewOnly
    BY <1>0, <1>7, SameCurrent, CurrentIn
       DEF BindChat, MoveTo, Spend, SendFacts, RowFacts, WorkerFacts
  <2>6. QED
    BY <2>4, <2>5 DEF SendFacts
<1>8. ASSUME NEW c \in Chats, UpgradeChat(c)
      PROVE  SendFacts'
  <2>1. \A x \in Orders : IdsOf(x)' \subseteq IdsOf(x)
    <3>1. SUFFICES ASSUME NEW x \in Orders PROVE IdsOf(x)' \subseteq IdsOf(x)
      OBVIOUS
    <3>2. /\ cards' = cards
          /\ cardId'[x] \in {cardId[x], None} \/ (Answered(x) /\ cardId'[x] = reply.id)
          /\ \A row \in batch' : phase' = "cards" /\ row.order = x =>
                 (row \in batch /\ phase = "cards") \/ row.id = cardId[x]
          /\ Answered(x)' => Answered(x) /\ reply' = reply
      BY <1>0, <1>8, SameCurrent DEF UpgradeChat, Spend, Answered, WorkerFacts
    <3>3. QED
      BY <3>2, IdsKeep
  <2>2. /\ spent'.faults >= spent.faults
        /\ Pending' + 2 * spent.moves <= Pending + 2 * spent'.moves
    BY <1>0, <1>8 DEF UpgradeChat, Spend, Pending, WorkerFacts, TypeOK, ShopTypes
  <2>3. \A x \in Orders :
            Fresh(x)' => \/ Fresh(x)
                         \/ spent'.faults > spent.faults
                         \/ (Pending' < Pending /\ spent'.moves = spent.moves)
    BY <1>0, <1>8, SameCurrent, SameOrders
       DEF UpgradeChat, Spend, Fresh, Answered, Pending, WorkerFacts, TypeOK, OrderTypes,
       ShopTypes
  <2>4. Counted
    BY <2>1, <2>2, <2>3, SendKeeps
  <2>5. NewOnly
    BY <1>0, <1>8, SameCurrent, CurrentIn
       DEF UpgradeChat, Spend, SendFacts, RowFacts, WorkerFacts
  <2>6. QED
    BY <2>4, <2>5 DEF SendFacts
<1>9. CASE FollowUpgrade
  <2>1. \A x \in Orders : IdsOf(x)' \subseteq IdsOf(x)
    <3>1. SUFFICES ASSUME NEW x \in Orders PROVE IdsOf(x)' \subseteq IdsOf(x)
      OBVIOUS
    <3>2. /\ cards' = cards
          /\ cardId'[x] \in {cardId[x], None} \/ (Answered(x) /\ cardId'[x] = reply.id)
          /\ \A row \in batch' : phase' = "cards" /\ row.order = x =>
                 (row \in batch /\ phase = "cards") \/ row.id = cardId[x]
          /\ Answered(x)' => Answered(x) /\ reply' = reply
      BY <1>0, <1>9, SameCurrent DEF FollowUpgrade, MoveTo, Answered, WorkerFacts
    <3>3. QED
      BY <3>2, IdsKeep
  <2>2. /\ spent'.faults >= spent.faults
        /\ Pending' + 2 * spent.moves <= Pending + 2 * spent'.moves
    BY <1>0, <1>9 DEF FollowUpgrade, MoveTo, Pending, WorkerFacts, TypeOK, ShopTypes
  <2>3. \A x \in Orders :
            Fresh(x)' => \/ Fresh(x)
                         \/ spent'.faults > spent.faults
                         \/ (Pending' < Pending /\ spent'.moves = spent.moves)
    BY <1>0, <1>9, SameCurrent, SameOrders
       DEF FollowUpgrade, MoveTo, Fresh, Answered, Pending, WorkerFacts, TypeOK, OrderTypes,
       ShopTypes
  <2>4. Counted
    BY <2>1, <2>2, <2>3, SendKeeps
  <2>5. NewOnly
    BY <1>0, <1>9, SameCurrent, CurrentIn
       DEF FollowUpgrade, MoveTo, SendFacts, RowFacts, WorkerFacts
  <2>6. QED
    BY <2>4, <2>5 DEF SendFacts
<1>10. CASE FinishMove
  <2>1. \A x \in Orders : IdsOf(x)' \subseteq IdsOf(x)
    <3>1. SUFFICES ASSUME NEW x \in Orders PROVE IdsOf(x)' \subseteq IdsOf(x)
      OBVIOUS
    <3>2. /\ cards' = cards
          /\ cardId'[x] \in {cardId[x], None} \/ (Answered(x) /\ cardId'[x] = reply.id)
          /\ \A row \in batch' : phase' = "cards" /\ row.order = x =>
                 (row \in batch /\ phase = "cards") \/ row.id = cardId[x]
          /\ Answered(x)' => Answered(x) /\ reply' = reply
      BY <1>0, <1>10, SameCurrent DEF FinishMove, ResendOpenCards, Answered, WorkerFacts
    <3>3. QED
      BY <3>2, IdsKeep
  <2>2. /\ spent'.faults >= spent.faults
        /\ Pending' + 2 * spent.moves <= Pending + 2 * spent'.moves
    BY <1>0, <1>10 DEF FinishMove, ResendOpenCards, Pending, WorkerFacts, TypeOK, ShopTypes
  <2>3. \A x \in Orders :
            Fresh(x)' => \/ Fresh(x)
                         \/ spent'.faults > spent.faults
                         \/ (Pending' < Pending /\ spent'.moves = spent.moves)
    BY <1>0, <1>10, SameCurrent, SameOrders
       DEF FinishMove, ResendOpenCards, Fresh, Answered, Pending, WorkerFacts, TypeOK,
       OrderTypes, ShopTypes
  <2>4. Counted
    BY <2>1, <2>2, <2>3, SendKeeps
  <2>5. NewOnly
    BY <1>0, <1>10, SameCurrent, CurrentIn
       DEF FinishMove, ResendOpenCards, SendFacts, RowFacts, WorkerFacts, TypeOK, OrderTypes
  <2>6. QED
    BY <2>4, <2>5 DEF SendFacts
<1>11. ASSUME NEW c \in Customers, HandleUpdate(c)
      PROVE  SendFacts'
  <2>1. /\ UNCHANGED <<cards, cardId, phase, step, batch, reply, chat, moving, upgraded>>
        /\ spent'.faults = spent.faults /\ spent'.moves = spent.moves
    BY <1>0, <1>11 DEF HandleUpdate, SetBlocked, TypeOK, ShopTypes
  <2>2. \A x \in Orders : x \in Known \ Placed => x \in Known' \ Placed'
    BY <1>0, <1>11, ChatsAssumption
       DEF HandleUpdate, SetBlocked, SourcesOf, Known, Placed, TypeOK, OrderTypes
  <2>3. QED
    BY <2>1, <2>2, SendStays
<1>12. ASSUME NEW c \in Customers, NEW who \in {"chat", "worker"}, MarkCards(c, who)
      PROVE  SendFacts'
  <2>1. /\ UNCHANGED <<cards, cardId, phase, step, batch, reply, chat, moving, upgraded>>
        /\ spent'.faults = spent.faults /\ spent'.moves = spent.moves
    BY <1>0, <1>12 DEF MarkCards, TypeOK, ShopTypes
  <2>2. \A x \in Orders : x \in Known \ Placed => x \in Known' \ Placed'
    BY <1>0, <1>12, ChatsAssumption DEF MarkCards, SourcesOf, Known, Placed, TypeOK, OrderTypes
  <2>3. QED
    BY <2>1, <2>2, SendStays
<1>13. CASE StartPass
  <2>1. \A x \in Orders : IdsOf(x)' \subseteq IdsOf(x)
    <3>1. SUFFICES ASSUME NEW x \in Orders PROVE IdsOf(x)' \subseteq IdsOf(x)
      OBVIOUS
    <3>2. /\ cards' = cards
          /\ cardId'[x] \in {cardId[x], None} \/ (Answered(x) /\ cardId'[x] = reply.id)
          /\ \A row \in batch' : phase' = "cards" /\ row.order = x =>
                 (row \in batch /\ phase = "cards") \/ row.id = cardId[x]
          /\ Answered(x)' => Answered(x) /\ reply' = reply
      BY <1>0, <1>13, SameCurrent, RowsAre DEF StartPass, Enter, Answered, WorkerFacts, Row
    <3>3. QED
      BY <3>2, IdsKeep
  <2>2. /\ spent'.faults >= spent.faults
        /\ Pending' + 2 * spent.moves <= Pending + 2 * spent'.moves
    BY <1>0, <1>13 DEF StartPass, Enter, Pending, WorkerFacts, TypeOK, ShopTypes
  <2>3. \A x \in Orders :
            Fresh(x)' => \/ Fresh(x)
                         \/ spent'.faults > spent.faults
                         \/ (Pending' < Pending /\ spent'.moves = spent.moves)
    BY <1>0, <1>13, SameCurrent, SameOrders, RowsAre
       DEF StartPass, Enter, Fresh, Answered, Pending, WorkerFacts, TypeOK, OrderTypes,
       ShopTypes
  <2>4. Counted
    BY <2>1, <2>2, <2>3, SendKeeps
  <2>5. NewOnly
    BY <1>0, <1>13, SameCurrent, CurrentIn, RowsAre
       DEF StartPass, Enter, SendFacts, RowFacts, WorkerFacts, Row
  <2>6. QED
    BY <2>4, <2>5 DEF SendFacts
<1>14. CASE NextDrain
  BY <1>0, <1>14, SendSkips DEF NextDrain, Enter, Answered, WorkerFacts, TypeOK, ShopTypes
<1>15. CASE SendCard
  <2>1. Counted
    BY <1>0, <1>15, SendOne DEF SendCard, Await
  <2>2. NewOnly
    BY <1>0, <1>15, SameCurrent DEF SendCard, Await, AtChat, At, SendFacts
  <2>3. QED
    BY <2>1, <2>2 DEF SendFacts
<1>16. CASE StoreCardId
  <2>1. \A x \in Orders : IdsOf(x)' \subseteq IdsOf(x)
    <3>1. SUFFICES ASSUME NEW x \in Orders PROVE IdsOf(x)' \subseteq IdsOf(x)
      OBVIOUS
    <3>2. /\ cards' = cards
          /\ cardId'[x] \in {cardId[x], None} \/ (Answered(x) /\ cardId'[x] = reply.id)
          /\ \A row \in batch' : phase' = "cards" /\ row.order = x =>
                 (row \in batch /\ phase = "cards") \/ row.id = cardId[x]
          /\ Answered(x)' => Answered(x) /\ reply' = reply
      BY <1>0, <1>16, SameCurrent
         DEF StoreCardId, At, Await, Answered, WorkerFacts, TypeOK, OrderTypes
    <3>3. QED
      BY <3>2, IdsKeep
  <2>2. /\ spent'.faults >= spent.faults
        /\ Pending' + 2 * spent.moves <= Pending + 2 * spent'.moves
    BY <1>0, <1>16 DEF StoreCardId, At, Await, Pending, WorkerFacts, TypeOK, ShopTypes
  <2>3. \A x \in Orders :
            Fresh(x)' => \/ Fresh(x)
                         \/ spent'.faults > spent.faults
                         \/ (Pending' < Pending /\ spent'.moves = spent.moves)
    BY <1>0, <1>16, SameCurrent, SameOrders
       DEF StoreCardId, At, Await, Fresh, Answered, Pending, WorkerFacts, TypeOK, OrderTypes,
       ShopTypes
  <2>4. Counted
    BY <2>1, <2>2, <2>3, SendKeeps
  <2>5. NewOnly
    BY <1>0, <1>16, SameCurrent, CurrentIn
       DEF StoreCardId, At, Await, SendFacts, RowFacts, WorkerFacts, TypeOK, OrderTypes
  <2>6. QED
    BY <2>4, <2>5 DEF SendFacts
<1>17. CASE ClearCard
  BY <1>0, <1>17, SendSkips DEF ClearCard, At, Skip, Answered, WorkerFacts, TypeOK, ShopTypes
<1>18. CASE CardRefused
  BY <1>0, <1>18, SendSkips
     DEF CardRefused, AtChat, At, Skip, Answered, WorkerFacts, TypeOK, ShopTypes
<1>19. CASE MeetUpgrade
  <2>1. \A x \in Orders : IdsOf(x)' \subseteq IdsOf(x)
    <3>1. SUFFICES ASSUME NEW x \in Orders PROVE IdsOf(x)' \subseteq IdsOf(x)
      OBVIOUS
    <3>2. /\ cards' = cards
          /\ cardId'[x] \in {cardId[x], None} \/ (Answered(x) /\ cardId'[x] = reply.id)
          /\ \A row \in batch' : phase' = "cards" /\ row.order = x =>
                 (row \in batch /\ phase = "cards") \/ row.id = cardId[x]
          /\ Answered(x)' => Answered(x) /\ reply' = reply
      BY <1>0, <1>19, SameCurrent DEF MeetUpgrade, At, Await, Answered, WorkerFacts
    <3>3. QED
      BY <3>2, IdsKeep
  <2>2. /\ spent'.faults >= spent.faults
        /\ Pending' + 2 * spent.moves <= Pending + 2 * spent'.moves
    BY <1>0, <1>19 DEF MeetUpgrade, At, Await, Pending, WorkerFacts, TypeOK, ShopTypes
  <2>3. \A x \in Orders :
            Fresh(x)' => \/ Fresh(x)
                         \/ spent'.faults > spent.faults
                         \/ (Pending' < Pending /\ spent'.moves = spent.moves)
    BY <1>0, <1>19, SameCurrent, SameOrders
       DEF MeetUpgrade, At, Await, Fresh, Answered, Pending, WorkerFacts, TypeOK, OrderTypes,
       ShopTypes
  <2>4. Counted
    BY <2>1, <2>2, <2>3, SendKeeps
  <2>5. NewOnly
    BY <1>0, <1>19, SameCurrent, CurrentIn
       DEF MeetUpgrade, At, Await, SendFacts, RowFacts, WorkerFacts
  <2>6. QED
    BY <2>4, <2>5 DEF SendFacts
<1>20. CASE AdoptUpgrade
  <2>1. \A x \in Orders : IdsOf(x)' \subseteq IdsOf(x)
    <3>1. SUFFICES ASSUME NEW x \in Orders PROVE IdsOf(x)' \subseteq IdsOf(x)
      OBVIOUS
    <3>2. /\ cards' = cards
          /\ cardId'[x] \in {cardId[x], None} \/ (Answered(x) /\ cardId'[x] = reply.id)
          /\ \A row \in batch' : phase' = "cards" /\ row.order = x =>
                 (row \in batch /\ phase = "cards") \/ row.id = cardId[x]
          /\ Answered(x)' => Answered(x) /\ reply' = reply
      BY <1>0, <1>20, SameCurrent DEF AdoptUpgrade, Await, Answered, WorkerFacts
    <3>3. QED
      BY <3>2, IdsKeep
  <2>2. /\ spent'.faults >= spent.faults
        /\ Pending' + 2 * spent.moves <= Pending + 2 * spent'.moves
    BY <1>0, <1>20 DEF AdoptUpgrade, Await, Pending, WorkerFacts, TypeOK, ShopTypes
  <2>3. \A x \in Orders :
            Fresh(x)' => \/ Fresh(x)
                         \/ spent'.faults > spent.faults
                         \/ (Pending' < Pending /\ spent'.moves = spent.moves)
    BY <1>0, <1>20, SameCurrent, SameOrders
       DEF AdoptUpgrade, Await, Fresh, Answered, Pending, WorkerFacts, TypeOK, OrderTypes,
       ShopTypes
  <2>4. Counted
    BY <2>1, <2>2, <2>3, SendKeeps
  <2>5. NewOnly
    BY <1>0, <1>20, SameCurrent, CurrentIn
       DEF AdoptUpgrade, Await, SendFacts, RowFacts, WorkerFacts
  <2>6. QED
    BY <2>4, <2>5 DEF SendFacts
<1>21. CASE ResendAfterUpgrade
  <2>1. \A x \in Orders : IdsOf(x)' \subseteq IdsOf(x)
    <3>1. SUFFICES ASSUME NEW x \in Orders PROVE IdsOf(x)' \subseteq IdsOf(x)
      OBVIOUS
    <3>2. /\ cards' = cards
          /\ cardId'[x] \in {cardId[x], None} \/ (Answered(x) /\ cardId'[x] = reply.id)
          /\ \A row \in batch' : phase' = "cards" /\ row.order = x =>
                 (row \in batch /\ phase = "cards") \/ row.id = cardId[x]
          /\ Answered(x)' => Answered(x) /\ reply' = reply
      BY <1>0, <1>21, SameCurrent DEF ResendAfterUpgrade, ResendOpenCards, Answered, WorkerFacts
    <3>3. QED
      BY <3>2, IdsKeep
  <2>2. /\ spent'.faults >= spent.faults
        /\ Pending' + 2 * spent.moves <= Pending + 2 * spent'.moves
    BY <1>0, <1>21
       DEF ResendAfterUpgrade, ResendOpenCards, Pending, WorkerFacts, TypeOK, ShopTypes
  <2>3. \A x \in Orders :
            Fresh(x)' => \/ Fresh(x)
                         \/ spent'.faults > spent.faults
                         \/ (Pending' < Pending /\ spent'.moves = spent.moves)
    BY <1>0, <1>21, SameCurrent, SameOrders
       DEF ResendAfterUpgrade, ResendOpenCards, Fresh, Answered, Pending, WorkerFacts, TypeOK,
       OrderTypes, ShopTypes
  <2>4. Counted
    BY <2>1, <2>2, <2>3, SendKeeps
  <2>5. NewOnly
    BY <1>0, <1>21, SameCurrent, CurrentIn
       DEF ResendAfterUpgrade, ResendOpenCards, SendFacts, RowFacts, WorkerFacts, TypeOK,
       OrderTypes
  <2>6. QED
    BY <2>4, <2>5 DEF SendFacts
<1>22. CASE PostPickupNote
  BY <1>0, <1>22, SendSkips
     DEF PostPickupNote, PostNote, AtChat, At, Await, Answered, WorkerFacts, TypeOK, ShopTypes
<1>23. CASE TellCustomer
  BY <1>0, <1>23, SendSkips
     DEF TellCustomer, Read, AtMessage, At, Message, Await, Answered, WorkerFacts, TypeOK,
     ShopTypes
<1>24. CASE MeetBlock
  BY <1>0, <1>24, SendSkips
     DEF MeetBlock, SetBlocked, AtMessage, At, Await, Answered, WorkerFacts, TypeOK, ShopTypes
<1>25. CASE ClearPickup
  BY <1>0, <1>25, SendSkips
     DEF ClearPickup, Told, At, Skip, BlockedCards, Answered, WorkerFacts, TypeOK, ShopTypes
<1>26. CASE ClearNotice
  BY <1>0, <1>26, SendSkips
     DEF ClearNotice, Told, At, Skip, BlockedCards, Answered, WorkerFacts, TypeOK, ShopTypes
<1>27. CASE RowMissing
  BY <1>0, <1>27, SendSkips, CurrentIn
     DEF RowMissing, Told, At, EndPass, Answered, WorkerFacts, TypeOK, ShopTypes
<1>28. CASE Resume
  <2>1. /\ UNCHANGED <<cards, cardId, phase, step, batch, reply, chat, moving, upgraded>>
        /\ spent'.faults = spent.faults /\ spent'.moves = spent.moves
    BY <1>0, <1>28 DEF Resume, TypeOK, ShopTypes
  <2>2. \A x \in Orders : x \in Known \ Placed => x \in Known' \ Placed'
    BY <1>0, <1>28, ChatsAssumption DEF Resume, SourcesOf, Known, Placed, TypeOK, OrderTypes
  <2>3. QED
    BY <2>1, <2>2, SendStays
<1>29. CASE Unreachable
  BY <1>0, <1>29, SendSkips
     DEF Unreachable, Calls, AtMessage, At, Skip, Fault, Spend, Answered, WorkerFacts, TypeOK,
     ShopTypes
<1>30. CASE AnswerLost
  <2>a. CASE AtChat("cards") /\ Deliver(Current)
    <3>1. Counted
      BY <1>0, <1>30, <2>a, SendOne, SameOrders
         DEF AnswerLost, Fault, Spend, Skip, TypeOK, ShopTypes
    <3>2. NewOnly
      BY <1>0, <1>30, <2>a DEF AnswerLost, Skip, AtChat, At, SendFacts
    <3>3. QED
      BY <3>1, <3>2 DEF SendFacts
  <2>b. CASE ~ (AtChat("cards") /\ Deliver(Current))
    BY <1>0, <1>30, <2>b, SendSkips
       DEF AnswerLost, Fault, Spend, Skip, PostNote, Read, AtMessage, AtChat, At, Answered,
           TypeOK, ShopTypes
  <2>3. QED
    BY <2>a, <2>b
<1>31. CASE RateLimited
  BY <1>0, <1>31, SendSkips
     DEF RateLimited, Calls, AtMessage, At, EndPass, Fault, Spend, Answered, WorkerFacts,
     TypeOK, ShopTypes
<1>32. CASE Dropped
  BY <1>0, <1>32, SendSkips
     DEF Dropped, AtMessage, At, Await, Fault, Spend, Answered, WorkerFacts, TypeOK, ShopTypes
<1>33. CASE Crash
  <2>1. \A x \in Orders : IdsOf(x)' \subseteq IdsOf(x)
    <3>1. SUFFICES ASSUME NEW x \in Orders PROVE IdsOf(x)' \subseteq IdsOf(x)
      OBVIOUS
    <3>2. /\ cards' = cards
          /\ cardId'[x] \in {cardId[x], None} \/ (Answered(x) /\ cardId'[x] = reply.id)
          /\ \A row \in batch' : phase' = "cards" /\ row.order = x =>
                 (row \in batch /\ phase = "cards") \/ row.id = cardId[x]
          /\ Answered(x)' => Answered(x) /\ reply' = reply
      BY <1>0, <1>33, SameCurrent DEF Crash, EndPass, Fault, Spend, Answered, WorkerFacts
    <3>3. QED
      BY <3>2, IdsKeep
  <2>2. /\ spent'.faults >= spent.faults
        /\ Pending' + 2 * spent.moves <= Pending + 2 * spent'.moves
    BY <1>0, <1>33 DEF Crash, EndPass, Fault, Spend, Pending, WorkerFacts, TypeOK, ShopTypes
  <2>3. \A x \in Orders :
            Fresh(x)' => \/ Fresh(x)
                         \/ spent'.faults > spent.faults
                         \/ (Pending' < Pending /\ spent'.moves = spent.moves)
    BY <1>0, <1>33, SameCurrent, SameOrders
       DEF Crash, EndPass, Fault, Spend, Fresh, Answered, Pending, WorkerFacts, TypeOK,
       OrderTypes, ShopTypes
  <2>4. Counted
    BY <2>1, <2>2, <2>3, SendKeeps
  <2>5. NewOnly
    BY <1>0, <1>33, SameCurrent, CurrentIn
       DEF Crash, EndPass, Fault, Spend, SendFacts, RowFacts, WorkerFacts
  <2>6. QED
    BY <2>4, <2>5 DEF SendFacts
<1>34. CASE UNCHANGED vars
  <2>1. /\ UNCHANGED <<cards, cardId, phase, step, batch, reply, chat, moving, upgraded>>
        /\ spent'.faults = spent.faults /\ spent'.moves = spent.moves
    BY <1>0, <1>34 DEF vars, TypeOK, ShopTypes
  <2>2. \A x \in Orders : x \in Known \ Placed => x \in Known' \ Placed'
    BY <1>0, <1>34, ChatsAssumption DEF vars, SourcesOf, Known, Placed, TypeOK, OrderTypes
  <2>3. QED
    BY <2>1, <2>2, SendStays
<1>35. ASSUME NEW c \in Chats, NEW i \in DOMAIN cards[c], DeleteCard(c, i)
       PROVE  SendFacts'
  <2>1. /\ UNCHANGED <<cards, cardId, phase, step, batch, reply, chat, moving, upgraded>>
        /\ spent'.faults = spent.faults /\ spent'.moves = spent.moves
    BY <1>35 DEF DeleteCard
  <2>2. \A x \in Orders : x \in Known \ Placed => x \in Known' \ Placed'
    BY <1>35, SameOrders DEF DeleteCard
  <2>3. QED
    BY <2>1, <2>2, SendStays
<1>36. CASE EditRefused
  <2>1. spent'.faults = spent.faults + 1 /\ spent'.moves = spent.moves
    BY <1>0, <1>36 DEF EditRefused, Fault, Spend, TypeOK, ShopTypes
  <2>2. Counted
    BY <1>0, <1>36, <2>1, SendOne DEF EditRefused, RefuseEdit, Await
  <2>3. NewOnly
    BY <1>0, <1>36, SameCurrent DEF EditRefused, RefuseEdit, Await, AtChat, At, SendFacts
  <2>4. QED
    BY <2>2, <2>3 DEF SendFacts
<1>. QED
  BY <1>1, <1>2, <1>3, <1>4, <1>5, <1>6, <1>7, <1>8, <1>9, <1>10, <1>11, <1>12, <1>13, <1>14,
     <1>15, <1>16, <1>17, <1>18, <1>19, <1>20, <1>21, <1>22, <1>23, <1>24, <1>25, <1>26, <1>27,
     <1>28, <1>29, <1>30, <1>31, <1>32, <1>33, <1>34, <1>35, <1>36
     DEF Next, Drain, Handlers, Outside, Failures

(***************************************************************************)
(* The card behind a flag that is down                                     *)
(***************************************************************************)
LEMMA CardStays ==
    ASSUME CardFacts, UNCHANGED <<cards, cardId, chat, moving, upgraded>>,
           spoilt.deleted \subseteq spoilt'.deleted, spoilt.refused \subseteq spoilt'.refused,
           spent'.moves = 0 => spent.moves = 0,
           spent.moves = 0 => step' \notin {"migrated", "resend"},
           \A o \in Placed' \ dirty'.card :
               o \in Placed \ dirty.card /\ status'[o] = status[o],
           phase' = "cards" =>
               /\ phase = "cards"
               /\ \/ UNCHANGED <<batch, step, reply>>
                  \/ batch' \subseteq batch \ {Current} /\ step' = "next"
    PROVE  CardFacts'
<1> SUFFICES ASSUME spent'.moves = 0 PROVE CardFacts'
  BY DEF CardFacts
<1>1. spent.moves = 0
  OBVIOUS
<1>2. upgraded' = {} /\ ~ moving' /\ step' \notin {"migrated", "resend"}
  BY <1>1 DEF CardFacts
<1>3. chat' = None => Placed' \subseteq dirty'.card /\ \A o \in Orders : cardId'[o] = None
  BY <1>1 DEF CardFacts
<1>4. \A o \in Orders : chat' # None /\ cardId'[o] # None => CardIn(chat, o)'
  BY <1>1 DEF CardFacts, CardIn
<1>5. CardCurrent'
  BY <1>1 DEF CardFacts, CardCurrent, Shown, Spoilt, Marred, CardIn
<1>6. phase' = "cards" =>
        /\ \A row \in batch' :
               row # Current' \/ step' # "stored" => row.id = cardId'[row.order]
        /\ step' \in {"replied", "stored"} => Carried(SentId, Current)'
  BY <1>1, SameCurrent DEF CardFacts, SentId, Carried, Marred
<1>7. QED
  BY <1>2, <1>3, <1>4, <1>5, <1>6 DEF CardFacts

\* The message a call for the current row is about.
CallId == IF Current.id = None THEN Len(cards[chat]) + 1 ELSE Current.id

\* A card that was sent or edited, or refused its edit, is nobody else's.
LEMMA CardSent ==
    ASSUME TypeOK, WorkerFacts, RowFacts, CardFacts, spent.moves = 0, AtChat("cards"),
           Deliver(Current) \/ RefuseEdit(Current)
    PROVE  /\ \A o \in Orders : cardId[o] # None =>
                  cardId[o] \in DOMAIN cards'[chat] /\ cards'[chat][cardId[o]].order = o
           /\ \A o \in Orders : cardId[o] # None /\ o # Current.order =>
                  /\ cards'[chat][cardId[o]] = cards[chat][cardId[o]]
                  /\ Marred(cardId[o]) =>
                         <<chat, cardId[o]>> \in spoilt'.deleted \cup spoilt'.refused
           /\ CallId \in DOMAIN cards'[chat] /\ cards'[chat][CallId].order = Current.order
           /\ \/ cards'[chat][CallId].status = Current.status
              \/ <<chat, CallId>> \in spoilt'.deleted \cup spoilt'.refused
<1> DEFINE R == [order : Orders, status : Status, blocked : BOOLEAN]
<1>1. /\ chat \in Chats /\ chat # None /\ phase = "cards" /\ step = "next"
      /\ Current \in batch /\ Current.order \in Orders
  BY CurrentIn, ChatsAssumption DEF AtChat, At, TypeOK, ShopTypes, WorkerTypes
<1>2. cards \in [Chats -> Seq(R)] /\ cards[chat] \in Seq(R)
  BY <1>1 DEF TypeOK, SentTypes
<1>3. /\ \A o \in Orders : cardId[o] # None =>
             cardId[o] \in DOMAIN cards[chat] /\ cards[chat][cardId[o]].order = o
      /\ Current.id = cardId[Current.order]
  BY <1>1 DEF CardFacts, CardIn
<1>4. CardOf(Current).order = Current.order /\ CardOf(Current).status = Current.status
  BY DEF CardOf
<1>5. spoilt = [deleted |-> spoilt.deleted, refused |-> spoilt.refused]
  BY DEF TypeOK, SentTypes
<1> HIDE DEF R
<1>6. CASE Current.id = None
  <2>1. cards'[chat] = Append(cards[chat], CardOf(Current)) /\ spoilt' = spoilt
    BY <1>1, <1>2, <1>6 DEF Deliver, RefuseEdit
  <2>2. QED
    BY <1>2, <1>3, <1>4, <1>6, <2>1 DEF Marred, CallId
<1>7. CASE Current.id # None
  <2>1. Current.id \in DOMAIN cards[chat] /\ cards[chat][Current.id].order = Current.order
    BY <1>1, <1>3, <1>7
  <2>2. CASE Deliver(Current) /\ CanEdit(Current)
    <3>1. /\ cards'[chat] = [cards[chat] EXCEPT ![Current.id] = CardOf(Current)]
          /\ spoilt'.deleted = spoilt.deleted
          /\ spoilt'.refused = spoilt.refused \ {<<chat, Current.id>>}
      BY <1>1, <1>2, <1>5, <1>7, <2>1, <2>2 DEF Deliver
    <3>2. DOMAIN cards'[chat] = DOMAIN cards[chat]
          /\ cards'[chat][Current.id] = CardOf(Current)
          /\ \A i \in DOMAIN cards[chat] : i # Current.id => cards'[chat][i] = cards[chat][i]
      BY <1>2, <2>1, <3>1
    <3>3. \A o \in Orders : cardId[o] # None /\ o # Current.order => cardId[o] # Current.id
      BY <1>3, <2>1
    <3>4. QED
      BY <1>1, <1>3, <1>4, <1>7, <2>1, <3>1, <3>2, <3>3 DEF Marred, CallId
  <2>3. CASE Deliver(Current) /\ ~ CanEdit(Current)
    <3>1. UNCHANGED <<cards, spoilt>> /\ <<chat, Current.id>> \in spoilt.deleted
      BY <1>7, <2>1, <2>3 DEF Deliver, CanEdit
    <3>2. QED
      BY <1>3, <1>7, <2>1, <3>1 DEF Marred, CallId
  <2>4. CASE RefuseEdit(Current)
    <3>1. /\ cards' = cards /\ spoilt'.deleted = spoilt.deleted
          /\ spoilt'.refused = spoilt.refused \cup {<<chat, Current.id>>}
      BY <1>5, <2>4 DEF RefuseEdit
    <3>2. QED
      BY <1>3, <1>7, <2>1, <3>1 DEF Marred, CallId
  <2>5. QED
    BY <2>2, <2>3, <2>4
<1>8. QED
  BY <1>6, <1>7

LEMMA CardArrived ==
    ASSUME TypeOK, WorkerFacts, RowFacts, CardFacts, AtChat("cards"),
           Deliver(Current) \/ RefuseEdit(Current),
           UNCHANGED <<status, dirty, cardId, chat, moving, upgraded, phase>>,
           spent'.moves = spent.moves,
           \/ step' = "next" /\ batch' = batch \ {Current}
           \/ /\ step' = "replied" /\ batch' = batch
              /\ reply'.id = IF Current.id = None THEN Len(cards[chat]) + 1 ELSE None
    PROVE  CardFacts'
<1> SUFFICES ASSUME spent'.moves = 0 PROVE CardFacts'
  BY DEF CardFacts
<1>1. /\ spent.moves = 0 /\ chat \in Chats /\ chat # None /\ phase = "cards" /\ step = "next"
      /\ Current \in batch /\ Current.order \in Orders /\ Current.order \in Known
      /\ Known' = Known /\ Placed' = Placed
  BY CurrentIn, ChatsAssumption, SameOrders DEF AtChat, At, TypeOK, ShopTypes, WorkerTypes
<1>0. /\ \A o \in Orders : cardId[o] # None =>
             cardId[o] \in DOMAIN cards'[chat] /\ cards'[chat][cardId[o]].order = o
      /\ \A o \in Orders : cardId[o] # None /\ o # Current.order =>
             /\ cards'[chat][cardId[o]] = cards[chat][cardId[o]]
             /\ Marred(cardId[o]) =>
                    <<chat, cardId[o]>> \in spoilt'.deleted \cup spoilt'.refused
      /\ CallId \in DOMAIN cards'[chat] /\ cards'[chat][CallId].order = Current.order
      /\ \/ cards'[chat][CallId].status = Current.status
         \/ <<chat, CallId>> \in spoilt'.deleted \cup spoilt'.refused
  BY <1>1, CardSent
<1>2. upgraded' = {} /\ ~ moving' /\ step' \notin {"migrated", "resend"}
  BY <1>1 DEF CardFacts
<1>3. \A o \in Orders : chat' # None /\ cardId'[o] # None => CardIn(chat, o)'
  BY <1>0, <1>1 DEF CardIn
<1>4. CardCurrent'
  <2>1. Current.order \in Placed => Current.order \in dirty.card
    BY <1>1 DEF RowFacts, Flagged
  <2>2. \A o \in Placed \ dirty.card :
            /\ o \in Orders /\ o # Current.order /\ chat # None /\ cardId[o] # None
            /\ cards[chat][cardId[o]].status = status[o] \/ Marred(cardId[o])
    <3>1. \A o \in Placed \ dirty.card : (Shown(o) \/ Spoilt(o)) /\ o \in Orders
      BY <1>1 DEF CardFacts, CardCurrent, Placed, Known
    <3>2. None \notin DOMAIN cards[chat]
      BY <1>1, ChatsAssumption DEF TypeOK, SentTypes
    <3>3. QED
      BY <2>1, <3>1, <3>2 DEF Shown, Spoilt, CardIn
  <2>3. QED
    BY <1>0, <1>1, <2>2 DEF CardCurrent, Shown, Spoilt, Marred, CardIn
<1>5. \A row \in batch' : row.id = cardId'[row.order]
  BY <1>1 DEF CardFacts
<1>6. step' \in {"replied", "stored"} => Carried(SentId, Current)'
  <2> SUFFICES ASSUME step' = "replied" PROVE Carried(SentId, Current)'
    BY <1>1
  <2>1. Current' = Current
    BY SameCurrent
  <2>2. Len(cards[chat]) + 1 # None
    BY <1>1, ChatsAssumption DEF TypeOK, SentTypes
  <2>3. SentId' = CallId
    BY <2>1, <2>2 DEF SentId, CallId
  <2>4. QED
    BY <1>0, <1>1, <2>1, <2>3 DEF Carried, Marred
<1>7. QED
  BY <1>1, <1>2, <1>3, <1>4, <1>5, <1>6 DEF CardFacts

\* Every step keeps the cards right.
LEMMA CardStep ==
    TypeOK /\ WorkerFacts /\ RowFacts /\ CardFacts /\ [Next]_vars => CardFacts'
<1> SUFFICES ASSUME TypeOK, WorkerFacts, RowFacts, CardFacts, [Next]_vars PROVE CardFacts'
  OBVIOUS
<1> USE DEF orderVars, shopVars, customerVars, workerVars, chatVars, outsideVars,
            othersThanRows, hands
<1>0. /\ \A k \in {"moves", "toggles", "faults", "clears"} : spent[k] \in Nat
      /\ Status \cap {None, "deleted"} = {}
      /\ \A row \in batch : row.order \in Known /\ row.order \in Orders
      /\ dirty = [card |-> dirty.card, notify |-> dirty.notify, pickup |-> dirty.pickup]
  BY ChatsAssumption, SyncBounds
     DEF Status, TypeOK, OrderTypes, ShopTypes, WorkerTypes, Known
<1>1. ASSUME NEW o \in Orders, PlaceOrder(o)
      PROVE  CardFacts'
  BY <1>0, <1>1, CardStays
     DEF PlaceOrder, Owe, TypeOK, ShopTypes, WorkerFacts, CardFacts, Placed, Known, OrderTypes
<1>2. ASSUME NEW o \in Orders, ChoosePickup(o)
      PROVE  CardFacts'
  BY <1>0, <1>2, CardStays, SameOrders
     DEF ChoosePickup, TypeOK, ShopTypes, WorkerFacts, CardFacts
<1>3. ASSUME NEW o \in Orders, NEW to \in Status, ChangeStatus(o, to)
      PROVE  CardFacts'
  BY <1>0, <1>3, CardStays
     DEF ChangeStatus, Owe, SourcesOf, TypeOK, ShopTypes, WorkerFacts, CardFacts, Placed, Known,
     OrderTypes
<1>4. ASSUME NEW o \in Orders, NEW to \in Status, StaleButton(o, to)
      PROVE  CardFacts'
  BY <1>0, <1>4, CardStays, SameOrders
     DEF StaleButton, TypeOK, ShopTypes, WorkerFacts, CardFacts
<1>5. CASE ClearOrders
  BY <1>0, <1>5, CardStays, ChatsAssumption
     DEF ClearOrders, Spend, TypeOK, ShopTypes, WorkerFacts, CardFacts, Placed, Known,
     OrderTypes
<1>6. ASSUME NEW c \in Customers, ToggleBlock(c)
      PROVE  CardFacts'
  BY <1>0, <1>6, CardStays, SameOrders
     DEF ToggleBlock, Spend, TypeOK, ShopTypes, WorkerFacts, CardFacts
<1>7. ASSUME NEW c \in Chats, BindChat(c)
      PROVE  CardFacts'
  BY <1>0, <1>7 DEF BindChat, MoveTo, Spend, CardFacts, TypeOK, ShopTypes
<1>8. ASSUME NEW c \in Chats, UpgradeChat(c)
      PROVE  CardFacts'
  BY <1>0, <1>8 DEF UpgradeChat, Spend, CardFacts, TypeOK, ShopTypes
<1>9. CASE FollowUpgrade
  <2>1. spent.moves # 0 /\ spent' = spent
    BY <1>9 DEF FollowUpgrade, MoveTo, CardFacts
  <2>2. QED
    BY <2>1 DEF CardFacts
<1>10. CASE FinishMove
  <2>1. spent.moves # 0 /\ spent' = spent
    BY <1>10 DEF FinishMove, ResendOpenCards, CardFacts
  <2>2. QED
    BY <2>1 DEF CardFacts
<1>11. ASSUME NEW c \in Customers, HandleUpdate(c)
      PROVE  CardFacts'
  BY <1>0, <1>11, CardStays, SameOrders
     DEF HandleUpdate, SetBlocked, TypeOK, ShopTypes, WorkerFacts, CardFacts
<1>12. ASSUME NEW c \in Customers, NEW who \in {"chat", "worker"}, MarkCards(c, who)
      PROVE  CardFacts'
  BY <1>0, <1>12, CardStays, SameOrders DEF MarkCards, TypeOK, ShopTypes, WorkerFacts, CardFacts
<1>13. CASE StartPass
  <2>1. /\ UNCHANGED <<cards, spoilt, cardId, chat, moving, upgraded, spent, dirty, status>>
        /\ step' = "next" /\ Placed' = Placed
        /\ \A row \in batch' : row.id = cardId[row.order]
    BY <1>13, RowsAre, SameOrders DEF StartPass, Enter, Row
  <2>2. QED
    BY <2>1 DEF CardFacts, CardCurrent, Shown, Spoilt, Marred, CardIn
<1>14. CASE NextDrain
  <2>1. /\ UNCHANGED <<cards, spoilt, cardId, chat, moving, upgraded, spent, dirty, status>>
        /\ step' = "next" /\ Placed' = Placed
        /\ \A row \in batch' : row.id = cardId[row.order]
    BY <1>14, RowsAre, SameOrders DEF NextDrain, Enter, Row
  <2>2. QED
    BY <2>1 DEF CardFacts, CardCurrent, Shown, Spoilt, Marred, CardIn
<1>15. CASE SendCard
  BY <1>15, CardArrived DEF SendCard, Deliver, AtChat, At, Await
<1>16. CASE StoreCardId
  <2>1. /\ UNCHANGED <<cards, spoilt, chat, moving, upgraded, spent, dirty, status, batch,
                       phase>>
        /\ reply'.id = reply.id /\ step' = "stored" /\ step = "replied" /\ phase = "cards"
        /\ Placed' = Placed
        /\ Current' = Current
    BY <1>16, SameOrders, SameCurrent DEF StoreCardId, At, Await
  <2>a. Current \in batch /\ Current.order \in Orders
    BY <1>16, CurrentIn DEF StoreCardId, At
  <2>b. chat # None /\ chat \in Chats
    BY <2>1 DEF TypeOK, ShopTypes, WorkerTypes
  <2>2. /\ \A x \in Orders : x # Current.order => cardId'[x] = cardId[x]
        /\ cardId'[Current.order] = IF reply.id = None THEN cardId[Current.order] ELSE reply.id
    BY <1>16, <2>1, <2>a, <2>b DEF StoreCardId, TypeOK, OrderTypes
  <2>3. SUFFICES ASSUME spent.moves = 0 PROVE CardFacts'
    BY <2>1, <2>a, <2>b DEF CardFacts
  <2>4. SentId \in DOMAIN cards[chat] /\ cards[chat][SentId].order = Current.order
        /\ Carried(SentId, Current)
    BY <2>1, <2>a, <2>b, <2>3 DEF CardFacts, Carried
  <2>5. \A x \in Orders : cardId'[x] # None =>
            cardId'[x] \in DOMAIN cards[chat] /\ cards[chat][cardId'[x]].order = x
    BY <2>1, <2>a, <2>b, <2>2, <2>3, <2>4 DEF CardFacts, CardIn, SentId
  <2>6. Current.order \in Placed => Current.order \in dirty.card
    BY <2>1, <2>a, <2>b DEF RowFacts, Flagged
  <2>7. CardCurrent'
    BY <2>1, <2>a, <2>b, <2>2, <2>3, <2>6
       DEF CardFacts, CardCurrent, Shown, Spoilt, Marred, CardIn, Placed, Known
  <2>8. \A row \in batch : row # Current => row.id = cardId'[row.order]
    BY <1>0, <2>1, <2>a, <2>b, <2>2, <2>3 DEF CardFacts, RowFacts
  <2>9. Carried(SentId, Current)'
    BY <2>1, <2>4 DEF SentId, Carried, Marred
  <2>10. QED
    BY <2>1, <2>a, <2>b, <2>3, <2>4, <2>5, <2>7, <2>8, <2>9 DEF CardFacts, CardIn
<1>17. CASE ClearCard
  <2>1. /\ UNCHANGED <<cards, spoilt, cardId, chat, moving, upgraded, spent, status, phase>>
        /\ step' = "next" /\ step = "stored" /\ phase = "cards" /\ Placed' = Placed
        /\ batch' = batch \ {Current} /\ chat # None
    BY <1>17, SameOrders DEF ClearCard, At, Skip, TypeOK, WorkerTypes
  <2>2. SUFFICES ASSUME spent.moves = 0 PROVE CardFacts'
    BY <2>1 DEF CardFacts
  <2>3. /\ SentId \in DOMAIN cards[chat] /\ cards[chat][SentId].order = Current.order
        /\ cards[chat][SentId].status = Current.status \/ Marred(SentId)
    BY <2>1, <2>2 DEF CardFacts, Carried
  <2>4. \/ dirty' = dirty
        \/ /\ dirty'.card = dirty.card \ {Current.order}
           /\ status[Current.order] = Current.status /\ cardId[Current.order] = SentId
    BY <1>0, <1>17 DEF ClearCard, AsRead, SentId
  <2>5. CardCurrent'
    <3>1. \A o \in Placed \ dirty.card : Shown(o) \/ Spoilt(o)
      BY <2>2 DEF CardFacts, CardCurrent
    <3>2. \A o \in Placed \ dirty'.card :
              /\ CardIn(chat, o)
              /\ cards[chat][cardId[o]].status = status[o] \/ Marred(cardId[o])
      BY <2>3, <2>4, <3>1 DEF Shown, Spoilt, CardIn
    <3>3. QED
      BY <2>1, <3>2 DEF CardCurrent, Shown, Spoilt, Marred, CardIn
  <2>6. QED
    BY <2>1, <2>2, <2>5 DEF CardFacts, CardIn
<1>18. CASE CardRefused
  BY <1>0, <1>18, CardStays, SameOrders
     DEF CardRefused, AtChat, At, Skip, TypeOK, ShopTypes, WorkerFacts, CardFacts
<1>19. CASE MeetUpgrade
  <2>1. spent.moves # 0 /\ spent' = spent
    BY <1>19 DEF MeetUpgrade, At, Await, CardFacts
  <2>2. QED
    BY <2>1 DEF CardFacts
<1>20. CASE AdoptUpgrade
  <2>1. spent.moves # 0 /\ spent' = spent
    BY <1>20 DEF AdoptUpgrade, Await, CardFacts
  <2>2. QED
    BY <2>1 DEF CardFacts
<1>21. CASE ResendAfterUpgrade
  <2>1. spent.moves # 0 /\ spent' = spent
    BY <1>21 DEF ResendAfterUpgrade, ResendOpenCards, CardFacts
  <2>2. QED
    BY <2>1 DEF CardFacts
<1>22. CASE PostPickupNote
  BY <1>0, <1>22, CardStays, SameOrders
     DEF PostPickupNote, PostNote, AtChat, At, Await, TypeOK, ShopTypes, WorkerFacts, CardFacts
<1>23. CASE TellCustomer
  BY <1>0, <1>23, CardStays, SameOrders
     DEF TellCustomer, Read, AtMessage, At, Message, Await, TypeOK, ShopTypes, WorkerFacts,
     CardFacts
<1>24. CASE MeetBlock
  BY <1>0, <1>24, CardStays, SameOrders
     DEF MeetBlock, SetBlocked, AtMessage, At, Await, TypeOK, ShopTypes, WorkerFacts, CardFacts
<1>25. CASE ClearPickup
  BY <1>0, <1>25, CardStays, SameOrders
     DEF ClearPickup, Told, At, Skip, BlockedCards, TypeOK, ShopTypes, WorkerFacts, CardFacts
<1>26. CASE ClearNotice
  BY <1>0, <1>26, CardStays, SameOrders
     DEF ClearNotice, Told, At, Skip, BlockedCards, TypeOK, ShopTypes, WorkerFacts, CardFacts
<1>27. CASE RowMissing
  BY <1>0, <1>27, CardStays, SameOrders
     DEF RowMissing, Told, At, EndPass, TypeOK, ShopTypes, WorkerFacts, CardFacts
<1>28. CASE Resume
  BY <1>0, <1>28, CardStays, SameOrders DEF Resume, TypeOK, ShopTypes, WorkerFacts, CardFacts
<1>29. CASE Unreachable
  BY <1>0, <1>29, CardStays, SameOrders
     DEF Unreachable, Calls, AtMessage, At, Skip, Fault, Spend, TypeOK, ShopTypes, WorkerFacts,
     CardFacts
<1>30. CASE AnswerLost
  <2>1. CASE AtChat("cards") /\ Deliver(Current)
    BY <1>0, <1>30, <2>1, CardArrived
       DEF AnswerLost, Fault, Spend, Skip, TypeOK, ShopTypes
  <2>2. CASE ~ (AtChat("cards") /\ Deliver(Current))
    BY <1>0, <1>30, <2>2, CardStays, SameOrders
       DEF AnswerLost, AtChat, AtMessage, At, Deliver, PostNote, Read, Message, Skip, Fault,
       Spend, TypeOK, ShopTypes, WorkerFacts
  <2>3. QED
    BY <2>1, <2>2
<1>31. CASE RateLimited
  BY <1>0, <1>31, CardStays, SameOrders
     DEF RateLimited, Calls, AtMessage, At, EndPass, Fault, Spend, TypeOK, ShopTypes,
     WorkerFacts, CardFacts
<1>32. CASE Dropped
  BY <1>0, <1>32, CardStays, SameOrders
     DEF Dropped, AtMessage, At, Await, Fault, Spend, TypeOK, ShopTypes, WorkerFacts, CardFacts
<1>33. CASE Crash
  BY <1>0, <1>33, CardStays, SameOrders
     DEF Crash, EndPass, Fault, Spend, TypeOK, ShopTypes, WorkerFacts, CardFacts
<1>34. CASE UNCHANGED vars
  BY <1>0, <1>34, CardStays, SameOrders DEF vars, TypeOK, ShopTypes, WorkerFacts, CardFacts
<1>35. ASSUME NEW c \in Chats, NEW i \in DOMAIN cards[c], DeleteCard(c, i)
       PROVE  CardFacts'
  <2>1. spoilt = [deleted |-> spoilt.deleted, refused |-> spoilt.refused]
    BY DEF TypeOK, SentTypes
  <2>2. QED
    BY <1>0, <1>35, <2>1, CardStays, SameOrders DEF DeleteCard, CardFacts
<1>36. CASE EditRefused
  <2>1. spent'.moves = spent.moves
    BY <1>0, <1>36 DEF EditRefused, Fault, Spend, TypeOK, ShopTypes
  <2>2. QED
    BY <1>36, <2>1, CardArrived DEF EditRefused, RefuseEdit, AtChat, At, Await
<1>. QED
  BY <1>1, <1>2, <1>3, <1>4, <1>5, <1>6, <1>7, <1>8, <1>9, <1>10, <1>11, <1>12, <1>13, <1>14,
     <1>15, <1>16, <1>17, <1>18, <1>19, <1>20, <1>21, <1>22, <1>23, <1>24, <1>25, <1>26, <1>27,
     <1>28, <1>29, <1>30, <1>31, <1>32, <1>33, <1>34, <1>35, <1>36
     DEF Next, Drain, Handlers, Outside, Failures

(***************************************************************************)
(* The message behind a flag that is down                                  *)
(***************************************************************************)
LEMMA SettledStays ==
    ASSUME SettledFacts, inbox' = inbox, noted \subseteq noted', gaveUp \subseteq gaveUp',
           step' = "told" \/ (phase' = "pickups" /\ step' = "replied") =>
               UNCHANGED <<phase, step, batch, reply>>,
           \A o \in Placed' \ gaveUp' :
               /\ o \in Placed \/ o \in dirty'.notify \ chosen'
               /\ o \notin dirty'.notify => o \notin dirty.notify /\ status'[o] = status[o]
               /\ o \in chosen' \ dirty'.pickup => o \in chosen \ dirty.pickup
    PROVE  SettledFacts'
<1>1. \A o, m : LastNotice(o, m)' <=> LastNotice(o, m)
  BY DEF LastNotice, Notices
<1>2. \A o : ToldToCome(o) => ToldToCome(o)'
  BY DEF ToldToCome
<1>3. NothingOwedIsLost'
  BY <1>1, <1>2 DEF SettledFacts, NothingOwedIsLost
<1>5. step' = "told" \/ (phase' = "pickups" /\ step' = "replied") =>
        /\ step = step' /\ phase = phase' /\ reply = reply' /\ Current' = Current
  BY SameCurrent
<1>6. /\ step' = "told" /\ reply'.kind # "sent" => Current'.order \in gaveUp'
      /\ phase' = "pickups" /\ step' \in {"replied", "told"} =>
             Current'.order \in noted' \cup gaveUp'
      /\ phase' = "pickups" /\ step' = "told" /\ reply'.kind = "sent" =>
             \E i \in DOMAIN inbox'[Current'.order] : inbox'[Current'.order][i] = "pickup"
  BY <1>5 DEF SettledFacts
<1>7. step' = "told" /\ reply'.kind = "sent" /\ phase' = "notices" =>
          LastNotice(Current.order, Current.status)'
  <2> SUFFICES ASSUME step' = "told", reply'.kind = "sent", phase' = "notices"
               PROVE  LastNotice(Current.order, Current.status)'
    OBVIOUS
  <2>1. PICK c, s : c = Current.order /\ s = Current.status
    OBVIOUS
  <2>2. LastNotice(c, s)
    BY <1>5, <2>1 DEF SettledFacts
  <2>3. LastNotice(c, s)'
    BY <1>1, <2>2
  <2>4. Current'.order = c /\ Current'.status = s
    BY <1>5, <2>1
  <2>5. QED
    BY <2>3, <2>4 DEF LastNotice, Notices
<1>8. QED
  BY <1>3, <1>6, <1>7 DEF SettledFacts

\* A message that is read is the last one, and a notice only when the flag is up.
LEMMA SettledRead ==
    ASSUME TypeOK, WorkerFacts, RowFacts, SettledFacts, AtMessage, Read,
           UNCHANGED <<status, dirty, chosen, noted, gaveUp, phase>>
    PROVE  /\ NothingOwedIsLost'
           /\ \E i \in DOMAIN inbox'[Current.order] : inbox'[Current.order][i] = Message
           /\ \A c, s : phase = "notices" /\ c = Current.order /\ s = Current.status =>
                  LastNotice(c, s)'
<1>0. PICK c, n, m : c = Current.order /\ n = Len(inbox[c]) /\ m = Message
  OBVIOUS
<1>1. /\ batch # {} /\ Current \in batch /\ c \in Orders /\ phase \in {"pickups", "notices"}
      /\ Current.status \in Status /\ Current.status # "pickup"
  BY <1>0, CurrentIn DEF AtMessage, At, TypeOK, WorkerTypes, Status
<1>2. /\ \A o \in Orders : o # c => inbox'[o] = inbox[o]
      /\ n \in Nat /\ DOMAIN inbox[c] = 1 .. n /\ DOMAIN inbox'[c] = 1 .. n + 1
      /\ \A i \in DOMAIN inbox[c] : inbox'[c][i] = inbox[c][i]
      /\ inbox'[c][n + 1] = m
  BY <1>0, <1>1, ReadEffect
<1>3. phase = "notices" => m = Current.status
  BY <1>0, <1>1 DEF Message
<1>4. phase = "pickups" => m = "pickup"
  BY <1>0, <1>1 DEF Message, AtMessage, At
<1>5. \A o \in Orders : \A s : o # c => (LastNotice(o, s)' <=> LastNotice(o, s))
  BY <1>2 DEF LastNotice, Notices
<1>6. ASSUME phase = "notices"
      PROVE  LastNotice(c, m)'
  <2>1. \A j \in Notices(c)' : j <= n + 1
    BY <1>2 DEF Notices
  <2>2. QED
    BY <1>2, <2>1 DEF LastNotice
<1>7. ASSUME phase = "pickups", NEW s, LastNotice(c, s)
      PROVE  LastNotice(c, s)'
  <2>1. Notices(c)' = Notices(c)
    BY <1>2, <1>4, <1>7 DEF Notices
  <2>2. QED
    BY <1>2, <1>7, <2>1 DEF LastNotice
<1>8. \A o \in Orders : ToldToCome(o) => ToldToCome(o)'
  BY <1>2 DEF ToldToCome
<1>9. phase = "notices" /\ c \in Placed => c \in dirty.notify
  BY <1>0, <1>1 DEF RowFacts, Flagged
<1>10. Known' = Known /\ Placed' = Placed
  BY SameOrders
<1>11. NothingOwedIsLost'
  <2> SUFFICES ASSUME NEW o \in Placed \ gaveUp
               PROVE  /\ o \notin dirty.notify => LastNotice(o, status[o])'
                      /\ o \in chosen \ dirty.pickup => ToldToCome(o)'
    BY <1>10 DEF NothingOwedIsLost, LastNotice, Notices
  <2>1. o \in Orders
    BY DEF Placed, Known
  <2>2. PICK s : s = status[o]
    OBVIOUS
  <2>3. o \notin dirty.notify => LastNotice(o, s)
    BY <2>2 DEF SettledFacts, NothingOwedIsLost
  <2>4. o \notin dirty.notify => LastNotice(o, s)'
    BY <1>1, <1>5, <1>7, <1>9, <2>1, <2>3
  <2>5. o \notin dirty.notify => LastNotice(o, status[o])'
    BY <2>2, <2>4 DEF LastNotice, Notices
  <2>6. o \in chosen \ dirty.pickup => ToldToCome(o)'
    BY <1>8, <2>1 DEF SettledFacts, NothingOwedIsLost
  <2>7. QED
    BY <2>5, <2>6
<1>12. QED
  BY <1>0, <1>2, <1>3, <1>6, <1>11

\* Every step keeps what a lowered flag stands for.
LEMMA SettledStep ==
    TypeOK /\ WorkerFacts /\ RowFacts /\ SettledFacts /\ [Next]_vars => SettledFacts'
<1> SUFFICES ASSUME TypeOK, WorkerFacts, RowFacts, SettledFacts, [Next]_vars
             PROVE  SettledFacts'
  OBVIOUS
<1> USE DEF orderVars, shopVars, customerVars, workerVars, chatVars, outsideVars,
            othersThanRows, hands
<1>0. /\ dirty = [card |-> dirty.card, notify |-> dirty.notify, pickup |-> dirty.pickup]
      /\ Status \cap {None, "deleted"} = {}
      /\ chosen \subseteq Known
  BY ChatsAssumption DEF Status, TypeOK, OrderTypes
<1>1. ASSUME NEW o \in Orders, PlaceOrder(o)
      PROVE  SettledFacts'
  BY <1>0, <1>1, SettledStays
     DEF PlaceOrder, Owe, WorkerFacts, Placed, Known, TypeOK, OrderTypes
<1>2. ASSUME NEW o \in Orders, ChoosePickup(o)
      PROVE  SettledFacts'
  BY <1>0, <1>2, SettledStays, SameOrders DEF ChoosePickup, WorkerFacts
<1>3. ASSUME NEW o \in Orders, NEW to \in Status, ChangeStatus(o, to)
      PROVE  SettledFacts'
  BY <1>0, <1>3, SettledStays
     DEF ChangeStatus, Owe, SourcesOf, WorkerFacts, Placed, Known, TypeOK, OrderTypes
<1>4. ASSUME NEW o \in Orders, NEW to \in Status, StaleButton(o, to)
      PROVE  SettledFacts'
  BY <1>0, <1>4, SettledStays, SameOrders DEF StaleButton, WorkerFacts
<1>5. CASE ClearOrders
  BY <1>0, <1>5, SettledStays, ChatsAssumption
     DEF ClearOrders, Spend, WorkerFacts, Placed, Known, TypeOK, OrderTypes
<1>6. ASSUME NEW c \in Customers, ToggleBlock(c)
      PROVE  SettledFacts'
  BY <1>0, <1>6, SettledStays, SameOrders DEF ToggleBlock, Spend, WorkerFacts
<1>7. ASSUME NEW c \in Chats, BindChat(c)
      PROVE  SettledFacts'
  BY <1>0, <1>7, SettledStays, SameOrders DEF BindChat, MoveTo, Spend, WorkerFacts
<1>8. ASSUME NEW c \in Chats, UpgradeChat(c)
      PROVE  SettledFacts'
  BY <1>0, <1>8, SettledStays, SameOrders DEF UpgradeChat, Spend, WorkerFacts
<1>9. CASE FollowUpgrade
  BY <1>0, <1>9, SettledStays, SameOrders DEF FollowUpgrade, MoveTo, WorkerFacts
<1>10. CASE FinishMove
  BY <1>0, <1>10, SettledStays, SameOrders DEF FinishMove, ResendOpenCards, WorkerFacts
<1>11. ASSUME NEW c \in Customers, HandleUpdate(c)
      PROVE  SettledFacts'
  BY <1>0, <1>11, SettledStays, SameOrders DEF HandleUpdate, SetBlocked, WorkerFacts
<1>12. ASSUME NEW c \in Customers, NEW who \in {"chat", "worker"}, MarkCards(c, who)
      PROVE  SettledFacts'
  BY <1>0, <1>12, SettledStays, SameOrders DEF MarkCards, WorkerFacts
<1>13. CASE StartPass
  BY <1>0, <1>13, SettledStays, SameOrders DEF StartPass, Enter, WorkerFacts
<1>14. CASE NextDrain
  BY <1>0, <1>14, SettledStays, SameOrders DEF NextDrain, Enter, WorkerFacts
<1>15. CASE SendCard
  BY <1>0, <1>15, SettledStays, SameOrders DEF SendCard, Deliver, AtChat, At, Await, WorkerFacts
<1>16. CASE StoreCardId
  BY <1>0, <1>16, SettledStays, SameOrders DEF StoreCardId, At, Await, WorkerFacts
<1>17. CASE ClearCard
  BY <1>0, <1>17, SettledStays, SameOrders DEF ClearCard, At, Skip, WorkerFacts
<1>18. CASE CardRefused
  BY <1>0, <1>18, SettledStays, SameOrders DEF CardRefused, AtChat, At, Skip, WorkerFacts
<1>19. CASE MeetUpgrade
  BY <1>0, <1>19, SettledStays, SameOrders DEF MeetUpgrade, At, Await, WorkerFacts
<1>20. CASE AdoptUpgrade
  BY <1>0, <1>20, SettledStays, SameOrders DEF AdoptUpgrade, Await, WorkerFacts
<1>21. CASE ResendAfterUpgrade
  BY <1>0, <1>21, SettledStays, SameOrders DEF ResendAfterUpgrade, ResendOpenCards, WorkerFacts
<1>22. CASE PostPickupNote
  <2>1. /\ UNCHANGED <<inbox, status, dirty, chosen, gaveUp, phase, batch>> /\ Placed' = Placed
        /\ phase = "pickups" /\ step' = "replied" /\ noted' = noted \cup {Current.order}
        /\ Current' = Current
    BY <1>22, SameOrders, SameCurrent DEF PostPickupNote, PostNote, AtChat, At, Await
  <2>2. NothingOwedIsLost'
    BY <2>1 DEF SettledFacts, NothingOwedIsLost, LastNotice, Notices, ToldToCome
  <2>3. QED
    BY <2>1, <2>2 DEF SettledFacts
<1>23. CASE TellCustomer
  <2>1. /\ UNCHANGED <<status, dirty, chosen, gaveUp, noted, phase, batch>>
        /\ AtMessage /\ Read /\ step' = "told" /\ reply'.kind = "sent"
        /\ Current' = Current
    BY <1>23, SameCurrent DEF TellCustomer, Read, Await
  <2>2. PICK c, s : c = Current.order /\ s = Current.status
    OBVIOUS
  <2>3. /\ NothingOwedIsLost'
        /\ phase = "notices" => LastNotice(c, s)'
        /\ phase = "pickups" => \E j \in DOMAIN inbox'[c] : inbox'[c][j] = "pickup"
    BY <2>1, <2>2, SettledRead DEF Message, AtMessage, At
  <2>4. phase = "pickups" => c \in noted \cup gaveUp
    BY <2>1, <2>2 DEF SettledFacts, AtMessage, At
  <2>5. Current'.order = c /\ Current'.status = s
    BY <2>1, <2>2
  <2>6. phase' = "notices" => LastNotice(Current.order, Current.status)'
    BY <2>1, <2>3, <2>5 DEF LastNotice, Notices
  <2>7. QED
    BY <2>1, <2>3, <2>4, <2>5, <2>6 DEF SettledFacts
<1>24. CASE MeetBlock
  <2>1. /\ UNCHANGED <<inbox, status, dirty, chosen, noted, phase, batch>> /\ Placed' = Placed
        /\ gaveUp' = gaveUp \cup {Current.order} /\ Current' = Current
    BY <1>24, SameOrders, SameCurrent DEF MeetBlock, SetBlocked, AtMessage, At, Await
  <2>2. (step' = "told" /\ reply'.kind # "sent") \/ step' = "replied"
    BY <1>24 DEF MeetBlock, SetBlocked, AtMessage, At, Await
  <2>3. NothingOwedIsLost'
    BY <2>1 DEF SettledFacts, NothingOwedIsLost, LastNotice, Notices, ToldToCome
  <2>4. QED
    BY <2>1, <2>2, <2>3 DEF SettledFacts
<1>25. CASE ClearPickup
  <2>1. /\ UNCHANGED <<inbox, status, chosen, noted, gaveUp, phase>> /\ Placed' = Placed
        /\ step = "told" /\ step' = "next" /\ phase = "pickups"
    BY <1>25, SameOrders DEF ClearPickup, Told, At, Skip, BlockedCards
  <2>2. dirty'.notify = dirty.notify /\ dirty'.pickup = dirty.pickup \ {Current.order}
    BY <1>0, <1>25 DEF ClearPickup
  <2>3. Current.order \notin gaveUp => ToldToCome(Current.order)
    BY <2>1 DEF SettledFacts, ToldToCome
  <2>4. NothingOwedIsLost'
    BY <2>1, <2>2, <2>3 DEF SettledFacts, NothingOwedIsLost, LastNotice, Notices, ToldToCome
  <2>5. QED
    BY <2>1, <2>4 DEF SettledFacts
<1>26. CASE ClearNotice
  <2>1. /\ UNCHANGED <<inbox, status, chosen, noted, gaveUp, phase>> /\ Placed' = Placed
        /\ step = "told" /\ step' = "next" /\ phase = "notices"
    BY <1>26, SameOrders DEF ClearNotice, Told, At, Skip, BlockedCards
  <2>2. /\ dirty'.pickup = dirty.pickup
        /\ \/ dirty'.notify = dirty.notify
           \/ /\ dirty'.notify = dirty.notify \ {Current.order}
              /\ reply.kind = "sent" => status[Current.order] = Current.status
    BY <1>0, <1>26 DEF ClearNotice
  <2>3. Current.order \notin gaveUp =>
            reply.kind = "sent" /\ LastNotice(Current.order, Current.status)
    BY <2>1 DEF SettledFacts
  <2>4. NothingOwedIsLost'
    <3>1. \A o \in Placed \ gaveUp :
              /\ o \notin dirty'.notify => LastNotice(o, status[o])
              /\ o \in chosen \ dirty'.pickup => ToldToCome(o)
      BY <2>2, <2>3 DEF SettledFacts, NothingOwedIsLost
    <3>2. QED
      BY <2>1, <3>1 DEF NothingOwedIsLost, LastNotice, Notices, ToldToCome
  <2>5. QED
    BY <2>1, <2>4 DEF SettledFacts
<1>27. CASE RowMissing
  BY <1>0, <1>27, SettledStays, SameOrders DEF RowMissing, Told, At, EndPass, WorkerFacts
<1>28. CASE Resume
  BY <1>0, <1>28, SettledStays, SameOrders DEF Resume, WorkerFacts
<1>29. CASE Unreachable
  BY <1>0, <1>29, SettledStays, SameOrders
     DEF Unreachable, Calls, AtMessage, At, Skip, Fault, Spend, WorkerFacts
<1>30. CASE AnswerLost
  <2>1. CASE AtMessage /\ Read
    <3>1. UNCHANGED <<status, dirty, chosen, noted, gaveUp, phase>> /\ step' = "next"
      BY <1>30, <2>1 DEF AnswerLost, Skip, Read
    <3>2. NothingOwedIsLost'
      BY <2>1, <3>1, SettledRead
    <3>3. QED
      BY <3>1, <3>2 DEF SettledFacts
  <2>2. CASE ~ (AtMessage /\ Read)
    BY <1>30, <2>2, SettledStays, SameOrders DEF AnswerLost, Deliver, PostNote, Skip
  <2>3. QED
    BY <1>30, <2>1, <2>2
<1>31. CASE RateLimited
  BY <1>0, <1>31, SettledStays, SameOrders
     DEF RateLimited, Calls, AtMessage, At, EndPass, Fault, Spend, WorkerFacts
<1>32. CASE Dropped
  <2>1. /\ UNCHANGED <<inbox, status, dirty, chosen, noted, phase, batch>> /\ Placed' = Placed
        /\ gaveUp' = gaveUp \cup {Current.order} /\ Current' = Current
    BY <1>32, SameOrders, SameCurrent DEF Dropped, AtMessage, At, Await, Fault, Spend
  <2>2. (step' = "told" /\ reply'.kind # "sent") \/ step' = "replied"
    BY <1>32 DEF Dropped, AtMessage, At, Await, Fault, Spend
  <2>3. NothingOwedIsLost'
    BY <2>1 DEF SettledFacts, NothingOwedIsLost, LastNotice, Notices, ToldToCome
  <2>4. QED
    BY <2>1, <2>2, <2>3 DEF SettledFacts
<1>33. CASE Crash
  BY <1>0, <1>33, SettledStays, SameOrders DEF Crash, EndPass, Fault, Spend, WorkerFacts
<1>34. CASE UNCHANGED vars
  BY <1>0, <1>34, SettledStays, SameOrders DEF vars, WorkerFacts
<1>35. ASSUME NEW c \in Chats, NEW i \in DOMAIN cards[c], DeleteCard(c, i)
       PROVE  SettledFacts'
  BY <1>0, <1>35, SettledStays, SameOrders DEF DeleteCard, WorkerFacts
<1>36. CASE EditRefused
  BY <1>0, <1>36, SettledStays, SameOrders
     DEF EditRefused, RefuseEdit, AtChat, At, Await, Fault, Spend, WorkerFacts
<1>. QED
  BY <1>1, <1>2, <1>3, <1>4, <1>5, <1>6, <1>7, <1>8, <1>9, <1>10, <1>11, <1>12, <1>13, <1>14,
     <1>15, <1>16, <1>17, <1>18, <1>19, <1>20, <1>21, <1>22, <1>23, <1>24, <1>25, <1>26, <1>27,
     <1>28, <1>29, <1>30, <1>31, <1>32, <1>33, <1>34, <1>35, <1>36
     DEF Next, Drain, Handlers, Outside, Failures

(***************************************************************************)
(* The invariant and what follows from it                                  *)
(***************************************************************************)
LEMMA InitFacts == Init => IInv
<1> SUFFICES ASSUME Init PROVE IInv
  OBVIOUS
<1>0. Known = {} /\ Placed = {}
  BY DEF Init, Known, Placed
<1>1. TypeOK
  <2>1. OrderTypes
    BY <1>0 DEF Init, OrderTypes
  <2>2. ShopTypes
    <3>1. spent \in [moves : 0 .. MaxMoves, toggles : 0 .. MaxToggles,
                    faults : 0 .. MaxFaults, clears : 0 .. MaxClears]
      BY SyncBounds DEF Init
    <3>2. chat \in Chats \cup {None}
      BY ChatsAssumption DEF Init
    <3>3. QED
      BY <3>1, <3>2 DEF Init, ShopTypes
  <2>3. WorkerTypes
    BY DEF Init, WorkerTypes, NoReply
  <2>4. SentTypes
    BY DEF Init, SentTypes
  <2>5. QED
    BY <2>1, <2>2, <2>3, <2>4 DEF TypeOK
<1>2. WorkerFacts /\ RowFacts
  BY <1>0 DEF Init, WorkerFacts, RowFacts
<1>3. NoticeFacts /\ NoticesInOrder
  BY <1>0 DEF Init, NoticeFacts, NoticesInOrder, Notices
<1>4. MessageFacts
  <2>1. \A o \in Orders : inbox[o] = <<>>
    BY DEF Init
  <2>2. \A o \in Orders : \A m : Times(o, m) = 0
    BY <1>1, <2>1, TimesFacts
  <2>3. QED
    BY <2>1, <2>2 DEF Init, MessageFacts
<1>5. SendFacts
  <2>1. \A o \in Orders : IdsOf(o) = {}
    <3>1. \A o \in Orders : ChatIds(o) = {} /\ RowIds(o) = {} /\ AnswerIds(o) = {}
      BY DEF Init, ChatIds, RowIds, AnswerIds, Answered
    <3>2. QED
      BY <3>1 DEF Init, IdsOf
  <2>2. Pending = 0 /\ Allowed = 1
    BY DEF Init, Pending, Allowed
  <2>3. \A o : Credits(o) = 0 \/ Credits(o) = 1
    BY <1>1, <2>2, CreditTypes
  <2>4. IsFiniteSet({}) /\ Cardinality({}) = 0
    BY FS_EmptySet
  <2>5. \A o \in Orders : Cardinality(IdsOf(o)) + Credits(o) <= Allowed
    BY <2>1, <2>2, <2>3, <2>4
  <2>6. QED
    BY <2>1, <2>4, <2>5 DEF Init, SendFacts
<1>6. CardFacts
  BY <1>0 DEF Init, CardFacts, CardCurrent
<1>7. SettledFacts
  BY <1>0 DEF Init, SettledFacts, NothingOwedIsLost
<1>8. QED
  BY <1>1, <1>2, <1>3, <1>4, <1>5, <1>6, <1>7 DEF IInv

\* What the worker holds, what it has sent and what the flags say agree in every state.
THEOREM Invariant == Spec => []IInv
<1>1. IInv /\ [Next]_vars => IInv'
  BY TypeStep, WorkerStep, RowStep, NoticeStep, MessageStep, SendStep, CardStep, SettledStep
     DEF IInv
<1>2. QED
  BY InitFacts, <1>1, PTL DEF Spec

\* The state of the outbox and of Telegram keeps its shape.
THEOREM TypeCorrect == Spec => []TypeOK
<1>1. IInv => TypeOK
  BY DEF IInv
<1>2. QED
  BY Invariant, <1>1, PTL

\* A card flag that is down means a card that is right: while the admin chat stays, an
\* order without cardDirty has a card of its own there with its status, unless that very
\* card was deleted in the chat or its last edit was answered with a 400.
THEOREM CardsCurrent == Spec => []CardCurrent
<1>1. IInv => CardCurrent
  BY DEF IInv, CardFacts, CardCurrent
<1>2. QED
  BY Invariant, <1>1, PTL

\* A customer never reads an older status after a newer one.
THEOREM Ordered == Spec => []NoticesInOrder
<1>1. IInv => NoticesInOrder
  BY DEF IInv
<1>2. QED
  BY Invariant, <1>1, PTL

\* A message read twice had a lost answer or a crash, a card sent twice those or a moved
\* chat.
THEOREM RepeatsCaused == Spec => []RepeatsHaveCause
<1>1. IInv => RepeatsHaveCause
  <2> SUFFICES ASSUME IInv, NEW o \in Orders
               PROVE  /\ \A m \in Status \cup {"pickup"} : Times(o, m) <= 1 + spent.faults
                      /\ \A c \in Chats :
                             CardsOf(c, o) <= 1 + spent.faults + 2 * spent.moves
    BY DEF RepeatsHaveCause
  <2>1. TypeOK /\ SendFacts /\ MessageFacts
    BY DEF IInv
  <2>2. ASSUME NEW c \in Chats
        PROVE  CardsOf(c, o) <= 1 + spent.faults + 2 * spent.moves
    <3> DEFINE S == {i \in DOMAIN cards[c] : cards[c][i].order = o}
    <3>1. S \subseteq IdsOf(o)
      BY <2>1, IdsHave
    <3>2. IsFiniteSet(IdsOf(o)) /\ Cardinality(IdsOf(o)) + Credits(o) <= Allowed
      BY <2>1 DEF SendFacts
    <3>3. /\ Cardinality(S) <= Cardinality(IdsOf(o)) /\ Cardinality(S) \in Nat
          /\ Cardinality(IdsOf(o)) \in Nat
      BY <3>1, <3>2, FS_Subset, FS_CardinalityType
    <3>4. Credits(o) \in Nat /\ Allowed \in Nat
      BY <2>1, CreditTypes
    <3>5. Cardinality(S) <= Allowed
      BY <3>2, <3>3, <3>4
    <3>6. QED
      BY <3>5 DEF CardsOf, Allowed
  <2>3. QED
    BY <2>1, <2>2 DEF MessageFacts
<1>2. QED
  BY Invariant, <1>1, PTL

\* A flag comes down only after its message went out, or after a refusal that cannot be
\* repaired.
THEOREM NothingLost == Spec => []NothingOwedIsLost
<1>1. IInv => NothingOwedIsLost
  BY DEF IInv, SettledFacts
<1>2. QED
  BY Invariant, <1>1, PTL
=============================================================================

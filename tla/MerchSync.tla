----------------------------- MODULE MerchSync -----------------------------
(***************************************************************************)
(* The outbox of the FICE STORE (merch-sync.service.ts): flags on an order *)
(* say what Telegram still owes, and one worker reads them in batches,     *)
(* calls Telegram and clears them.  Status buttons, a moved admin chat,    *)
(* customers who block the bot, refused or lost calls and restarts come    *)
(* between any two awaits of a pass.                                       *)
(*                                                                         *)
(* When a pass starts is left open: the 15 s timer alone starts one, and   *)
(* kick(), draining and again only make it sooner.                         *)
(***************************************************************************)
EXTENDS MerchRules, FiniteSets, Sequences

CONSTANTS
    Orders,         \* order ids, a set of numbers: a batch is sent in their order
    Customers,
    CustomerOf,     \* [Orders -> Customers]
    Chats,          \* Telegram groups the shop may be bound to
    SuperOf,        \* [Chats -> the supergroup a group may be upgraded to, or None]
    InitialChats,   \* what the shop may be bound to when the model starts, None included
    Refused,        \* orders whose card Telegram never takes: a lasting 400 to the send
    Batch,          \* BATCH
    MaxMoves,       \* bound on bindings and upgrades of the admin chat
    MaxToggles,     \* bound on customers blocking and unblocking the bot
    MaxFaults,      \* bound on refused calls, lost answers and crashes
    MaxClears,      \* bound on deletions of all orders
    None

ASSUME IdsAssumption == Orders \subseteq Nat /\ IsFiniteSet(Orders)
ASSUME SyncBounds ==
    /\ Batch \in Nat \ {0} /\ MaxMoves \in Nat /\ MaxToggles \in Nat /\ MaxFaults \in Nat
    /\ MaxClears \in Nat
ASSUME ChatsAssumption ==
    /\ SuperOf \in [Chats -> Chats \cup {None}]
    /\ InitialChats \subseteq Chats \cup {None}
    /\ CustomerOf \in [Orders -> Customers]
    /\ None \notin Chats /\ None \notin Nat /\ None \notin Status \cup {"deleted"}
\* A supergroup is not upgraded again.
ASSUME SupergroupsStay == \A c \in Chats : SuperOf[c] # None => SuperOf[SuperOf[c]] = None

VARIABLES
    status,         \* MerchOrder.status, None before the row exists, "deleted" after
    dirty,          \* the orders with cardDirty, notifyDirty and pickupDirty up
    chosen,         \* orders whose customer has chosen a pickup
    cardId,         \* MerchOrder.adminMessageId
    chat,           \* MerchConfig.adminChatId
    moving,         \* a chat handler stands between the new chat and resendOpenCards
    blocked,        \* customers with blockedBot on
    marking,        \* setBlocked calls between their two writes, with the caller
    phase,          \* the drain the worker is in
    step,           \* what it awaits there
    batch,          \* rows it has read and not finished
    reply,          \* what Telegram answered to the call for Current
    paused,         \* Date.now() < pausedUntil
    cards,          \* Telegram: the cards of each chat; a message id is an index
    spoilt,         \* Telegram: cards somebody deleted, and cards whose last edit it refused
    inbox,          \* Telegram: what each customer has read about each order
    noted,          \* Telegram: orders with a pickup note in some admin chat
    upgraded,       \* Telegram: groups that became supergroups
    refuses,        \* Telegram: customers who block the bot
    updates,        \* Telegram: the latest my_chat_member update not handled yet
    gaveUp,         \* history: orders with a message a 400 or 403 ended
    spent           \* what the bounds count: moves, toggles, faults, clears

orderVars == <<status, chosen, cardId>>
shopVars == <<chat, moving>>
customerVars == <<blocked, marking>>
workerVars == <<phase, step, batch, reply, paused>>
chatVars == <<cards, spoilt, inbox, noted>>
outsideVars == <<upgraded, refuses, updates>>
vars == <<orderVars, dirty, shopVars, customerVars, workerVars, chatVars, outsideVars,
          gaveUp, spent>>

Known == {o \in Orders : status[o] # None}
Placed == {o \in Known : status[o] # "deleted"}
IsOpen(o) == status[o] \in OPEN_STATUSES
OpenOf(c) == {o \in Orders : CustomerOf[o] = c /\ IsOpen(o)}
NoReply == [kind |-> "none", id |-> None]

CardOf(row) == [order |-> row.order, status |-> row.status, blocked |-> row.blocked]

Init ==
    /\ status = [o \in Orders |-> None]
    /\ dirty = [card |-> {}, notify |-> {}, pickup |-> {}]
    /\ chosen = {}
    /\ cardId = [o \in Orders |-> None]
    /\ chat \in InitialChats /\ moving = FALSE
    /\ blocked = {} /\ marking = {} /\ refuses = {}
    /\ updates = [c \in Customers |-> None]
    /\ phase = "idle" /\ step = "next" /\ batch = {} /\ reply = NoReply /\ paused = FALSE
    /\ cards = [c \in Chats |-> <<>>]
    /\ spoilt = [deleted |-> {}, refused |-> {}]
    /\ inbox = [o \in Orders |-> <<>>]
    /\ noted = {} /\ upgraded = {} /\ gaveUp = {}
    /\ spent = [moves |-> 0, toggles |-> 0, faults |-> 0, clears |-> 0]

Spend(kind, limit) == spent[kind] < limit /\ spent' = [spent EXCEPT ![kind] = @ + 1]

(***************************************************************************)
(* Orders and buttons                                                      *)
(***************************************************************************)
othersThanRows == <<shopVars, customerVars, workerVars, chatVars, outsideVars, gaveUp, spent>>

Owe(o) == dirty' = [dirty EXCEPT !.card = @ \cup {o}, !.notify = @ \cup {o}]

PlaceOrder(o) ==
    /\ status[o] = None
    /\ status' = [status EXCEPT ![o] = "PENDING"]
    /\ Owe(o)
    /\ UNCHANGED <<chosen, cardId, othersThanRows>>

\* A button of any card in the bound chat, the order's latest one or not.
HasButton(o, to) ==
    /\ chat # None
    /\ \E i \in DOMAIN cards[chat] :
         /\ cards[chat][i].order = o /\ to \in TRANSITIONS[cards[chat][i].status]
         /\ <<chat, i>> \notin spoilt.deleted

\* A slip of ChangeStatus: a stale button moves the order too.
ChangeFromAny(o, to) ==
    /\ HasButton(o, to)
    /\ status' = [status EXCEPT ![o] = to]
    /\ Owe(o)
    /\ UNCHANGED <<chosen, cardId, othersThanRows>>

ChangeStatus(o, to) ==
    /\ HasButton(o, to)
    /\ status[o] \in SourcesOf(to)
    /\ status' = [status EXCEPT ![o] = to]
    /\ Owe(o)
    /\ UNCHANGED <<chosen, cardId, othersThanRows>>

\* A stale button repairs its own card.
StaleButton(o, to) ==
    /\ HasButton(o, to)
    /\ o \in Placed /\ status[o] \notin SourcesOf(to)
    /\ dirty' = [dirty EXCEPT !.card = @ \cup {o}]
    /\ UNCHANGED <<orderVars, othersThanRows>>

\* The write of choosePickup: the first choice is final.
ChoosePickup(o) ==
    /\ status[o] = "READY_FOR_PICKUP"
    /\ o \notin chosen
    /\ chosen' = chosen \cup {o}
    /\ dirty' = [dirty EXCEPT !.pickup = @ \cup {o}]
    /\ UNCHANGED <<status, cardId, othersThanRows>>

\* onClearConfirm: the rows go, the cards and notices they caused stay.
ClearOrders ==
    /\ Placed # {} /\ Spend("clears", MaxClears)
    /\ status' = [o \in Orders |-> IF o \in Placed THEN "deleted" ELSE status[o]]
    /\ dirty' = [card |-> {}, notify |-> {}, pickup |-> {}]
    /\ UNCHANGED <<chosen, cardId, shopVars, customerVars, workerVars, chatVars, outsideVars,
                   gaveUp>>

(***************************************************************************)
(* Customers who block the bot                                             *)
(***************************************************************************)
\* The customer blocks the bot or starts it again; Telegram queues an update.
ToggleBlock(c) ==
    /\ Spend("toggles", MaxToggles)
    /\ refuses' = (refuses \ {c}) \cup ({c} \ refuses)
    /\ updates' = [updates EXCEPT ![c] = c \notin refuses]
    /\ UNCHANGED <<upgraded, orderVars, dirty, shopVars, customerVars, workerVars, chatVars,
                   gaveUp>>

\* setBlocked's first write, when it changes the row; the cards come second.
SetBlocked(c, who, yes) ==
    IF (c \in blocked) = yes THEN UNCHANGED customerVars
    ELSE /\ blocked' = IF yes THEN blocked \cup {c} ELSE blocked \ {c}
         /\ marking' = marking \cup {<<c, who>>}

HandleUpdate(c) ==
    /\ updates[c] # None
    /\ <<c, "chat">> \notin marking
    /\ SetBlocked(c, "chat", updates[c])
    /\ updates' = [updates EXCEPT ![c] = None]
    /\ UNCHANGED <<refuses, upgraded, orderVars, dirty, shopVars, workerVars, chatVars, gaveUp,
                   spent>>

\* setBlocked's second write.
MarkCards(c, who) ==
    /\ <<c, who>> \in marking
    /\ marking' = marking \ {<<c, who>>}
    /\ dirty' = [dirty EXCEPT !.card = @ \cup OpenOf(c)]
    /\ UNCHANGED <<blocked, orderVars, shopVars, workerVars, chatVars, outsideVars, gaveUp,
                   spent>>

(***************************************************************************)
(* The admin chat                                                          *)
(***************************************************************************)
\* A supergroup exists once its group is upgraded, the group no longer.
Exists(c) == c \notin upgraded /\ \A g \in Chats : SuperOf[g] = c => g \in upgraded

\* The new chat is on the row before resendOpenCards runs.
MoveTo(c) ==
    /\ ~ moving
    /\ chat # c
    /\ chat' = c
    /\ moving' = TRUE
    /\ UNCHANGED <<orderVars, dirty, customerVars, workerVars, chatVars, outsideVars, gaveUp>>

BindChat(c) == Exists(c) /\ Spend("moves", MaxMoves) /\ MoveTo(c)

\* onMigrated: the service message about an upgrade.
FollowUpgrade == chat \in upgraded /\ MoveTo(SuperOf[chat]) /\ UNCHANGED spent

\* Telegram turns a group into a supergroup.
UpgradeChat(c) ==
    /\ SuperOf[c] # None
    /\ c \notin upgraded
    /\ Spend("moves", MaxMoves)
    /\ upgraded' = upgraded \cup {c}
    /\ UNCHANGED <<refuses, updates, orderVars, dirty, shopVars, customerVars, workerVars,
                   chatVars, gaveUp>>

\* One transaction.
ResendOpenCards ==
    /\ cardId' = [o \in Orders |-> None]
    /\ dirty' = [dirty EXCEPT !.card = @ \cup {o \in Orders : IsOpen(o)}]
    /\ UNCHANGED <<status, chosen>>

FinishMove ==
    /\ moving
    /\ moving' = FALSE
    /\ ResendOpenCards
    /\ UNCHANGED <<chat, customerVars, workerVars, chatVars, outsideVars, gaveUp, spent>>

\* An admin deletes a card in its chat; the bot is not told.
DeleteCard(c, i) ==
    /\ i \in DOMAIN cards[c] /\ <<c, i>> \notin spoilt.deleted
    /\ spoilt' = [spoilt EXCEPT !.deleted = @ \cup {<<c, i>>}]
    /\ UNCHANGED <<cards, inbox, noted, orderVars, dirty, shopVars, customerVars, workerVars,
                   outsideVars, gaveUp, spent>>

(***************************************************************************)
(* The worker                                                              *)
(***************************************************************************)
hands == <<shopVars, customerVars, outsideVars>>    \* what the worker seldom writes

Row(o) == [order |-> o, status |-> status[o], id |-> cardId[o],
           blocked |-> CustomerOf[o] \in blocked]

\* A slip of Rows: the limit counts the orders that owe nothing too.
RowsOfAll(flagged) ==
    {Row(o) : o \in {p \in flagged : Cardinality({q \in Placed : q < p}) < Batch}}

\* findMany with orderBy id and take BATCH.
Rows(flagged) ==
    {Row(o) : o \in {p \in flagged : Cardinality({q \in flagged : q < p}) < Batch}}

\* The loop takes the rows in the order of their ids.
Current == CHOOSE row \in batch : \A other \in batch : row.order <= other.order

Enter(p, flagged) ==
    /\ phase' = p
    /\ step' = "next"
    /\ batch' = Rows(flagged)
    /\ reply' = NoReply
    /\ UNCHANGED <<paused, orderVars, dirty, hands, chatVars, gaveUp, spent>>

\* A slip of StartPass: nobody asks whether a chat is bound.
StartAnyway == phase = "idle" /\ ~ paused /\ Enter("cards", dirty.card)

\* No bound chat: cards and pickup notes wait.
StartPass ==
    /\ phase = "idle" /\ ~ paused
    /\ IF chat = None THEN Enter("notices", dirty.notify) ELSE Enter("cards", dirty.card)

NextDrain ==
    /\ batch = {} /\ step = "next"
    /\ \/ phase = "cards" /\ Enter("pickups", dirty.pickup)
       \/ phase = "pickups" /\ Enter("notices", dirty.notify)
       \/ phase = "notices" /\ Enter("idle", {})

\* The worker goes on with the next row.
Skip ==
    /\ batch' = batch \ {Current}
    /\ step' = "next"
    /\ reply' = NoReply
    /\ UNCHANGED <<phase, paused>>

Await(s, kind, id) ==
    /\ step' = s
    /\ reply' = [kind |-> kind, id |-> id]
    /\ UNCHANGED <<phase, batch, paused>>

\* What drain() throws ends the pass.
EndPass == phase' = "idle" /\ step' = "next" /\ batch' = {} /\ reply' = NoReply

At(p, s) == phase = p /\ step = s /\ batch # {}
AtChat(p) == At(p, "next") /\ chat \notin upgraded

\* The message an edit is about, when the bound chat still has it.
CanEdit(row) == row.id \in DOMAIN cards[chat] /\ <<chat, row.id>> \notin spoilt.deleted

\* sendCard or editCard has reached Telegram.  An edit of a message the chat does not
\* have is answered "gone", which editCard takes for done.
Deliver(row) ==
    /\ \/ /\ row.id = None /\ row.order \notin Refused
          /\ cards' = [cards EXCEPT ![chat] = Append(@, CardOf(row))]
          /\ spoilt' = spoilt
       \/ /\ row.id # None /\ CanEdit(row)
          /\ cards' = [cards EXCEPT ![chat][row.id] = CardOf(row)]
          /\ spoilt' = [spoilt EXCEPT !.refused = @ \ {<<chat, row.id>>}]
       \/ /\ row.id # None /\ ~ CanEdit(row)
          /\ UNCHANGED <<cards, spoilt>>
    /\ UNCHANGED <<inbox, noted>>

SendCard ==
    /\ AtChat("cards")
    /\ Deliver(Current)
    /\ Await("replied", "ok", IF Current.id = None THEN Len(cards[chat]) + 1 ELSE None)
    /\ UNCHANGED <<orderVars, dirty, hands, gaveUp, spent>>

\* A slip of StoreCardId: the id is kept only when the status is still the one sent.
StoreIfSame ==
    /\ At("cards", "replied")
    /\ cardId' = IF reply.id = None \/ status[Current.order] # Current.status
                 THEN cardId ELSE [cardId EXCEPT ![Current.order] = reply.id]
    /\ Await("stored", reply.kind, reply.id)
    /\ UNCHANGED <<status, chosen, dirty, hands, chatVars, gaveUp, spent>>

\* "always kept": on the id alone.
StoreCardId ==
    /\ At("cards", "replied") /\ (reply.id # None => Current.order \in Placed)
    /\ cardId' = IF reply.id = None THEN cardId
                 ELSE [cardId EXCEPT ![Current.order] = reply.id]
    /\ Await("stored", reply.kind, reply.id)
    /\ UNCHANGED <<status, chosen, dirty, hands, chatVars, gaveUp, spent>>

\* A slip of AsRead: the status the card was sent with is not compared.
SameCard(row) == cardId[row.order] = IF reply.id # None THEN reply.id ELSE row.id

\* The compare-and-set on what the worker read.
AsRead(row) ==
    /\ status[row.order] = row.status
    /\ cardId[row.order] = IF reply.id # None THEN reply.id ELSE row.id

ClearCard ==
    /\ At("cards", "stored")
    /\ dirty' = IF AsRead(Current)
                THEN [dirty EXCEPT !.card = @ \ {Current.order}] ELSE dirty
    /\ Skip
    /\ UNCHANGED <<orderVars, hands, chatVars, gaveUp, spent>>

\* chatFailed, a lasting 400 to a send: the flag stays.
CardRefused ==
    /\ AtChat("cards")
    /\ Current.id = None /\ Current.order \in Refused
    /\ Skip
    /\ UNCHANGED <<orderVars, dirty, hands, chatVars, gaveUp, spent>>

\* chatFailed, "migrated": the new chat first, then the cards.
MeetUpgrade ==
    /\ At("cards", "next") \/ At("pickups", "next")
    /\ chat \in upgraded
    /\ Await("migrated", "migrated", SuperOf[chat])
    /\ UNCHANGED <<orderVars, dirty, hands, chatVars, gaveUp, spent>>

AdoptUpgrade ==
    /\ step = "migrated"
    /\ chat' = reply.id
    /\ Await("resend", reply.kind, reply.id)
    /\ UNCHANGED <<moving, orderVars, dirty, customerVars, outsideVars, chatVars, gaveUp, spent>>

\* A batch of cards ends here: the rest holds message ids of the old chat.
ResendAfterUpgrade ==
    /\ step = "resend"
    /\ ResendOpenCards
    /\ batch' = IF phase = "cards" THEN {} ELSE batch \ {Current}
    /\ step' = "next" /\ reply' = NoReply
    /\ UNCHANGED <<phase, paused, hands, chatVars, gaveUp, spent>>

PostNote(o) == noted' = noted \cup {o} /\ UNCHANGED <<cards, spoilt, inbox>>

PostPickupNote ==
    /\ AtChat("pickups")
    /\ PostNote(Current.order)
    /\ Await("replied", "ok", None)
    /\ UNCHANGED <<orderVars, dirty, hands, gaveUp, spent>>

\* What messageCustomer is called with, and where.
Message ==
    IF phase = "pickups" /\ step = "replied" THEN "pickup" ELSE Current.status
AtMessage == At("pickups", "replied") \/ At("notices", "next")
Recipient == CustomerOf[Current.order]

Read ==
    /\ Recipient \notin refuses
    /\ inbox' = [inbox EXCEPT ![Current.order] = Append(@, Message)]
    /\ UNCHANGED <<cards, spoilt, noted>>

TellCustomer ==
    /\ AtMessage
    /\ Read
    /\ Await("told", "sent", None)
    /\ UNCHANGED <<orderVars, dirty, hands, gaveUp, spent>>

\* A 403: setBlocked, then the flag.
MeetBlock ==
    /\ AtMessage
    /\ Recipient \in refuses
    /\ SetBlocked(Recipient, "worker", TRUE)
    /\ gaveUp' = gaveUp \cup {Current.order}
    /\ Await("told", "blocked", None)
    /\ UNCHANGED <<orderVars, dirty, shopVars, outsideVars, chatVars, spent>>

\* The worker's own setBlocked is done before it touches the flag.
Told(p) == At(p, "told") /\ <<Recipient, "worker">> \notin marking

BlockedCards == IF reply.kind = "blocked" THEN dirty.card \cup {Current.order}
                ELSE dirty.card

ClearPickup ==
    /\ Told("pickups") /\ Current.order \in Placed
    /\ dirty' = [dirty EXCEPT !.pickup = @ \ {Current.order}, !.card = BlockedCards]
    /\ Skip
    /\ UNCHANGED <<orderVars, hands, chatVars, gaveUp, spent>>

\* A slip of ClearNotice: the flag comes down whatever the status is by now.
ClearAnyNotice ==
    /\ Told("notices")
    /\ dirty' = [dirty EXCEPT !.notify = @ \ {Current.order}, !.card = BlockedCards]
    /\ Skip
    /\ UNCHANGED <<orderVars, hands, chatVars, gaveUp, spent>>

\* A notice that arrived clears the flag on the status it told; a refused one always.
ClearNotice ==
    LET row == Current
        kept == reply.kind = "sent" /\ status[row.order] # row.status
    IN  /\ Told("notices") /\ (reply.kind # "sent" => row.order \in Placed)
        /\ dirty' = [dirty EXCEPT !.notify = IF kept THEN @ ELSE @ \ {row.order},
                                  !.card = BlockedCards]
        /\ Skip
        /\ UNCHANGED <<orderVars, hands, chatVars, gaveUp, spent>>

\* An update (not an updateMany) of a row that was deleted during the call throws.
RowMissing ==
    /\ \/ At("cards", "replied") /\ reply.id # None
       \/ Told("pickups")
       \/ Told("notices") /\ reply.kind # "sent"
    /\ Current.order \notin Placed
    /\ EndPass
    /\ UNCHANGED <<paused, orderVars, dirty, hands, chatVars, gaveUp, spent>>

(***************************************************************************)
(* Failures                                                                *)
(***************************************************************************)
Fault == Spend("faults", MaxFaults)

Calls == At("cards", "next") \/ At("pickups", "next") \/ AtMessage

\* A network error or a 5xx: the flag stays.
Unreachable ==
    /\ Calls /\ Fault
    /\ Skip
    /\ UNCHANGED <<orderVars, dirty, hands, chatVars, gaveUp>>

\* Telegram did what it was asked and the answer was lost: the same branch.
AnswerLost ==
    /\ Fault
    /\ \/ AtChat("cards") /\ Deliver(Current)
       \/ AtChat("pickups") /\ PostNote(Current.order)
       \/ AtMessage /\ Read
    /\ Skip
    /\ UNCHANGED <<orderVars, dirty, hands, gaveUp>>

\* 429: the pass ends and the worker sits out retry_after.
RateLimited ==
    /\ Calls /\ Fault
    /\ paused' = TRUE /\ EndPass
    /\ UNCHANGED <<orderVars, dirty, hands, chatVars, gaveUp>>

\* A slip of Resume: pausedUntil is never looked at again.
StayPaused == paused /\ UNCHANGED vars

Resume ==
    /\ paused
    /\ paused' = FALSE
    /\ UNCHANGED <<phase, step, batch, reply, orderVars, dirty, hands, chatVars, gaveUp, spent>>

\* A 400 gives a customer's message up; after a 400 to the admin note he still hears.
Dropped ==
    /\ Fault
    /\ \/ AtMessage /\ Await("told", "dropped", None)
       \/ At("pickups", "next") /\ Await("replied", "ok", None)
    /\ gaveUp' = gaveUp \cup {Current.order}
    /\ UNCHANGED <<orderVars, dirty, hands, chatVars>>

\* Any other 400 to an edit of a card that is there: "gone" once more.
RefuseEdit(row) ==
    /\ row.id # None /\ CanEdit(row)
    /\ spoilt' = [spoilt EXCEPT !.refused = @ \cup {<<chat, row.id>>}]
    /\ UNCHANGED <<cards, inbox, noted>>

EditRefused ==
    /\ AtChat("cards") /\ Fault
    /\ RefuseEdit(Current)
    /\ Await("replied", "ok", None)
    /\ UNCHANGED <<orderVars, dirty, hands, gaveUp>>

\* The process dies with every handler in it; the flags are in the database.
Crash ==
    /\ Fault
    /\ EndPass
    /\ paused' = FALSE /\ moving' = FALSE /\ marking' = {}
    /\ UNCHANGED <<chat, blocked, orderVars, dirty, chatVars, outsideVars, gaveUp>>

(***************************************************************************)
(* The specification                                                       *)
(***************************************************************************)
Drain ==
    \/ StartPass \/ NextDrain \/ SendCard \/ StoreCardId \/ ClearCard \/ CardRefused
    \/ MeetUpgrade \/ AdoptUpgrade \/ ResendAfterUpgrade
    \/ PostPickupNote \/ TellCustomer \/ MeetBlock \/ ClearPickup \/ ClearNotice
    \/ RowMissing \/ Resume

Handlers ==
    \/ FinishMove
    \/ \E c \in Customers : HandleUpdate(c) \/ \E who \in {"chat", "worker"} : MarkCards(c, who)

Outside ==
    \/ \E o \in Orders : PlaceOrder(o) \/ ChoosePickup(o)
    \/ \E o \in Orders, to \in Status : ChangeStatus(o, to) \/ StaleButton(o, to)
    \/ \E c \in Customers : ToggleBlock(c)
    \/ \E c \in Chats : BindChat(c) \/ UpgradeChat(c)
    \/ \E c \in Chats : \E i \in DOMAIN cards[c] : DeleteCard(c, i)
    \/ FollowUpgrade \/ ClearOrders

Failures == Unreachable \/ AnswerLost \/ RateLimited \/ Dropped \/ EditRefused \/ Crash

Next == Drain \/ Handlers \/ Outside \/ Failures

Spec == Init /\ [][Next]_vars

\* The event loop runs the worker and the handlers on; nobody is made to press a
\* button, to place an order or to fail.
FairSpec == Spec /\ WF_vars(Drain) /\ WF_vars(Handlers)
(***************************************************************************)
(* Correctness                                                             *)
(***************************************************************************)
OrderTypes ==
    /\ status \in [Orders -> Status \cup {None, "deleted"}]
    /\ cardId \in [Orders -> Nat \cup {None}]
    /\ chosen \cup noted \cup gaveUp \subseteq Known
    /\ dirty \in [card : SUBSET Placed, notify : SUBSET Placed, pickup : SUBSET Placed]

ShopTypes ==
    /\ chat \in Chats \cup {None} /\ moving \in BOOLEAN /\ paused \in BOOLEAN
    /\ blocked \cup refuses \subseteq Customers /\ upgraded \subseteq Chats
    /\ marking \subseteq Customers \X {"chat", "worker"}
    /\ updates \in [Customers -> BOOLEAN \cup {None}]
    /\ spent \in [moves : 0 .. MaxMoves, toggles : 0 .. MaxToggles, faults : 0 .. MaxFaults,
                 clears : 0 .. MaxClears]

WorkerTypes ==
    /\ phase \in {"idle", "cards", "pickups", "notices"}
    /\ phase \in {"cards", "pickups"} => chat # None
    /\ step \in {"next", "replied", "stored", "told", "migrated", "resend"}
    /\ batch \subseteq [order : Known, status : Status, id : Nat \cup {None}, blocked : BOOLEAN]
    /\ reply \in [kind : {"none", "ok", "migrated", "sent", "blocked", "dropped"},
                  id : Nat \cup Chats \cup {None}]

SentTypes ==
    /\ cards \in [Chats -> Seq([order : Orders, status : Status, blocked : BOOLEAN])]
    /\ spoilt \in [deleted : SUBSET (Chats \X Nat), refused : SUBSET (Chats \X Nat)]
    /\ inbox \in [Orders -> Seq(Status \cup {"pickup"})]

TypeOK == OrderTypes /\ ShopTypes /\ WorkerTypes /\ SentTypes

CardIn(c, o) ==
    /\ cardId[o] \in DOMAIN cards[c]
    /\ cards[c][cardId[o]].order = o

Shown(o) ==
    /\ chat # None
    /\ CardIn(chat, o) /\ <<chat, cardId[o]>> \notin spoilt.deleted
    /\ cards[chat][cardId[o]].status = status[o]

\* The order's card was deleted in the chat, or Telegram refused its last edit for good.
Marred(id) == <<chat, id>> \in spoilt.deleted \cup spoilt.refused

Spoilt(o) == chat # None /\ CardIn(chat, o) /\ Marred(cardId[o])

\* A card flag that is down means a card that is right: whatever was lost, delayed or
\* crashed, and whoever pressed what while the worker was sending, an order without
\* cardDirty has a card of its own, and that card is in the admin chat and has the
\* order's status, unless somebody deleted it there or Telegram answered its last edit
\* with a 400, which editCard takes for done.  As long as the chat does not move (what
\* happens then: CardFollowsChat).
CardCurrent == spent.moves = 0 => \A o \in Placed \ dirty.card : Shown(o) \/ Spoilt(o)

\* The statuses a status may still lead to: no way through the graph is longer than four steps.
After(S) == S \cup UNION {TRANSITIONS[t] : t \in S}
Later(s) == After(After(After(TRANSITIONS[s])))

Notices(o) == {i \in DOMAIN inbox[o] : inbox[o][i] # "pickup"}

\* A customer never reads an older status after a newer one, not even when an
\* answer was lost and the notice is repeated.
NoticesInOrder ==
    \A o \in Orders : \A i, j \in Notices(o) :
        i < j => inbox[o][j] \in Later(inbox[o][i]) \cup {inbox[o][i]}

Times(o, m) == Cardinality({i \in DOMAIN inbox[o] : inbox[o][i] = m})
CardsOf(c, o) == Cardinality({i \in DOMAIN cards[c] : cards[c][i].order = o})

\* Delivery is at least once, and a repeat has a cause: a lost answer, a crash or a
\* moved chat.  Passes, kicks, buttons and flags alone never repeat a message.
RepeatsHaveCause ==
    \A o \in Orders :
        /\ \A m \in Status \cup {"pickup"} : Times(o, m) <= 1 + spent.faults
        /\ \A c \in Chats : CardsOf(c, o) <= 1 + spent.faults + 2 * spent.moves

\* The last notice the customer of o has read.
LastNotice(o, m) ==
    \E i \in DOMAIN inbox[o] : inbox[o][i] = m /\ \A j \in Notices(o) : j <= i

ToldToCome(o) == o \in noted /\ \E i \in DOMAIN inbox[o] : inbox[o][i] = "pickup"

\* A flag comes down only after its message went out, or after a refusal that
\* cannot be repaired: a restart, a lost answer and a moved chat lose no notice.
NothingOwedIsLost ==
    \A o \in Placed \ gaveUp :
        /\ o \notin dirty.notify => LastNotice(o, status[o])
        /\ o \in chosen \ dirty.pickup => ToldToCome(o)

\* Every notice and every pickup is settled in the end: rate limits, refusals, lost
\* answers and crashes that stop happening do not leave a flag up.
MessagesSettle == <>[](dirty.notify = {} /\ dirty.pickup = {})

\* A pass reads the first BATCH flagged orders.  An order that stays among them has its
\* card in the admin chat again and again while it is open: cards that Telegram always
\* refuses hold up the ones behind them only when there are BATCH of them ahead.
InBatch(o) == Cardinality({q \in dirty.card : q < o}) < Batch

CardsArrive ==
    \A o \in Orders \ Refused : <>[]InBatch(o) => []<>(IsOpen(o) => Shown(o) \/ Spoilt(o))

(***************************************************************************)
(* What comments and tests of the code say and its interleavings refute    *)
(***************************************************************************)
\* "A status change or a chat move during the send stays dirty", "each open order
\* gets a fresh card there": a settled open order has a card in the bound chat.
CardFollowsChat ==
    \A o \in Placed \ dirty.card :
        IsOpen(o) /\ ~ moving /\ phase = "idle" => CardIn(chat, o)

(***************************************************************************)
(* The invariant of the proofs                                             *)
(***************************************************************************)
\* Where the worker can stand, and what Telegram's answer can be there.
WorkerFacts ==
    /\ phase = "idle" => batch = {}
    /\ batch = {} => step = "next"
    /\ step = "replied" => phase \in {"cards", "pickups"} /\ reply.id \in Nat \cup {None}
    /\ step = "stored" => phase = "cards" /\ reply.id \in Nat \cup {None}
    /\ step = "told" =>
           phase \in {"pickups", "notices"} /\ reply.kind \in {"sent", "blocked", "dropped"}
    /\ step \in {"migrated", "resend"} =>
           phase \in {"cards", "pickups"} /\ reply.id \in Chats /\ SuperOf[reply.id] = None
    /\ \A g \in upgraded : SuperOf[g] # None

Flagged(p) == IF p = "cards" THEN dirty.card ELSE IF p = "pickups" THEN dirty.pickup
              ELSE dirty.notify

\* An order is in a batch once, and its flag is up as long as the order is there.
RowFacts ==
    /\ \A row, other \in batch : row.order = other.order => row = other
    /\ \A row \in batch : row.order \in Placed => row.order \in Flagged(phase)
    /\ phase = "pickups" => \A row \in batch : row.order \in chosen
    /\ dirty.pickup \subseteq chosen

\* What a customer has read and what the worker is about to tell lie behind the status.
Reach(s) == Later(s) \cup {s}

NoticeFacts ==
    /\ \A o \in Orders \ Known : inbox[o] = <<>>
    /\ \A o \in Placed : \A i \in Notices(o) : status[o] \in Reach(inbox[o][i])
    /\ \A row \in batch :
        /\ row.order \in Placed => status[row.order] \in Reach(row.status)
        /\ \A i \in Notices(row.order) : row.status \in Reach(inbox[row.order][i])

\* A message is due as long as a flag or a row the worker has not settled asks for it.
Carries(row, m) ==
    \/ phase = "pickups" /\ m = "pickup"
    \/ phase = "notices" /\ m = row.status

Asks(o, m) == IF m = "pickup" THEN o \in dirty.pickup ELSE o \in dirty.notify /\ status[o] = m

Settling(o, m) ==
    step = "told" /\ \E row \in batch : row = Current /\ row.order = o /\ Carries(row, m)

Due(o, m) ==
    /\ ~ Settling(o, m)
    /\ Asks(o, m) \/ \E row \in batch : row.order = o /\ Carries(row, m)

\* It has been read as often as answers were lost, and once more when it is not due.
MessageFacts ==
    \A o \in Orders :
        /\ \A m \in Status \cup {"pickup"} :
            /\ Times(o, m) <= 1 + spent.faults
            /\ Due(o, m) => Times(o, m) <= spent.faults
        /\ \A i \in DOMAIN inbox[o] : inbox[o][i] = "pickup" => o \in chosen

\* The message ids an order's cards have, or may come to have without a new send.
Answered(o) == phase = "cards" /\ step = "replied" /\ Current.order = o

ChatIds(o) == UNION {{i \in DOMAIN cards[c] : cards[c][i].order = o} : c \in Chats}
RowIds(o) == {row.id : row \in {r \in batch : phase = "cards" /\ r.order = o}}
AnswerIds(o) == IF Answered(o) THEN {reply.id} ELSE {}
IdsOf(o) == (ChatIds(o) \cup RowIds(o) \cup AnswerIds(o) \cup {cardId[o]}) \ {None}

\* The next card of o will be a new one.
Fresh(o) ==
    /\ cardId[o] = None
    /\ ~ (Answered(o) /\ reply.id # None)
    /\ o \in Known \ Placed => phase = "cards" /\ \E row \in batch : row.order = o

\* How often the ids will be dropped because of the moves so far.
Pending ==
    (IF moving THEN 1 ELSE 0) + (IF step \in {"migrated", "resend"} THEN 1 ELSE 0)
    + (IF chat \notin upgraded THEN 0 ELSE IF step = "migrated" THEN 1 ELSE 2)

\* Every id had its send: the first one, one after a fault, two after a move.
Allowed == 1 + spent.faults + 2 * spent.moves
Credits(o) == (IF Fresh(o) THEN 1 ELSE 0) + Pending

SendFacts ==
    /\ \A o \in Orders :
        IsFiniteSet(IdsOf(o)) /\ Cardinality(IdsOf(o)) + Credits(o) <= Allowed
    /\ phase = "cards" =>
        \A row \in batch :
            row.id = None /\ (step \in {"replied", "stored"} => row # Current)
                => cardId[row.order] = None

\* While the chat stays, the ids of the table are those of its cards.
SentId == IF reply.id # None THEN reply.id ELSE Current.id

\* A message the worker may take for the card of row.
Carried(id, row) ==
    /\ id \in DOMAIN cards[chat] /\ cards[chat][id].order = row.order
    /\ cards[chat][id].status = row.status \/ Marred(id)

CardFacts ==
    spent.moves = 0 =>
        /\ upgraded = {} /\ ~ moving /\ step \notin {"migrated", "resend"}
        /\ chat = None => Placed \subseteq dirty.card /\ \A o \in Orders : cardId[o] = None
        /\ \A o \in Orders : chat # None /\ cardId[o] # None => CardIn(chat, o)
        /\ phase = "cards" =>
            /\ \A row \in batch : row # Current \/ step # "stored" => row.id = cardId[row.order]
            /\ step \in {"replied", "stored"} => Carried(SentId, Current)
        /\ CardCurrent

\* What the worker is about to clear a flag for has happened.
SettledFacts ==
    /\ step = "told" /\ reply.kind # "sent" => Current.order \in gaveUp
    /\ step = "told" /\ reply.kind = "sent" /\ phase = "notices" =>
           LastNotice(Current.order, Current.status)
    /\ phase = "pickups" /\ step \in {"replied", "told"} => Current.order \in noted \cup gaveUp
    /\ phase = "pickups" /\ step = "told" /\ reply.kind = "sent" =>
           \E i \in DOMAIN inbox[Current.order] : inbox[Current.order][i] = "pickup"
    /\ NothingOwedIsLost

IInv ==
    /\ TypeOK /\ WorkerFacts /\ RowFacts /\ NoticeFacts /\ NoticesInOrder
    /\ MessageFacts /\ SendFacts /\ CardFacts /\ SettledFacts
=============================================================================

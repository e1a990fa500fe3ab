# FICE web: a TLA+ model

This directory specifies the parts of the FICE web platform where several people
and processes work on the same rows: the shop (FICE STORE), event registration,
the attendance sheet, the channel queue, votings and their stage screen, interviews,
and the smaller services whose calls meet in one row or one field.  Every definition is translated from the TypeScript source; the
`map` of `PROJECT.json` names the lines each one stands for.

## The system

One NestJS process (`server/`) with one PostgreSQL database serves two Next.js
clients (`client/web` with the Telegram Mini Apps, `client/admin`) and runs four
Telegram bots by long polling.  There is no message broker and no second
instance: all concurrency is that of one event loop, of the database transactions
it has open, and of the people on the other side.  What matters is therefore what
may happen between two `await`s of a handler, what Telegram did when its answer
is lost, and what a restart forgets.

| component | state it keeps | operations | what makes it hard | what makes it correct |
|---|---|---|---|---|
| merch checkout, stock, status (`merch-order`, `merch-rules`) | `MerchOrder`, `MerchOrderItem.stockTaken`, `MerchVariant.stock` | createOrder, changeStatus, clear orders | retries of one payment, two buyers of the last unit, stale buttons | a payment is one order; units are conserved; a status only moves along the graph |
| merch product form (`merch-admin`) | `MerchProduct.saveKey`, variants, groups | create, update, archive, delete | a form stays open over sales and over other saves; a save is retried | sales survive a save; nobody's save is reverted |
| merch outbox (`merch-sync`) | `cardDirty`, `notifyDirty`, `pickupDirty`, `adminMessageId`, `blockedBot`, `adminChatId` | drain, setBlocked, resendOpenCards | Telegram fails, answers late or not at all; the group moves; a crash between two awaits | what is owed is sent, in order, and a repeat has a cause |
| merch chat bot (`merch-chat`) | prompts in memory, shop config | buttons, binding, prompts, broadcast | two owners, old cards | only the bound chat acts |
| merch catalogue (`merch-catalog`) | customers, recipients, login links | link, poll, recipients | two tabs, link pressed twice | one session per link, one default recipient |
| merch pickup (`merch-order`, `merch-admin`) | pickup slots | choose, open, delete | nothing: a time is shared by design, a choice is one guarded write | a choice is final |
| events (`event.service`, `registration-writer`, `user-bot`) | `EventRegistration`, `PendingWebRegistration`, `BotUser` | register, /start, add, confirm, check in | the last place, the site and the bot at once, tickets that wait for /start | no overbooking, one row per person, every ticket arrives |
| attendance sheet (`registration-sheets.service`) | the tab of each event, the last written table and cells in memory | tick, button, pull, write | people edit the sheet and the site at once; a write whose answer is lost; restarts | only a hand's edit reaches the site; a quiet tab shows what the site says |
| channel (`channel.service`, `post-commands`) | `ChannelPost` | request, approve, edit, publish, tick | the tick against a hand; a crash after the claim | a post is out at most once |
| votings (`voting.service`) | stage, votes, screen revision | submit, approve, vote, remote | a vote while the stage closes or its candidate goes; a poll that is late | one vote per person, for approved entries; a command fires once |
| shari (`shari.service`) | memberships, awards | access, edit, award | edits of one row from two screens | a certificate stands until its place is given away |
| interviews (`interview.service`) | slots, candidates | create, book, move, remind | two candidates of one slot; a slot is left while a reminder goes out | a slot has one candidate, a candidate one slot; reminders are true |
| fundraisers (`jar-sync`) | amounts, errors; attempts and backoff in memory | tick, apply, back off | the link changes under the request | an amount is of the linked jar |
| broadcasts (`broadcast.service`, `user-bot`) | `BroadcastMessage.status`, the running delivery | start, deliver, interrupt | two starts at once, restarts | one at a time, none left SENDING |
| uploads (`public-upload.service`) | files on disk, references in rows | quota, collect | a form submitted during the sweep | no referenced file is deleted |
| bots (`polling`, `task-queue`) | status, failures, running tasks | start, stop, restart | polling ends or never starts | retried until stopped |
| the rest: auth, applicants, people wall, partners, facts, departments, news, sheets, import | single rows | CRUD, exports | nothing interleaves | input checks, covered by unit tests |

Components interact through the database and through kicks.  A checkout or a
status button writes the order with its flags up and calls `kick()`; the outbox
reads the flags.  The chat bot calls the outbox (`changeStatus`, `setBlocked`,
`resendOpenCards`).  The outbox calls Telegram, and Telegram calls back through
the polling loop with buttons, `my_chat_member` updates and migrations.

The Mini App, the site and the admin panel meet in `createRegistrationGuarded`.
The site's form waits as a `PendingWebRegistration` for the bot's /start, which
the user bot handles (`handleStart`) and which also delivers the tickets of
people an organizer added before.  The attendance sheet reads the registrations
and writes `attended` back.  The channel's tick, the admin panel and the media
chat publish from one `ChannelPost` table.

## Modelling decisions

- **A database transaction is one step**, except as the next point says.  Every modelled transaction either locks
  the rows it decides on (`FOR UPDATE`) or is a single compare-and-set; what it
  reads outside the transaction is a step of its own.
- **A handler is split at its awaits** wherever something it reads before one is
  used after it.
- **Telegram is external**: it performs a call, refuses it (lasting 400, 403, 429,
  migration), or performs it and loses the answer, which the code treats like any
  unknown error.
- **A lost HTTP answer, a crash in a request and a 503** are the same to the
  customer: he submits again with the same `clientKey`.
- **The guarded writer of `EventRegistration` is cut into its statements** (open,
  lock, decide, write or roll back): the clock is read before the lock is waited for,
  and the lock is the only thing that keeps two writers apart, so the model must be able to
  get it wrong.
- **Google Sheets is external**: a batch is written, refused, or written with its
  answer lost.
- **Names**: an order is named by the attempt that inserted it, a form by its
  `saveKey`.  Prices, texts, photos, threads and wording are abstracted.
- **Loading a form is one step** although `state()` issues several queries: it
  reads `saveKey` before the variants or in the same round, so the race only leads to
  a refusal.

## Modules

- `MerchRules` holds the pure decisions shared by the shop modules: the status
  graph (`TRANSITIONS`, `SourcesOf`, `OPEN_STATUSES`), `TakeStock`,
  `ApplyStockEdit`, `ProductAccess`.
- `OrderLifecycle` is the abstract specification of one order: it appears
  PENDING, moves along the graph and only leaves by the deletion of all orders.
- `MerchStore` is the shop's database under concurrency.  `CreateOrder` is
  `createOrder` split at its awaits (`RepeatOf`, `AssertRate`, `AssertPendingCap`,
  `CommitOrder` or `DuplicateKey`, `ReadWinner`, `Answer`, and `Lose` anywhere);
  `ChangeStatus`, `ClearOrders`, `SetActive`, `DeleteProduct` and the product form
  (`OpenForm`, `SaveForm`, `FinishForm`) run between any two of them.  `supply`
  is a history variable: what the admins put on sale.
- `MerchStoreProofs` proves it.
- `MerchSync` is the outbox: one worker with a phase, a batch of rows it has read
  and the answer it has; the status buttons, the customers who block the bot, the
  moves of the admin chat, the deletion of all orders, and the failures.  When a
  pass starts is left open: the 15 s timer starts one at any time, and `kick()`
  only makes it sooner.  An edit of a card can fail in two ways that `editCard` takes for done: the message is
  not there any more (an admin deleted it, `DeleteCard`, or its id is of another chat), or Telegram
  answers another 400 (`EditRefused`); `spoilt` remembers both.  A batch is a set of rows: the loop takes them in the order of their
  ids (`Current`), so the set says as much as the list.
- `MerchSyncProofs` proves its safety.
- `EventRegistration` is one event.  `Register` and `LookUp` are the HTTP
  handlers up to their write; `OpenTransaction`, `LockEvent`, `Decide` and then
  `Create` or `RollBack` are `createRegistrationGuarded`, which the handlers and a
  /start with a token run; `Begin` to `Reply` are `handleStart` (`UpsertBotUser`,
  `FindWaiting` and `Claim` are the delivery of waiting tickets, `ReadToken` to
  `Complete` the form of the site).  `ConfirmPayment`, `RejectPayment` and
  `CancelRegistration` are the organizers' buttons.  A send is counted in `sending`
  until Telegram answers.  `Begin` is the polling loop, which waits for the handler
  of a plain /start and queues the handler of one with a token: nothing begins while a
  plain one runs, and any number of the others may be under way.  `registered` and `confirmed` are histories.
- `EventRegistrationProofs` proves it.
- `AttendanceSheet` is the tab of one event: a job on the service's queue (`Load`,
  `ReadCells`, `Apply` for each cell, `Reload`, `BatchUpdate`, `Remember`, or
  `SkipWrite`), the check-in desk (`MarkOnSite`) and a person in the sheet
  (`EditSheet`).  `written` and `attendance` are what the process remembers, and what
  a restart forgets.  `hand` is the history of cells a person changed.
- `ChannelPosts` is the queue of the channel, without the posts for the site: each
  of three hands (the tick, the panel, the chat) is in at most one call, cut at its
  awaits.  `Claim`, `LoadPost`, `PostToChannel` and the rest are `publish`;
  `ReadToApprove`, `ReadToEdit` and their second halves show what a row read before an
  await is still good for.
- `Voting` is one nomination: `SubmitCandidate`, the reviews, `CastVote` and the
  partner's pick, each cut where it reads before it writes by a row's id, against
  `UpdateVoting` and the deletions.  The database's part is in `CreateEntry`,
  `CreateVote` (unique indexes) and `DropEntries` (foreign keys).
- `InterviewBooking` is the recruiting of several departments: candidates are
  checked and added, hosts offer times (`PlanSlots`, `OfferSlots`), people book and
  move (`ReadCandidacy`, `ReadTarget`, `CheckBooking`, `Book`), and the timer
  reminds (`ReadDue`, `ClaimReminder`).  Time passes, because a booking is refused by it
  and a reminder is sent by it.
- The small services, one module each: `SiteLogin` (the browser that polls a link the bot
  confirms), `SavedRecipients` (three transactions at READ COMMITTED, cut into the
  statements that lock), `CuratorGroups` (the deletion of a group against product
  saves), `ShariAwards` (awards against the teacher's edits), `StageScreen`
  (commands, polls that overtake each other, the screen that applies them; of the settings the mode and the award,
  which depend on each other, and the one-off stamp, without `step` and the rest), `JarSync`
  (the timer and the admins around one request to Monobank), `BroadcastDelivery` (the
  field and the rows that allow one delivery) and `UploadCollector` (forms and the
  garbage collector around one file).
- `Services` puts the small services side by side, each an `INSTANCE` with the constants and
  variables of the whole.  They share no row and no field,
  so interleaving them shows nothing: `turn` says which one a behaviour is about, and the run
  explores their sum, not their product.  `ServicesProofs` proves it.
- `MCMerchStore`, `MCMerchSync`, `MCEventRegistration`, `MCAttendanceSheet`,
  `MCChannelPosts`, `MCVoting`, `MCInterviewBooking` and `MCServices` instantiate them.

Some checks in the code are followed by a write that does not repeat them, and the
properties say so instead of claiming more: `raced`, `overlapped`, `missed`, `hurried`,
`cut` and `stuck` are history variables that record that two particular calls overlapped,
that a mode came with an award the screen had, that a deletion overtook a form (past its check, being
confirmed, or inserted after the pass had looked), that a database error ended a delivery, or
that a last write was lost.  A property then says that what it forbids happens only
there: two interviews at one time only if the person's own bookings overlapped
(`DoubledOnlyWhenRaced`), two deliveries only if two calls passed the check together
(`OneAtATime`).  `approved` and `changeable` record what was once allowed.

Operators whose comment begins with "A slip of" are plausible mistakes in one
definition.  No specification uses them: put in that definition's place,
each breaks a property of the runs, which shows that the property says something
about the code.

## Runs

| run | configuration | properties | what it shows |
|---|---|---|---|
| merch_store | MerchStore.cfg | `StockConserved`, `OneOrderPerKey`, `AnswersAgree`, `NoSaveReverted`, `ImplementsLifecycle` | Either two tabs submit one payment under one clientKey and a second customer wants the same last units, while admins press every status button, archive or delete the product and delete all orders once; or two admins hold the same product form open over a checkout and its cancellation, add and remove a size and switch a limit on and off. Stock adds up, one order per key, all attempts hear of the same order, every order follows the status graph, sales survive a save and a stale form is refused. |
| sync_faults | MerchSyncFaults.cfg | `TypeOK`, `CardCurrent`, `NoticesInOrder`, `RepeatsHaveCause`, `NothingOwedIsLost` | One order through every status and a pickup choice while the admins press fresh and stale buttons and delete cards in the chat; the customer blocks the bot and comes back (setBlocked writes in two steps, from the worker and from the chat handler), or the shop starts unbound, is bound and its group becomes a supergroup during a pass; and an unreachable Telegram, a lost answer, a 429, a 400 (to a send, an edit or a message) or a crash hits any call of the worker. A card flag is down only over a card that is right, but for a card that was deleted or whose edit was answered 400, which the code takes for done. |
| sync_live | MerchSyncLive.cfg | `MessagesSettle`, `CardsArrive` | Three orders, batches of two and a card refused for good at the head, so that the limit cuts: once faults stop, every notice is settled, and an order that stays among the first two flagged ones has its card in the admin chat. One of the orders moves through the statuses; one fault, a deletion of all orders or a deleted card comes between. |
| sync_move_race (violated) | MerchSyncMoveRace.cfg | `CardFollowsChat` | A chat move during a fresh send. |
| event_registration | EventRegistration.cfg | `OneRowPerPerson`, `CompletedMeansRegistered`, `TicketsConfirmed`, `WaitingTicketsOnce`, `StartsClaimWaiting`, `WithinLimits` | Either one place, one person from the Mini App, the same person from the site and another one from the site, with two /start messages and a cancellation; or one person added by an organizer and registering on the site with a donation, with two reviews or cancellations; or the same with one review and one failed send, failed query or crash anywhere. One row a person, nobody over the limit, the site page says "registered" only of people who are, no ticket before the receipt is confirmed, none twice to a person who was waited for, none left behind by a /start whose delivery met no database error. |
| event_first_start (violated) | EventFirstStart.cfg | `FirstStartDelivers` | An organizer adds a person whose first /start comes between the lookup and the insert. |
| sheet_edits | SheetEdits.cfg | `IInv`, `UndoneOnlyByHand` | Two tickets are marked, unmarked and deleted on the site and edited in the sheet while the interval and the button run jobs, with refused calls, restarts and a lost answer: a job changes a mark on the site only where a person changed the cell or an answer was lost, and while neither happened a tab that no tick would rewrite shows what the site says (Mirrored, in IInv with the types). |
| channel_hands | ChannelHands.cfg | `IInv`, `RepeatsHaveCause`, `RemovedStaysOut` | One post, composed for now, for later or for approval, in the hands of the tick (whose list goes stale), the panel and the chat, which publish, approve, reject, remove and edit it, with a refused send, a lost answer and a restart: a second copy has a cause, a row says PUBLISHED without a message only while somebody sends it (ClaimedIsSent, in IInv with the types), and a removed post stays out. |
| channel_approve (violated) | ChannelApprove.cfg | `OutOnce` | A post waiting for approval is published from the panel between the read and the write of its approval. |
| voting | Voting.cfg | `IInv`, `OneEach`, `ChoicesApproved`, `VotesStand` | One nomination that is opened, closed and deleted while a person sends an entry from two tabs, organizers review and delete entries, one voter taps twice and another once, and a partner and an organizer pick his winner: one entry and one vote a person, only candidates who were let in and are still there have votes or the award, and no vote changes where changing was never allowed. IInv is the invariant these rest on. |
| interviews | Interviews.cfg | `IInv`, `RemindersTrue`, `DoubledOnlyWhenRaced`, `BookingsKept` | Heads add one person to three departments, two recruiters offer times that overlap, the person books, moves and books elsewhere while candidates, times and recruiters are removed and two reminder runs overlap: no booking is lost but by its own candidate's move or removal, hosts are told once and of who comes, and double bookings, overlapping times and a third department take calls that raced. |
| services | Services.cfg | `OneSession`, `OneDefault`, `CuratorsOnly`, `OneOffsFireOnce`, `SyncedShowsItsJar`, `OneAtATime`, `UsedFilesStay`, `CertificatesStand`, `LateAnswersIgnored` | The small services that share no row: two login links polled from three tabs, confirmed and disowned; a customer's recipients added, deleted and chosen at once; two deletions of curator groups under two saves; a shara edited by its teacher under three saves of its awards; four commands to a stage screen whose polls are lost or overtaken; a jar relinked by four updates under a slow Monobank and a restart; three broadcasts with a failed insert, a flood wait and a restart; and one uploaded file, two forms and the collector. |

Four of the instances (`merch_store`, `event_registration`, `voting`, `interviews`) are
unions of scenarios: `MCSpec` starts from one of a few states the system can be in, with
some calls already over, so that calls which have nothing to do with each other are
not multiplied.

The bounds of the shop runs.  In `merch_store`, `Checkouts` has two attempts of one payment
(alike, so symmetry is sound: the properties are safety properties) and one of another
customer, two sizes that together do not satisfy both payments, and limits of one pending
order and one order per window, so that every refusal is met; one deletion of all orders
falls between any two awaits.  `ProductForms` has two forms,
which is what it takes for one save to go stale under the other, and a size that does not exist
yet.  In `sync_faults` one order passes through all statuses with a fault anywhere, while
either the bot is blocked and started again or the chat moves twice, so that a binding and
an upgrade meet.  An edit may be answered with a 400 anywhere, and a card deleted while the chat
stays (`TwoTroubles`: blocks, moves, deleted cards and a fault together multiply the states; two
of them at a time are enough for every action, and a fault beside a move is checked without a pickup).  `sync_live` has three orders and batches of two, with
the card of the first refused for good, so that the limit cuts: a pass may read the refused order and one
of the two behind it.  `CardsArrive` speaks of an order that has at most one flagged order before it.  With a
batch of refused orders ahead (20 in the code) it would never be read; the code has nothing against
that, so no property denies it.  In `sync_live` orders are placed in the order of their ids, as the sequence gives them out, one of them moves through
the statuses and there is one trouble in all (`OneMoves`): what an order waits for does not depend on what the others have become.

The bounds of the event, sheet and channel runs.  In `event_registration`, `Places` has one
place and three requests, so that a Mini App form and a site form of the same person, and
a site form of another, compete for it, and a cancellation frees it again; two /start messages
are what it takes for one token to be used twice.  `Tickets` has one
person in both roles that have delayed tickets and two reviews; `Failures` has one review and a fault
in any position: a failed send, a crash, or a query that fails where the code catches it (`UpsertFails`, `DeliveryFails`,
`ConfirmFails` of a /start, `WriteFails` of the guarded writer).  Reviews and faults meet in `Failures` only, because both
multiply the orders of two /start messages.  The two
/start messages are alike, and so are the tickets, so symmetry is
sound (no liveness is checked there).  `sheet_edits` lets a person change two cells
while the desk makes four marks, what it takes to create both tickets and
mark one of them present and back; `Mirrored` (a part of `IInv`) speaks only
of behaviours without edits and lost answers, because a pulled mark that the desk
takes back before the rows are loaded again leaves a tab that no tick rewrites
(`UndoneOnlyByHand` excepts lost answers alone).  `channel_hands` has one post: posts share
nothing but the tick's list, which goes stale over one post too; two edits, so that one can
land on the other's work.

The bounds of the voting and interview runs.  `voting` has an author with two tabs beside an
entry of the organizers, a voter with two tabs and another with one, a partner and an
organizer who both pick, two reviews and one change of the nomination (any of its fields at
once), in three scenarios: entries, votes, picks.  `interviews` has five scenarios: a person
invited to a third department, a host who offers overlapping times in two, a move that frees a
slot another candidate takes, one person in two departments, and reminders while people
move.  `Lead` is two ticks, `ReminderBefore` one and a handler takes at most one
(`MaxHandler`), so that the assumption `BookingsAreShort` is tight: the code's hour, ten minutes and
a request of seconds.  Recruiters come and go only while times are offered
(`TeamWhileOffering`): neither a booking nor a reminder reads them.

The bounds of `services`.  `SiteLogin`: two links and three polls of two people, so that two tabs
poll one link while it is disowned.  `SavedRecipients`: three additions over a cap of two, and two calls
of each other kind.  `CuratorGroups`: two groups, two products, two deletions and two saves.
`ShariAwards`: three saves from different tabs, a shorter and a longer list of places and a
deletion.  `StageScreen`: four commands, one of them one-off and two that show the same
award, two polls in flight, one reload.  `JarSync`: four updates (link one
jar, link another, unlink, reopen), an alert after two failures (three in the code), one doubling of
the pause and one restart.  `BroadcastDelivery`: three broadcasts (two of which race for the field
and a third that a stuck row refuses), one recipient, two attempts (four in the code), one
restart.  `UploadCollector`: one file, a form that waits for the bot and one that does not, a day
of two ticks and a token that lives one.

Deadlock is not checked where the event is over and nothing is
left to do, or every bound is spent.

## Fairness

`MerchSync.FairSpec` assumes weak fairness of `Drain` (the timer fires and the
event loop runs the worker on; every awaited call answers or fails) and of
`Handlers` (a handler that has started goes on).  Nobody is assumed to press a
button, to pay, or to stop failing: faults are bounded by `MaxFaults`, which is
what "once the failures stop" means in `MessagesSettle` and `CardsArrive`.  `sync_live`
bounds the steps of the outside world by the action constraint `OneMoves`: it holds back buttons, faults, deleted orders and
deleted cards, never a step of the worker or of a handler, so each step that fairness asks for stays possible.

The other modules have safety properties only.
The liveness one would ask of tickets, "each arrives", is not promised by the code:
a failed send is logged and forgotten (`SendFails`).  Nor does the code promise that a
broadcast ends as `COMPLETED`, that a reminder is sent (a restart between the claim and the
message loses it) or that a jar is ever read.

## Proofs

- `TypeCorrect` (MerchStoreProofs). Every variable of the shop keeps its type for any number of attempts, variants, products and forms.
- `StockIsConserved` (MerchStoreProofs): `StockConserved`. For every instance: stock left plus units held by orders not cancelled equals the units the admins put on sale, through checkouts, cancellations, form saves, deletions and lost answers.
- `PaidOnce` (MerchStoreProofs): `OneOrderPerKey`. However many attempts share a clientKey and however their awaits interleave, at most one inserts an order.
- `AttemptsAgree` (MerchStoreProofs): `AnswersAgree`. Attempts of one payment that got an answer got the same order, until all orders are deleted.
- `SavesSeeWhatTheyReplace` (MerchStoreProofs): `NoSaveReverted`. A save of the product form lands only on the groups that form has shown, for any number of forms opened, saved and retried in any order: a replaced save key never comes back.
- `LifecycleImplemented` (MerchStoreProofs): `ImplementsLifecycle`. The handlers implement OrderLifecycle: every step places a new order, moves one along the status graph, deletes them all or leaves the orders alone.
- `Invariant` (MerchSyncProofs). The inductive invariant of the outbox: where the worker can stand, flags that stay up while a row is in the batch, messages and card ids counted against their causes, and what has happened before a flag comes down.
- `TypeCorrect` (MerchSyncProofs): `TypeOK`. The state of the outbox and of Telegram keeps its types for any orders, chats, batch and bounds.
- `CardsCurrent` (MerchSyncProofs): `CardCurrent`. While the admin chat stays, an order whose card flag is down has a card of its own there with its status, unless that very card was deleted in the chat or its last edit was answered with a 400, which the code takes for done; for any orders, batch size, lost answers, refused sends and crashes.
- `Ordered` (MerchSyncProofs): `NoticesInOrder`. A customer never reads an older status after a newer one, however buttons, failures and restarts interleave with the notices.
- `RepeatsCaused` (MerchSyncProofs): `RepeatsHaveCause`. A message is read again only as often as answers were lost, a card sent again only for a fault or a moved chat (twice for each move).
- `NothingLost` (MerchSyncProofs): `NothingOwedIsLost`. A notice or pickup flag comes down only after its message went out or after a refusal that cannot be repaired.
- `RegistrationInvariant` (EventRegistrationProofs). The inductive invariant: the types, the lock held by one transaction, what it decided, confirmed registrations, registered people, and what each /start still owes.
- `RegistrationTypes` (EventRegistrationProofs). The types, for any requests, people, /start messages and capacity.
- `OneRegistration` (EventRegistrationProofs): `OneRowPerPerson`. A person has one row of the event however many forms, /start messages and organizers add him at once.
- `LimitsKept` (EventRegistrationProofs): `WithinLimits`. A row that no organizer added finds a free place at the moment it appears, for any capacity and any number of transactions.
- `TicketsAreConfirmed` (EventRegistrationProofs): `TicketsConfirmed`. A ticket goes out only for a registration without a donation or one whose receipt was confirmed, through all four senders, crashes and redeliveries.
- `FormsAreRegistered` (EventRegistrationProofs): `CompletedMeansRegistered`. A form whose token is completed is of a person who has been registered.
- `DeliveredOnce` (EventRegistrationProofs): `WaitingTicketsOnce`. However many /starts, crashes and redeliveries come together, a registration that waited for its person gets at most one ticket from them.
- `StartsClaim` (EventRegistrationProofs): `StartsClaimWaiting`. A /start that ran to its end, redelivered or not, leaves nothing unlinked that waited when it came and was not cancelled, unless a database error in the delivery of the waiting tickets, which the handler catches, cut it short.
- `VotingInvariant` (VotingProofs): `IInv`. The inductive invariant of a nomination: types, votes and entries that belong to it, and what each call may still rely on between two awaits.
- `OneVoteOneEntry` (VotingProofs): `OneEach`. A voter has one vote and an author one entry in a nomination for any number of calls, tabs and reviews.
- `ChoicesAreApproved` (VotingProofs): `ChoicesApproved`. Every vote and the partner's pick name a candidate that was approved when chosen, whatever is deleted or reviewed meanwhile.
- `VotesAreFinal` (VotingProofs): `VotesStand`. A vote leaves only with the candidate it names or with its nomination.
- `InterviewInvariant` (InterviewBookingProofs): `IInv`. The inductive invariant of the recruiting: types, slots and candidates that name each other, what a booking read, and what the reminder timer read.
- `RemindersStayTrue` (InterviewBookingProofs): `RemindersTrue`. A reminder that was sent names the time the candidate has, for any number of departments, hosts and moves.
- `BookingsAreKept` (InterviewBookingProofs): `BookingsKept`. A booking is given up only by the candidate who moves, and only by the rules of moving, or goes with its candidate when he is removed or with its slot.
- `PeopleDoubledOnlyWhenRaced` (InterviewBookingProofs): `DoubledOnlyWhenRaced`. A person has two interviews at one time only if two bookings of that person overlapped.
- `ServicesInvariant` (ServicesProofs). The inductive invariants of the eight services, which their composition keeps.
- `SessionsAreOne` (ServicesProofs): `OneSession`. One session for each login link and none for a person who disowned it, for any number of links, tabs and people.
- `DefaultsAreOne` (ServicesProofs): `OneDefault`. A customer with recipients has one default, and never more recipients than the cap, for any number of overlapping calls (a deletion that overlaps is excepted).
- `CuratorsKeepProducts` (ServicesProofs): `CuratorsOnly`. A curator product stays one through any saves and any deletions of groups that do not overlap each other.
- `ScreenFollows` (ServicesProofs): `OneOffsFireOnce`. Polls that are lost or overtake each other and reloads do not make a one-off command fire twice or the screen go back, as long as no two commands of operators overlapped (overlapped); the award of a state the page did not take (missed) is excepted.
- `SyncedJars` (ServicesProofs): `SyncedShowsItsJar`. An amount shown as synced was read from the jar the fundraiser is linked to, unless one update of the fundraiser overtook another (raced).
- `LateAnswersChangeNothing` (ServicesProofs): `LateAnswersIgnored`. An answer of Monobank about a link the fundraiser no longer has leaves its row alone; one about a fundraiser closed meanwhile leaves its status and amount, does not report it restored, and at most records that the link is broken, telling the admins exactly then.
- `BroadcastsOneAtATime` (ServicesProofs): `OneAtATime`. One broadcast at a time unless two calls passed the check together, each person reached once, and no row left SENDING without a delivery.
- `FilesInUseStay` (ServicesProofs): `UsedFilesStay`. The collector deletes no file of a form whose row or valid pending registration the deleting pass could have seen, and none within the grace period of its upload or last use, for any forms and clock; forms that the deletion overtook (hurried) are excepted.
- `CertificatesAreKept` (ServicesProofs): `CertificatesStand`. A certificate disappears only by a save that gives its place away, for any number of tabs and teachers.
- `SheetInvariant` (AttendanceSheetProofs): `IInv`. The inductive invariant of the tab: one job at a time, and, unless an answer was lost, a cell that is not what the service remembers was changed by a person.
- `DeskIsUndoneByHand` (AttendanceSheetProofs): `UndoneOnlyByHand`. Unless an answer was lost, a mark made at the desk is undone by the sync only for a ticket whose cell a person edited.
- `ChannelInvariant` (ChannelPostsProofs): `IInv`. The inductive invariant of the channel: a claimed post is in somebody's hands, every copy goes back to a claim, what was taken off the queue stays apart.
- `CopiesHaveCause` (ChannelPostsProofs): `RepeatsHaveCause`. A post is in the channel once, and once more only for a lost answer or a write over a published row, for any number of posts.
- `RemovedPostsStayOut` (ChannelPostsProofs): `RemovedStaysOut`. A post rejected or removed is not in the channel and never gets there.

### The shop

`MerchStoreProofs` works for any finite set of attempts and any variants,
products, forms, carts and limits (assumptions `UnlimitedIsNoNumber`,
`MarksAssumption`, `BoundsAssumption`, `AttemptsAssumption`,
`CatalogAssumption` of the modules, all evaluated by TLC on each run).

`StockConserved` is not inductive alone: a cancellation returns
`stockTaken`, which is only what the order holds if no other attempt's insert
can rewrite it.  `IInv` adds `HandlerFacts`: an attempt still before its insert has no
answer and holds nothing, and an answer names an order of the same customer and
key.  `CommitUnits`, `CancelUnits` and `AdvanceUnits` say how the set of held
units changes in the three steps that touch it; `SaveFacts` does the arithmetic
of `ApplyStockEdit` against `supply`; `KeysStep`, `FactsStep`, `StockStep` and `FormStep` are the
parts of the induction.

`NoSaveReverted` compares two forms through one key, so it needs that a replaced key never comes
back.  `FormFacts` says so without a history: a form whose save has `Landed` (its key is on the row,
or an open form has seen it) cannot save again, because the key it has seen itself is not on
the row any more.

### The outbox

`MerchSyncProofs` works for any finite set of orders, any customers and chats, any batch size and any
bounds (`IdsAssumption`, `SyncBounds`, `ChatsAssumption`), and for any orders that Telegram refuses.
`SupergroupsStay` is about Telegram: a group is upgraded to a supergroup, and a supergroup is not
upgraded again.  Without it two migrations could follow each other while the worker has the
chat of the first.

None of the five properties is inductive, because a drain reads a row, calls Telegram and
clears a flag in three steps with anything in between.  The parts of `IInv` and what needs them:

- `WorkerFacts`: where the worker stands and what Telegram's answer can be there.
- `RowFacts`: an order is in a batch once, and its flag stays up as long as it is there.  So a
  row in the batch is work still owed, and no second drain takes it.
- `NoticeFacts`: what a customer has read and what the worker is about to tell him both lie behind the status
  (`Reach`), and the row's status is not behind what he has read.  This gives `NoticesInOrder`.
  `LaterIs` writes out the status graph for it: `TRANSITIONS` has a finite table.
- `MessageFacts`: a message that is still `Due` has been read at most as often as answers were lost, one that
  is not at most once more.  It is the first half of `RepeatsHaveCause`; `Settling` is the moment between the
  answer and the clearing, in which the message is neither due nor cleared.
- `SendFacts`: the ids of an order's cards, wherever one is kept (the chats, the row read, the answer in
  flight, the table), plus `Credits` for a send to come, are at most `Allowed`.  A crash or a lost answer costs one
  credit, a move two: the handler that moves the chat and the worker that meets the upgrade may both drop the ids
  (`Pending`).  It is the second half of `RepeatsHaveCause`.
- `CardFacts`: while the chat stays, the id in the table is a card of that order, and a card
  just sent or edited shows the row that was read, unless it was deleted or its edit refused (`Carried`).  `CardCurrent`
  follows, as `ClearCard` compares the row's status and id with the table.  Its exception is what the test "treats a gone
  edit as done" (`merch-sync.service.spec.ts:596`) asks for.
- `SettledFacts`: what the worker is about to clear a flag for has happened.  It gives
  `NothingOwedIsLost`.

`TypeStep`, `WorkerStep`, `RowStep`, `NoticeStep`, `MessageStep`, `SendStep`, `CardStep` and
`SettledStep` are the parts of the induction; each has a lemma for the steps that leave
its part alone (`NoticeKeeps`, `MessageKeeps`, `SendStays`, `CardStays`, `SettledStays`).  `IInv` was model-checked on
`sync_faults` before it was proved; the run checks the properties that follow from it.

### Event registration

`EventRegistrationProofs` works for any finite set of requests and any people,
/start messages, donations, capacity and bounds (`RegistrationConstants`).

`OneRowPerPerson` and `WithinLimits` are not inductive: what `Create` inserts was decided
a step earlier.  `DecisionHolds` says that a decision to create is still right
(nobody else has the person's row, and there is a place unless limits are
ignored), `LockHeldOnce` that no other transaction is past the lock to spoil it, and
`WriterFacts` that a /start in a transaction keeps the form it inserts.  `TxLeaves`
covers the steps that touch neither, `LockStep` is the induction.  A cancellation in
between only frees a place (`FewerRows`).

`TicketsConfirmed` needs what is on its way (`SendingConfirmed`) and what a /start
still has to send (`StartConfirmed`): `TicketStep`.  `CompletedMeansRegistered`
needs that a transaction answering "existing" had seen a row (`TxRegistered`) and that a
/start about to complete its form was told so (`StartRegistered`): `TokenStep`.

`StartsClaimWaiting` excepts a /start whose delivery a database error ended (`cut`): the handler catches
what `deliverWaitingTickets` throws and goes on, and the rest of the list waits for the next /start.
`WaitingTicketsOnce` and `StartsClaimWaiting` rest on one fact about the steps, `WaitsLess`: after an organizer's
request has added its row, no step makes that row wait again.  It holds because only the site's forms are
inserted by a /start (`FormsOfSite`) and a request inserts once (`AddedOnce`).  `OwedFacts` follows what
waited when a /start came through its lookup and its claims, also when a crash sends it back to the
start; `DeliveredFacts` counts what it has sent.

### Voting

`VotingProofs` works for any entries, voters, tabs and reviews and any bound on edits
(`VotingConstants`).  `OneEach` and `ChoicesApproved` are not inductive: a vote is written a
step after the candidate was read, and a vote is changed by the id of a row read earlier.
`CallFacts` says what each call may still rely on: a candidate read as approved was approved
once, the row to change is the voter's own, and a change was allowed when it was read.

### Interviews

`InterviewBookingProofs` works for any finite set of candidates, any slots, batches, bookings
and timer passes (`InterviewConstants`).  Two assumptions are about the code's numbers:
`BookingsAreShort` (the ten minutes of the reminder and the length of a handler fit in the hour before an
interview in which booking is refused) and `TimesFollow` (what `splitWindow` makes of one window).

`RemindersTrue` needs `RowsSound` (a slot and its candidate name each other), `DueSound` (what the
timer has read still comes true: nobody can leave a slot that near) and
`RemindersSound`.  `DoubledOnlyWhenRaced` needs what a booking, an offer or a new candidate saw
before it inserts: `AddsHold`, `OffersHold`, `MovesHold`, with `BookingsSound` and
`InsertsOnce`.  `RowsStay` and `HeldStaysStep` are the two facts about a step that most parts use.

### The sheet and the channel

`AttendanceSheetProofs` works for any tickets and bounds (`SheetConstants`,
`NoneIsNoTable`).  `EditsAreByHand` is the strengthening: at each await of the one job (`OneJob`), a
cell that is not what the service remembers, what the job has read or what it has just written was
changed by a person since, unless an answer of Google was lost.

`ChannelPostsProofs` works for any finite set of posts and any bounds (`ChannelConstants`).
`RepeatsHaveCause` is proved by counting: `CopiesClaimed` says that the copies of a post
together with the hands that have claimed it and not sent it (`Busy`) are at most one claim
(`Claimed`), plus the answers that were lost, plus the writes over a published row.  `BusyStep` and `CopiesStep`
are the arithmetic of one hand and one message; `Fits`, `Holds`, `Counts` and `Apart` say
what a step of one hand on one row must satisfy for the four parts of the invariant, and
`HandStep` concludes for all actions but a send, a removal and a restart, which are proved
apart.  `RemovedApart` then gives `RemovedStaysOut`: a post that could be removed was not claimed, so no hand is
busy with it.

### The small services

`ServicesProofs` proves the `IInv` of each of the eight services from `ServicesConstants` and
`NoneIsNoState`, and the property of each from its invariant: `IssuedToOne` and
`RevokedGone` for the login; `AddsSound`, `DeletesSound`, `DefaultsSound` for the recipients;
`CountsHold` and `DeletionsApart` for the curator groups; `ReadsStand` for the awards;
`OneHistory`, `PageFollows` and `FiredBehind` for the screen; `AsksOfAJar` for the jars;
`FieldHeld` and `SendingBacked` for the broadcasts; `LooksHold` and `CountedFromUse` for the collector.
`EachMoves` says that a step of `Services` is a step of one service and leaves the others
alone, so the eight inductions make one (`ServicesInvariant`).  The `IInv`s were model-checked when they were
written; the run checks the properties that follow from them.

### What stays with TLC

Liveness (`MessagesSettle`, `CardsArrive`): ENABLED and induction over time are beyond these
provers.  Every other property of a passing run is a theorem.  The claims that the code does not keep are refuted
on their runs.

## What the runs refute

- `CardFollowsChat` (sync_move_race). When the chat moves during a FRESH send (adminMessageId null), resendOpenCards leaves adminMessageId null and cardDirty up; drainCards then stores the id of the message in the old chat (lines 228-232, on the id alone) and the compare-and-set at 234-241 compares with that same sentId, so it clears cardDirty. The open order has no card in the bound chat and nothing flags it. src/server/src/modules/merch/merch-sync.service.ts:233 says: "On what it read: a status change or a chat move during the send stays dirty." and :122-123: "so each open order gets a fresh card there". The spec at src/server/src/modules/merch/merch-sync.service.spec.ts:503 covers the move during an edit only.
- `FirstStartDelivers` (event_first_start). The doc comment of addRegistration (src/server/src/modules/event/event.service.ts:520-522) says "The ticket goes to their bot chat now if they have opened the bot, otherwise on their first /start (UserBotService.deliverWaitingTickets)." The person is looked up at line 541 and inserted at line 552: a first /start served in between upserts the BotUser and finds no waiting registration, and the insert then stores none of its ids. The ticket goes out neither now nor on the first /start; only a second /start would send it.
- `OutOnce` (channel_approve). The doc comment of publish (src/server/src/modules/channel/channel.service.ts:229) says "Sends a post now. Null when it is already out (e.g. the scheduler got there first)." approve reads PENDING and then writes SCHEDULED by id alone: a post the panel published in between is SCHEDULED again, and the tick or the next "publish now" sends it to the channel a second time.

## Not modelled

- The event: the profile a registration takes over, the drafts and templates of
  events, announcements, statistics and the export, and the access of check-in
  helpers.
- The channel: posts for the site, and the photos and buttons of a post.
- The sheet: layout, several events in one spreadsheet, rate limits other than as a refusal.
- The shop: prices, warnings and labels; the photo and thread fallbacks of a card (a card is
  sent or refused as a whole); the sheet export and the import.  Pickup times are shared by
  design: many orders take one slot, and a choice is a single guarded write.
- Votings: results, the live screen's data, announcements and the export, which only read; the
  text and the order of candidates.  The stage screen's own slide show and keys.
- Shari: the imports, the links of teachers and the switches that close editing.
- Interviews: a candidate's status and notes, the length of a slot.
- Fundraisers: creation and the parsing of Monobank's answer.
- Uploads: the daily quota is checked before the act, and two uploads at once may pass it together;
  a file whose process dies before its record is written is never collected.  Neither is
  stated as a property: no line of the code claims otherwise.
- The task queue and the polling loop: what they promise the handlers (one plain update at a
  time, queued tasks side by side, a fresh start after an error) is an assumption of `EventRegistration` and
  `MerchSync`.
- Two server instances: the code assumes one.
- Database errors other than those named above.  Elsewhere a failed query ends its handler where it
  stands, like a crash there, and where the failed query comes after a send it leaves the row as a lost answer does.
- A candidate who renames his Telegram account: `addCandidate` counts departments by tag and `book` looks for other
  bookings by account, which are one person in `InterviewBooking`.  So the model has no third department
  reached under a second tag.
- The screens of the two clients: three fifths of the repository's lines are React
  components whose state is a form or a list.  The loops in them that interact with the server
  are modelled (the checkout's retries, the product form, the login poll, the stage screen); the rest is
  layout and input.
- Applicants, the people wall, partners, facts, departments, blocked users, event details:
  single-row CRUD behind an admin guard; authentication is a signature check without state.

## Plan

1. The shop: `MerchRules`, `OrderLifecycle`, `MerchStore`, `MerchStoreProofs`, `MerchSync`: done.
2. `EventRegistration` and its proofs, `AttendanceSheet`, `ChannelPosts`: done.
3. `Voting`, `InterviewBooking` and the small services: done.
4. Proofs of the safety of every module: done.
5. Abstract specifications: a post (queued, out, removed) that `ChannelPosts` implements; a list of
   people that `EventRegistration` implements.
6. Algorithms against reference definitions on bounded inputs: `mergeLines`,
   `redistribute`, `diffVariants`, `splitWindow`.

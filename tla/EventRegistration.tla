------------------------- MODULE EventRegistration -------------------------
(***************************************************************************)
(* Registrations for one event (event.service.ts, registration-writer.ts,  *)
(* handleStart of user-bot.service.ts).  A person registers in the Mini    *)
(* App, or fills the form on the site and confirms it by /start in the     *)
(* bot, or is added by an organizer and gets the ticket when the bot knows *)
(* him.  The three paths meet in createRegistrationGuarded, a transaction  *)
(* of three steps here, because only the lock on the event row keeps two   *)
(* of them apart.                                                          *)
(*                                                                         *)
(* A registration is named by the request that asked for it.               *)
(***************************************************************************)
EXTENDS Integers, FiniteSets, Sequences

CONSTANTS
    Requests,       \* register and addRegistration calls
    KindOf,         \* [Requests -> {"app", "site", "organizer"}]
    Donates,        \* requests whose payment is DONATED
    People,
    PersonOf,       \* [Requests -> People]; the tag of a request is its person's
    Starts,         \* /start messages
    Capacity,       \* maxRegistrations
    MaxReviews,     \* bound on payment reviews and cancellations
    MaxFaults,      \* bound on failed sends, failed queries and crashes
    None

ASSUME RegistrationConstants ==
    /\ IsFiniteSet(Requests)
    /\ KindOf \in [Requests -> {"app", "site", "organizer"}]
    /\ PersonOf \in [Requests -> People]
    /\ Donates \subseteq Requests
    /\ Capacity \in Nat \ {0} /\ MaxReviews \in Nat /\ MaxFaults \in Nat
    /\ None \notin Requests \cup Starts \cup People
    /\ Requests \cap Starts = {}

Causes == {"register", "organizer", "start", "confirm"}

VARIABLES
    rows,           \* EventRegistration rows
    linked,         \* rows with a telegramUserId
    paid,           \* paymentStatus, of interest for rows
    closed,         \* the deadline has passed
    knows,          \* people with a BotUser row
    token,          \* PendingWebRegistration of a site request
    pc,             \* where the HTTP handler of a request stands
    found,          \* organizer requests whose lookup found a BotUser
    start,          \* the handler of each /start message
    tx,             \* the transaction of each writer: where it stands or what it decided
    late,           \* writers that read the clock after the deadline
    sending,        \* calls of sendTicketToUser not answered yet
    tickets,        \* Telegram: why each ticket of a row was sent
    registered,     \* history: people who had a row at some time
    confirmed,      \* history: requests whose payment someone confirmed
    spent           \* what the bounds count

tableVars == <<rows, linked, paid, tickets>>
botVars == <<knows, start>>
requestVars == <<pc, found, token>>
txVars == <<tx, late>>
historyVars == <<registered, confirmed>>
vars == <<tableVars, closed, botVars, requestVars, txVars, sending, historyVars, spent>>

NewStart == [pc |-> "unsent", who |-> None, token |-> None, todo |-> {}, owed |-> {},
             created |-> FALSE,
             cut |-> FALSE]     \* history: a database error ended its delivery

Init ==
    /\ rows = {} /\ linked = {}
    /\ paid = [r \in Requests |-> "NOT_REQUIRED"]
    /\ closed = FALSE
    /\ knows = {}
    /\ token = [r \in Requests |-> "none"]
    /\ pc = [r \in Requests |-> "idle"]
    /\ found = {}
    /\ start = [s \in Starts |-> NewStart]
    /\ tx = [w \in Requests \cup Starts |-> "out"] /\ late = {}
    /\ sending = [c \in Requests \X Causes |-> 0]
    /\ tickets = [r \in Requests |-> <<>>]
    /\ registered = {} /\ confirmed = {}
    /\ spent = [reviews |-> 0, faults |-> 0]

Spend(kind, limit) == spent[kind] < limit /\ spent' = [spent EXCEPT ![kind] = @ + 1]

Full == Cardinality(rows) >= Capacity
Send(r, why) == sending' = [sending EXCEPT ![<<r, why>>] = @ + 1]

(***************************************************************************)
(* The HTTP handlers                                                       *)
(***************************************************************************)
\* register, up to its write: closed and full events, blocked people and bad forms
\* are refused; a form without a Telegram signature waits for the bot.
Register(r) ==
    /\ KindOf[r] \in {"app", "site"} /\ pc[r] = "idle"
    /\ \/ pc' = [pc EXCEPT ![r] = "refused"] /\ UNCHANGED <<token, knows>>
       \/ /\ ~ closed /\ ~ Full
          /\ IF KindOf[r] = "app"
             THEN /\ pc' = [pc EXCEPT ![r] = "ready"]
                  /\ knows' = knows \cup {PersonOf[r]}
                  /\ UNCHANGED token
             ELSE /\ pc' = [pc EXCEPT ![r] = "answered"]
                  /\ token' = [token EXCEPT ![r] = "open"]
                  /\ UNCHANGED knows
    /\ UNCHANGED <<tableVars, closed, start, found, txVars, sending, historyVars, spent>>

\* addRegistration, up to its write: is the person known to the bot?
LookUp(r) ==
    /\ KindOf[r] = "organizer" /\ pc[r] = "idle"
    /\ pc' = [pc EXCEPT ![r] = "ready"]
    /\ found' = IF PersonOf[r] \in knows THEN found \cup {r} ELSE found
    /\ UNCHANGED <<tableVars, closed, botVars, token, txVars, sending, historyVars, spent>>

\* An hour after the form was sent.
Expire(r) ==
    /\ token[r] = "open"
    /\ token' = [token EXCEPT ![r] = "expired"]
    /\ UNCHANGED <<tableVars, closed, botVars, pc, found, txVars, sending, historyVars, spent>>

PassDeadline ==
    /\ ~ closed /\ closed' = TRUE
    /\ UNCHANGED <<tableVars, botVars, requestVars, txVars, sending, historyVars, spent>>

(***************************************************************************)
(* createRegistrationGuarded                                               *)
(***************************************************************************)
RowOf(w) == IF w \in Requests THEN w ELSE start[w].token
IsWriter(w) == IF w \in Requests THEN pc[w] = "ready" ELSE start[w].pc = "insert"
SamePerson(r) == {o \in rows : PersonOf[o] = PersonOf[r]}
IgnoresLimits(r) == KindOf[r] = "organizer"

\* The clock is read before the event row is asked for.
OpenTransaction(w) ==
    /\ IsWriter(w) /\ tx[w] = "out"
    /\ tx' = [tx EXCEPT ![w] = "waiting"]
    /\ late' = IF closed THEN late \cup {w} ELSE late
    /\ UNCHANGED <<tableVars, closed, botVars, requestVars, sending, historyVars, spent>>

\* A slip of LockEvent: the event row is read and not locked.
LockNothing(w) ==
    /\ tx[w] = "waiting"
    /\ tx' = [tx EXCEPT ![w] = "locked"]
    /\ UNCHANGED <<late, tableVars, closed, botVars, requestVars, sending, historyVars, spent>>

\* SELECT ... FOR UPDATE.
LockEvent(w) ==
    /\ tx[w] = "waiting" /\ \A other \in DOMAIN tx : tx[other] \in {"out", "waiting"}
    /\ tx' = [tx EXCEPT ![w] = "locked"]
    /\ UNCHANGED <<late, tableVars, closed, botVars, requestVars, sending, historyVars, spent>>

\* A slip of Verdict: the limit is left to the check the form passed.
VerdictOnce(w) ==
    IF SamePerson(RowOf(w)) # {} THEN "existing"
    ELSE IF w \in late /\ ~ IgnoresLimits(RowOf(w)) THEN "refused"
    ELSE "create"

\* A duplicate is looked for before the limits.
Verdict(w) ==
    IF SamePerson(RowOf(w)) # {} THEN "existing"
    ELSE IF (w \in late \/ Full) /\ ~ IgnoresLimits(RowOf(w)) THEN "refused"
    ELSE "create"

Decide(w) ==
    /\ tx[w] = "locked"
    /\ tx' = [tx EXCEPT ![w] = Verdict(w)]
    /\ UNCHANGED <<late, tableVars, closed, botVars, requestVars, sending, historyVars, spent>>

\* The transaction ends, and its caller goes on.
Leave(w, next) ==
    /\ tx' = [tx EXCEPT ![w] = "out"]
    /\ IF w \in Requests THEN pc' = [pc EXCEPT ![w] = "answered"] /\ UNCHANGED start
       ELSE /\ start' = [start EXCEPT ![w].pc = next, ![w].created = tx[w] = "create"]
            /\ UNCHANGED pc

\* A slip of TicketNow: whoever registers gets a ticket.
TicketAnyway(r) == IF KindOf[r] = "organizer" THEN r \in found ELSE TRUE

\* register and addRegistration send the ticket at once, unless somebody has to look
\* at a receipt or the bot does not know the person.
TicketNow(r) == IF KindOf[r] = "organizer" THEN r \in found ELSE r \notin Donates

Create(w) ==
    LET r == RowOf(w) IN
    /\ tx[w] = "create"
    /\ rows' = rows \cup {r}
    /\ linked' = IF KindOf[r] = "organizer" /\ r \notin found THEN linked ELSE linked \cup {r}
    /\ paid' = [paid EXCEPT ![r] = IF r \notin Donates THEN "NOT_REQUIRED"
                                   ELSE IF KindOf[r] = "organizer" THEN "CONFIRMED"
                                   ELSE "PENDING"]
    /\ registered' = registered \cup {PersonOf[r]}
    /\ confirmed' = IF paid'[r] = "PENDING" THEN confirmed ELSE confirmed \cup {r}
    /\ IF w \in Requests /\ TicketNow(r)
       THEN Send(r, IF KindOf[r] = "organizer" THEN "organizer" ELSE "register")
       ELSE UNCHANGED sending
    /\ Leave(w, "complete")
    /\ UNCHANGED <<late, tickets, closed, knows, found, token, spent>>

\* A slip of RollBack: whatever the transaction said, the form is done with.
RollBackAsDone(w) ==
    /\ tx[w] \in {"existing", "refused"}
    /\ Leave(w, "complete")
    /\ UNCHANGED <<late, tableVars, closed, knows, found, token, sending, historyVars, spent>>

RollBack(w) ==
    /\ tx[w] \in {"existing", "refused"}
    /\ Leave(w, IF tx[w] = "existing" THEN "complete" ELSE "done")
    /\ UNCHANGED <<late, tableVars, closed, knows, found, token, sending, historyVars, spent>>

\* A query of the transaction, or one between the checks and it, fails.
WriteFails(w) ==
    /\ IsWriter(w) /\ Spend("faults", MaxFaults)
    /\ tx' = [tx EXCEPT ![w] = "out"]
    /\ IF w \in Requests THEN pc' = [pc EXCEPT ![w] = "refused"] /\ UNCHANGED start
       ELSE start' = [start EXCEPT ![w].pc = "done"] /\ UNCHANGED pc
    /\ UNCHANGED <<late, tableVars, closed, knows, found, token, sending, historyVars>>

(***************************************************************************)
(* /start                                                                  *)
(***************************************************************************)
Running(s) == start[s].pc \notin {"unsent", "done", "lost"}
Waiting(p) == {o \in rows \ linked : KindOf[o] = "organizer" /\ PersonOf[o] = p}

\* The polling loop waits for the handler of a plain /start; one with a token is
\* queued beside it.
Begin(s, p, t) ==
    /\ start[s].pc = "unsent"
    /\ \A other \in Starts : Running(other) => start[other].token # None
    /\ t # None => token[t] # "none"
    /\ start' = [start EXCEPT ![s] =
                    [NewStart EXCEPT !.pc = "upsert", !.who = p, !.token = t, !.owed = Waiting(p)]]
    /\ UNCHANGED <<tableVars, closed, knows, requestVars, txVars, sending, historyVars, spent>>

startStep == <<closed, pc, found, txVars, historyVars, spent>>

UpsertBotUser(s) ==
    /\ start[s].pc = "upsert"
    /\ knows' = knows \cup {start[s].who}
    /\ start' = [start EXCEPT ![s].pc = "look"]
    /\ UNCHANGED <<tableVars, token, sending, startStep>>

\* Its error is logged, and the handler goes on.
UpsertFails(s) ==
    /\ start[s].pc = "upsert" /\ Spend("faults", MaxFaults)
    /\ start' = [start EXCEPT ![s].pc = "look"]
    /\ UNCHANGED <<tableVars, closed, knows, requestVars, txVars, sending, historyVars>>

\* A slip of FindWaiting: only a plain /start delivers.
FindWaitingPlain(s) ==
    /\ start[s].pc = "look"
    /\ start' = [start EXCEPT ![s].pc = "claim",
                              ![s].todo = IF start[s].token = None THEN Waiting(start[s].who) ELSE {}]
    /\ UNCHANGED <<tableVars, knows, token, sending, startStep>>

\* deliverWaitingTickets.
FindWaiting(s) ==
    /\ start[s].pc = "look"
    /\ start' = [start EXCEPT ![s].pc = "claim", ![s].todo = Waiting(start[s].who)]
    /\ UNCHANGED <<tableVars, knows, token, sending, startStep>>

\* A slip of Claim: the row is linked whoever linked or deleted it before.
ClaimAgain(s, o) ==
    /\ start[s].pc = "claim" /\ o \in start[s].todo
    /\ start' = [start EXCEPT ![s].todo = @ \ {o}]
    /\ linked' = linked \cup {o} /\ Send(o, "start")
    /\ UNCHANGED <<rows, paid, tickets, knows, token, startStep>>

\* Claimed first, then sent.
Claim(s, o) ==
    /\ start[s].pc = "claim" /\ o \in start[s].todo
    /\ start' = [start EXCEPT ![s].todo = @ \ {o}]
    /\ IF o \in rows \ linked THEN linked' = linked \cup {o} /\ Send(o, "start")
       ELSE UNCHANGED <<linked, sending>>
    /\ UNCHANGED <<rows, paid, tickets, knows, token, startStep>>

\* handleStart catches what deliverWaitingTickets throws and goes on.  The lookup fails, or a
\* claim, which may have been written, or the lookup of a claimed registration's account: the
\* rest of the list is dropped, and a registration that was claimed gets no ticket.
DeliveryFails(s) ==
    /\ start[s].pc = "look" \/ (start[s].pc = "claim" /\ start[s].todo # {})
    /\ Spend("faults", MaxFaults)
    /\ start' = [start EXCEPT ![s].pc = "claim", ![s].todo = {}, ![s].cut = TRUE]
    /\ \/ UNCHANGED linked
       \/ \E o \in start[s].todo \cap (rows \ linked) : linked' = linked \cup {o}
    /\ UNCHANGED <<rows, paid, tickets, closed, knows, requestVars, txVars, sending, historyVars>>

\* Another account, an expired or a completed form, a blocked person or a failed query: no
\* insert.
ReadToken(s) ==
    LET t == start[s].token IN
    /\ start[s].pc = "claim" /\ start[s].todo = {}
    /\ \/ start' = [start EXCEPT ![s].pc = "done"] /\ UNCHANGED knows
       \/ /\ t # None /\ token[t] = "open" /\ PersonOf[t] = start[s].who
          /\ start' = [start EXCEPT ![s].pc = "insert"]
          /\ knows' = knows \cup {start[s].who}
    /\ UNCHANGED <<tableVars, token, sending, startStep>>

Complete(s) ==
    /\ start[s].pc = "complete"
    /\ token' = [token EXCEPT ![start[s].token] = "completed"]
    /\ start' = [start EXCEPT ![s].pc = "reply"]
    /\ UNCHANGED <<tableVars, knows, sending, startStep>>

\* A ticket, a word about the receipt, or "already registered".
Reply(s) ==
    LET t == start[s].token IN
    /\ start[s].pc = "reply"
    /\ start' = [start EXCEPT ![s].pc = "done"]
    /\ IF start[s].created /\ TicketNow(t) THEN Send(t, "register") ELSE UNCHANGED sending
    /\ UNCHANGED <<tableVars, knows, token, startStep>>

\* The form cannot be marked completed, or the account for the ticket not be looked up.
ConfirmFails(s) ==
    /\ start[s].pc \in {"complete", "reply"} /\ Spend("faults", MaxFaults)
    /\ start' = [start EXCEPT ![s].pc = "done"]
    /\ UNCHANGED <<tableVars, closed, knows, requestVars, txVars, sending, historyVars>>

HandleStart(s) ==
    \/ UpsertBotUser(s) \/ FindWaiting(s) \/ ReadToken(s) \/ Complete(s) \/ Reply(s)
    \/ \E o \in Requests : Claim(s, o)

(***************************************************************************)
(* Organizers, sends and failures                                          *)
(***************************************************************************)
Review(o) == o \in rows /\ Spend("reviews", MaxReviews)

ConfirmPayment(o) ==
    /\ Review(o)
    /\ paid' = [paid EXCEPT ![o] = "CONFIRMED"]
    /\ confirmed' = confirmed \cup {o}
    /\ IF o \in linked THEN Send(o, "confirm") ELSE UNCHANGED sending
    /\ UNCHANGED <<rows, linked, tickets, closed, botVars, requestVars, txVars, registered>>

RejectPayment(o) ==
    /\ Review(o)
    /\ paid' = [paid EXCEPT ![o] = "REJECTED"]
    /\ UNCHANGED <<rows, linked, tickets, closed, botVars, requestVars, txVars, sending, historyVars>>

CancelRegistration(o) ==
    /\ Review(o)
    /\ rows' = rows \ {o} /\ linked' = linked \ {o}
    /\ UNCHANGED <<paid, tickets, closed, botVars, requestVars, txVars, sending, historyVars>>

SendTicketToUser(r, why) ==
    /\ sending[<<r, why>>] > 0
    /\ sending' = [sending EXCEPT ![<<r, why>>] = @ - 1]
    /\ tickets' = [tickets EXCEPT ![r] = Append(@, why)]
    /\ UNCHANGED <<rows, linked, paid, closed, botVars, requestVars, txVars, historyVars, spent>>

\* sendTicketToUser catches everything and answers false, which nobody acts on.
SendFails(r, why) ==
    /\ sending[<<r, why>>] > 0 /\ Spend("faults", MaxFaults)
    /\ sending' = [sending EXCEPT ![<<r, why>>] = @ - 1]
    /\ UNCHANGED <<tableVars, closed, botVars, requestVars, txVars, historyVars>>

\* Handlers and sends are gone and the transaction is rolled back.  Telegram hands a
\* plain /start out again, as its update was never acknowledged.
Crash ==
    /\ Spend("faults", MaxFaults)
    /\ pc' = [r \in Requests |-> IF pc[r] = "ready" THEN "refused" ELSE pc[r]]
    /\ start' = [s \in Starts |->
                    IF ~ Running(s) THEN start[s]
                    ELSE IF start[s].token = None
                         THEN [start[s] EXCEPT !.pc = "upsert", !.todo = {}, !.cut = FALSE]
                         ELSE [start[s] EXCEPT !.pc = "lost"]]
    /\ tx' = [w \in DOMAIN tx |-> "out"]
    /\ sending' = [c \in Requests \X Causes |-> 0]
    /\ UNCHANGED <<late, tableVars, closed, knows, found, token, historyVars>>

Next ==
    \/ \E r \in Requests : Register(r) \/ LookUp(r) \/ Expire(r)
    \/ PassDeadline
    \/ \E w \in Requests \cup Starts : 
           OpenTransaction(w) \/ LockEvent(w) \/ Decide(w) \/ Create(w) \/ RollBack(w)
           \/ WriteFails(w)
    \/ \E s \in Starts, p \in People, t \in Requests \cup {None} : Begin(s, p, t)
    \/ \E s \in Starts : HandleStart(s) \/ UpsertFails(s) \/ DeliveryFails(s) \/ ConfirmFails(s)
    \/ \E o \in Requests : ConfirmPayment(o) \/ RejectPayment(o) \/ CancelRegistration(o)
    \/ \E r \in Requests, why \in Causes : SendTicketToUser(r, why) \/ SendFails(r, why)
    \/ Crash

Spec == Init /\ [][Next]_vars

(***************************************************************************)
(* Properties                                                              *)
(***************************************************************************)
StartRecord ==
    [pc : {"unsent", "upsert", "look", "claim", "insert", "complete", "reply", "done", "lost"},
     who : People \cup {None}, token : Requests \cup {None},
     todo : SUBSET Requests, owed : SUBSET Requests, created : BOOLEAN, cut : BOOLEAN]

RowTypes ==
    /\ rows \subseteq Requests /\ linked \subseteq rows
    /\ paid \in [Requests -> {"NOT_REQUIRED", "PENDING", "CONFIRMED", "REJECTED"}]
    /\ registered \subseteq People /\ confirmed \subseteq Requests

RequestTypes ==
    /\ closed \in BOOLEAN /\ knows \subseteq People /\ found \subseteq Requests
    /\ token \in [Requests -> {"none", "open", "completed", "expired"}]
    /\ pc \in [Requests -> {"idle", "ready", "answered", "refused"}]

TxTypes ==
    /\ tx \in [Requests \cup Starts -> {"out", "waiting", "locked", "existing", "refused", "create"}]
    /\ late \subseteq Requests \cup Starts

TicketTypes ==
    /\ sending \in [Requests \X Causes -> Nat]
    /\ tickets \in [Requests -> Seq(Causes)]

TypeOK ==
    RowTypes /\ RequestTypes /\ TxTypes /\ TicketTypes /\ start \in [Starts -> StartRecord]

\* However the Mini App, the bot's /start and the organizers interleave, a person has one
\* registration for the event (createRegistrationGuarded, which no unique index backs).
OneRowPerPerson == \A r, o \in rows : PersonOf[r] = PersonOf[o] => r = o

\* Only an organizer adds a person to a full event: any other registration, checked once when
\* the form came in and again under the lock, finds a free place at the moment it appears.
WithinLimits ==
    [][\A r \in rows' \ rows : IgnoresLimits(r) \/ Cardinality(rows') <= Capacity]_vars

\* A ticket says the payment is confirmed, and one goes out only for a registration that needs
\* no payment or whose receipt somebody confirmed, whichever of the four senders sends it.
TicketsConfirmed == \A r \in Requests : tickets[r] # <<>> => r \in confirmed

\* "Claimed first, so a second /start never sends the same ticket twice": over any number of
\* /starts, restarts and redeliveries a waiting registration is delivered at most once.
StartsIn(sent) == {i \in DOMAIN sent : sent[i] = "start"}
Delivered(r) == Cardinality(StartsIn(tickets[r])) + sending[<<r, "start">>]

WaitingTicketsOnce == \A r \in Requests : Delivered(r) <= 1

\* The site shows "registered" once the form's token is completed: by then the person has, or
\* had until an organizer cancelled it, a registration.
CompletedMeansRegistered ==
    \A r \in Requests : token[r] = "completed" => PersonOf[r] \in registered

\* A /start that ran to its end leaves no registration unlinked that was waiting for the person
\* when it came, also when another /start or a crash got between, or its own upsert or form
\* failed; only a database error in the delivery itself, which the handler catches and logs, may
\* leave some waiting for the next /start.
StartsClaimWaiting ==
    \A s \in Starts :
        start[s].pc = "done" => start[s].cut \/ start[s].owed \cap rows \subseteq linked

\* "The ticket goes to their bot chat now if they have opened the bot, otherwise on their first
\* /start": an organizer's registration is never left waiting for a person whose /start has
\* already been served.
FirstStartDelivers ==
    \A r \in rows, s \in Starts :
        start[s].pc = "done" /\ start[s].who = PersonOf[r] /\ KindOf[r] = "organizer"
            => r \in linked

(***************************************************************************)
(* The invariant of the proofs                                             *)
(***************************************************************************)
\* Only a /start about to insert is in a transaction, and it has a form to insert.
WriterFacts ==
    \A s \in Starts :
        /\ tx[s] # "out" => start[s].pc = "insert"
        /\ start[s].pc # "unsent" => start[s].who \in People
        /\ start[s].pc = "insert" => start[s].token \in Requests

\* One transaction holds the event row.
LockHeldOnce ==
    \A v, w \in Requests \cup Starts :
        tx[v] \notin {"out", "waiting"} /\ tx[w] \notin {"out", "waiting"} => v = w

\* What a transaction decided stays true until it ends.
DecisionHolds ==
    \A w \in Requests \cup Starts :
        tx[w] = "create" =>
            /\ SamePerson(RowOf(w)) = {}
            /\ IgnoresLimits(RowOf(w)) \/ Cardinality(rows) < Capacity

\* Registrations that need no confirmation count as confirmed.
RowsConfirmed ==
    \A r \in rows : IgnoresLimits(r) \/ r \notin Donates => r \in confirmed

\* Tickets on their way are of confirmed registrations,
SendingConfirmed ==
    \A r \in Requests, why \in Causes : sending[<<r, why>>] > 0 => r \in confirmed

\* and so are those a /start has still to send.
StartConfirmed ==
    \A s \in Starts :
        /\ \A o \in start[s].todo : IgnoresLimits(o)
        /\ start[s].created /\ (IgnoresLimits(start[s].token) \/ start[s].token \notin Donates)
               => start[s].token \in confirmed

TicketFacts == RowsConfirmed /\ SendingConfirmed /\ StartConfirmed /\ TicketsConfirmed

\* Who has a row, is found to have one, or is about to be told so, has been registered.
RowsRegistered == \A r \in rows : PersonOf[r] \in registered

TxRegistered ==
    \A w \in Requests \cup Starts : tx[w] = "existing" => PersonOf[RowOf(w)] \in registered

StartRegistered ==
    \A s \in Starts : start[s].pc = "complete" => PersonOf[start[s].token] \in registered

TokenFacts == RowsRegistered /\ TxRegistered /\ StartRegistered /\ CompletedMeansRegistered

\* Only the site's forms wait for a /start, and an organizer's request adds its row itself,
\* once: no /start inserts it again after a cancellation.
FormsOfSite ==
    /\ \A r \in Requests : token[r] # "none" => KindOf[r] = "site"
    /\ \A s \in Starts : start[s].token # None => KindOf[start[s].token] = "site"

AddedOnce ==
    /\ \A r \in Requests : tx[r] # "out" => pc[r] = "ready"
    /\ \A r \in rows : KindOf[r] = "organizer" => pc[r] = "answered"

\* What waited when a /start came is still to be looked up, on its list, or linked, unless a
\* database error ended the delivery.
OwedFacts ==
    \A s \in Starts :
        /\ \A o \in start[s].owed :
               KindOf[o] = "organizer" /\ PersonOf[o] = start[s].who /\ pc[o] = "answered"
        /\ start[s].pc = "claim" /\ ~ start[s].cut
               => start[s].owed \cap (rows \ linked) \subseteq start[s].todo
        /\ start[s].pc \in {"insert", "complete", "reply", "done"} /\ ~ start[s].cut
               => start[s].owed \cap rows \subseteq linked

\* A registration a /start has delivered waits no more.
DeliveredFacts ==
    \A r \in Requests :
        Delivered(r) > 0 =>
            KindOf[r] = "organizer" /\ pc[r] = "answered" /\ r \notin rows \ linked

WaitingFacts ==
    FormsOfSite /\ AddedOnce /\ OwedFacts /\ DeliveredFacts /\ WaitingTicketsOnce

IInv ==
    /\ TypeOK /\ WriterFacts
    /\ LockHeldOnce /\ DecisionHolds /\ OneRowPerPerson
    /\ TicketFacts /\ TokenFacts /\ WaitingFacts
=============================================================================

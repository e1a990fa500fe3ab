------------------------------ MODULE JarSync ------------------------------
(***************************************************************************)
(* One fundraiser linked to a Monobank jar: the timer that asks Monobank   *)
(* (jar-sync.service.ts) and the admins who edit and close it              *)
(* (fundraiser.service.ts) write the same row.  An amount is represented   *)
(* by the jar it was read from.  When a jar is due is left to the timer:   *)
(* a tick may find it due or not.                                          *)
(***************************************************************************)
EXTENDS Naturals

CONSTANTS
    Links,          \* widget links
    Updates,        \* FundraiserService.update calls
    Touches,        \* [Updates -> Links \cup {None, Keep}]: the link in the request
    Sets,           \* [Updates -> statuses \cup {Keep}]: the status in the request
    Types,          \* the updates that carry an amount typed by hand
    FailuresBeforeAlert,    \* FAILURES_BEFORE_ALERT
    BackoffSteps,   \* doublings from BACKOFF_START_MS to BACKOFF_MAX_MS
    MaxRestarts,    \* bound
    None, Keep

VARIABLES
    row,            \* the Fundraiser row
    sync,           \* the running tick and the link it asks about
    memory,         \* JarSyncService's fields
    update,         \* the handler of each update
    told,           \* what the admins were told of the connection last
    raced,          \* history: an update wrote over what another wrote after it read
    restarts

vars == <<row, sync, memory, update, told, raced, restarts>>

Fresh == [failures |-> 0, backoff |-> 0, paused |-> FALSE, alerted |-> FALSE]
Idle == [pc |-> "idle", link |-> None]
Done == [pc |-> "done", link |-> None, status |-> "ACTIVE"]

Init ==
    /\ row = [status |-> "ACTIVE", link |-> None, error |-> FALSE, synced |-> FALSE, amountOf |-> None]
    /\ sync = Idle /\ memory = Fresh
    /\ update = [u \in Updates |-> [pc |-> "idle", link |-> None, status |-> "ACTIVE"]]
    /\ told = "nothing" /\ raced = FALSE /\ restarts = 0

(***************************************************************************)
(* The timer                                                               *)
(***************************************************************************)
\* Nothing while a request runs or after a 429; an active fundraiser whose link works.
Tick ==
    /\ sync.pc = "idle" /\ ~ memory.paused
    /\ row.status = "ACTIVE" /\ row.link # None /\ ~ row.error
    /\ sync' = [pc |-> "asking", link |-> row.link]
    /\ UNCHANGED <<row, memory, update, told, raced, restarts>>

\* A fundraiser not asked about for an hour is forgotten.
ForgetStale ==
    /\ sync.pc = "idle" /\ memory.failures > 0
    /\ memory' = [memory EXCEPT !.failures = 0]
    /\ UNCHANGED <<row, sync, update, told, raced, restarts>>

\* A slip of StillLinked: the answer is stored whatever the link and status are by now.
StillThere(link) == row.status # "deleted"

\* The WHERE of apply: the answer is for the link of a fundraiser still open.
StillLinked(link) == row.link = link /\ row.status = "ACTIVE"

Answer(closed) ==
    /\ sync.pc = "asking"
    /\ row' = IF StillLinked(sync.link)
              THEN [row EXCEPT !.synced = TRUE, !.amountOf = sync.link, !.error = FALSE,
                               !.status = IF closed THEN "CLOSED" ELSE @]
              ELSE row
    /\ told' = IF StillLinked(sync.link) /\ memory.failures >= FailuresBeforeAlert
               THEN "restored" ELSE told
    /\ memory' = [memory EXCEPT !.failures = 0, !.backoff = 0, !.alerted = FALSE]
    /\ sync' = Idle
    /\ UNCHANGED <<update, raced, restarts>>

\* No such jar, or one in another currency: the link is given up on.
MarkBroken ==
    /\ sync.pc = "asking"
    /\ row' = IF row.link = sync.link /\ row.status # "deleted"
              THEN [row EXCEPT !.error = TRUE] ELSE row
    /\ told' = IF row.link = sync.link /\ row.status # "deleted" THEN "broken" ELSE told
    /\ memory' = [memory EXCEPT !.failures = 0]
    /\ sync' = Idle
    /\ UNCHANGED <<update, raced, restarts>>

\* The pause doubles; at its longest the admins are told once.
RateLimited ==
    /\ sync.pc = "asking"
    /\ memory' = [memory EXCEPT !.paused = TRUE,
                                !.backoff = IF @ < BackoffSteps THEN @ + 1 ELSE @,
                                !.alerted = @ \/ memory.backoff = BackoffSteps]
    /\ sync' = Idle
    /\ UNCHANGED <<row, update, told, raced, restarts>>

Resume ==
    /\ memory.paused
    /\ memory' = [memory EXCEPT !.paused = FALSE]
    /\ UNCHANGED <<row, sync, update, told, raced, restarts>>

Unavailable ==
    LET count == memory.failures + 1 IN
    /\ sync.pc = "asking"
    \* counting on past the alert changes nothing
    /\ memory' = [memory EXCEPT !.failures = IF @ < FailuresBeforeAlert THEN count ELSE @]
    /\ told' = IF count = FailuresBeforeAlert THEN "failing" ELSE told
    /\ sync' = Idle
    /\ UNCHANGED <<row, update, raced, restarts>>

Restart ==
    /\ restarts < MaxRestarts
    /\ restarts' = restarts + 1
    /\ sync' = Idle /\ memory' = Fresh
    /\ update' = [u \in Updates |-> IF update[u].pc = "read" THEN Done ELSE update[u]]
    /\ UNCHANGED <<row, told, raced>>

(***************************************************************************)
(* The admins                                                              *)
(***************************************************************************)
ReadRow(u) ==
    /\ update[u].pc = "idle" /\ row.status # "deleted"
    /\ update' = [update EXCEPT ![u] = [pc |-> "read", link |-> row.link, status |-> row.status]]
    /\ UNCHANGED <<row, sync, memory, told, raced, restarts>>

Finished(u) == [update EXCEPT ![u] = Done]

LinkAfter(u) == IF Touches[u] = Keep THEN update[u].link ELSE Touches[u]

\* The row after the dto's own fields.
Plain(u) ==
    [row EXCEPT !.status = IF Sets[u] = Keep THEN @ ELSE Sets[u],
                !.amountOf = IF u \in Types /\ LinkAfter(u) = None THEN None ELSE @]

Save(u, new) ==
    /\ row' = IF row.status = "deleted" THEN row ELSE new
    /\ update' = Finished(u)
    /\ raced' = (raced \/ row.link # update[u].link)
    /\ UNCHANGED <<sync, memory, told, restarts>>

\* Without a link nothing is asked; one that was there, or is taken off, is forgotten.
SaveUnlinked(u) ==
    /\ update[u].pc = "read" /\ LinkAfter(u) = None
    /\ Save(u, IF Touches[u] # Keep
               THEN [Plain(u) EXCEPT !.link = None, !.synced = FALSE, !.error = FALSE]
               ELSE Plain(u))

SaveKeepingLink(u) ==
    /\ update[u].pc = "read" /\ LinkAfter(u) # None /\ Touches[u] = Keep
    /\ Save(u, Plain(u))

\* resolveJar: Monobank's answer goes in with the link, asked or at most two minutes old.
SaveResolved(u, closed) ==
    LET status == IF Sets[u] = Keep THEN update[u].status ELSE Sets[u] IN
    /\ update[u].pc = "read" /\ LinkAfter(u) # None /\ Touches[u] # Keep
    /\ Save(u, [Plain(u) EXCEPT !.link = LinkAfter(u), !.synced = TRUE, !.error = FALSE,
                                !.amountOf = LinkAfter(u),
                                !.status = IF closed /\ status = "ACTIVE" THEN "CLOSED" ELSE @])

\* A slip of SaveUnresolved: jarSyncedAt stays with a new link.
SaveAsSynced(u) ==
    /\ update[u].pc = "read" /\ LinkAfter(u) # None /\ Touches[u] # Keep
    /\ Save(u, [Plain(u) EXCEPT !.link = LinkAfter(u), !.error = FALSE])

\* Monobank did not answer: a new link starts unsynced, the amount stays the last one known.
SaveUnresolved(u) ==
    /\ update[u].pc = "read" /\ LinkAfter(u) # None /\ Touches[u] # Keep
    /\ Save(u, [Plain(u) EXCEPT !.link = LinkAfter(u), !.error = FALSE,
                                !.synced = @ /\ LinkAfter(u) = update[u].link])

\* A link that is no widget, or an unknown jar.
RefuseUpdate(u) ==
    /\ update[u].pc = "read" /\ LinkAfter(u) # None /\ Touches[u] # Keep
    /\ update' = Finished(u)
    /\ UNCHANGED <<row, sync, memory, told, raced, restarts>>

CloseExpired ==
    /\ row.status = "ACTIVE"
    /\ row' = [row EXCEPT !.status = "CLOSED"]
    /\ UNCHANGED <<sync, memory, update, told, raced, restarts>>

Remove ==
    /\ row.status # "deleted"
    /\ row' = [row EXCEPT !.status = "deleted", !.link = None, !.synced = FALSE]
    /\ UNCHANGED <<sync, memory, update, told, raced, restarts>>

Next ==
    \/ Tick \/ ForgetStale \/ MarkBroken \/ RateLimited \/ Resume \/ Unavailable \/ Restart
    \/ \E closed \in BOOLEAN : Answer(closed)
    \/ \E u \in Updates :
         \/ ReadRow(u) \/ SaveUnlinked(u) \/ SaveKeepingLink(u) \/ SaveUnresolved(u) \/ RefuseUpdate(u)
         \/ \E closed \in BOOLEAN : SaveResolved(u, closed)
    \/ CloseExpired \/ Remove

Spec == Init /\ [][Next]_vars

\* An amount the site shows as synced is that of the jar the fundraiser is linked to, however
\* long Monobank takes to answer and whatever the admins change meanwhile; only an update that
\* another update overtook may mix two jars.
SyncedShowsItsJar == row.synced /\ row.link # None => row.amountOf = row.link \/ raced

\* An answer that comes late.  One about a link the fundraiser no longer has (linked elsewhere,
\* unlinked or removed meanwhile) leaves the row alone and is not told; only the count of failures
\* runs on and may be told as "failing".  A fundraiser closed meanwhile with its link unchanged
\* keeps its status and its amount and is not told of as restored; a final verdict on that link
\* is still recorded as its error, and the admins hear that it is broken exactly then.
LateAnswersIgnored == [][sync.pc = "asking" /\ sync'.pc = "idle" =>
    /\ row.link # sync.link => row' = row /\ told' \in {told, "failing"}
    /\ row.status # "ACTIVE" =>
         /\ row' \in {row, [row EXCEPT !.error = TRUE]}
         /\ told' \in {told, "failing", "broken"}
         /\ told' = "broken" => told = "broken" \/ row'.error]_vars

TypeOK ==
    /\ row.link \in Links \cup {None} /\ DOMAIN row = {"status", "link", "error", "synced", "amountOf"}
    /\ row.error \in BOOLEAN /\ row.synced \in BOOLEAN
    /\ sync \in [pc : {"idle", "asking"}, link : Links \cup {None}]
    /\ memory.failures \in Nat /\ memory.alerted \in BOOLEAN /\ memory.paused \in BOOLEAN
    /\ DOMAIN memory = {"failures", "backoff", "paused", "alerted"}
    /\ DOMAIN update = Updates
    /\ \A u \in Updates : DOMAIN update[u] = {"pc", "link", "status"} /\ update[u].link \in Links \cup {None}
    /\ raced \in BOOLEAN

\* A request is always about a link.
AsksOfAJar == sync.pc = "asking" => sync.link # None

IInv == TypeOK /\ AsksOfAJar /\ SyncedShowsItsJar
=============================================================================

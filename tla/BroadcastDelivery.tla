------------------------- MODULE BroadcastDelivery -------------------------
(***************************************************************************)
(* Broadcasts to bot users (broadcast.service.ts and sendBroadcast of      *)
(* user-bot.service.ts): one delivery at a time runs in the background,    *)
(* its row tells the admins how it goes.  The field delivering guards the  *)
(* process, rows in SENDING guard what a dead process left; both are       *)
(* looked at before anything is written.                                   *)
(*                                                                         *)
(* A broadcast is one startBroadcast call.  Texts, buttons and the flow of *)
(* progress counters are left out.                                         *)
(***************************************************************************)
EXTENDS Naturals, FiniteSets

CONSTANTS
    Broadcasts,
    Recipients,
    MaxAttempts,    \* BROADCAST_MAX_ATTEMPTS
    MaxRestarts,    \* bound
    None

VARIABLES
    status,         \* BroadcastMessage.status, "none" before the row
    call,           \* the handler of each startBroadcast
    delivering,     \* the broadcast the field stands for, None when undefined
    delivery,       \* the background delivery: where it is and whom it still has to reach
    got,            \* messages that reached each person, by broadcast
    blocked,        \* BotUser.isBlocked
    stuck,          \* history: broadcasts whose last write failed
    raced,          \* history: two calls passed the check before either took the field
    restarts

vars == <<status, call, delivering, delivery, got, blocked, stuck, raced, restarts>>

NotRunning == [pc |-> "none", left |-> {}, attempt |-> 1]

Init ==
    /\ status = [b \in Broadcasts |-> "none"]
    /\ call = [b \in Broadcasts |-> "idle"]
    /\ delivering = None
    /\ delivery = [b \in Broadcasts |-> NotRunning]
    /\ got = [b \in Broadcasts |-> [p \in Recipients |-> 0]]
    /\ blocked = {} /\ stuck = {} /\ raced = FALSE /\ restarts = 0

Sending == {b \in Broadcasts : status[b] = "SENDING"}
Running == {b \in Broadcasts : delivery[b].pc # "none"}

(***************************************************************************)
(* startBroadcast                                                          *)
(***************************************************************************)
\* A slip of CheckField: only the rows are asked.
CheckNothing(b) ==
    /\ call[b] = "idle"
    /\ call' = [call EXCEPT ![b] = "counting"]
    /\ UNCHANGED <<status, delivering, delivery, got, blocked, stuck, raced, restarts>>

CheckField(b) ==
    /\ call[b] = "idle"
    /\ call' = [call EXCEPT ![b] = IF delivering # None THEN "refused" ELSE "counting"]
    /\ UNCHANGED <<status, delivering, delivery, got, blocked, stuck, raced, restarts>>

\* The rows still sending are counted after the field was looked at; it is set only then.
CountRows(b) ==
    /\ call[b] = "counting"
    /\ call' = [call EXCEPT ![b] = IF Sending # {} THEN "refused" ELSE "counted"]
    /\ UNCHANGED <<status, delivering, delivery, got, blocked, stuck, raced, restarts>>

TakeField(b) ==
    /\ call[b] = "counted"
    /\ call' = [call EXCEPT ![b] = "creating"]
    /\ delivering' = b
    /\ raced' = (raced \/ \E o \in Broadcasts \ {b} : call[o] \in {"counting", "counted"})
    /\ UNCHANGED <<status, delivery, got, blocked, stuck, restarts>>

\* To the registrants of an event, or to all who had not blocked the bot when they were read.
CreateRow(b, people) ==
    /\ call[b] = "creating"
    /\ call' = [call EXCEPT ![b] = "answered"]
    /\ status' = [status EXCEPT ![b] = "SENDING"]
    /\ delivery' = [delivery EXCEPT ![b] = [pc |-> "sending", left |-> people, attempt |-> 1]]
    /\ UNCHANGED <<delivering, got, blocked, stuck, raced, restarts>>

\* The insert failed, or was made and its answer lost.
FailToCreate(b, made) ==
    /\ call[b] = "creating"
    /\ call' = [call EXCEPT ![b] = "refused"]
    /\ delivering' = None
    /\ status' = [status EXCEPT ![b] = IF made THEN "SENDING" ELSE @]
    /\ stuck' = IF made THEN stuck \cup {b} ELSE stuck
    /\ UNCHANGED <<delivery, got, blocked, raced, restarts>>

(***************************************************************************)
(* The delivery                                                            *)
(***************************************************************************)
\* The people are reached one by one, in the order of the list.
Current(b, p) ==
    /\ delivery[b].pc = "sending" /\ delivery[b].left # {}
    /\ p = CHOOSE q \in delivery[b].left : TRUE

NextPerson(b, p) ==
    delivery' = [delivery EXCEPT ![b].left = @ \ {p}, ![b].attempt = 1]

EndOfList(b) ==
    /\ delivery[b].pc = "sending" /\ delivery[b].left = {}
    /\ delivery' = [delivery EXCEPT ![b].pc = "finishing"]
    /\ UNCHANGED <<status, call, delivering, got, blocked, stuck, raced, restarts>>

Send(b, p) ==
    /\ Current(b, p)
    /\ got' = [got EXCEPT ![b][p] = @ + 1]
    /\ NextPerson(b, p)
    /\ UNCHANGED <<status, call, delivering, blocked, stuck, raced, restarts>>

\* 429: wait and try the same person again, a few times.
Flood(b, p) ==
    /\ Current(b, p)
    /\ delivery[b].attempt < MaxAttempts
    /\ delivery' = [delivery EXCEPT ![b].attempt = @ + 1]
    /\ UNCHANGED <<status, call, delivering, got, blocked, stuck, raced, restarts>>

\* Any other error counts as failed; who blocked the bot is remembered.
Miss(b, p, forbidden) ==
    /\ Current(b, p)
    /\ blocked' = IF forbidden THEN blocked \cup {p} ELSE blocked
    /\ NextPerson(b, p)
    /\ UNCHANGED <<status, call, delivering, got, stuck, raced, restarts>>

\* The last write, then the field: undefined whoever it stands for by now.
Finish(b, last) ==
    /\ delivery[b].pc = "finishing"
    /\ status' = [status EXCEPT ![b] = IF last = "lost" THEN @ ELSE last]
    /\ stuck' = IF last = "lost" THEN stuck \cup {b} ELSE stuck
    /\ delivery' = [delivery EXCEPT ![b] = NotRunning]
    /\ delivering' = None
    /\ UNCHANGED <<call, got, blocked, raced, restarts>>

\* The process dies; the next one marks what was sending before it takes a call, or fails to.
Restart(marked) ==
    /\ restarts < MaxRestarts
    /\ restarts' = restarts + 1
    /\ call' = [b \in Broadcasts |-> IF call[b] \in {"counting", "counted", "creating"} THEN "refused" ELSE call[b]]
    /\ delivery' = [b \in Broadcasts |-> NotRunning]
    /\ delivering' = None
    /\ status' = IF marked THEN [b \in Broadcasts |-> IF b \in Sending THEN "INTERRUPTED" ELSE status[b]]
                 ELSE status
    /\ stuck' = IF marked THEN {} ELSE Sending
    /\ UNCHANGED <<got, blocked, raced>>

Next ==
    \/ \E b \in Broadcasts :
         \/ CheckField(b) \/ CountRows(b) \/ TakeField(b) \/ EndOfList(b)
         \/ \E gone \in SUBSET blocked : CreateRow(b, Recipients \ gone)
         \/ \E made \in BOOLEAN : FailToCreate(b, made)
         \/ \E p \in Recipients : Send(b, p) \/ Flood(b, p) \/ \E f \in BOOLEAN : Miss(b, p, f)
         \/ \E last \in {"COMPLETED", "INTERRUPTED", "lost"} : Finish(b, last)
    \/ \E marked \in BOOLEAN : Restart(marked)

Spec == Init /\ [][Next]_vars

\* One broadcast is delivered at a time, unless two calls passed the check together; a person
\* gets each broadcast once at most; and a row in SENDING, which refuses every other call,
\* has a delivery behind it or lost its last write.
OneAtATime ==
    /\ Cardinality(Running) <= 1 \/ raced
    /\ \A b \in Broadcasts, p \in Recipients : got[b][p] <= 1
    /\ Sending \subseteq Running \cup stuck

TypeOK ==
    /\ status \in [Broadcasts -> {"none", "SENDING", "COMPLETED", "INTERRUPTED"}]
    /\ call \in [Broadcasts -> {"idle", "counting", "counted", "creating", "answered", "refused"}]
    /\ delivering \in Broadcasts \cup {None}
    /\ delivery \in [Broadcasts -> [pc : {"none", "sending", "finishing"}, left : SUBSET Recipients,
                                    attempt : Nat]]
    /\ got \in [Broadcasts -> [Recipients -> Nat]]
    /\ blocked \subseteq Recipients /\ stuck \subseteq Broadcasts /\ raced \in BOOLEAN /\ restarts \in Nat

Started(b) == call[b] = "creating" \/ b \in Running

RunningAnswered == \A b \in Broadcasts : b \in Running => call[b] = "answered"

\* Who is still to be reached was not reached.
ReachedOnce ==
    \A b \in Broadcasts, p \in Recipients :
        /\ got[b][p] <= 1
        /\ p \in delivery[b].left \/ call[b] \notin {"answered", "refused"} => got[b][p] = 0

\* A broadcast that has started holds the field, and no other is past its check.
FieldHeld ==
    ~ raced => \A b \in Broadcasts : Started(b) =>
        /\ delivering = b
        /\ \A o \in Broadcasts \ {b} : call[o] \notin {"counting", "counted"} /\ ~ Started(o)

SendingBacked == Sending \subseteq Running \cup stuck

IInv == TypeOK /\ RunningAnswered /\ ReachedOnce /\ FieldHeld /\ SendingBacked
=============================================================================

---------------------------- MODULE ChannelPosts ----------------------------
(***************************************************************************)
(* Posts for the Telegram channel (channel.service.ts).  Three hands work  *)
(* on them at the same time: the scheduler's tick, the admin panel and the *)
(* media chat.  Each call is cut at its awaits: a row read, the row        *)
(* written, the answer of Telegram.  Posts for the site are not here.      *)
(***************************************************************************)
EXTENDS Integers, Sequences, FiniteSets

CONSTANTS
    Posts,
    Calls,          \* calls people make: a subset of AllCalls
    MaxEdits,       \* bound on edits
    MaxRefusals,    \* bound on sends Telegram refuses
    MaxLost,        \* bound on sends done whose answer is lost
    MaxCrashes,     \* bound on restarts
    None

AllCalls == {"compose", "now", "approve", "reject", "remove", "edit"}

ASSUME ChannelConstants ==
    /\ IsFiniteSet(Posts) /\ None \notin Posts \cup Nat
    /\ Calls \subseteq AllCalls
    /\ {MaxEdits, MaxRefusals, MaxLost, MaxCrashes} \subseteq Nat

Hands == {"tick", "panel", "chat"}
People == {"panel", "chat"}

VARIABLES
    row,            \* ChannelPost; text counts the edits, at is "later" or "due"
    channel,        \* the messages in the channel; a message id is an index
    hand,           \* the call each hand is in
    todo,           \* posts of the tick's query still to come
    removed,        \* history: posts taken off the queue by reject or remove
    revived,        \* history: writes of SCHEDULED over PUBLISHED
    spent           \* what the bounds count

historyVars == <<removed, revived>>
vars == <<row, channel, hand, todo, historyVars, spent>>

NoRow == [status |-> "none", at |-> "later", text |-> 0, msg |-> None]
Resting == [pc |-> "rest", post |-> None, read |-> NoRow, drops |-> FALSE, moves |-> FALSE,
            msg |-> None, text |-> 0]

Init ==
    /\ row = [p \in Posts |-> NoRow]
    /\ channel = <<>>
    /\ hand = [h \in Hands |-> Resting]
    /\ todo = {}
    /\ removed = {} /\ revived = 0
    /\ spent = [edits |-> 0, refusals |-> 0, lost |-> 0, crashes |-> 0]

Spend(kind, limit) == spent[kind] < limit /\ spent' = [spent EXCEPT ![kind] = @ + 1]
Exists(p) == row[p].status \notin {"none", "deleted"}
Go(h, next) == hand' = [hand EXCEPT ![h] = next]
Rest(h) == Go(h, Resting)
Publishing(h, p, drops) ==
    Go(h, [Resting EXCEPT !.pc = "claim", !.post = p, !.drops = drops])
Recall(p) ==
    revived' = IF row[p].status = "PUBLISHED" /\ row'[p].status = "SCHEDULED"
               THEN revived + 1 ELSE revived
CanCall(h, call) == h \in People /\ hand[h].pc = "rest" /\ call \in Calls

(***************************************************************************)
(* New posts                                                               *)
(***************************************************************************)
\* post and createFromChat: for later, for approval, or to go out at once.
Compose(h, p, status, at, now) ==
    /\ CanCall(h, "compose") /\ row[p].status = "none"
    /\ status = "PENDING" => h = "chat"
    /\ now => status = "SCHEDULED" /\ at = "due"
    /\ ~ now /\ status = "SCHEDULED" => at = "later"
    /\ row' = [row EXCEPT ![p] = [NoRow EXCEPT !.status = status, !.at = at]]
    /\ IF now THEN Publishing(h, p, TRUE) ELSE UNCHANGED hand
    /\ UNCHANGED <<channel, todo, historyVars, spent>>

TimePasses(p) ==
    /\ Exists(p) /\ row[p].at = "later"
    /\ row' = [row EXCEPT ![p].at = "due"]
    /\ UNCHANGED <<channel, hand, todo, historyVars, spent>>

(***************************************************************************)
(* publish                                                                 *)
(***************************************************************************)
PublishNow(h, p) ==
    /\ CanCall(h, "now") /\ row[p].status # "none"
    /\ Publishing(h, p, FALSE)
    /\ UNCHANGED <<row, channel, todo, historyVars, spent>>

\* publishDue reads its list once and publishes one post after another.
ReadDue ==
    /\ hand["tick"].pc = "rest" /\ todo = {}
    /\ todo' = {p \in Posts : row[p].status = "SCHEDULED" /\ row[p].at = "due"}
    /\ todo' # {}
    /\ UNCHANGED <<row, channel, hand, historyVars, spent>>

NextDue(p) ==
    /\ hand["tick"].pc = "rest" /\ p \in todo
    /\ todo' = todo \ {p}
    /\ Publishing("tick", p, FALSE)
    /\ UNCHANGED <<row, channel, historyVars, spent>>

\* A slip of Claim: the row is updated whatever its status is.
ClaimAny(h) ==
    LET p == hand[h].post IN
    /\ hand[h].pc = "claim"
    /\ IF Exists(p)
       THEN /\ row' = [row EXCEPT ![p].status = "PUBLISHED", ![p].at = "due"]
            /\ Go(h, [hand[h] EXCEPT !.pc = "load"])
       ELSE UNCHANGED row /\ Rest(h)
    /\ UNCHANGED <<channel, todo, historyVars, spent>>

\* Null when it is already out.
Claim(h) ==
    LET p == hand[h].post IN
    /\ hand[h].pc = "claim"
    /\ IF Exists(p) /\ row[p].status # "PUBLISHED"
       THEN /\ row' = [row EXCEPT ![p].status = "PUBLISHED", ![p].at = "due"]
            /\ Go(h, [hand[h] EXCEPT !.pc = "load"])
       ELSE UNCHANGED row /\ Rest(h)
    /\ UNCHANGED <<channel, todo, historyVars, spent>>

\* A row that is gone throws outside the try block.
LoadPost(h) ==
    LET p == hand[h].post IN
    /\ hand[h].pc = "load"
    /\ Go(h, IF Exists(p) THEN [hand[h] EXCEPT !.pc = "send", !.text = row[p].text]
             ELSE IF hand[h].drops THEN [hand[h] EXCEPT !.pc = "drop"] ELSE Resting)
    /\ UNCHANGED <<row, channel, todo, historyVars, spent>>

PostToChannel(h) ==
    /\ hand[h].pc = "send"
    /\ channel' = Append(channel, [post |-> hand[h].post, text |-> hand[h].text])
    /\ \/ /\ Go(h, [hand[h] EXCEPT !.pc = "store", !.msg = Len(channel) + 1])
          /\ UNCHANGED spent
       \/ /\ Spend("lost", MaxLost)
          /\ Go(h, [hand[h] EXCEPT !.pc = "fail"])
    /\ UNCHANGED <<row, todo, historyVars>>

TelegramRefuses(h) ==
    /\ hand[h].pc = "send" /\ Spend("refusals", MaxRefusals)
    /\ Go(h, [hand[h] EXCEPT !.pc = "fail"])
    /\ UNCHANGED <<row, channel, todo, historyVars>>

\* A row that is gone sends this to the catch block, and its update throws too.
StoreMessageId(h) ==
    LET p == hand[h].post IN
    /\ hand[h].pc = "store"
    /\ row' = IF Exists(p) THEN [row EXCEPT ![p].msg = hand[h].msg] ELSE row
    /\ IF ~ Exists(p) /\ hand[h].drops THEN Go(h, [hand[h] EXCEPT !.pc = "drop"]) ELSE Rest(h)
    /\ UNCHANGED <<channel, todo, historyVars, spent>>

\* A slip of Fail: the error is reported and the row left as it is.
FailSilently(h) ==
    /\ hand[h].pc = "fail"
    /\ IF hand[h].drops THEN Go(h, [hand[h] EXCEPT !.pc = "drop"]) ELSE Rest(h)
    /\ UNCHANGED <<row, channel, todo, historyVars, spent>>

Fail(h) ==
    LET p == hand[h].post IN
    /\ hand[h].pc = "fail"
    /\ row' = IF Exists(p) THEN [row EXCEPT ![p].status = "FAILED"] ELSE row
    /\ IF hand[h].drops THEN Go(h, [hand[h] EXCEPT !.pc = "drop"]) ELSE Rest(h)
    /\ UNCHANGED <<channel, todo, historyVars, spent>>

\* publishOrDrop leaves nothing in the queue.
Drop(h) ==
    /\ hand[h].pc = "drop"
    /\ row' = [row EXCEPT ![hand[h].post].status = "deleted"]
    /\ Rest(h)
    /\ UNCHANGED <<channel, todo, historyVars, spent>>

Publish(h) ==
    \/ Claim(h) \/ LoadPost(h) \/ PostToChannel(h) \/ TelegramRefuses(h)
    \/ StoreMessageId(h) \/ Fail(h) \/ Drop(h)

(***************************************************************************)
(* The queue                                                               *)
(***************************************************************************)
\* approve reads; a post whose time has come is published as by publishNow.
ReadToApprove(p) ==
    /\ CanCall("chat", "approve") /\ row[p].status = "PENDING"
    /\ IF row[p].at = "due" THEN Publishing("chat", p, FALSE)
       ELSE Go("chat", [Resting EXCEPT !.pc = "schedule", !.post = p])
    /\ UNCHANGED <<row, channel, todo, historyVars, spent>>

Schedule(h) ==
    LET p == hand[h].post IN
    /\ hand[h].pc = "schedule"
    /\ row' = IF Exists(p) THEN [row EXCEPT ![p].status = "SCHEDULED"] ELSE row
    /\ Recall(p)
    /\ Rest(h)
    /\ UNCHANGED <<channel, todo, removed, spent>>

Reject(p) ==
    /\ CanCall("chat", "reject") /\ row[p].status = "PENDING"
    /\ row' = [row EXCEPT ![p].status = "deleted"]
    /\ removed' = removed \cup {p}
    /\ UNCHANGED <<channel, hand, todo, revived, spent>>

\* A slip of Remove: the row is deleted by its id.
RemoveAny(h, p) ==
    /\ CanCall(h, "remove") /\ Exists(p)
    /\ row' = [row EXCEPT ![p].status = "deleted"]
    /\ removed' = removed \cup {p}
    /\ UNCHANGED <<channel, hand, todo, revived, spent>>

Remove(h, p) ==
    /\ CanCall(h, "remove") /\ Exists(p) /\ row[p].status # "PUBLISHED"
    /\ row' = [row EXCEPT ![p].status = "deleted"]
    /\ removed' = removed \cup {p}
    /\ UNCHANGED <<channel, hand, todo, revived, spent>>

\* change and updatePost read the row; a post that is out keeps its time and needs its message.
ReadToEdit(h, p, moves) ==
    /\ CanCall(h, "edit") /\ Exists(p) /\ Spend("edits", MaxEdits)
    /\ row[p].status = "PUBLISHED" => ~ moves /\ row[p].msg # None
    /\ Go(h, [Resting EXCEPT !.pc = IF row[p].status = "PUBLISHED" THEN "editChannel" ELSE "save",
                             !.post = p, !.read = row[p], !.moves = moves,
                             !.text = spent.edits + 1])
    /\ UNCHANGED <<row, channel, todo, historyVars>>

\* Telegram first.
EditInChannel(h) ==
    /\ hand[h].pc = "editChannel"
    /\ channel' = [channel EXCEPT ![hand[h].read.msg].text = hand[h].text]
    /\ Go(h, [hand[h] EXCEPT !.pc = "save"])
    /\ UNCHANGED <<row, todo, historyVars, spent>>

RefuseEdit(h) ==
    /\ hand[h].pc = "editChannel" /\ Spend("refusals", MaxRefusals)
    /\ Rest(h)
    /\ UNCHANGED <<row, channel, todo, historyVars>>

\* A new time revives a post that was FAILED when it was read.
SaveEdit(h) ==
    LET p == hand[h].post
        moved == [row[p] EXCEPT !.text = hand[h].text, !.at = "later"]
    IN
    /\ hand[h].pc = "save"
    /\ row' = IF ~ Exists(p) THEN row
              ELSE [row EXCEPT ![p] =
                      IF ~ hand[h].moves THEN [@ EXCEPT !.text = hand[h].text]
                      ELSE IF hand[h].read.status = "FAILED"
                           THEN [moved EXCEPT !.status = "SCHEDULED"]
                           ELSE moved]
    /\ Recall(p)
    /\ Rest(h)
    /\ UNCHANGED <<channel, todo, removed, spent>>

Crash ==
    /\ Spend("crashes", MaxCrashes)
    /\ hand' = [h \in Hands |-> Resting] /\ todo' = {}
    /\ UNCHANGED <<row, channel, historyVars>>

Next ==
    \/ \E h \in People, p \in Posts :
          \/ \E status \in {"PENDING", "SCHEDULED"}, at \in {"later", "due"}, now \in BOOLEAN :
                Compose(h, p, status, at, now)
          \/ PublishNow(h, p) \/ Remove(h, p)
          \/ \E moves \in BOOLEAN : ReadToEdit(h, p, moves)
    \/ \E p \in Posts : TimePasses(p) \/ NextDue(p) \/ ReadToApprove(p) \/ Reject(p)
    \/ ReadDue
    \/ \E h \in Hands : Publish(h) \/ Schedule(h) \/ EditInChannel(h) \/ RefuseEdit(h) \/ SaveEdit(h)
    \/ Crash

Spec == Init /\ [][Next]_vars

(***************************************************************************)
(* Properties                                                              *)
(***************************************************************************)
Statuses == {"none", "PENDING", "SCHEDULED", "PUBLISHED", "FAILED", "deleted"}
Rows == [status : Statuses, at : {"later", "due"}, text : 0 .. MaxEdits, msg : Nat \cup {None}]
HandStates == [pc : {"rest", "claim", "load", "send", "store", "fail", "drop", "schedule", "editChannel",
                     "save"},
               post : Posts \cup {None}, read : Rows, drops : BOOLEAN, moves : BOOLEAN,
               msg : Nat \cup {None}, text : 0 .. MaxEdits]
Messages == [post : Posts, text : 0 .. MaxEdits]
Counters == [edits : 0 .. MaxEdits, refusals : 0 .. MaxRefusals, lost : 0 .. MaxLost,
             crashes : 0 .. MaxCrashes]

TypeOK ==
    /\ row \in [Posts -> Rows]
    /\ channel \in Seq(Messages)
    /\ hand \in [Hands -> HandStates]
    /\ \A p \in Posts : row[p].msg # None => row[p].msg \in 1 .. Len(channel)
    /\ \A h \in Hands :
          /\ hand[h].pc # "rest" => hand[h].post \in Posts
          /\ hand[h].pc = "editChannel" => hand[h].read.msg \in 1 .. Len(channel)
          /\ hand[h].pc = "store" => hand[h].msg \in 1 .. Len(channel)
    /\ todo \subseteq Posts /\ removed \subseteq Posts /\ revived \in Nat
    /\ spent \in Counters

Copies(p) == Cardinality({i \in DOMAIN channel : channel[i].post = p})

\* A second copy has a cause: the answer of a send that was lost, or an approval or a new time
\* written over a post that was published since it was read.  The tick, a composer and the
\* queue buttons of two people, with refused sends and restarts, never make one.
RepeatsHaveCause == \A p \in Posts : Copies(p) <= 1 + spent.lost + revived

\* A row says PUBLISHED before the post is sent: without a restart, one that has no message is
\* being sent by somebody, and a failed send always takes the word back.
ClaimedIsSent ==
    spent.crashes = 0 =>
        \A p \in Posts : row[p].status = "PUBLISHED" /\ row[p].msg = None =>
            \E h \in Hands : hand[h].post = p /\ hand[h].pc \in {"load", "send", "store", "fail"}

\* "Takes a post off the queue; never one that is already out": what was rejected or removed is
\* not in the channel and never gets there, also when a tick had it on its list.
RemovedStaysOut == spent.lost = 0 /\ revived = 0 => \A p \in removed : Copies(p) = 0

\* The hands that have claimed a post and neither sent it nor given it back.
Busy(p) == {h \in Hands : hand[h].post = p /\ hand[h].pc \in {"load", "send", "fail"}}

\* A row out or gone has been claimed once more than it was given back; no other has.
Claimed(p) == IF row[p].status \in {"PUBLISHED", "deleted"} THEN 1 ELSE 0

\* Every copy, sent or coming, goes back to a claim.
CopiesClaimed ==
    \A p \in Posts : Copies(p) + Cardinality(Busy(p)) <= Claimed(p) + spent.lost + revived

\* What was taken off the queue is gone, and nobody who claimed it before is still to send it.
RemovedApart ==
    /\ \A p \in removed : row[p].status = "deleted"
    /\ spent.lost = 0 /\ revived = 0 => \A p \in removed : Copies(p) = 0 /\ Busy(p) = {}

\* What a row says, the channel shows and the hands know, at each await of their calls.
IInv == TypeOK /\ ClaimedIsSent /\ CopiesClaimed /\ RemovedApart

\* "Sends a post now. Null when it is already out (e.g. the scheduler got there first)": a post
\* is in the channel once, and once more only for a send whose answer was lost.
OutOnce == \A p \in Posts : Copies(p) <= 1 + spent.lost
=============================================================================

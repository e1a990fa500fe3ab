----------------------------- MODULE SiteLogin -----------------------------
(***************************************************************************)
(* Signing in to the merch site through the bot (startLink, pollLink,      *)
(* endLink of merch-catalog.service.ts, onLinkButton of                    *)
(* merch-chat.service.ts): a browser opens a MerchLink, a person confirms  *)
(* it in the bot, and the browser's next poll turns the row into its       *)
(* session.  A poll reads the row, then writes it on what it read.         *)
(***************************************************************************)
EXTENDS Naturals, FiniteSets

CONSTANTS
    Links,          \* MerchLink rows, by the startLink that made them
    Polls,          \* pollLink calls, each from a page of some browser
    People,
    None

VARIABLES
    link,           \* each row: what it is, whose, which poll's session, past its expiresAt
    poll,           \* each poll: where it is and the link it asks about
    revoked         \* history: links confirmed by a person who then pressed "not me"

vars == <<link, poll, revoked>>

NoLink == [at |-> "none", who |-> None, session |-> None, expired |-> FALSE]
Gone == [NoLink EXCEPT !.at = "gone"]

Init ==
    /\ link = [l \in Links |-> NoLink]
    /\ poll = [p \in Polls |-> [pc |-> "idle", link |-> None]]
    /\ revoked = {}

There(l) == link[l].at \in {"pending", "session"}

\* Deletes what has expired, pending or session, on the way.
StartLink(l) ==
    /\ link[l].at = "none"
    /\ link' = [k \in Links |-> CASE k = l -> [NoLink EXCEPT !.at = "pending"]
                                  [] k # l /\ link[k].expired -> Gone
                                  [] OTHER -> link[k]]
    /\ UNCHANGED <<poll, revoked>>

\* The link's fifteen minutes, or the session's half a year.
Expire(l) ==
    /\ There(l) /\ ~ link[l].expired
    /\ link' = [link EXCEPT ![l].expired = TRUE]
    /\ UNCHANGED <<poll, revoked>>

\* One write by the token of a link nobody confirmed.
Confirm(l, u) ==
    /\ link[l].at = "pending" /\ link[l].who = None /\ ~ link[l].expired
    /\ link' = [link EXCEPT ![l].who = u]
    /\ UNCHANGED <<poll, revoked>>

\* link:off under the confirmation: every link and session of the person goes.
NotMe(u) ==
    /\ \E l \in Links : link[l].who = u
    /\ link' = [l \in Links |-> IF link[l].who = u THEN Gone ELSE link[l]]
    /\ revoked' = revoked \cup {l \in Links : link[l].who = u}
    /\ UNCHANGED poll

\* A poll that finds the link confirmed; any other answers without a write.
ReadLink(p, l) ==
    /\ poll[p].pc = "idle"
    /\ link[l].at = "pending" /\ link[l].who # None /\ ~ link[l].expired
    /\ poll' = [poll EXCEPT ![p] = [pc |-> "read", link |-> l]]
    /\ UNCHANGED <<link, revoked>>

\* A slip of Issue: the row is written by its id alone.
IssueAgain(p) ==
    /\ poll[p].pc = "read"
    /\ link' = IF There(poll[p].link)
               THEN [link EXCEPT ![poll[p].link].at = "session", ![poll[p].link].session = p,
                                 ![poll[p].link].expired = FALSE]
               ELSE link
    /\ poll' = [poll EXCEPT ![p].pc = IF There(poll[p].link) THEN "issued" ELSE "refused"]
    /\ UNCHANGED revoked

\* Only a row with no session yet becomes one; its term starts anew.
Issue(p) ==
    LET l == poll[p].link IN
    /\ poll[p].pc = "read"
    /\ IF link[l].at = "pending"
       THEN /\ link' = [link EXCEPT ![l].at = "session", ![l].session = p, ![l].expired = FALSE]
            /\ poll' = [poll EXCEPT ![p].pc = "issued"]
       ELSE /\ poll' = [poll EXCEPT ![p].pc = "refused"]
            /\ UNCHANGED link
    /\ UNCHANGED revoked

\* The response is the only copy of the session.
SignIn(p) ==
    /\ poll[p].pc = "issued"
    /\ poll' = [poll EXCEPT ![p].pc = "signedIn"]
    /\ UNCHANGED <<link, revoked>>

LoseAnswer(p) ==
    /\ poll[p].pc = "issued"
    /\ poll' = [poll EXCEPT ![p].pc = "unheard"]
    /\ UNCHANGED <<link, revoked>>

\* endLink deletes by the session's hash.
SignOut(p) ==
    /\ poll[p].pc = "signedIn"
    /\ poll' = [poll EXCEPT ![p].pc = "signedOut"]
    /\ link' = [l \in Links |-> IF link[l].session = p THEN Gone ELSE link[l]]
    /\ UNCHANGED revoked

Next ==
    \/ \E l \in Links :
         \/ StartLink(l) \/ Expire(l)
         \/ \E u \in People : Confirm(l, u)
         \/ \E p \in Polls : ReadLink(p, l)
    \/ \E u \in People : NotMe(u)
    \/ \E p \in Polls : Issue(p) \/ SignIn(p) \/ LoseAnswer(p) \/ SignOut(p)

Spec == Init /\ [][Next]_vars

\* viewer(): the session of a poll names its person.
Works(p) == \E l \in Links : link[l].at = "session" /\ link[l].session = p /\ ~ link[l].expired

Issued(l) == {p \in Polls : poll[p].link = l /\ poll[p].pc \notin {"read", "refused"}}

\* However many tabs poll one link, one of them is issued its session, and that one works
\* until it expires or its owner leaves; no session works once the person who confirmed its
\* link said it was not them, nor after its browser signed out.
OneSession ==
    /\ \A l \in Links : Cardinality(Issued(l)) <= 1
    /\ \A p \in Polls : Works(p) => /\ poll[p].link \notin revoked
                                    /\ poll[p].pc \in {"issued", "signedIn", "unheard"}
    /\ \A l \in Links : link[l].at = "session" => Issued(l) = {link[l].session}

TypeOK ==
    /\ link \in [Links -> [at : {"none", "pending", "session", "gone"}, who : People \cup {None},
                           session : Polls \cup {None}, expired : BOOLEAN]]
    /\ poll \in [Polls -> [pc : {"idle", "read", "refused", "issued", "signedIn", "unheard", "signedOut"},
                           link : Links \cup {None}]]
    /\ revoked \subseteq Links

IdlePolls == \A p \in Polls : poll[p].pc = "idle" => poll[p].link = None

\* A link's session is that of the one poll it was issued to, from its issue to its end.
IssuedToOne ==
    \A l \in Links :
        /\ \A p, q \in Issued(l) : p = q
        /\ link[l].at \in {"none", "pending"} => Issued(l) = {}
        /\ link[l].at = "session" => /\ link[l].session \in Issued(l)
                                     /\ poll[link[l].session].pc # "signedOut"
        /\ link[l].at # "session" => link[l].session = None

\* What a person disowned never comes back.
RevokedGone == \A l \in revoked : link[l].at = "gone"

IInv == TypeOK /\ IdlePolls /\ IssuedToOne /\ RevokedGone
=============================================================================

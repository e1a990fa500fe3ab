------------------------------ MODULE MCVoting ------------------------------
(* One nomination.  ann sends two entries from two tabs; a candidate of the   *)
(* organizers stands beside hers; vic votes from two tabs and wes once; the   *)
(* partner and an organizer both enter the partner's pick.                    *)
EXTENDS Voting

CONSTANTS ann, vic, wes, s1, s2, c1, v1, v2, w1, r1, r2, byLink, byHand

MCAuthorOf == [s \in Submits |-> ann]
MCVoterOf == [b \in Ballots |-> IF b = w1 THEN wes ELSE vic]
MCChoiceOf == [b \in Ballots |-> IF b = v2 THEN c1 ELSE s1]

\* Init with the entries of shown approved already, the calls outside of active over and the
\* award of the partner still to come or deleted.
Scenario(shown, active, partner) ==
    LET At(call) == IF call \in active THEN "idle" ELSE "done" IN
    /\ nomination = [NewNomination EXCEPT !.status = "ACTIVE", !.submissionsOpen = (shown = {})]
    /\ state = [e \in Entries |-> IF e \in shown THEN "APPROVED" ELSE "none"]
    /\ votes = {}
    /\ award = [row |-> partner, partnerPicks |-> TRUE, pick |-> None]
    /\ submit = [s \in Submits |-> [pc |-> At(s), entry |-> None]]
    /\ ballot = [b \in Ballots |-> [pc |-> At(b), may |-> FALSE, row |-> None]]
    /\ review = [r \in Reviews |-> [pc |-> At(r), entry |-> None]]
    /\ pick = [k \in Picks |-> [pc |-> At(k), entry |-> None]]
    /\ approved = shown /\ changeable = FALSE /\ edits = 0

Entering == Scenario({}, Submits \cup Reviews \cup {w1}, "deleted")
TheVote == Scenario({s1, c1}, Ballots \cup {s2, r1}, "deleted")
ThePick == Scenario({s1, c1}, Picks \cup {r1, w1}, "none")

MCInit == Entering \/ TheVote \/ ThePick
MCSpec == MCInit /\ [][Next]_vars
=============================================================================

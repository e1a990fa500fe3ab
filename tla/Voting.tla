------------------------------- MODULE Voting -------------------------------
(***************************************************************************)
(* One nomination of an event (voting.service.ts): people send entries     *)
(* while it takes them, organizers review them, the audience votes, and a  *)
(* partner picks a winner of his own.  Each handler reads the nomination   *)
(* first and writes by a row's id later, so stages, reviews and deletions  *)
(* change between the two; only the database's unique indexes and foreign  *)
(* keys hold at the write.                                                 *)
(*                                                                         *)
(* An entry is named by the submitCandidate call that inserted it, a vote  *)
(* by the castVote call.  What an entry says and the messages to authors    *)
(* are left out.                                                           *)
(***************************************************************************)
EXTENDS Naturals, FiniteSets

CONSTANTS
    Submits,        \* submitCandidate calls
    AuthorOf,       \* [Submits -> people]
    Added,          \* candidates the organizers add themselves
    Ballots,        \* castVote calls
    VoterOf,        \* [Ballots -> people]
    ChoiceOf,       \* [Ballots -> Entries]
    Reviews,        \* approveCandidate and rejectCandidate calls
    Picks,          \* setPartnerPick and updatePartnerAward calls that name a winner
    ByPartner,      \* the setPartnerPick calls among them
    MaxEdits,       \* bound on updateVoting
    None

Entries == Submits \cup Added

ASSUME VotingConstants ==
    /\ None \notin Entries /\ Submits \cap Added = {}
    /\ ChoiceOf \in [Ballots -> Entries]
    /\ ByPartner \subseteq Picks
    /\ MaxEdits \in Nat

VotingStatus == {"DRAFT", "ACTIVE", "CLOSED"}
CandidateStatus == {"PENDING", "APPROVED", "REJECTED"}

VARIABLES
    nomination,     \* the EventVoting row
    state,          \* VotingCandidate.status, "none" before the row, "deleted" after
    votes,          \* Vote rows
    award,          \* the partner's VotingPartnerAward
    submit,         \* the handler of each submitCandidate
    ballot,         \* of each castVote
    review,         \* of each review
    pick,           \* of each pick
    approved,       \* history: entries that were approved at some time
    changeable,     \* history: the nomination allowed changing votes at some time
    edits           \* updateVoting calls so far

entryVars == <<state, approved>>
nominationVars == <<nomination, changeable, edits>>
callVars == <<submit, ballot, review, pick>>
vars == <<nominationVars, entryVars, votes, award, callVars>>

Present(e) == state[e] \in CandidateStatus
Exists == nomination.status # "deleted"

\* stageOf: entries come in first, then the vote runs, a closed nomination takes neither.
Stage ==
    IF nomination.status = "ACTIVE"
    THEN IF nomination.allowSubmissions /\ nomination.submissionsOpen
         THEN "submissions" ELSE "voting"
    ELSE nomination.status

NewNomination == [status |-> "DRAFT", allowSubmissions |-> TRUE, submissionsOpen |-> TRUE,
                  allowChangeVote |-> FALSE]

Init ==
    /\ nomination = NewNomination
    /\ state = [e \in Entries |-> "none"]
    /\ votes = {}
    /\ award = [row |-> "none", partnerPicks |-> TRUE, pick |-> None]
    /\ submit = [s \in Submits |-> [pc |-> "idle", entry |-> None]]
    /\ ballot = [b \in Ballots |-> [pc |-> "idle", may |-> FALSE, row |-> None]]
    /\ review = [r \in Reviews |-> [pc |-> "idle", entry |-> None]]
    /\ pick = [k \in Picks |-> [pc |-> "idle", entry |-> None]]
    /\ approved = {} /\ changeable = FALSE /\ edits = 0

(***************************************************************************)
(* The organizers                                                          *)
(***************************************************************************)
\* updateVoting: any of the fields; switching submissions off shuts them.
UpdateVoting ==
    /\ Exists /\ edits < MaxEdits
    /\ edits' = edits + 1
    /\ \E new \in [status : VotingStatus, allowSubmissions : BOOLEAN, submissionsOpen : BOOLEAN,
                   allowChangeVote : BOOLEAN] :
         /\ nomination.allowSubmissions /\ ~ new.allowSubmissions => ~ new.submissionsOpen
         /\ nomination' = new
         /\ changeable' = (changeable \/ new.allowChangeVote)
    /\ UNCHANGED <<entryVars, votes, award, callVars>>

\* addCandidate: approved from the start.
AddCandidate(c) ==
    /\ Exists /\ state[c] = "none"
    /\ state' = [state EXCEPT ![c] = "APPROVED"]
    /\ approved' = approved \cup {c}
    /\ UNCHANGED <<nominationVars, votes, award, callVars>>

\* Votes go with their candidate, a pick of it becomes empty.
DropEntries(gone) ==
    /\ state' = [e \in Entries |-> IF e \in gone THEN "deleted" ELSE state[e]]
    /\ votes' = {v \in votes : v.choice \notin gone}
    /\ award' = IF award.pick \in gone THEN [award EXCEPT !.pick = None] ELSE award

DeleteCandidate(e) ==
    /\ Present(e)
    /\ DropEntries({e})
    /\ UNCHANGED <<approved, nominationVars, callVars>>

DeleteVoting ==
    /\ Exists
    /\ nomination' = [nomination EXCEPT !.status = "deleted"]
    /\ state' = [e \in Entries |-> "deleted"]
    /\ votes' = {}
    /\ award' = [award EXCEPT !.row = "deleted", !.pick = None]
    /\ UNCHANGED <<approved, changeable, edits, callVars>>

(***************************************************************************)
(* submitCandidate                                                         *)
(***************************************************************************)
\* The entry an author has, whoever of his calls inserted it.
EntryOf(s) == {e \in Submits : Present(e) /\ AuthorOf[e] = AuthorOf[s]}

othersThanSubmit == <<nominationVars, votes, award, ballot, review, pick>>

OpenSubmission(s) ==
    /\ submit[s].pc = "idle" /\ Exists
    /\ submit' = [submit EXCEPT ![s].pc = IF Stage = "submissions" THEN "find" ELSE "refused"]
    /\ UNCHANGED <<entryVars, othersThanSubmit>>

\* Not registered, or a photo from elsewhere.
RefuseAuthor(s) ==
    /\ submit[s].pc = "find"
    /\ submit' = [submit EXCEPT ![s].pc = "refused"]
    /\ UNCHANGED <<entryVars, othersThanSubmit>>

\* "Already approved, cannot be changed"; otherwise the entry is replaced or inserted.
FindEntry(s) ==
    /\ submit[s].pc = "find"
    /\ submit' = IF EntryOf(s) = {} THEN [submit EXCEPT ![s].pc = "create"]
                 ELSE LET e == CHOOSE x \in EntryOf(s) : TRUE IN
                      [submit EXCEPT ![s] =
                          [pc |-> IF state[e] = "APPROVED" THEN "refused" ELSE "update",
                           entry |-> e]]
    /\ UNCHANGED <<entryVars, othersThanSubmit>>

\* By id: an approval since the read is undone, a deletion since the read is an error.
UpdateEntry(s) ==
    LET e == submit[s].entry IN
    /\ submit[s].pc = "update"
    /\ IF Present(e)
       THEN /\ state' = [state EXCEPT ![e] = "PENDING"]
            /\ submit' = [submit EXCEPT ![s].pc = "done"]
       ELSE submit' = [submit EXCEPT ![s].pc = "failed"] /\ UNCHANGED state
    /\ UNCHANGED <<approved, othersThanSubmit>>

\* unique(votingId, submittedByTelegramId), and the nomination has to be there.
CreateEntry(s) ==
    /\ submit[s].pc = "create"
    /\ IF Exists /\ EntryOf(s) = {}
       THEN /\ state' = [state EXCEPT ![s] = "PENDING"]
            /\ submit' = [submit EXCEPT ![s].pc = "done"]
       ELSE submit' = [submit EXCEPT ![s].pc = "failed"] /\ UNCHANGED state
    /\ UNCHANGED <<approved, othersThanSubmit>>

SubmitCandidate(s) ==
    OpenSubmission(s) \/ RefuseAuthor(s) \/ FindEntry(s) \/ UpdateEntry(s) \/ CreateEntry(s)

(***************************************************************************)
(* approveCandidate, rejectCandidate                                       *)
(***************************************************************************)
ReadToReview(r, e) ==
    /\ review[r].pc = "idle" /\ Present(e)
    /\ review' = [review EXCEPT ![r] = [pc |-> "write", entry |-> e]]
    /\ UNCHANGED <<nominationVars, entryVars, votes, award, submit, ballot, pick>>

\* By id, whatever the entry became since.
WriteReview(r, verdict) ==
    LET e == review[r].entry IN
    /\ review[r].pc = "write"
    /\ review' = [review EXCEPT ![r].pc = IF Present(e) THEN "done" ELSE "failed"]
    /\ IF Present(e)
       THEN /\ state' = [state EXCEPT ![e] = verdict]
            /\ approved' = IF verdict = "APPROVED" THEN approved \cup {e} ELSE approved
       ELSE UNCHANGED <<state, approved>>
    /\ UNCHANGED <<nominationVars, votes, award, submit, ballot, pick>>

(***************************************************************************)
(* castVote                                                                *)
(***************************************************************************)
VoteOf(b) == {v \in votes : VoterOf[v.by] = VoterOf[b]}

othersThanBallot == <<nominationVars, entryVars, award, submit, review, pick>>

OpenBallot(b) ==
    /\ ballot[b].pc = "idle" /\ Exists
    /\ ballot' = [ballot EXCEPT ![b].pc = IF Stage = "voting" THEN "candidate" ELSE "refused",
                                ![b].may = nomination.allowChangeVote]
    /\ UNCHANGED <<votes, othersThanBallot>>

\* A slip of FindCandidate: any entry of the nomination will do.
FindAnyEntry(b) ==
    /\ ballot[b].pc = "candidate"
    /\ ballot' = [ballot EXCEPT ![b].pc = IF Present(ChoiceOf[b]) THEN "vote" ELSE "refused"]
    /\ UNCHANGED <<votes, othersThanBallot>>

FindCandidate(b) ==
    /\ ballot[b].pc = "candidate"
    /\ ballot' = [ballot EXCEPT ![b].pc =
                     IF state[ChoiceOf[b]] = "APPROVED" THEN "vote" ELSE "refused"]
    /\ UNCHANGED <<votes, othersThanBallot>>

\* A slip of FindVote: a second vote replaces the first whatever the nomination says.
FindVoteFreely(b) ==
    /\ ballot[b].pc = "vote"
    /\ ballot' = IF VoteOf(b) = {} THEN [ballot EXCEPT ![b].pc = "ticket"]
                 ELSE [ballot EXCEPT ![b].pc = "change",
                                     ![b].row = (CHOOSE v \in VoteOf(b) : TRUE).by]
    /\ UNCHANGED <<votes, othersThanBallot>>

\* A second vote is refused, or replaces the first where the nomination said so.
FindVote(b) ==
    /\ ballot[b].pc = "vote"
    /\ ballot' = IF VoteOf(b) = {} THEN [ballot EXCEPT ![b].pc = "ticket"]
                 ELSE IF ~ ballot[b].may THEN [ballot EXCEPT ![b].pc = "refused"]
                 ELSE [ballot EXCEPT ![b].pc = "change",
                                     ![b].row = (CHOOSE v \in VoteOf(b) : TRUE).by]
    /\ UNCHANGED <<votes, othersThanBallot>>

\* Not registered for the event, or not there.
RefuseVoter(b) ==
    /\ ballot[b].pc = "ticket"
    /\ ballot' = [ballot EXCEPT ![b].pc = "refused"]
    /\ UNCHANGED <<votes, othersThanBallot>>

\* A slip of CreateVote: no unique index under the read of FindVote.
CreateSecondVote(b) ==
    /\ ballot[b].pc = "ticket"
    /\ IF Present(ChoiceOf[b])
       THEN /\ votes' = votes \cup {[by |-> b, choice |-> ChoiceOf[b]]}
            /\ ballot' = [ballot EXCEPT ![b].pc = "done"]
       ELSE ballot' = [ballot EXCEPT ![b].pc = "failed"] /\ UNCHANGED votes
    /\ UNCHANGED othersThanBallot

\* unique(votingId, telegramId), and the candidate has to be there.
CreateVote(b) ==
    /\ ballot[b].pc = "ticket"
    /\ IF VoteOf(b) = {} /\ Present(ChoiceOf[b])
       THEN /\ votes' = votes \cup {[by |-> b, choice |-> ChoiceOf[b]]}
            /\ ballot' = [ballot EXCEPT ![b].pc = "done"]
       ELSE ballot' = [ballot EXCEPT ![b].pc = "failed"] /\ UNCHANGED votes
    /\ UNCHANGED othersThanBallot

\* By id: the row went with its candidate, or the new candidate went.
ChangeVote(b) ==
    LET row == {v \in votes : v.by = ballot[b].row} IN
    /\ ballot[b].pc = "change"
    /\ IF row # {} /\ Present(ChoiceOf[b])
       THEN /\ votes' = (votes \ row) \cup {[by |-> ballot[b].row, choice |-> ChoiceOf[b]]}
            /\ ballot' = [ballot EXCEPT ![b].pc = "done"]
       ELSE ballot' = [ballot EXCEPT ![b].pc = "failed"] /\ UNCHANGED votes
    /\ UNCHANGED othersThanBallot

CastVote(b) ==
    \/ OpenBallot(b) \/ FindCandidate(b) \/ FindVote(b) \/ RefuseVoter(b)
    \/ CreateVote(b) \/ ChangeVote(b)

(***************************************************************************)
(* The partner's award                                                     *)
(***************************************************************************)
othersThanAward == <<nominationVars, entryVars, votes, submit, ballot, review>>

CreatePartnerAward ==
    /\ Exists /\ award.row = "none"
    /\ \E link \in BOOLEAN :
         award' = [row |-> "made", partnerPicks |-> link, pick |-> None]
    /\ UNCHANGED <<pick, othersThanAward>>

\* The link of the partner stops working or works again.
SetPartnerPicks ==
    /\ award.row = "made"
    /\ award' = [award EXCEPT !.partnerPicks = ~ @]
    /\ UNCHANGED <<pick, othersThanAward>>

DeletePartnerAward ==
    /\ award.row = "made"
    /\ award' = [award EXCEPT !.row = "deleted", !.pick = None]
    /\ UNCHANGED <<pick, othersThanAward>>

\* The partner by his link before the nomination closes; an organizer for him, or to empty it.
ReadToPick(k, e) ==
    /\ pick[k].pc = "idle"
    /\ award.row = "made"
    /\ IF e = None THEN k \notin ByPartner ELSE state[e] = "APPROVED"
    /\ k \in ByPartner => award.partnerPicks /\ nomination.status # "CLOSED"
    /\ pick' = [pick EXCEPT ![k] = [pc |-> "write", entry |-> e]]
    /\ UNCHANGED <<award, othersThanAward>>

\* A slip of WritePick: the foreign key of the candidate is not there.
WritePickAnyway(k) ==
    LET e == pick[k].entry IN
    /\ pick[k].pc = "write"
    /\ IF award.row = "made"
       THEN award' = [award EXCEPT !.pick = e] /\ pick' = [pick EXCEPT ![k].pc = "done"]
       ELSE pick' = [pick EXCEPT ![k].pc = "failed"] /\ UNCHANGED award
    /\ UNCHANGED othersThanAward

\* By id, whatever the nomination became since.
WritePick(k) ==
    LET e == pick[k].entry IN
    /\ pick[k].pc = "write"
    /\ IF award.row = "made" /\ (e # None => Present(e))
       THEN award' = [award EXCEPT !.pick = e] /\ pick' = [pick EXCEPT ![k].pc = "done"]
       ELSE pick' = [pick EXCEPT ![k].pc = "failed"] /\ UNCHANGED award
    /\ UNCHANGED othersThanAward

Next ==
    \/ UpdateVoting \/ DeleteVoting
    \/ \E c \in Added : AddCandidate(c)
    \/ \E e \in Entries : DeleteCandidate(e)
    \/ \E s \in Submits : SubmitCandidate(s)
    \/ \E r \in Reviews, e \in Entries : ReadToReview(r, e)
    \/ \E r \in Reviews, verdict \in {"APPROVED", "REJECTED"} : WriteReview(r, verdict)
    \/ \E b \in Ballots : CastVote(b)
    \/ CreatePartnerAward \/ SetPartnerPicks \/ DeletePartnerAward
    \/ \E k \in Picks, e \in Entries \cup {None} : ReadToPick(k, e)
    \/ \E k \in Picks : WritePick(k)

Spec == Init /\ [][Next]_vars

(***************************************************************************)
(* Correctness                                                             *)
(***************************************************************************)
SubmitPc == {"idle", "find", "update", "create", "done", "refused", "failed"}
BallotPc == {"idle", "candidate", "vote", "ticket", "change", "done", "refused", "failed"}
CallPc == {"idle", "write", "done", "failed"}

TypeOK ==
    /\ nomination \in [status : VotingStatus \cup {"deleted"}, allowSubmissions : BOOLEAN,
                       submissionsOpen : BOOLEAN, allowChangeVote : BOOLEAN]
    /\ state \in [Entries -> CandidateStatus \cup {"none", "deleted"}]
    /\ votes \subseteq [by : Ballots, choice : Entries]
    /\ award \in [row : {"none", "made", "deleted"}, partnerPicks : BOOLEAN,
                  pick : Entries \cup {None}]
    /\ submit \in [Submits -> [pc : SubmitPc, entry : Submits \cup {None}]]
    /\ ballot \in [Ballots -> [pc : BallotPc, may : BOOLEAN, row : Ballots \cup {None}]]
    /\ review \in [Reviews -> [pc : CallPc, entry : Entries \cup {None}]]
    /\ pick \in [Picks -> [pc : CallPc, entry : Entries \cup {None}]]
    /\ approved \subseteq Entries /\ changeable \in BOOLEAN /\ edits \in 0 .. MaxEdits

\* A person has one vote and one entry in a nomination, however many of his taps and tabs read
\* "none yet" at once, and whatever was deleted and sent again in between.
OneEach ==
    /\ \A v, w \in votes : VoterOf[v.by] = VoterOf[w.by] => v = w
    /\ \A d, e \in Submits :
         Present(d) /\ Present(e) /\ AuthorOf[d] = AuthorOf[e] => d = e

\* The results and the partner's award name only candidates that are still in the nomination and
\* that an organizer let in at some time: not the unreviewed, and not the deleted ones, also when
\* the deletion comes between a handler's check and its write.
ChoicesApproved ==
    \A e \in {v.choice : v \in votes} \cup ({award.pick} \ {None}) :
        Present(e) /\ e \in approved

\* What a handler still remembers of what it read.
CallFacts ==
    /\ \A e \in Entries : state[e] = "APPROVED" => e \in approved
    /\ \A s \in Submits : submit[s].pc = "update" =>
         submit[s].entry \in Submits /\ AuthorOf[submit[s].entry] = AuthorOf[s]
    /\ \A b \in Ballots :
         /\ ballot[b].pc \in {"vote", "ticket", "change"} => ChoiceOf[b] \in approved
         /\ ballot[b].pc = "change" =>
              ballot[b].row \in Ballots /\ VoterOf[ballot[b].row] = VoterOf[b]
         /\ ballot[b].pc = "change" => ballot[b].may
         /\ ballot[b].may => changeable
    /\ nomination.allowChangeVote => changeable
    /\ \A r \in Reviews : review[r].pc = "write" => review[r].entry \in Entries
    /\ \A k \in Picks : pick[k].pc = "write" => pick[k].entry \in approved \cup {None}

\* The inductive invariant under the properties above.
IInv == TypeOK /\ CallFacts /\ OneEach /\ ChoicesApproved

\* "You have already voted in this nomination": where changing votes has never been allowed, a
\* vote stays what it was until its candidate is deleted.
VotesStand ==
    [][ ~ changeable' =>
        \A v \in votes : v \in votes' \/ state'[v.choice] = "deleted" ]_vars
=============================================================================

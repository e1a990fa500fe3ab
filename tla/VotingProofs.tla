---------------------------- MODULE VotingProofs ----------------------------
(***************************************************************************)
(* For any people, entries, votes, reviews and picks: the types of Voting, *)
(* one vote and one entry a person, votes and picks for approved entries   *)
(* that are there, and votes that stand.                                   *)
(***************************************************************************)
EXTENDS Voting, TLAPS

\* Every step keeps the invariant.
LEMMA InvStep == IInv /\ [Next]_vars => IInv'
<1> SUFFICES ASSUME IInv, [Next]_vars PROVE IInv'
  OBVIOUS
<1>1. CASE UpdateVoting
  <2>1. TypeOK'
    BY <1>1, VotingConstants DEF UpdateVoting, Exists, VotingStatus, entryVars, callVars, IInv,
       TypeOK, Entries, CandidateStatus, SubmitPc, BallotPc, CallPc
  <2>2. CallFacts'
    BY <1>1, VotingConstants DEF UpdateVoting, Exists, VotingStatus, entryVars, callVars, IInv,
       TypeOK, CallFacts, Entries, CandidateStatus, SubmitPc, BallotPc, CallPc
  <2>3. OneEach' /\ ChoicesApproved'
    BY <1>1 DEF UpdateVoting, entryVars, callVars, IInv, OneEach, ChoicesApproved, Present,
       CandidateStatus
  <2>4. QED
    BY <2>1, <2>2, <2>3 DEF IInv
<1>2. CASE DeleteVoting
  <2>1. TypeOK'
    BY <1>2, VotingConstants DEF DeleteVoting, Exists, Entries, callVars, IInv, TypeOK,
       VotingStatus, CandidateStatus, SubmitPc, BallotPc, CallPc
  <2>2. CallFacts'
    BY <1>2, VotingConstants DEF DeleteVoting, Exists, Entries, callVars, IInv, TypeOK,
       CallFacts, VotingStatus, CandidateStatus, SubmitPc, BallotPc, CallPc
  <2>3. OneEach'
    BY <1>2, VotingConstants DEF DeleteVoting, Exists, Entries, callVars, IInv, TypeOK, OneEach,
       VotingStatus, CandidateStatus, SubmitPc, BallotPc, CallPc, Present
  <2>4. ChoicesApproved'
    BY <1>2, VotingConstants DEF DeleteVoting, Exists, Entries, callVars, IInv, TypeOK,
       ChoicesApproved, VotingStatus, CandidateStatus, SubmitPc, BallotPc, CallPc, Present
  <2>5. QED
    BY <2>1, <2>2, <2>3, <2>4 DEF IInv
<1>3. ASSUME NEW c \in Added, AddCandidate(c)
      PROVE  IInv'
  <2>1. TypeOK'
    BY <1>3, VotingConstants DEF AddCandidate, Exists, nominationVars, callVars, IInv, TypeOK,
       VotingStatus, Entries, CandidateStatus, SubmitPc, BallotPc, CallPc
  <2>2. CallFacts'
    BY <1>3, VotingConstants DEF AddCandidate, Exists, nominationVars, callVars, IInv, TypeOK,
       CallFacts, VotingStatus, Entries, CandidateStatus, SubmitPc, BallotPc, CallPc
  <2>3. OneEach'
    BY <1>3, VotingConstants DEF AddCandidate, Exists, nominationVars, callVars, IInv, TypeOK,
       OneEach, VotingStatus, Entries, CandidateStatus, SubmitPc, BallotPc, CallPc, Present
  <2>4. ChoicesApproved'
    BY <1>3, VotingConstants DEF AddCandidate, Exists, nominationVars, callVars, IInv, TypeOK,
       ChoicesApproved, VotingStatus, Entries, CandidateStatus, SubmitPc, BallotPc, CallPc,
       Present
  <2>5. QED
    BY <2>1, <2>2, <2>3, <2>4 DEF IInv
<1>4. ASSUME NEW e \in Entries, DeleteCandidate(e)
      PROVE  IInv'
  <2>1. TypeOK'
    BY <1>4, VotingConstants DEF DeleteCandidate, Present, DropEntries, nominationVars, callVars,
       CandidateStatus, Entries, IInv, TypeOK, VotingStatus, SubmitPc, BallotPc, CallPc
  <2>2. CallFacts'
    BY <1>4, VotingConstants DEF DeleteCandidate, Present, DropEntries, nominationVars, callVars,
       CandidateStatus, Entries, IInv, TypeOK, CallFacts, VotingStatus, SubmitPc, BallotPc,
       CallPc
  <2>3. OneEach'
    BY <1>4, VotingConstants DEF DeleteCandidate, Present, DropEntries, nominationVars, callVars,
       CandidateStatus, Entries, IInv, TypeOK, OneEach, VotingStatus, SubmitPc, BallotPc, CallPc
  <2>4. ChoicesApproved'
    BY <1>4, VotingConstants DEF DeleteCandidate, Present, DropEntries, nominationVars, callVars,
       CandidateStatus, Entries, IInv, TypeOK, ChoicesApproved, VotingStatus, SubmitPc, BallotPc,
       CallPc
  <2>5. QED
    BY <2>1, <2>2, <2>3, <2>4 DEF IInv
<1>5. ASSUME NEW s \in Submits, OpenSubmission(s)
      PROVE  IInv'
  <2>1. TypeOK'
    BY <1>5, VotingConstants DEF OpenSubmission, Exists, Stage, entryVars, othersThanSubmit,
       nominationVars, IInv, TypeOK, VotingStatus, Entries, CandidateStatus, SubmitPc, BallotPc,
       CallPc
  <2>2. CallFacts'
    BY <1>5, VotingConstants DEF OpenSubmission, Exists, Stage, entryVars, othersThanSubmit,
       nominationVars, IInv, TypeOK, CallFacts, VotingStatus, Entries, CandidateStatus, SubmitPc,
       BallotPc, CallPc
  <2>3. OneEach' /\ ChoicesApproved'
    BY <1>5 DEF OpenSubmission, entryVars, othersThanSubmit, nominationVars, IInv, OneEach,
       ChoicesApproved, Present, CandidateStatus
  <2>4. QED
    BY <2>1, <2>2, <2>3 DEF IInv
<1>6. ASSUME NEW s \in Submits, RefuseAuthor(s)
      PROVE  IInv'
  <2>1. TypeOK'
    BY <1>6, VotingConstants DEF RefuseAuthor, entryVars, othersThanSubmit, nominationVars, IInv,
       TypeOK, VotingStatus, Entries, CandidateStatus, SubmitPc, BallotPc, CallPc
  <2>2. CallFacts'
    BY <1>6, VotingConstants DEF RefuseAuthor, entryVars, othersThanSubmit, nominationVars, IInv,
       TypeOK, CallFacts, VotingStatus, Entries, CandidateStatus, SubmitPc, BallotPc, CallPc
  <2>3. OneEach' /\ ChoicesApproved'
    BY <1>6 DEF RefuseAuthor, entryVars, othersThanSubmit, nominationVars, IInv, OneEach,
       ChoicesApproved, Present, CandidateStatus
  <2>4. QED
    BY <2>1, <2>2, <2>3 DEF IInv
<1>7. ASSUME NEW s \in Submits, FindEntry(s)
      PROVE  IInv'
  <2>1. TypeOK'
    BY <1>7, VotingConstants DEF FindEntry, EntryOf, entryVars, othersThanSubmit, Present,
       nominationVars, CandidateStatus, IInv, TypeOK, VotingStatus, Entries, SubmitPc, BallotPc,
       CallPc
  <2>2. CallFacts'
    BY <1>7, VotingConstants DEF FindEntry, EntryOf, entryVars, othersThanSubmit, Present,
       nominationVars, CandidateStatus, IInv, TypeOK, CallFacts, VotingStatus, Entries, SubmitPc,
       BallotPc, CallPc
  <2>3. OneEach' /\ ChoicesApproved'
    BY <1>7 DEF FindEntry, entryVars, othersThanSubmit, nominationVars, IInv, OneEach,
       ChoicesApproved, Present, CandidateStatus
  <2>4. QED
    BY <2>1, <2>2, <2>3 DEF IInv
<1>8. ASSUME NEW s \in Submits, UpdateEntry(s)
      PROVE  IInv'
  <2>1. TypeOK'
    BY <1>8, VotingConstants DEF UpdateEntry, Present, othersThanSubmit, CandidateStatus,
       nominationVars, IInv, TypeOK, VotingStatus, Entries, SubmitPc, BallotPc, CallPc
  <2>2. CallFacts'
    BY <1>8, VotingConstants DEF UpdateEntry, Present, othersThanSubmit, CandidateStatus,
       nominationVars, IInv, TypeOK, CallFacts, VotingStatus, Entries, SubmitPc, BallotPc,
       CallPc
  <2>3. OneEach'
    BY <1>8, VotingConstants DEF UpdateEntry, Present, othersThanSubmit, CandidateStatus,
       nominationVars, IInv, TypeOK, OneEach, VotingStatus, Entries, SubmitPc, BallotPc, CallPc
  <2>4. ChoicesApproved'
    BY <1>8, VotingConstants DEF UpdateEntry, Present, othersThanSubmit, CandidateStatus,
       nominationVars, IInv, TypeOK, ChoicesApproved, VotingStatus, Entries, SubmitPc, BallotPc,
       CallPc
  <2>5. QED
    BY <2>1, <2>2, <2>3, <2>4 DEF IInv
<1>9. ASSUME NEW s \in Submits, CreateEntry(s)
      PROVE  IInv'
  <2>1. TypeOK'
    <3>1. state' \in [Entries -> CandidateStatus \cup {"none", "deleted"}]
      BY <1>9, VotingConstants DEF CreateEntry, Entries, CandidateStatus, IInv, TypeOK
    <3>2. submit' \in [Submits -> [pc : SubmitPc, entry : Submits \cup {None}]]
      BY <1>9, VotingConstants DEF CreateEntry, SubmitPc, IInv, TypeOK
    <3>3. QED
      BY <1>9, <3>1, <3>2 DEF CreateEntry, othersThanSubmit, nominationVars, IInv, TypeOK
  <2>2. CallFacts'
    BY <1>9, VotingConstants DEF CreateEntry, Exists, EntryOf, othersThanSubmit, Present,
       nominationVars, CandidateStatus, IInv, TypeOK, CallFacts, VotingStatus, Entries, SubmitPc,
       BallotPc, CallPc
  <2>3. OneEach'
    BY <1>9, VotingConstants DEF CreateEntry, Exists, EntryOf, othersThanSubmit, Present,
       nominationVars, CandidateStatus, IInv, TypeOK, OneEach, VotingStatus, Entries, SubmitPc,
       BallotPc, CallPc
  <2>4. ChoicesApproved'
    BY <1>9, VotingConstants DEF CreateEntry, Exists, EntryOf, othersThanSubmit, Present,
       nominationVars, CandidateStatus, IInv, TypeOK, ChoicesApproved, VotingStatus, Entries,
       SubmitPc, BallotPc, CallPc
  <2>5. QED
    BY <2>1, <2>2, <2>3, <2>4 DEF IInv
<1>10. ASSUME NEW r \in Reviews, NEW e \in Entries, ReadToReview(r, e)
      PROVE  IInv'
  <2>1. TypeOK'
    BY <1>10, VotingConstants DEF ReadToReview, Present, nominationVars, entryVars,
       CandidateStatus, IInv, TypeOK, VotingStatus, Entries, SubmitPc, BallotPc, CallPc
  <2>2. CallFacts'
    BY <1>10, VotingConstants DEF ReadToReview, Present, nominationVars, entryVars,
       CandidateStatus, IInv, TypeOK, CallFacts, VotingStatus, Entries, SubmitPc, BallotPc,
       CallPc
  <2>3. OneEach' /\ ChoicesApproved'
    BY <1>10 DEF ReadToReview, nominationVars, entryVars, IInv, OneEach, ChoicesApproved,
       Present, CandidateStatus
  <2>4. QED
    BY <2>1, <2>2, <2>3 DEF IInv
<1>11. ASSUME NEW r \in Reviews, NEW verdict \in {"APPROVED", "REJECTED"}, WriteReview(r, verdict)
      PROVE  IInv'
  <2>1. TypeOK'
    <3>1. state' \in [Entries -> CandidateStatus \cup {"none", "deleted"}]
      BY <1>11, VotingConstants DEF WriteReview, CandidateStatus, IInv, TypeOK
    <3>2. review' \in [Reviews -> [pc : CallPc, entry : Entries \cup {None}]]
      BY <1>11, VotingConstants DEF WriteReview, CallPc, IInv, TypeOK
    <3>3. approved' \subseteq Entries
      BY <1>11 DEF WriteReview, IInv, TypeOK, CallFacts
    <3>4. QED
      BY <1>11, <3>1, <3>2, <3>3 DEF WriteReview, nominationVars, IInv, TypeOK
  <2>2. CallFacts'
    BY <1>11, VotingConstants DEF WriteReview, Present, nominationVars, CandidateStatus, IInv,
       TypeOK, CallFacts, VotingStatus, Entries, SubmitPc, BallotPc, CallPc
  <2>3. OneEach'
    BY <1>11, VotingConstants DEF WriteReview, Present, nominationVars, CandidateStatus, IInv,
       TypeOK, OneEach, VotingStatus, Entries, SubmitPc, BallotPc, CallPc
  <2>4. ChoicesApproved'
    BY <1>11, VotingConstants DEF WriteReview, Present, nominationVars, CandidateStatus, IInv,
       TypeOK, ChoicesApproved, VotingStatus, Entries, SubmitPc, BallotPc, CallPc
  <2>5. QED
    BY <2>1, <2>2, <2>3, <2>4 DEF IInv
<1>12. ASSUME NEW b \in Ballots, OpenBallot(b)
      PROVE  IInv'
  <2>1. TypeOK'
    <3> DEFINE Record == [pc : BallotPc, may : BOOLEAN, row : Ballots \cup {None}]
               asked == IF Stage = "voting" THEN "candidate" ELSE "refused"
    <3>1. /\ asked \in BallotPc
          /\ ballot \in [Ballots -> Record] /\ nomination.allowChangeVote \in BOOLEAN
      BY DEF BallotPc, IInv, TypeOK
    <3>2. [ballot[b] EXCEPT !.pc = asked, !.may = nomination.allowChangeVote] \in Record
      <4> HIDE DEF asked
      <4>1. ballot[b] \in Record
        BY <3>1
      <4>2. QED
        BY <3>1, <4>1
    <3>3. ballot' = [ballot EXCEPT ![b] =
                        [ballot[b] EXCEPT !.pc = asked, !.may = nomination.allowChangeVote]]
      BY <1>12, <3>1 DEF OpenBallot
    <3>4. ballot' \in [Ballots -> Record]
      <4> HIDE DEF Record, asked
      <4>1. QED
        BY <3>1, <3>2, <3>3
    <3>5. QED
      BY <1>12, <3>4 DEF OpenBallot, othersThanBallot, nominationVars, entryVars, IInv, TypeOK
  <2>2. CallFacts'
    BY <1>12, VotingConstants DEF OpenBallot, Exists, Stage, othersThanBallot, nominationVars,
       entryVars, IInv, TypeOK, CallFacts, VotingStatus, Entries, CandidateStatus, SubmitPc,
       BallotPc, CallPc
  <2>3. OneEach' /\ ChoicesApproved'
    BY <1>12 DEF OpenBallot, othersThanBallot, nominationVars, entryVars, IInv, OneEach,
       ChoicesApproved, Present, CandidateStatus
  <2>4. QED
    BY <2>1, <2>2, <2>3 DEF IInv
<1>13. ASSUME NEW b \in Ballots, FindCandidate(b)
      PROVE  IInv'
  <2>1. TypeOK'
    BY <1>13, VotingConstants DEF FindCandidate, othersThanBallot, nominationVars, entryVars,
       IInv, TypeOK, VotingStatus, Entries, CandidateStatus, SubmitPc, BallotPc, CallPc
  <2>2. CallFacts'
    <3>1. /\ \A c \in Ballots \ {b} : ballot'[c] = ballot[c]
          /\ ballot'[b].may = ballot[b].may /\ ballot'[b].pc \in {"vote", "refused"}
      BY <1>13 DEF FindCandidate, IInv, TypeOK
    <3>2. ballot'[b].pc = "vote" => ChoiceOf[b] \in approved
      <4>1. ChoiceOf[b] \in Entries
        BY VotingConstants
      <4>2. ballot'[b].pc = "vote" => state[ChoiceOf[b]] = "APPROVED"
        BY <1>13 DEF FindCandidate, IInv, TypeOK
      <4>3. QED
        BY <4>1, <4>2 DEF IInv, CallFacts
    <3>3. QED
      BY <1>13, <3>1, <3>2 DEF FindCandidate, othersThanBallot, nominationVars, entryVars,
         IInv, CallFacts
  <2>3. OneEach' /\ ChoicesApproved'
    BY <1>13 DEF FindCandidate, othersThanBallot, nominationVars, entryVars, IInv, OneEach,
       ChoicesApproved, Present, CandidateStatus
  <2>4. QED
    BY <2>1, <2>2, <2>3 DEF IInv
<1>14. ASSUME NEW b \in Ballots, FindVote(b)
      PROVE  IInv'
  <2>1. TypeOK'
    <3> DEFINE Record == [pc : BallotPc, may : BOOLEAN, row : Ballots \cup {None}]
    <3>1. ballot \in [Ballots -> Record] /\ ballot[b] \in Record
      BY DEF IInv, TypeOK
    <3>2. CASE VoteOf(b) # {} /\ ballot[b].may
      <4>1. PICK v \in votes : v.by = (CHOOSE w \in VoteOf(b) : TRUE).by
        BY <3>2 DEF VoteOf
      <4>2. v.by \in Ballots
        BY DEF IInv, TypeOK
      <4>3. ballot' = [ballot EXCEPT ![b].pc = "change", ![b].row = v.by]
        BY <1>14, <3>2, <4>1 DEF FindVote
      <4>4. ballot' \in [Ballots -> Record]
        BY <3>1, <4>2, <4>3 DEF BallotPc
      <4>5. QED
        BY <1>14, <4>4 DEF FindVote, othersThanBallot, nominationVars, entryVars, IInv, TypeOK
    <3>3. CASE ~ (VoteOf(b) # {} /\ ballot[b].may)
      <4>1. \E to \in BallotPc : ballot' = [ballot EXCEPT ![b].pc = to]
        BY <1>14, <3>3 DEF FindVote, BallotPc
      <4>2. ballot' \in [Ballots -> Record]
        BY <3>1, <4>1
      <4>3. QED
        BY <1>14, <4>2 DEF FindVote, othersThanBallot, nominationVars, entryVars, IInv, TypeOK
    <3>4. QED
      BY <3>2, <3>3
  <2>2. CallFacts'
    BY <1>14, VotingConstants DEF FindVote, VoteOf, othersThanBallot, nominationVars, entryVars,
       IInv, TypeOK, CallFacts, VotingStatus, Entries, CandidateStatus, SubmitPc, BallotPc,
       CallPc
  <2>3. OneEach' /\ ChoicesApproved'
    BY <1>14 DEF FindVote, othersThanBallot, nominationVars, entryVars, IInv, OneEach,
       ChoicesApproved, Present, CandidateStatus
  <2>4. QED
    BY <2>1, <2>2, <2>3 DEF IInv
<1>15. ASSUME NEW b \in Ballots, RefuseVoter(b)
      PROVE  IInv'
  <2>1. TypeOK'
    BY <1>15, VotingConstants DEF RefuseVoter, othersThanBallot, nominationVars, entryVars, IInv,
       TypeOK, VotingStatus, Entries, CandidateStatus, SubmitPc, BallotPc, CallPc
  <2>2. CallFacts'
    BY <1>15, VotingConstants DEF RefuseVoter, othersThanBallot, nominationVars, entryVars, IInv,
       TypeOK, CallFacts, VotingStatus, Entries, CandidateStatus, SubmitPc, BallotPc, CallPc
  <2>3. OneEach' /\ ChoicesApproved'
    BY <1>15 DEF RefuseVoter, othersThanBallot, nominationVars, entryVars, IInv, OneEach,
       ChoicesApproved, Present, CandidateStatus
  <2>4. QED
    BY <2>1, <2>2, <2>3 DEF IInv
<1>16. ASSUME NEW b \in Ballots, CreateVote(b)
      PROVE  IInv'
  <2>1. TypeOK'
    <3>1. votes' \subseteq [by : Ballots, choice : Entries]
      BY <1>16, VotingConstants DEF CreateVote, IInv, TypeOK
    <3>2. ballot' \in [Ballots -> [pc : BallotPc, may : BOOLEAN, row : Ballots \cup {None}]]
      BY <1>16, VotingConstants DEF CreateVote, BallotPc, IInv, TypeOK
    <3>3. QED
      BY <1>16, <3>1, <3>2 DEF CreateVote, othersThanBallot, nominationVars, entryVars, IInv,
         TypeOK
  <2>2. CallFacts'
    BY <1>16, VotingConstants DEF CreateVote, VoteOf, Present, othersThanBallot, CandidateStatus,
       nominationVars, entryVars, IInv, TypeOK, CallFacts, VotingStatus, Entries, SubmitPc,
       BallotPc, CallPc
  <2>3. OneEach'
    BY <1>16, VotingConstants DEF CreateVote, VoteOf, Present, othersThanBallot, CandidateStatus,
       nominationVars, entryVars, IInv, TypeOK, OneEach, VotingStatus, Entries, SubmitPc,
       BallotPc, CallPc
  <2>4. ChoicesApproved'
    <3>1. votes' # votes => Present(ChoiceOf[b]) /\ ChoiceOf[b] \in approved
      BY <1>16 DEF CreateVote, IInv, CallFacts
    <3>2. {v.choice : v \in votes'} \subseteq
            {v.choice : v \in votes} \cup (IF votes' # votes THEN {ChoiceOf[b]} ELSE {})
      BY <1>16 DEF CreateVote
    <3>3. QED
      BY <1>16, <3>1, <3>2 DEF CreateVote, othersThanBallot, entryVars, IInv, ChoicesApproved, Present
  <2>5. QED
    BY <2>1, <2>2, <2>3, <2>4 DEF IInv
<1>17. ASSUME NEW b \in Ballots, ChangeVote(b)
      PROVE  IInv'
  <2>1. TypeOK'
    <3>1. votes' \subseteq [by : Ballots, choice : Entries]
      BY <1>17, VotingConstants DEF ChangeVote, IInv, TypeOK
    <3>2. ballot' \in [Ballots -> [pc : BallotPc, may : BOOLEAN, row : Ballots \cup {None}]]
      BY <1>17, VotingConstants DEF ChangeVote, BallotPc, IInv, TypeOK
    <3>3. QED
      BY <1>17, <3>1, <3>2 DEF ChangeVote, othersThanBallot, nominationVars, entryVars, IInv,
         TypeOK
  <2>2. CallFacts'
    BY <1>17, VotingConstants DEF ChangeVote, Present, othersThanBallot, CandidateStatus,
       nominationVars, entryVars, IInv, TypeOK, CallFacts, VotingStatus, Entries, SubmitPc,
       BallotPc, CallPc
  <2>3. OneEach'
    BY <1>17, VotingConstants DEF ChangeVote, Present, othersThanBallot, CandidateStatus,
       nominationVars, entryVars, IInv, TypeOK, OneEach, VotingStatus, Entries, SubmitPc,
       BallotPc, CallPc
  <2>4. ChoicesApproved'
    <3>1. votes' # votes => Present(ChoiceOf[b]) /\ ChoiceOf[b] \in approved
      BY <1>17 DEF ChangeVote, IInv, CallFacts
    <3>2. {v.choice : v \in votes'} \subseteq
            {v.choice : v \in votes} \cup (IF votes' # votes THEN {ChoiceOf[b]} ELSE {})
      BY <1>17 DEF ChangeVote
    <3>3. QED
      BY <1>17, <3>1, <3>2 DEF ChangeVote, othersThanBallot, entryVars, IInv, ChoicesApproved, Present
  <2>5. QED
    BY <2>1, <2>2, <2>3, <2>4 DEF IInv
<1>18. CASE CreatePartnerAward
  <2>1. TypeOK'
    BY <1>18, VotingConstants DEF CreatePartnerAward, Exists, othersThanAward, nominationVars,
       entryVars, IInv, TypeOK, VotingStatus, Entries, CandidateStatus, SubmitPc, BallotPc,
       CallPc
  <2>2. ChoicesApproved'
    BY <1>18, VotingConstants DEF CreatePartnerAward, Exists, othersThanAward, nominationVars,
       entryVars, IInv, TypeOK, ChoicesApproved, VotingStatus, Entries, CandidateStatus,
       SubmitPc, BallotPc, CallPc, Present
  <2>3. CallFacts' /\ OneEach'
    BY <1>18 DEF CreatePartnerAward, othersThanAward, nominationVars, entryVars, IInv, CallFacts,
       OneEach, Entries, Present, CandidateStatus
  <2>4. QED
    BY <2>1, <2>2, <2>3 DEF IInv
<1>19. CASE SetPartnerPicks
  <2>1. TypeOK'
    BY <1>19, VotingConstants DEF SetPartnerPicks, othersThanAward, nominationVars, entryVars,
       IInv, TypeOK, VotingStatus, Entries, CandidateStatus, SubmitPc, BallotPc, CallPc
  <2>2. ChoicesApproved'
    BY <1>19, VotingConstants DEF SetPartnerPicks, othersThanAward, nominationVars, entryVars,
       IInv, TypeOK, ChoicesApproved, VotingStatus, Entries, CandidateStatus, SubmitPc, BallotPc,
       CallPc, Present
  <2>3. CallFacts' /\ OneEach'
    BY <1>19 DEF SetPartnerPicks, othersThanAward, nominationVars, entryVars, IInv, CallFacts,
       OneEach, Entries, Present, CandidateStatus
  <2>4. QED
    BY <2>1, <2>2, <2>3 DEF IInv
<1>20. CASE DeletePartnerAward
  <2>1. TypeOK'
    BY <1>20, VotingConstants DEF DeletePartnerAward, othersThanAward, nominationVars, entryVars,
       IInv, TypeOK, VotingStatus, Entries, CandidateStatus, SubmitPc, BallotPc, CallPc
  <2>2. ChoicesApproved'
    BY <1>20, VotingConstants DEF DeletePartnerAward, othersThanAward, nominationVars, entryVars,
       IInv, TypeOK, ChoicesApproved, VotingStatus, Entries, CandidateStatus, SubmitPc, BallotPc,
       CallPc, Present
  <2>3. CallFacts' /\ OneEach'
    BY <1>20 DEF DeletePartnerAward, othersThanAward, nominationVars, entryVars, IInv, CallFacts,
       OneEach, Entries, Present, CandidateStatus
  <2>4. QED
    BY <2>1, <2>2, <2>3 DEF IInv
<1>21. ASSUME NEW k \in Picks, NEW e \in Entries \cup {None}, ReadToPick(k, e)
      PROVE  IInv'
  <2>1. TypeOK'
    BY <1>21, VotingConstants DEF ReadToPick, othersThanAward, nominationVars, entryVars, IInv,
       TypeOK, VotingStatus, Entries, CandidateStatus, SubmitPc, BallotPc, CallPc
  <2>2. CallFacts'
    BY <1>21, VotingConstants DEF ReadToPick, othersThanAward, nominationVars, entryVars, IInv,
       TypeOK, CallFacts, VotingStatus, Entries, CandidateStatus, SubmitPc, BallotPc, CallPc
  <2>3. OneEach' /\ ChoicesApproved'
    BY <1>21 DEF ReadToPick, othersThanAward, nominationVars, entryVars, IInv, OneEach,
       ChoicesApproved, Present, CandidateStatus
  <2>4. QED
    BY <2>1, <2>2, <2>3 DEF IInv
<1>22. ASSUME NEW k \in Picks, WritePick(k)
      PROVE  IInv'
  <2>1. TypeOK'
    BY <1>22, VotingConstants DEF WritePick, Present, othersThanAward, CandidateStatus,
       nominationVars, entryVars, IInv, TypeOK, VotingStatus, Entries, SubmitPc, BallotPc,
       CallPc
  <2>2. CallFacts'
    BY <1>22, VotingConstants DEF WritePick, Present, othersThanAward, CandidateStatus,
       nominationVars, entryVars, IInv, TypeOK, CallFacts, VotingStatus, Entries, SubmitPc,
       BallotPc, CallPc
  <2>3. ChoicesApproved'
    <3>1. \/ award' = award
          \/ /\ award' = [award EXCEPT !.pick = pick[k].entry]
             /\ pick[k].entry # None => Present(pick[k].entry) /\ pick[k].entry \in approved
      BY <1>22 DEF WritePick, IInv, CallFacts
    <3>2. award'.pick # None => Present(award'.pick) /\ award'.pick \in approved
      BY <3>1 DEF IInv, TypeOK, ChoicesApproved
    <3>3. QED
      BY <1>22, <3>2 DEF WritePick, othersThanAward, entryVars, IInv, ChoicesApproved, Present
  <2>4. OneEach'
    BY <1>22 DEF WritePick, othersThanAward, nominationVars, entryVars, IInv, OneEach, Present,
       CandidateStatus
  <2>5. QED
    BY <2>1, <2>2, <2>3, <2>4 DEF IInv
<1>23. CASE UNCHANGED vars
  <2>1. TypeOK'
    BY <1>23 DEF vars, IInv, TypeOK, nominationVars, entryVars, callVars, VotingStatus, Entries,
       CandidateStatus, SubmitPc, BallotPc, CallPc
  <2>2. CallFacts'
    BY <1>23 DEF vars, IInv, CallFacts, nominationVars, entryVars, callVars, Entries
  <2>3. OneEach'
    BY <1>23 DEF vars, IInv, OneEach, nominationVars, entryVars, callVars, Present,
       CandidateStatus
  <2>4. ChoicesApproved'
    BY <1>23 DEF vars, IInv, ChoicesApproved, nominationVars, entryVars, callVars, Present,
       CandidateStatus
  <2>5. QED
    BY <2>1, <2>2, <2>3, <2>4 DEF IInv
<1>24. QED
  BY <1>1, <1>2, <1>3, <1>4, <1>5, <1>6, <1>7, <1>8, <1>9, <1>10, <1>11, <1>12, <1>13, <1>14, <1>15, <1>16, <1>17, <1>18, <1>19, <1>20, <1>21, <1>22, <1>23 DEF Next,
     Entries, SubmitCandidate, CastVote

\* The nomination before its first entry satisfies the invariant.
LEMMA InvInit == Init => IInv
<1> SUFFICES ASSUME Init PROVE IInv
  OBVIOUS
<1>1. TypeOK
  <2>1. /\ nomination \in [status : VotingStatus \cup {"deleted"}, allowSubmissions : BOOLEAN,
                           submissionsOpen : BOOLEAN, allowChangeVote : BOOLEAN]
        /\ award \in [row : {"none", "made", "deleted"}, partnerPicks : BOOLEAN,
                      pick : Entries \cup {None}]
    BY DEF Init, NewNomination, VotingStatus
  <2>2. ballot \in [Ballots -> [pc : BallotPc, may : BOOLEAN, row : Ballots \cup {None}]]
    BY DEF Init, BallotPc
  <2>3. /\ submit \in [Submits -> [pc : SubmitPc, entry : Submits \cup {None}]]
        /\ review \in [Reviews -> [pc : CallPc, entry : Entries \cup {None}]]
        /\ pick \in [Picks -> [pc : CallPc, entry : Entries \cup {None}]]
    BY DEF Init, SubmitPc, CallPc
  <2>4. /\ state \in [Entries -> CandidateStatus \cup {"none", "deleted"}]
        /\ votes \subseteq [by : Ballots, choice : Entries] /\ approved \subseteq Entries
    BY DEF Init
  <2>5. changeable \in BOOLEAN /\ edits \in 0 .. MaxEdits
    <3>1. changeable = FALSE /\ edits = 0
      BY DEF Init
    <3>2. MaxEdits \in Nat
      BY VotingConstants
    <3>3. changeable \in BOOLEAN
      BY <3>1, Zenon
    <3>4. edits \in 0 .. MaxEdits
      BY <3>1, <3>2
    <3>5. QED
      BY <3>3, <3>4
  <2>6. QED
    BY <2>1, <2>2, <2>3, <2>4, <2>5 DEF TypeOK
<1>2. CallFacts
  BY DEF Init, NewNomination, CallFacts
<1>3. OneEach /\ ChoicesApproved
  BY DEF Init, OneEach, ChoicesApproved, Present, CandidateStatus, Entries
<1>4. QED
  BY <1>1, <1>2, <1>3 DEF IInv

\* The invariant of one nomination, for any people, entries, votes and reviews.
THEOREM VotingInvariant == Spec => []IInv
<1>1. Init => IInv
  BY InvInit
<1>2. IInv /\ [Next]_vars => IInv'
  BY InvStep
<1>3. QED
  BY <1>1, <1>2, PTL DEF Spec

\* Two taps of one voter leave one vote and two tabs of one author one entry, by the
\* unique indexes that CreateVote and CreateEntry meet and the read of UpdateEntry and ChangeVote.
THEOREM OneVoteOneEntry == Spec => []OneEach
<1>1. IInv => OneEach
  BY DEF IInv
<1>2. QED
  BY <1>1, VotingInvariant, PTL

\* Votes and the partner's pick name approved entries that are there: castVote and
\* setPartnerPick check before they write, deletions take the votes and the pick along.
THEOREM ChoicesAreApproved == Spec => []ChoicesApproved
<1>1. IInv => ChoicesApproved
  BY DEF IInv
<1>2. QED
  BY <1>1, VotingInvariant, PTL

\* Only ChangeVote and deletions touch a vote that is there.
LEMMA VoteStep ==
    ASSUME IInv, [Next]_vars, ~ changeable', NEW v \in votes
    PROVE  v \in votes' \/ state'[v.choice] = "deleted"
<1>1. ASSUME NEW b \in Ballots, ChangeVote(b)
      PROVE  FALSE
  BY <1>1 DEF ChangeVote, othersThanBallot, nominationVars, IInv, CallFacts
<1>2. CASE DeleteVoting
  BY <1>2 DEF DeleteVoting, IInv, TypeOK
<1>3. ASSUME NEW e \in Entries, DeleteCandidate(e)
      PROVE  v \in votes' \/ state'[v.choice] = "deleted"
  BY <1>3 DEF DeleteCandidate, DropEntries, IInv, TypeOK
<1>4. ASSUME NEW b \in Ballots, CreateVote(b)
      PROVE  v \in votes'
  BY <1>4 DEF CreateVote
<1>5. CASE UNCHANGED votes
  BY <1>5
<1>6. QED
  BY <1>1, <1>2, <1>3, <1>4, <1>5 DEF Next, vars, SubmitCandidate, CastVote,
     UpdateVoting, AddCandidate, OpenSubmission, RefuseAuthor, FindEntry, UpdateEntry,
     CreateEntry, ReadToReview, WriteReview, OpenBallot, FindCandidate, FindVote,
     RefuseVoter, CreatePartnerAward, SetPartnerPicks, DeletePartnerAward,
     ReadToPick, WritePick, othersThanSubmit, othersThanAward

\* "You have already voted in this nomination": FindVote refuses a second vote unless the
\* nomination it read allowed changes, and then it allowed them at some time.
THEOREM VotesAreFinal == Spec => VotesStand
<1>1. IInv /\ [Next]_vars =>
        [ ~ changeable' => \A v \in votes : v \in votes' \/ state'[v.choice] = "deleted" ]_vars
  BY VoteStep
<1>2. QED
  BY <1>1, VotingInvariant, PTL DEF Spec, VotesStand
=============================================================================

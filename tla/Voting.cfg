SPECIFICATION MCSpec
CONSTANTS
  ann = ann
  vic = vic
  wes = wes
  s1 = s1
  s2 = s2
  c1 = c1
  v1 = v1
  v2 = v2
  w1 = w1
  r1 = r1
  r2 = r2
  byLink = byLink
  byHand = byHand
  Submits = {s1, s2}
  AuthorOf <- MCAuthorOf
  Added = {c1}
  Ballots = {v1, v2, w1}
  VoterOf <- MCVoterOf
  ChoiceOf <- MCChoiceOf
  Reviews = {r1, r2}
  Picks = {byLink, byHand}
  ByPartner = {byLink}
  MaxEdits = 1
  None = None
CHECK_DEADLOCK FALSE
INVARIANTS
  IInv
  OneEach
  ChoicesApproved
PROPERTIES
  VotesStand

--------------------------- MODULE ServicesProofs ---------------------------
(***************************************************************************)
(* Proofs about the small services (Services): for each, that its          *)
(* inductive invariant holds at the start and is kept by every step, and   *)
(* that its property follows; at the end, that the composition keeps them  *)
(* all, since a step of one service is a stuttering step of the others.    *)
(***************************************************************************)
EXTENDS Services, Integers, FiniteSets, FiniteSetTheorems, TLAPS

\* A set whose members are all the same has one at most.
LEMMA AtMostOne ==
  ASSUME NEW S, \A x, y \in S : x = y
  PROVE  Cardinality(S) <= 1
<1>1. CASE S = {}
  BY <1>1, FS_EmptySet
<1>2. CASE S # {}
  <2>1. PICK x \in S : TRUE
    BY <1>2
  <2>2. S = {x}
    BY <2>1
  <2>3. QED
    BY <2>2, FS_Singleton
<1>3. QED
  BY <1>1, <1>2

\* Counting inside an instance is counting.
LEMMA SameCounting ==
  ASSUME NEW S
  PROVE  /\ Login!Cardinality(S) = Cardinality(S)
         /\ Saved!Cardinality(S) = Cardinality(S)
         /\ Sending!Cardinality(S) = Cardinality(S)
BY DEF Login!Cardinality, Saved!Cardinality, Sending!Cardinality, Cardinality

\* So is being finite.
LEMMA SameFiniteness == \A S : Saved!IsFiniteSet(S) <=> IsFiniteSet(S)
BY DEF Saved!IsFiniteSet, IsFiniteSet

\* The facts about finite sets, for the sets of recipients.
LEMMA SavedEmptySet ==
  /\ Saved!IsFiniteSet({}) /\ Saved!Cardinality({}) = 0
  /\ \A S : Saved!IsFiniteSet(S) => (Saved!Cardinality(S) = 0 <=> S = {})
BY SameCounting, SameFiniteness, FS_EmptySet

\* A set of one recipient.
LEMMA SavedSingleton ==
  /\ \A x : Saved!IsFiniteSet({x}) /\ Saved!Cardinality({x}) = 1
  /\ \A S : Saved!IsFiniteSet(S) => (Saved!Cardinality(S) = 1 <=> \E x : S = {x})
BY SameCounting, SameFiniteness, FS_Singleton

\* The number of recipients is a number.
LEMMA SavedCardinalityType ==
  ASSUME NEW S, Saved!IsFiniteSet(S)
  PROVE  Saved!Cardinality(S) \in Nat
BY SameCounting, SameFiniteness, FS_CardinalityType

\* One recipient more.
LEMMA SavedAddElement ==
  ASSUME NEW S, NEW x, Saved!IsFiniteSet(S)
  PROVE  /\ Saved!IsFiniteSet(S \cup {x})
         /\ Saved!Cardinality(S \cup {x})
              = IF x \in S THEN Saved!Cardinality(S) ELSE Saved!Cardinality(S) + 1
BY SameCounting, SameFiniteness, FS_AddElement

\* One recipient less.
LEMMA SavedRemoveElement ==
  ASSUME NEW S, NEW x, Saved!IsFiniteSet(S)
  PROVE  /\ Saved!IsFiniteSet(S \ {x})
         /\ Saved!Cardinality(S \ {x})
              = IF x \in S THEN Saved!Cardinality(S) - 1 ELSE Saved!Cardinality(S)
BY SameCounting, SameFiniteness, FS_RemoveElement

\* Some of the recipients.
LEMMA SavedSubset ==
  ASSUME NEW S, Saved!IsFiniteSet(S), NEW T \in SUBSET S
  PROVE  /\ Saved!IsFiniteSet(T)
         /\ Saved!Cardinality(T) <= Saved!Cardinality(S)
         /\ Saved!Cardinality(S) = Saved!Cardinality(T) => S = T
BY SameCounting, SameFiniteness, FS_Subset

(***************************************************************************)
(* Signing in to the merch site                                            *)
(***************************************************************************)

\* What is known of its constants.
LEMMA LoginConstants ==
  None \notin Links \cup Polls
BY ServicesConstants

\* A row of SiteLoginRequest.
LinkRow == [at : {"none", "pending", "session", "gone"}, who : People \cup {None},
            session : Polls \cup {None}, expired : BOOLEAN]

\* Expiring leaves a row a row.
LEMMA ExpiredRow == ASSUME NEW r \in LinkRow PROVE [r EXCEPT !.expired = TRUE] \in LinkRow
BY DEF LinkRow

\* So does making a session of it.
LEMMA SessionRow ==
  ASSUME NEW r \in LinkRow, NEW p \in Polls, NEW x \in BOOLEAN
  PROVE  [r EXCEPT !.at = "session", !.session = p, !.expired = x] \in LinkRow
<1>1. [[[r EXCEPT !.at = "session"] EXCEPT !.session = p] EXCEPT !.expired = x] \in LinkRow
  BY DEF LinkRow
<1>2. [[[r EXCEPT !.at = "session"] EXCEPT !.session = p] EXCEPT !.expired = x]
        = [r EXCEPT !.at = "session", !.session = p, !.expired = x]
  BY DEF LinkRow
<1>3. QED
  BY <1>1, <1>2

\* Before anybody signs in.
LEMMA LoginStart == Login!Init => Login!IInv
<1> SUFFICES ASSUME Login!Init PROVE Login!IInv
  OBVIOUS
<1>1. Login!TypeOK
  BY DEF Login!Init, Login!TypeOK, Login!NoLink
<1>2. \A l \in Links : Login!Issued(l) = {}
  BY LoginConstants DEF Login!Init, Login!Issued
<1>3. Login!IdlePolls /\ Login!IssuedToOne /\ Login!RevokedGone
  BY <1>2 DEF Login!Init, Login!IdlePolls, Login!IssuedToOne, Login!RevokedGone, Login!NoLink
<1>4. QED
  BY <1>1, <1>3 DEF Login!IInv

\* Links, polls and people keep the invariant.
LEMMA LoginStep == Login!IInv /\ [Login!Next]_(Login!vars) => Login!IInv'
<1> SUFFICES ASSUME Login!IInv, [Login!Next]_(Login!vars) PROVE Login!IInv'
  OBVIOUS
<1>1. ASSUME NEW l \in Links, Login!StartLink(l)
      PROVE  Login!IInv'
  <2>1. Login!TypeOK'
    BY <1>1 DEF Login!StartLink, Login!IInv, Login!TypeOK, Login!NoLink, Login!Gone
  <2>2. Login!IssuedToOne'
    BY <1>1 DEF Login!StartLink, Login!IInv, Login!IssuedToOne, Login!NoLink, Login!Gone,
           Login!Issued
  <2>3. Login!RevokedGone'
    BY <1>1 DEF Login!StartLink, Login!IInv, Login!RevokedGone, Login!TypeOK, Login!Gone
  <2>4. Login!IdlePolls'
    BY <1>1 DEF Login!StartLink, Login!IInv, Login!IdlePolls
  <2>5. QED
    BY <2>1, <2>2, <2>3, <2>4 DEF Login!IInv
<1>2. ASSUME NEW l \in Links, Login!Expire(l)
      PROVE  Login!IInv'
  <2>1. Login!TypeOK'
    <3>1. [link[l] EXCEPT !.expired = TRUE] \in LinkRow
      BY ExpiredRow, <1>2 DEF Login!IInv, Login!TypeOK, LinkRow
    <3>2. link' = [link EXCEPT ![l] = [link[l] EXCEPT !.expired = TRUE]]
      BY <1>2 DEF Login!Expire
    <3>3. QED
      BY <1>2, <3>1, <3>2 DEF Login!Expire, Login!IInv, Login!TypeOK, LinkRow
  <2>2. Login!IssuedToOne'
    BY <1>2 DEF Login!Expire, Login!IInv, Login!IssuedToOne, Login!There, Login!Issued
  <2>3. Login!RevokedGone'
    BY <1>2 DEF Login!Expire, Login!IInv, Login!RevokedGone, Login!There
  <2>4. Login!IdlePolls'
    BY <1>2 DEF Login!Expire, Login!IInv, Login!IdlePolls
  <2>5. QED
    BY <2>1, <2>2, <2>3, <2>4 DEF Login!IInv
<1>3. ASSUME NEW l \in Links, NEW u \in People, Login!Confirm(l, u)
      PROVE  Login!IInv'
  <2>1. Login!TypeOK'
    BY <1>3 DEF Login!Confirm, Login!IInv, Login!TypeOK
  <2>2. Login!IssuedToOne'
    BY <1>3 DEF Login!Confirm, Login!IInv, Login!IssuedToOne, Login!Issued
  <2>3. Login!RevokedGone'
    BY <1>3 DEF Login!Confirm, Login!IInv, Login!RevokedGone
  <2>4. Login!IdlePolls'
    BY <1>3 DEF Login!Confirm, Login!IInv, Login!IdlePolls
  <2>5. QED
    BY <2>1, <2>2, <2>3, <2>4 DEF Login!IInv
<1>4. ASSUME NEW p \in Polls, NEW l \in Links, Login!ReadLink(p, l)
      PROVE  Login!IInv'
  <2>1. Login!TypeOK'
    BY <1>4 DEF Login!ReadLink, Login!IInv, Login!TypeOK
  <2>2. Login!IdlePolls'
    BY <1>4 DEF Login!ReadLink, Login!IInv, Login!IdlePolls
  <2>3. Login!IssuedToOne'
    BY <1>4, LoginConstants DEF Login!ReadLink, Login!IInv, Login!IssuedToOne, Login!IdlePolls,
           Login!Issued
  <2>4. Login!RevokedGone'
    BY <1>4 DEF Login!ReadLink, Login!IInv, Login!RevokedGone
  <2>5. QED
    BY <2>1, <2>2, <2>3, <2>4 DEF Login!IInv
<1>5. ASSUME NEW u \in People, Login!NotMe(u)
      PROVE  Login!IInv'
  <2>1. Login!TypeOK'
    BY <1>5 DEF Login!NotMe, Login!IInv, Login!TypeOK, Login!Gone, Login!NoLink
  <2>2. Login!IssuedToOne'
    BY <1>5 DEF Login!NotMe, Login!IInv, Login!IssuedToOne, Login!Gone, Login!Issued, Login!NoLink
  <2>3. Login!RevokedGone'
    BY <1>5 DEF Login!NotMe, Login!IInv, Login!RevokedGone, Login!TypeOK, Login!Gone
  <2>4. Login!IdlePolls'
    BY <1>5 DEF Login!NotMe, Login!IInv, Login!IdlePolls
  <2>5. QED
    BY <2>1, <2>2, <2>3, <2>4 DEF Login!IInv
<1>6. ASSUME NEW p \in Polls, Login!Issue(p)
      PROVE  Login!IInv'
  <2>1. Login!TypeOK'
    <3> DEFINE k == poll[p].link
               r == [link[k] EXCEPT !.at = "session", !.session = p, !.expired = FALSE]
    <3>1. CASE link[k].at = "pending" /\ k \in Links
      <4>1. r \in LinkRow
        <5>1. FALSE \in BOOLEAN /\ link[k] \in LinkRow
          BY <3>1 DEF Login!IInv, Login!TypeOK, LinkRow
        <5>2. QED
          BY <5>1, SessionRow
      <4>2. link' = [link EXCEPT ![k] = r]
        BY <1>6, <3>1 DEF Login!Issue
      <4>3. QED
        <5> HIDE DEF r
        <5>1. link' \in [Links -> LinkRow]
          BY <4>1, <4>2 DEF Login!IInv, Login!TypeOK, LinkRow
        <5>2. poll' = [poll EXCEPT ![p].pc = "issued"] /\ revoked' = revoked
          BY <1>6, <3>1 DEF Login!Issue
        <5>3. QED
          BY <5>1, <5>2 DEF Login!IInv, Login!TypeOK, LinkRow
    <3>2. CASE link[k].at = "pending" /\ k \notin Links
      <4>1. link' = link
        BY <1>6, <3>2 DEF Login!Issue, Login!IInv, Login!TypeOK
      <4>2. poll' \in [Polls -> [pc : {"idle", "read", "issued", "refused", "signedIn",
                                     "signedOut", "unheard"}, link : Links \cup {None}]]
        BY <1>6, <3>2 DEF Login!Issue, Login!IInv, Login!TypeOK
      <4>3. QED
        BY <1>6, <4>1, <4>2 DEF Login!Issue, Login!IInv, Login!TypeOK
    <3>3. CASE link[k].at # "pending"
      BY <1>6, <3>3 DEF Login!Issue, Login!IInv, Login!TypeOK
    <3>4. QED
      BY <3>1, <3>2, <3>3
  <2>2. Login!IdlePolls'
    BY <1>6 DEF Login!Issue, Login!IInv, Login!IdlePolls, Login!TypeOK
  <2>3. Login!IssuedToOne'
    <3> DEFINE k == poll[p].link
    <3>1. CASE link[k].at = "pending" /\ k \in Links
      <4>1. link' = [link EXCEPT ![k] =
                       [link[k] EXCEPT !.at = "session", !.session = p, !.expired = FALSE]]
        BY <1>6, <3>1 DEF Login!Issue
      <4>2. /\ link'[k].at = "session" /\ link'[k].session = p
            /\ \A l \in Links \ {k} : link'[l] = link[l]
        BY <4>1, <3>1 DEF Login!IInv, Login!TypeOK
      <4>3. /\ poll'[p].pc = "issued" /\ poll'[p].link = k
            /\ \A q \in Polls \ {p} : poll'[q] = poll[q]
        BY <1>6, <3>1 DEF Login!Issue, Login!IInv, Login!TypeOK
      <4>4. Login!Issued(k) = {}
        BY <3>1 DEF Login!IInv, Login!IssuedToOne
      <4>5. Login!Issued(k)' = {p}
        BY <4>3, <4>4 DEF Login!Issued
      <4>6. \A l \in Links \ {k} : Login!Issued(l)' = Login!Issued(l)
        BY <4>3, <1>6 DEF Login!Issued, Login!Issue
      <4>7. \A l \in Links \ {k} : link[l].session # p \/ link[l].at # "session"
        BY <1>6 DEF Login!Issue, Login!Issued, Login!IInv, Login!IssuedToOne
      <4>8. QED
        BY <4>2, <4>3, <4>5, <4>6, <4>7 DEF Login!IssuedToOne, Login!IInv, Login!Issued
    <3>2. CASE ~ (link[k].at = "pending" /\ k \in Links)
      <4>1. link' = link
        BY <1>6, <3>2 DEF Login!Issue, Login!IInv, Login!TypeOK
      <4>2. \A l \in Links : Login!Issued(l)' = Login!Issued(l)
        BY <1>6, <3>2 DEF Login!Issue, Login!IInv, Login!TypeOK, Login!Issued
      <4>3. QED
        <5>1. \A l \in Links : link[l].at = "session" => link[l].session \in Polls
          BY DEF Login!IInv, Login!IssuedToOne, Login!Issued
        <5>2. \A q \in Polls : poll'[q].pc = "signedOut" => poll[q].pc = "signedOut"
          BY <1>6, <3>2 DEF Login!Issue, Login!IInv, Login!TypeOK
        <5>3. QED
          BY <4>1, <4>2, <5>1, <5>2 DEF Login!IInv, Login!IssuedToOne
    <3>3. QED
      BY <3>1, <3>2
  <2>4. Login!RevokedGone'
    BY <1>6 DEF Login!Issue, Login!IInv, Login!RevokedGone, Login!TypeOK
  <2>5. QED
    BY <2>1, <2>2, <2>3, <2>4 DEF Login!IInv
<1>7. ASSUME NEW p \in Polls, Login!SignIn(p)
      PROVE  Login!IInv'
  <2>1. Login!TypeOK'
    BY <1>7 DEF Login!SignIn, Login!IInv, Login!TypeOK
  <2>2. Login!IdlePolls'
    BY <1>7 DEF Login!SignIn, Login!IInv, Login!IdlePolls
  <2>3. Login!IssuedToOne'
    BY <1>7 DEF Login!SignIn, Login!IInv, Login!IssuedToOne, Login!Issued
  <2>4. Login!RevokedGone'
    BY <1>7 DEF Login!SignIn, Login!IInv, Login!RevokedGone
  <2>5. QED
    BY <2>1, <2>2, <2>3, <2>4 DEF Login!IInv
<1>8. ASSUME NEW p \in Polls, Login!LoseAnswer(p)
      PROVE  Login!IInv'
  <2>1. Login!TypeOK'
    BY <1>8 DEF Login!LoseAnswer, Login!IInv, Login!TypeOK
  <2>2. Login!IdlePolls'
    BY <1>8 DEF Login!LoseAnswer, Login!IInv, Login!IdlePolls
  <2>3. Login!IssuedToOne'
    BY <1>8 DEF Login!LoseAnswer, Login!IInv, Login!IssuedToOne, Login!Issued
  <2>4. Login!RevokedGone'
    BY <1>8 DEF Login!LoseAnswer, Login!IInv, Login!RevokedGone
  <2>5. QED
    BY <2>1, <2>2, <2>3, <2>4 DEF Login!IInv
<1>9. ASSUME NEW p \in Polls, Login!SignOut(p)
      PROVE  Login!IInv'
  <2>1. Login!TypeOK'
    <3>1. Login!Gone \in [at : {"none", "pending", "session", "gone"}, who : People \cup {None},
                           session : Polls \cup {None}, expired : BOOLEAN]
      BY DEF Login!Gone, Login!NoLink
    <3>2. QED
      BY <1>9, <3>1 DEF Login!SignOut, Login!IInv, Login!TypeOK
  <2>2. Login!IdlePolls'
    BY <1>9 DEF Login!SignOut, Login!IInv, Login!IdlePolls, Login!Gone, Login!NoLink
  <2>3. Login!IssuedToOne'
    BY <1>9 DEF Login!SignOut, Login!IInv, Login!IssuedToOne, Login!Gone, Login!Issued,
           Login!NoLink
  <2>4. Login!RevokedGone'
    BY <1>9 DEF Login!SignOut, Login!IInv, Login!RevokedGone, Login!TypeOK, Login!Gone
  <2>5. QED
    BY <2>1, <2>2, <2>3, <2>4 DEF Login!IInv
<1>10. CASE UNCHANGED Login!vars
  BY <1>10 DEF Login!vars, Login!IInv, Login!TypeOK, Login!IdlePolls, Login!IssuedToOne,
         Login!RevokedGone, Login!Issued
<1>11. QED
  BY <1>1, <1>2, <1>3, <1>4, <1>5, <1>6, <1>7, <1>8, <1>9, <1>10 DEF Login!Next

\* The invariant gives one session per link.
LEMMA SessionsSound == Login!IInv => Login!OneSession
<1> SUFFICES ASSUME Login!IInv PROVE Login!OneSession
  OBVIOUS
<1>1. \A l \in Links : Login!Cardinality(Login!Issued(l)) <= 1
  BY AtMostOne, SameCounting DEF Login!IInv, Login!IssuedToOne
<1>2. \A l \in Links : link[l].at = "session" => Login!Issued(l) = {link[l].session}
  BY DEF Login!IInv, Login!IssuedToOne
<1>3. ASSUME NEW p \in Polls, Login!Works(p)
      PROVE  poll[p].link \notin revoked /\ poll[p].pc \in {"issued", "signedIn", "unheard"}
  <2>1. PICK l \in Links : link[l].at = "session" /\ link[l].session = p
    BY <1>3 DEF Login!Works
  <2>2. poll[p].link = l /\ poll[p].pc \notin {"read", "refused", "signedOut"}
    BY <1>3, <2>1 DEF Login!IInv, Login!IssuedToOne, Login!Issued
  <2>3. poll[p].pc # "idle"
    BY <1>3, <2>2, LoginConstants DEF Login!IInv, Login!IdlePolls
  <2>4. l \notin revoked
    BY <2>1 DEF Login!IInv, Login!RevokedGone
  <2>5. QED
    BY <1>3, <2>2, <2>3, <2>4 DEF Login!IInv, Login!TypeOK
<1>4. QED
  BY <1>1, <1>2, <1>3 DEF Login!OneSession

(***************************************************************************)
(* Saved recipients                                                        *)
(***************************************************************************)

\* What is known of its constants.
LEMMA SavedConstants ==
  /\ Adds \cap Deletes = {} /\ Adds \cap Defaults = {} /\ Deletes \cap Defaults = {}
 /\ MaxRecipients \in Nat
BY ServicesConstants

\* What a call of the service holds between its statements.
RecipientTx == [pc : {"idle", "done", "counted", "read", "deleted", "found", "cleared"}, id : Nat,
                first : BOOLEAN, was : BOOLEAN, oldest : Nat, holds : SUBSET Nat]

\* The statements a call may stand at.
TxPoints == {"idle", "done", "counted", "read", "deleted", "found", "cleared"}

\* A call that has not begun.
LEMMA NoTxIsTx == Saved!NoTx \in RecipientTx
BY DEF Saved!NoTx, RecipientTx

\* A call that has read something stays one.
LEMMA TxTypes ==
  ASSUME NEW t \in RecipientTx, NEW x \in TxPoints, NEW i \in Nat, NEW y \in BOOLEAN,
         NEW h \in SUBSET Nat
  PROVE  /\ [t EXCEPT !.pc = x, !.first = y] \in RecipientTx
         /\ [t EXCEPT !.pc = x, !.id = i, !.was = y] \in RecipientTx
         /\ [t EXCEPT !.pc = x, !.id = i, !.holds = h] \in RecipientTx
         /\ [t EXCEPT !.pc = x, !.oldest = i] \in RecipientTx
         /\ [t EXCEPT !.pc = x, !.holds = h] \in RecipientTx
<1>1. /\ [[t EXCEPT !.pc = x] EXCEPT !.first = y] \in RecipientTx
      /\ [[[t EXCEPT !.pc = x] EXCEPT !.id = i] EXCEPT !.was = y] \in RecipientTx
      /\ [[[t EXCEPT !.pc = x] EXCEPT !.id = i] EXCEPT !.holds = h] \in RecipientTx
      /\ [[t EXCEPT !.pc = x] EXCEPT !.oldest = i] \in RecipientTx
      /\ [[t EXCEPT !.pc = x] EXCEPT !.holds = h] \in RecipientTx
  BY DEF RecipientTx, TxPoints
<1>2. [[t EXCEPT !.pc = x] EXCEPT !.first = y] = [t EXCEPT !.pc = x, !.first = y]
  BY DEF RecipientTx
<1>3. [[[t EXCEPT !.pc = x] EXCEPT !.id = i] EXCEPT !.was = y]
        = [t EXCEPT !.pc = x, !.id = i, !.was = y]
  BY DEF RecipientTx
<1>4. [[[t EXCEPT !.pc = x] EXCEPT !.id = i] EXCEPT !.holds = h]
        = [t EXCEPT !.pc = x, !.id = i, !.holds = h]
  BY DEF RecipientTx
<1>5. [[t EXCEPT !.pc = x] EXCEPT !.oldest = i] = [t EXCEPT !.pc = x, !.oldest = i]
  BY DEF RecipientTx
<1>6. [[t EXCEPT !.pc = x] EXCEPT !.holds = h] = [t EXCEPT !.pc = x, !.holds = h]
  BY DEF RecipientTx
<1>7. QED
  BY <1>1, <1>2, <1>3, <1>4, <1>5, <1>6

\* A call begins with what it is given, and history is kept.
LEMMA BeginEffect ==
  ASSUME Saved!TypeOK, NEW c \in Saved!Calls, NEW new \in RecipientTx, Saved!Begin(c, new)
  PROVE  /\ tx' \in [Saved!Calls -> RecipientTx] /\ savedRaced' \in BOOLEAN
         /\ tx'[c] = new /\ \A d \in Saved!Calls \ {c} : tx'[d] = tx[d]
         /\ ~ savedRaced' =>
              ~ savedRaced /\ \A d \in Saved!Calls \ {c} : Saved!Open(d) => {c, d} \cap Deletes = {}
<1>1. /\ tx' = [tx EXCEPT ![c] = new]
      /\ savedRaced'
           = (savedRaced \/ \E d \in Saved!Calls \ {c} : Saved!Open(d) /\ {c, d} \cap Deletes # {})
  BY DEF Saved!Begin
<1>2. /\ tx' \in [Saved!Calls -> RecipientTx] /\ tx'[c] = new
      /\ \A d \in Saved!Calls \ {c} : tx'[d] = tx[d]
  BY <1>1 DEF Saved!TypeOK, RecipientTx
<1>3. savedRaced' \in BOOLEAN
  BY <1>1 DEF Saved!TypeOK
<1>4. QED
  BY <1>1, <1>2, <1>3

\* A call that ends holds nothing.
LEMMA EndEffect ==
  ASSUME Saved!TypeOK, NEW c \in Saved!Calls, Saved!End(c)
  PROVE  /\ tx' \in [Saved!Calls -> RecipientTx]
         /\ tx'[c].pc = "done" /\ \A d \in Saved!Calls \ {c} : tx'[d] = tx[d]
<1> DEFINE r == [tx[c] EXCEPT !.pc = "done", !.holds = {}]
<1>1. tx \in [Saved!Calls -> RecipientTx]
  BY DEF Saved!TypeOK, RecipientTx
<1>2. r \in RecipientTx
  BY <1>1, TxTypes DEF TxPoints
<1>3. r.pc = "done"
  BY <1>1 DEF RecipientTx
<1>4. tx' = [tx EXCEPT ![c] = r]
  BY DEF Saved!End
<1> HIDE DEF r
<1>5. QED
  BY <1>1, <1>2, <1>3, <1>4

\* Adding, deleting and choosing are different calls.
LEMMA CallKinds ==
  /\ Adds \subseteq Saved!Calls /\ Deletes \subseteq Saved!Calls /\ Defaults \subseteq Saved!Calls
  /\ \A a \in Adds : a \notin Deletes /\ a \notin Defaults
  /\ \A d \in Deletes : d \notin Defaults
BY SavedConstants DEF Saved!Calls

\* With fewer recipients a call that adds is as safe as before: no deletion runs with it
\* unless the two raced.
LEMMA FewerRows ==
  ASSUME Saved!IInv, NEW d \in Deletes, Saved!Open(d),
         rows' \subseteq rows, savedRaced' = savedRaced,
         \A c \in Saved!Calls \ {d} : tx'[c] = tx[c]
  PROVE  Saved!AddsSound'
<1>1. \A a \in Adds : tx'[a] = tx[a] /\ (Saved!Open(a)' <=> Saved!Open(a))
  BY CallKinds DEF Saved!Open
<1>2. Saved!IsFiniteSet(rows') /\ Saved!Cardinality(rows') <= Saved!Cardinality(rows)
  BY SavedSubset DEF Saved!IInv, Saved!TypeOK
<1>3. Saved!Cardinality(rows') \in Nat /\ Saved!Cardinality(rows) \in Nat
  BY <1>2, SavedCardinalityType DEF Saved!IInv, Saved!TypeOK
<1>4. \A a \in Adds : Saved!Open(a) => savedRaced
  BY CallKinds DEF Saved!IInv, Saved!DeletesSound
<1>5. QED
  BY <1>1, <1>2, <1>3, <1>4, SavedConstants DEF Saved!IInv, Saved!AddsSound

\* A customer without recipients.
LEMMA SavedStart == Saved!Init => Saved!IInv
<1> SUFFICES ASSUME Saved!Init PROVE Saved!IInv
  OBVIOUS
<1>1. /\ rows = {} /\ chosen = {} /\ nextId = 1 /\ savedRaced = FALSE
      /\ tx = [c \in Saved!Calls |-> Saved!NoTx]
  BY DEF Saved!Init
<1>2. Saved!TypeOK
  <2>1. tx \in [Saved!Calls -> RecipientTx]
    BY <1>1, NoTxIsTx
  <2>2. QED
    BY <1>1, <2>1, SavedEmptySet DEF Saved!TypeOK, RecipientTx
<1>3. \A c \in Saved!Calls : ~ Saved!Open(c) /\ tx[c].pc = "idle"
  BY <1>1 DEF Saved!Open, Saved!NoTx
<1>4. Saved!OneDefault
  BY <1>1, SavedEmptySet, SavedConstants DEF Saved!OneDefault
<1>5. /\ Saved!IdsBelowNext /\ Saved!AddsSound /\ Saved!DeletesInTurn
      /\ Saved!OldestIsAnother /\ Saved!DeletesSound /\ Saved!DefaultsSound
  BY <1>1, <1>3, CallKinds DEF Saved!IdsBelowNext, Saved!AddsSound, Saved!DeletesInTurn,
         Saved!OldestIsAnother, Saved!DeletesSound, Saved!DefaultsSound
<1>6. QED
  BY <1>2, <1>4, <1>5 DEF Saved!IInv

\* Every statement of every call keeps the invariant.
LEMMA SavedStep == Saved!IInv /\ [Saved!Next]_(Saved!vars) => Saved!IInv'
<1> SUFFICES ASSUME Saved!IInv, [Saved!Next]_(Saved!vars) PROVE Saved!IInv'
  OBVIOUS
<1>1. ASSUME NEW a \in Adds, Saved!Count(a)
      PROVE  Saved!IInv'
  <2>1. Saved!TypeOK'
    <3> DEFINE new == [Saved!NoTx EXCEPT !.pc = IF Saved!Cardinality(rows) < MaxRecipients
                                               THEN "counted" ELSE "done",
                                         !.first = (rows = {})]
    <3>1. /\ (rows = {}) \in BOOLEAN
          /\ (IF Saved!Cardinality(rows) < MaxRecipients THEN "counted" ELSE "done") \in TxPoints
      BY <1>1 DEF TxPoints, Saved!IInv, Saved!TypeOK
    <3>2. new \in RecipientTx
      BY <3>1, NoTxIsTx, TxTypes
    <3>3. Saved!Begin(a, new) /\ UNCHANGED <<rows, chosen, nextId>>
      BY <1>1 DEF Saved!Count
    <3> HIDE DEF new
    <3>4. tx' \in [Saved!Calls -> RecipientTx] /\ savedRaced' \in BOOLEAN
      BY <3>2, <3>3, BeginEffect, CallKinds DEF Saved!IInv
    <3>5. QED
      BY <3>3, <3>4 DEF Saved!IInv, Saved!TypeOK, RecipientTx
  <2>2. Saved!AddsSound'
    BY <1>1 DEF Saved!Count, Saved!IInv, Saved!AddsSound, Saved!TypeOK, Saved!Open, Saved!Begin,
           Saved!NoTx, Saved!Calls
  <2>3. Saved!DeletesInTurn'
    BY <1>1, SavedConstants DEF Saved!Count, Saved!IInv, Saved!DeletesInTurn, Saved!Open,
           Saved!Begin
  <2>4. Saved!OldestIsAnother'
    BY <1>1 DEF Saved!Count, Saved!IInv, Saved!OldestIsAnother, Saved!Open, Saved!Begin,
           Saved!NoTx, Saved!Calls
  <2>5. Saved!DeletesSound'
    <3> DEFINE new == [Saved!NoTx EXCEPT !.pc = IF Saved!Cardinality(rows) < MaxRecipients
                                               THEN "counted" ELSE "done",
                                         !.first = (rows = {})]
    <3>1. /\ (rows = {}) \in BOOLEAN
          /\ (IF Saved!Cardinality(rows) < MaxRecipients THEN "counted" ELSE "done") \in TxPoints
      BY <1>1 DEF TxPoints, Saved!IInv, Saved!TypeOK
    <3>2. new \in RecipientTx
      BY <3>1, NoTxIsTx, TxTypes
    <3>3. Saved!Begin(a, new) /\ UNCHANGED <<rows, chosen, nextId>>
      BY <1>1 DEF Saved!Count
    <3> HIDE DEF new
    <3>4. /\ \A e \in Saved!Calls \ {a} : tx'[e] = tx[e]
          /\ ~ savedRaced' => \A e \in Saved!Calls \ {a} : Saved!Open(e) => {a, e} \cap Deletes = {}
      BY <3>2, <3>3, BeginEffect, CallKinds DEF Saved!IInv
    <3>5. ASSUME ~ savedRaced', NEW e \in Deletes, Saved!Open(e)'
          PROVE  FALSE
      <4>1. e \in Saved!Calls \ {a}
        BY <1>1, <3>5, CallKinds
      <4>2. Saved!Open(e)
        BY <3>4, <3>5, <4>1 DEF Saved!Open
      <4>3. QED
        BY <3>4, <3>5, <4>1, <4>2
    <3>6. QED
      BY <3>5 DEF Saved!DeletesSound
  <2>6. Saved!DefaultsSound'
    BY <1>1, SavedConstants DEF Saved!Count, Saved!IInv, Saved!DefaultsSound, Saved!Open,
           Saved!Begin, Saved!TypeOK
  <2>7. Saved!OneDefault'
    BY <1>1 DEF Saved!Count, Saved!IInv, Saved!OneDefault, Saved!Open, Saved!Begin, Saved!NoTx,
           Saved!Calls
  <2>8. Saved!IdsBelowNext'
    BY <1>1 DEF Saved!Count, Saved!Begin, Saved!IInv, Saved!IdsBelowNext
  <2>9. QED
    BY <2>1, <2>2, <2>3, <2>4, <2>5, <2>6, <2>7, <2>8 DEF Saved!IInv
<1>2. ASSUME NEW a \in Adds, Saved!Save(a)
      PROVE  Saved!IInv'
  <2>1. Saved!TypeOK'
    <3>1. /\ rows' = rows \cup {nextId} /\ nextId' = nextId + 1
          /\ chosen' \subseteq chosen \cup {nextId} /\ savedRaced' = savedRaced
      BY <1>2 DEF Saved!Save, Saved!IInv, Saved!TypeOK
    <3>2. tx' \in [Saved!Calls -> RecipientTx]
      BY <1>2, EndEffect, CallKinds DEF Saved!Save, Saved!IInv
    <3>3. rows' \subseteq Nat /\ nextId' \in Nat /\ chosen' \subseteq rows'
      BY <3>1 DEF Saved!IInv, Saved!TypeOK
    <3>4. Saved!IsFiniteSet(rows')
      BY <3>1, SavedAddElement, SavedRemoveElement DEF Saved!IInv, Saved!TypeOK
    <3>5. QED
      BY <3>1, <3>2, <3>3, <3>4 DEF Saved!IInv, Saved!TypeOK, RecipientTx
  <2>2. Saved!IdsBelowNext'
    BY <1>2 DEF Saved!Save, Saved!IInv, Saved!IdsBelowNext, Saved!TypeOK
  <2>3. Saved!AddsSound'
    BY <1>2 DEF Saved!Save, Saved!IInv, Saved!AddsSound, Saved!TypeOK, Saved!End, Saved!Open,
           Saved!Calls
  <2>4. Saved!DeletesInTurn'
    BY <1>2 DEF Saved!Save, Saved!IInv, Saved!DeletesInTurn, Saved!TypeOK, Saved!End, Saved!Open,
           Saved!Calls
  <2>5. Saved!OldestIsAnother'
    BY <1>2 DEF Saved!Save, Saved!IInv, Saved!OldestIsAnother, Saved!TypeOK, Saved!End,
           Saved!Calls
  <2>6. Saved!DeletesSound'
    BY <1>2 DEF Saved!Save, Saved!IInv, Saved!DeletesSound, Saved!TypeOK, Saved!End, Saved!Open,
           Saved!Calls
  <2>7. Saved!DefaultsSound'
    BY <1>2 DEF Saved!Save, Saved!IInv, Saved!DefaultsSound, Saved!End, Saved!TypeOK,
           Saved!AddsSound, Saved!Open, Saved!Calls
  <2>8. Saved!OneDefault'
    <3>1. /\ rows' = rows \cup {nextId} /\ nextId \notin rows /\ savedRaced' = savedRaced
          /\ chosen' = IF tx[a].first THEN chosen \cup {nextId} ELSE chosen
      BY <1>2 DEF Saved!Save, Saved!IInv, Saved!TypeOK, Saved!IdsBelowNext
    <3>2. /\ Saved!Cardinality(rows) < MaxRecipients
          /\ (~ savedRaced => (tx[a].first <=> rows = {}))
      BY <1>2 DEF Saved!Save, Saved!Open, Saved!IInv, Saved!AddsSound
    <3>3. Saved!IsFiniteSet(rows) /\ Saved!Cardinality(rows) \in Nat
      BY SavedCardinalityType DEF Saved!IInv, Saved!TypeOK
    <3>4. Saved!Cardinality(rows') <= MaxRecipients
      <4>1. Saved!Cardinality(rows \cup {nextId}) = Saved!Cardinality(rows) + 1
        BY <3>1, <3>3, SavedAddElement
      <4>2. QED
        BY <3>1, <3>2, <3>3, <4>1, SavedConstants
    <3>5. chosen' \subseteq rows'
      BY <3>1 DEF Saved!IInv, Saved!TypeOK
    <3>6. CASE savedRaced
      BY <3>1, <3>4, <3>5, <3>6 DEF Saved!OneDefault
    <3>7. CASE ~ savedRaced /\ rows = {}
      <4>1. chosen' = {nextId}
        BY <3>1, <3>2, <3>7 DEF Saved!IInv, Saved!TypeOK
      <4>2. Saved!Cardinality(chosen') = 1
        BY <4>1, SavedSingleton
      <4>3. QED
        BY <3>4, <3>5, <4>2 DEF Saved!OneDefault
    <3>8. CASE ~ savedRaced /\ rows # {}
      BY <3>1, <3>2, <3>4, <3>5, <3>8 DEF Saved!OneDefault, Saved!IInv
    <3>9. QED
      BY <3>6, <3>7, <3>8
  <2>9. QED
    BY <2>1, <2>2, <2>3, <2>4, <2>5, <2>6, <2>7, <2>8 DEF Saved!IInv
<1>3. ASSUME NEW a \in Adds, Saved!SaveAgain(a)
      PROVE  Saved!IInv'
  <2>1. Saved!TypeOK'
    <3>1. rows' = rows /\ nextId' = nextId /\ chosen' = chosen /\ savedRaced' = savedRaced
      BY <1>3 DEF Saved!SaveAgain, Saved!IInv, Saved!TypeOK
    <3>2. tx' \in [Saved!Calls -> RecipientTx]
      BY <1>3, EndEffect, CallKinds DEF Saved!SaveAgain, Saved!IInv
    <3>3. rows' \subseteq Nat /\ nextId' \in Nat /\ chosen' \subseteq rows'
      BY <3>1 DEF Saved!IInv, Saved!TypeOK
    <3>4. Saved!IsFiniteSet(rows')
      BY <3>1, SavedAddElement, SavedRemoveElement DEF Saved!IInv, Saved!TypeOK
    <3>5. QED
      BY <3>1, <3>2, <3>3, <3>4 DEF Saved!IInv, Saved!TypeOK, RecipientTx
  <2>2. Saved!AddsSound'
    BY <1>3 DEF Saved!SaveAgain, Saved!IInv, Saved!AddsSound, Saved!TypeOK, Saved!End,
           Saved!Open, Saved!Calls
  <2>3. Saved!DeletesInTurn'
    BY <1>3 DEF Saved!SaveAgain, Saved!IInv, Saved!DeletesInTurn, Saved!TypeOK, Saved!End,
           Saved!Open, Saved!Calls
  <2>4. Saved!OldestIsAnother'
    BY <1>3 DEF Saved!SaveAgain, Saved!IInv, Saved!OldestIsAnother, Saved!TypeOK, Saved!End,
           Saved!Calls
  <2>5. Saved!DeletesSound'
    BY <1>3 DEF Saved!SaveAgain, Saved!IInv, Saved!DeletesSound, Saved!TypeOK, Saved!End,
           Saved!Open, Saved!Calls
  <2>6. Saved!DefaultsSound'
    BY <1>3 DEF Saved!SaveAgain, Saved!IInv, Saved!DefaultsSound, Saved!TypeOK, Saved!End,
           Saved!Open, Saved!Calls
  <2>7. Saved!IdsBelowNext' /\ Saved!OneDefault'
    BY <1>3 DEF Saved!SaveAgain, Saved!End, Saved!IInv, Saved!IdsBelowNext, Saved!OneDefault
  <2>8. QED
    BY <2>1, <2>2, <2>3, <2>4, <2>5, <2>6, <2>7 DEF Saved!IInv
<1>4. ASSUME NEW d \in Deletes, NEW id \in rows, Saved!ReadRow(d, id)
      PROVE  Saved!IInv'
  <2>1. Saved!TypeOK'
    <3> DEFINE new == [Saved!NoTx EXCEPT !.pc = "read", !.id = id, !.was = (id \in chosen)]
    <3>1. (id \in chosen) \in BOOLEAN /\ id \in Nat /\ "read" \in TxPoints
      BY <1>4 DEF TxPoints, Saved!IInv, Saved!TypeOK
    <3>2. new \in RecipientTx
      BY <3>1, NoTxIsTx, TxTypes
    <3>3. Saved!Begin(d, new) /\ UNCHANGED <<rows, chosen, nextId>>
      BY <1>4 DEF Saved!ReadRow
    <3> HIDE DEF new
    <3>4. tx' \in [Saved!Calls -> RecipientTx] /\ savedRaced' \in BOOLEAN
      BY <3>2, <3>3, BeginEffect, CallKinds DEF Saved!IInv
    <3>5. QED
      BY <3>3, <3>4 DEF Saved!IInv, Saved!TypeOK, RecipientTx
  <2>2. Saved!AddsSound'
    BY <1>4, SavedConstants DEF Saved!ReadRow, Saved!IInv, Saved!AddsSound, Saved!Begin,
           Saved!TypeOK, Saved!Open
  <2>3. Saved!DeletesInTurn'
    BY <1>4 DEF Saved!ReadRow, Saved!IInv, Saved!DeletesInTurn, Saved!Begin, Saved!NoTx,
           Saved!Open, Saved!Calls
  <2>4. Saved!OldestIsAnother'
    BY <1>4 DEF Saved!ReadRow, Saved!IInv, Saved!OldestIsAnother, Saved!Begin, Saved!NoTx,
           Saved!Calls, Saved!Open
  <2>5. Saved!DeletesSound'
    BY <1>4 DEF Saved!ReadRow, Saved!IInv, Saved!DeletesSound, Saved!Begin, Saved!NoTx,
           Saved!TypeOK, Saved!DeletesInTurn, Saved!OldestIsAnother, Saved!Open, Saved!Calls
  <2>6. Saved!DefaultsSound'
    BY <1>4, SavedConstants DEF Saved!ReadRow, Saved!IInv, Saved!DefaultsSound, Saved!Begin,
           Saved!TypeOK, Saved!Open
  <2>7. Saved!OneDefault'
    BY <1>4 DEF Saved!ReadRow, Saved!IInv, Saved!OneDefault, Saved!Begin, Saved!NoTx,
           Saved!Calls, Saved!Open
  <2>8. Saved!IdsBelowNext'
    BY <1>4 DEF Saved!ReadRow, Saved!Begin, Saved!IInv, Saved!IdsBelowNext
  <2>9. QED
    BY <2>1, <2>2, <2>3, <2>4, <2>5, <2>6, <2>7, <2>8 DEF Saved!IInv
<1>5. ASSUME NEW d \in Deletes, Saved!DeleteRow(d)
      PROVE  Saved!IInv'
  <2>1. Saved!TypeOK'
    <3> DEFINE k == tx[d].id
               r == [tx[d] EXCEPT !.pc = "deleted", !.holds = {k} \cap rows]
    <3>1. CASE tx[d].was
      <4>1. r \in RecipientTx
        <5>1. tx[d] \in RecipientTx /\ {k} \cap rows \in SUBSET Nat /\ "deleted" \in TxPoints
          BY CallKinds DEF Saved!IInv, Saved!TypeOK, TxPoints, RecipientTx
        <5>2. QED
          BY <5>1, TxTypes
      <4>2. tx' = [tx EXCEPT ![d] = r] /\ UNCHANGED <<rows, chosen, nextId, savedRaced>>
        BY <1>5, <3>1 DEF Saved!DeleteRow
      <4> HIDE DEF r
      <4>3. QED
        BY <4>1, <4>2, CallKinds DEF Saved!IInv, Saved!TypeOK, RecipientTx
    <3>2. CASE ~ tx[d].was
      <4>1. /\ rows' = rows \ {k} /\ chosen' = chosen \ {k} /\ nextId' = nextId
            /\ savedRaced' = savedRaced /\ Saved!End(d)
        BY <1>5, <3>2 DEF Saved!DeleteRow
      <4>2. tx' \in [Saved!Calls -> RecipientTx]
        BY <4>1, EndEffect, CallKinds DEF Saved!IInv
      <4>3. Saved!IsFiniteSet(rows')
        BY <4>1, SavedRemoveElement DEF Saved!IInv, Saved!TypeOK
      <4>4. QED
        BY <4>1, <4>2, <4>3 DEF Saved!IInv, Saved!TypeOK, RecipientTx
    <3>3. QED
      BY <3>1, <3>2
  <2>2. Saved!IdsBelowNext'
    BY <1>5 DEF Saved!DeleteRow, Saved!IInv, Saved!IdsBelowNext, Saved!Held, Saved!End,
           Saved!Calls
  <2>3. Saved!AddsSound'
    <3>1. Saved!Open(d) /\ rows' \subseteq rows /\ savedRaced' = savedRaced
      BY <1>5 DEF Saved!DeleteRow, Saved!Open
    <3>2. \A c \in Saved!Calls \ {d} : tx'[c] = tx[c]
      BY <1>5 DEF Saved!DeleteRow, Saved!End, Saved!IInv, Saved!TypeOK
    <3>3. QED
      BY <1>5, <3>1, <3>2, FewerRows
  <2>4. Saved!DeletesInTurn'
    BY <1>5 DEF Saved!DeleteRow, Saved!IInv, Saved!DeletesInTurn, Saved!TypeOK, Saved!End,
           Saved!Open, Saved!Calls
  <2>5. Saved!OldestIsAnother'
    BY <1>5 DEF Saved!DeleteRow, Saved!IInv, Saved!OldestIsAnother, Saved!TypeOK, Saved!End,
           Saved!Calls
  <2>6. Saved!DeletesSound'
    BY <1>5 DEF Saved!DeleteRow, Saved!IInv, Saved!DeletesSound, Saved!TypeOK, Saved!End,
           Saved!Open, Saved!Calls
  <2>7. Saved!DefaultsSound'
    BY <1>5 DEF Saved!DeleteRow, Saved!IInv, Saved!DefaultsSound, Saved!TypeOK, Saved!Held,
           Saved!End, Saved!Open, Saved!Calls
  <2>8. Saved!OneDefault'
    <3> DEFINE k == tx[d].id
    <3>1. CASE tx[d].was
      BY <1>5, <3>1 DEF Saved!DeleteRow, Saved!IInv, Saved!OneDefault
    <3>2. CASE ~ tx[d].was
      <4>1. rows' = rows \ {k} /\ chosen' = chosen \ {k} /\ savedRaced' = savedRaced
        BY <1>5, <3>2 DEF Saved!DeleteRow
      <4>2. Saved!Cardinality(rows') <= MaxRecipients
        <5>1. Saved!Cardinality(rows \ {k}) <= Saved!Cardinality(rows)
          BY SavedSubset DEF Saved!IInv, Saved!TypeOK
        <5>2. /\ Saved!Cardinality(rows) \in Nat /\ Saved!Cardinality(rows \ {k}) \in Nat
              /\ Saved!Cardinality(rows) <= MaxRecipients
          BY SavedCardinalityType, SavedRemoveElement DEF Saved!IInv, Saved!TypeOK,
                 Saved!OneDefault
        <5>3. QED
          BY <4>1, <5>1, <5>2, SavedConstants
      <4>3. ~ savedRaced => chosen' = chosen
        BY <1>5, <3>2, <4>1 DEF Saved!DeleteRow, Saved!IInv, Saved!DeletesSound, Saved!Open
      <4>4. QED
        BY <4>1, <4>2, <4>3 DEF Saved!IInv, Saved!OneDefault
    <3>3. QED
      BY <3>1, <3>2
  <2>9. QED
    BY <2>1, <2>2, <2>3, <2>4, <2>5, <2>6, <2>7, <2>8 DEF Saved!IInv
<1>6. ASSUME NEW d \in Deletes, Saved!FindOldest(d)
      PROVE  Saved!IInv'
  <2>1. Saved!TypeOK'
    <3> DEFINE rest == rows \ {tx[d].id}
    <3>1. CASE rest # {}
      <4>1. PICK id \in rest : tx' = [tx EXCEPT ![d].pc = "found", ![d].oldest = id]
        BY <1>6, <3>1 DEF Saved!FindOldest
      <4> DEFINE r == [tx[d] EXCEPT !.pc = "found", !.oldest = id]
      <4>2. id \in Nat
        BY DEF Saved!IInv, Saved!TypeOK
      <4>3. r \in RecipientTx
        <5>1. tx[d] \in RecipientTx /\ "found" \in TxPoints
          BY CallKinds DEF Saved!IInv, Saved!TypeOK, TxPoints, RecipientTx
        <5>2. QED
          BY <4>2, <5>1, TxTypes
      <4>4. tx' = [tx EXCEPT ![d] = r] /\ UNCHANGED <<rows, chosen, nextId, savedRaced>>
        BY <4>1, <1>6, <3>1 DEF Saved!FindOldest
      <4> HIDE DEF r
      <4>5. QED
        BY <4>3, <4>4, CallKinds DEF Saved!IInv, Saved!TypeOK, RecipientTx
    <3>2. CASE rest = {}
      <4>1. /\ rows' = {} /\ chosen' = {} /\ nextId' = nextId /\ savedRaced' = savedRaced
            /\ Saved!End(d)
        BY <1>6, <3>2 DEF Saved!FindOldest
      <4>2. tx' \in [Saved!Calls -> RecipientTx]
        BY <4>1, EndEffect, CallKinds DEF Saved!IInv
      <4>3. QED
        BY <4>1, <4>2, SavedEmptySet DEF Saved!IInv, Saved!TypeOK, RecipientTx
    <3>3. QED
      BY <3>1, <3>2
  <2>2. Saved!IdsBelowNext'
    BY <1>6 DEF Saved!FindOldest, Saved!IInv, Saved!IdsBelowNext, Saved!End
  <2>3. Saved!AddsSound'
    <3>1. Saved!Open(d) /\ rows' \subseteq rows /\ savedRaced' = savedRaced
      BY <1>6 DEF Saved!FindOldest, Saved!Open
    <3>2. \A c \in Saved!Calls \ {d} : tx'[c] = tx[c]
      BY <1>6 DEF Saved!FindOldest, Saved!End, Saved!IInv, Saved!TypeOK
    <3>3. QED
      BY <1>6, <3>1, <3>2, FewerRows
  <2>4. Saved!DeletesInTurn'
    BY <1>6 DEF Saved!FindOldest, Saved!IInv, Saved!DeletesInTurn, Saved!TypeOK, Saved!End,
           Saved!Open, Saved!Calls
  <2>5. Saved!OldestIsAnother'
    BY <1>6 DEF Saved!FindOldest, Saved!IInv, Saved!OldestIsAnother, Saved!TypeOK, Saved!End,
           Saved!Calls
  <2>6. Saved!DeletesSound'
    BY <1>6 DEF Saved!FindOldest, Saved!IInv, Saved!DeletesSound, Saved!TypeOK, Saved!End,
           Saved!Open, Saved!Calls
  <2>7. Saved!DefaultsSound'
    BY <1>6 DEF Saved!FindOldest, Saved!IInv, Saved!DefaultsSound, Saved!TypeOK, Saved!End,
           Saved!Open, Saved!Calls
  <2>8. Saved!OneDefault'
    <3> DEFINE rest == rows \ {tx[d].id}
    <3>1. CASE rest # {}
      BY <1>6, <3>1 DEF Saved!FindOldest, Saved!IInv, Saved!OneDefault
    <3>2. CASE rest = {}
      <4>1. rows' = {} /\ chosen' = {}
        BY <1>6, <3>2 DEF Saved!FindOldest
      <4>2. QED
        BY <4>1, SavedEmptySet, SavedConstants DEF Saved!OneDefault
    <3>3. QED
      BY <3>1, <3>2
  <2>9. QED
    BY <2>1, <2>2, <2>3, <2>4, <2>5, <2>6, <2>7, <2>8 DEF Saved!IInv
<1>7. ASSUME NEW d \in Deletes, Saved!MarkOldest(d)
      PROVE  Saved!IInv'
  <2>1. Saved!TypeOK'
    <3>1. /\ rows' = rows \ {tx[d].id} /\ nextId' = nextId
          /\ chosen' = (chosen \ {tx[d].id}) \cup ({tx[d].oldest} \cap rows)
          /\ savedRaced' = savedRaced
      BY <1>7 DEF Saved!MarkOldest, Saved!IInv, Saved!TypeOK
    <3>2. tx' \in [Saved!Calls -> RecipientTx]
      BY <1>7, EndEffect, CallKinds DEF Saved!MarkOldest, Saved!IInv
    <3>3. rows' \subseteq Nat /\ nextId' \in Nat /\ chosen' \subseteq rows'
      BY <3>1, <1>7 DEF Saved!IInv, Saved!TypeOK, Saved!OldestIsAnother, Saved!MarkOldest
    <3>4. Saved!IsFiniteSet(rows')
      BY <3>1, SavedAddElement, SavedRemoveElement DEF Saved!IInv, Saved!TypeOK
    <3>5. QED
      BY <3>1, <3>2, <3>3, <3>4 DEF Saved!IInv, Saved!TypeOK, RecipientTx
  <2>2. Saved!IdsBelowNext'
    BY <1>7 DEF Saved!MarkOldest, Saved!IInv, Saved!IdsBelowNext, Saved!Held, Saved!End,
           Saved!Calls
  <2>3. Saved!AddsSound'
    <3>1. Saved!Open(d) /\ rows' \subseteq rows /\ savedRaced' = savedRaced
      BY <1>7 DEF Saved!MarkOldest, Saved!Open
    <3>2. \A c \in Saved!Calls \ {d} : tx'[c] = tx[c]
      BY <1>7 DEF Saved!MarkOldest, Saved!End, Saved!IInv, Saved!TypeOK
    <3>3. QED
      BY <1>7, <3>1, <3>2, FewerRows
  <2>4. Saved!DeletesInTurn'
    BY <1>7 DEF Saved!MarkOldest, Saved!IInv, Saved!DeletesInTurn, Saved!TypeOK, Saved!Held,
           Saved!End, Saved!Open, Saved!Calls
  <2>5. Saved!OldestIsAnother'
    BY <1>7 DEF Saved!MarkOldest, Saved!IInv, Saved!OldestIsAnother, Saved!TypeOK, Saved!Held,
           Saved!End, Saved!Calls
  <2>6. Saved!DeletesSound'
    BY <1>7 DEF Saved!MarkOldest, Saved!IInv, Saved!DeletesSound, Saved!TypeOK, Saved!Held,
           Saved!End, Saved!Open, Saved!Calls
  <2>7. Saved!DefaultsSound'
    BY <1>7, SavedConstants DEF Saved!MarkOldest, Saved!IInv, Saved!DefaultsSound, Saved!Held,
           Saved!End, Saved!TypeOK, Saved!IdsBelowNext, Saved!AddsSound, Saved!DeletesInTurn,
           Saved!OldestIsAnother, Saved!DeletesSound, Saved!OneDefault, Saved!Open, Saved!Calls
  <2>8. Saved!OneDefault'
    <3> DEFINE k == tx[d].id
               o == tx[d].oldest
    <3>1. /\ rows' = rows \ {k} /\ chosen' = (chosen \ {k}) \cup ({o} \cap rows)
          /\ savedRaced' = savedRaced /\ tx[d].pc = "found"
      BY <1>7 DEF Saved!MarkOldest
    <3>2. o # k
      BY <3>1 DEF Saved!IInv, Saved!OldestIsAnother
    <3>3. Saved!Cardinality(rows') <= MaxRecipients
      <4>1. Saved!Cardinality(rows \ {k}) <= Saved!Cardinality(rows)
        BY SavedSubset DEF Saved!IInv, Saved!TypeOK
      <4>2. /\ Saved!Cardinality(rows) \in Nat /\ Saved!Cardinality(rows \ {k}) \in Nat
            /\ Saved!Cardinality(rows) <= MaxRecipients
        BY SavedCardinalityType, SavedRemoveElement DEF Saved!IInv, Saved!TypeOK, Saved!OneDefault
      <4>3. QED
        BY <3>1, <4>1, <4>2, SavedConstants
    <3>4. chosen' \subseteq rows'
      BY <3>1, <3>2 DEF Saved!IInv, Saved!TypeOK
    <3>5. ASSUME ~ savedRaced
          PROVE  Saved!Cardinality(chosen') = 1
      <4>1. k \in rows /\ k \in chosen /\ o \in rows
        BY <3>1, <3>5 DEF Saved!IInv, Saved!DeletesSound, Saved!Open
      <4>2. Saved!Cardinality(chosen) = 1 /\ Saved!IsFiniteSet(chosen)
        BY <3>5, <4>1, SavedSubset DEF Saved!IInv, Saved!OneDefault, Saved!TypeOK
      <4>3. chosen = {k}
        BY <4>1, <4>2, SavedSingleton
      <4>4. chosen' = {o}
        BY <3>1, <4>1, <4>3
      <4>5. QED
        BY <4>4, SavedSingleton
    <3>6. QED
      BY <3>1, <3>3, <3>4, <3>5 DEF Saved!OneDefault
  <2>9. QED
    BY <2>1, <2>2, <2>3, <2>4, <2>5, <2>6, <2>7, <2>8 DEF Saved!IInv
<1>8. ASSUME NEW c \in Defaults, NEW id \in 1..(nextId - 1), Saved!ClearDefault(c, id)
      PROVE  Saved!IInv'
  <2>1. Saved!TypeOK'
    <3> DEFINE new == [Saved!NoTx EXCEPT !.pc = "cleared", !.id = id, !.holds = rows]
    <3>1. rows \in SUBSET Nat /\ id \in Nat /\ "cleared" \in TxPoints
      BY <1>8 DEF TxPoints, Saved!IInv, Saved!TypeOK
    <3>2. new \in RecipientTx
      BY <3>1, NoTxIsTx, TxTypes
    <3>3. Saved!Begin(c, new) /\ UNCHANGED <<rows, chosen, nextId>>
      BY <1>8 DEF Saved!ClearDefault
    <3> HIDE DEF new
    <3>4. tx' \in [Saved!Calls -> RecipientTx] /\ savedRaced' \in BOOLEAN
      BY <3>2, <3>3, BeginEffect, CallKinds DEF Saved!IInv
    <3>5. QED
      BY <3>3, <3>4 DEF Saved!IInv, Saved!TypeOK, RecipientTx
  <2>2. Saved!AddsSound'
    BY <1>8, SavedConstants DEF Saved!ClearDefault, Saved!IInv, Saved!AddsSound, Saved!Held,
           Saved!Begin, Saved!NoTx, Saved!TypeOK, Saved!IdsBelowNext, Saved!DeletesInTurn,
           Saved!OldestIsAnother, Saved!DeletesSound, Saved!DefaultsSound, Saved!OneDefault,
           Saved!Open, Saved!Calls
  <2>3. Saved!DeletesInTurn'
    BY <1>8, SavedConstants DEF Saved!ClearDefault, Saved!IInv, Saved!DeletesInTurn, Saved!Held,
           Saved!Begin, Saved!NoTx, Saved!TypeOK, Saved!IdsBelowNext, Saved!AddsSound,
           Saved!OldestIsAnother, Saved!DeletesSound, Saved!DefaultsSound, Saved!OneDefault,
           Saved!Open, Saved!Calls
  <2>4. Saved!OldestIsAnother'
    BY <1>8 DEF Saved!ClearDefault, Saved!IInv, Saved!OldestIsAnother, Saved!Held, Saved!Begin,
           Saved!NoTx, Saved!Calls, Saved!Open
  <2>5. Saved!DeletesSound'
    <3> DEFINE new == [Saved!NoTx EXCEPT !.pc = "cleared", !.id = id, !.holds = rows]
    <3>1. rows \in SUBSET Nat /\ id \in Nat /\ "cleared" \in TxPoints
      BY <1>8 DEF TxPoints, Saved!IInv, Saved!TypeOK
    <3>2. new \in RecipientTx
      BY <3>1, NoTxIsTx, TxTypes
    <3>3. Saved!Begin(c, new) /\ UNCHANGED <<rows, chosen, nextId>>
      BY <1>8 DEF Saved!ClearDefault
    <3> HIDE DEF new
    <3>4. /\ \A e \in Saved!Calls \ {c} : tx'[e] = tx[e]
          /\ ~ savedRaced' => \A e \in Saved!Calls \ {c} : Saved!Open(e) => {c, e} \cap Deletes = {}
      BY <3>2, <3>3, BeginEffect, CallKinds DEF Saved!IInv
    <3>5. ASSUME ~ savedRaced', NEW e \in Deletes, Saved!Open(e)'
          PROVE  FALSE
      <4>1. e \in Saved!Calls \ {c}
        BY <1>8, <3>5, CallKinds
      <4>2. Saved!Open(e)
        BY <3>4, <3>5, <4>1 DEF Saved!Open
      <4>3. QED
        BY <3>4, <3>5, <4>1, <4>2
    <3>6. QED
      BY <3>5 DEF Saved!DeletesSound
  <2>6. Saved!DefaultsSound'
    BY <1>8 DEF Saved!ClearDefault, Saved!IInv, Saved!DefaultsSound, Saved!TypeOK, Saved!Held,
           Saved!Begin, Saved!NoTx, Saved!Open, Saved!Calls
  <2>7. Saved!OneDefault'
    BY <1>8 DEF Saved!ClearDefault, Saved!IInv, Saved!OneDefault, Saved!Held, Saved!Begin,
           Saved!NoTx, Saved!Calls, Saved!Open
  <2>8. Saved!IdsBelowNext'
    BY <1>8 DEF Saved!ClearDefault, Saved!Begin, Saved!IInv, Saved!IdsBelowNext
  <2>9. QED
    BY <2>1, <2>2, <2>3, <2>4, <2>5, <2>6, <2>7, <2>8 DEF Saved!IInv
<1>9. ASSUME NEW c \in Defaults, Saved!SetDefault(c)
      PROVE  Saved!IInv'
  <2>1. Saved!TypeOK'
    <3>1. rows' = rows /\ nextId' = nextId /\ chosen' \subseteq rows /\ savedRaced' = savedRaced
      BY <1>9 DEF Saved!SetDefault, Saved!IInv, Saved!TypeOK
    <3>2. tx' \in [Saved!Calls -> RecipientTx]
      BY <1>9, EndEffect, CallKinds DEF Saved!SetDefault, Saved!IInv
    <3>3. rows' \subseteq Nat /\ nextId' \in Nat /\ chosen' \subseteq rows'
      BY <3>1 DEF Saved!IInv, Saved!TypeOK
    <3>4. Saved!IsFiniteSet(rows')
      BY <3>1, SavedAddElement, SavedRemoveElement DEF Saved!IInv, Saved!TypeOK
    <3>5. QED
      BY <3>1, <3>2, <3>3, <3>4 DEF Saved!IInv, Saved!TypeOK, RecipientTx
  <2>2. Saved!AddsSound'
    BY <1>9 DEF Saved!SetDefault, Saved!IInv, Saved!AddsSound, Saved!TypeOK, Saved!Held,
           Saved!End, Saved!Open, Saved!Calls
  <2>3. Saved!DeletesInTurn'
    BY <1>9 DEF Saved!SetDefault, Saved!IInv, Saved!DeletesInTurn, Saved!TypeOK, Saved!Held,
           Saved!End, Saved!Open, Saved!Calls
  <2>4. Saved!OldestIsAnother'
    BY <1>9 DEF Saved!SetDefault, Saved!IInv, Saved!OldestIsAnother, Saved!TypeOK, Saved!Held,
           Saved!End, Saved!Calls
  <2>5. Saved!DeletesSound'
    BY <1>9 DEF Saved!SetDefault, Saved!IInv, Saved!DeletesSound, Saved!TypeOK, Saved!Held,
           Saved!End, Saved!Open, Saved!Calls
  <2>6. Saved!DefaultsSound'
    BY <1>9 DEF Saved!SetDefault, Saved!IInv, Saved!DefaultsSound, Saved!TypeOK, Saved!Held,
           Saved!End, Saved!Open, Saved!Calls
  <2>7. Saved!OneDefault'
    <3> DEFINE k == tx[c].id
    <3>1. CASE k \notin rows
      BY <1>9, <3>1 DEF Saved!SetDefault, Saved!IInv, Saved!OneDefault
    <3>2. CASE k \in rows
      <4>1. rows' = rows /\ savedRaced' = savedRaced /\ chosen' = (chosen \ tx[c].holds) \cup {k}
        BY <1>9, <3>2 DEF Saved!SetDefault
      <4>2. ~ savedRaced => chosen' = {k}
        BY <1>9, <3>2, <4>1 DEF Saved!SetDefault, Saved!Open, Saved!IInv, Saved!DefaultsSound
      <4>3. ~ savedRaced => Saved!Cardinality(chosen') = 1
        BY <4>2, SavedSingleton
      <4>4. chosen' \subseteq rows'
        BY <3>2, <4>1 DEF Saved!IInv, Saved!TypeOK
      <4>5. QED
        BY <4>1, <4>3, <4>4 DEF Saved!IInv, Saved!OneDefault
    <3>3. QED
      BY <3>1, <3>2
  <2>8. Saved!IdsBelowNext'
    BY <1>9 DEF Saved!SetDefault, Saved!End, Saved!IInv, Saved!IdsBelowNext
  <2>9. QED
    BY <2>1, <2>2, <2>3, <2>4, <2>5, <2>6, <2>7, <2>8 DEF Saved!IInv
<1>10. CASE UNCHANGED Saved!vars
  BY <1>10 DEF Saved!vars, Saved!IInv, Saved!TypeOK, Saved!IdsBelowNext, Saved!AddsSound,
         Saved!DeletesInTurn, Saved!OldestIsAnother, Saved!DeletesSound, Saved!DefaultsSound,
         Saved!OneDefault, Saved!Calls, Saved!Open
<1>11. QED
  BY <1>1, <1>2, <1>3, <1>4, <1>5, <1>6, <1>7, <1>8, <1>9, <1>10 DEF Saved!Next

(***************************************************************************)
(* Groups of curators                                                      *)
(***************************************************************************)

\* No call has begun.
LEMMA CuratorsStart == Curators!Init => Curators!IInv
<1> SUFFICES ASSUME Curators!Init PROVE Curators!IInv
  OBVIOUS
<1>1. Curators!TypeOK
  BY DEF Curators!Init, Curators!TypeOK
<1>2. /\ Curators!GroupsExist /\ Curators!DeletionsApart /\ Curators!CountsHold
      /\ Curators!CuratorsOnly
  BY DEF Curators!Init, Curators!GroupsExist, Curators!DeletionsApart, Curators!CountsHold,
         Curators!CuratorsOnly, Curators!InTx
<1>3. QED
  BY <1>1, <1>2 DEF Curators!IInv

\* Deletions of groups and saves of products keep the invariant.
LEMMA CuratorsStep == Curators!IInv /\ [Curators!Next]_(Curators!vars) => Curators!IInv'
<1> SUFFICES ASSUME Curators!IInv, [Curators!Next]_(Curators!vars) PROVE Curators!IInv'
  OBVIOUS
<1>1. ASSUME NEW d \in Deletions, NEW g \in groups, Curators!LockGroup(d, g)
      PROVE  Curators!IInv'
  <2>1. Curators!TypeOK'
    BY <1>1 DEF Curators!LockGroup, Curators!IInv, Curators!TypeOK, Curators!Locked, Curators!InTx
  <2>2. Curators!DeletionsApart'
    BY <1>1 DEF Curators!LockGroup, Curators!IInv, Curators!DeletionsApart, Curators!TypeOK,
           Curators!Locked, Curators!InTx
  <2>3. Curators!CountsHold'
    BY <1>1 DEF Curators!LockGroup, Curators!IInv, Curators!CountsHold, Curators!TypeOK
  <2>4. Curators!CuratorsOnly'
    BY <1>1 DEF Curators!LockGroup, Curators!IInv, Curators!CuratorsOnly, Curators!Locked,
           Curators!InTx, Curators!Public
  <2>5. Curators!GroupsExist'
    BY <1>1 DEF Curators!LockGroup, Curators!IInv, Curators!GroupsExist
  <2>6. QED
    BY <2>1, <2>2, <2>3, <2>4, <2>5 DEF Curators!IInv
<1>2. ASSUME NEW d \in Deletions, Curators!CountOnly(d)
      PROVE  Curators!IInv'
  <2>1. Curators!TypeOK'
    BY <1>2 DEF Curators!CountOnly, Curators!IInv, Curators!TypeOK
  <2>2. Curators!DeletionsApart'
    BY <1>2 DEF Curators!CountOnly, Curators!IInv, Curators!DeletionsApart, Curators!InTx
  <2>3. Curators!CountsHold'
    BY <1>2 DEF Curators!CountOnly, Curators!IInv, Curators!CountsHold
  <2>4. Curators!GroupsExist' /\ Curators!CuratorsOnly'
    BY <1>2 DEF Curators!CountOnly, Curators!IInv, Curators!GroupsExist, Curators!CuratorsOnly,
           Curators!Public
  <2>5. QED
    BY <2>1, <2>2, <2>3, <2>4 DEF Curators!IInv
<1>3. ASSUME NEW d \in Deletions, Curators!DeleteGroup(d)
      PROVE  Curators!IInv'
  <2>1. Curators!TypeOK'
    BY <1>3 DEF Curators!DeleteGroup, Curators!IInv, Curators!TypeOK
  <2>2. Curators!GroupsExist'
    BY <1>3 DEF Curators!DeleteGroup, Curators!IInv, Curators!GroupsExist
  <2>3. Curators!DeletionsApart'
    BY <1>3 DEF Curators!DeleteGroup, Curators!IInv, Curators!DeletionsApart, Curators!InTx
  <2>4. Curators!CountsHold'
    BY <1>3 DEF Curators!DeleteGroup, Curators!IInv, Curators!CountsHold,
           Curators!DeletionsApart, Curators!InTx
  <2>5. Curators!CuratorsOnly'
    <3> DEFINE g == deletion[d].group
    <3>1. \A p \in curated : Curators!Public(p)' => Curators!Public(p) \/ groupsOf[p] = {g}
      <4>1. \A p \in Products : groupsOf'[p] = groupsOf[p] \ {g}
        BY <1>3 DEF Curators!DeleteGroup
      <4>2. QED
        BY <4>1 DEF Curators!IInv, Curators!TypeOK, Curators!Public
    <3>2. \A p \in curated : groupsOf[p] # {g} \/ groupsRaced
      BY <1>3 DEF Curators!DeleteGroup, Curators!IInv, Curators!TypeOK, Curators!CountsHold
    <3>3. QED
      BY <1>3, <3>1, <3>2 DEF Curators!DeleteGroup, Curators!IInv, Curators!CuratorsOnly,
             Curators!CuratorsOnly
  <2>6. QED
    BY <2>1, <2>2, <2>3, <2>4, <2>5 DEF Curators!IInv
<1>4. ASSUME NEW s \in Saves, NEW p \in Products, NEW gs \in SUBSET Groups,
             Curators!CheckGroups(s, p, gs)
      PROVE  Curators!IInv'
  <2>1. Curators!TypeOK'
    BY <1>4 DEF Curators!CheckGroups, Curators!IInv, Curators!TypeOK
  <2>2. /\ Curators!GroupsExist' /\ Curators!DeletionsApart' /\ Curators!CountsHold'
        /\ Curators!CuratorsOnly'
    BY <1>4 DEF Curators!CheckGroups, Curators!IInv, Curators!GroupsExist,
           Curators!DeletionsApart, Curators!CountsHold, Curators!CuratorsOnly, Curators!InTx,
           Curators!Public
  <2>3. QED
    BY <2>1, <2>2 DEF Curators!IInv
<1>5. ASSUME NEW s \in Saves, Curators!WriteGroups(s)
      PROVE  Curators!IInv'
  <2>1. Curators!TypeOK'
    BY <1>5 DEF Curators!WriteGroups, Curators!IInv, Curators!TypeOK, Curators!Locked,
           Curators!InTx
  <2>2. Curators!GroupsExist'
    BY <1>5 DEF Curators!WriteGroups, Curators!IInv, Curators!GroupsExist, Curators!TypeOK
  <2>3. Curators!CountsHold'
    BY <1>5 DEF Curators!WriteGroups, Curators!IInv, Curators!CountsHold, Curators!TypeOK,
           Curators!Locked, Curators!InTx
  <2>4. Curators!CuratorsOnly'
    BY <1>5 DEF Curators!WriteGroups, Curators!IInv, Curators!CuratorsOnly, Curators!TypeOK,
           Curators!Public
  <2>5. Curators!DeletionsApart'
    BY <1>5 DEF Curators!WriteGroups, Curators!IInv, Curators!DeletionsApart, Curators!InTx
  <2>6. QED
    BY <2>1, <2>2, <2>3, <2>4, <2>5 DEF Curators!IInv
<1>6. CASE UNCHANGED Curators!vars
  BY <1>6 DEF Curators!vars, Curators!IInv, Curators!TypeOK, Curators!GroupsExist,
         Curators!DeletionsApart, Curators!CountsHold, Curators!CuratorsOnly, Curators!InTx,
         Curators!Public
<1>7. QED
  BY <1>1, <1>2, <1>3, <1>4, <1>5, <1>6 DEF Curators!Next

(***************************************************************************)
(* Certificates                                                            *)
(***************************************************************************)

\* What is known of its constants.
LEMMA ShariConstants ==
  /\ \A s \in AwardSaves : Len(NamesOf[s]) \in Nat
 /\ Edits \cap ShariDeletes = {} /\ QuantityOf \in [Edits -> Nat] /\ Quantity \in Nat
BY ServicesConstants

\* A created certificate has a place of its list.
LEMMA CreatedPlaces ==
  ASSUME NEW s \in AwardSaves, NEW c \in Shari!Created(s)
  PROVE  c.slot \in Nat /\ c.slot < Len(NamesOf[s])
<1>1. PICK i \in Shari!Slots(s) : c = [slot |-> i, name |-> NamesOf[s][i + 1], by |-> s]
  BY DEF Shari!Created
<1>2. Len(NamesOf[s]) \in Nat
  BY ShariConstants
<1>3. i \in Nat /\ i < Len(NamesOf[s]) /\ c.slot = i
  BY <1>1, <1>2 DEF Shari!Slots
<1>4. QED
  BY <1>3

\* A shara without certificates.
LEMMA ShariStart == Shari!Init => Shari!IInv
<1> SUFFICES ASSUME Shari!Init PROVE Shari!IInv
  OBVIOUS
<1>1. Shari!TypeOK
  BY ShariConstants DEF Shari!Init, Shari!TypeOK
<1>2. Shari!ReadsStand
  BY DEF Shari!Init, Shari!ReadsStand
<1>3. QED
  BY <1>1, <1>2 DEF Shari!IInv

\* Saves and the calls of the teacher keep the invariant.
LEMMA ShariStep == Shari!IInv /\ [Shari!Next]_(Shari!vars) => Shari!IInv'
<1> SUFFICES ASSUME Shari!IInv, [Shari!Next]_(Shari!vars) PROVE Shari!IInv'
  OBVIOUS
<1>1. ASSUME NEW s \in AwardSaves, Shari!ReadShara(s)
      PROVE  Shari!IInv'
  <2>1. Shari!TypeOK'
    BY <1>1 DEF Shari!ReadShara, Shari!IInv, Shari!TypeOK
  <2>2. Shari!ReadsStand'
    BY <1>1 DEF Shari!ReadShara, Shari!IInv, Shari!ReadsStand, Shari!TypeOK
  <2>3. QED
    BY <2>1, <2>2 DEF Shari!IInv
<1>2. ASSUME NEW s \in AwardSaves, Shari!SaveAwards(s)
      PROVE  Shari!IInv'
  <2>1. Shari!TypeOK'
    <3>1. \A a \in awards' : a \in awards \/ a \in Shari!Created(s)
      BY <1>2 DEF Shari!SaveAwards
    <3>2. \A a \in awards' : a.slot \in Nat
      BY <3>1, CreatedPlaces DEF Shari!IInv, Shari!TypeOK
    <3>3. save' = [save EXCEPT ![s].pc = IF Shari!Fits(s) THEN "done" ELSE "refused"]
      BY <1>2 DEF Shari!SaveAwards
    <3>4. \A t \in AwardSaves : save'[t].pc \in {"idle", "read", "refused", "done"}
      BY <3>3 DEF Shari!IInv, Shari!TypeOK
    <3>5. DOMAIN save' = AwardSaves
      BY <3>3 DEF Shari!IInv, Shari!TypeOK
    <3>6. QED
      BY <1>2, <3>2, <3>4, <3>5 DEF Shari!SaveAwards, Shari!IInv, Shari!TypeOK
  <2>2. Shari!ReadsStand'
    <3>1. \A a \in awards' : a \in awards \/ a \in Shari!Created(s)
      BY <1>2 DEF Shari!SaveAwards
    <3>2. save' = [save EXCEPT ![s].pc = IF Shari!Fits(s) THEN "done" ELSE "refused"]
      BY <1>2 DEF Shari!SaveAwards
    <3>3. save'[s].pc # "read" /\ \A t \in AwardSaves \ {s} : save'[t] = save[t]
      BY <3>2 DEF Shari!IInv, Shari!TypeOK
    <3>4. save[s].pc = "read" /\ shara' = shara /\ edit' = edit /\ shariRaced' = shariRaced
      BY <1>2 DEF Shari!SaveAwards
    <3>5. CASE shariRaced
      BY <3>4, <3>5 DEF Shari!ReadsStand
    <3>6. CASE ~ shariRaced
      <4>1. \A a \in awards' : a.slot < shara.quantity
        <5>1. /\ Len(NamesOf[s]) <= shara.quantity /\ shara.quantity \in Nat
              /\ Len(NamesOf[s]) \in Nat
          BY <3>4, <3>6, ShariConstants DEF Shari!IInv, Shari!TypeOK, Shari!ReadsStand
        <5>2. \A a \in Shari!Created(s) : a.slot < shara.quantity
          BY <5>1, CreatedPlaces
        <5>3. QED
          BY <3>1, <3>6, <5>2 DEF Shari!IInv, Shari!ReadsStand
      <4>2. \A e \in Edits \cup ShariDeletes : edit[e].pc # "read"
        BY <3>4, <3>6 DEF Shari!IInv, Shari!ReadsStand
      <4>3. QED
        BY <3>3, <3>4, <3>6, <4>1, <4>2 DEF Shari!IInv, Shari!ReadsStand
    <3>7. QED
      BY <3>5, <3>6
  <2>3. QED
    BY <2>1, <2>2 DEF Shari!IInv
<1>3. ASSUME NEW e \in Edits \cup ShariDeletes, Shari!ReadOwn(e)
      PROVE  Shari!IInv'
  <2>1. Shari!TypeOK'
    BY <1>3 DEF Shari!ReadOwn, Shari!IInv, Shari!TypeOK
  <2>2. Shari!ReadsStand'
    BY <1>3 DEF Shari!ReadOwn, Shari!IInv, Shari!ReadsStand, Shari!TypeOK
  <2>3. QED
    BY <2>1, <2>2 DEF Shari!IInv
<1>4. ASSUME NEW e \in Edits, Shari!UpdateShara(e)
      PROVE  Shari!IInv'
  <2>1. Shari!TypeOK'
    BY <1>4, ShariConstants DEF Shari!UpdateShara, Shari!IInv, Shari!TypeOK, Shari!Finish,
           Shari!ReadsStand
  <2>2. Shari!ReadsStand'
    BY <1>4, ShariConstants DEF Shari!UpdateShara, Shari!IInv, Shari!ReadsStand, Shari!Finish,
           Shari!TypeOK
  <2>3. QED
    BY <2>1, <2>2 DEF Shari!IInv
<1>5. ASSUME NEW e \in ShariDeletes, Shari!DeleteShara(e)
      PROVE  Shari!IInv'
  <2>1. Shari!TypeOK'
    <3>1. shara' = shara \/ shara' = [shara EXCEPT !.there = FALSE]
      BY <1>5 DEF Shari!DeleteShara
    <3>2. shara' \in [there : BOOLEAN, quantity : Nat]
      BY <3>1 DEF Shari!IInv, Shari!TypeOK
    <3>3. \A a \in awards' : a \in awards
      BY <1>5 DEF Shari!DeleteShara
    <3>4. QED
      BY <1>5, <3>2, <3>3 DEF Shari!DeleteShara, Shari!Finish, Shari!IInv, Shari!TypeOK
  <2>2. Shari!ReadsStand'
    BY <1>5 DEF Shari!DeleteShara, Shari!IInv, Shari!ReadsStand, Shari!Finish
  <2>3. QED
    BY <2>1, <2>2 DEF Shari!IInv
<1>6. CASE UNCHANGED Shari!vars
  BY <1>6 DEF Shari!vars, Shari!IInv, Shari!TypeOK, Shari!ReadsStand
<1>7. QED
  BY <1>1, <1>2, <1>3, <1>4, <1>5, <1>6 DEF Shari!Next

\* What a step may do to the certificates.
LEMMA AwardsStand ==
  Shari!IInv /\ Shari!IInv' /\ [Shari!Next]_(Shari!vars) =>
    [/\ \A a \in awards \ awards' :
            \/ \E s \in AwardSaves :
                                Shari!Saved(s) /\ ~ Shari!Wants(s, a.slot, a.name)
            \/ shariRaced /\ ~ shara'.there
     /\ ~ shariRaced' => \A a \in awards' : a.slot < shara'.quantity]_(Shari!vars)
<1> SUFFICES ASSUME Shari!IInv, Shari!IInv', Shari!Next
             PROVE  /\ \A a \in awards \ awards' :
                          \/ \E s \in AwardSaves :
                                Shari!Saved(s) /\ ~ Shari!Wants(s, a.slot, a.name)
                          \/ shariRaced /\ ~ shara'.there
                    /\ ~ shariRaced' => \A a \in awards' : a.slot < shara'.quantity
  OBVIOUS
<1>1. ~ shariRaced' => \A a \in awards' : a.slot < shara'.quantity
  BY DEF Shari!IInv, Shari!ReadsStand
<1>2. ASSUME NEW s \in AwardSaves, Shari!SaveAwards(s), NEW a \in awards \ awards'
      PROVE  Shari!Saved(s) /\ ~ Shari!Wants(s, a.slot, a.name)
  <2>1. Shari!Fits(s) /\ a \in Shari!Removed(s)
    BY <1>2 DEF Shari!SaveAwards
  <2>2. ~ Shari!Wants(s, a.slot, a.name)
    BY <2>1 DEF Shari!Removed
  <2>3. save' = [save EXCEPT ![s].pc = "done"] /\ save[s].pc = "read"
    BY <1>2, <2>1 DEF Shari!SaveAwards
  <2>4. Shari!Saved(s)
    BY <1>2, <2>3 DEF Shari!Saved, Shari!IInv, Shari!TypeOK
  <2>5. QED
    BY <2>2, <2>4
<1>3. ASSUME NEW e \in ShariDeletes, Shari!DeleteShara(e), NEW a \in awards \ awards'
      PROVE  shariRaced /\ ~ shara'.there
  <2>1. edit[e].pc = "read" /\ edit[e].last < 0 /\ shara' = [shara EXCEPT !.there = FALSE]
    BY <1>3 DEF Shari!DeleteShara
  <2>2. ~ shara'.there
    BY <2>1 DEF Shari!IInv, Shari!TypeOK
  <2>3. a.slot \in Nat /\ edit[e].last \in Nat \cup {-1}
    BY <1>3 DEF Shari!IInv, Shari!TypeOK
  <2>4. shariRaced
    BY <1>3, <2>1, <2>3 DEF Shari!IInv, Shari!ReadsStand
  <2>5. QED
    BY <2>2, <2>4
<1>4. \/ \E s \in AwardSaves : Shari!SaveAwards(s)
      \/ \E e \in ShariDeletes : Shari!DeleteShara(e)
      \/ awards' = awards
  BY DEF Shari!Next, Shari!ReadShara, Shari!ReadOwn, Shari!UpdateShara
<1>5. QED
  BY <1>1, <1>2, <1>3, <1>4

(***************************************************************************)
(* The stage screen                                                        *)
(***************************************************************************)

\* What is known of its constants.
LEMMA ScreenConstants ==
  None # "hide" /\ None \notin Screen!State
BY ServicesConstants, NoneIsNoState

\* Nothing new to know about the row: its history stays one.
LEMMA NothingNew ==
  ASSUME Screen!OneHistory, Screen!Known' \subseteq Screen!Known,
         screenState' = screenState, stamps' = stamps,
         ~ overlapped' => ~ overlapped
  PROVE  Screen!OneHistory'
BY DEF Screen!OneHistory, Screen!Follows

\* Every state somebody knows of is one the row has had.
LEMMA KnownAreStates ==
  ASSUME Screen!TypeOK
  PROVE  /\ Screen!Known \subseteq Screen!State /\ screenState \in Screen!Known
         /\ answers \subseteq Screen!Known
         /\ last # None => last \in Screen!Known
BY DEF Screen!TypeOK, Screen!Known

\* The next version of the row.
LEMMA NextStateStep ==
  ASSUME NEW c \in Commands, NEW x \in Screen!State
  PROVE  /\ Screen!NextState(c, x) \in Screen!State
         /\ Screen!NextState(c, x).rev = x.rev + 1
         /\ Screen!NextState(c, x).stamp = IF c \in OneOff THEN x.rev + 1 ELSE x.stamp
         /\ x.mode # None => Screen!NextState(c, x).mode # None
         /\ x.award # None => Screen!NextState(c, x).award # None
         /\ Screen!NextState(c, x).award = None =>
               x.award = None /\ Screen!NextState(c, x).mode = x.mode
<1> DEFINE m == IF ModeOf[c] # None THEN ModeOf[c] ELSE x.mode
           w == IF AwardOf[c] # None THEN AwardOf[c]
                ELSE IF ModeOf[c] # None THEN "hide" ELSE x.award
           s == IF c \in OneOff THEN x.rev + 1 ELSE x.stamp
<1>1. Screen!NextState(c, x) = [rev |-> x.rev + 1, mode |-> m, award |-> w, stamp |-> s]
  BY DEF Screen!NextState
<1>2. /\ x.rev \in Nat /\ x.stamp \in Nat
      /\ x.mode \in {ModeOf[d] : d \in Commands} \cup {None}
      /\ x.award \in {AwardOf[d] : d \in Commands} \cup {None, "hide"}
  BY DEF Screen!State
<1>4. /\ m \in {ModeOf[d] : d \in Commands} \cup {None}
      /\ w \in {AwardOf[d] : d \in Commands} \cup {None, "hide"}
      /\ s \in Nat /\ x.rev + 1 \in Nat
  BY <1>2
<1>5. /\ x.mode # None => m # None
      /\ x.award # None => w # None
      /\ w = None => x.award = None /\ m = x.mode
  BY ScreenConstants
<1>6. s = IF c \in OneOff THEN x.rev + 1 ELSE x.stamp
  OBVIOUS
<1> HIDE DEF m, w, s
<1>7. QED
  BY <1>1, <1>4, <1>5, <1>6 DEF Screen!State

\* A screen just loaded.
LEMMA ScreenStart == Screen!Init => Screen!IInv
<1> SUFFICES ASSUME Screen!Init PROVE Screen!IInv
  OBVIOUS
<1>1. Screen!Blank \in Screen!State
  BY DEF Screen!Blank, Screen!State
<1>2. Screen!TypeOK
  BY <1>1 DEF Screen!Init, Screen!TypeOK, Screen!State
<1>3. Screen!Known = {Screen!Blank}
  BY DEF Screen!Init, Screen!Known
<1>4. Screen!OneHistory
  BY <1>3 DEF Screen!Init, Screen!OneHistory, Screen!Follows, Screen!Blank
<1>5. Screen!WritersApart /\ Screen!PageFollows /\ Screen!FiredBehind
  BY DEF Screen!Init, Screen!WritersApart, Screen!PageFollows, Screen!FiredBehind
<1>6. QED
  BY <1>2, <1>4, <1>5 DEF Screen!IInv

\* Commands, polls and reloads keep the invariant.
LEMMA ScreenStep == Screen!IInv /\ [Screen!Next]_(Screen!vars) => Screen!IInv'
<1> SUFFICES ASSUME Screen!IInv, [Screen!Next]_(Screen!vars) PROVE Screen!IInv'
  OBVIOUS
<1>1. ASSUME NEW c \in Commands, Screen!ReadState(c)
      PROVE  Screen!IInv'
  <2>1. Screen!TypeOK'
    BY <1>1 DEF Screen!ReadState, Screen!IInv, Screen!TypeOK, Screen!State
  <2>2. Screen!WritersApart'
    <3>1. /\ command' = [command EXCEPT ![c] = [pc |-> "writing", prev |-> screenState]]
          /\ screenState' = screenState
          /\ ~ overlapped' => ~ overlapped /\ \A d \in Commands \ {c} : command[d].pc # "writing"
      BY <1>1 DEF Screen!ReadState
    <3>2. /\ command'[c].prev = screenState
          /\ \A d \in Commands \ {c} : command'[d] = command[d]
      BY <1>1, <3>1 DEF Screen!IInv, Screen!TypeOK
    <3>3. QED
      BY <3>1, <3>2 DEF Screen!WritersApart
  <2>3. Screen!OneHistory'
    BY <1>1 DEF Screen!ReadState, Screen!IInv, Screen!OneHistory, Screen!TypeOK, Screen!Known,
           Screen!Follows
  <2>4. Screen!PageFollows'
    BY <1>1 DEF Screen!ReadState, Screen!IInv, Screen!PageFollows
  <2>5. Screen!FiredBehind'
    BY <1>1 DEF Screen!ReadState, Screen!IInv, Screen!FiredBehind
  <2>6. QED
    BY <2>1, <2>2, <2>3, <2>4, <2>5 DEF Screen!IInv
<1>2. ASSUME NEW c \in Commands, Screen!WriteState(c)
      PROVE  Screen!IInv'
  <2>1. Screen!TypeOK'
    <3>1. command[c].prev \in Screen!State
      BY <1>2 DEF Screen!IInv, Screen!TypeOK, Screen!State
    <3>2. Screen!NextState(c, command[c].prev) \in Screen!State
      BY <1>2, <3>1, NextStateStep
    <3>3. Screen!Blank \in Screen!State /\ command[c].prev.rev + 1 \in Nat
      BY <3>1 DEF Screen!Blank, Screen!State
    <3>4. stamps' \subseteq Nat
      BY <1>2, <3>3 DEF Screen!WriteState, Screen!IInv, Screen!TypeOK
    <3>5. command' \in [Commands -> [pc : {"idle", "writing", "done"}, prev : Screen!State]]
      BY <1>2, <3>3 DEF Screen!WriteState, Screen!IInv, Screen!TypeOK
    <3>6. QED
      BY <1>2, <3>2, <3>4, <3>5 DEF Screen!WriteState, Screen!IInv, Screen!TypeOK, Screen!State
  <2>2. Screen!WritersApart'
    BY <1>2 DEF Screen!WriteState, Screen!IInv, Screen!WritersApart, Screen!TypeOK
  <2>3. Screen!OneHistory'
    <3> DEFINE s == screenState
    <3>0. PICK n : n = Screen!NextState(c, s)
      OBVIOUS
    <3>1. CASE overlapped
      BY <1>2, <3>1 DEF Screen!WriteState, Screen!OneHistory
    <3>2. CASE ~ overlapped
      <4>1. /\ screenState' = n /\ overlapped' = overlapped
            /\ stamps' = IF c \in OneOff THEN stamps \cup {s.rev + 1} ELSE stamps
        BY <1>2, <3>0, <3>2 DEF Screen!WriteState, Screen!IInv, Screen!WritersApart
      <4>2. Screen!Known' \subseteq Screen!Known \cup {n}
        BY <1>2, <4>1 DEF Screen!WriteState, Screen!Known
      <4>3. s \in Screen!State /\ Screen!Known \subseteq Screen!State /\ s \in Screen!Known
        BY KnownAreStates DEF Screen!IInv, Screen!TypeOK
      <4>4. /\ n \in Screen!State /\ n.rev = s.rev + 1
            /\ n.stamp = IF c \in OneOff THEN s.rev + 1 ELSE s.stamp
            /\ s.mode # None => n.mode # None
            /\ s.award # None => n.award # None
            /\ n.award = None => s.award = None /\ n.mode = s.mode
        BY <1>2, <3>0, <4>3, NextStateStep
      <4>5. \A x \in Screen!Known :
              /\ x.rev \in Nat /\ x.stamp \in Nat /\ x.rev <= s.rev /\ x.stamp <= x.rev
              /\ x.award = None => x.mode = None
              /\ Screen!Follows(x, s)
        BY <3>2, <4>3 DEF Screen!IInv, Screen!OneHistory, Screen!State
      <4>6. s.rev \in Nat /\ s.stamp \in Nat
        BY <4>3 DEF Screen!State
      <4>7. /\ n.rev <= n.rev /\ n.stamp <= n.rev
            /\ n.award = None => n.mode = None
        BY <4>3, <4>4, <4>5, <4>6
      <4>8. \A x \in Screen!Known : x.rev <= n.rev
        BY <4>4, <4>5, <4>6
      <4>9. \A x \in Screen!Known : Screen!Follows(x, n)'
        <5> SUFFICES ASSUME NEW x \in Screen!Known PROVE Screen!Follows(x, n)'
          OBVIOUS
        <5>1. x.rev # n.rev
          BY <4>4, <4>5, <4>6
        <5>2. (x.mode # None => n.mode # None) /\ (x.award # None => n.award # None)
          BY <4>4, <4>5, <4>6 DEF Screen!Follows
        <5>3. n.stamp # x.stamp => x.rev < n.stamp /\ n.stamp \in stamps'
          <6>1. CASE c \in OneOff
            BY <4>1, <4>4, <4>5, <4>6, <6>1
          <6>2. CASE c \notin OneOff
            BY <4>1, <4>4, <4>5, <4>6, <6>2 DEF Screen!Follows
          <6>3. QED
            BY <6>1, <6>2
        <5>4. QED
          BY <5>1, <5>2, <5>3 DEF Screen!Follows
      <4>10. \A x \in Screen!Known : Screen!Follows(n, x)'
        BY <4>4, <4>5, <4>6 DEF Screen!Follows
      <4>11. Screen!Follows(n, n)'
        BY <4>4, <4>6 DEF Screen!Follows
      <4>12. \A x, y \in Screen!Known : Screen!Follows(x, y)'
        BY <3>2, <4>1 DEF Screen!IInv, Screen!OneHistory, Screen!Follows
      <4>13. \A x, y \in Screen!Known' : Screen!Follows(x, y)'
        BY <4>2, <4>9, <4>10, <4>11, <4>12
      <4>14. QED
        BY <4>1, <4>2, <4>5, <4>7, <4>8, <4>13 DEF Screen!OneHistory
    <3>3. QED
      BY <3>1, <3>2 DEF Screen!IInv, Screen!TypeOK
  <2>4. Screen!FiredBehind'
    BY <1>2 DEF Screen!WriteState, Screen!IInv, Screen!FiredBehind, Screen!NextState, Screen!Blank
  <2>5. Screen!PageFollows'
    BY <1>2 DEF Screen!WriteState, Screen!IInv, Screen!PageFollows
  <2>6. QED
    BY <2>1, <2>2, <2>3, <2>4, <2>5 DEF Screen!IInv
<1>3. CASE Screen!Poll
  <2>1. Screen!TypeOK'
    BY <1>3 DEF Screen!Poll, Screen!IInv, Screen!TypeOK, Screen!State
  <2>2. Screen!OneHistory'
    BY <1>3 DEF Screen!Poll, Screen!IInv, Screen!OneHistory, Screen!Known, Screen!Follows
  <2>3. Screen!WritersApart' /\ Screen!PageFollows' /\ Screen!FiredBehind'
    BY <1>3 DEF Screen!Poll, Screen!IInv, Screen!WritersApart, Screen!PageFollows,
           Screen!FiredBehind
  <2>4. QED
    BY <2>1, <2>2, <2>3 DEF Screen!IInv
<1>4. ASSUME NEW st \in answers, Screen!Lose(st)
      PROVE  Screen!IInv'
  <2>1. Screen!TypeOK'
    BY <1>4 DEF Screen!Lose, Screen!IInv, Screen!TypeOK, Screen!State
  <2>2. Screen!OneHistory'
    <3>1. Screen!Known' \subseteq Screen!Known
      BY <1>4 DEF Screen!Lose, Screen!Known
    <3>2. QED
      BY <1>4, <3>1, NothingNew DEF Screen!Lose, Screen!IInv
  <2>3. Screen!WritersApart' /\ Screen!PageFollows' /\ Screen!FiredBehind'
    BY <1>4 DEF Screen!Lose, Screen!IInv, Screen!WritersApart, Screen!PageFollows,
           Screen!FiredBehind
  <2>4. QED
    BY <2>1, <2>2, <2>3 DEF Screen!IInv
<1>5. ASSUME NEW st \in answers, Screen!Receive(st)
      PROVE  Screen!IInv'
  <2>1. Screen!TypeOK'
    <3>1. CASE last = None \/ st.rev > last.rev
      <4>1. /\ last' = st /\ answers' = answers \ {st}
            /\ UNCHANGED <<screenState, command, stamps, overlapped>>
            /\ fired' = fired \/ fired' = [fired EXCEPT ![st.stamp] = @ + 1]
        BY <1>5, <3>1 DEF Screen!Receive, Screen!Apply
      <4>2. missed' \in BOOLEAN
        BY <1>5, <3>1 DEF Screen!Receive, Screen!Apply
      <4>3. fired' \in [1..Screen!Cardinality(Commands) -> Nat]
        BY <4>1 DEF Screen!IInv, Screen!TypeOK
      <4>4. st \in Screen!State
        BY <1>5 DEF Screen!IInv, Screen!TypeOK
      <4>5. QED
        BY <4>1, <4>2, <4>3, <4>4 DEF Screen!IInv, Screen!TypeOK, Screen!State, Screen!NextState
    <3>2. CASE ~ (last = None \/ st.rev > last.rev)
      BY <1>5, <3>2 DEF Screen!Receive, Screen!IInv, Screen!TypeOK, Screen!State, Screen!NextState
    <3>3. QED
      BY <3>1, <3>2
  <2>2. Screen!OneHistory'
    BY <1>5 DEF Screen!Receive, Screen!IInv, Screen!OneHistory, Screen!Apply, Screen!Known,
           Screen!Follows, Screen!Blank
  <2>3. Screen!PageFollows'
    <3>1. CASE last = None \/ st.rev > last.rev
      <4> DEFINE prev == IF last = None THEN Screen!Blank ELSE last
                 newMode == st.mode # None /\ st.mode # prev.mode
                 newAward == st.award # None /\ st.award # prev.award
      <4>1. /\ last' = st /\ overlapped' = overlapped
            /\ missed' = (~ newAward /\ (missed \/ (newMode /\ st.award \notin {None, "hide"})))
            /\ shown'.mode = (IF newMode THEN st.mode ELSE shown.mode)
            /\ shown'.award = IF newAward THEN st.award ELSE IF newMode THEN "hide" ELSE shown.award
        BY <1>5, <3>1 DEF Screen!Receive, Screen!Apply
      <4>2. st \in Screen!State /\ st # None /\ st \in Screen!Known
        BY <1>5, ScreenConstants, KnownAreStates DEF Screen!IInv, Screen!TypeOK
      <4>3. ASSUME ~ overlapped
            PROVE  shown'.mode = st.mode /\ (shown'.award = st.award \/ missed')
        <5>1. st.award = None => st.mode = None
          BY <4>2, <4>3 DEF Screen!IInv, Screen!OneHistory
        <5>2. CASE last = None
          <6>1. shown.mode = None /\ shown.award = None /\ prev.mode = None /\ prev.award = None
            BY <4>3, <5>2 DEF Screen!IInv, Screen!PageFollows, Screen!Blank
          <6> HIDE DEF prev
          <6>2. QED
            BY <4>1, <5>1, <6>1
        <5>3. CASE last # None
          <6>1. /\ prev = last /\ shown.mode = last.mode /\ (shown.award = last.award \/ missed)
            BY <4>3, <5>3 DEF Screen!IInv, Screen!PageFollows
          <6>2. last \in Screen!Known /\ st.rev > last.rev /\ last.rev \in Nat /\ st.rev \in Nat
            BY <3>1, <4>2, <5>3, KnownAreStates DEF Screen!IInv, Screen!State
          <6>3. (last.mode # None => st.mode # None) /\ (last.award # None => st.award # None)
            BY <4>2, <4>3, <6>2 DEF Screen!IInv, Screen!OneHistory, Screen!Follows
          <6> HIDE DEF prev
          <6>4. QED
            BY <4>1, <5>1, <6>1, <6>3
        <5>4. QED
          BY <5>2, <5>3
      <4>4. QED
        BY <4>1, <4>2, <4>3 DEF Screen!PageFollows
    <3>2. CASE ~ (last = None \/ st.rev > last.rev)
      BY <1>5, <3>2 DEF Screen!Receive, Screen!IInv, Screen!PageFollows
    <3>3. QED
      BY <3>1, <3>2
  <2>4. Screen!FiredBehind'
    <3>1. CASE last = None \/ st.rev > last.rev
      <4> DEFINE fires == last # None /\ st.stamp # 0 /\ st.stamp # last.stamp
      <4>1. /\ last' = st /\ overlapped' = overlapped /\ stamps' = stamps
            /\ fired' = IF fires THEN [fired EXCEPT ![st.stamp] = @ + 1] ELSE fired
        BY <1>5, <3>1 DEF Screen!Receive, Screen!Apply
      <4>2. /\ st \in Screen!State /\ st # None /\ st \in Screen!Known
            /\ st.rev \in Nat /\ st.stamp \in Nat
        BY <1>5, ScreenConstants, KnownAreStates DEF Screen!IInv, Screen!TypeOK, Screen!State
      <4>3. \A r \in DOMAIN fired : r \in Nat /\ fired[r] \in Nat
        BY DEF Screen!IInv, Screen!TypeOK
      <4>4. ASSUME ~ overlapped, NEW r \in DOMAIN fired, fired'[r] > 0
            PROVE  r <= st.rev /\ fired'[r] = 1 /\ r \in stamps
        <5>1. last # None => /\ last \in Screen!Known /\ last.rev \in Nat /\ st.rev > last.rev
          BY <3>1, KnownAreStates DEF Screen!IInv, Screen!State
        <5>2. fired[r] > 0 => last # None /\ r <= last.rev /\ fired[r] = 1 /\ r \in stamps
          BY <4>4 DEF Screen!IInv, Screen!FiredBehind
        <5>3. CASE ~ fires \/ r # st.stamp
          <6>1. fired'[r] = fired[r]
            BY <4>1, <5>3
          <6>2. QED
            BY <4>2, <4>3, <4>4, <5>1, <5>2, <6>1
        <5>4. CASE fires /\ r = st.stamp
          <6>1. fired'[r] = fired[r] + 1
            BY <4>1, <5>4
          <6>2. /\ st.stamp <= st.rev
                /\ last.rev < st.stamp /\ st.stamp \in stamps
            BY <4>2, <4>4, <5>1, <5>4 DEF Screen!IInv, Screen!OneHistory, Screen!Follows
          <6>3. fired[r] = 0
            BY <4>2, <4>3, <5>1, <5>2, <5>4, <6>2
          <6>4. QED
            BY <5>4, <6>1, <6>2, <6>3
        <5>5. QED
          BY <5>3, <5>4
      <4>5. DOMAIN fired' = DOMAIN fired
        BY <4>1
      <4>6. QED
        BY <4>1, <4>2, <4>4, <4>5 DEF Screen!FiredBehind
    <3>2. CASE ~ (last = None \/ st.rev > last.rev)
      BY <1>5, <3>2 DEF Screen!Receive, Screen!IInv, Screen!FiredBehind
    <3>3. QED
      BY <3>1, <3>2
  <2>5. Screen!WritersApart'
    BY <1>5 DEF Screen!Receive, Screen!Apply, Screen!IInv, Screen!WritersApart
  <2>6. QED
    BY <2>1, <2>2, <2>3, <2>4, <2>5 DEF Screen!IInv
<1>6. CASE Screen!Reload
  <2>1. Screen!TypeOK'
    <3>1. fired' \in [1..Screen!Cardinality(Commands) -> Nat]
      BY <1>6 DEF Screen!Reload, Screen!IInv, Screen!TypeOK
    <3>2. missed' \in BOOLEAN /\ stamps' \subseteq Nat
      BY <1>6 DEF Screen!Reload
    <3>3. QED
      BY <1>6, <3>1, <3>2 DEF Screen!Reload, Screen!IInv, Screen!TypeOK, Screen!State,
             Screen!NextState
  <2>2. Screen!OneHistory'
    BY <1>6 DEF Screen!Reload, Screen!IInv, Screen!OneHistory, Screen!Known, Screen!Follows
  <2>3. Screen!PageFollows'
    BY <1>6 DEF Screen!Reload, Screen!IInv, Screen!PageFollows
  <2>4. Screen!FiredBehind'
    BY <1>6 DEF Screen!Reload, Screen!IInv, Screen!FiredBehind
  <2>5. Screen!WritersApart'
    BY <1>6 DEF Screen!Reload, Screen!IInv, Screen!WritersApart
  <2>6. QED
    BY <2>1, <2>2, <2>3, <2>4, <2>5 DEF Screen!IInv
<1>7. CASE UNCHANGED Screen!vars
  BY <1>7 DEF Screen!vars, Screen!IInv, Screen!TypeOK, Screen!WritersApart, Screen!OneHistory,
         Screen!PageFollows, Screen!FiredBehind, Screen!State, Screen!Known, Screen!Follows
<1>8. QED
  BY <1>1, <1>2, <1>3, <1>4, <1>5, <1>6, <1>7 DEF Screen!Next

\* The invariant bounds what fires.
LEMMA ScreenSound == Screen!IInv => Screen!OneOffsFireOnce
<1> SUFFICES ASSUME Screen!IInv, ~ overlapped PROVE Screen!OneOffsFireOnce
  BY DEF Screen!OneOffsFireOnce
<1>1. ASSUME last # None, last.rev = screenState.rev
      PROVE  last = screenState
  BY <1>1, KnownAreStates DEF Screen!IInv, Screen!OneHistory, Screen!Follows
<1>2. QED
  BY <1>1 DEF Screen!OneOffsFireOnce, Screen!IInv, Screen!PageFollows, Screen!FiredBehind

(***************************************************************************)
(* Jars of fundraisers                                                     *)
(***************************************************************************)

\* What is known of its constants.
LEMMA JarConstants ==
  /\ None \notin JarLinks /\ Keep \notin JarLinks /\ None # Keep /\ FailuresBeforeAlert \in Nat
 /\ Touches \in [Updates -> JarLinks \cup {None, Keep}]
BY ServicesConstants

\* A fundraiser without a jar.
LEMMA JarStart == Jar!Init => Jar!IInv
<1> SUFFICES ASSUME Jar!Init PROVE Jar!IInv
  OBVIOUS
<1>1. Jar!TypeOK
  BY DEF Jar!Init, Jar!TypeOK, Jar!Idle, Jar!Fresh
<1>2. Jar!AsksOfAJar /\ Jar!SyncedShowsItsJar
  BY DEF Jar!Init, Jar!AsksOfAJar, Jar!SyncedShowsItsJar, Jar!Idle
<1>3. QED
  BY <1>1, <1>2 DEF Jar!IInv

\* The sync, Monobank and the admins keep the invariant.
LEMMA JarStep == Jar!IInv /\ [Jar!Next]_(Jar!vars) => Jar!IInv'
<1> SUFFICES ASSUME Jar!IInv, [Jar!Next]_(Jar!vars) PROVE Jar!IInv'
  OBVIOUS
<1>1. CASE Jar!Tick
  <2>1. Jar!TypeOK'
    BY <1>1 DEF Jar!Tick, Jar!IInv, Jar!TypeOK
  <2>2. Jar!AsksOfAJar'
    BY <1>1 DEF Jar!Tick, Jar!IInv, Jar!AsksOfAJar
  <2>3. Jar!SyncedShowsItsJar'
    BY <1>1 DEF Jar!Tick, Jar!IInv, Jar!SyncedShowsItsJar
  <2>4. QED
    BY <2>1, <2>2, <2>3 DEF Jar!IInv
<1>2. CASE Jar!ForgetStale
  <2>1. Jar!TypeOK'
    BY <1>2 DEF Jar!ForgetStale, Jar!IInv, Jar!TypeOK
  <2>2. Jar!AsksOfAJar' /\ Jar!SyncedShowsItsJar'
    BY <1>2 DEF Jar!ForgetStale, Jar!IInv, Jar!AsksOfAJar, Jar!SyncedShowsItsJar
  <2>3. QED
    BY <2>1, <2>2 DEF Jar!IInv
<1>3. CASE Jar!MarkBroken
  <2>1. Jar!TypeOK'
    BY <1>3 DEF Jar!MarkBroken, Jar!IInv, Jar!TypeOK, Jar!Idle
  <2>2. Jar!AsksOfAJar'
    BY <1>3 DEF Jar!MarkBroken, Jar!IInv, Jar!AsksOfAJar, Jar!Idle
  <2>3. Jar!SyncedShowsItsJar'
    BY <1>3 DEF Jar!MarkBroken, Jar!IInv, Jar!SyncedShowsItsJar, Jar!Idle
  <2>4. QED
    BY <2>1, <2>2, <2>3 DEF Jar!IInv
<1>4. CASE Jar!RateLimited
  <2>1. Jar!TypeOK'
    BY <1>4 DEF Jar!RateLimited, Jar!IInv, Jar!TypeOK, Jar!Idle
  <2>2. Jar!AsksOfAJar'
    BY <1>4 DEF Jar!RateLimited, Jar!IInv, Jar!AsksOfAJar, Jar!Idle
  <2>3. Jar!SyncedShowsItsJar'
    BY <1>4 DEF Jar!RateLimited, Jar!IInv, Jar!SyncedShowsItsJar
  <2>4. QED
    BY <2>1, <2>2, <2>3 DEF Jar!IInv
<1>5. CASE Jar!Resume
  <2>1. Jar!TypeOK'
    BY <1>5 DEF Jar!Resume, Jar!IInv, Jar!TypeOK
  <2>2. Jar!AsksOfAJar' /\ Jar!SyncedShowsItsJar'
    BY <1>5 DEF Jar!Resume, Jar!IInv, Jar!AsksOfAJar, Jar!SyncedShowsItsJar
  <2>3. QED
    BY <2>1, <2>2 DEF Jar!IInv
<1>6. CASE Jar!Unavailable
  <2>1. Jar!TypeOK'
    BY <1>6 DEF Jar!Unavailable, Jar!IInv, Jar!TypeOK, Jar!Idle
  <2>2. Jar!AsksOfAJar'
    BY <1>6 DEF Jar!Unavailable, Jar!IInv, Jar!AsksOfAJar, Jar!Idle
  <2>3. Jar!SyncedShowsItsJar'
    BY <1>6 DEF Jar!Unavailable, Jar!IInv, Jar!SyncedShowsItsJar
  <2>4. QED
    BY <2>1, <2>2, <2>3 DEF Jar!IInv
<1>7. CASE Jar!Restart
  <2>1. Jar!TypeOK'
    BY <1>7 DEF Jar!Restart, Jar!IInv, Jar!TypeOK, Jar!Idle, Jar!Fresh, Jar!Done
  <2>2. Jar!AsksOfAJar'
    BY <1>7 DEF Jar!Restart, Jar!IInv, Jar!AsksOfAJar, Jar!Idle, Jar!Fresh, Jar!Done
  <2>3. Jar!SyncedShowsItsJar'
    BY <1>7 DEF Jar!Restart, Jar!IInv, Jar!SyncedShowsItsJar
  <2>4. QED
    BY <2>1, <2>2, <2>3 DEF Jar!IInv
<1>8. ASSUME NEW closed \in BOOLEAN, Jar!Answer(closed)
      PROVE  Jar!IInv'
  <2>1. Jar!TypeOK'
    BY <1>8 DEF Jar!Answer, Jar!IInv, Jar!TypeOK, Jar!StillLinked, Jar!Idle
  <2>2. Jar!AsksOfAJar'
    BY <1>8 DEF Jar!Answer, Jar!IInv, Jar!AsksOfAJar, Jar!StillLinked, Jar!Idle
  <2>3. Jar!SyncedShowsItsJar'
    BY <1>8 DEF Jar!Answer, Jar!IInv, Jar!SyncedShowsItsJar, Jar!StillLinked, Jar!Idle
  <2>4. QED
    BY <2>1, <2>2, <2>3 DEF Jar!IInv
<1>9. ASSUME NEW u \in Updates, Jar!ReadRow(u)
      PROVE  Jar!IInv'
  <2>1. Jar!TypeOK'
    BY <1>9 DEF Jar!ReadRow, Jar!IInv, Jar!TypeOK
  <2>2. Jar!AsksOfAJar' /\ Jar!SyncedShowsItsJar'
    BY <1>9 DEF Jar!ReadRow, Jar!IInv, Jar!AsksOfAJar, Jar!SyncedShowsItsJar
  <2>3. QED
    BY <2>1, <2>2 DEF Jar!IInv
<1>10. ASSUME NEW u \in Updates, Jar!SaveUnlinked(u)
      PROVE  Jar!IInv'
  <2>1. Jar!TypeOK'
    BY <1>10 DEF Jar!SaveUnlinked, Jar!IInv, Jar!TypeOK, Jar!LinkAfter, Jar!Save, Jar!Plain,
           Jar!Finished, Jar!Done
  <2>2. Jar!SyncedShowsItsJar'
    BY <1>10 DEF Jar!SaveUnlinked, Jar!IInv, Jar!SyncedShowsItsJar, Jar!TypeOK, Jar!LinkAfter,
           Jar!Save, Jar!Plain
  <2>3. Jar!AsksOfAJar'
    BY <1>10 DEF Jar!SaveUnlinked, Jar!Save, Jar!IInv, Jar!AsksOfAJar
  <2>4. QED
    BY <2>1, <2>2, <2>3 DEF Jar!IInv
<1>11. ASSUME NEW u \in Updates, Jar!SaveKeepingLink(u)
      PROVE  Jar!IInv'
  <2>1. Jar!TypeOK'
    BY <1>11 DEF Jar!SaveKeepingLink, Jar!IInv, Jar!TypeOK, Jar!LinkAfter, Jar!Save, Jar!Plain,
           Jar!Finished, Jar!Done
  <2>2. Jar!SyncedShowsItsJar'
    BY <1>11 DEF Jar!SaveKeepingLink, Jar!IInv, Jar!SyncedShowsItsJar, Jar!TypeOK, Jar!Save,
           Jar!Plain
  <2>3. Jar!AsksOfAJar'
    BY <1>11 DEF Jar!SaveKeepingLink, Jar!Save, Jar!IInv, Jar!AsksOfAJar
  <2>4. QED
    BY <2>1, <2>2, <2>3 DEF Jar!IInv
<1>12. ASSUME NEW u \in Updates, Jar!SaveUnresolved(u)
      PROVE  Jar!IInv'
  <2>1. Jar!TypeOK'
    BY <1>12, JarConstants DEF Jar!SaveUnresolved, Jar!IInv, Jar!TypeOK, Jar!LinkAfter, Jar!Save,
           Jar!Plain, Jar!Finished, Jar!Done
  <2>2. Jar!SyncedShowsItsJar'
    BY <1>12 DEF Jar!SaveUnresolved, Jar!IInv, Jar!SyncedShowsItsJar, Jar!TypeOK, Jar!Save,
           Jar!Plain
  <2>3. Jar!AsksOfAJar'
    BY <1>12 DEF Jar!SaveUnresolved, Jar!Save, Jar!IInv, Jar!AsksOfAJar
  <2>4. QED
    BY <2>1, <2>2, <2>3 DEF Jar!IInv
<1>13. ASSUME NEW u \in Updates, Jar!RefuseUpdate(u)
      PROVE  Jar!IInv'
  <2>1. Jar!TypeOK'
    BY <1>13 DEF Jar!RefuseUpdate, Jar!IInv, Jar!TypeOK, Jar!LinkAfter, Jar!Finished, Jar!Done
  <2>2. Jar!AsksOfAJar' /\ Jar!SyncedShowsItsJar'
    BY <1>13 DEF Jar!RefuseUpdate, Jar!IInv, Jar!AsksOfAJar, Jar!SyncedShowsItsJar
  <2>3. QED
    BY <2>1, <2>2 DEF Jar!IInv
<1>14. ASSUME NEW u \in Updates, NEW closed \in BOOLEAN, Jar!SaveResolved(u, closed)
      PROVE  Jar!IInv'
  <2>1. Jar!TypeOK'
    BY <1>14, JarConstants DEF Jar!SaveResolved, Jar!IInv, Jar!TypeOK, Jar!LinkAfter, Jar!Save,
           Jar!Plain, Jar!Finished, Jar!Done
  <2>2. Jar!SyncedShowsItsJar'
    BY <1>14 DEF Jar!SaveResolved, Jar!IInv, Jar!SyncedShowsItsJar, Jar!TypeOK, Jar!Save
  <2>3. Jar!AsksOfAJar'
    BY <1>14 DEF Jar!SaveResolved, Jar!Save, Jar!IInv, Jar!AsksOfAJar
  <2>4. QED
    BY <2>1, <2>2, <2>3 DEF Jar!IInv
<1>15. CASE Jar!CloseExpired
  <2>1. Jar!TypeOK'
    BY <1>15 DEF Jar!CloseExpired, Jar!IInv, Jar!TypeOK
  <2>2. Jar!SyncedShowsItsJar'
    BY <1>15 DEF Jar!CloseExpired, Jar!IInv, Jar!SyncedShowsItsJar
  <2>3. Jar!AsksOfAJar'
    BY <1>15 DEF Jar!CloseExpired, Jar!IInv, Jar!AsksOfAJar
  <2>4. QED
    BY <2>1, <2>2, <2>3 DEF Jar!IInv
<1>16. CASE Jar!Remove
  <2>1. Jar!TypeOK'
    BY <1>16 DEF Jar!Remove, Jar!IInv, Jar!TypeOK
  <2>2. Jar!SyncedShowsItsJar'
    BY <1>16 DEF Jar!Remove, Jar!IInv, Jar!SyncedShowsItsJar
  <2>3. Jar!AsksOfAJar'
    BY <1>16 DEF Jar!Remove, Jar!IInv, Jar!AsksOfAJar
  <2>4. QED
    BY <2>1, <2>2, <2>3 DEF Jar!IInv
<1>17. CASE UNCHANGED Jar!vars
  BY <1>17 DEF Jar!vars, Jar!IInv, Jar!TypeOK, Jar!AsksOfAJar, Jar!SyncedShowsItsJar
<1>18. QED
  BY <1>1, <1>2, <1>3, <1>4, <1>5, <1>6, <1>7, <1>8, <1>9, <1>10, <1>11, <1>12, <1>13, <1>14,
     <1>15, <1>16, <1>17
     DEF Jar!Next

\* What a late answer of the bank may do.
LEMMA AnswersIgnored ==
  Jar!IInv /\ [Jar!Next]_(Jar!vars) =>
    [sync.pc = "asking" /\ sync'.pc = "idle" =>
       /\ row.link # sync.link => row' = row /\ told' \in {told, "failing"}
       /\ row.status # "ACTIVE" =>
            /\ row' \in {row, [row EXCEPT !.error = TRUE]}
            /\ told' \in {told, "failing", "broken"}
            /\ told' = "broken" => told = "broken" \/ row'.error]_(Jar!vars)
<1> SUFFICES ASSUME Jar!IInv, Jar!Next, sync.pc = "asking", sync'.pc = "idle"
             PROVE  /\ row.link # sync.link => row' = row /\ told' \in {told, "failing"}
                    /\ row.status # "ACTIVE" =>
                         /\ row' \in {row, [row EXCEPT !.error = TRUE]}
                         /\ told' \in {told, "failing", "broken"}
                         /\ told' = "broken" => told = "broken" \/ row'.error
  OBVIOUS
<1> DEFINE Ignored ==
             /\ row.link # sync.link => row' = row /\ told' \in {told, "failing"}
             /\ row.status # "ACTIVE" =>
                  /\ row' \in {row, [row EXCEPT !.error = TRUE]}
                  /\ told' \in {told, "failing", "broken"}
                  /\ told' = "broken" => told = "broken" \/ row'.error
<1>1. Jar!MarkBroken => Ignored
  BY DEF Jar!MarkBroken, Jar!StillLinked, Jar!IInv, Jar!TypeOK
<1>2. ASSUME NEW closed \in BOOLEAN, Jar!Answer(closed)
      PROVE  Ignored
  BY <1>2 DEF Jar!Answer, Jar!StillLinked, Jar!IInv, Jar!TypeOK
<1>3. row' = row /\ told' \in {told, "failing"} => Ignored
  OBVIOUS
<1>4. \/ Jar!MarkBroken
      \/ \E closed \in BOOLEAN : Jar!Answer(closed)
      \/ row' = row /\ told' \in {told, "failing"}
      \/ sync' = sync
  BY DEF Jar!Next, Jar!Tick, Jar!ForgetStale, Jar!RateLimited, Jar!Resume, Jar!Unavailable,
         Jar!Restart, Jar!ReadRow, Jar!SaveUnlinked, Jar!Save, Jar!SaveKeepingLink,
         Jar!SaveUnresolved, Jar!RefuseUpdate, Jar!SaveResolved, Jar!CloseExpired, Jar!Remove
<1>5. sync' # sync
  OBVIOUS
<1>6. Ignored
  <2> HIDE DEF Ignored
  <2> QED
    BY <1>1, <1>2, <1>3, <1>4, <1>5
<1>7. QED
  BY <1>6

(***************************************************************************)
(* Broadcasts                                                              *)
(***************************************************************************)

\* What is known of its constants.
LEMMA SendingConstants ==
  None \notin Broadcasts /\ MaxAttempts \in Nat
BY ServicesConstants

\* How far a delivery has come.
DeliveryState == [pc : {"none", "sending", "finishing"}, left : SUBSET Recipients, attempt : Nat]

\* A delivery goes on from person to person.
LEMMA DeliverySteps ==
  ASSUME NEW r \in DeliveryState, NEW p
  PROVE  /\ [r EXCEPT !.left = @ \ {p}, !.attempt = 1] \in DeliveryState
         /\ [r EXCEPT !.attempt = @ + 1] \in DeliveryState
         /\ [r EXCEPT !.pc = "finishing"] \in DeliveryState
<1>1. r.left \ {p} \in SUBSET Recipients /\ 1 \in Nat
  BY DEF DeliveryState
<1>2. [[r EXCEPT !.left = r.left \ {p}] EXCEPT !.attempt = 1] \in DeliveryState
  BY <1>1 DEF DeliveryState
<1>3. [r EXCEPT !.left = @ \ {p}, !.attempt = 1]
        = [[r EXCEPT !.left = r.left \ {p}] EXCEPT !.attempt = 1]
  BY DEF DeliveryState
<1>4. QED
  BY <1>2, <1>3 DEF DeliveryState

\* Nothing was sent yet.
LEMMA SendingStart == Sending!Init => Sending!IInv
<1> SUFFICES ASSUME Sending!Init PROVE Sending!IInv
  OBVIOUS
<1>1. Sending!TypeOK
  BY DEF Sending!Init, Sending!TypeOK, Sending!NotRunning
<1>2. Sending!Running = {} /\ Sending!Sending = {} /\ \A b \in Broadcasts : ~ Sending!Started(b)
  BY DEF Sending!Init, Sending!Running, Sending!Sending, Sending!Started, Sending!NotRunning
<1>3. Sending!RunningAnswered /\ Sending!ReachedOnce /\ Sending!FieldHeld /\ Sending!SendingBacked
  BY <1>2 DEF Sending!Init, Sending!RunningAnswered, Sending!ReachedOnce, Sending!FieldHeld,
         Sending!SendingBacked, Sending!NotRunning
<1>4. QED
  BY <1>1, <1>3 DEF Sending!IInv

\* Calls, deliveries and restarts keep the invariant.
LEMMA SendingStep == Sending!IInv /\ [Sending!Next]_(Sending!vars) => Sending!IInv'
<1> SUFFICES ASSUME Sending!IInv, [Sending!Next]_(Sending!vars) PROVE Sending!IInv'
  OBVIOUS
<1>1. ASSUME NEW b \in Broadcasts, Sending!CheckField(b)
      PROVE  Sending!IInv'
  <2>1. Sending!TypeOK'
    BY <1>1 DEF Sending!CheckField, Sending!IInv, Sending!TypeOK
  <2>2. Sending!RunningAnswered'
    BY <1>1 DEF Sending!CheckField, Sending!IInv, Sending!RunningAnswered, Sending!Running
  <2>3. Sending!ReachedOnce'
    BY <1>1 DEF Sending!CheckField, Sending!IInv, Sending!ReachedOnce
  <2>4. Sending!FieldHeld'
    BY <1>1, SendingConstants DEF Sending!CheckField, Sending!IInv, Sending!FieldHeld,
           Sending!Started, Sending!Running
  <2>5. Sending!SendingBacked'
    BY <1>1 DEF Sending!CheckField, Sending!IInv, Sending!SendingBacked, Sending!Sending,
           Sending!Running
  <2>6. QED
    BY <2>1, <2>2, <2>3, <2>4, <2>5 DEF Sending!IInv
<1>2. ASSUME NEW b \in Broadcasts, Sending!CountRows(b)
      PROVE  Sending!IInv'
  <2>1. Sending!TypeOK'
    BY <1>2 DEF Sending!CountRows, Sending!IInv, Sending!TypeOK, Sending!Sending
  <2>2. Sending!RunningAnswered'
    BY <1>2 DEF Sending!CountRows, Sending!IInv, Sending!RunningAnswered, Sending!Sending,
           Sending!Running
  <2>3. Sending!ReachedOnce'
    BY <1>2 DEF Sending!CountRows, Sending!IInv, Sending!ReachedOnce, Sending!Sending
  <2>4. Sending!FieldHeld'
    BY <1>2 DEF Sending!CountRows, Sending!IInv, Sending!FieldHeld, Sending!Sending,
           Sending!Started, Sending!Running
  <2>5. Sending!SendingBacked'
    BY <1>2 DEF Sending!CountRows, Sending!IInv, Sending!SendingBacked, Sending!Sending,
           Sending!Running
  <2>6. QED
    BY <2>1, <2>2, <2>3, <2>4, <2>5 DEF Sending!IInv
<1>3. ASSUME NEW b \in Broadcasts, Sending!TakeField(b)
      PROVE  Sending!IInv'
  <2>1. Sending!TypeOK'
    BY <1>3 DEF Sending!TakeField, Sending!IInv, Sending!TypeOK
  <2>2. Sending!RunningAnswered'
    BY <1>3 DEF Sending!TakeField, Sending!IInv, Sending!RunningAnswered, Sending!Running
  <2>3. Sending!ReachedOnce'
    BY <1>3 DEF Sending!TakeField, Sending!IInv, Sending!ReachedOnce
  <2>4. Sending!FieldHeld'
    <3>1. CASE callsRaced'
      BY <3>1 DEF Sending!FieldHeld
    <3>2. CASE ~ callsRaced'
      <4>1. ~ callsRaced /\ \A o \in Broadcasts \ {b} : call[o] \notin {"counting", "counted"}
        BY <1>3, <3>2 DEF Sending!TakeField, Sending!IInv, Sending!TypeOK
      <4>2. \A o \in Broadcasts \ {b} : ~ Sending!Started(o)
        BY <4>1, <1>3 DEF Sending!TakeField, Sending!IInv, Sending!FieldHeld
      <4>3. \A o \in Broadcasts \ {b} : call'[o] = call[o] /\ ~ Sending!Started(o)'
        BY <4>2, <1>3 DEF Sending!TakeField, Sending!IInv, Sending!TypeOK, Sending!Started,
               Sending!Running
      <4>4. delivering' = b
        BY <1>3 DEF Sending!TakeField
      <4>5. QED
        BY <4>1, <4>3, <4>4 DEF Sending!FieldHeld
    <3>3. QED
      BY <3>1, <3>2
  <2>5. Sending!SendingBacked'
    BY <1>3 DEF Sending!TakeField, Sending!IInv, Sending!SendingBacked, Sending!Sending,
           Sending!Running
  <2>6. QED
    BY <2>1, <2>2, <2>3, <2>4, <2>5 DEF Sending!IInv
<1>4. ASSUME NEW b \in Broadcasts, Sending!EndOfList(b)
      PROVE  Sending!IInv'
  <2>1. Sending!TypeOK'
    <3> DEFINE r == [delivery[b] EXCEPT !.pc = "finishing"]
    <3>1. r \in DeliveryState
      BY DeliverySteps DEF Sending!IInv, Sending!TypeOK, DeliveryState
    <3>2. delivery' = [delivery EXCEPT ![b] = r]
      BY <1>4 DEF Sending!EndOfList
    <3> HIDE DEF r
    <3>3. delivery' \in [Broadcasts -> DeliveryState]
      BY <3>1, <3>2 DEF Sending!IInv, Sending!TypeOK, DeliveryState
    <3>5. QED
      BY <1>4, <3>3 DEF Sending!EndOfList, Sending!IInv, Sending!TypeOK, DeliveryState
  <2>2. Sending!RunningAnswered'
    BY <1>4 DEF Sending!EndOfList, Sending!IInv, Sending!RunningAnswered, Sending!Running
  <2>3. Sending!ReachedOnce'
    BY <1>4 DEF Sending!EndOfList, Sending!IInv, Sending!ReachedOnce
  <2>4. Sending!FieldHeld'
    BY <1>4 DEF Sending!EndOfList, Sending!IInv, Sending!FieldHeld, Sending!Started,
           Sending!Running
  <2>5. Sending!SendingBacked'
    BY <1>4 DEF Sending!EndOfList, Sending!IInv, Sending!SendingBacked, Sending!Sending,
           Sending!Running
  <2>6. QED
    BY <2>1, <2>2, <2>3, <2>4, <2>5 DEF Sending!IInv
<1>5. ASSUME NEW b \in Broadcasts, NEW people \in SUBSET Recipients, Sending!CreateRow(b, people)
      PROVE  Sending!IInv'
  <2>1. Sending!TypeOK'
    BY <1>5 DEF Sending!CreateRow, Sending!IInv, Sending!TypeOK
  <2>2. Sending!RunningAnswered'
    BY <1>5 DEF Sending!CreateRow, Sending!IInv, Sending!RunningAnswered, Sending!TypeOK,
           Sending!Running
  <2>3. Sending!ReachedOnce'
    BY <1>5 DEF Sending!CreateRow, Sending!IInv, Sending!ReachedOnce
  <2>4. Sending!FieldHeld'
    BY <1>5 DEF Sending!CreateRow, Sending!IInv, Sending!FieldHeld, Sending!Started,
           Sending!Running
  <2>5. Sending!SendingBacked'
    BY <1>5 DEF Sending!CreateRow, Sending!IInv, Sending!SendingBacked, Sending!TypeOK,
           Sending!Sending, Sending!Running
  <2>6. QED
    BY <2>1, <2>2, <2>3, <2>4, <2>5 DEF Sending!IInv
<1>6. ASSUME NEW b \in Broadcasts, NEW made \in BOOLEAN, Sending!FailToCreate(b, made)
      PROVE  Sending!IInv'
  <2>1. Sending!TypeOK'
    BY <1>6 DEF Sending!FailToCreate, Sending!IInv, Sending!TypeOK
  <2>2. Sending!RunningAnswered'
    BY <1>6 DEF Sending!FailToCreate, Sending!IInv, Sending!RunningAnswered, Sending!Running
  <2>3. Sending!ReachedOnce'
    BY <1>6 DEF Sending!FailToCreate, Sending!IInv, Sending!ReachedOnce
  <2>4. Sending!FieldHeld'
    BY <1>6 DEF Sending!FailToCreate, Sending!IInv, Sending!FieldHeld, Sending!TypeOK,
           Sending!RunningAnswered, Sending!Started, Sending!Running
  <2>5. Sending!SendingBacked'
    BY <1>6 DEF Sending!FailToCreate, Sending!IInv, Sending!SendingBacked, Sending!Sending,
           Sending!Running
  <2>6. QED
    BY <2>1, <2>2, <2>3, <2>4, <2>5 DEF Sending!IInv
<1>7. ASSUME NEW b \in Broadcasts, NEW p \in Recipients, Sending!Send(b, p)
      PROVE  Sending!IInv'
  <2>1. Sending!TypeOK'
    <3> DEFINE r == [delivery[b] EXCEPT !.left = @ \ {p}, !.attempt = 1]
    <3>1. r \in DeliveryState
      BY DeliverySteps DEF Sending!IInv, Sending!TypeOK, DeliveryState
    <3>2. delivery' = [delivery EXCEPT ![b] = r]
      BY <1>7 DEF Sending!Send, Sending!NextPerson
    <3> HIDE DEF r
    <3>3. delivery' \in [Broadcasts -> DeliveryState]
      BY <3>1, <3>2 DEF Sending!IInv, Sending!TypeOK, DeliveryState
    <3>4. got' \in [Broadcasts -> [Recipients -> Nat]]
      BY <1>7 DEF Sending!Send, Sending!IInv, Sending!TypeOK
    <3>5. QED
      BY <1>7, <3>3, <3>4 DEF Sending!Send, Sending!IInv, Sending!TypeOK, DeliveryState
  <2>2. Sending!RunningAnswered'
    BY <1>7 DEF Sending!Send, Sending!IInv, Sending!RunningAnswered, Sending!TypeOK,
           Sending!NextPerson, Sending!Running
  <2>3. Sending!ReachedOnce'
    BY <1>7 DEF Sending!Send, Sending!IInv, Sending!ReachedOnce, Sending!Current,
           Sending!NextPerson, Sending!TypeOK, Sending!RunningAnswered, Sending!Running
  <2>4. Sending!FieldHeld'
    BY <1>7 DEF Sending!Send, Sending!IInv, Sending!FieldHeld, Sending!TypeOK,
           Sending!NextPerson, Sending!Started, Sending!Running
  <2>5. Sending!SendingBacked'
    BY <1>7 DEF Sending!Send, Sending!IInv, Sending!SendingBacked, Sending!TypeOK,
           Sending!NextPerson, Sending!Sending, Sending!Running
  <2>6. QED
    BY <2>1, <2>2, <2>3, <2>4, <2>5 DEF Sending!IInv
<1>8. ASSUME NEW b \in Broadcasts, NEW p \in Recipients, Sending!Flood(b, p)
      PROVE  Sending!IInv'
  <2>1. Sending!TypeOK'
    <3> DEFINE r == [delivery[b] EXCEPT !.attempt = @ + 1]
    <3>1. r \in DeliveryState
      BY DeliverySteps DEF Sending!IInv, Sending!TypeOK, DeliveryState
    <3>2. delivery' = [delivery EXCEPT ![b] = r]
      BY <1>8 DEF Sending!Flood
    <3> HIDE DEF r
    <3>3. delivery' \in [Broadcasts -> DeliveryState]
      BY <3>1, <3>2 DEF Sending!IInv, Sending!TypeOK, DeliveryState
    <3>5. QED
      BY <1>8, <3>3 DEF Sending!Flood, Sending!IInv, Sending!TypeOK, DeliveryState
  <2>2. Sending!RunningAnswered'
    BY <1>8 DEF Sending!Flood, Sending!IInv, Sending!RunningAnswered, Sending!Current,
           Sending!Running
  <2>3. Sending!ReachedOnce'
    BY <1>8 DEF Sending!Flood, Sending!IInv, Sending!ReachedOnce, Sending!Current
  <2>4. Sending!FieldHeld'
    BY <1>8 DEF Sending!Flood, Sending!IInv, Sending!FieldHeld, Sending!Current, Sending!Started,
           Sending!Running
  <2>5. Sending!SendingBacked'
    BY <1>8 DEF Sending!Flood, Sending!IInv, Sending!SendingBacked, Sending!Current,
           Sending!Sending, Sending!Running
  <2>6. QED
    BY <2>1, <2>2, <2>3, <2>4, <2>5 DEF Sending!IInv
<1>9. ASSUME NEW b \in Broadcasts, NEW p \in Recipients, NEW f \in BOOLEAN, Sending!Miss(b, p, f)
      PROVE  Sending!IInv'
  <2>1. Sending!TypeOK'
    <3> DEFINE r == [delivery[b] EXCEPT !.left = @ \ {p}, !.attempt = 1]
    <3>1. r \in DeliveryState
      BY DeliverySteps DEF Sending!IInv, Sending!TypeOK, DeliveryState
    <3>2. delivery' = [delivery EXCEPT ![b] = r]
      BY <1>9 DEF Sending!Miss, Sending!NextPerson
    <3> HIDE DEF r
    <3>3. delivery' \in [Broadcasts -> DeliveryState]
      BY <3>1, <3>2 DEF Sending!IInv, Sending!TypeOK, DeliveryState
    <3>4. blocked' \subseteq Recipients
      BY <1>9 DEF Sending!Miss, Sending!IInv, Sending!TypeOK
    <3>5. QED
      BY <1>9, <3>3, <3>4 DEF Sending!Miss, Sending!IInv, Sending!TypeOK, DeliveryState
  <2>2. Sending!RunningAnswered'
    BY <1>9 DEF Sending!Miss, Sending!IInv, Sending!RunningAnswered, Sending!TypeOK,
           Sending!NextPerson, Sending!Running
  <2>3. Sending!ReachedOnce'
    BY <1>9 DEF Sending!Miss, Sending!IInv, Sending!ReachedOnce, Sending!TypeOK,
           Sending!NextPerson
  <2>4. Sending!FieldHeld'
    BY <1>9 DEF Sending!Miss, Sending!IInv, Sending!FieldHeld, Sending!TypeOK,
           Sending!NextPerson, Sending!Started, Sending!Running
  <2>5. Sending!SendingBacked'
    BY <1>9 DEF Sending!Miss, Sending!IInv, Sending!SendingBacked, Sending!TypeOK,
           Sending!NextPerson, Sending!Sending, Sending!Running
  <2>6. QED
    BY <2>1, <2>2, <2>3, <2>4, <2>5 DEF Sending!IInv
<1>10. ASSUME NEW b \in Broadcasts, NEW lst \in {"COMPLETED", "INTERRUPTED", "lost"},
              Sending!Finish(b, lst)
      PROVE  Sending!IInv'
  <2>1. Sending!TypeOK'
    BY <1>10 DEF Sending!Finish, Sending!IInv, Sending!TypeOK, Sending!NotRunning
  <2>2. Sending!RunningAnswered'
    BY <1>10 DEF Sending!Finish, Sending!IInv, Sending!RunningAnswered, Sending!NotRunning,
           Sending!Running
  <2>3. Sending!ReachedOnce'
    BY <1>10 DEF Sending!Finish, Sending!IInv, Sending!ReachedOnce, Sending!NotRunning
  <2>4. Sending!FieldHeld'
    BY <1>10 DEF Sending!Finish, Sending!IInv, Sending!FieldHeld, Sending!NotRunning,
           Sending!TypeOK, Sending!RunningAnswered, Sending!Started, Sending!Running
  <2>5. Sending!SendingBacked'
    BY <1>10 DEF Sending!Finish, Sending!IInv, Sending!SendingBacked, Sending!TypeOK,
           Sending!NotRunning, Sending!Sending, Sending!Running
  <2>6. QED
    BY <2>1, <2>2, <2>3, <2>4, <2>5 DEF Sending!IInv
<1>11. ASSUME NEW marked \in BOOLEAN, Sending!Restart(marked)
      PROVE  Sending!IInv'
  <2>1. Sending!TypeOK'
    BY <1>11 DEF Sending!Restart, Sending!IInv, Sending!TypeOK, Sending!NotRunning,
           Sending!Sending
  <2>2. Sending!RunningAnswered'
    BY <1>11 DEF Sending!Restart, Sending!IInv, Sending!RunningAnswered, Sending!NotRunning,
           Sending!Sending, Sending!Running
  <2>3. Sending!ReachedOnce'
    BY <1>11 DEF Sending!Restart, Sending!IInv, Sending!ReachedOnce, Sending!NotRunning,
           Sending!Sending
  <2>4. Sending!FieldHeld'
    BY <1>11 DEF Sending!Restart, Sending!IInv, Sending!FieldHeld, Sending!NotRunning,
           Sending!Sending, Sending!Started, Sending!Running
  <2>5. Sending!SendingBacked'
    BY <1>11 DEF Sending!Restart, Sending!IInv, Sending!SendingBacked, Sending!NotRunning,
           Sending!Sending, Sending!Running
  <2>6. QED
    BY <2>1, <2>2, <2>3, <2>4, <2>5 DEF Sending!IInv
<1>12. CASE UNCHANGED Sending!vars
  BY <1>12 DEF Sending!vars, Sending!IInv, Sending!TypeOK, Sending!RunningAnswered,
         Sending!ReachedOnce, Sending!FieldHeld, Sending!SendingBacked, Sending!Running,
         Sending!Started, Sending!Sending
<1>13. QED
  BY <1>1, <1>2, <1>3, <1>4, <1>5, <1>6, <1>7, <1>8, <1>9, <1>10, <1>11, <1>12 DEF Sending!Next

\* The invariant gives one delivery at a time.
LEMMA BroadcastsSound == Sending!IInv => Sending!OneAtATime
<1> SUFFICES ASSUME Sending!IInv PROVE Sending!OneAtATime
  OBVIOUS
<1>1. ASSUME ~ callsRaced PROVE Sending!Cardinality(Sending!Running) <= 1
  <2>1. \A x, y \in Sending!Running : x = y
    BY <1>1 DEF Sending!IInv, Sending!FieldHeld, Sending!Started, Sending!Running
  <2>2. QED
    BY <2>1, AtMostOne, SameCounting
<1>2. QED
  BY <1>1 DEF Sending!OneAtATime, Sending!IInv, Sending!ReachedOnce, Sending!SendingBacked

(***************************************************************************)
(* Uploads                                                                 *)
(***************************************************************************)

\* What is known of its constants.
LEMMA FilesConstants ==
  Grace \in Nat /\ PendingLife \in Nat /\ MaxTime \in Nat
BY ServicesConstants

\* Nothing was uploaded yet.
LEMMA FilesStart == Files!Init => Files!IInv
<1> SUFFICES ASSUME Files!Init PROVE Files!IInv
  OBVIOUS
<1>1. 0 \in Files!Time
  BY FilesConstants DEF Files!Time
<1>2. Files!TypeOK
  BY <1>1 DEF Files!Init, Files!TypeOK, Files!NoPass
<1>3. /\ Files!GoneFormsHurried /\ Files!LooksHold /\ Files!PassKnowsItsRow
      /\ Files!CountedFromUse /\ Files!UsedInThePast /\ Files!DeletedAfterGrace
  BY DEF Files!Init, Files!GoneFormsHurried, Files!LooksHold, Files!PassKnowsItsRow,
         Files!CountedFromUse, Files!UsedInThePast, Files!DeletedAfterGrace, Files!NoPass
<1>4. QED
  BY <1>2, <1>3 DEF Files!IInv

\* Uploads, forms and the collector keep the invariant.
LEMMA FilesStep == Files!IInv /\ [Files!Next]_(Files!vars) => Files!IInv'
<1> SUFFICES ASSUME Files!IInv, [Files!Next]_(Files!vars) PROVE Files!IInv'
  OBVIOUS
<1>1. CASE Files!WriteFile
  <2>1. Files!TypeOK'
    BY <1>1 DEF Files!WriteFile, Files!IInv, Files!TypeOK, Files!Time
  <2>2. Files!GoneFormsHurried'
    BY <1>1 DEF Files!WriteFile, Files!IInv, Files!GoneFormsHurried, Files!Valid
  <2>3. Files!DeletedAfterGrace'
    BY <1>1 DEF Files!WriteFile, Files!IInv, Files!DeletedAfterGrace
  <2>4. /\ Files!LooksHold' /\ Files!PassKnowsItsRow' /\ Files!CountedFromUse'
        /\ Files!UsedInThePast'
    BY <1>1 DEF Files!WriteFile, Files!IInv, Files!LooksHold, Files!PassKnowsItsRow,
           Files!CountedFromUse, Files!UsedInThePast, Files!Valid
  <2>5. QED
    BY <2>1, <2>2, <2>3, <2>4 DEF Files!IInv
<1>2. CASE Files!Record
  <2>1. Files!TypeOK'
    BY <1>2 DEF Files!Record, Files!IInv, Files!TypeOK, Files!Time
  <2>2. Files!PassKnowsItsRow'
    BY <1>2 DEF Files!Record, Files!IInv, Files!PassKnowsItsRow
  <2>3. Files!CountedFromUse'
    BY <1>2 DEF Files!Record, Files!IInv, Files!CountedFromUse, Files!TypeOK, Files!Time
  <2>4. Files!UsedInThePast'
    BY <1>2 DEF Files!Record, Files!IInv, Files!UsedInThePast, Files!TypeOK, Files!Time
  <2>5. Files!DeletedAfterGrace'
    BY <1>2 DEF Files!Record, Files!IInv, Files!DeletedAfterGrace
  <2>6. Files!GoneFormsHurried' /\ Files!LooksHold'
    BY <1>2 DEF Files!Record, Files!IInv, Files!GoneFormsHurried, Files!LooksHold, Files!Valid
  <2>7. QED
    BY <2>1, <2>2, <2>3, <2>4, <2>5, <2>6 DEF Files!IInv
<1>3. ASSUME NEW f \in Forms, Files!CheckFile(f)
      PROVE  Files!IInv'
  <2>1. Files!TypeOK'
    BY <1>3 DEF Files!CheckFile, Files!IInv, Files!TypeOK, Files!Time
  <2>2. Files!GoneFormsHurried'
    BY <1>3 DEF Files!CheckFile, Files!IInv, Files!GoneFormsHurried, Files!Valid
  <2>3. Files!LooksHold'
    BY <1>3 DEF Files!CheckFile, Files!IInv, Files!LooksHold, Files!Valid
  <2>4. /\ Files!PassKnowsItsRow' /\ Files!CountedFromUse' /\ Files!UsedInThePast'
        /\ Files!DeletedAfterGrace'
    BY <1>3 DEF Files!CheckFile, Files!IInv, Files!PassKnowsItsRow, Files!CountedFromUse,
           Files!UsedInThePast, Files!DeletedAfterGrace
  <2>5. QED
    BY <2>1, <2>2, <2>3, <2>4 DEF Files!IInv
<1>4. ASSUME NEW f \in Forms, Files!Insert(f)
      PROVE  Files!IInv'
  <2>1. Files!TypeOK'
    BY <1>4 DEF Files!Insert, Files!IInv, Files!TypeOK, Files!Time
  <2>2. Files!GoneFormsHurried'
    BY <1>4 DEF Files!Insert, Files!IInv, Files!GoneFormsHurried, Files!Valid
  <2>3. Files!LooksHold'
    BY <1>4 DEF Files!Insert, Files!IInv, Files!LooksHold, Files!Valid
  <2>4. /\ Files!PassKnowsItsRow' /\ Files!CountedFromUse' /\ Files!UsedInThePast'
        /\ Files!DeletedAfterGrace'
    BY <1>4 DEF Files!Insert, Files!IInv, Files!PassKnowsItsRow, Files!CountedFromUse,
           Files!UsedInThePast, Files!DeletedAfterGrace
  <2>5. QED
    BY <2>1, <2>2, <2>3, <2>4 DEF Files!IInv
<1>5. ASSUME NEW f \in Forms, Files!ReadPending(f)
      PROVE  Files!IInv'
  <2>1. Files!TypeOK'
    BY <1>5 DEF Files!ReadPending, Files!IInv, Files!TypeOK, Files!Valid, Files!Time
  <2>2. Files!GoneFormsHurried'
    BY <1>5 DEF Files!ReadPending, Files!IInv, Files!GoneFormsHurried, Files!Valid
  <2>3. Files!LooksHold'
    BY <1>5 DEF Files!ReadPending, Files!IInv, Files!LooksHold, Files!Valid
  <2>4. /\ Files!PassKnowsItsRow' /\ Files!CountedFromUse' /\ Files!UsedInThePast'
        /\ Files!DeletedAfterGrace'
    BY <1>5 DEF Files!ReadPending, Files!IInv, Files!PassKnowsItsRow, Files!CountedFromUse,
           Files!UsedInThePast, Files!DeletedAfterGrace
  <2>5. QED
    BY <2>1, <2>2, <2>3, <2>4 DEF Files!IInv
<1>6. ASSUME NEW f \in Forms, Files!Confirm(f)
      PROVE  Files!IInv'
  <2>1. Files!TypeOK'
    BY <1>6 DEF Files!Confirm, Files!IInv, Files!TypeOK, Files!Time
  <2>2. Files!GoneFormsHurried'
    BY <1>6 DEF Files!Confirm, Files!IInv, Files!GoneFormsHurried, Files!Valid
  <2>3. Files!LooksHold'
    BY <1>6 DEF Files!Confirm, Files!IInv, Files!LooksHold, Files!Valid
  <2>4. /\ Files!PassKnowsItsRow' /\ Files!CountedFromUse' /\ Files!UsedInThePast'
        /\ Files!DeletedAfterGrace'
    BY <1>6 DEF Files!Confirm, Files!IInv, Files!PassKnowsItsRow, Files!CountedFromUse,
           Files!UsedInThePast, Files!DeletedAfterGrace
  <2>5. QED
    BY <2>1, <2>2, <2>3, <2>4 DEF Files!IInv
<1>7. ASSUME NEW f \in Forms, Files!Drop(f)
      PROVE  Files!IInv'
  <2>1. Files!TypeOK'
    BY <1>7 DEF Files!Drop, Files!IInv, Files!TypeOK, Files!Time
  <2>2. Files!GoneFormsHurried'
    BY <1>7 DEF Files!Drop, Files!IInv, Files!GoneFormsHurried, Files!Valid
  <2>3. Files!LooksHold'
    BY <1>7 DEF Files!Drop, Files!IInv, Files!LooksHold, Files!Valid
  <2>4. /\ Files!PassKnowsItsRow' /\ Files!CountedFromUse' /\ Files!UsedInThePast'
        /\ Files!DeletedAfterGrace'
    BY <1>7 DEF Files!Drop, Files!IInv, Files!PassKnowsItsRow, Files!CountedFromUse,
           Files!UsedInThePast, Files!DeletedAfterGrace
  <2>5. QED
    BY <2>1, <2>2, <2>3, <2>4 DEF Files!IInv
<1>8. CASE Files!StartPass
  <2>1. Files!TypeOK'
    BY <1>8 DEF Files!StartPass, Files!IInv, Files!TypeOK, Files!Time
  <2>2. Files!LooksHold'
    BY <1>8 DEF Files!StartPass, Files!IInv, Files!LooksHold, Files!Valid
  <2>3. Files!PassKnowsItsRow'
    BY <1>8 DEF Files!StartPass, Files!IInv, Files!PassKnowsItsRow
  <2>4. /\ Files!GoneFormsHurried' /\ Files!CountedFromUse' /\ Files!UsedInThePast'
        /\ Files!DeletedAfterGrace'
    BY <1>8 DEF Files!StartPass, Files!IInv, Files!GoneFormsHurried, Files!CountedFromUse,
           Files!UsedInThePast, Files!DeletedAfterGrace, Files!Valid
  <2>5. QED
    BY <2>1, <2>2, <2>3, <2>4 DEF Files!IInv
<1>9. CASE Files!FindReferences
  <2>1. Files!TypeOK'
    BY <1>9 DEF Files!FindReferences, Files!IInv, Files!TypeOK, Files!RefersTo, Files!Time,
           Files!Valid
  <2>2. Files!LooksHold'
    BY <1>9 DEF Files!FindReferences, Files!IInv, Files!LooksHold, Files!RefersTo, Files!Valid
  <2>3. Files!PassKnowsItsRow'
    BY <1>9 DEF Files!FindReferences, Files!IInv, Files!PassKnowsItsRow, Files!RefersTo,
           Files!Valid
  <2>4. /\ Files!GoneFormsHurried' /\ Files!CountedFromUse' /\ Files!UsedInThePast'
        /\ Files!DeletedAfterGrace'
    BY <1>9 DEF Files!FindReferences, Files!IInv, Files!GoneFormsHurried, Files!CountedFromUse,
           Files!UsedInThePast, Files!DeletedAfterGrace, Files!Valid
  <2>5. QED
    BY <2>1, <2>2, <2>3, <2>4 DEF Files!IInv
<1>10. CASE Files!MarkUsed
  <2>1. Files!TypeOK'
    BY <1>10 DEF Files!MarkUsed, Files!IInv, Files!TypeOK, Files!NoPass, Files!Time
  <2>2. Files!LooksHold'
    BY <1>10 DEF Files!MarkUsed, Files!IInv, Files!LooksHold, Files!NoPass, Files!Valid
  <2>3. Files!PassKnowsItsRow'
    BY <1>10 DEF Files!MarkUsed, Files!IInv, Files!PassKnowsItsRow, Files!NoPass
  <2>4. Files!CountedFromUse'
    BY <1>10 DEF Files!MarkUsed, Files!IInv, Files!CountedFromUse, Files!NoPass
  <2>5. Files!UsedInThePast'
    BY <1>10 DEF Files!MarkUsed, Files!IInv, Files!UsedInThePast, Files!TypeOK, Files!Time
  <2>6. Files!DeletedAfterGrace'
    BY <1>10 DEF Files!MarkUsed, Files!IInv, Files!DeletedAfterGrace, Files!NoPass
  <2>7. Files!GoneFormsHurried'
    BY <1>10 DEF Files!MarkUsed, Files!IInv, Files!GoneFormsHurried, Files!Valid
  <2>8. QED
    BY <2>1, <2>2, <2>3, <2>4, <2>5, <2>6, <2>7 DEF Files!IInv
<1>11. CASE Files!MarkUnused
  <2>1. Files!TypeOK'
    BY <1>11 DEF Files!MarkUnused, Files!IInv, Files!TypeOK, Files!NoPass, Files!Time
  <2>2. Files!LooksHold'
    BY <1>11 DEF Files!MarkUnused, Files!IInv, Files!LooksHold, Files!NoPass, Files!Valid
  <2>3. Files!PassKnowsItsRow'
    BY <1>11 DEF Files!MarkUnused, Files!IInv, Files!PassKnowsItsRow, Files!NoPass
  <2>4. Files!CountedFromUse'
    BY <1>11 DEF Files!MarkUnused, Files!IInv, Files!CountedFromUse, Files!UsedInThePast
  <2>5. Files!GoneFormsHurried' /\ Files!UsedInThePast' /\ Files!DeletedAfterGrace'
    BY <1>11 DEF Files!MarkUnused, Files!IInv, Files!GoneFormsHurried, Files!UsedInThePast,
           Files!DeletedAfterGrace, Files!Valid
  <2>6. QED
    BY <2>1, <2>2, <2>3, <2>4, <2>5 DEF Files!IInv
<1>12. CASE Files!Wait
  <2>1. Files!TypeOK'
    BY <1>12 DEF Files!Wait, Files!IInv, Files!TypeOK, Files!NoPass, Files!Time
  <2>2. Files!LooksHold'
    BY <1>12 DEF Files!Wait, Files!IInv, Files!LooksHold, Files!NoPass, Files!Valid
  <2>3. Files!PassKnowsItsRow'
    BY <1>12 DEF Files!Wait, Files!IInv, Files!PassKnowsItsRow, Files!NoPass
  <2>4. /\ Files!GoneFormsHurried' /\ Files!CountedFromUse' /\ Files!UsedInThePast'
        /\ Files!DeletedAfterGrace'
    BY <1>12 DEF Files!Wait, Files!IInv, Files!GoneFormsHurried, Files!CountedFromUse,
           Files!UsedInThePast, Files!DeletedAfterGrace, Files!Valid
  <2>5. QED
    BY <2>1, <2>2, <2>3, <2>4 DEF Files!IInv
<1>13. CASE Files!DeleteFile
  <2>1. Files!TypeOK'
    BY <1>13 DEF Files!DeleteFile, Files!IInv, Files!TypeOK, Files!Late, Files!Time
  <2>2. Files!GoneFormsHurried'
    BY <1>13 DEF Files!DeleteFile, Files!IInv, Files!GoneFormsHurried, Files!Late,
           Files!LooksHold, Files!Valid
  <2>3. Files!LooksHold'
    BY <1>13 DEF Files!DeleteFile, Files!IInv, Files!LooksHold, Files!Late, Files!Valid
  <2>4. Files!PassKnowsItsRow'
    BY <1>13 DEF Files!DeleteFile, Files!IInv, Files!PassKnowsItsRow, Files!Late
  <2>5. Files!DeletedAfterGrace'
    BY <1>13, FilesConstants DEF Files!DeleteFile, Files!IInv, Files!DeletedAfterGrace,
           Files!TypeOK, Files!PassKnowsItsRow, Files!CountedFromUse, Files!Time
  <2>6. Files!CountedFromUse' /\ Files!UsedInThePast'
    BY <1>13 DEF Files!DeleteFile, Files!IInv, Files!CountedFromUse, Files!UsedInThePast
  <2>7. QED
    BY <2>1, <2>2, <2>3, <2>4, <2>5, <2>6 DEF Files!IInv
<1>14. CASE Files!DeleteRow
  <2>1. Files!TypeOK'
    BY <1>14 DEF Files!DeleteRow, Files!IInv, Files!TypeOK, Files!NoPass, Files!Time
  <2>2. Files!LooksHold'
    BY <1>14 DEF Files!DeleteRow, Files!IInv, Files!LooksHold, Files!NoPass, Files!Valid
  <2>3. Files!PassKnowsItsRow'
    BY <1>14 DEF Files!DeleteRow, Files!IInv, Files!PassKnowsItsRow, Files!NoPass
  <2>4. Files!CountedFromUse'
    BY <1>14 DEF Files!DeleteRow, Files!IInv, Files!CountedFromUse, Files!NoPass
  <2>5. Files!GoneFormsHurried' /\ Files!UsedInThePast' /\ Files!DeletedAfterGrace'
    BY <1>14 DEF Files!DeleteRow, Files!IInv, Files!GoneFormsHurried, Files!UsedInThePast,
           Files!DeletedAfterGrace, Files!Valid
  <2>6. QED
    BY <2>1, <2>2, <2>3, <2>4, <2>5 DEF Files!IInv
<1>15. CASE Files!StopPass
  <2>1. Files!TypeOK'
    BY <1>15 DEF Files!StopPass, Files!IInv, Files!TypeOK, Files!NoPass, Files!Time
  <2>2. Files!LooksHold'
    BY <1>15 DEF Files!StopPass, Files!IInv, Files!LooksHold, Files!NoPass, Files!Valid
  <2>3. Files!PassKnowsItsRow'
    BY <1>15 DEF Files!StopPass, Files!IInv, Files!PassKnowsItsRow, Files!NoPass
  <2>4. /\ Files!GoneFormsHurried' /\ Files!CountedFromUse' /\ Files!UsedInThePast'
        /\ Files!DeletedAfterGrace'
    BY <1>15 DEF Files!StopPass, Files!IInv, Files!GoneFormsHurried, Files!CountedFromUse,
           Files!UsedInThePast, Files!DeletedAfterGrace, Files!Valid
  <2>5. QED
    BY <2>1, <2>2, <2>3, <2>4 DEF Files!IInv
<1>16. CASE Files!PassTime
  <2>1. Files!TypeOK'
    BY <1>16, FilesConstants DEF Files!PassTime, Files!IInv, Files!TypeOK, Files!Time
  <2>2. Files!GoneFormsHurried'
    BY <1>16, FilesConstants DEF Files!PassTime, Files!IInv, Files!GoneFormsHurried,
           Files!TypeOK, Files!Valid, Files!Time
  <2>3. Files!LooksHold'
    BY <1>16 DEF Files!PassTime, Files!IInv, Files!LooksHold, Files!Valid
  <2>4. Files!UsedInThePast'
    BY <1>16 DEF Files!PassTime, Files!IInv, Files!UsedInThePast, Files!TypeOK, Files!Time
  <2>5. Files!PassKnowsItsRow' /\ Files!CountedFromUse' /\ Files!DeletedAfterGrace'
    BY <1>16 DEF Files!PassTime, Files!IInv, Files!PassKnowsItsRow, Files!CountedFromUse,
           Files!DeletedAfterGrace
  <2>6. QED
    BY <2>1, <2>2, <2>3, <2>4, <2>5 DEF Files!IInv
<1>17. CASE UNCHANGED Files!vars
  BY <1>17 DEF Files!vars, Files!IInv, Files!TypeOK, Files!GoneFormsHurried, Files!LooksHold,
         Files!PassKnowsItsRow, Files!CountedFromUse, Files!UsedInThePast,
         Files!DeletedAfterGrace, Files!Time, Files!Valid
<1>18. QED
  BY <1>1, <1>2, <1>3, <1>4, <1>5, <1>6, <1>7, <1>8, <1>9, <1>10, <1>11, <1>12, <1>13, <1>14,
     <1>15, <1>16, <1>17
     DEF Files!Next

\* The invariant keeps the files that are used.
LEMMA FilesSound == Files!IInv => Files!UsedFilesStay
BY DEF Files!IInv, Files!GoneFormsHurried, Files!DeletedAfterGrace, Files!UsedFilesStay

(***************************************************************************)
(* The services together                                                   *)
(***************************************************************************)
\* A step of the composition is a step or a stutter of each.
LEMMA EachMoves ==
  [Next]_vars =>
    /\ [Login!Next]_(Login!vars) /\ [Saved!Next]_(Saved!vars) /\ [Curators!Next]_(Curators!vars)
    /\ [Shari!Next]_(Shari!vars) /\ [Screen!Next]_(Screen!vars) /\ [Jar!Next]_(Jar!vars)
    /\ [Sending!Next]_(Sending!vars) /\ [Files!Next]_(Files!vars)
<1> SUFFICES ASSUME [Next]_vars
             PROVE  /\ Login!Next \/ UNCHANGED LoginVars
                    /\ Saved!Next \/ UNCHANGED SavedVars
                    /\ Curators!Next \/ UNCHANGED CuratorsVars
                    /\ Shari!Next \/ UNCHANGED ShariVars
                    /\ Screen!Next \/ UNCHANGED ScreenVars
                    /\ Jar!Next \/ UNCHANGED JarVars
                    /\ Sending!Next \/ UNCHANGED SendingVars
                    /\ Files!Next \/ UNCHANGED FilesVars
  BY DEF LoginVars, SavedVars, CuratorsVars, ShariVars, ScreenVars, JarVars, SendingVars, FilesVars,
         Login!vars, Saved!vars, Curators!vars, Shari!vars, Screen!vars, Jar!vars, Sending!vars,
         Files!vars
<1>1. CASE Next
  BY <1>1 DEF Next, LoginMoves, SavedMoves, CuratorsMoves, ShariMoves, ScreenMoves, JarMoves,
              SendingMoves, FilesMoves
<1>2. CASE UNCHANGED vars
  BY <1>2 DEF vars
<1>3. QED
  BY <1>1, <1>2

\* Every reachable state of the services satisfies all their inductive invariants: their
\* types, and what each of their calls may rely on between two of its steps.
THEOREM ServicesInvariant == Spec => []IInv
<1>1. Init => IInv
  BY LoginStart, SavedStart, CuratorsStart, ShariStart, ScreenStart, JarStart, SendingStart,
     FilesStart
     DEF Init, IInv
<1>2. IInv /\ [Next]_vars => IInv'
  BY EachMoves, LoginStep, SavedStep, CuratorsStep, ShariStep, ScreenStep, JarStep, SendingStep,
     FilesStep
     DEF IInv
<1>3. QED
  BY <1>1, <1>2, PTL DEF Spec

\* One session for each login link, and none for a person who disowned it, whichever tabs
\* poll and whatever answers are lost (SiteLogin).
THEOREM SessionsAreOne == Spec => []OneSession
<1>1. IInv => OneSession
  BY SessionsSound DEF IInv, OneSession
<1>2. QED
  BY <1>1, ServicesInvariant, PTL

\* A customer with recipients has one default, whoever adds and chooses at the same time; only
\* a deletion that overlaps another call may break it (SavedRecipients).
THEOREM DefaultsAreOne == Spec => []OneDefault
<1>1. IInv => OneDefault
  BY DEF IInv, Saved!IInv, OneDefault
<1>2. QED
  BY <1>1, ServicesInvariant, PTL

\* A curator product is not opened by deleting groups one after another (CuratorGroups).
THEOREM CuratorsKeepProducts == Spec => []CuratorsOnly
<1>1. IInv => CuratorsOnly
  BY DEF IInv, Curators!IInv, CuratorsOnly
<1>2. QED
  BY <1>1, ServicesInvariant, PTL

\* A one-off command fires once at most, and the screen shows what the row says, whatever
\* answers to its polls are lost or overtaken (StageScreen).
THEOREM ScreenFollows == Spec => []OneOffsFireOnce
<1>1. IInv => OneOffsFireOnce
  BY ScreenSound DEF IInv, OneOffsFireOnce
<1>2. QED
  BY <1>1, ServicesInvariant, PTL

\* An amount shown as synced is that of the jar the fundraiser is linked to (JarSync).
THEOREM SyncedJars == Spec => []SyncedShowsItsJar
<1>1. IInv => SyncedShowsItsJar
  BY DEF IInv, Jar!IInv, SyncedShowsItsJar
<1>2. QED
  BY <1>1, ServicesInvariant, PTL

\* One broadcast at a time, once to each person, and none left in SENDING for no reason
\* (BroadcastDelivery).
THEOREM BroadcastsOneAtATime == Spec => []OneAtATime
<1>1. IInv => OneAtATime
  BY BroadcastsSound DEF IInv, OneAtATime
<1>2. QED
  BY <1>1, ServicesInvariant, PTL

\* A file in use is not deleted, nor one uploaded or used within a day (UploadCollector).
THEOREM FilesInUseStay == Spec => []UsedFilesStay
<1>1. IInv => UsedFilesStay
  BY FilesSound DEF IInv, UsedFilesStay
<1>2. QED
  BY <1>1, ServicesInvariant, PTL

\* A certificate checks out until a save names somebody else for its place, and none is issued
\* beyond the places there are unless a save and the teacher overlap (ShariAwards).
THEOREM CertificatesAreKept == Spec => CertificatesStand
<1>1. IInv /\ IInv' /\ [Next]_vars =>
        [/\ \A a \in awards \ awards' :
               \/ \E s \in AwardSaves :
                                Shari!Saved(s) /\ ~ Shari!Wants(s, a.slot, a.name)
               \/ shariRaced /\ ~ shara'.there
         /\ ~ shariRaced' => \A a \in awards' : a.slot < shara'.quantity]_(Shari!vars)
  BY EachMoves, AwardsStand DEF IInv
<1>2. QED
  BY <1>1, ServicesInvariant, PTL DEF Spec, CertificatesStand, Shari!CertificatesStand

\* An answer of Monobank for a link the fundraiser no longer has leaves its row alone; one for a
\* closed fundraiser leaves its status and amount, and at most records and tells of a final
\* verdict on its link (JarSync).
THEOREM LateAnswersChangeNothing == Spec => LateAnswersIgnored
<1>1. IInv /\ [Next]_vars =>
        [sync.pc = "asking" /\ sync'.pc = "idle" =>
           /\ row.link # sync.link => row' = row /\ told' \in {told, "failing"}
           /\ row.status # "ACTIVE" =>
                /\ row' \in {row, [row EXCEPT !.error = TRUE]}
                /\ told' \in {told, "failing", "broken"}
                /\ told' = "broken" => told = "broken" \/ row'.error]_(Jar!vars)
  BY EachMoves, AnswersIgnored DEF IInv
<1>2. QED
  BY <1>1, ServicesInvariant, PTL DEF Spec, LateAnswersIgnored, Jar!LateAnswersIgnored
=============================================================================

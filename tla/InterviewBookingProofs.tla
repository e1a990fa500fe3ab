----------------------- MODULE InterviewBookingProofs -----------------------
(***************************************************************************)
(* For any candidates, times, calls and notice: the types of               *)
(* InterviewBooking, what the handlers rely on, and from it that bookings  *)
(* are kept, reminders true, and people doubled only by their own races.   *)
(***************************************************************************)
EXTENDS InterviewBooking, FiniteSetTheorems, TLAPS

(***************************************************************************)
(* What the four kinds of steps that write slots do to them                *)
(***************************************************************************)
\* book frees only a slot its own candidate holds and takes one nobody else holds; neither
\* starts soon enough to be reminded of.
LEMMA BookEffect ==
    ASSUME IInv, NEW b \in Bookings, Book(b), Commits(b)
    PROVE  /\ slot' \in [Slots -> SlotState]
           /\ TargetOf[b] \in Slots /\ Offered(TargetOf[b])
           /\ ForOf[b] \in Candidates /\ InList(ForOf[b])
           /\ Department(TargetOf[b]) = DepartmentOf[ForOf[b]]
           /\ slot[TargetOf[b]].candidate \in {None, ForOf[b]}
           /\ HeldBy(ForOf[b]) \subseteq booking[b].previous
           /\ \A s \in booking[b].previous : s \in Slots /\ slot[s].candidate = ForOf[b]
           /\ \A s \in booking[b].previous \cup {TargetOf[b]} : StartOf[s] > now + ReminderBefore
           /\ \A s \in Slots :
                /\ slot'[s].row = slot[s].row /\ slot'[s].reminded = slot[s].reminded
                /\ slot'[s].candidate = IF s = TargetOf[b] THEN ForOf[b]
                                        ELSE IF s \in booking[b].previous THEN None
                                        ELSE slot[s].candidate
<1> DEFINE c == ForOf[b]
           t == TargetOf[b]
           left == [s \in Slots |-> IF s \in booking[b].previous
                                    THEN [slot[s] EXCEPT !.candidate = None] ELSE slot[s]]
<1>1. t \in Slots /\ c \in Candidates /\ InList(c) /\ booking[b].pc = "checked"
  BY InterviewConstants DEF Book, Commits
<1>2. HeldBy(c) \subseteq booking[b].previous
  BY DEF Commits
<1>3. \A s \in booking[b].previous : s \in Slots /\ slot[s].candidate = c
  <2>1. booking[b].previous # {} => HeldBy(c) # {}
    BY <1>1 DEF IInv, BookingsSound, InFlight
  <2>2. \A s, u \in booking[b].previous : s = u
    BY <1>1 DEF IInv, BookingsSound, InFlight
  <2>3. QED
    BY <1>2, <2>1, <2>2 DEF HeldBy
<1>4. Offered(t) /\ slot[t].candidate \in {None, c} /\ Department(t) = DepartmentOf[c]
  <2>1. Department(t) = DepartmentOf[c]
    BY <1>1 DEF IInv, BookingsSound, InFlight
  <2>2. QED
    BY <1>3, <2>1 DEF Commits, Free
<1>5. \A s \in booking[b].previous \cup {t} : StartOf[s] > now + ReminderBefore
  <2>1. /\ now \in Nat /\ booking[b].since \in Nat /\ now <= booking[b].since + MaxHandler
        /\ \A s \in booking[b].previous \cup {t} : s \in Slots /\ StartOf[s] > booking[b].since + Lead
    BY <1>1, <1>3, InterviewConstants DEF IInv, TypeOK, BookingState, BookingsSound, InFlight
  <2>2. QED
    BY <2>1, InterviewConstants, BookingsAreShort
<1>6. slot' = [left EXCEPT ![t].candidate = c] /\ slot \in [Slots -> SlotState]
  BY DEF Book, Rebooked, IInv, TypeOK
<1>7. left \in [Slots -> SlotState]
  BY <1>6 DEF SlotState
<1>8. slot' \in [Slots -> SlotState]
  <2> HIDE DEF left
  <2>1. QED
    BY <1>1, <1>6, <1>7 DEF SlotState
<1>9. ASSUME NEW s \in Slots
      PROVE  /\ slot'[s].row = slot[s].row /\ slot'[s].reminded = slot[s].reminded
             /\ slot'[s].candidate = IF s = t THEN c ELSE IF s \in booking[b].previous THEN None
                                     ELSE slot[s].candidate
  <2>1. slot[s] \in SlotState
    BY <1>6
  <2>2. /\ left[s].row = slot[s].row /\ left[s].reminded = slot[s].reminded
        /\ left[s].candidate = IF s \in booking[b].previous THEN None ELSE slot[s].candidate
    BY <2>1 DEF SlotState
  <2>3. slot'[s] = IF s = t THEN [left[s] EXCEPT !.candidate = c] ELSE left[s]
    <3> HIDE DEF left
    <3>1. QED
      BY <1>1, <1>6, <1>7
  <2>4. left[s] \in SlotState
    BY <1>7
  <2>5. QED
    <3> HIDE DEF left
    <3>1. QED
      BY <2>2, <2>3, <2>4 DEF SlotState
<1>10. QED
  BY <1>1, <1>2, <1>3, <1>4, <1>5, <1>8, <1>9

\* A reminder is claimed on the row and changes nothing else of it.
LEMMA ClaimEffect ==
    ASSUME IInv, NEW t \in Ticks, ClaimReminder(t)
    PROVE  /\ slot' \in [Slots -> SlotState]
           /\ \A s \in Slots :
                /\ slot'[s].row = slot[s].row /\ slot'[s].candidate = slot[s].candidate
                /\ slot[s].reminded => slot'[s].reminded
           /\ \A r \in reminders' \ reminders :
                /\ r = <<r[1], r[2], t>> /\ <<r[1], r[2]>> \in tick[t].due
                /\ r[1] \in Slots /\ r[2] \in Candidates
                /\ Offered(r[1]) /\ ~ slot[r[1]].reminded /\ slot'[r[1]].reminded
           /\ reminders \subseteq reminders'
           /\ \A r, q \in reminders' \ reminders : r = q
           /\ tick' \in [Ticks -> [pc : {"idle", "sending", "done"}, due : SUBSET (Slots \X Candidates)]]
           /\ \A u \in Ticks : tick'[u].due \subseteq tick[u].due
<1>1. PICK d \in tick[t].due :
         /\ tick' = [tick EXCEPT ![t].due = @ \ {d}]
         /\ IF Offered(d[1]) /\ ~ slot[d[1]].reminded
            THEN /\ slot' = [slot EXCEPT ![d[1]].reminded = TRUE]
                 /\ reminders' = reminders \cup {<<d[1], d[2], t>>}
            ELSE UNCHANGED <<slot, reminders>>
  BY DEF ClaimReminder
<1>2. /\ tick \in [Ticks -> [pc : {"idle", "sending", "done"}, due : SUBSET (Slots \X Candidates)]]
      /\ slot \in [Slots -> SlotState]
  BY DEF IInv, TypeOK
<1>3. d \in Slots \X Candidates
  BY <1>2
<1>4. d[1] \in Slots /\ d[2] \in Candidates /\ d = <<d[1], d[2]>>
  BY <1>3
<1>5. /\ tick' \in [Ticks -> [pc : {"idle", "sending", "done"}, due : SUBSET (Slots \X Candidates)]]
      /\ \A u \in Ticks : tick'[u].due \subseteq tick[u].due
  BY <1>1, <1>2
<1>6. CASE Offered(d[1]) /\ ~ slot[d[1]].reminded
  <2>1. slot' = [slot EXCEPT ![d[1]].reminded = TRUE]
    BY <1>1, <1>6
  <2>2. slot' \in [Slots -> SlotState]
    BY <1>2, <1>4, <2>1 DEF SlotState
  <2>3. \A s \in Slots : /\ slot'[s].row = slot[s].row /\ slot'[s].candidate = slot[s].candidate
                         /\ slot[s].reminded => slot'[s].reminded
    BY <1>2, <1>4, <2>1 DEF SlotState
  <2>4. slot'[d[1]].reminded
    BY <1>2, <1>4, <2>1 DEF SlotState
  <2>5. reminders' = reminders \cup {<<d[1], d[2], t>>}
    BY <1>1, <1>6
  <2>6. \A r \in reminders' \ reminders : r = <<d[1], d[2], t>>
    BY <2>5
  <2>7. ASSUME NEW r \in reminders' \ reminders
        PROVE  /\ r = <<r[1], r[2], t>> /\ <<r[1], r[2]>> \in tick[t].due
               /\ r[1] \in Slots /\ r[2] \in Candidates
               /\ Offered(r[1]) /\ ~ slot[r[1]].reminded /\ slot'[r[1]].reminded
    <3>1. r[1] = d[1] /\ r[2] = d[2] /\ r = <<d[1], d[2], t>>
      BY <2>6
    <3>2. QED
      BY <1>4, <1>6, <2>4, <3>1
  <2>8. \A r, q \in reminders' \ reminders : r = q
    BY <2>6
  <2>9. reminders \subseteq reminders'
    BY <2>5
  <2>10. QED
    BY <1>5, <2>2, <2>3, <2>7, <2>8, <2>9
<1>7. CASE ~ (Offered(d[1]) /\ ~ slot[d[1]].reminded)
  BY <1>1, <1>2, <1>5, <1>7
<1>8. QED
  BY <1>6, <1>7

\* The times a batch inserts were not there, for anybody.
LEMMA OfferEffect ==
    ASSUME IInv, NEW b \in Batches, OfferSlots(b)
    PROVE  /\ \A s \in batch[b].fresh :
                /\ s \in Slots /\ BatchOf[s] = b /\ slot[s].row = "none" /\ slot[s].candidate = None
                /\ slot'[s].row = "offered" /\ slot'[s].candidate = None
           /\ \A s \in Slots \ batch[b].fresh : slot'[s] = slot[s]
<1>1. \A s \in batch[b].fresh : s \in Slots /\ BatchOf[s] = b
  BY DEF IInv, TypeOK, OffersHold
<1>2. \A s \in batch[b].fresh : slot[s].row = "none"
  BY <1>1 DEF OfferSlots, IInv, InsertsOnce
<1>3. \A s \in batch[b].fresh : slot[s].candidate = None
  BY <1>1, <1>2 DEF IInv, RowsSound, Offered
<1>4. QED
  BY <1>1, <1>2, <1>3 DEF OfferSlots, NewSlot

\* Only times nobody took are withdrawn.
LEMMA WithdrawEffect ==
    ASSUME IInv, (\E s \in Slots : DeleteSlot(s)) \/ (\E m \in Staff : ClearTimes(m))
    PROVE  \E gone \in SUBSET Slots :
             /\ \A s \in gone : /\ Free(s)
                                /\ slot'[s].row = "deleted" /\ slot'[s].candidate = None
             /\ \A s \in Slots \ gone : slot'[s] = slot[s]
<1>1. \E gone \in SUBSET Slots : (\A s \in gone : Free(s)) /\ Withdraw(gone)
  BY DEF DeleteSlot, ClearTimes
<1>2. QED
  BY <1>1 DEF Withdraw, NewSlot

(***************************************************************************)
(* What any step leaves of the rows                                        *)
(***************************************************************************)
\* A row that was inserted is not inserted again; a reminder sent stays recorded while the
\* slot is there.
RowsStay ==
    /\ \A d \in Candidates : candidate[d] # "none" => candidate'[d] # "none"
    /\ \A d \in Candidates : candidate[d] = "removed" => candidate'[d] = "removed"
    /\ \A s \in Slots : slot[s].row = "deleted" => slot'[s].row = "deleted"
    /\ \A s \in Slots : slot[s].row = "offered" => slot'[s].row \in {"offered", "deleted"}
    /\ \A s \in Slots : slot[s].row = "offered" /\ slot[s].reminded =>
         slot'[s].row = "deleted" \/ slot'[s].reminded

\* A candidate keeps the slot he holds until he is removed.
HeldStays == \A s \in Slots : slot[s].candidate # None =>
    \/ candidate'[slot[s].candidate] = "removed"
    \/ slot'[s].row = "offered" /\ slot'[s].candidate = slot[s].candidate

\* Nobody comes to hold a slot.
NothingTaken == \A s \in Slots : slot'[s].candidate # None => slot'[s].candidate = slot[s].candidate

\* True of every step.
LEMMA RowsStayStep == IInv /\ [Next]_vars => RowsStay
<1> SUFFICES ASSUME IInv, [Next]_vars PROVE RowsStay
  OBVIOUS
<1>1. ASSUME NEW c \in Candidates, AddCandidate(c)
      PROVE  RowsStay
  BY <1>1 DEF AddCandidate, IInv, TypeOK, InsertsOnce, RowsStay
<1>2. ASSUME NEW c \in Candidates, RemoveCandidate(c)
      PROVE  RowsStay
  <2>1. \A s \in Slots : slot'[s].row = slot[s].row /\ slot'[s].reminded = slot[s].reminded
    BY <1>2 DEF RemoveCandidate, IInv, TypeOK, SlotState
  <2>2. QED
    BY <1>2, <2>1 DEF RemoveCandidate, IInv, TypeOK, InList, RowsStay
<1>3. ASSUME NEW p, BindRows(p)
      PROVE  RowsStay
  BY <1>3 DEF BindRows, RowsOf, InList, IInv, TypeOK, RowsStay
<1>4. ASSUME NEW b \in Batches, OfferSlots(b)
      PROVE  RowsStay
  BY <1>4, OfferEffect DEF OfferSlots, RowsStay
<1>5. CASE (\E s \in Slots : DeleteSlot(s)) \/ (\E m \in Staff : ClearTimes(m))
  <2>1. PICK gone \in SUBSET Slots :
          /\ \A s \in gone : Free(s) /\ slot'[s].row = "deleted" /\ slot'[s].candidate = None
          /\ \A s \in Slots \ gone : slot'[s] = slot[s]
    BY <1>5, WithdrawEffect
  <2>2. candidate' = candidate
    BY <1>5 DEF DeleteSlot, ClearTimes
  <2>3. QED
    BY <2>1, <2>2 DEF RowsStay
<1>6. ASSUME NEW b \in Bookings, Book(b)
      PROVE  RowsStay
  <2>1. CASE Commits(b)
    BY <1>6, <2>1, BookEffect DEF Book, othersThanBooking, RowsStay
  <2>2. CASE ~ Commits(b)
    BY <1>6, <2>2 DEF Book, othersThanBooking, RowsStay
  <2>3. QED
    BY <2>1, <2>2
<1>7. ASSUME NEW t \in Ticks, ClaimReminder(t)
      PROVE  RowsStay
  BY <1>7, ClaimEffect DEF ClaimReminder, RowsStay
<1>8. CASE UNCHANGED <<candidate, slot>>
  BY <1>8 DEF RowsStay
<1>9. QED
  BY <1>1, <1>2, <1>3, <1>4, <1>5, <1>6, <1>7, <1>8
     DEF Next, vars, rowVars, CheckCandidate, PlanSlots, AddRecruiter, RemoveRecruiter, ReadCandidacy,
         ReadTarget, CheckBooking, ReadDue, StopReminding, Pass, othersThanBooking

\* Only a booking that commits changes who holds what.
LEMMA HeldStaysStep ==
    IInv /\ [Next]_vars =>
      (HeldStays /\ NothingTaken) \/ (\E b \in Bookings : Book(b) /\ Commits(b))
<1> SUFFICES ASSUME IInv, [Next]_vars, \A b \in Bookings : ~ (Book(b) /\ Commits(b))
             PROVE  HeldStays /\ NothingTaken
  OBVIOUS
<1>a. \A s \in Slots : slot[s].candidate # None =>
        slot[s].row = "offered" /\ slot[s].candidate \in Candidates
  BY DEF IInv, TypeOK, SlotState, RowsSound, Offered
<1>1. ASSUME NEW c \in Candidates, AddCandidate(c)
      PROVE  HeldStays /\ NothingTaken
  BY <1>a, <1>1 DEF AddCandidate, HeldStays, NothingTaken
<1>2. ASSUME NEW c \in Candidates, RemoveCandidate(c)
      PROVE  HeldStays /\ NothingTaken
  <2>1. candidate'[c] = "removed"
    BY <1>2 DEF RemoveCandidate, IInv, TypeOK
  <2>2. \A s \in Slots : /\ slot'[s].row = slot[s].row
                         /\ slot'[s].candidate = IF slot[s].candidate = c THEN None
                                                 ELSE slot[s].candidate
    BY <1>2 DEF RemoveCandidate, IInv, TypeOK, SlotState
  <2>3. QED
    BY <1>a, <2>1, <2>2 DEF HeldStays, NothingTaken
<1>3. ASSUME NEW p, BindRows(p)
      PROVE  HeldStays /\ NothingTaken
  BY <1>a, <1>3 DEF BindRows, HeldStays, NothingTaken
<1>4. ASSUME NEW b \in Batches, OfferSlots(b)
      PROVE  HeldStays /\ NothingTaken
  BY <1>a, <1>4, OfferEffect DEF HeldStays, NothingTaken
<1>5. CASE (\E s \in Slots : DeleteSlot(s)) \/ (\E m \in Staff : ClearTimes(m))
  BY <1>a, <1>5, WithdrawEffect DEF Free, HeldStays, NothingTaken
<1>6. ASSUME NEW b \in Bookings, Book(b)
      PROVE  HeldStays /\ NothingTaken
  BY <1>a, <1>6 DEF Book, HeldStays, NothingTaken
<1>7. ASSUME NEW t \in Ticks, ClaimReminder(t)
      PROVE  HeldStays /\ NothingTaken
  BY <1>a, <1>7, ClaimEffect DEF HeldStays, NothingTaken
<1>8. CASE UNCHANGED <<candidate, slot>>
  BY <1>a, <1>8 DEF HeldStays, NothingTaken
<1>9. QED
  BY <1>1, <1>2, <1>3, <1>4, <1>5, <1>6, <1>7, <1>8
     DEF Next, vars, rowVars, CheckCandidate, PlanSlots, AddRecruiter, RemoveRecruiter, ReadCandidacy,
         ReadTarget, CheckBooking, ReadDue, StopReminding, Pass, othersThanBooking

\* Nobody leaves a slot whose reminder is due, or was sent.
LEMMA ComingStays ==
    ASSUME IInv, [Next]_vars, NEW s \in Slots, NEW c \in Candidates,
           StartOf[s] <= now + ReminderBefore, StillComing(s, c)
    PROVE  StillComing(s, c)'
<1>1. candidate[c] = "removed" => candidate'[c] = "removed"
  BY RowsStayStep DEF RowsStay
<1>2. CASE HeldStays
  BY <1>1, <1>2, InterviewConstants DEF HeldStays, StillComing
<1>3. ASSUME NEW b \in Bookings, Book(b), Commits(b)
      PROVE  StillComing(s, c)'
  <2>1. s \notin booking[b].previous /\ s # TargetOf[b]
    <3>1. now \in Nat /\ StartOf[s] \in Nat
      BY InterviewConstants DEF IInv, TypeOK
    <3>2. \A u \in booking[b].previous \cup {TargetOf[b]} : StartOf[u] > now + ReminderBefore
      BY <1>3, BookEffect
    <3>3. QED
      BY <3>1, <3>2, InterviewConstants
  <2>2. slot'[s].candidate = slot[s].candidate
    BY <1>3, <2>1, BookEffect
  <2>3. QED
    BY <1>1, <2>2 DEF StillComing
<1>4. QED
  BY <1>2, <1>3, HeldStaysStep

(***************************************************************************)
(* The conjuncts of IInv, one by one                                       *)
(***************************************************************************)
\* Every step keeps the types.
LEMMA TypeStep == IInv /\ [Next]_vars => TypeOK'
<1> SUFFICES ASSUME IInv, [Next]_vars PROVE TypeOK'
  OBVIOUS
<1>1. ASSUME NEW c \in Candidates, CheckCandidate(c)
      PROVE  TypeOK'
  BY <1>1, InterviewConstants DEF CheckCandidate, RowsOf, rowVars, teamVars, history, InList,
     IInv, TypeOK, SlotState, Staff, BookingState
<1>2. ASSUME NEW c \in Candidates, AddCandidate(c)
      PROVE  TypeOK'
  BY <1>2, InterviewConstants DEF AddCandidate, RowsOf, teamVars, InList, IInv, TypeOK,
     SlotState, Staff, BookingState
<1>3. ASSUME NEW c \in Candidates, RemoveCandidate(c)
      PROVE  TypeOK'
  <2>1. slot' \in [Slots -> SlotState]
    BY <1>3 DEF RemoveCandidate, IInv, TypeOK, SlotState
  <2>2. candidate' \in [Candidates -> {"none", "tagged", "bound", "removed"}]
    BY <1>3 DEF RemoveCandidate, IInv, TypeOK
  <2>3. QED
    BY <1>3, <2>1, <2>2 DEF RemoveCandidate, teamVars, callVars, history, IInv, TypeOK
<1>4. ASSUME NEW p, BindRows(p)
      PROVE  TypeOK'
  BY <1>4, InterviewConstants DEF BindRows, RowsOf, teamVars, callVars, history, InList, IInv,
     TypeOK, SlotState, Staff, BookingState
<1>5. ASSUME NEW b \in Batches, PlanSlots(b)
      PROVE  TypeOK'
  BY <1>5, InterviewConstants DEF PlanSlots, Offered, Host, Overlap, rowVars, teamVars, history,
     IInv, TypeOK, SlotState, Staff, BookingState
<1>6. ASSUME NEW b \in Batches, OfferSlots(b)
      PROVE  TypeOK'
  BY <1>6, InterviewConstants DEF OfferSlots, NewSlot, teamVars, IInv, TypeOK, SlotState, Staff,
     BookingState
<1>7. ASSUME NEW s \in Slots, DeleteSlot(s)
      PROVE  TypeOK'
  BY <1>7, InterviewConstants DEF DeleteSlot, Free, Withdraw, teamVars, callVars, history,
     Offered, NewSlot, IInv, TypeOK, SlotState, Staff, BookingState
<1>8. ASSUME NEW m \in Staff, AddRecruiter(m)
      PROVE  TypeOK'
  BY <1>8, InterviewConstants DEF AddRecruiter, rowVars, callVars, history, IInv, TypeOK,
     SlotState, Staff, BookingState
<1>9. ASSUME NEW m \in Staff, RemoveRecruiter(m)
      PROVE  TypeOK'
  BY <1>9, InterviewConstants DEF RemoveRecruiter, rowVars, callVars, history, IInv, TypeOK,
     SlotState, Staff, BookingState
<1>10. ASSUME NEW m \in Staff, ClearTimes(m)
      PROVE  TypeOK'
  BY <1>10, InterviewConstants DEF ClearTimes, Withdraw, Free, Host, Department, callVars,
     history, NewSlot, Offered, IInv, TypeOK, SlotState, Staff, BookingState
<1>11. ASSUME NEW b \in Bookings, ReadCandidacy(b)
      PROVE  TypeOK'
  BY <1>11, InterviewConstants DEF ReadCandidacy, HeldBy, othersThanBooking, Offered, teamVars,
     IInv, TypeOK, SlotState, Staff, BookingState
<1>12. ASSUME NEW b \in Bookings, ReadTarget(b)
      PROVE  TypeOK'
  <2>1. Answered(b) \in [Bookings -> BookingState]
    BY InterviewConstants DEF Answered, IInv, TypeOK, BookingState
  <2>2. [booking EXCEPT ![b].pc = "target"] \in [Bookings -> BookingState]
    BY DEF IInv, TypeOK, BookingState
  <2>3. booking' \in [Bookings -> BookingState]
    BY <1>12, <2>1, <2>2 DEF ReadTarget
  <2>4. QED
    BY <1>12, <2>3 DEF ReadTarget, othersThanBooking, teamVars, IInv, TypeOK
<1>13. ASSUME NEW b \in Bookings, CheckBooking(b)
      PROVE  TypeOK'
  <2>1. Answered(b) \in [Bookings -> BookingState]
    BY InterviewConstants DEF Answered, IInv, TypeOK, BookingState
  <2>2. [booking EXCEPT ![b].pc = "checked"] \in [Bookings -> BookingState]
    BY DEF IInv, TypeOK, BookingState
  <2>3. booking' \in [Bookings -> BookingState]
    BY <1>13, <2>1, <2>2 DEF CheckBooking
  <2>4. QED
    BY <1>13, <2>3 DEF CheckBooking, othersThanBooking, teamVars, IInv, TypeOK
<1>14. ASSUME NEW b \in Bookings, Book(b)
      PROVE  TypeOK'
  <2>1. booking' \in [Bookings -> BookingState]
    BY <1>14, InterviewConstants DEF Book, Answered, IInv, TypeOK, BookingState
  <2>2. slot' \in [Slots -> SlotState]
    <3>1. CASE Commits(b)
      BY <1>14, <3>1, BookEffect
    <3>2. CASE ~ Commits(b)
      BY <1>14, <3>2 DEF Book, IInv, TypeOK
    <3>3. QED
      BY <3>1, <3>2
  <2>3. QED
    BY <1>14, <2>1, <2>2 DEF Book, othersThanBooking, teamVars, IInv, TypeOK
<1>15. ASSUME NEW t \in Ticks, ReadDue(t)
      PROVE  TypeOK'
  BY <1>15, InterviewConstants DEF ReadDue, Offered, Free, rowVars, teamVars, history, IInv,
     TypeOK, SlotState, Staff, BookingState
<1>16. ASSUME NEW t \in Ticks, ClaimReminder(t)
      PROVE  TypeOK'
  <2>1. slot' \in [Slots -> SlotState]
    BY <1>16, ClaimEffect
  <2>2. tick' \in [Ticks -> [pc : {"idle", "sending", "done"}, due : SUBSET (Slots \X Candidates)]]
    BY <1>16, ClaimEffect
  <2>3. ASSUME NEW r \in reminders'
        PROVE  r \in Slots \X Candidates \X Ticks
    <3>1. CASE r \in reminders
      BY <3>1 DEF IInv, TypeOK
    <3>2. CASE r \notin reminders
      <4>1. r = <<r[1], r[2], t>> /\ r[1] \in Slots /\ r[2] \in Candidates
        BY <1>16, <3>2, ClaimEffect
      <4>2. <<r[1], r[2], t>> \in Slots \X Candidates \X Ticks
        BY <4>1
      <4>3. QED
        BY <4>1, <4>2
    <3>3. QED
      BY <3>1, <3>2
  <2>4. QED
    BY <1>16, <2>1, <2>2, <2>3 DEF ClaimReminder, teamVars, IInv, TypeOK
<1>17. ASSUME NEW t \in Ticks, StopReminding(t)
      PROVE  TypeOK'
  BY <1>17, InterviewConstants DEF StopReminding, rowVars, teamVars, history, IInv, TypeOK,
     SlotState, Staff, BookingState
<1>18. CASE Pass
  BY <1>18, InterviewConstants DEF Pass, rowVars, teamVars, callVars, history, IInv, TypeOK,
     SlotState, Staff, BookingState
<1>19. CASE UNCHANGED <<candidate, slot, team, leaving, adding, batch, booking, tick, reminders, raced, now>>
  BY <1>19 DEF IInv, TypeOK, SlotState, Staff, BookingState
<1>20. QED
  BY <1>1, <1>2, <1>3, <1>4, <1>5, <1>6, <1>7, <1>8, <1>9, <1>10, <1>11, <1>12, <1>13, <1>14, <1>15, <1>16, <1>17, <1>18, <1>19 DEF Next,
     Staff, vars, rowVars, teamVars, callVars, history

\* The index and the foreign keys hold after every step.
LEMMA RowsStep == IInv /\ [Next]_vars => RowsSound'
<1> SUFFICES ASSUME IInv, [Next]_vars PROVE RowsSound'
  OBVIOUS
<1>1. ASSUME NEW c \in Candidates, AddCandidate(c)
      PROVE  RowsSound'
  BY <1>1, InterviewConstants DEF AddCandidate, RowsOf, teamVars, InList, IInv, TypeOK,
     InsertsOnce, BookingsSound, RowsSound, SlotState, Staff, BookingState, InFlight, HeldBy,
     Department, Offered
<1>2. ASSUME NEW c \in Candidates, RemoveCandidate(c)
      PROVE  RowsSound'
  BY <1>2, InterviewConstants DEF RemoveCandidate, InList, teamVars, callVars, history, IInv,
     TypeOK, InsertsOnce, BookingsSound, RowsSound, SlotState, Staff, BookingState, InFlight,
     HeldBy, Department, Offered
<1>3. ASSUME NEW p, BindRows(p)
      PROVE  RowsSound'
  BY <1>3, InterviewConstants DEF BindRows, RowsOf, teamVars, callVars, history, InList, IInv,
     TypeOK, InsertsOnce, BookingsSound, RowsSound, SlotState, Staff, BookingState, InFlight,
     HeldBy, Department, Offered
<1>4. ASSUME NEW b \in Batches, OfferSlots(b)
      PROVE  RowsSound'
  BY <1>4, InterviewConstants DEF OfferSlots, NewSlot, teamVars, IInv, TypeOK, InsertsOnce,
     BookingsSound, RowsSound, SlotState, Staff, BookingState, InFlight, InList, HeldBy,
     Department, Offered
<1>5. ASSUME NEW s \in Slots, DeleteSlot(s)
      PROVE  RowsSound'
  BY <1>5, InterviewConstants DEF DeleteSlot, Free, Withdraw, teamVars, callVars, history,
     Offered, NewSlot, IInv, TypeOK, InsertsOnce, BookingsSound, RowsSound, SlotState, Staff,
     BookingState, InFlight, InList, HeldBy, Department
<1>6. ASSUME NEW m \in Staff, ClearTimes(m)
      PROVE  RowsSound'
  BY <1>6, InterviewConstants DEF ClearTimes, Withdraw, Free, Host, Department, callVars,
     history, NewSlot, Offered, IInv, TypeOK, InsertsOnce, BookingsSound, RowsSound, SlotState,
     Staff, BookingState, InFlight, InList, HeldBy
<1>7. ASSUME NEW b \in Bookings, Book(b)
      PROVE  RowsSound'
  <2>1. CASE Commits(b)
    <3>1. \A s \in Slots : Offered(s)' <=> Offered(s)
      BY <1>7, <2>1, BookEffect DEF Offered
    <3>2. candidate' = candidate
      BY <1>7 DEF Book, othersThanBooking
    <3>3. ASSUME NEW s \in Slots, slot'[s].candidate = ForOf[b]
          PROVE  s = TargetOf[b]
      BY <1>7, <2>1, <3>3, BookEffect, InterviewConstants DEF HeldBy, IInv, RowsSound
    <3>4. ASSUME NEW s \in Slots, NEW t \in Slots, slot'[s].candidate = slot'[t].candidate,
                 slot'[s].candidate # None
          PROVE  s = t
      BY <1>7, <2>1, <3>3, <3>4, BookEffect DEF IInv, RowsSound
    <3>5. ASSUME NEW s \in Slots, slot'[s].candidate # None
          PROVE  /\ slot'[s].row = "offered" /\ InList(slot'[s].candidate)
                 /\ Department(s) = DepartmentOf[slot'[s].candidate]
      <4>1. CASE s = TargetOf[b]
        BY <1>7, <2>1, <4>1, BookEffect DEF Offered
      <4>2. CASE s # TargetOf[b]
        <5>1. slot'[s].candidate = slot[s].candidate /\ slot'[s].row = slot[s].row
          BY <1>7, <2>1, <3>5, <4>2, BookEffect
        <5>2. Offered(s) /\ InList(slot[s].candidate) /\ Department(s) = DepartmentOf[slot[s].candidate]
          BY <3>5, <5>1 DEF IInv, RowsSound
        <5>3. QED
          BY <5>1, <5>2 DEF Offered
      <4>3. QED
        BY <4>1, <4>2
    <3>6. QED
      BY <3>2, <3>4, <3>5 DEF RowsSound, Department, InList, Offered
  <2>2. CASE ~ Commits(b)
    BY <1>7, <2>2 DEF Book, othersThanBooking, IInv, RowsSound, Offered, InList, Department
  <2>3. QED
    BY <2>1, <2>2
<1>8. ASSUME NEW t \in Ticks, ClaimReminder(t)
      PROVE  RowsSound'
  <2>1. candidate' = candidate
    BY <1>8 DEF ClaimReminder
  <2>2. \A s \in Slots : slot'[s].row = slot[s].row /\ slot'[s].candidate = slot[s].candidate
    BY <1>8, ClaimEffect
  <2>3. QED
    BY <2>1, <2>2 DEF IInv, RowsSound, Offered, InList, Department
<1>9. CASE UNCHANGED <<candidate, slot>>
  BY <1>9 DEF IInv, RowsSound, Offered, InList, Department
<1>10. QED
  BY <1>1, <1>2, <1>3, <1>4, <1>5, <1>6, <1>7, <1>8, <1>9 DEF Next, Staff, CheckCandidate,
     PlanSlots, AddRecruiter, RemoveRecruiter, ReadCandidacy, ReadTarget, CheckBooking, ReadDue,
     StopReminding, Pass, rowVars, teamVars, history, callVars, othersThanBooking, vars

\* Rows appear by their own insert.
LEMMA InsertsStep == IInv /\ [Next]_vars => InsertsOnce'
<1> SUFFICES ASSUME IInv, [Next]_vars PROVE InsertsOnce'
  OBVIOUS
<1>1. ASSUME NEW c \in Candidates, CheckCandidate(c)
      PROVE  InsertsOnce'
  BY <1>1, InterviewConstants DEF CheckCandidate, RowsOf, rowVars, teamVars, history, InList,
     IInv, TypeOK, RowsSound, InsertsOnce, SlotState, Staff, BookingState, Offered, Department
<1>2. ASSUME NEW c \in Candidates, AddCandidate(c)
      PROVE  InsertsOnce'
  BY <1>2, InterviewConstants DEF AddCandidate, RowsOf, teamVars, InList, IInv, TypeOK,
     RowsSound, InsertsOnce, SlotState, Staff, BookingState, Offered, Department
<1>3. ASSUME NEW c \in Candidates, RemoveCandidate(c)
      PROVE  InsertsOnce'
  BY <1>3, InterviewConstants DEF RemoveCandidate, InList, teamVars, callVars, history, IInv,
     TypeOK, RowsSound, InsertsOnce, SlotState, Staff, BookingState, Offered, Department
<1>4. ASSUME NEW p, BindRows(p)
      PROVE  InsertsOnce'
  BY <1>4, InterviewConstants DEF BindRows, RowsOf, teamVars, callVars, history, InList, IInv,
     TypeOK, RowsSound, InsertsOnce, SlotState, Staff, BookingState, Offered, Department
<1>5. ASSUME NEW b \in Batches, PlanSlots(b)
      PROVE  InsertsOnce'
  BY <1>5, InterviewConstants DEF PlanSlots, Offered, Host, Overlap, rowVars, teamVars, history,
     IInv, TypeOK, RowsSound, InsertsOnce, SlotState, Staff, BookingState, InList, Department
<1>6. ASSUME NEW b \in Batches, OfferSlots(b)
      PROVE  InsertsOnce'
  <2>1. \A s \in Slots : batch'[BatchOf[s]].pc # "done" =>
          slot'[s] = slot[s] /\ batch'[BatchOf[s]].pc = batch[BatchOf[s]].pc
    <3>1. ASSUME NEW s \in Slots, batch'[BatchOf[s]].pc # "done"
          PROVE  BatchOf[s] # b /\ batch'[BatchOf[s]].pc = batch[BatchOf[s]].pc
      BY <1>6, <3>1, InterviewConstants DEF OfferSlots, IInv, TypeOK
    <3>2. QED
      BY <1>6, <3>1, OfferEffect
  <2>2. QED
    BY <1>6, <2>1 DEF OfferSlots, teamVars, IInv, InsertsOnce
<1>7. ASSUME NEW s \in Slots, DeleteSlot(s)
      PROVE  InsertsOnce'
  BY <1>7, InterviewConstants DEF DeleteSlot, Free, Withdraw, teamVars, callVars, history,
     Offered, NewSlot, IInv, TypeOK, RowsSound, InsertsOnce, SlotState, Staff, BookingState,
     InList, Department
<1>8. ASSUME NEW m \in Staff, ClearTimes(m)
      PROVE  InsertsOnce'
  BY <1>8, InterviewConstants DEF ClearTimes, Withdraw, Free, Host, Department, callVars,
     history, NewSlot, Offered, IInv, TypeOK, RowsSound, InsertsOnce, SlotState, Staff,
     BookingState, InList
<1>9. ASSUME NEW b \in Bookings, Book(b)
      PROVE  InsertsOnce'
  BY <1>9, InterviewConstants DEF Book, Answered, Commits, Rebooked, othersThanBooking, Offered,
     Free, InList, HeldBy, teamVars, IInv, TypeOK, RowsSound, InsertsOnce, SlotState, Staff,
     BookingState, Department
<1>10. ASSUME NEW t \in Ticks, ClaimReminder(t)
      PROVE  InsertsOnce'
  BY <1>10, ClaimEffect DEF ClaimReminder, IInv, InsertsOnce
<1>11. CASE UNCHANGED <<candidate, slot, adding, batch>>
  BY <1>11 DEF IInv, InsertsOnce
<1>12. QED
  BY <1>1, <1>2, <1>3, <1>4, <1>5, <1>6, <1>7, <1>8, <1>9, <1>10, <1>11 DEF Next, Staff,
     AddRecruiter, RemoveRecruiter, ReadCandidacy, ReadTarget, CheckBooking, ReadDue,
     StopReminding, Pass, rowVars, callVars, history, othersThanBooking, teamVars, vars

\* What a booking relies on stays.
LEMMA BookingsStep == IInv /\ [Next]_vars => BookingsSound'
<1> SUFFICES ASSUME IInv, [Next]_vars PROVE BookingsSound'
  OBVIOUS
<1>t. /\ booking \in [Bookings -> BookingState] /\ now \in Nat
      /\ \A b \in Bookings : ForOf[b] \in Candidates /\ TargetOf[b] \in Slots
      /\ None \notin Candidates
      /\ \A b \in Bookings : booking[b].since \in Nat
  BY InterviewConstants DEF IInv, TypeOK, BookingState
<1>r. RowsStay
  BY RowsStayStep
<1>k. ASSUME NEW b \in Bookings, candidate[ForOf[b]] # "none", InList(ForOf[b])'
      PROVE  InList(ForOf[b])
  BY <1>k, <1>r, <1>t DEF RowsStay, InList, IInv, TypeOK
<1>h. ASSUME NEW b \in Bookings, InFlight(b), HeldBy(ForOf[b]) # {}, InList(ForOf[b])'
      PROVE  HeldBy(ForOf[b])' # {}
  <2>1. PICK s \in Slots : Offered(s) /\ slot[s].candidate = ForOf[b]
    BY <1>h DEF HeldBy
  <2>2. CASE HeldStays
    BY <1>h, <1>t, <2>1, <2>2 DEF HeldStays, HeldBy, Offered, InList
  <2>3. ASSUME NEW o \in Bookings, Book(o), Commits(o)
        PROVE  HeldBy(ForOf[b])' # {}
    <3>1. CASE ForOf[o] = ForOf[b]
      BY <2>3, <3>1, BookEffect DEF HeldBy, Offered
    <3>2. CASE ForOf[o] # ForOf[b]
      <4>1. s # TargetOf[o] /\ s \notin booking[o].previous
        BY <1>t, <2>1, <2>3, <3>2, BookEffect
      <4>2. slot'[s].row = slot[s].row /\ slot'[s].candidate = slot[s].candidate
        BY <2>3, <4>1, BookEffect
      <4>3. QED
        BY <2>1, <4>2 DEF HeldBy, Offered
    <3>3. QED
      BY <3>1, <3>2
  <2>4. QED
    BY <2>2, <2>3, HeldStaysStep
\* A booking the step leaves as it is.
<1>o. ASSUME NEW b \in Bookings, booking'[b] = booking[b], InFlight(b), now' = now
      PROVE  /\ now' <= booking'[b].since + MaxHandler /\ booking'[b].since <= now'
             /\ candidate'[ForOf[b]] # "none"
             /\ \A s, t \in booking'[b].previous : s = t
             /\ booking'[b].previous # {} /\ InList(ForOf[b])' => HeldBy(ForOf[b])' # {}
             /\ booking'[b].pc # "found" => Department(TargetOf[b]) = DepartmentOf[ForOf[b]]
             /\ booking'[b].pc = "checked" =>
                  \A s \in booking'[b].previous \cup {TargetOf[b]} : StartOf[s] > booking'[b].since + Lead
  <2>1. /\ now <= booking[b].since + MaxHandler /\ booking[b].since <= now
        /\ candidate[ForOf[b]] # "none"
        /\ \A s, t \in booking[b].previous : s = t
        /\ booking[b].previous # {} /\ InList(ForOf[b]) => HeldBy(ForOf[b]) # {}
        /\ booking[b].pc # "found" => Department(TargetOf[b]) = DepartmentOf[ForOf[b]]
        /\ booking[b].pc = "checked" =>
             \A s \in booking[b].previous \cup {TargetOf[b]} : StartOf[s] > booking[b].since + Lead
    BY <1>o DEF IInv, BookingsSound
  <2>2. candidate'[ForOf[b]] # "none"
    BY <1>r, <1>t, <2>1 DEF RowsStay
  <2>3. booking'[b].previous # {} /\ InList(ForOf[b])' => HeldBy(ForOf[b])' # {}
    BY <1>h, <1>k, <1>o, <2>1
  <2>4. QED
    BY <1>o, <2>1, <2>2, <2>3
<1>1. CASE UNCHANGED <<booking, now>>
  BY <1>o, <1>1 DEF BookingsSound, InFlight, Department
<1>2. ASSUME NEW b \in Bookings, ReadCandidacy(b)
      PROVE  BookingsSound'
  <2>1. /\ booking' = [booking EXCEPT ![b] = [pc |-> "found", previous |-> HeldBy(ForOf[b]), since |-> now]]
        /\ now' = now /\ slot' = slot /\ candidate' = candidate /\ candidate[ForOf[b]] = "bound"
    BY <1>2 DEF ReadCandidacy, othersThanBooking
  <2>2. \A o \in Bookings \ {b} : booking'[o] = booking[o]
    BY <1>t, <2>1
  <2>3. /\ booking'[b].pc = "found" /\ booking'[b].previous = HeldBy(ForOf[b])
        /\ booking'[b].since = now
    BY <1>t, <2>1
  <2>4. \A s, t \in HeldBy(ForOf[b]) : s = t
    BY <1>t DEF HeldBy, IInv, RowsSound
  <2>5. HeldBy(ForOf[b])' = HeldBy(ForOf[b])
    BY <2>1 DEF HeldBy, Offered
  <2>6. now <= now + MaxHandler /\ now <= now
    BY <1>t, InterviewConstants
  <2>7. QED
    BY <1>o, <2>1, <2>2, <2>3, <2>4, <2>5, <2>6 DEF BookingsSound, InFlight, Department
<1>3. ASSUME NEW b \in Bookings, ReadTarget(b) \/ CheckBooking(b) \/ Book(b)
      PROVE  BookingsSound'
  <2>1. now' = now /\ booking[b].pc \in {"found", "target", "checked"}
    BY <1>3 DEF ReadTarget, CheckBooking, Book, othersThanBooking
  <2>2. \A o \in Bookings \ {b} : booking'[o] = booking[o]
    BY <1>3, <1>t DEF ReadTarget, CheckBooking, Book, Answered
  <2>3. CASE booking'[b].pc = "done"
    BY <1>o, <2>1, <2>2, <2>3 DEF BookingsSound, InFlight, Department
  <2>4. CASE booking'[b].pc # "done"
    <3>1. booking' = [booking EXCEPT ![b].pc = "target"] \/ booking' = [booking EXCEPT ![b].pc = "checked"]
      BY <1>3, <1>t, <2>4 DEF ReadTarget, CheckBooking, Book, Answered
    <3>2. booking'[b].previous = booking[b].previous /\ booking'[b].since = booking[b].since
      BY <1>t, <3>1 DEF BookingState
    <3>3. booking'[b].pc \in {"target", "checked"}
      BY <1>t, <3>1 DEF BookingState
    <3>4. Department(TargetOf[b]) = DepartmentOf[ForOf[b]]
      <4>1. CASE ReadTarget(b)
        BY <1>t, <2>4, <4>1 DEF ReadTarget, Answered
      <4>2. CASE booking[b].pc # "found"
        BY <2>1, <4>2 DEF IInv, BookingsSound, InFlight
      <4>3. QED
        BY <1>3, <4>1, <4>2 DEF CheckBooking, Book
    <3>5. /\ now <= booking[b].since + MaxHandler /\ booking[b].since <= now
          /\ candidate[ForOf[b]] # "none"
          /\ \A s, t \in booking[b].previous : s = t
          /\ booking[b].previous # {} /\ InList(ForOf[b]) => HeldBy(ForOf[b]) # {}
      BY <2>1 DEF IInv, BookingsSound, InFlight
    <3>6. /\ candidate'[ForOf[b]] # "none"
          /\ booking[b].previous # {} /\ InList(ForOf[b])' => HeldBy(ForOf[b])' # {}
      BY <1>h, <1>k, <1>r, <1>t, <2>1, <3>5 DEF RowsStay, InFlight
    <3>7. ASSUME booking'[b].pc = "checked", NEW s \in booking[b].previous \cup {TargetOf[b]}
          PROVE  StartOf[s] > booking[b].since + Lead
      <4>1. CheckBooking(b)
        BY <1>3, <1>t, <2>4, <3>7 DEF ReadTarget, Book, Answered, BookingState
      <4>2. ~ BookingProblem(TargetOf[b], booking[b].previous, BookedElsewhere(ForOf[b]))
        BY <1>t, <2>4, <4>1 DEF CheckBooking, Answered
      <4>3. s \in Slots
        BY <1>t, <3>7 DEF BookingState
      <4>4. StartOf[s] > now + Lead
        BY <1>t, <4>2, <4>3, <3>7, InterviewConstants DEF BookingProblem
      <4>5. QED
        BY <1>t, <3>5, <4>3, <4>4, InterviewConstants
    <3>8. ASSUME NEW o \in Bookings, InFlight(o)'
          PROVE  /\ now' <= booking'[o].since + MaxHandler /\ booking'[o].since <= now'
                 /\ candidate'[ForOf[o]] # "none"
                 /\ \A s, t \in booking'[o].previous : s = t
                 /\ booking'[o].previous # {} /\ InList(ForOf[o])' => HeldBy(ForOf[o])' # {}
                 /\ booking'[o].pc # "found" => Department(TargetOf[o]) = DepartmentOf[ForOf[o]]
                 /\ booking'[o].pc = "checked" =>
                      \A s \in booking'[o].previous \cup {TargetOf[o]} : StartOf[s] > booking'[o].since + Lead
      <4>1. CASE o = b
        BY <2>1, <3>2, <3>4, <3>5, <3>6, <3>7, <4>1
      <4>2. CASE o # b
        BY <1>o, <2>1, <2>2, <3>8, <4>2 DEF InFlight
      <4>3. QED
        BY <4>1, <4>2
    <3>9. QED
      BY <3>8 DEF BookingsSound, Department
  <2>5. QED
    BY <2>3, <2>4
<1>4. CASE Pass
  <2>1. now' = now + 1 /\ UNCHANGED <<candidate, slot, booking>>
    BY <1>4 DEF Pass, rowVars, callVars
  <2>2. \A b \in Bookings : InFlight(b) => now < booking[b].since + MaxHandler
    BY <1>4 DEF Pass, InFlight
  <2>3. \A b \in Bookings : InFlight(b) =>
          now' <= booking[b].since + MaxHandler /\ booking[b].since <= now'
    BY <1>t, <2>1, <2>2, InterviewConstants DEF IInv, BookingsSound
  <2>4. QED
    BY <2>1, <2>3 DEF IInv, BookingsSound, InFlight, InList, HeldBy, Offered, Department
<1>5. QED
  BY <1>1, <1>2, <1>3, <1>4
     DEF Next, vars, rowVars, teamVars, callVars, history, CheckCandidate, AddCandidate, BindRows,
         RemoveCandidate, PlanSlots, OfferSlots, DeleteSlot, AddRecruiter, RemoveRecruiter, ClearTimes,
         ReadDue, ClaimReminder, StopReminding

\* The clock never goes back.
LEMMA TimePasses ==
    ASSUME now \in Nat, [Next]_vars
    PROVE  now' \in Nat /\ now' >= now
<1>1. now' = now \/ now' = now + 1
  BY DEF Next, vars, rowVars, teamVars, callVars, history, CheckCandidate, AddCandidate, BindRows,
         RemoveCandidate, PlanSlots, OfferSlots, DeleteSlot, AddRecruiter, RemoveRecruiter, ClearTimes,
         ReadCandidacy, ReadTarget, CheckBooking, Book, othersThanBooking,
         ReadDue, ClaimReminder, StopReminding, Pass
<1>2. QED
  BY <1>1

\* The reminders due name who comes.
LEMMA DueStep == IInv /\ [Next]_vars => DueSound'
<1> SUFFICES ASSUME IInv, [Next]_vars, NEW t \in Ticks, NEW d \in tick'[t].due
             PROVE  /\ StartOf[d[1]] <= now' + ReminderBefore
                    /\ StillComing(d[1], d[2])'
  BY DEF DueSound, StillComing
<1>t. /\ now \in Nat /\ tick \in [Ticks -> [pc : {"idle", "sending", "done"}, due : SUBSET (Slots \X Candidates)]]
      /\ slot \in [Slots -> SlotState]
  BY DEF IInv, TypeOK
<1>n. now' \in Nat /\ now' >= now
  BY <1>t, TimePasses
<1>1. CASE d \in tick[t].due
  <2>1. d[1] \in Slots /\ d[2] \in Candidates
    BY <1>t, <1>1
  <2>2. StartOf[d[1]] <= now + ReminderBefore /\ StillComing(d[1], d[2])
    BY <1>1 DEF IInv, DueSound
  <2>3. StillComing(d[1], d[2])'
    BY <2>1, <2>2, ComingStays
  <2>4. QED
    BY <1>n, <1>t, <2>1, <2>2, <2>3, InterviewConstants
<1>2. ASSUME ReadDue(t)
      PROVE  /\ StartOf[d[1]] <= now' + ReminderBefore
             /\ StillComing(d[1], d[2])'
  <2>1. PICK s \in Slots : d = <<s, slot[s].candidate>> /\ StartOf[s] <= now + ReminderBefore
    BY <1>t, <1>2 DEF ReadDue
  <2>2. QED
    BY <1>2, <2>1 DEF ReadDue, rowVars, StillComing
<1>3. CASE d \notin tick[t].due
  <2>1. ReadDue(t)
    <3>1. \A u \in Ticks : ClaimReminder(u) => tick'[t].due \subseteq tick[t].due
      BY ClaimEffect
    <3>2. \A u \in Ticks : StopReminding(u) => tick'[t].due \subseteq tick[t].due
      BY <1>t DEF StopReminding
    <3>3. \A u \in Ticks \ {t} : ReadDue(u) => tick'[t] = tick[t]
      BY <1>t DEF ReadDue
    <3>4. tick' # tick
      BY <1>3
    <3>5. QED
      BY <1>3, <3>1, <3>2, <3>3, <3>4
         DEF Next, vars, rowVars, teamVars, callVars, history, CheckCandidate, AddCandidate, BindRows,
         RemoveCandidate, PlanSlots, OfferSlots, DeleteSlot, AddRecruiter, RemoveRecruiter, ClearTimes,
         ReadCandidacy, ReadTarget, CheckBooking, Book, othersThanBooking, Pass
  <2>2. QED
    BY <1>2, <2>1
<1>4. QED
  BY <1>1, <1>3

\* So do the reminders sent.
LEMMA RemindersStep == IInv /\ [Next]_vars => RemindersSound'
<1> SUFFICES ASSUME IInv, [Next]_vars, NEW r \in reminders'
             PROVE  /\ StartOf[r[1]] <= now' + ReminderBefore
                    /\ StillComing(r[1], r[2])'
                    /\ slot'[r[1]].row = "deleted" \/ (slot'[r[1]].row = "offered" /\ slot'[r[1]].reminded)
  BY DEF RemindersSound, StillComing, Offered
<1>t. now \in Nat /\ slot \in [Slots -> SlotState]
  BY DEF IInv, TypeOK
<1>n. now' \in Nat /\ now' >= now
  BY <1>t, TimePasses
<1>1. CASE r \in reminders
  <2>1. r[1] \in Slots /\ r[2] \in Candidates
    BY <1>1 DEF IInv, TypeOK
  <2>2. /\ StartOf[r[1]] <= now + ReminderBefore /\ StillComing(r[1], r[2])
        /\ slot[r[1]].row = "deleted" \/ (slot[r[1]].row = "offered" /\ slot[r[1]].reminded)
    BY <1>1 DEF IInv, RemindersSound, Offered
  <2>3. StillComing(r[1], r[2])'
    BY <2>1, <2>2, ComingStays
  <2>4. slot'[r[1]].row = "deleted" \/ (slot'[r[1]].row = "offered" /\ slot'[r[1]].reminded)
    BY <2>1, <2>2, RowsStayStep DEF RowsStay
  <2>5. StartOf[r[1]] <= now' + ReminderBefore
    BY <1>n, <1>t, <2>1, <2>2, InterviewConstants
  <2>6. QED
    BY <2>3, <2>4, <2>5
<1>2. CASE r \notin reminders
  <2>1. PICK t \in Ticks : ClaimReminder(t)
    BY <1>2 DEF Next, vars, rowVars, teamVars, callVars, history, CheckCandidate, AddCandidate, BindRows,
         RemoveCandidate, PlanSlots, OfferSlots, DeleteSlot, AddRecruiter, RemoveRecruiter, ClearTimes,
         ReadCandidacy, ReadTarget, CheckBooking, Book, othersThanBooking, Pass, ReadDue, StopReminding
  <2>2. /\ <<r[1], r[2]>> \in tick[t].due /\ r[1] \in Slots /\ r[2] \in Candidates
        /\ Offered(r[1]) /\ slot'[r[1]].reminded
    BY <1>2, <2>1, ClaimEffect
  <2>3. /\ StartOf[<<r[1], r[2]>>[1]] <= now + ReminderBefore
        /\ StillComing(<<r[1], r[2]>>[1], <<r[1], r[2]>>[2])
    BY <2>2 DEF IInv, DueSound
  <2>4. StartOf[r[1]] <= now + ReminderBefore /\ StillComing(r[1], r[2])
    BY <2>3
  <2>5. slot'[r[1]].row = "offered"
    BY <2>1, <2>2, ClaimEffect DEF Offered
  <2>6. StillComing(r[1], r[2])'
    BY <2>2, <2>4, ComingStays
  <2>7. QED
    BY <1>n, <1>t, <2>2, <2>4, <2>5, <2>6, InterviewConstants
<1>3. QED
  BY <1>1, <1>2

\* Fewer rows stay fewer.
LEMMA FewerRows ==
    ASSUME NEW S \in SUBSET Candidates, NEW R \in SUBSET S
    PROVE  /\ Cardinality(R) \in Nat /\ Cardinality(S) \in Nat
           /\ Cardinality(R) <= Cardinality(S)
<1>1. IsFiniteSet(S)
  BY InterviewConstants, FS_Subset
<1>2. QED
  BY <1>1, FS_Subset, FS_CardinalityType

\* What overlapped, overlapped.
LEMMA RacedGrows == [Next]_vars => raced \subseteq raced'
  BY DEF Next, vars, rowVars, teamVars, callVars, history, CheckCandidate, AddCandidate, BindRows,
         RemoveCandidate, PlanSlots, OfferSlots, DeleteSlot, AddRecruiter, RemoveRecruiter, ClearTimes,
         ReadCandidacy, ReadTarget, CheckBooking, Book, othersThanBooking,
         ReadDue, ClaimReminder, StopReminding, Pass

\* What addCandidate checked.
LEMMA AddsStep == IInv /\ [Next]_vars => AddsHold'
<1> SUFFICES ASSUME IInv, [Next]_vars, NEW c \in Candidates, adding'[c] = "checked"
             PROVE  Cardinality(RowsOf(PersonOf[c])') < MaxDepartments \/ <<"adding", PersonOf[c]>> \in raced'
  BY DEF AddsHold, RowsOf, InList
<1> DEFINE rows == RowsOf(PersonOf[c])
<1>t. /\ adding \in [Candidates -> {"idle", "checked", "done"}]
      /\ candidate \in [Candidates -> {"none", "tagged", "bound", "removed"}]
      /\ MaxDepartments \in Nat
  BY InterviewConstants DEF IInv, TypeOK
<1>m. raced \subseteq raced'
  BY RacedGrows
<1>f. ASSUME adding[c] = "checked", rows' \subseteq rows
      PROVE  Cardinality(rows') < MaxDepartments \/ <<"adding", PersonOf[c]>> \in raced'
  <2>1. Cardinality(rows) < MaxDepartments \/ <<"adding", PersonOf[c]>> \in raced
    BY <1>f DEF IInv, AddsHold
  <2>2. rows \in SUBSET Candidates
    BY DEF RowsOf
  <2>3. /\ Cardinality(rows') \in Nat /\ Cardinality(rows) \in Nat
        /\ Cardinality(rows') <= Cardinality(rows)
    <3> HIDE DEF rows
    <3>1. QED
      BY <1>f, <2>2, FewerRows
  <2>4. QED
    BY <1>m, <1>t, <2>1, <2>3
<1>1. ASSUME NEW d \in Candidates, CheckCandidate(d)
      PROVE  Cardinality(rows') < MaxDepartments \/ <<"adding", PersonOf[c]>> \in raced'
  <2>1. rows' = rows
    BY <1>1 DEF CheckCandidate, rowVars, RowsOf, InList
  <2>2. CASE d = c
    <3>1. Cardinality(rows) < MaxDepartments
      BY <1>1, <1>t, <2>2 DEF CheckCandidate
    <3>2. QED
      BY <2>1, <3>1
  <2>3. CASE d # c
    BY <1>1, <1>f, <1>t, <2>1, <2>3 DEF CheckCandidate
  <2>4. QED
    BY <2>2, <2>3
<1>2. ASSUME NEW d \in Candidates, AddCandidate(d)
      PROVE  Cardinality(rows') < MaxDepartments \/ <<"adding", PersonOf[c]>> \in raced'
  <2>1. d # c /\ adding[c] = "checked"
    BY <1>2, <1>t DEF AddCandidate
  <2>2. CASE PersonOf[d] = PersonOf[c]
    BY <1>2, <2>1, <2>2 DEF AddCandidate
  <2>3. CASE PersonOf[d] # PersonOf[c]
    <3>1. rows' \subseteq rows
      BY <1>2, <1>t, <2>3 DEF AddCandidate, RowsOf, InList
    <3>2. QED
      BY <1>f, <2>1, <3>1
  <2>4. QED
    BY <2>2, <2>3
<1>3. ASSUME NEW d \in Candidates, RemoveCandidate(d)
      PROVE  Cardinality(rows') < MaxDepartments \/ <<"adding", PersonOf[c]>> \in raced'
  <2>1. rows' \subseteq rows /\ adding[c] = "checked"
    BY <1>3, <1>t DEF RemoveCandidate, RowsOf, InList, callVars
  <2>2. QED
    BY <1>f, <2>1
<1>4. ASSUME NEW p, BindRows(p)
      PROVE  Cardinality(rows') < MaxDepartments \/ <<"adding", PersonOf[c]>> \in raced'
  <2>1. rows' \subseteq rows /\ adding[c] = "checked"
    BY <1>4, <1>t DEF BindRows, RowsOf, InList, callVars
  <2>2. QED
    BY <1>f, <2>1
<1>5. CASE UNCHANGED <<candidate, adding>>
  <2>1. rows' \subseteq rows /\ adding[c] = "checked"
    BY <1>5 DEF RowsOf, InList
  <2>2. QED
    BY <1>f, <2>1
<1>6. QED
  BY <1>1, <1>2, <1>3, <1>4, <1>5
     DEF Next, vars, rowVars, callVars, PlanSlots, OfferSlots, DeleteSlot, AddRecruiter, RemoveRecruiter,
         ClearTimes, ReadCandidacy, ReadTarget, CheckBooking, Book, othersThanBooking,
         ReadDue, ClaimReminder, StopReminding, Pass

\* Only createSlots puts times on offer.
LEMMA OfferedBefore ==
    ASSUME IInv, [Next]_vars, NEW s \in Slots, slot'[s].row = "offered"
    PROVE  \/ Offered(s)
           \/ \E b \in Batches : OfferSlots(b) /\ s \in batch[b].fresh
<1>1. ASSUME NEW c \in Candidates, RemoveCandidate(c)
      PROVE  slot'[s].row = slot[s].row
  BY <1>1 DEF RemoveCandidate, IInv, TypeOK, SlotState
<1>2. ASSUME NEW b \in Batches, OfferSlots(b), s \notin batch[b].fresh
      PROVE  slot'[s].row = slot[s].row
  BY <1>2 DEF OfferSlots
<1>3. CASE (\E u \in Slots : DeleteSlot(u)) \/ (\E m \in Staff : ClearTimes(m))
  BY <1>3, WithdrawEffect DEF Offered
<1>4. ASSUME NEW b \in Bookings, Book(b)
      PROVE  slot'[s].row = slot[s].row
  <2>1. CASE Commits(b)
    BY <1>4, <2>1, BookEffect
  <2>2. CASE ~ Commits(b)
    BY <1>4, <2>2 DEF Book
  <2>3. QED
    BY <2>1, <2>2
<1>5. ASSUME NEW t \in Ticks, ClaimReminder(t)
      PROVE  slot'[s].row = slot[s].row
  BY <1>5, ClaimEffect
<1>6. slot' = slot => slot'[s].row = slot[s].row
  OBVIOUS
<1>7. QED
  BY <1>1, <1>2, <1>3, <1>4, <1>5, <1>6
     DEF Offered, Next, vars, rowVars, CheckCandidate, AddCandidate, BindRows, PlanSlots, AddRecruiter,
         RemoveRecruiter, ReadCandidacy, ReadTarget, CheckBooking, ReadDue, StopReminding, Pass,
         othersThanBooking

\* What createSlots planned.
LEMMA OffersStep == IInv /\ [Next]_vars => OffersHold'
<1> SUFFICES ASSUME IInv, [Next]_vars, NEW b \in Batches, NEW s \in batch'[b].fresh
             PROVE  /\ BatchOf[s] = b /\ batch'[b].pc = "planned"
                    /\ \A t \in Slots : slot'[t].row = "offered" /\ Host(t) = Host(s) /\ Overlap(s, t) =>
                         <<"slots", Host(s)>> \in raced'
  BY DEF OffersHold, Offered, Host, Overlap
<1>t. batch \in [Batches -> [pc : {"idle", "planned", "done"}, fresh : SUBSET Slots]]
  BY DEF IInv, TypeOK
<1>1. ASSUME NEW o \in Batches, PlanSlots(o)
      PROVE  /\ BatchOf[s] = b /\ batch'[b].pc = "planned"
             /\ \A t \in Slots : slot'[t].row = "offered" /\ Host(t) = Host(s) /\ Overlap(s, t) =>
                  <<"slots", Host(s)>> \in raced'
  <2>1. slot' = slot /\ raced' = raced
    BY <1>1 DEF PlanSlots, rowVars, history
  <2>2. CASE o = b
    BY <1>1, <1>t, <2>1, <2>2 DEF PlanSlots, Host, Offered
  <2>3. CASE o # b
    BY <1>1, <1>t, <2>1, <2>3 DEF PlanSlots, IInv, OffersHold, Offered
  <2>4. QED
    BY <2>2, <2>3
<1>2. ASSUME NEW o \in Batches, OfferSlots(o)
      PROVE  /\ BatchOf[s] = b /\ batch'[b].pc = "planned"
             /\ \A t \in Slots : slot'[t].row = "offered" /\ Host(t) = Host(s) /\ Overlap(s, t) =>
                  <<"slots", Host(s)>> \in raced'
  <2>1. b # o /\ batch'[b] = batch[b]
    BY <1>2, <1>t DEF OfferSlots
  <2>2. BatchOf[s] = b /\ batch[b].pc = "planned"
    BY <2>1 DEF IInv, OffersHold
  <2>3. ASSUME NEW t \in Slots, slot'[t].row = "offered", Host(t) = Host(s), Overlap(s, t)
        PROVE  <<"slots", Host(s)>> \in raced'
    <3>1. CASE t \in batch[o].fresh
      <4>1. Host(t) = HostOf[o] /\ Host(s) = HostOf[b]
        BY <1>2, <2>2, <3>1, OfferEffect DEF Host
      <4>2. QED
        BY <1>2, <2>1, <2>2, <2>3, <4>1 DEF OfferSlots
    <3>2. CASE t \notin batch[o].fresh
      <4>1. Offered(t)
        BY <1>2, <2>3, <3>2, OfferEffect DEF Offered
      <4>2. QED
        BY <2>1, <2>3, <4>1, RacedGrows DEF IInv, OffersHold
    <3>3. QED
      BY <3>1, <3>2
  <2>4. QED
    BY <2>1, <2>2, <2>3
<1>3. CASE batch' = batch /\ ~ (\E o \in Batches : OfferSlots(o))
  BY <1>3, OfferedBefore, RacedGrows DEF IInv, OffersHold
<1>4. batch' = batch \/ (\E o \in Batches : PlanSlots(o) \/ OfferSlots(o))
  BY DEF Next, vars, rowVars, teamVars, callVars, history, CheckCandidate, AddCandidate, BindRows,
         RemoveCandidate, DeleteSlot, AddRecruiter, RemoveRecruiter, ClearTimes,
         ReadCandidacy, ReadTarget, CheckBooking, Book, othersThanBooking,
         ReadDue, ClaimReminder, StopReminding, Pass
<1>5. QED
  BY <1>1, <1>2, <1>3, <1>4

\* What book checked.
LEMMA MovesStep == IInv /\ [Next]_vars => MovesHold'
<1> SUFFICES ASSUME IInv, [Next]_vars, NEW b \in Bookings, booking'[b].pc = "checked",
                    NEW d \in Candidates \ {ForOf[b]}, PersonOf[d] = PersonOf[ForOf[b]],
                    NEW s \in Slots, slot'[s].candidate = d, Overlap(s, TargetOf[b])
             PROVE  <<"booking", PersonOf[ForOf[b]]>> \in raced'
  BY DEF MovesHold, BookedElsewhere, HeldBy, Overlap
<1>t. /\ booking \in [Bookings -> BookingState] /\ None \notin Candidates
      /\ \A o \in Bookings : ForOf[o] \in Candidates /\ TargetOf[o] \in Slots
  BY InterviewConstants DEF IInv, TypeOK
<1>h. ASSUME NothingTaken
      PROVE  s \in BookedElsewhere(ForOf[b])
  <2>1. slot[s].candidate = d
    BY <1>h, <1>t DEF NothingTaken
  <2>2. Offered(s)
    BY <1>t, <2>1 DEF IInv, RowsSound
  <2>3. QED
    BY <2>1, <2>2 DEF BookedElsewhere, HeldBy
<1>1. CASE NothingTaken /\ booking[b].pc = "checked"
  BY <1>1, <1>h, RacedGrows DEF IInv, MovesHold
<1>2. CASE NothingTaken /\ booking[b].pc # "checked"
  <2>1. CheckBooking(b)
    <3>1. \A o \in Bookings \ {b} :
            ReadCandidacy(o) \/ ReadTarget(o) \/ CheckBooking(o) \/ Book(o) => booking'[b] = booking[b]
      BY <1>t DEF ReadCandidacy, ReadTarget, CheckBooking, Book, Answered
    <3>2. ~ ReadCandidacy(b) /\ ~ Book(b)
      BY <1>t DEF ReadCandidacy, Book, Answered
    <3>3. ~ ReadTarget(b)
      <4>1. Answered(b)[b].pc = "done" /\ [booking EXCEPT ![b].pc = "target"][b].pc = "target"
        BY <1>t DEF Answered, BookingState
      <4>2. QED
        BY <4>1 DEF ReadTarget
    <3>4. booking' # booking
      BY <1>2
    <3>5. \E o \in Bookings : ReadCandidacy(o) \/ ReadTarget(o) \/ CheckBooking(o) \/ Book(o)
      BY <3>4
         DEF Next, vars, rowVars, teamVars, callVars, history, CheckCandidate, AddCandidate, BindRows,
         RemoveCandidate, PlanSlots, OfferSlots, DeleteSlot, AddRecruiter, RemoveRecruiter, ClearTimes,
         ReadDue, ClaimReminder, StopReminding, Pass
    <3>6. QED
      BY <1>2, <3>1, <3>2, <3>3, <3>5
  <2>2. ~ BookingProblem(TargetOf[b], booking[b].previous, BookedElsewhere(ForOf[b]))
    BY <1>t, <2>1 DEF CheckBooking, Answered
  <2>3. QED
    BY <1>2, <1>h, <2>2 DEF BookingProblem
<1>3. ASSUME NEW o \in Bookings, Book(o), Commits(o)
      PROVE  <<"booking", PersonOf[ForOf[b]]>> \in raced'
  <2>1. o # b /\ booking[b].pc = "checked"
    BY <1>3, <1>t DEF Book, Answered, BookingState
  <2>2. CASE s = TargetOf[o]
    <3>1. ForOf[o] = d
      BY <1>3, <2>2, BookEffect
    <3>2. QED
      BY <1>3, <2>1, <3>1 DEF Book
  <2>3. CASE s # TargetOf[o]
    <3>1. slot[s].candidate = d
      BY <1>3, <1>t, <2>3, BookEffect
    <3>2. Offered(s)
      BY <1>t, <3>1 DEF IInv, RowsSound
    <3>3. s \in BookedElsewhere(ForOf[b])
      BY <3>1, <3>2 DEF BookedElsewhere, HeldBy
    <3>4. QED
      BY <2>1, <3>3, RacedGrows DEF IInv, MovesHold
  <2>4. QED
    BY <2>2, <2>3
<1>4. QED
  BY <1>1, <1>2, <1>3, HeldStaysStep

(***************************************************************************)
(* Theorems                                                                *)
(***************************************************************************)
\* Nothing is added, offered or booked yet.
LEMMA InvInit == Init => IInv
<1> SUFFICES ASSUME Init PROVE IInv
  OBVIOUS
<1>1. TypeOK
  BY InterviewConstants DEF Init, TypeOK, NewSlot, SlotState, BookingState, Staff
<1>2. RowsSound /\ InsertsOnce
  BY InterviewConstants DEF Init, NewSlot, RowsSound, InsertsOnce
<1>3. BookingsSound /\ MovesHold
  BY DEF Init, BookingsSound, MovesHold, InFlight
<1>4. DueSound /\ RemindersSound /\ AddsHold /\ OffersHold
  BY DEF Init, DueSound, RemindersSound, AddsHold, OffersHold
<1>5. QED
  BY <1>1, <1>2, <1>3, <1>4 DEF IInv

\* Every step keeps all of it.
LEMMA InvStep == IInv /\ [Next]_vars => IInv'
  BY TypeStep, RowsStep, InsertsStep, BookingsStep, DueStep, RemindersStep, AddsStep, OffersStep, MovesStep
     DEF IInv

\* The types, the index and the foreign keys of the rows, and what each handler may rely on
\* between its reads and its write.
THEOREM InterviewInvariant == Spec => []IInv
<1>1. Init => IInv
  BY InvInit
<1>2. IInv /\ [Next]_vars => IInv'
  BY InvStep
<1>3. QED
  BY <1>1, <1>2, PTL DEF Spec

\* One reminder an interview, and it names the candidate who comes: sendReminders claims
\* each slot where nobody claimed it, and bookingProblem keeps moves an hour away.
THEOREM RemindersStayTrue == Spec => []RemindersTrue
<1> DEFINE Once == \A r, q \in reminders : r[1] = q[1] => r = q
<1>1. Init => Once
  BY DEF Init
<1>2. IInv /\ Once /\ [Next]_vars => Once'
  <2> SUFFICES ASSUME IInv, Once, [Next]_vars, NEW r \in reminders', NEW q \in reminders', r[1] = q[1]
               PROVE  r = q
    OBVIOUS
  <2>1. CASE reminders' = reminders
    BY <2>1
  <2>2. ASSUME NEW t \in Ticks, ClaimReminder(t)
        PROVE  r = q
    <3>1. ASSUME NEW x \in reminders, NEW y \in reminders' \ reminders
          PROVE  x[1] # y[1]
      <4>1. slot[x[1]].row = "deleted" \/ (Offered(x[1]) /\ slot[x[1]].reminded)
        BY DEF IInv, RemindersSound
      <4>2. Offered(y[1]) /\ ~ slot[y[1]].reminded
        BY <2>2, ClaimEffect
      <4>3. QED
        BY <4>1, <4>2 DEF Offered
    <3>2. CASE r \in reminders /\ q \in reminders
      BY <3>2
    <3>3. CASE r \notin reminders /\ q \notin reminders
      BY <2>2, <3>3, ClaimEffect
    <3>4. QED
      BY <3>1, <3>2, <3>3
  <2>3. QED
    BY <2>1, <2>2
       DEF Next, vars, rowVars, teamVars, callVars, history, CheckCandidate, AddCandidate, BindRows,
         RemoveCandidate, PlanSlots, OfferSlots, DeleteSlot, AddRecruiter, RemoveRecruiter, ClearTimes,
         ReadCandidacy, ReadTarget, CheckBooking, Book, othersThanBooking, ReadDue, StopReminding, Pass
<1>3. IInv /\ Once => RemindersTrue
  BY DEF IInv, RemindersSound, RemindersTrue
<1>4. QED
  BY <1>1, <1>2, <1>3, InterviewInvariant, PTL DEF Spec

\* Nobody loses a booked slot but by moving himself or by being removed.
THEOREM BookingsAreKept == Spec => BookingsKept
<1>1. IInv /\ [Next]_vars =>
        [\A s \in Slots :
           LET c == slot[s].candidate IN c # None /\ slot'[s].candidate # c =>
             \/ candidate'[c] = "removed"
             \/ \E b \in Bookings : /\ ForOf[b] = c /\ booking'[b] # booking[b]
                                    /\ slot'[TargetOf[b]].candidate = c]_vars
  <2> SUFFICES ASSUME IInv, [Next]_vars, NEW s \in Slots, slot[s].candidate # None,
                      slot'[s].candidate # slot[s].candidate, candidate'[slot[s].candidate] # "removed"
               PROVE  \E b \in Bookings : /\ ForOf[b] = slot[s].candidate /\ booking'[b] # booking[b]
                                          /\ slot'[TargetOf[b]].candidate = slot[s].candidate
    OBVIOUS
  <2>1. PICK b \in Bookings : Book(b) /\ Commits(b)
    BY HeldStaysStep DEF HeldStays
  <2>2. ForOf[b] = slot[s].candidate
    BY <2>1, BookEffect
  <2>3. slot'[TargetOf[b]].candidate = ForOf[b]
    BY <2>1, BookEffect
  <2>4. booking'[b] # booking[b]
    BY <2>1 DEF Book, Answered, IInv, TypeOK, BookingState
  <2>5. QED
    BY <2>2, <2>3, <2>4
<1>2. QED
  BY <1>1, InterviewInvariant, PTL DEF Spec, BookingsKept

\* A person has two interviews at once, a host two times, and a person too many departments
\* only when the calls that did it overlapped: each handler's check covers every other order.
THEOREM PeopleDoubledOnlyWhenRaced == Spec => []DoubledOnlyWhenRaced
<1>t. /\ None \notin Candidates /\ StartOf \in [Slots -> Nat] /\ EndOf \in [Slots -> Nat]
      /\ MaxDepartments \in Nat /\ BatchOf \in [Slots -> Batches]
  BY InterviewConstants
<1>1. Init => DoubledOnlyWhenRaced
  <2> SUFFICES ASSUME Init PROVE DoubledOnlyWhenRaced
    OBVIOUS
  <2>1. HostsApart /\ PeopleApart
    BY DEF Init, NewSlot, HostsApart, PeopleApart, Offered
  <2>2. \A c \in Candidates : RowsOf(PersonOf[c]) = {}
    BY DEF Init, RowsOf, InList
  <2>3. FewDepartments
    BY <1>t, <2>2, FS_EmptySet DEF FewDepartments
  <2>4. QED
    BY <2>1, <2>3 DEF DoubledOnlyWhenRaced
<1>2. IInv /\ DoubledOnlyWhenRaced /\ [Next]_vars => HostsApart'
  <2> SUFFICES ASSUME IInv, DoubledOnlyWhenRaced, [Next]_vars, NEW s \in Slots, NEW t \in Slots,
                      s # t, Overlap(s, t), slot'[s].row = "offered", slot'[t].row = "offered",
                      Host(s) = Host(t)
               PROVE  <<"slots", Host(s)>> \in raced'
    BY DEF HostsApart, Overlap, Offered, Host
  <2>1. Overlap(t, s)
    BY DEF Overlap
  <2>2. CASE Offered(s) /\ Offered(t)
    BY <2>2, RacedGrows DEF DoubledOnlyWhenRaced, HostsApart
  <2>3. ASSUME NEW b \in Batches, OfferSlots(b), s \in batch[b].fresh \/ t \in batch[b].fresh
        PROVE  <<"slots", Host(s)>> \in raced'
    <3>1. CASE s \in batch[b].fresh /\ t \in batch[b].fresh
      <4>1. BatchOf[s] = BatchOf[t]
        BY <2>3, <3>1, OfferEffect
      <4>2. QED
        BY <1>t, <4>1, TimesFollow DEF Overlap
    <3>2. CASE s \notin batch[b].fresh
      <4>1. Offered(s)
        BY <2>3, <3>2, OfferEffect DEF Offered
      <4>2. QED
        BY <2>1, <2>3, <3>2, <4>1, RacedGrows DEF IInv, OffersHold
    <3>3. CASE t \notin batch[b].fresh
      <4>1. Offered(t)
        BY <2>3, <3>3, OfferEffect DEF Offered
      <4>2. QED
        BY <2>3, <3>3, <4>1, RacedGrows DEF IInv, OffersHold
    <3>4. QED
      BY <3>1, <3>2, <3>3
  <2>4. QED
    BY <2>2, <2>3, OfferedBefore
<1>3. IInv /\ DoubledOnlyWhenRaced /\ [Next]_vars => PeopleApart'
  <2> SUFFICES ASSUME IInv, DoubledOnlyWhenRaced, [Next]_vars, NEW s \in Slots, NEW t \in Slots,
                      s # t, Overlap(s, t), slot'[s].candidate # None, slot'[t].candidate # None,
                      PersonOf[slot'[s].candidate] = PersonOf[slot'[t].candidate]
               PROVE  <<"booking", PersonOf[slot'[s].candidate]>> \in raced'
    BY DEF PeopleApart, Overlap
  <2>1. CASE NothingTaken
    BY <2>1, RacedGrows DEF NothingTaken, DoubledOnlyWhenRaced, PeopleApart
  <2>2. ASSUME NEW b \in Bookings, Book(b), Commits(b)
        PROVE  <<"booking", PersonOf[slot'[s].candidate]>> \in raced'
    <3>1. CASE s # TargetOf[b] /\ t # TargetOf[b]
      <4>1. slot[s].candidate = slot'[s].candidate /\ slot[t].candidate = slot'[t].candidate
        BY <2>2, <3>1, BookEffect
      <4>2. QED
        BY <4>1, RacedGrows DEF DoubledOnlyWhenRaced, PeopleApart
    <3>2. ASSUME NEW u \in Slots, u # TargetOf[b], Overlap(u, TargetOf[b]), slot'[u].candidate # None,
                 PersonOf[slot'[u].candidate] = PersonOf[ForOf[b]]
          PROVE  <<"booking", PersonOf[ForOf[b]]>> \in raced'
      <4>1. slot'[u].candidate = slot[u].candidate /\ u \notin booking[b].previous
        BY <2>2, <3>2, BookEffect
      <4>2. Offered(u) /\ slot[u].candidate \in Candidates
        BY <3>2, <4>1 DEF IInv, TypeOK, SlotState, RowsSound
      <4>3. slot[u].candidate # ForOf[b]
        BY <2>2, <4>1, <4>2, BookEffect DEF HeldBy
      <4>4. u \in BookedElsewhere(ForOf[b])
        BY <3>2, <4>1, <4>2, <4>3 DEF BookedElsewhere, HeldBy
      <4>5. booking[b].pc = "checked"
        BY <2>2 DEF Book
      <4>6. QED
        BY <3>2, <4>4, <4>5, RacedGrows DEF IInv, MovesHold
    <3>3. Overlap(t, s)
      BY DEF Overlap
    <3>4. slot'[TargetOf[b]].candidate = ForOf[b]
      BY <2>2, BookEffect
    <3>5. QED
      BY <3>1, <3>2, <3>3, <3>4
  <2>3. QED
    BY <2>1, <2>2, HeldStaysStep
<1>4. IInv /\ DoubledOnlyWhenRaced /\ [Next]_vars => FewDepartments'
  <2> SUFFICES ASSUME IInv, DoubledOnlyWhenRaced, [Next]_vars, NEW c \in Candidates
               PROVE  \/ Cardinality(RowsOf(PersonOf[c])') <= MaxDepartments
                      \/ <<"adding", PersonOf[c]>> \in raced'
    BY DEF FewDepartments, RowsOf, InList
  <2> DEFINE rows == RowsOf(PersonOf[c])
  <2>1. Cardinality(rows) <= MaxDepartments \/ <<"adding", PersonOf[c]>> \in raced
    BY DEF DoubledOnlyWhenRaced, FewDepartments
  <2>2. rows \in SUBSET Candidates /\ IsFiniteSet(rows)
    <3>1. rows \in SUBSET Candidates
      BY DEF RowsOf
    <3>2. QED
      BY <3>1, InterviewConstants, FS_Subset
  <2>3. CASE rows' \subseteq rows
    <3>1. Cardinality(rows') <= Cardinality(rows) /\ Cardinality(rows') \in Nat /\ Cardinality(rows) \in Nat
      <4> HIDE DEF rows
      <4>1. QED
        BY <2>2, <2>3, FewerRows
    <3>2. QED
      BY <1>t, <2>1, <3>1, RacedGrows
  <2>4. ASSUME NEW d \in Candidates, AddCandidate(d), PersonOf[d] = PersonOf[c]
        PROVE  Cardinality(rows') <= MaxDepartments \/ <<"adding", PersonOf[c]>> \in raced'
    <3>1. Cardinality(rows) < MaxDepartments \/ <<"adding", PersonOf[c]>> \in raced
      BY <2>4 DEF AddCandidate, IInv, AddsHold
    <3>2. rows' \subseteq rows \cup {d}
      BY <2>4 DEF AddCandidate, RowsOf, InList, IInv, TypeOK
    <3>3. Cardinality(rows \cup {d}) <= Cardinality(rows) + 1 /\ Cardinality(rows) \in Nat
      <4> HIDE DEF rows
      <4>1. Cardinality(rows) \in Nat
        BY <2>2, FS_CardinalityType
      <4>2. Cardinality(rows \cup {d}) = Cardinality(rows) \/ Cardinality(rows \cup {d}) = Cardinality(rows) + 1
        BY <2>2, FS_AddElement
      <4>3. QED
        BY <4>1, <4>2
    <3>4. /\ Cardinality(rows') <= Cardinality(rows \cup {d})
          /\ Cardinality(rows') \in Nat /\ Cardinality(rows \cup {d}) \in Nat
      <4> HIDE DEF rows
      <4>1. QED
        BY <2>2, <3>2, FewerRows
    <3>5. QED
      BY <1>t, <3>1, <3>3, <3>4, RacedGrows
  <2>5. ASSUME NEW d \in Candidates, AddCandidate(d), PersonOf[d] # PersonOf[c]
        PROVE  rows' \subseteq rows
    BY <2>5 DEF AddCandidate, RowsOf, InList, IInv, TypeOK
  <2>6. ASSUME NEW d \in Candidates, RemoveCandidate(d)
        PROVE  rows' \subseteq rows
    BY <2>6 DEF RemoveCandidate, RowsOf, InList, IInv, TypeOK
  <2>7. ASSUME NEW p, BindRows(p)
        PROVE  rows' \subseteq rows
    BY <2>7 DEF BindRows, RowsOf, InList
  <2>8. candidate' = candidate => rows' \subseteq rows
    BY DEF RowsOf, InList
  <2>9. QED
    BY <2>3, <2>4, <2>5, <2>6, <2>7, <2>8
       DEF Next, vars, rowVars, callVars, CheckCandidate, PlanSlots, OfferSlots, DeleteSlot, AddRecruiter,
         RemoveRecruiter, ClearTimes, ReadCandidacy, ReadTarget, CheckBooking, Book, othersThanBooking,
         ReadDue, ClaimReminder, StopReminding, Pass
<1>5. QED
  BY <1>1, <1>2, <1>3, <1>4, InterviewInvariant, PTL DEF Spec, DoubledOnlyWhenRaced
=============================================================================

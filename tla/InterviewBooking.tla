-------------------------- MODULE InterviewBooking --------------------------
(***************************************************************************)
(* Interviews (interview.service.ts): heads add candidates, recruiters     *)
(* offer times, a candidate books one and may move it, a timer reminds the *)
(* host shortly before the start.  Every handler decides on rows it read   *)
(* earlier; at the write only the WHERE clause, the unique index on        *)
(* InterviewSlot.candidateId and the foreign keys still hold.              *)
(*                                                                         *)
(* A candidate row is named by the addCandidate call that inserts it, a    *)
(* slot is one of the times a createSlots call would insert.  One person   *)
(* may have several candidate rows, one per department.                    *)
(***************************************************************************)
EXTENDS Naturals, FiniteSets

CONSTANTS
    Candidates, PersonOf, DepartmentOf,     \* addCandidate calls: whose row, in which department
    Slots, BatchOf,                         \* the times, and the createSlots call that offers each
    Batches, HostOf, OfferedIn,             \* createSlots calls: whose times, in which department
    StartOf, EndOf,                         \* [Slots -> Nat]
    Bookings, ForOf, TargetOf,              \* book calls: which candidate row, which slot
    Ticks,                                  \* runs of sendReminders
    Lead, ReminderBefore,                   \* BOOKING_LEAD_MS, REMINDER_BEFORE_MS
    MaxDepartments,                         \* MAX_DEPARTMENTS_PER_CANDIDATE
    MaxHandler,                             \* bound: a book call lasts no longer
    MaxTime,                                \* bound on the clock
    None

ASSUME InterviewConstants ==
    /\ IsFiniteSet(Candidates) /\ None \notin Candidates
    /\ BatchOf \in [Slots -> Batches]
    /\ StartOf \in [Slots -> Nat] /\ EndOf \in [Slots -> Nat]
    /\ ForOf \in [Bookings -> Candidates] /\ TargetOf \in [Bookings -> Slots]
    /\ Lead \in Nat /\ ReminderBefore \in Nat /\ MaxHandler \in Nat
    /\ MaxDepartments \in Nat /\ MaxTime \in Nat

\* An hour's lead, ten minutes' notice: a call that lasted longer than the difference
\* could still move an interview its host was reminded of.
ASSUME BookingsAreShort == ReminderBefore + MaxHandler <= Lead

\* splitWindow cuts a window into times that follow each other.
ASSUME TimesFollow ==
    \A s, t \in Slots : s # t /\ BatchOf[s] = BatchOf[t] =>
        EndOf[s] <= StartOf[t] \/ EndOf[t] <= StartOf[s]

VARIABLES
    candidate,      \* InterviewCandidate: "none", "tagged", "bound" to an account, "removed"
    slot,           \* InterviewSlot: its row, candidateId and reminderSentAt
    team,           \* InterviewRecruiter: who may offer times, in which department
    leaving,        \* removeRecruiter calls between their two deletes
    adding, batch, booking, tick,           \* the handlers
    reminders,      \* reminders sent to hosts
    raced,          \* history: whose calls overlapped, and at what
    now

rowVars == <<candidate, slot>>
teamVars == <<team, leaving>>
callVars == <<adding, batch, booking, tick>>
history == <<reminders, raced>>
vars == <<rowVars, teamVars, callVars, history, now>>

Staff == {<<HostOf[b], OfferedIn[b]>> : b \in Batches}
Host(s) == HostOf[BatchOf[s]]
Department(s) == OfferedIn[BatchOf[s]]
InList(c) == candidate[c] \in {"tagged", "bound"}
Offered(s) == slot[s].row = "offered"
Free(s) == Offered(s) /\ slot[s].candidate = None
HeldBy(c) == {s \in Slots : Offered(s) /\ slot[s].candidate = c}
Overlap(s, t) == StartOf[s] < EndOf[t] /\ StartOf[t] < EndOf[s]

NewSlot == [row |-> "none", candidate |-> None, reminded |-> FALSE]

Init ==
    /\ candidate = [c \in Candidates |-> "none"]
    /\ slot = [s \in Slots |-> NewSlot]
    /\ team = Staff /\ leaving = {}
    /\ adding = [c \in Candidates |-> "idle"]
    /\ batch = [b \in Batches |-> [pc |-> "idle", fresh |-> {}]]
    /\ booking = [b \in Bookings |-> [pc |-> "idle", previous |-> {}, since |-> 0]]
    /\ tick = [t \in Ticks |-> [pc |-> "idle", due |-> {}]]
    /\ reminders = {} /\ raced = {}
    /\ now = 0

(***************************************************************************)
(* Candidates                                                              *)
(***************************************************************************)
RowsOf(p) == {c \in Candidates : InList(c) /\ PersonOf[c] = p}

\* addCandidate, up to the check: not in this department yet, in fewer than two others.
CheckCandidate(c) ==
    /\ adding[c] = "idle"
    /\ adding' = [adding EXCEPT ![c] =
          IF /\ \A d \in RowsOf(PersonOf[c]) : DepartmentOf[d] # DepartmentOf[c]
             /\ Cardinality(RowsOf(PersonOf[c])) < MaxDepartments
          THEN "checked" ELSE "done"]
    /\ UNCHANGED <<rowVars, teamVars, batch, booking, tick, history, now>>

\* Its insert: one row per department and tag.
AddCandidate(c) ==
    /\ adding[c] = "checked"
    /\ adding' = [adding EXCEPT ![c] = "done"]
    /\ candidate' = IF \E d \in RowsOf(PersonOf[c]) : DepartmentOf[d] = DepartmentOf[c]
                    THEN candidate ELSE [candidate EXCEPT ![c] = "tagged"]
    /\ raced' = IF \E d \in Candidates \ {c} : PersonOf[d] = PersonOf[c] /\ adding[d] = "checked"
                THEN raced \cup {<<"adding", PersonOf[c]>>} ELSE raced
    /\ UNCHANGED <<slot, teamVars, batch, booking, tick, reminders, now>>

\* me(): rows added by tag get the account that opens the app.
BindRows(p) ==
    /\ \E c \in RowsOf(p) : candidate[c] = "tagged"
    /\ candidate' = [c \in Candidates |-> IF c \in RowsOf(p) THEN "bound" ELSE candidate[c]]
    /\ UNCHANGED <<slot, teamVars, callVars, history, now>>

\* A slip of RemoveCandidate: the slot keeps its dangling candidate.
RemoveAndKeepSlot(c) ==
    /\ InList(c)
    /\ candidate' = [candidate EXCEPT ![c] = "removed"]
    /\ UNCHANGED <<slot, teamVars, callVars, history, now>>

\* removeCandidate: the slot is set free by its foreign key.
RemoveCandidate(c) ==
    /\ InList(c)
    /\ candidate' = [candidate EXCEPT ![c] = "removed"]
    /\ slot' = [s \in Slots |-> IF slot[s].candidate = c
                                THEN [slot[s] EXCEPT !.candidate = None] ELSE slot[s]]
    /\ UNCHANGED <<teamVars, callVars, history, now>>

(***************************************************************************)
(* Times on offer                                                          *)
(***************************************************************************)
\* createSlots, up to the insert: the host's role, then his times anywhere.
PlanSlots(b) ==
    LET busy == {t \in Slots : Offered(t) /\ Host(t) = HostOf[b]} IN
    /\ batch[b].pc = "idle" /\ <<HostOf[b], OfferedIn[b]>> \in team
    /\ batch' = [batch EXCEPT ![b] =
          [pc |-> "planned",
           fresh |-> {s \in Slots : /\ BatchOf[s] = b /\ StartOf[s] > now
                                    /\ \A t \in busy : ~ Overlap(s, t)}]]
    /\ UNCHANGED <<rowVars, teamVars, adding, booking, tick, history, now>>

OfferSlots(b) ==
    /\ batch[b].pc = "planned"
    /\ slot' = [s \in Slots |-> IF s \in batch[b].fresh
                                THEN [NewSlot EXCEPT !.row = "offered"] ELSE slot[s]]
    /\ batch' = [batch EXCEPT ![b] = [pc |-> "done", fresh |-> {}]]
    /\ raced' = IF \E o \in Batches \ {b} : HostOf[o] = HostOf[b] /\ batch[o].pc = "planned"
                THEN raced \cup {<<"slots", HostOf[b]>>} ELSE raced
    /\ UNCHANGED <<candidate, teamVars, adding, booking, tick, reminders, now>>

Withdraw(gone) ==
    slot' = [s \in Slots |-> IF s \in gone THEN [NewSlot EXCEPT !.row = "deleted"] ELSE slot[s]]

\* deleteSlot: only a time nobody took.
DeleteSlot(s) ==
    /\ Free(s)
    /\ Withdraw({s})
    /\ UNCHANGED <<candidate, teamVars, callVars, history, now>>

AddRecruiter(m) ==
    /\ m \notin team
    /\ team' = team \cup {m}
    /\ UNCHANGED <<rowVars, leaving, callVars, history, now>>

\* removeRecruiter deletes the row and then, apart from it, the times nobody took.
RemoveRecruiter(m) ==
    /\ m \in team
    /\ team' = team \ {m} /\ leaving' = leaving \cup {m}
    /\ UNCHANGED <<rowVars, callVars, history, now>>

ClearTimes(m) ==
    /\ m \in leaving
    /\ leaving' = leaving \ {m}
    /\ Withdraw({s \in Slots : Free(s) /\ <<Host(s), Department(s)>> = m /\ StartOf[s] > now})
    /\ UNCHANGED <<candidate, team, callVars, history, now>>

(***************************************************************************)
(* book                                                                    *)
(***************************************************************************)
Answered(b) == [booking EXCEPT ![b] = [pc |-> "done", previous |-> {}, since |-> 0]]
othersThanBooking == <<candidate, teamVars, adding, batch, tick, reminders, now>>

\* The person's own candidate row, with the slot it holds.
ReadCandidacy(b) ==
    /\ booking[b].pc = "idle" /\ candidate[ForOf[b]] = "bound"
    /\ booking' = [booking EXCEPT ![b] =
          [pc |-> "found", previous |-> HeldBy(ForOf[b]), since |-> now]]
    /\ UNCHANGED <<slot, raced, othersThanBooking>>

\* The target: in the same department and free.
ReadTarget(b) ==
    LET s == TargetOf[b] IN
    /\ booking[b].pc = "found"
    /\ booking' = IF Free(s) /\ Department(s) = DepartmentOf[ForOf[b]]
                  THEN [booking EXCEPT ![b].pc = "target"] ELSE Answered(b)
    /\ UNCHANGED <<slot, raced, othersThanBooking>>

\* A slip of BookedElsewhere: it looks in the candidate's own department only.
OwnDepartmentOnly(c) ==
    UNION {HeldBy(d) : d \in {d \in Candidates \ {c} : /\ PersonOf[d] = PersonOf[c]
                                                      /\ DepartmentOf[d] = DepartmentOf[c]}}

BookedElsewhere(c) ==
    UNION {HeldBy(d) : d \in {d \in Candidates \ {c} : PersonOf[d] = PersonOf[c]}}

\* A slip of BookingProblem: an interview may be left at the last minute.
LateMovesAllowed(target, previous, others) ==
    \/ StartOf[target] <= now + Lead
    \/ \E s \in others : Overlap(s, target)

\* bookingProblem: too late to leave, too late to come, or another interview at that time.
BookingProblem(target, previous, others) ==
    \/ \E s \in previous : StartOf[s] <= now + Lead
    \/ StartOf[target] <= now + Lead
    \/ \E s \in others : Overlap(s, target)

CheckBooking(b) ==
    /\ booking[b].pc = "target"
    /\ booking' = IF BookingProblem(TargetOf[b], booking[b].previous, BookedElsewhere(ForOf[b]))
                  THEN Answered(b) ELSE [booking EXCEPT ![b].pc = "checked"]
    /\ UNCHANGED <<slot, raced, othersThanBooking>>

\* The transaction frees the previous slot whoever holds it by now and claims the target
\* if that is still free; a slot that is gone, a candidate who is gone or who holds
\* another slot already undoes it.
Rebooked(b) ==
    LET left == [s \in Slots |-> IF s \in booking[b].previous
                                 THEN [slot[s] EXCEPT !.candidate = None] ELSE slot[s]]
    IN  [left EXCEPT ![TargetOf[b]].candidate = ForOf[b]]

\* A slip of Commits: candidateId without its unique index.
CommitsUnindexed(b) ==
    /\ \A s \in booking[b].previous : Offered(s)
    /\ Free(TargetOf[b]) \/ TargetOf[b] \in booking[b].previous
    /\ InList(ForOf[b])

Commits(b) ==
    /\ \A s \in booking[b].previous : Offered(s)
    /\ Free(TargetOf[b]) \/ TargetOf[b] \in booking[b].previous
    /\ InList(ForOf[b])
    /\ HeldBy(ForOf[b]) \subseteq booking[b].previous

Book(b) ==
    /\ booking[b].pc = "checked"
    /\ booking' = Answered(b)
    /\ IF Commits(b)
       THEN /\ slot' = Rebooked(b)
            /\ raced' = IF \E o \in Bookings \ {b} : /\ PersonOf[ForOf[o]] = PersonOf[ForOf[b]]
                                                     /\ booking[o].pc = "checked"
                        THEN raced \cup {<<"booking", PersonOf[ForOf[b]]>>} ELSE raced
       ELSE UNCHANGED <<slot, raced>>
    /\ UNCHANGED othersThanBooking

(***************************************************************************)
(* sendReminders                                                           *)
(***************************************************************************)
\* The timer does not wait for a run that is still sending.
ReadDue(t) ==
    /\ tick[t].pc = "idle"
    /\ tick' = [tick EXCEPT ![t] =
          [pc |-> "sending",
           due |-> {<<s, slot[s].candidate>> : s \in
                      {s \in Slots : /\ Offered(s) /\ ~ Free(s) /\ ~ slot[s].reminded
                                     /\ now < StartOf[s] /\ StartOf[s] <= now + ReminderBefore}}]]
    /\ UNCHANGED <<rowVars, teamVars, adding, batch, booking, history, now>>

\* Each slot is claimed where nobody claimed it and its host told of the candidate read before.
ClaimReminder(t) ==
    /\ tick[t].pc = "sending"
    /\ \E d \in tick[t].due :
         /\ tick' = [tick EXCEPT ![t].due = @ \ {d}]
         /\ IF Offered(d[1]) /\ ~ slot[d[1]].reminded
            THEN /\ slot' = [slot EXCEPT ![d[1]].reminded = TRUE]
                 /\ reminders' = reminders \cup {<<d[1], d[2], t>>}
            ELSE UNCHANGED <<slot, reminders>>
    /\ UNCHANGED <<candidate, teamVars, adding, batch, booking, raced, now>>

\* A restart ends the run where it stands.
StopReminding(t) ==
    /\ tick[t].pc = "sending"
    /\ tick' = [tick EXCEPT ![t] = [pc |-> "done", due |-> {}]]
    /\ UNCHANGED <<rowVars, teamVars, adding, batch, booking, history, now>>

Pass ==
    /\ now < MaxTime
    /\ \A b \in Bookings : booking[b].pc \notin {"idle", "done"} => now < booking[b].since + MaxHandler
    /\ now' = now + 1
    /\ UNCHANGED <<rowVars, teamVars, callVars, history>>

Next ==
    \/ \E c \in Candidates : CheckCandidate(c) \/ AddCandidate(c) \/ RemoveCandidate(c)
    \/ \E c \in Candidates : BindRows(PersonOf[c])
    \/ \E b \in Batches : PlanSlots(b) \/ OfferSlots(b)
    \/ \E s \in Slots : DeleteSlot(s)
    \/ \E m \in Staff : AddRecruiter(m) \/ RemoveRecruiter(m) \/ ClearTimes(m)
    \/ \E b \in Bookings : ReadCandidacy(b) \/ ReadTarget(b) \/ CheckBooking(b) \/ Book(b)
    \/ \E t \in Ticks : ReadDue(t) \/ ClaimReminder(t) \/ StopReminding(t)
    \/ Pass

Spec == Init /\ [][Next]_vars

(***************************************************************************)
(* Properties                                                              *)
(***************************************************************************)
SlotState ==
    [row : {"none", "offered", "deleted"}, candidate : Candidates \cup {None}, reminded : BOOLEAN]

BookingState ==
    [pc : {"idle", "found", "target", "checked", "done"}, previous : SUBSET Slots, since : 0..MaxTime]

TypeOK ==
    /\ candidate \in [Candidates -> {"none", "tagged", "bound", "removed"}]
    /\ slot \in [Slots -> SlotState]
    /\ team \subseteq Staff /\ leaving \subseteq Staff
    /\ adding \in [Candidates -> {"idle", "checked", "done"}]
    /\ batch \in [Batches -> [pc : {"idle", "planned", "done"}, fresh : SUBSET Slots]]
    /\ booking \in [Bookings -> BookingState]
    /\ tick \in [Ticks -> [pc : {"idle", "sending", "done"}, due : SUBSET (Slots \X Candidates)]]
    /\ reminders \subseteq Slots \X Candidates \X Ticks
    /\ now \in 0..MaxTime

\* What the rows keep by their index and foreign keys.
RowsSound ==
    /\ \A s, t \in Slots : slot[s].candidate = slot[t].candidate => s = t \/ slot[s].candidate = None
    /\ \A s \in Slots : slot[s].candidate # None =>
         Offered(s) /\ InList(slot[s].candidate) /\ Department(s) = DepartmentOf[slot[s].candidate]

InFlight(b) == booking[b].pc \in {"found", "target", "checked"}

\* What a booking read and may still rely on: a candidate who held a slot holds one until
\* removed, and neither slot starts within the notice of a reminder.
BookingsSound == \A b \in Bookings : InFlight(b) =>
    /\ now <= booking[b].since + MaxHandler /\ booking[b].since <= now
    /\ candidate[ForOf[b]] # "none"
    /\ \A s, t \in booking[b].previous : s = t
    /\ booking[b].previous # {} /\ InList(ForOf[b]) => HeldBy(ForOf[b]) # {}
    /\ booking[b].pc # "found" => Department(TargetOf[b]) = DepartmentOf[ForOf[b]]
    /\ booking[b].pc = "checked" =>
         \A s \in booking[b].previous \cup {TargetOf[b]} : StartOf[s] > booking[b].since + Lead

\* A candidate a reminder names holds that slot, or is out of the list.
StillComing(s, c) == slot[s].candidate = c \/ candidate[c] = "removed"

DueSound == \A t \in Ticks : \A d \in tick[t].due :
    StartOf[d[1]] <= now + ReminderBefore /\ StillComing(d[1], d[2])

RemindersSound == \A r \in reminders :
    /\ StartOf[r[1]] <= now + ReminderBefore /\ StillComing(r[1], r[2])
    /\ slot[r[1]].row = "deleted" \/ (Offered(r[1]) /\ slot[r[1]].reminded)

\* A row is inserted by one call, and not before its insert.
InsertsOnce ==
    /\ \A c \in Candidates : adding[c] # "done" => candidate[c] = "none"
    /\ \A s \in Slots : batch[BatchOf[s]].pc # "done" => slot[s].row = "none"

\* What addCandidate checked still holds at its insert, or another call for the person overlapped.
AddsHold == \A c \in Candidates : adding[c] = "checked" =>
    \/ Cardinality(RowsOf(PersonOf[c])) < MaxDepartments
    \/ <<"adding", PersonOf[c]>> \in raced

\* So do the times createSlots planned: the host is free, or another call of his overlapped.
OffersHold == \A b \in Batches : \A s \in batch[b].fresh :
    /\ BatchOf[s] = b /\ batch[b].pc = "planned"
    /\ \A t \in Slots : Offered(t) /\ Host(t) = Host(s) /\ Overlap(s, t) =>
         <<"slots", Host(s)>> \in raced

\* So does what book checked of the person's other interviews.
MovesHold == \A b \in Bookings : booking[b].pc = "checked" =>
    \A s \in BookedElsewhere(ForOf[b]) : Overlap(s, TargetOf[b]) =>
      <<"booking", PersonOf[ForOf[b]]>> \in raced

\* Types, the rows' own constraints and what each handler may still rely on.
IInv ==
    /\ TypeOK /\ RowsSound /\ InsertsOnce /\ BookingsSound
    /\ DueSound /\ RemindersSound
    /\ AddsHold /\ OffersHold /\ MovesHold

\* The hosts are told once per interview, and of the candidate who comes: nobody moves away
\* from, or into, a slot once its reminder is due (book frees the slot it read earlier, the
\* runs of sendReminders overlap, a candidate read before may be removed).
RemindersTrue ==
    /\ \A r \in reminders : StillComing(r[1], r[2])
    /\ \A r, q \in reminders : r[1] = q[1] => r = q

\* A slot is lost only by the move of the candidate who holds it, who then holds the one asked
\* for, or by that candidate's removal, although book frees the slot its candidate held
\* earlier without looking at who holds it by now.
BookingsKept == [][\A s \in Slots :
    LET c == slot[s].candidate IN c # None /\ slot'[s].candidate # c =>
        \/ candidate'[c] = "removed"
        \/ \E b \in Bookings : /\ ForOf[b] = c /\ booking'[b] # booking[b]
                               /\ slot'[TargetOf[b]].candidate = c]_vars

HostsApart == \A s, t \in Slots :
    s # t /\ Overlap(s, t) /\ Offered(s) /\ Offered(t) /\ Host(s) = Host(t) =>
      <<"slots", Host(s)>> \in raced

PeopleApart == \A s, t \in Slots :
    /\ s # t /\ Overlap(s, t) /\ slot[s].candidate # None /\ slot[t].candidate # None
    /\ PersonOf[slot[s].candidate] = PersonOf[slot[t].candidate]
    => <<"booking", PersonOf[slot[s].candidate]>> \in raced

FewDepartments == \A c \in Candidates :
    \/ Cardinality(RowsOf(PersonOf[c])) <= MaxDepartments
    \/ <<"adding", PersonOf[c]>> \in raced

\* "The same person can't hold two interviews at once, in any department": a person's
\* interviews, a host's times overlap, and a person is in more departments than allowed,
\* only if two of the person's own calls, or of the heads', overlapped.
DoubledOnlyWhenRaced == HostsApart /\ PeopleApart /\ FewDepartments
=============================================================================

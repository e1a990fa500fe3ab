-------------------------- MODULE AttendanceSheet --------------------------
(***************************************************************************)
(* The tab of one event in the Google spreadsheet                          *)
(* (registration-sheets.service.ts).  A job loads the registrations, pulls *)
(* the attendance cells a person has changed, loads again, and rewrites    *)
(* the tab if its table is not the one written last.  The interval and the *)
(* admin button both run jobs, one at a time, while the check-in desk      *)
(* marks people on the site and organizers edit the sheet.                 *)
(***************************************************************************)
EXTENDS Integers, FiniteSets

CONSTANTS
    Tickets,
    MaxMarks,       \* bound on changes made on the site
    MaxEdits,       \* bound on cells changed by a person
    MaxErrors,      \* bound on refused calls and restarts
    MaxLost,        \* bound on writes done whose answer is lost
    None

ASSUME SheetConstants ==
    /\ IsFiniteSet(Tickets)
    /\ {MaxMarks, MaxEdits, MaxErrors, MaxLost} \subseteq Nat

Marks == {"expected", "present"}
Tables == [Tickets -> Marks \cup {"absent"}]    \* "absent": not in the table
Jobs == {"tick", "button"}
ASSUME NoneIsNoTable == None \notin Tables

VARIABLES
    site,           \* EventRegistration rows and their `attended`
    sheet,          \* the cells of the tab
    written,        \* table the tab got last (its hash), or None
    attendance,     \* cells as last written or read, or None
    job,            \* jobs on `queue`: at most one is running
    hand,           \* history: cells a person changed since the tab was written
    spent           \* what the bounds count

processVars == <<written, attendance, job>>
vars == <<site, sheet, processVars, hand, spent>>

\* registrationTable.
Table == [t \in Tickets |-> IF site[t] \in Marks THEN site[t] ELSE "absent"]
Empty == [t \in Tickets |-> "absent"]
NewJob == [pc |-> "idle", rows |-> Empty, cells |-> Empty, todo |-> {}, changed |-> FALSE]

Init ==
    /\ site = Empty /\ sheet = Empty
    /\ written = None /\ attendance = None
    /\ job = [j \in Jobs |-> NewJob]
    /\ hand = {}
    /\ spent = [marks |-> 0, edits |-> 0, errors |-> 0, lost |-> 0]

Spend(kind, limit) == spent[kind] < limit /\ spent' = [spent EXCEPT ![kind] = @ + 1]
Set(j, next) == job' = [job EXCEPT ![j] = next]

(***************************************************************************)
(* People                                                                  *)
(***************************************************************************)
\* A registration is made, marked at the desk in either direction, or deleted.
MarkOnSite(t, mark) ==
    /\ Spend("marks", MaxMarks)
    /\ <<site[t], mark>> \in {<<"absent", "expected">>, <<"expected", "present">>,
                              <<"present", "expected">>, <<"expected", "deleted">>,
                              <<"present", "deleted">>}
    /\ site' = [site EXCEPT ![t] = mark]
    /\ UNCHANGED <<sheet, processVars, hand>>

EditSheet(t, mark) ==
    /\ Spend("edits", MaxEdits)
    /\ sheet[t] \notin {"absent", mark}
    /\ sheet' = [sheet EXCEPT ![t] = mark]
    /\ hand' = hand \cup {t}
    /\ UNCHANGED <<site, processVars>>

(***************************************************************************)
(* A job                                                                   *)
(***************************************************************************)
Idle == \A j \in Jobs : job[j].pc = "idle"

\* A slip of Load: the job does not wait for the one before it.
LoadAtOnce(j) ==
    /\ job[j].pc = "idle"
    /\ Set(j, [NewJob EXCEPT !.pc = IF attendance = None THEN "write" ELSE "pull", !.rows = Table])
    /\ UNCHANGED <<site, sheet, written, attendance, hand, spent>>

\* Attendance is pulled only for tabs this process has written.
Load(j) ==
    /\ Idle
    /\ Set(j, [NewJob EXCEPT !.pc = IF attendance = None THEN "write" ELSE "pull", !.rows = Table])
    /\ UNCHANGED <<site, sheet, written, attendance, hand, spent>>

\* The cells that are not what the tab was given: a person changed them.
Differ(j) == {t \in Tickets : sheet[t] \in Marks /\ sheet[t] # attendance[t]}

ReadCells(j) ==
    /\ job[j].pc = "pull"
    /\ Set(j, [job[j] EXCEPT !.pc = "apply", !.cells = sheet, !.todo = Differ(j)])
    /\ UNCHANGED <<site, sheet, written, attendance, hand, spent>>

\* One cell.  The row is compared as it was loaded, and only then updated; a row
\* deleted meanwhile fails the job.
Apply(j, t) ==
    LET mark == job[j].cells[t]
        flips == job[j].rows[t] \notin {"absent", mark}
        missing == flips /\ site[t] = "deleted"
    IN
    /\ job[j].pc = "apply" /\ t \in job[j].todo
    /\ IF missing THEN Set(j, NewJob)
       ELSE Set(j, [job[j] EXCEPT !.todo = @ \ {t}, !.changed = @ \/ flips])
    /\ site' = IF flips /\ ~ missing THEN [site EXCEPT ![t] = mark] ELSE site
    /\ attendance' = IF missing THEN attendance ELSE [attendance EXCEPT ![t] = mark]
    /\ UNCHANGED <<sheet, written, hand, spent>>

\* The rows are loaded again if anything changed.
Reload(j) ==
    /\ job[j].pc = "apply" /\ job[j].todo = {}
    /\ Set(j, [job[j] EXCEPT !.pc = "write", !.rows = IF job[j].changed THEN Table ELSE @])
    /\ UNCHANGED <<site, sheet, written, attendance, hand, spent>>

\* The tick leaves an unchanged tab alone, and an event nobody registered for.
Needed(j) == j = "button" \/ job[j].rows \notin {written, IF written = None THEN Empty ELSE written}

SkipWrite(j) ==
    /\ job[j].pc = "write" /\ ~ Needed(j)
    /\ Set(j, NewJob)
    /\ UNCHANGED <<site, sheet, written, attendance, hand, spent>>

\* batchUpdate wipes the columns and fills them.
BatchUpdate(j) ==
    /\ job[j].pc = "write" /\ Needed(j)
    /\ sheet' = job[j].rows
    /\ hand' = {}
    /\ \/ Set(j, [job[j] EXCEPT !.pc = "remember"]) /\ UNCHANGED spent
       \/ Set(j, NewJob) /\ Spend("lost", MaxLost)
    /\ UNCHANGED <<site, written, attendance>>

\* A slip of Remember: what the site says by now.
RememberSite(j) ==
    /\ job[j].pc = "remember"
    /\ written' = Table /\ attendance' = job[j].rows
    /\ Set(j, NewJob)
    /\ UNCHANGED <<site, sheet, hand, spent>>

Remember(j) ==
    /\ job[j].pc = "remember"
    /\ written' = job[j].rows /\ attendance' = job[j].rows
    /\ Set(j, NewJob)
    /\ UNCHANGED <<site, sheet, hand, spent>>

\* Google answers with an error, or not at all.
Refuse(j) ==
    /\ job[j].pc \in {"pull", "write"} /\ Spend("errors", MaxErrors)
    /\ Set(j, NewJob)
    /\ UNCHANGED <<site, sheet, written, attendance, hand>>

Restart ==
    /\ Spend("errors", MaxErrors)
    /\ written' = None /\ attendance' = None /\ job' = [j \in Jobs |-> NewJob]
    /\ UNCHANGED <<site, sheet, hand>>

Job(j) ==
    \/ Load(j) \/ ReadCells(j) \/ Reload(j) \/ SkipWrite(j) \/ BatchUpdate(j) \/ Remember(j)
    \/ Refuse(j) \/ \E t \in Tickets : Apply(j, t)

Next ==
    \/ \E t \in Tickets, mark \in Marks \cup {"deleted"} : MarkOnSite(t, mark)
    \/ \E t \in Tickets, mark \in Marks : EditSheet(t, mark)
    \/ \E j \in Jobs : Job(j)
    \/ Restart

Spec == Init /\ [][Next]_vars

(***************************************************************************)
(* Properties                                                              *)
(***************************************************************************)
TypeOK ==
    /\ site \in [Tickets -> Marks \cup {"absent", "deleted"}] /\ sheet \in Tables
    /\ written \in Tables \cup {None} /\ attendance \in Tables \cup {None}
    /\ job \in [Jobs -> [pc : {"idle", "pull", "apply", "write", "remember"}, rows : Tables,
                         cells : Tables, todo : SUBSET Tickets, changed : BOOLEAN]]
    /\ \A j \in Jobs : job[j].pc \in {"pull", "apply"} => attendance # None
    /\ hand \subseteq Tickets
    /\ spent \in [marks : 0 .. MaxMarks, edits : 0 .. MaxEdits, errors : 0 .. MaxErrors, lost : 0 .. MaxLost]

\* "A cell that differs was changed by a person, not by a scan made since": a job puts on the
\* site only a mark a person entered after the tab was last written.  The sync's own delay,
\* refusals and restarts never undo what the check-in desk did; a write whose answer is lost may.
UndoneOnlyByHand ==
    [][\A t \in Tickets : site'[t] # site[t] /\ spent'.marks = spent.marks
                            => t \in hand \/ spent.lost > 0]_vars

\* "Mirrors registrations into one Google spreadsheet ... changed tabs are rewritten every 30 s":
\* when no tick would pull or write anything, the tab shows what the site says.  Once a person
\* edits the sheet this is not so: the site may take back a pulled mark before the rows are
\* loaded again, and their table is then the one written last.  So it is with a lost answer, as its
\* cells look edited.
Mirrored ==
    spent.edits + spent.lost = 0 /\ Idle /\ attendance = sheet /\ written = Table => sheet = Table

\* The queue runs one job at a time.
OneJob == \A i, j \in Jobs : job[i].pc # "idle" /\ job[j].pc # "idle" => i = j

\* Unless an answer was lost, a cell that is not what the service remembers, what a job has read or
\* what it has just written was changed by a person since.
EditsAreByHand == spent.lost = 0 =>
    /\ attendance # None /\ (\A j \in Jobs : job[j].pc # "remember") =>
         \A t \in Tickets : sheet[t] # attendance[t] => t \in hand
    /\ \A j \in Jobs : job[j].pc = "apply" =>
         /\ job[j].todo \subseteq hand
         /\ \A t \in Tickets : sheet[t] # job[j].cells[t] => t \in hand
    /\ \A j \in Jobs : job[j].pc = "remember" =>
         \A t \in Tickets : sheet[t] # job[j].rows[t] => t \in hand

\* Where nobody edits the sheet, the cells remembered are the table written.
NothingToPull == spent.edits + spent.lost = 0 => hand = {} /\ written = attendance

\* What holds between the fields of the service, the site and the sheet, at each await of a job.
IInv == TypeOK /\ OneJob /\ EditsAreByHand /\ NothingToPull /\ Mirrored
=============================================================================

------------------------ MODULE AttendanceSheetProofs ------------------------
(***************************************************************************)
(* Proofs about the tab of an event (AttendanceSheet), for any finite set  *)
(* of tickets and any bounds.                                              *)
(***************************************************************************)
EXTENDS AttendanceSheet, TLAPS

\* What a job knows between two awaits.
JobState == [pc : {"idle", "pull", "apply", "write", "remember"}, rows : Tables, cells : Tables,
             todo : SUBSET Tickets, changed : BOOLEAN]

\* The field that holds one job is set, the others stay.
LEMMA SetJob ==
  ASSUME TypeOK, NEW j \in Jobs, NEW r \in JobState, Set(j, r)
  PROVE  /\ job' \in [Jobs -> JobState] /\ job'[j] = r
         /\ \A i \in Jobs \ {j} : job'[i] = job[i]
BY DEF Set, TypeOK, JobState

\* A job that has not begun.
LEMMA NewJobState == NewJob \in JobState
BY DEF NewJob, JobState, Empty, Tables

\* Cells and rows are tables.
LEMMA TablesChange ==
  ASSUME NEW f \in Tables, NEW t \in Tickets, NEW mark \in Marks \cup {"absent"}
  PROVE  [f EXCEPT ![t] = mark] \in Tables
BY DEF Tables

\* Every await of a job, every mark and every edit keeps the invariant.
LEMMA InvStep == IInv /\ [Next]_vars => IInv'
<1> SUFFICES ASSUME IInv, [Next]_vars PROVE IInv'
  OBVIOUS
<1>1. ASSUME NEW t \in Tickets, NEW mark \in Marks \cup {"deleted"}, MarkOnSite(t, mark)
      PROVE  IInv'
  <2>1. TypeOK'
    BY <1>1, SheetConstants DEF MarkOnSite, IInv, TypeOK, Spend, processVars
  <2>2. OneJob'
    BY <1>1 DEF MarkOnSite, IInv, OneJob, processVars
  <2>3. EditsAreByHand'
    BY <1>1 DEF MarkOnSite, IInv, EditsAreByHand, Spend, processVars
  <2>4. NothingToPull'
    BY <1>1 DEF MarkOnSite, IInv, NothingToPull, Spend, processVars
  <2>5. Mirrored'
    BY <1>1 DEF MarkOnSite, IInv, Mirrored, Spend, processVars, NothingToPull
  <2>6. QED
    BY <2>1, <2>2, <2>3, <2>4, <2>5 DEF IInv
<1>2. ASSUME NEW t \in Tickets, NEW mark \in Marks, EditSheet(t, mark)
      PROVE  IInv'
  <2>1. TypeOK'
    BY <1>2, SheetConstants DEF EditSheet, IInv, TypeOK, Spend, processVars, Tables
  <2>2. OneJob'
    BY <1>2 DEF EditSheet, IInv, OneJob, processVars
  <2>3. EditsAreByHand'
    BY <1>2 DEF EditSheet, IInv, EditsAreByHand, Spend, processVars
  <2>4. NothingToPull'
    BY <1>2 DEF EditSheet, IInv, NothingToPull, TypeOK, Spend
  <2>5. Mirrored'
    BY <1>2 DEF EditSheet, IInv, Mirrored, TypeOK, Spend
  <2>6. QED
    BY <2>1, <2>2, <2>3, <2>4, <2>5 DEF IInv
<1>3. ASSUME NEW j \in Jobs, Load(j)
      PROVE  IInv'
  <2>1. TypeOK'
    BY <1>3 DEF Load, IInv, TypeOK, Idle, Set, NewJob, Table, Marks, Tables, Jobs, Empty
  <2>2. OneJob'
    BY <1>3 DEF Load, OneJob, Idle, Set
  <2>3. EditsAreByHand'
    BY <1>3 DEF Load, IInv, EditsAreByHand, Idle, Set
  <2>4. Mirrored'
    BY <1>3 DEF Load, IInv, Mirrored, Table
  <2>5. NothingToPull'
    BY <1>3 DEF Load, Set, IInv, NothingToPull
  <2>6. QED
    BY <2>1, <2>2, <2>3, <2>4, <2>5 DEF IInv
<1>4. ASSUME NEW j \in Jobs, ReadCells(j)
      PROVE  IInv'
  <2>1. TypeOK'
    <3> DEFINE r == [job[j] EXCEPT !.pc = "apply", !.cells = sheet, !.todo = Differ(j)]
    <3>1. r \in JobState
      BY DEF IInv, TypeOK, JobState, Differ
    <3>2. Set(j, r)
      BY <1>4 DEF ReadCells
    <3> HIDE DEF r
    <3>3. job' \in [Jobs -> JobState] /\ job'[j] = r /\ \A i \in Jobs \ {j} : job'[i] = job[i]
      BY <3>1, <3>2, SetJob DEF IInv
    <3>4. QED
      BY <1>4, <3>3 DEF ReadCells, IInv, TypeOK, JobState
  <2>2. OneJob'
    BY <1>4 DEF ReadCells, IInv, OneJob, Set
  <2>3. EditsAreByHand'
    BY <1>4 DEF ReadCells, IInv, EditsAreByHand, Set, Differ, TypeOK, OneJob
  <2>4. Mirrored'
    BY <1>4 DEF ReadCells, Mirrored, Set, Idle
  <2>5. NothingToPull'
    BY <1>4 DEF ReadCells, Set, IInv, NothingToPull
  <2>6. QED
    BY <2>1, <2>2, <2>3, <2>4, <2>5 DEF IInv
<1>5. ASSUME NEW j \in Jobs, Reload(j)
      PROVE  IInv'
  <2>1. TypeOK'
    <3> DEFINE r == [job[j] EXCEPT !.pc = "write", !.rows = IF job[j].changed THEN Table ELSE @]
    <3>1. r \in JobState
      <4>1. Table \in Tables
        BY DEF Table, Tables, IInv, TypeOK
      <4>2. (IF job[j].changed THEN Table ELSE job[j].rows) \in Tables
        BY <4>1 DEF IInv, TypeOK
      <4>3. QED
        BY <4>2 DEF IInv, TypeOK, JobState
    <3>2. Set(j, r)
      BY <1>5 DEF Reload
    <3> HIDE DEF r
    <3>3. job' \in [Jobs -> JobState] /\ job'[j] = r /\ \A i \in Jobs \ {j} : job'[i] = job[i]
      BY <3>1, <3>2, SetJob DEF IInv
    <3>4. r.pc = "write"
      BY DEF r, IInv, TypeOK
    <3>5. QED
      BY <1>5, <3>3, <3>4 DEF Reload, IInv, TypeOK, JobState
  <2>2. OneJob'
    BY <1>5 DEF Reload, IInv, OneJob, Set
  <2>3. EditsAreByHand'
    BY <1>5 DEF Reload, IInv, EditsAreByHand, Set
  <2>4. Mirrored'
    BY <1>5 DEF Reload, Mirrored, Set, Idle
  <2>5. NothingToPull'
    BY <1>5 DEF Reload, Set, IInv, NothingToPull
  <2>6. QED
    BY <2>1, <2>2, <2>3, <2>4, <2>5 DEF IInv
<1>6. ASSUME NEW j \in Jobs, SkipWrite(j)
      PROVE  IInv'
  <2>1. TypeOK'
    BY <1>6 DEF SkipWrite, IInv, TypeOK, Set, NewJob, Tables, Empty
  <2>2. OneJob'
    BY <1>6 DEF SkipWrite, IInv, OneJob, Set
  <2>3. EditsAreByHand'
    BY <1>6 DEF SkipWrite, IInv, EditsAreByHand, Set, NewJob
  <2>4. Mirrored'
    BY <1>6 DEF SkipWrite, IInv, Mirrored, NothingToPull
  <2>5. NothingToPull'
    BY <1>6 DEF SkipWrite, Set, IInv, NothingToPull
  <2>6. QED
    BY <2>1, <2>2, <2>3, <2>4, <2>5 DEF IInv
<1>7. ASSUME NEW j \in Jobs, BatchUpdate(j)
      PROVE  IInv'
  <2>1. TypeOK'
    <3>1. PICK r \in {[job[j] EXCEPT !.pc = "remember"], NewJob} : Set(j, r)
      BY <1>7 DEF BatchUpdate
    <3>2. [job[j] EXCEPT !.pc = "remember"] \in JobState
      BY DEF IInv, TypeOK, JobState
    <3>3. r \in JobState /\ r.pc \notin {"pull", "apply"}
      <4>1. [job[j] EXCEPT !.pc = "remember"].pc = "remember" /\ NewJob.pc = "idle"
        BY DEF NewJob, IInv, TypeOK
      <4>2. QED
        BY <3>1, <3>2, <4>1, NewJobState
    <3>4. job' \in [Jobs -> JobState] /\ job'[j] = r /\ \A i \in Jobs \ {j} : job'[i] = job[i]
      BY <3>1, <3>3, SetJob DEF IInv
    <3>5. spent' \in [marks : 0 .. MaxMarks, edits : 0 .. MaxEdits, errors : 0 .. MaxErrors,
                       lost : 0 .. MaxLost]
      BY <1>7, SheetConstants DEF BatchUpdate, Spend, IInv, TypeOK
    <3>6. QED
      BY <1>7, <3>3, <3>4, <3>5 DEF BatchUpdate, IInv, TypeOK, JobState
  <2>2. OneJob'
    BY <1>7 DEF BatchUpdate, IInv, OneJob, TypeOK, Set
  <2>3. EditsAreByHand'
    BY <1>7 DEF BatchUpdate, IInv, EditsAreByHand, Set, Spend, TypeOK, OneJob
  <2>4. NothingToPull'
    BY <1>7 DEF BatchUpdate, IInv, NothingToPull, TypeOK, Spend, Jobs
  <2>5. Mirrored'
    BY <1>7 DEF BatchUpdate, IInv, Mirrored, TypeOK, Set, Spend, Idle, Jobs
  <2>6. QED
    BY <2>1, <2>2, <2>3, <2>4, <2>5 DEF IInv
<1>8. ASSUME NEW j \in Jobs, Remember(j)
      PROVE  IInv'
  <2>1. TypeOK'
    BY <1>8, NoneIsNoTable DEF Remember, IInv, TypeOK, Set, NewJob, Tables, Empty
  <2>2. OneJob'
    BY <1>8 DEF Remember, IInv, OneJob, Set
  <2>3. EditsAreByHand'
    BY <1>8 DEF Remember, IInv, EditsAreByHand, Set, NewJob
  <2>4. NothingToPull'
    BY <1>8 DEF Remember, IInv, NothingToPull
  <2>5. Mirrored'
    BY <1>8 DEF Remember, Mirrored
  <2>6. QED
    BY <2>1, <2>2, <2>3, <2>4, <2>5 DEF IInv
<1>9. ASSUME NEW j \in Jobs, Refuse(j)
      PROVE  IInv'
  <2>1. TypeOK'
    BY <1>9, SheetConstants DEF Refuse, IInv, TypeOK, Spend, Set, NewJob, EditsAreByHand,
       NothingToPull, Marks, Tables, Empty
  <2>2. OneJob'
    BY <1>9 DEF Refuse, IInv, OneJob, Set
  <2>3. EditsAreByHand'
    BY <1>9 DEF Refuse, IInv, EditsAreByHand, Spend, Set, NewJob
  <2>4. NothingToPull'
    BY <1>9 DEF Refuse, IInv, NothingToPull, Spend
  <2>5. Mirrored'
    BY <1>9 DEF Refuse, IInv, Mirrored, Spend, NothingToPull
  <2>6. QED
    BY <2>1, <2>2, <2>3, <2>4, <2>5 DEF IInv
<1>10. ASSUME NEW j \in Jobs, NEW t \in Tickets, Apply(j, t)
      PROVE  IInv'
  <2>1. TypeOK'
    <3> DEFINE mark == job[j].cells[t]
               flips == job[j].rows[t] \notin {"absent", mark}
               missing == flips /\ site[t] = "deleted"
               r == IF missing THEN NewJob
                    ELSE [job[j] EXCEPT !.todo = @ \ {t}, !.changed = @ \/ flips]
    <3>1. mark \in Marks \cup {"absent"} /\ attendance \in Tables
      BY <1>10 DEF Apply, IInv, TypeOK, Tables
    <3>2. r \in JobState
      <4>1. (job[j].todo \ {t}) \in SUBSET Tickets /\ (job[j].changed \/ flips) \in BOOLEAN
        BY DEF IInv, TypeOK
      <4>2. [[job[j] EXCEPT !.todo = @ \ {t}] EXCEPT !.changed = @ \/ flips] \in JobState
        BY <4>1 DEF IInv, TypeOK, JobState
      <4>3. [[job[j] EXCEPT !.todo = @ \ {t}] EXCEPT !.changed = @ \/ flips]
              = [job[j] EXCEPT !.todo = @ \ {t}, !.changed = @ \/ flips]
        BY DEF IInv, TypeOK, JobState
      <4>4. QED
        BY <4>2, <4>3, NewJobState
    <3>3. Set(j, r)
      BY <1>10 DEF Apply
    <3>4. r.pc \in {"idle", "apply"}
      BY <1>10 DEF Apply, NewJob, IInv, TypeOK
    <3>5. /\ site' \in [Tickets -> Marks \cup {"absent", "deleted"}]
          /\ attendance' \in Tables
      BY <1>10, <3>1, TablesChange DEF Apply, IInv, TypeOK
    <3> HIDE DEF r
    <3>6. job' \in [Jobs -> JobState] /\ job'[j] = r /\ \A i \in Jobs \ {j} : job'[i] = job[i]
      BY <3>2, <3>3, SetJob DEF IInv
    <3>7. attendance' # None
      BY <3>5, NoneIsNoTable
    <3>8. QED
      BY <1>10, <3>5, <3>6, <3>7 DEF Apply, IInv, TypeOK, JobState
  <2>2. OneJob'
    BY <1>10 DEF Apply, IInv, OneJob, TypeOK, Set
  <2>3. EditsAreByHand'
    <3> SUFFICES ASSUME spent.lost = 0 PROVE EditsAreByHand'
      BY <1>10 DEF Apply, EditsAreByHand
    <3>1. /\ job[j].pc = "apply" /\ job[j].todo \subseteq hand
          /\ \A u \in Tickets : sheet[u] # job[j].cells[u] => u \in hand
          /\ \A i \in Jobs \ {j} : job[i].pc = "idle"
      BY <1>10 DEF Apply, IInv, EditsAreByHand, OneJob
    <3>2. \A u \in Tickets : sheet[u] # attendance[u] => u \in hand
      BY <1>10, <3>1 DEF Apply, IInv, EditsAreByHand, TypeOK
    <3>3. /\ \A i \in Jobs \ {j} : job'[i].pc = "idle"
          /\ \/ job'[j].pc = "idle"
             \/ job'[j].pc = "apply" /\ job'[j].todo \subseteq job[j].todo /\ job'[j].cells = job[j].cells
      <4>1. CASE job' = [job EXCEPT ![j] = NewJob]
        BY <3>1, <4>1 DEF NewJob, IInv, TypeOK
      <4>2. CASE \E x \in BOOLEAN :
                   job' = [job EXCEPT ![j] = [job[j] EXCEPT !.todo = @ \ {t}, !.changed = x]]
        <5>1. PICK x \in BOOLEAN :
                job' = [job EXCEPT ![j] = [job[j] EXCEPT !.todo = @ \ {t}, !.changed = x]]
          BY <4>2
        <5>2. job'[j] = [job[j] EXCEPT !.todo = @ \ {t}, !.changed = x]
          BY <5>1 DEF IInv, TypeOK
        <5>3. job'[j].pc = job[j].pc /\ job'[j].todo = job[j].todo \ {t} /\ job'[j].cells = job[j].cells
          BY <5>2 DEF IInv, TypeOK
        <5>4. QED
          BY <3>1, <5>1, <5>3 DEF IInv, TypeOK
      <4>3. QED
        <5> DEFINE mark == job[j].cells[t]
                   flips == job[j].rows[t] \notin {"absent", mark}
        <5>1. (job[j].changed \/ flips) \in BOOLEAN
          BY DEF IInv, TypeOK
        <5>2. \/ job' = [job EXCEPT ![j] = NewJob]
              \/ job' = [job EXCEPT ![j] = [job[j] EXCEPT !.todo = @ \ {t}, !.changed = @ \/ flips]]
          BY <1>10 DEF Apply, Set
        <5>3. QED
          BY <4>1, <4>2, <5>1, <5>2
    <3>4. \A u \in Tickets : attendance'[u] = attendance[u] \/ u = t
      BY <1>10 DEF Apply, IInv, TypeOK, Tables
    <3>5. t \in hand /\ sheet' = sheet /\ hand' = hand
      BY <1>10, <3>1 DEF Apply
    <3>6. QED
      BY <3>1, <3>2, <3>3, <3>4, <3>5 DEF EditsAreByHand
  <2>4. NothingToPull'
    BY <1>10 DEF Apply, IInv, NothingToPull, TypeOK, EditsAreByHand
  <2>5. Mirrored'
    <3>1. spent.edits + spent.lost = 0 => spent.lost = 0
      BY DEF IInv, TypeOK
    <3>2. spent.edits + spent.lost # 0
      BY <1>10, <3>1 DEF Apply, IInv, EditsAreByHand, NothingToPull
    <3>3. QED
      BY <1>10, <3>2 DEF Apply, Mirrored
  <2>6. QED
    BY <2>1, <2>2, <2>3, <2>4, <2>5 DEF IInv
<1>11. CASE Restart
  <2>1. TypeOK'
    BY <1>11, SheetConstants DEF Restart, IInv, TypeOK, Spend, Jobs, NewJob, Tables, Empty
  <2>2. OneJob'
    BY <1>11 DEF Restart, OneJob, NewJob
  <2>3. EditsAreByHand'
    BY <1>11 DEF Restart, EditsAreByHand, NewJob
  <2>4. NothingToPull'
    BY <1>11 DEF Restart, IInv, NothingToPull, Spend
  <2>5. Mirrored'
    BY <1>11 DEF Restart, Mirrored
  <2>6. QED
    BY <2>1, <2>2, <2>3, <2>4, <2>5 DEF IInv
<1>12. CASE UNCHANGED vars
  BY <1>12 DEF vars, IInv, processVars, TypeOK, OneJob, EditsAreByHand, NothingToPull, Mirrored,
     Marks, Tables, Jobs, Idle, Table
<1>13. QED
  BY <1>1, <1>2, <1>3, <1>4, <1>5, <1>6, <1>7, <1>8, <1>9, <1>10, <1>11, <1>12 DEF Next, Marks,
     Jobs, Job, Tables

\* The table and what the service remembers are well typed, one job runs at a time, and a cell that
\* differs was changed by a person or left by a lost answer.
THEOREM SheetInvariant == Spec => []IInv
<1>1. Init => IInv
  BY SheetConstants, NoneIsNoTable
     DEF Init, IInv, TypeOK, OneJob, EditsAreByHand, NothingToPull, Mirrored, Empty, NewJob, Tables, Marks,
         Idle, Table
<1>2. QED
  BY <1>1, InvStep, PTL DEF Spec

\* A job changes on the site only what a person changed in the sheet: refusals, restarts and the
\* sync's delay never undo the check-in desk.
THEOREM DeskIsUndoneByHand == Spec => UndoneOnlyByHand
<1> DEFINE Undone == \E t \in Tickets : site'[t] # site[t] /\ t \notin hand
<1>1. IInv /\ [Next]_vars /\ spent'.marks = spent.marks /\ spent.lost = 0 => ~ Undone
  <2> SUFFICES ASSUME IInv, [Next]_vars, spent'.marks = spent.marks, spent.lost = 0,
                      NEW t \in Tickets, site'[t] # site[t]
               PROVE  t \in hand
    OBVIOUS
  <2>1. ASSUME NEW u \in Tickets, NEW mark \in Marks \cup {"deleted"}, MarkOnSite(u, mark)
        PROVE  FALSE
    BY <2>1 DEF MarkOnSite, Spend, IInv, TypeOK
  <2>2. ASSUME NEW j \in Jobs, NEW u \in Tickets, Apply(j, u)
        PROVE  t \in hand
    BY <2>2 DEF Apply, IInv, TypeOK, EditsAreByHand
  <2>3. QED
    BY <2>1, <2>2 DEF Next, Job, vars, EditSheet, Load, ReadCells, Reload, SkipWrite, BatchUpdate,
                      Remember, Refuse, Restart
<1>2. IInv /\ [Next]_vars =>
        [\A t \in Tickets : site'[t] # site[t] /\ spent'.marks = spent.marks
                              => t \in hand \/ spent.lost > 0]_vars
  BY <1>1 DEF IInv, TypeOK
<1>3. QED
  BY <1>2, SheetInvariant, PTL DEF Spec, UndoneOnlyByHand
=============================================================================

-------------------------- MODULE UploadCollector --------------------------
(***************************************************************************)
(* The life of a file a visitor uploads (public-upload.service.ts): forms  *)
(* check that it exists and later insert the row that refers to it, the    *)
(* collector deletes it once nothing has referred to it for a day.  A pass *)
(* reads the upload, then the references, then acts.                       *)
(*                                                                         *)
(* A form is a site registration or any other form with a receipt or a     *)
(* photo: a registration made on the site refers to the file from its      *)
(* PendingWebRegistration first, which lapses, and is confirmed in the     *)
(* bot.  One upload; the daily quota and the rewriting of images are left  *)
(* out.                                                                    *)
(***************************************************************************)
EXTENDS Naturals

CONSTANTS
    Forms,
    OnSite,         \* the forms among them that are confirmed in the bot
    Grace,          \* UNREFERENCED_GRACE_MS
    PendingLife,    \* how long a PendingWebRegistration is valid
    MaxTime,        \* bound
    None

VARIABLES
    file,           \* the file exists
    upload,         \* its PublicUpload row: there, and unreferencedSince
    form,           \* each form: where it is and since when it is pending
    pass,           \* the collector's pass: the row it read, whether anything referred to the
                    \* file, and the forms it could have seen
    used,           \* history: when the collector last noted the file in use, or it was uploaded
    deleted,        \* history: when the collector deleted the file
    hurried,        \* history: forms that the deletion overtook, see Late
    now

vars == <<file, upload, form, pass, used, deleted, hurried, now>>

NoPass == [pc |-> "none", since |-> None, found |-> FALSE, looked |-> {}]

Init ==
    /\ file = FALSE
    /\ upload = [there |-> FALSE, since |-> None]
    /\ form = [f \in Forms |-> [pc |-> "idle", at |-> 0]]
    /\ pass = NoPass
    /\ used = 0 /\ deleted = None /\ hurried = {} /\ now = 0

\* uploadPublic: the file is written, then its row.
WriteFile ==
    /\ ~ file /\ ~ upload.there /\ deleted = None
    /\ file' = TRUE
    /\ UNCHANGED <<upload, form, pass, used, deleted, hurried, now>>

Record ==
    /\ file /\ ~ upload.there /\ deleted = None
    /\ upload' = [there |-> TRUE, since |-> now]
    /\ used' = now
    /\ UNCHANGED <<file, form, pass, deleted, hurried, now>>

(***************************************************************************)
(* Forms                                                                   *)
(***************************************************************************)
\* ownUploadExists, before anything is inserted.
CheckFile(f) ==
    /\ form[f].pc = "idle" /\ upload.there
    /\ form' = [form EXCEPT ![f].pc = IF file THEN "checked" ELSE "refused"]
    /\ UNCHANGED <<file, upload, pass, used, deleted, hurried, now>>

Insert(f) ==
    /\ form[f].pc = "checked"
    /\ form' = [form EXCEPT ![f] = [pc |-> IF f \in OnSite THEN "pending" ELSE "row", at |-> now]]
    /\ UNCHANGED <<file, upload, pass, used, deleted, hurried, now>>

Valid(f) == form[f].at + PendingLife > now

\* /start reg_: the pending registration is read, the file is not looked at again.
ReadPending(f) ==
    /\ form[f].pc = "pending" /\ Valid(f)
    /\ form' = [form EXCEPT ![f].pc = "confirming"]
    /\ UNCHANGED <<file, upload, pass, used, deleted, hurried, now>>

\* Registered with the receipt and marked completed, completed because the person is registered
\* already, or refused and pending as before.
Confirm(f) ==
    /\ form[f].pc = "confirming"
    /\ \E pc \in {"row", "gone", "pending"} : form' = [form EXCEPT ![f].pc = pc]
    /\ UNCHANGED <<file, upload, pass, used, deleted, hurried, now>>

\* The registration, order or candidate is deleted or gets another picture.
Drop(f) ==
    /\ form[f].pc = "row"
    /\ form' = [form EXCEPT ![f].pc = "gone"]
    /\ UNCHANGED <<file, upload, pass, used, deleted, hurried, now>>

(***************************************************************************)
(* The collector                                                           *)
(***************************************************************************)
\* A slip of RefersTo: registrations waiting for the bot are not looked at.
RowRefersTo(f) == form[f].pc = "row"

\* A row, or a pending registration not lapsed and not completed.
RefersTo(f) == form[f].pc = "row" \/ (form[f].pc \in {"pending", "confirming"} /\ Valid(f))

StartPass ==
    /\ pass.pc = "none" /\ upload.there
    /\ pass' = [pc |-> "read", since |-> upload.since, found |-> FALSE, looked |-> {}]
    /\ UNCHANGED <<file, upload, form, used, deleted, hurried, now>>

FindReferences ==
    /\ pass.pc = "read"
    /\ pass' = [pass EXCEPT !.pc = "act", !.found = \E f \in Forms : RefersTo(f),
                            !.looked = {f \in Forms : form[f].pc \in {"pending", "row"}}]
    /\ UNCHANGED <<file, upload, form, used, deleted, hurried, now>>

MarkUsed ==
    /\ pass.pc = "act" /\ pass.found
    /\ upload' = [upload EXCEPT !.since = None]
    /\ used' = IF file THEN now ELSE used
    /\ pass' = NoPass
    /\ UNCHANGED <<file, form, deleted, hurried, now>>

MarkUnused ==
    /\ pass.pc = "act" /\ ~ pass.found /\ pass.since = None
    /\ upload' = [upload EXCEPT !.since = now]
    /\ pass' = NoPass
    /\ UNCHANGED <<file, form, used, deleted, hurried, now>>

Wait ==
    /\ pass.pc = "act" /\ ~ pass.found /\ pass.since # None /\ now < pass.since + Grace
    /\ pass' = NoPass
    /\ UNCHANGED <<file, upload, form, used, deleted, hurried, now>>

\* Overtaken by a deletion: past the check of the file or being confirmed, however long ago, with
\* its row still to come; or with a row that came after this pass had looked.
Late(f) ==
    \/ form[f].pc \in {"checked", "confirming"}
    \/ form[f].pc \in {"pending", "row"} /\ f \notin pass.looked

DeleteFile ==
    /\ pass.pc = "act" /\ ~ pass.found /\ pass.since # None /\ now >= pass.since + Grace
    /\ file' = FALSE
    /\ pass' = [pass EXCEPT !.pc = "row"]
    /\ deleted' = IF file THEN now ELSE deleted
    /\ hurried' = hurried \cup {f \in Forms : Late(f)}
    /\ UNCHANGED <<upload, form, used, now>>

DeleteRow ==
    /\ pass.pc = "row"
    /\ upload' = [upload EXCEPT !.there = FALSE]
    /\ pass' = NoPass
    /\ UNCHANGED <<file, form, used, deleted, hurried, now>>

\* A restart or a failed query ends the pass; the next one finds the file gone already.
StopPass ==
    /\ pass.pc # "none"
    /\ pass' = NoPass
    /\ UNCHANGED <<file, upload, form, used, deleted, hurried, now>>

\* A pass takes no time worth counting against a day, nor does a form.
PassTime ==
    /\ now < MaxTime /\ pass.pc = "none"
    /\ now' = now + 1
    /\ UNCHANGED <<file, upload, form, pass, used, deleted, hurried>>

Next ==
    \/ WriteFile \/ Record
    \/ \E f \in Forms : CheckFile(f) \/ Insert(f) \/ ReadPending(f) \/ Confirm(f) \/ Drop(f)
    \/ StartPass \/ FindReferences \/ MarkUsed \/ MarkUnused \/ Wait \/ DeleteFile \/ DeleteRow
    \/ StopPass \/ PassTime

Spec == Init /\ [][Next]_vars

\* A registration, order or candidate keeps its file, unless the deletion overtook its form: the
\* form had passed its check of the file, or was being confirmed in the bot, and inserted its row
\* after the file was deleted, or inserted it after the deleting pass had looked.  A form whose
\* row or valid pending registration that pass could have seen is never among them.  And no file
\* is deleted within a day of its upload or of a pass that found it in use.
UsedFilesStay ==
    /\ \A f \in Forms : form[f].pc = "row" /\ ~ file => f \in hurried
    /\ deleted # None => deleted >= used + Grace

Time == 0..MaxTime

TypeOK ==
    /\ file \in BOOLEAN
    /\ upload \in [there : BOOLEAN, since : Time \cup {None}]
    /\ form \in [Forms -> [pc : {"idle", "refused", "checked", "pending", "confirming", "row", "gone"},
                           at : Time]]
    /\ pass \in [pc : {"none", "read", "act", "row"}, since : Time \cup {None}, found : BOOLEAN,
                 looked : SUBSET Forms]
    /\ used \in Time /\ deleted \in Time \cup {None} /\ hurried \subseteq Forms /\ now \in Time

\* Whoever may still refer to a deleted file was in a hurry.
GoneFormsHurried ==
    \A f \in Forms : ~ file =>
        /\ form[f].pc \in {"checked", "confirming", "row"} => f \in hurried
        /\ form[f].pc = "pending" /\ Valid(f) => f \in hurried

\* A pass that found nothing saw only registrations that have lapsed.
LooksHold ==
    pass.pc = "act" /\ ~ pass.found =>
        \A f \in pass.looked : form[f].pc = "pending" /\ ~ Valid(f)

\* What a pass read of the upload still stands.
PassKnowsItsRow == pass.pc \in {"read", "act"} => upload.there /\ pass.since = upload.since

\* The grace is counted from the last use or later.
CountedFromUse == upload.there /\ upload.since # None => used <= upload.since

UsedInThePast == used <= now

DeletedAfterGrace == deleted # None => ~ file /\ deleted >= used + Grace

IInv ==
    /\ TypeOK /\ GoneFormsHurried /\ LooksHold /\ PassKnowsItsRow
    /\ CountedFromUse /\ UsedInThePast /\ DeletedAfterGrace
=============================================================================

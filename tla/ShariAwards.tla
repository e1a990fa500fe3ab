---------------------------- MODULE ShariAwards ----------------------------
(***************************************************************************)
(* One shara and who gets its places (shari.service.ts): starostas and     *)
(* admins save the list of names, the teacher changes the number of places *)
(* or deletes the shara.  Each call reads, checks, then writes; every      *)
(* award is a certificate whose QR code holds the award's id.  Who may do  *)
(* what and the switches that close editing are left out.                  *)
(***************************************************************************)
EXTENDS Integers, Sequences

CONSTANTS
    Saves,          \* setAwards calls
    NamesOf,        \* [Saves -> Seq(names)], "" where nobody is named
    Edits,          \* updateShara calls
    QuantityOf,     \* [Edits -> Nat]
    Deletes,        \* deleteShara calls
    Quantity        \* at first

VARIABLES
    shara,          \* the Shara row: there, and how many places
    awards,         \* ShariAward rows: the place, the name, and the save whose id it carries
    save,           \* each save: where it is and the awards it read
    edit,           \* each teacher's call: where it is and the last place filled that it read
    raced           \* history: a save and a teacher's call overlapped

vars == <<shara, awards, save, edit, raced>>

Init ==
    /\ shara = [there |-> TRUE, quantity |-> Quantity]
    /\ awards = {}
    /\ save = [s \in Saves |-> [pc |-> "idle", seen |-> {}]]
    /\ edit = [e \in Edits \cup Deletes |-> [pc |-> "idle", last |-> -1]]
    /\ raced = FALSE

Slots(s) == 0..(Len(NamesOf[s]) - 1)
Wants(s, slot, name) == slot \in Slots(s) /\ NamesOf[s][slot + 1] = name

ReadShara(s) ==
    /\ save[s].pc = "idle" /\ shara.there
    /\ save' = [save EXCEPT ![s] = [pc |-> IF Len(NamesOf[s]) > shara.quantity THEN "refused" ELSE "read",
                                    seen |-> awards]]
    /\ raced' = (raced \/ \E e \in DOMAIN edit : edit[e].pc = "read")
    /\ UNCHANGED <<shara, awards, edit>>

\* diffSlots: a place whose name stays keeps its award.
Removed(s) == {a \in save[s].seen : ~ Wants(s, a.slot, a.name)}
Created(s) ==
    {[slot |-> i, name |-> NamesOf[s][i + 1], by |-> s] :
       i \in {i \in Slots(s) : /\ NamesOf[s][i + 1] # ""
                               /\ \A a \in save[s].seen : a.slot # i \/ ~ Wants(s, i, a.name)}}

\* One transaction: a place filled meanwhile, or a shara gone, undoes it whole.
Fits(s) ==
    /\ \A a \in awards \ Removed(s), c \in Created(s) : a.slot # c.slot
    /\ Created(s) # {} => shara.there

\* A slip of SaveAwards: the whole list is written anew.
SaveAllAwards(s) ==
    /\ save[s].pc = "read"
    /\ awards' = IF shara.there
                 THEN {[slot |-> i, name |-> NamesOf[s][i + 1], by |-> s] :
                         i \in {i \in Slots(s) : NamesOf[s][i + 1] # ""}}
                 ELSE awards
    /\ save' = [save EXCEPT ![s].pc = "done"]
    /\ UNCHANGED <<shara, edit, raced>>

SaveAwards(s) ==
    /\ save[s].pc = "read"
    /\ awards' = IF Fits(s) THEN (awards \ Removed(s)) \cup Created(s) ELSE awards
    /\ save' = [save EXCEPT ![s].pc = IF Fits(s) THEN "done" ELSE "refused"]
    /\ UNCHANGED <<shara, edit, raced>>

\* ownShara
ReadOwn(e) ==
    /\ edit[e].pc = "idle" /\ shara.there
    /\ \E last \in {-1} \cup {a.slot : a \in awards} :
         /\ \A a \in awards : a.slot <= last
         /\ edit' = [edit EXCEPT ![e] = [pc |-> "read", last |-> last]]
    /\ raced' = (raced \/ \E s \in Saves : save[s].pc = "read")
    /\ UNCHANGED <<shara, awards, save>>

Finish(e) == edit' = [edit EXCEPT ![e].pc = "done"]

UpdateShara(e) ==
    /\ edit[e].pc = "read"
    /\ shara' = IF QuantityOf[e] > edit[e].last /\ shara.there
                THEN [shara EXCEPT !.quantity = QuantityOf[e]] ELSE shara
    /\ Finish(e)
    /\ UNCHANGED <<awards, save, raced>>

\* The cascade takes the awards entered since the check along.
DeleteShara(e) ==
    /\ edit[e].pc = "read"
    /\ IF edit[e].last < 0
       THEN shara' = [shara EXCEPT !.there = FALSE] /\ awards' = {}
       ELSE UNCHANGED <<shara, awards>>
    /\ Finish(e)
    /\ UNCHANGED <<save, raced>>

Next ==
    \/ \E s \in Saves : ReadShara(s) \/ SaveAwards(s)
    \/ \E e \in Edits \cup Deletes : ReadOwn(e)
    \/ \E e \in Edits : UpdateShara(e)
    \/ \E e \in Deletes : DeleteShara(e)

Spec == Init /\ [][Next]_vars

Saved(s) == save[s].pc = "read" /\ save'[s].pc = "done"

\* A certificate checks out until a save names somebody else for its place, or nobody; and as
\* long as no save overlaps a call of the teacher, no certificate is issued beyond the places
\* there are and none is deleted with its shara.
CertificatesStand ==
    [][/\ \A a \in awards \ awards' :
            \/ \E s \in Saves : Saved(s) /\ ~ Wants(s, a.slot, a.name)
            \/ raced /\ ~ shara'.there
       /\ ~ raced' => \A a \in awards' : a.slot < shara'.quantity]_vars

TypeOK ==
    /\ shara \in [there : BOOLEAN, quantity : Nat]
    /\ \A a \in awards : a.slot \in Nat
    /\ \A s \in Saves : save[s].pc \in {"idle", "read", "refused", "done"}
    /\ \A e \in Edits \cup Deletes :
         edit[e].pc \in {"idle", "read", "done"} /\ edit[e].last \in Nat \cup {-1}
    /\ DOMAIN save = Saves /\ DOMAIN edit = Edits \cup Deletes
    /\ raced \in BOOLEAN

\* As long as saves and the teacher keep apart, what each read of the other's side stands.
ReadsStand ==
    ~ raced =>
        /\ \A s \in Saves, e \in Edits \cup Deletes : save[s].pc # "read" \/ edit[e].pc # "read"
        /\ \A s \in Saves : save[s].pc = "read" => Len(NamesOf[s]) <= shara.quantity
        /\ \A e \in Edits \cup Deletes : edit[e].pc = "read" => \A a \in awards : a.slot <= edit[e].last
        /\ \A a \in awards : a.slot < shara.quantity

IInv == TypeOK /\ ReadsStand
=============================================================================

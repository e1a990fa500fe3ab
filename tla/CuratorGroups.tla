--------------------------- MODULE CuratorGroups ---------------------------
(***************************************************************************)
(* Groups of curators and the products only they see                       *)
(* (merch-admin.service.ts): a product without groups is everybody's       *)
(* (productAccess), so deleting a group must never take the last group     *)
(* from a product.  Deleting locks the group's row, counts, then deletes   *)
(* with a cascade; a save checks its groups first and writes them in a     *)
(* transaction whose foreign keys wait for that lock.                      *)
(***************************************************************************)
EXTENDS FiniteSets

CONSTANTS
    Groups, Products,
    Deletions, Saves,   \* the calls
    None

VARIABLES
    groups,         \* MerchGroup rows
    groupsOf,       \* MerchProductGroup rows
    deletion,       \* each deleteGroup: where it is and the group
    save,           \* each updateProduct: where it is, the product and its new groups
    curated,        \* history: products whose last save gave them groups
    raced           \* history: two deletions were in their transactions together

vars == <<groups, groupsOf, deletion, save, curated, raced>>

Init ==
    /\ groups = Groups
    /\ groupsOf = [p \in Products |-> {}]
    /\ deletion = [d \in Deletions |-> [pc |-> "idle", group |-> None]]
    /\ save = [s \in Saves |-> [pc |-> "idle", product |-> None, groups |-> {}]]
    /\ curated = {} /\ raced = FALSE

InTx(d) == deletion[d].pc \in {"locked", "counted"}
Locked(g) == \E d \in Deletions : InTx(d) /\ deletion[d].group = g

(***************************************************************************)
(* deleteGroup                                                             *)
(***************************************************************************)
LockGroup(d, g) ==
    /\ deletion[d].pc = "idle" /\ g \in groups /\ ~ Locked(g)
    /\ deletion' = [deletion EXCEPT ![d] = [pc |-> "locked", group |-> g]]
    /\ raced' = (raced \/ \E e \in Deletions : InTx(e))
    /\ UNCHANGED <<groups, groupsOf, save, curated>>

\* Refused while some product has this group alone.
CountOnly(d) ==
    LET only == {p \in Products : groupsOf[p] = {deletion[d].group}} IN
    /\ deletion[d].pc = "locked"
    /\ deletion' = [deletion EXCEPT ![d].pc = IF only = {} THEN "counted" ELSE "refused"]
    /\ UNCHANGED <<groups, groupsOf, save, curated, raced>>

DeleteGroup(d) ==
    LET g == deletion[d].group IN
    /\ deletion[d].pc = "counted"
    /\ groups' = groups \ {g}
    /\ groupsOf' = [p \in Products |-> groupsOf[p] \ {g}]
    /\ deletion' = [deletion EXCEPT ![d].pc = "done"]
    /\ UNCHANGED <<save, curated, raced>>

(***************************************************************************)
(* A product save                                                          *)
(***************************************************************************)
\* liveReferences: refused, never dropped.
CheckGroups(s, p, gs) ==
    /\ save[s].pc = "idle"
    /\ save' = [save EXCEPT ![s] = [pc |-> IF gs \subseteq groups THEN "checked" ELSE "refused",
                                    product |-> p, groups |-> gs]]
    /\ UNCHANGED <<groups, groupsOf, deletion, curated, raced>>

\* A slip of WriteGroups: groups deleted since the check are left out.
WriteLiveGroups(s) ==
    LET p == save[s].product IN
    /\ save[s].pc = "checked" /\ \A g \in save[s].groups : ~ Locked(g)
    /\ groupsOf' = [groupsOf EXCEPT ![p] = save[s].groups \cap groups]
    /\ curated' = IF save[s].groups = {} THEN curated \ {p} ELSE curated \cup {p}
    /\ save' = [save EXCEPT ![s].pc = "done"]
    /\ UNCHANGED <<groups, deletion, raced>>

\* The rows are replaced in a transaction; one that names a group being deleted waits, then fails.
WriteGroups(s) ==
    LET p == save[s].product IN
    /\ save[s].pc = "checked" /\ \A g \in save[s].groups : ~ Locked(g)
    /\ IF save[s].groups \subseteq groups
       THEN /\ groupsOf' = [groupsOf EXCEPT ![p] = save[s].groups]
            /\ curated' = IF save[s].groups = {} THEN curated \ {p} ELSE curated \cup {p}
       ELSE UNCHANGED <<groupsOf, curated>>
    /\ save' = [save EXCEPT ![s].pc = "done"]
    /\ UNCHANGED <<groups, deletion, raced>>

Next ==
    \/ \E d \in Deletions : \/ \E g \in groups : LockGroup(d, g)
                            \/ CountOnly(d) \/ DeleteGroup(d)
    \/ \E s \in Saves : \/ \E p \in Products, gs \in SUBSET Groups : CheckGroups(s, p, gs)
                        \/ WriteGroups(s)

Spec == Init /\ [][Next]_vars

\* productAccess: nobody's group means everybody's product.
Public(p) == groupsOf[p] = {}

\* A product its editors gave to curators stays theirs, whatever groups are deleted while it
\* is saved, until a save takes the groups off; only two deletions at once may open it.
CuratorsOnly == \A p \in curated : Public(p) => raced

TypeOK ==
    /\ groups \subseteq Groups
    /\ groupsOf \in [Products -> SUBSET Groups]
    /\ deletion \in [Deletions -> [pc : {"idle", "locked", "counted", "refused", "done"},
                                   group : Groups \cup {None}]]
    /\ save \in [Saves -> [pc : {"idle", "checked", "refused", "done"}, product : Products \cup {None},
                           groups : SUBSET Groups]]
    /\ \A s \in Saves : save[s].pc = "checked" => save[s].product \in Products
    /\ curated \subseteq Products
    /\ raced \in BOOLEAN

\* The foreign keys hold.
GroupsExist == \A p \in Products : groupsOf[p] \subseteq groups

\* What raced means.
DeletionsApart == \A d, e \in Deletions : InTx(d) /\ InTx(e) => d = e \/ raced

\* A group counted as nobody's last one stays that until it is deleted.
CountsHold ==
    \A d \in Deletions : deletion[d].pc = "counted" =>
        \A p \in Products : groupsOf[p] # {deletion[d].group} \/ raced

IInv == TypeOK /\ GroupsExist /\ DeletionsApart /\ CountsHold /\ CuratorsOnly
=============================================================================

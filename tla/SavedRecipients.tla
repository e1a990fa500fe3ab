-------------------------- MODULE SavedRecipients --------------------------
(***************************************************************************)
(* The saved recipients of one merch customer and which of them is the     *)
(* default (saveRecipient, deleteRecipient and defaultRecipient of         *)
(* merch-catalog.service.ts, and the same saveRecipient inside an order).  *)
(* Each call is a READ COMMITTED transaction of several statements:        *)
(* adding takes the customer's row lock first, deleting and choosing only  *)
(* lock the recipients they write.  The state holds what is committed.     *)
(***************************************************************************)
EXTENDS Naturals, FiniteSets

CONSTANTS
    Adds, Deletes, Defaults,     \* the calls
    MaxRecipients               \* MAX_RECIPIENTS

Calls == Adds \cup Deletes \cup Defaults

VARIABLES
    rows,           \* MerchRecipient ids, in the order of creation
    chosen,         \* those with isDefault
    next,           \* the next id
    tx,             \* each call: where it is, the recipient it is about, what it read, and the
                    \* rows it holds locks on
    raced           \* history: a deletion overlapped another call

vars == <<rows, chosen, next, tx, raced>>

NoTx == [pc |-> "idle", id |-> 0, first |-> FALSE, was |-> FALSE, oldest |-> 0, holds |-> {}]

Init ==
    /\ rows = {} /\ chosen = {} /\ next = 1
    /\ tx = [c \in Calls |-> NoTx]
    /\ raced = FALSE

Open(c) == tx[c].pc \notin {"idle", "done"}
Held(c) == UNION {tx[d].holds : d \in Calls \ {c}}

Begin(c, new) ==
    /\ tx[c].pc = "idle"
    /\ tx' = [tx EXCEPT ![c] = new]
    /\ raced' = (raced \/ \E d \in Calls \ {c} : Open(d) /\ {c, d} \cap Deletes # {})

End(c) == tx' = [tx EXCEPT ![c].pc = "done", ![c].holds = {}]

\* A slip of Count: without ensureCustomer the count is anybody's.
CountUnlocked(a) ==
    /\ Begin(a, [NoTx EXCEPT !.pc = IF Cardinality(rows) < MaxRecipients THEN "counted" ELSE "done",
                             !.first = (rows = {})])
    /\ UNCHANGED <<rows, chosen, next>>

\* Under the customer's row lock; over the cap nothing is saved.
Count(a) ==
    /\ \A b \in Adds \ {a} : ~ Open(b)
    /\ Begin(a, [NoTx EXCEPT !.pc = IF Cardinality(rows) < MaxRecipients THEN "counted" ELSE "done",
                             !.first = (rows = {})])
    /\ UNCHANGED <<rows, chosen, next>>

\* A new recipient, the default if it is the first one.
Save(a) ==
    /\ tx[a].pc = "counted"
    /\ rows' = rows \cup {next} /\ next' = next + 1
    /\ chosen' = IF tx[a].first THEN chosen \cup {next} ELSE chosen
    /\ End(a)
    /\ UNCHANGED raced

\* The upsert finds the same name and phone.
SaveAgain(a) ==
    /\ tx[a].pc = "counted" /\ rows # {}
    /\ End(a)
    /\ UNCHANGED <<rows, chosen, next, raced>>

ReadRow(d, id) ==
    /\ id \in rows
    /\ Begin(d, [NoTx EXCEPT !.pc = "read", !.id = id, !.was = (id \in chosen)])
    /\ UNCHANGED <<rows, chosen, next>>

\* Without the default there is nothing more to do.
DeleteRow(d) ==
    LET id == tx[d].id IN
    /\ tx[d].pc = "read" /\ id \notin Held(d)
    /\ IF tx[d].was
       THEN /\ tx' = [tx EXCEPT ![d].pc = "deleted", ![d].holds = {id} \cap rows]
            /\ UNCHANGED <<rows, chosen>>
       ELSE /\ rows' = rows \ {id} /\ chosen' = chosen \ {id}
            /\ End(d)
    /\ UNCHANGED <<next, raced>>

FindOldest(d) ==
    LET rest == rows \ {tx[d].id} IN
    /\ tx[d].pc = "deleted"
    /\ IF rest # {}
       THEN /\ \E id \in rest : /\ \A other \in rest : id <= other
                                /\ tx' = [tx EXCEPT ![d].pc = "found", ![d].oldest = id]
            /\ UNCHANGED <<rows, chosen>>
       ELSE /\ rows' = rest /\ chosen' = chosen \cap rest
            /\ End(d)
    /\ UNCHANGED <<next, raced>>

MarkOldest(d) ==
    /\ tx[d].pc = "found" /\ tx[d].oldest \notin Held(d)
    /\ rows' = rows \ {tx[d].id}
    /\ chosen' = (chosen \ {tx[d].id}) \cup ({tx[d].oldest} \cap rows)
    /\ End(d)
    /\ UNCHANGED <<next, raced>>

\* The first statement takes the default off every row and holds them to the end.
ClearDefault(c, id) ==
    /\ id < next /\ Held(c) = {}
    /\ Begin(c, [NoTx EXCEPT !.pc = "cleared", !.id = id, !.holds = rows])
    /\ UNCHANGED <<rows, chosen, next>>

\* A recipient that is gone rolls it all back.
SetDefault(c) ==
    /\ tx[c].pc = "cleared" /\ tx[c].id \notin Held(c)
    /\ chosen' = IF tx[c].id \in rows THEN (chosen \ tx[c].holds) \cup {tx[c].id} ELSE chosen
    /\ End(c)
    /\ UNCHANGED <<rows, next, raced>>

Next ==
    \/ \E a \in Adds : Count(a) \/ Save(a) \/ SaveAgain(a)
    \/ \E d \in Deletes : \/ \E id \in rows : ReadRow(d, id)
                          \/ DeleteRow(d) \/ FindOldest(d) \/ MarkOldest(d)
    \/ \E c \in Defaults : \/ \E id \in 1..(next - 1) : ClearDefault(c, id)
                          \/ SetDefault(c)

Spec == Init /\ [][Next]_vars

\* A customer with recipients has exactly one default, the first one saved until another is
\* chosen or it is deleted, and never more than the cap: double taps and tabs that add and
\* choose at the same time keep it so, only a deletion that overlaps another call may not.
OneDefault ==
    /\ Cardinality(rows) <= MaxRecipients
    /\ chosen \subseteq rows
    /\ rows # {} => Cardinality(chosen) = 1 \/ raced

TypeOK ==
    /\ rows \subseteq Nat /\ IsFiniteSet(rows) /\ chosen \subseteq rows /\ next \in Nat
    /\ tx \in [Calls -> [pc : {"idle", "done", "counted", "read", "deleted", "found", "cleared"}, id : Nat,
                         first : BOOLEAN, was : BOOLEAN, oldest : Nat, holds : SUBSET Nat]]
    /\ raced \in BOOLEAN

IdsBelowNext == \A id \in rows : id < next

\* One call adds at a time, and its count still holds when it saves.
AddsSound ==
    \A a \in Adds : Open(a) =>
        /\ tx[a].pc = "counted" /\ tx[a].holds = {}
        /\ Cardinality(rows) < MaxRecipients
        /\ ~ raced => (tx[a].first <=> rows = {})
        /\ \A b \in Adds : Open(b) => b = a

DeletesInTurn == \A d \in Deletes : Open(d) => tx[d].pc \in {"read", "deleted", "found"}

OldestIsAnother == \A d \in Deletes : tx[d].pc = "found" => tx[d].oldest # tx[d].id

\* Alone, a deletion's reads still hold at its next statement.
DeletesSound ==
    ~ raced => \A d \in Deletes : Open(d) =>
        /\ \A c \in Calls : Open(c) => c = d
        /\ tx[d].id \in rows /\ (tx[d].was <=> tx[d].id \in chosen)
        /\ tx[d].pc # "read" => tx[d].was
        /\ tx[d].pc = "found" => tx[d].oldest \in rows

\* A choice has locked what it cleared.
DefaultsSound ==
    \A c \in Defaults : Open(c) =>
        /\ tx[c].pc = "cleared" /\ tx[c].id < next
        /\ tx[c].id \in rows => tx[c].id \in tx[c].holds
        /\ ~ raced /\ tx[c].id \in rows => chosen \subseteq tx[c].holds
        /\ \A b \in Defaults : Open(b) => b = c \/ tx[b].holds = {} \/ tx[c].holds = {}

IInv ==
    /\ TypeOK /\ IdsBelowNext /\ AddsSound /\ DeletesInTurn /\ OldestIsAnother
    /\ DeletesSound /\ DefaultsSound /\ OneDefault
=============================================================================

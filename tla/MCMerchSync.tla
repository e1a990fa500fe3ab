---------------------------- MODULE MCMerchSync ----------------------------
(* One to three orders of one customer; a group, its supergroup and a second *)
(* group the owner may bind.                                                 *)
EXTENDS MerchSync

CONSTANTS u1, group, super, other

MCCustomerOf == [o \in Orders |-> u1]
MCSuperOf == [c \in Chats |-> IF c = group /\ super \in Chats THEN super ELSE None]

\* Either the chat moves, or the customer blocks the bot and cards are deleted, never both in
\* one behaviour, and two troubles in all, a deleted card being one.  A fault and a move fall
\* into one behaviour only while no pickup is chosen.
TwoTroubles ==
    /\ spent.moves = 0 \/ (spent.toggles = 0 /\ spoilt.deleted = {})
    /\ spent.moves = 0 \/ spent.faults = 0 \/ chosen = {}
    /\ spent.moves + spent.toggles + spent.faults + Cardinality(spoilt.deleted) <= 2

\* For the liveness run: orders are placed in the order of their ids, one of them moves
\* through the statuses, and one trouble in all.  No step of the worker or of a handler is
\* held back.
OneMoves ==
    /\ \A o, q \in Orders : o < q /\ status'[q] # None => status'[o] # None
    /\ \A o \in Orders \ {2} : status'[o] \in {None, "PENDING", "deleted"}
    /\ spent'.faults + spent'.clears + Cardinality(spoilt'.deleted) <= 1
=============================================================================

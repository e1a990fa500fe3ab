--------------------------- MODULE OrderLifecycle ---------------------------
(***************************************************************************)
(* What the shop promises about one order, whatever the checkout, the      *)
(* buttons and the deletions of several people do at once: it appears as   *)
(* PENDING, every later status is a step of the status graph, and it only  *)
(* leaves by the deletion of all orders.  An id is never used twice.       *)
(***************************************************************************)
EXTENDS MerchRules

CONSTANT Orders         \* every order id there can be

VARIABLES live,         \* ids of the rows in the table
          dead,         \* ids that were deleted
          statusOf      \* [Orders -> Status]; of interest for live ids

lifecycleVars == <<live, dead, statusOf>>

LifecycleInit ==
    /\ live = {}
    /\ dead = {}
    /\ statusOf = [o \in Orders |-> "PENDING"]

Place(o) ==
    /\ o \notin live \cup dead
    /\ live' = live \cup {o}
    /\ statusOf[o] = "PENDING"
    /\ UNCHANGED <<dead, statusOf>>

Advance(o, to) ==
    /\ o \in live
    /\ statusOf[o] \in SourcesOf(to)
    /\ statusOf' = [statusOf EXCEPT ![o] = to]
    /\ UNCHANGED <<live, dead>>

DeleteAll ==
    /\ live' = {}
    /\ dead' = dead \cup live
    /\ UNCHANGED statusOf

LifecycleNext ==
    \/ \E o \in Orders : Place(o)
    \/ \E o \in Orders, to \in Status : Advance(o, to)
    \/ DeleteAll

LifecycleSpec == LifecycleInit /\ [][LifecycleNext]_lifecycleVars
=============================================================================

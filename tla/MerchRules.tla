----------------------------- MODULE MerchRules -----------------------------
(***************************************************************************)
(* The pure decisions of the FICE STORE backend that the state machines of *)
(* the shop share: the order status graph, how checkout takes stock, how   *)
(* the product form edits it and who may see a product.                    *)
(***************************************************************************)
EXTENDS Integers

CONSTANT Unlimited      \* a variant whose stock column is NULL

ASSUME UnlimitedIsNoNumber == Unlimited \notin Int

Status == {"PENDING", "IN_PROCESS", "READY_FOR_PICKUP", "COMPLETED", "CANCELLED"}

TRANSITIONS == [PENDING          |-> {"IN_PROCESS", "CANCELLED"},
                IN_PROCESS       |-> {"READY_FOR_PICKUP", "COMPLETED", "CANCELLED"},
                READY_FOR_PICKUP |-> {"COMPLETED", "CANCELLED"},
                COMPLETED        |-> {},
                CANCELLED        |-> {}]

\* Statuses a card still has working buttons in.
OPEN_STATUSES == {s \in Status : TRANSITIONS[s] # {}}

\* The where clause of the status compare-and-set.
SourcesOf(to) == {from \in Status : to \in TRANSITIONS[from]}

StockValue == Nat \cup {Unlimited}

\* Units a line really takes: all it asks for, or what is left. Never a refusal.
TakeStock(stock, quantity) ==
    IF stock = Unlimited THEN 0
    ELSE IF quantity <= stock THEN quantity ELSE stock

LeftOf(stock, taken) == IF stock = Unlimited THEN Unlimited ELSE stock - taken

\* A slip of ApplyStockEdit: the form writes what the admin sees.
OverwriteStock(current, saw, want) == want

\* The product form writes a difference, so it keeps the sales made under it.
ApplyStockEdit(current, saw, want) ==
    IF want = saw THEN current
    ELSE IF want = Unlimited \/ saw = Unlimited \/ current = Unlimited THEN want
    ELSE IF current + (want - saw) < 0 THEN 0 ELSE current + (want - saw)

\* A product with groups is for their members; an archived one still sells to
\* whoever already holds it in a cart.
ProductAccess(active, groups, viewerGroups) ==
    IF groups # {} /\ groups \cap viewerGroups = {} THEN "hidden"
    ELSE IF active THEN "ok" ELSE "archived"
=============================================================================

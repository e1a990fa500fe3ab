----------------------------- MODULE MerchStore -----------------------------
(***************************************************************************)
(* Checkout, order statuses and stock of the FICE STORE                     *)
(* (merch-order.service.ts, changeStatus of merch-sync.service.ts, the      *)
(* product form of merch-admin.service.ts, the deletion of all orders in    *)
(* merch-chat.service.ts).                                                  *)
(*                                                                         *)
(* Every HTTP attempt to create an order is a process: the first submit, a *)
(* retry of the submit loop after a lost answer, a second tab.  Attempts    *)
(* that belong together carry the same clientKey.  A handler is split at    *)
(* its awaits; a database transaction is one step, because it locks the     *)
(* rows it reads.  An order is named by the attempt that inserted it.       *)
(***************************************************************************)
EXTENDS MerchRules, FiniteSets

CONSTANTS
    Attempts,       \* HTTP attempts of POST /merch/orders
    KeyOf,          \* [Attempts -> clientKey]
    CustomerOf,     \* [Attempts -> telegramId]
    CartOf,         \* [Attempts -> [Variants -> 0 .. MaxQty]], the merged lines
    Variants,       \* ids of variant rows, never used twice
    ProductOf,      \* [Variants -> product id]
    Groups,         \* curator groups
    MemberOf,       \* [customer -> SUBSET Groups]
    Forms,          \* opened product forms, each with its own saveKey
    FormProduct,    \* [Forms -> product id]
    StockChoices,   \* stock values an admin may type
    InitialStock,   \* [Variants -> StockValue or Unborn]
    InitialGroups,  \* [product -> SUBSET Groups]
    MaxQty,         \* MAX_QTY
    MaxPending,     \* MAX_PENDING_ORDERS
    OrdersPerWindow,\* ORDERS_PER_WINDOW
    MaxClears,      \* bound on deletions of all orders
    Unborn,         \* a variant row not inserted yet
    Gone,           \* a variant row deleted
    None

Products == {ProductOf[v] : v \in Variants}
VariantsOf(p) == {v \in Variants : ProductOf[v] = p}
StockCell == StockValue \cup {Unborn, Gone}

ASSUME MarksAssumption ==
    /\ Unborn \notin Int /\ Gone \notin Int
    /\ Unborn # Gone /\ Unborn # Unlimited /\ Gone # Unlimited
    /\ None \notin Attempts /\ None \notin Forms
ASSUME BoundsAssumption ==
    MaxQty \in Nat /\ MaxPending \in Nat /\ OrdersPerWindow \in Nat /\ MaxClears \in Nat
ASSUME AttemptsAssumption ==
    /\ IsFiniteSet(Attempts)
    /\ CartOf \in [Attempts -> [Variants -> 0 .. MaxQty]]
ASSUME CatalogAssumption ==
    /\ InitialStock \in [Variants -> StockValue \cup {Unborn}]
    /\ InitialGroups \in [Products -> SUBSET Groups]
    /\ StockChoices \subseteq StockValue
    /\ FormProduct \in [Forms -> Products]

VARIABLES
    stock,      \* MerchVariant.stock; Unborn or Gone when there is no row
    groupsOf,   \* MerchProductGroup rows of each product
    saveKey,    \* MerchProduct.saveKey
    archived,   \* products whose isActive is off
    orders,     \* MerchOrder rows present
    status,     \* MerchOrder.status
    taken,      \* MerchOrderItem.stockTaken, by order and variant
    recent,     \* orders created within RATE_WINDOW_MS
    pc,         \* where each attempt's handler stands
    answer,     \* the order the handler found or inserted
    form,       \* what each opened product form has loaded
    clears,     \* how often all orders were deleted
    supply      \* history: units the admins put on sale and did not write off

productVars == <<groupsOf, saveKey, archived>>
orderVars == <<orders, status, taken, recent>>
handlerVars == <<pc, answer>>
adminVars == <<form, clears, supply>>
vars == <<stock, productVars, orderVars, handlerVars, adminVars>>

(***************************************************************************)
(* Orders and the units they hold                                          *)
(***************************************************************************)
NoItems == [v \in Variants |-> 0]

SameOrder(r, o) == CustomerOf[o] = CustomerOf[r] /\ KeyOf[o] = KeyOf[r]

PendingOf(c) == {o \in orders : CustomerOf[o] = c /\ status[o] = "PENDING"}
RecentOf(c) == {o \in recent \cap orders : CustomerOf[o] = c}

Holds(o) == o \in orders /\ status[o] # "CANCELLED"

\* One element per unit of v that an order not cancelled has taken.
HeldUnits(v) == {u \in Attempts \X (1 .. MaxQty) : Holds(u[1]) /\ u[2] <= taken[u[1]][v]}

Limited(v) == stock[v] \in Nat
HasRow(v) == stock[v] \in StockValue

ClosedForm == [pc |-> "closed", saw |-> InitialStock, groups |-> {}, seenKey |-> None]

Init ==
    /\ stock = InitialStock
    /\ groupsOf = InitialGroups
    /\ saveKey = [p \in Products |-> None]
    /\ archived = {}
    /\ orders = {}
    /\ status = [o \in Attempts |-> "PENDING"]
    /\ taken = [o \in Attempts |-> NoItems]
    /\ recent = {}
    /\ pc = [r \in Attempts |-> "idle"]
    /\ answer = [r \in Attempts |-> None]
    /\ form = [f \in Forms |-> ClosedForm]
    /\ clears = 0
    /\ supply = [v \in Variants |-> IF InitialStock[v] \in Nat THEN InitialStock[v] ELSE 0]

(***************************************************************************)
(* createOrder                                                             *)
(***************************************************************************)
shopVars == <<stock, productVars, orderVars, adminVars>>

\* repeatOf: an order with this key answers, before any limit is looked at.
RepeatOf(r) ==
    /\ pc[r] = "idle"
    /\ IF \E o \in orders : SameOrder(r, o)
         THEN /\ pc' = [pc EXCEPT ![r] = "answered"]
              /\ \E o \in orders : SameOrder(r, o) /\ answer' = [answer EXCEPT ![r] = o]
         ELSE pc' = [pc EXCEPT ![r] = "rate"] /\ UNCHANGED answer
    /\ UNCHANGED shopVars

AssertRate(r) ==
    /\ pc[r] = "rate"
    /\ pc' = [pc EXCEPT ![r] =
                 IF Cardinality(RecentOf(CustomerOf[r])) >= OrdersPerWindow
                 THEN "refused" ELSE "pending"]
    /\ UNCHANGED <<shopVars, answer>>

AssertPendingCap(r) ==
    /\ pc[r] = "pending"
    /\ pc' = [pc EXCEPT ![r] =
                 IF Cardinality(PendingOf(CustomerOf[r])) >= MaxPending
                 THEN "refused" ELSE "ready"]
    /\ UNCHANGED <<shopVars, answer>>

\* A recipient, an address or a receipt the customer has to fix.
RefuseInput(r) ==
    /\ pc[r] = "ready"
    /\ pc' = [pc EXCEPT ![r] = "refused"]
    /\ UNCHANGED <<shopVars, answer>>

\* decideOrder: the units each line of r takes.  A missing or hidden line takes none.
Decide(r) ==
    [v \in Variants |->
        IF /\ HasRow(v)
           /\ ProductAccess(ProductOf[v] \notin archived, groupsOf[ProductOf[v]],
                            MemberOf[CustomerOf[r]]) # "hidden"
        THEN TakeStock(stock[v], CartOf[r][v])
        ELSE 0]

\* A slip of CommitOrder: no unique index under the read of repeatOf.
CommitUnguarded(r) ==
    /\ pc[r] = "ready"
    /\ stock' = [v \in Variants |->
                    IF Decide(r)[v] > 0 THEN LeftOf(stock[v], Decide(r)[v]) ELSE stock[v]]
    /\ taken' = [taken EXCEPT ![r] = Decide(r)]
    /\ status' = [status EXCEPT ![r] = "PENDING"]
    /\ orders' = orders \cup {r}
    /\ recent' = recent \cup {r}
    /\ answer' = [answer EXCEPT ![r] = r]
    /\ pc' = [pc EXCEPT ![r] = "committed"]
    /\ UNCHANGED <<productVars, adminVars>>

\* The transaction commits: stock and order change together.
CommitOrder(r) ==
    /\ pc[r] = "ready"
    /\ ~ \E o \in orders : SameOrder(r, o)
    /\ stock' = [v \in Variants |->
                    IF Decide(r)[v] > 0 THEN LeftOf(stock[v], Decide(r)[v]) ELSE stock[v]]
    /\ taken' = [taken EXCEPT ![r] = Decide(r)]
    /\ status' = [status EXCEPT ![r] = "PENDING"]
    /\ orders' = orders \cup {r}
    /\ recent' = recent \cup {r}
    /\ answer' = [answer EXCEPT ![r] = r]
    /\ pc' = [pc EXCEPT ![r] = "committed"]
    /\ UNCHANGED <<productVars, adminVars>>

\* unique(telegramId, clientKey) refuses: the whole transaction rolls back.
DuplicateKey(r) ==
    /\ pc[r] = "ready"
    /\ \E o \in orders : SameOrder(r, o)
    /\ pc' = [pc EXCEPT ![r] = "conflict"]
    /\ UNCHANGED <<shopVars, answer>>

\* The re-read after P2002 finds the winner, or nothing when all orders went meanwhile.
ReadWinner(r) ==
    /\ pc[r] = "conflict"
    /\ IF \E o \in orders : SameOrder(r, o)
         THEN /\ pc' = [pc EXCEPT ![r] = "answered"]
              /\ \E o \in orders : SameOrder(r, o) /\ answer' = [answer EXCEPT ![r] = o]
         ELSE pc' = [pc EXCEPT ![r] = "failed"] /\ UNCHANGED answer
    /\ UNCHANGED shopVars

Answer(r) ==
    /\ pc[r] = "committed"
    /\ pc' = [pc EXCEPT ![r] = "answered"]
    /\ UNCHANGED <<shopVars, answer>>

\* A database error (503), a crash of the process or a connection lost on the
\* way back: the customer learns nothing and submits again with the same key.
Lose(r) ==
    /\ pc[r] \in {"rate", "pending", "ready", "conflict", "committed"}
    /\ pc' = [pc EXCEPT ![r] = "failed"]
    /\ UNCHANGED <<shopVars, answer>>

\* The rate window slides past every order so far.
WindowPasses ==
    /\ recent # {}
    /\ recent' = {}
    /\ UNCHANGED <<stock, productVars, orders, status, taken, handlerVars, adminVars>>

(***************************************************************************)
(* The admins                                                              *)
(***************************************************************************)
\* A slip of ChangeStatus: the row is written without looking at its status.
ChangeAnyStatus(o, to) ==
    /\ o \in orders
    /\ status' = [status EXCEPT ![o] = to]
    /\ stock' = IF to = "CANCELLED"
                THEN [v \in Variants |->
                        IF Limited(v) /\ taken[o][v] > 0
                        THEN stock[v] + taken[o][v] ELSE stock[v]]
                ELSE stock
    /\ UNCHANGED <<orders, taken, recent, productVars, handlerVars, adminVars>>

\* A status button, fresh or stale.  The compare-and-set and the return of a
\* cancelled order's units are one transaction.
ChangeStatus(o, to) ==
    /\ o \in orders
    /\ status[o] \in SourcesOf(to)
    /\ status' = [status EXCEPT ![o] = to]
    /\ stock' = IF to = "CANCELLED"
                THEN [v \in Variants |->
                        IF Limited(v) /\ taken[o][v] > 0
                        THEN stock[v] + taken[o][v] ELSE stock[v]]
                ELSE stock
    /\ UNCHANGED <<orders, taken, recent, productVars, handlerVars, adminVars>>

\* Deletes every order and gives no stock back.
ClearOrders ==
    /\ orders # {}
    /\ clears < MaxClears
    /\ clears' = clears + 1
    /\ orders' = {}
    /\ supply' = [v \in Variants |-> IF Limited(v) THEN stock[v] ELSE supply[v]]
    /\ UNCHANGED <<stock, productVars, status, taken, recent, handlerVars, form>>

SetActive(p) ==
    /\ \E v \in VariantsOf(p) : HasRow(v)
    /\ archived' = (archived \ {p}) \cup ({p} \ archived)
    /\ UNCHANGED <<stock, groupsOf, saveKey, orderVars, handlerVars, adminVars>>

\* The editor loads the product and its variants.
OpenForm(f) ==
    /\ form[f].pc = "closed"
    /\ form' = [form EXCEPT ![f] = [pc |-> "open", saw |-> stock,
                                    groups |-> groupsOf[FormProduct[f]],
                                    seenKey |-> saveKey[FormProduct[f]]]]
    /\ UNCHANGED <<stock, productVars, orderVars, handlerVars, clears, supply>>

\* What the save of wanted cells leaves in variant v (diffVariants).
SavedCell(f, want, v) ==
    IF ProductOf[v] # FormProduct[f] \/ stock[v] = Gone THEN stock[v]
    ELSE IF stock[v] = Unborn THEN (IF want[v] = Gone THEN Unborn ELSE want[v])
    ELSE IF want[v] = Gone THEN Gone
    ELSE ApplyStockEdit(stock[v], IF form[f].saw[v] \in StockValue
                                  THEN form[f].saw[v] ELSE stock[v], want[v])

\* The units on sale after the edit, from what the admin meant: the difference
\* he typed, a fresh limit on top of what orders hold, or no count at all.
SuppliedUnits(f, want, v) ==
    IF SavedCell(f, want, v) \notin Nat THEN 0
    ELSE IF Limited(v) /\ form[f].saw[v] \in Nat /\ want[v] \in Nat
         THEN LET meant == supply[v] + (want[v] - form[f].saw[v]) IN
              IF meant < Cardinality(HeldUnits(v)) THEN Cardinality(HeldUnits(v)) ELSE meant
         ELSE SavedCell(f, want, v) + Cardinality(HeldUnits(v))

\* A slip of SaveForm: the save key of the load is not compared.
SaveOverOthers(f) ==
    LET p == FormProduct[f] IN
    /\ form[f].pc = "open"
    /\ saveKey[p] # f
    /\ \E v \in VariantsOf(p) : HasRow(v)
    /\ \E want \in [VariantsOf(p) -> StockChoices \cup {Gone}], groups \in SUBSET Groups :
         /\ \E v \in VariantsOf(p) : SavedCell(f, want, v) \in StockValue
         /\ stock' = [v \in Variants |-> SavedCell(f, want, v)]
         /\ supply' = [v \in Variants |->
                         IF ProductOf[v] = p THEN SuppliedUnits(f, want, v) ELSE supply[v]]
         /\ groupsOf' = [groupsOf EXCEPT ![p] = groups]
    /\ saveKey' = [saveKey EXCEPT ![p] = f]
    /\ UNCHANGED <<archived, orderVars, handlerVars, form, clears>>

\* updateProduct, first arrival: nobody saved since the form was loaded.
SaveForm(f) ==
    LET p == FormProduct[f] IN
    /\ form[f].pc = "open"
    /\ saveKey[p] # f
    /\ saveKey[p] = form[f].seenKey
    /\ \E v \in VariantsOf(p) : HasRow(v)
    /\ \E want \in [VariantsOf(p) -> StockChoices \cup {Gone}], groups \in SUBSET Groups :
         /\ \E v \in VariantsOf(p) : SavedCell(f, want, v) \in StockValue
         /\ stock' = [v \in Variants |-> SavedCell(f, want, v)]
         /\ supply' = [v \in Variants |->
                         IF ProductOf[v] = p THEN SuppliedUnits(f, want, v) ELSE supply[v]]
         /\ groupsOf' = [groupsOf EXCEPT ![p] = groups]
    /\ saveKey' = [saveKey EXCEPT ![p] = f]
    /\ UNCHANGED <<archived, orderVars, handlerVars, form, clears>>

\* updateProduct, a retry of the save that landed (the answer was lost): nothing
\* moves.  Over somebody else's save: 409.  No product any more: 404.
FinishForm(f) ==
    LET p == FormProduct[f] IN
    /\ form[f].pc = "open"
    /\ \/ saveKey[p] = f
       \/ saveKey[p] # form[f].seenKey
       \/ \A v \in VariantsOf(p) : ~ HasRow(v)
    /\ form' = [form EXCEPT ![f] = [ClosedForm EXCEPT !.pc = "done"]]
    /\ UNCHANGED <<stock, productVars, orderVars, handlerVars, clears, supply>>

\* The cascade deletes the variants; order items keep their snapshots.
DeleteProduct(p) ==
    /\ \E v \in VariantsOf(p) : HasRow(v)
    /\ stock' = [v \in Variants |-> IF ProductOf[v] = p THEN Gone ELSE stock[v]]
    /\ supply' = [v \in Variants |-> IF ProductOf[v] = p THEN 0 ELSE supply[v]]
    /\ UNCHANGED <<productVars, orderVars, handlerVars, form, clears>>

CreateOrder(r) ==
    \/ RepeatOf(r) \/ AssertRate(r) \/ AssertPendingCap(r) \/ RefuseInput(r)
    \/ CommitOrder(r) \/ DuplicateKey(r) \/ ReadWinner(r) \/ Answer(r) \/ Lose(r)

ProductForm(f) == OpenForm(f) \/ SaveForm(f) \/ FinishForm(f)

Next ==
    \/ \E r \in Attempts : CreateOrder(r)
    \/ \E o \in Attempts, to \in Status : ChangeStatus(o, to)
    \/ WindowPasses
    \/ ClearOrders
    \/ \E p \in Products : SetActive(p) \/ DeleteProduct(p)
    \/ \E f \in Forms : ProductForm(f)

Spec == Init /\ [][Next]_vars

(***************************************************************************)
(* Correctness                                                             *)
(***************************************************************************)
TypeOK ==
    /\ stock \in [Variants -> StockCell]
    /\ groupsOf \in [Products -> SUBSET Groups]
    /\ saveKey \in [Products -> Forms \cup {None}]
    /\ archived \subseteq Products
    /\ orders \subseteq Attempts
    /\ status \in [Attempts -> Status]
    /\ taken \in [Attempts -> [Variants -> 0 .. MaxQty]]
    /\ recent \subseteq Attempts
    /\ pc \in [Attempts -> {"idle", "rate", "pending", "ready", "conflict", "committed",
                            "answered", "refused", "failed"}]
    /\ answer \in [Attempts -> Attempts \cup {None}]
    /\ form \in [Forms -> [pc : {"closed", "open", "done"}, saw : [Variants -> StockCell],
                           groups : SUBSET Groups, seenKey : Forms \cup {None}]]
    /\ clears \in 0 .. MaxClears
    /\ supply \in [Variants -> Nat]

\* No unit is sold twice, lost or returned twice: what the table says is left and
\* what the orders not cancelled have taken add up to what the admins put on sale,
\* whatever checkouts, rollbacks, cancellations and form saves interleave.
StockConserved ==
    \A v \in Variants : Limited(v) => stock[v] + Cardinality(HeldUnits(v)) = supply[v]

\* One payment is one order: the submit loop, a second tab and a lost answer never
\* leave two orders of one customer under one clientKey.
OneOrderPerKey ==
    \A o1, o2 \in orders : SameOrder(o1, o2) => o1 = o2

\* Two attempts of one payment hear of the same order, whichever of them inserted
\* it, unless all orders were deleted between the two.
AnswersAgree ==
    \A r1, r2 \in Attempts :
        /\ SameOrder(r1, r2)
        /\ answer[r1] # None
        /\ answer[r2] # None
        /\ clears = 0
        => answer[r1] = answer[r2]

\* What a handler still on its way to the insert cannot have done, and what an
\* answer says about the order it names.
HandlerFacts ==
    \A r \in Attempts :
        /\ pc[r] \in {"idle", "rate", "pending", "ready", "conflict"} => answer[r] = None
        /\ r \in orders => answer[r] = r
        /\ answer[r] # r => status[r] = "PENDING"
        /\ answer[r] # None => SameOrder(r, answer[r])
        /\ answer[r] # None /\ clears = 0 => answer[r] \in orders

\* A form whose save landed is on the row, or was when a form still open was loaded.
Landed(f) ==
    \/ saveKey[FormProduct[f]] = f
    \/ \E g \in Forms : form[g].pc = "open" /\ form[g].seenKey = f

\* A key that was replaced never comes back, so the key a form has seen names what it has seen.
FormFacts ==
    /\ \A p \in Products : saveKey[p] # None => FormProduct[saveKey[p]] = p
    /\ \A f \in Forms :
        /\ form[f].pc = "open" /\ form[f].seenKey # None
               => FormProduct[form[f].seenKey] = FormProduct[f]
        /\ Landed(f) => form[f].pc # "closed"
        /\ Landed(f) /\ form[f].pc = "open" => saveKey[FormProduct[f]] # form[f].seenKey
        /\ form[f].pc = "open" /\ saveKey[FormProduct[f]] = form[f].seenKey
               => form[f].groups = groupsOf[FormProduct[f]]

\* The inductive invariant behind the theorems of MerchStoreProofs.
IInv == TypeOK /\ HandlerFacts /\ OneOrderPerKey /\ StockConserved /\ FormFacts

\* A form that loaded the product before somebody else's save is refused: a save
\* lands only on the groups its form has shown.
NoSaveReverted ==
    [][\A f \in Forms :
         /\ saveKey[FormProduct[f]] # f
         /\ saveKey'[FormProduct[f]] = f
         => form[f].groups = groupsOf[FormProduct[f]]]_vars

\* The rows go through the lifecycle the shop promises for an order.
Lifecycle == INSTANCE OrderLifecycle WITH
    Orders <- Attempts,
    live <- orders,
    dead <- {o \in Attempts : answer[o] = o} \ orders,
    statusOf <- status

ImplementsLifecycle == Lifecycle!LifecycleSpec
=============================================================================

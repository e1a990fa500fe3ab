-------------------------- MODULE MerchStoreProofs --------------------------
(***************************************************************************)
(* For every set of attempts, carts, variants and forms: the types of      *)
(* MerchStore, one order per clientKey, agreeing answers, the conservation *)
(* of stock, the keys of the product form, and the lifecycle of an order.  *)
(***************************************************************************)
EXTENDS MerchStore, FiniteSetTheorems, TLAPS

(***************************************************************************)
(* Counting units                                                          *)
(***************************************************************************)
\* One order's units of one variant: {o} \X (1 .. n) has n elements.
LEMMA UnitsOfOrder ==
    ASSUME NEW o, NEW n \in Nat
    PROVE  /\ IsFiniteSet({o} \X (1 .. n))
           /\ Cardinality({o} \X (1 .. n)) = n
<1>1. IsFiniteSet({o}) /\ Cardinality({o}) = 1
  BY FS_Singleton
<1>2. IsFiniteSet(1 .. n) /\ Cardinality(1 .. n) = n
  BY FS_Interval
<1>3. /\ IsFiniteSet({o} \X (1 .. n))
      /\ Cardinality({o} \X (1 .. n)) = Cardinality({o}) * Cardinality(1 .. n)
  BY <1>1, <1>2, FS_Product, Zenon
<1>4. QED
  BY <1>1, <1>2, <1>3

\* Finitely many units are held.
LEMMA HeldUnitsFinite ==
    ASSUME NEW v
    PROVE  /\ IsFiniteSet(HeldUnits(v))
           /\ Cardinality(HeldUnits(v)) \in Nat
<1>1. IsFiniteSet(1 .. MaxQty)
  BY BoundsAssumption, FS_Interval
<1>2. IsFiniteSet(Attempts \X (1 .. MaxQty))
  BY <1>1, AttemptsAssumption, FS_Product
<1>3. HeldUnits(v) \in SUBSET (Attempts \X (1 .. MaxQty))
  BY DEF HeldUnits
<1>4. QED
  BY <1>2, <1>3, FS_Subset, FS_CardinalityType

\* Adding n units of o to a finite set that has none of them adds n.
LEMMA AddUnits ==
    ASSUME NEW S, IsFiniteSet(S), NEW o, NEW n \in Nat,
           \A u \in S : u[1] # o
    PROVE  Cardinality(S \cup ({o} \X (1 .. n))) = Cardinality(S) + n
<1>1. S \cap ({o} \X (1 .. n)) = {}
  OBVIOUS
<1>2. Cardinality(S \cap ({o} \X (1 .. n))) = 0
  BY <1>1, FS_EmptySet
<1>3. Cardinality(S) \in Nat
  BY FS_CardinalityType
<1>4. /\ IsFiniteSet({o} \X (1 .. n))
      /\ Cardinality({o} \X (1 .. n)) = n
  BY UnitsOfOrder
<1>5. Cardinality(S \cup ({o} \X (1 .. n)))
        = Cardinality(S) + Cardinality({o} \X (1 .. n)) - Cardinality(S \cap ({o} \X (1 .. n)))
  BY <1>4, FS_Union, Zenon
<1>6. QED
  BY <1>2, <1>3, <1>4, <1>5

(***************************************************************************)
(* What the operators of checkout return                                   *)
(***************************************************************************)
\* A checkout takes no more than the cart asks and no more than is left.
LEMMA DecideFacts ==
    ASSUME TypeOK, NEW r \in Attempts
    PROVE  /\ Decide(r) \in [Variants -> 0 .. MaxQty]
           /\ \A v \in Variants :
                /\ Decide(r)[v] > 0 => Limited(v)
                /\ Limited(v) => Decide(r)[v] <= stock[v]
                /\ Limited(v) => stock[v] \in Int
<1> SUFFICES ASSUME NEW v \in Variants
             PROVE  /\ Decide(r)[v] \in 0 .. MaxQty
                    /\ Decide(r)[v] > 0 => Limited(v)
                    /\ Limited(v) => Decide(r)[v] <= stock[v]
  BY DEF Decide, Limited
<1>1. CartOf[r][v] \in 0 .. MaxQty
  BY AttemptsAssumption
<1>2. MaxQty \in Nat
  BY BoundsAssumption
<1>3. stock[v] \in StockCell
  BY DEF TypeOK
<1>4. QED
  BY <1>1, <1>2, <1>3, UnlimitedIsNoNumber, MarksAssumption
  DEF Decide, TakeStock, HasRow, Limited, StockCell, StockValue

\* What a save leaves in a variant's cell and on the books.
LEMMA SaveFacts ==
    ASSUME TypeOK, NEW f \in Forms, form[f].pc = "open",
           NEW want \in [VariantsOf(FormProduct[f]) -> StockChoices \cup {Gone}],
           NEW v \in Variants
    PROVE  /\ SavedCell(f, want, v) \in StockCell
           /\ ProductOf[v] = FormProduct[f] =>
                /\ SuppliedUnits(f, want, v) \in Nat
                /\ (StockConserved /\ SavedCell(f, want, v) \in Nat) =>
                     SavedCell(f, want, v) + Cardinality(HeldUnits(v))
                       = SuppliedUnits(f, want, v)
           /\ ProductOf[v] # FormProduct[f] => SavedCell(f, want, v) = stock[v]
<1> DEFINE saw == form[f].saw[v]
           held == Cardinality(HeldUnits(v))
<1>1. saw \in StockCell /\ stock[v] \in StockCell /\ supply[v] \in Nat
  BY DEF TypeOK
<1>2. held \in Nat
  BY HeldUnitsFinite
<1>3. CASE ProductOf[v] # FormProduct[f]
  BY <1>1, <1>3 DEF SavedCell
<1>4. CASE ProductOf[v] = FormProduct[f]
  <2>1. want[v] \in StockValue \cup {Gone}
    BY <1>4, CatalogAssumption DEF VariantsOf
  <2>2. SavedCell(f, want, v) \in StockCell
    BY <1>1, <1>4, <2>1, UnlimitedIsNoNumber, MarksAssumption
    DEF SavedCell, StockCell, StockValue, ApplyStockEdit
  <2>3. SuppliedUnits(f, want, v) \in Nat
    <3> HIDE DEF held
    <3>1. SuppliedUnits(f, want, v) =
            IF SavedCell(f, want, v) \notin Nat THEN 0
            ELSE IF Limited(v) /\ saw \in Nat /\ want[v] \in Nat
                 THEN IF supply[v] + (want[v] - saw) < held
                      THEN held ELSE supply[v] + (want[v] - saw)
                 ELSE SavedCell(f, want, v) + held
      BY DEF SuppliedUnits, held
    <3>2. QED
      BY <1>1, <1>2, <3>1
  <2>4. ASSUME StockConserved, SavedCell(f, want, v) \in Nat
        PROVE  SavedCell(f, want, v) + held = SuppliedUnits(f, want, v)
    <3>1. CASE Limited(v) /\ saw \in Nat /\ want[v] \in Nat
      <4>1. stock[v] \in Nat /\ stock[v] + held = supply[v]
        BY <2>4, <3>1 DEF Limited, StockConserved
      <4>2. SavedCell(f, want, v) =
              IF stock[v] + (want[v] - saw) < 0 THEN 0 ELSE stock[v] + (want[v] - saw)
        BY <1>4, <3>1, <4>1, UnlimitedIsNoNumber, MarksAssumption
        DEF SavedCell, ApplyStockEdit, StockValue
      <4> HIDE DEF held
      <4>3. SuppliedUnits(f, want, v) =
              IF supply[v] + (want[v] - saw) < held
              THEN held ELSE supply[v] + (want[v] - saw)
        BY <2>4, <3>1 DEF SuppliedUnits, held
      <4>4. QED
        BY <1>1, <1>2, <3>1, <4>1, <4>2, <4>3
    <3>2. CASE ~ (Limited(v) /\ saw \in Nat /\ want[v] \in Nat)
      BY <2>4, <3>2 DEF SuppliedUnits
    <3>3. QED
      BY <3>1, <3>2
  <2>5. QED
    BY <1>4, <2>2, <2>3, <2>4
<1>5. QED
  BY <1>3, <1>4

(***************************************************************************)
(* Types                                                                   *)
(***************************************************************************)
LEMMA TypeInit == Init => TypeOK
<1> SUFFICES ASSUME Init PROVE TypeOK
  OBVIOUS
<1>1. stock \in [Variants -> StockCell]
  BY CatalogAssumption DEF Init, StockCell
<1>2. form \in [Forms -> [pc : {"closed", "open", "done"}, saw : [Variants -> StockCell],
                          groups : SUBSET Groups, seenKey : Forms \cup {None}]]
  BY <1>1 DEF Init, ClosedForm
<1>3. QED
  BY <1>1, <1>2, BoundsAssumption, CatalogAssumption DEF Init, TypeOK, NoItems, Status

\* Every step keeps the types.
LEMMA TypeStep == TypeOK /\ [Next]_vars => TypeOK'
<1> SUFFICES ASSUME TypeOK, [Next]_vars PROVE TypeOK'
  OBVIOUS
<1> USE DEF TypeOK, productVars, orderVars, handlerVars, adminVars
<1>1. ASSUME NEW r \in Attempts, CreateOrder(r) PROVE TypeOK'
  <2>1. CASE RepeatOf(r)
    <3>1. pc' \in [Attempts -> {"idle", "rate", "pending", "ready", "conflict", "committed",
                                "answered", "refused", "failed"}]
      BY <2>1 DEF RepeatOf
    <3>2. answer' \in [Attempts -> Attempts \cup {None}]
      <4>1. CASE \E o \in orders : SameOrder(r, o)
        <5>1. PICK o \in orders : answer' = [answer EXCEPT ![r] = o]
          BY <2>1, <4>1 DEF RepeatOf
        <5>2. o \in Attempts
          OBVIOUS
        <5>3. QED
          BY <5>1, <5>2
      <4>2. CASE ~ \E o \in orders : SameOrder(r, o)
        BY <2>1, <4>2 DEF RepeatOf
      <4>3. QED
        BY <4>1, <4>2
    <3>3. UNCHANGED shopVars
      BY <2>1 DEF RepeatOf
    <3>4. QED
      BY <3>1, <3>2, <3>3 DEF shopVars
  <2>2. CASE AssertRate(r)
    BY <2>2 DEF AssertRate, shopVars
  <2>3. CASE AssertPendingCap(r)
    BY <2>3 DEF AssertPendingCap, shopVars
  <2>4. CASE RefuseInput(r)
    BY <2>4 DEF RefuseInput, shopVars
  <2>5. CASE CommitOrder(r)
    <3>1. Decide(r) \in [Variants -> 0 .. MaxQty]
      BY DecideFacts
    <3>2. stock' \in [Variants -> StockCell]
      <4>1. ASSUME NEW v \in Variants
            PROVE  (IF Decide(r)[v] > 0 THEN LeftOf(stock[v], Decide(r)[v]) ELSE stock[v])
                     \in StockCell
        BY <3>1, DecideFacts, BoundsAssumption
        DEF LeftOf, StockCell, StockValue, Limited
      <4>2. stock' = [v \in Variants |-> IF Decide(r)[v] > 0
                                          THEN LeftOf(stock[v], Decide(r)[v]) ELSE stock[v]]
        BY <2>5 DEF CommitOrder
      <4>3. QED
        BY <4>1, <4>2
    <3>3. /\ taken' \in [Attempts -> [Variants -> 0 .. MaxQty]]
          /\ status' \in [Attempts -> Status]
          /\ orders' \subseteq Attempts
          /\ recent' \subseteq Attempts
          /\ answer' \in [Attempts -> Attempts \cup {None}]
      BY <2>5, <3>1 DEF CommitOrder, Status
    <3>4. pc' \in [Attempts -> {"idle", "rate", "pending", "ready", "conflict", "committed",
                                "answered", "refused", "failed"}]
      BY <2>5 DEF CommitOrder
    <3>5. /\ groupsOf' = groupsOf /\ saveKey' = saveKey /\ archived' = archived
          /\ form' = form /\ clears' = clears /\ supply' = supply
      BY <2>5 DEF CommitOrder
    <3>6. QED
      BY <3>2, <3>3, <3>4, <3>5
  <2>6. CASE DuplicateKey(r)
    BY <2>6 DEF DuplicateKey, shopVars
  <2>7. CASE ReadWinner(r)
    <3>1. pc' \in [Attempts -> {"idle", "rate", "pending", "ready", "conflict", "committed",
                                "answered", "refused", "failed"}]
      BY <2>7 DEF ReadWinner
    <3>2. answer' \in [Attempts -> Attempts \cup {None}]
      <4>1. CASE \E o \in orders : SameOrder(r, o)
        <5>1. PICK o \in orders : answer' = [answer EXCEPT ![r] = o]
          BY <2>7, <4>1 DEF ReadWinner
        <5>2. o \in Attempts
          OBVIOUS
        <5>3. QED
          BY <5>1, <5>2
      <4>2. CASE ~ \E o \in orders : SameOrder(r, o)
        BY <2>7, <4>2 DEF ReadWinner
      <4>3. QED
        BY <4>1, <4>2
    <3>3. UNCHANGED shopVars
      BY <2>7 DEF ReadWinner
    <3>4. QED
      BY <3>1, <3>2, <3>3 DEF shopVars
  <2>8. CASE Answer(r)
    BY <2>8 DEF Answer, shopVars
  <2>9. CASE Lose(r)
    BY <2>9 DEF Lose, shopVars
  <2>10. QED
    BY <1>1, <2>1, <2>2, <2>3, <2>4, <2>5, <2>6, <2>7, <2>8, <2>9 DEF CreateOrder
<1>2. ASSUME NEW o \in Attempts, NEW to \in Status, ChangeStatus(o, to) PROVE TypeOK'
  <2>1. ASSUME NEW v \in Variants, Limited(v)
        PROVE  stock[v] + taken[o][v] \in StockCell
    BY <2>1, BoundsAssumption DEF Limited, StockCell, StockValue
  <2>2. stock' \in [Variants -> StockCell]
    BY <1>2, <2>1 DEF ChangeStatus
  <2>3. status' \in [Attempts -> Status]
    BY <1>2 DEF ChangeStatus
  <2>4. /\ orders' = orders /\ taken' = taken /\ recent' = recent
        /\ groupsOf' = groupsOf /\ saveKey' = saveKey /\ archived' = archived
        /\ pc' = pc /\ answer' = answer
        /\ form' = form /\ clears' = clears /\ supply' = supply
    BY <1>2 DEF ChangeStatus
  <2>5. QED
    BY <2>2, <2>3, <2>4
<1>3. CASE WindowPasses
  BY <1>3 DEF WindowPasses
<1>4. CASE ClearOrders
  BY <1>4, BoundsAssumption DEF ClearOrders, Limited
<1>5. ASSUME NEW p \in Products, SetActive(p) PROVE TypeOK'
  BY <1>5 DEF SetActive
<1>6. ASSUME NEW p \in Products, DeleteProduct(p) PROVE TypeOK'
  BY <1>6 DEF DeleteProduct, StockCell
<1>7. ASSUME NEW f \in Forms, OpenForm(f) PROVE TypeOK'
  <2>1. FormProduct[f] \in Products
    BY CatalogAssumption
  <2>2. QED
    BY <1>7, <2>1 DEF OpenForm
<1>8. ASSUME NEW f \in Forms, SaveForm(f) PROVE TypeOK'
  <2>1. PICK want \in [VariantsOf(FormProduct[f]) -> StockChoices \cup {Gone}],
             groups \in SUBSET Groups :
          /\ stock' = [v \in Variants |-> SavedCell(f, want, v)]
          /\ supply' = [v \in Variants |-> IF ProductOf[v] = FormProduct[f]
                                           THEN SuppliedUnits(f, want, v) ELSE supply[v]]
          /\ groupsOf' = [groupsOf EXCEPT ![FormProduct[f]] = groups]
    BY <1>8 DEF SaveForm
  <2>2. form[f].pc = "open"
    BY <1>8 DEF SaveForm
  <2>3. stock' \in [Variants -> StockCell] /\ supply' \in [Variants -> Nat]
    BY <2>1, <2>2, SaveFacts
  <2>4. QED
    BY <1>8, <2>1, <2>3 DEF SaveForm
<1>9. ASSUME NEW f \in Forms, FinishForm(f) PROVE TypeOK'
  <2>1. [ClosedForm EXCEPT !.pc = "done"]
          \in [pc : {"closed", "open", "done"}, saw : [Variants -> StockCell],
               groups : SUBSET Groups, seenKey : Forms \cup {None}]
    BY CatalogAssumption DEF ClosedForm, StockCell
  <2>2. QED
    BY <1>9, <2>1 DEF FinishForm
<1>10. CASE UNCHANGED vars
  BY <1>10 DEF vars
<1>11. QED
  BY <1>1, <1>2, <1>3, <1>4, <1>5, <1>6, <1>7, <1>8, <1>9, <1>10 DEF Next, ProductForm
(***************************************************************************)
(* The units that orders hold, from one state to the next                  *)
(***************************************************************************)
\* No unit changes hands while the rows of the orders stay as they are.
LEMMA SameUnits ==
    ASSUME orders' = orders, status' = status, taken' = taken, NEW v
    PROVE  HeldUnits(v)' = HeldUnits(v)
  BY DEF HeldUnits, Holds

\* The commit of r adds what r took, and r held nothing before.
LEMMA CommitUnits ==
    ASSUME IInv, NEW r \in Attempts, CommitOrder(r), NEW v \in Variants
    PROVE  /\ \A u \in HeldUnits(v) : u[1] # r
           /\ HeldUnits(v)' = HeldUnits(v) \cup ({r} \X (1 .. Decide(r)[v]))
<1> USE DEF IInv, TypeOK
<1>1. r \notin orders
  BY DEF CommitOrder, SameOrder
<1>2. /\ orders' = orders \cup {r}
      /\ status' = [status EXCEPT ![r] = "PENDING"]
      /\ taken' = [taken EXCEPT ![r] = Decide(r)]
  BY DEF CommitOrder
<1>3. Decide(r)[v] \in 0 .. MaxQty /\ MaxQty \in Nat
  BY DecideFacts, BoundsAssumption
<1>4. \A o \in Attempts : Holds(o)' <=> Holds(o) \/ o = r
  BY <1>1, <1>2 DEF Holds
<1>5. \A o \in Attempts : taken'[o][v] = IF o = r THEN Decide(r)[v] ELSE taken[o][v]
  BY <1>2
<1>6. HeldUnits(v)' = {u \in Attempts \X (1 .. MaxQty) :
                         Holds(u[1])' /\ u[2] <= taken'[u[1]][v]}
  BY DEF HeldUnits
<1>7. ~ Holds(r)
  BY <1>1 DEF Holds
<1>8. \A u \in HeldUnits(v) : u[1] # r
  BY <1>7 DEF HeldUnits
<1>9. ASSUME NEW o \in Attempts, NEW n \in 1 .. MaxQty
      PROVE  <<o, n>> \in HeldUnits(v)' <=>
               <<o, n>> \in HeldUnits(v) \cup ({r} \X (1 .. Decide(r)[v]))
  <2>1. CASE o = r
    <3>1. <<o, n>> \in HeldUnits(v)' <=> n <= Decide(r)[v]
      BY <1>4, <1>5, <1>6, <2>1
    <3>2. <<o, n>> \notin HeldUnits(v)
      BY <1>8, <2>1
    <3>3. QED
      BY <1>3, <2>1, <3>1, <3>2
  <2>2. CASE o # r
    <3>1. <<o, n>> \in HeldUnits(v)' <=> Holds(o) /\ n <= taken[o][v]
      BY <1>4, <1>5, <1>6, <2>2
    <3>2. <<o, n>> \in HeldUnits(v) <=> Holds(o) /\ n <= taken[o][v]
      BY DEF HeldUnits
    <3>3. QED
      BY <2>2, <3>1, <3>2
  <2>3. QED
    BY <2>1, <2>2
<1>10. {r} \X (1 .. Decide(r)[v]) \subseteq Attempts \X (1 .. MaxQty)
  BY <1>3
<1>11. /\ HeldUnits(v) \subseteq Attempts \X (1 .. MaxQty)
       /\ HeldUnits(v)' \subseteq Attempts \X (1 .. MaxQty)
  BY DEF HeldUnits
<1>12. HeldUnits(v)' = HeldUnits(v) \cup ({r} \X (1 .. Decide(r)[v]))
  BY <1>9, <1>10, <1>11
<1>13. QED
  BY <1>8, <1>12

\* A cancellation takes exactly o's units out of what orders hold.
LEMMA CancelUnits ==
    ASSUME TypeOK, NEW o \in Attempts, ChangeStatus(o, "CANCELLED"), NEW v \in Variants
    PROVE  /\ \A u \in HeldUnits(v)' : u[1] # o
           /\ HeldUnits(v) = HeldUnits(v)' \cup ({o} \X (1 .. taken[o][v]))
<1> USE DEF TypeOK
<1>1. /\ o \in orders /\ status[o] # "CANCELLED"
      /\ orders' = orders /\ taken' = taken
      /\ status' = [status EXCEPT ![o] = "CANCELLED"]
  BY DEF ChangeStatus, SourcesOf, TRANSITIONS, Status
<1>2. taken[o][v] \in 0 .. MaxQty /\ MaxQty \in Nat
  BY BoundsAssumption
<1>3. \A q \in Attempts : Holds(q) <=> Holds(q)' \/ q = o
  BY <1>1 DEF Holds
<1>4. ~ Holds(o)'
  BY <1>1 DEF Holds
<1>5. HeldUnits(v)' = {u \in Attempts \X (1 .. MaxQty) :
                         Holds(u[1])' /\ u[2] <= taken[u[1]][v]}
  BY <1>1 DEF HeldUnits
<1>6. \A u \in HeldUnits(v)' : u[1] # o
  BY <1>4, <1>5
<1>7. ASSUME NEW q \in Attempts, NEW n \in 1 .. MaxQty
      PROVE  <<q, n>> \in HeldUnits(v) <=>
               <<q, n>> \in HeldUnits(v)' \cup ({o} \X (1 .. taken[o][v]))
  <2>1. <<q, n>> \in HeldUnits(v) <=> Holds(q) /\ n <= taken[q][v]
    BY DEF HeldUnits
  <2>2. <<q, n>> \in HeldUnits(v)' <=> Holds(q)' /\ n <= taken[q][v]
    BY <1>5
  <2>3. CASE q = o
    BY <1>2, <1>3, <1>6, <2>1, <2>3
  <2>4. CASE q # o
    BY <1>3, <2>1, <2>2, <2>4
  <2>5. QED
    BY <2>3, <2>4
<1>8. {o} \X (1 .. taken[o][v]) \subseteq Attempts \X (1 .. MaxQty)
  BY <1>2
<1>9. /\ HeldUnits(v) \subseteq Attempts \X (1 .. MaxQty)
      /\ HeldUnits(v)' \subseteq Attempts \X (1 .. MaxQty)
  BY DEF HeldUnits
<1>10. HeldUnits(v) = HeldUnits(v)' \cup ({o} \X (1 .. taken[o][v]))
  BY <1>7, <1>8, <1>9
<1>11. QED
  BY <1>6, <1>10

\* Any other status change moves no unit.
LEMMA AdvanceUnits ==
    ASSUME TypeOK, NEW o \in Attempts, NEW to \in Status, to # "CANCELLED",
           ChangeStatus(o, to), NEW v
    PROVE  HeldUnits(v)' = HeldUnits(v)
<1>1. /\ o \in orders /\ status[o] # "CANCELLED"
      /\ orders' = orders /\ taken' = taken
      /\ status' = [status EXCEPT ![o] = to]
  BY DEF ChangeStatus, SourcesOf, TRANSITIONS, Status
<1>2. \A q \in Attempts : Holds(q)' <=> Holds(q)
  BY <1>1 DEF Holds, TypeOK
<1>3. QED
  BY <1>1, <1>2 DEF HeldUnits
(***************************************************************************)
(* The invariant                                                           *)
(***************************************************************************)
\* No form is open on the first table.
LEMMA FormInit == Init => FormFacts
<1> SUFFICES ASSUME Init PROVE FormFacts
  OBVIOUS
<1>1. \A f \in Forms : form[f].pc = "closed"
  BY DEF Init, ClosedForm
<1>2. \A p \in Products : saveKey[p] = None
  BY DEF Init
<1>3. \A f \in Forms : ~ Landed(f)
  BY <1>1, <1>2, CatalogAssumption, MarksAssumption DEF Landed
<1>4. QED
  BY <1>1, <1>2, <1>3 DEF FormFacts

\* The invariant holds of the first table.
LEMMA InvInit == Init => IInv
<1> SUFFICES ASSUME Init PROVE IInv
  OBVIOUS
<1>1. TypeOK
  BY TypeInit
<1>2. HandlerFacts
  BY MarksAssumption DEF Init, HandlerFacts
<1>3. OneOrderPerKey
  BY DEF Init, OneOrderPerKey
<1>4. ASSUME NEW v \in Variants, Limited(v)
      PROVE  stock[v] + Cardinality(HeldUnits(v)) = supply[v]
  <2>1. HeldUnits(v) = {}
    BY DEF Init, HeldUnits, Holds
  <2>2. Cardinality(HeldUnits(v)) = 0
    BY <2>1, FS_EmptySet
  <2>3. stock[v] \in Nat /\ supply[v] = stock[v]
    BY <1>4 DEF Init, Limited
  <2>4. QED
    BY <2>2, <2>3
<1>5. QED
  BY <1>1, <1>2, <1>3, <1>4, FormInit DEF IInv, StockConserved

\* Every step keeps one order a key.
LEMMA KeysStep == IInv /\ [Next]_vars => OneOrderPerKey'
<1> SUFFICES ASSUME IInv, [Next]_vars PROVE OneOrderPerKey'
  OBVIOUS
<1> USE DEF OneOrderPerKey, SameOrder
<1>1. OneOrderPerKey
  BY DEF IInv
<1>2. ASSUME NEW r \in Attempts, CommitOrder(r) PROVE OneOrderPerKey'
  BY <1>1, <1>2 DEF CommitOrder
<1>3. ASSUME orders' \subseteq orders PROVE OneOrderPerKey'
  BY <1>1, <1>3
<1>4. ASSUME \A r \in Attempts : ~ CommitOrder(r) PROVE orders' \subseteq orders
  BY <1>4
  DEF Next, CreateOrder, RepeatOf, AssertRate, AssertPendingCap, RefuseInput, DuplicateKey,
      ReadWinner, Answer, Lose, ChangeStatus, WindowPasses, ClearOrders, SetActive,
      DeleteProduct, ProductForm, OpenForm, SaveForm, FinishForm, shopVars, orderVars, vars
<1>5. QED
  BY <1>2, <1>3, <1>4

\* Every step keeps what handlers and answers say of the rows.
LEMMA FactsStep == IInv /\ [Next]_vars => HandlerFacts'
<1> SUFFICES ASSUME IInv, [Next]_vars, NEW r \in Attempts
             PROVE  /\ pc'[r] \in {"idle", "rate", "pending", "ready", "conflict"}
                         => answer'[r] = None
                    /\ r \in orders' => answer'[r] = r
                    /\ answer'[r] # r => status'[r] = "PENDING"
                    /\ answer'[r] # None => SameOrder(r, answer'[r])
                    /\ answer'[r] # None /\ clears' = 0 => answer'[r] \in orders'
  BY DEF HandlerFacts, SameOrder
<1> USE MarksAssumption
<1>1. /\ pc[r] \in {"idle", "rate", "pending", "ready", "conflict"} => answer[r] = None
      /\ r \in orders => answer[r] = r
      /\ answer[r] # r => status[r] = "PENDING"
      /\ answer[r] # None => SameOrder(r, answer[r])
      /\ answer[r] # None /\ clears = 0 => answer[r] \in orders
  BY DEF IInv, HandlerFacts
<1>2. /\ pc \in [Attempts -> {"idle", "rate", "pending", "ready", "conflict", "committed",
                             "answered", "refused", "failed"}]
      /\ answer \in [Attempts -> Attempts \cup {None}]
      /\ orders \subseteq Attempts
      /\ status \in [Attempts -> Status]
      /\ clears \in Nat
  BY DEF IInv, TypeOK
<1>3. ASSUME NEW q \in Attempts, CreateOrder(q)
      PROVE  /\ pc'[r] \in {"idle", "rate", "pending", "ready", "conflict"}
                  => answer'[r] = None
             /\ r \in orders' => answer'[r] = r
             /\ answer'[r] # r => status'[r] = "PENDING"
             /\ answer'[r] # None => SameOrder(r, answer'[r])
             /\ answer'[r] # None /\ clears' = 0 => answer'[r] \in orders'
  <2> USE DEF shopVars, orderVars, adminVars
  <2>1. CASE RepeatOf(q)
    <3>1. orders' = orders /\ status' = status /\ clears' = clears
      BY <2>1 DEF RepeatOf
    <3>2. answer[q] = None /\ q \notin orders
      BY <2>1 DEF RepeatOf, IInv, HandlerFacts
    <3>3. CASE r # q
      BY <1>1, <1>2, <2>1, <3>1, <3>3 DEF RepeatOf
    <3>4. CASE r = q /\ \E o \in orders : SameOrder(q, o)
      BY <1>1, <1>2, <2>1, <3>1, <3>2, <3>4 DEF RepeatOf
    <3>5. CASE r = q /\ ~ \E o \in orders : SameOrder(q, o)
      BY <1>1, <1>2, <2>1, <3>1, <3>2, <3>5 DEF RepeatOf
    <3>6. QED
      BY <3>3, <3>4, <3>5
  <2>2. CASE ReadWinner(q)
    <3>1. orders' = orders /\ status' = status /\ clears' = clears
      BY <2>2 DEF ReadWinner
    <3>2. answer[q] = None /\ q \notin orders
      BY <2>2 DEF ReadWinner, IInv, HandlerFacts
    <3>3. CASE r # q
      BY <1>1, <1>2, <2>2, <3>1, <3>3 DEF ReadWinner
    <3>4. CASE r = q /\ \E o \in orders : SameOrder(q, o)
      BY <1>1, <1>2, <2>2, <3>1, <3>2, <3>4 DEF ReadWinner
    <3>5. CASE r = q /\ ~ \E o \in orders : SameOrder(q, o)
      BY <1>1, <1>2, <2>2, <3>1, <3>2, <3>5 DEF ReadWinner
    <3>6. QED
      BY <3>3, <3>4, <3>5
  <2>3. CASE CommitOrder(q)
    BY <1>1, <1>2, <2>3 DEF CommitOrder, SameOrder
  <2>4. CASE AssertRate(q) \/ AssertPendingCap(q)
    BY <1>1, <1>2, <2>4 DEF AssertRate, AssertPendingCap
  <2>5. CASE RefuseInput(q) \/ DuplicateKey(q)
    BY <1>1, <1>2, <2>5 DEF RefuseInput, DuplicateKey
  <2>6. CASE Answer(q) \/ Lose(q)
    BY <1>1, <1>2, <2>6 DEF Answer, Lose
  <2>7. QED
    BY <1>3, <2>1, <2>2, <2>3, <2>4, <2>5, <2>6 DEF CreateOrder
<1>4. ASSUME NEW o \in Attempts, NEW to \in Status, ChangeStatus(o, to)
      PROVE  /\ pc'[r] \in {"idle", "rate", "pending", "ready", "conflict"}
                  => answer'[r] = None
             /\ r \in orders' => answer'[r] = r
             /\ answer'[r] # r => status'[r] = "PENDING"
             /\ answer'[r] # None => SameOrder(r, answer'[r])
             /\ answer'[r] # None /\ clears' = 0 => answer'[r] \in orders'
  <2>1. /\ o \in orders /\ status' = [status EXCEPT ![o] = to]
        /\ orders' = orders /\ pc' = pc /\ answer' = answer /\ clears' = clears
    BY <1>4 DEF ChangeStatus, handlerVars, adminVars
  <2>2. answer[o] = o
    BY <2>1 DEF IInv, HandlerFacts
  <2>3. QED
    BY <1>1, <1>2, <2>1, <2>2
<1>5. CASE ClearOrders
  BY <1>1, <1>2, <1>5 DEF ClearOrders, handlerVars
<1>6. ASSUME UNCHANGED <<orders, status, handlerVars, clears>>
      PROVE  /\ pc'[r] \in {"idle", "rate", "pending", "ready", "conflict"}
                  => answer'[r] = None
             /\ r \in orders' => answer'[r] = r
             /\ answer'[r] # r => status'[r] = "PENDING"
             /\ answer'[r] # None => SameOrder(r, answer'[r])
             /\ answer'[r] # None /\ clears' = 0 => answer'[r] \in orders'
  BY <1>1, <1>6 DEF handlerVars
<1>7. QED
  BY <1>3, <1>4, <1>5, <1>6
  DEF Next, WindowPasses, SetActive, DeleteProduct, ProductForm, OpenForm, SaveForm,
      FinishForm, orderVars, adminVars, vars

\* Every step keeps the balance of the stock.
LEMMA StockStep == IInv /\ [Next]_vars => StockConserved'
<1> SUFFICES ASSUME IInv, [Next]_vars, NEW v \in Variants, Limited(v)'
             PROVE  stock'[v] + Cardinality(HeldUnits(v)') = supply'[v]
  BY DEF StockConserved
<1>1. TypeOK /\ StockConserved
  BY DEF IInv
<1>2. /\ stock[v] \in StockCell /\ supply[v] \in Nat /\ stock'[v] \in Nat
      /\ Limited(v) => stock[v] + Cardinality(HeldUnits(v)) = supply[v]
  BY <1>1 DEF TypeOK, StockConserved, Limited
<1>3. /\ IsFiniteSet(HeldUnits(v)) /\ Cardinality(HeldUnits(v)) \in Nat
      /\ IsFiniteSet(HeldUnits(v)') /\ Cardinality(HeldUnits(v)') \in Nat
  <2>1. HeldUnits(v)' \in SUBSET (Attempts \X (1 .. MaxQty))
    BY DEF HeldUnits
  <2>2. IsFiniteSet(1 .. MaxQty)
    BY BoundsAssumption, FS_Interval
  <2>3. IsFiniteSet(Attempts \X (1 .. MaxQty))
    BY <2>2, AttemptsAssumption, FS_Product
  <2>4. IsFiniteSet(HeldUnits(v)') /\ Cardinality(HeldUnits(v)') \in Nat
    BY <2>1, <2>3, FS_Subset, FS_CardinalityType
  <2>5. QED
    BY <2>4, HeldUnitsFinite
<1>4. ASSUME NEW r \in Attempts, CommitOrder(r)
      PROVE  stock'[v] + Cardinality(HeldUnits(v)') = supply'[v]
  <2>1. /\ Decide(r)[v] \in 0 .. MaxQty
        /\ Decide(r)[v] > 0 => Limited(v)
        /\ Limited(v) => Decide(r)[v] <= stock[v]
    BY <1>1, DecideFacts
  <2>2. /\ supply'[v] = supply[v]
        /\ stock'[v] = IF Decide(r)[v] > 0 THEN LeftOf(stock[v], Decide(r)[v]) ELSE stock[v]
    BY <1>4 DEF CommitOrder, adminVars
  <2>3. Limited(v)
    BY <1>2, <2>1, <2>2 DEF Limited
  <2>4. stock'[v] = stock[v] - Decide(r)[v]
    BY <2>1, <2>2, <2>3, UnlimitedIsNoNumber, BoundsAssumption DEF LeftOf, Limited
  <2>5. Decide(r)[v] \in Nat
    BY <2>1, BoundsAssumption
  <2>6. Cardinality(HeldUnits(v)') = Cardinality(HeldUnits(v)) + Decide(r)[v]
    <3>1. /\ \A u \in HeldUnits(v) : u[1] # r
          /\ HeldUnits(v)' = HeldUnits(v) \cup ({r} \X (1 .. Decide(r)[v]))
      BY <1>4, CommitUnits
    <3>2. Cardinality(HeldUnits(v) \cup ({r} \X (1 .. Decide(r)[v])))
            = Cardinality(HeldUnits(v)) + Decide(r)[v]
      BY <1>3, <2>5, <3>1, AddUnits, Zenon
    <3>3. QED
      BY <3>1, <3>2, Zenon
  <2>7. QED
    BY <1>2, <1>3, <2>2, <2>3, <2>4, <2>5, <2>6 DEF Limited
<1>5. ASSUME NEW o \in Attempts, ChangeStatus(o, "CANCELLED")
      PROVE  stock'[v] + Cardinality(HeldUnits(v)') = supply'[v]
  <2>1. taken[o][v] \in Nat
    BY <1>1, BoundsAssumption DEF TypeOK
  <2>2. /\ supply'[v] = supply[v]
        /\ stock'[v] = IF Limited(v) /\ taken[o][v] > 0
                       THEN stock[v] + taken[o][v] ELSE stock[v]
    BY <1>5 DEF ChangeStatus, adminVars
  <2>3. Limited(v)
    BY <1>2, <2>2 DEF Limited
  <2>4. stock'[v] = stock[v] + taken[o][v]
    BY <2>1, <2>2, <2>3 DEF Limited
  <2>5. /\ \A u \in HeldUnits(v)' : u[1] # o
        /\ HeldUnits(v) = HeldUnits(v)' \cup ({o} \X (1 .. taken[o][v]))
    BY <1>1, <1>5, CancelUnits
  <2>6. Cardinality(HeldUnits(v)) = Cardinality(HeldUnits(v)') + taken[o][v]
    <3>1. Cardinality(HeldUnits(v)' \cup ({o} \X (1 .. taken[o][v])))
            = Cardinality(HeldUnits(v)') + taken[o][v]
      BY <1>3, <2>1, <2>5, AddUnits, Zenon
    <3>2. QED
      BY <2>5, <3>1, Zenon
  <2>7. QED
    BY <1>2, <1>3, <2>1, <2>2, <2>3, <2>4, <2>6 DEF Limited
<1>6. ASSUME NEW o \in Attempts, NEW to \in Status, to # "CANCELLED", ChangeStatus(o, to)
      PROVE  stock'[v] + Cardinality(HeldUnits(v)') = supply'[v]
  <2>1. stock' = stock /\ supply' = supply
    BY <1>6 DEF ChangeStatus, adminVars
  <2>2. HeldUnits(v)' = HeldUnits(v)
    BY <1>1, <1>6, AdvanceUnits
  <2>3. QED
    BY <1>2, <2>1, <2>2 DEF Limited
<1>7. CASE ClearOrders
  <2>1. HeldUnits(v)' = {}
    BY <1>7 DEF ClearOrders, HeldUnits, Holds
  <2>2. Cardinality(HeldUnits(v)') = 0
    BY <2>1, FS_EmptySet
  <2>3. stock' = stock /\ supply'[v] = IF Limited(v) THEN stock[v] ELSE supply[v]
    BY <1>7 DEF ClearOrders
  <2>4. QED
    BY <1>2, <2>2, <2>3 DEF Limited
<1>8. ASSUME NEW f \in Forms, SaveForm(f)
      PROVE  stock'[v] + Cardinality(HeldUnits(v)') = supply'[v]
  <2>1. PICK want \in [VariantsOf(FormProduct[f]) -> StockChoices \cup {Gone}] :
          /\ stock' = [w \in Variants |-> SavedCell(f, want, w)]
          /\ supply' = [w \in Variants |-> IF ProductOf[w] = FormProduct[f]
                                           THEN SuppliedUnits(f, want, w) ELSE supply[w]]
    BY <1>8 DEF SaveForm
  <2>2. form[f].pc = "open"
    BY <1>8 DEF SaveForm
  <2>3. HeldUnits(v)' = HeldUnits(v)
    BY <1>8, SameUnits DEF SaveForm, orderVars
  <2>4. stock'[v] = SavedCell(f, want, v)
    BY <2>1
  <2>5. CASE ProductOf[v] = FormProduct[f]
    BY <1>1, <1>2, <2>1, <2>2, <2>3, <2>4, <2>5, SaveFacts
  <2>6. CASE ProductOf[v] # FormProduct[f]
    <3>1. stock'[v] = stock[v] /\ supply'[v] = supply[v]
      BY <1>1, <2>1, <2>2, <2>4, <2>6, SaveFacts
    <3>2. QED
      BY <1>2, <2>3, <3>1 DEF Limited
  <2>7. QED
    BY <2>5, <2>6
<1>9. ASSUME NEW p \in Products, DeleteProduct(p)
      PROVE  stock'[v] + Cardinality(HeldUnits(v)') = supply'[v]
  <2>1. HeldUnits(v)' = HeldUnits(v)
    BY <1>9, SameUnits DEF DeleteProduct, orderVars
  <2>2. stock'[v] = stock[v] /\ supply'[v] = supply[v]
    BY <1>2, <1>9, MarksAssumption DEF DeleteProduct
  <2>3. QED
    BY <1>2, <2>1, <2>2 DEF Limited
<1>10. ASSUME UNCHANGED <<stock, supply, orders, status, taken>>
       PROVE  stock'[v] + Cardinality(HeldUnits(v)') = supply'[v]
  <2>1. HeldUnits(v)' = HeldUnits(v)
    BY <1>10, SameUnits
  <2>2. QED
    BY <1>2, <1>10, <2>1 DEF Limited
<1>11. ASSUME NEW r \in Attempts, CreateOrder(r), ~ CommitOrder(r)
       PROVE  UNCHANGED <<stock, supply, orders, status, taken>>
  BY <1>11
  DEF CreateOrder, RepeatOf, AssertRate, AssertPendingCap, RefuseInput, DuplicateKey,
      ReadWinner, Answer, Lose, shopVars, orderVars, adminVars
<1>12. QED
  BY <1>4, <1>5, <1>6, <1>7, <1>8, <1>9, <1>10, <1>11
  DEF Next, WindowPasses, SetActive, ProductForm, OpenForm, FinishForm, orderVars,
      adminVars, vars

(***************************************************************************)
(* The keys of the product form                                            *)
(***************************************************************************)
\* Opening a form, finishing it and saving it are the steps that move keys.
LEMMA FormKeeps ==
    ASSUME FormFacts, saveKey' = saveKey, form' = form, groupsOf' = groupsOf
    PROVE  FormFacts'
<1>1. \A f \in Forms : Landed(f)' <=> Landed(f)
  BY DEF Landed
<1>2. QED
  BY <1>1 DEF FormFacts

\* Every step keeps a replaced key from coming back.
LEMMA FormStep == IInv /\ [Next]_vars => FormFacts'
<1> SUFFICES ASSUME TypeOK, FormFacts, [Next]_vars PROVE FormFacts'
  BY DEF IInv
<1>0. /\ FormProduct \in [Forms -> Products] /\ None \notin Forms
      /\ saveKey \in [Products -> Forms \cup {None}]
      /\ groupsOf \in [Products -> SUBSET Groups]
  BY CatalogAssumption, MarksAssumption DEF TypeOK
<1>1. ASSUME NEW f \in Forms, OpenForm(f) PROVE FormFacts'
  <2> DEFINE p == FormProduct[f]
             y == [pc |-> "open", saw |-> stock, groups |-> groupsOf[p], seenKey |-> saveKey[p]]
  <2>1. /\ form[f].pc = "closed" /\ saveKey' = saveKey /\ groupsOf' = groupsOf
        /\ form'[f] = y
        /\ \A g \in Forms : g # f => form'[g] = form[g]
    BY <1>1 DEF OpenForm, productVars, TypeOK
  <2>2. /\ form'[f].pc = "open" /\ form'[f].groups = groupsOf[p]
        /\ form'[f].seenKey = saveKey[p]
    BY <2>1
  <2>3. p \in Products /\ p = FormProduct[f]
    BY <1>0
  <2> HIDE DEF p, y
  <2>4. ~ Landed(f) /\ saveKey[p] # f
    BY <2>1, <2>3 DEF FormFacts, Landed
  <2>5. ASSUME NEW g \in Forms, Landed(g)' PROVE g # f /\ (Landed(g) \/ saveKey[p] = g)
    <3>1. CASE saveKey[FormProduct[g]] = g
      BY <2>4, <3>1 DEF Landed
    <3>2. CASE saveKey[FormProduct[g]] # g
      <4>1. PICK h \in Forms : form'[h].pc = "open" /\ form'[h].seenKey = g
        BY <2>1, <2>5, <3>2 DEF Landed
      <4>2. CASE h = f
        BY <2>2, <2>4, <4>1, <4>2
      <4>3. CASE h # f
        BY <2>1, <2>4, <4>1, <4>3 DEF Landed
      <4>4. QED
        BY <4>2, <4>3
    <3>3. QED
      BY <3>1, <3>2
  <2>6. \A g \in Forms : saveKey[p] = g => Landed(g)
    BY <1>0, <2>3 DEF FormFacts, Landed
  <2>7. \A g \in Forms : Landed(g)' => g # f /\ Landed(g)
    BY <2>5, <2>6
  <2>8. saveKey[p] # None => FormProduct[saveKey[p]] = p
    BY <2>3 DEF FormFacts
  <2>9. QED
    BY <2>1, <2>2, <2>3, <2>7, <2>8 DEF FormFacts
<1>2. ASSUME NEW f \in Forms, SaveForm(f) PROVE FormFacts'
  <2> DEFINE p == FormProduct[f]
  <2>1. PICK groups \in SUBSET Groups : groupsOf' = [groupsOf EXCEPT ![p] = groups]
    BY <1>2 DEF SaveForm
  <2>2. /\ form[f].pc = "open" /\ saveKey[p] # f /\ saveKey[p] = form[f].seenKey
        /\ saveKey' = [saveKey EXCEPT ![p] = f] /\ form' = form
    BY <1>2 DEF SaveForm
  <2>3. p \in Products /\ p = FormProduct[f]
    BY <1>0
  <2> HIDE DEF p
  <2>4. /\ saveKey'[p] = f /\ \A q \in Products : q # p => saveKey'[q] = saveKey[q]
        /\ \A q \in Products : q # p => groupsOf'[q] = groupsOf[q]
    BY <1>0, <2>1, <2>2, <2>3
  <2>5. ~ Landed(f)
    BY <2>2, <2>3 DEF FormFacts
  <2>6. \A g \in Forms : form[g].pc = "open" => form[g].seenKey # f
    BY <2>5 DEF Landed
  <2>7. \A g \in Forms : Landed(g)' => g = f \/ Landed(g)
    BY <1>0, <2>2, <2>3, <2>4 DEF Landed
  <2>8. \A q \in Products : saveKey'[q] # None => FormProduct[saveKey'[q]] = q
    BY <1>0, <2>3, <2>4 DEF FormFacts
  <2>9. ASSUME NEW g \in Forms
        PROVE  /\ form[g].pc = "open" /\ form[g].seenKey # None
                     => FormProduct[form[g].seenKey] = FormProduct[g]
               /\ Landed(g)' => form[g].pc # "closed"
               /\ Landed(g)' /\ form[g].pc = "open" => saveKey'[FormProduct[g]] # form[g].seenKey
               /\ form[g].pc = "open" /\ saveKey'[FormProduct[g]] = form[g].seenKey
                     => form[g].groups = groupsOf'[FormProduct[g]]
    <3>1. FormProduct[g] \in Products
      BY <1>0
    <3>2. CASE FormProduct[g] = p
      BY <2>2, <2>4, <2>6, <2>7, <3>2 DEF FormFacts
    <3>3. CASE FormProduct[g] # p
      BY <2>2, <2>3, <2>4, <2>7, <3>1, <3>3 DEF FormFacts
    <3>4. QED
      BY <3>2, <3>3
  <2>10. QED
    BY <2>2, <2>8, <2>9 DEF FormFacts
<1>3. ASSUME NEW f \in Forms, FinishForm(f) PROVE FormFacts'
  <2>1. /\ form[f].pc = "open" /\ saveKey' = saveKey /\ groupsOf' = groupsOf
        /\ form'[f].pc = "done" /\ \A g \in Forms : g # f => form'[g] = form[g]
    BY <1>3 DEF FinishForm, ClosedForm, productVars, TypeOK
  <2>2. \A g \in Forms : Landed(g)' => Landed(g)
    BY <2>1 DEF Landed
  <2>3. QED
    BY <2>1, <2>2 DEF FormFacts
<1>4. CASE \A f \in Forms : ~ ProductForm(f)
  <2>1. UNCHANGED <<saveKey, form, groupsOf>>
    BY <1>4
    DEF Next, CreateOrder, RepeatOf, AssertRate, AssertPendingCap, RefuseInput, CommitOrder,
        DuplicateKey, ReadWinner, Answer, Lose, ChangeStatus, WindowPasses, ClearOrders,
        SetActive, DeleteProduct, shopVars, productVars, adminVars, vars
  <2>2. QED
    BY <2>1, FormKeeps
<1>5. QED
  BY <1>1, <1>2, <1>3, <1>4 DEF ProductForm

\* Every step keeps the invariant.
LEMMA InvStep == IInv /\ [Next]_vars => IInv'
  BY TypeStep, KeysStep, FactsStep, StockStep, FormStep DEF IInv

\* The inductive invariant of the shop.
LEMMA InvIsInvariant == Spec => []IInv
<1>1. Init => IInv
  BY InvInit
<1>2. IInv /\ [Next]_vars => IInv'
  BY InvStep
<1>3. QED
  BY <1>1, <1>2, PTL DEF Spec

(***************************************************************************)
(* The theorems                                                            *)
(***************************************************************************)
\* Every variable of the shop keeps its type.
THEOREM TypeCorrect == Spec => []TypeOK
<1>1. IInv => TypeOK
  BY DEF IInv
<1>2. QED
  BY InvIsInvariant, <1>1, PTL

\* No unit is sold twice, lost or returned twice (createOrder, changeStatus,
\* updateProduct): for any number of customers, variants and admins.
THEOREM StockIsConserved == Spec => []StockConserved
<1>1. IInv => StockConserved
  BY DEF IInv
<1>2. QED
  BY InvIsInvariant, <1>1, PTL

\* However many attempts share a clientKey, at most one of them inserts an order.
THEOREM PaidOnce == Spec => []OneOrderPerKey
<1>1. IInv => OneOrderPerKey
  BY DEF IInv
<1>2. QED
  BY InvIsInvariant, <1>1, PTL

\* Attempts of one payment hear of one order, until all orders are deleted.
THEOREM AttemptsAgree == Spec => []AnswersAgree
<1>1. IInv => AnswersAgree
  <2> SUFFICES ASSUME IInv, NEW r1 \in Attempts, NEW r2 \in Attempts,
                      SameOrder(r1, r2), answer[r1] # None, answer[r2] # None, clears = 0
               PROVE  answer[r1] = answer[r2]
    BY DEF AnswersAgree
  <2>1. /\ answer[r1] \in orders /\ SameOrder(r1, answer[r1])
        /\ answer[r2] \in orders /\ SameOrder(r2, answer[r2])
    BY DEF IInv, HandlerFacts
  <2>2. SameOrder(answer[r1], answer[r2])
    BY <2>1 DEF SameOrder
  <2>3. QED
    BY <2>1, <2>2 DEF IInv, OneOrderPerKey
<1>2. QED
  BY InvIsInvariant, <1>1, PTL

\* A save lands only on the groups its form has shown: one loaded before somebody else's save
\* is refused, in whatever order forms are opened, saved and retried.
THEOREM SavesSeeWhatTheyReplace == Spec => NoSaveReverted
<1>1. ASSUME IInv, Next, NEW f \in Forms,
             saveKey[FormProduct[f]] # f, saveKey'[FormProduct[f]] = f
      PROVE  form[f].groups = groupsOf[FormProduct[f]]
  <2>1. saveKey' # saveKey
    BY <1>1
  <2>2. PICK g \in Forms : SaveForm(g)
    BY <1>1, <2>1
    DEF Next, CreateOrder, RepeatOf, AssertRate, AssertPendingCap, RefuseInput, CommitOrder,
        DuplicateKey, ReadWinner, Answer, Lose, ChangeStatus, WindowPasses, ClearOrders,
        SetActive, DeleteProduct, ProductForm, OpenForm, FinishForm, shopVars, productVars
  <2>3. /\ form[g].pc = "open" /\ saveKey[FormProduct[g]] = form[g].seenKey
        /\ saveKey' = [saveKey EXCEPT ![FormProduct[g]] = g]
    BY <2>2 DEF SaveForm
  <2>4. FormProduct[f] \in Products /\ saveKey \in [Products -> Forms \cup {None}]
    BY <1>1, CatalogAssumption DEF IInv, TypeOK
  <2>5. g = f
    BY <1>1, <2>3, <2>4
  <2>6. QED
    BY <1>1, <2>3, <2>5 DEF IInv, FormFacts
<1>2. ASSUME IInv, [Next]_vars, NEW f \in Forms,
             saveKey[FormProduct[f]] # f, saveKey'[FormProduct[f]] = f
      PROVE  form[f].groups = groupsOf[FormProduct[f]]
  BY <1>1, <1>2 DEF vars, productVars
<1>3. IInv /\ [Next]_vars
        => [\A f \in Forms :
              /\ saveKey[FormProduct[f]] # f
              /\ saveKey'[FormProduct[f]] = f
              => form[f].groups = groupsOf[FormProduct[f]]]_vars
  BY <1>2
<1>4. QED
  BY <1>3, InvIsInvariant, PTL DEF Spec, NoSaveReverted

\* The rows of MerchOrder implement the lifecycle the shop promises for an order:
\* each step of the handlers is a step of OrderLifecycle or leaves the order alone.
THEOREM LifecycleImplemented == Spec => ImplementsLifecycle
<1> DEFINE dead == {o \in Attempts : answer[o] = o} \ orders
<1>1. Init => Lifecycle!LifecycleInit
  BY MarksAssumption DEF Init, Lifecycle!LifecycleInit
<1>2. IInv /\ [Next]_vars => [Lifecycle!LifecycleNext]_(Lifecycle!lifecycleVars)
  <2> SUFFICES ASSUME IInv, [Next]_vars
               PROVE  [Lifecycle!LifecycleNext]_(Lifecycle!lifecycleVars)
    OBVIOUS
  <2>1. /\ \A o \in orders : answer[o] = o
        /\ \A o \in Attempts : answer[o] # o => status[o] = "PENDING"
        /\ \A o \in Attempts :
             pc[o] \in {"idle", "rate", "pending", "ready", "conflict"} => answer[o] = None
    BY DEF IInv, TypeOK, HandlerFacts
  <2>2. /\ orders \subseteq Attempts
        /\ status \in [Attempts -> Status]
        /\ answer \in [Attempts -> Attempts \cup {None}]
    BY DEF IInv, TypeOK
  <2>3. ASSUME NEW r \in Attempts, CommitOrder(r) PROVE Lifecycle!Place(r)
    <3>1. /\ orders' = orders \cup {r} /\ answer' = [answer EXCEPT ![r] = r]
          /\ status' = [status EXCEPT ![r] = "PENDING"] /\ answer[r] = None
          /\ None \notin Attempts
      BY <2>1, <2>3, MarksAssumption DEF CommitOrder
    <3>2. r \notin orders \cup dead
      BY <2>1, <3>1
    <3>3. status[r] = "PENDING" /\ status' = status
      BY <2>1, <2>2, <3>1
    <3>4. dead' = dead
      BY <2>1, <2>2, <3>1
    <3>5. QED
      BY <3>1, <3>2, <3>3, <3>4 DEF Lifecycle!Place
  <2>4. ASSUME NEW o \in Attempts, NEW to \in Status, ChangeStatus(o, to)
        PROVE  Lifecycle!Advance(o, to)
    BY <2>4
    DEF ChangeStatus, handlerVars, Lifecycle!Advance, SourcesOf, Lifecycle!SourcesOf,
        TRANSITIONS, Lifecycle!TRANSITIONS, Status, Lifecycle!Status
  <2>5. ASSUME ClearOrders PROVE Lifecycle!DeleteAll
    <3>1. orders' = {} /\ status' = status /\ answer' = answer
      BY <2>5 DEF ClearOrders, handlerVars
    <3>2. dead' = dead \cup orders
      BY <2>1, <2>2, <3>1
    <3>3. QED
      BY <3>1, <3>2 DEF Lifecycle!DeleteAll
  <2>6. ASSUME UNCHANGED <<orders, status>>, dead' = dead
        PROVE  UNCHANGED Lifecycle!lifecycleVars
    BY <2>6 DEF Lifecycle!lifecycleVars
  <2>7. ASSUME NEW r \in Attempts, RepeatOf(r) \/ ReadWinner(r)
        PROVE  UNCHANGED Lifecycle!lifecycleVars
    <3>1. UNCHANGED <<orders, status>>
      BY <2>7 DEF RepeatOf, ReadWinner, shopVars, orderVars
    <3>2. answer[r] = None /\ r \notin orders /\ None \notin Attempts
      BY <2>1, <2>7, MarksAssumption DEF RepeatOf, ReadWinner
    <3>3. answer' = answer \/ \E o \in orders : answer' = [answer EXCEPT ![r] = o]
      BY <2>7 DEF RepeatOf, ReadWinner
    <3>4. \A q \in Attempts : answer'[q] = q <=> answer[q] = q
      BY <2>2, <3>2, <3>3
    <3>5. dead' = dead
      BY <3>1, <3>4
    <3>6. QED
      BY <2>6, <3>1, <3>5
  <2>8. ASSUME UNCHANGED <<orders, status, answer>>
        PROVE  UNCHANGED Lifecycle!lifecycleVars
    BY <2>8 DEF Lifecycle!lifecycleVars
  <2>9. ASSUME NEW r \in Attempts, CreateOrder(r)
        PROVE  \/ Lifecycle!Place(r)
               \/ UNCHANGED Lifecycle!lifecycleVars
    BY <2>3, <2>7, <2>8, <2>9
    DEF CreateOrder, AssertRate, AssertPendingCap, RefuseInput, DuplicateKey, Answer, Lose,
        shopVars, orderVars
  <2>10. CASE \E r \in Attempts : CreateOrder(r)
    BY <2>9, <2>10 DEF Lifecycle!LifecycleNext
  <2>11. CASE \E o \in Attempts, to \in Status : ChangeStatus(o, to)
    BY <2>4, <2>11
    DEF Lifecycle!LifecycleNext, Status, Lifecycle!Status
  <2>12. CASE ClearOrders
    BY <2>5, <2>12 DEF Lifecycle!LifecycleNext
  <2>13. CASE \/ WindowPasses
              \/ \E p \in Products : SetActive(p) \/ DeleteProduct(p)
              \/ \E f \in Forms : ProductForm(f)
              \/ UNCHANGED vars
    BY <2>8, <2>13
    DEF WindowPasses, SetActive, DeleteProduct, ProductForm, OpenForm, SaveForm, FinishForm,
        orderVars, handlerVars, vars
  <2>14. QED
    BY <2>10, <2>11, <2>12, <2>13 DEF Next
<1>3. QED
  BY <1>1, <1>2, InvIsInvariant, PTL DEF Spec, ImplementsLifecycle, Lifecycle!LifecycleSpec
=============================================================================

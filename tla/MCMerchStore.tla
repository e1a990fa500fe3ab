---------------------------- MODULE MCMerchStore ----------------------------
(* Two tabs paying for one cart and a second customer after the same units,  *)
(* or one customer and two admins at the product form.                       *)
EXTENDS MerchStore, TLC

CONSTANTS a1, a2, b1, c1, c2, k1, k2, v1, v2, p1, g1, f1, f2

MCKeyOf == [r \in Attempts |-> IF r = b1 THEN k2 ELSE k1]
MCCustomerOf == [r \in Attempts |-> IF r = b1 THEN c2 ELSE c1]
PaymentCart == k1 :> (v1 :> 1 @@ v2 :> 1) @@ k2 :> (v1 :> 2 @@ v2 :> 1)
MCCartOf == [r \in Attempts |-> [v \in Variants |-> PaymentCart[MCKeyOf[r]][v]]]
MCSymmetry == Permutations({a1, a2})
MCProductOf == [v \in Variants |-> p1]
MCMemberOf == c1 :> {g1} @@ c2 :> {}
MCFormProduct == [f \in Forms |-> p1]
LimitOrNone == {3, Unlimited}
BothOnSale == [v \in Variants |-> IF v = v1 THEN 2 ELSE 1]
OneUnborn == [v \in Variants |-> IF v = v1 THEN 2 ELSE Unborn]
MCInitialGroups == p1 :> {}

\* Init on this table, with the attempts outside of active refused, the forms
\* outside of opened closed for good and some deletions of all orders used up.
Scenario(table, active, opened, cleared) ==
    /\ stock = table
    /\ groupsOf = InitialGroups
    /\ saveKey = [p \in Products |-> None]
    /\ archived = {} /\ orders = {} /\ recent = {}
    /\ status = [o \in Attempts |-> "PENDING"]
    /\ taken = [o \in Attempts |-> NoItems]
    /\ pc = [r \in Attempts |-> IF r \in active THEN "idle" ELSE "refused"]
    /\ answer = [r \in Attempts |-> None]
    /\ form = [f \in Forms |-> IF f \in opened THEN ClosedForm
                               ELSE [ClosedForm EXCEPT !.pc = "done"]]
    /\ clears = cleared
    /\ supply = [v \in Variants |-> IF table[v] \in Nat THEN table[v] ELSE 0]

Checkouts == Scenario(BothOnSale, Attempts, {}, 0)
ProductForms == \E r \in {a1, a2} : Scenario(OneUnborn, {r}, Forms, MaxClears)

MCInit == Checkouts \/ ProductForms
MCSpec == MCInit /\ [][Next]_vars
=============================================================================

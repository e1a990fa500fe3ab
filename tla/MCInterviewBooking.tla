------------------------- MODULE MCInterviewBooking -------------------------
(* Two departments, x and y.  ann is invited to both, bob to x; hal offers     *)
(* times in both, ida in y.  One instance for the two halves of the model:     *)
(* offering times and inviting, then booking, moving and reminding.            *)
EXTENDS InterviewBooking

CONSTANTS ax, ay, az, bx, early, late, noon, lateY, lateI, halX, halY, idaY, k1, k2, k3, k4, k5, t1, t2

MCPersonOf == [c \in Candidates |-> IF c = bx THEN "bob" ELSE "ann"]
MCDepartmentOf == [c \in Candidates |-> CASE c = ay -> "y" [] c = az -> "z" [] OTHER -> "x"]
MCBatchOf == [s \in Slots |-> CASE s = lateY -> halY [] s = lateI -> idaY [] OTHER -> halX]
MCHostOf == [b \in Batches |-> IF b = idaY THEN "ida" ELSE "hal"]
MCOfferedIn == [b \in Batches |-> IF b = halX THEN "x" ELSE "y"]
MCStartOf == [s \in Slots |-> CASE s = early -> 3 [] s = noon -> 5 [] OTHER -> 4]
MCEndOf == [s \in Slots |-> MCStartOf[s] + 1]
MCForOf == [k \in Bookings |-> CASE k = k3 -> ay [] k = k4 -> bx [] OTHER -> ax]
MCTargetOf == [k \in Bookings |-> CASE k = k2 -> late [] k = k3 -> lateI [] k = k5 -> noon [] OTHER -> early]

\* Init with the candidates of bound in the list, the times of offered on offer, taken by
\* ax where held, and the calls outside of active over.
Scenario(bound, offered, held, active) ==
    LET At(call) == IF call \in active THEN "idle" ELSE "done" IN
    /\ candidate = [c \in Candidates |-> IF c \in bound THEN "bound" ELSE "none"]
    /\ slot = [s \in Slots |-> [row |-> IF s \in offered THEN "offered" ELSE "none",
                               candidate |-> IF s \in held THEN ax ELSE None, reminded |-> FALSE]]
    /\ team = Staff /\ leaving = {}
    /\ adding = [c \in Candidates |-> At(c)]
    /\ batch = [b \in Batches |-> [pc |-> At(b), fresh |-> {}]]
    /\ booking = [b \in Bookings |-> [pc |-> At(b), previous |-> {}, since |-> 0]]
    /\ tick = [t \in Ticks |-> [pc |-> At(t), due |-> {}]]
    /\ reminders = {} /\ raced = {}
    /\ now = 0

Inviting == Scenario({}, {lateI}, {}, {ax, ay, az, k3})
Offering == Scenario({ax}, {}, {}, {halX, halY, k1})
Moving == Scenario({ax, bx}, {early, late, noon}, {early}, {k2, k4, k5})
InTwoPlaces == Scenario({ax, ay}, {late, lateI}, {}, {k2, k3})
Reminding == Scenario({ax, bx}, {early, late}, {}, {k1, k2, t1, t2})

MCInit == Inviting \/ Offering \/ Moving \/ InTwoPlaces \/ Reminding
MCSpec == MCInit /\ [][Next]_vars

\* The recruiters change while times are offered, not while they are booked or reminded of.
TeamWhileOffering ==
    team # Staff => /\ \A b \in Bookings \ {k1} : booking[b].pc = "done"
                    /\ \A t \in Ticks : tick[t].pc = "done"
=============================================================================

------------------------ MODULE MCEventRegistration ------------------------
(* One event and two people.  ann comes by the Mini App, by the site (with a *)
(* donation or without) and by an organizer; bob by the site, with one.      *)
EXTENDS EventRegistration, TLC

CONSTANTS ann, bob, app, site, paidSite, added, web, s1, s2

MCKindOf == [r \in Requests |-> IF r = app THEN "app" ELSE IF r = added THEN "organizer"
                               ELSE "site"]
MCSymmetry == Permutations({s1, s2})
MCPersonOf == [r \in Requests |-> IF r = web THEN bob ELSE ann]

\* Init with the requests outside of active refused long ago and part of the bounds used up.
Scenario(active, used) ==
    /\ rows = {} /\ linked = {} /\ knows = {} /\ found = {} /\ registered = {} /\ confirmed = {}
    /\ paid = [r \in Requests |-> "NOT_REQUIRED"]
    /\ closed = FALSE
    /\ token = [r \in Requests |-> "none"]
    /\ pc = [r \in Requests |-> IF r \in active THEN "idle" ELSE "refused"]
    /\ start = [s \in Starts |-> NewStart]
    /\ tx = [w \in Requests \cup Starts |-> "out"] /\ late = {}
    /\ sending = [c \in Requests \X Causes |-> 0]
    /\ tickets = [r \in Requests |-> <<>>]
    /\ spent = used

Places == Scenario({app, site, web}, [reviews |-> 1, faults |-> 1])
Tickets == Scenario({paidSite, added}, [reviews |-> 0, faults |-> 1])
Failures == Scenario({paidSite, added}, [reviews |-> 1, faults |-> 0])

MCInit == Places \/ Tickets \/ Failures
MCSpec == MCInit /\ [][Next]_vars
=============================================================================
